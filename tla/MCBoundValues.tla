---------------------------- MODULE MCBoundValues ----------------------------
EXTENDS BoundValues, TLC

\* Temporaries are alike, and so are the places of result sets.
Alike == Permutations(Temps) \cup Permutations(Results)
=============================================================================
