--------------------------- MODULE MCSqliteHandles ---------------------------
(* Model values and symmetry for SqliteHandles. *)
EXTENDS SqliteHandles, TLC

Alike ==
  Permutations(Clients) \cup Permutations(Sets) \cup Permutations(Handles) \cup Permutations(Vdbes)
=============================================================================
