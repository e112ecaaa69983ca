-------------------------- MODULE MCSqlTransactions --------------------------
EXTENDS SqlTransactions, TLC

\* Handles are interchangeable; used by the runs without a liveness property.
HandleSymmetry == Permutations(Handles)
=============================================================================
