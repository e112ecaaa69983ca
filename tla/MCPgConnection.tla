--------------------------- MODULE MCPgConnection ---------------------------
(* Model values and symmetry for PgConnection. *)
EXTENDS PgConnection, TLC

Places == Permutations(Clients) \cup Permutations(Sets)
=============================================================================
