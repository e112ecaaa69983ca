SPECIFICATION FairSpec
CONSTANTS
  Sets = {s1, s2}
  Stmts = {p}
  MaxRows = 2
  Rules = {"finish", "drain", "plain"}
  None = none
INVARIANTS
  TypeOK
  RowsAreOwnAndAll
  PendingHasReader
PROPERTIES
  NextReturns
