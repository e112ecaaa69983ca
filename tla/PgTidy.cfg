SPECIFICATION FairSpec
CONSTANTS
  Clients = {c1, c2}
  Sets = {s1, s2}
  Stmts = {p}
  MaxRows = 2
  Rules = {"sets", "session"}
  None = none
INVARIANTS
  TypeOK
  RowsAreOwnAndAll
  SessionAsBelieved
PROPERTIES
  CallsReturn
