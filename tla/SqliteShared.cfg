SPECIFICATION Spec
SYMMETRY Alike
CONSTANTS
  Clients = {c1, c2}
  Sets = {s1, s2}
  Stmts = {p}
  Handles = {h1, h2}
  Vdbes = {v1, v2}
  RowCounts = {0, 2}
  Rules = {"one", "plain", "session"}
  None = none
INVARIANTS
  TypeOK
  RowsAreOwnAndAll
  CountIsOwn
  HandleLivesWithVdbes
