SPECIFICATION Spec
CONSTANTS
  Dialects = {"sqlite", "mysql", "postgres"}
  Ids = {"0", "1"}
  Tags = {"1"}
  Levels = {"0", "1"}
  Lists <- MCLists
  Bounded = TRUE
  Nobody = Nobody
INVARIANTS
  TypeOK
  WhereSelectsItsRows
  InvalidIsNotSent
  ChangesOnlyItsRows
  MergesAsPromised
