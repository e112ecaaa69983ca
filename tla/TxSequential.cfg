SPECIFICATION FairSpec
CONSTANTS
  Handles = {h1, h2}
  Plain = plain
  Backends = {"sqlite", "postgres", "mysql"}
  Overlap = FALSE
  FreeRebegin = FALSE
INVARIANTS
  SingleHolder
  NoDanglingConnection
PROPERTIES
  WritesLandAsReported
  LockSpec
  LockReleased
