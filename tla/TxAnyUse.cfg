SPECIFICATION Spec
CONSTANTS
  Handles = {h1, h2}
  Plain = plain
  Backends = {"sqlite", "postgres", "mysql"}
  Overlap = TRUE
  FreeRebegin = TRUE
SYMMETRY HandleSymmetry
INVARIANTS
  TypeOK
  NoOrphanLock
