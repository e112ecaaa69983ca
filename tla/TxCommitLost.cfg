SPECIFICATION Spec
CONSTANTS
  Handles = {h1, h2}
  Plain = plain
  Backends = {"postgres"}
  Overlap = FALSE
  FreeRebegin = FALSE
PROPERTY CommitKeepsWrites
