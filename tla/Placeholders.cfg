SPECIFICATION Spec
CONSTANTS
  Themes <- MCThemes
  Dialects = {"sqlite", "mysql", "postgres"}
  MaxPieces = 5
INVARIANTS TypeOK ReadAsTheServerReads RewriteKeepsParameters
CHECK_DEADLOCK FALSE
