SPECIFICATION Spec
CONSTANTS
  Drivers = {"sqlite", "mysql", "postgres"}
  Types = {"bool", "char", "int8", "int16", "int32", "int64", "enum", "float", "double", "text", "view", "blob", "blobview", "date"}
  None = None
INVARIANTS TypeOK BoundComesBack LoadsWhatIsStored
CHECK_DEADLOCK FALSE
