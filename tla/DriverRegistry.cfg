SPECIFICATION Spec
CONSTANTS
  Libraries = {"mysql.so", "mysql2.so", "sqlite.so", "old.so", "anonymous.so", "static.so"}
  Exporting = {"mysql.so", "mysql2.so", "sqlite.so", "old.so", "anonymous.so"}
  Current = {"mysql.so", "mysql2.so", "sqlite.so", "anonymous.so"}
  Named = {"mysql.so", "mysql2.so", "sqlite.so", "old.so"}
  Registering = {"static.so"}
  Names = {"mysql", "sqlite", "postgres", "other"}
  NameOf <- MCNameOf
  BuiltIn = {"sqlite"}
  Objects = {early, db, other}
  Early = {early}
  Main = "main"
  None = None
INVARIANTS TypeOK CodeIsMapped KeptLibrariesAnswer
CHECK_DEADLOCK FALSE
