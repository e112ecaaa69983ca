SPECIFICATION Spec
SYMMETRY Alike
CONSTANTS
  Dialects = {"sqlite", "mysql", "postgres"}
  Callers = {c1, c2}
  Tables <- MCTables
  Structs <- MCStructs
  Others <- MCOthers
  Calls = 3
INVARIANTS TypeOK AnswerIsTrue AttachTakesOwn TableAsDeclared
CHECK_DEADLOCK FALSE
