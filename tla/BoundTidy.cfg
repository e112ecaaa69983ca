SPECIFICATION Spec
CONSTANTS
  Temps = {t1, t2}
  Variables = {v}
  Columns = {name, stamp}
  Stamp = stamp
  Results = {r1, r2}
  Drivers = {"sqlite", "mysql", "postgres"}
  MaxSlots = 3
  Rules = {"distinct", "once", "whole", "uniform", "cleared"}
  None = None
SYMMETRY Alike
INVARIANTS TypeOK SlotsGetTheirValues NoFreedValueRead
CHECK_DEADLOCK FALSE
