SPECIFICATION Spec
CONSTANTS
  e1 = e1
  e2 = e2
  e3 = e3
  Exec = {e1, e2, e3}
  None = None
  MaxClock = 2
  Durations = {1}
  MaxSlice = 1
  MaxEvents = 0
  Killable = {e1, e2, e3}
  Debuggable = {e3}
SYMMETRY Symmetry
VIEW View
INVARIANTS
  ListsConsistent
  ParentAlive
CHECK_DEADLOCK FALSE
