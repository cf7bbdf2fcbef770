SPECIFICATION Spec
CONSTANTS
  e1 = e1
  e2 = e2
  e3 = e3
  Exec = {e1, e2, e3}
  None = None
  MaxClock = 2
  Durations = {1}
  MaxSlice = 1
  MaxEvents = 1
  Killable = {e1, e2, e3}
  Debuggable = {}
SYMMETRY Symmetry
VIEW View
INVARIANTS
  NoUseAfterFree
CHECK_DEADLOCK FALSE
