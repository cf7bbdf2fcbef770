SPECIFICATION FairSpec
CONSTANTS
  e1 = e1
  e2 = e2
  Exec = {e1, e2}
  None = None
  MaxClock = 2
  Durations = {1}
  MaxSlice = 1
  MaxEvents = 1
  Killable = {e1, e2}
  Debuggable = {}
INVARIANTS
  ListsConsistent
PROPERTIES
  RunScriptReturnsAfterChild
  NotWokenEarly
  SlicedScriptsRun
  SleepersWake
  KilledScriptsGo
CHECK_DEADLOCK FALSE
