SPECIFICATION Spec
CONSTANTS
  s1 = s1
  s2 = s2
  Serials = {s1, s2}
  SaveFiles <- MCSaveFiles
  Home <- MCHome
  NoFile = NoFile
  CrashAt = {"play", "incremental"}
  Failures = TRUE
  MaxChanges = 3
  MaxFull = 0
  MaxIncr = 2
  MaxStarts = 2
INVARIANTS
  SavedAndIndexed
PROPERTIES
  RestartsFromSave
CHECK_DEADLOCK FALSE
