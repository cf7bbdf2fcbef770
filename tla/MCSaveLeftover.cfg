SPECIFICATION Spec
CONSTANTS
  s1 = s1
  s2 = s2
  Serials = {s1, s2}
  SaveFiles <- MCSaveFiles
  Home <- MCHome
  NoFile = NoFile
  CrashAt = {"play"}
  Failures = TRUE
  MaxChanges = 3
  MaxFull = 1
  MaxIncr = 2
  MaxStarts = 1
PROPERTIES
  RestartsFromSave
CHECK_DEADLOCK FALSE
