SPECIFICATION Spec
CONSTANTS
  s1 = s1
  s2 = s2
  Serials = {s1}
  SaveFiles <- MCSaveFiles
  Home <- MCHome
  NoFile = NoFile
  CrashAt = {"play", "refused"}
  Failures = FALSE
  MaxChanges = 3
  MaxFull = 2
  MaxIncr = 2
  MaxStarts = 1
INVARIANTS
  TypeOK
  SavedAndCurrent
PROPERTIES
  RestartsFromSave
  NewObjectsGetFreeSerials
CHECK_DEADLOCK FALSE
