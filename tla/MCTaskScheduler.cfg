SPECIFICATION FairSpec
CONSTANTS
  t1 = t1
  t2 = t2
  t3 = t3
  o1 = o1
  p1 = p1
  OneShots = {t1, t2}
  Periodics = {p1}
  Owners = {o1}
  None = None
  Period = 2
  FirstRun = 1
  MaxDelay = 2
  MaxSleep = 1
  MaxLate = 0
INVARIANTS
  HandlesAgree
  SleepsUntilDue
PROPERTIES
  RunsAsScheduled
  ThreadsEnd
CHECK_DEADLOCK FALSE
