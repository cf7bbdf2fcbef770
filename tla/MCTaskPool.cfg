SPECIFICATION FairSpec
CONSTANTS
  w1 = w1
  w2 = w2
  w3 = w3
  t1 = t1
  t2 = t2
  t3 = t3
  Workers = {w1, w2, w3}
  Tasks = {t1, t2, t3}
  Checked = {t1}
  Throwing = {t1, t2}
  Done = Done
INVARIANTS
  NothingToPurge
PROPERTIES
  RunsAsPromised
  TasksFinish
  DestructorEnds
CHECK_DEADLOCK FALSE
