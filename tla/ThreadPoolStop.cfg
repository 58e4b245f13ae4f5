CONSTANTS
  Workers = {w1, w2}
  ThreadNum = 2
  Submitters = {s1}
  Tasks = {t1}
  None = None
SPECIFICATION FairSpec
PROPERTY StopEndsWorkers
CHECK_DEADLOCK FALSE
