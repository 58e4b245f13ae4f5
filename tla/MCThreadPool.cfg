CONSTANTS
  Workers = {w1, w2}
  ThreadNum = 1
  Submitters = {s1, s2}
  Tasks = {t1, t2, t3}
  None = None
SPECIFICATION FairSpec
INVARIANTS TypeOK NoStrandedTask PopsWhatItRead
PROPERTIES ImplementsTaskPool EveryTaskRuns
CHECK_DEADLOCK FALSE
