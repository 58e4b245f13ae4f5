CONSTANTS
  Conns = {c1}
  Workers = {w1, w2}
  MaxRequests = 2
  ResponseSize = 2
  None = None
SPECIFICATION FairSpec
INVARIANT NoStuckOutput
PROPERTIES OutputLeaves 
CHECK_DEADLOCK FALSE
