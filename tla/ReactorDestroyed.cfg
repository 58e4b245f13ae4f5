CONSTANTS
  Conns = {c1}
  Workers = {w1}
  MaxRequests = 1
  ResponseSize = 2
  None = None
SPECIFICATION FairSpec
PROPERTY ClosedIsDestroyed
CHECK_DEADLOCK FALSE
