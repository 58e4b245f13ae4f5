CONSTANTS
  Conns = {c1, c2}
  Workers = {w1}
  MaxRequests = 1
  ResponseSize = 2
  None = None
SPECIFICATION Spec
INVARIANT AnswersItsOwnRequests
CHECK_DEADLOCK FALSE
