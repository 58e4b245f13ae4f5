CONSTANTS
  Timers = {t1, t2, t3}
  Timeouts = {2}
  SlotNum = 2
  ClockPeriod = 2
  MaxLag = 1
  MaxOps = 4
  None = None
  MaxTasks = 4
  ProxyWorkers = {p1, p2}
  TargetNum = 2
  MaxRequests = 4
  HttpMessages <- Messages
  Files <- FilesThere
  KnownSuffixes <- TypesKnown
  MaxReads = 3
  Elements = {Null, a, b}
  Null = Null
  MaxSize = 3
  CodePoints = {34, 92, 10, 31, 65, 127, 128, 2047, 2048, 55295, 57344, 65535, 65536, 1114111}
  StrayBytes = {128, 191, 194, 226, 237, 240, 247, 255}
  MaxText = 3
  IntBits = 3
  LargestBits = 6
  Precision = 4
  MaxDigits = 3
  Strings = {"", "a", "a0"}
  Scalars = {"1"}
  StackLimit = 3
  MaxTokens = 6
  Numbers = {"1"}
  SingleQuoted = {"'a'"}
  SpecialFloats = {"NaN"}
  OtherSettings <- Lenient
  MaxCharTokens = 6
  NameOrder <- NamesInOrder
  CStringOf <- CStrings
  RightMargin = 9
SPECIFICATION DataSpec
INVARIANTS
  ComponentsTypeOK ListsWellFormed
  RunningIsCurrent SelectsInTurn AnswersAsked
  QuotingRoundTrips NumbersRoundTrip ConversionsAgree  
  
SYMMETRY TimerSymmetry
CHECK_DEADLOCK FALSE
