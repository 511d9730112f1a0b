SPECIFICATION FairSpec
CONSTANTS
  Callers = {"a", "f"}
  Threads = {1}
  None = none
  ThreadOf <- OneThread
  Chat <- ChatIds
  Timed <- TimedIds
  MaxFault = 2
PROPERTIES Returns TurnsKeepContract
CHECK_DEADLOCK FALSE
