SPECIFICATION Spec
CONSTANTS
  Callers = {"a", "b", "f"}
  Threads = {1}
  None = none
  ThreadOf <- OneThread
  Chat <- ChatIds
  Timed <- TimedIds
  MaxFault = 1
INVARIANTS TypeOK OwnResult NoSilentWait
CHECK_DEADLOCK FALSE
