SPECIFICATION LinkSpec
CONSTANTS
  Callers = {"a", "b", "d"}
  Direct = {"d"}
  Timed = {"a"}
  Tasks = {"t"}
  Crews <- LinkCrews
  None = none
  MaxStart = 2
  MaxDeath = 1
INVARIANTS LinkTypeOK NoStrandedCall PublishedIsGreeted RepliesGoBack CrashNeedsForeignLoss
PROPERTY OnlyStaleTeardown
CHECK_DEADLOCK FALSE
