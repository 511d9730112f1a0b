SPECIFICATION Spec
CONSTANTS
  Jobs = {"t"}
  None = none
  KindOf <- KindById
  Interval <- IntervalById
  Schedules = {}
  MissingDelay = 2
  Limit = 1
  MaxTime = 2
  MaxArm = 1
  MaxFault = 0
  MaxTag = 1
INVARIANT TaskRunsOnce
