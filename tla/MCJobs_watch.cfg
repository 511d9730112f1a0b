SPECIFICATION Spec
CONSTANTS
  Jobs = {"v"}
  None = none
  KindOf <- KindById
  Interval <- IntervalById
  Schedules = {2}
  MissingDelay = 2
  Limit = 1
  MaxTime = 3
  MaxArm = 2
  MaxFault = 2
  MaxTag = 2
PROPERTIES WatchNoRepeat SeenWasAnnounced
