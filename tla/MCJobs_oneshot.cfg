SPECIFICATION Spec
CONSTANTS
  Jobs = {"r", "w"}
  None = none
  KindOf <- KindById
  Interval <- IntervalById
  Schedules = {}
  MissingDelay = 2
  Limit = 1
  MaxTime = 2
  MaxArm = 2
  MaxFault = 2
  MaxTag = 1
INVARIANT TypeOK
PROPERTY PostsArePaid
