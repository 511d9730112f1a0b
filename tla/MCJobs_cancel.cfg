SPECIFICATION Spec
CONSTANTS
  Jobs = {"c"}
  None = none
  KindOf <- KindById
  Interval <- IntervalById
  Schedules = {}
  MissingDelay = 2
  Limit = 1
  MaxTime = 2
  MaxArm = 1
  MaxFault = 0
  MaxTag = 1
PROPERTY CancelStops
