SPECIFICATION EndlessSpec
CONSTANTS
  Jobs = {"p", "g"}
  None = none
  KindOf <- KindById
  Interval <- IntervalById
  Schedules = {1}
  MissingDelay = 2
  Limit = 1
  MaxTime = 3
  MaxArm = 1
  MaxFault = 1
  MaxTag = 1
PROPERTIES DueJobRuns CompletedUntilRearmed
