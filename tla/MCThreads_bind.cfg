SPECIFICATION Spec
CONSTANTS
  Handlers = {h1, h2, h3}
  Channels = {ch}
  ChannelOf <- OneChannel
  Threads = {t1, t2, t3}
  None = none
  MaxBuild = 2
  MaxRestart = 2
SYMMETRY Symmetric
CHECK_DEADLOCK FALSE
INVARIANTS TypeOK ToolsMatch PrimedBeforeUse CacheIsStored
