SPECIFICATION Spec
CONSTANTS
  Handlers = {h1, h2}
  Channels = {ch}
  ChannelOf <- OneChannel
  Threads = {t1, t2}
  None = none
  MaxBuild = 2
  MaxRestart = 2
SYMMETRY Symmetric
CHECK_DEADLOCK FALSE
INVARIANT OneThreadPerChannel
