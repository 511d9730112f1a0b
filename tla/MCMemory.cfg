SPECIFICATION MemorySpec
CONSTANTS
  FaTools = {x, y}
  FaTurns = {m}
  FaOpenKinds = {"pending_promise", "open_loop"}
  FaKeys = {k}
  FaNotes = {}
  FaLimit = 3
  FaPerKind = 1
  PwMaxEvent = 3
  PwThreshold = 4
  PwMaxClock = 6
  GsCallers = {x, y}
  GsCategories = {"a", "b"}
  GsTexts = {"t", "n"}
  GsFirst <- Begin
  GsMaxChannels = 8
  GsLimit = 2
  GsSome = 1
  GsMany = 2
  GsBudgets <- Errands
SYMMETRY Same
INVARIANTS MemoryTypeOK FaGoneIsTraced FaContextWhole PwWokenOnce PwSinceIsLast GsTwinsOverlapped GsViewsHonest
PROPERTIES GsChosenKept
CHECK_DEADLOCK FALSE
