SPECIFICATION VoiceSpec
CONSTANTS
  PkCallers = {x, y}
  PkTaps = {"k"}
  PkCap = 1
  PkMaxJoin = 2
  PkMaxFed = 3
  RtCallers = {x, y}
  RtConfigs = {ch1, ch2}
  RtDefault = default
  RtNone = none
  RtMaxDial = 2
  RtMaxGone = 1
  RtBudgets <- Calls
  VoCallers = {x, y}
  VoChannels = {ch1, ch2}
  VoOwner = owner
  VoGuests = {guest}
  VoNone = none
  VoMaxSession = 2
  VoMaxMove = 2
  VoBudgets <- Budgets
SYMMETRY Same
INVARIANTS VoiceTypeOK PkNoOrphan RtCurrentIsRead RtCleanMeansTold VoCurrentIsOpen VoLiveIsCurrent VoOpenRowExplained VoGuestNotOwner
PROPERTIES PkIsStream RtLossIsOwn VoReopenedByCall
CHECK_DEADLOCK FALSE
