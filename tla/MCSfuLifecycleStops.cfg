CONSTANTS
  Call = {c1, c2}
  SessionId = {s1}
  NoSession = NoSession
  ShutdownTask = ShutdownTask
  ReplayMayBlock = FALSE
CHECK_DEADLOCK FALSE
SPECIFICATION FairSpec
PROPERTY
  ShutdownStops
