CONSTANTS
  Call = {c1, c2, c3}
  SessionId = {s1}
  NoSession = NoSession
  ShutdownTask = ShutdownTask
  ReplayMayBlock = TRUE
CHECK_DEADLOCK FALSE
SPECIFICATION FairSpec
PROPERTIES
  ShutdownSignalled
  CallsReturn
  EmptyServerStops
