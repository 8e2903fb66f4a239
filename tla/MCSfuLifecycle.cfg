CONSTANTS
  Call = {c1, c2, c3}
  SessionId = {s1, s2}
  NoSession = NoSession
  ShutdownTask = ShutdownTask
  ReplayMayBlock = TRUE
CHECK_DEADLOCK FALSE
SYMMETRY Symmetry
SPECIFICATION Spec
INVARIANTS
  TypeOK
  QueueExact
  ReplayUndisturbed
  SendersInSessions
