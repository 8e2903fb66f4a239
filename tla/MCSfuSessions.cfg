CONSTANTS
  NumRouters = 2
  MaxSessionsPerRouter = 2
  SessionId = {s1, s2, s3, s4, s5}
  EmptyId <- MCEmptyId
  ParticipantId <- MCParticipantId
  Call = {c1, c2}
  NoCall = NoCall
  NoSession = NoSession
SPECIFICATION FairSpec
INVARIANTS
  TypeOK
  CountersMatchSessions
  RouterCapacity
  RejectionJustified
  RoundRobinBalance
PROPERTIES
  ServiceSpec
  ScanAdvances
  MutexReleased
