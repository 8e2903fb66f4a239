CONSTANTS
  NumRouters = 1
  MaxSessionsPerRouter = 1
  SessionId = {s1}
  EmptyId <- MCEmptyId
  ParticipantId <- MCParticipantId
  Call = {c1}
  NoCall = NoCall
  NoSession = NoSession
SPECIFICATION Spec
INVARIANT
  ParticipantIdsPresent
