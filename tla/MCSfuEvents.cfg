CONSTANTS
  web = web
  llm = llm
  ParticipantId = {web, llm}
  Member = {web, llm}
  ProducerId = {x, y}
  Channel = {c1, c2}
  Capacity = 2
  RouterMayDie = TRUE
  NoOne = NoOne
  NoChannel = NoChannel
CHECK_DEADLOCK FALSE
SPECIFICATION Spec
INVARIANTS
  TypeOK
  KnowsProducers
  AnnouncedTwiceAtMost
  ConfirmedFirst
  LateAnnouncement
  CloseAnnouncedTruly
  ReplayExists
  ReplayFits
PROPERTIES
  OrphanedIsFinal
  StreamsSpec
  LifetimeSpec
SYMMETRY Symmetry
