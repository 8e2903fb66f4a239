CONSTANTS
  web = web
  llm = llm
  ParticipantId = {web, llm}
  Member = {web, llm}
  ProducerId = {x}
  Channel = {c1, c2}
  Capacity = 2
  RouterMayDie = TRUE
  NoOne = NoOne
  NoChannel = NoChannel
CHECK_DEADLOCK FALSE
SPECIFICATION FairSpec
PROPERTIES
  OrphanedStreamEnds
  SubscribeReturns
  ProducerHeard
  CloseHeard
