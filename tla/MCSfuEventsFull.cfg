CONSTANTS
  web = web
  llm = llm
  ParticipantId = {web, llm}
  Member = {web, llm}
  ProducerId = {x, y}
  Channel = {c1}
  Capacity = 2
  RouterMayDie = FALSE
  NoOne = NoOne
  NoChannel = NoChannel
CHECK_DEADLOCK FALSE
SPECIFICATION FairSpec
PROPERTY
  SubscribeReturns
