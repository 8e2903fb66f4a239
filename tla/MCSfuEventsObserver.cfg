CONSTANTS
  web = web
  llm = llm
  ParticipantId = {web, llm, observer}
  Member = {web, llm}
  ProducerId = {x}
  Channel = {c1}
  Capacity = 2
  RouterMayDie = TRUE
  NoOne = NoOne
  NoChannel = NoChannel
CHECK_DEADLOCK FALSE
SPECIFICATION Spec
INVARIANT
  SendersAreMembers
