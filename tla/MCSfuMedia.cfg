CONSTANTS
  web = web
  llm = llm
  other = other
  far = far
  s1 = s1
  s2 = s2
  s3 = s3
  r1 = r1
  r2 = r2
  None = None
  Participant = {web, llm, other, far}
  SessionOf <- Placement
  RouterOf <- Routers
  TransportId = {t1, t2, t3}
  ProducerId = {x}
  ConsumerId = {k}
CHECK_DEADLOCK FALSE
SPECIFICATION Spec
INVARIANTS
  TypeOK
  NothingOutlivesSession
PROPERTIES
  MediaUninterrupted
  LifetimeSpec
SYMMETRY Symmetry
