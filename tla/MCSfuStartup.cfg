CONSTANTS
  WorkerCounts <- MCWorkerCounts
  PortRange = 8
  FirstPort = 5
CHECK_DEADLOCK FALSE
SPECIFICATION Spec
INVARIANTS
  TypeOK
  PoolComplete
  PortsDistinct
