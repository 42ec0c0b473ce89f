\* Redis, two messages, two routers while a pod is replaced, a queue of one,
\* a stream of one entry, two faults. A stream that is answered out stops.
SPECIFICATION FairSpec
CHECK_DEADLOCK FALSE
CONSTANTS
  m1 = m1
  m2 = m2
  r1 = r1
  r2 = r2
  None = None
  Message = {m1, m2}
  Router = {r1, r2}
  Backend = "redis"
  QueueMax = 1
  Retries = 2
  StreamMax = 1
  MaxFaults = 2
INVARIANTS
  UnfinishedAvailable
  AcceptedAccounted
  DuplicatesExplained
PROPERTIES
  AcceptedResolved
