\* Kafka, one router, one fault: the processing of the first message raises.
SPECIFICATION Spec
CHECK_DEADLOCK FALSE
CONSTANTS
  m1 = m1
  m2 = m2
  r1 = r1
  r2 = r2
  None = None
  Message = {m1, m2}
  Router = {r1}
  Backend = "kafka"
  QueueMax = 1
  Retries = 2
  StreamMax = 9
  MaxFaults = 1
INVARIANTS
  UnfinishedAvailable
