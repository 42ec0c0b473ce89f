\* The attempt limits configured at what the attempt fields can hold.
SPECIFICATION Spec
CHECK_DEADLOCK FALSE
CONSTANTS
  old = old
  target = target
  newer = newer
  None = None
  Release = {old, target, newer}
  SeqOf <- Sequences
  Target = target
  MaxActivations = 2
  MaxRestarts = 2
  MaxPolls = 2
  AttemptCap = 2
  Timeout = 2
  MaxClock = 2
  MaxFaults = 1
  MaxStepsBack = 1
  MaxOthers = 1
INVARIANT RecordCoherent
