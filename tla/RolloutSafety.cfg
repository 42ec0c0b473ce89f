\* Two attempts of each kind, two polls, and every interruption. A rollout that
\* is over stays over: the controller then has nothing left to do.
SPECIFICATION FairSpec
CHECK_DEADLOCK FALSE
CONSTANTS
  old = old
  target = target
  newer = newer
  None = None
  Release = {old, target, newer}
  SeqOf <- Sequences
  Target = target
  MaxActivations = 2
  MaxRestarts = 2
  MaxPolls = 2
  AttemptCap = 4
  Timeout = 2
  MaxClock = 2
  MaxFaults = 1
  MaxStepsBack = 1
  MaxOthers = 1
INVARIANTS
  RecordCoherent
  PodReplacedOnce
  VerifiedIsEarned
  AttemptsBudgeted
PROPERTIES
  RolloutSettles
