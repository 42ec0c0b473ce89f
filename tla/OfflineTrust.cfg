\* Two anchors, two snapshots, two boots, one failed write. Time stops at
\* MaxTime, and a node without acceptable evidence waits.
SPECIFICATION FairSpec
CHECK_DEADLOCK FALSE
CONSTANTS
  s1 = s1
  rel = rel
  key = key
  None = None
  Source = {s1}
  Release = rel
  Key = key
  Horizons = {1}
  Lifetimes = {3}
  EntryLists <- Lists
  MaxAge = 1
  MaxAnchors = 2
  MaxSnapshots = 2
  MaxBoots = 2
  MaxFaults = 1
  EventsUntil = 2
  MaxTime = 4
INVARIANTS
  TrustedTimeNeverAhead
  RevocationReachesAnswers
PROPERTIES
  TrustedTimeContinues
  AnswersWithinHorizon
  StartupConverges
