\* The same node; what a reboot does to the lower bound of the next anchor.
SPECIFICATION Spec
CHECK_DEADLOCK FALSE
CONSTANTS
  s1 = s1
  rel = rel
  key = key
  None = None
  Source = {s1}
  Release = rel
  Key = key
  Horizons = {1}
  Lifetimes = {3}
  EntryLists <- Lists
  MaxAge = 1
  MaxAnchors = 2
  MaxSnapshots = 2
  MaxBoots = 2
  MaxFaults = 1
  EventsUntil = 2
  MaxTime = 4
INVARIANT CivilTimeNeverMovesBack
