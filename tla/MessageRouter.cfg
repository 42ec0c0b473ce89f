SPECIFICATION Spec
SYMMETRY Swaps
CHECK_DEADLOCK FALSE
CONSTANTS
  s1 = s1
  s2 = s2
  q1 = q1
  q2 = q2
  Sender = {s1, s2}
  Request = {q1, q2}
  Profiles <- ChartProfiles
  WindowLimit = 1
  Clues = 1
  Slots = 1
  MaxTurns = 1
INVARIANTS
  FieldSafe
  NeverRaisesAfterSending
  MemoryPrivate
PROPERTIES
  BlockRespected
