\* One node sends two messages under two keys; its release changes once, the
\* registry once, and the controller restarts once. Time stops at MaxTime.
SPECIFICATION Spec
CHECK_DEADLOCK FALSE
CONSTANTS
  n1 = n1
  r1 = r1
  r2 = r2
  NoRelease = NoRelease
  Nodes = {n1}
  Releases = {r1, r2}
  MaxSkew = 1
  Timeout = 2
  Drift = {0}
  MaxDrift = 0
  MaxSequence = 2
  MaxKey = 2
  MaxChanges = 1
  MaxRestarts = 1
  MaxEnrolments = 1
  MaxTime = 3
SYMMETRY Interchangeable
INVARIANTS
  ShownIsNewest
  CompliantServed
  RevokedFades
PROPERTIES
  LearnsInOrder
