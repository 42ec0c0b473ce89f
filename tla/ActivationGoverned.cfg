\* Releases and recoveries as they are governed, on a node whose processes
\* crash and whose writes and steps can fail before they take effect.
\* MaxCounter ends a behaviour: the node itself waits for the next operator.
SPECIFICATION FairSpec
CHECK_DEADLOCK FALSE
CONSTANTS
  r1 = r1
  r2 = r2
  r3 = r3
  auth1 = auth1
  auth2 = auth2
  n1 = n1
  n2 = n2
  Digest = {r1, r2, r3}
  AuthId = {auth1, auth2}
  Nonce = {n1, n2}
  NoDigest = NoDigest
  Absent = Absent
  Broken = Broken
  NoPolicy = NoPolicy
  Candidates <- GovernedCandidates
  Authorizations <- GovernedAuthorizations
  FaultKinds = {"write_error", "step_error", "crash"}
  MaxFaults = 2
  MaxCounter = 3
INVARIANTS
  PointerServable
PROPERTIES
  ServiceResumes
