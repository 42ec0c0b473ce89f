\* Every operator input and every fault the environment can inject.
\* MaxCounter ends a behaviour: the node itself waits for the next operator.
SPECIFICATION Spec
CHECK_DEADLOCK FALSE
CONSTANTS
  r1 = r1
  r2 = r2
  r3 = r3
  auth1 = auth1
  auth2 = auth2
  n1 = n1
  n2 = n2
  Digest = {r1, r2}
  AuthId = {auth1, auth2}
  Nonce = {n1, n2}
  NoDigest = NoDigest
  Absent = Absent
  Broken = Broken
  NoPolicy = NoPolicy
  Candidates <- AnyCandidates
  Authorizations <- AnyAuthorizations
  FaultKinds = {"write_error", "late_error", "step_error", "crash", "power_loss"}
  MaxFaults = 1
  MaxCounter = 3
INVARIANTS
  ServesCommittedRelease
PROPERTIES
  ImplementsLedger
  ProductionMovesForward
  ReceiptsStrictlyNumbered
  SuccessIsCommitted
  FailureLeavesPointer
