SPECIFICATION Spec
CONSTANTS
    Candidate <- MCCandidate
    CorpusOf <- MCCorpusOf
    Evidence <- MCEvidence
    EvidenceOf <- MCEvidenceOf
    Approvals <- MCApprovals
    ApprovalsOf <- MCApprovalsOf
    Validity = 2
    MaxAge = 1
    ReleaseKey <- MCReleaseKey
    AllowedKeys <- MCAllowedKeys
    RotationState = {"overlap", "retired"}
    Client = {k1, k2}
    Importer = {i1, i2}
    d1 = d1
    d2 = d2
    d3 = d3
    MediaId = {d1, d2, d3}
    AddressOf <- MCAddressOf
    Here <- MCHere
    MaxSequence = 2
    MaxTime = 2
    MaxAttestations = 1
    MaxAuthorizations = 1
    MaxRequests = 2
    MaxExports = 2
    MaxImports = 2
    MaxPackages = 1
    MaxCrashes = 1
CONSTRAINT SignedFirst
INVARIANTS
    OneSignatureReleased
    ActivatedIsApproved
    MediaOnce
    ImportedKept
SYMMETRY Swaps
CHECK_DEADLOCK FALSE
