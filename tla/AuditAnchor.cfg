SPECIFICATION AnchorSpec
CONSTANTS
    Requester = {q1, q2}
    Subject = {x, y}
    MaxTime = 1
    MaxRestores = 1
    MaxEntries = 3
    MaxReceipts = 3
INVARIANTS
    AnchorsDecide
SYMMETRY Swaps
CHECK_DEADLOCK FALSE
