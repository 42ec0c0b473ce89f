SPECIFICATION Spec
CONSTANTS
    MaxTime = 1
    MaxRestores = 1
    Controller = {c1, c2}
    Source <- MCSource
    Content = {a, b}
    ValidUntil <- MCValidUntil
    MaxWork = 2
    MaxPublishes = 1
    MaxCrashes = 1
INVARIANTS
    StateBacked
    ChangesTold
SYMMETRY Swaps
CHECK_DEADLOCK FALSE
