SPECIFICATION Spec
CONSTANTS
    Clients = {c1, c2}
    Problems = {p1}
    Keys = {k1}
    Jobs = {j1, j2}
    NoKey = NoKey
    NoJob = NoJob
    NoPlan = NoPlan
    Workers = 1
    MaxChunks = 1
    MaxCost = 1
    MaxRounds = 1
SYMMETRY Symmetry
INVARIANTS OneJobPerKey DonePlanIsWithinStock
PROPERTIES WaitedCancelIsFinal
CHECK_DEADLOCK FALSE
