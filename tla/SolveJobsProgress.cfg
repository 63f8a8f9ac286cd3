SPECIFICATION Spec
CONSTANTS
    Clients = {c1}
    Problems = {p1}
    Keys = {}
    Jobs = {j1, j2}
    NoKey = NoKey
    NoJob = NoJob
    NoPlan = NoPlan
    Workers = 1
    MaxChunks = 2
    MaxCost = 1
    MaxRounds = 1
PROPERTIES AnytimeSpec EveryJobEnds
CHECK_DEADLOCK FALSE
