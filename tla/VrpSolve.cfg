SPECIFICATION Spec
CONSTANTS
    NDepots = 2
    NStops = 3
    Air <- MCAir
    Ids <- MCIds
    NoId = NoId
    d1 = d1
    Capacities = {1, 5}
    Legs <- MCLegs
    Angles = {0, 1, 3, 5}
    BatchSize = 5
    MaxCells = 4
    ChunkLimit = 3
    TripBound = 2
    Concurrency = 2
    Hysteresis = 2
    Speed = 2
    SanityLimit = 1
    MaxRadius = 3
    NoRadius = NoRadius
    Unreachable = 9
    Tau = 6
INVARIANTS AnswerIsSound
PROPERTIES EveryRequestAnswered
CHECK_DEADLOCK FALSE
