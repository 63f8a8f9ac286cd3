SPECIFICATION Spec
CONSTANTS
    Orders = {1, 2, 3}
    Vehicles = {1, 2}
    ShiftStart <- MCShiftStart
    HorizonEnd = 12
    EpochLength = 3
    Release <- MCRelease
    Leg <- MCLeg
    NoRoad = NoRoad
    Closes <- MCCloses
    Gap <- MCGap
    Longest = 5
    Probability = 1
    Scenarios = 2
    Rounds = 2
    SendAt = 2
    HoldAt = 0
    Full = 2
    Quantity <- MCQuantity
    Capacity <- MCCapacity
    Unseen = Unseen
INVARIANTS EveryOrderGoesInTime HoldingIsHonest
CHECK_DEADLOCK FALSE
