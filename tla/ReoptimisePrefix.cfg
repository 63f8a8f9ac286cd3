SPECIFICATION Spec
CONSTANTS
    Vehicles = {1, 2, 3}
    Orders = {1,2,3,4}
    NOrders = 4
    At <- MCAt
    Duration <- Road
    Distance <- Road
    Window <- MCWindow
    Service <- MCService
    Quantity <- MCQuantity
    Capacity <- MCCapacity
    Shift <- MCShift
    Neighbours = 1
    ChurnWeights = {0, 20}
    MaxTime = 11
INVARIANTS LocksHold
