SPECIFICATION GateSpec
CONSTANTS
    Slots = {r1, r2, r3, r4}
    Concurrency = 1
    MaxDepth = 1
    Threads = 2
INVARIANTS WaiterCountExact PermitsConserved QueueIsSound DepthOvershoot
PROPERTIES EveryWaiterIsAnswered
