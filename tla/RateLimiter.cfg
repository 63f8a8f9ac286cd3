SPECIFICATION Spec
CONSTANTS
    Gateways = {g1, g2}
    Requests = {r1, r2}
    Clients = {c1}
    Configured = {g1, g2}
    Amount = 1
    Threads = 1
    PruneThreshold = 0
    MaxWindow = 1
    MaxArrivals = 3
    NoBucket = NoBucket
    NoGateway = NoGateway
    NoClient = NoClient
INVARIANTS AllowanceKept RefusalsAreEarned
PROPERTIES EveryCheckEnds
