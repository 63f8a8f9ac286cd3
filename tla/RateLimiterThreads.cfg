SPECIFICATION Spec
CONSTANTS
    Gateways = {g1}
    Requests = {r1, r2}
    Clients = {c1}
    Configured = {}
    Amount = 1
    Threads = 2
    PruneThreshold = 1
    MaxWindow = 1
    MaxArrivals = 4
    NoBucket = NoBucket
    NoGateway = NoGateway
    NoClient = NoClient
INVARIANT LocalAllowance
