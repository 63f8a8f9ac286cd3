SPECIFICATION Spec
CONSTANTS
    Gateways = {g1, g2}
    Requests = {r1, r2}
    Keys = {k1, k2, k3}
    Unserved = {k2}
    TooLong = {k3}
    Configured = {g1}
    Attempts = 2
    L1TTL = 2
    L2TTL = 2
    OpTime = 1
    NoEntry = NoEntry
    NoBody = NoBody
    NoGateway = NoGateway
    NoKey = NoKey
    NoAnswer = NoAnswer
INVARIANTS CachesAreTrue ErrorsAreEarned
PROPERTIES EveryRequestEnds
