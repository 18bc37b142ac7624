SPECIFICATION Spec
CONSTANTS
    Requests = {r1, r2, r3}
    Clients = {a, b, c}
    GlobalRPM = 2
    IPRPM = 1
    Concurrency = 2
    IPConcurrency = 1
    MaxClients = 2
    BodyLimit = 2
    BodyBudget = 3
    Lengths <- SomeLengths
    KeyRPM = 1
    Minute = 2
    MaxLate = 1
    NoBucket = NoBucket
    Nobody = Nobody
SYMMETRY Symmetry
INVARIANTS
    WithinLimits
    RateWithin
PROPERTIES
    AllowancePaid
