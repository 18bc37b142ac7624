SPECIFICATION Spec
CONSTANTS
    c1 = c1
    c2 = c2
    Channels = {c1}
    Requests = {r1, r2, r3}
    Policies = {{c1}}
    RPM <- QuotaRPM
    MaxConcurrency <- QuotaConcurrency
    Slots = 2
    Threshold = 1
    FailureCooldown = 1
    RetryAfter = {0}
    Window = 2
    MaxTime = 4
    MaxRevision <- QuotaRevision
    MaxBurst = 3
    NoChannel = NoChannel
SYMMETRY Symmetry
INVARIANTS
    ReservationsConserved
    WindowWithinRPM
    AllowanceExact
