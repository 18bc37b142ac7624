SPECIFICATION Spec
CONSTANTS
    c1 = c1
    c2 = c2
    Channels = {c1, c2}
    Requests = {r1, r2}
    Policies = {{c1}, {c1, c2}}
    RPM <- HealthRPM
    MaxConcurrency <- HealthConcurrency
    Slots = 2
    Threshold = 2
    FailureCooldown = 1
    RetryAfter = {0, 2}
    Window = 1
    MaxTime = 2
    MaxRevision <- HealthRevision
    MaxBurst = 2
    NoChannel = NoChannel
SYMMETRY Symmetry
INVARIANTS
    HealthOfConfiguration
    ProbeOwned
    OneProbe
PROPERTIES
    CooldownNotShortened
