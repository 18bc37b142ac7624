SPECIFICATION Spec
CONSTANTS
    a1 = a1
    a2 = a2
    b1 = b1
    b2 = b2
    c1 = c1
    Channels = {a1, a2, b1, b2, c1}
    Tier <- TierOf
    MaxAttempts = 3
    MaxAttemptsPerPriority = 1
    PriorityTimeout = 1
    TotalTimeout = 4
    Editable = {c1}
    MaxEdits = 1
    MaxChanges = 1
    NoChannel = NoChannel
    NoRow = NoRow
SYMMETRY Symmetry
INVARIANTS
    VerdictRecorded
    CalledAsConfigured
    LastTierKept
    BackupInTime
