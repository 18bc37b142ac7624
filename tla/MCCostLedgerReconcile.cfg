SPECIFICATION Spec
CONSTANTS
    Clients = {k1}
    Attempts = {a1}
    Admins = {m1, m2}
    MonthOf <- OneDay
    Kinds = {"production", "test"}
    Estimates = {1}
    Amounts = {0, 2}
    Limits = {1}
    MaxRevision = 2
    NoLimit = NoLimit
    NoAmount = NoAmount
    NoRow = NoRow
    NoEntry = NoEntry
    NoJob = NoJob
    Nobody = Nobody
INVARIANTS
    ReconciledOnce
    NoFreeCalls
PROPERTIES
    SettledOnce
    NoLostBudgetUpdate
    ReservationsEnd
