SPECIFICATION SafeSpec
CONSTANTS
    Clients = {k1}
    Attempts = {a1, a2}
    Admins = {m1}
    MonthOf <- OneMonth
    Kinds = {"production"}
    Estimates = {1}
    Amounts = {0, 2}
    Limits = {1, NoLimit}
    MaxRevision = 1
    NoLimit = NoLimit
    NoAmount = NoAmount
    NoRow = NoRow
    NoEntry = NoEntry
    NoJob = NoJob
    Nobody = Nobody
SYMMETRY Symmetry
PROPERTIES
    BudgetHonoured
    NothingAfterRevocation
