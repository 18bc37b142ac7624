SPECIFICATION SafeSpec
CONSTANTS
    Runs = {e1}
    Trials <- ThreeTrials
    Retries = 2
    MaxCost = 3
    Estimate = 1
    Charges = {0, 1, 4}
    MaxRestarts = 2
    NoRun = NoRun
INVARIANTS
    TypeOK
    Tallied
PROPERTIES
    NoCallAfterCancel
    WithinBudget
