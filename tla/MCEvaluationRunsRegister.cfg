SPECIFICATION Spec
CONSTANTS
    Runs = {e1, e2}
    Trials <- OneTrial
    Retries = 0
    MaxCost = 2
    Estimate = 1
    Charges = {0}
    MaxRestarts = 1
    NoRun = NoRun
PROPERTIES
    CloseEnds
    ImplementsRegister
