SPECIFICATION SessionSpec
CONSTANTS
    Requests = {r1, r2, r3}
    Tokens = {t1, t2}
    MaxPasswordChanges = 2
SYMMETRY Symmetry
INVARIANTS
    SessionsOfPassword
PROPERTIES
    ReplacesVerified
