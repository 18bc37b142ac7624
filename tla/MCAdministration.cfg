SPECIFICATION Spec
CONSTANTS
    Credentials = {c1, c2}
    Channels = {h1, h2}
    Policies = {p1, p2}
    Keys = {k1}
    Runs = {e1}
    Admins = {a1, a2}
    MaxChanges = 3
    NoRow = NoRow
    Gone = Gone
    NoView = NoView
    NoChange = NoChange
    Nobody = Nobody
SYMMETRY Symmetry
INVARIANTS
    ReferencesIntact
PROPERTIES
    FormsAreCurrent
    EnabledWhenReady
CHECK_DEADLOCK FALSE
