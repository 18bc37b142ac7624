SPECIFICATION Spec
CONSTANTS
    Keys = {k1, k2}
    Callers = {p1, p2, p3}
    Entries = {e1, e2, e3}
    NoEntry = NoEntry
    NoKey = NoKey
    NoOwner = NoOwner
INVARIANTS
    MutualExclusion
    EntryLifetime
PROPERTIES
    WaitersServed
    ImplementsLock
