SPECIFICATION Spec
CONSTANTS
    p = p
    q = q
    a = a
    Never = Never
    Untouched = Untouched
    Gone = Gone
    None = None
    Clients = {p, q}
    Contents = {a}
    TTL <- MixedTTL
    TouchOnRead <- ReaderTouches
    Limits = {}
    MaxTime = 3
INVARIANTS
    TypeOK
    KeepsPromise
    IdleHoldsNoLock
PROPERTIES
    PruneOnlyExpired
    CallsReturn
