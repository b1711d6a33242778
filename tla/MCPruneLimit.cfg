SPECIFICATION Spec
CONSTANTS
    p = p
    q = q
    a = a
    Never = Never
    Untouched = Untouched
    Gone = Gone
    None = None
    Clients = {p, q}
    Contents = {a}
    TTL <- SameTTL
    TouchOnRead <- ReaderTouches
    Limits = {1}
    MaxTime = 2
PROPERTIES
    PruneOnlyExpired
