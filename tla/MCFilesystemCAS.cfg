SPECIFICATION Spec
CONSTANTS
    a = a
    b = b
    s = s
    t = t
    None = None
    Clients = {p, q}
    Contents = {a, b}
    Shards = {s, t}
    ShardOf <- MCShardOf
INVARIANTS
    TypeOK
    NoTornObject
    TempOnlyInFlight
    IterationExact
PROPERTIES
    ImplementsContract
    CallsReturn
