SPECIFICATION DSpec
CONSTANTS
    a = a
    s = s
    None = None
    Clients = {p, q}
    Contents = {a}
    Shards = {s}
    ShardOf <- MCShardOf
INVARIANTS
    PutIsDurable
