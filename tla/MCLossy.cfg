SPECIFICATION Spec
CONSTANTS
    heap = heap
    blobs = blobs
    note = note
    docs = docs
    raw = raw
    leaf = leaf
    None = None
    Atoms = {leaf}
    Inline = {}
    Externalized = {docs}
    Annotation <- MCAnnotation
    Values <- LossyValues
    Domain <- AllValues
    Size <- LossySize
    Stores = {heap}
    Default = heap
    Volatile = {heap}
    BackendIds = {"memory"}
    BackendId <- MCBackendId
    Aliases <- MCAliases
    Thresholds = {1}
    DefaultThreshold = 1
    Slots = {1}
    RefIds = {r1, r2, r3}
SYMMETRY Symmetric
INVARIANTS
    CheckpointPreservesAll
