SPECIFICATION Spec
CONSTANTS
    heap = heap
    blobs = blobs
    note = note
    docs = docs
    raw = raw
    leaf = leaf
    None = None
    Atoms = {leaf}
    Inline = {note}
    Externalized = {docs, raw}
    Annotation <- MCAnnotation
    Values <- MCValues
    Domain <- OneEach
    Size <- MCSize
    Stores = {heap}
    Default = heap
    Volatile = {heap}
    BackendIds = {"memory"}
    BackendId <- MCBackendId
    Aliases <- MCAliases
    Thresholds = {1, 2}
    DefaultThreshold = 1
    Slots = {1}
    RefIds = {r1, r2, r3}
SYMMETRY Symmetric
INVARIANTS
    OwnThresholdCounts
