SPECIFICATION Spec
CONSTANTS
    oldStore = oldStore
    newStore = newStore
    note = note
    docs = docs
    leaf = leaf
    None = None
    Atoms = {leaf}
    Tasks = {k1, k2}
    Inline = {note}
    Externalized = {docs}
    Domain <- MCDomain
    Fits <- MCFits
    Handed <- MCHanded
    Stores = {oldStore, newStore}
    Default = oldStore
    BackendIds = {"fs", "pg"}
    BackendId <- MCBackendId
    Aliases <- MCAliases
SYMMETRY Symmetric
INVARIANTS
    TypeOK
    RefsSound
    ChannelsFaithful
    HydratesAsWritten
