SPECIFICATION LibrarySpec
CONSTANTS
    short = short
    long = long
    h1 = h1
    h2 = h2
    plain = plain
    Contents = {h1, h2}
    Junk = Junk
    None = None
    Slots = {e1, e2}
    Texts = {short, long}
    SizeOfText <- MCSizeOfText
    WrapperSize = 3
    Limits = {0, 3}
    MaxDepth = 3
    Keys = {key}
    Hashes = {h1, h2}
    Names = {n1, n2}
    Lookalikes = {}
    Plain = {plain}
    MaxItems = 4
    NoHash = NoHash
    MaxClasses = 4
    Importable <- MCImportable
    Unnamed = "unnamed"
CHECK_DEADLOCK FALSE
INVARIANTS
    LibraryTypeOK
    DictKeepsLatest
    ListIsFirstOnes
    EntriesRecoverable
    OneHydrationEnough
    KindsAgree
    MigrationComplete
PROPERTIES
    MigrationEnds
    NeverSwitches
