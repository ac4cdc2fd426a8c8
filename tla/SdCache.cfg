CONSTANTS
    LastRom = 2
    LastCache = 3
    OutOfFile = {2}
    MaxPatched = 1
    MaxDma = 2
    Code = {0}
    None = None
SPECIFICATION Spec
INVARIANTS
    TablesAgree
    MappedIsLoaded
    FetchIsOwned
    PointersHold
    CodeIsCurrent
    PatchesStay
PROPERTIES
    ImplementsRomReader
    LoadsEnd
CHECK_DEADLOCK FALSE
