CONSTANTS
    LastRom = 2
    LastCache = 2
    OutOfFile = {}
    MaxPatched = 0
    MaxDma = 0
    Code = {}
    None = None
SPECIFICATION SafeSpec
INVARIANT
    ReturnsRequestedBlock
CHECK_DEADLOCK FALSE
