CONSTANTS
    b1 = b1
    Bytes = {b1}
    SaveTypes = {"file"}
    Consoles = {"DSi"}
    WaitFrames = 2
    Faults = {"save"}
    MaxStores = 1
    MaxPresses = 1
SPECIFICATION SafeSpec
INVARIANTS
    FatFsIsNotReentered
CHECK_DEADLOCK FALSE
