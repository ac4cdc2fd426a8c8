CONSTANTS
    b1 = b1
    Bytes = {b1}
    SaveTypes = {"sram"}
    Consoles = {"DSi"}
    WaitFrames = 2
    Faults = {"save"}
    MaxStores = 2
    MaxPresses = 3
SPECIFICATION SafeSpec
INVARIANTS
    DiscardIsInformed
CHECK_DEADLOCK FALSE
