CONSTANTS
    b1 = b1
    b2 = b2
    Bytes = {b1, b2}
    SaveTypes = {"sram", "file"}
    Consoles = {"DS", "DSi"}
    WaitFrames = 2
    Faults = {"save", "rtc", "card"}
    MaxStores = 3
    MaxPresses = 3
SPECIFICATION Spec
INVARIANTS
    CleanMeansSaved
PROPERTIES
    ImplementsSavedGame
    StoresReachTheCard
    ExitIsAnswered
CHECK_DEADLOCK FALSE
