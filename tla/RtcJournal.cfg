CONSTANTS
    d1 = d1
    d2 = d2
    Half = 3
    Data = {d1, d2}
    Legacy = {"none", "old"}
    Files <- MCFiles
    Faults = {"read", "write", "lost"}
    MaxWrites = 2
    MaxCuts = 2
    NoValue = NoValue
SPECIFICATION Spec
INVARIANTS
    SelectsTheNewest
    SelectedSurvives
    RestartRecovers
    CleanIsKept
    DamageIsPreserved
PROPERTIES
    PendingIsKept
    ImplementsDurableCell
CHECK_DEADLOCK FALSE
