SPECIFICATION Spec
CONSTANTS
    HwIrqs = {vblank, timer}
    EmuIrqs = {dma}
    Required = {vblank}
    Masks <- SomeMasks
    GuestPsrs <- FewModes
    SavedPsrs <- ToFiq
    WrittenRegs = {}
    MaxWrites = 0
    GxFifo = GxFifo
    arm7 = arm7
    Sound = {arm7}
    vblank = vblank
    timer = timer
    dma = dma
    none = none
    bios = bios
    swi = swi
    Values <- MCValues
    Moved <- Unmoved
    BiosReturn <- MCBiosReturn
    SwiReturn <- MCSwiReturn
    InitialValue <- MCInitialValue
    ZeroValue <- MCZeroValue
    BootPsr <- MCBootPsr
    ZeroPsr <- MCZeroPsr
INVARIANTS
    PendingIsLatched
PROPERTIES
    HandlersKeepTheGuest
    ImplementsGbaCpu
