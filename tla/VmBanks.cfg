SPECIFICATION Spec
CONSTANTS
    HwIrqs = {}
    EmuIrqs = {dma}
    Required = {}
    Masks <- AllMasks
    GuestPsrs <- AllModes
    SavedPsrs <- ToFiq
    WrittenRegs = {12, 13}
    MaxWrites = 1
    GxFifo = GxFifo
    arm7 = arm7
    Sound = {}
    vblank = vblank
    timer = timer
    dma = dma
    none = none
    bios = bios
    swi = swi
    Values <- MCValues
    Moved <- MCMoved
    BiosReturn <- MCBiosReturn
    SwiReturn <- MCSwiReturn
    InitialValue <- MCInitialValue
    ZeroValue <- MCZeroValue
    BootPsr <- MCBootPsr
    ZeroPsr <- MCZeroPsr
PROPERTIES
    RequestsAreDelivered
    ImplementsGbaCpu
