SPECIFICATION Spec
CONSTANTS
    ByteBits = 2
    PageSize = 8
    NumPhysPages = 11
    GPRegs <- Regs
    JumpBits = 4
    UserStacksAreaSize = 20
    USER_START_ADDRESS = 8
    Images <- MCImages
    Cases <- MCCases
INVARIANT ImageLoaded
PROPERTIES
    AccessConfined
    ResultExact
    DelaySlots
    TrapHarmless
    StoreExact
CHECK_DEADLOCK FALSE
