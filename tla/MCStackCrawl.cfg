CONSTANTS
    WordBits <- MCWordBits
    MEM_HASH_SIZE <- MCMemHashSize
    BRANCH_LIST_SIZE <- MCBranchListSize
    MAX_INST <- MCMaxInst
    Regs <- MCRegs
    XLENs <- MCXLENs
    Programs <- MCPrograms
    Frames <- MCFrames
    Mapped <- MCMapped
    Mem0 <- MCMem0
    StackRegisterLocations = TRUE
    Requests = 2

SPECIFICATION Spec

INVARIANTS
    TypeOK
    NoFabrication
    CallerFrameSound
    Idempotent
    ReadByteReturnsTarget
    CachedByteNotRefetched
    BarrierOverlapExact

PROPERTY
    Terminates
