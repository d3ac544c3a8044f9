CONSTANTS
    WordBits <- MCWordBits
    MEM_HASH_SIZE <- MCMemHashSize
    BRANCH_LIST_SIZE <- MCBranchListSize
    MAX_INST <- MCMaxInst
    Regs <- MCRegs
    XLENs = {32, 64, 128}
    Programs <- LeafPrograms
    Frames <- MCFrames
    Mapped <- MCMapped
    Mem0 <- MCMem0
    StackRegisterLocations = TRUE
    Requests = 1

SPECIFICATION Spec

INVARIANT
    CallerPcIsReturnAddress
