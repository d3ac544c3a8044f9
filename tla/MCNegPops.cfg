CONSTANTS
    BYTE_BITS <- MCByteBits
    WORD_BYTES <- MCWordBytes
    STK_INC <- MCStkInc
    Exprs <- NegExprs
    Args <- MCArgs
    FP <- MCFP
    MemByte <- MCMemByte
    MemOk <- MCMemOk
    Uninit = Uninit
    Contexts <- MCContexts
    STACK_TOP_FRAME <- MCStackTopFrame
    IdRegs <- MCIdRegs
    IdFrames <- MCIdFrames
    IdStrings <- MCIdStrings

SPECIFICATION Spec

INVARIANT
    MatchesReference
