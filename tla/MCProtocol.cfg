SPECIFICATION Spec
CONSTANTS
    Channels <- MCChannels
    REPLY_HASH_SIZE = 3
    TOKEN_BITS = 2
    MaxSends = 6
    MaxPending = 3
    CloseSendsSame = FALSE
INVARIANTS
    TypeOK
    UniquePendingTokens
    AtMostOnce
    ClosedLeavesNoPending
PROPERTIES
    CloseCompletesPending
    RefinesRequestReply
