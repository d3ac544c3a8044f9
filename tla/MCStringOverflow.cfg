SPECIFICATION Spec
CONSTANTS
    Channels <- MCChannels
    Names <- MCNames
    MaxLocks = 2
    TYPE_SIZE = 8
    TypeLens = {0, 2, 8}
INVARIANT
    NoStringOverflow
