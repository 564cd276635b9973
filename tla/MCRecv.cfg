SPECIFICATION Spec
CONSTANTS
    Channels = {1, 2}
    Timeouts <- MCTimeouts
    NoTimeout = NoTimeout
    MaxMessages = 2
    Sizes = {0, 1, 2}
    MaxDepth = 2
INVARIANTS
    TypeOK
    IInv
PROPERTIES
    LentBodyKept
    NonBlocking
    ImplementsMailbox
CHECK_DEADLOCK FALSE
