SPECIFICATION Spec
CONSTANTS
    Channels = {1, 2}
    Timeouts <- MCTimeouts
    NoTimeout = NoTimeout
    MaxMessages = 2
    Sizes = {0, 1, 2}
    MaxDepth = 2
INVARIANT OwnContent
CHECK_DEADLOCK FALSE
