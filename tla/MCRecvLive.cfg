SPECIFICATION FairSpec
CONSTANTS
    Channels = {1, 2}
    Timeouts <- MCTimeouts
    NoTimeout = NoTimeout
    MaxMessages = 2
    Sizes = {0, 1}
    MaxDepth = 2
PROPERTIES
    EventuallyHandedOver
CHECK_DEADLOCK FALSE
