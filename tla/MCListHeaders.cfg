SPECIFICATION CallSpec
CONSTANTS
    References <- MCReferences
    PYOBJECT_ARRAY_MAX = 2
    INT32_MAX = 3
    LONG_MAX = 15
    Ascii = {"a", "b"}
    Unicode = {"u"}
    Invalid = {"x"}
    Junk = {"a", "x"}
    Args <- MCArgs
    Delivered <- MCDelivered
    MaxProperties = 1
INVARIANT ListHeadersArrive
CHECK_DEADLOCK FALSE
