SPECIFICATION CallSpec
CONSTANTS
    References <- MCReferences
    PYOBJECT_ARRAY_MAX = 2
    INT32_MAX = 3
    LONG_MAX = 15
    Ascii = {"a", "b"}
    Unicode = {"u"}
    Invalid = {"x"}
    Junk = {"a", "x"}
    Args <- MCArgs
    Delivered <- MCDelivered
    MaxProperties = 1
INVARIANTS
    TypeOK
    OwnedOnce
    ReleasedAtReturn
    SentAsGiven
    FailureReported
    PropertiesGivenBack
    NullOnlyInLists
    CallerBalance
PROPERTIES
    SentWhileHeld
CHECK_DEADLOCK FALSE
