CONSTANTS
    MaxChannelId = 2
    Tags = {}
    Objs = {o1, o2}
    None = None
    MaxInFlight = 1
    ExplicitIds = TRUE
SPECIFICATION Spec
SYMMETRY Symmetry
INVARIANTS
    TypeOK
    RegistryAgrees
    NoIdLeak
    CloseIsPending
PROPERTIES
    ImplementsLease
