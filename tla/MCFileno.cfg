CONSTANTS
    MaxChannelId = 2
    Tags = {t1}
    Objs = {o1, o2}
    None = None
    MaxInFlight = 1
    ExplicitIds = FALSE
SPECIFICATION Spec
SYMMETRY Symmetry
INVARIANT FilenoHonest
