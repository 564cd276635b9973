CONSTANTS
    MaxChannelId = 1
    Tags = {t1, t2}
    Objs = {o1, o2}
    None = None
    MaxInFlight = 2
    ExplicitIds = FALSE
SPECIFICATION Spec
SYMMETRY Symmetry
INVARIANTS
    IInv
    ConsumerHasCallback
    CloseIsPending
    FreeIdIsClosed
    ChannelErrorRevives
PROPERTIES
    DeliveryReachesConsumer
