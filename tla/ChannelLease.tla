---------------------------- MODULE ChannelLease ----------------------------
(* What the channel registry promises: within a session an id belongs to one *)
(* Channel object at a time.  An object gets an id nobody holds, and the id   *)
(* comes back when a channel is closed or, all of them together, when the     *)
(* session ends.                                                              *)
CONSTANTS Ids, Objs, None

VARIABLE holder

LeaseInit == holder = [c \in Ids |-> None]

Acquire(c, o) ==
    /\ holder[c] = None
    /\ \A d \in Ids : holder[d] # o
    /\ holder' = [holder EXCEPT ![c] = o]

Release(c) == holder' = [holder EXCEPT ![c] = None]

EndSession == holder' = [c \in Ids |-> None]

LeaseNext ==
    \/ \E c \in Ids, o \in Objs : Acquire(c, o)
    \/ \E c \in Ids : Release(c)
    \/ EndSession

LeaseSpec == LeaseInit /\ [][LeaseNext]_holder
=============================================================================
