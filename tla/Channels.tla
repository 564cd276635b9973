------------------------------ MODULE Channels ------------------------------
(* The Python layer of librabbitmq (librabbitmq/__init__.py): the registry   *)
(* of Channel objects, the callbacks of their consumers, the channel ids in  *)
(* use, and drain_events, which brings deliveries to the callbacks.  One     *)
(* thread makes calls, one at a time; the broker acts at any moment between  *)
(* two of them.                                                              *)
EXTENDS Connection

CONSTANTS
    Objs,           \* Channel objects, at most so many alive at once
    ExplicitIds     \* may the program ask for channel ids of its own choice?

ASSUME ChannelsAssumption ==
    /\ None \notin Objs
    /\ \A S \in SUBSET Tags : S # None
    /\ ExplicitIds \in BOOLEAN

VARIABLES
    channels,      \* Connection.channels
    callbacks,     \* Connection.callbacks, whose keys are None where absent
    used,          \* Connection._used_channel_ids
    objs,          \* the Channel objects; id 0 is one that does not exist
    fresh,         \* ghost: the ids taken from _get_free_channel_id since
                   \* the last login
    lost           \* ghost: the ids whose channel.close basic_qos has read and
                   \* thrown away since the last login

pyVars == <<channels, callbacks, used, objs, fresh, lost>>
vars == <<brokerVars, connVars, ret, pyVars>>

(* current is a ghost: the object was opened since the last login. *)
ObjRecord == [id : Ids \cup {0}, is_open : BOOLEAN, current : BOOLEAN]
NoObj == [id |-> 0, is_open |-> FALSE, current |-> FALSE]
Held == {o \in Objs : objs[o].id # 0}

TypeOK ==
    /\ ConnectionTypeOK
    /\ channels \in [Ids -> Objs \cup {None}]
    /\ callbacks \in [Ids -> (SUBSET Tags) \cup {None}]
    /\ used \in SUBSET Ids
    /\ objs \in [Objs -> ObjRecord]
    /\ fresh \in SUBSET Ids
    /\ lost \in SUBSET Ids

Init ==
    /\ ConnectionInit
    /\ channels = [c \in Ids |-> None]
    /\ callbacks = [c \in Ids |-> None]
    /\ used = {}
    /\ objs = [o \in Objs |-> NoObj]
    /\ fresh = {}
    /\ lost = {}

(* The program can make its next call once the last one has returned. *)
Idle == ~Hung

(* The call just made did not raise. *)
Returned == ret'.res = "ok"
-----------------------------------------------------------------------------
(* Connection.connect: a login starts a session, in which the objects and    *)
(* ids of the earlier ones mean nothing; nothing is done about them.         *)
LoggedIn ==
    /\ ConnectAccepted
    /\ objs' = [o \in Objs |-> [objs[o] EXCEPT !.current = FALSE]]
    /\ fresh' = {}
    /\ lost' = {}
    /\ UNCHANGED <<channels, callbacks, used>>

Connect ==
    /\ Idle
    /\ \/ connected /\ Return("ConnectionError", 0) /\ UNCHANGED pyVars
       \/ (ConnectUnreachable \/ ConnectRefused) /\ UNCHANGED pyVars
       \/ LoggedIn

(* Connection.close, which leaves the registry as it is.  reconnect is this  *)
(* followed by Connect.                                                      *)
Close ==
    /\ Idle
    /\ Fail("ok", 0)
    /\ UNCHANGED pyVars

(* The program drops the last reference to an object out of the registry. *)
Forget(o) ==
    /\ o \in Held
    /\ \A c \in Ids : channels[c] # o
    /\ objs' = [objs EXCEPT ![o] = NoObj]
    /\ UNCHANGED <<brokerVars, connVars, ret, channels, callbacks, used, fresh, lost>>

(* Mutant of OpenAndRegister: the id gets no dict of callbacks. *)
RegisterWithoutCallbacks(c, o) ==
    /\ o \in Objs \ Held
    /\ ChannelOpen(c)
    /\ IF Returned
       THEN /\ channels' = [channels EXCEPT ![c] = o]
            /\ objs' = [objs EXCEPT ![o] = [id |-> c, is_open |-> TRUE, current |-> TRUE]]
       ELSE UNCHANGED <<channels, objs>>
    /\ UNCHANGED callbacks

(* The part of channel() after an id has been chosen: the open, and the      *)
(* registration of a new object if the open did not raise.                   *)
OpenAndRegister(c, o) ==
    /\ o \in Objs \ Held
    /\ ChannelOpen(c)
    /\ IF Returned
       THEN /\ callbacks' = [callbacks EXCEPT ![c] = {}]
            /\ channels' = [channels EXCEPT ![c] = o]
            /\ objs' = [objs EXCEPT ![o] = [id |-> c, is_open |-> TRUE, current |-> TRUE]]
       ELSE UNCHANGED <<callbacks, channels, objs>>

(* _get_free_channel_id: the smallest id that is not in use, and not above   *)
(* channel_max, taken before the channel is opened.                          *)
FreeIds == {c \in 1..channel_max : c \notin used}

Channel(o) ==
    /\ Idle
    /\ \E c \in FreeIds :
         /\ \A d \in FreeIds : c <= d
         /\ used' = used \cup {c}
         /\ fresh' = fresh \cup {c}
         /\ OpenAndRegister(c, o)
    /\ UNCHANGED lost

NoFreeChannel ==
    /\ Idle
    /\ FreeIds = {}
    /\ Return("ConnectionError", 0)
    /\ UNCHANGED pyVars

(* channel(c): an object under that id is handed out as it is, whatever      *)
(* session it is from.                                                       *)
KnownChannel(c) ==
    /\ Idle
    /\ channels[c] # None
    /\ Return("ok", c)
    /\ UNCHANGED pyVars

ChannelById(c, o) ==
    /\ Idle /\ ExplicitIds
    /\ channels[c] = None
    /\ OpenAndRegister(c, o)
    /\ UNCHANGED <<used, fresh, lost>>

(* Mutant of CloseChannel: the entry stays in the registry. *)
CloseChannelKeepsEntry(o) ==
    /\ Idle /\ o \in Held
    /\ LET c == objs[o].id IN
         /\ ChannelClose(c)
         /\ IF ret'.res \in {"ok", "ChannelError"}
            THEN used' = used \ {c} /\ fresh' = fresh \ {c}
            ELSE UNCHANGED <<used, fresh>>
    /\ objs' = [objs EXCEPT ![o].is_open = FALSE]
    /\ UNCHANGED <<channels, callbacks, lost>>

(* Channel.close, that is _remove_channel: the object counts as closed from  *)
(* the start; a ChannelError is swallowed; any other error leaves the        *)
(* registry entry, the callbacks and the id behind.                          *)
CloseChannel(o) ==
    /\ Idle /\ o \in Held
    /\ LET c == objs[o].id IN
         /\ ChannelClose(c)
         /\ objs' = [objs EXCEPT ![o].is_open = FALSE]
         /\ IF ret'.res \in {"ok", "ChannelError"}
            THEN /\ channels' = [channels EXCEPT ![c] = None]
                 /\ callbacks' = [callbacks EXCEPT ![c] = None]
                 /\ used' = used \ {c}
                 /\ fresh' = fresh \ {c}
            ELSE UNCHANGED <<channels, callbacks, used, fresh>>
    /\ UNCHANGED lost

-----------------------------------------------------------------------------
(* The methods of Channel that only call the connection's. *)
Rpc(o) ==
    /\ Idle /\ o \in Held
    /\ LET c == objs[o].id IN
         \/ QueueBind(c)
         \/ QueueUnbind(c)
         \/ QueueDeclare(c)
         \/ QueueDelete(c)
         \/ QueuePurge(c)
         \/ ExchangeDeclare(c)
         \/ ExchangeDelete(c)
         \/ Flow(c)
         \/ BasicRecover(c)
         \/ BasicGet(c)
         \/ BasicPublish(c)
         \/ BasicAck(c)
         \/ BasicReject(c)
    /\ UNCHANGED pyVars

Qos(o) ==
    /\ Idle /\ o \in Held
    /\ LET c == objs[o].id IN
         /\ BasicQos(c)
         /\ lost' = IF connected /\ ret'.res = "ok" /\ bchan'[c] = "closing"
                  THEN lost \cup {c} ELSE lost
    /\ UNCHANGED <<channels, callbacks, used, objs, fresh>>

(* Mutant of BasicConsume: the dict is replaced, not added to. *)
BasicConsumeReplaces(o, t) ==
    /\ Idle /\ o \in Held
    /\ LET c == objs[o].id IN
         /\ ConsumeRpc(c, t, "ok")
         /\ callbacks' = IF Returned THEN [callbacks EXCEPT ![c] = {t}] ELSE callbacks
    /\ UNCHANGED <<channels, used, objs, fresh, lost>>

(* basic_consume: the callback is put down after the broker has agreed; the  *)
(* channel may have no entry in callbacks any more.                          *)
BasicConsume(o, t) ==
    /\ Idle /\ o \in Held
    /\ LET c == objs[o].id IN
         \/ /\ callbacks[c] # None
            /\ ConsumeRpc(c, t, "ok")
            /\ callbacks' = IF Returned THEN [callbacks EXCEPT ![c] = @ \cup {t}]
                                        ELSE callbacks
         \/ /\ callbacks[c] = None
            /\ ConsumeRpc(c, t, "raised")
            /\ UNCHANGED callbacks
    /\ UNCHANGED <<channels, used, objs, fresh, lost>>

(* basic_cancel: the callback goes first, whatever becomes of the RPC. *)
BasicCancel(o, t) ==
    /\ Idle /\ o \in Held
    /\ LET c == objs[o].id IN
         /\ callbacks' = IF callbacks[c] = None THEN callbacks
                         ELSE [callbacks EXCEPT ![c] = @ \ {t}]
         /\ CancelRpc(c, t)
    /\ UNCHANGED <<channels, used, objs, fresh, lost>>

-----------------------------------------------------------------------------
(* drain_events.  recv skips the contents nobody read, and acts on the first *)
(* method it finds.                                                          *)
FirstMethod(n) ==
    /\ n \in DOMAIN Inbound
    /\ Inbound[n].kind # "content"
    /\ \A m \in 1..(n - 1) : Inbound[m].kind = "content"

HasMethod == \E n \in DOMAIN Inbound : Inbound[n].kind # "content"

HasCallback(f) ==
    /\ callbacks[f.ch] # None
    /\ f.tag \in callbacks[f.ch]
    /\ channels[f.ch] # None

(* ApplyCallback finds the callback and calls it. *)
Dispatch(n) ==
    /\ Inbound[n].kind = "deliver"
    /\ HasCallback(Inbound[n])
    /\ Take(n)
    /\ ret' = Result("message", Inbound[n].ch)
    /\ UNCHANGED <<connVars, link, bchan, bcons>>

(* Mutant of BadFrame: frames that are not deliveries are skipped. *)
BadFrameSkipped(n) ==
    /\ Inbound[n].kind # "deliver"
    /\ Take(n)
    /\ ret' = Result("raised", 0)
    /\ UNCHANGED <<connVars, link, bchan, bcons>>

(* Everything else is an error of recv, and basic_recv closes the connection *)
(* after any of those: a delivery whose callback is not found or whose body  *)
(* is empty, any method but basic.deliver, and a channel.close, whose        *)
(* channel is revived first.                                                 *)
BadFrame(n) ==
    LET f == Inbound[n] IN
    \/ /\ f.kind = "deliver" => ~HasCallback(f)
       /\ f.kind # "chclose"
       /\ Fail("ConnectionError", f.ch)
    \/ f.kind = "chclose" /\ (Fail("ChannelError", f.ch) \/ Fail("ConnectionError", f.ch))

Drain ==
    /\ Idle
    /\ connected
    /\ \E n \in DOMAIN Inbound : FirstMethod(n) /\ (Dispatch(n) \/ BadFrame(n))
    /\ UNCHANGED pyVars

(* Nothing to act on: a dead link is an error, on a live one the timeout     *)
(* passes.  A call without a timeout waits: it is a Drain that is not yet    *)
(* enabled.                                                                  *)
DrainEmpty ==
    /\ Idle
    /\ \/ NotConnected /\ Return("ConnectionError", 0)
       \/ connected /\ ~HasMethod /\ link = "down" /\ Fail("ConnectionError", 0)
       \/ connected /\ Inbound = <<>> /\ link = "up" /\ Return("raised", 0)
    /\ UNCHANGED pyVars

(* A call that hangs ends with the link. *)
HangEnds ==
    /\ link = "down"
    /\ \/ ret.res = "hang" /\ Fail("ConnectionError", ret.ch)
       \/ ret.res = "qos hang" /\ Return("ok", ret.ch)
    /\ UNCHANGED pyVars

BrokerStep == BrokerNext /\ UNCHANGED <<connVars, ret, pyVars>>

Next ==
    \/ Connect
    \/ Close
    \/ NoFreeChannel
    \/ Drain
    \/ DrainEmpty
    \/ HangEnds
    \/ \E c \in Ids : KnownChannel(c)
    \/ \E o \in Objs :
         \/ Forget(o)
         \/ Channel(o)
         \/ CloseChannel(o)
         \/ Rpc(o)
         \/ Qos(o)
         \/ \E c \in Ids : ChannelById(c, o)
         \/ \E t \in Tags : BasicConsume(o, t) \/ BasicCancel(o, t)
    \/ BrokerStep

Spec == Init /\ [][Next]_vars

-----------------------------------------------------------------------------
(* The channels the program may rely on: registered since the last login,    *)
(* on a connection and a link that are up.                                   *)
InSession == connected /\ link = "up"
Registered(c) == channels[c] # None /\ objs[channels[c]].current

(* While connected, an object the registry holds from this session is open,  *)
(* carries the id it is registered under, and the broker has that channel:   *)
(* no sequence of refusals, revivals, closes through other objects and       *)
(* reconnects leaves channels (__init__.py) pointing to a channel that is    *)
(* gone.                                                                     *)
RegistryAgrees ==
    InSession => \A c \in Ids : Registered(c) =>
        /\ objs[channels[c]].id = c
        /\ objs[channels[c]].is_open
        /\ bchan[c] # "closed"

(* Whatever the broker may deliver to can be delivered: each consumer it has *)
(* on a registered channel has a callback in Connection.callbacks.           *)
ConsumerHasCallback ==
    InSession => \A c \in Ids : Registered(c) =>
        callbacks[c] # None /\ bcons[c] \subseteq callbacks[c]

(* An id taken by _get_free_channel_id during the session belongs to a       *)
(* registered channel for as long as it is in _used_channel_ids: an open     *)
(* that fails takes no id away from a connection that goes on.  (An id taken *)
(* while disconnected, or left over from an earlier session, is another      *)
(* matter.)                                                                  *)
NoIdLeak ==
    connected /\ ~Hung => \A c \in fresh : c \in used /\ Registered(c)

(* A channel the broker is waiting to see closed has its channel.close still *)
(* to be read, unless basic_qos has thrown it away: no error path consumes   *)
(* one without answering it.                                                 *)
CloseIsPending ==
    InSession => \A c \in Ids \ lost :
        bchan[c] = "closing" => \E n \in DOMAIN Inbound : IsClose(Inbound[n], c)

(* An id that channel() would take next is closed at the broker.  Where it   *)
(* is not, Channel.close met a channel.close (on the wire, and revived the    *)
(* channel it was to close; read before, and left it unanswered), and a      *)
(* frame is still to be read over which drain_events will end the session.   *)
FreeIdIsClosed ==
    InSession => \A c \in FreeIds \ lost :
        \/ bchan[c] = "closed"
        \/ \E n \in DOMAIN Inbound : Inbound[n].ch = c /\ Inbound[n].kind \in {"chclose", "other"}

(* After a ChannelError that left the connection up, the channel it was      *)
(* about is open again and without consumers (revive_channel), unless the    *)
(* broker has closed it once more since.                                     *)
ChannelErrorRevives ==
    LET c == ret.ch IN
    ret.res = "ChannelError" /\ InSession =>
        /\ bcons[c] = {}
        /\ bchan[c] = "open" \/ \E n \in DOMAIN Inbound : IsClose(Inbound[n], c)

(* A delivery for a consumer the broker still has is handed to its callback: *)
(* drain_events does not close the connection over it.                       *)
DeliveryReachesConsumer ==
    [][\A n \in DOMAIN Inbound :
         /\ InSession
         /\ Inbound[n].kind = "deliver"
         /\ FirstMethod(n)
         /\ Registered(Inbound[n].ch)
         /\ Inbound[n].tag \in bcons[Inbound[n].ch]
         /\ Drain
         => connected' /\ ret'.res = "message"]_vars

(* The inductive invariant behind these.  RegistryAgrees and                 *)
(* ConsumerHasCallback speak of a link that is up; the facts that last       *)
(* longer are that entries carry their own id, whatever became of the        *)
(* session, that an object stays open while the connection does, that the    *)
(* broker delivers on open channels only (so a call left without an answer   *)
(* has no consumers to be missed), and that an id taken is accounted for     *)
(* unless the very open it was taken for is still waiting.                   *)
ConsumersOpen == \A c \in Ids : bcons[c] # {} => bchan[c] = "open"

EntriesAreOwn ==
    \A c \in Ids : channels[c] # None =>
        objs[channels[c]].id = c /\ callbacks[c] # None

RegisteredIsOpen ==
    connected => \A c \in Ids : Registered(c) => objs[channels[c]].is_open

RegisteredIsLive ==
    InSession => \A c \in Ids : Registered(c) => bchan[c] # "closed"

FreshIsRegistered ==
    connected /\ ret.res # "hang" => \A c \in fresh : c \in used /\ Registered(c)

IInv ==
    /\ TypeOK
    /\ ConsumersOpen
    /\ EntriesAreOwn
    /\ RegisteredIsOpen
    /\ RegisteredIsLive
    /\ ConsumerHasCallback
    /\ FreshIsRegistered

(* The ids of the current session, as leases. *)
Holder == [c \in Ids |-> IF connected /\ Registered(c) THEN channels[c] ELSE None]
Lease == INSTANCE ChannelLease WITH holder <- Holder
ImplementsLease == Lease!LeaseSpec

-----------------------------------------------------------------------------
(* What the documents promise and the code does not do. *)

(* fileno() gives a descriptor only while connected. *)
FilenoHonest == sockfd => connected

(* A ChannelError does not cost the connection. *)
ChannelErrorKeepsConnection ==
    [][link = "up" /\ ret'.res = "ChannelError" /\ Drain => connected']_vars

(* A message with an empty body is delivered like any other. *)
EmptyBodiesAllowed ==
    [][\A n \in DOMAIN Inbound :
         FirstMethod(n) /\ Inbound[n].kind = "empty" /\ HasCallback(Inbound[n]) /\ Drain
         => connected']_vars

(* No call waits for a reply that will not come. *)
NeverHangs == link = "up" => ~Hung
=============================================================================
