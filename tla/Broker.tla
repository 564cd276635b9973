------------------------------- MODULE Broker -------------------------------
(* The peer of a connection: the broker's side of one AMQP session together *)
(* with the inbound half of rabbitmq-c, neither of which is in the          *)
(* repository.  Both are modelled from how connection.c uses them:          *)
(*   - wire    frames the broker has sent and the client has not read;      *)
(*   - queued  frames rabbitmq-c read while it waited for the reply to an   *)
(*             RPC and put aside.  An RPC never looks at these again; only  *)
(*             amqp_simple_wait_frame (drain_events, basic_get) does, and   *)
(*             it takes them before anything on the wire.                   *)
(* A message is one frame here; its method, header and body parts are not   *)
(* told apart.                                                              *)
EXTENDS Naturals, Sequences

CONSTANTS
    MaxChannelId,   \* ids run over 1..MaxChannelId; 0 is the connection itself
    Tags,           \* consumer tags
    None,           \* "no tag", "no object", "no callbacks"
    MaxInFlight     \* bound: frames in flight at once (queued and on the wire)

ASSUME BrokerAssumption ==
    /\ MaxChannelId \in Nat \ {0}
    /\ MaxInFlight \in Nat
    /\ None \notin Tags

VARIABLES
    link,     \* "up" while the TCP connection and the broker's session last
    bchan,    \* what the broker thinks of each channel id
    bcons,    \* the consumers the broker has on each channel id
    queued,
    wire

brokerVars == <<link, bchan, bcons, queued, wire>>

Ids == 1..MaxChannelId

(* "deliver" is basic.deliver with a body, "empty" one whose body is empty, *)
(* "chclose" channel.close, "content" the content of a basic.get-ok that    *)
(* the client did not read with it, "other" any other method (basic.return, *)
(* a close-ok nobody waits for).                                            *)
FrameKinds == {"deliver", "empty", "chclose", "content", "other"}
Frame(k, c, t) == [kind |-> k, ch |-> c, tag |-> t]
Frames == [kind : FrameKinds, ch : Ids, tag : Tags \cup {None}]

(* In the order in which amqp_simple_wait_frame returns them. *)
Inbound == queued \o wire
Without(s, i) == SubSeq(s, 1, i - 1) \o SubSeq(s, i + 1, Len(s))

IsClose(f, c) == f.kind = "chclose" /\ f.ch = c
ClosesOnWire(c) == {i \in DOMAIN wire : IsClose(wire[i], c)}

BrokerTypeOK ==
    /\ link \in {"up", "down"}
    /\ bchan \in [Ids -> {"closed", "open", "closing"}]
    /\ bcons \in [Ids -> SUBSET Tags]
    /\ queued \in Seq(Frames)
    /\ wire \in Seq(Frames)

BrokerInit ==
    /\ link = "down"
    /\ bchan = [c \in Ids |-> "closed"]
    /\ bcons = [c \in Ids |-> {}]
    /\ queued = <<>>
    /\ wire = <<>>

-----------------------------------------------------------------------------
(* What an RPC can end with.  "channel.close" is a refusal, or a close that  *)
(* was on its way; it is seen only while it is still on the wire.  A channel *)
(* the broker is closing answers nothing but channel.close ("silence").  A   *)
(* lost link or a connection.close ("failure") is always possible, and all   *)
(* that a method on a channel that is not open can get.                      *)
Replies(c) ==
    {"failure"} \cup
    IF link = "down" THEN {}
    ELSE CASE bchan[c] = "open" -> {"ok", "channel.close"}
           [] bchan[c] = "closing" ->
                IF ClosesOnWire(c) # {} THEN {"channel.close"} ELSE {"silence"}
           [] bchan[c] = "closed" -> {}

(* Taking the first n frames of Inbound. *)
Take(n) ==
    /\ queued' = SubSeq(queued, n + 1, Len(queued))
    /\ wire' = SubSeq(wire, (IF n > Len(queued) THEN n - Len(queued) ELSE 0) + 1, Len(wire))

(* Reading up to a reply that comes after everything on the wire. *)
ReadOn ==
    /\ queued' = queued \o wire
    /\ wire' = <<>>

(* An RPC on an open channel succeeds; the channel's consumers become cons. *)
Answered(c, cons) ==
    /\ ReadOn
    /\ bcons' = [bcons EXCEPT ![c] = cons]
    /\ UNCHANGED <<link, bchan>>

(* The channel.close an RPC meets is consumed by it: one still to be sent   *)
(* (a refusal), or the one at i on the wire.                                *)
Refused(c) ==
    /\ bchan[c] = "open"
    /\ ReadOn
    /\ bchan' = [bchan EXCEPT ![c] = "closing"]
    /\ bcons' = [bcons EXCEPT ![c] = {}]
    /\ UNCHANGED link

CloseMet(c) ==
    /\ bchan[c] = "closing"
    /\ \E i \in ClosesOnWire(c) :
         /\ queued' = queued \o SubSeq(wire, 1, i - 1)
         /\ wire' = SubSeq(wire, i + 1, Len(wire))
    /\ UNCHANGED <<link, bchan, bcons>>

(* channel.close-ok followed by a channel.open that the broker answers.     *)
(* stray is what the broker had sent in between and nobody waits for.       *)
Reopened(c, stray) ==
    /\ link = "up"
    /\ wire' = <<>>
    /\ \/ /\ ClosesOnWire(c) = {}
          /\ queued' = queued \o wire \o stray
       \/ \E i \in ClosesOnWire(c) : queued' = queued \o Without(wire, i) \o stray
    /\ bchan' = [bchan EXCEPT ![c] = "open"]
    /\ bcons' = [bcons EXCEPT ![c] = {}]
    /\ UNCHANGED link

Opened(c) ==
    /\ link = "up"
    /\ bchan[c] = "closed"
    /\ ReadOn
    /\ bchan' = [bchan EXCEPT ![c] = "open"]
    /\ bcons' = [bcons EXCEPT ![c] = {}]
    /\ UNCHANGED link

(* channel.close answered by close-ok.  A broker that has sent its own close *)
(* answers too, and goes on waiting for the close-ok it is owed.            *)
Closed(c) ==
    /\ link = "up"
    /\ ReadOn
    /\ \/ bchan[c] = "open" /\ bchan' = [bchan EXCEPT ![c] = "closed"]
       \/ bchan[c] = "closing" /\ ClosesOnWire(c) = {} /\ UNCHANGED bchan
    /\ bcons' = [bcons EXCEPT ![c] = {}]
    /\ UNCHANGED link

(* A login that succeeds starts a session with nothing in it. *)
SessionStarts ==
    /\ link' = "up"
    /\ bchan' = [c \in Ids |-> "closed"]
    /\ bcons' = [c \in Ids |-> {}]
    /\ queued' = <<>>
    /\ wire' = <<>>

(* amqp_connection_close and amqp_destroy_connection. *)
Teardown ==
    /\ link' = "down"
    /\ bchan' = [c \in Ids |-> "closed"]
    /\ bcons' = [c \in Ids |-> {}]
    /\ queued' = <<>>
    /\ wire' = <<>>

-----------------------------------------------------------------------------
(* What the broker and the network do on their own. *)
CanSend == link = "up" /\ Len(queued) + Len(wire) < MaxInFlight
Send(f) == wire' = Append(wire, f) /\ UNCHANGED <<link, bchan, queued>>

Deliver(c, t) ==
    /\ CanSend
    /\ bchan[c] = "open" /\ t \in bcons[c]
    /\ \E k \in {"deliver", "empty"} : Send(Frame(k, c, t))
    /\ UNCHANGED bcons

(* basic.return of a mandatory message that could not be routed. *)
BasicReturn(c) ==
    /\ CanSend
    /\ bchan[c] = "open"
    /\ Send(Frame("other", c, None))
    /\ UNCHANGED bcons

(* An error in a method that has no reply (basic.publish to an exchange that *)
(* does not exist, basic.ack of an unknown tag) closes the channel.         *)
CloseChannelAsync(c) ==
    /\ CanSend
    /\ bchan[c] = "open"
    /\ bchan' = [bchan EXCEPT ![c] = "closing"]
    /\ bcons' = [bcons EXCEPT ![c] = {}]
    /\ wire' = Append(wire, Frame("chclose", c, None))
    /\ UNCHANGED <<link, queued>>

(* The link goes, or the broker closes the connection; what had arrived by  *)
(* then can still be read.                                                  *)
LinkDown ==
    /\ link = "up"
    /\ link' = "down"
    /\ bchan' = [c \in Ids |-> "closed"]
    /\ bcons' = [c \in Ids |-> {}]
    /\ \E n \in 0..Len(wire) : wire' = SubSeq(wire, 1, n)
    /\ UNCHANGED queued

(* The queue a consumer reads from is deleted: the consumer goes with it,   *)
(* and a client that does not ask for basic.cancel is not told.             *)
ConsumerGone(c, t) ==
    /\ t \in bcons[c]
    /\ bcons' = [bcons EXCEPT ![c] = @ \ {t}]
    /\ UNCHANGED <<link, bchan, queued, wire>>

BrokerNext ==
    \/ \E c \in Ids, t \in Tags : Deliver(c, t) \/ ConsumerGone(c, t)
    \/ \E c \in Ids : BasicReturn(c)
    \/ \E c \in Ids : CloseChannelAsync(c)
    \/ LinkDown
=============================================================================
