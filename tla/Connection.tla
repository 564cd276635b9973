----------------------------- MODULE Connection -----------------------------
(* The C extension type _librabbitmq.Connection: its state and its methods   *)
(* (Modules/_librabbitmq/connection.c), one operator per method.  A method   *)
(* runs from its call to its return in one step: the RPC it makes, the error *)
(* handling, the revival of the channel and the closing of the connection    *)
(* are all part of that step.  Module Channels calls these operators the way *)
(* the Python layer calls the methods.                                       *)
EXTENDS Broker

VARIABLES
    connected,    \* self->connected
    conn,         \* self->conn: "null", "live" or "destroyed"
    sockfd,       \* self->sockfd > 0
    channel_max,  \* self->channel_max
    ret           \* how the last call ended; a ChannelError or a call that has
                  \* not ended goes with its channel

connVars == <<connected, conn, sockfd, channel_max>>

(* "hang" is a call that has not returned: it waits for a reply the broker   *)
(* will not send; "qos hang" is the same in basic_qos, which ignores how the *)
(* wait ends.  "raised" is any other exception (socket.timeout, KeyError, or *)
(* one for a name or a table that cannot be converted).                      *)
Results == {"ok", "message", "raised", "ConnectionError", "ChannelError",
            "hang", "qos hang"}
Waits == {"hang", "qos hang"}
Result(r, c) == [res |-> r, ch |-> IF r \in Waits \cup {"ChannelError"} THEN c ELSE 0]
Hung == ret.res \in Waits

ConnectionTypeOK ==
    /\ BrokerTypeOK
    /\ connected \in BOOLEAN
    /\ conn \in {"null", "live", "destroyed"}
    /\ sockfd \in BOOLEAN
    /\ channel_max \in Ids
    /\ ret \in [res : Results, ch : Ids \cup {0}]

ConnectionInit ==
    /\ BrokerInit
    /\ connected = FALSE
    /\ conn = "null"
    /\ sockfd = FALSE
    /\ channel_max = MaxChannelId
    /\ ret = Result("ok", 0)

(* A call that returns without touching the connection or the broker. *)
Return(r, c) ==
    /\ ret' = Result(r, c)
    /\ UNCHANGED <<connVars, brokerVars>>

NotConnected == ~connected

-----------------------------------------------------------------------------
(* close: connected is cleared first, and then all of it goes. *)
ConnectionClose ==
    IF connected
    THEN /\ connected' = FALSE
         /\ conn' = "destroyed"
         /\ sockfd' = FALSE
         /\ Teardown
         /\ UNCHANGED channel_max
    ELSE UNCHANGED <<connVars, brokerVars>>

Fail(r, c) == ConnectionClose /\ ret' = Result(r, c)

(* revive_channel: close-ok, then channel.open.  The broker reopens a        *)
(* channel it was closing; close-ok for any other channel, and an open       *)
(* answered by a channel.close still on the wire (create_channel then        *)
(* revives channel 0), end in a closed connection, and so can a lost link.   *)
ReviveChannel(c, r) ==
    \/ /\ link = "up" /\ bchan[c] = "closing" /\ ClosesOnWire(c) = {}
       /\ Reopened(c, <<>>)
       /\ ret' = Result(r, c)
       /\ UNCHANGED connVars
    \/ Fail("ConnectionError", c)

(* Mutants of ChannelErrorRevive: the channel.close is reported and nothing   *)
(* else done; close-ok is sent and the channel not opened again.             *)
ChannelErrorUnanswered(c, stray) ==
    /\ Refused(c) \/ CloseMet(c)
    /\ ret' = Result("ChannelError", c)
    /\ UNCHANGED connVars

ChannelErrorNotReopened(c, stray) ==
    /\ ReadOn
    /\ bchan' = [bchan EXCEPT ![c] = "closed"]
    /\ bcons' = [bcons EXCEPT ![c] = {}]
    /\ ret' = Result("ChannelError", c)
    /\ UNCHANGED <<connVars, link>>

(* HandleAMQError on a channel.close the RPC has just read (chanerror):      *)
(* Reopened takes it off the wire, if it was not sent in this very exchange. *)
ChannelErrorRevive(c, stray) ==
    \/ /\ Reopened(c, stray)
       /\ ret' = Result("ChannelError", c)
       /\ UNCHANGED connVars
    \/ Fail("ConnectionError", c)

Silence(c, r) == Return(r, c)

(* HandleAMQError on the other replies of an RPC on channel c. *)
HandleAMQError(c, reply) ==
    \/ reply = "channel.close" /\ ChannelErrorRevive(c, <<>>)
    \/ reply = "failure" /\ Fail("ConnectionError", c)
    \/ reply = "silence" /\ Silence(c, "hang")

(* The shape of every RPC method: the connected check, the exchange, the     *)
(* error handler.  cons is what a success leaves as the channel's consumers. *)
Method(c, cons, r) ==
    \/ NotConnected /\ Return("ConnectionError", c)
    \/ /\ connected
       /\ \E reply \in Replies(c) :
            \/ /\ reply = "ok"
               /\ Answered(c, cons)
               /\ ret' = Result(r, c)
               /\ UNCHANGED connVars
            \/ HandleAMQError(c, reply)

(* The methods that take names or a table of arguments convert them first;   *)
(* what cannot be converted is raised before anything is sent.               *)
EncodingMethod(c, cons, r) ==
    \/ connected /\ Return("raised", c)
    \/ Method(c, cons, r)

QueueBind(c) == EncodingMethod(c, bcons[c], "ok")
QueueUnbind(c) == EncodingMethod(c, bcons[c], "ok")
QueueDeclare(c) == EncodingMethod(c, bcons[c], "ok")
ExchangeDeclare(c) == EncodingMethod(c, bcons[c], "ok")
QueuePurge(c) == EncodingMethod(c, bcons[c], "ok")
ExchangeDelete(c) == EncodingMethod(c, bcons[c], "ok")
Flow(c) == Method(c, bcons[c], "ok")
BasicRecover(c) == Method(c, bcons[c], "ok")

QueueDelete(c) == EncodingMethod(c, bcons[c], "ok")

(* A tag in use on the channel is a connection error. *)
ConsumeRpc(c, t, r) ==
    IF t \in bcons[c]
    THEN \/ NotConnected /\ Return("ConnectionError", c)
         \/ connected /\ (Return("raised", c) \/ Fail("ConnectionError", c))
    ELSE EncodingMethod(c, bcons[c] \cup {t}, r)

(* Mutant of CancelRpc: its connected check the wrong way round. *)
CancelNotSent(c, t) ==
    \/ connected /\ Return("ok", c)
    \/ NotConnected /\ Return("ConnectionError", c)

(* On a closed connection basic_cancel succeeds.  The tags are those that     *)
(* consumers can have: one that cannot be encoded is none of them.            *)
CancelRpc(c, t) ==
    \/ NotConnected /\ Return("ok", c)
    \/ connected /\ Method(c, bcons[c] \ {t}, "ok")

(* basic_qos sends its RPC and reads the reply like the others, and returns  *)
(* None whatever the reply was: a channel.close it reads is lost.            *)
BasicQos(c) ==
    \/ NotConnected /\ Return("ConnectionError", c)
    \/ /\ connected
       /\ \E reply \in Replies(c) :
            \/ reply = "ok" /\ Answered(c, bcons[c]) /\ ret' = Result("ok", c)
            \/ /\ reply = "channel.close"
               /\ Refused(c) \/ CloseMet(c)
               /\ ret' = Result("ok", c)
            \/ /\ reply = "failure"
               /\ link' = "down" /\ ReadOn
               /\ bchan' = [d \in Ids |-> "closed"]
               /\ bcons' = [d \in Ids |-> {}]
               /\ ret' = Result("ok", c)
            \/ /\ reply = "silence"
               /\ UNCHANGED brokerVars
               /\ ret' = Result("qos hang", c)
       /\ UNCHANGED connVars

GetEmpty(c) ==
    /\ Answered(c, bcons[c])
    /\ ret' = Result("ok", c)
    /\ UNCHANGED connVars

GetWithoutContent(c) ==
    /\ CanSend
    /\ queued' = Inbound
    /\ wire' = <<Frame("content", c, None)>>
    /\ ret' = Result("raised", c)
    /\ UNCHANGED <<connVars, link, bchan, bcons>>

(* recv(piggyback) takes the next frame whatever its channel.  A method is   *)
(* an error, for which basic_get closes the connection, a channel.close as   *)
(* well: it is revived first.                                                *)
GetWithContent(c) ==
    LET frames == Append(Inbound, Frame("content", c, None))
        first == Head(frames)
    IN  \/ /\ first.kind = "content"
           /\ queued' = Tail(frames)
           /\ wire' = <<>>
           /\ ret' = Result("message", c)
           /\ UNCHANGED <<connVars, link, bchan, bcons>>
        \/ first.kind # "content" /\ Fail("ConnectionError", c)
        \/ first.kind = "chclose" /\ Fail("ChannelError", first.ch)

(* basic_get: the content of a get-ok is read at once only if it has already *)
(* been received; otherwise the dict returned has no body and the caller's   *)
(* basic_get raises KeyError, leaving the content to come.                   *)
(* A name that cannot be encoded is raised before that.                      *)
BasicGet(c) ==
    \/ NotConnected /\ Return("ConnectionError", c)
    \/ connected /\ Return("raised", c)
    \/ /\ connected
       /\ \E reply \in Replies(c) :
            \/ /\ reply = "ok"
               /\ \/ GetEmpty(c) \/ GetWithoutContent(c) \/ GetWithContent(c)
            \/ HandleAMQError(c, reply)

(* The methods without a reply: sent, discarded by the broker or not, they   *)
(* return at once.  A send that fails is answered by reviving the channel.   *)
Post(c) ==
    \/ NotConnected /\ Return("ConnectionError", c)
    \/ connected /\ Return("ok", c)
    \/ connected /\ ReviveChannel(c, "ConnectionError")

BasicAck(c) == Post(c)
BasicReject(c) == Post(c)
BasicPublish(c) == (connected /\ Return("raised", c)) \/ Post(c)

-----------------------------------------------------------------------------
(* connect.  The handle is new each time; the socket is recorded before the  *)
(* login, and a login that fails "closes" a connection that is not marked    *)
(* connected, which does nothing.  An exception from the conversion of       *)
(* client_properties is not looked at, and raised when all else has gone well.*)
ConnectUnreachable ==
    /\ NotConnected
    /\ conn' = "live"
    /\ ret' = Result("ConnectionError", 0)
    /\ UNCHANGED <<connected, sockfd, channel_max, brokerVars>>

ConnectRefused ==
    /\ NotConnected
    /\ conn' = "live"
    /\ sockfd' = TRUE
    /\ ret' = Result("ConnectionError", 0)
    /\ UNCHANGED <<connected, channel_max, brokerVars>>

(* Mutant of ConnectAccepted: a channel_max of 0 is taken literally. *)
ConnectWithoutChannels ==
    /\ NotConnected
    /\ conn' = "live"
    /\ sockfd' = TRUE
    /\ connected' = TRUE
    /\ channel_max' = 0
    /\ SessionStarts
    /\ ret' = Result("ok", 0)

ConnectAccepted ==
    /\ NotConnected
    /\ conn' = "live"
    /\ sockfd' = TRUE
    /\ connected' = TRUE
    /\ channel_max' \in 1..channel_max
    /\ SessionStarts
    /\ ret' \in {Result("ok", 0), Result("raised", 0)}

-----------------------------------------------------------------------------
(* Mutants of ChannelOpen: a refusal leaves the connection open; the reply   *)
(* is not looked at.                                                         *)
ChannelOpenRefusedKept(c) ==
    \/ NotConnected /\ Return("ConnectionError", c)
    \/ connected /\ Return("ConnectionError", c)

ChannelOpenUnchecked(c) ==
    \/ NotConnected /\ Return("ConnectionError", c)
    \/ /\ connected
       /\ IF bchan[c] = "closed" THEN Opened(c) /\ UNCHANGED connVars /\ ret' = Result("ok", c)
                                 ELSE Return("ok", c)

(* _channel_open: create_channel reports the reply as one about channel 0,   *)
(* so a channel.close would have it revive the connection itself.            *)
ChannelOpen(c) ==
    \/ NotConnected /\ Return("ConnectionError", c)
    \/ /\ connected
       /\ \/ /\ c <= channel_max
             /\ Opened(c)
             /\ ret' = Result("ok", c)
             /\ UNCHANGED connVars
          \/ Fail("ConnectionError", c)
          \/ /\ "silence" \in Replies(c)
             /\ c <= channel_max
             /\ Silence(c, "hang")

(* Mutant of ChannelClose: it returns without asking the broker. *)
ChannelCloseNotSent(c) ==
    \/ NotConnected /\ Return("ConnectionError", c)
    \/ connected /\ Return("ok", c)

(* _channel_close: a close that crosses the broker's revives the channel,    *)
(* and the broker's close-ok is left over.                                   *)
ChannelClose(c) ==
    \/ NotConnected /\ Return("ConnectionError", c)
    \/ /\ connected
       /\ \/ /\ Closed(c)
             /\ ret' = Result("ok", c)
             /\ UNCHANGED connVars
          \/ /\ link = "up" /\ bchan[c] = "closing" /\ ClosesOnWire(c) # {}
             /\ ChannelErrorRevive(c, <<Frame("other", c, None)>>)
          \/ Fail("ConnectionError", c)
=============================================================================
