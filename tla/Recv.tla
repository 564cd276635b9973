--------------------------------- MODULE Recv ---------------------------------
(* Receiving, frame by frame: drain_events and basic_get down to              *)
(* PyRabbitMQ_recv (Modules/_librabbitmq/connection.c), with the polling in   *)
(* front of it and the callbacks behind it.  One thread makes calls.  A call  *)
(* stops wherever the code waits for rabbitmq-c, a callback is a call of the  *)
(* program that may make others, so the calls in progress form a stack.       *)
(*                                                                            *)
(* A frame is in one of four places: `out` (sent, not yet here), `sock` (can  *)
(* be read from the socket), `inbuf` (rabbitmq-c has read it), `queued` (it   *)
(* has looked at it and put it aside).  Channels, consumers and the errors    *)
(* of RPCs are the business of module Connection: here every channel is open, *)
(* and an RPC is answered, or the link fails.                                 *)
EXTENDS Integers, Sequences

CONSTANTS
    Channels,      \* channel ids; 0 is none of them
    Timeouts,      \* the arguments drain_events is called with, in seconds
    NoTimeout,     \* drain_events' None
    MaxMessages,   \* bound: messages the broker sends
    Sizes,         \* bound: the numbers of body frames a message may have
    MaxDepth       \* bound: calls in progress, callbacks included

ASSUME RecvAssumption ==
    /\ Channels \subseteq Nat \ {0}
    /\ NoTimeout \notin Int
    /\ Timeouts \subseteq Int \cup {NoTimeout}
    /\ Sizes \subseteq Nat
    /\ MaxMessages \in Nat /\ MaxDepth \in Nat

VARIABLES
    connected,     \* self->connected
    link,          \* the TCP connection: "up" or "down"
    out, sock, inbuf, queued,
    msgs,          \* history: every message sent; frames name one by its index
    stack,         \* the calls in progress, the innermost last
    handed         \* the message last handed to a callback

vars == <<connected, link, out, sock, inbuf, queued, msgs, stack, handed>>
wires == <<connected, link, out, sock, inbuf, queued, msgs>>

-----------------------------------------------------------------------------
(* Frames.  "getok" and "reply" answer an RPC ("reply" also for get-empty);   *)
(* "return" stands for every other method but basic.deliver.                  *)
Frame(k, c, m, i) == [kind |-> k, ch |-> c, msg |-> m, part |-> i]
MethodKinds == {"deliver", "getok", "reply", "return"}
Content(c, m, n) ==
    <<Frame("header", c, m, 0)>> \o [i \in 1..n |-> Frame("body", c, m, i)]

(* A message: its channel, how it is sent, and its number of body frames.     *)
Message(c, k, n) == [ch |-> c, kind |-> k, parts |-> n]

Inbound == queued \o inbuf \o sock

(* The position of the first frame of s on channel c; 0 if there is none.     *)
FirstOn(s, c) ==
    LET on == {i \in DOMAIN s : s[i].ch = c}
    IN  IF on = {} THEN 0 ELSE CHOOSE i \in on : \A j \in on : i <= j
Before(s, i) == SubSeq(s, 1, i - 1)
After(s, i) == SubSeq(s, i + 1, Len(s))
Drop(s, i) == Before(s, i) \o After(s, i)

(* rabbitmq-c reads all there is whenever its buffer is empty: taking the     *)
(* frame at position i of what is unparsed empties inbuf up to there, or, if  *)
(* the frame is in the socket, both.                                          *)
Unparsed == inbuf \o sock
Parse(i) ==
    IF i <= Len(inbuf)
    THEN inbuf' = After(inbuf, i) /\ UNCHANGED sock
    ELSE inbuf' = After(Unparsed, i) /\ sock' = <<>>

-----------------------------------------------------------------------------
(* The calls in progress.                                                     *)
(*   pc      where the call waits: "poll" in select, "method", "header" and   *)
(*           "body" in recv, "reply" in an RPC, "publish" in basic_publish,   *)
(*           "callback" in the program                                        *)
(*   ch      cur_channel; the channel of an RPC or of what is published; the  *)
(*           channel of the message a callback is running for                 *)
(*   get     recv's p is not NULL: the call is a basic_get                    *)
(*   timeout what drain_events was called with                                *)
(*   msg     the message the method frame announced                           *)
(*   hdr     the message the header belongs to                                *)
(*   parts   the body frames: of which message, and which part of it          *)
(*   view    whose memory the body a callback is running with is in           *)
Call(p, c, g, t) == [pc |-> p, ch |-> c, get |-> g, timeout |-> t,
                     msg |-> 0, hdr |-> 0, parts |-> <<>>, view |-> "none"]

Top == stack[Len(stack)]
Outer == SubSeq(stack, 1, Len(stack) - 1)
At(p) == stack # <<>> /\ Top.pc = p
Push(a) == stack' = Append(stack, a)
Become(a) == stack' = Append(Outer, a)
Return == stack' = Outer

(* The program makes calls when none is in progress, and from callbacks.      *)
CanCall == connected /\ Len(stack) < MaxDepth /\ (stack # <<>> => Top.pc = "callback")

(* amqp_maybe_release_buffers_on_channel: the memory of channel c, unless a   *)
(* frame of it is queued; a body handed over as a view of it goes with it.    *)
Released(s, cs, q) ==
    [i \in DOMAIN s |->
        IF s[i].view = "library" /\ s[i].ch \in cs /\ FirstOn(q, s[i].ch) = 0
        THEN [s[i] EXCEPT !.view = "released"] ELSE s[i]]

(* Mutant of Close: frames that rabbitmq-c has queued outlive the connection.  *)
CloseKeepsQueue(s) ==
    /\ connected' = FALSE
    /\ link' = "down"
    /\ out' = [c \in Channels |-> <<>>]
    /\ sock' = <<>> /\ inbuf' = <<>>
    /\ stack' = s
    /\ UNCHANGED <<queued, msgs, handed>>

(* Connection.close, called by the program or by the call that fails: no      *)
(* frame survives, and no memory of rabbitmq-c.                               *)
Close(s) ==
    /\ connected' = FALSE
    /\ link' = "down"
    /\ out' = [c \in Channels |-> <<>>]
    /\ sock' = <<>> /\ inbuf' = <<>> /\ queued' = <<>>
    /\ stack' = [i \in DOMAIN s |->
                    IF s[i].view = "library" THEN [s[i] EXCEPT !.view = "released"] ELSE s[i]]
    /\ UNCHANGED <<msgs, handed>>

-----------------------------------------------------------------------------
(* The broker and the network.  The frames of one channel stay in order, and  *)
(* a message is sent on its channel without anything in between; those of     *)
(* different channels may arrive interleaved.                                 *)
CanSend == link = "up" /\ Len(msgs) < MaxMessages
NewMsg == Len(msgs) + 1

Deliver(c) ==
    /\ CanSend
    /\ \E n \in Sizes :
         /\ msgs' = Append(msgs, Message(c, "deliver", n))
         /\ out' = [out EXCEPT ![c] = @ \o <<Frame("deliver", c, NewMsg, 0)>> \o Content(c, NewMsg, n)]
    /\ UNCHANGED <<connected, link, sock, inbuf, queued, stack, handed>>

BasicReturn(c) ==
    /\ CanSend
    /\ msgs' = Append(msgs, Message(c, "return", 0))
    /\ out' = [out EXCEPT ![c] = Append(@, Frame("return", c, NewMsg, 0))]
    /\ UNCHANGED <<connected, link, sock, inbuf, queued, stack, handed>>

Arrive(c) ==
    /\ out[c] # <<>>
    /\ sock' = Append(sock, Head(out[c]))
    /\ out' = [out EXCEPT ![c] = Tail(@)]
    /\ UNCHANGED <<connected, link, inbuf, queued, msgs, stack, handed>>

(* The link fails; what has arrived can still be read. *)
LinkDown ==
    /\ link = "up"
    /\ link' = "down"
    /\ out' = [c \in Channels |-> <<>>]
    /\ UNCHANGED <<connected, sock, inbuf, queued, msgs, stack, handed>>

-----------------------------------------------------------------------------
(* drain_events and basic_recv.  Zero is passed on as -1, None as 0; only a   *)
(* positive time or -1 is polled for, and only if rabbitmq-c has nothing.     *)
(* Mutant of RecvTimeout: zero is passed on as it is.                          *)
ZeroUnchanged(t) == IF t = NoTimeout THEN 0 ELSE t
RecvTimeout(t) ==
    CASE t = 0 -> -1
      [] t = NoTimeout -> 0
      [] OTHER -> t
ShouldPoll(t) == t > 0 \/ t = -1
ActiveBuffers == queued # <<>> \/ inbuf # <<>>

(* Mutant of ShouldPollFor: what rabbitmq-c has already read is not looked at. *)
PollAlways(t) == ShouldPoll(RecvTimeout(t))
ShouldPollFor(t) == ShouldPoll(RecvTimeout(t)) /\ ~ActiveBuffers

DrainEvents(t) ==
    /\ CanCall
    /\ Push(Call(IF ShouldPollFor(t) THEN "poll" ELSE "method", 0, FALSE, t))
    /\ UNCHANGED <<wires, handed>>

(* The end of the stream is readable too. *)
PollReady ==
    /\ At("poll")
    /\ sock # <<>> \/ link = "down"
    /\ Become([Top EXCEPT !.pc = "method"])
    /\ UNCHANGED <<wires, handed>>

PollTimedOut ==
    /\ At("poll")
    /\ sock = <<>> /\ link = "up"
    /\ Return
    /\ UNCHANGED <<wires, handed>>

-----------------------------------------------------------------------------
(* What amqp_simple_wait_frame (any channel) and                              *)
(* amqp_simple_wait_frame_on_channel (channel c) take next: queued frames     *)
(* first.  Frames of other channels met on the way to one of c are queued.    *)
(* Wait(c) is true if there is one, and it is then frame Taken(c).            *)
Available(c) == IF c = 0 THEN Inbound # <<>> ELSE FirstOn(Inbound, c) # 0
Taken(c) == IF c = 0 THEN Head(Inbound) ELSE Inbound[FirstOn(Inbound, c)]

TakeOnChannel(c) ==
    LET i == FirstOn(queued, c)
        j == FirstOn(Unparsed, c)
    IN  IF i # 0
        THEN queued' = Drop(queued, i) /\ UNCHANGED <<inbuf, sock>>
        ELSE queued' = queued \o Before(Unparsed, j) /\ Parse(j)

(* Mutant of TakeFrame: the frames of a message are taken from any channel.   *)
TakeAnyFrame(c) ==
    IF queued # <<>> THEN queued' = Tail(queued) /\ UNCHANGED <<inbuf, sock>>
                     ELSE UNCHANGED queued /\ Parse(1)

TakeFrame(c) == IF c = 0 THEN TakeAnyFrame(c) ELSE TakeOnChannel(c)

(* The wait ends with an error: the link is down and no such frame is left.   *)
EndOfStream(c) == link = "down" /\ ~Available(c)

-----------------------------------------------------------------------------
(* recv: basic.deliver.  Frames that are not methods are passed over; any     *)
(* other method is an error, for which basic_recv closes the connection       *)
(* (after reviving the channel, if it was a channel.close).                   *)
ReadMethod ==
    /\ At("method")
    /\ LET f == Taken(0)
           s == Released(stack, Channels, queued)
       IN  \/ EndOfStream(0) /\ Close(Outer)
           \/ /\ Available(0)
              /\ f.kind \in MethodKinds \ {"deliver"}
              /\ Close(Outer)
           \/ /\ Available(0)
              /\ f.kind \notin MethodKinds \ {"deliver"}
              /\ TakeFrame(0)
              /\ stack' = IF f.kind = "deliver"
                          THEN Append(SubSeq(s, 1, Len(s) - 1),
                                      [Top EXCEPT !.pc = "header", !.ch = f.ch, !.msg = f.msg])
                          ELSE s
              /\ UNCHANGED <<connected, link, out, msgs, handed>>

(* The body has been read, or all there will be of it.  A body in one frame   *)
(* is handed to a callback as a view of rabbitmq-c's memory, a longer one has *)
(* been copied.  There may be nobody in callbacks who wants it; that, and a   *)
(* body of which there is nothing, ends the connection.                       *)
HandOver(call) ==
    /\ handed' = [msg |-> call.msg, hdr |-> call.hdr, parts |-> call.parts]
    /\ Become([Call("callback", call.ch, FALSE, NoTimeout) EXCEPT
                  !.view = IF msgs[call.hdr].parts = 1 THEN "library" ELSE "own"])

Wanted(call) == call.parts # <<>> \/ (call.get /\ msgs[call.hdr].parts = 0)

Finish(call) ==
    /\ Wanted(call)
    /\ IF call.get THEN Return /\ UNCHANGED handed ELSE HandOver(call)
    /\ UNCHANGED <<connected, link, out, msgs>>

(* Mutant of Complete: the first body frame is taken for the whole body.      *)
FirstPartIsAll(call) == call.parts # <<>> \/ msgs[call.hdr].parts = 0

Complete(call) == Len(call.parts) = msgs[call.hdr].parts

(* The error paths that are not followed by a close: an exception is set, and *)
(* recv returns what the last wait returned, 0.                               *)
UnexpectedFrame(c) ==
    /\ TakeFrame(c)
    /\ Return
    /\ UNCHANGED <<connected, link, out, msgs, handed>>

(* After basic.deliver, on its channel; for basic_get, whose cur_channel is 0 *)
(* still, on any.                                                             *)
ReadHeader ==
    /\ At("header")
    /\ LET c == IF Top.get THEN 0 ELSE Top.ch
           f == Taken(c)
           call == [Top EXCEPT !.ch = f.ch, !.hdr = f.msg]
       IN  \/ EndOfStream(c) /\ Close(Outer)
           \/ /\ Available(c)
              /\ IF f.kind \in MethodKinds THEN Close(Outer)
                 ELSE IF f.kind # "header" THEN UnexpectedFrame(c)
                 ELSE IF ~Complete(call)
                 THEN /\ TakeFrame(c)
                      /\ Become([call EXCEPT !.pc = "body"])
                      /\ UNCHANGED <<connected, link, out, msgs, handed>>
                 ELSE IF Wanted(call) THEN TakeFrame(c) /\ Finish(call)
                 ELSE Close(Outer)

(* A wait that fails leaves only the inner loop of the code: what has been    *)
(* read by then counts as the body.                                           *)
ReadBody ==
    /\ At("body")
    /\ LET c == Top.ch
           f == Taken(c)
           call == [Top EXCEPT !.parts = Append(@, <<f.msg, f.part>>)]
       IN  \/ /\ EndOfStream(c)
              /\ \/ /\ Finish(Top)
                    /\ queued' = Inbound /\ inbuf' = <<>> /\ sock' = <<>>
                 \/ ~(Top.get /\ Wanted(Top)) /\ Close(Outer)
           \/ /\ Available(c)
              /\ IF f.kind \in MethodKinds THEN Close(Outer)
                 ELSE IF f.kind # "body" THEN UnexpectedFrame(c)
                 ELSE IF Complete(call)
                 THEN \/ TakeFrame(c) /\ Finish(call)
                      \/ ~call.get /\ Close(Outer)
                 ELSE /\ TakeFrame(c)
                      /\ Become(call)
                      /\ UNCHANGED <<connected, link, out, msgs, handed>>

(* The callback returns, or raises: basic_recv returns None either way.       *)
CallbackReturns ==
    /\ At("callback")
    /\ Return
    /\ UNCHANGED <<wires, handed>>

-----------------------------------------------------------------------------
(* The other methods.  The reply to an RPC comes after everything sent on the *)
(* channel before; what is met on the way is queued, never looked at.         *)
Sent(c, frames) == out' = [out EXCEPT ![c] = IF link = "up" THEN @ \o frames ELSE @]

Rpc(c) ==
    /\ CanCall
    /\ Push(Call("reply", c, FALSE, NoTimeout))
    /\ Sent(c, <<Frame("reply", c, 0, 0)>>)
    /\ UNCHANGED <<connected, link, sock, inbuf, queued, msgs, handed>>

BasicGet(c) ==
    /\ CanCall
    /\ Push(Call("reply", c, TRUE, NoTimeout))
    /\ \/ /\ Sent(c, <<Frame("reply", c, 0, 0)>>)
          /\ UNCHANGED msgs
       \/ /\ CanSend
          /\ \E n \in Sizes :
               /\ msgs' = Append(msgs, Message(c, "getok", n))
               /\ Sent(c, <<Frame("getok", c, NewMsg, 0)>> \o Content(c, NewMsg, n))
    /\ UNCHANGED <<connected, link, sock, inbuf, queued, handed>>

(* Mutant of ReleaseOnChannel: the buffers of every channel are released.     *)
ReleaseAll(c, q) == Released(Outer, Channels, q)
ReleaseOnChannel(c, q) == Released(Outer, {c}, q)

(* basic_publish awaits no reply, but releases the channel's buffers as well, *)
(* whether it could send or not.  Sending over a link that has failed may     *)
(* fail, and reviving the channel then ends the connection.  (basic_ack and   *)
(* basic_reject do the same but release nothing, which leaves nothing of them *)
(* in this module.)                                                           *)
BasicPublish(c) ==
    /\ CanCall
    /\ Push(Call("publish", c, FALSE, NoTimeout))
    /\ UNCHANGED <<wires, handed>>

PublishReturns ==
    /\ At("publish")
    /\ \/ stack' = ReleaseOnChannel(Top.ch, queued) /\ UNCHANGED <<wires, handed>>
       \/ link = "down" /\ Close(Outer)

IsReply(f, c) == f.ch = c /\ f.kind \in {"reply", "getok"}
Reply(c) == {i \in DOMAIN Unparsed : IsReply(Unparsed[i], c)}

(* Most methods release the channel's buffers when they have their reply;     *)
(* queue_declare, exchange_declare, basic_consume, basic_qos and channel_open *)
(* do not.  Nor does basic_get, which goes on to read the content if          *)
(* rabbitmq-c has read anything beyond the reply; if not it returns a dict    *)
(* with no body, for which Channel.basic_get raises KeyError.                 *)
ReadReply ==
    /\ At("reply")
    /\ \/ Reply(Top.ch) = {} /\ link = "down" /\ Close(Outer)
       \/ \E i \in Reply(Top.ch) :
            /\ queued' = queued \o Before(Unparsed, i)
            /\ Parse(i)
            /\ \/ ~Top.get /\ stack' = ReleaseOnChannel(Top.ch, queued')
               \/ stack' = IF Top.get /\ Unparsed[i].kind = "getok" /\ inbuf' # <<>>
                           THEN Append(Outer, [Top EXCEPT !.pc = "header", !.msg = Unparsed[i].msg])
                           ELSE Outer
            /\ UNCHANGED <<connected, link, out, msgs, handed>>

CloseCall == CanCall /\ Close(stack)

-----------------------------------------------------------------------------
Init ==
    /\ connected = TRUE
    /\ link = "up"
    /\ out = [c \in Channels |-> <<>>]
    /\ sock = <<>> /\ inbuf = <<>> /\ queued = <<>>
    /\ msgs = <<>>
    /\ stack = <<>>
    /\ handed = [msg |-> 0, hdr |-> 0, parts |-> <<>>]

BrokerNext == LinkDown \/ \E c \in Channels : Deliver(c) \/ BasicReturn(c) \/ Arrive(c)
Waits == PollReady \/ ReadMethod \/ ReadHeader \/ ReadBody \/ ReadReply \/ PublishReturns

Next ==
    \/ BrokerNext
    \/ \E t \in Timeouts : DrainEvents(t)
    \/ \E c \in Channels : Rpc(c) \/ BasicGet(c) \/ BasicPublish(c)
    \/ PollTimedOut
    \/ Waits
    \/ CallbackReturns
    \/ CloseCall

Spec == Init /\ [][Next]_vars

(* What has been sent arrives; a wait that can end ends; a callback, however  *)
(* many calls it makes, returns.  And the program is an event loop: it comes  *)
(* back to drain_events whenever it can.  Nothing is assumed of the broker,   *)
(* which may send nothing, or of the link, which may fail.                    *)
Fairness ==
    /\ \A c \in Channels : WF_vars(Arrive(c))
    /\ WF_vars(Waits)
    /\ WF_vars(PollTimedOut)
    /\ SF_vars(CallbackReturns)
    /\ SF_vars(\E t \in Timeouts : DrainEvents(t))

FairSpec == Spec /\ Fairness

-----------------------------------------------------------------------------
(* Properties.                                                                *)
Frames == [kind : MethodKinds \cup {"header", "body"}, ch : Channels,
           msg : 0..MaxMessages, part : Nat]
Bodies == Seq((1..MaxMessages) \X (Nat \ {0}))
Calls == [pc : {"poll", "method", "header", "body", "reply", "publish", "callback"},
          ch : Channels \cup {0}, get : BOOLEAN, timeout : Timeouts \cup {NoTimeout},
          msg : 0..MaxMessages, hdr : 0..MaxMessages, parts : Bodies,
          view : {"none", "library", "own", "released"}]
Results == [msg : 0..MaxMessages, hdr : 0..MaxMessages, parts : Bodies]

(* Types; and a connection that is not connected has no link, no frames and   *)
(* no memory that a running callback could still be reading.                  *)
TypeOK ==
    /\ connected \in BOOLEAN
    /\ link \in {"up", "down"}
    /\ out \in [Channels -> Seq(Frames)]
    /\ sock \in Seq(Frames) /\ inbuf \in Seq(Frames) /\ queued \in Seq(Frames)
    /\ msgs \in Seq([ch : Channels, kind : {"deliver", "getok", "return"}, parts : Sizes \cup {0}])
    /\ stack \in Seq(Calls)
    /\ Len(stack) <= MaxDepth
    /\ handed \in Results
    /\ ~connected => /\ link = "down"
                     /\ Inbound = <<>>
                     /\ \A i \in DOMAIN stack : stack[i].view # "library"

(* Receiving is a mailbox for each channel.  A message is in the box from the *)
(* moment it is sent until recv has put it together and calls the callback;   *)
(* what the callback gets is the body of that very message, its parts in      *)
(* order, and all of them unless the link has failed.                         *)
Body(h) ==
    LET n == IF h.hdr = 0 THEN 0 ELSE msgs[h.hdr].parts
        own == \A i \in DOMAIN h.parts : h.parts[i] = <<h.msg, i>>
    IN  CASE h.hdr = h.msg /\ own /\ Len(h.parts) = n -> "whole"
          [] h.hdr = h.msg /\ own /\ Len(h.parts) < n -> "cut"
          [] OTHER -> "mixed"

Within(s, f) == \E i \in DOMAIN s : s[i] = f
Unread(f) == Within(Inbound, f) \/ Within(out[f.ch], f)

Reading(c) ==
    IF stack # <<>> /\ Top.pc \in {"header", "body"} /\ ~Top.get /\ Top.ch = c
    THEN {Top.msg} ELSE {}
Announced(c) == {m \in 1..MaxMessages : Unread(Frame("deliver", c, m, 0))}

Box == [c \in Channels |-> Reading(c) \cup Announced(c)]
SentToConsumers == {m \in DOMAIN msgs : msgs[m].kind = "deliver"}
AbstractHanded == [msg |-> handed.msg, body |-> Body(handed)]

AbstractMailbox == INSTANCE Mailbox WITH
    Messages <- 1..MaxMessages,
    None <- 0,
    box <- Box,
    sent <- SentToConsumers,
    handed <- AbstractHanded,
    up <- link = "up"
ImplementsMailbox == AbstractMailbox!Spec

(* The body of a message stays where it is while its callback runs, even when *)
(* it is only lent (connection.c 1506): unless the callback makes an RPC or   *)
(* publishes on that very channel (amqp_maybe_release_buffers_on_channel),    *)
(* drains events itself, or the connection is closed.  Neither an RPC nor a   *)
(* message published on another channel touches it (Changelog 80-81).         *)
LentBodyKept ==
    [][\A i \in DOMAIN stack \cap DOMAIN stack' :
          (stack[i].view = "library" /\ stack'[i].view = "released")
          => \/ ~connected'
             \/ Top.pc = "method"
             \/ Top.pc \in {"reply", "publish"} /\ Top.ch = stack[i].ch]_vars

(* Every message sent to a consumer is handed over sooner or later, or the    *)
(* link is lost: also one that arrived with others in one read, or while an   *)
(* RPC or a callback was waiting for something else, and although nothing     *)
(* more arrives (tests/test_functional.py 129-131, Changelog 327).            *)
Waiting(m) == \E c \in Channels : m \in Box[c]
EventuallyHandedOver ==
    \A m \in 1..MaxMessages : Waiting(m) ~> (handed.msg = m \/ link = "down")

(* The content a basic_get reads is the one its own get-ok announced.         *)
OwnContent ==
    \A i \in DOMAIN stack : (stack[i].get /\ stack[i].pc = "body") => stack[i].hdr = stack[i].msg

(* A drain_events that polls, one with a timeout of zero for instance, comes  *)
(* to wait for a frame with none there only by passing over content that a    *)
(* basic_get has left behind: "drain_events(timeout=0.0) is now non-blocking" *)
(* (Changelog 323) is true but for that.  (That a frame which is there is all *)
(* of a message is not promised: the rest of it is waited for, too.)          *)
Blocked == At("method") /\ Top.timeout \in Nat /\ ~Available(0) /\ link = "up"
NonBlocking ==
    [][~Blocked /\ Blocked'
       => /\ At("method") /\ Available(0)
          /\ Taken(0).kind \in {"header", "body"}
          /\ msgs[Taken(0).msg].kind = "getok"]_vars

-----------------------------------------------------------------------------
(* The inductive invariant behind TypeOK, NonBlocking and ImplementsMailbox.  *)
(* Line(c) is what is still to be read on channel c.  Every frame in it is a  *)
(* frame of the message it names, and comes after all those sent before it    *)
(* on the channel; the next frame of its message is behind it, unless the     *)
(* link has gone and nothing is behind it at all.                             *)
Line(c) ==
    {f \in {Inbound[i] : i \in DOMAIN Inbound} \cup {out[c][i] : i \in DOMAIN out[c]} : f.ch = c}

OfRpc(f) == f.kind \in {"reply", "getok"}
Stage(f) == IF f.kind \in MethodKinds THEN 0 ELSE f.part + 1
Older(f, g) == f.msg < g.msg \/ (f.msg = g.msg /\ Stage(f) < Stage(g))
Precedes(f, g) ==
    f.ch = g.ch =>
        /\ ~(OfRpc(f) /\ OfRpc(g))
        /\ f.kind = "reply" \/ g.kind = "reply" \/ Older(f, g)

Valid(f) ==
    \/ f.kind = "reply" /\ f.msg = 0
    \/ /\ f.kind # "reply"
       /\ f.msg \in DOMAIN msgs
       /\ LET m == msgs[f.msg]
          IN  /\ m.ch = f.ch
              /\ CASE f.kind \in MethodKinds -> f.part = 0 /\ f.kind = m.kind
                   [] f.kind = "header"      -> f.part = 0 /\ m.kind # "return"
                   [] f.kind = "body"        -> f.part \in 1..m.parts /\ m.kind # "return"

FollowedUp(f) ==
    IF f.kind \in MethodKinds THEN f.kind \in {"deliver", "getok"}
    ELSE f.part < msgs[f.msg].parts
FollowUp(f) ==
    IF f.kind \in MethodKinds THEN Frame("header", f.ch, f.msg, 0)
    ELSE Frame("body", f.ch, f.msg, f.part + 1)

FramesValid ==
    /\ \A i \in DOMAIN Inbound : Valid(Inbound[i])
    /\ \A c \in Channels : \A i \in DOMAIN out[c] : out[c][i].ch = c /\ Valid(out[c][i])

FramesInOrder ==
    /\ \A i, j \in DOMAIN Inbound : i < j => Precedes(Inbound[i], Inbound[j])
    /\ \A c \in Channels :
         /\ \A i, j \in DOMAIN out[c] : i < j => Precedes(out[c][i], out[c][j])
         /\ \A i \in DOMAIN Inbound, j \in DOMAIN out[c] : Precedes(Inbound[i], out[c][j])

Gapless ==
    \A c \in Channels : \A f \in Line(c) :
        /\ FollowedUp(f)
        /\ link = "up" \/ \E g \in Line(c) : g.kind # "reply" /\ Older(f, g)
        => FollowUp(f) \in Line(c)

(* All calls but the innermost are in their callbacks, and a call that waits  *)
(* does so on a connection; it has read nothing before the method frame; an   *)
(* answer in the line is the one it waits for.                                *)
CallsNested ==
    /\ \A i \in 1..(Len(stack) - 1) : stack[i].pc = "callback"
    /\ stack # <<>> /\ Top.pc # "callback" => connected
    /\ stack # <<>> /\ Top.pc \in {"poll", "method"} => ~Top.get /\ Top.parts = <<>>
    /\ stack # <<>> /\ Top.pc \in {"reply", "publish", "header", "body"} => Top.ch \in Channels

RepliesAwaited ==
    \A c \in Channels : \A f \in Line(c) : OfRpc(f) => At("reply") /\ Top.ch = c

(* The call that reads a delivery has read its frames up to some point, and   *)
(* the line of its channel begins there.  The content of a delivery is never  *)
(* in a line without the delivery, but while that call reads it.              *)
Expected ==
    IF Top.pc = "header" THEN Frame("header", Top.ch, Top.msg, 0)
                         ELSE Frame("body", Top.ch, Top.msg, Len(Top.parts) + 1)
InDelivery == stack # <<>> /\ Top.pc \in {"header", "body"} /\ ~Top.get

ReadSoFar ==
    InDelivery =>
        /\ Top.msg \in DOMAIN msgs /\ msgs[Top.msg].ch = Top.ch /\ msgs[Top.msg].kind = "deliver"
        /\ IF Top.pc = "header" THEN Top.parts = <<>>
           ELSE /\ Top.hdr = Top.msg /\ Len(Top.parts) < msgs[Top.msg].parts
                /\ \A i \in DOMAIN Top.parts : Top.parts[i] = <<Top.msg, i>>

LineExpected ==
    InDelivery =>
        /\ \A g \in Line(Top.ch) : g = Expected \/ Older(Expected, g)
        /\ link = "up" \/ Line(Top.ch) # {} => Expected \in Line(Top.ch)

ContentAnnounced ==
    \A c \in Channels : \A f \in Line(c) :
        /\ f.kind \in {"header", "body"}
        /\ msgs[f.msg].kind = "deliver"
        => Frame("deliver", c, f.msg, 0) \in Line(c) \/ f.msg \in Reading(c)

(* Inductive.  Wherever the frames of a channel are - sent, in the socket,    *)
(* buffered or put aside - they are in one line, in the order in which they   *)
(* were sent; only its end can be missing, when the link is lost; and the     *)
(* line begins where the call that reads the channel has got to.              *)
IInv ==
    /\ TypeOK
    /\ Len(msgs) <= MaxMessages
    /\ handed.hdr # 0 => handed.hdr \in DOMAIN msgs
    /\ link = "down" => \A c \in Channels : out[c] = <<>>
    /\ FramesValid
    /\ FramesInOrder
    /\ Gapless
    /\ CallsNested
    /\ RepliesAwaited
    /\ ReadSoFar
    /\ LineExpected
    /\ ContentAnnounced
=============================================================================
