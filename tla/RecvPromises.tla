----------------------------- MODULE RecvPromises -----------------------------
(* What follows from the invariant of module Recv: a lent body stays where it  *)
(* is, a drain_events that polls does not come to wait for nothing, and        *)
(* receiving is a mailbox for each channel.                                    *)
EXTENDS RecvProofs

(* Releasing memory of the calls around the innermost. *)
LEMMA ReleasedOuter ==
    ASSUME StackOK, stack # <<>>, NEW cs, NEW q, NEW s, s = Released(Outer, cs, q)
    PROVE  /\ s \in Seq(Calls) /\ DOMAIN s = DOMAIN Outer
           /\ \A i \in DOMAIN Outer : s[i] = Outer[i] \/ Outer[i].ch \in cs
           /\ \A i \in DOMAIN Outer : s[i].pc = "callback"
<1>1. Outer \in Seq(Calls) /\ \A i \in DOMAIN Outer : Outer[i].pc = "callback"
  BY OuterIs
<1>2. PICK o \in Seq(Calls) : o = Outer
  BY <1>1
<1>3. \A i \in DOMAIN o : o[i] \in Calls
  BY ElementOfSeq, LenProperties
<1>4. /\ s \in Seq(Calls) /\ DOMAIN s = DOMAIN o
      /\ \A i \in DOMAIN o : \/ s[i] = o[i]
                            \/ /\ o[i].view = "library" /\ o[i].ch \in cs
                               /\ s[i] = [o[i] EXCEPT !.view = "released"]
  <2>1. s = Released(o, cs, q)
    BY <1>2
  <2> QED
    BY <2>1, ReleasedIs
<1>5. \A i \in DOMAIN o : s[i].pc = o[i].pc
  <2> TAKE i \in DOMAIN o
  <2>1. [o[i] EXCEPT !.view = "released"].pc = o[i].pc
    BY <1>3 DEF Calls
  <2> QED
    BY <1>4, <2>1
<1> QED
  BY <1>1, <1>2, <1>4, <1>5

-----------------------------------------------------------------------------
(* LentBodyKept. *)
Kept ==
    \A i \in DOMAIN stack \cap DOMAIN stack' :
          (stack[i].view = "library" /\ stack'[i].view = "released")
          => \/ ~connected'
             \/ Top.pc = "method"
             \/ Top.pc \in {"reply", "publish"} /\ Top.ch = stack[i].ch

(* Calls that begin, and calls that end, touch no other. *)
LEMMA PushedKept ==
    ASSUME StackOK, NEW a \in Calls, Push(a)
    PROVE  Kept
<1>1. stack \in Seq(Calls) /\ DOMAIN stack = 1..Len(stack)
  BY LenProperties DEF StackOK
<1>2. stack' = Append(stack, a)
  BY DEF Push
<1>3. \A i \in DOMAIN stack : stack'[i] = stack[i]
  BY <1>1, <1>2, AppendProperties
<1> QED
  BY <1>3 DEF Kept

(* A call that returns leaves the memory of the calls around it alone.        *)
LEMMA ReturnKept ==
    ASSUME StackOK, stack # <<>>, Return
    PROVE  Kept
<1>1. \A i \in DOMAIN Outer : Outer[i] = stack[i]
  BY OuterIs
<1> QED
  BY <1>1 DEF Kept, Return

(* A call that goes on releases no memory, its own included. *)
LEMMA BecomeKept ==
    ASSUME StackOK, stack # <<>>, NEW a, Become(a),
           a.view = Top.view \/ a.view # "released"
    PROVE  Kept
<1>1. /\ Outer \in Seq(Calls) /\ Len(stack) \in Nat \ {0} /\ DOMAIN stack = 1..Len(stack)
      /\ Len(Outer) = Len(stack) - 1
      /\ DOMAIN Outer = 1..(Len(stack) - 1)
      /\ \A i \in DOMAIN Outer : Outer[i] = stack[i]
  BY OuterIs
<1>2. stack' = Append(Outer, a)
  BY DEF Become
<1> DEFINE S == Calls \cup {a}
<1>6. Outer \in Seq(S) /\ a \in S
  <2>1. Len(Outer) \in Nat /\ (\A i \in 1..Len(Outer) : Outer[i] \in Calls)
        /\ Outer = [i \in 1..Len(Outer) |-> Outer[i]]
    BY <1>1, ElementOfSeq, SeqDef
  <2> QED
    BY <2>1, IsASeq
<1> HIDE DEF S
<1>3. /\ \A i \in 1..(Len(stack) - 1) : stack'[i] = stack[i]
      /\ stack'[Len(stack)] = a
  <2>1. /\ \A i \in 1..Len(Outer) : stack'[i] = Outer[i]
        /\ stack'[Len(Outer) + 1] = a
    BY <1>2, <1>6, AppendProperties
  <2>2. Len(Outer) + 1 = Len(stack)
    BY <1>1
  <2> QED
    BY <1>1, <2>1, <2>2
<1>4. \A i \in DOMAIN stack : i \in 1..(Len(stack) - 1) \/ i = Len(stack)
  BY <1>1
<1>5. \A i \in DOMAIN stack :
        ~(stack[i].view = "library" /\ stack'[i].view = "released")
  BY <1>3, <1>4 DEF Top
<1> QED
  BY <1>5 DEF Kept

(* While a call reads content, and when it calls the callback. *)
LEMMA ReadingKept ==
    ASSUME IInv, ReadHeader \/ ReadBody
    PROVE  Kept
<1>1. StackOK /\ WiresOK /\ stack # <<>> /\ Top.pc \in {"header", "body"}
  BY IInvParts DEF ReadHeader, ReadBody, At
<1>2. Top \in Calls
  BY <1>1, OuterIs
<1>3. CASE Close(Outer)
  BY <1>3 DEF Close, Kept
<1>4. CASE Return
  BY <1>1, <1>4, ReturnKept
<1>5. ASSUME NEW call, HandOver(call)
      PROVE  Kept
  <2> DEFINE v == IF msgs[call.hdr].parts = 1 THEN "library" ELSE "own"
             a == [Call("callback", call.ch, FALSE, NoTimeout) EXCEPT !.view = v]
  <2>1. a.view = v /\ v # "released"
    BY DEF Call
  <2>2. Become(a)
    BY <1>5 DEF HandOver
  <2> HIDE DEF a
  <2> QED
    BY <1>1, <2>1, <2>2, BecomeKept
<1>6. ASSUME NEW call, Finish(call)
      PROVE  Kept
  BY <1>4, <1>5, <1>6 DEF Finish
<1>7. ASSUME NEW a, Become(a), a.view = Top.view
      PROVE  Kept
  BY <1>1, <1>7, BecomeKept
<1>8. CASE ReadHeader
  <2> DEFINE t == Taken(IF Top.get THEN 0 ELSE Top.ch)
             call == [Top EXCEPT !.ch = t.ch, !.hdr = t.msg]
             a == [call EXCEPT !.pc = "body"]
  <2>1. Close(Outer) \/ Return \/ Become(a) \/ Finish(call)
    BY <1>8 DEF ReadHeader, UnexpectedFrame
  <2>2. a.view = Top.view
    BY <1>2 DEF Calls
  <2> HIDE DEF a, call
  <2> QED
    BY <1>3, <1>4, <1>6, <1>7, <2>1, <2>2
<1>9. CASE ReadBody
  <2> DEFINE t == Taken(Top.ch)
             call == [Top EXCEPT !.parts = Append(@, <<t.msg, t.part>>)]
  <2>1. Close(Outer) \/ Finish(Top) \/ Return \/ Become(call) \/ Finish(call)
    BY <1>9 DEF ReadBody, UnexpectedFrame
  <2>2. call.view = Top.view
    BY <1>2 DEF Calls
  <2> HIDE DEF call
  <2> QED
    BY <1>3, <1>4, <1>6, <1>7, <2>1, <2>2
<1> QED
  BY <1>8, <1>9

(* The release of a channel's buffers leaves those of the others. *)
LEMMA ReleaseKept ==
    ASSUME StackOK, stack # <<>>, Top.pc \in {"reply", "publish"}, NEW q,
           stack' = ReleaseOnChannel(Top.ch, q)
    PROVE  Kept
<1>1. \A i \in DOMAIN Outer : Outer[i] = stack[i]
  BY OuterIs
<1>2. PICK s : s = Released(Outer, {Top.ch}, q)
  OBVIOUS
<1>3. /\ DOMAIN s = DOMAIN Outer
      /\ \A i \in DOMAIN Outer : s[i] = Outer[i] \/ Outer[i].ch \in {Top.ch}
  BY <1>2, ReleasedOuter
<1>4. stack' = s
  BY <1>2 DEF ReleaseOnChannel
<1> QED
  BY <1>1, <1>3, <1>4 DEF Kept

(* A reply releases the memory of its own channel only. *)
LEMMA ReplyKept ==
    ASSUME IInv, ReadReply
    PROVE  Kept
<1>1. StackOK /\ stack # <<>> /\ Top.pc = "reply"
  BY IInvParts DEF ReadReply, At
<1>2. /\ Top \in Calls /\ Outer \in Seq(Calls) /\ Len(stack) \in Nat \ {0}
      /\ DOMAIN stack = 1..Len(stack) /\ DOMAIN Outer = 1..(Len(stack) - 1)
      /\ \A i \in DOMAIN Outer : Outer[i] = stack[i]
  BY <1>1, OuterIs
<1>3. CASE Close(Outer)
  BY <1>3 DEF Close, Kept
<1>4. CASE stack' = Outer
  BY <1>1, <1>4, ReturnKept DEF Return
<1>5. ASSUME NEW m, stack' = Append(Outer, [Top EXCEPT !.pc = "header", !.msg = m])
      PROVE  Kept
  <2> DEFINE a == [Top EXCEPT !.pc = "header", !.msg = m]
  <2>1. a.view = Top.view
    BY <1>2 DEF Calls
  <2>2. Become(a)
    BY <1>5 DEF Become
  <2> HIDE DEF a
  <2> QED
    BY <1>1, <2>1, <2>2, BecomeKept
<1>6. CASE stack' = ReleaseOnChannel(Top.ch, queued')
  BY <1>1, <1>6, ReleaseKept
<1> QED
  BY <1>3, <1>4, <1>5, <1>6 DEF ReadReply

(* A body that is only lent to a callback is released under it by nothing but  *)
(* a drain_events, or an RPC or a basic_publish on its own channel, from       *)
(* inside it, or the end of the connection (connection.c,                      *)
(* amqp_maybe_release_buffers_on_channel).                                     *)
THEOREM LentBodiesKept == Spec => LentBodyKept
<1>1. IInv /\ [Next]_vars => [Kept]_vars
  <2> SUFFICES ASSUME IInv, Next PROVE Kept
    OBVIOUS
  <2>1. StackOK
    BY IInvParts
  <2>2. CASE UNCHANGED stack
    BY <2>2 DEF Kept
  <2>3. CASE \E t \in Timeouts : DrainEvents(t)
    <3>1. \A p \in {"poll", "method"}, t \in Timeouts : Call(p, 0, FALSE, t) \in Calls
      BY RecvAssumption, EmptySeq DEF Call, Calls, Bodies
    <3> QED
      BY <2>1, <2>3, <3>1, PushedKept DEF DrainEvents
  <2>4. CASE \E c \in Channels : Rpc(c) \/ BasicGet(c) \/ BasicPublish(c)
    <3>1. \A p \in {"reply", "publish"}, c \in Channels, g \in BOOLEAN :
             Call(p, c, g, NoTimeout) \in Calls
      BY RecvAssumption, EmptySeq DEF Call, Calls, Bodies
    <3> QED
      BY <2>1, <2>4, <3>1, PushedKept DEF Rpc, BasicGet, BasicPublish
  <2>5. CASE PollTimedOut \/ CallbackReturns
    BY <2>1, <2>5, ReturnKept DEF PollTimedOut, CallbackReturns, At
  <2>6. CASE PollReady
    <3>1. stack # <<>> /\ Top \in Calls
      BY <2>1, <2>6, OuterIs DEF PollReady, At
    <3> DEFINE a == [Top EXCEPT !.pc = "method"]
    <3>2. a.view = Top.view /\ Become(a)
      BY <2>6, <3>1 DEF Calls, PollReady
    <3> HIDE DEF a
    <3> QED
      BY <2>1, <3>1, <3>2, BecomeKept
  <2>7. CASE ReadMethod
    BY <2>7 DEF ReadMethod, At, Kept
  <2>8. CASE ReadHeader \/ ReadBody
    BY <2>8, ReadingKept
  <2>9. CASE ReadReply
    BY <2>9, ReplyKept
  <2>10. CASE CloseCall
    BY <2>10 DEF CloseCall, Close, Kept
  <2>11. CASE BrokerNext
    BY <2>2, <2>11 DEF BrokerNext, LinkDown, Deliver, BasicReturn, Arrive
  <2>12. CASE PublishReturns
    <3>1. stack # <<>> /\ Top.pc = "publish"
      BY <2>12 DEF PublishReturns, At
    <3>2. CASE Close(Outer)
      BY <3>2 DEF Close, Kept
    <3> QED
      BY <2>1, <2>12, <3>1, <3>2, ReleaseKept DEF PublishReturns
  <2> QED
    BY <2>3, <2>4, <2>5, <2>6, <2>7, <2>8, <2>9, <2>10, <2>11, <2>12 DEF Next, Waits
<1>2. LentBodyKept <=> [][Kept]_vars
  BY DEF LentBodyKept, Kept
<1> QED
  BY <1>1, <1>2, LinesAreKept, PTL DEF Spec

-----------------------------------------------------------------------------
(* NonBlocking. *)
StartsToBlock ==
    ~Blocked /\ Blocked'
    => /\ At("method") /\ Available(0)
       /\ Taken(0).kind \in {"header", "body"}
       /\ msgs[Taken(0).msg].kind = "getok"

(* No call waits for a method frame after one has returned: the call around *)
(* it is in its callback.                                                  *)
LEMMA NotAfterReturn ==
    ASSUME stack' \in Seq(Calls), \A i \in DOMAIN stack' : stack'[i].pc = "callback"
    PROVE  ~At("method")'
<1>1. Len(stack') \in Nat /\ DOMAIN stack' = 1..Len(stack') /\ (stack' # <<>> => Len(stack') # 0)
  BY LenProperties, EmptySeq
<1> QED
  BY <1>1 DEF At, Top

(* The call that is put on top is the innermost. *)
LEMMA AppendTop ==
    ASSUME NEW s \in Seq(Calls), NEW a, stack' = Append(s, a)
    PROVE  Top' = a /\ stack' # <<>>
<1> DEFINE S == Calls \cup {a}
<1>1. s \in Seq(S) /\ a \in S /\ Len(s) \in Nat
  <2>1. Len(s) \in Nat /\ (\A i \in 1..Len(s) : s[i] \in Calls)
        /\ s = [i \in 1..Len(s) |-> s[i]]
    BY ElementOfSeq, SeqDef
  <2> QED
    BY <2>1, IsASeq
<1> HIDE DEF S
<1>2. Len(stack') = Len(s) + 1 /\ stack'[Len(s) + 1] = a
  BY <1>1, AppendProperties
<1>3. stack' # <<>>
  BY <1>1, <1>2, EmptySeq
<1> QED
  BY <1>2, <1>3 DEF Top

(* Nor does one when the innermost call has gone on to something else. *)
LEMMA NotAfterAppend ==
    ASSUME NEW s \in Seq(Calls), NEW a, stack' = Append(s, a), a.pc # "method"
    PROVE  ~At("method")'
BY AppendTop DEF At

(* Content that drain_events passes over is a basic_get's. *)
LEMMA PassedOver ==
    ASSUME IInv, At("method"), Available(0), Taken(0).kind \in {"header", "body"}
    PROVE  msgs[Taken(0).msg].kind = "getok"
<1>1. WiresOK /\ AllAnnounced
  BY IInvParts, QuietMeans DEF Quiet, At, InDelivery
<1>2. PICK t : t = Taken(0)
  OBVIOUS
<1>3. /\ t \in Frames /\ Valid(t)
      /\ \A d \in Channels : d = t.ch =>
                /\ t \in Line(d)
                /\ \A g \in Line(d) : g = t \/ Precedes(t, g)
  BY <1>1, <1>2, TakenIsFirst
<1>4. t.kind \in {"header", "body"}
  BY <1>2
<1>5. t.msg \in DOMAIN msgs /\ msgs[t.msg].kind # "return" /\ Stage(t) \in Nat \ {0} /\ t.msg \in Nat
  BY <1>3, <1>4, ValidFacts DEF Frames
<1>6. msgs[t.msg].kind \in {"deliver", "getok", "return"}
  BY <1>1, <1>5, MsgTyped DEF MsgSet
<1>7. ASSUME msgs[t.msg].kind = "deliver" PROVE FALSE
  <2> DEFINE g == Frame("deliver", t.ch, t.msg, 0)
  <2>1. t.ch \in Channels
    BY <1>3 DEF Frames
  <2>2. PICK d \in Channels : d = t.ch
    BY <2>1
  <2>3. g \in Line(d)
    BY <1>1, <1>3, <1>4, <1>7, <2>2 DEF AllAnnounced
  <2>4. g.kind = "deliver" /\ g.ch = t.ch /\ g.msg = t.msg /\ Stage(g) = 0
    BY DEF Frame, Stage, MethodKinds
  <2> HIDE DEF g
  <2>5. Precedes(t, g)
    BY <1>3, <1>4, <2>2, <2>3, <2>4
  <2> QED
    BY <1>4, <1>5, <2>4, <2>5 DEF Precedes, Older
<1> QED
  BY <1>2, <1>5, <1>6, <1>7

(* Nothing inbound is nothing anywhere. *)
LEMMA NothingThere ==
    ASSUME Placed, Inbound = <<>>
    PROVE  queued = <<>> /\ inbuf = <<>> /\ sock = <<>>
<1>1. \A q, u \in Seq(Frames) : q \o u = <<>> => q = <<>> /\ u = <<>>
  BY ConcatSimplifications
<1>2. queued \o inbuf \in Seq(Frames)
  BY ConcatProperties DEF Placed
<1> QED
  BY <1>1, <1>2 DEF Placed, Inbound

(* While a call waits, what it needs comes, or the link goes; the wait of a    *)
(* drain_events that polls begins when there is something to read.             *)
LEMMA StaysNonBlocking ==
    ASSUME IInv, Next, ~Blocked, Blocked'
    PROVE  /\ At("method") /\ Available(0)
           /\ Taken(0).kind \in {"header", "body"}
<1>1. StackOK /\ WiresOK
  BY IInvParts
<1>2. At("method")' /\ Top'.timeout \in Nat /\ Inbound' = <<>> /\ link' = "up"
  BY DEF Blocked, Available
<1>3. stack \in Seq(Calls)
  BY <1>1 DEF StackOK
<1>4. ASSUME NEW s, Close(s) PROVE FALSE
  BY <1>2, <1>4 DEF Close
<1>5. ASSUME stack # <<>>, Return PROVE FALSE
  BY <1>1, <1>2, <1>5, OuterIs, NotAfterReturn DEF Return
<1>6. ASSUME stack # <<>>, NEW a, Become(a), a.pc # "method" PROVE FALSE
  BY <1>1, <1>2, <1>6, OuterIs, NotAfterAppend DEF Become
<1>7. ASSUME NEW call, HandOver(call), stack # <<>> PROVE FALSE
  <2> DEFINE v == IF msgs[call.hdr].parts = 1 THEN "library" ELSE "own"
             a == [Call("callback", call.ch, FALSE, NoTimeout) EXCEPT !.view = v]
  <2>1. a.pc = "callback"
    BY DEF Call
  <2>2. Become(a)
    BY <1>7 DEF HandOver
  <2> HIDE DEF a
  <2> QED
    BY <1>6, <1>7, <2>1, <2>2
<1>8. ASSUME NEW call, Finish(call), stack # <<>> PROVE FALSE
  BY <1>5, <1>7, <1>8 DEF Finish
<1>9. CASE BrokerNext
  <2>1. UNCHANGED stack
    BY <1>9 DEF BrokerNext, LinkDown, Deliver, BasicReturn, Arrive
  <2>2. link = "up"
    BY <1>1, <1>2, <1>9 DEF BrokerNext, LinkDown, Deliver, BasicReturn, Arrive
  <2>3. Inbound # <<>>
    BY <1>2, <2>1, <2>2 DEF Blocked, Available, At, Top
  <2>4. Inbound' # <<>>
    <3>1. CASE \E c \in Channels : Arrive(c)
      BY <1>1, <3>1, ArriveKeeps DEF Arrive
    <3>2. CASE \E c \in Channels : Deliver(c) \/ BasicReturn(c)
      BY <2>3, <3>2 DEF Deliver, BasicReturn, Inbound
    <3>3. CASE LinkDown
      BY <1>2, <3>3 DEF LinkDown
    <3> QED
      BY <1>9, <3>1, <3>2, <3>3 DEF BrokerNext
  <2> QED
    BY <1>2, <2>4
<1>10. ASSUME NEW t \in Timeouts, DrainEvents(t) PROVE FALSE
  <2> DEFINE a == Call(IF ShouldPollFor(t) THEN "poll" ELSE "method", 0, FALSE, t)
  <2>1. stack' = Append(stack, a) /\ UNCHANGED <<queued, inbuf, sock>>
    BY <1>10 DEF DrainEvents, Push, wires
  <2>2. a \in Calls /\ a.timeout = t /\ a.pc = IF ShouldPollFor(t) THEN "poll" ELSE "method"
    BY RecvAssumption, EmptySeq DEF Call, Calls, Bodies
  <2> HIDE DEF a
  <2>3. Top' = a
    BY <1>3, <2>1, <2>2, AppendProperties, LenProperties DEF Top
  <2>4. ~ShouldPollFor(t) /\ t \in Nat
    BY <1>2, <2>2, <2>3 DEF At
  <2>5. ShouldPoll(RecvTimeout(t))
    BY <2>4, RecvAssumption DEF ShouldPoll, RecvTimeout
  <2>6. queued # <<>> \/ inbuf # <<>>
    BY <2>4, <2>5 DEF ShouldPollFor, ActiveBuffers
  <2>7. queued = <<>> /\ inbuf = <<>>
    BY <1>1, <1>2, <2>1, NothingThere DEF Inbound, WiresOK
  <2> QED
    BY <2>6, <2>7
<1>11. CASE PollReady
  <2>1. Inbound = <<>> /\ link = "up"
    BY <1>2, <1>11 DEF PollReady, wires, Inbound
  <2>2. sock # <<>> \/ link = "down"
    BY <1>11 DEF PollReady
  <2> QED
    BY <1>1, <2>1, <2>2, NothingThere DEF WiresOK
<1>12. CASE ReadMethod
  <2> DEFINE t == Taken(0)
  <2>1. At("method") /\ stack # <<>> /\ Top \in Calls
    BY <1>1, <1>12, OuterIs DEF ReadMethod, At
  <2>2. Available(0) /\ t.kind \notin MethodKinds \ {"deliver"}
    BY <1>4, <1>12 DEF ReadMethod
  <2>3. t \in Frames
    BY <1>1, <2>2, TakenIsFirst
  <2>4. ASSUME t.kind = "deliver" PROVE FALSE
    <3> DEFINE s == Released(stack, Channels, queued)
               front == SubSeq(s, 1, Len(s) - 1)
               a == [Top EXCEPT !.pc = "header", !.ch = t.ch, !.msg = t.msg]
    <3>1. stack' = Append(front, a)
      BY <1>4, <1>12, <2>4 DEF ReadMethod
    <3>2. s \in Seq(Calls) /\ Len(s) = Len(stack) /\ Len(stack) \in Nat \ {0}
      BY <1>1, <1>3, <2>1, ReleasedIs, OuterIs
    <3>3. s # <<>>
      BY <3>2, EmptySeq
    <3> HIDE DEF s
    <3>4. front \in Seq(Calls)
      BY <3>2, <3>3, FrontIs
    <3>5. a.pc = "header"
      BY <2>1 DEF Calls
    <3> HIDE DEF front, a
    <3> QED
      BY <1>2, <3>1, <3>4, <3>5, NotAfterAppend
  <2>5. t.kind \in {"header", "body"}
    BY <2>2, <2>3, <2>4 DEF Frames, MethodKinds
  <2> QED
    BY <2>1, <2>2, <2>5
<1>13. CASE ReadHeader
  <2> DEFINE t == Taken(IF Top.get THEN 0 ELSE Top.ch)
             call == [Top EXCEPT !.ch = t.ch, !.hdr = t.msg]
             a == [call EXCEPT !.pc = "body"]
  <2>1. stack # <<>> /\ Top \in Calls
    BY <1>1, <1>13, OuterIs DEF ReadHeader, At
  <2>2. Close(Outer) \/ Return \/ Become(a) \/ Finish(call)
    BY <1>13 DEF ReadHeader, UnexpectedFrame
  <2>3. a.pc = "body"
    BY <2>1 DEF Calls
  <2> HIDE DEF a, call
  <2> QED
    BY <1>4, <1>5, <1>6, <1>8, <2>1, <2>2, <2>3
<1>14. CASE ReadBody
  <2> DEFINE t == Taken(Top.ch)
             call == [Top EXCEPT !.parts = Append(@, <<t.msg, t.part>>)]
  <2>1. stack # <<>> /\ Top \in Calls /\ Top.pc = "body"
    BY <1>1, <1>14, OuterIs DEF ReadBody, At
  <2>2. Close(Outer) \/ Finish(Top) \/ Return \/ Become(call) \/ Finish(call)
    BY <1>14 DEF ReadBody, UnexpectedFrame
  <2>3. call.pc = "body"
    BY <2>1 DEF Calls
  <2> HIDE DEF call
  <2> QED
    BY <1>4, <1>5, <1>6, <1>8, <2>1, <2>2, <2>3
<1>15. CASE ReadReply \/ PublishReturns
  <2>1. stack # <<>> /\ Top \in Calls
    BY <1>1, <1>15, OuterIs DEF ReadReply, PublishReturns, At
  <2>2. PICK m, q : \/ Close(Outer) \/ Return
                    \/ stack' = ReleaseOnChannel(Top.ch, q)
                    \/ stack' = Append(Outer, [Top EXCEPT !.pc = "header", !.msg = m])
    BY <1>15 DEF ReadReply, PublishReturns, Return
  <2> DEFINE a == [Top EXCEPT !.pc = "header", !.msg = m]
  <2>3. a.pc = "header"
    BY <2>1 DEF Calls
  <2> HIDE DEF a
  <2>4. CASE stack' = ReleaseOnChannel(Top.ch, q)
    <3>1. PICK s : s = Released(Outer, {Top.ch}, q)
      OBVIOUS
    <3>2. s \in Seq(Calls) /\ \A k \in DOMAIN s : s[k].pc = "callback"
      BY <1>1, <2>1, <3>1, ReleasedOuter
    <3>3. stack' = s
      BY <2>4, <3>1 DEF ReleaseOnChannel
    <3> QED
      BY <1>2, <3>2, <3>3, NotAfterReturn
  <2>5. CASE Become(a)
    BY <1>6, <2>1, <2>3, <2>5
  <2>6. \/ Close(Outer) \/ Return \/ stack' = ReleaseOnChannel(Top.ch, q) \/ Become(a)
    BY <2>2 DEF a, Become
  <2> QED
    BY <1>4, <1>5, <2>1, <2>4, <2>5, <2>6
<1>16. CASE \E c \in Channels : Rpc(c) \/ BasicGet(c) \/ BasicPublish(c)
  <2>1. \A p \in {"reply", "publish"}, c \in Channels, g \in BOOLEAN :
           Call(p, c, g, NoTimeout).pc = p
    BY DEF Call
  <2> QED
    BY <1>2, <1>3, <1>16, <2>1, NotAfterAppend DEF Rpc, BasicGet, BasicPublish, Push
<1>17. CASE PollTimedOut \/ CallbackReturns
  BY <1>5, <1>17 DEF PollTimedOut, CallbackReturns, At
<1>18. CASE CloseCall
  BY <1>4, <1>18 DEF CloseCall
<1> QED
  BY <1>9, <1>10, <1>11, <1>12, <1>13, <1>14, <1>15, <1>16, <1>17, <1>18 DEF Next, Waits

(* A drain_events that polls waits for a frame with none there only after it   *)
(* has passed over content that a basic_get left (connection.c,                *)
(* PyRabbitMQ_Connection_basic_recv; Changelog 323).                           *)
THEOREM PollingDoesNotBlock == Spec => NonBlocking
<1>1. IInv /\ [Next]_vars => [StartsToBlock]_vars
  <2> SUFFICES ASSUME IInv, Next PROVE StartsToBlock
    OBVIOUS
  <2>1. ASSUME ~Blocked, Blocked'
        PROVE  /\ At("method") /\ Available(0)
               /\ Taken(0).kind \in {"header", "body"}
               /\ msgs[Taken(0).msg].kind = "getok"
    <3>1. At("method") /\ Available(0) /\ Taken(0).kind \in {"header", "body"}
      BY <2>1, StaysNonBlocking
    <3> QED
      BY <3>1, PassedOver
  <2> QED
    BY <2>1 DEF StartsToBlock
<1>2. NonBlocking <=> [][StartsToBlock]_vars
  BY DEF NonBlocking, StartsToBlock
<1> QED
  BY <1>1, <1>2, LinesAreKept, PTL DEF Spec

-----------------------------------------------------------------------------
(* ImplementsMailbox.  A message is announced while its basic.deliver is in    *)
(* the line of its channel.                                                    *)
InLine(c, m) == Frame("deliver", c, m, 0) \in Line(c)

(* The messages announced on a channel, by its line.                          *)
LEMMA AnnouncedIs == \A c : Announced(c) = {m \in 1..MaxMessages : InLine(c, m)}
BY DEF Announced, Unread, InLine, Line, Within, Frame

(* The same after a step.                                                     *)
LEMMA AnnouncedIsNext == \A c : Announced(c)' = {m \in 1..MaxMessages : InLine(c, m)'}
BY DEF Announced, Unread, InLine, Line, Within, Frame

(* What the last callback got does not change when messages are sent. *)
LEMMA HandedStays ==
    ASSUME IInv, UNCHANGED handed, DOMAIN msgs \subseteq DOMAIN msgs',
           \A m \in DOMAIN msgs : msgs'[m] = msgs[m]
    PROVE  AbstractHanded' = AbstractHanded
<1>1. handed.hdr # 0 => msgs'[handed.hdr] = msgs[handed.hdr]
  BY DEF IInv
<1>2. Body(handed)' = Body(handed)
  BY <1>1 DEF Body
<1> QED
  BY <1>2 DEF AbstractHanded

(* Steps after which every box holds what it held. *)
LEMMA SameBoxes ==
    ASSUME IInv, UNCHANGED <<link, handed, msgs>>,
           \A c \in Channels, m \in 1..MaxMessages : InLine(c, m)' <=> InLine(c, m),
           \A c \in Channels : Reading(c)' = Reading(c)
    PROVE  UNCHANGED AbstractMailbox!vars
<1>1. \A c \in Channels : Announced(c)' = Announced(c)
  BY AnnouncedIs, AnnouncedIsNext
<1>2. Box' = Box
  BY <1>1 DEF Box
<1>3. AbstractHanded' = AbstractHanded /\ SentToConsumers' = SentToConsumers
  BY HandedStays DEF SentToConsumers
<1> QED
  BY <1>2, <1>3 DEF AbstractMailbox!vars

(* A frame that is taken and announces nothing. *)
LEMMA TakenSilently ==
    ASSUME NEW t, t.kind # "deliver", \A d \in Channels : Line(d)' = Line(d) \ {t}
    PROVE  \A c \in Channels, m \in 1..MaxMessages : InLine(c, m)' <=> InLine(c, m)
<1>1. \A c, m : Frame("deliver", c, m, 0) # t
  BY DEF Frame
<1> QED
  BY <1>1 DEF InLine

(* Nobody reads a delivery after a call has returned. *)
LEMMA NobodyReads ==
    ASSUME stack' \in Seq(Calls), \A i \in DOMAIN stack' : stack'[i].pc = "callback"
    PROVE  \A c : Reading(c)' = {}
<1>1. Len(stack') \in Nat /\ DOMAIN stack' = 1..Len(stack') /\ (stack' # <<>> => Len(stack') # 0)
  BY LenProperties, EmptySeq
<1> QED
  BY <1>1 DEF Reading, Top

(* Sending. *)
LEMMA SendingShows ==
    ASSUME WiresOK, NEW c \in Channels, NEW s \in Seq(Frames), Queued(c, s)
    PROVE  \A d \in Channels, m \in 1..MaxMessages :
             InLine(d, m)' <=> InLine(d, m) \/ (d = c /\ Within(s, Frame("deliver", c, m, 0)))
<1>1. out \in [Channels -> Seq(Frames)] /\ out[c] \in Seq(Frames)
  BY DEF WiresOK, Placed
<1>2. /\ DOMAIN out[c] = 1..Len(out[c]) /\ Len(out[c]) \in Nat
      /\ DOMAIN s = 1..Len(s) /\ Len(s) \in Nat
  BY <1>1, LenProperties
<1> DEFINE q == out[c] \o s
<1>3. /\ DOMAIN q = 1..(Len(out[c]) + Len(s))
      /\ \A i \in 1..(Len(out[c]) + Len(s)) :
           q[i] = IF i <= Len(out[c]) THEN out[c][i] ELSE s[i - Len(out[c])]
  <2>1. /\ q \in Seq(Frames) /\ Len(q) = Len(out[c]) + Len(s)
        /\ \A i \in 1..Len(out[c]) + Len(s) :
           q[i] = IF i <= Len(out[c]) THEN out[c][i] ELSE s[i - Len(out[c])]
    BY <1>1, ConcatProperties
  <2> QED
    BY <2>1, LenProperties
<1>4. out' = [out EXCEPT ![c] = q] /\ Inbound' = Inbound
  BY DEF Queued, Inbound
<1> HIDE DEF q
<1>5. \A f : Within(q, f) <=> Within(out[c], f) \/ Within(s, f)
  <2> TAKE f
  <2>1. ASSUME Within(q, f) PROVE Within(out[c], f) \/ Within(s, f)
    <3>1. PICK i \in 1..(Len(out[c]) + Len(s)) : q[i] = f
      BY <1>3, <2>1 DEF Within
    <3>2. CASE i <= Len(out[c])
      <4>1. i \in DOMAIN out[c] /\ out[c][i] = f
        BY <1>2, <1>3, <3>1, <3>2
      <4> QED
        BY <4>1 DEF Within
    <3>3. CASE ~(i <= Len(out[c]))
      <4>1. i - Len(out[c]) \in DOMAIN s /\ s[i - Len(out[c])] = f
        BY <1>2, <1>3, <3>1, <3>3
      <4> QED
        BY <4>1 DEF Within
    <3> QED
      BY <3>2, <3>3
  <2>2. ASSUME NEW i \in DOMAIN out[c], out[c][i] = f PROVE Within(q, f)
    <3>1. i \in DOMAIN q /\ q[i] = f
      BY <1>2, <1>3, <2>2
    <3> QED
      BY <3>1 DEF Within
  <2>3. ASSUME NEW i \in DOMAIN s, s[i] = f PROVE Within(q, f)
    <3>1. Len(out[c]) + i \in DOMAIN q /\ q[Len(out[c]) + i] = f
      <4>1. /\ Len(out[c]) + i \in 1..(Len(out[c]) + Len(s)) /\ ~(Len(out[c]) + i <= Len(out[c]))
            /\ Len(out[c]) + i - Len(out[c]) = i
        BY <1>2
      <4> QED
        BY <1>3, <2>3, <4>1
    <3> QED
      BY <3>1 DEF Within
  <2> QED
    BY <2>1, <2>2, <2>3 DEF Within
<1>6. \A d \in Channels : \A f : Within(out'[d], f) <=> Within(out[d], f) \/ (d = c /\ Within(s, f))
  BY <1>1, <1>4, <1>5
<1>7. \A d \in Channels : \A f : f \in Line(d)' <=> f.ch = d /\ (Within(Inbound', f) \/ Within(out'[d], f))
  BY DEF Line, Within
<1>8. \A d \in Channels : \A m : Frame("deliver", d, m, 0).ch = d
  BY DEF Frame
<1> QED
  BY <1>4, <1>6, <1>7, <1>8, LineMember DEF InLine

(* The broker sends something that is not for a consumer. *)
LEMMA OtherMessage ==
    ASSUME IInv, CanSend, NEW c \in Channels, NEW k \in {"getok", "return"},
           NEW p \in Sizes \cup {0}, Recorded(c, k, p), UNCHANGED handed
    PROVE  SentToConsumers' = SentToConsumers /\ AbstractHanded' = AbstractHanded
<1>1. /\ DOMAIN msgs' = DOMAIN msgs \cup {NewMsg} /\ NewMsg \notin DOMAIN msgs
      /\ msgs'[NewMsg] = Message(c, k, p)
      /\ \A m \in DOMAIN msgs : msgs'[m] = msgs[m]
  BY IInvParts, MsgsGrow
<1>2. msgs'[NewMsg].kind # "deliver"
  BY <1>1 DEF Message
<1>3. SentToConsumers' = SentToConsumers
  BY <1>1, <1>2 DEF SentToConsumers
<1> QED
  BY <1>1, <1>3, HandedStays

(* Frames that announce nothing go out. *)
LEMMA SentSilently ==
    ASSUME IInv, NEW c \in Channels, NEW s \in Seq(Frames), Queued(c, s),
           \A i \in DOMAIN s : s[i].kind # "deliver",
           \A d \in Channels : Reading(d)' = Reading(d),
           SentToConsumers' = SentToConsumers, AbstractHanded' = AbstractHanded
    PROVE  UNCHANGED AbstractMailbox!vars
<1>1. \A m : ~Within(s, Frame("deliver", c, m, 0))
  BY DEF Within, Frame
<1>2. \A d \in Channels, m \in 1..MaxMessages : InLine(d, m)' <=> InLine(d, m)
  BY <1>1, IInvParts, SendingShows
<1>3. \A d \in Channels : Announced(d)' = Announced(d)
  BY <1>2, AnnouncedIs, AnnouncedIsNext
<1>4. Box' = Box /\ (link = "up")' = (link = "up")
  BY <1>3 DEF Box, Queued
<1> QED
  BY <1>4 DEF AbstractMailbox!vars

(* What frames sent together announce: the message, if it is for a consumer. *)
Announcing(s, k, c, m) ==
    /\ s \in Seq(Frames)
    /\ k = "getok" => \A i \in DOMAIN s : s[i].kind # "deliver"
    /\ k = "deliver" => \A l : Within(s, Frame("deliver", c, l, 0)) <=> l = m

(* So it is for the frames of a message. *)
LEMMA FramesAnnounce ==
    ASSUME NEW k \in {"deliver", "getok"}, NEW c \in Channels, NEW m \in 1..MaxMessages,
           NEW n \in Nat
    PROVE  Announcing(MessageFrames(k, c, m, n), k, c, m)
<1>0. k \in MethodKinds
  BY DEF MethodKinds
<1> DEFINE s == MessageFrames(k, c, m, n)
<1>1. /\ s \in Seq(Frames) /\ DOMAIN s = 1..(n + 2) /\ s[1] = Frame(k, c, m, 0)
      /\ s[2] = Frame("header", c, m, 0)
      /\ \A i \in 3..(n + 2) : s[i] = Frame("body", c, m, i - 2)
  <2>1. s \in Seq(Frames) /\ DOMAIN s = 1..(n + 2)
    BY <1>0, MessageIs
  <2>2. s[1] = Frame(k, c, m, 0) /\ s[2] = Frame("header", c, m, 0)
    BY <1>0, MessageIs
  <2>3. ASSUME NEW i \in 3..(n + 2) PROVE s[i] = Frame("body", c, m, i - 2)
    BY <1>0, MessageIs
  <2> QED
    BY <2>1, <2>2, <2>3
<1> HIDE DEF s
<1>2. \A i \in DOMAIN s : i = 1 \/ i = 2 \/ i \in 3..(n + 2)
  BY <1>1
<1>3. s[1].kind = k /\ s[1].msg = m
  BY <1>1 DEF Frame
<1>4. ASSUME NEW i \in DOMAIN s, i # 1 PROVE s[i].kind \in {"header", "body"}
  <2>1. CASE i = 2
    BY <1>1, <2>1 DEF Frame
  <2>2. CASE i \in 3..(n + 2)
    <3>1. s[i] = Frame("body", c, m, i - 2)
      BY <1>1, <2>2
    <3> QED
      BY <3>1 DEF Frame
  <2> QED
    BY <1>2, <1>4, <2>1, <2>2
<1>5. 1 \in DOMAIN s
  BY <1>1
<1>6. ASSUME k = "deliver", NEW l, Within(s, Frame("deliver", c, l, 0)) PROVE l = m
  <2>1. PICK i \in DOMAIN s : s[i] = Frame("deliver", c, l, 0)
    BY <1>6 DEF Within
  <2>2. Frame("deliver", c, l, 0).kind = "deliver" /\ Frame("deliver", c, l, 0).msg = l
    BY DEF Frame
  <2> QED
    BY <1>3, <1>4, <2>1, <2>2
<1>7. k = "deliver" => Within(s, Frame("deliver", c, m, 0))
  BY <1>1, <1>5 DEF Within
<1>8. Announcing(s, k, c, m)
  BY <1>1, <1>3, <1>4, <1>6, <1>7 DEF Announcing
<1> QED
  BY <1>8 DEF s

(* basic.deliver is sent: a message is put into the box of its channel. *)
LEMMA DeliverIsSend ==
    ASSUME IInv, NEW c \in Channels, Deliver(c)
    PROVE  AbstractMailbox!Send(c)
<1>1. WiresOK /\ CanSend /\ UNCHANGED <<connected, link, sock, inbuf, queued, stack, handed>>
  BY IInvParts DEF Deliver
<1>2. PICK n \in Sizes :
         /\ msgs' = Append(msgs, Message(c, "deliver", n))
         /\ out' = [out EXCEPT ![c] = @ \o <<Frame("deliver", c, NewMsg, 0)>> \o Content(c, NewMsg, n)]
  BY DEF Deliver
<1>3. Recorded(c, "deliver", n) /\ n \in Nat /\ n \in Sizes \cup {0}
  BY <1>2, RecvAssumption DEF Recorded
<1>4. /\ NewMsg \in 1..MaxMessages /\ NewMsg \notin DOMAIN msgs
      /\ DOMAIN msgs' = DOMAIN msgs \cup {NewMsg}
      /\ msgs'[NewMsg] = Message(c, "deliver", n)
      /\ \A m \in DOMAIN msgs : m < NewMsg /\ msgs'[m] = msgs[m]
  BY <1>1, <1>3, MsgsGrow
<1>5. PICK new \in 1..MaxMessages : new = NewMsg
  BY <1>4
<1>6. PICK s : s = MessageFrames("deliver", c, new, n)
  OBVIOUS
<1>7. Queued(c, s)
  <2>1. (out[c] \o <<Frame("deliver", c, new, 0)>>) \o Content(c, new, n) = out[c] \o s
    BY <1>1, <1>3, <1>6, ContentIsQueued
  <2>2. out' = [out EXCEPT ![c] = @ \o s]
    BY <1>2, <1>5, <2>1
  <2> QED
    BY <1>1, <2>2 DEF Queued
<1>8. /\ s \in Seq(Frames)
      /\ \A l : Within(s, Frame("deliver", c, l, 0)) <=> l = new
  <2>1. Announcing(MessageFrames("deliver", c, new, n), "deliver", c, new)
    BY <1>3, FramesAnnounce
  <2> QED
    BY <1>6, <2>1 DEF Announcing
<1>9. \A d \in Channels, m \in 1..MaxMessages : InLine(d, m)' <=> InLine(d, m) \/ (d = c /\ m = new)
  BY <1>1, <1>7, <1>8, SendingShows
<1>10. /\ Announced(c)' = Announced(c) \cup {new}
       /\ \A d \in Channels : d # c => Announced(d)' = Announced(d)
  BY <1>9, AnnouncedIs, AnnouncedIsNext
<1>11. \A d : Reading(d)' = Reading(d)
  BY <1>1 DEF Reading, Top
<1>12. Box' = [Box EXCEPT ![c] = @ \cup {new}]
  BY <1>10, <1>11 DEF Box
<1>13. /\ SentToConsumers' = SentToConsumers \cup {new}
       /\ \A m \in SentToConsumers : m < new
  <2>1. msgs'[NewMsg].kind = "deliver"
    BY <1>4 DEF Message
  <2> QED
    BY <1>4, <1>5, <2>1 DEF SentToConsumers
<1>14. AbstractHanded' = AbstractHanded
  BY <1>1, <1>4, HandedStays
<1>15. link = "up" /\ link' = "up"
  BY <1>1 DEF CanSend
<1> QED
  BY <1>12, <1>13, <1>14, <1>15 DEF AbstractMailbox!Send

(* A returned message is in no box. *)
LEMMA BasicReturnIsSilent ==
    ASSUME IInv, NEW c \in Channels, BasicReturn(c)
    PROVE  UNCHANGED AbstractMailbox!vars
<1>1. WiresOK /\ CanSend /\ UNCHANGED <<connected, link, sock, inbuf, queued, stack, handed>>
  BY IInvParts DEF BasicReturn
<1>2. Recorded(c, "return", 0) /\ 0 \in Sizes \cup {0}
  BY DEF BasicReturn, Recorded
<1>3. NewMsg \in 1..MaxMessages
  BY <1>1, <1>2, MsgsGrow
<1>4. PICK f : f = Frame("return", c, NewMsg, 0)
  OBVIOUS
<1>5. f \in Frames /\ f.kind # "deliver"
  BY <1>3, <1>4, RecvAssumption DEF Frame, Frames, MethodKinds
<1>6. PICK s : s = <<f>>
  OBVIOUS
<1>7. s \in Seq(Frames) /\ DOMAIN s = {1} /\ s[1] = f
  BY <1>5, <1>6
<1>8. Queued(c, s)
  <2>1. out[c] \in Seq(Frames)
    BY <1>1 DEF WiresOK, Placed
  <2>2. Append(out[c], f) = out[c] \o s
    BY <1>5, <1>6, <2>1, AppendIsConcat
  <2>3. out' = [out EXCEPT ![c] = @ \o s]
    BY <1>4, <2>2 DEF BasicReturn
  <2> QED
    BY <1>1, <2>3 DEF Queued
<1>9. SentToConsumers' = SentToConsumers /\ AbstractHanded' = AbstractHanded
  BY <1>1, <1>2, OtherMessage
<1>10. \A d \in Channels : Reading(d)' = Reading(d)
  BY <1>1 DEF Reading, Top
<1> QED
  BY <1>5, <1>7, <1>8, <1>9, <1>10, SentSilently

(* Nobody reads a delivery when the program makes a call or has made one. *)
LEMMA CallerReadsNothing ==
    ASSUME IInv, CanCall, NEW a \in Calls, Push(a), a.pc \notin {"header", "body"}
    PROVE  \A d : Reading(d) = {} /\ Reading(d)' = {}
<1>1. stack \in Seq(Calls) /\ Quiet
  BY CallerIsQuiet
<1>2. Top' = a
  BY <1>1, AppendProperties, LenProperties DEF Push, Top
<1> QED
  BY <1>1, <1>2 DEF Quiet, InDelivery, Reading

(* Neither do the answers to RPCs announce anything. *)
LEMMA RequestIsSilent ==
    ASSUME IInv, NEW c \in Channels, Rpc(c) \/ BasicGet(c)
    PROVE  UNCHANGED AbstractMailbox!vars
<1>1. WiresOK /\ CanCall
  BY IInvParts DEF Rpc, BasicGet
<1>2. UNCHANGED <<connected, link, sock, inbuf, queued, handed>>
  BY DEF Rpc, BasicGet
<1>3. \A d : Reading(d) = {} /\ Reading(d)' = {}
  <2>1. \A g \in BOOLEAN : /\ Call("reply", c, g, NoTimeout) \in Calls
                           /\ Call("reply", c, g, NoTimeout).pc = "reply"
    BY RecvAssumption, EmptySeq DEF Call, Calls, Bodies
  <2> QED
    BY <1>1, <2>1, CallerReadsNothing DEF Rpc, BasicGet
<1>4. CASE Sent(c, <<Frame("reply", c, 0, 0)>>) /\ UNCHANGED msgs
  <2>1. SentToConsumers' = SentToConsumers /\ AbstractHanded' = AbstractHanded
    BY <1>2, <1>4, HandedStays DEF SentToConsumers
  <2>2. PICK f : f = Frame("reply", c, 0, 0)
    OBVIOUS
  <2>3. f \in Frames /\ f.kind # "deliver"
    BY <2>2, RecvAssumption DEF Frame, Frames, MethodKinds
  <2>4. PICK s : s = <<f>>
    OBVIOUS
  <2>5. s \in Seq(Frames) /\ DOMAIN s = {1} /\ s[1] = f
    BY <2>3, <2>4
  <2>6. CASE link = "up"
    <3>1. Queued(c, s)
      BY <1>2, <1>4, <2>2, <2>4, <2>6 DEF Sent, Queued
    <3> QED
      BY <1>3, <2>1, <2>3, <2>5, <3>1, SentSilently
  <2>7. CASE link # "up"
    <3>1. out' = out
      BY <1>1, <1>4, <2>7 DEF Sent, WiresOK, Placed
    <3>2. \A d \in Channels : Line(d)' = Line(d)
      BY <1>2, <1>4, <3>1, NoFrameMoves
    <3> QED
      BY <1>2, <1>3, <1>4, <3>2, SameBoxes DEF InLine
  <2> QED
    BY <2>6, <2>7
<1>5. ASSUME CanSend, NEW n \in Sizes, msgs' = Append(msgs, Message(c, "getok", n)),
             Sent(c, <<Frame("getok", c, NewMsg, 0)>> \o Content(c, NewMsg, n))
      PROVE  UNCHANGED AbstractMailbox!vars
  <2>1. Recorded(c, "getok", n) /\ n \in Sizes \cup {0} /\ n \in Nat
    BY <1>5, RecvAssumption DEF Recorded
  <2>2. NewMsg \in 1..MaxMessages
    BY <1>1, <1>5, <2>1, MsgsGrow
  <2>3. PICK m \in 1..MaxMessages : m = NewMsg
    BY <2>2
  <2>4. PICK s : s = MessageFrames("getok", c, m, n)
    OBVIOUS
  <2>5. s \in Seq(Frames) /\ \A i \in DOMAIN s : s[i].kind # "deliver"
    <3>1. Announcing(MessageFrames("getok", c, m, n), "getok", c, m)
      BY <2>1, FramesAnnounce
    <3> QED
      BY <2>4, <3>1 DEF Announcing
  <2>6. Queued(c, s)
    BY <1>2, <1>5, <2>3, <2>4 DEF Queued, Sent, CanSend, MessageFrames
  <2>7. SentToConsumers' = SentToConsumers /\ AbstractHanded' = AbstractHanded
    BY <1>2, <1>5, <2>1, OtherMessage
  <2> QED
    BY <1>3, <2>5, <2>6, <2>7, SentSilently
<1> QED
  BY <1>4, <1>5 DEF Rpc, BasicGet

(* What is announced behind what is being read is newer. *)
LEMMA ReadingIsOldest ==
    ASSUME IInv, InDelivery, NEW m \in 1..MaxMessages, InLine(Top.ch, m)
    PROVE  Top.msg < m
<1>1. /\ Expected \in Frames /\ Expected.msg = Top.msg /\ Expected.kind \in {"header", "body"}
      /\ Stage(Expected) >= 1
  BY ExpectedIs
<1>2. PICK g : g = Frame("deliver", Top.ch, m, 0)
  OBVIOUS
<1>5. Stage(Expected) \in Nat
  BY <1>1 DEF Stage, Frames
<1>3. g \in Line(Top.ch) /\ g.kind = "deliver" /\ g.msg = m /\ Stage(g) = 0
  BY <1>2 DEF InLine, Frame, Stage, MethodKinds
<1>4. Older(Expected, g)
  BY <1>1, <1>3, IInvParts DEF LineExpected
<1> QED
  BY <1>1, <1>3, <1>4, <1>5 DEF Older, Frames

(* Closing the connection empties the boxes. *)
LEMMA CloseIsClose ==
    ASSUME IInv, NEW s, Close(s), IInv', \A d \in Channels : Line(d)' = {}
    PROVE  AbstractMailbox!Close
<1>1. connected' = FALSE /\ link' = "down" /\ UNCHANGED <<msgs, handed>>
  BY DEF Close
<1>2. \A d : Reading(d)' = {}
  <2>1. stack' # <<>> => Top'.pc = "callback"
    BY <1>1, IInvPartsNext DEF StackOK, CallsNested
  <2> QED
    BY <2>1 DEF Reading
<1>3. \A d \in Channels : Announced(d)' = {}
  BY AnnouncedIsNext DEF InLine
<1>4. Box' = [c \in Channels |-> {}]
  BY <1>2, <1>3 DEF Box
<1>5. AbstractHanded' = AbstractHanded /\ SentToConsumers' = SentToConsumers
  BY <1>1, HandedStays DEF SentToConsumers
<1> QED
  BY <1>1, <1>4, <1>5 DEF AbstractMailbox!Close

(* A call that fails closes. *)
LEMMA FailureIsClose ==
    ASSUME IInv, stack # <<>>, Close(Outer)
    PROVE  AbstractMailbox!Close
BY FailurePreserves, CloseIsClose

(* The link takes the newest messages with it. *)
LEMMA LinkDownIsLoss ==
    ASSUME IInv, LinkDown
    PROVE  AbstractMailbox!LinkLost
<1>1. /\ link = "up" /\ link' = "down" /\ out' = [c \in Channels |-> <<>>]
      /\ UNCHANGED <<connected, sock, inbuf, queued, msgs, stack, handed>>
  BY DEF LinkDown
<1>2. \A d \in Channels :
                /\ Line(d)' \subseteq Line(d)
                /\ \A f \in Line(d) : f \notin Line(d)' => \A g \in Line(d)' : Precedes(g, f)
  BY <1>1, IInvParts, LinkDownKeeps
<1>3. \A d : Reading(d)' = Reading(d)
  BY <1>1 DEF Reading, Top
<1>4. \A d \in Channels :
        /\ Box[d] = Reading(d) \cup {m \in 1..MaxMessages : InLine(d, m)}
        /\ Box'[d] = Reading(d) \cup {m \in 1..MaxMessages : InLine(d, m)'}
  BY <1>3, AnnouncedIs, AnnouncedIsNext DEF Box
<1>5. ASSUME NEW d \in Channels
      PROVE  /\ Box'[d] \subseteq Box[d]
             /\ \A m \in Box'[d] : \A n \in Box[d] \ Box'[d] : m < n
  <2>1. \A m \in 1..MaxMessages : InLine(d, m)' => InLine(d, m)
    BY <1>2 DEF InLine
  <2>2. Box'[d] \subseteq Box[d]
    BY <1>4, <2>1
  <2>3. ASSUME NEW m \in Box'[d], NEW n \in Box[d] \ Box'[d] PROVE m < n
    <3>1. n \in 1..MaxMessages /\ InLine(d, n) /\ ~InLine(d, n)'
      BY <1>4, <2>3
    <3>2. CASE m \in Reading(d)
      <4>1. InDelivery /\ Top.ch = d /\ Top.msg = m
        BY <3>2 DEF Reading, InDelivery
      <4> QED
        BY <3>1, <4>1, ReadingIsOldest
    <3>3. CASE m \in 1..MaxMessages /\ InLine(d, m)'
      <4> DEFINE f == Frame("deliver", d, n, 0)
                 g == Frame("deliver", d, m, 0)
      <4>1. f \in Line(d) /\ f \notin Line(d)' /\ g \in Line(d)'
        BY <3>1, <3>3 DEF InLine
      <4>2. Precedes(g, f)
        BY <1>2, <4>1
      <4>3. /\ f.kind = "deliver" /\ f.ch = d /\ f.msg = n /\ Stage(f) = 0
            /\ g.kind = "deliver" /\ g.ch = d /\ g.msg = m /\ Stage(g) = 0
        BY DEF Frame, Stage, MethodKinds
      <4> HIDE DEF f, g
      <4> QED
        BY <4>2, <4>3 DEF Precedes, Older
    <3> QED
      BY <1>4, <2>3, <3>2, <3>3
  <2> QED
    BY <2>2, <2>3
<1>6. DOMAIN Box' = Channels
  BY DEF Box
<1>7. AbstractHanded' = AbstractHanded /\ SentToConsumers' = SentToConsumers
  BY <1>1, HandedStays DEF SentToConsumers
<1> QED
  BY <1>1, <1>5, <1>6, <1>7 DEF AbstractMailbox!LinkLost

(* A step of the mailbox, or none. *)
MailStep == AbstractMailbox!Next \/ UNCHANGED AbstractMailbox!vars

(* Closing the mailbox is one of its steps.                                   *)
LEMMA ClosingIsStep == AbstractMailbox!Close => MailStep
BY DEF MailStep, AbstractMailbox!Next

(* The call that takes a basic.deliver takes the message out of what is        *)
(* announced, and reads it.                                                    *)
LEMMA TakenToRead ==
    ASSUME IInv, UNCHANGED <<link, handed, msgs>>, NEW c \in Channels, NEW t \in Line(c),
           t.kind = "deliver", \A d : Reading(d) = {},
           \A d \in Channels : Reading(d)' = IF d = c THEN {t.msg} ELSE {},
           \A d \in Channels : Line(d)' = Line(d) \ {t}
    PROVE  UNCHANGED AbstractMailbox!vars
<1>1. t \in Frames /\ Valid(t) /\ t.ch = c /\ WiresOK
  BY IInvParts, LineTyped
<1>2. t.msg \in 1..MaxMessages /\ t.part = 0
  BY <1>1, ValidFacts, MsgTyped DEF MethodKinds
<1>3. t = Frame("deliver", c, t.msg, 0)
  BY <1>1, <1>2 DEF Frame, Frames
<1>4. \A d \in Channels, m \in 1..MaxMessages :
        Frame("deliver", d, m, 0) = t <=> d = c /\ m = t.msg
  BY <1>3 DEF Frame
<1>5. \A d \in Channels, m \in 1..MaxMessages :
        InLine(d, m)' <=> InLine(d, m) /\ ~(d = c /\ m = t.msg)
  BY <1>4 DEF InLine
<1>6. InLine(c, t.msg)
  BY <1>3 DEF InLine
<1>7. \A d \in Channels : Reading(d)' \cup Announced(d)' = Reading(d) \cup Announced(d)
  <2> TAKE d \in Channels
  <2>1. /\ Announced(d) = {m \in 1..MaxMessages : InLine(d, m)}
        /\ Announced(d)' = {m \in 1..MaxMessages : InLine(d, m)'}
    BY AnnouncedIs, AnnouncedIsNext
  <2>2. CASE d = c
    BY <1>2, <1>5, <1>6, <2>1, <2>2
  <2>3. CASE d # c
    BY <1>5, <2>1, <2>3
  <2> QED
    BY <2>2, <2>3
<1>8. Box' = Box
  BY <1>7 DEF Box
<1>9. AbstractHanded' = AbstractHanded /\ SentToConsumers' = SentToConsumers
  BY HandedStays DEF SentToConsumers
<1> QED
  BY <1>8, <1>9 DEF AbstractMailbox!vars

(* Taking a method frame: what it announced is now being read, and no box has *)
(* changed; a failure closes the mailbox.                                     *)
LEMMA ReadMethodIsStep ==
    ASSUME IInv, ReadMethod
    PROVE  MailStep
<1>1. WiresOK /\ StackOK /\ stack # <<>> /\ Top.pc = "method" /\ ~Top.get
  BY IInvParts DEF ReadMethod, At, StackOK, CallsNested
<1>2. \A d : Reading(d) = {}
  BY <1>1 DEF Reading
<1>3. CASE Close(Outer)
  BY <1>1, <1>3, FailureIsClose, ClosingIsStep
<1> DEFINE t == Taken(0)
           s == Released(stack, Channels, queued)
           front == SubSeq(s, 1, Len(s) - 1)
           a == [Top EXCEPT !.pc = "header", !.ch = t.ch, !.msg = t.msg]
<1>4. CASE /\ Available(0) /\ TakeFrame(0)
           /\ stack' = IF t.kind = "deliver" THEN Append(front, a) ELSE s
           /\ UNCHANGED <<connected, link, out, msgs, handed>>
  <2>1. \A d \in Channels : Line(d)' = Line(d) \ {t}
    BY <1>1, <1>4, TakeFrameKeeps
  <2>2. /\ t \in Frames
        /\ \A d \in Channels : d = t.ch => t \in Line(d)
    BY <1>1, <1>4, TakenIsFirst
  <2>3. /\ s \in Seq(Calls) /\ Len(s) = Len(stack) /\ Len(stack) \in Nat \ {0}
        /\ \A i \in DOMAIN stack : s[i] = stack[i] \/ s[i] = [stack[i] EXCEPT !.view = "released"]
        /\ DOMAIN stack = 1..Len(stack) /\ Top \in Calls
    <3>1. stack \in Seq(Calls)
      BY <1>1 DEF StackOK
    <3>2. Top \in Calls /\ Len(stack) \in Nat \ {0} /\ DOMAIN stack = 1..Len(stack)
      BY <1>1, OuterIs
    <3> QED
      BY <3>1, <3>2, ReleasedIs
  <2> HIDE DEF s
  <2>4. s # <<>>
    BY <2>3, EmptySeq
  <2>5. CASE t.kind = "deliver"
    <3>1. front \in Seq(Calls)
      BY <2>3, <2>4, FrontIs
    <3>2. /\ a.pc = "header" /\ a.ch = t.ch /\ a.msg = t.msg /\ ~a.get
      BY <1>1, <2>3 DEF Calls
    <3>3. stack' = Append(front, a)
      BY <1>4, <2>5
    <3>4. PICK c \in Channels : c = t.ch
      BY <2>2 DEF Frames
    <3> HIDE DEF front, a, t
    <3>5. Top' = a /\ stack' # <<>>
      BY <3>1, <3>3, AppendTop
    <3>6. \A d \in Channels : Reading(d)' = IF d = c THEN {t.msg} ELSE {}
      BY <3>2, <3>4, <3>5 DEF Reading
    <3>7. t \in Line(c)
      BY <2>2, <3>4
    <3>8. UNCHANGED <<link, handed, msgs>>
      BY <1>4
    <3> QED
      BY <1>2, <2>1, <2>5, <3>6, <3>7, <3>8, TakenToRead DEF MailStep
  <2>6. CASE t.kind # "deliver"
    <3>1. stack' = s
      BY <1>4, <2>6
    <3>8. Len(stack) \in DOMAIN stack
      BY <2>3
    <3>2. Len(stack) \in DOMAIN stack /\ stack[Len(stack)].pc = "method" /\ stack[Len(stack)] \in Calls
      BY <1>1, <2>3, <3>8 DEF Top
    <3>3. s[Len(stack)].pc = "method"
      BY <2>3, <3>2 DEF Calls
    <3>4. Top'.pc = "method"
      BY <2>3, <3>1, <3>3 DEF Top
    <3>5. \A d : Reading(d)' = {}
      BY <3>4 DEF Reading
    <3> HIDE DEF t
    <3>6. \A c \in Channels, m \in 1..MaxMessages : InLine(c, m)' <=> InLine(c, m)
      BY <2>1, <2>6, TakenSilently
    <3>7. UNCHANGED <<link, handed, msgs>>
      BY <1>4
    <3> QED
      BY <1>2, <3>5, <3>6, <3>7, SameBoxes DEF MailStep
  <2> QED
    BY <2>5, <2>6
<1> QED
  BY <1>3, <1>4 DEF ReadMethod

(* The call that reads a delivery goes on with it. *)
LEMMA GoesOn ==
    ASSUME IInv, stack # <<>>, Top.pc \in {"header", "body"}, NEW a, Become(a), a.pc = "body",
           a.get = Top.get, ~Top.get => a.ch = Top.ch, a.msg = Top.msg
    PROVE  \A d : Reading(d)' = Reading(d)
<1>1. Outer \in Seq(Calls)
  BY IInvParts, OuterIs
<1>2. Top' = a /\ stack' # <<>>
  BY <1>1, AppendTop DEF Become
<1> QED
  BY <1>2 DEF Reading

(* A call that ends without a delivery. *)
LEMMA ReturnReads ==
    ASSUME IInv, stack # <<>>, Return
    PROVE  \A d : Reading(d)' = {}
<1>1. Outer \in Seq(Calls) /\ \A i \in DOMAIN Outer : Outer[i].pc = "callback"
  BY IInvParts, OuterIs
<1> QED
  BY <1>1, NobodyReads DEF Return

(* Taking a header frame: the body is read next; an empty one ends a basic_get, *)
(* or else the connection.                                                    *)
LEMMA ReadHeaderIsStep ==
    ASSUME IInv, ReadHeader
    PROVE  MailStep
<1>1. /\ WiresOK /\ StackOK /\ stack # <<>> /\ Top.pc = "header" /\ Top \in Calls
      /\ Top.ch \in Channels
  BY IInvParts, OuterIs DEF ReadHeader, At, StackOK, CallsNested
<1>2. PICK c \in Channels \cup {0} : c = IF Top.get THEN 0 ELSE Top.ch
  BY <1>1
<1>3. c = Top.ch \/ (c = 0 /\ Top.get)
  BY <1>2
<1>4. PICK t : t = Taken(c)
  OBVIOUS
<1>5. PICK call : call = [Top EXCEPT !.ch = t.ch, !.hdr = t.msg]
  OBVIOUS
<1>6. /\ call.pc = "header" /\ call.get = Top.get /\ call.ch = t.ch /\ call.msg = Top.msg
      /\ call.parts = Top.parts
      /\ [call EXCEPT !.pc = "body"].pc = "body" /\ [call EXCEPT !.pc = "body"].get = Top.get
      /\ [call EXCEPT !.pc = "body"].ch = t.ch /\ [call EXCEPT !.pc = "body"].msg = Top.msg
  BY <1>1, <1>5 DEF Calls
<1>7. \/ Close(Outer)
      \/ Available(c) /\ t.kind \notin MethodKinds /\ t.kind # "header" /\ UnexpectedFrame(c)
      \/ /\ Available(c) /\ t.kind = "header" /\ TakeFrame(c)
         /\ Become([call EXCEPT !.pc = "body"])
         /\ UNCHANGED <<connected, link, out, msgs, handed>>
      \/ Available(c) /\ t.kind = "header" /\ Wanted(call) /\ TakeFrame(c) /\ Finish(call)
  BY <1>2, <1>4, <1>5 DEF ReadHeader
<1>8. CASE Close(Outer)
  BY <1>1, <1>8, FailureIsClose, ClosingIsStep
<1>9. ASSUME Available(c), t.kind \notin MethodKinds, TakeFrame(c), UNCHANGED <<link, out, msgs, handed>>,
             \A d : Reading(d)' = Reading(d)
      PROVE  MailStep
  <2>1. \A d \in Channels : Line(d)' = Line(d) \ {t}
    BY <1>1, <1>4, <1>9, TakeFrameKeeps
  <2>2. t.kind # "deliver"
    BY <1>9 DEF MethodKinds
  <2>3. \A d \in Channels, m \in 1..MaxMessages : InLine(d, m)' <=> InLine(d, m)
    BY <2>1, <2>2, TakenSilently
  <2> QED
    BY <1>9, <2>3, SameBoxes DEF MailStep
<1>10. CASE Available(c) /\ t.kind \notin MethodKinds /\ t.kind # "header" /\ UnexpectedFrame(c)
  <2>1. Top.get
    BY <1>1, <1>3, <1>4, <1>10, UnexpectedKeeps
  <2>2. \A d : Reading(d)' = {} /\ Reading(d) = {}
    BY <1>1, <1>10, <2>1, ReturnReads DEF UnexpectedFrame, Reading
  <2> QED
    BY <1>9, <1>10, <2>2 DEF UnexpectedFrame
<1>11. CASE /\ Available(c) /\ t.kind = "header" /\ TakeFrame(c)
            /\ Become([call EXCEPT !.pc = "body"])
            /\ UNCHANGED <<connected, link, out, msgs, handed>>
  <2>1. ~Top.get => t.ch = Top.ch
    BY <1>1, <1>3, <1>4, <1>11, ContentTaken
  <2>2. \A d : Reading(d)' = Reading(d)
    BY <1>1, <1>6, <1>11, <2>1, GoesOn
  <2> QED
    BY <1>9, <1>11, <2>2 DEF MethodKinds
<1>12. CASE Available(c) /\ t.kind = "header" /\ Wanted(call) /\ TakeFrame(c) /\ Finish(call)
  <2>1. Top.get
    <3>1. ~Top.get => Top.parts = <<>>
      BY <1>1, IInvParts DEF ReadSoFar, InDelivery
    <3> QED
      BY <1>6, <1>12, <3>1 DEF Wanted
  <2>2. Return /\ UNCHANGED <<link, out, msgs, handed>>
    BY <1>6, <1>12, <2>1 DEF Finish
  <2>3. \A d : Reading(d)' = {} /\ Reading(d) = {}
    BY <1>1, <2>1, <2>2, ReturnReads DEF Reading
  <2> QED
    BY <1>9, <1>12, <2>2, <2>3 DEF MethodKinds
<1> QED
  BY <1>7, <1>8, <1>10, <1>11, <1>12

(* A callback is called: the oldest message of the box is handed over, whole,  *)
(* or what there is of it once the link is lost.                               *)
LEMMA HandOverIsHandOver ==
    ASSUME IInv, InDelivery, Top.pc = "body", NEW call \in Calls, HandOver(call),
           call.msg = Top.msg, call.hdr = Top.hdr,
           \A i \in DOMAIN call.parts : call.parts[i] = <<Top.msg, i>>,
           \/ Len(call.parts) = msgs[Top.msg].parts
           \/ Len(call.parts) < msgs[Top.msg].parts /\ link = "down",
           UNCHANGED <<link, msgs>>,
           \A d \in Channels, m \in 1..MaxMessages : InLine(d, m)' <=> InLine(d, m)
    PROVE  AbstractMailbox!HandOver(Top.ch)
<1>1. /\ Top.ch \in Channels /\ stack # <<>> /\ Top.msg \in DOMAIN msgs /\ Top.hdr = Top.msg
      /\ WiresOK /\ StackOK
  BY ExpectedIs, IInvParts DEF ReadSoFar
<1>2. Top.msg \in 1..MaxMessages /\ Top.msg # 0 /\ msgs[Top.msg].parts \in Nat
  BY <1>1, MsgTyped
<1> DEFINE v == IF msgs[call.hdr].parts = 1 THEN "library" ELSE "own"
           a == [Call("callback", call.ch, FALSE, NoTimeout) EXCEPT !.view = v]
<1>3. stack' = Append(Outer, a) /\ handed' = [msg |-> call.msg, hdr |-> call.hdr, parts |-> call.parts]
  BY DEF HandOver, Become
<1>4. a.pc = "callback"
  BY DEF Call
<1> HIDE DEF a
<1>5. Outer \in Seq(Calls)
  BY <1>1, OuterIs
<1>6. Top' = a /\ stack' # <<>>
  BY <1>3, <1>5, AppendTop
<1>7. \A d : Reading(d)' = {}
  BY <1>4, <1>6 DEF Reading
<1>8. \A d : Reading(d) = IF d = Top.ch THEN {Top.msg} ELSE {}
  BY DEF Reading, InDelivery
<1>9. \A d \in Channels : Announced(d)' = Announced(d)
  BY AnnouncedIs, AnnouncedIsNext
<1>10. \A n \in Announced(Top.ch) : Top.msg < n /\ n \in Nat
  BY AnnouncedIs, ReadingIsOldest
<1>11. /\ Top.msg \in Box[Top.ch]
       /\ \A n \in Box[Top.ch] : Top.msg <= n
  BY <1>1, <1>2, <1>8, <1>10 DEF Box
<1>12. Top.msg \notin Announced(Top.ch)
  BY <1>2, <1>10
<1>13. Box' = [Box EXCEPT ![Top.ch] = @ \ {Top.msg}]
  BY <1>1, <1>7, <1>8, <1>9, <1>12 DEF Box
<1>14. Body(handed)' = IF Len(call.parts) = msgs[Top.msg].parts THEN "whole" ELSE "cut"
  <2>1. /\ handed'.msg = Top.msg /\ handed'.hdr = Top.msg /\ handed'.parts = call.parts
        /\ msgs' = msgs
    BY <1>1, <1>3
  <2> QED
    BY <1>2, <2>1 DEF Body
<1>15. AbstractHanded' = AbstractMailbox!Handed(Top.msg, Body(handed)')
  BY <1>3 DEF AbstractHanded, AbstractMailbox!Handed
<1>16. \/ AbstractHanded' = AbstractMailbox!Handed(Top.msg, "whole")
       \/ link # "up" /\ AbstractHanded' = AbstractMailbox!Handed(Top.msg, "cut")
  BY <1>14, <1>15
<1>17. SentToConsumers' = SentToConsumers
  BY DEF SentToConsumers
<1> QED
  BY <1>11, <1>13, <1>16, <1>17 DEF AbstractMailbox!HandOver

(* Taking a part: the last part hands the message over, and a lost link may   *)
(* hand it over cut short.                                                    *)
LEMMA ReadBodyIsStep ==
    ASSUME IInv, ReadBody
    PROVE  MailStep
<1>1. /\ WiresOK /\ StackOK /\ stack # <<>> /\ Top.pc = "body" /\ Top \in Calls
      /\ Top.ch \in Channels
  BY IInvParts, OuterIs DEF ReadBody, At, StackOK, CallsNested
<1>2. PICK t : t = Taken(Top.ch)
  OBVIOUS
<1>3. PICK call : call = [Top EXCEPT !.parts = Append(@, <<t.msg, t.part>>)]
  OBVIOUS
<1>4. \/ Close(Outer)
      \/ /\ EndOfStream(Top.ch) /\ Finish(Top)
         /\ queued' = Inbound /\ inbuf' = <<>> /\ sock' = <<>>
      \/ /\ Available(Top.ch) /\ t.kind \notin MethodKinds /\ t.kind # "body"
         /\ UnexpectedFrame(Top.ch)
      \/ /\ Available(Top.ch) /\ t.kind = "body" /\ Complete(call)
         /\ TakeFrame(Top.ch) /\ Finish(call)
      \/ /\ Available(Top.ch) /\ t.kind = "body"
         /\ TakeFrame(Top.ch) /\ Become(call)
         /\ UNCHANGED <<connected, link, out, msgs, handed>>
  BY <1>2, <1>3 DEF ReadBody
<1>5. ~Top.get => /\ InDelivery /\ Top.hdr = Top.msg /\ Len(Top.parts) < msgs[Top.msg].parts
                  /\ \A i \in DOMAIN Top.parts : Top.parts[i] = <<Top.msg, i>>
  BY <1>1, IInvParts DEF ReadSoFar, InDelivery
<1>6. CASE Close(Outer)
  BY <1>1, <1>6, FailureIsClose, ClosingIsStep
<1>7. ASSUME NEW b \in Calls, Finish(b), b.get = Top.get, b.msg = Top.msg, b.hdr = Top.hdr,
             ~Top.get => /\ \A i \in DOMAIN b.parts : b.parts[i] = <<Top.msg, i>>
                         /\ \/ Len(b.parts) = msgs[Top.msg].parts
                            \/ Len(b.parts) < msgs[Top.msg].parts /\ link = "down",
             \A d \in Channels, m \in 1..MaxMessages : InLine(d, m)' <=> InLine(d, m)
      PROVE  MailStep
  <2>1. UNCHANGED <<link, msgs>> /\ IF Top.get THEN Return /\ UNCHANGED handed ELSE HandOver(b)
    BY <1>7 DEF Finish
  <2>2. CASE Top.get
    <3>1. \A d : Reading(d)' = {} /\ Reading(d) = {}
      BY <1>1, <2>1, <2>2, ReturnReads DEF Reading
    <3> QED
      BY <1>7, <2>1, <2>2, <3>1, SameBoxes DEF MailStep
  <2>3. CASE ~Top.get
    <3>1. AbstractMailbox!HandOver(Top.ch)
      BY <1>1, <1>5, <1>7, <2>1, <2>3, HandOverIsHandOver
    <3> QED
      BY <1>1, <3>1 DEF MailStep, AbstractMailbox!Next
  <2> QED
    BY <2>2, <2>3
<1>8. CASE /\ EndOfStream(Top.ch) /\ Finish(Top)
           /\ queued' = Inbound /\ inbuf' = <<>> /\ sock' = <<>>
  <2>1. UNCHANGED <<link, out, msgs>> /\ link = "down"
    BY <1>8 DEF Finish, EndOfStream
  <2>2. \A d \in Channels : Line(d)' = Line(d)
    BY <1>8, <2>1, AllQueued
  <2>3. \A d \in Channels, m \in 1..MaxMessages : InLine(d, m)' <=> InLine(d, m)
    BY <2>2 DEF InLine
  <2> QED
    BY <1>1, <1>5, <1>7, <1>8, <2>1, <2>3
<1>9. ASSUME Available(Top.ch), t.kind = "body", TakeFrame(Top.ch), UNCHANGED <<link, out, msgs>>
      PROVE  /\ \A d \in Channels : Line(d)' = Line(d) \ {t}
             /\ t \in Frames /\ t.msg \in DOMAIN msgs
             /\ ~Top.get => t = Expected
             /\ call \in Calls /\ call.pc = "body" /\ call.get = Top.get /\ call.ch = Top.ch
             /\ call.hdr = Top.hdr /\ call.msg = Top.msg
             /\ call.parts = Append(Top.parts, <<t.msg, t.part>>)
  <2>1. Taken(Top.ch).kind = "body"
    BY <1>2, <1>9
  <2> QED
    BY <1>1, <1>2, <1>3, <1>9, <2>1, BodyTaken
<1>10. ASSUME t.kind \notin MethodKinds, \A d \in Channels : Line(d)' = Line(d) \ {t}
       PROVE  \A d \in Channels, m \in 1..MaxMessages : InLine(d, m)' <=> InLine(d, m)
  BY <1>10, TakenSilently DEF MethodKinds
<1>11. CASE /\ Available(Top.ch) /\ t.kind \notin MethodKinds /\ t.kind # "body"
            /\ UnexpectedFrame(Top.ch)
  <2>1. Top.get
    BY <1>1, <1>2, <1>11, UnexpectedKeeps
  <2>2. Return /\ UNCHANGED <<link, out, msgs, handed>> /\ TakeFrame(Top.ch)
    BY <1>11 DEF UnexpectedFrame
  <2>3. \A d : Reading(d)' = {} /\ Reading(d) = {}
    BY <1>1, <2>1, <2>2, ReturnReads DEF Reading
  <2>4. \A d \in Channels : Line(d)' = Line(d) \ {t}
    BY <1>1, <1>2, <1>11, <2>2, TakeFrameKeeps
  <2>5. \A d \in Channels, m \in 1..MaxMessages : InLine(d, m)' <=> InLine(d, m)
    BY <1>10, <1>11, <2>4
  <2> QED
    BY <2>2, <2>3, <2>5, SameBoxes DEF MailStep
<1>12. CASE /\ Available(Top.ch) /\ t.kind = "body" /\ Complete(call)
            /\ TakeFrame(Top.ch) /\ Finish(call)
  <2>1. UNCHANGED <<link, out, msgs>>
    BY <1>12 DEF Finish
  <2>2. /\ \A d \in Channels : Line(d)' = Line(d) \ {t}
        /\ ~Top.get => t = Expected
        /\ t.msg \in DOMAIN msgs
        /\ call \in Calls /\ call.get = Top.get /\ call.hdr = Top.hdr /\ call.msg = Top.msg
        /\ call.parts = Append(Top.parts, <<t.msg, t.part>>)
    BY <1>9, <1>12, <2>1
  <2>3. \A d \in Channels, m \in 1..MaxMessages : InLine(d, m)' <=> InLine(d, m)
    BY <1>10, <1>12, <2>2 DEF MethodKinds
  <2>4. ASSUME ~Top.get
        PROVE  /\ \A i \in DOMAIN call.parts : call.parts[i] = <<Top.msg, i>>
               /\ Len(call.parts) = msgs[Top.msg].parts
    <3>1. t.msg = Top.msg /\ t.part = Len(Top.parts) + 1
      BY <1>1, <2>2, <2>4 DEF Expected, Frame
    <3>2. Top.parts \in Seq((1..MaxMessages) \X (Nat \ {0}))
      BY <1>1 DEF Calls, Bodies
    <3>3. <<t.msg, t.part>> \in (1..MaxMessages) \X (Nat \ {0})
      BY <1>1, <2>2, <3>1, <3>2, MsgTyped, LenProperties
    <3>4. /\ DOMAIN call.parts = 1..(Len(Top.parts) + 1)
          /\ DOMAIN Top.parts = 1..Len(Top.parts)
          /\ \A i \in 1..Len(Top.parts) : call.parts[i] = Top.parts[i]
          /\ call.parts[Len(Top.parts) + 1] = <<t.msg, t.part>>
      BY <2>2, <3>2, <3>3, AppendProperties, LenProperties
    <3>5. \A i \in DOMAIN call.parts : call.parts[i] = <<Top.msg, i>>
      <4> DEFINE n == Len(Top.parts)
      <4>1. n \in Nat
        BY <3>2, LenProperties
      <4>2. \A i \in 1..n : call.parts[i] = <<Top.msg, i>>
        BY <1>5, <2>4, <3>4
      <4>3. call.parts[n + 1] = <<Top.msg, n + 1>>
        BY <3>1, <3>4
      <4> HIDE DEF n
      <4>4. \A i \in 1..(n + 1) : i \in 1..n \/ i = n + 1
        BY <4>1
      <4> QED
        BY <3>4, <4>2, <4>3, <4>4 DEF n
    <3>6. Len(call.parts) = msgs[Top.msg].parts
      BY <1>5, <1>12, <2>2, <2>4 DEF Complete
    <3> QED
      BY <3>5, <3>6
  <2> QED
    BY <1>7, <1>12, <2>2, <2>3, <2>4
<1>13. CASE /\ Available(Top.ch) /\ t.kind = "body"
            /\ TakeFrame(Top.ch) /\ Become(call)
            /\ UNCHANGED <<connected, link, out, msgs, handed>>
  <2>1. /\ \A d \in Channels : Line(d)' = Line(d) \ {t}
        /\ call.pc = "body" /\ call.get = Top.get /\ call.ch = Top.ch /\ call.msg = Top.msg
    BY <1>9, <1>13
  <2>2. \A d : Reading(d)' = Reading(d)
    BY <1>1, <1>13, <2>1, GoesOn
  <2>3. \A d \in Channels, m \in 1..MaxMessages : InLine(d, m)' <=> InLine(d, m)
    BY <1>10, <1>13, <2>1 DEF MethodKinds
  <2> QED
    BY <1>13, <2>2, <2>3, SameBoxes DEF MailStep
<1> QED
  BY <1>4, <1>6, <1>8, <1>11, <1>12, <1>13

(* Nobody reads a delivery when a channel has been released. *)
LEMMA NobodyReadsOnRelease ==
    ASSUME StackOK, stack # <<>>, NEW q, stack' = ReleaseOnChannel(Top.ch, q)
    PROVE  \A d : Reading(d)' = {}
<1>1. PICK s : s = Released(Outer, {Top.ch}, q)
  OBVIOUS
<1>2. s \in Seq(Calls) /\ \A k \in DOMAIN s : s[k].pc = "callback"
  BY <1>1, ReleasedOuter
<1>3. stack' = s
  BY <1>1 DEF ReleaseOnChannel
<1> QED
  BY <1>2, <1>3, NobodyReads

(* Taking the answer to a method touches no box.                              *)
LEMMA ReadReplyIsStep ==
    ASSUME IInv, ReadReply
    PROVE  MailStep
<1>1. /\ WiresOK /\ StackOK /\ stack # <<>> /\ Top.pc = "reply" /\ Top \in Calls
      /\ Top.ch \in Channels
  BY IInvParts, OuterIs DEF ReadReply, At, StackOK, CallsNested
<1>2. Outer \in Seq(Calls)
  BY <1>1, OuterIs
<1>3. CASE Close(Outer)
  BY <1>1, <1>3, FailureIsClose, ClosingIsStep
<1>4. ASSUME NEW i \in Reply(Top.ch), queued' = queued \o Before(Unparsed, i), Parse(i),
             \/ ~Top.get /\ stack' = ReleaseOnChannel(Top.ch, queued')
             \/ stack' = IF Top.get /\ Unparsed[i].kind = "getok" /\ inbuf' # <<>>
                         THEN Append(Outer, [Top EXCEPT !.pc = "header", !.msg = Unparsed[i].msg])
                         ELSE Outer,
             UNCHANGED <<connected, link, out, msgs, handed>>
      PROVE  MailStep
  <2>1. PICK c \in Channels : c = Top.ch
    BY <1>1
  <2>2. PICK t : t = Unparsed[i]
    OBVIOUS
  <2>3. OfRpc(t) /\ \A d \in Channels : Line(d)' = Line(d) \ {t}
    BY <1>1, <1>4, <2>1, <2>2, ReplyKeeps
  <2>4. \A d \in Channels, m \in 1..MaxMessages : InLine(d, m)' <=> InLine(d, m)
    BY <2>3, TakenSilently DEF OfRpc
  <2>5. \A d : Reading(d)' = {}
    <3>1. CASE stack' = ReleaseOnChannel(Top.ch, queued')
      BY <1>1, <3>1, NobodyReadsOnRelease
    <3>2. CASE stack' = Append(Outer, [Top EXCEPT !.pc = "header", !.msg = t.msg]) /\ Top.get
      <4>1. PICK a : a = [Top EXCEPT !.pc = "header", !.msg = t.msg]
        OBVIOUS
      <4>2. a.get
        BY <1>1, <3>2, <4>1 DEF Calls
      <4>3. Top' = a
        BY <1>2, <3>2, <4>1, AppendTop
      <4> QED
        BY <4>2, <4>3 DEF Reading
    <3>3. CASE stack' = Outer
      BY <1>1, <3>3, ReturnReads DEF Return
    <3> QED
      BY <1>4, <2>2, <3>1, <3>2, <3>3
  <2>6. \A d : Reading(d) = {}
    BY <1>1 DEF Reading
  <2> QED
    BY <1>4, <2>4, <2>5, <2>6, SameBoxes DEF MailStep
<1> QED
  BY <1>3, <1>4 DEF ReadReply

(* The other actions touch no message. *)
LEMMA OthersAreStutters ==
    ASSUME IInv,
           \/ \E t \in Timeouts : DrainEvents(t)
           \/ PollReady \/ PollTimedOut \/ CallbackReturns
           \/ \E c \in Channels : Arrive(c) \/ BasicPublish(c)
           \/ PublishReturns
    PROVE  MailStep
<1>1. WiresOK /\ StackOK
  BY IInvParts
<1>2. ASSUME UNCHANGED <<link, out, sock, inbuf, queued, msgs, handed>>,
             \A d : Reading(d)' = Reading(d)
      PROVE  MailStep
  <2>1. \A d \in Channels : Line(d)' = Line(d)
    BY <1>2, NoFrameMoves
  <2> QED
    BY <1>2, <2>1, SameBoxes DEF MailStep, InLine
<1>3. ASSUME NEW t \in Timeouts, DrainEvents(t) PROVE MailStep
  <2>1. \A p \in {"poll", "method"} : /\ Call(p, 0, FALSE, t) \in Calls
                                      /\ Call(p, 0, FALSE, t).pc = p
    BY RecvAssumption, EmptySeq DEF Call, Calls, Bodies
  <2>2. \A d : Reading(d) = {} /\ Reading(d)' = {}
    BY <1>3, <2>1, CallerReadsNothing DEF DrainEvents
  <2> QED
    BY <1>2, <1>3, <2>2 DEF DrainEvents, wires
<1>4. CASE PollReady
  <2>1. stack # <<>> /\ Top.pc = "poll" /\ Top \in Calls /\ Outer \in Seq(Calls)
    BY <1>1, <1>4, OuterIs DEF PollReady, At
  <2>2. PICK a : a = [Top EXCEPT !.pc = "method"]
    OBVIOUS
  <2>3. a.pc = "method"
    BY <2>1, <2>2 DEF Calls
  <2>4. Top' = a
    BY <1>4, <2>1, <2>2, AppendTop DEF PollReady, Become
  <2>5. \A d : Reading(d) = {} /\ Reading(d)' = {}
    BY <2>1, <2>3, <2>4 DEF Reading
  <2> QED
    BY <1>2, <1>4, <2>5 DEF PollReady, wires
<1>5. CASE PollTimedOut \/ CallbackReturns
  <2>1. stack # <<>> /\ Top.pc \in {"poll", "callback"} /\ Return
    BY <1>5 DEF PollTimedOut, CallbackReturns, At
  <2>2. \A d : Reading(d) = {} /\ Reading(d)' = {}
    BY <2>1, ReturnReads DEF Reading
  <2> QED
    BY <1>2, <1>5, <2>2 DEF PollTimedOut, CallbackReturns, wires
<1>6. ASSUME NEW c \in Channels, Arrive(c) PROVE MailStep
  <2>1. UNCHANGED <<link, handed, msgs, stack>>
    BY <1>6 DEF Arrive
  <2>2. \A d \in Channels : Line(d)' = Line(d)
    BY <1>1, <1>6, ArriveKeeps DEF Arrive
  <2>3. \A d : Reading(d)' = Reading(d)
    BY <2>1 DEF Reading, Top
  <2> QED
    BY <2>1, <2>2, <2>3, SameBoxes DEF MailStep, InLine
<1>7. ASSUME NEW c \in Channels, BasicPublish(c) PROVE MailStep
  <2>1. /\ Call("publish", c, FALSE, NoTimeout) \in Calls
        /\ Call("publish", c, FALSE, NoTimeout).pc = "publish"
    BY RecvAssumption, EmptySeq DEF Call, Calls, Bodies
  <2>2. \A d : Reading(d) = {} /\ Reading(d)' = {}
    BY <1>7, <2>1, CallerReadsNothing DEF BasicPublish
  <2> QED
    BY <1>2, <1>7, <2>2 DEF BasicPublish, wires
<1>8. CASE PublishReturns
  <2>1. stack # <<>> /\ Top.pc = "publish"
    BY <1>8 DEF PublishReturns, At
  <2>2. CASE Close(Outer)
    BY <2>1, <2>2, FailureIsClose, ClosingIsStep
  <2>3. CASE stack' = ReleaseOnChannel(Top.ch, queued) /\ UNCHANGED <<wires, handed>>
    <3>1. \A d : Reading(d)' = {} /\ Reading(d) = {}
      BY <1>1, <2>1, <2>3, NobodyReadsOnRelease DEF Reading
    <3> QED
      BY <1>2, <2>3, <3>1 DEF wires
  <2> QED
    BY <1>8, <2>2, <2>3 DEF PublishReturns
<1> QED
  BY <1>3, <1>4, <1>5, <1>6, <1>7, <1>8

(* Every step is one of Mailbox, or none of it. *)
LEMMA StepIsMail == IInv /\ [Next]_vars => [AbstractMailbox!Next]_(AbstractMailbox!vars)
<1> SUFFICES ASSUME IInv, [Next]_vars PROVE MailStep
  BY DEF MailStep
<1>1. CASE UNCHANGED vars
  <2>1. UNCHANGED <<connected, link, out, sock, inbuf, queued, msgs, stack, handed>>
    BY <1>1 DEF vars
  <2>2. \A d \in Channels : Line(d)' = Line(d)
    BY <2>1, NoFrameMoves
  <2>3. \A d : Reading(d)' = Reading(d)
    BY <2>1 DEF Reading, Top
  <2> QED
    BY <2>1, <2>2, <2>3, SameBoxes DEF MailStep, InLine
<1>2. ASSUME NEW c \in Channels, Deliver(c) PROVE MailStep
  BY <1>2, DeliverIsSend DEF MailStep, AbstractMailbox!Next
<1>3. ASSUME NEW c \in Channels, BasicReturn(c) PROVE MailStep
  BY <1>3, BasicReturnIsSilent DEF MailStep
<1>4. ASSUME NEW c \in Channels, Rpc(c) \/ BasicGet(c) PROVE MailStep
  BY <1>4, RequestIsSilent DEF MailStep
<1>5. CASE LinkDown
  BY <1>5, LinkDownIsLoss DEF MailStep, AbstractMailbox!Next
<1>6. CASE CloseCall
  <2>1. Close(stack) /\ IInv' /\ \A d \in Channels : Line(d)' = {}
    BY <1>6, CloseCallPreserves DEF CloseCall
  <2> QED
    BY <2>1, CloseIsClose, ClosingIsStep
<1> QED
  BY <1>1, <1>2, <1>3, <1>4, <1>5, <1>6, OthersAreStutters, ReadMethodIsStep, ReadHeaderIsStep,
     ReadBodyIsStep, ReadReplyIsStep DEF Next, BrokerNext, Waits

(* Receiving implements the mailbox: on each channel messages are handed over  *)
(* in the order sent, each at most once, none skipped, none mixed with         *)
(* another, none cut while the link is up; whatever the arrival of frames,     *)
(* RPCs, basic_gets and calls from callbacks do (connection.c,                 *)
(* PyRabbitMQ_recv).                                                           *)
THEOREM MailboxRefinement == Spec => ImplementsMailbox
<1>1. Init => AbstractMailbox!Init
  <2> SUFFICES ASSUME Init PROVE AbstractMailbox!Init
    OBVIOUS
  <2>1. /\ link = "up" /\ out = [c \in Channels |-> <<>>] /\ msgs = <<>> /\ stack = <<>>
        /\ sock = <<>> /\ inbuf = <<>> /\ queued = <<>>
        /\ handed = [msg |-> 0, hdr |-> 0, parts |-> <<>>]
    BY DEF Init
  <2>2. Inbound = <<>>
    BY <2>1, ConcatEmptySeq, EmptySeq DEF Inbound
  <2>3. DOMAIN Inbound = {} /\ (\A c \in Channels : DOMAIN out[c] = {}) /\ DOMAIN msgs = {}
        /\ DOMAIN handed.parts = {} /\ Len(handed.parts) = 0
    BY <2>1, <2>2, EmptySeq
  <2>4. \A c \in Channels : Line(c) = {}
    BY <2>3 DEF Line
  <2>5. \A c \in Channels : Announced(c) = {} /\ Reading(c) = {}
    BY <2>1, <2>4, AnnouncedIs DEF InLine, Reading
  <2>6. Box = [c \in Channels |-> {}]
    BY <2>5 DEF Box
  <2>7. SentToConsumers = {}
    BY <2>3 DEF SentToConsumers
  <2>8. Body(handed) = "whole"
    BY <2>1, <2>3 DEF Body
  <2>9. AbstractHanded = AbstractMailbox!Handed(0, "whole")
    BY <2>1, <2>8 DEF AbstractHanded, AbstractMailbox!Handed
  <2> QED
    BY <2>1, <2>6, <2>7, <2>9 DEF AbstractMailbox!Init
<1>2. ImplementsMailbox <=> AbstractMailbox!Spec
  BY DEF ImplementsMailbox
<1> QED
  BY <1>1, <1>2, StepIsMail, LinesAreKept, PTL DEF Spec, AbstractMailbox!Spec
=============================================================================
