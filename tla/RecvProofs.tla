------------------------------ MODULE RecvProofs ------------------------------
(* Proofs about module Recv: its invariant IInv is inductive, and what follows *)
(* from it for every number of channels, messages and nested calls.            *)
(*                                                                             *)
(* The argument has two halves.  RecvFrames says what each way of moving       *)
(* frames does to the lines: sending adds to the end of one, waiting takes the *)
(* first frame of one, and only the failing link cuts ends off.  Here, with    *)
(* each action one lemma, that is put together with what the calls in          *)
(* progress have read so far.                                                  *)
EXTENDS RecvFrames

-----------------------------------------------------------------------------
(* The parts of IInv that are not about frames. *)
StackOK ==
    /\ connected \in BOOLEAN
    /\ stack \in Seq(Calls) /\ Len(stack) <= MaxDepth
    /\ handed \in Results
    /\ handed.hdr # 0 => handed.hdr \in DOMAIN msgs
    /\ ~connected => /\ link = "down"
                     /\ Inbound = <<>>
                     /\ \A i \in DOMAIN stack : stack[i].view # "library"
    /\ CallsNested

(* IInv by its parts, in a state and in the next. *)
LEMMA IInvParts ==
    IInv <=> /\ WiresOK /\ StackOK /\ Gapless
             /\ RepliesAwaited /\ ReadSoFar /\ LineExpected /\ ContentAnnounced
BY DEF IInv, TypeOK, WiresOK, StackOK, Placed, MsgSet

(* The same parts after a step.                                               *)
LEMMA IInvPartsNext ==
    IInv' <=> /\ WiresOK' /\ StackOK' /\ Gapless'
              /\ RepliesAwaited' /\ ReadSoFar' /\ LineExpected' /\ ContentAnnounced'
BY DEF IInv, TypeOK, WiresOK, StackOK, Placed, MsgSet

-----------------------------------------------------------------------------
(* The calls in progress. *)

(* A sequence of calls without the last. *)
LEMMA FrontIs ==
    ASSUME NEW s \in Seq(Calls), s # <<>>
    PROVE  /\ s[Len(s)] \in Calls /\ SubSeq(s, 1, Len(s) - 1) \in Seq(Calls)
           /\ Len(s) \in Nat \ {0} /\ DOMAIN s = 1..Len(s)
           /\ Len(SubSeq(s, 1, Len(s) - 1)) = Len(s) - 1
           /\ DOMAIN SubSeq(s, 1, Len(s) - 1) = 1..(Len(s) - 1)
           /\ \A i \in 1..(Len(s) - 1) : i \in DOMAIN s /\ SubSeq(s, 1, Len(s) - 1)[i] = s[i]
<1>1. Len(s) \in Nat \ {0} /\ DOMAIN s = 1..Len(s)
  BY EmptySeq, LenProperties
<1> DEFINE n == Len(s) - 1
<1>2. n \in Nat /\ \A i \in 1..n : i \in 1..Len(s)
  BY <1>1
<1>3. \A i \in 1..n : s[i] \in Calls
  BY <1>1, <1>2, ElementOfSeq
<1>4. /\ SubSeq(s, 1, n) \in Seq(Calls)
      /\ Len(SubSeq(s, 1, n)) = n
      /\ \A i \in 1..n : SubSeq(s, 1, n)[i] = s[i]
  <2> HIDE DEF n
  <2>1. /\ SubSeq(s, 1, n) \in Seq(Calls)
        /\ Len(SubSeq(s, 1, n)) = IF 1 <= n THEN n - 1 + 1 ELSE 0
        /\ \A i \in 1..n - 1 + 1 : SubSeq(s, 1, n)[i] = s[1 + i - 1]
    BY <1>2, <1>3, SubSeqProperties
  <2>2. \A i \in 1..n : i \in 1..n - 1 + 1 /\ 1 + i - 1 = i
    BY <1>2
  <2> QED
    BY <1>2, <2>1, <2>2
<1>5. s[Len(s)] \in Calls
  BY <1>1, ElementOfSeq
<1>6. DOMAIN SubSeq(s, 1, n) = 1..n
  BY <1>4, LenProperties
<1> QED
  BY <1>1, <1>2, <1>4, <1>5, <1>6

(* The innermost call and the others. *)
LEMMA OuterIs ==
    ASSUME StackOK, stack # <<>>
    PROVE  /\ Top \in Calls /\ Outer \in Seq(Calls)
           /\ Len(stack) \in Nat \ {0} /\ DOMAIN stack = 1..Len(stack)
           /\ Len(Outer) = Len(stack) - 1 /\ Len(Outer) < MaxDepth
           /\ DOMAIN Outer = 1..(Len(stack) - 1)
           /\ \A i \in DOMAIN Outer : /\ i \in DOMAIN stack /\ Outer[i] = stack[i]
                                      /\ Outer[i].pc = "callback"
<1>1. stack \in Seq(Calls) /\ Len(stack) <= MaxDepth
  BY DEF StackOK
<1>2. /\ Top \in Calls /\ Outer \in Seq(Calls)
      /\ Len(stack) \in Nat \ {0} /\ DOMAIN stack = 1..Len(stack)
      /\ Len(Outer) = Len(stack) - 1
      /\ DOMAIN Outer = 1..(Len(stack) - 1)
      /\ \A i \in 1..(Len(stack) - 1) : i \in DOMAIN stack /\ Outer[i] = stack[i]
  BY <1>1, FrontIs DEF Top, Outer
<1>3. \A i \in 1..(Len(stack) - 1) : stack[i].pc = "callback"
  BY DEF StackOK, CallsNested
<1>4. Len(stack) - 1 < MaxDepth
  BY <1>1, <1>2, RecvAssumption
<1> QED
  BY <1>2, <1>3, <1>4

(* Releasing memory changes nothing but who owns the bodies that were in it. *)
LEMMA ReleasedIs ==
    ASSUME NEW s \in Seq(Calls), NEW cs, NEW q
    PROVE  /\ Released(s, cs, q) \in Seq(Calls)
           /\ Len(Released(s, cs, q)) = Len(s) /\ DOMAIN Released(s, cs, q) = DOMAIN s
           /\ DOMAIN s = 1..Len(s) /\ Len(s) \in Nat
           /\ \A i \in DOMAIN s :
                \/ Released(s, cs, q)[i] = s[i]
                \/ /\ s[i].view = "library" /\ s[i].ch \in cs
                   /\ Released(s, cs, q)[i] = [s[i] EXCEPT !.view = "released"]
<1> DEFINE r == Released(s, cs, q)
<1>1. Len(s) \in Nat /\ DOMAIN s = 1..Len(s) /\ \A i \in 1..Len(s) : s[i] \in Calls
  BY LenProperties, ElementOfSeq
<1>2. \A i \in 1..Len(s) : [s[i] EXCEPT !.view = "released"] \in Calls
  BY <1>1 DEF Calls
<1>3. /\ DOMAIN r = 1..Len(s)
      /\ \A i \in 1..Len(s) :
           r[i] = IF s[i].view = "library" /\ s[i].ch \in cs /\ FirstOn(q, s[i].ch) = 0
                  THEN [s[i] EXCEPT !.view = "released"] ELSE s[i]
  BY <1>1 DEF Released
<1>4. r = [i \in 1..Len(s) |-> r[i]]
  BY <1>1 DEF Released
<1> HIDE DEF r
<1>5. \A i \in 1..Len(s) : r[i] \in Calls
  BY <1>1, <1>2, <1>3
<1>6. r \in Seq(Calls) /\ Len(r) = Len(s)
  BY <1>1, <1>4, <1>5, IsASeq
<1> QED
  BY <1>1, <1>3, <1>6 DEF r

(* The stack with one call on callbacks. *)
LEMMA TopIs ==
    ASSUME NEW s \in Seq(Calls), NEW a \in Calls, Len(s) < MaxDepth, stack' = Append(s, a),
           \A i \in DOMAIN s : s[i].pc = "callback",
           a.pc \in {"reply", "publish", "header", "body"} => a.ch \in Channels,
           a.pc \in {"poll", "method"} => ~a.get /\ a.parts = <<>>,
           connected' = TRUE, handed' \in Results, handed'.hdr # 0 => handed'.hdr \in DOMAIN msgs'
    PROVE  StackOK' /\ stack' # <<>> /\ Top' = a
<1>1. Len(s) \in Nat /\ DOMAIN s = 1..Len(s)
  BY LenProperties
<1> DEFINE t == Append(s, a)
<1>2. /\ t \in Seq(Calls) /\ Len(t) = Len(s) + 1
      /\ \A i \in 1..Len(s) : t[i] = s[i]
      /\ t[Len(s) + 1] = a
  BY AppendProperties
<1>3. stack' = t
  OBVIOUS
<1> HIDE DEF t
<1>4. t # <<>>
  BY <1>1, <1>2, EmptySeq
<1>5. Top' = a
  BY <1>2, <1>3 DEF Top
<1>6. Len(t) <= MaxDepth /\ Len(t) - 1 = Len(s)
  BY <1>1, <1>2, RecvAssumption
<1>7. CallsNested'
  BY <1>1, <1>2, <1>3, <1>5, <1>6 DEF CallsNested
<1> QED
  BY <1>2, <1>3, <1>4, <1>5, <1>6, <1>7 DEF StackOK

(* The stack of callbacks. *)
LEMMA AllCallbacks ==
    ASSUME stack' \in Seq(Calls), Len(stack') <= MaxDepth,
           \A i \in DOMAIN stack' : stack'[i].pc = "callback",
           connected' \in BOOLEAN, handed' \in Results,
           handed'.hdr # 0 => handed'.hdr \in DOMAIN msgs',
           ~connected' => /\ link' = "down" /\ Inbound' = <<>>
                          /\ \A i \in DOMAIN stack' : stack'[i].view # "library"
    PROVE  StackOK' /\ (stack' # <<>> => Top'.pc = "callback")
<1>1. Len(stack') \in Nat /\ DOMAIN stack' = 1..Len(stack')
  BY LenProperties
<1>2. stack' # <<>> => Len(stack') # 0
  BY EmptySeq
<1>3. stack' # <<>> => Top'.pc = "callback"
  BY <1>1, <1>2 DEF Top
<1>4. CallsNested'
  BY <1>1, <1>3 DEF CallsNested
<1> QED
  BY <1>3, <1>4 DEF StackOK

-----------------------------------------------------------------------------
(* States in which no call reads a delivery or waits for a reply. *)
Quiet == ~At("reply") /\ ~InDelivery
NoReplies == \A c \in Channels : \A f \in Line(c) : ~OfRpc(f)
AllAnnounced ==
    \A c \in Channels : \A f \in Line(c) :
        f.kind \in {"header", "body"} /\ msgs[f.msg].kind = "deliver"
        => Frame("deliver", c, f.msg, 0) \in Line(c)

(* No call reads a delivery or waits for an answer, so that no answer is in a *)
(* line and every content there is announced.                                 *)
LEMMA QuietMeans ==
    ASSUME IInv, Quiet
    PROVE  NoReplies /\ AllAnnounced
<1>1. RepliesAwaited /\ ContentAnnounced
  BY DEF IInv
<1>2. \A c : Reading(c) = {}
  BY DEF Quiet, InDelivery, Reading
<1> QED
  BY <1>1, <1>2 DEF Quiet, RepliesAwaited, ContentAnnounced, NoReplies, AllAnnounced

(* A state in which nothing is being read satisfies the invariant if its lines *)
(* are as they should be.                                                     *)
LEMMA QuietHolds ==
    ASSUME WiresOK', StackOK', Gapless', Quiet', NoReplies', AllAnnounced'
    PROVE  IInv'
<1>1. RepliesAwaited'
  BY DEF NoReplies, RepliesAwaited
<1>2. ContentAnnounced'
  BY DEF AllAnnounced, ContentAnnounced
<1>3. ReadSoFar' /\ LineExpected'
  BY DEF Quiet, ReadSoFar, LineExpected
<1> QED
  BY <1>1, <1>2, <1>3, IInvPartsNext

(* Steps that move no frame. *)
LEMMA NoFrameMoves ==
    ASSUME IInv, UNCHANGED <<link, out, sock, inbuf, queued, msgs>>
    PROVE  /\ WiresOK' /\ Gapless'
           /\ \A c \in Channels : Line(c)' = Line(c)
           /\ NoReplies => NoReplies'
           /\ AllAnnounced => AllAnnounced'
<1>1. WiresOK /\ Gapless
  BY IInvParts
<1>2. \A c : Line(c)' = Line(c)
  BY DEF Line, Inbound
<1>3. \A f : (Valid(f)' <=> Valid(f)) /\ (FollowedUp(f)' <=> FollowedUp(f))
  BY DEF Valid, FollowedUp
<1>4. WiresOK'
  BY <1>1, <1>3 DEF WiresOK, Placed, FramesValid, FramesInOrder, Inbound
<1>5. Gapless'
  BY <1>1, <1>2, <1>3 DEF Gapless
<1> QED
  BY <1>2, <1>4, <1>5 DEF NoReplies, AllAnnounced

-----------------------------------------------------------------------------
(* Actions that change the stack only. *)

(* No call, or a callback, is innermost when the program makes a call. *)
LEMMA CallerIsQuiet ==
    ASSUME IInv, CanCall
    PROVE  /\ Quiet /\ connected /\ stack \in Seq(Calls) /\ Len(stack) < MaxDepth
           /\ \A i \in DOMAIN stack : stack[i].pc = "callback"
<1>1. StackOK
  BY IInvParts
<1>2. Quiet
  BY DEF CanCall, Quiet, At, InDelivery
<1>3. ASSUME NEW i \in DOMAIN stack PROVE stack[i].pc = "callback"
  <2>1. Len(stack) \in Nat /\ DOMAIN stack = 1..Len(stack) /\ (stack # <<>> => Len(stack) # 0)
    BY <1>1, LenProperties, EmptySeq DEF StackOK
  <2>2. stack # <<>>
    BY <2>1, EmptySeq
  <2>3. CASE i = Len(stack)
    BY <2>2, <2>3 DEF CanCall, Top
  <2>4. CASE i # Len(stack)
    <3>1. i \in 1..(Len(stack) - 1)
      BY <2>1, <2>4
    <3> QED
      BY <1>1, <3>1 DEF StackOK, CallsNested
  <2> QED
    BY <2>3, <2>4
<1> QED
  BY <1>1, <1>2, <1>3 DEF StackOK, CanCall

(* A call of the program puts one call on top. *)
LEMMA PushIs ==
    ASSUME IInv, CanCall, NEW a \in Calls, Push(a), UNCHANGED <<connected, handed>>,
           a.pc \in {"reply", "publish", "header", "body"} => a.ch \in Channels,
           a.pc \in {"poll", "method"} => ~a.get /\ a.parts = <<>>,
           DOMAIN msgs \subseteq DOMAIN msgs'
    PROVE  StackOK' /\ stack' # <<>> /\ Top' = a
<1>1. /\ Quiet /\ connected /\ stack \in Seq(Calls) /\ Len(stack) < MaxDepth
      /\ \A i \in DOMAIN stack : stack[i].pc = "callback"
  BY CallerIsQuiet
<1>2. StackOK
  BY IInvParts
<1>3. stack' = Append(stack, a)
  BY DEF Push
<1>4. /\ connected' = TRUE /\ handed' \in Results
      /\ handed'.hdr # 0 => handed'.hdr \in DOMAIN msgs'
  BY <1>1, <1>2 DEF StackOK
<1> QED
  BY <1>1, <1>3, <1>4, TopIs

(* A call ends. *)
LEMMA ReturnIs ==
    ASSUME IInv, stack # <<>>, Return, UNCHANGED <<connected, handed>>,
           DOMAIN msgs' = DOMAIN msgs,
           connected \/ UNCHANGED <<link, inbuf, sock, queued>>
    PROVE  StackOK' /\ Quiet'
<1>1. StackOK
  BY IInvParts
<1>2. /\ Outer \in Seq(Calls) /\ Len(Outer) < MaxDepth /\ Len(Outer) \in Nat
      /\ \A i \in DOMAIN Outer : /\ i \in DOMAIN stack /\ Outer[i] = stack[i]
                                 /\ Outer[i].pc = "callback"
  BY <1>1, OuterIs, LenProperties
<1>3. stack' = Outer
  BY DEF Return
<1>4. ~connected => /\ link' = "down" /\ Inbound' = <<>>
                    /\ \A i \in DOMAIN stack' : stack'[i].view # "library"
  BY <1>1, <1>2, <1>3 DEF StackOK, Inbound
<1>5. Len(stack') <= MaxDepth
  BY <1>2, <1>3, RecvAssumption
<1>6. StackOK' /\ (stack' # <<>> => Top'.pc = "callback")
  BY <1>1, <1>2, <1>3, <1>4, <1>5, AllCallbacks DEF StackOK
<1> QED
  BY <1>6 DEF Quiet, At, InDelivery

(* drain_events is called: it polls, or waits for a method frame.             *)
LEMMA DrainEventsPreserves ==
    ASSUME IInv, NEW t \in Timeouts, DrainEvents(t)
    PROVE  IInv'
<1> DEFINE a == Call(IF ShouldPollFor(t) THEN "poll" ELSE "method", 0, FALSE, t)
<1>1. a \in Calls /\ a.pc \in {"poll", "method"} /\ ~a.get /\ a.parts = <<>>
  BY RecvAssumption, EmptySeq DEF Call, Calls, Bodies
<1>2. CanCall /\ Push(a) /\ UNCHANGED <<connected, link, out, sock, inbuf, queued, msgs, handed>>
  BY DEF DrainEvents, wires
<1> HIDE DEF a
<1>3. StackOK' /\ stack' # <<>> /\ Top' = a
  BY <1>1, <1>2, PushIs
<1>4. Quiet'
  BY <1>1, <1>3 DEF Quiet, At, InDelivery
<1>5. NoReplies /\ AllAnnounced
  BY <1>2, CallerIsQuiet, QuietMeans
<1> QED
  BY <1>2, <1>3, <1>4, <1>5, NoFrameMoves, QuietHolds

(* The socket is readable: the call goes on to read a method frame.           *)
LEMMA PollReadyPreserves ==
    ASSUME IInv, PollReady
    PROVE  IInv'
<1> DEFINE a == [Top EXCEPT !.pc = "method"]
<1>1. stack # <<>> /\ Top.pc = "poll"
      /\ UNCHANGED <<connected, link, out, sock, inbuf, queued, msgs, handed>>
  BY DEF PollReady, At, wires
<1>2. StackOK
  BY IInvParts
<1>3. /\ Top \in Calls /\ Outer \in Seq(Calls) /\ Len(Outer) < MaxDepth
      /\ \A i \in DOMAIN Outer : Outer[i].pc = "callback"
  BY <1>1, <1>2, OuterIs
<1>4. a \in Calls /\ a.pc = "method" /\ ~a.get /\ a.parts = <<>> /\ stack' = Append(Outer, a)
  BY <1>1, <1>2, <1>3 DEF Calls, PollReady, Become, StackOK, CallsNested
<1> HIDE DEF a
<1>5. /\ connected' = TRUE /\ handed' \in Results
      /\ handed'.hdr # 0 => handed'.hdr \in DOMAIN msgs'
  BY <1>1, <1>2 DEF StackOK, CallsNested
<1>6. StackOK' /\ stack' # <<>> /\ Top' = a
  BY <1>3, <1>4, <1>5, TopIs
<1>7. Quiet'
  BY <1>4, <1>6 DEF Quiet, At, InDelivery
<1>8. NoReplies /\ AllAnnounced
  BY <1>1, QuietMeans DEF Quiet, At, InDelivery
<1> QED
  BY <1>1, <1>6, <1>7, <1>8, NoFrameMoves, QuietHolds

(* The poll runs out of time, or a callback returns to the call around it.    *)
LEMMA CallsReturnPreserve ==
    ASSUME IInv, PollTimedOut \/ CallbackReturns
    PROVE  IInv'
<1>1. /\ stack # <<>> /\ Top.pc \in {"poll", "callback"} /\ Return
      /\ UNCHANGED <<connected, link, out, sock, inbuf, queued, msgs, handed>>
  BY DEF PollTimedOut, CallbackReturns, At, wires
<1>2. StackOK' /\ Quiet'
  BY <1>1, ReturnIs
<1>3. NoReplies /\ AllAnnounced
  BY <1>1, QuietMeans DEF Quiet, At, InDelivery
<1> QED
  BY <1>1, <1>2, <1>3, NoFrameMoves, QuietHolds

-----------------------------------------------------------------------------
(* Actions of the broker and the network. *)

(* The stack while nobody makes a call. *)
LEMMA StackStays ==
    ASSUME IInv, UNCHANGED <<connected, stack, handed>>, DOMAIN msgs \subseteq DOMAIN msgs',
           ~connected => link' = "down" /\ Inbound' = <<>>
    PROVE  StackOK'
<1>1. StackOK
  BY IInvParts
<1>2. CallsNested'
  BY <1>1 DEF StackOK, CallsNested, Top
<1> QED
  BY <1>1, <1>2 DEF StackOK

(* A frame reaches the socket: it stays in the line of its channel.           *)
LEMMA ArrivePreserves ==
    ASSUME IInv, NEW c \in Channels, Arrive(c)
    PROVE  IInv'
<1>1. /\ WiresOK /\ StackOK /\ Gapless
      /\ RepliesAwaited /\ ReadSoFar /\ LineExpected /\ ContentAnnounced
  BY IInvParts
<1>2. /\ out[c] # <<>> /\ sock' = Append(sock, Head(out[c])) /\ out' = [out EXCEPT ![c] = Tail(@)]
      /\ UNCHANGED <<connected, link, inbuf, queued, msgs, stack, handed>>
  BY DEF Arrive
<1>3. WiresOK' /\ \A d \in Channels : Line(d)' = Line(d)
  BY <1>1, <1>2, ArriveKeeps
<1>4. connected
  BY <1>1, <1>2 DEF WiresOK, StackOK
<1>5. StackOK'
  BY <1>2, <1>4, StackStays
<1>6. \A f : FollowedUp(f)' <=> FollowedUp(f)
  BY <1>2 DEF FollowedUp
<1>7. Gapless'
  BY <1>1, <1>2, <1>3, <1>6 DEF Gapless
<1>8. Top' = Top /\ Expected' = Expected /\ (InDelivery' <=> InDelivery) /\ \A d : Reading(d)' = Reading(d)
  BY <1>2 DEF Top, Expected, InDelivery, Reading
<1>9. RepliesAwaited'
  BY <1>1, <1>2, <1>3, <1>8 DEF RepliesAwaited, At
<1>10. ReadSoFar'
  BY <1>1, <1>2, <1>8 DEF ReadSoFar
<1>11. LineExpected'
  <2>1. InDelivery => Top.ch \in Channels
    BY <1>1 DEF InDelivery, StackOK, CallsNested
  <2> QED
    BY <1>1, <1>2, <1>3, <1>8, <2>1 DEF LineExpected
<1>12. ContentAnnounced'
  BY <1>1, <1>2, <1>3, <1>8 DEF ContentAnnounced
<1> QED
  BY <1>3, <1>5, <1>7, <1>9, <1>10, <1>11, <1>12, IInvPartsNext

(* The frame that a call in a delivery expects next. *)
LEMMA ExpectedIs ==
    ASSUME IInv, InDelivery
    PROVE  /\ Expected \in Frames /\ Expected.ch = Top.ch /\ Expected.msg = Top.msg
           /\ Expected.kind \in {"header", "body"} /\ Stage(Expected) >= 1
           /\ Valid(Expected) /\ Top.ch \in Channels /\ Top.msg \in DOMAIN msgs
           /\ msgs[Top.msg].kind = "deliver" /\ msgs[Top.msg].ch = Top.ch
           /\ connected /\ stack # <<>> /\ Top \in Calls /\ Len(Top.parts) \in Nat
<1>1. WiresOK /\ StackOK /\ ReadSoFar
  BY IInvParts
<1>2. stack # <<>> /\ Top.pc \in {"header", "body"} /\ ~Top.get
  BY DEF InDelivery
<1>3. Top \in Calls /\ Top.ch \in Channels /\ connected
  BY <1>1, <1>2, OuterIs DEF StackOK, CallsNested
<1>4. /\ Top.msg \in DOMAIN msgs /\ msgs[Top.msg].ch = Top.ch /\ msgs[Top.msg].kind = "deliver"
      /\ Top.pc # "header" => Len(Top.parts) < msgs[Top.msg].parts
  BY <1>1 DEF ReadSoFar
<1>5. Top.parts \in Seq((1..MaxMessages) \X (Nat \ {0})) /\ Len(Top.parts) \in Nat
  BY <1>3, LenProperties DEF Calls, Bodies
<1>6. Top.msg \in 0..MaxMessages /\ msgs[Top.msg].parts \in Nat
  BY <1>1, <1>4, MsgTyped, RecvAssumption
<1>7. CASE Top.pc = "header"
  <2>1. Expected = Frame("header", Top.ch, Top.msg, 0)
    BY <1>7 DEF Expected
  <2>2. Expected \in Frames
    BY <1>3, <1>6, <2>1 DEF Frames, Frame
  <2>3. Stage(Expected) = 1
    BY <2>1 DEF Stage, Frame, MethodKinds
  <2>4. Valid(Expected)
    BY <1>4, <2>1 DEF Valid, Frame, MethodKinds
  <2> QED
    BY <1>2, <1>3, <1>4, <1>5, <2>1, <2>2, <2>3, <2>4 DEF Frame
<1>8. CASE Top.pc # "header"
  <2>1. Expected = Frame("body", Top.ch, Top.msg, Len(Top.parts) + 1)
    BY <1>8 DEF Expected
  <2>2. Expected \in Frames
    BY <1>3, <1>5, <1>6, <2>1 DEF Frames, Frame
  <2>3. Stage(Expected) >= 1
    BY <1>5, <2>1 DEF Stage, Frame, MethodKinds
  <2>4. Len(Top.parts) + 1 \in 1..msgs[Top.msg].parts
    BY <1>4, <1>5, <1>6, <1>8
  <2>5. Valid(Expected)
    BY <1>4, <2>1, <2>4 DEF Valid, Frame, MethodKinds
  <2> QED
    BY <1>2, <1>3, <1>4, <1>5, <2>1, <2>2, <2>3, <2>5 DEF Frame
<1> QED
  BY <1>7, <1>8

(* The link is lost: each line is cut, and no frame behind the cut is left.   *)
LEMMA LinkDownPreserves ==
    ASSUME IInv, LinkDown
    PROVE  IInv'
<1>1. /\ WiresOK /\ StackOK /\ Gapless
      /\ RepliesAwaited /\ ReadSoFar /\ LineExpected /\ ContentAnnounced
  BY IInvParts
<1>2. /\ link = "up" /\ link' = "down" /\ out' = [c \in Channels |-> <<>>]
      /\ UNCHANGED <<connected, sock, inbuf, queued, msgs, stack, handed>>
  BY DEF LinkDown
<1>3. /\ WiresOK'
      /\ \A d \in Channels :
                /\ Line(d)' \subseteq Line(d)
                /\ \A f \in Line(d) : f \notin Line(d)' => \A g \in Line(d)' : Precedes(g, f)
  BY <1>1, <1>2, LinkDownKeeps
<1>4. connected
  BY <1>1, <1>2 DEF StackOK
<1>5. StackOK'
  BY <1>2, <1>4, StackStays
<1>6. \A f : FollowedUp(f)' <=> FollowedUp(f)
  BY <1>2 DEF FollowedUp
<1>7. Gapless'
  <2>1. SUFFICES ASSUME NEW c \in Channels, NEW f \in Line(c)', FollowedUp(f),
                        NEW g \in Line(c)', g.kind # "reply", Older(f, g)
                 PROVE  FollowUp(f) \in Line(c)'
    BY <1>2, <1>6 DEF Gapless
  <2>2. f \in Frames /\ g \in Frames /\ Valid(f) /\ f.ch = c /\ g.ch = c
    BY <1>1, <1>3, LineTyped
  <2>3. FollowUp(f) \in Line(c)
    BY <1>1, <1>2, <1>3, <2>1 DEF Gapless
  <2>4. /\ FollowUp(f).ch = c /\ FollowUp(f).kind \notin MethodKinds
        /\ ~Older(g, FollowUp(f))
    BY <2>1, <2>2, FollowUpIsNext
  <2>5. ~Precedes(g, FollowUp(f))
    BY <2>1, <2>2, <2>4 DEF Precedes, MethodKinds
  <2> QED
    BY <1>3, <2>3, <2>5
<1>8. Top' = Top /\ Expected' = Expected /\ (InDelivery' <=> InDelivery) /\ \A d : Reading(d)' = Reading(d)
  BY <1>2 DEF Top, Expected, InDelivery, Reading
<1>9. RepliesAwaited'
  BY <1>1, <1>2, <1>3, <1>8 DEF RepliesAwaited, At
<1>10. ReadSoFar'
  BY <1>1, <1>2, <1>8 DEF ReadSoFar
<1>11. LineExpected'
  <2> SUFFICES ASSUME InDelivery
               PROVE  /\ \A g \in Line(Top.ch)' : g = Expected \/ Older(Expected, g)
                      /\ Line(Top.ch)' # {} => Expected \in Line(Top.ch)'
    BY <1>2, <1>8 DEF LineExpected
  <2>1. /\ Top.ch \in Channels /\ Expected \in Frames /\ Expected.ch = Top.ch
        /\ Expected.kind \in {"header", "body"}
    BY ExpectedIs
  <2>2. PICK c \in Channels : c = Top.ch
    BY <2>1
  <2>3. /\ \A g \in Line(c) : g = Expected \/ Older(Expected, g)
        /\ Expected \in Line(c)
    BY <1>1, <1>2, <2>2 DEF LineExpected
  <2>4. ASSUME NEW g \in Line(c)' PROVE Expected \in Line(c)'
    <3>1. g \in Line(c) /\ g \in Frames /\ g.ch = c
      BY <1>1, <1>3, LineTyped
    <3>2. CASE g = Expected
      BY <3>2
    <3>3. CASE Older(Expected, g)
      <4>1. ~Older(g, Expected) /\ g.kind # "reply"
        <5>1. ~OfRpc(g)
          BY <1>1, <2>2, <3>1 DEF RepliesAwaited, InDelivery, At
        <5> QED
          BY <2>1, <3>1, <3>3, <5>1, OlderOrder DEF OfRpc
      <4>2. ~Precedes(g, Expected)
        BY <2>1, <2>2, <3>1, <4>1 DEF Precedes
      <4> QED
        BY <1>3, <2>3, <4>2
    <3> QED
      BY <2>3, <3>1, <3>2, <3>3
  <2>5. \A g \in Line(c)' : g = Expected \/ Older(Expected, g)
    BY <1>3, <2>3
  <2>6. Line(c)' # {} => Expected \in Line(c)'
    BY <2>4
  <2>7. Line(Top.ch)' = Line(c)'
    BY <1>8, <2>2
  <2> QED
    BY <2>5, <2>6, <2>7
<1>12. ContentAnnounced'
  <2> SUFFICES ASSUME NEW c \in Channels, NEW f \in Line(c)', f.kind \in {"header", "body"},
                      msgs[f.msg].kind = "deliver"
               PROVE  Frame("deliver", c, f.msg, 0) \in Line(c)' \/ f.msg \in Reading(c)
    BY <1>2, <1>8 DEF ContentAnnounced
  <2> DEFINE d == Frame("deliver", c, f.msg, 0)
  <2>1. f \in Line(c) /\ f \in Frames /\ f.ch = c
    BY <1>1, <1>3, LineTyped
  <2>2. d \in Line(c) \/ f.msg \in Reading(c)
    BY <1>1, <2>1 DEF ContentAnnounced
  <2>3. ~Precedes(f, d)
    <3>1. Stage(d) = 0 /\ Stage(f) \in Nat \ {0} /\ f.msg \in Nat
      BY <2>1 DEF Stage, Frame, Frames, MethodKinds
    <3>2. d.kind = "deliver" /\ d.ch = c /\ d.msg = f.msg
      BY DEF Frame
    <3> QED
      BY <2>1, <3>1, <3>2 DEF Precedes, Older
  <2> HIDE DEF d
  <2>4. d \in Line(c) => d \in Line(c)'
    BY <1>3, <2>3
  <2> QED
    BY <2>2, <2>4 DEF d
<1> QED
  BY <1>3, <1>5, <1>7, <1>9, <1>10, <1>11, <1>12, IInvPartsNext

-----------------------------------------------------------------------------
(* Sending a message. *)

(* The history grows by one message. *)
Recorded(c, k, p) == msgs' = Append(msgs, Message(c, k, p))
Queued(c, s) ==
    /\ out' = [out EXCEPT ![c] = @ \o s]
    /\ UNCHANGED <<link, sock, inbuf, queued>>

(* The message that is recorded gets a new number; the others stay as they are. *)
LEMMA MsgsGrow ==
    ASSUME WiresOK, CanSend, NEW c \in Channels, NEW k \in {"deliver", "getok", "return"},
           NEW p \in Sizes \cup {0}, Recorded(c, k, p)
    PROVE  /\ msgs' \in Seq(MsgSet) /\ Len(msgs') <= MaxMessages
           /\ NewMsg \in 1..MaxMessages /\ NewMsg \in Nat /\ NewMsg \notin DOMAIN msgs
           /\ DOMAIN msgs' = DOMAIN msgs \cup {NewMsg}
           /\ msgs'[NewMsg] = Message(c, k, p)
           /\ \A m \in DOMAIN msgs : m \in Nat /\ m < NewMsg /\ msgs'[m] = msgs[m]
<1>1. msgs \in Seq(MsgSet) /\ Len(msgs) \in Nat /\ DOMAIN msgs = 1..Len(msgs)
  BY LenProperties DEF WiresOK
<1>2. Message(c, k, p) \in MsgSet
  BY DEF Message, MsgSet
<1>3. /\ msgs' \in Seq(MsgSet) /\ Len(msgs') = Len(msgs) + 1
      /\ \A m \in 1..Len(msgs) : msgs'[m] = msgs[m]
      /\ msgs'[Len(msgs) + 1] = Message(c, k, p)
  BY <1>1, <1>2, AppendProperties DEF Recorded
<1>4. DOMAIN msgs' = 1..(Len(msgs) + 1)
  BY <1>3, LenProperties
<1>5. Len(msgs) < MaxMessages
  BY DEF CanSend
<1> QED
  BY <1>1, <1>3, <1>4, <1>5, RecvAssumption DEF NewMsg

(* s is made of the frames of the new message, in order, and of all of them. *)
NewFrames(s, c, k) ==
    \A i \in DOMAIN s : /\ s[i].ch = c /\ s[i].msg = NewMsg /\ Stage(s[i]) = i - 1
                        /\ s[i].kind \in {k, "header", "body"}
Whole(s) ==
    \A i \in DOMAIN s : /\ Valid(s[i])
                        /\ FollowedUp(s[i]) => \E j \in DOMAIN s : s[j] = FollowUp(s[i])

(* Its frames go to the end of the line of its channel. *)
LEMMA NewMessage ==
    ASSUME IInv, CanSend, NEW c \in Channels, NEW k \in {"deliver", "getok", "return"},
           NEW p \in Sizes \cup {0}, NEW s \in Seq(Frames),
           NewFrames(s, c, k), Whole(s)',
           k = "getok" => NoReplies,
           Recorded(c, k, p), Queued(c, s)
    PROVE  /\ WiresOK' /\ Gapless'
           /\ Line(c)' = Line(c) \cup {s[i] : i \in DOMAIN s}
           /\ \A d \in Channels : d # c => Line(d)' = Line(d)
<1>1. WiresOK /\ Gapless /\ link = "up"
  BY IInvParts DEF CanSend
<1> USE DEF NewFrames, Whole, Queued
<1>2. /\ msgs' \in Seq(MsgSet) /\ Len(msgs') <= MaxMessages /\ NewMsg \in Nat
      /\ DOMAIN msgs' = DOMAIN msgs \cup {NewMsg}
      /\ \A m \in DOMAIN msgs : m \in Nat /\ m < NewMsg /\ msgs'[m] = msgs[m]
  BY <1>1, MsgsGrow
<1>3. DOMAIN s = 1..Len(s) /\ Len(s) \in Nat /\ \A i \in DOMAIN s : s[i] \in Frames
  BY LenProperties, ElementOfSeq
<1>4. \A i \in DOMAIN s : /\ s[i].kind # "reply"
                          /\ OfRpc(s[i]) => i = 1 /\ k = "getok"
  <2> TAKE i \in DOMAIN s
  <2>1. s[i].kind # "reply"
    OBVIOUS
  <2>2. s[i].kind = "getok" => k = "getok"
    OBVIOUS
  <2>3. s[i].kind = "getok" => Stage(s[i]) = 0
    BY DEF Stage, MethodKinds
  <2> QED
    BY <1>3, <2>1, <2>2, <2>3 DEF OfRpc
<1>5. ASSUME NEW i \in DOMAIN s, NEW j \in DOMAIN s, i < j PROVE Precedes(s[i], s[j])
  <2>1. Older(s[i], s[j])
    BY <1>3, <1>5 DEF Older
  <2>2. ~OfRpc(s[j])
    BY <1>3, <1>4, <1>5
  <2> QED
    BY <2>1, <2>2 DEF Precedes
<1>6. ASSUME NEW f \in Line(c), NEW i \in DOMAIN s PROVE Precedes(f, s[i])
  <2>1. f \in Frames /\ f.ch = c /\ Valid(f)
    BY <1>1, LineTyped
  <2>2. f.kind # "reply" => f.msg \in DOMAIN msgs
    BY <2>1, ValidFacts
  <2>3. f.kind # "reply" => Older(f, s[i])
    BY <1>2, <2>2 DEF Older
  <2>4. ~(OfRpc(f) /\ OfRpc(s[i]))
    BY <1>4 DEF NoReplies
  <2> QED
    BY <2>3, <2>4 DEF Precedes
<1>7. /\ WiresOK'
      /\ Line(c)' = Line(c) \cup {s[i] : i \in DOMAIN s}
      /\ \A d \in Channels : d # c => Line(d)' = Line(d)
  <2>1. \A i \in DOMAIN s : s[i].ch = c /\ Valid(s[i])'
    OBVIOUS
  <2>2. DOMAIN msgs \subseteq DOMAIN msgs' /\ \A m \in DOMAIN msgs : msgs'[m] = msgs[m]
    BY <1>2
  <2> QED
    BY <1>1, <1>2, <1>5, <1>6, <2>1, <2>2, SendKeeps
<1>8. Gapless'
  <2>1. SUFFICES ASSUME NEW d \in Channels, NEW f \in Line(d)', FollowedUp(f)'
                 PROVE  FollowUp(f) \in Line(d)'
    BY DEF Gapless
  <2>2. CASE f \in Line(d)
    <3>1. Valid(f)
      BY <1>1, <2>2, LineTyped
    <3>2. FollowedUp(f)
      BY <1>2, <2>1, <3>1, ValidStays
    <3>3. FollowUp(f) \in Line(d)
      BY <1>1, <2>2, <3>2 DEF Gapless
    <3> QED
      BY <1>7, <3>3
  <2>3. CASE d = c /\ f \in {s[i] : i \in DOMAIN s}
    <3>1. \E j \in DOMAIN s : s[j] = FollowUp(f)
      BY <2>1, <2>3
    <3> QED
      BY <1>7, <2>3, <3>1
  <2> QED
    BY <1>7, <2>1, <2>2, <2>3
<1> QED
  BY <1>7, <1>8

(* The frames of a message with content, from its method to its last part. *)
MessageFrames(k, c, m, n) == <<Frame(k, c, m, 0)>> \o Content(c, m, n)

(* The frames of a message: the method, the header and the parts in order.    *)
LEMMA MessageIs ==
    ASSUME NEW k \in MethodKinds, NEW c \in Channels, NEW m \in 1..MaxMessages, NEW n \in Nat
    PROVE  /\ MessageFrames(k, c, m, n) \in Seq(Frames)
           /\ DOMAIN MessageFrames(k, c, m, n) = 1..(n + 2)
           /\ MessageFrames(k, c, m, n)[1] = Frame(k, c, m, 0)
           /\ MessageFrames(k, c, m, n)[2] = Frame("header", c, m, 0)
           /\ \A i \in 3..(n + 2) : MessageFrames(k, c, m, n)[i] = Frame("body", c, m, i - 2)
<1> DEFINE s == MessageFrames(k, c, m, n)
<1> DEFINE h == Frame("header", c, m, 0)
           f == Frame(k, c, m, 0)
           b == [i \in 1..n |-> Frame("body", c, m, i)]
<1>1. f \in Frames /\ h \in Frames /\ \A i \in 1..n : Frame("body", c, m, i) \in Frames
  BY RecvAssumption DEF Frame, Frames, MethodKinds
<1>2. b \in Seq(Frames) /\ Len(b) = n /\ \A i \in 1..n : b[i] = Frame("body", c, m, i)
  BY <1>1, IsASeq
<1>3. s = <<f>> \o (<<h>> \o b)
  BY DEF MessageFrames, Content
<1> HIDE DEF f, h, b, s
<1>4. /\ <<f>> \in Seq(Frames) /\ Len(<<f>>) = 1 /\ <<f>>[1] = f
      /\ <<h>> \in Seq(Frames) /\ Len(<<h>>) = 1 /\ <<h>>[1] = h
  BY <1>1
<1> DEFINE w == <<h>> \o b
<1>5. /\ w \in Seq(Frames) /\ Len(w) = n + 1 /\ w[1] = h /\ \A i \in 2..(n + 1) : w[i] = b[i - 1]
  <2>1. /\ w \in Seq(Frames) /\ Len(w) = 1 + n
        /\ \A i \in 1..1 + n : w[i] = IF i <= 1 THEN <<h>>[i] ELSE b[i - 1]
    BY <1>2, <1>4, ConcatProperties
  <2> HIDE DEF w
  <2> QED
    BY <1>4, <2>1
<1> HIDE DEF w
<1>6. /\ s \in Seq(Frames) /\ Len(s) = n + 2 /\ s[1] = f /\ \A i \in 2..(n + 2) : s[i] = w[i - 1]
  <2>1. s = <<f>> \o w
    BY <1>3 DEF w
  <2>2. /\ <<f>> \o w \in Seq(Frames) /\ Len(<<f>> \o w) = 1 + (n + 1)
        /\ \A i \in 1..1 + (n + 1) : (<<f>> \o w)[i] = IF i <= 1 THEN <<f>>[i] ELSE w[i - 1]
    BY <1>4, <1>5, ConcatProperties
  <2>3. \A i \in 1..n + 2 : s[i] = IF i <= 1 THEN <<f>>[i] ELSE w[i - 1]
    BY <2>1, <2>2
  <2>4. s \in Seq(Frames) /\ Len(s) = 1 + (n + 1)
    BY <2>1, <2>2
  <2>5. 1 + (n + 1) = n + 2
    OBVIOUS
  <2> QED
    BY <1>4, <2>3, <2>4, <2>5
<1>7. s[2] = h
  BY <1>5, <1>6
<1>8. ASSUME NEW i \in 3..(n + 2) PROVE s[i] = Frame("body", c, m, i - 2)
  <2>1. i \in 2..(n + 2) /\ i - 1 \in 2..(n + 1) /\ i - 1 - 1 = i - 2 /\ i - 2 \in 1..n
    OBVIOUS
  <2> QED
    BY <1>2, <1>5, <1>6, <2>1
<1>9. DOMAIN s = 1..(n + 2)
  BY <1>6, LenProperties
<1> QED
  BY <1>6, <1>7, <1>8, <1>9 DEF f, h, s

(* A message with content is sent. *)
LEMMA ContentIsSent ==
    ASSUME IInv, CanSend, NEW c \in Channels, NEW k \in {"deliver", "getok"}, NEW n \in Sizes,
           k = "getok" => NoReplies, NEW s,
           s = MessageFrames(k, c, NewMsg, n),
           Recorded(c, k, n), Queued(c, s)
    PROVE  /\ WiresOK' /\ Gapless'
           /\ \A d \in Channels : d # c => Line(d)' = Line(d)
           /\ Line(c) \subseteq Line(c)' /\ Frame(k, c, NewMsg, 0) \in Line(c)'
           /\ \A f \in Line(c)' : \/ f \in Line(c)
                                  \/ /\ f.msg = NewMsg
                                     /\ f = Frame(k, c, NewMsg, 0) \/ f.kind \in {"header", "body"}
<1>1. WiresOK
  BY IInvParts
<1>2. n \in Nat /\ n \in Sizes \cup {0}
  BY RecvAssumption
<1>3. /\ NewMsg \in 1..MaxMessages /\ NewMsg \in Nat /\ NewMsg \in DOMAIN msgs'
      /\ msgs'[NewMsg] = Message(c, k, n)
  BY <1>1, <1>2, MsgsGrow
<1>4. PICK m \in 1..MaxMessages : m = NewMsg
  BY <1>3
<1>5. /\ s \in Seq(Frames) /\ DOMAIN s = 1..(n + 2)
      /\ s[1] = Frame(k, c, m, 0) /\ s[2] = Frame("header", c, m, 0)
      /\ \A i \in 3..(n + 2) : s[i] = Frame("body", c, m, i - 2)
  <2>1. s = MessageFrames(k, c, m, n)
    BY <1>4
  <2> QED
    <3>1. k \in MethodKinds
      BY DEF MethodKinds
    <3>2. /\ MessageFrames(k, c, m, n) \in Seq(Frames)
          /\ DOMAIN MessageFrames(k, c, m, n) = 1..(n + 2)
          /\ MessageFrames(k, c, m, n)[1] = Frame(k, c, m, 0)
          /\ MessageFrames(k, c, m, n)[2] = Frame("header", c, m, 0)
          /\ \A i \in 3..(n + 2) : MessageFrames(k, c, m, n)[i] = Frame("body", c, m, i - 2)
      BY <1>2, <3>1, MessageIs
    <3> QED
      BY <2>1, <3>2
<1>6. \A i \in DOMAIN s : i = 1 \/ i = 2 \/ i \in 3..(n + 2)
  BY <1>2, <1>5
<1>7. \A i \in DOMAIN s : /\ s[i].ch = c /\ s[i].msg = m /\ Stage(s[i]) = i - 1
                          /\ s[i].kind \in {k, "header", "body"}
                          /\ s[i] = Frame(k, c, m, 0) \/ s[i].kind \in {"header", "body"}
  <2> TAKE i \in DOMAIN s
  <2>1. CASE i = 1
    BY <1>5, <2>1 DEF Frame, Stage, MethodKinds
  <2>2. CASE i = 2
    BY <1>5, <2>2 DEF Frame, Stage, MethodKinds
  <2>3. CASE i \in 3..(n + 2)
    <3>1. s[i] = Frame("body", c, m, i - 2) /\ i - 2 + 1 = i - 1
      BY <1>2, <1>5, <2>3
    <3> QED
      BY <3>1 DEF Frame, Stage, MethodKinds
  <2> QED
    BY <1>6, <2>1, <2>2, <2>3
<1>8. /\ m \in DOMAIN msgs' /\ msgs'[m].ch = c /\ msgs'[m].kind = k /\ msgs'[m].parts = n
      /\ msgs'[m].kind # "return"
  BY <1>3, <1>4 DEF Message
<1>9. ASSUME NEW i \in DOMAIN s PROVE Valid(s[i])'
  <2>1. CASE i = 1
    <3>1. Valid(Frame(k, c, m, 0))'
      BY <1>8 DEF Valid, Frame, MethodKinds
    <3> QED
      BY <1>5, <2>1, <3>1
  <2>2. CASE i = 2
    <3>1. Valid(Frame("header", c, m, 0))'
      BY <1>8 DEF Valid, Frame, MethodKinds
    <3> QED
      BY <1>5, <2>2, <3>1
  <2>3. CASE i \in 3..(n + 2)
    <3>1. s[i] = Frame("body", c, m, i - 2) /\ i - 2 \in 1..n
      BY <1>2, <1>5, <2>3
    <3>2. Valid(Frame("body", c, m, i - 2))'
      BY <1>8, <3>1 DEF Valid, Frame, MethodKinds
    <3> QED
      BY <3>1, <3>2
  <2> QED
    BY <1>6, <2>1, <2>2, <2>3
<1>10. ASSUME NEW i \in DOMAIN s, FollowedUp(s[i])' PROVE \E j \in DOMAIN s : s[j] = FollowUp(s[i])
  <2>1. CASE i = 1
    <3>1. 2 \in DOMAIN s /\ FollowUp(s[1]) = Frame("header", c, m, 0)
      BY <1>2, <1>5 DEF FollowUp, Frame, MethodKinds
    <3> QED
      BY <1>5, <2>1, <3>1
  <2>2. CASE i = 2
    <3>1. FollowUp(s[i]) = Frame("body", c, m, 1) /\ 0 < n
      BY <1>2, <1>5, <1>8, <1>10, <2>2 DEF FollowUp, FollowedUp, Frame, MethodKinds
    <3>2. 3 \in 3..(n + 2) /\ 3 \in DOMAIN s /\ 3 - 2 = 1
      BY <1>2, <1>5, <3>1
    <3>3. s[3] = Frame("body", c, m, 1)
      BY <1>5, <3>2
    <3> QED
      BY <3>1, <3>2, <3>3
  <2>3. CASE i \in 3..(n + 2)
    <3>1. s[i] = Frame("body", c, m, i - 2)
      BY <1>5, <2>3
    <3>2. FollowUp(s[i]) = Frame("body", c, m, (i - 2) + 1) /\ i - 2 < n
      BY <1>8, <1>10, <3>1 DEF FollowUp, FollowedUp, Frame, MethodKinds
    <3>3. i + 1 \in 3..(n + 2) /\ i + 1 \in DOMAIN s /\ (i - 2) + 1 = i + 1 - 2
      BY <1>2, <1>5, <2>3, <3>2
    <3>4. s[i + 1] = Frame("body", c, m, (i - 2) + 1)
      BY <1>5, <3>3
    <3> QED
      BY <3>2, <3>3, <3>4
  <2> QED
    BY <1>6, <2>1, <2>2, <2>3
<1>11. /\ WiresOK' /\ Gapless'
       /\ Line(c)' = Line(c) \cup {s[i] : i \in DOMAIN s}
       /\ \A d \in Channels : d # c => Line(d)' = Line(d)
  <2>1. k \in {"deliver", "getok", "return"} /\ s \in Seq(Frames) /\ n \in Sizes \cup {0}
    BY <1>2, <1>5
  <2>2. NewFrames(s, c, k)
    BY <1>4, <1>7 DEF NewFrames
  <2>3. Whole(s)'
    BY <1>9, <1>10 DEF Whole
  <2> QED
    BY <2>1, <2>2, <2>3, NewMessage
<1>12. 1 \in DOMAIN s
  BY <1>2, <1>5
<1> QED
  BY <1>4, <1>5, <1>7, <1>11, <1>12

(* The frames of a message after those that wait in out. *)
LEMMA ContentIsQueued ==
    ASSUME WiresOK, NEW c \in Channels, NEW k \in {"deliver", "getok"}, NEW m \in 1..MaxMessages,
           NEW n \in Nat
    PROVE  (out[c] \o <<Frame(k, c, m, 0)>>) \o Content(c, m, n)
           = out[c] \o MessageFrames(k, c, m, n)
<1> DEFINE f == <<Frame(k, c, m, 0)>>
           h == <<Frame("header", c, m, 0)>>
           b == [i \in 1..n |-> Frame("body", c, m, i)]
<1>1. /\ Frame(k, c, m, 0) \in Frames /\ Frame("header", c, m, 0) \in Frames
      /\ \A i \in 1..n : Frame("body", c, m, i) \in Frames
  BY RecvAssumption DEF Frame, Frames, MethodKinds
<1>2. f \in Seq(Frames) /\ h \in Seq(Frames)
  BY <1>1
<1>3. b \in Seq(Frames)
  BY <1>1, IsASeq
<1>4. Content(c, m, n) = h \o b /\ MessageFrames(k, c, m, n) = f \o Content(c, m, n)
  BY DEF Content, MessageFrames
<1> HIDE DEF f, h, b
<1>5. Content(c, m, n) \in Seq(Frames)
  BY <1>2, <1>3, <1>4, ConcatProperties
<1>6. out[c] \in Seq(Frames)
  BY DEF WiresOK
<1>7. (out[c] \o f) \o Content(c, m, n) = out[c] \o (f \o Content(c, m, n))
  <2>1. \A q, u, v \in Seq(Frames) : (q \o u) \o v = q \o (u \o v)
    BY ConcatAssociative
  <2> QED
    BY <1>2, <1>5, <1>6, <2>1
<1> QED
  BY <1>4, <1>7 DEF f

(* A line that grows by frames of a new message, announced or not for consumers, *)
(* changes nothing for the call that reads.                                      *)
LEMMA GrowingKeepsRest ==
    ASSUME IInv, CanSend, NEW c \in Channels, NEW k \in {"deliver", "getok", "return"},
           NEW p \in Sizes \cup {0}, Recorded(c, k, p), WiresOK', Gapless',
           UNCHANGED <<connected, link, sock, inbuf, queued, stack, handed>>,
           \A d \in Channels : Line(d) \subseteq Line(d)',
           \A d \in Channels : \A f \in Line(d)' :
               \/ f \in Line(d)
               \/ /\ d = c /\ f.msg = NewMsg /\ ~OfRpc(f)
                  /\ f.kind \in {"header", "body"} => Frame("deliver", c, NewMsg, 0) \in Line(c)'
    PROVE  IInv'
<1>1. /\ WiresOK /\ StackOK /\ Gapless
      /\ RepliesAwaited /\ ReadSoFar /\ LineExpected /\ ContentAnnounced
  BY IInvParts
<1>2. /\ NewMsg \in Nat /\ DOMAIN msgs' = DOMAIN msgs \cup {NewMsg}
      /\ \A m \in DOMAIN msgs : m \in Nat /\ m < NewMsg /\ msgs'[m] = msgs[m]
  BY <1>1, MsgsGrow
<1>3. connected /\ link = "up"
  BY <1>1 DEF CanSend, StackOK
<1>4. StackOK'
  BY <1>2, <1>3, StackStays
<1>5. Top' = Top /\ Expected' = Expected /\ (InDelivery' <=> InDelivery) /\ \A d : Reading(d)' = Reading(d)
  BY DEF Top, Expected, InDelivery, Reading
<1>6. RepliesAwaited'
  BY <1>1, <1>5 DEF RepliesAwaited, At
<1>7. ReadSoFar'
  <2>1. InDelivery => Top.msg \in DOMAIN msgs' /\ msgs'[Top.msg] = msgs[Top.msg]
    BY <1>1, <1>2 DEF ReadSoFar
  <2> QED
    BY <1>1, <1>5, <2>1 DEF ReadSoFar
<1>8. LineExpected'
  <2> SUFFICES ASSUME InDelivery
               PROVE  /\ \A g \in Line(Top.ch)' : g = Expected \/ Older(Expected, g)
                      /\ Expected \in Line(Top.ch)'
    BY <1>5 DEF LineExpected
  <2>1. /\ Top.ch \in Channels /\ Top.msg \in DOMAIN msgs /\ Expected.msg = Top.msg
    BY ExpectedIs
  <2>2. PICK d \in Channels : d = Top.ch
    BY <2>1
  <2>3. /\ \A g \in Line(d) : g = Expected \/ Older(Expected, g)
        /\ Expected \in Line(d)
    BY <1>1, <1>3, <2>2 DEF LineExpected
  <2>4. ASSUME NEW g \in Line(d)' PROVE g = Expected \/ Older(Expected, g)
    <3>1. CASE g \in Line(d)
      BY <2>3, <3>1
    <3>2. CASE g.msg = NewMsg
      BY <1>2, <2>1, <3>2 DEF Older
    <3> QED
      BY <3>1, <3>2
  <2>5. Line(Top.ch)' = Line(d)'
    BY <1>5, <2>2
  <2> QED
    BY <2>3, <2>4, <2>5
<1>9. ContentAnnounced'
  <2> SUFFICES ASSUME NEW d \in Channels, NEW f \in Line(d)', f.kind \in {"header", "body"},
                      msgs'[f.msg].kind = "deliver"
               PROVE  Frame("deliver", d, f.msg, 0) \in Line(d)' \/ f.msg \in Reading(d)
    BY <1>5 DEF ContentAnnounced
  <2>1. CASE f \in Line(d)
    <3>1. f \in Frames /\ Valid(f) /\ f.kind # "reply"
      BY <1>1, <2>1, LineTyped
    <3>2. f.msg \in DOMAIN msgs
      BY <3>1, ValidFacts
    <3>3. msgs[f.msg].kind = "deliver"
      BY <1>2, <3>2
    <3> QED
      BY <1>1, <2>1, <3>3 DEF ContentAnnounced
  <2>2. CASE d = c /\ f.msg = NewMsg /\ Frame("deliver", c, NewMsg, 0) \in Line(c)'
    BY <2>2
  <2> QED
    BY <2>1, <2>2
<1> QED
  BY <1>4, <1>6, <1>7, <1>8, <1>9, IInvPartsNext

(* The broker sends a delivery: it is put behind everything in its line.      *)
LEMMA DeliverPreserves ==
    ASSUME IInv, NEW c \in Channels, Deliver(c)
    PROVE  IInv'
<1>1. WiresOK /\ CanSend /\ UNCHANGED <<connected, link, sock, inbuf, queued, stack, handed>>
  BY IInvParts DEF Deliver
<1>2. PICK n \in Sizes :
         /\ msgs' = Append(msgs, Message(c, "deliver", n))
         /\ out' = [out EXCEPT ![c] = @ \o <<Frame("deliver", c, NewMsg, 0)>> \o Content(c, NewMsg, n)]
  BY DEF Deliver
<1>3. Recorded(c, "deliver", n) /\ n \in Nat /\ n \in Sizes \cup {0}
  BY <1>2, RecvAssumption DEF Recorded
<1>4. NewMsg \in 1..MaxMessages
  BY <1>1, <1>3, MsgsGrow
<1> DEFINE s == MessageFrames("deliver", c, NewMsg, n)
<1>5. Queued(c, s)
  <2>1. (out[c] \o <<Frame("deliver", c, NewMsg, 0)>>) \o Content(c, NewMsg, n) = out[c] \o s
    BY <1>1, <1>3, <1>4, ContentIsQueued
  <2> HIDE DEF s
  <2>2. out' = [out EXCEPT ![c] = @ \o s]
    BY <1>2, <2>1
  <2> QED
    BY <1>1, <2>2 DEF Queued
<1> DEFINE f == Frame("deliver", c, NewMsg, 0)
<1>6. /\ WiresOK' /\ Gapless'
      /\ \A d \in Channels : d # c => Line(d)' = Line(d)
      /\ Line(c) \subseteq Line(c)' /\ f \in Line(c)'
      /\ \A g \in Line(c)' : \/ g \in Line(c)
                             \/ g.msg = NewMsg /\ (g = f \/ g.kind \in {"header", "body"})
  BY <1>1, <1>3, <1>5, ContentIsSent
<1>7. ~OfRpc(f) /\ f.msg = NewMsg
  BY DEF Frame, OfRpc
<1>8. \A g : g.kind \in {"header", "body"} => ~OfRpc(g)
  BY DEF OfRpc
<1>9. \A d \in Channels : Line(d) \subseteq Line(d)'
  BY <1>6
<1> HIDE DEF f
<1>10. \A d \in Channels : \A g \in Line(d)' :
               \/ g \in Line(d)
               \/ /\ d = c /\ g.msg = NewMsg /\ ~OfRpc(g)
                  /\ g.kind \in {"header", "body"} => f \in Line(c)'
  BY <1>6, <1>7, <1>8
<1> QED
  BY <1>1, <1>3, <1>6, <1>9, <1>10, GrowingKeepsRest DEF f

(* The broker sends basic.return: a method frame whose content stays away.    *)
LEMMA BasicReturnPreserves ==
    ASSUME IInv, NEW c \in Channels, BasicReturn(c)
    PROVE  IInv'
<1>1. WiresOK /\ CanSend /\ UNCHANGED <<connected, link, sock, inbuf, queued, stack, handed>>
  BY IInvParts DEF BasicReturn
<1>2. Recorded(c, "return", 0) /\ 0 \in Sizes \cup {0}
  BY DEF BasicReturn, Recorded
<1>3. /\ NewMsg \in 1..MaxMessages /\ NewMsg \in DOMAIN msgs'
      /\ msgs'[NewMsg] = Message(c, "return", 0)
  BY <1>1, <1>2, MsgsGrow
<1>4. PICK f : f = Frame("return", c, NewMsg, 0)
  OBVIOUS
<1>5. /\ f \in Frames /\ f.ch = c /\ f.msg = NewMsg /\ Stage(f) = 0 /\ f.kind = "return" /\ f.part = 0
      /\ ~OfRpc(f)
  BY <1>3, <1>4, RecvAssumption DEF Frame, Frames, Stage, MethodKinds, OfRpc
<1>6. PICK s : s = <<f>>
  OBVIOUS
<1>7. s \in Seq(Frames) /\ DOMAIN s = {1} /\ s[1] = f
  BY <1>5, <1>6
<1>8. Queued(c, s)
  <2>1. out[c] \in Seq(Frames)
    BY <1>1 DEF WiresOK
  <2>2. Append(out[c], f) = out[c] \o s
    BY <1>5, <1>6, <2>1, AppendIsConcat
  <2>3. out' = [out EXCEPT ![c] = @ \o s]
    BY <1>4, <2>2 DEF BasicReturn
  <2> QED
    BY <1>1, <2>3 DEF Queued
<1>9. NewFrames(s, c, "return")
  BY <1>5, <1>7 DEF NewFrames
<1>10. Whole(s)'
  <2>1. Valid(f)'
    BY <1>3, <1>5 DEF Valid, Message, MethodKinds
  <2>2. ~FollowedUp(f)'
    BY <1>5 DEF FollowedUp, MethodKinds
  <2> QED
    BY <1>7, <2>1, <2>2 DEF Whole
<1>11. /\ WiresOK' /\ Gapless'
       /\ Line(c)' = Line(c) \cup {s[i] : i \in DOMAIN s}
       /\ \A d \in Channels : d # c => Line(d)' = Line(d)
  BY <1>1, <1>2, <1>7, <1>8, <1>9, <1>10, NewMessage
<1>12. \A d \in Channels : Line(d) \subseteq Line(d)'
  BY <1>11
<1>13. \A d \in Channels : \A g \in Line(d)' : g \in Line(d) \/ (d = c /\ g = f)
  BY <1>7, <1>11
<1>14. f.kind \notin {"header", "body"}
  BY <1>5
<1>15. \A d \in Channels : \A g \in Line(d)' :
               \/ g \in Line(d)
               \/ /\ d = c /\ g.msg = NewMsg /\ ~OfRpc(g)
                  /\ g.kind \in {"header", "body"} => Frame("deliver", c, NewMsg, 0) \in Line(c)'
  BY <1>5, <1>13, <1>14
<1> QED
  BY <1>1, <1>2, <1>11, <1>12, <1>15, GrowingKeepsRest

-----------------------------------------------------------------------------
(* RPCs: the request, to which the reply is the only answer. *)
LEMMA RequestKeeps ==
    ASSUME IInv, NEW c \in Channels, CanCall, NEW a \in Calls, a.pc = "reply", a.ch = c, Push(a),
           Sent(c, <<Frame("reply", c, 0, 0)>>),
           UNCHANGED <<connected, link, sock, inbuf, queued, msgs, handed>>
    PROVE  IInv'
<1>1. WiresOK /\ Gapless
  BY IInvParts
<1>2. /\ CanCall /\ Sent(c, <<Frame("reply", c, 0, 0)>>)
      /\ UNCHANGED <<connected, link, sock, inbuf, queued, msgs, handed>>
  OBVIOUS
<1>3. Quiet /\ NoReplies /\ AllAnnounced
  BY <1>2, CallerIsQuiet, QuietMeans
<1>4. a \in Calls /\ a.pc = "reply" /\ a.ch = c /\ Push(a)
  OBVIOUS
<1>5. StackOK' /\ stack' # <<>> /\ Top' = a
  BY <1>2, <1>4, PushIs
<1>6. PICK f : f = Frame("reply", c, 0, 0)
  OBVIOUS
<1>7. f \in Frames /\ f.ch = c /\ f.kind = "reply" /\ f.msg = 0 /\ f.kind \in MethodKinds
  BY <1>6, RecvAssumption DEF Frame, Frames, MethodKinds
<1>8. /\ WiresOK' /\ Gapless'
      /\ \A d \in Channels : Line(d) \subseteq Line(d)'
      /\ \A d \in Channels : \A g \in Line(d)' : g \in Line(d) \/ (d = c /\ g = f)
  <2>1. CASE link = "up"
    <3>1. PICK s : s = <<f>>
      OBVIOUS
    <3>2. s \in Seq(Frames) /\ DOMAIN s = {1} /\ s[1] = f
      BY <1>7, <3>1
    <3>3. out' = [out EXCEPT ![c] = @ \o s]
      BY <1>2, <1>6, <2>1, <3>1 DEF Sent
    <3>4. Valid(f)'
      BY <1>7 DEF Valid
    <3>5. \A i \in DOMAIN s : s[i].ch = c /\ Valid(s[i])'
      BY <1>7, <3>2, <3>4
    <3>6. \A i, j \in DOMAIN s : i < j => Precedes(s[i], s[j])
      BY <3>2
    <3>7. \A g \in Line(c) : \A i \in DOMAIN s : Precedes(g, s[i])
      BY <1>3, <1>7, <3>2 DEF NoReplies, Precedes
    <3>8. msgs' = msgs /\ msgs' \in Seq(MsgSet) /\ Len(msgs') <= MaxMessages
      BY <1>1, <1>2 DEF WiresOK
    <3>9. /\ DOMAIN msgs \subseteq DOMAIN msgs' /\ \A m \in DOMAIN msgs : msgs'[m] = msgs[m]
          /\ UNCHANGED <<link, sock, inbuf, queued>>
      BY <1>2
    <3>10. /\ WiresOK'
           /\ Line(c)' = Line(c) \cup {s[i] : i \in DOMAIN s}
           /\ \A d \in Channels : d # c => Line(d)' = Line(d)
      BY <1>1, <2>1, <3>2, <3>3, <3>5, <3>6, <3>7, <3>8, <3>9, SendKeeps
    <3>11. /\ \A d \in Channels : Line(d) \subseteq Line(d)'
           /\ \A d \in Channels : \A g \in Line(d)' : g \in Line(d) \/ (d = c /\ g = f)
      BY <3>2, <3>10
    <3>12. Gapless'
      <4>1. SUFFICES ASSUME NEW d \in Channels, NEW g \in Line(d)', FollowedUp(g)'
                     PROVE  FollowUp(g) \in Line(d)'
        BY DEF Gapless
      <4>2. g # f
        BY <1>7, <4>1 DEF FollowedUp, MethodKinds
      <4>3. g \in Line(d)
        BY <3>11, <4>2
      <4>4. FollowedUp(g)
        BY <3>8, <4>1 DEF FollowedUp
      <4>5. FollowUp(g) \in Line(d)
        BY <1>1, <2>1, <4>3, <4>4 DEF Gapless
      <4> QED
        BY <3>11, <4>5
    <3> QED
      BY <3>10, <3>11, <3>12
  <2>2. CASE link # "up"
    <3>1. out' = out
      BY <1>1, <1>2, <2>2 DEF Sent, WiresOK
    <3> QED
      BY <1>2, <3>1, NoFrameMoves
  <2> QED
    BY <2>1, <2>2
<1>9. RepliesAwaited'
  <2>1. SUFFICES ASSUME NEW d \in Channels, NEW g \in Line(d)', OfRpc(g)
                 PROVE  At("reply")' /\ Top'.ch = d
    BY DEF RepliesAwaited
  <2>2. d = c
    BY <1>3, <1>8, <2>1 DEF NoReplies
  <2> QED
    BY <1>4, <1>5, <2>2 DEF At
<1>10. ContentAnnounced'
  <2> SUFFICES ASSUME NEW d \in Channels, NEW g \in Line(d)', g.kind \in {"header", "body"},
                      msgs[g.msg].kind = "deliver"
               PROVE  Frame("deliver", d, g.msg, 0) \in Line(d)'
    BY <1>2 DEF ContentAnnounced
  <2>1. g \in Line(d)
    BY <1>7, <1>8
  <2> QED
    BY <1>3, <1>8, <2>1 DEF AllAnnounced
<1>11. ReadSoFar' /\ LineExpected'
  BY <1>4, <1>5 DEF ReadSoFar, LineExpected, InDelivery
<1> QED
  BY <1>5, <1>8, <1>9, <1>10, <1>11, IInvPartsNext

(* A method is called that waits for an answer, the first of its line.        *)
LEMMA RpcPreserves ==
    ASSUME IInv, NEW c \in Channels, Rpc(c)
    PROVE  IInv'
<1> DEFINE a == Call("reply", c, FALSE, NoTimeout)
<1>1. a \in Calls /\ a.pc = "reply" /\ a.ch = c
  BY RecvAssumption, EmptySeq DEF Call, Calls, Bodies
<1>2. /\ CanCall /\ Push(a) /\ Sent(c, <<Frame("reply", c, 0, 0)>>)
      /\ UNCHANGED <<connected, link, sock, inbuf, queued, msgs, handed>>
  BY DEF Rpc
<1> HIDE DEF a
<1> QED
  BY <1>1, <1>2, RequestKeeps

(* To basic_get a message is another answer. *)
LEMMA BasicGetPreserves ==
    ASSUME IInv, NEW c \in Channels, BasicGet(c)
    PROVE  IInv'
<1>1. WiresOK /\ Gapless
  BY IInvParts
<1> DEFINE a == Call("reply", c, TRUE, NoTimeout)
<1>2. /\ CanCall /\ Push(a) /\ UNCHANGED <<connected, link, sock, inbuf, queued, handed>>
  BY DEF BasicGet
<1>3. Quiet /\ NoReplies /\ AllAnnounced
  BY <1>2, CallerIsQuiet, QuietMeans
<1>4. a \in Calls /\ a.pc = "reply" /\ a.ch = c
  BY RecvAssumption, EmptySeq DEF Call, Calls, Bodies
<1> HIDE DEF a
<1>5. CASE Sent(c, <<Frame("reply", c, 0, 0)>>) /\ UNCHANGED msgs
  BY <1>2, <1>4, <1>5, RequestKeeps
<1>6. ASSUME CanSend, NEW n \in Sizes, msgs' = Append(msgs, Message(c, "getok", n)),
             Sent(c, <<Frame("getok", c, NewMsg, 0)>> \o Content(c, NewMsg, n))
      PROVE  IInv'
  <2>1. Recorded(c, "getok", n) /\ n \in Sizes \cup {0}
    BY <1>6 DEF Recorded
  <2>2. /\ DOMAIN msgs \subseteq DOMAIN msgs'
        /\ msgs'[NewMsg] = Message(c, "getok", n)
        /\ \A m \in DOMAIN msgs : msgs'[m] = msgs[m]
    BY <1>1, <1>6, <2>1, MsgsGrow
  <2>3. StackOK' /\ stack' # <<>> /\ Top' = a
    BY <1>2, <1>4, <2>2, PushIs
  <2>4. PICK s : s = MessageFrames("getok", c, NewMsg, n)
    OBVIOUS
  <2>5. Queued(c, s)
    BY <1>2, <1>6, <2>4 DEF Queued, Sent, CanSend, MessageFrames
  <2>6. /\ WiresOK' /\ Gapless'
        /\ \A d \in Channels : d # c => Line(d)' = Line(d)
        /\ Line(c) \subseteq Line(c)'
        /\ \A f \in Line(c)' :
              \/ f \in Line(c)
              \/ /\ f.msg = NewMsg
                 /\ f = Frame("getok", c, NewMsg, 0) \/ f.kind \in {"header", "body"}
    BY <1>3, <1>6, <2>1, <2>4, <2>5, ContentIsSent
  <2>7. RepliesAwaited'
    <3>1. SUFFICES ASSUME NEW d \in Channels, NEW g \in Line(d)', OfRpc(g)
                   PROVE  At("reply")' /\ Top'.ch = d
      BY DEF RepliesAwaited
    <3>2. d = c
      BY <1>3, <2>6, <3>1 DEF NoReplies
    <3> QED
      BY <1>4, <2>3, <3>2 DEF At
  <2>8. ContentAnnounced'
    <3> SUFFICES ASSUME NEW d \in Channels, NEW g \in Line(d)', g.kind \in {"header", "body"},
                        msgs'[g.msg].kind = "deliver"
                 PROVE  Frame("deliver", d, g.msg, 0) \in Line(d)'
      BY DEF ContentAnnounced
    <3>1. g.msg # NewMsg
      BY <2>2 DEF Message
    <3>2. g \in Line(d)
      BY <2>6, <3>1
    <3>3. msgs[g.msg].kind = "deliver"
      <4>1. g.msg \in DOMAIN msgs
        BY <1>1, <3>2, LineTyped, ValidFacts
      <4> QED
        BY <2>2, <4>1
    <3>4. Frame("deliver", d, g.msg, 0) \in Line(d)
      BY <1>3, <3>2, <3>3 DEF AllAnnounced
    <3> QED
      BY <2>6, <3>4
  <2>9. ReadSoFar' /\ LineExpected'
    BY <1>4, <2>3 DEF ReadSoFar, LineExpected, InDelivery
  <2> QED
    BY <2>3, <2>6, <2>7, <2>8, <2>9, IInvPartsNext
<1> QED
  BY <1>5, <1>6 DEF BasicGet

-----------------------------------------------------------------------------
(* Ends of connections and of calls. *)

(* Closing leaves callbacks that own what they were given, and nothing to read. *)
LEMMA ClosePreserves ==
    ASSUME IInv, NEW s \in Seq(Calls), Len(s) <= MaxDepth,
           \A i \in DOMAIN s : s[i].pc = "callback", Close(s)
    PROVE  IInv' /\ \A d \in Channels : Line(d)' = {}
<1>1. WiresOK /\ StackOK
  BY IInvParts
<1>2. WiresOK' /\ Inbound' = <<>> /\ \A d \in Channels : Line(d)' = {}
  BY <1>1, CloseKeeps
<1>3. /\ connected' = FALSE /\ link' = "down" /\ UNCHANGED <<msgs, handed>>
      /\ stack' = [i \in DOMAIN s |->
                    IF s[i].view = "library" THEN [s[i] EXCEPT !.view = "released"] ELSE s[i]]
  BY DEF Close
<1>4. Len(s) \in Nat /\ DOMAIN s = 1..Len(s) /\ \A i \in 1..Len(s) : s[i] \in Calls
  BY LenProperties, ElementOfSeq
<1>5. \A i \in 1..Len(s) : /\ [s[i] EXCEPT !.view = "released"] \in Calls
                           /\ [s[i] EXCEPT !.view = "released"].pc = s[i].pc
                           /\ [s[i] EXCEPT !.view = "released"].view = "released"
  BY <1>4 DEF Calls
<1>6. /\ DOMAIN stack' = 1..Len(s) /\ stack' = [i \in 1..Len(s) |-> stack'[i]]
      /\ \A i \in 1..Len(s) : /\ stack'[i] \in Calls /\ stack'[i].pc = "callback"
                              /\ stack'[i].view # "library"
  BY <1>3, <1>4, <1>5
<1>7. stack' \in Seq(Calls) /\ Len(stack') = Len(s)
  BY <1>4, <1>6, IsASeq
<1>8. StackOK' /\ (stack' # <<>> => Top'.pc = "callback")
  BY <1>1, <1>2, <1>3, <1>6, <1>7, AllCallbacks DEF StackOK
<1>9. Quiet'
  BY <1>8 DEF Quiet, At, InDelivery
<1>10. Gapless' /\ NoReplies' /\ AllAnnounced'
  BY <1>2 DEF Gapless, NoReplies, AllAnnounced
<1> QED
  BY <1>2, <1>8, <1>9, <1>10, QuietHolds

(* The program closes the connection: the lines are empty.                    *)
LEMMA CloseCallPreserves ==
    ASSUME IInv, CloseCall
    PROVE  IInv' /\ \A d \in Channels : Line(d)' = {}
<1>1. CanCall /\ Close(stack)
  BY DEF CloseCall
<1>2. /\ stack \in Seq(Calls) /\ Len(stack) < MaxDepth
      /\ \A i \in DOMAIN stack : stack[i].pc = "callback"
  BY <1>1, CallerIsQuiet
<1>3. Len(stack) <= MaxDepth
  BY <1>2, LenProperties, RecvAssumption
<1> QED
  BY <1>1, <1>2, <1>3, ClosePreserves

(* A call that fails closes the connection under the callbacks around it. *)
LEMMA FailurePreserves ==
    ASSUME IInv, stack # <<>>, Close(Outer)
    PROVE  IInv' /\ \A d \in Channels : Line(d)' = {}
<1>1. StackOK
  BY IInvParts
<1>2. /\ Outer \in Seq(Calls) /\ Len(Outer) < MaxDepth
      /\ \A i \in DOMAIN Outer : Outer[i].pc = "callback"
  BY <1>1, OuterIs
<1>3. Len(Outer) <= MaxDepth
  BY <1>2, LenProperties, RecvAssumption
<1> QED
  BY <1>2, <1>3, ClosePreserves

(* A call goes on. *)
LEMMA BecomeIs ==
    ASSUME IInv, stack # <<>>, Top.pc # "callback", NEW a \in Calls, Become(a),
           a.pc \in {"reply", "publish", "header", "body"} => a.ch \in Channels,
           a.pc \in {"poll", "method"} => ~a.get /\ a.parts = <<>>,
           UNCHANGED connected, handed' \in Results, handed'.hdr # 0 => handed'.hdr \in DOMAIN msgs'
    PROVE  StackOK' /\ stack' # <<>> /\ Top' = a
<1>1. StackOK
  BY IInvParts
<1>2. /\ Outer \in Seq(Calls) /\ Len(Outer) < MaxDepth
      /\ \A i \in DOMAIN Outer : Outer[i].pc = "callback"
  BY <1>1, OuterIs
<1>3. stack' = Append(Outer, a) /\ connected' = TRUE
  BY <1>1 DEF Become, StackOK, CallsNested
<1> QED
  BY <1>2, <1>3, TopIs

-----------------------------------------------------------------------------
(* Taking frames. *)

(* By a call that is not in a delivery, before or after. *)
LEMMA QuietTake ==
    ASSUME IInv, NoReplies, AllAnnounced, WiresOK', StackOK', Quiet', UNCHANGED <<link, msgs>>,
           NEW t \in Frames, t.kind # "deliver", \A d \in Channels : Line(d)' = Line(d) \ {t},
           t.kind \in MethodKinds
           \/ \A d \in Channels : d = t.ch => \A g \in Line(d) : g = t \/ Precedes(t, g)
    PROVE  IInv'
<1>1. WiresOK /\ Gapless
  BY IInvParts
<1>2. Gapless'
  BY <1>1, TakingKeepsGapless
<1>3. NoReplies'
  BY DEF NoReplies
<1>4. AllAnnounced'
  <2> SUFFICES ASSUME NEW d \in Channels, NEW f \in Line(d)', f.kind \in {"header", "body"},
                      msgs[f.msg].kind = "deliver"
               PROVE  Frame("deliver", d, f.msg, 0) \in Line(d)'
    BY DEF AllAnnounced
  <2>1. Frame("deliver", d, f.msg, 0) # t
    BY DEF Frame
  <2>2. Frame("deliver", d, f.msg, 0) \in Line(d)
    BY DEF AllAnnounced
  <2> QED
    BY <2>1, <2>2
<1> QED
  BY <1>2, <1>3, <1>4, QuietHolds

(* A frame is taken after which the call expects the one that follows it up. *)
LEMMA AdvanceKeeps ==
    ASSUME IInv, NoReplies, WiresOK', StackOK', UNCHANGED <<link, msgs>>,
           NEW c \in Channels, NEW t \in Line(c), FollowedUp(t),
           \A d \in Channels : Line(d)' = Line(d) \ {t},
           \A g \in Line(c) : g = t \/ Precedes(t, g),
           \A d \in Channels : \A f \in Line(d) :
              f.kind \in {"header", "body"} /\ msgs[f.msg].kind = "deliver"
              => Frame("deliver", d, f.msg, 0) \in Line(d) \/ (d = c /\ f.msg = t.msg),
           InDelivery', ReadSoFar', Top'.ch = c, Top'.msg = t.msg, Expected' = FollowUp(t)
    PROVE  IInv'
<1>1. WiresOK /\ Gapless
  BY IInvParts
<1>2. t \in Frames /\ t.ch = c /\ Valid(t)
  BY <1>1, LineTyped
<1>3. Gapless'
  BY <1>1, <1>2, TakingKeepsGapless
<1>4. RepliesAwaited'
  BY DEF RepliesAwaited, NoReplies
<1> DEFINE e == FollowUp(t)
<1>5. /\ e.ch = c /\ e.kind \notin MethodKinds /\ Older(t, e) /\ e # t
      /\ \A g \in Frames : Older(t, g) => ~Older(g, e)
  <2>1. e.ch = c /\ e.kind \notin MethodKinds /\ Older(t, e)
    BY <1>2, FollowUpIsNext
  <2>2. \A g \in Frames : Older(t, g) => ~Older(g, e)
    BY <1>2, FollowUpIsNext
  <2>3. ~Older(t, t)
    BY <1>2, OlderOrder
  <2> QED
    BY <2>1, <2>2, <2>3
<1>6. \A g \in Line(c)' : g \in Line(c) /\ g # t /\ Older(t, g) /\ g.kind # "reply"
  <2> TAKE g \in Line(c)'
  <2>1. g \in Line(c) /\ g # t /\ g.ch = c
    BY OneLine
  <2>2. ~OfRpc(g) /\ ~OfRpc(t)
    BY <2>1 DEF NoReplies
  <2>3. Precedes(t, g)
    BY <2>1
  <2> QED
    BY <1>2, <2>1, <2>2, <2>3 DEF Precedes, OfRpc
<1>7. (link = "up" \/ Line(c)' # {}) => e \in Line(c)'
  <2>1. ASSUME link = "up" \/ Line(c)' # {} PROVE e \in Line(c)
    BY <1>1, <1>6, <2>1 DEF Gapless
  <2> QED
    BY <1>5, <2>1
<1>8. ASSUME NEW g \in Line(c)' PROVE g = e \/ Older(e, g)
  <2>1. g \in Frames /\ Valid(g) /\ g.kind # "reply" /\ ~Older(g, e)
    BY <1>1, <1>5, <1>6, LineTyped
  <2>2. e \in Line(c)
    BY <1>7, <1>8
  <2>3. e \in Frames /\ Valid(e) /\ e.kind # "reply"
    BY <1>1, <1>5, <2>2, LineTyped DEF MethodKinds
  <2> QED
    BY <2>1, <2>3, StagesDiffer
<1>9. LineExpected'
  <2>1. Expected' = e /\ Line(Top.ch)' = Line(c)' /\ link' = link
    OBVIOUS
  <2> HIDE DEF e
  <2> QED
    BY <1>7, <1>8, <2>1 DEF LineExpected
<1>10. Reading(c)' = {t.msg}
  BY DEF Reading, InDelivery
<1>11. ContentAnnounced'
  <2> SUFFICES ASSUME NEW d \in Channels, NEW f \in Line(d)', f.kind \in {"header", "body"},
                      msgs[f.msg].kind = "deliver"
               PROVE  Frame("deliver", d, f.msg, 0) \in Line(d)' \/ f.msg \in Reading(d)'
    BY DEF ContentAnnounced
  <2>1. Frame("deliver", d, f.msg, 0).msg = f.msg /\ Frame("deliver", d, f.msg, 0).ch = d
    BY DEF Frame
  <2>2. CASE Frame("deliver", d, f.msg, 0) \in Line(d)
    BY <1>2, <1>10, <2>1, <2>2
  <2>3. CASE d = c /\ f.msg = t.msg
    BY <1>10, <2>3
  <2> QED
    BY <2>2, <2>3
<1> QED
  BY <1>3, <1>4, <1>9, <1>11, IInvPartsNext

-----------------------------------------------------------------------------
(* Actions that take frames. *)

(* Taking a method frame: drain_events goes on to the header of a delivery,   *)
(* passes over anything else, or fails and closes the connection.             *)
LEMMA ReadMethodPreserves ==
    ASSUME IInv, ReadMethod
    PROVE  IInv'
<1>1. WiresOK /\ StackOK
  BY IInvParts
<1>2. stack # <<>> /\ Top.pc = "method" /\ connected /\ ~Top.get /\ Top.parts = <<>>
  BY <1>1 DEF ReadMethod, At, StackOK, CallsNested
<1>3. NoReplies /\ AllAnnounced
  BY <1>2, QuietMeans DEF Quiet, At, InDelivery
<1>4. CASE Close(Outer)
  BY <1>2, <1>4, FailurePreserves
<1> DEFINE t == Taken(0)
           s == Released(stack, Channels, queued)
           front == SubSeq(s, 1, Len(s) - 1)
           a == [Top EXCEPT !.pc = "header", !.ch = t.ch, !.msg = t.msg]
<1>5. CASE /\ Available(0) /\ t.kind \notin MethodKinds \ {"deliver"} /\ TakeFrame(0)
           /\ stack' = IF t.kind = "deliver" THEN Append(front, a) ELSE s
           /\ UNCHANGED <<connected, link, out, msgs, handed>>
  <2>1. /\ t \in Frames /\ Valid(t)
        /\ \A d \in Channels : d = t.ch =>
                /\ t \in Line(d)
                /\ \A g \in Line(d) : g = t \/ Precedes(t, g)
    BY <1>1, <1>5, TakenIsFirst
  <2>2. WiresOK' /\ \A d \in Channels : Line(d)' = Line(d) \ {t}
    BY <1>1, <1>5, TakeFrameKeeps
  <2>3. PICK c \in Channels : c = t.ch
    BY <2>1 DEF Frames
  <2>4. /\ s \in Seq(Calls) /\ Len(s) = Len(stack) /\ DOMAIN s = DOMAIN stack
        /\ DOMAIN stack = 1..Len(stack) /\ Len(stack) \in Nat \ {0} /\ Len(stack) <= MaxDepth
        /\ \A i \in DOMAIN stack : \/ s[i] = stack[i]
                                   \/ s[i] = [stack[i] EXCEPT !.view = "released"]
        /\ \A i \in DOMAIN stack : stack[i] \in Calls
    <3>1. stack \in Seq(Calls)
      BY <1>1 DEF StackOK
    <3>2. Len(stack) \in Nat \ {0} /\ DOMAIN stack = 1..Len(stack) /\ Len(stack) <= MaxDepth
      BY <1>1, <1>2, OuterIs DEF StackOK
    <3> QED
      BY <3>1, <3>2, ReleasedIs, ElementOfSeq
  <2>5. \A i \in DOMAIN stack : s[i].pc = stack[i].pc /\ s[i].get = stack[i].get
                                /\ s[i].parts = stack[i].parts /\ s[i].ch = stack[i].ch
    BY <2>4 DEF Calls
  <2>6. \A i \in 1..(Len(stack) - 1) : s[i].pc = "callback"
    <3>1. \A i \in 1..(Len(stack) - 1) : i \in DOMAIN stack /\ stack[i].pc = "callback"
      BY <1>1, <2>4 DEF StackOK, CallsNested
    <3> QED
      BY <2>5, <3>1
  <2> HIDE DEF s
  <2>7. CASE t.kind = "deliver"
    <3>1. s # <<>>
      BY <2>4, EmptySeq
    <3>2. /\ front \in Seq(Calls) /\ Len(front) = Len(stack) - 1
          /\ DOMAIN front = 1..(Len(stack) - 1)
          /\ \A i \in 1..(Len(stack) - 1) : front[i] = s[i]
      BY <2>4, <3>1, FrontIs
    <3> HIDE DEF front
    <3>3. Top \in Calls
      BY <1>1, <1>2, OuterIs
    <3>4. /\ t.kind # "reply" /\ t.msg \in DOMAIN msgs /\ msgs[t.msg].ch = t.ch
          /\ msgs[t.msg].kind = "deliver" /\ t.kind \in MethodKinds
      BY <2>1, <2>7, ValidFacts DEF MethodKinds
    <3>5. /\ a \in Calls /\ a.pc = "header" /\ a.ch = c /\ ~a.get /\ a.msg = t.msg
          /\ a.parts = <<>>
      BY <1>2, <2>1, <2>3, <3>3 DEF Calls, Frames
    <3>6. stack' = Append(front, a)
      BY <1>5, <2>7
    <3> HIDE DEF a
    <3>7. StackOK' /\ stack' # <<>> /\ Top' = a
      <4>1. Len(front) < MaxDepth
        BY <2>4, <3>2, RecvAssumption
      <4>2. \A i \in DOMAIN front : front[i].pc = "callback"
        BY <2>6, <3>2
      <4>3. /\ connected' = TRUE /\ handed' \in Results
            /\ handed'.hdr # 0 => handed'.hdr \in DOMAIN msgs'
        BY <1>1, <1>2, <1>5 DEF StackOK
      <4> QED
        BY <3>2, <3>5, <3>6, <4>1, <4>2, <4>3, TopIs
    <3>8. FollowedUp(t)
      BY <2>7, <3>4 DEF FollowedUp
    <3>9. Expected' = FollowUp(t)
      BY <2>3, <3>4, <3>5, <3>7 DEF Expected, FollowUp
    <3>10. InDelivery' /\ ReadSoFar'
      BY <1>5, <2>3, <3>4, <3>5, <3>7 DEF InDelivery, ReadSoFar
    <3>11. t \in Line(c) /\ \A g \in Line(c) : g = t \/ Precedes(t, g)
      BY <2>1, <2>3
    <3>12. \A d \in Channels : \A f \in Line(d) :
              f.kind \in {"header", "body"} /\ msgs[f.msg].kind = "deliver"
              => Frame("deliver", d, f.msg, 0) \in Line(d) \/ (d = c /\ f.msg = t.msg)
      BY <1>3 DEF AllAnnounced
    <3>13. Top'.ch = c /\ Top'.msg = t.msg /\ UNCHANGED <<link, msgs>>
      BY <1>5, <3>5, <3>7
    <3> HIDE DEF t
    <3> QED
      BY <1>3, <2>2, <3>7, <3>8, <3>9, <3>10, <3>11, <3>12, <3>13, AdvanceKeeps
  <2>8. CASE t.kind # "deliver"
    <3>1. stack' = s
      BY <1>5, <2>8
    <3>2. s # <<>>
      BY <2>4, EmptySeq
    <3>3. Top' = s[Len(stack)] /\ Top = stack[Len(stack)]
      BY <2>4, <3>1 DEF Top
    <3>4. Len(stack) \in DOMAIN stack
      BY <2>4
    <3>5. Top'.pc = "method" /\ ~Top'.get /\ Top'.parts = <<>>
      BY <1>2, <2>5, <3>3, <3>4
    <3>6. CallsNested'
      BY <1>2, <1>5, <2>4, <2>6, <3>1, <3>5 DEF CallsNested
    <3>7. StackOK'
      BY <1>1, <1>2, <1>5, <2>4, <3>1, <3>6 DEF StackOK
    <3>8. Quiet'
      BY <3>5 DEF Quiet, At, InDelivery
    <3> HIDE DEF t
    <3>9. \A d \in Channels : d = t.ch => \A g \in Line(d) : g = t \/ Precedes(t, g)
      BY <2>1
    <3>10. UNCHANGED <<link, msgs>>
      BY <1>5
    <3> QED
      BY <1>3, <2>1, <2>2, <2>8, <3>7, <3>8, <3>9, <3>10, QuietTake
  <2> QED
    BY <2>7, <2>8
<1> QED
  BY <1>4, <1>5 DEF ReadMethod

(* A call in a delivery takes the frame that it expects. *)
LEMMA TakenIsExpected ==
    ASSUME IInv, InDelivery, Available(Top.ch)
    PROVE  Taken(Top.ch) = Expected
<1>1. WiresOK /\ StackOK /\ RepliesAwaited /\ LineExpected
  BY IInvParts
<1>2. Top.ch \in Channels /\ Expected \in Frames /\ Expected.ch = Top.ch
      /\ Expected.kind \in {"header", "body"}
  BY ExpectedIs
<1> DEFINE t == Taken(Top.ch)
<1>3. PICK c \in Channels : c = Top.ch
  BY <1>2
<1>4. /\ t \in Frames /\ t.ch = c /\ t \in Line(c)
      /\ \A g \in Line(c) : g = t \/ Precedes(t, g)
  <2>1. c # 0 /\ c \in Channels \cup {0} /\ Available(c)
    BY <1>3, RecvAssumption
  <2> QED
    BY <1>1, <1>3, <2>1, TakenIsFirst
<1>5. ~OfRpc(t)
  BY <1>1, <1>4 DEF RepliesAwaited, InDelivery, At
<1>6. t = Expected \/ Older(Expected, t)
  BY <1>1, <1>3, <1>4 DEF LineExpected
<1>7. Expected \in Line(c)
  BY <1>1, <1>3, <1>4 DEF LineExpected
<1> HIDE DEF t
<1>8. t = Expected \/ Precedes(t, Expected)
  BY <1>4, <1>7
<1>9. Older(Expected, t) => ~Older(t, Expected)
  BY <1>2, <1>4, OlderOrder
<1>10. t.kind # "reply" /\ Expected.kind # "reply"
  BY <1>2, <1>5 DEF OfRpc
<1>11. t = Expected
  BY <1>2, <1>3, <1>4, <1>6, <1>8, <1>9, <1>10 DEF Precedes
<1> QED
  BY <1>11 DEF t

(* What a call that waits for content takes, and from where. *)
LEMMA ContentTaken ==
    ASSUME IInv, stack # <<>>, Top.pc \in {"header", "body"}, NEW c \in Channels \cup {0},
           c = Top.ch \/ (c = 0 /\ Top.get), Available(c)
    PROVE  /\ NoReplies
           /\ Taken(c) \in Frames /\ Valid(Taken(c)) /\ Taken(c).ch \in Channels
           /\ \A d \in Channels : d = Taken(c).ch =>
                /\ Taken(c) \in Line(d)
                /\ \A g \in Line(d) : g = Taken(c) \/ Precedes(Taken(c), g)
           /\ ~Top.get => Taken(c) = Expected /\ Taken(c).ch = Top.ch
           /\ Top.get => AllAnnounced
<1>1. WiresOK /\ RepliesAwaited
  BY IInvParts
<1>2. NoReplies
  BY <1>1 DEF RepliesAwaited, NoReplies, At
<1>3. /\ Taken(c) \in Frames /\ Valid(Taken(c))
      /\ \A d \in Channels : d = Taken(c).ch =>
                /\ Taken(c) \in Line(d)
                /\ \A g \in Line(d) : g = Taken(c) \/ Precedes(Taken(c), g)
  BY <1>1, TakenIsFirst
<1>4. Taken(c).ch \in Channels
  BY <1>3 DEF Frames
<1>5. ASSUME ~Top.get PROVE Taken(c) = Expected /\ Taken(c).ch = Top.ch
  <2>1. InDelivery /\ c = Top.ch
    BY <1>5 DEF InDelivery
  <2> QED
    BY <2>1, TakenIsExpected, ExpectedIs
<1>6. Top.get => AllAnnounced
  BY QuietMeans DEF Quiet, At, InDelivery
<1> QED
  BY <1>2, <1>3, <1>4, <1>5, <1>6

(* A frame that is not what recv expects is taken and the call ends.  Only    *)
(* basic_get can meet one.                                                    *)
LEMMA UnexpectedKeeps ==
    ASSUME IInv, stack # <<>>, Top.pc \in {"header", "body"}, NEW c \in Channels \cup {0},
           c = Top.ch \/ (c = 0 /\ Top.get), Available(c), Taken(c).kind \notin MethodKinds,
           Taken(c).kind # Top.pc, UnexpectedFrame(c)
    PROVE  IInv' /\ Top.get
<1>1. WiresOK /\ StackOK
  BY IInvParts
<1>2. /\ NoReplies /\ Taken(c) \in Frames
      /\ \A d \in Channels : d = Taken(c).ch =>
                \A g \in Line(d) : g = Taken(c) \/ Precedes(Taken(c), g)
      /\ ~Top.get => Taken(c) = Expected
      /\ Top.get => AllAnnounced
  BY ContentTaken
<1>3. Top.get
  <2>1. Expected.kind = Top.pc
    BY DEF Expected, Frame
  <2> QED
    BY <1>2, <2>1
<1>4. TakeFrame(c) /\ Return /\ UNCHANGED <<connected, link, out, msgs, handed>>
  BY DEF UnexpectedFrame
<1>5. WiresOK' /\ \A d \in Channels : Line(d)' = Line(d) \ {Taken(c)}
  BY <1>1, <1>4, TakeFrameKeeps
<1>6. connected
  BY <1>1 DEF StackOK, CallsNested
<1>7. StackOK' /\ Quiet'
  BY <1>4, <1>6, ReturnIs
<1>8. Taken(c).kind # "deliver"
  BY DEF MethodKinds
<1> DEFINE t == Taken(c)
<1>9. /\ t \in Frames /\ t.kind # "deliver" /\ \A d \in Channels : Line(d)' = Line(d) \ {t}
      /\ \A d \in Channels : d = t.ch => \A g \in Line(d) : g = t \/ Precedes(t, g)
  BY <1>2, <1>5, <1>8
<1> HIDE DEF t
<1>10. UNCHANGED <<link, msgs>>
  BY <1>4
<1> QED
  BY <1>2, <1>3, <1>5, <1>7, <1>9, <1>10, QuietTake

(* Taking the frame after basic.deliver or basic.get-ok: the header it has to be, *)
(* or a frame that ends the call.                                             *)
LEMMA ReadHeaderPreserves ==
    ASSUME IInv, ReadHeader
    PROVE  IInv'
<1>1. WiresOK /\ StackOK
  BY IInvParts
<1>2. stack # <<>> /\ Top.pc = "header" /\ connected /\ Top.ch \in Channels /\ Top \in Calls
  BY <1>1, OuterIs DEF ReadHeader, At, StackOK, CallsNested
<1>3. PICK c \in Channels \cup {0} : c = IF Top.get THEN 0 ELSE Top.ch
  BY <1>2
<1>4. c = Top.ch \/ (c = 0 /\ Top.get)
  BY <1>3
<1> DEFINE t == Taken(c)
           call == [Top EXCEPT !.ch = t.ch, !.hdr = t.msg]
<1>5. \/ Close(Outer)
      \/ /\ Available(c) /\ t.kind \notin MethodKinds /\ t.kind # "header"
         /\ UnexpectedFrame(c)
      \/ /\ Available(c) /\ t.kind \notin MethodKinds /\ t.kind = "header" /\ ~Complete(call)
         /\ TakeFrame(c) /\ Become([call EXCEPT !.pc = "body"])
         /\ UNCHANGED <<connected, link, out, msgs, handed>>
      \/ /\ Available(c) /\ t.kind \notin MethodKinds /\ t.kind = "header" /\ Complete(call)
         /\ Wanted(call) /\ TakeFrame(c) /\ Finish(call)
  BY <1>3 DEF ReadHeader
<1>6. CASE Close(Outer)
  BY <1>2, <1>6, FailurePreserves
<1>7. CASE /\ Available(c) /\ t.kind \notin MethodKinds /\ t.kind # "header"
           /\ UnexpectedFrame(c)
  BY <1>2, <1>4, <1>7, UnexpectedKeeps
<1>8. ASSUME Available(c), t.kind \notin MethodKinds, t.kind = "header", TakeFrame(c),
             UNCHANGED <<out, msgs, link>>
      PROVE  /\ NoReplies /\ WiresOK' /\ (Top.get => AllAnnounced)
             /\ t \in Frames /\ t.ch \in Channels /\ Valid(t) /\ t.kind # "deliver"
             /\ \A d \in Channels : Line(d)' = Line(d) \ {t}
             /\ \A d \in Channels : d = t.ch => /\ t \in Line(d)
                                                /\ \A g \in Line(d) : g = t \/ Precedes(t, g)
             /\ ~Top.get => t = Expected /\ t.ch = Top.ch
             /\ t.msg \in DOMAIN msgs /\ t.msg \in Nat \ {0} /\ t.part = 0
             /\ call \in Calls /\ call.ch = t.ch /\ call.hdr = t.msg /\ call.msg = Top.msg
             /\ call.parts = Top.parts /\ call.get = Top.get /\ call.pc = "header"
  <2>1. WiresOK' /\ \A d \in Channels : Line(d)' = Line(d) \ {t}
    BY <1>1, <1>8, TakeFrameKeeps
  <2>2. /\ NoReplies
        /\ t \in Frames /\ Valid(t) /\ t.ch \in Channels
        /\ \A d \in Channels : d = t.ch => /\ t \in Line(d)
                                           /\ \A g \in Line(d) : g = t \/ Precedes(t, g)
        /\ ~Top.get => t = Expected /\ t.ch = Top.ch
        /\ Top.get => AllAnnounced
    BY <1>2, <1>4, <1>8, ContentTaken
  <2> HIDE DEF t
  <2>3. t.msg \in DOMAIN msgs /\ t.part = 0
    BY <1>8, <2>2, ValidFacts
  <2>4. t.msg \in 1..MaxMessages
    BY <1>1, <2>3, MsgTyped
  <2>5. /\ call \in Calls /\ call.ch = t.ch /\ call.hdr = t.msg /\ call.msg = Top.msg
        /\ call.parts = Top.parts /\ call.get = Top.get /\ call.pc = "header"
    <3>1. t.msg \in 0..MaxMessages /\ t.ch \in Channels \cup {0}
      BY <2>2, <2>4, RecvAssumption
    <3> QED
      BY <1>2, <3>1 DEF Calls
  <2>6. t.kind # "deliver" /\ t.msg \in Nat \ {0}
    BY <1>8, <2>4
  <2> HIDE DEF call
  <2> QED
    BY <2>1, <2>2, <2>3, <2>5, <2>6
<1>9. CASE /\ Available(c) /\ t.kind \notin MethodKinds /\ t.kind = "header" /\ ~Complete(call)
           /\ TakeFrame(c) /\ Become([call EXCEPT !.pc = "body"])
           /\ UNCHANGED <<connected, link, out, msgs, handed>>
  <2> DEFINE a == [call EXCEPT !.pc = "body"]
  <2> HIDE DEF t, call
  <2>1. /\ NoReplies /\ WiresOK' /\ (Top.get => AllAnnounced)
        /\ t \in Frames /\ t.ch \in Channels /\ Valid(t) /\ t.kind # "deliver"
        /\ \A d \in Channels : Line(d)' = Line(d) \ {t}
        /\ \A d \in Channels : d = t.ch => /\ t \in Line(d)
                                           /\ \A g \in Line(d) : g = t \/ Precedes(t, g)
        /\ ~Top.get => t = Expected /\ t.ch = Top.ch
        /\ t.msg \in DOMAIN msgs /\ t.part = 0
        /\ call \in Calls /\ call.ch = t.ch /\ call.hdr = t.msg /\ call.msg = Top.msg
        /\ call.parts = Top.parts /\ call.get = Top.get
    BY <1>8, <1>9
  <2>2. /\ a \in Calls /\ a.pc = "body" /\ a.ch = t.ch /\ a.hdr = t.msg /\ a.msg = Top.msg
        /\ a.parts = Top.parts /\ a.get = Top.get
    BY <2>1 DEF Calls
  <2>3. Become(a)
    BY <1>9
  <2> HIDE DEF a
  <2>4. handed' \in Results /\ (handed'.hdr # 0 => handed'.hdr \in DOMAIN msgs')
    BY <1>1, <1>9 DEF StackOK
  <2>5. StackOK' /\ stack' # <<>> /\ Top' = a
    BY <1>2, <1>9, <2>1, <2>2, <2>3, <2>4, BecomeIs
  <2>6. UNCHANGED <<link, msgs>>
    BY <1>9
  <2>7. CASE Top.get
    <3>1. Quiet'
      BY <2>2, <2>5, <2>7 DEF Quiet, At, InDelivery
    <3> QED
      BY <2>1, <2>5, <2>6, <2>7, <3>1, QuietTake
  <2>8. CASE ~Top.get
    <3>1. /\ InDelivery /\ Top.msg \in DOMAIN msgs /\ msgs[Top.msg].kind = "deliver"
          /\ msgs[Top.msg].ch = Top.ch /\ Top.parts = <<>>
      BY <1>2, <2>8, IInvParts DEF InDelivery, ReadSoFar
    <3>2. t = Frame("header", Top.ch, Top.msg, 0) /\ t.msg = Top.msg /\ t.ch = Top.ch
      BY <1>2, <2>1, <2>8 DEF Expected, Frame
    <3>3. Len(Top.parts) = 0 /\ DOMAIN Top.parts = {} /\ msgs[Top.msg].parts \in Nat
      BY <1>1, <3>1, MsgTyped, EmptySeq
    <3>4. 0 < msgs[Top.msg].parts
      BY <1>9, <2>1, <3>2, <3>3 DEF Complete
    <3>5. FollowedUp(t)
      BY <1>9, <2>1, <3>2, <3>4 DEF FollowedUp
    <3>6. Expected' = FollowUp(t)
      BY <1>9, <2>1, <2>2, <2>5, <3>2, <3>3 DEF Expected, FollowUp
    <3>7. InDelivery' /\ ReadSoFar'
      BY <1>9, <2>2, <2>5, <2>8, <3>1, <3>2, <3>3, <3>4 DEF InDelivery, ReadSoFar
    <3>8. PICK d \in Channels : d = t.ch
      BY <2>1
    <3>9. \A e : Reading(e) = IF e = d THEN {t.msg} ELSE {}
      BY <3>1, <3>2, <3>8 DEF Reading, InDelivery
    <3>10. \A e \in Channels : \A f \in Line(e) :
              f.kind \in {"header", "body"} /\ msgs[f.msg].kind = "deliver"
              => Frame("deliver", e, f.msg, 0) \in Line(e) \/ (e = d /\ f.msg = t.msg)
      BY <3>9, IInvParts DEF ContentAnnounced
    <3>11. /\ t \in Line(d) /\ \A g \in Line(d) : g = t \/ Precedes(t, g)
           /\ Top'.ch = d /\ Top'.msg = t.msg
      BY <2>1, <2>2, <2>5, <3>2, <3>8
    <3> QED
      BY <2>1, <2>5, <2>6, <3>5, <3>6, <3>7, <3>10, <3>11, AdvanceKeeps
  <2> QED
    BY <2>7, <2>8
<1>10. CASE /\ Available(c) /\ t.kind \notin MethodKinds /\ t.kind = "header" /\ Complete(call)
            /\ Wanted(call) /\ TakeFrame(c) /\ Finish(call)
  <2> HIDE DEF t, call
  <2>1. UNCHANGED <<connected, link, out, msgs>>
    BY <1>10 DEF Finish
  <2>2. /\ NoReplies /\ WiresOK' /\ (Top.get => AllAnnounced)
        /\ t \in Frames /\ t.ch \in Channels /\ Valid(t) /\ t.kind # "deliver"
        /\ \A d \in Channels : Line(d)' = Line(d) \ {t}
        /\ \A d \in Channels : d = t.ch => \A g \in Line(d) : g = t \/ Precedes(t, g)
        /\ call.parts = Top.parts /\ call.get = Top.get
    BY <1>8, <1>10, <2>1
  <2>3. Top.get
    <3>1. ~Top.get => Top.parts = <<>>
      BY <1>2, IInvParts DEF ReadSoFar, InDelivery
    <3> QED
      BY <1>10, <2>2, <3>1 DEF Wanted
  <2>4. Return /\ UNCHANGED handed
    BY <1>10, <2>2, <2>3 DEF Finish
  <2>5. StackOK' /\ Quiet'
    BY <1>2, <2>1, <2>4, ReturnIs
  <2>6. UNCHANGED <<link, msgs>>
    BY <2>1
  <2> QED
    BY <2>2, <2>3, <2>5, <2>6, QuietTake
<1> QED
  BY <1>5, <1>6, <1>7, <1>9, <1>10

(* Nothing is left of the line of a channel on which a wait has failed. *)
LEMMA EndOfStreamIs ==
    ASSUME WiresOK, NEW c \in Channels, EndOfStream(c)
    PROVE  Line(c) = {}
<1>1. c # 0 /\ link = "down" /\ FirstOn(Inbound, c) = 0
  BY RecvAssumption DEF EndOfStream, Available
<1>2. Inbound \in Seq(Frames) /\ out[c] = <<>>
  BY <1>1, InboundIs DEF WiresOK
<1>3. DOMAIN Inbound = 1..Len(Inbound) /\ \A i \in 1..Len(Inbound) : Inbound[i].ch # c
  BY <1>1, <1>2, FirstOnProperties, LenProperties
<1>4. DOMAIN out[c] = {}
  BY <1>2, EmptySeq
<1> QED
  BY <1>3, <1>4 DEF Line

(* A failing wait on a channel puts all that can be read aside. *)
LEMMA AllQueued ==
    ASSUME IInv, queued' = Inbound, inbuf' = <<>>, sock' = <<>>, UNCHANGED <<link, out, msgs>>
    PROVE  /\ WiresOK' /\ Gapless'
           /\ \A c \in Channels : Line(c)' = Line(c)
           /\ NoReplies => NoReplies'
<1>1. WiresOK /\ Gapless /\ Inbound \in Seq(Frames)
  BY IInvParts, InboundIs DEF WiresOK
<1>2. Inbound' = Inbound /\ Placed'
  <2>1. \A q \in Seq(Frames) : (q \o <<>>) \o <<>> = q
    BY ConcatEmptySeq
  <2>2. <<>> \in Seq(Frames)
    BY EmptySeq
  <2>3. Inbound' = (Inbound \o <<>>) \o <<>>
    BY DEF Inbound
  <2> HIDE DEF Inbound
  <2> QED
    BY <1>1, <2>1, <2>2, <2>3 DEF Placed, WiresOK
<1>3. \A c : Line(c)' = Line(c)
  BY <1>2 DEF Line
<1>4. \A f : (Valid(f)' <=> Valid(f)) /\ (FollowedUp(f)' <=> FollowedUp(f))
  BY DEF Valid, FollowedUp
<1>5. WiresOK'
  BY <1>1, <1>2, <1>4 DEF WiresOK, FramesValid, FramesInOrder
<1>6. Gapless'
  BY <1>1, <1>3, <1>4 DEF Gapless
<1> QED
  BY <1>3, <1>5, <1>6 DEF NoReplies

(* The callback for a message begins. *)
LEMMA HandOverIs ==
    ASSUME IInv, InDelivery, Top.pc = "body", NEW call \in Calls, HandOver(call),
           call.ch = Top.ch, call.hdr = Top.hdr, UNCHANGED <<connected, msgs>>
    PROVE  StackOK' /\ Quiet'
<1>1. Top.ch \in Channels /\ stack # <<>> /\ Top.msg \in DOMAIN msgs /\ Top.hdr = Top.msg
  BY ExpectedIs, IInvParts DEF ReadSoFar
<1> DEFINE v == IF msgs[call.hdr].parts = 1 THEN "library" ELSE "own"
           a == [Call("callback", call.ch, FALSE, NoTimeout) EXCEPT !.view = v]
<1>2. a \in Calls /\ a.pc = "callback"
  <2>1. v \in {"library", "own"} /\ call.ch \in Channels \cup {0}
    BY <1>1
  <2> HIDE DEF v
  <2>2. Call("callback", call.ch, FALSE, NoTimeout) \in Calls
    BY <2>1, RecvAssumption, EmptySeq DEF Call, Calls, Bodies
  <2> QED
    BY <2>1, <2>2 DEF Call, Calls
<1>3. Become(a) /\ handed' = [msg |-> call.msg, hdr |-> call.hdr, parts |-> call.parts]
  BY DEF HandOver
<1> HIDE DEF a
<1>4. handed' \in Results /\ handed'.hdr \in DOMAIN msgs'
  BY <1>1, <1>3 DEF Calls, Results
<1>5. StackOK' /\ stack' # <<>> /\ Top' = a
  BY <1>1, <1>2, <1>3, <1>4, BecomeIs
<1> QED
  BY <1>2, <1>5 DEF Quiet, At, InDelivery

(* A call has its body, or all there will be of it. *)
LEMMA FinishIs ==
    ASSUME IInv, stack # <<>>, Top.pc = "body", NEW call \in Calls, Finish(call),
           call.get = Top.get, call.ch = Top.ch, call.hdr = Top.hdr
    PROVE  /\ StackOK' /\ Quiet' /\ UNCHANGED <<connected, link, out, msgs>>
           /\ IF Top.get THEN Return /\ UNCHANGED handed ELSE HandOver(call)
<1>1. /\ UNCHANGED <<connected, link, out, msgs>>
      /\ IF Top.get THEN Return /\ UNCHANGED handed ELSE HandOver(call)
  BY DEF Finish
<1>2. connected
  BY IInvParts DEF StackOK, CallsNested
<1>3. CASE Top.get
  BY <1>1, <1>2, <1>3, ReturnIs
<1>4. CASE ~Top.get
  BY <1>1, <1>4, HandOverIs DEF InDelivery
<1> QED
  BY <1>1, <1>3, <1>4

(* Behind the last frame of a message there is none of it. *)
LEMMA NothingBehind ==
    ASSUME WiresOK, NEW c \in Channels, NEW t \in Line(c), t.kind = "body",
           t.part = msgs[t.msg].parts, NEW g \in Line(c), ~OfRpc(g), Precedes(t, g)
    PROVE  g.msg # t.msg
<1>1. /\ t \in Frames /\ Valid(t) /\ t.ch = c /\ t.kind # "reply"
      /\ g \in Frames /\ Valid(g) /\ g.ch = c /\ g.kind # "reply"
  BY LineTyped DEF OfRpc
<1>2. Stage(t) = msgs[t.msg].parts + 1 /\ msgs[t.msg].parts \in Nat
  BY <1>1, ValidFacts, MsgTyped
<1>3. g.msg = t.msg => Stage(g) <= msgs[t.msg].parts + 1 /\ Stage(g) \in Nat
  <2>1. /\ g.kind \in MethodKinds => Stage(g) = 0
        /\ g.kind = "header" => Stage(g) = 1
        /\ g.kind = "body" => g.part \in 1..msgs[g.msg].parts /\ Stage(g) = g.part + 1
        /\ g.kind \in MethodKinds \/ g.kind = "header" \/ g.kind = "body"
    BY <1>1, ValidFacts
  <2> QED
    BY <1>2, <2>1
<1>4. Older(t, g)
  BY <1>1 DEF Precedes
<1> QED
  BY <1>1, <1>2, <1>3, <1>4 DEF Older, Frames

(* In a delivery content is announced, or it is the rest of what is being read. *)
LEMMA ContentIsKnown ==
    ASSUME IInv, Top.ch \in Channels, NEW d \in Channels, NEW f \in Line(d),
           f.kind \in {"header", "body"}, msgs[f.msg].kind = "deliver"
    PROVE  Frame("deliver", d, f.msg, 0) \in Line(d) \/ (d = Top.ch /\ f.msg = Top.msg /\ InDelivery)
BY IInvParts DEF ContentAnnounced, Reading, InDelivery

(* The link has failed in the middle of a body: what there is of it is handed  *)
(* over, or returned by basic_get.                                             *)
LEMMA CutShortPreserves ==
    ASSUME IInv, stack # <<>>, Top.pc = "body", EndOfStream(Top.ch), Finish(Top),
           queued' = Inbound, inbuf' = <<>>, sock' = <<>>
    PROVE  IInv'
<1>1. WiresOK /\ StackOK /\ RepliesAwaited
  BY IInvParts
<1>2. Top \in Calls /\ Top.ch \in Channels
  BY <1>1, OuterIs DEF StackOK, CallsNested
<1>3. StackOK' /\ Quiet' /\ UNCHANGED <<connected, link, out, msgs>>
  BY <1>2, FinishIs
<1>4. NoReplies
  BY <1>1 DEF RepliesAwaited, NoReplies, At
<1>5. /\ WiresOK' /\ Gapless' /\ NoReplies'
      /\ \A d \in Channels : Line(d)' = Line(d)
  BY <1>3, <1>4, AllQueued
<1>6. PICK c \in Channels : c = Top.ch
  BY <1>2
<1>7. Line(c) = {}
  BY <1>1, <1>6, EndOfStreamIs
<1>8. AllAnnounced'
  <2> SUFFICES ASSUME NEW d \in Channels, NEW f \in Line(d), f.kind \in {"header", "body"},
                      msgs[f.msg].kind = "deliver"
               PROVE  Frame("deliver", d, f.msg, 0) \in Line(d)
    BY <1>3, <1>5 DEF AllAnnounced
  <2> QED
    BY <1>2, <1>6, <1>7, ContentIsKnown
<1> QED
  BY <1>3, <1>5, <1>8, QuietHolds

(* What a call that reads a body takes. *)
LEMMA BodyTaken ==
    ASSUME IInv, stack # <<>>, Top.pc = "body", Available(Top.ch), Taken(Top.ch).kind = "body",
           TakeFrame(Top.ch), UNCHANGED <<link, out, msgs>>,
           NEW t, t = Taken(Top.ch), NEW call, call = [Top EXCEPT !.parts = Append(@, <<t.msg, t.part>>)]
    PROVE  /\ WiresOK' /\ NoReplies /\ (Top.get => AllAnnounced)
           /\ \A d \in Channels : Line(d)' = Line(d) \ {t}
           /\ \A d \in Channels : d = t.ch => /\ t \in Line(d)
                                              /\ \A g \in Line(d) : g = t \/ Precedes(t, g)
           /\ t \in Frames /\ t.ch \in Channels /\ t.kind = "body" /\ Valid(t)
           /\ t.msg \in DOMAIN msgs /\ msgs[t.msg].parts \in Nat /\ t.part \in 1..msgs[t.msg].parts
           /\ ~Top.get => t = Expected /\ t.ch = Top.ch
           /\ call \in Calls
           /\ call = [Top EXCEPT !.parts = call.parts]
           /\ call.pc = "body" /\ call.get = Top.get /\ call.ch = Top.ch /\ call.hdr = Top.hdr
           /\ call.msg = Top.msg /\ call.parts = Append(Top.parts, <<t.msg, t.part>>)
           /\ Len(call.parts) = Len(Top.parts) + 1
<1>1. WiresOK /\ StackOK
  BY IInvParts
<1>2. Top \in Calls /\ Top.ch \in Channels
  BY <1>1, OuterIs DEF StackOK, CallsNested
<1>3. PICK c \in Channels : c = Top.ch
  BY <1>2
<1>4. WiresOK' /\ \A d \in Channels : Line(d)' = Line(d) \ {t}
  BY <1>1, <1>3, TakeFrameKeeps
<1>5. /\ NoReplies
      /\ t \in Frames /\ Valid(t) /\ t.ch \in Channels
      /\ \A d \in Channels : d = t.ch => /\ t \in Line(d)
                                         /\ \A g \in Line(d) : g = t \/ Precedes(t, g)
      /\ ~Top.get => t = Expected /\ t.ch = Top.ch
      /\ Top.get => AllAnnounced
  BY <1>3, ContentTaken
<1>6. t.kind = "body"
  OBVIOUS
<1>7. /\ t.msg \in DOMAIN msgs /\ msgs[t.msg].parts \in Nat /\ t.part \in 1..msgs[t.msg].parts
      /\ t.msg \in 1..MaxMessages
  <2>1. t.msg \in DOMAIN msgs /\ t.part \in 1..msgs[t.msg].parts
    BY <1>5, <1>6, ValidFacts
  <2> QED
    BY <1>1, <2>1, MsgTyped
<1> DEFINE p == <<t.msg, t.part>>
           new == Append(Top.parts, p)
<1>8. p \in (1..MaxMessages) \X (Nat \ {0})
  BY <1>7
<1> HIDE DEF p
<1>9. new \in Bodies /\ Len(new) = Len(Top.parts) + 1
  BY <1>2, <1>8, AppendProperties DEF Calls, Bodies
<1>10. call = [Top EXCEPT !.parts = new]
  BY DEF p
<1> HIDE DEF new
<1>11. /\ call \in Calls /\ call.parts = new /\ call.pc = "body"
       /\ call.get = Top.get /\ call.ch = Top.ch /\ call.hdr = Top.hdr /\ call.msg = Top.msg
  BY <1>2, <1>9, <1>10 DEF Calls
<1> QED
  BY <1>4, <1>5, <1>6, <1>7, <1>9, <1>10, <1>11 DEF new, p

(* The frames of a body, from a delivery in order, or from what basic_get meets. *)
LEMMA ReadBodyPreserves ==
    ASSUME IInv, ReadBody
    PROVE  IInv'
<1>1. WiresOK /\ StackOK
  BY IInvParts
<1>2. stack # <<>> /\ Top.pc = "body" /\ connected /\ Top.ch \in Channels /\ Top \in Calls
  BY <1>1, OuterIs DEF ReadBody, At, StackOK, CallsNested
<1> DEFINE t == Taken(Top.ch)
           call == [Top EXCEPT !.parts = Append(@, <<t.msg, t.part>>)]
<1>3. \/ Close(Outer)
      \/ /\ EndOfStream(Top.ch) /\ Finish(Top)
         /\ queued' = Inbound /\ inbuf' = <<>> /\ sock' = <<>>
      \/ /\ Available(Top.ch) /\ t.kind \notin MethodKinds /\ t.kind # "body"
         /\ UnexpectedFrame(Top.ch)
      \/ /\ Available(Top.ch) /\ t.kind = "body" /\ Complete(call)
         /\ TakeFrame(Top.ch) /\ Finish(call)
      \/ /\ Available(Top.ch) /\ t.kind = "body" /\ ~Complete(call)
         /\ TakeFrame(Top.ch) /\ Become(call)
         /\ UNCHANGED <<connected, link, out, msgs, handed>>
  BY DEF ReadBody
<1>4. CASE Close(Outer)
  BY <1>2, <1>4, FailurePreserves
<1>5. CASE /\ EndOfStream(Top.ch) /\ Finish(Top)
           /\ queued' = Inbound /\ inbuf' = <<>> /\ sock' = <<>>
  BY <1>2, <1>5, CutShortPreserves
<1>6. CASE /\ Available(Top.ch) /\ t.kind \notin MethodKinds /\ t.kind # "body"
           /\ UnexpectedFrame(Top.ch)
  BY <1>2, <1>6, UnexpectedKeeps
<1>7. ASSUME Available(Top.ch), t.kind = "body", TakeFrame(Top.ch), UNCHANGED <<link, out, msgs>>
      PROVE  /\ WiresOK' /\ NoReplies /\ (Top.get => AllAnnounced)
             /\ \A d \in Channels : Line(d)' = Line(d) \ {t}
             /\ \A d \in Channels : d = t.ch => /\ t \in Line(d)
                                                /\ \A g \in Line(d) : g = t \/ Precedes(t, g)
             /\ t \in Frames /\ t.ch \in Channels /\ t.kind = "body" /\ Valid(t)
             /\ t.msg \in DOMAIN msgs /\ msgs[t.msg].parts \in Nat /\ t.part \in 1..msgs[t.msg].parts
             /\ ~Top.get => t = Expected /\ t.ch = Top.ch
             /\ call \in Calls
             /\ call.pc = "body" /\ call.get = Top.get /\ call.ch = Top.ch /\ call.hdr = Top.hdr
             /\ call.msg = Top.msg /\ call.parts = Append(Top.parts, <<t.msg, t.part>>)
             /\ Len(call.parts) = Len(Top.parts) + 1
  <2>1. t = Taken(Top.ch) /\ call = [Top EXCEPT !.parts = Append(@, <<t.msg, t.part>>)]
    OBVIOUS
  <2> HIDE DEF t, call
  <2>2. Taken(Top.ch).kind = "body" /\ Available(Top.ch) /\ TakeFrame(Top.ch)
        /\ UNCHANGED <<link, out, msgs>>
    BY <1>7, <2>1
  <2> QED
    BY <1>2, <2>1, <2>2, BodyTaken
<1>8. ASSUME ~Top.get, t = Expected, t.ch = Top.ch
      PROVE  /\ InDelivery /\ t.msg = Top.msg /\ t.part = Len(Top.parts) + 1
             /\ t = Frame("body", Top.ch, Top.msg, Len(Top.parts) + 1)
             /\ Top.hdr = Top.msg /\ Len(Top.parts) \in Nat
             /\ Len(Top.parts) < msgs[Top.msg].parts
             /\ Top.msg \in DOMAIN msgs /\ msgs[Top.msg].ch = Top.ch /\ msgs[Top.msg].kind = "deliver"
             /\ \A i \in DOMAIN Top.parts : Top.parts[i] = <<Top.msg, i>>
  <2>1. InDelivery
    BY <1>2, <1>8 DEF InDelivery
  <2>2. Expected = Frame("body", Top.ch, Top.msg, Len(Top.parts) + 1)
    BY <1>2 DEF Expected
  <2>3. ReadSoFar /\ Len(Top.parts) \in Nat
    BY <2>1, IInvParts, ExpectedIs
  <2> HIDE DEF t
  <2> QED
    BY <1>2, <1>8, <2>1, <2>2, <2>3 DEF ReadSoFar, Frame
<1>9. CASE /\ Available(Top.ch) /\ t.kind = "body" /\ Complete(call)
           /\ TakeFrame(Top.ch) /\ Finish(call)
  <2> HIDE DEF t, call
  <2>1. UNCHANGED <<link, out, msgs>>
    BY <1>9 DEF Finish
  <2>2. /\ WiresOK' /\ NoReplies /\ (Top.get => AllAnnounced)
        /\ \A d \in Channels : Line(d)' = Line(d) \ {t}
        /\ \A d \in Channels : d = t.ch => /\ t \in Line(d)
                                           /\ \A g \in Line(d) : g = t \/ Precedes(t, g)
        /\ t \in Frames /\ t.ch \in Channels /\ t.kind = "body" /\ Valid(t)
        /\ t.msg \in DOMAIN msgs /\ msgs[t.msg].parts \in Nat
        /\ ~Top.get => t = Expected /\ t.ch = Top.ch
        /\ call \in Calls /\ call.get = Top.get /\ call.ch = Top.ch /\ call.hdr = Top.hdr
        /\ Len(call.parts) = Len(Top.parts) + 1
    BY <1>7, <1>9, <2>1
  <2>3. StackOK' /\ Quiet'
    BY <1>2, <1>9, <2>2, FinishIs
  <2>4. CASE Top.get
    BY <2>1, <2>2, <2>3, <2>4, QuietTake DEF MethodKinds
  <2>5. CASE ~Top.get
    <3>1. /\ t.msg = Top.msg /\ t.part = Len(Top.parts) + 1 /\ Top.hdr = Top.msg
      BY <1>8, <2>2, <2>5
    <3>2. t.part = msgs[t.msg].parts
      BY <1>9, <2>2, <3>1 DEF Complete
    <3>3. PICK c \in Channels : c = Top.ch
      BY <1>2
    <3>4. t \in Line(c) /\ \A g \in Line(c) : g = t \/ Precedes(t, g)
      BY <2>2, <2>5, <3>3
    <3>5. Gapless'
      BY <1>1, <2>1, <2>2, IInvParts, TakingKeepsGapless
    <3>6. NoReplies'
      BY <2>2 DEF NoReplies
    <3>7. AllAnnounced'
      <4> SUFFICES ASSUME NEW d \in Channels, NEW f \in Line(d)', f.kind \in {"header", "body"},
                          msgs[f.msg].kind = "deliver"
                   PROVE  Frame("deliver", d, f.msg, 0) \in Line(d)'
        BY <2>1 DEF AllAnnounced
      <4>1. f \in Line(d) /\ f # t
        BY <2>2
      <4>2. d = c => f.msg # t.msg
        <5>1. SUFFICES ASSUME d = c PROVE f.msg # t.msg
          OBVIOUS
        <5>2. f \in Line(c) /\ ~OfRpc(f) /\ Precedes(t, f)
          BY <2>2, <3>4, <4>1, <5>1 DEF NoReplies
        <5> QED
          BY <1>1, <2>2, <3>2, <3>4, <5>2, NothingBehind
      <4>3. Frame("deliver", d, f.msg, 0) \in Line(d)
        BY <1>2, <3>1, <3>3, <4>1, <4>2, ContentIsKnown
      <4>4. Frame("deliver", d, f.msg, 0) # t
        BY <2>2 DEF Frame
      <4> QED
        BY <2>2, <4>3, <4>4
    <3> QED
      BY <2>2, <2>3, <3>5, <3>6, <3>7, QuietHolds
  <2> QED
    BY <2>4, <2>5
<1>10. CASE /\ Available(Top.ch) /\ t.kind = "body" /\ ~Complete(call)
            /\ TakeFrame(Top.ch) /\ Become(call)
            /\ UNCHANGED <<connected, link, out, msgs, handed>>
  <2> HIDE DEF t, call
  <2>1. UNCHANGED <<link, out, msgs>>
    BY <1>10
  <2>2. /\ WiresOK' /\ NoReplies /\ (Top.get => AllAnnounced)
        /\ \A d \in Channels : Line(d)' = Line(d) \ {t}
        /\ \A d \in Channels : d = t.ch => /\ t \in Line(d)
                                           /\ \A g \in Line(d) : g = t \/ Precedes(t, g)
        /\ t \in Frames /\ t.ch \in Channels /\ t.kind = "body" /\ Valid(t)
        /\ t.msg \in DOMAIN msgs /\ msgs[t.msg].parts \in Nat /\ t.part \in 1..msgs[t.msg].parts
        /\ ~Top.get => t = Expected /\ t.ch = Top.ch
        /\ call \in Calls /\ call.pc = "body" /\ call.get = Top.get /\ call.ch = Top.ch
        /\ call.hdr = Top.hdr /\ call.msg = Top.msg
        /\ call.parts = Append(Top.parts, <<t.msg, t.part>>)
        /\ Len(call.parts) = Len(Top.parts) + 1
    BY <1>7, <1>10, <2>1
  <2>3. StackOK' /\ stack' # <<>> /\ Top' = call
    <3>1. handed' \in Results /\ (handed'.hdr # 0 => handed'.hdr \in DOMAIN msgs')
      BY <1>1, <1>10 DEF StackOK
    <3> QED
      BY <1>2, <1>10, <2>2, <3>1, BecomeIs
  <2>4. CASE Top.get
    <3>1. Quiet'
      BY <2>2, <2>3, <2>4 DEF Quiet, At, InDelivery
    <3> QED
      BY <2>1, <2>2, <2>3, <2>4, <3>1, QuietTake DEF MethodKinds
  <2>5. CASE ~Top.get
    <3>1. /\ t.msg = Top.msg /\ t.part = Len(Top.parts) + 1 /\ Top.hdr = Top.msg
          /\ t = Frame("body", Top.ch, Top.msg, Len(Top.parts) + 1)
          /\ Len(Top.parts) \in Nat /\ Len(Top.parts) < msgs[Top.msg].parts
          /\ Top.msg \in DOMAIN msgs /\ msgs[Top.msg].ch = Top.ch /\ msgs[Top.msg].kind = "deliver"
          /\ \A i \in DOMAIN Top.parts : Top.parts[i] = <<Top.msg, i>>
      BY <1>8, <2>2, <2>5
    <3>2. PICK c \in Channels : c = Top.ch
      BY <1>2
    <3>3. t \in Line(c) /\ \A g \in Line(c) : g = t \/ Precedes(t, g)
      BY <2>2, <2>5, <3>2
    <3>4. t.part < msgs[t.msg].parts
      BY <1>10, <2>2, <3>1 DEF Complete
    <3>5. FollowedUp(t)
      BY <2>2, <3>4 DEF FollowedUp, MethodKinds
    <3>6. Expected' = FollowUp(t)
      BY <2>2, <2>3, <2>5, <3>1 DEF Expected, FollowUp, MethodKinds
    <3>7. \A i \in DOMAIN call.parts : call.parts[i] = <<Top.msg, i>>
      <4>1. Top.parts \in Seq((1..MaxMessages) \X (Nat \ {0}))
        BY <1>2 DEF Calls, Bodies
      <4>2. <<t.msg, t.part>> \in (1..MaxMessages) \X (Nat \ {0})
        BY <1>1, <2>2, MsgTyped
      <4>3. /\ DOMAIN call.parts = 1..(Len(Top.parts) + 1)
            /\ DOMAIN Top.parts = 1..Len(Top.parts)
            /\ \A i \in 1..Len(Top.parts) : call.parts[i] = Top.parts[i]
            /\ call.parts[Len(Top.parts) + 1] = <<t.msg, t.part>>
        BY <2>2, <4>1, <4>2, AppendProperties, LenProperties
      <4> QED
        BY <3>1, <4>3
    <3>8. InDelivery' /\ ReadSoFar'
      BY <2>1, <2>2, <2>3, <2>5, <3>1, <3>4, <3>7 DEF InDelivery, ReadSoFar
    <3>9. \A d \in Channels : \A f \in Line(d) :
              f.kind \in {"header", "body"} /\ msgs[f.msg].kind = "deliver"
              => Frame("deliver", d, f.msg, 0) \in Line(d) \/ (d = c /\ f.msg = t.msg)
      BY <1>2, <3>1, <3>2, ContentIsKnown
    <3>10. Top'.ch = c /\ Top'.msg = t.msg
      BY <2>2, <2>3, <3>1, <3>2
    <3> QED
      BY <2>1, <2>2, <2>3, <3>3, <3>5, <3>6, <3>8, <3>9, <3>10, AdvanceKeeps
  <2> QED
    BY <2>4, <2>5
<1> QED
  BY <1>3, <1>4, <1>5, <1>6, <1>9, <1>10

(* Callbacks whose channel is released remain callbacks. *)
LEMMA ReleasedCallbacks ==
    ASSUME NEW o \in Seq(Calls), \A k \in DOMAIN o : o[k].pc = "callback", NEW cs, NEW q,
           NEW s, s = Released(o, cs, q)
    PROVE  /\ s \in Seq(Calls) /\ Len(s) = Len(o)
           /\ \A k \in DOMAIN s : s[k].pc = "callback"
<1>1. /\ s \in Seq(Calls) /\ Len(s) = Len(o) /\ DOMAIN s = DOMAIN o
      /\ \A k \in DOMAIN o : s[k] = o[k] \/ s[k] = [o[k] EXCEPT !.view = "released"]
      /\ \A k \in DOMAIN o : o[k] \in Calls
  BY ReleasedIs, ElementOfSeq
<1>2. ASSUME NEW k \in DOMAIN s PROVE s[k].pc = "callback"
  <2>1. o[k] \in Calls /\ o[k].pc = "callback"
    BY <1>1
  <2>2. CASE s[k] = [o[k] EXCEPT !.view = "released"]
    BY <2>1, <2>2 DEF Calls
  <2> QED
    BY <1>1, <2>1, <2>2
<1> QED
  BY <1>1, <1>2

(* A message is published: no frame moves. *)
LEMMA BasicPublishPreserves ==
    ASSUME IInv, NEW c \in Channels, BasicPublish(c)
    PROVE  IInv'
<1> DEFINE a == Call("publish", c, FALSE, NoTimeout)
<1>1. a \in Calls /\ a.pc = "publish" /\ a.ch \in Channels
  BY RecvAssumption, EmptySeq DEF Call, Calls, Bodies
<1>2. CanCall /\ Push(a) /\ UNCHANGED <<connected, link, out, sock, inbuf, queued, msgs, handed>>
  BY DEF BasicPublish, wires
<1> HIDE DEF a
<1>3. StackOK' /\ stack' # <<>> /\ Top' = a
  BY <1>1, <1>2, PushIs
<1>4. Quiet'
  BY <1>1, <1>3 DEF Quiet, At, InDelivery
<1>5. NoReplies /\ AllAnnounced
  BY <1>2, CallerIsQuiet, QuietMeans
<1> QED
  BY <1>2, <1>3, <1>4, <1>5, NoFrameMoves, QuietHolds

(* basic_publish returns: the callbacks around it remain, what was lent to     *)
(* them on its channel released.                                              *)
LEMMA PublishReturnsPreserves ==
    ASSUME IInv, PublishReturns
    PROVE  IInv'
<1>1. StackOK /\ stack # <<>> /\ Top.pc = "publish" /\ connected
  BY IInvParts, OuterIs DEF PublishReturns, At, StackOK, CallsNested
<1>2. /\ Outer \in Seq(Calls) /\ Len(Outer) < MaxDepth
      /\ \A k \in DOMAIN Outer : Outer[k].pc = "callback"
  BY <1>1, OuterIs
<1>3. CASE Close(Outer)
  BY <1>1, <1>3, FailurePreserves
<1>4. CASE stack' = ReleaseOnChannel(Top.ch, queued) /\ UNCHANGED <<wires, handed>>
  <2>1. UNCHANGED <<connected, link, out, sock, inbuf, queued, msgs, handed>>
    BY <1>4 DEF wires
  <2>2. PICK s : s = Released(Outer, {Top.ch}, queued)
    OBVIOUS
  <2>3. stack' = s
    BY <1>4, <2>2 DEF ReleaseOnChannel
  <2>4. /\ s \in Seq(Calls) /\ Len(s) = Len(Outer)
        /\ \A k \in DOMAIN s : s[k].pc = "callback"
    BY <1>2, <2>2, ReleasedCallbacks
  <2>5. Len(s) <= MaxDepth
    BY <1>2, <2>4, LenProperties, RecvAssumption
  <2>6. /\ connected' = TRUE /\ handed' \in Results
        /\ handed'.hdr # 0 => handed'.hdr \in DOMAIN msgs'
    BY <1>1, <2>1 DEF StackOK
  <2>7. StackOK' /\ (stack' # <<>> => Top'.pc = "callback")
    BY <2>3, <2>4, <2>5, <2>6, AllCallbacks
  <2>8. Quiet'
    BY <2>7 DEF Quiet, At, InDelivery
  <2>9. NoReplies /\ AllAnnounced
    BY <1>1, QuietMeans DEF Quiet, At, InDelivery
  <2> QED
    BY <2>1, <2>7, <2>8, <2>9, NoFrameMoves, QuietHolds
<1> QED
  BY <1>3, <1>4 DEF PublishReturns

(* The reply to an RPC, and what basic_get goes on with. *)
LEMMA ReadReplyPreserves ==
    ASSUME IInv, ReadReply
    PROVE  IInv'
<1>1. WiresOK /\ StackOK /\ Gapless /\ RepliesAwaited /\ ContentAnnounced
  BY IInvParts
<1>2. stack # <<>> /\ Top.pc = "reply" /\ connected /\ Top.ch \in Channels /\ Top \in Calls
  BY <1>1, OuterIs DEF ReadReply, At, StackOK, CallsNested
<1>3. CASE Close(Outer)
  BY <1>2, <1>3, FailurePreserves
<1>4. ASSUME NEW i \in Reply(Top.ch), queued' = queued \o Before(Unparsed, i), Parse(i),
             \/ ~Top.get /\ stack' = ReleaseOnChannel(Top.ch, queued')
             \/ stack' = IF Top.get /\ Unparsed[i].kind = "getok" /\ inbuf' # <<>>
                         THEN Append(Outer, [Top EXCEPT !.pc = "header", !.msg = Unparsed[i].msg])
                         ELSE Outer,
             UNCHANGED <<connected, link, out, msgs, handed>>
      PROVE  IInv'
  <2>1. PICK c \in Channels : c = Top.ch
    BY <1>2
  <2>2. PICK t : t = Unparsed[i]
    OBVIOUS
  <2>3. /\ WiresOK' /\ t \in Frames /\ t \in Line(c) /\ OfRpc(t)
        /\ \A d \in Channels : Line(d)' = Line(d) \ {t}
        /\ \A g \in Line(c)' : ~OfRpc(g)
    BY <1>1, <1>4, <2>1, <2>2, ReplyKeeps
  <2>4. NoReplies'
    <3>1. SUFFICES ASSUME NEW d \in Channels, NEW g \in Line(d)', OfRpc(g) PROVE FALSE
      BY DEF NoReplies
    <3>2. d = c
      BY <1>1, <2>1, <2>3, <3>1 DEF RepliesAwaited
    <3> QED
      BY <2>3, <3>1, <3>2
  <2>5. Gapless'
    BY <1>1, <1>4, <2>3, TakingKeepsGapless DEF OfRpc, MethodKinds
  <2>6. AllAnnounced'
    <3> SUFFICES ASSUME NEW d \in Channels, NEW f \in Line(d)', f.kind \in {"header", "body"},
                        msgs[f.msg].kind = "deliver"
                 PROVE  Frame("deliver", d, f.msg, 0) \in Line(d)'
      BY <1>4 DEF AllAnnounced
    <3>1. Frame("deliver", d, f.msg, 0) # t
      BY <2>3 DEF Frame, OfRpc
    <3>2. Frame("deliver", d, f.msg, 0) \in Line(d)
      BY <1>2, <2>3, ContentIsKnown DEF InDelivery
    <3> QED
      BY <2>3, <3>1, <3>2
  <2>7. /\ Outer \in Seq(Calls) /\ Len(Outer) < MaxDepth
        /\ \A k \in DOMAIN Outer : Outer[k].pc = "callback"
    BY <1>1, <1>2, OuterIs
  <2>8. /\ connected' = TRUE /\ handed' \in Results /\ connected' \in BOOLEAN
        /\ handed'.hdr # 0 => handed'.hdr \in DOMAIN msgs'
    BY <1>1, <1>2, <1>4 DEF StackOK
  <2>9. CASE stack' = Append(Outer, [Top EXCEPT !.pc = "header", !.msg = t.msg]) /\ Top.get
    <3> DEFINE a == [Top EXCEPT !.pc = "header", !.msg = t.msg]
    <3>1. a \in Calls /\ a.pc = "header" /\ a.ch \in Channels /\ a.get
      <4>1. t.msg \in 0..MaxMessages
        BY <2>3 DEF Frames
      <4> QED
        BY <1>2, <2>9, <4>1 DEF Calls
    <3>2. stack' = Append(Outer, a)
      BY <2>9
    <3> HIDE DEF a
    <3>3. StackOK' /\ stack' # <<>> /\ Top' = a
      BY <2>7, <2>8, <3>1, <3>2, TopIs
    <3>4. Quiet'
      BY <3>1, <3>3 DEF Quiet, At, InDelivery
    <3> QED
      BY <2>3, <2>4, <2>5, <2>6, <3>3, <3>4, QuietHolds
  <2>10. ASSUME NEW s \in Seq(Calls), stack' = s, Len(s) = Len(Outer),
                \A k \in DOMAIN s : s[k].pc = "callback"
         PROVE  IInv'
    <3>1. Len(s) <= MaxDepth
      BY <2>7, <2>10, LenProperties, RecvAssumption
    <3>2. StackOK' /\ (stack' # <<>> => Top'.pc = "callback")
      BY <2>8, <2>10, <3>1, AllCallbacks
    <3>3. Quiet'
      BY <3>2 DEF Quiet, At, InDelivery
    <3> QED
      BY <2>3, <2>4, <2>5, <2>6, <3>2, <3>3, QuietHolds
  <2>11. CASE stack' = Outer
    BY <2>7, <2>10, <2>11
  <2>12. CASE stack' = ReleaseOnChannel(Top.ch, queued')
    <3>1. PICK s : s = Released(Outer, {Top.ch}, queued')
      OBVIOUS
    <3>2. /\ s \in Seq(Calls) /\ Len(s) = Len(Outer)
          /\ \A k \in DOMAIN s : s[k].pc = "callback"
      BY <2>7, <3>1, ReleasedCallbacks
    <3>3. stack' = s
      BY <2>12, <3>1 DEF ReleaseOnChannel
    <3> QED
      BY <2>10, <3>2, <3>3
  <2> QED
    BY <1>4, <2>2, <2>9, <2>11, <2>12
<1> QED
  BY <1>3, <1>4 DEF ReadReply

-----------------------------------------------------------------------------
(* The invariant. *)
LEMMA InitIInv ==
    ASSUME Init
    PROVE  IInv
<1>1. /\ connected = TRUE /\ link = "up" /\ out = [c \in Channels |-> <<>>]
      /\ sock = <<>> /\ inbuf = <<>> /\ queued = <<>> /\ msgs = <<>> /\ stack = <<>>
      /\ handed = [msg |-> 0, hdr |-> 0, parts |-> <<>>]
  BY DEF Init
<1>2. Inbound = <<>>
  BY <1>1, ConcatEmptySeq, EmptySeq DEF Inbound
<1>3. DOMAIN Inbound = {} /\ (\A c \in Channels : out[c] = <<>> /\ DOMAIN out[c] = {})
      /\ DOMAIN msgs = {} /\ Len(msgs) = 0 /\ Len(stack) = 0 /\ DOMAIN stack = {}
  BY <1>1, <1>2, EmptySeq
<1>4. \A c \in Channels : Line(c) = {}
  BY <1>3 DEF Line
<1>5. WiresOK
  BY <1>1, <1>3, EmptySeq, RecvAssumption DEF WiresOK, Placed, FramesValid, FramesInOrder
<1>6. StackOK
  <2>1. CallsNested
    BY <1>1, <1>3 DEF CallsNested
  <2>2. handed \in Results
    BY <1>1, EmptySeq, RecvAssumption DEF Results, Bodies
  <2> QED
    BY <1>1, <1>3, <2>1, <2>2, EmptySeq, RecvAssumption DEF StackOK
<1>7. Gapless /\ RepliesAwaited /\ ContentAnnounced
  BY <1>4 DEF Gapless, RepliesAwaited, ContentAnnounced
<1>8. ReadSoFar /\ LineExpected
  BY <1>1 DEF ReadSoFar, LineExpected, InDelivery
<1> QED
  BY <1>5, <1>6, <1>7, <1>8, IInvParts

(* Every step keeps it. *)
LEMMA NextIInv ==
    ASSUME IInv, [Next]_vars
    PROVE  IInv'
<1>1. CASE UNCHANGED vars
  <2>1. UNCHANGED <<connected, link, out, sock, inbuf, queued, msgs, stack, handed>>
    BY <1>1 DEF vars
  <2>2. WiresOK' /\ Gapless' /\ \A c \in Channels : Line(c)' = Line(c)
    BY <2>1, NoFrameMoves
  <2>3. /\ WiresOK /\ StackOK /\ RepliesAwaited /\ ReadSoFar /\ LineExpected /\ ContentAnnounced
    BY IInvParts
  <2>4. StackOK'
    BY <2>1, <2>3 DEF StackOK, CallsNested, Top, Inbound
  <2>5. /\ Top' = Top /\ Expected' = Expected /\ (InDelivery' <=> InDelivery)
        /\ \A d : Reading(d)' = Reading(d)
    BY <2>1 DEF Top, Expected, InDelivery, Reading
  <2>6. RepliesAwaited' /\ ReadSoFar' /\ ContentAnnounced'
    BY <2>1, <2>2, <2>3, <2>5 DEF RepliesAwaited, At, ReadSoFar, ContentAnnounced
  <2>7. LineExpected'
    <3>1. InDelivery => Top.ch \in Channels
      BY <2>3 DEF InDelivery, StackOK, CallsNested
    <3> QED
      BY <2>1, <2>2, <2>3, <2>5, <3>1 DEF LineExpected
  <2> QED
    BY <2>2, <2>4, <2>6, <2>7, IInvPartsNext
<1>2. CASE BrokerNext
  BY <1>2, LinkDownPreserves, DeliverPreserves, BasicReturnPreserves, ArrivePreserves DEF BrokerNext
<1>3. CASE \E t \in Timeouts : DrainEvents(t)
  BY <1>3, DrainEventsPreserves
<1>4. CASE \E c \in Channels : Rpc(c) \/ BasicGet(c) \/ BasicPublish(c)
  BY <1>4, RpcPreserves, BasicGetPreserves, BasicPublishPreserves
<1>5. CASE PollTimedOut \/ CallbackReturns
  BY <1>5, CallsReturnPreserve
<1>6. CASE Waits
  BY <1>6, PollReadyPreserves, ReadMethodPreserves, ReadHeaderPreserves, ReadBodyPreserves,
     ReadReplyPreserves, PublishReturnsPreserves DEF Waits
<1>7. CASE CloseCall
  BY <1>7, CloseCallPreserves
<1> QED
  BY <1>1, <1>2, <1>3, <1>4, <1>5, <1>6, <1>7 DEF Next

(* IInv is an invariant: types, and the lines of frames with what has been     *)
(* read of them, for any channels, any number of messages of any size, and any *)
(* depth of calls within calls.                                                *)
THEOREM LinesAreKept == Spec => []IInv
<1>1. Init => IInv
  BY InitIInv
<1>2. IInv /\ [Next]_vars => IInv'
  BY NextIInv
<1> QED
  BY <1>1, <1>2, PTL DEF Spec

(* The types, and that a closed connection has no frame and no memory that a   *)
(* running callback could still be reading (connection.c, PyRabbitMQ_Connection_close).  *)
THEOREM TypesAreKept == Spec => []TypeOK
<1>1. IInv => TypeOK
  BY DEF IInv
<1> QED
  BY <1>1, LinesAreKept, PTL
=============================================================================
