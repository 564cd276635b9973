------------------------- MODULE ChannelErrorProofs -------------------------
(* Proofs about Channels, continued: what becomes of a channel.close, and    *)
(* which deliveries reach their callback.                                    *)
(*                                                                           *)
(* The invariant Accounted speaks of frames that are still to be read, and   *)
(* of where they are: what rabbitmq-c has put aside (queued) is taken by     *)
(* drain_events and basic_get only, so a channel.close, or a frame nobody    *)
(* waits for, stays there until it ends the session.  As in ChannelsProofs,  *)
(* one relation (Tidy) says what all calls agree in.                         *)
EXTENDS ChannelsProofs

USE BrokerAssumption, ChannelsAssumption

In(s, f) == \E i \in DOMAIN s : s[i] = f
Unread(f) == In(queued, f) \/ In(wire, f)
Ending(f) == f.kind \in {"chclose", "other"}

Pending(c) == \E f \in Frames : IsClose(f, c) /\ Unread(f)
EndingQueued(c) == \E f \in Frames : f.ch = c /\ Ending(f) /\ In(queued, f)

ClosePending ==
    InSession => \A c \in Ids \ lost : bchan[c] = "closing" => Pending(c)

FreeAccounted ==
    ~ExplicitIds /\ InSession =>
        \A c \in FreeIds \ lost : bchan[c] = "closed" \/ EndingQueued(c)

ErrorRevived ==
    InSession /\ ret.res = "ChannelError" =>
        /\ ret.ch \in Ids
        /\ bcons[ret.ch] = {}
        /\ bchan[ret.ch] = "open" \/ Pending(ret.ch)

Accounted == ClosePending /\ FreeAccounted /\ ErrorRevived

(* A call on channel c may lose track of c itself, as basic_qos does (Loose) *)
(* or keep every channel.close that is still unanswered (Tidy).              *)
Loose(c) ==
    InSession' =>
        /\ InSession /\ channel_max' = channel_max
        /\ ret'.res = "ChannelError" =>
             ret'.ch \in Ids /\ bchan'[ret'.ch] = "open" /\ bcons'[ret'.ch] = {}
        /\ \A d \in Ids : bchan[d] = "closed" => bchan'[d] = "closed"
        /\ \A f \in Frames : Ending(f) /\ In(queued, f) => In(queued, f)'
        /\ \A d \in Ids : d # c /\ bchan'[d] = "closing" => bchan[d] = "closing"
        /\ \A f \in Frames : f.kind = "chclose" /\ f.ch # c /\ Unread(f) => Unread(f)'

Tidy(c) ==
    /\ Loose(c)
    /\ InSession' /\ bchan'[c] = "closing" =>
         /\ bchan[c] = "closing"
         /\ \A f \in Frames : IsClose(f, c) /\ Unread(f) => Unread(f)'

-----------------------------------------------------------------------------
(* Membership in sequences of frames. *)
LEMMA InConcat ==
    ASSUME NEW s \in Seq(Frames), NEW t \in Seq(Frames), NEW f
    PROVE  In(s \o t, f) <=> In(s, f) \/ In(t, f)
<1>1. /\ s \o t \in Seq(Frames) /\ Len(s \o t) = Len(s) + Len(t)
      /\ \A i \in 1..Len(s) + Len(t) : (s \o t)[i] = IF i <= Len(s) THEN s[i] ELSE t[i - Len(s)]
  BY ConcatProperties
<1>2. /\ DOMAIN s = 1..Len(s) /\ Len(s) \in Nat /\ DOMAIN t = 1..Len(t) /\ Len(t) \in Nat
      /\ DOMAIN (s \o t) = 1..(Len(s) + Len(t))
  BY <1>1, LenProperties
<1>3. ASSUME NEW i \in 1..Len(s) PROVE i \in 1..(Len(s) + Len(t)) /\ (s \o t)[i] = s[i]
  BY <1>1, <1>2
<1>4. ASSUME NEW j \in 1..Len(t)
      PROVE  Len(s) + j \in 1..(Len(s) + Len(t)) /\ (s \o t)[Len(s) + j] = t[j]
  <2>1. Len(s) + j \in 1..(Len(s) + Len(t)) /\ ~(Len(s) + j <= Len(s)) /\ Len(s) + j - Len(s) = j
    BY <1>2
  <2> QED
    BY <1>1, <2>1
<1>5. ASSUME NEW i \in 1..(Len(s) + Len(t))
      PROVE  \/ i \in 1..Len(s) /\ (s \o t)[i] = s[i]
             \/ i - Len(s) \in 1..Len(t) /\ (s \o t)[i] = t[i - Len(s)]
  BY <1>1, <1>2
<1> DEFINE u == s \o t
<1>6. DOMAIN u = 1..(Len(s) + Len(t))
  BY <1>2
<1> HIDE DEF u
<1>7. ASSUME In(u, f) PROVE In(s, f) \/ In(t, f)
  BY <1>2, <1>5, <1>6, <1>7 DEF In, u
<1>8. ASSUME In(s, f) PROVE In(u, f)
  BY <1>2, <1>3, <1>6, <1>8 DEF In, u
<1>9. ASSUME In(t, f) PROVE In(u, f)
  BY <1>2, <1>4, <1>6, <1>9 DEF In, u
<1> QED
  BY <1>7, <1>8, <1>9 DEF u

(* What is inbound is what is unread. *)
LEMMA InInbound ==
    ASSUME BrokerTypeOK, NEW f
    PROVE  In(Inbound, f) <=> Unread(f)
BY InConcat DEF Inbound, Unread, BrokerTypeOK

(* Pending, and what FreeIdIsClosed asks for, in terms of positions. *)
LEMMA PendingIsInbound ==
    ASSUME BrokerTypeOK, NEW c \in Ids
    PROVE  /\ Pending(c) <=> \E n \in DOMAIN Inbound : IsClose(Inbound[n], c)
           /\ EndingQueued(c) => \E n \in DOMAIN Inbound :
                Inbound[n].ch = c /\ Inbound[n].kind \in {"chclose", "other"}
BY InboundType, InInbound DEF Pending, EndingQueued, In, Unread, Ending

(* An empty sequence has nothing in it. *)
LEMMA InEmpty == \A f : ~In(<< >>, f)
BY DEF In

(* A segment holds nothing that the whole did not. *)
LEMMA InSegment ==
    ASSUME NEW s \in Seq(Frames), NEW m \in Nat, NEW n \in Nat, m >= 1, n <= Len(s), NEW f
    PROVE  In(SubSeq(s, m, n), f) <=> \E i \in m..n : s[i] = f
<1>1. \A i \in m..n : i \in 1..Len(s) /\ s[i] \in Frames
  <2> TAKE i \in m..n
  <2>1. i \in 1..Len(s)
    BY LenProperties
  <2> QED
    BY <2>1, ElementOfSeq
<1>2. /\ SubSeq(s, m, n) \in Seq(Frames)
      /\ Len(SubSeq(s, m, n)) = IF m <= n THEN n - m + 1 ELSE 0
      /\ \A i \in 1..(n - m + 1) : SubSeq(s, m, n)[i] = s[m + i - 1]
  BY <1>1, SubSeqProperties
<1>3. DOMAIN SubSeq(s, m, n) = 1..(IF m <= n THEN n - m + 1 ELSE 0)
  BY <1>2, LenProperties
<1>4. ASSUME NEW i \in m..n
      PROVE  i - m + 1 \in DOMAIN SubSeq(s, m, n) /\ SubSeq(s, m, n)[i - m + 1] = s[i]
  <2>1. i - m + 1 \in 1..(n - m + 1) /\ m <= n /\ m + (i - m + 1) - 1 = i
    BY <1>1
  <2> QED
    BY <1>2, <1>3, <2>1
<1>5. ASSUME NEW j \in DOMAIN SubSeq(s, m, n)
      PROVE  m + j - 1 \in m..n /\ SubSeq(s, m, n)[j] = s[m + j - 1]
  <2>1. j \in 1..(n - m + 1) /\ m + j - 1 \in m..n
    BY <1>3
  <2> QED
    BY <1>2, <2>1
<1> QED
  BY <1>4, <1>5 DEF In

(* Taking the frame at i out leaves all the others. *)
LEMMA InWithout ==
    ASSUME NEW s \in Seq(Frames), NEW i \in 1..Len(s), NEW f, In(s, f), f # s[i]
    PROVE  In(SubSeq(s, 1, i - 1), f) \/ In(SubSeq(s, i + 1, Len(s)), f)
<1>1. Len(s) \in Nat /\ DOMAIN s = 1..Len(s)
  BY LenProperties
<1>2. PICK j \in 1..Len(s) : s[j] = f
  BY <1>1 DEF In
<1>3. j \in 1..(i - 1) \/ j \in (i + 1)..Len(s)
  BY <1>1, <1>2
<1>4. i - 1 \in Nat /\ i + 1 \in Nat /\ i - 1 <= Len(s) /\ i + 1 >= 1
  BY <1>1
<1> QED
  BY <1>1, <1>2, <1>3, <1>4, InSegment

-----------------------------------------------------------------------------
(* What Result makes of a channel. *)
LEMMA ResultChannel ==
    ASSUME NEW r, NEW c
    PROVE  /\ Result(r, c).res = r
           /\ r = "ChannelError" => Result(r, c).ch = c
BY DEF Result

(* A call that only returns is tidy, whatever it was about. *)
LEMMA ReturnTidy ==
    ASSUME NEW r, NEW d, r # "ChannelError", Return(r, d), NEW c \in Ids
    PROVE  Tidy(c)
BY ResultChannel DEF Return, Tidy, Loose, InSession, Unread, connVars, brokerVars

(* So is one that ends the session. *)
LEMMA FailTidy ==
    ASSUME ConnectionTypeOK, ConsumersOpen, NEW r \in Results, NEW d \in Ids \cup {0},
           Fail(r, d), NEW c \in Ids
    PROVE  Tidy(c)
<1>1. ~InSession'
  BY FailFine DEF InSession
<1> QED
  BY <1>1 DEF Tidy, Loose

(* Reading on puts aside what was on the wire. *)
LEMMA ReadOnKeeps ==
    ASSUME BrokerTypeOK, ReadOn
    PROVE  /\ \A f : Unread(f)' <=> Unread(f)
           /\ \A f : In(queued, f) => In(queued, f)'
<1>1. queued \in Seq(Frames) /\ wire \in Seq(Frames)
  BY DEF BrokerTypeOK
<1>2. \A f : In(queued, f)' <=> In(queued, f) \/ In(wire, f)
  BY <1>1, InConcat DEF ReadOn
<1>3. \A f : ~In(wire, f)'
  BY InEmpty DEF ReadOn
<1> QED
  BY <1>2, <1>3 DEF Unread

(* A channel.close met on the wire is the only frame to go. *)
LEMMA MetKeeps ==
    ASSUME BrokerTypeOK, NEW c \in Ids, NEW i \in ClosesOnWire(c), NEW f \in Frames
    PROVE  /\ i \in 1..Len(wire)
           /\ In(wire, f) /\ ~IsClose(f, c) =>
                In(SubSeq(wire, 1, i - 1), f) \/ In(SubSeq(wire, i + 1, Len(wire)), f)
           /\ SubSeq(wire, 1, i - 1) \in Seq(Frames)
           /\ SubSeq(wire, i + 1, Len(wire)) \in Seq(Frames)
<1>1. wire \in Seq(Frames) /\ Len(wire) \in Nat
  BY LenProperties DEF BrokerTypeOK
<1>2. i \in 1..Len(wire) /\ IsClose(wire[i], c)
  BY <1>1, LenProperties DEF ClosesOnWire
<1>3. In(wire, f) /\ ~IsClose(f, c) =>
        In(SubSeq(wire, 1, i - 1), f) \/ In(SubSeq(wire, i + 1, Len(wire)), f)
  BY <1>1, <1>2, InWithout
<1> QED
  BY <1>1, <1>2, <1>3, SegmentType

(* A channel that is reopened loses its own channel.close and nothing else. *)
LEMMA ReopenedTidy ==
    ASSUME ConnectionTypeOK, NEW c \in Ids, NEW stray \in Seq(Frames), bchan[c] # "closed",
           Reopened(c, stray), UNCHANGED connVars, NEW r, ret' = Result(r, c)
    PROVE  Tidy(c)
<1>1. /\ BrokerTypeOK
      /\ queued \in Seq(Frames) /\ wire \in Seq(Frames)
  BY DEF ConnectionTypeOK, BrokerTypeOK
<1>2. \A f \in Frames : In(queued, f) => In(queued, f)'
  <2>1. CASE queued' = queued \o wire \o stray
    BY <1>1, <2>1, InConcat, ConcatProperties
  <2>2. ASSUME NEW i \in ClosesOnWire(c), queued' = queued \o Without(wire, i) \o stray
        PROVE  <1>2
    <3>1. Without(wire, i) \in Seq(Frames)
      BY <1>1, WithoutType, LenProperties DEF ClosesOnWire
    <3> QED
      BY <1>1, <2>2, <3>1, InConcat, ConcatProperties
  <2> QED
    BY <2>1, <2>2 DEF Reopened
<1>3. \A f \in Frames : ~IsClose(f, c) /\ In(wire, f) => In(queued, f)'
  <2>1. CASE queued' = queued \o wire \o stray
    BY <1>1, <2>1, InConcat, ConcatProperties
  <2>2. ASSUME NEW i \in ClosesOnWire(c), queued' = queued \o Without(wire, i) \o stray
        PROVE  <1>3
    <3> SUFFICES ASSUME NEW f \in Frames, ~IsClose(f, c), In(wire, f)
                 PROVE  In(queued, f)'
      OBVIOUS
    <3>1. /\ Without(wire, i) \in Seq(Frames)
          /\ In(SubSeq(wire, 1, i - 1), f) \/ In(SubSeq(wire, i + 1, Len(wire)), f)
          /\ SubSeq(wire, 1, i - 1) \in Seq(Frames)
          /\ SubSeq(wire, i + 1, Len(wire)) \in Seq(Frames)
      BY <1>1, MetKeeps, WithoutType
    <3>2. In(Without(wire, i), f)
      BY <3>1, InConcat DEF Without
    <3> QED
      BY <1>1, <2>2, <3>1, <3>2, InConcat, ConcatProperties
  <2> QED
    BY <2>1, <2>2 DEF Reopened
<1>4. /\ link = "up" /\ link' = link
      /\ bchan' = [bchan EXCEPT ![c] = "open"]
      /\ bcons' = [bcons EXCEPT ![c] = {}]
  BY DEF Reopened
<1>5. /\ bchan'[c] = "open" /\ bcons'[c] = {}
      /\ \A d \in Ids : d # c => bchan'[d] = bchan[d]
  BY <1>1, <1>4 DEF BrokerTypeOK
<1>6. \A f \in Frames : f.kind = "chclose" /\ f.ch # c /\ Unread(f) => Unread(f)'
  BY <1>2, <1>3 DEF Unread, IsClose
<1>7. /\ InSession' => InSession
      /\ channel_max' = channel_max
      /\ ret'.res = "ChannelError" => ret'.ch = c
  BY <1>4, ResultChannel DEF InSession, connVars
<1> QED
  BY <1>2, <1>5, <1>6, <1>7 DEF Tidy, Loose

(* An RPC that succeeds on an open channel. *)
LEMMA AnsweredTidy ==
    ASSUME ConnectionTypeOK, NEW c \in Ids, NEW cons, Answered(c, cons), UNCHANGED connVars,
           NEW r, r # "ChannelError", NEW d, ret' = Result(r, d)
    PROVE  Tidy(c)
<1>1. BrokerTypeOK /\ ReadOn /\ UNCHANGED <<link, bchan>>
  BY DEF ConnectionTypeOK, Answered
<1> QED
  BY <1>1, ReadOnKeeps, ResultChannel DEF Tidy, Loose, InSession, connVars, Ending, IsClose

(* The handlers of failed calls. *)
LEMMA ReviveTidy ==
    ASSUME ConnectionTypeOK, ConsumersOpen, NEW c \in Ids, NEW r, ReviveChannel(c, r)
    PROVE  Tidy(c)
<1>1. << >> \in Seq(Frames)
  BY EmptySeq
<1>2. CASE Fail("ConnectionError", c)
  BY <1>2, FailTidy DEF Results
<1>3. CASE bchan[c] = "closing" /\ Reopened(c, <<>>) /\ ret' = Result(r, c) /\ UNCHANGED connVars
  BY <1>1, <1>3, ReopenedTidy
<1> QED
  BY <1>2, <1>3 DEF ReviveChannel

(* So is the answer to a channel.close, *)
LEMMA ChannelErrorTidy ==
    ASSUME ConnectionTypeOK, ConsumersOpen, NEW c \in Ids, NEW stray \in Seq(Frames),
           bchan[c] # "closed", ChannelErrorRevive(c, stray)
    PROVE  Tidy(c)
<1>1. CASE Fail("ConnectionError", c)
  BY <1>1, FailTidy DEF Results
<1>2. CASE Reopened(c, stray) /\ ret' = Result("ChannelError", c) /\ UNCHANGED connVars
  BY <1>2, ReopenedTidy
<1> QED
  BY <1>1, <1>2 DEF ChannelErrorRevive

(* which comes on a channel that is not closed, *)
LEMMA CloseMeansNotClosed ==
    ASSUME NEW c, "channel.close" \in Replies(c)
    PROVE  bchan[c] # "closed"
BY DEF Replies

(* and the handling of every reply that is not a success. *)
LEMMA HandleAMQErrorTidy ==
    ASSUME ConnectionTypeOK, ConsumersOpen, NEW c \in Ids, NEW reply \in Replies(c),
           HandleAMQError(c, reply)
    PROVE  Tidy(c)
<1>1. << >> \in Seq(Frames)
  BY EmptySeq
<1>2. CASE reply = "channel.close" /\ ChannelErrorRevive(c, <<>>)
  BY <1>1, <1>2, CloseMeansNotClosed, ChannelErrorTidy
<1>3. CASE Fail("ConnectionError", c)
  BY <1>3, FailTidy DEF Results
<1>4. CASE Return("hang", c)
  BY <1>4, ReturnTidy
<1> QED
  BY <1>2, <1>3, <1>4 DEF HandleAMQError, Silence

(* Every RPC method is tidy, *)
LEMMA MethodTidy ==
    ASSUME ConnectionTypeOK, ConsumersOpen, NEW c \in Ids, NEW cons, NEW r, r # "ChannelError",
           Method(c, cons, r)
    PROVE  Tidy(c)
<1>1. CASE Return("ConnectionError", c)
  BY <1>1, ReturnTidy
<1>2. ASSUME Answered(c, cons), ret' = Result(r, c), UNCHANGED connVars PROVE Tidy(c)
  BY <1>2, AnsweredTidy
<1>3. ASSUME NEW reply \in Replies(c), HandleAMQError(c, reply) PROVE Tidy(c)
  BY <1>3, HandleAMQErrorTidy
<1> QED
  BY <1>1, <1>2, <1>3 DEF Method

(* which converts something first or not, *)
LEMMA EncodingMethodTidy ==
    ASSUME ConnectionTypeOK, ConsumersOpen, NEW c \in Ids, NEW cons, NEW r, r # "ChannelError",
           EncodingMethod(c, cons, r)
    PROVE  Tidy(c)
BY ReturnTidy, MethodTidy DEF EncodingMethod

(* and so is every method without a reply. *)
LEMMA PostTidy ==
    ASSUME ConnectionTypeOK, ConsumersOpen, NEW c \in Ids, Post(c)
    PROVE  Tidy(c)
BY ReturnTidy, ReviveTidy DEF Post

(* basic_get takes a content frame, or ends the session. *)
LEMMA GetTidy ==
    ASSUME ConnectionTypeOK, ConsumersOpen, NEW c \in Ids, BasicGet(c)
    PROVE  Tidy(c)
<1> DEFINE content == Frame("content", c, None)
           frames == Append(Inbound, content)
<1>1. CASE Return("ConnectionError", c) \/ Return("raised", c)
  BY <1>1, ReturnTidy
<1>2. ASSUME NEW reply \in Replies(c), HandleAMQError(c, reply) PROVE Tidy(c)
  BY <1>2, HandleAMQErrorTidy
<1>3. CASE GetEmpty(c)
  BY <1>3, AnsweredTidy DEF GetEmpty
<1>4. /\ BrokerTypeOK /\ queued \in Seq(Frames) /\ wire \in Seq(Frames)
      /\ Inbound \in Seq(Frames) /\ content \in Frames
  BY InboundType, FrameType DEF ConnectionTypeOK, BrokerTypeOK, FrameKinds
<1>5. \A f : In(Inbound, f) <=> Unread(f)
  BY <1>4, InInbound
<1>6. ASSUME UNCHANGED <<connVars, link, bchan, bcons>>, NEW r, r # "ChannelError",
             ret' = Result(r, c),
             \A f \in Frames : Ending(f) /\ Unread(f) => In(queued, f)'
      PROVE  Tidy(c)
  BY <1>6, ResultChannel DEF Tidy, Loose, InSession, connVars, Ending, IsClose, Unread
<1>7. CASE GetWithoutContent(c)
  <2>1. \A f : Unread(f) => In(queued, f)'
    BY <1>5, <1>7 DEF GetWithoutContent
  <2> QED
    BY <1>6, <1>7, <2>1 DEF GetWithoutContent
<1>8. CASE GetWithContent(c)
  <2>1. frames \in Seq(Frames) /\ frames # <<>>
    BY <1>4
  <2>2. Head(frames) \in Frames /\ Tail(frames) \in Seq(Frames)
    BY <2>1, HeadTailProperties
  <2>3. CASE /\ Head(frames).kind = "content" /\ queued' = Tail(frames)
             /\ ret' = Result("message", c) /\ UNCHANGED <<connVars, link, bchan, bcons>>
    <3>1. Tail(frames) = SubSeq(frames, 2, Len(frames))
      BY <2>1, TailIsSubSeq
    <3>2. Len(frames) \in Nat \ {0} /\ DOMAIN frames = 1..Len(frames)
      BY <2>1, EmptySeq, LenProperties
    <3> HIDE DEF frames
    <3>0. Head(frames) = frames[1]
      BY <2>1
    <3>3. ASSUME NEW f \in Frames, Ending(f), Unread(f) PROVE In(queued, f)'
      <4>1. PICK i \in DOMAIN Inbound : Inbound[i] = f
        BY <1>5, <3>3 DEF In
      <4>2. i \in 1..Len(frames) /\ frames[i] = f
        BY <1>4, <4>1, AppendProperties, LenProperties DEF frames
      <4>3. i # 1
        BY <2>3, <3>0, <3>3, <4>2 DEF Ending
      <4>4. i \in 2..Len(frames) /\ 2 \in Nat
        BY <3>2, <4>2, <4>3
      <4>5. \E j \in 2..Len(frames) : frames[j] = f
        BY <4>2, <4>4
      <4>6. Len(frames) \in Nat /\ 2 \in Nat /\ 2 >= 1 /\ Len(frames) <= Len(frames)
        BY <3>2
      <4>7. In(SubSeq(frames, 2, Len(frames)), f)
        BY <2>1, <4>5, <4>6, InSegment
      <4> QED
        BY <2>3, <3>1, <4>7
    <3> QED
      BY <1>6, <2>3, <3>3
  <2>4. CASE Fail("ConnectionError", c)
    BY <2>4, FailTidy DEF Results
  <2>5. CASE Fail("ChannelError", Head(frames).ch)
    BY <2>2, <2>5, FailTidy DEF Results, Frames
  <2> QED
    BY <1>8, <2>3, <2>4, <2>5 DEF GetWithContent
<1> QED
  BY <1>1, <1>2, <1>3, <1>7, <1>8 DEF BasicGet

(* basic_qos is not: it may leave the channel closing and its channel.close  *)
(* read.                                                                     *)
LEMMA QosLoose ==
    ASSUME ConnectionTypeOK, ConsumersOpen, NEW c \in Ids, BasicQos(c)
    PROVE  Loose(c) /\ (InSession' => ret'.res # "ChannelError" /\ (ret'.res # "ok" => Tidy(c)))
<1>1. CASE Return("ConnectionError", c)
  BY <1>1, ReturnTidy, ResultChannel DEF Tidy, Return
<1>2. BrokerTypeOK
  BY DEF ConnectionTypeOK
<1>3. CASE Answered(c, bcons[c]) /\ ret' = Result("ok", c) /\ UNCHANGED connVars
  BY <1>3, AnsweredTidy, ResultChannel DEF Tidy
<1>4. CASE Refused(c) /\ ret' = Result("ok", c) /\ UNCHANGED connVars
  <2>1. /\ \A d \in Ids : d # c => bchan'[d] = bchan[d]
        /\ bchan[c] = "open"
        /\ ReadOn /\ link' = link
    BY <1>2, <1>4 DEF Refused, BrokerTypeOK
  <2> QED
    BY <1>2, <1>4, <2>1, ReadOnKeeps, ResultChannel DEF Loose, InSession, connVars, Ending
<1>5. CASE CloseMet(c) /\ ret' = Result("ok", c) /\ UNCHANGED connVars
  <2>1. PICK i \in ClosesOnWire(c) :
          /\ queued' = queued \o SubSeq(wire, 1, i - 1)
          /\ wire' = SubSeq(wire, i + 1, Len(wire))
    BY <1>5 DEF CloseMet
  <2>2. /\ \A f \in Frames : In(queued, f) => In(queued, f)'
        /\ \A f \in Frames : In(wire, f) /\ ~IsClose(f, c) => Unread(f)'
    <3> SUFFICES ASSUME NEW f \in Frames
                 PROVE  /\ In(queued, f) => In(queued, f)'
                        /\ In(wire, f) /\ ~IsClose(f, c) => Unread(f)'
      OBVIOUS
    <3> DEFINE before == SubSeq(wire, 1, i - 1)
               after == SubSeq(wire, i + 1, Len(wire))
    <3>1. /\ before \in Seq(Frames) /\ after \in Seq(Frames)
          /\ In(wire, f) /\ ~IsClose(f, c) => In(before, f) \/ In(after, f)
      BY <1>2, MetKeeps
    <3>2. queued \in Seq(Frames) /\ queued' = queued \o before /\ wire' = after
      BY <1>2, <2>1 DEF BrokerTypeOK
    <3> HIDE DEF before, after
    <3>3. In(queued, f)' <=> In(queued, f) \/ In(before, f)
      BY <3>1, <3>2, InConcat
    <3>4. In(wire, f)' <=> In(after, f)
      BY <3>2
    <3> QED
      BY <3>1, <3>3, <3>4 DEF Unread
  <2>3. UNCHANGED <<link, bchan>>
    BY <1>5 DEF CloseMet
  <2> QED
    BY <1>5, <2>2, <2>3, ResultChannel DEF Loose, InSession, connVars, Ending, IsClose, Unread
<1>6. CASE link' = "down"
  BY <1>6 DEF Loose, InSession
<1>7. CASE UNCHANGED <<brokerVars, connVars>> /\ ret' = Result("qos hang", c)
  BY <1>7, ReturnTidy, ResultChannel DEF Return, Tidy
<1> QED
  BY <1>1, <1>3, <1>4, <1>5, <1>6, <1>7 DEF BasicQos

(* Consuming *)
LEMMA ConsumeTidy ==
    ASSUME ConnectionTypeOK, ConsumersOpen, NEW c \in Ids, NEW t, NEW r, r # "ChannelError",
           ConsumeRpc(c, t, r)
    PROVE  Tidy(c)
<1>1. CASE Return("ConnectionError", c) \/ Return("raised", c)
  BY <1>1, ReturnTidy
<1>2. CASE Fail("ConnectionError", c)
  BY <1>2, FailTidy DEF Results
<1>3. CASE EncodingMethod(c, bcons[c] \cup {t}, r)
  BY <1>3, EncodingMethodTidy
<1> QED
  BY <1>1, <1>2, <1>3 DEF ConsumeRpc

(* and cancelling are RPCs like the others. *)
LEMMA CancelTidy ==
    ASSUME ConnectionTypeOK, ConsumersOpen, NEW c \in Ids, NEW t, CancelRpc(c, t)
    PROVE  Tidy(c)
BY ReturnTidy, MethodTidy DEF CancelRpc

(* Closing a channel loses nothing that was sent. *)
LEMMA ClosedTidy ==
    ASSUME ConnectionTypeOK, NEW c \in Ids, Closed(c), UNCHANGED connVars,
           ret' = Result("ok", c)
    PROVE  Tidy(c)
<1>1. /\ BrokerTypeOK /\ ReadOn /\ link' = link
      /\ \A d \in Ids : bchan'[d] = bchan[d] \/ bchan'[d] = "closed"
  BY DEF ConnectionTypeOK, BrokerTypeOK, Closed
<1> QED
  BY <1>1, ReadOnKeeps, ResultChannel DEF Tidy, Loose, InSession, connVars, Ending, IsClose

(* Nor does a delivery that is dispatched: what stood before it were         *)
(* contents.                                                                 *)
LEMMA DispatchTidy ==
    ASSUME ConnectionTypeOK, NEW n \in DOMAIN Inbound, FirstMethod(n), Dispatch(n), NEW c \in Ids
    PROVE  Tidy(c)
<1>1. /\ BrokerTypeOK /\ queued \in Seq(Frames) /\ wire \in Seq(Frames)
      /\ Len(queued) \in Nat /\ Len(wire) \in Nat
      /\ DOMAIN queued = 1..Len(queued) /\ DOMAIN wire = 1..Len(wire)
  BY LenProperties DEF ConnectionTypeOK, BrokerTypeOK
<1>2. n \in Nat /\ n >= 1 /\ Len(Inbound) = Len(queued) + Len(wire)
  BY <1>1, InboundType, ConcatProperties DEF Inbound
<1>3. \A i \in 1..(Len(queued) + Len(wire)) :
        Inbound[i] = IF i <= Len(queued) THEN queued[i] ELSE wire[i - Len(queued)]
  BY <1>1, ConcatProperties DEF Inbound
<1>4. \A i \in 1..n : ~Ending(Inbound[i])
  <2> TAKE i \in 1..n
  <2>1. i = n \/ i \in 1..(n - 1)
    BY <1>2
  <2> QED
    BY <2>1 DEF FirstMethod, Dispatch, Ending
<1> DEFINE k == (IF n > Len(queued) THEN n - Len(queued) ELSE 0) + 1
<1>5. ASSUME NEW f \in Frames, Ending(f), In(queued, f) PROVE In(queued, f)'
  <2>1. PICK i \in 1..Len(queued) : queued[i] = f
    BY <1>1, <1>5 DEF In
  <2>2. Inbound[i] = f
    BY <1>1, <1>3, <2>1
  <2>3. i \in (n + 1)..Len(queued)
    BY <1>1, <1>2, <1>4, <1>5, <2>1, <2>2
  <2>4. n + 1 \in Nat /\ n + 1 >= 1 /\ Len(queued) <= Len(queued)
    BY <1>1, <1>2
  <2>5. In(SubSeq(queued, n + 1, Len(queued)), f)
    BY <1>1, <2>1, <2>3, <2>4, InSegment
  <2> QED
    BY <2>5 DEF Dispatch, Take
<1>6. ASSUME NEW f \in Frames, Ending(f), In(wire, f) PROVE In(wire, f)'
  <2>1. PICK j \in 1..Len(wire) : wire[j] = f
    BY <1>1, <1>6 DEF In
  <2>2. Inbound[Len(queued) + j] = f
    <3>1. /\ Len(queued) + j \in 1..(Len(queued) + Len(wire))
          /\ ~(Len(queued) + j <= Len(queued)) /\ Len(queued) + j - Len(queued) = j
      BY <1>1
    <3> QED
      BY <1>3, <2>1, <3>1
  <2>3. ~(Len(queued) + j \in 1..n)
    BY <1>4, <1>6, <2>2
  <2>4. j \in k..Len(wire) /\ k \in Nat /\ k >= 1 /\ Len(wire) <= Len(wire)
    BY <1>1, <1>2, <2>3
  <2> HIDE DEF k
  <2>5. In(SubSeq(wire, k, Len(wire)), f)
    BY <1>1, <2>1, <2>4, InSegment
  <2> QED
    BY <2>5 DEF Dispatch, Take, k
<1> QED
  BY <1>5, <1>6, ResultChannel DEF Dispatch, Tidy, Loose, InSession, connVars, Ending,
     IsClose, Unread

-----------------------------------------------------------------------------
(* A tidy call keeps the account, if the ids it gives back are accounted for.*)
LEMMA TidyAccounted ==
    ASSUME ConnectionTypeOK, Accounted, NEW c \in Ids, Tidy(c), UNCHANGED lost,
           ~ExplicitIds /\ InSession' =>
             \A d \in FreeIds' \ lost : d \in FreeIds \/ bchan'[d] = "closed" \/ EndingQueued(d)'
    PROVE  Accounted'
<1>1. ClosePending'
  <2> SUFFICES ASSUME InSession', NEW d \in Ids \ lost, bchan'[d] = "closing"
               PROVE  Pending(d)'
    BY DEF ClosePending
  <2>1. InSession /\ bchan[d] = "closing"
    BY DEF Tidy, Loose
  <2>2. PICK f \in Frames : IsClose(f, d) /\ Unread(f)
    BY <2>1 DEF Accounted, ClosePending, Pending
  <2>3. Unread(f)'
    BY <2>2 DEF Tidy, Loose, IsClose
  <2> QED
    BY <2>2, <2>3 DEF Pending
<1>2. FreeAccounted'
  <2> SUFFICES ASSUME ~ExplicitIds, InSession', NEW d \in FreeIds' \ lost, d \in FreeIds
               PROVE  bchan'[d] = "closed" \/ EndingQueued(d)'
    BY DEF FreeAccounted
  <2>1. InSession /\ d \in Ids
    <3>1. InSession
      BY DEF Tidy, Loose
    <3>2. d \in Ids
      BY DEF FreeIds, Ids, ConnectionTypeOK
    <3> QED
      BY <3>1, <3>2
  <2>2. bchan[d] = "closed" \/ EndingQueued(d)
    BY <2>1 DEF Accounted, FreeAccounted
  <2> QED
    BY <2>1, <2>2 DEF Tidy, Loose, EndingQueued
<1>3. ErrorRevived'
  BY DEF ErrorRevived, Tidy, Loose
<1> QED
  BY <1>1, <1>2, <1>3 DEF Accounted

(* So does a step that ends the session, or finds it ended. *)
LEMMA EndedAccounted ==
    ASSUME ~InSession'
    PROVE  Accounted'
BY DEF Accounted, ClosePending, FreeAccounted, ErrorRevived

(* A call that leaves the ids in use alone gives none back. *)
LEMMA SameUsed ==
    ASSUME NEW c, Loose(c), UNCHANGED used
    PROVE  InSession' => FreeIds' = FreeIds
BY DEF Loose, FreeIds

(* A tidy call that leaves the Python layer alone keeps the account. *)
LEMMA QuietAccounted ==
    ASSUME IInv, Accounted, NEW c \in Ids, Tidy(c), UNCHANGED <<used, lost>>
    PROVE  Accounted'
<1>1. InSession' => FreeIds' = FreeIds
  BY SameUsed DEF Tidy
<1> QED
  BY <1>1, TidyAccounted DEF IInv, TypeOK

(* What IInv gives the lemmas on calls. *)
LEMMA TypesOfCalls ==
    ASSUME IInv
    PROVE  ConnectionTypeOK /\ ConsumersOpen /\ 1 \in Ids
BY DEF IInv, TypeOK, Ids

(* Closing the connection, or only returning, keeps it. *)
LEMMA FailAccounted ==
    ASSUME IInv, NEW r \in Results, NEW d \in Ids \cup {0}, Fail(r, d)
    PROVE  Accounted'
BY TypesOfCalls, FailFine, EndedAccounted DEF InSession

(* A method that only returns, and not because of a channel error, keeps it.  *)
LEMMA ReturnAccounted ==
    ASSUME IInv, Accounted, NEW r, NEW d, r # "ChannelError", Return(r, d),
           UNCHANGED <<used, lost>>
    PROVE  Accounted'
BY TypesOfCalls, ReturnTidy, QuietAccounted

(* The methods of Channel that only call the connection's. *)
LEMMA RpcAccounted ==
    ASSUME IInv, Accounted, NEW o \in Objs, Rpc(o)
    PROVE  Accounted'
<1>1. PICK c \in Ids : c = objs[o].id
  BY HeldId DEF IInv, Rpc
<1>2. \/ QueueBind(c) \/ QueueUnbind(c) \/ QueueDeclare(c) \/ QueueDelete(c)
      \/ QueuePurge(c) \/ ExchangeDeclare(c) \/ ExchangeDelete(c) \/ Flow(c)
      \/ BasicRecover(c) \/ BasicGet(c) \/ BasicPublish(c) \/ BasicAck(c)
      \/ BasicReject(c)
  BY <1>1 DEF Rpc
<1>3. Tidy(c)
  <2>1. CASE EncodingMethod(c, bcons[c], "ok")
    BY <2>1, TypesOfCalls, EncodingMethodTidy
  <2>2. CASE Method(c, bcons[c], "ok")
    BY <2>2, TypesOfCalls, MethodTidy
  <2>3. CASE BasicGet(c)
    BY <2>3, TypesOfCalls, GetTidy
  <2>4. CASE Post(c)
    BY <2>4, TypesOfCalls, PostTidy
  <2>5. CASE Return("raised", c)
    BY <2>5, ReturnTidy
  <2> QED
    BY <1>2, <2>1, <2>2, <2>3, <2>4, <2>5 DEF QueueBind, QueueUnbind, QueueDeclare,
       QueueDelete, QueuePurge, ExchangeDeclare, ExchangeDelete, Flow, BasicRecover,
       BasicPublish, BasicAck, BasicReject
<1> QED
  BY <1>3, QuietAccounted DEF Rpc, pyVars

(* basic_consume and basic_cancel. *)
LEMMA ConsumeAccounted ==
    ASSUME IInv, Accounted, NEW o \in Objs, NEW t \in Tags, BasicConsume(o, t)
    PROVE  Accounted'
<1>1. PICK c \in Ids : c = objs[o].id
  BY HeldId DEF IInv, BasicConsume
<1>2. ConsumeRpc(c, t, "ok") \/ ConsumeRpc(c, t, "raised")
  BY <1>1 DEF BasicConsume
<1>3. Tidy(c)
  BY <1>2, TypesOfCalls, ConsumeTidy
<1> QED
  BY <1>3, QuietAccounted DEF BasicConsume

(* basic_cancel, which removes the callback and sends basic.cancel.           *)
LEMMA CancelAccounted ==
    ASSUME IInv, Accounted, NEW o \in Objs, NEW t \in Tags, BasicCancel(o, t)
    PROVE  Accounted'
<1>1. PICK c \in Ids : c = objs[o].id
  BY HeldId DEF IInv, BasicCancel
<1>2. Tidy(c)
  BY <1>1, TypesOfCalls, CancelTidy DEF BasicCancel
<1> QED
  BY <1>2, QuietAccounted DEF BasicCancel

(* basic_qos: the channel.close it loses is entered as lost. *)
LEMMA QosAccounted ==
    ASSUME IInv, Accounted, NEW o \in Objs, Qos(o)
    PROVE  Accounted'
<1>1. PICK c \in Ids : c = objs[o].id
  BY HeldId DEF IInv, Qos
<1>2. /\ Loose(c)
      /\ InSession' => ret'.res # "ChannelError" /\ (ret'.res # "ok" => Tidy(c))
  BY <1>1, TypesOfCalls, QosLoose DEF Qos
<1>3. /\ lost' = IF connected /\ ret'.res = "ok" /\ bchan'[c] = "closing"
                 THEN lost \cup {c} ELSE lost
      /\ UNCHANGED used
  BY <1>1 DEF Qos
<1>4. CASE ~InSession'
  BY <1>4, EndedAccounted
<1>5. CASE InSession' /\ ret'.res # "ok"
  <2>1. Tidy(c) /\ UNCHANGED lost
    BY <1>2, <1>3, <1>5
  <2> QED
    BY <1>3, <2>1, QuietAccounted
<1>6. CASE InSession' /\ ret'.res = "ok"
  <2>1. InSession /\ lost \subseteq lost' /\ FreeIds' = FreeIds
    BY <1>2, <1>3, <1>6, SameUsed DEF Loose
  <2>2. bchan'[c] = "closing" => c \in lost'
    BY <1>3, <1>6, <2>1 DEF InSession
  <2>3. ClosePending'
    <3> SUFFICES ASSUME NEW d \in Ids \ lost', bchan'[d] = "closing"
                 PROVE  Pending(d)'
      BY DEF ClosePending
    <3>1. d # c /\ d \in Ids \ lost
      BY <2>1, <2>2
    <3>2. bchan[d] = "closing"
      BY <1>2, <1>6, <3>1 DEF Loose
    <3>3. PICK f \in Frames : IsClose(f, d) /\ Unread(f)
      BY <2>1, <3>1, <3>2 DEF Accounted, ClosePending, Pending
    <3>4. Unread(f)'
      BY <1>2, <1>6, <3>1, <3>3 DEF Loose, IsClose
    <3> QED
      BY <3>3, <3>4 DEF Pending
  <2>4. FreeAccounted'
    <3> SUFFICES ASSUME ~ExplicitIds, NEW d \in FreeIds' \ lost'
                 PROVE  bchan'[d] = "closed" \/ EndingQueued(d)'
      BY DEF FreeAccounted
    <3>1. d \in FreeIds \ lost
      BY <2>1
    <3>2. d \in Ids
      BY <3>1 DEF FreeIds, Ids, IInv, TypeOK, ConnectionTypeOK
    <3>3. bchan[d] = "closed" \/ EndingQueued(d)
      BY <2>1, <3>1 DEF Accounted, FreeAccounted
    <3> QED
      BY <1>2, <1>6, <3>2, <3>3 DEF Loose, EndingQueued
  <2>5. ErrorRevived'
    BY <1>6 DEF ErrorRevived
  <2> QED
    BY <2>3, <2>4, <2>5 DEF Accounted
<1> QED
  BY <1>4, <1>5, <1>6

(* channel(): the id of a channel that opens is in use, or was asked for. *)
LEMMA OpenAccounted ==
    ASSUME IInv, Accounted, NEW c \in Ids, NEW o \in Objs, OpenAndRegister(c, o),
           UNCHANGED lost, used \subseteq used', c \in used' \/ ExplicitIds
    PROVE  Accounted'
<1>1. ConnectionTypeOK /\ BrokerTypeOK
  BY DEF IInv, TypeOK, ConnectionTypeOK
<1>2. ASSUME Tidy(c) PROVE Accounted'
  <2>1. InSession' => FreeIds' \subseteq FreeIds
    BY <1>2 DEF Tidy, Loose, FreeIds
  <2> QED
    BY <1>1, <1>2, <2>1, TidyAccounted
<1>3. CASE Return("ConnectionError", c) \/ Return("hang", c)
  BY <1>2, <1>3, ReturnTidy
<1>4. CASE Fail("ConnectionError", c)
  BY <1>4, FailAccounted DEF Results
<1>5. CASE Opened(c) /\ ret' = Result("ok", c) /\ UNCHANGED connVars
  <2>1. /\ ReadOn /\ link' = link /\ UNCHANGED connVars /\ ret'.res = "ok"
        /\ bchan'[c] = "open"
        /\ \A d \in Ids : d # c => bchan'[d] = bchan[d]
    BY <1>1, <1>5, ResultChannel DEF Opened, BrokerTypeOK
  <2>2. InSession' => InSession /\ FreeIds' \subseteq FreeIds
    BY <2>1 DEF InSession, connVars, FreeIds
  <2>3. \A f \in Frames : (Unread(f) => Unread(f)') /\ (In(queued, f) => In(queued, f)')
    BY <1>1, <2>1, ReadOnKeeps
  <2>4. ClosePending'
    BY <2>1, <2>2, <2>3 DEF Accounted, ClosePending, Pending
  <2>5. FreeAccounted'
    <3> SUFFICES ASSUME ~ExplicitIds, InSession', NEW d \in FreeIds' \ lost
                 PROVE  bchan'[d] = "closed" \/ EndingQueued(d)'
      BY DEF FreeAccounted
    <3>1. d # c /\ d \in FreeIds \ lost /\ InSession
      BY <2>2 DEF FreeIds
    <3>2. d \in Ids
      BY <1>1, <3>1 DEF FreeIds, Ids, ConnectionTypeOK
    <3>3. bchan[d] = "closed" \/ EndingQueued(d)
      BY <3>1 DEF Accounted, FreeAccounted
    <3> QED
      BY <2>1, <2>3, <3>1, <3>2, <3>3 DEF EndingQueued
  <2>6. ErrorRevived'
    BY <2>1 DEF ErrorRevived
  <2> QED
    BY <2>4, <2>5, <2>6 DEF Accounted
<1> QED
  BY <1>3, <1>4, <1>5 DEF OpenAndRegister, ChannelOpen, Silence

(* Channel.close gives back an id that is closed at the broker, or one of    *)
(* which a frame is left over that will end the session.                     *)
LEMMA CloseChannelAccounted ==
    ASSUME IInv, Accounted, NEW o \in Objs, CloseChannel(o)
    PROVE  Accounted'
<1>1. PICK c \in Ids : c = objs[o].id
  BY HeldId DEF IInv, CloseChannel
<1>2. /\ ChannelClose(c)
      /\ used' = used \ {c} \/ used' = used
      /\ ret'.res \notin {"ok", "ChannelError"} => used' = used
      /\ UNCHANGED lost
  BY <1>1 DEF CloseChannel
<1>3. ConnectionTypeOK /\ ConsumersOpen /\ BrokerTypeOK
  BY DEF IInv, TypeOK, ConnectionTypeOK
<1>4. ASSUME Tidy(c),
             InSession' /\ c \notin lost => bchan'[c] = "closed" \/ EndingQueued(c)'
      PROVE  Accounted'
  <2>1. InSession' => FreeIds' \subseteq FreeIds \cup {c}
    BY <1>2, <1>4 DEF Tidy, Loose, FreeIds
  <2> QED
    BY <1>2, <1>3, <1>4, <2>1, TidyAccounted
<1>5. CASE Return("ConnectionError", c)
  <2>1. used' = used
    BY <1>2, <1>5, ResultChannel DEF Return
  <2> QED
    BY <1>2, <1>5, <2>1, ReturnAccounted
<1>6. CASE Fail("ConnectionError", c)
  BY <1>6, FailAccounted DEF Results
<1>7. CASE connected /\ Closed(c) /\ ret' = Result("ok", c) /\ UNCHANGED connVars
  <2>1. Tidy(c)
    BY <1>3, <1>7, ClosedTidy
  <2>2. CASE bchan'[c] = "closed"
    BY <1>4, <2>1, <2>2
  <2>3. CASE bchan[c] = "closing" /\ ClosesOnWire(c) = {}
    <3>1. ASSUME InSession', c \notin lost PROVE EndingQueued(c)'
      <4>1. PICK f \in Frames : IsClose(f, c) /\ Unread(f)
        BY <2>1, <2>3, <3>1 DEF Tidy, Loose, Accounted, ClosePending, Pending
      <4>2. ~In(wire, f)
        BY <2>3, <4>1 DEF ClosesOnWire, In
      <4>3. In(queued, f)'
        BY <1>3, <1>7, <4>1, <4>2, ReadOnKeeps DEF Closed, Unread
      <4> QED
        BY <4>1, <4>3 DEF EndingQueued, IsClose, Ending
    <3> QED
      BY <1>4, <2>1, <3>1
  <2>4. bchan[c] = "open" /\ bchan' = [bchan EXCEPT ![c] = "closed"] => bchan'[c] = "closed"
    BY <1>3 DEF BrokerTypeOK
  <2> QED
    BY <1>7, <2>2, <2>3, <2>4 DEF Closed
<1>8. CASE /\ connected /\ bchan[c] = "closing" /\ ClosesOnWire(c) # {}
           /\ ChannelErrorRevive(c, <<Frame("other", c, None)>>)
  <2> DEFINE left == Frame("other", c, None)
             stray == <<left>>
  <2>1. left \in Frames
    BY FrameType DEF FrameKinds
  <2>2. stray \in Seq(Frames) /\ In(stray, left)
    BY <2>1 DEF In
  <2>3. Tidy(c)
    BY <1>3, <1>8, <2>2, ChannelErrorTidy
  <2>4. CASE Fail("ConnectionError", c)
    BY <1>6, <2>4
  <2>5. CASE Reopened(c, stray)
    <3>1. left.ch = c /\ Ending(left)
      BY DEF Frame, Ending
    <3>2. queued \in Seq(Frames) /\ wire \in Seq(Frames)
      BY <1>3 DEF BrokerTypeOK
    <3> HIDE DEF left
    <3> HIDE DEF stray
    <3>3. In(queued, left)'
      <4>1. CASE queued' = queued \o wire \o stray
        BY <2>2, <3>2, <4>1, InConcat, ConcatProperties
      <4>2. ASSUME NEW i \in ClosesOnWire(c), queued' = queued \o Without(wire, i) \o stray
            PROVE  <3>3
        <5>1. i \in 1..Len(wire)
          BY <3>2, LenProperties DEF ClosesOnWire
        <5>2. Without(wire, i) \in Seq(Frames)
          BY <3>2, <5>1, WithoutType
        <5> QED
          BY <2>2, <3>2, <4>2, <5>2, InConcat, ConcatProperties
      <4> QED
        BY <2>5, <4>1, <4>2 DEF Reopened
    <3>4. EndingQueued(c)'
      BY <2>1, <3>1, <3>3 DEF EndingQueued
    <3> QED
      BY <1>4, <2>3, <3>4
  <2> QED
    BY <1>8, <2>4, <2>5 DEF ChannelErrorRevive
<1> QED
  BY <1>2, <1>5, <1>6, <1>7, <1>8 DEF ChannelClose

(* A login starts with every channel closed. *)
LEMMA ConnectAccounted ==
    ASSUME IInv, Accounted, Connect
    PROVE  Accounted'
<1>1. CASE Return("ConnectionError", 0) /\ UNCHANGED pyVars
  BY <1>1, ReturnAccounted DEF pyVars
<1>2. CASE ConnectUnreachable \/ ConnectRefused
  BY <1>2, EndedAccounted DEF ConnectUnreachable, ConnectRefused, NotConnected, InSession
<1>3. CASE LoggedIn
  <2>1. bchan' = [c \in Ids |-> "closed"] /\ ret'.res # "ChannelError" /\ channel_max' \in Ids
    BY <1>3, ResultChannel DEF LoggedIn, ConnectAccepted, SessionStarts, IInv, TypeOK,
       ConnectionTypeOK, Ids
  <2>2. FreeIds' \subseteq Ids
    BY <2>1 DEF FreeIds, Ids
  <2> QED
    BY <2>1, <2>2 DEF Accounted, ClosePending, FreeAccounted, ErrorRevived
<1> QED
  BY <1>1, <1>2, <1>3 DEF Connect

(* drain_events: a delivery is dispatched, or the session ends. *)
LEMMA DrainAccounted ==
    ASSUME IInv, Accounted, Drain
    PROVE  Accounted'
<1>1. PICK n \in DOMAIN Inbound : FirstMethod(n) /\ (Dispatch(n) \/ BadFrame(n))
  BY DEF Drain
<1>2. UNCHANGED <<used, lost>>
  BY DEF Drain, pyVars
<1>3. Inbound[n].ch \in Ids
  BY InboundType DEF Frames, IInv, TypeOK, ConnectionTypeOK
<1>4. CASE Dispatch(n)
  BY <1>1, <1>2, <1>4, TypesOfCalls, DispatchTidy, QuietAccounted
<1>5. CASE BadFrame(n)
  BY <1>3, <1>5, FailAccounted DEF BadFrame, Results
<1> QED
  BY <1>1, <1>4, <1>5

(* The broker sends frames, loses consumers and the link; a channel it       *)
(* closes has its channel.close sent in the same step.                       *)
LEMMA BrokerAccounted ==
    ASSUME IInv, Accounted, BrokerStep
    PROVE  Accounted'
<1>1. /\ BrokerTypeOK /\ queued \in Seq(Frames) /\ wire \in Seq(Frames)
      /\ BrokerNext /\ UNCHANGED <<connVars, ret, pyVars>>
  BY DEF BrokerStep, IInv, TypeOK, ConnectionTypeOK, BrokerTypeOK
<1>2. ASSUME UNCHANGED <<link, queued>>,
             \A f \in Frames : In(wire, f) => In(wire, f)',
             \A d \in Ids : bcons'[d] \subseteq bcons[d],
             \A d \in Ids : bchan'[d] # bchan[d] =>
                 bchan[d] = "open" /\ bchan'[d] = "closing" /\ Pending(d)'
      PROVE  Accounted'
  <2>1. InSession' = InSession /\ FreeIds' = FreeIds /\ UNCHANGED <<ret, lost>>
    BY <1>1, <1>2 DEF InSession, FreeIds, connVars, pyVars
  <2>2. \A d \in Ids : Pending(d) => Pending(d)'
    BY <1>2 DEF Pending, Unread
  <2>3. ClosePending'
    BY <1>2, <2>1, <2>2 DEF Accounted, ClosePending
  <2>4. FreeAccounted'
    <3>1. \A d \in FreeIds : d \in Ids
      BY DEF FreeIds, Ids, IInv, TypeOK, ConnectionTypeOK
    <3>2. \A d \in FreeIds : EndingQueued(d) => EndingQueued(d)'
      BY <1>2 DEF EndingQueued
    <3> QED
      BY <1>2, <2>1, <3>1, <3>2 DEF Accounted, FreeAccounted
  <2>5. ErrorRevived'
    BY <1>2, <2>1, <2>2 DEF Accounted, ErrorRevived
  <2> QED
    BY <2>3, <2>4, <2>5 DEF Accounted
<1>3. ASSUME NEW g \in Frames, wire' = Append(wire, g)
      PROVE  In(wire, g)' /\ \A f \in Frames : In(wire, f) => In(wire, f)'
  <2>1. /\ wire' \in Seq(Frames) /\ Len(wire') = Len(wire) + 1 /\ wire'[Len(wire) + 1] = g
        /\ \A i \in 1..Len(wire) : wire'[i] = wire[i]
    BY <1>1, <1>3, AppendProperties
  <2>2. Len(wire) \in Nat /\ DOMAIN wire = 1..Len(wire) /\ DOMAIN wire' = 1..(Len(wire) + 1)
    BY <1>1, <2>1, LenProperties
  <2> QED
    BY <2>1, <2>2 DEF In
<1>4. ASSUME NEW f \in Frames, Send(f), UNCHANGED bcons PROVE Accounted'
  BY <1>2, <1>3, <1>4 DEF Send
<1>5. ASSUME NEW c \in Ids, CloseChannelAsync(c) PROVE Accounted'
  <2> DEFINE f == Frame("chclose", c, None)
  <2>1. f \in Frames /\ IsClose(f, c)
    BY FrameType DEF FrameKinds, IsClose, Frame
  <2> HIDE DEF f
  <2>2. wire' = Append(wire, f)
    BY <1>5 DEF CloseChannelAsync, f
  <2>3. In(wire, f)' /\ \A g \in Frames : In(wire, g) => In(wire, g)'
    BY <1>3, <2>1, <2>2
  <2>4. Pending(c)'
    BY <2>1, <2>3 DEF Pending, Unread
  <2>5. /\ UNCHANGED <<link, queued>>
        /\ bchan[c] = "open" /\ bchan'[c] = "closing" /\ bcons'[c] = {}
        /\ \A d \in Ids : d # c => bchan'[d] = bchan[d] /\ bcons'[d] = bcons[d]
    BY <1>1, <1>5 DEF CloseChannelAsync, BrokerTypeOK
  <2> QED
    BY <1>2, <2>3, <2>4, <2>5
<1>6. ASSUME NEW c \in Ids, NEW t \in Tags, ConsumerGone(c, t) PROVE Accounted'
  BY <1>1, <1>2, <1>6 DEF ConsumerGone, BrokerTypeOK
<1>7. CASE LinkDown
  BY <1>7, EndedAccounted DEF LinkDown, InSession
<1>8. \A c \in Ids, t \in Tags :
        /\ Frame("deliver", c, t) \in Frames /\ Frame("empty", c, t) \in Frames
        /\ Frame("other", c, None) \in Frames
  BY FrameType DEF FrameKinds
<1>9. ASSUME NEW c \in Ids, BasicReturn(c) PROVE Accounted'
  BY <1>4, <1>9, FrameType DEF BasicReturn, FrameKinds
<1> QED
  BY <1>1, <1>4, <1>5, <1>6, <1>7, <1>8, <1>9 DEF BrokerNext, Deliver

-----------------------------------------------------------------------------
(* A connection that was never used has nothing to account for, *)
LEMMA InitAccounted == Init => Accounted
BY EndedAccounted DEF Init, ConnectionInit, BrokerInit, Accounted, ClosePending, FreeAccounted,
   ErrorRevived, InSession

(* and no step loses a channel.close but one of basic_qos. *)
LEMMA StepAccounted == IInv /\ Accounted /\ [Next]_vars => Accounted'
<1> SUFFICES ASSUME IInv, Accounted, [Next]_vars PROVE Accounted'
  OBVIOUS
<1>1. CASE Connect
  BY <1>1, ConnectAccounted
<1>2. CASE Close
  BY <1>2, FailAccounted DEF Close, Results
<1>3. CASE NoFreeChannel \/ \E c \in Ids : KnownChannel(c)
  BY <1>3, ReturnAccounted DEF NoFreeChannel, KnownChannel, pyVars
<1>4. CASE Drain
  BY <1>4, DrainAccounted
<1>5. CASE DrainEmpty
  BY <1>5, ReturnAccounted, FailAccounted DEF DrainEmpty, pyVars, Results
<1>6. CASE HangEnds
  BY <1>6, EndedAccounted DEF HangEnds, InSession, Return, Fail, ConnectionClose, Teardown,
     brokerVars
<1>7. ASSUME NEW o \in Objs, Forget(o) PROVE Accounted'
  BY <1>7 DEF Forget, Accounted, ClosePending, FreeAccounted, ErrorRevived, InSession, FreeIds,
     Pending, EndingQueued, Unread, In, brokerVars, connVars
<1>8. ASSUME NEW o \in Objs, Channel(o) PROVE Accounted'
  <2>1. PICK c \in FreeIds : used' = used \cup {c} /\ OpenAndRegister(c, o)
    BY <1>8 DEF Channel
  <2>2. c \in Ids
    BY DEF FreeIds, Ids, IInv, TypeOK, ConnectionTypeOK
  <2> QED
    BY <1>8, <2>1, <2>2, OpenAccounted DEF Channel
<1>9. ASSUME NEW o \in Objs, NEW c \in Ids, ChannelById(c, o) PROVE Accounted'
  BY <1>9, OpenAccounted DEF ChannelById
<1>10. ASSUME NEW o \in Objs, CloseChannel(o) PROVE Accounted'
  BY <1>10, CloseChannelAccounted
<1>11. ASSUME NEW o \in Objs, Rpc(o) PROVE Accounted'
  BY <1>11, RpcAccounted
<1>12. ASSUME NEW o \in Objs, Qos(o) PROVE Accounted'
  BY <1>12, QosAccounted
<1>13. ASSUME NEW o \in Objs, NEW t \in Tags, BasicConsume(o, t) PROVE Accounted'
  BY <1>13, ConsumeAccounted
<1>14. ASSUME NEW o \in Objs, NEW t \in Tags, BasicCancel(o, t) PROVE Accounted'
  BY <1>14, CancelAccounted
<1>15. CASE BrokerStep
  BY <1>15, BrokerAccounted
<1>16. CASE UNCHANGED vars
  BY <1>16 DEF vars, Accounted, ClosePending, FreeAccounted, ErrorRevived, InSession, FreeIds,
     Pending, EndingQueued, Unread, In, brokerVars, connVars, pyVars
<1> QED
  BY <1>1, <1>2, <1>3, <1>4, <1>5, <1>6, <1>7, <1>8, <1>9, <1>10, <1>11, <1>12, <1>13,
     <1>14, <1>15, <1>16 DEF Next

(* Every channel.close, every id and every ChannelError is accounted for in  *)
(* every reachable state.                                                    *)
THEOREM AllAccounted == Spec => []Accounted
BY Inductive, InitAccounted, StepAccounted, PTL DEF Spec

(* No error path consumes a channel.close without answering it, but for the  *)
(* one of basic_qos.                                                         *)
THEOREM NoCloseIsLost == Spec => []CloseIsPending
<1>1. IInv /\ Accounted => CloseIsPending
  BY PendingIsInbound DEF IInv, TypeOK, ConnectionTypeOK, Accounted, ClosePending, CloseIsPending
<1> QED
  BY <1>1, Inductive, AllAccounted, PTL

(* As long as the program asks for no id of its own choice, the id channel() *)
(* takes next is free at the broker too, or the session is about to end.     *)
THEOREM FreeIdsAreFree == ~ExplicitIds => (Spec => []FreeIdIsClosed)
<1> SUFFICES ASSUME ~ExplicitIds PROVE Spec => []FreeIdIsClosed
  OBVIOUS
<1>1. IInv /\ Accounted => FreeIdIsClosed
  <2> SUFFICES ASSUME IInv, Accounted, InSession, NEW c \in FreeIds \ lost, bchan[c] # "closed"
               PROVE  \E n \in DOMAIN Inbound :
                        Inbound[n].ch = c /\ Inbound[n].kind \in {"chclose", "other"}
    BY DEF FreeIdIsClosed
  <2>1. c \in Ids /\ BrokerTypeOK
    BY DEF FreeIds, Ids, IInv, TypeOK, ConnectionTypeOK
  <2>2. EndingQueued(c)
    BY DEF Accounted, FreeAccounted
  <2> QED
    BY <2>1, <2>2, PendingIsInbound
<1> QED
  BY <1>1, Inductive, AllAccounted, PTL

(* A ChannelError that leaves the connection up leaves the channel open, and *)
(* without consumers.                                                        *)
THEOREM ErrorsRevive == Spec => []ChannelErrorRevives
<1>1. IInv /\ Accounted => ChannelErrorRevives
  BY PendingIsInbound DEF IInv, TypeOK, ConnectionTypeOK, Accounted, ErrorRevived,
     ChannelErrorRevives
<1> QED
  BY <1>1, Inductive, AllAccounted, PTL

(* drain_events hands a delivery for a consumer of a registered channel to   *)
(* its callback, and does not close the connection over it.                  *)
THEOREM DeliveriesReach == Spec => DeliveryReachesConsumer
<1>1. ASSUME IInv, NEW n \in DOMAIN Inbound, InSession, Inbound[n].kind = "deliver",
             FirstMethod(n), Registered(Inbound[n].ch),
             Inbound[n].tag \in bcons[Inbound[n].ch], Drain
      PROVE  connected' /\ ret'.res = "message"
  <2>1. /\ DOMAIN Inbound = 1..Len(Inbound) /\ Len(Inbound) \in Nat
        /\ Inbound[n].ch \in Ids
    BY <1>1, InboundType DEF Frames, IInv, TypeOK, ConnectionTypeOK
  <2>2. HasCallback(Inbound[n])
    BY <1>1, <2>1 DEF HasCallback, IInv, ConsumerHasCallback, Registered
  <2>3. PICK m \in DOMAIN Inbound : FirstMethod(m) /\ (Dispatch(m) \/ BadFrame(m))
    BY <1>1 DEF Drain
  <2>4. m = n
    <3>1. ~(m \in 1..(n - 1)) /\ ~(n \in 1..(m - 1))
      BY <1>1, <2>3 DEF FirstMethod
    <3> QED
      BY <2>1, <3>1
  <2>5. Dispatch(n)
    BY <1>1, <2>2, <2>3, <2>4 DEF BadFrame
  <2> QED
    BY <1>1, <2>5, ResultChannel DEF Dispatch, InSession, connVars
<1> DEFINE Reaches == \A n \in DOMAIN Inbound :
                        /\ InSession
                        /\ Inbound[n].kind = "deliver"
                        /\ FirstMethod(n)
                        /\ Registered(Inbound[n].ch)
                        /\ Inbound[n].tag \in bcons[Inbound[n].ch]
                        /\ Drain
                        => connected' /\ ret'.res = "message"
<1>2. IInv => Reaches
  BY <1>1
<1>3. DeliveryReachesConsumer <=> [][Reaches]_vars
  BY DEF DeliveryReachesConsumer
<1> HIDE DEF Reaches
<1> QED
  BY <1>2, <1>3, Inductive, PTL DEF Spec
=============================================================================
