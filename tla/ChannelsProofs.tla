--------------------------- MODULE ChannelsProofs ---------------------------
(* Proofs about Channels, for every number of ids, tags, objects and frames  *)
(* in flight.                                                                *)
(*                                                                           *)
(* The calls differ in what they send and agree in what they can do to the   *)
(* state that matters here.  The first part puts that into one relation,     *)
(* Effect, and shows it once for each operator of Connection; the second     *)
(* part shows that every action of Channels preserves the inductive          *)
(* invariant, from Effect alone wherever that is enough.                     *)
EXTENDS Channels, SequenceTheorems, TLAPS

USE BrokerAssumption, ChannelsAssumption

(* A call on channel c that does not open or close one: a session can end by *)
(* it but not begin, no channel is lost by it, and consumers are added, at   *)
(* most those of cons, on c and only by returning r.                         *)
Effect(c, cons, r) ==
    /\ connected' => connected
    /\ InSession' =>
         /\ link = "up"
         /\ \A d \in Ids : bchan'[d] = "closed" => bchan[d] = "closed"
         /\ \A d \in Ids : d # c => bcons'[d] \subseteq bcons[d]
         /\ bcons'[c] \subseteq bcons[c] \/ (ret'.res = r /\ bcons'[c] \subseteq cons)

Fine(c, cons, r) == ConnectionTypeOK' /\ ConsumersOpen' /\ Effect(c, cons, r)

(* Putting aside what is on the wire keeps both sequences well typed. *)
LEMMA ReadOnType ==
    ASSUME BrokerTypeOK, ReadOn
    PROVE  queued' \in Seq(Frames) /\ wire' \in Seq(Frames)
<1>1. queued \o wire \in Seq(Frames)
  BY ConcatProperties DEF BrokerTypeOK
<1>2. << >> \in Seq(Frames)
  BY EmptySeq
<1> QED
  BY <1>1, <1>2 DEF ReadOn

(* A segment of a sequence of frames is one. *)
LEMMA SegmentType ==
    ASSUME NEW s \in Seq(Frames), NEW m \in Nat, NEW n \in Nat, m >= 1, n <= Len(s)
    PROVE  SubSeq(s, m, n) \in Seq(Frames)
<1>1. \A i \in m..n : s[i] \in Frames
  <2> TAKE i \in m..n
  <2>1. i \in 1..Len(s)
    BY LenProperties
  <2> QED
    BY <2>1, ElementOfSeq
<1> QED
  BY <1>1, SubSeqProperties

(* Taking one frame out of a sequence leaves a sequence of frames. *)
LEMMA WithoutType ==
    ASSUME NEW s \in Seq(Frames), NEW i \in 1..Len(s)
    PROVE  Without(s, i) \in Seq(Frames)
<1>1. Len(s) \in Nat
  BY LenProperties
<1>2. SubSeq(s, 1, i - 1) \in Seq(Frames)
  BY <1>1, SegmentType
<1>3. SubSeq(s, i + 1, Len(s)) \in Seq(Frames)
  BY <1>1, SegmentType
<1> QED
  BY <1>2, <1>3, ConcatProperties DEF Without

(* What Frame builds is a frame. *)
LEMMA FrameType ==
    ASSUME NEW k \in FrameKinds, NEW c \in Ids, NEW t \in Tags \cup {None}
    PROVE  Frame(k, c, t) \in Frames
BY DEF Frame, Frames

(* What Result builds is a value ret may have. *)
LEMMA ResultType ==
    ASSUME NEW r \in Results, NEW c \in Ids \cup {0}
    PROVE  /\ Result(r, c) \in [res : Results, ch : Ids \cup {0}]
           /\ Result(r, c).res = r
BY DEF Result

-----------------------------------------------------------------------------
(* Returning without having done anything. *)
LEMMA ReturnFine ==
    ASSUME ConnectionTypeOK, ConsumersOpen, NEW r \in Results, NEW c \in Ids,
           Return(r, c), NEW cons, NEW q
    PROVE  Fine(c, cons, q)
BY ResultType DEF Return, Fine, Effect, ConnectionTypeOK, BrokerTypeOK, ConsumersOpen,
     InSession, connVars, brokerVars

(* Closing the connection and reporting it, in any state. *)
LEMMA FailFine ==
    ASSUME ConnectionTypeOK, ConsumersOpen, NEW r \in Results, NEW c \in Ids \cup {0},
           Fail(r, c)
    PROVE  /\ ConnectionTypeOK' /\ ConsumersOpen' /\ connected' = FALSE
           /\ ret'.res = r
           /\ \A d, cons, q : Effect(d, cons, q)
<1>1. << >> \in Seq(Frames)
  BY EmptySeq
<1>2. CASE connected
  <2>1. BrokerTypeOK' /\ ConsumersOpen' /\ connected' = FALSE
    BY <1>1, <1>2 DEF Fail, ConnectionClose, Teardown, ConnectionTypeOK, BrokerTypeOK,
       ConsumersOpen
  <2>2. ConnectionTypeOK' /\ ret'.res = r
    BY <1>2, <2>1, ResultType DEF Fail, ConnectionClose, ConnectionTypeOK
  <2>3. \A d, cons, q : Effect(d, cons, q)
    BY <2>1 DEF Effect, InSession
  <2> QED
    BY <2>1, <2>2, <2>3
<1>3. CASE ~connected
  BY <1>3, ResultType DEF Fail, ConnectionClose, ConnectionTypeOK,
     BrokerTypeOK, ConsumersOpen, Effect, InSession, connVars, brokerVars
<1> QED
  BY <1>2, <1>3

(* A channel reopened, with whatever frame is left over. *)
LEMMA ReopenedFine ==
    ASSUME ConnectionTypeOK, ConsumersOpen, NEW c \in Ids, NEW stray \in Seq(Frames),
           Reopened(c, stray), UNCHANGED connVars, NEW r \in Results, ret' = Result(r, c),
           NEW cons, NEW q
    PROVE  Fine(c, cons, q)
<1>1. << >> \in Seq(Frames)
  BY EmptySeq
<1>2. queued' \in Seq(Frames)
  <2>1. CASE ClosesOnWire(c) = {} /\ queued' = queued \o wire \o stray
    BY <2>1, ConcatProperties DEF ConnectionTypeOK, BrokerTypeOK
  <2>2. ASSUME NEW i \in ClosesOnWire(c), queued' = queued \o Without(wire, i) \o stray
        PROVE  queued' \in Seq(Frames)
    <3>1. i \in 1..Len(wire)
      BY LenProperties DEF ClosesOnWire, ConnectionTypeOK, BrokerTypeOK
    <3>2. Without(wire, i) \in Seq(Frames)
      BY <3>1, WithoutType DEF ConnectionTypeOK, BrokerTypeOK
    <3> QED
      BY <2>2, <3>2, ConcatProperties DEF ConnectionTypeOK, BrokerTypeOK
  <2> QED
    BY <2>1, <2>2 DEF Reopened
<1> QED
  BY <1>1, <1>2, ResultType DEF Reopened, Fine, Effect, ConnectionTypeOK, BrokerTypeOK,
     ConsumersOpen, InSession, connVars

(* An RPC that succeeds on the channel. *)
LEMMA AnsweredFine ==
    ASSUME ConnectionTypeOK, ConsumersOpen, NEW c \in Ids, NEW cons \in SUBSET Tags,
           Answered(c, cons), bchan[c] = "open", UNCHANGED connVars,
           NEW r \in Results, ret' = Result(r, c)
    PROVE  Fine(c, cons, r)
<1>1. queued' \in Seq(Frames) /\ wire' \in Seq(Frames)
  BY ReadOnType DEF Answered, ConnectionTypeOK
<1>2. bcons' = [bcons EXCEPT ![c] = cons] /\ UNCHANGED <<link, bchan>>
  BY DEF Answered
<1>3. ConnectionTypeOK'
  BY <1>1, <1>2, ResultType DEF ConnectionTypeOK, BrokerTypeOK, connVars
<1>4. ConsumersOpen'
  BY <1>2 DEF ConsumersOpen, ConnectionTypeOK, BrokerTypeOK
<1>5. Effect(c, cons, r)
  BY <1>2, ResultType DEF Effect, InSession, connVars, ConnectionTypeOK, BrokerTypeOK
<1> QED
  BY <1>3, <1>4, <1>5 DEF Fine

(* Closing the connection over an error is Fine for every call. *)
LEMMA FailIsFine ==
    ASSUME ConnectionTypeOK, ConsumersOpen, NEW r \in Results, NEW d \in Ids \cup {0},
           Fail(r, d), NEW c, NEW cons, NEW q
    PROVE  Fine(c, cons, q)
BY FailFine DEF Fine

(* The handlers of failed calls. *)
LEMMA ReviveFine ==
    ASSUME ConnectionTypeOK, ConsumersOpen, NEW c \in Ids, NEW cons, NEW q,
           NEW r \in Results, ReviveChannel(c, r)
    PROVE  Fine(c, cons, q)
<1>1. << >> \in Seq(Frames)
  BY EmptySeq
<1>2. CASE Reopened(c, <<>>) /\ ret' = Result(r, c) /\ UNCHANGED connVars
  BY <1>1, <1>2, ReopenedFine
<1>3. CASE Fail("ConnectionError", c)
  BY <1>3, FailIsFine DEF Results
<1> QED
  BY <1>2, <1>3 DEF ReviveChannel

(* So is the answer to a channel.close. *)
LEMMA ChannelErrorFine ==
    ASSUME ConnectionTypeOK, ConsumersOpen, NEW c \in Ids, NEW cons, NEW q,
           NEW stray \in Seq(Frames), ChannelErrorRevive(c, stray)
    PROVE  Fine(c, cons, q)
<1>1. CASE Reopened(c, stray) /\ ret' = Result("ChannelError", c) /\ UNCHANGED connVars
  BY <1>1, ReopenedFine DEF Results
<1>2. CASE Fail("ConnectionError", c)
  BY <1>2, FailIsFine DEF Results
<1> QED
  BY <1>1, <1>2 DEF ChannelErrorRevive

(* So is the handling of every reply that is not a success. *)
LEMMA HandleAMQErrorFine ==
    ASSUME ConnectionTypeOK, ConsumersOpen, NEW c \in Ids, NEW cons, NEW q,
           NEW reply, HandleAMQError(c, reply)
    PROVE  Fine(c, cons, q)
<1>1. << >> \in Seq(Frames)
  BY EmptySeq
<1>2. CASE ChannelErrorRevive(c, <<>>)
  BY <1>1, <1>2, ChannelErrorFine
<1>3. CASE Fail("ConnectionError", c)
  BY <1>3, FailIsFine DEF Results
<1>4. CASE Return("hang", c)
  BY <1>4, ReturnFine DEF Results
<1> QED
  BY <1>2, <1>3, <1>4 DEF HandleAMQError, Silence

(* A reply of "ok" comes from an open channel only. *)
LEMMA OkMeansOpen ==
    ASSUME ConnectionTypeOK, NEW c \in Ids, "ok" \in Replies(c)
    PROVE  bchan[c] = "open"
BY DEF Replies, ConnectionTypeOK, BrokerTypeOK

(* Every RPC method is Fine, with the consumers its success leaves. *)
LEMMA MethodFine ==
    ASSUME ConnectionTypeOK, ConsumersOpen, NEW c \in Ids, NEW cons \in SUBSET Tags,
           NEW r \in Results, Method(c, cons, r)
    PROVE  Fine(c, cons, r)
<1>1. CASE Return("ConnectionError", c)
  BY <1>1, ReturnFine DEF Results
<1>2. ASSUME "ok" \in Replies(c), Answered(c, cons), ret' = Result(r, c), UNCHANGED connVars
      PROVE  Fine(c, cons, r)
  BY <1>2, OkMeansOpen, AnsweredFine
<1>3. ASSUME NEW reply \in Replies(c), HandleAMQError(c, reply)
      PROVE  Fine(c, cons, r)
  BY <1>3, HandleAMQErrorFine
<1> QED
  BY <1>1, <1>2, <1>3 DEF Method

(* And so when it converts its arguments first. *)
LEMMA EncodingMethodFine ==
    ASSUME ConnectionTypeOK, ConsumersOpen, NEW c \in Ids, NEW cons \in SUBSET Tags,
           NEW r \in Results, EncodingMethod(c, cons, r)
    PROVE  Fine(c, cons, r)
BY ReturnFine, MethodFine DEF EncodingMethod, Results

(* The methods without a reply add no consumers. *)
LEMMA PostFine ==
    ASSUME ConnectionTypeOK, ConsumersOpen, NEW c \in Ids, Post(c), NEW cons, NEW q
    PROVE  Fine(c, cons, q)
BY ReturnFine, ReviveFine DEF Post, Results

(* What is inbound, in front of what comes next. *)
LEMMA InboundType ==
    ASSUME BrokerTypeOK
    PROVE  /\ Inbound \in Seq(Frames)
           /\ DOMAIN Inbound = 1..Len(Inbound) /\ Len(Inbound) \in Nat
           /\ \A n \in DOMAIN Inbound : Inbound[n] \in Frames
<1>1. Inbound \in Seq(Frames)
  BY ConcatProperties DEF BrokerTypeOK, Inbound
<1>2. DOMAIN Inbound = 1..Len(Inbound) /\ Len(Inbound) \in Nat
  BY <1>1, LenProperties
<1> QED
  BY <1>1, <1>2, ElementOfSeq

(* Nor does basic_get, whatever content it comes upon. *)
LEMMA GetFine ==
    ASSUME ConnectionTypeOK, ConsumersOpen, NEW c \in Ids, BasicGet(c)
    PROVE  Fine(c, bcons[c], "ok")
<1> DEFINE content == Frame("content", c, None)
           frames == Append(Inbound, content)
<1>1. CASE Return("ConnectionError", c) \/ Return("raised", c)
  BY <1>1, ReturnFine DEF Results
<1>2. ASSUME NEW reply \in Replies(c), HandleAMQError(c, reply)
      PROVE  Fine(c, bcons[c], "ok")
  BY <1>2, HandleAMQErrorFine
<1>3. BrokerTypeOK /\ bcons[c] \in SUBSET Tags
  BY DEF ConnectionTypeOK, BrokerTypeOK
<1>4. ASSUME "ok" \in Replies(c), GetEmpty(c)
      PROVE  Fine(c, bcons[c], "ok")
  BY <1>3, <1>4, OkMeansOpen, AnsweredFine DEF GetEmpty, Results
<1>5. content \in Frames
  BY FrameType DEF FrameKinds
<1>6. Inbound \in Seq(Frames)
  BY <1>3, InboundType
<1>7. << >> \in Seq(Frames) /\ <<content>> \in Seq(Frames)
  BY <1>5, EmptySeq
<1>8. ASSUME UNCHANGED <<connVars, link, bchan, bcons>>, NEW r \in Results,
             ret' = Result(r, c), queued' \in Seq(Frames), wire' \in Seq(Frames)
      PROVE  Fine(c, bcons[c], "ok")
  BY <1>8, ResultType DEF Fine, Effect, InSession, ConsumersOpen, ConnectionTypeOK,
     BrokerTypeOK, connVars
<1>9. CASE GetWithoutContent(c)
  BY <1>6, <1>7, <1>8, <1>9 DEF GetWithoutContent, Results
<1>10. CASE GetWithContent(c)
  <2>1. frames \in Seq(Frames) /\ frames # <<>>
    BY <1>5, <1>6
  <2>2. Head(frames) \in Frames /\ Tail(frames) \in Seq(Frames)
    BY <2>1, HeadTailProperties
  <2>3. Head(frames).ch \in Ids
    BY <2>2 DEF Frames
  <2>4. CASE /\ queued' = Tail(frames) /\ wire' = <<>> /\ ret' = Result("message", c)
             /\ UNCHANGED <<connVars, link, bchan, bcons>>
    BY <1>7, <1>8, <2>2, <2>4 DEF Results
  <2>5. CASE Fail("ConnectionError", c)
    BY <2>5, FailIsFine DEF Results
  <2>6. CASE Fail("ChannelError", Head(frames).ch)
    BY <2>3, <2>6, FailIsFine DEF Results
  <2> QED
    BY <1>10, <2>4, <2>5, <2>6 DEF GetWithContent
<1> QED
  BY <1>1, <1>2, <1>4, <1>9, <1>10 DEF BasicGet

(* basic_qos may lose a channel.close, or keep a connection whose link is    *)
(* gone.                                                                     *)
LEMMA QosFine ==
    ASSUME ConnectionTypeOK, ConsumersOpen, NEW c \in Ids, BasicQos(c)
    PROVE  Fine(c, bcons[c], "ok")
<1>1. CASE Return("ConnectionError", c)
  BY <1>1, ReturnFine DEF Results
<1>2. BrokerTypeOK /\ bcons[c] \in SUBSET Tags
  BY DEF ConnectionTypeOK, BrokerTypeOK
<1>3. ASSUME "ok" \in Replies(c), Answered(c, bcons[c]), ret' = Result("ok", c),
             UNCHANGED connVars
      PROVE  Fine(c, bcons[c], "ok")
  BY <1>2, <1>3, OkMeansOpen, AnsweredFine DEF Results
<1>4. ASSUME UNCHANGED connVars, ret' = Result("ok", c),
             queued' \in Seq(Frames), wire' \in Seq(Frames)
      PROVE  /\ Refused(c) => Fine(c, bcons[c], "ok")
             /\ CloseMet(c) => Fine(c, bcons[c], "ok")
             /\ (/\ link' = "down"
                 /\ bchan' = [d \in Ids |-> "closed"]
                 /\ bcons' = [d \in Ids |-> {}]) => Fine(c, bcons[c], "ok")
  <2> ret' \in [res : Results, ch : Ids \cup {0}]
    BY <1>4, ResultType DEF Results
  <2>1. CASE Refused(c)
    <3>1. /\ bchan' = [bchan EXCEPT ![c] = "closing"]
          /\ bcons' = [bcons EXCEPT ![c] = {}]
          /\ link' = link
      BY <2>1 DEF Refused
    <3>2. BrokerTypeOK' /\ ConsumersOpen'
      BY <1>2, <1>4, <3>1 DEF ConsumersOpen, BrokerTypeOK
    <3>3. ConnectionTypeOK'
      BY <1>4, <3>2 DEF ConnectionTypeOK, connVars
    <3>4. Effect(c, bcons[c], "ok")
      BY <1>2, <1>4, <3>1 DEF Effect, InSession, BrokerTypeOK, connVars
    <3> QED
      BY <3>2, <3>3, <3>4 DEF Fine
  <2>2. CASE CloseMet(c)
    <3>1. UNCHANGED <<link, bchan, bcons>>
      BY <2>2 DEF CloseMet
    <3>2. BrokerTypeOK' /\ ConsumersOpen'
      BY <1>2, <1>4, <3>1 DEF ConsumersOpen, BrokerTypeOK
    <3>3. ConnectionTypeOK'
      BY <1>4, <3>2 DEF ConnectionTypeOK, connVars
    <3>4. Effect(c, bcons[c], "ok")
      BY <1>2, <1>4, <3>1 DEF Effect, InSession, connVars
    <3> QED
      BY <3>2, <3>3, <3>4 DEF Fine
  <2>3. CASE /\ link' = "down"
             /\ bchan' = [d \in Ids |-> "closed"]
             /\ bcons' = [d \in Ids |-> {}]
    BY <1>4, <2>3, ResultType DEF Fine, Effect, InSession, ConsumersOpen,
       ConnectionTypeOK, BrokerTypeOK, connVars, Results
  <2> QED
    BY <2>1, <2>2, <2>3
<1>5. ReadOn => queued' \in Seq(Frames) /\ wire' \in Seq(Frames)
  BY <1>2, ReadOnType
<1>6. CloseMet(c) => queued' \in Seq(Frames) /\ wire' \in Seq(Frames)
  <2> SUFFICES ASSUME NEW i \in ClosesOnWire(c),
                      queued' = queued \o SubSeq(wire, 1, i - 1),
                      wire' = SubSeq(wire, i + 1, Len(wire))
               PROVE  queued' \in Seq(Frames) /\ wire' \in Seq(Frames)
    BY DEF CloseMet
  <2>1. wire \in Seq(Frames) /\ queued \in Seq(Frames)
    BY <1>2 DEF BrokerTypeOK
  <2>2. i \in 1..Len(wire) /\ Len(wire) \in Nat
    BY <2>1, LenProperties DEF ClosesOnWire
  <2>3. SubSeq(wire, 1, i - 1) \in Seq(Frames) /\ SubSeq(wire, i + 1, Len(wire)) \in Seq(Frames)
    BY <2>1, <2>2, SegmentType
  <2> QED
    BY <2>1, <2>3, ConcatProperties
<1>7. CASE ret' = Result("qos hang", c) /\ UNCHANGED brokerVars /\ UNCHANGED connVars
  BY <1>7, ReturnFine DEF Return, Results
<1>8. Refused(c) => ReadOn
  BY DEF Refused
<1> QED
  BY <1>1, <1>3, <1>4, <1>5, <1>6, <1>7, <1>8 DEF BasicQos

(* Consuming adds at most the tag, and only by returning r. *)
LEMMA ConsumeFine ==
    ASSUME ConnectionTypeOK, ConsumersOpen, NEW c \in Ids, NEW t \in Tags,
           NEW r \in Results, ConsumeRpc(c, t, r)
    PROVE  Fine(c, bcons[c] \cup {t}, r)
<1>1. bcons[c] \cup {t} \in SUBSET Tags
  BY DEF ConnectionTypeOK, BrokerTypeOK
<1>2. CASE Return("ConnectionError", c) \/ Return("raised", c)
  BY <1>2, ReturnFine DEF Results
<1>3. CASE Fail("ConnectionError", c)
  BY <1>3, FailIsFine DEF Results
<1>4. CASE EncodingMethod(c, bcons[c] \cup {t}, r)
  BY <1>1, <1>4, EncodingMethodFine
<1> QED
  BY <1>2, <1>3, <1>4 DEF ConsumeRpc

(* After a cancel the broker does not have the consumer any more, whatever   *)
(* the answer was.                                                           *)
LEMMA CancelFine ==
    ASSUME ConnectionTypeOK, ConsumersOpen, NEW c \in Ids, NEW t \in Tags, CancelRpc(c, t)
    PROVE  /\ Fine(c, bcons[c], "ok")
           /\ InSession' => t \notin bcons'[c]
<1>1. bcons[c] \ {t} \in SUBSET Tags
  BY DEF ConnectionTypeOK, BrokerTypeOK
<1>2. Fine(c, bcons[c] \ {t}, "ok") => Fine(c, bcons[c], "ok")
  BY DEF Fine, Effect
<1>3. CASE NotConnected /\ \E r \in Results : Return(r, c)
  <2>1. Fine(c, bcons[c] \ {t}, "ok")
    BY <1>3, ReturnFine
  <2>2. ~InSession'
    BY <1>3 DEF NotConnected, Return, connVars, InSession
  <2> QED
    BY <1>2, <2>1, <2>2
<1>4. CASE Method(c, bcons[c] \ {t}, "ok")
  <2>1. Fine(c, bcons[c], "ok")
    BY <1>1, <1>2, <1>4, MethodFine DEF Results
  <2>2. CASE Return("ConnectionError", c) /\ NotConnected
    BY <2>1, <2>2 DEF NotConnected, Return, connVars, InSession
  <2>3. CASE Answered(c, bcons[c] \ {t})
    BY <2>1, <2>3 DEF Answered, ConnectionTypeOK, BrokerTypeOK
  <2>4. CASE ChannelErrorRevive(c, <<>>)
    <3>1. CASE Reopened(c, <<>>)
      BY <2>1, <3>1 DEF Reopened, ConnectionTypeOK, BrokerTypeOK
    <3>2. CASE Fail("ConnectionError", c)
      BY <2>1, <3>2, FailFine DEF InSession, Results
    <3> QED
      BY <2>4, <3>1, <3>2 DEF ChannelErrorRevive
  <2>5. CASE Fail("ConnectionError", c)
    BY <2>1, <2>5, FailFine DEF InSession, Results
  <2>6. CASE "silence" \in Replies(c) /\ Return("hang", c)
    <3>1. bchan[c] = "closing"
      BY <2>6 DEF Replies, ConnectionTypeOK, BrokerTypeOK
    <3>2. bcons[c] = {}
      BY <3>1 DEF ConsumersOpen
    <3> QED
      BY <2>1, <2>6, <3>2 DEF Return, brokerVars
  <2> QED
    BY <1>4, <2>2, <2>3, <2>4, <2>5, <2>6 DEF Method, HandleAMQError, Silence
<1> QED
  BY <1>3, <1>4 DEF CancelRpc, Results

-----------------------------------------------------------------------------
(* A call that leaves the Python layer alone preserves the invariant. *)
LEMMA CallPreserves ==
    ASSUME IInv, Idle, NEW c \in Ids, NEW q, Fine(c, bcons[c], q),
           UNCHANGED <<channels, callbacks, used, objs, fresh>>, lost' \in SUBSET Ids
    PROVE  IInv'
<1>1. TypeOK' /\ ConsumersOpen'
  BY DEF IInv, TypeOK, Fine
<1>2. EntriesAreOwn'
  BY DEF IInv, EntriesAreOwn
<1>3. /\ connected' => connected
      /\ InSession' => /\ InSession
                       /\ \A d \in Ids : bchan'[d] = "closed" => bchan[d] = "closed"
                       /\ \A d \in Ids : bcons'[d] \subseteq bcons[d]
  BY DEF Fine, Effect, InSession
<1>4. \A d \in Ids : Registered(d)' <=> Registered(d)
  BY DEF Registered
<1>5. RegisteredIsOpen' /\ RegisteredIsLive' /\ ConsumerHasCallback'
  BY <1>3, <1>4 DEF IInv, RegisteredIsOpen, RegisteredIsLive, ConsumerHasCallback
<1>6. FreshIsRegistered'
  BY <1>3, <1>4 DEF IInv, FreshIsRegistered, TypeOK, Idle, Hung, Waits
<1> QED
  BY <1>1, <1>2, <1>5, <1>6 DEF IInv

(* The object calling is one that exists. *)
LEMMA HeldId ==
    ASSUME TypeOK, NEW o \in Objs, o \in Held
    PROVE  objs[o].id \in Ids
BY DEF TypeOK, Held, ObjRecord

(* The methods that only call the connection's preserve the invariant. *)
LEMMA RpcPreserves ==
    ASSUME IInv, NEW o \in Objs, Rpc(o)
    PROVE  IInv'
<1>1. PICK c \in Ids : c = objs[o].id
  BY HeldId DEF IInv, Rpc
<1>2. bcons[c] \in SUBSET Tags
  BY DEF IInv, TypeOK, ConnectionTypeOK, BrokerTypeOK
<1>3. ConnectionTypeOK /\ ConsumersOpen
  BY DEF IInv, TypeOK
<1>4. \/ QueueBind(c) \/ QueueUnbind(c) \/ QueueDeclare(c) \/ QueueDelete(c)
      \/ QueuePurge(c) \/ ExchangeDeclare(c) \/ ExchangeDelete(c) \/ Flow(c)
      \/ BasicRecover(c) \/ BasicGet(c) \/ BasicPublish(c) \/ BasicAck(c)
      \/ BasicReject(c)
  BY <1>1 DEF Rpc
<1>5. Fine(c, bcons[c], "ok")
  <2>1. CASE EncodingMethod(c, bcons[c], "ok")
    BY <1>2, <1>3, <2>1, EncodingMethodFine DEF Results
  <2>2. CASE Method(c, bcons[c], "ok")
    BY <1>2, <1>3, <2>2, MethodFine DEF Results
  <2>3. CASE BasicGet(c)
    BY <1>3, <2>3, GetFine
  <2>4. CASE Post(c)
    BY <1>3, <2>4, PostFine
  <2>5. CASE Return("raised", c)
    BY <1>3, <2>5, ReturnFine DEF Results
  <2> QED
    BY <1>4, <2>1, <2>2, <2>3, <2>4, <2>5 DEF QueueBind, QueueUnbind, QueueDeclare,
       QueueDelete, QueuePurge, ExchangeDeclare, ExchangeDelete, Flow, BasicRecover,
       BasicPublish, BasicAck, BasicReject
<1>6. Idle /\ UNCHANGED pyVars
  BY DEF Rpc
<1>7. lost' \in SUBSET Ids
  BY <1>6 DEF IInv, TypeOK, pyVars
<1> QED
  BY <1>5, <1>6, <1>7, CallPreserves DEF pyVars

(* And basic_qos, for all the replies it ignores. *)
LEMMA QosPreserves ==
    ASSUME IInv, NEW o \in Objs, Qos(o)
    PROVE  IInv'
<1>1. PICK c \in Ids : c = objs[o].id
  BY HeldId DEF IInv, Qos
<1>2. Fine(c, bcons[c], "ok")
  BY <1>1, QosFine DEF IInv, TypeOK, Qos
<1>3. lost' \in SUBSET Ids
  BY <1>1 DEF IInv, TypeOK, Qos
<1> QED
  BY <1>2, <1>3, CallPreserves DEF Qos

(* The callback is in place when basic_consume returns. *)
LEMMA ConsumePreserves ==
    ASSUME IInv, NEW o \in Objs, NEW t \in Tags, BasicConsume(o, t)
    PROVE  IInv'
<1>1. PICK c \in Ids : c = objs[o].id
  BY HeldId DEF IInv, BasicConsume
<1>2. PICK r \in Results :
        /\ ConsumeRpc(c, t, r)
        /\ \/ /\ callbacks[c] # None
              /\ r = "ok"
              /\ callbacks' = IF Returned THEN [callbacks EXCEPT ![c] = @ \cup {t}]
                                          ELSE callbacks
           \/ callbacks[c] = None /\ UNCHANGED callbacks
  BY <1>1 DEF BasicConsume, Results
<1>3. Idle /\ UNCHANGED <<channels, used, objs, fresh, lost>>
  BY DEF BasicConsume
<1>4. Fine(c, bcons[c] \cup {t}, r)
  BY <1>2, ConsumeFine DEF IInv, TypeOK
<1>5. /\ connected' => connected
      /\ InSession' =>
           /\ InSession
           /\ \A d \in Ids : bchan'[d] = "closed" => bchan[d] = "closed"
           /\ \A d \in Ids : d # c => bcons'[d] \subseteq bcons[d]
           /\ bcons'[c] \subseteq bcons[c] \/ (ret'.res = r /\ bcons'[c] \subseteq bcons[c] \cup {t})
  BY <1>4 DEF Fine, Effect, InSession
<1>6. callbacks \in [Ids -> (SUBSET Tags) \cup {None}]
  BY DEF IInv, TypeOK
<1>7. \A d \in Ids :
        /\ callbacks'[d] = None <=> callbacks[d] = None
        /\ callbacks[d] # None => callbacks[d] \subseteq callbacks'[d]
        /\ callbacks'[d] \in (SUBSET Tags) \cup {None}
  BY <1>2, <1>6
<1>8. callbacks' \in [Ids -> (SUBSET Tags) \cup {None}]
  BY <1>2, <1>6
<1>9. TypeOK' /\ ConsumersOpen'
  BY <1>3, <1>4, <1>8 DEF IInv, TypeOK, Fine
<1>10. \A d \in Ids : Registered(d)' <=> Registered(d)
  BY <1>3 DEF Registered
<1>11. EntriesAreOwn' /\ RegisteredIsOpen' /\ RegisteredIsLive'
  BY <1>3, <1>5, <1>7, <1>10 DEF IInv, EntriesAreOwn, RegisteredIsOpen, RegisteredIsLive
<1>12. ConsumerHasCallback'
  <2> SUFFICES ASSUME InSession', NEW d \in Ids, Registered(d)'
               PROVE  callbacks'[d] # None /\ bcons'[d] \subseteq callbacks'[d]
    BY DEF ConsumerHasCallback
  <2>1. callbacks[d] # None /\ bcons[d] \subseteq callbacks[d]
    BY <1>5, <1>10 DEF IInv, ConsumerHasCallback
  <2>2. CASE bcons'[d] \subseteq bcons[d]
    BY <1>7, <2>1, <2>2
  <2>3. CASE d = c /\ ret'.res = r /\ bcons'[c] \subseteq bcons[c] \cup {t}
    <3>1. callbacks' = [callbacks EXCEPT ![c] = @ \cup {t}]
      BY <1>2, <2>1, <2>3 DEF Returned
    <3> QED
      BY <1>6, <1>7, <2>1, <2>3, <3>1
  <2> QED
    BY <1>5, <2>2, <2>3
<1>13. FreshIsRegistered'
  BY <1>3, <1>5, <1>10 DEF IInv, FreshIsRegistered, TypeOK, Idle, Hung, Waits
<1> QED
  BY <1>9, <1>11, <1>12, <1>13 DEF IInv

(* The callback is gone at once; so is the consumer, when the call is over. *)
LEMMA CancelPreserves ==
    ASSUME IInv, NEW o \in Objs, NEW t \in Tags, BasicCancel(o, t)
    PROVE  IInv'
<1>1. PICK c \in Ids : c = objs[o].id
  BY HeldId DEF IInv, BasicCancel
<1>2. /\ CancelRpc(c, t)
      /\ callbacks' = IF callbacks[c] = None THEN callbacks
                      ELSE [callbacks EXCEPT ![c] = @ \ {t}]
      /\ Idle /\ UNCHANGED <<channels, used, objs, fresh, lost>>
  BY <1>1 DEF BasicCancel
<1>3. Fine(c, bcons[c], "ok") /\ (InSession' => t \notin bcons'[c])
  BY <1>2, CancelFine DEF IInv, TypeOK
<1>4. /\ connected' => connected
      /\ InSession' =>
           /\ InSession
           /\ \A d \in Ids : bchan'[d] = "closed" => bchan[d] = "closed"
           /\ \A d \in Ids : bcons'[d] \subseteq bcons[d]
  BY <1>3 DEF Fine, Effect, InSession
<1>5. callbacks \in [Ids -> (SUBSET Tags) \cup {None}]
  BY DEF IInv, TypeOK
<1>6. callbacks' \in [Ids -> (SUBSET Tags) \cup {None}]
  BY <1>2, <1>5
<1>7. \A d \in Ids :
        /\ callbacks'[d] = None <=> callbacks[d] = None
        /\ callbacks[d] # None /\ d # c => callbacks'[d] = callbacks[d]
        /\ callbacks[d] # None /\ d = c => callbacks'[d] = callbacks[d] \ {t}
  <2>1. CASE callbacks[c] = None
    BY <1>2, <2>1
  <2>2. CASE callbacks[c] # None
    BY <1>2, <1>5, <2>2
  <2> QED
    BY <2>1, <2>2
<1>8. TypeOK' /\ ConsumersOpen'
  BY <1>2, <1>3, <1>6 DEF IInv, TypeOK, Fine
<1>9. \A d \in Ids : Registered(d)' <=> Registered(d)
  BY <1>2 DEF Registered
<1>10. EntriesAreOwn' /\ RegisteredIsOpen' /\ RegisteredIsLive'
  BY <1>2, <1>4, <1>7, <1>9 DEF IInv, EntriesAreOwn, RegisteredIsOpen, RegisteredIsLive
<1>11. ConsumerHasCallback'
  BY <1>3, <1>4, <1>7, <1>9 DEF IInv, ConsumerHasCallback
<1>12. FreshIsRegistered'
  BY <1>2, <1>4, <1>9 DEF IInv, FreshIsRegistered, TypeOK, Idle, Hung, Waits
<1> QED
  BY <1>8, <1>10, <1>11, <1>12 DEF IInv

(* A step that leaves the connection closed preserves whatever the registry  *)
(* holds.                                                                    *)
LEMMA ClosedPreserves ==
    ASSUME TypeOK', ConsumersOpen', EntriesAreOwn', ~connected'
    PROVE  IInv'
BY DEF IInv, RegisteredIsOpen, RegisteredIsLive, ConsumerHasCallback, FreshIsRegistered,
   InSession

(* A call that may fail by closing the connection, and otherwise returns     *)
(* without having done anything.                                             *)
LEMMA FailPreserves ==
    ASSUME IInv, NEW r \in Results, NEW c \in Ids \cup {0}, Fail(r, c), UNCHANGED pyVars
    PROVE  IInv'
<1>1. ConnectionTypeOK' /\ ConsumersOpen' /\ connected' = FALSE
  BY FailFine DEF IInv, TypeOK
<1>2. TypeOK' /\ EntriesAreOwn'
  BY <1>1 DEF IInv, TypeOK, EntriesAreOwn, pyVars
<1> QED
  BY <1>1, <1>2, ClosedPreserves

(* A call that only returns preserves it. *)
LEMMA ReturnPreserves ==
    ASSUME IInv, NEW r \in Results, NEW c \in Ids \cup {0}, Return(r, c), UNCHANGED pyVars,
           ret.res # "hang"
    PROVE  IInv'
<1>1. TypeOK'
  BY ResultType DEF IInv, TypeOK, ConnectionTypeOK, BrokerTypeOK, Return, pyVars,
     connVars, brokerVars
<1>2. /\ ConsumersOpen' /\ EntriesAreOwn' /\ RegisteredIsOpen' /\ RegisteredIsLive'
      /\ ConsumerHasCallback' /\ FreshIsRegistered'
  BY DEF IInv, ConsumersOpen, EntriesAreOwn, RegisteredIsOpen, RegisteredIsLive,
     ConsumerHasCallback, FreshIsRegistered, Registered, InSession, Return, pyVars,
     connVars, brokerVars
<1> QED
  BY <1>1, <1>2 DEF IInv

(* After a login nothing is registered in the new session yet. *)
LEMMA ConnectPreserves ==
    ASSUME IInv, Connect
    PROVE  IInv'
<1>1. CASE Return("ConnectionError", 0) /\ UNCHANGED pyVars
  BY <1>1, ReturnPreserves DEF Connect, Idle, Hung, Waits, Results
<1>2. CASE (ConnectUnreachable \/ ConnectRefused) /\ UNCHANGED pyVars
  <2>1. TypeOK'
    <3>1. ret' \in [res : Results, ch : Ids \cup {0}]
      <4>1. ret' = Result("ConnectionError", 0)
        BY <1>2 DEF ConnectUnreachable, ConnectRefused
      <4>2. "ConnectionError" \in Results
        BY DEF Results
      <4> QED
        BY <4>1, <4>2, ResultType
    <3>2. /\ conn' \in {"null", "live", "destroyed"} /\ sockfd' \in BOOLEAN
          /\ UNCHANGED <<connected, channel_max, brokerVars, pyVars>>
      BY <1>2 DEF ConnectUnreachable, ConnectRefused, IInv, TypeOK, ConnectionTypeOK
    <3>3. BrokerTypeOK'
      BY <3>2 DEF IInv, TypeOK, ConnectionTypeOK, BrokerTypeOK, brokerVars
    <3> QED
      BY <3>1, <3>2, <3>3 DEF IInv, TypeOK, ConnectionTypeOK, pyVars
  <2>2. ConsumersOpen' /\ EntriesAreOwn' /\ ~connected'
    BY <1>2 DEF ConnectUnreachable, ConnectRefused, NotConnected, IInv, ConsumersOpen,
       EntriesAreOwn, pyVars, brokerVars
  <2> QED
    BY <2>1, <2>2, ClosedPreserves
<1>3. CASE LoggedIn
  <2>1. << >> \in Seq(Frames)
    BY EmptySeq
  <2>2. BrokerTypeOK' /\ ConsumersOpen'
    BY <1>3, <2>1 DEF LoggedIn, ConnectAccepted, SessionStarts, BrokerTypeOK, ConsumersOpen
  <2>3. ConnectionTypeOK'
    <3>1. channel_max' \in Ids
      BY <1>3 DEF LoggedIn, ConnectAccepted, IInv, TypeOK, ConnectionTypeOK, Ids
    <3>2. ret' \in [res : Results, ch : Ids \cup {0}]
      <4>1. ret' = Result("ok", 0) \/ ret' = Result("raised", 0)
        BY <1>3 DEF LoggedIn, ConnectAccepted
      <4>2. "ok" \in Results /\ "raised" \in Results /\ 0 \in Ids \cup {0}
        BY DEF Results
      <4> QED
        BY <4>1, <4>2, ResultType
    <3> QED
      BY <1>3, <2>2, <3>1, <3>2 DEF LoggedIn, ConnectAccepted, ConnectionTypeOK
  <2>4. /\ objs' \in [Objs -> ObjRecord]
        /\ \A o \in Objs : objs'[o].current = FALSE /\ objs'[o].id = objs[o].id
    BY <1>3 DEF LoggedIn, IInv, TypeOK, ObjRecord
  <2>5. TypeOK' /\ EntriesAreOwn'
    BY <1>3, <2>3, <2>4 DEF LoggedIn, IInv, TypeOK, EntriesAreOwn
  <2>6. \A c \in Ids : ~Registered(c)'
    BY <1>3, <2>4 DEF LoggedIn, Registered, IInv, TypeOK
  <2>7. /\ RegisteredIsOpen' /\ RegisteredIsLive' /\ ConsumerHasCallback'
        /\ FreshIsRegistered'
    BY <1>3, <2>6 DEF LoggedIn, RegisteredIsOpen, RegisteredIsLive, ConsumerHasCallback,
       FreshIsRegistered
  <2> QED
    BY <2>2, <2>5, <2>7 DEF IInv
<1> QED
  BY <1>1, <1>2, <1>3 DEF Connect

(* What is dropped is not registered. *)
LEMMA ForgetPreserves ==
    ASSUME IInv, NEW o \in Objs, Forget(o)
    PROVE  IInv'
<1>1. /\ objs' = [objs EXCEPT ![o] = NoObj]
      /\ UNCHANGED <<brokerVars, connVars, ret, channels, callbacks, used, fresh, lost>>
      /\ \A c \in Ids : channels[c] # o
  BY DEF Forget
<1>2. NoObj \in ObjRecord
  BY DEF NoObj, ObjRecord
<1>3. TypeOK' /\ ConsumersOpen'
  BY <1>1, <1>2 DEF IInv, TypeOK, ConnectionTypeOK, BrokerTypeOK, ConsumersOpen,
     connVars, brokerVars
<1>4. \A c \in Ids : channels[c] # None => objs'[channels[c]] = objs[channels[c]]
  BY <1>1 DEF IInv, TypeOK
<1>5. \A c \in Ids : Registered(c)' <=> Registered(c)
  BY <1>1, <1>4 DEF Registered
<1>6. InSession' <=> InSession
  BY <1>1 DEF InSession, connVars, brokerVars
<1>7. EntriesAreOwn' /\ RegisteredIsOpen'
  BY <1>1, <1>4, <1>5 DEF IInv, EntriesAreOwn, RegisteredIsOpen, connVars, Registered
<1>8. RegisteredIsLive' /\ ConsumerHasCallback'
  BY <1>1, <1>5, <1>6 DEF IInv, RegisteredIsLive, ConsumerHasCallback, brokerVars
<1>9. FreshIsRegistered'
  BY <1>1, <1>5 DEF IInv, TypeOK, FreshIsRegistered, connVars
<1> QED
  BY <1>3, <1>7, <1>8, <1>9 DEF IInv

(* channel(): what is registered is open, and has nobody else's id. *)
LEMMA OpenPreserves ==
    ASSUME IInv, Idle, NEW c \in Ids, NEW o \in Objs, OpenAndRegister(c, o),
           UNCHANGED lost,
           \/ used' = used \cup {c} /\ fresh' = fresh \cup {c}
           \/ UNCHANGED <<used, fresh>>
    PROVE  IInv'
<1>1. /\ o \in Objs \ Held
      /\ ChannelOpen(c)
      /\ ret'.res = "ok" =>
           /\ callbacks' = [callbacks EXCEPT ![c] = {}]
           /\ channels' = [channels EXCEPT ![c] = o]
           /\ objs' = [objs EXCEPT ![o] = [id |-> c, is_open |-> TRUE, current |-> TRUE]]
      /\ ret'.res # "ok" => UNCHANGED <<callbacks, channels, objs>>
  BY DEF OpenAndRegister, Returned
<1>2. used' \in SUBSET Ids /\ fresh' \in SUBSET Ids /\ lost' \in SUBSET Ids
  BY DEF IInv, TypeOK
<1>3. CASE ret'.res # "ok" /\ ConnectionTypeOK' /\ ConsumersOpen' /\ ~connected'
  <2>1. TypeOK' /\ EntriesAreOwn'
    BY <1>1, <1>2, <1>3 DEF IInv, TypeOK, EntriesAreOwn
  <2> QED
    BY <1>3, <2>1, ClosedPreserves
<1>4. CASE NotConnected /\ Return("ConnectionError", c)
  <2>1. Fine(c, {}, "ok") /\ ret'.res = "ConnectionError"
    BY <1>4, ReturnFine, ResultType DEF IInv, TypeOK, Results, Return
  <2> QED
    BY <1>3, <1>4, <2>1 DEF Fine, NotConnected, Return, connVars
<1>5. CASE Fail("ConnectionError", c)
  BY <1>3, <1>5, FailFine DEF IInv, TypeOK, Results
<1>6. CASE Return("hang", c)
  <2>1. ret'.res = "hang" /\ UNCHANGED <<connVars, brokerVars>>
    BY <1>6, ResultType DEF Return, Results
  <2>2. UNCHANGED <<callbacks, channels, objs>>
    BY <1>1, <2>1
  <2>3. Fine(c, {}, "ok")
    BY <1>6, ReturnFine DEF IInv, TypeOK, Results
  <2>4. TypeOK' /\ ConsumersOpen' /\ FreshIsRegistered'
    BY <1>2, <2>1, <2>2, <2>3 DEF Fine, IInv, TypeOK, FreshIsRegistered
  <2>5. /\ EntriesAreOwn' /\ RegisteredIsOpen' /\ RegisteredIsLive'
        /\ ConsumerHasCallback'
    BY <2>1, <2>2 DEF IInv, EntriesAreOwn, RegisteredIsOpen, RegisteredIsLive,
       ConsumerHasCallback, Registered, InSession, connVars, brokerVars
  <2> QED
    BY <2>4, <2>5 DEF IInv
<1>7. CASE connected /\ Opened(c) /\ ret' = Result("ok", c) /\ UNCHANGED connVars
  <2>1. ret' \in [res : Results, ch : Ids \cup {0}] /\ ret'.res = "ok"
    BY <1>7, ResultType DEF Results
  <2>2. queued' \in Seq(Frames) /\ wire' \in Seq(Frames)
    BY <1>7, ReadOnType DEF Opened, IInv, TypeOK, ConnectionTypeOK
  <2>3. /\ link = "up" /\ link' = link
        /\ bchan' = [bchan EXCEPT ![c] = "open"]
        /\ bcons' = [bcons EXCEPT ![c] = {}]
    BY <1>7 DEF Opened
  <2>4. BrokerTypeOK' /\ ConsumersOpen'
    BY <2>2, <2>3 DEF IInv, TypeOK, ConnectionTypeOK, BrokerTypeOK, ConsumersOpen
  <2>5. ConnectionTypeOK'
    BY <1>7, <2>1, <2>4 DEF IInv, TypeOK, ConnectionTypeOK, connVars
  <2>6. /\ callbacks' = [callbacks EXCEPT ![c] = {}]
        /\ channels' = [channels EXCEPT ![c] = o]
        /\ objs' = [objs EXCEPT ![o] = [id |-> c, is_open |-> TRUE, current |-> TRUE]]
    BY <1>1, <2>1
  <2>7. TypeOK'
    BY <1>2, <2>5, <2>6 DEF IInv, TypeOK, ObjRecord
  <2>8. \A d \in Ids : channels[d] # o
    BY <1>1 DEF IInv, EntriesAreOwn, TypeOK, Held, Ids
  <2>9. \A d \in Ids : d # c =>
          /\ channels'[d] = channels[d] /\ callbacks'[d] = callbacks[d]
          /\ channels[d] # None => objs'[channels[d]] = objs[channels[d]]
          /\ bchan'[d] = bchan[d] /\ bcons'[d] = bcons[d]
          /\ Registered(d)' <=> Registered(d)
    BY <2>3, <2>6, <2>8 DEF IInv, TypeOK, ConnectionTypeOK, BrokerTypeOK, Registered
  <2>10. /\ channels'[c] = o /\ callbacks'[c] = {} /\ bchan'[c] = "open" /\ bcons'[c] = {}
         /\ objs'[o].id = c /\ objs'[o].is_open /\ objs'[o].current
         /\ o # None /\ callbacks'[c] # None /\ Registered(c)'
    BY <2>3, <2>6 DEF IInv, TypeOK, ConnectionTypeOK, BrokerTypeOK, Registered
  <2>11. InSession /\ InSession' /\ connected'
    BY <1>7, <2>3 DEF InSession, connVars
  <2>12. EntriesAreOwn'
    BY <2>9, <2>10 DEF IInv, EntriesAreOwn
  <2>13. RegisteredIsOpen' /\ RegisteredIsLive'
    BY <2>9, <2>10, <2>11, <1>7 DEF IInv, RegisteredIsOpen, RegisteredIsLive, Registered
  <2>14. ConsumerHasCallback'
    BY <2>9, <2>10, <2>11 DEF IInv, ConsumerHasCallback
  <2>15. FreshIsRegistered'
    <3>1. \A d \in fresh : d \in used /\ Registered(d)
      BY <1>7 DEF IInv, FreshIsRegistered, Idle, Hung, Waits
    <3>2. \A d \in fresh' : d \in used' /\ (d \in fresh \/ d = c) /\ d \in Ids
      BY <1>2, <3>1
    <3> QED
      BY <2>9, <2>10, <3>1, <3>2 DEF FreshIsRegistered
  <2> QED
    BY <2>4, <2>7, <2>12, <2>13, <2>14, <2>15 DEF IInv
<1> QED
  BY <1>1, <1>4, <1>5, <1>6, <1>7 DEF ChannelOpen, Silence

(* channel() preserves it, the id being taken before the open. *)
LEMMA ChannelPreserves ==
    ASSUME IInv, NEW o \in Objs, Channel(o)
    PROVE  IInv'
<1>1. PICK c \in FreeIds :
        /\ used' = used \cup {c}
        /\ fresh' = fresh \cup {c}
        /\ OpenAndRegister(c, o)
  BY DEF Channel
<1>2. c \in Ids
  BY DEF FreeIds, IInv, TypeOK, ConnectionTypeOK, Ids
<1> QED
  BY <1>1, <1>2, OpenPreserves DEF Channel

(* So does channel(c). *)
LEMMA ChannelByIdPreserves ==
    ASSUME IInv, NEW c \in Ids, NEW o \in Objs, ChannelById(c, o)
    PROVE  IInv'
BY OpenPreserves DEF ChannelById

(* Channel.close takes the entry with it, unless the connection is gone: no  *)
(* entry of a connection that goes on points to an object that is closed.    *)
LEMMA CloseChannelPreserves ==
    ASSUME IInv, NEW o \in Objs, CloseChannel(o)
    PROVE  IInv'
<1>1. PICK c \in Ids : c = objs[o].id
  BY HeldId DEF IInv, CloseChannel
<1>2. /\ Idle
      /\ ChannelClose(c)
      /\ objs' = [objs EXCEPT ![o].is_open = FALSE]
      /\ ret'.res \in {"ok", "ChannelError"} =>
           /\ channels' = [channels EXCEPT ![c] = None]
           /\ callbacks' = [callbacks EXCEPT ![c] = None]
           /\ used' = used \ {c}
           /\ fresh' = fresh \ {c}
      /\ ret'.res \notin {"ok", "ChannelError"} => UNCHANGED <<channels, callbacks, used, fresh>>
      /\ UNCHANGED lost
  BY <1>1 DEF CloseChannel
<1>3. /\ objs' \in [Objs -> ObjRecord]
      /\ \A p \in Objs : objs'[p].id = objs[p].id /\ objs'[p].current = objs[p].current
      /\ \A p \in Objs : p # o => objs'[p] = objs[p]
  <2>1. objs \in [Objs -> ObjRecord]
    BY DEF IInv, TypeOK
  <2>2. objs' = [objs EXCEPT ![o] = [objs[o] EXCEPT !.is_open = FALSE]]
    BY <1>2, <2>1
  <2>3. /\ [objs[o] EXCEPT !.is_open = FALSE] \in ObjRecord
        /\ [objs[o] EXCEPT !.is_open = FALSE].id = objs[o].id
        /\ [objs[o] EXCEPT !.is_open = FALSE].current = objs[o].current
    BY <2>1 DEF ObjRecord
  <2> QED
    BY <2>1, <2>2, <2>3
<1>4. /\ channels' \in [Ids -> Objs \cup {None}]
      /\ callbacks' \in [Ids -> (SUBSET Tags) \cup {None}]
      /\ used' \in SUBSET Ids /\ fresh' \in SUBSET Ids /\ lost' \in SUBSET Ids
  BY <1>2 DEF IInv, TypeOK
<1>5. EntriesAreOwn'
  <2>1. \A d \in Ids : channels'[d] # None =>
          channels[d] # None /\ channels'[d] = channels[d] /\ callbacks'[d] = callbacks[d]
    BY <1>2 DEF IInv, TypeOK
  <2> QED
    BY <1>3, <2>1 DEF IInv, EntriesAreOwn, TypeOK
<1>6. ASSUME ConnectionTypeOK', ConsumersOpen', ~connected'
      PROVE  IInv'
  <2>1. TypeOK'
    BY <1>3, <1>4, <1>6 DEF TypeOK
  <2> QED
    BY <1>5, <1>6, <2>1, ClosedPreserves
<1>7. CASE NotConnected /\ Return("ConnectionError", c)
  <2>1. Fine(c, {}, "ok")
    BY <1>7, ReturnFine DEF IInv, TypeOK, Results
  <2> QED
    BY <1>6, <1>7, <2>1 DEF Fine, NotConnected, Return, connVars
<1>8. CASE Fail("ConnectionError", c)
  BY <1>6, <1>8, FailFine DEF IInv, TypeOK, Results
<1>9. ASSUME ConnectionTypeOK', ConsumersOpen', UNCHANGED <<connected, link>>, connected,
             ret'.res \in {"ok", "ChannelError"},
             \A d \in Ids : d # c => bchan'[d] = bchan[d] /\ bcons'[d] = bcons[d]
      PROVE  IInv'
  <2>1. TypeOK'
    BY <1>3, <1>4, <1>9 DEF TypeOK
  <2>2. channels'[c] = None /\ ~Registered(c)'
    BY <1>2, <1>9 DEF IInv, TypeOK, Registered
  <2>3. \A d \in Ids : d # c =>
          /\ channels'[d] = channels[d] /\ callbacks'[d] = callbacks[d]
          /\ channels[d] # None => channels[d] # o /\ objs'[channels[d]] = objs[channels[d]]
    BY <1>1, <1>2, <1>3, <1>9 DEF IInv, TypeOK, EntriesAreOwn
  <2>4. \A d \in Ids : d # c => (Registered(d)' <=> Registered(d))
    BY <2>3 DEF Registered
  <2>5. RegisteredIsOpen' /\ RegisteredIsLive' /\ ConsumerHasCallback'
    BY <1>9, <2>2, <2>3, <2>4 DEF IInv, RegisteredIsOpen, RegisteredIsLive,
       ConsumerHasCallback, InSession, Registered
  <2>6. FreshIsRegistered'
    <3>1. \A d \in fresh : d \in used /\ Registered(d)
      BY <1>2, <1>9 DEF IInv, FreshIsRegistered, Idle, Hung, Waits
    <3>2. \A d \in fresh' : d \in fresh /\ d # c /\ d \in Ids /\ d \in used'
      BY <1>2, <1>4, <1>9, <3>1
    <3> QED
      BY <2>4, <3>1, <3>2 DEF FreshIsRegistered
  <2> QED
    BY <1>5, <1>9, <2>1, <2>5, <2>6 DEF IInv
<1>10. CASE connected /\ Closed(c) /\ ret' = Result("ok", c) /\ UNCHANGED connVars
  <2>1. ret' \in [res : Results, ch : Ids \cup {0}] /\ ret'.res = "ok"
    BY <1>10, ResultType DEF Results
  <2>2. queued' \in Seq(Frames) /\ wire' \in Seq(Frames)
    BY <1>10, ReadOnType DEF Closed, IInv, TypeOK, ConnectionTypeOK
  <2>3. /\ bchan' \in [Ids -> {"closed", "open", "closing"}]
        /\ bcons' = [bcons EXCEPT ![c] = {}]
        /\ \A d \in Ids : d # c => bchan'[d] = bchan[d]
        /\ link' = link
    BY <1>10 DEF Closed, IInv, TypeOK, ConnectionTypeOK, BrokerTypeOK
  <2>4. BrokerTypeOK' /\ ConsumersOpen'
    BY <2>2, <2>3 DEF IInv, TypeOK, ConnectionTypeOK, BrokerTypeOK, ConsumersOpen
  <2>5. ConnectionTypeOK'
    BY <1>10, <2>1, <2>4 DEF IInv, TypeOK, ConnectionTypeOK, connVars
  <2> QED
    BY <1>9, <1>10, <2>1, <2>3, <2>4, <2>5 DEF connVars, IInv, TypeOK, ConnectionTypeOK,
       BrokerTypeOK
<1>11. CASE connected /\ ChannelErrorRevive(c, <<Frame("other", c, None)>>)
  <2> DEFINE stray == <<Frame("other", c, None)>>
  <2>1. stray \in Seq(Frames)
    BY FrameType DEF FrameKinds
  <2>2. Fine(c, {}, "ok")
    BY <1>11, <2>1, ChannelErrorFine DEF IInv, TypeOK
  <2>3. CASE Reopened(c, stray) /\ ret' = Result("ChannelError", c) /\ UNCHANGED connVars
    <3>1. ret'.res = "ChannelError"
      BY <2>3, ResultType DEF Results
    <3>2. \A d \in Ids : d # c => bchan'[d] = bchan[d] /\ bcons'[d] = bcons[d]
      BY <2>3 DEF Reopened, IInv, TypeOK, ConnectionTypeOK, BrokerTypeOK
    <3> QED
      BY <1>9, <1>11, <2>2, <2>3, <3>1, <3>2 DEF Fine, connVars, Reopened
  <2>4. CASE Fail("ConnectionError", c)
    BY <1>8, <2>4
  <2> QED
    BY <1>11, <2>3, <2>4 DEF ChannelErrorRevive
<1> QED
  BY <1>2, <1>7, <1>8, <1>10, <1>11 DEF ChannelClose

-----------------------------------------------------------------------------
(* A frame taken is all that a dispatched delivery changes. *)
LEMMA DrainPreserves ==
    ASSUME IInv, Drain
    PROVE  IInv'
<1>1. PICK n \in DOMAIN Inbound : FirstMethod(n) /\ (Dispatch(n) \/ BadFrame(n))
  BY DEF Drain
<1>2. Idle /\ connected /\ UNCHANGED pyVars
  BY DEF Drain
<1>3. BrokerTypeOK
  BY DEF IInv, TypeOK, ConnectionTypeOK
<1>4. Inbound[n].ch \in Ids
  BY <1>3, InboundType DEF Frames
<1>5. CASE Dispatch(n)
  <2>1. PICK c \in Ids : c = Inbound[n].ch
    BY <1>4
  <2>2. ret' = Result("message", c) /\ UNCHANGED <<connVars, link, bchan, bcons>> /\ Take(n)
    BY <1>5, <2>1 DEF Dispatch
  <2>3. /\ queued \in Seq(Frames) /\ wire \in Seq(Frames)
        /\ Len(queued) \in Nat /\ Len(wire) \in Nat /\ n \in Nat
    BY <1>3, InboundType, LenProperties DEF BrokerTypeOK
  <2>4. queued' \in Seq(Frames)
    BY <2>2, <2>3, SegmentType DEF Take
  <2>5. wire' \in Seq(Frames)
    BY <2>2, <2>3, SegmentType DEF Take
  <2>6. BrokerTypeOK' /\ ConsumersOpen'
    BY <1>3, <2>2, <2>4, <2>5 DEF BrokerTypeOK, ConsumersOpen, IInv
  <2>7. ConnectionTypeOK'
    BY <2>2, <2>6, ResultType DEF IInv, TypeOK, ConnectionTypeOK, Results, connVars
  <2>8. Effect(c, bcons[c], "message")
    BY <2>2 DEF Effect, InSession, connVars
  <2>9. lost' \in SUBSET Ids
    BY <1>2 DEF IInv, TypeOK, pyVars
  <2> QED
    BY <1>2, <2>6, <2>7, <2>8, <2>9, CallPreserves DEF Fine, pyVars
<1>6. CASE \E r \in Results : Fail(r, Inbound[n].ch)
  BY <1>2, <1>4, <1>6, FailPreserves
<1> QED
  BY <1>1, <1>5, <1>6 DEF BadFrame, Results

(* A drain_events that finds nothing preserves it. *)
LEMMA DrainEmptyPreserves ==
    ASSUME IInv, DrainEmpty
    PROVE  IInv'
BY FailPreserves, ReturnPreserves DEF DrainEmpty, Idle, Hung, Waits, Results

(* The call that hangs takes the connection with it, and basic_qos has       *)
(* nothing to take.                                                          *)
LEMMA HangEndsPreserves ==
    ASSUME IInv, HangEnds
    PROVE  IInv'
<1>1. ret.ch \in Ids \cup {0} /\ UNCHANGED pyVars
  BY DEF HangEnds, IInv, TypeOK, ConnectionTypeOK
<1>2. CASE Fail("ConnectionError", ret.ch)
  BY <1>1, <1>2, FailPreserves DEF Results
<1>3. CASE ret.res = "qos hang" /\ Return("ok", ret.ch)
  BY <1>1, <1>3, ReturnPreserves DEF Results
<1> QED
  BY <1>2, <1>3 DEF HangEnds

(* The broker closes channels and drops consumers; it opens and adds none. *)
LEMMA BrokerPreserves ==
    ASSUME IInv, BrokerStep
    PROVE  IInv'
<1>1. BrokerTypeOK /\ ConsumersOpen
  BY DEF IInv, TypeOK, ConnectionTypeOK
<1>2. BrokerNext /\ UNCHANGED <<connVars, ret, pyVars>>
  BY DEF BrokerStep
<1>3. /\ BrokerTypeOK' /\ ConsumersOpen'
      /\ link' = "up" =>
           /\ link = "up"
           /\ \A d \in Ids : bchan'[d] = "closed" => bchan[d] = "closed"
           /\ \A d \in Ids : bcons'[d] \subseteq bcons[d]
  <2>1. ASSUME NEW c \in Ids, NEW t \in Tags, NEW k \in FrameKinds, Send(Frame(k, c, t)),
               UNCHANGED bcons
        PROVE  <1>3
    <3>1. wire' \in Seq(Frames)
      BY <1>1, <2>1, FrameType, AppendProperties DEF Send, BrokerTypeOK
    <3> QED
      BY <1>1, <2>1, <3>1 DEF Send, BrokerTypeOK, ConsumersOpen
  <2>2. ASSUME NEW c \in Ids, BasicReturn(c)
        PROVE  <1>3
    <3>1. wire' \in Seq(Frames) /\ UNCHANGED <<link, bchan, queued, bcons>>
      BY <1>1, <2>2, FrameType, AppendProperties DEF BasicReturn, Send, BrokerTypeOK, FrameKinds
    <3> QED
      BY <1>1, <3>1 DEF BrokerTypeOK, ConsumersOpen
  <2>3. ASSUME NEW c \in Ids, CloseChannelAsync(c)
        PROVE  <1>3
    <3>1. wire' \in Seq(Frames)
      BY <1>1, <2>3, FrameType, AppendProperties DEF CloseChannelAsync, BrokerTypeOK, FrameKinds
    <3> QED
      BY <1>1, <2>3, <3>1 DEF CloseChannelAsync, BrokerTypeOK, ConsumersOpen
  <2>4. ASSUME NEW c \in Ids, NEW t \in Tags, ConsumerGone(c, t)
        PROVE  <1>3
    BY <1>1, <2>4 DEF ConsumerGone, BrokerTypeOK, ConsumersOpen
  <2>5. CASE LinkDown
    <3>1. wire' \in Seq(Frames)
      BY <1>1, <2>5, LenProperties, SegmentType DEF LinkDown, BrokerTypeOK
    <3> QED
      BY <1>1, <2>5, <3>1 DEF LinkDown, BrokerTypeOK, ConsumersOpen
  <2> QED
    BY <1>2, <2>1, <2>2, <2>3, <2>4, <2>5 DEF BrokerNext, Deliver, FrameKinds
<1>4. TypeOK' /\ EntriesAreOwn'
  BY <1>2, <1>3 DEF IInv, TypeOK, ConnectionTypeOK, EntriesAreOwn, connVars, pyVars
<1>5. \A d \in Ids : Registered(d)' <=> Registered(d)
  BY <1>2 DEF Registered, pyVars
<1>6. RegisteredIsOpen' /\ RegisteredIsLive' /\ ConsumerHasCallback'
  BY <1>2, <1>3, <1>5 DEF IInv, RegisteredIsOpen, RegisteredIsLive, ConsumerHasCallback,
     InSession, connVars, pyVars
<1>7. FreshIsRegistered'
  BY <1>2, <1>5 DEF IInv, TypeOK, FreshIsRegistered, connVars, pyVars
<1> QED
  BY <1>3, <1>4, <1>6, <1>7 DEF IInv

-----------------------------------------------------------------------------
(* The invariant holds of a connection that was never used. *)
LEMMA InitHolds == Init => IInv
<1> SUFFICES ASSUME Init PROVE IInv
  OBVIOUS
<1>1. << >> \in Seq(Frames)
  BY EmptySeq
<1>2. ret \in [res : Results, ch : Ids \cup {0}]
  BY ResultType DEF Init, ConnectionInit, Results
<1>3. MaxChannelId \in Ids
  BY DEF Ids
<1>4. NoObj \in ObjRecord
  BY DEF NoObj, ObjRecord
<1>5. TypeOK
  BY <1>1, <1>2, <1>3, <1>4 DEF Init, ConnectionInit, BrokerInit, TypeOK, ConnectionTypeOK,
     BrokerTypeOK
<1> QED
  BY <1>5 DEF Init, ConnectionInit, BrokerInit, IInv, ConsumersOpen, EntriesAreOwn,
     RegisteredIsOpen, RegisteredIsLive, ConsumerHasCallback, FreshIsRegistered, InSession

(* Every step preserves it: one case for each action of Next. *)
LEMMA StepPreserves == IInv /\ [Next]_vars => IInv'
<1> SUFFICES ASSUME IInv, [Next]_vars PROVE IInv'
  OBVIOUS
<1>1. CASE Connect
  BY <1>1, ConnectPreserves
<1>2. CASE Close
  BY <1>2, FailPreserves DEF Close, Results
<1>3. CASE NoFreeChannel
  BY <1>3, ReturnPreserves DEF NoFreeChannel, Idle, Hung, Waits, Results
<1>4. CASE Drain
  BY <1>4, DrainPreserves
<1>5. CASE DrainEmpty
  BY <1>5, DrainEmptyPreserves
<1>6. CASE HangEnds
  BY <1>6, HangEndsPreserves
<1>7. ASSUME NEW c \in Ids, KnownChannel(c) PROVE IInv'
  BY <1>7, ReturnPreserves DEF KnownChannel, Idle, Hung, Waits, Results
<1>8. ASSUME NEW o \in Objs, Forget(o) PROVE IInv'
  BY <1>8, ForgetPreserves
<1>9. ASSUME NEW o \in Objs, Channel(o) PROVE IInv'
  BY <1>9, ChannelPreserves
<1>10. ASSUME NEW o \in Objs, CloseChannel(o) PROVE IInv'
  BY <1>10, CloseChannelPreserves
<1>11. ASSUME NEW o \in Objs, Rpc(o) PROVE IInv'
  BY <1>11, RpcPreserves
<1>12. ASSUME NEW o \in Objs, Qos(o) PROVE IInv'
  BY <1>12, QosPreserves
<1>13. ASSUME NEW o \in Objs, NEW c \in Ids, ChannelById(c, o) PROVE IInv'
  BY <1>13, ChannelByIdPreserves
<1>14. ASSUME NEW o \in Objs, NEW t \in Tags, BasicConsume(o, t) PROVE IInv'
  BY <1>14, ConsumePreserves
<1>15. ASSUME NEW o \in Objs, NEW t \in Tags, BasicCancel(o, t) PROVE IInv'
  BY <1>15, CancelPreserves
<1>16. CASE BrokerStep
  BY <1>16, BrokerPreserves
<1>17. CASE UNCHANGED vars
  <2>1. TypeOK' /\ ConsumersOpen' /\ EntriesAreOwn'
    BY <1>17 DEF IInv, TypeOK, ConnectionTypeOK, BrokerTypeOK, ConsumersOpen, EntriesAreOwn,
       vars, brokerVars, connVars, pyVars
  <2>2. /\ RegisteredIsOpen' /\ RegisteredIsLive' /\ ConsumerHasCallback'
        /\ FreshIsRegistered'
    BY <1>17 DEF IInv, RegisteredIsOpen, RegisteredIsLive, ConsumerHasCallback,
       FreshIsRegistered, Registered, InSession, vars, brokerVars, connVars, pyVars
  <2> QED
    BY <2>1, <2>2 DEF IInv
<1> QED
  BY <1>1, <1>2, <1>3, <1>4, <1>5, <1>6, <1>7, <1>8, <1>9, <1>10, <1>11, <1>12, <1>13,
     <1>14, <1>15, <1>16, <1>17 DEF Next

(* The inductive invariant holds in every reachable state. *)
THEOREM Inductive == Spec => []IInv
BY InitHolds, StepPreserves, PTL DEF Spec

(* Every variable keeps its type: in particular the frames in flight are     *)
(* frames, and the registry maps ids to objects or nothing.                  *)
THEOREM TypeCorrect == Spec => []TypeOK
<1>1. IInv => TypeOK
  BY DEF IInv
<1> QED
  BY <1>1, Inductive, PTL

(* The registry of __init__.py agrees with the broker: a registered channel  *)
(* of this session is open on both sides.                                    *)
THEOREM RegistryCorrect == Spec => []RegistryAgrees
<1>1. IInv => RegistryAgrees
  BY DEF IInv, EntriesAreOwn, RegisteredIsOpen, RegisteredIsLive, RegistryAgrees, InSession,
     Registered
<1> QED
  BY <1>1, Inductive, PTL

(* Each consumer of a registered channel has its callback. *)
THEOREM CallbacksCorrect == Spec => []ConsumerHasCallback
<1>1. IInv => ConsumerHasCallback
  BY DEF IInv
<1> QED
  BY <1>1, Inductive, PTL

(* No id is lost to a session by an open that fails in it. *)
THEOREM NoIdIsLost == Spec => []NoIdLeak
<1>1. IInv => NoIdLeak
  BY DEF IInv, FreshIsRegistered, NoIdLeak, Hung, Waits
<1> QED
  BY <1>1, Inductive, PTL

-----------------------------------------------------------------------------
(* The registry implements ChannelLease.                                     *)

(* No call but connect makes a connection. *)
LEMMA FailDisconnects ==
    ASSUME NEW r, NEW c, Fail(r, c)
    PROVE  connected' => connected
BY DEF Fail, ConnectionClose, connVars

(* Error handling connects nothing. *)
LEMMA HandlerDisconnects ==
    ASSUME NEW c, NEW reply, HandleAMQError(c, reply)
    PROVE  connected' => connected
BY FailDisconnects DEF HandleAMQError, ChannelErrorRevive, Silence, Return, connVars

(* Nor does an RPC, *)
LEMMA MethodDisconnects ==
    ASSUME NEW c, NEW cons, NEW r, Method(c, cons, r)
    PROVE  connected' => connected
BY HandlerDisconnects DEF Method, Return, connVars

(* an RPC with names or a table, *)
LEMMA EncodingMethodDisconnects ==
    ASSUME NEW c, NEW cons, NEW r, EncodingMethod(c, cons, r)
    PROVE  connected' => connected
BY MethodDisconnects DEF EncodingMethod

(* a method without a reply, *)
LEMMA PostDisconnects ==
    ASSUME NEW c, Post(c)
    PROVE  connected' => connected
BY FailDisconnects DEF Post, ReviveChannel, Return, connVars

(* a basic_get, *)
LEMMA GetDisconnects ==
    ASSUME NEW c, BasicGet(c)
    PROVE  connected' => connected
BY FailDisconnects, HandlerDisconnects DEF BasicGet, GetEmpty, GetWithoutContent,
   GetWithContent, Return, connVars

(* or any method of Channel that calls one of these. *)
LEMMA RpcDisconnects ==
    ASSUME NEW o, Rpc(o)
    PROVE  connected' => connected
<1> DEFINE c == objs[o].id
<1>1. CASE EncodingMethod(c, bcons[c], "ok") \/ Method(c, bcons[c], "ok")
  BY <1>1, EncodingMethodDisconnects, MethodDisconnects
<1>2. CASE BasicGet(c) \/ Post(c) \/ (connected /\ Return("raised", c))
  BY <1>2, GetDisconnects, PostDisconnects
<1> QED
  BY <1>1, <1>2 DEF Rpc, QueueBind, QueueUnbind, QueueDeclare, QueueDelete, QueuePurge,
     ExchangeDeclare, ExchangeDelete, Flow, BasicRecover, BasicPublish, BasicAck, BasicReject

(* The steps that leave the objects and the registry alone. *)
LEMMA QuietDisconnects ==
    ASSUME NEW o, NEW t,
           \/ Close \/ NoFreeChannel \/ Drain \/ DrainEmpty \/ HangEnds \/ BrokerStep
           \/ Rpc(o) \/ Qos(o) \/ BasicConsume(o, t) \/ BasicCancel(o, t)
    PROVE  (connected' => connected) /\ UNCHANGED <<channels, objs>>
<1>1. CASE Close \/ NoFreeChannel \/ HangEnds \/ DrainEmpty \/ BrokerStep
  <2>1. UNCHANGED <<channels, objs>>
    BY <1>1 DEF Close, NoFreeChannel, HangEnds, DrainEmpty, BrokerStep, pyVars
  <2>2. CASE Close
    BY <2>1, <2>2, FailDisconnects DEF Close
  <2>3. CASE NoFreeChannel
    BY <2>1, <2>3 DEF NoFreeChannel, Return, connVars
  <2>4. CASE HangEnds
    <3>1. Fail("ConnectionError", ret.ch) \/ Return("ok", ret.ch)
      BY <2>4, Zenon DEF HangEnds
    <3>2. CASE Fail("ConnectionError", ret.ch)
      BY <2>1, <3>2, FailDisconnects
    <3>3. CASE Return("ok", ret.ch)
      BY <2>1, <3>3 DEF Return, connVars
    <3> QED
      BY <3>1, <3>2, <3>3
  <2>5. CASE DrainEmpty
    BY <2>1, <2>5, FailDisconnects DEF DrainEmpty, Return, connVars
  <2>6. CASE BrokerStep
    BY <2>1, <2>6 DEF BrokerStep, connVars
  <2> QED
    BY <1>1, <2>2, <2>3, <2>4, <2>5, <2>6
<1>2. CASE Drain
  BY <1>2, FailDisconnects DEF Drain, Dispatch, BadFrame, connVars, pyVars
<1>3. CASE Rpc(o)
  BY <1>3, RpcDisconnects DEF Rpc, pyVars
<1>4. CASE Qos(o)
  <2>1. UNCHANGED <<channels, objs>>
    BY <1>4 DEF Qos
  <2>2. BasicQos(objs[o].id)
    BY <1>4 DEF Qos
  <2>3. UNCHANGED connVars
    BY <2>2 DEF BasicQos, Return
  <2> QED
    BY <2>1, <2>3 DEF connVars
<1>5. CASE BasicConsume(o, t)
  <2>1. PICK r : ConsumeRpc(objs[o].id, t, r)
    BY <1>5 DEF BasicConsume
  <2>2. connected' => connected
    BY <2>1, EncodingMethodDisconnects, FailDisconnects DEF ConsumeRpc, NotConnected, Return, connVars
  <2> QED
    BY <1>5, <2>2 DEF BasicConsume
<1>6. CASE BasicCancel(o, t)
  <2>1. CancelRpc(objs[o].id, t)
    BY <1>6 DEF BasicCancel
  <2>2. connected' => connected
    BY <2>1, MethodDisconnects DEF CancelRpc, NotConnected, Return, connVars
  <2> QED
    BY <1>6, <2>2 DEF BasicCancel
<1> QED
  BY <1>1, <1>2, <1>3, <1>4, <1>5, <1>6

(* A session that ends takes every lease, and one that begins has none. *)
LEMMA EndOfSession ==
    ASSUME ~connected'
    PROVE  Lease!EndSession
BY DEF Lease!EndSession, Holder

(* Leaving objects and registry alone keeps the leases, or ends them all. *)
LEMMA QuietLease ==
    ASSUME UNCHANGED <<channels, objs>>, connected' => connected
    PROVE  Lease!EndSession \/ UNCHANGED Holder
<1>1. CASE ~connected'
  BY <1>1, EndOfSession
<1>2. CASE connected'
  BY <1>2 DEF Holder, Registered
<1> QED
  BY <1>1, <1>2

(* channel() hands out an id nobody holds: were it held, the broker would    *)
(* have the channel, and would not open it.                                  *)
LEMMA OpenIsAcquire ==
    ASSUME IInv, NEW c \in Ids, NEW o \in Objs, OpenAndRegister(c, o)
    PROVE  Lease!Acquire(c, o) \/ Lease!EndSession \/ UNCHANGED Holder
<1>1. CASE ~Returned
  <2>1. UNCHANGED <<channels, objs>>
    BY <1>1 DEF OpenAndRegister
  <2>2. connected' => connected
    BY FailDisconnects DEF OpenAndRegister, ChannelOpen, Silence, Return, NotConnected, connVars
  <2> QED
    BY <2>1, <2>2, QuietLease
<1>2. CASE ~connected'
  BY <1>2, EndOfSession
<1>3. CASE Returned /\ connected'
  <2>1. ChannelOpen(c) /\ ret'.res = "ok"
    BY <1>3 DEF OpenAndRegister, Returned
  <2>2. connected /\ Opened(c)
    <3>1. ~Fail("ConnectionError", c) /\ ~Return("hang", c) /\ ~Return("ConnectionError", c)
      BY <2>1 DEF Fail, Return, Result
    <3> QED
      BY <2>1, <3>1 DEF ChannelOpen, Silence
  <2>3. InSession /\ bchan[c] = "closed"
    BY <2>2 DEF Opened, InSession
  <2>4. ~Registered(c)
    BY <2>3 DEF IInv, RegisteredIsLive
  <2>5. /\ channels' = [channels EXCEPT ![c] = o]
        /\ objs' = [objs EXCEPT ![o] = [id |-> c, is_open |-> TRUE, current |-> TRUE]]
        /\ o \in Objs \ Held
    BY <1>3 DEF OpenAndRegister
  <2>6. \A d \in Ids : channels[d] # o
    BY <2>5 DEF IInv, EntriesAreOwn, TypeOK, Held, Ids
  <2>7. \A d \in Ids : Holder[d] # o
    BY <2>6 DEF Holder
  <2>8. Holder[c] = None
    BY <2>4 DEF Holder
  <2>9. \A d \in Ids : Holder'[d] = IF d = c THEN o ELSE Holder[d]
    <3> TAKE d \in Ids
    <3>1. CASE d = c
      <4>1. channels'[c] = o /\ objs'[o].current
        BY <2>5 DEF IInv, TypeOK
      <4>2. Registered(c)'
        BY <2>5, <4>1 DEF Registered
      <4> QED
        BY <1>3, <3>1, <4>1, <4>2 DEF Holder
    <3>2. CASE d # c
      <4>1. channels'[d] = channels[d]
        BY <2>5, <3>2 DEF IInv, TypeOK
      <4>2. channels[d] # None => objs'[channels[d]] = objs[channels[d]]
        BY <2>5, <2>6 DEF IInv, TypeOK
      <4> QED
        BY <1>3, <2>2, <3>2, <4>1, <4>2 DEF Holder, Registered
    <3> QED
      BY <3>1, <3>2
  <2>10. Holder' = [Holder EXCEPT ![c] = o]
    BY <2>9 DEF Holder
  <2> QED
    BY <2>7, <2>8, <2>10 DEF Lease!Acquire
<1> QED
  BY <1>1, <1>2, <1>3

(* Channel.close gives the id back. *)
LEMMA CloseIsRelease ==
    ASSUME IInv, NEW o \in Objs, CloseChannel(o)
    PROVE  (\E c \in Ids : Lease!Release(c)) \/ Lease!EndSession \/ UNCHANGED Holder
<1>1. PICK c \in Ids : c = objs[o].id
  BY HeldId DEF IInv, CloseChannel
<1>2. /\ ChannelClose(c)
      /\ objs' = [objs EXCEPT ![o].is_open = FALSE]
      /\ \/ channels' = [channels EXCEPT ![c] = None]
         \/ UNCHANGED channels
  BY <1>1 DEF CloseChannel
<1>3. connected' => connected
  BY <1>2, FailDisconnects DEF ChannelClose, ChannelErrorRevive, NotConnected, Return, connVars
<1>4. \A p \in Objs : objs'[p].current = objs[p].current
  <2>1. objs' = [objs EXCEPT ![o] = [objs[o] EXCEPT !.is_open = FALSE]]
    BY <1>2 DEF IInv, TypeOK
  <2>2. [objs[o] EXCEPT !.is_open = FALSE].current = objs[o].current
    BY DEF IInv, TypeOK, ObjRecord
  <2> QED
    BY <2>1, <2>2 DEF IInv, TypeOK
<1>5. CASE ~connected'
  BY <1>5, EndOfSession
<1>6. CASE connected' /\ UNCHANGED channels
  BY <1>3, <1>4, <1>6 DEF Holder, Registered, IInv, TypeOK
<1>7. CASE connected' /\ channels' = [channels EXCEPT ![c] = None]
  <2>1. \A d \in Ids : Holder'[d] = IF d = c THEN None ELSE Holder[d]
    BY <1>3, <1>4, <1>7 DEF Holder, Registered, IInv, TypeOK
  <2>2. Holder' = [Holder EXCEPT ![c] = None]
    BY <2>1 DEF Holder
  <2> QED
    BY <2>2 DEF Lease!Release
<1> QED
  BY <1>2, <1>5, <1>6, <1>7

(* What is forgotten holds nothing. *)
LEMMA ForgetIsStutter ==
    ASSUME IInv, NEW o \in Objs, Forget(o)
    PROVE  UNCHANGED Holder
<1>1. /\ objs' = [objs EXCEPT ![o] = NoObj]
      /\ UNCHANGED <<connected, channels>>
      /\ \A c \in Ids : channels[c] # o
  BY DEF Forget, connVars
<1>2. \A c \in Ids : channels[c] # None => objs'[channels[c]] = objs[channels[c]]
  BY <1>1 DEF IInv, TypeOK
<1> QED
  BY <1>1, <1>2 DEF Holder, Registered

(* Nobody holds an id before or right after a connect. *)
LEMMA ConnectIsStutter ==
    ASSUME IInv, Connect
    PROVE  Lease!EndSession \/ UNCHANGED Holder
<1>1. CASE UNCHANGED pyVars /\ UNCHANGED connected
  BY <1>1, QuietLease DEF pyVars
<1>2. CASE LoggedIn
  <2>1. ~connected
    BY <1>2 DEF LoggedIn, ConnectAccepted, NotConnected
  <2>2. \A o \in Objs : objs'[o].current = FALSE
    BY <1>2 DEF LoggedIn, IInv, TypeOK, ObjRecord
  <2>3. \A c \in Ids : ~Registered(c)'
    BY <1>2, <2>2 DEF LoggedIn, Registered, IInv, TypeOK
  <2> QED
    BY <2>1, <2>3 DEF Holder
<1> QED
  BY <1>1, <1>2 DEF Connect, ConnectUnreachable, ConnectRefused, Return, connVars

(* Every step is one of ChannelLease, or a stutter of it. *)
LEMMA StepIsLease == IInv /\ [Next]_vars => [Lease!LeaseNext]_Holder
<1> SUFFICES ASSUME IInv, [Next]_vars
             PROVE  Lease!LeaseNext \/ UNCHANGED Holder
  OBVIOUS
<1>1. CASE Connect
  BY <1>1, ConnectIsStutter DEF Lease!LeaseNext
<1>2. ASSUME NEW o \in Objs, Channel(o)
      PROVE  Lease!LeaseNext \/ UNCHANGED Holder
  <2>1. PICK c \in FreeIds : OpenAndRegister(c, o)
    BY <1>2 DEF Channel
  <2>2. c \in Ids
    BY DEF FreeIds, IInv, TypeOK, ConnectionTypeOK, Ids
  <2> QED
    BY <2>1, <2>2, OpenIsAcquire DEF Lease!LeaseNext
<1>3. ASSUME NEW o \in Objs, NEW c \in Ids, ChannelById(c, o)
      PROVE  Lease!LeaseNext \/ UNCHANGED Holder
  BY <1>3, OpenIsAcquire DEF ChannelById, Lease!LeaseNext
<1>4. ASSUME NEW o \in Objs, CloseChannel(o)
      PROVE  Lease!LeaseNext \/ UNCHANGED Holder
  BY <1>4, CloseIsRelease DEF Lease!LeaseNext
<1>5. ASSUME NEW o \in Objs, Forget(o)
      PROVE  Lease!LeaseNext \/ UNCHANGED Holder
  BY <1>5, ForgetIsStutter
<1>6. ASSUME NEW c \in Ids, KnownChannel(c)
      PROVE  Lease!LeaseNext \/ UNCHANGED Holder
  BY <1>6, QuietLease DEF KnownChannel, Return, connVars, pyVars, Lease!LeaseNext
<1>7. ASSUME NEW o, NEW t,
             \/ Close \/ NoFreeChannel \/ Drain \/ DrainEmpty \/ HangEnds \/ BrokerStep
             \/ Rpc(o) \/ Qos(o) \/ BasicConsume(o, t) \/ BasicCancel(o, t)
      PROVE  Lease!LeaseNext \/ UNCHANGED Holder
  <2>1. (connected' => connected) /\ UNCHANGED <<channels, objs>>
    BY <1>7, QuietDisconnects
  <2> QED
    BY <2>1, QuietLease DEF Lease!LeaseNext
<1>8. CASE UNCHANGED vars
  BY <1>8, QuietLease DEF vars, connVars, pyVars, Lease!LeaseNext
<1> QED
  BY <1>1, <1>2, <1>3, <1>4, <1>5, <1>6, <1>7, <1>8 DEF Next

(* The detailed specification implements the abstract one: within a session  *)
(* an id belongs to at most one Channel object, and an object to one id.     *)
THEOREM LeaseRefinement == Spec => ImplementsLease
<1>1. Init => Lease!LeaseInit
  BY DEF Init, ConnectionInit, Lease!LeaseInit, Holder
<1>2. ImplementsLease <=> Lease!LeaseSpec
  BY DEF ImplementsLease
<1> QED
  BY <1>1, <1>2, StepIsLease, Inductive, PTL DEF Spec, Lease!LeaseSpec
=============================================================================
