------------------------------ MODULE RecvFrames ------------------------------
(* Lemmas for RecvProofs: what reading, sending and arriving do to the lines *)
(* of frames.                                                                *)
EXTENDS Recv, SequenceTheorems, WellFoundedInduction, TLAPS

USE RecvAssumption

(* t is s without its element at k. *)
RemovedAt(s, t, k) ==
    /\ k \in 1..Len(s)
    /\ Len(t) = Len(s) - 1
    /\ \A i \in 1..Len(t) : t[i] = s[IF i < k THEN i ELSE i + 1]

-----------------------------------------------------------------------------
(* Sequences. *)

(* A set of numbers with something in it has a least element. *)
LEMMA LeastNumber ==
    ASSUME NEW T, T \subseteq Nat, T # {}
    PROVE  \E x \in T : \A y \in T : x <= y
<1>1. PICK x \in T : \A y \in T : ~(<<y, x>> \in OpToRel(<, Nat))
  BY WFMin, NatLessThanWellFounded
<1>2. \A y \in T : ~(y < x)
  <2> TAKE y \in T
  <2>1. <<y, x>> \in Nat \X Nat
    OBVIOUS
  <2> QED
    BY <1>1, <2>1 DEF OpToRel
<1>3. \A y \in T : x <= y
  <2> TAKE y \in T
  <2>1. x \in Nat /\ y \in Nat /\ ~(y < x)
    BY <1>2
  <2> QED
    BY <2>1
<1> QED
  BY <1>3

(* The first frame on a channel. *)
LEMMA FirstOnProperties ==
    ASSUME NEW S, NEW s \in Seq(S), NEW c
    PROVE  /\ FirstOn(s, c) \in 0..Len(s)
           /\ FirstOn(s, c) = 0 => \A i \in 1..Len(s) : s[i].ch # c
           /\ FirstOn(s, c) # 0 =>
                /\ s[FirstOn(s, c)].ch = c
                /\ \A i \in 1..Len(s) : i < FirstOn(s, c) => s[i].ch # c
<1> DEFINE on == {i \in DOMAIN s : s[i].ch = c}
<1>1. Len(s) \in Nat /\ DOMAIN s = 1..Len(s)
  BY LenProperties
<1>2. CASE on = {}
  BY <1>1, <1>2 DEF FirstOn
<1>3. CASE on # {}
  <2>1. on \subseteq Nat
    BY <1>1
  <2>2. \E i \in on : \A j \in on : i <= j
    BY <1>3, <2>1, LeastNumber
  <2> DEFINE first == CHOOSE i \in on : \A j \in on : i <= j
  <2>3. first \in on /\ \A j \in on : first <= j
    BY <2>2
  <2>4. FirstOn(s, c) = first
    BY <1>3 DEF FirstOn
  <2> HIDE DEF first
  <2>5. first \in 1..Len(s) /\ s[first].ch = c
    BY <1>1, <2>3
  <2>6. \A i \in 1..Len(s) : i < first => s[i].ch # c
    BY <1>1, <2>3, <2>5
  <2> QED
    BY <1>1, <2>4, <2>5, <2>6
<1> QED
  BY <1>2, <1>3

(* A front and a back of a sequence, and the sequence without one element. *)
LEMMA BeforeProperties ==
    ASSUME NEW S, NEW s \in Seq(S), NEW i \in 1..Len(s)
    PROVE  /\ Before(s, i) \in Seq(S) /\ Len(Before(s, i)) = i - 1
           /\ \A j \in 1..(i - 1) : Before(s, i)[j] = s[j]
<1>1. Len(s) \in Nat
  BY LenProperties
<1>2. \A j \in 1..(i - 1) : s[j] \in S
  BY <1>1, ElementOfSeq
<1> QED
  BY <1>1, <1>2, SubSeqProperties DEF Before

(* What is behind the element at i. *)
LEMMA AfterProperties ==
    ASSUME NEW S, NEW s \in Seq(S), NEW i \in 1..Len(s)
    PROVE  /\ After(s, i) \in Seq(S) /\ Len(After(s, i)) = Len(s) - i
           /\ \A j \in 1..(Len(s) - i) : After(s, i)[j] = s[i + j]
<1>1. Len(s) \in Nat
  BY LenProperties
<1>2. \A j \in (i + 1)..Len(s) : s[j] \in S
  BY <1>1, ElementOfSeq
<1>3. /\ SubSeq(s, i + 1, Len(s)) \in Seq(S)
      /\ Len(SubSeq(s, i + 1, Len(s))) = IF i + 1 <= Len(s) THEN Len(s) - (i + 1) + 1 ELSE 0
      /\ \A j \in 1..(Len(s) - (i + 1) + 1) : SubSeq(s, i + 1, Len(s))[j] = s[i + 1 + j - 1]
  BY <1>1, <1>2, SubSeqProperties
<1>4. \A j \in 1..(Len(s) - i) : After(s, i)[j] = s[i + j]
  <2> TAKE j \in 1..(Len(s) - i)
  <2>1. j \in 1..(Len(s) - (i + 1) + 1) /\ i + 1 + j - 1 = i + j
    BY <1>1
  <2> QED
    BY <1>3, <2>1 DEF After
<1> QED
  BY <1>1, <1>3, <1>4 DEF After

(* Dropping an element removes it. *)
LEMMA DropProperties ==
    ASSUME NEW S, NEW s \in Seq(S), NEW i \in 1..Len(s)
    PROVE  Drop(s, i) \in Seq(S) /\ RemovedAt(s, Drop(s, i), i)
<1>1. Len(s) \in Nat
  BY LenProperties
<1> DEFINE b == Before(s, i)
           a == After(s, i)
<1>2. /\ b \in Seq(S) /\ Len(b) = i - 1 /\ \A j \in 1..(i - 1) : b[j] = s[j]
      /\ a \in Seq(S) /\ Len(a) = Len(s) - i /\ \A j \in 1..(Len(s) - i) : a[j] = s[i + j]
  BY BeforeProperties, AfterProperties
<1>3. Drop(s, i) = b \o a
  BY DEF Drop
<1> HIDE DEF a, b
<1>4. /\ b \o a \in Seq(S) /\ Len(b \o a) = Len(b) + Len(a)
      /\ \A j \in 1..Len(b) + Len(a) : (b \o a)[j] = IF j <= Len(b) THEN b[j] ELSE a[j - Len(b)]
  BY <1>2, ConcatProperties
<1>5. Len(b) + Len(a) = Len(s) - 1
  BY <1>1, <1>2
<1>6. ASSUME NEW j \in 1..(Len(s) - 1)
      PROVE  (b \o a)[j] = s[IF j < i THEN j ELSE j + 1]
  <2>1. CASE j < i
    BY <1>1, <1>2, <1>4, <1>5, <2>1
  <2>2. CASE ~(j < i)
    <3>1. j - (i - 1) \in 1..(Len(s) - i) /\ ~(j <= Len(b)) /\ i + (j - (i - 1)) = j + 1
      BY <1>1, <1>2, <2>2
    <3>2. (b \o a)[j] = a[j - (i - 1)]
      BY <1>2, <1>4, <1>5, <3>1
    <3> QED
      BY <1>2, <2>2, <3>1, <3>2
  <2> QED
    BY <2>1, <2>2
<1> QED
  BY <1>1, <1>3, <1>4, <1>5, <1>6 DEF RemovedAt

(* Removing from either part of a concatenation removes from the whole. *)
LEMMA RemovedLeft ==
    ASSUME NEW S, NEW s \in Seq(S), NEW t \in Seq(S), NEW u \in Seq(S), NEW k,
           RemovedAt(s, t, k)
    PROVE  RemovedAt(s \o u, t \o u, k)
<1>1. Len(s) \in Nat /\ Len(u) \in Nat /\ k \in 1..Len(s) /\ Len(t) = Len(s) - 1
      /\ \A i \in 1..Len(t) : t[i] = s[IF i < k THEN i ELSE i + 1]
  BY LenProperties DEF RemovedAt
<1>2. /\ Len(s \o u) = Len(s) + Len(u)
      /\ \A i \in 1..Len(s) + Len(u) : (s \o u)[i] = IF i <= Len(s) THEN s[i] ELSE u[i - Len(s)]
  BY ConcatProperties
<1>3. /\ Len(t \o u) = Len(t) + Len(u)
      /\ \A i \in 1..Len(t) + Len(u) : (t \o u)[i] = IF i <= Len(t) THEN t[i] ELSE u[i - Len(t)]
  BY ConcatProperties
<1>4. ASSUME NEW i \in 1..(Len(t) + Len(u))
      PROVE  (t \o u)[i] = (s \o u)[IF i < k THEN i ELSE i + 1]
  <2>1. i \in 1..Len(s) + Len(u) /\ i + 1 \in 1..Len(s) + Len(u) /\ i \in 1..Len(t) + Len(u)
    BY <1>1
  <2>2. CASE i <= Len(t)
    <3>1. i \in 1..Len(t) /\ i <= Len(s) /\ i + 1 <= Len(s)
      BY <1>1, <2>2
    <3> QED
      BY <1>1, <1>2, <1>3, <2>1, <2>2, <3>1
  <2>3. CASE ~(i <= Len(t))
    <3>1. ~(i < k) /\ ~(i + 1 <= Len(s)) /\ i + 1 - Len(s) = i - Len(t)
      BY <1>1, <2>3
    <3> QED
      BY <1>2, <1>3, <2>1, <2>3, <3>1
  <2> QED
    BY <2>2, <2>3
<1>5. k \in 1..(Len(s) + Len(u)) /\ Len(t) + Len(u) = Len(s) + Len(u) - 1
  BY <1>1
<1> QED
  BY <1>2, <1>3, <1>4, <1>5 DEF RemovedAt

(* The same on the right. *)
LEMMA RemovedRight ==
    ASSUME NEW S, NEW s \in Seq(S), NEW t \in Seq(S), NEW u \in Seq(S), NEW k,
           RemovedAt(s, t, k)
    PROVE  RemovedAt(u \o s, u \o t, Len(u) + k)
<1>1. Len(s) \in Nat /\ Len(u) \in Nat /\ k \in 1..Len(s) /\ Len(t) = Len(s) - 1
      /\ \A i \in 1..Len(t) : t[i] = s[IF i < k THEN i ELSE i + 1]
  BY LenProperties DEF RemovedAt
<1>2. /\ Len(u \o s) = Len(u) + Len(s)
      /\ \A i \in 1..Len(u) + Len(s) : (u \o s)[i] = IF i <= Len(u) THEN u[i] ELSE s[i - Len(u)]
  BY ConcatProperties
<1>3. /\ Len(u \o t) = Len(u) + Len(t)
      /\ \A i \in 1..Len(u) + Len(t) : (u \o t)[i] = IF i <= Len(u) THEN u[i] ELSE t[i - Len(u)]
  BY ConcatProperties
<1>4. ASSUME NEW i \in 1..(Len(u) + Len(t))
      PROVE  (u \o t)[i] = (u \o s)[IF i < Len(u) + k THEN i ELSE i + 1]
  <2>1. i \in 1..Len(u) + Len(s) /\ i + 1 \in 1..Len(u) + Len(s) /\ i \in 1..Len(u) + Len(t)
    BY <1>1
  <2>2. CASE i <= Len(u)
    <3>1. i < Len(u) + k
      BY <1>1, <2>2
    <3> QED
      BY <1>2, <1>3, <2>1, <2>2, <3>1
  <2>3. CASE ~(i <= Len(u))
    <3>1. /\ i - Len(u) \in 1..Len(t) /\ ~(i + 1 <= Len(u)) /\ i + 1 - Len(u) = i - Len(u) + 1
          /\ (i < Len(u) + k) <=> (i - Len(u) < k)
      BY <1>1, <2>3
    <3>2. (u \o t)[i] = t[i - Len(u)]
      BY <1>3, <2>1, <2>3
    <3>3. t[i - Len(u)] = s[IF i - Len(u) < k THEN i - Len(u) ELSE i - Len(u) + 1]
      BY <1>1, <3>1
    <3>4. (u \o s)[i] = s[i - Len(u)] /\ (u \o s)[i + 1] = s[i + 1 - Len(u)]
      BY <1>2, <2>1, <2>3, <3>1
    <3> QED
      BY <3>1, <3>2, <3>3, <3>4
  <2> QED
    BY <2>2, <2>3
<1>5. Len(u) + k \in 1..(Len(u) + Len(s)) /\ Len(u) + Len(t) = Len(u) + Len(s) - 1
  BY <1>1
<1> QED
  BY <1>2, <1>3, <1>4, <1>5 DEF RemovedAt

-----------------------------------------------------------------------------
(* The places where frames are. *)
Placed ==
    /\ sock \in Seq(Frames) /\ inbuf \in Seq(Frames) /\ queued \in Seq(Frames)

(* Inbound is what is queued, then what is unparsed. *)
LEMMA InboundIs ==
    ASSUME Placed
    PROVE  /\ Unparsed \in Seq(Frames) /\ Inbound \in Seq(Frames)
           /\ Inbound = queued \o Unparsed
           /\ Len(Inbound) = Len(queued) + Len(Unparsed)
           /\ Len(queued) \in Nat /\ Len(Unparsed) \in Nat
           /\ \A i \in 1..Len(queued) : Inbound[i] = queued[i]
           /\ \A i \in 1..Len(Unparsed) : Inbound[Len(queued) + i] = Unparsed[i]
<1>1. Unparsed \in Seq(Frames) /\ Inbound = queued \o Unparsed
  BY ConcatProperties, ConcatAssociative DEF Placed, Unparsed, Inbound
<1> HIDE DEF Unparsed, Inbound
<1>2. /\ Inbound \in Seq(Frames) /\ Len(Inbound) = Len(queued) + Len(Unparsed)
      /\ \A i \in 1..Len(queued) + Len(Unparsed) :
           Inbound[i] = IF i <= Len(queued) THEN queued[i] ELSE Unparsed[i - Len(queued)]
  BY <1>1, ConcatProperties DEF Placed
<1>3. Len(queued) \in Nat /\ Len(Unparsed) \in Nat
  BY <1>1, LenProperties DEF Placed
<1>4. \A i \in 1..Len(queued) : Inbound[i] = queued[i]
  BY <1>2, <1>3
<1>5. ASSUME NEW i \in 1..Len(Unparsed) PROVE Inbound[Len(queued) + i] = Unparsed[i]
  <2>1. /\ Len(queued) + i \in 1..Len(queued) + Len(Unparsed)
        /\ ~(Len(queued) + i <= Len(queued)) /\ Len(queued) + i - Len(queued) = i
    BY <1>3
  <2> QED
    BY <1>2, <2>1
<1> QED
  BY <1>1, <1>2, <1>3, <1>4, <1>5

(* What rabbitmq-c has not looked at, after it has parsed up to i. *)
LEMMA ParseIs ==
    ASSUME Placed, NEW i \in 1..Len(Unparsed), Parse(i)
    PROVE  /\ inbuf' \in Seq(Frames) /\ sock' \in Seq(Frames)
           /\ Unparsed' = After(Unparsed, i)
<1>1. Unparsed \in Seq(Frames) /\ << >> \in Seq(Frames)
  BY InboundIs, EmptySeq
<1>2. CASE i <= Len(inbuf)
  <2>1. i \in 1..Len(inbuf) /\ Len(inbuf) \in Nat /\ Len(sock) \in Nat
    BY <1>2, LenProperties DEF Placed
  <2>2. inbuf' = After(inbuf, i) /\ sock' = sock
    BY <1>2 DEF Parse
  <2>3. inbuf' \in Seq(Frames) /\ sock' \in Seq(Frames)
    BY <2>1, <2>2, AfterProperties DEF Placed
  <2>4. After(inbuf, i) \o sock = After(inbuf \o sock, i)
    <3> DEFINE a == After(inbuf, i)
               w == After(inbuf \o sock, i)
    <3>1. /\ a \in Seq(Frames) /\ Len(a) = Len(inbuf) - i
          /\ \A j \in 1..(Len(inbuf) - i) : a[j] = inbuf[i + j]
      BY <2>1, AfterProperties DEF Placed
    <3>2. /\ inbuf \o sock \in Seq(Frames) /\ Len(inbuf \o sock) = Len(inbuf) + Len(sock)
          /\ \A j \in 1..Len(inbuf) + Len(sock) :
               (inbuf \o sock)[j] = IF j <= Len(inbuf) THEN inbuf[j] ELSE sock[j - Len(inbuf)]
      BY ConcatProperties DEF Placed
    <3>3. i \in 1..Len(inbuf \o sock)
      BY <2>1, <3>2
    <3>4. /\ w \in Seq(Frames) /\ Len(w) = Len(inbuf) + Len(sock) - i
          /\ \A j \in 1..(Len(inbuf) + Len(sock) - i) : w[j] = (inbuf \o sock)[i + j]
      <4> DEFINE v == inbuf \o sock
      <4>1. v \in Seq(Frames) /\ i \in 1..Len(v)
        BY <3>2, <3>3
      <4> HIDE DEF v
      <4>2. /\ After(v, i) \in Seq(Frames) /\ Len(After(v, i)) = Len(v) - i
            /\ \A j \in 1..(Len(v) - i) : After(v, i)[j] = v[i + j]
        BY <4>1, AfterProperties
      <4>3. Len(v) - i = Len(inbuf) + Len(sock) - i /\ w = After(v, i)
        BY <3>2 DEF v
      <4> QED
        BY <4>2, <4>3 DEF v
    <3> HIDE DEF a, w
    <3>5. /\ a \o sock \in Seq(Frames) /\ Len(a \o sock) = Len(a) + Len(sock)
          /\ \A j \in 1..Len(a) + Len(sock) :
               (a \o sock)[j] = IF j <= Len(a) THEN a[j] ELSE sock[j - Len(a)]
      BY <3>1, ConcatProperties DEF Placed
    <3>6. Len(a \o sock) = Len(w) /\ Len(w) = Len(a) + Len(sock)
      BY <2>1, <3>1, <3>4, <3>5
    <3>7. ASSUME NEW j \in 1..Len(w) PROVE (a \o sock)[j] = w[j]
      <4>1. /\ j \in 1..Len(a) + Len(sock) /\ i + j \in 1..Len(inbuf) + Len(sock)
            /\ j \in 1..(Len(inbuf) + Len(sock) - i)
            /\ i + j - Len(inbuf) = j - Len(a)
            /\ (j <= Len(a)) <=> (i + j <= Len(inbuf))
        BY <2>1, <3>1, <3>4
      <4>2. j <= Len(a) => j \in 1..(Len(inbuf) - i)
        BY <2>1, <3>1, <4>1
      <4> QED
        BY <3>1, <3>2, <3>4, <3>5, <4>1, <4>2
    <3>8. a \o sock = w
      BY <3>4, <3>5, <3>6, <3>7, SeqEqual
    <3> QED
      BY <3>8 DEF a, w
  <2> QED
    BY <2>2, <2>3, <2>4 DEF Unparsed
<1>3. CASE ~(i <= Len(inbuf))
  <2>1. inbuf' = After(Unparsed, i) /\ sock' = << >>
    BY <1>3 DEF Parse
  <2>2. After(Unparsed, i) \in Seq(Frames)
    BY <1>1, AfterProperties
  <2>3. Unparsed' = inbuf' \o sock'
    BY DEF Unparsed
  <2> QED
    BY <1>1, <2>1, <2>2, <2>3, ConcatEmptySeq
<1> QED
  BY <1>2, <1>3

(* Three runs of frames, one after the other, however they are grouped. *)
LEMMA Regroup ==
    ASSUME NEW q \in Seq(Frames), NEW f \in Seq(Frames), NEW s \in Seq(Frames)
    PROVE  (q \o f) \o s = q \o (f \o s)
BY ConcatAssociative

(* Queueing what is before i takes the frame there out of Inbound. *)
LEMMA QueueingRemoves ==
    ASSUME Placed, NEW i \in 1..Len(Unparsed), Parse(i), queued' = queued \o Before(Unparsed, i)
    PROVE  /\ Placed'
           /\ RemovedAt(Inbound, Inbound', Len(queued) + i)
           /\ Inbound[Len(queued) + i] = Unparsed[i]
<1> DEFINE b == Before(Unparsed, i)
           a == After(Unparsed, i)
<1>1. Unparsed \in Seq(Frames)
  BY InboundIs
<1>2. b \in Seq(Frames) /\ a \in Seq(Frames) /\ RemovedAt(Unparsed, b \o a, i)
      /\ b \o a \in Seq(Frames)
  BY <1>1, BeforeProperties, AfterProperties, DropProperties DEF Drop
<1>3. Unparsed' = a /\ inbuf' \in Seq(Frames) /\ sock' \in Seq(Frames)
  BY ParseIs
<1>4. queued' = queued \o b
  OBVIOUS
<1> HIDE DEF a, b
<1>5. queued \o b \in Seq(Frames) /\ (queued \o b) \o a = queued \o (b \o a)
  <2>1. queued \in Seq(Frames)
    BY DEF Placed
  <2>2. queued \o b \in Seq(Frames)
    BY <1>2, <2>1, ConcatProperties
  <2>3. (queued \o b) \o a = queued \o (b \o a)
    BY <1>2, <2>1, ConcatAssociative
  <2> QED
    BY <2>2, <2>3
<1>6. Placed'
  BY <1>3, <1>4, <1>5 DEF Placed
<1>7. Inbound' = (queued \o b) \o a
  <2>1. Inbound' = queued' \o Unparsed'
    <3>1. Inbound' = (queued' \o inbuf') \o sock'
      BY DEF Inbound
    <3>2. (queued' \o inbuf') \o sock' = queued' \o (inbuf' \o sock')
      <4>1. queued' \in Seq(Frames) /\ inbuf' \in Seq(Frames) /\ sock' \in Seq(Frames)
        BY <1>6 DEF Placed
      <4>2. PICK q, f, s \in Seq(Frames) : q = queued' /\ f = inbuf' /\ s = sock'
        BY <4>1
      <4>3. (q \o f) \o s = q \o (f \o s)
        BY Regroup
      <4> QED
        BY <4>2, <4>3
    <3> QED
      BY <3>1, <3>2 DEF Unparsed
  <2> QED
    BY <1>3, <1>4, <2>1
<1>8. RemovedAt(queued \o Unparsed, queued \o (b \o a), Len(queued) + i)
  BY <1>1, <1>2, RemovedRight DEF Placed
<1> QED
  BY <1>5, <1>6, <1>7, <1>8, InboundIs

(* Taking a queued frame takes it out of Inbound. *)
LEMMA UnqueueingRemoves ==
    ASSUME Placed, NEW i, queued' \in Seq(Frames), RemovedAt(queued, queued', i),
           UNCHANGED <<inbuf, sock>>
    PROVE  /\ Placed'
           /\ RemovedAt(Inbound, Inbound', i)
           /\ i \in 1..Len(queued) /\ Inbound[i] = queued[i]
<1>1. i \in 1..Len(queued)
  BY DEF RemovedAt
<1>2. Placed'
  BY DEF Placed
<1>3. Unparsed \in Seq(Frames) /\ Inbound = queued \o Unparsed
  BY InboundIs
<1>4. Inbound' = queued' \o Unparsed
  <2>1. Inbound' = (queued' \o inbuf) \o sock
    BY DEF Inbound
  <2>2. queued' \in Seq(Frames) /\ inbuf \in Seq(Frames) /\ sock \in Seq(Frames)
    BY <1>2 DEF Placed
  <2>3. (queued' \o inbuf) \o sock = queued' \o (inbuf \o sock)
    BY <2>2, ConcatAssociative
  <2> QED
    BY <2>1, <2>3 DEF Unparsed
<1>5. RemovedAt(queued \o Unparsed, queued' \o Unparsed, i)
  <2>1. queued \in Seq(Frames)
    BY DEF Placed
  <2> QED
    BY <1>3, <2>1, RemovedLeft
<1> QED
  BY <1>1, <1>2, <1>3, <1>4, <1>5, InboundIs

(* The frame a wait takes is the first of its channel. *)
FirstOfIts(k) == \A i \in 1..Len(Inbound) : i < k => Inbound[i].ch # Inbound[k].ch

(* Waiting for any channel takes the first frame out of Inbound. *)
LEMMA TakeAnyRemoves ==
    ASSUME Placed, Inbound # <<>>, TakeAnyFrame(0)
    PROVE  Placed' /\ RemovedAt(Inbound, Inbound', 1) /\ Inbound[1] = Head(Inbound)
<1>1. Inbound \in Seq(Frames) /\ queued \in Seq(Frames) /\ Unparsed \in Seq(Frames)
      /\ Len(queued) \in Nat /\ Len(Unparsed) \in Nat /\ Len(Inbound) \in Nat \ {0}
      /\ Len(Inbound) = Len(queued) + Len(Unparsed)
  BY InboundIs, EmptySeq DEF Placed
<1>2. Inbound[1] = Head(Inbound)
  BY <1>1
<1>3. CASE queued # <<>>
  <2>1. queued' = Tail(queued) /\ UNCHANGED <<inbuf, sock>>
    BY <1>3 DEF TakeAnyFrame
  <2>2. /\ Tail(queued) \in Seq(Frames) /\ Len(Tail(queued)) = Len(queued) - 1
        /\ \A i \in 1..Len(Tail(queued)) : Tail(queued)[i] = queued[i + 1]
    BY <1>1, <1>3, HeadTailProperties
  <2>3. Len(queued) \in Nat \ {0}
    BY <1>1, <1>3, EmptySeq
  <2>4. RemovedAt(queued, queued', 1)
    BY <2>1, <2>2, <2>3 DEF RemovedAt
  <2> QED
    BY <1>2, <2>1, <2>2, <2>4, UnqueueingRemoves
<1>4. CASE queued = <<>>
  <2>1. Len(queued) = 0 /\ UNCHANGED queued /\ Parse(1)
    BY <1>4, EmptySeq DEF TakeAnyFrame
  <2>2. 1 \in 1..Len(Unparsed)
    BY <1>1, <2>1
  <2>3. Before(Unparsed, 1) = <<>>
    BY SubSeqEmpty DEF Before
  <2>4. queued' = queued \o Before(Unparsed, 1)
    BY <1>1, <2>1, <2>3, ConcatEmptySeq
  <2>5. Placed' /\ RemovedAt(Inbound, Inbound', Len(queued) + 1)
    BY <2>1, <2>2, <2>4, QueueingRemoves
  <2>6. Len(queued) + 1 = 1
    BY <2>1
  <2> QED
    BY <1>2, <2>5, <2>6
<1> QED
  BY <1>3, <1>4

(* Waiting for channel c takes the first frame on it out of Inbound. *)
LEMMA TakeOnChannelRemoves ==
    ASSUME Placed, NEW c \in Channels, FirstOn(Inbound, c) # 0, TakeOnChannel(c)
    PROVE  Placed' /\ RemovedAt(Inbound, Inbound', FirstOn(Inbound, c))
<1>1. /\ Inbound \in Seq(Frames) /\ queued \in Seq(Frames) /\ Unparsed \in Seq(Frames)
      /\ Len(queued) \in Nat /\ Len(Unparsed) \in Nat
      /\ Len(Inbound) = Len(queued) + Len(Unparsed)
      /\ \A i \in 1..Len(queued) : Inbound[i] = queued[i]
      /\ \A i \in 1..Len(Unparsed) : Inbound[Len(queued) + i] = Unparsed[i]
  BY InboundIs DEF Placed
<1> DEFINE i == FirstOn(queued, c)
           j == FirstOn(Unparsed, c)
           k == FirstOn(Inbound, c)
<1>2. /\ i \in 0..Len(queued)
      /\ i = 0 => \A n \in 1..Len(queued) : queued[n].ch # c
      /\ i # 0 => queued[i].ch = c /\ \A n \in 1..Len(queued) : n < i => queued[n].ch # c
  BY <1>1, FirstOnProperties
<1>3. /\ j \in 0..Len(Unparsed)
      /\ j = 0 => \A n \in 1..Len(Unparsed) : Unparsed[n].ch # c
      /\ j # 0 => Unparsed[j].ch = c /\ \A n \in 1..Len(Unparsed) : n < j => Unparsed[n].ch # c
  BY <1>1, FirstOnProperties
<1>4. k \in 1..Len(Inbound) /\ Inbound[k].ch = c
      /\ \A n \in 1..Len(Inbound) : n < k => Inbound[n].ch # c
  <2>1. k \in 0..Len(Inbound) /\ k # 0 /\ Inbound[k].ch = c
        /\ \A n \in 1..Len(Inbound) : n < k => Inbound[n].ch # c
    BY <1>1, FirstOnProperties
  <2> QED
    BY <1>1, <2>1
<1> HIDE DEF i, j, k
<1>5. IF i # 0
      THEN queued' = Drop(queued, i) /\ UNCHANGED <<inbuf, sock>>
      ELSE queued' = queued \o Before(Unparsed, j) /\ Parse(j)
  BY DEF TakeOnChannel, i, j
<1>6. CASE i # 0
  <2>1. i \in 1..Len(queued) /\ i \in 1..Len(Inbound) /\ Inbound[i].ch = c
    BY <1>1, <1>2, <1>6
  <2>2. \A n \in 1..Len(Inbound) : n < i => Inbound[n].ch # c
    <3> TAKE n \in 1..Len(Inbound)
    <3>1. n < i => n \in 1..Len(queued)
      BY <1>1, <2>1
    <3> QED
      BY <1>1, <1>2, <1>6, <3>1
  <2>3. k = i
    BY <1>1, <1>4, <2>1, <2>2
  <2>4. Drop(queued, i) \in Seq(Frames) /\ RemovedAt(queued, Drop(queued, i), i)
    BY <1>1, <2>1, DropProperties
  <2>5. Placed' /\ RemovedAt(Inbound, Inbound', i)
    BY <1>5, <1>6, <2>4, UnqueueingRemoves
  <2> QED
    BY <2>3, <2>5 DEF k
<1>7. CASE i = 0
  <2>1. ~(k \in 1..Len(queued))
    BY <1>1, <1>2, <1>4, <1>7
  <2>2. /\ k - Len(queued) \in 1..Len(Unparsed)
        /\ Len(queued) + (k - Len(queued)) = k
    BY <1>1, <1>4, <2>1
  <2>3. Unparsed[k - Len(queued)].ch = c
    BY <1>1, <1>4, <2>2
  <2>4. j \in 1..Len(Unparsed) /\ Unparsed[j].ch = c
    BY <1>1, <1>3, <2>2, <2>3
  <2>5. Placed' /\ RemovedAt(Inbound, Inbound', Len(queued) + j)
    BY <1>5, <1>7, <2>4, QueueingRemoves
  <2>6. \A n \in 1..Len(Unparsed) : n < k - Len(queued) => Unparsed[n].ch # c
    <3> TAKE n \in 1..Len(Unparsed)
    <3>1. /\ Len(queued) + n \in 1..Len(Inbound)
          /\ n < k - Len(queued) => Len(queued) + n < k
      BY <1>1, <1>4
    <3> QED
      BY <1>1, <1>4, <3>1
  <2>7. j = k - Len(queued)
    BY <1>1, <1>3, <2>2, <2>3, <2>4, <2>6
  <2>8. Len(queued) + j = k
    BY <2>2, <2>7
  <2> QED
    BY <2>5, <2>8 DEF k
<1> QED
  BY <1>6, <1>7 DEF k

(* Both ways of taking a frame, in one. *)
LEMMA TakeFrameRemoves ==
    ASSUME Placed, NEW c \in Channels \cup {0}, Available(c), TakeFrame(c)
    PROVE  /\ Placed'
           /\ \E k \in 1..Len(Inbound) :
                /\ RemovedAt(Inbound, Inbound', k) /\ FirstOfIts(k)
                /\ Inbound[k] = Taken(c) /\ (c # 0 => Inbound[k].ch = c)
<1>1. Inbound \in Seq(Frames) /\ Len(Inbound) \in Nat
  BY InboundIs, LenProperties
<1>2. CASE c = 0
  <2>1. Placed' /\ RemovedAt(Inbound, Inbound', 1) /\ Inbound[1] = Head(Inbound)
    BY <1>2, TakeAnyRemoves DEF TakeFrame, TakeAnyFrame, Available
  <2>2. 1 \in 1..Len(Inbound) /\ FirstOfIts(1)
    BY <1>1, <2>1 DEF RemovedAt, FirstOfIts
  <2> QED
    BY <1>2, <2>1, <2>2 DEF Taken
<1>3. CASE c # 0
  <2> DEFINE k == FirstOn(Inbound, c)
  <2>1. c \in Channels /\ k # 0 /\ TakeOnChannel(c) /\ Taken(c) = Inbound[k]
    BY <1>3 DEF TakeFrame, Available, Taken
  <2>2. k \in 0..Len(Inbound) /\ Inbound[k].ch = c
        /\ \A n \in 1..Len(Inbound) : n < k => Inbound[n].ch # c
    BY <1>1, <2>1, FirstOnProperties
  <2>3. k \in 1..Len(Inbound) /\ FirstOfIts(k)
    BY <1>1, <2>1, <2>2 DEF FirstOfIts
  <2>4. Placed' /\ RemovedAt(Inbound, Inbound', k)
    BY <2>1, TakeOnChannelRemoves
  <2> QED
    BY <2>1, <2>2, <2>3, <2>4
<1> QED
  BY <1>2, <1>3

-----------------------------------------------------------------------------
(* Lines.  A frame is in the line of its channel if it is in Inbound or on   *)
(* its way.                                                                  *)
LEMMA LineMember ==
    ASSUME NEW c, NEW f
    PROVE  f \in Line(c) <=> f.ch = c /\ (Within(Inbound, f) \/ Within(out[c], f))
BY DEF Line, Within

(* Being older is a strict order. *)
LEMMA OlderOrder ==
    ASSUME NEW f \in Frames, NEW g \in Frames
    PROVE  /\ ~Older(f, f)
           /\ ~(Older(f, g) /\ Older(g, f))
           /\ \A h \in Frames : Older(f, g) /\ Older(g, h) => Older(f, h)
<1>1. \A h \in Frames : h.msg \in Nat /\ Stage(h) \in Nat
  BY DEF Frames, Stage
<1> HIDE DEF Stage
<1> QED
  BY <1>1 DEF Older

(* Nothing comes between a frame and the one that follows it up. *)
LEMMA FollowUpIsNext ==
    ASSUME NEW f \in Frames, NEW g \in Frames, Valid(f), FollowedUp(f)
    PROVE  /\ FollowUp(f).ch = f.ch /\ FollowUp(f).msg = f.msg
           /\ FollowUp(f).kind \notin MethodKinds
           /\ Older(f, FollowUp(f))
           /\ Older(f, g) => ~Older(g, FollowUp(f))
<1>1. f.part \in Nat /\ g.part \in Nat /\ f.msg \in Nat /\ g.msg \in Nat
  BY DEF Frames
<1>2. CASE f.kind \in MethodKinds
  BY <1>1, <1>2 DEF FollowUp, Frame, Older, Stage, MethodKinds
<1>3. CASE f.kind \notin MethodKinds
  BY <1>1, <1>3 DEF FollowUp, Frame, Older, Stage, MethodKinds
<1> QED
  BY <1>2, <1>3

(* What a valid frame says of the message it names. *)
LEMMA ValidFacts ==
    ASSUME NEW f \in Frames, Valid(f), f.kind # "reply"
    PROVE  /\ f.msg \in DOMAIN msgs /\ msgs[f.msg].ch = f.ch
           /\ f.kind \in MethodKinds => f.part = 0 /\ f.kind = msgs[f.msg].kind /\ Stage(f) = 0
           /\ f.kind = "header" => f.part = 0 /\ msgs[f.msg].kind # "return" /\ Stage(f) = 1
           /\ f.kind = "body" => /\ f.part \in 1..msgs[f.msg].parts /\ msgs[f.msg].kind # "return"
                                 /\ Stage(f) = f.part + 1
           /\ f.kind \in MethodKinds \/ f.kind = "header" \/ f.kind = "body"
<1> DEFINE m == msgs[f.msg]
<1>1. f.kind \in MethodKinds \/ f.kind = "header" \/ f.kind = "body"
  BY DEF Frames
<1>2. /\ f.msg \in DOMAIN msgs /\ m.ch = f.ch
      /\ CASE f.kind \in MethodKinds -> f.part = 0 /\ f.kind = m.kind
           [] f.kind = "header"      -> f.part = 0 /\ m.kind # "return"
           [] f.kind = "body"        -> f.part \in 1..m.parts /\ m.kind # "return"
  BY DEF Valid
<1> HIDE DEF m
<1>3. CASE f.kind \in MethodKinds
  <2>1. f.kind # "header" /\ f.kind # "body"
    BY <1>3 DEF MethodKinds
  <2>2. f.part = 0 /\ f.kind = m.kind
    BY <1>2, <1>3, <2>1
  <2> QED
    BY <1>2, <1>3, <2>1, <2>2 DEF m, Stage
<1>4. CASE f.kind = "header"
  <2>1. f.kind \notin MethodKinds /\ f.kind # "body"
    BY <1>4 DEF MethodKinds
  <2>2. f.part = 0 /\ m.kind # "return"
    BY <1>2, <1>4, <2>1
  <2>3. Stage(f) = 1
    BY <2>1, <2>2 DEF Stage
  <2> QED
    BY <1>2, <1>4, <2>1, <2>2, <2>3 DEF m
<1>5. CASE f.kind = "body"
  <2>1. f.kind \notin MethodKinds /\ f.kind # "header"
    BY <1>5 DEF MethodKinds
  <2>2. f.part \in 1..m.parts /\ m.kind # "return"
    BY <1>2, <1>5, <2>1
  <2>3. Stage(f) = f.part + 1
    BY <2>1 DEF Stage
  <2> QED
    BY <1>2, <1>5, <2>1, <2>2, <2>3 DEF m
<1> QED
  BY <1>1, <1>3, <1>4, <1>5

(* Valid frames of one message at one stage are one frame. *)
LEMMA StagesDiffer ==
    ASSUME NEW f \in Frames, NEW g \in Frames, Valid(f), Valid(g), f.kind # "reply",
           g.kind # "reply", ~Older(f, g), ~Older(g, f)
    PROVE  f = g
<1>1. f.msg \in Nat /\ g.msg \in Nat /\ f.part \in Nat /\ g.part \in Nat
  BY DEF Frames
<1>2. Stage(f) \in Nat /\ Stage(g) \in Nat
  BY <1>1 DEF Stage
<1>3. f.msg = g.msg /\ Stage(f) = Stage(g)
  BY <1>1, <1>2 DEF Older
<1> DEFINE m == msgs[f.msg]
<1>4. /\ m.ch = f.ch
      /\ f.kind \in MethodKinds => f.part = 0 /\ f.kind = m.kind /\ Stage(f) = 0
      /\ f.kind = "header" => f.part = 0 /\ Stage(f) = 1
      /\ f.kind = "body" => f.part # 0 /\ Stage(f) = f.part + 1
      /\ f.kind \in MethodKinds \/ f.kind = "header" \/ f.kind = "body"
  BY <1>1, ValidFacts
<1>5. /\ m.ch = g.ch
      /\ g.kind \in MethodKinds => g.part = 0 /\ g.kind = m.kind /\ Stage(g) = 0
      /\ g.kind = "header" => g.part = 0 /\ Stage(g) = 1
      /\ g.kind = "body" => g.part # 0 /\ Stage(g) = g.part + 1
      /\ g.kind \in MethodKinds \/ g.kind = "header" \/ g.kind = "body"
  <2> DEFINE mg == msgs[g.msg]
  <2>1. /\ mg.ch = g.ch
        /\ g.kind \in MethodKinds => g.part = 0 /\ g.kind = mg.kind /\ Stage(g) = 0
        /\ g.kind = "header" => g.part = 0 /\ Stage(g) = 1
        /\ g.kind = "body" => g.part # 0 /\ Stage(g) = g.part + 1
        /\ g.kind \in MethodKinds \/ g.kind = "header" \/ g.kind = "body"
    BY <1>1, ValidFacts
  <2>2. mg = m
    BY <1>3
  <2> QED
    BY <2>1, <2>2
<1> HIDE DEF m
<1>6. f.ch = g.ch /\ f.part = g.part /\ f.kind = g.kind
  BY <1>1, <1>3, <1>4, <1>5
<1> QED
  BY <1>3, <1>6 DEF Frames

(* What is valid stays valid as more messages are sent. *)
LEMMA ValidStays ==
    ASSUME NEW f, Valid(f), DOMAIN msgs \subseteq DOMAIN msgs',
           \A m \in DOMAIN msgs : msgs'[m] = msgs[m]
    PROVE  Valid(f)' /\ (FollowedUp(f)' <=> FollowedUp(f))
<1>1. Valid(f)'
  BY DEF Valid
<1>2. CASE f.kind = "reply"
  BY <1>1, <1>2 DEF FollowedUp, MethodKinds
<1>3. CASE f.kind # "reply"
  <2>1. f.msg \in DOMAIN msgs /\ msgs'[f.msg] = msgs[f.msg]
    BY <1>3 DEF Valid
  <2> QED
    BY <1>1, <2>1 DEF FollowedUp
<1> QED
  BY <1>2, <1>3

(* Taking a frame out of Inbound keeps the others, and their order. *)
LEMMA RemovalKeeps ==
    ASSUME Placed, Placed', FramesValid, FramesInOrder, NEW k \in 1..Len(Inbound),
           RemovedAt(Inbound, Inbound', k), UNCHANGED <<out, msgs>>
    PROVE  /\ FramesValid' /\ FramesInOrder'
           /\ \A c : /\ Line(c)' \subseteq Line(c)
                     /\ \A f \in Line(c) : f # Inbound[k] => f \in Line(c)'
           /\ \A c \in Channels : c = Inbound[k].ch =>
                \A g \in Line(c)' :
                   /\ Precedes(Inbound[k], g) \/ Precedes(g, Inbound[k])
                   /\ FirstOfIts(k) => Precedes(Inbound[k], g)
<1> DEFINE n == Len(Inbound)
           p(i) == IF i < k THEN i ELSE i + 1
<1>1. /\ n \in Nat /\ DOMAIN Inbound = 1..n
      /\ Inbound' \in Seq(Frames)
  <2>1. Inbound \in Seq(Frames)
    BY InboundIs
  <2>2. queued' \in Seq(Frames) /\ inbuf' \in Seq(Frames) /\ sock' \in Seq(Frames)
    BY DEF Placed
  <2>3. \A q, f \in Seq(Frames) : q \o f \in Seq(Frames)
    BY ConcatProperties
  <2>4. Inbound' = (queued' \o inbuf') \o sock'
    BY DEF Inbound
  <2> QED
    BY <2>1, <2>2, <2>3, <2>4, LenProperties
<1>2. Len(Inbound') = n - 1 /\ \A i \in 1..Len(Inbound') : Inbound'[i] = Inbound[p(i)]
  BY DEF RemovedAt
<1>3. DOMAIN Inbound' = 1..(n - 1)
  BY <1>1, <1>2, LenProperties
<1>4. \A i \in 1..(n - 1) : p(i) \in 1..n /\ p(i) # k /\ Inbound'[i] = Inbound[p(i)]
  BY <1>1, <1>2
<1>5. \A i, j \in 1..(n - 1) : i < j => p(i) < p(j)
  BY <1>1
<1>6. \A j \in 1..n : j # k => \E i \in 1..(n - 1) : p(i) = j
  <2> TAKE j \in 1..n
  <2>1. CASE j < k
    <3>1. j \in 1..(n - 1) /\ p(j) = j
      BY <1>1, <2>1
    <3> QED
      BY <3>1
  <2>2. CASE j > k
    <3>1. j - 1 \in 1..(n - 1) /\ p(j - 1) = j
      BY <1>1, <2>2
    <3> QED
      BY <3>1
  <2> QED
    BY <1>1, <2>1, <2>2
<1> HIDE DEF p, n
<1>7. \A f : Valid(f)' <=> Valid(f)
  BY DEF Valid
<1>8. FramesValid'
  BY <1>1, <1>3, <1>4, <1>7 DEF FramesValid
<1>9. FramesInOrder'
  BY <1>1, <1>3, <1>4, <1>5 DEF FramesInOrder
<1>10. \A f : Within(Inbound, f)' => \E i \in 1..n : i # k /\ Inbound[i] = f
  BY <1>3, <1>4 DEF Within
<1>11. ASSUME NEW c PROVE Line(c)' \subseteq Line(c)
  <2>1. \A f : f \in Line(c)' <=> f.ch = c /\ (Within(Inbound, f)' \/ Within(out[c], f)')
    BY DEF Line, Within
  <2>2. \A f : Within(Inbound, f)' => Within(Inbound, f)
    BY <1>1, <1>10 DEF Within
  <2>3. \A f : Within(out[c], f)' <=> Within(out[c], f)
    BY DEF Within
  <2> QED
    BY <2>1, <2>2, <2>3, LineMember
<1>12. ASSUME NEW c, NEW f \in Line(c), f # Inbound[k] PROVE f \in Line(c)'
  <2>1. f.ch = c /\ (Within(Inbound, f) \/ Within(out[c], f))
    BY LineMember
  <2>2. Within(out[c], f) => Within(out[c], f)'
    BY DEF Within
  <2>3. ASSUME Within(Inbound, f) PROVE Within(Inbound, f)'
    <3>1. PICK j \in 1..n : Inbound[j] = f
      BY <1>1, <2>3 DEF Within
    <3>2. j # k
      BY <1>12, <3>1
    <3>3. PICK i \in 1..(n - 1) : p(i) = j
      BY <1>6, <3>2
    <3>4. Inbound'[i] = f
      BY <1>4, <3>1, <3>3
    <3> QED
      BY <1>3, <3>4 DEF Within
  <2> QED
    BY <2>1, <2>2, <2>3 DEF Line, Within
<1>13. ASSUME NEW c \in Channels, c = Inbound[k].ch, NEW g \in Line(c)'
       PROVE  /\ Precedes(Inbound[k], g) \/ Precedes(g, Inbound[k])
              /\ FirstOfIts(k) => Precedes(Inbound[k], g)
  <2>1. g.ch = c /\ (Within(Inbound, g)' \/ Within(out[c], g)')
    BY <1>13 DEF Line, Within
  <2>2. CASE Within(Inbound, g)'
    <3>1. PICK i \in 1..n : i # k /\ Inbound[i] = g
      BY <1>10, <2>2
    <3>2. i < k \/ k < i
      BY <1>1, <3>1
    <3>3. CASE k < i
      BY <1>1, <3>1, <3>3 DEF FramesInOrder, n
    <3>4. CASE i < k
      <4>1. ~FirstOfIts(k)
        BY <1>13, <2>1, <3>1, <3>4 DEF FirstOfIts, n
      <4>2. Precedes(g, Inbound[k])
        BY <1>1, <3>1, <3>4 DEF FramesInOrder, n
      <4> QED
        BY <4>1, <4>2
    <3> QED
      BY <3>2, <3>3, <3>4
  <2>3. CASE Within(out[c], g)'
    BY <1>1, <1>13, <2>3 DEF FramesInOrder, Within, n
  <2> QED
    BY <2>1, <2>2, <2>3
<1> QED
  BY <1>8, <1>9, <1>11, <1>12, <1>13

-----------------------------------------------------------------------------
(* The part of the invariant that is about frames and messages only.         *)
MsgSet == [ch : Channels, kind : {"deliver", "getok", "return"}, parts : Sizes \cup {0}]
WiresOK ==
    /\ Placed
    /\ link \in {"up", "down"}
    /\ out \in [Channels -> Seq(Frames)]
    /\ msgs \in Seq(MsgSet) /\ Len(msgs) <= MaxMessages
    /\ link = "down" => \A c \in Channels : out[c] = <<>>
    /\ FramesValid /\ FramesInOrder

(* Frames in lines are frames, and valid. *)
LEMMA LineTyped ==
    ASSUME WiresOK, NEW c \in Channels, NEW f \in Line(c)
    PROVE  f \in Frames /\ f.ch = c /\ Valid(f)
<1>1. f.ch = c /\ (Within(Inbound, f) \/ Within(out[c], f))
  BY LineMember
<1>2. Inbound \in Seq(Frames) /\ out[c] \in Seq(Frames)
  BY InboundIs DEF WiresOK
<1>3. \A s \in Seq(Frames) : \A i \in DOMAIN s : s[i] \in Frames
  BY ElementOfSeq, LenProperties
<1>4. f \in Frames
  BY <1>1, <1>2, <1>3 DEF Within
<1>5. Valid(f)
  BY <1>1 DEF WiresOK, FramesValid, Within
<1> QED
  BY <1>1, <1>4, <1>5

(* Messages are numbered from 1, and made of what messages are made of. *)
LEMMA MsgTyped ==
    ASSUME WiresOK, NEW m \in DOMAIN msgs
    PROVE  /\ m \in 1..Len(msgs) /\ m \in 1..MaxMessages /\ m \in Nat
           /\ msgs[m] \in MsgSet /\ msgs[m].parts \in Nat
<1>1. msgs \in Seq(MsgSet) /\ Len(msgs) \in Nat /\ DOMAIN msgs = 1..Len(msgs) /\ Len(msgs) <= MaxMessages
  BY LenProperties DEF WiresOK
<1>2. msgs[m] \in MsgSet
  BY <1>1, ElementOfSeq
<1>3. msgs[m].parts \in Nat
  <2>1. msgs[m].parts \in Sizes \cup {0}
    BY <1>2 DEF MsgSet
  <2>2. \A x \in Sizes \cup {0} : x \in Nat
    BY RecvAssumption
  <2> QED
    BY <2>1, <2>2
<1> QED
  BY <1>1, <1>2, <1>3

(* No frame precedes itself. *)
LEMMA PrecedesIrreflexive ==
    ASSUME NEW f \in Frames
    PROVE  ~Precedes(f, f)
BY OlderOrder DEF Precedes, OfRpc

(* A frame is in one line only, that of its channel. *)
LEMMA OneLine ==
    ASSUME NEW c, NEW f \in Line(c)
    PROVE  f.ch = c
BY LineMember

(* What a wait takes is in a line, and first in it. *)
LEMMA TakenIsFirst ==
    ASSUME WiresOK, NEW c \in Channels \cup {0}, Available(c)
    PROVE  /\ Taken(c) \in Frames /\ Valid(Taken(c)) /\ (c # 0 => Taken(c).ch = c)
           /\ \A d \in Channels : d = Taken(c).ch =>
                /\ Taken(c) \in Line(d)
                /\ \A g \in Line(d) : g = Taken(c) \/ Precedes(Taken(c), g)
<1>1. Inbound \in Seq(Frames) /\ Len(Inbound) \in Nat /\ DOMAIN Inbound = 1..Len(Inbound)
  BY InboundIs, LenProperties DEF WiresOK
<1>2. \E k \in 1..Len(Inbound) :
         FirstOfIts(k) /\ Inbound[k] = Taken(c) /\ (c # 0 => Inbound[k].ch = c)
  <2>1. CASE c = 0
    <3>1. Inbound # <<>> /\ Len(Inbound) # 0
      BY <1>1, <2>1, EmptySeq DEF Available
    <3>2. 1 \in 1..Len(Inbound) /\ Inbound[1] = Taken(0)
      BY <1>1, <2>1, <3>1 DEF Taken
    <3>3. FirstOfIts(1)
      BY <1>1 DEF FirstOfIts
    <3> QED
      BY <2>1, <3>2, <3>3
  <2>2. CASE c # 0
    <3> DEFINE k == FirstOn(Inbound, c)
    <3>1. c \in Channels /\ k # 0 /\ Taken(c) = Inbound[k]
      BY <2>2 DEF Available, Taken
    <3>2. k \in 0..Len(Inbound) /\ Inbound[k].ch = c
          /\ \A n \in 1..Len(Inbound) : n < k => Inbound[n].ch # c
      BY <1>1, <3>1, FirstOnProperties
    <3>3. k \in 1..Len(Inbound) /\ FirstOfIts(k)
      BY <1>1, <3>1, <3>2 DEF FirstOfIts
    <3> QED
      BY <3>1, <3>2, <3>3
  <2> QED
    BY <2>1, <2>2
<1>3. PICK k \in 1..Len(Inbound) :
         FirstOfIts(k) /\ Inbound[k] = Taken(c) /\ (c # 0 => Inbound[k].ch = c)
  BY <1>2
<1>4. Taken(c) \in Frames /\ Valid(Taken(c))
  BY <1>1, <1>3, ElementOfSeq DEF WiresOK, FramesValid
<1>5. ASSUME NEW d \in Channels, d = Taken(c).ch
      PROVE  Taken(c) \in Line(d)
  BY <1>1, <1>3, <1>5, LineMember DEF Within
<1>6. ASSUME NEW d \in Channels, d = Taken(c).ch, NEW g \in Line(d)
      PROVE  g = Taken(c) \/ Precedes(Taken(c), g)
  <2>1. g.ch = d /\ (Within(Inbound, g) \/ Within(out[d], g))
    BY LineMember
  <2>2. CASE Within(Inbound, g)
    <3>1. PICK i \in 1..Len(Inbound) : Inbound[i] = g
      BY <1>1, <2>2 DEF Within
    <3>2. ~(i < k)
      BY <1>3, <1>6, <2>1, <3>1 DEF FirstOfIts
    <3>3. i = k \/ k < i
      BY <1>1, <3>2
    <3> QED
      BY <1>1, <1>3, <3>1, <3>3 DEF WiresOK, FramesInOrder
  <2>3. CASE Within(out[d], g)
    <3>1. PICK j \in DOMAIN out[d] : out[d][j] = g
      BY <2>3 DEF Within
    <3>2. Precedes(Inbound[k], out[d][j])
      BY <1>1 DEF WiresOK, FramesInOrder
    <3> QED
      BY <1>3, <3>1, <3>2
  <2> QED
    BY <2>1, <2>2, <2>3
<1> QED
  BY <1>3, <1>4, <1>5, <1>6

(* Taking a frame takes it out of its line, and changes nothing else. *)
LEMMA TakeFrameKeeps ==
    ASSUME WiresOK, NEW c \in Channels \cup {0}, Available(c), TakeFrame(c),
           UNCHANGED <<out, msgs, link>>
    PROVE  WiresOK' /\ \A d \in Channels : Line(d)' = Line(d) \ {Taken(c)}
<1>1. Placed /\ FramesValid /\ FramesInOrder
  BY DEF WiresOK
<1>2. Placed'
      /\ \E k \in 1..Len(Inbound) :
                /\ RemovedAt(Inbound, Inbound', k) /\ FirstOfIts(k)
                /\ Inbound[k] = Taken(c) /\ (c # 0 => Inbound[k].ch = c)
  BY <1>1, TakeFrameRemoves
<1>3. PICK k \in 1..Len(Inbound) :
         RemovedAt(Inbound, Inbound', k) /\ FirstOfIts(k) /\ Inbound[k] = Taken(c)
  BY <1>2
<1>4. /\ FramesValid' /\ FramesInOrder'
      /\ \A d : /\ Line(d)' \subseteq Line(d)
                /\ \A f \in Line(d) : f # Inbound[k] => f \in Line(d)'
      /\ \A d \in Channels : d = Inbound[k].ch => \A g \in Line(d)' : Precedes(Inbound[k], g)
  BY <1>1, <1>2, <1>3, RemovalKeeps
<1>5. WiresOK'
  BY <1>2, <1>4 DEF WiresOK
<1>6. Taken(c) \in Frames
  BY TakenIsFirst
<1>7. ASSUME NEW d \in Channels PROVE Taken(c) \notin Line(d)'
  <2> SUFFICES ASSUME Taken(c) \in Line(d)' PROVE FALSE
    OBVIOUS
  <2>1. d = Taken(c).ch
    BY <1>4, OneLine
  <2> QED
    BY <1>3, <1>4, <1>6, <2>1, PrecedesIrreflexive
<1> QED
  BY <1>3, <1>4, <1>5, <1>7

(* So does reading the reply of an RPC, and no other reply is left. *)
LEMMA ReplyKeeps ==
    ASSUME WiresOK, NEW c \in Channels, NEW i \in Reply(c),
           queued' = queued \o Before(Unparsed, i), Parse(i), UNCHANGED <<out, msgs, link>>
    PROVE  /\ WiresOK'
           /\ Unparsed[i] \in Frames /\ Unparsed[i] \in Line(c) /\ OfRpc(Unparsed[i])
           /\ \A d \in Channels : Line(d)' = Line(d) \ {Unparsed[i]}
           /\ \A g \in Line(c)' : ~OfRpc(g)
<1> DEFINE t == Unparsed[i]
<1>1. Placed /\ FramesValid /\ FramesInOrder
  BY DEF WiresOK
<1>2. /\ Unparsed \in Seq(Frames) /\ Inbound \in Seq(Frames)
      /\ Len(Inbound) = Len(queued) + Len(Unparsed)
      /\ Len(queued) \in Nat /\ Len(Unparsed) \in Nat
      /\ DOMAIN Unparsed = 1..Len(Unparsed) /\ DOMAIN Inbound = 1..Len(Inbound)
  <2>1. /\ Unparsed \in Seq(Frames) /\ Inbound \in Seq(Frames)
        /\ Len(Inbound) = Len(queued) + Len(Unparsed)
        /\ Len(queued) \in Nat /\ Len(Unparsed) \in Nat
    BY <1>1, InboundIs
  <2> QED
    BY <2>1, LenProperties
<1>3. i \in 1..Len(Unparsed) /\ t.ch = c /\ OfRpc(t)
  BY <1>2 DEF Reply, IsReply, OfRpc
<1>4. /\ Placed'
      /\ RemovedAt(Inbound, Inbound', Len(queued) + i)
      /\ Inbound[Len(queued) + i] = t
  BY <1>1, <1>3, QueueingRemoves
<1>5. Len(queued) + i \in 1..Len(Inbound)
  BY <1>2, <1>3
<1>6. /\ FramesValid' /\ FramesInOrder'
      /\ \A d : /\ Line(d)' \subseteq Line(d)
                /\ \A f \in Line(d) : f # t => f \in Line(d)'
      /\ \A d \in Channels : d = t.ch => \A g \in Line(d)' : Precedes(t, g) \/ Precedes(g, t)
  BY <1>1, <1>4, <1>5, RemovalKeeps
<1>7. WiresOK'
  BY <1>4, <1>6 DEF WiresOK
<1>8. t \in Frames
  BY <1>2, <1>3, ElementOfSeq
<1>9. t \in Line(c)
  BY <1>2, <1>3, <1>4, <1>5, LineMember DEF Within
<1>10. ASSUME NEW d \in Channels PROVE t \notin Line(d)'
  <2> SUFFICES ASSUME t \in Line(d)' PROVE FALSE
    OBVIOUS
  <2>1. d = t.ch
    BY <1>6, OneLine
  <2> QED
    BY <1>6, <1>8, <2>1, PrecedesIrreflexive
<1>11. ASSUME NEW g \in Line(c)' PROVE ~OfRpc(g)
  <2>1. g.ch = c
    BY <1>6, OneLine
  <2> QED
    BY <1>3, <1>6, <2>1 DEF Precedes
<1> HIDE DEF t
<1>12. \A d \in Channels : Line(d)' = Line(d) \ {t}
  BY <1>6, <1>10
<1> QED
  BY <1>3, <1>7, <1>8, <1>9, <1>11, <1>12 DEF t

(* A line without its first frame, or without a method, has no new gaps. *)
LEMMA TakingKeepsGapless ==
    ASSUME WiresOK, Gapless, NEW t \in Frames, UNCHANGED <<link, msgs>>,
           \A d \in Channels : Line(d)' = Line(d) \ {t},
           t.kind \in MethodKinds
           \/ \A d \in Channels : d = t.ch => \A g \in Line(d) : g = t \/ Precedes(t, g)
    PROVE  Gapless'
<1>1. SUFFICES ASSUME NEW c \in Channels, NEW f \in Line(c)', FollowedUp(f)',
                      (link = "up" \/ \E g \in Line(c)' : g.kind # "reply" /\ Older(f, g))
               PROVE  FollowUp(f) \in Line(c)'
  BY DEF Gapless
<1>2. f \in Line(c) /\ f # t /\ f \in Frames /\ f.ch = c /\ Valid(f)
  BY <1>1, LineTyped
<1>3. FollowedUp(f)
  BY <1>1 DEF FollowedUp
<1>4. FollowUp(f) \in Line(c)
  BY <1>1, <1>2, <1>3 DEF Gapless
<1>5. /\ FollowUp(f).kind \notin MethodKinds /\ Older(f, FollowUp(f)) /\ FollowUp(f).ch = c
  BY <1>2, <1>3, FollowUpIsNext
<1>6. f.kind # "reply"
  BY <1>3 DEF FollowedUp, MethodKinds
<1>7. FollowUp(f) # t
  <2>1. CASE t.kind \in MethodKinds
    BY <1>5, <2>1
  <2>2. CASE t.kind \notin MethodKinds /\ t.ch = c /\ \A g \in Line(c) : g = t \/ Precedes(t, g)
    <3>1. Older(t, f)
      BY <1>2, <1>6, <2>2 DEF Precedes, MethodKinds
    <3>2. ~Older(f, t)
      BY <1>2, <3>1, OlderOrder
    <3> QED
      BY <1>5, <3>2
  <2>3. CASE t.ch # c
    BY <1>5, <2>3
  <2> QED
    BY <2>1, <2>2, <2>3
<1> QED
  BY <1>1, <1>4, <1>7

-----------------------------------------------------------------------------
(* Sending adds to the end of a line. *)
LEMMA SendKeeps ==
    ASSUME WiresOK, link = "up", NEW c \in Channels, NEW s \in Seq(Frames),
           \A i \in DOMAIN s : s[i].ch = c /\ Valid(s[i])',
           \A i, j \in DOMAIN s : i < j => Precedes(s[i], s[j]),
           \A f \in Line(c) : \A i \in DOMAIN s : Precedes(f, s[i]),
           out' = [out EXCEPT ![c] = @ \o s],
           msgs' \in Seq(MsgSet), Len(msgs') <= MaxMessages,
           DOMAIN msgs \subseteq DOMAIN msgs', \A m \in DOMAIN msgs : msgs'[m] = msgs[m],
           UNCHANGED <<link, sock, inbuf, queued>>
    PROVE  /\ WiresOK'
           /\ Line(c)' = Line(c) \cup {s[i] : i \in DOMAIN s}
           /\ \A d \in Channels : d # c => Line(d)' = Line(d)
<1> DEFINE o == out[c]
<1>1. /\ o \in Seq(Frames) /\ Len(o) \in Nat /\ Len(s) \in Nat
      /\ DOMAIN o = 1..Len(o) /\ DOMAIN s = 1..Len(s)
  BY LenProperties DEF WiresOK
<1>2. /\ o \o s \in Seq(Frames) /\ Len(o \o s) = Len(o) + Len(s)
      /\ DOMAIN (o \o s) = 1..(Len(o) + Len(s))
      /\ \A i \in 1..Len(o) + Len(s) : (o \o s)[i] = IF i <= Len(o) THEN o[i] ELSE s[i - Len(o)]
  <2>1. /\ o \o s \in Seq(Frames) /\ Len(o \o s) = Len(o) + Len(s)
        /\ \A i \in 1..Len(o) + Len(s) : (o \o s)[i] = IF i <= Len(o) THEN o[i] ELSE s[i - Len(o)]
    BY <1>1, ConcatProperties
  <2> QED
    BY <2>1, LenProperties
<1>3. out'[c] = o \o s /\ \A d \in Channels : d # c => out'[d] = out[d]
  BY DEF WiresOK
<1>4. out' \in [Channels -> Seq(Frames)]
  BY <1>2, <1>3 DEF WiresOK
<1>5. Inbound' = Inbound
  BY DEF Inbound
<1>6. \A i \in DOMAIN (o \o s) :
         \/ i \in DOMAIN o /\ (o \o s)[i] = o[i]
         \/ i > Len(o) /\ i - Len(o) \in DOMAIN s /\ (o \o s)[i] = s[i - Len(o)]
  BY <1>1, <1>2
<1>7. /\ \A i \in DOMAIN o : i \in DOMAIN (o \o s) /\ (o \o s)[i] = o[i]
      /\ \A i \in DOMAIN s : Len(o) + i \in DOMAIN (o \o s) /\ (o \o s)[Len(o) + i] = s[i]
  <2>1. \A i \in DOMAIN s : Len(o) + i \in 1..Len(o) + Len(s) /\ ~(Len(o) + i <= Len(o))
                            /\ Len(o) + i - Len(o) = i
    BY <1>1
  <2>2. \A i \in DOMAIN o : i \in 1..Len(o) + Len(s) /\ i <= Len(o)
    BY <1>1
  <2> QED
    BY <1>2, <2>1, <2>2
<1> HIDE DEF o
<1> DEFINE V == {f \in Frames : Valid(f)'}
<1>8. /\ \A f \in Frames : Valid(f) => f \in V
      /\ \A f \in V : Valid(f)'
      /\ \A i \in DOMAIN s : s[i].ch = c /\ s[i] \in V
  <2>1. \A f : Valid(f) => Valid(f)'
    BY ValidStays
  <2>2. \A i \in DOMAIN s : s[i] \in Frames
    BY <1>1, ElementOfSeq
  <2> QED
    BY <2>1, <2>2
<1> HIDE DEF V
<1>9. \A i \in DOMAIN o : o[i].ch = c /\ o[i] \in V /\ o[i] \in Line(c)
  <2>1. \A i \in DOMAIN o : o[i] \in Frames
    BY <1>1, ElementOfSeq
  <2> QED
    BY <1>8, <2>1, LineMember DEF WiresOK, FramesValid, Within, o
<1>10. FramesValid'
  <2>1. \A i \in DOMAIN Inbound : Inbound[i] \in V
    <3>1. Inbound \in Seq(Frames)
      BY InboundIs DEF WiresOK
    <3>2. \A i \in DOMAIN Inbound : Inbound[i] \in Frames
      BY <3>1, ElementOfSeq, LenProperties
    <3> QED
      BY <1>8, <3>2 DEF WiresOK, FramesValid
  <2>2. \A d \in Channels : d # c => \A i \in DOMAIN out[d] : out[d][i].ch = d /\ out[d][i] \in V
    <3> TAKE d \in Channels
    <3>1. \A i \in DOMAIN out[d] : out[d][i] \in Frames
      <4>1. out[d] \in Seq(Frames)
        BY DEF WiresOK
      <4> QED
        BY <4>1, ElementOfSeq, LenProperties
    <3> QED
      BY <1>8, <3>1 DEF WiresOK, FramesValid
  <2>3. \A i \in DOMAIN (o \o s) : (o \o s)[i].ch = c /\ (o \o s)[i] \in V
    BY <1>6, <1>8, <1>9
  <2>4. \A d \in Channels : \A i \in DOMAIN out'[d] : out'[d][i].ch = d /\ out'[d][i] \in V
    <3> TAKE d \in Channels
    <3>1. CASE d = c
      BY <1>3, <2>3, <3>1
    <3>2. CASE d # c
      <4>1. out'[d] = out[d]
        BY <1>3, <3>2
      <4> QED
        BY <2>2, <3>2, <4>1
    <3> QED
      BY <3>1, <3>2
  <2> QED
    BY <1>5, <1>8, <2>1, <2>4 DEF FramesValid
<1>11. FramesInOrder'
  <2>1. \A i, j \in DOMAIN Inbound : i < j => Precedes(Inbound[i], Inbound[j])
    BY DEF WiresOK, FramesInOrder
  <2>2. ASSUME NEW d \in Channels, d # c
        PROVE  /\ \A i, j \in DOMAIN out[d] : i < j => Precedes(out[d][i], out[d][j])
               /\ \A i \in DOMAIN Inbound, j \in DOMAIN out[d] : Precedes(Inbound[i], out[d][j])
    BY DEF WiresOK, FramesInOrder
  <2>3. ASSUME NEW i \in DOMAIN (o \o s), NEW j \in DOMAIN (o \o s), i < j
        PROVE  Precedes((o \o s)[i], (o \o s)[j])
    <3>1. CASE j \in DOMAIN o
      <4>1. i \in DOMAIN o
        BY <1>1, <1>2, <2>3, <3>1 DEF o
      <4>2. Precedes(o[i], o[j])
        BY <2>3, <3>1, <4>1 DEF WiresOK, FramesInOrder, o
      <4> QED
        BY <1>7, <3>1, <4>1, <4>2
    <3>2. CASE j - Len(o) \in DOMAIN s /\ (o \o s)[j] = s[j - Len(o)]
      <4>1. CASE i \in DOMAIN o
        <5>1. o[i] \in Line(c)
          BY <1>9, <4>1
        <5> QED
          BY <1>7, <3>2, <4>1, <5>1
      <4>2. CASE i - Len(o) \in DOMAIN s /\ (o \o s)[i] = s[i - Len(o)]
        <5>1. i - Len(o) < j - Len(o)
          BY <1>1, <1>2, <2>3 DEF o
        <5> QED
          BY <3>2, <4>2, <5>1
      <4> QED
        BY <1>6, <4>1, <4>2
    <3> QED
      BY <1>6, <3>1, <3>2
  <2>4. ASSUME NEW i \in DOMAIN Inbound, NEW j \in DOMAIN (o \o s)
        PROVE  Precedes(Inbound[i], (o \o s)[j])
    <3>1. CASE j \in DOMAIN o
      <4>1. Precedes(Inbound[i], o[j])
        BY <3>1 DEF WiresOK, FramesInOrder, o
      <4> QED
        BY <1>7, <3>1, <4>1
    <3>2. CASE j - Len(o) \in DOMAIN s /\ (o \o s)[j] = s[j - Len(o)]
      <4> DEFINE g == s[j - Len(o)]
      <4>1. g.ch = c /\ \A f \in Line(c) : Precedes(f, g)
        BY <3>2
      <4>2. Inbound[i].ch = c => Inbound[i] \in Line(c)
        BY LineMember DEF Within
      <4>3. Precedes(Inbound[i], g)
        <5>1. CASE Inbound[i].ch = c
          BY <4>1, <4>2, <5>1
        <5>2. CASE Inbound[i].ch # c
          BY <4>1, <5>2 DEF Precedes
        <5> QED
          BY <5>1, <5>2
      <4> QED
        BY <3>2, <4>3
    <3> QED
      BY <1>6, <3>1, <3>2
  <2>5. ASSUME NEW d \in Channels
        PROVE  /\ \A i, j \in DOMAIN out'[d] : i < j => Precedes(out'[d][i], out'[d][j])
               /\ \A i \in DOMAIN Inbound, j \in DOMAIN out'[d] : Precedes(Inbound[i], out'[d][j])
    <3>1. CASE d = c
      BY <1>3, <2>3, <2>4, <3>1
    <3>2. CASE d # c
      <4>1. out'[d] = out[d]
        BY <1>3, <3>2
      <4> QED
        BY <2>2, <3>2, <4>1
    <3> QED
      BY <3>1, <3>2
  <2> QED
    BY <1>5, <2>1, <2>5 DEF FramesInOrder
<1>12. WiresOK'
  BY <1>4, <1>10, <1>11 DEF WiresOK, Placed
<1>13. \A d \in Channels : \A f : f \in Line(d)' <=> f.ch = d /\ (Within(Inbound, f) \/ Within(out'[d], f))
  BY <1>5 DEF Line, Within
<1>14. Line(c)' = Line(c) \cup {s[i] : i \in DOMAIN s}
  <2>1. \A f : Within(o \o s, f) <=> Within(o, f) \/ f \in {s[i] : i \in DOMAIN s}
    <3> TAKE f
    <3>1. ASSUME Within(o \o s, f) PROVE Within(o, f) \/ f \in {s[i] : i \in DOMAIN s}
      BY <1>6, <3>1 DEF Within
    <3>2. Within(o, f) => Within(o \o s, f)
      BY <1>7 DEF Within
    <3>3. f \in {s[i] : i \in DOMAIN s} => Within(o \o s, f)
      BY <1>7 DEF Within
    <3> QED
      BY <3>1, <3>2, <3>3
  <2>2. \A f \in {s[i] : i \in DOMAIN s} : f.ch = c
    OBVIOUS
  <2>3. \A f : f \in Line(c)' <=> f \in Line(c) \/ f \in {s[i] : i \in DOMAIN s}
    BY <1>3, <1>13, <2>1, <2>2, LineMember DEF o
  <2> QED
    BY <2>3
<1>15. \A d \in Channels : d # c => Line(d)' = Line(d)
  <2> TAKE d \in Channels
  <2>1. ASSUME d # c PROVE \A f : f \in Line(d)' <=> f \in Line(d)
    BY <1>3, <1>13, <2>1, LineMember
  <2> QED
    BY <2>1
<1> QED
  BY <1>12, <1>14, <1>15

(* Arriving moves a frame along its line. *)
LEMMA ArriveKeeps ==
    ASSUME WiresOK, NEW c \in Channels, out[c] # <<>>, sock' = Append(sock, Head(out[c])),
           out' = [out EXCEPT ![c] = Tail(@)], UNCHANGED <<inbuf, queued, msgs, link>>
    PROVE  /\ WiresOK' /\ Inbound' # <<>>
           /\ \A d \in Channels : Line(d)' = Line(d)
<1> DEFINE o == out[c]
           h == Head(o)
           r == Tail(o)
           n == Len(Inbound)
<1>1. /\ o \in Seq(Frames) /\ Len(o) \in Nat \ {0} /\ DOMAIN o = 1..Len(o)
      /\ h \in Frames /\ h = o[1]
      /\ r \in Seq(Frames) /\ DOMAIN r = 1..(Len(o) - 1)
      /\ \A i \in DOMAIN r : i + 1 \in DOMAIN o /\ r[i] = o[i + 1]
  <2>1. o \in Seq(Frames) /\ o # <<>>
    BY DEF WiresOK
  <2> HIDE DEF o
  <2>2. Len(o) \in Nat \ {0} /\ DOMAIN o = 1..Len(o)
    BY <2>1, EmptySeq, LenProperties
  <2>3. /\ h \in Frames /\ r \in Seq(Frames) /\ Len(r) = Len(o) - 1
        /\ \A i \in 1..Len(r) : r[i] = o[i + 1]
    BY <2>1, HeadTailProperties
  <2>4. DOMAIN r = 1..(Len(o) - 1)
    BY <2>3, LenProperties
  <2>5. h = o[1]
    BY <2>1
  <2>6. \A i \in 1..(Len(o) - 1) : i + 1 \in 1..Len(o)
    BY <2>2
  <2> HIDE DEF h, r
  <2> QED
    BY <2>1, <2>2, <2>3, <2>4, <2>5, <2>6
<1>2. out'[c] = r /\ \A d \in Channels : d # c => out'[d] = out[d]
  BY DEF WiresOK
<1>3. out' \in [Channels -> Seq(Frames)]
  BY <1>1, <1>2 DEF WiresOK
<1>4. sock' \in Seq(Frames) /\ Placed'
  BY <1>1, AppendProperties DEF WiresOK, Placed
<1>5. /\ Inbound \in Seq(Frames) /\ n \in Nat /\ DOMAIN Inbound = 1..n
      /\ Inbound' = Append(Inbound, h)
  <2>1. Inbound \in Seq(Frames)
    BY InboundIs DEF WiresOK
  <2>2. \A q, s \in Seq(Frames) : q \o Append(s, h) = Append(q \o s, h)
    BY <1>1, AppendIsConcat, ConcatAssociative, ConcatProperties, EmptySeq
  <2>3. Inbound' = (queued \o inbuf) \o Append(sock, h)
    BY DEF Inbound
  <2>4. queued \o inbuf \in Seq(Frames) /\ sock \in Seq(Frames)
    BY ConcatProperties DEF WiresOK, Placed
  <2> QED
    BY <2>1, <2>2, <2>3, <2>4, LenProperties DEF Inbound
<1> DEFINE a == Append(Inbound, h)
<1>6. /\ DOMAIN a = 1..(n + 1) /\ a[n + 1] = h /\ \A i \in 1..n : a[i] = Inbound[i]
      /\ a # <<>>
  <2>1. /\ a \in Seq(Frames) /\ Len(a) = n + 1
        /\ \A i \in 1..n : a[i] = Inbound[i]
        /\ a[n + 1] = h
    BY <1>1, <1>5, AppendProperties
  <2> HIDE DEF a
  <2> QED
    BY <1>5, <2>1, LenProperties, EmptySeq
<1> HIDE DEF a, h, r, o, n
<1>7. \A i \in DOMAIN a : (i \in DOMAIN Inbound /\ a[i] = Inbound[i]) \/ (i = n + 1 /\ a[i] = h)
  BY <1>5, <1>6
<1>8. \A f : Valid(f) <=> Valid(f)'
  BY DEF Valid
<1>9. h.ch = c /\ Valid(h)
  BY <1>1 DEF WiresOK, FramesValid, o
<1>10. FramesValid'
  <2>1. \A i \in DOMAIN a : Valid(a[i])
    BY <1>7, <1>9 DEF WiresOK, FramesValid
  <2>2. \A d \in Channels : \A i \in DOMAIN out'[d] : out'[d][i].ch = d /\ Valid(out'[d][i])
    <3> TAKE d \in Channels
    <3>1. CASE d = c
      BY <1>1, <1>2, <3>1 DEF WiresOK, FramesValid, o
    <3>2. CASE d # c
      BY <1>2, <3>2 DEF WiresOK, FramesValid
    <3> QED
      BY <3>1, <3>2
  <2>3. a = Inbound'
    BY <1>5 DEF a
  <2> HIDE DEF a
  <2> QED
    BY <1>8, <2>1, <2>2, <2>3 DEF FramesValid
<1>11. FramesInOrder'
  <2>1. ASSUME NEW i \in DOMAIN a, NEW j \in DOMAIN a, i < j
        PROVE  Precedes(a[i], a[j])
    <3>1. CASE j \in DOMAIN Inbound
      <4>1. i \in DOMAIN Inbound /\ j \in DOMAIN Inbound /\ i \in 1..n /\ j \in 1..n
        BY <1>5, <1>6, <2>1, <3>1
      <4> QED
        BY <1>6, <2>1, <4>1 DEF WiresOK, FramesInOrder
    <3>2. CASE j = n + 1
      <4>1. i \in DOMAIN Inbound /\ i \in 1..n
        BY <1>5, <1>6, <2>1, <3>2
      <4>2. Precedes(Inbound[i], o[1])
        BY <1>1, <4>1 DEF WiresOK, FramesInOrder, o
      <4> QED
        BY <1>1, <1>6, <3>2, <4>1, <4>2
    <3> QED
      BY <1>7, <3>1, <3>2
  <2>2. ASSUME NEW d \in Channels
        PROVE  /\ \A i, j \in DOMAIN out'[d] : i < j => Precedes(out'[d][i], out'[d][j])
               /\ \A i \in DOMAIN a, j \in DOMAIN out'[d] : Precedes(a[i], out'[d][j])
    <3>1. CASE d = c
      <4>1. ASSUME NEW i \in DOMAIN r, NEW j \in DOMAIN r, i < j PROVE Precedes(r[i], r[j])
        <5>1. i + 1 < j + 1 /\ i + 1 \in DOMAIN o /\ j + 1 \in DOMAIN o
          BY <1>1, <4>1
        <5> QED
          BY <1>1, <5>1 DEF WiresOK, FramesInOrder, o
      <4>2. ASSUME NEW i \in DOMAIN a, NEW j \in DOMAIN r PROVE Precedes(a[i], r[j])
        <5>1. 1 < j + 1 /\ 1 \in DOMAIN o /\ j + 1 \in DOMAIN o
          BY <1>1
        <5>2. i \in DOMAIN Inbound => Precedes(Inbound[i], o[j + 1])
          BY <5>1 DEF WiresOK, FramesInOrder, o
        <5>3. Precedes(o[1], o[j + 1])
          BY <5>1 DEF WiresOK, FramesInOrder, o
        <5> QED
          BY <1>1, <1>7, <5>2, <5>3
      <4> QED
        BY <1>2, <3>1, <4>1, <4>2
    <3>2. CASE d # c
      <4>1. out'[d] = out[d]
        BY <1>2, <3>2
      <4>2. \A j \in DOMAIN out[d] : Precedes(h, out[d][j])
        BY <1>9, <3>2 DEF WiresOK, FramesValid, Precedes
      <4>3. /\ \A i, j \in DOMAIN out[d] : i < j => Precedes(out[d][i], out[d][j])
            /\ \A i \in DOMAIN Inbound, j \in DOMAIN out[d] : Precedes(Inbound[i], out[d][j])
        BY DEF WiresOK, FramesInOrder
      <4> QED
        BY <1>7, <4>1, <4>2, <4>3
    <3> QED
      BY <3>1, <3>2
  <2>3. a = Inbound'
    BY <1>5 DEF a
  <2> HIDE DEF a
  <2> QED
    BY <2>1, <2>2, <2>3 DEF FramesInOrder
<1>12. WiresOK'
  <2>1. link = "up"
    BY DEF WiresOK
  <2> QED
    BY <1>3, <1>4, <1>10, <1>11, <2>1 DEF WiresOK
<1>13. ASSUME NEW d \in Channels PROVE Line(d)' = Line(d)
  <2>1. \A f : f \in Line(d)' <=> f.ch = d /\ (Within(a, f) \/ Within(out'[d], f))
    <3>1. a = Inbound'
      BY <1>5 DEF a
    <3> HIDE DEF a
    <3>2. \A f : f \in Line(d)' <=> f.ch = d /\ (Within(Inbound', f) \/ Within(out'[d], f))
      BY DEF Line, Within
    <3> QED
      BY <3>1, <3>2
  <2>2. \A f : Within(a, f) <=> Within(Inbound, f) \/ f = h
    <3> TAKE f
    <3>1. Within(Inbound, f) => Within(a, f)
      <4>1. HAVE Within(Inbound, f)
      <4>2. PICK i \in 1..n : Inbound[i] = f
        BY <1>5, <4>1 DEF Within
      <4>3. i \in DOMAIN a /\ a[i] = f
        BY <1>5, <1>6, <4>2
      <4> QED
        BY <4>3 DEF Within
    <3>2. f = h => Within(a, f)
      <4>1. n + 1 \in DOMAIN a /\ a[n + 1] = h
        BY <1>5, <1>6
      <4> QED
        BY <4>1 DEF Within
    <3>3. Within(a, f) => Within(Inbound, f) \/ f = h
      <4>1. HAVE Within(a, f)
      <4>2. PICK i \in DOMAIN a : a[i] = f
        BY <4>1 DEF Within
      <4>3. CASE i \in 1..n
        BY <1>5, <1>6, <4>2, <4>3 DEF Within
      <4>4. CASE i = n + 1
        BY <1>6, <4>2, <4>4
      <4> QED
        BY <1>5, <1>6, <4>2, <4>3, <4>4
    <3> QED
      BY <3>1, <3>2, <3>3
  <2>3. CASE d = c
    <3>1. \A f : Within(o, f) <=> f = h \/ Within(r, f)
      <4> TAKE f
      <4>1. f = h => Within(o, f)
        BY <1>1 DEF Within
      <4>2. Within(r, f) => Within(o, f)
        BY <1>1 DEF Within
      <4>3. ASSUME Within(o, f) PROVE f = h \/ Within(r, f)
        <5>1. PICK i \in DOMAIN o : o[i] = f
          BY <4>3 DEF Within
        <5>2. CASE i = 1
          BY <1>1, <5>1, <5>2
        <5>3. CASE i # 1
          <6>1. i - 1 \in DOMAIN r /\ i - 1 + 1 = i
            BY <1>1, <5>3
          <6>2. r[i - 1] = f
            BY <1>1, <5>1, <6>1
          <6> QED
            BY <6>1, <6>2 DEF Within
        <5> QED
          BY <5>2, <5>3
      <4> QED
        BY <4>1, <4>2, <4>3
    <3>2. \A f : f \in Line(d)' <=> f \in Line(d)
      BY <1>2, <2>1, <2>2, <2>3, <3>1, LineMember DEF o
    <3> QED
      BY <3>2
  <2>4. CASE d # c
    <3>1. \A f : f.ch = d => f # h
      BY <1>9, <2>4
    <3>2. \A f : f \in Line(d)' <=> f \in Line(d)
      BY <1>2, <2>1, <2>2, <2>4, <3>1, LineMember
    <3> QED
      BY <3>2
  <2> QED
    BY <2>3, <2>4
<1>14. Inbound' # <<>>
  BY <1>5, <1>6 DEF a
<1> QED
  BY <1>12, <1>13, <1>14

(* When the link fails, lines lose their ends. *)
LEMMA LinkDownKeeps ==
    ASSUME WiresOK, link' = "down", out' = [c \in Channels |-> <<>>],
           UNCHANGED <<sock, inbuf, queued, msgs>>
    PROVE  /\ WiresOK'
           /\ \A d \in Channels :
                /\ Line(d)' \subseteq Line(d)
                /\ \A f \in Line(d) : f \notin Line(d)' => \A g \in Line(d)' : Precedes(g, f)
<1>1. Inbound' = Inbound /\ \A d \in Channels : out'[d] = <<>> /\ DOMAIN out'[d] = {}
  <2>1. DOMAIN <<>> = {}
    BY EmptySeq, LenProperties
  <2> QED
    BY <2>1 DEF Inbound
<1>2. out' \in [Channels -> Seq(Frames)]
  BY EmptySeq
<1>3. \A f : Valid(f) <=> Valid(f)'
  BY DEF Valid
<1>4. FramesValid'
  BY <1>1, <1>3 DEF WiresOK, FramesValid
<1>5. FramesInOrder'
  BY <1>1 DEF WiresOK, FramesInOrder
<1>6. WiresOK'
  BY <1>1, <1>2, <1>4, <1>5 DEF WiresOK, Placed
<1>7. \A d \in Channels : \A f : f \in Line(d)' <=> f.ch = d /\ Within(Inbound, f)
  BY <1>1 DEF Line, Within
<1>8. \A d \in Channels : Line(d)' \subseteq Line(d)
  BY <1>7, LineMember
<1>9. ASSUME NEW d \in Channels, NEW f \in Line(d), f \notin Line(d)', NEW g \in Line(d)'
      PROVE  Precedes(g, f)
  <2>1. Within(out[d], f) /\ Within(Inbound, g)
    BY <1>7, <1>9, LineMember
  <2> QED
    BY <2>1 DEF WiresOK, FramesInOrder, Within
<1> QED
  BY <1>6, <1>8, <1>9

(* A closed connection has empty lines. *)
LEMMA CloseKeeps ==
    ASSUME WiresOK, NEW s, Close(s)
    PROVE  WiresOK' /\ Inbound' = <<>> /\ \A d \in Channels : Line(d)' = {}
<1>1. DOMAIN <<>> = {} /\ <<>> \in Seq(Frames) /\ <<>> \o <<>> = <<>>
  BY EmptySeq, LenProperties, ConcatEmptySeq
<1>2. Inbound' = <<>> /\ \A d \in Channels : out'[d] = <<>>
  BY <1>1 DEF Close, Inbound
<1>3. WiresOK'
  BY <1>1, <1>2 DEF WiresOK, Placed, Close, FramesValid, FramesInOrder
<1>4. \A d \in Channels : Line(d)' = {}
  BY <1>1, <1>2 DEF Line
<1> QED
  BY <1>2, <1>3, <1>4
=============================================================================
