-------------------------- MODULE MethodCallProofs --------------------------
(* Proofs about MethodCall and the conversion of AMQTable, for every dict of  *)
(* any size and depth, every table of other clients, every number of names    *)
(* and properties, and every size of a block.                                 *)
(*                                                                            *)
(* The conversion is a walk over a tree, with a loop in progress at each      *)
(* prefix of `here`.  Its invariant, TableInv, relates what has been made to  *)
(* where those loops are; that nothing has been left out (Whole) holds unless *)
(* an exception or one of the values that do not survive explains it.         *)
EXTENDS MethodCall, PyObjectArrayProofs, WellFoundedInduction

-----------------------------------------------------------------------------
(* Places.                                                                    *)
Paths == Seq(Nat \ {0})

(* The place of the loop of level k, when the innermost loop is at h.         *)
LoopAt(h, k) == SubSeq(h, 1, k - 1)

(* What the parts of a place but <<>> are.                                    *)
LEMMA ParentIs ==
    ASSUME NEW h \in Paths, h # <<>>
    PROVE  /\ Len(h) \in Nat \ {0} /\ DOMAIN h = 1..Len(h)
           /\ \A k \in 1..Len(h) : h[k] \in Nat \ {0}
           /\ Parent(h) \in Paths /\ Len(Parent(h)) = Len(h) - 1
           /\ \A k \in 1..(Len(h) - 1) : Parent(h)[k] = h[k]
           /\ Append(Parent(h), h[Len(h)]) = h
<1> DEFINE N == Nat \ {0}
<1>1. /\ Len(h) \in Nat \ {0} /\ DOMAIN h = 1..Len(h) /\ \A k \in 1..Len(h) : h[k] \in N
  BY EmptySeq, LenProperties, ElementOfSeq DEF Paths
<1>2. /\ Parent(h) \in Seq(N) /\ Len(Parent(h)) = Len(h) - 1
      /\ \A k \in 1..(Len(h) - 1) : Parent(h)[k] = h[k]
  BY <1>1, SubSeqProperties DEF Paths, Parent
<1>3. Append(Parent(h), h[Len(h)]) = h
  <2> DEFINE p == Parent(h)
             a == Append(p, h[Len(h)])
  <2>1. h[Len(h)] \in N /\ h \in Seq(N)
    BY <1>1 DEF Paths
  <2>2. p \in Seq(N) /\ Len(p) + 1 = Len(h) /\ \A k \in 1..Len(p) : p[k] = h[k]
    BY <1>1, <1>2
  <2> HIDE DEF p, N
  <2>3. /\ a \in Seq(N) /\ Len(a) = Len(p) + 1
        /\ (\A k \in 1..Len(p) : a[k] = p[k]) /\ a[Len(p) + 1] = h[Len(h)]
    BY <2>1, <2>2, AppendProperties
  <2> HIDE DEF a
  <2>4. \A k \in 1..Len(a) : a[k] = h[k]
    BY <1>1, <2>2, <2>3
  <2>5. a = h
    BY <2>1, <2>2, <2>3, <2>4, SeqEqual
  <2> QED
    BY <2>5 DEF a, p
<1> QED
  BY <1>1, <1>2, <1>3 DEF Paths

(* The place of a member of what is at p.                                     *)
LEMMA MemberOf ==
    ASSUME NEW p \in Paths, NEW i \in Nat \ {0}
    PROVE  LET q == Append(p, i) IN
           /\ q \in Paths /\ q # <<>> /\ Len(q) = Len(p) + 1 /\ q[Len(q)] = i /\ Parent(q) = p
<1> DEFINE N == Nat \ {0}
           q == Append(p, i)
<1>1. /\ q \in Seq(N) /\ Len(p) \in Nat /\ Len(q) = Len(p) + 1 /\ q[Len(q)] = i
      /\ \A k \in 1..Len(p) : q[k] = p[k]
  BY AppendProperties, LenProperties DEF Paths
<1> HIDE DEF q
<1>2. q # <<>>
  BY <1>1, EmptySeq
<1>3. /\ Parent(q) \in Paths /\ Len(Parent(q)) = Len(q) - 1
      /\ \A k \in 1..(Len(q) - 1) : Parent(q)[k] = q[k]
  BY <1>1, <1>2, ParentIs DEF Paths
<1>4. Parent(q) = p
  <2>1. /\ Parent(q) \in Seq(N) /\ p \in Seq(N) /\ Len(Parent(q)) = Len(p)
        /\ \A k \in 1..Len(Parent(q)) : Parent(q)[k] = p[k]
    BY <1>1, <1>3 DEF Paths
  <2> QED
    BY <2>1, SeqEqual
<1> QED
  BY <1>1, <1>2, <1>4 DEF Paths, q

(* The place of the loop of a level is the beginning of where it is.          *)
LEMMA LoopIs ==
    ASSUME NEW h \in Paths, NEW k \in 1..Len(h)
    PROVE  /\ LoopAt(h, k) \in Paths /\ Len(LoopAt(h, k)) = k - 1
           /\ \A i \in 1..(k - 1) : LoopAt(h, k)[i] = h[i]
<1> DEFINE N == Nat \ {0}
<1>1. Len(h) \in Nat /\ k - 1 \in 0..Len(h)
  BY LenProperties DEF Paths
<1>2. CASE k = 1
  <2>1. LoopAt(h, k) = <<>>
    BY <1>1, <1>2, SubSeqProperties, EmptySeq DEF LoopAt, Paths
  <2> QED
    BY <2>1, <1>2, EmptySeq DEF Paths
<1>3. CASE k # 1
  <2>1. k - 1 \in 1..Len(h) /\ h \in Seq(N)
    BY <1>1, <1>3 DEF Paths
  <2> QED
    BY <2>1, <1>1, SubSeqProperties DEF LoopAt, Paths
<1> QED
  BY <1>2, <1>3

(* Places that begin alike are in the same loops.                             *)
LEMMA SameLoop ==
    ASSUME NEW h \in Paths, NEW g \in Paths, NEW k \in 1..Len(h), k <= Len(g),
           \A i \in 1..(k - 1) : g[i] = h[i]
    PROVE  LoopAt(g, k) = LoopAt(h, k)
<1>1. Len(h) \in Nat /\ Len(g) \in Nat /\ k \in 1..Len(g)
  BY LenProperties DEF Paths
<1> DEFINE a == LoopAt(g, k)
           b == LoopAt(h, k)
<1>2. a \in Paths /\ Len(a) = k - 1 /\ \A i \in 1..(k - 1) : a[i] = g[i]
  BY <1>1, LoopIs
<1>3. b \in Paths /\ Len(b) = k - 1 /\ \A i \in 1..(k - 1) : b[i] = h[i]
  BY LoopIs
<1> HIDE DEF a, b
<1>4. a = b
  BY <1>2, <1>3, SeqEqual DEF Paths
<1> QED
  BY <1>4 DEF a, b

(* The innermost loop is that of the last level ...                           *)
LEMMA Innermost ==
    ASSUME NEW h \in Paths, h # <<>>
    PROVE  LoopAt(h, Len(h)) = Parent(h)
BY DEF LoopAt, Parent

(* ... and each loop is at the place of the one inside it.                    *)
LEMMA Inside ==
    ASSUME NEW h \in Paths, NEW k \in 1..Len(h), k < Len(h)
    PROVE  Append(LoopAt(h, k), h[k]) = LoopAt(h, k + 1)
<1> DEFINE N == Nat \ {0}
           a == Append(LoopAt(h, k), h[k])
           b == LoopAt(h, k + 1)
<1>1. Len(h) \in Nat /\ h[k] \in N /\ k + 1 \in 1..Len(h)
  BY LenProperties, ElementOfSeq DEF Paths
<1>2. LoopAt(h, k) \in Seq(N) /\ Len(LoopAt(h, k)) = k - 1
        /\ \A i \in 1..(k - 1) : LoopAt(h, k)[i] = h[i]
  BY LoopIs DEF Paths
<1>3. b \in Seq(N) /\ Len(b) = k /\ \A i \in 1..k : b[i] = h[i]
  <2>1. /\ b \in Seq(N) /\ Len(b) = (k + 1) - 1
        /\ \A i \in 1..((k + 1) - 1) : b[i] = h[i]
    BY <1>1, LoopIs DEF Paths
  <2> QED
    BY <2>1, <1>1
<1>4. a \in Seq(N) /\ Len(a) = k /\ \A i \in 1..k : a[i] = h[i]
  <2>1. a \in Seq(N) /\ Len(a) = (k - 1) + 1
          /\ (\A i \in 1..(k - 1) : a[i] = LoopAt(h, k)[i]) /\ a[(k - 1) + 1] = h[k]
    BY <1>1, <1>2, AppendProperties
  <2>2. (k - 1) + 1 = k
    BY <1>1
  <2> QED
    BY <2>1, <2>2, <1>1, <1>2
<1> QED
  BY <1>3, <1>4, SeqEqual

(* The innermost loop goes on: the others stay where they are.                *)
LEMMA Advances ==
    ASSUME NEW h \in Paths, h # <<>>
    PROVE  LET g == NextTo(h) IN
           /\ g \in Paths /\ g # <<>> /\ Len(g) = Len(h)
           /\ \A k \in 1..Len(h) : LoopAt(g, k) = LoopAt(h, k)
           /\ \A k \in 1..Len(h) : g[k] = IF k = Len(h) THEN h[k] + 1 ELSE h[k]
<1> DEFINE N == Nat \ {0}
           g == NextTo(h)
<1>1. Len(h) \in Nat \ {0} /\ h[Len(h)] \in N /\ Len(h) \in 1..Len(h)
  BY ParentIs
<1>2. /\ g \in Seq(N) /\ Len(g) = Len(h) 
      /\ \A k \in 1..Len(h) : g[k] = IF k = Len(h) THEN h[k] + 1 ELSE h[k]
  <2>1. h[Len(h)] + 1 \in N
    BY <1>1
  <2> QED
    BY <1>1, <2>1, ExceptSeq, LenProperties DEF Paths, NextTo
<1> HIDE DEF g
<1>3. g # <<>>
  BY <1>1, <1>2, EmptySeq
<1>4. \A k \in 1..Len(h) : LoopAt(g, k) = LoopAt(h, k)
  <2> TAKE k \in 1..Len(h)
  <2>1. k <= Len(g) /\ \A i \in 1..(k - 1) : g[i] = h[i]
    BY <1>1, <1>2
  <2> QED
    BY <1>2, <2>1, SameLoop DEF Paths
<1> QED
  BY <1>2, <1>3, <1>4 DEF g, Paths

(* The innermost loop returns and its caller goes on.                         *)
LEMMA Climbs ==
    ASSUME NEW h \in Paths, h # <<>>, Len(h) # 1
    PROVE  LET g == NextTo(Parent(h)) IN
           /\ g \in Paths /\ g # <<>> /\ Len(g) = Len(h) - 1
           /\ \A k \in 1..(Len(h) - 1) : LoopAt(g, k) = LoopAt(h, k)
           /\ \A k \in 1..(Len(h) - 1) : g[k] = IF k = Len(h) - 1 THEN h[k] + 1 ELSE h[k]
<1> DEFINE p == Parent(h)
           g == NextTo(p)
<1>1. /\ Len(h) \in Nat \ {0, 1}
      /\ p \in Paths /\ Len(p) = Len(h) - 1 /\ \A k \in 1..(Len(h) - 1) : p[k] = h[k]
  BY ParentIs
<1> HIDE DEF p
<1>2. p # <<>>
  BY <1>1, EmptySeq DEF Paths
<1>3. /\ g \in Paths /\ g # <<>> /\ Len(g) = Len(p)
      /\ \A k \in 1..Len(p) : LoopAt(g, k) = LoopAt(p, k)
      /\ \A k \in 1..Len(p) : g[k] = IF k = Len(p) THEN p[k] + 1 ELSE p[k]
  BY <1>1, <1>2, Advances
<1>4. \A k \in 1..(Len(h) - 1) : LoopAt(p, k) = LoopAt(h, k)
  <2> TAKE k \in 1..(Len(h) - 1)
  <2>1. k \in 1..Len(h) /\ k <= Len(p) /\ \A i \in 1..(k - 1) : p[i] = h[i]
    BY <1>1
  <2> QED
    BY <2>1, <1>1, SameLoop
<1> QED
  BY <1>1, <1>3, <1>4 DEF p

(* A loop begins, for what the innermost one is at.                           *)
LEMMA Descends ==
    ASSUME NEW h \in Paths
    PROVE  LET g == Append(h, 1) IN
           /\ g \in Paths /\ g # <<>> /\ Len(g) = Len(h) + 1 /\ Parent(g) = h
           /\ \A k \in 1..Len(h) : LoopAt(g, k) = LoopAt(h, k) /\ g[k] = h[k]
           /\ LoopAt(g, Len(h) + 1) = h /\ g[Len(h) + 1] = 1
<1> DEFINE g == Append(h, 1)
<1>1. g \in Paths /\ g # <<>> /\ Len(h) \in Nat /\ Len(g) = Len(h) + 1 /\ Parent(g) = h
        /\ g[Len(g)] = 1
  BY MemberOf, LenProperties DEF Paths
<1>2. \A k \in 1..Len(h) : g[k] = h[k]
  BY AppendProperties DEF Paths
<1> HIDE DEF g
<1>3. \A k \in 1..Len(h) : LoopAt(g, k) = LoopAt(h, k)
  <2> TAKE k \in 1..Len(h)
  <2>1. k <= Len(g) /\ \A i \in 1..(k - 1) : g[i] = h[i]
    BY <1>1, <1>2
  <2> QED
    BY <2>1, <1>1, SameLoop
<1>4. LoopAt(g, Len(h) + 1) = h
  BY <1>1, Innermost
<1> QED
  BY <1>1, <1>2, <1>3, <1>4 DEF g

(* What the value at p becomes, and whether it ends the loop it is met in.    *)
FieldOf(d, p) == IF p = <<>> \/ InDict(d, p) THEN EntryField(d[p]) ELSE MemberField(d[p])
Fails(d, p) == IF p = <<>> \/ InDict(d, p) THEN EntryFails(d[p]) ELSE MemberFails(d[p])

(* Each loop in progress is that of a list or dict, and item_tmp, if set, a   *)
(* text it has been at.                                                       *)
TextOf(k) ==
    LET p == LoopAt(here, k)
        q == Append(p, item_tmp[k])
    IN  arg[p].kind = "list" /\ item_tmp[k] < here[k] /\ q \in DOMAIN arg /\ arg[q].kind = "text"
Cursor ==
    /\ here \in Paths /\ item_tmp \in Seq(Nat) /\ Len(item_tmp) = Len(here)
    /\ \A k \in 1..Len(here) :
         /\ LoopAt(here, k) \in DOMAIN arg /\ arg[LoopAt(here, k)].kind \in Containers
         /\ item_tmp[k] # 0 => TextOf(k)

(* The fields are those of the values at their places.                        *)
Made(p) ==
    /\ p \in DOMAIN arg /\ ~Fails(arg, p)
    /\ fields[p] = Node(FieldOf(arg, p), KeyField(arg[p].key))
FieldsMade ==
    /\ here = <<>> => <<>> \in DOMAIN fields
    /\ \A p \in DOMAIN fields : Made(p)

(* A field is in a table or array that is made or being made.                 *)
Attached ==
    \A p \in DOMAIN fields \ {<<>>} :
        Parent(p) \in DOMAIN fields \/ \E k \in 1..Len(here) : Parent(p) = LoopAt(here, k)

(* A loop has made the fields of the values it has been at.                   *)
Earlier ==
    \A k \in 1..Len(here) : \A i \in 1..(here[k] - 1) : Append(LoopAt(here, k), i) \in DOMAIN fields

(* An iterator is kept by a loop that has met no failure, or not yet.         *)
NotFailed(p, q) ==
    \/ ~MemberFails(arg[q])
    \/ \E k \in 1..Len(here) : p = LoopAt(here, k) /\ q[Len(q)] >= here[k]
Iterators ==
    \A p \in iterators :
        /\ p \in DOMAIN arg /\ arg[p].kind = "list"
        /\ \A q \in DOMAIN arg \ {<<>>} : Parent(q) = p => NotFailed(p, q)

(* A text released once too often is in a list with an unsupported member.    *)
LaterUnsupported(p) ==
    /\ p \in DOMAIN arg /\ arg[p].kind = "text"
    /\ \E q \in DOMAIN arg :
         /\ Parent(q) = Parent(p) /\ q[Len(q)] > p[Len(p)]
         /\ arg[Parent(q)].kind = "list" /\ Unsupported(arg[q])
Released == \A p \in dropped : LaterUnsupported(p)

(* The invariant of the conversion.                                           *)
TableInv ==
    IsDict(arg) /\ Cursor /\ FieldsMade /\ Attached /\ Earlier /\ Iterators /\ Released

(* Nothing has been left out, unless there is an exception or a value that    *)
(* does not survive.                                                          *)
Sound == ~exc /\ \A p \in DOMAIN arg \ {<<>>} : Survives(arg, p)
Whole == Sound => \A p \in DOMAIN arg \ {<<>>} : Parent(p) \in DOMAIN fields => p \in DOMAIN fields

-----------------------------------------------------------------------------
(* What the tree of a dict is.                                                *)
LEMMA DictIs ==
    ASSUME IsDict(arg)
    PROVE  /\ <<>> \in DOMAIN arg /\ arg[<<>>].kind = "dict"
           /\ \A p \in DOMAIN arg : p \in Paths
           /\ \A p \in DOMAIN arg \ {<<>>} :
                /\ Parent(p) \in DOMAIN arg /\ arg[Parent(p)].kind \in Containers
                /\ \A i \in 1..p[Len(p)] : Append(Parent(p), i) \in DOMAIN arg
BY DEF IsDict, IsTree, Node, Containers, Paths

(* A dict becomes a table and a list an array.                                *)
LEMMA ContainerIs ==
    ASSUME NEW p, arg[p].kind \in Containers
    PROVE  /\ ~Fails(arg, p)
           /\ FieldOf(arg, p) = IF arg[p].kind = "dict" THEN <<"TABLE", 0>> ELSE <<"ARRAY", 0>>
BY DEF Containers, Fails, FieldOf, EntryFails, MemberFails, Unsupported, EntryField,
   MemberField

(* The values of a dict or list whose loop has ended are behind it.           *)
LEMMA AllBehind ==
    ASSUME IsDict(arg), NEW h \in Paths, h # <<>>, h \notin DOMAIN arg,
           NEW q \in DOMAIN arg \ {<<>>}, Parent(q) = Parent(h)
    PROVE  /\ q[Len(q)] \in 1..(h[Len(h)] - 1)
           /\ q = Append(LoopAt(h, Len(h)), q[Len(q)])
<1>1. q \in Paths /\ \A i \in 1..q[Len(q)] : Append(Parent(q), i) \in DOMAIN arg
  BY DictIs
<1>2. /\ h[Len(h)] \in Nat \ {0} /\ Append(Parent(h), h[Len(h)]) = h
      /\ q[Len(q)] \in Nat \ {0} /\ Append(Parent(q), q[Len(q)]) = q
  <2>1. Len(h) \in 1..Len(h) /\ Len(q) \in 1..Len(q)
    BY <1>1, ParentIs
  <2> QED
    BY <1>1, <2>1, ParentIs
<1>3. h[Len(h)] \notin 1..q[Len(q)]
  BY <1>1, <1>2
<1> QED
  BY <1>2, <1>3, Innermost

(* What a value is the first of is a loop, not a value: a place with places   *)
(* below it is a list or dict.                                                *)
LEMMA NoMembers ==
    ASSUME IsDict(arg), NEW p, arg[p].kind \notin Containers, NEW q \in DOMAIN arg \ {<<>>}
    PROVE  Parent(q) # p
BY DictIs

-----------------------------------------------------------------------------
(* A loop makes the field of a value that is no dict or list, and goes on.    *)
Puts ==
    /\ here # <<>> /\ here \in DOMAIN arg /\ arg[here].kind \notin Containers /\ ~Fails(arg, here)
    /\ fields' = With(here, FieldOf(arg, here))
    /\ here' = NextTo(here) /\ arg' = arg

(* Only the innermost loop moves, and one field is made.                      *)
LEMMA PutsWhere ==
    ASSUME TableInv, Puts
    PROVE  /\ here' \in Paths /\ here' # <<>> /\ Len(here') = Len(here) /\ Len(here) \in Nat \ {0}
           /\ \A k \in 1..Len(here) : LoopAt(here', k) = LoopAt(here, k)
           /\ \A k \in 1..Len(here) : here'[k] = IF k = Len(here) THEN here[k] + 1 ELSE here[k]
           /\ \A k \in 1..Len(here) : here[k] \in Nat \ {0}
           /\ DOMAIN fields' = DOMAIN fields \cup {here}
           /\ \A p \in DOMAIN fields' : fields'[p] =
                IF p = here THEN Node(FieldOf(arg, here), KeyField(arg[here].key)) ELSE fields[p]
<1>1. here \in Paths /\ here # <<>>
  BY DEF TableInv, Cursor, Puts
<1> QED
  BY <1>1, Advances, ParentIs DEF Puts, With

(* What is made so far stays in order.                                        *)
LEMMA PutsKeeps ==
    ASSUME TableInv, Puts
    PROVE  FieldsMade' /\ Attached' /\ Earlier'
<1>1. /\ FieldsMade /\ Attached /\ Earlier /\ arg' = arg /\ here \in DOMAIN arg /\ ~Fails(arg, here)
      /\ here \in Paths /\ here # <<>>
  BY DEF TableInv, Cursor, Puts
<1>2. FieldsMade'
  <2>1. here' # <<>>
    BY PutsWhere
  <2>2. ASSUME NEW p \in DOMAIN fields' PROVE Made(p)'
    BY <1>1, PutsWhere DEF Made, FieldsMade
  <2> QED
    BY <2>1, <2>2 DEF FieldsMade
<1>3. Attached'
  <2> SUFFICES ASSUME NEW p \in DOMAIN fields' \ {<<>>}
               PROVE  Parent(p) \in DOMAIN fields'
                        \/ \E k \in 1..Len(here') : Parent(p) = LoopAt(here', k)
    BY DEF Attached
  <2>1. CASE p = here
    <3>1. Len(here) \in 1..Len(here') /\ LoopAt(here', Len(here)) = LoopAt(here, Len(here))
      BY PutsWhere
    <3> QED
      BY <1>1, <2>1, <3>1, Innermost
  <2>2. CASE p # here
    <3>1. Parent(p) \in DOMAIN fields \/ \E k \in 1..Len(here) : Parent(p) = LoopAt(here, k)
      BY <1>1, <2>2, PutsWhere DEF Attached
    <3> QED
      BY <3>1, PutsWhere
  <2> QED
    BY <2>1, <2>2
<1>4. Earlier'
  <2> SUFFICES ASSUME NEW k \in 1..Len(here'), NEW i \in 1..(here'[k] - 1)
               PROVE  Append(LoopAt(here', k), i) \in DOMAIN fields'
    BY DEF Earlier
  <2>1. k \in 1..Len(here) /\ LoopAt(here', k) = LoopAt(here, k)
    BY PutsWhere
  <2>2. CASE i \in 1..(here[k] - 1)
    BY <1>1, <2>1, <2>2, PutsWhere DEF Earlier
  <2>3. CASE i \notin 1..(here[k] - 1)
    <3>1. k = Len(here) /\ i = here[k]
      BY <2>1, <2>3, PutsWhere
    <3>2. Append(LoopAt(here, k), i) = here
      BY <1>1, <3>1, Innermost, ParentIs
    <3> QED
      BY <2>1, <3>2, PutsWhere
  <2> QED
    BY <2>2, <2>3
<1> QED
  BY <1>2, <1>3, <1>4

(* Nothing is left out.                                                       *)
LEMMA PutsWhole ==
    ASSUME TableInv, Whole, Puts, exc => exc'
    PROVE  Whole'
<1> SUFFICES ASSUME Sound', NEW p \in DOMAIN arg' \ {<<>>}, Parent(p) \in DOMAIN fields'
             PROVE  p \in DOMAIN fields'
  BY DEF Whole
<1>1. arg' = arg /\ Sound /\ Parent(p) # here
  BY NoMembers DEF TableInv, Puts, Sound
<1> QED
  BY <1>1, PutsWhere DEF Whole

-----------------------------------------------------------------------------
(* A call returns the table or array of its dict or list; of the fields made  *)
(* so far those at K are kept, and the others are below it.                   *)
Returns(K) ==
    /\ here # <<>> /\ ReturnToCaller /\ arg' = arg
    /\ K \subseteq DOMAIN fields
    /\ \A q \in DOMAIN fields \ K : Below(Parent(here), q)
    /\ \A q \in K \ {<<>>} : Parent(q) \in DOMAIN fields => Parent(q) \in K
    /\ LET p == Parent(here)
       IN  fields' = [q \in K \cup {p} |->
                         IF q = p THEN Node(FieldOf(arg, p), KeyField(arg[p].key)) ELSE fields[q]]

(* Where a return leads.                                                      *)
LEMMA ReturnsTo ==
    ASSUME TableInv, here # <<>>, ReturnToCaller
    PROVE  /\ here \in Paths /\ Len(here) \in Nat \ {0}
           /\ Parent(here) = LoopAt(here, Len(here))
           /\ Parent(here) \in DOMAIN arg /\ arg[Parent(here)].kind \in Containers
           /\ here' \in Paths /\ Len(here') = Len(here) - 1
           /\ here' = <<>> <=> Parent(here) = <<>>
           /\ \A k \in 1..Len(here') : LoopAt(here', k) = LoopAt(here, k)
           /\ \A k \in 1..Len(here') : here'[k] = IF k = Len(here') THEN here[k] + 1 ELSE here[k]
           /\ \A k \in 1..Len(here) : here[k] \in Nat \ {0}
           /\ Len(here') > 0 => Append(LoopAt(here, Len(here')), here[Len(here')]) = Parent(here)
<1>1. here \in Paths /\ \A k \in 1..Len(here) : LoopAt(here, k) \in DOMAIN arg
        /\ arg[LoopAt(here, k)].kind \in Containers
  BY DEF TableInv, Cursor
<1>2. /\ Len(here) \in Nat \ {0} /\ \A k \in 1..Len(here) : here[k] \in Nat \ {0}
      /\ Parent(here) \in Paths /\ Len(Parent(here)) = Len(here) - 1
      /\ Parent(here) = LoopAt(here, Len(here))
  BY <1>1, ParentIs, Innermost
<1>3. Len(here) \in 1..Len(here)
  BY <1>2
<1>4. CASE Len(here) = 1
  <2>1. here' = <<>> /\ Len(<<>>) = 0 /\ <<>> \in Paths /\ Parent(here) = <<>>
    <3>1. \A s \in Paths : s # <<>> => Len(s) \in Nat \ {0}
      BY EmptySeq DEF Paths
    <3> QED
      BY <1>2, <1>4, <3>1, EmptySeq DEF ReturnToCaller, Paths
  <2> QED
    BY <1>1, <1>2, <1>3, <1>4, <2>1
<1>5. CASE Len(here) # 1
  <2>1. here' = NextTo(Parent(here))
    BY <1>5 DEF ReturnToCaller
  <2>2. /\ here' \in Paths /\ here' # <<>> /\ Len(here') = Len(here) - 1
        /\ \A k \in 1..(Len(here) - 1) : LoopAt(here', k) = LoopAt(here, k)
        /\ \A k \in 1..(Len(here) - 1) : here'[k] = IF k = Len(here) - 1
             THEN here[k] + 1 ELSE here[k]
    BY <1>1, <1>5, <2>1, Climbs
  <2>3. Parent(here) # <<>>
    BY <1>2, <1>5, EmptySeq
  <2>4. Append(LoopAt(here, Len(here) - 1), here[Len(here) - 1]) = LoopAt(here, Len(here))
    <3>1. Len(here) - 1 \in 1..Len(here) /\ Len(here) - 1 < Len(here)
            /\ (Len(here) - 1) + 1 = Len(here)
      BY <1>2, <1>5
    <3> QED
      BY <1>1, <3>1, Inside
  <2> QED
    BY <1>1, <1>2, <1>3, <2>2, <2>3, <2>4
<1> QED
  BY <1>4, <1>5

(* What is made so far stays in order.                                        *)
LEMMA ReturnsKeeps ==
    ASSUME TableInv, NEW K, Returns(K)
    PROVE  FieldsMade' /\ Attached' /\ Earlier'
<1> DEFINE p == Parent(here)
           n == Len(here)
<1>1. /\ FieldsMade /\ Attached /\ Earlier /\ arg' = arg /\ here # <<>> /\ ReturnToCaller
      /\ here \in Paths
  BY DEF TableInv, Cursor, Returns
<1>2. /\ n \in Nat \ {0} /\ p = LoopAt(here, n) /\ Len(here') = n - 1
      /\ p \in DOMAIN arg /\ arg[p].kind \in Containers
      /\ here' = <<>> <=> p = <<>>
      /\ \A k \in 1..Len(here') : LoopAt(here', k) = LoopAt(here, k)
      /\ \A k \in 1..Len(here') : here'[k] = IF k = Len(here') THEN here[k] + 1 ELSE here[k]
      /\ \A k \in 1..Len(here) : here[k] \in Nat \ {0}
      /\ Len(here') > 0 => Append(LoopAt(here, Len(here')), here[Len(here')]) = p
  BY <1>1, ReturnsTo
<1>3. /\ DOMAIN fields' = K \cup {p} /\ K \subseteq DOMAIN fields
      /\ \A q \in K \ {<<>>} : Parent(q) \in DOMAIN fields => Parent(q) \in K
      /\ \A q \in DOMAIN fields : q \in K \/ Below(p, q)
      /\ \A q \in DOMAIN fields' : fields'[q] =
           IF q = p THEN Node(FieldOf(arg, p), KeyField(arg[p].key)) ELSE fields[q]
  BY DEF Returns
<1>4. ~Fails(arg, p)
  BY <1>2, ContainerIs
<1> HIDE DEF p, n
<1>5. FieldsMade'
  <2>1. ASSUME NEW q \in DOMAIN fields' PROVE Made(q)'
    BY <1>1, <1>2, <1>3, <1>4 DEF Made, FieldsMade
  <2>2. here' = <<>> => <<>> \in DOMAIN fields'
    BY <1>2, <1>3
  <2> QED
    BY <2>1, <2>2 DEF FieldsMade
<1>6. Attached'
  <2> SUFFICES ASSUME NEW q \in DOMAIN fields' \ {<<>>}
               PROVE  Parent(q) \in DOMAIN fields'
                        \/ \E k \in 1..Len(here') : Parent(q) = LoopAt(here', k)
    BY DEF Attached
  <2>1. CASE q = p
    <3>1. p # <<>> /\ p \in Paths
      <4>1. p \in Paths
        BY <1>1, ParentIs DEF p
      <4> QED
        BY <2>1, <4>1
    <3>2. here' # <<>> /\ Len(here') > 0
      <4>1. here' # <<>> /\ here' \in Paths
        BY <1>1, <1>2, <3>1, ReturnsTo
      <4> QED
        BY <4>1, EmptySeq DEF Paths
    <3>3. Len(here') \in 1..Len(here') /\ Len(here') \in 1..Len(here) 
      BY <1>2, <3>2 DEF n
    <3>4. Parent(p) = LoopAt(here, Len(here'))
      <4>1. LoopAt(here, Len(here')) \in Paths /\ here[Len(here')] \in Nat \ {0}
        BY <1>1, <1>2, <3>3, LoopIs
      <4> QED
        BY <1>2, <3>2, <4>1, MemberOf
    <3> QED
      BY <1>2, <2>1, <3>3, <3>4
  <2>2. CASE q # p
    <3>1. Parent(q) \in DOMAIN fields \/ \E k \in 1..Len(here) : Parent(q) = LoopAt(here, k)
      BY <1>1, <1>3, <2>2 DEF Attached
    <3>2. CASE Parent(q) \in DOMAIN fields
      <4>1. q \in K \ {<<>>}
        BY <1>3, <2>2
      <4> QED
        BY <1>3, <3>2, <4>1
    <3>3. CASE \E k \in 1..Len(here) : Parent(q) = LoopAt(here, k)
      <4>1. PICK k \in 1..Len(here) : Parent(q) = LoopAt(here, k)
        BY <3>3
      <4>2. CASE k = n
        BY <1>2, <1>3, <4>1, <4>2
      <4>3. CASE k # n
        <5>1. k \in 1..Len(here')
          BY <1>2, <4>3 DEF n
        <5> QED
          BY <1>2, <4>1, <5>1
      <4> QED
        BY <4>2, <4>3
    <3> QED
      BY <3>1, <3>2, <3>3
  <2> QED
    BY <2>1, <2>2
<1>7. Earlier'
  <2> SUFFICES ASSUME NEW k \in 1..Len(here'), NEW i \in 1..(here'[k] - 1)
               PROVE  Append(LoopAt(here', k), i) \in DOMAIN fields'
    BY DEF Earlier
  <2>1. k \in 1..Len(here) /\ LoopAt(here', k) = LoopAt(here, k)
    BY <1>2 DEF n
  <2>2. CASE i \in 1..(here[k] - 1)
    <3> DEFINE q == Append(LoopAt(here, k), i)
    <3>1. q \in DOMAIN fields
      BY <1>1, <2>1, <2>2 DEF Earlier
    <3>2. Len(q) = (k - 1) + 1
      <4>1. i \in Nat \ {0} /\ LoopAt(here, k) \in Paths /\ Len(LoopAt(here, k)) = k - 1
        BY <1>1, <2>1, <2>2, LoopIs
      <4> QED
        BY <4>1, MemberOf
    <3>3. Len(p) = Len(here')
      BY <1>1, <1>2, ParentIs DEF p, n
    <3> HIDE DEF q
    <3>4. ~Below(p, q)
      BY <1>2, <3>2, <3>3 DEF Below
    <3> QED
      BY <1>3, <2>1, <3>1, <3>4 DEF q
  <2>3. CASE i \notin 1..(here[k] - 1)
    <3>1. here[k] \in Nat \ {0} /\ here'[k] = IF k = Len(here') THEN here[k] + 1 ELSE here[k]
      BY <1>2, <2>1
    <3>2. k = Len(here') /\ i = here[k] /\ Len(here') > 0
      BY <1>2, <2>1, <2>3, <3>1
    <3> QED
      BY <1>2, <1>3, <2>1, <3>2
  <2> QED
    BY <2>2, <2>3
<1> QED
  BY <1>5, <1>6, <1>7

(* A loop that has been at all its values leaves nothing out.                 *)
LEMMA FinishesWhole ==
    ASSUME TableInv, Whole, Returns(DOMAIN fields), here \notin DOMAIN arg, exc => exc'
    PROVE  Whole'
<1> SUFFICES ASSUME Sound', NEW q \in DOMAIN arg' \ {<<>>}, Parent(q) \in DOMAIN fields'
             PROVE  q \in DOMAIN fields'
  BY DEF Whole
<1>1. /\ arg' = arg /\ Sound /\ Earlier /\ IsDict(arg) /\ here # <<>> /\ here \in Paths
      /\ DOMAIN fields' = DOMAIN fields \cup {Parent(here)}
  BY DEF TableInv, Cursor, Returns, Sound
<1>2. CASE Parent(q) \in DOMAIN fields
  BY <1>1, <1>2 DEF Whole
<1>3. CASE Parent(q) = Parent(here)
  <2>1. q[Len(q)] \in 1..(here[Len(here)] - 1) /\ q = Append(LoopAt(here, Len(here)), q[Len(q)])
    BY <1>1, <1>3, AllBehind
  <2>2. Len(here) \in 1..Len(here)
    BY <1>1, ParentIs
  <2> QED
    BY <1>1, <2>1, <2>2 DEF Earlier
<1> QED
  BY <1>1, <1>2, <1>3

(* The two ways: all the fields, or those not below.                          *)
LEMMA ReturnsAll ==
    ASSUME TableInv, here # <<>>, ReturnToCaller, arg' = arg,
           fields' = With(Parent(here), FieldOf(arg, Parent(here)))
    PROVE  Returns(DOMAIN fields)
BY DEF Returns, With

(* ... or those not below, when a dict is given up.                           *)
LEMMA ReturnsNone ==
    ASSUME TableInv, In("dict"), ReturnToCaller, arg' = arg, fields' = GivenUp(Parent(here))
    PROVE  Returns({r \in DOMAIN fields : ~Below(Parent(here), r)})
<1> DEFINE p == Parent(here)
           K == {r \in DOMAIN fields : ~Below(p, r)}
<1>1. here # <<>> /\ p \in DOMAIN arg /\ arg[p].kind = "dict"
        /\ \A r \in DOMAIN fields : r \in Paths
  <2>1. here # <<>> /\ arg[p].kind = "dict" /\ p \in DOMAIN arg
    BY ReturnsTo DEF In
  <2> QED
    BY <2>1, DictIs DEF TableInv, FieldsMade, Made
<1>2. FieldOf(arg, p) = <<"TABLE", 0>>
  BY <1>1, ContainerIs DEF Containers
<1> HIDE DEF p
<1>3. ASSUME NEW q \in K \ {<<>>}, Parent(q) \in DOMAIN fields
      PROVE  Parent(q) \in K
  <2>1. q \in Paths /\ q # <<>> /\ Parent(q) \in Paths /\ p \in Paths
    BY <1>1, <1>3, DictIs DEF TableInv
  <2>2. Len(p) \in Nat
    BY <2>1, LenProperties DEF Paths
  <2>3. Below(p, Parent(q)) => Below(p, q)
    BY <2>1, <2>2, ParentIs DEF Below
  <2> QED
    BY <1>3, <2>3
<1>4. fields' = [q \in K \cup {p} |->
                    IF q = p THEN Node(FieldOf(arg, p), KeyField(arg[p].key)) ELSE fields[q]]
  BY <1>2 DEF GivenUp, p
<1> QED
  BY <1>1, <1>3, <1>4 DEF Returns, p

-----------------------------------------------------------------------------
(* A loop calls for a dict or list.                                           *)
LEMMA NestedKeeps ==
    ASSUME TableInv, Nested
    PROVE  Cursor' /\ FieldsMade' /\ Attached' /\ Earlier'
<1>1. /\ FieldsMade /\ Attached /\ Earlier /\ Cursor /\ arg' = arg /\ fields' = fields
      /\ here \in Paths /\ here' = Append(here, 1) /\ item_tmp' = Append(item_tmp, 0)
      /\ here \in DOMAIN arg /\ arg[here].kind \in Containers
  BY DEF TableInv, Cursor, Nested, Turn, Value
<1>2. /\ here' \in Paths /\ here' # <<>> /\ Len(here') = Len(here) + 1 /\ Len(here) \in Nat
      /\ \A k \in 1..Len(here) : LoopAt(here', k) = LoopAt(here, k) /\ here'[k] = here[k]
      /\ LoopAt(here', Len(here) + 1) = here /\ here'[Len(here) + 1] = 1
  BY <1>1, Descends, LenProperties DEF Paths
<1>3. Cursor'
  <2>1. item_tmp \in Seq(Nat) /\ Len(item_tmp) = Len(here)
    BY <1>1 DEF Cursor
  <2>2. /\ item_tmp' \in Seq(Nat) /\ Len(item_tmp') = Len(here')
        /\ \A k \in 1..Len(here) : item_tmp'[k] = item_tmp[k]
        /\ item_tmp'[Len(here) + 1] = 0
    BY <1>1, <1>2, <2>1, AppendProperties
  <2>3. ASSUME NEW k \in 1..Len(here')
        PROVE  /\ LoopAt(here', k) \in DOMAIN arg' /\ arg'[LoopAt(here', k)].kind \in Containers
               /\ item_tmp'[k] # 0 => TextOf(k)'
    <3>1. CASE k \in 1..Len(here)
      BY <1>1, <1>2, <2>2, <3>1 DEF Cursor, TextOf
    <3>2. CASE k \notin 1..Len(here)
      BY <1>1, <1>2, <2>2, <3>2
    <3> QED
      BY <3>1, <3>2
  <2> QED
    BY <1>2, <2>2, <2>3 DEF Cursor
<1>4. FieldsMade'
  BY <1>1, <1>2 DEF FieldsMade, Made
<1>5. Attached'
  BY <1>1, <1>2 DEF Attached
<1>6. Earlier'
  <2> SUFFICES ASSUME NEW k \in 1..Len(here'), NEW i \in 1..(here'[k] - 1)
               PROVE  Append(LoopAt(here', k), i) \in DOMAIN fields'
    BY DEF Earlier
  <2>1. k \in 1..Len(here)
    BY <1>2
  <2> QED
    BY <1>1, <1>2, <2>1 DEF Earlier
<1> QED
  BY <1>3, <1>4, <1>5, <1>6

(* It makes nothing yet, and leaves nothing out.                              *)
LEMMA NestedWhole ==
    ASSUME TableInv, Whole, Nested
    PROVE  Whole'
BY DEF Whole, Sound, Nested

(* Where the loops are when one goes on.                                      *)
LEMMA CursorGoesOn ==
    ASSUME TableInv, here # <<>>, here' = NextTo(here), arg' = arg, here \in DOMAIN arg,
           \/ item_tmp' = item_tmp
           \/ /\ arg[Parent(here)].kind = "list" /\ arg[here].kind = "text"
              /\ item_tmp' = [item_tmp EXCEPT ![Len(here)] = here[Len(here)]]
    PROVE  Cursor'
<1>1. /\ Cursor /\ here \in Paths /\ item_tmp \in Seq(Nat) /\ Len(item_tmp) = Len(here)
      /\ \A k \in 1..Len(item_tmp) : item_tmp[k] \in Nat
  BY ElementOfSeq DEF TableInv, Cursor
<1>2. /\ here' \in Paths /\ Len(here') = Len(here) /\ Len(here) \in 1..Len(here)
      /\ \A k \in 1..Len(here) : LoopAt(here', k) = LoopAt(here, k)
      /\ \A k \in 1..Len(here) : here'[k] = IF k = Len(here) THEN here[k] + 1 ELSE here[k]
      /\ \A k \in 1..Len(here) : here[k] \in Nat \ {0}
      /\ LoopAt(here, Len(here)) = Parent(here) /\ Append(Parent(here), here[Len(here)]) = here
  <2>1. here # <<>> /\ here' = NextTo(here)
    OBVIOUS
  <2>2. /\ here' \in Paths /\ Len(here') = Len(here)
        /\ \A k \in 1..Len(here) : LoopAt(here', k) = LoopAt(here, k)
        /\ \A k \in 1..Len(here) : here'[k] = IF k = Len(here) THEN here[k] + 1 ELSE here[k]
    BY <1>1, <2>1, Advances
  <2>3. /\ Len(here) \in 1..Len(here) /\ \A k \in 1..Len(here) : here[k] \in Nat \ {0}
        /\ Append(Parent(here), here[Len(here)]) = here
    BY <1>1, <2>1, ParentIs
  <2>4. LoopAt(here, Len(here)) = Parent(here)
    BY <1>1, <2>1, Innermost
  <2> QED
    BY <2>2, <2>3, <2>4
<1>3. /\ item_tmp' \in Seq(Nat) /\ Len(item_tmp') = Len(here')
      /\ \A k \in 1..Len(here) : item_tmp'[k] = item_tmp[k] \/
            (k = Len(here) /\ item_tmp'[k] = here[k]
             /\ arg[Parent(here)].kind = "list" /\ arg[here].kind = "text")
  <2>1. CASE item_tmp' = item_tmp
    BY <1>1, <1>2, <2>1
  <2>2. CASE item_tmp' # item_tmp
    <3>1. Len(here) \in 1..Len(item_tmp) /\ here[Len(here)] \in Nat
      BY <1>1, <1>2
    <3> QED
      BY <1>1, <1>2, <2>2, <3>1, ExceptSeq
  <2> QED
    BY <2>1, <2>2
<1>4. ASSUME NEW k \in 1..Len(here')
      PROVE  /\ LoopAt(here', k) \in DOMAIN arg' /\ arg'[LoopAt(here', k)].kind \in Containers
             /\ item_tmp'[k] # 0 => TextOf(k)'
  <2>1. LoopAt(here', k) \in DOMAIN arg' /\ arg'[LoopAt(here', k)].kind \in Containers
    BY <1>1, <1>2 DEF Cursor
  <2>2. CASE item_tmp'[k] = item_tmp[k]
    <3>1. item_tmp[k] \in Nat /\ here[k] \in Nat /\ (item_tmp[k] < here[k]
            => item_tmp[k] < here'[k])
      BY <1>1, <1>2
    <3>2. item_tmp[k] # 0 => TextOf(k)
      BY <1>1, <1>2 DEF Cursor
    <3>3. LoopAt(here', k) = LoopAt(here, k)
      BY <1>2
    <3> QED
      BY <2>1, <2>2, <3>1, <3>2, <3>3 DEF TextOf
  <2>3. CASE item_tmp'[k] # item_tmp[k]
    <3>1. /\ k = Len(here) /\ item_tmp'[k] = here[k] /\ here'[k] = here[k] + 1 /\ here[k] \in Nat
          /\ arg[Parent(here)].kind = "list" /\ arg[here].kind = "text"
      BY <1>2, <1>3, <2>3
    <3>2. LoopAt(here', k) = Parent(here) /\ Append(LoopAt(here', k), item_tmp'[k]) = here
      BY <1>2, <3>1
    <3> QED
      BY <2>1, <3>1, <3>2 DEF TextOf
  <2> QED
    BY <2>2, <2>3
<1> QED
  BY <1>2, <1>3, <1>4 DEF Cursor

(* And when one returns.                                                      *)
LEMMA CursorReturns ==
    ASSUME TableInv, here # <<>>, ReturnToCaller, arg' = arg
    PROVE  Cursor'
<1>1. /\ Cursor /\ here \in Paths /\ item_tmp \in Seq(Nat) /\ Len(item_tmp) = Len(here)
      /\ Len(here) \in Nat \ {0} /\ \A k \in 1..Len(item_tmp) : item_tmp[k] \in Nat
  BY ParentIs, ElementOfSeq DEF TableInv, Cursor
<1>2. /\ here' \in Paths /\ Len(here') = Len(here) - 1
      /\ \A k \in 1..Len(here') : LoopAt(here', k) = LoopAt(here, k)
      /\ \A k \in 1..Len(here') : here'[k] = IF k = Len(here') THEN here[k] + 1 ELSE here[k]
      /\ \A k \in 1..Len(here) : here[k] \in Nat \ {0}
  BY ReturnsTo
<1>3. /\ item_tmp' \in Seq(Nat) /\ Len(item_tmp') = Len(here')
      /\ \A k \in 1..Len(here') : item_tmp'[k] = item_tmp[k]
  <2>1. item_tmp' = SubSeq(item_tmp, 1, Len(item_tmp) - 1)
    BY DEF ReturnToCaller, Parent
  <2>2. /\ SubSeq(item_tmp, 1, Len(item_tmp) - 1) \in Seq(Nat)
        /\ Len(SubSeq(item_tmp, 1, Len(item_tmp) - 1)) = Len(item_tmp) - 1
        /\ \A k \in 1..(Len(item_tmp) - 1) : SubSeq(item_tmp, 1, Len(item_tmp) - 1)[k] = item_tmp[k]
    BY <1>1, SubSeqProperties
  <2> QED
    BY <1>1, <1>2, <2>1, <2>2
<1>4. ASSUME NEW k \in 1..Len(here')
      PROVE  /\ LoopAt(here', k) \in DOMAIN arg' /\ arg'[LoopAt(here', k)].kind \in Containers
             /\ item_tmp'[k] # 0 => TextOf(k)'
  <2>1. k \in 1..Len(here) /\ LoopAt(here', k) = LoopAt(here, k) /\ item_tmp'[k] = item_tmp[k]
    BY <1>1, <1>2, <1>3
  <2>2. item_tmp[k] \in Nat /\ here[k] \in Nat /\ (item_tmp[k] < here[k] => item_tmp[k] < here'[k])
    BY <1>1, <1>2, <2>1
  <2> QED
    BY <1>1, <2>1, <2>2 DEF Cursor, TextOf
<1> QED
  BY <1>2, <1>3, <1>4 DEF Cursor

-----------------------------------------------------------------------------
(* A member of a list, by its place in it.                                    *)
LEMMA MemberAt ==
    ASSUME IsDict(arg), NEW q \in DOMAIN arg \ {<<>>}
    PROVE  q \in Paths /\ q[Len(q)] \in Nat \ {0} /\ q = Append(Parent(q), q[Len(q)])
<1>1. q \in Paths /\ q # <<>>
  BY DictIs
<1>2. Len(q) \in 1..Len(q)
  BY <1>1, ParentIs
<1> QED
  BY <1>1, <1>2, ParentIs

(* The iterators of loops that go on.                                         *)
LEMMA IteratorsGoOn ==
    ASSUME TableInv, here # <<>>, here' = NextTo(here), arg' = arg, iterators' = iterators,
           here \in DOMAIN arg, arg[Parent(here)].kind = "list" => ~MemberFails(arg[here])
    PROVE  Iterators'
<1>1. /\ Iterators /\ IsDict(arg) /\ here \in Paths /\ here # <<>>
      /\ Parent(here) = LoopAt(here, Len(here)) /\ Append(Parent(here), here[Len(here)]) = here
      /\ \A k \in 1..Len(here) : here[k] \in Nat \ {0}
  BY ParentIs, Innermost DEF TableInv, Cursor
<1>2. /\ Len(here') = Len(here)
      /\ \A k \in 1..Len(here) : LoopAt(here', k) = LoopAt(here, k)
      /\ \A k \in 1..Len(here) : here'[k] = IF k = Len(here) THEN here[k] + 1 ELSE here[k]
  BY <1>1, Advances
<1> SUFFICES ASSUME NEW p \in iterators', NEW q \in DOMAIN arg' \ {<<>>}, Parent(q) = p,
                    MemberFails(arg[q])
             PROVE  \E k \in 1..Len(here') : p = LoopAt(here', k) /\ q[Len(q)] >= here'[k]
  BY <1>1 DEF Iterators, NotFailed
<1>3. arg[p].kind = "list" /\ q \in DOMAIN arg \ {<<>>}
  BY <1>1 DEF Iterators
<1>4. PICK k \in 1..Len(here) : p = LoopAt(here, k) /\ q[Len(q)] >= here[k]
  BY <1>1, <1>3 DEF Iterators, NotFailed
<1>5. q[Len(q)] \in Nat \ {0} /\ q = Append(p, q[Len(q)])
  BY <1>1, <1>3, MemberAt
<1>6. k = Len(here) => q[Len(q)] # here[k]
  BY <1>1, <1>3, <1>4, <1>5
<1>7. here[k] \in Nat /\ here'[k] = (IF k = Len(here) THEN here[k] + 1 ELSE here[k])
      /\ k \in 1..Len(here') /\ p = LoopAt(here', k)
  BY <1>1, <1>2, <1>4
<1>8. q[Len(q)] >= here'[k]
  BY <1>4, <1>5, <1>6, <1>7
<1> QED
  BY <1>7, <1>8

(* Those of loops that return: the one that returns has met no failure.       *)
LEMMA IteratorsReturn ==
    ASSUME TableInv, here # <<>>, ReturnToCaller, arg' = arg, iterators' \subseteq iterators,
           Parent(here) \in iterators' => here \notin DOMAIN arg
    PROVE  Iterators'
<1>1. /\ Iterators /\ IsDict(arg) /\ here \in Paths /\ here # <<>> /\ Len(here) \in Nat \ {0}
      /\ Parent(here) = LoopAt(here, Len(here))
      /\ Parent(here) \in DOMAIN arg /\ arg[Parent(here)].kind \in Containers
      /\ \A k \in 1..Len(here) : here[k] \in Nat \ {0}
  BY ReturnsTo DEF TableInv
<1>2. /\ Len(here') = Len(here) - 1
      /\ \A k \in 1..Len(here') : LoopAt(here', k) = LoopAt(here, k)
      /\ \A k \in 1..Len(here') : here'[k] = IF k = Len(here') THEN here[k] + 1 ELSE here[k]
      /\ Len(here') > 0 => Append(LoopAt(here, Len(here')), here[Len(here')]) = Parent(here)
  BY ReturnsTo
<1> SUFFICES ASSUME NEW p \in iterators', NEW q \in DOMAIN arg' \ {<<>>}, Parent(q) = p,
                    MemberFails(arg[q])
             PROVE  \E k \in 1..Len(here') : p = LoopAt(here', k) /\ q[Len(q)] >= here'[k]
  BY <1>1 DEF Iterators, NotFailed
<1>3. arg[p].kind = "list" /\ q \in DOMAIN arg \ {<<>>}
  BY <1>1 DEF Iterators
<1>4. PICK k \in 1..Len(here) : p = LoopAt(here, k) /\ q[Len(q)] >= here[k]
  BY <1>1, <1>3 DEF Iterators, NotFailed
<1>5. q[Len(q)] \in Nat \ {0} /\ q = Append(p, q[Len(q)])
  BY <1>1, <1>3, MemberAt
<1>6. k # Len(here)
  <2> SUFFICES ASSUME k = Len(here) PROVE FALSE
    OBVIOUS
  <2>1. p = Parent(here) /\ here \notin DOMAIN arg
    BY <1>1, <1>4
  <2>2. q[Len(q)] \in 1..(here[Len(here)] - 1)
    BY <1>1, <1>3, <2>1, AllBehind
  <2> QED
    BY <1>1, <1>4, <1>5, <2>2
<1>7. k \in 1..Len(here') /\ Len(here') > 0
  BY <1>1, <1>2, <1>4, <1>6
<1>8. k = Len(here') => q[Len(q)] # here[k]
  <2> SUFFICES ASSUME k = Len(here'), q[Len(q)] = here[k] PROVE FALSE
    OBVIOUS
  <2>1. q = Parent(here)
    BY <1>2, <1>4, <1>5, <1>7
  <2> QED
    BY <1>1, <2>1 DEF MemberFails, Unsupported, Containers
<1>9. here[k] \in Nat /\ here'[k] = (IF k = Len(here') THEN here[k] + 1 ELSE here[k])
  BY <1>1, <1>2, <1>4, <1>7
<1>10. q[Len(q)] >= here'[k]
  BY <1>4, <1>5, <1>8, <1>9
<1> QED
  BY <1>2, <1>4, <1>7, <1>10

(* Those of loops that call, and the one taken.                               *)
LEMMA IteratorsNested ==
    ASSUME TableInv, Nested
    PROVE  Iterators'
<1>1. /\ Iterators /\ IsDict(arg) /\ arg' = arg /\ here \in Paths /\ here' = Append(here, 1)
      /\ here \in DOMAIN arg
      /\ iterators' = IF arg[here].kind = "list" THEN iterators \cup {here} ELSE iterators
  BY DEF TableInv, Cursor, Nested, Turn, Value
<1>2. /\ Len(here') = Len(here) + 1 /\ Len(here) \in Nat
      /\ \A k \in 1..Len(here) : LoopAt(here', k) = LoopAt(here, k) /\ here'[k] = here[k]
      /\ LoopAt(here', Len(here) + 1) = here /\ here'[Len(here) + 1] = 1
  BY <1>1, Descends, LenProperties DEF Paths
<1> SUFFICES ASSUME NEW p \in iterators', NEW q \in DOMAIN arg' \ {<<>>}, Parent(q) = p,
                    MemberFails(arg[q])
             PROVE  \E k \in 1..Len(here') : p = LoopAt(here', k) /\ q[Len(q)] >= here'[k]
  BY <1>1 DEF Iterators, NotFailed
<1>3. CASE p \in iterators
  <2>1. PICK k \in 1..Len(here) : p = LoopAt(here, k) /\ q[Len(q)] >= here[k]
    BY <1>1, <1>3 DEF Iterators, NotFailed
  <2> QED
    BY <1>2, <2>1
<1>4. CASE p \notin iterators
  <2>1. p = here
    BY <1>1, <1>4
  <2>2. q[Len(q)] \in Nat \ {0}
    BY <1>1, MemberAt
  <2> QED
    BY <1>2, <2>1, <2>2
<1> QED
  BY <1>3, <1>4

(* What is released stays so.                                                 *)
LEMMA ReleasedSame ==
    ASSUME TableInv, arg' = arg, dropped' = dropped
    PROVE  Released'
BY DEF TableInv, Released, LaterUnsupported

(* A text that item_error releases is one that the loop has been at.          *)
LEMMA ReleasedByError ==
    ASSUME TableInv, ListFails
    PROVE  Released'
<1>1. /\ Released /\ Cursor /\ IsDict(arg) /\ arg' = arg /\ here # <<>> /\ here \in Paths
      /\ here \in DOMAIN arg /\ arg[Parent(here)].kind = "list"
      /\ dropped' = IF Unsupported(arg[here]) /\ item_tmp[Len(here)] # 0
                    THEN dropped \cup {Append(Parent(here), item_tmp[Len(here)])} ELSE dropped
  BY DEF TableInv, Cursor, ListFails, Turn, In, Value
<1> SUFFICES ASSUME NEW p \in dropped', p \notin dropped
             PROVE  LaterUnsupported(p)
  BY <1>1 DEF Released, LaterUnsupported
<1>2. Unsupported(arg[here]) /\ item_tmp[Len(here)] # 0
        /\ p = Append(Parent(here), item_tmp[Len(here)])
  BY <1>1
<1>3. /\ Len(here) \in 1..Len(here) /\ LoopAt(here, Len(here)) = Parent(here)
        /\ Parent(here) \in Paths
      /\ item_tmp \in Seq(Nat) /\ Len(item_tmp) = Len(here)
  BY <1>1, ParentIs, Innermost DEF Cursor
<1>4. item_tmp[Len(here)] \in Nat \ {0} /\ TextOf(Len(here))
  BY <1>1, <1>2, <1>3, ElementOfSeq DEF Cursor
<1>5. p \in DOMAIN arg /\ arg[p].kind = "text" /\ item_tmp[Len(here)] < here[Len(here)]
  BY <1>2, <1>3, <1>4 DEF TextOf
<1>6. Parent(p) = Parent(here) /\ p[Len(p)] = item_tmp[Len(here)]
  BY <1>2, <1>3, <1>4, MemberOf
<1>7. here[Len(here)] \in Nat
  BY <1>1, <1>3, ParentIs
<1>8. here[Len(here)] > p[Len(p)]
  BY <1>4, <1>5, <1>6, <1>7
<1> QED
  BY <1>1, <1>2, <1>5, <1>6, <1>8 DEF LaterUnsupported

-----------------------------------------------------------------------------
(* A conversion keeps TableInv, and leaves nothing out.                       *)
LEMMA TableKeeps ==
    ASSUME TableInv, TableNext
    PROVE  TableInv' /\ (Whole => Whole')
<1>1. IsDict(arg) /\ here \in Paths
  BY DEF TableInv, Cursor
<1>2. CASE Nested
  <2>1. arg' = arg /\ dropped' = dropped
    BY <1>2 DEF Nested
  <2> QED
    BY <1>1, <1>2, <2>1, NestedKeeps, NestedWhole, IteratorsNested, ReleasedSame
       DEF TableInv
<1>3. CASE DictEntry
  <2>1. /\ arg' = arg /\ dropped' = dropped /\ exc' = exc /\ iterators' = iterators
        /\ item_tmp' = item_tmp /\ here' = NextTo(here) /\ here # <<>> /\ here \in DOMAIN arg
        /\ arg[Parent(here)].kind = "dict" /\ arg[here].kind \notin Containers
        /\ ~EntryFails(arg[here]) /\ fields' = With(here, EntryField(arg[here]))
    BY <1>3 DEF DictEntry, GoOn, Turn, In, Value
  <2>2. Puts
    BY <2>1 DEF Puts, Fails, FieldOf, InDict
  <2>3. Cursor'
    BY <2>1, CursorGoesOn
  <2> QED
    BY <1>1, <2>1, <2>2, <2>3, PutsKeeps, PutsWhole, IteratorsGoOn, ReleasedSame
       DEF TableInv
<1>4. CASE DictFails
  <2>1. /\ arg' = arg /\ dropped' = dropped /\ iterators' = iterators
        /\ ReturnToCaller /\ In("dict") /\ here \in DOMAIN arg /\ here # <<>>
        /\ EntryFails(arg[here]) /\ fields' = GivenUp(Parent(here))
        /\ exc' = (exc \/ EntryRaises(arg[here]))
    BY <1>4 DEF DictFails, Turn, In, Value
  <2>2. FieldsMade' /\ Attached' /\ Earlier'
    BY <2>1, ReturnsNone, ReturnsKeeps
  <2>3. Cursor'
    BY <2>1, CursorReturns
  <2>4. Parent(here) \notin iterators
    BY <2>1 DEF TableInv, Iterators, In
  <2>5. ~Sound'
    BY <2>1 DEF Sound, Survives, EntryRaises, InDict, In
  <2> QED
    BY <1>1, <2>1, <2>2, <2>3, <2>4, <2>5, IteratorsReturn, ReleasedSame DEF TableInv, Whole
<1>5. CASE DictReturns
  <2>1. /\ arg' = arg /\ dropped' = dropped /\ iterators' = iterators /\ exc' = exc
        /\ ReturnToCaller /\ In("dict") /\ here \notin DOMAIN arg /\ here # <<>>
        /\ fields' = With(Parent(here), <<"TABLE", 0>>)
    BY <1>5 DEF DictReturns, In
  <2>2. FieldOf(arg, Parent(here)) = <<"TABLE", 0>>
    BY <2>1, ContainerIs DEF In, Containers
  <2>3. Returns(DOMAIN fields)
    BY <2>1, <2>2, ReturnsAll
  <2>4. Cursor'
    BY <2>1, CursorReturns
  <2> QED
    BY <1>1, <2>1, <2>3, <2>4, ReturnsKeeps, FinishesWhole, IteratorsReturn, ReleasedSame
       DEF TableInv
<1>6. CASE ListMember
  <2>1. /\ arg' = arg /\ dropped' = dropped /\ (exc => exc') /\ iterators' = iterators
        /\ here' = NextTo(here) /\ here # <<>> /\ here \in DOMAIN arg
        /\ arg[Parent(here)].kind = "list" /\ arg[here].kind \notin Containers
        /\ ~MemberFails(arg[here]) /\ fields' = With(here, MemberField(arg[here]))
        /\ item_tmp' = IF arg[here].kind = "text"
             THEN [item_tmp EXCEPT ![Len(here)] = here[Len(here)]]
                       ELSE item_tmp
    BY <1>6 DEF ListMember, Turn, In, Value
  <2>2. Puts
    BY <2>1 DEF Puts, Fails, FieldOf, InDict
  <2>3. Cursor'
    BY <2>1, CursorGoesOn
  <2> QED
    BY <1>1, <2>1, <2>2, <2>3, PutsKeeps, PutsWhole, IteratorsGoOn, ReleasedSame
       DEF TableInv
<1>7. CASE ListFails
  <2>1. /\ arg' = arg /\ iterators' = iterators \ {Parent(here)} /\ exc' = TRUE
        /\ ReturnToCaller /\ here # <<>> /\ arg[Parent(here)].kind = "list"
        /\ fields' = With(Parent(here), <<"ARRAY", 0>>)
    BY <1>7 DEF ListFails, Turn, In
  <2>2. FieldOf(arg, Parent(here)) = <<"ARRAY", 0>>
    BY <2>1, ContainerIs DEF Containers
  <2>3. Returns(DOMAIN fields)
    BY <2>1, <2>2, ReturnsAll
  <2>4. Cursor'
    BY <2>1, CursorReturns
  <2>5. ~Sound'
    BY <2>1 DEF Sound
  <2> QED
    BY <1>1, <1>7, <2>1, <2>3, <2>4, <2>5, ReturnsKeeps, IteratorsReturn, ReleasedByError
       DEF TableInv, Whole
<1>8. CASE ListReturns
  <2>1. /\ arg' = arg /\ dropped' = dropped /\ iterators' = iterators /\ exc' = exc
        /\ ReturnToCaller /\ here \notin DOMAIN arg /\ here # <<>>
             /\ arg[Parent(here)].kind = "list"
        /\ fields' = With(Parent(here), <<"ARRAY", 0>>)
    BY <1>8 DEF ListReturns, In
  <2>2. FieldOf(arg, Parent(here)) = <<"ARRAY", 0>>
    BY <2>1, ContainerIs DEF Containers
  <2>3. Returns(DOMAIN fields)
    BY <2>1, <2>2, ReturnsAll
  <2>4. Cursor'
    BY <2>1, CursorReturns
  <2> QED
    BY <1>1, <2>1, <2>3, <2>4, ReturnsKeeps, FinishesWhole, IteratorsReturn, ReleasedSame
       DEF TableInv
<1> QED
  BY <1>2, <1>3, <1>4, <1>5, <1>6, <1>7, <1>8 DEF TableNext

-----------------------------------------------------------------------------
(* What a node of a dict is.                                                  *)
LEMMA ValueIs ==
    ASSUME IsDict(arg), NEW p \in DOMAIN arg
    PROVE  LET v == arg[p] IN
           /\ v.kind \in {"none", "other", "dict", "list", "bool", "int", "float", "text", "bytes"}
           /\ v.kind \in {"none", "other", "dict", "list"} => v.val = 0
           /\ v.kind = "bool" => v.val \in BOOLEAN
           /\ v.kind \in {"int", "float"} => v.val \in Int
           /\ v.kind \in {"text", "bytes"} => v.val \in Strings
           /\ p = <<>> => v.key = NoKey /\ v.kind = "dict"
           /\ p # <<>> => IF InDict(arg, p) THEN v.key \in Keys ELSE v.key = NoKey
<1>1. Valued(arg[p].kind, arg[p].val)
  BY DEF IsDict
<1>2. /\ p = <<>> => arg[p].key = NoKey /\ arg[p].kind = "dict"
      /\ p # <<>> => IF InDict(arg, p) THEN arg[p].key \in Keys ELSE arg[p].key = NoKey
  BY DEF IsDict, Node, InDict
<1> QED
  BY <1>1, <1>2 DEF Valued, Containers

(* An int that fits is not cut.                                               *)
LEMMA WrapFits ==
    ASSUME NEW n \in Int, Fits(n, INT32_MAX)
    PROVE  Wrap(n) = n
<1>1. INT32_MAX \in Nat
  BY AMQTableAssumption DEF AMQTableAssumption
<1>2. ASSUME NEW x \in Int, NEW k \in Int, 0 <= x, x < k PROVE x % k = x
  BY <1>2
<1>3. (n + INT32_MAX + 1) % (2 * INT32_MAX + 2) = n + INT32_MAX + 1
  BY <1>1, <1>2 DEF Fits
<1> QED
  BY <1>1, <1>3 DEF Wrap

(* A key is read as the text it was.                                          *)
LEMMA KeyRead ==
    ASSUME NEW key \in Keys, NEW gone \in SUBSET {"freed"}, NEW s
    PROVE  /\ key # NoKey /\ KeyField(key) # NoKey /\ key[2] \in Ascii \cup Unicode
           /\ Read(KeyField(key), gone, s) = KeyField(key) /\ KeyField(key)[1] = key[2]
           /\ Decoded(KeyField(key)) = <<"text", key[2]>>
<1>1. key # NoKey /\ key[2] \in Ascii \cup Unicode
  BY DEF Keys, NoKey
<1>2. KeyField(key) = <<key[2], IF key[1] = "text" THEN "array" ELSE "caller">>
  BY <1>1, Zenon DEF KeyField
<1>3. KeyField(key)[1] = key[2] /\ KeyField(key)[2] \in {"array", "caller"} /\ KeyField(key) # NoKey
  BY <1>2 DEF NoKey
<1> HIDE DEF KeyField
<1> QED
  BY <1>1, <1>3 DEF Read, Decoded

(* What a reader can read.                                                    *)
Readable(t) ==
    /\ <<>> \in DOMAIN t /\ t[<<>>].kind = "TABLE"
    /\ \A p \in DOMAIN t : t[p].kind \in FieldKinds
    /\ \A p \in DOMAIN t \ {<<>>} :
         /\ Parent(p) \in DOMAIN t /\ t[Parent(p)].kind \in {"TABLE", "ARRAY"}
         /\ t[Parent(p)].kind = "TABLE" => t[p].key # NoKey /\ t[p].key[1] \in Ascii \cup Unicode
(* NULL is at most a member of a list.                                        *)
NullFree(v) ==
    \A p \in DOMAIN v :
        /\ v[p].key # Null
        /\ v[p].kind = "NULL" => p # <<>> /\ v[Parent(p)].kind = "list"

(* Which values a reader gets.                                                *)
LEMMA ToPythonIs ==
    ASSUME NEW f, f.kind \in FieldKinds
    PROVE  /\ f.kind \notin NoCase \cup {"VOID"} => ToPython(f) = Null \/ ToPython(f)[1] # "NULL"
           /\ f.kind = "TABLE" => EntryValue(f) = <<"dict", 0>>
                /\ AMQArray_toPyList(f) = <<"dict", 0>>
           /\ f.kind = "ARRAY" => EntryValue(f) = <<"list", 0>>
                /\ AMQArray_toPyList(f) = <<"list", 0>>
           /\ EntryValue(f)[1] # "NULL"
<1>1. f.kind \notin NoCase \cup {"VOID"} => ToPython(f) = Null \/ ToPython(f)[1] # "NULL"
  BY DEF FieldKinds, IntKinds, NoCase, ToPython, Null, Decoded
<1>2. f.kind = "TABLE" => EntryValue(f) = <<"dict", 0>> /\ AMQArray_toPyList(f) = <<"dict", 0>>
  BY DEF NoCase, EntryValue, AMQArray_toPyList, ToPython, IntKinds, Null
<1>3. f.kind = "ARRAY" => EntryValue(f) = <<"list", 0>> /\ AMQArray_toPyList(f) = <<"list", 0>>
  BY DEF NoCase, EntryValue, AMQArray_toPyList, ToPython, IntKinds, Null
<1>4. EntryValue(f)[1] # "NULL"
  BY <1>1 DEF EntryValue, None
<1> QED
  BY <1>1, <1>2, <1>3, <1>4

(* So NULL is read as a member of a list or not at all.                       *)
LEMMA ReadNullFree ==
    ASSUME NEW t, Readable(t)
    PROVE  NullFree(AMQTable_toPyDict(t))
<1> DEFINE v == AMQTable_toPyDict(t)
<1>1. DOMAIN v = DOMAIN t
  BY DEF AMQTable_toPyDict
<1> SUFFICES ASSUME NEW p \in DOMAIN t
             PROVE  v[p].key # Null /\ (v[p].kind = "NULL" => p # <<>>
                      /\ v[Parent(p)].kind = "list")
  BY <1>1 DEF NullFree
<1>2. CASE p # <<>> /\ t[Parent(p)].kind = "TABLE"
  <2>1. v[p] = Node(EntryValue(t[p]), Decoded(t[p].key))
    BY <1>2 DEF AMQTable_toPyDict
  <2>2. Decoded(t[p].key) = <<"text", t[p].key[1]>>
    BY <1>2 DEF Readable, Decoded
  <2>3. v[p].kind = EntryValue(t[p])[1] /\ v[p].key = <<"text", t[p].key[1]>>
    BY <2>1, <2>2 DEF Node
  <2> QED
    BY <2>3, ToPythonIs DEF Readable, Null
<1>3. CASE ~(p # <<>> /\ t[Parent(p)].kind = "TABLE")
  <2>1. v[p] = Node(AMQArray_toPyList(t[p]), NoKey)
    BY <1>3, Zenon DEF AMQTable_toPyDict
  <2>2. v[p].kind = AMQArray_toPyList(t[p])[1] /\ v[p].key = <<>>
    BY <2>1 DEF Node, NoKey
  <2>3. v[p].key # Null
    BY <2>2 DEF Null
  <2>4. CASE p = <<>>
    BY <2>2, <2>3, <2>4, ToPythonIs DEF Readable
  <2>5. CASE p # <<>>
    <3>1. Parent(p) \in DOMAIN t /\ t[Parent(p)].kind = "ARRAY" /\ t[Parent(p)].kind \in FieldKinds
      BY <1>3, <2>5 DEF Readable
    <3>2. v[Parent(p)] = Node(EntryValue(t[Parent(p)]), Decoded(t[Parent(p)].key))
          \/ v[Parent(p)] = Node(AMQArray_toPyList(t[Parent(p)]), NoKey)
      BY <3>1, Zenon DEF AMQTable_toPyDict
    <3>3. v[Parent(p)].kind = "list"
      BY <3>1, <3>2, ToPythonIs DEF Node
    <3> QED
      BY <2>3, <2>5, <3>3
  <2> QED
    BY <2>4, <2>5
<1> QED
  BY <1>2, <1>3

-----------------------------------------------------------------------------
(* What is sent, when no temporary of the array is gone.                      *)
LEMMA WireIs ==
    ASSUME TableInv, NEW gone \in SUBSET {"freed"}, NEW s, NEW p \in DOMAIN fields
    PROVE  LET t == OnWire(gone, s)
               f == FieldOf(arg, p)
           IN  /\ DOMAIN t = DOMAIN fields /\ p \in DOMAIN arg /\ ~Fails(arg, p)
               /\ t[p].kind = f[1]
               /\ t[p].val = IF f[1] = "UTF8" THEN Read(f[2], gone, s) ELSE f[2]
               /\ t[p].key = KeyField(arg[p].key)
<1> DEFINE t == OnWire(gone, s)
           f == FieldOf(arg, p)
<1>1. p \in DOMAIN arg /\ ~Fails(arg, p) /\ fields[p] = Node(f, KeyField(arg[p].key))
  BY DEF TableInv, FieldsMade, Made
<1>2. fields[p].kind = f[1] /\ fields[p].val = f[2] /\ fields[p].key = KeyField(arg[p].key)
  BY <1>1 DEF Node
<1>3. DOMAIN t = DOMAIN fields
  BY DEF OnWire
<1> HIDE DEF f
<1>4. /\ t[p].kind = f[1]
      /\ t[p].val = IF f[1] = "UTF8" THEN Read(f[2], gone, s) ELSE f[2]
      /\ t[p].key = IF KeyField(arg[p].key) = NoKey THEN NoKey
           ELSE Read(KeyField(arg[p].key), gone, s)
  BY <1>2 DEF OnWire
<1>5. t[p].key = KeyField(arg[p].key)
  <2>1. arg[p].key = NoKey \/ arg[p].key \in Keys
    BY <1>1, ValueIs DEF TableInv
  <2>2. CASE arg[p].key = NoKey
    BY <1>4, <2>2 DEF KeyField
  <2>3. CASE arg[p].key \in Keys
    BY <1>4, <2>3, KeyRead
  <2> QED
    BY <2>1, <2>2, <2>3
<1> QED
  BY <1>1, <1>3, <1>4, <1>5 DEF f

(* The kinds of fields.                                                       *)
LEMMA FieldIs ==
    ASSUME IsDict(arg), NEW p \in DOMAIN arg, ~Fails(arg, p)
    PROVE  /\ FieldOf(arg, p)[1] \in FieldKinds
           /\ FieldOf(arg, p)[1] = "TABLE" <=> arg[p].kind = "dict"
           /\ FieldOf(arg, p)[1] = "ARRAY" <=> arg[p].kind = "list"
<1>1. arg[p].kind \in {"none", "other", "dict", "list", "bool", "int", "float", "text", "bytes"}
  BY ValueIs
<1>2. CASE p = <<>> \/ InDict(arg, p)
  <2>1. FieldOf(arg, p) = EntryField(arg[p]) /\ arg[p].kind # "other"
    BY <1>2 DEF FieldOf, Fails, EntryFails
  <2>2. arg[p].kind = "none" => EntryField(arg[p])[1] = "VOID"
    BY DEF EntryField
  <2>3. arg[p].kind = "bool" => EntryField(arg[p])[1] = "BOOLEAN"
    BY DEF EntryField
  <2>4. arg[p].kind = "int" => EntryField(arg[p])[1] = "I32"
    BY DEF EntryField
  <2>5. arg[p].kind = "float" => EntryField(arg[p])[1] = "F64"
    BY DEF EntryField
  <2>6. arg[p].kind \in {"text", "bytes"} => EntryField(arg[p])[1] = "UTF8"
    BY DEF EntryField
  <2>7. /\ arg[p].kind = "dict" => EntryField(arg[p])[1] = "TABLE"
        /\ arg[p].kind = "list" => EntryField(arg[p])[1] = "ARRAY"
    BY DEF EntryField
  <2> QED
    BY <1>1, <2>1, <2>2, <2>3, <2>4, <2>5, <2>6, <2>7 DEF FieldKinds, IntKinds
<1>3. CASE ~(p = <<>> \/ InDict(arg, p))
  <2>1. FieldOf(arg, p) = MemberField(arg[p]) /\ arg[p].kind \notin {"other", "float"}
    BY <1>3 DEF FieldOf, Fails, MemberFails, Unsupported
  <2>2. arg[p].kind = "none" => MemberField(arg[p])[1] = "VOID"
    BY DEF MemberField, EntryField
  <2>3. arg[p].kind \in {"bool", "int"} => MemberField(arg[p])[1] = "I32"
    BY DEF MemberField, EntryField
  <2>4. arg[p].kind \in {"text", "bytes"} => MemberField(arg[p])[1] = "UTF8"
    BY DEF MemberField, EntryField
  <2>5. /\ arg[p].kind = "dict" => MemberField(arg[p])[1] = "TABLE"
        /\ arg[p].kind = "list" => MemberField(arg[p])[1] = "ARRAY"
    BY DEF MemberField, EntryField
  <2> QED
    BY <1>1, <2>1, <2>2, <2>3, <2>4, <2>5 DEF FieldKinds, IntKinds
<1> QED
  BY <1>2, <1>3

(* What is sent can be read, whatever freed memory holds.                     *)
LEMMA SentReadable ==
    ASSUME TableInv, here = <<>>, NEW gone \in SUBSET {"freed"}, NEW s
    PROVE  Readable(OnWire(gone, s))
<1> DEFINE t == OnWire(gone, s)
<1>1. IsDict(arg) /\ FieldsMade /\ Attached /\ <<>> \in DOMAIN fields
  BY DEF TableInv, FieldsMade
<1>2. DOMAIN t = DOMAIN fields
  BY DEF OnWire
<1>3. \A p \in DOMAIN fields : p \in DOMAIN arg /\ ~Fails(arg, p) /\ t[p].kind = FieldOf(arg, p)[1]
                              /\ t[p].key = KeyField(arg[p].key)
  BY WireIs
<1> HIDE DEF t
<1>4. \A p \in DOMAIN t : t[p].kind \in FieldKinds
  BY <1>1, <1>2, <1>3, FieldIs
<1>5. t[<<>>].kind = "TABLE"
  BY <1>1, <1>3, DictIs, FieldIs
<1>6. ASSUME NEW p \in DOMAIN t \ {<<>>}
      PROVE  /\ Parent(p) \in DOMAIN t /\ t[Parent(p)].kind \in {"TABLE", "ARRAY"}
             /\ t[Parent(p)].kind = "TABLE" => t[p].key # NoKey
                  /\ t[p].key[1] \in Ascii \cup Unicode
  <2>1. Parent(p) \in DOMAIN fields
    <3>1. Len(here) = 0
      BY EmptySeq
    <3> QED
      BY <1>1, <1>2, <3>1 DEF Attached
  <2>2. p \in DOMAIN arg /\ arg[Parent(p)].kind \in Containers
    BY <1>1, <1>2, <1>3, DictIs
  <2>3. t[Parent(p)].kind \in {"TABLE", "ARRAY"} /\ (t[Parent(p)].kind = "TABLE" => InDict(arg, p))
    BY <1>1, <1>3, <2>1, <2>2, FieldIs DEF Containers, InDict
  <2>4. ASSUME InDict(arg, p) PROVE t[p].key # NoKey /\ t[p].key[1] \in Ascii \cup Unicode
    <3>1. arg[p].key \in Keys
      BY <1>1, <2>2, <2>4, ValueIs
    <3> QED
      BY <1>2, <1>3, <3>1, KeyRead
  <2> QED
    BY <1>2, <2>1, <2>3, <2>4
<1> QED
  BY <1>1, <1>2, <1>4, <1>5, <1>6 DEF Readable, t

-----------------------------------------------------------------------------
(* A set of numbers with something in it has a least element.                 *)
LEMMA LeastNumber ==
    ASSUME NEW T, T \subseteq Nat, T # {}
    PROVE  \E x \in T : \A y \in T : x <= y
<1>1. PICK x \in T : \A y \in T : ~(<<y, x>> \in OpToRel(<, Nat))
  BY WFMin, NatLessThanWellFounded
<1>2. \A y \in T : x <= y
  <2> TAKE y \in T
  <2>1. <<y, x>> \in Nat \X Nat
    OBVIOUS
  <2>2. ~(y < x)
    BY <1>1, <2>1 DEF OpToRel
  <2> QED
    BY <2>1, <2>2
<1> QED
  BY <1>2

(* Every value has its field when the conversion has ended and was sound: the *)
(* first without one would be in a dict or list that has its.                 *)
LEMMA AllMade ==
    ASSUME TableInv, Whole, Sound, here = <<>>
    PROVE  DOMAIN fields = DOMAIN arg
<1>1. IsDict(arg) /\ <<>> \in DOMAIN fields /\ DOMAIN fields \subseteq DOMAIN arg
  BY DEF TableInv, FieldsMade, Made
<1> SUFFICES ASSUME DOMAIN arg \ DOMAIN fields # {} PROVE FALSE
  BY <1>1
<1> DEFINE T == {Len(p) : p \in DOMAIN arg \ DOMAIN fields}
<1>2. \A p \in DOMAIN arg : Len(p) \in Nat
  BY <1>1, DictIs, LenProperties DEF Paths
<1>3. T \subseteq Nat /\ T # {}
  BY <1>2
<1>4. PICK n \in T : \A m \in T : n <= m
  BY <1>3, LeastNumber
<1>5. PICK p \in DOMAIN arg \ DOMAIN fields : n = Len(p)
  BY <1>4
<1>6. p # <<>> /\ p \in Paths /\ Parent(p) \in DOMAIN arg
  BY <1>1, <1>5, DictIs
<1>7. Len(Parent(p)) = Len(p) - 1 /\ Len(p) \in Nat
  BY <1>6, ParentIs, <1>2
<1>8. Parent(p) \in DOMAIN fields
  <2> SUFFICES ASSUME Parent(p) \notin DOMAIN fields PROVE FALSE
    OBVIOUS
  <2>1. Len(Parent(p)) \in T
    BY <1>6
  <2> HIDE DEF T
  <2>2. n <= Len(Parent(p))
    BY <1>4, <2>1
  <2> QED
    BY <1>5, <1>7, <2>2
<1> QED
  BY <1>5, <1>6, <1>8 DEF Whole

(* What the field of the value at p is by the time it is read.                *)
ReadFrom(f, p, gone, s) ==
    /\ f.kind = FieldOf(arg, p)[1]
    /\ f.val = IF f.kind = "UTF8" THEN Read(FieldOf(arg, p)[2], gone, s) ELSE FieldOf(arg, p)[2]

(* A value that survives is read as it was given.                             *)
LEMMA ReadsAsGiven ==
    ASSUME TableInv, NEW p \in DOMAIN fields, p # <<>>, Survives(arg, p),
           NEW gone \in SUBSET {"freed"}, NEW s, NEW f,
           ReadFrom(f, p, gone, s)
    PROVE  /\ InDict(arg, p) => EntryValue(f) = <<Text(arg[p].kind), arg[p].val>>
           /\ ~InDict(arg, p) => AMQArray_toPyList(f) = <<Text(arg[p].kind), arg[p].val>>
<1> DEFINE a == arg[p]
<1>0. /\ f.kind = FieldOf(arg, p)[1]
      /\ f.val = IF f.kind = "UTF8" THEN Read(FieldOf(arg, p)[2], gone, s) ELSE FieldOf(arg, p)[2]
  BY DEF ReadFrom
<1>1. /\ p \in DOMAIN arg /\ ~Fails(arg, p) /\ IsDict(arg)
      /\ a.kind \in {"none", "other", "dict", "list", "bool", "int", "float", "text", "bytes"}
      /\ a.kind \in {"none", "other", "dict", "list"} => a.val = 0
      /\ a.kind \in {"int", "float"} => a.val \in Int
      /\ a.kind \in {"text", "bytes"} => a.val \in Strings
  BY ValueIs DEF TableInv, FieldsMade, Made
<1>2. CASE InDict(arg, p)
  <2>1. FieldOf(arg, p) = EntryField(a) /\ ~EntryFails(a)
    BY <1>1, <1>2 DEF FieldOf, Fails
  <2> SUFFICES EntryValue(f) = <<Text(a.kind), a.val>>
    BY <1>2
  <2>2. CASE a.kind = "none"
    <3>1. f.kind = "VOID"
      BY <1>0, <2>1, <2>2 DEF EntryField
    <3> QED
      BY <1>1, <2>2, <3>1 DEF EntryValue, None, Text
  <2>3. CASE a.kind = "bool"
    <3>1. FieldOf(arg, p) = <<"BOOLEAN", a.val>>
      BY <2>1, <2>3 DEF EntryField
    <3>2. f.kind = "BOOLEAN" /\ f.val = a.val
      BY <1>0, <3>1
    <3>3. ToPython(f) = <<"bool", f.val>>
      BY <3>2 DEF ToPython, IntKinds
    <3>4. EntryValue(f) = ToPython(f)
      BY <3>2, <3>3 DEF EntryValue, Null, NoCase
    <3>5. Text(a.kind) = "bool"
      BY <2>3 DEF Text
    <3> QED
      BY <3>2, <3>3, <3>4, <3>5
  <2>4. CASE a.kind = "int"
    <3>1. f.kind = "I32" /\ f.val = a.val
      BY <1>0, <1>1, <2>1, <2>4, WrapFits DEF EntryField, Survives
    <3> QED
      BY <2>4, <3>1 DEF EntryValue, ToPython, IntKinds, Null, NoCase, Text
  <2>5. CASE a.kind = "float"
    <3>1. f.kind = "F64" /\ f.val = a.val
      BY <1>0, <2>1, <2>5 DEF EntryField
    <3> QED
      BY <2>5, <3>1 DEF EntryValue, ToPython, IntKinds, Null, NoCase, Text
  <2>6. CASE a.kind \in {"text", "bytes"}
    <3>1. f.kind = "UTF8" /\ f.val[1] = a.val
      BY <1>0, <2>1, <2>6 DEF EntryField, Read
    <3>2. a.val \in Ascii \cup Unicode
      BY <1>1, <2>1, <2>6 DEF Strings, EntryFails, Survives
    <3>3. ToPython(f) = <<"text", a.val>>
      BY <3>1, <3>2 DEF ToPython, Decoded, IntKinds
    <3> QED
      BY <2>6, <3>1, <3>3 DEF EntryValue, Null, NoCase, Text
  <2>7. CASE a.kind \in {"dict", "list"}
    <3>1. f.kind = IF a.kind = "dict" THEN "TABLE" ELSE "ARRAY"
      BY <1>0, <2>1, <2>7 DEF EntryField
    <3> QED
      BY <1>1, <2>7, <3>1 DEF EntryValue, ToPython, IntKinds, Null, NoCase, Text
  <2>8. a.kind # "other"
    BY <2>1 DEF EntryFails
  <2> QED
    BY <1>1, <2>2, <2>3, <2>4, <2>5, <2>6, <2>7, <2>8
<1>3. CASE ~InDict(arg, p)
  <2>1. FieldOf(arg, p) = MemberField(a) /\ ~MemberFails(a)
    BY <1>1, <1>3 DEF FieldOf, Fails
  <2>2. a.kind \notin {"text", "bool", "float", "other"}
    BY <1>3, <2>1 DEF Survives, MemberFails, Unsupported
  <2> SUFFICES AMQArray_toPyList(f) = <<Text(a.kind), a.val>>
    BY <1>3
  <2>3. CASE a.kind = "none"
    <3>1. f.kind = "VOID"
      BY <1>0, <2>1, <2>3 DEF MemberField, EntryField
    <3> QED
      BY <1>1, <2>3, <3>1 DEF AMQArray_toPyList, None, Text
  <2>4. CASE a.kind = "int"
    <3>1. Fits(a.val, INT32_MAX) /\ Fits(a.val, LONG_MAX)
      BY <1>1, <2>4, AMQTableAssumption DEF AMQTableAssumption, Survives, Fits
    <3>2. f.kind = "I32" /\ f.val = a.val
      BY <1>0, <1>1, <2>1, <2>4, <3>1, WrapFits DEF MemberField, EntryField
    <3> QED
      BY <2>4, <3>2 DEF AMQArray_toPyList, ToPython, IntKinds, NoCase, Text
  <2>5. CASE a.kind = "bytes"
    <3>1. f.kind = "UTF8" /\ f.val[1] = a.val
      BY <1>0, <2>1, <2>5 DEF MemberField, EntryField, Read
    <3>2. a.val \in Ascii \cup Unicode
      BY <1>1, <2>5 DEF Strings, Survives
    <3> QED
      BY <2>5, <3>1, <3>2 DEF AMQArray_toPyList, ToPython, Decoded, IntKinds, NoCase, Text
  <2>6. CASE a.kind \in {"dict", "list"}
    <3>1. f.kind = IF a.kind = "dict" THEN "TABLE" ELSE "ARRAY"
      BY <1>0, <2>1, <2>6 DEF MemberField, EntryField
    <3> QED
      BY <1>1, <2>6, <3>1 DEF AMQArray_toPyList, ToPython, IntKinds, NoCase, Text
  <2> QED
    BY <1>1, <2>2, <2>3, <2>4, <2>5, <2>6
<1> QED
  BY <1>2, <1>3

(* So all that was given is read, and nothing else.                           *)
LEMMA SentGiven ==
    ASSUME TableInv, Whole, Sound, here = <<>>, NEW gone \in SUBSET {"freed"}, NEW s
    PROVE  AMQTable_toPyDict(OnWire(gone, s)) = AsGiven(arg)
<1> DEFINE t == OnWire(gone, s)
           g(p) == Node(<<Text(arg[p].kind), arg[p].val>>,
                        IF arg[p].key = NoKey THEN NoKey ELSE <<"text", arg[p].key[2]>>)
           r(p) == IF p # <<>> /\ t[Parent(p)].kind = "TABLE"
                     THEN Node(EntryValue(t[p]), Decoded(t[p].key))
                   ELSE Node(AMQArray_toPyList(t[p]), NoKey)
<1>1. /\ IsDict(arg) /\ DOMAIN fields = DOMAIN arg
      /\ \A p \in DOMAIN arg \ {<<>>} : Survives(arg, p)
  BY AllMade DEF TableInv, Sound
<1>2. DOMAIN t = DOMAIN arg
  BY <1>1 DEF OnWire
<1>3. \A p \in DOMAIN arg :
         /\ ~Fails(arg, p) /\ t[p].kind = FieldOf(arg, p)[1]
         /\ t[p].val = IF FieldOf(arg, p)[1] = "UTF8"
              THEN Read(FieldOf(arg, p)[2], gone, s) ELSE FieldOf(arg, p)[2]
         /\ t[p].key = KeyField(arg[p].key)
  BY <1>1, WireIs
<1> HIDE DEF t
<1>4. ASSUME NEW p \in DOMAIN arg PROVE r(p) = g(p)
  <2>1. CASE p = <<>>
    <3>1. arg[p].kind = "dict" /\ arg[p].val = 0 /\ arg[p].key = NoKey
      BY <1>1, <2>1, ValueIs
    <3>2. t[p].kind = "TABLE"
      BY <1>1, <1>3, <3>1, FieldIs
    <3>3. AMQArray_toPyList(t[p]) = <<"dict", 0>>
      BY <3>2, ToPythonIs DEF FieldKinds
    <3> QED
      BY <2>1, <3>1, <3>3 DEF Text
  <2>2. CASE p # <<>> /\ InDict(arg, p)
    <3>1. Parent(p) \in DOMAIN arg /\ t[Parent(p)].kind = "TABLE"
      BY <1>1, <1>3, <2>2, DictIs, FieldIs DEF InDict
    <3>2. EntryValue(t[p]) = <<Text(arg[p].kind), arg[p].val>>
      <4>1. p \in DOMAIN fields /\ Survives(arg, p) /\ ReadFrom(t[p], p, gone, s)
        BY <1>1, <1>3, <2>2 DEF ReadFrom
      <4> QED
        BY <2>2, <4>1, ReadsAsGiven
    <3>3. arg[p].key \in Keys
      BY <1>1, <2>2, ValueIs
    <3>4. Decoded(t[p].key) = <<"text", arg[p].key[2]>> /\ arg[p].key # NoKey
      BY <1>3, <3>3, KeyRead
    <3> QED
      BY <2>2, <3>1, <3>2, <3>4
  <2>3. CASE p # <<>> /\ ~InDict(arg, p)
    <3>1. Parent(p) \in DOMAIN arg /\ t[Parent(p)].kind # "TABLE"
      BY <1>1, <1>3, <2>3, DictIs, FieldIs DEF InDict
    <3>2. AMQArray_toPyList(t[p]) = <<Text(arg[p].kind), arg[p].val>>
      <4>1. p \in DOMAIN fields /\ Survives(arg, p) /\ ReadFrom(t[p], p, gone, s)
        BY <1>1, <1>3, <2>3 DEF ReadFrom
      <4> QED
        BY <2>3, <4>1, ReadsAsGiven
    <3>3. arg[p].key = NoKey
      BY <1>1, <2>3, ValueIs
    <3> QED
      BY <2>3, <3>1, <3>2, <3>3
  <2> QED
    BY <2>1, <2>2, <2>3
<1>5. AMQTable_toPyDict(t) = [p \in DOMAIN arg |-> r(p)]
        /\ AsGiven(arg) = [p \in DOMAIN arg |-> g(p)]
  BY <1>2 DEF AMQTable_toPyDict, AsGiven
<1> HIDE DEF r, g
<1>6. AMQTable_toPyDict(t) = AsGiven(arg)
  BY <1>4, <1>5
<1> QED
  BY <1>6 DEF t

-----------------------------------------------------------------------------
USE MethodCallAssumption DEF MethodCallAssumption

(* Where a call can be, where it is before the conversion, and where          *)
(* temporaries can be waiting to be entered.                                  *)
Steps == {"idle", "received", "names", "properties", "table", "send", "reply", "bail", "return"}
Before == {"idle", "received", "names", "properties"}
Entering == {"properties", "table", "send", "bail"}

(* The types of what is not part of the conversion.                           *)
CallTypes ==
    /\ pc \in Steps
    /\ method \in Methods
    /\ todo \in Nat /\ (todo > 0 => pc \in Entering)
    /\ exc \in BOOLEAN
    /\ result \in {"none", "value", "NULL"}
    /\ propdict \in {0, 1}
    /\ arg \in Args

(* Every temporary that was taken counts until the call is over, and none     *)
(* when it has returned.                                                      *)
Temporaries ==
    /\ pc \notin {"bail", "return"} => \A r \in taken : count[r] = 1
    /\ pc = "return" => \A r \in References : count[r] = 0

(* A call that has failed or is failing has its exception, and one that is    *)
(* not has none: but for connect.                                             *)
Outcome ==
    /\ pc = "bail" => exc
    /\ pc \in Before => ~exc
    /\ result = "NULL" => pc = "return" /\ exc
    /\ result = "value" => pc = "return" /\ (method # Connect => ~exc)
    /\ got # NotYet => pc \in {"reply", "bail", "return"}
    /\ method # Connect /\ pc \in {"send", "reply"} => ~exc

(* The reference on the properties is held during the conversion, and kept    *)
(* when the conversion fails.                                                 *)
PropertiesHeld ==
    /\ pc \in {"properties", "table"} => propdict = IF method = BasicPublish THEN 1 ELSE 0
    /\ pc \notin {"properties", "table"} /\ propdict = 1 =>
         pc \in {"bail", "return"} /\ method = BasicPublish /\ got = NotYet /\ exc

(* A table is made only while the call is at it, and then whole.              *)
NothingMade == fields = [p \in {<<>>} |-> Node(<<"TABLE", 0>>, NoKey)] /\ iterators = {}
  /\ dropped = {}
Stages ==
    /\ pc # "table" => here = <<>>
    /\ ~method.table => arg = EmptyDict
    /\ pc \in Before => NothingMade
    /\ pc \notin Before => Whole

(* What has been read.                                                        *)
Reads ==
    /\ NullFree(got) /\ NullFree(headers)
    /\ got # NotYet /\ Sound => got = AsGiven(arg)

(* The invariant of a call.                                                   *)
CallInv ==
    /\ CallTypes /\ ArrayInv /\ Temporaries /\ Outcome /\ PropertiesHeld
    /\ TableInv /\ Stages /\ Reads

-----------------------------------------------------------------------------
(* Every method but connect asks for an exception.                            *)
LEMMA MethodIs ==
    ASSUME NEW m \in Methods
    PROVE  m.names \in Nat /\ (m # Connect => m.checks)
BY DEF Methods, QueueBind, QueueUnbind, QueueDeclare, ExchangeDeclare, BasicConsume,
   BasicPublish, ExchangeDelete, QueueDelete, QueuePurge, BasicCancel, BasicGet, Connect,
   Converts, NamesOnly

(* The properties that precede the headers are counted by naturals.           *)
LEMMA PropertiesAre ==
    ASSUME NEW m \in Methods
    PROVE  Properties(m) \subseteq Nat /\ (m # BasicPublish => Properties(m) = {0})
BY DEF Properties

(* connect and basic_publish are two methods.                                 *)
LEMMA PublishIsNotConnect == BasicPublish # Connect
BY DEF BasicPublish, Connect, Converts

(* A step that leaves the array and what was taken alone.                     *)
LEMMA SameArray ==
    ASSUME ArrayInv, UNCHANGED arrayVars
    PROVE  ArrayInv'
BY DEF ArrayInv, arrayVars, Chain, Distinct, Entered, At

(* A step that leaves the conversion alone.                                   *)
LEMMA SameTable ==
    ASSUME TableInv, UNCHANGED converting
    PROVE  TableInv' /\ (Whole /\ (exc => exc') => Whole')
<1>1. Cursor' /\ FieldsMade' /\ Attached' /\ Earlier'
  BY DEF TableInv, converting, Cursor, TextOf, FieldsMade, Made, Attached, Earlier
<1>2. Iterators' /\ Released'
  BY DEF TableInv, converting, Iterators, NotFailed, Released, LaterUnsupported
<1>3. Whole /\ (exc => exc') => Whole'
  BY DEF Whole, Sound, converting
<1> QED
  BY <1>1, <1>2, <1>3 DEF TableInv, converting

(* The conversion of a dict that has not begun.                               *)
AtRest == IsDict(arg) /\ here = <<>> /\ item_tmp = <<>> /\ NothingMade

(* The table is empty then, as it should be.                                  *)
LEMMA AtRestInv == AtRest => TableInv
<1> SUFFICES ASSUME AtRest PROVE TableInv
  OBVIOUS
<1>1. /\ DOMAIN fields = {<<>>} /\ fields[<<>>] = Node(<<"TABLE", 0>>, NoKey)
      /\ <<>> \in DOMAIN arg /\ arg[<<>>].kind = "dict" /\ arg[<<>>].key = NoKey
  BY ValueIs DEF AtRest, NothingMade, IsDict, IsTree
<1>2. Made(<<>>)
  BY <1>1, ContainerIs DEF Made, Containers, KeyField
<1>3. <<>> \in Paths /\ item_tmp \in Seq(Nat) /\ Len(<<>>) = 0
  BY EmptySeq DEF Paths, AtRest
<1>4. Cursor /\ FieldsMade /\ Attached /\ Earlier
  BY <1>1, <1>2, <1>3 DEF AtRest, Cursor, FieldsMade, Attached, Earlier
<1> QED
  BY <1>4 DEF AtRest, TableInv, Iterators, Released, NothingMade

(* The outermost loop is that of the dict as a whole.                         *)
LEMMA FirstLoop ==
    ASSUME NEW h \in Paths, h # <<>>
    PROVE  LoopAt(h, 1) = <<>>
<1>1. 1 \in 1..Len(h)
  BY ParentIs
<1>2. LoopAt(h, 1) \in Paths /\ Len(LoopAt(h, 1)) = 1 - 1
  BY <1>1, LoopIs
<1> QED
  BY <1>2, EmptySeq DEF Paths

(* PyDict_ToAMQTable is called.                                               *)
LEMMA TableCallInv ==
    ASSUME TableInv, NothingMade, TableCall, UNCHANGED <<arg, iterators, dropped>>
    PROVE  TableInv' /\ Whole'
<1>1. /\ here' = <<1>> /\ item_tmp' = <<0>> /\ Len(here') = 1 /\ here'[1] = 1
      /\ Len(item_tmp') = 1 /\ item_tmp'[1] = 0 /\ here' # <<>>
      /\ here' \in Seq(Nat \ {0}) /\ item_tmp' \in Seq(Nat)
  BY DEF TableCall
<1>2. DOMAIN fields' = {}
  <2>1. DOMAIN <<>> = {}
    OBVIOUS
  <2>2. fields' = <<>>
    BY DEF TableCall
  <2> QED
    BY <2>1, <2>2, Zenon
<1>3. LoopAt(here', 1) = <<>>
  BY <1>1, FirstLoop DEF Paths
<1>4. <<>> \in DOMAIN arg /\ arg[<<>>].kind \in Containers
  BY DictIs DEF TableInv, Containers
<1>5. Cursor'
  BY <1>1, <1>3, <1>4 DEF Cursor, Paths
<1>6. FieldsMade' /\ Attached' /\ Earlier' /\ Whole'
  BY <1>1, <1>2 DEF FieldsMade, Attached, Earlier, Whole
<1>7. Iterators' /\ Released'
  BY DEF NothingMade, Iterators, Released
<1> QED
  BY <1>5, <1>6, <1>7 DEF TableInv

(* Before the call converts, and afterwards.                                  *)
LEMMA EmptyDictWhole ==
    ASSUME arg = EmptyDict
    PROVE  Whole
BY DEF Whole, EmptyDict

(* A turn of a loop leaves the dict alone.                                    *)
LEMMA TurnIs ==
    ASSUME TableNext, todo \in Nat, exc \in BOOLEAN
    PROVE  arg' = arg /\ todo' \in Nat /\ exc' \in BOOLEAN /\ here # <<>> /\ (exc => exc')
<1>1. \A key : KeyRefs(key) \in Nat
  BY DEF KeyRefs
<1>2. CASE Nested \/ DictFails
  <2>1. todo' = todo + KeyRefs(Value.key) /\ arg' = arg /\ here # <<>>
    BY <1>2 DEF Nested, DictFails, Turn, In
  <2>2. exc' = exc \/ exc' = (exc \/ EntryRaises(Value))
    BY <1>2, Zenon DEF Nested, DictFails
  <2>3. EntryRaises(Value) \in BOOLEAN
    BY DEF EntryRaises
  <2> HIDE DEF EntryRaises
  <2> QED
    BY <1>1, <2>1, <2>2, <2>3
<1>3. CASE DictEntry
  <2> DEFINE n == IF Value.kind = "text" THEN 1 ELSE 0
             k == KeyRefs(Value.key)
  <2>1. todo' = todo + k + n /\ UNCHANGED <<arg, exc>> /\ here # <<>>
    BY <1>3 DEF DictEntry, Turn, In
  <2>2. n \in Nat /\ k \in Nat
    BY <1>1
  <2> HIDE DEF n, k
  <2> QED
    BY <2>1, <2>2
<1>4. CASE DictReturns \/ ListReturns \/ ListMember \/ ListFails
  BY <1>4 DEF DictReturns, ListReturns, ListMember, ListFails, Turn, In
<1> QED
  BY <1>2, <1>3, <1>4 DEF TableNext

(* The reference that is entered next is a new one.                           *)
LEMMA FreshIs ==
    ASSUME References \ taken # {}
    PROVE  Fresh \in References /\ Fresh \notin taken
BY DEF Fresh

(* A step before or after the conversion leaves the conversion alone, and     *)
(* what has been read.                                                        *)
LEMMA SameReads ==
    ASSUME CallInv, UNCHANGED <<converting, got, headers>>, exc => exc', exc' \in BOOLEAN
    PROVE  TableInv' /\ (Whole => Whole') /\ Reads' /\ NothingMade' = NothingMade /\ here' = here
<1>1. TableInv' /\ (Whole => Whole')
  BY SameTable DEF CallInv
<1>2. got' = got /\ headers' = headers /\ arg' = arg /\ (Sound' => Sound)
  BY DEF converting, Sound
<1>3. NullFree(got') /\ NullFree(headers')
  BY <1>2 DEF CallInv, Reads
<1>4. got' # NotYet /\ Sound' => got' = AsGiven(arg)
  BY <1>2 DEF CallInv, Reads
<1>5. Reads'
  BY <1>2, <1>3, <1>4 DEF Reads, NullFree, AsGiven
<1>6. NothingMade' = NothingMade /\ here' = here
  BY DEF NothingMade, converting
<1> QED
  BY <1>1, <1>5, <1>6

(* It counts from then on.                                                    *)
LEMMA EnterPreserves ==
    ASSUME CallInv, EnterNext
    PROVE  CallInv'
<1>1. /\ CallTypes /\ ArrayInv /\ Temporaries /\ Outcome /\ PropertiesHeld /\ Stages
      /\ todo > 0 /\ AddEntry(Fresh) /\ todo' = todo - 1
      /\ UNCHANGED <<pc, method, exc, result, propdict>>
      /\ UNCHANGED <<converting, got, headers>>
      /\ Fresh \in References /\ Fresh \notin taken
  BY FreshIs DEF CallInv, EnterNext, callVars, converting
<1>2. ArrayInv'
  BY <1>1, AddEntryInv
<1>3. CallTypes'
  BY <1>1 DEF CallTypes, converting
<1>4. Temporaries'
  <2>1. count[Fresh] = 0 /\ count \in [References -> Int] /\ taken \subseteq References
    BY <1>1 DEF ArrayInv
  <2>2. taken' = taken \cup {Fresh} /\ count' = [count EXCEPT ![Fresh] = @ + 1]
    BY <1>1 DEF AddEntry
  <2>3. pc \notin {"bail", "return"} => \A r \in taken' : count'[r] = 1
    BY <1>1, <2>1, <2>2 DEF Temporaries
  <2>4. pc # "return"
    BY <1>1 DEF CallTypes, Entering
  <2> QED
    BY <1>1, <2>3, <2>4 DEF Temporaries
<1>5. Outcome' /\ PropertiesHeld'
  BY <1>1 DEF Outcome, PropertiesHeld
<1>6. TableInv' /\ Reads' /\ (Whole => Whole') /\ NothingMade' = NothingMade /\ here' = here
  BY <1>1, SameReads DEF CallTypes
<1>7. Stages'
  BY <1>1, <1>6 DEF Stages, converting
<1> QED
  BY <1>2, <1>3, <1>4, <1>5, <1>6, <1>7 DEF CallInv

(* The steps from the call to the request, which release nothing.             *)
LEMMA BeginPreserves ==
    ASSUME CallInv, NEW m \in Methods, NEW d \in Args, Begin(m, d)
    PROVE  CallInv'
<1>1. /\ CallTypes /\ Stages /\ Cursor /\ Reads /\ Outcome
      /\ pc = "idle" /\ todo = 0 /\ pc' = "names" /\ method' = m /\ arg' = d
      /\ m.table \/ d = EmptyDict
      /\ UNCHANGED <<here, item_tmp, fields, iterators, dropped, exc, got, headers>>
  BY DEF CallInv, TableInv, Begin, Ready
<1>2. ArrayInv'
  BY SameArray DEF CallInv, Begin
<1>3. CallTypes' /\ Temporaries'
  BY DEF CallInv, CallTypes, Temporaries, Begin, Ready, Steps, Entering, arrayVars
<1>4. Outcome' /\ PropertiesHeld'
  BY DEF CallInv, CallTypes, Outcome, PropertiesHeld, Begin, Ready, Before
<1>5. AtRest'
  <2>1. here = <<>> /\ NothingMade
    BY <1>1 DEF Stages, Before
  <2>2. item_tmp = <<>>
    BY <1>1, <2>1, EmptySeq DEF Cursor
  <2> QED
    BY <1>1, <2>1, <2>2 DEF AtRest, NothingMade
<1>6. TableInv'
  BY <1>5, AtRestInv, PTL
<1>7. Stages'
  BY <1>1, <1>5 DEF AtRest, Stages, Before
<1>8. Reads'
  BY <1>1 DEF Reads, Outcome, NullFree
<1> QED
  BY <1>2, <1>3, <1>4, <1>6, <1>7, <1>8 DEF CallInv

(* All names can be encoded.                                                  *)
LEMMA EncodePreserves ==
    ASSUME CallInv, EncodeNames
    PROVE  CallInv'
<1>1. ArrayInv'
  BY SameArray DEF CallInv, EncodeNames
<1>2. method.names \in Nat
  BY MethodIs DEF CallInv, CallTypes
<1>3. CallTypes' /\ Temporaries'
  BY <1>2 DEF CallInv, CallTypes, Temporaries, EncodeNames, Ready, Steps, Entering,
     arrayVars, converting
<1>4. Outcome' /\ PropertiesHeld'
  BY DEF CallInv, CallTypes, Outcome, PropertiesHeld, EncodeNames, Ready, Before, converting
<1>5. UNCHANGED <<converting, got, headers>> /\ (exc => exc') /\ exc' \in BOOLEAN
  BY <1>3 DEF EncodeNames, CallTypes
<1>6. TableInv' /\ Reads' /\ (Whole => Whole') /\ NothingMade' = NothingMade /\ here' = here
  BY <1>5, SameReads
<1>7. Stages'
  BY <1>5, <1>6 DEF CallInv, Stages, EncodeNames, Ready, Before, converting
<1> QED
  BY <1>1, <1>3, <1>4, <1>6, <1>7 DEF CallInv

(* A name cannot: the call fails before it holds its properties.              *)
LEMMA NamePreserves ==
    ASSUME CallInv, NameNotAscii
    PROVE  CallInv'
<1>1. ArrayInv'
  BY SameArray DEF CallInv, NameNotAscii
<1>2. method.names \in Nat
  BY MethodIs DEF CallInv, CallTypes
<1>3. CallTypes' /\ Temporaries'
  BY <1>2 DEF CallInv, CallTypes, Temporaries, NameNotAscii, Ready, Steps, Entering,
     arrayVars, converting
<1>4. Outcome' /\ PropertiesHeld'
  BY DEF CallInv, CallTypes, Outcome, PropertiesHeld, NameNotAscii, Ready, Before,
     converting
<1>5. UNCHANGED <<converting, got, headers>> /\ (exc => exc') /\ exc' \in BOOLEAN
  BY <1>3 DEF NameNotAscii, CallTypes
<1>6. TableInv' /\ Reads' /\ (Whole => Whole') /\ NothingMade' = NothingMade /\ here' = here
  BY <1>5, SameReads
<1>7. Stages'
  BY <1>5, <1>6 DEF CallInv, Stages, NameNotAscii, Ready, Before, converting, Whole, Sound
<1> QED
  BY <1>1, <1>3, <1>4, <1>6, <1>7 DEF CallInv

(* A property cannot: the call fails while it holds them.                     *)
LEMMA PropertyPreserves ==
    ASSUME CallInv, PropertyNotAscii
    PROVE  CallInv'
<1>1. ArrayInv'
  BY SameArray DEF CallInv, PropertyNotAscii
<1>2. todo' \in Nat /\ method = BasicPublish
  BY PropertiesAre DEF PropertyNotAscii, CallInv, CallTypes
<1>3. CallTypes' /\ Temporaries'
  BY <1>2 DEF CallInv, CallTypes, Temporaries, PropertyNotAscii, Ready, Steps, Entering,
     arrayVars, converting
<1>4. Outcome' /\ PropertiesHeld'
  BY <1>2 DEF CallInv, CallTypes, Outcome, PropertiesHeld, PropertyNotAscii, Ready, Before,
     converting
<1>5. UNCHANGED <<converting, got, headers>> /\ (exc => exc') /\ exc' \in BOOLEAN
  BY <1>3 DEF PropertyNotAscii, CallTypes
<1>6. TableInv' /\ Reads' /\ (Whole => Whole') /\ NothingMade' = NothingMade /\ here' = here
  BY <1>5, SameReads
<1>7. Stages'
  BY <1>5, <1>6 DEF CallInv, Stages, PropertyNotAscii, Ready, Before, converting, Whole,
     Sound
<1> QED
  BY <1>1, <1>3, <1>4, <1>6, <1>7 DEF CallInv

(* A table of another client is one a reader can read.                        *)
LEMMA TableReadable ==
    ASSUME NEW t, IsTable(t)
    PROVE  Readable(t)
BY DEF IsTable, IsTree, Readable

(* Receiving a message makes no call.                                         *)
LEMMA ReceivePreserves ==
    ASSUME CallInv, Receive
    PROVE  CallInv'
<1>1. ArrayInv'
  BY SameArray DEF CallInv, Receive
<1>2. CallTypes' /\ Temporaries'
  BY DEF CallInv, CallTypes, Temporaries, Receive, Ready, Steps, Entering, arrayVars,
     tableVars
<1>3. Outcome' /\ PropertiesHeld'
  BY DEF CallInv, CallTypes, Outcome, PropertiesHeld, Receive, Ready, Before, tableVars
<1>4. UNCHANGED <<converting, exc, method, got>> /\ exc \in BOOLEAN
  BY DEF Receive, tableVars, converting, CallInv, CallTypes
<1>5. TableInv' /\ (Whole => Whole')
  BY <1>4, SameTable DEF CallInv
<1>6. Stages'
  BY <1>4, <1>5 DEF CallInv, Stages, Receive, Ready, Before, converting, NothingMade
<1>7. NullFree(headers')
  <2>1. PICK t \in Delivered : headers' = AMQTable_toPyDict(t)
    BY DEF Receive
  <2>2. IsTable(t)
    OBVIOUS
  <2>3. Readable(t)
    BY <2>2, TableReadable
  <2> QED
    BY <2>1, <2>3, ReadNullFree
<1>8. Reads'
  BY <1>4, <1>7 DEF CallInv, Reads, Sound, converting, NullFree, AsGiven
<1> QED
  BY <1>1, <1>2, <1>3, <1>5, <1>6, <1>8 DEF CallInv

(* The conversion begins, if the method has a table.                          *)
LEMMA BeginTablePreserves ==
    ASSUME CallInv, BeginTable
    PROVE  CallInv'
<1>1. /\ CallTypes /\ Temporaries /\ Outcome /\ PropertiesHeld /\ TableInv /\ Stages /\ Reads
      /\ pc = "properties" /\ todo = 0 /\ todo' \in Properties(method) /\ pc' = "table"
      /\ UNCHANGED <<headers, method, arg, iterators, dropped, exc, got, result, propdict>>
      /\ UNCHANGED arrayVars
  BY DEF CallInv, BeginTable, Ready
<1>2. ArrayInv'
  BY <1>1, SameArray DEF CallInv
<1>3. todo' \in Nat
  BY <1>1, PropertiesAre DEF CallTypes
<1>4. CallTypes' /\ Temporaries'
  BY <1>1, <1>3 DEF CallTypes, Temporaries, Steps, Entering, arrayVars
<1>5. Outcome' /\ PropertiesHeld'
  BY <1>1 DEF Outcome, PropertiesHeld, Before
<1>6. NothingMade
  BY <1>1 DEF Stages, Before
<1>7. TableInv' /\ Whole'
  <2>1. CASE method.table
    <3>1. TableCall
      BY <2>1 DEF BeginTable
    <3> QED
      BY <1>1, <1>6, <3>1, TableCallInv
  <2>2. CASE ~method.table
    <3>1. UNCHANGED converting
      BY <1>1, <2>2 DEF BeginTable, converting
    <3>2. Whole
      BY <1>1, <2>2, EmptyDictWhole DEF Stages
    <3> QED
      BY <1>1, <3>1, <3>2, SameTable
  <2> QED
    BY <2>1, <2>2
<1>8. Stages'
  BY <1>1, <1>7 DEF Stages, Before
<1>9. Reads'
  BY <1>1 DEF Reads, Outcome
<1> QED
  BY <1>2, <1>4, <1>5, <1>7, <1>8, <1>9 DEF CallInv

(* A turn of one of its loops.                                                *)
LEMMA TurnPreserves ==
    ASSUME CallInv, TableTurn
    PROVE  CallInv'
<1>1. /\ CallTypes /\ Temporaries /\ Outcome /\ PropertiesHeld /\ TableInv /\ Stages /\ Reads
      /\ pc = "table" /\ todo = 0 /\ TableNext
      /\ UNCHANGED <<pc, method, got, result, propdict, headers, arrayVars>>
  BY DEF CallInv, TableTurn, Ready, callVars
<1>2. arg' = arg /\ todo' \in Nat /\ exc' \in BOOLEAN /\ (exc => exc')
  BY <1>1, TurnIs DEF CallTypes
<1>3. ArrayInv'
  BY <1>1, SameArray DEF CallInv
<1>4. CallTypes' /\ Temporaries'
  BY <1>1, <1>2 DEF CallTypes, Temporaries, Entering, arrayVars
<1>5. Outcome' /\ PropertiesHeld'
  BY <1>1, <1>2 DEF Outcome, PropertiesHeld, Before
<1>6. TableInv' /\ Whole'
  BY <1>1, TableKeeps DEF Stages, Before
<1>7. Stages'
  BY <1>1, <1>2, <1>6 DEF Stages, Before
<1>8. Reads'
  BY <1>1 DEF Reads, Outcome
<1> QED
  BY <1>3, <1>4, <1>5, <1>6, <1>7, <1>8 DEF CallInv

(* The conversion has ended, which connect alone does not ask about.          *)
LEMMA ConvertedPreserves ==
    ASSUME CallInv, Converted
    PROVE  CallInv'
<1> DEFINE failed == exc /\ method.checks
<1>1. /\ CallTypes /\ Temporaries /\ Outcome /\ PropertiesHeld /\ Stages
      /\ pc = "table" /\ todo = 0 /\ here = <<>>
      /\ pc' = IF failed THEN "bail" ELSE "send"
      /\ propdict' = IF ~failed /\ method = BasicPublish THEN propdict - 1 ELSE propdict
      /\ UNCHANGED <<headers, method, tableVars, got, result, arrayVars>>
  BY DEF CallInv, Converted, Ready
<1>2. UNCHANGED <<converting, todo, exc>> /\ exc \in BOOLEAN
  BY <1>1 DEF tableVars, converting, CallTypes
<1>3. /\ (method # Connect => method.checks) /\ BasicPublish # Connect
      /\ propdict = IF method = BasicPublish THEN 1 ELSE 0
  BY <1>1, MethodIs, PublishIsNotConnect DEF CallTypes, PropertiesHeld
<1>4. ArrayInv'
  BY <1>1, SameArray DEF CallInv
<1>5. CallTypes' /\ Temporaries'
  BY <1>1, <1>2, <1>3 DEF CallTypes, Temporaries, Steps, Entering, arrayVars, converting
<1>6. Outcome' /\ PropertiesHeld'
  BY <1>1, <1>2, <1>3 DEF Outcome, PropertiesHeld, Before
<1>7. TableInv' /\ Reads' /\ (Whole => Whole') /\ here' = here
  BY <1>1, <1>2, SameReads
<1>8. Stages'
  BY <1>1, <1>2, <1>7 DEF Stages, Before, converting
<1> QED
  BY <1>4, <1>5, <1>6, <1>7, <1>8 DEF CallInv

(* The request is sent: what it takes is held until then, so that the         *)
(* receiver reads what was given.                                             *)
LEMMA SendPreserves ==
    ASSUME CallInv, Send
    PROVE  CallInv' /\ todo = 0 /\ \A r \in taken : count'[r] = 1
<1>1. /\ CallTypes /\ Temporaries /\ Outcome /\ PropertiesHeld /\ TableInv /\ Stages /\ Reads
      /\ pc = "send" /\ todo = 0 /\ pc' = "reply"
      /\ UNCHANGED <<headers, method, tableVars, result, propdict, arrayVars>>
  BY DEF CallInv, Send, Ready
<1>2. UNCHANGED <<converting, todo, exc>> /\ exc \in BOOLEAN
  BY <1>1 DEF tableVars, converting, CallTypes
<1>3. ArrayInv'
  BY <1>1, SameArray DEF CallInv
<1>4. todo = 0 /\ \A r \in taken : count[r] = 1 /\ count'[r] = 1
  BY <1>1 DEF Temporaries, arrayVars
<1>5. CallTypes' /\ Temporaries'
  BY <1>1, <1>2, <1>4 DEF CallTypes, Temporaries, Steps, Entering, arrayVars, converting
<1>6. Outcome' /\ PropertiesHeld'
  BY <1>1, <1>2 DEF Outcome, PropertiesHeld, Before
<1>7. TableInv' /\ Whole /\ Whole' /\ here = <<>> /\ here' = <<>>
  BY <1>1, <1>2, SameTable DEF Stages, Before, converting
<1>8. Stages'
  BY <1>1, <1>2, <1>7 DEF Stages, Before, converting
<1>9. Reads'
  <2>1. Gone = {"freed"}
    BY <1>4 DEF Gone
  <2>2. PICK s \in Junk, gone \in {Gone, {}} : got' = AMQTable_toPyDict(OnWire(gone, s))
    BY DEF Send
  <2>3. gone \in SUBSET {"freed"}
    BY <2>1
  <2>4. NullFree(got')
    BY <1>1, <1>7, <2>2, <2>3, SentReadable, ReadNullFree
  <2>5. Sound => got' = AsGiven(arg)
    BY <1>1, <1>7, <2>2, <2>3, SentGiven
  <2>6. headers' = headers /\ arg' = arg /\ exc' = exc
    BY <1>1, <1>2 DEF converting
  <2>7. NullFree(got)' /\ NullFree(headers)' /\ Sound' = Sound /\ AsGiven(arg)' = AsGiven(arg)
    BY <1>1, <2>4, <2>6 DEF Reads, NullFree, Sound, AsGiven
  <2> QED
    BY <2>5, <2>6, <2>7 DEF Reads
<1> QED
  BY <1>3, <1>4, <1>5, <1>6, <1>7, <1>8, <1>9 DEF CallInv

(* The reply: everything is given back, whatever the reply says.              *)
LEMMA ReleasePreserves ==
    ASSUME CallInv, Release
    PROVE  CallInv'
<1>1. ArrayInv' /\ \A r \in References : count'[r] = 0
  BY XDECREFInv DEF CallInv, Release
<1>2. CallTypes'
  BY DEF CallInv, CallTypes, Release, Ready, Steps, Entering, converting
<1>3. Temporaries'
  BY <1>1 DEF Temporaries, Release
<1>4. Outcome' /\ PropertiesHeld'
  BY DEF CallInv, CallTypes, Outcome, PropertiesHeld, Release, Ready, Before
<1>5. UNCHANGED <<converting, got, headers>> /\ (exc => exc') /\ exc' \in BOOLEAN
  BY <1>2 DEF Release, CallTypes
<1>6. TableInv' /\ Reads' /\ (Whole => Whole') /\ here' = here
  BY <1>5, SameReads
<1>7. Stages'
  BY <1>5, <1>6 DEF CallInv, Stages, Release, Ready, Before, converting
<1> QED
  BY <1>1, <1>2, <1>3, <1>4, <1>6, <1>7 DEF CallInv

(* The way out of every failure, after which nothing is held either.          *)
LEMMA BailPreserves ==
    ASSUME CallInv, Bail
    PROVE  CallInv'
<1>1. ArrayInv' /\ \A r \in References : count'[r] = 0
  BY XDECREFInv DEF CallInv, Bail
<1>2. UNCHANGED <<converting, todo, exc, got, headers>> /\ (exc => exc') /\ exc' \in BOOLEAN
  BY DEF CallInv, CallTypes, Bail, tableVars, converting
<1>3. CallTypes'
  BY <1>2 DEF CallInv, CallTypes, Bail, Ready, Steps, Entering, converting
<1>4. Temporaries'
  BY <1>1 DEF Temporaries, Bail
<1>5. Outcome' /\ PropertiesHeld'
  BY <1>2 DEF CallInv, CallTypes, Outcome, PropertiesHeld, Bail, Ready, Before
<1>6. TableInv' /\ Reads' /\ (Whole => Whole') /\ here' = here
  BY <1>2, SameReads
<1>7. Stages'
  BY <1>2, <1>6 DEF CallInv, Stages, Bail, Ready, Before, converting
<1> QED
  BY <1>1, <1>3, <1>4, <1>5, <1>6, <1>7 DEF CallInv

(* The invariant holds in every state of a call.                              *)
THEOREM CallInvariant == CallSpec => []CallInv
<1>1. CallInit => CallInv
  <2> SUFFICES ASSUME CallInit PROVE CallInv
    OBVIOUS
  <2>1. ArrayInv
    BY ArrayInitInv DEF CallInit
  <2>2. CallTypes
    <3>1. Connect \in Methods /\ EmptyDict \in Args
      BY DEF Methods
    <3>2. arg \in Args /\ method \in Methods
      BY <3>1 DEF CallInit
    <3>3. pc \in Steps /\ todo \in Nat /\ ~(todo > 0) /\ propdict \in {0, 1}
      BY DEF CallInit, Steps
    <3>4. exc \in BOOLEAN /\ result \in {"none", "value", "NULL"}
      BY DEF CallInit
    <3> QED
      BY <3>2, <3>3, <3>4 DEF CallTypes
  <2>3. Temporaries /\ Outcome /\ PropertiesHeld
    BY DEF CallInit, ArrayInit, Temporaries, Outcome, PropertiesHeld
  <2>4. AtRest
    <3>1. IsDict(EmptyDict)
      OBVIOUS
    <3> QED
      BY <3>1 DEF CallInit, AtRest, NothingMade
  <2>5. TableInv /\ Stages
    BY <2>4, AtRestInv DEF CallInit, AtRest, Stages, Before
  <2>6. Reads
    <3>1. DOMAIN <<>> = {}
      OBVIOUS
    <3>2. NullFree(<<>>)
      BY <3>1, Zenon DEF NullFree
    <3> QED
      BY <3>2 DEF CallInit, NotYet, Reads
  <2> QED
    BY <2>1, <2>2, <2>3, <2>5, <2>6 DEF CallInv
<1>2. CallInv /\ [CallNext]_vars => CallInv'
  <2> SUFFICES ASSUME CallInv, [CallNext]_vars PROVE CallInv'
    OBVIOUS
  <2>1. CASE \E m \in Methods, d \in Args : Begin(m, d)
    BY <2>1, BeginPreserves
  <2>2. CASE Receive \/ EnterNext
    BY <2>2, ReceivePreserves, EnterPreserves
  <2>3. CASE EncodeNames \/ NameNotAscii \/ PropertyNotAscii
    BY <2>3, EncodePreserves, NamePreserves, PropertyPreserves
  <2>4. CASE BeginTable \/ TableTurn \/ Converted
    BY <2>4, BeginTablePreserves, TurnPreserves, ConvertedPreserves
  <2>5. CASE Send \/ Release \/ Bail
    BY <2>5, SendPreserves, ReleasePreserves, BailPreserves
  <2>6. CASE UNCHANGED vars
    <3>1. UNCHANGED <<converting, got, headers, todo, exc, pc, method, result, propdict, arrayVars>>
      BY <2>6 DEF vars, callVars, tableVars, converting
    <3>2. ArrayInv'
      BY <3>1, SameArray DEF CallInv
    <3>3. CallTypes' /\ Temporaries' /\ Outcome' /\ PropertiesHeld'
      BY <3>1 DEF arrayVars, converting, CallInv, CallTypes, Temporaries, Outcome,
         PropertiesHeld
    <3>4. TableInv' /\ Reads' /\ (Whole => Whole') /\ NothingMade' = NothingMade /\ here' = here
      BY <3>1, SameReads DEF CallInv, CallTypes
    <3>5. Stages'
      BY <3>1, <3>4 DEF CallInv, Stages, converting
    <3> QED
      BY <3>2, <3>3, <3>4, <3>5 DEF CallInv
  <2> QED
    BY <2>1, <2>2, <2>3, <2>4, <2>5, <2>6 DEF CallNext
<1> QED
  BY <1>1, <1>2, PTL DEF CallSpec

(* Every variable keeps its type.                                             *)
THEOREM TypeCorrect == CallSpec => []TypeOK
<1>1. CallInv => TypeOK
  <2> SUFFICES ASSUME CallInv PROVE TypeOK
    OBVIOUS
  <2>1. ASSUME NEW r \in Held(array) PROVE r \in taken
    <3>1. r \in References /\ Places(array, r) # {} /\ Chain(array)
      BY <2>1 DEF Held, CallInv, ArrayInv
    <3>2. Entered(array, r)
      BY <3>1, PlacesAt DEF Entered
    <3> QED
      BY <3>1, <3>2 DEF CallInv, ArrayInv
  <2>2. /\ IsDict(arg)
        /\ here \in Seq(Nat \ {0}) /\ item_tmp \in Seq(Nat) /\ Len(item_tmp) = Len(here)
        /\ DOMAIN fields \cup iterators \cup dropped \subseteq DOMAIN arg
    BY DEF CallInv, TableInv, Cursor, Paths, FieldsMade, Made, Iterators, Released,
       LaterUnsupported
  <2> QED
    BY <2>1, <2>2 DEF CallInv, CallTypes, ArrayInv, TypeOK, Steps
<1> QED
  BY <1>1, CallInvariant, PTL

(* A method that has returned, by whatever way, holds no temporary.           *)
THEOREM NothingKept == CallSpec => []ReleasedAtReturn
<1>1. CallInv => ReleasedAtReturn
  BY DEF CallInv, Temporaries, ReleasedAtReturn
<1> QED
  BY <1>1, CallInvariant, PTL

(* Every temporary counts while it is entered in the chain, in one place.     *)
THEOREM TemporariesOwned == CallSpec => []OwnedOnce
<1>1. CallInv => OwnedOnce
  BY ArrayInvOwnedOnce DEF CallInv
<1> QED
  BY <1>1, CallInvariant, PTL

(* NULL is returned with an exception and only then, but for connect.         *)
THEOREM FailuresShow == CallSpec => []FailureReported
<1>1. CallInv => FailureReported
  BY DEF CallInv, Outcome, FailureReported
<1> QED
  BY <1>1, CallInvariant, PTL

(* basic_publish keeps its properties only when it fails before it sends.     *)
THEOREM PropertiesReturned == CallSpec => []PropertiesGivenBack
<1>1. CallInv => PropertiesGivenBack
  BY DEF CallInv, PropertiesHeld, PropertiesGivenBack
<1> QED
  BY <1>1, CallInvariant, PTL

(* The receiver of a request reads every value the caller passed, at its      *)
(* place and under its key, in a dict of any size and depth, unless the call  *)
(* has an exception or one of the values is of those that do not survive.     *)
THEOREM ArgumentsArrive == CallSpec => []SentAsGiven
<1>1. CallInv => SentAsGiven
  BY DEF CallInv, Reads, Sound, SentAsGiven
<1> QED
  BY <1>1, CallInvariant, PTL

(* What cannot be decoded becomes None in a dict, and NULL in a list only.    *)
THEOREM NullsStayInLists == CallSpec => []NullOnlyInLists
<1>1. CallInv => NullOnlyInLists
  BY DEF CallInv, Reads, NullFree, NullOnlyInLists
<1> QED
  BY <1>1, CallInvariant, PTL

(* The references on the caller's own objects are as they were when a method  *)
(* returns, but for the iterator of a list converted to its end, and a text   *)
(* with an unsupported value after it in its list.                            *)
THEOREM CallerObjectsKept == CallSpec => []CallerBalance
<1>1. CallInv => CallerBalance
  <2> SUFFICES ASSUME CallInv, pc = "return"
               PROVE  /\ \A p \in iterators :
                           /\ p \in DOMAIN arg /\ arg[p].kind = "list"
                           /\ \A q \in DOMAIN arg \ {<<>>} : Parent(q) = p => ~MemberFails(arg[q])
                      /\ \A p \in dropped : LaterUnsupported(p)
    BY DEF CallerBalance, LaterUnsupported
  <2>1. here = <<>> /\ Len(<<>>) = 0 /\ Iterators /\ Released
    BY EmptySeq DEF CallInv, Stages, TableInv
  <2>2. \A p, q : NotFailed(p, q) => ~MemberFails(arg[q])
    BY <2>1 DEF NotFailed
  <2> QED
    BY <2>1, <2>2 DEF Iterators, Released
<1> QED
  BY <1>1, CallInvariant, PTL

(* What is sent is read from memory that the call still holds.                *)
THEOREM SentFromHeldMemory == CallSpec => SentWhileHeld
<1>1. CallInv /\ [CallNext]_vars =>
        [got' # got => todo = 0 /\ \A r \in taken : count'[r] = 1]_vars
  <2> SUFFICES ASSUME CallInv, CallNext, got' # got
               PROVE  todo = 0 /\ \A r \in taken : count'[r] = 1
    BY DEF vars, callVars
  <2>1. Send
    BY DEF CallNext, Begin, Receive, EnterNext, EncodeNames, NameNotAscii, PropertyNotAscii,
           BeginTable, TableTurn, Converted, Release, Bail, callVars
  <2> QED
    BY <2>1, SendPreserves
<1> QED
  BY <1>1, CallInvariant, PTL DEF CallSpec, SentWhileHeld

(* The array of a call is the chain of PyObjectArray: each step of a call     *)
(* enters one reference, releases all, or does not touch it.                  *)
THEOREM CallImplementsArray == CallSpec => ArraySpec
<1>1. CallInit => ArrayInit
  BY DEF CallInit
<1>2. [CallNext]_vars => [ArrayNext]_arrayVars
  <2> SUFFICES ASSUME CallNext PROVE ArrayNext \/ UNCHANGED arrayVars
    BY DEF vars
  <2>1. CASE EnterNext
    BY <2>1, FreshIs DEF EnterNext, ArrayNext
  <2>2. CASE Release \/ Bail
    BY <2>2 DEF Release, Bail, ArrayNext
  <2>3. CASE Receive \/ EncodeNames \/ NameNotAscii \/ PropertyNotAscii \/ Send
             \/ \E m \in Methods, d \in Args : Begin(m, d)
    BY <2>3 DEF Begin, Receive, EncodeNames, NameNotAscii, PropertyNotAscii, Send
  <2>4. CASE BeginTable \/ TableTurn \/ Converted
    BY <2>4 DEF BeginTable, TableTurn, Converted
  <2> QED
    BY <2>1, <2>2, <2>3, <2>4 DEF CallNext
<1> QED
  BY <1>1, <1>2, PTL DEF CallSpec, ArraySpec
=============================================================================
