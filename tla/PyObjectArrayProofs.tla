------------------------ MODULE PyObjectArrayProofs ------------------------
(* Proofs about PyObjectArray, for every number of references and every size *)
(* of a block.                                                               *)
(*                                                                           *)
(* OwnedOnce counts places; the inductive invariant says where references    *)
(* are instead: the chain has no room but in its last block, so that the     *)
(* walk of PyObjectArray_AddEntry ends there, and no two places hold the     *)
(* same reference.                                                           *)
EXTENDS PyObjectArray, FiniteSetTheorems, SequenceTheorems, TLAPS

USE PyObjectArrayAssumption DEF PyObjectArrayAssumption

(* A chain of blocks, all full but the last. *)
Chain(a) ==
    /\ a \in Seq(Seq(References))
    /\ Len(a) > 0
    /\ \A i \in 1..Len(a) : Len(a[i]) <= PYOBJECT_ARRAY_MAX
    /\ \A i \in 1..(Len(a) - 1) : Len(a[i]) = PYOBJECT_ARRAY_MAX

(* r is in place j of block i. *)
At(a, i, j, r) == i \in 1..Len(a) /\ j \in 1..Len(a[i]) /\ a[i][j] = r
Entered(a, r) == \E i, j \in Nat : At(a, i, j, r)
Distinct(a) ==
    \A r \in References : \A i, j, k, l \in Nat :
        At(a, i, j, r) /\ At(a, k, l, r) => i = k /\ j = l

ArrayInv ==
    /\ Chain(array)
    /\ Distinct(array)
    /\ taken \subseteq References
    /\ count \in [References -> Int]
    /\ \A r \in References :
         /\ Entered(array, r) => r \in taken
         /\ count[r] = IF Entered(array, r) THEN 1 ELSE 0

(* The walk ends at the last block, or one is appended. *)
LEMMA AddedLast ==
    ASSUME NEW a, Chain(a), NEW r
    PROVE  Added(a, r) = IF Len(a[Len(a)]) < PYOBJECT_ARRAY_MAX
                         THEN [a EXCEPT ![Len(a)] = Append(@, r)]
                         ELSE Append(a, <<r>>)
<1> DEFINE n == Len(a)
           IsHome(i) == i \in DOMAIN a /\ HasRoom(a, i) /\ \A j \in 1..(i - 1) : ~HasRoom(a, j)
<1>1. n \in Nat \ {0} /\ DOMAIN a = 1..n
  BY LenProperties DEF Chain
<1>2. \A i \in 1..(n - 1) : ~HasRoom(a, i)
  BY <1>1 DEF Chain, HasRoom
<1>3. CASE HasRoom(a, n)
  <2>1. IsHome(n)
    BY <1>1, <1>2, <1>3
  <2>2. \A i : IsHome(i) => i = n
    BY <1>1, <1>2
  <2>3. (CHOOSE i \in DOMAIN a : HasRoom(a, i) /\ \A j \in 1..(i - 1) : ~HasRoom(a, j)) = n
    BY <2>1, <2>2
  <2>4. \E i \in DOMAIN a : HasRoom(a, i)
    BY <1>1, <1>3
  <2>5. Added(a, r) = [a EXCEPT ![n] = Append(@, r)]
    BY <2>3, <2>4, Zenon DEF Added
  <2>6. Len(a[n]) < PYOBJECT_ARRAY_MAX
    BY <1>3 DEF HasRoom
  <2> QED
    BY <2>5, <2>6
<1>4. CASE ~HasRoom(a, n)
  <2>1. \A i \in DOMAIN a : ~HasRoom(a, i)
    BY <1>1, <1>2, <1>4
  <2> QED
    BY <1>4, <2>1 DEF Added, HasRoom
<1> QED
  BY <1>3, <1>4

(* A reference is entered after the last one, and everything else stays.      *)
LEMMA AddedPlaces ==
    ASSUME NEW a, Chain(a), NEW r \in References
    PROVE  /\ Chain(Added(a, r))
           /\ \E m, n \in Nat :
                /\ \A i, j \in Nat : \A q :
                     At(Added(a, r), i, j, q) <=> At(a, i, j, q) \/ (i = m /\ j = n /\ q = r)
                /\ \A q : ~At(a, m, n, q)
<1> DEFINE n == Len(a)
           b == Added(a, r)
<1>1. n \in Nat \ {0} /\ DOMAIN a = 1..n /\ a \in Seq(Seq(References))
  BY LenProperties DEF Chain
<1>2. \A i \in 1..n : a[i] \in Seq(References) /\ Len(a[i]) \in Nat
  BY <1>1, ElementOfSeq, LenProperties
<1>3. n \in Nat \ {0} /\ n = Len(a)
  BY <1>1
<1>4. \A i \in 1..n : Len(a[i]) \in Nat /\ Len(a[i]) <= PYOBJECT_ARRAY_MAX
  BY <1>2 DEF Chain
<1>5. \A i \in 1..(n - 1) : Len(a[i]) = PYOBJECT_ARRAY_MAX
  BY DEF Chain
<1>6. CASE Len(a[n]) < PYOBJECT_ARRAY_MAX
  <2> DEFINE c == Append(a[n], r)
             m == Len(a[n]) + 1
  <2>1. b = [a EXCEPT ![n] = c]
    BY <1>6, AddedLast
  <2>2. c \in Seq(References) /\ Len(c) = m /\ c[m] = r /\ \A j \in 1..Len(a[n]) : c[j] = a[n][j]
    BY <1>1, <1>2, AppendProperties
  <2>3. b \in Seq(Seq(References)) /\ Len(b) = Len(a) /\ \A i \in 1..Len(a) : b[i] = IF i = n THEN c ELSE a[i]
    <3>1. n \in 1..n
      BY <1>3
    <3> QED
      BY <1>1, <2>1, <2>2, <3>1, ExceptSeq
  <2> HIDE DEF n, b, c
  <2>4. Len(b) = n /\ b[n] = c /\ \A i \in 1..(n - 1) : b[i] = a[i]
    BY <1>3, <2>3
  <2>5. m \in Nat \ {0} /\ m <= PYOBJECT_ARRAY_MAX /\ Len(a[n]) = m - 1
    BY <1>3, <1>4, <1>6
  <2> HIDE DEF m
  <2>6. Chain(b)
    <3>1. \A i \in 1..n : Len(b[i]) <= PYOBJECT_ARRAY_MAX
      BY <1>3, <1>4, <2>2, <2>4, <2>5
    <3>2. \A i \in 1..(n - 1) : Len(b[i]) = PYOBJECT_ARRAY_MAX
      BY <1>3, <1>5, <2>4
    <3> QED
      BY <1>3, <2>3, <2>4, <3>1, <3>2 DEF Chain
  <2>7. \A i, j \in Nat : \A q : At(b, i, j, q) <=> At(a, i, j, q) \/ (i = n /\ j = m /\ q = r)
    <3> SUFFICES ASSUME NEW i \in Nat, NEW j \in Nat, NEW q
                 PROVE  At(b, i, j, q) <=> At(a, i, j, q) \/ (i = n /\ j = m /\ q = r)
      OBVIOUS
    <3>1. CASE i \in 1..(n - 1)
      <4>1. b[i] = a[i] /\ i # n /\ i \in 1..n
        BY <1>3, <2>4, <3>1
      <4> QED
        BY <1>3, <2>4, <4>1 DEF At
    <3>2. CASE i = n
      <4>1. j \in 1..m <=> j \in 1..Len(a[n]) \/ j = m
        BY <2>5
      <4>2. ~(m \in 1..Len(a[n]))
        BY <2>5
      <4>3. n \in 1..n
        BY <1>3
      <4>4. At(b, n, j, q) <=> j \in 1..m /\ c[j] = q
        BY <2>2, <2>4, <4>3 DEF At
      <4>5. At(a, n, j, q) <=> j \in 1..Len(a[n]) /\ a[n][j] = q
        BY <1>3, <4>3 DEF At
      <4> QED
        BY <2>2, <3>2, <4>1, <4>2, <4>4, <4>5
    <3>3. CASE i \notin 1..n
      <4>1. i # n
        BY <1>3, <3>3
      <4> QED
        BY <1>3, <2>4, <3>3, <4>1 DEF At
    <3> QED
      BY <1>3, <3>1, <3>2, <3>3
  <2>8. \A q : ~At(a, n, m, q)
    BY <1>3, <2>5 DEF At
  <2>9. n \in Nat /\ m \in Nat
    BY <1>3, <2>5
  <2> QED
    BY <2>6, <2>7, <2>8, <2>9 DEF b
<1>7. CASE ~(Len(a[n]) < PYOBJECT_ARRAY_MAX)
  <2> DEFINE c == <<r>>
  <2>1. b = Append(a, c)
    BY <1>7, AddedLast
  <2>2. c \in Seq(References) /\ Len(c) = 1 /\ c[1] = r
    OBVIOUS
  <2> HIDE DEF c
  <2>3. b \in Seq(Seq(References)) /\ Len(b) = Len(a) + 1 /\ b[Len(a) + 1] = c
        /\ \A i \in 1..Len(a) : b[i] = a[i]
    BY <1>1, <2>1, <2>2, AppendProperties
  <2> HIDE DEF n, b
  <2>4. Len(b) = n + 1 /\ b[n + 1] = c /\ \A i \in 1..n : b[i] = a[i]
    BY <1>3, <2>3
  <2>5. Chain(b)
    <3>1. Len(a[n]) = PYOBJECT_ARRAY_MAX
      BY <1>3, <1>4, <1>7
    <3>2. \A i \in 1..n : Len(b[i]) = PYOBJECT_ARRAY_MAX
      BY <1>3, <1>5, <2>4, <3>1
    <3>3. Len(b[n + 1]) <= PYOBJECT_ARRAY_MAX
      <4>1. Len(b[n + 1]) = 1
        BY <2>2, <2>4
      <4>2. 1 <= PYOBJECT_ARRAY_MAX
        BY PyObjectArrayAssumption
      <4> QED
        BY <4>1, <4>2
    <3>4. \A i \in 1..(n + 1) : Len(b[i]) <= PYOBJECT_ARRAY_MAX
      BY <1>3, <3>2, <3>3
    <3> QED
      BY <1>3, <2>3, <2>4, <3>2, <3>4 DEF Chain
  <2>6. \A i, j \in Nat : \A q : At(b, i, j, q) <=> At(a, i, j, q) \/ (i = n + 1 /\ j = 1 /\ q = r)
    <3> SUFFICES ASSUME NEW i \in Nat, NEW j \in Nat, NEW q
                 PROVE  At(b, i, j, q) <=> At(a, i, j, q) \/ (i = n + 1 /\ j = 1 /\ q = r)
      OBVIOUS
    <3>1. CASE i \in 1..n
      <4>1. b[i] = a[i] /\ i # n + 1 /\ i \in 1..(n + 1)
        BY <1>3, <2>4, <3>1
      <4> QED
        BY <1>3, <2>4, <3>1, <4>1 DEF At
    <3>2. CASE i = n + 1
      <4>1. n + 1 \in 1..(n + 1) /\ n + 1 \notin 1..n
        BY <1>3
      <4>2. At(b, n + 1, j, q) <=> j \in 1..1 /\ c[j] = q
        BY <2>2, <2>4, <4>1 DEF At
      <4>3. ~At(a, n + 1, j, q)
        BY <1>3, <4>1 DEF At
      <4>4. j \in 1..1 <=> j = 1
        OBVIOUS
      <4> QED
        BY <2>2, <3>2, <4>2, <4>3, <4>4
    <3>3. CASE i \notin 1..(n + 1)
      <4>1. i # n + 1 /\ i \notin 1..n
        BY <1>3, <3>3
      <4> QED
        BY <1>3, <2>4, <3>3, <4>1 DEF At
    <3> QED
      BY <1>3, <3>1, <3>2, <3>3
  <2>7. \A q : ~At(a, n + 1, 1, q)
    BY <1>3 DEF At
  <2>8. n + 1 \in Nat /\ 1 \in Nat
    BY <1>3
  <2> QED
    BY <2>5, <2>6, <2>7, <2>8 DEF b
<1> QED
  BY <1>6, <1>7

(* The places of a reference are those where it is. *)
LEMMA PlacesAt ==
    ASSUME NEW a, Chain(a), NEW r
    PROVE  Places(a, r) = {p \in Nat \X Nat : At(a, p[1], p[2], r)}
<1>1. a \in Seq(Seq(References)) /\ Len(a) \in Nat /\ DOMAIN a = 1..Len(a)
  BY LenProperties DEF Chain
<1>2. \A i \in 1..Len(a) : Len(a[i]) \in Nat /\ DOMAIN a[i] = 1..Len(a[i]) /\ Len(a[i]) <= PYOBJECT_ARRAY_MAX
  BY <1>1, ElementOfSeq, LenProperties DEF Chain
<1>3. \A i, j : i \in DOMAIN a /\ j \in DOMAIN a[i] => i \in Nat /\ j \in 1..PYOBJECT_ARRAY_MAX
  BY <1>1, <1>2
<1> QED
  BY <1>1, <1>2, <1>3 DEF Places, At

(* Counting places, when no two hold the same reference.                      *)
LEMMA PlacesCount ==
    ASSUME NEW a, Chain(a), Distinct(a), NEW r \in References
    PROVE  Cardinality(Places(a, r)) = IF Entered(a, r) THEN 1 ELSE 0
<1>1. Places(a, r) = {p \in Nat \X Nat : At(a, p[1], p[2], r)}
  BY PlacesAt
<1>2. CASE Entered(a, r)
  <2>1. PICK i \in Nat, j \in Nat : At(a, i, j, r)
    BY <1>2 DEF Entered
  <2>2. \A k, l \in Nat : At(a, k, l, r) => k = i /\ l = j
    BY <2>1 DEF Distinct
  <2>3. Places(a, r) = {<<i, j>>}
    BY <1>1, <2>1, <2>2
  <2> QED
    BY <1>2, <2>3, FS_Singleton
<1>3. CASE ~Entered(a, r)
  <2>1. Places(a, r) = {}
    BY <1>1, <1>3 DEF Entered
  <2> QED
    BY <1>3, <2>1, FS_EmptySet
<1> QED
  BY <1>2, <1>3

(* An array just initialised is a chain of one empty block.                   *)
LEMMA EmptyChain ==
    Chain(EmptyArray) /\ \A i, j, q : ~At(EmptyArray, i, j, q)
<1>1. EmptyArray \in Seq(Seq(References)) /\ Len(EmptyArray) = 1 /\ EmptyArray[1] = << >> /\ Len(<< >>) = 0
  BY DEF EmptyArray
<1> QED
  BY <1>1 DEF Chain, At

(* The invariant holds when the array is initialised.                         *)
LEMMA ArrayInitInv == ArrayInit => ArrayInv
<1> SUFFICES ASSUME ArrayInit PROVE ArrayInv
  OBVIOUS
<1>1. Chain(array) /\ \A r : ~Entered(array, r)
  BY EmptyChain DEF ArrayInit, Entered
<1>2. Distinct(array)
  BY EmptyChain DEF ArrayInit, Distinct
<1> QED
  BY <1>1, <1>2 DEF ArrayInit, ArrayInv

(* PyObjectArray_AddEntry keeps the invariant, also when it adds a block.     *)
LEMMA AddEntryInv ==
    ASSUME ArrayInv, NEW r \in References, AddEntry(r)
    PROVE  ArrayInv'
<1> DEFINE b == Added(array, r)
<1>0. array' = b /\ Chain(array)
  BY DEF ArrayInv, AddEntry
<1>1. /\ Chain(b)
      /\ \E m, n \in Nat :
           /\ \A i, j \in Nat : \A q :
                At(b, i, j, q) <=> At(array, i, j, q) \/ (i = m /\ j = n /\ q = r)
           /\ \A q : ~At(array, m, n, q)
  BY <1>0, AddedPlaces
<1>2. PICK m \in Nat, n \in Nat :
        /\ \A i, j \in Nat : \A q :
             At(array', i, j, q) <=> At(array, i, j, q) \/ (i = m /\ j = n /\ q = r)
        /\ \A q : ~At(array, m, n, q)
  <2> HIDE DEF b
  <2> QED
    BY <1>0, <1>1
<1>3. Chain(array)'
  BY <1>0, <1>1
<1>4. ~Entered(array, r)
  BY DEF ArrayInv, AddEntry
<1>5. Distinct(array)'
  <2> SUFFICES ASSUME NEW q \in References, NEW i \in Nat, NEW j \in Nat, NEW k \in Nat, NEW l \in Nat,
                      At(array', i, j, q), At(array', k, l, q)
               PROVE  i = k /\ j = l
    BY DEF Distinct
  <2>1. CASE q = r
    BY <1>2, <1>4, <2>1 DEF Entered
  <2>2. CASE q # r
    <3>1. At(array, i, j, q) /\ At(array, k, l, q)
      BY <1>2, <2>2
    <3> QED
      BY <3>1 DEF ArrayInv, Distinct
  <2> QED
    BY <2>1, <2>2
<1>6. \A q \in References : Entered(array', q) <=> Entered(array, q) \/ q = r
  BY <1>2 DEF Entered
<1>7. count' \in [References -> Int] /\ \A q \in References : count'[q] = IF Entered(array', q) THEN 1 ELSE 0
  BY <1>4, <1>6 DEF ArrayInv, AddEntry
<1>8. taken' \subseteq References /\ \A q \in References : Entered(array', q) => q \in taken'
  BY <1>6 DEF ArrayInv, AddEntry
<1> QED
  BY <1>3, <1>5, <1>7, <1>8 DEF ArrayInv, Entered, At

(* PyObjectArray_XDECREF keeps the invariant, and no reference counts then.   *)
LEMMA XDECREFInv ==
    ASSUME ArrayInv, XDECREF
    PROVE  ArrayInv' /\ \A r \in References : count'[r] = 0
<1>1. Chain(array)' /\ \A i, j, q : ~At(array', i, j, q)
  BY EmptyChain DEF XDECREF
<1>2. Distinct(array)' /\ \A r : ~Entered(array', r)
  BY <1>1 DEF Distinct, Entered
<1>3. \A r \in References : Cardinality(Places(array, r)) = count[r]
  BY PlacesCount DEF ArrayInv
<1>4. \A r \in References : count[r] \in Int
  BY DEF ArrayInv
<1>5. count' \in [References -> Int] /\ \A r \in References : count'[r] = 0
  BY <1>3, <1>4 DEF XDECREF
<1>6. taken' \subseteq References
  BY DEF ArrayInv, XDECREF
<1> QED
  BY <1>1, <1>2, <1>5, <1>6 DEF ArrayInv

(* However many references a call enters and however often it runs           *)
(* PyObjectArray_XDECREF, each is held in one place of one block.            *)
THEOREM ArrayInvariant == ArraySpec => []ArrayInv
<1>1. ArrayInv /\ [ArrayNext]_arrayVars => ArrayInv'
  <2> SUFFICES ASSUME ArrayInv, [ArrayNext]_arrayVars PROVE ArrayInv'
    OBVIOUS
  <2>1. CASE XDECREF
    BY <2>1, XDECREFInv
  <2>2. ASSUME NEW r \in References, AddEntry(r) PROVE ArrayInv'
    BY <2>2, AddEntryInv
  <2>3. CASE UNCHANGED arrayVars
    BY <2>3 DEF arrayVars, ArrayInv, Chain, Distinct, Entered, At
  <2> QED
    BY <2>1, <2>2, <2>3 DEF ArrayNext
<1> QED
  BY <1>1, ArrayInitInv, PTL DEF ArraySpec

(* The invariant says that an owned reference is entered in one place.        *)
LEMMA ArrayInvOwnedOnce == ArrayInv => OwnedOnce
<1> SUFFICES ASSUME ArrayInv, NEW r \in References
             PROVE  /\ count[r] = Cardinality(Places(array, r))
                    /\ count[r] \in {0, 1}
                    /\ count[r] = 1 => r \in taken
  BY DEF OwnedOnce
<1>1. count[r] = IF Entered(array, r) THEN 1 ELSE 0
  BY DEF ArrayInv
<1>2. Cardinality(Places(array, r)) = count[r]
  BY <1>1, PlacesCount DEF ArrayInv
<1> QED
  BY <1>1, <1>2 DEF ArrayInv

(* A reference counts exactly while it is entered: the chain of blocks loses *)
(* none and releases none twice.                                             *)
THEOREM OwnedOnceHolds == ArraySpec => []OwnedOnce
  BY ArrayInvariant, ArrayInvOwnedOnce, PTL

(* After PyObjectArray_XDECREF no reference counts any more, and a second    *)
(* call of it changes nothing.                                               *)
ReleasesAll == XDECREF => /\ \A r \in References : count'[r] = 0
                          /\ Held(array) = {} => UNCHANGED count

(* ReleasesAll holds of every step: the error paths of the source may call    *)
(* PyObjectArray_XDECREF more than once.                                      *)
THEOREM XDECREFReleasesAll == ArraySpec => [][ReleasesAll]_arrayVars
<1>1. ArrayInv => ReleasesAll
  <2> SUFFICES ASSUME ArrayInv, XDECREF
               PROVE  /\ \A r \in References : count'[r] = 0
                      /\ Held(array) = {} => UNCHANGED count
    BY DEF ReleasesAll
  <2>1. \A r \in References : count'[r] = 0
    BY XDECREFInv
  <2>2. ASSUME Held(array) = {} PROVE UNCHANGED count
    <3>1. \A r \in References : Places(array, r) = {}
      BY <2>2 DEF Held
    <3>2. \A r \in References : count[r] = 0
      BY <3>1, FS_EmptySet, ArrayInvOwnedOnce DEF OwnedOnce
    <3>3. count' \in [References -> Int] /\ count \in [References -> Int]
      BY XDECREFInv DEF ArrayInv
    <3> QED
      BY <2>1, <3>2, <3>3
  <2> QED
    BY <2>1, <2>2
<1> QED
  BY <1>1, ArrayInvariant, PTL
=============================================================================
