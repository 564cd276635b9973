-------------------------- MODULE GilThreadsProofs --------------------------
(* Proofs about GilThreads, for every number of threads and of handles.      *)
(*                                                                           *)
(* What makes the three properties inductive is that a connection belongs to *)
(* one thread while it is being connected or closed (Single), and what that  *)
(* thread, or connected, then guarantees about self->conn.                   *)
EXTENDS GilThreads, TLAPS

USE GilAssumption DEF GilAssumption

(* The history variable stays a Boolean.                                      *)
LEMMA OverlappedType ==
    ASSUME TypeOK, overlapped' = (overlapped \/ Overlap')
    PROVE  overlapped' \in BOOLEAN
BY DEF TypeOK, Overlap

(* The program's close: connected is cleared by the thread that begins to close. *)
LEMMA CloseInv ==
    ASSUME Inv, NEW t \in Threads, Close(t), overlapped' = (overlapped \/ Overlap')
    PROVE  Inv'
<1>1. CASE connected
  BY <1>1
  DEF Inv, TypeOK, Close, StartClose, Go, Overlap, Single, Alive, Gone, HandlesAccounted, Handles,
      InConnect, InClose, InMethod
<1>2. CASE ~connected
  BY <1>2
  DEF Inv, TypeOK, Close, StartClose, Go, Overlap, Single, Alive, Gone, HandlesAccounted, Handles,
      InConnect, InClose, InMethod
<1> QED
  BY <1>1, <1>2

(* The handle is still there: only this thread is closing. *)
LEMMA CloseHandshakeInv ==
    ASSUME Inv, NEW t \in Threads, CloseHandshake(t), overlapped' = (overlapped \/ Overlap')
    PROVE  Inv'
BY DEF Inv, TypeOK, CloseHandshake, Go, Overlap, Single, Alive, Gone, HandlesAccounted, Handles,
       InConnect, InClose, InMethod

(* The one handle destroyed is self->conn, for the first time. *)
LEMMA DestroyInv ==
    ASSUME Inv, NEW t \in Threads, Destroy(t), overlapped' = (overlapped \/ Overlap')
    PROVE  Inv'
<1>1. TypeOK'
  <2>1. TypeOK
    BY DEF Inv
  <2>2. overlapped' \in BOOLEAN
    BY <2>1, OverlappedType
  <2>3. pc' \in [Threads -> {"idle"} \cup InConnect \cup InClose \cup InMethod]
    BY <2>1 DEF TypeOK, Destroy, Go, InConnect, InClose, InMethod
  <2>4. destroys' \in [Handles -> Nat]
    <3>1. destroys \in [Handles -> Nat] /\ destroys' = [destroys EXCEPT ![conn] = @ + 1]
      BY <2>1 DEF TypeOK, Destroy
    <3>2. \A h \in Handles : destroys[h] \in Nat /\ destroys[h] + 1 \in Nat
      BY <3>1
    <3> QED
      BY <3>1, <3>2
  <2> QED
    BY <2>1, <2>2, <2>3, <2>4 DEF TypeOK, Destroy
<1> SUFFICES ASSUME ~overlapped' PROVE Inv'
  BY <1>1 DEF Inv
<1>2. ~overlapped /\ TypeOK /\ Single /\ conn <= made /\ Alive /\ ~connected
  BY DEF Inv, Destroy, InClose
<1>3. /\ \A u \in Threads : u # t => pc[u] \notin InConnect \cup InClose /\ pc'[u] = pc[u]
      /\ pc'[t] = "destroyed"
  BY <1>2 DEF Destroy, Single, TypeOK, Go, InClose
<1>4. conn \in Handles /\ destroys'[conn] = 1 /\ \A h \in Handles : h # conn => destroys'[h] = destroys[h]
  BY <1>2 DEF Destroy, TypeOK, Alive, Handles
<1>5. \A h \in Handles : destroys'[h] <= 1 /\ (h > made => destroys'[h] = 0)
  <2>1. \A h \in Handles : destroys[h] <= 1 /\ (h > made => destroys[h] = 0)
    BY <1>2 DEF Inv
  <2>2. conn \in Nat /\ made \in Nat /\ conn <= made
    BY <1>2 DEF TypeOK
  <2> QED
    BY <1>4, <2>1, <2>2 DEF Handles
<1>6. HandlesAccounted'
  <2>1. HandlesAccounted
    BY <1>2 DEF Inv
  <2>2. conn' = conn /\ made' = made /\ failed' = failed
    BY DEF Destroy
  <2>3. \A h \in 1..made : h \in Handles
    BY <1>2 DEF TypeOK, Handles
  <2> QED
    BY <1>4, <2>1, <2>2, <2>3 DEF HandlesAccounted
<1>7. Single'
  BY <1>3 DEF Single
<1>8. Gone'
  BY <1>4 DEF Gone, Destroy
<1>9. \A u \in Threads : pc'[u] \notin {"closing", "destroying", "opening", "login", "logging in"}
  BY <1>3 DEF InConnect, InClose
<1>10. ~connected' /\ made' = made /\ conn' = conn
  BY <1>2 DEF Destroy
<1> QED
  BY <1>1, <1>2, <1>5, <1>6, <1>7, <1>8, <1>9, <1>10 DEF Inv

(* Nothing of self->conn is left when a close ends. *)
LEMMA CloseEndInv ==
    ASSUME Inv, NEW t \in Threads, CloseEnd(t), overlapped' = (overlapped \/ Overlap')
    PROVE  Inv'
<1>1. TypeOK'
  <2>1. TypeOK
    BY DEF Inv
  <2>2. overlapped' \in BOOLEAN
    BY <2>1, OverlappedType
  <2>3. pc' \in [Threads -> {"idle"} \cup InConnect \cup InClose \cup InMethod]
    BY <2>1 DEF TypeOK, CloseEnd, Go, InConnect, InClose, InMethod
  <2> QED
    BY <2>1, <2>2, <2>3 DEF TypeOK, CloseEnd
<1> SUFFICES ASSUME ~overlapped' PROVE Inv'
  BY <1>1 DEF Inv
<1>2. ~overlapped /\ TypeOK /\ Single /\ conn <= made /\ ~connected
  BY DEF Inv, CloseEnd, InClose
<1>3. /\ \A u \in Threads : u # t => pc[u] \notin InConnect \cup InClose /\ pc'[u] = pc[u]
      /\ pc[t] = "destroyed" /\ pc'[t] = "idle"
  BY <1>2 DEF CloseEnd, Single, TypeOK, Go, InClose
<1>4. Gone
  BY <1>2, <1>3 DEF Inv, InConnect, InClose
<1>5. Single'
  BY <1>3 DEF Single, InConnect, InClose
<1>6. \A u \in Threads : pc'[u] \notin InConnect \cup InClose
  BY <1>3 DEF InConnect, InClose
<1>7. Gone' /\ ~connected' /\ UNCHANGED <<made, conn, destroys, failed>>
  BY <1>2, <1>4 DEF CloseEnd, Gone
<1>8. HandlesAccounted' /\ conn' <= made'
      /\ \A h \in Handles : destroys'[h] <= 1 /\ (h > made' => destroys'[h] = 0)
  BY <1>2, <1>7 DEF Inv, HandlesAccounted
<1> QED
  BY <1>1, <1>5, <1>6, <1>7, <1>8 DEF Inv, InConnect, InClose

(* A connect that begins along with nothing finds nothing to lose. *)
LEMMA ConnectInv ==
    ASSUME Inv, NEW t \in Threads, Connect(t), overlapped' = (overlapped \/ Overlap')
    PROVE  Inv'
BY DEF Inv, TypeOK, Connect, Go, Overlap, Single, Alive, Gone, HandlesAccounted, Handles,
       InConnect, InClose, InMethod

(* The handle replaced has been destroyed, or its connect has failed. *)
LEMMA NewHandleInv ==
    ASSUME Inv, NEW t \in Threads, NewHandle(t), overlapped' = (overlapped \/ Overlap')
    PROVE  Inv'
<1>1. TypeOK'
  <2>1. TypeOK
    BY DEF Inv
  <2>2. overlapped' \in BOOLEAN
    BY <2>1, OverlappedType
  <2>3. pc' \in [Threads -> {"idle"} \cup InConnect \cup InClose \cup InMethod]
    BY <2>1 DEF TypeOK, NewHandle, Go, InConnect, InClose, InMethod
  <2> QED
    BY <2>1, <2>2, <2>3 DEF TypeOK, NewHandle, Handles
<1> SUFFICES ASSUME ~overlapped' PROVE Inv'
  BY <1>1 DEF Inv
<1>2. ~overlapped /\ TypeOK /\ Single /\ conn <= made /\ ~connected
  BY DEF Inv, NewHandle, InConnect
<1>3. /\ \A u \in Threads : u # t => pc[u] \notin InConnect \cup InClose /\ pc'[u] = pc[u]
      /\ pc[t] = "new" /\ pc'[t] = "opening"
  BY <1>2 DEF NewHandle, Single, TypeOK, Go, InConnect
<1>4. Gone
  BY <1>2, <1>3 DEF Inv, InConnect, InClose
<1>5. made' = made + 1 /\ conn' = made + 1 /\ mine'[t] = conn' /\ conn' \in Handles
      /\ ~connected' /\ UNCHANGED <<destroys, failed>>
  BY <1>2 DEF NewHandle, TypeOK, Handles
<1>6. \A h \in Handles : destroys[h] <= 1 /\ (h > made => destroys[h] = 0)
  BY <1>2 DEF Inv
<1>7. Alive' /\ conn' <= made' /\ \A h \in Handles : destroys'[h] <= 1 /\ (h > made' => destroys'[h] = 0)
  BY <1>2, <1>5, <1>6 DEF Alive, TypeOK, Handles
<1>8. HandlesAccounted'
  <2> SUFFICES ASSUME NEW h \in 1..made' PROVE h = conn' \/ destroys'[h] = 1 \/ h \in failed'
    BY DEF HandlesAccounted
  <2>1. h \in 1..made \/ h = made + 1
    BY <1>2, <1>5 DEF TypeOK
  <2>2. h \in 1..made => h = conn \/ destroys[h] = 1 \/ h \in failed
    BY <1>2 DEF Inv, HandlesAccounted
  <2>3. h \in 1..made /\ h = conn => destroys[h] = 1 \/ h \in failed
    BY <1>4 DEF Gone
  <2> QED
    BY <1>5, <2>1, <2>2, <2>3
<1>9. Single'
  BY <1>3 DEF Single, InConnect, InClose
<1>10. \A u \in Threads : u # t => pc'[u] \notin InConnect \cup InClose
  BY <1>3
<1> QED
  BY <1>1, <1>3, <1>5, <1>7, <1>8, <1>9, <1>10 DEF Inv, InConnect, InClose

(* The handle of a connect that fails is accounted for, and close does nothing to it. *)
LEMMA OpenFailedInv ==
    ASSUME Inv, NEW t \in Threads, OpenFailed(t), overlapped' = (overlapped \/ Overlap')
    PROVE  Inv'
BY DEF Inv, TypeOK, OpenFailed, StartClose, Go, Overlap, Single, Alive, Gone, HandlesAccounted, Handles,
       InConnect, InClose, InMethod

(* Nothing changes hands. *)
LEMMA OpenSocketInv ==
    ASSUME Inv, NEW t \in Threads, OpenSocket(t), overlapped' = (overlapped \/ Overlap')
    PROVE  Inv'
BY DEF Inv, TypeOK, OpenSocket, Go, Overlap, Single, Alive, Gone, HandlesAccounted, Handles,
       InConnect, InClose, InMethod

(* The descriptor is that of self->conn: no other connect has replaced it. *)
LEMMA LoginInv ==
    ASSUME Inv, NEW t \in Threads, Login(t), overlapped' = (overlapped \/ Overlap')
    PROVE  Inv'
BY DEF Inv, TypeOK, Login, Go, Overlap, Single, Alive, Gone, HandlesAccounted, Handles,
       InConnect, InClose, InMethod

(* The handle that is connected is the one this thread made. *)
LEMMA LoggedInInv ==
    ASSUME Inv, NEW t \in Threads, LoggedIn(t), overlapped' = (overlapped \/ Overlap')
    PROVE  Inv'
BY DEF Inv, TypeOK, LoggedIn, Go, Overlap, Single, Alive, Gone, HandlesAccounted, Handles,
       InConnect, InClose, InMethod

(* As for OpenFailed. *)
LEMMA LoginFailedInv ==
    ASSUME Inv, NEW t \in Threads, LoginFailed(t), overlapped' = (overlapped \/ Overlap')
    PROVE  Inv'
BY DEF Inv, TypeOK, LoginFailed, StartClose, Go, Overlap, Single, Alive, Gone, HandlesAccounted, Handles,
       InConnect, InClose, InMethod

(* A method changes nothing by beginning ... *)
LEMMA MethodInv ==
    ASSUME Inv, NEW t \in Threads, Method(t), overlapped' = (overlapped \/ Overlap')
    PROVE  Inv'
BY DEF Inv, TypeOK, Method, Go, Overlap, Single, Alive, Gone, HandlesAccounted, Handles,
       InConnect, InClose, InMethod

(* ... entering the library ... *)
LEMMA EnterLibraryInv ==
    ASSUME Inv, NEW t \in Threads, EnterLibrary(t), overlapped' = (overlapped \/ Overlap')
    PROVE  Inv'
BY DEF Inv, TypeOK, EnterLibrary, Go, Overlap, Single, Alive, Gone, HandlesAccounted, Handles,
       InConnect, InClose, InMethod

(* ... or leaving it. *)
LEMMA LeaveLibraryInv ==
    ASSUME Inv, NEW t \in Threads, LeaveLibrary(t), overlapped' = (overlapped \/ Overlap')
    PROVE  Inv'
BY DEF Inv, TypeOK, LeaveLibrary, Go, Overlap, Single, Alive, Gone, HandlesAccounted, Handles,
       InConnect, InClose, InMethod

(* A call that fails closes as the program does. *)
LEMMA MethodFailedInv ==
    ASSUME Inv, NEW t \in Threads, MethodFailed(t), overlapped' = (overlapped \/ Overlap')
    PROVE  Inv'
<1>1. CASE connected
  BY <1>1
  DEF Inv, TypeOK, MethodFailed, StartClose, Go, Overlap, Single, Alive, Gone, HandlesAccounted, Handles,
      InConnect, InClose, InMethod
<1>2. CASE ~connected
  <2>1. /\ pc[t] = "in library" /\ pc' = [pc EXCEPT ![t] = "idle"]
        /\ UNCHANGED <<connected, conn, sockfd, made, destroys, failed, mine>>
    BY <1>2 DEF MethodFailed, StartClose, Go
  <2>2. TypeOK'
    BY <2>1 DEF Inv, TypeOK, Overlap
  <2>3. \A u \in Threads : pc'[u] = pc[u] \/ (u = t /\ pc'[u] = "idle")
    BY <2>1 DEF Inv, TypeOK
  <2> SUFFICES ASSUME ~overlapped' PROVE Inv'
    BY <2>2 DEF Inv
  <2>4. Single'
    BY <2>3 DEF Inv, Single, InConnect, InClose
  <2> QED
    BY <1>2, <2>1, <2>2, <2>3, <2>4
    DEF Inv, Alive, Gone, HandlesAccounted, Handles, InConnect, InClose, InMethod
<1> QED
  BY <1>1, <1>2

(* The inductive invariant holds of every behaviour. *)
THEOREM Invariant == Spec => []Inv
<1>1. Init => Inv
  <2> SUFFICES ASSUME Init PROVE Inv
    OBVIOUS
  <2>1. TypeOK
    <3>1. destroys \in [Handles -> Nat] /\ mine \in [Threads -> 0..MaxHandles]
          /\ pc \in [Threads -> {"idle"} \cup InConnect \cup InClose \cup InMethod]
      BY DEF Init
    <3>2. connected \in BOOLEAN /\ overlapped \in BOOLEAN
      BY Zenon DEF Init
    <3>3. 0 \in 0..MaxHandles
      OBVIOUS
    <3>4. conn = 0 /\ sockfd = 0 /\ made = 0 /\ failed = {}
      BY DEF Init
    <3> QED
      BY <3>1, <3>2, <3>3, <3>4 DEF TypeOK
  <2>2. Single /\ Gone /\ HandlesAccounted
    BY DEF Init, Single, Gone, HandlesAccounted, InConnect, InClose
  <2> QED
    BY <2>1, <2>2 DEF Init, Inv, InConnect, InClose
<1>2. Inv /\ [Next]_vars => Inv'
  <2> SUFFICES ASSUME Inv, [Next]_vars PROVE Inv'
    OBVIOUS
  <2>1. CASE UNCHANGED vars
    BY <2>1 DEF Inv, vars, state, TypeOK, Single, Alive, Gone, HandlesAccounted
  <2>2. CASE Next
    <3>1. PICK t \in Threads : Step(t)
      BY <2>2 DEF Next
    <3>2. overlapped' = (overlapped \/ Overlap')
      BY <2>2 DEF Next
    <3> QED
      BY <3>1, <3>2, CloseInv, CloseHandshakeInv, DestroyInv, CloseEndInv, ConnectInv, NewHandleInv, OpenFailedInv,
         OpenSocketInv, LoginInv, LoggedInInv, LoginFailedInv, MethodInv, EnterLibraryInv, LeaveLibraryInv, MethodFailedInv DEF Step
  <2> QED
    BY <2>1, <2>2
<1> QED
  BY <1>1, <1>2, PTL DEF Spec

(* Every variable keeps its type. *)
THEOREM TypeCorrect == Spec => []TypeOK
<1>1. Inv => TypeOK
  BY DEF Inv
<1> QED
  BY <1>1, Invariant, PTL

(* Whoever finds connected set finds a handle that is there, on its own      *)
(* socket, and that nobody is closing.                                       *)
THEOREM ConnectedIsAliveHolds == Spec => []ConnectedIsAlive
<1>1. Inv => ConnectedIsAlive
  BY DEF Inv, ConnectedIsAlive, Alive
<1> QED
  BY <1>1, Invariant, PTL

(* No handle is destroyed twice, however many threads close it.              *)
THEOREM DestroyedOnceHolds == Spec => []DestroyedOnce
<1>1. Inv => DestroyedOnce
  BY DEF Inv, DestroyedOnce, Alive
<1> QED
  BY <1>1, Invariant, PTL

(* The handles lost are those of connects that failed.                       *)
THEOREM HandlesAccountedHolds == Spec => []HandlesAccounted
<1>1. Inv => HandlesAccounted
  BY DEF Inv, HandlesAccounted
<1> QED
  BY <1>1, Invariant, PTL
=============================================================================
