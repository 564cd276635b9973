----------------------------- MODULE GilThreads -----------------------------
(* Several threads call one Connection (Modules/_librabbitmq/connection.c).   *)
(* A thread runs alone while it has the GIL; between Py_BEGIN_ALLOW_THREADS   *)
(* and Py_END_ALLOW_THREADS it runs along with the others, and it is there    *)
(* that self->conn is read, made and destroyed.  An action is a stretch with  *)
(* the GIL, or one use of self->conn without it.                              *)
(*                                                                            *)
(* A handle is an amqp_connection_state_t, named by its number; what happens  *)
(* on it is the business of module Connection.                                *)
EXTENDS Integers

CONSTANTS
    Threads,
    MaxHandles     \* bound: handles ever made

ASSUME GilAssumption == MaxHandles \in Nat

VARIABLES
    connected,     \* self->connected
    conn,          \* self->conn: a handle, 0 before the first
    sockfd,        \* self->sockfd: the handle whose socket it is, 0 for none
    made,          \* how many handles amqp_new_connection has returned
    destroys,      \* how often each was passed to amqp_destroy_connection
    failed,        \* history: handles whose connect failed
    pc,            \* where each thread is
    mine,          \* the handle a thread's connect made, or its call is using
    overlapped     \* history: a connect has run along with a connect or a close

state == <<connected, conn, sockfd, made, destroys, failed, pc, mine>>
vars == <<state, overlapped>>

Handles == 1..MaxHandles
InConnect == {"new", "opening", "login", "logging in"}
InClose == {"closing", "destroying", "destroyed"}
InMethod == {"calling", "in library"}

Go(t, p) == pc' = [pc EXCEPT ![t] = p]

Init ==
    /\ connected = FALSE
    /\ conn = 0 /\ sockfd = 0
    /\ made = 0
    /\ destroys = [h \in Handles |-> 0]
    /\ failed = {}
    /\ pc = [t \in Threads |-> "idle"]
    /\ mine = [t \in Threads |-> 0]
    /\ overlapped = FALSE

-----------------------------------------------------------------------------
(* Mutant of StartClose: connected is cleared only when all is over.          *)
StartCloseLate(t) ==
    IF connected
    THEN Go(t, "closing") /\ UNCHANGED connected
    ELSE Go(t, "idle") /\ UNCHANGED connected

(* Mutant of StartClose: connected is not looked at.                          *)
StartCloseUnchecked(t) ==
    connected' = FALSE /\ Go(t, "closing")

(* Connection_close, called by the program or on the way out of a call:       *)
(* connected is looked at and cleared without letting go of the GIL.          *)
StartClose(t) ==
    IF connected
    THEN connected' = FALSE /\ Go(t, "closing")
    ELSE Go(t, "idle") /\ UNCHANGED connected

Close(t) ==
    /\ pc[t] = "idle"
    /\ StartClose(t)
    /\ UNCHANGED <<conn, sockfd, made, destroys, failed, mine>>

(* amqp_connection_close, without the GIL: it answers or fails, and the code  *)
(* does not care which.                                                       *)
CloseHandshake(t) ==
    /\ pc[t] = "closing"
    /\ mine' = [mine EXCEPT ![t] = conn]
    /\ Go(t, "destroying")
    /\ UNCHANGED <<connected, conn, sockfd, made, destroys, failed>>

(* Mutant of Destroy: the handle is given up and not destroyed.               *)
DestroyNothing(t) ==
    /\ pc[t] = "destroying"
    /\ destroys' = destroys
    /\ Go(t, "destroyed")
    /\ UNCHANGED <<connected, conn, sockfd, made, failed, mine>>

(* amqp_destroy_connection: self->conn is read once more.                     *)
Destroy(t) ==
    /\ pc[t] = "destroying"
    /\ destroys' = [destroys EXCEPT ![conn] = @ + 1]
    /\ Go(t, "destroyed")
    /\ UNCHANGED <<connected, conn, sockfd, made, failed, mine>>

(* Mutant of CloseEnd: -1 for no socket.                                      *)
CloseEndMinusOne(t) ==
    /\ pc[t] = "destroyed"
    /\ sockfd' = -1
    /\ Go(t, "idle")
    /\ UNCHANGED <<connected, conn, made, destroys, failed, mine>>

(* sockfd is cleared before the GIL is taken again.                           *)
CloseEnd(t) ==
    /\ pc[t] = "destroyed"
    /\ sockfd' = 0
    /\ Go(t, "idle")
    /\ UNCHANGED <<connected, conn, made, destroys, failed, mine>>

-----------------------------------------------------------------------------
(* Mutant of Connect: connected is not looked at.                             *)
ConnectAnyway(t) ==
    /\ pc[t] = "idle"
    /\ Go(t, "new")
    /\ UNCHANGED <<connected, conn, sockfd, made, destroys, failed, mine>>

(* connect.  Only its first stretch looks at connected.                       *)
Connect(t) ==
    /\ pc[t] = "idle"
    /\ ~connected
    /\ Go(t, "new")
    /\ UNCHANGED <<connected, conn, sockfd, made, destroys, failed, mine>>

NewHandle(t) ==
    /\ pc[t] = "new"
    /\ made < MaxHandles
    /\ made' = made + 1
    /\ conn' = made + 1
    /\ mine' = [mine EXCEPT ![t] = made + 1]
    /\ Go(t, "opening")
    /\ UNCHANGED <<connected, sockfd, destroys, failed>>

(* No memory for a socket, or it cannot be opened: close() is called, which   *)
(* does nothing to a handle that was never connected.                         *)
OpenFailed(t) ==
    /\ pc[t] = "opening"
    /\ failed' = failed \cup {mine[t]}
    /\ StartClose(t)
    /\ UNCHANGED <<conn, sockfd, made, destroys, mine>>

OpenSocket(t) ==
    /\ pc[t] = "opening"
    /\ Go(t, "login")
    /\ UNCHANGED <<connected, conn, sockfd, made, destroys, failed, mine>>

(* Without the GIL: the descriptor is that of the local socket, the login is  *)
(* that of self->conn.                                                        *)
Login(t) ==
    /\ pc[t] = "login"
    /\ sockfd' = mine[t]
    /\ mine' = [mine EXCEPT ![t] = conn]
    /\ Go(t, "logging in")
    /\ UNCHANGED <<connected, conn, made, destroys, failed>>

LoggedIn(t) ==
    /\ pc[t] = "logging in"
    /\ connected' = TRUE
    /\ Go(t, "idle")
    /\ UNCHANGED <<conn, sockfd, made, destroys, failed, mine>>

(* HandleAMQError: a refusal or a lost link calls close().                    *)
LoginFailed(t) ==
    /\ pc[t] = "logging in"
    /\ failed' = failed \cup {mine[t]}
    /\ StartClose(t)
    /\ UNCHANGED <<conn, sockfd, made, destroys, mine>>

-----------------------------------------------------------------------------
(* Every other method: connected is looked at with the GIL, self->conn is     *)
(* read after it is released.  recv returns to the library frame by frame     *)
(* without looking again.                                                     *)
Method(t) ==
    /\ pc[t] = "idle"
    /\ connected
    /\ Go(t, "calling")
    /\ UNCHANGED <<connected, conn, sockfd, made, destroys, failed, mine>>

EnterLibrary(t) ==
    /\ pc[t] = "calling"
    /\ mine' = [mine EXCEPT ![t] = conn]
    /\ Go(t, "in library")
    /\ UNCHANGED <<connected, conn, sockfd, made, destroys, failed>>

LeaveLibrary(t) ==
    /\ pc[t] = "in library"
    /\ \E p \in {"idle", "calling"} : Go(t, p)
    /\ UNCHANGED <<connected, conn, sockfd, made, destroys, failed, mine>>

(* A connection exception or a failed link: close() is called.                *)
MethodFailed(t) ==
    /\ pc[t] = "in library"
    /\ StartClose(t)
    /\ UNCHANGED <<conn, sockfd, made, destroys, failed, mine>>

-----------------------------------------------------------------------------
Step(t) ==
    \/ Close(t) \/ CloseHandshake(t) \/ Destroy(t) \/ CloseEnd(t)
    \/ Connect(t) \/ NewHandle(t) \/ OpenFailed(t) \/ OpenSocket(t)
    \/ Login(t) \/ LoggedIn(t) \/ LoginFailed(t)
    \/ Method(t) \/ EnterLibrary(t) \/ LeaveLibrary(t) \/ MethodFailed(t)

(* Two threads are in connect, or one is while another closes.                *)
Overlap ==
    \E t, u \in Threads :
        t # u /\ pc[t] \in InConnect /\ pc[u] \in InConnect \cup InClose

Next ==
    /\ \E t \in Threads : Step(t)
    /\ overlapped' = (overlapped \/ Overlap')

Spec == Init /\ [][Next]_vars

-----------------------------------------------------------------------------
(* Type invariant.                                                            *)
TypeOK ==
    /\ connected \in BOOLEAN
    /\ conn \in 0..MaxHandles /\ sockfd \in 0..MaxHandles
    /\ made \in 0..MaxHandles
    /\ destroys \in [Handles -> Nat]
    /\ failed \subseteq 0..MaxHandles
    /\ pc \in [Threads -> {"idle"} \cup InConnect \cup InClose \cup InMethod]
    /\ mine \in [Threads -> 0..MaxHandles]
    /\ overlapped \in BOOLEAN

(* A call that finds connected set finds a handle that is not destroyed, on   *)
(* its own socket, and that no other thread has begun to close - as long as   *)
(* no connect ran along with another connect or a close.                      *)
ConnectedIsAlive ==
    connected /\ ~overlapped =>
        /\ conn \in 1..made /\ destroys[conn] = 0 /\ sockfd = conn
        /\ \A t \in Threads : pc[t] \notin InClose

(* However many threads close, and however many calls fail at once, a handle  *)
(* is destroyed once at most, and never one that is not there.                *)
DestroyedOnce ==
    ~overlapped =>
        /\ \A h \in Handles : destroys[h] <= 1
        /\ \A t \in Threads : pc[t] = "destroying" => conn \in 1..made /\ destroys[conn] = 0

(* A handle that is neither self->conn nor destroyed was lost by a connect    *)
(* that failed: close does nothing to it, and the next connect replaces it.   *)
HandlesAccounted ==
    ~overlapped =>
        \A h \in 1..made : h = conn \/ destroys[h] = 1 \/ h \in failed

-----------------------------------------------------------------------------
(* The inductive invariant.  Left to itself, a connection is in one of three  *)
(* conditions: connected; being connected or closed by a single thread; or    *)
(* neither, with nothing of self->conn left that could be lost.               *)
Single ==
    \A t, u \in Threads :
        t # u /\ pc[t] \in InConnect \cup InClose => pc[u] \notin InConnect \cup InClose
Alive == conn \in 1..made /\ destroys[conn] = 0
Gone == conn # 0 => destroys[conn] = 1 \/ conn \in failed

Inv ==
    /\ TypeOK
    /\ ~overlapped =>
        /\ Single
        /\ conn <= made
        /\ \A h \in Handles : destroys[h] <= 1 /\ (h > made => destroys[h] = 0)
        /\ connected => Alive /\ sockfd = conn
        /\ \A t \in Threads :
             /\ pc[t] \in InConnect \cup InClose => ~connected
             /\ pc[t] \in {"closing", "destroying"} => Alive
             /\ pc[t] \in {"opening", "login", "logging in"} => Alive /\ mine[t] = conn
             /\ pc[t] = "logging in" => sockfd = conn
        /\ \/ connected
           \/ \E t \in Threads : pc[t] \in {"closing", "destroying", "opening", "login", "logging in"}
           \/ Gone
        /\ HandlesAccounted
=============================================================================
