--------------------------- MODULE PyObjectArray ---------------------------
(* pyobject_array_t (Modules/_librabbitmq/connection.c): the references a     *)
(* method call has taken on temporary objects - the bytes its text arguments  *)
(* were encoded to - and must give back before it returns.  They are entered  *)
(* in blocks of PYOBJECT_ARRAY_MAX, chained by `next`.                        *)
(*                                                                            *)
(* A reference is a member of References, not an object: two references to    *)
(* one object (an interned bytes object, say) are two members.                *)
EXTENDS Integers, Sequences, FiniteSets

CONSTANTS
    References,
    PYOBJECT_ARRAY_MAX

ASSUME PyObjectArrayAssumption == PYOBJECT_ARRAY_MAX \in Nat \ {0}

VARIABLES
    array,         \* the chain: a sequence of blocks, the call's own one first
    taken,         \* history: the references ever entered
    count          \* what each reference still counts for: 1 once taken, 0 once released

arrayVars == <<array, taken, count>>

(* {0}: one block, no entries, no next.                                       *)
EmptyArray == << <<>> >>

HasRoom(a, i) == Len(a[i]) < PYOBJECT_ARRAY_MAX

(* PyObjectArray_AddEntry walks down the chain to the first block with room,  *)
(* and appends a block where there is none.                                   *)
Added(a, r) ==
    IF \E i \in DOMAIN a : HasRoom(a, i)
    THEN LET first == CHOOSE i \in DOMAIN a :
                         HasRoom(a, i) /\ \A j \in 1..(i - 1) : ~HasRoom(a, j)
         IN  [a EXCEPT ![first] = Append(@, r)]
    ELSE Append(a, <<r>>)

(* Where r is entered in a: pairs of a block and a place in it.               *)
Places(a, r) == {p \in (DOMAIN a) \X (1..PYOBJECT_ARRAY_MAX) :
                    p[2] \in DOMAIN a[p[1]] /\ a[p[1]][p[2]] = r}
Held(a) == {r \in References : Places(a, r) # {}}

ArrayInit ==
    /\ array = EmptyArray
    /\ taken = {}
    /\ count = [r \in References |-> 0]

AddEntry(r) ==
    /\ r \notin taken
    /\ taken' = taken \cup {r}
    /\ count' = [count EXCEPT ![r] = @ + 1]
    /\ array' = Added(array, r)

(* Mutant of XDECREF: num_entries of the first block is not reset.            *)
XDECREFKeepsFirst ==
    /\ count' = [r \in References |-> count[r] - Cardinality(Places(array, r))]
    /\ array' = <<array[1]>>
    /\ UNCHANGED taken

(* PyObjectArray_XDECREF: every entry of every block is released once, and    *)
(* the blocks of the chain but the first are freed.  Called on both ways out  *)
(* of a method that fails after sending.                                      *)
XDECREF ==
    /\ count' = [r \in References |-> count[r] - Cardinality(Places(array, r))]
    /\ array' = EmptyArray
    /\ UNCHANGED taken

ArrayNext == XDECREF \/ \E r \in References : AddEntry(r)

ArraySpec == ArrayInit /\ [][ArrayNext]_arrayVars

(* A reference counts exactly while it is entered, and is entered once: it is *)
(* neither lost by the chain nor released twice by two XDECREFs.              *)
OwnedOnce ==
    \A r \in References :
        /\ count[r] = Cardinality(Places(array, r))
        /\ count[r] \in {0, 1}
        /\ count[r] = 1 => r \in taken
=============================================================================
