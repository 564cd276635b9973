------------------------------ MODULE AMQTable ------------------------------
(* Conversion of Python headers and arguments to AMQP tables and back         *)
(* (Modules/_librabbitmq/connection.c, PyDict_ToAMQTable to                   *)
(* AMQArray_toPyList).                                                        *)
(*                                                                            *)
(* A value is a tree: a function from places to what is there.  A place is    *)
(* the sequence of positions that lead to it, <<>> the value as a whole and   *)
(* <<2, 1>> the first member of its second.  What is there is a record of     *)
(*   kind   "none", "bool", "int", "float", "text", "bytes", "list" (lists    *)
(*          and tuples), "dict", or "other" for any other type; in AMQP the   *)
(*          kind of the field                                                 *)
(*   val    the number or string; 0 if the kind has none                      *)
(*   key    its key, if it is in a dict or table                              *)
(* Floats are told apart only as -1.0 and others, and written as integers.    *)
(* Keys are encoded as ASCII, and the code does not look at the result: a key *)
(* that cannot be encoded or decoded is outside the model.                    *)
EXTENDS Integers, Sequences

CONSTANTS
    INT32_MAX,     \* the largest of AMQP's long-int
    LONG_MAX,      \* the largest of C's long
    Ascii,         \* strings, as text encodable in ASCII, as bytes valid UTF-8
    Unicode,       \* strings encodable in UTF-8 only
    Invalid        \* bytes that are not UTF-8, text (a surrogate) that has no UTF-8

ASSUME AMQTableAssumption ==
    /\ INT32_MAX \in Nat /\ LONG_MAX \in Nat /\ INT32_MAX <= LONG_MAX
    /\ (Ascii \cup Unicode) \cap Invalid = {}

VARIABLES
    arg,           \* the dict that is converted
    here,          \* where the innermost loop is: at each prefix a loop is in progress; <<>>: none
    item_tmp,      \* position of the text that item_tmp points to, for each loop; 0: NULL
    fields,        \* the fields made so far, at the places of the values
    todo,          \* temporaries made and not entered in the call's array yet
    exc,           \* a Python exception is set
    iterators,     \* places of the lists whose iterator has not been released
    dropped        \* places of the texts released without a reference having been taken

tableVars == <<arg, here, item_tmp, fields, todo, exc, iterators, dropped>>

-----------------------------------------------------------------------------
(* Trees.                                                                     *)
NoKey == <<>>
Node(value, key) == [kind |-> value[1], val |-> value[2], key |-> key]
Parent(p) == SubSeq(p, 1, Len(p) - 1)
NextTo(p) == [p EXCEPT ![Len(p)] = @ + 1]
Below(p, q) == Len(p) < Len(q) /\ \A i \in 1..Len(p) : q[i] = p[i]
Containers == {"dict", "list"}

(* Python's values.                                                           *)
Strings == Ascii \cup Unicode \cup Invalid
Keys == ({"text"} \X Ascii) \cup ({"bytes"} \X (Ascii \cup Unicode))
Valued(kind, val) ==
    CASE kind \in {"none", "other"} \cup Containers -> val = 0
      [] kind = "bool" -> val \in BOOLEAN
      [] kind \in {"int", "float"} -> val \in Int
      [] kind \in {"text", "bytes"} -> val \in Strings
      [] OTHER -> FALSE

(* Each place but the top is in a container, after the others of its.         *)
IsTree(t, dict, list) ==
    /\ <<>> \in DOMAIN t
    /\ \A p \in DOMAIN t : p \in Seq(Nat \ {0})
    /\ \A p \in DOMAIN t \ {<<>>} :
         /\ Parent(p) \in DOMAIN t
         /\ t[Parent(p)].kind \in {dict, list}
         /\ \A i \in 1..p[Len(p)] : Append(Parent(p), i) \in DOMAIN t
IsDict(t) ==
    /\ IsTree(t, "dict", "list")
    /\ t[<<>>] = Node(<<"dict", 0>>, NoKey)
    /\ \A p \in DOMAIN t : Valued(t[p].kind, t[p].val) /\ t[p] = Node(<<t[p].kind, t[p].val>>, t[p].key)
    /\ \A p \in DOMAIN t \ {<<>>} :
         IF t[Parent(p)].kind = "dict" THEN t[p].key \in Keys ELSE t[p].key = NoKey

EmptyDict == [p \in {<<>>} |-> Node(<<"dict", 0>>, NoKey)]

-----------------------------------------------------------------------------
(* To AMQP.  Bytes are pointed to, not copied: an amqp_bytes_t is a string    *)
(* and whose the memory is: "caller" (the object is an argument), "array" (a  *)
(* temporary entered in the call's pyobject_array_t) or "freed".              *)
Fits(n, max) == n \in (-max - 1)..max
Wrap(n) == ((n + INT32_MAX + 1) % (2 * INT32_MAX + 2)) - INT32_MAX - 1

KeyField(key) ==
    IF key = NoKey THEN NoKey ELSE <<key[2], IF key[1] = "text" THEN "array" ELSE "caller">>
KeyRefs(key) == IF key # NoKey /\ key[1] = "text" THEN 1 ELSE 0

(* The field of an entry of a dict, and that of a member of a list, where     *)
(* bools are ints and an int that does not fit is -1.  An int is cut to 32    *)
(* bits.                                                                      *)
EntryField(v) ==
    CASE v.kind = "none" -> <<"VOID", 0>>
      [] v.kind = "bool" -> <<"BOOLEAN", v.val>>
      [] v.kind = "int" -> <<"I32", Wrap(v.val)>>
      [] v.kind = "float" -> <<"F64", v.val>>
      [] v.kind = "text" -> <<"UTF8", <<v.val, "array">>>>
      [] v.kind = "bytes" -> <<"UTF8", <<v.val, "caller">>>>
      [] v.kind = "dict" -> <<"TABLE", 0>>
      [] v.kind = "list" -> <<"ARRAY", 0>>
MemberField(v) ==
    CASE v.kind = "bool" -> <<"I32", IF v.val THEN 1 ELSE 0>>
      [] v.kind = "int" /\ ~Fits(v.val, LONG_MAX) -> <<"I32", -1>>
      [] v.kind = "text" -> <<"UTF8", <<v.val, "freed">>>>
      [] OTHER -> EntryField(v)

(* Which values end a loop.  An int or float of -1 in a dict is taken for a   *)
(* conversion that failed, and no exception is set then.                      *)
EntryFails(v) ==
    \/ v.kind = "int" /\ ~Fits(v.val, LONG_MAX)
    \/ v.kind \in {"int", "float"} /\ v.val = -1
    \/ v.kind = "text" /\ v.val \in Invalid
    \/ v.kind = "other"
EntryRaises(v) == ~(v.kind \in {"int", "float"} /\ v.val = -1)
Unsupported(v) == v.kind \in {"float", "other"}
MemberFails(v) == (v.kind = "text" /\ v.val \notin Ascii) \/ Unsupported(v)

(* f is put at place p, under the key of the value there.                     *)
With(p, f) ==
    [q \in DOMAIN fields \cup {p} |-> IF q = p THEN Node(f, KeyField(arg[p].key)) ELSE fields[q]]

(* A table that is given up is empty, whatever had been converted.            *)
GivenUp(p) ==
    [q \in {r \in DOMAIN fields : ~Below(p, r)} \cup {p} |->
        IF q = p THEN Node(<<"TABLE", 0>>, KeyField(arg[p].key)) ELSE fields[q]]

(* The innermost loop is that of a call for a value of this kind, and it has  *)
(* another turn or not.                                                       *)
In(kind) == here # <<>> /\ arg[Parent(here)].kind = kind
Turn(kind) == In(kind) /\ here \in DOMAIN arg
Value == arg[here]

GoOn == here' = NextTo(here) /\ UNCHANGED item_tmp

(* The innermost call returns: its caller's loop goes on.                     *)
ReturnToCaller ==
    /\ here' = IF Len(here) = 1 THEN <<>> ELSE NextTo(Parent(here))
    /\ item_tmp' = Parent(item_tmp)

(* A member of either loop that is a dict or a list is converted by a call of *)
(* its own.  PyIter_ToAMQArray takes an iterator.                             *)
Nested ==
    /\ \E kind \in Containers : Turn(kind)
    /\ Value.kind \in Containers
    /\ here' = Append(here, 1)
    /\ item_tmp' = Append(item_tmp, 0)
    /\ todo' = todo + KeyRefs(Value.key)
    /\ iterators' = IF Value.kind = "list" THEN iterators \cup {here} ELSE iterators
    /\ UNCHANGED <<arg, fields, exc, dropped>>

(* PyDict_ToAMQTable: one turn of its loop ...                                *)
DictEntry ==
    /\ Turn("dict")
    /\ Value.kind \notin Containers /\ ~EntryFails(Value)
    /\ fields' = With(here, EntryField(Value))
    /\ todo' = todo + KeyRefs(Value.key) + (IF Value.kind = "text" THEN 1 ELSE 0)
    /\ GoOn
    /\ UNCHANGED <<arg, exc, iterators, dropped>>

(* ... the one that ends it at `error`, which does not stop the caller ...    *)
DictFails ==
    /\ Turn("dict")
    /\ EntryFails(Value)
    /\ exc' = (exc \/ EntryRaises(Value))
    /\ fields' = GivenUp(Parent(here))
    /\ todo' = todo + KeyRefs(Value.key)
    /\ ReturnToCaller
    /\ UNCHANGED <<arg, iterators, dropped>>

(* ... and its end.                                                           *)
DictReturns ==
    /\ In("dict") /\ here \notin DOMAIN arg
    /\ fields' = With(Parent(here), <<"TABLE", 0>>)
    /\ ReturnToCaller
    /\ UNCHANGED <<arg, todo, exc, iterators, dropped>>

(* PyIter_ToAMQArray: one turn of its loop.  An int that does not fit raises  *)
(* and is converted nonetheless.  Text is encoded to a temporary that is      *)
(* released as soon as the array points to it.                                *)
ListMember ==
    /\ Turn("list")
    /\ Value.kind \notin Containers /\ ~MemberFails(Value)
    /\ fields' = With(here, MemberField(Value))
    /\ exc' = (exc \/ (Value.kind = "int" /\ ~Fits(Value.val, LONG_MAX)))
    /\ here' = NextTo(here)
    /\ item_tmp' = IF Value.kind = "text" THEN [item_tmp EXCEPT ![Len(here)] = here[Len(here)]]
                   ELSE item_tmp
    /\ UNCHANGED <<arg, todo, iterators, dropped>>

(* Mutant of ListFails: the iterator is not released.                         *)
ListFailsKeeps ==
    /\ Turn("list")
    /\ MemberFails(Value)
    /\ exc' = TRUE
    /\ fields' = With(Parent(here), <<"ARRAY", 0>>)
    /\ dropped' = IF Unsupported(Value) /\ item_tmp[Len(here)] # 0
                  THEN dropped \cup {Append(Parent(here), item_tmp[Len(here)])} ELSE dropped
    /\ ReturnToCaller
    /\ UNCHANGED <<arg, todo, iterators>>

(* item_error: item_tmp is released, which is right for the text that could   *)
(* not be encoded, and once too often for an earlier one.  The iterator is    *)
(* released only here.  What was converted before is returned.                *)
ListFails ==
    /\ Turn("list")
    /\ MemberFails(Value)
    /\ exc' = TRUE
    /\ fields' = With(Parent(here), <<"ARRAY", 0>>)
    /\ dropped' = IF Unsupported(Value) /\ item_tmp[Len(here)] # 0
                  THEN dropped \cup {Append(Parent(here), item_tmp[Len(here)])} ELSE dropped
    /\ iterators' = iterators \ {Parent(here)}
    /\ ReturnToCaller
    /\ UNCHANGED <<arg, todo>>

ListReturns ==
    /\ In("list") /\ here \notin DOMAIN arg
    /\ fields' = With(Parent(here), <<"ARRAY", 0>>)
    /\ ReturnToCaller
    /\ UNCHANGED <<arg, todo, exc, iterators, dropped>>

(* PyDict_ToAMQTable is called for arg.                                       *)
TableCall ==
    /\ here' = <<1>> /\ item_tmp' = <<0>>
    /\ fields' = <<>>
TableNext ==
    \/ Nested \/ DictEntry \/ DictFails \/ DictReturns
    \/ ListMember \/ ListFails \/ ListReturns

-----------------------------------------------------------------------------
(* What goes over the wire when the memory of `gone` owners holds s by then.  *)
Read(bytes, gone, s) == IF bytes[2] \in gone THEN <<s, bytes[2]>> ELSE bytes
OnWire(gone, s) ==
    [p \in DOMAIN fields |->
        LET f == fields[p]
        IN  [kind |-> f.kind,
             val |-> IF f.kind = "UTF8" THEN Read(f.val, gone, s) ELSE f.val,
             key |-> IF f.key = NoKey THEN NoKey ELSE Read(f.key, gone, s)]]

-----------------------------------------------------------------------------
(* To Python.  Bytes are decoded as UTF-8; what cannot be decoded is NULL.    *)
(* That the UnicodeDecodeError stays set is left out: it is seen, or not, in  *)
(* whatever the program does next.                                            *)
None == <<"none", 0>>
Null == <<"NULL", 0>>
Decoded(bytes) == IF bytes[1] \in Ascii \cup Unicode THEN <<"text", bytes[1]>> ELSE Null

(* AMQP's kinds, and those of them that no case is for (bytes, decimal,       *)
(* timestamp).                                                                *)
IntKinds == {"I8", "I16", "I32", "I64", "U8", "U16", "U32", "U64"}
NoCase == {"BYTES", "DECIMAL", "TIMESTAMP"}
FieldKinds == IntKinds \cup NoCase \cup {"VOID", "BOOLEAN", "F32", "F64", "UTF8", "TABLE", "ARRAY"}

(* AMQTABLE_VAL: the switch both loops share.                                 *)
ToPython(f) ==
    CASE f.kind = "BOOLEAN" -> <<"bool", f.val>>
      [] f.kind \in IntKinds -> <<"int", f.val>>
      [] f.kind \in {"F32", "F64"} -> <<"float", f.val>>
      [] f.kind = "UTF8" -> Decoded(f.val)
      [] f.kind = "TABLE" -> <<"dict", 0>>
      [] f.kind = "ARRAY" -> <<"list", 0>>

(* AMQArray_toPyList has None for what it has no case for.                    *)
AMQArray_toPyList(f) == IF f.kind \in NoCase \cup {"VOID"} THEN None ELSE ToPython(f)

(* Mutant of EntryValue: only VOID and unknown kinds become None.             *)
EntryKeepsNull(f) == IF f.kind \in NoCase \cup {"VOID"} THEN None ELSE ToPython(f)

(* In AMQTable_toPyDict what could not be decoded is None as well.            *)
EntryValue(f) ==
    IF f.kind \in NoCase \cup {"VOID"} \/ ToPython(f) = Null THEN None ELSE ToPython(f)

AMQTable_toPyDict(t) ==
    [p \in DOMAIN t |->
        IF p # <<>> /\ t[Parent(p)].kind = "TABLE" THEN Node(EntryValue(t[p]), Decoded(t[p].key))
        ELSE Node(AMQArray_toPyList(t[p]), NoKey)]

(* A table as rabbitmq-c hands it over, with keys that can be decoded.        *)
IsTable(t) ==
    /\ IsTree(t, "TABLE", "ARRAY")
    /\ t[<<>>].kind = "TABLE"
    /\ \A p \in DOMAIN t : t[p].kind \in FieldKinds
    /\ \A p \in DOMAIN t \ {<<>>} :
         t[Parent(p)].kind = "TABLE" => t[p].key # NoKey /\ t[p].key[1] \in Ascii \cup Unicode
=============================================================================
