----------------------------- MODULE MethodCall -----------------------------
(* One call of a method of Connection that converts arguments, from the       *)
(* Python objects it is given to its result: names and tables to AMQP, the    *)
(* request without the GIL, references given back, the reply.                 *)
(* What the broker does with the request is the business of module            *)
(* Connection; here it is accepted or refused, and the receiver's Python      *)
(* reads the headers or arguments back.                                       *)
(*                                                                            *)
(* The conversions are those of module AMQTable, a step for each turn of      *)
(* their loops.                                                               *)
EXTENDS PyObjectArray, AMQTable

CONSTANTS
    Args,          \* the dicts passed as arguments, headers or client_properties
    Delivered,     \* the tables in the headers of messages of other clients
    Junk,          \* what freed memory may hold
    MaxProperties  \* bound: text properties of a message, of the nine there are

ASSUME MethodCallAssumption ==
    /\ MaxProperties \in Nat
    /\ EmptyDict \in Args
    /\ \A d \in Args : IsDict(d)
    /\ \A t \in Delivered : IsTable(t)

VARIABLES
    pc,            \* where the call is
    method,
    got,           \* what the receiver of the request reads; NotYet before it is sent
    headers,       \* the headers of a message received; NotYet before
    result,        \* "value" or "NULL", once returned
    propdict       \* references taken on the properties of basic_publish

NotYet == <<>>

callVars == <<pc, method, got, result, propdict>>
vars == <<callVars, headers, tableVars, arrayVars>>

-----------------------------------------------------------------------------
(* The methods: how many names they encode, whether they convert a dict, and  *)
(* whether they ask for an exception afterwards.                              *)
Converts(m, n) == [name |-> m, names |-> n, table |-> TRUE, checks |-> TRUE]
NamesOnly(m, n) == [name |-> m, names |-> n, table |-> FALSE, checks |-> TRUE]

QueueBind == Converts("queue_bind", 3)
QueueUnbind == Converts("queue_unbind", 3)
QueueDeclare == Converts("queue_declare", 1)
ExchangeDeclare == Converts("exchange_declare", 2)
BasicConsume == Converts("basic_consume", 2)
BasicPublish == Converts("basic_publish", 2)
ExchangeDelete == NamesOnly("exchange_delete", 1)
QueueDelete == NamesOnly("queue_delete", 1)
QueuePurge == NamesOnly("queue_purge", 1)
BasicCancel == NamesOnly("basic_cancel", 1)
BasicGet == NamesOnly("basic_get", 1)
(* connect passes no names, and does not ask whether client_properties could  *)
(* be converted.                                                              *)
Connect == [Converts("connect", 0) EXCEPT !.checks = FALSE]

Methods == {QueueBind, QueueUnbind, QueueDeclare, ExchangeDeclare, BasicConsume,
            BasicPublish, ExchangeDelete, QueueDelete, QueuePurge, BasicCancel,
            BasicGet, Connect}

-----------------------------------------------------------------------------
(* The call has got to p, and every temporary made so far is entered.         *)
Ready(p) == pc = p /\ todo = 0

(* Maybe_Unicode and PyObjectArray_AddEntry: one temporary after the other,   *)
(* while nothing else of the call happens.  References bounds how many.       *)
Fresh == CHOOSE r \in References : r \notin taken
EnterNext ==
    /\ todo > 0
    /\ References \ taken # {}
    /\ AddEntry(Fresh)
    /\ todo' = todo - 1
    /\ UNCHANGED <<callVars, headers, arg, here, item_tmp, fields, exc, iterators, dropped>>

(* What a step leaves alone that makes temporaries and may raise.             *)
converting == <<arg, here, item_tmp, fields, iterators, dropped>>

CallInit ==
    /\ ArrayInit
    /\ pc = "idle"
    /\ method = Connect /\ arg = EmptyDict
    /\ here = <<>> /\ item_tmp = <<>> /\ iterators = {} /\ dropped = {}
    /\ fields = [p \in {<<>>} |-> Node(<<"TABLE", 0>>, NoKey)]
    /\ todo = 0
    /\ exc = FALSE /\ got = NotYet /\ headers = NotYet /\ result = "none" /\ propdict = 0

Begin(m, d) ==
    /\ Ready("idle")
    /\ m.table \/ d = EmptyDict
    /\ method' = m /\ arg' = d
    /\ pc' = "names"
    /\ UNCHANGED <<here, item_tmp, fields, iterators, dropped, todo, exc, got, headers,
                   result, propdict, arrayVars>>

(* basic_properties_to_PyDict: the headers of a message drained or got.       *)
Receive ==
    /\ Ready("idle")
    /\ \E t \in Delivered : headers' = AMQTable_toPyDict(t)
    /\ pc' = "received"
    /\ UNCHANGED <<method, got, result, propdict, tableVars, arrayVars>>

(* Mutant of EncodeNames: the properties are not held.                        *)
EncodeNamesUnheld ==
    /\ Ready("names")
    /\ todo' \in 0..method.names
    /\ pc' = "properties"
    /\ UNCHANGED <<headers, method, converting, exc, got, result, propdict, arrayVars>>

(* Maybe_Unicode of each name in turn: bytes are taken as they are, text is   *)
(* encoded, and text that is not ASCII ends the call.                         *)
EncodeNames ==
    /\ Ready("names")
    /\ todo' \in 0..method.names
    /\ pc' = "properties"
    /\ propdict' = IF method = BasicPublish THEN 1 ELSE 0
    /\ UNCHANGED <<headers, method, converting, exc, got, result, arrayVars>>

NameNotAscii ==
    /\ Ready("names")
    /\ todo' \in 0..(method.names - 1)
    /\ exc' = TRUE
    /\ pc' = "bail"
    /\ UNCHANGED <<headers, method, converting, got, result, propdict, arrayVars>>

(* PyDict_to_basic_properties: the text properties of basic_publish come      *)
(* before its headers, and one that is not ASCII ends the call.               *)
Properties(m) == IF m = BasicPublish THEN 0..MaxProperties ELSE {0}

PropertyNotAscii ==
    /\ Ready("properties")
    /\ \E n \in Properties(method) \ {0} : todo' = n - 1
    /\ exc' = TRUE
    /\ pc' = "bail"
    /\ UNCHANGED <<headers, method, converting, got, result, propdict, arrayVars>>

(* PyDict_ToAMQTable is called by the methods that have a table; the others   *)
(* send an empty one or none.                                                 *)
BeginTable ==
    /\ Ready("properties")
    /\ todo' \in Properties(method)
    /\ pc' = "table"
    /\ IF method.table THEN TableCall ELSE UNCHANGED <<here, item_tmp, fields>>
    /\ UNCHANGED <<headers, method, arg, iterators, dropped, exc, got, result, propdict, arrayVars>>

TableTurn ==
    /\ Ready("table")
    /\ TableNext
    /\ UNCHANGED <<callVars, headers, arrayVars>>

(* Mutant of Converted: the exception is not looked for.                      *)
ConvertedUnchecked ==
    /\ Ready("table")
    /\ here = <<>>
    /\ pc' = "send"
    /\ propdict' = IF method = BasicPublish THEN propdict - 1 ELSE propdict
    /\ UNCHANGED <<headers, method, tableVars, got, result, arrayVars>>

(* Mutant of Converted: basic_publish keeps its reference on success too.     *)
ConvertedKeepsProperties ==
    /\ Ready("table")
    /\ here = <<>>
    /\ pc' = IF exc /\ method.checks THEN "bail" ELSE "send"
    /\ UNCHANGED <<headers, method, tableVars, got, result, propdict, arrayVars>>

(* The conversion has ended; methods other than connect ask PyErr_Occurred.   *)
(* basic_publish holds the properties dict until then, and gives it back when *)
(* the conversion succeeded.                                                  *)
Converted ==
    LET failed == exc /\ method.checks
    IN  /\ Ready("table")
        /\ here = <<>>
        /\ pc' = IF failed THEN "bail" ELSE "send"
        /\ propdict' = IF ~failed /\ method = BasicPublish THEN propdict - 1 ELSE propdict
        /\ UNCHANGED <<headers, method, tableVars, got, result, arrayVars>>

(* A temporary's memory holds the string until its reference is given back;   *)
(* freed memory may hold it still, or anything else by now.                   *)
Gone == {"freed"} \cup IF \E r \in taken : count[r] = 0 THEN {"array"} ELSE {}

(* Mutant of Send: the references are given back before the request is sent.  *)
SendReleased ==
    /\ Ready("send")
    /\ XDECREF
    /\ \E s \in Junk, gone \in {{"freed", "array"}, {}} :
         got' = AMQTable_toPyDict(OnWire(gone, s))
    /\ pc' = "reply"
    /\ UNCHANGED <<headers, method, tableVars, result, propdict>>

Send ==
    /\ Ready("send")
    /\ \E s \in Junk, gone \in {Gone, {}} :
         got' = AMQTable_toPyDict(OnWire(gone, s))
    /\ pc' = "reply"
    /\ UNCHANGED <<headers, method, tableVars, result, propdict, arrayVars>>

(* The references are given back and the reply is looked at: HandleAMQError   *)
(* raises, and the call leaves by bail.                                       *)
Release ==
    /\ Ready("reply")
    /\ XDECREF
    /\ \/ exc' = exc /\ pc' = "return"
       \/ exc' = TRUE /\ pc' = "bail"
    /\ result' = IF pc' = "return" THEN "value" ELSE result
    /\ UNCHANGED <<headers, method, todo, converting, got, propdict>>

(* Mutant of Bail: returns without giving anything back.                      *)
BailKeeps ==
    /\ Ready("bail")
    /\ result' = "NULL"
    /\ pc' = "return"
    /\ UNCHANGED <<headers, method, tableVars, got, propdict, arrayVars>>

Bail ==
    /\ Ready("bail")
    /\ XDECREF
    /\ result' = "NULL"
    /\ pc' = "return"
    /\ UNCHANGED <<headers, method, tableVars, got, propdict>>

CallNext ==
    \/ \E m \in Methods, d \in Args : Begin(m, d)
    \/ Receive \/ EnterNext \/ EncodeNames \/ NameNotAscii \/ PropertyNotAscii
    \/ BeginTable \/ TableTurn \/ Converted \/ Send \/ Release \/ Bail

CallSpec == CallInit /\ [][CallNext]_vars

-----------------------------------------------------------------------------
(* Type invariant.                                                            *)
TypeOK ==
    /\ pc \in {"idle", "received", "names", "properties", "table", "send", "reply", "bail", "return"}
    /\ method \in Methods /\ IsDict(arg)
    /\ here \in Seq(Nat \ {0}) /\ item_tmp \in Seq(Nat) /\ Len(item_tmp) = Len(here)
    /\ DOMAIN fields \cup iterators \cup dropped \subseteq DOMAIN arg
    /\ todo \in Nat
    /\ exc \in BOOLEAN
    /\ result \in {"none", "value", "NULL"}
    /\ taken \subseteq References /\ Held(array) \subseteq taken
    /\ count \in [References -> Int]
    /\ propdict \in {0, 1}

(* A method that has returned - by its normal way or by bail, which runs      *)
(* XDECREF a second time - has given back every temporary it ever took.       *)
ReleasedAtReturn == pc = "return" => \A r \in References : count[r] = 0

(* A request is sent while the call holds every temporary it has taken: the   *)
(* fields point into their memory.  (Of the text in a list, which is released *)
(* before that, no temporary is entered: connection.c 412-427.)               *)
SentWhileHeld == [][got' # got => todo = 0 /\ \A r \in taken : count'[r] = 1]_vars

(* NULL is returned with an exception, a value without; a request whose       *)
(* arguments could not be converted is never sent.  Except by connect, which  *)
(* does not ask: it logs in with what was converted, and returns a value with *)
(* the exception set.                                                         *)
FailureReported ==
    /\ result = "NULL" => exc
    /\ method # Connect => ~(result = "value" /\ exc) /\ ~(pc = "reply" /\ exc)

(* basic_publish gives back the reference it takes on its properties, but for *)
(* one known fault: not when what they hold cannot be converted, in which     *)
(* case it raises and sends nothing.                                          *)
PropertiesGivenBack ==
    pc = "return" /\ propdict = 1 => method = BasicPublish /\ got = NotYet /\ exc

-----------------------------------------------------------------------------
(* What a faithful transfer of d shows its receiver: bytes are read as text.  *)
Text(kind) == IF kind = "bytes" THEN "text" ELSE kind
AsGiven(d) ==
    [p \in DOMAIN d |->
        Node(<<Text(d[p].kind), d[p].val>>, IF d[p].key = NoKey THEN NoKey ELSE <<"text", d[p].key[2]>>)]

InDict(d, p) == d[Parent(p)].kind = "dict"

(* The values that are known not to survive: -1 or -1.0 in a dict, an int of  *)
(* more than 32 bits, bytes that are not UTF-8, text or a bool in a list.     *)
Survives(d, p) ==
    /\ d[p].kind \in {"int", "float"} /\ InDict(d, p) => d[p].val # -1
    /\ d[p].kind = "int" => Fits(d[p].val, INT32_MAX)
    /\ d[p].kind = "bytes" => d[p].val \notin Invalid
    /\ d[p].kind \in {"text", "bool"} => InDict(d, p)

(* The receiver of a request reads what the caller passed, whatever has       *)
(* happened to the temporaries meanwhile: every value at its place, under its *)
(* key, and nothing else.                                                     *)
SentAsGiven ==
    got # NotYet /\ ~exc /\ (\A p \in DOMAIN arg \ {<<>>} : Survives(arg, p))
    => got = AsGiven(arg)

(* A header that cannot be decoded is read as None: the NULL of a failed      *)
(* conversion never becomes a key or a value of a dict, at any depth.  (It    *)
(* does become a member of a list.)                                           *)
NullOnlyInLists ==
    \A v \in {got, headers} : \A p \in DOMAIN v :
        /\ v[p].key # Null
        /\ v[p].kind = "NULL" => p # <<>> /\ v[Parent(p)].kind = "list"

(* The references on the program's own objects are left as they were, but     *)
(* for two known faults: the iterator of a list all of whose members were     *)
(* converted is kept, and a text in a list is released once too often when a  *)
(* member after it is unsupported.                                            *)
CallerBalance ==
    pc = "return" =>
        /\ \A p \in iterators :
             /\ p \in DOMAIN arg /\ arg[p].kind = "list"
             /\ \A q \in DOMAIN arg \ {<<>>} : Parent(q) = p => ~MemberFails(arg[q])
        /\ \A p \in dropped :
             /\ p \in DOMAIN arg /\ arg[p].kind = "text"
             /\ \E q \in DOMAIN arg :
                  /\ Parent(q) = Parent(p) /\ q[Len(q)] > p[Len(p)]
                  /\ arg[Parent(q)].kind = "list" /\ Unsupported(arg[q])

(* "Support for lists and dictionaries in header values" (Changelog 166):     *)
(* headers of a message made of ASCII text, lists and dicts arrive as they    *)
(* were given to basic_publish.                                               *)
ListHeadersArrive ==
    /\ method = BasicPublish /\ got # NotYet /\ ~exc
    /\ \A p \in DOMAIN arg :
         /\ arg[p].kind \in {"text", "list", "dict"}
         /\ arg[p].kind = "text" => arg[p].val \in Ascii
    => got = AsGiven(arg)
=============================================================================
