# librabbitmq in TLA+

A verification project for `librabbitmq`, the Python client for AMQP built on
the C library rabbitmq-c. It has four models: the connection and its channels
against a broker that acts on its own; receiving, frame by frame; one method
call, from Python arguments to the wire and back; and several threads in one
connection. TLC checks them on small instances. TLAPS proves for all instances
the invariants of all four, the action properties, and that channels implement
a lease of ids, receiving a mailbox, and a call's temporaries their array.

`connection.c` below is `Modules/_librabbitmq/connection.c`, `__init__.py` is
`librabbitmq/__init__.py`.

## The system

| Part | State | Operations | Modelled in |
| --- | --- | --- | --- |
| Python layer (`__init__.py`) | `channels`, `callbacks`, `_used_channel_ids`, the `Channel` objects | `channel`, `Channel.close`, `basic_consume`, `basic_cancel`, `reconnect`, `drain_events`, and the methods that only forward | `Channels` |
| C extension type (`connection.c`) | `conn`, `connected`, `sockfd`, `channel_max` | `connect`, `_close`, `_channel_open`, `_channel_close`, one method per AMQP method, error handlers, `revive_channel` | `Connection` |
| Receive path (`recv`, `basic_recv`, `basic_get`, `ApplyCallback`) | the frames read so far, rabbitmq-c's buffers | wait for a frame, put a message together, call the callback, turn frames into errors | `Recv` (frames, buffers, nested calls); `Channels`, `Connection` (what a frame does to channels and consumers) |
| Polling (`RabbitMQ_wait_*`, `PYRMQ_SHOULD_POLL`) | none | wait until readable or until a timeout | `Recv` |
| Conversions of tables, arrays, properties (`connection.c` 150-790) | none that lasts | Python to AMQP and back | `AMQTable`, `MethodCall` |
| Temporary references (`pyobject_array_t`) | a chain of blocks per call | add, release | `PyObjectArray`, `MethodCall` |
| GIL and threads | who is where in a method | every method gives up the GIL around its library call | `GilThreads` |
| rabbitmq-c inbound, broker | queued frames, frames on the wire, channels, consumers | replies, deliveries, returns, closes, failures | `Broker` (external) |
| `Message` | what it was made with | `ack`, `reject`: `basic_ack`, `basic_reject` of its channel | `Channels` (`Rpc`) |
| Module initialisation, allocation, `setup.py`, release scripts | | | not modelled |

The layers call downwards: a `Channel` calls its `Connection`, which calls
rabbitmq-c. Upwards there is one path, `drain_events`: the C code looks the
callback up in `callbacks` and the object in `channels`, both kept by the
Python layer, and calls it. What makes this hard:

- the broker closes channels, drops consumers and sends messages at any time,
  and a method that has no reply (`basic_publish`, `basic_ack`) is answered, if
  at all, during some later call;
- while an RPC waits, frames it does not want are put aside, and only
  `drain_events` and `basic_get` look at those;
- a channel.close is answered in three places (the RPC's error handler,
  `recv`, and never, in `basic_qos`), by reviving the channel under the program;
- the Python layer's registry is updated before some calls (`basic_cancel`,
  ids), after others (`basic_consume`, `channel`), and not at all by `close`
  and `reconnect`;
- a message is several frames, which arrive interleaved with those of other
  channels and are waited for without a timeout; the callback it is handed to
  may call back into the connection, and its body may be in memory that is
  rabbitmq-c's;
- arguments are encoded to temporaries that must outlive the send and be
  released once on every path;
- the GIL is given up in the middle of `connect` and `close`.

Correct means: registry, callbacks and broker agree about which channels and
consumers exist, whatever happens between two calls; an id belongs to one
object; no id is lost; each channel.close is answered once; a delivery reaches
its callback, whole, in order, once; what is sent is what was passed; no handle
is destroyed twice. Hazards, each with its line and the properties aimed at it, are
listed in `PROJECT.json`.

## The modules

- `Broker`: the peer. `link`, `bchan`, `bcons` are the broker's view;
  `queued` and `wire` are the frames on their way, in the order in which
  rabbitmq-c returns them. `Replies(c)` says how an RPC can end, and the
  operators after it what the exchange does to the frames. `BrokerNext` is what
  the broker and the network do on their own. Nothing here is in the
  repository: it is what `connection.c` takes for granted of its library.
- `Connection` extends it with the C type: one operator per method. A method
  is one step from call to return. It includes its connected check, the RPC,
  `HandleAMQError`, the revival of the channel and `_close`. The methods that
  differ only in what they send share `Method` and `EncodingMethod`.
- `Channels` extends that with the Python layer and is the specification TLC
  runs. One thread makes calls, one at a time, in any order and with any
  arguments; `BrokerStep` comes between any two of them.
- `ChannelLease`: what the registry promises, in a page: an id is acquired
  only while nobody holds it, by an object that holds no other.
- `Recv`: receiving. A frame is in one of four places - sent, in the socket,
  in rabbitmq-c's buffer, queued - and the calls in progress form a stack,
  because a callback runs inside `drain_events` and can make calls. A call is a
  record of where it waits (`pc`) and of the C locals that matter. One action
  is a stretch of `recv` from one wait to the next.
- `Mailbox`: what receiving promises, in a page: each channel has a box of
  messages, the oldest is handed over first. `Recv` implements it with `box[c]`
  the messages whose basic.deliver is still unread on channel c (`Announced`),
  and the one that `recv` is putting together now (`Reading`).
- `AMQTable`: the conversions. A dict, a list or a table is a tree: a function
  from places (sequences of positions) to what is there. `PyDict_ToAMQTable` and
  `PyIter_ToAMQArray` call each other, once for each dict or list inside; a step
  is a turn of the innermost of their loops. The stack of the C code is one
  variable: `here` is where the innermost loop is, and a loop is in progress at
  each of its prefixes, since the loops go from the first member to the last and
  a call ends before its caller's loop goes on. `item_tmp` has one element for
  each loop, the C variable of that name. The way back (`AMQTable_toPyDict`,
  `AMQArray_toPyList`) keeps nothing and treats every value by itself, so there
  it is one function on trees.
- `PyObjectArray`: the chain of blocks that holds a call's temporaries; a state
  machine of its own for the proof.
- `MethodCall` extends both: one call of any of the twelve methods that encode
  something, from its arguments to its return, the turns of the conversion
  (`TableTurn`) among its steps. Temporaries are entered one at a time
  (`EnterNext`); `todo` counts those made and not entered yet, and the next
  stretch of the call waits until there are none. `Send` reads the memory of
  the temporaries at the moment of sending, so a reference given back too early
  is seen in what the receiver gets.
- `GilThreads`: a thread is somewhere in `connect`, `close` or a method; an
  action is a stretch with the GIL or one use of `self->conn` without it.
- `MCChannels`, `MCRecv`, `MCMethodCall`, `MCGilThreads`: the instances for TLC.
- The proofs: `ChannelsProofs` and, on top of it, `ChannelErrorProofs`;
  `RecvFrames` (lemmas about lines of frames), `RecvProofs` (the invariant) and
  `RecvPromises` (what follows from it); `PyObjectArrayProofs` and, on top of
  it, `MethodCallProofs`; `GilThreadsProofs`.

`Connection` and `Channels` take a method for one step and a message for one
frame; `Recv`, `MethodCall` and `GilThreads` each take one of these apart, and
leave out what the others are about.

Choices worth knowing when reading them:

- `ret` is how the last call ended. `"hang"` is a call that has not returned:
  it waits for a reply that cannot come, and no other call can begin until the
  link fails (`HangEnds`).
- `fresh`, `lost` and the field `current` of an object are ghosts: ids taken
  since the last login, channels whose channel.close `basic_qos` has thrown
  away, objects opened since the last login. No action depends on them.
- In `Broker`, `Connection` and `Channels` a message is one frame. The content
  of a basic.get-ok that was not read with it is a frame of its own, which
  `recv` skips, as the code skips frames that are not methods.
- A connection.close by the broker is folded into `LinkDown`: both end in
  `_close` with a ConnectionError.
- Objects left over from an earlier session can be used and closed like any
  other, and an object can be closed twice; `Forget` is the program dropping
  the last reference to an object that is in no registry entry, which lets a
  finite set of objects stand for any number over time.
- In `Recv`, `msgs` and `handed` are histories: what was sent, and what was last
  handed to a callback. A body part is named by its message and number, so a
  body is whole, cut short or mixed.
- In `MethodCall`, the memory of a temporary that has been released may hold its
  old contents or anything else (`Junk`): both are outcomes of the same C code.
- In `GilThreads`, `failed` and `overlapped` are histories.
- Operators commented "Mutant of" are not part of the model: each is a
  plausible mistake in one definition, kept beside it, which the property named
  in `PROJECT.json` must detect.

## What is checked

| Run | Configuration | Properties |
| --- | --- | --- |
| `registry` | 2 ids, 2 objects, no tags, 1 frame in flight, ids by number | `TypeOK`, `RegistryAgrees`, `NoIdLeak`, `CloseIsPending`, `ImplementsLease` |
| `deliveries` | 1 id, 2 objects, 2 tags, 2 frames | `IInv`, `ConsumerHasCallback`, `CloseIsPending`, `FreeIdIsClosed`, `ChannelErrorRevives`, `DeliveryReachesConsumer` |
| `recv` | 2 channels, 2 messages of 0 to 2 body frames, 2 calls deep, timeouts 0 and None | `TypeOK`, `IInv`, `LentBodyKept`, `NonBlocking`, `ImplementsMailbox` |
| `recv_live` | the same, bodies of 0 or 1 frame | `EventuallyHandedOver` |
| `conversion` | every dict of `MCArgs`, blocks of 2, ints of 3 bits, a long of 5, 1 text property | `TypeOK`, `OwnedOnce`, `ReleasedAtReturn`, `SentAsGiven`, `SentWhileHeld`, `FailureReported`, `PropertiesGivenBack`, `NullOnlyInLists`, `CallerBalance` |
| `threads` | 4 threads, 3 handles | `TypeOK`, `ConnectedIsAlive`, `DestroyedOnce`, `HandlesAccounted`, `Inv` |

**Channels.** Two ids and two objects are the least for one channel's frames to
be put aside by an RPC on the other, for two objects to compete for an id, and
for an id to be free while another is taken; the proofs cover the rest for the
properties they reach. `registry` has no tags, because consumers have no part
in which object an id belongs to; `deliveries` has two on one channel, and for
consumers on several channels `ConsumerHasCallback` and `IInv` are proved. Two
frames in flight on one channel give a delivery before or after a return, a
content nobody read, or a channel.close, each put aside by an RPC or still on
the wire; frames are read strictly in order, so a third repeats what one of the
two does (with three, `deliveries` has 333,015 states, and passes in a few
minutes). `MaxInFlight` bounds what the broker sends by itself; what an RPC
leaves over (a crossed close-ok) is not bounded by it, and ends with the
session. Objects and tags are interchangeable, so the symmetry is sound: all
properties checked under it are safety properties. `ExplicitIds` is off where
`FreeIdIsClosed` is checked: an id asked for by number is not recorded as used,
so `channel()` may then choose an id that is open. The outcome is a connection
error, not a shared id, which `registry` checks.

What `FreeIdIsClosed` allows for is worth reading: a `Channel.close` that
crosses the broker's channel.close leaves the channel open at the broker while
its id is free again. The property shows this happens only together with a
frame over which the next `drain_events` closes the connection.

**Receiving.** Two channels are the least for frames to interleave and be put
aside; two messages for one to be read while another waits, on the same channel
or not, and for a `basic_get` to meet a content that is not its own; two body
frames for a body that is copied part by part, which can be cut in the middle
and whose memory is its own (one frame is lent, none is an empty body); a depth
of two for a callback that drains, makes an RPC, gets, publishes or closes.
`LentBodyKept` says when the view of a one-frame body can lose its memory while
its callback runs: when the callback makes an RPC or publishes on that very
channel, drains itself, or the connection ends. `amqp_maybe_release_buffers_on_channel`
is called by most RPC methods when they have their reply and by `basic_publish`
after the send; `queue_declare`, `exchange_declare`, `basic_consume`,
`basic_qos`, `_channel_open` and `basic_get` do not call it, nor do `basic_ack`
and `basic_reject`, of which therefore nothing is left in `Recv`. A program that keeps the message after its callback has
the view and not the memory; no promise is made about that. `NonBlocking` shows that
a `drain_events` that polls is left waiting with nothing there in one way only:
it polls because there is something, and that is the content of a `basic_get`
which found nothing buffered; `recv` passes over it and waits. (Changelog 323,
"drain_events(timeout=0.0) is now non-blocking", does not hold then.) A positive
timeout takes the same steps as zero. `recv` and `recv_live` stop at
`MaxMessages` or a closed connection, hence no deadlock check.

**Conversion.** `MCArgs` are the dicts of one entry whose value is a leaf, or a
list of up to two, or a dict, of leaves, or those one level deeper, and the
dicts of two entries of which the second is a leaf. The leaves have one value for
each branch of the code: -1, an int that fits, one of more than 32 bits (3 here),
one of more than a C long, ASCII text, other text, text that has no encoding,
bytes and bytes that are not UTF-8. Two members are the least for one that fails
after one that was converted, which is where the code has its error paths; with
one of them a list or a dict, for a loop that goes on after the call it made has
failed or not. A call of three names and a nested table fills several blocks
of 2. The proofs cover every other shape, and all lengths and depths.
The properties state what the code does not do as exceptions, in the open:
`SentAsGiven` lists the values that do not survive, `CallerBalance` the iterator
that is kept and the text that is released too often, `PropertiesGivenBack` the
properties that `basic_publish` keeps when it cannot convert them, and
`FailureReported` excepts `connect`. `SentWhileHeld` is about the temporaries a
call enters; the text in a list is not entered and is released before the send
(412-427), which is the run `list_headers`.
A call is made once, hence no deadlock check.

**Threads.** `ConnectedIsAlive`, `DestroyedOnce` and `HandlesAccounted` hold on
the condition `~overlapped`: no connect has run along with another connect or a
close. Without it TLC finds each of them violated (two threads past the
connected check of `connect`, `connection.c` 1140 and 1144; a `connect` that
replaces `conn` between another thread's clearing `connected` and destroying,
1212 and 1216). Nothing in the code excludes that, and nothing in the
repository says a program may do it. Closes, failing calls and calls in any
number of threads are under no condition. What is not promised at all: `close`
does not wait for other threads' calls, so a thread that was past its connected
check goes on with a handle that has been destroyed. Four threads give a closer,
a second closer, a caller and a connector at once; three handles a failed one,
a closed one and a live one. Handles run out, hence no deadlock check.

Six runs expect a violation, each of something the Changelog says:

- `fileno`: after a login that failed, `fileno()` returns a descriptor on a
  connection that is not connected (Changelog 110, `connection.c` 1167, 1211).
- `drain_channel_error`: a channel.close read by `drain_events` revives the
  channel and then closes the connection (Changelog 163 and 77, `connection.c`
  1375 and 2307).
- `empty_body`: a delivery with an empty body closes the connection
  (Changelog 39, `connection.c` 1529).
- `hang`: a call waits for ever on a channel whose channel.close was read by
  an earlier call (Changelog 202, `connection.c` 2199).
- `own_content`: a `basic_get` that found nothing buffered leaves its content,
  and the next one takes it for its own, on whatever channel (Changelog 41,
  `connection.c` 1450 and 2376).
- `list_headers`: a message whose headers have text in a list (`CC`, `BCC`) is
  sent from memory already freed (Changelog 166, `connection.c` 412-427).

Two more of the Changelog's lines do not hold and have no run of their own. A
list of floats among the headers is refused with ValueError, although a float by
itself is taken (Changelog 173, `connection.c` 421); `SentAsGiven` is about
requests that were sent. An int of -1, or a float of -1.0, is taken for a
conversion that failed, so that the message goes out with no headers and no
exception (Changelog 346, `connection.c` 317 and 328); `Survives` excepts it.

**Fairness.** Only `recv_live` has a liveness property, under `FairSpec` of
`Recv`:

- weak fairness of `Arrive(c)`: what has been sent arrives, unless the link
  fails, which it may at any time. It is the network's part, not the code's.
- weak fairness of `Waits` and `PollTimedOut`: a wait in `select` or rabbitmq-c
  that can end ends; the code does nothing in between but return to a wait.
- strong fairness of `CallbackReturns`: a callback returns in the end, however
  many calls it makes on the way (each of which disables the action meanwhile).
- strong fairness of `drain_events`: the program is an event loop, and comes
  back to it again and again, also if it makes other calls in between. Without
  this nothing is ever delivered, as `drain_events` is the only way up.

Nothing is assumed of the broker, which may send nothing. The property is
about messages to consumers, and lets the link fail, also through `_close`, by
which a bad frame or an empty body ends the connection. For module `Channels`
nothing live is stated: it would rest on the broker's answering, and the run
`hang` shows calls that are answered by no broker.

## What is proved

`ChannelsProofs`, from `BrokerAssumption` and `ChannelsAssumption` (at least
one id; `None` is no tag, no object, and no set of tags), for every number of
ids, tags, objects and frames:

| Theorem | States |
| --- | --- |
| `Inductive` | `Spec => []IInv` |
| `TypeCorrect` | `Spec => []TypeOK` |
| `RegistryCorrect` | `Spec => []RegistryAgrees` |
| `CallbacksCorrect` | `Spec => []ConsumerHasCallback` |
| `NoIdIsLost` | `Spec => []NoIdLeak` |
| `LeaseRefinement` | `Spec => ImplementsLease` |

`RegistryAgrees` and `ConsumerHasCallback` are about a link that is up, and are
not inductive: a login brings the link back and with it whatever was true of the
registry while it was down, and a reply to an RPC on a channel tells something
of the broker's channels only if those agreed before. `IInv` adds what holds
across sessions: `EntriesAreOwn` (an entry carries its own id and has a dict of
callbacks, in whatever session), `RegisteredIsOpen` (as long as the connection
is marked connected, link or no link), `RegisteredIsLive`, `ConsumersOpen`
(consumers exist on open channels only, so a channel being closed has none to
miss), and `FreshIsRegistered` (which excepts only the open still waiting).

The proof has two layers. `Effect` says what any call that opens and closes no
channel can do: it may end the session but not begin one, no channel of the
broker is closed by it, and it adds consumers on its own channel only, and only
by succeeding. `Fine` is that together with the types, and is proved once for
each operator of `Connection`. The invariance proof then has one lemma per
action of `Channels`, most of which need only `Fine`; opening and closing
channels, connecting and consuming are done by hand. The refinement reuses
`IInv`: opening is `Acquire` (the object is new, and by `RegisteredIsLive` an
id the broker will open is not held), closing is `Release`, every step that
disconnects is `EndSession`, and the rest stutter.

`ChannelErrorProofs`, from the same assumptions:

| Theorem | States |
| --- | --- |
| `AllAccounted` | `Spec => []Accounted` |
| `NoCloseIsLost` | `Spec => []CloseIsPending` |
| `FreeIdsAreFree` | `~ExplicitIds => (Spec => []FreeIdIsClosed)` |
| `ErrorsRevive` | `Spec => []ChannelErrorRevives` |
| `DeliveriesReach` | `Spec => DeliveryReachesConsumer` |

The first three speak of frames that are still to be read, wherever they are.
`Accounted` says of every channel that the broker is closing that its
channel.close is unread or was thrown away by `basic_qos` (`lost`); of every
free id not in `lost`, that the broker has it closed or that a frame lies in
`queued` over which `drain_events` ends the session (in `queued`, because only
`drain_events` and `basic_get` take from there); and of a ChannelError, that
the channel is open again or has one more channel.close to come. Again one
relation says what all calls have in common: a `Tidy` call on a channel loses no
channel.close that is still unanswered and touches no other channel. `basic_qos`
is `Loose`: the same, but for its own channel. Each operator of `Connection` is
shown to be one of the two, from lemmas on what `ReadOn`, `Reopened` and
`Dispatch` keep of `queued \o wire`. `FreeIdsAreFree` needs its hypothesis, as
the run does: an id asked for by number is not recorded as used.
`DeliveriesReach` follows from `IInv`: a consumer that the broker has on a
registered channel has its callback, so the first method frame is dispatched.

`RecvFrames`, `RecvProofs`, `RecvPromises`, from `RecvAssumption`, for every
number of channels, messages and parts, any depth of nested calls and any
timeouts:

| Theorem | States |
| --- | --- |
| `LinesAreKept` | `Spec => []IInv` |
| `TypesAreKept` | `Spec => []TypeOK` |
| `LentBodiesKept` | `Spec => LentBodyKept` |
| `PollingDoesNotBlock` | `Spec => NonBlocking` |
| `MailboxRefinement` | `Spec => ImplementsMailbox` |

The idea is that of a line. Wherever the frames of a channel are - sent, in the
socket, in the buffer, put aside - they form one sequence in the order sent; a
wait that skips other channels' frames, or puts them aside, changes where they
are and not their line. `IInv` says that the frames of a line are frames of the
messages they name (`FramesValid`), that older ones precede newer ones
(`FramesInOrder`), and that the line has no gap: each frame is followed by the
next of its message, unless the link is lost and it is the end of the line
(`Gapless`). The call that is putting a message together has read a beginning
of it (`ReadSoFar`), and the line of its channel begins with the frame it
expects (`LineExpected`), which is why nothing is mixed or skipped; a content
is in a line only behind its basic.deliver or for that call
(`ContentAnnounced`), which is why nothing is handed over twice.
`RepliesAwaited` and `CallsNested` tie the answers in the lines to the stack:
only the innermost call waits. `RecvFrames` says what each way of moving frames
does to lines (arriving: nothing; taking: the first is gone; sending: more at
the end; the link lost: an end cut off), `RecvProofs` combines that with the
calls, one lemma for each action.

In the refinement, a basic.deliver that is sent is `Send`; the last part that
is read is `HandOver`, and the message handed over is whole because `ReadSoFar`
counts its parts, and the oldest of its box because the line begins with it;
the link going down is `LinkLost`, and the ends cut off are the newest
messages; every way of closing, that of a delivery with an empty body included,
is `Close`; everything else, reading a basic.deliver included (it moves from
`Announced` to `Reading`), is a stutter. `NonBlocking` uses `ContentAnnounced`
too: content that `drain_events` meets while it waits for a method, with no
delivery before it in its line, is not that of a delivery.

`PyObjectArrayProofs`, from `PyObjectArrayAssumption` (blocks have room for at
least one entry), for every block size and every set of references:

| Theorem | States |
| --- | --- |
| `OwnedOnceHolds` | `ArraySpec => []OwnedOnce` |
| `XDECREFReleasesAll` | `ArraySpec => [][ReleasesAll]_arrayVars` |

A second `XDECREF` is harmless because the first has emptied the chain, and an
entry lands in exactly one place: in the first block with room, or in a new one.
`OwnedOnce` counts places, which is nothing to induct on; `ArrayInv` says that
all blocks but the last are full (so that the walk ends at the last), that no
two places hold one reference, and that a reference counts 1 if it has a place
and 0 if not. `AddedPlaces`, which says what `Added` does to the places of every
reference, is the lemma it rests on.

`MethodCallProofs`, from `MethodCallAssumption` (arguments are trees that are
dicts, and the empty dict is one; what others send are trees that are tables)
and `AMQTableAssumption` (32 bits are no more than a long, and no string is both
encodable and not), for every size and depth of dicts and tables, every width
of the integers, every number of properties and temporaries, and every block
size:

| Theorem | States |
| --- | --- |
| `CallInvariant` | `CallSpec => []CallInv` |
| `TypeCorrect` | `CallSpec => []TypeOK` |
| `NothingKept` | `CallSpec => []ReleasedAtReturn` |
| `TemporariesOwned` | `CallSpec => []OwnedOnce` |
| `FailuresShow` | `CallSpec => []FailureReported` |
| `PropertiesReturned` | `CallSpec => []PropertiesGivenBack` |
| `ArgumentsArrive` | `CallSpec => []SentAsGiven` |
| `NullsStayInLists` | `CallSpec => []NullOnlyInLists` |
| `CallerObjectsKept` | `CallSpec => []CallerBalance` |
| `SentFromHeldMemory` | `CallSpec => SentWhileHeld` |
| `CallImplementsArray` | `CallSpec => ArraySpec` |

That nothing is held at the return depends on what was held at every step
before. `CallInv` adds to `ArrayInv` where in a call temporaries can still be
waiting (`CallTypes`), that each one taken counts 1 until the call leaves by
its reply or by `bail`, and 0 after (`Temporaries`), that a call which goes on
has no exception set unless it is `connect` (`Outcome`), and who holds the
properties (`PropertiesHeld`). `bail` releases again what the normal way has
released, which `XDECREFReleasesAll` shows to be harmless. The refinement is
the identity on the chain: a step of a call is one `AddEntry`, one `XDECREF`, or
leaves the chain alone.

What the conversion computes needs no induction over trees, because the walk is
a state machine: its invariant, `TableInv`, says it of the part that has been
done. Each loop in progress is at a dict or list of the argument (`Cursor`); a
field that has been made is that of the value at its place, and that value did
not end its loop (`FieldsMade`); what a loop has passed has its field
(`Earlier`), and a field is in a table or array that is made or being made
(`Attached`); an iterator that has not been released is of a list in which
nothing has failed yet (`Iterators`), and a text released too often is in a list
with an unsupported value further on (`Released`). `Whole` is what is true only
of calls without fault: if there is no exception, and every value is one that
survives, then each member of what has been made has been made. The seven actions fall
into three kinds - a loop makes a field, a loop returns, a loop begins - with one
lemma for each kind and part of the invariant; the lemmas on `LoopAt` say what
they do to the stack. At the end no loop is in progress, and with `Whole` every
value has its field (`AllMade`): of those without one, one of least depth would
be in a dict or list that has its. `Temporaries` says that the memory the fields
point to is still the call's when it sends, so each is read as it was made
(`WireIs`), and what is read is then the value (`ReadsAsGiven`).

`GilThreadsProofs`, from `GilAssumption`, for every number of threads and
handles:

| Theorem | States |
| --- | --- |
| `Invariant` | `Spec => []Inv` |
| `TypeCorrect` | `Spec => []TypeOK` |
| `ConnectedIsAliveHolds` | `Spec => []ConnectedIsAlive` |
| `DestroyedOnceHolds` | `Spec => []DestroyedOnce` |
| `HandlesAccountedHolds` | `Spec => []HandlesAccounted` |

None of the three is inductive: that `connected` means a live handle follows from
what `LoggedIn` finds, and so from what the thread before it did with `conn`.
`Inv` says that, while nothing has overlapped, at most one thread is in `connect`
or `close` and then `connected` is clear (`Single`), that the handle of a thread
that is to log in or to destroy is alive and is `conn`, and that a connection
which is neither connected nor in anyone's hands has nothing of `conn` left to
lose (`Gone`). Each action is then a lemma.

Only model-checked: `EventuallyHandedOver`, which is liveness under fairness,
and the runs that expect a violation, which are about one behaviour each. Every
other property that a run checks is proved.

## What is not modelled, and why

- Two threads inside rabbitmq-c on one handle: the library does not allow it,
  and the code does not prevent it. `GilThreads` has the threads there together
  and says nothing of what the library makes of it. References counted without
  the GIL (`connection.c` 1704, 1814, 2100, 2352) and the conversion of
  `client_properties` without it (1171) race with the interpreter, not with
  this program's state.
- The UnicodeDecodeError that a failed decoding leaves set (609, 681), which is
  seen, or not, in whatever the program does next.
- Values: names of consumers that cannot be encoded (no consumer has one); in
  tables, keys that are not ASCII (which end the process, 284), one
  string both as a text key and as a bytes key of a dict, and
  floats other than -1.0 and one more; of properties, those that are numbers; of
  bodies, all but their frames. Memory that cannot be allocated.
- Time: a poll ends when there is something to read or, while there is not, at
  any moment. Negative timeouts other than the code's own -1 are not used.
  `_close` and the login return at once, although a broker that does not answer
  could keep them waiting.
- In `Recv`, channels that are closed, consumers that are not known and RPCs
  that fail without the link: `Connection` and `Channels` have those.
- References of the objects that a received message is made into: a `basic_get`
  that fails in recv releases `delivery_info` once more than it holds it (2382).
- What the interpreter does with an exception raised by a callback (1348),
  which is left set while `_basic_recv` returns None; and with a callback whose
  last reference `basic_cancel` drops while it runs (1323).
- `no_ack_consumers`, which is written and never read; `frame_max` and
  `heartbeat`, which are passed on; `server_properties`.
- Module initialisation and object allocation, which run once before anything
  else, and deallocation, which runs after the last use and closes and destroys
  nothing: a connection dropped while open leaks its handle and socket.
- Ids taken in an earlier session, or while disconnected, stay in
  `_used_channel_ids`. `NoIdLeak` leaves them out on purpose: the code never
  gives them back, and nothing in the repository says it would.

## Plan

What is left, in order of weight:

1. A composition of `Recv` and `Channels`, for which the state space would have
   to be cut first: messages by frames times consumers times ids.
2. Callbacks that raise (1348) and that lose their last reference while they
   run (1323), which need the interpreter's references in `Recv`.
