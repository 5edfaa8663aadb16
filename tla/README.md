# A TLA+ development of spectrum_service_hardware

`spectrum_service_hardware` is a C++ library that drives a controller board (the *MCB*) and
its keyboard from a host: a transport (TCP or serial) carries framed commands, a protocol
object builds and parses the frames, receivers wait for or dispatch the replies, and a
controller offers the board's operations to an application. This directory holds TLA+
modules that model it, TLC configurations that check them on small instances, and proofs for
TLAPS of what matters most for every value of the constants. Paths below are relative to
`src/`.

Contents: 1 inventory, 2 plan, 3 modules, 4 runs, 5 bounds, 6 fairness, 7 proofs,
8 what the checks found, 9 what is not modelled, 10 how to run it.

## 1. Inventory: the system's parts and how they interact

| part | state it keeps | operations | talks to |
|---|---|---|---|
| TCP transport (`libraries/transport/network`) | `sockfd_`, `status_`, `running_`, `read_thread_`, `receive_callback_` | connect, disconnect, send, subscribe, receive, get_status, destructor; the reader thread's `read_loop` | the kernel's sockets; calls the subscribed callback from the reader thread |
| Serial transports (`libraries/transport/serial`: serial, RS232, RS485) | `fd_`, `status_`, a callback nothing calls | connect, disconnect, send, subscribe, destructor | the tty driver |
| MCB protocol (`libraries/protocols`) | none | buildFrame, parseFrame, subscribe | a transport |
| Frame awaiters, controllers (`libraries/receiver/mcb`, `libraries/controller`) | pointers to the above | waitForFrame, sendCommand, connect, disconnect, the factory | protocol, transport |
| Commands (`libraries/command`, 33 classes) | the arguments of one command | constructor, execute, run | `sendCommand` |
| Push receivers (`mcb_receiver.cpp`, `keyboard_receiver.cpp`) | two or three handlers, a subscription that is never given up | constructor, setters, destructor, dispatch | protocol, from the reader thread |
| Stream reassembly (in four programs of `tests/`, six copies) | a static buffer | append a chunk, cut frames from it | the subscribed callback |
| Logger, translator (`utils`) | a log file; none | log; names of keys | the file system |
| `conan_env` | | | a Python environment that was checked in; third-party |

One command goes: application thread -> command -> `ProtocolController::sendCommand` ->
`buildFrame` -> `TCPTransport::send` -> board; then `MCBFrameAwaiter::waitForFrame` ->
`TCPTransport::receive` (one byte at a time up to ETX) -> `parseFrame` -> the command's
decoder. Meanwhile the reader thread of the same `TCPTransport` calls `recv` on the same
socket and hands what it gets to the subscribed callback, or drops it.

What is hard about each part, and what makes it correct:

| part | hard behaviour | correct when |
|---|---|---|
| TCP transport | two threads share plain members without a lock; the reader closes the socket on its own; 500 ms of silence counts as a loss; `disconnect()` returns early after one; `std::thread` may throw after `status_ = Connected` | a transport that says Connected has a live socket and a reader; the reader never reads a foreign descriptor; each descriptor is closed once; calls return where no callback is kept busy by the peer; a loss is noticed |
| Serial | descriptors are shared by the process and reused at once; a failed configuration leaves the port open | a connected port is open, configured and the object's own; no other object's port is closed; what is forgotten is known |
| Protocol | nothing is escaped; length and indices come from the line; the length byte wraps; `toMCBCommand` knows six commands | the parser reads inside its buffer; a known frame survives the round trip; a damaged one is not taken for another |
| Exchange | two threads read one socket; frames carry no request number; late and cut replies | a call returns a whole reply of this session, in order and once, or fails, and what a cut frame leaves behind is told from a reply; every call ends |
| Commands | bit, byte and field order; empty replies that mean something; a write that threw and is carried out later | a setting changes to what it was given and no other does; what is read is what the board said |
| Receivers | requests made on the reader thread; a bare `this` in a callback that outlives it; handlers changed by another thread; last subscriber wins | the last receiver is served, whole, and no destroyed one; the transport below keeps its promises |
| Reassembly | pieces of any size; state kept between callbacks; resynchronisation after a bad frame; a length byte that may be wrong or missing | what is cut does not depend on the pieces; a clean stream is handed on whole; noise costs only what a false STX swallows or holds up |

`PROJECT.json` lists every hazard with its line and the properties that catch it.

## 2. Plan

Done, in this order:

1. `TcpSession`, `TcpTransport`: the threads and descriptors everything else rests on.
2. `McbProtocol`, `McbLink`: frames, byte by byte.
3. `CommandService`, `Exchange`: a command and its reply through all layers.
4. `SerialTransport`.
5. `BoardControl`, `Commands`: what 33 commands do to the board and make of its replies.
6. `TcpTransportProofs`, `McbLinkProofs`, `SerialTransportProofs`, `CommandsProofs`.
7. `FrameScanner`, `Reassembly`, `ReassemblyProofs`: the loop of `tests/teste_read_mcb.cpp:37-74`,
   `tests/teste_esteira.cpp:53-81`, `tests/test_mcb_status.cpp:36-88` and
   `tests/test_all_commands.cpp:36-88`.
8. `Receivers`, `ReceiversProofs`: push dispatch on the reader thread, on top of all of
   `TcpTransport`. Its run has taken over the liveness and refinement properties that
   `TcpTransport` had a run of its own for: a transport whose callbacks do nothing is one of the
   behaviours of a transport with receivers.
9. `McbProtocolProofs` (lemmas on the frames that two modules of proofs need), `ExchangeProofs`, and
   in `CommandsProofs` the types and the refinement of `BoardControl`.

Every safety property of a passing run is a theorem, and so is every refinement; the abstract
specifications claim safety only. Left: the hazards `PROJECT.json` lists without a property (those of
`send()` under two threads, a serial port unplugged, programs that subscribe while connected), which
need steps `TcpTransport` and `SerialTransport` do not split, or which the code gets wrong in a way
no document speaks of.

## 3. Modules

| module | models | composed of |
|---|---|---|
| `TcpSession` | abstract: closed, up, closing, lost, released, aborted | |
| `TcpTransport` | `tcp_transport.cpp`, both threads | implements `TcpSession` |
| `McbProtocol` | `mcb_keyboard_protocol.cpp`, `receive()`'s cut at ETX, as operators | |
| `McbLink` | one frame over a line that may damage a byte | `McbProtocol` |
| `CommandService` | abstract: what `sendCommand` promises | |
| `Exchange` | `sendCommand`, `waitForFrame`, `receive()`, the reader as a rival, the board | `McbProtocol`, the session states of `TcpSession`; implements `CommandService` |
| `SerialTransport` | the three serial classes, over one descriptor table | |
| `BoardControl` | abstract: a set of settings, changed and read | |
| `Commands` | the 33 command classes | rests on `CommandService`'s promise; implements `BoardControl` |
| `FrameScanner` | abstract: frames taken from a stream read from its beginning | `McbProtocol`'s constants |
| `Reassembly` | the callback of the test programs | implements `FrameScanner` |
| `Receivers` | `mcb_receiver.cpp`, `keyboard_receiver.cpp` on a transport | extends `TcpTransport` and implements `TcpSession`; that its steps are the transport's is a theorem |
| `MC...` | TLC instances | the module named |
| `...Proofs` | theorems | the module named |

### TcpTransport

The members are `status`, `running`, `sockfd`, `joinable`, `callback`; `opc` and `rpc` say
where the owner and the reader are. The members are plain and unsynchronised, so every access
of one is a step, in program order. (The accesses race: the C++ standard gives such a program
no meaning. The model takes what a build makes of it in which accesses to an aligned word are
not torn and not reordered. The `std::function` is not a word: it is `torn` while it is being
assigned, and a reader that looks at it then may crash, `badcall`.)

| code | actions |
|---|---|
| `connect()` | `ConnectBegin`, `ConnectSocket`, `ConnectCheck`, `ConnectAnnounce`, `ConnectDial`, `ConnectUndo`, `ConnectClear`, `ConnectFail`, `ConnectPublish`, `ConnectArm`, `ConnectSpawn`, `ConnectSpawnFails` |
| `disconnect()`, `~Impl` | `DisconnectBegin`, `DestroyBegin`, `DisconnectStop`, `DisconnectJoin`, `DisconnectClose`, `DisconnectClear`, `DisconnectDone`, `Free` |
| `send()` | `SendBegin`, `SendCheckFd`, `SendWrite` (one `::send` of part of the frame at a time, SIGPIPE included) |
| `subscribe()`, `receive()` | `SubscribeBegin`, `SubscribeEnd`, `ReceiveBegin`, `ReceiveByte` |
| `read_loop()` | `ReaderTest` ... `ReaderMark` |
| the peer (external) | `PeerCloses`, `PeerResets` |

`ReaderCallbackTransfers` is what a callback that sends or receives can do to the connection: raise
SIGPIPE, or be told of a reset before the loop is. `ReaderLoop` is the rest of `read_loop()`.

Assigning over, or destroying, a joinable `std::thread` ends in `proc = "terminated"`. Sockets
are numbers never used twice, so that closing or reading the wrong one shows. `redialed` and
`misclosed` are history. The map of the state to `TcpSession` is the operator `session`.

### McbProtocol, McbLink

`buildFrame`, `calculateChecksum`, `toMCBCommand`, `parseFrame` and `receive` are operators on
sequences of bytes; the length byte and the sums are modulo 256 as `uint8_t` makes them.
`parseFrame` is split as the code is: `Delimited`, `SizeAgrees`, then the checksum over the
*mapped* command, which is 0xFF for every byte but six. `McbLink` sends one frame, lets the
line change one byte to any other, and reads and parses what arrives. `DamageIsDetected` says what
the checksum is worth: a changed byte goes unnoticed only if it is the length byte, which the sum
does not cover, and the frame has an inner ETX behind a payload byte that is the checksum of what is
before it (`ShortenedTo`); then a front of the payload is accepted.

### Exchange

The state is the connection (`session`, `hasFd`), the kernel's buffer (`wire`), what the board
has still to send, the requests it has not looked at, and where the application is in
`sendCommand()` (`pc`, `chunk`). `ReceiveByte` is one `recv` of one byte; `ReceiveFails` is
`SO_RCVTIMEO`. `ReaderTakes` is `read_loop()` winning the race for the bytes, `ReaderLoses` and
`ReaderCloses` its end. Only successful `connect()` and `disconnect()` are here;
`TcpTransport` has the others and shows that a lost session is never opened again, which is why
`Connect` starts from `closed`. The board (external) answers a request once, in order, may leave
requests out, and may send a reply in pieces, late. Each byte on its way carries tags that the
program does not see, the reply it is of and its place in the frame (`Tagged`, `Values`), so that the
properties can tell which reply a call returned; what `parseFrame()` looks at are the values.

A call that gives up may leave the rest of a frame to the next one. `cut` is the reply that was cut so.
If there is an STX in that rest, it may hold a frame: `parseFrame()` accepts it, and `sendCommand()`
returns it. Nothing in the code excludes this, so `CommandService` says it: behind a cut reply a call
may return one of the frames `Hidden` in it, and nothing else, and only until a later reply was
returned, or a call gave up elsewhere.

### SerialTransport

A set of objects, each with its thread, over one descriptor table. `::open` takes the lowest
free number, as POSIX says, and a number is free as soon as it is closed. `connect()` is
`ConnectAlready`, `ConnectOpens` or `ConnectFails`, then `ConnectConfigures` or
`ConnectCannotConfigure`; `disconnect()` and the destructor are `DisconnectBegin`,
`DisconnectReset`, `DisconnectMarks`; `send()` is one `::write`. The three classes are the same
but for their log messages, so one model is all three. None of them starts a thread or calls the
callback that `subscribe()` stores. None overrides `ITransport::receive()`, which is pure, so at
this commit they are abstract and nothing can construct one; CMake does not compile them. The
model is of the classes as they would be once given a `receive()`.

### Commands

A call is `Ask` (constructor, its checks, `execute()`'s request), then the reply taken by the
command's own action (`ReadFirmware`, `ReadStatus`, ... or `WriteReturns` for those that write),
or `CallThrows`. Each command's checks of its arguments, its payload, the least length of a
reply and its decoding are in its action. `Reopen` is a disconnect and a connect. The board
(external) keeps a value for each setting, carries requests out in their order, may ignore
some, and may change some settings by itself.

Three facts about the code at this commit shape this module:

- Commands other than `READ_FIRMWARE` call `sendCommand` on an `IProtocol`, which has none;
  CMake compiles `read_firmware_command.cpp` only. They are modelled as if their call reached
  `ProtocolController::sendCommand`, which has the parameters they pass.
- By section 8, most of their replies would be rejected or cut by the framing. So `Commands`
  takes the framing as a service that may spoil any reply (`Unreadable`, once or twice), and
  shows what holds of the replies that get through.
- Bytes the reader thread takes are in `Exchange` and not here: once it took some, nothing is
  promised of the session.

`Values(code)` is the set of values the board can tell of a setting: what the bytes of a reply can
say, bits, octets or words. `CommandsAssumption` demands that the settings begin with such values,
and the commands' arguments are of the types of the constructors' parameters.

A date is eight numbers; the year is a `uint16_t` that `WRITE_DATA_HORA` cuts to a byte without the
check other commands make. `Kept` of `BoardControl` says so: a clock set to 2025 holds 233.

### Reassembly

`stream` is all the connection carried, `heard` how much of it `recv()` has returned, `buffer` the
static buffer. `Deliver` is the call of the callback with a piece of any size; then each way through
the body of the loop is an action: `LoopEnds`, `DropAll`, `SkipToStx`, `AwaitRest`, `DropByte`,
`CutFrame`. Five of the six copies look at the size again after `SkipToStx`; that of
`teste_esteira.cpp` does not, and may read the length byte beyond the end of the buffer, which is a
choice of any byte (`LengthsRead`; `rechecks` says which copy it is). Whatever it reads there,
one byte is less than any frame, so that the copy only waits: `ImplementsScanner` holds of it.
The bytes of a false frame and of an intact one are told apart by history: `intact` and `taken` are
places in the stream, `passed` is how many bytes were erased.

`FrameScanner` knows nothing of pieces: it reads the stream from its beginning, and what it takes is
a function of the stream.

### Receivers

The state is which receivers exist, which one the transport's callback points to, which have a
handler, and where the reader is in `dispatch()`. The constructor is `ConstructBegin` and
`ConstructEnd` around the transport's own `subscribe()`; `SetHandler` and `Destroy` are one step.
`EnterCallback`, `DispatchAsks`, `DispatchSends`, `DispatchReceives`, `DispatchNotifies` and
`LeaveCallback` are the reader's way through `dispatch()`, each on the shared members as they are at
that moment. `DispatchReadsOn` is the way through `receive()` that reads a byte other than ETX and
goes on: a peer that keeps sending such bytes keeps the reader there (section 6). The classes differ in the commands they dispatch on, so one handler stands for two or
three, and whether a chunk begins with a command of the class is a choice. (A whole frame never
does: it begins with an STX, which is no command. `mcb_receiver.h:18` speaks of messages; only a
chunk that happens to begin at the command byte is dispatched.)

The classes promise nothing to an application that changes them under the reader, so the
properties are about a careful one (`SubscribeWhileConnected` FALSE): it constructs, equips and
destroys receivers only while `get_status()` is not Connected, and connects only with a receiver
that exists, or none. That this is enough is not evident: `status_` changes before the reader
has ended, and a callback may be under way when it does. CMake builds both classes into
`receiver_core`, but nothing constructs one, and of the commands they call none is linked; they
are modelled as if those were, as in `Commands`.

What a dispatched request does to the calls of the application is in `Exchange`: the reader was
handed bytes before it dispatches, so that it took some of the session (`robbed`), and from then
on nothing is promised of the session's replies.

## 4. Runs

| run | distinct states | question, and answer |
|---|---|---|
| `tcp_safety` | 556,578 | Every interleaving of owner, reader and peer, `std::thread` failing or not. `ConnectedIsLive`, `ReaderOwnsItsSocket`, `ClosedExactlyOnce`, `DestroyedClean` hold. |
| `tcp_shutdown_test` | violation | Destroying a transport that lost its connection ends the process. |
| `receivers` | 198,330 | Two receivers on one transport, with requests on the reader thread, under fairness: `NobodyMisled`, `LastIsServed`, `CallbackNeverTorn` for a careful application; it implements `TcpSession` (a lost session is final); a loss is noticed (`LossIsNoticed`); calls return unless the peer keeps a request made in a callback going for ever (`CallsReturn`). |
| `mcb_noise` | 597,160 | One damaged byte, any value: the parser stays inside, damage to a known frame is detected, undamaged known frames arrive. |
| `mcb_commands_doc` | violation | Frames of 28 commands do not parse. |
| `mcb_receive_doc` | violation | `receive()` cuts a frame at an inner 0x03. |
| `exch_service` | 502,230 | Calls, late and cut replies, one with a frame hidden in it, the rival reader: implements `CommandService`, and every call ends (`EveryCallEnds`). |
| `exch_genuine_doc` | violation | A payload is returned that the board never sent. |
| `exch_own_doc` | violation | The late reply to one call is returned by the next. |
| `serial_safety` | 19,269 | Two ports on one descriptor table: a connected port is configured and its own; only a retry forgets a descriptor. |
| `reassembly` | 608,461 | Two frames and five stray bytes in any order and any pieces: implements `FrameScanner`, a clean stream is cut into its frames, `IntactFramesArrive`, and the loop ends. |
| `commands` | 1,013,229 | All 33 commands: implements `BoardControl`, `InStep`. |

Every property of a passing run has a broken variant of a definition of the model (a name with
a suffix, such as `ReaderNotice_Silent`) under which TLC finds it violated; `PROJECT.json` lists
them under "mutants".

Deadlock is checked for the transports, the receivers and the link, where `Rest`, `SysRest` and
`Done` say what the ends are. It is not for `Exchange`, `Commands` and `Reassembly`: calls, sessions
and bytes are bounded and the board may be off, so that they really stop.

## 5. Bounds

- `MaxSocks` = 3: a first connection, a second (after an orderly end, or over a lost one) and an
  attempt that fails. The proofs hold for any number.
- `FrameUnits` = 2: a frame written in two pieces, so that the reader acts between them.
- `receivers` has 2 sockets, one-piece frames, no failing `std::thread`: liveness costs more, and one
  reconnection is what its properties talk of; two receivers, so that one may replace the other. A
  `std::thread` that fails to start lets an application survive a reconnect over a lost reader,
  which `TcpSession` does not allow; `tcp_safety` covers it. The proofs of `ReceiversProofs` hold for
  any number of receivers and sockets.
- `reassembly`: a frame of the least size and one with an ETX and an STX in its payload, two in all,
  so that one may swallow or follow another; five stray bytes out of an STX and the least length
  byte, enough for a false frame that ends inside, at the end of or behind an intact one, and for
  the five bytes without an STX that are all dropped. The proofs hold for any.
- `McbLink`: two known commands, three others (UNKNOWN's neighbour among them), every payload of
  up to two bytes out of {0, 2, 3, 255} (both delimiters, and both ends of the range), every
  noise byte. What depends on longer payloads, the wrap of the length byte, is in the proofs:
  they hold for every payload of at most 254 bytes.
- `Exchange`: 2 calls and 2 sessions, enough for a late reply to meet the next call, and the next
  session; one reply of two payload bytes, whose length byte is an ETX, so that `receive()` ends inside
  its frame, and one of five in whose frame another is hidden, so that a call that gave up inside it
  leaves that to the next. `MaxTakes` bounds how often the reader takes bytes of a session: once for
  `exch_service`, as nothing is promised after the first time, three times where the remains of two
  replies are to pass for a third. The proofs hold for any replies and any bounds.
- `SerialTransport`: two ports, three descriptors, one more than they need.
- `Commands`: 2 calls, enough for one call's late reply or late execution to meet the next, of
  whatever other command; one change by the board itself; one port address; octets {0, 1, 200},
  words 258 and 16001 (the buzzer's limit is 16000; both have two different bytes), one date
  with all fields different and one with a year of two bytes. A spoiled reply leaves at most two pieces.

## 6. Fairness

`Receivers`: weak fairness of the reader's steps (those in a callback included), of
`disconnect()`'s and of `connect()`'s steps while the process runs. Both threads are scheduled;
`SO_RCVTIMEO` (set in `connect()`) bounds each `recv` of the reader; `::connect` ends by the kernel's
timeout; `onReceive()` is assumed to return. Two things are not assumed, because the code does not
give them:

- that a `::send` made in a callback comes back while the peer is there and takes nothing
  (`MayBlock` takes that step out of the fairness);
- that `receive()` comes back. `SO_RCVTIMEO` bounds one `recv` and not the loop around it, so a line
  that brings a byte other than ETX every 499 ms keeps it there. In the model the reader is then
  fair and goes round `DispatchReadsOn` for ever.

Either keeps `disconnect()` in its join for ever. `CallsReturn` says that they are the only ways:
calls return, or the peer keeps a request of a callback going for ever (`KeptBusy`). Once the
connection is lost neither is possible, so `LossIsNoticed` has no such exception. Nothing is assumed of
the application's calls or of the peer.

`TcpTransport` alone has no fairness: its properties are safety, and its liveness is checked
under `Receivers`, where a transport without receivers is one of the behaviours.

`Reassembly`: weak fairness of the callback's steps: the thread it runs on is scheduled.

`Exchange`: weak fairness of the step of a call in progress: each `recv` ends with a byte or
by `SO_RCVTIMEO`. Nothing is assumed of the board or of the reader. As the board answers a request
once, the bytes that can keep a call in `receive()` come to an end, and `EveryCallEnds` holds.

`SerialTransport`, `McbLink` and `Commands` claim safety only and have no fairness.

## 7. Proofs

All proofs are checked by TLAPS to the last leaf. They assume what the modules' `ASSUME`s say:
bounds are naturals (`BoundsAssumption`, `DescriptorsAssumption`), bytes are bytes
(`LinkAssumption`), the frames of a stream are framed (`StreamAssumption`), `Nobody` is no object and
no receiver (`NobodyAssumption`, `ListenersAssumption`), replies are bytes that fit a frame
(`ExchangeAssumption`), and values are of their kinds
(`CommandsAssumption`).

**TcpTransportProofs**, for any `MaxSocks` and `FrameUnits`. `ConnectedIsLive` is not inductive:
it says nothing of the owner inside a call. `IInv` is `TypeOK /\ ThreadInv /\ SocketInv`.
`ThreadInv` says, for each pair of places of the two threads, what `status_`, `running_` and
`sockfd_` hold: while the reader loops the status is Connected and nobody else changes the
connection (`LoopInv`); once it has left its loop the status says so, or the owner is about to
join it (`LeftInv`); without a reader the owner alone decides what `sockfd_` is
(`NoReaderInv`); a `connect()` with a reader alive is a `redialed` one. `SocketInv` says which socket is open at each point of the two closing
sequences, while nobody redialed. Theorems: `TypeCorrect`, `Invariance`, `ConnectedMeansLive`,
`ReaderReadsItsSocket`, `SocketsClosedOnce`, `DestructionIsClean`, `CallbackIsSafe` (from
`IInv` and `CallbackStep`: the reader's last look at the callback is before the status changes)
and `SessionRefined` (`ImplementsSession`, by cases on the actions).

**McbProtocolProofs** is about the operators, for every buffer and every payload of at most 254 bytes.
`FrameShape` says where `buildFrame` puts what; `ReceiveShape`, `PieceShape` and `WholeWhenTransparent`
say what `receive()` returns. The checksum is a recursive function. The library's induction theorems
cannot be instantiated here, so what is true of all partial sums is shown by the least natural at
which it would fail (`LeastNatural`, from the well-foundedness of `<` on the naturals): that the
function exists and satisfies its equation (`SumExists`, `SumEquation`), is a natural
(`SumIsNatural`), and that one changed term changes the sum by as much (`SumOfChanged`). As two
different bytes differ modulo 256, this gives `DamagedFrame`. Theorems: `RoundTrip`, `DamagedFrame`.

**McbLinkProofs** carries them along the behaviours of the link by `LinkInv`. Theorems:
`ParserReadsInside`, `ParseIsSafe`, `KnownFramesGoThrough`, `DamageDoesNotPass`.

**ExchangeProofs**, for any number of calls, sessions and takes and any replies. That a call returns a
whole reply says nothing of the bytes still under way. As long as the reader took nothing, those in
`chunk`, in the kernel and at the board, put together (`Flow`), are `Ordered`: each byte is followed by
the next of its frame, or is the last of it and followed by the first byte of a frame of a later reply.
And they are `Later` than what was returned: the first of them begins a frame to a later request than
that of `given` and than the reply in `cut`, or lies in the middle of the frame of that reply.
`IInv` is `TypeOK` with this (`InOrder`), with what `chunk` looks like at each place of the call
(`InCall`), and with the requests that may still be answered being later than every reply
(`Answers`). Each action takes bytes from one end, adds a whole frame at the other, or moves
some from one part to the next, which leaves `Flow` as it is (`FlowMoves`). What is parsed ends at its
first ETX, so that it lies in one frame (`OneFrame`): if it begins with the first byte of that,
it is all of it, as the length byte says so; if not, it is one of those in `Hidden` (`PieceOfFrame`,
`FrontGiven`). Theorems: `ExchangeTypes`, `ServiceRefined`.

**SerialTransportProofs**, for any set of objects and number of descriptors. `SerialInv` adds to
the properties, for each object and place, what the table says of its descriptor; the steps of
one object are shown to leave what another one knows alone (`OthersRest`, `OtherStep`).
Theorems: `SerialInvariance`, `SerialTypeCorrect`, `ConnectedPortIsOwn`, `DescriptorIsOwn`,
`ForgottenOneWay`.

**CommandsProofs**, for any calls, board and values. `InStep` alone is not inductive: that the
queue holds at most one request of the session needs that requests are numbered in order
(`Growing`, `Counted`), and that at most one whole reply waits (`Alone`). The 33 commands are
reduced to two shapes (`AskShape`, `ReadsShape`, `WritesShape`). Theorems:
`CommandsInvariance`, `StaysInStep`.

That the settings and what is read are right needs to know what a reply says. `VInv` is: every
setting holds a value the board can tell of it (`BoardRight`), every request is one some command
makes for a setting it names (`AllProper`), a reply to the call in progress tells a value of that
call's setting, byte by byte (`RepliesRight`), and a request that still waits has no reply yet
(`Unanswered`). Without the last one a request could be carried out a second time behind the reply
that was taken for it. Each decoder is shown to undo what the board tells (a bit, two bytes of a
word, a field), and each encoder to be undone by what the board obeys. Theorems: `ValuesInvariance`,
`CommandsTypes`, `ControlImplemented` (all of `ImplementsControl`, which has no liveness).

**ReassemblyProofs**, for any frames, noise and pieces. `CallbackInv` says that the buffer is a window
on the stream, from the bytes passed to those heard, and what is known of its front where the
callback is; each way through the loop is then a step of `FrameScanner` or none (`CallbackShape`).
Theorems: `BufferInvariance`, `LeavesLessThanAFrame`, `ScannerRefined` (all of
`ImplementsScanner`, which has no liveness). For what becomes of intact frames `IInv` adds that
they lie apart (`Apart`), that every one whose first byte was passed was taken or swallowed
(`PassedTaken`), and that without noise they fill the stream and the scanner is always between two
of them (`Filled`). Theorems: `Invariance`, `TypeCorrect`, `Resynchronises`, `CleanStreamsAreCut`.

**ReceiversProofs**, for any receivers and sockets. `SysStepIsAStep`: every step of the composition
is one of the transport or none, so that `TransportRefined` and with it all that is proved of the
transport holds here; `CallbackIsSafeUnderReceivers` and `SessionRefinedUnderReceivers` are two such. `SysInv` adds to the transport's
invariant that a callback that is set points to a receiver (`Subscribed`), and that with a
careful application, while the reader loops or `connect()` is about to start it, the callback points
to a receiver that exists, and the handler under way is there (`Careful`). It needs the transport's
`LoopInv`: a reader in its loop means Connected, so that a careful application is not `Quiet`.
Theorems: `ReceiversInvariance`, `SysTypeCorrect`, `NobodyIsMisled`, `TheLastIsServed`.

Only model-checked: liveness, which is beyond the prover, as ENABLED is: `CallsReturn`, `LossIsNoticed`,
`CallbackReturns` and `EveryCallEnds`. The bounds on calls, sessions and changes stand for counters the
code does not have.

## 8. What the checks found

1. `tcp_transport.cpp:84`: `disconnect()` returns early when the status is Disconnected or
   Error, also when a reader has just set it; the header (`tcp_transport.h:28`) says it ends the
   reader thread. So the destructor destroys a joinable thread after a lost connection, and a
   lost connection is what 500 ms of silence is. The process is terminated where
   `tests/mcb_testArray.cpp` expects to return 0. (`tcp_shutdown_test`)
2. `mcb_keyboard_protocol.cpp:125`: `toMCBCommand()` knows six of the commands, and replies to
   the others fail their checksum. (`mcb_commands_doc`)
3. `tcp_transport.cpp:145`: `receive()` ends at the first 0x03, and the length byte of every
   reply with two payload bytes is 0x03. (`mcb_receive_doc`)
4. `tcp_transport.cpp:159`: the reader thread takes bytes from `receive()`, and what is left of
   two replies can pass for a third. (`exch_genuine_doc`)
5. `protocol_controller.cpp:21`: nothing ties a reply to a request; after a timeout the next
   call gets the late reply. (`exch_own_doc`)

Four more weaknesses contradict no document, and the properties name them as exceptions: a trickle of
bytes keeps a callback, and with it `disconnect()`, for ever (`KeptBusy` in `CallsReturn`); a frame
hidden in the rest of a cut reply is taken for a reply (`Hidden` in `CommandService`); a second
`connect()` of a serial port whose configuration failed forgets its descriptor
(`ForgottenOnlyByRetry`); a year above 255 is set as its low byte (`Cut` in `Commands`).

## 9. What is not modelled

- What the test programs do besides: their menus call `send()`, their decoders are in headers the
  repository no longer has, and the detached thread of `tests/test_mcb_status.cpp:134` uses locals of
  `main()` after its end. With two threads in `send()` a frame could get the other's bytes in its
  middle; in the library one thread sends, and `dispatch()` sends frames of five or six bytes.
- The logger (output only), the translator (wording), `main()`, `conan_env`.
- `subscribe()` of the serial transports (stores a callback that nothing calls) and `receive()`
  of them (not overridden).
- A callback that calls `disconnect()`: it would join its own thread, and `std::thread::join` throws.
  No callback of this repository does so; those of `Receivers` send and receive.
- A descriptor number reused by another part of the process between the check and the use of
  `sockfd_` in `send()`: sockets have unique numbers in `TcpTransport`.

## 10. Running it

    tlc -workers 4 -config TcpTransport_safety.cfg MCTcpTransport
    tlapm TcpTransportProofs.tla

and likewise for the other configurations (the prefix of a `.cfg` names its module) and proofs.
