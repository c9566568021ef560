# userver-modbus in TLA+

Models, model checks and proofs of the Modbus client of this repository: an
asynchronous Modbus client for the userver framework that sends RTU frames in
UDP datagrams. Every definition is translated from the code under `src/`;
`PROJECT.json` maps each one to its lines.

## The system

| component | code | state it keeps | operations |
|---|---|---|---|
| transport | `udp_client.cpp` | one unconnected datagram socket, shared by every caller of the client; slave id, timeout | `SendRawRequest`, `DrainSocket` |
| operations | `client_base.cpp` | none of its own between calls; a reference to the metrics | `ReadCoils` ... `WriteHoldingRegisters`, through `ExecuteRead`, `ExecuteWriteSingle`, `ExecuteWriteMultiple`, `SendPdu` |
| metrics | `client_metrics.hpp`, `ScopeMetrics` of `client_base.cpp` | two byte counters, three request counters, three counters for each of eight message types, each an atomic | constructor and destructor of the scope, `Add`, `DumpMetric`, `ResetMetric` |
| messages | `request/`, `response/`, `utils.hpp`, `coil.hpp`, `function_code.hpp`, `exception_code.hpp` | values of one message; the caller's buffer, which reading and writing advance | `Create`, `Serialize`, `Deserialize` |
| frame | `rtu_frame.hpp`, `crc.hpp` | slave id and PDU | `Create`, `Serialize`, `Deserialize`, `CalcCrc` |
| component | `client_component.cpp` | the members `metrics_`, `metrics_holder_` (the registration of their writer) and `client_`, in this order | construction from the configuration, `GetClient`, destruction in the reverse order |

How they interact: a public operation of `ClientBase` opens a `ScopeMetrics`,
creates and serializes a request message, counts the bytes, calls the virtual
`SendRawRequest`, counts the bytes that came back, reads the response message
and copies its values to the caller. `UdpClient::SendRawRequest` drains the
socket, wraps the PDU in a frame, sends it, waits for one datagram under the
same deadline and unwraps it. The statistics storage of the framework calls
`DumpMetric` from a task of its own at any moment. `ClientComponent` makes the
client, registers its metrics with that storage and hands one reference to every
component that asks.

What is hard in it:

* **A reply does not name its request.** RTU frames carry a slave id and no
  transaction number. The client relies on draining the socket before it
  sends; what arrives after the drain is taken for the answer.
* **Sharing.** `ClientComponent::GetClient` gives every caller the same object
  and there is no lock. One caller drains or receives what another waits for.
* **Time.** Sending and receiving share one deadline; the drain has none. A
  reply may arrive just after the deadline, and meet the retry.
* **Failure paths.** The drain runs outside the `try` block, so its errors
  leave as exceptions, through the destructor of `ScopeMetrics`.
* **Lifetime.** The writer of the metrics is registered before the client exists
  and refers to a member; a constructor that throws behind it runs no destructor.
* **Counters that change one at a time**, read and reset one at a time.
* **Limits**: 253 bytes of PDU, counts in one byte, 65536 addresses in 16 bits,
  buffers that end in the middle of a field.

What makes each component correct:

* transport: a call judges only datagrams that arrived after its drain; it
  returns; with quiet gaps between calls it never returns the answer of a call
  that had ended (`OnlyAfterDrain`, `EveryCallReturns`, `NeverFromEndedCall`),
  which makes it implement `RequestReply` (`PromiseKept`). `OwnReply`, that a
  caller gets the answer to its own call, is what the code does not give;
* metrics: every request is counted once in total and once for its type, and
  no reader sees counters that no execution explains (`Conserved`,
  `TypesAddUp`, `BacklogBounded`), and the bytes counted are those that the
  requests counted can have sent and received (`BytesMatchRequests`);
* operations: they are those of a memory at the other end (`MemoryKept`,
  `WriteHolds`), what they send is what the slave reads (`RequestUnderstood`),
  and a failed call leaves the caller's buffer alone (`FailureLeavesBuffer`).
  Nothing is written behind that buffer when the slave answers what it was asked
  (`BufferKept`); when it does not, only a read of registers can write there, as
  its count comes from the response (`OnlyRegistersOverrun`);
* messages: what is written is read back and nothing else is touched
  (`ReadBack`, `TailPreserved`); what is accepted is in range, is what the
  class would write, and does not depend on what follows (`AcceptedIsInRange`,
  `AcceptedIsSayable`, `LaterBytesIgnored`);
* the whole client, shared: a call that succeeds was answered by what the slave
  sent to it or to a call that looks the same, not to an older one
  (`OnlyKindred`), a caller with function codes of its own has a memory that
  others write to (`CallerHasMemory`), and what is written behind a buffer was
  the answer to a longer read by another caller (`OverrunIsKindreds`);
* component: no dump reads metrics that do not exist, nobody holds a reference
  to a client that does not, an instance that is gone or failed to start leaves
  nothing behind, and a shutdown ends (`DumpReadsMetrics`, `ReferenceIsValid`,
  `NothingLeftBehind`, `ShutdownEnds`);
* frame: an undamaged frame arrives, a damaged one is refused, and the CRC is
  the standard one (`FrameReadBack`, `DamageRefused`, `StandardCrc`).

## Modules

| module | what it models |
|---|---|
| `RequestReply` | abstract: calls begin and end once, and an answer comes from a call that had not ended when the call began |
| `Constants` | `constants.hpp` |
| `UdpClient` | the transport. `pc` is where each caller is in `SendRawRequest`; `DrainDatagram` is one round of the loop in `DrainSocket`, `DrainDone` its last round and the framing behind it, `Send`, `Recv` and `IoFails` the body of the `try` block with its handlers and the checks after it; `DrainFault` the exception the drain may throw. `sock` is the kernel's receive queue; `requests` and `replies` are datagrams in transit. A datagram is its slave id, whether its CRC matches, its size and what it carries; which call it answers is a ghost the client's guards never read |
| `UdpClientProofs` | proofs about it |
| `Wire` | big-endian reads and writes, packing of bits and registers, coil values, function and exception codes |
| `Messages` | the message classes. A result is a record with the value or the error and the rest of the buffer, as the code advances the caller's span, also on failure. The classes of requests and responses that have the same text (single writes, address with quantity) are one definition |
| `MessagesProofs` | lemmas and theorems: what each `Create` allows, what each reader returns when it accepts, and that the bytes of every message are read back |
| `Codec` | a buffer that messages are written to and read from, and that may lose its end |
| `Datagrams` | buffers built byte by byte that no `Serialize` wrote |
| `ReadersProofs` | proofs about `Codec` and `Datagrams` |
| `Execution` | what an operation of `ClientBase` computes: the request its arguments make (`Created`, `RequestPdu`), the early returns (`Refusal`), what it makes of a response (`ResponseOf`, `Accepts`, `Copied`), and whether it writes behind the caller's buffer (`Overruns`) |
| `Slave` | external: what a Modbus slave reads in a request, does and answers |
| `RemoteMemory` | abstract: the operations of one caller on a memory of four tables; a read that succeeds found what the memory held at a moment of the call, a write that succeeds took effect during it, one that fails took effect or not, by the next call at the latest |
| `ClientBase` | the eight operations of one caller: `Execute` is an operation up to `SendRawRequest` or its early return, `Answer` the rest of it when a response came back, `SendFails` when none did. Requests and responses are the bytes of `Messages`. The slave's `memory` and the network that loses and duplicates are external |
| `ClientBaseProofs` | proofs about it |
| `SharedClient` | composition: the operations of `Execution` for several callers, with `UdpClient` as the transport and one `Slave` behind it. Every step is a step of `UdpClient` together with what the operation around it does |
| `SharedClientProofs` | proofs about it |
| `ClientMetrics` | one atomic access per step: `Open`, `OpenType` (constructor of `ScopeMetrics`), `CountSent`, `CountReceived` (`SendPdu`, which add the lengths of PDUs), `CloseSuccess` or `CloseError`, `CloseType` (destructor), `DumpStep` and `ResetStep` over the counters in the order of declaration |
| `ClientMetricsProofs` | proofs about it |
| `ClientComponent` | instances of the component: `ReadConfig`, `RegisterWriter`, `MakeClient` are the constructor, `Cancelled` and `MakeFails` its exceptions; `GetClient`; `DestroyClient`, `Unregister`, `DestroyMetrics` the end of the members, after the destructor or an exception. Schema checks, users of the client, shutdown and dumps are the framework's |
| `ClientComponentProofs` | proofs about it |
| `Crc` | CRC-16 as `crc.hpp` instantiates it, with a table of 256 entries. Registers and bytes are sets of bits, so that exclusive or is `SymDiff`, and `CalcCrc` gives the number back |
| `RtuFrame` | the frame, with the CRC of `Crc` |
| `FrameChannel` | a frame in transit with bytes that may be damaged |
| `RtuFrameProofs` | proofs about CRC, frame and channel |
| `MC*` | constants for TLC and, in `MCClientMetrics`, the symmetry of the tasks |

Operators called a variant in their comment are the code with a plausible
mistake; a run that checks the property named beside them in `PROJECT.json`
fails when one takes the place of the definition below it.

## Runs

| run | shows | bounds |
|---|---|---|
| `UdpClientShared` | `OnlyAfterDrain` and, under `FairSpec`, `EveryCallReturns` with callers that never wait | 2 callers, 3 calls: two that overlap and one after either; one duplicate |
| `UdpClientQuiet` | `TypeOK`, `NeverFromEndedCall` and `PromiseKept` with callers that leave quiet gaps | 2 callers, 2 calls, one duplicate, one datagram from elsewhere: too short, damaged, wrong slave or too long; PDUs of 253 and 254 bytes; replies that fit the caller's buffer and that do not |
| `UdpClientLateReply` | **violated**: `OwnReply` when the caller does not wait | 1 caller, 2 calls |
| `ClientBaseMemory` | `MemoryKept` (implements `RemoteMemory`), `WriteHolds` and `BufferKept` with a slave that answers what it did | 13 calls at either end of the address space, across its end and the slave's memory, two of them in a row; one duplicate; one change of an input |
| `ClientBaseForged` | `TypeOK`, `RequestUnderstood`, `FailureLeavesBuffer`, `OnlyRegistersOverrun` with a slave that answers what it was not asked: other classes, cut short, wrong counts, more registers than the buffer holds, exceptions, nothing | one call with the largest quantities (2000, 1968, 125, 123), one more, and none |
| `SharedClient` | `OnlyKindred`, `OverrunIsKindreds` and `CallerHasMemory` | 3 callers, 3 calls: one reads and writes registers that another one writes with another code; two read registers of one table with the same code, at other places, one of them more than the buffer of the other one holds; a read without room for its answer, which is refused before it is sent |
| `ClientMetricsReset` | `TypeOK`, `Conserved`, `BytesMatchRequests`, `TypesAddUp` | 3 tasks, told apart only up to symmetry, 2 types, 4 requests, a reset; requests of 5 bytes, the shortest, and 252, responses of 0, 3, the shortest that is accepted, and 253 |
| `ClientMetricsDump` | `BacklogBounded` | 2 tasks, 1 type, 3 requests, a dump |
| `ClientComponent` | `DumpReadsMetrics`, `ReferenceIsValid`, `NothingLeftBehind` and, under `FairSpec`, `ShutdownEnds` | 2 instances, 2 users of one of them, 2 dumps; one configuration that works and one for each way to refuse it |
| `Codec` | `ReadBack`, `TailPreserved` | each class in the middle of its range and at its limits (2000 bits, 1968 coils, 125 and 123 registers, last addresses), two behind each other, 1, 2, 3 or 120 bytes lost |
| `Datagrams` | `AcceptedIsSayable`, `AcceptedIsInRange`, `LaterBytesIgnored` | up to 7 bytes over {0, 1, 2, 255}: enough for every fixed-size message and behind it, and a write of one coil |
| `FrameChannel` | `FrameReadBack`, `DamageRefused`, `StandardCrc` | PDUs of 0 to 254 bytes, up to two neighbouring bytes damaged at either end |

Two callers and two or three calls are enough for the transport: a datagram is
judged by one call, and what can be wrong with it concerns that call, the call
it answers and at most one that drained in between. Larger numbers are covered
by the proofs, which hold for all of them. For `ClientBase` two calls in a row
are enough for a request of the first to be served after its end: the second
begins only when nothing of the first is in transit. In `ClientBaseForged` one
call is enough, as calls share nothing but the slave. For `SharedClient` a third
caller is what lets two callers mix up their answers while a third one watches
its memory. Two instances of the component are enough for one to fail while the
other one is up and a dump holds the lock both need.

**Finding.** `UdpClientLateReply` takes the scenario of the test
`DrainStalePackets` without its `SleepFor(100ms)`: the reply to a call that
timed out arrives after the next call's drain and is returned as that call's
answer. The drain discards only what has already arrived. `UdpClientQuiet` shows
that a gap in which late replies arrive (`Quiet`) is what makes the drain
sufficient.

**Fairness.** `EveryCallReturns` and `ShutdownEnds` need it.

* `UdpClient`: `FairSpec` assumes that a caller that can take a step inside
  `SendRawRequest` eventually takes one (`WF_vars(Step(t))` for each caller):
  `RecvNoblock` does not block, and `SendAllTo` and `RecvSome` come back at their
  deadline at the latest. Nothing is assumed of the network or of new calls. The
  drain ends because the number of datagrams in a behaviour is bounded: a sender
  that never stops could keep the loop running, which the code does not prevent.
* `ClientComponent`: constructors, destructors and dumps run on
  (`WF_vars(Construct(c))`, `WF_vars(Destroy(c))`, `WF_vars(Dump)`), calls return
  (`WF_vars(Return(u))`, which `EveryCallReturns` says of the transport), and a
  user that is to be destroyed does not begin calls for ever
  (`SF_vars(DestroyUser(u))`, as the framework cancels its tasks).

**Deadlock** is checked for the transport, the operations, the metrics and the
component, where a `Finished` or `Done` step marks the end of the bounded work.
`Codec`, `Datagrams` and `FrameChannel` stop when there is nothing more to
write, and say `CHECK_DEADLOCK FALSE`.

## Proofs

All for every value of the constants that the named assumptions of the modules
allow: any number of callers, calls, tasks, message types, instances, dumps, any
addresses, and operations with any arguments.

* `UdpClientProofs`
  * `TypeCorrect`.
  * `DrainDiscardsTheOld` (`OnlyAfterDrain`). The property is not inductive: it
    speaks of finished calls. `QueueIsFresh` says that as long as a call has
    drained and not ended, all that is queued arrived after its drain,
    whichever caller takes from the queue; `CallsDistinct` keeps two callers
    from writing the mark of one call.
  * `NoAnswerFromThePast` (`NeverFromEndedCall`). `EarlierIsGone` says that
    under `Quiet` no datagram of an earlier call is in transit during a call,
    nor queued after its drain; `EarlierEnded` that earlier calls have ended.
  * `SocketKeepsPromise`: under `Quiet`, and if no other endpoint sends what
    looks like a reply (`StraysRefused`), every step of the transport is a step
    of `RequestReply` or leaves it unchanged. `DatagramsHaveOrigin` provides
    the call an answer belongs to.
* `MessagesProofs`
  * Lemmas on byte order, packing of bits and registers, prefixes and rests of
    buffers, and from them `RequestReadBack`: the bytes of any operation's
    request fit a PDU and are read as the message they were made of, and
    `ValuesReadBack`, the same for the values of a response, whatever bytes
    follow. They need no induction: packing and unpacking are functions of the
    index.
* `ReadersProofs`
  * Of `Datagrams`, from the only invariant that the buffer holds bytes
    (`Bytes`): `NothingOutOfRange` (`AcceptedIsInRange`): each reader that accepts has been
    through the checks of its `Create` (`RangeReading`, `SingleReading`,
    `WriteReading`, `ErrorReading`).
  * `LaterBytesChangeNothing` (`LaterBytesIgnored`): a reader looks at no byte
    behind those it takes (`ContentKept`, `ReadingKept`), and a buffer that grew
    is the old one with bytes behind it (`Longer`).
  * `AcceptedCanBeSaid` (`AcceptedIsSayable`): packing undoes unpacking but for
    the padding of the last byte (`BitsPutBack`, `WordsPutBack`), so that what
    was accepted is written with the same fields and read as the same
    (`SaidAgain`).
  * Of `Codec`, `EveryMessageComesBack` (`ReadBack`) and `ReadsTakeTheirOwn`
    (`TailPreserved`), for any messages a `Create` makes (`SamplesAssumption`),
    any number of them, any room and any loss within the last. `Held` says that
    the buffer is the bytes of the messages not yet read, the last perhaps
    without its end. Each message is read back with anything behind it
    (`SampleWhole`), and of a message that fills a buffer every proper beginning
    is too short (`SampleCut`: all steps of the reader before the one that runs
    out of bytes succeed, `DecodedFails`). That `FlattenSeq` of a queue is its
    first message and the `FlattenSeq` of the others (`AllByHead`) is proved by
    induction over the natural numbers, with the set of numbers it holds for
    (`Induct`).
* `ClientBaseProofs`
  * `OperationsTypeCorrect` (`TypeOK`), from `TypeInv`, which adds that a
    response in transit is a forged one or an answer to the call.
    The buffer has the length the caller gave it until a response is accepted,
    and no less afterwards; nothing is assumed of forged responses.
  * `OverrunsAreOfRegisters` (`OnlyRegistersOverrun`), from the same invariant: a
    reader of bits returns as many as were asked for, which the buffer was
    compared with; a reader of registers no more than fit a response.
  * `BufferIsKept` (`BufferKept`), for a slave that answers no call as served
    that it did not serve (`Truthful`): then the count in a response is the
    quantity asked for (`AnswerHasRoom`).
  * `FailureKeepsBuffer` (`FailureLeavesBuffer`), for any slave and any bytes it
    answers: the invariant adds that the outcome of a call is open, and its
    buffer intact, until the call is over.
  * `RequestsAreUnderstood` (`RequestUnderstood`): `CallInv` says that what is in
    transit is the request of the current call, the rest is `RequestReadBack`.
  * `SuccessfulWriteHolds` (`WriteHolds`) and `MemoryIsKept` (`MemoryKept`, the
    refinement of `RemoteMemory`), for a slave that answers no call with its
    function code unless it served it (`Truthful`). `AnswerInv` says that every
    response in transit with the code of the call carries values that the call
    could have read; `HeldInv` that a write is in the memory as soon as its
    answer is in transit. A step that serves a request is a `TakeEffect` of
    `RemoteMemory` (or a `Forget`, when the slave refuses the addresses), one
    that accepts a response a `Succeed`, one that is refused, fails or loses
    something a `Refuse`, `Fail` or `Forget`.
* `SharedClientProofs`
  * `ClientUsesTransport`: the whole client is a behaviour of `UdpClient`, so
    that all of `UdpClientProofs` holds of it. `OperationInv` (`SharedType`,
    `JobsSent`, `AskedSent`, `ContentsAnswer`) shows that what the callers send
    and the slave answers is among what `UdpClient` carries.
  * `SuccessIsFromKindred` (`OnlyKindred`), from `SuccessIsKindred` and
    `NoAnswerFromThePast`.
  * `WatchedHasMemory` (`CallerHasMemory`, the refinement of `RemoteMemory` by
    the calls of one of the callers), assuming `Apart`: the caller is one of
    `Callers`, callers leave quiet gaps (`Quiet`), no other endpoint sends what
    looks like a reply (`StraysRefused`), and no call of another caller is
    kindred to one of this caller, so that its responses could be taken for
    each other (`KindredToNone`). `WatchedInv` says that what is in transit for
    the caller is its current request (`WatchedAsked`), that every call kindred
    to it is its own and, but for the current one, ended before it began
    (`WatchedAlone`), and that an open call has not touched its buffer
    (`WatchedBuffer`). Others may write the same memory at any moment.
    `TablesAssumption` says that the slave's tables hold what the operations
    carry.
  * `OverrunsAreMixUps` (`OverrunIsKindreds`), without quiet gaps: `RoomInv`
    says that a call that is not over has a buffer of the length it was given,
    `AnswerReaches` what a response to one call makes of the buffer of another.
* `ClientMetricsProofs`
  * `TypeCorrect`, with the bounds of the walks of dump and reset.
  * `EveryRequestCountedOnce` (`Conserved`) and `BytesInOrder`
    (`BytesMatchRequests`), from an invariant that adds to each counter of
    requests or bytes what the requests that have not come to the next one can
    still bring it (`InOrder`) and says that a reset that does not
    overlap requests finds all tasks idle and leaves zeros behind it
    (`ResetAlone`). The lengths of requests and responses are any that
    `MetricsAssumption` allows: 5 to 253 and 0 to 253 bytes.
  * `TypesMakeTheTotal` (`TypesAddUp`): the sum over the message types is
    proved by induction over their number, as the absence of a least
    counterexample in the well-founded order of the natural numbers. The
    invariant (`Balanced`) adds that a request is marked a success only as it
    ends (`MarkedAtEnd`).
  * `DumpsAreConsistent` (`BacklogBounded`): while a dump is between the total
    and the outcomes of a scope, the bound holds with the counters in place of
    the outcomes it has not read (`Seen`), and counters only grow.
* `ClientComponentProofs`
  * `DumpsReadTheLiving`, `ReferencesAreValid`, `NothingIsLeft`, from one
    invariant (`LifeInv`): how far an instance has come decides which members
    exist (`MembersFollowStage`), only configurations the schema allows are
    constructed (`OnlyAllowedConfigs`), a dump calls registered writers only
    (`DumpHoldsEntries`), and users hold instances that are ready
    (`UsersFindReady`).
* `RtuFrameProofs`
  * `FrameRoundTrip` and `AcceptedIsSerialized`: `Deserialize` and `Serialize`
    are inverse to each other.
  * `FrameArrives` (`FrameReadBack`), from the first and from what the wire
    carries until a byte is damaged (`WireIsSerialized`).
  * `DamageIsSeen`: bytes of any frame that differ at one position or at two
    neighbouring ones are refused, the CRC's own included. The register of the
    CRC forgets nothing: the upper half of an entry of the table tells which
    entry it is (`TableByHigh`, as shifting is linear and a byte's entry without
    upper half is 0), so a step on the same byte can be undone (`StepApart`),
    and two steps on other bytes from the same register end apart
    (`DamageShows`). If the second of the two bytes is one of the CRC, the
    halves of the register show it. `RegisterSteps` takes the fold over the
    bytes apart into these steps, the least number where two registers differ
    standing for induction.
  * `DamageIsRefused` (`DamageRefused`), from `DamageIsSeen` and the inductive
    invariant `DamagedWire`: the bytes on the wire that are not those written
    are the damaged ones, at most two, beside each other. That needs
    `MaxDamaged` to be at most 2 (`ChannelAssumption`); TLC finds
    `DamagedWire` to hold as a further invariant of the run `FrameChannel`.
  * `CrcIsStandard` (`StandardCrc`): the six steps of the register for the
    frame of the test, from the table's entries for single bits
    (`StandardBytes`).

Only model-checked: liveness (`EveryCallReturns`, `ShutdownEnds`), which is out
of the prover's reach.

## Assumptions and limits of the models

* The framework's socket is meant for one receive at a time. The transport
  model with two callers takes each `RecvNoblock` and `RecvSome` as one atomic
  removal from the queue.
* Counters are read and written in a single order seen by all tasks; the
  framework's counters are relaxed atomics, so a dump on another core may see
  them in another order than `BacklogBounded` assumes. They do not wrap (64
  bits).
* `ResetsApart`: resets do not overlap requests or dumps. A reset that does
  leaves the totals of requests in flight apart for good.
* `ClientBase` has one caller, which waits until nothing of its last call is in
  transit; the transport then returns the slave's answer to this call or fails,
  which is what `PromiseKept` shows of `UdpClient` for one caller.
* The client checks responses less than it could. The count of registers in a
  response is not compared with the quantity asked for: a shorter one succeeds
  and fills only the front of the buffer, a longer one than the buffer holds is
  copied behind it by `std::copy`. That is undefined in C++; the models take it
  for a success with what was written behind the buffer in `out`, or for the end
  of the program (`crashed` in `ClientBase`; in `SharedClient`, where every
  property is one of safety, a behaviour that stops). What else the write
  destroys is not modelled. The echo of a write is not compared with the write,
  and an exception response is reported as `kInvalidResponse`:
  `kModbusException` is returned nowhere. `MemoryKept`, `WriteHolds` and
  `BufferKept` are for a slave that answers what it did (`Truthful`).
* `Serialized` does not check that the output buffer is long enough
  (`kBufferTooShort`): `UdpClient`, its only caller, gives it 256 bytes.
* `SamplesAssumption`: what `Codec` writes was made by a `Create`, as it is in
  the code, where constructors are private.
* `MemoryType`: the slave's tables of bits hold bits.
* `SharedClient`: callers leave quiet gaps (`Quiet`). `CarriedAssumption` only
  says that the constants of the transport include what the operations send. The
  slave is given the arguments of the call whose request it serves, which
  `RequestUnderstood` shows is what it would read. Calls that are refused before they are sent are bounded by `MaxCalls` as well.
* The counters that operations change on their way are in `ClientMetrics` only,
  whose requests take the same ways out. The lengths of their PDUs are chosen
  there independently of the message type, within the limits of all of them.
* `ClientComponent` takes from the framework that it checks configurations
  against the schema, destroys the users of a component before it, and holds a
  lock while it dumps that registering and unregistering wait for. In the model
  metrics are not destroyed before their entry; a mutant that forgets the entry
  therefore waits for ever (`ShutdownEnds`), where the C++ code would go on with
  a writer that dangles, which is what `DumpReadsMetrics` is about.
* A damaged frame is refused for certain only when at most two neighbouring
  bytes (16 bits) differ. A 16-bit CRC cannot promise more of arbitrary bytes,
  and a frame cut short is accepted if its last bytes happen to be a CRC.

## Not modelled

`CalcLrc` (used nowhere), the names and labels of metrics (text without effect
on the counters), getters and `GetEncodedSize` (lengths of the bytes that are
modelled), the framework, tests and build files. `response/impl/write_single.hpp`
and the request and response classes that only repeat each other's text are
modelled by the definition that is mapped to one of them.

## Plan

Done, in this order: the transport with its contract and proofs; the metrics;
messages and frame; the operations with `RemoteMemory`; the operations over the
transport with several callers; the component; the round trips of the messages
and, from them, `RequestsAreUnderstood`, `SuccessfulWriteHolds` and
`MemoryIsKept`; `DumpsAreConsistent`; `WatchedHasMemory`, which joins
`MemoryIsKept` and `SuccessIsFromKindred`; `TypesMakeTheTotal`;
`OperationsTypeCorrect`; the three theorems about foreign bytes;
`EveryMessageComesBack` and `ReadsTakeTheirOwn`, from the round trips and from
every proper beginning of a message being too short;
`DamageIsRefused` and `CrcIsStandard`, for which the CRC is written over sets of
bits; the bytes counted by their lengths and `BytesInOrder`; responses longer than
the caller's buffer, `OverrunsAreOfRegisters`, `BufferIsKept` and
`OverrunsAreMixUps`.

What is left is out of the provers' reach: liveness, which stays with TLC.
