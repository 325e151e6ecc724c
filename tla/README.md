# A verification project for the UserCanal C++ SDK

TLA+ modules that model the concurrent core of the SDK, TLC configurations that
check them on small instances, and proofs that TLAPS checks for every value of
the constants. Sources are cited as `batch.cpp:573`; the sources are in
`src/src/*.cpp` and `src/include/usercanal/*.hpp`.

Contents: [the system](#the-system) - [the modules](#the-modules) -
[the runs](#the-runs) - [fairness](#fairness) - [the proofs](#the-proofs) -
[known disagreements](#known-disagreements) -
[what is not modelled](#what-is-not-modelled) - [plan](#plan)

## The system

An application tracks events and writes logs through `Client`. The SDK gathers
them into batches, serializes each batch with FlatBuffers and sends it as a
length-prefixed frame over one TCP connection to a collector.

```
 application threads                         timer thread (every 100 ms)
        |  event(), log_message(), flush()        |
        v                                         v
   ClientImpl  --submit-->  BatchManager (one mutex_)  --send callback-->  NetworkClient --> socket
        |                        ^                        with mutex_ held      ^
        |  initialize/shutdown: start(), flush(), stop() ----------------------+ shutdown(): close,
                                                                                 without that mutex
```

### Components

| component | state it keeps | operations that change it | what it must get right |
|---|---|---|---|
| `BatchManager` (batch.cpp:553) | `running_`, `flush_thread_`, the current event batch and log batch with their byte totals, two queues that are empty whenever the mutex is free, `BatchStats` | `start`, `stop`, `submit_event`, `submit_log`, `flush`, the loop of the timer thread | what it accepts leaves once, in order, within the limits, and before `stop()` returns; memory stays bounded; the thread is joined once |
| `ClientImpl` (client.cpp) | `initialized_`, plain counters, a batch manager, a network client | `initialize`, the tracking calls, `flush`, `shutdown`, destruction | nothing accepted is forgotten across shutdown; nothing destroyed is used |
| `NetworkClient` (network.cpp:592) | `is_connected_`, `socket_fd_` | `connect`, `send_data`, `shutdown` | the byte stream is whole frames in order; no descriptor leaks; no descriptor of the application is touched |
| `Connection` (network.cpp:49) | `state_`, `socket_fd_`, a mutex, a `std::async` thread for each call | `connect`, `send`, `receive`, `disconnect` | payloads do not mix; `send()` returning means written; `state_` tells the truth |
| `CircuitBreaker` (utils.cpp:529) | state, failures, successes, time of the last failure | `is_call_allowed`, `record_success`, `record_failure`, `reset` | a failing service is left alone for the time-out; the breaker tests again and closes |
| `BatchProcessor`, `BatchStats` (batch.cpp:408, batch.hpp:172) | `running_`, atomic counters | `process_event_batch`, `process_log_batch`, `start`, `stop`, snapshots and resets | every batch is accounted for; a snapshot is plausible |
| wire format (batch.cpp:29-359, the schemas) | none beyond a batch | `serialize`, framing | what a collector reads is what was tracked |
| `Config`, `ConfigBuilder`, `EnvConfig`, presets (config.cpp) | a configuration | setters, presets, the environment, validation | what validation lets through makes sense downstream |
| `RateLimiter` (utils.cpp:447) | rate, tokens, time of the last refill, a mutex | `try_acquire`, `wait_for_tokens`, `set_rate` | no more than the burst and the rate is granted; whoever keeps asking gets through; waiting ends |
| `ExponentialBackoff` (utils.cpp:494) | attempts, current delay | `next_delay`, `reset` | delays grow and stop growing |
| `NetworkConfigValidator` (network.cpp:533) | none | `validate` | it agrees with `Config`'s own validation |

`Connection`, `CircuitBreaker`, `BatchProcessor`, `RateLimiter`,
`ExponentialBackoff` and `NetworkConfigValidator` have no user inside the SDK. They are public classes for
applications, so they are modelled, where they are, against every order of
calls an application may make.

### How they interact, and what is hard about it

* **The send callback runs under the batch manager's mutex.** `submit`, `flush`,
  the timer thread and `stop()` all flush, each with `mutex_` held until the
  socket has taken the frame. It makes one send at a time, keeps the order, and
  makes every caller wait for a slow collector.
* **`stop()` is three pieces**: the flag under the mutex, the join without it,
  the last flush under it again. Submits, flushes, another `stop()` and a
  `start()` can come in between (batch.cpp:578-593).
* **The timer thread reads `running_` without the mutex** (batch.cpp:726), and
  nothing catches what escapes on it.
* **Exceptions cut a flush short** after the batch has left the queue: an
  `Error` is caught and counted, anything else goes through the caller.
* **`NetworkClient::shutdown()` takes a mutex that `send_data()` does not.**
  Both close and forget the same descriptor, in steps, while the kernel hands
  the number out again.
* **Counters and flags without a lock**: `initialized_` and the statistics of
  `ClientImpl` (client.cpp:70, 80).
* **Time-outs that do not end anything**: a caller of `Connection` gives up, but
  the destructor of its future waits for the body all the same.
* **Late results**: a circuit breaker hears of calls it let through in a state
  that is over.
* **Clocks that are coarser than the calls**: a rate limiter counts whole
  milliseconds and forgets the rest at every call.
* **Text that cannot be written**: a property that is no UTF-8 or a number that
  is none meets the JSON writer in the middle of a call.

`PROJECT.json` lists every hazard with its line and the properties aimed at it.

## The modules

| module | models | composes or checks against |
|---|---|---|
| `Outbox` | what batching promises: per kind a first-in first-out stream, whose pending part leaves as a whole with one result | abstract specification |
| `BatchManager` | `BatchManager::Impl` | implements `Outbox` (`Box == INSTANCE Outbox WITH ...`) |
| `BatchManagerProofs` | - | theorems about `BatchManager` |
| `Channel` | what a collector may rely on: payloads on connections one after the other, in order, once, and nothing after one that was cut short | abstract specification |
| `NetworkClient`, `NetworkClientProofs` | `NetworkClient::Impl` over the process's descriptor table; and theorems | implements `Channel` (`Reader == INSTANCE Channel WITH ...`) |
| `Client`, `ClientProofs` | `ClientImpl` over a batch manager and network client that are cut down to what the other modules show of them; and theorems | |
| `Connection`, `ConnectionProofs` | `Connection::Impl` and its synchronous calls; and theorems | |
| `CircuitBreaker`, `CircuitBreakerProofs` | `CircuitBreaker`, and theorems | |
| `BatchProcessor`, `BatchProcessorProofs` | `BatchProcessor` and `BatchStats`; and theorems | |
| `RateLimiter` | `RateLimiter`: each of its operations holds its mutex throughout and is one action | theorems in `PacingProofs` |
| `ExponentialBackoff` | `ExponentialBackoff`, as a record and the functions on it | |
| `Pacing`, `PacingProofs` | threads that share a limiter: callers of `try_acquire()` with a back-off, and callers of `wait_for_tokens()`; theorems about the limiter and its users | composes the two; its steps are steps of `RateLimiter` |
| `WireFormat`, `WireFormatProofs` | the calls and their properties, `serialize_properties()`, items, `Batch::serialize()`, `send_data()`'s frame, and a reader that follows the schemas; and theorems | |
| `Config` | `Config`, its builder, presets, environment, validation, and `NetworkConfigValidator` | theorems in `ClientProofs` |
| `MC*` | the small instance of each, with the values of its constants | |

Operators marked `\* Fault:` are variants of the definition after them with a
plausible mistake. Nothing in the specifications uses them: they show that a
property can fail (each is put in the place of the real definition, and TLC then
has to find the property violated).

### State and actions against the code

**BatchManager.** A method body under `mutex_` is one action. What the code does
without the mutex is a step of its own: `StopBegin` (flag), `StopJoin` (join),
`StopFlush` (last flush) are the three pieces of `stop()`, and `TimerLoop` is the
unlocked `while (running_)`, which may also still read the old `TRUE`. `timer` is
`flush_thread_` with what its function does: not joinable, at the head of the
loop, waiting, ended. `Start` on a thread that is still joinable is
`StartTerminates`, because move-assigning to a joinable `std::thread` calls
`std::terminate`. `StartFails` is a `start()` whose `std::thread` cannot be made:
`running_` is `TRUE` by then, and the manager goes on without a timer (history
`unmade`). `Popped`, `Emptied`, `Zeroed`, `HandedOn`, `Fated` and `Counted`
are the parts of one flush; the callback may return, throw an `Error`, or throw
something else, and then the second kind's batch is not flushed. A queue is
filled and drained in one critical section, so its length in the admission test
is always 0, and the `max_queue_size` test can only refuse when the limit is 0.
Histories (`accepted`, `out`, `fate`) record what happened to each item.

**NetworkClient.** Each read and write of `is_connected_` and `socket_fd_` and
each system call is an action; `socket()` and the application's own `open()` get
the lowest free number of `table`. A frame is `Units` pieces, so that a short write
is visible. `raced` remembers that `shutdown()` and a send overlapped: the code
makes its promises about descriptors only when they do not, and the properties
say so. `close_connection()` is taken apart: the test of `socket_fd_` (`Tests`; the
number it read is `hold`), `close` (of `hold`, or of what a second read finds), the
reset of `socket_fd_` (`Forgets`) and that of `is_connected_` (`SendUnsets`,
`ShutdownUnsets`) are steps that a failed send and `shutdown()` share. A `connect()`
that fails closes the socket it made in the same way. `Carried` and `Rest` cut the
pieces on a connection into frames as a reader does, who counts bytes; pieces that are not one frame from its start are
`Garbled`, which is nothing `Channel` can carry.

**Client.** Items are events or logs. `Track` reads `initialized_`; the submit is a
step after it that can be overtaken by `shutdown()`. A flush sends the events
and then the logs with the mutex held throughout (`FlushTakes`, `FlushSends`,
`FlushGoesOn`); an exception out of the events leaves the logs where they are
(`FlushThrows`). `StartFails` is an `initialize()` that catches what a `std::thread` that
cannot be made throws: the manager runs without a timer, and the client is not
initialized until the next `initialize()`, which finds a running manager and leaves
it as it is (`Unmanned`). A counter is read in one step and written
in another (`CountRead`, `CountWrite`), because `stats_.events_sent++` on a plain
integer is. `Destroy` destroys the members in reverse order of their
declaration, so that the network client goes before the batch manager. `key` is
whether the key is one: nothing validates it on the way, and with an invalid one
every batch ends as `Throws`. `AfterThrow` says where that is caught; in the timer
thread and in the destructor it is not (`FlushTerminates`).

**Connection.** A caller and its `std::async` thread are one thread with a flag
`late`, since the future's destructor joins them again. `owner` is the mutex;
`"relock"` is the point at which a failed `connect_internal()` calls
`disconnect_internal()`, which takes the mutex that is already held. `peer` is the
other end of each socket, which may close, be lost or reset the connection at any
step (`PeerGoes`). `receive()` reports an error and leaves `state_` as it was
(`ReceiveError`), and so does a `send()` whose error is neither EPIPE nor ECONNRESET
(`SendError`); only those two make it FAILED. `vain` counts the sends that began on a
socket whose other end was gone.

**CircuitBreaker.** Asking, calling and recording are three steps with anything
in between. `age` counts clock ticks since the last failure up to the time-out.
`failures` stops at `Cap`, which no comparison can tell from higher numbers.

**BatchProcessor.** `running_` is read once per call; every counter is its own
step; `ReadField` and `ClearField` are `snapshot()` and `reset()` one field at a
time.

**WireFormat.** The stream is a sequence of lengths, batch heads and buffers, not
bytes. Events are serialized on their own and put one after the other; logs share
one `LogData`. The collector is external: it reads a frame by its length and
takes the root of the data, as FlatBuffers' `GetRoot` does. Properties are
functions from keys to values. `Combined` is what `event_revenue()` and
`LogBatchItem` make of the caller's map (`own @@ data`); `Dumped` and `Dumps` say
what the JSON writer does to a value, and a call whose text it refuses ends as
`CallFails`. The build demands nlohmann/json, so the `key=value` fallback is not
modelled.

**Config.** The fields that validation or a consumer looks at, with builder
calls, presets and `from_environment()` as the code composes them. A host is one
of three kinds, by which of the two patterns it passes. A port is the number that
`std::stoul` reads, with a mark whether it is digits and nothing else: `std::stoul`
takes a sign, blanks before it and text after it. `NoPort` is what it refuses, a
number of 2^64 or more among it. `ValidNetwork` is the
second validation.

**RateLimiter, ExponentialBackoff, Pacing.** `tokens_` and `rate_` are doubles and
become whole parts of a token (`Unit`); the rounding of a double is left out. A
clock reading is a `Quanta`-th of a millisecond, so that `Elapsed` cuts what
`duration_cast` cuts. `since` is the time since `last_refill_` and stops at a bound
past which the bucket is full at any rate. The limiter is used in `Pacing` in two
ways: `wait_for_tokens()` step by step (`WaitLooks` is the loop's condition), and
the loop of an application that sleeps as its back-off says. `allowance` is the
history that the limit is stated over: a bucket of the same size that fills
reading by reading at the highest rate, from which every grant is taken.

## The runs

Twelve runs: ten that must pass, two that must find a violation (the
[findings](#known-disagreements)).

| run | module | distinct states | shows |
|---|---|---|---|
| `batching_safety` | MCBatchManager | 315,940 | two controlling threads, every order of submit, flush, start, stop and timer, sends that succeed, fail and throw, timer threads that cannot be made: order, limits, one result for each batch, counters that tell the items' fates, single join, drained after stop, refinement of `Outbox` |
| `batching_liveness` | MCBatchManager | 39,264 | one controller: no `std::terminate`, `stop()` returns, everything accepted leaves (`Outbox` with its fairness) |
| `client` | MCClient | 139,423 | two threads that track events and logs against initialize, failing or not, shutdown, restart, destruction, with a valid and an invalid key |
| `client_destroy` | MCClient | - | violation: destruction without `shutdown()` |
| `sending` | MCNetworkClient | 441,650 | failing, short, stalled and killed sends, `shutdown()` at any step of them and of their cleaning up, the application's own descriptors; refinement of `Channel` |
| `connection_safety` | MCConnection | 2,830,952 (symmetry reduces it) | peers that close, are lost or reset at any step: pieces stay together, returning means written, `state_` agrees with the socket, a dead connection is found out |
| `connection_hang` | MCConnection | - | violation: a failed connect hangs |
| `breaker` | MCCircuitBreaker | 4,674 | late results, resets, recovery |
| `processing` | MCBatchProcessor | 363,772 | every batch accounted for, at most one late batch from each thread, snapshots during a reset |
| `wire_reading` | MCWireFormat | 284,308 | a reader that follows the length prefixes gets logs complete and in order, and events unchanged, properties included |
| `config_values` | MCConfig | 10,260 | presets and environments give usable batching; the two validations differ in the named ways only |
| `pacing` | MCPacing | 432,896 | the limit holds whoever asks how; somebody gets through; `wait_for_tokens()` returns |

What the properties say is in the comment above each; the ones a reader should
know first:

* `NoLossNoReorder`, `FateMatchesBatch`, `StoppedMeansDrained`, `KeepsOutbox`:
  accepted items leave in order and once, none is left after `stop()`.
* `StatsMatchFates`: the counters of items are exact, and those of batches count
  neither too few batches for what was sent and failed nor empty ones.
* `JoinedOnce`, `NeverTerminates`, `StopReturns`: the life of the timer thread.
* `KeepsChannel`: whatever fails and whatever `shutdown()` does in between, the
  connections carry whole frames in order, none twice, and nothing after a stump.
* `SentMeansWhole`, `NoSocketLeaks`, `NoStrangerTouched`: what the wire and the
  descriptor table look like after any failure.
* `AcceptedIsKept`, `ShutDownIsFinal`, `AcceptedGoesOut`: the composition.
* `NeverOvercounted`: what is left of the client's counters when they lose updates.
* `PiecesTogether`, `OkMeansWritten`: a payload on a shared `Connection`.
* `BreakNoticed`: a `Connection` may call itself CONNECTED on a dead socket, but
  only one `send()` can begin on it without bringing that to light.
* `CountsMatchState`, `HalfOpenIsQuiet`, `RecoversWithService`: the breaker.
* `Accounted`, `AtMostOneLate`, `SnapshotInventsNothing`: the processor.
* `LogsAllArrive`, `EventsUnchanged`: the reader's view.
* `LimiterHolds`, `GetsThrough`, `WaitReturns`: a shared rate limiter.
* `ValidatorsAgree`: a configuration that one validation takes and the other does
  not has a port with something around its digits, a host with a dash or a dot at
  an end, or a port that `std::stoul` refuses or that is 0 once it is cut.

Each module has a type invariant as well; those of `BatchManager`,
`CircuitBreaker` and `RateLimiter` are proved.

### Bounds, and why they are enough

* **BatchManager**: two threads, because no action looks at more than one other
  thread. Four items: two small events and a big one fill a batch by number, by
  bytes and past the byte limit by its last item; the log makes a flush of both
  kinds. Batches of 2 items, 3 bytes, 6 bytes of memory: each limit is met and passed.
  Intervals of 1 and 2 wake-ups: one kind is due without the other.
  The safety run permutes the two threads and the two like events; no liveness
  property is checked under symmetry.
* **NetworkClient**: one sender, because the batch manager's mutex admits one,
  and one closer, because only the owner shuts down. Three payloads: one before,
  one during, one after a failure. Two pieces: the start and the end of a frame.
  Three connections and one descriptor of the application: a number can come back
  as either.
* **Client**: two tracking threads, two events and a log with batches of one: an
  event that meets a full batch, and a flush of both kinds. Two starts: a life after
  a shutdown, or after a start that failed. The destroy run needs
  one thread only.
* **Connection**: two threads, two payloads of two pieces, two sockets: one that
  breaks and one after it. Every way a peer may end.
  `connection_hang` needs one thread.
* **CircuitBreaker**: three callers against thresholds of two, so that a late
  caller can meet a state that two others brought about.
* **BatchProcessor**: two threads and two batches of different size; one reset,
  at any moment and any speed; any number of snapshots.
* **WireFormat**: four events and three logs, one of each kind with text that
  cannot be written, so that a batch of either kind can hold several and a kind
  can take several frames; keys of the caller that meet the call's own; two
  clock readings.
* **Config**: one builder call over values on both sides of a limit (a port of 0,
  one that is 0 after the cut, one that is not, and one that is no number), with
  and without text around the port's digits; every preset; every set of variables over
  those values.
* **Pacing**: two callers and a waiter: one can take what the others wait for, and
  keep the bucket empty by asking. A bucket of two tokens; a request for three,
  which can never be granted. Two readings in a millisecond: the smallest clock
  that loses time. Two rates, the highest one token a millisecond. Delays of 1, 2
  and 4 ms: below, at and above what a grant takes. Callers ask for no more than
  the bucket holds: nothing lets the others through.
* `CHECK_DEADLOCK FALSE` stands where the system may stop: no items, payloads or
  sockets are left, the object is destroyed or the process has ended.
  `batching_liveness`, `breaker`, `processing` and `config_values` check for
  deadlocks.

## Fairness

* The timer thread is run (`WF` of its steps): the operating system schedules it
  and `wait_for` ends after 100 ms.
* A thread inside `stop()`, `shutdown()`, an SDK call or an async body goes on. It
  is weak fairness where nothing can disable the step again, strong where
  it is a mutex that others take and release (`Client`, `Connection`): an
  implementation of `std::mutex` that starves a thread for ever is excluded.
* Sends: a `::send` on a connection whose peer reads goes on; a peer may stop for
  good and then nothing is promised (`SendReturns` names it). No fairness makes a
  healthy connection fail.
* Nothing obliges an application to call anything, with one exception: the
  callers of the circuit breaker keep asking, without which no breaker could
  recover.
* Time passes (`Tick` of the breaker and of `Pacing`).
* A thread of `Pacing` whose sleep is over is scheduled again (`WF` of its steps),
  at any later time: nothing says how the threads' calls fall between the
  milliseconds, and that is what `GetsThrough` is about.
* The reader of `WireFormat` reads, and batches are sent (that is `LiveOutbox`).

## The proofs

TLAPS checks these theorems for every value of the constants, that is any number of
threads, any items, any limits, any behaviour of the callback, any rates.

**BatchManagerProofs.** Assumed is `BatchManagerAssumption` (types of the
constants) and for `OneControllerIsSafe` that one thread controls and the
callback throws nothing but `Error`s.

* `TypeCorrect`: `TypeOK` is inductive; each operator of a flush has a lemma about
  its type.
* `MemoryStaysBounded`: the sum of the two totals only shrinks in a flush, and the
  admission test covers the rest.
* `FirstInFirstOut`: `accepted = out \o batch` of each kind is inductive; the step
  is associativity of concatenation when a flush moves a batch and a submit
  appends.
* `LimitsKept`: the byte limit speaks of the total before the last item, which is
  the total that `IsFull` saw when that item came; inductive with the types.
* `FatesMatch`: an item is `"batched"` exactly when it waits in the batch of its
  kind; inductive with the types. A flush turns every waiting item's fate over
  and empties the batch in one step (`FlushKeepsFates`).
* `TimerJoinedOnce`: a joinable thread means running or a joiner. As long as no
  thread could not be made the converse holds too, and there is never a second
  joiner; inductive with the types.
* `OneControllerIsSafe`: from `TimerJoinedOnce` and `OnlyControllersStop` (who is
  inside `stop()` controls). If `start()` finds a joinable thread while
  `running_` is false, somebody is joining, and with one controller that is the
  caller of `start()` itself, who is not inside `stop()`.
* `StopDrains`: relies on `FatesMatch` and `TimerJoinedOnce`. The last thread to
  leave `stop()` flushes both kinds (`FlushAllDrains`); an exception that skips
  the second kind leaves a `"lost"` item behind, and that is for good
  (`LostIsFinal`).
* `OneResult`: an action property, from the types and the shape of a flush: every
  waiting item of a kind gets the result of the one batch of that kind.
* `ImplementsOutbox`: needs `OutFates` (an item that has left is sent, failed or
  lost) beside `FatesMatch`, because the mapping reads an item's result from its
  fate. Initial states map to initial states, `Submit` to `Accept`, every flush to
  `Drain` or a stutter, all others to stutters.
* `StatsCountWhatWasSent`: `items_batched` is the number of items that were sent, and
  `batches_sent` and `batches_failed` are plausible for the items with that result: at
  least one batch if there are any, no more batches than items. A flush adds the
  length of the batch to the items of its result (`FatesJoin`: no item waits in it
  twice and none has left before) and one to its batches (`OneBatchMore`: what was
  popped is not empty).

**CircuitBreakerProofs.** From `BreakerAssumption`: `BreakerTypes`,
`CountsAlwaysMatch` and `AlwaysQuiet` by one invariant; the types alone are not
inductive, because the bound of `successes` in `HALF_OPEN` is the match of counts
and state.

**PacingProofs.** About `RateLimiter`, from `LimiterAssumption`: `LimiterWithin`. That
`allowance` is not negative is not inductive, because what was granted depends on
what has been refilled late. The invariant is `Covered`: the tokens in the bucket
and what the time since the last refill will add to them are no more than the
allowance, where the time is counted at the highest rate and not cut to
milliseconds. A refill keeps it because cutting only loses time (`Quotient`),
`set_rate()` because no rate is above the highest, the clock because both sides
grow alike up to the brim.

About `Pacing`, `UsesLimiter`: every step of it is a step of the limiter or leaves
it alone (`LimiterStepSimulated`), for any number of threads; the only fact it
needs is that threads want natural numbers of tokens. Hence `LimitAlwaysHolds`
from `LimiterWithin`, without another induction.

**ClientProofs.** From `ClientAssumption`: one invariant of eight parts, each with a
lemma that has a step per action.

* `ClientTypes`, `NothingForgotten`: nothing is leaving while the mutex is free
  (`MutexOK`), and a thread that submits has an item that nobody else has and that
  is new (`ArgOK`). Without these an item could be in two
  places.
* `ShutDownStaysDown`: a manager that does not run has no thread and no events, and
  with a valid key no logs, but for the time of the join and the flush after it
  (`StoppedOK`). That needs to know how far a flush is: no events are left behind
  it, and no logs that it does not mean to send (`MutexOK`). With a valid key nothing
  sends any more when the socket is closed, so it stays closed (`SocketOK`).
* `NothingSentAfterDestroy`: assumes `ShutsDownFirst`. With a valid key the
  destructor of a client that was shut down finds a stopped manager (`GoneOK`).
  With an invalid one the manager may still run, but no batch of it gets as far as
  `send_data()`.
* `NeverOvercountedAlways`: the counter of a kind, and what a thread is about to
  store in it, is no more than the accepted items of the kind that no thread is
  about to count (`CountOK`). A thread's own item joins those when it stores, so
  its store of a stale value plus one is covered too.

* `LogsNeverWaitLonger`, `ValidatorsNeverDisagree`: of `Config`, from
  `ConfigAssumption`, for any ports, sizes and intervals. Both are inductive. The
  presets are compared one by one; for an environment the work is in the halves
  of what it asks for, and in that a batch size that validation takes is below the
  default of the queue (`LoadedGood`). A set of values that
  `NetworkConfigValidator` takes is in all ranges of `Config` (`TakenTwice`), so that
  only what stands around the port's digits is left to tell them apart.

**BatchProcessorProofs.** From `ProcessorAssumption`, `ProcessorInvariant`: every caller
has a batch of its own, and until the first reset a counter is the number of
batches that are past the step that raises it; after a reset it is never ahead of
them.

* `ProcessorTypes`: every variable keeps its type.
* `EveryBatchAccounted`: when nobody is inside a call, every batch is past all of
  its steps, so the counters are the numbers of the batches with each end.
* `SnapshotsInventNothing`: a field of a snapshot was at most the true number when
  it was read, and true numbers only grow; no batch is among those sent and among
  those failed, so the sum of both fields claims no more than there was.
* `NoSecondLateBatch`: a thread that has sent a batch after `stop()` is past the read
  of `running_` in that call, and its next call reads the flag again, which is
  cleared (`LateOK`).

**ConnectionProofs.** From `ConnectionAssumption`, one invariant of eight parts. The
threads may be infinitely many; those that have begun to connect are finite in
number, which is part of the invariant (`RoomOK`).

* `ConnectionTypes`: needs `RoomOK` (a thread that is about to create a socket has
  one left under the bound) and `ArgOK` (a send under way has pieces left).
* `StateAlwaysMatches`: sockets are numbered as they come, so a new one is not among
  those whose peer ended, and while a thread connects or sends it holds the
  mutex (`SocketsOK`, `LockOK`). A FAILED socket that the peer still reads is one
  that a thread is about to hang on.
* `DeathIsNoticed`: a send that begins in vain and leaves the state CONNECTED has taken
  the pending error from the socket, and the next meets EPIPE (`VainOK`).
* `SendsNeverMix`: while a payload is being sent, the last piece on the wire is its
  own last one (`WireOK`); a piece that follows its predecessor, or is the first,
  keeps all pieces together (`NextPieceFits`).
* `OkAlwaysMeansWritten`: a send that is about to return has its last piece on a
  wire, and nothing is ever taken from one (`WrittenOK`, `OnePieceMore`).

**NetworkClientProofs.** From `NetworkAssumption` (a thread sends or shuts down, not
both, is part of it), one invariant of five parts. What holds only as long as
`shutdown()` and `send_data()` have not overlapped is guarded by `~raced`.

* `NetworkTypes`: a call under way has a payload and pieces left (`CallOK`), and one
  thread of each kind is at work at a time (`AloneOK`).
* `SentIsOnTheWire`: the payloads with their last piece on a wire are those counted
  as sent (`WireOK`); each piece adds at most its own payload to them
  (`OnePieceMore`). Without an overlap `socket_fd_` is never a descriptor of the
  application while a thread sends, so no piece goes astray.
* `SocketsAreClosed`, `StrangersAreSafe`: what is in `socket_fd_` is the only
  socket, and `is_connected_` says whether there is one; both are wrong only from
  a `close` to the resets that follow it, and then no other thread is at work
  (`OwnOK`). Nobody but the sender gives `socket_fd_` a new number, so what it is
  about to close is still there, or nothing is (`HoldOK`).
* `ImplementsChannel`: a reader sees quotients and remainders of lengths of wires, so
  the invariant says what is on them. `socket_fd_` holds the newest connection or
  none (`NewestOK`); payloads are written in their order, and nothing of one before
  it is sent (`OrderOK`); after the whole frames of the newest connection come the
  first pieces of the payload that is being sent, or the connection is about to be
  closed (`FrameOK`). One more piece then starts a frame, goes on with it or ends
  it (`OneMorePiece`, `FrameEnds`), which is `Begin`, a stutter or `Finish` of
  `Channel`, or `Carry` when a frame is a single piece; every other step leaves all
  wires as they are.

**WireFormatProofs.** From `WireAssumption` and `ObjectAssumption` (an object of
properties is not JSON's null), `WireInvariant`. What a frame
holds depends on where it starts, and nothing in the state says where that is; the
invariant says that there is a function from starts of frames to the logs written
up to there.

* `ReaderInStep`: what the arrival of logs rests on (`StreamInStep`); no run checks it,
  because a reader out of step loses the logs that follow, which `LogsAllArrive` sees.
  The reader stands at the start of a frame, which is there as a whole because a batch
  is written in one step.
* `EventsArriveUnchanged`: a waiting event has the fields of the call that made it,
  and a frame holds the tables of what waited. `event_revenue()` puts its own
  properties over those it is given (`Over`).
* `LogsArriveInOrder`: the safety part of `LogsAllArrive`. The waiting logs are the
  last that were written, in order, and the reader has found those of the frames
  before it.

**Model-checked only.** Liveness under fairness (`StopReturns`, `LiveOutbox`,
`SendReturns`, `AcceptedGoesOut`, `OwnerReturns`, `CallsReturn`, `LeavesOpen`,
`RecoversWithService`, `LogsAllArrive`, `GetsThrough`, `WaitReturns`) and
everything that needs `ENABLED` are out of the prover's reach, and stay with TLC.
Of two of them the safety part is proved: that `BatchManager` implements `Outbox`
(`LiveOutbox` adds the fairness) and that logs arrive in order (`LogsAllArrive`
adds that they arrive). Every other property that a passing run checks is a
theorem.

## Known disagreements

Two are shown by a run that TLC must find violated:

* **A failed connect hangs** (`connection_hang`). Its handler calls
  `disconnect_internal()`, which locks the mutex the thread holds
  (network.cpp:152, 158).
* **Destruction without `shutdown()`** (`client_destroy`). The network client is
  destroyed first, and the batch manager's last flush uses it (client.cpp:163).

Others were met while modelling. They are part of the models, which do what the
code does, and the properties are stated around them:

* An invalid key ends the process. `serialize()` throws `std::invalid_argument`,
  which is no `usercanal::Error`, and `flush_timer_thread()` catches nothing
  (batch.cpp:320). The README's example uses `Client client("your-api-key")`, and
  the constructor does not validate. `BatchManager` with `KeyValid = FALSE` violates
  `NeverTerminates`; its runs and `OneControllerIsSafe` have a valid key.
  `Client` has either, and ends in `FlushTerminates`.
* With such a key the flush in `shutdown()` throws, if something is pending, and
  `stop()` and the network client's `shutdown()` are skipped: the client says it is
  not initialized while its batch manager runs on (client.cpp:55).
  `ShutDownIsFinal` allows that for an invalid key and nothing else.
* Such a key also leaves a log behind: a flush stops at the exception of its events
  (batch.cpp:756-760), so a log that came with them stays where it is, in the last
  flush of `stop()` for good. `AcceptedGoesOut` and `ShutDownIsFinal` name it.
* If the `std::thread` cannot be made, `start()` leaves `running_` set (batch.cpp:570-575)
  and `initialize()` fails (client.cpp:46-49). A second `initialize()` then succeeds and
  starts no timer; without one `shutdown()` does nothing, and what a call that began
  before has put into the manager goes through the destroyed network client in the
  destructor (`Unmanned`, `ShutsDownFirst`). A `start()` that
  fails while another thread's `stop()` is joining lets two threads join the
  same `std::thread`; `JoinedOnce` is guarded by `unmade` there.
* `wait_for_tokens()` with its default time-out of 0 does not try once, even if
  there are tokens (utils.hpp:133, utils.cpp:466).
* `set_rate()` does not refill first, so the new rate holds for the time since the
  last refill as well (utils.cpp:480). `LimiterHolds` is about the highest rate.
* Calls that come closer together than a millisecond keep a limiter empty
  (utils.cpp:487-491). `GetsThrough` holds because delays grow; with a constant
  delay of a millisecond it does not.
* `ExponentialBackoff` returns its base delay first, even above the maximum
  (utils.cpp:502).
* A number that is none or infinite arrives as null; a property or a message that
  is not UTF-8 makes the call fail, with nothing but a line on `std::cerr`
  (batch.cpp:974, client.cpp:85).
* `Config` does not look at `receive_timeout` and `retry_delay`;
  `NetworkConfigValidator` does (config.cpp:191, network.cpp:534). The latter
  refuses host names with a dash or a dot at an end.
* `NetworkClient` never raises `connections_created`, so its
  `connection_success_rate()` is always 1 (network.cpp:39, 677). The two counters
  of that rate are read one after the other and subtracted without a sign.
* A batch passes `max_batch_size_bytes` by its last item, because `is_full()` is
  asked before the item is added (batch.cpp:200). `BatchWithinLimits` says so.
* `start()` while another thread's `stop()` is joining assigns to a joinable
  `std::thread` and ends the process (batch.cpp:573). `NeverTerminates` is checked
  with one controller.
* `receive()` throws on an error, a connection reset by its peer among them, and leaves
  `state_` CONNECTED; so does a `send()` that meets anything but EPIPE and ECONNRESET
  (network.cpp:216, 259). `is_connected()` then says yes of a dead connection.
* A `Connection` that reconnects after a break does not close the old descriptor
  (network.cpp:87).
* A `Connection` send that times out half-way leaves a stump of its payload, and
  the next send follows it on the same socket (network.cpp:201).
  `PiecesTogether` allows a payload to be cut short, not to be mixed.
* `send_data()` has no time-out: a collector that stops reading keeps it, and with
  it the batch manager's mutex, for good (network.cpp:699).
* `shutdown()` can close and forget the socket of a send under way; if the number
  has come back as a file of the application, the frame is written into it
  (network.cpp:606). Hence `raced`.
* `::send` is called without `MSG_NOSIGNAL`, so SIGPIPE ends a process that does
  not ignore it (network.cpp:702).
* A batch that cannot be sent is dropped, without a retry and without an
  exception; `max_retries` is never read, and the batch counts as sent
  (network.cpp:677).
* The counters of `ClientImpl` lose updates (client.cpp:80); `NeverOvercounted`
  states what is left of them.
* The breaker closes on successes of calls from before it opened, if they are
  recorded in `HALF_OPEN` (utils.cpp:559).
* Events are put into a batch as separate buffers, and a reader that takes the
  root finds the first of them only (batch.cpp:303). This is why there is no
  `EventsAllArrive` beside `LogsAllArrive`.
* The time of a log is when its batch was serialized, not when it was written
  (batch.cpp:241).
* `user_id` is not written although events carry it (batch.cpp:61).
* `UC_FLUSH_INTERVAL_MS` sets the batch sizes back to 100 and 50, whatever
  `UC_BATCH_SIZE` said, and a batch size of 1 is halved to 0 for logs, which
  validation then refuses (config.cpp:386, 392).
* A port above 65535 is accepted by `Config`'s validation and cut to 16 bits by the
  network client (config.cpp:193, network.cpp:626); so is it by
  `NetworkConfigValidator`, which looks at what is left (utils.cpp:87).
* The two validations disagree on `host:80abc` and `host: 80`, which only
  `NetworkConfigValidator` takes, and on a port of 2^64 or more, which only `Config`
  takes (utils.cpp:86-91, config.cpp:193).
* `NetworkClient`'s own `connect()` reads the port with `std::stoi`, which throws for
  2^31 and more after both validations took it (network.cpp:626).

## What is not modelled

* Text and bytes: FlatBuffers' encoding, JSON's text, ids, hex, messages of
  errors, log output. The models carry values.
* `SystemMonitor`, time and string utilities, `Properties`: no behaviour over time.
* `ConnectionPool`, `NetworkEventHandler`, `ObjectPool`: declared without an
  implementation or a user. `BatchEventListener`: nobody calls it.
* Move operations: an object in use by other threads may not be moved.
* Memory ordering beyond the reads named above: plain fields are read and written
  in separate steps, and a stale read of `running_` is modelled.
* `NetworkStats` and the rates derived from statistics.
* `sleep_for` and `EAGAIN` in `send_data()`: the loop tries again, which in the
  model is the step that has not been taken yet.

## Plan

1. Proofs: the invariants that a run checks are proved. Left are lemmas on
   `ExponentialBackoff` (no delay but the first is above the maximum) and the bound
   on what a `Pacing` caller sleeps that follows from them.
2. `Client` over `Outbox` and `Channel`, as one abstract specification of the SDK.
3. Statistics: `NetworkStats` and the rates; `bytes_batched` and `reset_stats()` in
   `BatchManager`.
4. `initialize()` and `shutdown()` of several owners at once, and the async calls
   of `Connection` that hand out their future.

New runs and properties are to replace weaker ones or to be folded into an
existing run, so that the set stays small enough to be run as a whole.
