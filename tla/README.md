# Sensing Hub client libraries: a TLA+ model

This directory specifies the client side of the Sensing Hub: the libraries
under `utils/`, `session/` and `sessionlogger/`, and the example client. TLC
checks the specifications on small instances; TLAPS proves their safety
theorems for every value of the constants.

## The system

A client process talks to the Sensing Hub, a coprocessor, over an `ISession`.
Everything the process sends is an encoded request; everything it gets back
arrives asynchronously in callbacks that run on a thread of the session.

| component | state it keeps | operations | shares with |
|---|---|---|---|
| `qshWorker` (`utils/inc/qshWorker.h`) | `mTaskQueue`, `mAlive`, `mThread`, under `mMutex` and `mConditionVar` | constructor, `addTask`, `shutdownWorker`, destructor, `run` on its own thread | any number of client threads; its own tasks call back into it |
| `suidLookUp`, `locate` (`utils/src/suidLookUp.cpp`) | `mSuids`, `mLookupDone` under `mMutex`; a session and its callbacks | `lookUp` with a deadline, `requestSuid`, `handleQshEvent`, `onSuidsAvailable` | the session's thread writes what the caller waits for |
| `ISession` (`session/1.0/inc/ISession.h`) | open or closed, callbacks per UID | `open`, `close`, `setCallBacks`, `sendRequest` | implemented outside the repository (libQshSession) |
| `qshWakelock` (`utils/src/qshWakelock.cpp`) | `mSelf`; per instance `mAcqCount`, `mIsHeld`, `mFds`; the kernel's lock | `getInstance`, `acquire`, `release` | all threads of the process, and the kernel |
| `SessionClient` (`examples/SessionClient/SessionClient.cpp`) | `suidList`; a mutex, a condition variable and a session per phase | `getSuid`, `getAttributes`, `getSensorData` with `startStreaming` and `stopStreaming` | the session's thread |
| `qshTimeUtil` (`utils/inc/qshTimeUtil.h`) | `mOffsetNs`, `mLastRealtimeNs` (atomics) | conversions between the hub's ticks and the clock of the host, `recalculateOffset` | every thread that converts a timestamp |
| `qshJsonParser` (`utils/src/qshJsonParser.cpp`) | parser state, three maps (name to id, id to the way to reach it, id to the name of the link), `mIsFileParsed` | `loadFile`, queries | one thread |
| `qshPb` (`utils/src/qshPb.cpp`) | none | encoding of requests, decoding of events and attributes | called by the discovery and by clients |
| `sessionFactory` (`session/1.0/src/SessionFactory.cpp`) | the cached symbols of libQshSession (statics) | `getSession`, `getSensingHubIds`, `loadSymbol` | every thread that makes a session |
| loggers (`sessionlogger/`) | cached data type per UID; the diag shim's function pointers | `LoggerFactory`, `SensorsDiagLogger`, `NullLogger` | threads of several sessions |
| `qshSSR`, `qshTarget`, `qshLog`, `qshTrace`, `suid`, `apis/proto` | none, or one cached value | output, one-shot I/O, plain data, message definitions | |

What is hard in this code, and hard to test, is listed line by line under
`hazards` in `PROJECT.json`. In short: wakeups that may be lost between a test
and a wait; a shutdown that meets a running task, another shutdown or a
destructor; a deadline that passes while a callback is rewriting the result;
a session that is closed while a callback runs, or not closed on an error
path; a singleton made without a lock; a counted lock whose count and whose
lock may drift apart when the kernel refuses a write; an offset that several
threads measure and publish while they are preempted; static variables that
are filled in by one thread and read by another; a message that breaks off
when half of it is already with the client.

What makes the components correct:

- *Worker*: tasks run one at a time, once, in the order they were handed in;
  the thread never sleeps over work; after a shutdown nothing more is started
  and the thread is gone when the destructor is through.
- *Discovery*: `lookUp` returns in every case, with a whole list, the last one
  that arrived, and leaves no session and no callback behind.
- *Wakelock*: the kernel's lock is held exactly while samples are outstanding.
- *Client*: the phases after `getSuid` work on a list that was stored whole and
  stays as it is, although no lock guards it; no callback outlives the function
  whose locals it uses; what was started is stopped.
- *Clock*: a conversion errs to one side only, by no more than the preemption of
  the measurement it used, and bad measurements do not last.
- *Session libraries*: no call goes through a symbol that was not resolved; the
  shim does not change under a logger that uses it, and forgets every session.
- *Decoding*: what a client's containers hold is what the events decoded so far
  say, each by itself, and the result tells how far that is.
- *Parser*: what is stored about a hub is what one group of one file says of
  it, whatever was loaded, or broke off, before.

## Plan

1. `Executor` (abstract) and `QshWorker`, which implements it. Done.
2. `LookUp` (abstract) and `SuidDiscovery`, which implements it: `locate::lookUp`,
   `suidLookUp`, session and hub. Done.
3. `Wakelock`. Done.
4. `SessionClient`: the three phases of the example client. Done.
5. `JsonParser`: hubs, files and reloads. Done.
6. `TimeUtil`: updates of the offset by several threads, under clock steps. Done.
7. `SessionFactory` and `SessionLogger`: the two libraries that are loaded at run
   time, composed in `SessionLoading`. Done.
8. `PbDecode`: messages that break off, and what the result says of them. Done.
9. Several calls of `lookUp` on one `locate`, which `suidLookUp.h:74` rules out.
   Open.

Constants carry named assumptions, every operation is an action, and no module
uses RECURSIVE operators, so that each can be proved about.

## Modules

| module | what it is |
|---|---|
| `Executor` | what a worker promises: a serial FIFO executor that may be closed |
| `QshWorker` | `qshWorker.h`, with its mutex, condition variable, atomic flag and join |
| `QshWorkerMC` | instance for TLC |
| `QshWorkerProofs` | theorems about `QshWorker`, with the refinement of `Executor` |
| `LookUp` | what `lookUp` promises: whole lists, published while it is being asked |
| `SuidDiscovery` | `suidLookUp.cpp`, with the session and the hub as its environment |
| `SuidDiscoveryMC` | instance for TLC |
| `SuidDiscoveryProofs` | theorems about `SuidDiscovery`, with the refinement of `LookUp` |
| `Wakelock` | `qshWakelock.cpp`, with the kernel's lock |
| `WakelockMC`, `WakelockProofs` | instance, theorems |
| `SessionClient` | `SessionClient.cpp`, with the session and the hub as its environment |
| `SessionClientMC`, `SessionClientProofs` | instance, theorems |
| `JsonParser` | `qshJsonParser.cpp`, over files as sequences of items |
| `JsonParserMC`, `JsonParserProofs` | the files TLC loads, theorems |
| `TimeUtil` | `qshTimeUtil.h`, with the two clocks |
| `TimeUtilMC`, `TimeUtilProofs` | instance, theorems |
| `SessionFactory` | `SessionFactory.cpp`, with the memory its threads share |
| `SessionLogger` | `sessionlogger/`; extends `SessionFactory`, whose threads it shares |
| `SessionLoading` | the composition of the two: a logger belongs to a session |
| `SessionLoadingMC`, `SessionLoadingProofs` | instance, theorems about both |
| `PbDecode` | the decoding half of `qshPb.cpp`, with nanopb as its environment |
| `PbDecodeMC`, `PbDecodeProofs` | the messages TLC decodes, theorems |

Definitions whose comment begins with "Slip:" are no part of the
specifications. Each is one action with a plausible slip of the pen (a missing
notification, a forgotten `clear`, an off-by-one). Put in place of the action
it stands before, it makes the run find a violation of the property
`PROJECT.json` names under `mutants`: it shows that the property depends on
that line of the code.

### QshWorker

`pc` says where each thread is. A client is `idle` or inside a call; the
worker's thread is in the loop of `run`, inside a task (where it may make the
same calls as a client), or at `exit`. A step is the code between two points
at which another thread can take part:

| code | actions |
|---|---|
| `addTask` 92-103 | `AddCall`, then `Lock`, `AddTest` or `AddDrop` (the early return, or `push` throws), `AddPush`, `AddNotify` (notify and unlock) |
| `shutdownWorker` 64-77 | `ShutdownCall`, then `Lock`, `ShutEarly` (already shut down), `ShutTest`, `ShutClear`, `ShutNotify`, `Join` |
| destructor | `Destroy`, then the same steps, then the destruction of the members (`Returned`): a `std::thread` still joinable ends the process |
| `run` 107-137 | `RunLoop` (the test of `mAlive` outside the lock), `RunLock`, `RunTest`, `RunWait`, `SpuriousWakeup`, `RunPick` or `RunStop`, `TaskEnd`, `RunRelock`, `RunUnlock` |

A task that throws a `std::exception` ends like one that returns; any other
exception ends the process and is left out. A task that calls `shutdownWorker`
joins its own thread: `join` throws `resource_deadlock_would_occur`, which is a
`std::system_error`, so the task just ends. Names of threads (`setName`) are
left out. Clients do not call into an object that is being destroyed; its own
tasks may.

`Executor` is the promise: `Submit`, `Start`, `Finish`, `Close`, `Exit`,
`Abort`. `ImplementsExecutor` maps `pending` to `mTaskQueue`, `current` to the
running task and the phase to `mAlive` and the state of the thread; locks,
tests, waits and notifications are stuttering steps.

### SuidDiscovery

`pc` follows the caller of `lookUp` through the constructor of `suidLookUp`
(`GetSession`, `Open`, `SetCallBacks`), `RequestSuid`, the wait with its
deadline (`Lock`, `Test`, `SpuriousWakeup`, `Timeout`, `Relock`), the return,
which unlocks before it closes (`Unlock`, `Close`, `Closed`: locals are
destroyed in the reverse order of their declaration). `cbPc` follows the
callback: `Deliver` decodes a message, `Skip` is the filter on the done event,
`OnSuidsAvailable` takes the lock, `Clear` and `PushBack` rewrite `mSuids` one
element at a time, `CallbackUnlock` gives the lock back.

The session is external, after `ISession.h`: `getSession`, `open`,
`setCallBacks` and `sendRequest` may each fail; messages come only to an open
session with a callback and a request the hub knows; callbacks run one at a
time; `close` returns when no callback is running (the lambda refers to
members of the object whose destructor calls it, so the code rests on this).
The hub may send any message at any time, none at all, or be reset, after
which it has forgotten the request.

A message is a sequence of events. The first event that does not decode ends
the message; those before it are handed on (`Decoded`).

`LookUp` is the promise: `Ask`, `Publish` and `Return`, which gives the list
whether the deadline or the end of the discovery ended the wait, as the code does
(see the disagreements below). `ImplementsLookUp` maps its
list to `mSuids`, and to the list before while the callback is rewriting
`mSuids`; so `CallbackUnlock` publishes, in one step and a list as the hub sent it,
and every other step of the callback, the wait and the session changes nothing
that the caller may rely on. The refinement is about safety; that the call returns
is `LookUpReturns`.

### Wakelock

`getInstance` is four steps per thread, since nothing guards it: test `mSelf`,
construct, assign, read again. An instance is named after the thread that made
it. `acquire` and `release` hold the instance's mutex from beginning to end and
are one step each, one action per path: first acquire, nested acquire, refused
or failed acquire; release above zero, last release (whose write may fail),
refused release. Opening fails for both files or none. Without an
instance `getInstance(nullptr)` returns null and changes nothing, so it is a
stuttering step. All callers use one lock
name, so that there is one lock in the kernel. An `unsigned int` is
`0..MaxUInt`, and sums are taken modulo `MaxUInt + 1`. The destructor is
private and never called.

### SessionClient

`phase` is the function `main` is in: `getSuid`, `getAttributes`,
`getSensorData`. They have the same shape, so they share actions: get a session
(`CreateSession`), open it (`OpenSession`), for each UID register a callback
and send a request (`SetCallBacks`, then `AskSuids`, `AskAttributes` or
`StartStreaming`, which differ in what a failure does), wait (`Lock`, `Wait`,
`Relock`) or, when streaming, `Sleep` and `StopStreaming`, then `Close` and
`Closed`. `Return` is every `return`: `main` goes on or gives up, and what goes
out of scope is gone, the session too. A session that is deleted while open is
taken to be closed by its destructor, which is external code.

| code | actions |
|---|---|
| 298-321 and the same in `getAttributes` and `getSensorData`: session, loop over the UIDs | `CreateSession`, `OpenSession`, `SetCallBacks`, `LoopEnds` |
| 323-382 request for the UIDs; encoding errors return 1, which is true | `AskSuids` |
| 576-599 attribute requests | `AskAttributes` |
| 718-776 `startStreaming`: a sensor whose configuration cannot be encoded is skipped | `StartStreaming` |
| 385-389, 603-607 wait and `close()`, with the lock held | `Lock`, `Wait`, `SpuriousWakeup`, `Relock`, `Close`, `Closed` |
| 862, 788-825 sleep, `stopStreaming` | `Sleep`, `StopStreaming` |
| callbacks 242-275, 401-529, 619-698 | `SuidEvent` with `Clear`, `Resize`, `Assign`; `AttributeEvent`; `DataEvent`; `CallbackLock`, `Notify` |

What an attribute or data event carries is only printed, and left out. A
callback locks the mutex only to notify; the list itself is written outside
it, which is why `suidList` and `eventMutex` are separate here. When `main` has
given up (`"failed"`) the process exits, and a callback that still runs then is
not followed.

### JsonParser

A file is the sequence of what stands in its groups, in the order of the text:
items, configs, places where it is malformed. Entering and leaving a group
changes no state but `mIsClientCommGrp`, which an item of the group sets
(`Entered`), so nested groups are flattened. A string is a number or a name;
`Atoi` reads a name as 0. An item without `data` leaves an uninitialised buffer,
modelled as any string at all. One step of `ParseItem` is one call of
`updateSensingHubInfo`, with its chain of conditions (`Assign`), its three maps
(`Insert`, which does not overwrite, for names and ways to reach a hub; `Put`,
which does, for the names of links) and the end of a hub (`Forget`). A link that
is named before the id of its hub is stored under -1.
`LoadFile` is `loadFile` up to the parser, with its failures; `ParseConfig`,
`ParseBadConfig`, `ParseMalformed` and `ParseEnd` are the ways through
`parseFile`. `opened` and the `hub` of an item are history for the
properties only. A `soc_id` that is no number makes `stoi` throw, which nobody
catches: such files are left out. So are values of 15 and more characters,
which are cut off.

### TimeUtil

The QTimer (`now`) counts up, and the realtime clock is `now + skew`; `SetClock`
sets it. A conversion or `recalculateOffset` enters the update with a realtime
time stamp (`Enter`), which `qtimerNsToElapsedRealtimeNano` computes with the
offset as it is then. Each access to an atomic and each reading of a clock is a
step, since another thread, or the scheduler, may come in between:

| code | actions |
|---|---|
| 224-235 constructor: realtime first, then the QTimer | `Init` |
| 111-141, 126-130, 159-168 entry | `qtimerNsToElapsedRealtimeNano`, `elapsedRealtimeNanoToQtimerNs`, `recalculateOffset` |
| 186-195 whether a refresh is due | `Test`, `Due` |
| 196-214 the loop | `ReadQtimer`, `ReadClock`, `Store`, `Check` |
| 215-222 | `Publish`, `Return`, with `Result` as what the caller gets |

`Return` clears the locals. What is left out: ticks and their frequency, times
beyond 63 bits (line 205 keeps the offset then, as it does for a negative
realtime), and `getElapsedRealtimeNanoOffset`, which only reads.

### SessionFactory, SessionLogger, SessionLoading

The statics of `sessionFactory` are plain variables without a lock. A thread sees
its own stores at once and those of others when `Propagate` has made them
visible, in any order; compilers and ARM processors may do as much. `TestLoaded`,
`DlOpen`, `DlSym`, `CheckSymbols`, `CallGetSession`, `CallGetSensingHubIds` and
`ReturnFailure` are the steps of `getSession` and `getSensingHubIds` with
`loadSymbol`. There is one library: once found it stays loaded, with or without
each symbol. A data race is undefined behaviour, and nothing is claimed of a
process in which a thread tests `mSymbolLoaded` while another loads: `raced`
remembers it. So the property is about the paths of a process that asks for its
first session on one thread: failures, retries, missing symbols.

`SessionLogger` is `LoggerFactory::getLogger` with the constructor of
`SensorsDiagLogger`: `LockInit`, `CheckLibdiag` (looked for once), `DiagShimInit`
(looked for again while it cannot be opened), `ResolvePointer` per symbol and
`MakeLogger`, which gives the session a logger of the DIAG kind or the one that
logs nothing. The log methods read the pointers without a lock (`Log`), and the
destructor unregisters the session (`DestroyLogger`). `registered` is the shim's
memory. `getDataType` and `updateDataType` hold `sDtMutex` throughout and are one
step each; `label` is the pointer into the table that a caller keeps.

`SessionLoading` puts both on the same threads. Who calls `LoggerFactory` is the
implementation of `ISession` in libQshSession, so a thread uses a logger while it
has a session and lets go of it before the session is deleted.

### PbDecode

nanopb calls `decode_suids` or `decode_attributes` for each event of a message,
and stops at the first that returns false (`Fail`). An event has a kind, and is
`ok` or breaks off; `get_msg_id` gives no kind for one whose header does not
decode, and such an event is skipped as if decoded (`SkipEvent`).
`decode_attributes` calls back for each attribute, which writes to the client's
map at once (`SetAttribute`), before the rest of its event is decoded, whereas
`decode_suids` collects and appends at the end. A value is the set of fields that
are present, and a token for what they say; `Has` is the order of tests that sets
one flag at most. `status` is what the decoding returned.

## Runs

Every run of `PROJECT.json` is `tlc -config <cfg> <module>`.

| run | instance | what it shows |
|---|---|---|
| `worker` | 2 clients, 3 calls, everybody may shut down | the order, the wakeups, the shutdown and the destructor hold; tasks get started and shutdowns return; the worker implements `Executor` with its fairness |
| `discovery` | 2 UIDs, 10 different messages, 3 deliveries | the result is the last list, whole, nothing is left behind, `lookUp` returns; the discovery implements `LookUp`, whose list stays as it is after the return |
| `discovery_done` | the same | violation: the done event never ends a lookup |
| `wakelock` | 2 threads, an `unsigned int` of two bits, 5 calls | count, `mIsHeld` and the lock agree, whatever writes fail |
| `wakelock_two_instances` | the same | violation: two threads get an instance each, and one drops the lock the other counts on |
| `client` | 2 sensors, 5 different messages, 3 deliveries | the list is whole and stable, callbacks stay in scope, streams are stopped before the close, streaming ends |
| `client_lost_wakeup` | the same | violation: the list arrives before the wait, and `getSuid` sleeps for what it has |
| `client_close_deadlock` | the same | violation: `close()` is called with the mutex held that the running callback waits for |
| `json` | 14 files with up to two hubs, whole, foreign, broken; 3 loads | no entry of the three maps mixes two hubs or two files; every hub of a file read to its end is found |
| `clock` | 2 threads, a QTimer up to 3, two settings of the realtime clock, 2 measurements per update | conversions that refreshed err to one side; a published bad measurement does not outlast the updates |
| `loading` | 2 threads, 1 sensor with two data types, libraries that are missing or lack symbols | no unresolved call unless the loading was raced, a stable shim that forgets its sessions, data types that stay, no session without DIAG beside one with it |
| `pb` | messages of up to three events, whole and broken | the containers hold what the decoded events and attributes say, and the result tells whether that is all |

### Findings

Each is a violation that a run shows:

- `suidLookUp.cpp:260` ends the wait on a special data type, but `handleQshEvent`
  (line 247) filters exactly that event out. Every lookup lasts its whole
  timeout, also when all sensors answered at once. `ResultIsLastList` is what
  holds.
- `qshWakelock.h:24` calls the class a singleton; `getInstance` is not
  synchronised. The other properties of the wakelock are stated, and proved,
  for the executions with one instance.
- `SessionClient.cpp:384` waits "until all suids are received", but without a
  condition, and after the request is out: the notification may be over before
  the wait begins.
- `SessionClient.cpp:389` calls `close()` with `eventMutex` held, as does line
  607. A callback that waits for the mutex then never ends.

### Other disagreements between code and comments

Met while modelling. The models do what the code does; no run is spent on them.

- `suidLookUp.h:99-100` says that `lookUp` returns an empty vector if a timeout
  occurred. `lookUp` (`suidLookUp.cpp:316-325`) returns `mSuids` in either case: after a
  timeout the list that arrived, which is empty only if none did. Since the done
  event is filtered out (the first finding), every lookup that waited ends by its
  timeout, and under the comment none would ever find a sensor.
  `ResultIsLastList` is what holds.
- `qshWorker.h:61` says that `shutdownWorker` waits until the thread completes.
  Only the call that begins the shutdown does (`ShutEarly` is the other one).
  `FirstShutdownWaits` is what holds, and it is proved.
- `ISession.h:124` expects a client to call `close()`; the error paths of the
  example (lines 381, 598, 860, 868, and the encoding errors) return without it.
- `qshJsonParser.cpp:490` tests the result of `parseConfig` for 0, which fails
  with -1: a broken config counts as a parsed file (`ParseBadConfig`), and so does
  one for another device, although `qshJsonParser.h:39` says that `isFileParsed`
  tells whether the state was updated.
- `qshTimeUtil.h:155` and `182` return "true if offset changed": the update
  returns true whenever it was due, whatever it measured (`Publish`). Line 255
  speaks of the minimum offset; the last measurement is kept, not the best. Line
  251 calls `mLastRealtimeNs` the last time stamp converted; it is that of the
  last conversion which refreshed, computed with the offset before.
- `SensorsDiagLogger.h:148` says that the result of the search is cached: that of
  libdiag is, a shim that could not be opened is looked for again. The log
  methods return 1 on failure, where `SensorsDiagLogger.h:54` and
  `ISessionLogger.h:45` say -1.
- `qshPbSensorUtils.h:46` says that exactly one of the `has_` flags is set: an
  empty string, or a value without fields, sets none. That no value has two is
  part of `TypeOK` (`Flags`).
  Line 100 says that attributes are appended: a repeated id is overwritten
  (`AttributesHeardLast`). Line 93 says that an event which fails to decode gives
  false: one whose header fails is skipped with true. `ResultTells` is what holds.

### Bounds

- *Worker*: with two clients and the worker's own thread, three threads contend
  for the mutex, which is every pairing of caller, caller and loop. Three calls
  allow two tasks and a shutdown, or two shutdowns and a task, from any
  threads; the destructor does not count as a call. A queue of two is the
  shortest whose order matters. The safety theorems drop both bounds: they hold
  for any set of clients and any number of calls.
- *Discovery*: three messages allow a list, its replacement and a late one
  after the deadline. The messages have no list, one and two, lists of length
  zero to two, the done event alone, first and last, and an event that is
  rejected in the middle and in front. One `lookUp` is modelled: a second one
  on the same object reuses `mSuids` (a hazard no property covers yet).
- *Wakelock*: counts up to 3 with arguments 0 to 3 reach the overflow check on
  both sides; five calls reach acquire, nested acquire, failed release,
  takeover and release again. The run checks for deadlock: `Done` is the state
  where the bound is used up.

- *Client*: two sensors make loops of two turns and a list that can be seen half
  stored; three messages allow a list, another, and one that meets the close or
  the next phase. Lists of length zero to two, and one message that breaks off.
  The request asks for the default sensor only, and a hub that follows it sends
  one UID, but the code takes any list, and so does the model. The run allows
  deadlock: a client whose `close()` meets a waiting callback really stops,
  which is `client_close_deadlock`.
- *Parser*: three loads are a load that breaks off, one that follows, and one
  that sees what both left. The hubs of the files are described in full (QMI or
  GLINK, in three orders, the GLINK one with both ends of its link); malformed
  places stand after every kind of item that leaves a member filled. What
  becomes of a hub without a communication group no document says.
- *Clock*: a measurement may be repeated once (the code allows 20 in all) and
  takes too long as soon as the QTimer moves, so that both ends of the loop are
  met; three ticks are enough for one thread to be away between any two of its
  readings while the other measures twice. The realtime clock is set ahead or
  back once; the constructor may be interrupted by one tick. A refresh is
  due after two units. The threads are symmetric. The run stops at the last tick
  (no deadlock check). The theorems drop all of these bounds.
- *Session libraries*: two threads are one that loads or uses and one that races
  it or comes later; each opens and closes any number of sessions. Two data types
  suffice for a conflict. A crashed process stops (no deadlock check).
- *Decoding*: three events are a whole one, another of the same kind, and one
  that breaks off, in any order, with two attribute ids and up to two values; a
  message that was decoded stops.

### Fairness

- *Worker*: each thread inside a call, and the loop, takes its next step if it
  stays possible (weak); a thread that asks for `mMutex` again and again gets
  it (strong: `std::mutex` gives no order, and a scheduler that starves a
  thread for ever is not meant). Tasks end. Nobody has to call anything, and
  spurious wakeups need not happen.
- *Discovery*: both threads keep running (weak); the deadline passes (strong,
  as a spurious wakeup may take the thread out of the wait in between, and
  `wait_until` goes back to the same deadline); the lock is granted in the end
  (strong). The hub owes nothing: `LookUpReturns` holds without an answer.
- *Wakelock*, *Parser*, *Clock*, *Session libraries*, *Decoding*: none; all their
  properties are safety.
- *Client*: the main thread and the session's thread keep running (weak).
  The hub owes nothing. `StreamingEnds` is stated for the third phase, the only
  one that does not wait for the hub.

## Proofs

Each `*Proofs` module proves an inductive invariant of its specification and
derives the properties from it. The proofs hold for all sets of threads, all
bounds and all messages, given the named assumptions of the module
(`ThreadsAssumption`, `MessagesAssumption`, ...), which only say that the
constants have the types they are used with. Two theorems have a hypothesis beyond
that: `EntriesOfOneHub` and `HubsFound` are about files that describe their hubs
in full (`FilesInFull`, see below).

Every safety property and every action property of the runs without a violation
is the statement of a theorem.

**QshWorkerProofs.** `ServedInOrder` is inductive by itself, given types. The
others need to know where the mutex and the flag stand at each `pc`, so `IInv`
adds: `MutualExclusion` (who is between lock and unlock owns `mMutex`),
`TestedAlive` and `TestedIdle` (what was tested under the lock still holds at
the push, at the clearing of the flag and at the wait: this is what the lock is
for, and what makes `NoLostWakeup` inductive), `StopperInv` (the flag, the
stopper and the joined thread go together: it gives `FirstShutdownWaits`), and
`DestroyInv` (a destructor runs alone, and on whose join it depends: it gives
`StopsWhenDestroyed`). One lemma per part shows that it survives a step;
`Refinement` shows that every step maps to a step of `Executor` or leaves it
unchanged.

**SuidDiscoveryProofs.** `SessionInv` ties `pc`, the null pointer and the state
of the session together; `CallbackInv` says that a callback runs only on a
session that is open or closing; `MutexInv` says who owns `mMutex` at each
place; `CopyInv` says how much of the list is in `mSuids` while the callback
holds the mutex. From these follow `WholeList`, `ResultIsLastList`,
`NothingLeftBehind` and `StableResult`. For the refinement of `LookUp` it takes
`EventsInv` besides: whatever the callback still has before it is an event of a
message of the hub that decoded, so that what the unlock publishes is a list of
the hub; `CallbackInv` gives that nothing is published before the call and after
the return, `CopyInv` that it is published whole.

**WakelockProofs.** `PointerInv` and `UnmadeInv` say which instances exist and
that the others have never been used; `HeldInv` ties the count, `mIsHeld` and
the kernel's lock together for each instance as long as there is one;
`WrapExact` shows that the overflow check makes the sum modulo `MaxUInt + 1`
the true sum. `FlagIsTrue` is the part of `HeldInv` that later calls rest on: the
flag says what the kernel has, also after a drop that failed.

**SessionClientProofs.** `CopyInv` says how much of the list is stored at each
step of the callback; since nothing locks `suidList`, the proof that the later
phases find it whole goes through the session: `SessionInv` and `CallbackInv`
say that a callback lives only while the session is open or closing, and
`AskInv` that none exists before `getSuid` has sent its request, so that the
paths that return `TRUE` without one (the `return 1` of the encoding errors)
hand on the empty list and no half of one. `StreamInv` says that what streams is
at or behind the position of the stopping loop, which gives `StoppedBeforeClose`.

**TimeUtilProofs.** For `NeverEarly` the invariant says of every value in
flight that some pair of readings bounds it: the realtime a thread has read is
not before its QTimer reading by the clocks of some moment, hence the stored
offset is not below a skew there was. `Settled` rests on `OwedInv`: the offset is
accurate, or some thread has yet to test the measurement that is stored
or is measuring again; nobody stops measuring before its own test is passed.

**SessionLoadingProofs.** The factory's part says what each place of `loadSymbol`
has already resolved and that a visible or pending `mSymbolLoaded` implies both
symbols, unless `raced`. The logger's part says that the holder of `sInitMutex`
is the only thread in the search, that a shim with all pointers is never written
again, and that `libdiag`, once found, stays found, which gives `NeverDowngraded`.

**PbDecodeProofs.** Types, with the position inside the message, and at most one
flag per value (`AtMostOneFlag`: two would each be the first). `ResultTells` needs
`ResultInv`: the wanted events before the position and the attributes before `sub`
are whole, a decoding that returned true is behind the last event, and one that
returned false is at an event, and attribute, that is not whole.
`SuidsOfWholeEvents` says that the list
of UIDs can be cut into one piece per event; it is inductive: an event that is
decoded adds a cut behind the others (`NextPiece`), which stay the cuts of the
longer list (`PieceOfLonger`), and an event that breaks off or is skipped adds an
empty piece or ends the message. `AttributesHeardLast` compares positions: the
attribute decoded in a step is heard later than all others (`OneMoreHeard`), so
the entry it writes is the last one for its id, and for the other ids the last
one is what it was.

**JsonParserProofs.** Types, no mark of an unset member in a map among them, and
three results about the maps.

- `EntriesOfOneFile` needs no hypothesis: the members that describe a hub hold
  nothing but what the file at hand says (`Collected`), since
  `resetParserState` begins each load. It is about all three maps, and so is
  `EntriesOfOneHub`: a link is stored under the id of its own hub or under -1,
  never under the id of another one (`EndSaid`).
- `EntriesOfOneHub` and `HubsFound` are about hubs, and a parser that knows of no
  groups tells two hubs apart only by when it is through with the first. So they
  have the hypothesis `FilesInFull`: the items of a hub stand together; a hub that
  another one follows is described in full, with its id, its name, the type of
  its link, and the service (QMI) or the channels after the other end of the link
  (GLINK), each that counts once and with a value, and its last item is one of
  these; and so is every hub of a file without malformed places. Where a
  file breaks off it may leave a hub half described, which is the case
  `resetParserState` is for. Without the hypothesis `OwnEntries` does not hold:
  what a hub leaves unsaid stays in the members for the next one. The
  hypothesis is satisfiable: TLC evaluates it on the files of the run
  (`FilesInFullAssumption`).
- The invariant is `HubInv`. Of the hub at hand the members hold what its own
  items so far say, and which of the two map entries were made is known from
  which of its items were read (`Progress`); when the last one is read both
  were, and everything is forgotten (`BeginsClean`: nothing is left of a hub when
  the next one begins). What the finished hubs of the file said is in the maps and
  in the list of hubs (`FoundInv`, `HubIdsInv`), and later inserts remove nothing
  (`MapsGrow`). `HubInv` was checked by TLC on the files of the run before it was
  proved.

Only checked by TLC: the liveness properties (`EventuallyStarted`,
`ShutdownReturns`, `LookUpReturns`, `StreamingEnds`), the fairness of `Executor`
in `ImplementsExecutor` (its initial state and its steps are proved, in
`QshWorkerProofs!Refinement`), and the violations. Liveness under fairness is
beyond the provers used here. `ShutdownCloses`, and `ListIsWhole` and
`ResultIsStable` of `SuidDiscoveryProofs`, are proved only: they are implied by
the refinements that the runs check, or by the other properties of the run.

## Not modelled

- A second `lookUp` on the same `locate`.
- `libQshSession`, the transport and the hub: outside the repository. What is
  used of them is modelled as the environment of `SuidDiscovery`, `SessionClient`
  and `SessionLoading`.
- `nanopb` and the byte streams: an event is decoded or rejected. The encoders of
  `qshPb`, `decode_string`, `decode_float_array` and `decode_repeated_enum` copy
  bytes between nanopb and a container and keep no state; `printHex` prints.
- `qshSSR`, `qshLog`, `qshTrace`, `qshTarget`: output, or one value read once.
- Allocation failures other than the one in `addTask`'s push, and exceptions
  that are no `std::exception`: they end the process.
