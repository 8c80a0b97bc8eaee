# Verification of moveon

TLA+ models, model-checking configurations and proofs for the program in `src/`: a thread pool and a
timing wheel (`src/utils/thread_pool.h`), a websocket server with a service registry and a message format
(`src/websocket_demo`), and some tools. `PROJECT.json` lists every component, run, mutant, finding, hazard
and theorem, and for each definition the lines it models.

## 1. Inventory

### Parts and how they interact

```
            main ──init──> thread_pool (global)            time_wheel (global)
              │                 ▲   ▲                            │ ticks, timers
              │ init/run/exit   │   └────────────────────────────┘
              ▼                 │ normal_task: doService(session, msg)
 clients ─> websocket_server ─> service_mgr ──> service_router ──> aaws_message
  (asio,     5 io threads       _services           get_uri          layout
 websocketpp)    ▲                  ▲
                 │ post / send      │ start / stop
            aaws_session <───── service_base (doService, on a worker)
```

- `main` starts the pool and the server, sleeps until SIGINT, and calls the server's `exit`.
- An io thread that receives a message makes an `aaws_message` and an `aaws_session` and commits both to
  `service_mgr`, which asks `service_router` for the uri, finds the service and queues a call of
  `doService` in the pool. The service answers through the session: `send` from the worker, or
  `async_send`, which posts to the io thread that had received the message.
- `time_wheel` uses the pool for its ticks and its timers. Nothing in `main` uses it.

### Components

| Component | State | Operations | What is hard | What makes it correct |
|---|---|---|---|---|
| `thread_pool` | three task queues, `m_current_run_thread`, `m_thread_num`, `m_exit`, `m_inited`, one mutex, one condition variable | `init_thread_pool`, `add_task`, `run`, `get_task`, `release` | notifications outside the mutex, `m_exit` raised outside it and read twice, counts that several threads change, a life of one task per worker | a task runs at most once, is not lost except by release, priorities hold when a worker chooses its task, nothing runs after `release` returned |
| `time_wheel` | position, slots with reusable entries, id map | `init_wheel`, `add_ms_task`, `add_s_task`, `cancel_timer`, `turn`, `process` | `cancel_timer` holds no lock; division and remainder at the wheel's boundary; entries reused in place | a timer fires once, at its turn; reuse loses no timer; a cancellation holds |
| `service_mgr`, `service_base` | map uri → service, uri of each service | `start`/`regist`, `stop`/`unregist`, `setUri`, `commit`, `get_service` | writers without the mutex that readers take; the map meanwhile incomplete | a message goes to the service last registered for its uri; a stopped service gets none |
| `service_router` | none | `get_uri` | which of several headers and options decides | the uri is taken from where the comment of `get_uri` puts it |
| `websocket_server` | `m_io_service`, `m_work`, `m_connecter`, `m_ss`, the library's server | `init_service`, `run`, `exit`, `is_conn_valid`, handlers | five threads insert into one map without a lock; connections known by address; io_services that stop without work; failure of `listen` | `m_connecter` is exact; a reply posted is a reply sent; SIGINT ends the process |
| `aaws_session` | handle, address, thread id | constructor, `valid`, `async_send`, `send` | it outlives its connection | `valid` answers for its own connection |
| `aaws_message` | header, payload | `append_exh`, `append_option`, `submit`, accessors | lengths, counts and widths of fields, order of parts, stale copy of the head | a receiver gets back what was appended |
| `websocket_client` | list of connections with status and recorded messages, the library's connections | `connect`, `close`, `send`, `quit`, handlers, destructor | status written on one thread and read on another; no close handler; shutdown against a late open | the status never contradicts the library; quit ends the process, unless a connection opens late |
| `file_helper` | the file system, the process's open files | delete, copy, create, write, list | recursion over a folder that changes, failure half-way, handles that are never closed | a success means that everything is there; nothing but the target is written; a failure has a cause |
| `cmd_tool_demo` | none | option loop | — | — |
| `websocketpp` | vendored library | — | modelled from its use | — |

## 2. Plan

In the order of their weight for the program:

1. `TaskLedger`, `ThreadPool`, `MCThreadPool`, `ThreadPoolProofs`: every message
   and every timer passes through the pool, so it comes first, with an abstract specification and proofs.
2. `TimeWheel`, `MCTimeWheel`, `TimeWheelProofs`.
3. `ServiceMgr` (with the router), `MCServiceMgr`, `ServiceMgrProofs`.
4. `WsServer` (server, session, main), `MCWsServer`, `WsServerProofs`.
5. `AawsMessage`, `MCAawsMessage`, `AawsMessageProofs`.
6. `MessageService`, `MessagePipeline`, `MCMessagePipeline`, `MessagePipelineProofs`: `ServiceMgr` and
   `ThreadPool` composed behind the server's io threads, the abstract specification of what becomes of a
   message, and the refinement.
7. `WsClient`, `MCWsClient`, `WsClientProofs`.
8. `FileHelper`, `MCFileHelper`, `FileHelperProofs`.

Every module of a component has its proofs, and every safety and action property of a passing run is a theorem.
Not done: the wheel and the pool together (a tick takes a worker's only task).

There is one passing run per component, and one failing run per disagreement that most deserves a counterexample.

## 3. The modules

**ThreadPool** (`src/utils/thread_pool.h:17-171`). A state holds the three queues, the counters and flags, and
for each thread where it is: a worker in `run` (`unborn, spawned, locking, deciding, parking, waiting, calling,
running, exited`), a caller in `add_task`, the releasing thread in `release`. A critical section is one step, except
in `run`: there the worker keeps the mutex between evaluating the predicate (`EvaluatePredicate`), which reads
`m_exit` once, and what follows (`Park` or `Decide`), which reads it again or gives up the mutex. That is where
`release`, which holds no mutex, can fall. A worker that `Decide`s to go on counts itself and unlocks; the call of
the task (`CallFunc`, line 121) is a step of its own, between which and the unlock any other thread may do anything,
call a later task included. `NotifyAll` moves waiting workers to `locking`; wake-ups for no reason
are allowed. What the code does and its comments do not say shows in the model as it is: `run` returns after one
task, `m_thread_num` is 0 until the end of `init_thread_pool` and −1 afterwards, so that the branch of `add_task`
that gives a task a thread of its own (line 79) is open only before that, and not when all are busy (line 81).

**TaskLedger** is the abstract specification: the fate of each task (`new, pending, working, detached, done,
discarded`) and two flags for `release`. Queues, locks and threads are hidden. `ThreadPool!FateOf` is the
refinement mapping: it reads a task's fate off the queues and the workers, so that a task popped and forgotten, or
called twice, would show as a step the ledger does not have.

**TimeWheel** (`thread_pool.h:173-313`). Time is counted in turns. A call of `init_wheel` yields one tick, posted
by a thread after a sleep; the tick turns the wheel and visits the entries of one slot, each in two steps (test and
post, then decrement), because `cancel_timer` (`CancelFind`, `CancelMark`) takes no lock and may fall between.
A cancellation remembers whether its vector has grown, or whether others held the mutex, in between. Slots run from
1 − ScaleCount, since C++ remainders of negative numbers are negative.

**ServiceMgr** (`service_mgr.*`, `service_base.h`, `service_router.*`). `regist` writes the map without the mutex
and is cut into search, insertion of a null pointer, and assignment; insertions that overlap may lose nodes, and a
lookup during an insertion may miss. `get_uri` is an operator on what a message holds: JSON that parses or not and
names a uri or not. `unregist` is modelled with its condition as it stands, which erases what it has not found. The
history variable `last` says which service is registered under a uri as far as its callers can know: the last one that
`start` has registered there, and none after a `stop` for that uri. A stopped service is therefore required neither to
stay in the map nor to have left it, except by `StopUnregisters`, which the code does not satisfy.

**WsServer** (`websocket_server.*`, `aaws_session.*`, `main.cpp`). `main` is a sequence of steps; io threads
register themselves (search, link, push of the work object) and then take events: connections open, messages
arrive, connections close, posted replies leave. A handler is one step: the library keeps the handlers of one
connection apart, and `m_connecter` is guarded by a spin lock. The address of a connection object may be used again
only when no handle keeps its memory; this is what `make_shared` in the library's `create_connection` gives.
A failed `listen` leads to state `ERROR` with a process that runs on, contrary to `websocket_server.h:50`.

**AawsMessage** (`aaws_message.h`). A payload is a head and parts at byte positions; accessors walk by the lengths
they read and return byte ranges. Sizes of the structs are computed from their members, with alignment (40, 10 and 8
bytes; the comments give every part header 8). Every length and count has its width: 16 bits for the length of an
extended header (`LenModulus`), 8 for the counts (`CountModulus`), 32 for all else (`WordModulus`: `len` of an option,
`exhlen`, `optlen`, `payloadLen`, and the offsets that the accessors add up). The payload itself, a string, is longer
if need be.
A part that is read where no header of its kind begins has an unknown length. The order of the calls matters:
a receiver looks for extended headers first.

**MessagePipeline** (`websocket_server.cpp:169-186`, `service_mgr.cpp:34-44`, `thread_pool.h`). `ServiceMgr` and
`ThreadPool` are instantiated over the same variables, io threads being the pool's callers and messages its tasks. A
worker takes a message up under the mutex (`TakeUp`), counts itself and unlocks (`Decide`), and calls `doService`
(`CallService`), in three steps. Each step is a step of one of the two, or of both where `commit` calls `add_task`.
New are the message that each io thread is in `on_message` for, and the strand by which the library keeps the
handlers of a connection apart. The model leaves `release`, `stop` and the other priorities out, which the server
never uses. `main` starts the pool before the server; that it starts no service (`main.cpp:47-48` is commented out)
is one of the behaviours, in which every message is rejected.

**MessageService** is its abstract specification: messages arrive on connections, one at a time each; each is
rejected or accepted, in the order of its connection; accepted messages are taken up in the order of acceptance; the
service is called for each at most once, after it was taken up. Nothing is said of the order of the calls: a worker
that is delayed between its unlock and its call is overtaken by another with a later message, also of the same
connection, and both calls may then run at the same time. Registry, queues, mutex, condition variable and workers
are hidden. `MessagePipeline!TakesUpInOrder` is the refinement: `accepted` is the order of the calls of `add_task`,
`taken` the order in which workers pop.

**WsClient** (`client/websocket_client.cpp`). The main thread runs commands and then the destructor, one connection
at a time; the io thread runs the library, whose connection states come from `websocketpp/impl/connection_impl.hpp`.
`m_status` is written on the io thread and read on main; `m_server` and `m_error_reason`, written there too, are
only printed and are left out. An open connection is open before `on_open` is called, in the same event, so that the
main thread sees `Connecting` for a while; `on_fail` comes in an event after the socket's shutdown, and nothing is
called when an open connection ends. The client is not part of the CMake build, and as it stands it does not compile
(`avos::LoadAvosProto`, line 130, and `namespace DCS`, line 17, are declared nowhere); neither has anything to do
with its connections, and the model is of the rest.

**FileHelper** (`utils/file_helper.h`). One call from outside, from any tree and any number of open files that earlier
calls may have left. `CopyFolder` is a stack of folders being read, one step per entry; an entry added to a folder
after `opendir` may or may not be read. The other functions are one step. A device may stop taking what is written, of
which `fclose` tells: `CopyFile` then fails with part of the data in the target, and with the source still open if it
was the target that could not be closed (`CloseFails`, lines 132-136), alone or in the middle of `CopyFolder`. Reading
does not fail. `CopyFile` writes the EOF that ends its
loop as one more byte (`feof` is asked before `fgetc`), and never ends for a folder; `DeleteFile` of a folder fails,
since it calls itself with the empty path; `CopyFolder` skips hidden folders and closes none.

`MC*` modules add definitions for TLC (sets of values, symmetry) and change nothing.

## 4. Runs

| Run | Shows | Bounds |
|---|---|---|
| `pool` | `EachTaskInOnePlace`, `ReleaseQuiesces`, `PriorityAtStart`, `LedgerSpec`, `ServedUnlessExhausted`, `ReleaseTerminates` | 2 workers, 1 caller, 3 tasks: more tasks than workers, two priorities queued while a third arrives, two workers woken by one notification. The callers meet only at the mutex; the proofs are for any number of them, and `pipeline` has two |
| `wheel_safety` | `FiresOnceWhenDue`, `NoTimerMissed`, `CancelAloneHolds` | 3 slots, delays −1 to 4 (past, none, below and above a revolution, exactly one), 2 timers so that an entry can be reused, 7 turns so that it can fire after reuse, 1 canceller |
| `service_registry` | `RegistryMatchesCalls`, `LookupAnswersLatest` | 2 services, 3 uris, 2 messages, routed by an extended header and by an option: a message before and one after a registration, two owners overlapping on one uri or on two |
| `server` | `ConnecterMatches`, `LostOnlyByRace`, `ValidTellsTheTruth`, `PostedRepliesLeave`, `InterruptEndsProcess` | 2 io threads, connections and addresses, 1 message: an address can be used twice, a reply can outlive its connection |
| `pipeline` | `TakesUpInOrder`, `EveryMessageAnswered`, `HandlersReturn` | 2 io threads, 2 connections, 3 messages, 2 workers, 1 service: two messages of one connection overtaking on different threads and workers, one more message than workers, messages before and after the service's registration |
| `message_layout` | `HeaderCountsPayload`, `SizeIsSubmitted`, `RoundTrip` | 5 parts, sizes 0, 3, 65535, 65536; a count of 2 bits, so that it wraps with 4 parts; words of 18 bits, so that four parts of the largest size wrap `exhlen`, `optlen` and `payloadLen` |
| `client` | `StatusFollows`, `OnlyPassedStayOpen`, `QuitEndsUnlessLateOpen` | 3 connections: one before, one at and one behind the destructor's place; 1 message |
| `files` | `CopyIsComplete`, `OnlyTargetsWritten`, `FailureHasCause`, `CrashHasCause`, `IntoItselfFails` | every tree over 6 places, two levels deep, one of them hidden; paths up to 4 names, so that a copy into itself goes down twice; 5 open files, any number of them used before the call; files of one byte; every `fclose` may fail |
| `pool_lost_exit` | `ReleaseEndsAllThreads` fails: the notification is lost | 1 worker, 1 task |
| `wheel_cancel` | `CancelTellsTheTruth` fails: the lock is a local one | 1 timer, 2 turns |
| `service_stop` | `StopUnregisters` fails: inverted condition | 1 service, 1 message |
| `message_option_at` | `OptionAtAgrees` fails: pointer arithmetic in heads | 2 parts |

The first eight pass; each of their properties has a mutant in `PROJECT.json`, a faulty variant of one definition
(kept beside it in the module) that makes the property fail. The last four each state what a comment of the source
says, and TLC shows a behaviour of the code that does otherwise. Three more are plain in the models and
have no run: `run` returns after one task, so that a pool whose workers are used up keeps even a task of the highest
priority for ever, which `thread_pool.h:68` says is started at once; `m_thread_num` is −1, so that a busy pool starts
no thread for one, as `thread_pool.h:81` says; and `get_uri` looks at no option of a message with an extended header,
though by `service_router.h:21-22` a message with exactly one option has its uri there. None of these is stated as a
property, since nobody would want it kept: `ServedUnlessExhausted` and `EveryMessageAnswered` except the pool whose
workers are used up, and the registry's properties are about the uri that `get_uri` gives, whichever that is.

The type invariants are not only types: that of the pool bounds the counted workers, that of the message format says
the parts lie end to end, that of the server that queues of posted replies hold only replies that wait, that of the
pipeline that an io thread has a message exactly while it holds a strand, that of the client that the library knows
exactly the connections of the list, and that of the files that the file system is a tree.

Deadlock is not checked: every bounded model ends when its tasks, timers or messages are used up, the client and
a call of `FileHelper` end, and the pool itself stops by design.

### Fairness

- `ThreadPool`: the scheduler runs every started thread (weak fairness); a mutex that is free again and again is in
  the end obtained (strong fairness of `EvaluatePredicate`, `Finish` and `ReleaseReturns`); bodies of tasks end.
  No fairness for callers, `release`, the end of the owner, or wake-ups for no reason. `ReleaseTerminates` needs the
  bodies to end, as does the code.
- `WsServer`: `main` and the io threads are scheduled, and each round of an io thread's loop polls its own
  io_service. Clients, services and the user owe nothing.
- `MessagePipeline`: as for the pool; `Commit`, which waits for the pool's mutex, is strongly fair, the rest of a
  handler weakly. Clients owe no message and owners no registration.
- `WsClient`: both threads are scheduled, and the library's two handshake timers end a handshake that the peer leaves
  open. The user owes no command, and an open connection may stay open for ever.

## 5. Proofs

All proofs are for every value of the constants. The assumptions are those of the modules: the pool's workers are
finitely many and at least one, `NoTask` is no task and `NoThread` no worker; `None` and `NoService` are none of the
things they stand beside; the client's bounds are natural numbers; the wheel has at least one slot, its delays are
integers and its bounds natural numbers; a message's headers hold JSON and its options data (`ContentAssumption`);
sizes of data are natural numbers and fields have a width, a word being wide enough for the size of a head
(`WordAssumption`); the trees that a call may find are trees of files of bytes within the depth
that the system allows (`TreesAssumption`), and its arguments are paths other than the root (`PathsAssumption`).

| Theorem | Says | Argument |
|---|---|---|
| `TypeCorrect` | `Spec => []TypeOK` of the pool | `TypeInv` adds: the counter is the number of counted workers, those that are about to call a task or inside one (else a decrement could leave its range), `core_num` has not passed 0 before the loop ends, and a worker without a task decides only after `m_exit` |
| `ReleaseIsQuiet` | `[]ReleaseQuiesces` | `ReleaseInv` adds: once `release` has begun `m_exit` stays up, so no worker counts itself; with `CountInv` a count of zero means that none is about to call a task or inside one |
| `PriorityIsRespected` | `PriorityAtStart` | `PriorityInv`: a worker between its two readings of `m_exit` holds the mutex, so nothing is queued between its choice and its counting itself; queues hold only tasks of their class. Of the call, which follows without the mutex, it says nothing |
| `TasksHaveOnePlace` | `[]EachTaskInOnePlace` | `PlaceInv` adds `WorkInv`: tasks called and not ended are those in the hands of running workers |
| `PoolImplementsLedger` | `LedgerSpec` | each step under `RefInv` is the ledger's step of one task, of `release`, or leaves the ledger alone; because every task is in one place, its fate can be read off the history variables as well (`FateIsBySets`) |
| `WheelTypes` | `[]TypeOK` of the wheel | `TypeInv` adds: a place that `add_ms_task`, the tick or a canceller remembers exists, ids in the wheel have been given out, and calls of `init_wheel` are threads asleep, posted ticks and turns |
| `TimersFireWhenDue` | `[]FiresOnceWhenDue` | `OnTime`: the turns a timer has waited, the way of the wheel to its slot and a revolution for each that is counted add up to what it is due for, which every turn, countdown and new entry preserves; `PostedOnTime`: an entry that still counts has not posted its timer, but for the one the tick is at |
| `NoTimerIsMissed` | `[]NoTimerMissed` | `StillWaiting`: a timer neither invalidated nor posted has an entry that still counts, because only entries below zero are reused; by `OnTime` such an entry is not overdue |
| `CancelAloneIsKept` | `[]CancelAloneHolds` | `StoppedInv`: a canceller that has been alone marks the entry it found; ids are unique (`UniqueIds`), so no other entry of the timer is left to be posted |
| `RegistryTypes`, `RegistryIsLatest` | `[]TypeOK`, `[]RegistryMatchesCalls` of the registry | `RegistryInv` adds: while no two owners have overlapped there is one writer, and what its search saw is still so when it inserts, assigns or erases |
| `CommitsFindTheLatest` | `LookupAnswersLatest` | by `RegistryInv` the lookup finds the service registered for the uri that `get_uri` gives, which is one of the uris (`UriIsKnown`) |
| `ServerTypes` | `[]TypeOK` of the server | one lemma per group of variables; queues of posts hold only replies that wait |
| `ServerConnecterMatches`, `ServerValidTellsTheTruth` | `[]ConnecterMatches`, `ValidTellsTheTruth` | `AddressInv`: connections in memory have different addresses, so an address found in `m_connecter` is that of the session's own connection, which its handle keeps in memory |
| `ServerLostOnlyByRace` | `[]LostOnlyByRace` | `MapInv`: without a race a thread that has linked its node is still in the map, and a thread about to link has seen every node |
| `ClientTypes`, `ClientStatusFollows` | `[]TypeOK`, `[]StatusFollows` of the client | `OpenedInv`: what the library's state says about whether a connection has ever been open, and which handler may be under way |
| `ClientOnlyPassedStayOpen` | `[]OnlyPassedStayOpen` | `VisitedInv`: behind the destructor's place every connection was passed over, or is closing or closed |
| `PipelineUsesPool`, `PipelineUsesRegistry` | the pipeline's behaviours are behaviours of `ThreadPool` and of `ServiceMgr` | each step is one of the component's, or leaves it alone; the theorems about the components thereby hold in the composition |
| `PipelineTypes` | `[]TypeOK` of the pipeline | `HandlerInv`: strands and threads are matched one to one, and two threads never have the same message |
| `PipelineTakesUpInOrder` | `TakesUpInOrder` | `FlowInv`: the messages committed are those taken up and then the queue, in this order, none twice (`InOrder`), and what a worker has in its hands or has called was taken up (`HandsTaken`); each step is then one of `MessageService` or a stutter |

| `TypeCorrect` of `AawsMessageProofs` | `[]TypeOK` of the message | parts lie end to end, because a new one begins at `bytes` |
| `HeaderAlwaysCounts`, `SizeStaysSubmitted` | `[]HeaderCountsPayload`, `[]SizeIsSubmitted` | `MessageInv`: each part begins where the one before it ends (`Placed`), and a head describes its parts: the header its payload, the submitted head the parts submitted (`Describes`). Counting and adding up in a field is doing so modulo its width (`CountedModulo`, `WordOfSum`) |
| `ReceiverAgrees` | `[]RoundTrip` | where the parts fit, words are the lengths themselves, and `Describes` says that the options begin behind `exhlen` bytes wherever the extended headers come first. No two parts are at the same place (`PlacesDiffer`), so what a walk reads where a part begins is that part's length, and it comes by the end of each part in turn (`WalkFollows`) |
| `TypeCorrect` of `FileHelperProofs` | `[]TypeOK` of the files | creating a path, or writing below a folder, leaves a tree; the frames are those of folders that exist |
| `CrashesExplained`, `OthersUntouched` | `[]CrashHasCause`, `[]OnlyTargetsWritten` | `CopyInv` adds: every frame is that of a folder and of the target that belongs to it, reached from the arguments without a hidden name, and no folder has become a file (`FramesFit`, `KindsKept`, `OnlyAllowed`) |
| `FailuresExplained` | `[]FailureHasCause` | `FailsForCause`: each place where a call gives up is one of the obstacles, seen from the tree before the call, which the copying cannot have made, or a file that could not be closed |
| `IntoItselfNeverEnds` | `[]IntoItselfFails` | `NeverOut`: as long as the copy runs, some frame has still to read the next name on the way to its own target (`Reenters`); when it reads it, the frame for that folder is such a frame again, one level deeper |
| `CopiesAreComplete` | `[]CopyIsComplete` | `NothingForgotten`: whatever could be reached and is not under the target yet has, on its way, a frame that must still read the next name; without frames nothing is left. What is under the target is the source's data and one byte more, of which the data are a prefix (`AppendKeeps`). `AllCreated` is the same of `CreateDir` |

Each inductive step has one case per action. The inductive invariants of `AawsMessage` and `FileHelper` were checked
by TLC on the bounds of their runs before they were proved.

The recursive functions of the models (the walk of the accessors, the parts of a kind, the size of a struct) are
proved about by two lemmas, each a consequence of the least-number principle: `RecursionExists`, that
a function given by its first value and its steps exists, and `UpTo`, that what holds of 0 and passes to the next
number holds of all. Where a tree is descended, the shortest path at which a claim fails takes their place
(`LeastExists`).

Only checked by TLC, not proved: the liveness properties (`ServedUnlessExhausted`, `ReleaseTerminates`,
`PostedRepliesLeave`, `InterruptEndsProcess`, `EveryMessageAnswered`, `HandlersReturn`, `QuitEndsUnlessLateOpen`),
which are out of the prover's reach, and the four disagreements, where the counterexample is the result.

## 6. Not modelled

- Data races beyond a lost or missed node of a map: a broken tree or a crash has no further behaviour to check.
- Two concurrent first calls of `init_thread_pool`; `release` called from inside a task (it waits for itself).
- Static destruction at the end of `main` while detached threads run on.
- `on_ping`, `on_pong` (no state), `on_validate` (accepts everything), printing, checksums (never computed).
- Accessors of a message called by its sender before it is sent, and reads beyond the bytes of a received message:
  their results are unknown. `dump_msg`, which `get_uri` calls, reads the length of a first option even if there is
  none.
- The end of a service object while calls to it are queued: nothing in the repository destroys a service.
- An exception thrown on an io thread (`service_router.cpp:23` for a uri that is no string) and on a worker.
- The wheel and the pool together: `TimeWheel` leaves open when, or whether, a posted tick runs.
- Of `file_helper`: `Chdir` and the functions that only read; links, permissions, and other processes that change the
  tree between two calls (`CreateDir` asks and then makes, line 240-242).
- `cmd_tool_demo`, a `getopt_long` loop without state, and the inside of `websocketpp` beyond the states of a
  connection and the use of its io_services.
