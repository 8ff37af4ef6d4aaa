# A verification project for ExLibs

ExLibs is a C++ utility library: an event queue, a TCP client and server with a
request/response layer, inter-process communication over shared memory (one
implementation for Unix, one for Windows), a module manager, a SQLite manager,
Windows service helpers, strings and Qt widgets. It has no tests and hardly any
documentation; the reference for everything below is the code under `src/`.

This directory holds TLA+ modules that model components of the library, TLC
configurations that check them on small instances, and TLAPS proofs for
instances of any size. `PROJECT.json` relates every definition to the lines it
models and lists the runs, the deliberate mutants that show each property can
fail, the hazards of the code, the findings and the theorems.

Contents: 1 inventory, 2 modules and the code, 3 runs, 4 findings, 5 proofs,
6 what is not covered, 7 plan.

## 1. Inventory

### Event queue — `Util/ExDataStruct.hpp`
- **State** `_queue`, `_lck`, `_cvQueue`, `_isStop`. **Operations** `DeQueue`
  (blocking), `EnQueue`, `Stop`, `Size`.
- **Used by** the handler threads of the server, the notify thread of the module
  manager, the workers of the Windows IPC server (the Unix one has a variant).
- **Hard** `Stop` writes the flag without the mutex and sends one `notify_one`; a
  consumer can be between its test and its `wait`. One notification per item must
  do for any number of consumers.
- **Correct when** no item is overslept, items come out once and in order, and a
  stopped queue lets out those who are awake.

### Network client — `Network/EXNetwork.cpp` (`cNetwork`, type client)
- **State** `_spTCPClient`, `_msgIdSeq`, `_mapPendingRequests` under its mutex, the
  receive thread. **Operations** `Connect`, `DisConnect`, `Send`, `SendAndWait`,
  `clientReceiveThread`.
- **Interaction** application threads file promises; the receive thread takes them
  out under the mutex and fulfils them after releasing it.
- **Hard** a time-out against a late answer; a send that fails after the promise was
  filed; MSGIDs that client and server number independently; reconnecting.
- **Correct when** every call returns, no promise is lost, leaked or set twice, and a
  call only ever gets the answer to itself.

### Network server — `Network/EXNetwork.cpp` (`cNetwork`, type server)
- **State** `_mapUUIDToClientInfo` under `_lckClientMap`; per client a receiver object
  with its thread, and a handler object with its thread and event queue.
  **Operations** `serverListenThread`, `receiveThread`, the handler thread,
  `SendToClient`, `SendToAll`, `SendToClientSocket`, `DisConnect`, `DisConnectAll`.
- **Hard** the life times of sockets, objects and threads: a receive thread ends
  itself (detach, erase own map entry, destroy the object it runs in) or is ended by
  the application (join under the lock), and both may happen at once.
- **Correct when** nobody uses a closed socket or a destroyed object, and every client
  that leaves is released.

### Wire format — `convertSendMsg`, `convertReceiveMsg`, `Receive`, `Send`
- **State** a byte stream and the loop variables of `Receive`.
- **Hard** three pieces of code read one header: what the size counts, signed chars,
  unsigned subtraction, pieces of any length from `recv`.
- **Correct when** what comes out is what went in.

### Modules — `Module/EXModuleBase.cpp`, `Module/EXModuleManager.cpp`
- **State** per module `_eState` and `_isRunning`; the registry
  `_mapModuleNameToModule` under a `std::shared_mutex`; `_notifyQueue` and the notify
  thread. **Operations** `ModuleInit/Start/Stop/Final`; `RegisterModule`,
  `UnRegisterModule`, `NotifyAllModule`, `NotifyGroupModule`, `GetModule`.
- **Hard** check-then-insert under two locks, hooks run with the lock held, recursive
  locking, the registry walked without its lock while it grows.
- **Correct when** a module that is found is initialised, its hooks run one at a time in
  life-cycle order, jobs arrive once and in order, and unregistering finalises.

### Unix IPC — `IPC/EXIPC_unix.cpp`, `IPC/EXIPC_unix.h`
- **State** a slot in shared memory and a named semaphore per server and per client
  process, a data segment for large payloads, an event queue of its own.
  **Operations** `CreateIPC`, `DestroyIPC`, `SendIPC`, `CheckIPC`, main and worker threads.
- **Hard** processes that crash holding a semaphore, late answers, two generations of a
  semaphore under one name, a data segment that outlives its slot's turn, a `std::string`
  in shared memory.
- **Correct when** a request is served at most once and its answer reaches its call.

### Windows IPC — `IPC/EXIPC.cpp`, `IPC/EXIPC.hpp`
The same protocol with file mappings, mutexes that may be abandoned and several workers.

### Format strings — `String/EXFormat.hpp`
- **State** the flags and counters of the parser's loop. **Operation** `Format`.
- **Hard** one character at a time, with flags that outlive a placeholder and ways through the loop that
  skip its test for the end.
- **Correct when** the parser returns and a string means what its items mean one by one.

### SQLite manager — `SQLite/EXSQLite.cpp`
A map of databases, handles, transactions committed by a destructor. Sequential; what is
hard are sequences of calls (`Close` leaves its entry, `InitDB` may fail half way).

### The rest
Windows service helpers (`Windows/EXService.cpp`: waiting for a service to stop), sessions
and processes, `Singleton`, strings, paths, Qt widgets, and vendored code
(sockets' SSL classes, qtservice, SQLite, JSON, UUID).

## 2. Modules and the code

Each module is written so that it can be proved about: constants with named assumptions,
one action per step, no recursive operators. An action is a piece of code between two points
at which another thread can make a difference; in the comments of a module `...` marks where
an operation is cut. History variables are named as such and no action reads them.

| Module | Models | State in the model |
|---|---|---|
| `FifoQueue` | what the event queue promises: items out in order, at most one after it was closed | `queue`, `closed`, histories |
| `EventQueue` | `Ext::Queue::eventQueue`, threads that call its three operations | `queue`, `isStop`, `lck`; a thread asleep in the condition variable is one whose `pc` is `"waiting"` |
| `NetworkRequest` | `Send`, `SendAndWait`, `clientReceiveThread`, client `Connect` (first and again) and `DisConnect`, and a server that answers, pushes, closes | `pending` is `_mapPendingRequests` (MSGID to call), `value` the shared state of the promise, `rcall` the promise in the receive thread's hands, `rpc` where that thread is and on which connection, `cpc` where `Connect` is |
| `WireFormat` | the eight header bytes, written once and read twice | operators only |
| `Framing` | a sender, a TCP stream, `Receive` and `convertReceiveMsg`, byte for byte | `wire`, `buf`, `total`, `uMaxSize` as in the code |
| `NetworkServer` | listen, receive and handler threads, `DisConnect( sUUID )`, `DisConnectAll` | `map`, `sock`, `alive` (the receiver exists), `th` (its `std::thread`: joinable, detached), `rpc`/`hpc` (where its threads are) |
| `ModuleLifecycle` | what a module sees: its hooks, one at a time, in order | `state`, `hook` |
| `ModuleManager` | the registry, its lock, the life-cycle operations and the notify thread | `map`, `writer`/`readers` (the shared mutex), `state`, `running`, `queue`, `at` (the iterator), `raced` (modules of which two threads have passed the test of `_isRunning`) |
| `RequestBox` | what the request side of the IPC promises: requests in order, each served at most once | `waiting`, histories |
| `IpcUnix` | `SendIPC`, `CheckIPC`, `DestroyIPC`, the server's main and worker threads, processes that die | `slot`/`reqData` (the server's segment), `data` (the DATA segment), `sem` and `serverSem` (who holds which semaphore), `shmName`/`semName` (what a process's names lead to), `answer` (per response segment) |
| `FormatString` | `cFormat::format_trans` | `pos`, `isPlaceHolder`, `isType`, `isBracket`, `sType`, `nIndex` (a `short`, which wraps), `nArgsIdx`, `sRet` as in the code |
| `MC…` | constants for the runs; `MCConversions` puts `FormatString` and the operators of `WireFormat` in one run | |
| `EventQueueProofs`, `NetworkRequestProofs`, `NetworkServerProofs`, `ModuleManagerProofs`, `IpcUnixProofs`, `FramingProofs`, `WireFormatProofs`, `ConversionsProofs` | theorems (section 5) | |

Composition. `Framing` extends `WireFormat`. `NetworkRequest` carries whole packets, as `Framing`
shows for bodies of one to seven bytes, together with what `Framing` shows to be lost: one
`Receive` may swallow the packets behind the one it returns. `NetworkServer` takes the handler's queue as
a counter and takes over from `EventQueue` that a consumer between its test and its `wait`
sleeps through `Stop`. `EventQueue` implements `FifoQueue` (`closed <- isStop`), `ModuleManager`
implements `ModuleLifecycle` (`hook <- ` the hook some thread is in), `IpcUnix` implements `RequestBox`
(`waiting <- ` the server's queue and behind it the slot: the main thread's copy from one to the other is a stutter).

`NetworkRequest`: the application may connect again. `Connect` first closes the socket it has, connects (`Connect`), then joins the
old receive thread (`Joined`), then starts a new one. What the old thread does depends on where it is (`LeaveBehind`):
- in `recv` on the old descriptor, as it nearly always is: on Unix `close()` does not wake it. It stays there (`rpc = "stale"`) until
  the server sends on, or closes, the old connection, and nothing obliges a server to do so. It then ends (`StaleEnds`), fails and loops on
  (`StaleFails`), or has four bytes of the old connection (`StaleData`) and takes the rest of the packet from the new one (`MixedPacket`).
- elsewhere in its loop: it goes on with the new socket, for `Receive` on a closed one returns -1 and not 0, which does not end the loop.
  Then `Connect` waits until the new connection ends.

After a first `recv` that fails `Receive` counts -1 bytes and goes on; with a new connection in the socket's place the next bytes would be
written before the buffer, which is undefined and left out: in the model such a `Receive` fails.
On Windows, where `closesocket` makes the `recv` fail, the thread is in the second case.

`IpcUnix`, action by action:
- A sender goes through `SendIPC` in the order of the code: create the names (semaphores are unlinked first and made anew, a segment is kept if its name exists), wait for the server's
  semaphore, look for a free slot (`hasRequest`), write it, post; then, round by round, wait for its own semaphore and look at
  `hasResponse`; give up after the time-out; unlink. `CheckIPC` is the kind `"check"`: its answer comes with a DATA segment.
- The main thread copies the slot into the queue in one critical section of the server's semaphore; if the sender has died,
  it clears the slot instead.
- A worker dequeues, fetches the body (from DATA for a large request, the slot being free by then), calls the callback, opens
  the sender's names, and writes the answer under the sender's semaphore.
- `DestroyIPC` closes and unlinks the names (`Unlink`, one step for the slot's and DATA's names), stops the threads, joins them; an idle worker
  does not notice. Its destructors close every descriptor and semaphore a second time, before the threads are stopped: a worker that
  opened its sender's segment or semaphore after the first closing may have got the number, and loses it at any moment from then on (`ClosedTwice`;
  `late`, `lost` say who can lose what and has). `sem_wait` and `sem_post` on a closed semaphore fail, which nobody looks at
  (`Enters`, `Acquired`, `Released`); a closed segment cannot be mapped (`RespondFails`). This is the macOS build, where a `sem_t*` stands for
  a descriptor. With glibc the handle is shared and counted per process, and what the second `sem_close` takes is the main thread's reference.
- A sender's process may die at any step (`Crash`), and so may the server's (`ServerDies`), whose threads may all hold something. Semaphores stay as
  they are (POSIX semaphores are not robust): `Server` is the holder of what the server's process has left held.
- Names are made from the process id, so all calls and threads of a process share them. A segment is
  named in the model by the call that created it, and `shmName`, `semName` say which one a name leads to.
- The slot's `std::string` keeps the sender's name inline, as libc++ does for names this short; the code expects the error of macOS
  when a segment is opened again (`EINVAL`, line 131). With libstdc++ the name is a pointer into the sender's heap, and the behaviour
  undefined.
- `CreateIPC` is the initial state, and a server that died is not created again. The callback takes the response data by value, so an answer carries data for
  `CheckIPC` only. The DATA segment is only `sizeof( stIPCData )` long: a larger request is outside the model.

Where the C++ standard leaves a behaviour undefined the model has the outcomes builds
produce: `std::shared_mutex` locked twice by one thread throws or blocks for ever
(`deleteModuleRelocks`), and shared over shared succeeds unless a writer waits and has
priority (`WriterPriority`). The notify thread's walk over a map that grows at that moment, a data race, may miss a module or come
to it twice (`strayed` marks the job).

## 3. Runs

Every property of a passing run is broken by a mutant: the original action has a mutated copy
next to it (`Action_WhatIsWrong`), never used by a specification.

| Run | Bounds | What it shows |
|---|---|---|
| `eventqueue` | 2 consumers, 2 producers, 2 stoppers, 3 items | no lost wake-up, implements `FifoQueue`, delivery, awake consumers get out |
| `request` | 2 callers, 2 calls, 1 push, 1 reconnection, 4 MSGIDs | promises are neither lost, leaked nor set twice; no answer reaches another call; calls return; what comes in is received, after reconnecting too, and `Connect` returns when the connection it made ends, unless the old receive thread is still in the `recv` of the closed one |
| `conversions` | all 16-bit words of four-bit chars; format strings of up to 3 items, indexes up to and beyond what a `short` holds, 1 or 2 arguments | every header field is read back by `convertReceiveMsg`, and by `Receive` when no byte has its top bit set; format strings render item by item and the parser returns, with the exceptions the properties name |
| `framing` | 3 packets, three ways of sending | what comes out is a subsequence of what went in, and all of it where the size counts the header or packets go one at a time |
| `server` | 2 clients, 1 packet each, one application thread | sockets outlive their handlers and receive threads; receivers are destroyed under a thread in one window only; closed clients are released |
| `modules` | 2 names, 2 modules, 2 threads that register, find, start, stop and unregister, no jobs | found modules are initialised; hooks follow the life cycle until two threads have passed the test of `_isRunning` |
| `modules_jobs` | 2 names, 2 modules, 2 threads, one of which starts and stops, 2 jobs | jobs arrive once, in order, and at every started module |
| `ipc_unix` | 2 threads in any of 2 processes, 2 calls (small or check), 2 workers, 1 sender dies, `DestroyIPC` at any moment after 2 calls began | implements `RequestBox`; answers are to one's own call, bodies and answers whole, with the exceptions the properties name |
| `ipc_unix_live` | 2 processes, 2 large requests, 1 worker, 1 sender and the server may die, `DestroyIPC` between the calls' beginnings | `SendIPC` and `DestroyIPC` return, requests are served, with the exceptions the properties name |
| `request_push`, `framing_large`, `server_hang` | smaller | findings 1 to 3 of section 4, as counterexamples |

Why the bounds are enough. `eventqueue`: each hazard needs one consumer between test and
wait, one asleep or woken, and two items or an item and `Stop`; a third item lets the first two
be under way. `request`: a late answer needs a second call to meet, a push needs the MSGID
of a call; both callers matter because each erases from the shared map. `framing`: the third
packet shows where the stream is picked up again after the second was swallowed; the sizes cover
less, equal and more than the seven bytes at which the unsigned difference turns over. `server`:
clients share only the map and its lock, so one that ends itself and one that is ended cover
what two threads can do; `DisConnectAll` needs two entries. `modules`: the
race for a name, or for a module's `_isRunning`, needs two threads, order in the map two names; `modules_jobs`: order needs two jobs. `ipc_unix`: two
calls of one process let a late answer meet a later call, two requests in DATA overwrite each other (a check goes through DATA as a large request
does, and its answer too), two threads of one process collide in their names, and a
death meets a survivor; two workers answer at once; `DestroyIPC` meets workers about to answer either call. Time-outs are possible at every round. `ipc_unix_live`
drops a worker, and kinds that wait in no other place, and has the server die instead. `conversions`: the parser carries nothing from one item to
the next but its flags, `nIndex` and `nArgsIdx`; the indexes are small ones, the largest of a `short`, and those that wrap to a negative
number, to -1 (no index) and to 0; three items are one that leaves something, one in between and one that is affected.

Fairness. Threads run (`WF`), mutexes are granted (`SF` for a lock that is free again and again),
TCP delivers, `wait_for` returns after its time, hooks and handlers return. Nobody is ever obliged to
call an operation, a peer to answer or to close, or a condition variable to wake without cause.
In `IpcUnix` every loop sleeps 10 ms between two rounds, so each thread gets a semaphore that is free again and again (`SF`);
a time-out is certain only while the semaphore is held by someone who will give it back, for `sem_wait` itself has none.
No step of `NetworkRequest` obliges the server to send on, or to close, a connection that the client has closed, so nothing wakes a stale `recv`.
Where a wait may be endless in the code, it is in the model: the liveness properties say
`\/ isStop`, `\/ hpc[c] = "overslept"`, `\/ touched # {}`, `\/ Hung`, and these disjuncts are part of what they report.

Deadlock is off where a system may stop by design: all bounded calls made, the connection
closed, a consumer asleep for good after `Stop`.

What holds only with a qualification:
- `Reliable` in `Framing`: with the size field that `convertSendMsg` writes, back-to-back packets may be
  swallowed; only `SubsequenceOfSent` holds.
- `PacketsReceived` and `ConnectReturns` except a receive thread that is in the `recv` of a closed connection (finding 5): no packet of the new
  connection is read then and `Connect` does not return. Otherwise `ConnectReturns` speaks of connections that the server closes and the
  application does not disconnect meanwhile: in all other cases the old receive thread lives, and `Connect` waits for it.
- `HeaderReadBack` excepts, for `Receive`, the sizes with a byte of 0x80 or more (finding 6).
- `CallsReturn` of the requests leaves out a `send` that blocks because the server reads nothing.
- `AnswerIsOwn`, `BodyIntact`, `CheckAnswerWhole`: a process that has given a call up, or has two threads in `SendIPC`, may take
  the answer to another of its calls: one call given up may shift all later answers of its process, each by one call. A large
  request, or a check, may be served with the body of a later one. An answer to a check may lack its data once `DestroyIPC` has closed a worker's
  descriptors. Each exception is a behaviour TLC found.
- `CallsReturn` of the IPC: a caller may stay in `sem_wait`, in the first loop at a semaphore of the server that a dead process holds, in the second
  at its own that the server died with or a worker could not give back (findings 9 and 10). `DestroyReturns` excepts an idle worker, asleep in
  `DeQueue`, and threads at such a semaphore.
- `NotifiedInOrder` and `JobReachesModule` except the one job whose walk races with an insertion; `JobReachesModule` also modules that are replaced
  by a second registrar of their name, and a registry that `UnRegisterModule` left locked (finding 8).
- `RendersItems`: `{n:b}` leaves `isType` set and the next placeholder is dropped; a last `{:x}`, or a last
  `{:b}` without its argument, lets the parser read beyond the string. `Terminates`: `{x}` makes the parser loop for ever, and so does
  `{32768}`: the `short` wraps to a negative number, for which no branch is taken. `{65536}` wraps to 0 and renders the first argument, `{65535}` to
  -1 and takes the next one; `RendersItems` excepts indexes above 32767.
- `SocketOutlivesUsers`, in its second part, leaves out clients the application has begun to disconnect. `ReceiverOutlivesThread` holds of all clients and
  allows one window: a receive thread that detached itself between the application's `joinable()` and the destruction of its receiver
  goes on in a destroyed object (finding 4). `MapEntriesOpen` excepts what is left when `join` throws out of `DisConnectAll`.
- `ImplementsLifecycle` says of a module that its hooks run one at a time and in order until two threads have both passed the test of `_isRunning`
  before either has set it (`ModuleLifecycle` calls it lost); from then on they overlap.
- `JobReachesModule` speaks of all started modules, also for `NotifyGroupModule`: the code queues the jobs without
  the group (`EXModuleManager.cpp:95`), so modules of every group are notified (finding 7).

## 4. Findings

1. **A pushed packet is taken for a response** (`request_push`). `SendToClient` and `SendToAll` number packets from
   the server's own counter, which starts at 1 like the client's; the client matches by number alone.
2. **Bodies of more than eight bytes lose their last eight** (`framing_large`). The sender announces the size of the
   body, the receiver counts the header in it.
3. **`DisConnect( sUUID )` and the client's own closing wait for each other** (`server_hang`). The first joins the receive
   thread with the lock held that the thread takes on its way out.

The following were met in passing runs: the behaviour is in the model, and the property named here excepts it and nothing else.

4. **A receiver is destroyed under its thread** (`server`, `ReceiverOutlivesThread`). The thread that stops itself detaches, and a `DisConnect` of
   the application that finds it detached does not wait; if it detaches between `joinable()` and `join()`, `join` throws.
5. **Connecting again may never return** (`request`, `ConnectReturns`, `PacketsReceived`). The join waits for a thread in the `recv` of a
   descriptor that was closed, and nobody reads the new connection.
6. **A size byte of 0x80 or more is sign-extended** (`conversions`, `HeaderReadBack`). `Receive` waits for 2 GB or more; `SignedSizeHuge` proves it of every
   such size.
7. **`NotifyGroupModule` notifies all groups** (`modules_jobs`, `JobReachesModule`). The job is queued without the group.
8. **`UnRegisterModule` never finalises** (`modules_jobs`, `JobReachesModule`). `deleteModule` locks the registry's mutex twice: it throws, or
   hangs with the registry locked.
9. **`SendIPC` may wait for ever in spite of its time-out** (`ipc_unix_live`, `CallsReturn`). A process that dies between `sem_wait` and `sem_post`,
   the server's included, leaves the semaphore taken.
10. **`DestroyIPC` closes everything twice** (`ipc_unix_live`, `CallsReturn`; `ipc_unix`, `CheckAnswerWhole`). The second time it may be a worker's.

## 5. Proofs

Each component's inductive invariant `IInv` is defined in its proof module; TLC checked it, and the definitions of the theorems that
no run states, on the bounds of the runs before they were proved (but for `StreamInv` of `FramingProofs`: it says
that functions exist, among more than can be enumerated). Invariants that a run checks are stated there and proved here for any
size of the constants. An action property says what no step does: there the proof has one step per action.

### `EventQueueProofs`
For any finite set of consumers and any producers, stoppers, items and bound (`ThreadsAssumption`,
`MaxEnqAssumption`). The inductive invariant `IInv` joins type correctness, mutual exclusion
(`LockInv`), what a consumer knows when it is about to sleep, leave or pop (`SleepSawEmpty`, `LeaveHasItem`,
`PopHasItem`: they are needed because those steps rely on a test made earlier), the bound on pops after `Stop`
(`LateInv`), and the two wake-up properties. `NoLostWakeup` is a statement about cardinalities: the
length of the queue is at most the number of consumers that will look again plus the notification
still owed; the counting lemmas say how `Looking` changes when one consumer moves. `DeliversInOrder` and
`Refinement` follow: every step is a step of `FifoQueue` or leaves its variables alone.

### `NetworkRequestProofs`
For any callers, calls and pushes (`BoundsAssumption`, `NoPacketAssumption`) with fewer calls than MSGIDs (`IdsSuffice`:
with more, an id may come round while its first call still waits). The wanted invariants are not inductive: a call's
promise could be overwritten if another call had its MSGID. `IInv` adds `CallInv` (a caller's MSGID is that of its call, and callers are
in different calls), `FreshInv` (a call that has not registered has a promise nowhere), `PacketInv` and `PendingInv`
(packets and promises are filed under the MSGID of their call). `IdsDistinct` and `ModStep` are the arithmetic. There
is one lemma per action or pair of like actions, and one step per conjunct it can disturb. `ConnectInv` covers reconnecting, which
touches neither the map nor the promises.

`HandlerGetsLeftovers` speaks of replies that went to the handler although somebody waits for them. `ReplyInv` is needed for it:
the packet of a call, its request or the reply to it, is in one place at a time (on the way to the server, back, in the receive
thread's hands, in a promise, at the handler), and nowhere before the call has sent it. From it also `DeliveredOnce`: a reply reaches the
application by its promise or by the handler, never by both.

`ResultStands` is about what comes late: once a call has returned, or its promise is set, no reply, other caller or reconnection changes
either (`OpenInv`: a call under way has no result yet). `OnlyPushesIntrude` bounds finding 1: if the server pushes nothing
(`MaxPushes = 0`), `ReturnsAResponse`, the property that `request_push` refutes, holds for any callers and calls.

### `NetworkServerProofs`
For any finite set of clients and any packets, and one application thread that disconnects them, as the module has it (`ServerAssumption`: clients are not named as the lock's other
holders are). `IInv` follows one client through its threads: `LockInv` says who holds `_lckClientMap`, `ListenInv`
that the client being entered is new to everyone else, `MapInv` that an entry has a receiver and, unless the application is just
closing it, an open socket, `AppInv` where `DisConnect` stands, `ThreadInv` how the receive and the handler thread depend on each
other, `UntouchedInv` that the receive thread of a client nobody has begun to disconnect has joined the handler when it takes the lock and alone
closes the socket, `CountInv` that no more packets lie anywhere than were sent. The invariants of the run are not inductive without them: whether a socket may be closed depends on who can still
come to it, by the map, the lock or a join.

`ClosedOnce`: whoever closes a socket, `DisConnect` of the application or of the receive thread itself, finds it open. A second close would
hit whichever client has the number by then. `ToClose` is what `DisConnectAll` relies on: those it has still to end are open.
`ReceiverSafe` rests on the same parts: a receiver is destroyed only after its thread has ended, but in the window of finding 4. There is one exception, `apc = "thrown"`: when `join` throws out of `DisConnectAll`, the sockets it has already closed stay in the map, and their
receive threads close them again. TLC shows that behaviour.

### `ModuleManagerProofs`
For any finite set of names and any modules, threads and jobs (`ManagerAssumption`), with and without `WriterPriority`. `FoundIsInitialised`
rests on `MapInv` (a module in the map is initialised or its registrar is in `moduleInit`) and `LockInv` (then it holds the lock).
`NotifiedInOrder` rests on `JobInv` and `NotifiedInv`: a module further on in the map than the iterator has seen only earlier jobs, also
while modules are entered and taken out without the notify thread's knowledge. `Refinement` holds for any number
of users: `CycleInv` says of every module that is not lost who can be between the test of its `_isRunning`
and its hook, that one hook runs at a time, and that nobody changes the state meanwhile. A module is lost (`raced`) in the step in which one thread
sets `_isRunning` while another has tested it.

For any number of users: `FlagNotLeftSet`, `_isRunning` is set only while a thread is in a hook of the module, so that it locks nobody out for good
although its test and set are two steps; and `LockNotHeldUp`, whoever holds the registry's lock can go on: readers may lock again
unless writers have priority, a writer is in a hook, or `UnRegisterModule` hangs (finding 4).

### `IpcUnixProofs`
For any callers, processes, workers, calls, kinds and deaths of senders or of the server, and any way the callers are threads of the processes (`IpcAssumption`). `IInv` has
one part per thing that is shared: `CallInv` (a call has one caller, which is in one call at a time), `NameInv` (the names of a process
lead to what its own calls created, and a worker has lost descriptors only after `DestroyIPC`), `SlotInv` (who writes the slot holds its semaphore), `BoxInv`, `TakenInv` (a request is not posted, in the
slot, in the queue or with one worker), `DataInv` (DATA holds no body older than the request's own), `AnswerInv`, `GotInv`, `OpenInv` (a
request is answered once, in a segment of its process, and its answer taken by a call of that process), `OwnInv`, `FreshInv` (a call that
took its own answer leaves nothing of it to later ones, for they open newer segments), `AloneInv` and `PatientInv` (what holds of a
process with one thread in `SendIPC`, and what if it has given nothing up; the first only as long as the server is not destroyed). `AnswerIsOwn` names its exceptions, so most of the proof is that an answer goes astray in no other way. `Refinement` shows that slot and queue together are the `waiting` of `RequestBox`; that `RequestBox` serves each
request at most once is in its actions.

`RequestBox` lets the main thread withdraw requests, so it does not say that none is lost. `RequestsNotLost` does: every request that was
posted is in the slot, in the queue or taken, unless its sender has died (`NotLost`), and the queue keeps the order of posting, everything
taken before it (`LineInv`). With it `TakenInOrder`: once a request has been taken, every earlier one whose sender lives has been taken too.
Two action properties: `ServedOnce`, a body is fetched for the callback once; `ResultStands`, what a call that is over has returned and
which answer it took does not change.

### `WireFormatProofs`, `ConversionsProofs`
For chars of any even number of values `Byte` (and words of four of them): `FieldReadBack`, the round trip of every size and MSGID
through `convertSendMsg` and `convertReceiveMsg`; `ClearSizeReadBack` and `SignedSizeHuge`, what the signed chars of `Receive` do to a
size whose bytes have, or have not, a top bit. The sign extension fills the upper bytes with ones, so that one such byte anywhere
makes the size at least half of all words. `HeadersReadBack` joins them to the property of the run.

`ItemsRendered` is `RendersItems` for any number of items, indexes of any length and any number of arguments below 32768 (`FormatAssumption`: at least one, as
`Format` has it). `nIndex` is the 16-bit number of the code, so an index above 32767 is among the exceptions. The variables of the parser do not say which item they belong to, so `IInv` gives the place in the string: `Outside( k )`, between
items k and k + 1, or `Inside( k, o )`, o characters into item k + 1, which is in braces, a name, an index, a type, or what a placeholder becomes behind one
that left `isType` set (`InResidue`); or `Past`, beyond the string. `SoFar( k )` adds what is rendered by then and how many arguments
are taken, and is claimed of the strings only that `RendersItems` speaks of; the places hold of all. One lemma per place shows where the next
character leads. What a format string is (items joined), the start of an item in it and the value of an index are recursive
functions; what is needed of them is proved by induction in the form of sets (`Induct`: a set of numbers with 0 and with every successor has all,
because it has no least number missing, `Least`), which asks for no theorem with an operator parameter.

`NeverBlocked` and `MovesOn` are the safety half of `Terminates`: the loop goes round in place only at a name in a placeholder or at the end
of an index that has wrapped, and all other
steps move on, no further than the character behind the terminating zero.

### `FramingProofs`
For any number and sizes of packets, any segmentation of the bodies, closing and resets at any moment, under `GoodProtocols`: the buffer
is shorter than 2^32 and every protocol is a `GoodProtocol`, that is, every size is read back as written and either counts the header or
is that of a body of one to seven bytes that comes in one piece with its header. The protocols of the run are such (`GoodAssumption`
in `MCFraming`, which TLC evaluates); the one of `framing_large` is not, and loses bytes. `FramingAssumption` lets all packets together
fit in the buffer.

The variables say which bytes there are, not where they come from, so `StreamInv` says that a history exists: the whole stream `S`, the
end `pos[k]` of each packet in it, the place `f[n]` at which each segment in flight begins, and the packet `c` behind which `Receive` began.
Its parts: `Stream` (packet k lies between `pos[k - 1]` and `pos[k]`), `Flight` and `Arrived` (what is on the way and what has arrived
are consecutive pieces of `S`), `Cut` (pieces never end in a header), `Reading` (the buffer holds `S` from `pos[c]` on, and ends where a packet ends when
`Receive` returns: of a later packet if the size was the body's, and then those between are swallowed), `Received` (what came out is of the
first c packets, in order). After a reset this is gone, and `ResetInv` is left: all packets but the last are good, and the last one
too unless bytes of it were still to come. A lemma per action shows that it keeps `IInv`; most of the work is in `RecvRest` and `SendPacket`,
which move or lengthen sequences. `TypeCorrect`, `Subsequence` and `Intact` follow. That nothing is written beyond the buffer is not proved but assumed: with the unsigned
difference of `TCPServer.cpp:422` the code may ask `recv` for more than the buffer holds.

`NothingWithheld` is the other direction, the safety half of `EveryPacketReceived`: where packets are `Reliable` and there was no reset, once everything
has arrived and `Receive` is about to read a header, all that was sent has come out, and the thread ends with nothing left
(`EndInv`, which rests on `Cut`: a connection never closes within a header, and on `ReturnsBytes`: `Receive` returns 0 for a closed connection only).

### Only model-checked
All liveness properties (`Delivery`, `StopFreesAwake`, `CallsReturn`, `PacketsReceived`, `ConnectReturns`, `EveryPacketReceived`,
`ClosedIsReleased`, `JobReachesModule`, `PostedIsServed`, `DestroyReturns`, `Terminates`): the prover does not do fairness. For
`Terminates` and `EveryPacketReceived` the safety half is proved. All invariants and the three refinements of the passing runs are proved.
The invariants that are proved exclude what the runs of section 4 find by a hypothesis or a named exception; that the code does it
is shown by TLC's counterexamples.

## 6. What is not covered

- `~cNetwork`: it joins the listen thread after `DisConnectAll`, so a client accepted in between is ended by the destruction of the
  map; its receive thread then calls into members that are being destroyed, which has no defined outcome to model.
- `~cModuleManager` joins a thread nobody stops: it returns in no behaviour, so there is nothing to check. `~cModuleBase` calls
  pure virtual functions if the module was started.
- `SendToClient`/`SendToAll` as actions of `NetworkServer`: they hold the lock for one send per client; modelled as
  the property `MapEntriesOpen` of the moments they can take it. A send that blocks is not modelled.
- TCP splitting a header; sizes of 0; sizes that reach the buffer's end. `Receive` going on with a new connection after its first `recv` failed on the old one.
- The wrap of the 32-bit MSGID: in the model, excluded by `IdsSuffice`.
- The results of hooks: the code makes no difference between success and failure but in its return value.
- Unix IPC: a server that is created again after it died, with the names of the first still there; requests longer than the DATA segment;
  a worker that opens DATA between the unlinking of the slot's and of DATA's names; glibc's counted semaphores under the double closing; builds whose `std::string` is not inline.
- Windows IPC: the same protocol with other primitives (mutexes that are abandoned, a worker that ends with the first sender it
  cannot open, `EXIPC.cpp:279`). SQLite manager, service helpers: sequential calls of a library or the system.
- Strings (`XString`) are thin wrappers of `std::wstring`; paths and files, Qt widgets, sessions and processes, vendored code:
  input/output, drawing, or not this library's own.

## 7. Plan

1. **Windows IPC** as a second implementation of `RequestBox`.
2. **SQLite manager**: open, close and transactions as a sequence of calls.
3. **`~cNetwork`**, and a Unix IPC server that is created again after it died.
