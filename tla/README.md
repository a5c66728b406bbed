# Verification of the Reactor server

TLA+ models of the echo server in `src/`: a main thread that accepts, IO threads
that each run an event loop, a pool of worker threads, and the connections that
travel between them, from the bytes of a request to the signal that ends the process.
TLC checks the models on small instances; TLAPS proves every invariant, every action
property and every refinement of the passing runs for every value of the constants.
Liveness is model-checked only.

## The system

| component | state | operations | talks to |
|---|---|---|---|
| `ThreadPool` | `taskqueue_`, `mutex_`, `condition_`, `stop_`, threads | `addtask`, worker loop, `Stop` | used twice: IO threads (each task is an `EventLoop::run`) and workers |
| `EventLoop` | `taskqueue_`, `mutex_`, `wakeupfd_`, `stop_`; `conns_`, `mmutex_`, `timerfd_` | `run`, `stop`, `queueinloop`, `handlewakeup`, `handletimer`, `newconnection` | workers queue into it, main inserts into its map, its timer calls back `TcpServer::removeconn` |
| `Epoll`, `Channel` | `events_`, `revents_`, `inepoll_`; the kernel's interest list | `updatechannel`, `removechannel`, `loop`, `handleevent` | called by the loop's own thread, by main (construction) |
| `Acceptor`, `Socket` | listening socket, descriptors | `newconnection`, `accept`, destructor closes | main thread |
| `Connection` | `inputbuffer_`, `outputbuffer_`, `disconnect_`, `lasttime_`, callbacks | `onmessage`, `send`, `sendinloop`, `writecallback`, `closecallback`, `errorcallback`, `timeout` | IO thread, and workers through `send` |
| `TcpServer` | `conns_`, `mmutex_`, sub-loops | `newconnection`, `closeconnection`, `errorconnection`, `removeconn`, `stop` | main and all IO threads |
| `EchoServer` | worker pool | `HandleMessage`, `OnMessage`, `Stop` | IO threads and workers |
| `Buffer` | byte string | `append`, `appendwithsep`, `pickmessage`, `erase` | owned by one Connection |
| `tcpepoll.cpp` | the signal handler | `Stop(sig)` | interrupts the main thread |

What is hard here: `Connection` objects are shared by three kinds of threads and
two maps, and destroyed by whoever drops the last `shared_ptr`, while epoll and the
loop's task queue keep raw pointers; `newconnection()` hands a half-built object to
a running loop; a worker tests `disconnect_` and acts later; the timer walks a map
main inserts into; both task queues depend on the order of "publish" and "wake up".
What makes each part correct: a task handed over is run once, in order, and nobody
sleeps on it (queues); the write event is armed exactly when there is output, and a
request is in exactly one place until its reply is sent (connections); the maps name
the connections they should, although descriptors are reused (server and loop);
nothing a client does ends the process; the requests handed over are the ones sent,
however the stream is cut (buffers); a signal ends the process, and never with a thread
left inside a deleted server (shutdown).

## Modules

* `TaskFifo` - the abstract promise of a task queue: taken at most once, in the
  order of submission. `TaskFifo_lemmas` has two facts on its log.
* `ThreadPool` - one action per observable step of the worker lambda (`WhileTest`,
  `Lock`, `Predicate`, `Sleep`, `Take`, `Start`, `Run`), of `addtask()` (`Push`, `NotifyOne`)
  and of `Stop()` (`SetStop`, `NotifyAll`, `Join`). Predicate and blocking are
  two steps because `Stop()` does not take the mutex; `wait()` releases the mutex and
  blocks in one step, as the standard requires. `Take` pops under the mutex and `Start`
  calls the task some time after it: `taken` and `started` are the two orders.
* `EventLoop` - `run()`, `queueinloop()`, `stop()`, `handlewakeup()`, with the count of
  the eventfd (saturating) and the queue's mutex. The handler of another channel returns
  at once or goes on (`"spinning"`) until another thread lets it return
  (`HandlerReturns`), which nothing guarantees: the sweep of `handletimer()` is one.
* `Reactor` - connections: `Accept` and `NewConnection` step through
  `Acceptor::newconnection()`, the constructor, and `TcpServer::newconnection()` (the
  field `stage` says how far main has come); `Poll`, `ReadMessages`, `ReadClose`, `Write`,
  `Error`, `HandleWakeup`, `SendInLoop` and `HandleTimer` with `Sweep` (`SweepNext`,
  `SweepIdle`, `RemoveExpired`, `SweepOn`, `SpinEnds`) are the IO thread; `TakeTask`,
  `SendCheck`, `SendQueue`, `Release` a worker; `Connect`, `Ask`, `Leave`, `GoIdle`,
  `TimerExpires` clients and clock. `fate` is a history: whether a connection was closed
  before it was stored, dropped by the sweep, or hit by its `removeconn()`. The two task
  queues appear as plain sequences, which is what `TaskFifo`, and the proofs that both
  queues implement it, allow; the wake channel is ready while the queue is not empty
  (`NoLostTask`).
* `Buffer` - operators, no state: `append()`, `erase()`, `appendwithsep()` and
  `pickmessage()` on sequences of bytes. `pickmessage()` returns the set of its possible
  outcomes, because a header of fewer than four bytes is read together with the string's
  terminator and whatever lies behind it.
* `MessagePipe` - the abstract promise of the framing: whole messages, each once, in order.
* `Framing` - one connection as two streams of bytes. `SendRequest`, `RecvHeader`,
  `RecvBody` are the loop of `client.cpp`; `Read`, `ReadWouldBlock`, `Pick` are
  `onmessage()`; `SendInLoop` and `Write` answer. It EXTENDS `Buffer` and implements
  `MessagePipe` (`handled` is what was delivered).
* `Shutdown` - `main()` and the handler `Stop(sig)` of `tcpepoll.cpp` on top of the threads:
  `Deliver` pushes a handler frame on a thread, `PoolStop`, `PoolSet`, `PoolNotify`,
  `PoolJoin`, `StopLoops`, `DeleteServer`, `Destroy`, `Exit` are the steps of `EchoServer::Stop()`,
  `TcpServer::stop()`, `ThreadPool::Stop()`, `delete` and `exit()`. The threads keep only
  the places that matter to a stop: the tests of `stop_`, `wait()` with its window,
  `epoll_wait()`, and the critical sections of `TcpServer::mmutex_` and
  `EventLoop::mmutex_` in `closeconnection()` and in the sweep. `server` says how much of
  the server is destroyed, and `Crash` is the step of a thread that touches it. The
  detailed queues are in `ThreadPool` and `EventLoop`.
* `MCThreadPool`, `MCEventLoop`, `MCReactor`, `MCFraming` - the instances; the `.cfg` files
  name them (`Shutdown` needs none).
* `EventLoop_proof`, `ThreadPool_proof`, `Shutdown_proof`, `Framing_proof`, `Reactor_proof` -
  the theorems. `TaskFifo_lemmas`, `Buffer_lemmas` and `Reactor_lemmas` hold the facts about
  operators that they rest on: the log of a queue; what `Encode`, `Decode`, `erase()` and
  `pickmessage()` compute; the lowest free descriptor, counting in sequences, and order in them.

How `Reactor` abstracts: a request is a number per client, a buffer a sequence of
requests; a descriptor is a number and is free exactly when no live object holds it
(`~Socket`); an object is alive while main, a map, a pool task or a worker refers to it
(`Alive`). `lasttime_` is reduced to "`timeout_` has passed" (`idle`). The outcomes of
undefined behaviour are those of the build (GCC, libstdc++): `++` of a map's `end()`
gives the last entry or the one before, and never returns on an empty map; the key of
`end()` reads as the map's size; an access to a destroyed object, a wrong `free()`, an
exception that leaves a thread and `exit(-1)` end the behaviour, and `status` says how.
A closed client socket reads as 0 after FIN or RST (an `ECONNRESET` is read over by the
loop in `onmessage()`); an error without readability takes the last branch of
`handleevent()`. In the
unlocked traversal of `EventLoop::conns_` the erasure, `removeconn()` and `++` are steps of
their own, so main's insertions fall between any two of them, and one of them ends a
`++` that went in a circle on the empty map. `accept4()` returns the lowest free
descriptor, or fails if `AcceptMayFail` says so: -1 then indexes outside of `subloops_`,
or is refused by `epoll_ctl()`, and the process ends.

How `Framing` abstracts: a byte is a digit to the base `Base` (256 in the code), so an
`int` has four digits and its sign works as in the code. The connection stays open and
the peer sends well-formed frames. The way through pool and task queue is a FIFO, which
`TaskFifo` gives for one worker. The copy made by `strdup()` ends at the first NUL, and
what is read behind it is any byte (`CopyRead`).

How `Shutdown` abstracts: a mutex is held by whoever is at the place named after it. The
kernel delivers a signal to the main thread unless that is handling the same one, and then
to any other thread that is not. Each IO thread has begun its `EventLoop::run` before main's
loop begins. A join of one's own thread or of one another handler joins, and the
destruction of a joinable thread, end the process by `std::terminate()`; `server` null is a
crash. Members are destroyed in the order of the language, the last declared first: the
workers' `condition_`, `mutex_`, `taskqueue_`, then their `threads_`, then `TcpServer`'s
callbacks, `mmutex_`, `conns_`, the IO pool in the same order, and at last the event loops.
`~condition_variable()` waits for the threads blocked on it (glibc). Whoever touches what
is gone crashes or goes on. What `printf()` and
`free()` do in a handler that interrupted them is not modelled.

## Runs

Bounds. `Reactor` is checked along its two kinds of trouble. `reactor_requests` has one
client with three requests (`MaxRequests`), two workers and two loops: enough for one
reply to overtake and another not to, for replies to be appended between partial sends,
for a close to fall between the steps of a worker. The second loop stays empty (with
two, a failed `accept4()` indexes outside of `subloops_`); that connections do not meet
in a loop is the price for three requests. `reactor_connections` has three clients, one
loop and no request: two clients are what it takes for main to insert between two steps
of a sweep, and for a descriptor to be reused while entries of its last connection
remain; the third, to destroy a connection that is not closed and whose channel is still
in a batch (`DispatchDangling`), because a sweep that empties its map spins until main
inserts another. What needs a second client and a request at once, a queued
`sendinloop()` whose connection a sweep destroys, is an outcome of `SendInLoop` that
neither run reaches; the theorems cover it (`RawPointersSafeHolds`,
`FailuresExplainedHolds`).

`Framing`: bodies of 0, 1 and 3 bytes, one with a NUL inside, a reply prefix of one
byte, two requests, reads of at most 5 bytes in base 4: a length that needs two digits,
headers cut at every byte, two requests in one read and one request in several.
`ThreadPool`: two threads, the least that steal from each other and call out of order,
and a task more than threads. `Shutdown`: two signals (nested, on two threads, the same
one twice), one worker and one loop, so that a second handler runs on main, on a worker
or on an IO thread; two loops in the hanging run, for one to be locked out by another.
`CHECK_DEADLOCK FALSE` everywhere: all clients or callers may be done, and a stopped
pool, loop or process stays stopped.

| run | checks | shows |
|---|---|---|
| `pool` | `TypeOK`, `NeverPopsEmpty`, `NoLostWakeup`, `WorkConserving`, `StartsNearOrder`, `TakenInOrder`, `TasksExecuted`, `JoinCompletes` | 2 threads, 3 tasks, 1 spurious wake-up, `Stop()` at any time |
| `pool_stop_returns` | `StopReturns` violated | the notification of `Stop()` can fall between a thread's predicate and its sleep; `Stop()` then hangs in `join()` |
| `loop` | `TypeOK`, `NoLostTask`, `StopNotMissed`, `RunsInOrder`, `TasksExecuted`, `WakeupConsumed`, `StopEndsRun` | 3 tasks, an eventfd that saturates at 2, handlers that may never return: liveness is stated for those that do (`HandlersReturn`) |
| `reactor_requests` | `TypeOK`, `RawPointersSafe`, `FailuresExplained`, `OutArmed`, `ExactlyOnce`, `OvertakingBounded`, `AllAnswered` | 1 client that pipelines 3 requests, sends and closes at any moment, 2 workers, 2 loops, failing `accept4()`: nothing lost, answered twice or stranded, bounded overtaking, every request answered unless the client leaves or the process has ended, and that only in the listed ways |
| `reactor_connections` | `ServerMapExact`, `FailuresExplained`, `ClosedNotDispatched`, `IteratorValid`, `EntriesNotReplaced` | 3 clients, early data and closes, idle expiry, main's insertions between any two steps of the sweep, reuse of descriptors, dangling channels, failing `accept4()`, all at once: whatever goes wrong has one of the listed causes |
| `reactor_send_exits` | `NeverExits` violated | a client that closes between the worker's check and the queued reply makes `epoll_ctl(MOD)` fail: the server exits |
| `reactor_early_event` | `NeverTerminates` violated | a client that sends before `newconnection()` is done meets an object without callbacks |
| `reactor_sweep_collects` | `SweepCollects` violated | `handletimer()` passes the key after the erased one to `removeconn()`, and spins for ever incrementing `end()` of the map it emptied |
| `framing` | `TypeOK`, `PartialHeaderHarmless`, `NothingStranded`, `RepliesFaithful`, `RequestsDelivered`, `AllEchoed` | the framing survives any cutting of the stream; the refinement of `MessagePipe` |
| `framing_echo` | `EchoesRequests` violated | a request with a NUL is not echoed: `strdup()` stops there, and `size` bytes are sent all the same |
| `shutdown` | `TypeOK`, `MemoryOutlivesThreads`, `OneSignalIsClean`, `StopsUnlessStuck` | 2 signals at any moment: members die under running threads, event loops and memory do not; one signal is clean; the process ends, except in the three ways named |
| `shutdown_hangs` | `SignalEndsProcess` violated | main is interrupted with `TcpServer::mmutex_` held, an IO thread waits for it, the handler joins that thread |

The switches `AcceptMayFail`, `EarlyData` and `IdleExpiry` restrict the environment,
never the server. `reactor_connections` has no such restriction, `reactor_requests` only
that no connection idles out (with one client a sweep ends in the spin of
`reactor_sweep_collects`); each violation run lifts the one restriction that it is
about. `RawPointersSafe` and `ServerMapExact` say what the entries that closed
connections leave in `EventLoop::conns_` are good for: a raw pointer dangles only if the
sweep has removed the entry, and the server's map goes wrong only by a close that was
early or by the key that the sweep passes on. `FailuresExplained` relates each end of
the process to the state it came from; `status` remembers which one it was.

Outcomes of the model without a run of their own: the raw `this` of a queued
`sendinloop()` (`SendInLoop`) and a channel of a batch (`DispatchDangling`) used after
the destruction of their connection; a close before main's insertion leaving a stale
entry in `TcpServer::conns_`; complete requests left in `inputbuffer_` when they are
read together with the end of the stream (`ReadClose`); `free()` of a `std::string`'s
characters when the pool has no threads (`DeliverFailure`); a write that completes
before `newconnection()` has set `sendcompletecallback_` (`Write`); closed connections
kept in `EventLoop::conns_` until a sweep; a signal before `server` is assigned
(`PoolStop`); a task called before one that was taken earlier (`Start`); tasks still
queued when the pool is stopped, which the test of `while` drops, except one per thread
that is past it, although the comment in `ThreadPool.cpp` line 39 says that they are
executed first (`WhileTest`); a second `Stop()` that returns before the first has waited
for anybody (`PoolStop`); a nested signal that destroys queues, mutexes and maps under
the threads that use them (`Destroy`, `Crash`).

Fairness: weak fairness per thread of the server (`MainThread`, each `IOThread`, each
`WorkThread`; in `ThreadPool` and `EventLoop` each worker, the loop, and callers already
inside `addtask()`, `queueinloop()`, `stop()` or `Stop()`). These are preemptively
scheduled threads without priorities. Nobody is obliged to call anything; clients and
clock owe nothing. Weak fairness is enough: no thread competes for a mutex infinitely
often with a bounded number of tasks. In `Framing` the IO thread serves each of its ready
channels (one batch of `epoll_wait()` holds them all), and the client goes on receiving; it
need not send. In `Shutdown` pool threads, loops and handlers run; main, connections and
signals owe nothing. A sweep that stays in its loop has to come to its end in spite of the
rounds it may go on for (`SF` of `SweepEnds`): each round erases a connection, and new ones
come from main, which the handler has interrupted. A sweep that spins on an empty map is
exempt. A handler is not obliged to join its own thread before the others have exited
(`HandlerGoesOn`): the order of `threads_` decides when that happens.

## Proofs

Each theorem holds for every value of the constants under the assumption its component
states (`PoolAssumption`, `LoopAssumption`, `ShutdownAssumption`, `FramingAssumption`,
`ReactorAssumption`). These say that sets of threads and connections are finite, that
markers such as `NoConn`, `"wake"` or the places of main are not also names of
connections or threads, that bounds are numbers, and, in `Framing`, that the lengths of
requests and replies are ones an `int` holds. None restricts what the code does. Loops
of `Reactor` are numbers and at least one; workers may be none.

**`EventLoop_proof`**: `TypeCorrect`, `NoLostTaskHolds`, `StopNotMissedHolds`,
`LoopImplementsFifo`. `TypeOK` carries the link between mutex and program counter that
`NoLostTask` needs (nobody pushes while the queue is drained); `StopNotMissed` needs in
addition that `stop_` is set whenever `stop()` is under way (`StopInv`).

**`ThreadPool_proof`**: `PoolTypeCorrect`, `NeverPopsEmptyHolds`, `NoLostWakeupHolds`,
`WorkConservingHolds`, `PoolImplementsFifo`, `StartsNearOrderHolds`. The first three
follow from `PoolInv`: a thread between locking and `take` or `sleep` owns the mutex
(`LockInv`), and a thread about to sleep has seen a queue that is still empty, as nobody
pushes without the mutex (`SleepInv`). The analogue of `SleepInv` for `stop_`, which is
set without the mutex, is false: that is the counterexample of `pool_stop_returns`.
`WorkConserving` compares counts, so `CountInv` keeps the callers between push and
`notify_one()` finite, although the tasks need not be. Both refinements of `TaskFifo`
use `FreshInv`: a task whose call has not begun occurs neither in the queue nor among
the tasks taken. `StartsNearOrder` is about the gap between pop and call, and inductive
together with `HistInv`: `pushed` is what was taken followed by what is queued, without
repetition, a task called was taken, and one taken and not yet called is in the hands of
a thread. When a thread calls a task, the earlier ones not yet called are in the hands
of other threads, one each (`InOtherHands`), so they are fewer than the threads.

**`Shutdown_proof`**: `TypesHold`, `MemoryOutlivesThreadsHolds`, `OneSignalIsCleanHolds`.
`DeleteInv` says that a pool counts as joined only when its threads have exited
(`JoinedInv`), which no notification or task undoes, and that the destruction gets past
the `threads_` of a pool only if that is joined (`DeletedInv`): a nested handler, whose `Stop()`
returns at once, gets past the joins, and destroys what is declared behind `threads_`, but
not joinable threads.
`CleanInv` says what one signal can have done at each step of its only handler: there is
one frame, what it has reached is the step of `Stop()` it stands at, and `server` is null
only while main constructs it.

**`Framing_proof`**: `TypesHold`, `PartialHeaderHarmlessHolds`, `NothingStrandedHolds`,
`RequestsDeliveredHolds` (the refinement of `MessagePipe`), `RepliesFaithfulHolds`. The
invariant on the way in (`StreamInv`) is that `inputbuffer_` followed by what travels is
the frames of exactly the requests sent and not yet handed over (`Framed`, which names
the places where the frames begin instead of recursing over them), so it does not matter
where `read()` cuts; `PickWhole` and `PartialHeader` of `Buffer_lemmas` then say what
`pickmessage()` does with such a buffer, whatever lies behind the terminator. The
invariant on the way out (`DownInv`) is the same for the replies, as long as no `recv()`
of the client came back short; that a reply without NUL is the one `OnMessage()` made is a
property of the copy (`TextCopied`).

**`Reactor_proof`** builds its invariants on each other, because the objects are shared:

| theorem | inductive invariant, besides the earlier ones |
|---|---|
| `TypesHold` | a connection that is not yet constructed has no descriptor (`FreshFd`), so `accept4()` finds one below the bound |
| `OutArmedHolds` | `OwnInv`: what holds of each `Connection` (`ConnInv`), that map entries are kept under their own descriptor (`MapInv`), that tasks belong to connections with callbacks and to their loop's queue (`TaskInv`) |
| `EntriesNotReplacedHolds` | `UniqueInv`: no two live connections share a descriptor, so a reused one has no entry left |
| `ClosedNotDispatchedHolds` | `BatchInv`: a batch holds a channel at most once, of its own loop, and not closed; only the loop's own thread closes |
| `IteratorValidHolds` | `IterInv`: between any two steps of the sweep the iterator stands on a key of its own loop, which only that loop erases |
| `RawPointersSafeHolds`, `ServerMapExactHolds` | `FateInv`: the loop's map keeps a connection that has entered it until it is swept, and the server's map until it is closed or its key removed; `KeptAlive`: so a pending pointer has an owner |
| `FailuresExplainedHolds` | `Why`: the state in which an action ends the process (`FailureBy`, by the action that fails) is the one `FailuresExplained` names, and stays so: by `OwnInv`, `BatchInv` and `RawPointersSafe` the other failures do not occur, and nothing moves after one |
| `ExactlyOnceHolds` | `OnceInv`: a step adds to the places of a request only when it is asked (`Conserved`), and takes from them only when its connection is closed or gone |
| `OvertakingBoundedHolds` | `WaitInv`: pool and receive buffer hold a connection's requests in the order of asking, behind those in the workers' hands; `ReplyInv`: the bound holds for every reply already queued for the loop, in `outputbuffer_` or sent |

None has a hypothesis on the environment: clients may be early, impatient and idle in all
of them. `OvertakingBounded` counts. When a worker
queues the reply to a request, every earlier request of the connection is in exactly one
place (`OnceInv`), not in the pool or before it (`WaitInv`), so it is either queued for the
loop, on its way out, or in the hands of one of the other workers (`HandsBound`).

Two changes of the model came from the proofs. `Ask` is bounded by the set of all
requests asked so far (`Asked`) rather than by a sum over the clients, which needs induction; and
the assumptions above name what had been implicit in the instances.

Model-checked only:

* liveness (`TasksExecuted`, `WakeupConsumed`, `StopEndsRun`, `JoinCompletes`,
  `AllAnswered`, `AllEchoed`, `StopsUnlessStuck`): proofs under fairness need `ENABLED`,
  which the provers do not handle;
* the properties of the violation runs, which are false;
* what needs induction over data. `Framed` and `TaskFifo`'s log avoid it by quantifying
  over positions.

## Not modelled

Socket options, `bind`, `listen`, `InetAddress`, `Timestamp` formatting, the test program of the
pool; the main loop's timer (it does nothing); `epoll_wait()`'s limit of 100 events; its
failure by `EINTR` (the two handled signals never return from their handler, any other
interruption ends the process at once); SIGPIPE; malformed frames; the unsequenced
arguments in `TcpServer::newconnection()`, which crash under compilers that move first;
torn reads of the map that `handletimer()` walks without its mutex.

## Plan

1. Done: `TaskFifo`, `ThreadPool`, `EventLoop`, `Reactor`, `Buffer`, `MessagePipe`, `Framing`,
   `Shutdown`, and the proofs of every safety property of the passing runs.
2. To come: that `Reactor`'s pool and loop queues are each a `TaskFifo` step by step, which so far
   is stated of `ThreadPool` and `EventLoop` only.
