------------------------------ MODULE Shutdown ------------------------------
(***************************************************************************)
(* tcpepoll.cpp: main() installs Stop(sig) for SIGTERM and SIGINT, builds  *)
(* the server and runs the main event loop.  The handler runs on top of    *)
(* whatever its thread was doing: EchoServer::Stop() stops and joins the   *)
(* workers, TcpServer::stop() stops the event loops and joins the IO       *)
(* threads, then the server is deleted and the process exits.              *)
(*                                                                         *)
(* A thread has a stack of handler frames; only the topmost one runs.      *)
(* Mutexes are not variables: a thread holds one while it is at the place  *)
(* named after it.  The queues are those of ThreadPool and EventLoop, with *)
(* only the steps that matter to a stop.                                   *)
(***************************************************************************)
EXTENDS Naturals, Sequences

CONSTANTS Workers,      \* the threads of EchoServer::threadpool_
          Loops,        \* the IO threads; each is named after the loop it runs
          main,         \* the main thread
          MaxJobs,      \* bound on the tasks waiting for the workers
          MaxSignals    \* bound on the signals sent

\* The name of a loop also stands for a place of main, which no other place has.
ASSUME ShutdownAssumption ==
    /\ Workers \cap Loops = {} /\ main \notin Workers \cup Loops
    /\ Loops \cap {"construct", "epoll", "server", "inserted"} = {}
    /\ MaxJobs \in Nat /\ MaxSignals \in Nat

Pooled == Workers \cup Loops
Threads == Pooled \cup {main}
PoolOf(t) == IF t \in Workers THEN "WORKS" ELSE "IO"
Signals == {"TERM", "INT"}

VARIABLES status,       \* "running", or how the process ended
          server,       \* "null", "built", or how much of it is destroyed
          at,           \* where each thread is, below its handler frames
          stack,        \* the handler frames of each thread, innermost last
          stop_,        \* ThreadPool::stop_ of the two pools
          joined,       \* whether Stop() has joined the threads of a pool
          loopStop,     \* EventLoop::stop_
          wakeupfd_,    \* readable
          jobs,         \* the number of tasks in the workers' queue
          signals       \* how many signals have been delivered

poolVars == <<stop_, joined, jobs>>
loopVars == <<loopStop, wakeupfd_>>
vars == <<status, server, at, stack, poolVars, loopVars, signals>>

\* Each IO thread has taken its EventLoop::run by the time the server is built.
Init ==
    /\ status = "running" /\ server = "null"
    /\ at = [t \in Threads |-> IF t \in Workers THEN "while"
                               ELSE IF t \in Loops THEN "run" ELSE "construct"]
    /\ stack = [t \in Threads |-> <<>>]
    /\ stop_ = [p \in {"WORKS", "IO"} |-> FALSE] /\ joined = [p \in {"WORKS", "IO"} |-> FALSE]
    /\ loopStop = [l \in Loops |-> FALSE] /\ wakeupfd_ = [l \in Loops |-> FALSE]
    /\ jobs = 0 /\ signals = 0

Running == status = "running"

\* Thread t, not interrupted, moves from one place to another.
Moves(t, from, to) ==
    /\ Running /\ stack[t] = <<>> /\ at[t] = from
    /\ at' = [at EXCEPT ![t] = to]
-----------------------------------------------------------------------------
\* The main thread, and the mutexes it takes.

\* TcpServer::mmutex_: held at "server" and "removing"; EventLoop::mmutex_ of l: held
\* by main at l, by the IO thread at "erase".
ServerMutexFree == \A t \in Threads : at[t] \notin {"server", "removing"}
LoopMutexFree(l) == at[main] # l /\ at[l] # "erase"

\* server = new EchoServer(...), then Start().
Construct ==
    /\ Moves(main, "construct", "epoll")
    /\ server' = "built"
    /\ UNCHANGED <<status, stack, poolVars, loopVars, signals>>

\* TcpServer::newconnection(): into conns_, then EventLoop::newconnection(), whose
\* insertion may end the iteration of a handletimer() that has emptied the map.
NewConnection ==
    /\ \/ ServerMutexFree /\ Moves(main, "epoll", "server")
       \/ Moves(main, "server", "inserted")
       \/ \E l \in Loops : LoopMutexFree(l) /\ Moves(main, "inserted", l)
       \/ \E l \in Loops : Moves(main, l, "epoll")
       \/ \E l \in Loops : /\ Running /\ stack[main] = <<>> /\ at[main] = l /\ at[l] = "spin"
                           /\ at' = [at EXCEPT ![main] = "epoll", ![l] = "sweep"]
    /\ UNCHANGED <<status, server, stack, poolVars, loopVars, signals>>
-----------------------------------------------------------------------------
\* The loop of a pool's thread.

\* while (stop_==false)
WhileTest(t) ==
    /\ Moves(t, "while", IF stop_[PoolOf(t)] THEN "exited" ELSE "wait")
    /\ UNCHANGED <<status, server, stack, poolVars, loopVars, signals>>

\* The pool's mutex is held between the predicate of wait() and blocking.
PoolMutexFree(p) == \A t \in Pooled : PoolOf(t) = p => at[t] # "window"

\* Mutant of Wait: no test for an empty queue after the predicate.
WaitNoRetest(t) ==
    /\ PoolMutexFree(PoolOf(t))
    /\ \/ /\ t \in Workers /\ (jobs > 0 \/ stop_["WORKS"])
          /\ Moves(t, "wait", "busy")
          /\ jobs' = jobs - 1
       \/ /\ ~(t \in Workers /\ (jobs > 0 \/ stop_["WORKS"]))
          /\ Moves(t, "wait", IF stop_[PoolOf(t)] THEN "exited" ELSE "window")
          /\ UNCHANGED jobs
    /\ UNCHANGED <<status, server, stack, stop_, joined, loopVars, signals>>

\* The predicate of wait() with the mutex held, and what follows it.
Wait(t) ==
    /\ PoolMutexFree(PoolOf(t))
    /\ \/ /\ t \in Workers /\ jobs > 0
          /\ Moves(t, "wait", "busy")
          /\ jobs' = jobs - 1
       \/ /\ ~(t \in Workers /\ jobs > 0)
          /\ Moves(t, "wait", IF stop_[PoolOf(t)] THEN "exited" ELSE "window")
          /\ UNCHANGED jobs
    /\ UNCHANGED <<status, server, stack, stop_, joined, loopVars, signals>>

\* Blocking, and the end of a task: OnMessage() waits for nobody.
Sleep(t) ==
    /\ Moves(t, "window", "waiting") \/ Moves(t, "busy", "while")
    /\ UNCHANGED <<status, server, stack, poolVars, loopVars, signals>>
-----------------------------------------------------------------------------
\* EventLoop::run().

RunTest(l) ==
    /\ Moves(l, "run", IF loopStop[l] THEN "while" ELSE "poll")
    /\ UNCHANGED <<status, server, stack, poolVars, loopVars, signals>>

\* epoll_wait() returns for the eventfd, which handlewakeup() reads.
PollWakeup(l) ==
    /\ wakeupfd_[l] /\ Moves(l, "poll", "run")
    /\ wakeupfd_' = [wakeupfd_ EXCEPT ![l] = FALSE]
    /\ UNCHANGED <<status, server, stack, poolVars, loopStop, signals>>

\* A connection is to be closed, or the timer has expired.
PollEvent(l) ==
    /\ server # "null"
    /\ Moves(l, "poll", "close") \/ Moves(l, "poll", "sweep")
    /\ UNCHANGED <<status, server, stack, poolVars, loopVars, signals>>

\* A request arrives: HandleMessage() calls addtask(), which wakes a worker.
PollMessage(l) ==
    /\ Running /\ server # "null" /\ stack[l] = <<>> /\ at[l] = "poll"
    /\ jobs < MaxJobs /\ PoolMutexFree("WORKS")
    /\ jobs' = jobs + 1
    /\ LET asleep == {w \in Workers : at[w] = "waiting"} IN
       \/ asleep = {} /\ at' = [at EXCEPT ![l] = "run"]
       \/ \E w \in asleep : at' = [at EXCEPT ![l] = "run", ![w] = "wait"]
    /\ UNCHANGED <<status, server, stack, stop_, joined, loopVars, signals>>

\* closeconnection() or errorconnection(), under TcpServer::mmutex_.
Close(l) ==
    /\ \/ ServerMutexFree /\ Moves(l, "close", "server")
       \/ Moves(l, "server", "run")
    /\ UNCHANGED <<status, server, stack, poolVars, loopVars, signals>>

\* The end of handletimer(): no further connection is idle.
SweepEnds(l) ==
    /\ Moves(l, "sweep", "run")
    /\ UNCHANGED <<status, server, stack, poolVars, loopVars, signals>>

\* handletimer() erases an idle connection under EventLoop::mmutex_, calls removeconn()
\* under TcpServer::mmutex_, and goes on; or its aa++ never returns, on a map that the
\* erase left empty.
Sweep(l) ==
    /\ \/ Moves(l, "sweep", "idle")
       \/ LoopMutexFree(l) /\ Moves(l, "idle", "erase")
       \/ Moves(l, "erase", "remove")
       \/ ServerMutexFree /\ Moves(l, "remove", "removing")
       \/ Moves(l, "removing", "sweep") \/ Moves(l, "removing", "spin")
    /\ UNCHANGED <<status, server, stack, poolVars, loopVars, signals>>
-----------------------------------------------------------------------------
\* Signals.

Blocked(t) == {stack[t][i].sig : i \in DOMAIN stack[t]}

\* The kernel gives a signal to the main thread unless it blocks it, as it does
\* while it handles the same signal; then to any thread that does not.
Targets(s) ==
    IF s \notin Blocked(main) THEN {main}
    ELSE {t \in Pooled : at[t] # "exited" /\ s \notin Blocked(t)}

\* The handler starts with threadpool_.Stop() of the workers.
Deliver(s) ==
    /\ Running /\ signals < MaxSignals
    /\ signals' = signals + 1
    /\ \E t \in Targets(s) :
         stack' = [stack EXCEPT ![t] = Append(@, [sig |-> s, pool |-> "WORKS", pc |-> "stop"])]
    /\ UNCHANGED <<status, server, at, poolVars, loopVars>>
-----------------------------------------------------------------------------
\* The handler.

\* The topmost frame of t is at pc.
In(t, pc) == Running /\ stack[t] # <<>> /\ stack[t][Len(stack[t])].pc = pc

Frame(t) == stack[t][Len(stack[t])]

Goes(t, pool, pc) ==
    stack' = [stack EXCEPT ![t] = [@ EXCEPT ![Len(@)].pool = pool, ![Len(@)].pc = pc]]

\* What follows the Stop() of a pool.
Leaves(t) == Goes(t, "IO", IF Frame(t).pool = "WORKS" THEN "loops" ELSE "delete")

Ends(how) == status' = how /\ UNCHANGED <<server, at, stack, poolVars, loopVars, signals>>

\* server->Stop(), through a null pointer before the server is built; if(stop_) return;
PoolStop(t) ==
    /\ In(t, "stop")
    /\ LET p == Frame(t).pool IN
       \/ server = "null" /\ Ends("crashed")
       \/ /\ server # "null"
          /\ IF stop_[p] THEN Leaves(t) ELSE Goes(t, p, "set")
          /\ UNCHANGED <<status, server, at, poolVars, loopVars, signals>>

\* stop_ = true; another handler may have passed the test as well.
PoolSet(t) ==
    /\ In(t, "set") /\ Goes(t, Frame(t).pool, "notify")
    /\ stop_' = [stop_ EXCEPT ![Frame(t).pool] = TRUE]
    /\ UNCHANGED <<status, server, at, joined, jobs, loopVars, signals>>

\* condition_.notify_all()
PoolNotify(t) ==
    /\ In(t, "notify") /\ Goes(t, Frame(t).pool, "join")
    /\ at' = [u \in Threads |-> IF at[u] = "waiting" /\ PoolOf(u) = Frame(t).pool
                                THEN "wait" ELSE at[u]]
    /\ UNCHANGED <<status, server, poolVars, loopVars, signals>>

\* Mutant of PoolJoin: the threads are not joined.
PoolJoinNobody(t) ==
    /\ In(t, "join") /\ Leaves(t)
    /\ UNCHANGED <<status, server, at, poolVars, loopVars, signals>>

Members(p) == {u \in Pooled : PoolOf(u) = p}

\* th.join() of each thread of the pool.
PoolJoin(t) ==
    /\ In(t, "join")
    /\ LET p == Frame(t).pool IN
       /\ ~joined[p] /\ \A u \in Members(p) : at[u] = "exited"
       /\ joined' = [joined EXCEPT ![p] = TRUE]
    /\ Leaves(t)
    /\ UNCHANGED <<status, server, at, stop_, jobs, loopVars, signals>>

\* Another frame is in the join() calls of the pool that t joins.
JoinedByTwo(t) ==
    \E u \in Threads : \E i \in DOMAIN stack[u] :
        /\ u # t \/ i # Len(stack[t])
        /\ stack[u][i].pc = "join" /\ stack[u][i].pool = Frame(t).pool

\* A thread that joins itself, or one that another handler joins or has joined, throws
\* std::system_error.
JoinFails(t) ==
    /\ In(t, "join")
    /\ t \in Members(Frame(t).pool) \/ joined[Frame(t).pool] \/ JoinedByTwo(t)
    /\ Ends("terminated")

\* Mutant of StopLoops: EventLoop::stop() without wakeup().
StopLoopsSilently(t) ==
    /\ In(t, "loops")
    /\ loopStop' = [l \in Loops |-> TRUE]
    /\ Goes(t, "IO", "stop")
    /\ UNCHANGED <<status, server, at, poolVars, wakeupfd_, signals>>

\* TcpServer::stop(): EventLoop::stop() of each loop in turn.
StopLoops(t) ==
    /\ In(t, "loops")
    /\ \/ \E l \in Loops : /\ ~loopStop[l]
                           /\ loopStop' = [loopStop EXCEPT ![l] = TRUE]
                           /\ wakeupfd_' = [wakeupfd_ EXCEPT ![l] = TRUE]
                           /\ UNCHANGED stack
       \/ (\A l \in Loops : loopStop[l]) /\ Goes(t, "IO", "stop") /\ UNCHANGED loopVars
    /\ UNCHANGED <<status, server, at, poolVars, signals>>

\* ~condition_variable() waits for the threads blocked on it.
Blocking(p) == \E u \in Members(p) : at[u] = "waiting"

\* delete server: ~ThreadPool of the workers returns from Stop() at once, and its
\* condition_, mutex_ and taskqueue_ go first.
DeleteServer(t) ==
    /\ In(t, "delete")
    /\ \/ server # "built" /\ Ends("crashed")
       \/ /\ server = "built" /\ ~Blocking("WORKS")
          /\ server' = "works" /\ Goes(t, "IO", "destroy")
          /\ UNCHANGED <<status, at, poolVars, loopVars, signals>>

\* Mutant of Destroy: threads are detached instead of joined.
DestroyDetached(t) ==
    /\ In(t, "destroy")
    /\ server' = "deleted" /\ Goes(t, "IO", "exit")
    /\ UNCHANGED <<status, at, poolVars, loopVars, signals>>

\* The rest in its order: the workers' threads_; the callbacks, mmutex_ and conns_ of
\* TcpServer; the queue of its pool; that pool's threads_, the EventLoops and the
\* memory.  Destroying a std::thread that was not joined terminates.
Destroy(t) ==
    /\ In(t, "destroy")
    /\ \/ /\ ~joined[IF server = "works" THEN "WORKS" ELSE "IO"] /\ server # "maps"
          /\ Ends("terminated")
       \/ /\ \/ server = "works" /\ joined["WORKS"] /\ server' = "maps" /\ UNCHANGED stack
             \/ server = "maps" /\ ~Blocking("IO") /\ server' = "io" /\ UNCHANGED stack
             \/ server = "io" /\ joined["IO"] /\ server' = "deleted" /\ Goes(t, "IO", "exit")
          /\ UNCHANGED <<status, at, poolVars, loopVars, signals>>

\* exit(0)
Exit(t) == In(t, "exit") /\ Ends("exited")
-----------------------------------------------------------------------------
\* What is destroyed, and who may touch it.

Parts == {"works", "maps", "io", "loops"}
Gone == [null |-> {}, built |-> {}, works |-> {"works"}, maps |-> {"works", "maps"},
         io |-> {"works", "maps", "io"}, deleted |-> Parts][server]

PoolPart(p) == IF p = "WORKS" THEN "works" ELSE "io"

\* An event may take an IO thread to any part; a worker's task ends in queueinloop().
Touches(t) ==
    IF stack[t] # <<>>
    THEN CASE Frame(t).pc \in {"stop", "set", "notify", "join"} -> {PoolPart(Frame(t).pool)}
           [] Frame(t).pc \in {"loops", "delete"} -> {"loops"}
           [] OTHER -> {}
    ELSE CASE t = main \/ at[t] \in {"exited", "waiting"} -> {}
           [] at[t] \in {"while", "wait", "window"} -> {PoolPart(PoolOf(t))}
           [] at[t] = "busy" -> {"works", "loops"}
           [] OTHER -> Parts

\* Undefined behaviour: a thread that touches what was destroyed crashes, or goes on.
Crash(t) == Running /\ Touches(t) \cap Gone # {} /\ Ends("crashed")
-----------------------------------------------------------------------------
MainThread == Construct \/ NewConnection

PoolThread(t) == WhileTest(t) \/ Wait(t) \/ Sleep(t)

LoopThread(l) == RunTest(l) \/ PollWakeup(l) \/ Close(l) \/ SweepEnds(l) \/ Sweep(l)

Events(l) == PollEvent(l) \/ PollMessage(l)

Handler(t) == \/ PoolStop(t) \/ PoolSet(t) \/ PoolNotify(t) \/ PoolJoin(t) \/ JoinFails(t)
              \/ StopLoops(t) \/ DeleteServer(t) \/ Destroy(t) \/ Exit(t)

Next == \/ MainThread
        \/ \E t \in Pooled : PoolThread(t)
        \/ \E l \in Loops : LoopThread(l) \/ Events(l)
        \/ \E s \in Signals : Deliver(s)
        \/ \E t \in Threads : Handler(t) \/ Crash(t)

\* A thread comes to join itself at the latest when the others have exited.
HandlerGoesOn(t) ==
    /\ Handler(t)
    /\ JoinFails(t) => \/ joined[Frame(t).pool]
                       \/ \A u \in Members(Frame(t).pool) \ {t} : at[u] = "exited"

\* Every thread is scheduled, interrupted or not; connections and signals come
\* or do not come.  A sweep ends, because each of its rounds erases a connection.
Fairness == /\ \A t \in Pooled : WF_vars(PoolThread(t))
            /\ \A l \in Loops : WF_vars(LoopThread(l)) /\ SF_vars(SweepEnds(l))
            /\ \A t \in Threads : WF_vars(HandlerGoesOn(t))

Spec == Init /\ [][Next]_vars
FairSpec == Spec /\ Fairness
-----------------------------------------------------------------------------
Places == {"construct", "epoll", "server", "inserted", "while", "wait", "window", "waiting", "busy",
           "exited", "run", "poll", "close", "sweep", "idle", "erase", "remove", "removing",
           "spin"} \cup Loops
FramePcs == {"stop", "set", "notify", "join", "loops", "delete", "destroy", "exit"}

\* Each thread is at a place of its code, and each handler frame at one of Stop().
TypeOK ==
    /\ status \in {"running", "exited", "crashed", "terminated"}
    /\ server \in {"null", "built", "works", "maps", "io", "deleted"}
    /\ at \in [Threads -> Places]
    /\ stack \in [Threads -> Seq([sig : Signals, pool : {"WORKS", "IO"}, pc : FramePcs])]
    /\ {stop_, joined} \subseteq [{"WORKS", "IO"} -> BOOLEAN]
    /\ {loopStop, wakeupfd_} \subseteq [Loops -> BOOLEAN]
    /\ jobs \in 0..MaxJobs /\ signals \in 0..MaxSignals

\* The IO threads' event loops and the memory of the server are freed only when no
\* worker and no IO thread is left, however the signals nest (tcpepoll.cpp Stop(),
\* ~ThreadPool()): the members destroyed before are not so lucky.
MemoryOutlivesThreads == server = "deleted" => \A t \in Pooled : at[t] = "exited"

\* A single signal that finds the server built never ends the process in any
\* other way than exit(0): no thread joins itself, no joinable thread is
\* destroyed, and nothing is touched after its destruction.
OneSignalIsClean ==
    signals <= 1 /\ at[main] # "construct" => status \in {"running", "exited"}

\* A thread that missed the notification of its pool's Stop(): it sleeps, and
\* nobody is going to notify it.
Missed == \E t \in Pooled :
    /\ at[t] \in {"window", "waiting"} /\ stop_[PoolOf(t)]
    /\ \A u \in Threads : ~(In(u, "notify") /\ Frame(u).pool = PoolOf(t))

\* The handler has interrupted main inside a critical section that an IO thread
\* is waiting for.
LockedOut == \/ at[main] = "server" /\ \E l \in Loops : at[l] \in {"close", "remove"}
             \/ at[main] \in Loops /\ at[at[main]] = "idle"

\* A sweep that has emptied its map spins on; main, which inserts nothing while it
\* is interrupted, does not end it.
Spinning == \E l \in Loops : at[l] = "spin"

\* After a signal the process ends, unless a thread missed its notification, main
\* was interrupted with a mutex that an IO thread needs, or a sweep spins: nothing
\* else, such as a loop that sleeps on in epoll_wait(), a busy worker or a second
\* signal, holds Stop() up.
StopsUnlessStuck == signals > 0 ~> (~Running \/ Missed \/ LockedOut \/ Spinning)

\* tcpepoll.cpp: the handler of the signals 2 and 15 stops the server, and the
\* process exits; the missed notification (ThreadPool) and the sweep that spins
\* (Reactor) are left aside.
SignalEndsProcess == signals > 0 ~> (~Running \/ Missed \/ Spinning)
=============================================================================
