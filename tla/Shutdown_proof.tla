--------------------------- MODULE Shutdown_proof ---------------------------
(***************************************************************************)
(* For any number of workers, IO threads, tasks and signals, and however   *)
(* the signals nest: the memory of the server is freed only after its last *)
(* thread, and a single signal ends the process cleanly or not at all.     *)
(***************************************************************************)
EXTENDS Shutdown, SequenceTheorems, TLAPS

\* Every thread has a place, and every pool its flag.
PlaceInv == /\ at \in [Threads -> Places]
            /\ joined \in [{"WORKS", "IO"} -> BOOLEAN]

\* A pool counts as joined only when all of its threads have exited, and nothing
\* brings an exited thread back: neither Stop()'s notification nor a task.
JoinedInv == \A t \in Pooled : joined[PoolOf(t)] => at[t] = "exited"

\* The destruction of a pool's threads_ needs that they are joined.
DeletedInv == /\ server \in {"maps", "io", "deleted"} => joined["WORKS"]
              /\ server = "deleted" => joined["IO"]

DeleteInv == PlaceInv /\ JoinedInv /\ DeletedInv

\* A thread that is not interrupted moves from a place other than "exited", so
\* what holds of the exited threads stays.
LEMMA MovesKeeps ==
    ASSUME DeleteInv, NEW t \in Threads, NEW from, NEW to \in Places,
           from # "exited" \/ t = main, Moves(t, from, to),
           UNCHANGED joined, UNCHANGED server \/ server' = "built"
    PROVE  DeleteInv'
<1>1. PlaceInv'
  BY DEF DeleteInv, PlaceInv, Moves
<1>2. JoinedInv'
  <2>1. SUFFICES ASSUME NEW u \in Pooled, joined[PoolOf(u)]
                 PROVE  at'[u] = "exited"
    BY DEF JoinedInv, PoolOf
  <2>2. at[u] = "exited" /\ u # main /\ u \in Threads
    BY <2>1, ShutdownAssumption DEF DeleteInv, JoinedInv, Pooled, Threads
  <2>3. u # t
    BY <2>2 DEF Moves
  <2>. QED
    BY <2>2, <2>3 DEF Moves, DeleteInv, PlaceInv
<1>3. DeletedInv'
  BY DEF DeleteInv, DeletedInv
<1>. QED
  BY <1>1, <1>2, <1>3 DEF DeleteInv

\* The invariant survives every step that moves no thread and joins no pool.
LEMMA StillKeeps ==
    ASSUME DeleteInv, UNCHANGED <<at, joined>>, UNCHANGED server
    PROVE  DeleteInv'
BY DEF DeleteInv, PlaceInv, JoinedInv, DeletedInv, PoolOf

\* It also survives a step that moves two threads none of which has exited.
LEMMA TwoMoveKeeps ==
    ASSUME DeleteInv, NEW t \in Threads, NEW u \in Threads, NEW a \in Places, NEW b \in Places,
           at[t] # "exited" \/ t = main, at[u] # "exited", at' = [at EXCEPT ![t] = a, ![u] = b],
           UNCHANGED <<server, joined>>
    PROVE  DeleteInv'
<1>1. \A v \in Pooled : at[v] = "exited" => at'[v] = "exited"
  BY ShutdownAssumption DEF DeleteInv, PlaceInv, Threads, Pooled
<1>2. PlaceInv'
  BY DEF DeleteInv, PlaceInv
<1>. QED
  BY <1>1, <1>2 DEF DeleteInv, JoinedInv, DeletedInv, PoolOf

\* The steps of main, the pools' threads and the event loops.
LEMMA ThreadsKeep ==
    ASSUME DeleteInv,
           \/ MainThread
           \/ \E t \in Pooled : PoolThread(t)
           \/ \E l \in Loops : LoopThread(l) \/ Events(l)
    PROVE  DeleteInv'
<1>. USE DEF Threads, Pooled, Places
<1>1. CASE Construct
  BY <1>1, MovesKeeps DEF Construct, poolVars
<1>2. CASE NewConnection
  <2>0. UNCHANGED <<server, joined>>
    BY <1>2 DEF NewConnection, poolVars
  <2>1. CASE \E l \in Loops : Moves(main, l, "epoll")
    BY <2>0, <2>1, MovesKeeps
  <2>2. CASE \E l \in Loops : Moves(main, "inserted", l)
    BY <2>0, <2>2, MovesKeeps
  <2>3. CASE Moves(main, "epoll", "server") \/ Moves(main, "server", "inserted")
    BY <2>0, <2>3, MovesKeeps
  <2>4. ASSUME NEW l \in Loops, at[main] = l, at[l] = "spin",
               at' = [at EXCEPT ![main] = "epoll", ![l] = "sweep"]
        PROVE  DeleteInv'
    BY <2>0, <2>4, TwoMoveKeeps
  <2>. QED
    BY <1>2, <2>1, <2>2, <2>3, <2>4 DEF NewConnection
<1>3. ASSUME NEW t \in Pooled, WhileTest(t) PROVE DeleteInv'
  BY <1>3, MovesKeeps DEF WhileTest, poolVars
<1>4. ASSUME NEW t \in Pooled, Wait(t) PROVE DeleteInv'
  BY <1>4, MovesKeeps DEF Wait
<1>5. ASSUME NEW t \in Pooled, Sleep(t) PROVE DeleteInv'
  BY <1>5, MovesKeeps DEF Sleep, poolVars
<1>6. ASSUME NEW l \in Loops, RunTest(l) PROVE DeleteInv'
  BY <1>6, MovesKeeps DEF RunTest, poolVars
<1>7. ASSUME NEW l \in Loops, PollWakeup(l) PROVE DeleteInv'
  BY <1>7, MovesKeeps DEF PollWakeup, poolVars
<1>8. ASSUME NEW l \in Loops, Close(l) PROVE DeleteInv'
  BY <1>8, MovesKeeps DEF Close, poolVars
<1>11. ASSUME NEW l \in Loops, SweepEnds(l) \/ Sweep(l) PROVE DeleteInv'
  BY <1>11, MovesKeeps DEF SweepEnds, Sweep, poolVars
<1>9. ASSUME NEW l \in Loops, PollEvent(l) PROVE DeleteInv'
  BY <1>9, MovesKeeps DEF PollEvent, poolVars
<1>10. ASSUME NEW l \in Loops, PollMessage(l) PROVE DeleteInv'
  <2>1. /\ UNCHANGED <<server, joined>> /\ at[l] = "poll"
        /\ \/ at' = [at EXCEPT ![l] = "run"]
           \/ \E w \in Workers : /\ at[w] = "waiting"
                                 /\ at' = [at EXCEPT ![l] = "run", ![w] = "wait"]
    BY <1>10 DEF PollMessage
  <2>2. CASE at' = [at EXCEPT ![l] = "run"]
    BY <2>1, <2>2 DEF DeleteInv, PlaceInv, JoinedInv, DeletedInv, PoolOf
  <2>. QED
    BY <2>1, <2>2, TwoMoveKeeps
<1>. QED
  BY <1>1, <1>2, <1>3, <1>4, <1>5, <1>6, <1>7, <1>8, <1>9, <1>10, <1>11
     DEF MainThread, PoolThread, LoopThread, Events

\* The steps of the signal handler, on whichever thread it runs.
LEMMA HandlerKeeps ==
    ASSUME DeleteInv, NEW t \in Threads, Handler(t)
    PROVE  DeleteInv'
<1>1. CASE PoolStop(t)
  BY <1>1, StillKeeps DEF PoolStop, Ends, poolVars
<1>2. CASE PoolNotify(t)
  <2>1. /\ UNCHANGED <<server, joined>>
        /\ at' = [u \in Threads |-> IF at[u] = "waiting" /\ PoolOf(u) = Frame(t).pool
                                    THEN "wait" ELSE at[u]]
    BY <1>2 DEF PoolNotify, poolVars
  <2>2. PlaceInv'
    BY <2>1 DEF DeleteInv, PlaceInv, Places
  <2>3. \A u \in Pooled : at[u] = "exited" => at'[u] = "exited"
    BY <2>1 DEF Threads
  <2>. QED
    BY <2>1, <2>2, <2>3 DEF DeleteInv, JoinedInv, DeletedInv, PoolOf
<1>3. CASE PoolJoin(t)
  <2>1. /\ UNCHANGED <<server, at>>
        /\ \A u \in Pooled : PoolOf(u) = Frame(t).pool => at[u] = "exited"
        /\ joined' = [joined EXCEPT ![Frame(t).pool] = TRUE]
    BY <1>3 DEF PoolJoin, Members
  <2>2. PlaceInv'
    BY <2>1 DEF DeleteInv, PlaceInv
  <2>3. JoinedInv'
    BY <2>1 DEF DeleteInv, PlaceInv, JoinedInv, PoolOf
  <2>4. DeletedInv'
    BY <2>1 DEF DeleteInv, PlaceInv, DeletedInv
  <2>. QED
    BY <2>2, <2>3, <2>4 DEF DeleteInv
<1>4. CASE StopLoops(t)
  BY <1>4, StillKeeps DEF StopLoops, poolVars
<1>5. CASE DeleteServer(t)
  <2>1. UNCHANGED <<at, joined>> /\ (UNCHANGED server \/ server' = "works")
    BY <1>5 DEF DeleteServer, Ends, poolVars
  <2>. QED
    BY <2>1 DEF DeleteInv, PlaceInv, JoinedInv, DeletedInv, PoolOf
<1>6. CASE Destroy(t)
  <2>1. /\ UNCHANGED <<at, joined>>
        /\ \/ UNCHANGED server
           \/ joined["WORKS"] /\ server' = "maps"
           \/ server = "maps" /\ server' = "io"
           \/ server = "io" /\ joined["IO"] /\ server' = "deleted"
    BY <1>6 DEF Destroy, Ends, poolVars
  <2>. QED
    BY <2>1 DEF DeleteInv, PlaceInv, JoinedInv, DeletedInv, PoolOf
<1>7. CASE PoolSet(t) \/ JoinFails(t) \/ Exit(t)
  BY <1>7, StillKeeps DEF PoolSet, JoinFails, Exit, Ends, poolVars
<1>. QED
  BY <1>1, <1>2, <1>3, <1>4, <1>5, <1>6, <1>7 DEF Handler

\* Initially nothing is joined, and every step keeps the invariant.
LEMMA DeleteInvKept ==
    /\ Init => DeleteInv
    /\ DeleteInv /\ [Next]_vars => DeleteInv'
<1>1. Init => DeleteInv
  BY DEF Init, DeleteInv, PlaceInv, JoinedInv, DeletedInv, Places, PoolOf
<1>2. SUFFICES ASSUME DeleteInv, [Next]_vars PROVE DeleteInv'
  BY <1>1
<1>3. CASE UNCHANGED vars
  BY <1>2, <1>3, StillKeeps DEF vars, poolVars
<1>4. ASSUME NEW s \in Signals, Deliver(s) PROVE DeleteInv'
  BY <1>2, <1>4, StillKeeps DEF Deliver, poolVars
<1>5. ASSUME NEW t \in Threads, Crash(t) PROVE DeleteInv'
  BY <1>2, <1>5, StillKeeps DEF Crash, Ends, poolVars
<1>. QED
  BY <1>2, <1>3, <1>4, <1>5, ThreadsKeep, HandlerKeeps DEF Next

\* The event loops and the memory of the server are freed only when every worker and
\* IO thread has exited, however many signals arrive and wherever the handler is
\* interrupted by another one.
THEOREM MemoryOutlivesThreadsHolds == Spec => []MemoryOutlivesThreads
<1>1. DeleteInv => MemoryOutlivesThreads
  BY DEF DeleteInv, JoinedInv, DeletedInv, MemoryOutlivesThreads, PoolOf
<1>. QED
  BY <1>1, DeleteInvKept, PTL DEF Spec
-----------------------------------------------------------------------------
\* Types.

Pools == {"WORKS", "IO"}
Frames == [sig : Signals, pool : Pools, pc : FramePcs]

\* The handler goes on in its topmost frame, and the others wait.
LEMMA GoesOn ==
    ASSUME stack \in [Threads -> Seq(Frames)], NEW t \in Threads, stack[t] # <<>>,
           NEW p \in Pools, NEW c \in FramePcs, Goes(t, p, c)
    PROVE  /\ stack' \in [Threads -> Seq(Frames)]
           /\ \A u \in Threads : u # t => stack'[u] = stack[u]
           /\ Len(stack'[t]) = Len(stack[t])
           /\ Frame(t)'.pool = p /\ Frame(t)'.pc = c
<1>1. PICK s \in Seq(Frames) : s = stack[t] /\ s # <<>>
  OBVIOUS
<1>2. Len(s) \in 1..Len(s) /\ s[Len(s)] \in Frames
  BY <1>1
<1>3. PICK e : e = [s EXCEPT ![Len(s)].pool = p, ![Len(s)].pc = c]
  OBVIOUS
<1>4. e \in Seq(Frames) /\ Len(e) = Len(s)
  <2>1. PICK g \in Frames : g = [s[Len(s)] EXCEPT !.pool = p, !.pc = c]
    BY <1>2 DEF Frames
  <2>2. e = [s EXCEPT ![Len(s)] = g]
    BY <1>3, <2>1
  <2>. QED
    BY <1>1, <1>2, <2>2, ExceptSeq
<1>5. e[Len(s)].pool = p /\ e[Len(s)].pc = c
  BY <1>1, <1>2, <1>3 DEF Frames
<1>6. stack' = [stack EXCEPT ![t] = e]
  BY <1>1, <1>3 DEF Goes
<1>. QED
  BY <1>1, <1>4, <1>5, <1>6 DEF Frame

\* A thread that moves arrives at a place of its code, and its frames wait.
LEMMA MovesTypes ==
    ASSUME TypeOK, NEW t \in Threads, NEW from, NEW to \in Places, Moves(t, from, to),
           UNCHANGED <<status, stack, stop_, joined, loopStop, signals>>,
           server' \in {server, "built"}, jobs' \in 0..MaxJobs,
           wakeupfd_' \in [Loops -> BOOLEAN]
    PROVE  TypeOK'
BY DEF TypeOK, Moves

\* The steps of main, the pools' threads and the event loops.
LEMMA ThreadTypes ==
    ASSUME TypeOK,
           \/ MainThread
           \/ \E t \in Pooled : PoolThread(t)
           \/ \E l \in Loops : LoopThread(l) \/ Events(l)
    PROVE  TypeOK'
<1>. USE DEF Threads, Pooled, Places, poolVars, loopVars
<1>0. jobs \in 0..MaxJobs /\ wakeupfd_ \in [Loops -> BOOLEAN] /\ MaxJobs \in Nat
  BY ShutdownAssumption DEF TypeOK
<1>1. CASE Construct
  BY <1>0, <1>1, MovesTypes DEF Construct
<1>2. CASE NewConnection
  <2>0. UNCHANGED <<status, server, stack, poolVars, loopVars, signals>>
    BY <1>2 DEF NewConnection
  <2>1. CASE \E l \in Loops : Moves(main, l, "epoll")
    BY <1>0, <2>0, <2>1, MovesTypes
  <2>2. CASE \E l \in Loops : Moves(main, "inserted", l)
    BY <1>0, <2>0, <2>2, MovesTypes
  <2>3. CASE Moves(main, "epoll", "server") \/ Moves(main, "server", "inserted")
    BY <1>0, <2>0, <2>3, MovesTypes
  <2>4. ASSUME NEW l \in Loops, at' = [at EXCEPT ![main] = "epoll", ![l] = "sweep"]
        PROVE  TypeOK'
    BY <2>0, <2>4 DEF TypeOK
  <2>. QED
    BY <1>2, <2>1, <2>2, <2>3, <2>4 DEF NewConnection
<1>3. ASSUME NEW t \in Pooled, WhileTest(t) PROVE TypeOK'
  BY <1>0, <1>3, MovesTypes DEF WhileTest
<1>4. ASSUME NEW t \in Pooled, Wait(t) PROVE TypeOK'
  <2>1. jobs' \in 0..MaxJobs
    BY <1>0, <1>4 DEF Wait
  <2>. QED
    BY <1>0, <1>4, <2>1, MovesTypes DEF Wait
<1>5. ASSUME NEW t \in Pooled, Sleep(t) PROVE TypeOK'
  BY <1>0, <1>5, MovesTypes DEF Sleep
<1>6. ASSUME NEW l \in Loops, RunTest(l) PROVE TypeOK'
  BY <1>0, <1>6, MovesTypes DEF RunTest
<1>7. ASSUME NEW l \in Loops, PollWakeup(l) PROVE TypeOK'
  BY <1>0, <1>7, MovesTypes DEF PollWakeup
<1>8. ASSUME NEW l \in Loops, Close(l) PROVE TypeOK'
  BY <1>0, <1>8, MovesTypes DEF Close
<1>11. ASSUME NEW l \in Loops, SweepEnds(l) \/ Sweep(l) PROVE TypeOK'
  BY <1>0, <1>11, MovesTypes DEF SweepEnds, Sweep
<1>9. ASSUME NEW l \in Loops, PollEvent(l) PROVE TypeOK'
  BY <1>0, <1>9, MovesTypes DEF PollEvent
<1>10. ASSUME NEW l \in Loops, PollMessage(l) PROVE TypeOK'
  <2>1. jobs' \in 0..MaxJobs
    BY <1>0, <1>10 DEF PollMessage
  <2>2. at' \in [Threads -> Places]
    BY <1>10 DEF PollMessage, TypeOK
  <2>. QED
    BY <1>10, <2>1, <2>2 DEF PollMessage, TypeOK
<1>. QED
  BY <1>1, <1>2, <1>3, <1>4, <1>5, <1>6, <1>7, <1>8, <1>9, <1>10, <1>11
     DEF MainThread, PoolThread, LoopThread, Events

\* What the topmost frame may go on with.
LEMMA FrameTypes ==
    ASSUME TypeOK, NEW t \in Threads, stack[t] # <<>>
    PROVE  Frame(t) \in Frames /\ Frame(t).pool \in Pools
<1>1. stack[t] \in Seq(Frames)
  BY DEF TypeOK, Frames, Pools
<1>2. PICK s \in Seq(Frames) : s = stack[t] /\ s # <<>>
  BY <1>1
<1>3. s[Len(s)] \in Frames
  BY <1>2
<1>. QED
  BY <1>2, <1>3 DEF Frame, Frames

\* The steps of the signal handler.
LEMMA HandlerTypes ==
    ASSUME TypeOK, NEW t \in Threads, Handler(t)
    PROVE  TypeOK'
<1>. USE DEF poolVars, loopVars
<1>1. stack \in [Threads -> Seq(Frames)] /\ Frame(t).pool \in Pools /\ stack[t] # <<>>
  BY FrameTypes DEF TypeOK, Frames, Pools, Handler, PoolStop, PoolSet, PoolNotify, PoolJoin,
                    JoinFails, StopLoops, DeleteServer, Destroy, Exit, In
<1>2. ASSUME NEW how \in {"crashed", "terminated", "exited"}, Ends(how) PROVE TypeOK'
  BY <1>2 DEF Ends, TypeOK
<1>3. ASSUME NEW p \in Pools, NEW c \in FramePcs, Goes(t, p, c)
      PROVE  stack' \in [Threads -> Seq([sig : Signals, pool : {"WORKS", "IO"}, pc : FramePcs])]
  BY <1>1, <1>3, GoesOn DEF Frames, Pools
<1>4. ASSUME Leaves(t)
      PROVE  stack' \in [Threads -> Seq([sig : Signals, pool : {"WORKS", "IO"}, pc : FramePcs])]
  BY <1>3, <1>4 DEF Leaves, FramePcs, Pools
<1>5. CASE PoolStop(t)
  BY <1>1, <1>2, <1>3, <1>4, <1>5 DEF PoolStop, TypeOK, FramePcs, Pools
<1>6. CASE PoolNotify(t)
  <2>1. at' \in [Threads -> Places]
    BY <1>6 DEF PoolNotify, TypeOK, Places
  <2>. QED
    BY <1>1, <1>3, <1>6, <2>1 DEF PoolNotify, TypeOK, FramePcs
<1>7. CASE PoolJoin(t)
  BY <1>4, <1>7 DEF PoolJoin, TypeOK
<1>8. CASE StopLoops(t)
  BY <1>3, <1>8 DEF StopLoops, TypeOK, FramePcs, Pools
<1>9. CASE DeleteServer(t)
  <2>1. CASE Ends("crashed")
    BY <1>2, <2>1
  <2>2. CASE ~Ends("crashed")
    <3>1. /\ server' = "works" /\ Goes(t, "IO", "destroy")
          /\ UNCHANGED <<status, at, poolVars, loopVars, signals>>
      BY <1>9, <2>2 DEF DeleteServer
    <3>. QED
      BY <1>3, <3>1 DEF TypeOK, FramePcs, Pools
  <2>. QED
    BY <2>1, <2>2
<1>10. CASE Destroy(t)
  <2>1. CASE Ends("terminated")
    BY <1>2, <2>1
  <2>2. CASE ~Ends("terminated")
    <3>1. /\ server' \in {"maps", "io", "deleted"}
          /\ UNCHANGED stack \/ Goes(t, "IO", "exit")
          /\ UNCHANGED <<status, at, poolVars, loopVars, signals>>
      BY <1>10, <2>2 DEF Destroy
    <3>. QED
      BY <1>3, <3>1 DEF TypeOK, FramePcs, Pools
  <2>. QED
    BY <2>1, <2>2
<1>11. CASE PoolSet(t)
  <2>1. /\ Goes(t, Frame(t).pool, "notify")
        /\ stop_' = [stop_ EXCEPT ![Frame(t).pool] = TRUE]
        /\ UNCHANGED <<status, server, at, joined, jobs, loopVars, signals>>
    BY <1>11 DEF PoolSet
  <2>. QED
    BY <1>1, <1>3, <2>1 DEF TypeOK, FramePcs
<1>12. CASE JoinFails(t) \/ Exit(t)
  BY <1>2, <1>12 DEF JoinFails, Exit
<1>. QED
  BY <1>5, <1>6, <1>7, <1>8, <1>9, <1>10, <1>11, <1>12 DEF Handler

\* A signal puts one more frame on the stack of a thread.
LEMMA DeliverTypes ==
    ASSUME TypeOK, NEW s \in Signals, Deliver(s)
    PROVE  TypeOK'
<1>1. PICK t \in Threads :
        stack' = [stack EXCEPT ![t] = Append(@, [sig |-> s, pool |-> "WORKS", pc |-> "stop"])]
  BY DEF Deliver, Targets, Threads, Pooled
<1>2. [sig |-> s, pool |-> "WORKS", pc |-> "stop"] \in Frames
  BY DEF Frames, Pools, FramePcs
<1>3. stack \in [Threads -> Seq(Frames)]
  BY DEF TypeOK, Frames, Pools
<1>4. \A f \in Frames : Append(stack[t], f) \in Seq(Frames)
  BY <1>3, AppendProperties
<1>5. stack' \in [Threads -> Seq(Frames)]
  BY <1>1, <1>2, <1>3, <1>4
<1>6. signals' \in 0..MaxSignals
  BY ShutdownAssumption DEF Deliver, TypeOK
<1>. QED
  BY <1>5, <1>6 DEF Deliver, TypeOK, Frames, Pools, poolVars, loopVars

\* Every thread is at a place of its code and every handler frame at one of Stop(),
\* and no counter leaves its range, whatever is interrupted by what.
THEOREM TypesHold == Spec => []TypeOK
<1>1. Init => TypeOK
  BY ShutdownAssumption DEF Init, TypeOK, Places
<1>2. TypeOK /\ [Next]_vars => TypeOK'
  <2>1. SUFFICES ASSUME TypeOK, [Next]_vars PROVE TypeOK'
    OBVIOUS
  <2>2. CASE UNCHANGED vars
    BY <2>1, <2>2 DEF vars, poolVars, loopVars, TypeOK
  <2>3. ASSUME NEW t \in Threads, Crash(t) PROVE TypeOK'
    BY <2>1, <2>3 DEF Crash, Ends, poolVars, loopVars, TypeOK
  <2>. QED
    BY <2>1, <2>2, <2>3, ThreadTypes, HandlerTypes, DeliverTypes DEF Next
<1>. QED
  BY <1>1, <1>2, PTL DEF Spec
-----------------------------------------------------------------------------
\* A single signal.

\* How far Stop() has come when the only handler frame is f: the workers' pool
\* first, then the loops and their pool, then the server.
HandlerAt(f) ==
    /\ stop_["WORKS"] <=> f.pool = "IO" \/ f.pc \notin {"stop", "set"}
    /\ stop_["IO"] <=> f.pool = "IO" /\ f.pc \notin {"loops", "stop", "set"}
    /\ joined["WORKS"] <=> f.pool = "IO"
    /\ joined["IO"] <=> f.pool = "IO" /\ f.pc \in {"delete", "destroy", "exit"}
    /\ f.pool = "WORKS" => f.pc \in {"stop", "set", "notify", "join"}
    /\ server = "null" => f.pool = "WORKS" /\ f.pc = "stop"
    /\ server \in {"works", "maps", "io"} <=> f.pc = "destroy"
    /\ server = "deleted" <=> f.pc = "exit"

\* The kernel gives the only signal to main.
OneFrame ==
    /\ \A t \in Pooled : stack[t] = <<>>
    /\ IF signals = 0 THEN /\ stack[main] = <<>> /\ server \in {"null", "built"}
                          /\ \A p \in Pools : ~stop_[p] /\ ~joined[p]
       ELSE Len(stack[main]) = 1 /\ HandlerAt(Frame(main))

\* Until the server is built main is in its constructor.
BuiltInv == server = "null" => at[main] = "construct"

CleanEnd == status \in {"running", "exited"} \/ at[main] = "construct"

CleanInv == signals <= 1 => OneFrame /\ BuiltInv /\ CleanEnd

\* Steps below the handler frames, which see nothing of Stop()'s progress.
LEMMA MovesClean ==
    ASSUME TypeOK, CleanInv,
           \/ MainThread
           \/ \E t \in Pooled : PoolThread(t)
           \/ \E l \in Loops : LoopThread(l) \/ Events(l)
    PROVE  CleanInv'
<1>. USE DEF poolVars, loopVars
<1>1. main \in Threads /\ main \notin Pooled /\ Pooled \subseteq Threads
  BY ShutdownAssumption DEF Threads, Pooled
<1>2. SUFFICES ASSUME signals <= 1, UNCHANGED signals PROVE (OneFrame /\ BuiltInv /\ CleanEnd)'
  BY DEF CleanInv, MainThread, PoolThread, LoopThread, Events, Construct, NewConnection,
         WhileTest, Wait, Sleep, RunTest, PollWakeup, Close, SweepEnds, Sweep, PollEvent,
         PollMessage
<1>3. OneFrame /\ BuiltInv /\ CleanEnd
  BY <1>2 DEF CleanInv
<1>4. UNCHANGED <<status, stack, stop_, joined>>
  BY DEF MainThread, PoolThread, LoopThread, Events, Construct, NewConnection,
         WhileTest, Wait, Sleep, RunTest, PollWakeup, Close, SweepEnds, Sweep, PollEvent,
         PollMessage
<1>5. CASE Construct
  <2>1. stack[main] = <<>> /\ status = "running" /\ server' = "built"
    BY <1>5 DEF Construct, Moves, Running
  <2>2. signals = 0
    BY <1>2, <1>3, <2>1 DEF OneFrame
  <2>. QED
    BY <1>2, <1>3, <1>4, <2>1, <2>2 DEF OneFrame, BuiltInv, CleanEnd
<1>6. CASE NewConnection
  <2>1. /\ status = "running" /\ UNCHANGED server /\ at[main] # "construct"
    BY <1>6, ShutdownAssumption DEF NewConnection, Moves, Running
  <2>. QED
    BY <1>2, <1>3, <1>4, <2>1 DEF OneFrame, HandlerAt, Frame, BuiltInv, CleanEnd
<1>7. CASE ~Construct /\ ~NewConnection
  <2>1. at'[main] = at[main] /\ UNCHANGED server
    <3>1. ASSUME NEW t \in Pooled, NEW from, NEW to, Moves(t, from, to)
          PROVE  at'[main] = at[main]
      BY <1>1, <3>1 DEF Moves, TypeOK
    <3>2. ASSUME NEW t \in Pooled, PoolThread(t) PROVE at'[main] = at[main] /\ UNCHANGED server
      BY <3>1, <3>2 DEF PoolThread, WhileTest, Wait, Sleep
    <3>3. ASSUME NEW l \in Loops, LoopThread(l)
          PROVE  at'[main] = at[main] /\ UNCHANGED server
      BY <3>1, <3>3 DEF LoopThread, RunTest, PollWakeup, Close, SweepEnds, Sweep, Pooled
    <3>4. ASSUME NEW l \in Loops, PollEvent(l) PROVE at'[main] = at[main] /\ UNCHANGED server
      BY <3>1, <3>4 DEF PollEvent, Pooled
    <3>5. ASSUME NEW l \in Loops, PollMessage(l) PROVE at'[main] = at[main] /\ UNCHANGED server
      BY <1>1, <3>5 DEF PollMessage, Pooled, TypeOK
    <3>. QED
      BY <1>7, <3>2, <3>3, <3>4, <3>5 DEF MainThread, Events
  <2>. QED
    BY <1>2, <1>3, <1>4, <2>1 DEF OneFrame, HandlerAt, Frame, BuiltInv, CleanEnd
<1>. QED
  BY <1>5, <1>6, <1>7

\* The first signal finds no frame, and main does not block it.
LEMMA DeliverClean ==
    ASSUME TypeOK, CleanInv, NEW s \in Signals, Deliver(s)
    PROVE  CleanInv'
<1>. USE DEF poolVars, loopVars
<1>1. SUFFICES ASSUME signals' <= 1 PROVE (OneFrame /\ BuiltInv /\ CleanEnd)'
  BY DEF CleanInv
<1>2. signals = 0 /\ signals' = 1
  BY <1>1, ShutdownAssumption DEF Deliver, TypeOK
<1>3. OneFrame /\ BuiltInv /\ CleanEnd
  BY <1>2 DEF CleanInv
<1>4. main \in Threads /\ main \notin Pooled /\ Pooled \subseteq Threads
  BY ShutdownAssumption DEF Threads, Pooled
<1>5. Targets(s) = {main}
  BY <1>2, <1>3 DEF Targets, Blocked, OneFrame
<1>6. PICK f : f = [sig |-> s, pool |-> "WORKS", pc |-> "stop"]
  OBVIOUS
<1>7. stack' = [stack EXCEPT ![main] = Append(<<>>, f)]
  BY <1>2, <1>3, <1>5, <1>6 DEF Deliver, OneFrame
<1>8. stack'[main] = <<f>> /\ \A t \in Pooled : stack'[t] = stack[t]
  BY <1>4, <1>7 DEF TypeOK
<1>9. Len(stack'[main]) = 1 /\ Frame(main)' = f
  BY <1>8 DEF Frame
<1>10. UNCHANGED <<status, server, at, stop_, joined>>
  BY DEF Deliver
<1>11. HandlerAt(f)'
  BY <1>2, <1>3, <1>6, <1>10 DEF OneFrame, HandlerAt, Pools
<1>. QED
  BY <1>2, <1>3, <1>8, <1>9, <1>10, <1>11 DEF OneFrame, BuiltInv, CleanEnd

\* The handler on main goes through both pools in order.
LEMMA HandlerClean ==
    ASSUME TypeOK, CleanInv, NEW t \in Threads, Handler(t)
    PROVE  CleanInv'
<1>. USE DEF poolVars, loopVars
<1>1. SUFFICES ASSUME signals <= 1, UNCHANGED signals PROVE (OneFrame /\ BuiltInv /\ CleanEnd)'
  BY DEF CleanInv, Handler, PoolStop, PoolSet, PoolNotify, PoolJoin, JoinFails, StopLoops,
         DeleteServer, Destroy, Exit, Ends
<1>2. OneFrame /\ BuiltInv /\ CleanEnd
  BY <1>1 DEF CleanInv
<1>3. stack[t] # <<>> /\ Running
  BY DEF Handler, PoolStop, PoolSet, PoolNotify, PoolJoin, JoinFails, StopLoops, DeleteServer,
         Destroy, Exit, In
<1>4. t = main /\ main \notin Pooled /\ main \in Threads
  BY <1>2, <1>3, ShutdownAssumption DEF OneFrame, Threads, Pooled
<1>5. PICK f \in Frames : f = Frame(main)
  BY <1>3, <1>4, FrameTypes
<1>6. /\ signals # 0 /\ Len(stack[main]) = 1 /\ HandlerAt(f)
      /\ f.pool \in Pools /\ f.pc \in FramePcs
  BY <1>2, <1>3, <1>4, <1>5 DEF OneFrame, Frames
<1>7. stack \in [Threads -> Seq(Frames)] /\ joined \in [Pools -> BOOLEAN]
      /\ stop_ \in [Pools -> BOOLEAN]
  BY DEF TypeOK, Frames, Pools
<1>8. ASSUME NEW how \in {"running", "exited"}, status' = how \/ at[main] = "construct",
             UNCHANGED <<server, at, stack, stop_, joined>>
      PROVE  (OneFrame /\ BuiltInv /\ CleanEnd)'
  BY <1>1, <1>2, <1>8 DEF OneFrame, HandlerAt, Frame, BuiltInv, CleanEnd
<1>9. ASSUME NEW p \in Pools, NEW c \in FramePcs, Goes(t, p, c), UNCHANGED status,
             server' = "null" => UNCHANGED server /\ at'[main] = at[main],
             ASSUME NEW g, g.pool = p, g.pc = c PROVE HandlerAt(g)'
      PROVE  (OneFrame /\ BuiltInv /\ CleanEnd)'
  <2>1. /\ \A u \in Threads : u # t => stack'[u] = stack[u]
        /\ Len(stack'[t]) = 1 /\ Frame(t)'.pool = p /\ Frame(t)'.pc = c
    BY <1>3, <1>4, <1>6, <1>7, <1>9, GoesOn
  <2>2. HandlerAt(Frame(main))'
    BY <1>4, <1>9, <2>1
  <2>3. OneFrame'
    BY <1>1, <1>2, <1>4, <1>6, <2>1, <2>2 DEF OneFrame, Threads
  <2>. QED
    BY <1>1, <1>2, <1>3, <1>9, <2>3 DEF BuiltInv, CleanEnd, Running
<1>10. CASE PoolStop(t)
  <2>1. f.pc = "stop" /\ Frame(t) = f /\ ~stop_[f.pool]
    BY <1>4, <1>5, <1>6, <1>10 DEF PoolStop, In, Frame, HandlerAt, Pools
  <2>2. CASE server # "built"
    <3>1. server = "null"
      BY <1>6, <2>1, <2>2 DEF HandlerAt, TypeOK
    <3>. QED
      BY <1>2, <1>8, <1>10, <2>2, <3>1 DEF PoolStop, BuiltInv, Ends
  <2>3. CASE server = "built"
    <3>1. Goes(t, f.pool, "set") /\ UNCHANGED <<status, server, at, stop_, joined>>
      BY <1>10, <2>1, <2>3 DEF PoolStop
    <3>2. ASSUME NEW g, g.pool = f.pool, g.pc = "set" PROVE HandlerAt(g)'
      BY <1>6, <2>1, <2>3, <3>1, <3>2 DEF HandlerAt, Pools
    <3>. QED
      BY <1>6, <1>9, <3>1, <3>2 DEF FramePcs
  <2>. QED
    BY <2>2, <2>3
<1>16. CASE PoolSet(t)
  <2>1. f.pc = "set" /\ Frame(t) = f
    BY <1>4, <1>5, <1>16 DEF PoolSet, In, Frame
  <2>2. /\ Goes(t, f.pool, "notify") /\ stop_' = [stop_ EXCEPT ![f.pool] = TRUE]
        /\ UNCHANGED <<status, server, at, joined>>
    BY <1>16, <2>1 DEF PoolSet
  <2>3. server # "null"
    BY <1>6, <2>1 DEF HandlerAt
  <2>4. ASSUME NEW g, g.pool = f.pool, g.pc = "notify" PROVE HandlerAt(g)'
    BY <1>6, <1>7, <2>1, <2>2, <2>3, <2>4 DEF HandlerAt, Pools
  <2>. QED
    BY <1>6, <1>9, <2>2, <2>3, <2>4 DEF FramePcs
<1>11. CASE PoolNotify(t)
  <2>1. f.pc = "notify" /\ Frame(t) = f
    BY <1>4, <1>5, <1>11 DEF PoolNotify, In, Frame
  <2>2. Goes(t, f.pool, "join") /\ UNCHANGED <<status, server, stop_, joined>>
    BY <1>11, <2>1 DEF PoolNotify
  <2>3. server # "null"
    BY <1>6, <2>1 DEF HandlerAt
  <2>4. ASSUME NEW g, g.pool = f.pool, g.pc = "join" PROVE HandlerAt(g)'
    BY <1>6, <2>1, <2>2, <2>3, <2>4 DEF HandlerAt, Pools
  <2>. QED
    BY <1>6, <1>9, <2>2, <2>3, <2>4 DEF FramePcs
<1>12. CASE PoolJoin(t)
  <2>1. f.pc = "join" /\ Frame(t) = f
    BY <1>4, <1>5, <1>12 DEF PoolJoin, In, Frame
  <2>2. /\ Goes(t, "IO", IF f.pool = "WORKS" THEN "loops" ELSE "delete")
        /\ joined' = [joined EXCEPT ![f.pool] = TRUE]
        /\ UNCHANGED <<status, server, at, stop_>>
    BY <1>4, <1>12, <2>1 DEF PoolJoin, Leaves
  <2>3. server # "null"
    BY <1>6, <2>1 DEF HandlerAt
  <2>4. ASSUME NEW g, g.pool = "IO", g.pc = IF f.pool = "WORKS" THEN "loops" ELSE "delete"
        PROVE  HandlerAt(g)'
    BY <1>6, <1>7, <2>1, <2>2, <2>3, <2>4 DEF HandlerAt, Pools
  <2>. QED
    BY <1>9, <2>2, <2>3, <2>4 DEF FramePcs, Pools
<1>13. CASE StopLoops(t)
  <2>1. f.pc = "loops" /\ Frame(t) = f
    BY <1>4, <1>5, <1>13 DEF StopLoops, In, Frame
  <2>2. UNCHANGED <<status, server, at, stop_, joined>>
    BY <1>13 DEF StopLoops
  <2>3. CASE UNCHANGED stack
    BY <1>3, <1>8, <2>2, <2>3 DEF Running
  <2>4. CASE Goes(t, "IO", "stop")
    <3>1. f.pool = "IO" /\ server # "null"
      BY <1>6, <2>1 DEF HandlerAt, Pools
    <3>2. ASSUME NEW g, g.pool = "IO", g.pc = "stop" PROVE HandlerAt(g)'
      BY <1>6, <2>1, <2>2, <3>1, <3>2 DEF HandlerAt
    <3>. QED
      BY <1>9, <2>2, <2>4, <3>1, <3>2 DEF FramePcs, Pools
  <2>. QED
    BY <1>13, <2>3, <2>4 DEF StopLoops
<1>14. CASE DeleteServer(t)
  <2>1. f.pc = "delete" /\ Frame(t) = f
    BY <1>4, <1>5, <1>14 DEF DeleteServer, In, Frame
  <2>2. f.pool = "IO" /\ joined["WORKS"] /\ joined["IO"]
    BY <1>6, <2>1 DEF HandlerAt, Pools
  <2>3. server = "built"
    BY <1>6, <2>1, <2>2 DEF HandlerAt, TypeOK
  <2>4. server' = "works" /\ Goes(t, "IO", "destroy") /\ UNCHANGED <<status, at, stop_, joined>>
    BY <1>14, <2>3 DEF DeleteServer
  <2>5. ASSUME NEW g, g.pool = "IO", g.pc = "destroy" PROVE HandlerAt(g)'
    BY <1>6, <2>1, <2>2, <2>4, <2>5 DEF HandlerAt
  <2>. QED
    BY <1>9, <2>4, <2>5 DEF FramePcs, Pools
<1>17. CASE Destroy(t)
  <2>1. f.pc = "destroy" /\ Frame(t) = f
    BY <1>4, <1>5, <1>17 DEF Destroy, In, Frame
  <2>2. f.pool = "IO" /\ joined["WORKS"] /\ joined["IO"]
    BY <1>6, <2>1 DEF HandlerAt, Pools
  <2>3. UNCHANGED <<status, at, stop_, joined>>
    BY <1>17, <2>2 DEF Destroy
  <2>4. \/ server' \in {"maps", "io"} /\ UNCHANGED stack
        \/ server' = "deleted" /\ Goes(t, "IO", "exit")
    BY <1>17, <2>2 DEF Destroy
  <2>5. CASE server' \in {"maps", "io"} /\ UNCHANGED stack
    <3>1. HandlerAt(f)'
      BY <1>6, <2>1, <2>3, <2>5 DEF HandlerAt
    <3>2. Frame(main)' = f
      BY <1>5, <2>5 DEF Frame
    <3>. QED
      BY <1>1, <1>2, <1>6, <2>3, <2>5, <3>1, <3>2 DEF OneFrame, BuiltInv, CleanEnd
  <2>6. CASE server' = "deleted" /\ Goes(t, "IO", "exit")
    <3>1. ASSUME NEW g, g.pool = "IO", g.pc = "exit" PROVE HandlerAt(g)'
      BY <1>6, <2>1, <2>2, <2>3, <2>6, <3>1 DEF HandlerAt
    <3>. QED
      BY <1>9, <2>3, <2>6, <3>1 DEF FramePcs, Pools
  <2>. QED
    BY <2>4, <2>5, <2>6
<1>18. CASE JoinFails(t)
  <2>1. f.pc = "join" /\ Frame(t) = f
    BY <1>4, <1>5, <1>18 DEF JoinFails, In, Frame
  <2>2. ~joined[f.pool]
    BY <1>6, <2>1 DEF HandlerAt, Pools
  <2>3. ~JoinedByTwo(t)
    BY <1>2, <1>4, <1>6 DEF JoinedByTwo, OneFrame, Threads
  <2>. QED
    BY <1>4, <1>18, <2>1, <2>2, <2>3 DEF JoinFails, Members
<1>15. CASE Exit(t)
  BY <1>8, <1>15 DEF Exit, Ends
<1>. QED
  BY <1>10, <1>11, <1>12, <1>13, <1>14, <1>15, <1>16, <1>17, <1>18 DEF Handler

\* Nothing is destroyed before both pools are joined, and the handler that destroys it
\* touches nothing else.
LEMMA NoCrash ==
    ASSUME TypeOK, DeleteInv, CleanInv, signals <= 1, NEW t \in Threads
    PROVE  ~Crash(t)
<1>1. OneFrame /\ main \notin Pooled /\ main \in Threads
  BY ShutdownAssumption DEF CleanInv, Threads, Pooled
<1>2. CASE server \in {"null", "built"}
  BY <1>2 DEF Crash, Gone
<1>3. CASE server \notin {"null", "built"}
  <2>1. signals # 0 /\ HandlerAt(Frame(main)) /\ stack[main] # <<>>
    BY <1>1, <1>3 DEF OneFrame
  <2>2. Frame(main).pc \in {"destroy", "exit"}
    BY <1>3, <2>1 DEF HandlerAt, TypeOK
  <2>3. joined["WORKS"] /\ joined["IO"]
    BY <1>1, <2>1, <2>2, FrameTypes DEF HandlerAt, Pools
  <2>4. \A u \in Pooled : at[u] = "exited" /\ stack[u] = <<>>
    BY <1>1, <2>3 DEF DeleteInv, JoinedInv, PoolOf, OneFrame
  <2>5. Touches(t) = {}
    BY <2>1, <2>2, <2>4 DEF Touches, Threads
  <2>. QED
    BY <2>5 DEF Crash
<1>. QED
  BY <1>2, <1>3

\* A single signal, whenever it arrives after the server was built, ends the process
\* with exit(0) and in no other way: no thread is joined by itself, no joinable one is
\* destroyed, and nothing is touched after its destruction.
THEOREM OneSignalIsCleanHolds == Spec => []OneSignalIsClean
<1>1. Init => CleanInv
  <2>1. SUFFICES ASSUME Init PROVE OneFrame /\ BuiltInv /\ CleanEnd
    BY DEF CleanInv
  <2>2. main \in Threads /\ main \notin Workers \cup Loops /\ Pooled \subseteq Threads
    BY ShutdownAssumption DEF Threads, Pooled
  <2>. QED
    BY <2>1, <2>2 DEF Init, OneFrame, BuiltInv, CleanEnd, Pools
<1>2. TypeOK /\ DeleteInv /\ CleanInv /\ [Next]_vars => CleanInv'
  <2>1. SUFFICES ASSUME TypeOK, DeleteInv, CleanInv, [Next]_vars PROVE CleanInv'
    OBVIOUS
  <2>2. CASE UNCHANGED vars
    BY <2>1, <2>2 DEF vars, poolVars, loopVars, CleanInv, OneFrame, HandlerAt, Frame, BuiltInv,
                      CleanEnd
  <2>3. ASSUME NEW t \in Threads, Crash(t) PROVE CleanInv'
    <3>1. ~(signals <= 1)
      BY <2>1, <2>3, NoCrash
    <3>. QED
      BY <2>3, <3>1 DEF Crash, Ends, CleanInv
  <2>. QED
    BY <2>1, <2>2, <2>3, MovesClean, HandlerClean, DeliverClean DEF Next
<1>3. CleanInv => OneSignalIsClean
  BY DEF CleanInv, CleanEnd, OneSignalIsClean
<1>. QED
  BY <1>1, <1>2, <1>3, TypesHold, DeleteInvKept, PTL DEF Spec
=============================================================================
