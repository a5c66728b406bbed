----------------------------- MODULE ThreadPool -----------------------------
(***************************************************************************)
(* ThreadPool.cpp: a task queue behind a mutex and a condition variable,   *)
(* the worker loop of the constructor's lambda, addtask() called by any    *)
(* number of threads, and Stop(), which sets stop_ and notifies WITHOUT    *)
(* taking the mutex.  A step is what one thread does between two points    *)
(* at which another thread can observe or disturb it.                      *)
(***************************************************************************)
EXTENDS Naturals, Sequences, FiniteSets

CONSTANTS Threads,      \* threads_
          Tasks,        \* the tasks handed to addtask(), each by one call
          NoThread,     \* mutex_ is free
          NoTask,       \* the thread's local variable task is empty
          MaxSpurious   \* bound on the spurious wake-ups of a behaviour

ASSUME PoolAssumption == /\ IsFiniteSet(Threads) /\ Threads # {} /\ NoThread \notin Threads
                         /\ NoTask \notin Tasks
                         /\ MaxSpurious \in Nat

VARIABLES stop_,        \* std::atomic_bool
          mutex_,       \* the thread that holds it, or NoThread
          taskqueue_,
          condition_,   \* the threads blocked in wait() and not yet notified
          pc,           \* where each thread of the pool is
          task,         \* the task each thread has dequeued
          caller,       \* the progress of the call addtask(x), for each task x
          stopper,      \* the progress of the call Stop()
          pushed,       \* history: the tasks pushed by addtask(), in order
          taken,        \* history: the tasks popped by the workers, in order
          started,      \* history: the tasks called, in order
          finished,     \* history: the tasks that have returned
          spurious      \* the number of spurious wake-ups so far

histVars == <<pushed, taken, started, finished>>
poolVars == <<stop_, mutex_, taskqueue_, condition_, pc, task, caller, stopper,
              histVars, spurious>>

Init ==
    /\ stop_ = FALSE /\ mutex_ = NoThread /\ taskqueue_ = <<>> /\ condition_ = {}
    /\ pc = [t \in Threads |-> "while"]
    /\ task = [t \in Threads |-> NoTask]
    /\ caller = [x \in Tasks |-> "idle"]
    /\ stopper = "idle"
    /\ pushed = <<>> /\ taken = <<>> /\ started = <<>> /\ finished = {}
    /\ spurious = 0

Goto(t, from, to) == pc[t] = from /\ pc' = [pc EXCEPT ![t] = to]
-----------------------------------------------------------------------------
\* The worker thread.

\* while (stop_==false)
WhileTest(t) ==
    /\ Goto(t, "while", IF stop_ THEN "exited" ELSE "lock")
    /\ UNCHANGED <<stop_, mutex_, taskqueue_, condition_, task, caller, stopper,
                   histVars, spurious>>

\* Mutant of Lock: wait(lock) without a predicate, the test after it dropped.
LockNoRetest(t) ==
    /\ mutex_ = NoThread
    /\ \/ Goto(t, "lock", "predicate")
       \/ Goto(t, "waiting", "take") /\ t \notin condition_
    /\ mutex_' = t
    /\ UNCHANGED <<stop_, taskqueue_, condition_, task, caller, stopper,
                   histVars, spurious>>

\* std::unique_lock lock(mutex_), and the re-acquisition inside wait() once the
\* thread has been notified.
Lock(t) ==
    /\ mutex_ = NoThread
    /\ \/ Goto(t, "lock", "predicate")
       \/ Goto(t, "waiting", "predicate") /\ t \notin condition_
    /\ mutex_' = t
    /\ UNCHANGED <<stop_, taskqueue_, condition_, task, caller, stopper,
                   histVars, spurious>>

\* Mutant of WaitPredicate: stop_ is left out of the predicate.
WaitPredicateNoStop == taskqueue_ # <<>>

WaitPredicate == stop_ \/ taskqueue_ # <<>>

\* wait(lock, pred) evaluates the predicate with the mutex held...
Predicate(t) ==
    /\ Goto(t, "predicate", IF WaitPredicate THEN "take" ELSE "sleep")
    /\ UNCHANGED <<stop_, mutex_, taskqueue_, condition_, task, caller, stopper,
                   histVars, spurious>>

\* ...and, if it was false, releases the mutex and blocks in one step.
Sleep(t) ==
    /\ Goto(t, "sleep", "waiting")
    /\ mutex_' = NoThread
    /\ condition_' = condition_ \cup {t}
    /\ UNCHANGED <<stop_, taskqueue_, task, caller, stopper, histVars, spurious>>

SpuriousWakeup(t) ==
    /\ t \in condition_ /\ spurious < MaxSpurious
    /\ condition_' = condition_ \ {t}
    /\ spurious' = spurious + 1
    /\ UNCHANGED <<stop_, mutex_, taskqueue_, pc, task, caller, stopper, histVars>>

\* Mutant of Take: front() without pop().
TakeNoPop(t) ==
    /\ mutex_' = NoThread
    /\ \/ /\ stop_ /\ taskqueue_ = <<>>
          /\ Goto(t, "take", "exited")
          /\ UNCHANGED <<task, taken>>
       \/ /\ ~(stop_ /\ taskqueue_ = <<>>)
          /\ Goto(t, "take", "taken")
          /\ task' = [task EXCEPT ![t] = Head(taskqueue_)]
          /\ taken' = Append(taken, Head(taskqueue_))
    /\ UNCHANGED <<stop_, taskqueue_, condition_, caller, stopper, pushed, started,
                   finished, spurious>>

\* Mutant of Take: taskqueue_ is a stack.
TakeNewest(t) ==
    /\ mutex_' = NoThread
    /\ \/ /\ stop_ /\ taskqueue_ = <<>>
          /\ Goto(t, "take", "exited")
          /\ UNCHANGED <<taskqueue_, task, taken>>
       \/ /\ ~(stop_ /\ taskqueue_ = <<>>)
          /\ Goto(t, "take", "taken")
          /\ task' = [task EXCEPT ![t] = taskqueue_[Len(taskqueue_)]]
          /\ taskqueue_' = SubSeq(taskqueue_, 1, Len(taskqueue_) - 1)
          /\ taken' = Append(taken, taskqueue_[Len(taskqueue_)])
    /\ UNCHANGED <<stop_, condition_, caller, stopper, pushed, started, finished, spurious>>

\* if (stop_ && empty) return;  or front() and pop(); both release the mutex.
Take(t) ==
    /\ mutex_' = NoThread
    /\ \/ /\ stop_ /\ taskqueue_ = <<>>
          /\ Goto(t, "take", "exited")
          /\ UNCHANGED <<taskqueue_, task, taken>>
       \/ /\ ~(stop_ /\ taskqueue_ = <<>>)
          /\ Goto(t, "take", "taken")
          /\ task' = [task EXCEPT ![t] = Head(taskqueue_)]
          /\ taskqueue_' = Tail(taskqueue_)
          /\ taken' = Append(taken, Head(taskqueue_))
    /\ UNCHANGED <<stop_, condition_, caller, stopper, pushed, started, finished, spurious>>

\* task() is called, some time after the mutex was released...
Start(t) ==
    /\ Goto(t, "taken", "run")
    /\ started' = Append(started, task[t])
    /\ UNCHANGED <<stop_, mutex_, taskqueue_, condition_, task, caller, stopper,
                   pushed, taken, finished, spurious>>

\* Mutant of Run: the loop's local task survives the iteration.
RunKeepTask(t) ==
    /\ Goto(t, "run", "while")
    /\ finished' = finished \cup {task[t]}
    /\ UNCHANGED <<stop_, mutex_, taskqueue_, condition_, task, caller, stopper,
                   pushed, taken, started, spurious>>

\* ...returns, and the loop is tested again.
Run(t) ==
    /\ Goto(t, "run", "while")
    /\ finished' = finished \cup {task[t]}
    /\ task' = [task EXCEPT ![t] = NoTask]
    /\ UNCHANGED <<stop_, mutex_, taskqueue_, condition_, caller, stopper,
                   pushed, taken, started, spurious>>
-----------------------------------------------------------------------------
\* The callers.

\* Mutant of Push: the lock_guard of addtask() dropped.
PushUnlocked(x) ==
    /\ caller[x] = "idle"
    /\ taskqueue_' = Append(taskqueue_, x) /\ pushed' = Append(pushed, x)
    /\ caller' = [caller EXCEPT ![x] = "notify"]
    /\ UNCHANGED <<stop_, mutex_, condition_, pc, task, stopper, taken, started,
                   finished, spurious>>

\* addtask(x): push with the mutex held...
Push(x) ==
    /\ caller[x] = "idle" /\ mutex_ = NoThread
    /\ taskqueue_' = Append(taskqueue_, x) /\ pushed' = Append(pushed, x)
    /\ caller' = [caller EXCEPT ![x] = "notify"]
    /\ UNCHANGED <<stop_, mutex_, condition_, pc, task, stopper, taken, started,
                   finished, spurious>>

\* Mutant of NotifyOne: the notification forgotten.
NotifyNobody(x) ==
    /\ caller[x] = "notify"
    /\ caller' = [caller EXCEPT ![x] = "returned"]
    /\ UNCHANGED <<stop_, mutex_, taskqueue_, condition_, pc, task, stopper, histVars, spurious>>

\* ...then notify_one() after it is released.
NotifyOne(x) ==
    /\ caller[x] = "notify"
    /\ \/ condition_ = {} /\ UNCHANGED condition_
       \/ \E t \in condition_ : condition_' = condition_ \ {t}
    /\ caller' = [caller EXCEPT ![x] = "returned"]
    /\ UNCHANGED <<stop_, mutex_, taskqueue_, pc, task, stopper, histVars, spurious>>

\* Stop(): if(stop_) return; stop_ = true;  One thread calls Stop(): the second
\* call, from the destructor, finds stop_ set and returns.
SetStop ==
    /\ stopper = "idle" /\ ~stop_
    /\ stop_' = TRUE
    /\ stopper' = "notify"
    /\ UNCHANGED <<mutex_, taskqueue_, condition_, pc, task, caller, histVars, spurious>>

NotifyAll ==
    /\ stopper = "notify"
    /\ condition_' = {}
    /\ stopper' = "join"
    /\ UNCHANGED <<stop_, mutex_, taskqueue_, pc, task, caller, histVars, spurious>>

\* join() of every thread in turn returns when the last has exited.
Join ==
    /\ stopper = "join" /\ \A t \in Threads : pc[t] = "exited"
    /\ stopper' = "returned"
    /\ UNCHANGED <<stop_, mutex_, taskqueue_, condition_, pc, task, caller, histVars, spurious>>
-----------------------------------------------------------------------------
Worker(t) == WhileTest(t) \/ Lock(t) \/ Predicate(t) \/ Sleep(t) \/ Take(t)
             \/ Start(t) \/ Run(t)

Stopping == SetStop \/ NotifyAll \/ Join

Next == \/ \E t \in Threads : Worker(t) \/ SpuriousWakeup(t)
        \/ \E x \in Tasks : Push(x) \/ NotifyOne(x)
        \/ Stopping

\* The scheduler runs every runnable thread, tasks return, and a caller that has
\* entered addtask() or Stop() goes on; nobody is obliged to call either.
Fairness == /\ \A t \in Threads : WF_poolVars(Worker(t))
            /\ \A x \in Tasks : WF_poolVars(NotifyOne(x))
            /\ WF_poolVars(NotifyAll) /\ WF_poolVars(Join)

Spec == Init /\ [][Next]_poolVars
FairSpec == Spec /\ Fairness
-----------------------------------------------------------------------------
Locations == {"while", "lock", "predicate", "sleep", "waiting", "take", "taken", "run",
              "exited"}

\* Type correctness: the values of the pool's fields and of the threads' locals;
\* the local task of the worker loop is set exactly from the pop to the return of
\* the task, and only a thread inside wait() is in the wait set.
TypeOK ==
    /\ stop_ \in BOOLEAN
    /\ mutex_ \in Threads \cup {NoThread}
    /\ taskqueue_ \in Seq(Tasks)
    /\ pc \in [Threads -> Locations]
    /\ condition_ \subseteq {t \in Threads : pc[t] = "waiting"}
    /\ task \in [Threads -> Tasks \cup {NoTask}]
    /\ \A t \in Threads : task[t] # NoTask <=> pc[t] \in {"taken", "run"}
    /\ caller \in [Tasks -> {"idle", "notify", "returned"}]
    /\ stopper \in {"idle", "notify", "join", "returned"}
    /\ pushed \in Seq(Tasks) /\ taken \in Seq(Tasks) /\ started \in Seq(Tasks)
    /\ finished \subseteq Tasks
    /\ spurious \in 0..MaxSpurious

\* front() and pop() in the worker loop are never reached with an empty queue,
\* although a wake-up may be spurious or its task taken by another thread.
NeverPopsEmpty == \A t \in Threads : pc[t] = "take" => WaitPredicate

\* The threads on their way to the predicate of wait().
Heading == {t \in Threads : \/ pc[t] \in {"lock", "predicate", "take"}
                            \/ pc[t] = "waiting" /\ t \notin condition_}
Notifying == {x \in Tasks : caller[x] = "notify"}

\* No wake-up of addtask() is lost: when every thread is blocked in wait() and a
\* task is queued, some addtask() has still to call notify_one().
NoLostWakeup == taskqueue_ # <<>> /\ condition_ = Threads => Notifying # {}

\* Stronger: while a thread sleeps, every queued task has a thread of its own
\* on the way or a notify_one() still to come, so that a long task in one
\* thread never delays a queued task another thread could run.
WorkConserving ==
    condition_ # {} => Len(taskqueue_) <= Cardinality(Heading) + Cardinality(Notifying)

\* Tasks are taken from the queue in the order of addtask(), none twice.
Fifo == INSTANCE TaskFifo WITH pending <- taskqueue_
TakenInOrder == Fifo!FifoSpec

\* The tasks pushed before started[i] that were not called before it.
Overtaken(i) ==
    {j \in DOMAIN pushed : /\ \E k \in DOMAIN pushed : j < k /\ pushed[k] = started[i]
                           /\ \A m \in 1..i : started[m] # pushed[j]}

\* Taken in order is not called in order: between pop() and task() the mutex is
\* free.  But a task is never called before more earlier ones than the pool has
\* other threads.
StartsNearOrder ==
    \A i \in DOMAIN started : Cardinality(Overtaken(i)) < Cardinality(Threads)

\* Every task handed to addtask() is run, unless the pool is stopped.
TasksExecuted ==
    \A x \in Tasks : caller[x] = "notify" ~> (x \in finished \/ stop_)

\* Stop() returns once no thread is blocked in wait(), or about to block on a
\* predicate it evaluated before stop_ was set.
JoinCompletes ==
    (stopper = "join" /\ condition_ = {} /\ \A t \in Threads : pc[t] # "sleep")
        ~> stopper = "returned"

\* ThreadPool.h, on stop_: once it is set, all the threads exit, so that
\* Stop(), which joins them, returns.
StopReturns == stopper = "notify" ~> stopper = "returned"
=============================================================================
