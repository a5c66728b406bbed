----------------------------- MODULE EventLoop ------------------------------
(***************************************************************************)
(* EventLoop.cpp: the loop of an IO thread, the task queue other threads   *)
(* fill with queueinloop(), and the eventfd that interrupts epoll_wait().  *)
(* The handlers of the other channels (connections, timer, listener) are   *)
(* opened by the module Reactor; here they return, or go on until another  *)
(* thread lets them return: handletimer() iterates for ever over a map it  *)
(* has emptied, unless the main thread inserts a connection.               *)
(***************************************************************************)
EXTENDS Naturals, Sequences

CONSTANTS Tasks,        \* the functions handed to queueinloop(), each by one call
          EventfdMax    \* the largest count of an eventfd: 2^64 - 2 in the kernel

ASSUME LoopAssumption == EventfdMax \in Nat \ {0}

VARIABLES stop_,        \* std::atomic_bool
          taskqueue_,
          mutex_,       \* TRUE while the loop thread holds the queue's mutex
          wakeupfd_,    \* the count of the eventfd
          other,        \* another channel of this loop is ready
          channels,     \* what epoll_wait() returned and run() has not dispatched
          pc,           \* where the loop thread is
          caller,       \* the progress of the call queueinloop(x), for each task x
          stopper,      \* the progress of the call stop()
          started       \* history: the tasks executed, in order

loopVars == <<stop_, taskqueue_, mutex_, wakeupfd_, other, channels, pc, caller,
              stopper, started>>

Init ==
    /\ stop_ = FALSE /\ taskqueue_ = <<>> /\ mutex_ = FALSE /\ wakeupfd_ = 0
    /\ other = FALSE /\ channels = {} /\ pc = "while"
    /\ caller = [x \in Tasks |-> "idle"] /\ stopper = "idle"
    /\ started = <<>>

Goto(from, to) == pc = from /\ pc' = to
-----------------------------------------------------------------------------
\* The loop thread: EventLoop::run().

\* Mutant of WhileTest: stop_ is tested only when the last batch was empty.
WhileTestIdle ==
    /\ Goto("while", IF stop_ /\ wakeupfd_ = 0 /\ ~other THEN "stopped" ELSE "epoll")
    /\ UNCHANGED <<stop_, taskqueue_, mutex_, wakeupfd_, other, channels, caller,
                   stopper, started>>

\* while(stop_ == false)
WhileTest ==
    /\ Goto("while", IF stop_ THEN "stopped" ELSE "epoll")
    /\ UNCHANGED <<stop_, taskqueue_, mutex_, wakeupfd_, other, channels, caller,
                   stopper, started>>

\* Level-triggered readiness, for epoll_wait().
Ready == {ch \in {"wake", "other"} : IF ch = "wake" THEN wakeupfd_ > 0 ELSE other}

\* Epoll::loop() returns the ready channels; after 10 s without any it returns
\* none, and epolltimeoutcallback_ ends in a timeoutcb_ that is never set.
EpollWait ==
    /\ Goto("epoll", IF Ready = {} THEN "while" ELSE "dispatch")
    /\ channels' = Ready
    /\ UNCHANGED <<stop_, taskqueue_, mutex_, wakeupfd_, other, caller, stopper, started>>

\* for (auto &ch : channels) ch->handleevent();
Dispatch ==
    /\ \/ /\ channels = {} /\ Goto("dispatch", "while")
          /\ UNCHANGED <<other, channels>>
       \/ /\ "wake" \in channels /\ Goto("dispatch", "read")
          /\ channels' = channels \ {"wake"}
          /\ UNCHANGED other
       \/ /\ "other" \in channels
          /\ Goto("dispatch", "dispatch") \/ Goto("dispatch", "spinning")
          /\ channels' = channels \ {"other"}
          /\ other' = FALSE
    /\ UNCHANGED <<stop_, taskqueue_, mutex_, wakeupfd_, caller, stopper, started>>

\* A handler that did not return does so: the main thread's insertion into conns_
\* ends the iteration of handletimer(), if there is one.
HandlerReturns ==
    /\ Goto("spinning", "dispatch")
    /\ UNCHANGED <<stop_, taskqueue_, mutex_, wakeupfd_, other, channels, caller, stopper, started>>

\* Mutant of WakeRead: the eventfd is not read.
WakeNoRead ==
    /\ Goto("read", "lock")
    /\ UNCHANGED <<stop_, taskqueue_, mutex_, wakeupfd_, other, channels, caller, stopper, started>>

\* handlewakeup(): read() resets the count...
WakeRead ==
    /\ Goto("read", "lock")
    /\ wakeupfd_' = 0
    /\ UNCHANGED <<stop_, taskqueue_, mutex_, other, channels, caller, stopper, started>>

WakeLock ==
    /\ Goto("lock", "drain") /\ ~mutex_
    /\ mutex_' = TRUE
    /\ UNCHANGED <<stop_, taskqueue_, wakeupfd_, other, channels, caller, stopper, started>>

\* Mutant of Drain: one task per wake-up, if instead of while.
DrainOne ==
    /\ \/ taskqueue_ = <<>> /\ UNCHANGED <<taskqueue_, started>>
       \/ /\ taskqueue_ # <<>>
          /\ taskqueue_' = Tail(taskqueue_)
          /\ started' = Append(started, Head(taskqueue_))
    /\ Goto("drain", "dispatch")
    /\ mutex_' = FALSE
    /\ UNCHANGED <<stop_, wakeupfd_, other, channels, caller, stopper>>

\* Mutant of Drain: front() without pop().
DrainNoPop ==
    /\ \/ taskqueue_ = <<>> /\ UNCHANGED started
       \/ /\ taskqueue_ # <<>>
          /\ started' = Append(started, Head(taskqueue_))
    /\ Goto("drain", "dispatch")
    /\ mutex_' = FALSE
    /\ UNCHANGED <<stop_, taskqueue_, wakeupfd_, other, channels, caller, stopper>>

\* Mutant of Drain: the loop is left with the mutex held.
DrainKeepLock ==
    /\ \/ /\ taskqueue_ = <<>> /\ Goto("drain", "dispatch")
          /\ UNCHANGED <<taskqueue_, started>>
       \/ /\ taskqueue_ # <<>> /\ Goto("drain", "drain")
          /\ taskqueue_' = Tail(taskqueue_)
          /\ started' = Append(started, Head(taskqueue_))
    /\ UNCHANGED <<stop_, mutex_, wakeupfd_, other, channels, caller, stopper>>

\* ...and the queue is emptied with its mutex held throughout, one task a step.
Drain ==
    /\ \/ /\ taskqueue_ = <<>> /\ Goto("drain", "dispatch")
          /\ mutex_' = FALSE
          /\ UNCHANGED <<taskqueue_, started>>
       \/ /\ taskqueue_ # <<>> /\ Goto("drain", "drain")
          /\ taskqueue_' = Tail(taskqueue_)
          /\ started' = Append(started, Head(taskqueue_))
          /\ UNCHANGED mutex_
    /\ UNCHANGED <<stop_, wakeupfd_, other, channels, caller, stopper>>
-----------------------------------------------------------------------------
\* The other threads.

\* wakeup(): write() of 1; a full eventfd refuses it (EFD_NONBLOCK), unnoticed.
Wakeup == wakeupfd_' = IF wakeupfd_ < EventfdMax THEN wakeupfd_ + 1 ELSE wakeupfd_

\* queueinloop(x): push with the mutex held...
Push(x) ==
    /\ caller[x] = "idle" /\ ~mutex_
    /\ taskqueue_' = Append(taskqueue_, x)
    /\ caller' = [caller EXCEPT ![x] = "wakeup"]
    /\ UNCHANGED <<stop_, mutex_, wakeupfd_, other, channels, pc, stopper, started>>

\* Mutant of CallerWakeup: queueinloop() without wakeup().
CallerNoWakeup(x) ==
    /\ caller[x] = "wakeup"
    /\ caller' = [caller EXCEPT ![x] = "returned"]
    /\ UNCHANGED <<stop_, taskqueue_, mutex_, wakeupfd_, other, channels, pc, stopper, started>>

\* ...then wakeup() after it is released.
CallerWakeup(x) ==
    /\ caller[x] = "wakeup"
    /\ Wakeup
    /\ caller' = [caller EXCEPT ![x] = "returned"]
    /\ UNCHANGED <<stop_, taskqueue_, mutex_, other, channels, pc, stopper, started>>

\* stop(): stop_ = true...
SetStop ==
    /\ stopper = "idle"
    /\ stop_' = TRUE
    /\ stopper' = "wakeup"
    /\ UNCHANGED <<taskqueue_, mutex_, wakeupfd_, other, channels, pc, caller, started>>

\* Mutant of StopWakeup: stop() without wakeup().
StopNoWakeup ==
    /\ stopper = "wakeup"
    /\ stopper' = "returned"
    /\ UNCHANGED <<stop_, taskqueue_, mutex_, wakeupfd_, other, channels, pc, caller, started>>

\* ...then wakeup().
StopWakeup ==
    /\ stopper = "wakeup"
    /\ Wakeup
    /\ stopper' = "returned"
    /\ UNCHANGED <<stop_, taskqueue_, mutex_, other, channels, pc, caller, started>>

\* A peer or the timer makes another channel ready.
OtherReady ==
    /\ ~other /\ other' = TRUE
    /\ UNCHANGED <<stop_, taskqueue_, mutex_, wakeupfd_, channels, pc, caller, stopper, started>>
-----------------------------------------------------------------------------
Loop == WhileTest \/ EpollWait \/ Dispatch \/ WakeRead \/ WakeLock \/ Drain

Next == \/ Loop \/ HandlerReturns \/ OtherReady
        \/ \E x \in Tasks : Push(x) \/ CallerWakeup(x)
        \/ SetStop \/ StopWakeup

\* The loop thread and the threads inside queueinloop() and stop() are scheduled;
\* nobody is obliged to connect, so nothing makes HandlerReturns happen.
Fairness == /\ WF_loopVars(Loop) /\ WF_loopVars(StopWakeup)
            /\ \A x \in Tasks : WF_loopVars(CallerWakeup(x))

Spec == Init /\ [][Next]_loopVars
FairSpec == Spec /\ Fairness
-----------------------------------------------------------------------------
\* Type correctness; handlewakeup() holds the queue's mutex exactly while it
\* empties the queue.
TypeOK ==
    /\ stop_ \in BOOLEAN /\ other \in BOOLEAN
    /\ taskqueue_ \in Seq(Tasks) /\ started \in Seq(Tasks)
    /\ pc \in {"while", "epoll", "dispatch", "spinning", "read", "lock", "drain", "stopped"}
    /\ mutex_ \in BOOLEAN /\ (mutex_ <=> pc = "drain")
    /\ wakeupfd_ \in 0..EventfdMax
    /\ channels \subseteq {"wake", "other"}
    /\ caller \in [Tasks -> {"idle", "wakeup", "returned"}]
    /\ stopper \in {"idle", "wakeup", "returned"}

\* A queued task always has something on the way that makes the loop look at the
\* queue: the eventfd is readable, a queueinloop() has still to write it, or
\* handlewakeup() has read it and not yet finished with the queue.  In
\* particular the loop never sleeps in epoll_wait() on a task already queued.
NoLostTask ==
    taskqueue_ # <<>> => \/ wakeupfd_ > 0
                         \/ \E x \in Tasks : caller[x] = "wakeup"
                         \/ pc \in {"lock", "drain"}

\* stop() is not missed: once it has returned, the loop is never in (or on its
\* way into) epoll_wait() without the eventfd being readable, so it does not
\* have to wait for the 10 s timeout to see stop_.
StopNotMissed ==
    stopper = "returned" /\ pc = "epoll" => wakeupfd_ > 0

\* Tasks are executed in the order of queueinloop(), none twice.
Fifo == INSTANCE TaskFifo WITH pending <- taskqueue_, taken <- started
RunsInOrder == Fifo!FifoSpec

\* The condition of what follows: no handler is in its loop for ever.
HandlersReturn == []<>(pc # "spinning")

\* Every task handed to queueinloop() is executed if the other handlers return,
\* unless the loop is stopped.
TasksExecuted ==
    HandlersReturn =>
        \A x \in Tasks : caller[x] = "wakeup" ~>
                            (stop_ \/ \E i \in DOMAIN started : started[i] = x)

\* The eventfd does not keep a level-triggered loop spinning: once readable, it is
\* read, if the other handlers return.
WakeupConsumed == HandlersReturn => (wakeupfd_ > 0 ~> (wakeupfd_ = 0 \/ stop_))

\* stop() ends run() wherever the loop thread is between two handlers; inside one
\* it does so only if the handler returns.
StopEndsRun == HandlersReturn => (stop_ ~> pc = "stopped")
=============================================================================
