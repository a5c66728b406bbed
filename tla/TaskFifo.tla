------------------------------ MODULE TaskFifo ------------------------------
(***************************************************************************)
(* What both task queues of the server promise their callers, whatever the *)
(* locks, notifications and wake-ups behind them: a task handed over once  *)
(* is taken from the queue at most once, and tasks are taken in the order  *)
(* in which they were handed over.  ThreadPool (ThreadPool::addtask) and   *)
(* EventLoop (EventLoop::queueinloop) are both shown to implement it.      *)
(***************************************************************************)
EXTENDS Sequences

CONSTANT Tasks      \* the std::function objects handed over

VARIABLES pending,  \* handed over, not yet taken, oldest first
          taken     \* taken, in the order in which they were

fifoVars == <<pending, taken>>

\* The tasks handed over so far, in the order in which they were.
Log == taken \o pending

FifoInit == pending = <<>> /\ taken = <<>>

Submit(x) ==
    /\ \A i \in DOMAIN Log : Log[i] # x
    /\ pending' = Append(pending, x)
    /\ UNCHANGED taken

TakeOldest ==
    /\ pending # <<>>
    /\ taken' = Append(taken, Head(pending))
    /\ pending' = Tail(pending)

FifoNext == TakeOldest \/ \E x \in Tasks : Submit(x)

FifoSpec == FifoInit /\ [][FifoNext]_fifoVars
=============================================================================
