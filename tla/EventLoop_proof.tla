--------------------------- MODULE EventLoop_proof --------------------------
(***************************************************************************)
(* Proofs about EventLoop, for any set of tasks and any eventfd limit.     *)
(***************************************************************************)
EXTENDS EventLoop, TaskFifo_lemmas

\* EventLoop::run(), queueinloop(), wakeup(), handlewakeup() and stop() keep every
\* field in its type and hold the queue's mutex only while the queue is emptied.
THEOREM TypeCorrect == Spec => []TypeOK
<1>1. Init => TypeOK
  <2> SUFFICES ASSUME Init PROVE TypeOK
    OBVIOUS
  <2>1. /\ stop_ \in BOOLEAN /\ other \in BOOLEAN /\ mutex_ \in BOOLEAN
        /\ mutex_ <=> pc = "drain"
    BY Zenon DEF Init
  <2>2. caller \in [Tasks -> {"idle", "wakeup", "returned"}]
    BY DEF Init
  <2>3. taskqueue_ \in Seq(Tasks) /\ started \in Seq(Tasks) /\ wakeupfd_ \in 0..EventfdMax
    BY LoopAssumption DEF Init
  <2> QED BY <2>1, <2>2, <2>3 DEF Init, TypeOK
<1>2. TypeOK /\ [Next]_loopVars => TypeOK'
  <2> SUFFICES ASSUME TypeOK, [Next]_loopVars PROVE TypeOK'
    OBVIOUS
  <2> USE LoopAssumption DEF TypeOK
  <2>1. CASE WhileTest    BY <2>1 DEF WhileTest, Goto
  <2>2. CASE EpollWait    BY <2>2 DEF EpollWait, Goto, Ready
  <2>3. CASE Dispatch     BY <2>3 DEF Dispatch, Goto
  <2>4. CASE WakeRead     BY <2>4 DEF WakeRead, Goto
  <2>5. CASE WakeLock     BY <2>5 DEF WakeLock, Goto
  <2>6. CASE Drain
    <3>1. CASE taskqueue_ = <<>>   BY <2>6, <3>1 DEF Drain, Goto
    <3>2. CASE taskqueue_ # <<>>
      <4>1. Tail(taskqueue_) \in Seq(Tasks) /\ Append(started, Head(taskqueue_)) \in Seq(Tasks)
        BY <3>2, MoveHead
      <4> QED BY <2>6, <3>2, <4>1 DEF Drain, Goto
    <3> QED BY <3>1, <3>2
  <2>7. CASE OtherReady   BY <2>7 DEF OtherReady
  <2>13. CASE HandlerReturns   BY <2>13 DEF HandlerReturns, Goto
  <2>8. ASSUME NEW x \in Tasks, Push(x) PROVE TypeOK'
    BY <2>8 DEF Push
  <2>9. ASSUME NEW x \in Tasks, CallerWakeup(x) PROVE TypeOK'
    BY <2>9 DEF CallerWakeup, Wakeup
  <2>10. CASE SetStop     BY <2>10 DEF SetStop
  <2>11. CASE StopWakeup  BY <2>11 DEF StopWakeup, Wakeup
  <2>12. CASE UNCHANGED loopVars BY <2>12 DEF loopVars
  <2> QED BY <2>1, <2>2, <2>3, <2>4, <2>5, <2>6, <2>7, <2>8, <2>9, <2>10, <2>11, <2>12, <2>13
          DEF Next, Loop
<1> QED BY <1>1, <1>2, PTL DEF Spec

\* The order "push, then write the eventfd" of queueinloop() against the order
\* "read the eventfd, then empty the queue" of handlewakeup() loses no task.
THEOREM NoLostTaskHolds == Spec => []NoLostTask
<1>1. Init => NoLostTask
  BY DEF Init, NoLostTask
<1>2. TypeOK /\ NoLostTask /\ [Next]_loopVars => NoLostTask'
  <2> SUFFICES ASSUME TypeOK, NoLostTask, [Next]_loopVars PROVE NoLostTask'
    OBVIOUS
  <2> USE LoopAssumption DEF TypeOK, NoLostTask
  <2>1. CASE WhileTest    BY <2>1 DEF WhileTest, Goto
  <2>2. CASE EpollWait    BY <2>2 DEF EpollWait, Goto
  <2>3. CASE Dispatch     BY <2>3 DEF Dispatch, Goto
  <2>4. CASE WakeRead     BY <2>4 DEF WakeRead, Goto
  <2>5. CASE WakeLock     BY <2>5 DEF WakeLock, Goto
  <2>6. CASE Drain        BY <2>6 DEF Drain, Goto
  <2>7. CASE OtherReady   BY <2>7 DEF OtherReady
  <2>13. CASE HandlerReturns   BY <2>13 DEF HandlerReturns, Goto
  <2>8. ASSUME NEW x \in Tasks, Push(x) PROVE NoLostTask'
    BY <2>8 DEF Push
  <2>9. ASSUME NEW x \in Tasks, CallerWakeup(x) PROVE NoLostTask'
    BY <2>9 DEF CallerWakeup, Wakeup
  <2>10. CASE SetStop     BY <2>10 DEF SetStop
  <2>11. CASE StopWakeup  BY <2>11 DEF StopWakeup, Wakeup
  <2>12. CASE UNCHANGED loopVars BY <2>12 DEF loopVars
  <2> QED BY <2>1, <2>2, <2>3, <2>4, <2>5, <2>6, <2>7, <2>8, <2>9, <2>10, <2>11, <2>12, <2>13
          DEF Next, Loop
<1> QED BY <1>1, <1>2, TypeCorrect, PTL DEF Spec

\* stop_ precedes the wake-up in stop(), so a loop that enters epoll_wait() after
\* reading stop_ = false still has a readable eventfd when stop() has returned.
StopInv == (stopper # "idle" => stop_) /\ StopNotMissed

\* EventLoop::stop() never leaves the loop asleep in epoll_wait().
THEOREM StopNotMissedHolds == Spec => []StopNotMissed
<1>1. Init => StopInv
  BY DEF Init, StopInv, StopNotMissed
<1>2. TypeOK /\ StopInv /\ [Next]_loopVars => StopInv'
  <2> SUFFICES ASSUME TypeOK, StopInv, [Next]_loopVars PROVE StopInv'
    OBVIOUS
  <2> USE LoopAssumption DEF TypeOK, StopInv, StopNotMissed
  <2>1. CASE WhileTest    BY <2>1 DEF WhileTest, Goto
  <2>2. CASE EpollWait    BY <2>2 DEF EpollWait, Goto
  <2>3. CASE Dispatch     BY <2>3 DEF Dispatch, Goto
  <2>4. CASE WakeRead     BY <2>4 DEF WakeRead, Goto
  <2>5. CASE WakeLock     BY <2>5 DEF WakeLock, Goto
  <2>6. CASE Drain        BY <2>6 DEF Drain, Goto
  <2>7. CASE OtherReady   BY <2>7 DEF OtherReady
  <2>13. CASE HandlerReturns   BY <2>13 DEF HandlerReturns, Goto
  <2>8. ASSUME NEW x \in Tasks, Push(x) PROVE StopInv'
    BY <2>8 DEF Push
  <2>9. ASSUME NEW x \in Tasks, CallerWakeup(x) PROVE StopInv'
    BY <2>9 DEF CallerWakeup, Wakeup
  <2>10. CASE SetStop     BY <2>10 DEF SetStop
  <2>11. CASE StopWakeup  BY <2>11 DEF StopWakeup, Wakeup
  <2>12. CASE UNCHANGED loopVars BY <2>12 DEF loopVars
  <2> QED BY <2>1, <2>2, <2>3, <2>4, <2>5, <2>6, <2>7, <2>8, <2>9, <2>10, <2>11, <2>12, <2>13
          DEF Next, Loop
<1>3. StopInv => StopNotMissed
  BY DEF StopInv
<1> QED BY <1>1, <1>2, <1>3, TypeCorrect, PTL DEF Spec
-----------------------------------------------------------------------------
\* A task whose queueinloop() has not been called is not in the log.
FreshInv == \A x \in Tasks : caller[x] = "idle" => \A i \in DOMAIN Fifo!Log : Fifo!Log[i] # x

\* EventLoop implements TaskFifo: queueinloop() is Submit, the loop in
\* handlewakeup() is TakeOldest, and every other step leaves queue and history alone.
THEOREM LoopImplementsFifo == Spec => RunsInOrder
<1> USE DEF RunsInOrder, Fifo!FifoSpec
<1>1. Init => Fifo!FifoInit /\ FreshInv
  BY DEF Init, Fifo!FifoInit, FreshInv, Fifo!Log
<1>2. TypeOK /\ FreshInv /\ [Next]_loopVars => FreshInv' /\ [Fifo!FifoNext]_(Fifo!fifoVars)
  <2> SUFFICES ASSUME TypeOK, FreshInv, [Next]_loopVars
               PROVE  FreshInv' /\ [Fifo!FifoNext]_(Fifo!fifoVars)
    OBVIOUS
  <2>1. CASE Drain /\ taskqueue_ # <<>>
    <3>1. Fifo!Log' = Fifo!Log
      <4>1. Append(started, Head(taskqueue_)) \o Tail(taskqueue_) = started \o taskqueue_
        BY <2>1, MoveHead DEF TypeOK
      <4>2. started' = Append(started, Head(taskqueue_)) /\ taskqueue_' = Tail(taskqueue_)
        BY <2>1 DEF Drain
      <4> QED BY <4>1, <4>2 DEF Fifo!Log
    <3>2. Fifo!TakeOldest
      BY <2>1 DEF Drain, Fifo!TakeOldest
    <3>3. caller' = caller
      BY <2>1 DEF Drain
    <3> QED BY <3>1, <3>2, <3>3 DEF FreshInv, Fifo!FifoNext
  <2>2. ASSUME NEW x \in Tasks, Push(x)
        PROVE  FreshInv' /\ [Fifo!FifoNext]_(Fifo!fifoVars)
    <3>1. Fifo!Submit(x)
      BY <2>2 DEF Push, Fifo!Submit, FreshInv
    <3>2. ASSUME NEW y \in Tasks, caller'[y] = "idle", NEW i \in DOMAIN Fifo!Log'
          PROVE  Fifo!Log'[i] # y
      <4>1. Fifo!Log' = started \o Append(taskqueue_, x)
        BY <2>2 DEF Push, Fifo!Log
      <4>2. caller[y] = "idle" /\ y # x
        BY <2>2, <3>2 DEF Push, TypeOK
      <4>3. DOMAIN Fifo!Log = 1..(Len(started) + Len(taskqueue_))
        BY DEF Fifo!Log, TypeOK
      <4>4. started \in Seq(Tasks) /\ taskqueue_ \in Seq(Tasks)
        BY DEF TypeOK
      <4>5. i \in 1..(Len(started) + Len(taskqueue_) + 1)
        BY <4>1, <4>4, LogAppend, <3>2
      <4>6. CASE i = Len(started) + Len(taskqueue_) + 1
        BY <4>6, <4>1, <4>2, <4>4, LogAppend
      <4>7. CASE i \in 1..(Len(started) + Len(taskqueue_))
        <5>1. Fifo!Log'[i] = Fifo!Log[i]
          BY <4>7, <4>1, <4>4, LogAppend DEF Fifo!Log
        <5> QED BY <5>1, <4>7, <4>2, <4>3 DEF FreshInv
      <4> QED BY <4>4, <4>5, <4>6, <4>7
    <3> QED BY <3>1, <3>2 DEF FreshInv, Fifo!FifoNext
  <2>3. CASE /\ UNCHANGED <<taskqueue_, started>>
             /\ \A x \in Tasks : caller'[x] = "idle" => caller[x] = "idle"
    BY <2>3 DEF FreshInv, Fifo!Log, Fifo!fifoVars
  <2>4. ASSUME \/ WhileTest \/ EpollWait \/ Dispatch \/ WakeRead \/ WakeLock
               \/ (Drain /\ taskqueue_ = <<>>) \/ HandlerReturns \/ OtherReady \/ SetStop \/ StopWakeup
               \/ UNCHANGED loopVars \/ \E x \in Tasks : CallerWakeup(x)
        PROVE  /\ UNCHANGED <<taskqueue_, started>>
               /\ \A x \in Tasks : caller'[x] = "idle" => caller[x] = "idle"
    BY <2>4 DEF WhileTest, EpollWait, Dispatch, WakeRead, WakeLock, Drain, HandlerReturns, OtherReady,
                SetStop, StopWakeup, loopVars, CallerWakeup, TypeOK
  <2> QED BY <2>1, <2>2, <2>3, <2>4 DEF Next, Loop
<1> QED BY <1>1, <1>2, TypeCorrect, PTL DEF Spec
=============================================================================
