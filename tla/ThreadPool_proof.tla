-------------------------- MODULE ThreadPool_proof --------------------------
(***************************************************************************)
(* Proofs about ThreadPool, for any number of threads (at least one), any  *)
(* set of tasks and any number of spurious wake-ups.                       *)
(***************************************************************************)
EXTENDS ThreadPool, TaskFifo_lemmas, FiniteSetTheorems

\* Between locking mutex_ and releasing it a worker is its owner.
LockInv == \A t \in Threads : pc[t] \in {"predicate", "sleep", "take"} => mutex_ = t

\* A worker that found the predicate false still sees an empty queue when it
\* blocks, because pushing needs the mutex it holds.
SleepInv == \A t \in Threads : pc[t] = "sleep" => taskqueue_ = <<>>

\* None of TypeOK, NeverPopsEmpty and NoLostWakeup is inductive alone: Take keeps
\* the types only if the queue is not empty, and what the predicate saw stays true
\* until Take or Sleep only because the mutex is held in between.
PoolInv == TypeOK /\ LockInv /\ SleepInv /\ NeverPopsEmpty /\ NoLostWakeup

\* The worker loop of the constructor, addtask() and Stop() preserve PoolInv.
THEOREM PoolInvHolds == Spec => []PoolInv
<1> USE PoolAssumption
<1>1. Init => PoolInv
  <2> SUFFICES ASSUME Init PROVE PoolInv
    OBVIOUS
  <2>1. stop_ \in BOOLEAN
    BY Zenon DEF Init
  <2>2. /\ pc \in [Threads -> Locations] /\ task \in [Threads -> Tasks \cup {NoTask}]
        /\ caller \in [Tasks -> {"idle", "notify", "returned"}]
        /\ \A t \in Threads : pc[t] = "while" /\ task[t] = NoTask
    BY DEF Init, Locations
  <2>3. /\ taskqueue_ = <<>> /\ <<>> \in Seq(Tasks)
        /\ pushed \in Seq(Tasks) /\ taken \in Seq(Tasks) /\ started \in Seq(Tasks)
        /\ spurious \in 0..MaxSpurious
    BY DEF Init
  <2> QED BY <2>1, <2>2, <2>3
          DEF Init, PoolInv, TypeOK, LockInv, SleepInv, NeverPopsEmpty, NoLostWakeup
<1>2. PoolInv /\ [Next]_poolVars => PoolInv'
  <2> SUFFICES ASSUME PoolInv, [Next]_poolVars PROVE PoolInv'
    OBVIOUS
  <2> USE DEF PoolInv, TypeOK, LockInv, SleepInv, NeverPopsEmpty, NoLostWakeup,
              WaitPredicate, Locations, Notifying, histVars
  <2>1. ASSUME NEW t \in Threads, WhileTest(t) PROVE PoolInv'
    BY <2>1 DEF WhileTest, Goto
  <2>2. ASSUME NEW t \in Threads, Lock(t) PROVE PoolInv'
    BY <2>2 DEF Lock, Goto
  <2>3. ASSUME NEW t \in Threads, Predicate(t) PROVE PoolInv'
    BY <2>3 DEF Predicate, Goto
  <2>4. ASSUME NEW t \in Threads, Sleep(t) PROVE PoolInv'
    BY <2>4 DEF Sleep, Goto
  <2>5. ASSUME NEW t \in Threads, Take(t) PROVE PoolInv'
    <3>1. CASE stop_ /\ taskqueue_ = <<>>
      BY <2>5, <3>1 DEF Take, Goto
    <3>2. CASE ~(stop_ /\ taskqueue_ = <<>>)
      <4>1. pc[t] = "take" /\ taskqueue_ # <<>> /\ mutex_ = t
        BY <2>5, <3>2 DEF Take, Goto
      <4>2. /\ Head(taskqueue_) \in Tasks /\ Tail(taskqueue_) \in Seq(Tasks)
            /\ Append(taken, Head(taskqueue_)) \in Seq(Tasks)
        BY <4>1, MoveHead
      <4>3. /\ pc' = [pc EXCEPT ![t] = "taken"] /\ mutex_' = NoThread
            /\ task' = [task EXCEPT ![t] = Head(taskqueue_)]
            /\ taskqueue_' = Tail(taskqueue_)
            /\ taken' = Append(taken, Head(taskqueue_))
            /\ UNCHANGED <<stop_, condition_, caller, stopper, pushed, started, finished, spurious>>
        BY <2>5, <3>2 DEF Take, Goto
      <4>4. TypeOK'
        BY <4>1, <4>2, <4>3
      <4>5. LockInv' /\ SleepInv' /\ NeverPopsEmpty'
        BY <4>1, <4>3
      <4>6. NoLostWakeup'
        BY <4>1, <4>3
      <4> QED BY <4>4, <4>5, <4>6
    <3> QED BY <3>1, <3>2
  <2>14. ASSUME NEW t \in Threads, Start(t) PROVE PoolInv'
    BY <2>14 DEF Start, Goto
  <2>6. ASSUME NEW t \in Threads, Run(t) PROVE PoolInv'
    BY <2>6 DEF Run, Goto
  <2>7. ASSUME NEW t \in Threads, SpuriousWakeup(t) PROVE PoolInv'
    BY <2>7 DEF SpuriousWakeup
  <2>8. ASSUME NEW x \in Tasks, Push(x) PROVE PoolInv'
    BY <2>8 DEF Push
  <2>9. ASSUME NEW x \in Tasks, NotifyOne(x) PROVE PoolInv'
    BY <2>9 DEF NotifyOne
  <2>10. CASE SetStop      BY <2>10 DEF SetStop
  <2>11. CASE NotifyAll    BY <2>11 DEF NotifyAll
  <2>12. CASE Join         BY <2>12 DEF Join
  <2>13. CASE UNCHANGED poolVars  BY <2>13 DEF poolVars
  <2> QED BY <2>1, <2>2, <2>3, <2>4, <2>5, <2>6, <2>7, <2>8, <2>9, <2>10, <2>11, <2>12, <2>13, <2>14
          DEF Next, Worker, Stopping
<1> QED BY <1>1, <1>2, PTL DEF Spec

\* Every field of the pool and every local of its threads keeps its type.
THEOREM PoolTypeCorrect == Spec => []TypeOK
<1>1. PoolInv => TypeOK
  BY DEF PoolInv
<1> QED BY <1>1, PoolInvHolds, PTL

\* front() and pop() of the worker loop never meet an empty queue.
THEOREM NeverPopsEmptyHolds == Spec => []NeverPopsEmpty
<1>1. PoolInv => NeverPopsEmpty
  BY DEF PoolInv
<1> QED BY <1>1, PoolInvHolds, PTL

\* No notify_one() of addtask() is lost to a worker on its way into wait().
THEOREM NoLostWakeupHolds == Spec => []NoLostWakeup
<1>1. PoolInv => NoLostWakeup
  BY DEF PoolInv
<1> QED BY <1>1, PoolInvHolds, PTL
-----------------------------------------------------------------------------
\* Work conservation is a matter of counting threads and calls.

\* The calls of addtask() between push and notify_one() are finitely many, whatever
\* the number of tasks.
CountInv == IsFiniteSet(Notifying) /\ WorkConserving

\* What the counts are made of.
LEMMA Counts ==
    ASSUME TypeOK, IsFiniteSet(Notifying)
    PROVE  /\ Cardinality(Heading) \in Nat /\ Cardinality(Notifying) \in Nat
           /\ Len(taskqueue_) \in Nat /\ IsFiniteSet(Heading)
<1>1. IsFiniteSet(Heading)
  BY FS_Subset, PoolAssumption DEF Heading
<1>. QED
  BY <1>1, FS_CardinalityType DEF TypeOK

\* A thread that comes to the predicate, and one that leaves it.
LEMMA HeadingCounts ==
    ASSUME NEW S, NEW T, IsFiniteSet(S), NEW t
    PROVE  /\ T = S \cup {t} /\ t \notin S => Cardinality(T) = Cardinality(S) + 1
           /\ T = S \ {t} /\ t \in S => Cardinality(T) = Cardinality(S) - 1
           /\ T = S \/ T = S \cup {t} => IsFiniteSet(T) /\ Cardinality(S) <= Cardinality(T)
<1>1. Cardinality(S) \in Nat
  BY FS_CardinalityType
<1>2. IsFiniteSet(S \cup {t})
      /\ Cardinality(S \cup {t}) = IF t \in S THEN Cardinality(S) ELSE Cardinality(S) + 1
  BY FS_AddElement
<1>3. t \in S => Cardinality(S \ {t}) = Cardinality(S) - 1
  BY FS_RemoveElement
<1>4. T = S \cup {t} /\ t \notin S => Cardinality(T) = Cardinality(S) + 1
  BY <1>2
<1>5. T = S \cup {t} => IsFiniteSet(T) /\ Cardinality(S) <= Cardinality(T)
  <2>1. Cardinality(S) <= Cardinality(S \cup {t})
    BY <1>1, <1>2
  <2>. QED
    BY <1>2, <2>1
<1>6. T = S => IsFiniteSet(T) /\ Cardinality(S) <= Cardinality(T)
  BY <1>1
<1>7. T = S \ {t} /\ t \in S => Cardinality(T) = Cardinality(S) - 1
  BY <1>3
<1>. QED
  BY <1>4, <1>5, <1>6, <1>7

\* Each step keeps the counts: a queued task brings its own notify_one() with it,
\* notify_one() sends a thread to the predicate, and a thread leaves it with a task
\* or when there is none.
LEMMA CountKept ==
    ASSUME PoolInv, CountInv, [Next]_poolVars
    PROVE  CountInv'
<1>1. TypeOK /\ LockInv /\ SleepInv /\ NeverPopsEmpty /\ IsFiniteSet(Notifying)
      /\ (condition_ # {} => Len(taskqueue_) <= Cardinality(Heading) + Cardinality(Notifying))
  BY DEF PoolInv, CountInv, WorkConserving
<1>2. PICK n \in Nat, h \in Nat, k \in Nat :
        n = Len(taskqueue_) /\ h = Cardinality(Heading) /\ k = Cardinality(Notifying)
  BY <1>1, Counts
<1>3. /\ pc \in [Threads -> Locations] /\ caller \in [Tasks -> {"idle", "notify", "returned"}]
      /\ condition_ \subseteq {t \in Threads : pc[t] = "waiting"} /\ IsFiniteSet(Heading)
      /\ taskqueue_ \in Seq(Tasks)
  BY <1>1, Counts DEF TypeOK
<1>4. condition_ # {} => n <= h + k
  BY <1>1, <1>2
<1>5. ASSUME Notifying' = Notifying, taskqueue_' = taskqueue_, condition_' # {} => condition_ # {},
             NEW t, Heading' = Heading \/ Heading' = Heading \cup {t}
      PROVE  CountInv'
  <2>1. h <= Cardinality(Heading')
    BY <1>2, <1>3, <1>5, HeadingCounts
  <2>2. Cardinality(Heading') \in Nat
    BY <1>3, <1>5, HeadingCounts, FS_CardinalityType
  <2>. QED
    BY <1>1, <1>2, <1>4, <1>5, <2>1, <2>2 DEF CountInv, WorkConserving
<1>6. CASE UNCHANGED <<caller, taskqueue_, condition_, pc>>
  <2>1. Notifying' = Notifying /\ Heading' = Heading
    BY <1>6 DEF Notifying, Heading
  <2>. QED
    BY <1>5, <1>6, <2>1
<1>7. ASSUME NEW t \in Threads, WhileTest(t) PROVE CountInv'
  <2>1. /\ pc[t] = "while" /\ pc' = [pc EXCEPT ![t] = IF stop_ THEN "exited" ELSE "lock"]
        /\ UNCHANGED <<caller, taskqueue_, condition_>>
    BY <1>7 DEF WhileTest, Goto
  <2>2. Heading' = Heading \/ Heading' = Heading \cup {t}
    <3>1. CASE stop_
      BY <1>3, <2>1, <3>1 DEF Heading
    <3>2. CASE ~stop_
      BY <1>3, <2>1, <3>2 DEF Heading
    <3>. QED
      BY <3>1, <3>2
  <2>. QED
    BY <1>5, <2>1, <2>2 DEF Notifying
<1>8. ASSUME NEW t \in Threads, Lock(t) PROVE CountInv'
  <2>1. /\ pc[t] = "lock" \/ (pc[t] = "waiting" /\ t \notin condition_)
        /\ pc' = [pc EXCEPT ![t] = "predicate"]
        /\ UNCHANGED <<caller, taskqueue_, condition_>>
    BY <1>8 DEF Lock, Goto
  <2>2. Heading' = Heading
    BY <1>3, <2>1 DEF Heading
  <2>. QED
    BY <1>5, <2>1, <2>2 DEF Notifying
<1>9. ASSUME taskqueue_' = <<>>, Notifying' = Notifying PROVE CountInv'
  <2>1. Len(taskqueue_') = 0
    BY <1>9
  <2>2. Heading' \subseteq Threads
    BY DEF Heading
  <2>3. Cardinality(Heading') \in Nat
    BY <2>2, FS_CardinalityType, FS_Subset, PoolAssumption
  <2>. QED
    BY <1>1, <1>2, <1>9, <2>1, <2>3 DEF CountInv, WorkConserving
<1>10. ASSUME NEW t \in Threads, Predicate(t) PROVE CountInv'
  <2>1. /\ pc[t] = "predicate"
        /\ pc' = [pc EXCEPT ![t] = IF WaitPredicate THEN "take" ELSE "sleep"]
        /\ UNCHANGED <<caller, taskqueue_, condition_>>
    BY <1>10 DEF Predicate, Goto
  <2>2. CASE WaitPredicate
    <3>1. Heading' = Heading
      BY <1>3, <2>1, <2>2 DEF Heading
    <3>. QED
      BY <1>5, <2>1, <3>1 DEF Notifying
  <2>3. CASE ~WaitPredicate
    BY <1>9, <2>1, <2>3 DEF WaitPredicate, Notifying
  <2>. QED
    BY <2>2, <2>3
<1>11. ASSUME NEW t \in Threads, Sleep(t) PROVE CountInv'
  <2>1. pc[t] = "sleep" /\ UNCHANGED <<caller, taskqueue_>>
    BY <1>11 DEF Sleep, Goto
  <2>. QED
    BY <1>1, <1>9, <2>1 DEF SleepInv, Notifying
<1>12. ASSUME NEW t \in Threads, Take(t) PROVE CountInv'
  <2>1. pc[t] = "take" /\ UNCHANGED <<caller, condition_>>
    BY <1>12 DEF Take, Goto
  <2>2. CASE taskqueue_' = <<>>
    BY <1>9, <2>1, <2>2 DEF Notifying
  <2>3. CASE taskqueue_' # <<>>
    <3>1. taskqueue_ # <<>> /\ taskqueue_' = Tail(taskqueue_) /\ pc' = [pc EXCEPT ![t] = "taken"]
      BY <1>1, <1>12, <2>1, <2>3 DEF Take, Goto, NeverPopsEmpty, WaitPredicate
    <3>2. Heading' = Heading \ {t} /\ t \in Heading
      BY <1>3, <2>1, <3>1 DEF Heading
    <3>3. Cardinality(Heading') = h - 1
      BY <1>2, <1>3, <3>2, HeadingCounts
    <3>4. Len(taskqueue_') = n - 1
      BY <1>2, <1>3, <3>1
    <3>5. Notifying' = Notifying
      BY <2>1 DEF Notifying
    <3>. QED
      BY <1>1, <1>2, <1>4, <2>1, <3>3, <3>4, <3>5 DEF CountInv, WorkConserving
  <2>. QED
    BY <2>2, <2>3
<1>13. ASSUME NEW t \in Threads, Run(t) PROVE CountInv'
  <2>1. pc[t] = "run" /\ pc' = [pc EXCEPT ![t] = "while"]
        /\ UNCHANGED <<caller, taskqueue_, condition_>>
    BY <1>13 DEF Run, Goto
  <2>2. Heading' = Heading
    BY <1>3, <2>1 DEF Heading
  <2>. QED
    BY <1>5, <2>1, <2>2 DEF Notifying
<1>20. ASSUME NEW t \in Threads, Start(t) PROVE CountInv'
  <2>1. pc[t] = "taken" /\ pc' = [pc EXCEPT ![t] = "run"]
        /\ UNCHANGED <<caller, taskqueue_, condition_>>
    BY <1>20 DEF Start, Goto
  <2>2. Heading' = Heading
    BY <1>3, <2>1 DEF Heading
  <2>. QED
    BY <1>5, <2>1, <2>2 DEF Notifying
<1>14. ASSUME NEW t \in condition_, condition_' = condition_ \ {t}, pc' = pc
       PROVE  Heading' = Heading \cup {t} /\ t \notin Heading
  BY <1>3, <1>14 DEF Heading
<1>15. ASSUME NEW t \in Threads, SpuriousWakeup(t) PROVE CountInv'
  <2>1. /\ t \in condition_ /\ condition_' = condition_ \ {t} /\ pc' = pc
        /\ UNCHANGED <<caller, taskqueue_>>
    BY <1>15 DEF SpuriousWakeup
  <2>. QED
    BY <1>5, <1>14, <2>1 DEF Notifying
<1>16. ASSUME NEW x \in Tasks, Push(x) PROVE CountInv'
  <2>1. /\ caller[x] = "idle" /\ caller' = [caller EXCEPT ![x] = "notify"]
        /\ taskqueue_' = Append(taskqueue_, x) /\ UNCHANGED <<condition_, pc>>
    BY <1>16 DEF Push
  <2>2. Notifying' = Notifying \cup {x} /\ x \notin Notifying
    BY <1>3, <2>1 DEF Notifying
  <2>3. IsFiniteSet(Notifying') /\ Cardinality(Notifying') = k + 1
    BY <1>1, <1>2, <2>2, HeadingCounts
  <2>4. Len(taskqueue_') = n + 1
    BY <1>2, <1>3, <2>1
  <2>5. Heading' = Heading
    BY <2>1 DEF Heading
  <2>. QED
    BY <1>2, <1>4, <2>1, <2>3, <2>4, <2>5 DEF CountInv, WorkConserving
<1>17. ASSUME NEW x \in Tasks, NotifyOne(x) PROVE CountInv'
  <2>1. /\ caller[x] = "notify" /\ caller' = [caller EXCEPT ![x] = "returned"]
        /\ UNCHANGED <<taskqueue_, pc>>
    BY <1>17 DEF NotifyOne
  <2>2. Notifying' = Notifying \ {x} /\ x \in Notifying
    BY <1>3, <2>1 DEF Notifying
  <2>3. IsFiniteSet(Notifying') /\ Cardinality(Notifying') = k - 1
    <3>1. IsFiniteSet(Notifying')
      BY <1>1, <2>2, FS_Subset
    <3>. QED
      BY <1>1, <1>2, <2>2, <3>1, HeadingCounts
  <2>4. CASE condition_ = {}
    <3>1. condition_' = {}
      BY <1>17, <2>4 DEF NotifyOne
    <3>. QED
      BY <2>3, <3>1 DEF CountInv, WorkConserving
  <2>5. CASE condition_ # {}
    <3>1. PICK t \in condition_ : condition_' = condition_ \ {t}
      BY <1>17, <2>5 DEF NotifyOne
    <3>2. Cardinality(Heading') = h + 1
      BY <1>2, <1>3, <1>14, <2>1, <3>1, HeadingCounts
    <3>. QED
      BY <1>2, <1>4, <2>1, <2>3, <2>5, <3>2 DEF CountInv, WorkConserving
  <2>. QED
    BY <2>4, <2>5
<1>18. CASE NotifyAll
  <2>1. condition_' = {} /\ caller' = caller
    BY <1>18 DEF NotifyAll
  <2>. QED
    BY <1>1, <2>1 DEF CountInv, WorkConserving, Notifying
<1>19. CASE SetStop \/ Join \/ UNCHANGED poolVars
  BY <1>6, <1>19 DEF SetStop, Join, poolVars
<1>. QED
  BY <1>7, <1>8, <1>10, <1>11, <1>12, <1>13, <1>15, <1>16, <1>17, <1>18, <1>19, <1>20
     DEF Next, Worker, Stopping

\* While a thread is blocked in wait(), every queued task has a thread of its own on
\* the way to it or a notify_one() still to come.
THEOREM WorkConservingHolds == Spec => []WorkConserving
<1>1. Init => CountInv
  <2>1. SUFFICES ASSUME Init PROVE CountInv
    OBVIOUS
  <2>2. Notifying = {} /\ condition_ = {}
    BY <2>1 DEF Init, Notifying
  <2>. QED
    BY <2>2, FS_EmptySet DEF CountInv, WorkConserving
<1>2. PoolInv /\ CountInv /\ [Next]_poolVars => CountInv'
  BY CountKept
<1>3. CountInv => WorkConserving
  BY DEF CountInv
<1>. QED
  BY <1>1, <1>2, <1>3, PoolInvHolds, PTL DEF Spec
-----------------------------------------------------------------------------
\* A task whose addtask() has not pushed it is not in the log.
FreshInv == \A x \in Tasks : caller[x] = "idle" => \A i \in DOMAIN Fifo!Log : Fifo!Log[i] # x

\* ThreadPool implements TaskFifo: addtask() is Submit, the dequeue of a worker
\* is TakeOldest, and every other step leaves queue and history alone.
THEOREM PoolImplementsFifo == Spec => TakenInOrder
<1> USE DEF TakenInOrder, Fifo!FifoSpec
<1>1. Init => Fifo!FifoInit /\ FreshInv
  BY DEF Init, Fifo!FifoInit, FreshInv, Fifo!Log
<1>2. PoolInv /\ FreshInv /\ [Next]_poolVars => FreshInv' /\ [Fifo!FifoNext]_(Fifo!fifoVars)
  <2> SUFFICES ASSUME PoolInv, FreshInv, [Next]_poolVars
               PROVE  FreshInv' /\ [Fifo!FifoNext]_(Fifo!fifoVars)
    OBVIOUS
  <2>0. taken \in Seq(Tasks) /\ taskqueue_ \in Seq(Tasks) /\ caller \in [Tasks -> {"idle", "notify", "returned"}]
    BY DEF PoolInv, TypeOK
  <2>1. ASSUME NEW t \in Threads, Take(t), ~(stop_ /\ taskqueue_ = <<>>)
        PROVE  FreshInv' /\ [Fifo!FifoNext]_(Fifo!fifoVars)
    <3>1. taskqueue_ # <<>>
      BY <2>1 DEF Take, Goto, PoolInv, NeverPopsEmpty, WaitPredicate
    <3>2. /\ taken' = Append(taken, Head(taskqueue_)) /\ taskqueue_' = Tail(taskqueue_)
          /\ caller' = caller
      BY <2>1 DEF Take
    <3>3. Append(taken, Head(taskqueue_)) \o Tail(taskqueue_) = taken \o taskqueue_
      BY <2>0, <3>1, MoveHead
    <3>4. Fifo!Log' = Fifo!Log
      BY <3>2, <3>3 DEF Fifo!Log
    <3> QED BY <3>1, <3>2, <3>4 DEF FreshInv, Fifo!FifoNext, Fifo!TakeOldest
  <2>2. ASSUME NEW x \in Tasks, Push(x)
        PROVE  FreshInv' /\ [Fifo!FifoNext]_(Fifo!fifoVars)
    <3>1. Fifo!Submit(x)
      BY <2>2 DEF Push, Fifo!Submit, FreshInv
    <3>2. ASSUME NEW y \in Tasks, caller'[y] = "idle", NEW i \in DOMAIN Fifo!Log'
          PROVE  Fifo!Log'[i] # y
      <4>1. Fifo!Log' = taken \o Append(taskqueue_, x)
        BY <2>2 DEF Push, Fifo!Log
      <4>2. caller[y] = "idle" /\ y # x
        BY <2>0, <2>2, <3>2 DEF Push
      <4>3. DOMAIN Fifo!Log = 1..(Len(taken) + Len(taskqueue_))
        BY <2>0 DEF Fifo!Log
      <4>4. i \in 1..(Len(taken) + Len(taskqueue_) + 1)
        BY <4>1, <2>0, LogAppend, <3>2
      <4>5. CASE i = Len(taken) + Len(taskqueue_) + 1
        BY <4>5, <4>1, <4>2, <2>0, LogAppend
      <4>6. CASE i \in 1..(Len(taken) + Len(taskqueue_))
        <5>1. Fifo!Log'[i] = Fifo!Log[i]
          BY <4>6, <4>1, <2>0, LogAppend DEF Fifo!Log
        <5> QED BY <5>1, <4>6, <4>2, <4>3 DEF FreshInv
      <4> QED BY <2>0, <4>4, <4>5, <4>6
    <3> QED BY <3>1, <3>2 DEF FreshInv, Fifo!FifoNext
  <2>3. CASE UNCHANGED <<taskqueue_, taken>> /\ \A x \in Tasks : caller'[x] = "idle" => caller[x] = "idle"
    BY <2>3 DEF FreshInv, Fifo!Log, Fifo!fifoVars
  <2>4. ASSUME \/ \E t \in Threads : \/ WhileTest(t) \/ Lock(t) \/ Predicate(t) \/ Sleep(t)
                                     \/ Take(t) /\ stop_ /\ taskqueue_ = <<>>
                                     \/ Start(t) \/ Run(t) \/ SpuriousWakeup(t)
               \/ \E x \in Tasks : NotifyOne(x)
               \/ Stopping \/ UNCHANGED poolVars
        PROVE  UNCHANGED <<taskqueue_, taken>> /\ \A x \in Tasks : caller'[x] = "idle" => caller[x] = "idle"
    BY <2>0, <2>4 DEF WhileTest, Lock, Predicate, Sleep, Take, Start, Run, SpuriousWakeup, NotifyOne,
                Stopping, SetStop, NotifyAll, Join, poolVars, histVars
  <2> QED BY <2>1, <2>2, <2>3, <2>4 DEF Next, Worker
<1> QED BY <1>1, <1>2, PoolInvHolds, PTL DEF Spec
-----------------------------------------------------------------------------
\* What the histories say of each other: taken and queue make up what was pushed, no
\* task is pushed twice, and a task that was taken was called or is in the hands of a
\* thread between pop() and the call.
HistInv ==
    /\ pushed = taken \o taskqueue_
    /\ \A i, j \in DOMAIN pushed : pushed[i] = pushed[j] => i = j
    /\ \A x \in Tasks : caller[x] = "idle" => \A i \in DOMAIN pushed : pushed[i] # x
    /\ \A t \in Threads : pc[t] = "taken" => \E k \in DOMAIN taken : taken[k] = task[t]
    /\ \A k \in DOMAIN taken : \/ \E m \in DOMAIN started : started[m] = taken[k]
                               \/ \E u \in Threads : pc[u] = "taken" /\ task[u] = taken[k]
    /\ \A m \in DOMAIN started : \E k \in DOMAIN taken : taken[k] = started[m]
NearInv == HistInv /\ StartsNearOrder

\* What each thread but t holds is less than the pool's threads.
LEMMA InOtherHands ==
    ASSUME NEW t \in Threads, NEW M, NEW hold,
           \A j \in M : \E u \in Threads \ {t} : hold[u] = j
    PROVE  Cardinality(M) < Cardinality(Threads)
<1>1. PICK V : V = {u \in Threads \ {t} : hold[u] \in M}
  OBVIOUS
<1>2. PICK f : f = [u \in V |-> hold[u]]
  OBVIOUS
<1>3. f \in Surjection(V, M)
  <2>1. f \in [V -> M]
    BY <1>1, <1>2
  <2>2. \A j \in M : \E u \in V : f[u] = j
    BY <1>1, <1>2
  <2>. QED
    BY <2>1, <2>2 DEF Surjection
<1>4. PICK O : O = Threads \ {t}
  OBVIOUS
<1>5. IsFiniteSet(O) /\ Cardinality(O) = Cardinality(Threads) - 1
  BY <1>4, FS_RemoveElement, PoolAssumption
<1>6. IsFiniteSet(V) /\ Cardinality(V) <= Cardinality(O)
  <2>1. V \in SUBSET O
    BY <1>1, <1>4
  <2>. QED
    BY <1>5, <2>1, FS_Subset
<1>7. IsFiniteSet(M) /\ Cardinality(M) <= Cardinality(V)
  BY <1>3, <1>6, FS_Surjection
<1>8. /\ Cardinality(M) \in Nat /\ Cardinality(V) \in Nat /\ Cardinality(O) \in Nat
      /\ Cardinality(Threads) \in Nat
  BY <1>5, <1>6, <1>7, FS_CardinalityType, PoolAssumption
<1>. QED
  BY <1>5, <1>6, <1>7, <1>8

\* A step that neither pushes, takes nor calls a task.
LEMMA HistStutters ==
    ASSUME PoolInv, NearInv, UNCHANGED <<pushed, taken, started, taskqueue_>>,
           \A x \in Tasks : caller'[x] = "idle" => caller[x] = "idle",
           \A u \in Threads : (pc'[u] = "taken" <=> pc[u] = "taken")
                              /\ (pc[u] = "taken" => task'[u] = task[u])
    PROVE  NearInv'
<1>3. ASSUME NEW t \in Threads, pc'[t] = "taken"
      PROVE  \E k \in DOMAIN taken' : taken'[k] = task'[t]
  BY <1>3 DEF NearInv, HistInv
<1>4. ASSUME NEW k \in DOMAIN taken'
      PROVE  \/ \E m \in DOMAIN started' : started'[m] = taken'[k]
             \/ \E u \in Threads : pc'[u] = "taken" /\ task'[u] = taken'[k]
  <2>1. \/ \E m \in DOMAIN started : started[m] = taken[k]
        \/ \E u \in Threads : pc[u] = "taken" /\ task[u] = taken[k]
    BY DEF NearInv, HistInv
  <2>. QED
    BY <2>1
<1>1. HistInv'
  <2>1. /\ pushed' = taken' \o taskqueue_'
        /\ \A i, j \in DOMAIN pushed' : pushed'[i] = pushed'[j] => i = j
    BY DEF NearInv, HistInv
  <2>2. \A x \in Tasks : caller'[x] = "idle" => \A i \in DOMAIN pushed' : pushed'[i] # x
    BY DEF NearInv, HistInv
  <2>3. \A m \in DOMAIN started' : \E k \in DOMAIN taken' : taken'[k] = started'[m]
    BY DEF NearInv, HistInv
  <2>. QED
    BY <1>3, <1>4, <2>1, <2>2, <2>3 DEF HistInv
<1>2. StartsNearOrder'
  BY DEF NearInv, StartsNearOrder, Overtaken
<1>. QED
  BY <1>1, <1>2 DEF NearInv

\* addtask() puts the new task behind all others.
LEMMA HistPush ==
    ASSUME PoolInv, NearInv, NEW x \in Tasks, Push(x)
    PROVE  NearInv'
<1>1. /\ taken \in Seq(Tasks) /\ taskqueue_ \in Seq(Tasks) /\ pushed \in Seq(Tasks)
      /\ started \in Seq(Tasks) /\ caller \in [Tasks -> {"idle", "notify", "returned"}]
  BY DEF PoolInv, TypeOK
<1>2. /\ caller[x] = "idle" /\ caller' = [caller EXCEPT ![x] = "notify"]
      /\ taskqueue_' = Append(taskqueue_, x) /\ pushed' = Append(pushed, x)
      /\ UNCHANGED <<taken, started, pc, task>>
  BY DEF Push
<1>3. PICK n \in Nat : n = Len(pushed)
  BY <1>1
<1>4. /\ DOMAIN pushed = 1..n /\ DOMAIN pushed' = 1..(n + 1) /\ pushed'[n + 1] = x
      /\ \A i \in 1..n : pushed'[i] = pushed[i]
  BY <1>1, <1>2, <1>3
<1>5. \A i \in 1..n : pushed[i] # x
  BY <1>2, <1>4 DEF NearInv, HistInv
<1>6. pushed' = taken' \o taskqueue_'
  <2>1. taken \o Append(taskqueue_, x) = Append(taken \o taskqueue_, x)
    BY <1>1, LogAppend
  <2>. QED
    BY <1>2, <2>1 DEF NearInv, HistInv
<1>7. \A i, j \in DOMAIN pushed' : pushed'[i] = pushed'[j] => i = j
  BY SMTT(20), <1>4, <1>5 DEF NearInv, HistInv
<1>8. \A y \in Tasks : caller'[y] = "idle" => \A i \in DOMAIN pushed' : pushed'[i] # y
  BY <1>1, <1>2, <1>4 DEF NearInv, HistInv
<1>9. HistInv'
  <2>1. HistInv
    BY DEF NearInv
  <2>2. \A t \in Threads : pc'[t] = "taken" => \E k \in DOMAIN taken' : taken'[k] = task'[t]
    BY <1>2, <2>1 DEF HistInv
  <2>3. \A k \in DOMAIN taken' : \/ \E m \in DOMAIN started' : started'[m] = taken'[k]
                                 \/ \E u \in Threads : pc'[u] = "taken" /\ task'[u] = taken'[k]
    BY <1>2, <2>1 DEF HistInv
  <2>4. \A m \in DOMAIN started' : \E k \in DOMAIN taken' : taken'[k] = started'[m]
    BY <1>2, <2>1 DEF HistInv
  <2>. QED
    BY <1>6, <1>7, <1>8, <2>2, <2>3, <2>4 DEF HistInv
<1>10. ASSUME NEW i \in DOMAIN started PROVE Overtaken(i)' = Overtaken(i)
  <2>1. PICK k \in DOMAIN taken : taken[k] = started[i]
    BY DEF NearInv, HistInv
  <2>2. k \in 1..n /\ pushed[k] = started[i]
    BY <1>1, <1>4, <2>1 DEF NearInv, HistInv
  <2>3. started[i] # x
    BY <1>5, <2>2
  <2>4. ASSUME NEW j \in DOMAIN pushed'
        PROVE  (\E h \in DOMAIN pushed' : j < h /\ pushed'[h] = started[i])
               <=> (j \in DOMAIN pushed /\ \E h \in DOMAIN pushed : j < h /\ pushed[h] = started[i])
    <3>1. ASSUME NEW h \in DOMAIN pushed', pushed'[h] = started[i]
          PROVE  h \in DOMAIN pushed /\ pushed[h] = started[i]
      BY <1>3, <1>4, <2>3, <3>1
    <3>2. ASSUME NEW h \in DOMAIN pushed, j < h PROVE j \in DOMAIN pushed
      BY <1>3, <1>4, <2>4, <3>2
    <3>3. \A h \in DOMAIN pushed : h \in DOMAIN pushed' /\ pushed'[h] = pushed[h]
      BY <1>3, <1>4
    <3>. QED
      BY <3>1, <3>2, <3>3
  <2>5. /\ DOMAIN pushed \subseteq DOMAIN pushed' /\ started' = started
        /\ \A j \in DOMAIN pushed : pushed'[j] = pushed[j]
    BY <1>2, <1>3, <1>4
  <2>6. \A j : j \in Overtaken(i)' <=> j \in Overtaken(i)
    BY <2>4, <2>5 DEF Overtaken
  <2>. QED
    BY <2>6 DEF Overtaken
<1>11. StartsNearOrder'
  BY <1>2, <1>10 DEF NearInv, StartsNearOrder
<1>. QED
  BY <1>9, <1>11 DEF NearInv

\* The task popped is in the hands of the thread that popped it.
LEMMA HistTake ==
    ASSUME PoolInv, NearInv, NEW t \in Threads, Take(t), ~(stop_ /\ taskqueue_ = <<>>)
    PROVE  NearInv'
<1>1. /\ taken \in Seq(Tasks) /\ taskqueue_ \in Seq(Tasks) /\ pushed \in Seq(Tasks)
      /\ pc \in [Threads -> Locations] /\ task \in [Threads -> Tasks \cup {NoTask}]
  BY DEF PoolInv, TypeOK
<1>2. taskqueue_ # <<>> /\ pc[t] = "take"
  BY DEF Take, Goto, PoolInv, NeverPopsEmpty, WaitPredicate
<1>3. PICK x \in Tasks : x = Head(taskqueue_)
  BY <1>1, <1>2
<1>4. /\ taken' = Append(taken, x) /\ taskqueue_' = Tail(taskqueue_)
      /\ pc' = [pc EXCEPT ![t] = "taken"] /\ task' = [task EXCEPT ![t] = x]
      /\ UNCHANGED <<pushed, started, caller>>
  BY <1>3 DEF Take, Goto
<1>5. pushed' = taken' \o taskqueue_'
  BY <1>1, <1>2, <1>3, <1>4, MoveHead DEF NearInv, HistInv
<1>6. PICK n \in Nat : n = Len(taken)
  BY <1>1
<1>7. /\ DOMAIN taken = 1..n /\ DOMAIN taken' = 1..(n + 1) /\ taken'[n + 1] = x
      /\ \A i \in 1..n : taken'[i] = taken[i]
  BY <1>1, <1>4, <1>6
<1>8. \A u \in Threads : pc'[u] = "taken" => \E k \in DOMAIN taken' : taken'[k] = task'[u]
  <2>. SUFFICES ASSUME NEW u \in Threads, pc'[u] = "taken"
                PROVE  \E k \in DOMAIN taken' : taken'[k] = task'[u]
    OBVIOUS
  <2>1. CASE u = t
    <3>1. task'[u] = x /\ n + 1 \in DOMAIN taken'
      BY <1>1, <1>4, <1>6, <1>7, <2>1
    <3>. QED
      BY <1>7, <3>1
  <2>2. CASE u # t
    <3>1. pc[u] = "taken" /\ task'[u] = task[u]
      BY <1>1, <1>4, <2>2
    <3>2. PICK k \in 1..n : taken[k] = task[u]
      BY <1>7, <3>1 DEF NearInv, HistInv
    <3>. QED
      BY <1>6, <1>7, <3>1, <3>2
  <2>. QED
    BY <2>1, <2>2
<1>9. ASSUME NEW k \in DOMAIN taken'
      PROVE  \/ \E m \in DOMAIN started' : started'[m] = taken'[k]
             \/ \E u \in Threads : pc'[u] = "taken" /\ task'[u] = taken'[k]
  <2>1. CASE k = n + 1
    <3>1. pc'[t] = "taken" /\ task'[t] = x
      BY <1>1, <1>4
    <3>. QED
      BY <1>7, <2>1, <3>1
  <2>2. CASE k # n + 1
    <3>1. k \in DOMAIN taken /\ taken'[k] = taken[k]
      BY <1>6, <1>7, <2>2
    <3>2. CASE \E m \in DOMAIN started : started[m] = taken[k]
      BY <1>4, <3>1, <3>2
    <3>3. ASSUME NEW u \in Threads, pc[u] = "taken", task[u] = taken[k]
          PROVE  pc'[u] = "taken" /\ task'[u] = taken'[k]
      BY <1>1, <1>2, <1>4, <3>1, <3>3
    <3>. QED
      BY <3>1, <3>2, <3>3 DEF NearInv, HistInv
  <2>. QED
    BY <2>1, <2>2
<1>10. ASSUME NEW m \in DOMAIN started' PROVE \E k \in DOMAIN taken' : taken'[k] = started'[m]
  <2>1. PICK k \in 1..n : taken[k] = started[m]
    BY <1>4, <1>7 DEF NearInv, HistInv
  <2>. QED
    BY <1>4, <1>6, <1>7, <2>1
<1>11. HistInv'
  <2>1. \A i, j \in DOMAIN pushed' : pushed'[i] = pushed'[j] => i = j
    BY <1>4 DEF NearInv, HistInv
  <2>2. \A y \in Tasks : caller'[y] = "idle" => \A i \in DOMAIN pushed' : pushed'[i] # y
    BY <1>4 DEF NearInv, HistInv
  <2>. QED
    BY <1>5, <1>8, <1>9, <1>10, <2>1, <2>2 DEF HistInv
<1>12. StartsNearOrder'
  <2>1. \A i \in DOMAIN started : Overtaken(i)' = Overtaken(i)
    BY <1>4 DEF Overtaken
  <2>. QED
    BY <1>4, <2>1 DEF NearInv, StartsNearOrder
<1>. QED
  BY <1>11, <1>12 DEF NearInv

\* Whatever is older than the task called and was not called is in other hands.
LEMMA HistStart ==
    ASSUME PoolInv, NearInv, NEW t \in Threads, Start(t)
    PROVE  NearInv'
<1>1. /\ taken \in Seq(Tasks) /\ taskqueue_ \in Seq(Tasks) /\ pushed \in Seq(Tasks)
      /\ started \in Seq(Tasks)
      /\ pc \in [Threads -> Locations] /\ task \in [Threads -> Tasks \cup {NoTask}]
  BY DEF PoolInv, TypeOK
<1>2. /\ pc[t] = "taken" /\ pc' = [pc EXCEPT ![t] = "run"]
      /\ started' = Append(started, task[t])
      /\ UNCHANGED <<pushed, taken, taskqueue_, task, caller>>
  BY DEF Start, Goto
<1>3. PICK x \in Tasks : x = task[t]
  BY <1>1, <1>2 DEF NearInv, HistInv
<1>4. PICK s \in Nat : s = Len(started)
  BY <1>1
<1>5. /\ DOMAIN started = 1..s /\ DOMAIN started' = 1..(s + 1) /\ started'[s + 1] = x
      /\ \A i \in 1..s : started'[i] = started[i]
  BY <1>1, <1>2, <1>3, <1>4
<1>6. \A u \in Threads : pc'[u] = "taken" <=> pc[u] = "taken" /\ u # t
  BY <1>1, <1>2
<1>7. PICK h \in DOMAIN taken : taken[h] = x
  BY <1>2, <1>3 DEF NearInv, HistInv
<1>8. ASSUME NEW k \in DOMAIN taken
      PROVE  \/ \E m \in DOMAIN started' : started'[m] = taken[k]
             \/ \E u \in Threads \ {t} : pc[u] = "taken" /\ task[u] = taken[k]
  <2>1. CASE \E m \in DOMAIN started : started[m] = taken[k]
    BY <1>4, <1>5, <2>1
  <2>2. CASE \E u \in Threads : pc[u] = "taken" /\ task[u] = taken[k]
    BY <1>3, <1>4, <1>5, <2>2
  <2>. QED
    BY <2>1, <2>2 DEF NearInv, HistInv
<1>9. HistInv'
  <2>1. \A u \in Threads : pc'[u] = "taken" => \E k \in DOMAIN taken' : taken'[k] = task'[u]
    BY <1>2, <1>6 DEF NearInv, HistInv
  <2>2. ASSUME NEW k \in DOMAIN taken'
        PROVE  \/ \E m \in DOMAIN started' : started'[m] = taken'[k]
               \/ \E u \in Threads : pc'[u] = "taken" /\ task'[u] = taken'[k]
    BY <1>2, <1>6, <1>8
  <2>3. ASSUME NEW m \in DOMAIN started' PROVE \E k \in DOMAIN taken' : taken'[k] = started'[m]
    <3>1. CASE m = s + 1
      BY <1>2, <1>5, <1>7, <3>1
    <3>2. CASE m \in 1..s
      BY <1>2, <1>5, <3>2 DEF NearInv, HistInv
    <3>. QED
      BY <1>4, <1>5, <3>1, <3>2
  <2>4. /\ pushed' = taken' \o taskqueue_'
        /\ \A i, j \in DOMAIN pushed' : pushed'[i] = pushed'[j] => i = j
        /\ \A y \in Tasks : caller'[y] = "idle" => \A i \in DOMAIN pushed' : pushed'[i] # y
    BY SMTT(30), <1>2 DEF NearInv, HistInv
  <2>. QED
    BY <2>1, <2>2, <2>3, <2>4 DEF HistInv
<1>10. ASSUME NEW i \in 1..s PROVE Overtaken(i)' = Overtaken(i)
  <2>1. i \in DOMAIN started /\ started'[i] = started[i] /\ \A m \in 1..i : started'[m] = started[m]
    BY <1>4, <1>5
  <2>. QED
    BY <1>2, <2>1 DEF Overtaken
<1>11. Cardinality(Overtaken(s + 1)') < Cardinality(Threads)
  <2>1. PICK M : M = Overtaken(s + 1)'
    OBVIOUS
  <2>2. PICK n \in Nat : n = Len(taken)
    BY <1>1
  <2>3. /\ DOMAIN taken = 1..n /\ 1..n \subseteq DOMAIN pushed
        /\ \A k \in 1..n : pushed[k] = taken[k]
    BY <1>1, <2>2 DEF NearInv, HistInv
  <2>4. ASSUME NEW j \in M
        PROVE  j \in 1..n /\ \E u \in Threads \ {t} : pc[u] = "taken" /\ task[u] = taken[j]
    <3>1. /\ j \in DOMAIN pushed /\ \A m \in 1..(s + 1) : started'[m] # pushed[j]
          /\ \E k \in DOMAIN pushed : j < k /\ pushed[k] = started'[s + 1]
      BY <1>2, <2>1, <2>4 DEF Overtaken
    <3>2. j < h
      BY <1>5, <1>7, <2>3, <3>1 DEF NearInv, HistInv
    <3>3. j \in 1..n
      BY <1>1, <1>7, <2>2, <2>3, <3>1, <3>2
    <3>4. ~ \E m \in DOMAIN started' : started'[m] = taken[j]
      BY <1>5, <2>3, <3>1, <3>3
    <3>. QED
      BY <1>8, <2>3, <3>3, <3>4
  <2>5. PICK hold : hold = [u \in Threads |-> CHOOSE j \in 1..n : taken[j] = task[u]]
    OBVIOUS
  <2>6. ASSUME NEW j \in M PROVE \E u \in Threads \ {t} : hold[u] = j
    <3>1. PICK u \in Threads \ {t} : j \in 1..n /\ task[u] = taken[j]
      BY <2>4, <2>6
    <3>2. hold[u] \in 1..n /\ taken[hold[u]] = taken[j]
      BY <2>5, <3>1
    <3>. QED
      BY SMTT(20), <2>3, <3>1, <3>2 DEF NearInv, HistInv
  <2>7. Cardinality(M) < Cardinality(Threads)
    BY <2>6, InOtherHands
  <2>. QED
    BY <2>1, <2>7
<1>12. StartsNearOrder'
  <2>. SUFFICES ASSUME NEW i \in DOMAIN started'
                PROVE  Cardinality(Overtaken(i)') < Cardinality(Threads)
    BY DEF StartsNearOrder
  <2>1. CASE i = s + 1
    BY <1>11, <2>1
  <2>2. CASE i \in 1..s
    BY <1>5, <1>10, <2>2 DEF NearInv, StartsNearOrder
  <2>. QED
    BY <1>4, <1>5, <2>1, <2>2
<1>. QED
  BY <1>9, <1>12 DEF NearInv

\* Whatever the threads do between pop() and the call: when a task is called, fewer
\* older tasks than the pool has threads are still to be called.
THEOREM StartsNearOrderHolds == Spec => []StartsNearOrder
<1>1. Init => NearInv
  BY DEF Init, NearInv, HistInv, StartsNearOrder
<1>2. PoolInv /\ NearInv /\ [Next]_poolVars => NearInv'
  <2> SUFFICES ASSUME PoolInv, NearInv, [Next]_poolVars PROVE NearInv'
    OBVIOUS
  <2>0. caller \in [Tasks -> {"idle", "notify", "returned"}] /\ pc \in [Threads -> Locations]
        /\ task \in [Threads -> Tasks \cup {NoTask}]
    BY DEF PoolInv, TypeOK
  <2>1. ASSUME \/ \E t \in Threads : \/ WhileTest(t) \/ Lock(t) \/ Predicate(t) \/ Sleep(t)
                                     \/ Take(t) /\ stop_ /\ taskqueue_ = <<>>
                                     \/ Run(t) \/ SpuriousWakeup(t)
               \/ \E x \in Tasks : NotifyOne(x)
               \/ Stopping \/ UNCHANGED poolVars
        PROVE  NearInv'
    <3>1. UNCHANGED <<pushed, taken, started, taskqueue_>>
          /\ \A x \in Tasks : caller'[x] = "idle" => caller[x] = "idle"
      BY <2>0, <2>1 DEF WhileTest, Lock, Predicate, Sleep, Take, Run, SpuriousWakeup, NotifyOne,
         Stopping, SetStop, NotifyAll, Join, poolVars, histVars
    <3>2. ASSUME NEW t \in Threads, WhileTest(t) \/ Lock(t) \/ Predicate(t) \/ Sleep(t)
                                     \/ (Take(t) /\ stop_ /\ taskqueue_ = <<>>)
          PROVE  \A u \in Threads : (pc'[u] = "taken" <=> pc[u] = "taken") /\ task'[u] = task[u]
      BY <2>0, <3>2 DEF WhileTest, Lock, Predicate, Sleep, Take, Goto, Locations
    <3>3. ASSUME NEW t \in Threads, Run(t)
          PROVE  \A u \in Threads : (pc'[u] = "taken" <=> pc[u] = "taken")
                                    /\ (pc[u] = "taken" => task'[u] = task[u])
      BY <2>0, <3>3 DEF Run, Goto
    <3>4. CASE UNCHANGED <<pc, task>>
      BY <3>1, <3>4, HistStutters
    <3>5. \/ UNCHANGED <<pc, task>>
          \/ \A u \in Threads : (pc'[u] = "taken" <=> pc[u] = "taken")
                                /\ (pc[u] = "taken" => task'[u] = task[u])
      BY <2>1, <3>2, <3>3 DEF SpuriousWakeup, NotifyOne, Stopping, SetStop, NotifyAll, Join, poolVars
    <3>. QED
      BY <3>1, <3>4, <3>5, HistStutters
  <2> QED BY <2>1, HistPush, HistTake, HistStart DEF Next, Worker
<1>3. NearInv => StartsNearOrder
  BY DEF NearInv
<1> QED BY <1>1, <1>2, <1>3, PoolInvHolds, PTL DEF Spec
=============================================================================
