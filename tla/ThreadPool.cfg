SPECIFICATION FairSpec
CONSTANTS
  t1 = t1  t2 = t2  a = a  b = b  c = c
  Threads <- TwoThreads
  Tasks <- ThreeTasks
  NoThread = NoThread
  NoTask = NoTask
  MaxSpurious = 1
CHECK_DEADLOCK FALSE
PROPERTIES TakenInOrder TasksExecuted JoinCompletes
INVARIANTS TypeOK NeverPopsEmpty NoLostWakeup WorkConserving StartsNearOrder
