SPECIFICATION FairSpec
CONSTANTS
  a = a  b = b  c = c
  Tasks <- ThreeTasks
  EventfdMax = 2
CHECK_DEADLOCK FALSE
INVARIANTS TypeOK NoLostTask StopNotMissed
PROPERTIES RunsInOrder TasksExecuted WakeupConsumed StopEndsRun
