SPECIFICATION Spec
CONSTANTS
  Conns = {c1, c2, c3}
  Workers = {w1}
  NoConn = NoConn
  ThreadNum = 1
  FirstFd = 10
  MaxRequests = 0
  AcceptMayFail = TRUE
  EarlyData = TRUE
  IdleExpiry = TRUE
SYMMETRY Symmetry
CHECK_DEADLOCK FALSE
INVARIANTS ServerMapExact FailuresExplained ClosedNotDispatched IteratorValid
PROPERTY EntriesNotReplaced
