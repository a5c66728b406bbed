SPECIFICATION Spec
CONSTANTS
  Conns = {c1}
  Workers = {w1}
  NoConn = NoConn
  ThreadNum = 1
  FirstFd = 10
  MaxRequests = 1
  AcceptMayFail = FALSE
  EarlyData = FALSE
  IdleExpiry = FALSE
CHECK_DEADLOCK FALSE
INVARIANT NeverExits
