SPECIFICATION FairSpec
CONSTANTS
  Conns = {c1}
  Workers = {w1}
  NoConn = NoConn
  ThreadNum = 1
  FirstFd = 10
  MaxRequests = 0
  AcceptMayFail = FALSE
  EarlyData = FALSE
  IdleExpiry = TRUE
CHECK_DEADLOCK FALSE
PROPERTY SweepCollects
