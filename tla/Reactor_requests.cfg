SPECIFICATION FairSpec
CONSTANTS
  Conns = {c1}
  Workers = {w1, w2}
  NoConn = NoConn
  ThreadNum = 2
  FirstFd = 13
  MaxRequests = 3
  AcceptMayFail = TRUE
  EarlyData = TRUE
  IdleExpiry = FALSE
CHECK_DEADLOCK FALSE
INVARIANTS TypeOK RawPointersSafe FailuresExplained OutArmed ExactlyOnce OvertakingBounded
PROPERTY AllAnswered
