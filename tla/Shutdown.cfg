SPECIFICATION FairSpec
CONSTANTS Workers = {w1}
          Loops = {l1}
          main = main
          MaxJobs = 1
          MaxSignals = 2
INVARIANTS TypeOK MemoryOutlivesThreads OneSignalIsClean
PROPERTY StopsUnlessStuck
CHECK_DEADLOCK FALSE
