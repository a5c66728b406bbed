SPECIFICATION FairSpec
CONSTANTS Workers = {w1}
          Loops = {l1, l2}
          main = main
          MaxJobs = 1
          MaxSignals = 1
PROPERTIES SignalEndsProcess
CHECK_DEADLOCK FALSE
