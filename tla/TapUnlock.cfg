SPECIFICATION FairSpec
CONSTANTS
  c1 = c1
  c2 = c2
  t1 = t1
  t2 = t2
  NULL = NULL
  Threads <- TwoThreads
  Callers <- TwoCallers
  MaxFaults = 0
PROPERTY UnlockKeepsDaemonAvailable
