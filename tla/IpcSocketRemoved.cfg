SPECIFICATION FairSpec
CONSTANTS
  c1 = c1
  c2 = c2
  Clients <- TwoClients
  WakeUp = WakeUp
  Nobody = Nobody
  MaxRemovals = 1
PROPERTY ShutdownStopsIpcThread
CHECK_DEADLOCK FALSE
