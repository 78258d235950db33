SPECIFICATION FairSpec
CONSTANTS
  c1 = c1
  c2 = c2
  Clients <- TwoClients
  WakeUp = WakeUp
  Nobody = Nobody
  MaxRemovals = 1
INVARIANT TypeOK
INVARIANT OneHolder
INVARIANT UnansweredMeansUndone
PROPERTY ClientHearsBack
PROPERTY ShutdownEnds
CHECK_DEADLOCK FALSE
