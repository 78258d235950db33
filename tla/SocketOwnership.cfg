SPECIFICATION FairSpec
CONSTANTS
  launched = launched
  byHand = byHand
  Daemons <- BothDaemons
  NULL = NULL
  MaxCrashes = 2
  MaxRemovals = 1
INVARIANT TypeOK
INVARIANT OneAtWork
INVARIANT ServingIsReachable
PROPERTY LiveSocketIsKept
PROPERTY StaleSocketIsReplaced
