SPECIFICATION FairSpec
CONSTANTS
  d1 = d1
  d2 = d2
  i1 = i1
  i2 = i2
  Displays <- Two
  NoDisplay = NoDisplay
  NoIdentity = NoIdentity
  Torn = Torn
  Unlocked = Unlocked
  Layouts <- GrowingList
  Identity <- Distinct
  InitiallySaved <- SecondSaved
  PollInterval = 1
  RetryCooldown = 2
  InfoRetry = 2
  RelocationAttempts = 2
  MaxDisturbances = 3
  MaxRequests = 1
INVARIANT TypeOK
INVARIANT LockNeedsTap
INVARIANT LockMatchesPreference
INVARIANT AckedPinIsSaved
INVARIANT AckedUnlockSticks
INVARIANT RestoredLockIsPinned
INVARIANT ChangeIsDebounced
PROPERTY SidewaysDockIsUnlocked
PROPERTY GoneDisplayIsReleased
PROPERTY PinIsRestored
PROPERTY PollsRecur
PROPERTY TerminationIsHonoured
