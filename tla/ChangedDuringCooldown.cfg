SPECIFICATION Spec
CONSTANTS
  d1 = d1
  d2 = d2
  i1 = i1
  i2 = i2
  Displays <- Two
  NoDisplay = NoDisplay
  NoIdentity = NoIdentity
  Torn = Torn
  Unlocked = Unlocked
  Layouts <- OneOrBoth
  Identity <- Distinct
  InitiallySaved <- SecondSaved
  PollInterval = 2
  RetryCooldown = 5
  InfoRetry = 15
  RelocationAttempts = 1
  MaxDisturbances = 2
  MaxRequests = 0
INVARIANT PollRelocatesAfterCooldown
