SPECIFICATION FairSpec
CONSTANTS
  d1 = d1
  d2 = d2
  i1 = i1
  i2 = i2
  Displays <- Two
  NoDisplay = NoDisplay
  NoIdentity = NoIdentity
  Torn = Torn
  Unlocked = Unlocked
  Layouts <- OneOrBoth
  Identity <- Distinct
  InitiallySaved <- SecondSaved
  PollInterval = 1
  RetryCooldown = 2
  InfoRetry = 2
  RelocationAttempts = 2
  MaxDisturbances = 1
  MaxRequests = 0
PROPERTY ReconnectedPinIsRestored
