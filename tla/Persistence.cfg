SPECIFICATION FairSpec
CONSTANTS
  Identities <- ThreeDisplays
  InitialFiles <- FourFiles
  Missing = Missing
  MaxFaults = 2
INVARIANT TypeOK
INVARIANT AnswersAreTrue
PROPERTY KeepsContract
PROPERTY PinComesBack
