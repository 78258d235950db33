SPECIFICATION Spec
CONSTANTS
  a = a
  b = b
  c = c
  id1 = id1
  id2 = id2
  p1 = p1
  p2 = p2
  NoDisplay = NoDisplay
  NoWindow = NoWindow
  NoProcess = NoProcess
  Displays <- ThreeDisplays
  Layouts <- Pinched
  Pids <- TwoPids
  WindowIds <- TwoIds
  UserPoints <- FewPoints
  BarHeight = 80
  MaxDisturbances <- OnceOnEach
  WalkSteps = 3
  NudgeAttempts = 3
  ProbeInterval = 2
  VerifyAttempts = 1
INVARIANT TwoPixelsSuffice
CHECK_DEADLOCK FALSE
