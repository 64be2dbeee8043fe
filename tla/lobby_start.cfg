CONSTANTS
  Sessions <- MCSessions
  Users <- MCUsers
  TableOf <- MCTableOf
  Host <- MCHost
  AIs <- MCAIs
  Agents <- MCAgents
  Scenes <- MCSolo
  CapGpu = 1
  CapExt = 1
  Loop = "loop"
  Screen = "screen"
  Losses <- MCSoloLosses
SPECIFICATION FairSpec
PROPERTY FullStarts
CHECK_DEADLOCK FALSE
