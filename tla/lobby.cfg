CONSTANTS
  Sessions <- MCSessions
  Users <- MCUsers
  TableOf <- MCTableOf
  Host <- MCHost
  AIs <- MCAIs
  Agents <- MCAgents
  Scenes <- MCScenes
  CapGpu = 1
  CapExt = 1
  Loop = "loop"
  Screen = "screen"
  Losses <- MCLosses
SPECIFICATION LoopSpec
INVARIANTS TypeOK SlotsKept NoOrphans NobodyUnasked
PROPERTY QueueServed
CHECK_DEADLOCK FALSE
