CONSTANTS
  Conns <- MCPair
  TeamOf <- MCTeamOfPair
  Teams <- MCTeams
  RoleNum <- MCRoleNum
  TeamCount = 2
  GameCount = 1
  Loops <- MCLooping
  Drawn <- MCDrawnOnce
  Crashes = 0
  Fails = 0
  Nobody = Nobody
SPECIFICATION FairSpec
PROPERTY ScheduleRefilled
CHECK_DEADLOCK FALSE
