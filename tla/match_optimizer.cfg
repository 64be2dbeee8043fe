CONSTANTS
  Conns <- MCConns
  TeamOf <- MCTeamOf
  Teams <- MCTeams
  RoleNum <- MCRoleNum
  TeamCount = 2
  GameCount = 2
  Loops <- MCLoops
  Drawn <- MCDrawn
  Crashes = 1
  Fails = 1
  Nobody = Nobody
SPECIFICATION FairSpec
INVARIANTS TypeOK ScheduleConserved FileKept
PROPERTIES PlayedStaysPlayed HandlersEnd
CHECK_DEADLOCK FALSE
