\* A table of five with two werewolves and a human bodyguard, the phases of
\* configs/server.yml, two rounds of execution votes, one takeover per seat.
SPECIFICATION FairSpec
CONSTANTS
  Seats = {1, 2, 3, 4, 5}
  RoleOf <- Pack
  HumanSeats = {3}
  MaxConn = 1
  MaxErrors = 2
  MaxDay = 2
  DayPhases <- Day
  NightPhases <- Night
  VoteMaxCount = 2
  AttackVoteMaxCount = 1
  AllowSelfVote = TRUE
  AllowSelfAttack = TRUE
  AllowNoTarget = FALSE
INVARIANTS
  TypeOK
  DeathsAnnounced
  NoPlayAfterDecision
  WinnerMatchesVillage
  GuardedSurvive
PROPERTIES
  NoRevival
  Termination
  ImplementsVillage
