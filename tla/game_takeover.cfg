\* A table of four with one human seat and one takeover.
SPECIFICATION Spec
CONSTANTS
  Seats = {1, 2, 3, 4}
  RoleOf <- Village4
  HumanSeats = {2}
  MaxConn = 1
  MaxErrors = 2
  MaxDay = 1
  DayPhases <- Day
  NightPhases <- Night
  VoteMaxCount = 1
  AttackVoteMaxCount = 1
  AllowSelfVote = TRUE
  AllowSelfAttack = TRUE
  AllowNoTarget = FALSE
INVARIANT TakenOverSeatPlaysOn
