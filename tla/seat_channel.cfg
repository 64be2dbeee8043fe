CONSTANTS
  p1 = p1
  p2 = p2
  t1 = t1
  t2 = t2
  Conns <- MCConns
  Games = 2
  Requests = 3
  FirstConn <- MCFirstConn
  Cap = 2
  Viewers <- MCViewers
  Pauses = 1
  Eligible = TRUE
SPECIFICATION FairSpec
INVARIANTS TypeOK AnswersInStep ConnectionsAccounted
PROPERTIES WaitsEnd
CHECK_DEADLOCK FALSE
