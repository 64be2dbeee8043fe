CONSTANTS
  p1 = p1
  p2 = p2
  t1 = t1
  t2 = t2
  Conns <- MCConns
  Games = 2
  Requests = 1
  FirstConn <- MCFirstConn
  Cap = 2
  Viewers <- MCViewers
  Pauses = 0
  Eligible = TRUE
SPECIFICATION Spec
PROPERTIES TakeoverReachesSeat
CHECK_DEADLOCK FALSE
