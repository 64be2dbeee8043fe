SPECIFICATION Spec
CONSTANTS
  r1 = r1  r2 = r2  r3 = r3  q1 = q1  q2 = q2  r = r  q = q
  Conns = {r1, r3}
  Calls = {k1}
  Rooms = {r, q}
  RoomOf <- MCRoomOf
  NameOf <- MCNameOf
  TableSize = 2
  Nobody = Nobody
INVARIANTS
  NamesUnique
