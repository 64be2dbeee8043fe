--------------------------- MODULE MCSeatChannel ---------------------------
(* A human's seat in two games, one after the other, and two takeover      *)
(* connections.                                                            *)
EXTENDS SeatChannel

CONSTANTS p1, p2, t1, t2   \* the human's connection in each game, takeovers

MCConns == {p1, p2, t1, t2}
MCFirstConn == <<p1, p2>>
MCViewers == {p1, p2}
=============================================================================
