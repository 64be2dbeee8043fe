--------------------------- MODULE MCWaitingRoom ---------------------------
(***************************************************************************)
(* Small waiting rooms for TLC: games of two, two rooms, three clients in  *)
(* room r, two of them of the same name, and two in room q.                *)
(***************************************************************************)
EXTENDS WaitingRoom

CONSTANTS r1, r2, r3, q1, q2, r, q

MCRoomOf == [c \in Conns |-> IF c \in {r1, r2, r3} THEN r ELSE q]
MCNameOf == [c \in Conns |-> IF c \in {r1, r3} THEN "ann" ELSE IF c = q1 THEN "bob" ELSE "cat"]

\* The behaviours of FairSpec in which nobody is refused or hangs up and /control is called
\* for room r only: enough for the counterexample.
Undisturbed ==
  /\ closed' = {}
  /\ \A k \in Calls : job'[k] \in [op : {"hold", "release"}, room : {r}] \cup {NoJob}
UndisturbedSpec == Init /\ [][Next /\ Undisturbed]_vars /\ Fairness
=============================================================================
