------------------------------ MODULE MCLobby ------------------------------
(* u1 and u2 go to session s, which u1 makes; v1 makes session b.           *)
EXTENDS Lobby

MCSessions == {"s", "b"}
MCUsers == {"u1", "u2", "v1"}
MCTableOf == [u \in MCUsers |-> IF u = "v1" THEN "b" ELSE "s"]
MCHost == [s \in MCSessions |-> IF s = "b" THEN "v1" ELSE "u1"]
MCAIs == {"ai1", "ai2"}
MCAgents == {"agent"}

\* Two AIs only at the table that no human sits at.
Table(m, n, h, A, k) ==
  [mode |-> m, size |-> n, humans |-> h, agents |-> A, own |-> k,
   pool |-> IF m = "spectate" /\ n > 1 THEN MCAIs ELSE {"ai1"}, polled |-> FALSE]
None == Table("none", 1, 0, {}, FALSE)
Scene(ts, tb) == [s \in MCSessions |-> IF s = "b" THEN tb ELSE ts]

Solo(n, k) == Table("solo", n, 1, {}, k)
Spectate(n) == Table("spectate", n, 0, {}, FALSE)
Multi(n, h) == Table("multi", n, h, {}, TRUE)
Byo(n, h, A) == Table("byo", n, h, A, TRUE)
Direct(n, h, A) == Table("direct", n, h, A, TRUE)

\* Two sessions that want slots: of one kind, of both, or of the other.
MCQueues == {Scene(Spectate(1), Solo(2, FALSE)), Scene(Solo(2, TRUE), Byo(1, 0, MCAgents)),
             Scene(Solo(2, FALSE), Direct(1, 0, MCAgents))}

\* One session: two tables of people who come and go, and smaller ones at which
\* a call may be lost.
MCAlone(t) == Scene([t EXCEPT !.polled = TRUE], None)
MCTables == {MCAlone(Multi(2, 2)), Scene(Byo(2, 1, MCAgents), None)}
MCSmall == {MCAlone(Solo(2, TRUE)), MCAlone(Spectate(2)), MCAlone(Byo(1, 0, MCAgents))}

MCScenes == MCQueues \cup MCTables \cup MCSmall
MCLosses == [c \in MCScenes |-> IF c \in MCSmall THEN 1 ELSE 0]

MCSolo == {MCAlone(Solo(2, TRUE))}
MCSoloLosses == [c \in MCSolo |-> 0]
=============================================================================
