------------------------------- MODULE Lounge -------------------------------
(***************************************************************************)
(* What the waiting room promises: a connection that is let in waits until *)
(* it is closed or sits down, once, at a table of exactly TableSize        *)
(* connections of one room.  WaitingRoom is checked to implement this.     *)
(***************************************************************************)
EXTENDS Naturals, FiniteSets

CONSTANTS Guests, TableSize, RoomOf

VARIABLES
  place,   \* where each guest is
  tables   \* the tables formed, as sets of guests

loungeVars == <<place, tables>>

Init == place = [g \in Guests |-> "outside"] /\ tables = {}

Move(S, from, to) ==
  /\ \A g \in S : place[g] \in from
  /\ place' = [g \in Guests |-> IF g \in S THEN to ELSE place[g]]

Enter(g) == Move({g}, {"outside"}, "waiting") /\ UNCHANGED tables

\* Refused at the door, dropped, or swept out after hanging up.
Close(S) == Move(S, {"outside", "waiting"}, "closed") /\ UNCHANGED tables

Sit(S) ==
  /\ Cardinality(S) = TableSize
  /\ \A g, h \in S : RoomOf[g] = RoomOf[h]
  /\ Move(S, {"waiting"}, "table")
  /\ tables' = tables \cup {S}

Next ==
  \/ \E g \in Guests : Enter(g)
  \/ \E S \in SUBSET Guests : Close(S) \/ Sit(S)

Spec == Init /\ [][Next]_loungeVars
=============================================================================
