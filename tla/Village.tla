------------------------------- MODULE Village -------------------------------
(***************************************************************************)
(* What one table promises its players: a village that loses at most one   *)
(* player to the vote and one to the werewolves each day, in which nobody  *)
(* dies once a side has won, and whose verdict, when it names a side, is   *)
(* the one the survivors decide.  Seats, requests, phases and errors are   *)
(* the business of Game, which is checked to implement this.               *)
(***************************************************************************)
EXTENDS Naturals, FiniteSets

CONSTANTS
  Players,
  Wolves     \* the players of the werewolf species

VARIABLES
  alive,     \* players not dead yet
  tonight,   \* ways in which somebody has died since the day began
  verdict    \* "OPEN" while the game runs, then "VILLAGER", "WEREWOLF" or "NONE"

villageVars == <<alive, tonight, verdict>>

Winner ==
  LET wolves == Cardinality(alive \cap Wolves)
      humans == Cardinality(alive \ Wolves)
  IN  IF humans <= wolves THEN "WEREWOLF"
      ELSE IF wolves = 0 THEN "VILLAGER"
      ELSE "NONE"

Undecided == verdict = "OPEN" /\ Winner = "NONE"

Init == alive = Players /\ tonight = {} /\ verdict = "OPEN"

Dies(p, how) ==
  /\ Undecided
  /\ p \in alive /\ how \notin tonight
  /\ alive' = alive \ {p}
  /\ tonight' = tonight \cup {how}
  /\ UNCHANGED verdict

Executed(p) == "attack" \notin tonight /\ Dies(p, "execution")
Attacked(p) == p \notin Wolves /\ Dies(p, "attack")

NewDay ==
  /\ Undecided
  /\ tonight' = {}
  /\ UNCHANGED <<alive, verdict>>

\* The game stops: with the winner, or without one (errors, day limit).
Stop ==
  /\ verdict = "OPEN"
  /\ tonight' = {}
  /\ verdict' \in {Winner, "NONE"}
  /\ UNCHANGED alive

Next ==
  \/ \E p \in Players : Executed(p) \/ Attacked(p)
  \/ NewDay
  \/ Stop

Spec == Init /\ [][Next]_villageVars
=============================================================================
