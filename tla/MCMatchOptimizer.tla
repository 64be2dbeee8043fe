------------------------- MODULE MCMatchOptimizer -------------------------
(* Two teams, games of one seat: up to three handlers and games at once.   *)
EXTENDS MatchOptimizer

MCConns == {"a1", "a2", "b1"}
MCPair == {"a1", "b1"}
MCTeamOf == [c \in MCConns |-> IF c = "b1" THEN "b" ELSE "a"]
MCTeamOfPair == [c \in MCPair |-> MCTeamOf[c]]
MCTeams == {"a", "b"}
MCRoleNum == [villager |-> 1]
MCLoops == {TRUE, FALSE}
MCLooping == {TRUE}

\* Two matches, of one team or of two; one of one team.
MCMatch(i) == [match |-> [villager |-> {i}], weight |-> 1]
MCDrawn ==
  [b \in BOOLEAN |-> IF b THEN {<<MCMatch(0), MCMatch(0)>>}
                      ELSE {<<MCMatch(0), MCMatch(0)>>, <<MCMatch(0), MCMatch(1)>>}]
MCDrawnOnce == [b \in BOOLEAN |-> {<<MCMatch(0)>>}]
=============================================================================
