--------------------------- MODULE MCTalkSession ---------------------------
(* Two seats, one of which may break, in a phase of either kind.           *)
EXTENDS TalkSession

CONSTANTS a1, a2
MCSeats == {a1, a2}
MCCountings == {"nonspace", "chars"}
Say(b, a) == [kind |-> "say", before |-> b, after |-> a]
\* Empty, beyond the free length, a long mention, and one that overdraws.
MCSpeech == {Say(0, None), Say(2, None), Say(0, 4), Say(1, 4), Say(4, 2)}
=============================================================================
