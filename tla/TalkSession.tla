---------------------------- MODULE TalkSession ----------------------------
(***************************************************************************)
(* One talk or whisper phase of the game server (logic/communication*.go,  *)
(* util/game_util.go), turn by turn or as a group chat, with its counts of *)
(* utterances, skips and characters.                                       *)
(*                                                                         *)
(* The three maps are keyed by the value of the Agent struct, which        *)
(* changes when the seat errors or is taken over: a broken seat then reads *)
(* 0 remaining utterances and skips and no length at all.  An utterance is *)
(* its length before a mention and its length after one; what is said of   *)
(* spaces alone is left out.                                               *)
(***************************************************************************)
EXTENDS Integers, Sequences, FiniteSets, SequencesExt, Functions

CONSTANTS
  Seats,          \* the agents of the phase
  PerAgent,       \* max_count.per_agent
  PerDay,         \* max_count.per_day
  MaxSkip,        \* max_skip
  LengthPerAgent, \* max_length.per_agent, or None
  BaseLength,     \* max_length.base_length, or None
  MentionLength,  \* max_length.mention_length
  PerTalk,        \* max_length.per_talk, or None
  Countings,      \* how lengths may be counted: "nonspace", "chars" or "words"
  Speech,         \* bound: what clients may say, besides the special texts
  Sends,          \* bound: messages of each client in a group chat
  Breaks,         \* bound: seats that error or are taken over
  ChanCap,        \* capacity of talkChannel: 10 for each agent
  None

ASSUME CountAssumption ==
  /\ {PerAgent, MaxSkip, MentionLength, Sends, Breaks, ChanCap} \subseteq Nat
  /\ PerDay \in Nat \ {0}
ASSUME LengthAssumption ==
  /\ None \notin Int
  /\ Speech \subseteq [kind : {"say"}, before : Nat, after : Nat \cup {None}]
  /\ {LengthPerAgent, BaseLength, PerTalk} \subseteq Nat \cup {None}
ASSUME SeatAssumption == IsFiniteSet(Seats) /\ Cardinality(Seats) >= 2
ASSUME CountingAssumption == Countings \subseteq {"nonspace", "chars", "words"}

VARIABLES
  pc,        \* "next" and "asked" turn by turn, "chat", "done", "panic"
  counting,  \* count_in_word and count_spaces
  order,     \* turn by turn: the shuffled seats
  at,        \* turn by turn: round and place of the next turn
  active,    \* turn by turn: whether this round had more than Over
  count, skip, length,  \* remainCountMap, remainSkipMap, remainLengthMap
  err,       \* HasError of each seat
  breaks,    \* bound: seats that may still break
  sends,     \* bound: messages of each client still to be read
  listening, \* group chat: the seats whose listener goroutine runs
  talkChan,  \* group chat: talkChannel
  consuming, \* group chat: the consumer goroutine runs
  expired,   \* group chat: ctx is done
  said,      \* history: talks of each seat other than Over
  excess,    \* history: characters of each seat beyond the free lengths
  tooLong,   \* history: a talk that per_talk should have trimmed was recorded
  outrun,    \* history: seats with a talk untrimmed since no length was left
  ended      \* history: seats whose Over ended their talking

turnVars == <<order, at, active>>
chatVars == <<sends, listening, talkChan, consuming, expired>>
seatVars == <<err, breaks>>
quotaVars == <<count, skip, length>>
history == <<said, excess, tooLong, outrun, ended>>
vars == <<pc, counting, turnVars, quotaVars, seatVars, chatVars, history>>

\* Texts: the special ones and plain speech.
Over == [kind |-> "Over"]
Skip == [kind |-> "Skip"]
ForceSkip == [kind |-> "ForceSkip"]
Texts == Speech \cup {Over, Skip, ForceSkip}

Init ==
  /\ pc \in {"next", "chat"}
  /\ counting \in Countings
  /\ order \in {s \in [1..Cardinality(Seats) -> Seats] : IsInjective(s)}
  /\ pc = "chat" => order = SetToSeq(Seats)
  /\ at = <<1, 1>> /\ active = FALSE
  /\ count = [a \in Seats |-> PerAgent]
  /\ skip = [a \in Seats |-> MaxSkip]
  /\ length = [a \in Seats |-> LengthPerAgent]
  /\ err = [a \in Seats |-> FALSE] /\ breaks = Breaks
  /\ sends = [a \in Seats |-> Sends]
  /\ listening = IF pc = "chat" THEN Seats ELSE {}
  /\ talkChan = <<>> /\ consuming = (pc = "chat") /\ expired = FALSE
  /\ tooLong = FALSE /\ outrun = {} /\ ended = {}
  /\ said = [a \in Seats |-> 0] /\ excess = [a \in Seats |-> 0]
-----------------------------------------------------------------------------
(* TrimLength and processText.                                             *)

Panic == -1
Above(n, l) == IF n > l THEN n - l ELSE 0
OrZero(l) == IF l = None THEN 0 ELSE l

\* Trimming by non-space characters looks for the l-th one and so does not trim
\* at 0 or below; the other two slice, and panic below 0.
Whole(n, l) == counting = "nonspace" /\ l <= 0 /\ n > l
Trim(n, l) ==
  IF n <= l \/ Whole(n, l) THEN n
  ELSE IF l < 0 THEN Panic ELSE l

\* What per_talk leaves of a text with c characters before its mention and m
\* after it; r is what remains of the length, whole that it had nothing to trim by.
Cut(c, m, r, whole) ==
  LET cut == [common |-> c, rest |-> m, left |-> r, whole |-> whole] IN
  IF PerTalk = None \/ c + OrZero(m) <= PerTalk THEN cut
  ELSE IF c > PerTalk THEN [cut EXCEPT !.common = Trim(c, PerTalk), !.rest = None]
  ELSE [cut EXCEPT !.rest = Trim(OrZero(m), PerTalk - c)]

FreeMention(m) == 0   \* variant: what follows a mention costs nothing

MentionCost(m) == Above(m, MentionLength)

ProcessText(t, remain) ==
  LET r == OrZero(remain)
      b == OrZero(BaseLength)
      Charge(cost) == IF remain = None THEN 0 ELSE cost
      r1 == r - Charge(Above(t.before, b))
      c == Trim(t.before, b + r)
      m == Trim(OrZero(t.after), MentionLength + r1)
      r2 == r1 - Charge(MentionCost(m))
      limited == LengthPerAgent # None \/ BaseLength # None
  IN  IF ~limited THEN Cut(0, None, r, FALSE)
      ELSE IF c = Panic THEN [common |-> Panic, rest |-> None, left |-> r, whole |-> FALSE]
      ELSE IF t.after = None THEN Cut(c, None, r1, Whole(t.before, b + r))
      ELSE IF m = Panic THEN [common |-> c, rest |-> Panic, left |-> r1, whole |-> FALSE]
      ELSE Cut(c, m, r2, \/ Whole(t.before, b + r)
                         \/ Whole(t.after, MentionLength + r1))

Panics(s) == s.common = Panic \/ s.rest = Panic
Empty(s) == s.common = 0 /\ s.rest = None
-----------------------------------------------------------------------------
(* buildTalk, with processSkipOver, and appendTalk.                        *)

CanTalkUnspent(a) ==   \* variant: only a length of exactly 0 ends the talking
  count[a] > 0 /\ (length[a] = None \/ length[a] # 0)

CanTalk(a) == count[a] > 0 /\ (length[a] = None \/ length[a] > 0)

\* The seat's Agent value changes: the maps know nothing of the new one.
Forget(a) ==
  /\ count' = [count EXCEPT ![a] = 0]
  /\ skip' = [skip EXCEPT ![a] = 0]
  /\ length' = [length EXCEPT ![a] = None]

ReplacedLate(a, t) ==   \* variant: counts down past the last skip
  IF t = Skip /\ skip[a] < 0 THEN Over
  ELSE IF t = ForceSkip THEN Skip ELSE t

Replaced(a, t) ==
  IF t = Skip /\ skip[a] <= 0 THEN Over
  ELSE IF t = ForceSkip THEN Skip ELSE t

\* A skip forced by an error costs none.
SkipsLeft(a, t) ==
  IF Replaced(a, t).kind = "say" THEN MaxSkip
  ELSE IF t = Skip /\ Replaced(a, t) = Skip THEN skip[a] - 1 ELSE skip[a]

CountAfterFree(a, t) ==   \* variant: a forced skip costs no utterance
  IF Replaced(a, t) = Over THEN 0
  ELSE IF t = ForceSkip THEN count[a] ELSE count[a] - 1

CountAfter(a, t) == IF Replaced(a, t) = Over THEN 0 ELSE count[a] - 1

\* Empty speech is recorded as Over, but the seat goes on.
IsOver(a, t) ==
  \/ Replaced(a, t) = Over
  \/ Replaced(a, t).kind = "say" /\ Empty(ProcessText(t, length[a]))

\* A text longer than per_talk that has not been trimmed for having no room at
\* all: per_talk of 0, or as many characters before its mention.
TooLong(s) ==
  /\ PerTalk # None /\ s.common + OrZero(s.rest) > PerTalk
  /\ counting # "nonspace" \/ (PerTalk > 0 /\ s.common # PerTalk)

Beyond(s) ==
  Above(s.common, OrZero(BaseLength)) + Above(OrZero(s.rest), MentionLength)

Record(a, t) ==
  /\ count' = [count EXCEPT ![a] = CountAfter(a, t)]
  /\ skip' = [skip EXCEPT ![a] = SkipsLeft(a, t)]
  /\ ended' = IF Replaced(a, t) = Over THEN ended \cup {a} ELSE ended
  /\ said' = [said EXCEPT ![a] = @ + (IF IsOver(a, t) THEN 0 ELSE 1)]
  /\ IF t.kind # "say" THEN UNCHANGED <<length, excess, tooLong, outrun>>
     ELSE LET s == ProcessText(t, length[a]) IN
          /\ length' = [length EXCEPT ![a] = IF @ = None THEN None ELSE s.left]
          /\ excess' = [excess EXCEPT ![a] = @ + (IF s.whole THEN 0 ELSE Beyond(s))]
          /\ tooLong' = (tooLong \/ TooLong(s))
          /\ outrun' = IF s.whole THEN outrun \cup {a} ELSE outrun

\* A negative slice bound: nothing recovers, the server ends.
Sound(a, t) == t.kind = "say" => ~Panics(ProcessText(t, length[a]))
Crash ==
  /\ pc' = "panic"
  /\ UNCHANGED <<counting, turnVars, quotaVars, seatVars, chatVars, history>>

\* A packet cannot be sent, or the seat's listener meets an error, or (not in a
\* group chat) the seat that is asked is taken over.
Break(a, e) ==
  /\ breaks > 0 /\ pc \in {"next", "asked", "chat"}
  /\ ~err[a] /\ (e \/ (pc = "asked" /\ order[at[2]] = a))
  /\ breaks' = breaks - 1
  /\ err' = [err EXCEPT ![a] = e]
  /\ Forget(a)
  /\ UNCHANGED <<pc, counting, turnVars, chatVars, history>>
-----------------------------------------------------------------------------
(* runTurnBased.                                                           *)

Speaker == order[at[2]]

NextTurn == IF at[2] < Len(order) THEN <<at[1], at[2] + 1>> ELSE <<at[1] + 1, 1>>
EndsRound == at[2] = Len(order)
EndsTalk(spoke) == EndsRound /\ (~spoke \/ at[1] = PerDay)

Advance(spoke) ==
  /\ IF EndsTalk(spoke) THEN pc' = "done" /\ UNCHANGED at ELSE pc' = "next" /\ at' = NextTurn
  /\ active' = (spoke /\ ~EndsRound)
  /\ UNCHANGED order

PassBy ==
  /\ pc = "next" /\ ~CanTalk(Speaker)
  /\ Advance(active)
  /\ UNCHANGED <<counting, quotaVars, seatVars, chatVars, history>>

Ask ==
  /\ pc = "next" /\ CanTalk(Speaker)
  /\ pc' = "asked"
  /\ UNCHANGED <<counting, turnVars, quotaVars, seatVars, chatVars, history>>

\* getTalkWhisperText: a forced skip stands for an error, be it a time-out of a
\* seat that is well; one the client sends counts as a skip.
Answers(a) == IF err[a] THEN {ForceSkip} ELSE Texts

Turn ==
  /\ pc = "asked"
  /\ \E t \in Answers(Speaker) :
       \/ /\ Sound(Speaker, t)
          /\ Record(Speaker, t)
          /\ Advance(active \/ ~IsOver(Speaker, t))
          /\ UNCHANGED <<counting, seatVars, chatVars>>
       \/ ~Sound(Speaker, t) /\ Crash
-----------------------------------------------------------------------------
(* runFreeform.                                                            *)

Stays(t) == t # Over

\* The listener reads what its client sent next, at any time since the last
\* chat, and hands it on; a full channel blocks it.
Listen(a) ==
  /\ pc = "chat" /\ a \in listening
  /\ sends[a] > 0 /\ Len(talkChan) < ChanCap
  /\ sends' = [sends EXCEPT ![a] = @ - 1]
  /\ \E t \in Texts :
       /\ talkChan' = Append(talkChan, [seat |-> a, text |-> t])
       /\ listening' = IF Stays(t) THEN listening ELSE listening \ {a}
  /\ UNCHANGED <<pc, counting, turnVars, quotaVars, seatVars, consuming, expired, history>>

\* The listener of a seat in error has met it, or will when it reads on.
Deaf(a) == err[a]

ListenerNeverEnds(a) == Deaf(a)   \* variant: no case for ctx.Done

ListenerEnds(a) == expired \/ Deaf(a)

StopListening(a) ==
  /\ pc = "chat" /\ a \in listening /\ ListenerEnds(a)
  /\ listening' = listening \ {a}
  /\ UNCHANGED <<pc, counting, turnVars, quotaVars, seatVars, sends, talkChan,
                 consuming, expired, history>>

ValidUnlessSilent(s) == TRUE   \* variant: takes whatever comes

Valid(s) == s.text = Over \/ CanTalk(s.seat)
AllDone == \A a \in Seats : count[a] <= 0

\* The consumer, under mu: records a valid talk and looks whether all are done.
Consume ==
  /\ pc = "chat" /\ consuming /\ talkChan # <<>>
  /\ LET s == Head(talkChan) IN
       IF ~Valid(s) THEN UNCHANGED <<quotaVars, history>>
       ELSE Sound(s.seat, s.text) /\ Record(s.seat, s.text)
  /\ talkChan' = Tail(talkChan)
  /\ expired' = (expired \/ AllDone')
  /\ consuming' = ~AllDone'
  /\ UNCHANGED <<pc, counting, turnVars, seatVars, sends, listening>>

ConsumeAndCrash ==
  /\ pc = "chat" /\ consuming /\ talkChan # <<>>
  /\ Valid(Head(talkChan)) /\ ~Sound(Head(talkChan).seat, Head(talkChan).text)
  /\ Crash

StopConsuming ==
  /\ pc = "chat" /\ consuming /\ expired
  /\ consuming' = FALSE
  /\ UNCHANGED <<pc, counting, turnVars, quotaVars, seatVars, sends, listening,
                 talkChan, expired, history>>

Expire ==
  /\ pc = "chat" /\ ~expired
  /\ expired' = TRUE
  /\ UNCHANGED <<pc, counting, turnVars, quotaVars, seatVars, sends, listening,
                 talkChan, consuming, history>>

\* wg.Wait; messages nobody read are thrown away.
EndChat ==
  /\ pc = "chat" /\ listening = {} /\ ~consuming
  /\ pc' = "done"
  /\ UNCHANGED <<counting, turnVars, quotaVars, seatVars, chatVars, history>>
-----------------------------------------------------------------------------
Chat ==
  \/ Consume \/ ConsumeAndCrash \/ StopConsuming \/ Expire \/ EndChat
  \/ \E a \in Seats : Listen(a) \/ StopListening(a)

Next ==
  \/ PassBy \/ Ask \/ Turn \/ Chat
  \/ \E a \in Seats, e \in BOOLEAN : Break(a, e)

\* A turn ends because every request does (see SeatChannel); the context of a
\* group chat has a deadline, and its goroutines run.
Spec == Init /\ [][Next]_vars
FairSpec == Spec /\ WF_vars(PassBy \/ Ask \/ Turn) /\ WF_vars(Chat)
-----------------------------------------------------------------------------
(* Properties.                                                             *)

TypeOK ==
  /\ pc \in {"next", "asked", "chat", "done", "panic"}
  /\ at \in (1..PerDay) \X (1..Cardinality(Seats)) /\ active \in BOOLEAN
  /\ count \in [Seats -> -1..PerAgent]
  /\ skip \in [Seats -> 0..MaxSkip]
  /\ length \in [Seats -> Int \cup {None}]
  /\ err \in [Seats -> BOOLEAN] /\ breaks \in 0..Breaks
  /\ sends \in [Seats -> 0..Sends]
  /\ listening \subseteq Seats
  /\ Len(talkChan) <= ChanCap
  /\ consuming \in BOOLEAN /\ expired \in BOOLEAN /\ ended \subseteq Seats

\* A seat is recorded to say or skip at most max_count.per_agent times a phase,
\* whatever the mode, the breaks and the order of the goroutines
\* (communication_session.go:229-235, doc/en/config.md:48).
SaidWithinCount == \A a \in Seats : said[a] <= PerAgent

\* A seat that sent Over, or was ended for skipping too often, is not recorded
\* to say or skip anything more (doc/en/logic.md:160, :186-189).
OverIsFinal == [][\A a \in ended : said'[a] = said[a]]_vars

\* Trimming bounds what is said: beyond the free lengths of each talk no more
\* characters than the length for the day, and no talk longer than per_talk; but
\* a bound of 0 or less does not trim at all when spaces are not counted, so a
\* talk that has per_talk characters before its mention keeps all that follows,
\* and one with no length left is whole (game_util.go, doc/en/logic.md:200-219).
LengthHeld ==
  /\ ~tooLong
  /\ LengthPerAgent # None => \A a \in Seats : excess[a] <= LengthPerAgent

\* A talk kept whole because its seat's length was used up within it is that
\* seat's last: nobody outruns the length for the day twice
\* (communication_session.go:141-199).
UntrimmedIsLast ==
  [][LengthPerAgent # None => \A a \in outrun : said'[a] = said[a]]_vars

\* The phase ends, if the server survives it.
PhaseEnds == <>(pc \in {"done", "panic"})
=============================================================================
