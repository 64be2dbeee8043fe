-------------------------------- MODULE Game --------------------------------
(***************************************************************************)
(* One table of the game server (repos/aiwolf-nlp-server/logic): the loop  *)
(* of Game.Start with its day and night phases, the requests it sends to   *)
(* the seats, votes, guard, executions, attacks, and the decision to stop. *)
(*                                                                         *)
(* The code keys StatusMap by the VALUE of model.Agent, a struct that holds*)
(* the connection and the HasError flag.  The model keeps that: a map key  *)
(* is AgentOf(s), the seat together with its present connection and error  *)
(* flag, so a lookup made after a disconnection uses another key than the  *)
(* entry made when the game was created.                                   *)
(*                                                                         *)
(* A request is one step.  Its outcome is any outcome SendPacket and       *)
(* WaitTakeover can produce; what is said in a talk is left out.           *)
(***************************************************************************)
EXTENDS Integers, Sequences, FiniteSets

CONSTANTS
  Seats,              \* g.agents, numbered by Agent.Idx
  RoleOf,             \* Agent.Role of each seat
  HumanSeats,         \* seats takeoverEligible accepts
  MaxConn,            \* bound: takeovers of one seat
  MaxErrors,          \* int(float64(len(g.agents)) * max_continue_error_ratio)
  MaxDay,             \* game.max_day, -1 for no limit
  DayPhases,          \* logic.day_phases
  NightPhases,        \* logic.night_phases
  VoteMaxCount,       \* vote.max_count
  AttackVoteMaxCount, \* attack_vote.max_count
  AllowSelfVote,      \* vote.allow_self_vote
  AllowSelfAttack,    \* attack_vote.allow_self_vote
  AllowNoTarget       \* attack_vote.allow_no_target

Roles == {"WEREWOLF", "POSSESSED", "SEER", "BODYGUARD", "VILLAGER", "MEDIUM"}
Actions == {"talk", "whisper", "execution", "divine", "guard", "attack"}
NoDay == -1    \* only_day / except_day not given
Phases == [actions : Seq(Actions), only : Nat \cup {NoDay}, except : Nat \cup {NoDay}]

ASSUME SeatsAssumption == Seats \subseteq Nat \ {0} /\ IsFiniteSet(Seats)
ASSUME RoleAssumption == RoleOf \in [Seats -> Roles]
ASSUME HumanAssumption == HumanSeats \subseteq Seats
ASSUME BoundAssumption == MaxConn \in Nat /\ MaxErrors \in Nat /\ MaxDay \in Nat \cup {-1}
ASSUME PhaseAssumption == DayPhases \in Seq(Phases) /\ NightPhases \in Seq(Phases)
ASSUME VoteAssumption ==
  /\ VoteMaxCount \in Nat /\ AttackVoteMaxCount \in Nat
  /\ AllowSelfVote \in BOOLEAN /\ AllowSelfAttack \in BOOLEAN /\ AllowNoTarget \in BOOLEAN

VARIABLES
  pc,         \* where the goroutine running Start is
  isDaytime,  \* g.isDaytime: which of progressDay and progressNight runs
  day,        \* g.currentDay
  phase,      \* index of the current phase in its section
  act,        \* index of the current action in that phase
  ident,      \* Agent.Connection (counted by takeovers) and Agent.HasError
  status,     \* gameStatuses[currentDay].StatusMap
  yesterday,  \* gameStatuses[currentDay-1].StatusMap
  executed,   \* ExecutedAgent of the day (and the MediumResult made with it)
  attacked,   \* AttackedAgent of the day
  divined,    \* DivineResult of the day
  guard,      \* Guard of the day
  winSide,    \* g.winSide
  todo,       \* collectVotes: seats of its agents list not asked yet
  tally,      \* votes for each agent value in this round
  round       \* rounds of voting held in this action

control == <<pc, isDaytime, day, phase, act>>
results == <<executed, attacked, divined, guard>>
ballot  == <<todo, tally, round>>
vars == <<control, ident, status, yesterday, results, winSide, ballot>>
-----------------------------------------------------------------------------
(* Agent values and the maps keyed by them.                                *)

Ident == [conn : 0..MaxConn, err : BOOLEAN]
Agent == [seat : Seats, conn : 0..MaxConn, err : BOOLEAN]

Value(i, s) == [seat |-> s, conn |-> i[s].conn, err |-> i[s].err]
AgentOf(s) == Value(ident, s)

\* The value a seat had when NewInitializeGameStatus made its entry.
Registered(s) == [seat |-> s, conn |-> 0, err |-> FALSE]
RegisteredAgents == {Registered(s) : s \in Seats}

IsAlive(a) == a \in DOMAIN status /\ status[a] = "ALIVE"

AliveAgents == {s \in Seats : IsAlive(AgentOf(s))}
AliveWerewolves == {s \in AliveAgents : RoleOf[s] = "WEREWOLF"}

\* m[a] = v on a Go map: a missing key is added.
Put(m, a, v) == [b \in DOMAIN m \cup {a} |-> IF b = a THEN v ELSE m[b]]

AliveIn(m) == {a \in DOMAIN m : m[a] = "ALIVE"}
Humans(m) == Cardinality({a \in AliveIn(m) : RoleOf[a.seat] # "WEREWOLF"})
Werewolves(m) == Cardinality({a \in AliveIn(m) : RoleOf[a.seat] = "WEREWOLF"})

CalcWinSideTeam(m) ==
  IF Humans(m) <= Werewolves(m) THEN "WEREWOLF"
  ELSE IF Werewolves(m) = 0 THEN "VILLAGER"
  ELSE "NONE"
-----------------------------------------------------------------------------
(* Requests.                                                               *)

NoTarget == 0   \* an error, a timeout, or a text that names no agent

\* SendPacket: an errored seat is refused; otherwise the seat answers with one
\* of the texts in `answers`, is too late but still gives its NAME, or is lost.
SendPacket(i, answers) ==
  IF i.err THEN {[id |-> i, text |-> NoTarget]}
  ELSE {[id |-> i, text |-> t] : t \in answers \cup {NoTarget}}
       \cup {[id |-> [i EXCEPT !.err = TRUE], text |-> NoTarget]}

\* WaitTakeover succeeded: the seat has a new connection and no error.
\* INITIALIZE is sent to it, then the original request again.
TakenOverOnSameConn(i, answers) ==   \* variant: the old Connection is kept
  SendPacket([i EXCEPT !.err = FALSE], answers)

TakenOver(i, answers) ==
  LET fresh == [conn |-> i.conn + 1, err |-> FALSE]
  IN  IF i.conn < MaxConn THEN SendPacket(fresh, answers) ELSE {}

RequestToAgent(s, answers) ==
  LET once == SendPacket(ident[s], answers)
  IN  once \cup IF s \in HumanSeats
                THEN UNION {TakenOver(o.id, answers) : o \in {q \in once : q.id.err}}
                ELSE {}

\* Each seat of S is sent a request whose answer the table does not keep.
RequestEach(S) ==
  ident' \in {f \in [Seats -> Ident] :
                \A s \in Seats : IF s \in S
                                 THEN f[s] \in {o.id : o \in RequestToAgent(s, {})}
                                 ELSE f[s] = ident[s]}

\* The identities once findTargetByRequest has asked s, with outcome o.
After(s, o) == [ident EXCEPT ![s] = o.id]

IsFirst(s, S) == \A t \in S : s <= t
-----------------------------------------------------------------------------
(* Start, progressDay, progressNight and the choice of phases.             *)

Section == IF isDaytime THEN DayPhases ELSE NightPhases
AfterSection == IF isDaytime THEN "night" ELSE "nextday"

Applies(p) == (p.only = NoDay \/ p.only = day) /\ p.except # day

Init ==
  /\ pc = "start" /\ isDaytime = TRUE /\ day = 0 /\ phase = 1 /\ act = 1
  /\ ident = [s \in Seats |-> [conn |-> 0, err |-> FALSE]]
  /\ status = [a \in RegisteredAgents |-> "ALIVE"]
  /\ yesterday = status
  /\ executed = {} /\ attacked = {} /\ divined = {} /\ guard = {}
  /\ winSide = "NONE"
  /\ todo = {} /\ tally = <<>> /\ round = 0

Initialize ==
  /\ pc = "start"
  /\ RequestEach(Seats)
  /\ pc' = "day"
  /\ UNCHANGED <<isDaytime, day, phase, act, status, yesterday, results, winSide, ballot>>

\* DAILY_INITIALIZE or DAILY_FINISH to everyone, then the first phase.
ProgressSection(from, light) ==
  /\ pc = from
  /\ isDaytime' = light
  /\ RequestEach(Seats)
  /\ pc' = "phase" /\ phase' = 1
  /\ UNCHANGED <<day, act, status, yesterday, results, winSide, ballot>>

ProgressDay == ProgressSection("day", TRUE)
ProgressNight == ProgressSection("night", FALSE)

NextPhase ==
  /\ pc = "phase"
  /\ \/ /\ phase > Len(Section)
        /\ pc' = AfterSection
        /\ UNCHANGED <<phase, act>>
     \/ /\ phase <= Len(Section)
        /\ ~Applies(Section[phase])
        /\ phase' = phase + 1
        /\ UNCHANGED <<pc, act>>
     \/ /\ phase <= Len(Section)
        /\ Applies(Section[phase])
        /\ pc' = "action" /\ act' = 1
        /\ UNCHANGED phase
  /\ UNCHANGED <<isDaytime, day, ident, status, yesterday, results, winSide, ballot>>

ErrorAgents == {s \in Seats : ident[s].err}
TooManyErrors == Cardinality(ErrorAgents) >= MaxErrors

\* shouldFinish on the status map m: where the loop goes if it says so, and
\* where otherwise.  winSide is not touched when the errors decide.
ShouldFinishByDawn(m, yes, no) ==   \* variant: a stale map
  IF TooManyErrors THEN pc' = yes /\ UNCHANGED winSide
  ELSE /\ winSide' = CalcWinSideTeam(yesterday)
       /\ pc' = IF CalcWinSideTeam(yesterday) # "NONE" THEN yes ELSE no

ShouldFinish(m, yes, no) ==
  IF TooManyErrors THEN pc' = yes /\ UNCHANGED winSide
  ELSE /\ winSide' = CalcWinSideTeam(m)
       /\ pc' = IF CalcWinSideTeam(m) # "NONE" THEN yes ELSE no

EndPhaseUnchecked ==   \* variant: shouldFinish not asked between phases
  /\ pc = "action"
  /\ act > Len(Section[phase].actions)
  /\ pc' = "phase" /\ phase' = phase + 1
  /\ UNCHANGED <<isDaytime, day, act, ident, status, yesterday, results, winSide, ballot>>

EndPhase ==
  /\ pc = "action"
  /\ act > Len(Section[phase].actions)
  /\ ShouldFinish(status, AfterSection, "phase")
  /\ phase' = phase + 1
  /\ UNCHANGED <<isDaytime, day, act, ident, status, yesterday, results, ballot>>

ForgetExecution ==   \* variant: the attack result is not reset
  executed' = {} /\ divined' = {} /\ guard' = {} /\ UNCHANGED attacked

ForgetResults == executed' = {} /\ attacked' = {} /\ divined' = {} /\ guard' = {}

NextDay ==
  /\ pc = "nextday"
  /\ day' = day + 1
  /\ yesterday' = status
  /\ ForgetResults
  /\ \/ /\ MaxDay >= 0 /\ day + 1 >= MaxDay + 1
        /\ pc' = "finish"
        /\ UNCHANGED winSide
     \/ /\ ~(MaxDay >= 0 /\ day + 1 >= MaxDay + 1)
        /\ ShouldFinish(status, "finish", "day")
  /\ UNCHANGED <<isDaytime, phase, act, ident, status, ballot>>

\* FINISH to everyone, then closeAllAgents and isFinished.
Finish ==
  /\ pc = "finish"
  /\ RequestEach(Seats)
  /\ pc' = "done"
  /\ UNCHANGED <<isDaytime, day, phase, act, status, yesterday, results, winSide, ballot>>

Done == pc = "done" /\ UNCHANGED vars
-----------------------------------------------------------------------------
(* executePhase: the actions of a phase.                                   *)

Current(a) ==
  /\ pc = "action"
  /\ act <= Len(Section[phase].actions)
  /\ Section[phase].actions[act] = a

EndAction == pc' = "action" /\ act' = act + 1 /\ UNCHANGED <<isDaytime, day, phase>>

\* conductCommunication.  A participant is asked in turn until one request
\* fails: from then on its value is in none of the session's maps.
Communicate(a, S) ==
  /\ Current(a)
  /\ IF Cardinality(S) < 2 THEN UNCHANGED ident ELSE RequestEach(S)
  /\ EndAction
  /\ UNCHANGED <<status, yesterday, results, winSide, ballot>>

DoTalk == Communicate("talk", AliveAgents)
DoWhisper == Communicate("whisper", AliveWerewolves)

WithRole(r) == {s \in AliveAgents : RoleOf[s] = r}

\* conductDivination and conductGuard: seat s is asked, and the one it names is
\* kept if it is alive and is not s.  The values kept are those after the
\* request: the asker's may have changed while it was answered.
Choice(s, o) ==
  LET v(t) == Value(After(s, o), t)
  IN  IF o.text # NoTarget /\ o.text # s /\ IsAlive(v(o.text))
      THEN {[agent |-> v(s), target |-> v(o.text)]}
      ELSE {}

DoDivine ==
  /\ Current("divine")
  /\ \/ WithRole("SEER") = {} /\ UNCHANGED <<ident, divined>>
     \/ \E s \in WithRole("SEER") :
          /\ IsFirst(s, WithRole("SEER"))
          /\ \E o \in RequestToAgent(s, Seats) :
               /\ ident' = After(s, o)
               /\ divined' = IF Choice(s, o) = {} THEN divined ELSE Choice(s, o)
  /\ EndAction
  /\ UNCHANGED <<status, yesterday, executed, attacked, guard, winSide, ballot>>

DoGuard ==
  /\ Current("guard")
  /\ \/ WithRole("BODYGUARD") = {} /\ UNCHANGED <<ident, guard>>
     \/ \E s \in WithRole("BODYGUARD") :
          /\ IsFirst(s, WithRole("BODYGUARD"))
          /\ \E o \in RequestToAgent(s, Seats) :
               /\ ident' = After(s, o)
               /\ guard' = IF Choice(s, o) = {} THEN guard ELSE Choice(s, o)
  /\ EndAction
  /\ UNCHANGED <<status, yesterday, executed, attacked, divined, winSide, ballot>>
-----------------------------------------------------------------------------
(* doExecution and doAttack: rounds of votes, then at most one death.      *)

Voting(a) == pc = "voting" /\ Section[phase].actions[act] = a
Voters == IF Voting("execution") THEN AliveAgents ELSE AliveWerewolves
MaxCount == IF Voting("execution") THEN VoteMaxCount ELSE AttackVoteMaxCount
AllowSelf == IF Voting("execution") THEN AllowSelfVote ELSE AllowSelfAttack

MostVoted ==   \* variant: werewolves count as attack targets
  {a \in DOMAIN tally : \A b \in DOMAIN tally : tally[b] <= tally[a]}

\* getMaxCountCandidates over the votes that count.
Candidates ==
  LET counted == {a \in DOMAIN tally : Voting("attack") => RoleOf[a.seat] # "WEREWOLF"}
  IN  {a \in counted : \A b \in counted : tally[b] <= tally[a]}

Decided == Cardinality(Candidates) = 1 \/ round >= MaxCount

BeginVoting ==
  /\ Current("execution") \/ (Current("attack") /\ AliveWerewolves # {})
  /\ pc' = "voting"
  /\ todo' = {} /\ tally' = <<>> /\ round' = 0
  /\ UNCHANGED <<isDaytime, day, phase, act, ident, status, yesterday, results, winSide>>

NoWerewolf ==
  /\ Current("attack") /\ AliveWerewolves = {}
  /\ EndAction
  /\ UNCHANGED <<ident, status, yesterday, results, winSide, ballot>>

OpenRound ==
  /\ pc = "voting" /\ todo = {} /\ ~Decided
  /\ todo' = Voters /\ tally' = <<>> /\ round' = round + 1
  /\ UNCHANGED <<control, ident, status, yesterday, results, winSide>>

CountsDeadTargets(s, o) ==   \* variant: no isAlive(target)
  o.text # NoTarget /\ (AllowSelf \/ o.text # s)

CountsVote(s, o) ==
  o.text # NoTarget /\ IsAlive(Value(After(s, o), o.text)) /\ (AllowSelf \/ o.text # s)

LeftUntilNamed(s, o) ==   \* variant: a seat that names nobody is asked again
  IF o.text = NoTarget THEN todo ELSE todo \ {s}

Left(s, o) == todo \ {s}

VotesFor(a) == IF a \in DOMAIN tally THEN tally[a] ELSE 0

\* One turn of the loop of collectVotes.
CollectVote ==
  /\ pc = "voting"
  /\ \E s \in todo :
       /\ IsFirst(s, todo)
       /\ \E o \in RequestToAgent(s, Seats) :
            /\ ident' = After(s, o)
            /\ todo' = Left(s, o)
            /\ tally' = IF CountsVote(s, o)
                        THEN LET target == Value(After(s, o), o.text)
                             IN  Put(tally, target, VotesFor(target) + 1)
                        ELSE tally
  /\ UNCHANGED <<control, status, yesterday, results, winSide, round>>

EndVoting ==
  /\ EndAction
  /\ todo' = {} /\ tally' = <<>> /\ round' = 0
  /\ UNCHANGED <<ident, yesterday, divined, guard, winSide>>

\* A single candidate, or one picked at random once the rounds are used up.
Execute ==
  /\ Voting("execution") /\ todo = {} /\ Decided
  /\ \/ Candidates = {} /\ UNCHANGED <<status, executed>>
     \/ \E a \in Candidates :
          status' = Put(status, a, "DEAD") /\ executed' = {a}
  /\ EndVoting
  /\ UNCHANGED attacked

GuardsItself(a) ==   \* variant: compares the bodyguard, not its target
  \E g \in guard : g.agent = a /\ IsAlive(g.agent)

IsGuarded(a) == \E g \in guard : g.target = a /\ IsAlive(g.agent)

Attack ==
  /\ Voting("attack") /\ todo = {} /\ Decided
  /\ \/ /\ Cardinality(Candidates) # 1
        /\ AllowNoTarget \/ Candidates = {}
        /\ UNCHANGED <<status, attacked>>
     \/ /\ Cardinality(Candidates) = 1 \/ ~AllowNoTarget
        /\ \E a \in Candidates :
             IF IsGuarded(a) THEN UNCHANGED <<status, attacked>>
             ELSE status' = Put(status, a, "DEAD") /\ attacked' = {a}
  /\ EndVoting
  /\ UNCHANGED executed
-----------------------------------------------------------------------------
Step ==
  \/ Initialize \/ ProgressDay \/ ProgressNight \/ NextPhase \/ EndPhase
  \/ NextDay \/ Finish
  \/ DoTalk \/ DoWhisper \/ DoDivine \/ DoGuard
  \/ BeginVoting \/ NoWerewolf \/ OpenRound \/ CollectVote \/ Execute \/ Attack

Next == Step \/ Done

Spec == Init /\ [][Next]_vars

\* One goroutine runs Start and every wait in it has a time limit.
FairSpec == Spec /\ WF_vars(Step)
-----------------------------------------------------------------------------
(* Properties.                                                             *)

\* What NoPlayAfterDecision and WinnerMatchesVillage ask of the configuration,
\* and what configs/server.yml has: the village is undecided when it is
\* dealt, nobody dies by day, and an execution or an attack is the last action of
\* its phase, so that shouldFinish is asked between a death and the next request.
Lethal == {"execution", "attack"}

DealtOpen == CalcWinSideTeam([a \in RegisteredAgents |-> "ALIVE"]) = "NONE"

PeacefulDay ==
  \A p \in 1..Len(DayPhases) :
    \A i \in 1..Len(DayPhases[p].actions) : DayPhases[p].actions[i] \notin Lethal

DeathEndsPhase ==
  \A p \in 1..Len(NightPhases) :
    \A i \in 1..Len(NightPhases[p].actions) :
      NightPhases[p].actions[i] \in Lethal => i = Len(NightPhases[p].actions)

\* What DeathsAnnounced and ImplementsVillage ask besides: the night names one
\* execution and one attack at most, the execution first.  ExecutedAgent and
\* AttackedAgent hold one player each, so a second one would overwrite the first.
NightSlots ==
  UNION {{p} \X (1..Len(NightPhases[p].actions)) : p \in 1..Len(NightPhases)}
NightAction(n) == NightPhases[n[1]].actions[n[2]]

OneOfEach ==
  \A m, n \in NightSlots :
    NightAction(m) \in Lethal /\ NightAction(m) = NightAction(n) => m = n

ExecutionFirst ==
  \A m, n \in NightSlots :
    NightAction(m) = "execution" /\ NightAction(n) = "attack" => m[1] < n[1]

\* A village as configs/server.yml has it.
VillageTable == DealtOpen /\ PeacefulDay /\ DeathEndsPhase /\ OneOfEach /\ ExecutionFirst

\* The variables hold values of their types.  In particular the status map keeps
\* one entry per player, the one made when the game was created, and votes and
\* results name players by it: no step adds an entry under another identity.
TypeOK ==
  /\ pc \in {"start", "day", "night", "phase", "action", "voting", "nextday", "finish", "done"}
  /\ isDaytime \in BOOLEAN /\ day \in Nat /\ phase \in Nat \ {0} /\ act \in Nat \ {0}
  /\ ident \in [Seats -> Ident]
  /\ status \in [RegisteredAgents -> {"ALIVE", "DEAD"}]
  /\ yesterday \in [RegisteredAgents -> {"ALIVE", "DEAD"}]
  /\ executed \subseteq RegisteredAgents /\ attacked \subseteq RegisteredAgents
  /\ divined \subseteq [agent : Agent, target : Agent]
  /\ guard \subseteq [agent : Agent, target : Agent]
  /\ winSide \in {"NONE", "VILLAGER", "WEREWOLF"}
  /\ todo \subseteq Seats
  /\ DOMAIN tally \subseteq RegisteredAgents /\ \A a \in DOMAIN tally : tally[a] \in Nat
  /\ round \in Nat

Dead(m) == {a \in DOMAIN m : m[a] = "DEAD"}

\* Whoever is dead today and was not at dawn is the ExecutedAgent or the
\* AttackedAgent that Info announces tomorrow, and these are two players who
\* were alive at dawn: nobody dies unannounced, twice, or in both ways.
DeathsAnnounced ==
  /\ Dead(status) = Dead(yesterday) \cup executed \cup attacked
  /\ executed \cap attacked = {}
  /\ (executed \cup attacked) \cap Dead(yesterday) = {}

\* While a request other than FINISH may still be made the survivors have not
\* decided the game, although progressNight runs after an early return of
\* progressDay and the error count can hide the decision from shouldFinish.
NoPlayAfterDecision ==
  \/ pc \in {"start", "day", "night", "phase", "voting"}
  \/ pc = "action" /\ act <= Len(Section[phase].actions)
  => CalcWinSideTeam(status) = "NONE"

\* The side recorded in winSide, at any time, is the one the status map gives:
\* it never outlives a death that would change it.
WinnerMatchesVillage ==
  winSide # "NONE" => winSide = CalcWinSideTeam(status)

\* A seat guarded by a bodyguard whose own seat was not taken over while it
\* answered is not attacked while that bodyguard lives, whichever of the two
\* seats lost its connection in between.
GuardedSurvive ==
  \A g \in guard :
    g.target \in attacked => g.agent.conn > 0 \/ status[Registered(g.agent.seat)] = "DEAD"

InPlay(s) == IsAlive(AgentOf(s))

\* A seat that is out of play, dead or under another identity than the one it
\* registered with, never comes back into play.
NoRevival == [][\A s \in Seats : InPlay(s)' => InPlay(s)]_vars

\* With a day limit the game ends, whatever the seats answer or fail to.
Termination == <>(pc = "done")

\* The table keeps the promise of the abstract village.
V == INSTANCE Village WITH
       Players <- Seats,
       Wolves  <- {s \in Seats : RoleOf[s] = "WEREWOLF"},
       alive   <- {s \in Seats : status[Registered(s)] = "ALIVE"},
       tonight <- (IF executed # {} THEN {"execution"} ELSE {})
                  \cup (IF attacked # {} THEN {"attack"} ELSE {}),
       verdict <- IF pc \in {"finish", "done"} THEN winSide ELSE "OPEN"

ImplementsVillage == V!Spec

\* configs/server.yml and requestToAgent say that the AI that takes over a
\* seat carries on with it: a living seat with a working takeover connection
\* is still in play.
TakenOverSeatPlaysOn ==
  \A s \in Seats :
    ident[s].conn > 0 /\ ~ident[s].err /\ status[Registered(s)] = "ALIVE" => InPlay(s)
=============================================================================
