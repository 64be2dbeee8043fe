----------------------------- MODULE GameProofs -----------------------------
(* Proofs about Game, for every village, configuration and bound.          *)
EXTENDS Game, FiniteSetTheorems, TLAPS

-----------------------------------------------------------------------------
(* What a request can do to the identity of a seat.                        *)

LEMMA SendPacketType ==
  ASSUME NEW i \in Ident, NEW answers \in SUBSET Seats, NEW o \in SendPacket(i, answers)
  PROVE  /\ o.id \in Ident /\ o.id.conn = i.conn
         /\ i.err => o.id = i
         /\ o.text \in Seats \cup {NoTarget}
<1>1. CASE o = [id |-> i, text |-> NoTarget]
  BY <1>1
<1>2. CASE \E t \in answers : o = [id |-> i, text |-> t] /\ ~i.err
  BY <1>2
<1>3. CASE o = [id |-> [i EXCEPT !.err = TRUE], text |-> NoTarget] /\ ~i.err
  <2>1. [i EXCEPT !.err = TRUE] \in Ident /\ [i EXCEPT !.err = TRUE].conn = i.conn
    BY DEF Ident
  <2>. QED
    BY <1>3, <2>1
<1>. QED
  BY <1>1, <1>2, <1>3 DEF SendPacket

\* The identities a seat may have after a request: another connection only
\* with a later number, and the error flag taken back only with it.
Later(i, j) ==
  /\ j \in Ident /\ i.conn <= j.conn
  /\ (i.err /\ j.conn = i.conn) => j.err

LEMMA TakenOverType ==
  ASSUME NEW i \in Ident, NEW answers \in SUBSET Seats, NEW o \in TakenOver(i, answers)
  PROVE  o.id \in Ident /\ o.id.conn = i.conn + 1 /\ o.text \in Seats \cup {NoTarget}
<1>. DEFINE fresh == [conn |-> i.conn + 1, err |-> FALSE]
<1>1. i.conn < MaxConn /\ o \in SendPacket(fresh, answers)
  BY DEF TakenOver
<1>2. fresh \in Ident /\ fresh.conn = i.conn + 1
  BY <1>1, BoundAssumption DEF Ident
<1>. HIDE DEF fresh
<1>. QED
  BY <1>1, <1>2, SendPacketType

LEMMA RequestType ==
  ASSUME NEW s \in Seats, ident[s] \in Ident, NEW answers \in SUBSET Seats,
         NEW o \in RequestToAgent(s, answers)
  PROVE  Later(ident[s], o.id) /\ o.text \in Seats \cup {NoTarget}
<1>. DEFINE once == SendPacket(ident[s], answers)
<1>1. CASE o \in once
  <2>1. /\ o.id \in Ident /\ o.id.conn = ident[s].conn
        /\ ident[s].err => o.id = ident[s]
        /\ o.text \in Seats \cup {NoTarget}
    BY <1>1, SendPacketType
  <2>2. ident[s].conn \in Int
    BY DEF Ident
  <2>. QED
    BY <2>1, <2>2 DEF Later
<1>2. CASE \E q \in once : o \in TakenOver(q.id, answers)
  <2>1. PICK q \in once : o \in TakenOver(q.id, answers)
    BY <1>2
  <2>2. q.id \in Ident /\ q.id.conn = ident[s].conn
    BY SendPacketType
  <2>3. o.id \in Ident /\ o.id.conn = q.id.conn + 1 /\ o.text \in Seats \cup {NoTarget}
    BY <2>1, <2>2, TakenOverType
  <2>4. ident[s].conn \in Int
    BY DEF Ident
  <2>. QED
    BY <2>2, <2>3, <2>4 DEF Later
<1>. QED
  BY <1>1, <1>2 DEF RequestToAgent

\* A request to each of some seats, and a request to one seat.
LEMMA RequestEachType ==
  ASSUME ident \in [Seats -> Ident], NEW S, RequestEach(S)
  PROVE  ident' \in [Seats -> Ident] /\ \A s \in Seats : Later(ident[s], ident'[s])
<1>1. ident' \in [Seats -> Ident]
  BY DEF RequestEach
<1>2. ASSUME NEW s \in Seats
      PROVE  Later(ident[s], ident'[s])
  <2>1. CASE s \in S
    <3>1. PICK o \in RequestToAgent(s, {}) : ident'[s] = o.id
      BY <2>1 DEF RequestEach
    <3>. QED
      BY <3>1, RequestType
  <2>2. CASE s \notin S
    BY <2>2 DEF RequestEach, Later, Ident
  <2>. QED
    BY <2>1, <2>2
<1>. QED
  BY <1>1, <1>2

LEMMA RequestOneType ==
  ASSUME ident \in [Seats -> Ident], NEW s \in Seats,
         NEW o \in RequestToAgent(s, Seats)
  PROVE  /\ After(s, o) \in [Seats -> Ident]
         /\ \A t \in Seats : Later(ident[t], After(s, o)[t])
         /\ o.text \in Seats \cup {NoTarget}
<1>1. Later(ident[s], o.id) /\ o.text \in Seats \cup {NoTarget}
  BY RequestType
<1>2. ASSUME NEW t \in Seats
      PROVE  Later(ident[t], After(s, o)[t])
  <2>1. CASE t = s
    BY <1>1, <2>1 DEF After
  <2>2. CASE t # s
    BY <2>2 DEF After, Later, Ident
  <2>. QED
    BY <2>1, <2>2
<1>. QED
  BY <1>1, <1>2 DEF After, Later
-----------------------------------------------------------------------------
(* Type correctness.                                                       *)

\* Only values with an entry of the status map collect votes or results.
LEMMA AliveIsRegistered ==
  ASSUME TypeOK, NEW a, IsAlive(a)
  PROVE  a \in RegisteredAgents
BY DEF TypeOK, IsAlive

LEMMA ValueType ==
  ASSUME NEW i \in [Seats -> Ident], NEW s \in Seats
  PROVE  Value(i, s) \in Agent
BY DEF Value, Agent, Ident

LEMMA ChoiceType ==
  ASSUME TypeOK, NEW s \in Seats, NEW o \in RequestToAgent(s, Seats)
  PROVE  Choice(s, o) \subseteq [agent : Agent, target : Agent]
<1>1. After(s, o) \in [Seats -> Ident] /\ o.text \in Seats \cup {NoTarget}
  BY RequestOneType DEF TypeOK
<1>. QED
  BY <1>1, ValueType DEF Choice

LEMMA PutType ==
  ASSUME NEW D, NEW R, NEW m \in [D -> R], NEW a \in D, NEW v \in R
  PROVE  Put(m, a, v) \in [D -> R]
BY DEF Put

LEMMA CandidatesType ==
  ASSUME TypeOK
  PROVE  Candidates \subseteq RegisteredAgents
BY DEF TypeOK, Candidates

LEMMA DeathType ==
  ASSUME TypeOK, NEW a \in Candidates
  PROVE  /\ a \in RegisteredAgents
         /\ Put(status, a, "DEAD") \in [RegisteredAgents -> {"ALIVE", "DEAD"}]
<1>1. a \in RegisteredAgents /\ status \in [RegisteredAgents -> {"ALIVE", "DEAD"}]
  BY CandidatesType DEF TypeOK
<1>. QED
  BY <1>1, PutType

LEMMA InitType == Init => TypeOK
BY BoundAssumption DEF Init, TypeOK, Ident, results, ballot

LEMMA CalcType ==
  ASSUME NEW m
  PROVE  CalcWinSideTeam(m) \in {"NONE", "VILLAGER", "WEREWOLF"}
BY DEF CalcWinSideTeam

LEMMA TypeStep == TypeOK /\ [Next]_vars => TypeOK'
<1>. SUFFICES ASSUME TypeOK, [Next]_vars
              PROVE  TypeOK'
  OBVIOUS
<1>. USE DEF results, ballot, control
<1>1. CASE Initialize
  BY <1>1, RequestEachType DEF TypeOK, Initialize
<1>0. ASSUME NEW from, NEW light \in BOOLEAN, ProgressSection(from, light)
      PROVE  TypeOK'
  BY <1>0, RequestEachType DEF TypeOK, ProgressSection
<1>2. CASE ProgressDay
  BY <1>0, <1>2 DEF ProgressDay
<1>3. CASE ProgressNight
  BY <1>0, <1>3 DEF ProgressNight
<1>4. CASE NextPhase
  BY <1>4 DEF TypeOK, NextPhase, AfterSection
<1>5. CASE EndPhase
  BY <1>5, CalcType DEF TypeOK, EndPhase, ShouldFinish, AfterSection
<1>6. CASE NextDay
  BY <1>6, CalcType DEF TypeOK, NextDay, ShouldFinish, ForgetResults
<1>7. CASE Finish
  BY <1>7, RequestEachType DEF TypeOK, Finish
<1>8. ASSUME NEW a, NEW S, Communicate(a, S)
      PROVE  TypeOK'
  BY <1>8, RequestEachType DEF TypeOK, Communicate, EndAction
<1>9. CASE DoTalk
  BY <1>8, <1>9 DEF DoTalk
<1>10. CASE DoWhisper
  BY <1>8, <1>10 DEF DoWhisper
<1>11. CASE DoDivine
  <2>1. ident' \in [Seats -> Ident] /\ divined' \subseteq [agent : Agent, target : Agent]
    <3>1. CASE UNCHANGED <<ident, divined>>
      BY <3>1 DEF TypeOK
    <3>2. CASE ~UNCHANGED <<ident, divined>>
      <4>1. PICK s \in Seats : \E o \in RequestToAgent(s, Seats) :
              /\ ident' = After(s, o)
              /\ divined' = IF Choice(s, o) = {} THEN divined ELSE Choice(s, o)
        BY <1>11, <3>2 DEF DoDivine, WithRole, AliveAgents
      <4>2. PICK o \in RequestToAgent(s, Seats) :
              /\ ident' = After(s, o)
              /\ divined' = IF Choice(s, o) = {} THEN divined ELSE Choice(s, o)
        BY <4>1
      <4>. QED
        BY <4>2, RequestOneType, ChoiceType DEF TypeOK
    <3>. QED
      BY <3>1, <3>2
  <2>. QED
    BY <1>11, <2>1 DEF TypeOK, DoDivine, EndAction
<1>12. CASE DoGuard
  <2>1. ident' \in [Seats -> Ident] /\ guard' \subseteq [agent : Agent, target : Agent]
    <3>1. CASE UNCHANGED <<ident, guard>>
      BY <3>1 DEF TypeOK
    <3>2. CASE ~UNCHANGED <<ident, guard>>
      <4>1. PICK s \in Seats : \E o \in RequestToAgent(s, Seats) :
              /\ ident' = After(s, o)
              /\ guard' = IF Choice(s, o) = {} THEN guard ELSE Choice(s, o)
        BY <1>12, <3>2 DEF DoGuard, WithRole, AliveAgents
      <4>2. PICK o \in RequestToAgent(s, Seats) :
              /\ ident' = After(s, o)
              /\ guard' = IF Choice(s, o) = {} THEN guard ELSE Choice(s, o)
        BY <4>1
      <4>. QED
        BY <4>2, RequestOneType, ChoiceType DEF TypeOK
    <3>. QED
      BY <3>1, <3>2
  <2>. QED
    BY <1>12, <2>1 DEF TypeOK, DoGuard, EndAction
<1>13. CASE BeginVoting
  BY <1>13 DEF TypeOK, BeginVoting, Current
<1>14. CASE NoWerewolf
  BY <1>14 DEF TypeOK, NoWerewolf, EndAction
<1>15. CASE OpenRound
  BY <1>15 DEF TypeOK, OpenRound, Voters, AliveAgents, AliveWerewolves
<1>16. CASE CollectVote
  <2>. DEFINE Counted(s, o) ==
         /\ ident' = After(s, o)
         /\ todo' = Left(s, o)
         /\ tally' = IF CountsVote(s, o)
                     THEN LET target == Value(After(s, o), o.text)
                          IN  Put(tally, target, VotesFor(target) + 1)
                     ELSE tally
  <2>. PICK s \in todo : \E o \in RequestToAgent(s, Seats) : Counted(s, o)
    BY <1>16 DEF CollectVote
  <2>1. PICK o \in RequestToAgent(s, Seats) : Counted(s, o)
    OBVIOUS
  <2>2. s \in Seats /\ ident' \in [Seats -> Ident] /\ todo' \subseteq Seats
    BY <2>1, RequestOneType DEF TypeOK, Left
  <2>3. DOMAIN tally' \subseteq RegisteredAgents /\ \A a \in DOMAIN tally' : tally'[a] \in Nat
    <3>1. CASE ~CountsVote(s, o)
      BY <2>1, <3>1 DEF TypeOK
    <3>2. CASE CountsVote(s, o)
      <4>. DEFINE target == Value(After(s, o), o.text)
      <4>1. target \in RegisteredAgents
        BY <3>2, AliveIsRegistered DEF CountsVote
      <4>2. VotesFor(target) + 1 \in Nat
        BY DEF VotesFor, TypeOK
      <4>3. tally' = Put(tally, target, VotesFor(target) + 1)
        BY <2>1, <3>2
      <4>. HIDE DEF target
      <4>. QED
        BY <4>1, <4>2, <4>3 DEF Put, TypeOK
    <3>. QED
      BY <3>1, <3>2
  <2>. QED
    BY <1>16, <2>2, <2>3 DEF TypeOK, CollectVote
<1>17. CASE Execute
  <2>1. status' \in [RegisteredAgents -> {"ALIVE", "DEAD"}] /\ executed' \subseteq RegisteredAgents
    <3>1. CASE UNCHANGED <<status, executed>>
      BY <3>1 DEF TypeOK
    <3>2. CASE \E a \in Candidates : status' = Put(status, a, "DEAD") /\ executed' = {a}
      BY <3>2, DeathType
    <3>. QED
      BY <1>17, <3>1, <3>2 DEF Execute
  <2>. QED
    BY <1>17, <2>1 DEF TypeOK, Execute, EndVoting, EndAction
<1>18. CASE Attack
  <2>1. status' \in [RegisteredAgents -> {"ALIVE", "DEAD"}] /\ attacked' \subseteq RegisteredAgents
    <3>1. CASE UNCHANGED <<status, attacked>>
      BY <3>1 DEF TypeOK
    <3>2. CASE \E a \in Candidates : status' = Put(status, a, "DEAD") /\ attacked' = {a}
      BY <3>2, DeathType
    <3>. QED
      BY <1>18, <3>1, <3>2 DEF Attack
  <2>. QED
    BY <1>18, <2>1 DEF TypeOK, Attack, EndVoting, EndAction
<1>19. CASE UNCHANGED vars
  BY <1>19 DEF TypeOK, vars
<1>. QED
  BY <1>1, <1>2, <1>3, <1>4, <1>5, <1>6, <1>7, <1>9, <1>10, <1>11, <1>12, <1>13, <1>14,
     <1>15, <1>16, <1>17, <1>18, <1>19 DEF Next, Step, Done

\* The variables keep their types: in particular no request, vote or takeover
\* ever makes a second entry for a player in the status map (TypeOK).
THEOREM TypeCorrect == Spec => []TypeOK
<1>1. Init => TypeOK
  BY InitType
<1>2. TypeOK /\ [Next]_vars => TypeOK'
  BY TypeStep
<1>. QED
  BY <1>1, <1>2, PTL DEF Spec
-----------------------------------------------------------------------------
(* Nobody comes back into play.                                            *)

\* A step gives no seat an earlier identity.
LEMMA StepLater ==
  ASSUME TypeOK, [Next]_vars, NEW s \in Seats
  PROVE  Later(ident[s], ident'[s])
<1>. USE DEF results, ballot, control
<1>1. ident \in [Seats -> Ident]
  BY DEF TypeOK
<1>2. CASE ident' = ident
  BY <1>1, <1>2 DEF Later, Ident
<1>3. CASE \E S : RequestEach(S)
  BY <1>1, <1>3, RequestEachType
<1>4. CASE \E t \in Seats : \E o \in RequestToAgent(t, Seats) : ident' = After(t, o)
  <2>1. PICK t \in Seats : \E o \in RequestToAgent(t, Seats) : ident' = After(t, o)
    BY <1>4
  <2>2. PICK o \in RequestToAgent(t, Seats) : ident' = After(t, o)
    BY <2>1
  <2>. QED
    BY <1>1, <2>2, RequestOneType
<1>5. CASE Initialize \/ ProgressDay \/ ProgressNight \/ Finish \/ DoTalk \/ DoWhisper
  BY <1>2, <1>3, <1>5
     DEF Initialize, ProgressDay, ProgressNight, ProgressSection, Finish,
         DoTalk, DoWhisper, Communicate
<1>6. CASE NextPhase \/ EndPhase \/ NextDay \/ BeginVoting \/ NoWerewolf \/ OpenRound
           \/ Execute \/ Attack \/ UNCHANGED vars
  BY <1>2, <1>6 DEF NextPhase, EndPhase, NextDay, BeginVoting, NoWerewolf, OpenRound,
                    Execute, Attack, EndVoting, vars
<1>7. CASE DoDivine \/ DoGuard
  BY <1>2, <1>4, <1>7 DEF DoDivine, DoGuard, WithRole, AliveAgents
<1>8. CASE CollectVote
  BY <1>4, <1>8 DEF CollectVote, TypeOK
<1>. QED
  BY <1>5, <1>6, <1>7, <1>8 DEF Next, Step, Done

\* A step brings no entry of the status map back to life.
LEMMA StepDeaths ==
  ASSUME TypeOK, [Next]_vars, NEW a \in RegisteredAgents, status'[a] = "ALIVE"
  PROVE  status[a] = "ALIVE"
<1>. USE DEF results, ballot, control
<1>1. CASE status' = status
  BY <1>1
<1>2. CASE \E b \in Candidates : status' = Put(status, b, "DEAD")
  BY <1>2, DeathType DEF Put, TypeOK
<1>3. CASE Execute \/ Attack
  BY <1>1, <1>2, <1>3 DEF Execute, Attack
<1>4. CASE ~(Execute \/ Attack)
  BY <1>1, <1>4
     DEF Next, Step, Done, vars, Initialize, ProgressDay, ProgressNight, ProgressSection,
         NextPhase, EndPhase, NextDay, Finish, DoTalk, DoWhisper, Communicate, DoDivine,
         DoGuard, BeginVoting, NoWerewolf, OpenRound, CollectVote
<1>. QED
  BY <1>3, <1>4

\* A player is in play exactly under the identity it registered with.
LEMMA InPlayMeans ==
  ASSUME TypeOK, NEW s \in Seats
  PROVE  InPlay(s) <=> /\ ident[s].conn = 0 /\ ~ident[s].err
                       /\ status[Registered(s)] = "ALIVE"
<1>1. Registered(s) \in RegisteredAgents /\ DOMAIN status = RegisteredAgents
  BY DEF RegisteredAgents, TypeOK
<1>2. AgentOf(s) \in RegisteredAgents <=> AgentOf(s) = Registered(s)
  BY DEF AgentOf, Value, Registered, RegisteredAgents
<1>3. AgentOf(s) = Registered(s) <=> ident[s].conn = 0 /\ ident[s].err = FALSE
  BY DEF AgentOf, Value, Registered
<1>4. ident[s].err \in BOOLEAN
  BY DEF TypeOK, Ident
<1>. QED
  BY <1>1, <1>2, <1>3, <1>4 DEF InPlay, IsAlive

\* No seat that died, failed or was taken over is ever asked, voted for or
\* counted as alive again by isAlive (NoRevival).
THEOREM NobodyRevives == Spec => NoRevival
<1>1. TypeOK /\ TypeOK' /\ [Next]_vars => [\A s \in Seats : InPlay(s)' => InPlay(s)]_vars
  <2>. SUFFICES ASSUME TypeOK, TypeOK', [Next]_vars, NEW s \in Seats, InPlay(s)'
                PROVE  InPlay(s)
    OBVIOUS
  <2>1. ident'[s].conn = 0 /\ ~ident'[s].err /\ status'[Registered(s)] = "ALIVE"
    <3>1. Registered(s) \in RegisteredAgents /\ DOMAIN status' = RegisteredAgents
      BY DEF RegisteredAgents, TypeOK
    <3>2. AgentOf(s)' \in RegisteredAgents /\ status'[AgentOf(s)'] = "ALIVE"
      BY <3>1 DEF InPlay, IsAlive
    <3>3. AgentOf(s)' = Registered(s)
      BY <3>2 DEF AgentOf, Value, Registered, RegisteredAgents
    <3>. QED
      BY <3>2, <3>3 DEF AgentOf, Value, Registered
  <2>2. ident[s].conn = 0 /\ ~ident[s].err
    BY <2>1, StepLater DEF Later, TypeOK, Ident
  <2>3. status[Registered(s)] = "ALIVE"
    BY <2>1, StepDeaths DEF RegisteredAgents
  <2>. QED
    BY <2>2, <2>3, InPlayMeans
<1>. QED
  BY <1>1, TypeCorrect, PTL DEF Spec, NoRevival
-----------------------------------------------------------------------------
(* A guarded player survives.                                              *)

\* Only a request that leaves its seat without an error is answered with a name.
LEMMA AnswerMeansNoError ==
  ASSUME NEW s \in Seats, ident[s] \in Ident, NEW o \in RequestToAgent(s, Seats),
         o.text # NoTarget
  PROVE  o.id.err = FALSE
<1>1. ASSUME NEW i \in Ident, NEW q \in SendPacket(i, Seats), q.text # NoTarget
      PROVE  q.id.err = FALSE
  BY <1>1 DEF SendPacket, Ident
<1>2. CASE o \in SendPacket(ident[s], Seats)
  BY <1>1, <1>2
<1>3. CASE \E q \in SendPacket(ident[s], Seats) : o \in TakenOver(q.id, Seats)
  <2>1. PICK q \in SendPacket(ident[s], Seats) : o \in TakenOver(q.id, Seats)
    BY <1>3
  <2>2. q.id \in Ident
    BY SendPacketType
  <2>. DEFINE fresh == [conn |-> q.id.conn + 1, err |-> FALSE]
  <2>3. fresh \in Ident /\ o \in SendPacket(fresh, Seats)
    BY <2>1, <2>2, BoundAssumption DEF TakenOver, Ident
  <2>. QED
    BY <1>1, <2>3
<1>. QED
  BY <1>2, <1>3 DEF RequestToAgent

\* The inductive invariant: a bodyguard is kept under an identity that works, so
\* one that was not taken over is the registered one, whose entry isAlive finds.
GuardInv ==
  /\ TypeOK
  /\ \A g \in guard : g.agent.err = FALSE
  /\ attacked \subseteq Dead(status)
  /\ GuardedSurvive

\* A bodyguard that isAlive does not find was taken over or is dead.
LEMMA NotGuarded ==
  ASSUME GuardInv, NEW g \in guard, ~IsGuarded(g.target)
  PROVE  g.agent.conn > 0 \/ status[Registered(g.agent.seat)] = "DEAD"
<1>1. g.agent \in Agent /\ g.agent.err = FALSE /\ g.agent.conn \in Nat
  BY DEF GuardInv, TypeOK, Agent
<1>2. SUFFICES ASSUME g.agent.conn = 0
               PROVE  status[Registered(g.agent.seat)] = "DEAD"
  BY <1>1
<1>3. g.agent = Registered(g.agent.seat) /\ g.agent.seat \in Seats
  BY <1>1, <1>2 DEF Agent, Registered
<1>4. g.agent \in RegisteredAgents
  BY <1>3 DEF RegisteredAgents
<1>. QED
  BY <1>3, <1>4 DEF IsGuarded, IsAlive, GuardInv, TypeOK

LEMMA GuardStep == GuardInv /\ [Next]_vars => GuardInv'
<1>. SUFFICES ASSUME GuardInv, [Next]_vars
              PROVE  GuardInv'
  OBVIOUS
<1>. USE DEF results, ballot, control
<1>1. TypeOK /\ TypeOK'
  BY TypeStep DEF GuardInv
<1>2. Dead(status) \subseteq Dead(status')
  BY <1>1, StepDeaths DEF Dead, TypeOK
<1>3. CASE UNCHANGED <<guard, attacked>>
  <2>1. ASSUME NEW g \in guard, status[Registered(g.agent.seat)] = "DEAD"
        PROVE  status'[Registered(g.agent.seat)] = "DEAD"
    <3>1. Registered(g.agent.seat) \in RegisteredAgents
      BY <1>1 DEF TypeOK, Agent, RegisteredAgents
    <3>. QED
      BY <1>1, <1>2, <2>1, <3>1 DEF Dead, TypeOK
  <2>. QED
    BY <1>1, <1>2, <1>3, <2>1 DEF GuardInv, GuardedSurvive
<1>4. CASE NextDay
  BY <1>1, <1>4 DEF NextDay, ForgetResults, GuardInv, GuardedSurvive
<1>5. CASE DoGuard
  <2>1. CASE UNCHANGED guard
    BY <1>3, <1>5, <2>1 DEF DoGuard
  <2>2. CASE guard' # guard
    <3>1. PICK s \in Seats : \E o \in RequestToAgent(s, Seats) :
            guard' = IF Choice(s, o) = {} THEN guard ELSE Choice(s, o)
      BY <1>5, <2>2 DEF DoGuard, WithRole, AliveAgents
    <3>2. PICK o \in RequestToAgent(s, Seats) : guard' = Choice(s, o) /\ Choice(s, o) # {}
      BY <2>2, <3>1
    <3>. DEFINE v(t) == Value(After(s, o), t)
    <3>3. o.text # NoTarget /\ IsAlive(v(o.text))
      BY <3>2 DEF Choice
    <3>3a. guard' = {[agent |-> v(s), target |-> v(o.text)]}
      BY <3>2 DEF Choice
    <3>4. v(s).err = FALSE
      BY <1>1, <3>3, AnswerMeansNoError DEF Value, After, TypeOK
    <3>5. v(o.text) \notin attacked
      BY <3>3 DEF GuardInv, Dead, IsAlive
    <3>. HIDE DEF v
    <3>6. UNCHANGED <<attacked, status>>
      BY <1>5 DEF DoGuard
    <3>. QED
      BY <1>1, <3>3a, <3>4, <3>5, <3>6 DEF GuardInv, GuardedSurvive, Dead
  <2>. QED
    BY <2>1, <2>2
<1>6. CASE Attack
  <2>1. CASE UNCHANGED attacked
    BY <1>3, <1>6, <2>1 DEF Attack, EndVoting
  <2>2. CASE attacked' # attacked
    <3>1. PICK a \in Candidates :
            ~IsGuarded(a) /\ status' = Put(status, a, "DEAD") /\ attacked' = {a}
      BY <1>6, <2>2 DEF Attack
    <3>2. guard' = guard
      BY <1>6 DEF Attack, EndVoting
    <3>3. a \in Dead(status')
      BY <1>1, <3>1, CandidatesType DEF Put, Dead, TypeOK
    <3>4. ASSUME NEW g \in guard, g.target = a
          PROVE  g.agent.conn > 0 \/ status'[Registered(g.agent.seat)] = "DEAD"
      <4>1. g.agent.conn > 0 \/ status[Registered(g.agent.seat)] = "DEAD"
        BY <3>1, <3>4, NotGuarded
      <4>2. Registered(g.agent.seat) \in RegisteredAgents
        BY <1>1 DEF TypeOK, Agent, RegisteredAgents
      <4>. QED
        BY <1>1, <1>2, <4>1, <4>2 DEF Dead, TypeOK
    <3>. QED
      BY <1>1, <3>1, <3>2, <3>3, <3>4 DEF GuardInv, GuardedSurvive
  <2>. QED
    BY <2>1, <2>2
<1>7. CASE ~(NextDay \/ DoGuard \/ Attack)
  <2>1. UNCHANGED <<guard, attacked>>
    BY <1>7 DEF Next, Step, Done, vars, Initialize, ProgressDay, ProgressNight,
         ProgressSection, NextPhase, EndPhase, Finish, DoTalk, DoWhisper, Communicate,
         DoDivine, BeginVoting, NoWerewolf, OpenRound, CollectVote, Execute, EndVoting
  <2>. QED
    BY <1>3, <2>1
<1>. QED
  BY <1>4, <1>5, <1>6, <1>7

\* Whatever the configuration and however seats fail, a player guarded by a
\* bodyguard that was not taken over while it answered is not the AttackedAgent
\* of that night, unless the bodyguard is dead by then.
THEOREM GuardHolds == Spec => []GuardedSurvive
<1>1. Init => GuardInv
  BY InitType DEF Init, GuardInv, GuardedSurvive, Dead
<1>2. GuardInv /\ [Next]_vars => GuardInv'
  BY GuardStep
<1>3. GuardInv => GuardedSurvive
  BY DEF GuardInv
<1>. QED
  BY <1>1, <1>2, <1>3, PTL DEF Spec
-----------------------------------------------------------------------------
(* Where the loop is, and every death announced.                           *)

\* An action is run in a phase of its section, and only an execution or an
\* attack votes.
InPhase ==
  /\ pc \in {"action", "voting"} => phase <= Len(Section)
  /\ pc = "voting" => /\ act <= Len(Section[phase].actions)
                      /\ Section[phase].actions[act] \in Lethal

\* The action k may still be run before the next day.
Coming(k) ==
  \/ pc \in {"start", "day", "night"}
  \/ isDaytime /\ pc \in {"phase", "action", "voting"}
  \/ ~isDaytime /\ \E n \in NightSlots :
       /\ NightAction(n) = k
       /\ \/ pc = "phase" /\ phase <= n[1]
          \/ pc \in {"action", "voting"} /\ (phase < n[1] \/ (phase = n[1] /\ act <= n[2]))

\* The inductive invariant: nobody has died yet in a way that is still to come
\* this night, and votes are for the living.
DeathInv ==
  /\ TypeOK
  /\ InPhase
  /\ pc = "voting" => \A a \in DOMAIN tally : status[a] = "ALIVE"
  /\ Coming("execution") => executed = {}
  /\ Coming("attack") => attacked = {}
  /\ DeathsAnnounced

LEMMA SlotType ==
  /\ NightSlots \subseteq Nat \X Nat
  /\ \A p, i \in Nat \ {0} :
       p <= Len(NightPhases) /\ i <= Len(NightPhases[p].actions) => <<p, i>> \in NightSlots
<1>1. ASSUME NEW p \in 1..Len(NightPhases)
      PROVE  Len(NightPhases[p].actions) \in Nat
  BY PhaseAssumption DEF Phases
<1>. QED
  BY <1>1, PhaseAssumption DEF NightSlots

LEMMA InPhaseStep == TypeOK /\ InPhase /\ [Next]_vars => InPhase'
<1>. SUFFICES ASSUME TypeOK, InPhase, [Next]_vars
              PROVE  InPhase'
  OBVIOUS
<1>. USE DEF results, ballot, control
<1>1. CASE Initialize \/ ProgressDay \/ ProgressNight \/ Finish \/ NextDay
  BY <1>1 DEF Initialize, ProgressDay, ProgressNight, ProgressSection, Finish, NextDay,
     ShouldFinish, InPhase
<1>2. CASE NextPhase \/ EndPhase
  BY <1>2 DEF NextPhase, EndPhase, ShouldFinish, AfterSection, InPhase, Section
<1>3. CASE EndAction /\ pc \in {"action", "voting"}
  BY <1>3 DEF EndAction, InPhase, Section
<1>4. CASE DoTalk \/ DoWhisper \/ DoDivine \/ DoGuard \/ NoWerewolf \/ Execute \/ Attack
  BY <1>3, <1>4 DEF DoTalk, DoWhisper, Communicate, DoDivine, DoGuard, NoWerewolf, Current,
     Execute, Attack, Voting, EndVoting
<1>5. CASE BeginVoting
  BY <1>5 DEF BeginVoting, Current, InPhase, Section, Lethal
<1>6. CASE OpenRound \/ CollectVote \/ UNCHANGED vars
  BY <1>6 DEF OpenRound, CollectVote, vars, InPhase, Section
<1>. QED
  BY <1>1, <1>2, <1>4, <1>5, <1>6 DEF Next, Step, Done

\* With a peaceful day the votes are held at night, in a slot of their own.
LEMMA VotingSlot ==
  ASSUME PeacefulDay, TypeOK, InPhase, pc = "voting"
  PROVE  /\ ~isDaytime
         /\ <<phase, act>> \in NightSlots
         /\ NightAction(<<phase, act>>) = Section[phase].actions[act]
<1>1. phase \in 1..Len(Section) /\ act \in 1..Len(Section[phase].actions)
  <2>1. phase \in 1..Len(Section)
    BY PhaseAssumption DEF InPhase, TypeOK, Section
  <2>2. Len(Section[phase].actions) \in Nat
    BY <2>1, PhaseAssumption DEF Section, Phases
  <2>. QED
    BY <2>1, <2>2 DEF InPhase, TypeOK
<1>2. ~isDaytime
  BY <1>1 DEF PeacefulDay, InPhase, Section
<1>3. <<phase, act>> \in NightSlots
  BY <1>1, <1>2 DEF NightSlots, Section
<1>. QED
  BY <1>2, <1>3 DEF NightAction, Section

\* What may come after a step could come before it, except when a day begins.
LEMMA ComingStep ==
  ASSUME TypeOK, InPhase, [Next]_vars, NEW k, Coming(k)'
  PROVE  Coming(k) \/ NextDay
<1>. USE DEF results, ballot, control
<1>0. \A n \in NightSlots : n[1] \in Nat /\ n[2] \in Nat
  BY SlotType
<1>. USE <1>0
<1>1. CASE Initialize \/ ProgressDay \/ ProgressNight
  BY <1>1 DEF Initialize, ProgressDay, ProgressNight, ProgressSection, Coming
<1>2. CASE NextPhase
  BY <1>2 DEF NextPhase, AfterSection, Coming, TypeOK
<1>3. CASE EndPhase
  BY <1>3 DEF EndPhase, ShouldFinish, AfterSection, Coming, TypeOK
<1>4. CASE EndAction /\ pc \in {"action", "voting"}
  BY <1>4 DEF EndAction, Coming, TypeOK
<1>5. CASE DoTalk \/ DoWhisper \/ DoDivine \/ DoGuard \/ NoWerewolf \/ Execute \/ Attack
  BY <1>4, <1>5 DEF DoTalk, DoWhisper, Communicate, DoDivine, DoGuard, NoWerewolf, Current,
     Execute, Attack, Voting, EndVoting
<1>6. CASE BeginVoting
  BY <1>6 DEF BeginVoting, Current, Coming
<1>7. CASE OpenRound \/ CollectVote \/ UNCHANGED vars
  BY <1>7 DEF OpenRound, CollectVote, vars, Coming
<1>8. CASE Finish
  BY <1>8 DEF Finish, Coming
<1>. QED
  BY <1>1, <1>2, <1>3, <1>5, <1>6, <1>7, <1>8 DEF Next, Step, Done

\* The vote being held is one of those that may come, and comes once.
LEMMA VoteIsComing ==
  ASSUME PeacefulDay, TypeOK, InPhase, NEW k, Voting(k)
  PROVE  Coming(k)
BY VotingSlot DEF Voting, Coming, TypeOK

LEMMA VoteComesOnce ==
  ASSUME PeacefulDay, OneOfEach, TypeOK, InPhase, NEW k \in Lethal, Voting(k), EndAction
  PROVE  ~Coming(k)'
<1>. DEFINE here == <<phase, act>>
<1>1. ~isDaytime /\ here \in NightSlots /\ NightAction(here) = k
  BY VotingSlot DEF Voting
<1>2. ASSUME NEW n \in NightSlots, NightAction(n) = k
      PROVE  n[1] = phase /\ n[2] = act
  BY <1>1, <1>2 DEF OneOfEach
<1>. QED
  BY <1>1, <1>2 DEF EndAction, Coming, TypeOK

\* Every vote that is counted is for a player alive in the status map.
LEMMA TallyStep ==
  ASSUME TypeOK, [Next]_vars,
         pc = "voting" => \A a \in DOMAIN tally : status[a] = "ALIVE"
  PROVE  pc' = "voting" => \A a \in DOMAIN tally' : status'[a] = "ALIVE"
<1>. USE DEF results, ballot, control
<1>1. CASE BeginVoting \/ OpenRound
  BY <1>1 DEF BeginVoting, OpenRound
<1>2. CASE CollectVote
  <2>1. PICK s \in todo : \E o \in RequestToAgent(s, Seats) :
          tally' = IF CountsVote(s, o)
                   THEN LET target == Value(After(s, o), o.text)
                        IN  Put(tally, target, VotesFor(target) + 1)
                   ELSE tally
    BY <1>2 DEF CollectVote
  <2>2. PICK o \in RequestToAgent(s, Seats) :
          tally' = IF CountsVote(s, o)
                   THEN LET target == Value(After(s, o), o.text)
                        IN  Put(tally, target, VotesFor(target) + 1)
                   ELSE tally
    BY <2>1
  <2>3. pc = "voting" /\ status' = status
    BY <1>2 DEF CollectVote
  <2>4. CASE ~CountsVote(s, o)
    BY <2>2, <2>3, <2>4
  <2>5. CASE CountsVote(s, o)
    <3>. DEFINE target == Value(After(s, o), o.text)
    <3>1. status[target] = "ALIVE"
      BY <2>5 DEF CountsVote, IsAlive
    <3>2. tally' = Put(tally, target, VotesFor(target) + 1)
      BY <2>2, <2>5
    <3>. HIDE DEF target
    <3>. QED
      BY <2>3, <3>1, <3>2 DEF Put
  <2>. QED
    BY <2>4, <2>5
<1>3. CASE UNCHANGED vars
  BY <1>3 DEF vars
<1>4. CASE ~(BeginVoting \/ OpenRound \/ CollectVote \/ UNCHANGED vars)
  <2>1. pc' # "voting"
    BY <1>4 DEF Next, Step, Done, Initialize, ProgressDay, ProgressNight, ProgressSection,
       NextPhase, EndPhase, NextDay, ShouldFinish, AfterSection, Finish, DoTalk, DoWhisper,
       Communicate, DoDivine, DoGuard, NoWerewolf, Execute, Attack, EndVoting, EndAction
  <2>. QED
    BY <2>1
<1>. QED
  BY <1>1, <1>2, <1>3, <1>4

LEMMA DeathInit == Init => DeathInv
<1>. SUFFICES ASSUME Init
              PROVE  DeathInv
  OBVIOUS
<1>1. TypeOK
  BY InitType
<1>. QED
  BY <1>1 DEF Init, DeathInv, InPhase, DeathsAnnounced, Dead

\* A candidate dies: what it does to the players dead in the status map.
LEMMA DeathOfCandidate ==
  ASSUME DeathInv, pc = "voting", NEW a \in Candidates, status' = Put(status, a, "DEAD")
  PROVE  status[a] = "ALIVE" /\ a \notin Dead(status) /\ Dead(status') = Dead(status) \cup {a}
<1>1. a \in RegisteredAgents /\ status[a] = "ALIVE"
  BY CandidatesType DEF DeathInv, Candidates
<1>2. DOMAIN status = RegisteredAgents
  BY DEF DeathInv, TypeOK
<1>. QED
  BY <1>1, <1>2 DEF Put, Dead

LEMMA DeathStep ==
  ASSUME PeacefulDay, OneOfEach, DeathInv, [Next]_vars
  PROVE  DeathInv'
<1>. USE DEF results, ballot, control
<1>1. TypeOK /\ TypeOK' /\ InPhase /\ InPhase'
  BY TypeStep, InPhaseStep DEF DeathInv
<1>2. pc' = "voting" => \A a \in DOMAIN tally' : status'[a] = "ALIVE"
  BY TallyStep DEF DeathInv
<1>3. CASE NextDay
  BY <1>1, <1>2, <1>3 DEF NextDay, ForgetResults, DeathInv, DeathsAnnounced, Dead
<1>4. CASE UNCHANGED <<status, yesterday, executed, attacked>> /\ ~NextDay
  BY <1>1, <1>2, <1>4, ComingStep DEF DeathInv, DeathsAnnounced, Dead
<1>5. CASE Execute
  <2>1. CASE UNCHANGED <<status, executed>>
    BY <1>4, <1>5, <2>1 DEF Execute, EndVoting, Voting, NextDay
  <2>2. CASE ~UNCHANGED <<status, executed>>
    <3>1. PICK a \in Candidates : status' = Put(status, a, "DEAD") /\ executed' = {a}
      BY <1>5, <2>2 DEF Execute
    <3>2. Voting("execution") /\ EndAction /\ UNCHANGED <<yesterday, attacked>>
      BY <1>5 DEF Execute, EndVoting
    <3>3. executed = {} /\ ~Coming("execution")'
      BY <1>1, <3>2, VoteIsComing, VoteComesOnce DEF DeathInv, Lethal
    <3>4. Coming("attack")' => attacked' = {}
      BY <1>1, <3>2, ComingStep DEF DeathInv, NextDay, Voting
    <3>5. a \notin Dead(status) /\ Dead(status') = Dead(status) \cup {a}
      BY <3>1, <3>2, DeathOfCandidate DEF Voting
    <3>6. DeathsAnnounced'
      BY <3>1, <3>2, <3>3, <3>5 DEF DeathInv, DeathsAnnounced, Dead
    <3>. QED
      BY <1>1, <1>2, <3>3, <3>4, <3>6 DEF DeathInv
  <2>. QED
    BY <2>1, <2>2
<1>6. CASE Attack
  <2>1. CASE UNCHANGED <<status, attacked>>
    BY <1>4, <1>6, <2>1 DEF Attack, EndVoting, Voting, NextDay
  <2>2. CASE ~UNCHANGED <<status, attacked>>
    <3>1. PICK a \in Candidates : status' = Put(status, a, "DEAD") /\ attacked' = {a}
      BY <1>6, <2>2 DEF Attack
    <3>2. Voting("attack") /\ EndAction /\ UNCHANGED <<yesterday, executed>>
      BY <1>6 DEF Attack, EndVoting
    <3>3. attacked = {} /\ ~Coming("attack")'
      BY <1>1, <3>2, VoteIsComing, VoteComesOnce DEF DeathInv, Lethal
    <3>4. Coming("execution")' => executed' = {}
      BY <1>1, <3>2, ComingStep DEF DeathInv, NextDay, Voting
    <3>5. a \notin Dead(status) /\ Dead(status') = Dead(status) \cup {a}
      BY <3>1, <3>2, DeathOfCandidate DEF Voting
    <3>6. DeathsAnnounced'
      BY <3>1, <3>2, <3>3, <3>5 DEF DeathInv, DeathsAnnounced, Dead
    <3>. QED
      BY <1>1, <1>2, <3>3, <3>4, <3>6 DEF DeathInv
  <2>. QED
    BY <2>1, <2>2
<1>7. CASE ~(NextDay \/ Execute \/ Attack)
  <2>1. UNCHANGED <<status, yesterday, executed, attacked>>
    BY <1>7 DEF Next, Step, Done, vars, Initialize, ProgressDay, ProgressNight,
         ProgressSection, NextPhase, EndPhase, Finish, DoTalk, DoWhisper, Communicate,
         DoDivine, DoGuard, BeginVoting, NoWerewolf, OpenRound, CollectVote
  <2>. QED
    BY <1>4, <1>7, <2>1
<1>. QED
  BY <1>3, <1>5, <1>6, <1>7

LEMMA DeathInvariant ==
  ASSUME PeacefulDay, OneOfEach
  PROVE  Spec => []DeathInv
<1>1. Init => DeathInv
  BY DeathInit
<1>2. DeathInv /\ [Next]_vars => DeathInv'
  BY DeathStep
<1>. QED
  BY <1>1, <1>2, PTL DEF Spec

\* With one execution and one attack a night, whoever dies is the player that
\* tomorrow's Info announces as executed or attacked, and died only once,
\* whatever the votes and however the seats answer, fail or are taken over.
THEOREM DeathsAreAnnounced ==
  ASSUME PeacefulDay, OneOfEach
  PROVE  Spec => []DeathsAnnounced
<1>1. DeathInv => DeathsAnnounced
  BY DEF DeathInv
<1>. QED
  BY <1>1, DeathInvariant, PTL
-----------------------------------------------------------------------------
(* No play after the decision, and the right winner.                       *)

\* The configuration is one with DealtOpen, PeacefulDay and DeathEndsPhase (Game).

\* The inductive invariant: where the survivors may have decided the game, and
\* that winSide is recorded only on the way out.
Open == CalcWinSideTeam(status) = "NONE"

DecisionInv ==
  /\ TypeOK
  /\ InPhase
  /\ pc = "action" /\ isDaytime => Open
  /\ NoPlayAfterDecision
  /\ pc \notin {"nextday", "finish", "done"} => winSide = "NONE"
  /\ WinnerMatchesVillage

LEMMA PhaseType ==
  ASSUME NEW p \in 1..Len(Section)
  PROVE  Len(Section[p].actions) \in Nat
BY PhaseAssumption DEF Section, Phases

\* After a lethal action the phase has no action left, and it is night.
LEMMA LethalIsLast ==
  ASSUME PeacefulDay, DeathEndsPhase, DecisionInv, pc = "voting"
  PROVE  ~isDaytime /\ act = Len(Section[phase].actions)
<1>1. phase \in 1..Len(Section)
  BY PhaseAssumption DEF DecisionInv, InPhase, TypeOK, Section
<1>2. act \in 1..Len(Section[phase].actions) /\ Section[phase].actions[act] \in Lethal
  BY <1>1, PhaseType DEF DecisionInv, InPhase, TypeOK
<1>. QED
  BY <1>1, <1>2 DEF PeacefulDay, DeathEndsPhase, Section, TypeOK, DecisionInv

LEMMA DecisionInit == DealtOpen /\ Init => DecisionInv
<1>. SUFFICES ASSUME DealtOpen, Init
              PROVE  DecisionInv
  OBVIOUS
<1>1. TypeOK
  BY InitType
<1>2. Open
  BY DEF Init, DealtOpen, Open
<1>. QED
  BY <1>1, <1>2 DEF Init, DecisionInv, InPhase, NoPlayAfterDecision, WinnerMatchesVillage, Open

LEMMA DecisionStep ==
  ASSUME PeacefulDay, DeathEndsPhase, DecisionInv, [Next]_vars
  PROVE  DecisionInv'
<1>. USE DEF results, ballot, control
<1>1. TypeOK /\ TypeOK' /\ InPhase /\ InPhase'
  BY TypeStep, InPhaseStep DEF DecisionInv
<1>2. ASSUME UNCHANGED <<status, winSide>>
      PROVE  Open' = Open /\ (WinnerMatchesVillage => WinnerMatchesVillage')
  BY <1>2 DEF Open, WinnerMatchesVillage
<1>3. CASE Initialize \/ ProgressDay \/ ProgressNight
  BY <1>1, <1>2, <1>3 DEF Initialize, ProgressDay, ProgressNight, ProgressSection,
     DecisionInv, NoPlayAfterDecision, Open
<1>4. CASE NextPhase
  BY <1>1, <1>2, <1>4 DEF NextPhase, AfterSection, DecisionInv, NoPlayAfterDecision, Open, Section
<1>5. CASE EndPhase
  BY <1>1, <1>5, CalcType DEF EndPhase, ShouldFinish, AfterSection, DecisionInv,
     NoPlayAfterDecision, WinnerMatchesVillage, Open, Section
<1>6. CASE NextDay
  BY <1>1, <1>6 DEF NextDay, ShouldFinish, DecisionInv, NoPlayAfterDecision,
     WinnerMatchesVillage, Open, Section
<1>7. CASE Finish \/ UNCHANGED vars
  BY <1>1, <1>2, <1>7 DEF Finish, vars, DecisionInv, NoPlayAfterDecision, Open, Section
<1>8. CASE pc = "action" /\ act <= Len(Section[phase].actions) /\ EndAction
           /\ UNCHANGED <<status, winSide>>
  BY <1>1, <1>2, <1>8 DEF EndAction, DecisionInv, NoPlayAfterDecision, Open, Section
<1>9. CASE DoTalk \/ DoWhisper \/ DoDivine \/ DoGuard \/ NoWerewolf
  BY <1>8, <1>9 DEF DoTalk, DoWhisper, Communicate, DoDivine, DoGuard, NoWerewolf, Current
<1>10. CASE BeginVoting
  BY <1>1, <1>2, <1>10 DEF BeginVoting, Current, Lethal, DecisionInv, NoPlayAfterDecision,
     Open, Section
<1>11. CASE OpenRound \/ CollectVote
  BY <1>1, <1>2, <1>11 DEF OpenRound, CollectVote, DecisionInv, NoPlayAfterDecision,
     Open, Section
<1>12. CASE Execute \/ Attack
  <2>1. pc = "voting" /\ EndAction /\ winSide' = winSide
    BY <1>12 DEF Execute, Attack, Voting, EndVoting
  <2>2. ~isDaytime /\ act = Len(Section[phase].actions) /\ winSide = "NONE"
    BY <2>1, LethalIsLast DEF DecisionInv
  <2>3. act' > Len(Section[phase].actions) /\ UNCHANGED <<phase, isDaytime>>
    BY <2>1, <2>2, <1>1 DEF EndAction, TypeOK
  <2>. QED
    BY <1>1, <2>1, <2>2, <2>3 DEF EndAction, DecisionInv, NoPlayAfterDecision,
       WinnerMatchesVillage, Open, Section, TypeOK
<1>. QED
  BY <1>3, <1>4, <1>5, <1>6, <1>7, <1>9, <1>10, <1>11, <1>12 DEF Next, Step, Done

LEMMA DecisionInvariant ==
  ASSUME DealtOpen, PeacefulDay, DeathEndsPhase
  PROVE  Spec => []DecisionInv
<1>1. Init => DecisionInv
  BY DecisionInit
<1>2. DecisionInv /\ [Next]_vars => DecisionInv'
  BY DecisionStep
<1>. QED
  BY <1>1, <1>2, PTL DEF Spec

\* With such a configuration no request other than FINISH is made to a village
\* that has decided the game, however the seats answer, fail or are taken over.
THEOREM PlayStops ==
  ASSUME DealtOpen, PeacefulDay, DeathEndsPhase
  PROVE  Spec => []NoPlayAfterDecision
<1>1. DecisionInv => NoPlayAfterDecision
  BY DEF DecisionInv
<1>. QED
  BY <1>1, DecisionInvariant, PTL

\* With such a configuration the side recorded as the winner is the side the
\* status map names, from the moment it is recorded to the end.
THEOREM WinnerIsRight ==
  ASSUME DealtOpen, PeacefulDay, DeathEndsPhase
  PROVE  Spec => []WinnerMatchesVillage
<1>1. DecisionInv => WinnerMatchesVillage
  BY DEF DecisionInv
<1>. QED
  BY <1>1, DecisionInvariant, PTL
-----------------------------------------------------------------------------
(* The table implements the village.                                       *)

Survivors == {s \in Seats : status[Registered(s)] = "ALIVE"}
Wolves == {s \in Seats : RoleOf[s] = "WEREWOLF"}

\* The entries of the status map and the seats are counted alike.
LEMMA RegisteredCount ==
  ASSUME NEW S \in SUBSET Seats
  PROVE  Cardinality({Registered(s) : s \in S}) = Cardinality(S)
<1>. DEFINE f == [s \in S |-> Registered(s)]
            T == {Registered(s) : s \in S}
<1>0. \A s, t \in S : Registered(s) = Registered(t) => s = t
  BY DEF Registered
<1>1. f \in Bijection(S, T)
  <2>1. f \in [S -> T] /\ \A t \in T : \E s \in S : f[s] = t
    OBVIOUS
  <2>2. \A s, t \in S : f[s] = f[t] => s = t
    BY <1>0
  <2>. QED
    BY <2>1, <2>2 DEF Bijection, Injection, Surjection, IsInjective
<1>2. IsFiniteSet(S)
  BY SeatsAssumption, FS_Subset
<1>. QED
  BY <1>1, <1>2, FS_Bijection DEF ExistsBijection

LEMMA WinnerIsCalculated ==
  ASSUME TypeOK
  PROVE  V!Winner = CalcWinSideTeam(status)
<1>0. \A s : Registered(s).seat = s
  BY DEF Registered
<1>. DEFINE Regs(S) == {Registered(s) : s \in S}
<1>0a. AliveIn(status) = Regs(Survivors)
  <2>1. DOMAIN status = Regs(Seats)
    BY DEF TypeOK, RegisteredAgents
  <2>. QED
    BY <2>1 DEF AliveIn, Survivors
<1>1. {a \in AliveIn(status) : RoleOf[a.seat] = "WEREWOLF"} = Regs(Survivors \cap Wolves)
  BY <1>0, <1>0a DEF Survivors, Wolves
<1>2. {a \in AliveIn(status) : RoleOf[a.seat] # "WEREWOLF"} = Regs(Survivors \ Wolves)
  BY <1>0, <1>0a DEF Survivors, Wolves
<1>3. Werewolves(status) = Cardinality(Survivors \cap Wolves)
  BY <1>1, RegisteredCount DEF Werewolves, Survivors
<1>4. Humans(status) = Cardinality(Survivors \ Wolves)
  BY <1>2, RegisteredCount DEF Humans, Survivors
<1>5. V!Winner = IF Cardinality(Survivors \ Wolves) <= Cardinality(Survivors \cap Wolves)
                 THEN "WEREWOLF"
                 ELSE IF Cardinality(Survivors \cap Wolves) = 0 THEN "VILLAGER" ELSE "NONE"
  BY Zenon DEF V!Winner, V!Cardinality, Cardinality, Survivors, Wolves
<1>. QED
  BY <1>3, <1>4, <1>5, Zenon DEF CalcWinSideTeam

Tonight == (IF executed # {} THEN {"execution"} ELSE {})
           \cup (IF attacked # {} THEN {"attack"} ELSE {})
Verdict == IF pc \in {"finish", "done"} THEN winSide ELSE "OPEN"

\* The inductive invariant of the refinement: those of the two sections above,
\* and no attack before an execution that is still to come.
VillageInv ==
  /\ DeathInv
  /\ DecisionInv
  /\ Coming("execution") => attacked = {}

LEMMA AttackEndsExecutions ==
  ASSUME PeacefulDay, ExecutionFirst, TypeOK, InPhase, Voting("attack"), EndAction
  PROVE  ~Coming("execution")'
<1>. DEFINE here == <<phase, act>>
<1>1. ~isDaytime /\ here \in NightSlots /\ NightAction(here) = "attack"
  BY VotingSlot DEF Voting
<1>2. ASSUME NEW n \in NightSlots, NightAction(n) = "execution"
      PROVE  n[1] < phase
  BY <1>1, <1>2 DEF ExecutionFirst
<1>3. \A n \in NightSlots : n[1] \in Nat
  BY SlotType
<1>. QED
  BY <1>1, <1>2, <1>3 DEF EndAction, Coming, TypeOK

LEMMA VillageStep ==
  ASSUME VillageTable, VillageInv, [Next]_vars
  PROVE  VillageInv'
<1>. USE DEF results, ballot, control
<1>1. DeathInv' /\ DecisionInv'
  BY DeathStep, DecisionStep DEF VillageTable, VillageInv
<1>2. TypeOK /\ InPhase
  BY DEF VillageInv, DeathInv
<1>3. Coming("execution")' => attacked' = {}
  <2>1. CASE NextDay
    BY <2>1 DEF NextDay, ForgetResults
  <2>2. CASE UNCHANGED attacked /\ ~NextDay
    BY <1>2, <2>2, ComingStep DEF VillageInv
  <2>3. CASE Attack
    BY <1>2, <2>3, AttackEndsExecutions DEF VillageTable, Attack, EndVoting
  <2>4. CASE ~(NextDay \/ Attack)
    <3>1. UNCHANGED attacked
      BY <2>4 DEF Next, Step, Done, vars, Initialize, ProgressDay, ProgressNight,
           ProgressSection, NextPhase, EndPhase, Finish, DoTalk, DoWhisper, Communicate,
           DoDivine, DoGuard, BeginVoting, NoWerewolf, OpenRound, CollectVote, Execute, EndVoting
    <3>. QED
      BY <2>2, <2>4, <3>1
  <2>. QED
    BY <2>1, <2>3, <2>4
<1>. QED
  BY <1>1, <1>3 DEF VillageInv

LEMMA VillageInvariant ==
  ASSUME VillageTable
  PROVE  Spec => []VillageInv
<1>1. Init => VillageInv
  BY DeathInit, DecisionInit DEF VillageInv, VillageTable, Init
<1>2. VillageInv /\ [Next]_vars => VillageInv'
  BY VillageStep
<1>. QED
  BY <1>1, <1>2, PTL DEF Spec

\* A step that kills nobody and ends nothing leaves the village as it is.
LEMMA VillageRests ==
  ASSUME UNCHANGED <<status, executed, attacked>>, Verdict' = Verdict
  PROVE  UNCHANGED V!villageVars
<1>1. Survivors' = Survivors /\ Tonight' = Tonight
  BY DEF Survivors, Tonight
<1>. QED
  BY <1>1, Zenon DEF V!villageVars, Survivors, Tonight, Verdict

LEMMA SurvivorDies ==
  ASSUME DeathInv, pc = "voting", NEW a \in Candidates, status' = Put(status, a, "DEAD")
  PROVE  /\ a.seat \in Survivors
         /\ Survivors' = Survivors \ {a.seat}
<1>1. a \in RegisteredAgents /\ status[a] = "ALIVE" /\ DOMAIN status = RegisteredAgents
  BY CandidatesType, DeathOfCandidate DEF DeathInv, TypeOK
<1>2. PICK p \in Seats : a = Registered(p)
  BY <1>1 DEF RegisteredAgents
<1>3. a.seat = p
  BY <1>2 DEF Registered
<1>4. \A s \in Seats : Registered(s) \in RegisteredAgents /\ Registered(s).seat = s
  BY DEF RegisteredAgents, Registered
<1>5. \A s \in Seats : status'[Registered(s)] = IF s = p THEN "DEAD" ELSE status[Registered(s)]
  BY <1>1, <1>2, <1>3, <1>4 DEF Put
<1>. QED
  BY <1>1, <1>2, <1>3, <1>5 DEF Survivors

\* A vote is held in a village that has not decided.
LEMMA VoteUndecided ==
  ASSUME VillageInv, pc = "voting"
  PROVE  V!Undecided
<1>1. Open
  BY DEF VillageInv, DecisionInv, NoPlayAfterDecision, Open
<1>. QED
  BY <1>1, WinnerIsCalculated DEF V!Undecided, Open, VillageInv, DeathInv

LEMMA ExecuteIsExecuted ==
  ASSUME VillageTable, VillageInv, Execute
  PROVE  [V!Next]_V!villageVars
<1>1. Voting("execution") /\ pc = "voting" /\ pc' = "action" /\ UNCHANGED <<attacked, winSide>>
  BY DEF Execute, EndVoting, EndAction, Voting
<1>2. CASE UNCHANGED <<status, executed>>
  BY <1>1, <1>2, VillageRests DEF Verdict
<1>3. CASE ~UNCHANGED <<status, executed>>
  <2>1. PICK a \in Candidates : status' = Put(status, a, "DEAD") /\ executed' = {a}
    BY <1>3 DEF Execute
  <2>2. a.seat \in Survivors /\ Survivors' = Survivors \ {a.seat}
    BY <1>1, <2>1, SurvivorDies DEF VillageInv
  <2>3. executed = {} /\ attacked = {}
    BY <1>1, VoteIsComing DEF VillageInv, VillageTable, DeathInv
  <2>4. Tonight = {} /\ Tonight' = {"execution"} /\ Verdict' = Verdict
    BY <1>1, <2>1, <2>3 DEF Tonight, Verdict
  <2>5. V!Undecided
    BY <1>1, VoteUndecided
  <2>6. V!Executed(a.seat)
    BY <2>2, <2>4, <2>5, Zenon DEF V!Executed, V!Dies, Survivors, Tonight, Verdict
  <2>. QED
    BY <2>2, <2>6 DEF V!Next, Survivors
<1>. QED
  BY <1>2, <1>3

LEMMA AttackIsAttacked ==
  ASSUME VillageTable, VillageInv, Attack
  PROVE  [V!Next]_V!villageVars
<1>1. Voting("attack") /\ pc = "voting" /\ pc' = "action" /\ UNCHANGED <<executed, winSide>>
  BY DEF Attack, EndVoting, EndAction, Voting
<1>2. CASE UNCHANGED <<status, attacked>>
  BY <1>1, <1>2, VillageRests DEF Verdict
<1>3. CASE ~UNCHANGED <<status, attacked>>
  <2>1. PICK a \in Candidates : status' = Put(status, a, "DEAD") /\ attacked' = {a}
    BY <1>3 DEF Attack
  <2>2. a.seat \in Survivors /\ Survivors' = Survivors \ {a.seat}
    BY <1>1, <2>1, SurvivorDies DEF VillageInv
  <2>3. attacked = {}
    BY <1>1, VoteIsComing DEF VillageInv, VillageTable, DeathInv
  <2>4. "attack" \notin Tonight /\ Tonight' = Tonight \cup {"attack"} /\ Verdict' = Verdict
    BY <1>1, <2>1, <2>3 DEF Tonight, Verdict
  <2>5. V!Undecided
    BY <1>1, VoteUndecided
  <2>6. a.seat \notin Wolves
    BY <1>1, <2>1 DEF Candidates, Wolves
  <2>7. V!Attacked(a.seat)
    BY <2>2, <2>4, <2>5, <2>6, Zenon DEF V!Attacked, V!Dies, Survivors, Tonight, Verdict, Wolves
  <2>. QED
    BY <2>2, <2>7 DEF V!Next, Survivors
<1>. QED
  BY <1>2, <1>3

\* The turn of the day stops the village or begins a new day in it.
LEMMA NextDayIsNewDay ==
  ASSUME VillageInv, VillageInv', NextDay
  PROVE  [V!Next]_V!villageVars
<1>1. pc = "nextday" /\ Survivors' = Survivors /\ Tonight' = {}
  BY DEF NextDay, ForgetResults, Survivors, Tonight
<1>2. V!Winner = CalcWinSideTeam(status) /\ Verdict = "OPEN"
  BY <1>1, WinnerIsCalculated DEF VillageInv, DeathInv, Verdict
<1>3. CASE pc' = "day"
  <2>1. CalcWinSideTeam(status) = "NONE" /\ Verdict' = "OPEN"
    BY <1>3 DEF NextDay, ShouldFinish, Verdict
  <2>2. V!NewDay
    BY <1>1, <1>2, <2>1, Zenon DEF V!NewDay, V!Undecided, Survivors, Tonight, Verdict
  <2>. QED
    BY <2>2 DEF V!Next
<1>4. CASE pc' = "finish"
  <2>1. winSide' \in {CalcWinSideTeam(status), "NONE"}
    BY DEF VillageInv, DecisionInv, WinnerMatchesVillage, NextDay
  <2>2. Verdict' \in {V!Winner, "NONE"}
    BY <1>2, <1>4, <2>1 DEF Verdict
  <2>3. V!Stop
    BY <1>1, <1>2, <2>2, Zenon DEF V!Stop, Survivors, Tonight, Verdict
  <2>. QED
    BY <2>3 DEF V!Next
<1>. QED
  BY <1>3, <1>4 DEF NextDay, ShouldFinish

LEMMA VillageSimulates ==
  ASSUME VillageTable, VillageInv, VillageInv', [Next]_vars
  PROVE  [V!Next]_V!villageVars
<1>. USE DEF results, ballot, control
<1>1. CASE NextDay \/ Execute \/ Attack
  BY <1>1, NextDayIsNewDay, ExecuteIsExecuted, AttackIsAttacked
<1>2. CASE ~(NextDay \/ Execute \/ Attack)
  <2>1. UNCHANGED <<status, executed, attacked>>
    BY <1>2 DEF Next, Step, Done, vars, Initialize, ProgressDay, ProgressNight,
         ProgressSection, NextPhase, EndPhase, Finish, DoTalk, DoWhisper, Communicate,
         DoDivine, DoGuard, BeginVoting, NoWerewolf, OpenRound, CollectVote
  <2>2. Verdict' = Verdict
    BY <1>2 DEF Next, Step, Done, vars, Initialize, ProgressDay, ProgressNight,
         ProgressSection, NextPhase, EndPhase, ShouldFinish, AfterSection, Finish, DoTalk,
         DoWhisper, Communicate, DoDivine, DoGuard, EndAction, BeginVoting, NoWerewolf,
         OpenRound, CollectVote, Current, Verdict
  <2>. QED
    BY <2>1, <2>2, VillageRests
<1>. QED
  BY <1>1, <1>2

\* With such a configuration every step of the table is a step of the abstract
\* village or leaves it as it is: one execution and then one attack of a living
\* non-werewolf at most between two mornings, none once a side has won, and a
\* verdict that is the survivors' or none.
THEOREM VillageRefinement ==
  ASSUME VillageTable
  PROVE  Spec => ImplementsVillage
<1>1. Init => V!Init
  BY DEF Init, V!Init, RegisteredAgents
<1>2. VillageInv /\ VillageInv' /\ [Next]_vars => [V!Next]_V!villageVars
  BY VillageSimulates
<1>. QED
  BY <1>1, <1>2, VillageInvariant, PTL DEF Spec, ImplementsVillage, V!Spec
=============================================================================
