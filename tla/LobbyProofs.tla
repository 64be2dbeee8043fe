---------------------------- MODULE LobbyProofs ----------------------------
(***************************************************************************)
(* The sessions that run, and the processes they leave, for any number of  *)
(* sessions, users and slots.                                              *)
(***************************************************************************)
EXTENDS Lobby, FiniteSetTheorems, TLAPS

Statuses == {"none", "waiting", "queued", "running", "finished", "error"}
CallRecords ==
  [act : {"none"}] \cup [act : Acts, of : Sessions, ans : {"none", "ok", "no", "empty", "lost"}]

\* The part of TypeOK the argument needs.
TypedInv ==
  /\ table \in Scenes /\ here \in [Sessions -> SUBSET Users]
  /\ status \in [Sessions -> Statuses]
  /\ proc \in [Sessions -> {"none", "alive", "ended"}]
  /\ {broken, extra} \subseteq [Sessions -> BOOLEAN]
  /\ ais \in [Sessions -> SUBSET AIs]
  /\ call \in [Callers -> CallRecords]
  /\ lock \in {"free", "schedule", "reap"}
  /\ drops \subseteq Sessions

Starting == call[Loop].act = "hold"

\* A session whose hold is awaited does not run, and the scheduler has _lock
\* until it is spawned: its slot cannot be taken by another.
StartingInv ==
  Starting => /\ lock = "schedule"
              /\ status[call[Loop].of] # "running"
              /\ HasSlot(call[Loop].of)
              /\ ~extra[call[Loop].of]

\* AIs run on behalf of sessions that run, but for what was left behind.
AliveInv ==
  \A s \in Sessions :
    /\ proc[s] = "alive" => status[s] = "running" \/ broken[s]
    /\ extra[s] => \/ status[s] = "running"
                   \/ status[s] \in {"finished", "error"} /\ proc[s] = "none"

IInv == TypedInv /\ StartingInv /\ AliveInv /\ SlotsKept
-----------------------------------------------------------------------------
LEMMA InitInv == Init => IInv
  BY UserAssumption DEF Init, IInv, TypedInv, StartingInv, AliveInv, SlotsKept, Starting,
     Statuses, CallRecords, NoCall, Callers, Acts

\* The calls that may be written are calls.
LEMMA CallsTyped ==
  ASSUME TypedInv, NEW c \in Callers, NEW s \in Sessions, NEW a \in Acts
  PROVE  /\ Calls(c, a, s) => call' \in [Callers -> CallRecords]
         /\ call' = Set(call, c, NoCall) => call' \in [Callers -> CallRecords]
         /\ \A x \in {"ok", "no", "empty", "lost"} :
              Pending(c) /\ Answer(c, x) => /\ call' \in [Callers -> CallRecords]
                                            /\ call'[c].act = call[c].act
                                            /\ call'[c].of = call[c].of
                                            /\ \A d \in Callers \ {c} : call'[d] = call[d]
  <1>1. Calls(c, a, s) => call' \in [Callers -> CallRecords]
    BY DEF TypedInv, CallRecords, Calls
  <1>2. call' = Set(call, c, NoCall) => call' \in [Callers -> CallRecords]
    BY DEF TypedInv, CallRecords, NoCall, Set
  <1>3. ASSUME NEW x \in {"ok", "no", "empty", "lost"}, Pending(c), Answer(c, x)
        PROVE  /\ call' \in [Callers -> CallRecords]
               /\ call'[c].act = call[c].act
               /\ call'[c].of = call[c].of
               /\ \A d \in Callers \ {c} : call'[d] = call[d]
    <2>1. call[c] \in [act : Acts, of : Sessions, ans : {"none", "ok", "no", "empty", "lost"}]
      BY <1>3 DEF Pending, TypedInv, CallRecords
    <2>2. call'[c] = [call[c] EXCEPT !.ans = x]
      BY <1>3 DEF Answer, TypedInv
    <2>3. call'[c] = [act |-> call[c].act, of |-> call[c].of, ans |-> x]
      BY <2>1, <2>2
    <2>4. call' = [call EXCEPT ![c] = call'[c]]
      BY <1>3, <2>2 DEF Answer, TypedInv
    <2> QED BY <1>3, <2>1, <2>3, <2>4 DEF TypedInv, CallRecords
  <1> QED BY <1>1, <1>2, <1>3

\* Running again, one less of a kind or the same: the slots are kept.
Fewer ==
  /\ table' = table
  /\ \A s \in Sessions :
       status'[s] = "running" => status[s] = "running" /\ ais'[s] = ais[s]

LEMMA FewerKind ==
  ASSUME Fewer, NEW s \in Sessions, ais'[s] = ais[s]
  PROVE  /\ Cap(s)' = Cap(s)
         /\ RunningLike(s)' \subseteq RunningLike(s)
  BY DEF Fewer, Cap, RunningLike, UsesServerLlm

LEMMA RunningFinite ==
  ASSUME NEW s \in Sessions
  PROVE  IsFiniteSet(RunningLike(s)) /\ Cardinality(RunningLike(s)) \in Nat
  <1>1. RunningLike(s) \subseteq Sessions
    BY DEF RunningLike
  <1> QED BY <1>1, SessionAssumption, FS_Subset, FS_CardinalityType

LEMMA FewerKeepsSlots ==
  ASSUME Fewer, SlotsKept
  PROVE  /\ SlotsKept'
         /\ \A s \in Sessions : HasSlot(s) /\ ais'[s] = ais[s] => HasSlot(s)'
  <1>1. ASSUME NEW s \in Sessions, ais'[s] = ais[s]
        PROVE  /\ Cap(s)' = Cap(s) /\ Cap(s) \in Nat
               /\ Cardinality(RunningLike(s)) \in Nat
               /\ Cardinality(RunningLike(s)') \in Nat
               /\ Cardinality(RunningLike(s)') <= Cardinality(RunningLike(s))
    BY <1>1, FewerKind, RunningFinite, FS_Subset, FS_CardinalityType, CapAssumption DEF Cap
  <1>2. ASSUME NEW s \in Sessions, status'[s] = "running"
        PROVE  Cardinality(RunningLike(s)') <= Cap(s)'
    <2>1. status[s] = "running" /\ ais'[s] = ais[s]
      BY <1>2 DEF Fewer
    <2>2. Cardinality(RunningLike(s)) <= Cap(s)
      BY <2>1 DEF SlotsKept
    <2> QED BY <1>1, <2>1, <2>2
  <1>3. ASSUME NEW s \in Sessions, HasSlot(s), ais'[s] = ais[s]
        PROVE  HasSlot(s)'
    BY <1>1, <1>3 DEF HasSlot
  <1> QED BY <1>2, <1>3 DEF SlotsKept
-----------------------------------------------------------------------------
\* What every step but ScheduleNext and Spawn does: nothing starts to run, what
\* is being started stays so, and an AI process ends with its session.
Keeps ==
  /\ TypedInv' /\ AliveInv' /\ Fewer
  /\ \A s \in Sessions : extra'[s] => extra[s] \/ status[s] = "running"
  /\ Starting' => /\ Starting /\ lock' = lock
                  /\ call'[Loop].of = call[Loop].of
                  /\ ais'[call[Loop].of] = ais[call[Loop].of]

LEMMA KeepsInv ==
  ASSUME IInv, Keeps
  PROVE  IInv'
  <1>1. SlotsKept'
    BY FewerKeepsSlots DEF IInv, Keeps
  <1>2. ASSUME Starting'
        PROVE  (/\ lock = "schedule"
                /\ status[call[Loop].of] # "running"
                /\ HasSlot(call[Loop].of)
                /\ ~extra[call[Loop].of])'
    <2>1. /\ Starting /\ lock = "schedule"
          /\ status[call[Loop].of] # "running" /\ HasSlot(call[Loop].of)
          /\ ~extra[call[Loop].of]
      BY <1>2 DEF Keeps, IInv, StartingInv
    <2>2. call[Loop].of \in Sessions
      BY <2>1 DEF IInv, TypedInv, CallRecords, Starting, Callers
    <2>3. PICK s \in Sessions : s = call[Loop].of
      BY <2>2
    <2>4. call'[Loop].of = s /\ ais'[s] = ais[s] /\ lock' = lock
      BY <1>2, <2>3 DEF Keeps
    <2>5. HasSlot(s) /\ status[s] # "running" /\ ~extra[s]
      BY <2>1, <2>3
    <2>6. HasSlot(s)'
      BY <2>4, <2>5, FewerKeepsSlots DEF Keeps, IInv
    <2>7. status'[s] # "running" /\ ~extra'[s]
      BY <2>5 DEF Keeps, Fewer
    <2>8. HasSlot(call[Loop].of)'
      BY <2>4, <2>6 DEF HasSlot, RunningLike, Cap, UsesServerLlm
    <2> QED BY <2>1, <2>4, <2>7, <2>8
  <1> QED BY <1>1, <1>2 DEF IInv, Keeps, StartingInv

\* Steps that leave the sessions' states, processes and seats alone and write
\* no hold.
Calm == UNCHANGED <<table, status, here, proc, extra, broken, ais>>

LEMMA CalmKeeps ==
  ASSUME IInv, Calm, lock' \in {"free", "schedule", "reap"}, drops' \subseteq Sessions,
         call' \in [Callers -> CallRecords],
         Starting' => Starting /\ lock' = lock /\ call'[Loop].of = call[Loop].of
  PROVE  Keeps
  BY DEF Calm, IInv, Keeps, TypedInv, AliveInv, Fewer

LEMMA UserCalls ==
  ASSUME IInv, NEW u \in Users \cup {Screen}, UNCHANGED <<lock>>, NEW s \in Sessions, NEW a \in Acts,
         Calls(u, a, s) \/ call' = Set(call, u, NoCall) \/ call' = call
  PROVE  /\ call' \in [Callers -> CallRecords]
         /\ Starting' => Starting /\ lock' = lock /\ call'[Loop].of = call[Loop].of
  <1>1. u \in Callers /\ u # Loop /\ Loop \in Callers
    BY UserAssumption DEF Callers
  <1>2. call'[Loop] = call[Loop]
    BY <1>1 DEF Calls, Set, IInv, TypedInv
  <1>3. call' \in [Callers -> CallRecords]
    BY <1>1, CallsTyped DEF IInv, TypedInv
  <1> QED BY <1>2, <1>3 DEF Starting

LEMMA GateSteps ==
  ASSUME IInv, NEW u \in Users \cup {Screen},
         \/ HoldNew(u) \/ MaybeRelease(u) \/ Released(u)
         \/ u = Screen /\ ViewShown
  PROVE  Keeps
  <1>1. call[u] \in CallRecords /\ call[u].act # "none"
    BY DEF IInv, TypedInv, Callers, HoldNew, MaybeRelease, Released, ViewShown, Answered
  <1>2. call[u].of \in Sessions
    BY <1>1 DEF CallRecords
  <1>3. /\ UNCHANGED <<lock, drops>> /\ Calm
        /\ Calls(u, "release", call[u].of) \/ call' = Set(call, u, NoCall)
    BY DEF HoldNew, MaybeRelease, Released, ViewShown, lobbyVars, Calm
  <1>4. "release" \in Acts
    BY DEF Acts
  <1>5. /\ call' \in [Callers -> CallRecords]
        /\ Starting' => Starting /\ lock' = lock /\ call'[Loop].of = call[Loop].of
    BY <1>2, <1>3, <1>4, UserCalls
  <1> QED BY <1>3, <1>5, CalmKeeps DEF IInv, TypedInv

LEMMA PressSteps ==
  ASSUME IInv,
         \/ \E s \in Sessions : SessionStart(s) \/ ViewAsk(s)
         \/ \E u \in Users, b \in BOOLEAN : SetReady(u, b)
  PROVE  Keeps
  <1>1. ASSUME NEW s \in Sessions, SessionStart(s)
        PROVE  Keeps
    <2>1. Host[s] \in Users /\ "release" \in Acts
      BY UserAssumption DEF Acts
    <2>2. Calls(Host[s], "release", s) /\ UNCHANGED <<lock, drops>> /\ Calm
      BY <1>1 DEF SessionStart, lobbyVars, Calm
    <2>3. /\ call' \in [Callers -> CallRecords]
          /\ Starting' => Starting /\ lock' = lock /\ call'[Loop].of = call[Loop].of
      BY <2>1, <2>2, UserCalls
    <2> QED BY <2>2, <2>3, CalmKeeps DEF IInv, TypedInv
  <1>3. ASSUME NEW s \in Sessions, ViewAsk(s)
        PROVE  Keeps
    <2>1. "room" \in Acts
      BY DEF Acts
    <2>2. Calls(Screen, "room", s) /\ UNCHANGED <<lock, drops>> /\ Calm
      BY <1>3 DEF ViewAsk, lobbyVars, Calm
    <2>3. /\ call' \in [Callers -> CallRecords]
          /\ Starting' => Starting /\ lock' = lock /\ call'[Loop].of = call[Loop].of
      BY <2>1, <2>2, UserCalls
    <2> QED BY <2>2, <2>3, CalmKeeps DEF IInv, TypedInv
  <1>2. ASSUME NEW u \in Users, NEW b \in BOOLEAN, SetReady(u, b)
        PROVE  Keeps
    <2>1. u \in Users /\ TableOf[u] \in Sessions /\ "room" \in Acts
      BY UserAssumption DEF Acts
    <2>2. /\ Calls(u, "room", TableOf[u]) \/ call' = call
          /\ UNCHANGED <<lock, drops>> /\ Calm
      BY <1>2 DEF SetReady, Calm
    <2>3. /\ call' \in [Callers -> CallRecords]
          /\ Starting' => Starting /\ lock' = lock /\ call'[Loop].of = call[Loop].of
      BY <2>1, <2>2, UserCalls
    <2> QED BY <2>2, <2>3, CalmKeeps DEF IInv, TypedInv
  <1> QED BY <1>1, <1>2, <1>3

\* Steps that write no call.
LEMMA QuietSteps ==
  ASSUME IInv,
         \/ \E s \in Sessions : Respond(s) \/ ServeDrop(s)
         \/ \E s \in Sessions : \/ \E p \in Users \cup AIs \cup Agents : Connect(s, p)
                               \/ \E i \in DOMAIN seats[s] : Disconnect(s, i)
         \/ ScheduleEnd
  PROVE  Keeps
  <1>1. ScheduleEnd => ~Starting
    BY DEF ScheduleEnd, Starting, NoCall
  <1> QED
    BY <1>1, CalmKeeps DEF Respond, ServeDrop, Connect, Disconnect,
       ScheduleEnd, lobbyVars, serverVars, Calm, IInv, TypedInv, Starting

LEMMA JoinKeeps ==
  ASSUME IInv, NEW u \in Users, JoinRoom(u)
  PROVE  Keeps
  <1>1. here' \in [Sessions -> SUBSET Users]
    BY UserAssumption DEF JoinRoom, Set, IInv, TypedInv
  <1> QED
    BY <1>1 DEF JoinRoom, IInv, TypedInv, AliveInv, Fewer, Keeps, Starting

LEMMA ScheduleKeeps ==
  ASSUME IInv, Schedule
  PROVE  Keeps
  <1>1. ~Starting
    BY DEF Schedule, IInv, StartingInv
  <1> QED BY <1>1, CalmKeeps DEF Schedule, lobbyVars, serverVars, Calm, IInv, TypedInv, Starting

LEMMA ReapHeldKeeps ==
  ASSUME IInv, NEW s \in Sessions, ReapHeld(s)
  PROVE  Keeps
  <1>1. "drop" \in Acts /\ Loop \in Callers
    BY DEF Acts, Callers
  <1>2. call' \in [Callers -> CallRecords]
    BY <1>1, CallsTyped DEF ReapHeld, IInv
  <1>3. ~Starting'
    BY <1>1 DEF ReapHeld, Calls, Starting, IInv, TypedInv
  <1> QED BY <1>2, <1>3, CalmKeeps DEF ReapHeld, lobbyVars, Calm, IInv, TypedInv

LEMMA ServedKeeps ==
  ASSUME IInv, NEW c \in Callers, Served(c)
  PROVE  Keeps
  <1>1. PICK x \in {"ok", "no", "empty", "lost"} : Pending(c) /\ Answer(c, x)
    BY DEF Served, Serve, Lose, Found
  <1>2. UNCHANGED <<lock, drops>> /\ Calm
    BY DEF Served, Serve, Lose, lobbyVars, Calm
  <1>3. "drop" \in Acts /\ Loop \in Callers
    BY DEF Acts, Callers
  <1>4. /\ call' \in [Callers -> CallRecords]
        /\ call'[c].act = call[c].act /\ call'[c].of = call[c].of
        /\ \A d \in Callers \ {c} : call'[d] = call[d]
    <2>1. call[c] \in CallRecords /\ call[c].act # "none"
      BY <1>1 DEF Pending, IInv, TypedInv
    <2>2. call[c].of \in Sessions
      BY <2>1 DEF CallRecords
    <2> QED BY <1>1, <1>3, <2>2, CallsTyped DEF IInv
  <1>5. Starting' => Starting /\ call'[Loop].of = call[Loop].of
    BY <1>3, <1>4 DEF Starting
  <1> QED BY <1>2, <1>4, <1>5, CalmKeeps DEF IInv, TypedInv
-----------------------------------------------------------------------------
(* Sessions that are made, started in the queue, or end.                   *)

\* The AIs that fill a table are sample AIs.
LEMMA FilledTyped ==
  ASSUME TypedInv, NEW s \in Sessions, NEW h, NEW A \in Filled(s, h)
  PROVE  A \subseteq AIs
  <1>1. table[s].pool \subseteq AIs
    BY SceneAssumption DEF TypedInv
  <1> QED BY <1>1 DEF Filled

LEMMA CreateKeeps ==
  ASSUME IInv, NEW s \in Sessions, Create(s)
  PROVE  Keeps
  <1>1. Host[s] \in Users /\ "gate" \in Acts
    BY UserAssumption DEF Acts
  <1>2. UNCHANGED <<table, lock, drops, proc, extra, broken>>
    BY DEF Create
  <1>3. /\ call' \in [Callers -> CallRecords]
        /\ ~Starting'
    <2>1. Calls(Host[s], "gate", s) \/ call' = call
      BY DEF Create
    <2>2. ~Starting
      BY DEF Create, IInv, StartingInv
    <2> QED BY <1>1, <1>2, <2>1, <2>2, UserCalls
  <1>4. \E A \in SUBSET AIs : ais' = Set(ais, s, A) \/ ais' = ais
    BY FilledTyped DEF Create, IInv
  <1>5. here' \in [Sessions -> SUBSET Users]
    BY <1>1 DEF Create, Set, IInv, TypedInv
  <1>6. status[s] = "none" /\ (\E st \in {"waiting", "queued"} : status' = Set(status, s, st))
    BY DEF Create
  <1>7. TypedInv'
    BY <1>2, <1>3, <1>4, <1>5, <1>6 DEF IInv, TypedInv, Set, Statuses
  <1>8. AliveInv' /\ Fewer
    BY <1>2, <1>4, <1>6 DEF IInv, TypedInv, AliveInv, Fewer, Set
  <1> QED BY <1>2, <1>3, <1>7, <1>8 DEF Keeps

LEMMA StartRoomKeeps ==
  ASSUME IInv, NEW s \in Sessions, StartRoom(s)
  PROVE  Keeps
  <1>1. ~Starting /\ ~Starting'
    BY DEF StartRoom, IInv, StartingInv, Starting
  <1>2. \E A \in SUBSET AIs : ais' = Set(ais, s, A)
    BY FilledTyped DEF StartRoom, IInv
  <1>3. status[s] = "waiting" /\ status' = Set(status, s, "queued")
    BY DEF StartRoom, MayStart
  <1>4. UNCHANGED <<table, here, proc, extra, broken, call, lock, drops>>
    BY DEF StartRoom
  <1>5. TypedInv'
    BY <1>2, <1>3, <1>4 DEF IInv, TypedInv, Set, Statuses
  <1>6. AliveInv' /\ Fewer
    BY <1>2, <1>3, <1>4 DEF IInv, TypedInv, AliveInv, Fewer, Set
  <1> QED BY <1>1, <1>4, <1>5, <1>6 DEF Keeps

LEMMA KillKeeps ==
  ASSUME IInv, NEW s \in Sessions, Kill(s), here' \in [Sessions -> SUBSET Users],
         UNCHANGED <<table, ais, broken, lock, call>>
  PROVE  Keeps
  <1>1. proc' = [proc EXCEPT ![s] = Ended(proc[s])] /\ Ended(proc[s]) \in {"none", "ended"}
    BY DEF Kill, Set, Ended, IInv, TypedInv
  <1>2. status' = [status EXCEPT ![s] = "finished"] \/ status' = status
    BY DEF Kill, Set
  <1>3. drops' \subseteq Sessions /\ extra' = [extra EXCEPT ![s] = FALSE]
    BY DEF Kill, Set, IInv, TypedInv
  <1>4. TypedInv'
    BY <1>1, <1>2, <1>3 DEF IInv, TypedInv, Statuses
  <1>5. AliveInv' /\ Fewer
    BY <1>1, <1>2, <1>3 DEF IInv, TypedInv, AliveInv, Fewer
  <1>6. \A t \in Sessions : extra'[t] => extra[t]
    BY <1>3 DEF IInv, TypedInv
  <1> QED BY <1>4, <1>5, <1>6 DEF Keeps, Starting

LEMMA LeaveKeeps ==
  ASSUME IInv,
         \/ \E s \in Sessions : SessionLeave(s)
         \/ \E u \in Users : HandleLeave(u)
  PROVE  Keeps
  <1>1. ASSUME NEW s \in Sessions, SessionLeave(s)
        PROVE  Keeps
    BY <1>1, KillKeeps DEF SessionLeave, IInv, TypedInv
  <1>2. ASSUME NEW u \in Users, HandleLeave(u)
        PROVE  Keeps
    <2>1. TableOf[u] \in Sessions
      BY UserAssumption
    <2>2. UNCHANGED <<table, ais, broken, lock, call>>
      BY <1>2 DEF HandleLeave
    <2>3. CASE Kill(TableOf[u]) /\ here' = here
      BY <2>1, <2>2, <2>3, KillKeeps DEF IInv, TypedInv
    <2>4. CASE /\ here' = Set(here, TableOf[u], here[TableOf[u]] \ {u})
               /\ UNCHANGED <<status, proc, drops>>
               /\ \/ extra' = extra
                  \/ status[TableOf[u]] = "running" /\ extra' = Set(extra, TableOf[u], TRUE)
      <3>1. here' \in [Sessions -> SUBSET Users]
        BY <2>1, <2>4 DEF IInv, TypedInv, Set
      <3>2. /\ extra' \in [Sessions -> BOOLEAN]
            /\ \A s \in Sessions : extra'[s] => extra[s] \/ status[s] = "running"
        BY <2>1, <2>4 DEF IInv, TypedInv, Set
      <3> QED BY <2>2, <2>4, <3>1, <3>2 DEF Keeps, IInv, TypedInv, AliveInv, Fewer, Starting
    <2> QED BY <1>2, <2>3, <2>4 DEF HandleLeave
  <1> QED BY <1>1, <1>2

LEMMA ReaperKeeps ==
  ASSUME IInv,
         \/ Expire
         \/ \E s \in Sessions : Reap(s) \/ Abandon(s) \/ ProcExits(s)
  PROVE  Keeps
  <1>1. ASSUME NEW s \in Sessions, NEW st \in {"finished", "error"},
               status' = Set(status, s, st),
               \/ proc' = Set(proc, s, Ended(proc[s]))
               \/ proc' = proc /\ status[s] \in {"queued", "waiting"},
               \/ extra' = Set(extra, s, FALSE)
               \/ extra' = extra /\ (proc[s] = "none" \/ status[s] \in {"queued", "waiting"}),
               UNCHANGED <<table, here, ais, broken, drops>>,
               call' \in [Callers -> CallRecords], lock' \in {"free", "schedule", "reap"},
               Starting' => Starting /\ call' = call /\ lock' = lock
        PROVE  Keeps
    <2>1. TypedInv'
      BY <1>1 DEF IInv, TypedInv, Set, Ended, Statuses
    <2>2. AliveInv' /\ Fewer
      BY <1>1 DEF IInv, TypedInv, AliveInv, Fewer, Set, Ended
    <2>3. \A t \in Sessions : extra'[t] => extra[t]
      BY <1>1 DEF Set, IInv, TypedInv
    <2> QED BY <1>1, <2>1, <2>2, <2>3 DEF Keeps
  <1>2. ASSUME Expire PROVE Keeps
    <2>1. call[Loop] \in CallRecords /\ call[Loop].act = "drop" /\ Loop \in Callers
      BY <1>2 DEF Expire, Answered, IInv, TypedInv, Callers
    <2>2. call[Loop].of \in Sessions /\ "drop" \in Acts
      BY <2>1 DEF CallRecords, Acts
    <2>3. call' \in [Callers -> CallRecords]
      BY <1>2, <2>1, <2>2, CallsTyped DEF Expire, IInv
    <2>4. ~Starting'
      BY <1>2, <2>1 DEF Expire, Set, NoCall, Starting, IInv, TypedInv
    <2> QED BY <1>1, <1>2, <2>2, <2>3, <2>4 DEF Expire
  <1>3. ASSUME NEW s \in Sessions, Reap(s) PROVE Keeps
    <2>1. PICK st \in {"finished", "error"} : status' = Set(status, s, st)
      BY <1>3 DEF Reap
    <2>2. \/ extra' = Set(extra, s, FALSE)
          \/ extra' = extra /\ proc[s] = "none"
      BY <1>3 DEF Reap, Set, IInv, TypedInv
    <2> QED BY <1>1, <1>3, <2>1, <2>2 DEF Reap, Starting, IInv, TypedInv
  <1>4. ASSUME NEW s \in Sessions, Abandon(s) PROVE Keeps
    BY <1>1, <1>4 DEF Abandon, Starting, IInv, TypedInv
  <1>5. ASSUME NEW s \in Sessions, ProcExits(s) PROVE Keeps
    BY <1>5 DEF ProcExits, Set, Keeps, IInv, TypedInv, AliveInv, Fewer, Starting
  <1> QED BY <1>2, <1>3, <1>4, <1>5
-----------------------------------------------------------------------------
(* A session is taken for its slot, and started in it.                     *)

LEMMA NextInv ==
  ASSUME IInv, ScheduleNext
  PROVE  IInv'
  <1>1. PICK s \in Startable : Calls(Loop, "hold", s)
    BY DEF ScheduleNext
  <1>2. s \in Sessions /\ status[s] = "queued" /\ HasSlot(s)
    BY <1>1 DEF Startable
  <1>3. UNCHANGED <<table, status, here, ais, proc, extra, broken, lock, drops>> /\ lock = "schedule"
    BY DEF ScheduleNext
  <1>4. Loop \in Callers /\ "hold" \in Acts
    BY DEF Callers, Acts
  <1>5. call' \in [Callers -> CallRecords] /\ call'[Loop].of = s
    BY <1>1, <1>2, <1>4, CallsTyped DEF IInv, TypedInv, Calls
  <1>6. TypedInv' /\ AliveInv'
    BY <1>3, <1>5 DEF IInv, TypedInv, AliveInv
  <1>7. StartingInv'
    <2>1. ~extra[s]
      BY <1>2 DEF IInv, AliveInv
    <2> QED
    BY <1>2, <1>3, <1>5, <2>1
    DEF StartingInv, HasSlot, RunningLike, Cap, UsesServerLlm
  <1>8. SlotsKept'
    BY <1>3 DEF IInv, SlotsKept, RunningLike, Cap, UsesServerLlm
  <1> QED BY <1>6, <1>7, <1>8 DEF IInv

LEMMA SpawnInv ==
  ASSUME IInv, Spawn
  PROVE  IInv'
  <1>1. PICK s \in Sessions : s = call[Loop].of
    BY DEF Spawn, Answered, IInv, TypedInv, CallRecords, Callers
  <1>2. Starting /\ lock = "schedule" /\ status[s] # "running" /\ HasSlot(s) /\ ~extra[s]
    BY <1>1 DEF Spawn, Answered, Starting, IInv, StartingInv
  <1>3. UNCHANGED <<table, here, ais, extra, lock, drops>> /\ Started(s) /\ call' = Set(call, Loop, NoCall)
    BY <1>1 DEF Spawn
  <1>4. Loop \in Callers /\ "hold" \in Acts
    BY DEF Callers, Acts
  <1>5. call' \in [Callers -> CallRecords] /\ ~Starting'
    BY <1>1, <1>3, <1>4, CallsTyped DEF IInv, TypedInv, Set, NoCall, Starting
  <1>6. \/ status' = [status EXCEPT ![s] = "running"]
        \/ status' = [status EXCEPT ![s] = "error"]
    BY <1>3 DEF Started, Set
  <1>7. /\ proc' \in [Sessions -> {"none", "alive", "ended"}]
        /\ broken' \in [Sessions -> BOOLEAN]
    BY <1>3 DEF Started, Set, IInv, TypedInv
  <1>8. TypedInv'
    BY <1>3, <1>5, <1>6, <1>7 DEF IInv, TypedInv, Statuses
  <1>9. AliveInv'
    BY <1>2, <1>3 DEF Started, Set, IInv, TypedInv, AliveInv
  <1>10. SlotsKept'
    <2>1. CASE status' = [status EXCEPT ![s] = "error"]
      BY <1>2, <1>3, <2>1, FewerKeepsSlots DEF Fewer, IInv, TypedInv
    <2>2. CASE status' = [status EXCEPT ![s] = "running"]
      <3> SUFFICES ASSUME NEW t \in Sessions, status'[t] = "running"
                   PROVE  Cardinality(RunningLike(t)') <= Cap(t)'
        BY DEF SlotsKept
      <3>0. \A r \in Sessions : /\ UsesServerLlm(r)' = UsesServerLlm(r)
                               /\ status'[r] = "running" <=> status[r] = "running" \/ r = s
        BY <1>3, <2>2 DEF UsesServerLlm, IInv, TypedInv
      <3>1. /\ Cap(t)' = Cap(t) /\ Cap(t) \in Nat /\ Cap(s) \in Nat
            /\ UsesServerLlm(t)' = UsesServerLlm(t)
        BY <1>3, CapAssumption DEF Cap, UsesServerLlm
      <3>2. /\ IsFiniteSet(RunningLike(t)) /\ Cardinality(RunningLike(t)) \in Nat
            /\ IsFiniteSet(RunningLike(s)) /\ Cardinality(RunningLike(s)) \in Nat
        BY RunningFinite
      <3>3. CASE UsesServerLlm(t) = UsesServerLlm(s)
        <4>1. RunningLike(t)' = RunningLike(s) \cup {s}
          <5>1. \A r \in Sessions :
                  r \in RunningLike(t)' <=> r \in RunningLike(s) \/ r = s
            BY <1>3, <3>0, <3>3 DEF RunningLike, UsesServerLlm
          <5> QED BY <5>1 DEF RunningLike
        <4>2. s \notin RunningLike(s)
          BY <1>2 DEF RunningLike
        <4>3. Cardinality(RunningLike(s)) < Cap(s) /\ Cap(t) = Cap(s)
          BY <1>2, <3>3 DEF HasSlot, Cap
        <4>4. Cardinality(RunningLike(s) \cup {s}) = Cardinality(RunningLike(s)) + 1
          BY <3>2, <4>2, FS_AddElement, Zenon
        <4>5. Cardinality(RunningLike(t)') = Cardinality(RunningLike(s)) + 1
          BY <4>1, <4>4
        <4> QED BY <3>1, <3>2, <4>3, <4>5
      <3>4. CASE UsesServerLlm(t) # UsesServerLlm(s)
        <4>1. t # s /\ status[t] = "running"
          BY <2>2, <3>4 DEF IInv, TypedInv
        <4>2. RunningLike(t)' = RunningLike(t)
          <5>1. \A r \in Sessions : r \in RunningLike(t)' <=> r \in RunningLike(t)
            BY <1>3, <3>0, <3>4 DEF RunningLike, UsesServerLlm
          <5> QED BY <5>1 DEF RunningLike
        <4> QED BY <3>1, <4>1, <4>2 DEF IInv, SlotsKept
      <3> QED BY <3>3, <3>4
    <2> QED BY <1>6, <2>1, <2>2
  <1> QED BY <1>5, <1>8, <1>9, <1>10 DEF IInv, StartingInv
-----------------------------------------------------------------------------
LEMMA StepInv == IInv /\ [Next]_vars => IInv'
  <1> SUFFICES ASSUME IInv, [Next]_vars
               PROVE  IInv'
    OBVIOUS
  <1>1. ASSUME UNCHANGED vars PROVE IInv'
    BY <1>1 DEF vars, lobbyVars, IInv, TypedInv, StartingInv, Starting, AliveInv, SlotsKept,
       HasSlot, RunningLike, Cap, UsesServerLlm, history
  <1>2. ASSUME People PROVE Keeps
    BY <1>2, CreateKeeps, StartRoomKeeps, PressSteps, LeaveKeeps, ReaperKeeps, QuietSteps,
       JoinKeeps DEF People
  <1>3. ASSUME Scheduler PROVE IInv'
    BY <1>3, ScheduleKeeps, QuietSteps, NextInv, SpawnInv, KeepsInv DEF Scheduler
  <1>4. ASSUME \/ Expire
               \/ \E s \in Sessions : Reaper(s) \/ Respond(s) \/ ViewAsk(s) \/ ServeDrop(s)
               \/ ViewShown
        PROVE  Keeps
    BY <1>4, ReapHeldKeeps, ReaperKeeps, QuietSteps, PressSteps, GateSteps DEF Reaper
  <1>5. ASSUME \/ \E c \in Callers : Served(c)
               \/ \E u \in Users : Resumed(u)
        PROVE  Keeps
    BY <1>5, ServedKeeps, GateSteps DEF Resumed
  <1> QED BY <1>1, <1>2, <1>3, <1>4, <1>5, KeepsInv DEF Next

\* Never more sessions run than there are slots of their kind, however many
\* sessions, users and slots there are (_schedule, kill_session, _reap).
THEOREM SlotsTheorem == Spec => []SlotsKept
  <1>1. IInv => SlotsKept
    BY DEF IInv
  <1> QED BY InitInv, StepInv, <1>1, PTL DEF Spec

\* The AI processes of a session that has ended do not run on, unless spawning
\* them failed half-way; nor do those that took over its seats, unless it had
\* none of its own (kill_session, _reap, _spawn_agents, _cleanup_config).
THEOREM OrphansTheorem == Spec => []NoOrphans
  <1>1. IInv => NoOrphans
    BY DEF IInv, AliveInv, NoOrphans
  <1> QED BY InitInv, StepInv, <1>1, PTL DEF Spec
=============================================================================
