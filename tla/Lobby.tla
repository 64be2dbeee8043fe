------------------------------- MODULE Lobby -------------------------------
(***************************************************************************)
(* Sessions of the lobby (lobby/main.py) and the gate that keeps their     *)
(* rooms from starting (game_control, and /control of the game server).    *)
(*                                                                         *)
(* The lobby is one asyncio program: what runs between two awaits is one   *)
(* step.  The scheduler and the reaper hold _lock over their calls of the  *)
(* game server; readiness, start, the gate of a new byo room and           *)
(* kill_session do not take it.  A call reaches the server, and its answer *)
(* the lobby, in steps of their own; either may be lost.  What only the    *)
(* clock decides may happen at any time.  Exit codes, and what people do    *)
(* about a session that has ended or been formed, are left out.            *)
(***************************************************************************)
EXTENDS Integers, Sequences, FiniteSets, SequencesExt, Subsequences

CONSTANTS
  Sessions,
  Users,      \* people at tables: one who leaves and comes again is another
  TableOf,    \* the session each user goes to
  Host,       \* the user who makes each session
  AIs,        \* sample AIs
  Agents,     \* external agents
  Scenes,     \* the tables that may be made, one for each session
  CapGpu,     \* MAX_CONCURRENT_GAMES
  CapExt,     \* MAX_CONCURRENT_EXTERNAL
  Loop,       \* the caller that holds _lock
  Screen,     \* the caller that polls a room, one poll at a time
  Losses      \* bound: calls that are lost, in each scene

Callers == Users \cup {Loop, Screen}

\* "direct" is a table of /api/byo: of mode byo, with no code and no hold of its
\* own.  A session of mode "none" is not made.
Modes == {"none", "solo", "multi", "byo", "spectate", "direct"}

ASSUME SessionAssumption == IsFiniteSet(Sessions)
ASSUME UserAssumption ==
  /\ TableOf \in [Users -> Sessions]
  /\ Host \in [Sessions -> Users] /\ \A s \in Sessions : TableOf[Host[s]] = s
  /\ {Loop, Screen} \cap Users = {} /\ Loop # Screen
  /\ Users \cap AIs = {} /\ Users \cap Agents = {} /\ AIs \cap Agents = {}
ASSUME CapAssumption == {CapGpu, CapExt} \subseteq Nat \ {0} /\ Losses \in [Scenes -> Nat]
ASSUME SceneAssumption ==
  \A t \in Scenes : /\ DOMAIN t = Sessions
                    /\ \A s \in Sessions :
                         /\ t[s].mode \in Modes /\ t[s].size \in Nat \ {0} /\ t[s].humans \in Nat
                         /\ t[s].agents \subseteq Agents /\ t[s].pool \subseteq AIs
                         /\ t[s].polled \in BOOLEAN
                         /\ t[s].mode \notin {"byo", "direct"} => t[s].agents = {}

VARIABLES
  table,    \* mode, size, humans (human_slots), agents, own (a key of the host);
            \* bounds: the pool of its sample AIs, whether its room is polled
  status, gate, ready,
  here,     \* participants
  ais,      \* its sample AIs: ai_count
  known,    \* the response went out: the session's id and code are known
  proc,     \* the process of its sample AIs
  extra,    \* takeover AIs run
  broken,   \* spawning failed after the first of two groups of AIs
  queue,
  lock,     \* holder of _lock over a call: "free", "schedule" or "reap"
  call,     \* the call of the game server each caller awaits
  drops,    \* sessions whose drop is under way, awaited by nobody
  losses,   \* bound: calls lost so far
  held, seats, game,  \* the game server: per room, and who plays
  cleared,  \* history: a check let the game go
  asked,    \* history: who was ready at the last such check
  late,     \* history: who came when the game was let go
  left,     \* history: who left a table
  lifted    \* history: the room had no hold, or lost it with a drop

lobbyVars == <<table, status, gate, ready, here, ais, known, proc, extra, broken, queue>>
serverVars == <<held, seats, game>>
history == <<cleared, asked, late, left, lifted>>
vars == <<lobbyVars, serverVars, lock, call, drops, losses, history>>

NoCall == [act |-> "none"]

Init ==
  /\ table \in Scenes /\ status = [s \in Sessions |-> "none"]
  /\ gate = [s \in Sessions |-> "off"]
  /\ ready = [s \in Sessions |-> {}] /\ here = [s \in Sessions |-> {}]
  /\ ais = [s \in Sessions |-> {}] /\ known = [s \in Sessions |-> FALSE]
  /\ proc = [s \in Sessions |-> "none"] /\ extra = [s \in Sessions |-> FALSE]
  /\ broken = [s \in Sessions |-> FALSE]
  /\ queue = <<>> /\ lock = "free"
  /\ call = [c \in Callers |-> NoCall] /\ drops = {} /\ losses = 0
  /\ held = [s \in Sessions |-> FALSE] /\ seats = [s \in Sessions |-> <<>>]
  /\ game = [s \in Sessions |-> {}]
  /\ cleared = [s \in Sessions |-> FALSE] /\ asked = [s \in Sessions |-> {}]
  /\ late = [s \in Sessions |-> {}] /\ left = {} /\ lifted = [s \in Sessions |-> FALSE]
-----------------------------------------------------------------------------
Calls(c, a, s) == call' = [call EXCEPT ![c] = [act |-> a, of |-> s, ans |-> "none"]]
Answered(c, a) == call[c].act = a /\ call[c].ans # "none"
Set(f, s, x) == [f EXCEPT ![s] = x]
QueueWithout(s) == Keep(queue, {i \in DOMAIN queue : queue[i] # s})

Mode(s) == table[s].mode
HumanTeams(s) ==
  CASE Mode(s) = "solo" -> {Host[s]} [] Mode(s) = "spectate" -> {} [] OTHER -> here[s]
Open(s) == status[s] \in {"waiting", "queued", "running"}

AllReadyAny(s, who) ==   \* variant: one who is ready speaks for all
  HumanTeams(s) = {} \/ HumanTeams(s) \cap who # {}

\* who: the users who are ready.
AllReady(s, who) ==
  /\ Mode(s) \in {"byo", "direct"} => Cardinality(here[s]) >= table[s].humans
  /\ HumanTeams(s) \subseteq who

\* History: a check that lets the game of s go; until it has formed, whoever
\* comes to the table comes late.
Clear(s, who) ==
  /\ cleared' = Set(cleared, s, TRUE) /\ asked' = Set(asked, s, who)
  /\ late' = Set(late, s, {}) /\ UNCHANGED <<left, lifted>>
LetGo(s) ==
  cleared[s] /\ (~held[s] \/ game[s] # {} \/ \E u \in Users : call[u].act # "none" /\ call[u].of = s)

UsesServerLlm(s) == ais[s] # {} /\ ~table[s].own
Cap(s) == IF UsesServerLlm(s) THEN CapGpu ELSE CapExt
RunningLike(s) ==
  {t \in Sessions : status[t] = "running" /\ UsesServerLlm(t) = UsesServerLlm(s)}

HasSlotOver(s) ==   \* variant: one too many
  Cardinality(RunningLike(s)) <= Cap(s)

HasSlot(s) == Cardinality(RunningLike(s)) < Cap(s)

LeftAlone(p) ==   \* variant: the process is not terminated
  p

Ended(p) == IF p = "alive" THEN "ended" ELSE p
-----------------------------------------------------------------------------
(* Sessions are made and joined.                                           *)

\* The sample AIs that fill a table, of which h people are.
Filled(s, h) ==
  {A \in SUBSET table[s].pool :
     LET n == table[s].size - Cardinality(table[s].agents) - h IN
     Cardinality(A) = IF n > 0 THEN n ELSE 0}

\* create_room, create_byo_room and create_byo.  The host of a byo room is no
\* participant, and the room is put on hold before the response goes out.
Create(s) ==
  /\ status[s] = "none" /\ Mode(s) # "none" /\ lock = "free"
  /\ here' = Set(here, s, IF Mode(s) \in {"byo", "direct"} THEN {} ELSE {Host[s]})
  /\ IF Mode(s) = "multi"
     THEN status' = Set(status, s, "waiting") /\ UNCHANGED <<queue, ais>>
     ELSE /\ status' = Set(status, s, "queued") /\ queue' = Append(queue, s)
          /\ \E A \in Filled(s, table[s].humans) : ais' = Set(ais, s, A)
  /\ IF Mode(s) = "byo" THEN Calls(Host[s], "gate", s) ELSE UNCHANGED call
  /\ UNCHANGED <<table, gate, ready, known, proc, extra, broken, serverVars, lock, drops,
                 losses, history>>

HoldNew(u) ==
  /\ Answered(u, "gate")
  /\ gate' = Set(gate, call[u].of, IF call[u].ans = "ok" THEN "hold" ELSE "off")
  /\ call' = Set(call, u, NoCall)
  /\ UNCHANGED <<table, status, ready, here, ais, known, proc, extra, broken, queue,
                 serverVars, lock, drops, losses, history>>

\* The response follows a pass of the scheduler, unless the room is a multi one.
Respond(s) ==
  /\ status[s] # "none" /\ ~known[s] /\ lock = "free"
  /\ call[Host[s]] = NoCall
  /\ status[s] = "queued" => ~HasSlot(s)
  /\ known' = Set(known, s, TRUE)
  /\ UNCHANGED <<table, status, gate, ready, here, ais, proc, extra, broken, queue,
                 serverVars, lock, call, drops, losses, history>>

\* Whoever has the code, while the people are fewer than their seats.
JoinRoom(u) ==
  LET s == TableOf[u] IN
  /\ known[s] /\ lock = "free" /\ u \notin here[s] \cup left
  /\ \/ Mode(s) = "multi" /\ status[s] = "waiting"
     \/ Mode(s) = "byo" /\ status[s] \in {"queued", "running"} /\ gate[s] # "started"
  /\ Cardinality(here[s]) < table[s].humans
  /\ here' = Set(here, s, here[s] \cup {u})
  /\ late' = IF LetGo(s) THEN Set(late, s, late[s] \cup {u}) ELSE late
  /\ UNCHANGED <<table, status, gate, ready, ais, known, proc, extra, broken, queue,
                 serverVars, lock, call, drops, losses, cleared, asked, left, lifted>>

MayStartAgain(s) ==   \* variant: a second start is not ignored
  status[s] \in {"waiting", "queued"}

MayStart(s) == status[s] = "waiting"

StartRoom(s) ==
  /\ known[s] /\ lock = "free" /\ Mode(s) = "multi" /\ MayStart(s)
  /\ \E A \in Filled(s, Cardinality(here[s])) : ais' = Set(ais, s, A)
  /\ status' = Set(status, s, "queued") /\ queue' = Append(queue, s)
  /\ UNCHANGED <<table, gate, ready, here, known, proc, extra, broken,
                 serverVars, lock, call, drops, losses, history>>
-----------------------------------------------------------------------------
(* The scheduler.                                                          *)

Schedule ==
  /\ lock = "free" /\ queue # <<>>
  /\ lock' = "schedule"
  /\ UNCHANGED <<lobbyVars, serverVars, call, drops, losses, history>>

Startable == {s \in Sessions : Contains(queue, s) /\ status[s] = "queued" /\ HasSlot(s)}

\* Passes go over the queue until one starts nothing.  A slot that comes free
\* during an await goes to whoever the pass comes to next, so any may be next.
ScheduleNext ==
  /\ lock = "schedule" /\ call[Loop] = NoCall
  /\ \E s \in Startable :
       /\ queue' = QueueWithout(s)
       /\ Calls(Loop, "hold", s)
  /\ UNCHANGED <<table, status, gate, ready, here, ais, known, proc, extra, broken,
                 serverVars, lock, drops, losses, history>>

ScheduleEnd ==
  /\ lock = "schedule" /\ call[Loop] = NoCall /\ Startable = {}
  /\ queue' = Keep(queue, {i \in DOMAIN queue : status[queue[i]] = "queued"})
  /\ lock' = "free"
  /\ UNCHANGED <<table, status, gate, ready, here, ais, known, proc, extra, broken,
                 serverVars, call, drops, losses, history>>

\* The hold is answered: _spawn_agents, whatever the session has become meanwhile.
Started(s) ==
  \/ /\ status' = Set(status, s, "running")
     /\ proc' = Set(proc, s, IF ais[s] # {} THEN "alive" ELSE "none")
     /\ UNCHANGED broken
  \/ /\ ais[s] # {}
     /\ status' = Set(status, s, "error")
     /\ \/ UNCHANGED <<proc, broken>>
        \/ /\ Mode(s) \in {"solo", "spectate"} /\ Cardinality(ais[s]) > 1
           /\ proc' = Set(proc, s, "alive") /\ broken' = Set(broken, s, TRUE)

Spawn ==
  /\ lock = "schedule" /\ Answered(Loop, "hold")
  /\ LET s == call[Loop].of IN
       /\ gate' = Set(gate, s, IF call[Loop].ans = "ok" THEN "hold" ELSE "off")
       /\ Started(s)
  /\ call' = Set(call, Loop, NoCall)
  /\ UNCHANGED <<table, ready, here, ais, known, extra, queue, serverVars, lock,
                 drops, losses, history>>
-----------------------------------------------------------------------------
(* Readiness and the start of the game, without _lock.                     *)

\* set_ready, up to the first await of maybe_release.
SetReady(u, b) ==
  LET s == TableOf[u]
      now == IF b THEN ready[s] \cup {u} ELSE ready[s] \ {u}
  IN
  /\ known[s] /\ Open(s) /\ game[s] = {} /\ call[u] = NoCall /\ u \in HumanTeams(s)
  /\ ready' = Set(ready, s, now)
  /\ IF gate[s] = "hold" /\ AllReady(s, now)
     THEN Calls(u, "room", s) /\ Clear(s, now) ELSE UNCHANGED <<call, history>>
  /\ UNCHANGED <<table, status, gate, here, ais, known, proc, extra, broken, queue,
                 serverVars, lock, drops, losses>>

\* release, up to its await: what was read of the room may be out of date.
MaybeRelease(u) ==
  /\ Answered(u, "room")
  /\ LET s == call[u].of IN
       IF call[u].ans = "ok" /\ gate[s] = "hold" THEN Calls(u, "release", s)
       ELSE call' = Set(call, u, NoCall)
  /\ UNCHANGED <<lobbyVars, serverVars, lock, drops, losses, history>>

SessionStart(s) ==
  /\ known[s] /\ Open(s) /\ call[Host[s]] = NoCall
  /\ AllReady(s, ready[s]) /\ gate[s] = "hold"
  /\ Calls(Host[s], "release", s) /\ Clear(s, ready[s])
  /\ UNCHANGED <<lobbyVars, serverVars, lock, drops, losses>>

Released(u) ==
  /\ Answered(u, "release")
  /\ gate' = Set(gate, call[u].of, CASE call[u].ans = "lost" -> "off"
                                     [] call[u].ans = "ok" -> "started"
                                     [] OTHER -> "released")
  /\ call' = Set(call, u, NoCall)
  /\ UNCHANGED <<table, status, ready, here, ais, known, proc, extra, broken, queue,
                 serverVars, lock, drops, losses, history>>

\* gate_view, which the screens poll, up to its await and from there.
ViewAsk(s) ==
  /\ table[s].polled /\ known[s] /\ gate[s] \in {"hold", "released"}
  /\ call[Screen] = NoCall
  /\ Calls(Screen, "room", s)
  /\ UNCHANGED <<lobbyVars, serverVars, lock, drops, losses, history>>

ViewShown ==
  /\ Answered(Screen, "room")
  /\ LET s == call[Screen].of IN
       gate' = IF gate[s] = "released" /\ call[Screen].ans = "empty"
               THEN Set(gate, s, "started") ELSE gate
  /\ call' = Set(call, Screen, NoCall)
  /\ UNCHANGED <<table, status, ready, here, ais, known, proc, extra, broken, queue,
                 serverVars, lock, drops, losses, history>>
-----------------------------------------------------------------------------
(* Leaving.                                                                *)

\* kill_session; nothing awaits the drop it sends.
Kill(s) ==
  /\ IF gate[s] \in {"hold", "released"}
     THEN gate' = Set(gate, s, "off") /\ drops' = drops \cup {s}
     ELSE UNCHANGED <<gate, drops>>
  /\ proc' = Set(proc, s, Ended(proc[s])) /\ extra' = Set(extra, s, FALSE)
  /\ status' = IF Open(s)
               THEN Set(status, s, "finished") ELSE status
  /\ queue' = QueueWithout(s)

\* /api/session/{id}/leave: nobody waits for _lock.
SessionLeave(s) ==
  /\ known[s] /\ Open(s)
  /\ Kill(s)
  /\ UNCHANGED <<table, ready, here, ais, known, broken, serverVars, lock, call,
                 losses, history>>

Present(u) == known[TableOf[u]] /\ lock = "free" /\ u \in here[TableOf[u]]

\* The last participant ends a session that has no external agents.
HandleLeave(u) ==
  LET s == TableOf[u]
      remaining == here[s] \ {u}
      unbegun == Mode(s) = "byo" /\ gate[s] \in {"hold", "released"}
  IN  /\ Present(u) /\ Mode(s) \in {"multi", "byo"} /\ Open(s)
      /\ IF \/ status[s] = "waiting" /\ u = Host[s]
            \/ /\ status[s] # "waiting" /\ ~unbegun
               /\ remaining = {} /\ table[s].agents = {}
         THEN Kill(s) /\ UNCHANGED <<here, ready, left>>
         ELSE /\ here' = Set(here, s, remaining) /\ left' = left \cup {u}
              /\ ready' = IF unbegun THEN Set(ready, s, ready[s] \ {u}) ELSE ready
              /\ extra' = IF status[s] = "running" /\ ~unbegun THEN Set(extra, s, TRUE) ELSE extra
              /\ UNCHANGED <<status, gate, proc, queue, drops>>
      /\ UNCHANGED <<table, ais, known, broken, serverVars, lock, call, losses,
                     cleared, asked, late, lifted>>
-----------------------------------------------------------------------------
(* The reaper.                                                             *)

\* A session that stayed on hold: its room is dropped, then it is ended.
ReapHeld(s) ==
  /\ lock = "free" /\ status[s] = "running" /\ gate[s] = "hold"
  /\ lock' = "reap" /\ Calls(Loop, "drop", s)
  /\ UNCHANGED <<lobbyVars, serverVars, drops, losses, history>>

Expire ==
  /\ lock = "reap" /\ Answered(Loop, "drop")
  /\ LET s == call[Loop].of IN
       /\ gate' = Set(gate, s, "off") /\ status' = Set(status, s, "error")
       /\ proc' = Set(proc, s, Ended(proc[s])) /\ extra' = Set(extra, s, FALSE)
  /\ call' = Set(call, Loop, NoCall) /\ lock' = "free"
  /\ UNCHANGED <<table, ready, here, ais, known, broken, queue, serverVars, drops,
                 losses, history>>

DueIfExited(s) ==   \* variant: no limit of time
  proc[s] = "ended"

\* Its AI process has ended, or the session is past MAX_SESSION_SECONDS.
Due(s) == gate[s] # "hold" \/ proc[s] = "ended"

Reap(s) ==
  /\ lock = "free" /\ status[s] = "running" /\ Due(s)
  /\ \E st \in {"finished", "error"} :
       /\ proc[s] = "none" => st = "finished"
       /\ proc[s] = "alive" => st = "error"
       /\ status' = Set(status, s, st)
  /\ proc' = Set(proc, s, Ended(proc[s]))
  /\ extra' = Set(extra, s, IF proc[s] = "none" THEN extra[s] ELSE FALSE)
  /\ UNCHANGED <<table, gate, ready, here, ais, known, broken, queue, serverVars, lock,
                 call, drops, losses, history>>

\* Nobody polls any more: out of the queue, or out of the waiting rooms.
Abandon(s) ==
  /\ lock = "free" /\ known[s] /\ status[s] \in {"queued", "waiting"}
  /\ status' = Set(status, s, "finished")
  /\ queue' = QueueWithout(s)
  /\ UNCHANGED <<table, gate, ready, here, ais, known, proc, extra, broken, serverVars,
                 lock, call, drops, losses, history>>
-----------------------------------------------------------------------------
(* Calls of the game server (game_control and registerControlRoutes).      *)

Full(s) == Len(seats[s]) >= table[s].size

\* The first of those who wait play; the others wait on.
Forms(s, waiting) ==
  LET n == table[s].size IN
  /\ game' = Set(game, s, game[s] \cup ToSet(SubSeq(waiting, 1, n)))
  /\ seats' = Set(seats, s, SubSeq(waiting, n + 1, Len(waiting)))

Effect(a, s) ==
  CASE a \in {"hold", "gate"} ->
         held' = Set(held, s, TRUE) /\ UNCHANGED <<seats, game>>
    [] a = "room" -> UNCHANGED serverVars
    [] a = "drop" ->
         /\ held' = Set(held, s, FALSE) /\ seats' = Set(seats, s, <<>>)
         /\ UNCHANGED game
    [] a = "release" ->
         /\ held' = Set(held, s, FALSE)
         /\ IF Full(s) THEN Forms(s, seats[s]) ELSE UNCHANGED <<seats, game>>

Pending(c) == call[c].act # "none" /\ call[c].ans = "none"
Answer(c, x) == call' = [call EXCEPT ![c].ans = x]

\* What the room is found to be: full, empty and not on hold, or neither.
Found(a, s) ==
  CASE a \notin {"room", "release"} \/ Full(s) -> "ok"
    [] a = "room" /\ seats[s] = <<>> /\ ~held[s] -> "empty"
    [] OTHER -> "no"

Serve(c) ==
  /\ Pending(c)
  /\ LET s == call[c].of IN
       /\ Effect(call[c].act, s)
       /\ Answer(c, Found(call[c].act, s))
       /\ lifted' = Set(lifted, s, lifted[s] \/ call[c].act = "drop")
  /\ UNCHANGED <<lobbyVars, lock, drops, losses, cleared, asked, late, left>>

\* The time is up, with or without the effect.
Lose(c) ==
  /\ Pending(c) /\ losses < Losses[table]
  /\ losses' = losses + 1
  /\ Answer(c, "lost")
  /\ LET s == call[c].of IN
       \/ /\ Effect(call[c].act, s)
          /\ lifted' = Set(lifted, s, lifted[s] \/ call[c].act = "drop")
       \/ /\ UNCHANGED serverVars
          /\ lifted' = Set(lifted, s,
                           lifted[s] \/ (call[c].act \in {"hold", "gate"} /\ ~held[s]))
  /\ UNCHANGED <<lobbyVars, lock, drops, cleared, asked, late, left>>

ServeDrop(s) ==
  /\ s \in drops
  /\ drops' = drops \ {s}
  /\ Effect("drop", s)
  /\ lifted' = Set(lifted, s, TRUE)
  /\ UNCHANGED <<lobbyVars, lock, call, losses, cleared, asked, late, left>>
-----------------------------------------------------------------------------
(* Who connects to the room, and the AI processes.                         *)

\* A screen connects once its session runs, and at once from the link to a
\* direct table.
MayConnect(s, p) ==
  \/ p \in ais[s] /\ proc[s] = "alive"
  \/ p \in table[s].agents /\ known[s]
  \/ p \in HumanTeams(s) /\ status[s] = "running" /\ known[s]
  \/ Mode(s) = "direct" /\ p = Host[s] /\ table[s].humans > 0 /\ known[s]

Connect(s, p) ==
  /\ p \notin ToSet(seats[s]) /\ Open(s) /\ game[s] = {} /\ MayConnect(s, p)
  /\ LET waiting == Append(seats[s], p) IN
       IF Len(waiting) >= table[s].size /\ ~held[s] THEN Forms(s, waiting)
       ELSE seats' = Set(seats, s, waiting) /\ UNCHANGED game
  /\ UNCHANGED <<lobbyVars, lock, call, drops, losses, held, history>>

\* Sweep: one that hung up is taken out.
Disconnect(s, i) ==
  /\ Open(s)
  /\ seats' = Set(seats, s, Keep(seats[s], DOMAIN seats[s] \ {i}))
  /\ UNCHANGED <<lobbyVars, lock, call, drops, losses, held, game, history>>

ProcExits(s) ==
  /\ proc[s] = "alive" /\ ~broken[s]
  /\ proc' = Set(proc, s, "ended")
  /\ UNCHANGED <<table, status, gate, ready, here, ais, known, extra, broken, queue,
                 serverVars, lock, call, drops, losses, history>>
-----------------------------------------------------------------------------
People ==
  \/ \E s \in Sessions :
       \/ Create(s) \/ StartRoom(s) \/ SessionStart(s) \/ SessionLeave(s) \/ Abandon(s)
       \/ ProcExits(s) \/ \E p \in Users \cup AIs \cup Agents : Connect(s, p)
       \/ \E i \in DOMAIN seats[s] : Disconnect(s, i)
  \/ \E u \in Users :
       JoinRoom(u) \/ HandleLeave(u) \/ \E b \in BOOLEAN : SetReady(u, b)

Scheduler == Schedule \/ ScheduleNext \/ Spawn \/ ScheduleEnd
Reaper(s) == ReapHeld(s) \/ Reap(s)
Served(c) == Serve(c) \/ Lose(c)
Resumed(u) == HoldNew(u) \/ MaybeRelease(u) \/ Released(u)

Next ==
  \/ People \/ Scheduler \/ Expire
  \/ \E s \in Sessions : Reaper(s) \/ Respond(s) \/ ViewAsk(s) \/ ServeDrop(s)
  \/ ViewShown
  \/ \E c \in Callers : Served(c)
  \/ \E u \in Users : Resumed(u)

Spec == Init /\ [][Next]_vars

\* Calls end by their time limit, the background loop goes round and
\* asyncio.Lock is fair.
LoopRuns ==
  /\ SF_vars(Schedule) /\ WF_vars(ScheduleNext \/ Spawn \/ ScheduleEnd \/ Expire)
  /\ WF_vars(Served(Loop))

\* Every running session meets a limit of time in the end.
LimitsMet == \A s \in Sessions : SF_vars(Reaper(s))

\* What people called for is answered; they need call for nothing.
CallsEnd == \A u \in Users : WF_vars(Served(u) \/ Resumed(u))

LoopSpec == Spec /\ LoopRuns /\ LimitsMet
FairSpec == Spec /\ LoopRuns /\ CallsEnd
-----------------------------------------------------------------------------
(* Properties.                                                             *)

Acts == {"gate", "hold", "room", "release", "drop"}
TypeOK ==
  /\ table \in Scenes
  /\ status \in [Sessions -> {"none", "waiting", "queued", "running", "finished", "error"}]
  /\ gate \in [Sessions -> {"off", "hold", "released", "started"}]
  /\ ready \in [Sessions -> SUBSET Users] /\ here \in [Sessions -> SUBSET Users]
  /\ proc \in [Sessions -> {"none", "alive", "ended"}]
  /\ queue \in Seq(Sessions) /\ IsInjective(queue)
  /\ lock \in {"free", "schedule", "reap"}
  /\ \A c \in Callers : call[c].act \in Acts \cup {"none"}
  /\ ais \in [Sessions -> SUBSET AIs]
  /\ seats \in [Sessions -> Seq(Users \cup AIs \cup Agents)]

\* Never more sessions run than there are slots of their kind, whatever is
\* started, left or reaped while a call is awaited (_schedule, running_count).
SlotsKept ==
  \A s \in Sessions : status[s] = "running" => Cardinality(RunningLike(s)) <= Cap(s)

\* No AI runs on when its session has ended: not the sample AIs, if they were
\* all spawned, and not those that took over a seat, if the session had sample
\* AIs of its own (kill_session, _reap, _spawn_agents, _cleanup_config).
NoOrphans ==
  \A s \in Sessions :
    status[s] \in {"finished", "error"} =>
      /\ proc[s] = "alive" => broken[s]
      /\ extra[s] => proc[s] = "none"

\* A game forms only after a check that lets it go, and all of its people were
\* ready at the last such check, but for those who came to the table after it:
\* if the hold of the room was neither refused nor dropped, and the table is no
\* direct one (set_ready, maybe_release, session_start, release, and the hold
\* before anybody can connect).
NobodyUnasked ==
  \A s \in Sessions :
    game[s] # {} /\ ~lifted[s] /\ Mode(s) # "direct" =>
      cleared[s] /\ HumanTeams(s) \subseteq asked[s] \cup late[s]

\* Whoever queues is started or leaves the queue: slots come free again.
QueueServed ==
  \A s \in Sessions : (status[s] = "queued") ~> (status[s] # "queued")

\* When all are ready and all seats are taken, the game starts by itself
\* (lobby/main.py:1745, RUNBOOK.md:188), unless someone takes it back, hangs
\* up or leaves, or the session is ended.
ReadyAndFull(s) ==
  gate[s] = "hold" /\ HumanTeams(s) # {} /\ AllReady(s, ready[s]) /\ Full(s)
FullStarts ==
  \A s \in Sessions :
    ReadyAndFull(s) ~> game[s] # {} \/ ~AllReady(s, ready[s]) \/ ~Full(s) \/ ~Open(s)
=============================================================================
