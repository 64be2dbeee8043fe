# Verification of aiwolf-nlp-demo

TLA+ models, model-checking runs and TLAPS proofs for the programs of this
repository: the Go game server, the Python lobby and agent client, and the demo
viewer that together run werewolf games between people and language models.

## 1. The system

| Component | State it keeps | Operations | Talks to |
|---|---|---|---|
| **Game loop** (`aiwolf-nlp-server/logic`, `model/game_status.go`, `util/game_util.go`) | agents, one `GameStatus` per day with a status map, winner, day, section | `Start`, `progressDay/Night`, `executePhase`, votes, guard, divine, execution, attack, `shouldFinish` | agent connections, loggers |
| **Agent connection** (`model/agent.go`, `connection.go`) | socket, error flag, message channel, takeover channel | `SendPacket`, `receive` with pause/resume, `OfferTakeover`, `WaitTakeover`, reader goroutine | clients, game loop, server |
| **Communication session** (`logic/communication*.go`) | talk list, remaining counts, lengths and skips per agent | turn-based and freeform talk and whisper | agent connections |
| **Waiting room, matching** (`core/waiting_room.go`, `core/server.go`) | connections per room, held rooms, games | connect, form a table, hold, release, drop, sweep, takeover hand-over, shutdown | lobby (`/control/*`), clients |
| **Match optimizer** (`core/match_optimizer.go`) | scheduled and ended matches, team numbers, a JSON file | `getMatches`, `updateTeam`, `setMatchEnd`, `setMatchWeight`, `save` | server |
| **Logs** (`service/*_logger.go`, `realtime_broadcaster.go`) | one buffer per game, a file rewritten whole at each line | track, append, save | lobby's publisher, viewers |
| **Lobby** (`lobby/main.py`) | sessions, queue, room codes, gate and readiness per session, processes | create, join, ready, start, schedule, release, leave, takeover, reap, publish | server's `/control/*`, agent processes, browsers |
| **Agent client** (`aiwolf-nlp-agent-llm/src/starter.py`) | histories, info, status | receive packet, answer request | server, LLM |
| **Demo viewer** (`viewer/src/lib/utils/demo-socket.ts`) | merged talks, local answer timer, pause state | answer, pause, resume, time out | server |

How they meet: the lobby holds a room at the server, starts agent processes that
connect to it, and releases it when the people are ready; the server then forms a
table and one goroutine runs `Start`. That goroutine sends a request to one seat at
a time and waits for the answer, for a NAME answer after a time-out, and, for a
person's seat that is lost, for a takeover connection, which the lobby provides by
starting one more agent. Reader goroutines, HTTP handlers, the lobby's handlers and
its one-second loop run beside it.

What is hard, and what makes each part correct:

* **Game loop.** Seats fail, answer late or change their connection between any two
  requests, and the status map is keyed by a value that changes with them. Correct:
  the dead stay dead and are announced, nobody acts in a decided game, the winner is
  the side the survivors give, the game ends.
* **Agent connection.** Late answers meet the NAME request; pauses meet time limits.
  Correct: an answer is taken for the request it answers, a wait ends.
* **Communication session.** Budgets per agent, listeners beside a consumer.
  Correct: nobody speaks beyond a budget, the session ends, speech is not reordered.
* **Waiting room.** Handlers interleave between its locks. Correct: a connection is at
  one table at most, names are unique at a table, held rooms do not start, ready ones do.
* **Match optimizer.** Correct: each scheduled match is ended once, no handler blocks.
* **Lobby.** Every `await` lets other handlers in. Correct: capacity is respected, a
  session that was left or reaped is not running, its processes are stopped, its gate
  only moves forward.
* **Agent client and viewer.** Correct: the history they build is the table's.
* **Logs.** Correct: a finished game is published once, an unfinished one never.

## 2. Plan

One module per component, in order of importance, each with an `MC` module for its
instances and, where a theorem is stated, a proof module. No recursive operators.

| Module | Component | Abstract specification | Proofs |
|---|---|---|---|
| `Game` | game loop | `Village` | `GameProofs` |
| `WaitingRoom` | waiting room and `/control` | `Lounge` | `WaitingRoomProofs` |
| `SeatChannel` | agent connection and takeover, with the clients' side: viewer and agent | | `SeatChannelProofs` |
| `TalkSession` | talk and whisper phases | | `TalkSessionProofs` |
| `MatchOptimizer` | match optimizer and its matching | | `MatchOptimizerProofs` |
| `Lobby` | lobby sessions, with what they ask of the server | | `LobbyProofs`, `LobbyReadyProofs` |
| `Subsequences` | the loops that keep some elements of a slice, in order | | `SubsequencesProofs` |

They meet as the program's parts do. `Game` takes the outcomes of one request from
what `SeatChannel` models in steps, and that a request ends (`Termination`) from its
`WaitsEnd`; `TalkSession` takes the same, and is one step of `Game`
(`Communicate`). `MatchOptimizer` and `WaitingRoom` are the two ways `tryFormGame` finds a
table. `Lobby` has the hold, release and drop of `WaitingRoom` as single effects.

Left for later: matching by team; the history a client builds from the talks it is sent, which a
takeover resends; publishing of logs; the time left of a wait over pauses; refinement of the outcomes of `Game` by `SeatChannel`.

## 3. What is modelled

### Subsequences
`Keep(s, D)`: what is left of a slice when a loop keeps the elements at the positions `D`, in their order.
`Sweep` in the waiting room, the stable sort of the schedule and the removals from the lobby's queue are written with it
instead of `SelectSeq`, which is recursive.

### Village
The abstract table: players, those alive, in which way somebody has died today, and
the verdict. At most one execution and, after it, one attack a day; nobody dies once a side
has won; a verdict that names a side names the one the survivors give.

### Game
One table, as the goroutine in `Game.Start` runs it (`logic/game.go:107-178`).

| In the code | In the model |
|---|---|
| the program point of `Start`, `progressDay/Night`, `executePhase` | `pc`, `isDaytime`, `day`, `phase`, `act` |
| `Agent.Connection`, `Agent.HasError` | `ident[s] = [conn, err]` |
| `GameStatus.StatusMap`, today's and yesterday's | `status`, `yesterday`, with keys `[seat, conn, err]` |
| `ExecutedAgent`, `AttackedAgent`, `DivineResult`, `Guard` | `executed`, `attacked`, `divined`, `guard`: sets of at most one element, `{}` for nil |
| `winSide` | `winSide` |
| loop variable and vote list of `collectVotes`, loop of `doExecution`/`doAttack` | `todo`, `tally`, `round` |

The key of the status map is the central fact. Go compares `model.Agent` by value and the struct
holds the connection and the error flag, so `isAlive` after an error or a takeover looks
up a key that was never entered. The model keeps maps of such values instead of
maps of seats.

A request (`requestToAgent`) is one step, as nothing else touches the game's state while
it waits. Its outcomes are all those `SendPacket` and `WaitTakeover` may give: an answer that names a
seat, one that names nobody, a time-out with its NAME answer, a lost seat, and for a
human seat a takeover followed by any of these. `Communicate` is one step for a
whole session, because only its effect on the identities matters here. A vote
is one step per voter, since a seat may be lost between two votes. Setting, talk texts, medium
results (made with `ExecutedAgent`), roles beyond seat and species, logs and
broadcasts are left out.

Constants are the configuration: phases with `only_day` and `except_day`, vote rounds,
self votes, `max_day`, `MaxErrors` for `int(n * max_continue_error_ratio)`. `MaxConn`
bounds takeovers of one seat.

Properties:

* `TypeOK`: types, and that no step adds an entry to the status map under another identity.
* `DeathsAnnounced`: who died since dawn is exactly what will be announced, once.
* `NoPlayAfterDecision`: no request but FINISH once the survivors have decided.
* `WinnerMatchesVillage`: the recorded side is the one the status map gives.
* `GuardedSurvive`: a guarded seat is not attacked while its bodyguard lives, unless the
  bodyguard's seat was taken over while it answered; that exception is real in this code, because the
  guard is stored with an identity `isAlive` no longer finds.
* `NoRevival`: who left play never returns.
* `Termination`: with a day limit the game ends.
* `ImplementsVillage`: the refinement. A seat is alive in `Village` while the entry it was
  registered with is ALIVE; a day begins anew with `NextDay`; the verdict is `winSide` from the
  moment the loop goes to FINISH.
* `TakenOverSeatPlaysOn`: what the configuration comment promises; refuted.

### Lounge
The abstract waiting room: each connection is outside, waiting, at a table, or closed. A table takes
exactly `agent_count` waiting connections of one room; nobody leaves a table or comes back.

### WaitingRoom
The waiting room under `room_match`, with one handler per connection
(`handleConnections`), one per call of `/control`, and the sweeper.

| In the code | In the model |
|---|---|
| the program point of each goroutine | `pc` |
| the call a `/control` handler serves | `job` |
| `wr.connections`, `wr.held` | `waiting` (`<<>>` for an absent key), `held` |
| `wr.mu`, the progress of `Range`, the room it found | `lock`, `unseen`, `pick` |
| connections closed by the server | `closed` |
| `Server.games`, as the connections given to each | `tables` |

A region under `wr.mu` that reads nothing else is one step: `HasName`, `AddConnection`, `Sweep`, `Drop`,
`Seats`. `GetConnections` is several, with the lock held across them, because it reads `held`, which
other handlers write without that lock: `BeginRange`, `PassOver` or `FindReady` per
room in any order, as `sync.Map.Range` promises none, and `FormTable`. `Hold`, `Release` and `BeginDrop`
are the writes to `held` with which their handlers begin; `Reply` is the count a hold answers with.
Upgrade, the NAME handshake, tokens and the choice of room precede `Connect` and touch nothing here. A
client may hang up at any time and nobody sees it before a sweep; a write after that may still
pass (`waiting_room.go:170`), so a sweep finds any subset of those who wait.

Properties:

* `TypeOK`: types, and that `wr.mu` is held exactly by the handler inside `GetConnections`.
* `OnePlace`: who was let in and not closed is in one place of the waiting room or at one table.
* `HoldRespected`: after a hold has been answered no game of the room forms until a release or
  drop of it begins. This holds although the hold does not take the lock: its answer does.
* `HandlersEnd`: every handler ends.
* `ImplementsLounge`: the refinement.
* `NamesUnique`, `CompleteRoomStarts`: what comments promise; refuted.

### SeatChannel
One seat of a game and the connections it has, over several games under one name.

| In the code | In the model |
|---|---|
| the program point of the game goroutine: idle, in the first `receive`, in that of NAME, in `WaitTakeover` | `pc` |
| which request is under way, whether it is the one sent again after a takeover | `cur`, `retry` |
| `Agent.Connection`, `Agent.HasError` | `conn`, `hasError` |
| `paused` and the two timers of `receive` | `paused`; a timer that runs may end at any time |
| `takeoverCh` of the seat in each game of `s.games` | `slot` |
| each reader goroutine and its `msgChan` | `reader`, `chan` |
| socket buffers in both directions | `inbox`, `wire` |
| what `SendPacket` returned | `result` |
| the viewer's `actionTimer`, `pauseRemainingMs`, `paused`, `pausedServer` (`demo-socket.ts`) | `screen`: `timer` (off, on, held), `paused`, `told`; `task` is the request the timer is for |
| a text sent by a timer that outlived its request | `stray` (history) |

`Request` is `SendPacket` up to its first wait, `TakeAnswer`, `TakeError`, `TakeName` and
`TimeOut` what a wait may end with, `TakeToken` and `PauseEnds` the pause. A message carries what it answers,
so that an answer to an earlier request is told from one to this. `Offer` is `handleTakeover`,
which looks through all games, those that are over too, because nothing ever leaves `s.games`. `Switch` is
what `WaitTakeover` does to the connection.

The clients are the repository's. The viewer (`Show`, `Speak`, `PauseHere`, `ResumeHere`) answers NAME at once, starts a
timer at each request, which the player's answer stops or which sends TIMEOUT, and holds that timer while paused. It does not
send unless a timer runs (`canAct` in `routes/demo/+page.svelte`). An agent (`Reply`) takes its packets one by one, as
`starter.py` does, and answers or not. Either may hang up. Left out: elapsed time, the keep-alive pings, the
freeform submissions of `starter.py` (they are `TalkSession`'s), the packets of a phase, the second try of a broadcast.

* `AnswersInStep`: what a request returns is the answer to that request, and never the answer to the NAME check. It lets go of
  a connection whose viewer's timer outlived its request.
* `ConnectionsAccounted`: who is connected is in the seat or in a takeover channel. One that stays in the channel of a finished
  game counts as accounted for, and is never closed in this code.
* `WaitsEnd`: each request ends.
* `TakeoverReachesSeat`: what comments promise; refuted.

What the exception of `AnswersInStep` stands for: `pause()` keeps the action timer in `pauseRemainingMs`. When the server ends the pause
by its budget (`agent.go:179`) and asks for the name, NAME is answered at once (`demo-socket.ts:380`), which clears only a timer
that runs; a later `resume()` arms the kept one again (`demo-socket.ts:255`) and TIMEOUT is sent with nothing asked. The next request
takes it for its answer, and every later answer on that connection falls one request behind. `HANDOFF.md:154` says that sending out of
turn is impossible by the protocol, and `routes/demo/+page.svelte:145` that one sends only while a request is pending.

### TalkSession
One talk or whisper phase, in either mode; `pc` starts as `"next"` (turn by turn) or `"chat"`.

| In the code | In the model |
|---|---|
| `remainCountMap`, `remainSkipMap`, `remainLengthMap` | `count`, `skip`, `length`, with `None` for an absent length |
| `HasError` and its effect on map keys | `err`, `Forget` |
| loop variables and `cnt` of `runTurnBased` | `order`, `at`, `active` |
| listener goroutines, `talkChannel`, the consumer, `ctx` | `listening`, `talkChan`, `consuming`, `expired` |
| the talk list | what the properties ask of it: `said`, `excess`, `tooLong`, `outrun`, `ended` |

A text is one of the three special ones or speech with two lengths, before a mention
and after one. `ProcessText` is the arithmetic of `processText` with `TrimLength` in its three ways of
counting; two of them slice with a negative bound and panic (`Crash`), the third returns the
whole text. Spaces that surround a mention are left out, as are packets and logs.

* `SaidWithinCount`, `OverIsFinal`: the count and the end of a seat's talking.
* `LengthHeld`: no trimmed talk exceeds `per_talk`, and together they do not exceed the length for the day. It says nothing of a
  talk that is not trimmed because the bound came to 0 or less.
* `UntrimmedIsLast`: such a talk is its seat's last, so a length for the day is outrun by one talk at most.
* `PhaseEnds`: the phase ends, if the server survives it.

What `LengthHeld` has to except, and what the models show beside the properties: with a length
overdrawn by `base_length` or more, a speech is recorded whole when non-space characters are
counted, and ends the server in the other two ways. An empty speech is recorded as
Over though the seat goes on. `max_skip` begins anew at each utterance. `per_day` counts rounds of
all seats (`doc/en/config.md:49` says utterances). A step of the consumer (`Consume`) is one step: that a listener
sets `HasError`, a part of the map keys, in the middle of it is not in the model.

### MatchOptimizer
The optimizer, `tryFormGame` when `is_optimize` is set, and the file. One process per connection: the handler
that adds it and tries to form a game, then the goroutine of the game it formed.

| In the code | In the model |
|---|---|
| `ScheduledMatches`, `EndedMatches`, `IdxTeamMap` | `sched`, `ended`, `teams` |
| `mo.mu` across `save`, `wr.mu` across `AddConnection` | `lock`, `roomLock` |
| the file: absent, truncated, or written | `file`: `Missing`, `Torn`, `Saved` |
| reads and saves that failed | `fails` (a bound), `lost` (history: no save has been whole since one failed) |
| `wr.connections`, its keys, and what a handler loaded of it | `waiting`, `present`, `saw`, `todo` |
| the matches `getMatches` returned, the one found ready | `offers`, `match` |

`save` is two steps with `mo.mu` held. It may fail before it truncates the file, and its write may fail and leave it torn; no
caller looks, so the model goes on in either case, as the code does. `GetConnectionsWithMatchOptimizer` takes no lock: each `Load`
and `Store` is a step, those of the look for a ready match too, and the empty slice `AddConnection` publishes first makes
a handler that takes it panic (`TakeNone`). `Crash` may come at any step and ends everything but the file; `Restart` reads
it, draws a new schedule when it cannot be read, or refuses to start when it cannot be parsed. The search for a schedule is random:
any matches may come. A handler that finds the schedule used up under `infinite_loop` stops in `append`. The keys a handler
visits after it has added its connection are those present at that moment, where `Range` may see later ones too.

* `ScheduleConserved`: each match drawn is scheduled or was played, as often as it was drawn.
* `FileKept`: between saves the file has the teams and the played matches the server has, and only a read or a save that failed,
  or a crash within a save, can make it otherwise or keep the server from starting.
* `PlayedStaysPlayed`: under the same condition the list of played matches only grows, over crashes too.
* `HandlersEnd`: without `infinite_loop` every handler and game ends.
* `ScheduleRefilled`: what `infinite_loop` promises; refuted.

Also seen: a crash within `save`, or a write that failed, leaves a file the server refuses to start from (`up = "refused"`); a
second table of a match that is being played can be formed, and its end finds nothing to take off the schedule; two handlers may take one connection into two games, or lose one that is added meanwhile.

### Lobby
The sessions of the lobby and, per room, what the game server makes of its calls.

| In the code | In the model |
|---|---|
| `Session.mode`, `size`, `human_slots`, the external agents, whether the host has a key | `table` (a member of `Scenes`) |
| `status`, `gate`, `ready`, `participants` | `status`, `gate`, `ready`, `here` |
| `ai_count` | `ais`, a set of that many sample AIs |
| the id and code are out with the response | `known` |
| `process`; `takeover_processes`; spawning that failed after its first group | `proc`; `extra`; `broken` |
| `queue`, `_lock` over an await | `queue`, `lock` |
| the call each request, the loop or a polling screen awaits, with its answer | `call` |
| calls nobody awaits (`_drop_gate`) | `drops` |
| the server's held rooms, who waits there, who plays | `held`, `seats`, `game` |
| who was let go, who was ready at that check, who came after it | `cleared`, `asked`, `late` (history) |

All modes are there: solo, spectate, multi, byo, and the older `/api/byo`, called `"direct"`. A table may have any number of
people, external agents and AIs, none of the latter too. Whoever has the code may join while `participants` are fewer than
`human_slots`, so a seat somebody left may be taken by somebody else, after the release as well.

The lobby is one asyncio program, so a step is what runs between two awaits of a call:
`SetReady`, `MaybeRelease` and `Released` are one request, `ScheduleNext` and `Spawn` one turn of
`_schedule`, `ReapHeld` and `Expire` one of `_reap`, `ViewAsk` and `ViewShown` one poll. `Serve` is the call at the server, `Lose` a call whose time
is up, served or not. What the clock decides (`Due`, `Abandon`) may happen at any time. `_schedule`
goes over a copy of the queue, again until it starts nothing; a slot that comes free during an await may so
go to any session in it. The game server serves a room first come, first seated. Left out: exit codes, purging of old sessions, claims of
external seats, publishing of logs, the shutdown; that a release may form another room's table (`WaitingRoom` has it); a call
that takes effect after its time is up; more than one poll at a time.

* `SlotsKept`: running sessions keep within the slots of their kind.
* `NoOrphans`: no AI of an ended session runs on: not its own, unless spawning failed half-way, and not those that took over
  seats, unless the session had no process of its own.
* `NobodyUnasked`: a game forms only after a check that let it go, and who sits at the table was ready at the last such
  check or came after it. It lets go of a room whose hold was refused or dropped (`lifted`) and of direct tables.
* `QueueServed`: whoever queues is started or leaves.
* `FullStarts`: what the docs promise; refuted.

The exceptions in these properties are cases the model has. A session killed while `_schedule` awaits its hold is
set running afterwards (`main.py:787-790`), and counts as running. A room all of whose agents are external can start
while it is queued, and the scheduler then holds it again. A hold whose answer is lost stays at the
server while the lobby has `gate = "off"`. The second group of AIs failing to spawn leaves the first running
(`main.py:1021-1043`). A session without AIs that meets its time limit keeps its takeover AIs (`main.py:1247-1253`). A direct
table with a human has no participant, so nobody can press it ready (`main.py:913`). Whoever takes the seat that somebody left after
the release plays without ever having pressed ready (`main.py:717`; `RUNBOOK.md:179` and `main.py:1758` ask for everybody's). A
direct table that queues has no hold yet, so its game may begin before anyone has let it go (`main.py:1660`; `main.py:647` avoids just
this for byo rooms, `RUNBOOK.md:222` keeps `/api/byo` for compatibility).

## 4. Runs

| Run | Shows | Bounds |
|---|---|---|
| `game` | all properties of `Game` but `TakenOverSeatPlaysOn` hold | five seats: two werewolves, bodyguard, seer, villager; the phases of `configs/server.yml`; days 0 to 2; two rounds of votes; the bodyguard is the human seat with one takeover; two errors stop the game |
| `game_takeover` | `TakenOverSeatPlaysOn` is violated | four seats, one human, one day |
| `waiting_room` | `TypeOK`, `OnePlace`, `HoldRespected`, `HandlersEnd`, `ImplementsLounge` hold | games of two; three connections of one room, two with one name; two calls of `/control`, each any of hold, release, drop on either of two rooms |
| `waiting_names` | `NamesUnique` is violated | two connections of one name, one call |
| `waiting_starts` | `CompleteRoomStarts` is violated | two connections in each of two rooms; hold and release of one of them; nobody is refused or hangs up |
| `seat_channel` | `TypeOK`, `AnswersInStep`, `ConnectionsAccounted`, `WaitsEnd` hold | two games of a human seat, its connections the viewer's, three requests in all, two takeover connections of agents, channels of two messages, one pause per connection |
| `takeover_lost` | `TakeoverReachesSeat` is violated | the same with one request and no pauses |
| `talk_session` | `TypeOK`, `SaidWithinCount`, `LengthHeld`, `OverIsFinal`, `UntrimmedIsLast`, `PhaseEnds` hold | two seats, one breaks; two utterances each, one skip, three rounds; free lengths of 1, one character beyond, `per_talk` 2; speech that is empty, too long, a long mention, or overdraws; non-space characters and all characters |
| `match_optimizer` | `TypeOK`, `ScheduleConserved`, `FileKept`, `PlayedStaysPlayed`, `HandlersEnd` hold | two teams, two matches of one role, of one team or of two; three connections; one crash; one read or save that fails; `infinite_loop` off, or on with two equal matches |
| `optimizer_loop` | `ScheduleRefilled` is violated | one match, two connections |
| `lobby` | `TypeOK`, `SlotsKept`, `NoOrphans`, `NobodyUnasked`, `QueueServed` hold | one slot of each kind. Two sessions: both on the server's LLM, both not, or one of each; or one: multi with two people, byo with a person and an agent, and, with one lost call, solo, spectate or byo with an agent. Only single sessions' rooms are polled |
| `lobby_start` | `FullStarts` is violated | one solo session, no lost calls |

`game`: five seats with two werewolves are the smallest table on which attack votes can tie and both
sides can win. Within the bounds all of these occur: ties and second rounds,
blocked attacks, an attack through a guard made by a taken-over bodyguard, execution of a seat in error, a
villager win, a werewolf win, a game stopped by errors though decided, and play that
goes on after a takeover. Day 0 has no deaths, so days 1 and 2 are one full cycle and one
that begins from its results. One human seat suffices: takeovers of
different seats do not interact in this code except through the error count.

`waiting_room`: three connections for games of two give a table with one left over, a refusal by name, a
handler that finds the table taken, and sweeps and drops around a table being formed; two calls
give each order of hold, release and drop. Two rooms make `Range` pass over one of them.

`seat_channel`: a late answer needs two requests, and a takeover in between a third; two games let an offer
go to the wrong one. Channels of two fill up with a late answer and a token. One pause is enough for one that the server
ends before the viewer resumes.

`talk_session`: lengths of 1 and speech of up to 4 pass each border of `processText`: within the free length,
beyond it, trimmed, overdrawn, not trimmed, a panic, cut by `per_talk` before and within a mention. Two utterances let a seat
try to speak after an untrimmed one. Two
seats give a seat that is done beside one that goes on, and a round of skips alone.

`match_optimizer`: of two equal matches, two games end in either order; two different ones are sorted by weight;
three connections put two handlers and a game at work at once, and let a team's key be deleted and made again between two loads of
another handler. The crash may come within `save`, or after a save that failed, when the server starts from a file that is
behind. `Drawn` bounds the schedules: equal matches are the ones that can be confused.

`lobby`: with one slot of each kind a second session of a kind has to wait for it, and one of the other kind must not. Two
people make one ready while the other is not, leaves or comes late; a third seat would add nothing, as the checks ask for all. One
lost call is each of the calls lost once: a solo table has hold, room, release and drop, a byo table the gate of its creation, and
spectate spawns two groups of AIs. `u1`, `u2` are people, not browsers: who leaves and comes again is another.

**Fairness.** In `Game`, `FairSpec` adds weak fairness of `Step`. One goroutine runs the game and each wait in
it has a limit: action and response time-outs, the takeover time-out, and a pause budget. `Done` is the
stuttering of a finished game, so deadlock checking stays on. In `WaitingRoom` each handler that has begun is weakly
fair: goroutines are scheduled and `sync.Mutex` hands over to a starved waiter. Nothing is assumed of clients, of the
lobby or of the sweeper, whose step is always possible, so deadlock checking stays on here too.
`SeatChannel` assumes only that the game goroutine and its timers go on. A player can pause again
and again within one wait, as each pause has a budget of its own; `WaitsEnd` rests on the bound on pauses. `Termination` of `Game` has the run's
day limit, where `configs/server.yml` has none (`max_day: -1`): without one it is the deaths that end a game, which nothing forces.
`TalkSession` assumes that turns end, which is `WaitsEnd`, and that the deadline of a group chat passes and
its goroutines run. `MatchOptimizer` assumes that goroutines run, that games end and that the server
is started again. `Lobby`'s `LoopSpec` assumes that the background loop goes round, that `asyncio.Lock` is fair, that each call has its
time limit, and that each session meets a limit of time; `FairSpec` replaces the last by the calls of people being
answered. In these four the system may stop, so deadlock is not checked.

### Findings

`game_takeover`: after a successful takeover the seat has a new connection, so
`isAlive` (`logic/common.go:198-200`) is false for it although nobody killed it. The AI gets
the request that was being made and then nothing but INITIALIZE, DAILY and FINISH packets; it is not asked,
cannot be voted for, and counts as alive for the winner. `configs/server.yml:108` and the
comment in `logic/common.go:114` say it carries on with the seat.

`waiting_names`: two handlers with one name both call `HasName` before either calls
`AddConnection` (`server.go:245`, `251`). The comment of `HasName` says that such
connections are refused, because logs and the takeover by name would mix the seats up.

`waiting_starts`: `tryFormGame` forms the first ready room `Range` meets. Room r, full and held, is
released; before that handler counts its seats, the connection that completes room q
calls `tryFormGame` and forms r; the release counts no seats and forms nothing. Room q is complete,
not held, and starts only when some other connection or release comes along. Comments
in `waiting_room.go:21` and `:115` say that a complete room without a hold starts at once.

`takeover_lost`: `handleTakeover` gives the connection to the first game, in any order, with a seat of that name
whose `takeoverCh` is empty. Games stay in `s.games` when they are over, and the lobby gives a person the
same name in each (`main.py:466`), so a takeover can be swallowed by a finished game while the seat waits
in vain. `server.go:161` and `game.go:268` say it reaches the seat that waits.

`optimizer_loop`: `getMatches` holds `mo.mu` and calls `append`, which locks it again
(`match_optimizer.go:142`, `:183`). With `infinite_loop` the first handler to find every match played stops for good, and
with it every later handler and the end of every game. `doc/en/config.md:111` says that games are added.

`lobby_start`: only `set_ready` looks whether all are ready and seated. When the AIs connect after the last press
of ready, nothing looks again and the room stays on hold until somebody presses start or ready
again, or it expires. `main.py:1745` and `RUNBOOK.md:188` say that it starts by itself.

## 5. Proofs

Each safety property and each action property a run checks, and both refinements, are theorems. The runs
show them on the instances of section 4; the theorems hold for every value of the constants that meets the `ASSUME`s of the module,
and, in `Game`, the named conditions on the configuration below.

### GameProofs
For all seats, roles, phases, day limits and takeovers:

* `TypeCorrect`: `TypeOK` is inductive as it stands. Its heart is that votes and results
  name only values found in the status map, and those are the registered ones, so writing
  DEAD never adds a key. From it everything else follows.
* `NobodyRevives`: `NoRevival`. A seat in play has its registered identity
  (`InPlayMeans`); identities only move on, with a later connection or an error
  (`StepLater`); and DEAD is never overwritten (`StepDeaths`).
* `GuardHolds`: `GuardedSurvive`. `GuardInv` adds that a guard is kept under an identity without an error, so that a
  bodyguard that was not taken over has the registered one, which `isAlive` finds (`NotGuarded`).
* `PlayStops` and `WinnerIsRight`: `NoPlayAfterDecision` and `WinnerMatchesVillage`. The
  inductive invariant `DecisionInv` adds where the village may be decided (only between
  the last action of a night phase and the end) and that no side is recorded before
  the loop is on its way out.
* `DeathsAreAnnounced`: `DeathsAnnounced`. `DeathInv` adds that those in the tally are alive, and that while an execution or
  an attack of the night is still to come (`Coming`) its result is empty: none overwrites an earlier one.
* `VillageRefinement`: `ImplementsVillage`. `VillageInv` joins `DeathInv` and `DecisionInv` and adds that nobody was attacked while an
  execution is still to come. An execution, an attack that succeeds, a new day and the way to FINISH are steps of
  `Village`; every other step leaves it as it is.

The last four take conditions on the configuration as hypotheses. The village is dealt undecided (`DealtOpen`), nobody dies by day
(`PeacefulDay`), a lethal action is the last of its phase (`DeathEndsPhase`), the night has at most one execution and
one attack (`OneOfEach`), the execution in an earlier phase (`ExecutionFirst`); `VillageTable` is all five. `configs/server.yml` has them:
its day is talk only, and its night is a phase that ends with the execution and one that ends with the attack.
`MCGame` assumes `VillageTable` of its own tables, so TLC evaluates it. They are needed: `executePhase` does not ask
`shouldFinish` between two actions, `progressNight` runs whatever `progressDay` found, and a `GameStatus` has room for one
executed and one attacked agent.

### WaitingRoomProofs
For any connections, calls of `/control` and rooms:

* `HoldsAreRespected`: `HoldRespected`. The inductive invariant has three parts: `CallsInv` (a handler serving a hold is answering it or has),
  `LockInv` (the lock is held by the one handler inside `GetConnections`, and a room is picked only
  there), `HoldInv` (a hold not followed by a release or drop is in the held map, and once answered
  its room is not picked). A handler that saw the room before the hold may have picked it; the answer
  waits for the lock, so by then that handler is gone.
* `TypesHold` and `NobodyLost`: `TypeOK` and `OnePlace`. `PlaceInv` says that the queues have no repetitions and share no connection with each other, with a
  table or with those outside, and that whoever went in is in one of them. A sweep keeps any part of a queue
  (`Keep`), a table takes its first `agent_count` (`CutSet`).
* `LoungeRefinement`: `ImplementsLounge`. From `PlaceInv`, the sets of connections outside, waiting, seated and closed
  are a partition, and each step of a handler moves connections between two of them as the abstract step does, or none.

### SeatChannelProofs
`TypeTheorem`, `ConnectionsTheorem` and `AnswerTheorem`, for any connections, viewers, games, requests, pauses
and capacity, from `SizeAssumption`, `ConnAssumption` (a connection starts at most one game), `ViewerAssumption` and
`EligibleAssumption`. `ConnInv` adds to the types that only viewers have timers (`ClientTyped`), that a connection not read yet has
brought nothing (`Fresh`) and that it sits in one slot at most (`OwnersInv`). `AnswerInv` says that the seat's connection is `stray` or all of it
is `Orderly`, which looks at all that connection has brought and no receive has taken
(`Pending`, the channel followed by the wire): while a request is open it holds no answer to an older one, and after
the last message the client owes (the answer, or the name when the name was asked for) nothing but tokens and
errors, with no timer on for another request (`AwaitInv`); when the seat is idle and sound it holds only those, and no timer of a request is
on (`IdleInv`). `AnswersInStep` alone is not inductive, since it says nothing of what is under
way; that the NAME check leaves nothing behind, but for the viewer's held timer, is the part a test does not reach. The lemmas `TailSound`, `AppendSound`,
`InsertOf` and `Moves` say how the moves of a message look from the receive's end.

### TalkSessionProofs
`TypeTheorem`, `CountTheorem`, `LengthTheorem`, `UntrimmedTheorem` and `OverTheorem`. The lemmas on `Trim`, `Cut` and
`ProcessText` bound what is left of a text by its length and by what remains, in each way of counting. The
inductive invariant adds to the types: what a seat said and what remains of its count do not
exceed `per_agent` together (`CountInv`); a seat that ended has no utterance left (`EndedInv`); what it said beyond the
free lengths, untrimmed talks aside, and what remains of its length do not exceed its length together, and once a break has
removed its entry it can say nothing (`LengthInv`); a seat that had a talk recorded untrimmed may not talk and is not being asked
(`OutrunInv`), so that talk is its last.

### MatchOptimizerProofs
* `PlayedTheorem` and `FileTheorem`: `PlayedStaysPlayed` and `FileKept`. The invariant is `FileKept` itself with the types (`TypedInv`), who is
  inside `save` (`LockInv`), and that whatever file can be parsed is typed, however old it is (`FileTyped`). A step that takes back what was
  played is a start from a file that is behind, and then `lost` is set. No save is assumed to succeed.
* `TypesHold` and `NoMatchLost`: `TypeOK` and `ScheduleConserved`. `DataInv` adds the same balance for what the file holds
  (`ScheduleHolds`), since a restart takes both lists from it, and that a handler about to store a slice has
  loaded one that is not empty (`RoomHolds`). How often a match occurs in a list is `Tally`; that the sort keeps it (`SplitTally`), that ending a match
  takes one occurrence and adds one (`RemoveTally`, `AppendTally`), are lemmas of `SubsequencesProofs`.

### LobbyProofs
`SlotsTheorem` and `OrphansTheorem`. Slots are counted before the await of a hold and taken
after it; that this is safe needs `StartingInv`: nobody but the scheduler, which holds `_lock`, makes a
session run, the session whose hold is awaited does not run, and its slot is free. `AliveInv` says that only a running
session has a process, unless spawning failed, and takeover AIs only while it runs or where it has no process of its own.

### LobbyReadyProofs
`TypesHold` and `ReadinessTheorem`, that is `TypeOK` and `NobodyUnasked`, on top of the invariant of `LobbyProofs`. A session is
`Cleared` when its room's hold was lifted, or when a check let it go and every person at its table was ready at that check or
came later (`AskedAll`); a cleared session stays so. `GuardInv` says that a room is held or its session
cleared (`Guarded`) before anyone can complete it: before the AIs' process is started, before the id of a byo room goes
out (until then its gate is being asked for, `Asking`), and whenever a call that may end in a release is on its way, because whoever makes it has seen all of them
ready. What was read before an await may be out of date after it, and that is where latecomers and people who take back their
ready are: the theorem excepts the former, and asks of the latter that they were ready at the check. `RestTyped`,
`QueueInv` and `CallInv` hold the shapes this needs: types, nobody queued twice before its session begins, and what kind of
session and caller is behind each kind of call.

### SubsequencesProofs
What the others use about slices: `Keep` is a bijection with the positions it keeps (`KeepBijection`), so it keeps
order, elements and the absence of repetitions; tallies of concatenations, removals and splits; appending to and cutting a slice
without repetitions. Induction is not available, so `Rank` and `Nth` number the positions by counting
(`NthBijection`).

### Only model-checked
`Termination`, `HandlersEnd`, `WaitsEnd`, `PhaseEnds` and `QueueServed`: liveness under fairness is out of the prover's reach. The
properties the code violates are refuted by their runs.

## 6. Not modelled

Inside modelled components: the bodies of packets (`Info`, the day's talks a client is sent, the history resent at a takeover), roles and
profiles handed out, matching by team, the random search for a schedule, the shutdown of both servers, claims of external
seats, purging of ended sessions, publishing of logs.

Of the clients, the LLM agent and the demo viewer, `SeatChannel` has what they send and when, and `TalkSession` any submission; what
they say, show and remember is left out.

Components: the loggers and the realtime stream (writers of files; each line rewrites its file whole), profiles, speech synthesis and tokens (calls to outside services and cryptography), the analyzer (offline), configuration
(its values are the constants), prompt provider, viewers of logs, pages, scripts. They hold no state the rest depends
on. `PROJECT.json` lists every component and every hazard, with the property that covers it or the reason why none does.
