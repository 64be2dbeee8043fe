--------------------------- MODULE MatchOptimizer ---------------------------
(***************************************************************************)
(* Matching by the optimizer (core/match_optimizer.go, with tryFormGame    *)
(* and GetConnectionsWithMatchOptimizer): connection handlers and game     *)
(* goroutines share the schedule under mo.mu, and the waiting room whose   *)
(* mu only AddConnection takes.  Every change is saved by truncating the   *)
(* file and writing it anew, which may fail and tell nobody; the server    *)
(* may crash at any time and is then started again.                        *)
(*                                                                         *)
(* A match gives each role its teams, as indices.  The search for a good   *)
(* schedule is random and is left out: any GameCount matches may come.     *)
(***************************************************************************)
EXTENDS Integers, Sequences, FiniteSets, SequencesExt, Subsequences

CONSTANTS
  Conns,      \* connections that may arrive
  TeamOf,     \* the team of each connection
  Teams,
  RoleNum,    \* how many teams each role has in a match
  TeamCount, GameCount,
  Loops,      \* the values infinite_loop may have
  Drawn,      \* bound: the schedules that may be drawn, by infinite_loop
  Crashes,    \* bound: crashes of the server
  Fails,      \* bound: reads and saves of the file that fail
  Nobody      \* not a connection: a lock is free

Idxs == 0..TeamCount - 1
Roles == DOMAIN RoleNum

ASSUME ConnAssumption == Nobody \notin Conns /\ TeamOf \in [Conns -> Teams]
ASSUME CountAssumption ==
  /\ TeamCount \in Nat \ {0} /\ GameCount \in Nat \ {0}
  /\ Crashes \in Nat /\ Fails \in Nat
ASSUME RoleAssumption == RoleNum \in [Roles -> Nat \ {0}]
ASSUME LoopAssumption == Loops \subseteq BOOLEAN

Matches ==
  {m \in [Roles -> SUBSET Idxs] :
     /\ \A r \in Roles : Cardinality(m[r]) = RoleNum[r]
     /\ \A r, s \in Roles : r # s => m[r] \cap m[s] = {}}
Schedules == [1..GameCount -> [match : Matches, weight : {1}]]

ASSUME DrawnAssumption == Drawn \in [BOOLEAN -> SUBSET Schedules]

VARIABLES
  up,        \* the server: "up", "down", on its way up, or "refused" to start
  crashes,   \* bound: crashes so far
  fails,     \* bound: failed reads and saves so far
  infinite,  \* InfiniteLoop
  teams,     \* IdxTeamMap: index i is at i + 1
  sched,     \* ScheduledMatches
  ended,     \* EndedMatches
  lock,      \* holder of mo.mu across steps
  file,      \* output_path
  plan,      \* history: the schedule as it was drawn, kept with its file
  lost,      \* history: no save has been whole since a read or a save failed
  waiting,   \* wr.connections
  present,   \* its keys; what it has for another team is []
  roomLock,  \* holder of wr.mu across steps
  pc,        \* where each handler is; then the goroutine of the game it formed
  saw,       \* the slice each handler loaded
  todo,      \* teams each handler has still to visit
  offers,    \* what getMatches returned to each handler
  match      \* the match each handler found ready, as team names

moVars == <<infinite, teams, sched, ended>>
fileVars == <<file, fails, lost>>
roomVars == <<waiting, present, roomLock>>
localVars == <<saw, todo, offers, match>>
vars == <<up, crashes, moVars, lock, fileVars, plan, roomVars, pc, localVars>>

Missing == [kind |-> "missing"]
Torn == [kind |-> "torn"]
Saved == [kind |-> "saved", infinite |-> infinite, teams |-> teams, sched |-> sched,
          ended |-> ended, plan |-> plan]
NoMatch == [r \in Roles |-> {}]

\* NewMatchOptimizerFromConfig, whose save may fail.
Init ==
  /\ up = "up" /\ crashes = 0
  /\ infinite \in Loops /\ teams = <<>>
  /\ sched \in Drawn[infinite] /\ ended = <<>> /\ plan = sched
  /\ lock = Nobody
  /\ \/ file = Saved /\ fails = 0 /\ lost = FALSE
     \/ Fails > 0 /\ file \in {Missing, Torn} /\ fails = 1 /\ lost = TRUE
  /\ waiting = [t \in Teams |-> <<>>] /\ present = {} /\ roomLock = Nobody
  /\ pc = [c \in Conns |-> "new"]
  /\ saw = [c \in Conns |-> <<>>] /\ todo = [c \in Conns |-> {}]
  /\ offers = [c \in Conns |-> <<>>] /\ match = [c \in Conns |-> NoMatch]
-----------------------------------------------------------------------------
Running(c, l) == up = "up" /\ pc[c] = l
Goto(c, l) == pc' = [pc EXCEPT ![c] = l]
Locked(c, l) == Running(c, l) /\ lock = Nobody

SaveNext(l) == IF l = "saved" THEN "register" ELSE "done"

SaveStuck(c) ==   \* variant: returns without giving mo.mu back
  lock' = lock /\ Goto(c, SaveNext(pc[c]))

SaveReturn(c) == lock' = Nobody /\ Goto(c, SaveNext(pc[c]))

\* A read or a save fails, and no caller looks at the error.
Fail == fails < Fails /\ fails' = fails + 1 /\ lost' = TRUE

\* save truncates the file, or fails before that and leaves it as it is.
Save(c, l) ==
  \/ lock' = c /\ file' = Torn /\ Goto(c, l) /\ UNCHANGED <<fails, lost>>
  \/ Fail /\ Goto(c, SaveNext(l)) /\ UNCHANGED <<lock, file>>

\* The file is filled, or what Write returns is not looked at.
Write ==
  \/ file' = Saved /\ lost' = FALSE /\ UNCHANGED fails
  \/ Fail /\ UNCHANGED file

SaveWrite(c) ==
  /\ up = "up" /\ lock = c /\ pc[c] \in {"saved", "over"}
  /\ Write
  /\ SaveReturn(c)
  /\ UNCHANGED <<up, crashes, moVars, plan, roomVars, localVars>>
-----------------------------------------------------------------------------
(* AddConnection, under wr.mu.                                             *)

AddLoad(c) ==
  /\ Running(c, "new") /\ roomLock = Nobody
  /\ roomLock' = c
  /\ present' = present \cup {TeamOf[c]}   \* LoadOrStore of an empty slice
  /\ saw' = [saw EXCEPT ![c] = waiting[TeamOf[c]]]
  /\ Goto(c, "add")
  /\ UNCHANGED <<up, crashes, moVars, lock, fileVars, plan, waiting, todo, offers, match>>

AddStore(c) ==
  /\ Running(c, "add")
  /\ waiting' = [waiting EXCEPT ![TeamOf[c]] = Append(saw[c], c)]
  /\ present' = present \cup {TeamOf[c]}
  /\ roomLock' = Nobody
  /\ saw' = [saw EXCEPT ![c] = <<>>]
  /\ todo' = [todo EXCEPT ![c] = present']
  /\ Goto(c, "register")
  /\ UNCHANGED <<up, crashes, moVars, lock, fileVars, plan, offers, match>>
-----------------------------------------------------------------------------
(* tryFormGame: updateTeam for every key of the waiting room, in any order. *)

TurnedIfFull(t) ==   \* variant: the team is not looked up first
  Len(teams) >= TeamCount

Turned(t) == t \in ToSet(teams) \/ Len(teams) >= TeamCount

SaveTeamNever(c) == UNCHANGED <<lock, fileVars, pc>>   \* variant: not saved

SaveTeam(c) == Save(c, "saved")

UpdateTeam(c) ==
  /\ Locked(c, "register")
  /\ \E t \in todo[c] :
       /\ todo' = [todo EXCEPT ![c] = @ \ {t}]
       /\ IF Turned(t)
          THEN UNCHANGED <<teams, lock, fileVars, pc>>
          ELSE teams' = Append(teams, t) /\ SaveTeam(c)
  /\ UNCHANGED <<up, crashes, infinite, sched, ended, plan, roomVars, saw, offers, match>>

NameOf(i) == IF i < Len(teams) THEN teams[i + 1] ELSE ""
IdxMatchToTeamNameMatch(m) == [r \in Roles |-> {NameOf(i) : i \in m[r]}]
TeamToIdx(t) == IF t \in ToSet(teams) THEN (CHOOSE i \in Idxs : NameOf(i) = t) ELSE -1
TeamNameMatchToIdxMatch(m) == [r \in Roles |-> {TeamToIdx(t) : t \in m[r]}]

TeamsIn(m) == UNION {m[r] : r \in Roles}
Wanted(o) == IF o = <<>> THEN {} ELSE TeamsIn(Head(o))

Positive == {i \in DOMAIN sched : sched[i].weight > 0}

\* The matches in the order before the sort, those that run or were aborted too;
\* the sort keeps equals in order, as it does for so few.
GetMatches(c) ==
  /\ Locked(c, "register") /\ todo[c] = {}
  /\ Positive # {} \/ ~infinite
  /\ offers' = [offers EXCEPT ![c] =
                  [i \in DOMAIN sched |-> IdxMatchToTeamNameMatch(sched[i].match)]]
  /\ todo' = [todo EXCEPT ![c] = Wanted(offers'[c])]
  /\ sched' = Keep(sched, Positive) \o Keep(sched, DOMAIN sched \ Positive)
  /\ Goto(c, "find")
  /\ UNCHANGED <<up, crashes, infinite, teams, ended, lock, fileVars, plan, roomVars,
                 saw, match>>

\* append takes mo.mu, which getMatches holds: nobody gets past it again.
AppendWithinLock(c) ==
  /\ Locked(c, "register") /\ todo[c] = {}
  /\ Positive = {} /\ infinite
  /\ lock' = c
  /\ Goto(c, "append")
  /\ UNCHANGED <<up, crashes, moVars, fileVars, plan, roomVars, localVars>>
-----------------------------------------------------------------------------
(* GetConnectionsWithMatchOptimizer, without wr.mu.                        *)

\* The matches one by one, and the teams of one, each looked up by itself.
FindReady(c) ==
  /\ Running(c, "find")
  /\ \/ /\ offers[c] = <<>>
        /\ Goto(c, "done")
        /\ UNCHANGED <<offers, todo, match>>
     \/ /\ offers[c] # <<>> /\ todo[c] = {}
        /\ match' = [match EXCEPT ![c] = Head(offers[c])]
        /\ todo' = [todo EXCEPT ![c] = Wanted(offers[c])]
        /\ offers' = [offers EXCEPT ![c] = <<>>]
        /\ Goto(c, "take")
     \/ offers[c] # <<>> /\ \E t \in todo[c] :
          /\ IF t \in present /\ waiting[t] # <<>>
             THEN todo' = [todo EXCEPT ![c] = @ \ {t}] /\ UNCHANGED offers
             ELSE /\ offers' = [offers EXCEPT ![c] = Tail(@)]
                  /\ todo' = [todo EXCEPT ![c] = Wanted(Tail(offers[c]))]
          /\ UNCHANGED <<match, pc>>
  /\ UNCHANGED <<up, crashes, moVars, lock, fileVars, plan, roomVars, saw>>

\* A team that is gone by now is passed over, and its seat with it.
PassOver(c, t) ==
  /\ t \notin present
  /\ todo' = [todo EXCEPT ![c] = @ \ {t}]
  /\ match' = [match EXCEPT ![c] = [r \in Roles |-> @[r] \ {t}]]
  /\ UNCHANGED <<saw, pc>>

\* connections[0] of the empty slice AddConnection begins with: the panic ends
\* the handler, and what it has taken is nobody's.
TakeNone(c, t) ==
  /\ t \in present /\ waiting[t] = <<>>
  /\ Goto(c, "done")
  /\ UNCHANGED <<todo, match, saw>>

TakeLoad(c) ==
  /\ Running(c, "take")
  /\ \E t \in todo[c] :
       \/ PassOver(c, t) \/ TakeNone(c, t)
       \/ /\ t \in present /\ waiting[t] # <<>>
          /\ saw' = [saw EXCEPT ![c] = waiting[t]]
          /\ Goto(c, "store") /\ UNCHANGED <<todo, match>>
  /\ UNCHANGED <<up, crashes, moVars, lock, fileVars, plan, roomVars, offers>>

\* The rest is stored, or the key deleted when nothing is left.
TakeStore(c) ==
  /\ Running(c, "store")
  /\ LET t == TeamOf[saw[c][1]] IN
       /\ waiting' = [waiting EXCEPT ![t] = Tail(saw[c])]
       /\ present' = IF Tail(saw[c]) = <<>> THEN present \ {t} ELSE present \cup {t}
       /\ todo' = [todo EXCEPT ![c] = @ \ {t}]
  /\ saw' = [saw EXCEPT ![c] = <<>>]
  /\ Goto(c, "take")
  /\ UNCHANGED <<up, crashes, moVars, lock, fileVars, plan, roomLock, offers, match>>

Play(c) ==
  /\ Running(c, "take") /\ todo[c] = {}
  /\ Goto(c, "play")
  /\ UNCHANGED <<up, crashes, moVars, lock, fileVars, plan, roomVars, localVars>>
-----------------------------------------------------------------------------
(* The goroutine of the game: setMatchEnd, or setMatchWeight to 0.         *)

Found(c) ==
  {i \in DOMAIN sched : sched[i].match = TeamNameMatchToIdxMatch(match[c])}
FirstFound(c) == CHOOSE i \in Found(c) : \A j \in Found(c) : i <= j

WithoutEqual(c) ==   \* variant: drops every match equal to the one played
  SelectSeq(sched, LAMBDA m : m.match # TeamNameMatchToIdxMatch(match[c]))

Without(c) == RemoveAt(sched, FirstFound(c))

SaveLost(c) ==   \* variant: the change is not saved
  Goto(c, "done") /\ UNCHANGED <<lock, fileVars>>

SaveEnd(c) == Save(c, "over")

NotFound(c) ==
  /\ Locked(c, "play") /\ Found(c) = {}
  /\ Goto(c, "done")
  /\ UNCHANGED <<up, crashes, moVars, lock, fileVars, plan, roomVars, localVars>>

SetMatchEnd(c) ==
  /\ Locked(c, "play") /\ Found(c) # {}
  /\ sched' = Without(c)
  /\ ended' = Append(ended, TeamNameMatchToIdxMatch(match[c]))
  /\ SaveEnd(c)
  /\ UNCHANGED <<up, crashes, infinite, teams, plan, roomVars, localVars>>

SetMatchWeight(c) ==
  /\ Locked(c, "play") /\ Found(c) # {}
  /\ sched' = [sched EXCEPT ![FirstFound(c)].weight = 0]
  /\ SaveEnd(c)
  /\ UNCHANGED <<up, crashes, infinite, teams, ended, plan, roomVars, localVars>>
-----------------------------------------------------------------------------
(* Crash and restart.  Connections and games do not outlive the server.    *)

\* A file is being written.
Saving == up = "resave" \/ \E c \in Conns : pc[c] \in {"saved", "over"}

Crash ==
  /\ up \in {"up", "loaded", "resave"} /\ crashes < Crashes
  /\ crashes' = crashes + 1
  /\ up' = "down"
  /\ lost' = (lost \/ Saving)
  /\ lock' = Nobody /\ roomLock' = Nobody
  /\ waiting' = [t \in Teams |-> <<>>] /\ present' = {}
  /\ pc' = [c \in Conns |-> IF pc[c] = "new" THEN "new" ELSE "done"]
  /\ saw' = [c \in Conns |-> <<>>] /\ todo' = [c \in Conns |-> {}]
  /\ offers' = [c \in Conns |-> <<>>] /\ match' = [c \in Conns |-> NoMatch]
  /\ UNCHANGED <<moVars, file, fails, plan>>

Reload ==
  /\ file.kind = "saved"
  /\ up' = "loaded"
  /\ infinite' = file.infinite /\ teams' = file.teams
  /\ sched' = file.sched /\ ended' = file.ended /\ plan' = file.plan
  /\ UNCHANGED <<fails, lost>>

\* A file that is not there, or cannot be read, is no error: the schedule is
\* drawn anew.
DrawAnew ==
  /\ \/ file.kind = "missing" /\ UNCHANGED <<fails, lost>>
     \/ Fail
  /\ up' = "loaded"
  /\ teams' = <<>> /\ ended' = <<>>
  /\ sched' \in Drawn[infinite] /\ plan' = sched'
  /\ UNCHANGED infinite

\* A file that is read but cannot be parsed is: the server is not made.
Refuse ==
  /\ file.kind = "torn"
  /\ up' = "refused"
  /\ UNCHANGED <<moVars, plan, fails, lost>>

\* NewMatchOptimizer.
Restart ==
  /\ up = "down"
  /\ Reload \/ DrawAnew \/ Refuse
  /\ UNCHANGED <<crashes, lock, file, roomVars, pc, localVars>>

\* It ends with a save.
Resave ==
  /\ \/ /\ up = "loaded"
        /\ \/ up' = "resave" /\ file' = Torn /\ UNCHANGED <<fails, lost>>
           \/ up' = "up" /\ Fail /\ UNCHANGED file
     \/ /\ up = "resave"
        /\ up' = "up" /\ Write
  /\ UNCHANGED <<crashes, moVars, lock, plan, roomVars, pc, localVars>>
-----------------------------------------------------------------------------
Handle(c) ==
  \/ AddLoad(c) \/ AddStore(c) \/ UpdateTeam(c) \/ SaveWrite(c)
  \/ GetMatches(c) \/ AppendWithinLock(c) \/ FindReady(c) \/ TakeLoad(c) \/ TakeStore(c)
  \/ Play(c) \/ NotFound(c) \/ SetMatchEnd(c) \/ SetMatchWeight(c)

Next ==
  \/ \E c \in Conns : Handle(c)
  \/ Crash \/ Restart \/ Resave

Spec == Init /\ [][Next]_vars

\* Goroutines run; connections need not arrive, and games end (see Game).
FairSpec ==
  Spec /\ WF_vars(Restart \/ Resave) /\ \A c \in Conns : WF_vars(pc[c] # "new" /\ Handle(c))
-----------------------------------------------------------------------------
(* Properties.                                                             *)

TypeOK ==
  /\ up \in {"up", "down", "loaded", "resave", "refused"}
  /\ crashes \in 0..Crashes /\ fails \in 0..Fails /\ lost \in BOOLEAN
  /\ infinite \in BOOLEAN
  /\ teams \in Seq(Teams) /\ Len(teams) <= TeamCount /\ IsInjective(teams)
  /\ sched \in Seq([match : Matches, weight : {0, 1}])
  /\ ended \in Seq(Matches)
  /\ lock \in Conns \cup {Nobody} /\ roomLock \in Conns \cup {Nobody}
  /\ file.kind \in {"missing", "torn", "saved"}
  /\ waiting \in [Teams -> Seq(Conns)] /\ present \subseteq Teams
  /\ todo \in [Conns -> SUBSET (Teams \cup {""})]
  /\ \A c \in Conns : pc[c] = "store" => saw[c] # <<>>

Times(s, m) == Cardinality({i \in DOMAIN s : s[i] = m})
TimesScheduled(s, m) == Cardinality({i \in DOMAIN s : s[i].match = m})

\* Every match first drawn is scheduled or has been played, as many times as
\* it was drawn, whatever games end at once, are aborted or are lost in a
\* crash (setMatchEnd, setMatchWeight, NewMatchOptimizer).
ScheduleConserved ==
  \A m \in Matches :
    TimesScheduled(sched, m) + Times(ended, m) = TimesScheduled(plan, m)

\* What was played stays played, and by the same teams, over crashes and
\* restarts, unless the file could not be read or the last save was cut short:
\* save tells nobody that it failed (match_optimizer.go:255-267).
PlayedStaysPlayed ==
  [][lost' \/ (IsPrefix(ended, ended') /\ IsPrefix(teams, teams'))]_vars

\* Whenever no save is under way the file has the teams and the matches played
\* that the server has, and only a read or a save that failed, or a crash
\* within a save, can make it otherwise or keep the server from starting
\* (match_optimizer.go:97-111, 253-269).
FileKept ==
  /\ ~lost /\ ~Saving => file.kind = "saved" /\ file.teams = teams /\ file.ended = ended
  /\ up = "refused" => lost

\* Once no schedule is to be drawn anew, every handler and every game gets to
\* its end, unless the server is gone.
HandlersEnd ==
  []<>(infinite \/ up = "refused" \/ \A c \in Conns : pc[c] \in {"new", "done"})

\* With infinite_loop games go on being added when all have been played
\* (doc/en/config.md:111): no handler is stuck for ever in doing so.
ScheduleRefilled == []<>(\A c \in Conns : pc[c] \in {"new", "done"})

=============================================================================
