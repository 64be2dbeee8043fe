---------------------------- MODULE WaitingRoom ----------------------------
(***************************************************************************)
(* The waiting room of the game server under room_match                    *)
(* (core/waiting_room.go, core/server.go): one handler goroutine per       *)
(* connection, one per call of /control, and the sweeper.  Each handler is *)
(* cut at the lock: between two regions under wr.mu, and around the held   *)
(* map, which wr.mu does not guard, any other handler may run.             *)
(*                                                                         *)
(* Clients, the lobby and the network are external: a client may hang up   *)
(* at any time and the lobby may call in any order.                        *)
(***************************************************************************)
EXTENDS Integers, Sequences, FiniteSets, SequencesExt, Subsequences

CONSTANTS
  Conns,     \* connections that may arrive
  Calls,     \* bound: calls of /control
  Rooms,     \* ?room= values
  RoomOf,    \* the room of each connection
  NameOf,    \* the name each client answers to NAME
  TableSize, \* game.agent_count
  Nobody     \* not a handler: the lock is free

ASSUME ConnAssumption ==
  /\ IsFiniteSet(Conns) /\ Conns \cap Calls = {} /\ Nobody \notin Conns \cup Calls
  /\ RoomOf \in [Conns -> Rooms] /\ NameOf \in [Conns -> STRING]
ASSUME SizeAssumption == TableSize \in Nat \ {0}

Handlers == Conns \cup Calls
Ops == {"hold", "release", "drop"}
Job == [op : Ops, room : Rooms]
NoJob == [op |-> "none"]

VARIABLES
  pc,       \* where each handler is
  job,      \* the call each /control handler serves
  lock,     \* holder of wr.mu across steps
  unseen,   \* keys that Range has not visited yet, for the holder
  pick,     \* the room the holder found ready, as a set of at most one
  waiting,  \* wr.connections: [] for an absent key
  held,     \* wr.held
  closed,   \* connections the server has closed
  tables    \* the connections of each game formed

scanVars == <<lock, unseen, pick>>
vars == <<pc, job, scanVars, waiting, held, closed, tables>>

Seats(r) == ToSet(waiting[r])
Free == lock = Nobody
Goto(p, l) == pc' = [pc EXCEPT ![p] = l]

Init ==
  /\ pc = [p \in Handlers |-> IF p \in Conns THEN "new" ELSE "idle"]
  /\ job = [k \in Calls |-> NoJob]
  /\ lock = Nobody /\ unseen = {} /\ pick = {}
  /\ waiting = [r \in Rooms |-> <<>>]
  /\ held = {}
  /\ closed = {} /\ tables = {}
-----------------------------------------------------------------------------
(* handleConnections.                                                      *)

HasName(r, n) == \E c \in Seats(r) : NameOf[c] = n

\* The client has answered NAME and its name is looked up.
Connect(c) ==
  /\ pc[c] = "new" /\ Free
  /\ IF HasName(RoomOf[c], NameOf[c])
     THEN Goto(c, "done") /\ closed' = closed \cup {c}
     ELSE Goto(c, "add") /\ UNCHANGED closed
  /\ UNCHANGED <<job, scanVars, waiting, held, tables>>

AddConnection(c) ==
  /\ pc[c] = "add" /\ Free
  /\ waiting' = [waiting EXCEPT ![RoomOf[c]] = Append(@, c)]
  /\ Goto(c, "form")
  /\ UNCHANGED <<job, scanVars, held, closed, tables>>
-----------------------------------------------------------------------------
(* tryFormGame: GetConnections ranges over the rooms in any order with the *)
(* lock held and takes the seats of the first that is ready.  A hold can   *)
(* come between the look at held and the taking.                           *)

IsHeld(r) == r \in held
Ready(r) == ~IsHeld(r) /\ Len(waiting[r]) >= TableSize

BeginRange(p) ==
  /\ pc[p] = "form" /\ Free
  /\ lock' = p /\ unseen' = Rooms
  /\ Goto(p, "range")
  /\ UNCHANGED <<job, pick, waiting, held, closed, tables>>

FindReady(p) ==
  /\ pc[p] = "range"
  /\ \E r \in unseen : Ready(r) /\ pick' = {r}
  /\ unseen' = {}
  /\ Goto(p, "take")
  /\ UNCHANGED <<job, lock, waiting, held, closed, tables>>

PassOverLocked(p) ==   \* variant: returns without unlocking
  /\ pc[p] = "range"
  /\ \E r \in unseen :
       /\ ~Ready(r)
       /\ unseen' = unseen \ {r}
       /\ IF unseen = {r} THEN Goto(p, "done") ELSE UNCHANGED pc
  /\ UNCHANGED <<job, lock, pick, waiting, held, closed, tables>>

\* Passes over a room; after the last one it returns and unlocks.
PassOver(p) ==
  /\ pc[p] = "range"
  /\ \E r \in unseen :
       /\ ~Ready(r)
       /\ unseen' = unseen \ {r}
       /\ IF unseen = {r} THEN lock' = Nobody /\ Goto(p, "done")
                          ELSE UNCHANGED <<lock, pc>>
  /\ UNCHANGED <<job, pick, waiting, held, closed, tables>>

RestOverlapping(r) ==   \* variant: off by one, the last seat taken stays
  SubSeq(waiting[r], TableSize, Len(waiting[r]))

Rest(r) == SubSeq(waiting[r], TableSize + 1, Len(waiting[r]))

FormTable(p) ==
  /\ pc[p] = "take"
  /\ \E r \in pick :
       /\ tables' = tables \cup {ToSet(SubSeq(waiting[r], 1, TableSize))}
       /\ waiting' = [waiting EXCEPT ![r] = Rest(r)]
  /\ lock' = Nobody /\ pick' = {}
  /\ Goto(p, "done")
  /\ UNCHANGED <<job, unseen, held, closed>>
-----------------------------------------------------------------------------
(* Sweep: each waiting connection is written to.  Clients may have hung up *)
(* at any time, and a write after that may still pass, so any of them can  *)
(* be the ones found gone.                                                 *)

Waiting == UNION {Seats(r) : r \in Rooms}

SweepKeepsClosed(S) ==   \* variant: closed but left in the slice
  /\ closed' = closed \cup S
  /\ UNCHANGED waiting

Staying(r, S) == {i \in DOMAIN waiting[r] : waiting[r][i] \notin S}

SweepOut(S) ==
  /\ closed' = closed \cup S
  /\ waiting' = [r \in Rooms |-> Keep(waiting[r], Staying(r, S))]

Sweeping ==
  /\ Free
  /\ \E S \in SUBSET Waiting : SweepOut(S)

\* The goroutine of Run.
Sweep ==
  /\ Sweeping
  /\ UNCHANGED <<pc, job, scanVars, held, tables>>
-----------------------------------------------------------------------------
(* The handlers of /control.                                               *)

Begin(k, op, l) ==
  /\ pc[k] = "idle"
  /\ \E r \in Rooms :
       /\ job' = [job EXCEPT ![k] = [op |-> op, room |-> r]]
       /\ held' = IF op = "hold" THEN held \cup {r} ELSE held \ {r}
  /\ Goto(k, l)
  /\ UNCHANGED <<scanVars, waiting, closed, tables>>

HoldAtOnce(k) == Begin(k, "hold", "done")   \* variant: replies without Seats

Hold(k) == Begin(k, "hold", "reply")
Release(k) == Begin(k, "release", "sweep")
BeginDrop(k) == Begin(k, "drop", "drop")

ReleaseSweep(k) ==
  /\ pc[k] = "sweep"
  /\ Sweeping
  /\ Goto(k, "count")
  /\ UNCHANGED <<job, scanVars, held, tables>>

ReleaseCountRetries(k) ==   \* variant: sweeps again until the room is full
  /\ pc[k] = "count" /\ Free
  /\ Goto(k, IF Len(waiting[job[k].room]) >= TableSize THEN "form" ELSE "sweep")
  /\ UNCHANGED <<job, scanVars, waiting, held, closed, tables>>

ReleaseCount(k) ==
  /\ pc[k] = "count" /\ Free
  /\ Goto(k, IF Len(waiting[job[k].room]) >= TableSize THEN "form" ELSE "done")
  /\ UNCHANGED <<job, scanVars, waiting, held, closed, tables>>

Drop(k) ==
  /\ pc[k] = "drop" /\ Free
  /\ closed' = closed \cup Seats(job[k].room)
  /\ waiting' = [waiting EXCEPT ![job[k].room] = <<>>]
  /\ Goto(k, "done")
  /\ UNCHANGED <<job, scanVars, held, tables>>

\* The count in the reply to a hold is made under the lock.  That of a release
\* is left out: it follows its last step.
Reply(k) ==
  /\ pc[k] = "reply" /\ Free
  /\ Goto(k, "done")
  /\ UNCHANGED <<job, scanVars, waiting, held, closed, tables>>
-----------------------------------------------------------------------------
Form(p) == BeginRange(p) \/ FindReady(p) \/ PassOver(p) \/ FormTable(p)

Handle(p) ==
  \/ p \in Conns /\ AddConnection(p)
  \/ p \in Calls /\ (ReleaseSweep(p) \/ ReleaseCount(p) \/ Drop(p) \/ Reply(p))
  \/ Form(p)

Next ==
  \/ \E c \in Conns : Connect(c)
  \/ \E k \in Calls : Hold(k) \/ Release(k) \/ BeginDrop(k)
  \/ \E p \in Handlers : Handle(p)
  \/ Sweep

Spec == Init /\ [][Next]_vars

\* Goroutines that are not blocked run, and Mutex.Lock is not starved.
Fairness == \A p \in Handlers : WF_vars(Handle(p))
FairSpec == Spec /\ Fairness
-----------------------------------------------------------------------------
(* Properties.                                                             *)

\* Types; wr.mu is held exactly while its holder is inside GetConnections.
TypeOK ==
  /\ pc \in [Handlers -> {"new", "add", "form", "range", "take", "idle",
                          "sweep", "count", "drop", "reply", "done"}]
  /\ job \in [Calls -> Job \cup {NoJob}]
  /\ lock \in Handlers \cup {Nobody} /\ unseen \subseteq Rooms /\ pick \subseteq Rooms
  /\ waiting \in [Rooms -> Seq(Conns)]
  /\ held \subseteq Rooms
  /\ closed \subseteq Conns
  /\ tables \subseteq SUBSET Conns
  /\ \A p \in Handlers : pc[p] \in {"range", "take"} <=> lock = p

Wait == {<<r, i>> : r \in Rooms, i \in 1..Cardinality(Conns)}
Places(c) == {w \in Wait : w[2] \in DOMAIN waiting[w[1]] /\ waiting[w[1]][w[2]] = c}

\* A connection that was let in and not closed sits in exactly one place of
\* the waiting room or at exactly one table, and any other in none: adding,
\* taking the first agentCount, sweeping and dropping (waiting_room.go:41-51,
\* 154-193, 214-221) neither lose, duplicate nor share a connection.
OnePlace ==
  \A c \in Conns :
    Cardinality(Places(c)) + Cardinality({t \in tables : c \in t}) =
      IF pc[c] \in {"new", "add"} \/ c \in closed THEN 0 ELSE 1

HoldAnswered(r) ==
  /\ \E k \in Calls : pc[k] = "done" /\ job[k] = [op |-> "hold", room |-> r]
  /\ ~ \E k \in Calls : pc[k] # "idle" /\ job[k].room = r /\ job[k].op # "hold"

\* Once /control/hold has been answered, no game of that room forms until a
\* release or a drop of it (waiting_room.go:112, server.go:326).  A handler
\* that saw the room ready before the hold still forms it: the reply comes
\* after, because it counts the seats under the lock.
NoTableWhileHeld == tables' # tables => \A r \in pick : ~HoldAnswered(r)
HoldRespected == [][NoTableWhileHeld]_vars

\* Every handler that has begun ends: wr.mu is always given back and no
\* handler waits for another.
HandlersEnd == []<>(\A p \in Handlers : pc[p] \in {"new", "idle", "done"})

\* The waiting room keeps what Lounge promises: who is let in waits until
\* closed or seated, once, at a table of agentCount connections of one room.
L == INSTANCE Lounge WITH
  Guests <- Conns,
  place <- [c \in Conns |->
             IF \E t \in tables : c \in t THEN "table"
             ELSE IF c \in closed THEN "closed"
             ELSE IF c \in Waiting THEN "waiting" ELSE "outside"]
ImplementsLounge == L!Spec

\* "Two of the same name at one table cannot be told apart in the log and
\* break the takeover by name, so refuse them on connection"
\* (waiting_room.go:136-138).  The check and the addition are two regions.
NamesUnique ==
  \A t \in tables : \A c, d \in t : c # d => NameOf[c] # NameOf[d]

\* "Without a hold the game forms the moment the room is complete"
\* (waiting_room.go:21; :115 says the same of a release).  tryFormGame forms
\* the first ready room it meets, one per call.
CompleteRoomStarts ==
  \A r \in Rooms : Ready(r) ~> ~Ready(r)
=============================================================================
