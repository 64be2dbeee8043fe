------------------------- MODULE WaitingRoomProofs -------------------------
(***************************************************************************)
(* What a hold is worth, where every connection is, and the promise of     *)
(* Lounge, for any number of connections, calls and rooms.                 *)
(***************************************************************************)
EXTENDS WaitingRoom, SubsequencesProofs, FiniteSetTheorems, TLAPS

Stops == {"new", "add", "form", "range", "take", "idle",
          "sweep", "count", "drop", "reply", "done"}

\* The part of TypeOK the argument needs, and that a handler whose call is a
\* hold is answering it or has answered it.
CallsInv ==
  /\ pc \in [Handlers -> Stops]
  /\ job \in [Calls -> Job \cup {NoJob}]
  /\ held \subseteq Rooms /\ pick \subseteq Rooms
  /\ \A k \in Calls : pc[k] # "idle" =>
       /\ job[k] \in Job
       /\ job[k].op = "hold" => pc[k] \in {"reply", "done"}

\* wr.mu is held by the one handler inside GetConnections, and a room is
\* picked only when that handler has found one.
LockInv ==
  /\ unseen \subseteq Rooms
  /\ \A p \in Handlers : pc[p] \in {"range", "take"} => lock = p
  /\ \A p \in Handlers : pc[p] = "range" => pick = {}
  /\ lock = Nobody => pick = {}

Undone(r) == \E k \in Calls : pc[k] # "idle" /\ job[k].room = r /\ job[k].op # "hold"

\* A hold that no release or drop has followed is in force, and once it is
\* answered its room is not picked.
HoldInv ==
  \A k \in Calls : pc[k] # "idle" /\ job[k].op = "hold" /\ ~Undone(job[k].room) =>
    /\ job[k].room \in held
    /\ pc[k] = "done" => job[k].room \notin pick

IInv == CallsInv /\ LockInv /\ HoldInv
-----------------------------------------------------------------------------
LEMMA InitInv == Init => IInv
  BY ConnAssumption DEF Init, IInv, CallsInv, LockInv, HoldInv, Stops, Handlers

\* A handler that moves without touching job, held or pick and is not serving
\* a hold, or is answering one when nothing is picked, keeps HoldInv.
LEMMA MoveKeepsHold ==
  ASSUME IInv, NEW p \in Handlers, pc[p] # "idle",
         NEW l \in Stops, l # "idle", Goto(p, l), UNCHANGED <<job, held>>,
         pick' \subseteq pick \/ \A r \in pick' : r \notin held,
         p \in Calls => job[p].op # "hold" \/ pick' = {}
  PROVE  HoldInv'
PROOF
  <1>1. \A k \in Calls : pc'[k] # "idle" <=> pc[k] # "idle"
    BY DEF IInv, CallsInv, Goto, Handlers
  <1>2. \A r : Undone(r)' <=> Undone(r)
    BY <1>1 DEF Undone
  <1> SUFFICES ASSUME NEW k \in Calls,
                      pc'[k] # "idle", job[k].op = "hold", ~Undone(job[k].room)
               PROVE  /\ job[k].room \in held
                      /\ pc'[k] = "done" => job[k].room \notin pick'
    BY <1>2 DEF HoldInv
  <1>3. job[k].room \in held
    BY <1>1 DEF IInv, HoldInv
  <1>4. ASSUME pc'[k] = "done" PROVE job[k].room \notin pick'
    <2>1. CASE k = p
      BY <2>1
    <2>2. CASE k # p
      <3>1. pc[k] = "done"
        BY <2>2, <1>4 DEF IInv, CallsInv, Goto, Handlers
      <3>2. job[k].room \notin pick
        BY <1>1, <3>1 DEF IInv, HoldInv
      <3> QED BY <3>2, <1>3
    <2> QED BY <2>1, <2>2
  <1> QED BY <1>3, <1>4

\* A handler outside GetConnections keeps LockInv while the lock and what it
\* guards stay.
LEMMA MoveKeepsLock ==
  ASSUME IInv, NEW p \in Handlers, NEW l \in Stops, Goto(p, l),
         UNCHANGED <<lock, unseen, pick>>, l \notin {"range", "take"}
  PROVE  LockInv'
  BY DEF IInv, CallsInv, LockInv, Goto

\* A handler that is not serving a hold, or goes on to answer it, keeps
\* CallsInv.
LEMMA MoveKeepsCalls ==
  ASSUME IInv, NEW p \in Handlers, pc[p] # "idle", NEW l \in Stops, Goto(p, l),
         UNCHANGED <<job, held>>, pick' \subseteq Rooms,
         p \in Calls => job[p].op # "hold" \/ l = "done"
  PROVE  CallsInv'
  BY DEF IInv, CallsInv, Goto, Handlers
-----------------------------------------------------------------------------
\* A handler serving a hold is at "reply" or "done".
LEMMA ElsewhereNoHold ==
  ASSUME IInv, NEW k \in Calls, pc[k] \notin {"idle", "reply", "done"}
  PROVE  job[k].op # "hold"
  BY DEF IInv, CallsInv

\* The handlers of connections, of releases and of drops.
LEMMA HandleInv ==
  ASSUME IInv, NEW p \in Handlers, Handle(p)
  PROVE  IInv'
PROOF
  <1> USE DEF Stops
  <1>0. p \in Calls /\ pc[p] \notin {"idle", "reply", "done"} => job[p].op # "hold"
    BY ElsewhereNoHold
  <1>1. CASE p \in Conns /\ AddConnection(p)
    <2>0. /\ pc[p] = "add" /\ Goto(p, "form") /\ UNCHANGED <<job, lock, unseen, pick, held>>
      BY <1>1 DEF AddConnection, scanVars
    <2> QED
      BY <2>0, <1>0, MoveKeepsHold, MoveKeepsLock, MoveKeepsCalls DEF IInv, CallsInv
  <1>2. CASE p \in Calls /\ ReleaseSweep(p)
    <2>0. /\ pc[p] = "sweep" /\ Goto(p, "count") /\ UNCHANGED <<job, lock, unseen, pick, held>>
      BY <1>2 DEF ReleaseSweep, scanVars
    <2> QED
      BY <2>0, <1>0, MoveKeepsHold, MoveKeepsLock, MoveKeepsCalls DEF IInv, CallsInv
  <1>3. CASE p \in Calls /\ ReleaseCount(p)
    <2>0. /\ pc[p] = "count" /\ UNCHANGED <<job, lock, unseen, pick, held>>
          /\ \E l \in {"form", "done"} : Goto(p, l)
      BY <1>3 DEF ReleaseCount, scanVars
    <2> QED
      BY <2>0, <1>0, MoveKeepsHold, MoveKeepsLock, MoveKeepsCalls DEF IInv, CallsInv
  <1>4. CASE p \in Calls /\ Drop(p)
    <2>0. /\ pc[p] = "drop" /\ Goto(p, "done") /\ UNCHANGED <<job, lock, unseen, pick, held>>
      BY <1>4 DEF Drop, scanVars
    <2> QED
      BY <2>0, <1>0, MoveKeepsHold, MoveKeepsLock, MoveKeepsCalls DEF IInv, CallsInv
  <1>5. CASE p \in Calls /\ Reply(p)
    <2>0. /\ pc[p] = "reply" /\ Goto(p, "done") /\ UNCHANGED <<job, lock, unseen, pick, held>>
          /\ pick' = {}
      BY <1>5 DEF Reply, scanVars, Free, IInv, LockInv
    <2> QED
      BY <2>0, MoveKeepsHold, MoveKeepsLock, MoveKeepsCalls DEF IInv, CallsInv
  <1>6. CASE BeginRange(p)
    <2>0. /\ pc[p] = "form" /\ Goto(p, "range") /\ UNCHANGED <<job, pick, held>>
          /\ lock = Nobody /\ lock' = p /\ unseen' = Rooms
      BY <1>6 DEF BeginRange, Free
    <2>1. LockInv'
      BY <2>0, ConnAssumption DEF IInv, CallsInv, LockInv, Goto, Handlers
    <2> QED
      BY <2>0, <2>1, <1>0, MoveKeepsHold, MoveKeepsCalls DEF IInv, CallsInv, Handlers
  <1>7. CASE FindReady(p)
    <2>0. /\ pc[p] = "range" /\ Goto(p, "take") /\ UNCHANGED <<job, lock, held>>
          /\ unseen' = {}
      BY <1>7 DEF FindReady
    <2>1. pick' \subseteq Rooms /\ \A r \in pick' : r \notin held
      BY <1>7 DEF FindReady, Ready, IsHeld, IInv, LockInv
    <2>2. LockInv'
      BY <2>0, ConnAssumption DEF IInv, CallsInv, LockInv, Goto, Handlers
    <2> QED
      BY <2>0, <2>1, <2>2, <1>0, MoveKeepsHold, MoveKeepsCalls DEF IInv
  <1>8. CASE PassOver(p)
    <2>0. /\ pc[p] = "range" /\ UNCHANGED <<job, pick, held>> /\ unseen' \subseteq unseen
          /\ \/ lock' = Nobody /\ Goto(p, "done")
             \/ UNCHANGED <<lock, pc>>
      BY <1>8 DEF PassOver
    <2>1. lock = p /\ pick = {}
      BY <2>0 DEF IInv, LockInv
    <2>2. CASE lock' = Nobody /\ Goto(p, "done")
      <3>1. LockInv'
        BY <2>0, <2>1, <2>2 DEF IInv, CallsInv, LockInv, Goto
      <3> QED
        BY <2>0, <2>2, <3>1, <1>0, MoveKeepsHold, MoveKeepsCalls DEF IInv, CallsInv
    <2>3. CASE UNCHANGED <<lock, pc>>
      BY <2>0, <2>3 DEF IInv, CallsInv, LockInv, HoldInv, Undone
    <2> QED BY <2>0, <2>2, <2>3
  <1>9. CASE FormTable(p)
    <2>0. /\ pc[p] = "take" /\ Goto(p, "done") /\ UNCHANGED <<job, unseen, held>>
          /\ lock' = Nobody /\ pick' = {}
      BY <1>9 DEF FormTable
    <2>1. LockInv'
      BY <2>0 DEF IInv, CallsInv, LockInv, Goto
    <2> QED
      BY <2>0, <2>1, <1>0, MoveKeepsHold, MoveKeepsCalls DEF IInv
  <1> QED BY <1>1, <1>2, <1>3, <1>4, <1>5, <1>6, <1>7, <1>8, <1>9 DEF Handle, Form

\* A call of /control begins.
LEMMA BeginInv ==
  ASSUME IInv, NEW k \in Calls,
         NEW o \in Ops, NEW l \in Stops, l \notin {"idle", "range", "take", "done"},
         o = "hold" => l = "reply", Begin(k, o, l)
  PROVE  IInv'
PROOF
  <1>1. PICK r \in Rooms :
          /\ job' = [job EXCEPT ![k] = [op |-> o, room |-> r]]
          /\ held' = IF o = "hold" THEN held \cup {r} ELSE held \ {r}
    BY DEF Begin
  <1>2. pc[k] = "idle" /\ Goto(k, l) /\ UNCHANGED <<lock, unseen, pick>>
    BY DEF Begin, scanVars
  <1>3. job' \in [Calls -> Job \cup {NoJob}] /\ job'[k] = [op |-> o, room |-> r]
    BY <1>1 DEF IInv, CallsInv, Job
  <1>4. /\ \A j \in Calls \ {k} : job'[j] = job[j] /\ pc'[j] = pc[j]
        /\ pc'[k] = l
    BY <1>1, <1>2 DEF IInv, CallsInv, Goto, Handlers
  <1>5. CallsInv'
    BY <1>1, <1>2, <1>3, <1>4 DEF IInv, CallsInv, Goto, Handlers, Job
  <1>6. LockInv'
    BY <1>2, MoveKeepsLock DEF Handlers
  <1>7. HoldInv'
    <2> SUFFICES ASSUME NEW j \in Calls,
                        pc'[j] # "idle", job'[j].op = "hold", ~Undone(job[j].room)'
                 PROVE  /\ job'[j].room \in held'
                        /\ pc'[j] = "done" => job'[j].room \notin pick'
      BY DEF HoldInv
    <2>1. CASE j = k
      BY <2>1, <1>1, <1>3, <1>4
    <2>2. CASE j # k
      <3>1. pc[j] # "idle" /\ job[j].op = "hold" /\ job'[j] = job[j]
        BY <2>2, <1>4
      <3>2. ~Undone(job[j].room)
        BY <3>1, <1>2, <1>4 DEF Undone
      <3>3. job[j].room \in held /\ (pc[j] = "done" => job[j].room \notin pick)
        BY <3>1, <3>2 DEF IInv, HoldInv
      <3>4. o = "hold" \/ r # job[j].room
        BY <3>1, <1>3, <1>4 DEF Undone
      <3> QED BY <3>1, <3>3, <3>4, <2>2, <1>1, <1>2, <1>4
    <2> QED BY <2>1, <2>2
  <1> QED BY <1>5, <1>6, <1>7 DEF IInv

LEMMA StepInv == IInv /\ [Next]_vars => IInv'
PROOF
  <1> SUFFICES ASSUME IInv, [Next]_vars PROVE IInv'
    OBVIOUS
  <1>1. ASSUME NEW c \in Conns, Connect(c) PROVE IInv'
    <2>0. /\ pc[c] = "new" /\ UNCHANGED <<job, lock, unseen, pick, held>>
          /\ \E l \in {"add", "done"} : Goto(c, l)
      BY <1>1 DEF Connect, scanVars
    <2>1. c \in Handlers /\ c \notin Calls
      BY ConnAssumption DEF Handlers
    <2> QED
      BY <2>0, <2>1, MoveKeepsHold, MoveKeepsLock, MoveKeepsCalls DEF IInv, CallsInv, Stops
  <1>2. ASSUME NEW k \in Calls, Hold(k) \/ Release(k) \/ BeginDrop(k) PROVE IInv'
    BY <1>2, BeginInv DEF Hold, Release, BeginDrop, Ops, Stops
  <1>3. ASSUME NEW p \in Handlers, Handle(p) PROVE IInv'
    BY <1>3, HandleInv
  <1>4. CASE UNCHANGED <<pc, job, lock, unseen, pick, held>>
    BY <1>4 DEF IInv, CallsInv, LockInv, HoldInv, Undone
  <1>5. CASE Sweep \/ UNCHANGED vars
    BY <1>4, <1>5 DEF Sweep, vars, scanVars
  <1> QED BY <1>1, <1>2, <1>3, <1>5 DEF Next

LEMMA AlwaysInv == Spec => []IInv
  BY InitInv, StepInv, PTL DEF Spec

\* Tables form only of the room that was picked.
LEMMA StepRespects == IInv /\ [Next]_vars => [NoTableWhileHeld]_vars
PROOF
  <1> SUFFICES ASSUME IInv, NEW r \in pick, HoldAnswered(r) PROVE FALSE
    BY DEF NoTableWhileHeld
  <1>1. PICK k \in Calls : pc[k] = "done" /\ job[k] = [op |-> "hold", room |-> r]
    BY DEF HoldAnswered
  <1>2. ~Undone(r)
    BY DEF HoldAnswered, Undone
  <1> QED BY <1>1, <1>2 DEF IInv, HoldInv

\* However many connections, calls and rooms there are: once a hold has been
\* answered, no game of its room is formed before a release or drop of it
\* begins (waiting_room.go:112-121, 195-225, server.go:340-348).
THEOREM HoldsAreRespected == Spec => HoldRespected
PROOF
  <1>1. Spec => []IInv
    BY AlwaysInv
  <1>2. IInv /\ [Next]_vars => [NoTableWhileHeld]_vars
    BY StepRespects
  <1> QED BY <1>1, <1>2, PTL DEF Spec, HoldRespected
-----------------------------------------------------------------------------
(* Where every connection is.                                              *)

Outside == {c \in Conns : pc[c] \in {"new", "add"}}
Seated == UNION tables

\* A connection is outside, waiting in its own room once, closed or at one table.
Placed ==
  /\ \A r \in Rooms : IsInjective(waiting[r]) /\ \A c \in Seats(r) : RoomOf[c] = r
  /\ Conns = Outside \cup Waiting \cup closed \cup Seated
  /\ Outside \cap (Waiting \cup closed \cup Seated) = {}
  /\ Waiting \cap (closed \cup Seated) = {}
  /\ closed \cap Seated = {}
  /\ \A t, u \in tables : t # u => t \cap u = {}

\* The inductive invariant: that, and that the room a handler has found ready
\* stays complete until it has taken the seats, because wr.mu is held.
PlaceInv ==
  /\ TypeOK
  /\ \A p \in Handlers : pc[p] = "take" => \A r \in pick : Len(waiting[r]) >= TableSize
  /\ Placed

\* What a step may do to the places: nothing, refuse a connection, let it in,
\* seat the first TableSize of a room, or close some that wait.
Stays == Outside' = Outside /\ UNCHANGED <<waiting, closed, tables>>

Refused(c) ==
  /\ c \in Outside /\ Outside' = Outside \ {c}
  /\ closed' = closed \cup {c}
  /\ UNCHANGED <<waiting, tables>>

Entered(c) ==
  /\ c \in Outside /\ Outside' = Outside \ {c}
  /\ waiting' = [waiting EXCEPT ![RoomOf[c]] = Append(waiting[RoomOf[c]], c)]
  /\ UNCHANGED <<closed, tables>>

Sat(r) ==
  /\ Len(waiting[r]) >= TableSize
  /\ Outside' = Outside
  /\ tables' = tables \cup {ToSet(SubSeq(waiting[r], 1, TableSize))}
  /\ waiting' = [waiting EXCEPT ![r] = Rest(r)]
  /\ UNCHANGED closed

Closed(S) ==
  /\ S \subseteq Waiting
  /\ Outside' = Outside
  /\ closed' = closed \cup S
  /\ waiting' \in [Rooms -> Seq(Conns)]
  /\ \A r \in Rooms : ToSet(waiting'[r]) = Seats(r) \ S /\ IsInjective(waiting'[r])
  /\ UNCHANGED tables

\* A handler that is let in or not is no longer outside; the others stay so.
LEMMA GotoOutside ==
  ASSUME TypeOK, NEW p \in Handlers, NEW l \in Stops, Goto(p, l)
  PROVE  /\ l \notin {"new", "add"} => Outside' = Outside \ {p}
         /\ p \in Outside /\ l = "add" => Outside' = Outside
         /\ pc[p] \notin {"new", "add"} \/ p \in Calls => p \notin Outside
BY ConnAssumption DEF TypeOK, Goto, Outside, Handlers

LEMMA SweepCloses ==
  ASSUME PlaceInv, Sweeping, Outside' = Outside, UNCHANGED tables
  PROVE  \E S \in SUBSET Conns : Closed(S)
<1>1. PICK S \in SUBSET Waiting : SweepOut(S)
  BY DEF Sweeping
<1>2. S \in SUBSET Conns
  BY DEF PlaceInv, Placed, Waiting, Seats, ToSet, TypeOK
<1>3. ASSUME NEW r \in Rooms
      PROVE  /\ waiting'[r] \in Seq(Conns)
             /\ ToSet(waiting'[r]) = Seats(r) \ S /\ IsInjective(waiting'[r])
  <2>. DEFINE D == Staying(r, S)
              w == waiting[r]
  <2>1. w \in Seq(Conns) /\ IsInjective(w) /\ D \in SUBSET DOMAIN w
    BY DEF PlaceInv, Placed, TypeOK, Staying
  <2>2. waiting'[r] = Keep(w, D)
    BY <1>1 DEF SweepOut
  <2>3. Keep(w, D) \in Seq(Conns) /\ IsInjective(Keep(w, D))
    BY <2>1, KeepBijection, KeepInjective
  <2>4. ToSet(Keep(w, D)) = {w[i] : i \in D}
    BY <2>1, KeepRange DEF ToSet
  <2>5. {w[i] : i \in D} = Seats(r) \ S
    BY DEF Staying, Seats, ToSet
  <2>. QED
    BY <2>2, <2>3, <2>4, <2>5
<1>4. waiting' \in [Rooms -> Seq(Conns)] /\ closed' = closed \cup S
  BY <1>1, <1>3 DEF SweepOut
<1>. QED
  BY <1>2, <1>3, <1>4 DEF Closed

LEMMA StepPlaces ==
  ASSUME IInv, PlaceInv, [Next]_vars
  PROVE  \/ Stays
         \/ \E c \in Conns : Refused(c) \/ Entered(c)
         \/ \E r \in Rooms : Sat(r)
         \/ \E S \in SUBSET Conns : Closed(S)
<1>. USE DEF Stops
<1>0. TypeOK /\ \A c \in Conns : c \in Handlers
  BY DEF PlaceInv, Placed, Handlers
<1>1. ASSUME NEW c \in Conns, Connect(c)
      PROVE  Stays \/ Refused(c)
  <2>1. c \in Outside /\ pc[c] = "new" /\ UNCHANGED <<waiting, tables>>
    BY <1>1 DEF Connect, Outside
  <2>2. CASE Goto(c, "done") /\ closed' = closed \cup {c}
    BY <1>0, <2>1, <2>2, GotoOutside DEF Refused
  <2>3. CASE Goto(c, "add") /\ UNCHANGED closed
    BY <1>0, <2>1, <2>3, GotoOutside DEF Stays
  <2>. QED
    BY <1>1, <2>2, <2>3 DEF Connect
<1>2. ASSUME NEW c \in Conns, AddConnection(c)
      PROVE  Entered(c)
  <2>1. c \in Outside
    BY <1>2 DEF AddConnection, Outside
  <2>2. Outside' = Outside \ {c}
    BY <1>0, <1>2, GotoOutside DEF AddConnection
  <2>. QED
    BY <1>2, <2>1, <2>2 DEF AddConnection, Entered
<1>3. ASSUME NEW p \in Handlers, NEW l \in Stops \ {"new", "add"}, Goto(p, l),
             pc[p] \notin {"new", "add"}
      PROVE  Outside' = Outside
  BY <1>0, <1>3, GotoOutside
<1>4. ASSUME NEW k \in Calls, Hold(k) \/ Release(k) \/ BeginDrop(k)
      PROVE  Stays
  BY <1>3, <1>4 DEF Hold, Release, BeginDrop, Begin, Stays, Handlers
<1>5. ASSUME NEW k \in Calls, ReleaseCount(k) \/ Reply(k)
      PROVE  Stays
  BY <1>3, <1>5 DEF ReleaseCount, Reply, Stays, Handlers
<1>6. ASSUME NEW p \in Handlers, BeginRange(p) \/ FindReady(p) \/ PassOver(p)
      PROVE  Stays
  <2>1. UNCHANGED <<waiting, closed, tables>>
    BY <1>6 DEF BeginRange, FindReady, PassOver
  <2>2. pc' = pc \/ \E l \in {"range", "take", "done"} : Goto(p, l)
    BY <1>6 DEF BeginRange, FindReady, PassOver
  <2>3. pc[p] \notin {"new", "add"}
    BY <1>6 DEF BeginRange, FindReady, PassOver
  <2>. QED
    BY <1>3, <2>1, <2>2, <2>3 DEF Stays, Outside
<1>7. ASSUME NEW p \in Handlers, FormTable(p)
      PROVE  \E r \in Rooms : Sat(r)
  <2>1. PICK r \in pick :
          /\ tables' = tables \cup {ToSet(SubSeq(waiting[r], 1, TableSize))}
          /\ waiting' = [waiting EXCEPT ![r] = Rest(r)]
    BY <1>7 DEF FormTable
  <2>2. r \in Rooms /\ Len(waiting[r]) >= TableSize
    BY <1>7 DEF FormTable, PlaceInv, Placed, TypeOK
  <2>3. Outside' = Outside /\ UNCHANGED closed
    BY <1>3, <1>7 DEF FormTable
  <2>. QED
    BY <2>1, <2>2, <2>3 DEF Sat
<1>8. ASSUME NEW k \in Calls, ReleaseSweep(k)
      PROVE  \E S \in SUBSET Conns : Closed(S)
  BY <1>3, <1>8, SweepCloses DEF ReleaseSweep, Handlers
<1>9. ASSUME NEW k \in Calls, Drop(k)
      PROVE  \E S \in SUBSET Conns : Closed(S)
  <2>. DEFINE r == job[k].room
              S == Seats(r)
  <2>1. r \in Rooms
    BY <1>9 DEF Drop, IInv, CallsInv, Job
  <2>2. S \in SUBSET Conns /\ S \subseteq Waiting
    BY <1>0, <2>1 DEF TypeOK, Seats, ToSet, Waiting
  <2>3. Outside' = Outside
    BY <1>3, <1>9 DEF Drop, Handlers
  <2>4. /\ waiting' = [waiting EXCEPT ![r] = <<>>] /\ closed' = closed \cup S
        /\ UNCHANGED tables
    BY <1>9 DEF Drop
  <2>5. \A q \in Rooms : waiting'[q] = IF q = r THEN <<>> ELSE waiting[q]
    BY <1>0, <2>1, <2>4 DEF TypeOK
  <2>6. ToSet(<<>>) = {} /\ IsInjective(<<>>) /\ <<>> \in Seq(Conns)
    BY DEF ToSet, IsInjective
  <2>7. ASSUME NEW q \in Rooms
        PROVE  ToSet(waiting'[q]) = Seats(q) \ S /\ IsInjective(waiting'[q])
    <3>1. CASE q = r
      BY <2>5, <2>6, <3>1 DEF Seats
    <3>2. CASE q # r
      <4>1. Seats(q) \cap S = {}
        BY <2>1, <3>2 DEF PlaceInv, Placed
      <4>. QED
        BY <2>5, <3>2, <4>1 DEF PlaceInv, Placed, Seats
    <3>. QED
      BY <3>1, <3>2
  <2>8. waiting' \in [Rooms -> Seq(Conns)]
    BY <1>0, <2>4, <2>6 DEF TypeOK
  <2>. QED
    BY <2>2, <2>3, <2>4, <2>7, <2>8 DEF Closed
<1>10. CASE Sweep
  BY <1>10, SweepCloses DEF Sweep, Outside
<1>11. CASE UNCHANGED vars
  BY <1>11 DEF vars, Stays, Outside
<1>. QED
  BY <1>1, <1>2, <1>4, <1>5, <1>6, <1>7, <1>8, <1>9, <1>10, <1>11 DEF Next, Handle, Form
-----------------------------------------------------------------------------
LEMMA SatFacts ==
  ASSUME PlaceInv, NEW r \in Rooms, Sat(r)
  PROVE  LET S == ToSet(SubSeq(waiting[r], 1, TableSize))
         IN  /\ tables' = tables \cup {S}
             /\ S \subseteq Seats(r) /\ S \subseteq Conns
             /\ Cardinality(S) = TableSize
             /\ waiting' \in [Rooms -> Seq(Conns)]
             /\ \A q \in Rooms : ToSet(waiting'[q]) = Seats(q) \ S /\ IsInjective(waiting'[q])
<1>. DEFINE w == waiting[r]
            S == ToSet(SubSeq(w, 1, TableSize))
<1>1. /\ w \in Seq(Conns) /\ IsInjective(w) /\ TableSize \in 0..Len(w)
      /\ waiting \in [Rooms -> Seq(Conns)]
  BY SizeAssumption DEF PlaceInv, Placed, TypeOK, Sat
<1>2. /\ Rest(r) \in Seq(Conns) /\ IsInjective(Rest(r))
      /\ S \cap ToSet(Rest(r)) = {} /\ S \cup ToSet(Rest(r)) = Seats(r)
      /\ Cardinality(S) = TableSize
  BY <1>1, CutSet DEF Rest, Seats
<1>3. waiting' = [waiting EXCEPT ![r] = Rest(r)] /\ tables' = tables \cup {S}
  BY DEF Sat
<1>4. Seats(r) \subseteq Conns
  BY <1>1 DEF Seats, ToSet
<1>. HIDE DEF S
<1>5. waiting' \in [Rooms -> Seq(Conns)]
  BY <1>1, <1>2, <1>3
<1>6. ASSUME NEW q \in Rooms
      PROVE  ToSet(waiting'[q]) = Seats(q) \ S /\ IsInjective(waiting'[q])
  <2>1. CASE q = r
    BY <1>1, <1>2, <1>3, <2>1
  <2>2. CASE q # r
    <3>1. waiting'[q] = waiting[q]
      BY <1>1, <1>3, <2>2
    <3>2. Seats(q) \cap S = {}
      BY <1>2, <2>2 DEF PlaceInv, Placed
    <3>. QED
      BY <3>1, <3>2 DEF PlaceInv, Placed, Seats
  <2>. QED
    BY <2>1, <2>2
<1>. QED
  BY <1>2, <1>3, <1>4, <1>5, <1>6 DEF S

LEMMA EnteredFacts ==
  ASSUME PlaceInv, NEW c \in Conns, Entered(c)
  PROVE  /\ waiting' \in [Rooms -> Seq(Conns)]
         /\ \A q \in Rooms :
              /\ ToSet(waiting'[q]) = Seats(q) \cup (IF q = RoomOf[c] THEN {c} ELSE {})
              /\ IsInjective(waiting'[q])
<1>. DEFINE r == RoomOf[c]
            w == waiting[r]
<1>1. r \in Rooms /\ waiting \in [Rooms -> Seq(Conns)] /\ w \in Seq(Conns) /\ IsInjective(w)
  BY ConnAssumption DEF PlaceInv, Placed, TypeOK
<1>2. c \notin Seats(r)
  BY <1>1 DEF PlaceInv, Placed, Entered, Waiting
<1>3. /\ ToSet(Append(w, c)) = Seats(r) \cup {c} /\ IsInjective(Append(w, c))
      /\ Append(w, c) \in Seq(Conns)
  BY <1>1, <1>2, AppendSet DEF Seats
<1>4. waiting' = [waiting EXCEPT ![r] = Append(w, c)]
  BY DEF Entered
<1>5. waiting' \in [Rooms -> Seq(Conns)]
  BY <1>1, <1>3, <1>4
<1>6. ASSUME NEW q \in Rooms
      PROVE  /\ ToSet(waiting'[q]) = Seats(q) \cup (IF q = r THEN {c} ELSE {})
             /\ IsInjective(waiting'[q])
  <2>1. CASE q = r
    BY <1>1, <1>3, <1>4, <2>1
  <2>2. CASE q # r
    BY <1>1, <1>4, <2>2 DEF PlaceInv, Placed, Seats
  <2>. QED
    BY <2>1, <2>2
<1>. QED
  BY <1>5, <1>6

\* What a step may do to the lock and the handlers inside GetConnections.
LockStep(p) ==
  \/ /\ lock' = lock /\ pc[p] \notin {"range", "take"}
     /\ \E l \in Stops \ {"range", "take"} : Goto(p, l)
  \/ lock = Nobody /\ lock' = p /\ Goto(p, "range")
  \/ lock' = lock /\ pc[p] = "range" /\ Goto(p, "take")
  \/ lock' = Nobody /\ pc[p] \in {"range", "take"} /\ Goto(p, "done")

LEMMA StepLocks ==
  ASSUME [Next]_vars
  PROVE  UNCHANGED <<lock, pc>> \/ \E p \in Handlers : LockStep(p)
<1>. USE DEF Stops, scanVars
<1>1. ASSUME NEW c \in Conns, Connect(c)
      PROVE  LockStep(c)
  BY <1>1 DEF Connect, LockStep
<1>2. ASSUME NEW k \in Calls, Hold(k) \/ Release(k) \/ BeginDrop(k)
      PROVE  LockStep(k)
  BY <1>2 DEF Hold, Release, BeginDrop, Begin, LockStep
<1>3. ASSUME NEW p \in Handlers, AddConnection(p) \/ Drop(p) \/ Reply(p) \/ ReleaseSweep(p)
      PROVE  LockStep(p)
  BY <1>3 DEF AddConnection, Drop, Reply, ReleaseSweep, LockStep
<1>4. ASSUME NEW p \in Handlers, ReleaseCount(p)
      PROVE  LockStep(p)
  BY <1>4 DEF ReleaseCount, LockStep
<1>5. ASSUME NEW p \in Handlers, BeginRange(p) \/ FindReady(p) \/ FormTable(p)
      PROVE  LockStep(p)
  BY <1>5 DEF BeginRange, Free, FindReady, FormTable, LockStep
<1>6. ASSUME NEW p \in Handlers, PassOver(p)
      PROVE  UNCHANGED <<lock, pc>> \/ LockStep(p)
  BY <1>6 DEF PassOver, LockStep
<1>7. CASE Sweep \/ UNCHANGED vars
  BY <1>7 DEF Sweep, vars
<1>. QED
  BY <1>1, <1>2, <1>3, <1>4, <1>5, <1>6, <1>7 DEF Next, Handle, Form, Handlers

\* The part of TypeOK and PlaceInv that is about the handlers.
LEMMA TypeStep ==
  ASSUME IInv, PlaceInv, [Next]_vars
  PROVE  TypeOK'
<1>. USE DEF Stops
<1>1. /\ IInv' /\ TypeOK
  BY StepInv DEF PlaceInv, Placed
<1>2. closed' \subseteq Conns /\ tables' \subseteq SUBSET Conns /\ waiting' \in [Rooms -> Seq(Conns)]
  <2>1. CASE Stays
    BY <1>1, <2>1 DEF Stays, TypeOK
  <2>2. ASSUME NEW c \in Conns, Refused(c) \/ Entered(c)
        PROVE  closed' \subseteq Conns /\ tables' \subseteq SUBSET Conns
               /\ waiting' \in [Rooms -> Seq(Conns)]
    <3>1. CASE Refused(c)
      BY <1>1, <3>1 DEF Refused, TypeOK
    <3>2. CASE Entered(c)
      BY <1>1, <3>2, EnteredFacts DEF Entered, TypeOK
    <3>. QED
      BY <2>2, <3>1, <3>2
  <2>3. ASSUME NEW r \in Rooms, Sat(r)
        PROVE  closed' \subseteq Conns /\ tables' \subseteq SUBSET Conns
               /\ waiting' \in [Rooms -> Seq(Conns)]
    <3>. DEFINE S == ToSet(SubSeq(waiting[r], 1, TableSize))
    <3>1. tables' = tables \cup {S} /\ S \subseteq Conns /\ waiting' \in [Rooms -> Seq(Conns)]
      BY <2>3, SatFacts
    <3>. QED
      BY <1>1, <2>3, <3>1 DEF Sat, TypeOK
  <2>4. ASSUME NEW S \in SUBSET Conns, Closed(S)
        PROVE  closed' \subseteq Conns /\ tables' \subseteq SUBSET Conns
               /\ waiting' \in [Rooms -> Seq(Conns)]
    BY <1>1, <2>4 DEF Closed, TypeOK
  <2>. QED
    BY <2>1, <2>2, <2>3, <2>4, StepPlaces
<1>3. lock' \in Handlers \cup {Nobody} /\ unseen' \subseteq Rooms
      /\ \A p \in Handlers : pc'[p] \in {"range", "take"} <=> lock' = p
  <2>1. UNCHANGED <<lock, pc>> \/ \E p \in Handlers : LockStep(p)
    BY StepLocks
  <2>2. pc \in [Handlers -> Stops] /\ Nobody \notin Handlers
    BY <1>1, ConnAssumption DEF TypeOK, Handlers
  <2>3. unseen' \subseteq Rooms
    BY <1>1 DEF IInv, LockInv
  <2>. QED
    BY <1>1, <2>1, <2>2, <2>3 DEF TypeOK, Goto, LockStep
<1>. QED
  BY <1>1, <1>2, <1>3 DEF IInv, CallsInv, TypeOK
\* A room found ready stays complete while its finder holds wr.mu.
LEMMA ReadyStep ==
  ASSUME IInv, PlaceInv, [Next]_vars, NEW p \in Handlers, pc'[p] = "take", NEW r \in pick'
  PROVE  Len(waiting'[r]) >= TableSize
<1>. USE DEF Stops
<1>1. TypeOK /\ Nobody \notin Handlers
  BY ConnAssumption DEF PlaceInv, Placed, Handlers
<1>2. CASE pc[p] = "take"
  <2>1. lock = p /\ lock # Nobody
    BY <1>1, <1>2 DEF TypeOK
  <2>2. UNCHANGED <<waiting, pick>> \/ \E q \in Handlers : pc[q] \in {"range", "take"} /\ Form(q)
    BY <2>1 DEF Next, Handle, Connect, AddConnection, Hold, Release, BeginDrop, Begin,
       ReleaseSweep, Sweep, Sweeping, ReleaseCount, Drop, Reply, Free, scanVars, vars, Form,
       BeginRange, FindReady, PassOver, FormTable
  <2>3. CASE UNCHANGED <<waiting, pick>>
    BY <1>2, <2>3 DEF PlaceInv, Placed
  <2>4. ASSUME NEW q \in Handlers, pc[q] \in {"range", "take"}, Form(q)
        PROVE  FALSE
    <3>1. q = p /\ FormTable(p)
      BY <1>1, <1>2, <2>1, <2>4 DEF TypeOK, Form, BeginRange, FindReady, PassOver
    <3>2. pc'[p] = "done"
      BY <1>1, <3>1 DEF FormTable, Goto, TypeOK
    <3>. QED
      BY <3>2
  <2>. QED
    BY <2>2, <2>3, <2>4
<1>3. CASE pc[p] # "take"
  <2>1. FindReady(p)
    BY <1>1, <1>3 DEF Next, Handle, Connect, AddConnection, Hold, Release, BeginDrop, Begin,
       ReleaseSweep, Sweep, ReleaseCount, Drop, Reply, vars, Form,
       BeginRange, FindReady, PassOver, FormTable, Goto, TypeOK
  <2>. QED
    BY <2>1 DEF FindReady, Ready
<1>. QED
  BY <1>2, <1>3

LEMMA PlaceInit == Init => PlaceInv
<1>. SUFFICES ASSUME Init
              PROVE  PlaceInv
  OBVIOUS
<1>. USE DEF Stops
<1>1. <<>> \in Seq(Conns) /\ ToSet(<<>>) = {} /\ IsInjective(<<>>)
  BY DEF ToSet, IsInjective
<1>2. TypeOK
  BY <1>1, ConnAssumption DEF Init, TypeOK, Handlers
<1>3. Waiting = {} /\ \A r \in Rooms : Seats(r) = {}
  BY <1>1 DEF Init, Waiting, Seats
<1>4. Outside = Conns
  BY DEF Init, Outside, Handlers
<1>. QED
  BY <1>1, <1>2, <1>3, <1>4, ConnAssumption DEF Init, PlaceInv, Placed, Seated, Handlers

LEMMA PlaceStep == IInv /\ PlaceInv /\ [Next]_vars => PlaceInv'
<1>. SUFFICES ASSUME IInv, PlaceInv, [Next]_vars
              PROVE  PlaceInv'
  OBVIOUS
<1>1. TypeOK' /\ \A p \in Handlers : pc'[p] = "take" =>
                  \A r \in pick' : Len(waiting'[r]) >= TableSize
  BY TypeStep, ReadyStep
<1>0. Placed
  BY DEF PlaceInv
<1>2. ASSUME Stays
      PROVE  Placed'
  <2>1. /\ Outside' = Outside /\ closed' = closed /\ tables' = tables /\ waiting' = waiting
        /\ Waiting' = Waiting /\ Seated' = Seated /\ \A r \in Rooms : Seats(r)' = Seats(r)
    BY <1>2 DEF Stays, Seated, Waiting, Seats
  <2>. QED
    BY <1>0, <2>1, Zenon DEF Placed
<1>3. ASSUME NEW c \in Conns, Refused(c)
      PROVE  Placed'
  BY <1>0, <1>3 DEF Refused, Placed, Seated, Waiting, Seats
<1>4. ASSUME NEW c \in Conns, Entered(c)
      PROVE  Placed'
  <2>1. \A r \in Rooms : ToSet(waiting'[r]) = Seats(r) \cup (IF r = RoomOf[c] THEN {c} ELSE {})
    BY <1>4, EnteredFacts
  <2>2. Waiting' = Waiting \cup {c}
    BY <2>1, ConnAssumption DEF Waiting, Seats
  <2>3. \A r \in Rooms : IsInjective(waiting'[r]) /\ \A d \in Seats(r)' : RoomOf[d] = r
    BY <1>0, <1>4, <2>1, EnteredFacts DEF Placed, Seats
  <2>4. /\ c \in Outside /\ Outside' = Outside \ {c} /\ closed' = closed
        /\ Seated' = Seated /\ tables' = tables
    BY <1>4 DEF Entered, Seated
  <2>5. /\ Conns = Outside' \cup Waiting' \cup closed' \cup Seated'
        /\ Outside' \cap (Waiting' \cup closed' \cup Seated') = {}
        /\ Waiting' \cap (closed' \cup Seated') = {}
        /\ closed' \cap Seated' = {}
    BY <1>0, <2>2, <2>4 DEF Placed
  <2>6. \A t, u \in tables' : t # u => t \cap u = {}
    BY <1>0, <2>4 DEF Placed
  <2>. QED
    BY <2>3, <2>5, <2>6, Zenon DEF Placed
<1>5. ASSUME NEW r \in Rooms, Sat(r)
      PROVE  Placed'
  <2>. DEFINE S == ToSet(SubSeq(waiting[r], 1, TableSize))
  <2>1. /\ tables' = tables \cup {S} /\ S \subseteq Seats(r)
        /\ \A q \in Rooms : ToSet(waiting'[q]) = Seats(q) \ S /\ IsInjective(waiting'[q])
    BY <1>5, SatFacts
  <2>2. Outside' = Outside /\ closed' = closed
    BY <1>5 DEF Sat
  <2>. HIDE DEF S
  <2>3. Waiting' = Waiting \ S /\ S \subseteq Waiting
    BY <2>1 DEF Waiting, Seats
  <2>4. Seated' = Seated \cup S
    BY <2>1 DEF Seated
  <2>5. \A q \in Rooms : IsInjective(waiting'[q]) /\ \A d \in Seats(q)' : RoomOf[d] = q
    BY <1>0, <2>1 DEF Placed, Seats
  <2>6. \A u \in tables : u \cap S = {}
    BY <1>0, <2>3 DEF Placed, Seated
  <2>7. \A t, u \in tables' : t # u => t \cap u = {}
    BY <1>0, <2>1, <2>6 DEF Placed
  <2>. QED
    BY <1>0, <2>2, <2>3, <2>4, <2>5, <2>7 DEF Placed
<1>6. ASSUME NEW S \in SUBSET Conns, Closed(S)
      PROVE  Placed'
  <2>1. Waiting' = Waiting \ S /\ S \subseteq Waiting
    BY <1>6 DEF Closed, Waiting, Seats
  <2>2. \A q \in Rooms : IsInjective(waiting'[q]) /\ \A d \in Seats(q)' : RoomOf[d] = q
    BY <1>0, <1>6 DEF Closed, Placed, Seats
  <2>3. Outside' = Outside /\ closed' = closed \cup S /\ tables' = tables /\ Seated' = Seated
    BY <1>6 DEF Closed, Seated
  <2>. QED
    BY <1>0, <2>1, <2>2, <2>3 DEF Placed
<1>. QED
  BY <1>1, <1>2, <1>3, <1>4, <1>5, <1>6, StepPlaces DEF PlaceInv

LEMMA AlwaysPlaced == Spec => [](IInv /\ PlaceInv)
  BY InitInv, StepInv, PlaceInit, PlaceStep, PTL DEF Spec

\* For any number of connections, calls and rooms: wr.mu is held exactly while
\* its holder is inside GetConnections, and every variable has its type
\* (waiting_room.go:195-225).
THEOREM TypesHold == Spec => []TypeOK
  BY AlwaysPlaced, PTL DEF PlaceInv
-----------------------------------------------------------------------------
\* A connection that waits does so in one place, and no other has one.
LEMMA PlaceCount ==
  ASSUME PlaceInv, NEW c \in Conns
  PROVE  Cardinality(Places(c)) = IF c \in Waiting THEN 1 ELSE 0
<1>1. /\ waiting \in [Rooms -> Seq(Conns)] /\ Placed /\ IsFiniteSet(Conns)
      /\ Cardinality(Conns) \in Nat
  BY ConnAssumption, FS_CardinalityType DEF PlaceInv, TypeOK
<1>2. ASSUME NEW w \in Places(c)
      PROVE  /\ w[1] \in Rooms /\ w[2] \in DOMAIN waiting[w[1]] /\ w = <<w[1], w[2]>>
             /\ waiting[w[1]][w[2]] = c /\ c \in Seats(w[1]) /\ w[1] = RoomOf[c]
  <2>1. /\ w[1] \in Rooms /\ w[2] \in DOMAIN waiting[w[1]] /\ w = <<w[1], w[2]>>
        /\ waiting[w[1]][w[2]] = c
    BY DEF Places, Wait
  <2>2. c \in Seats(w[1])
    BY <2>1 DEF Seats, ToSet
  <2>. QED
    BY <1>1, <2>1, <2>2 DEF Placed
<1>3. CASE c \notin Waiting
  <2>1. Places(c) = {}
    BY <1>2, <1>3 DEF Waiting
  <2>. QED
    BY <1>3, <2>1, FS_EmptySet
<1>4. CASE c \in Waiting
  <2>. DEFINE r == RoomOf[c]
  <2>1. r \in Rooms /\ c \in Seats(r)
    BY <1>1, <1>4 DEF Waiting, Placed
  <2>2. waiting[r] \in Seq(Conns) /\ IsInjective(waiting[r])
    BY <1>1, <2>1 DEF Placed
  <2>3. PICK i \in DOMAIN waiting[r] : waiting[r][i] = c
    BY <2>1 DEF Seats, ToSet
  <2>4. i \in 1..Cardinality(Conns)
    BY <1>1, <2>2, <2>3, InjectiveLen
  <2>5. <<r, i>> \in Places(c)
    <3>1. <<r, i>> \in Wait
      BY <2>1, <2>4 DEF Wait
    <3>. QED
      BY <2>3, <3>1 DEF Places
  <2>6. ASSUME NEW w \in Places(c)
        PROVE  w = <<r, i>>
    <3>1. w[2] = i
      BY <1>2, <2>2, <2>3 DEF IsInjective
    <3>. QED
      BY <1>2, <3>1
  <2>7. Places(c) = {<<r, i>>}
    BY <2>5, <2>6
  <2>. QED
    BY <1>4, <2>7, FS_Singleton
<1>. QED
  BY <1>3, <1>4

\* A connection that is seated is so at one table.
LEMMA TableCount ==
  ASSUME PlaceInv, NEW c \in Conns
  PROVE  Cardinality({t \in tables : c \in t}) = IF c \in Seated THEN 1 ELSE 0
<1>. DEFINE T == {t \in tables : c \in t}
<1>1. CASE c \notin Seated
  <2>1. T = {}
    BY <1>1 DEF Seated
  <2>. QED
    BY <1>1, <2>1, FS_EmptySet
<1>2. CASE c \in Seated
  <2>1. PICK t \in tables : c \in t
    BY <1>2 DEF Seated
  <2>2. \A u \in T : u = t
    BY <2>1 DEF PlaceInv, Placed
  <2>3. T = {t}
    BY <2>1, <2>2
  <2>. QED
    BY <1>2, <2>3, FS_Singleton
<1>. QED
  BY <1>1, <1>2

LEMMA PlacedOnce == PlaceInv => OnePlace
<1>. SUFFICES ASSUME PlaceInv, NEW c \in Conns
              PROVE  Cardinality(Places(c)) + Cardinality({t \in tables : c \in t}) =
                       IF pc[c] \in {"new", "add"} \/ c \in closed THEN 0 ELSE 1
  BY DEF OnePlace
<1>1. /\ c \in Outside \/ c \in Waiting \/ c \in closed \/ c \in Seated
      /\ c \in Outside => c \notin Waiting /\ c \notin closed /\ c \notin Seated
      /\ c \in Waiting => c \notin closed /\ c \notin Seated
      /\ c \in closed => c \notin Seated
  BY DEF PlaceInv, Placed
<1>2. c \in Outside <=> pc[c] \in {"new", "add"}
  BY DEF Outside
<1>. QED
  BY <1>1, <1>2, PlaceCount, TableCount

\* However many connections, calls and rooms there are, adding, taking seats,
\* sweeping and dropping never lose, duplicate or share a connection
\* (waiting_room.go:41-51, 154-193, 214-221).
THEOREM NobodyLost == Spec => []OnePlace
  BY AlwaysPlaced, PlacedOnce, PTL
-----------------------------------------------------------------------------
(* The waiting room implements Lounge.                                     *)

\* Where Lounge sees each connection.
PlaceOf ==
  [c \in Conns |->
    IF \E t \in tables : c \in t THEN "table"
    ELSE IF c \in closed THEN "closed"
    ELSE IF c \in Waiting THEN "waiting" ELSE "outside"]

\* What Lounge sees of a connection, by the part it is in.
SeenRight ==
  \A c \in Conns :
    /\ c \in Outside => PlaceOf[c] = "outside"
    /\ c \in Waiting => PlaceOf[c] = "waiting"
    /\ c \in closed => PlaceOf[c] = "closed"
    /\ c \in Seated => PlaceOf[c] = "table"

LEMMA PlaceOfParts == Placed => SeenRight
<1>. SUFFICES ASSUME Placed, NEW c \in Conns
              PROVE  /\ c \in Outside => PlaceOf[c] = "outside"
                     /\ c \in Waiting => PlaceOf[c] = "waiting"
                     /\ c \in closed => PlaceOf[c] = "closed"
                     /\ c \in Seated => PlaceOf[c] = "table"
  BY DEF SeenRight
<1>1. c \in Seated <=> \E t \in tables : c \in t
  BY DEF Seated
<1>2. PlaceOf[c] = IF c \in Seated THEN "table"
                   ELSE IF c \in closed THEN "closed"
                   ELSE IF c \in Waiting THEN "waiting" ELSE "outside"
  BY <1>1, Zenon DEF PlaceOf
<1>. QED
  BY <1>2 DEF Placed

\* When only the connections of a set change parts, and all to the same, that
\* is a move of Lounge.
LEMMA PartsMove ==
  ASSUME Placed, Placed', NEW S \in SUBSET Conns, NEW l,
         \A c \in S : PlaceOf'[c] = l,
         Outside' \ S = Outside \ S, Waiting' \ S = Waiting \ S,
         closed' \ S = closed \ S, Seated' \ S = Seated \ S
  PROVE  PlaceOf' = [c \in Conns |-> IF c \in S THEN l ELSE PlaceOf[c]]
<1>1. SeenRight /\ SeenRight'
  <2>1. SeenRight
    BY PlaceOfParts
  <2>2. SeenRight'
    BY PlaceOfParts, PTL
  <2>. QED
    BY <2>1, <2>2
<1>2. ASSUME NEW c \in Conns
      PROVE  PlaceOf'[c] = IF c \in S THEN l ELSE PlaceOf[c]
  <2>1. CASE c \in S
    BY <2>1
  <2>2. CASE c \notin S
    <3>1. /\ c \in Outside <=> c \in Outside'
          /\ c \in Waiting <=> c \in Waiting'
          /\ c \in closed <=> c \in closed'
          /\ c \in Seated <=> c \in Seated'
      BY <2>2
    <3>2. c \in Outside \/ c \in Waiting \/ c \in closed \/ c \in Seated
      BY DEF Placed
    <3>. QED
      BY <1>1, <2>2, <3>1, <3>2 DEF SeenRight
  <2>. QED
    BY <2>1, <2>2
<1>3. PlaceOf' = [c \in Conns |-> PlaceOf'[c]]
  BY DEF PlaceOf
<1>. QED
  BY <1>2, <1>3, Zenon

\* Each of the five things a step may do is one that Lounge allows.
LEMMA LoungeStep ==
  ASSUME IInv, PlaceInv, [Next]_vars
  PROVE  [L!Next]_(L!loungeVars)
<1>1. PlaceInv' /\ Placed /\ Placed'
  BY PlaceStep DEF PlaceInv
<1>2. SeenRight /\ SeenRight'
  <2>1. SeenRight
    BY <1>1, PlaceOfParts
  <2>2. SeenRight'
    BY <1>1, PlaceOfParts, PTL
  <2>. QED
    BY <2>1, <2>2
<1>3. ASSUME Stays
      PROVE  UNCHANGED L!loungeVars
  <2>1. /\ Outside' = Outside /\ closed' = closed /\ tables' = tables
        /\ Waiting' = Waiting /\ Seated' = Seated
    BY <1>3 DEF Stays, Seated, Waiting, Seats
  <2>2. PlaceOf' = PlaceOf
    BY <2>1, Zenon DEF PlaceOf
  <2>. QED
    BY <2>1, <2>2, Zenon DEF L!loungeVars, PlaceOf
<1>4. ASSUME NEW S \in SUBSET Conns, S \subseteq Outside \/ S \subseteq Waiting,
             closed' = closed \cup S, Outside' = Outside \ S, Waiting' = Waiting \ S,
             UNCHANGED tables
      PROVE  L!Close(S)
  <2>1. Seated' = Seated
    BY <1>4 DEF Seated
  <2>2. PlaceOf' = [g \in Conns |-> IF g \in S THEN "closed" ELSE PlaceOf[g]]
    <3>1. \A c \in S : PlaceOf'[c] = "closed"
      BY <1>2, <1>4 DEF SeenRight
    <3>. QED
      BY <1>1, <1>4, <2>1, <3>1, PartsMove
  <2>3. \A g \in S : PlaceOf[g] \in {"outside", "waiting"}
    BY <1>2, <1>4 DEF SeenRight
  <2>. QED
    BY <1>4, <2>2, <2>3, Zenon DEF L!Close, L!Move, PlaceOf
<1>5. ASSUME NEW c \in Conns, Refused(c)
      PROVE  L!Close({c})
  <2>1. Waiting' = Waiting /\ Waiting \ {c} = Waiting
    BY <1>1, <1>5 DEF Refused, Placed, Waiting, Seats
  <2>. QED
    BY <1>4, <1>5, <2>1 DEF Refused
<1>6. ASSUME NEW S \in SUBSET Conns, Closed(S)
      PROVE  L!Close(S)
  <2>1. Waiting' = Waiting \ S
    BY <1>6 DEF Closed, Waiting, Seats
  <2>2. Outside \ S = Outside
    BY <1>1, <1>6 DEF Closed, Placed
  <2>. QED
    BY <1>4, <1>6, <2>1, <2>2 DEF Closed
<1>7. ASSUME NEW c \in Conns, Entered(c)
      PROVE  L!Enter(c)
  <2>1. \A r \in Rooms : ToSet(waiting'[r]) = Seats(r) \cup (IF r = RoomOf[c] THEN {c} ELSE {})
    BY <1>7, EnteredFacts
  <2>2. Waiting' = Waiting \cup {c}
    BY <2>1, ConnAssumption DEF Waiting, Seats
  <2>3. /\ c \in Outside /\ Outside' = Outside \ {c} /\ closed' = closed
        /\ Seated' = Seated /\ tables' = tables
    BY <1>7 DEF Entered, Seated
  <2>4. PlaceOf' = [g \in Conns |-> IF g \in {c} THEN "waiting" ELSE PlaceOf[g]]
    <3>1. \A d \in {c} : PlaceOf'[d] = "waiting"
      BY <1>2, <2>2 DEF SeenRight
    <3>2. /\ Outside' \ {c} = Outside \ {c} /\ Waiting' \ {c} = Waiting \ {c}
          /\ closed' \ {c} = closed \ {c} /\ Seated' \ {c} = Seated \ {c}
      BY <2>2, <2>3
    <3>3. {c} \in SUBSET Conns
      OBVIOUS
    <3>. QED
      BY <1>1, <3>1, <3>2, <3>3, PartsMove
  <2>5. \A g \in {c} : PlaceOf[g] \in {"outside"}
    BY <1>2, <2>3 DEF SeenRight
  <2>. QED
    BY <2>3, <2>4, <2>5, Zenon DEF L!Enter, L!Move, PlaceOf
<1>8. ASSUME NEW r \in Rooms, Sat(r)
      PROVE  \E S \in SUBSET Conns : L!Sit(S)
  <2>1. PICK S \in SUBSET Conns :
          /\ tables' = tables \cup {S} /\ S \subseteq Seats(r)
          /\ Cardinality(S) = TableSize
          /\ \A q \in Rooms : ToSet(waiting'[q]) = Seats(q) \ S
    BY <1>8, SatFacts
  <2>2. Outside' = Outside /\ closed' = closed
    BY <1>8 DEF Sat
  <2>3. /\ Waiting' = Waiting \ S /\ S \subseteq Waiting
        /\ Seated' = Seated \cup S
    BY <2>1 DEF Waiting, Seats, Seated
  <2>4. PlaceOf' = [g \in Conns |-> IF g \in S THEN "table" ELSE PlaceOf[g]]
    <3>1. \A c \in S : PlaceOf'[c] = "table"
      BY <1>2, <2>1, <2>3 DEF SeenRight
    <3>2. /\ Outside' \ S = Outside \ S /\ Waiting' \ S = Waiting \ S
          /\ closed' \ S = closed \ S /\ Seated' \ S = Seated \ S
      BY <2>2, <2>3
    <3>. QED
      BY <1>1, <3>1, <3>2, PartsMove
  <2>5. \A g \in S : PlaceOf[g] \in {"waiting"}
    BY <1>2, <2>1, <2>3 DEF SeenRight
  <2>6. \A g, h \in S : RoomOf[g] = RoomOf[h]
    BY <1>1, <2>1 DEF Placed
  <2>7. L!Cardinality(S) = TableSize
    BY <2>1, Zenon DEF L!Cardinality, Cardinality
  <2>8. L!Sit(S)
    BY <2>1, <2>4, <2>5, <2>6, <2>7, Zenon DEF L!Sit, L!Move, PlaceOf
  <2>. QED
    BY <2>1, <2>8
<1>. QED
  <2>1. CASE Stays
    BY <1>3, <2>1
  <2>2. ASSUME NEW c \in Conns, Refused(c) \/ Entered(c)
        PROVE  L!Next
    <3>1. {c} \in SUBSET Conns
      OBVIOUS
    <3>. QED
      BY <1>5, <1>7, <2>2, <3>1, Zenon DEF L!Next
  <2>3. ASSUME NEW r \in Rooms, Sat(r)
        PROVE  L!Next
    BY <1>8, <2>3, Zenon DEF L!Next
  <2>4. ASSUME NEW S \in SUBSET Conns, Closed(S)
        PROVE  L!Next
    BY <1>6, <2>4, Zenon DEF L!Next
  <2>. QED
    BY <2>1, <2>2, <2>3, <2>4, StepPlaces

LEMMA LoungeInit == Init => L!Init
<1>. SUFFICES ASSUME Init
              PROVE  L!Init
  OBVIOUS
<1>1. Placed /\ tables = {}
  BY PlaceInit DEF PlaceInv, Init
<1>2. \A c \in Conns : c \in Outside
  BY ConnAssumption DEF Init, Outside, Handlers
<1>3. PlaceOf = [c \in Conns |-> PlaceOf[c]]
  BY DEF PlaceOf
<1>4. \A c \in Conns : PlaceOf[c] = "outside"
  BY <1>1, <1>2, PlaceOfParts DEF SeenRight
<1>5. PlaceOf = [c \in Conns |-> "outside"]
  BY <1>3, <1>4, Zenon
<1>. QED
  BY <1>1, <1>5, Zenon DEF L!Init, PlaceOf

\* The waiting room keeps the promise of Lounge: who is let in waits until
\* closed or seated, once, at a table of exactly agent_count connections of
\* one room (waiting_room.go:41-51, 154-225).
THEOREM LoungeRefinement == Spec => ImplementsLounge
<1>1. Init => L!Init
  BY LoungeInit
<1>2. IInv /\ PlaceInv /\ [Next]_vars => [L!Next]_(L!loungeVars)
  BY LoungeStep
<1>3. Spec => [](IInv /\ PlaceInv)
  BY AlwaysPlaced
<1>. QED
  BY <1>1, <1>2, <1>3, PTL DEF Spec, ImplementsLounge, L!Spec
=============================================================================
