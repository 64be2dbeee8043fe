------------------------ MODULE MatchOptimizerProofs ------------------------
(***************************************************************************)
(* The file of the match optimizer and the lock it is written under, for   *)
(* any number of connections, teams, matches and crashes.                  *)
(***************************************************************************)
EXTENDS MatchOptimizer, SubsequencesProofs, SequenceTheorems, FiniteSetTheorems, TLAPS

Savers == {"saved", "over"}
Stops ==
  Savers \cup {"new", "add", "register", "append", "find", "take", "store", "play", "done"}
IdxMatches == [Roles -> SUBSET Int]

\* The part of TypeOK the argument needs.
TypedInv ==
  /\ up \in {"up", "down", "loaded", "resave", "refused"} /\ lost \in BOOLEAN
  /\ pc \in [Conns -> Stops]
  /\ DOMAIN todo = Conns
  /\ \A c \in Conns : pc[c] \in {"register", "saved"} => todo[c] \subseteq Teams
  /\ teams \in Seq(Teams) /\ Len(teams) <= TeamCount
  /\ ended \in Seq(IdxMatches)

\* Who writes the file holds mo.mu, and nobody does unless the server is up.
LockInv ==
  /\ \A c \in Conns : pc[c] \in Savers => lock = c
  /\ up # "up" => lock = Nobody

\* What a file that can be parsed holds, however old it is.
FileTyped ==
  file.kind = "saved" => /\ file.teams \in Seq(Teams) /\ Len(file.teams) <= TeamCount
                         /\ file.ended \in Seq(IdxMatches)

\* The waiting room: who is to store a slice has loaded one that is not empty.
RoomTyped ==
  /\ waiting \in [Teams -> Seq(Conns)] /\ present \subseteq Teams
  /\ saw \in [Conns -> Seq(Conns)]
  /\ \A c \in Conns : pc[c] = "store" => saw[c] # <<>>

CoreInv == TypedInv /\ LockInv /\ FileTyped /\ FileKept
IInv == CoreInv /\ RoomTyped

\* Nothing that was played or registered is undone.
Grown == IsPrefix(ended, ended') /\ IsPrefix(teams, teams')
-----------------------------------------------------------------------------
LEMMA InitInv == Init => IInv
  <1> SUFFICES ASSUME Init PROVE IInv
    OBVIOUS
  <1>1. TypedInv
    <2>1. <<>> \in Seq(Teams) /\ <<>> \in Seq(IdxMatches) /\ Len(<<>>) = 0
      OBVIOUS
    <2>2. pc \in [Conns -> Stops] /\ DOMAIN todo = Conns /\ \A c \in Conns : todo[c] = {}
      BY DEF Init, Stops
    <2>3. teams = <<>> /\ ended = <<>> /\ up = "up" /\ lost \in BOOLEAN
      BY DEF Init
    <2>4. teams \in Seq(Teams) /\ ended \in Seq(IdxMatches) /\ Len(teams) <= TeamCount
      BY <2>1, <2>3, CountAssumption
    <2> QED BY <2>2, <2>3, <2>4 DEF TypedInv
  <1>2. LockInv
    BY DEF Init, LockInv, Savers
  <1>3. FileTyped /\ FileKept
    <2>1. <<>> \in Seq(Teams) /\ <<>> \in Seq(IdxMatches) /\ Len(<<>>) = 0
      OBVIOUS
    <2>2. CASE file = Saved
      BY <2>1, <2>2, CountAssumption DEF Init, FileTyped, FileKept, Saved
    <2>3. CASE file \in {Missing, Torn} /\ lost
      BY <2>3 DEF Init, FileTyped, FileKept, Missing, Torn
    <2> QED BY <2>2, <2>3 DEF Init
  <1>4. RoomTyped
    <2>1. <<>> \in Seq(Conns)
      OBVIOUS
    <2> QED BY <2>1 DEF Init, RoomTyped
  <1> QED BY <1>1, <1>2, <1>3, <1>4 DEF IInv, CoreInv

LEMMA IdxIsInt ==
  ASSUME TypedInv, NEW t
  PROVE  TeamToIdx(t) \in Int
  <1>1. CASE t \in ToSet(teams)
    <2>1. PICK j \in 1..Len(teams) : teams[j] = t
      BY <1>1 DEF ToSet, TypedInv
    <2>2. PICK i \in Idxs : i = j - 1
      BY <2>1, CountAssumption DEF TypedInv, Idxs
    <2>3. NameOf(i) = t
      <3>1. Len(teams) \in Nat /\ i + 1 = j /\ i < Len(teams)
        BY <2>1, <2>2, CountAssumption DEF TypedInv, Idxs
      <3>2. NameOf(i) = teams[i + 1]
        BY <3>1 DEF NameOf
      <3> QED BY <2>1, <3>1, <3>2
    <2>4. (CHOOSE h \in Idxs : NameOf(h) = t) \in Idxs
      BY <2>2, <2>3
    <2> QED BY <1>1, <2>4, CountAssumption DEF TeamToIdx, Idxs
  <1>2. CASE t \notin ToSet(teams)
    BY <1>2 DEF TeamToIdx
  <1> QED BY <1>1, <1>2

LEMMA MatchTyped ==
  ASSUME TypedInv, NEW m
  PROVE  TeamNameMatchToIdxMatch(m) \in IdxMatches
  BY IdxIsInt DEF TeamNameMatchToIdxMatch, IdxMatches

LEMMA PrefixFacts ==
  ASSUME NEW S, NEW s \in Seq(S), NEW x \in S
  PROVE  IsPrefix(s, s) /\ IsPrefix(s, Append(s, x))
  <1>1. Len(Append(s, x)) = Len(s) + 1 /\ Append(s, x) \in Seq(S)
    OBVIOUS
  <1>2. SubSeq(Append(s, x), 1, Len(s)) = SubSeq(s, 1, Len(s))
    BY <1>1
  <1> QED BY <1>1, <1>2 DEF IsPrefix
-----------------------------------------------------------------------------
(* Steps that leave the schedule's file and lock alone.                    *)

\* Nobody saves while mo.mu is free.
LEMMA FreeFacts ==
  ASSUME CoreInv, lock = Nobody, up # "resave"
  PROVE  ~Saving
  BY ConnAssumption DEF CoreInv, LockInv, Saving, Savers

LEMMA NoneLost ==
  ASSUME CoreInv, UNCHANGED <<teams, ended>>
  PROVE  Grown
  <1>1. SubSeq(ended, 1, Len(ended)) = ended /\ SubSeq(teams, 1, Len(teams)) = teams
    BY DEF CoreInv, TypedInv
  <1>2. Len(ended) \in Nat /\ Len(teams) \in Nat
    BY DEF CoreInv, TypedInv
  <1> QED BY <1>1, <1>2 DEF Grown, IsPrefix

LEMMA QuietInv ==
  ASSUME CoreInv, UNCHANGED <<up, teams, ended, lock, file, lost>>, NEW c \in Conns,
         NEW l \in Stops \ Savers, pc' = pc \/ pc' = [pc EXCEPT ![c] = l],
         pc[c] \notin Savers,
         NEW T, todo' = todo \/ todo' = [todo EXCEPT ![c] = T],
         pc'[c] \in {"register", "saved"} => todo'[c] \subseteq Teams
  PROVE  CoreInv'
  <1>0. pc \in [Conns -> Stops] /\ DOMAIN todo = Conns
    BY DEF CoreInv, TypedInv
  <1>1. TypedInv'
    <2>1. pc' \in [Conns -> Stops] /\ DOMAIN todo' = Conns
      BY <1>0
    <2>2. ASSUME NEW d \in Conns, pc'[d] \in {"register", "saved"}
          PROVE  todo'[d] \subseteq Teams
      <3>1. CASE d = c
        BY <2>2, <3>1
      <3>2. CASE d # c
        BY <2>2, <3>2 DEF CoreInv, TypedInv
      <3> QED BY <3>1, <3>2
    <2> QED BY <2>1, <2>2 DEF CoreInv, TypedInv
  <1>2. \A d \in Conns : pc'[d] \in Savers <=> pc[d] \in Savers
    BY <1>0
  <1>3. LockInv'
    BY <1>2 DEF CoreInv, LockInv
  <1>4. FileTyped'
    BY DEF CoreInv, FileTyped
  <1>5. FileKept'
    <2>1. Saving' <=> Saving
      BY <1>2 DEF Saving, Savers
    <2> QED BY <2>1 DEF CoreInv, FileKept
  <1> QED BY <1>1, <1>3, <1>4, <1>5 DEF CoreInv

RoomStep(c) ==
  \/ AddLoad(c) \/ AddStore(c) \/ GetMatches(c) \/ FindReady(c) \/ TakeLoad(c)
  \/ TakeStore(c) \/ Play(c) \/ NotFound(c)

LEMMA RoomInv ==
  ASSUME IInv, NEW c \in Conns, RoomStep(c)
  PROVE  CoreInv' /\ Grown
  <1>0. CoreInv /\ RoomTyped
    BY DEF IInv
  <1>1. \A l \in {"add", "register", "find", "take", "store", "play", "done"} :
          l \in Stops \ Savers
    BY DEF Stops, Savers
  <1>2. UNCHANGED <<up, teams, ended, lock, file, lost>>
    BY DEF RoomStep, AddLoad, AddStore, GetMatches, FindReady, TakeLoad, TakeStore, Play,
       NotFound, moVars, fileVars
  <1>3. Grown
    BY <1>0, <1>2, NoneLost
  <1>4. pc \in [Conns -> Stops] /\ DOMAIN todo = Conns
    BY <1>0 DEF CoreInv, TypedInv
  <1>5. pc[c] \notin Savers
    BY DEF RoomStep, AddLoad, AddStore, GetMatches, FindReady, TakeLoad, TakeStore, Play,
       NotFound, Locked, Running, Savers
  <1>6. CASE AddLoad(c)
    <2>1. pc' = [pc EXCEPT ![c] = "add"] /\ todo' = todo
      BY <1>6 DEF AddLoad, Goto
    <2>2. pc'[c] \notin {"register", "saved"}
      BY <1>4, <2>1
    <2> QED BY <1>0, <1>1, <1>2, <1>3, <1>5, <2>1, <2>2, QuietInv
  <1>7. CASE AddStore(c)
    <2>1. /\ pc' = [pc EXCEPT ![c] = "register"] /\ present' \subseteq Teams
          /\ todo' = [todo EXCEPT ![c] = present']
      BY <1>0, <1>7, ConnAssumption DEF AddStore, Goto, RoomTyped
    <2>2. PICK T \in SUBSET Teams : T = present'
      BY <2>1
    <2>3. todo' = [todo EXCEPT ![c] = T] /\ todo'[c] \subseteq Teams
      BY <1>4, <2>1, <2>2
    <2> QED BY <1>0, <1>1, <1>2, <1>3, <1>5, <2>1, <2>3, QuietInv
  <1>8. CASE \/ GetMatches(c) \/ FindReady(c) \/ TakeLoad(c) \/ TakeStore(c)
             \/ Play(c) \/ NotFound(c)
    <2>1. PICK T : todo' = todo \/ todo' = [todo EXCEPT ![c] = T]
      BY <1>8 DEF GetMatches, FindReady, TakeLoad, PassOver, TakeNone, TakeStore, Play,
         NotFound, localVars
    <2>2. \/ pc' = pc /\ pc[c] \in {"find", "take"}
          \/ \E l \in {"find", "take", "store", "play", "done"} : pc' = [pc EXCEPT ![c] = l]
      BY <1>8 DEF GetMatches, FindReady, TakeLoad, PassOver, TakeNone, TakeStore, Play,
         NotFound, Goto, Running
    <2>3. PICK l \in {"find", "take", "store", "play", "done"} :
            \/ pc' = pc /\ pc[c] \in {"find", "take"}
            \/ pc' = [pc EXCEPT ![c] = l]
      BY <2>2
    <2>4. pc'[c] \notin {"register", "saved"}
      BY <1>4, <2>3
    <2> QED BY <1>0, <1>1, <1>2, <1>3, <1>5, <2>1, <2>3, <2>4, QuietInv
  <1> QED BY <1>6, <1>7, <1>8 DEF RoomStep
-----------------------------------------------------------------------------
(* Steps that change the schedule, or save it.                             *)

LEMMA BeginSave ==
  ASSUME CoreInv, NEW c \in Conns, NEW l \in Savers, up = "up", lock = Nobody, up' = up,
         pc[c] \in {"register", "play"},
         Save(c, l), DOMAIN todo' = Conns, \A d \in Conns : todo'[d] \subseteq todo[d],
         l = "saved" => todo[c] \subseteq Teams,
         teams' \in Seq(Teams), Len(teams') <= TeamCount, ended' \in Seq(IdxMatches)
  PROVE  CoreInv' /\ lost' \in {lost, TRUE}
  <1>0. pc \in [Conns -> Stops] /\ lost \in BOOLEAN /\ \A d \in Conns : pc[d] \notin Savers
    BY ConnAssumption DEF CoreInv, TypedInv, LockInv
  <1>1. CASE /\ pc' = [pc EXCEPT ![c] = l] /\ lock' = c /\ file' = Torn
             /\ UNCHANGED <<fails, lost>>
    <2>1. pc' \in [Conns -> Stops] /\ pc'[c] = l
      BY <1>0, <1>1 DEF Stops
    <2>2. TypedInv'
      <3>1. ASSUME NEW d \in Conns, pc'[d] \in {"register", "saved"}
            PROVE  todo'[d] \subseteq Teams
        <4>1. CASE d = c
          BY <2>1, <3>1, <4>1 DEF Savers
        <4>2. CASE d # c
          BY <1>1, <3>1, <4>2 DEF CoreInv, TypedInv
        <4> QED BY <4>1, <4>2
      <3> QED BY <1>1, <2>1, <3>1 DEF CoreInv, TypedInv
    <2>3. LockInv'
      BY <1>0, <1>1, ConnAssumption DEF CoreInv, LockInv
    <2>4. FileTyped'
      BY <1>1 DEF FileTyped, Torn
    <2>5. FileKept'
      <3>1. Saving'
        BY <2>1 DEF Saving, Savers
      <3> QED BY <3>1 DEF FileKept
    <2> QED BY <1>1, <2>2, <2>3, <2>4, <2>5 DEF CoreInv
  <1>2. CASE Fail /\ Goto(c, SaveNext(l)) /\ UNCHANGED <<lock, file>>
    <2>1. /\ lost' = TRUE /\ UNCHANGED <<lock, file>>
          /\ pc' = [pc EXCEPT ![c] = SaveNext(l)]
      BY <1>2 DEF Fail, Goto
    <2>2. /\ SaveNext(l) \in Stops \ Savers /\ SaveNext(l) # "saved"
          /\ SaveNext(l) = "register" => l = "saved"
      BY DEF SaveNext, Stops, Savers
    <2>3. pc' \in [Conns -> Stops] /\ pc'[c] = SaveNext(l)
      BY <1>0, <2>1, <2>2
    <2>4. TypedInv'
      <3>1. ASSUME NEW d \in Conns, pc'[d] \in {"register", "saved"}
            PROVE  todo'[d] \subseteq Teams
        <4>1. CASE d = c
          BY <2>2, <2>3, <3>1, <4>1
        <4>2. CASE d # c
          BY <2>1, <3>1, <4>2 DEF CoreInv, TypedInv
        <4> QED BY <4>1, <4>2
      <3> QED BY <2>1, <2>3, <3>1 DEF CoreInv, TypedInv
    <2>5. LockInv'
      BY <1>0, <2>1, <2>2 DEF LockInv
    <2>6. FileTyped'
      BY <2>1 DEF CoreInv, FileTyped
    <2>7. FileKept'
      BY <2>1 DEF FileKept
    <2> QED BY <2>1, <2>4, <2>5, <2>6, <2>7 DEF CoreInv
  <1> QED BY <1>1, <1>2 DEF Save, Goto

LEMMA UpdateTeamInv ==
  ASSUME CoreInv, NEW c \in Conns, UpdateTeam(c)
  PROVE  CoreInv' /\ Grown
  <1>1. PICK t \in todo[c] :
          /\ todo' = [todo EXCEPT ![c] = todo[c] \ {t}]
          /\ \/ Turned(t) /\ UNCHANGED <<teams, lock, fileVars, pc>>
             \/ ~Turned(t) /\ teams' = Append(teams, t) /\ Save(c, "saved")
    BY DEF UpdateTeam, SaveTeam
  <1>2. UNCHANGED <<up, ended>> /\ up = "up" /\ lock = Nobody /\ pc[c] = "register"
    BY DEF UpdateTeam, Locked, Running
  <1>3. DOMAIN todo = Conns /\ todo[c] \subseteq Teams /\ pc \in [Conns -> Stops]
    BY <1>2 DEF CoreInv, TypedInv
  <1>4. DOMAIN todo' = Conns /\ \A d \in Conns : todo'[d] \subseteq todo[d]
    BY <1>1, <1>3
  <1>5. CASE UNCHANGED <<teams, lock, fileVars, pc>>
    <2>1. UNCHANGED <<up, teams, ended, lock, file, lost, pc>>
      BY <1>2, <1>5 DEF fileVars
    <2>2. pc[c] \notin Savers /\ pc[c] \in Stops /\ todo'[c] \subseteq Teams
      BY <1>2, <1>3, <1>4 DEF Savers
    <2>3. PICK T : todo' = [todo EXCEPT ![c] = T]
      BY <1>1
    <2>4. CoreInv'
      BY <2>1, <2>2, <2>3, QuietInv
    <2> QED BY <2>1, <2>4, NoneLost
  <1>6. CASE ~Turned(t) /\ teams' = Append(teams, t) /\ Save(c, "saved")
    <2>1. /\ Len(teams) < TeamCount /\ teams \in Seq(Teams) /\ t \in Teams
          /\ ended \in Seq(IdxMatches)
      BY <1>3, <1>6, CountAssumption DEF Turned, CoreInv, TypedInv
    <2>2. teams' \in Seq(Teams) /\ Len(teams') <= TeamCount
      BY <1>6, <2>1, CountAssumption
    <2>3. ended' \in Seq(IdxMatches) /\ "saved" \in Savers
      BY <1>2, <2>1 DEF Savers
    <2>4. CoreInv'
      BY <1>2, <1>3, <1>4, <1>6, <2>2, <2>3, BeginSave
    <2>5. IsPrefix(teams, teams')
      BY <1>6, <2>1, PrefixFacts
    <2>6. IsPrefix(ended, ended')
      BY <1>2, <2>1, PrefixFacts, MatchTyped DEF CoreInv
    <2> QED BY <2>4, <2>5, <2>6 DEF Grown
  <1> QED BY <1>1, <1>5, <1>6

LEMMA GameEndInv ==
  ASSUME CoreInv, NEW c \in Conns, SetMatchEnd(c) \/ SetMatchWeight(c)
  PROVE  CoreInv' /\ Grown
  <1>0. TypedInv /\ ended \in Seq(IdxMatches) /\ teams \in Seq(Teams) /\ Len(teams) <= TeamCount
    BY DEF CoreInv, TypedInv
  <1>1. PICK m \in IdxMatches : ended' = Append(ended, m) \/ ended' = ended
    BY <1>0, MatchTyped DEF SetMatchEnd, SetMatchWeight
  <1>2. ended' \in Seq(IdxMatches) /\ IsPrefix(ended, ended')
    <2>1. Append(ended, m) \in Seq(IdxMatches)
      BY <1>0
    <2>2. IsPrefix(ended, ended) /\ IsPrefix(ended, Append(ended, m))
      BY <1>0, PrefixFacts
    <2> QED BY <1>0, <1>1, <2>1, <2>2
  <1>3. /\ UNCHANGED <<up, teams, todo>> /\ up = "up" /\ lock = Nobody /\ Save(c, "over")
        /\ pc[c] = "play"
    BY DEF SetMatchEnd, SetMatchWeight, SaveEnd, Locked, Running, localVars
  <1>4. "over" \in Savers /\ "over" # "saved" /\ DOMAIN todo' = Conns
    BY <1>0, <1>3 DEF TypedInv, Savers
  <1>5. CoreInv'
    BY <1>0, <1>2, <1>3, <1>4, BeginSave
  <1>6. IsPrefix(teams, teams')
    <2>1. SubSeq(teams, 1, Len(teams)) = teams
      BY <1>0
    <2> QED BY <1>0, <1>3, <2>1 DEF IsPrefix
  <1> QED BY <1>2, <1>5, <1>6 DEF Grown

LEMMA SaveWriteInv ==
  ASSUME CoreInv, NEW c \in Conns, SaveWrite(c)
  PROVE  CoreInv' /\ Grown
  <1>0. pc \in [Conns -> Stops] /\ \A d \in Conns : pc[d] \in Savers => lock = d
    BY DEF CoreInv, TypedInv, LockInv
  <1>1. /\ UNCHANGED <<up, teams, ended, todo>> /\ up = "up" /\ lock' = Nobody
        /\ pc[c] \in Savers /\ lock = c
        /\ pc' = [pc EXCEPT ![c] = SaveNext(pc[c])]
    BY DEF SaveWrite, SaveReturn, Goto, Savers, moVars, localVars
  <1>2. \/ file' = Saved /\ lost' = FALSE
        \/ file' = file /\ lost' = TRUE
    BY DEF SaveWrite, Write, Fail
  <1>3. /\ SaveNext(pc[c]) \in Stops \ Savers /\ SaveNext(pc[c]) # "saved"
        /\ SaveNext(pc[c]) = "register" => pc[c] = "saved"
    BY DEF SaveNext, Stops, Savers
  <1>4. TypedInv'
    <2>1. pc' \in [Conns -> Stops] /\ pc'[c] = SaveNext(pc[c])
      BY <1>0, <1>1, <1>3
    <2>2. ASSUME NEW d \in Conns, pc'[d] \in {"register", "saved"}
          PROVE  todo'[d] \subseteq Teams
      <3>1. CASE d = c
        BY <1>1, <1>3, <2>1, <2>2, <3>1 DEF CoreInv, TypedInv
      <3>2. CASE d # c
        BY <1>1, <2>2, <3>2 DEF CoreInv, TypedInv
      <3> QED BY <3>1, <3>2
    <2> QED BY <1>1, <1>2, <2>1, <2>2 DEF CoreInv, TypedInv
  <1>5. LockInv'
    BY <1>0, <1>1, <1>3 DEF LockInv
  <1>6. FileTyped'
    <2>1. Saved.teams = teams /\ Saved.ended = ended
      BY DEF Saved
    <2> QED BY <1>2, <2>1 DEF CoreInv, TypedInv, FileTyped
  <1>7. FileKept'
    <2>1. Saved.kind = "saved" /\ Saved.teams = teams /\ Saved.ended = ended
      BY DEF Saved
    <2> QED BY <1>1, <1>2, <2>1 DEF FileKept
  <1> QED BY <1>1, <1>4, <1>5, <1>6, <1>7, NoneLost DEF CoreInv

LEMMA AppendInv ==
  ASSUME CoreInv, NEW c \in Conns, AppendWithinLock(c)
  PROVE  CoreInv' /\ Grown
  <1>1. /\ UNCHANGED <<up, teams, ended, todo, file, lost>> /\ up = "up" /\ lock = Nobody
        /\ lock' = c /\ pc' = [pc EXCEPT ![c] = "append"]
    BY DEF AppendWithinLock, Locked, Running, Goto, moVars, localVars, fileVars
  <1>2. "append" \in Stops \ Savers /\ "append" \notin {"register", "saved"}
    BY DEF Stops, Savers
  <1>3. pc \in [Conns -> Stops] /\ \A d \in Conns : pc[d] \notin Savers
    BY <1>1, ConnAssumption DEF CoreInv, TypedInv, LockInv
  <1>4. TypedInv'
    BY <1>1, <1>2 DEF CoreInv, TypedInv
  <1>5. LockInv'
    BY <1>1, <1>2, <1>3 DEF LockInv
  <1>6. FileTyped'
    BY <1>1 DEF CoreInv, FileTyped
  <1>7. ~Saving
    BY <1>1, FreeFacts
  <1>8. FileKept'
    BY <1>1, <1>7 DEF CoreInv, FileKept
  <1> QED BY <1>1, <1>4, <1>5, <1>6, <1>8, NoneLost DEF CoreInv

LEMMA RestartInv ==
  ASSUME CoreInv, Crash \/ Restart \/ Resave
  PROVE  CoreInv' /\ (lost' \/ Grown)
  <1>0. TypedInv /\ LockInv /\ FileTyped /\ FileKept
    BY DEF CoreInv
  <1>1. CASE Crash
    <2>1. /\ UNCHANGED <<teams, ended, file>> /\ up' = "down" /\ lock' = Nobody
          /\ lost' = (lost \/ Saving)
          /\ todo' = [c \in Conns |-> {}]
          /\ pc' = [c \in Conns |-> IF pc[c] = "new" THEN "new" ELSE "done"]
      BY <1>1 DEF Crash, moVars
    <2>2. pc' \in [Conns -> Stops] /\ \A c \in Conns : pc'[c] \notin Savers
      BY <2>1 DEF Stops, Savers
    <2>3. lost' \in BOOLEAN
      BY <1>0, <2>1 DEF TypedInv
    <2>4. TypedInv'
      BY <1>0, <2>1, <2>2, <2>3 DEF TypedInv
    <2>5. LockInv' /\ FileTyped'
      BY <1>0, <2>1, <2>2 DEF LockInv, FileTyped
    <2>6. FileKept'
      BY <1>0, <2>1 DEF FileKept
    <2> QED BY <2>1, <2>4, <2>5, <2>6, NoneLost DEF CoreInv
  <1>2. CASE Restart
    <2>1. up = "down" /\ UNCHANGED <<lock, file, pc, todo>> /\ lock = Nobody
      BY <1>0, <1>2 DEF Restart, localVars, LockInv
    <2>2. ~lost => file.kind = "saved" /\ file.teams = teams /\ file.ended = ended
      BY <1>0, <2>1, FreeFacts DEF FileKept
    <2>3. ASSUME up' \in {"loaded", "refused"}, lost' \in BOOLEAN, teams' \in Seq(Teams),
                 Len(teams') <= TeamCount, ended' \in Seq(IdxMatches),
                 \/ lost'
                 \/ /\ UNCHANGED <<teams, ended>> /\ up' # "refused"
                    /\ file.kind = "saved" /\ file.teams = teams /\ file.ended = ended
          PROVE  CoreInv' /\ (lost' \/ Grown)
      <3>1. TypedInv'
        BY <1>0, <2>1, <2>3 DEF TypedInv
      <3>2. LockInv' /\ FileTyped'
        BY <1>0, <2>1 DEF LockInv, FileTyped
      <3>3. FileKept'
        BY <2>1, <2>3 DEF FileKept
      <3> QED BY <2>3, <3>1, <3>2, <3>3, NoneLost DEF CoreInv
    <2>4. <<>> \in Seq(Teams) /\ <<>> \in Seq(IdxMatches) /\ Len(<<>>) <= TeamCount
      BY CountAssumption
    <2>5. CASE Reload
      <3>1. /\ up' = "loaded" /\ lost' = lost /\ file.kind = "saved"
            /\ teams' = file.teams /\ ended' = file.ended
        BY <2>5 DEF Reload
      <3> QED BY <1>0, <2>2, <2>3, <3>1 DEF TypedInv, FileTyped
    <2>6. CASE DrawAnew
      <3>1. /\ up' = "loaded" /\ teams' = <<>> /\ ended' = <<>>
            /\ lost' = TRUE \/ (lost' = lost /\ file.kind = "missing")
        BY <2>6 DEF DrawAnew, Fail
      <3> QED BY <1>0, <2>2, <2>3, <2>4, <3>1 DEF TypedInv
    <2>7. CASE Refuse
      <3>1. /\ up' = "refused" /\ UNCHANGED <<teams, ended, lost>> /\ file.kind = "torn"
        BY <2>7 DEF Refuse, moVars
      <3> QED BY <1>0, <2>2, <2>3, <3>1 DEF TypedInv
    <2> QED BY <1>2, <2>5, <2>6, <2>7 DEF Restart
  <1>3. CASE Resave
    <2>1. UNCHANGED <<teams, ended, lock, pc, todo>> /\ up \in {"loaded", "resave"}
      BY <1>3 DEF Resave, moVars, localVars
    <2>2. /\ up' \in {"resave", "up"}
          /\ \/ up' = "resave" /\ file' = Torn /\ lost' = lost
             \/ file' = file /\ lost' = TRUE
             \/ file' = Saved /\ lost' = FALSE
      BY <1>3 DEF Resave, Write, Fail
    <2>3. lock = Nobody /\ lock' = Nobody
      BY <1>0, <2>1 DEF LockInv
    <2>4. Torn.kind = "torn" /\ Saved.kind = "saved" /\ Saved.teams = teams /\ Saved.ended = ended
      BY DEF Torn, Saved
    <2>5. TypedInv'
      BY <1>0, <2>1, <2>2 DEF TypedInv
    <2>6. LockInv'
      BY <1>0, <2>1, <2>3 DEF LockInv
    <2>7. FileTyped'
      BY <1>0, <2>2, <2>4 DEF TypedInv, FileTyped
    <2>8. FileKept'
      <3>1. CASE up' = "resave"
        BY <3>1 DEF FileKept, Saving
      <3>2. CASE up' # "resave"
        BY <2>1, <2>2, <2>4, <3>2 DEF FileKept
      <3> QED BY <3>1, <3>2
    <2> QED BY <2>1, <2>5, <2>6, <2>7, <2>8, NoneLost DEF CoreInv
  <1> QED BY <1>1, <1>2, <1>3
-----------------------------------------------------------------------------
(* The waiting room.                                                       *)

\* Steps that leave the room and what the handlers loaded of it as they are.
LEMMA RoomSame ==
  ASSUME IInv, UNCHANGED <<waiting, present, saw>>,
         \A c \in Conns : pc'[c] = "store" => pc[c] = "store"
  PROVE  RoomTyped'
  BY DEF IInv, RoomTyped

LEMMA RoomTypedStep ==
  ASSUME IInv, NEW c \in Conns, RoomStep(c)
  PROVE  RoomTyped'
<1>0. pc \in [Conns -> Stops] /\ RoomTyped /\ TeamOf[c] \in Teams /\ <<>> \in Seq(Conns)
  BY ConnAssumption DEF IInv, CoreInv, TypedInv
<1>1. CASE AddLoad(c)
  <2>1. /\ pc' = [pc EXCEPT ![c] = "add"] /\ present' = present \cup {TeamOf[c]}
        /\ saw' = [saw EXCEPT ![c] = waiting[TeamOf[c]]] /\ UNCHANGED waiting
    BY <1>1 DEF AddLoad, Goto
  <2>2. saw' \in [Conns -> Seq(Conns)]
    BY <1>0, <2>1 DEF RoomTyped
  <2>3. \A d \in Conns : pc'[d] = "store" => saw'[d] # <<>>
    BY <1>0, <2>1 DEF RoomTyped
  <2>. QED
    BY <1>0, <2>1, <2>2, <2>3 DEF RoomTyped
<1>2. CASE AddStore(c)
  <2>1. /\ pc' = [pc EXCEPT ![c] = "register"] /\ present' = present \cup {TeamOf[c]}
        /\ waiting' = [waiting EXCEPT ![TeamOf[c]] = Append(saw[c], c)]
        /\ saw' = [saw EXCEPT ![c] = <<>>]
    BY <1>2 DEF AddStore, Goto
  <2>2. saw[c] \in Seq(Conns) /\ Append(saw[c], c) \in Seq(Conns)
    BY <1>0 DEF RoomTyped
  <2>3. saw' \in [Conns -> Seq(Conns)] /\ waiting' \in [Teams -> Seq(Conns)]
    BY <1>0, <2>1, <2>2 DEF RoomTyped
  <2>4. \A d \in Conns : pc'[d] = "store" => saw'[d] # <<>>
    BY <1>0, <2>1 DEF RoomTyped
  <2>. QED
    BY <1>0, <2>1, <2>3, <2>4 DEF RoomTyped
<1>3. CASE TakeLoad(c)
  <2>1. UNCHANGED <<waiting, present>>
    BY <1>3 DEF TakeLoad, roomVars
  <2>2. \/ saw' = saw /\ (pc' = pc \/ pc' = [pc EXCEPT ![c] = "done"])
        \/ \E t \in Teams : /\ waiting[t] # <<>> /\ saw' = [saw EXCEPT ![c] = waiting[t]]
                            /\ pc' = [pc EXCEPT ![c] = "store"]
    BY <1>0, <1>3 DEF TakeLoad, PassOver, TakeNone, Goto, RoomTyped
  <2>3. CASE saw' = saw /\ (pc' = pc \/ pc' = [pc EXCEPT ![c] = "done"])
    BY <1>0, <2>1, <2>3, RoomSame
  <2>4. ASSUME NEW t \in Teams, waiting[t] # <<>>, saw' = [saw EXCEPT ![c] = waiting[t]],
               pc' = [pc EXCEPT ![c] = "store"]
        PROVE  RoomTyped'
    <3>1. saw' \in [Conns -> Seq(Conns)]
      BY <1>0, <2>4 DEF RoomTyped
    <3>2. \A d \in Conns : pc'[d] = "store" => saw'[d] # <<>>
      BY <1>0, <2>4 DEF RoomTyped
    <3>. QED
      BY <1>0, <2>1, <3>1, <3>2 DEF RoomTyped
  <2>. QED
    BY <2>2, <2>3, <2>4
<1>4. CASE TakeStore(c)
  <2>. DEFINE t == TeamOf[saw[c][1]]
  <2>1. /\ pc[c] = "store" /\ pc' = [pc EXCEPT ![c] = "take"]
        /\ waiting' = [waiting EXCEPT ![t] = Tail(saw[c])]
        /\ saw' = [saw EXCEPT ![c] = <<>>]
        /\ present' \subseteq present \cup {t}
    BY <1>4 DEF TakeStore, Goto, Running
  <2>2. saw[c] \in Seq(Conns) /\ saw[c] # <<>>
    BY <1>0, <2>1 DEF RoomTyped
  <2>3. Tail(saw[c]) \in Seq(Conns) /\ saw[c][1] \in Conns
    BY <2>2
  <2>4. t \in Teams
    BY <2>3, ConnAssumption
  <2>. HIDE DEF t
  <2>5. waiting' \in [Teams -> Seq(Conns)] /\ saw' \in [Conns -> Seq(Conns)]
    BY <1>0, <2>1, <2>3 DEF RoomTyped
  <2>6. \A d \in Conns : pc'[d] = "store" => saw'[d] # <<>>
    BY <1>0, <2>1 DEF RoomTyped
  <2>. QED
    BY <1>0, <2>1, <2>4, <2>5, <2>6 DEF RoomTyped
<1>5. CASE GetMatches(c) \/ FindReady(c) \/ Play(c) \/ NotFound(c)
  <2>1. UNCHANGED <<waiting, present, saw>>
    BY <1>5 DEF GetMatches, FindReady, Play, NotFound, roomVars, localVars
  <2>2. \/ pc' = pc
        \/ \E l \in {"find", "take", "play", "done"} : pc' = [pc EXCEPT ![c] = l]
    BY <1>5 DEF GetMatches, FindReady, Play, NotFound, Goto
  <2>3. \A d \in Conns : pc'[d] = "store" => pc[d] = "store"
    BY <1>0, <2>2
  <2>. QED
    BY <2>1, <2>3, RoomSame
<1>. QED
  BY <1>1, <1>2, <1>3, <1>4, <1>5 DEF RoomStep

SchedStep(c) ==
  \/ UpdateTeam(c) \/ SaveWrite(c) \/ AppendWithinLock(c) \/ SetMatchEnd(c)
  \/ SetMatchWeight(c)

LEMMA SchedMoves ==
  ASSUME NEW c \in Conns, SchedStep(c)
  PROVE  \/ pc' = pc
         \/ \E l \in Stops \ {"store"} : pc' = [pc EXCEPT ![c] = l]
<1>1. \A l : SaveNext(l) \in Stops \ {"store"}
  BY DEF SaveNext, Stops
<1>2. {"saved", "over", "append"} \subseteq Stops \ {"store"}
  BY DEF Stops, Savers
<1>3. ASSUME NEW l \in {"saved", "over"}, Save(c, l)
      PROVE  \E k \in Stops \ {"store"} : pc' = [pc EXCEPT ![c] = k]
  BY <1>1, <1>2, <1>3 DEF Save, Goto
<1>4. CASE UpdateTeam(c)
  BY <1>3, <1>4 DEF UpdateTeam, SaveTeam
<1>5. CASE SaveWrite(c)
  BY <1>1, <1>5 DEF SaveWrite, SaveReturn, Goto
<1>6. CASE AppendWithinLock(c)
  BY <1>2, <1>6 DEF AppendWithinLock, Goto
<1>7. CASE SetMatchEnd(c) \/ SetMatchWeight(c)
  <2>1. Save(c, "over")
    BY <1>7 DEF SetMatchEnd, SetMatchWeight, SaveEnd
  <2>. QED
    BY <1>3, <2>1
<1>. QED
  BY <1>4, <1>5, <1>6, <1>7 DEF SchedStep

LEMMA SchedTyped ==
  ASSUME IInv, NEW c \in Conns, SchedStep(c)
  PROVE  RoomTyped'
<1>1. pc \in [Conns -> Stops]
  BY DEF IInv, CoreInv, TypedInv
<1>2. UNCHANGED <<waiting, present, saw>>
  BY DEF SchedStep, UpdateTeam, SaveWrite, AppendWithinLock, SetMatchEnd, SetMatchWeight,
     roomVars, localVars
<1>3. \A d \in Conns : pc'[d] = "store" => pc[d] = "store"
  BY <1>1, SchedMoves
<1>. QED
  BY <1>2, <1>3, RoomSame

LEMMA RestartTyped ==
  ASSUME IInv, Crash \/ Restart \/ Resave
  PROVE  RoomTyped'
<1>1. CASE Crash
  <2>1. <<>> \in Seq(Conns)
    OBVIOUS
  <2>2. /\ waiting' = [t \in Teams |-> <<>>] /\ present' = {} /\ saw' = [c \in Conns |-> <<>>]
        /\ pc' = [c \in Conns |-> IF pc[c] = "new" THEN "new" ELSE "done"]
    BY <1>1 DEF Crash
  <2>. QED
    BY <2>1, <2>2 DEF RoomTyped
<1>2. CASE Restart \/ Resave
  <2>1. UNCHANGED <<waiting, present, saw, pc>>
    BY <1>2 DEF Restart, Resave, roomVars, localVars
  <2>. QED
    BY <2>1, RoomSame
<1>. QED
  BY <1>1, <1>2
-----------------------------------------------------------------------------
LEMMA StepInv == IInv /\ [Next]_vars => IInv' /\ (lost' \/ Grown)
  <1> SUFFICES ASSUME IInv, [Next]_vars
               PROVE  IInv' /\ (lost' \/ Grown)
    OBVIOUS
  <1>1. CoreInv /\ RoomTyped
    BY DEF IInv
  <1>2. CASE UNCHANGED vars
    <2>1. UNCHANGED <<up, teams, ended, lock, file, lost, pc, todo, waiting, present, saw>>
      BY <1>2 DEF vars, moVars, fileVars, roomVars, localVars
    <2>2. Saving' <=> Saving
      BY <2>1 DEF Saving
    <2>3. TypedInv' /\ LockInv' /\ FileTyped' /\ RoomTyped'
      BY <1>1, <2>1 DEF CoreInv, TypedInv, LockInv, FileTyped, RoomTyped
    <2>4. FileKept'
      BY <1>1, <2>1, <2>2 DEF CoreInv, FileKept
    <2> QED BY <1>1, <2>1, <2>3, <2>4, NoneLost DEF IInv, CoreInv
  <1>3. CASE \E c \in Conns : Handle(c)
    <2>1. PICK c \in Conns : Handle(c)
      BY <1>3
    <2>2. CASE RoomStep(c)
      BY <2>2, RoomInv, RoomTypedStep DEF IInv
    <2>3. CASE SchedStep(c)
      <3>1. RoomTyped'
        BY <2>3, SchedTyped
      <3>2. CoreInv' /\ Grown
        BY <1>1, <2>3, UpdateTeamInv, SaveWriteInv, AppendInv, GameEndInv DEF SchedStep
      <3> QED BY <3>1, <3>2 DEF IInv
    <2> QED BY <2>1, <2>2, <2>3 DEF Handle, RoomStep, SchedStep
  <1>4. CASE Crash \/ Restart \/ Resave
    BY <1>1, <1>4, RestartInv, RestartTyped DEF IInv
  <1> QED BY <1>2, <1>3, <1>4 DEF Next

\* However the saves of others interleave and wherever the server crashes:
\* unless a read or a save of the file has failed, or a crash has cut one
\* short, since the file was last whole, no match that was played and no team
\* that was registered is lost or changes its place.
THEOREM PlayedTheorem == Spec => PlayedStaysPlayed
  <1>1. IInv /\ [Next]_vars => [lost' \/ (IsPrefix(ended, ended') /\ IsPrefix(teams, teams'))]_vars
    BY StepInv DEF Grown
  <1>2. IInv /\ [Next]_vars => IInv'
    BY StepInv
  <1> QED BY InitInv, <1>1, <1>2, PTL DEF Spec, PlayedStaysPlayed

\* Between saves the file has what the server has, unless one of the errors
\* that save and NewMatchOptimizer pass over, or a crash within a save, came
\* since it was last whole; and nothing else keeps the server from starting.
THEOREM FileTheorem == Spec => []FileKept
  <1>1. IInv => FileKept
    BY DEF IInv, CoreInv
  <1>2. IInv /\ [Next]_vars => IInv'
    BY StepInv
  <1> QED BY InitInv, <1>1, <1>2, PTL DEF Spec
-----------------------------------------------------------------------------
(* What the variables hold, and that no match is lost or doubled.          *)

Entries == [match : Matches, weight : {0, 1}]
Names == Teams \cup {""}
Offer == [Roles -> SUBSET Names]

Conserved(s, e, p) ==
  \A m \in Matches : TimesScheduled(s, m) + Times(e, m) = TimesScheduled(p, m)

\* What the handlers hold of the waiting room, and who may lock it.
RoomHolds ==
  /\ roomLock \in Conns \cup {Nobody}
  /\ todo \in [Conns -> SUBSET Names]
  /\ offers \in [Conns -> Seq(Offer)]

\* The schedule, and that a file that can be parsed, however old, is one.
ScheduleHolds ==
  /\ up \in {"up", "down", "loaded", "resave", "refused"}
  /\ crashes \in 0..Crashes /\ fails \in 0..Fails
  /\ infinite \in BOOLEAN
  /\ IsInjective(teams)
  /\ sched \in Seq(Entries) /\ ended \in Seq(Matches)
  /\ lock \in Conns \cup {Nobody}
  /\ file.kind \in {"missing", "torn", "saved"}
  /\ Conserved(sched, ended, plan)
  /\ file.kind = "saved" =>
       /\ file.infinite \in BOOLEAN /\ IsInjective(file.teams)
       /\ file.sched \in Seq(Entries) /\ file.ended \in Seq(Matches)
       /\ Conserved(file.sched, file.ended, file.plan)

DataInv == RoomHolds /\ ScheduleHolds

\* What getMatches returns names teams, or nobody.
LEMMA OfferTyped ==
  ASSUME TypedInv, NEW m \in Matches
  PROVE  IdxMatchToTeamNameMatch(m) \in Offer
<1>1. \A i \in Idxs : NameOf(i) \in Names
  <2>. SUFFICES ASSUME NEW i \in Idxs
                PROVE  NameOf(i) \in Names
    OBVIOUS
  <2>1. CASE i < Len(teams)
    <3>1. i + 1 \in 1..Len(teams)
      BY <2>1, CountAssumption DEF Idxs, TypedInv
    <3>2. teams[i + 1] \in Teams
      BY <3>1, ElementOfSeq DEF TypedInv
    <3>. QED
      BY <2>1, <3>2 DEF NameOf, Names
  <2>2. CASE ~(i < Len(teams))
    BY <2>2 DEF NameOf, Names
  <2>. QED
    BY <2>1, <2>2
<1>2. \A r \in Roles : m[r] \subseteq Idxs
  BY DEF Matches
<1>. QED
  BY <1>1, <1>2 DEF IdxMatchToTeamNameMatch, Offer

LEMMA WantedTyped ==
  ASSUME NEW o \in Seq(Offer)
  PROVE  /\ Wanted(o) \in SUBSET Names
         /\ o # <<>> => Tail(o) \in Seq(Offer)
<1>1. CASE o = <<>>
  BY <1>1 DEF Wanted
<1>2. CASE o # <<>>
  <2>1. Head(o) \in Offer /\ Tail(o) \in Seq(Offer)
    BY <1>2
  <2>2. TeamsIn(Head(o)) \in SUBSET Names
    BY <2>1 DEF TeamsIn, Offer
  <2>. QED
    BY <1>2, <2>1, <2>2 DEF Wanted
<1>. QED
  BY <1>1, <1>2

LEMMA RoomStepData ==
  ASSUME IInv, RoomHolds, ScheduleHolds, NEW c \in Conns, RoomStep(c)
  PROVE  RoomHolds'
<1>1. CoreInv /\ TypedInv /\ RoomTyped /\ <<>> \in Seq(Offer)
  BY DEF IInv, CoreInv
<1>2. CASE AddLoad(c)
  BY <1>2 DEF AddLoad, RoomHolds
<1>3. CASE AddStore(c)
  <2>1. present' \in SUBSET Names
    BY <1>1, <1>3, ConnAssumption DEF AddStore, RoomTyped, Names
  <2>2. todo' = [todo EXCEPT ![c] = present'] /\ roomLock' = Nobody /\ offers' = offers
    BY <1>3 DEF AddStore
  <2>3. PICK T \in SUBSET Names : todo' = [todo EXCEPT ![c] = T]
    BY <2>1, <2>2
  <2>. QED
    BY <2>2, <2>3 DEF RoomHolds
<1>4. CASE GetMatches(c)
  <2>. DEFINE o == [i \in DOMAIN sched |-> IdxMatchToTeamNameMatch(sched[i].match)]
  <2>1. o \in Seq(Offer)
    <3>1. Len(sched) \in Nat /\ DOMAIN sched = 1..Len(sched)
      BY DEF ScheduleHolds
    <3>2. ASSUME NEW i \in DOMAIN sched
          PROVE  sched[i].match \in Matches
      <4>1. sched[i] \in Entries
        BY DEF ScheduleHolds
      <4>. QED
        BY <4>1 DEF Entries
    <3>3. \A i \in DOMAIN sched : IdxMatchToTeamNameMatch(sched[i].match) \in Offer
      BY <1>1, <3>2, OfferTyped
    <3>4. o \in [1..Len(sched) -> Offer]
      BY <3>1, <3>3
    <3>. HIDE DEF o
    <3>. QED
      BY <3>1, <3>4
  <2>2. offers' = [offers EXCEPT ![c] = o] /\ roomLock' = roomLock
    BY <1>4 DEF GetMatches, roomVars
  <2>3. todo' = [todo EXCEPT ![c] = Wanted(offers'[c])]
    BY <1>4 DEF GetMatches
  <2>. HIDE DEF o
  <2>4. offers' \in [Conns -> Seq(Offer)] /\ offers'[c] = o
    BY <2>1, <2>2 DEF RoomHolds
  <2>5. Wanted(o) \in SUBSET Names
    BY <2>1, WantedTyped
  <2>. QED
    BY <2>2, <2>3, <2>4, <2>5 DEF RoomHolds
<1>5. CASE FindReady(c)
  <2>1. roomLock' = roomLock
    BY <1>5 DEF FindReady, roomVars
  <2>2. /\ offers[c] \in Seq(Offer) /\ Wanted(offers[c]) \in SUBSET Names
        /\ offers[c] # <<>> => /\ Tail(offers[c]) \in Seq(Offer)
                              /\ Wanted(Tail(offers[c])) \in SUBSET Names
    <3>1. offers[c] \in Seq(Offer)
      BY DEF RoomHolds
    <3>. QED
      BY <3>1, WantedTyped
  <2>4. CASE UNCHANGED <<offers, todo>>
    BY <2>1, <2>4 DEF RoomHolds
  <2>5. CASE /\ todo' = [todo EXCEPT ![c] = Wanted(offers[c])]
             /\ offers' = [offers EXCEPT ![c] = <<>>]
    BY <1>1, <2>1, <2>2, <2>5 DEF RoomHolds
  <2>6. ASSUME NEW t \in todo[c], todo' = [todo EXCEPT ![c] = todo[c] \ {t}], offers' = offers
        PROVE  RoomHolds'
    <3>1. todo[c] \ {t} \in SUBSET Names
      BY DEF RoomHolds
    <3>. QED
      BY <2>1, <2>6, <3>1 DEF RoomHolds
  <2>7. CASE /\ offers[c] # <<>> /\ offers' = [offers EXCEPT ![c] = Tail(offers[c])]
             /\ todo' = [todo EXCEPT ![c] = Wanted(Tail(offers[c]))]
    BY <2>1, <2>2, <2>7 DEF RoomHolds
  <2>. QED
    BY <1>5, <2>4, <2>5, <2>6, <2>7 DEF FindReady
<1>6. CASE TakeLoad(c)
  <2>1. UNCHANGED <<roomLock, offers>>
    BY <1>6 DEF TakeLoad, roomVars
  <2>2. PICK t \in todo[c] : todo' = todo \/ todo' = [todo EXCEPT ![c] = todo[c] \ {t}]
    BY <1>6 DEF TakeLoad, PassOver, TakeNone
  <2>3. todo[c] \ {t} \in SUBSET Names
    BY DEF RoomHolds
  <2>. QED
    BY <2>1, <2>2, <2>3 DEF RoomHolds
<1>7. CASE TakeStore(c)
  <2>1. UNCHANGED <<roomLock, offers>>
    BY <1>7 DEF TakeStore
  <2>2. todo' = [todo EXCEPT ![c] = todo[c] \ {TeamOf[saw[c][1]]}]
    BY <1>7 DEF TakeStore
  <2>3. todo[c] \ {TeamOf[saw[c][1]]} \in SUBSET Names
    BY DEF RoomHolds
  <2>. QED
    BY <2>1, <2>2, <2>3 DEF RoomHolds
<1>8. CASE Play(c) \/ NotFound(c)
  BY <1>8 DEF Play, NotFound, roomVars, localVars, RoomHolds
<1>. QED
  BY <1>2, <1>3, <1>4, <1>5, <1>6, <1>7, <1>8 DEF RoomStep
-----------------------------------------------------------------------------
Having(m) == {x \in Entries : x.match = m}

LEMMA Counts ==
  ASSUME NEW m
  PROVE  /\ \A s \in Seq(Entries) : TimesScheduled(s, m) = Tally(s, Having(m))
         /\ \A e : Times(e, m) = Tally(e, {m})
<1>1. ASSUME NEW s \in Seq(Entries)
      PROVE  TimesScheduled(s, m) = Tally(s, Having(m))
  <2>1. \A i \in DOMAIN s : s[i] \in Entries
    OBVIOUS
  <2>2. {i \in DOMAIN s : s[i].match = m} = {i \in DOMAIN s : s[i] \in Having(m)}
    BY <2>1 DEF Having
  <2>. QED
    BY <2>2, Zenon DEF TimesScheduled, Tally, TallyAt
<1>2. ASSUME NEW e
      PROVE  Times(e, m) = Tally(e, {m})
  <2>1. {i \in DOMAIN e : e[i] = m} = {i \in DOMAIN e : e[i] \in {m}}
    OBVIOUS
  <2>. QED
    BY <2>1, Zenon DEF Times, Tally, TallyAt
<1>. QED
  BY <1>1, <1>2

\* The sort of getMatches changes no count.
LEMMA SortConserves ==
  ASSUME ScheduleHolds, NEW c \in Conns, GetMatches(c)
  PROVE  /\ sched' \in Seq(Entries)
         /\ \A m \in Matches : TimesScheduled(sched', m) = TimesScheduled(sched, m)
<1>1. /\ sched \in Seq(Entries) /\ Positive \in SUBSET DOMAIN sched
      /\ sched' = Keep(sched, Positive) \o Keep(sched, DOMAIN sched \ Positive)
  BY DEF ScheduleHolds, GetMatches, Positive
<1>2. sched' \in Seq(Entries)
  BY <1>1, SplitTally
<1>3. ASSUME NEW m \in Matches
      PROVE  Tally(sched', Having(m)) = Tally(sched, Having(m))
  BY <1>1, SplitTally
<1>. QED
  BY <1>1, <1>2, <1>3, Counts

\* The match a game played is the first that equals it among those scheduled.
LEMMA FoundFirst ==
  ASSUME ScheduleHolds, NEW c \in Conns, Found(c) # {}
  PROVE  /\ FirstFound(c) \in DOMAIN sched
         /\ sched[FirstFound(c)] \in Entries
         /\ sched[FirstFound(c)].match = TeamNameMatchToIdxMatch(match[c])
         /\ TeamNameMatchToIdxMatch(match[c]) \in Matches
<1>1. sched \in Seq(Entries) /\ Found(c) \in SUBSET DOMAIN sched
  BY DEF ScheduleHolds, Found
<1>2. FirstFound(c) \in Found(c)
  BY <1>1, LeastPosition, Zenon DEF FirstFound
<1>3. /\ FirstFound(c) \in DOMAIN sched
      /\ sched[FirstFound(c)].match = TeamNameMatchToIdxMatch(match[c])
  BY <1>2, Zenon DEF Found
<1>4. sched[FirstFound(c)] \in Entries
  BY <1>1, <1>3
<1>. QED
  BY <1>3, <1>4 DEF Entries

\* A match that ended moves from the schedule to those played.
LEMMA EndConserves ==
  ASSUME ScheduleHolds, NEW c \in Conns, SetMatchEnd(c)
  PROVE  /\ sched' \in Seq(Entries) /\ ended' \in Seq(Matches)
         /\ Conserved(sched', ended', plan')
<1>. DEFINE i == FirstFound(c)
            p == TeamNameMatchToIdxMatch(match[c])
<1>1. /\ i \in DOMAIN sched /\ sched[i] \in Entries /\ sched[i].match = p /\ p \in Matches
      /\ sched \in Seq(Entries) /\ ended \in Seq(Matches)
      /\ sched' = RemoveAt(sched, i) /\ ended' = Append(ended, p)
  BY FoundFirst DEF SetMatchEnd, Without, ScheduleHolds
<1>. HIDE DEF i, p
<1>2. sched' \in Seq(Entries) /\ ended' \in Seq(Matches)
  BY <1>1, RemoveTally
<1>3. ASSUME NEW m \in Matches
      PROVE  TimesScheduled(sched', m) + Times(ended', m)
               = TimesScheduled(sched, m) + Times(ended, m)
  <2>1. Tally(sched, Having(m)) =
          Tally(sched', Having(m)) + (IF sched[i] \in Having(m) THEN 1 ELSE 0)
    BY <1>1, RemoveTally
  <2>2. Tally(ended', {m}) = Tally(ended, {m}) + (IF p \in {m} THEN 1 ELSE 0)
    BY <1>1, AppendTally
  <2>3. sched[i] \in Having(m) <=> p \in {m}
    BY <1>1 DEF Having
  <2>4. /\ Tally(sched, Having(m)) \in Nat /\ Tally(sched', Having(m)) \in Nat
        /\ Tally(ended, {m}) \in Nat
    BY <1>1, <1>2, TallyType
  <2>5. Tally(sched', Having(m)) + Tally(ended', {m}) = Tally(sched, Having(m)) + Tally(ended, {m})
    <3>1. CASE p \in {m}
      BY <2>1, <2>2, <2>3, <2>4, <3>1
    <3>2. CASE p \notin {m}
      BY <2>1, <2>2, <2>3, <2>4, <3>2
    <3>. QED
      BY <3>1, <3>2
  <2>6. /\ TimesScheduled(sched, m) = Tally(sched, Having(m))
        /\ TimesScheduled(sched', m) = Tally(sched', Having(m))
        /\ Times(ended, m) = Tally(ended, {m}) /\ Times(ended', m) = Tally(ended', {m})
    BY <1>1, <1>2, Counts
  <2>. QED
    BY <2>5, <2>6
<1>4. plan' = plan
  BY DEF SetMatchEnd
<1>. QED
  BY <1>2, <1>3, <1>4 DEF Conserved, ScheduleHolds

\* A game that was aborted leaves its match where it is.
LEMMA WeightConserves ==
  ASSUME ScheduleHolds, NEW c \in Conns, SetMatchWeight(c)
  PROVE  /\ sched' \in Seq(Entries)
         /\ \A m \in Matches : TimesScheduled(sched', m) = TimesScheduled(sched, m)
<1>. DEFINE i == FirstFound(c)
            e == [sched[i] EXCEPT !.weight = 0]
<1>1. /\ i \in DOMAIN sched /\ sched[i] \in Entries /\ sched \in Seq(Entries)
      /\ sched' = [sched EXCEPT ![i] = e]
  BY FoundFirst DEF SetMatchWeight, ScheduleHolds
<1>2. e \in Entries /\ e.match = sched[i].match
  BY <1>1 DEF Entries
<1>. HIDE DEF i, e
<1>3. sched' \in Seq(Entries) /\ DOMAIN sched' = DOMAIN sched
  BY <1>1, <1>2
<1>4. \A j \in DOMAIN sched : sched'[j].match = sched[j].match
  BY <1>1, <1>2
<1>5. ASSUME NEW m \in Matches
      PROVE  TimesScheduled(sched', m) = TimesScheduled(sched, m)
  <2>1. {j \in DOMAIN sched' : sched'[j].match = m} = {j \in DOMAIN sched : sched[j].match = m}
    BY <1>3, <1>4
  <2>. QED
    BY <2>1, Zenon DEF TimesScheduled
<1>. QED
  BY <1>3, <1>5

\* A save, begun after a change of the schedule or passed over.
LEMMA SaveData ==
  ASSUME ScheduleHolds, NEW c \in Conns, NEW l \in Savers, Save(c, l),
         UNCHANGED <<up, crashes, infinite, plan>>,
         IsInjective(teams'), sched' \in Seq(Entries), ended' \in Seq(Matches),
         Conserved(sched', ended', plan')
  PROVE  ScheduleHolds'
<1>1. fails' \in 0..Fails
  BY CountAssumption DEF Save, Fail, ScheduleHolds
<1>2. lock' \in Conns \cup {Nobody}
  BY DEF Save, ScheduleHolds
<1>3. file' = Torn \/ file' = file
  BY DEF Save
<1>4. CASE file' = Torn
  BY <1>1, <1>2, <1>4 DEF ScheduleHolds, Torn
<1>5. CASE file' = file
  BY <1>1, <1>2, <1>5 DEF ScheduleHolds, Conserved
<1>. QED
  BY <1>3, <1>4, <1>5

\* The end of a save, or of a restart.
LEMMA WriteData ==
  ASSUME ScheduleHolds, Write, UNCHANGED <<crashes, infinite, teams, sched, ended, plan>>,
         up' \in {"up", "resave"}, lock' \in Conns \cup {Nobody}
  PROVE  ScheduleHolds'
<1>1. fails' \in 0..Fails
  BY CountAssumption DEF Write, Fail, ScheduleHolds
<1>2. file' = Saved \/ file' = file
  BY DEF Write
<1>3. CASE file' = Saved
  <2>1. /\ Saved.kind = "saved" /\ Saved.infinite = infinite /\ Saved.teams = teams
        /\ Saved.sched = sched /\ Saved.ended = ended /\ Saved.plan = plan
    BY DEF Saved
  <2>. QED
    BY <1>1, <1>3, <2>1 DEF ScheduleHolds, Conserved
<1>4. CASE file' = file
  BY <1>1, <1>4 DEF ScheduleHolds, Conserved
<1>. QED
  BY <1>2, <1>3, <1>4

\* What is drawn is typed and none of it has been played.
LEMMA DrawnData ==
  ASSUME NEW s \in Schedules
  PROVE  s \in Seq(Entries) /\ Conserved(s, <<>>, s)
<1>1. s \in Seq(Entries)
  <2>1. s \in [1..GameCount -> [match : Matches, weight : {1}]] /\ GameCount \in Nat
    BY CountAssumption DEF Schedules
  <2>2. s \in [1..GameCount -> Entries]
    BY <2>1 DEF Entries
  <2>. QED
    BY <2>1, <2>2
<1>2. Conserved(s, <<>>, s)
  <2>. SUFFICES ASSUME NEW m \in Matches
                PROVE  TimesScheduled(s, m) + Times(<<>>, m) = TimesScheduled(s, m)
    BY DEF Conserved
  <2>1. Times(<<>>, m) = 0
    <3>1. {i \in DOMAIN <<>> : <<>>[i] = m} = {}
      OBVIOUS
    <3>. QED
      BY <3>1, FS_EmptySet, Zenon DEF Times
  <2>2. TimesScheduled(s, m) \in Nat
    BY <1>1, Counts, TallyType
  <2>. QED
    BY <2>1, <2>2
<1>. QED
  BY <1>1, <1>2

LEMMA ScheduleStep ==
  ASSUME IInv, DataInv, [Next]_vars
  PROVE  ScheduleHolds'
<1>0. ScheduleHolds /\ CoreInv /\ TypedInv
  BY DEF DataInv, IInv, CoreInv
<1>1. CASE UNCHANGED <<up, crashes, fails, infinite, teams, sched, ended, lock, file, plan>>
  BY <1>0, <1>1 DEF ScheduleHolds, Conserved
<1>2. "saved" \in Savers /\ "over" \in Savers
  BY DEF Savers
<1>3. ASSUME NEW c \in Conns, UpdateTeam(c)
      PROVE  ScheduleHolds'
  <2>1. PICK t \in todo[c] :
          \/ UNCHANGED <<teams, lock, fileVars>>
          \/ ~Turned(t) /\ teams' = Append(teams, t) /\ Save(c, "saved")
    BY <1>3 DEF UpdateTeam, SaveTeam
  <2>2. UNCHANGED <<up, crashes, infinite, sched, ended, plan>> /\ pc[c] = "register"
    BY <1>3 DEF UpdateTeam, Locked, Running
  <2>3. CASE ~Turned(t) /\ teams' = Append(teams, t) /\ Save(c, "saved")
    <3>1. t \in Teams /\ teams \in Seq(Teams)
      BY <1>0, <2>2 DEF TypedInv
    <3>2. IsInjective(teams')
      BY <1>0, <2>3, <3>1, AppendSet DEF ScheduleHolds, Turned
    <3>3. sched' \in Seq(Entries) /\ ended' \in Seq(Matches) /\ Conserved(sched', ended', plan')
      BY <1>0, <2>2 DEF ScheduleHolds, Conserved
    <3>. QED
      BY <1>0, <1>2, <2>2, <2>3, <3>2, <3>3, SaveData
  <2>4. CASE UNCHANGED <<teams, lock, fileVars>>
    BY <1>1, <2>2, <2>4 DEF fileVars
  <2>. QED
    BY <2>1, <2>3, <2>4
<1>4. ASSUME NEW c \in Conns, GetMatches(c)
      PROVE  ScheduleHolds'
  <2>1. UNCHANGED <<up, crashes, fails, infinite, teams, ended, lock, file, plan>>
    BY <1>4 DEF GetMatches, fileVars
  <2>2. /\ sched' \in Seq(Entries)
        /\ \A m \in Matches : TimesScheduled(sched', m) = TimesScheduled(sched, m)
    BY <1>0, <1>4, SortConserves
  <2>3. Conserved(sched', ended', plan')
    BY <1>0, <2>1, <2>2 DEF ScheduleHolds, Conserved
  <2>. QED
    BY <1>0, <2>1, <2>2, <2>3 DEF ScheduleHolds, Conserved
<1>5. ASSUME NEW c \in Conns, SetMatchEnd(c) \/ SetMatchWeight(c)
      PROVE  ScheduleHolds'
  <2>1. UNCHANGED <<up, crashes, infinite, teams, plan>> /\ Save(c, "over")
    BY <1>5 DEF SetMatchEnd, SetMatchWeight, SaveEnd
  <2>2. IsInjective(teams')
    BY <1>0, <2>1 DEF ScheduleHolds
  <2>3. CASE SetMatchEnd(c)
    BY <1>0, <1>2, <2>1, <2>2, <2>3, EndConserves, SaveData
  <2>4. CASE SetMatchWeight(c)
    <3>1. /\ sched' \in Seq(Entries) /\ ended' = ended
          /\ \A m \in Matches : TimesScheduled(sched', m) = TimesScheduled(sched, m)
      BY <1>0, <2>4, WeightConserves DEF SetMatchWeight
    <3>2. ended' \in Seq(Matches) /\ Conserved(sched', ended', plan')
      BY <1>0, <2>1, <3>1 DEF ScheduleHolds, Conserved
    <3>. QED
      BY <1>0, <1>2, <2>1, <2>2, <3>1, <3>2, SaveData
  <2>. QED
    BY <1>5, <2>3, <2>4
<1>6. ASSUME NEW c \in Conns, SaveWrite(c)
      PROVE  ScheduleHolds'
  <2>1. /\ UNCHANGED <<up, crashes, infinite, teams, sched, ended, plan>>
        /\ lock' = Nobody /\ Write /\ up = "up"
    BY <1>6 DEF SaveWrite, SaveReturn, moVars
  <2>. QED
    BY <1>0, <2>1, WriteData
<1>7. CASE Crash
  <2>1. /\ UNCHANGED <<fails, infinite, teams, sched, ended, file, plan>> /\ up' = "down"
        /\ lock' = Nobody /\ crashes < Crashes /\ crashes' = crashes + 1
    BY <1>7 DEF Crash, moVars
  <2>2. crashes' \in 0..Crashes
    BY <1>0, <2>1, CountAssumption DEF ScheduleHolds
  <2>. QED
    BY <1>0, <2>1, <2>2 DEF ScheduleHolds, Conserved
<1>8. CASE Restart
  <2>1. UNCHANGED <<crashes, lock, file>>
    BY <1>8 DEF Restart
  <2>2. CASE Reload
    <3>1. /\ file.kind = "saved" /\ up' = "loaded" /\ fails' = fails
          /\ infinite' = file.infinite /\ teams' = file.teams
          /\ sched' = file.sched /\ ended' = file.ended /\ plan' = file.plan
      BY <2>2 DEF Reload
    <3>2. Conserved(file.sched, file.ended, file.plan) => Conserved(sched', ended', plan')
      BY <3>1 DEF Conserved
    <3>. QED
      BY <1>0, <2>1, <3>1, <3>2 DEF ScheduleHolds, Conserved
  <2>3. CASE DrawAnew
    <3>1. /\ up' = "loaded" /\ infinite' = infinite /\ teams' = <<>> /\ ended' = <<>>
          /\ sched' \in Schedules /\ plan' = sched'
      BY <1>0, <2>3, DrawnAssumption DEF DrawAnew, ScheduleHolds
    <3>2. fails' \in 0..Fails
      BY <1>0, <2>3, CountAssumption DEF DrawAnew, Fail, ScheduleHolds
    <3>3. PICK s \in Schedules : s = sched'
      BY <3>1
    <3>4. s \in Seq(Entries) /\ Conserved(s, <<>>, s)
      BY DrawnData
    <3>5. sched' \in Seq(Entries) /\ Conserved(sched', ended', plan')
      BY <3>1, <3>3, <3>4 DEF Conserved
    <3>6. IsInjective(teams') /\ ended' \in Seq(Matches)
      BY <3>1 DEF IsInjective
    <3>. QED
      BY <1>0, <2>1, <3>1, <3>2, <3>5, <3>6 DEF ScheduleHolds, Conserved
  <2>4. CASE Refuse
    <3>1. UNCHANGED <<fails, infinite, teams, sched, ended, plan>> /\ up' = "refused"
      BY <2>4 DEF Refuse, moVars
    <3>. QED
      BY <1>0, <2>1, <3>1 DEF ScheduleHolds, Conserved
  <2>. QED
    BY <1>8, <2>2, <2>3, <2>4 DEF Restart
<1>9. CASE Resave
  <2>1. UNCHANGED <<crashes, infinite, teams, sched, ended, lock, plan>>
    BY <1>9 DEF Resave, moVars
  <2>2. CASE up = "resave"
    <3>1. up' = "up" /\ Write
      BY <1>9, <2>2 DEF Resave
    <3>2. lock' \in Conns \cup {Nobody}
      BY <1>0, <2>1 DEF ScheduleHolds
    <3>. QED
      BY <1>0, <2>1, <3>1, <3>2, WriteData
  <2>3. CASE up = "loaded"
    <3>1. /\ up' \in {"resave", "up"} /\ fails' \in 0..Fails
          /\ file' = Torn \/ file' = file
      BY <1>0, <1>9, <2>3, CountAssumption DEF Resave, Fail, ScheduleHolds
    <3>2. CASE file' = Torn
      BY <1>0, <2>1, <3>1, <3>2 DEF ScheduleHolds, Conserved, Torn
    <3>3. CASE file' = file
      BY <1>0, <2>1, <3>1, <3>3 DEF ScheduleHolds, Conserved
    <3>. QED
      BY <3>1, <3>2, <3>3
  <2>. QED
    BY <1>9, <2>2, <2>3 DEF Resave
<1>10. ASSUME NEW c \in Conns,
              \/ AddLoad(c) \/ AddStore(c) \/ FindReady(c) \/ TakeLoad(c) \/ TakeStore(c)
              \/ Play(c) \/ NotFound(c)
       PROVE  ScheduleHolds'
  <2>1. UNCHANGED <<up, crashes, fails, infinite, teams, sched, ended, lock, file, plan>>
    BY <1>10 DEF AddLoad, AddStore, FindReady, TakeLoad, TakeStore, Play, NotFound, moVars,
       fileVars
  <2>. QED
    BY <1>1, <2>1
<1>11. ASSUME NEW c \in Conns, AppendWithinLock(c)
       PROVE  ScheduleHolds'
  <2>1. UNCHANGED <<up, crashes, fails, infinite, teams, sched, ended, file, plan>> /\ lock' = c
    BY <1>11 DEF AppendWithinLock, moVars, fileVars
  <2>. QED
    BY <1>0, <2>1 DEF ScheduleHolds, Conserved
<1>12. CASE UNCHANGED vars
  BY <1>1, <1>12 DEF vars, moVars, fileVars
<1>. QED
  BY <1>3, <1>4, <1>5, <1>6, <1>7, <1>8, <1>9, <1>10, <1>11, <1>12 DEF Next, Handle

LEMMA DataStep == IInv /\ DataInv /\ [Next]_vars => DataInv'
<1>. SUFFICES ASSUME IInv, DataInv, [Next]_vars
              PROVE  RoomHolds'
  BY ScheduleStep DEF DataInv
<1>0. RoomHolds /\ ScheduleHolds
  BY DEF DataInv
<1>1. CASE UNCHANGED <<todo, roomLock, offers>>
  BY <1>0, <1>1 DEF RoomHolds
<1>2. ASSUME NEW c \in Conns, RoomStep(c)
      PROVE  RoomHolds'
  BY <1>0, <1>2, RoomStepData
<1>3. ASSUME NEW c \in Conns,
             \/ SaveWrite(c) \/ AppendWithinLock(c) \/ SetMatchEnd(c) \/ SetMatchWeight(c)
      PROVE  RoomHolds'
  <2>1. UNCHANGED <<todo, roomLock, offers>>
    BY <1>3 DEF SaveWrite, AppendWithinLock, SetMatchEnd, SetMatchWeight, roomVars, localVars
  <2>. QED
    BY <1>1, <2>1
<1>4. ASSUME NEW c \in Conns, UpdateTeam(c)
      PROVE  RoomHolds'
  <2>1. PICK t \in todo[c] : todo' = [todo EXCEPT ![c] = todo[c] \ {t}]
    BY <1>4 DEF UpdateTeam
  <2>2. UNCHANGED <<roomLock, offers>>
    BY <1>4 DEF UpdateTeam, roomVars
  <2>3. todo[c] \ {t} \in SUBSET Names
    BY <1>0 DEF RoomHolds
  <2>. QED
    BY <1>0, <2>1, <2>2, <2>3 DEF RoomHolds
<1>5. CASE Crash
  <2>1. /\ roomLock' = Nobody /\ todo' = [c \in Conns |-> {}]
        /\ offers' = [c \in Conns |-> <<>>]
    BY <1>5 DEF Crash
  <2>2. <<>> \in Seq(Offer)
    OBVIOUS
  <2>. QED
    BY <2>1, <2>2 DEF RoomHolds
<1>6. CASE Restart \/ Resave \/ UNCHANGED vars
  BY <1>1, <1>6 DEF Restart, Resave, vars, roomVars, localVars
<1>. QED
  BY <1>2, <1>3, <1>4, <1>5, <1>6 DEF Next, Handle, RoomStep

LEMMA DataInit == Init => DataInv
<1>. SUFFICES ASSUME Init
              PROVE  DataInv
  OBVIOUS
<1>1. RoomHolds
  <2>1. <<>> \in Seq(Offer)
    OBVIOUS
  <2>. QED
    BY <2>1 DEF Init, RoomHolds
<1>2. /\ sched \in Schedules /\ plan = sched /\ teams = <<>> /\ ended = <<>>
      /\ up = "up" /\ lock = Nobody /\ infinite \in BOOLEAN /\ crashes \in 0..Crashes
  BY CountAssumption, LoopAssumption, DrawnAssumption DEF Init
<1>3. sched \in Seq(Entries) /\ Conserved(sched, ended, plan)
  BY <1>2, DrawnData
<1>4. IsInjective(teams) /\ ended \in Seq(Matches)
  BY <1>2 DEF IsInjective
<1>5. fails \in 0..Fails /\ file \in {Saved, Missing, Torn}
  BY CountAssumption DEF Init
<1>6. /\ Saved.kind = "saved" /\ Saved.infinite = infinite /\ Saved.teams = teams
      /\ Saved.sched = sched /\ Saved.ended = ended /\ Saved.plan = plan
      /\ Missing.kind = "missing" /\ Torn.kind = "torn"
  BY DEF Saved, Missing, Torn
<1>7. CASE file = Saved
  BY <1>1, <1>2, <1>3, <1>4, <1>5, <1>6, <1>7 DEF ScheduleHolds, DataInv
<1>8. CASE file \in {Missing, Torn}
  BY <1>1, <1>2, <1>3, <1>4, <1>5, <1>6, <1>8 DEF ScheduleHolds, DataInv
<1>. QED
  BY <1>5, <1>7, <1>8

LEMMA AlwaysData == Spec => [](IInv /\ DataInv)
<1>1. IInv /\ [Next]_vars => IInv'
  BY StepInv
<1>. QED
  BY InitInv, DataInit, DataStep, <1>1, PTL DEF Spec

\* Every variable keeps its type, whoever is interrupted where, and a handler
\* that takes a connection has seen one: saw[0] is not read from an empty
\* slice (waiting_room.go:91-108).
THEOREM TypesHold == Spec => []TypeOK
<1>1. IInv /\ DataInv => TypeOK
  BY DEF IInv, CoreInv, TypedInv, RoomTyped, DataInv, RoomHolds, ScheduleHolds, TypeOK,
     Entries, Names
<1>. QED
  BY AlwaysData, <1>1, PTL

\* However many games end at once, are aborted or are lost in crashes: every
\* match first drawn is scheduled or has been played, as many times as it was
\* drawn (match_optimizer.go:97-111, 131-152, 218-251).
THEOREM NoMatchLost == Spec => []ScheduleConserved
<1>1. DataInv => ScheduleConserved
  BY DEF DataInv, ScheduleHolds, Conserved, ScheduleConserved
<1>. QED
  BY AlwaysData, <1>1, PTL
=============================================================================
