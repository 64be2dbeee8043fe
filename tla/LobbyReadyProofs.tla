-------------------------- MODULE LobbyReadyProofs --------------------------
(***************************************************************************)
(* Who is asked before a game: the state a session, its calls and its room *)
(* can be in together, for any number of sessions, users and lost calls.   *)
(***************************************************************************)
EXTENDS LobbyProofs, SubsequencesProofs

Everybody == Users \cup AIs \cup Agents
Begun(s) == status[s] \notin {"none", "waiting"}

\* A check let the game of s go, and asked all of its people but the late ones.
AskedAll(s) == cleared[s] /\ HumanTeams(s) \subseteq asked[s] \cup late[s]
Cleared(s) == lifted[s] \/ AskedAll(s)

\* The room of s cannot form, or may.
Guarded(s) == held[s] \/ Cleared(s)

\* The gate of a new byo room is being asked for, and the server has not got to it.
Asking(s) == call[Host[s]].act = "gate" /\ call[Host[s]].ans = "none"

\* A game of s has formed, or somebody has pressed and is not answered yet.
Pressing(s) == game[s] # {} \/ \E u \in Users : call[u].act # "none" /\ call[u].of = s

RestTyped ==
  /\ gate \in [Sessions -> {"off", "hold", "released", "started"}]
  /\ ready \in [Sessions -> SUBSET Users]
  /\ seats \in [Sessions -> Seq(Everybody)]
  /\ {known, held, cleared, lifted} \subseteq [Sessions -> BOOLEAN]
  /\ {asked, late} \subseteq [Sessions -> SUBSET Users]
  /\ game = [s \in Sessions |-> game[s]]

QueueInv ==
  /\ queue \in Seq(Sessions) /\ IsInjective(queue)
  /\ \A i \in DOMAIN queue : Begun(queue[i])

CallInv ==
  /\ \A u \in Users :
       call[u].act # "none" =>
         /\ call[u].of = TableOf[u] /\ call[u].act \in {"gate", "room", "release"}
         /\ call[u].act = "gate" => Mode(call[u].of) = "byo"
         /\ status[call[u].of] # "none"
  /\ call[Loop].act # "none" => call[Loop].act \in {"hold", "drop"} /\ Begun(call[Loop].of)
  /\ call[Screen].act \in {"none", "room"}

\* A room without a hold is cleared before anybody takes a seat in it, and
\* nobody releases one that is not.
GuardInv ==
  /\ \A s \in Sessions :
       /\ known[s] \/ cleared[s] \/ proc[s] # "none" => status[s] # "none"
       /\ game[s] # {} /\ Mode(s) # "direct" => Cleared(s)
       /\ seats[s] # <<>> /\ Mode(s) # "direct" => Guarded(s)
       /\ proc[s] # "none" \/ status[s] = "running" => Guarded(s)
       /\ Mode(s) = "byo" /\ status[s] # "none" => Guarded(s) \/ Asking(s)
       /\ Mode(s) = "byo" /\ known[s] => Guarded(s)
  /\ \A u \in Users : call[u].act \in {"room", "release"} => Cleared(call[u].of)
  /\ call[Loop].act = "hold" /\ call[Loop].ans # "none" => Guarded(call[Loop].of)

AskInv == RestTyped /\ QueueInv /\ CallInv /\ GuardInv

LEMMA InitAsk == Init => AskInv
  <1> SUFFICES ASSUME Init PROVE AskInv
    OBVIOUS
  <1>1. RestTyped
    BY DEF Init, RestTyped
  <1>2. QueueInv
    BY DEF Init, QueueInv, IsInjective
  <1>3. {Loop, Screen} \subseteq Callers /\ Users \subseteq Callers
    BY DEF Callers
  <1>4. CallInv
    BY <1>3 DEF Init, CallInv, NoCall
  <1>5. GuardInv
    BY <1>3 DEF Init, GuardInv, NoCall
  <1> QED BY <1>1, <1>2, <1>4, <1>5 DEF AskInv
-----------------------------------------------------------------------------
(* The server's steps.                                                     *)

LEMMA FormsFacts ==
  ASSUME RestTyped, NEW s \in Sessions, NEW w \in Seq(Everybody), Len(w) >= table[s].size,
         table[s].size \in Nat \ {0}, Forms(s, w)
  PROVE  /\ seats' \in [Sessions -> Seq(Everybody)]
         /\ game' = [t \in Sessions |-> game'[t]]
         /\ \A t \in Sessions \ {s} : seats'[t] = seats[t] /\ game'[t] = game[t]
  <1> DEFINE n == table[s].size
             rest == SubSeq(w, n + 1, Len(w))
  <1>1. rest \in Seq(Everybody)
    BY SubSeqProperties
  <1>2. seats' = [seats EXCEPT ![s] = rest]
    BY DEF Forms, Set
  <1>3. PICK g : game' = [game EXCEPT ![s] = g]
    BY DEF Forms, Set
  <1> HIDE DEF rest
  <1> QED BY <1>1, <1>2, <1>3 DEF RestTyped

LEMMA SizeType ==
  ASSUME IInv, NEW s \in Sessions
  PROVE  table[s].size \in Nat \ {0}
  BY SceneAssumption DEF IInv, TypedInv

LEMMA EffectFacts ==
  ASSUME IInv, RestTyped, NEW s \in Sessions, NEW a \in Acts, Effect(a, s)
  PROVE  /\ held' \in [Sessions -> BOOLEAN]
         /\ seats' \in [Sessions -> Seq(Everybody)]
         /\ game' = [t \in Sessions |-> game'[t]]
         /\ \A t \in Sessions :
              /\ seats'[t] # <<>> => seats[t] # <<>>
              /\ game'[t] # {} => game[t] # {} \/ (a = "release" /\ t = s)
              /\ held[t] => held'[t] \/ (a \in {"drop", "release"} /\ t = s)
         /\ a \in {"hold", "gate"} => held'[s]
  <1>1. CASE a \in {"hold", "gate"}
    <2>1. held' = Set(held, s, TRUE) /\ UNCHANGED <<seats, game>>
      BY <1>1 DEF Effect
    <2> QED BY <1>1, <2>1 DEF RestTyped, Set
  <1>2. CASE a = "room"
    <2>1. UNCHANGED serverVars
      BY <1>2 DEF Effect
    <2> QED BY <1>2, <2>1 DEF RestTyped, serverVars
  <1>3. CASE a = "drop"
    <2>1. held' = Set(held, s, FALSE) /\ seats' = Set(seats, s, <<>>) /\ UNCHANGED game
      BY <1>3 DEF Effect
    <2>2. <<>> \in Seq(Everybody)
      OBVIOUS
    <2> QED BY <1>3, <2>1, <2>2 DEF RestTyped, Set
  <1>4. CASE a = "release"
    <2>1. held' = Set(held, s, FALSE)
      BY <1>4 DEF Effect
    <2>2. CASE Full(s)
      <3>1. Forms(s, seats[s])
        BY <1>4, <2>2 DEF Effect
      <3>2. /\ seats' \in [Sessions -> Seq(Everybody)]
            /\ game' = [t \in Sessions |-> game'[t]]
            /\ \A t \in Sessions \ {s} : seats'[t] = seats[t] /\ game'[t] = game[t]
        BY <2>2, <3>1, SizeType, FormsFacts DEF Full, RestTyped
      <3>3. seats[s] # <<>>
        BY <2>2, SizeType DEF Full
      <3> QED BY <1>4, <2>1, <3>2, <3>3 DEF RestTyped, Set
    <2>3. CASE ~Full(s)
      <3>1. UNCHANGED <<seats, game>>
        BY <1>4, <2>3 DEF Effect
      <3> QED BY <1>4, <2>1, <3>1 DEF RestTyped, Set
    <2> QED BY <2>2, <2>3
  <1> QED BY <1>1, <1>2, <1>3, <1>4 DEF Acts

\* What a step of the server leaves: the lobby, but for a call that is answered.
ServerFrame == UNCHANGED <<lobbyVars, cleared, asked, late, left>>

LEMMA ServerAsk ==
  ASSUME IInv, AskInv, ServerFrame,
         {held', lifted'} \subseteq [Sessions -> BOOLEAN],
         seats' \in [Sessions -> Seq(Everybody)], game' = [t \in Sessions |-> game'[t]],
         \A c \in Callers : \/ call'[c].act = call[c].act /\ call'[c].of = call[c].of
                            \/ call'[c] = call[c],
         \A t \in Sessions :
           /\ lifted[t] => lifted'[t]
           /\ held[t] => held'[t] \/ lifted'[t] \/ Cleared(t)
           /\ game'[t] # {} /\ Mode(t) # "direct" => game[t] # {} \/ Cleared(t)
           /\ seats'[t] # <<>> /\ Mode(t) # "direct" => seats[t] # <<>> \/ Guarded(t)
           /\ Mode(t) = "byo" /\ Asking(t) => Asking(t)' \/ Guarded(t)'
           /\ call'[Loop].act = "hold" /\ call'[Loop].ans # "none" /\ call'[Loop].of = t =>
                call'[Loop] = call[Loop] \/ Guarded(t)'
  PROVE  AskInv'
  <1>1. RestTyped'
    BY DEF AskInv, RestTyped, ServerFrame, lobbyVars
  <1>2. UNCHANGED <<table, status, here, queue, known, proc, cleared, asked, late>>
    BY DEF ServerFrame, lobbyVars
  <1>3. QueueInv'
    BY <1>2 DEF AskInv, QueueInv, Begun, IsInjective
  <1>4. Users \subseteq Callers /\ {Loop, Screen} \subseteq Callers
    BY DEF Callers
  <1>5. CallInv'
    BY <1>2, <1>4 DEF AskInv, CallInv, Begun, Mode
  <1>6. \A t \in Sessions :
          /\ Mode(t)' = Mode(t)
          /\ Cleared(t) => Cleared(t)'
          /\ Guarded(t) => Guarded(t)'
    <2>1. \A t \in Sessions : HumanTeams(t)' = HumanTeams(t)
      BY <1>2 DEF HumanTeams, Mode
    <2>2. \A t \in Sessions : Cleared(t) => Cleared(t)'
      BY <1>2, <2>1 DEF Cleared, AskedAll
    <2>3. \A t \in Sessions : lifted'[t] => Cleared(t)'
      BY DEF Cleared
    <2> QED BY <1>2, <2>2, <2>3 DEF Guarded, Mode
  <1>7. ASSUME NEW t \in Sessions
        PROVE  (/\ known[t] \/ cleared[t] \/ proc[t] # "none" => status[t] # "none"
                /\ game[t] # {} /\ Mode(t) # "direct" => Cleared(t)
                /\ seats[t] # <<>> /\ Mode(t) # "direct" => Guarded(t)
                /\ proc[t] # "none" \/ status[t] = "running" => Guarded(t)
                /\ Mode(t) = "byo" /\ status[t] # "none" => Guarded(t) \/ Asking(t)
                /\ Mode(t) = "byo" /\ known[t] => Guarded(t))'
    BY <1>2, <1>6 DEF AskInv, GuardInv
  <1>8. ASSUME NEW u \in Users, call'[u].act \in {"room", "release"}
        PROVE  Cleared(call[u].of)'
    <2>1. call[u].act \in {"room", "release"} /\ call'[u].of = call[u].of
      BY <1>4, <1>8
    <2>2. PICK t \in Sessions : t = call[u].of
      BY <1>4, <2>1 DEF IInv, TypedInv, CallRecords
    <2>3. Cleared(t)'
      BY <1>6, <2>1, <2>2 DEF AskInv, GuardInv
    <2>4. call'[u].of = t
      BY <2>1, <2>2
    <2> QED BY <2>3, <2>4 DEF Cleared, AskedAll, HumanTeams, Mode
  <1>9. ASSUME call'[Loop].act = "hold", call'[Loop].ans # "none"
        PROVE  Guarded(call[Loop].of)'
    <2>1. call[Loop].act = "hold" /\ call'[Loop].of = call[Loop].of
      BY <1>4, <1>9
    <2>2. PICK t \in Sessions : t = call[Loop].of
      BY <1>4, <2>1 DEF IInv, TypedInv, CallRecords
    <2>3. Guarded(t)'
      BY <1>6, <1>9, <2>1, <2>2 DEF AskInv, GuardInv
    <2>4. call'[Loop].of = t
      BY <2>1, <2>2
    <2> QED BY <2>3, <2>4 DEF Guarded, Cleared, AskedAll, HumanTeams, Mode
  <1>10. GuardInv'
    BY <1>7, <1>8, <1>9 DEF GuardInv
  <1> QED BY <1>1, <1>3, <1>5, <1>10 DEF AskInv

LEMMA ServedAsk ==
  ASSUME IInv, AskInv, NEW c \in Callers, Served(c)
  PROVE  AskInv'
  <1>1. /\ Loop \in Callers /\ Users \subseteq Callers /\ Loop \notin Users
        /\ Screen \in Callers /\ Screen \notin Users /\ Screen # Loop
    BY UserAssumption DEF Callers
  <1>2. PICK x \in {"ok", "no", "empty", "lost"} : Pending(c) /\ Answer(c, x)
    BY DEF Served, Serve, Lose, Found
  <1>3. call[c] \in CallRecords /\ call[c].act # "none" /\ call[c].ans = "none"
    BY <1>2 DEF Pending, IInv, TypedInv
  <1>4. PICK s \in Sessions : s = call[c].of
    BY <1>3 DEF CallRecords
  <1>5. PICK a \in Acts : a = call[c].act
    BY <1>3 DEF CallRecords
  <1>6. /\ \/ Effect(a, s)
           \/ UNCHANGED serverVars /\ (a \in {"hold", "gate"} => lifted'[s] \/ held[s])
        /\ lifted' \in [Sessions -> BOOLEAN]
        /\ \A t \in Sessions : lifted[t] => lifted'[t]
        /\ a = "drop" => lifted'[s] \/ UNCHANGED serverVars
        /\ ServerFrame
    <2>1. CASE Serve(c)
      <3>1. lifted' = Set(lifted, s, lifted[s] \/ a = "drop") /\ Effect(a, s)
        BY <2>1, <1>4, <1>5 DEF Serve
      <3>2. (lifted[s] \/ a = "drop") \in BOOLEAN
        OBVIOUS
      <3>3. ServerFrame
        BY <2>1 DEF Serve, ServerFrame
      <3> QED BY <3>1, <3>2, <3>3 DEF Set, AskInv, RestTyped
    <2>2. CASE Lose(c)
      <3>1. \/ Effect(a, s) /\ lifted' = Set(lifted, s, lifted[s] \/ a = "drop")
            \/ /\ UNCHANGED serverVars
               /\ lifted' = Set(lifted, s, lifted[s] \/ (a \in {"hold", "gate"} /\ ~held[s]))
        BY <2>2, <1>4, <1>5 DEF Lose
      <3>2. /\ (lifted[s] \/ a = "drop") \in BOOLEAN
            /\ (lifted[s] \/ (a \in {"hold", "gate"} /\ ~held[s])) \in BOOLEAN
        OBVIOUS
      <3>3. ServerFrame
        BY <2>2 DEF Lose, ServerFrame
      <3> QED BY <3>1, <3>2, <3>3 DEF Set, AskInv, RestTyped
    <2> QED BY <2>1, <2>2 DEF Served
  <1>7. a = "release" => Cleared(s)
    <2>1. a = "release" => c \in Users
      BY <1>1, <1>5 DEF AskInv, CallInv, Callers
    <2> QED BY <1>4, <1>5, <2>1 DEF AskInv, GuardInv
  <1>8. /\ held' \in [Sessions -> BOOLEAN]
        /\ seats' \in [Sessions -> Seq(Everybody)]
        /\ game' = [t \in Sessions |-> game'[t]]
        /\ \A t \in Sessions :
             /\ seats'[t] # <<>> => seats[t] # <<>>
             /\ game'[t] # {} => game[t] # {} \/ Cleared(t)
             /\ held[t] => held'[t] \/ lifted'[t] \/ Cleared(t)
        /\ a \in {"hold", "gate"} => held'[s] \/ lifted'[s]
    <2>1. CASE Effect(a, s) /\ (a = "drop" => lifted'[s])
      BY <1>7, <2>1, EffectFacts DEF AskInv
    <2>2. CASE UNCHANGED serverVars /\ (a \in {"hold", "gate"} => lifted'[s] \/ held[s])
      BY <2>2 DEF AskInv, RestTyped, serverVars
    <2>3. a = "drop" => a \notin {"hold", "gate"}
      OBVIOUS
    <2> QED BY <1>6, <2>1, <2>2, <2>3
  <1>9. /\ call' \in [Callers -> CallRecords]
        /\ call'[c].act = a /\ call'[c].of = s /\ call'[c].ans = x
        /\ \A d \in Callers \ {c} : call'[d] = call[d]
    <2>1. call'[c].ans = x
      <3>1. call[c] \in [act : Acts, of : Sessions, ans : {"none", "ok", "no", "empty", "lost"}]
        BY <1>3 DEF CallRecords
      <3>2. call'[c] = [call[c] EXCEPT !.ans = x]
        BY <1>2 DEF Answer, IInv, TypedInv
      <3> QED BY <3>1, <3>2
    <2> QED BY <1>2, <1>4, <1>5, <2>1, CallsTyped DEF IInv
  <1>10. \A d \in Callers : \/ call'[d].act = call[d].act /\ call'[d].of = call[d].of
                            \/ call'[d] = call[d]
    BY <1>4, <1>5, <1>9
  <1>11. a \in {"hold", "gate"} => Guarded(s)'
    BY <1>8 DEF Guarded, Cleared
  <1>12. \A t \in Sessions : Mode(t) = "byo" /\ Asking(t) => Asking(t)' \/ Guarded(t)'
    <2> SUFFICES ASSUME NEW t \in Sessions, Asking(t)
                 PROVE  Asking(t)' \/ Guarded(t)'
      OBVIOUS
    <2>1. Host[t] \in Users /\ TableOf[Host[t]] = t
      BY UserAssumption
    <2>2. CASE c = Host[t]
      <3>1. a = "gate" /\ s = t
        BY <1>3, <1>4, <1>5, <2>1, <2>2 DEF Asking, AskInv, CallInv
      <3> QED BY <1>11, <3>1
    <2>3. CASE c # Host[t]
      <3>1. call'[Host[t]] = call[Host[t]]
        BY <1>1, <1>9, <2>1, <2>3
      <3> QED BY <3>1 DEF Asking
    <2> QED BY <2>2, <2>3
  <1>13. \A t \in Sessions :
           call'[Loop].act = "hold" /\ call'[Loop].ans # "none" /\ call'[Loop].of = t =>
             call'[Loop] = call[Loop] \/ Guarded(t)'
    BY <1>1, <1>9, <1>11
  <1> QED BY <1>6, <1>8, <1>10, <1>12, <1>13, ServerAsk

LEMMA DropAsk ==
  ASSUME IInv, AskInv, NEW s \in Sessions, ServeDrop(s)
  PROVE  AskInv'
  <1>1. Effect("drop", s) /\ lifted' = Set(lifted, s, TRUE) /\ UNCHANGED call /\ ServerFrame
    BY DEF ServeDrop, ServerFrame
  <1>2. "drop" \in Acts
    BY DEF Acts
  <1>3. /\ held' \in [Sessions -> BOOLEAN]
        /\ seats' \in [Sessions -> Seq(Everybody)]
        /\ game' = [t \in Sessions |-> game'[t]]
        /\ \A t \in Sessions :
             /\ seats'[t] # <<>> => seats[t] # <<>>
             /\ game'[t] # {} => game[t] # {}
             /\ held[t] => held'[t] \/ t = s
    BY <1>1, <1>2, EffectFacts DEF AskInv
  <1>4. /\ lifted' \in [Sessions -> BOOLEAN]
        /\ \A t \in Sessions : lifted[t] \/ t = s => lifted'[t]
    BY <1>1 DEF Set, AskInv, RestTyped
  <1>5. \A t \in Sessions : Asking(t) => Asking(t)'
    BY <1>1 DEF Asking
  <1> QED BY <1>1, <1>3, <1>4, <1>5, ServerAsk

\* Whoever connects comes after the hold: an AI process, a screen and what comes
\* to a byo room whose id went out.
LEMMA MayConnectGuarded ==
  ASSUME IInv, AskInv, NEW s \in Sessions, NEW p \in Everybody, MayConnect(s, p),
         Mode(s) # "direct"
  PROVE  Guarded(s)
  <1>1. CASE p \in ais[s] /\ proc[s] = "alive"
    BY <1>1 DEF AskInv, GuardInv
  <1>2. CASE p \in table[s].agents /\ known[s]
    <2>1. Mode(s) = "byo"
      BY <1>2, SceneAssumption DEF IInv, TypedInv, Mode
    <2> QED BY <1>2, <2>1 DEF AskInv, GuardInv
  <1>3. CASE status[s] = "running"
    BY <1>3 DEF AskInv, GuardInv
  <1> QED BY <1>1, <1>2, <1>3 DEF MayConnect

LEMMA ConnectAsk ==
  ASSUME IInv, AskInv, NEW s \in Sessions, NEW p \in Everybody, Connect(s, p)
  PROVE  AskInv'
  <1> DEFINE waiting == Append(seats[s], p)
  <1>1. /\ IF Len(waiting) >= table[s].size /\ ~held[s] THEN Forms(s, waiting)
           ELSE seats' = Set(seats, s, waiting) /\ UNCHANGED game
        /\ MayConnect(s, p) /\ UNCHANGED <<held, lifted, call>> /\ ServerFrame
    BY DEF Connect, ServerFrame, history
  <1>2. waiting \in Seq(Everybody)
    BY DEF AskInv, RestTyped
  <1>3. Mode(s) # "direct" => Guarded(s)
    BY <1>1, MayConnectGuarded
  <1> HIDE DEF waiting
  <1>4. /\ seats' \in [Sessions -> Seq(Everybody)]
        /\ game' = [t \in Sessions |-> game'[t]]
        /\ \A t \in Sessions \ {s} : seats'[t] = seats[t] /\ game'[t] = game[t]
        /\ game'[s] = game[s] \/ ~held[s]
    <2>1. CASE Len(waiting) >= table[s].size /\ ~held[s]
      <3>1. Forms(s, waiting)
        BY <1>1, <2>1
      <3> QED BY <1>2, <2>1, <3>1, SizeType, FormsFacts DEF AskInv
    <2>2. CASE ~(Len(waiting) >= table[s].size /\ ~held[s])
      <3>1. seats' = Set(seats, s, waiting) /\ UNCHANGED game
        BY <1>1, <2>2
      <3> QED BY <1>2, <3>1 DEF Set, AskInv, RestTyped
    <2> QED BY <2>1, <2>2
  <1>5. {held', lifted'} \subseteq [Sessions -> BOOLEAN]
    BY <1>1 DEF AskInv, RestTyped
  <1>6. \A t \in Sessions :
           /\ held[t] => held'[t]
           /\ game'[t] # {} /\ Mode(t) # "direct" => game[t] # {} \/ Cleared(t)
           /\ seats'[t] # <<>> /\ Mode(t) # "direct" => seats[t] # <<>> \/ Guarded(t)
           /\ Asking(t) => Asking(t)'
    <2>1. \A t \in Sessions : Asking(t) => Asking(t)'
      BY <1>1 DEF Asking
    <2>2. Mode(s) # "direct" /\ ~held[s] => Cleared(s)
      BY <1>3 DEF Guarded
    <2> QED BY <1>1, <1>3, <1>4, <2>1, <2>2
  <1> QED BY <1>1, <1>4, <1>5, <1>6, ServerAsk

LEMMA DisconnectAsk ==
  ASSUME IInv, AskInv, NEW s \in Sessions, NEW i \in DOMAIN seats[s], Disconnect(s, i)
  PROVE  AskInv'
  <1>1. /\ seats' = Set(seats, s, Keep(seats[s], DOMAIN seats[s] \ {i}))
        /\ UNCHANGED <<held, game, lifted, call>> /\ ServerFrame
    BY DEF Disconnect, ServerFrame, history
  <1>2. Keep(seats[s], DOMAIN seats[s] \ {i}) \in Seq(Everybody) /\ seats[s] # <<>>
    <2>1. seats[s] \in Seq(Everybody) /\ DOMAIN seats[s] \ {i} \in SUBSET DOMAIN seats[s]
      BY DEF AskInv, RestTyped
    <2>2. seats[s] # <<>>
      OBVIOUS
    <2> QED BY <2>1, <2>2, KeepBijection
  <1>3. /\ seats' \in [Sessions -> Seq(Everybody)]
        /\ \A t \in Sessions : seats'[t] # <<>> => seats[t] # <<>>
    BY <1>1, <1>2 DEF AskInv, RestTyped, Set
  <1>4. /\ {held', lifted'} \subseteq [Sessions -> BOOLEAN]
        /\ game' = [t \in Sessions |-> game'[t]]
    BY <1>1 DEF AskInv, RestTyped
  <1>5. \A t \in Sessions : Asking(t) => Asking(t)'
    BY <1>1 DEF Asking
  <1> QED BY <1>1, <1>3, <1>4, <1>5, ServerAsk
-----------------------------------------------------------------------------
(* The lobby's steps.                                                      *)

\* A call that may be made: whose it is, and of what session.
Fits(c, a, s) ==
  /\ c \in Users => /\ s = TableOf[c] /\ a \in {"gate", "room", "release"}
                    /\ a = "gate" => Mode(s) = "byo"
                    /\ status'[s] # "none"
                    /\ a # "gate" => Cleared(s)'
  /\ c = Loop => a \in {"hold", "drop"} /\ Begun(s)'
  /\ c = Screen => a = "room"

NewCalls ==
  \A c \in Callers :
    /\ \/ call'[c] = call[c] \/ call'[c] = NoCall
       \/ \E a \in Acts, s \in Sessions :
            call'[c] = [act |-> a, of |-> s, ans |-> "none"] /\ Fits(c, a, s)
    /\ c # Loop /\ call[c].act = "gate" /\ call[c].ans = "none" => call'[c] = call[c]

Onward(s) == /\ status[s] # "none" => status'[s] # "none"
             /\ Begun(s) => Begun(s)'

\* What is cleared and pressed stays cleared, and no room loses its guard.
Safe(s) == /\ Guarded(s) => Guarded(s)'
           /\ Cleared(s) /\ Pressing(s) => Cleared(s)'

LEMMA NewCallsKept ==
  ASSUME IInv, AskInv, NewCalls, UNCHANGED table, \A s \in Sessions : Onward(s) /\ Safe(s)
  PROVE  /\ CallInv'
         /\ \A u \in Users : call'[u].act \in {"room", "release"} => Cleared(call[u].of)'
         /\ call'[Loop].act = "hold" /\ call'[Loop].ans # "none" => Guarded(call[Loop].of)'
         /\ \A s \in Sessions : Asking(s) => Asking(s)'
  <1>1. /\ {Loop, Screen} \subseteq Callers /\ Users \subseteq Callers
        /\ Loop \notin Users /\ Screen \notin Users /\ Loop # Screen
    BY UserAssumption DEF Callers
  <1>2. ASSUME NEW c \in Callers, call'[c].act # "none"
        PROVE  \E a \in Acts, s \in Sessions :
                 /\ call'[c].act = a /\ call'[c].of = s
                 /\ call'[c] = call[c] \/ (call'[c].ans = "none" /\ Fits(c, a, s))
    <2>1. CASE call'[c] = call[c]
      BY <1>2, <2>1 DEF IInv, TypedInv, CallRecords
    <2>2. CASE call'[c] # call[c]
      <3>1. call'[c] # NoCall
        BY <1>2 DEF NoCall
      <3>2. PICK a \in Acts, s \in Sessions :
              call'[c] = [act |-> a, of |-> s, ans |-> "none"] /\ Fits(c, a, s)
        BY <2>2, <3>1 DEF NewCalls
      <3>3. call'[c].act = a /\ call'[c].of = s /\ call'[c].ans = "none"
        BY <3>2
      <3> QED BY <3>2, <3>3
    <2> QED BY <2>1, <2>2
  <1>3. \A s \in Sessions : Mode(s)' = Mode(s)
    BY DEF Mode
  <1>4. ASSUME NEW u \in Users, call'[u].act # "none"
        PROVE  /\ call'[u].of = TableOf[u] /\ call'[u].act \in {"gate", "room", "release"}
               /\ call'[u].act = "gate" => Mode(call[u].of)' = "byo"
               /\ status'[call'[u].of] # "none"
               /\ call'[u].act \in {"room", "release"} => Cleared(call[u].of)'
    <2>1. PICK a \in Acts, s \in Sessions :
                 /\ call'[u].act = a /\ call'[u].of = s
                 /\ call'[u] = call[u] \/ Fits(u, a, s)
      BY <1>1, <1>2, <1>4
    <2>2. /\ s = TableOf[u] /\ a \in {"gate", "room", "release"}
          /\ a = "gate" => Mode(s)' = "byo"
          /\ status'[s] # "none"
          /\ a # "gate" => Cleared(s)'
      <3>1. CASE call'[u] = call[u]
        <4>1. s = TableOf[u] /\ a \in {"gate", "room", "release"} /\ status[s] # "none"
              /\ (a = "gate" => Mode(s) = "byo")
          BY <1>4, <2>1, <3>1 DEF AskInv, CallInv
        <4>2. a # "gate" => Cleared(s) /\ Pressing(s)
          BY <1>4, <2>1, <3>1, <4>1 DEF AskInv, GuardInv, Pressing
        <4> QED BY <1>3, <4>1, <4>2 DEF Onward, Safe
      <3>2. CASE Fits(u, a, s)
        BY <1>3, <3>2 DEF Fits
      <3> QED BY <2>1, <3>1, <3>2
    <2>3. call'[u].act # "gate" => Cleared(s)'
      BY <2>1, <2>2
    <2> QED BY <2>1, <2>2, <2>3 DEF Cleared, AskedAll, HumanTeams, Mode
  <1>5. ASSUME call'[Loop].act # "none"
        PROVE  call'[Loop].act \in {"hold", "drop"} /\ Begun(call[Loop].of)'
    <2>1. PICK a \in Acts, s \in Sessions :
                 /\ call'[Loop].act = a /\ call'[Loop].of = s
                 /\ call'[Loop] = call[Loop] \/ Fits(Loop, a, s)
      BY <1>1, <1>2, <1>5
    <2>2. a \in {"hold", "drop"} /\ Begun(s)'
      BY <1>5, <2>1 DEF AskInv, CallInv, Fits, Onward
    <2> QED BY <2>1, <2>2 DEF Begun
  <1>6. call'[Screen].act \in {"none", "room"}
    BY <1>1, <1>2 DEF AskInv, CallInv, Fits
  <1>7. ASSUME call'[Loop].act = "hold", call'[Loop].ans # "none"
        PROVE  Guarded(call[Loop].of)'
    <2>1. PICK a \in Acts, s \in Sessions :
                 /\ call'[Loop].act = a /\ call'[Loop].of = s /\ call'[Loop] = call[Loop]
      BY <1>1, <1>2, <1>7
    <2>2. Guarded(s)'
      BY <1>7, <2>1 DEF AskInv, GuardInv, Safe
    <2> QED BY <2>1, <2>2 DEF Guarded, Cleared, AskedAll, HumanTeams, Mode
  <1>8. \A s \in Sessions : Asking(s) => Asking(s)'
    BY <1>1, UserAssumption DEF NewCalls, Asking
  <1>9. CallInv'
    BY <1>4, <1>5, <1>6 DEF CallInv
  <1> QED BY <1>4, <1>7, <1>8, <1>9

LEMMA LobbyAsk ==
  ASSUME IInv, AskInv, UNCHANGED <<table, serverVars, lifted>>, NewCalls, RestTyped', QueueInv',
         \A s \in Sessions :
           /\ Onward(s) /\ Safe(s)
           /\ known'[s] \/ cleared'[s] \/ proc'[s] # "none" => status'[s] # "none"
           /\ Mode(s) = "byo" /\ known'[s] => Guarded(s)
           /\ Mode(s) = "byo" /\ status[s] = "none" /\ status'[s] # "none" => Asking(s)'
           /\ proc'[s] # "none" \/ status'[s] = "running" => Guarded(s)
  PROVE  AskInv'
  <1>1. /\ CallInv'
        /\ \A u \in Users : call'[u].act \in {"room", "release"} => Cleared(call[u].of)'
        /\ call'[Loop].act = "hold" /\ call'[Loop].ans # "none" => Guarded(call[Loop].of)'
        /\ \A s \in Sessions : Asking(s) => Asking(s)'
    BY NewCallsKept
  <1>2. UNCHANGED <<table, held, seats, game>>
    BY DEF serverVars
  <1>3. ASSUME NEW t \in Sessions
        PROVE  (/\ known[t] \/ cleared[t] \/ proc[t] # "none" => status[t] # "none"
                /\ game[t] # {} /\ Mode(t) # "direct" => Cleared(t)
                /\ seats[t] # <<>> /\ Mode(t) # "direct" => Guarded(t)
                /\ proc[t] # "none" \/ status[t] = "running" => Guarded(t)
                /\ Mode(t) = "byo" /\ status[t] # "none" => Guarded(t) \/ Asking(t)
                /\ Mode(t) = "byo" /\ known[t] => Guarded(t))'
    <2>1. Mode(t)' = Mode(t)
      BY <1>2 DEF Mode
    <2>2. game[t] # {} => Pressing(t)
      BY DEF Pressing
    <2>3. (Guarded(t) => Guarded(t)') /\ (Cleared(t) /\ Pressing(t) => Cleared(t)')
      BY DEF Safe
    <2>4. Asking(t) => Asking(t)'
      BY <1>1
    <2> QED BY <1>2, <2>1, <2>2, <2>3, <2>4 DEF AskInv, GuardInv
  <1>4. GuardInv'
    BY <1>1, <1>3 DEF GuardInv
  <1> QED BY <1>1, <1>4 DEF AskInv

\* Nobody comes to a table, and no check is made: what is cleared stays so.
Still == /\ UNCHANGED <<table, serverVars, lifted, cleared, asked, late>>
         /\ \A s \in Sessions : here'[s] \subseteq here[s]

LEMMA StillSafe ==
  ASSUME Still, NEW s \in Sessions
  PROVE  Safe(s) /\ (Cleared(s) => Cleared(s)')
  <1>1. HumanTeams(s)' \subseteq HumanTeams(s)
    BY DEF Still, HumanTeams, Mode
  <1>2. Cleared(s) => Cleared(s)'
    BY <1>1 DEF Still, Cleared, AskedAll
  <1> QED BY <1>2 DEF Safe, Guarded, Still, serverVars

LEMMA CallValues ==
  ASSUME TypedInv, NEW c \in Callers, NEW a \in Acts, NEW s \in Sessions
  PROVE  /\ Calls(c, a, s) => /\ call'[c] = [act |-> a, of |-> s, ans |-> "none"]
                              /\ \A d \in Callers \ {c} : call'[d] = call[d]
         /\ call' = Set(call, c, NoCall) => /\ call'[c] = NoCall
                                            /\ \A d \in Callers \ {c} : call'[d] = call[d]
  BY DEF TypedInv, Calls, Set

LEMMA NoCallMade ==
  ASSUME call' = call
  PROVE  NewCalls
  BY DEF NewCalls

LEMMA CallMade ==
  ASSUME TypedInv, NEW c \in Callers, NEW a \in Acts, NEW s \in Sessions,
         Calls(c, a, s) => Fits(c, a, s),
         c # Loop => call[c].act # "gate" \/ call[c].ans # "none",
         Calls(c, a, s) \/ call' = Set(call, c, NoCall)
  PROVE  NewCalls
  BY CallValues DEF NewCalls

LEMMA CallEnded ==
  ASSUME TypedInv, call' = Set(call, Loop, NoCall)
  PROVE  NewCalls
  BY DEF NewCalls, TypedInv, Set, Callers

LEMMA QueueStays ==
  ASSUME AskInv, queue' = queue, \A t \in Sessions : Onward(t)
  PROVE  QueueInv'
  <1>1. ASSUME NEW i \in DOMAIN queue PROVE Begun(queue[i])'
    <2>1. PICK t \in Sessions : t = queue[i] /\ Begun(t)
      BY DEF AskInv, QueueInv
    <2> QED BY <2>1 DEF Begun, Onward
  <1> QED BY <1>1 DEF AskInv, QueueInv, IsInjective

LEMMA QueueShrinks ==
  ASSUME AskInv, NEW D \in SUBSET DOMAIN queue, queue' = Keep(queue, D),
         \A t \in Sessions : Onward(t)
  PROVE  QueueInv'
  <1>1. queue \in Seq(Sessions) /\ IsInjective(queue) /\ \A i \in DOMAIN queue : Begun(queue[i])
    BY DEF AskInv, QueueInv
  <1>2. Keep(queue, D) \in Seq(Sessions) /\ IsInjective(Keep(queue, D))
    BY <1>1, KeepBijection, KeepInjective
  <1>3. \A j \in DOMAIN Keep(queue, D) : \E i \in DOMAIN queue : Keep(queue, D)[j] = queue[i]
    <2>1. PICK f \in Bijection(DOMAIN Keep(queue, D), D) :
             \A j \in DOMAIN Keep(queue, D) : Keep(queue, D)[j] = queue[f[j]]
      BY <1>1, KeepBijection
    <2>2. \A j \in DOMAIN Keep(queue, D) : f[j] \in D
      BY DEF Bijection, Injection, Surjection
    <2> QED BY <2>1, <2>2
  <1>4. ASSUME NEW j \in DOMAIN queue'
        PROVE  Begun(queue[j])'
    <2>1. PICK t \in Sessions : t = queue'[j] /\ Begun(t)'
      BY <1>1, <1>3 DEF Onward
    <2> QED BY <2>1 DEF Begun
  <1> QED BY <1>2, <1>4 DEF QueueInv

\* Steps that leave the sessions as they are, but for a gate, _lock and a call.
LEMMA GateAsk ==
  ASSUME IInv, AskInv, NewCalls, Still,
         UNCHANGED <<status, queue, proc, known>>, ready' \in [Sessions -> SUBSET Users],
         gate' \in [Sessions -> {"off", "hold", "released", "started"}]
  PROVE  AskInv'
  <1>1. RestTyped'
    BY DEF AskInv, RestTyped, serverVars, Still
  <1>2. \A t \in Sessions : Onward(t)
    BY DEF Onward, Begun
  <1>3. QueueInv'
    BY <1>2, QueueStays
  <1>4. \A s \in Sessions :
          /\ known'[s] \/ cleared'[s] \/ proc'[s] # "none" => status'[s] # "none"
          /\ Mode(s) = "byo" /\ known'[s] => Guarded(s)
          /\ proc'[s] # "none" \/ status'[s] = "running" => Guarded(s)
    BY DEF AskInv, GuardInv, Still
  <1>5. \A s \in Sessions : Safe(s)
    BY StillSafe
  <1> QED BY <1>1, <1>2, <1>3, <1>4, <1>5, LobbyAsk DEF Still
-----------------------------------------------------------------------------
(* Gates, and calls about them.                                            *)

LEMMA ResumedAsk ==
  ASSUME IInv, AskInv, NEW u \in Users, Resumed(u)
  PROVE  AskInv'
  <1>1. u \in Callers /\ u # Loop /\ u # Screen /\ call[u] \in CallRecords
    BY UserAssumption DEF Callers, IInv, TypedInv
  <1>2. call[u].act # "none" /\ call[u].ans # "none"
    BY DEF Resumed, HoldNew, MaybeRelease, Released, Answered
  <1>3. PICK s \in Sessions : s = call[u].of /\ s = TableOf[u] /\ status[s] # "none"
    BY <1>1, <1>2 DEF AskInv, CallInv, CallRecords
  <1>4. UNCHANGED <<table, status, here, queue, proc, known, ready, serverVars, history>>
    BY DEF Resumed, HoldNew, MaybeRelease, Released, lobbyVars
  <1>5. Still
    BY <1>4 DEF Still, history
  <1>6. \E g \in {"off", "hold", "released", "started"} : gate' = gate \/ gate' = Set(gate, s, g)
    <2>1. CASE HoldNew(u)
      BY <1>3, <2>1 DEF HoldNew
    <2>2. CASE Released(u)
      <3>1. CASE call[u].ans = "lost"
        BY <1>3, <2>2, <3>1 DEF Released
      <3>2. CASE call[u].ans = "ok"
        BY <1>3, <2>2, <3>2 DEF Released
      <3>3. CASE call[u].ans \notin {"lost", "ok"}
        BY <1>3, <2>2, <3>3 DEF Released
      <3> QED BY <3>1, <3>2, <3>3
    <2>3. CASE MaybeRelease(u)
      BY <2>3 DEF MaybeRelease, lobbyVars
    <2> QED BY <2>1, <2>2, <2>3 DEF Resumed
  <1>7. gate' \in [Sessions -> {"off", "hold", "released", "started"}]
    BY <1>6 DEF AskInv, RestTyped, Set
  <1>8. Calls(u, "release", s) \/ call' = Set(call, u, NoCall)
    BY <1>3 DEF Resumed, HoldNew, MaybeRelease, Released
  <1>9. Calls(u, "release", s) => Fits(u, "release", s)
    <2> SUFFICES ASSUME Calls(u, "release", s)
                 PROVE  Fits(u, "release", s)
      OBVIOUS
    <2>1. call'[u].act = "release"
      BY <1>1 DEF Calls, IInv, TypedInv
    <2>2. MaybeRelease(u)
      <3>1. HoldNew(u) \/ Released(u) => call'[u].act = "none"
        BY <1>1 DEF HoldNew, Released, Set, NoCall, IInv, TypedInv
      <3> QED BY <2>1, <3>1 DEF Resumed
    <2>3. call[u].act = "room"
      BY <2>2 DEF MaybeRelease, Answered
    <2>4. Cleared(s)
      BY <1>3, <2>3 DEF AskInv, GuardInv
    <2>5. Cleared(s)'
      BY <1>5, <2>4, StillSafe
    <2> QED BY <1>1, <1>3, <1>4, <2>5 DEF Fits
  <1>10. NewCalls
    <2>1. "release" \in Acts
      BY DEF Acts
    <2> QED BY <1>1, <1>2, <1>8, <1>9, <2>1, CallMade DEF IInv
  <1> QED BY <1>4, <1>5, <1>7, <1>10, GateAsk DEF AskInv, RestTyped

LEMMA ViewAsks ==
  ASSUME IInv, AskInv, ViewShown \/ \E s \in Sessions : ViewAsk(s)
  PROVE  AskInv'
  <1>1. Screen \in Callers /\ Screen # Loop /\ Screen \notin Users /\ "room" \in Acts
    BY UserAssumption DEF Callers, Acts
  <1>2. UNCHANGED <<table, status, here, queue, proc, known, ready, serverVars, history>>
    BY DEF ViewShown, ViewAsk, lobbyVars
  <1>3. Still
    BY <1>2 DEF Still, history
  <1>4. CASE ViewShown
    <2>1. call[Screen] \in CallRecords /\ call[Screen].act = "room"
      BY <1>1, <1>4 DEF ViewShown, Answered, IInv, TypedInv
    <2>2. PICK s \in Sessions : s = call[Screen].of
      BY <2>1 DEF CallRecords
    <2>3. /\ gate' = Set(gate, s, "started") \/ gate' = gate
          /\ call' = Set(call, Screen, NoCall)
      BY <1>4, <2>2 DEF ViewShown
    <2>4. gate' \in [Sessions -> {"off", "hold", "released", "started"}]
      BY <2>3 DEF AskInv, RestTyped, Set
    <2>5. Calls(Screen, "room", s) => Fits(Screen, "room", s)
      BY <1>1 DEF Fits
    <2>6. NewCalls
      BY <1>1, <2>1, <2>3, <2>5, CallMade DEF IInv
    <2> QED BY <1>2, <1>3, <2>4, <2>6, GateAsk DEF AskInv, RestTyped
  <1>5. ASSUME NEW s \in Sessions, ViewAsk(s) PROVE AskInv'
    <2>1. Calls(Screen, "room", s) /\ gate' = gate /\ call[Screen].act # "gate"
      BY <1>5 DEF ViewAsk, lobbyVars, NoCall
    <2>2. Fits(Screen, "room", s)
      BY <1>1 DEF Fits
    <2>3. NewCalls
      BY <1>1, <2>1, <2>2, CallMade DEF IInv
    <2> QED BY <1>2, <1>3, <2>1, <2>3, GateAsk DEF AskInv, RestTyped
  <1> QED BY <1>4, <1>5

\* A check that lets the game go.
LEMMA ClearFacts ==
  ASSUME IInv, AskInv, NEW s \in Sessions, NEW who \in SUBSET Users, AllReady(s, who),
         Clear(s, who), UNCHANGED <<table, here, serverVars>>
  PROVE  /\ Cleared(s)' /\ lifted' = lifted
         /\ \A t \in Sessions : Safe(t) /\ (cleared'[t] => cleared[t] \/ t = s)
         /\ cleared' \in [Sessions -> BOOLEAN] /\ {asked', late'} \subseteq [Sessions -> SUBSET Users]
  <1>1. \A t \in Sessions : HumanTeams(t)' = HumanTeams(t)
    BY DEF HumanTeams, Mode
  <1>2. /\ cleared' = Set(cleared, s, TRUE) /\ asked' = Set(asked, s, who)
        /\ late' = Set(late, s, {}) /\ lifted' = lifted
    BY DEF Clear
  <1>3. /\ cleared' \in [Sessions -> BOOLEAN] /\ {asked', late'} \subseteq [Sessions -> SUBSET Users]
        /\ cleared'[s] /\ asked'[s] = who
        /\ \A t \in Sessions \ {s} :
             cleared'[t] = cleared[t] /\ asked'[t] = asked[t] /\ late'[t] = late[t]
    BY <1>2 DEF Set, AskInv, RestTyped
  <1>4. Cleared(s)'
    <2>1. HumanTeams(s)' \subseteq who
      BY <1>1 DEF AllReady
    <2> QED BY <1>3, <2>1 DEF Cleared, AskedAll
  <1>5. ASSUME NEW t \in Sessions, Cleared(t) PROVE Cleared(t)'
    <2>1. CASE t = s
      BY <1>4, <2>1
    <2>2. CASE t # s
      BY <1>1, <1>2, <1>3, <1>5, <2>2 DEF Cleared, AskedAll
    <2> QED BY <2>1, <2>2
  <1>6. \A t \in Sessions : Safe(t)
    BY <1>5 DEF Safe, Guarded, serverVars
  <1> QED BY <1>2, <1>3, <1>4, <1>6

LEMMA ClearAsk ==
  ASSUME IInv, AskInv, NEW s \in Sessions, NEW who \in SUBSET Users, AllReady(s, who),
         Clear(s, who), NEW u \in Users, TableOf[u] = s, NEW a \in {"room", "release"},
         Calls(u, a, s), call[u].act # "gate", status[s] # "none",
         ready' \in [Sessions -> SUBSET Users],
         UNCHANGED <<table, here, serverVars, status, queue, proc, known, gate>>
  PROVE  AskInv'
  <1>1. /\ Cleared(s)' /\ lifted' = lifted
        /\ \A t \in Sessions : Safe(t) /\ (cleared'[t] => cleared[t] \/ t = s)
        /\ cleared' \in [Sessions -> BOOLEAN] /\ {asked', late'} \subseteq [Sessions -> SUBSET Users]
    BY ClearFacts
  <1>2. u \in Callers /\ u # Loop /\ u # Screen /\ a \in Acts
    BY UserAssumption DEF Callers, Acts
  <1>3. Fits(u, a, s)
    BY <1>1, <1>2 DEF Fits
  <1>4. NewCalls
    BY <1>2, <1>3, CallMade DEF IInv
  <1>5. RestTyped'
    BY <1>1 DEF AskInv, RestTyped, serverVars
  <1>6. \A t \in Sessions : Onward(t)
    BY DEF Onward, Begun
  <1>7. QueueInv'
    BY <1>6, QueueStays
  <1>8. \A t \in Sessions :
          /\ known'[t] \/ cleared'[t] \/ proc'[t] # "none" => status'[t] # "none"
          /\ Mode(t) = "byo" /\ known'[t] => Guarded(t)
          /\ proc'[t] # "none" \/ status'[t] = "running" => Guarded(t)
    BY <1>1 DEF AskInv, GuardInv
  <1> QED BY <1>1, <1>4, <1>5, <1>6, <1>7, <1>8, LobbyAsk

LEMMA StartAsk ==
  ASSUME IInv, AskInv, NEW s \in Sessions, SessionStart(s)
  PROVE  AskInv'
  <1>1. Host[s] \in Users /\ TableOf[Host[s]] = s
    BY UserAssumption
  <1>2. /\ Calls(Host[s], "release", s) /\ call[Host[s]].act # "gate" /\ status[s] # "none"
        /\ AllReady(s, ready[s]) /\ Clear(s, ready[s])
        /\ UNCHANGED <<table, here, serverVars, status, queue, proc, known, gate, ready>>
    BY DEF SessionStart, lobbyVars, NoCall, Open
  <1>3. ready[s] \in SUBSET Users /\ ready' \in [Sessions -> SUBSET Users]
    BY <1>2 DEF AskInv, RestTyped
  <1> QED BY <1>1, <1>2, <1>3, ClearAsk

LEMMA SetReadyAsk ==
  ASSUME IInv, AskInv, NEW u \in Users, NEW b \in BOOLEAN, SetReady(u, b)
  PROVE  AskInv'
  <1>1. PICK s \in Sessions : s = TableOf[u]
    BY UserAssumption
  <1> DEFINE now == IF b THEN ready[s] \cup {u} ELSE ready[s] \ {u}
  <1>2. /\ ready' = Set(ready, s, now)
        /\ IF gate[s] = "hold" /\ AllReady(s, now)
           THEN Calls(u, "room", s) /\ Clear(s, now) ELSE UNCHANGED <<call, history>>
        /\ call[u].act # "gate" /\ status[s] # "none"
        /\ UNCHANGED <<table, here, serverVars, status, queue, proc, known, gate>>
    BY <1>1 DEF SetReady, Open, NoCall
  <1>3. now \in SUBSET Users
    BY DEF AskInv, RestTyped
  <1> HIDE DEF now
  <1>4. ready' \in [Sessions -> SUBSET Users]
    BY <1>2, <1>3 DEF Set, AskInv, RestTyped
  <1>5. CASE gate[s] = "hold" /\ AllReady(s, now)
    BY <1>1, <1>2, <1>3, <1>4, <1>5, ClearAsk
  <1>6. CASE ~(gate[s] = "hold" /\ AllReady(s, now))
    <2>1. Still
      BY <1>2, <1>6 DEF Still, history
    <2> QED BY <1>2, <1>4, <1>6, <2>1, NoCallMade, GateAsk DEF AskInv, RestTyped
  <1> QED BY <1>5, <1>6

LEMMA LockAsk ==
  ASSUME IInv, AskInv, Schedule \/ \E s \in Sessions : ReapHeld(s)
  PROVE  AskInv'
  <1>1. UNCHANGED <<table, here, serverVars, status, queue, proc, known, gate, ready, history>>
    BY DEF Schedule, ReapHeld, lobbyVars
  <1>2. Still
    BY <1>1 DEF Still, history
  <1>3. CASE Schedule
    BY <1>1, <1>2, <1>3, NoCallMade, GateAsk DEF Schedule, AskInv, RestTyped
  <1>4. ASSUME NEW s \in Sessions, ReapHeld(s) PROVE AskInv'
    <2>1. Loop \in Callers /\ Loop \notin Users /\ Loop # Screen /\ "drop" \in Acts
      BY UserAssumption DEF Callers, Acts
    <2>2. Begun(s)' /\ Calls(Loop, "drop", s)
      BY <1>1, <1>4 DEF ReapHeld, Begun
    <2>3. Fits(Loop, "drop", s)
      BY <2>1, <2>2 DEF Fits
    <2>4. NewCalls
      BY <2>1, <2>2, <2>3, CallMade DEF IInv
    <2> QED BY <1>1, <1>2, <2>4, GateAsk DEF AskInv, RestTyped
  <1> QED BY <1>3, <1>4
-----------------------------------------------------------------------------
(* Sessions are made and joined.                                           *)

LEMMA QueueGrows ==
  ASSUME AskInv, NEW s \in Sessions, status[s] \in {"none", "waiting"}, queue' = Append(queue, s),
         Begun(s)', \A t \in Sessions : Onward(t)
  PROVE  QueueInv'
  <1>1. queue \in Seq(Sessions) /\ IsInjective(queue) /\ \A i \in DOMAIN queue : Begun(queue[i])
    BY DEF AskInv, QueueInv
  <1>2. \A i \in DOMAIN queue : queue[i] # s
    BY <1>1 DEF Begun
  <1>3. /\ queue' \in Seq(Sessions)
        /\ DOMAIN queue' = DOMAIN queue \cup {Len(queue) + 1}
        /\ \A i \in DOMAIN queue : queue'[i] = queue[i]
        /\ queue'[Len(queue) + 1] = s
    BY <1>1
  <1>4. IsInjective(queue')
    BY <1>1, <1>2, <1>3 DEF IsInjective
  <1>5. ASSUME NEW i \in DOMAIN queue'
        PROVE  Begun(queue[i])'
    <2>1. PICK t \in Sessions : t = queue'[i] /\ Begun(t)'
      BY <1>1, <1>3 DEF Onward
    <2> QED BY <2>1 DEF Begun
  <1> QED BY <1>3, <1>4, <1>5 DEF QueueInv

LEMMA CreateAsk ==
  ASSUME IInv, AskInv, NEW s \in Sessions, Create(s)
  PROVE  AskInv'
  <1>1. Host[s] \in Users /\ Host[s] \in Callers /\ TableOf[Host[s]] = s /\ "gate" \in Acts
        /\ Host[s] # Loop /\ Host[s] # Screen
    BY UserAssumption DEF Callers, Acts
  <1>2. /\ status[s] = "none" /\ lifted' = lifted
        /\ UNCHANGED <<table, gate, ready, known, proc, serverVars, history>>
        /\ IF Mode(s) = "byo" THEN Calls(Host[s], "gate", s) ELSE UNCHANGED call
    BY DEF Create, history
  <1>3. ~cleared[s] /\ ~known[s] /\ proc[s] = "none"
    BY <1>2 DEF AskInv, GuardInv, IInv, TypedInv
  <1>4. \E h \in SUBSET Users : here' = Set(here, s, h)
    BY <1>1 DEF Create
  <1>5. /\ \E st \in {"waiting", "queued"} : status' = Set(status, s, st)
        /\ queue' = queue \/ (queue' = Append(queue, s) /\ status' = Set(status, s, "queued"))
    BY DEF Create
  <1>6. \A t \in Sessions : Onward(t)
    BY <1>2, <1>5 DEF Onward, Begun, Set, IInv, TypedInv
  <1>7. \A t \in Sessions \ {s} : here'[t] = here[t] /\ status'[t] = status[t]
    BY <1>4, <1>5 DEF Set, IInv, TypedInv
  <1>8. \A t \in Sessions : Cleared(t) => Cleared(t)'
    <2>1. Cleared(s) => Cleared(s)'
      BY <1>2, <1>3 DEF Cleared, AskedAll
    <2>2. \A t \in Sessions \ {s} : Cleared(t) => Cleared(t)'
      BY <1>2, <1>7 DEF Cleared, AskedAll, HumanTeams, Mode, history
    <2> QED BY <2>1, <2>2
  <1>9. \A t \in Sessions : Safe(t)
    BY <1>2, <1>8 DEF Safe, Guarded, serverVars
  <1>10. RestTyped'
    BY <1>2 DEF AskInv, RestTyped, serverVars, history
  <1>11. QueueInv'
    <2>1. CASE queue' = queue
      BY <1>6, <2>1, QueueStays
    <2>2. CASE queue' = Append(queue, s) /\ status' = Set(status, s, "queued")
      <3>1. Begun(s)'
        BY <2>2 DEF Begun, Set, IInv, TypedInv
      <3> QED BY <1>2, <1>6, <2>2, <3>1, QueueGrows
    <2> QED BY <1>5, <2>1, <2>2
  <1>12. status'[s] # "none"
    BY <1>5 DEF Set, IInv, TypedInv
  <1>13. call[Host[s]].act = "none"
    BY <1>1, <1>2 DEF AskInv, CallInv
  <1>14. NewCalls
    <2>1. CASE Mode(s) = "byo"
      <3>1. Fits(Host[s], "gate", s)
        BY <1>1, <1>12, <2>1 DEF Fits
      <3> QED BY <1>1, <1>2, <1>13, <2>1, <3>1, CallMade DEF IInv
    <2>2. CASE Mode(s) # "byo"
      BY <1>2, <2>2, NoCallMade
    <2> QED BY <2>1, <2>2
  <1>15. \A t \in Sessions :
           Mode(t) = "byo" /\ status[t] = "none" /\ status'[t] # "none" => Asking(t)'
    <2>1. Mode(s) = "byo" => Asking(s)'
      <3> SUFFICES ASSUME Mode(s) = "byo" PROVE Asking(s)'
        OBVIOUS
      <3>1. call'[Host[s]] = [act |-> "gate", of |-> s, ans |-> "none"]
        BY <1>1, <1>2, CallValues DEF IInv
      <3> QED BY <3>1 DEF Asking
    <2> QED BY <1>7, <2>1
  <1>16. \A t \in Sessions :
           /\ known'[t] \/ cleared'[t] \/ proc'[t] # "none" => status'[t] # "none"
           /\ Mode(t) = "byo" /\ known'[t] => Guarded(t)
           /\ proc'[t] # "none" \/ status'[t] = "running" => Guarded(t)
    <2>1. status'[s] # "running"
      BY <1>5 DEF Set, IInv, TypedInv
    <2>2. UNCHANGED <<known, cleared, proc>>
      BY <1>2 DEF history
    <2> QED BY <1>3, <1>7, <1>12, <2>1, <2>2 DEF AskInv, GuardInv
  <1> QED BY <1>2, <1>6, <1>9, <1>10, <1>11, <1>14, <1>15, <1>16, LobbyAsk

LEMMA JoinAsk ==
  ASSUME IInv, AskInv, NEW u \in Users, JoinRoom(u)
  PROVE  AskInv'
  <1>1. PICK s \in Sessions : s = TableOf[u]
    BY UserAssumption
  <1>2. /\ here' = Set(here, s, here[s] \cup {u}) /\ Mode(s) \in {"multi", "byo"}
        /\ late' = IF LetGo(s) THEN Set(late, s, late[s] \cup {u}) ELSE late
        /\ UNCHANGED <<table, status, gate, ready, known, proc, queue, serverVars, call,
                       cleared, asked, lifted>>
    BY <1>1 DEF JoinRoom
  <1>3. /\ here'[s] = here[s] \cup {u}
        /\ \A t \in Sessions \ {s} : here'[t] = here[t]
    BY <1>2 DEF Set, IInv, TypedInv
  <1>4. /\ late' \in [Sessions -> SUBSET Users]
        /\ \A t \in Sessions : late[t] \subseteq late'[t]
        /\ LetGo(s) => u \in late'[s]
    BY <1>2 DEF Set, AskInv, RestTyped
  <1>5. \A t \in Sessions \ {s} : Cleared(t) => Cleared(t)'
    BY <1>2, <1>3, <1>4 DEF Cleared, AskedAll, HumanTeams, Mode
  <1>6. Cleared(s) /\ LetGo(s) => Cleared(s)'
    <2>1. HumanTeams(s)' \subseteq HumanTeams(s) \cup {u}
      BY <1>2, <1>3 DEF HumanTeams, Mode
    <2> QED BY <1>2, <1>4, <2>1 DEF Cleared, AskedAll
  <1>7. Cleared(s) /\ ~LetGo(s) => Cleared(s)' \/ (held[s] /\ ~Pressing(s))
    BY <1>2 DEF LetGo, Cleared, AskedAll, Pressing
  <1>8. \A t \in Sessions : Safe(t)
    BY <1>2, <1>5, <1>6, <1>7 DEF Safe, Guarded, serverVars
  <1>9. \A t \in Sessions : Onward(t)
    BY <1>2 DEF Onward, Begun
  <1>10. RestTyped'
    BY <1>2, <1>4 DEF AskInv, RestTyped, serverVars
  <1>11. QueueInv'
    BY <1>2, <1>9, QueueStays
  <1>12. \A t \in Sessions :
           /\ known'[t] \/ cleared'[t] \/ proc'[t] # "none" => status'[t] # "none"
           /\ Mode(t) = "byo" /\ known'[t] => Guarded(t)
           /\ Mode(t) = "byo" /\ status[t] = "none" /\ status'[t] # "none" => Asking(t)'
           /\ proc'[t] # "none" \/ status'[t] = "running" => Guarded(t)
    BY <1>2 DEF AskInv, GuardInv
  <1> QED BY <1>2, <1>8, <1>9, <1>10, <1>11, <1>12, NoCallMade, LobbyAsk

\* Steps that let sessions go on or end, and that nobody joins.
LEMMA EndAsk ==
  ASSUME IInv, AskInv, NewCalls, Still, RestTyped', QueueInv',
         \A t \in Sessions :
           /\ Onward(t) /\ (status[t] = "none" => status'[t] = "none")
           /\ known'[t] => known[t] \/ (status[t] # "none" /\ (Mode(t) = "byo" => Guarded(t)))
           /\ proc'[t] # "none" => status'[t] # "none"
           /\ proc'[t] # "none" \/ status'[t] = "running" => Guarded(t)
  PROVE  AskInv'
  <1>1. \A t \in Sessions : Safe(t)
    BY StillSafe
  <1>2. \A t \in Sessions :
          /\ known'[t] \/ cleared'[t] \/ proc'[t] # "none" => status'[t] # "none"
          /\ Mode(t) = "byo" /\ known'[t] => Guarded(t)
    BY DEF AskInv, GuardInv, Still, Onward
  <1> QED BY <1>1, <1>2, LobbyAsk DEF Still

LEMMA RespondAsk ==
  ASSUME IInv, AskInv, NEW s \in Sessions, Respond(s)
  PROVE  AskInv'
  <1>1. /\ status[s] # "none" /\ call[Host[s]] = NoCall /\ known' = Set(known, s, TRUE)
        /\ UNCHANGED <<table, status, gate, ready, here, proc, queue, serverVars, call, history>>
    BY DEF Respond
  <1>2. Still
    BY <1>1 DEF Still, history
  <1>3. /\ known' \in [Sessions -> BOOLEAN]
        /\ \A t \in Sessions : known'[t] => known[t] \/ t = s
    BY <1>1 DEF Set, AskInv, RestTyped
  <1>4. RestTyped'
    BY <1>1, <1>3 DEF AskInv, RestTyped, serverVars, history
  <1>5. \A t \in Sessions : Onward(t)
    BY <1>1 DEF Onward, Begun
  <1>6. QueueInv'
    BY <1>1, <1>5, QueueStays
  <1>7. Mode(s) = "byo" => Guarded(s)
    BY <1>1 DEF AskInv, GuardInv, Asking, NoCall
  <1> QED BY <1>1, <1>2, <1>3, <1>4, <1>5, <1>6, <1>7, NoCallMade, EndAsk DEF AskInv, GuardInv

LEMMA StartRoomAsk ==
  ASSUME IInv, AskInv, NEW s \in Sessions, StartRoom(s)
  PROVE  AskInv'
  <1>1. /\ status[s] = "waiting" /\ status' = Set(status, s, "queued")
        /\ queue' = Append(queue, s)
        /\ UNCHANGED <<table, gate, ready, here, known, proc, serverVars, call, history>>
    BY DEF StartRoom, MayStart
  <1>2. Still
    BY <1>1 DEF Still, history
  <1>3. \A t \in Sessions :
          /\ Onward(t) /\ (status[t] = "none" => status'[t] = "none")
          /\ status'[t] = "running" => status[t] = "running"
    BY <1>1 DEF Onward, Begun, Set, IInv, TypedInv
  <1>4. Begun(s)'
    BY <1>1 DEF Begun, Set, IInv, TypedInv
  <1>5. QueueInv'
    BY <1>1, <1>3, <1>4, QueueGrows
  <1>6. RestTyped'
    BY <1>1 DEF AskInv, RestTyped, serverVars, history
  <1>7. \A t \in Sessions :
          /\ proc'[t] # "none" => status'[t] # "none"
          /\ proc'[t] # "none" \/ status'[t] = "running" => Guarded(t)
    BY <1>1, <1>3 DEF AskInv, GuardInv, Onward
  <1> QED BY <1>1, <1>2, <1>3, <1>5, <1>6, <1>7, NoCallMade, EndAsk
-----------------------------------------------------------------------------
(* Sessions are started, left and ended.                                   *)

LEMMA ScheduleAsk ==
  ASSUME IInv, AskInv, ScheduleNext \/ ScheduleEnd
  PROVE  AskInv'
  <1>1. UNCHANGED <<table, status, gate, ready, here, known, proc, serverVars, history>>
    BY DEF ScheduleNext, ScheduleEnd
  <1>2. Still
    BY <1>1 DEF Still, history
  <1>3. \A t \in Sessions : Onward(t)
    BY <1>1 DEF Onward, Begun
  <1>4. NewCalls
    <2>1. CASE ScheduleNext
      <3>1. PICK s \in Startable : Calls(Loop, "hold", s)
        BY <2>1 DEF ScheduleNext
      <3>2. /\ Loop \in Callers /\ Loop \notin Users /\ Loop # Screen
            /\ "hold" \in Acts /\ s \in Sessions
        BY UserAssumption DEF Callers, Acts, Startable
      <3>3. Fits(Loop, "hold", s)
        BY <1>1, <3>2 DEF Startable, Fits, Begun
      <3> QED BY <3>1, <3>2, <3>3, CallMade DEF IInv
    <2>2. CASE ScheduleEnd
      BY <2>2, NoCallMade DEF ScheduleEnd
    <2> QED BY <2>1, <2>2
  <1>5. QueueInv'
    <2>1. \E D \in SUBSET DOMAIN queue : queue' = Keep(queue, D)
      <3>1. CASE ScheduleNext
        BY <3>1 DEF ScheduleNext, QueueWithout
      <3>2. CASE ScheduleEnd
        BY <3>2 DEF ScheduleEnd
      <3> QED BY <3>1, <3>2
    <2> QED BY <1>3, <2>1, QueueShrinks
  <1>6. RestTyped'
    BY <1>1 DEF AskInv, RestTyped, serverVars, history
  <1> QED BY <1>1, <1>2, <1>3, <1>4, <1>5, <1>6, EndAsk DEF AskInv, GuardInv

LEMMA SpawnAsk ==
  ASSUME IInv, AskInv, Spawn
  PROVE  AskInv'
  <1>1. Loop \in Callers /\ call[Loop].act = "hold" /\ call[Loop].ans # "none"
    BY DEF Spawn, Answered, Callers
  <1>2. PICK s \in Sessions : s = call[Loop].of
    BY <1>1 DEF IInv, TypedInv, CallRecords
  <1>3. Guarded(s) /\ Begun(s)
    BY <1>1, <1>2 DEF AskInv, GuardInv, CallInv
  <1>4. /\ Started(s) /\ call' = Set(call, Loop, NoCall)
        /\ gate' = Set(gate, s, IF call[Loop].ans = "ok" THEN "hold" ELSE "off")
        /\ UNCHANGED <<table, here, queue, known, ready, serverVars, history>>
    BY <1>2 DEF Spawn
  <1>5. /\ \A t \in Sessions \ {s} : status'[t] = status[t] /\ proc'[t] = proc[t]
        /\ status'[s] \in {"running", "error"}
    BY <1>4 DEF Started, Set, IInv, TypedInv
  <1>6. Still
    BY <1>4 DEF Still, history
  <1>7. \A t \in Sessions : Onward(t) /\ (status[t] = "none" => status'[t] = "none")
    BY <1>3, <1>5 DEF Onward, Begun
  <1>8. RestTyped'
    BY <1>4 DEF AskInv, RestTyped, Set, serverVars, history
  <1>9. QueueInv'
    BY <1>4, <1>7, QueueStays
  <1>10. \A t \in Sessions :
           /\ proc'[t] # "none" => status'[t] # "none"
           /\ proc'[t] # "none" \/ status'[t] = "running" => Guarded(t)
    BY <1>3, <1>5 DEF AskInv, GuardInv
  <1>11. NewCalls
    BY <1>4, CallEnded DEF IInv
  <1> QED BY <1>4, <1>6, <1>7, <1>8, <1>9, <1>10, <1>11, EndAsk

\* A session ends, with its process and perhaps its gate and its place in the queue.
LEMMA StopAsk ==
  ASSUME IInv, AskInv, NewCalls, NEW s \in Sessions, Still, known' = known,
         \/ status' = status
         \/ status[s] # "none" /\ \E st \in {"finished", "error"} : status' = Set(status, s, st),
         \E p \in {"alive", "ended"} :
           proc' = proc \/ proc' = Set(proc, s, Ended(proc[s]))
                        \/ (proc[s] # "none" /\ proc' = Set(proc, s, p)),
         gate' = gate \/ gate' = Set(gate, s, "off"),
         queue' = queue \/ queue' = QueueWithout(s),
         ready' \in [Sessions -> SUBSET Users]
  PROVE  AskInv'
  <1>1. \A t \in Sessions :
          /\ Onward(t) /\ (status[t] = "none" => status'[t] = "none")
          /\ status'[t] = "running" => status[t] = "running"
    BY DEF Onward, Begun, Set, IInv, TypedInv
  <1>2. \A t \in Sessions : proc'[t] # "none" => proc[t] # "none"
    BY DEF Ended, Set, IInv, TypedInv
  <1>3. gate' \in [Sessions -> {"off", "hold", "released", "started"}]
    BY DEF AskInv, RestTyped, Set
  <1>4. RestTyped'
    BY <1>3 DEF AskInv, RestTyped, serverVars, Still
  <1>5. QueueInv'
    <2>1. CASE queue' = queue
      BY <1>1, <2>1, QueueStays
    <2>2. CASE queue' = QueueWithout(s)
      BY <1>1, <2>2, QueueShrinks DEF QueueWithout
    <2> QED BY <2>1, <2>2
  <1>6. \A t \in Sessions :
          /\ proc'[t] # "none" => status'[t] # "none"
          /\ proc'[t] # "none" \/ status'[t] = "running" => Guarded(t)
    BY <1>1, <1>2 DEF AskInv, GuardInv, Onward
  <1> QED BY <1>1, <1>4, <1>5, <1>6, EndAsk

LEMMA KillAsk ==
  ASSUME IInv, AskInv, NEW s \in Sessions, Kill(s), status[s] # "none", Still,
         UNCHANGED <<known, call, ready>>
  PROVE  AskInv'
  <1>1. /\ status' = status \/ status' = Set(status, s, "finished")
        /\ proc' = Set(proc, s, Ended(proc[s]))
        /\ gate' = gate \/ gate' = Set(gate, s, "off")
        /\ queue' = QueueWithout(s)
    BY DEF Kill
  <1> QED BY <1>1, NoCallMade, StopAsk DEF AskInv, RestTyped

LEMMA LeaveAsk ==
  ASSUME IInv, AskInv,
         \/ \E s \in Sessions : SessionLeave(s)
         \/ \E u \in Users : HandleLeave(u)
  PROVE  AskInv'
  <1>1. ASSUME NEW s \in Sessions, SessionLeave(s) PROVE AskInv'
    <2>1. Kill(s) /\ status[s] # "none" /\ UNCHANGED <<known, call, ready>>
      BY <1>1 DEF SessionLeave, Open
    <2>2. Still
      BY <1>1 DEF SessionLeave, Still, history
    <2> QED BY <2>1, <2>2, KillAsk
  <1>2. ASSUME NEW u \in Users, HandleLeave(u) PROVE AskInv'
    <2>1. PICK s \in Sessions : s = TableOf[u]
      BY UserAssumption
    <2>2. /\ status[s] # "none"
          /\ UNCHANGED <<table, known, call, serverVars, cleared, asked, late, lifted>>
      BY <1>2, <2>1 DEF HandleLeave, Open
    <2>3. CASE Kill(s) /\ UNCHANGED <<here, ready>>
      <3>1. Still
        BY <2>2, <2>3 DEF Still
      <3> QED BY <2>2, <2>3, <3>1, KillAsk
    <2>4. CASE /\ here' = Set(here, s, here[s] \ {u})
               /\ ready' = Set(ready, s, ready[s] \ {u}) \/ ready' = ready
               /\ UNCHANGED <<status, gate, proc, queue>>
      <3>1. ready' \in [Sessions -> SUBSET Users]
        BY <2>4 DEF Set, AskInv, RestTyped
      <3>2. \A t \in Sessions : here'[t] \subseteq here[t]
        BY <2>4 DEF Set, IInv, TypedInv
      <3>3. Still
        BY <2>2, <3>2 DEF Still
      <3> QED BY <2>2, <2>4, <3>1, <3>3, NoCallMade, StopAsk
    <2> QED BY <1>2, <2>1, <2>3, <2>4 DEF HandleLeave
  <1> QED BY <1>1, <1>2

LEMMA ReaperAsk ==
  ASSUME IInv, AskInv,
         \/ Expire
         \/ \E s \in Sessions : Reap(s) \/ Abandon(s) \/ ProcExits(s)
  PROVE  AskInv'
  <1>1. ready \in [Sessions -> SUBSET Users]
    BY DEF AskInv, RestTyped
  <1>2. CASE Expire
    <2>1. call[Loop].act = "drop" /\ Loop \in Callers
      BY <1>2 DEF Expire, Answered, Callers
    <2>2. PICK s \in Sessions : s = call[Loop].of
      BY <2>1 DEF IInv, TypedInv, CallRecords
    <2>3. status[s] # "none"
      BY <2>1, <2>2 DEF AskInv, CallInv, Begun
    <2>4. /\ status' = Set(status, s, "error") /\ proc' = Set(proc, s, Ended(proc[s]))
          /\ gate' = Set(gate, s, "off") /\ call' = Set(call, Loop, NoCall)
          /\ UNCHANGED <<table, here, known, queue, serverVars, ready, history>>
      BY <1>2, <2>2 DEF Expire
    <2>5. NewCalls
      BY <2>4, CallEnded DEF IInv
    <2>6. Still
      BY <2>4 DEF Still, history
    <2> QED BY <1>1, <2>3, <2>4, <2>5, <2>6, StopAsk
  <1>3. ASSUME NEW s \in Sessions, Reap(s) PROVE AskInv'
    <2>1. PICK st \in {"finished", "error"} : status' = Set(status, s, st)
      BY <1>3 DEF Reap
    <2>2. /\ status[s] # "none" /\ proc' = Set(proc, s, Ended(proc[s]))
          /\ UNCHANGED <<table, gate, here, known, queue, serverVars, ready, call, history>>
      BY <1>3 DEF Reap
    <2>3. Still
      BY <2>2 DEF Still, history
    <2> QED BY <1>1, <2>1, <2>2, <2>3, NoCallMade, StopAsk
  <1>4. ASSUME NEW s \in Sessions, Abandon(s) PROVE AskInv'
    <2>1. /\ status[s] # "none" /\ status' = Set(status, s, "finished")
          /\ queue' = QueueWithout(s)
          /\ UNCHANGED <<table, gate, here, known, proc, serverVars, ready, call, history>>
      BY <1>4 DEF Abandon
    <2>2. Still
      BY <2>1 DEF Still, history
    <2> QED BY <1>1, <2>1, <2>2, NoCallMade, StopAsk
  <1>5. ASSUME NEW s \in Sessions, ProcExits(s) PROVE AskInv'
    <2>1. /\ proc[s] # "none" /\ proc' = Set(proc, s, "ended")
          /\ UNCHANGED <<table, status, queue, gate, here, known, serverVars, ready, call, history>>
      BY <1>5 DEF ProcExits
    <2>2. Still
      BY <2>1 DEF Still, history
    <2> QED BY <1>1, <2>1, <2>2, NoCallMade, StopAsk
  <1> QED BY <1>2, <1>3, <1>4, <1>5
-----------------------------------------------------------------------------
LEMMA StepAsk == IInv /\ AskInv /\ [Next]_vars => AskInv'
  <1> SUFFICES ASSUME IInv, AskInv, [Next]_vars
               PROVE  AskInv'
    OBVIOUS
  <1>1. ASSUME UNCHANGED vars PROVE AskInv'
    <2>1. /\ UNCHANGED <<status, queue, proc, known, gate, ready>> /\ call' = call
          /\ Still
      BY <1>1 DEF vars, lobbyVars, history, Still
    <2> QED BY <2>1, NoCallMade, GateAsk DEF AskInv, RestTyped
  <1>2. ASSUME People PROVE AskInv'
    <2>1. Everybody = Users \cup AIs \cup Agents
      BY DEF Everybody
    <2> QED BY <1>2, <2>1, CreateAsk, StartRoomAsk, StartAsk, LeaveAsk, ReaperAsk, ConnectAsk,
               DisconnectAsk, JoinAsk, SetReadyAsk DEF People
  <1>3. ASSUME Scheduler PROVE AskInv'
    BY <1>3, LockAsk, ScheduleAsk, SpawnAsk DEF Scheduler
  <1>4. ASSUME \/ Expire
               \/ \E s \in Sessions : Reaper(s) \/ Respond(s) \/ ViewAsk(s) \/ ServeDrop(s)
               \/ ViewShown
        PROVE  AskInv'
    BY <1>4, LockAsk, ReaperAsk, RespondAsk, ViewAsks, DropAsk DEF Reaper
  <1>5. ASSUME \/ \E c \in Callers : Served(c)
               \/ \E u \in Users : Resumed(u)
        PROVE  AskInv'
    BY <1>5, ServedAsk, ResumedAsk
  <1> QED BY <1>1, <1>2, <1>3, <1>4, <1>5 DEF Next

\* A session's state, its calls, its place in the queue and its seats stay of
\* their types, and no session queues twice (_schedule, start_room, create_room).
THEOREM TypesHold == Spec => []TypeOK
  <1>1. IInv /\ AskInv => TypeOK
    <2> SUFFICES ASSUME IInv, AskInv PROVE TypeOK
      OBVIOUS
    <2>1. \A c \in Callers : call[c].act \in Acts \cup {"none"}
      BY DEF IInv, TypedInv, CallRecords
    <2> QED BY <2>1 DEF IInv, TypedInv, Statuses, AskInv, RestTyped, Everybody, QueueInv, TypeOK
  <1> QED BY InitInv, InitAsk, StepInv, StepAsk, <1>1, PTL DEF Spec

\* No game forms before a check that lets it go, and that check found ready all
\* of its people but those who came after it, whatever is pressed, left, joined
\* or answered late: if the room's hold was neither refused nor dropped and the
\* table is no direct one (set_ready, maybe_release, release, _spawn_agents).
THEOREM ReadinessTheorem == Spec => []NobodyUnasked
  <1>1. IInv /\ AskInv => NobodyUnasked
    BY DEF NobodyUnasked, AskInv, GuardInv, Cleared, AskedAll
  <1> QED BY InitInv, InitAsk, StepInv, StepAsk, <1>1, PTL DEF Spec
=============================================================================
