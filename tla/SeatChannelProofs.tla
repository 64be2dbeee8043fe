------------------------- MODULE SeatChannelProofs -------------------------
(***************************************************************************)
(* Proofs about SeatChannel: the types, that only a viewer's timer which   *)
(* outlived its request puts answers out of step, and that no connection   *)
(* is left without an owner.                                               *)
(***************************************************************************)
EXTENDS SeatChannel, SequenceTheorems, TLAPS

Plain(m) == m.kind \notin {"answer", "name"}
Bare(s) == \A i \in 1..Len(s) : Plain(s[i])

\* What TypeOK says, less the bound on what the readers hold.
GameTyped ==
  /\ game \in 1..Games /\ cur \in 0..Requests
  /\ pc \in {"idle", "answer", "name", "takeover", "over"}
  /\ pc \in {"idle", "over"} \/ cur \in 1..Requests
  /\ result \in Msgs
  /\ retry \in BOOLEAN /\ paused \in BOOLEAN /\ hasError \in BOOLEAN

SeatTyped ==
  /\ conn \in Conns /\ slot \in [1..Games -> SUBSET Conns]
  /\ link \in [Conns -> {"new", "up", "hungup", "closed"}]
  /\ reader \in [Conns -> {"none", "reading", "ended"}]

ClientTyped ==
  /\ screen \in [Conns -> Screens] /\ stray \subseteq Conns
  /\ \A c \in Conns \ Viewers : screen[c].timer = "off"

StreamTyped ==
  /\ chan \in [Conns -> Seq(Msgs)]
  /\ wire \in [Conns -> Seq(Msgs)]
  /\ inbox \in [Conns -> Seq(0..Requests)]

TypedInv == GameTyped /\ SeatTyped /\ StreamTyped /\ ClientTyped

CapInv == \A c \in Conns : Len(chan[c]) <= Cap

\* Nothing has come from a connection that is not read yet.
Fresh(c) ==
  /\ reader[c] = "none" /\ chan[c] = <<>> /\ wire[c] = <<>> /\ inbox[c] = <<>>
  /\ screen[c].timer = "off" /\ ~screen[c].told

\* Who may get the seat: the takeovers in the slots and the next games' own.
OwnersInv ==
  /\ reader[conn] # "none" /\ link[conn] # "new"
  /\ \A c \in Conns : link[c] = "new" => Fresh(c)
  /\ \A g \in 1..Games : g > game => link[FirstConn[g]] = "new"
  /\ \A g \in 1..Games : \A c \in slot[g] :
       Fresh(c) /\ link[c] # "new" /\ \A h \in 1..Games : c \in slot[h] => g = h
  /\ \A g \in 1..Games : \A c, d \in slot[g] : c = d
  /\ \A c \in Conns :
       link[c] \in {"up", "hungup"} => c = conn \/ \E g \in 1..Games : c \in slot[g]

\* The message after which the client has answered all.
Final == IF pc = "answer" THEN Msg("answer", cur) ELSE Msg("name", NAME)

\* What the seat's connection has brought and no receive has taken.
Pending == chan[conn] \o wire[conn]

\* Of a wait for f under request n: s answers nothing older, and f comes last.
Sound(s, n, f) ==
  \A i \in 1..Len(s) :
    /\ Plain(s[i]) \/ s[i] = Msg("answer", n) \/ s[i] = f
    /\ s[i] = f => \A j \in 1..Len(s) : i < j => Plain(s[j])

Has(s, f) == \E i \in 1..Len(s) : s[i] = f

\* The viewer has yet to answer the request it shows.
Live(c) == screen[c].timer # "off" /\ screen[c].task # 0

\* The packets of this wait the client may still answer.
Packets == IF pc = "answer" THEN {<<>>, <<cur>>}
           ELSE {<<>>, <<cur>>, <<NAME>>, <<cur, NAME>>}

AwaitInv ==
  pc \in {"answer", "name"} =>
    /\ ~hasError
    /\ Sound(Pending, cur, Final)
    /\ Has(Pending, Final) => inbox[conn] = <<>> /\ ~Live(conn)
    /\ inbox[conn] \in Packets
    /\ Live(conn) => screen[conn].task = cur /\ inbox[conn] \in {<<>>, <<NAME>>}

IdleInv == pc = "idle" /\ ~hasError => Bare(Pending) /\ inbox[conn] = <<>> /\ ~Live(conn)

FitsInv ==
  Returned => /\ result.kind \in {"answer", "timeout", "error"}
              /\ result.kind = "answer" => result.re = cur

ConnInv == TypedInv /\ CapInv /\ OwnersInv

Orderly == AwaitInv /\ IdleInv /\ FitsInv

AnswerInv == conn \in stray \/ Orderly
-----------------------------------------------------------------------------
(* Types.                                                                  *)

LEMMA MsgTypes ==
  /\ \A k \in Kinds : Msg(k, 0) \in Msgs
  /\ \A n \in 0..Requests : Msg("answer", n) \in Msgs
  /\ Msg("none", 0) \in Msgs /\ Msg("timeout", 0) \in Msgs
  /\ Msg("error", 0) \in Msgs /\ Msg("err", 0) \in Msgs /\ Msg("name", 0) \in Msgs
  /\ Tokenish \subseteq Msgs
  BY SizeAssumption DEF Msg, Msgs, Kinds, Tokenish, Pause, Resume

LEMMA BlankTyped ==
  Blank \in Screens /\ Blank.timer = "off" /\ Blank.task = 0 /\ ~Blank.told
  BY SizeAssumption DEF Blank, Screens

LEMMA TypedInit == Init => TypedInv
  <1> SUFFICES ASSUME Init PROVE TypedInv
    OBVIOUS
  <1> USE SizeAssumption, ConnAssumption
  <1>1. FirstConn[1] \in Conns
    OBVIOUS
  <1>2. GameTyped
    <2>1. 1 \in 1..Games /\ 0 \in 0..Requests
      OBVIOUS
    <2> QED BY <2>1, MsgTypes DEF Init, GameTyped
  <1>3. SeatTyped
    BY <1>1 DEF Init, SeatTyped
  <1>4. StreamTyped
    BY DEF Init, StreamTyped
  <1>5. ClientTyped
    BY BlankTyped, ViewerAssumption DEF Init, ClientTyped
  <1> QED BY <1>2, <1>3, <1>4, <1>5 DEF TypedInv

LEMMA FailTyped == GameTyped /\ Fail =>
  /\ pc' \in {"takeover", "idle"} /\ result' \in Msgs
  /\ retry' \in BOOLEAN /\ hasError' \in BOOLEAN /\ paused' \in BOOLEAN
  BY MsgTypes DEF GameTyped, Fail, Return

LEMMA WriteTyped ==
  ASSUME NEW c \in Conns, NEW n \in 0..Requests, SeatTyped, StreamTyped, Write(c, n)
  PROVE  inbox' \in [Conns -> Seq(0..Requests)]
  BY DEF SeatTyped, StreamTyped, Write

LEMMA AskNameTyped == TypedInv /\ AskName =>
  /\ pc' \in {"takeover", "idle", "name"} /\ result' \in Msgs
  /\ retry' \in BOOLEAN /\ hasError' \in BOOLEAN /\ paused' \in BOOLEAN
  /\ inbox' \in [Conns -> Seq(0..Requests)]
  <1> SUFFICES ASSUME TypedInv, AskName
               PROVE  /\ pc' \in {"takeover", "idle", "name"} /\ result' \in Msgs
                      /\ retry' \in BOOLEAN /\ hasError' \in BOOLEAN /\ paused' \in BOOLEAN
                      /\ inbox' \in [Conns -> Seq(0..Requests)]
    OBVIOUS
  <1>1. NAME \in 0..Requests
    BY SizeAssumption DEF NAME
  <1>2. CASE Write(conn, NAME) /\ Wait("name") /\ UNCHANGED <<result, retry, hasError>>
    <2>1. inbox' \in [Conns -> Seq(0..Requests)]
      BY <1>1, <1>2, WriteTyped DEF TypedInv, SeatTyped
    <2> QED BY <1>2, <2>1 DEF TypedInv, GameTyped, Wait
  <1>3. CASE Fail /\ UNCHANGED inbox
    BY <1>3, FailTyped DEF TypedInv, StreamTyped
  <1> QED BY <1>2, <1>3 DEF AskName

\* The steps of the game goroutine that leave the seat's connection alone.
LEMMA WaitStepsTyped ==
  ASSUME TypedInv, UNCHANGED <<game, conn, slot, link, reader, wire, clientVars>>,
         cur' \in 0..Requests, pc' \in {"idle", "over"} \/ cur' \in 1..Requests,
         pc' \in {"takeover", "idle", "name", "answer"}, result' \in Msgs,
         retry' \in BOOLEAN, hasError' \in BOOLEAN, paused' \in BOOLEAN,
         inbox' \in [Conns -> Seq(0..Requests)], chan' \in [Conns -> Seq(Msgs)]
  PROVE  TypedInv'
  BY DEF TypedInv, GameTyped, SeatTyped, StreamTyped, ClientTyped, clientVars

LEMMA RequestTyped == TypedInv /\ Request => TypedInv'
  <1> SUFFICES ASSUME TypedInv, Request PROVE TypedInv'
    OBVIOUS
  <1>1. cur + 1 \in 1..Requests /\ cur + 1 \in 0..Requests /\ cur' = cur + 1
    BY SizeAssumption DEF Request, TypedInv, GameTyped
  <1>2. CASE Write(conn, cur + 1) /\ Wait("answer") /\ UNCHANGED <<result, retry, hasError>>
    <2>1. inbox' \in [Conns -> Seq(0..Requests)]
      BY <1>1, <1>2, WriteTyped DEF TypedInv, SeatTyped
    <2> QED BY <1>1, <1>2, <2>1, WaitStepsTyped
            DEF Request, Wait, TypedInv, GameTyped, StreamTyped
  <1>3. CASE Fail /\ UNCHANGED inbox
    BY <1>1, <1>3, FailTyped, WaitStepsTyped DEF Request, TypedInv, StreamTyped
  <1> QED BY <1>2, <1>3 DEF Request

LEMMA TakeTyped ==
  ASSUME TypedInv, NEW l, Take(l)
  PROVE  chan' \in [Conns -> Seq(Msgs)] /\ Message \in Msgs
  BY DEF TypedInv, SeatTyped, StreamTyped, Take, Message

LEMMA WaitTyped == TypedInv /\ (Take1 \/ TimeOut) => TypedInv'
  <1> SUFFICES ASSUME TypedInv, Take1 \/ TimeOut PROVE TypedInv'
    OBVIOUS
  <1>1. \A l \in {"answer", "name"} : pc = l => cur \in 1..Requests /\ cur \in 0..Requests
    BY DEF TypedInv, GameTyped
  <1> USE DEF TypedInv
  <1>2. CASE TakeToken
    BY <1>1, <1>2, TakeTyped, WaitStepsTyped DEF TakeToken, Take, GameTyped, StreamTyped
  <1>3. CASE TakeAnswer
    BY <1>1, <1>3, TakeTyped, WaitStepsTyped DEF TakeAnswer, Take, Return, GameTyped, StreamTyped
  <1>4. CASE TakeError
    <2>1. CASE Fail /\ UNCHANGED inbox
      BY <1>1, <1>4, <2>1, TakeTyped, FailTyped, WaitStepsTyped DEF TakeError, Take, StreamTyped
    <2>2. CASE AskName
      BY <1>1, <1>4, <2>2, TakeTyped, AskNameTyped, WaitStepsTyped DEF TakeError, Take
    <2> QED BY <1>4, <2>1, <2>2 DEF TakeError
  <1>5. CASE TakeName
    <2>1. CASE Fail
      BY <1>1, <1>5, <2>1, TakeTyped, FailTyped, WaitStepsTyped DEF TakeName, Take, StreamTyped
    <2>2. CASE Return(Msg("timeout", 0)) /\ UNCHANGED <<paused, hasError>>
      BY <1>1, <1>5, <2>2, TakeTyped, WaitStepsTyped, MsgTypes
         DEF TakeName, Take, Return, GameTyped, StreamTyped
    <2> QED BY <1>5, <2>1, <2>2 DEF TakeName
  <1>6. CASE TimeOut
    BY <1>1, <1>6, FailTyped, AskNameTyped, WaitStepsTyped DEF TimeOut, StreamTyped
  <1> QED BY <1>2, <1>3, <1>4, <1>5, <1>6 DEF Take1

LEMMA SwitchTyped ==
  ASSUME SeatTyped, StreamTyped, ClientTyped, NEW c \in Conns,
         NEW packets \in Seq(0..Requests),
         Switch(c, packets)
  PROVE  /\ conn' \in Conns
         /\ link' \in [Conns -> {"new", "up", "hungup", "closed"}]
         /\ reader' \in [Conns -> {"none", "reading", "ended"}]
         /\ StreamTyped' /\ ClientTyped'
  <1>1. conn' \in Conns
    BY DEF Switch
  <1>2. link' \in [Conns -> {"new", "up", "hungup", "closed"}]
    BY DEF SeatTyped, Switch, Closed
  <1>3. reader' \in [Conns -> {"none", "reading", "ended"}]
    BY DEF SeatTyped, Switch
  <1>4. ClientTyped'
    BY BlankTyped DEF SeatTyped, ClientTyped, Switch
  <1>5. StreamTyped'
    BY EmptySeq DEF StreamTyped, Switch
  <1> QED BY <1>1, <1>2, <1>3, <1>4, <1>5

LEMMA TakeOverTyped == TypedInv /\ TakeOver => TypedInv'
  <1> SUFFICES ASSUME TypedInv, TakeOver PROVE TypedInv'
    OBVIOUS
  <1>1. PICK c \in slot[game] :
          /\ slot' = [slot EXCEPT ![game] = {}]
          /\ Switch(c, IF link[c] = "up" THEN <<cur>> ELSE <<>>)
    BY DEF TakeOver
  <1>2. c \in Conns
    BY DEF TypedInv, GameTyped, SeatTyped
  <1>3. (IF link[c] = "up" THEN <<cur>> ELSE <<>>) \in Seq(0..Requests)
    <2>1. cur \in 0..Requests
      BY DEF TypedInv, GameTyped
    <2>2. <<cur>> \in Seq(0..Requests)
      BY <2>1
    <2>3. <<>> \in Seq(0..Requests)
      BY EmptySeq
    <2> QED BY <2>2, <2>3
  <1>4. GameTyped'
    BY MsgTypes DEF TakeOver, Wait, Return, TypedInv, GameTyped
  <1>5. slot' \in [1..Games -> SUBSET Conns]
    BY <1>1 DEF TypedInv, SeatTyped
  <1> QED BY <1>1, <1>2, <1>3, <1>4, <1>5, SwitchTyped DEF TypedInv, SeatTyped

LEMMA EndGameTyped == TypedInv /\ EndGame => TypedInv'
  <1> SUFFICES ASSUME TypedInv, EndGame PROVE TypedInv'
    OBVIOUS
  <1>1. CASE game = Games
    BY <1>1, MsgTypes
       DEF EndGame, TypedInv, GameTyped, SeatTyped, StreamTyped, ClientTyped, clientVars
  <1>2. CASE game # Games
    <2>1. game + 1 \in 1..Games
      BY <1>2, SizeAssumption DEF TypedInv, GameTyped
    <2>2. FirstConn[game + 1] \in Conns /\ <<>> \in Seq(0..Requests)
      BY <2>1, ConnAssumption
    <2>3. Switch(FirstConn[game + 1], <<>>)
      BY <1>2 DEF EndGame
    <2>4. GameTyped' /\ slot' \in [1..Games -> SUBSET Conns]
      BY <1>2, <2>1, MsgTypes DEF EndGame, TypedInv, GameTyped, SeatTyped
    <2> QED BY <2>2, <2>3, <2>4, SwitchTyped DEF TypedInv, SeatTyped
  <1> QED BY <1>1, <1>2

\* What a move of the client leaves alone, and what it adds to its stream.
LEMMA ClientFrame ==
  ASSUME NEW c \in Conns, Client(c)
  PROVE  /\ UNCHANGED <<gameVars, seatVars, link, reader, chan>>
         /\ link[c] = "up"
         /\ stray' = stray \/ stray' = stray \cup {c}
  BY DEF Client, Show, Speak, PauseHere, ResumeHere, Reply, clientVars

LEMMA ClientWire ==
  ASSUME StreamTyped, ClientTyped, NEW c \in Conns, Client(c)
  PROVE  wire' = wire \/ \E m \in Msgs : Send(c, m)
  <1>1. Pause \in Msgs /\ Resume \in Msgs /\ Msg("name", 0) \in Msgs
    BY MsgTypes DEF Pause, Resume, Tokenish
  <1>2. CASE Show(c)
    BY <1>1, <1>2 DEF Show, ShowName, ShowRequest
  <1>3. CASE Speak(c)
    <2>1. screen[c].task \in 0..Requests
      BY DEF ClientTyped, Screens
    <2> QED BY <1>3, <2>1, MsgTypes DEF Speak
  <1>4. CASE PauseHere(c)
    BY <1>1, <1>4 DEF PauseHere
  <1>5. CASE ResumeHere(c)
    BY <1>1, <1>5 DEF ResumeHere
  <1>6. CASE Reply(c)
    <2>1. inbox[c] # <<>> /\ inbox[c] \in Seq(0..Requests)
      BY <1>6 DEF Reply, StreamTyped
    <2>2. Head(inbox[c]) \in 0..Requests
      BY <2>1, HeadTailProperties
    <2> QED BY <1>6, <2>2, MsgTypes DEF Reply
  <1> QED BY <1>2, <1>3, <1>4, <1>5, <1>6 DEF Client

LEMMA ClientInbox ==
  ASSUME NEW c \in Conns, Client(c)
  PROVE  inbox' = inbox \/ (inbox[c] # <<>> /\ inbox' = [inbox EXCEPT ![c] = Tail(@)])
  BY DEF Client, Show, Speak, PauseHere, ResumeHere, Reply

LEMMA ClientScreen ==
  ASSUME StreamTyped, ClientTyped, NEW c \in Conns, Client(c)
  PROVE  ClientTyped' /\ \A d \in Conns \ {c} : screen'[d] = screen[d]
  <1>1. screen \in [Conns -> Screens] /\ screen[c] \in Screens
    BY DEF ClientTyped
  <1>2. /\ screen[c].timer \in {"off", "on", "held"} /\ screen[c].task \in 0..Requests
        /\ screen[c].pauses \in 0..Pauses /\ 0 \in 0..Requests
    BY <1>1, SizeAssumption DEF Screens
  <1>3. screen[c].pauses < Pauses => screen[c].pauses + 1 \in 0..Pauses
    BY <1>2, SizeAssumption
  <1>4. inbox[c] # <<>> => Head(inbox[c]) \in 0..Requests
    BY HeadTailProperties DEF StreamTyped
  <1>5. \/ screen' = screen
        \/ \E z \in Screens :
             /\ screen' = [screen EXCEPT ![c] = z]
             /\ c \notin Viewers => z.timer = "off"
    <2>1. CASE Show(c)
      <3>1. ASSUME NEW t \in {"off", "on", "held"}, NEW n \in 0..Requests, NEW b \in BOOLEAN
            PROVE  [screen[c] EXCEPT !.timer = t, !.task = n, !.told = b] \in Screens
        BY <1>1 DEF Screens
      <3>2. screen[c].told \in BOOLEAN /\ c \in Viewers
        BY <1>1, <2>1 DEF Screens, Show
      <3>3. CASE ShowName(c)
        <4> DEFINE t == IF screen[c].timer = "on" THEN "off" ELSE screen[c].timer
        <4>1. screen' = [screen EXCEPT ![c] =
                           [screen[c] EXCEPT !.timer = t, !.task = 0, !.told = screen[c].told]]
          BY <1>1, <3>3 DEF ShowName, Screens
        <4>2. t \in {"off", "on", "held"}
          BY <1>2
        <4> HIDE DEF t
        <4> QED BY <1>2, <3>1, <3>2, <4>1, <4>2
      <3>4. CASE ShowRequest(c)
        <4> DEFINE n == Head(inbox[c])
        <4>1. \/ screen' = [screen EXCEPT ![c] =
                   [screen[c] EXCEPT !.timer = "on", !.task = n, !.told = screen[c].told]]
              \/ screen' = [screen EXCEPT ![c] =
                   [screen[c] EXCEPT !.timer = "held", !.task = n, !.told = TRUE]]
          BY <1>1, <3>4 DEF ShowRequest, Screens
        <4>2. n \in 0..Requests
          BY <1>4, <2>1 DEF Show
        <4> HIDE DEF n
        <4>3. \A b \in BOOLEAN, t \in {"on", "held"} :
                [screen[c] EXCEPT !.timer = t, !.task = n, !.told = b] \in Screens
          BY <3>1, <4>2
        <4>4. /\ [screen[c] EXCEPT !.timer = "on", !.task = n, !.told = screen[c].told] \in Screens
              /\ [screen[c] EXCEPT !.timer = "held", !.task = n, !.told = TRUE] \in Screens
          BY <3>2, <4>3
        <4> QED BY <3>2, <4>1, <4>4
      <3> QED BY <2>1, <3>3, <3>4 DEF Show
    <2>2. CASE Speak(c)
      <3>1. screen' = [screen EXCEPT ![c] = [screen[c] EXCEPT !.timer = "off", !.task = 0]]
        BY <1>1, <2>2 DEF Speak, Screens
      <3>2. /\ [screen[c] EXCEPT !.timer = "off", !.task = 0] \in Screens
            /\ [screen[c] EXCEPT !.timer = "off", !.task = 0].timer = "off"
        BY <1>1, <1>2 DEF Screens
      <3> QED BY <3>1, <3>2
    <2>3. CASE PauseHere(c)
      <3> DEFINE k == screen[c].pauses + 1
      <3>1. k \in 0..Pauses /\ c \in Viewers
        BY <1>3, <2>3 DEF PauseHere
      <3>2. \/ screen' = [screen EXCEPT ![c] =
                 [screen[c] EXCEPT !.paused = TRUE, !.pauses = k,
                                   !.timer = "held", !.told = TRUE]]
            \/ screen' = [screen EXCEPT ![c] =
                 [screen[c] EXCEPT !.paused = TRUE, !.pauses = k]]
        BY <1>1, <2>3 DEF PauseHere, Screens
      <3> HIDE DEF k
      <3>3. /\ [screen[c] EXCEPT !.paused = TRUE, !.pauses = k,
                                 !.timer = "held", !.told = TRUE] \in Screens
            /\ [screen[c] EXCEPT !.paused = TRUE, !.pauses = k] \in Screens
        BY <1>1, <3>1 DEF Screens
      <3> QED BY <3>1, <3>2, <3>3
    <2>4. CASE ResumeHere(c)
      <3> DEFINE t == IF screen[c].timer = "held" THEN "on" ELSE screen[c].timer
      <3>1. screen' = [screen EXCEPT ![c] =
                         [screen[c] EXCEPT !.paused = FALSE, !.told = FALSE, !.timer = t]]
        BY <1>1, <2>4 DEF ResumeHere, Screens
      <3>2. t \in {"off", "on", "held"} /\ (c \notin Viewers => t = "off")
        BY <1>2 DEF ClientTyped
      <3> HIDE DEF t
      <3>3. [screen[c] EXCEPT !.paused = FALSE, !.told = FALSE, !.timer = t] \in Screens
        BY <1>1, <3>2 DEF Screens
      <3>4. [screen[c] EXCEPT !.paused = FALSE, !.told = FALSE, !.timer = t].timer = t
        BY <1>1 DEF Screens
      <3> QED BY <3>1, <3>2, <3>3, <3>4
    <2>5. CASE Reply(c)
      BY <2>5 DEF Reply, clientVars
    <2> QED BY <2>1, <2>2, <2>3, <2>4, <2>5 DEF Client
  <1>6. stray' \subseteq Conns
    BY ClientFrame DEF ClientTyped
  <1> QED BY <1>1, <1>5, <1>6 DEF ClientTyped

LEMMA ClientFresh ==
  ASSUME StreamTyped, ClientTyped, NEW c \in Conns, Client(c), NEW d \in Conns, Fresh(d)
  PROVE  Fresh(d)'
  <1>1. CASE c # d
    <2>1. screen'[d] = screen[d]
      BY <1>1, ClientScreen
    <2>2. wire'[d] = wire[d] /\ inbox'[d] = inbox[d]
      BY <1>1, ClientWire, ClientInbox DEF StreamTyped, Send
    <2> QED BY <2>1, <2>2, ClientFrame DEF Fresh
  <1>2. CASE c = d
    <2>1. PauseHere(c) \/ ResumeHere(c)
      BY <1>2 DEF Client, Show, Speak, Reply, Fresh
    <2>2. screen \in [Conns -> Screens] /\ screen[c].timer = "off" /\ ~screen[c].told
      BY <1>2 DEF ClientTyped, Fresh
    <2>3. screen'[c].timer = "off" /\ ~screen'[c].told /\ wire' = wire /\ inbox' = inbox
      BY <2>1, <2>2 DEF PauseHere, ResumeHere, Screens
    <2> QED BY <1>2, <2>3, ClientFrame DEF Fresh
  <1> QED BY <1>1, <1>2

LEMMA ClientMovesTyped ==
  ASSUME TypedInv, NEW c \in Conns, Client(c)
  PROVE  TypedInv'
  <1>1. GameTyped' /\ SeatTyped'
    BY ClientFrame DEF TypedInv, GameTyped, SeatTyped, gameVars, seatVars
  <1>2. wire' \in [Conns -> Seq(Msgs)]
    <2>1. CASE wire' = wire
      BY <2>1 DEF TypedInv, StreamTyped
    <2>2. ASSUME NEW m \in Msgs, Send(c, m)
          PROVE  wire' \in [Conns -> Seq(Msgs)]
      <3>1. Append(wire[c], m) \in Seq(Msgs)
        BY AppendProperties DEF TypedInv, StreamTyped
      <3> QED BY <2>2, <3>1 DEF Send, TypedInv, StreamTyped
    <2> QED BY <2>1, <2>2, ClientWire DEF TypedInv
  <1>3. inbox' \in [Conns -> Seq(0..Requests)]
    <2>1. inbox[c] # <<>> => Tail(inbox[c]) \in Seq(0..Requests)
      BY HeadTailProperties DEF TypedInv, StreamTyped
    <2> QED BY <2>1, ClientInbox DEF TypedInv, StreamTyped
  <1>4. chan' = chan
    BY ClientFrame
  <1> QED BY <1>1, <1>2, <1>3, <1>4, ClientScreen DEF TypedInv, StreamTyped

LEMMA NetTyped ==
  ASSUME TypedInv, NEW c \in Conns, Read(c) \/ HangUp(c) \/ Offer(c)
  PROVE  TypedInv'
  <1>1. GameTyped'
    BY DEF TypedInv, GameTyped, Read, HangUp, Offer, gameVars, seatVars
  <1>2. CASE Read(c)
    <2>1. SeatTyped'
      BY <1>2 DEF TypedInv, SeatTyped, Read, ReadMessage, ReadError, seatVars
    <2>2. chan[c] \in Seq(Msgs) /\ wire[c] \in Seq(Msgs)
      BY DEF TypedInv, StreamTyped
    <2>5. ClientTyped'
      BY <1>2 DEF TypedInv, ClientTyped, Read, clientVars
    <2>3. CASE ReadMessage(c)
      <3>1. Head(wire[c]) \in Msgs /\ Tail(wire[c]) \in Seq(Msgs)
        BY <2>2, <2>3, HeadTailProperties DEF ReadMessage
      <3>2. Append(chan[c], Head(wire[c])) \in Seq(Msgs)
        BY <2>2, <3>1, AppendProperties
      <3> QED BY <1>1, <1>2, <2>1, <2>3, <2>5, <3>1, <3>2
              DEF TypedInv, StreamTyped, Read, ReadMessage
    <2>4. CASE ReadError(c)
      <3>1. Append(chan[c], Msg("err", 0)) \in Seq(Msgs)
        BY <2>2, MsgTypes, AppendProperties
      <3> QED BY <1>1, <1>2, <2>1, <2>4, <2>5, <3>1
              DEF TypedInv, StreamTyped, Read, ReadError
    <2> QED BY <1>2, <2>3, <2>4 DEF Read
  <1>5. CASE HangUp(c)
    <2>1. inbox' \in [Conns -> Seq(0..Requests)]
      BY <1>5, EmptySeq DEF TypedInv, StreamTyped, HangUp
    <2>2. ClientTyped'
      BY <1>5, BlankTyped DEF TypedInv, ClientTyped, HangUp
    <2> QED BY <1>1, <1>5, <2>1, <2>2 DEF TypedInv, SeatTyped, StreamTyped, HangUp, seatVars
  <1>6. CASE Offer(c)
    <2>1. slot' \in [1..Games -> SUBSET Conns]
      BY <1>6 DEF TypedInv, SeatTyped, Offer
    <2>2. link' \in [Conns -> {"new", "up", "hungup", "closed"}]
      BY <1>6 DEF TypedInv, SeatTyped, Offer
    <2>3. ClientTyped'
      BY <1>6 DEF TypedInv, ClientTyped, Offer, clientVars
    <2> QED BY <1>1, <1>6, <2>1, <2>2, <2>3 DEF TypedInv, SeatTyped, StreamTyped, Offer
  <1> QED BY <1>2, <1>5, <1>6

LEMMA StepTyped == TypedInv /\ [Next]_vars => TypedInv'
  <1> SUFFICES ASSUME TypedInv, [Next]_vars
               PROVE  TypedInv'
    OBVIOUS
  <1>1. CASE UNCHANGED vars
    BY <1>1 DEF TypedInv, GameTyped, SeatTyped, StreamTyped, ClientTyped,
                vars, gameVars, seatVars, netVars, lineVars, clientVars
  <1>2. CASE Notify \/ PauseEnds \/ GiveUp
    <2>1. GameTyped'
      BY <1>2, MsgTypes DEF Notify, PauseEnds, GiveUp, Return, TypedInv, GameTyped, gameVars, seatVars
    <2>2. SeatTyped' /\ StreamTyped' /\ ClientTyped'
      BY <1>2 DEF Notify, PauseEnds, GiveUp, TypedInv, SeatTyped, StreamTyped, ClientTyped,
                  seatVars, netVars, lineVars, clientVars
    <2> QED BY <2>1, <2>2 DEF TypedInv
  <1> QED BY <1>1, <1>2, RequestTyped, WaitTyped, TakeOverTyped, EndGameTyped, NetTyped,
             ClientMovesTyped
          DEF Next, GameStep

LEMMA CapStep == TypedInv /\ CapInv /\ [Next]_vars => CapInv'
  <1> SUFFICES ASSUME TypedInv, CapInv, [Next]_vars, NEW d \in Conns
               PROVE  Len(chan'[d]) <= Cap
    BY DEF CapInv
  <1>1. Len(chan[d]) <= Cap /\ chan[d] \in Seq(Msgs) /\ chan \in [Conns -> Seq(Msgs)]
    BY DEF CapInv, TypedInv, StreamTyped
  <1>2. CASE chan' = chan
    BY <1>1, <1>2
  <1>3. CASE \E l \in {"answer", "name"} : Take(l)
    <2>1. chan[conn] # <<>> /\ chan' = [chan EXCEPT ![conn] = Tail(@)]
      BY <1>3 DEF Take
    <2>2. CASE d = conn
      <3>1. chan'[d] = Tail(chan[d]) /\ chan[d] # <<>>
        BY <1>1, <2>1, <2>2
      <3>2. Len(Tail(chan[d])) = Len(chan[d]) - 1 /\ Len(chan[d]) \in Nat
        BY <1>1, <3>1, HeadTailProperties, LenProperties
      <3> QED BY <1>1, <3>1, <3>2, SizeAssumption
    <2>3. CASE d # conn
      BY <1>1, <2>1, <2>3
    <2> QED BY <2>2, <2>3
  <1>4. ASSUME NEW c \in Conns, Read(c)
        PROVE  Len(chan'[d]) <= Cap
    <2>1. PICK m \in Msgs : chan' = [chan EXCEPT ![c] = Append(@, m)]
      <3>1. wire[c] # <<>> => Head(wire[c]) \in Msgs
        BY HeadTailProperties DEF TypedInv, StreamTyped
      <3> QED BY <1>4, <3>1, MsgTypes DEF Read, ReadMessage, ReadError
    <2>2. CASE d = c
      <3>1. chan'[d] = Append(chan[d], m) /\ Len(chan[d]) < Cap
        BY <1>1, <1>4, <2>1, <2>2, LenProperties, SizeAssumption DEF Read, Full
      <3>2. Len(chan'[d]) = Len(chan[d]) + 1 /\ Len(chan[d]) \in Nat
        BY <1>1, <3>1, AppendProperties, LenProperties
      <3> QED BY <3>1, <3>2, SizeAssumption
    <2>3. CASE d # c
      BY <1>1, <2>1, <2>3
    <2> QED BY <2>2, <2>3
  <1>5. ASSUME NEW c, NEW s, Switch(c, s)
        PROVE  Len(chan'[d]) <= Cap
    <2>1. chan' = [chan EXCEPT ![conn] = <<>>]
      BY <1>5 DEF Switch
    <2>2. Len(<<>>) <= Cap
      BY SizeAssumption
    <2> QED BY <1>1, <2>1, <2>2
  <1>6. CASE TakeOver \/ EndGame
    BY <1>2, <1>5, <1>6 DEF TakeOver, EndGame
  <1>7. CASE Take1 \/ TimeOut
    BY <1>2, <1>3, <1>7 DEF Take1, TakeToken, TakeAnswer, TakeError, TakeName, TimeOut
  <1>8. CASE Request \/ Notify \/ PauseEnds \/ GiveUp \/ UNCHANGED vars
    BY <1>2, <1>8 DEF Request, Notify, PauseEnds, GiveUp, vars, netVars, lineVars
  <1>9. ASSUME NEW c \in Conns, Client(c) \/ HangUp(c) \/ Offer(c)
        PROVE  Len(chan'[d]) <= Cap
    BY <1>2, <1>9, ClientFrame DEF HangUp, Offer
  <1> QED BY <1>4, <1>6, <1>7, <1>8, <1>9 DEF Next, GameStep
-----------------------------------------------------------------------------
(* The connections and their owners.                                       *)

LEMMA OwnersInit == Init => OwnersInv
  <1> SUFFICES ASSUME Init PROVE OwnersInv
    OBVIOUS
  <1>0. \A c \in Conns : screen[c].timer = "off" /\ ~screen[c].told
    BY BlankTyped DEF Init
  <1>1. /\ \A c \in Conns : link[c] = IF c = FirstConn[1] THEN "up" ELSE "new"
        /\ \A c \in Conns : reader[c] = IF c = FirstConn[1] THEN "reading" ELSE "none"
        /\ \A c \in Conns : chan[c] = <<>> /\ wire[c] = <<>> /\ inbox[c] = <<>>
        /\ \A g \in 1..Games : slot[g] = {}
        /\ conn = FirstConn[1] /\ game = 1
    BY DEF Init
  <1>2. 1 \in 1..Games /\ \A g \in 1..Games : FirstConn[g] \in Conns
    BY SizeAssumption, ConnAssumption
  <1>3. \A g \in 1..Games : g > game => link[FirstConn[g]] = "new"
    BY <1>1, <1>2, ConnAssumption
  <1> QED BY <1>0, <1>1, <1>2, <1>3 DEF OwnersInv, Fresh

\* No connection changes hands, and none that is fresh is used.
LEMMA OwnersFrame ==
  ASSUME TypedInv, OwnersInv, conn' = conn, slot' = slot, game' = game,
         reader[conn] # "none" => reader'[conn] # "none",
         \A c \in Conns : /\ Fresh(c) => Fresh(c)'
                          /\ link'[c] = "new" <=> link[c] = "new"
                          /\ link'[c] \in {"up", "hungup"} => link[c] \in {"up", "hungup"}
  PROVE  OwnersInv'
  <1>1. conn \in Conns /\ \A g \in 1..Games : FirstConn[g] \in Conns /\ slot[g] \subseteq Conns
    BY ConnAssumption DEF TypedInv, SeatTyped
  <1>2. reader'[conn'] # "none" /\ link'[conn'] # "new"
    BY <1>1 DEF OwnersInv
  <1>3. \A c \in Conns : link'[c] = "new" => Fresh(c)'
    BY DEF OwnersInv
  <1>4. \A g \in 1..Games : g > game' => link'[FirstConn[g]] = "new"
    BY <1>1 DEF OwnersInv
  <1>5. ASSUME NEW g \in 1..Games, NEW c \in slot'[g]
        PROVE  Fresh(c)' /\ link'[c] # "new" /\ \A h \in 1..Games : c \in slot'[h] => g = h
    BY <1>1, <1>5 DEF OwnersInv
  <1>6. \A g \in 1..Games : \A c, d \in slot'[g] : c = d
    BY DEF OwnersInv
  <1>7. \A c \in Conns :
          link'[c] \in {"up", "hungup"} => c = conn' \/ \E g \in 1..Games : c \in slot'[g]
    BY DEF OwnersInv
  <1> QED BY <1>2, <1>3, <1>4, <1>5, <1>6, <1>7 DEF OwnersInv

LEMMA SwitchOwners ==
  ASSUME TypedInv, OwnersInv, NEW c \in Conns, Fresh(c), NEW packets, Switch(c, packets)
  PROVE  /\ c # conn /\ conn' = c /\ link'[conn] = "closed"
         /\ link'[c] = IF link[c] = "new" THEN "up" ELSE link[c]
         /\ reader'[c] = "reading"
         /\ \A d \in Conns \ {conn, c} :
              link'[d] = link[d] /\ (Fresh(d) => Fresh(d)')
  <1>1. c # conn /\ conn \in Conns
    BY DEF OwnersInv, Fresh, TypedInv, SeatTyped
  <1>2. conn' = c /\ link'[conn] = "closed" /\ reader'[c] = "reading"
    BY <1>1 DEF Switch, TypedInv, SeatTyped, Closed
  <1>3. link'[c] = IF link[c] = "new" THEN "up" ELSE link[c]
    BY <1>1 DEF Switch, TypedInv, SeatTyped, Closed
  <1>4. ASSUME NEW d \in Conns \ {conn, c}
        PROVE  link'[d] = link[d] /\ (Fresh(d) => Fresh(d)')
    BY <1>1 DEF Switch, TypedInv, SeatTyped, StreamTyped, ClientTyped, Fresh
  <1> QED BY <1>1, <1>2, <1>3, <1>4

LEMMA OwnersTakeOver == TypedInv /\ OwnersInv /\ TakeOver => OwnersInv'
  <1> SUFFICES ASSUME TypedInv, OwnersInv, TakeOver PROVE OwnersInv'
    OBVIOUS
  <1>1. game \in 1..Games /\ game' = game
    BY DEF TypedInv, GameTyped, TakeOver
  <1>2. PICK c \in slot[game] :
          /\ slot' = [slot EXCEPT ![game] = {}]
          /\ Switch(c, IF link[c] = "up" THEN <<cur>> ELSE <<>>)
    BY DEF TakeOver
  <1>3. /\ c \in Conns /\ Fresh(c) /\ link[c] # "new"
        /\ \A h \in 1..Games : c \in slot[h] => game = h
        /\ \A d \in slot[game] : d = c
    BY <1>1 DEF OwnersInv, TypedInv, SeatTyped
  <1>4. /\ c # conn /\ conn' = c /\ link'[conn] = "closed" /\ link'[c] = link[c]
        /\ reader'[c] = "reading"
        /\ \A d \in Conns \ {conn, c} : link'[d] = link[d] /\ (Fresh(d) => Fresh(d)')
    BY <1>2, <1>3, SwitchOwners
  <1>5. /\ \A g \in 1..Games : FirstConn[g] \in Conns /\ slot[g] \subseteq Conns
        /\ \A g \in 1..Games : slot'[g] = IF g = game THEN {} ELSE slot[g]
    BY <1>1, <1>2, ConnAssumption DEF TypedInv, SeatTyped
  <1>6. \A d \in Conns : link'[d] = "new" => Fresh(d)'
    BY <1>3, <1>4 DEF OwnersInv
  <1>7. \A g \in 1..Games : g > game' => link'[FirstConn[g]] = "new"
    BY <1>1, <1>3, <1>4, <1>5 DEF OwnersInv
  <1>8. ASSUME NEW g \in 1..Games, NEW d \in slot'[g]
        PROVE  Fresh(d)' /\ link'[d] # "new" /\ \A h \in 1..Games : d \in slot'[h] => g = h
    <2>1. g # game /\ d \in slot[g] /\ d \in Conns
      BY <1>5
    <2>2. Fresh(d) /\ link[d] # "new" /\ \A h \in 1..Games : d \in slot[h] => g = h
      BY <2>1 DEF OwnersInv
    <2>3. d # c /\ d # conn
      BY <1>1, <1>2, <2>1, <2>2 DEF OwnersInv, Fresh
    <2> QED BY <1>4, <1>5, <2>1, <2>2, <2>3
  <1>9. \A g \in 1..Games : \A d, e \in slot'[g] : d = e
    BY <1>5 DEF OwnersInv
  <1>10. ASSUME NEW d \in Conns, link'[d] \in {"up", "hungup"}, d # conn'
         PROVE  \E g \in 1..Games : d \in slot'[g]
    <2>1. d # conn /\ d # c
      BY <1>4, <1>10
    <2>2. PICK g \in 1..Games : d \in slot[g]
      BY <1>4, <1>10, <2>1 DEF OwnersInv
    <2>3. g # game
      BY <1>3, <2>1, <2>2
    <2> QED BY <1>5, <2>2, <2>3
  <1> QED BY <1>3, <1>4, <1>6, <1>7, <1>8, <1>9, <1>10 DEF OwnersInv

LEMMA OwnersEndGame == TypedInv /\ OwnersInv /\ EndGame => OwnersInv'
  <1> SUFFICES ASSUME TypedInv, OwnersInv, EndGame PROVE OwnersInv'
    OBVIOUS
  <1>1. game \in 1..Games /\ conn \in Conns /\ slot' = slot
    BY DEF TypedInv, GameTyped, SeatTyped, EndGame
  <1>2. CASE game = Games
    <2>1. \A c \in Conns : link'[c] = IF c = conn THEN "closed" ELSE link[c]
      BY <1>1, <1>2 DEF EndGame, TypedInv, SeatTyped
    <2>2. \A c \in Conns : Fresh(c) => Fresh(c)'
      BY <1>2 DEF EndGame, Fresh, clientVars
    <2>3. link[conn] # "new"
      BY DEF OwnersInv
    <2>4. conn' = conn /\ game' = game /\ reader' = reader
      BY <1>2 DEF EndGame
    <2> QED BY <1>1, <2>1, <2>2, <2>3, <2>4, OwnersFrame
  <1>3. CASE game # Games
    <2> DEFINE c == FirstConn[game + 1]
    <2>1. game + 1 \in 1..Games /\ game' = game + 1
      BY <1>1, <1>3, SizeAssumption DEF EndGame
    <2>2. c \in Conns /\ Fresh(c) /\ link[c] = "new" /\ Switch(c, <<>>)
      BY <1>1, <1>3, <2>1, ConnAssumption DEF EndGame, OwnersInv
    <2>3. /\ c # conn /\ conn' = c /\ link'[conn] = "closed" /\ link'[c] = "up"
          /\ reader'[c] = "reading"
          /\ \A d \in Conns \ {conn, c} : link'[d] = link[d] /\ (Fresh(d) => Fresh(d)')
      BY <2>2, SwitchOwners
    <2>4. \A g \in 1..Games : FirstConn[g] \in Conns /\ slot[g] \subseteq Conns
      BY ConnAssumption DEF TypedInv, SeatTyped
    <2> HIDE DEF c
    <2>5. \A d \in Conns : link'[d] = "new" => Fresh(d)'
      BY <2>3 DEF OwnersInv
    <2>6. ASSUME NEW g \in 1..Games, g > game'
          PROVE  link'[FirstConn[g]] = "new"
      <3>1. link[FirstConn[g]] = "new" /\ FirstConn[g] # conn
        BY <1>1, <2>1, <2>6 DEF OwnersInv
      <3>2. FirstConn[g] # c
        BY <1>1, <2>1, <2>6, ConnAssumption DEF c
      <3> QED BY <2>3, <2>4, <3>1, <3>2
    <2>7. ASSUME NEW g \in 1..Games, NEW d \in slot'[g]
          PROVE  Fresh(d)' /\ link'[d] # "new" /\ \A h \in 1..Games : d \in slot'[h] => g = h
      <3>1. /\ d \in Conns /\ Fresh(d) /\ link[d] # "new"
            /\ \A h \in 1..Games : d \in slot[h] => g = h
        BY <1>1, <2>4 DEF OwnersInv
      <3>2. d # c /\ d # conn
        BY <2>2, <3>1 DEF OwnersInv, Fresh
      <3> QED BY <1>1, <2>3, <3>1, <3>2
    <2>8. \A g \in 1..Games : \A d, e \in slot'[g] : d = e
      BY <1>1 DEF OwnersInv
    <2>9. ASSUME NEW d \in Conns, link'[d] \in {"up", "hungup"}, d # conn'
          PROVE  \E g \in 1..Games : d \in slot'[g]
      BY <1>1, <2>3, <2>9 DEF OwnersInv
    <2> QED BY <2>3, <2>5, <2>6, <2>7, <2>8, <2>9 DEF OwnersInv
  <1> QED BY <1>2, <1>3

LEMMA OwnersOffer ==
  ASSUME TypedInv, OwnersInv, NEW c \in Conns, Offer(c)
  PROVE  OwnersInv'
  <1>1. /\ game \in 1..Games /\ link[c] = "new" /\ Fresh(c) /\ conn' = conn /\ game' = game
        /\ reader' = reader /\ conn \in Conns
        /\ \A d \in Conns : Fresh(d)' = Fresh(d)
    BY DEF Offer, OwnersInv, TypedInv, GameTyped, SeatTyped, gameVars, clientVars, Fresh
  <1>2. /\ \A g \in 1..Games : FirstConn[g] \in Conns /\ FirstConn[g] # c
        /\ \A g \in 1..Games : c \notin slot[g] /\ slot[g] \subseteq Conns
        /\ c # conn
    BY <1>1, ConnAssumption DEF Offer, OwnersInv, TypedInv, SeatTyped
  <1>3. CASE slot' = slot /\ link' = [link EXCEPT ![c] = "closed"]
    <2>1. \A d \in Conns : link'[d] = IF d = c THEN "closed" ELSE link[d]
      BY <1>3 DEF TypedInv, SeatTyped
    <2>2. reader'[conn'] # "none" /\ link'[conn'] # "new"
      BY <1>1, <1>2, <2>1 DEF OwnersInv
    <2>3. \A d \in Conns : link'[d] = "new" => Fresh(d)'
      BY <1>1, <2>1 DEF OwnersInv
    <2>4. \A g \in 1..Games : g > game' => link'[FirstConn[g]] = "new"
      BY <1>1, <1>2, <2>1 DEF OwnersInv
    <2>5. ASSUME NEW g \in 1..Games, NEW d \in slot'[g]
          PROVE  Fresh(d)' /\ link'[d] # "new" /\ \A h \in 1..Games : d \in slot'[h] => g = h
      BY <1>1, <1>2, <1>3, <2>1 DEF OwnersInv
    <2>6. \A g \in 1..Games : \A d, e \in slot'[g] : d = e
      BY <1>3 DEF OwnersInv
    <2>7. ASSUME NEW d \in Conns, link'[d] \in {"up", "hungup"}
          PROVE  d = conn' \/ \E g \in 1..Games : d \in slot'[g]
      BY <1>1, <1>3, <2>1, <2>7 DEF OwnersInv
    <2> QED BY <2>2, <2>3, <2>4, <2>5, <2>6, <2>7 DEF OwnersInv
  <1>4. ASSUME NEW k \in 1..game, slot[k] = {}, slot' = [slot EXCEPT ![k] = {c}],
               link' = [link EXCEPT ![c] = "up"]
        PROVE  OwnersInv'
    <2>1. /\ k \in 1..Games
          /\ \A d \in Conns : link'[d] = IF d = c THEN "up" ELSE link[d]
          /\ \A g \in 1..Games : slot'[g] = IF g = k THEN {c} ELSE slot[g]
      BY <1>1, <1>4, SizeAssumption DEF TypedInv, SeatTyped
    <2>2. reader'[conn'] # "none" /\ link'[conn'] # "new"
      BY <1>1, <1>2, <2>1 DEF OwnersInv
    <2>3. \A d \in Conns : link'[d] = "new" => Fresh(d)'
      BY <1>1, <2>1 DEF OwnersInv
    <2>4. \A g \in 1..Games : g > game' => link'[FirstConn[g]] = "new"
      BY <1>1, <1>2, <2>1 DEF OwnersInv
    <2>5. ASSUME NEW g \in 1..Games, NEW d \in slot'[g]
          PROVE  Fresh(d)' /\ link'[d] # "new" /\ \A h \in 1..Games : d \in slot'[h] => g = h
      <3>1. CASE d = c
        BY <1>1, <1>2, <2>1, <3>1
      <3>2. CASE d # c
        <4>1. g # k /\ d \in slot[g] /\ d \in Conns
          BY <1>2, <2>1, <3>2
        <4>2. Fresh(d) /\ link[d] # "new" /\ \A h \in 1..Games : d \in slot[h] => g = h
          BY <4>1 DEF OwnersInv
        <4> QED BY <1>1, <2>1, <3>2, <4>1, <4>2
      <3> QED BY <3>1, <3>2
    <2>6. \A g \in 1..Games : \A d, e \in slot'[g] : d = e
      BY <2>1 DEF OwnersInv
    <2>7. ASSUME NEW d \in Conns, link'[d] \in {"up", "hungup"}
          PROVE  d = conn' \/ \E g \in 1..Games : d \in slot'[g]
      <3>1. CASE d = c
        BY <2>1, <3>1
      <3>2. CASE d # c
        <4>1. d = conn \/ \E g \in 1..Games : d \in slot[g]
          BY <2>1, <2>7, <3>2 DEF OwnersInv
        <4> QED BY <1>1, <1>4, <2>1, <4>1
      <3> QED BY <3>1, <3>2
    <2> QED BY <2>2, <2>3, <2>4, <2>5, <2>6, <2>7 DEF OwnersInv
  <1> QED BY <1>3, <1>4 DEF Offer

LEMMA OwnersStep == TypedInv /\ OwnersInv /\ [Next]_vars => OwnersInv'
  <1> SUFFICES ASSUME TypedInv, OwnersInv, [Next]_vars
               PROVE  OwnersInv'
    OBVIOUS
  <1>1. /\ conn \in Conns /\ ~Fresh(conn)
        /\ chan \in [Conns -> Seq(Msgs)] /\ wire \in [Conns -> Seq(Msgs)]
        /\ inbox \in [Conns -> Seq(0..Requests)]
        /\ reader \in [Conns -> {"none", "reading", "ended"}]
        /\ link \in [Conns -> {"new", "up", "hungup", "closed"}]
    BY DEF TypedInv, SeatTyped, StreamTyped, OwnersInv, Fresh
  <1>2. CASE Request \/ Take1 \/ TimeOut
    <2>1. UNCHANGED <<conn, slot, game, link, reader, wire, screen>>
      BY <1>2 DEF clientVars, Request, Take1, TakeToken, TakeAnswer, TakeError, TakeName, TimeOut, Take
    <2>2. \A c \in Conns : c # conn => chan'[c] = chan[c]
      BY <1>1, <1>2
         DEF Request, Take1, TakeToken, TakeAnswer, TakeError, TakeName, TimeOut, Take
    <2>3. inbox' = inbox \/ \E n : Write(conn, n)
      BY <1>2 DEF Request, Take1, TakeToken, TakeAnswer, TakeError, TakeName, TimeOut, AskName
    <2>4. \A c \in Conns : c # conn => inbox'[c] = inbox[c]
      BY <1>1, <2>3 DEF Write
    <2>5. \A c \in Conns : Fresh(c) => Fresh(c)'
      BY <1>1, <2>1, <2>2, <2>4 DEF Fresh
    <2> QED BY <2>1, <2>5, OwnersFrame
  <1>3. CASE Notify \/ PauseEnds \/ GiveUp \/ UNCHANGED vars
    <2>1. UNCHANGED <<conn, slot, game, netVars>>
      BY <1>3 DEF Notify, PauseEnds, GiveUp, vars, gameVars, seatVars
    <2> QED BY <2>1, OwnersFrame DEF Fresh, netVars, lineVars, clientVars
  <1>4. ASSUME NEW c \in Conns, Read(c) \/ HangUp(c)
        PROVE  OwnersInv'
    <2>1. UNCHANGED <<conn, slot, game>>
      BY <1>4 DEF Read, HangUp, gameVars, seatVars
    <2>2. \A d \in Conns : reader[d] # "none" => reader'[d] # "none"
      BY <1>1, <1>4 DEF Read, ReadMessage, ReadError, HangUp
    <2>3. ASSUME NEW d \in Conns, Fresh(d)
          PROVE  Fresh(d)'
      <3>1. CASE Read(c)
        BY <1>1, <2>3, <3>1 DEF Fresh, Read, ReadMessage, ReadError, clientVars
      <3>2. CASE HangUp(c)
        <4>1. screen'[d] = IF d = c THEN Blank ELSE screen[d]
          BY <3>2 DEF HangUp, TypedInv, ClientTyped
        <4> QED BY <1>1, <2>3, <3>2, <4>1, BlankTyped DEF Fresh, HangUp
      <3> QED BY <1>4, <3>1, <3>2
    <2>4. \A d \in Conns : \/ link'[d] = link[d]
                           \/ link[d] = "up" /\ link'[d] = "hungup"
      BY <1>1, <1>4 DEF Read, HangUp
    <2> QED BY <1>1, <2>1, <2>2, <2>3, <2>4, OwnersFrame
  <1>5. ASSUME NEW c \in Conns, Client(c)
        PROVE  OwnersInv'
    <2>1. UNCHANGED <<conn, slot, game, link, reader>>
      BY <1>5, ClientFrame DEF gameVars, seatVars
    <2>2. \A d \in Conns : Fresh(d) => Fresh(d)'
      BY <1>5, ClientFresh DEF TypedInv
    <2> QED BY <2>1, <2>2, OwnersFrame
  <1> QED BY <1>2, <1>3, <1>4, <1>5, OwnersTakeOver, OwnersEndGame, OwnersOffer DEF Next, GameStep
-----------------------------------------------------------------------------
(* What a connection brings.                                               *)

LEMMA TailOf ==
  ASSUME NEW s \in Seq(Msgs), s # <<>>
  PROVE  /\ Head(s) \in Msgs /\ Head(s) = s[1] /\ 1 \in 1..Len(s)
         /\ \A i \in 1..Len(Tail(s)) : i + 1 \in 1..Len(s) /\ Tail(s)[i] = s[i + 1]
         /\ Bare(s) => Bare(Tail(s)) /\ Plain(Head(s))
         /\ \A f : Has(Tail(s), f) => Has(s, f)
  <1>1. /\ Head(s) \in Msgs /\ Tail(s) \in Seq(Msgs) /\ Len(Tail(s)) = Len(s) - 1
        /\ \A i \in 1..Len(Tail(s)) : Tail(s)[i] = s[i + 1]
    BY HeadTailProperties
  <1>2. Len(s) \in Nat \ {0} /\ Head(s) = s[1]
    BY EmptySeq
  <1>3. \A i \in 1..Len(Tail(s)) : i + 1 \in 1..Len(s)
    BY <1>1, <1>2
  <1>4. 1 \in 1..Len(s)
    BY <1>2
  <1>5. Bare(s) => Bare(Tail(s)) /\ Plain(Head(s))
    BY <1>1, <1>2, <1>3, <1>4 DEF Bare
  <1>6. \A f : Has(Tail(s), f) => Has(s, f)
    BY <1>1, <1>3 DEF Has
  <1> QED BY <1>1, <1>2, <1>3, <1>4, <1>5, <1>6

LEMMA TailSound ==
  ASSUME NEW s \in Seq(Msgs), s # <<>>, NEW n, NEW f, Sound(s, n, f)
  PROVE  /\ Sound(Tail(s), n, f)
         /\ Head(s) = f => Bare(Tail(s))
         /\ Plain(Head(s)) \/ Head(s) = Msg("answer", n) \/ Head(s) = f
  <1>1. /\ Head(s) = s[1] /\ 1 \in 1..Len(s)
        /\ \A i \in 1..Len(Tail(s)) : i + 1 \in 1..Len(s) /\ Tail(s)[i] = s[i + 1]
    BY TailOf
  <1>2. Plain(Head(s)) \/ Head(s) = Msg("answer", n) \/ Head(s) = f
    BY <1>1 DEF Sound
  <1>3. ASSUME Head(s) = f, NEW i \in 1..Len(Tail(s))
        PROVE  Plain(Tail(s)[i])
    <2>1. i + 1 \in 1..Len(s) /\ 1 < i + 1
      BY <1>1
    <2> QED BY <1>1, <1>3, <2>1 DEF Sound
  <1>4. ASSUME NEW i \in 1..Len(Tail(s))
        PROVE  /\ Plain(Tail(s)[i]) \/ Tail(s)[i] = Msg("answer", n) \/ Tail(s)[i] = f
               /\ Tail(s)[i] = f =>
                    \A j \in 1..Len(Tail(s)) : i < j => Plain(Tail(s)[j])
    <2>1. ASSUME NEW j \in 1..Len(Tail(s)), i < j
          PROVE  i + 1 < j + 1 /\ j + 1 \in 1..Len(s)
      BY <1>1, <2>1
    <2> QED BY <1>1, <2>1 DEF Sound
  <1> QED BY <1>2, <1>3, <1>4 DEF Sound, Bare

LEMMA AppendOf ==
  ASSUME NEW s \in Seq(Msgs), NEW m \in Msgs
  PROVE  /\ Bare(s) /\ Plain(m) => Bare(Append(s, m))
         /\ \A f : Has(Append(s, m), f) => Has(s, f) \/ m = f
  <1>1. /\ Len(s) \in Nat /\ Len(Append(s, m)) = Len(s) + 1
        /\ \A i \in 1..Len(s) : Append(s, m)[i] = s[i]
        /\ Append(s, m)[Len(s) + 1] = m
    BY AppendProperties, LenProperties
  <1>2. \A i \in 1..Len(Append(s, m)) : i \in 1..Len(s) \/ i = Len(s) + 1
    BY <1>1
  <1> QED BY <1>1, <1>2 DEF Bare, Has

\* Before the final message anything the wait allows may come, after it only
\* what is plain.
LEMMA AppendSound ==
  ASSUME NEW s \in Seq(Msgs), NEW m \in Msgs, NEW n, NEW f, Sound(s, n, f), ~Plain(f),
         Plain(m) \/ (~Has(s, f) /\ (m = Msg("answer", n) \/ m = f))
  PROVE  Sound(Append(s, m), n, f)
  <1> DEFINE t == Append(s, m)
  <1>1. /\ Len(s) \in Nat /\ Len(t) = Len(s) + 1
        /\ \A i \in 1..Len(s) : t[i] = s[i]
        /\ t[Len(s) + 1] = m
    BY AppendProperties, LenProperties
  <1> HIDE DEF t
  <1>2. \A i \in 1..Len(t) : i \in 1..Len(s) \/ i = Len(s) + 1
    BY <1>1
  <1>3. ASSUME NEW i \in 1..Len(t)
        PROVE  /\ Plain(t[i]) \/ t[i] = Msg("answer", n) \/ t[i] = f
               /\ t[i] = f => \A j \in 1..Len(t) : i < j => Plain(t[j])
    <2>1. CASE i = Len(s) + 1
      <3>1. \A j \in 1..Len(t) : ~(i < j)
        BY <1>1, <2>1
      <3> QED BY <1>1, <2>1, <3>1
    <2>2. CASE i \in 1..Len(s)
      <3>1. Plain(t[i]) \/ t[i] = Msg("answer", n) \/ t[i] = f
        BY <1>1, <2>2 DEF Sound
      <3>2. ASSUME t[i] = f, NEW j \in 1..Len(t), i < j
            PROVE  Plain(t[j])
        <4>1. Has(s, f)
          BY <1>1, <2>2, <3>2 DEF Has
        <4>2. CASE j = Len(s) + 1
          BY <1>1, <4>1, <4>2
        <4>3. CASE j \in 1..Len(s)
          BY <1>1, <2>2, <3>2, <4>3 DEF Sound
        <4> QED BY <1>2, <4>2, <4>3
      <3> QED BY <3>1, <3>2
    <2> QED BY <1>2, <2>1, <2>2
  <1> QED BY <1>3 DEF Sound, t

\* A plain message that overtakes what is still on its way changes nothing.
LEMMA InsertOf ==
  ASSUME NEW s \in Seq(Msgs), NEW w \in Seq(Msgs), NEW m \in Msgs, Plain(m)
  PROVE  /\ Bare(s \o w) => Bare(Append(s, m) \o w)
         /\ \A n, f : ~Plain(f) =>
              /\ Sound(s \o w, n, f) => Sound(Append(s, m) \o w, n, f)
              /\ Has(Append(s, m) \o w, f) => Has(s \o w, f)
  <1> DEFINE u == s \o w
             t == Append(s, m) \o w
             k == Len(s) + 1
             old(i) == IF i < k THEN i ELSE i - 1
  <1>1. /\ Len(s) \in Nat /\ Len(w) \in Nat /\ Append(s, m) \in Seq(Msgs)
        /\ Len(Append(s, m)) = Len(s) + 1
        /\ \A i \in 1..Len(s) : Append(s, m)[i] = s[i]
        /\ Append(s, m)[Len(s) + 1] = m
    BY AppendProperties, LenProperties
  <1>2. /\ Len(u) = Len(s) + Len(w)
        /\ \A i \in 1..Len(s) + Len(w) : u[i] = IF i <= Len(s) THEN s[i] ELSE w[i - Len(s)]
    BY ConcatProperties
  <1>3. /\ Len(t) = Len(s) + 1 + Len(w)
        /\ \A i \in 1..Len(s) + 1 + Len(w) :
             t[i] = IF i <= Len(s) + 1 THEN Append(s, m)[i] ELSE w[i - (Len(s) + 1)]
    BY <1>1, ConcatProperties
  <1> HIDE DEF t, u
  <1>4. ASSUME NEW i \in 1..Len(t), i # k
        PROVE  old(i) \in 1..Len(u) /\ t[i] = u[old(i)]
    <2>1. CASE i < k
      BY <1>1, <1>2, <1>3, <2>1
    <2>2. CASE i > k
      BY <1>1, <1>2, <1>3, <2>2
    <2> QED BY <1>1, <1>3, <1>4, <2>1, <2>2
  <1>5. t[k] = m /\ k \in 1..Len(t)
    BY <1>1, <1>3
  <1>6. \A i, j \in 1..Len(t) : i # k /\ j # k /\ i < j => old(i) < old(j)
    BY <1>1, <1>3
  <1> HIDE DEF k, old
  <1>7. Bare(u) => Bare(t)
    BY <1>4, <1>5 DEF Bare
  <1>8. ASSUME NEW n, NEW f, ~Plain(f), Sound(u, n, f)
        PROVE  Sound(t, n, f)
    <2>1. ASSUME NEW i \in 1..Len(t)
          PROVE  /\ Plain(t[i]) \/ t[i] = Msg("answer", n) \/ t[i] = f
                 /\ t[i] = f => \A j \in 1..Len(t) : i < j => Plain(t[j])
      <3>1. CASE i = k
        BY <1>5, <1>8, <3>1
      <3>2. CASE i # k
        <4>1. Plain(t[i]) \/ t[i] = Msg("answer", n) \/ t[i] = f
          BY <1>4, <1>8, <3>2 DEF Sound
        <4>2. ASSUME t[i] = f, NEW j \in 1..Len(t), i < j, j # k
              PROVE  Plain(t[j])
          BY <1>4, <1>6, <1>8, <3>2, <4>2 DEF Sound
        <4> QED BY <1>5, <4>1, <4>2
      <3> QED BY <3>1, <3>2
    <2> QED BY <2>1 DEF Sound
  <1>9. ASSUME NEW f, ~Plain(f), Has(t, f)
        PROVE  Has(u, f)
    BY <1>4, <1>5, <1>9 DEF Has
  <1> QED BY <1>7, <1>8, <1>9 DEF t, u

\* How the moves of a message look from the receive's end.
LEMMA Moves ==
  ASSUME NEW s \in Seq(Msgs), NEW w \in Seq(Msgs)
  PROVE  /\ s # <<>> => s \o w # <<>> /\ Tail(s \o w) = Tail(s) \o w /\ Head(s \o w) = Head(s)
         /\ w # <<>> => Append(s, Head(w)) \o Tail(w) = s \o w
         /\ \A m \in Msgs : s \o Append(w, m) = Append(s \o w, m)
  <1>1. \A m \in Msgs : s \o Append(w, m) = Append(s \o w, m)
    <2> TAKE m \in Msgs
    <2>1. Append(w, m) = w \o <<m>> /\ <<m>> \in Seq(Msgs)
      BY AppendIsConcat
    <2>2. s \o w \in Seq(Msgs)
      BY ConcatProperties
    <2>3. Append(s \o w, m) = (s \o w) \o <<m>>
      BY <2>2, AppendIsConcat
    <2> QED BY <2>1, <2>3, ConcatAssociative
  <1>2. ASSUME w # <<>>
        PROVE  Append(s, Head(w)) \o Tail(w) = s \o w
    <2> DEFINE t == Append(s, Head(w)) \o Tail(w)
               u == s \o w
    <2>1. /\ Head(w) \in Msgs /\ Tail(w) \in Seq(Msgs) /\ Len(Tail(w)) = Len(w) - 1
          /\ \A i \in 1..Len(Tail(w)) : Tail(w)[i] = w[i + 1]
          /\ Head(w) = w[1] /\ Len(w) \in Nat \ {0} /\ Len(s) \in Nat
      BY <1>2, HeadTailProperties, EmptySeq, LenProperties
    <2>2. /\ Append(s, Head(w)) \in Seq(Msgs) /\ Len(Append(s, Head(w))) = Len(s) + 1
          /\ \A i \in 1..Len(s) : Append(s, Head(w))[i] = s[i]
          /\ Append(s, Head(w))[Len(s) + 1] = Head(w)
      BY <2>1, AppendProperties
    <2>3. /\ t \in Seq(Msgs) /\ Len(t) = Len(s) + Len(w)
          /\ \A i \in 1..Len(s) + Len(w) :
               t[i] = IF i <= Len(s) + 1 THEN Append(s, Head(w))[i]
                                         ELSE Tail(w)[i - (Len(s) + 1)]
      BY <2>1, <2>2, ConcatProperties
    <2>4. /\ u \in Seq(Msgs) /\ Len(u) = Len(s) + Len(w)
          /\ \A i \in 1..Len(s) + Len(w) :
               u[i] = IF i <= Len(s) THEN s[i] ELSE w[i - Len(s)]
      BY ConcatProperties
    <2> HIDE DEF t, u
    <2>5. ASSUME NEW i \in 1..Len(t)
          PROVE  t[i] = u[i]
      <3>1. CASE i <= Len(s)
        BY <2>1, <2>2, <2>3, <2>4, <3>1
      <3>2. CASE i = Len(s) + 1
        BY <2>1, <2>2, <2>3, <2>4, <3>2
      <3>3. CASE i > Len(s) + 1
        <4>1. /\ i - (Len(s) + 1) \in 1..Len(Tail(w))
              /\ (i - (Len(s) + 1)) + 1 = i - Len(s)
          BY <2>1, <2>3, <3>3
        <4> QED BY <2>1, <2>3, <2>4, <3>3, <4>1
      <3> QED BY <2>1, <2>3, <3>1, <3>2, <3>3
    <2>6. t = u
      BY <2>3, <2>4, <2>5, SeqEqual
    <2> QED BY <2>6 DEF t, u
  <1>3. ASSUME s # <<>>
        PROVE  s \o w # <<>> /\ Tail(s \o w) = Tail(s) \o w /\ Head(s \o w) = Head(s)
    <2> DEFINE u == s \o w
               t == Tail(s) \o w
    <2>1. /\ Tail(s) \in Seq(Msgs) /\ Len(Tail(s)) = Len(s) - 1
          /\ \A i \in 1..Len(Tail(s)) : Tail(s)[i] = s[i + 1]
          /\ Head(s) = s[1] /\ Len(s) \in Nat \ {0} /\ Len(w) \in Nat
      BY <1>3, HeadTailProperties, EmptySeq, LenProperties
    <2>2. /\ u \in Seq(Msgs) /\ Len(u) = Len(s) + Len(w)
          /\ \A i \in 1..Len(s) + Len(w) :
               u[i] = IF i <= Len(s) THEN s[i] ELSE w[i - Len(s)]
      BY ConcatProperties
    <2>3. /\ t \in Seq(Msgs) /\ Len(t) = Len(s) - 1 + Len(w)
          /\ \A i \in 1..Len(s) - 1 + Len(w) :
               t[i] = IF i <= Len(s) - 1 THEN Tail(s)[i] ELSE w[i - (Len(s) - 1)]
      BY <2>1, ConcatProperties
    <2> HIDE DEF t, u
    <2>4. u # <<>>
      BY <2>1, <2>2, EmptySeq
    <2>5. /\ Tail(u) \in Seq(Msgs) /\ Len(Tail(u)) = Len(u) - 1 /\ Head(u) = u[1]
          /\ \A i \in 1..Len(Tail(u)) : Tail(u)[i] = u[i + 1]
      BY <2>2, <2>4, HeadTailProperties
    <2>6. Head(u) = Head(s)
      BY <2>1, <2>2, <2>5
    <2>7. ASSUME NEW i \in 1..Len(Tail(u))
          PROVE  Tail(u)[i] = t[i]
      <3>1. i + 1 \in 1..Len(s) + Len(w) /\ Tail(u)[i] = u[i + 1]
        BY <2>1, <2>2, <2>5
      <3>2. CASE i <= Len(s) - 1
        BY <2>1, <2>2, <2>3, <2>5, <3>1, <3>2
      <3>3. CASE i > Len(s) - 1
        <4>1. (i + 1) - Len(s) = i - (Len(s) - 1)
          BY <2>1
        <4> QED BY <2>1, <2>2, <2>3, <2>5, <3>1, <3>3, <4>1
      <3> QED BY <2>1, <3>2, <3>3
    <2>8. Tail(u) = t
      BY <2>1, <2>2, <2>3, <2>5, <2>7, SeqEqual
    <2> QED BY <2>4, <2>6, <2>8 DEF t, u
  <1> QED BY <1>1, <1>2, <1>3

LEMMA BareSound ==
  ASSUME NEW s, Bare(s), NEW n, NEW f, ~Plain(f)
  PROVE  Sound(s, n, f) /\ ~Has(s, f)
  BY DEF Bare, Sound, Has
-----------------------------------------------------------------------------
(* A request and its answer.                                               *)

LEMMA SeatFacts ==
  ASSUME TypedInv
  PROVE  /\ conn \in Conns /\ chan[conn] \in Seq(Msgs) /\ wire[conn] \in Seq(Msgs)
         /\ Pending \in Seq(Msgs)
         /\ ~Plain(Final)
         /\ pc \in {"answer", "name"} => cur # NAME /\ cur \in 0..Requests
  <1>1. conn \in Conns /\ chan[conn] \in Seq(Msgs) /\ wire[conn] \in Seq(Msgs)
    BY DEF TypedInv, SeatTyped, StreamTyped
  <1>2. Pending \in Seq(Msgs)
    BY <1>1, ConcatProperties DEF Pending
  <1>3. ~Plain(Final)
    BY DEF Plain, Final, Msg
  <1>4. pc \in {"answer", "name"} => cur # NAME /\ cur \in 0..Requests
    BY SizeAssumption DEF TypedInv, GameTyped, NAME
  <1> QED BY <1>1, <1>2, <1>3, <1>4

\* A step of the connection, which leaves the game goroutine where it is.
LEMMA AnswerFrame ==
  ASSUME Orderly, UNCHANGED <<pc, cur, result, hasError, conn>>,
         pc \in {"answer", "name"} =>
           /\ Sound(Pending', cur, Final)
           /\ Has(Pending', Final) => inbox'[conn] = <<>> /\ ~Live(conn)'
           /\ inbox'[conn] \in Packets
           /\ Live(conn)' => screen'[conn].task = cur /\ inbox'[conn] \in {<<>>, <<NAME>>},
         pc = "idle" /\ ~hasError => Bare(Pending') /\ inbox'[conn] = <<>> /\ ~Live(conn)'
  PROVE  Orderly'
  <1>1. AwaitInv'
    BY DEF Orderly, AwaitInv, Final, Packets, Sound, Has, Live
  <1>2. IdleInv'
    BY DEF Orderly, IdleInv, Bare, Live
  <1>3. FitsInv'
    BY DEF Orderly, FitsInv, Returned
  <1> QED BY <1>1, <1>2, <1>3 DEF Orderly

LEMMA AnswerQuiet ==
  ASSUME Orderly, UNCHANGED <<pc, cur, result, hasError, conn>>,
         Pending' = Pending, inbox'[conn] = inbox[conn], screen'[conn] = screen[conn]
  PROVE  Orderly'
  <1>1. Live(conn)' <=> Live(conn)
    BY DEF Live
  <1>2. pc \in {"answer", "name"} =>
          /\ Sound(Pending', cur, Final)
          /\ Has(Pending', Final) => inbox'[conn] = <<>> /\ ~Live(conn)'
          /\ inbox'[conn] \in Packets
          /\ Live(conn)' => screen'[conn].task = cur /\ inbox'[conn] \in {<<>>, <<NAME>>}
    BY <1>1 DEF Orderly, AwaitInv
  <1>3. pc = "idle" /\ ~hasError => Bare(Pending') /\ inbox'[conn] = <<>> /\ ~Live(conn)'
    BY <1>1 DEF Orderly, IdleInv
  <1> QED BY <1>2, <1>3, AnswerFrame

\* The request is over: it failed and left the seat in error, or waits for a
\* takeover.
LEMMA AnswerFailed ==
  ASSUME hasError', \/ pc' = "takeover"
                    \/ pc' = "idle" /\ result' = Msg("error", 0)
  PROVE  Orderly'
  BY DEF Orderly, AwaitInv, IdleInv, FitsInv, Returned, Msg

LEMMA FailFails == Fail => hasError' /\ \/ pc' = "takeover"
                                        \/ pc' = "idle" /\ result' = Msg("error", 0)
  BY DEF Fail, Return

LEMMA AnswerRead ==
  ASSUME ConnInv, Orderly, NEW c \in Conns, Read(c)
  PROVE  Orderly'
  <1>1. UNCHANGED <<pc, cur, result, hasError, conn, inbox, screen>>
    BY DEF Read, gameVars, seatVars, clientVars
  <1>2. CASE c # conn
    <2>1. ReadMessage(c) \/ ReadError(c)
      BY DEF Read
    <2>2. chan'[conn] = chan[conn] /\ wire'[conn] = wire[conn]
      BY <1>2, <2>1 DEF ReadMessage, ReadError, ConnInv, TypedInv, SeatTyped, StreamTyped
    <2>3. Pending' = Pending
      BY <1>1, <2>2 DEF Pending
    <2> QED BY <1>1, <2>3, AnswerQuiet
  <1>3. CASE c = conn /\ ReadMessage(c)
    <2>1. Pending' = Append(chan[conn], Head(wire[conn])) \o Tail(wire[conn])
      BY <1>1, <1>3 DEF ReadMessage, Pending, ConnInv, TypedInv, StreamTyped
    <2>2. Pending' = Pending
      BY <1>3, <2>1, SeatFacts, Moves DEF ReadMessage, Pending, ConnInv
    <2> QED BY <1>1, <2>2, AnswerQuiet
  <1>4. CASE c = conn /\ ReadError(c)
    <2>1. Pending' = Append(chan[conn], Msg("err", 0)) \o wire[conn]
      BY <1>1, <1>4 DEF ReadError, Pending, ConnInv, TypedInv, StreamTyped
    <2>2. Plain(Msg("err", 0)) /\ Msg("err", 0) \in Msgs
      BY MsgTypes DEF Plain, Msg
    <2>3. /\ Bare(Pending) => Bare(Pending')
          /\ Sound(Pending, cur, Final) => Sound(Pending', cur, Final)
          /\ Has(Pending', Final) => Has(Pending, Final)
      BY <2>1, <2>2, SeatFacts, InsertOf DEF Pending, ConnInv
    <2>4. Live(conn)' <=> Live(conn)
      BY <1>1 DEF Live
    <2> QED BY <1>1, <2>3, <2>4, AnswerFrame DEF Orderly, AwaitInv, IdleInv
  <1> QED BY <1>2, <1>3, <1>4 DEF Read

\* What the client says comes behind what it said before.
LEMMA Spoken ==
  ASSUME ConnInv, NEW m \in Msgs, conn' = conn, chan' = chan,
         wire' = [wire EXCEPT ![conn] = Append(@, m)]
  PROVE  Pending' = Append(Pending, m)
  <1>1. Pending' = chan[conn] \o Append(wire[conn], m)
    BY SeatFacts DEF Pending, ConnInv, TypedInv, StreamTyped
  <1> QED BY <1>1, SeatFacts, Moves DEF Pending, ConnInv

\* A client that is not the seat's, and a viewer that is paused or resumed.
LEMMA AnswerElse ==
  ASSUME ConnInv, Orderly, NEW c \in Conns, Client(c), c # conn
  PROVE  Orderly'
  <1>1. UNCHANGED <<pc, cur, result, hasError, conn, chan>>
    BY ClientFrame DEF gameVars, seatVars
  <1>2. conn \in Conns /\ screen'[conn] = screen[conn]
    BY SeatFacts, ClientScreen DEF ConnInv, TypedInv
  <1>3. wire'[conn] = wire[conn] /\ inbox'[conn] = inbox[conn]
    BY <1>2, ClientWire, ClientInbox DEF Send, ConnInv, TypedInv, StreamTyped
  <1>4. Pending' = Pending
    BY <1>1, <1>3 DEF Pending
  <1> QED BY <1>1, <1>2, <1>3, <1>4, AnswerQuiet

\* A plain message, or none, while the client keeps its packets and its duty.
LEMMA AnswerPlain ==
  ASSUME ConnInv, Orderly, UNCHANGED <<pc, cur, result, hasError, conn, chan, inbox>>,
         wire' = wire \/ Send(conn, Pause) \/ Send(conn, Resume),
         Live(conn)' <=> Live(conn), screen'[conn].task = screen[conn].task
  PROVE  Orderly'
  <1>1. Pending' = Pending \/ Pending' = Append(Pending, Pause) \/ Pending' = Append(Pending, Resume)
    <2>1. Pause \in Msgs /\ Resume \in Msgs
      BY MsgTypes DEF Pause, Resume, Tokenish
    <2>2. CASE wire' = wire
      BY <2>2 DEF Pending
    <2>3. CASE Send(conn, Pause)
      BY <2>1, <2>3, Spoken DEF Send
    <2>4. CASE Send(conn, Resume)
      BY <2>1, <2>4, Spoken DEF Send
    <2> QED BY <2>2, <2>3, <2>4
  <1>2. /\ Sound(Pending, cur, Final) => Sound(Pending', cur, Final)
        /\ Has(Pending', Final) => Has(Pending, Final)
        /\ Bare(Pending) => Bare(Pending')
    <2>1. /\ Plain(Pause) /\ Pause \in Msgs /\ Plain(Resume) /\ Resume \in Msgs
      BY MsgTypes DEF Tokenish, Plain, Msg, Pause, Resume
    <2>2. Pending \in Seq(Msgs) /\ ~Plain(Final)
      BY SeatFacts DEF ConnInv
    <2>3. ASSUME NEW m \in Msgs, Plain(m), Pending' = Append(Pending, m)
          PROVE  /\ Sound(Pending, cur, Final) => Sound(Pending', cur, Final)
                 /\ Has(Pending', Final) => Has(Pending, Final)
                 /\ Bare(Pending) => Bare(Pending')
      BY <2>2, <2>3, AppendSound, AppendOf
    <2> QED BY <1>1, <2>1, <2>3
  <1> QED BY <1>2, AnswerFrame DEF Orderly, AwaitInv, IdleInv

LEMMA AnswerPause ==
  ASSUME ConnInv, Orderly, PauseHere(conn) \/ ResumeHere(conn)
  PROVE  Orderly'
  <1>1. screen \in [Conns -> Screens] /\ conn \in Conns /\ screen[conn] \in Screens
    BY SeatFacts DEF ConnInv, TypedInv, ClientTyped
  <1>2. UNCHANGED <<pc, cur, result, hasError, conn, chan, inbox>>
    BY DEF PauseHere, ResumeHere, gameVars, seatVars
  <1>3. wire' = wire \/ Send(conn, Pause) \/ Send(conn, Resume)
    BY DEF PauseHere, ResumeHere
  <1>4. /\ screen'[conn].task = screen[conn].task
        /\ screen'[conn].timer = "off" <=> screen[conn].timer = "off"
    BY <1>1 DEF PauseHere, ResumeHere, Screens
  <1>5. Live(conn)' <=> Live(conn)
    BY <1>2, <1>4 DEF Live
  <1> QED BY <1>2, <1>3, <1>4, <1>5, AnswerPlain

\* The client takes the oldest packet of a wait.
LEMMA PacketFacts ==
  ASSUME ConnInv, Orderly, inbox[conn] # <<>>
  PROVE  /\ ~(pc = "idle" /\ ~hasError)
         /\ pc \in {"answer", "name"} =>
              /\ Sound(Pending, cur, Final) /\ ~Has(Pending, Final)
              /\ \/ /\ Head(inbox[conn]) = cur /\ ~Live(conn)
                    /\ \/ Tail(inbox[conn]) = <<>>
                       \/ pc = "name" /\ Tail(inbox[conn]) = <<NAME>>
                 \/ pc = "name" /\ Head(inbox[conn]) = NAME /\ Tail(inbox[conn]) = <<>>
  <1>1. ~(pc = "idle" /\ ~hasError)
    BY DEF Orderly, IdleInv
  <1>2. ASSUME pc \in {"answer", "name"}
        PROVE  /\ Sound(Pending, cur, Final) /\ ~Has(Pending, Final)
               /\ \/ /\ Head(inbox[conn]) = cur /\ ~Live(conn)
                     /\ \/ Tail(inbox[conn]) = <<>>
                        \/ pc = "name" /\ Tail(inbox[conn]) = <<NAME>>
                  \/ pc = "name" /\ Head(inbox[conn]) = NAME /\ Tail(inbox[conn]) = <<>>
    <2>1. /\ Sound(Pending, cur, Final) /\ ~Has(Pending, Final)
          /\ inbox[conn] \in Packets
          /\ Live(conn) => inbox[conn] = <<NAME>>
      BY <1>2 DEF Orderly, AwaitInv
    <2>2. cur # NAME
      BY <1>2, SeatFacts DEF ConnInv
    <2>3. CASE inbox[conn] = <<cur>>
      <3>1. Head(<<cur>>) = cur /\ Tail(<<cur>>) = <<>> /\ <<cur>> # <<NAME>>
        BY <2>2
      <3> QED BY <2>1, <2>3, <3>1
    <2>4. CASE pc = "name" /\ inbox[conn] = <<NAME>>
      <3>1. Head(<<NAME>>) = NAME /\ Tail(<<NAME>>) = <<>>
        OBVIOUS
      <3> QED BY <2>1, <2>4, <3>1
    <2>5. CASE pc = "name" /\ inbox[conn] = <<cur, NAME>>
      <3>1. /\ Head(<<cur, NAME>>) = cur /\ Tail(<<cur, NAME>>) = <<NAME>>
            /\ <<cur, NAME>> # <<NAME>>
        OBVIOUS
      <3> QED BY <2>1, <2>5, <3>1
    <2> QED BY <1>2, <2>1, <2>3, <2>4, <2>5 DEF Packets
  <1> QED BY <1>1, <1>2

\* An answer to what is asked, from a client that then owes nothing more.
LEMMA AnswerGiven ==
  ASSUME ConnInv, Orderly, UNCHANGED <<pc, cur, result, hasError, conn, chan>>,
         NEW m \in Msgs, Send(conn, m) \/ wire' = wire, ~(pc = "idle" /\ ~hasError),
         pc \in {"answer", "name"} =>
           /\ ~Has(Pending, Final)
           /\ m = Msg("answer", cur) \/ m = Final
           /\ m = Final => inbox'[conn] = <<>>
           /\ inbox'[conn] \in Packets,
         ~Live(conn)'
  PROVE  Orderly'
  <1>1. Pending' = Append(Pending, m) \/ Pending' = Pending
    <2>1. CASE Send(conn, m)
      BY <2>1, Spoken DEF Send
    <2>2. CASE wire' = wire
      BY <2>2 DEF Pending
    <2> QED BY <2>1, <2>2
  <1>2. ASSUME pc \in {"answer", "name"}
        PROVE  /\ Sound(Pending', cur, Final)
               /\ Has(Pending', Final) => inbox'[conn] = <<>>
    <2>1. Sound(Pending, cur, Final) /\ Pending \in Seq(Msgs) /\ ~Plain(Final)
      BY <1>2, SeatFacts DEF Orderly, AwaitInv, ConnInv
    <2>2. CASE Pending' = Pending
      BY <1>2, <2>1, <2>2
    <2>3. CASE Pending' = Append(Pending, m)
      <3>1. Sound(Append(Pending, m), cur, Final)
        BY <1>2, <2>1, AppendSound
      <3>2. Has(Append(Pending, m), Final) => m = Final
        BY <1>2, <2>1, AppendOf
      <3> QED BY <1>2, <2>3, <3>1, <3>2
    <2> QED BY <1>1, <2>2, <2>3
  <1> QED BY <1>2, AnswerFrame

LEMMA AnswerReply ==
  ASSUME ConnInv, Orderly, Reply(conn)
  PROVE  Orderly'
  <1> DEFINE n == Head(inbox[conn])
             m == IF n = NAME THEN Msg("name", 0) ELSE Msg("answer", n)
  <1>1. UNCHANGED <<pc, cur, result, hasError, conn, chan, screen>>
    BY DEF Reply, gameVars, seatVars, clientVars
  <1>2. /\ conn \in Conns \ Viewers /\ inbox[conn] # <<>> /\ inbox'[conn] = Tail(inbox[conn])
        /\ Send(conn, m) \/ wire' = wire
    BY SeatFacts DEF Reply, ConnInv, TypedInv, StreamTyped
  <1>3. m \in Msgs
    BY <1>2, HeadTailProperties, MsgTypes DEF ConnInv, TypedInv, StreamTyped
  <1>4. ~Live(conn)'
    BY <1>1, <1>2 DEF Live, ConnInv, TypedInv, ClientTyped
  <1>5. ASSUME pc \in {"answer", "name"}
        PROVE  /\ ~Has(Pending, Final)
               /\ m = Msg("answer", cur) \/ m = Final
               /\ m = Final => inbox'[conn] = <<>>
               /\ inbox'[conn] \in Packets
    <2>1. cur # NAME
      BY <1>5, SeatFacts DEF ConnInv
    <2>2. CASE n = cur /\ inbox'[conn] = <<>>
      BY <1>2, <1>5, <2>1, <2>2, PacketFacts DEF Packets
    <2>3. CASE n = cur /\ pc = "name" /\ inbox'[conn] = <<NAME>>
      <3>1. m = Msg("answer", cur) /\ m # Final
        BY <2>1, <2>3 DEF Final, Msg
      <3> QED BY <1>2, <1>5, <2>3, <3>1, PacketFacts DEF Packets
    <2>4. CASE pc = "name" /\ n = NAME /\ inbox'[conn] = <<>>
      <3>1. m = Final
        BY <2>4 DEF Final, NAME
      <3> QED BY <1>2, <1>5, <2>4, <3>1, PacketFacts DEF Packets
    <2> QED BY <1>2, <1>5, <2>2, <2>3, <2>4, PacketFacts
  <1>6. ~(pc = "idle" /\ ~hasError)
    BY <1>2, PacketFacts
  <1> HIDE DEF m
  <1> QED BY <1>1, <1>2, <1>3, <1>4, <1>5, <1>6, AnswerGiven

\* The viewer takes a request up, or gives its name and the request up.
LEMMA AnswerShow ==
  ASSUME ConnInv, Orderly, Show(conn)
  PROVE  Orderly'
  <1>1. UNCHANGED <<pc, cur, result, hasError, conn, chan>>
    BY DEF Show, gameVars, seatVars
  <1>2. /\ conn \in Conns /\ inbox[conn] # <<>> /\ inbox'[conn] = Tail(inbox[conn])
        /\ screen \in [Conns -> Screens] /\ screen[conn] \in Screens
    BY SeatFacts DEF Show, ConnInv, TypedInv, StreamTyped, ClientTyped
  <1>3. ~(pc = "idle" /\ ~hasError)
    BY <1>2, PacketFacts
  <1>4. CASE ShowName(conn)
    <2>1. Send(conn, Msg("name", 0)) /\ Head(inbox[conn]) = NAME /\ Msg("name", 0) \in Msgs
      BY <1>4, MsgTypes DEF ShowName
    <2>2. screen'[conn].task = 0
      BY <1>2, <1>4 DEF ShowName, Screens
    <2>3. ~Live(conn)'
      BY <1>1, <2>2 DEF Live
    <2>4. ASSUME pc \in {"answer", "name"}
          PROVE  /\ ~Has(Pending, Final) /\ Msg("name", 0) = Final
                 /\ inbox'[conn] = <<>> /\ inbox'[conn] \in Packets
      <3>1. cur # NAME
        BY <2>4, SeatFacts DEF ConnInv
      <3>2. ~Has(Pending, Final) /\ pc = "name" /\ inbox'[conn] = <<>>
        BY <1>2, <2>1, <2>4, <3>1, PacketFacts
      <3> QED BY <3>2 DEF Final, NAME, Packets
    <2> QED BY <1>1, <1>3, <2>1, <2>3, <2>4, AnswerGiven
  <1>5. CASE ShowRequest(conn)
    <2>1. wire' = wire \/ Send(conn, Pause)
      BY <1>5 DEF ShowRequest
    <2>2. screen'[conn].task = Head(inbox[conn]) /\ Head(inbox[conn]) # NAME
      BY <1>2, <1>5 DEF ShowRequest, Screens
    <2>3. Pending' = Pending \/ Pending' = Append(Pending, Pause)
      <3>1. Pause \in Msgs
        BY MsgTypes DEF Pause, Tokenish
      <3>2. CASE wire' = wire
        BY <1>1, <3>2 DEF Pending
      <3>3. CASE Send(conn, Pause)
        BY <1>1, <3>1, <3>3, Spoken DEF Send
      <3> QED BY <2>1, <3>2, <3>3
    <2>4. ASSUME pc \in {"answer", "name"}
          PROVE  /\ Sound(Pending', cur, Final) /\ ~Has(Pending', Final)
                 /\ inbox'[conn] \in Packets
                 /\ screen'[conn].task = cur /\ inbox'[conn] \in {<<>>, <<NAME>>}
      <3>1. /\ Sound(Pending, cur, Final) /\ ~Has(Pending, Final) /\ Head(inbox[conn]) = cur
            /\ inbox'[conn] = <<>> \/ (pc = "name" /\ inbox'[conn] = <<NAME>>)
        BY <1>2, <2>2, <2>4, PacketFacts
      <3>2. Plain(Pause) /\ Pause \in Msgs /\ ~Plain(Final) /\ Pending \in Seq(Msgs)
        BY MsgTypes, SeatFacts DEF Tokenish, Plain, Msg, Pause, ConnInv
      <3>3. Sound(Append(Pending, Pause), cur, Final)
        BY <3>1, <3>2, AppendSound
      <3>4. ~Has(Append(Pending, Pause), Final)
        BY <3>1, <3>2, AppendOf
      <3>5. inbox'[conn] \in Packets
        BY <2>4, <3>1 DEF Packets
      <3> QED BY <2>2, <2>3, <3>1, <3>3, <3>4, <3>5
    <2> QED BY <1>1, <1>3, <2>4, AnswerFrame
  <1> QED BY <1>4, <1>5 DEF Show

\* The player or the timer speaks: to the request shown, or out of step.
LEMMA AnswerSpeak ==
  ASSUME ConnInv, Orderly, Speak(conn)
  PROVE  Orderly' \/ conn' \in stray'
  <1>1. UNCHANGED <<pc, cur, result, hasError, conn, chan, inbox>>
    BY DEF Speak, gameVars, seatVars
  <1>2. /\ conn \in Conns /\ screen \in [Conns -> Screens] /\ screen[conn] \in Screens
    BY SeatFacts DEF ConnInv, TypedInv, ClientTyped
  <1>3. CASE screen[conn].task = 0
    BY <1>1, <1>3 DEF Speak
  <1>4. CASE screen[conn].task # 0
    <2> DEFINE m == Msg("answer", screen[conn].task)
    <2>1. Live(conn) /\ screen[conn].task \in 0..Requests
      BY <1>2, <1>4 DEF Live, Speak, Screens
    <2>2. Send(conn, m) /\ m \in Msgs
      BY <2>1, MsgTypes DEF Speak
    <2>3. screen'[conn].timer = "off"
      BY <1>2 DEF Speak, Screens
    <2>4. ~Live(conn)'
      BY <1>1, <2>3 DEF Live
    <2>5. ~(pc = "idle" /\ ~hasError)
      BY <2>1 DEF Orderly, IdleInv
    <2>6. ASSUME pc \in {"answer", "name"}
          PROVE  /\ ~Has(Pending, Final)
                 /\ m = Msg("answer", cur) \/ m = Final
                 /\ m = Final => inbox'[conn] = <<>>
                 /\ inbox'[conn] \in Packets
      <3>1. /\ ~Has(Pending, Final) /\ screen[conn].task = cur
            /\ inbox[conn] \in {<<>>, <<NAME>>} /\ inbox[conn] \in Packets
        BY <2>1, <2>6 DEF Orderly, AwaitInv
      <3>2. cur # NAME
        BY <2>6, SeatFacts DEF ConnInv
      <3>3. <<cur>> # <<NAME>>
        BY <3>2
      <3>4. CASE pc = "answer"
        BY <1>1, <3>1, <3>3, <3>4 DEF Packets
      <3>5. CASE pc = "name"
        <4>1. m # Final
          BY <3>5 DEF Final, Msg
        <4> QED BY <1>1, <3>1, <4>1
      <3> QED BY <2>6, <3>4, <3>5
    <2> HIDE DEF m
    <2> QED BY <1>1, <2>2, <2>4, <2>5, <2>6, AnswerGiven
  <1> QED BY <1>3, <1>4

LEMMA AnswerClient ==
  ASSUME ConnInv, Orderly, NEW c \in Conns, Client(c)
  PROVE  Orderly' \/ conn' \in stray'
  BY AnswerElse, AnswerShow, AnswerSpeak, AnswerPause, AnswerReply DEF Client

LEMMA AnswerHangUp ==
  ASSUME ConnInv, Orderly, NEW c \in Conns, HangUp(c)
  PROVE  Orderly'
  <1>1. UNCHANGED <<pc, cur, result, hasError, conn, chan, wire>> /\ Pending' = Pending
    BY DEF HangUp, gameVars, seatVars, Pending
  <1>2. /\ conn \in Conns
        /\ inbox'[conn] = IF c = conn THEN <<>> ELSE inbox[conn]
        /\ screen'[conn] = IF c = conn THEN Blank ELSE screen[conn]
    BY SeatFacts DEF HangUp, ConnInv, TypedInv, StreamTyped, ClientTyped
  <1>3. CASE c # conn
    BY <1>1, <1>2, <1>3, AnswerQuiet
  <1>4. CASE c = conn
    <2>1. ~Live(conn)' /\ inbox'[conn] = <<>>
      BY <1>1, <1>2, <1>4, BlankTyped DEF Live
    <2> QED BY <1>1, <2>1, AnswerFrame DEF Orderly, AwaitInv, IdleInv, Packets
  <1> QED BY <1>3, <1>4

LEMMA AnswerStart ==
  ASSUME ConnInv, Orderly, Request
  PROVE  Orderly'
  <1>1. CASE Fail
    BY <1>1, FailFails, AnswerFailed
  <1>2. CASE ~hasError /\ Write(conn, cur + 1) /\ Wait("answer") /\ UNCHANGED <<result, retry, hasError>>
    <2>1. /\ Pending' = Pending /\ pc' = "answer" /\ cur' = cur + 1 /\ conn' = conn
          /\ ~hasError'
      BY <1>2 DEF Request, Pending, Wait
    <2>2. Bare(Pending) /\ inbox[conn] = <<>> /\ ~Live(conn)'
      BY <1>2 DEF Request, Orderly, IdleInv, Live, clientVars
    <2>3. inbox'[conn] \in {<<>>, <<cur + 1>>}
      BY <1>2, <2>2 DEF Write, ConnInv, TypedInv, SeatTyped, StreamTyped
    <2>4. Final' = Msg("answer", cur + 1) /\ ~Plain(Final')
      BY <2>1 DEF Final, Plain, Msg
    <2>5. Sound(Pending', cur', Final') /\ ~Has(Pending', Final')
      BY <2>1, <2>2, <2>4, BareSound
    <2>6. AwaitInv'
      BY <2>1, <2>2, <2>3, <2>5 DEF AwaitInv, Packets, Sound, Has
    <2> QED BY <2>1, <2>6 DEF Orderly, IdleInv, FitsInv, Returned
  <1> QED BY <1>1, <1>2 DEF Request

LEMMA AppendIsTuple ==
  ASSUME NEW x, NEW y
  PROVE  Append(<<>>, y) = <<y>> /\ Append(<<x>>, y) = <<x, y>>
  <1> DEFINE S == {x, y}
  <1>1. <<>> \in Seq(S) /\ <<x>> \in Seq(S) /\ <<y>> \in Seq(S) /\ <<x, y>> \in Seq(S)
    BY EmptySeq
  <1>2. Append(<<>>, y) = <<y>>
    BY <1>1, AppendIsConcat, ConcatEmptySeq
  <1>3. /\ Append(<<x>>, y) \in Seq(S) /\ Len(Append(<<x>>, y)) = 2
        /\ Append(<<x>>, y)[1] = x /\ Append(<<x>>, y)[2] = y
    <2>1. y \in S /\ Len(<<x>>) = 1 /\ <<x>>[1] = x /\ 1 \in 1..1
      OBVIOUS
    <2>2. /\ Append(<<x>>, y) \in Seq(S) /\ Len(Append(<<x>>, y)) = Len(<<x>>) + 1
          /\ \A i \in 1..Len(<<x>>) : Append(<<x>>, y)[i] = <<x>>[i]
          /\ Append(<<x>>, y)[Len(<<x>>) + 1] = y
      BY <1>1, <2>1, AppendProperties
    <2> QED BY <2>1, <2>2
  <1>4. Append(<<x>>, y) = <<x, y>>
    <2>1. Len(<<x, y>>) = 2 /\ <<x, y>>[1] = x /\ <<x, y>>[2] = y
      OBVIOUS
    <2>2. \A i \in 1..2 : i = 1 \/ i = 2
      OBVIOUS
    <2>3. \A i \in 1..Len(Append(<<x>>, y)) : Append(<<x>>, y)[i] = <<x, y>>[i]
      BY <1>3, <2>1, <2>2
    <2> HIDE DEF S
    <2> QED BY <1>1, <1>3, <2>1, <2>3, SeqEqual
  <1> QED BY <1>2, <1>4

\* The name is asked for behind the request, and no answer of it has come.
LEMMA AnswerAskName ==
  ASSUME ConnInv, Orderly, pc = "answer", AskName, UNCHANGED <<cur, conn, screen>>,
         Sound(Pending', cur, Final), NEW s \in Seq(Msgs), Pending' = s
  PROVE  Orderly'
  <1>1. CASE Fail
    BY <1>1, FailFails, AnswerFailed
  <1>2. CASE Write(conn, NAME) /\ Wait("name") /\ UNCHANGED <<result, retry, hasError>>
    <2>1. pc' = "name" /\ ~hasError'
      BY <1>2 DEF Wait, Orderly, AwaitInv
    <2>2. Final = Msg("answer", cur) /\ Final' = Msg("name", NAME)
      BY <2>1 DEF Final
    <2>3. /\ ~Plain(Final) /\ ~Plain(Final') /\ Final # Final'
      BY <2>2 DEF Plain, Msg
    <2>4. Sound(Pending', cur', Final') /\ ~Has(Pending', Final')
      BY <2>2, <2>3 DEF Sound, Has
    <2>5. inbox'[conn] \in {<<>>, <<cur>>, <<NAME>>, <<cur, NAME>>}
      <3>1. inbox[conn] \in {<<>>, <<cur>>}
        BY DEF Orderly, AwaitInv, Packets
      <3>2. inbox'[conn] = inbox[conn] \/ inbox'[conn] = Append(inbox[conn], NAME)
        BY <1>2 DEF Write, ConnInv, TypedInv, SeatTyped, StreamTyped
      <3>3. Append(<<>>, NAME) = <<NAME>> /\ Append(<<cur>>, NAME) = <<cur, NAME>>
        BY AppendIsTuple
      <3> QED BY <3>1, <3>2, <3>3
    <2>6. Live(conn)' => screen'[conn].task = cur /\ inbox'[conn] \in {<<>>, <<NAME>>}
      <3>1. cur # NAME
        BY SeatFacts DEF ConnInv
      <3>2. Live(conn)' => screen'[conn].task = cur /\ inbox[conn] \in {<<>>, <<NAME>>}
        BY DEF Orderly, AwaitInv, Live
      <3>3. inbox[conn] \in {<<>>, <<cur>>}
        BY DEF Orderly, AwaitInv, Packets
      <3>4. <<cur>> # <<NAME>> /\ <<cur>> # <<>>
        BY <3>1
      <3>5. inbox'[conn] = inbox[conn] \/ inbox'[conn] = Append(inbox[conn], NAME)
        BY <1>2 DEF Write, ConnInv, TypedInv, SeatTyped, StreamTyped
      <3>6. Append(<<>>, NAME) = <<NAME>>
        BY AppendIsTuple
      <3> QED BY <3>2, <3>3, <3>4, <3>5, <3>6
    <2>7. AwaitInv'
      BY <2>1, <2>4, <2>5, <2>6 DEF AwaitInv, Packets, Sound, Has
    <2> QED BY <2>1, <2>7 DEF Orderly, IdleInv, FitsInv, Returned
  <1> QED BY <1>1, <1>2 DEF AskName

LEMMA AnswerTimeOut ==
  ASSUME ConnInv, Orderly, TimeOut
  PROVE  Orderly'
  <1>1. CASE pc = "name" /\ Fail
    BY <1>1, FailFails, AnswerFailed
  <1>2. CASE pc = "answer" /\ AskName
    <2>1. Pending' = Pending /\ Pending \in Seq(Msgs) /\ UNCHANGED <<cur, conn, screen>>
      BY SeatFacts DEF TimeOut, Pending, ConnInv, clientVars
    <2>2. Sound(Pending, cur, Final)
      BY <1>2 DEF Orderly, AwaitInv
    <2> QED BY <1>2, <2>1, <2>2, AnswerAskName
  <1> QED BY <1>1, <1>2 DEF TimeOut

\* A receive sees what is pending from its front.
LEMMA Taken ==
  ASSUME ConnInv, NEW l, Take(l)
  PROVE  /\ Pending # <<>> /\ Message = Head(Pending) /\ Pending' = Tail(Pending)
         /\ Pending' \in Seq(Msgs)
  <1>1. chan[conn] \in Seq(Msgs) /\ wire[conn] \in Seq(Msgs) /\ Pending \in Seq(Msgs)
    BY SeatFacts DEF ConnInv
  <1>2. Pending' = Tail(chan[conn]) \o wire[conn] /\ chan[conn] # <<>>
    BY DEF Take, Pending, ConnInv, TypedInv, SeatTyped, StreamTyped
  <1>3. Pending # <<>> /\ Message = Head(Pending) /\ Pending' = Tail(Pending)
    BY <1>1, <1>2, Moves DEF Pending, Message
  <1> QED BY <1>1, <1>3, HeadTailProperties

LEMMA AnswerTake ==
  ASSUME ConnInv, Orderly, Take1
  PROVE  Orderly'
  <1>1. PICK l \in {"answer", "name"} : Take(l)
    BY DEF Take1, TakeToken, TakeAnswer, TakeError, TakeName
  <1>2. /\ Pending \in Seq(Msgs) /\ Pending # <<>> /\ Message = Head(Pending)
        /\ Pending' = Tail(Pending) /\ Pending' \in Seq(Msgs)
    BY <1>1, Taken, SeatFacts DEF ConnInv
  <1>3. /\ pc \in {"answer", "name"} /\ conn' = conn /\ cur' = cur
        /\ screen' = screen /\ (Live(conn)' <=> Live(conn))
        /\ Sound(Pending, cur, Final) /\ inbox[conn] \in Packets
        /\ Has(Pending, Final) => inbox[conn] = <<>> /\ ~Live(conn)
        /\ Live(conn) => screen[conn].task = cur /\ inbox[conn] \in {<<>>, <<NAME>>}
    BY <1>1 DEF Take, Orderly, AwaitInv, Live, clientVars
  <1>4. /\ Sound(Pending', cur, Final)
        /\ Message = Final => Bare(Pending')
        /\ Plain(Message) \/ Message = Msg("answer", cur) \/ Message = Final
    BY <1>2, <1>3, TailSound
  <1>5. Has(Pending', Final) => Has(Pending, Final)
    BY <1>2, TailOf
  <1>6. Message = Final => inbox[conn] = <<>> /\ ~Live(conn)
    BY <1>2, <1>3, TailOf DEF Has
  <1>7. CASE TakeToken
    <2>1. UNCHANGED <<pc, cur, result, hasError, conn, inbox>>
      BY <1>3, <1>7 DEF TakeToken
    <2> QED BY <1>3, <1>4, <1>5, <2>1, AnswerFrame
  <1>8. CASE TakeAnswer
    <2>1. pc = "answer" /\ pc' = "idle" /\ result' = Message /\ inbox' = inbox
      BY <1>8 DEF TakeAnswer, Take, Return
    <2>2. Message = Msg("answer", cur) /\ Message = Final
      BY <1>4, <1>8, <2>1 DEF TakeAnswer, Plain, Final
    <2>3. Bare(Pending') /\ inbox'[conn'] = <<>> /\ ~Live(conn)'
      BY <1>3, <1>4, <1>6, <2>1, <2>2
    <2> QED BY <1>3, <2>1, <2>2, <2>3
            DEF Orderly, AwaitInv, IdleInv, FitsInv, Returned, Bare, Msg, Live
  <1>9. CASE TakeError
    <2>1. CASE Fail
      BY <2>1, FailFails, AnswerFailed
    <2>2. CASE AskName
      <3>1. pc = "answer"
        BY <1>9 DEF TakeError, Take
      <3> QED BY <1>2, <1>3, <1>4, <2>2, <3>1, AnswerAskName
    <2> QED BY <1>9, <2>1, <2>2 DEF TakeError
  <1>10. CASE TakeName
    <2>1. CASE Fail
      BY <2>1, FailFails, AnswerFailed
    <2>2. CASE Named(Message) /\ Return(Msg("timeout", 0))
      <3>1. pc = "name" /\ pc' = "idle" /\ result' = Msg("timeout", 0) /\ inbox' = inbox
        BY <1>10, <2>2 DEF TakeName, Take, Return
      <3>2. Message = Final
        BY <1>4, <2>2, <3>1 DEF Named, Plain, Msg, Final
      <3>3. Bare(Pending') /\ inbox'[conn'] = <<>> /\ ~Live(conn)'
        BY <1>3, <1>4, <1>6, <3>1, <3>2
      <3> QED BY <1>3, <3>1, <3>3
              DEF Orderly, AwaitInv, IdleInv, FitsInv, Returned, Bare, Msg, Live
    <2> QED BY <1>10, <2>1, <2>2 DEF TakeName
  <1> QED BY <1>7, <1>8, <1>9, <1>10 DEF Take1

\* The seat's new connection starts clean.
LEMMA SwitchClean ==
  ASSUME ConnInv, NEW c \in Conns, Fresh(c), NEW packets, Switch(c, packets)
  PROVE  conn' = c /\ Pending' = <<>> /\ inbox'[conn'] = packets /\ ~Live(conn)'
  <1>1. c # conn /\ conn' = c
    BY SwitchOwners DEF ConnInv
  <1>2. chan'[c] = <<>> /\ wire'[c] = <<>> /\ inbox'[c] = packets
    BY <1>1 DEF Switch, Fresh, ConnInv, TypedInv, SeatTyped, StreamTyped
  <1>3. <<>> \o <<>> = <<>>
    BY EmptySeq, ConcatEmptySeq
  <1>4. screen'[c].timer = "off"
    BY <1>1 DEF Switch, Fresh, ConnInv, TypedInv, ClientTyped
  <1> QED BY <1>1, <1>2, <1>3, <1>4 DEF Pending, Live

LEMMA AnswerTakeOver ==
  ASSUME ConnInv, TakeOver
  PROVE  Orderly'
  <1>1. CASE hasError' /\ Return(Msg("error", 0))
    BY <1>1, AnswerFailed DEF Return
  <1>2. CASE hasError' = FALSE /\ Wait("answer")
    <2>1. PICK c \in slot[game] : Switch(c, IF link[c] = "up" THEN <<cur>> ELSE <<>>)
      BY DEF TakeOver
    <2>2. c \in Conns /\ Fresh(c)
      BY <2>1 DEF ConnInv, TypedInv, GameTyped, SeatTyped, OwnersInv
    <2>3. Pending' = <<>> /\ inbox'[conn'] \in {<<>>, <<cur>>} /\ ~Live(conn)'
      BY <2>1, <2>2, SwitchClean
    <2>4. pc' = "answer" /\ cur' = cur /\ ~hasError'
      BY <1>2 DEF TakeOver, Wait
    <2>5. AwaitInv'
      BY <2>3, <2>4, EmptySeq DEF AwaitInv, Packets, Sound, Has
    <2> QED BY <2>4, <2>5 DEF Orderly, IdleInv, FitsInv, Returned
  <1> QED BY <1>1, <1>2 DEF TakeOver

LEMMA AnswerEndGame ==
  ASSUME ConnInv, EndGame
  PROVE  Orderly'
  <1>1. CASE game = Games
    BY <1>1 DEF EndGame, Orderly, AwaitInv, IdleInv, FitsInv, Returned, Msg
  <1>2. CASE game # Games
    <2> DEFINE c == FirstConn[game + 1]
    <2>1. c \in Conns /\ Fresh(c) /\ Switch(c, <<>>)
      <3>1. game + 1 \in 1..Games /\ game + 1 > game
        BY <1>2, SizeAssumption DEF ConnInv, TypedInv, GameTyped
      <3>2. link[c] = "new" /\ c \in Conns
        BY <3>1, ConnAssumption DEF ConnInv, OwnersInv
      <3> QED BY <1>2, <3>2 DEF EndGame, ConnInv, OwnersInv
    <2>2. Pending' = <<>> /\ inbox'[conn'] = <<>> /\ ~Live(conn)'
      BY <2>1, SwitchClean
    <2>3. pc' = "idle" /\ result' = Msg("none", 0)
      BY <1>2 DEF EndGame
    <2> QED BY <2>2, <2>3, EmptySeq DEF Orderly, AwaitInv, IdleInv, FitsInv, Returned, Bare, Msg
  <1> QED BY <1>1, <1>2

LEMMA AnswerInit == Init => AnswerInv
  <1> SUFFICES ASSUME Init PROVE Orderly
    BY DEF AnswerInv
  <1>1. /\ conn \in Conns /\ chan[conn] = <<>> /\ wire[conn] = <<>> /\ inbox[conn] = <<>>
        /\ screen[conn] = Blank
    BY SizeAssumption, ConnAssumption DEF Init
  <1>2. Pending = <<>> /\ ~Live(conn)
    BY <1>1, EmptySeq, ConcatEmptySeq, BlankTyped DEF Pending, Live
  <1> QED BY <1>1, <1>2, EmptySeq DEF Init, Orderly, AwaitInv, IdleInv, FitsInv, Returned, Bare, Msg

\* A stray connection stays one as long as it is the seat's.
LEMMA StrayStays ==
  ASSUME ConnInv, [Next]_vars, conn \in stray, ~TakeOver, ~EndGame
  PROVE  conn' \in stray'
  <1>1. CASE UNCHANGED vars \/ Notify \/ PauseEnds \/ GiveUp
    BY <1>1 DEF vars, seatVars, netVars, clientVars, Notify, PauseEnds, GiveUp
  <1>2. CASE Request \/ Take1 \/ TimeOut
    BY <1>2 DEF clientVars, Request, Take1, TakeToken, TakeAnswer, TakeError, TakeName,
                TimeOut, Take
  <1>3. ASSUME NEW c \in Conns, Read(c) \/ HangUp(c) \/ Offer(c)
        PROVE  conn' \in stray'
    BY <1>3 DEF Read, HangUp, Offer, seatVars, clientVars
  <1>4. ASSUME NEW c \in Conns, Client(c)
        PROVE  conn' \in stray'
    BY <1>4, ClientFrame DEF seatVars
  <1> QED BY <1>1, <1>2, <1>3, <1>4 DEF Next, GameStep

LEMMA AnswerQuietStep ==
  ASSUME ConnInv, Orderly, \/ UNCHANGED vars \/ PauseEnds
                           \/ \E c \in Conns : Offer(c)
  PROVE  Orderly'
  <1>1. /\ UNCHANGED <<pc, cur, result, hasError, conn, inbox, screen>>
        /\ UNCHANGED <<chan, wire>>
    BY DEF vars, gameVars, seatVars, netVars, lineVars, clientVars, PauseEnds, Offer
  <1>2. Pending' = Pending
    BY <1>1 DEF Pending
  <1> QED BY <1>1, <1>2, AnswerQuiet

LEMMA AnswerStep == ConnInv /\ AnswerInv /\ [Next]_vars => AnswerInv'
  <1> SUFFICES ASSUME ConnInv, AnswerInv, [Next]_vars
               PROVE  Orderly' \/ conn' \in stray'
    BY DEF AnswerInv
  <1>1. CASE TakeOver \/ EndGame
    BY <1>1, AnswerTakeOver, AnswerEndGame
  <1>2. CASE conn \in stray /\ ~TakeOver /\ ~EndGame
    BY <1>2, StrayStays
  <1>3. CASE Orderly /\ ~TakeOver /\ ~EndGame
    <2>1. CASE UNCHANGED vars \/ PauseEnds \/ \E c \in Conns : Offer(c)
      BY <1>3, <2>1, AnswerQuietStep
    <2>2. CASE Notify
      <3>1. hasError' /\ UNCHANGED <<pc, cur, result>> /\ pc = "idle"
        BY <2>2 DEF Notify, gameVars
      <3> QED BY <1>3, <3>1 DEF Orderly, AwaitInv, IdleInv, FitsInv, Returned
    <2>3. CASE GiveUp
      BY <2>3, AnswerFailed DEF GiveUp, Return
    <2>4. CASE \E c \in Conns : Read(c) \/ HangUp(c) \/ Client(c)
      BY <1>3, <2>4, AnswerRead, AnswerHangUp, AnswerClient
    <2>5. CASE Request \/ Take1 \/ TimeOut
      BY <1>3, <2>5, AnswerStart, AnswerTake, AnswerTimeOut
    <2> QED BY <1>3, <2>1, <2>2, <2>3, <2>4, <2>5 DEF Next, GameStep
  <1> QED BY <1>1, <1>2, <1>3 DEF AnswerInv
-----------------------------------------------------------------------------
(* The theorems.                                                           *)

LEMMA ConnInvHolds == Spec => []ConnInv
  <1>1. Init => ConnInv
    <2> SUFFICES ASSUME Init PROVE \A c \in Conns : Len(chan[c]) <= Cap
      BY TypedInit, OwnersInit DEF ConnInv, CapInv
    <2> TAKE c \in Conns
    <2>1. chan[c] = <<>>
      BY DEF Init
    <2>2. Len(<<>>) = 0
      BY EmptySeq
    <2> QED BY <2>1, <2>2, SizeAssumption
  <1>2. ConnInv /\ [Next]_vars => ConnInv'
    BY StepTyped, CapStep, OwnersStep DEF ConnInv
  <1> QED BY <1>1, <1>2, PTL DEF Spec

\* Type correctness of the seat, its connections and what is on them; the
\* reader's channel never holds more than its capacity (startReader).
THEOREM TypeTheorem == Spec => []TypeOK
  <1>1. ConnInv => TypeOK
    BY DEF ConnInv, TypedInv, GameTyped, SeatTyped, StreamTyped, ClientTyped, CapInv, TypeOK
  <1> QED BY <1>1, ConnInvHolds, PTL

\* Every connection the server has left open is the seat's own or sits in the
\* takeover slot of a game (OfferTakeover, WaitTakeover, handleTakeover).
THEOREM ConnectionsTheorem == Spec => []ConnectionsAccounted
  <1>1. ConnInv => ConnectionsAccounted
    BY DEF ConnInv, OwnersInv, ConnectionsAccounted
  <1> QED BY <1>1, ConnInvHolds, PTL

\* As long as the viewer's timer has not spoken on the seat's connection with
\* nothing asked, what SendPacket returns as an answer answers that very
\* request, for any number of games, requests, pauses and takeovers
\* (model/agent.go, logic/common.go; demo-socket.ts, starter.py).
THEOREM AnswerTheorem == Spec => []AnswersInStep
  <1>1. AnswerInv => AnswersInStep
    BY DEF AnswerInv, Orderly, FitsInv, AnswersInStep, Returned
  <1> QED BY <1>1, ConnInvHolds, AnswerInit, AnswerStep, PTL DEF Spec
=============================================================================
