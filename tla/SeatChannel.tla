---------------------------- MODULE SeatChannel ----------------------------
(***************************************************************************)
(* One seat of the game server and its connections (model/agent.go,        *)
(* logic/common.go, core/server.go): the reader goroutine of each          *)
(* connection, the game goroutine that sends a request and waits for its   *)
(* answer, and the hand-over of the seat to a takeover connection.  The    *)
(* same name may sit in one game after another; the server keeps them all. *)
(*                                                                         *)
(* A client is the viewer's page, whose timer outlives its request when    *)
(* the player pauses (viewer, demo-socket.ts), or an agent's process,      *)
(* which takes its packets one by one (agent-llm, starter.py).  Time is    *)
(* left out: a timer that runs may end at any moment.                      *)
(***************************************************************************)
EXTENDS Integers, Sequences

CONSTANTS
  Conns,       \* connections
  Games,       \* bound: the games played under this name are 1..Games
  Requests,    \* bound: requests to the seat are 1..Requests
  FirstConn,   \* the connection each game starts with
  Cap,         \* capacity of the reader's channel (100 in the code)
  Viewers,     \* the connections of the viewer; an agent has the others
  Pauses,      \* bound: how often the player of a connection pauses
  Eligible     \* takeover enabled and the seat a human's

ASSUME SizeAssumption ==
  Games \in Nat \ {0} /\ Requests \in Nat /\ Cap \in Nat \ {0} /\ Pauses \in Nat
ASSUME ConnAssumption ==
  /\ FirstConn \in [1..Games -> Conns]
  /\ \A g, h \in 1..Games : FirstConn[g] = FirstConn[h] => g = h
ASSUME ViewerAssumption == Viewers \subseteq Conns
ASSUME EligibleAssumption == Eligible \in BOOLEAN

VARIABLES
  game,      \* the game being played; the earlier ones are finished
  pc,        \* of the game goroutine
  cur,       \* the number of the latest request
  result,    \* what the latest request returned
  retry,     \* whether the request was sent again after a takeover
  paused,    \* receive: the answer timer is stopped, the pause timer runs
  conn,      \* Agent.Connection
  hasError,  \* Agent.HasError
  slot,      \* takeoverCh of the seat in each game, as a set of at most one
  link,      \* each connection: "new", "up", "hungup" or "closed"
  reader,    \* the reader goroutine of each connection
  chan,      \* msgChan of each reader
  wire,      \* what each client sent and no reader has read
  inbox,     \* requests on their way to each client; NAME is 0
  screen,    \* the viewer of each connection
  stray      \* history: whose viewer has sent what nobody asked for

gameVars == <<game, pc, cur, result, retry, paused>>
seatVars == <<conn, hasError, slot>>
lineVars == <<link, reader, chan, wire, inbox>>
clientVars == <<screen, stray>>
netVars == <<lineVars, clientVars>>
vars == <<gameVars, seatVars, netVars>>

NAME == 0
Kinds == {"none", "answer", "name", "pause", "resume", "err", "timeout", "error"}
Msg(k, n) == [kind |-> k, re |-> n]
Msgs == [kind : Kinds, re : 0..Requests]
Pause == Msg("pause", 0)
Resume == Msg("resume", 0)
Tokenish == {Pause, Resume}

\* The viewer's actionTimer and pauseRemainingMs (timer: "off", "on" or kept
\* for later, "held"), the request it runs for (0: none that still waits),
\* paused, pausedServer, and the pauses so far.
Screens == [timer : {"off", "on", "held"}, task : 0..Requests,
            paused : BOOLEAN, told : BOOLEAN, pauses : 0..Pauses]
Blank == [timer |-> "off", task |-> 0, paused |-> FALSE, told |-> FALSE, pauses |-> 0]

Init ==
  /\ game = 1 /\ pc = "idle" /\ cur = 0
  /\ result = Msg("none", 0)
  /\ retry = FALSE /\ paused = FALSE
  /\ conn = FirstConn[1] /\ hasError = FALSE
  /\ slot = [g \in 1..Games |-> {}]
  /\ link = [c \in Conns |-> IF c = FirstConn[1] THEN "up" ELSE "new"]
  /\ reader = [c \in Conns |-> IF c = FirstConn[1] THEN "reading" ELSE "none"]
  /\ chan = [c \in Conns |-> <<>>]
  /\ wire = [c \in Conns |-> <<>>]
  /\ inbox = [c \in Conns |-> <<>>]
  /\ screen = [c \in Conns |-> Blank] /\ stray = {}
-----------------------------------------------------------------------------
(* Clients.                                                                *)

Send(c, m) == wire' = [wire EXCEPT ![c] = Append(@, m)]

\* The viewer takes a packet (handlePacketRequest).  NAME is answered at once,
\* which stops a timer that runs but not one that is held.
ShowName(c) ==
  /\ Head(inbox[c]) = NAME
  /\ Send(c, Msg("name", 0))
  /\ screen' = [screen EXCEPT ![c].task = 0,
                              ![c].timer = IF @ = "on" THEN "off" ELSE @]

\* A request comes: its timer starts, or the server is told of the pause.
ShowRequest(c) ==
  /\ Head(inbox[c]) # NAME
  /\ \/ /\ ~screen[c].paused
        /\ screen' = [screen EXCEPT ![c].task = Head(inbox[c]), ![c].timer = "on"]
        /\ UNCHANGED wire
     \/ /\ screen[c].paused
        /\ screen' = [screen EXCEPT ![c].task = Head(inbox[c]), ![c].timer = "held",
                                    ![c].told = TRUE]
        /\ Send(c, Pause)

Show(c) ==
  /\ c \in Viewers /\ link[c] = "up" /\ inbox[c] # <<>>
  /\ ShowName(c) \/ ShowRequest(c)
  /\ inbox' = [inbox EXCEPT ![c] = Tail(@)]
  /\ UNCHANGED <<gameVars, seatVars, link, reader, chan, stray>>

\* The player answers what is shown, or the timer sends TIMEOUT.  A timer that
\* was held over a NAME sends it although nothing waits: task is 0.
Speak(c) ==
  /\ link[c] = "up" /\ screen[c].timer = "on"
  /\ Send(c, Msg("answer", screen[c].task))
  /\ screen' = [screen EXCEPT ![c].timer = "off", ![c].task = 0]
  /\ stray' = IF screen[c].task = 0 THEN stray \cup {c} ELSE stray
  /\ UNCHANGED <<gameVars, seatVars, link, reader, chan, inbox>>

\* pause(): only a timer that runs is held and told to the server.
PauseHere(c) ==
  /\ c \in Viewers /\ link[c] = "up"
  /\ ~screen[c].paused /\ screen[c].pauses < Pauses
  /\ IF screen[c].timer = "on"
     THEN /\ screen' = [screen EXCEPT ![c].paused = TRUE, ![c].pauses = @ + 1,
                                      ![c].timer = "held", ![c].told = TRUE]
          /\ Send(c, Pause)
     ELSE /\ screen' = [screen EXCEPT ![c].paused = TRUE, ![c].pauses = @ + 1]
          /\ UNCHANGED wire
  /\ UNCHANGED <<gameVars, seatVars, link, reader, chan, inbox, stray>>

\* resume(): the timer goes on with what was left, whatever came meanwhile.
ResumeHere(c) ==
  /\ link[c] = "up" /\ screen[c].paused
  /\ screen' = [screen EXCEPT ![c].paused = FALSE, ![c].told = FALSE,
                              ![c].timer = IF @ = "held" THEN "on" ELSE @]
  /\ IF screen[c].told THEN Send(c, Resume) ELSE UNCHANGED wire
  /\ UNCHANGED <<gameVars, seatVars, link, reader, chan, inbox, stray>>

\* An agent's process answers the oldest packet, or has nothing to say.
Reply(c) ==
  /\ c \notin Viewers /\ link[c] = "up" /\ inbox[c] # <<>>
  /\ LET n == Head(inbox[c])
         m == IF n = NAME THEN Msg("name", 0) ELSE Msg("answer", n)
     IN Send(c, m) \/ (n # NAME /\ UNCHANGED wire)
  /\ inbox' = [inbox EXCEPT ![c] = Tail(@)]
  /\ UNCHANGED <<gameVars, seatVars, link, reader, chan, clientVars>>

HangUp(c) ==
  /\ link[c] = "up"
  /\ link' = [link EXCEPT ![c] = "hungup"]
  /\ inbox' = [inbox EXCEPT ![c] = <<>>]
  /\ screen' = [screen EXCEPT ![c] = Blank]
  /\ UNCHANGED <<gameVars, seatVars, reader, chan, wire, stray>>
-----------------------------------------------------------------------------
(* The goroutine of startReader.  A full channel blocks it.                *)

FullLate(c) == Len(chan[c]) > Cap   \* variant: one message too many

Full(c) == Len(chan[c]) >= Cap

ReadMessage(c) ==
  /\ link[c] # "closed" /\ wire[c] # <<>>
  /\ chan' = [chan EXCEPT ![c] = Append(@, Head(wire[c]))]
  /\ wire' = [wire EXCEPT ![c] = Tail(@)]
  /\ UNCHANGED reader

ReadError(c) ==
  /\ link[c] \in {"hungup", "closed"}
  /\ chan' = [chan EXCEPT ![c] = Append(@, Msg("err", 0))]
  /\ reader' = [reader EXCEPT ![c] = "ended"]
  /\ UNCHANGED wire

Read(c) ==
  /\ reader[c] = "reading" /\ ~Full(c)
  /\ ReadMessage(c) \/ ReadError(c)
  /\ UNCHANGED <<gameVars, seatVars, link, inbox, clientVars>>
-----------------------------------------------------------------------------
(* SendPacket under requestToAgent.  A write to a live connection passes,  *)
(* to one the client left it may, to one the server closed it fails.       *)

WriteMay(c) == link[c] # "closed"
WriteMayFail(c) == link[c] # "up"
Write(c, n) ==
  inbox' = IF link[c] = "up" THEN [inbox EXCEPT ![c] = Append(@, n)] ELSE inbox

Wait(l) == pc' = l /\ paused' = FALSE

Return(m) ==
  /\ result' = m
  /\ pc' = "idle" /\ retry' = FALSE

\* SendPacket fails with the seat in error: the first time a takeover may mend
\* it.
Fail ==
  /\ hasError' = TRUE
  /\ IF Eligible /\ ~retry THEN pc' = "takeover" /\ UNCHANGED <<result, retry>>
                           ELSE Return(Msg("error", 0))
  /\ UNCHANGED paused

Request ==
  /\ pc = "idle" /\ cur < Requests
  /\ cur' = cur + 1
  /\ \/ /\ ~hasError /\ WriteMay(conn)
        /\ Write(conn, cur + 1) /\ Wait("answer")
        /\ UNCHANGED <<result, retry, hasError>>
     \/ /\ hasError \/ WriteMayFail(conn)
        /\ Fail
        /\ UNCHANGED inbox
  /\ UNCHANGED <<game, conn, slot, link, reader, chan, wire, clientVars>>

\* A packet that wants no answer: a broadcast, a phase marker, DAILY_FINISH.
Notify ==
  /\ pc = "idle" /\ ~hasError /\ WriteMayFail(conn)
  /\ hasError' = TRUE
  /\ UNCHANGED <<gameVars, conn, slot, netVars>>

AskName ==
  \/ /\ WriteMay(conn)
     /\ Write(conn, NAME) /\ Wait("name")
     /\ UNCHANGED <<result, retry, hasError>>
  \/ /\ WriteMayFail(conn)
     /\ Fail
     /\ UNCHANGED inbox

Message == Head(chan[conn])

\* The channel yields a message to the receive that waits at l.
Take(l) ==
  /\ pc = l /\ chan[conn] # <<>>
  /\ chan' = [chan EXCEPT ![conn] = Tail(@)]
  /\ UNCHANGED <<game, cur, conn, slot, link, reader, wire, clientVars>>

TakeToken ==
  /\ \E l \in {"answer", "name"} : Take(l)
  /\ Message \in Tokenish
  /\ paused' = (Message.kind = "pause")
  /\ UNCHANGED <<pc, result, retry, hasError, inbox>>

TakeAnswer ==
  /\ Take("answer")
  /\ Message.kind \in {"answer", "name"}
  /\ Return(Message)
  /\ UNCHANGED <<paused, hasError, inbox>>

\* A close frame errors the seat at once, any other error asks for the name.
TakeError ==
  /\ Take("answer")
  /\ Message.kind = "err"
  /\ \/ Fail /\ UNCHANGED inbox
     \/ AskName

NamedByAny(m) == m.kind \in {"name", "answer"}   \* variant: any text will do

Named(m) == m.kind = "name"

TakeName ==
  /\ Take("name")
  /\ Message \notin Tokenish
  /\ IF Named(Message) THEN Return(Msg("timeout", 0)) /\ UNCHANGED <<paused, hasError>>
                       ELSE Fail
  /\ UNCHANGED inbox

\* The answer timer ends; it does not run during a pause.
TimeOut ==
  /\ ~paused
  /\ \/ pc = "answer" /\ AskName
     \/ pc = "name" /\ Fail /\ UNCHANGED inbox
  /\ UNCHANGED <<game, cur, conn, slot, link, reader, chan, wire, clientVars>>

PausesCounted == pc = "answer"   \* variant: the budget covers the first wait only

\* maxPauseBudget runs in every receive.
PauseLimited == pc \in {"answer", "name"}

PauseEnds ==
  /\ paused /\ PauseLimited
  /\ paused' = FALSE
  /\ UNCHANGED <<game, pc, cur, result, retry, seatVars, netVars>>
-----------------------------------------------------------------------------
(* The takeover.                                                           *)

\* handleTakeover: the first game, in any order, whose seat of that name has
\* room for it.  Nothing leaves s.games.
Offer(c) ==
  /\ link[c] = "new" /\ c \notin {FirstConn[g] : g \in 1..Games}
  /\ \/ \E g \in 1..game :
          /\ slot[g] = {}
          /\ slot' = [slot EXCEPT ![g] = {c}]
          /\ link' = [link EXCEPT ![c] = "up"]
     \/ /\ \A g \in 1..game : slot[g] # {}
        /\ link' = [link EXCEPT ![c] = "closed"]
        /\ UNCHANGED slot
  /\ UNCHANGED <<gameVars, conn, hasError, reader, chan, wire, inbox, clientVars>>

LeftOpen == "up"   \* variant: the old connection is not closed

Closed == "closed"

\* The seat leaves its connection for c, if not for good.  What was under way
\* on the old one is lost, and whether its reader ends or stays blocked on the
\* full channel nobody reads is not told apart.
Switch(c, packets) ==
  /\ conn' = c
  /\ link' = [link EXCEPT ![conn] = Closed, ![c] = IF @ = "new" THEN "up" ELSE @]
  /\ reader' = [reader EXCEPT ![conn] = "ended", ![c] = "reading"]
  /\ inbox' = [inbox EXCEPT ![conn] = <<>>, ![c] = packets]
  /\ chan' = [chan EXCEPT ![conn] = <<>>]
  /\ wire' = [wire EXCEPT ![conn] = <<>>]
  /\ screen' = [screen EXCEPT ![conn] = Blank]
  /\ stray' = stray \ {conn}

\* WaitTakeover takes the connection; INITIALIZE and the request are sent on it.
TakeOver ==
  /\ pc = "takeover"
  /\ \E c \in slot[game] :
       /\ slot' = [slot EXCEPT ![game] = {}]
       /\ Switch(c, IF link[c] = "up" THEN <<cur>> ELSE <<>>)
       /\ \/ /\ WriteMay(c)
             /\ hasError' = FALSE
             /\ Wait("answer") /\ retry' = TRUE
             /\ UNCHANGED result
          \/ /\ WriteMayFail(c)
             /\ hasError' = TRUE
             /\ Return(Msg("error", 0))
             /\ UNCHANGED paused
  /\ UNCHANGED <<game, cur>>

GiveUp ==
  /\ pc = "takeover"
  /\ hasError' = TRUE
  /\ Return(Msg("error", 0))
  /\ UNCHANGED <<game, cur, paused, conn, slot, netVars>>

\* The game ends and closes its agents; a client of that name may sit in the
\* next one.
EndGame ==
  /\ pc = "idle"
  /\ result' = Msg("none", 0)
  /\ IF game = Games
     THEN /\ pc' = "over"
          /\ link' = [link EXCEPT ![conn] = "closed"]
          /\ UNCHANGED <<game, conn, hasError, reader, chan, wire, inbox, clientVars>>
     ELSE /\ game' = game + 1
          /\ hasError' = FALSE
          /\ Switch(FirstConn[game + 1], <<>>)
          /\ UNCHANGED pc
  /\ UNCHANGED <<cur, retry, paused, slot>>
-----------------------------------------------------------------------------
Take1 == TakeToken \/ TakeAnswer \/ TakeError \/ TakeName
GameStep == Request \/ Take1 \/ TimeOut \/ PauseEnds \/ TakeOver \/ GiveUp

Client(c) == Show(c) \/ Speak(c) \/ PauseHere(c) \/ ResumeHere(c) \/ Reply(c)

Next ==
  \/ GameStep \/ Notify \/ EndGame
  \/ \E c \in Conns : Read(c) \/ HangUp(c) \/ Offer(c) \/ Client(c)

Spec == Init /\ [][Next]_vars

\* The server's goroutines and timers go on; nothing is asked of clients.  A
\* wait can be paused again and again, so its end rests on the bound Pauses.
FairSpec == Spec /\ WF_vars(GameStep)
-----------------------------------------------------------------------------
(* Properties.                                                             *)

TypeOK ==
  /\ game \in 1..Games /\ cur \in 0..Requests
  /\ pc \in {"idle", "answer", "name", "takeover", "over"}
  /\ pc \in {"idle", "over"} \/ cur \in 1..Requests
  /\ result \in Msgs
  /\ retry \in BOOLEAN /\ paused \in BOOLEAN /\ hasError \in BOOLEAN
  /\ conn \in Conns
  /\ slot \in [1..Games -> SUBSET Conns]
  /\ link \in [Conns -> {"new", "up", "hungup", "closed"}]
  /\ reader \in [Conns -> {"none", "reading", "ended"}]
  /\ chan \in [Conns -> Seq(Msgs)] /\ \A c \in Conns : Len(chan[c]) <= Cap
  /\ wire \in [Conns -> Seq(Msgs)]
  /\ inbox \in [Conns -> Seq(0..Requests)]
  /\ screen \in [Conns -> Screens] /\ stray \subseteq Conns

Returned == pc \in {"idle", "over"} /\ result.kind # "none"

\* What SendPacket returns for a request is the client's answer to that very
\* request: whatever is late, paused, dropped or taken over, it is never the
\* answer to an earlier request, nor the name asked for to see whether the
\* client lives (model/agent.go:288-318).  The one way out of step is the
\* viewer's timer that outlived its request and spoke on this connection.
AnswersInStep ==
  Returned =>
    /\ result.kind \in {"answer", "timeout", "error"} \/ conn \in stray
    /\ result.kind = "answer" => result.re = cur \/ conn \in stray

\* Every connection the server has not closed is the seat's own or waits to
\* take a seat over: none is left open with nobody to close it
\* (OfferTakeover, WaitTakeover, handleTakeover).
ConnectionsAccounted ==
  \A c \in Conns :
    link[c] \in {"up", "hungup"} => c = conn \/ \E g \in 1..Games : c \in slot[g]

\* The game goroutine gets past every request, whether the client answers,
\* stays silent, pauses and never resumes, or is gone (agent.go:174-179).
WaitsEnd == []<>(pc \in {"idle", "over"})

\* A takeover connection accepted while a seat of that name waits for one goes
\* to the seat that waits (logic/game.go:267-268).
TakeoverReachesSeat ==
  [][\A c \in Conns :
       pc = "takeover" /\ link[c] = "new" /\ link'[c] = "up" => c \in slot'[game]]_vars
=============================================================================
