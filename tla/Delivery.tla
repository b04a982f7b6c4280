------------------------------ MODULE Delivery ------------------------------
(***************************************************************************)
(* How the players of one game get to see it: the connections of ws/hub.go *)
(* and ws/client.go and the broadcasts of game/room.go.                    *)
(*                                                                         *)
(* A connection is written to by its WritePump, which takes answers from   *)
(* the Send channel, and directly by every goroutine that broadcasts, and  *)
(* it is closed by its read loop, its pump or the hub.  Answers come from  *)
(* its own read loop, and a word of its own accord from another goroutine: *)
(* "matched" from the reader of the player who completes the room, or that *)
(* the queue has timed out.  closeMu guards the closed flag and the Send   *)
(* channel, writeMu the connection itself; the hub's mutex is held while   *)
(* the hub closes the connection it replaces.                              *)
(*                                                                         *)
(* Abstractions.  The room is its version: a number that grows with every  *)
(* change, so that a snapshot is the version it was taken at; the game     *)
(* starts with a change and is over with its last one; 0 stands for        *)
(* nothing sent yet.  Which message changes the room is Room's business,   *)
(* and whether an ended connection was still its player's is Lobby's: both *)
(* are choices here.                                                       *)
(* A read lock that is given back at once is part of the step that reads.  *)
(* A write that a peer does not take ends with an error after writeWait,   *)
(* and a connection on which a write has failed takes no more              *)
(* (gorilla/websocket keeps the error).                                    *)
(*                                                                         *)
(* Bounds.  VersionBound bounds the changes, RefusalBound the messages     *)
(* that are refused, Capacity the Send channel (256 in the code).          *)
(* BusyBound bounds the goroutines that have something to do when another  *)
(* one takes something up, from a peer, the clock or a channel.            *)
(***************************************************************************)
EXTENDS Integers, Sequences, FiniteSets

CONSTANTS Clients,   \* the connections of the two players
          SeatOf,    \* whose connection it is
          First,     \* the connections the game began with
          Workers,   \* goroutines of timers and callbacks
          Faulty,    \* connections whose peer may go or stall
          Talkers,   \* connections whose peer does more than start or rejoin the game
          NoClient, Capacity, VersionBound, RefusalBound, BusyBound

Seats == {0, 1}
MaybeClient == Clients \cup {NoClient}

ASSUME DeliveryAssumption ==
  /\ SeatOf \in [Clients -> Seats]
  /\ First \in [Seats -> Clients]
  /\ \A s \in Seats : SeatOf[First[s]] = s
  /\ NoClient \notin Clients
  /\ Faulty \subseteq Clients /\ Talkers \subseteq Clients
  /\ Capacity \in Nat \ {0}
  /\ VersionBound \in Nat /\ RefusalBound \in Nat
  /\ BusyBound \in Nat \ {0}

VARIABLES hub,       \* hub.clients, by the seat of the session
          newcomer,  \* the client the hub is registering
          closed,    \* client.closed, and the Send channel with it
          send,      \* client.Send
          closeMu, writeMu,   \* who has them
          cut,       \* connections closed by Conn.Close
          lost,      \* connections whose peer is gone or has stalled
          broken,    \* connections on which a write has failed
          version,   \* of the room
          state,     \* client.State
          refusals,  \* messages refused so far
          phase,     \* whether the first player waits for the second, or all is over
          job,       \* the goroutines
          view,      \* the version the peer was last sent
          newest,    \* the newest it was ever sent
          due        \* the version when the room last changed, or the
                     \* client came back, with the client registered

lockVars  == <<closeMu, writeMu>>
roomVars  == <<version, phase, state, refusals>>
peerVars  == <<cut, lost, broken>>
shownVars == <<view, newest>>
deliveryVars ==
  <<hub, newcomer, closed, send, lockVars, peerVars, roomVars, job, shownVars, due>>

Reader(c) == <<"reader", c>>
Pump(c)   == <<"pump", c>>
Worker(w) == <<"worker", w>>
Hub       == <<"hub">>
Nobody    == <<"nobody">>
Readers == {Reader(c) : c \in Clients}
Pumps   == {Pump(c) : c \in Clients}
Players == Readers \cup {Worker(w) : w \in Workers}
Goroutines == Players \cup Pumps \cup {Hub}

(***************************************************************************)
(* A goroutine's job: where it is, what it is about, the seat it is at in  *)
(* a broadcast, the client it writes to or closes, and its snapshot.       *)
(***************************************************************************)
Writing == {"look", "snap", "enter", "turn", "write"}
PCs == {"new", "idle", "gone", "answer", "put", "hold", "register",
        "unregister", "close", "cut"} \cup Writing
Words == {"matched", "queue_timeout"}   \* to whoever is registered at a seat
Answers == {"reconnected", "error"} \cup Words
Kinds == {"none", "state", "notice", "left", "end", "ping", "bye"} \cup Answers
Job == [at : PCs, kind : Kinds, seat : Seats, to : MaybeClient, got : Nat]

At(g, pc) == job[g].at = pc
Kind(g) == job[g].kind
Target(g) == job[g].to
MkJob(pc, kind, seat, c, v) ==
  [at |-> pc, kind |-> kind, seat |-> seat, to |-> c, got |-> v]
Idle == MkJob("idle", "none", 0, NoClient, 0)
Gone == MkJob("gone", "none", 0, NoClient, 0)
Become(g, j) == job' = [job EXCEPT ![g] = j]
Goto(g, pc) == job' = [job EXCEPT ![g].at = pc]

Busy(g) == job[g].at \notin {"new", "idle", "gone"}
AllRest == \A g \in Goroutines : ~Busy(g)
MayStart == Cardinality({g \in Goroutines : Busy(g)}) < BusyBound

DeliveryTypeOK ==
  /\ hub \in [Seats -> MaybeClient]
  /\ newcomer \in MaybeClient
  /\ closed \in [Clients -> BOOLEAN]
  /\ send \in [Clients -> Seq(Answers)]
  /\ \A c \in Clients : Len(send[c]) <= Capacity
  /\ closeMu \in [Clients -> Goroutines \cup {Nobody}]
  /\ writeMu \in [Clients -> Goroutines \cup {Nobody}]
  /\ cut \in SUBSET Clients /\ lost \in SUBSET Clients
  /\ broken \in SUBSET Clients
  /\ version \in Nat /\ phase \in {"waiting", "playing", "over"}
  /\ state \in [Clients -> {"Lobby", "Waiting", "InGame"}] /\ refusals \in Nat
  /\ job \in [Goroutines -> Job]
  /\ view \in [Clients -> Nat] /\ newest \in [Clients -> Nat]
  /\ due \in [Clients -> Nat]

\* A game whose start has been shown to its two first connections; or the first
\* player waits for the second, who has a connection.
IsFirst(c) == First[SeatOf[c]] = c
Shown == [c \in Clients |-> IF phase = "playing" /\ IsFirst(c) THEN 1 ELSE 0]
DeliveryInit ==
  /\ hub = First /\ newcomer = NoClient
  /\ closed = [c \in Clients |-> FALSE]
  /\ send = [c \in Clients |-> <<>>]
  /\ closeMu = [c \in Clients |-> Nobody]
  /\ writeMu = [c \in Clients |-> Nobody]
  /\ cut = {} /\ lost = {} /\ broken = {}
  /\ version = 1 /\ phase \in {"waiting", "playing"} /\ refusals = 0
  /\ state = [c \in Clients |-> IF ~IsFirst(c) THEN "Lobby"
                                ELSE IF phase = "playing" THEN "InGame"
                                ELSE IF c = First[0] THEN "Waiting" ELSE "Lobby"]
  /\ job = [g \in Goroutines |->
              IF \E c \in Clients : ~IsFirst(c) /\ g \in {Reader(c), Pump(c)}
                THEN MkJob("new", "none", 0, NoClient, 0)
                ELSE Idle]
  /\ view = Shown /\ newest = Shown /\ due = Shown

-----------------------------------------------------------------------------
(* The hub.                                                                *)

\* h.mu is write-locked while the old client is closed.
HubLocked == At(Hub, "close") \/ At(Hub, "cut")

\* handleWebSocket up to its read loop: Register hands the client to the hub's
\* goroutine and does not wait for what the hub does with it.
Connect(c) ==
  /\ At(Reader(c), "new") /\ At(Hub, "idle") /\ MayStart
  /\ newcomer' = c
  /\ job' = [job EXCEPT ![Hub].at = "register", ![Reader(c)] = Idle, ![Pump(c)] = Idle]
  /\ UNCHANGED <<hub, closed, send, lockVars, peerVars, roomVars, shownVars, due>>

Enters(c) == hub' = [hub EXCEPT ![SeatOf[c]] = c] /\ newcomer' = NoClient

HubRegister ==
  /\ At(Hub, "register")
  /\ LET old == hub[SeatOf[newcomer]]
     IN IF old = NoClient
          THEN Enters(newcomer) /\ Become(Hub, Idle)
          ELSE /\ Become(Hub, MkJob("close", "none", 0, old, 0))
               /\ UNCHANGED <<hub, newcomer>>
  /\ UNCHANGED <<closed, send, lockVars, peerVars, roomVars, shownVars, due>>

\* Only the client that is registered is unregistered.
HubUnregister ==
  /\ At(Hub, "unregister")
  /\ LET c == Target(Hub)
     IN hub' = [hub EXCEPT ![SeatOf[c]] = IF @ = c THEN NoClient ELSE @]
  /\ Become(Hub, Idle)
  /\ UNCHANGED <<newcomer, closed, send, lockVars, peerVars, roomVars, shownVars, due>>

-----------------------------------------------------------------------------
(* Close.  It is over for a read loop and a pump; the hub goes on to enter *)
(* the newcomer.                                                           *)

AfterClose(g) ==
  IF g = Hub
    THEN Enters(newcomer) /\ Become(Hub, Idle)
    ELSE Become(g, Gone) /\ UNCHANGED <<hub, newcomer>>

BeginClose(g) ==
  LET c == Target(g)
  IN /\ At(g, "close") /\ closeMu[c] = Nobody
     /\ IF closed[c]
          THEN AfterClose(g) /\ UNCHANGED <<closed, closeMu>>
          ELSE /\ closed' = [closed EXCEPT ![c] = TRUE]
               /\ closeMu' = [closeMu EXCEPT ![c] = g]
               /\ Goto(g, "cut")
               /\ UNCHANGED <<hub, newcomer>>
     /\ UNCHANGED <<send, writeMu, peerVars, roomVars, shownVars, due>>

CutConnection(g) ==
  LET c == Target(g)
  IN /\ At(g, "cut") /\ writeMu[c] = Nobody
     /\ cut' = cut \cup {c}
     /\ closeMu' = [closeMu EXCEPT ![c] = Nobody]
     /\ AfterClose(g)
     /\ UNCHANGED <<closed, send, writeMu, lost, broken, roomVars, shownVars, due>>

-----------------------------------------------------------------------------
(* Broadcasts, one seat after the other.                                   *)

\* BroadcastState finds the client and then takes its snapshot;
\* broadcastStateWithMessage takes it first.
FirstStep(kind) == IF kind = "notice" THEN "snap" ELSE "look"
Broadcast(g, kind, v) == Become(g, MkJob(FirstStep(kind), kind, 0, NoClient, v))

\* What the goroutine does once the seat has been served, or has no client: the
\* other seat, or what comes after the two.  A player's leaving is told the
\* opponent only, a time-out the player.
OneSeat == {"left", "queue_timeout"}
OtherSeat(g) ==
  Become(g, MkJob(FirstStep(Kind(g)), Kind(g), 1, NoClient,
                  IF Kind(g) = "end" THEN job[g].got ELSE 0))
Afterwards(g) ==
  Become(g, IF Kind(g) = "left" THEN MkJob("unregister", "none", 0, NoClient, 0)
            ELSE IF Kind(g) = "matched" THEN MkJob("look", "state", 0, NoClient, 0)
            ELSE Idle)
NextSeat_StopsEarly(g) ==   \* Mutation: a seat without a client ends it all.
  IF job[g].seat = 0 /\ Kind(g) \notin OneSeat /\ Target(g) # NoClient
    THEN OtherSeat(g) ELSE Afterwards(g)
NextSeat(g) ==
  IF job[g].seat = 0 /\ Kind(g) \notin OneSeat THEN OtherSeat(g) ELSE Afterwards(g)

\* hub.GetClient; with the word to a player goes the state of his client.
WhenFound(kind) ==
  IF kind = "state" THEN "snap" ELSE IF kind \in Words THEN "answer" ELSE "enter"
Look(g) ==
  LET c == hub[job[g].seat]
  IN /\ At(g, "look") /\ ~HubLocked
     /\ IF c = NoClient
          THEN NextSeat(g) /\ UNCHANGED state
          ELSE /\ job' = [job EXCEPT ![g].at = WhenFound(Kind(g)), ![g].to = c]
               /\ state' = [state EXCEPT ![c] = CASE Kind(g) = "matched" -> "InGame"
                                                  [] Kind(g) = "queue_timeout" -> "Lobby"
                                                  [] OTHER -> @]
     /\ UNCHANGED <<hub, newcomer, closed, send, lockVars, peerVars, version, phase,
                    refusals, shownVars, due>>

\* GetGameStateForPlayer.
Snapshot(g) ==
  /\ At(g, "snap")
  /\ job' = [job EXCEPT ![g].at = IF Kind(g) = "state" THEN "enter" ELSE "look",
                        ![g].got = version]
  /\ UNCHANGED <<hub, newcomer, closed, send, lockVars, peerVars, roomVars,
                 shownVars, due>>

\* WriteMessageDirect: closeMu is kept until writeMu is held, so that nobody
\* can close the connection in between.
EnterWrite_LetsGo(g) ==   \* Mutation: closeMu is given back too early.
  LET c == Target(g)
  IN /\ At(g, "enter") /\ closeMu[c] = Nobody
     /\ IF closed[c] THEN NextSeat(g) ELSE Goto(g, "turn")
     /\ UNCHANGED <<hub, newcomer, closed, send, lockVars, peerVars, roomVars,
                    shownVars, due>>
EnterWrite_KeepsLock(g) ==   \* Mutation: the early return keeps closeMu.
  LET c == Target(g)
  IN /\ At(g, "enter") /\ closeMu[c] = Nobody
     /\ IF closed[c] THEN NextSeat(g) ELSE Goto(g, "turn")
     /\ closeMu' = [closeMu EXCEPT ![c] = g]
     /\ UNCHANGED <<hub, newcomer, closed, send, writeMu, peerVars, roomVars,
                    shownVars, due>>
EnterWrite(g) ==
  LET c == Target(g)
  IN /\ At(g, "enter") /\ closeMu[c] = Nobody
     /\ IF closed[c]
          THEN NextSeat(g) /\ UNCHANGED closeMu
          ELSE Goto(g, "turn") /\ closeMu' = [closeMu EXCEPT ![c] = g]
     /\ UNCHANGED <<hub, newcomer, closed, send, writeMu, peerVars, roomVars,
                    shownVars, due>>

BeginWrite(g) ==
  LET c == Target(g)
  IN /\ At(g, "turn") /\ writeMu[c] = Nobody
     /\ writeMu' = [writeMu EXCEPT ![c] = g]
     /\ closeMu' = [closeMu EXCEPT ![c] = Nobody]
     /\ Goto(g, "write")
     /\ UNCHANGED <<hub, newcomer, closed, send, peerVars, roomVars, shownVars, due>>

MayFail(c) == c \in lost \cup broken \cup cut
MaySucceed(c) == c \notin broken \cup cut
Bigger(m, n) == IF m < n THEN n ELSE m
ShowsGame(g) == Kind(g) \in {"state", "notice", "end"}

EndWrite(g) ==
  LET c == Target(g)
  IN /\ At(g, "write") /\ g \notin Pumps
     /\ \/ MaySucceed(c) /\ UNCHANGED broken
           /\ IF ShowsGame(g)
                THEN /\ view' = [view EXCEPT ![c] = job[g].got]
                     /\ newest' = [newest EXCEPT ![c] = Bigger(@, job[g].got)]
                ELSE UNCHANGED <<view, newest>>
        \/ MayFail(c) /\ broken' = broken \cup {c} /\ UNCHANGED <<view, newest>>
     /\ writeMu' = [writeMu EXCEPT ![c] = Nobody]
     /\ NextSeat(g)
     /\ UNCHANGED <<hub, newcomer, closed, send, closeMu, cut, lost, roomVars, due>>

-----------------------------------------------------------------------------
(* The Send channel and its pump.                                          *)

\* After the answer to a reconnection comes the state of the game.
AfterSend(g) ==
  IF Kind(g) \in Words THEN NextSeat(g)
  ELSE IF Kind(g) = "reconnected" THEN Broadcast(g, "state", 0)
  ELSE Become(g, Idle)

\* SendMessage: closeMu is held from the check to the send, which panics on a
\* closed channel.
BeginSend_Unlocked(g) ==   \* Mutation: the check without the lock.
  LET c == Target(g)
  IN /\ At(g, "answer") /\ closeMu[c] = Nobody
     /\ IF closed[c] THEN AfterSend(g) ELSE Goto(g, "put")
     /\ UNCHANGED <<hub, newcomer, closed, send, lockVars, peerVars, roomVars,
                    shownVars, due>>
BeginSend(g) ==
  LET c == Target(g)
  IN /\ At(g, "answer") /\ closeMu[c] = Nobody
     /\ IF closed[c]
          THEN AfterSend(g) /\ UNCHANGED closeMu
          ELSE Goto(g, "put") /\ closeMu' = [closeMu EXCEPT ![c] = g]
     /\ UNCHANGED <<hub, newcomer, closed, send, writeMu, peerVars, roomVars,
                    shownVars, due>>

\* Mutation: the channel has no limit.
Send_Grows(g) ==
  LET c == Target(g)
  IN /\ At(g, "put")
     /\ send' = [send EXCEPT ![c] = Append(@, Kind(g))]
     /\ closeMu' = [closeMu EXCEPT ![c] = Nobody]
     /\ AfterSend(g)
     /\ UNCHANGED <<hub, newcomer, closed, writeMu, peerVars, roomVars, shownVars, due>>

\* A full channel drops the answer.
Send(g) ==
  LET c == Target(g)
  IN /\ At(g, "put")
     /\ send' = [send EXCEPT ![c] = IF Len(@) < Capacity THEN Append(@, Kind(g)) ELSE @]
     /\ closeMu' = [closeMu EXCEPT ![c] = Nobody]
     /\ AfterSend(g)
     /\ UNCHANGED <<hub, newcomer, closed, writeMu, peerVars, roomVars, shownVars, due>>

Hold(c, what) == Become(Pump(c), MkJob("hold", what, 0, c, 0))

Take(c) ==
  /\ At(Pump(c), "idle") /\ send[c] # <<>> /\ MayStart
  /\ Hold(c, Head(send[c]))
  /\ send' = [send EXCEPT ![c] = Tail(@)]
  /\ UNCHANGED <<hub, newcomer, closed, lockVars, peerVars, roomVars, shownVars, due>>

\* The channel is closed and empty: a close frame is the pump's last write.
TakeClosed(c) ==
  /\ At(Pump(c), "idle") /\ closed[c] /\ send[c] = <<>> /\ MayStart
  /\ Hold(c, "bye")
  /\ UNCHANGED <<hub, newcomer, closed, send, lockVars, peerVars, roomVars,
                 shownVars, due>>

\* A ping that fails; one that is taken changes nothing and is left out.
Ping(c) ==
  /\ At(Pump(c), "idle") /\ MayFail(c) /\ MayStart
  /\ Hold(c, "ping")
  /\ UNCHANGED <<hub, newcomer, closed, send, lockVars, peerVars, roomVars,
                 shownVars, due>>

PumpLock_Not(c) ==   \* Mutation: the pump trusts to be the only writer.
  /\ At(Pump(c), "hold")
  /\ Goto(Pump(c), "write")
  /\ UNCHANGED <<hub, newcomer, closed, send, lockVars, peerVars, roomVars,
                 shownVars, due>>
PumpLock(c) ==
  /\ At(Pump(c), "hold") /\ writeMu[c] = Nobody
  /\ writeMu' = [writeMu EXCEPT ![c] = Pump(c)]
  /\ Goto(Pump(c), "write")
  /\ UNCHANGED <<hub, newcomer, closed, send, closeMu, peerVars, roomVars,
                 shownVars, due>>

\* After an error, or the close frame, the pump closes its client.
PumpEnds(c) == Become(Pump(c), MkJob("close", "none", 0, c, 0))
PumpGoesOn(c) == Become(Pump(c), Idle)

PumpWrite(c) ==
  LET what == Kind(Pump(c))
  IN /\ At(Pump(c), "write")
     /\ \/ /\ MaySucceed(c) /\ what # "ping"
           /\ IF what = "bye" THEN PumpEnds(c) ELSE PumpGoesOn(c)
           /\ UNCHANGED broken
        \/ MayFail(c) /\ broken' = broken \cup {c} /\ PumpEnds(c)
     /\ writeMu' = [writeMu EXCEPT ![c] = Nobody]
     /\ UNCHANGED <<hub, newcomer, closed, send, closeMu, cut, lost, roomVars,
                    shownVars, due>>

-----------------------------------------------------------------------------
(* What the players, the timer and the callbacks do.                       *)

\* Reading fails once the connection is closed.
CanRead(c) == c \notin cut \cup lost /\ At(Reader(c), "idle")
Reads(c) == c \in Talkers /\ CanRead(c)

\* The room changes, and whoever is registered should see it.
Changes ==
  /\ version < VersionBound
  /\ version' = version + 1
  /\ due' = [c \in Clients |-> IF hub[SeatOf[c]] = c THEN version' ELSE due[c]]

\* The second player's join_queue completes the room and starts the game: both are
\* told, and then shown the room.  (join_room looks up the first player only.)
Start ==
  LET c == First[1]
  IN /\ phase = "waiting" /\ state[c] = "Lobby" /\ CanRead(c) /\ MayStart
     /\ Changes
     /\ phase' = "playing"
     /\ Become(Reader(c), MkJob("look", "matched", 0, NoClient, 0))
     /\ UNCHANGED <<hub, newcomer, closed, send, lockVars, peerVars, state, refusals,
                    shownVars>>

\* A message that is admitted, or a callback or tick of the timer, changes the
\* room and broadcasts it; only callbacks do so with a word about the turn.
Acts(g) == \/ g \notin Readers
           \/ \E c \in Clients : g = Reader(c) /\ Reads(c) /\ state[c] = "InGame"
Change(g) ==
  /\ phase = "playing" /\ At(g, "idle") /\ Acts(g) /\ MayStart
  /\ Changes
  /\ \E kind \in {"state", "notice"} :
       (kind = "notice" => g \notin Readers) /\ Broadcast(g, kind, 0)
  /\ UNCHANGED <<hub, newcomer, closed, send, lockVars, peerVars, phase, state,
                 refusals, shownVars>>

\* endGame: the room is finished, and BroadcastMessage tells the result.  It has
\* the room's read lock all the while; nobody waits for the room with any of the
\* locks modelled here, so that others are late, which they may be anyway.
End(g) ==
  /\ phase = "playing" /\ At(g, "idle") /\ Acts(g) /\ MayStart
  /\ Changes
  /\ phase' = "over"
  /\ Broadcast(g, "end", version')
  /\ UNCHANGED <<hub, newcomer, closed, send, lockVars, peerVars, state, refusals,
                 shownVars>>

\* A message that is refused, reconnect among them when there is no game.
Refuse(c) ==
  /\ refusals < RefusalBound /\ Reads(c) /\ MayStart
  /\ refusals' = refusals + 1
  /\ Become(Reader(c), MkJob("answer", "error", 0, c, 0))
  /\ UNCHANGED <<hub, newcomer, closed, send, lockVars, peerVars, version, phase,
                 state, shownVars, due>>

\* The matchmaker gives up the player who waits, and his client, whichever that is
\* by then, is told so.
QueueTimesOut(w) ==
  /\ phase = "waiting" /\ At(Worker(w), "idle") /\ MayStart
  /\ phase' = "over"
  /\ Become(Worker(w), MkJob("look", "queue_timeout", 0, NoClient, 0))
  /\ UNCHANGED <<hub, newcomer, closed, send, lockVars, peerVars, version, state,
                 refusals, shownVars, due>>

\* The player is back and, once registered, should see the room as it is.
Reconnect(c) ==
  /\ phase = "playing" /\ state[c] = "Lobby" /\ CanRead(c) /\ MayStart
  /\ state' = [state EXCEPT ![c] = "InGame"]
  /\ due' = [due EXCEPT ![c] = IF hub[SeatOf[c]] = c THEN version ELSE @]
  /\ Become(Reader(c), MkJob("answer", "reconnected", 0, c, 0))
  /\ UNCHANGED <<hub, newcomer, closed, send, lockVars, peerVars, version, phase,
                 refusals, shownVars>>

Lose(c) ==
  /\ c \in Faulty \ lost /\ ~At(Reader(c), "new")
  /\ lost' = lost \cup {c}
  /\ UNCHANGED <<hub, newcomer, closed, send, lockVars, cut, broken, roomVars, job,
                 shownVars, due>>

-----------------------------------------------------------------------------
(* The end of a read loop: its peer is gone, or silent for pongWait, or    *)
(* the connection has been closed here.                                    *)

\* OnDisconnect waits for closeMu to find handleClientDisconnect, which tells
\* the opponent or has nothing to do.
ReadEnds(c) ==
  /\ At(Reader(c), "idle") /\ c \in lost \cup cut
  /\ closeMu[c] = Nobody /\ MayStart
  /\ \E at \in {"look", "unregister"} :
       /\ at = "look" => phase = "playing"
       /\ Become(Reader(c), MkJob(at, "left", 1 - SeatOf[c], NoClient, 0))
  /\ UNCHANGED <<hub, newcomer, closed, send, lockVars, peerVars, roomVars,
                 shownVars, due>>

Unregister_Never(c) ==   \* Mutation: the hub is not told.
  /\ At(Reader(c), "unregister")
  /\ Become(Reader(c), MkJob("close", "none", 0, c, 0))
  /\ UNCHANGED <<hub, newcomer, closed, send, lockVars, peerVars, roomVars,
                 shownVars, due>>
Unregister(c) ==
  /\ At(Reader(c), "unregister") /\ At(Hub, "idle")
  /\ job' = [job EXCEPT ![Hub] = MkJob("unregister", "none", 0, c, 0),
                        ![Reader(c)] = MkJob("close", "none", 0, c, 0)]
  /\ UNCHANGED <<hub, newcomer, closed, send, lockVars, peerVars, roomVars,
                 shownVars, due>>

-----------------------------------------------------------------------------
Tells(g) ==
  \/ Look(g) \/ Snapshot(g) \/ EnterWrite(g) \/ BeginWrite(g) \/ EndWrite(g)
  \/ BeginSend(g) \/ Send(g)
Closing(g) == BeginClose(g) \/ CutConnection(g)

HubStep == Busy(Hub) /\ (HubRegister \/ HubUnregister \/ Closing(Hub))
PumpStep(c) ==
  \/ Take(c) \/ TakeClosed(c) \/ Ping(c)
  \/ Busy(Pump(c)) /\ (PumpLock(c) \/ PumpWrite(c) \/ Closing(Pump(c)))
ReaderStep(c) ==
  \/ ReadEnds(c)
  \/ Busy(Reader(c)) /\ (Tells(Reader(c)) \/ Unregister(c) \/ Closing(Reader(c)))

Arrive ==
  \/ \E c \in Clients : Connect(c) \/ Refuse(c) \/ Reconnect(c) \/ Lose(c)
  \/ \E g \in Players : Change(g) \/ End(g)
  \/ Start \/ \E w \in Workers : QueueTimesOut(w)

Work ==
  \/ HubStep
  \/ \E c \in Clients : PumpStep(c) \/ ReaderStep(c)
  \/ \E w \in Workers : Busy(Worker(w)) /\ Tells(Worker(w))

DeliveryNext == Arrive \/ Work
DeliverySpec == DeliveryInit /\ [][DeliveryNext]_deliveryVars

\* The server goes on as long as one of its goroutines can: writes end by
\* writeWait at the latest, and the pump's ticker fires.  Nothing is assumed of
\* the players and their connections, nor which goroutine runs.
DeliveryFairness == WF_deliveryVars(Work)

FairDeliverySpec == DeliverySpec /\ DeliveryFairness
=============================================================================
