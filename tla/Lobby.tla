------------------------------- MODULE Lobby -------------------------------
(***************************************************************************)
(* Everything around the games: connections and their sessions, the hub,   *)
(* the matchmaking queue, rooms with free seats, leaving, disconnection    *)
(* and reconnection.  cmd/server/main.go with ws/hub.go, ws/client.go,     *)
(* game/matchmaker.go and game/player.go.                                  *)
(*                                                                         *)
(* A client is one WebSocket connection; a session may have several, one   *)
(* after the other or at once (two tabs).  A Player object is known by the *)
(* client it was made from.  As in Room, one action is one critical        *)
(* section (of the matchmaker, the registry, a room, a player's connection *)
(* or a client's state) and a handler that locks several times has a       *)
(* program counter.  A game is only waiting, playing or finished here.     *)
(*                                                                         *)
(* Abstractions.  Room codes are unique, and a code is sent only by those  *)
(* who can have it: after its creator was told.  Answers to the clients    *)
(* are left out.  Durations are not counted: an entry of the queue may     *)
(* time out at any moment, and a grace period ends at any moment after it  *)
(* began; awayBy stands for DisconnectedAt.                                *)
(*                                                                         *)
(* Bounds.  Rooms bounds the rooms that exist at once: one that nobody can *)
(* reach any more is garbage, and its name is used again.  BusyBound       *)
(* bounds the handlers and callbacks under way at once; with 1 each of     *)
(* them is atomic.                                                         *)
(***************************************************************************)
EXTENDS Integers, Sequences, FiniteSets

CONSTANTS Clients, Sessions, SessionOf, Rooms, NoClient, NoRoom,
          BusyBound

ASSUME LobbyAssumption ==
  /\ SessionOf \in [Clients -> Sessions]
  /\ NoClient \notin Clients
  /\ NoRoom \notin Rooms
  /\ BusyBound \in Nat \ {0}

VARIABLES hub,          \* hub.clients
          hubJob,       \* what the hub's goroutine has received
          clientState, closed,
          queue,        \* the players of matchmaker.queue
          timedOut,     \* entries the clean-up has yet to tell
          seats,        \* room.Players: the client each was made from
          conn,         \* Player.Conn
          awayBy,       \* the connection whose loss set DisconnectedAt
          phase, listed,
          codes,        \* rooms whose code has been sent to their creator
          go            \* the goroutines

hubVars   == <<hub, hubJob, closed>>
queueVars == <<queue, timedOut>>
roomVars  == <<seats, conn, awayBy, phase, listed, codes>>
lobbyVars == <<hubVars, clientState, queueVars, roomVars, go>>

Seats == {0, 1}
MaybeClient == Clients \cup {NoClient}

\* Goroutines: a client's read loop, the callback of its grace period, and the
\* callback that ends the game of a room by the rules.
Read(c)  == <<"read", c>>
Grace(c) == <<"grace", c>>
Game(r)  == <<"game", r>>
Loops == {Read(c) : c \in Clients}
Goroutines == Loops \cup {Grace(c) : c \in Clients} \cup {Game(r) : r \in Rooms}

PCs == {"new", "idle",
        "join", "begin", "tell", "wait", "create",
        "lookup", "sit", "beginRoom", "enter", "tellHost",
        "leave", "leaving", "clear", "quit", "dequeue", "toLobby",
        "rejoin", "check", "bind", "bound",
        "lost", "unbind", "alone", "drop", "warn", "forget", "unregister",
        "close", "done", "sleep", "due", "absent",
        "finish", "reset", "remove"}
Job == [pc : PCs, room : Rooms \cup {NoRoom}, seat : Seats]

At(g, pc) == go[g].pc = pc
RoomOf(g) == go[g].room
SeatIn(g) == go[g].seat
Goto(g, pc, r, i) == go' = [go EXCEPT ![g] = [pc |-> pc, room |-> r, seat |-> i]]
Rest(g) == Goto(g, "idle", NoRoom, 0)
Then(g, pc) == Goto(g, pc, RoomOf(g), SeatIn(g))

HubIdle == [op |-> "none", client |-> NoClient]

LobbyTypeOK ==
  /\ hub \in [Sessions -> MaybeClient]
  /\ hubJob \in [op : {"none", "register", "unregister"}, client : MaybeClient]
  /\ clientState \in [Clients -> {"lobby", "waiting", "in_game"}]
  /\ closed \in [Clients -> BOOLEAN]
  /\ queue \in Seq(Clients)
  /\ timedOut \in Seq(Clients)
  /\ seats \in [Rooms -> [Seats -> MaybeClient]]
  /\ conn \in [Rooms -> [Seats -> MaybeClient]]
  /\ awayBy \in [Rooms -> [Seats -> MaybeClient]]
  /\ phase \in [Rooms -> {"waiting", "playing", "finished"}]
  /\ listed \in SUBSET Rooms
  /\ codes \in SUBSET Rooms
  /\ go \in [Goroutines -> Job]

LobbyInit ==
  /\ hub = [s \in Sessions |-> NoClient]
  /\ hubJob = HubIdle
  /\ clientState = [c \in Clients |-> "lobby"]
  /\ closed = [c \in Clients |-> FALSE]
  /\ queue = <<>> /\ timedOut = <<>>
  /\ seats = [r \in Rooms |-> [i \in Seats |-> NoClient]]
  /\ conn = [r \in Rooms |-> [i \in Seats |-> NoClient]]
  /\ awayBy = [r \in Rooms |-> [i \in Seats |-> NoClient]]
  /\ phase = [r \in Rooms |-> "finished"]
  /\ listed = {} /\ codes = {}
  /\ go = [g \in Goroutines |->
             [pc |-> IF g \in Loops THEN "new" ELSE "idle",
              room |-> NoRoom, seat |-> 0]]

-----------------------------------------------------------------------------
(* Lookups.                                                                *)

Full(r) == seats[r][0] # NoClient /\ seats[r][1] # NoClient
Active(r) == phase[r] # "finished" /\ r \in listed

SitsAt(s, r, i) == seats[r][i] # NoClient /\ SessionOf[seats[r][i]] = s
SitsIn(s, r) == \E i \in Seats : SitsAt(s, r, i)
InQueue(s) == \E k \in 1..Len(queue) : SessionOf[queue[k]] = s

\* GetPlayerBySessionID: the first of the two seats.
SeatOf(s, r) == IF SitsAt(s, r, 0) THEN 0 ELSE 1

\* findPlayerRoom: any one of the session's rooms (the registry is a map).
FindPlayerRoom(c, found, none) ==
  LET s == SessionOf[c]
  IN \/ \E r \in listed : SitsIn(s, r) /\ Goto(Read(c), found, r, SeatOf(s, r))
     \/ (\A r \in listed : ~SitsIn(s, r)) /\ Then(Read(c), none)

\* hub.GetClient(session).SetState(state), if the session has a client.
SetStateOf(s, state) ==
  clientState' = [c \in Clients |-> IF c = hub[s] THEN state ELSE clientState[c]]
SetState(c, state) == clientState' = [clientState EXCEPT ![c] = state]

\* A handler, callback, clean-up or turn of the hub is under way.
Busy(g) == go[g].pc \notin {"new", "idle", "sleep", "done"}
BusyNow ==
  Cardinality({g \in Goroutines : Busy(g)})
    + (IF hubJob = HubIdle THEN 0 ELSE 1) + (IF timedOut = <<>> THEN 0 ELSE 1)
MayArrive == BusyNow < BusyBound

\* Whoever holds the room or finds it in the registry.
Reached(r) == r \in listed \/ \E g \in Goroutines : RoomOf(g) = r
RoomLeft == \E r \in Rooms : ~Reached(r)

\* JoinQueue holds the matchmaker's lock while the room is made and started.
MatchmakerFree == \A c \in Clients : ~At(Read(c), "begin")

-----------------------------------------------------------------------------
(* The hub.                                                                *)

Register(c) ==
  /\ At(Read(c), "new") /\ MayArrive
  /\ hubJob = HubIdle
  /\ hubJob' = [op |-> "register", client |-> c]
  /\ Rest(Read(c))
  /\ UNCHANGED <<hub, closed, clientState, queueVars, roomVars>>

\* The client that held the session is closed.
HubRegister ==
  /\ hubJob.op = "register"
  /\ LET c == hubJob.client
         s == SessionOf[c]
     IN /\ closed' = [d \in Clients |-> closed[d] \/ d = hub[s]]
        /\ hub' = [hub EXCEPT ![s] = c]
  /\ hubJob' = HubIdle
  /\ UNCHANGED <<clientState, queueVars, roomVars, go>>

\* Mutation: whoever holds the session is unregistered.
HubUnregister_Anyone ==
  /\ hubJob.op = "unregister"
  /\ hub' = [hub EXCEPT ![SessionOf[hubJob.client]] = NoClient]
  /\ hubJob' = HubIdle
  /\ UNCHANGED <<closed, clientState, queueVars, roomVars, go>>

HubUnregister ==
  /\ hubJob.op = "unregister"
  /\ LET c == hubJob.client
         s == SessionOf[c]
     IN hub' = [hub EXCEPT ![s] = IF @ = c THEN NoClient ELSE @]
  /\ hubJob' = HubIdle
  /\ UNCHANGED <<closed, clientState, queueVars, roomVars, go>>

\* The end of the read loop: the hub has taken the request, which it may carry
\* out before or after the client is closed.
Unregister(c) ==
  /\ At(Read(c), "unregister")
  /\ hubJob = HubIdle
  /\ hubJob' = [op |-> "unregister", client |-> c]
  /\ Goto(Read(c), "close", NoRoom, 0)
  /\ UNCHANGED <<hub, closed, clientState, queueVars, roomVars>>

Close(c) ==
  /\ At(Read(c), "close")
  /\ closed' = [closed EXCEPT ![c] = TRUE]
  /\ Goto(Read(c), "done", NoRoom, 0)
  /\ UNCHANGED <<hub, hubJob, clientState, queueVars, roomVars>>

-----------------------------------------------------------------------------
(* Messages: handleMessage admits what the client's state allows.          *)

\* The moves of a game, which are valid in it too, are Room's business.
ValidMessages(state) ==
  IF state = "lobby" THEN {"join", "create", "lookup", "rejoin"} ELSE {"leave"}

Receive(c, msg, r) ==
  /\ At(Read(c), "idle") /\ MayArrive
  /\ msg \in ValidMessages(clientState[c])
  /\ msg = "create" => RoomLeft
  /\ msg = "join" => queue = <<>> \/ RoomLeft
  /\ msg = "lookup" => r \in codes
  /\ Goto(Read(c), msg, IF msg = "lookup" THEN r ELSE NoRoom, 0)
  /\ UNCHANGED <<hubVars, clientState, queueVars, roomVars>>

\* ReadMessage fails: the peer is gone, or Close was called.
Lose(c) ==
  /\ At(Read(c), "idle") /\ MayArrive
  /\ Goto(Read(c), "lost", NoRoom, 0)
  /\ UNCHANGED <<hubVars, clientState, queueVars, roomVars>>

-----------------------------------------------------------------------------
(* join_queue.                                                             *)

\* A room made for the players in p, which nobody else has seen yet.
NewRoom(r, p) ==
  /\ ~Reached(r)
  /\ phase' = [phase EXCEPT ![r] = "waiting"]
  /\ seats' = [seats EXCEPT ![r] = p]
  /\ conn' = [conn EXCEPT ![r] = p]
  /\ awayBy' = [awayBy EXCEPT ![r] = [i \in Seats |-> NoClient]]
  /\ listed' = listed \cup {r}
  /\ codes' = codes \ {r}

\* The session's entry takes the new connection and keeps its place.
JoinAgain(c) ==
  /\ At(Read(c), "join") /\ MatchmakerFree
  /\ \E k \in 1..Len(queue) :
       /\ SessionOf[queue[k]] = SessionOf[c]
       /\ \A j \in 1..(k - 1) : SessionOf[queue[j]] # SessionOf[c]
       /\ queue' = [queue EXCEPT ![k] = c]
  /\ Then(Read(c), "wait")
  /\ UNCHANGED <<hubVars, clientState, timedOut, roomVars>>

\* Mutation: the one who waited is matched and still waits.
JoinMatched_Peeks(c, r) ==
  /\ At(Read(c), "join") /\ MatchmakerFree
  /\ ~InQueue(SessionOf[c])
  /\ queue # <<>>
  /\ NewRoom(r, [i \in Seats |-> IF i = 0 THEN Head(queue) ELSE c])
  /\ Goto(Read(c), "begin", r, 0)
  /\ UNCHANGED <<hubVars, clientState, queueVars>>

JoinMatched(c, r) ==
  /\ At(Read(c), "join") /\ MatchmakerFree
  /\ ~InQueue(SessionOf[c])
  /\ queue # <<>>
  /\ queue' = Tail(queue)
  /\ NewRoom(r, [i \in Seats |-> IF i = 0 THEN Head(queue) ELSE c])
  /\ Goto(Read(c), "begin", r, 0)
  /\ UNCHANGED <<hubVars, clientState, timedOut>>

JoinWaits(c) ==
  /\ At(Read(c), "join") /\ MatchmakerFree
  /\ queue = <<>>
  /\ queue' = Append(queue, c)
  /\ Then(Read(c), "wait")
  /\ UNCHANGED <<hubVars, clientState, timedOut, roomVars>>

\* StartGame asks nothing.
StartGame(c) ==
  /\ At(Read(c), "begin") \/ At(Read(c), "beginRoom")
  /\ phase' = [phase EXCEPT ![RoomOf(Read(c))] = "playing"]
  /\ Then(Read(c), IF At(Read(c), "begin") THEN "tell" ELSE "enter")
  /\ UNCHANGED <<hubVars, clientState, queueVars,
                 seats, conn, awayBy, listed, codes>>

\* Mutation: only the second player is told.
TellMatched_SecondOnly(c) ==
  LET g == Read(c)
  IN /\ At(g, "tell")
     /\ SetStateOf(SessionOf[seats[RoomOf(g)][1]], "in_game")
     /\ Rest(g)
     /\ UNCHANGED <<hubVars, queueVars, roomVars>>

\* First the one who waited, then the one who came.
TellMatched(c) ==
  LET g == Read(c)
  IN /\ At(g, "tell")
     /\ SetStateOf(SessionOf[seats[RoomOf(g)][SeatIn(g)]], "in_game")
     /\ IF SeatIn(g) = 0 THEN Goto(g, "tell", RoomOf(g), 1) ELSE Rest(g)
     /\ UNCHANGED <<hubVars, queueVars, roomVars>>

\* The end of join_queue without a match, and of create_room.
Wait(c) ==
  /\ At(Read(c), "wait")
  /\ SetState(c, "waiting")
  /\ codes' = codes \cup ({RoomOf(Read(c))} \cap Rooms)
  /\ Rest(Read(c))
  /\ UNCHANGED <<hubVars, queueVars, seats, conn, awayBy, phase, listed>>

\* The clean-up drops the oldest entries, unlocks, and tells them.
CleanUp ==
  /\ MayArrive /\ timedOut = <<>> /\ MatchmakerFree
  /\ \E k \in 1..Len(queue) :
       /\ timedOut' = SubSeq(queue, 1, k)
       /\ queue' = SubSeq(queue, k + 1, Len(queue))
  /\ UNCHANGED <<hubVars, clientState, roomVars, go>>

TellTimedOut ==
  /\ timedOut # <<>>
  /\ SetStateOf(SessionOf[Head(timedOut)], "lobby")
  /\ timedOut' = Tail(timedOut)
  /\ UNCHANGED <<hubVars, queue, roomVars, go>>

-----------------------------------------------------------------------------
(* create_room and join_room.                                              *)

CreateRoom(c, r) ==
  /\ At(Read(c), "create")
  /\ NewRoom(r, [i \in Seats |-> IF i = 0 THEN c ELSE NoClient])
  /\ Goto(Read(c), "wait", r, 0)
  /\ UNCHANGED <<hubVars, clientState, queueVars>>

LookUp(c) ==
  /\ At(Read(c), "lookup")
  /\ IF RoomOf(Read(c)) \in listed THEN Then(Read(c), "sit") ELSE Rest(Read(c))
  /\ UNCHANGED <<hubVars, clientState, queueVars, roomVars>>

\* Mutation: the second seat is taken from whoever has it.
AddPlayer_Replaces(c) ==
  LET r == RoomOf(Read(c))
  IN /\ At(Read(c), "sit")
     /\ seats' = [seats EXCEPT ![r][1] = c]
     /\ conn' = [conn EXCEPT ![r][1] = c]
     /\ Then(Read(c), "beginRoom")
     /\ UNCHANGED <<hubVars, clientState, queueVars,
                    awayBy, phase, listed, codes>>

\* The first seat of a room with a code is its creator's.
AddPlayer(c) ==
  LET r == RoomOf(Read(c))
  IN /\ At(Read(c), "sit")
     /\ \/ /\ Full(r)
           /\ Rest(Read(c))
           /\ UNCHANGED <<seats, conn>>
        \/ /\ ~Full(r)
           /\ seats' = [seats EXCEPT ![r][1] = c]
           /\ conn' = [conn EXCEPT ![r][1] = c]
           /\ Then(Read(c), "beginRoom")
     /\ UNCHANGED <<hubVars, clientState, queueVars,
                    awayBy, phase, listed, codes>>

EnterGame(c) ==
  /\ At(Read(c), "enter")
  /\ SetState(c, "in_game")
  /\ Then(Read(c), "tellHost")
  /\ UNCHANGED <<hubVars, queueVars, roomVars>>

TellHost(c) ==
  /\ At(Read(c), "tellHost")
  /\ SetStateOf(SessionOf[seats[RoomOf(Read(c))][0]], "in_game")
  /\ Rest(Read(c))
  /\ UNCHANGED <<hubVars, queueVars, roomVars>>

-----------------------------------------------------------------------------
(* leave_room.                                                             *)

FindToLeave(c) ==
  /\ At(Read(c), "leave")
  /\ FindPlayerRoom(c, "leaving", "dequeue")
  /\ UNCHANGED <<hubVars, clientState, queueVars, roomVars>>

LeaveRoom(c) ==
  LET g == Read(c)
  IN /\ At(g, "leaving")
     /\ IF Active(RoomOf(g)) THEN Then(g, "clear")
                             ELSE Goto(g, "toLobby", NoRoom, 0)
     /\ UNCHANGED <<hubVars, clientState, queueVars, roomVars>>

ClearConnection(c) ==
  LET g == Read(c)
  IN /\ At(g, "clear")
     /\ conn' = [conn EXCEPT ![RoomOf(g)][SeatIn(g)] = NoClient]
     /\ awayBy' = [awayBy EXCEPT ![RoomOf(g)][SeatIn(g)] = NoClient]
     /\ Then(g, "quit")
     /\ UNCHANGED <<hubVars, clientState, queueVars,
                    seats, phase, listed, codes>>

\* The leaving client is in the lobby; endGame follows.
QuitToLobby(c) ==
  /\ At(Read(c), "quit")
  /\ SetState(c, "lobby")
  /\ Then(Read(c), "finish")
  /\ UNCHANGED <<hubVars, queueVars, roomVars>>

\* LeaveQueue takes the session's first entry, whichever client made it.
LeaveQueue(c, pc, next) ==
  /\ At(Read(c), pc) /\ MatchmakerFree
  /\ \/ ~InQueue(SessionOf[c]) /\ UNCHANGED queue
     \/ \E k \in 1..Len(queue) :
          /\ SessionOf[queue[k]] = SessionOf[c]
          /\ \A j \in 1..(k - 1) : SessionOf[queue[j]] # SessionOf[c]
          /\ queue' = SubSeq(queue, 1, k - 1) \o SubSeq(queue, k + 1, Len(queue))
  /\ Then(Read(c), next)
  /\ UNCHANGED <<hubVars, clientState, timedOut, roomVars>>

ToLobby(c) ==
  /\ At(Read(c), "toLobby")
  /\ SetState(c, "lobby")
  /\ Rest(Read(c))
  /\ UNCHANGED <<hubVars, queueVars, roomVars>>

-----------------------------------------------------------------------------
(* Disconnection and reconnection.                                         *)

\* The session the message names: a player has no other's, and the game's own
\* pages send the one they were given.
FindToReconnect(c) ==
  /\ At(Read(c), "rejoin")
  /\ FindPlayerRoom(c, "check", "idle")
  /\ UNCHANGED <<hubVars, clientState, queueVars, roomVars>>

\* The grace period of the disconnection that is in force is over.
GraceExpired(r, i) ==
  /\ conn[r][i] = NoClient
  /\ awayBy[r][i] # NoClient
  /\ go[Grace(awayBy[r][i])].pc \in {"due", "absent", "finish", "reset", "remove"}

CheckReconnect(c) ==
  LET g == Read(c)
  IN /\ At(g, "check")
     /\ IF phase[RoomOf(g)] = "finished" \/ GraceExpired(RoomOf(g), SeatIn(g))
        THEN Rest(g) ELSE Then(g, "bind")
     /\ UNCHANGED <<hubVars, clientState, queueVars, roomVars>>

SetConnection(c) ==
  LET g == Read(c)
  IN /\ At(g, "bind")
     /\ conn' = [conn EXCEPT ![RoomOf(g)][SeatIn(g)] = c]
     /\ awayBy' = [awayBy EXCEPT ![RoomOf(g)][SeatIn(g)] = NoClient]
     /\ Then(g, "bound")
     /\ UNCHANGED <<hubVars, clientState, queueVars,
                    seats, phase, listed, codes>>

Reconnected(c) ==
  /\ At(Read(c), "bound")
  /\ SetState(c, "in_game")
  /\ Rest(Read(c))
  /\ UNCHANGED <<hubVars, queueVars, roomVars>>

\* Mutation: a lost connection leaves its session in the queue.
FindLost_Queued(c) ==
  /\ At(Read(c), "lost")
  /\ FindPlayerRoom(c, "unbind", "unregister")
  /\ UNCHANGED <<hubVars, clientState, queueVars, roomVars>>

FindLost(c) ==
  /\ At(Read(c), "lost")
  /\ FindPlayerRoom(c, "unbind", "forget")
  /\ UNCHANGED <<hubVars, clientState, queueVars, roomVars>>

ClearConnectionIf(c) ==
  LET r == RoomOf(Read(c))
      i == SeatIn(Read(c))
  IN /\ At(Read(c), "unbind")
     /\ \/ /\ conn[r][i] = c
           /\ conn' = [conn EXCEPT ![r][i] = NoClient]
           /\ awayBy' = [awayBy EXCEPT ![r][i] = c]
           /\ Then(Read(c), "alone")
        \/ /\ conn[r][i] # c
           /\ UNCHANGED <<conn, awayBy>>
           /\ Goto(Read(c), "unregister", NoRoom, 0)
     /\ UNCHANGED <<hubVars, clientState, queueVars, seats, phase, listed, codes>>

\* Mutation: a room loses its place in the registry whoever else is in it.
CheckAlone_Never(c) ==
  /\ At(Read(c), "alone")
  /\ Then(Read(c), "drop")
  /\ UNCHANGED <<hubVars, clientState, queueVars, roomVars>>

CheckAlone(c) ==
  /\ At(Read(c), "alone")
  /\ Then(Read(c), IF Full(RoomOf(Read(c))) THEN "warn" ELSE "drop")
  /\ UNCHANGED <<hubVars, clientState, queueVars, roomVars>>

DropRoom(c) ==
  /\ At(Read(c), "drop")
  /\ listed' = listed \ {RoomOf(Read(c))}
  /\ Goto(Read(c), "unregister", NoRoom, 0)
  /\ UNCHANGED <<hubVars, clientState, queueVars,
                 seats, conn, awayBy, phase, codes>>

\* Mutation: nobody waits for the player to come back.
StartGrace_Never(c) ==
  /\ At(Read(c), "warn")
  /\ Then(Read(c), "unregister")
  /\ UNCHANGED <<hubVars, clientState, queueVars, roomVars>>

\* The opponent is warned and the grace period begins.
StartGrace(c) ==
  LET r == RoomOf(Read(c))
      i == SeatIn(Read(c))
      unregister == [pc |-> "unregister", room |-> NoRoom, seat |-> 0]
  IN /\ At(Read(c), "warn")
     /\ go' = IF Active(r)
              THEN [go EXCEPT ![Read(c)] = unregister,
                              ![Grace(c)] = [pc |-> "sleep", room |-> r, seat |-> i]]
              ELSE [go EXCEPT ![Read(c)] = unregister]
     /\ UNCHANGED <<hubVars, clientState, queueVars, roomVars>>

\* Thirty seconds later.
GraceOver(c) ==
  /\ At(Grace(c), "sleep") /\ MayArrive
  /\ Then(Grace(c), "due")
  /\ UNCHANGED <<hubVars, clientState, queueVars, roomVars>>

GraceWakes(c) ==
  LET g == Grace(c)
  IN /\ At(g, "due")
     /\ IF Active(RoomOf(g)) THEN Then(g, "absent") ELSE Rest(g)
     /\ UNCHANGED <<hubVars, clientState, queueVars, roomVars>>

CheckAbsent(c) ==
  LET g == Grace(c)
  IN /\ At(g, "absent")
     /\ IF conn[RoomOf(g)][SeatIn(g)] = NoClient THEN Then(g, "finish") ELSE Rest(g)
     /\ UNCHANGED <<hubVars, clientState, queueVars, roomVars>>

-----------------------------------------------------------------------------
(* endGame, by a player who leaves, a grace period or the rules.           *)

GameOver(r) ==
  /\ At(Game(r), "idle") /\ MayArrive
  /\ phase[r] = "playing" /\ Active(r)
  /\ Goto(Game(r), "finish", r, 0)
  /\ UNCHANGED <<hubVars, clientState, queueVars, roomVars>>

SetFinished(g) ==
  /\ At(g, "finish")
  /\ phase' = [phase EXCEPT ![RoomOf(g)] = "finished"]
  /\ Goto(g, "reset", RoomOf(g), 0)
  /\ UNCHANGED <<hubVars, clientState, queueVars,
                 seats, conn, awayBy, listed, codes>>

\* Mutation: one seat too many.
ResetPlayersToLobby_Third(g) ==
  LET p == seats[RoomOf(g)][SeatIn(g)]
  IN /\ At(g, "reset")
     /\ IF p # NoClient THEN SetStateOf(SessionOf[p], "lobby")
                        ELSE UNCHANGED clientState
     /\ IF SeatIn(g) <= 1 THEN Goto(g, "reset", RoomOf(g), SeatIn(g) + 1)
                          ELSE Then(g, "remove")
     /\ UNCHANGED <<hubVars, queueVars, roomVars>>

ResetPlayersToLobby(g) ==
  LET p == seats[RoomOf(g)][SeatIn(g)]
  IN /\ At(g, "reset")
     /\ IF p # NoClient THEN SetStateOf(SessionOf[p], "lobby")
                        ELSE UNCHANGED clientState
     /\ IF SeatIn(g) = 0 THEN Goto(g, "reset", RoomOf(g), 1) ELSE Then(g, "remove")
     /\ UNCHANGED <<hubVars, queueVars, roomVars>>

RemoveRoom(g) ==
  /\ At(g, "remove")
  /\ listed' = listed \ {RoomOf(g)}
  /\ Rest(g)
  /\ UNCHANGED <<hubVars, clientState, queueVars,
                 seats, conn, awayBy, phase, codes>>

-----------------------------------------------------------------------------
(* Specifications.                                                         *)

Hub == HubRegister \/ HubUnregister

\* The steps of c's read loop within a handler.
Handler(c) ==
  \/ JoinAgain(c) \/ JoinWaits(c) \/ StartGame(c) \/ TellMatched(c) \/ Wait(c)
  \/ \E r \in Rooms : JoinMatched(c, r) \/ CreateRoom(c, r)
  \/ LookUp(c) \/ AddPlayer(c) \/ EnterGame(c) \/ TellHost(c)
  \/ FindToLeave(c) \/ LeaveRoom(c) \/ ClearConnection(c) \/ QuitToLobby(c)
  \/ LeaveQueue(c, "dequeue", "toLobby") \/ ToLobby(c)
  \/ FindToReconnect(c) \/ CheckReconnect(c) \/ SetConnection(c) \/ Reconnected(c)

Disconnect(c) ==
  \/ FindLost(c) \/ ClearConnectionIf(c) \/ CheckAlone(c) \/ DropRoom(c)
  \/ StartGrace(c) \/ LeaveQueue(c, "forget", "unregister")
  \/ Unregister(c) \/ Close(c)

GraceCallback(c) == GraceWakes(c) \/ CheckAbsent(c)

EndGame(g) == SetFinished(g) \/ ResetPlayersToLobby(g) \/ RemoveRoom(g)

\* Whatever is under way goes on.
Work ==
  \/ Hub \/ TellTimedOut
  \/ \E c \in Clients : Busy(Read(c)) /\ (Handler(c) \/ Disconnect(c))
  \/ \E c \in Clients : Busy(Grace(c)) /\ GraceCallback(c)
  \/ \E g \in Goroutines : Busy(g) /\ EndGame(g)

\* What comes from outside, and what time brings.
Arrive ==
  \/ CleanUp
  \/ \E c \in Clients : \/ Register(c) \/ Lose(c) \/ GraceOver(c)
                        \/ \E msg \in {"join", "create", "rejoin", "leave"} :
                             Receive(c, msg, NoRoom)
                        \/ \E r \in Rooms : Receive(c, "lookup", r)
  \/ \E r \in Rooms : GameOver(r)

LobbyNext == Work \/ Arrive
LobbySpec == LobbyInit /\ [][LobbyNext]_lobbyVars

\* The program never stops while it has work, and a grace period passes (strong
\* fairness, for BusyBound may postpone its end).  Players and the rules of the
\* game owe nothing.
LobbyFairness ==
  WF_lobbyVars(Work) /\ \A c \in Clients : SF_lobbyVars(GraceOver(c))
FairLobbySpec == LobbySpec /\ LobbyFairness
=============================================================================
