---------------------------- MODULE LobbyProofs ----------------------------
(***************************************************************************)
(* What holds of the lobby for any connections, sessions and rooms, and    *)
(* however many handlers run at once: the types, a hub that knows every    *)
(* open connection, seats that are kept, and somebody to see to every      *)
(* player who is away.                                                     *)
(*                                                                         *)
(* The invariant adds to what is proved that a queue has at most one       *)
(* entry, that whoever the hub is told to forget is closed or about to be, *)
(* and that a room somebody can get at has its first player. Most steps    *)
(* move one goroutine along (Moved) and touch none of the things the       *)
(* invariant is about; StepKeeps deals with all of them. WatchInv adds     *)
(* that the end of a finished room is under way and that a connection has  *)
(* one grace period.                                                       *)
(***************************************************************************)
EXTENDS LobbyProperties, SequenceTheorems, TLAPS

\* Nobody waits while somebody else waits.
QueueIsShort == Len(queue) <= 1

\* Whoever the hub is asked to forget is closed by its own read loop, if it is
\* not closed yet.
LeaversClose ==
  hubJob.op = "unregister" =>
    /\ hubJob.client \in Clients
    /\ closed[hubJob.client] \/ At(Read(hubJob.client), "close")

\* Players fill the first seat first, and nobody gets at a room before.
Known(r) == Reached(r) \/ r \in codes
FirstSeatTaken == \A r \in Rooms : Known(r) => seats[r][0] # NoClient

LobbyInv ==
  /\ LobbyTypeOK
  /\ QueueIsShort
  /\ KnownWhileOpen
  /\ LeaversClose
  /\ FirstSeatTaken

\* What SeatsAreKept says of a step.
SeatsKept ==
  \A r \in Rooms : \A i \in Seats :
    Reached(r) /\ seats[r][i] # NoClient => seats'[r][i] = seats[r][i]

-----------------------------------------------------------------------------
(* Goroutines.                                                             *)

\* Read loops, grace periods and game ends are different goroutines.
LEMMA GoroutineNames ==
  /\ \A c \in Clients : Read(c) \in Goroutines /\ Grace(c) \in Goroutines
  /\ \A r \in Rooms : Game(r) \in Goroutines
  /\ \A c, d \in Clients : Read(c) = Read(d) => c = d
  /\ \A c, d \in Clients : Read(c) # Grace(d)
  /\ \A c \in Clients : \A r \in Rooms : Read(c) # Game(r)
BY DEF Read, Grace, Game, Loops, Goroutines

\* The parts of a goroutine's job are of their types.
LEMMA JobParts ==
  ASSUME LobbyTypeOK, NEW g \in Goroutines
  PROVE  /\ go[g].pc \in PCs
         /\ RoomOf(g) \in Rooms \cup {NoRoom}
         /\ SeatIn(g) \in Seats
BY DEF LobbyTypeOK, Job, RoomOf, SeatIn

\* Goroutine g goes on to a step, with a room that could be got at before.
Moved(g) ==
  \E pc \in PCs, r \in Rooms \cup {NoRoom}, i \in Seats :
    /\ Goto(g, pc, r, i)
    /\ r = NoRoom \/ Known(r)
    /\ go[g].pc \notin {"new", "close"}

\* A goroutine that keeps its room, gives it up, or has found it.
LEMMA ThenMoves ==
  ASSUME LobbyTypeOK, NEW g \in Goroutines, NEW pc \in PCs, Then(g, pc),
         go[g].pc \notin {"new", "close"}
  PROVE  Moved(g)
<1>1. RoomOf(g) = NoRoom \/ Known(RoomOf(g))
  BY DEF Known, Reached
<1> QED BY <1>1, JobParts DEF Then, Moved

\* A goroutine that goes to a room it can know.
LEMMA GotoMoves ==
  ASSUME LobbyTypeOK, NEW g \in Goroutines, NEW pc \in PCs,
         NEW r \in Rooms \cup {NoRoom}, NEW i \in Seats,
         Goto(g, pc, r, i), r = NoRoom \/ Known(r), go[g].pc \notin {"new", "close"}
  PROVE  Moved(g)
BY DEF Moved

\* The same room, the other seat.
LEMMA StayMoves ==
  ASSUME LobbyTypeOK, NEW g \in Goroutines, NEW pc \in PCs, NEW i \in Seats,
         Goto(g, pc, RoomOf(g), i), go[g].pc \notin {"new", "close"}
  PROVE  Moved(g)
<1>1. RoomOf(g) = NoRoom \/ Known(RoomOf(g))
  BY DEF Known, Reached
<1> QED BY <1>1, JobParts DEF Moved

\* A goroutine that has nothing more to do.
LEMMA RestMoves ==
  ASSUME LobbyTypeOK, NEW g \in Goroutines, Rest(g), go[g].pc \notin {"new", "close"}
  PROVE  Moved(g)
BY DEF Moved, Rest, PCs, Seats

\* findPlayerRoom finds rooms of the registry.
LEMMA FindMoves ==
  ASSUME LobbyTypeOK, NEW c \in Clients, NEW found \in PCs, NEW none \in PCs,
         FindPlayerRoom(c, found, none), go[Read(c)].pc \notin {"new", "close"}
  PROVE  Moved(Read(c))
<1>1. CASE (\A r \in listed : ~SitsIn(SessionOf[c], r)) /\ Then(Read(c), none)
  BY <1>1, ThenMoves, GoroutineNames
<1>2. CASE \E r \in listed : /\ SitsIn(SessionOf[c], r)
                             /\ Goto(Read(c), found, r, SeatOf(SessionOf[c], r))
  <2>1. PICK r \in listed : Goto(Read(c), found, r, SeatOf(SessionOf[c], r))
    BY <1>2
  <2>2. r \in Rooms /\ Known(r)
    BY DEF LobbyTypeOK, Known, Reached
  <2>3. SeatOf(SessionOf[c], r) \in Seats
    BY DEF SeatOf, Seats
  <2> QED BY <2>1, <2>2, <2>3, GotoMoves, GoroutineNames
<1> QED BY <1>1, <1>2 DEF FindPlayerRoom

\* What such a step leaves as it was.
GoKept ==
  /\ go' \in [Goroutines -> Job]
  /\ \A h \in Goroutines, r \in Rooms : RoomOf(h)' = r => Known(r)
NewKept ==
  \A c \in Clients : \A pc \in {"new", "close"} : At(Read(c), pc) => At(Read(c), pc)'

\* A goroutine that moves knows only rooms that were known, and a connection that
\* is new, or about to be closed, stays so.
LEMMA MovedEffect ==
  ASSUME LobbyTypeOK, NEW g \in Goroutines, Moved(g)
  PROVE  GoKept /\ NewKept
<1>1. PICK pc \in PCs, r \in Rooms \cup {NoRoom}, i \in Seats :
        Goto(g, pc, r, i) /\ (r = NoRoom \/ Known(r)) /\ go[g].pc \notin {"new", "close"}
  BY DEF Moved
<1>2. go' = [go EXCEPT ![g] = [pc |-> pc, room |-> r, seat |-> i]]
  BY <1>1 DEF Goto
<1>3. go' \in [Goroutines -> Job]
  BY <1>2 DEF LobbyTypeOK, Job
<1>4. ASSUME NEW c \in Clients, NEW step \in {"new", "close"}, At(Read(c), step)
      PROVE  At(Read(c), step)'
  BY <1>1, <1>2, <1>4, GoroutineNames DEF LobbyTypeOK, At
<1>5. ASSUME NEW h \in Goroutines, NEW q \in Rooms, RoomOf(h)' = q PROVE Known(q)
  <2>1. CASE h = g
    BY <1>1, <1>2, <1>5, <2>1, LobbyAssumption DEF LobbyTypeOK, RoomOf
  <2>2. CASE h # g
    BY <1>2, <1>5, <2>2 DEF LobbyTypeOK, RoomOf, Known, Reached
  <2> QED BY <2>1, <2>2
<1> QED BY <1>3, <1>4, <1>5 DEF GoKept, NewKept

\* The same when no goroutine moves.
LEMMA StillKept ==
  ASSUME LobbyTypeOK, UNCHANGED go
  PROVE  GoKept /\ NewKept
BY DEF GoKept, NewKept, LobbyTypeOK, RoomOf, Known, Reached, At

-----------------------------------------------------------------------------
(* The common step.                                                        *)

\* The hub after a step.
HubKept ==
  /\ hub' \in [Sessions -> MaybeClient]
  /\ hubJob' \in [op : {"none", "register", "unregister"}, client : MaybeClient]
  /\ closed' \in [Clients -> BOOLEAN]
  /\ KnownWhileOpen'
  /\ LeaversClose'

\* A step that leaves the hub alone keeps what is true of it.
LEMMA HubUntouched ==
  ASSUME LobbyInv, NewKept, UNCHANGED hubVars
  PROVE  HubKept
<1>1. KnownWhileOpen' /\ LeaversClose'
  BY DEF LobbyInv, NewKept, KnownWhileOpen, LeaversClose, hubVars
<1> QED BY <1>1 DEF LobbyInv, LobbyTypeOK, HubKept, hubVars

\* The data a step leaves is of its types.
DataOK ==
  /\ clientState' \in [Clients -> {"lobby", "waiting", "in_game"}]
  /\ queue' \in Seq(Clients) /\ Len(queue') <= 1
  /\ timedOut' \in Seq(Clients)
  /\ conn' \in [Rooms -> [Seats -> MaybeClient]]
  /\ awayBy' \in [Rooms -> [Seats -> MaybeClient]]
  /\ phase' \in [Rooms -> {"waiting", "playing", "finished"}]

\* No room becomes known and no seat changes hands.
RoomsKept ==
  /\ seats' \in [Rooms -> [Seats -> MaybeClient]]
  /\ \A r \in Rooms : \A i \in Seats :
       Known(r) /\ seats[r][i] # NoClient => seats'[r][i] = seats[r][i]
  /\ listed' \subseteq listed
  /\ codes' \subseteq Rooms /\ \A r \in codes' : Known(r)

\* The four parts together keep the invariant, and the seats.
LEMMA StepKeeps ==
  ASSUME LobbyInv, GoKept, HubKept, DataOK, RoomsKept
  PROVE  LobbyInv' /\ SeatsKept
<1>1. LobbyTypeOK'
  BY DEF LobbyInv, LobbyTypeOK, GoKept, HubKept, DataOK, RoomsKept
<1>2. QueueIsShort' /\ KnownWhileOpen' /\ LeaversClose'
  BY DEF DataOK, HubKept, QueueIsShort
<1>3. ASSUME NEW r \in Rooms, Known(r)' PROVE Known(r)
  <2>1. CASE r \in listed'
    BY <2>1 DEF RoomsKept, Known, Reached
  <2>2. CASE \E h \in Goroutines : RoomOf(h)' = r
    BY <2>2 DEF GoKept
  <2>3. CASE r \in codes'
    BY <2>3 DEF RoomsKept
  <2> QED BY <1>3, <2>1, <2>2, <2>3 DEF Known, Reached
<1>4. FirstSeatTaken'
  BY <1>3 DEF LobbyInv, FirstSeatTaken, RoomsKept, Seats
<1>5. SeatsKept
  BY DEF SeatsKept, RoomsKept, Known
<1> QED BY <1>1, <1>2, <1>4, <1>5 DEF LobbyInv

\* A step of one goroutine that leaves the hub alone.
LEMMA MoveKeeps ==
  ASSUME LobbyInv, NEW g \in Goroutines, Moved(g), UNCHANGED hubVars, DataOK, RoomsKept
  PROVE  LobbyInv' /\ SeatsKept
BY MovedEffect, HubUntouched, StepKeeps DEF LobbyInv

\* Nothing but the goroutines, or a client's state, changes.
LEMMA RoomsUntouched ==
  ASSUME LobbyInv, UNCHANGED <<seats, codes>>, listed' \subseteq listed
  PROVE  RoomsKept
BY DEF RoomsKept, LobbyInv, LobbyTypeOK, Known, Reached

-----------------------------------------------------------------------------
(* The queue has one entry at most.                                        *)

\* What JoinQueue, LeaveQueue and the clean-up make of a queue of at most one.
LEMMA ShortQueue ==
  ASSUME NEW q \in Seq(Clients), Len(q) <= 1, NEW k \in 1..Len(q), NEW c \in Clients
  PROVE  /\ [q EXCEPT ![k] = c] \in Seq(Clients) /\ Len([q EXCEPT ![k] = c]) = 1
         /\ SubSeq(q, 1, k) \in Seq(Clients)
         /\ SubSeq(q, k + 1, Len(q)) \in Seq(Clients)
         /\ Len(SubSeq(q, k + 1, Len(q))) = 0
         /\ SubSeq(q, 1, k - 1) \o SubSeq(q, k + 1, Len(q)) \in Seq(Clients)
         /\ Len(SubSeq(q, 1, k - 1) \o SubSeq(q, k + 1, Len(q))) = 0
<1>1. Len(q) = 1 /\ k = 1
  <2>1. Len(q) \in Nat
    BY LenProperties
  <2> QED BY <2>1
<1>2. [q EXCEPT ![k] = c] \in Seq(Clients) /\ Len([q EXCEPT ![k] = c]) = 1
  BY <1>1, ExceptSeq
<1>3. SubSeq(q, 1, 1) \in Seq(Clients)
  BY <1>1, SubSeqProperties
<1>4. SubSeq(q, 1, k - 1) = <<>> /\ SubSeq(q, k + 1, Len(q)) = <<>>
  BY <1>1, SubSeqEmpty
<1>5. <<>> \in Seq(Clients) /\ Len(<<>>) = 0 /\ <<>> \o <<>> = <<>>
  BY EmptySeq, ConcatEmptySeq
<1>6. SubSeq(q, 1, k) \in Seq(Clients)
  BY <1>1, <1>3
<1>7. SubSeq(q, k + 1, Len(q)) \in Seq(Clients) /\ Len(SubSeq(q, k + 1, Len(q))) = 0
  BY <1>4, <1>5, Zenon
<1>8. SubSeq(q, 1, k - 1) \o SubSeq(q, k + 1, Len(q)) = <<>>
  BY <1>4, <1>5, Zenon
<1>9. SubSeq(q, 1, k - 1) \o SubSeq(q, k + 1, Len(q)) \in Seq(Clients)
      /\ Len(SubSeq(q, 1, k - 1) \o SubSeq(q, k + 1, Len(q))) = 0
  BY <1>5, <1>8, Zenon
<1> QED BY <1>2, <1>6, <1>7, <1>9, Zenon

-----------------------------------------------------------------------------
(* The steps of a handler.                                                 *)

\* A room made for a player is of nobody's knowledge before.
LEMMA NewRoomKeeps ==
  ASSUME LobbyInv, NEW c \in Clients, NEW r \in Rooms, NEW pc \in PCs,
         NEW p \in [Seats -> MaybeClient], p[0] # NoClient,
         NewRoom(r, p), Goto(Read(c), pc, r, 0),
         go[Read(c)].pc \notin {"new", "close"},
         queue' \in Seq(Clients), Len(queue') <= 1,
         UNCHANGED <<hubVars, clientState, timedOut>>
  PROVE  LobbyInv' /\ SeatsKept
<1>1. go' = [go EXCEPT ![Read(c)] = [pc |-> pc, room |-> r, seat |-> 0]]
  BY DEF Goto
<1>2. go' \in [Goroutines -> Job]
  BY <1>1 DEF LobbyInv, LobbyTypeOK, Job, Seats
<1>3. NewKept
  BY <1>1, GoroutineNames DEF LobbyInv, LobbyTypeOK, NewKept, At
<1>4. HubKept
  BY <1>3, HubUntouched
<1>5. LobbyTypeOK'
  BY <1>2, <1>4 DEF LobbyInv, LobbyTypeOK, HubKept, NewRoom, MaybeClient
<1>6. ASSUME NEW q \in Rooms, Known(q)', q # r PROVE Known(q)
  <2>1. CASE q \in listed' \/ q \in codes'
    BY <1>6, <2>1 DEF NewRoom, Known, Reached
  <2>2. CASE \E h \in Goroutines : RoomOf(h)' = q
    BY <1>1, <1>6, <2>2, GoroutineNames
       DEF LobbyInv, LobbyTypeOK, RoomOf, Known, Reached
  <2> QED BY <1>6, <2>1, <2>2 DEF Known, Reached
<1>7. FirstSeatTaken'
  BY <1>6 DEF LobbyInv, LobbyTypeOK, FirstSeatTaken, NewRoom
<1>8. SeatsKept
  BY DEF LobbyInv, LobbyTypeOK, SeatsKept, NewRoom
<1> QED BY <1>4, <1>5, <1>7, <1>8 DEF LobbyInv, HubKept, QueueIsShort

\* join_queue with a match and create_room make a room.
LEMMA JoinKeeps ==
  ASSUME LobbyInv, NEW c \in Clients, NEW r \in Rooms,
         JoinMatched(c, r) \/ CreateRoom(c, r)
  PROVE  LobbyInv' /\ SeatsKept
<1>1. CASE JoinMatched(c, r)
  <2> DEFINE p == [i \in Seats |-> IF i = 0 THEN Head(queue) ELSE c]
  <2>1. Head(queue) \in Clients /\ Tail(queue) \in Seq(Clients) /\ Len(Tail(queue)) <= 1
    BY <1>1 DEF JoinMatched, LobbyInv, LobbyTypeOK, QueueIsShort
  <2>2. p \in [Seats -> MaybeClient] /\ p[0] # NoClient
    BY <2>1, LobbyAssumption DEF MaybeClient, Seats
  <2>3. /\ NewRoom(r, p) /\ Goto(Read(c), "begin", r, 0)
        /\ go[Read(c)].pc \notin {"new", "close"}
        /\ queue' = Tail(queue)
        /\ UNCHANGED <<hubVars, clientState, timedOut>>
    BY <1>1 DEF JoinMatched, At
  <2>4. "begin" \in PCs
    BY DEF PCs
  <2> HIDE DEF p
  <2> QED BY <2>1, <2>2, <2>3, <2>4, NewRoomKeeps
<1>2. CASE CreateRoom(c, r)
  <2> DEFINE p == [i \in Seats |-> IF i = 0 THEN c ELSE NoClient]
  <2>1. queue \in Seq(Clients) /\ Len(queue) <= 1
    BY DEF LobbyInv, LobbyTypeOK, QueueIsShort
  <2>2. p \in [Seats -> MaybeClient] /\ p[0] # NoClient
    BY LobbyAssumption DEF MaybeClient, Seats
  <2>3. /\ NewRoom(r, p) /\ Goto(Read(c), "wait", r, 0)
        /\ go[Read(c)].pc \notin {"new", "close"}
        /\ UNCHANGED <<hubVars, clientState, queue, timedOut>>
    BY <1>2 DEF CreateRoom, At, queueVars
  <2>4. "wait" \in PCs
    BY DEF PCs
  <2> HIDE DEF p
  <2> QED BY <2>1, <2>2, <2>3, <2>4, NewRoomKeeps
<1> QED BY <1>1, <1>2

\* LeaveQueue, by a player or for a lost connection.
LEMMA LeaveQueueKeeps ==
  ASSUME LobbyInv, NEW c \in Clients, NEW pc \in PCs, NEW next \in PCs, pc \notin {"new", "close"},
         LeaveQueue(c, pc, next)
  PROVE  LobbyInv' /\ SeatsKept
<1>1. Moved(Read(c))
  BY ThenMoves, GoroutineNames DEF LeaveQueue, LobbyInv, At
<1>2. queue' \in Seq(Clients) /\ Len(queue') <= 1
  <2>1. queue \in Seq(Clients) /\ Len(queue) <= 1
    BY DEF LobbyInv, LobbyTypeOK, QueueIsShort
  <2>2. CASE UNCHANGED queue
    BY <2>1, <2>2
  <2>3. CASE \E k \in 1..Len(queue) :
               queue' = SubSeq(queue, 1, k - 1) \o SubSeq(queue, k + 1, Len(queue))
    <3>1. PICK k \in 1..Len(queue) :
            queue' = SubSeq(queue, 1, k - 1) \o SubSeq(queue, k + 1, Len(queue))
      BY <2>3
    <3>2. queue' \in Seq(Clients) /\ Len(queue') = 0
      BY <2>1, <3>1, ShortQueue, Zenon
    <3> QED BY <3>2
  <2> QED BY <2>2, <2>3 DEF LeaveQueue
<1>3. UNCHANGED hubVars /\ DataOK
  BY <1>2 DEF LeaveQueue, DataOK, LobbyInv, LobbyTypeOK, roomVars
<1>4. RoomsKept
  BY RoomsUntouched DEF LeaveQueue, roomVars
<1> QED BY <1>1, <1>3, <1>4, MoveKeeps, GoroutineNames

\* Every step of a message's handler.
LEMMA HandlerKeeps ==
  ASSUME LobbyInv, NEW c \in Clients, Handler(c)
  PROVE  LobbyInv' /\ SeatsKept
<1>1. CASE JoinAgain(c)
  <2>1. Moved(Read(c))
    BY <1>1, ThenMoves, GoroutineNames
       DEF JoinAgain, LobbyInv, At, PCs, Seats
  <2>2. UNCHANGED hubVars /\ DataOK
    BY <1>1, ShortQueue
       DEF JoinAgain, DataOK, LobbyInv, LobbyTypeOK, QueueIsShort,
           hubVars, queueVars, roomVars
  <2>3. RoomsKept
    BY <1>1, RoomsUntouched DEF JoinAgain, roomVars
  <2> QED BY <2>1, <2>2, <2>3, MoveKeeps, GoroutineNames
<1>2. CASE JoinWaits(c)
  <2>1. Moved(Read(c))
    BY <1>2, ThenMoves, GoroutineNames
       DEF JoinWaits, LobbyInv, At, PCs, Seats
  <2>2. UNCHANGED hubVars /\ DataOK
    BY <1>2, EmptySeq
       DEF JoinWaits, DataOK, LobbyInv, LobbyTypeOK, QueueIsShort,
           hubVars, queueVars, roomVars
  <2>3. RoomsKept
    BY <1>2, RoomsUntouched DEF JoinWaits, roomVars
  <2> QED BY <2>1, <2>2, <2>3, MoveKeeps, GoroutineNames
<1>3. CASE StartGame(c)
  <2>1. Moved(Read(c))
    BY <1>3, ThenMoves, GoroutineNames
       DEF StartGame, LobbyInv, At, PCs, Seats
  <2>2. UNCHANGED hubVars /\ DataOK
    BY <1>3
       DEF StartGame, DataOK, LobbyInv, LobbyTypeOK, QueueIsShort,
           hubVars, queueVars, roomVars
  <2>3. RoomsKept
    BY <1>3, RoomsUntouched DEF StartGame, roomVars
  <2> QED BY <2>1, <2>2, <2>3, MoveKeeps, GoroutineNames
<1>4. CASE TellMatched(c)
  <2>1. Moved(Read(c))
    BY <1>4, RestMoves, StayMoves, GoroutineNames
       DEF TellMatched, LobbyInv, At, PCs, Seats
  <2>2. UNCHANGED hubVars /\ DataOK
    BY <1>4
       DEF TellMatched, DataOK, LobbyInv, LobbyTypeOK, QueueIsShort,
           hubVars, queueVars, roomVars, SetStateOf
  <2>3. RoomsKept
    BY <1>4, RoomsUntouched DEF TellMatched, roomVars
  <2> QED BY <2>1, <2>2, <2>3, MoveKeeps, GoroutineNames
<1>5. CASE Wait(c)
  <2>1. Moved(Read(c))
    BY <1>5, RestMoves, GoroutineNames
       DEF Wait, LobbyInv, At, PCs, Seats
  <2>2. UNCHANGED hubVars /\ DataOK
    BY <1>5
       DEF Wait, DataOK, LobbyInv, LobbyTypeOK, QueueIsShort,
           hubVars, queueVars, roomVars, SetState
  <2>3. RoomsKept
    BY <1>5, GoroutineNames DEF Wait, RoomsKept, LobbyInv, LobbyTypeOK, Known, Reached
  <2> QED BY <2>1, <2>2, <2>3, MoveKeeps, GoroutineNames
<1>6. CASE LookUp(c)
  <2>1. Moved(Read(c))
    BY <1>6, RestMoves, ThenMoves, GoroutineNames
       DEF LookUp, LobbyInv, At, PCs, Seats
  <2>2. UNCHANGED hubVars /\ DataOK
    BY <1>6
       DEF LookUp, DataOK, LobbyInv, LobbyTypeOK, QueueIsShort,
           hubVars, queueVars, roomVars
  <2>3. RoomsKept
    BY <1>6, RoomsUntouched DEF LookUp, roomVars
  <2> QED BY <2>1, <2>2, <2>3, MoveKeeps, GoroutineNames
<1>7. CASE AddPlayer(c)
  <2>1. Moved(Read(c))
    <3>1. Rest(Read(c)) \/ Then(Read(c), "beginRoom")
      BY <1>7 DEF AddPlayer
    <3>2. go[Read(c)].pc \notin {"new", "close"}
      BY <1>7 DEF AddPlayer, At
    <3> QED BY <3>1, <3>2, RestMoves, ThenMoves, GoroutineNames DEF LobbyInv, PCs, Seats
  <2>2. UNCHANGED hubVars /\ DataOK
    <3>1. conn' \in [Rooms -> [Seats -> MaybeClient]]
      <4>1. CASE UNCHANGED conn
        BY <4>1 DEF LobbyInv, LobbyTypeOK
      <4>2. CASE conn' = [conn EXCEPT ![RoomOf(Read(c))][1] = c]
        BY <4>2 DEF LobbyInv, LobbyTypeOK, MaybeClient
      <4> QED BY <1>7, <4>1, <4>2 DEF AddPlayer
    <3>2. awayBy' \in [Rooms -> [Seats -> MaybeClient]]
      <4>1. CASE UNCHANGED awayBy
        BY <4>1 DEF LobbyInv, LobbyTypeOK
      <4>2. CASE awayBy' = [awayBy EXCEPT ![RoomOf(Read(c))][SeatIn(Read(c))] = c]
        BY <4>2 DEF LobbyInv, LobbyTypeOK, MaybeClient
      <4> QED BY <1>7, <4>1, <4>2 DEF AddPlayer
    <3>3. UNCHANGED <<hubVars, clientState, queueVars, phase>>
      BY <1>7 DEF AddPlayer
    <3> QED BY <3>1, <3>2, <3>3
            DEF DataOK, LobbyInv, LobbyTypeOK, QueueIsShort, queueVars
  <2>3. RoomsKept
    <3>1. CASE UNCHANGED seats
      BY <1>7, <3>1, RoomsUntouched DEF AddPlayer
    <3>2. CASE /\ ~Full(RoomOf(Read(c)))
               /\ seats' = [seats EXCEPT ![RoomOf(Read(c))][1] = c]
      <4>1. ASSUME NEW r \in Rooms, NEW i \in Seats, Known(r), seats[r][i] # NoClient
            PROVE  seats'[r][i] = seats[r][i]
        <5>1. seats[r][0] # NoClient
          BY <4>1 DEF LobbyInv, FirstSeatTaken
        <5> QED BY <3>2, <4>1, <5>1 DEF Full, LobbyInv, LobbyTypeOK, Seats
      <4>2. seats' \in [Rooms -> [Seats -> MaybeClient]]
        BY <3>2 DEF LobbyInv, LobbyTypeOK, MaybeClient
      <4>3. UNCHANGED <<listed, codes>>
        BY <1>7 DEF AddPlayer
      <4> QED BY <4>1, <4>2, <4>3 DEF RoomsKept, LobbyInv, LobbyTypeOK, Known, Reached
    <3> QED BY <1>7, <3>1, <3>2 DEF AddPlayer
  <2> QED BY <2>1, <2>2, <2>3, MoveKeeps, GoroutineNames
<1>8. CASE EnterGame(c)
  <2>1. Moved(Read(c))
    BY <1>8, ThenMoves, GoroutineNames
       DEF EnterGame, LobbyInv, At, PCs, Seats
  <2>2. UNCHANGED hubVars /\ DataOK
    BY <1>8
       DEF EnterGame, DataOK, LobbyInv, LobbyTypeOK, QueueIsShort,
           hubVars, queueVars, roomVars, SetState
  <2>3. RoomsKept
    BY <1>8, RoomsUntouched DEF EnterGame, roomVars
  <2> QED BY <2>1, <2>2, <2>3, MoveKeeps, GoroutineNames
<1>9. CASE TellHost(c)
  <2>1. Moved(Read(c))
    BY <1>9, RestMoves, GoroutineNames
       DEF TellHost, LobbyInv, At, PCs, Seats
  <2>2. UNCHANGED hubVars /\ DataOK
    BY <1>9
       DEF TellHost, DataOK, LobbyInv, LobbyTypeOK, QueueIsShort,
           hubVars, queueVars, roomVars, SetStateOf
  <2>3. RoomsKept
    BY <1>9, RoomsUntouched DEF TellHost, roomVars
  <2> QED BY <2>1, <2>2, <2>3, MoveKeeps, GoroutineNames
<1>10. CASE FindToLeave(c)
  <2>1. Moved(Read(c))
    BY <1>10, FindMoves, GoroutineNames
       DEF FindToLeave, LobbyInv, At, PCs, Seats
  <2>2. UNCHANGED hubVars /\ DataOK
    BY <1>10
       DEF FindToLeave, DataOK, LobbyInv, LobbyTypeOK, QueueIsShort,
           hubVars, queueVars, roomVars
  <2>3. RoomsKept
    BY <1>10, RoomsUntouched DEF FindToLeave, roomVars
  <2> QED BY <2>1, <2>2, <2>3, MoveKeeps, GoroutineNames
<1>11. CASE LeaveRoom(c)
  <2>1. Moved(Read(c))
    BY <1>11, ThenMoves, GotoMoves, GoroutineNames
       DEF LeaveRoom, LobbyInv, At, PCs, Seats
  <2>2. UNCHANGED hubVars /\ DataOK
    BY <1>11
       DEF LeaveRoom, DataOK, LobbyInv, LobbyTypeOK, QueueIsShort,
           hubVars, queueVars, roomVars
  <2>3. RoomsKept
    BY <1>11, RoomsUntouched DEF LeaveRoom, roomVars
  <2> QED BY <2>1, <2>2, <2>3, MoveKeeps, GoroutineNames
<1>12. CASE ClearConnection(c)
  <2>1. Moved(Read(c))
    BY <1>12, ThenMoves, GoroutineNames
       DEF ClearConnection, LobbyInv, At, PCs, Seats
  <2>2. UNCHANGED hubVars /\ DataOK
    BY <1>12
       DEF ClearConnection, DataOK, LobbyInv, LobbyTypeOK, QueueIsShort,
           hubVars, queueVars, roomVars, MaybeClient, Seats
  <2>3. RoomsKept
    BY <1>12, RoomsUntouched DEF ClearConnection, roomVars
  <2> QED BY <2>1, <2>2, <2>3, MoveKeeps, GoroutineNames
<1>13. CASE QuitToLobby(c)
  <2>1. Moved(Read(c))
    BY <1>13, ThenMoves, GoroutineNames
       DEF QuitToLobby, LobbyInv, At, PCs, Seats
  <2>2. UNCHANGED hubVars /\ DataOK
    BY <1>13
       DEF QuitToLobby, DataOK, LobbyInv, LobbyTypeOK, QueueIsShort,
           hubVars, queueVars, roomVars, SetState
  <2>3. RoomsKept
    BY <1>13, RoomsUntouched DEF QuitToLobby, roomVars
  <2> QED BY <2>1, <2>2, <2>3, MoveKeeps, GoroutineNames
<1>14. CASE ToLobby(c)
  <2>1. Moved(Read(c))
    BY <1>14, RestMoves, GoroutineNames
       DEF ToLobby, LobbyInv, At, PCs, Seats
  <2>2. UNCHANGED hubVars /\ DataOK
    BY <1>14
       DEF ToLobby, DataOK, LobbyInv, LobbyTypeOK, QueueIsShort,
           hubVars, queueVars, roomVars, SetState
  <2>3. RoomsKept
    BY <1>14, RoomsUntouched DEF ToLobby, roomVars
  <2> QED BY <2>1, <2>2, <2>3, MoveKeeps, GoroutineNames
<1>15. CASE FindToReconnect(c)
  <2>1. Moved(Read(c))
    BY <1>15, FindMoves, GoroutineNames
       DEF FindToReconnect, LobbyInv, At, PCs, Seats
  <2>2. UNCHANGED hubVars /\ DataOK
    BY <1>15
       DEF FindToReconnect, DataOK, LobbyInv, LobbyTypeOK, QueueIsShort,
           hubVars, queueVars, roomVars
  <2>3. RoomsKept
    BY <1>15, RoomsUntouched DEF FindToReconnect, roomVars
  <2> QED BY <2>1, <2>2, <2>3, MoveKeeps, GoroutineNames
<1>16. CASE CheckReconnect(c)
  <2>1. Moved(Read(c))
    BY <1>16, RestMoves, ThenMoves, GoroutineNames
       DEF CheckReconnect, LobbyInv, At, PCs, Seats
  <2>2. UNCHANGED hubVars /\ DataOK
    BY <1>16
       DEF CheckReconnect, DataOK, LobbyInv, LobbyTypeOK, QueueIsShort,
           hubVars, queueVars, roomVars
  <2>3. RoomsKept
    BY <1>16, RoomsUntouched DEF CheckReconnect, roomVars
  <2> QED BY <2>1, <2>2, <2>3, MoveKeeps, GoroutineNames
<1>17. CASE SetConnection(c)
  <2>1. Moved(Read(c))
    BY <1>17, ThenMoves, GoroutineNames
       DEF SetConnection, LobbyInv, At, PCs, Seats
  <2>2. UNCHANGED hubVars /\ DataOK
    BY <1>17
       DEF SetConnection, DataOK, LobbyInv, LobbyTypeOK, QueueIsShort,
           hubVars, queueVars, roomVars, MaybeClient, Seats
  <2>3. RoomsKept
    BY <1>17, RoomsUntouched DEF SetConnection, roomVars
  <2> QED BY <2>1, <2>2, <2>3, MoveKeeps, GoroutineNames
<1>18. CASE Reconnected(c)
  <2>1. Moved(Read(c))
    BY <1>18, RestMoves, GoroutineNames
       DEF Reconnected, LobbyInv, At, PCs, Seats
  <2>2. UNCHANGED hubVars /\ DataOK
    BY <1>18
       DEF Reconnected, DataOK, LobbyInv, LobbyTypeOK, QueueIsShort,
           hubVars, queueVars, roomVars, SetState
  <2>3. RoomsKept
    BY <1>18, RoomsUntouched DEF Reconnected, roomVars
  <2> QED BY <2>1, <2>2, <2>3, MoveKeeps, GoroutineNames
<1>19. CASE \E r \in Rooms : JoinMatched(c, r) \/ CreateRoom(c, r)
  BY <1>19, JoinKeeps
<1>20. CASE LeaveQueue(c, "dequeue", "toLobby")
  BY <1>20, LeaveQueueKeeps DEF PCs
<1> QED BY <1>1, <1>2, <1>3, <1>4, <1>5, <1>6, <1>7, <1>8, <1>9, <1>10, <1>11,
           <1>12, <1>13, <1>14, <1>15, <1>16, <1>17, <1>18, <1>19, <1>20 DEF
           Handler

-----------------------------------------------------------------------------
(* The steps of a disconnection, a grace period and a game's end.          *)

\* The grace period is a new goroutine, with the room of the old one.
LEMMA StartGraceKeeps ==
  ASSUME LobbyInv, NEW c \in Clients, StartGrace(c)
  PROVE  LobbyInv' /\ SeatsKept
<1> DEFINE r == RoomOf(Read(c))
           gone == [pc |-> "unregister", room |-> NoRoom, seat |-> 0]
           sleeps == [pc |-> "sleep", room |-> r, seat |-> SeatIn(Read(c))]
<1>1. \/ go' = [go EXCEPT ![Read(c)] = gone]
      \/ go' = [go EXCEPT ![Read(c)] = gone, ![Grace(c)] = sleeps]
  BY DEF StartGrace
<1>2. gone \in Job /\ sleeps \in Job
  BY JobParts, GoroutineNames DEF LobbyInv, Job, PCs, Seats
<1>3. go' \in [Goroutines -> Job]
  BY <1>1, <1>2, GoroutineNames DEF LobbyInv, LobbyTypeOK
<1>4. ASSUME NEW h \in Goroutines, NEW q \in Rooms, RoomOf(h)' = q PROVE Known(q)
  <2>1. h \in {Read(c), Grace(c)} \/ go'[h] = go[h]
    BY <1>1 DEF LobbyInv, LobbyTypeOK
  <2>2. go'[Read(c)].room = NoRoom
    BY <1>1, GoroutineNames DEF LobbyInv, LobbyTypeOK
  <2>3. go'[Grace(c)].room = RoomOf(Read(c)) \/ go'[Grace(c)] = go[Grace(c)]
    BY <1>1, GoroutineNames DEF LobbyInv, LobbyTypeOK
  <2> QED BY <1>4, <2>1, <2>2, <2>3, GoroutineNames, LobbyAssumption
          DEF RoomOf, Known, Reached
<1>5. NewKept
  BY <1>1, GoroutineNames DEF StartGrace, LobbyInv, LobbyTypeOK, NewKept, At
<1>6. UNCHANGED hubVars /\ DataOK
  BY DEF StartGrace, DataOK, LobbyInv, LobbyTypeOK, QueueIsShort, queueVars, roomVars
<1>7. RoomsKept
  BY RoomsUntouched DEF StartGrace, roomVars
<1> QED BY <1>3, <1>4, <1>5, <1>6, <1>7, HubUntouched, StepKeeps DEF GoKept

\* The read loop asks the hub to forget its client, and closes it then.
LEMMA UnregisterKeeps ==
  ASSUME LobbyInv, NEW c \in Clients, Unregister(c) \/ Close(c)
  PROVE  LobbyInv' /\ SeatsKept
<1>1. /\ UNCHANGED <<hub, clientState, queueVars, roomVars>>
      /\ hubJob' \in [op : {"none", "register", "unregister"}, client : MaybeClient]
      /\ closed' \in [Clients -> BOOLEAN]
  <2>1. CASE Unregister(c)
    BY <2>1 DEF Unregister, LobbyInv, LobbyTypeOK, MaybeClient
  <2>2. CASE Close(c)
    BY <2>2 DEF Close, LobbyInv, LobbyTypeOK
  <2> QED BY <2>1, <2>2
<1>2. PICK pc \in {"close", "done"} :
        go' = [go EXCEPT ![Read(c)] = [pc |-> pc, room |-> NoRoom, seat |-> 0]]
  BY DEF Unregister, Close, Goto
<1>3. GoKept
  BY <1>2, LobbyAssumption
     DEF GoKept, LobbyInv, LobbyTypeOK, Job, PCs, Seats, RoomOf, Known, Reached
<1>4. ASSUME NEW d \in Clients, NEW step \in {"new", "close"}, At(Read(d), step)
      PROVE  d = c \/ At(Read(d), step)'
  BY <1>2, <1>4, GoroutineNames DEF LobbyInv, LobbyTypeOK, At
<1>5. ASSUME Unregister(c) PROVE KnownWhileOpen' /\ LeaversClose'
  <2>1. At(Read(c), "close")'
    BY <1>5, GoroutineNames DEF Unregister, Goto, LobbyInv, LobbyTypeOK, At
  <2>2. /\ hubJob = HubIdle /\ hubJob' = [op |-> "unregister", client |-> c]
        /\ UNCHANGED closed
    BY <1>5 DEF Unregister
  <2>3. KnownWhileOpen'
    <3> SUFFICES ASSUME NEW d \in Clients, ~At(Read(d), "new")', ~At(Read(d), "close")',
                        ~closed'[d]
                 PROVE  hub'[SessionOf[d]] = d
      BY DEF KnownWhileOpen
    <3>1. d # c
      BY <2>1
    <3>2. ~At(Read(d), "new") /\ ~At(Read(d), "close") /\ ~closed[d]
      BY <1>4, <2>2, <3>1
    <3>3. hubJob # [op |-> "register", client |-> d]
      BY <2>2 DEF HubIdle
    <3> QED BY <1>1, <3>2, <3>3 DEF LobbyInv, KnownWhileOpen
  <2>4. LeaversClose'
    BY <2>1, <2>2 DEF LeaversClose
  <2> QED BY <2>3, <2>4
<1>6. ASSUME Close(c) PROVE KnownWhileOpen' /\ LeaversClose'
  <2>1. hubJob' = hubJob /\ closed'[c]
        /\ \A d \in Clients : d # c => closed'[d] = closed[d]
    BY <1>6 DEF Close, LobbyInv, LobbyTypeOK
  <2>2. KnownWhileOpen'
    <3> SUFFICES ASSUME NEW d \in Clients, ~At(Read(d), "new")', ~At(Read(d), "close")',
                        ~closed'[d], hubJob' # [op |-> "register", client |-> d]
                 PROVE  hub'[SessionOf[d]] = d
      BY DEF KnownWhileOpen
    <3>1. d # c
      BY <2>1
    <3>2. ~At(Read(d), "new") /\ ~At(Read(d), "close") /\ ~closed[d]
      BY <1>4, <2>1, <3>1
    <3> QED BY <1>1, <2>1, <3>2 DEF LobbyInv, KnownWhileOpen
  <2>3. LeaversClose'
    BY <1>4, <2>1 DEF LobbyInv, LeaversClose
  <2> QED BY <2>2, <2>3
<1>7. HubKept
  BY <1>1, <1>5, <1>6 DEF HubKept, LobbyInv, LobbyTypeOK
<1>8. DataOK
  BY <1>1 DEF DataOK, LobbyInv, LobbyTypeOK, QueueIsShort, queueVars, roomVars
<1>9. RoomsKept
  BY <1>1, RoomsUntouched DEF roomVars
<1> QED BY <1>3, <1>7, <1>8, <1>9, StepKeeps

\* Every step of handleClientDisconnect.
LEMMA DisconnectKeeps ==
  ASSUME LobbyInv, NEW c \in Clients, Disconnect(c)
  PROVE  LobbyInv' /\ SeatsKept
<1>1. CASE FindLost(c)
  <2>1. Moved(Read(c))
    BY <1>1, FindMoves, GoroutineNames
       DEF FindLost, LobbyInv, At, PCs, Seats
  <2>2. UNCHANGED hubVars /\ DataOK
    BY <1>1
       DEF FindLost, DataOK, LobbyInv, LobbyTypeOK, QueueIsShort,
           hubVars, queueVars, roomVars
  <2>3. RoomsKept
    BY <1>1, RoomsUntouched DEF FindLost, roomVars
  <2> QED BY <2>1, <2>2, <2>3, MoveKeeps, GoroutineNames
<1>2. CASE ClearConnectionIf(c)
  <2>1. Moved(Read(c))
    <3>1. Then(Read(c), "alone") \/ Goto(Read(c), "unregister", NoRoom, 0)
      BY <1>2 DEF ClearConnectionIf
    <3>2. go[Read(c)].pc \notin {"new", "close"}
      BY <1>2 DEF ClearConnectionIf, At
    <3> QED BY <3>1, <3>2, ThenMoves, GotoMoves, GoroutineNames DEF LobbyInv, PCs, Seats
  <2>2. UNCHANGED hubVars /\ DataOK
    <3>1. conn' \in [Rooms -> [Seats -> MaybeClient]]
      <4>1. CASE UNCHANGED conn
        BY <4>1 DEF LobbyInv, LobbyTypeOK
      <4>2. CASE conn' = [conn EXCEPT ![RoomOf(Read(c))][SeatIn(Read(c))] = NoClient]
        BY <4>2 DEF LobbyInv, LobbyTypeOK, MaybeClient
      <4> QED BY <1>2, <4>1, <4>2 DEF ClearConnectionIf
    <3>2. awayBy' \in [Rooms -> [Seats -> MaybeClient]]
      <4>1. CASE UNCHANGED awayBy
        BY <4>1 DEF LobbyInv, LobbyTypeOK
      <4>2. CASE awayBy' = [awayBy EXCEPT ![RoomOf(Read(c))][SeatIn(Read(c))] = c]
        BY <4>2 DEF LobbyInv, LobbyTypeOK, MaybeClient
      <4> QED BY <1>2, <4>1, <4>2 DEF ClearConnectionIf
    <3>3. UNCHANGED <<hubVars, clientState, queueVars, phase>>
      BY <1>2 DEF ClearConnectionIf
    <3> QED BY <3>1, <3>2, <3>3
            DEF DataOK, LobbyInv, LobbyTypeOK, QueueIsShort, queueVars
  <2>3. RoomsKept
    BY <1>2, RoomsUntouched DEF ClearConnectionIf, roomVars
  <2> QED BY <2>1, <2>2, <2>3, MoveKeeps, GoroutineNames
<1>3. CASE CheckAlone(c)
  <2>1. Moved(Read(c))
    BY <1>3, ThenMoves, GoroutineNames
       DEF CheckAlone, LobbyInv, At, PCs, Seats
  <2>2. UNCHANGED hubVars /\ DataOK
    BY <1>3
       DEF CheckAlone, DataOK, LobbyInv, LobbyTypeOK, QueueIsShort,
           hubVars, queueVars, roomVars
  <2>3. RoomsKept
    BY <1>3, RoomsUntouched DEF CheckAlone, roomVars
  <2> QED BY <2>1, <2>2, <2>3, MoveKeeps, GoroutineNames
<1>4. CASE DropRoom(c)
  <2>1. Moved(Read(c))
    BY <1>4, GotoMoves, GoroutineNames
       DEF DropRoom, LobbyInv, At, PCs, Seats
  <2>2. UNCHANGED hubVars /\ DataOK
    BY <1>4
       DEF DropRoom, DataOK, LobbyInv, LobbyTypeOK, QueueIsShort,
           hubVars, queueVars, roomVars
  <2>3. RoomsKept
    BY <1>4, RoomsUntouched DEF DropRoom, roomVars
  <2> QED BY <2>1, <2>2, <2>3, MoveKeeps, GoroutineNames
<1>5. CASE StartGrace(c)
  BY <1>5, StartGraceKeeps
<1>6. CASE LeaveQueue(c, "forget", "unregister")
  BY <1>6, LeaveQueueKeeps DEF PCs
<1>7. CASE Unregister(c) \/ Close(c)
  BY <1>7, UnregisterKeeps
<1> QED BY <1>1, <1>2, <1>3, <1>4, <1>5, <1>6, <1>7 DEF Disconnect

\* A grace period and its callback.
LEMMA GraceKeeps ==
  ASSUME LobbyInv, NEW c \in Clients, GraceCallback(c) \/ GraceOver(c)
  PROVE  LobbyInv' /\ SeatsKept
<1>1. CASE GraceWakes(c)
  <2>1. Moved(Grace(c))
    BY <1>1, RestMoves, ThenMoves, GoroutineNames
       DEF GraceWakes, LobbyInv, At, PCs, Seats
  <2>2. UNCHANGED hubVars /\ DataOK
    BY <1>1
       DEF GraceWakes, DataOK, LobbyInv, LobbyTypeOK, QueueIsShort,
           hubVars, queueVars, roomVars
  <2>3. RoomsKept
    BY <1>1, RoomsUntouched DEF GraceWakes, roomVars
  <2> QED BY <2>1, <2>2, <2>3, MoveKeeps, GoroutineNames
<1>2. CASE CheckAbsent(c)
  <2>1. Moved(Grace(c))
    BY <1>2, RestMoves, ThenMoves, GoroutineNames
       DEF CheckAbsent, LobbyInv, At, PCs, Seats
  <2>2. UNCHANGED hubVars /\ DataOK
    BY <1>2
       DEF CheckAbsent, DataOK, LobbyInv, LobbyTypeOK, QueueIsShort,
           hubVars, queueVars, roomVars
  <2>3. RoomsKept
    BY <1>2, RoomsUntouched DEF CheckAbsent, roomVars
  <2> QED BY <2>1, <2>2, <2>3, MoveKeeps, GoroutineNames
<1>3. CASE GraceOver(c)
  <2>1. Moved(Grace(c))
    BY <1>3, ThenMoves, GoroutineNames
       DEF GraceOver, LobbyInv, At, PCs, Seats
  <2>2. UNCHANGED hubVars /\ DataOK
    BY <1>3
       DEF GraceOver, DataOK, LobbyInv, LobbyTypeOK, QueueIsShort,
           hubVars, queueVars, roomVars
  <2>3. RoomsKept
    BY <1>3, RoomsUntouched DEF GraceOver, roomVars
  <2> QED BY <2>1, <2>2, <2>3, MoveKeeps, GoroutineNames
<1> QED BY <1>1, <1>2, <1>3 DEF GraceCallback

\* Every step of endGame.
LEMMA EndGameKeeps ==
  ASSUME LobbyInv, NEW g \in Goroutines, EndGame(g)
  PROVE  LobbyInv' /\ SeatsKept
<1>1. CASE SetFinished(g)
  <2>1. Moved(g)
    BY <1>1, StayMoves, GoroutineNames
       DEF SetFinished, LobbyInv, At, PCs, Seats
  <2>2. UNCHANGED hubVars /\ DataOK
    BY <1>1
       DEF SetFinished, DataOK, LobbyInv, LobbyTypeOK, QueueIsShort,
           hubVars, queueVars, roomVars
  <2>3. RoomsKept
    BY <1>1, RoomsUntouched DEF SetFinished, roomVars
  <2> QED BY <2>1, <2>2, <2>3, MoveKeeps, GoroutineNames
<1>2. CASE ResetPlayersToLobby(g)
  <2>1. Moved(g)
    BY <1>2, StayMoves, ThenMoves, GoroutineNames
       DEF ResetPlayersToLobby, LobbyInv, At, PCs, Seats
  <2>2. UNCHANGED hubVars /\ DataOK
    BY <1>2
       DEF ResetPlayersToLobby, DataOK, LobbyInv, LobbyTypeOK, QueueIsShort,
           hubVars, queueVars, roomVars, SetStateOf
  <2>3. RoomsKept
    BY <1>2, RoomsUntouched DEF ResetPlayersToLobby, roomVars
  <2> QED BY <2>1, <2>2, <2>3, MoveKeeps, GoroutineNames
<1>3. CASE RemoveRoom(g)
  <2>1. Moved(g)
    BY <1>3, RestMoves, GoroutineNames
       DEF RemoveRoom, LobbyInv, At, PCs, Seats
  <2>2. UNCHANGED hubVars /\ DataOK
    BY <1>3
       DEF RemoveRoom, DataOK, LobbyInv, LobbyTypeOK, QueueIsShort,
           hubVars, queueVars, roomVars
  <2>3. RoomsKept
    BY <1>3, RoomsUntouched DEF RemoveRoom, roomVars
  <2> QED BY <2>1, <2>2, <2>3, MoveKeeps, GoroutineNames
<1> QED BY <1>1, <1>2, <1>3 DEF EndGame

-----------------------------------------------------------------------------
(* The hub, the clean-up of the queue, and what arrives.                   *)

\* The hub's goroutine: a newcomer takes the session over and the client it
\* replaces is closed; only its own client is forgotten.
LEMMA HubKeeps ==
  ASSUME LobbyInv, Hub
  PROVE  LobbyInv' /\ SeatsKept
<1>1. /\ UNCHANGED <<clientState, queueVars, roomVars, go>>
      /\ hubJob' = HubIdle
  BY DEF Hub, HubRegister, HubUnregister
<1>2. GoKept /\ NewKept
  BY <1>1, StillKept DEF LobbyInv
<1>3. DataOK
  BY <1>1 DEF DataOK, LobbyInv, LobbyTypeOK, QueueIsShort, queueVars, roomVars
<1>4. RoomsKept
  BY <1>1, RoomsUntouched DEF roomVars
<1>5. hubJob' \in [op : {"none", "register", "unregister"}, client : MaybeClient]
      /\ LeaversClose'
  BY <1>1 DEF HubIdle, MaybeClient, LeaversClose
<1>6. CASE HubRegister
  <2>1. hub' \in [Sessions -> MaybeClient] /\ closed' \in [Clients -> BOOLEAN]
    BY <1>6, LobbyAssumption DEF HubRegister, LobbyInv, LobbyTypeOK
  <2>2. ASSUME NEW d \in Clients, ~At(Read(d), "new")', ~At(Read(d), "close")', ~closed'[d]
        PROVE  hub'[SessionOf[d]] = d
    <3> DEFINE c == hubJob.client
    <3>1. /\ hubJob = [op |-> "register", client |-> c]
          /\ closed' = [e \in Clients |-> closed[e] \/ e = hub[SessionOf[c]]]
          /\ hub' = [hub EXCEPT ![SessionOf[c]] = c]
      BY <1>6 DEF HubRegister, LobbyInv, LobbyTypeOK
    <3>2. ~At(Read(d), "new") /\ ~At(Read(d), "close") /\ ~closed[d] /\ d # hub[SessionOf[c]]
      BY <1>2, <2>2, <3>1 DEF NewKept
    <3>3. d = c \/ hub[SessionOf[d]] = d
      BY <3>1, <3>2 DEF LobbyInv, KnownWhileOpen
    <3> QED BY <3>1, <3>2, <3>3, LobbyAssumption DEF LobbyInv, LobbyTypeOK
  <2>3. KnownWhileOpen'
    BY <2>2 DEF KnownWhileOpen
  <2> QED BY <1>2, <1>3, <1>4, <1>5, <2>1, <2>3, StepKeeps DEF HubKept
<1>7. CASE HubUnregister
  <2>1. hub' \in [Sessions -> MaybeClient] /\ closed' \in [Clients -> BOOLEAN]
    BY <1>7, LobbyAssumption DEF HubUnregister, LobbyInv, LobbyTypeOK, MaybeClient
  <2>2. KnownWhileOpen'
    BY <1>1, <1>2, <1>7, LobbyAssumption
       DEF HubUnregister, LobbyInv, LobbyTypeOK, KnownWhileOpen, NewKept, HubIdle,
           LeaversClose
  <2> QED BY <1>2, <1>3, <1>4, <1>5, <2>1, <2>2, StepKeeps DEF HubKept
<1> QED BY <1>6, <1>7 DEF Hub

\* The clean-up of the queue.
LEMMA QueueKeeps ==
  ASSUME LobbyInv, CleanUp \/ TellTimedOut
  PROVE  LobbyInv' /\ SeatsKept
<1>1. UNCHANGED <<hubVars, roomVars, go>>
  BY DEF CleanUp, TellTimedOut
<1>2. GoKept /\ NewKept
  BY <1>1, StillKept DEF LobbyInv
<1>3. HubKept
  BY <1>1, <1>2, HubUntouched
<1>4. DataOK
  <2>1. CASE CleanUp
    <3>1. PICK k \in 1..Len(queue) :
            /\ timedOut' = SubSeq(queue, 1, k)
            /\ queue' = SubSeq(queue, k + 1, Len(queue))
      BY <2>1 DEF CleanUp
    <3>2. queue \in Seq(Clients) /\ Len(queue) <= 1
      BY DEF LobbyInv, LobbyTypeOK, QueueIsShort
    <3>3. Head(queue) \in Clients
      BY <3>1, <3>2
    <3>4. timedOut' \in Seq(Clients) /\ queue' \in Seq(Clients) /\ Len(queue') <= 1
      BY <3>1, <3>2, <3>3, ShortQueue
    <3> QED BY <2>1, <3>4 DEF CleanUp, DataOK, LobbyInv, LobbyTypeOK, roomVars
  <2>2. CASE TellTimedOut
    BY <2>2 DEF TellTimedOut, SetStateOf, DataOK, LobbyInv, LobbyTypeOK, QueueIsShort,
                roomVars
  <2> QED BY <2>1, <2>2
<1>5. RoomsKept
  BY <1>1, RoomsUntouched DEF roomVars
<1> QED BY <1>2, <1>3, <1>4, <1>5, StepKeeps

\* A new connection.
LEMMA RegisterKeeps ==
  ASSUME LobbyInv, NEW c \in Clients, Register(c)
  PROVE  LobbyInv' /\ SeatsKept
<1>1. go' = [go EXCEPT ![Read(c)] = [pc |-> "idle", room |-> NoRoom, seat |-> 0]]
  BY DEF Register, Rest, Goto
<1>2. GoKept
  BY <1>1, LobbyAssumption
     DEF GoKept, LobbyInv, LobbyTypeOK, Job, PCs, Seats, RoomOf, Known, Reached
<1>3. \A d \in Clients : \A pc \in {"new", "close"} :
        At(Read(d), pc) => d = c \/ At(Read(d), pc)'
  BY <1>1, GoroutineNames DEF LobbyInv, LobbyTypeOK, At
<1>4. hubJob = HubIdle /\ hubJob' = [op |-> "register", client |-> c]
      /\ UNCHANGED <<hub, closed>>
  BY DEF Register
<1>5. KnownWhileOpen'
  BY <1>3, <1>4, LobbyAssumption DEF LobbyInv, KnownWhileOpen, HubIdle
<1>6. HubKept
  BY <1>4, <1>5 DEF HubKept, LobbyInv, LobbyTypeOK, LeaversClose, MaybeClient
<1>7. DataOK
  BY DEF Register, DataOK, LobbyInv, LobbyTypeOK, QueueIsShort, queueVars, roomVars
<1>8. RoomsKept
  BY RoomsUntouched DEF Register, roomVars
<1> QED BY <1>2, <1>6, <1>7, <1>8, StepKeeps

\* A message that the client's state admits.
LEMMA ReceiveKeeps ==
  ASSUME LobbyInv, NEW c \in Clients,
         NEW msg \in {"join", "create", "rejoin", "leave", "lookup"},
         NEW r \in Rooms \cup {NoRoom}, Receive(c, msg, r)
  PROVE  LobbyInv' /\ SeatsKept
<1> DEFINE q == IF msg = "lookup" THEN r ELSE NoRoom
<1>1. q \in Rooms \cup {NoRoom} /\ (q = NoRoom \/ Known(q))
  BY DEF Receive, Known
<1>2. /\ Goto(Read(c), msg, q, 0) /\ msg \in PCs /\ 0 \in Seats
      /\ go[Read(c)].pc \notin {"new", "close"}
  BY DEF Receive, At, PCs, Seats
<1> HIDE DEF q
<1>3. Moved(Read(c))
  BY <1>1, <1>2, GotoMoves, GoroutineNames DEF LobbyInv
<1>4. UNCHANGED hubVars /\ DataOK
  BY DEF Receive, DataOK, LobbyInv, LobbyTypeOK, QueueIsShort, queueVars, roomVars
<1>5. RoomsKept
  BY RoomsUntouched DEF Receive, roomVars
<1> QED BY <1>3, <1>4, <1>5, MoveKeeps, GoroutineNames

\* A connection that breaks.
LEMMA LoseKeeps ==
  ASSUME LobbyInv, NEW c \in Clients, Lose(c)
  PROVE  LobbyInv' /\ SeatsKept
<1>1. Moved(Read(c))
  BY GotoMoves, GoroutineNames DEF Lose, LobbyInv, At, PCs, Seats
<1>2. UNCHANGED hubVars /\ DataOK
  BY DEF Lose, DataOK, LobbyInv, LobbyTypeOK, QueueIsShort, queueVars, roomVars
<1>3. RoomsKept
  BY RoomsUntouched DEF Lose, roomVars
<1> QED BY <1>1, <1>2, <1>3, MoveKeeps, GoroutineNames

\* A game that the rules end.
LEMMA GameOverKeeps ==
  ASSUME LobbyInv, NEW r \in Rooms, GameOver(r)
  PROVE  LobbyInv' /\ SeatsKept
<1>1. Moved(Game(r))
  BY GotoMoves, GoroutineNames
     DEF GameOver, Active, LobbyInv, At, PCs, Seats, Known, Reached
<1>2. UNCHANGED hubVars /\ DataOK
  BY DEF GameOver, DataOK, LobbyInv, LobbyTypeOK, QueueIsShort, queueVars, roomVars
<1>3. RoomsKept
  BY RoomsUntouched DEF GameOver, roomVars
<1> QED BY <1>1, <1>2, <1>3, MoveKeeps, GoroutineNames

\* Whatever arrives.
LEMMA ArriveKeeps ==
  ASSUME LobbyInv, Arrive
  PROVE  LobbyInv' /\ SeatsKept
<1>1. CASE CleanUp
  BY <1>1, QueueKeeps
<1>2. ASSUME NEW c \in Clients, Register(c) \/ Lose(c) \/ GraceOver(c)
      PROVE  LobbyInv' /\ SeatsKept
  BY <1>2, RegisterKeeps, LoseKeeps, GraceKeeps
<1>3. ASSUME NEW c \in Clients, NEW msg \in {"join", "create", "rejoin", "leave"},
             Receive(c, msg, NoRoom)
      PROVE  LobbyInv' /\ SeatsKept
  BY <1>3, ReceiveKeeps
<1>4. ASSUME NEW c \in Clients, NEW r \in Rooms, Receive(c, "lookup", r)
      PROVE  LobbyInv' /\ SeatsKept
  BY <1>4, ReceiveKeeps
<1>5. ASSUME NEW r \in Rooms, GameOver(r) PROVE LobbyInv' /\ SeatsKept
  BY <1>5, GameOverKeeps
<1> QED BY <1>1, <1>2, <1>3, <1>4, <1>5 DEF Arrive

-----------------------------------------------------------------------------
(* Absent players are watched.                                             *)

\* A room in the registry is finished only while its end is carried out.
Ends(g, r) == RoomOf(g) = r /\ go[g].pc \in {"reset", "remove"}
EndsArePending ==
  \A r \in listed : phase[r] = "finished" => \E g \in Goroutines : Ends(g, r)

\* A connection that is lost is lost once, and its grace period begins then.
LeftPCs == {"unregister", "close", "done"}
GraceOnce == \A c \in Clients : At(Grace(c), "idle") \/ go[Read(c)].pc \in LeftPCs

WatchInv == AbsentAreWatched /\ EndsArePending /\ GraceOnce

WatchPCs == {"alone", "warn", "sleep", "due", "absent",
             "drop", "quit", "finish", "reset", "remove"}

\* Goroutine g alone goes on, and no grace period begins.
MovesOn(g) ==
  /\ \A h \in Goroutines \ {g} : go'[h] = go[h]
  /\ \A c \in Clients : g = Grace(c) => ~At(g, "idle")
  /\ \A c \in Clients : g = Read(c) /\ go[g].pc \in LeftPCs => go'[g].pc \in LeftPCs

\* What a step of g must see to: the rooms whose end it carried out, and the
\* seats it attended to or has made vacant.
LEMMA WatchStep ==
  ASSUME LobbyInv, WatchInv, NEW g \in Goroutines, MovesOn(g), listed' \subseteq listed,
         \A r \in listed' : phase'[r] = "finished" =>
           Ends(g, r)' \/ (phase[r] = "finished" /\ ~Ends(g, r)),
         \A r \in listed' : \A i \in Seats :
           seats'[r][i] # NoClient /\ conn'[r][i] = NoClient =>
             \/ Attends(g, r, i)'
             \/ seats[r][i] # NoClient /\ conn[r][i] = NoClient /\ ~Attends(g, r, i)
             \/ \E h \in Goroutines \ {g} : Attends(h, r, i)
  PROVE  WatchInv'
<1>1. \A h \in Goroutines \ {g} : \A r, i :
        (Attends(h, r, i)' <=> Attends(h, r, i)) /\ (Ends(h, r)' <=> Ends(h, r))
  BY DEF MovesOn, Attends, Ends, RoomOf, SeatIn
<1>2. AbsentAreWatched'
  <2> SUFFICES ASSUME NEW r \in listed', NEW i \in Seats,
                      seats'[r][i] # NoClient, conn'[r][i] = NoClient
               PROVE  \E h \in Goroutines : Attends(h, r, i)'
    BY DEF AbsentAreWatched
  <2>1. CASE Attends(g, r, i)'
    BY <2>1
  <2>2. CASE \E h \in Goroutines \ {g} : Attends(h, r, i)
    BY <1>1, <2>2
  <2>3. CASE seats[r][i] # NoClient /\ conn[r][i] = NoClient /\ ~Attends(g, r, i)
    <3>1. PICK h \in Goroutines : Attends(h, r, i)
      BY <2>3 DEF WatchInv, AbsentAreWatched
    <3> QED BY <1>1, <2>3, <3>1
  <2> QED BY <2>1, <2>2, <2>3
<1>3. EndsArePending'
  <2> SUFFICES ASSUME NEW r \in listed', phase'[r] = "finished"
               PROVE  \E h \in Goroutines : Ends(h, r)'
    BY DEF EndsArePending
  <2>1. CASE Ends(g, r)'
    BY <2>1
  <2>2. CASE phase[r] = "finished" /\ ~Ends(g, r)
    <3>1. PICK h \in Goroutines : Ends(h, r)
      BY <2>2 DEF WatchInv, EndsArePending
    <3> QED BY <1>1, <2>2, <3>1
  <2> QED BY <2>1, <2>2
<1>4. GraceOnce'
  <2> SUFFICES ASSUME NEW c \in Clients, go'[Grace(c)].pc # "idle"
               PROVE  go'[Read(c)].pc \in LeftPCs
    BY DEF GraceOnce, At
  <2>1. go[Grace(c)].pc # "idle"
    BY GoroutineNames DEF MovesOn, At
  <2>2. go[Read(c)].pc \in LeftPCs
    BY <2>1 DEF WatchInv, GraceOnce, At
  <2> QED BY <2>2, GoroutineNames DEF MovesOn
<1> QED BY <1>2, <1>3, <1>4 DEF WatchInv

\* A goroutine that attends to nothing, and leaves the rooms as they are.
LEMMA PassStep ==
  ASSUME LobbyInv, WatchInv, NEW g \in Goroutines, MovesOn(g), go[g].pc \notin WatchPCs,
         UNCHANGED <<seats, conn, phase, listed>>
  PROVE  WatchInv'
<1>1. \A r, i : ~Attends(g, r, i) /\ ~Ends(g, r)
  BY DEF Attends, Ends, WatchPCs
<1> QED BY <1>1, WatchStep

\* A read loop in the middle of its work, or a game's rules, that goes on.
LEMMA ReaderMoves ==
  ASSUME LobbyTypeOK, NEW g \in Goroutines, \A c \in Clients : g # Grace(c),
         go[g].pc \notin LeftPCs, \E job : go' = [go EXCEPT ![g] = job]
  PROVE  MovesOn(g)
BY DEF MovesOn, LobbyTypeOK

\* The steps of a read loop, and what starts one, that attend to nothing and
\* leave the rooms as they are.
LEMMA ReadersWatch ==
  ASSUME LobbyInv, WatchInv, NEW c \in Clients,
         \/ JoinAgain(c) \/ JoinWaits(c) \/ TellMatched(c) \/ Wait(c) \/ LookUp(c)
         \/ EnterGame(c) \/ TellHost(c) \/ FindToLeave(c) \/ LeaveRoom(c) \/ ToLobby(c)
         \/ FindToReconnect(c) \/ CheckReconnect(c) \/ Reconnected(c) \/ FindLost(c)
         \/ LeaveQueue(c, "dequeue", "toLobby") \/ LeaveQueue(c, "forget", "unregister")
         \/ Register(c) \/ Lose(c)
  PROVE  WatchInv'
<1>1. CASE JoinAgain(c)
  <2>1. go[Read(c)].pc \notin WatchPCs \cup LeftPCs /\ \E job : go' = [go EXCEPT ![Read(c)] = job]
    BY <1>1 DEF JoinAgain, At, Then, Rest, Goto, WatchPCs, LeftPCs
  <2>2. UNCHANGED <<seats, conn, phase, listed>>
    BY <1>1 DEF JoinAgain, roomVars
  <2> QED BY <2>1, <2>2, ReaderMoves, PassStep, GoroutineNames DEF LobbyInv
<1>2. CASE JoinWaits(c)
  <2>1. go[Read(c)].pc \notin WatchPCs \cup LeftPCs /\ \E job : go' = [go EXCEPT ![Read(c)] = job]
    BY <1>2 DEF JoinWaits, At, Then, Rest, Goto, WatchPCs, LeftPCs
  <2>2. UNCHANGED <<seats, conn, phase, listed>>
    BY <1>2 DEF JoinWaits, roomVars
  <2> QED BY <2>1, <2>2, ReaderMoves, PassStep, GoroutineNames DEF LobbyInv
<1>3. CASE TellMatched(c)
  <2>1. go[Read(c)].pc \notin WatchPCs \cup LeftPCs /\ \E job : go' = [go EXCEPT ![Read(c)] = job]
    BY <1>3 DEF TellMatched, At, Then, Rest, Goto, WatchPCs, LeftPCs
  <2>2. UNCHANGED <<seats, conn, phase, listed>>
    BY <1>3 DEF TellMatched, roomVars
  <2> QED BY <2>1, <2>2, ReaderMoves, PassStep, GoroutineNames DEF LobbyInv
<1>4. CASE Wait(c)
  <2>1. go[Read(c)].pc \notin WatchPCs \cup LeftPCs /\ \E job : go' = [go EXCEPT ![Read(c)] = job]
    BY <1>4 DEF Wait, At, Then, Rest, Goto, WatchPCs, LeftPCs
  <2>2. UNCHANGED <<seats, conn, phase, listed>>
    BY <1>4 DEF Wait, roomVars
  <2> QED BY <2>1, <2>2, ReaderMoves, PassStep, GoroutineNames DEF LobbyInv
<1>5. CASE LookUp(c)
  <2>1. go[Read(c)].pc \notin WatchPCs \cup LeftPCs /\ \E job : go' = [go EXCEPT ![Read(c)] = job]
    BY <1>5 DEF LookUp, At, Then, Rest, Goto, WatchPCs, LeftPCs
  <2>2. UNCHANGED <<seats, conn, phase, listed>>
    BY <1>5 DEF LookUp, roomVars
  <2> QED BY <2>1, <2>2, ReaderMoves, PassStep, GoroutineNames DEF LobbyInv
<1>6. CASE EnterGame(c)
  <2>1. go[Read(c)].pc \notin WatchPCs \cup LeftPCs /\ \E job : go' = [go EXCEPT ![Read(c)] = job]
    BY <1>6 DEF EnterGame, At, Then, Rest, Goto, WatchPCs, LeftPCs
  <2>2. UNCHANGED <<seats, conn, phase, listed>>
    BY <1>6 DEF EnterGame, roomVars
  <2> QED BY <2>1, <2>2, ReaderMoves, PassStep, GoroutineNames DEF LobbyInv
<1>7. CASE TellHost(c)
  <2>1. go[Read(c)].pc \notin WatchPCs \cup LeftPCs /\ \E job : go' = [go EXCEPT ![Read(c)] = job]
    BY <1>7 DEF TellHost, At, Then, Rest, Goto, WatchPCs, LeftPCs
  <2>2. UNCHANGED <<seats, conn, phase, listed>>
    BY <1>7 DEF TellHost, roomVars
  <2> QED BY <2>1, <2>2, ReaderMoves, PassStep, GoroutineNames DEF LobbyInv
<1>8. CASE FindToLeave(c)
  <2>1. go[Read(c)].pc \notin WatchPCs \cup LeftPCs /\ \E job : go' = [go EXCEPT ![Read(c)] = job]
    BY <1>8 DEF FindToLeave, FindPlayerRoom, At, Then, Rest, Goto, WatchPCs, LeftPCs
  <2>2. UNCHANGED <<seats, conn, phase, listed>>
    BY <1>8 DEF FindToLeave, roomVars
  <2> QED BY <2>1, <2>2, ReaderMoves, PassStep, GoroutineNames DEF LobbyInv
<1>9. CASE LeaveRoom(c)
  <2>1. go[Read(c)].pc \notin WatchPCs \cup LeftPCs /\ \E job : go' = [go EXCEPT ![Read(c)] = job]
    BY <1>9 DEF LeaveRoom, At, Then, Rest, Goto, WatchPCs, LeftPCs
  <2>2. UNCHANGED <<seats, conn, phase, listed>>
    BY <1>9 DEF LeaveRoom, roomVars
  <2> QED BY <2>1, <2>2, ReaderMoves, PassStep, GoroutineNames DEF LobbyInv
<1>10. CASE ToLobby(c)
  <2>1. go[Read(c)].pc \notin WatchPCs \cup LeftPCs /\ \E job : go' = [go EXCEPT ![Read(c)] = job]
    BY <1>10 DEF ToLobby, At, Then, Rest, Goto, WatchPCs, LeftPCs
  <2>2. UNCHANGED <<seats, conn, phase, listed>>
    BY <1>10 DEF ToLobby, roomVars
  <2> QED BY <2>1, <2>2, ReaderMoves, PassStep, GoroutineNames DEF LobbyInv
<1>11. CASE FindToReconnect(c)
  <2>1. go[Read(c)].pc \notin WatchPCs \cup LeftPCs /\ \E job : go' = [go EXCEPT ![Read(c)] = job]
    BY <1>11 DEF FindToReconnect, FindPlayerRoom, At, Then, Rest, Goto, WatchPCs, LeftPCs
  <2>2. UNCHANGED <<seats, conn, phase, listed>>
    BY <1>11 DEF FindToReconnect, roomVars
  <2> QED BY <2>1, <2>2, ReaderMoves, PassStep, GoroutineNames DEF LobbyInv
<1>12. CASE CheckReconnect(c)
  <2>1. go[Read(c)].pc \notin WatchPCs \cup LeftPCs /\ \E job : go' = [go EXCEPT ![Read(c)] = job]
    BY <1>12 DEF CheckReconnect, At, Then, Rest, Goto, WatchPCs, LeftPCs
  <2>2. UNCHANGED <<seats, conn, phase, listed>>
    BY <1>12 DEF CheckReconnect, roomVars
  <2> QED BY <2>1, <2>2, ReaderMoves, PassStep, GoroutineNames DEF LobbyInv
<1>13. CASE Reconnected(c)
  <2>1. go[Read(c)].pc \notin WatchPCs \cup LeftPCs /\ \E job : go' = [go EXCEPT ![Read(c)] = job]
    BY <1>13 DEF Reconnected, At, Then, Rest, Goto, WatchPCs, LeftPCs
  <2>2. UNCHANGED <<seats, conn, phase, listed>>
    BY <1>13 DEF Reconnected, roomVars
  <2> QED BY <2>1, <2>2, ReaderMoves, PassStep, GoroutineNames DEF LobbyInv
<1>14. CASE FindLost(c)
  <2>1. go[Read(c)].pc \notin WatchPCs \cup LeftPCs /\ \E job : go' = [go EXCEPT ![Read(c)] = job]
    BY <1>14 DEF FindLost, FindPlayerRoom, At, Then, Rest, Goto, WatchPCs, LeftPCs
  <2>2. UNCHANGED <<seats, conn, phase, listed>>
    BY <1>14 DEF FindLost, roomVars
  <2> QED BY <2>1, <2>2, ReaderMoves, PassStep, GoroutineNames DEF LobbyInv
<1>15. CASE LeaveQueue(c, "dequeue", "toLobby") \/ LeaveQueue(c, "forget", "unregister")
  <2>1. go[Read(c)].pc \notin WatchPCs \cup LeftPCs /\ \E job : go' = [go EXCEPT ![Read(c)] = job]
    BY <1>15 DEF LeaveQueue, At, Then, Rest, Goto, WatchPCs, LeftPCs
  <2>2. UNCHANGED <<seats, conn, phase, listed>>
    BY <1>15 DEF LeaveQueue, roomVars
  <2> QED BY <2>1, <2>2, ReaderMoves, PassStep, GoroutineNames DEF LobbyInv
<1>16. CASE Register(c)
  <2>1. go[Read(c)].pc \notin WatchPCs \cup LeftPCs /\ \E job : go' = [go EXCEPT ![Read(c)] = job]
    BY <1>16 DEF Register, At, Then, Rest, Goto, WatchPCs, LeftPCs
  <2>2. UNCHANGED <<seats, conn, phase, listed>>
    BY <1>16 DEF Register, roomVars
  <2> QED BY <2>1, <2>2, ReaderMoves, PassStep, GoroutineNames DEF LobbyInv
<1>17. CASE Lose(c)
  <2>1. go[Read(c)].pc \notin WatchPCs \cup LeftPCs /\ \E job : go' = [go EXCEPT ![Read(c)] = job]
    BY <1>17 DEF Lose, At, Then, Rest, Goto, WatchPCs, LeftPCs
  <2>2. UNCHANGED <<seats, conn, phase, listed>>
    BY <1>17 DEF Lose, roomVars
  <2> QED BY <2>1, <2>2, ReaderMoves, PassStep, GoroutineNames DEF LobbyInv
<1> QED BY <1>1, <1>2, <1>3, <1>4, <1>5, <1>6, <1>7, <1>8, <1>9, <1>10, <1>11, <1>12, <1>13, <1>14, <1>15, <1>16, <1>17

\* A message that arrives, a game that the rules end, and the end of a read loop.
LEMMA ArrivalsWatch ==
  ASSUME LobbyInv, WatchInv,
         \/ \E c \in Clients, msg \in {"join", "create", "rejoin", "leave", "lookup"},
               r \in Rooms \cup {NoRoom} : Receive(c, msg, r)
         \/ \E r \in Rooms : GameOver(r)
         \/ \E c \in Clients : Unregister(c) \/ Close(c)
  PROVE  WatchInv'
<1>1. ASSUME NEW c \in Clients, NEW msg, NEW r, Receive(c, msg, r)
      PROVE  WatchInv'
  <2>1. /\ go[Read(c)].pc \notin WatchPCs \cup LeftPCs
        /\ \E job : go' = [go EXCEPT ![Read(c)] = job]
    BY <1>1 DEF Receive, At, Goto, WatchPCs, LeftPCs
  <2>2. UNCHANGED <<seats, conn, phase, listed>>
    BY <1>1 DEF Receive, roomVars
  <2> QED BY <2>1, <2>2, ReaderMoves, PassStep, GoroutineNames DEF LobbyInv
<1>2. ASSUME NEW r \in Rooms, GameOver(r) PROVE WatchInv'
  <2>1. /\ go[Game(r)].pc \notin WatchPCs \cup LeftPCs
        /\ \E job : go' = [go EXCEPT ![Game(r)] = job]
    BY <1>2 DEF GameOver, At, Goto, WatchPCs, LeftPCs
  <2>2. UNCHANGED <<seats, conn, phase, listed>>
    BY <1>2 DEF GameOver, roomVars
  <2>3. \A c \in Clients : Game(r) # Grace(c)
    BY DEF Game, Grace
  <2> QED BY <2>1, <2>2, <2>3, ReaderMoves, PassStep, GoroutineNames DEF LobbyInv
<1>3. ASSUME NEW c \in Clients, Unregister(c) \/ Close(c) PROVE WatchInv'
  <2>1. PICK pc \in {"close", "done"} :
          go' = [go EXCEPT ![Read(c)] = [pc |-> pc, room |-> NoRoom, seat |-> 0]]
    BY <1>3 DEF Unregister, Close, Goto
  <2>2. MovesOn(Read(c))
    BY <2>1, GoroutineNames DEF MovesOn, LobbyInv, LobbyTypeOK, LeftPCs
  <2>3. go[Read(c)].pc \notin WatchPCs /\ UNCHANGED <<seats, conn, phase, listed>>
    BY <1>3 DEF Unregister, Close, At, WatchPCs, roomVars
  <2> QED BY <2>2, <2>3, PassStep, GoroutineNames
<1> QED BY <1>1, <1>2, <1>3

\* The hub and the clean-up of the queue.
LEMMA StillWatch ==
  ASSUME WatchInv, UNCHANGED <<seats, conn, phase, listed, go>>
  PROVE  WatchInv'
BY DEF WatchInv, AbsentAreWatched, EndsArePending, GraceOnce, Attends, Ends, At, RoomOf, SeatIn

\* Whoever takes a seat has a connection.
LEMMA SeatingWatch ==
  ASSUME LobbyInv, WatchInv, NEW c \in Clients,
         \/ StartGame(c) \/ AddPlayer(c) \/ SetConnection(c)
         \/ \E r \in Rooms : JoinMatched(c, r) \/ CreateRoom(c, r)
  PROVE  WatchInv'
<1> DEFINE g == Read(c)
<1>0. g \in Goroutines /\ LobbyTypeOK /\ NoClient \notin Clients
  BY GoroutineNames, LobbyAssumption DEF LobbyInv
<1>1. CASE StartGame(c)
  <2>1. MovesOn(g) /\ go[g].pc \notin WatchPCs
    BY <1>0, <1>1, ReaderMoves, GoroutineNames
       DEF StartGame, At, Then, Goto, WatchPCs, LeftPCs
  <2>2. \A r, i : ~Attends(g, r, i) /\ ~Ends(g, r)
    BY <2>1 DEF Attends, Ends, WatchPCs
  <2>3. UNCHANGED <<seats, conn, listed>>
        /\ \A r \in listed : phase'[r] = "finished" => phase[r] = "finished"
    BY <1>0, <1>1 DEF StartGame, LobbyTypeOK
  <2> QED BY <1>0, <2>1, <2>2, <2>3, WatchStep
<1>2. CASE AddPlayer(c)
  <2>1. MovesOn(g) /\ go[g].pc \notin WatchPCs
    <3>1. go[g].pc \notin WatchPCs \cup LeftPCs /\ \E job : go' = [go EXCEPT ![g] = job]
      BY <1>2 DEF AddPlayer, At, Then, Rest, Goto, WatchPCs, LeftPCs
    <3> QED BY <1>0, <3>1, ReaderMoves, GoroutineNames
  <2>2. \A r, i : ~Attends(g, r, i) /\ ~Ends(g, r)
    BY <2>1 DEF Attends, Ends, WatchPCs
  <2>3. UNCHANGED <<phase, listed>>
    BY <1>2 DEF AddPlayer
  <2>4. ASSUME NEW r \in Rooms, NEW i \in Seats, seats'[r][i] # NoClient, conn'[r][i] = NoClient
        PROVE  seats[r][i] # NoClient /\ conn[r][i] = NoClient
    <3>1. CASE UNCHANGED <<seats, conn>>
      BY <2>4, <3>1
    <3>2. CASE /\ seats' = [seats EXCEPT ![RoomOf(g)][1] = c]
               /\ conn' = [conn EXCEPT ![RoomOf(g)][1] = c]
      BY <1>0, <2>4, <3>2 DEF LobbyTypeOK
    <3> QED BY <1>2, <3>1, <3>2 DEF AddPlayer
  <2> QED BY <1>0, <2>1, <2>2, <2>3, <2>4, WatchStep DEF LobbyTypeOK
<1>3. CASE SetConnection(c)
  <2>1. MovesOn(g) /\ go[g].pc \notin WatchPCs
    <3>1. go[g].pc \notin WatchPCs \cup LeftPCs /\ \E job : go' = [go EXCEPT ![g] = job]
      BY <1>3 DEF SetConnection, At, Then, Goto, WatchPCs, LeftPCs
    <3> QED BY <1>0, <3>1, ReaderMoves, GoroutineNames
  <2>2. \A r, i : ~Attends(g, r, i) /\ ~Ends(g, r)
    BY <2>1 DEF Attends, Ends, WatchPCs
  <2>3. UNCHANGED <<seats, phase, listed>>
    BY <1>3 DEF SetConnection
  <2>4. ASSUME NEW r \in Rooms, NEW i \in Seats, conn'[r][i] = NoClient
        PROVE  conn[r][i] = NoClient
    BY <1>0, <1>3, <2>4 DEF SetConnection, LobbyTypeOK
  <2> QED BY <1>0, <2>1, <2>2, <2>3, <2>4, WatchStep DEF LobbyTypeOK
<1>4. ASSUME NEW r \in Rooms, JoinMatched(c, r) \/ CreateRoom(c, r) PROVE WatchInv'
  <2>1. PICK p \in [Seats -> MaybeClient] : NewRoom(r, p)
    <3>1. CASE JoinMatched(c, r)
      <4>1. Head(queue) \in Clients
        BY <1>0, <1>4, <3>1 DEF JoinMatched, LobbyTypeOK
      <4>2. [i \in Seats |-> IF i = 0 THEN Head(queue) ELSE c] \in [Seats -> MaybeClient]
        BY <4>1 DEF MaybeClient
      <4> QED BY <3>1, <4>2 DEF JoinMatched
    <3>2. CASE CreateRoom(c, r)
      <4>1. [i \in Seats |-> IF i = 0 THEN c ELSE NoClient] \in [Seats -> MaybeClient]
        BY DEF MaybeClient
      <4> QED BY <3>2, <4>1 DEF CreateRoom
    <3> QED BY <1>4, <3>1, <3>2
  <2>2. /\ go[g].pc \in {"join", "create"}
        /\ \E job : go' = [go EXCEPT ![g] = job]
    BY <1>4 DEF JoinMatched, CreateRoom, At, Goto
  <2>3. go[g].pc \notin WatchPCs
    BY <2>2 DEF WatchPCs
  <2>4. \A h \in Goroutines \ {g} : go'[h] = go[h]
    BY <1>0, <2>2 DEF LobbyTypeOK
  <2>5. \A h \in Goroutines : \A q, i : (h = g => ~Attends(h, q, i) /\ ~Ends(h, q))
          /\ (h # g => (Attends(h, q, i)' <=> Attends(h, q, i)) /\ (Ends(h, q)' <=> Ends(h, q)))
    BY <2>3, <2>4 DEF Attends, Ends, WatchPCs, RoomOf, SeatIn
  <2>6. /\ \A q \in listed' : q = r \/ q \in listed
        /\ \A q \in Rooms \ {r} : seats'[q] = seats[q] /\ conn'[q] = conn[q]
                                    /\ phase'[q] = phase[q]
        /\ seats'[r] = conn'[r] /\ phase'[r] = "waiting"
    BY <1>0, <2>1 DEF NewRoom, LobbyTypeOK
  <2>7. AbsentAreWatched'
    <3> SUFFICES ASSUME NEW q \in listed', NEW i \in Seats,
                        seats'[q][i] # NoClient, conn'[q][i] = NoClient
                 PROVE  \E h \in Goroutines : Attends(h, q, i)'
      BY DEF AbsentAreWatched
    <3>1. q # r /\ q \in listed /\ q \in Rooms
      BY <1>0, <2>6 DEF LobbyTypeOK
    <3>2. PICK h \in Goroutines : Attends(h, q, i)
      BY <2>6, <3>1 DEF WatchInv, AbsentAreWatched
    <3> QED BY <2>5, <3>2
  <2>8. EndsArePending'
    <3> SUFFICES ASSUME NEW q \in listed', phase'[q] = "finished"
                 PROVE  \E h \in Goroutines : Ends(h, q)'
      BY DEF EndsArePending
    <3>1. q # r /\ q \in listed /\ q \in Rooms
      BY <1>0, <2>6 DEF LobbyTypeOK
    <3>2. PICK h \in Goroutines : Ends(h, q)
      BY <2>6, <3>1 DEF WatchInv, EndsArePending
    <3> QED BY <2>5, <3>2
  <2>9. GraceOnce'
    BY <2>2, <2>4, GoroutineNames DEF WatchInv, GraceOnce, LeftPCs, At
  <2> QED BY <2>7, <2>8, <2>9 DEF WatchInv
<1> QED BY <1>1, <1>2, <1>3, <1>4

\* Who makes a seat vacant attends to it: a player who leaves on the way to end
\* the game, one who is lost on the way to look at the room.
LEMMA VacatingWatch ==
  ASSUME LobbyInv, WatchInv, NEW c \in Clients,
         ClearConnection(c) \/ ClearConnectionIf(c) \/ QuitToLobby(c)
  PROVE  WatchInv'
<1> DEFINE g == Read(c)
<1>0. /\ g \in Goroutines /\ LobbyTypeOK
      /\ UNCHANGED <<seats, phase, listed>>
  BY GoroutineNames
     DEF LobbyInv, ClearConnection, ClearConnectionIf, QuitToLobby, roomVars
<1>1. CASE ClearConnection(c)
  <2>1. /\ go[g].pc = "clear"
        /\ go' = [go EXCEPT ![g] = [pc |-> "quit", room |-> RoomOf(g), seat |-> SeatIn(g)]]
    BY <1>1 DEF ClearConnection, At, Then, Goto
  <2>2. MovesOn(g)
    BY <1>0, <2>1, ReaderMoves, GoroutineNames DEF LeftPCs
  <2>3. \A r, i : ~Attends(g, r, i) /\ ~Ends(g, r) /\ (Attends(g, r, i)' <=> r = RoomOf(g))
    BY <1>0, <2>1 DEF LobbyTypeOK, Attends, Ends, RoomOf, SeatIn
  <2>4. \A r \in Rooms, i \in Seats : r = RoomOf(g) \/ conn'[r][i] = conn[r][i]
    BY <1>0, <1>1 DEF ClearConnection, LobbyTypeOK
  <2> QED BY <1>0, <2>2, <2>3, <2>4, WatchStep DEF LobbyTypeOK
<1>2. CASE QuitToLobby(c)
  <2>1. /\ go[g].pc = "quit"
        /\ go' = [go EXCEPT ![g] = [pc |-> "finish", room |-> RoomOf(g), seat |-> SeatIn(g)]]
    BY <1>2 DEF QuitToLobby, At, Then, Goto
  <2>2. MovesOn(g)
    BY <1>0, <2>1, ReaderMoves, GoroutineNames DEF LeftPCs
  <2>3. \A r, i : (Attends(g, r, i) => Attends(g, r, i)') /\ ~Ends(g, r)
    BY <1>0, <2>1 DEF LobbyTypeOK, Attends, Ends, RoomOf, SeatIn
  <2>4. UNCHANGED conn
    BY <1>2 DEF QuitToLobby, roomVars
  <2> QED BY <1>0, <2>2, <2>3, <2>4, WatchStep DEF LobbyTypeOK
<1>3. CASE ClearConnectionIf(c)
  <2>1. /\ go[g].pc = "unbind"
        /\ \E job : go' = [go EXCEPT ![g] = job]
    BY <1>3 DEF ClearConnectionIf, At, Then, Goto
  <2>2. MovesOn(g)
    BY <1>0, <2>1, ReaderMoves, GoroutineNames DEF LeftPCs
  <2>3. \A r, i : ~Attends(g, r, i) /\ ~Ends(g, r)
    BY <2>1 DEF Attends, Ends
  <2>4. CASE UNCHANGED conn
    BY <1>0, <2>2, <2>3, <2>4, WatchStep DEF LobbyTypeOK
  <2>5. CASE /\ conn' = [conn EXCEPT ![RoomOf(g)][SeatIn(g)] = NoClient]
             /\ Then(g, "alone")
    <3>1. go' = [go EXCEPT ![g] = [pc |-> "alone", room |-> RoomOf(g), seat |-> SeatIn(g)]]
      BY <2>5 DEF Then, Goto
    <3>2. \A r \in Rooms, i \in Seats :
            (r = RoomOf(g) /\ i = SeatIn(g)) \/ conn'[r][i] = conn[r][i]
      BY <1>0, <2>5 DEF LobbyTypeOK
    <3>3. ASSUME NEW r \in listed', NEW i \in Seats,
                 seats'[r][i] # NoClient, conn'[r][i] = NoClient
          PROVE  \/ Attends(g, r, i)'
                 \/ seats[r][i] # NoClient /\ conn[r][i] = NoClient /\ ~Attends(g, r, i)
      <4>1. CASE r = RoomOf(g) /\ i = SeatIn(g)
        <5>1. go'[g].room = r /\ go'[g].seat = i /\ go'[g].pc = "alone"
          BY <1>0, <3>1, <4>1 DEF LobbyTypeOK
        <5> QED BY <5>1 DEF Attends, RoomOf, SeatIn
      <4>2. CASE ~(r = RoomOf(g) /\ i = SeatIn(g))
        BY <1>0, <2>3, <3>2, <3>3, <4>2 DEF LobbyTypeOK
      <4> QED BY <4>1, <4>2
    <3> QED BY <1>0, <2>2, <2>3, <3>3, WatchStep DEF LobbyTypeOK
  <2> QED BY <1>3, <2>4, <2>5 DEF ClearConnectionIf
<1> QED BY <1>1, <1>2, <1>3

\* The lost player's read loop looks at the room, which it warns or drops.
LEMMA LookingWatch ==
  ASSUME LobbyInv, WatchInv, NEW c \in Clients, CheckAlone(c) \/ DropRoom(c)
  PROVE  WatchInv'
<1> DEFINE g == Read(c)
<1>0. g \in Goroutines /\ LobbyTypeOK /\ UNCHANGED <<seats, conn, phase>>
  BY GoroutineNames DEF LobbyInv, CheckAlone, DropRoom, roomVars
<1>1. CASE CheckAlone(c)
  <2>1. PICK pc \in {"warn", "drop"} :
          go' = [go EXCEPT ![g] = [pc |-> pc, room |-> RoomOf(g), seat |-> SeatIn(g)]]
    BY <1>1 DEF CheckAlone, Then, Goto
  <2>2. go[g].pc = "alone" /\ UNCHANGED listed
    BY <1>1 DEF CheckAlone, At, roomVars
  <2>3. MovesOn(g)
    BY <1>0, <2>1, <2>2, ReaderMoves, GoroutineNames DEF LeftPCs
  <2>4. \A r, i : (Attends(g, r, i) => Attends(g, r, i)') /\ ~Ends(g, r)
    BY <1>0, <2>1, <2>2 DEF LobbyTypeOK, Attends, Ends, RoomOf, SeatIn
  <2> QED BY <1>0, <2>2, <2>3, <2>4, WatchStep DEF LobbyTypeOK
<1>2. CASE DropRoom(c)
  <2>1. /\ go[g].pc = "drop" /\ listed' = listed \ {RoomOf(g)}
        /\ \E job : go' = [go EXCEPT ![g] = job]
    BY <1>2 DEF DropRoom, At, Goto
  <2>2. MovesOn(g)
    BY <1>0, <2>1, ReaderMoves, GoroutineNames DEF LeftPCs
  <2>3. listed' \subseteq listed
    BY <2>1
  <2>4. /\ \A r \in listed' : phase'[r] = "finished" => phase[r] = "finished" /\ ~Ends(g, r)
        /\ \A r \in listed' : \A i \in Seats :
             seats'[r][i] # NoClient /\ conn'[r][i] = NoClient =>
               seats[r][i] # NoClient /\ conn[r][i] = NoClient /\ ~Attends(g, r, i)
    BY <1>0, <2>1 DEF Ends, Attends
  <2> QED BY <1>0, <2>2, <2>3, <2>4, WatchStep
<1> QED BY <1>1, <1>2

\* The read loop hands the seat to the grace period, unless the game is over.
LEMMA StartGraceWatch ==
  ASSUME LobbyInv, WatchInv, NEW c \in Clients, StartGrace(c)
  PROVE  WatchInv'
<1> DEFINE g == Read(c)
           r0 == RoomOf(g)
           gone == [pc |-> "unregister", room |-> NoRoom, seat |-> 0]
           sleeps == [pc |-> "sleep", room |-> r0, seat |-> SeatIn(g)]
<1>0. /\ g \in Goroutines /\ Grace(c) \in Goroutines /\ g # Grace(c) /\ LobbyTypeOK
      /\ go[g].pc = "warn" /\ UNCHANGED <<seats, conn, phase, listed>>
  BY GoroutineNames DEF LobbyInv, StartGrace, At, roomVars
<1>1. At(Grace(c), "idle")
  BY <1>0 DEF WatchInv, GraceOnce, LeftPCs
<1>2. \A h \in Goroutines \ {g, Grace(c)} : go'[h] = go[h]
  BY <1>0 DEF StartGrace, LobbyTypeOK
<1>3. go'[g] = gone
  BY <1>0 DEF StartGrace, LobbyTypeOK
<1>4. Active(r0) => go'[Grace(c)] = sleeps
  BY <1>0 DEF StartGrace, LobbyTypeOK
<1>5. \A r, i : ~Attends(Grace(c), r, i) /\ ~Ends(Grace(c), r) /\ ~Ends(g, r)
  BY <1>0, <1>1 DEF Attends, Ends, At
<1>6. \A h \in Goroutines \ {g, Grace(c)} : \A r, i :
        (Attends(h, r, i)' <=> Attends(h, r, i)) /\ (Ends(h, r)' <=> Ends(h, r))
  BY <1>2 DEF Attends, Ends, RoomOf, SeatIn
<1>7. EndsArePending'
  BY <1>0, <1>5, <1>6 DEF WatchInv, EndsArePending
<1>8. AbsentAreWatched'
  <2> SUFFICES ASSUME NEW r \in listed, NEW i \in Seats,
                      seats[r][i] # NoClient, conn[r][i] = NoClient
               PROVE  \E h \in Goroutines : Attends(h, r, i)'
    BY <1>0 DEF AbsentAreWatched
  <2>1. PICK h \in Goroutines : Attends(h, r, i)
    BY DEF WatchInv, AbsentAreWatched
  <2>2. CASE h # g
    BY <1>5, <1>6, <2>1, <2>2
  <2>3. CASE h = g /\ Active(r0)
    <3>1. r = r0 /\ i = SeatIn(g)
      BY <1>0, <2>1, <2>3 DEF Attends
    <3>2. go'[Grace(c)] = sleeps
      BY <1>4, <2>3
    <3>3. Attends(Grace(c), r, i)'
      BY <3>1, <3>2 DEF Attends, RoomOf, SeatIn
    <3> QED BY <1>0, <3>3
  <2>4. CASE h = g /\ ~Active(r0)
    <3>1. r = r0 /\ phase[r] = "finished"
      BY <2>1, <2>4 DEF Attends, Active
    <3>2. PICK e \in Goroutines : Ends(e, r)
      BY <3>1 DEF WatchInv, EndsArePending
    <3>3. Attends(e, r, i) /\ e \notin {g, Grace(c)}
      BY <1>5, <3>2 DEF Attends, Ends
    <3> QED BY <1>6, <3>3
  <2> QED BY <2>2, <2>3, <2>4
<1>9. GraceOnce'
  <2> SUFFICES ASSUME NEW d \in Clients
               PROVE  go'[Grace(d)].pc = "idle" \/ go'[Read(d)].pc \in LeftPCs
    BY DEF GraceOnce, At
  <2>1. CASE d = c
    BY <1>3, <2>1 DEF LeftPCs
  <2>2. CASE d # c
    <3>1. Read(d) \in Goroutines \ {g, Grace(c)} /\ Grace(d) \in Goroutines \ {g, Grace(c)}
      BY <2>2, GoroutineNames DEF Grace, Read
    <3> QED BY <1>2, <3>1 DEF WatchInv, GraceOnce, At
  <2> QED BY <2>1, <2>2
<1> QED BY <1>7, <1>8, <1>9 DEF WatchInv

\* The grace period gives the seat up when its player is back, or when the game
\* is over and somebody carries its end out.
LEMMA GraceWatch ==
  ASSUME LobbyInv, WatchInv, NEW c \in Clients, GraceCallback(c) \/ GraceOver(c)
  PROVE  WatchInv'
<1> DEFINE g == Grace(c)
           r0 == RoomOf(g)
<1>0. g \in Goroutines /\ LobbyTypeOK /\ UNCHANGED <<seats, conn, phase, listed>>
  BY GoroutineNames
     DEF LobbyInv, GraceCallback, GraceWakes, CheckAbsent, GraceOver, roomVars
<1>1. go[g].pc \in {"sleep", "due", "absent"} /\ \E job : go' = [go EXCEPT ![g] = job]
  BY DEF GraceCallback, GraceWakes, CheckAbsent, GraceOver, At, Then, Rest, Goto
<1>2. MovesOn(g)
  BY <1>0, <1>1, GoroutineNames DEF MovesOn, At, LobbyTypeOK
<1>3. \A r : ~Ends(g, r)
  BY <1>1 DEF Ends
<1>4. ASSUME NEW r \in listed, NEW i \in Seats, conn[r][i] = NoClient, Attends(g, r, i)
      PROVE  Attends(g, r, i)' \/ \E h \in Goroutines \ {g} : Attends(h, r, i)
  <2>1. r = r0 /\ i = SeatIn(g)
    BY <1>1, <1>4 DEF Attends
  <2>2. CASE \E pc \in {"due", "absent", "finish"} : Then(g, pc)
    <3>1. PICK pc \in {"due", "absent", "finish"} :
            go'[g] = [pc |-> pc, room |-> r0, seat |-> SeatIn(g)]
      BY <1>0, <2>2 DEF Then, Goto, LobbyTypeOK
    <3> QED BY <2>1, <3>1 DEF Attends, RoomOf, SeatIn
  <2>3. CASE ~Active(r0)
    <3>1. phase[r] = "finished"
      BY <2>1, <2>3 DEF Active
    <3>2. PICK e \in Goroutines : Ends(e, r)
      BY <3>1 DEF WatchInv, EndsArePending
    <3> QED BY <1>3, <3>2 DEF Attends, Ends
  <2>4. CASE CheckAbsent(c)
    <3>1. Then(g, "finish")
      BY <1>4, <2>1, <2>4 DEF CheckAbsent
    <3> QED BY <2>2, <3>1
  <2>5. CASE GraceWakes(c)
    BY <2>2, <2>3, <2>5 DEF GraceWakes
  <2>6. CASE GraceOver(c)
    BY <2>2, <2>6 DEF GraceOver
  <2> QED BY <2>4, <2>5, <2>6 DEF GraceCallback
<1> QED BY <1>0, <1>2, <1>3, <1>4, WatchStep DEF LobbyTypeOK

\* The end of a game: until its room is out of the registry.
LEMMA EndGameWatch ==
  ASSUME LobbyInv, WatchInv, NEW g \in Goroutines, EndGame(g)
  PROVE  WatchInv'
<1> DEFINE r0 == RoomOf(g)
<1>0. LobbyTypeOK /\ UNCHANGED <<seats, conn>>
  BY DEF LobbyInv, EndGame, SetFinished, ResetPlayersToLobby, RemoveRoom, roomVars
<1>1. /\ go[g].pc \in {"finish", "reset", "remove"}
      /\ \E job : go' = [go EXCEPT ![g] = job]
  BY DEF EndGame, SetFinished, ResetPlayersToLobby, RemoveRoom, At, Then, Rest, Goto
<1>2. MovesOn(g)
  BY <1>0, <1>1, GoroutineNames DEF MovesOn, At, LobbyTypeOK, LeftPCs
<1>3. CASE SetFinished(g) \/ ResetPlayersToLobby(g)
  <2>1. PICK pc \in {"reset", "remove"}, j \in Seats :
          go'[g] = [pc |-> pc, room |-> r0, seat |-> j]
    BY <1>0, <1>3, JobParts
       DEF SetFinished, ResetPlayersToLobby, Then, Goto, LobbyTypeOK, Seats
  <2>2. \A r : r = r0 => Ends(g, r)'
    BY <2>1 DEF Ends, RoomOf
  <2>3. \A r : r # r0 => ~Ends(g, r) /\ \A i : ~Attends(g, r, i)
    BY DEF Ends, Attends
  <2>4. UNCHANGED listed /\ \A r \in Rooms : r # r0 => phase'[r] = phase[r]
    BY <1>0, <1>3 DEF SetFinished, ResetPlayersToLobby, LobbyTypeOK, roomVars
  <2>5. \A r \in listed' : phase'[r] = "finished" =>
          Ends(g, r)' \/ (phase[r] = "finished" /\ ~Ends(g, r))
    BY <1>0, <2>2, <2>3, <2>4 DEF LobbyTypeOK
  <2>6. \A r \in listed' : \A i \in Seats : seats'[r][i] # NoClient /\ conn'[r][i] = NoClient =>
          \/ Attends(g, r, i)'
          \/ seats[r][i] # NoClient /\ conn[r][i] = NoClient /\ ~Attends(g, r, i)
    <3> SUFFICES ASSUME NEW r \in listed', NEW i \in Seats,
                        seats'[r][i] # NoClient, conn'[r][i] = NoClient
                 PROVE  \/ Attends(g, r, i)'
                        \/ /\ seats[r][i] # NoClient /\ conn[r][i] = NoClient
                           /\ ~Attends(g, r, i)
      OBVIOUS
    <3>1. CASE r = r0
      BY <2>1, <3>1 DEF Attends, RoomOf
    <3>2. CASE r # r0
      BY <1>0, <2>3, <3>2
    <3> QED BY <3>1, <3>2
  <2> QED BY <1>2, <2>4, <2>5, <2>6, WatchStep
<1>4. CASE RemoveRoom(g)
  <2>1. listed' = listed \ {r0} /\ UNCHANGED phase
    BY <1>4 DEF RemoveRoom
  <2>2. \A r \in listed' : ~Ends(g, r) /\ \A i : ~Attends(g, r, i)
    BY <2>1 DEF Ends, Attends
  <2> QED BY <1>0, <1>2, <2>1, <2>2, WatchStep
<1> QED BY <1>3, <1>4 DEF EndGame

\* At the start there is no room and no connection has been lost.
LEMMA WatchInit == LobbyInit => WatchInv
<1> SUFFICES ASSUME LobbyInit PROVE WatchInv
  OBVIOUS
<1>1. \A c \in Clients : At(Grace(c), "idle")
  BY DEF LobbyInit, Goroutines, Loops, At, Grace, Read
<1> QED BY <1>1 DEF LobbyInit, WatchInv, AbsentAreWatched, EndsArePending, GraceOnce

\* Every step keeps the watch.
LEMMA WatchNext ==
  ASSUME LobbyInv, WatchInv, [LobbyNext]_lobbyVars
  PROVE  WatchInv'
<1>1. CASE Hub \/ TellTimedOut \/ CleanUp \/ UNCHANGED lobbyVars
  <2>1. UNCHANGED <<seats, conn, phase, listed, go>>
    BY <1>1 DEF Hub, HubRegister, HubUnregister, TellTimedOut, CleanUp, lobbyVars, roomVars
  <2> QED BY <2>1, StillWatch
<1>2. ASSUME NEW c \in Clients, Handler(c) PROVE WatchInv'
  BY <1>2, ReadersWatch, SeatingWatch, VacatingWatch DEF Handler
<1>3. ASSUME NEW c \in Clients, Disconnect(c) PROVE WatchInv'
  BY <1>3, ReadersWatch, VacatingWatch, LookingWatch, StartGraceWatch, ArrivalsWatch
     DEF Disconnect
<1>4. ASSUME NEW c \in Clients, GraceCallback(c) \/ GraceOver(c) PROVE WatchInv'
  BY <1>4, GraceWatch
<1>5. ASSUME NEW g \in Goroutines, EndGame(g) PROVE WatchInv'
  BY <1>5, EndGameWatch
<1>6. CASE Arrive
  <2>1. ASSUME NEW c \in Clients, Register(c) \/ Lose(c) PROVE WatchInv'
    BY <2>1, ReadersWatch
  <2>2. ASSUME NEW c \in Clients, NEW msg \in {"join", "create", "rejoin", "leave"},
               Receive(c, msg, NoRoom)
        PROVE  WatchInv'
    BY <2>2, ArrivalsWatch
  <2>3. ASSUME NEW c \in Clients, NEW r \in Rooms, Receive(c, "lookup", r) PROVE WatchInv'
    BY <2>3, ArrivalsWatch
  <2>4. ASSUME NEW r \in Rooms, GameOver(r) PROVE WatchInv'
    BY <2>4, ArrivalsWatch
  <2> QED BY <1>1, <1>4, <1>6, <2>1, <2>2, <2>3, <2>4 DEF Arrive
<1> QED BY <1>1, <1>2, <1>3, <1>4, <1>5, <1>6 DEF LobbyNext, Work

-----------------------------------------------------------------------------
(* The theorems.                                                           *)

\* The invariant holds at the start: no room, no connection, an empty queue.
LEMMA LobbyInitInv == LobbyInit => LobbyInv
<1> SUFFICES ASSUME LobbyInit PROVE LobbyInv
  OBVIOUS
<1>1. go \in [Goroutines -> Job]
  BY DEF LobbyInit, Job, PCs, Seats
<1>2. LobbyTypeOK
  BY <1>1, EmptySeq DEF LobbyInit, LobbyTypeOK, HubIdle, MaybeClient
<1>3. QueueIsShort
  BY EmptySeq DEF LobbyInit, QueueIsShort
<1>4. KnownWhileOpen
  BY GoroutineNames DEF LobbyInit, KnownWhileOpen, At, Loops
<1>5. LeaversClose
  BY DEF LobbyInit, LeaversClose, HubIdle
<1>6. \A r \in Rooms : ~Known(r)
  BY LobbyAssumption DEF LobbyInit, Known, Reached, RoomOf
<1> QED BY <1>2, <1>3, <1>4, <1>5, <1>6 DEF LobbyInv, FirstSeatTaken

\* Every step keeps it, and every seat that is taken.
LEMMA LobbyStep ==
  ASSUME LobbyInv, [LobbyNext]_lobbyVars
  PROVE  LobbyInv' /\ SeatsKept
<1>1. CASE Arrive
  BY <1>1, ArriveKeeps
<1>2. CASE Hub \/ TellTimedOut
  BY <1>2, HubKeeps, QueueKeeps
<1>3. ASSUME NEW c \in Clients, Handler(c) \/ Disconnect(c) \/ GraceCallback(c)
      PROVE  LobbyInv' /\ SeatsKept
  BY <1>3, HandlerKeeps, DisconnectKeeps, GraceKeeps
<1>4. ASSUME NEW g \in Goroutines, EndGame(g) PROVE LobbyInv' /\ SeatsKept
  BY <1>4, EndGameKeeps
<1>5. CASE UNCHANGED lobbyVars
  <2>1. UNCHANGED hubVars /\ DataOK
    BY <1>5 DEF lobbyVars, DataOK, LobbyInv, LobbyTypeOK, QueueIsShort, queueVars, roomVars
  <2>2. GoKept /\ NewKept
    BY <1>5, StillKept DEF lobbyVars, LobbyInv
  <2>3. RoomsKept
    BY <1>5, RoomsUntouched DEF lobbyVars, roomVars
  <2> QED BY <2>1, <2>2, <2>3, HubUntouched, StepKeeps
<1> QED BY <1>1, <1>2, <1>3, <1>4, <1>5 DEF LobbyNext, Work

\* The variables have their types, whatever interleaves.
THEOREM LobbyTypesHold == LobbySpec => []LobbyTypeOK
<1>1. LobbyInv => LobbyTypeOK
  BY DEF LobbyInv
<1> QED BY <1>1, LobbyInitInv, LobbyStep, PTL DEF LobbySpec

\* The hub never forgets a connection that is open, in whatever order old and
\* new connections of a session register, are lost and unregister.
THEOREM OpenAreKnown == LobbySpec => []KnownWhileOpen
<1>1. LobbyInv => KnownWhileOpen
  BY DEF LobbyInv
<1> QED BY <1>1, LobbyInitInv, LobbyStep, PTL DEF LobbySpec

\* AddPlayer never gives a taken seat to another player, however many find the
\* room at once.
THEOREM SeatsStay == LobbySpec => SeatsAreKept
<1>1. SeatsKept <=> \A r \in Rooms : \A i \in Seats :
                      Reached(r) /\ seats[r][i] # NoClient => seats'[r][i] = seats[r][i]
  BY DEF SeatsKept
<1> QED BY <1>1, LobbyInitInv, LobbyStep, PTL DEF LobbySpec, SeatsAreKept

\* Whatever interleaves, a player without a connection has somebody under way who
\* will forfeit the game, drop the room or find the player back: no disconnection
\* is forgotten, however often the player is lost and returns.
THEOREM WatchHolds == LobbySpec => []AbsentAreWatched
<1>1. LobbyInv /\ WatchInv => AbsentAreWatched
  BY DEF WatchInv
<1>2. LobbyInit => LobbyInv /\ WatchInv
  BY LobbyInitInv, WatchInit
<1>3. LobbyInv /\ WatchInv /\ [LobbyNext]_lobbyVars => (LobbyInv /\ WatchInv)'
  BY LobbyStep, WatchNext
<1> QED BY <1>1, <1>2, <1>3, PTL DEF LobbySpec
=============================================================================
