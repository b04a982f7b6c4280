------------------------- MODULE LobbyAtomicProofs -------------------------
(***************************************************************************)
(* What the lobby keeps while its handlers are atomic (BusyBound = 1): a   *)
(* session and the room it is in agree about it, nobody sits in two rooms  *)
(* or waits while seated, and no finished room stays in the registry.  And *)
(* that it implements LobbyRules.                                          *)
(*                                                                         *)
(* The argument: one goroutine at a time, or the hub, or the clean-up of   *)
(* the queue, is in the middle of its work, but for a connection that has  *)
(* only to be closed. So the properties need only hold where nobody is,    *)
(* and each goroutine at work is known to be right about the places it has *)
(* read: where its client is, who shares its room, which of two            *)
(* connections is the current one (JobsKnow). What a job knows when it     *)
(* begins follows from what holds between the jobs; what holds between the *)
(* jobs follows from what the job knew when it ended.                      *)
(* The refinement adds to this how far each game is (PhasesMatch).         *)
(***************************************************************************)
EXTENDS LobbyProofs, LobbyRefinement, FiniteSetTheorems

-----------------------------------------------------------------------------
(* Atomic handlers: what holds while one thing at a time is under way.     *)

\* Nothing is left to do, but perhaps to close a client the hub was told of.
Rests(g) == ~Busy(g) \/ At(g, "close")

\* A goroutine, the hub or the clean-up of the queue is at work, not two of them,
\* but the hub may forget a client while it is closed.
OneAtATime ==
  /\ \A g, h \in Goroutines : Busy(g) /\ Busy(h) => g = h
  /\ hubJob # HubIdle => \A g \in Goroutines : Rests(g)
  /\ timedOut # <<>> => \A g \in Goroutines : ~Busy(g)
  /\ hubJob = HubIdle \/ timedOut = <<>>
  /\ Len(timedOut) <= 1

\* The hub holds a client under its own session, and none that has yet to come.
HubHoldsItsOwn ==
  /\ \A s \in Sessions : hub[s] # NoClient => SessionOf[hub[s]] = s
  /\ \A c \in Clients : At(Read(c), "new") \/ hubJob = [op |-> "register", client |-> c]
       => hub[SessionOf[c]] # c
  /\ hubJob.op = "register" =>
       hubJob.client \in Clients /\ ~At(Read(hubJob.client), "new")

\* The connection of a seat is one of its player's.
ConnectionsMatch ==
  \A r \in listed : \A i \in Seats :
    conn[r][i] # NoClient => SitsAt(SessionOf[conn[r][i]], r, i)

\* Rooms that goroutines are at work on are in the registry.
RoomPCs == {"begin", "tell", "sit", "beginRoom", "enter", "tellHost",
            "leaving", "clear", "quit", "check", "bind", "bound",
            "unbind", "alone", "drop", "warn",
            "absent", "finish", "reset", "remove"}
EndPCs == {"finish", "reset", "remove"}

\* What a read loop knows.
ReaderKnows(c) ==
  LET s == SessionOf[c]
      g == Read(c)
      r == RoomOf(g)
      pc == go[g].pc
  IN /\ pc \notin {"sleep", "due", "absent"}
     /\ pc = "join" => r = NoRoom
     /\ pc \in {"begin", "tell", "beginRoom", "enter", "tellHost"} => seats[r][1] = c
     /\ pc = "begin" => SeatIn(g) = 0
     /\ pc = "wait" => IF r = NoRoom THEN InQueue(s)
                       ELSE r \in listed /\ seats[r][0] = c /\ seats[r][1] = NoClient
     /\ pc \in {"leaving", "clear", "quit", "check", "bind", "bound",
                "unbind", "alone", "drop", "warn"} => SitsAt(s, r, SeatIn(g))
     /\ pc \in EndPCs => SitsIn(s, r)
     /\ pc = "drop" => ~Full(r)

\* What the callback of a grace period knows, and that of the rules.
GraceKnows(c) ==
  LET g == Grace(c)
  IN /\ go[g].pc \in {"idle", "sleep", "due", "absent"} \cup EndPCs
     /\ At(g, "finish") => conn[RoomOf(g)][SeatIn(g)] = NoClient
GameKnows(r) == go[Game(r)].pc \in {"idle"} \cup EndPCs

\* Whether the end of a game has told the client's session.
Told(g, c) ==
  LET s == SessionOf[c]
      r == RoomOf(g)
  IN \/ At(g, "reset") /\ SeatIn(g) = 1 /\ SitsAt(s, r, 0)
     \/ At(g, "remove") /\ SitsIn(s, r)

Knows(g) ==
  /\ go[g].pc \in RoomPCs => RoomOf(g) \in listed
  /\ \A c \in Clients : g = Read(c) => ReaderKnows(c)
  /\ \A c \in Clients : g = Grace(c) => GraceKnows(c)
  /\ \A r \in Rooms : g = Game(r) => GameKnows(r)
  /\ \A c \in Clients : OnlyClient(c) /\ At(Read(c), "idle") /\ Told(g, c)
       => clientState[c] = "lobby"
JobsKnow == \A g \in Goroutines : Knows(g)

\* Where a session is.
NoRoomOf(s) == \A r \in listed : ~SitsIn(s, r)
Nowhere(c) == ~InQueue(SessionOf[c]) /\ NoRoomOf(SessionOf[c])

InOnePlace(c) ==
  LET s == SessionOf[c]
  IN /\ \A r, q \in listed : SitsIn(s, r) /\ SitsIn(s, q) => r = q
     /\ \A r \in listed : ~(SitsAt(s, r, 0) /\ SitsAt(s, r, 1))
     /\ InQueue(s) => NoRoomOf(s)

Gone(c) ==
  /\ \A r \in listed : \A i \in Seats : conn[r][i] # c
  /\ \A k \in 1..Len(queue) : queue[k] # c

Agrees(c) ==
  /\ clientState[c] = "waiting" <=> Waits(SessionOf[c])
  /\ clientState[c] = "in_game" <=> Plays(SessionOf[c])

\* A goroutine that has changed where the client's session is, or what its
\* client believes, and will do the other as well.
Owes(g, c) ==
  LET s == SessionOf[c]
      r == RoomOf(g)
      pc == go[g].pc
  IN /\ r \in listed
     /\ \/ /\ clientState[c] = "waiting" /\ SitsAt(s, r, 0) /\ Full(r)
           /\ \/ pc \in {"begin", "beginRoom", "enter", "tellHost"}
              \/ pc = "tell" /\ SeatIn(g) = 0
        \/ clientState[c] = "lobby" /\ Told(g, c)
Late(c) == timedOut # <<>> /\ SessionOf[Head(timedOut)] = SessionOf[c]
Owed(c) == (\E g \in Goroutines : Owes(g, c)) \/ Late(c)

\* What holds of a client that is its session's only one.
SoloAtRest(c) ==
  /\ At(Read(c), "new") => clientState[c] = "lobby" /\ Nowhere(c)
  /\ At(Read(c), "idle") => Agrees(c) \/ Owed(c)
  /\ At(Read(c), "done") => Gone(c)
  /\ closed[c] => At(Read(c), "done")
SoloAtWork(c) ==
  LET pc == go[Read(c)].pc
  IN /\ pc \in {"join", "create", "lookup", "sit", "rejoin"} =>
          clientState[c] = "lobby" /\ Nowhere(c)
     /\ pc = "tellHost" => clientState[c] = "in_game"
     /\ pc \in {"dequeue", "forget"} => NoRoomOf(SessionOf[c])
     /\ pc = "toLobby" => Nowhere(c)
     /\ pc \in EndPCs => clientState[c] = "lobby"
     /\ pc \notin {"check", "bind", "bound"}
     /\ pc \in {"alone", "drop", "warn", "unregister", "close"} => Gone(c)
Solo(c) == InOnePlace(c) /\ SoloAtRest(c) /\ SoloAtWork(c)

AtomicLobbyInv ==
  /\ OneAtATime /\ HubHoldsItsOwn /\ EndsArePending /\ ConnectionsMatch /\ JobsKnow
  /\ \A c \in Clients : OnlyClient(c) /\ Late(c) => Nowhere(c)
  /\ \A c \in Clients : OnlyClient(c) => Solo(c)

-----------------------------------------------------------------------------
(* One thing at a time.                                                    *)

\* Nothing is under way.
Quiet == hubJob = HubIdle /\ timedOut = <<>> /\ \A g \in Goroutines : ~Busy(g)

\* Nothing but g is under way.
Alone(g) == hubJob = HubIdle /\ timedOut = <<>> /\ \A h \in Goroutines \ {g} : ~Busy(h)

\* Counting what is under way finds nothing only when there is nothing.
LEMMA NothingCounted ==
  ASSUME OneAtATime, BusyNow = 0
  PROVE  Quiet
<1> DEFINE B == {g \in Goroutines : Busy(g)}
<1>1. B = {} \/ \E g \in Goroutines : B = {g}
  BY DEF OneAtATime
<1>2. BusyNow = Cardinality(B) + (IF hubJob = HubIdle THEN 0 ELSE 1)
                               + (IF timedOut = <<>> THEN 0 ELSE 1)
  BY DEF BusyNow
<1> HIDE DEF B
<1>3. IsFiniteSet(B)
  BY <1>1, FS_EmptySet, FS_Singleton
<1>4. Cardinality(B) \in Nat /\ (Cardinality(B) = 0 => B = {})
  BY <1>3, FS_EmptySet, FS_CardinalityType
<1>5. B = {} /\ hubJob = HubIdle /\ timedOut = <<>>
  BY <1>2, <1>4
<1> QED BY <1>5 DEF B, Quiet

\* With a bound of one nothing arrives while something is under way.
LEMMA ArrivalsAreAlone ==
  ASSUME OneAtATime, BusyBound = 1, MayArrive
  PROVE  Quiet
<1> DEFINE B == {g \in Goroutines : Busy(g)}
<1>1. B = {} \/ \E g \in Goroutines : B = {g}
  BY DEF OneAtATime
<1>2. BusyNow = Cardinality(B) + (IF hubJob = HubIdle THEN 0 ELSE 1)
                               + (IF timedOut = <<>> THEN 0 ELSE 1)
  BY DEF BusyNow
<1> HIDE DEF B
<1>3. IsFiniteSet(B)
  BY <1>1, FS_EmptySet, FS_Singleton
<1>4. Cardinality(B) \in Nat
  BY <1>3, FS_CardinalityType
<1>5. BusyNow = 0
  BY <1>2, <1>4 DEF MayArrive
<1> QED BY <1>5, NothingCounted

\* A goroutine with work to do is alone, as is one that starts when all is quiet.
LEMMA WhoIsAlone ==
  ASSUME OneAtATime, NEW g \in Goroutines, ~Rests(g) \/ Quiet
  PROVE  Alone(g)
BY DEF OneAtATime, Alone, Quiet, Rests

\* The others stay as they are, but for a grace period that begins.
Others(g) ==
  \A h \in Goroutines \ {g} :
    \/ go'[h] = go[h]
    \/ (\E c \in Clients : h = Grace(c)) /\ go'[h].pc = "sleep"

LEMMA StaysAlone ==
  ASSUME NEW g \in Goroutines, Alone(g), Others(g), UNCHANGED <<hubJob, timedOut>>
  PROVE  Alone(g)' /\ OneAtATime'
BY DEF Alone, Others, OneAtATime, Busy, Rests

-----------------------------------------------------------------------------
(* The queue of at most one.                                               *)

\* Nobody waits, or one does.
LEMMA QueueShape ==
  ASSUME LobbyInv
  PROVE  \/ queue = <<>> /\ \A s \in Sessions : ~InQueue(s)
         \/ \E q \in Clients :
              /\ queue = <<q>> /\ Len(queue) = 1 /\ Head(queue) = q /\ queue[1] = q
              /\ \A s \in Sessions : InQueue(s) <=> SessionOf[q] = s
<1>1. queue \in Seq(Clients) /\ Len(queue) <= 1 /\ Len(queue) \in Nat
  BY LenProperties DEF LobbyInv, LobbyTypeOK, QueueIsShort
<1>2. CASE Len(queue) = 0
  <2>1. queue = <<>>
    BY <1>1, <1>2, EmptySeq
  <2> QED BY <1>2, <2>1 DEF InQueue
<1>3. CASE Len(queue) = 1
  <2>1. queue[1] \in Clients
    BY <1>1, <1>3
  <2>0. Head(queue) = queue[1]
    BY <1>1, <1>3, HeadTailProperties
  <2>2. queue = <<queue[1]>>
    BY <1>1, <1>3
  <2>3. \A s \in Sessions : InQueue(s) <=> SessionOf[queue[1]] = s
    BY <1>3 DEF InQueue
  <2> QED BY <1>3, <2>0, <2>1, <2>2, <2>3
<1>4. \A n \in Nat : n <= 1 => n = 0 \/ n = 1
  OBVIOUS
<1> QED BY <1>1, <1>2, <1>3, <1>4, Zenon

-----------------------------------------------------------------------------
(* What a step leaves alone.                                               *)

\* Where a session is does not change.
SamePlace(c) ==
  LET s == SessionOf[c]
  IN /\ InQueue(s)' <=> InQueue(s)
     /\ \A r \in Rooms :
          /\ r \in listed' /\ SitsIn(s, r)' <=> r \in listed /\ SitsIn(s, r)
          /\ r \in listed /\ SitsIn(s, r) => seats'[r] = seats[r]

LEMMA PlaceStays ==
  ASSUME LobbyTypeOK, LobbyTypeOK', NEW c \in Clients, SamePlace(c)
  PROVE  /\ InOnePlace(c) => InOnePlace(c)'
         /\ NoRoomOf(SessionOf[c]) => NoRoomOf(SessionOf[c])'
         /\ Nowhere(c) => Nowhere(c)'
         /\ clientState'[c] = clientState[c] /\ Agrees(c) => Agrees(c)'
<1> DEFINE s == SessionOf[c]
<1>1. InQueue(s)' <=> InQueue(s)
  BY DEF SamePlace
<1>2. \A r \in Rooms : /\ r \in listed' /\ SitsIn(s, r)' <=> r \in listed /\ SitsIn(s, r)
                       /\ r \in listed /\ SitsIn(s, r) => seats'[r] = seats[r]
  BY DEF SamePlace
<1>3. listed \subseteq Rooms /\ listed' \subseteq Rooms
  BY DEF LobbyTypeOK
<1>4. NoRoomOf(s) <=> NoRoomOf(s)'
  BY <1>2, <1>3 DEF NoRoomOf
<1>5. ASSUME NEW r \in listed', SitsIn(s, r)'
      PROVE  /\ r \in listed /\ SitsIn(s, r) /\ (Full(r)' <=> Full(r))
             /\ SitsAt(s, r, 0)' <=> SitsAt(s, r, 0)
             /\ SitsAt(s, r, 1)' <=> SitsAt(s, r, 1)
  BY <1>2, <1>3, <1>5 DEF Full, SitsAt
<1>6. ASSUME NEW r \in listed, SitsIn(s, r)
      PROVE  r \in listed' /\ SitsIn(s, r)' /\ (Full(r)' <=> Full(r))
  BY <1>2, <1>3, <1>6 DEF Full
<1>7. InOnePlace(c) => InOnePlace(c)'
  <2>1. SUFFICES ASSUME InOnePlace(c) PROVE InOnePlace(c)'
    OBVIOUS
  <2>2. \A r, q \in listed' : SitsIn(s, r)' /\ SitsIn(s, q)' => r = q
    BY <1>5, <2>1 DEF InOnePlace
  <2>3. ASSUME NEW r \in listed', SitsAt(s, r, 0)', SitsAt(s, r, 1)' PROVE FALSE
    <3>1. SitsIn(s, r)'
      BY <2>3 DEF SitsIn, Seats
    <3> QED BY <1>5, <2>1, <2>3, <3>1 DEF InOnePlace
  <2>4. InQueue(s)' => NoRoomOf(s)'
    BY <1>1, <1>4, <2>1 DEF InOnePlace
  <2> QED BY <2>2, <2>3, <2>4 DEF InOnePlace
<1>8. (Waits(s)' <=> Waits(s)) /\ (Plays(s)' <=> Plays(s))
  BY <1>1, <1>5, <1>6 DEF Waits, Plays
<1> QED BY <1>1, <1>4, <1>7, <1>8 DEF Nowhere, Agrees

\* Nothing but the clients' states and the goroutines changes.
LEMMA PlacesUntouched ==
  ASSUME NEW c \in Clients, UNCHANGED <<queue, seats, listed>>
  PROVE  SamePlace(c)
BY DEF SamePlace, InQueue, SitsIn, SitsAt

\* A client that stays where it is keeps what holds of it at rest.
LEMMA RestStays ==
  ASSUME LobbyTypeOK, LobbyTypeOK', NEW c \in Clients, InOnePlace(c), SoloAtRest(c),
         go'[Read(c)].pc = go[Read(c)].pc, SamePlace(c),
         clientState'[c] = clientState[c], closed'[c] = closed[c],
         Gone(c) => Gone(c)',
         At(Read(c), "idle") /\ Owed(c) => Owed(c)' \/ Agrees(c)'
  PROVE  InOnePlace(c)' /\ SoloAtRest(c)'
<1>1. InOnePlace(c)' /\ (Nowhere(c) => Nowhere(c)') /\ (Agrees(c) => Agrees(c)')
  BY PlaceStays
<1>2. \A pc : At(Read(c), pc)' <=> At(Read(c), pc)
  BY DEF At
<1> QED BY <1>1, <1>2 DEF SoloAtRest

\* A client whose read loop is not at work.
LEMMA IdleWork ==
  ASSUME NEW c \in Clients, ~Busy(Read(c))
  PROVE  SoloAtWork(c)
BY DEF Busy, SoloAtWork, EndPCs

\* So is one that has only to close its client, when its seats are given up.
LEMMA CloseWork ==
  ASSUME NEW c \in Clients, At(Read(c), "close"), Gone(c)
  PROVE  SoloAtWork(c)
BY DEF At, SoloAtWork, EndPCs

\* A goroutine at rest has nothing to know.
LEMMA IdleKnows ==
  ASSUME NEW g \in Goroutines, Rests(g), Knows(g)
  PROVE  /\ go[g].pc \notin RoomPCs \cup EndPCs \cup {"wait"}
         /\ \A c \in Clients : g = Read(c) => go[g].pc \in {"new", "idle", "done", "close"}
         /\ \A c \in Clients : g = Grace(c) => go[g].pc \in {"idle", "sleep"}
         /\ \A r \in Rooms : g = Game(r) => go[g].pc = "idle"
BY DEF Rests, Busy, At, Knows, RoomPCs, EndPCs, ReaderKnows, GraceKnows, GameKnows

-----------------------------------------------------------------------------
(* The common step.                                                        *)

\* Grace periods and games are not read loops.
LEMMA MoreNames ==
  /\ \A c, d \in Clients : Grace(c) = Grace(d) => c = d
  /\ \A q, r \in Rooms : Game(q) = Game(r) => q = r
  /\ \A c \in Clients : \A r \in Rooms : Grace(c) # Game(r)
BY DEF Grace, Game

\* A goroutine that is not the one at work knows what it knew.
LEMMA OthersKnow ==
  ASSUME NEW g \in Goroutines, Alone(g), Others(g), NEW h \in Goroutines \ {g}, Knows(h)
  PROVE  Knows(h)'
<1>1. Rests(h)
  BY DEF Alone, Rests
<1>2. /\ go[h].pc \notin RoomPCs \cup EndPCs \cup {"wait"}
      /\ \A c \in Clients : h = Read(c) => go[h].pc \in {"new", "idle", "done", "close"}
      /\ \A c \in Clients : h = Grace(c) => go[h].pc \in {"idle", "sleep"}
      /\ \A r \in Rooms : h = Game(r) => go[h].pc = "idle"
  BY <1>1, IdleKnows
<1>3. CASE go'[h] = go[h]
  BY <1>2, <1>3 DEF Knows, Told, RoomPCs, EndPCs, ReaderKnows, GraceKnows, GameKnows, At, SeatIn
<1>4. CASE (\E c \in Clients : h = Grace(c)) /\ go'[h].pc = "sleep"
  BY <1>4, GoroutineNames, MoreNames
     DEF Knows, Told, RoomPCs, ReaderKnows, GraceKnows, GameKnows, At
<1> QED BY <1>3, <1>4 DEF Others

\* What a step of g has to show.
LEMMA Assemble ==
  ASSUME LobbyInv, LobbyInv', AtomicLobbyInv, NEW g \in Goroutines,
         Alone(g), Others(g), UNCHANGED <<hub, hubJob, timedOut>>,
         \A c \in Clients : At(Read(c), "new")' => At(Read(c), "new"),
         EndsArePending', ConnectionsMatch', Knows(g)',
         \A c \in Clients : OnlyClient(c) /\ g = Read(c) => Solo(c)',
         \A c \in Clients : OnlyClient(c) /\ g # Read(c) => InOnePlace(c)' /\ SoloAtRest(c)'
  PROVE  AtomicLobbyInv'
<1>1. OneAtATime' /\ Alone(g)'
  BY StaysAlone
<1>2. HubHoldsItsOwn'
  BY DEF AtomicLobbyInv, HubHoldsItsOwn
<1>3. ASSUME NEW h \in Goroutines PROVE Knows(h)'
  BY <1>3, OthersKnow DEF AtomicLobbyInv, JobsKnow
<1>4. ASSUME NEW c \in Clients, OnlyClient(c), g # Read(c) PROVE SoloAtWork(c)'
  <2>1. ~Busy(Read(c))'
    BY <1>1, <1>4, GoroutineNames DEF Alone
  <2>2. ~Busy(Read(c))' => SoloAtWork(c)'
    BY IdleWork, PTL
  <2> QED BY <2>1, <2>2
<1>5. ASSUME NEW c \in Clients, OnlyClient(c)' PROVE Solo(c)'
  BY <1>4, <1>5 DEF Solo, OnlyClient
<1>6. \A c : ~Late(c)'
  BY <1>1 DEF Late, Alone
<1> QED BY <1>1, <1>2, <1>3, <1>5, <1>6 DEF AtomicLobbyInv, JobsKnow

\* While g is at anything but the end of a game, no room of the registry is finished.
LEMMA NoneFinished ==
  ASSUME EndsArePending, NEW g \in Goroutines, Alone(g),
         go[g].pc \notin {"reset", "remove"}, NEW r \in listed
  PROVE  phase[r] # "finished"
BY DEF EndsArePending, Ends, Alone, Busy

\* A step that changes nothing but goroutines, phases and the connections of seats.
LEMMA ConnStep ==
  ASSUME LobbyInv, LobbyInv', AtomicLobbyInv, NEW g \in Goroutines,
         Alone(g), Others(g),
         UNCHANGED <<hub, hubJob, closed, clientState, queue, timedOut, seats, listed>>,
         \A c \in Clients : At(Read(c), "new")' => At(Read(c), "new"),
         EndsArePending', ConnectionsMatch', Knows(g)',
         \A c \in Clients : OnlyClient(c) /\ g # Read(c) /\ Gone(c) => Gone(c)',
         \A c \in Clients : OnlyClient(c) /\ g = Read(c) => SoloAtRest(c)' /\ SoloAtWork(c)',
         \A c \in Clients : At(Read(c), "idle") /\ Owes(g, c) => Owes(g, c)'
  PROVE  AtomicLobbyInv'
<1>1. LobbyTypeOK /\ LobbyTypeOK'
  BY DEF LobbyInv
<1>3. ASSUME NEW c \in Clients, OnlyClient(c)
      PROVE  InOnePlace(c)' /\ (g # Read(c) => SoloAtRest(c)')
  <2>1. SamePlace(c) /\ InOnePlace(c) /\ SoloAtRest(c)
    BY <1>3, PlacesUntouched DEF AtomicLobbyInv, Solo
  <2>2. InOnePlace(c)'
    BY <1>1, <2>1, PlaceStays
  <2>4. ASSUME g # Read(c) PROVE SoloAtRest(c)'
    <3>1. go'[Read(c)] = go[Read(c)]
      BY <2>4, GoroutineNames DEF Others
    <3>2. ASSUME At(Read(c), "idle"), Owed(c) PROVE Owed(c)'
      <4>1. timedOut = <<>>
        BY DEF Alone
      <4>2. PICK h \in Goroutines : Owes(h, c)
        BY <3>2, <4>1 DEF Owed, Late
      <4>3. h = g
        BY <4>2 DEF Alone, Owes, Told, At, Busy, Rests
      <4> QED BY <3>2, <4>2, <4>3 DEF Owed, Late
    <3> QED BY <1>1, <1>3, <2>1, <2>4, <3>1, <3>2, RestStays
  <2> QED BY <2>2, <2>4
<1> QED BY <1>3, Assemble DEF Solo

\* A step that changes nothing but goroutines, phases and since when players are
\* away.
LEMMA PlainStep ==
  ASSUME LobbyInv, LobbyInv', AtomicLobbyInv, NEW g \in Goroutines,
         Alone(g), Others(g),
         UNCHANGED <<hub, hubJob, closed, clientState, queue, timedOut, seats, conn, listed>>,
         \A c \in Clients : At(Read(c), "new")' => At(Read(c), "new"),
         EndsArePending', Knows(g)',
         \A c \in Clients : OnlyClient(c) /\ g = Read(c) => SoloAtRest(c)' /\ SoloAtWork(c)',
         \A c \in Clients : At(Read(c), "idle") /\ Owes(g, c) => Owes(g, c)'
  PROVE  AtomicLobbyInv'
<1>1. ConnectionsMatch'
  BY DEF AtomicLobbyInv, ConnectionsMatch, SitsAt
<1>2. \A c \in Clients : Gone(c) => Gone(c)'
  BY DEF Gone
<1> QED BY <1>1, <1>2, ConnStep

-----------------------------------------------------------------------------
(* Read loops.                                                             *)

\* What a read loop becomes, and that nobody else changes.
LEMMA ReaderGoes ==
  ASSUME LobbyTypeOK, NEW d \in Clients, NEW pc, NEW r, NEW i,
         Goto(Read(d), pc, r, i), pc # "new"
  PROVE  /\ go'[Read(d)].pc = pc /\ RoomOf(Read(d))' = r /\ SeatIn(Read(d))' = i
         /\ \A h \in Goroutines \ {Read(d)} : go'[h] = go[h]
         /\ Others(Read(d))
         /\ \A c \in Clients : At(Read(c), "new")' => At(Read(c), "new")
BY GoroutineNames DEF Goto, LobbyTypeOK, RoomOf, SeatIn, Others, At

\* A read loop knows what ReaderKnows says, and has its room in the registry.
LEMMA ReaderJob ==
  ASSUME NEW d \in Clients, ReaderKnows(d),
         go[Read(d)].pc \in RoomPCs => RoomOf(Read(d)) \in listed,
         go[Read(d)].pc \notin {"reset", "remove"}
  PROVE  Knows(Read(d))
BY GoroutineNames DEF Knows, Told, At

\* What a client's read loop knows when it is at work.
LEMMA ReaderFacts ==
  ASSUME LobbyInv, AtomicLobbyInv, NEW d \in Clients
  PROVE  /\ ReaderKnows(d)
         /\ go[Read(d)].pc \in RoomPCs => RoomOf(Read(d)) \in listed
         /\ OnlyClient(d) => Solo(d)
         /\ RoomOf(Read(d)) \in Rooms \cup {NoRoom} /\ SeatIn(Read(d)) \in Seats
BY GoroutineNames, JobParts DEF AtomicLobbyInv, JobsKnow, Knows, LobbyInv

\* A client at work is not at rest.
LEMMA WorkingSolo ==
  ASSUME NEW d \in Clients, go[Read(d)].pc \notin {"new", "idle", "done"}, ~closed[d]
  PROVE  SoloAtRest(d)
BY DEF SoloAtRest, At

\* A client that comes to rest.
LEMMA RestingSolo ==
  ASSUME NEW d \in Clients, At(Read(d), "idle"), ~closed[d], Agrees(d) \/ Owed(d)
  PROVE  SoloAtRest(d)
BY DEF SoloAtRest, At

\* A step of a read loop that changes nothing but its own job.
LEMMA PlainReader ==
  ASSUME LobbyInv, LobbyInv', AtomicLobbyInv, NEW d \in Clients,
         ~Rests(Read(d)) \/ Quiet,
         NEW pc, NEW r, NEW i, Goto(Read(d), pc, r, i), pc \notin {"new", "done", "reset", "remove"},
         UNCHANGED <<hub, hubJob, closed, clientState, queue, timedOut,
                     seats, conn, listed, phase>>,
         go[Read(d)].pc \notin {"begin", "tell", "beginRoom", "enter", "tellHost",
                                "reset", "remove", "done"},
         pc \in RoomPCs => r \in listed,
         ReaderKnows(d)',
         OnlyClient(d) => SoloAtWork(d)' /\ (pc = "idle" => Agrees(d)')
  PROVE  AtomicLobbyInv'
<1> DEFINE g == Read(d)
<1>0. g \in Goroutines /\ LobbyTypeOK /\ Alone(g)
  BY GoroutineNames, WhoIsAlone DEF LobbyInv, AtomicLobbyInv
<1>1. /\ go'[g].pc = pc /\ RoomOf(g)' = r /\ SeatIn(g)' = i
      /\ Others(g)
      /\ \A c \in Clients : At(Read(c), "new")' => At(Read(c), "new")
  BY <1>0, ReaderGoes
<1>2. EndsArePending'
  BY <1>0, NoneFinished DEF EndsArePending, Ends, AtomicLobbyInv
<1>3. Knows(g)'
  <2>1. /\ ReaderKnows(d)'
        /\ go'[Read(d)].pc \in RoomPCs => RoomOf(Read(d))' \in listed'
        /\ go'[Read(d)].pc \notin {"reset", "remove"}
    BY <1>1
  <2>2. (/\ ReaderKnows(d)
         /\ go[Read(d)].pc \in RoomPCs => RoomOf(Read(d)) \in listed
         /\ go[Read(d)].pc \notin {"reset", "remove"})' => Knows(Read(d))'
    BY ReaderJob, PTL
  <2> QED BY <2>1, <2>2
<1>4. ASSUME OnlyClient(d) PROVE SoloAtRest(d)' /\ SoloAtWork(d)'
  <2>1. ~closed'[d]
    BY <1>4, ReaderFacts DEF Solo, SoloAtRest, At
  <2>2. (go[Read(d)].pc \notin {"new", "idle", "done"} /\ ~closed[d])' => SoloAtRest(d)'
    BY WorkingSolo, PTL
  <2>3. (At(Read(d), "idle") /\ ~closed[d] /\ (Agrees(d) \/ Owed(d)))' => SoloAtRest(d)'
    BY RestingSolo, PTL
  <2> QED BY <1>1, <1>4, <2>1, <2>2, <2>3 DEF At
<1>5. \A c \in Clients : ~Owes(g, c)
  BY DEF Owes, Told, At
<1>6. \A c \in Clients : OnlyClient(c) /\ g = Read(c) => SoloAtRest(c)' /\ SoloAtWork(c)'
  BY <1>4, GoroutineNames
<1> HIDE DEF g
<1> QED BY <1>0, <1>1, <1>2, <1>3, <1>5, <1>6, PlainStep

\* Places are the same when places are not touched.
LEMMA PlainPlace ==
  ASSUME LobbyInv, LobbyInv', NEW c \in Clients,
         UNCHANGED <<queue, seats, listed, clientState>>
  PROVE  /\ InOnePlace(c) => InOnePlace(c)'
         /\ NoRoomOf(SessionOf[c]) => NoRoomOf(SessionOf[c])'
         /\ Nowhere(c) => Nowhere(c)'
         /\ Agrees(c) => Agrees(c)'
BY PlacesUntouched, PlaceStays DEF LobbyInv

\* A client that is in the lobby and is nowhere agrees.
LEMMA NowhereAgrees ==
  ASSUME NEW c \in Clients, clientState[c] = "lobby", Nowhere(c)
  PROVE  Agrees(c)
BY DEF Agrees, Nowhere, NoRoomOf, Waits, Plays

\* A client in the lobby that agrees is nowhere.
LEMMA LobbyIsNowhere ==
  ASSUME NEW c \in Clients, clientState[c] = "lobby", Agrees(c)
  PROVE  Nowhere(c)
BY DEF Agrees, Nowhere, NoRoomOf, Waits, Plays

\* Nothing is owed to a client when nothing is under way.
LEMMA QuietAgrees ==
  ASSUME Quiet, NEW c \in Clients, SoloAtRest(c), At(Read(c), "idle")
  PROVE  Agrees(c)
BY DEF Quiet, SoloAtRest, Owed, Late, Owes, Told, At, Busy, Rests

\* The seat that GetPlayerBySessionID finds is the session's.
LEMMA SeatFound ==
  ASSUME NEW s, NEW r \in Rooms, SitsIn(s, r)
  PROVE  SitsAt(s, r, SeatOf(s, r)) /\ SeatOf(s, r) \in Seats
BY DEF SitsIn, SeatOf, Seats

LEMMA LookUpStep ==
  ASSUME LobbyInv, LobbyInv', AtomicLobbyInv, NEW d \in Clients, LookUp(d)
  PROVE  AtomicLobbyInv'
<1> DEFINE g == Read(d)
<1>1. ~Rests(g) /\ go[g].pc = "lookup" /\ LobbyTypeOK
  BY DEF LookUp, At, Busy, Rests, LobbyInv
<1>2. UNCHANGED <<hub, hubJob, closed, clientState, queue, timedOut,
                  seats, conn, listed, phase>>
  BY DEF LookUp, hubVars, queueVars, roomVars
<1>3. OnlyClient(d) => clientState[d] = "lobby" /\ Nowhere(d)' /\ Agrees(d)'
  <2>1. OnlyClient(d) => clientState[d] = "lobby" /\ Nowhere(d)
    BY <1>1, ReaderFacts DEF Solo, SoloAtWork
  <2> QED BY <1>2, <2>1, PlainPlace, NowhereAgrees
<1>4. CASE RoomOf(g) \in listed
  <2>1. Goto(g, "sit", RoomOf(g), SeatIn(g))
    BY <1>4 DEF LookUp, Then
  <2>2. go'[g].pc = "sit"
    BY <1>1, <2>1, ReaderGoes
  <2>3. ReaderKnows(d)' /\ (OnlyClient(d) => SoloAtWork(d)')
    BY <1>2, <1>3, <2>2 DEF ReaderKnows, SoloAtWork, EndPCs
  <2> QED BY <1>1, <1>2, <1>4, <2>1, <2>3, PlainReader
<1>5. CASE RoomOf(g) \notin listed
  <2>1. Goto(g, "idle", NoRoom, 0)
    BY <1>5 DEF LookUp, Rest
  <2>2. go'[g].pc = "idle"
    BY <1>1, <2>1, ReaderGoes
  <2>3. ReaderKnows(d)' /\ SoloAtWork(d)'
    BY <2>2 DEF ReaderKnows, SoloAtWork, EndPCs
  <2> QED BY <1>1, <1>2, <1>3, <2>1, <2>3, PlainReader DEF RoomPCs
<1> QED BY <1>4, <1>5

\* findPlayerRoom, for a player who leaves, comes back or is lost.
LEMMA FindStep ==
  ASSUME LobbyInv, LobbyInv', AtomicLobbyInv, NEW d \in Clients,
         FindToLeave(d) \/ FindToReconnect(d) \/ FindLost(d)
  PROVE  AtomicLobbyInv'
<1> DEFINE g == Read(d)
           s == SessionOf[d]
<1>1. ~Rests(g) /\ go[g].pc \in {"leave", "rejoin", "lost"} /\ LobbyTypeOK
  BY DEF FindToLeave, FindToReconnect, FindLost, At, Busy, Rests, LobbyInv
<1>2. UNCHANGED <<hub, hubJob, closed, clientState, queue, timedOut,
                  seats, conn, listed, phase>>
  BY DEF FindToLeave, FindToReconnect, FindLost, hubVars, queueVars, roomVars
<1>3. OnlyClient(d) /\ go[g].pc = "rejoin" => clientState[d] = "lobby" /\ Nowhere(d)
  BY ReaderFacts DEF Solo, SoloAtWork
<1>4. ASSUME NEW found \in {"leaving", "check", "unbind"}, NEW r \in listed,
             OnlyClient(d) => found # "check",
             SitsIn(s, r), Goto(g, found, r, SeatOf(s, r))
      PROVE  AtomicLobbyInv'
  <2>1. r \in Rooms
    BY DEF LobbyInv, LobbyTypeOK
  <2>2. SitsAt(s, r, SeatOf(s, r))
    BY <1>4, <2>1, SeatFound
  <2>3. go'[g].pc = found /\ RoomOf(g)' = r /\ SeatIn(g)' = SeatOf(s, r)
    BY <1>1, <1>4, ReaderGoes
  <2>4. SitsAt(s, r, SeatOf(s, r))'
    BY <1>2, <2>2 DEF SitsAt, SeatOf
  <2>5. ReaderKnows(d)'
    BY <1>2, <2>2, <2>3 DEF ReaderKnows, EndPCs, SitsAt
  <2>6. OnlyClient(d) => SoloAtWork(d)'
    BY <1>4, <2>3 DEF SoloAtWork, EndPCs
  <2> QED BY <1>1, <1>2, <1>4, <2>5, <2>6, PlainReader
<1>5. ASSUME NEW none \in {"dequeue", "idle", "forget"}, NoRoomOf(s), Then(g, none),
             none = "idle" => go[g].pc = "rejoin"
      PROVE  AtomicLobbyInv'
  <2>1. Goto(g, none, RoomOf(g), SeatIn(g))
    BY <1>5 DEF Then
  <2>2. go'[g].pc = none
    BY <1>1, <2>1, ReaderGoes
  <2>3. NoRoomOf(s)'
    BY <1>2, <1>5, PlainPlace
  <2>4. OnlyClient(d) /\ none = "idle" => Agrees(d)'
    BY <1>2, <1>3, <1>5, PlainPlace, NowhereAgrees
  <2>5. ReaderKnows(d)' /\ SoloAtWork(d)'
    BY <2>2, <2>3 DEF ReaderKnows, SoloAtWork, EndPCs
  <2> QED BY <1>1, <1>2, <2>1, <2>4, <2>5, PlainReader DEF RoomPCs
<1>6. CASE FindToLeave(d)
  BY <1>4, <1>5, <1>6 DEF FindToLeave, FindPlayerRoom, NoRoomOf
<1>7. CASE FindToReconnect(d)
  <2>1. go[g].pc = "rejoin" /\ FindPlayerRoom(d, "check", "idle")
    BY <1>7 DEF FindToReconnect, At
  <2>2. OnlyClient(d) => \A r \in listed : ~SitsIn(s, r)
    BY <1>3, <2>1 DEF Nowhere, NoRoomOf
  <2> QED BY <1>4, <1>5, <2>1, <2>2 DEF FindPlayerRoom, NoRoomOf
<1>8. CASE FindLost(d)
  BY <1>4, <1>5, <1>8 DEF FindLost, FindPlayerRoom, NoRoomOf
<1> QED BY <1>6, <1>7, <1>8

\* leave_room in a room, the check before a reconnection, and whether a lost
\* player was alone.
LEMMA CheckStep ==
  ASSUME LobbyInv, LobbyInv', AtomicLobbyInv, NEW d \in Clients,
         LeaveRoom(d) \/ CheckReconnect(d) \/ CheckAlone(d)
  PROVE  AtomicLobbyInv'
<1> DEFINE g == Read(d)
<1>1. ~Rests(g) /\ go[g].pc \in {"leaving", "check", "alone"} /\ LobbyTypeOK
  BY DEF LeaveRoom, CheckReconnect, CheckAlone, At, Busy, Rests, LobbyInv
<1>2. UNCHANGED <<hub, hubJob, closed, clientState, queue, timedOut,
                  seats, conn, listed, phase>>
  BY DEF LeaveRoom, CheckReconnect, CheckAlone, hubVars, queueVars, roomVars
<1>3. RoomOf(g) \in listed /\ RoomOf(g) \in Rooms /\ SitsAt(SessionOf[d], RoomOf(g), SeatIn(g))
  BY <1>1, ReaderFacts DEF ReaderKnows, RoomPCs, LobbyTypeOK
<1>4. ASSUME NEW pc \in {"clear", "bind", "warn", "drop"},
             Goto(g, pc, RoomOf(g), SeatIn(g)), pc = "drop" => ~Full(RoomOf(g)),
             pc = "bind" => ~OnlyClient(d),
             OnlyClient(d) /\ pc \in {"warn", "drop"} => Gone(d)
      PROVE  AtomicLobbyInv'
  <2>1. go'[g].pc = pc /\ RoomOf(g)' = RoomOf(g) /\ SeatIn(g)' = SeatIn(g)
    BY <1>1, <1>4, ReaderGoes
  <2>2. ReaderKnows(d)'
    BY <1>2, <1>3, <1>4, <2>1 DEF ReaderKnows, EndPCs, SitsAt, Full
  <2>3. Gone(d) => Gone(d)'
    BY <1>2 DEF Gone
  <2>4. OnlyClient(d) => SoloAtWork(d)'
    BY <1>4, <2>1, <2>3 DEF SoloAtWork, EndPCs
  <2> QED BY <1>1, <1>2, <1>3, <1>4, <2>2, <2>4, PlainReader
<1>5. CASE LeaveRoom(d)
  <2>1. Alone(g) /\ EndsArePending /\ g \in Goroutines
    BY <1>1, WhoIsAlone, GoroutineNames DEF AtomicLobbyInv
  <2>2. Active(RoomOf(g))
    BY <1>1, <1>3, <2>1, NoneFinished DEF Active
  <2>3. Goto(g, "clear", RoomOf(g), SeatIn(g))
    BY <1>5, <2>2 DEF LeaveRoom, Then
  <2> QED BY <1>4, <2>3
<1>6. CASE CheckReconnect(d)
  <2>1. ~OnlyClient(d)
    BY <1>6, ReaderFacts DEF Solo, SoloAtWork, CheckReconnect, At
  <2>2. CASE Goto(g, "bind", RoomOf(g), SeatIn(g))
    BY <1>4, <2>1, <2>2
  <2>3. CASE Goto(g, "idle", NoRoom, 0)
    <3>1. go'[g].pc = "idle"
      BY <1>1, <2>3, ReaderGoes
    <3>2. ReaderKnows(d)'
      BY <3>1 DEF ReaderKnows, EndPCs
    <3> QED BY <1>1, <1>2, <2>1, <2>3, <3>2, PlainReader DEF RoomPCs
  <2> QED BY <1>6, <2>2, <2>3 DEF CheckReconnect, Rest, Then
<1>7. CASE CheckAlone(d)
  <2>1. OnlyClient(d) => Gone(d)
    BY <1>7, ReaderFacts DEF Solo, SoloAtWork, CheckAlone, At
  <2>2. CASE Full(RoomOf(g))
    <3>1. Goto(g, "warn", RoomOf(g), SeatIn(g))
      BY <1>7, <2>2 DEF CheckAlone, Then
    <3> QED BY <1>4, <2>1, <3>1
  <2>3. CASE ~Full(RoomOf(g))
    <3>1. Goto(g, "drop", RoomOf(g), SeatIn(g))
      BY <1>7, <2>3 DEF CheckAlone, Then
    <3> QED BY <1>4, <2>1, <2>3, <3>1
  <2> QED BY <2>2, <2>3
<1> QED BY <1>5, <1>6, <1>7

\* A message that the client's state admits, and a connection that breaks.
LEMMA MessageStep ==
  ASSUME LobbyInv, LobbyInv', AtomicLobbyInv, Quiet, NEW d \in Clients,
         NEW pc \in {"join", "create", "lookup", "rejoin", "leave", "lost"},
         NEW r, Goto(Read(d), pc, r, 0), At(Read(d), "idle"),
         pc \in {"join", "create", "lookup", "rejoin"} => clientState[d] = "lobby",
         pc = "join" => r = NoRoom,
         UNCHANGED <<hubVars, clientState, queueVars, roomVars>>
  PROVE  AtomicLobbyInv'
<1> DEFINE g == Read(d)
<1>1. go[g].pc = "idle" /\ LobbyTypeOK
  BY DEF At, LobbyInv
<1>2. UNCHANGED <<hub, hubJob, closed, clientState, queue, timedOut,
                  seats, conn, listed, phase>>
  BY DEF hubVars, queueVars, roomVars
<1>3. go'[g].pc = pc /\ RoomOf(g)' = r
  BY <1>1, ReaderGoes
<1>4. OnlyClient(d) /\ clientState[d] = "lobby" => Nowhere(d)'
  <2>1. SUFFICES ASSUME OnlyClient(d), clientState[d] = "lobby" PROVE Nowhere(d)'
    OBVIOUS
  <2>2. Agrees(d)
    BY <2>1, ReaderFacts, QuietAgrees DEF Solo
  <2> QED BY <1>2, <2>1, <2>2, LobbyIsNowhere, PlainPlace
<1>5. ReaderKnows(d)'
  BY <1>3 DEF ReaderKnows, EndPCs
<1>6. OnlyClient(d) => SoloAtWork(d)'
  BY <1>2, <1>3, <1>4 DEF SoloAtWork, EndPCs
<1> QED BY <1>1, <1>2, <1>5, <1>6, PlainReader DEF RoomPCs

\* The end of a lost connection with an opponent: its grace period begins.
LEMMA GraceBegins ==
  ASSUME LobbyInv, LobbyInv', AtomicLobbyInv, NEW d \in Clients, StartGrace(d)
  PROVE  AtomicLobbyInv'
<1> DEFINE g == Read(d)
<1>0. g \in Goroutines /\ LobbyTypeOK /\ ~Rests(g) /\ go[g].pc = "warn"
  BY GoroutineNames DEF StartGrace, At, Busy, Rests, LobbyInv
<1>1. Alone(g)
  BY <1>0, WhoIsAlone DEF AtomicLobbyInv
<1>2. UNCHANGED <<hub, hubJob, closed, clientState, queue, timedOut,
                  seats, conn, listed, phase>>
  BY DEF StartGrace, hubVars, queueVars, roomVars
<1>3. go'[g].pc = "unregister" /\ Others(g)
  BY <1>0, GoroutineNames DEF StartGrace, LobbyTypeOK, Others
<1>4. \A c \in Clients : At(Read(c), "new")' => At(Read(c), "new")
  BY <1>3, GoroutineNames DEF Others, At
<1>5. EndsArePending'
  BY <1>0, <1>1, <1>2, NoneFinished DEF EndsArePending, Ends, AtomicLobbyInv
<1>6. Knows(g)'
  BY <1>3, GoroutineNames DEF Knows, Told, At, ReaderKnows, RoomPCs, EndPCs
<1>7. ASSUME OnlyClient(d) PROVE SoloAtRest(d)' /\ SoloAtWork(d)'
  <2>1. ~closed[d] /\ Gone(d)
    BY <1>0, <1>7, ReaderFacts DEF Solo, SoloAtRest, SoloAtWork, At
  <2>2. Gone(d)'
    BY <1>2, <2>1 DEF Gone
  <2> QED BY <1>2, <1>3, <2>1, <2>2 DEF SoloAtRest, SoloAtWork, At, EndPCs
<1>8. \A c \in Clients : ~Owes(g, c)
  BY <1>0 DEF Owes, Told, At
<1>9. \A c \in Clients : OnlyClient(c) /\ g = Read(c) => SoloAtRest(c)' /\ SoloAtWork(c)'
  BY <1>7, GoroutineNames
<1> HIDE DEF g
<1> QED BY <1>0, <1>1, <1>2, <1>3, <1>4, <1>5, <1>6, <1>8, <1>9, PlainStep

\* StartGame, by the second player of a room.
LEMMA StartGameStep ==
  ASSUME LobbyInv, LobbyInv', AtomicLobbyInv, NEW d \in Clients, StartGame(d)
  PROVE  AtomicLobbyInv'
<1> DEFINE g == Read(d)
           r == RoomOf(g)
           next == IF At(g, "begin") THEN "tell" ELSE "enter"
<1>0. g \in Goroutines /\ LobbyTypeOK /\ ~Rests(g) /\ go[g].pc \in {"begin", "beginRoom"}
  BY GoroutineNames DEF StartGame, At, Busy, Rests, LobbyInv
<1>1. Alone(g)
  BY <1>0, WhoIsAlone DEF AtomicLobbyInv
<1>2. UNCHANGED <<hub, hubJob, closed, clientState, queue, timedOut, seats, conn, listed>>
  BY DEF StartGame, hubVars, queueVars
<1>3. r \in listed /\ r \in Rooms /\ seats[r][1] = d /\ (At(g, "begin") => SeatIn(g) = 0)
  BY <1>0, ReaderFacts DEF ReaderKnows, RoomPCs, LobbyTypeOK, At
<1>4. Goto(g, next, r, SeatIn(g))
  BY DEF StartGame, Then
<1>5. /\ go'[g].pc = next /\ RoomOf(g)' = r /\ SeatIn(g)' = SeatIn(g) /\ Others(g)
      /\ \A c \in Clients : At(Read(c), "new")' => At(Read(c), "new")
  BY <1>0, <1>4, ReaderGoes
<1>6. EndsArePending'
  <2>1. \A q \in listed : phase[q] # "finished"
    BY <1>0, <1>1, NoneFinished DEF AtomicLobbyInv
  <2>2. phase' = [phase EXCEPT ![r] = "playing"]
    BY DEF StartGame
  <2>3. \A q \in listed' : phase'[q] # "finished"
    BY <1>0, <1>2, <2>1, <2>2 DEF LobbyTypeOK
  <2> QED BY <2>3 DEF EndsArePending, Ends
<1>7. Knows(g)'
  BY <1>2, <1>3, <1>5, GoroutineNames DEF Knows, Told, At, ReaderKnows, RoomPCs, EndPCs
<1>8. ASSUME OnlyClient(d) PROVE SoloAtRest(d)' /\ SoloAtWork(d)'
  <2>1. ~closed[d]
    BY <1>0, <1>8, ReaderFacts DEF Solo, SoloAtRest, At
  <2> QED BY <1>2, <1>5, <2>1 DEF SoloAtRest, SoloAtWork, At, EndPCs
<1>9. ASSUME NEW c \in Clients, Owes(g, c) PROVE Owes(g, c)'
  BY <1>0, <1>2, <1>3, <1>5, <1>9 DEF Owes, Told, SitsAt, Full, At
<1>10. \A c \in Clients : OnlyClient(c) /\ g = Read(c) => SoloAtRest(c)' /\ SoloAtWork(c)'
  BY <1>8, GoroutineNames
<1> HIDE DEF g
<1> QED BY <1>0, <1>1, <1>2, <1>5, <1>6, <1>7, <1>9, <1>10, PlainStep

-----------------------------------------------------------------------------
(* Callbacks, and the end of a game.                                       *)

\* What a goroutine becomes, and that nobody else changes.
LEMMA JobGoes ==
  ASSUME LobbyTypeOK, NEW g \in Goroutines, NEW pc, NEW r, NEW i,
         Goto(g, pc, r, i), pc # "new"
  PROVE  /\ go'[g].pc = pc /\ RoomOf(g)' = r /\ SeatIn(g)' = i
         /\ \A h \in Goroutines \ {g} : go'[h] = go[h]
         /\ Others(g)
         /\ \A c \in Clients : At(Read(c), "new")' => At(Read(c), "new")
BY GoroutineNames DEF Goto, LobbyTypeOK, RoomOf, SeatIn, Others, At

\* A step of a callback that changes nothing but its own job.
LEMMA PlainCallback ==
  ASSUME LobbyInv, LobbyInv', AtomicLobbyInv, NEW g \in Goroutines,
         \A c \in Clients : g # Read(c),
         ~Rests(g) \/ Quiet,
         NEW pc, NEW r, NEW i, Goto(g, pc, r, i), pc # "new",
         UNCHANGED <<hub, hubJob, closed, clientState, queue, timedOut,
                     seats, conn, listed, phase>>,
         go[g].pc \in {"idle", "sleep", "due", "absent"},
         Knows(g)'
  PROVE  AtomicLobbyInv'
<1>0. LobbyTypeOK /\ Alone(g)
  BY WhoIsAlone DEF LobbyInv, AtomicLobbyInv
<1>1. Others(g) /\ \A c \in Clients : At(Read(c), "new")' => At(Read(c), "new")
  BY <1>0, JobGoes
<1>2. EndsArePending'
  BY <1>0, NoneFinished DEF EndsArePending, Ends, AtomicLobbyInv
<1>3. \A c \in Clients : ~Owes(g, c)
  BY DEF Owes, Told, At
<1> QED BY <1>0, <1>1, <1>2, <1>3, PlainStep

\* A grace period and its callback, and the rules' end of a game.
LEMMA CallbackStep ==
  ASSUME LobbyInv, LobbyInv', AtomicLobbyInv, NEW c \in Clients,
         GraceWakes(c) \/ CheckAbsent(c) \/ (Quiet /\ GraceOver(c))
  PROVE  AtomicLobbyInv'
<1> DEFINE g == Grace(c)
<1>1. g \in Goroutines /\ LobbyTypeOK /\ \A d \in Clients : g # Read(d)
  BY GoroutineNames DEF LobbyInv
<1>2. UNCHANGED <<hub, hubJob, closed, clientState, queue, timedOut,
                  seats, conn, listed, phase>>
  BY DEF GraceWakes, CheckAbsent, GraceOver, hubVars, queueVars, roomVars
<1>3. /\ go[g].pc \in {"sleep", "due", "absent"}
      /\ ~Rests(g) \/ Quiet
      /\ go[g].pc = "absent" => RoomOf(g) \in listed
  BY <1>1 DEF GraceWakes, CheckAbsent, GraceOver, At, Busy, Rests, AtomicLobbyInv, JobsKnow,
              Knows, RoomPCs
<1>4. ASSUME NEW pc \in {"due", "absent", "finish"}, Goto(g, pc, RoomOf(g), SeatIn(g)),
             pc = "finish" => conn[RoomOf(g)][SeatIn(g)] = NoClient,
             pc # "due" => RoomOf(g) \in listed
      PROVE  AtomicLobbyInv'
  <2>1. go'[g].pc = pc /\ RoomOf(g)' = RoomOf(g) /\ SeatIn(g)' = SeatIn(g)
    BY <1>1, <1>4, JobGoes
  <2>2. Knows(g)'
    BY <1>1, <1>2, <1>4, <2>1, GoroutineNames, MoreNames
       DEF Knows, Told, GraceKnows, RoomPCs, EndPCs, At
  <2> HIDE DEF g
  <2> QED BY <1>1, <1>2, <1>3, <1>4, <2>2, PlainCallback
<1>5. ASSUME Goto(g, "idle", NoRoom, 0) PROVE AtomicLobbyInv'
  <2>1. go'[g].pc = "idle"
    BY <1>1, <1>5, JobGoes
  <2>2. Knows(g)'
    BY <1>1, <2>1, GoroutineNames, MoreNames DEF Knows, Told, GraceKnows, RoomPCs, EndPCs, At
  <2> HIDE DEF g
  <2> QED BY <1>1, <1>2, <1>3, <1>5, <2>2, PlainCallback
<1>6. CASE GraceOver(c)
  BY <1>4, <1>6 DEF GraceOver, Then
<1>7. CASE GraceWakes(c)
  BY <1>4, <1>5, <1>7 DEF GraceWakes, Then, Rest, Active
<1>8. CASE CheckAbsent(c)
  BY <1>3, <1>4, <1>5, <1>8 DEF CheckAbsent, Then, Rest, At
<1> QED BY <1>6, <1>7, <1>8

LEMMA GameOverStep ==
  ASSUME LobbyInv, LobbyInv', AtomicLobbyInv, Quiet, NEW r \in Rooms, GameOver(r)
  PROVE  AtomicLobbyInv'
<1> DEFINE g == Game(r)
<1>1. g \in Goroutines /\ LobbyTypeOK /\ \A d \in Clients : g # Read(d)
  BY GoroutineNames DEF LobbyInv
<1>2. UNCHANGED <<hub, hubJob, closed, clientState, queue, timedOut,
                  seats, conn, listed, phase>>
  BY DEF GameOver, hubVars, queueVars, roomVars
<1>3. go[g].pc = "idle" /\ Goto(g, "finish", r, 0) /\ r \in listed
  BY DEF GameOver, At, Active
<1>4. go'[g].pc = "finish" /\ RoomOf(g)' = r
  BY <1>1, <1>3, JobGoes
<1>5. Knows(g)'
  BY <1>1, <1>2, <1>3, <1>4, GoroutineNames, MoreNames DEF Knows, Told, At, GameKnows, EndPCs
<1> HIDE DEF g
<1> QED BY <1>1, <1>2, <1>3, <1>5, PlainCallback

\* SetFinished, by whoever ends the game.
LEMMA SetFinishedStep ==
  ASSUME LobbyInv, LobbyInv', AtomicLobbyInv, NEW g \in Goroutines, SetFinished(g)
  PROVE  AtomicLobbyInv'
<1> DEFINE r == RoomOf(g)
<1>0. LobbyTypeOK /\ ~Rests(g) /\ go[g].pc = "finish"
  BY DEF SetFinished, At, Busy, Rests, LobbyInv
<1>1. Alone(g) /\ Knows(g) /\ r \in listed /\ r \in Rooms
  BY <1>0, WhoIsAlone DEF AtomicLobbyInv, JobsKnow, Knows, RoomPCs, LobbyTypeOK
<1>2. UNCHANGED <<hub, hubJob, closed, clientState, queue, timedOut, seats, conn, listed>>
  BY DEF SetFinished, hubVars, queueVars
<1>3. /\ go'[g].pc = "reset" /\ RoomOf(g)' = r /\ SeatIn(g)' = 0 /\ Others(g)
      /\ \A c \in Clients : At(Read(c), "new")' => At(Read(c), "new")
  BY <1>0, JobGoes DEF SetFinished
<1>4. EndsArePending'
  <2>1. \A q \in listed : phase[q] # "finished"
    BY <1>0, <1>1, NoneFinished DEF AtomicLobbyInv
  <2>2. phase' = [phase EXCEPT ![r] = "finished"]
    BY DEF SetFinished
  <2>3. \A q \in listed' : phase'[q] = "finished" => q = r
    BY <1>0, <1>2, <2>1, <2>2 DEF LobbyTypeOK
  <2> QED BY <1>3, <2>3 DEF EndsArePending, Ends
<1>5. Knows(g)'
  BY <1>0, <1>1, <1>2, <1>3, GoroutineNames, MoreNames
     DEF Knows, Told, ReaderKnows, GraceKnows, GameKnows, RoomPCs, EndPCs, SitsIn, SitsAt, At
<1>6. ASSUME NEW c \in Clients, OnlyClient(c), g = Read(c)
      PROVE  SoloAtRest(c)' /\ SoloAtWork(c)'
  <2>1. ~closed[c] /\ clientState[c] = "lobby"
    BY <1>0, <1>6, ReaderFacts DEF Solo, SoloAtRest, SoloAtWork, EndPCs, At
  <2> QED BY <1>2, <1>3, <1>6, <2>1 DEF SoloAtRest, SoloAtWork, At, EndPCs
<1>7. \A c \in Clients : ~Owes(g, c)
  BY <1>0 DEF Owes, Told, At
<1> QED BY <1>0, <1>1, <1>2, <1>3, <1>4, <1>5, <1>6, <1>7, PlainStep

-----------------------------------------------------------------------------
(* The connections of seats.                                               *)

LEMMA ConnectionStep ==
  ASSUME LobbyInv, LobbyInv', AtomicLobbyInv, NEW d \in Clients,
         ClearConnection(d) \/ SetConnection(d) \/ ClearConnectionIf(d)
  PROVE  AtomicLobbyInv'
<1> DEFINE g == Read(d)
           r == RoomOf(g)
           i == SeatIn(g)
           s == SessionOf[d]
<1>0. g \in Goroutines /\ LobbyTypeOK /\ ~Rests(g) /\ go[g].pc \in {"clear", "bind", "unbind"}
  BY GoroutineNames
     DEF ClearConnection, SetConnection, ClearConnectionIf, At, Busy, Rests, LobbyInv
<1>1. Alone(g)
  BY <1>0, WhoIsAlone DEF AtomicLobbyInv
<1>2. UNCHANGED <<hub, hubJob, closed, clientState, queue, timedOut, seats, listed, phase>>
  BY DEF ClearConnection, SetConnection, ClearConnectionIf, hubVars, queueVars
<1>3. r \in listed /\ r \in Rooms /\ i \in Seats /\ SitsAt(s, r, i)
  BY <1>0, ReaderFacts DEF ReaderKnows, RoomPCs, LobbyTypeOK
<1>4. /\ \/ conn' = conn
         \/ conn' = [conn EXCEPT ![r][i] = NoClient]
         \/ conn' = [conn EXCEPT ![r][i] = d]
      /\ At(g, "unbind") => conn'[r][i] # d
  BY <1>0, <1>3, LobbyAssumption
     DEF ClearConnection, SetConnection, ClearConnectionIf, At, LobbyTypeOK
<1>5. PICK pc \in {"quit", "bound", "alone", "unregister"} :
        /\ Goto(g, pc, r, i) \/ (pc = "unregister" /\ Goto(g, pc, NoRoom, 0))
        /\ pc = "bound" <=> At(g, "bind")
        /\ pc \in {"alone", "unregister"} <=> At(g, "unbind")
  BY <1>0 DEF ClearConnection, SetConnection, ClearConnectionIf, Then, At
<1>6. /\ go'[g].pc = pc /\ (pc # "unregister" => RoomOf(g)' = r /\ SeatIn(g)' = i)
      /\ Others(g)
      /\ \A c \in Clients : At(Read(c), "new")' => At(Read(c), "new")
  BY <1>0, <1>5, ReaderGoes
<1>7. EndsArePending'
  BY <1>0, <1>1, <1>2, NoneFinished DEF EndsArePending, Ends, AtomicLobbyInv
<1>8. ConnectionsMatch'
  <2>1. ASSUME NEW q \in listed, NEW j \in Seats, conn'[q][j] # NoClient
        PROVE  SitsAt(SessionOf[conn'[q][j]], q, j)
    <3>1. \/ conn'[q][j] = conn[q][j]
          \/ q = r /\ j = i /\ conn'[q][j] = d
      BY <1>0, <1>3, <1>4, <2>1 DEF LobbyTypeOK
    <3> QED BY <1>3, <2>1, <3>1 DEF AtomicLobbyInv, ConnectionsMatch
  <2> QED BY <1>2, <2>1 DEF ConnectionsMatch, SitsAt
<1>9. Knows(g)'
  BY <1>2, <1>3, <1>6, GoroutineNames DEF Knows, Told, At, ReaderKnows, RoomPCs, EndPCs, SitsAt
<1>10. ASSUME NEW c \in Clients, g # Read(c), Gone(c) PROVE Gone(c)'
  <2>1. ASSUME NEW q \in listed', NEW j \in Seats PROVE conn'[q][j] # c
    <3>0. q \in listed /\ q \in Rooms
      BY <1>0, <1>2 DEF LobbyTypeOK
    <3>1. conn[q][j] # c
      BY <1>10, <3>0 DEF Gone
    <3>4. c # d /\ c # NoClient
      BY <1>10, LobbyAssumption
    <3>2. CASE conn' = conn
      BY <3>1, <3>2
    <3>3. ASSUME NEW x \in {NoClient, d}, conn' = [conn EXCEPT ![r][i] = x]
          PROVE  conn'[q][j] = conn[q][j] \/ conn'[q][j] = x
      BY <1>0, <1>3, <3>0, <3>3 DEF LobbyTypeOK
    <3> QED BY <1>4, <3>1, <3>2, <3>3, <3>4
  <2> QED BY <1>2, <1>10, <2>1 DEF Gone
<1>11. ASSUME OnlyClient(d) PROVE SoloAtRest(d)' /\ SoloAtWork(d)'
  <2>1. ~closed[d] /\ ~At(g, "bind") /\ InOnePlace(d)
    BY <1>0, <1>11, ReaderFacts DEF Solo, SoloAtRest, SoloAtWork, At
  <2>2. ASSUME At(g, "unbind") PROVE Gone(d)'
    <3>1. ASSUME NEW q \in listed', NEW j \in Seats, conn'[q][j] = d PROVE FALSE
      <4>1. SitsAt(s, q, j) /\ q \in listed /\ q \in Rooms
        BY <1>0, <1>2, <1>8, <3>1, LobbyAssumption DEF ConnectionsMatch, SitsAt, LobbyTypeOK
      <4>2. q = r /\ j = i
        BY <1>3, <2>1, <4>1 DEF InOnePlace, SitsIn, Seats
      <4> QED BY <1>4, <2>2, <3>1, <4>2
    <3>2. ~InQueue(s)
      BY <1>3, <2>1 DEF InOnePlace, NoRoomOf, SitsIn
    <3>3. \A k \in 1..Len(queue') : queue'[k] # d
      BY <1>2, <3>2 DEF InQueue
    <3> QED BY <3>1, <3>3 DEF Gone
  <2> QED BY <1>2, <1>5, <1>6, <2>1, <2>2 DEF SoloAtRest, SoloAtWork, At, EndPCs
<1>12. \A c \in Clients : ~Owes(g, c)
  BY <1>0 DEF Owes, Told, At
<1>13. \A c \in Clients : OnlyClient(c) /\ g = Read(c) => SoloAtRest(c)' /\ SoloAtWork(c)'
  BY <1>11, GoroutineNames
<1> HIDE DEF g
<1> QED BY <1>0, <1>1, <1>2, <1>6, <1>7, <1>8, <1>9, <1>10, <1>12, <1>13, ConnStep

-----------------------------------------------------------------------------
(* What clients are told.                                                  *)

\* SetState through the hub reaches a session's only client, if it is there.
LEMMA SetStateEffect ==
  ASSUME LobbyInv, AtomicLobbyInv, hubJob = HubIdle, NEW c \in Clients, OnlyClient(c),
         NEW s \in Sessions, NEW x, SetStateOf(s, x)
  PROVE  /\ SessionOf[c] # s \/ At(Read(c), "new") => clientState'[c] = clientState[c]
         /\ SessionOf[c] = s /\ go[Read(c)].pc \notin {"new", "close", "done"}
              => clientState'[c] = x
         /\ clientState'[c] = clientState[c] \/ clientState'[c] = x
<1>1. clientState'[c] = IF c = hub[s] THEN x ELSE clientState[c]
  BY DEF SetStateOf
<1>2. c = hub[s] => SessionOf[c] = s /\ ~At(Read(c), "new")
  BY LobbyAssumption DEF AtomicLobbyInv, HubHoldsItsOwn
<1>3. SessionOf[c] = s /\ go[Read(c)].pc \notin {"new", "close", "done"} => hub[s] = c
  BY DEF AtomicLobbyInv, Solo, SoloAtRest, LobbyInv, KnownWhileOpen, HubIdle, At
<1> QED BY <1>1, <1>2, <1>3

\* Where everybody is does not change when only clients are told something.
LEMMA PlacesKept ==
  ASSUME UNCHANGED <<queue, seats, listed>>
  PROVE  /\ \A s : (Waits(s)' <=> Waits(s)) /\ (Plays(s)' <=> Plays(s))
         /\ \A s : NoRoomOf(s)' <=> NoRoomOf(s)
         /\ \A s, r : SitsIn(s, r)' <=> SitsIn(s, r)
         /\ \A c : (Nowhere(c)' <=> Nowhere(c)) /\ (InOnePlace(c)' <=> InOnePlace(c))
BY DEF Waits, Plays, NoRoomOf, Nowhere, InOnePlace, InQueue, SitsIn, SitsAt, Full

\* A step that changes nothing but goroutines, phases and clients' states.
LEMMA StateStep ==
  ASSUME LobbyInv, LobbyInv', AtomicLobbyInv, NEW g \in Goroutines,
         Alone(g), Others(g),
         UNCHANGED <<hub, hubJob, closed, queue, timedOut, seats, conn, listed>>,
         \A c \in Clients : At(Read(c), "new")' => At(Read(c), "new"),
         EndsArePending', Knows(g)',
         \A c \in Clients : OnlyClient(c) /\ g = Read(c) => SoloAtRest(c)' /\ SoloAtWork(c)',
         \A c \in Clients : OnlyClient(c) /\ g # Read(c) =>
           /\ At(Read(c), "new") => clientState'[c] = clientState[c]
           /\ At(Read(c), "idle") =>
                \/ clientState'[c] = clientState[c] /\ (Owes(g, c) => Owes(g, c)')
                \/ Agrees(c)' \/ Owes(g, c)'
  PROVE  AtomicLobbyInv'
<1>1. ConnectionsMatch'
  BY DEF AtomicLobbyInv, ConnectionsMatch, SitsAt
<1>2. ASSUME NEW c \in Clients, OnlyClient(c)
      PROVE  InOnePlace(c)' /\ (g # Read(c) => SoloAtRest(c)')
  <2>1. InOnePlace(c) /\ SoloAtRest(c)
    BY <1>2 DEF AtomicLobbyInv, Solo
  <2>2. InOnePlace(c)'
    BY <2>1, PlacesKept
  <2>3. ASSUME g # Read(c) PROVE SoloAtRest(c)'
    <3>1. \A pc : At(Read(c), pc)' <=> At(Read(c), pc)
      BY <2>3, GoroutineNames DEF Others, At
    <3>2. At(Read(c), "new") => clientState'[c] = "lobby" /\ Nowhere(c)'
      BY <1>2, <2>1, <2>3, PlacesKept DEF SoloAtRest
    <3>3. ASSUME At(Read(c), "idle") PROVE Agrees(c)' \/ Owed(c)'
      <4>1. timedOut = <<>>
        BY DEF Alone
      <4>2. Owes(g, c)' => Owed(c)'
        BY DEF Owed, Late
      <4>3. Owed(c) => Owes(g, c)
        BY <4>1 DEF Owed, Late, Owes, Told, At, Alone, Busy
      <4>4. clientState'[c] = clientState[c] /\ Agrees(c) => Agrees(c)'
        BY PlacesKept DEF Agrees
      <4> QED BY <1>2, <2>1, <2>3, <3>3, <4>2, <4>3, <4>4 DEF SoloAtRest
    <3>4. Gone(c) => Gone(c)'
      BY DEF Gone
    <3> QED BY <2>1, <3>1, <3>2, <3>3, <3>4 DEF SoloAtRest
  <2> QED BY <2>2, <2>3
<1> QED BY <1>1, <1>2, Assemble DEF Solo

\* A session's only client plays, or waits, in the one room where it sits.
LEMMA SoloInRoom ==
  ASSUME NEW c \in Clients, InOnePlace(c), NEW r \in listed, SitsIn(SessionOf[c], r)
  PROVE  /\ Full(r) => Plays(SessionOf[c]) /\ ~Waits(SessionOf[c])
         /\ ~Full(r) => Waits(SessionOf[c]) /\ ~Plays(SessionOf[c])
BY DEF InOnePlace, NoRoomOf, Plays, Waits

\* A read loop that tells its own client what state it is in.
LEMMA OwnState ==
  ASSUME LobbyInv, LobbyInv', AtomicLobbyInv, NEW d \in Clients, ~Rests(Read(d)),
         NEW x, SetState(d, x),
         NEW pc, NEW r, NEW i, Goto(Read(d), pc, r, i), pc \notin {"new", "done", "reset", "remove"},
         UNCHANGED <<hub, hubJob, closed, queue, timedOut, seats, conn, listed, phase>>,
         go[Read(d)].pc \notin {"reset", "remove"},
         pc \in RoomPCs => r \in listed,
         ReaderKnows(d)',
         OnlyClient(d) => SoloAtWork(d)' /\ (pc = "idle" => Agrees(d)'),
         \A c \in Clients \ {d} : Owes(Read(d), c) => Owes(Read(d), c)'
  PROVE  AtomicLobbyInv'
<1> DEFINE g == Read(d)
<1>0. g \in Goroutines /\ LobbyTypeOK /\ Alone(g)
  BY GoroutineNames, WhoIsAlone DEF LobbyInv, AtomicLobbyInv
<1>1. /\ go'[g].pc = pc /\ RoomOf(g)' = r /\ SeatIn(g)' = i
      /\ Others(g)
      /\ \A c \in Clients : At(Read(c), "new")' => At(Read(c), "new")
  BY <1>0, ReaderGoes
<1>2. EndsArePending'
  BY <1>0, NoneFinished DEF EndsArePending, Ends, AtomicLobbyInv
<1>3. Knows(g)'
  <2>1. /\ ReaderKnows(d)'
        /\ go'[Read(d)].pc \in RoomPCs => RoomOf(Read(d))' \in listed'
        /\ go'[Read(d)].pc \notin {"reset", "remove"}
    BY <1>1
  <2>2. (/\ ReaderKnows(d)
         /\ go[Read(d)].pc \in RoomPCs => RoomOf(Read(d)) \in listed
         /\ go[Read(d)].pc \notin {"reset", "remove"})' => Knows(Read(d))'
    BY ReaderJob, PTL
  <2> QED BY <2>1, <2>2
<1>4. ASSUME OnlyClient(d) PROVE SoloAtRest(d)' /\ SoloAtWork(d)'
  <2>1. ~closed'[d]
    BY <1>0, <1>4, ReaderFacts DEF Solo, SoloAtRest, At, Busy, Rests
  <2>2. (go[Read(d)].pc \notin {"new", "idle", "done"} /\ ~closed[d])' => SoloAtRest(d)'
    BY WorkingSolo, PTL
  <2>3. (At(Read(d), "idle") /\ ~closed[d] /\ (Agrees(d) \/ Owed(d)))' => SoloAtRest(d)'
    BY RestingSolo, PTL
  <2> QED BY <1>1, <1>4, <2>1, <2>2, <2>3 DEF At
<1>5. \A c \in Clients : c # d => clientState'[c] = clientState[c]
  BY <1>0 DEF SetState, LobbyTypeOK
<1>6. \A c \in Clients : OnlyClient(c) /\ g = Read(c) => SoloAtRest(c)' /\ SoloAtWork(c)'
  BY <1>4, GoroutineNames
<1>7. \A c \in Clients : g # Read(c) =>
        clientState'[c] = clientState[c] /\ (Owes(g, c) => Owes(g, c)')
  BY <1>5
<1> HIDE DEF g
<1> QED BY <1>0, <1>1, <1>2, <1>3, <1>6, <1>7, StateStep

\* The end of join_queue without a match and of create_room, and the replies to
\* those who leave and come back.
LEMMA ReplyStep ==
  ASSUME LobbyInv, LobbyInv', AtomicLobbyInv, NEW d \in Clients,
         Wait(d) \/ ToLobby(d) \/ Reconnected(d)
  PROVE  AtomicLobbyInv'
<1> DEFINE g == Read(d)
           s == SessionOf[d]
           r == RoomOf(g)
<1>1. ~Rests(g) /\ go[g].pc \in {"wait", "toLobby", "bound"} /\ LobbyTypeOK
  BY DEF Wait, ToLobby, Reconnected, At, Busy, Rests, LobbyInv
<1>2. UNCHANGED <<hub, hubJob, closed, queue, timedOut, seats, conn, listed, phase>>
  BY DEF Wait, ToLobby, Reconnected, hubVars, queueVars, roomVars
<1>3. PICK x \in {"waiting", "lobby", "in_game"} :
        /\ SetState(d, x)
        /\ x = "waiting" <=> At(g, "wait")
        /\ x = "lobby" <=> At(g, "toLobby")
  BY DEF Wait, ToLobby, Reconnected, At
<1>4. Goto(g, "idle", NoRoom, 0)
  BY DEF Wait, ToLobby, Reconnected, Rest
<1>5. go'[g].pc = "idle"
  BY <1>1, <1>4, ReaderGoes
<1>6. ReaderKnows(d)' /\ SoloAtWork(d)'
  BY <1>5 DEF ReaderKnows, SoloAtWork, EndPCs
<1>7. ASSUME OnlyClient(d) PROVE Agrees(d)'
  <2>1. clientState'[d] = x
    BY <1>1, <1>3 DEF SetState, LobbyTypeOK
  <2>2. ReaderKnows(d) /\ InOnePlace(d) /\ SoloAtWork(d)
    BY <1>7, ReaderFacts DEF Solo
  <2>3. x = "lobby" \/ x = "waiting"
    BY <1>1, <1>3, <2>2 DEF SoloAtWork, At
  <2>4. x = "lobby" => ~Waits(s) /\ ~Plays(s)
    BY <1>3, <2>2 DEF SoloAtWork, At, Nowhere, NoRoomOf, Waits, Plays
  <2>5. ASSUME x = "waiting" PROVE Waits(s) /\ ~Plays(s)
    <3>1. CASE r = NoRoom
      <4>1. InQueue(s)
        BY <1>3, <2>2, <2>5, <3>1 DEF ReaderKnows, At
      <4> QED BY <2>2, <4>1 DEF InOnePlace, NoRoomOf, Waits, Plays
    <3>2. CASE r # NoRoom
      <4>1. r \in listed /\ seats[r][0] = d /\ seats[r][1] = NoClient
        BY <1>3, <2>2, <2>5, <3>2 DEF ReaderKnows, At
      <4>2. SitsIn(s, r) /\ ~Full(r)
        BY <4>1, LobbyAssumption DEF SitsIn, SitsAt, Seats, Full
      <4> QED BY <2>2, <4>1, <4>2, SoloInRoom
    <3> QED BY <3>1, <3>2
  <2> QED BY <1>2, <2>1, <2>3, <2>4, <2>5, PlacesKept DEF Agrees
<1>8. \A c \in Clients : ~Owes(g, c)
  BY <1>1 DEF Owes, Told, At
<1> HIDE DEF g
<1> QED BY <1>1, <1>2, <1>3, <1>4, <1>6, <1>7, <1>8, OwnState DEF g, RoomPCs

\* The second player of a room enters the game.
LEMMA EnterGameStep ==
  ASSUME LobbyInv, LobbyInv', AtomicLobbyInv, NEW d \in Clients, EnterGame(d)
  PROVE  AtomicLobbyInv'
<1> DEFINE g == Read(d)
           r == RoomOf(g)
<1>1. ~Rests(g) /\ go[g].pc = "enter" /\ LobbyTypeOK
  BY DEF EnterGame, At, Busy, Rests, LobbyInv
<1>2. UNCHANGED <<hub, hubJob, closed, queue, timedOut, seats, conn, listed, phase>>
  BY DEF EnterGame, hubVars, queueVars, roomVars
<1>3. SetState(d, "in_game") /\ Goto(g, "tellHost", r, SeatIn(g))
  BY DEF EnterGame, Then
<1>4. r \in listed /\ seats[r][1] = d
  BY <1>1, ReaderFacts DEF ReaderKnows, RoomPCs
<1>5. go'[g].pc = "tellHost" /\ RoomOf(g)' = r
  BY <1>1, <1>3, ReaderGoes
<1>6. ReaderKnows(d)'
  BY <1>2, <1>4, <1>5 DEF ReaderKnows, EndPCs
<1>7. clientState' = [clientState EXCEPT ![d] = "in_game"]
  BY <1>3 DEF SetState
<1>8. SoloAtWork(d)'
  BY <1>1, <1>5, <1>7 DEF SoloAtWork, EndPCs, LobbyTypeOK
<1>9. ASSUME NEW c \in Clients \ {d}, Owes(g, c) PROVE Owes(g, c)'
  BY <1>1, <1>2, <1>5, <1>7, <1>9 DEF Owes, Told, At, SitsAt, Full, LobbyTypeOK
<1> QED BY <1>1, <1>2, <1>3, <1>4, <1>6, <1>8, <1>9, OwnState

\* A player who leaves a game is in the lobby before the game is over.
LEMMA QuitToLobbyStep ==
  ASSUME LobbyInv, LobbyInv', AtomicLobbyInv, NEW d \in Clients, QuitToLobby(d)
  PROVE  AtomicLobbyInv'
<1> DEFINE g == Read(d)
           r == RoomOf(g)
<1>1. ~Rests(g) /\ go[g].pc = "quit" /\ LobbyTypeOK
  BY DEF QuitToLobby, At, Busy, Rests, LobbyInv
<1>2. UNCHANGED <<hub, hubJob, closed, queue, timedOut, seats, conn, listed, phase>>
  BY DEF QuitToLobby, hubVars, queueVars, roomVars
<1>3. SetState(d, "lobby") /\ Goto(g, "finish", r, SeatIn(g))
  BY DEF QuitToLobby, Then
<1>4. r \in listed /\ SitsAt(SessionOf[d], r, SeatIn(g)) /\ SeatIn(g) \in Seats
  BY <1>1, ReaderFacts DEF ReaderKnows, RoomPCs
<1>5. go'[g].pc = "finish" /\ RoomOf(g)' = r
  BY <1>1, <1>3, ReaderGoes
<1>6. SitsIn(SessionOf[d], r)'
  BY <1>2, <1>4, <1>5 DEF SitsIn, SitsAt
<1>7. ReaderKnows(d)'
  BY <1>5, <1>6 DEF ReaderKnows, EndPCs
<1>8. SoloAtWork(d)'
  BY <1>1, <1>3, <1>5 DEF SoloAtWork, EndPCs, LobbyTypeOK, SetState
<1>9. \A c \in Clients : ~Owes(g, c)
  BY <1>1 DEF Owes, Told, At
<1> QED BY <1>1, <1>2, <1>3, <1>4, <1>7, <1>8, <1>9, OwnState

\* Players who were waiting are told that their game begins: by the one who was
\* matched with them, who is told next, or by the one who joined their room.
LEMMA TellStep ==
  ASSUME LobbyInv, LobbyInv', AtomicLobbyInv, NEW d \in Clients,
         TellMatched(d) \/ TellHost(d)
  PROVE  AtomicLobbyInv'
<1> DEFINE g == Read(d)
           r == RoomOf(g)
<1>0. g \in Goroutines /\ LobbyTypeOK /\ ~Rests(g) /\ go[g].pc \in {"tell", "tellHost"}
  BY GoroutineNames DEF TellMatched, TellHost, At, Busy, Rests, LobbyInv
<1>1. Alone(g) /\ hubJob = HubIdle
  BY <1>0, WhoIsAlone DEF AtomicLobbyInv, Alone
<1>2. UNCHANGED <<hub, hubJob, closed, queue, timedOut, seats, conn, listed, phase>>
  BY DEF TellMatched, TellHost, hubVars, queueVars, roomVars
<1>3. r \in listed /\ r \in Rooms /\ seats[r][1] = d /\ SeatIn(g) \in Seats
  BY <1>0, ReaderFacts DEF ReaderKnows, RoomPCs, LobbyTypeOK
<1>4. Full(r) /\ seats[r][0] \in Clients
  BY <1>0, <1>3, LobbyAssumption
     DEF LobbyInv, FirstSeatTaken, Known, Reached, Full, LobbyTypeOK, MaybeClient, Seats
<1>5. PICK k \in Seats, pc \in {"tell", "idle"} :
        /\ SetStateOf(SessionOf[seats[r][k]], "in_game")
        /\ \/ pc = "tell" /\ k = 0 /\ Goto(g, "tell", r, 1)
           \/ pc = "idle" /\ Goto(g, "idle", NoRoom, 0)
        /\ k = 0 \/ (go[g].pc = "tell" /\ SeatIn(g) = 1)
        /\ pc = "tell" \/ k = 1 \/ go[g].pc = "tellHost"
  BY <1>3 DEF TellMatched, TellHost, Rest, Seats, At
<1> DEFINE s == SessionOf[seats[r][k]]
<1>6. s \in Sessions
  BY <1>3, <1>4, LobbyAssumption DEF Seats
<1>7. /\ go'[g].pc = pc /\ (pc = "tell" => RoomOf(g)' = r /\ SeatIn(g)' = 1)
      /\ Others(g)
      /\ \A c \in Clients : At(Read(c), "new")' => At(Read(c), "new")
  BY <1>0, <1>5, ReaderGoes
<1>8. EndsArePending'
  BY <1>0, <1>1, <1>2, NoneFinished DEF EndsArePending, Ends, AtomicLobbyInv
<1>9. Knows(g)'
  <2>1. ReaderKnows(d)'
    BY <1>2, <1>3, <1>7 DEF ReaderKnows, EndPCs
  <2> QED BY <1>2, <1>3, <1>7, <2>1, GoroutineNames DEF Knows, Told, At, RoomPCs
<1>10. SitsAt(s, r, k) /\ SitsIn(s, r) /\ SitsIn(SessionOf[d], r)
  BY <1>3, <1>4, LobbyAssumption DEF SitsAt, SitsIn, Seats
<1>11. ASSUME NEW c \in Clients, OnlyClient(c), SitsIn(SessionOf[c], r),
              clientState'[c] = "in_game"
       PROVE  Agrees(c)'
  <2>1. InOnePlace(c)
    BY <1>11 DEF AtomicLobbyInv, Solo
  <2>2. Plays(SessionOf[c]) /\ ~Waits(SessionOf[c])
    BY <1>3, <1>4, <1>11, <2>1, SoloInRoom
  <2> QED BY <1>2, <1>11, <2>2, PlacesKept DEF Agrees
<1>12. ASSUME OnlyClient(d) PROVE SoloAtRest(d)' /\ SoloAtWork(d)'
  <2>1. ~closed'[d] /\ Solo(d)
    BY <1>0, <1>2, <1>12, ReaderFacts DEF Solo, SoloAtRest, At
  <2>2. SoloAtWork(d)'
    BY <1>7 DEF SoloAtWork, EndPCs
  <2>3. CASE pc = "tell"
    BY <1>7, <2>1, <2>2, <2>3 DEF SoloAtRest, At
  <2>4. CASE pc = "idle"
    <3>1. clientState'[d] = "in_game"
      <4>1. CASE k = 1
        BY <1>0, <1>1, <1>3, <1>5, <1>6, <1>12, <4>1, SetStateEffect DEF At
      <4>2. CASE go[g].pc = "tellHost"
        <5>1. clientState[d] = "in_game"
          BY <2>1, <4>2 DEF Solo, SoloAtWork
        <5> QED BY <1>1, <1>5, <1>6, <1>12, <5>1, SetStateEffect
      <4> QED BY <1>5, <2>4, <4>1, <4>2
    <3>2. Agrees(d)'
      BY <1>10, <1>11, <1>12, <3>1
    <3> QED BY <1>7, <2>1, <2>2, <2>4, <3>2 DEF SoloAtRest, At
  <2> QED BY <2>3, <2>4
<1>13. ASSUME NEW c \in Clients, OnlyClient(c), g # Read(c)
       PROVE  /\ At(Read(c), "new") => clientState'[c] = clientState[c]
              /\ At(Read(c), "idle") =>
                   (clientState'[c] = clientState[c] /\ ~Owes(g, c)) \/ Agrees(c)'
  <2>1. SessionOf[c] # SessionOf[d]
    BY <1>13 DEF OnlyClient
  <2>2. CASE SessionOf[c] = s
    BY <1>1, <1>5, <1>6, <1>10, <1>11, <1>13, <2>2, SetStateEffect DEF At
  <2>3. CASE SessionOf[c] # s
    <3>1. ~Owes(g, c)
      <4>1. k = 1 => ~Owes(g, c)
        BY <1>3, <1>5 DEF Owes, Told, At, Seats
      <4>2. k = 0 => ~Owes(g, c)
        BY <1>0, <2>3 DEF Owes, Told, At, SitsAt
      <4> QED BY <4>1, <4>2 DEF Seats
    <3> QED BY <1>1, <1>5, <1>6, <1>13, <2>3, <3>1, SetStateEffect
  <2> QED BY <2>2, <2>3
<1>14. \A c \in Clients : OnlyClient(c) /\ g = Read(c) => SoloAtRest(c)' /\ SoloAtWork(c)'
  BY <1>12, GoroutineNames
<1> HIDE DEF g
<1> QED BY <1>0, <1>1, <1>2, <1>7, <1>8, <1>9, <1>13, <1>14, StateStep

\* ResetPlayersToLobby, by whoever ended the game.
LEMMA ResetStep ==
  ASSUME LobbyInv, LobbyInv', AtomicLobbyInv, NEW g \in Goroutines, ResetPlayersToLobby(g)
  PROVE  AtomicLobbyInv'
<1> DEFINE r == RoomOf(g)
           i == SeatIn(g)
           p == seats[r][i]
           s == SessionOf[p]
<1>0. LobbyTypeOK /\ ~Rests(g) /\ go[g].pc = "reset"
  BY DEF ResetPlayersToLobby, At, Busy, Rests, LobbyInv
<1>1. Alone(g) /\ hubJob = HubIdle /\ Knows(g) /\ r \in listed /\ r \in Rooms /\ i \in Seats
  BY <1>0, WhoIsAlone, JobParts
     DEF AtomicLobbyInv, JobsKnow, Knows, RoomPCs, LobbyTypeOK, Alone
<1>2. UNCHANGED <<hub, hubJob, closed, queue, timedOut, seats, conn, listed, phase>>
  BY DEF ResetPlayersToLobby, hubVars, queueVars, roomVars
<1>3. /\ p # NoClient => SetStateOf(s, "lobby")
      /\ p = NoClient => UNCHANGED clientState
  BY DEF ResetPlayersToLobby
<1>4. p # NoClient => s \in Sessions /\ SitsAt(s, r, i)
  BY <1>0, <1>1, LobbyAssumption DEF LobbyTypeOK, MaybeClient, SitsAt
<1>5. PICK pc \in {"reset", "remove"} :
        /\ Goto(g, pc, r, 1) \/ Goto(g, pc, r, i)
        /\ pc = "reset" <=> i = 0
        /\ i = 0 => Goto(g, pc, r, 1)
  BY DEF ResetPlayersToLobby, Then
<1>6. /\ go'[g].pc = pc /\ RoomOf(g)' = r /\ (i = 0 => SeatIn(g)' = 1) /\ Others(g)
      /\ \A c \in Clients : At(Read(c), "new")' => At(Read(c), "new")
  BY <1>0, <1>5, JobGoes
<1>7. EndsArePending'
  <2>1. ASSUME NEW q \in listed', phase'[q] = "finished"
        PROVE  RoomOf(g)' = q /\ go'[g].pc \in {"reset", "remove"}
    <3>1. PICK h \in Goroutines : RoomOf(h) = q /\ go[h].pc \in {"reset", "remove"}
      BY <1>2, <2>1 DEF AtomicLobbyInv, EndsArePending, Ends
    <3>2. h = g
      BY <1>1, <3>1 DEF Alone, Busy
    <3> QED BY <1>6, <3>1, <3>2
  <2> QED BY <2>1 DEF EndsArePending, Ends
<1>8. Knows(g)'
  <2>1. ASSUME NEW c \in Clients, OnlyClient(c), At(Read(c), "idle")', Told(g, c)'
        PROVE  clientState'[c] = "lobby"
    <3>0. At(Read(c), "idle")
      BY <1>6, <2>1, GoroutineNames DEF Others, At
    <3>1. \/ i = 0 /\ SitsAt(SessionOf[c], r, 0)
          \/ i = 1 /\ (SitsAt(SessionOf[c], r, 0) \/ SitsAt(SessionOf[c], r, 1))
      BY <1>1, <1>2, <1>5, <1>6, <2>1 DEF Told, At, SitsIn, SitsAt, Seats
    <3>2. CASE SitsAt(SessionOf[c], r, i)
      BY <1>1, <1>3, <1>4, <2>1, <3>0, <3>2, SetStateEffect DEF SitsAt, At
    <3>3. CASE i = 1 /\ SitsAt(SessionOf[c], r, 0)
      <4>1. clientState[c] = "lobby"
        BY <1>0, <1>1, <2>1, <3>0, <3>3 DEF Knows, Told, At
      <4> QED BY <1>1, <1>3, <1>4, <2>1, <4>1, SetStateEffect
    <3> QED BY <3>1, <3>2, <3>3
  <2>2. \A c \in Clients : OnlyClient(c)' <=> OnlyClient(c)
    BY DEF OnlyClient
  <2> QED BY <1>0, <1>1, <1>2, <1>6, <2>1, <2>2, GoroutineNames, MoreNames
          DEF Knows, ReaderKnows, GraceKnows, GameKnows, RoomPCs, EndPCs, SitsIn, SitsAt, At
<1>9. ASSUME NEW c \in Clients, OnlyClient(c), g = Read(c)
      PROVE  SoloAtRest(c)' /\ SoloAtWork(c)'
  <2>1. ~closed[c] /\ clientState[c] = "lobby"
    BY <1>0, <1>9, ReaderFacts DEF Solo, SoloAtRest, SoloAtWork, EndPCs, At
  <2>2. clientState'[c] = "lobby"
    BY <1>1, <1>3, <1>4, <1>9, <2>1, SetStateEffect
  <2> QED BY <1>2, <1>6, <1>9, <2>1, <2>2 DEF SoloAtRest, SoloAtWork, At, EndPCs
<1>10. ASSUME NEW c \in Clients, OnlyClient(c), g # Read(c)
       PROVE  /\ At(Read(c), "new") => clientState'[c] = clientState[c]
              /\ At(Read(c), "idle") =>
                   \/ clientState'[c] = clientState[c] /\ (Owes(g, c) => Owes(g, c)')
                   \/ Owes(g, c)'
  <2>1. CASE p # NoClient /\ SessionOf[c] = s
    <3>1. At(Read(c), "new") => clientState'[c] = clientState[c]
      BY <1>1, <1>3, <1>4, <1>10, <2>1, SetStateEffect
    <3>2. At(Read(c), "idle") => clientState'[c] = "lobby"
      BY <1>1, <1>3, <1>4, <1>10, <2>1, SetStateEffect DEF At
    <3>3. clientState'[c] = "lobby" => Owes(g, c)'
      BY <1>1, <1>2, <1>4, <1>5, <1>6, <2>1 DEF Owes, Told, At, SitsIn, SitsAt, Seats
    <3> QED BY <3>1, <3>2, <3>3
  <2>2. CASE p = NoClient \/ SessionOf[c] # s
    <3>1. clientState'[c] = clientState[c]
      BY <1>1, <1>3, <1>4, <1>10, <2>2, SetStateEffect
    <3>2. ASSUME Owes(g, c) PROVE Owes(g, c)'
      <4>1. clientState[c] = "lobby" /\ i = 1 /\ SitsAt(SessionOf[c], r, 0)
        BY <1>0, <3>2 DEF Owes, Told, At
      <4>2. go'[g].pc = "remove"
        BY <1>5, <1>6, <4>1
      <4> QED BY <1>1, <1>2, <1>6, <3>1, <4>1, <4>2 DEF Owes, Told, At, SitsIn, SitsAt, Seats
    <3> QED BY <3>1, <3>2
  <2> QED BY <2>1, <2>2
<1> QED BY <1>0, <1>1, <1>2, <1>6, <1>7, <1>8, <1>9, <1>10, StateStep

-----------------------------------------------------------------------------
(* Places in the queue.                                                    *)

\* Nothing is owed by a goroutine whose next step changes where sessions are.
LEMMA NothingOwed ==
  ASSUME NEW g \in Goroutines, Alone(g),
         go[g].pc \notin {"begin", "tell", "beginRoom", "enter", "tellHost",
                         "reset", "remove"}
  PROVE  \A c : ~Owed(c)
BY DEF Alone, Owed, Late, Owes, Told, At, Busy, Rests

\* JoinQueue and LeaveQueue when only the session at work is in the queue.
LEMMA QueueStep ==
  ASSUME LobbyInv, LobbyInv', AtomicLobbyInv, NEW d \in Clients, ~Rests(Read(d)),
         NEW pc \in {"wait", "toLobby", "unregister"}, Then(Read(d), pc),
         go[Read(d)].pc \in {"join", "dequeue", "forget"},
         UNCHANGED <<hub, hubJob, closed, clientState, timedOut, seats, conn, listed, phase>>,
         \A c \in Clients : InQueue(SessionOf[c]) => SessionOf[c] = SessionOf[d],
         \A k \in 1..Len(queue') : queue'[k] = d,
         ReaderKnows(d)',
         OnlyClient(d) => InOnePlace(d)' /\ SoloAtWork(d)'
  PROVE  AtomicLobbyInv'
<1> DEFINE g == Read(d)
<1>0. g \in Goroutines /\ LobbyTypeOK /\ LobbyTypeOK' /\ Alone(g)
  BY GoroutineNames, WhoIsAlone DEF LobbyInv, AtomicLobbyInv
<1>1. /\ go'[g].pc = pc
      /\ \A h \in Goroutines \ {g} : go'[h] = go[h]
      /\ Others(g)
      /\ \A c \in Clients : At(Read(c), "new")' => At(Read(c), "new")
  BY <1>0, ReaderGoes DEF Then
<1>2. EndsArePending'
  BY <1>0, NoneFinished DEF EndsArePending, Ends, AtomicLobbyInv
<1>3. ConnectionsMatch'
  BY DEF AtomicLobbyInv, ConnectionsMatch, SitsAt
<1>4. Knows(g)'
  <2>1. /\ ReaderKnows(d)'
        /\ go'[Read(d)].pc \in RoomPCs => RoomOf(Read(d))' \in listed'
        /\ go'[Read(d)].pc \notin {"reset", "remove"}
    BY <1>1 DEF RoomPCs
  <2>2. (/\ ReaderKnows(d)
         /\ go[Read(d)].pc \in RoomPCs => RoomOf(Read(d)) \in listed
         /\ go[Read(d)].pc \notin {"reset", "remove"})' => Knows(Read(d))'
    BY ReaderJob, PTL
  <2> QED BY <2>1, <2>2
<1>5. ASSUME OnlyClient(d) PROVE Solo(d)'
  <2>1. ~closed'[d]
    BY <1>0, <1>5, ReaderFacts DEF Solo, SoloAtRest, At, Busy, Rests
  <2>2. SoloAtRest(d)'
    BY <1>1, <2>1 DEF SoloAtRest, At
  <2> QED BY <1>5, <2>2 DEF Solo
<1>6. ASSUME NEW c \in Clients, OnlyClient(c), g # Read(c)
      PROVE  InOnePlace(c)' /\ SoloAtRest(c)'
  <2>1. SessionOf[c] # SessionOf[d] /\ c # d
    BY <1>6 DEF OnlyClient
  <2>2. ~InQueue(SessionOf[c]) /\ ~InQueue(SessionOf[c])'
    BY <2>1 DEF InQueue
  <2>3. SamePlace(c)
    BY <2>2 DEF SamePlace, SitsIn, SitsAt
  <2>4. Gone(c) => Gone(c)'
    BY <2>1 DEF Gone
  <2>5. ~Owed(c)
    BY <1>0, NothingOwed
  <2>6. go'[Read(c)] = go[Read(c)]
    BY <1>1, <1>6, GoroutineNames
  <2>7. InOnePlace(c) /\ SoloAtRest(c)
    BY <1>6 DEF AtomicLobbyInv, Solo
  <2> QED BY <1>0, <2>3, <2>4, <2>5, <2>6, <2>7, RestStays
<1>7. \A c \in Clients : OnlyClient(c) /\ g = Read(c) => Solo(c)'
  BY <1>5, GoroutineNames
<1> HIDE DEF g
<1> QED BY <1>0, <1>1, <1>2, <1>3, <1>4, <1>6, <1>7, Assemble

\* join_queue without a match.
LEMMA JoinStep ==
  ASSUME LobbyInv, LobbyInv', AtomicLobbyInv, NEW d \in Clients,
         JoinAgain(d) \/ JoinWaits(d)
  PROVE  AtomicLobbyInv'
<1> DEFINE g == Read(d)
           s == SessionOf[d]
<1>1. ~Rests(g) /\ go[g].pc = "join" /\ LobbyTypeOK /\ Then(g, "wait")
  BY DEF JoinAgain, JoinWaits, At, Busy, Rests, LobbyInv
<1>2. UNCHANGED <<hub, hubJob, closed, clientState, timedOut, seats, conn, listed, phase>>
  BY DEF JoinAgain, JoinWaits, hubVars, queueVars, roomVars
<1>3. /\ \A c \in Clients : InQueue(SessionOf[c]) => SessionOf[c] = s
      /\ Len(queue') = 1 /\ queue'[1] = d
      /\ JoinAgain(d) => InQueue(s)
  <2>1. CASE JoinAgain(d)
    <3>1. PICK k \in 1..Len(queue) : SessionOf[queue[k]] = s /\ queue' = [queue EXCEPT ![k] = d]
      BY <2>1 DEF JoinAgain
    <3>2. InQueue(s)
      BY <3>1 DEF InQueue
    <3>3. PICK q \in Clients :
            /\ Len(queue) = 1 /\ queue[1] = q
            /\ \A x \in Sessions : InQueue(x) <=> SessionOf[q] = x
      BY <3>2, QueueShape, LobbyAssumption
    <3>4. k = 1 /\ SessionOf[q] = s
      BY <3>1, <3>3
    <3>5. Len(queue') = 1 /\ queue'[1] = d
      BY <1>1, <3>1, <3>3, <3>4, ExceptSeq DEF LobbyTypeOK
    <3> QED BY <3>2, <3>3, <3>4, <3>5, LobbyAssumption
  <2>2. CASE JoinWaits(d)
    <3>1. queue = <<>> /\ queue' = Append(queue, d)
      BY <2>2 DEF JoinWaits
    <3>2. \A c \in Clients : ~InQueue(SessionOf[c])
      BY <3>1 DEF InQueue
    <3>3. Len(queue') = 1 /\ queue'[1] = d
      BY <3>1
    <3>4. ~JoinAgain(d)
      BY <3>1 DEF JoinAgain
    <3> QED BY <3>2, <3>3, <3>4
  <2> QED BY <2>1, <2>2
<1>4. InQueue(s)' /\ \A k \in 1..Len(queue') : queue'[k] = d
  BY <1>3 DEF InQueue
<1>5. RoomOf(g)' = NoRoom /\ go'[g].pc = "wait"
  <2>1. RoomOf(g) = NoRoom
    BY <1>1, ReaderFacts DEF ReaderKnows
  <2> QED BY <1>1, <2>1, ReaderGoes DEF Then
<1>6. ReaderKnows(d)'
  BY <1>4, <1>5 DEF ReaderKnows, EndPCs
<1>7. ASSUME OnlyClient(d) PROVE InOnePlace(d)' /\ SoloAtWork(d)'
  <2>1. NoRoomOf(s)
    BY <1>1, <1>7, ReaderFacts DEF Solo, SoloAtWork, Nowhere
  <2>2. NoRoomOf(s)'
    BY <1>2, <2>1 DEF NoRoomOf, SitsIn, SitsAt
  <2>3. InOnePlace(d)'
    BY <2>2 DEF InOnePlace, NoRoomOf, SitsIn, Seats
  <2> QED BY <1>5, <2>3 DEF SoloAtWork, EndPCs
<1> QED BY <1>1, <1>2, <1>3, <1>4, <1>6, <1>7, QueueStep

\* LeaveQueue, by a player who leaves and for a connection that is lost.
LEMMA LeaveQueueStep ==
  ASSUME LobbyInv, LobbyInv', AtomicLobbyInv, NEW d \in Clients,
         LeaveQueue(d, "dequeue", "toLobby") \/ LeaveQueue(d, "forget", "unregister")
  PROVE  AtomicLobbyInv'
<1> DEFINE g == Read(d)
           s == SessionOf[d]
<1>1. ~Rests(g) /\ go[g].pc \in {"dequeue", "forget"} /\ LobbyTypeOK
  BY DEF LeaveQueue, At, Busy, Rests, LobbyInv
<1>2. UNCHANGED <<hub, hubJob, closed, clientState, timedOut, seats, conn, listed, phase>>
  BY DEF LeaveQueue, hubVars, roomVars
<1>3. PICK next \in {"toLobby", "unregister"} : Then(g, next)
  BY DEF LeaveQueue
<1>4. go'[g].pc = next
  BY <1>1, <1>3, ReaderGoes DEF Then
<1>5. ReaderKnows(d)'
  BY <1>4 DEF ReaderKnows, EndPCs
<1>6. ASSUME OnlyClient(d), ~InQueue(s)' PROVE InOnePlace(d)' /\ SoloAtWork(d)'
  <2>1. NoRoomOf(s) /\ InOnePlace(d)
    BY <1>1, <1>6, ReaderFacts DEF Solo, SoloAtWork
  <2>2. NoRoomOf(s)'
    BY <1>2, <2>1 DEF NoRoomOf, SitsIn, SitsAt
  <2>3. InOnePlace(d)'
    BY <2>2 DEF InOnePlace, NoRoomOf, SitsIn, Seats
  <2>4. Gone(d)'
    <3>1. \A r \in listed : \A i \in Seats : conn[r][i] # d
      BY <2>1, LobbyAssumption
         DEF NoRoomOf, SitsIn, AtomicLobbyInv, ConnectionsMatch
    <3>2. \A k \in 1..Len(queue') : queue'[k] # d
      BY <1>6 DEF InQueue
    <3> QED BY <1>2, <3>1, <3>2 DEF Gone
  <2> QED BY <1>4, <1>6, <2>2, <2>3, <2>4 DEF SoloAtWork, Nowhere, EndPCs
<1>7. CASE ~InQueue(s) /\ UNCHANGED queue
  <2>1. ~InQueue(s)'
    BY <1>7 DEF InQueue
  <2> QED BY <1>1, <1>2, <1>3, <1>5, <1>6, <1>7, <2>1, PlainReader DEF Then, RoomPCs
<1>8. ASSUME NEW k \in 1..Len(queue), SessionOf[queue[k]] = s,
             queue' = SubSeq(queue, 1, k - 1) \o SubSeq(queue, k + 1, Len(queue))
      PROVE  AtomicLobbyInv'
  <2>1. InQueue(s)
    BY <1>8 DEF InQueue
  <2>2. \A c \in Clients : InQueue(SessionOf[c]) => SessionOf[c] = s
    BY <2>1, QueueShape, LobbyAssumption
  <2>3. Len(queue') = 0
    BY <1>8, ShortQueue, Zenon DEF LobbyInv, LobbyTypeOK, QueueIsShort
  <2>4. ~InQueue(s)' /\ \A j \in 1..Len(queue') : queue'[j] = d
    BY <2>3 DEF InQueue
  <2> QED BY <1>1, <1>2, <1>3, <1>5, <1>6, <2>2, <2>4, QueueStep
<1> QED BY <1>7, <1>8 DEF LeaveQueue

-----------------------------------------------------------------------------
(* Seats in rooms.                                                         *)

\* What a new room is, and that it was not in the registry.
LEMMA NewRoomEffect ==
  ASSUME LobbyTypeOK, NEW r \in Rooms, NEW p \in [Seats -> MaybeClient], NewRoom(r, p)
  PROVE  /\ r \notin listed /\ listed' = listed \cup {r}
         /\ seats'[r] = p /\ conn'[r] = p /\ phase'[r] = "waiting"
         /\ \A q \in listed : /\ q # r /\ seats'[q] = seats[q] /\ conn'[q] = conn[q]
                             /\ phase'[q] = phase[q]
BY DEF NewRoom, Reached, LobbyTypeOK

\* A new room is one more place for those who sit in it, and for nobody else.
LEMMA NewRoomPlaces ==
  ASSUME LobbyTypeOK, NEW r \in Rooms, NEW p \in [Seats -> MaybeClient], NewRoom(r, p),
         NEW c \in Clients
  PROVE  LET s == SessionOf[c]
             there(i) == p[i] # NoClient /\ SessionOf[p[i]] = s
         IN /\ there(0) \/ there(1) =>
                 (NoRoomOf(s) /\ ~(there(0) /\ there(1)) /\ ~InQueue(s)' => InOnePlace(c)')
            /\ ~there(0) /\ ~there(1) =>
                 ((InQueue(s)' <=> InQueue(s)) => SamePlace(c))
            /\ \A i \in Seats : SitsAt(s, r, i)' <=> there(i)
<1> DEFINE s == SessionOf[c]
           there(i) == p[i] # NoClient /\ SessionOf[p[i]] = s
<1>1. /\ r \notin listed /\ listed' = listed \cup {r} /\ seats'[r] = p
      /\ \A q \in listed : q # r /\ seats'[q] = seats[q]
      /\ listed \subseteq Rooms
  BY NewRoomEffect DEF LobbyTypeOK
<1>2. \A q \in listed : SitsIn(s, q)' <=> SitsIn(s, q)
  BY <1>1 DEF SitsIn, SitsAt
<1>3. \A i \in Seats : SitsAt(s, r, i)' <=> there(i)
  BY <1>1 DEF SitsAt
<1>4. SitsIn(s, r)' <=> there(0) \/ there(1)
  BY <1>3 DEF SitsIn, Seats
<1>5. ASSUME NoRoomOf(s), ~(there(0) /\ there(1)), ~InQueue(s)' PROVE InOnePlace(c)'
  <2>1. \A q \in listed' : SitsIn(s, q)' => q = r
    BY <1>1, <1>2, <1>5 DEF NoRoomOf
  <2>2. ~(SitsAt(s, r, 0)' /\ SitsAt(s, r, 1)')
    BY <1>3, <1>5 DEF Seats
  <2>3. ASSUME NEW q \in listed', SitsAt(s, q, 0)', SitsAt(s, q, 1)' PROVE FALSE
    BY <2>1, <2>2, <2>3 DEF SitsIn, Seats
  <2> QED BY <1>5, <2>1, <2>3 DEF InOnePlace
<1>6. ASSUME ~there(0), ~there(1), InQueue(s)' <=> InQueue(s) PROVE SamePlace(c)
  BY <1>1, <1>2, <1>4, <1>6 DEF SamePlace
<1> QED BY <1>3, <1>5, <1>6

\* A match, and a room that waits for its second player.
LEMMA NewRoomStep ==
  ASSUME LobbyInv, LobbyInv', AtomicLobbyInv, NEW d \in Clients, NEW r \in Rooms,
         JoinMatched(d, r) \/ CreateRoom(d, r)
  PROVE  AtomicLobbyInv'
<1> DEFINE g == Read(d)
           s == SessionOf[d]
<1>0. g \in Goroutines /\ LobbyTypeOK /\ ~Rests(g) /\ go[g].pc \in {"join", "create"}
  BY GoroutineNames DEF JoinMatched, CreateRoom, At, Busy, Rests, LobbyInv
<1>1. Alone(g) /\ LobbyTypeOK'
  BY <1>0, WhoIsAlone DEF AtomicLobbyInv, LobbyInv
<1>2. UNCHANGED <<hub, hubJob, closed, clientState, timedOut>>
  BY DEF JoinMatched, CreateRoom, hubVars, queueVars
<1>3. PICK p \in [Seats -> MaybeClient], pc \in {"begin", "wait"} :
        /\ NewRoom(r, p) /\ Goto(g, pc, r, 0)
        /\ \/ /\ pc = "begin" /\ p[1] = d /\ p[0] \in Clients
              /\ queue = <<p[0]>> /\ queue' = <<>> /\ SessionOf[p[0]] # s
           \/ /\ pc = "wait" /\ p[0] = d /\ p[1] = NoClient /\ queue' = queue
  <2>1. CASE JoinMatched(d, r)
    <3>1. PICK q \in Clients : queue = <<q>> /\ Head(queue) = q /\ SessionOf[q] # s
      BY <2>1, QueueShape, LobbyAssumption DEF JoinMatched
    <3> DEFINE p == [i \in Seats |-> IF i = 0 THEN Head(queue) ELSE d]
    <3>2. p \in [Seats -> MaybeClient] /\ p[1] = d /\ p[0] = q
      BY <3>1 DEF Seats, MaybeClient
    <3>3. queue' = <<>>
      BY <2>1, <3>1 DEF JoinMatched
    <3>4. NewRoom(r, p) /\ Goto(g, "begin", r, 0)
      BY <2>1 DEF JoinMatched
    <3> HIDE DEF p
    <3> QED BY <3>1, <3>2, <3>3, <3>4
  <2>2. CASE CreateRoom(d, r)
    <3> DEFINE p == [i \in Seats |-> IF i = 0 THEN d ELSE NoClient]
    <3>1. p \in [Seats -> MaybeClient] /\ p[0] = d /\ p[1] = NoClient
      BY DEF Seats, MaybeClient
    <3>2. NewRoom(r, p) /\ Goto(g, "wait", r, 0) /\ queue' = queue
      BY <2>2 DEF CreateRoom, queueVars
    <3> HIDE DEF p
    <3> QED BY <3>1, <3>2
  <2> QED BY <2>1, <2>2
<1>4. /\ r \notin listed /\ listed' = listed \cup {r}
      /\ seats'[r] = p /\ conn'[r] = p /\ phase'[r] = "waiting"
      /\ \A q \in listed : q # r /\ seats'[q] = seats[q] /\ conn'[q] = conn[q]
                          /\ phase'[q] = phase[q]
  BY <1>0, <1>3, NewRoomEffect
<1>5. /\ go'[g].pc = pc /\ RoomOf(g)' = r /\ SeatIn(g)' = 0
      /\ \A h \in Goroutines \ {g} : go'[h] = go[h]
      /\ Others(g)
      /\ \A c \in Clients : At(Read(c), "new")' => At(Read(c), "new")
  BY <1>0, <1>3, ReaderGoes
<1>6. EndsArePending'
  <2>1. \A q \in listed : phase[q] # "finished"
    BY <1>0, <1>1, NoneFinished DEF AtomicLobbyInv
  <2> QED BY <1>4, <2>1 DEF EndsArePending, Ends
<1>7. ConnectionsMatch'
  BY <1>4 DEF AtomicLobbyInv, ConnectionsMatch, SitsAt
<1>8. Knows(g)'
  <2>1. ReaderKnows(d)'
    BY <1>3, <1>4, <1>5, LobbyAssumption DEF ReaderKnows, EndPCs
  <2> QED BY <1>4, <1>5, <2>1, GoroutineNames DEF Knows, Told, At, RoomPCs
<1>9. ASSUME OnlyClient(d) PROVE Solo(d)'
  <2>1. ~closed'[d] /\ ~InQueue(s) /\ NoRoomOf(s)
    BY <1>0, <1>2, <1>9, ReaderFacts DEF Solo, SoloAtRest, SoloAtWork, At, Nowhere
  <2>2. ~InQueue(s)'
    BY <1>3, <2>1 DEF InQueue
  <2>3. InOnePlace(d)'
    BY <1>0, <1>3, <2>1, <2>2, NewRoomPlaces, LobbyAssumption
  <2>4. SoloAtRest(d)' /\ SoloAtWork(d)'
    BY <1>5, <2>1 DEF SoloAtRest, SoloAtWork, At, EndPCs
  <2> QED BY <2>3, <2>4 DEF Solo
<1>10. ASSUME NEW c \in Clients, OnlyClient(c), g # Read(c)
       PROVE  InOnePlace(c)' /\ SoloAtRest(c)'
  <2>1. SessionOf[c] # s /\ c # d /\ ~Owed(c) /\ go'[Read(c)] = go[Read(c)]
    BY <1>0, <1>1, <1>5, <1>10, GoroutineNames, NothingOwed DEF OnlyClient
  <2>2. InOnePlace(c) /\ SoloAtRest(c)
    BY <1>10 DEF AtomicLobbyInv, Solo
  <2>3. CASE pc = "begin" /\ p[0] = c
    <3>1. InQueue(SessionOf[c]) /\ ~InQueue(SessionOf[c])' /\ queue[1] = c /\ Len(queue) = 1
      BY <1>3, <2>3 DEF InQueue
    <3>2. NoRoomOf(SessionOf[c])
      BY <2>2, <3>1 DEF InOnePlace
    <3>3. InOnePlace(c)' /\ SitsAt(SessionOf[c], r, 0)'
      BY <1>0, <1>3, <2>1, <2>3, <3>1, <3>2, NewRoomPlaces, LobbyAssumption DEF Seats
    <3>4. ~At(Read(c), "new") /\ ~At(Read(c), "done")
      BY <2>2, <3>1 DEF SoloAtRest, Nowhere, Gone
    <3>5. ASSUME At(Read(c), "idle") PROVE Owes(g, c)'
      <4>1. clientState[c] = "waiting"
        BY <2>1, <2>2, <3>1, <3>5 DEF SoloAtRest, Agrees, Waits
      <4>2. Full(r)'
        BY <1>3, <1>4, <2>3, LobbyAssumption DEF Full
      <4> QED BY <1>2, <1>4, <1>5, <2>3, <3>3, <4>1, <4>2 DEF Owes
    <3> QED BY <1>0, <1>2, <2>1, <2>2, <3>3, <3>4, <3>5 DEF SoloAtRest, At, Owed
  <2>4. CASE ~(pc = "begin" /\ p[0] = c)
    <3>1. \A i \in Seats : p[i] # NoClient => p[i] # c /\ SessionOf[p[i]] # SessionOf[c]
      BY <1>3, <1>10, <2>1, <2>4 DEF OnlyClient, Seats
    <3>2. InQueue(SessionOf[c])' <=> InQueue(SessionOf[c])
      <4>1. CASE queue' = queue
        BY <4>1 DEF InQueue
      <4>2. CASE queue = <<p[0]>> /\ queue' = <<>> /\ p[0] \in Clients
        <5>1. SessionOf[p[0]] # SessionOf[c]
          BY <3>1, <4>2, LobbyAssumption DEF Seats
        <5>2. ~InQueue(SessionOf[c])
          BY <4>2, <5>1 DEF InQueue
        <5>3. ~InQueue(SessionOf[c])'
          BY <4>2 DEF InQueue
        <5> QED BY <5>2, <5>3
      <4> QED BY <1>3, <4>1, <4>2
    <3>3. SamePlace(c)
      BY <1>0, <1>3, <3>1, <3>2, NewRoomPlaces DEF Seats
    <3>4. Gone(c) => Gone(c)'
      <4>1. \A q \in listed' : \A i \in Seats :
              conn'[q][i] = c => q \in listed /\ conn[q][i] = c
        BY <1>4, <3>1, LobbyAssumption
      <4>2. \A k \in 1..Len(queue') : queue' = queue
        BY <1>3
      <4> QED BY <4>1, <4>2 DEF Gone
    <3> QED BY <1>0, <1>1, <1>2, <2>1, <2>2, <3>3, <3>4, RestStays
  <2> QED BY <2>3, <2>4
<1>11. \A c \in Clients : OnlyClient(c) /\ g = Read(c) => Solo(c)'
  BY <1>9, GoroutineNames
<1> HIDE DEF g
<1> QED BY <1>0, <1>1, <1>2, <1>5, <1>6, <1>7, <1>8, <1>10, <1>11, Assemble

\* The second seat of a room, if nobody has it yet.
LEMMA AddPlayerStep ==
  ASSUME LobbyInv, LobbyInv', AtomicLobbyInv, NEW d \in Clients, AddPlayer(d)
  PROVE  AtomicLobbyInv'
<1> DEFINE g == Read(d)
           s == SessionOf[d]
           r == RoomOf(g)
<1>0. g \in Goroutines /\ LobbyTypeOK /\ ~Rests(g) /\ go[g].pc = "sit"
  BY GoroutineNames DEF AddPlayer, At, Busy, Rests, LobbyInv
<1>1. Alone(g) /\ LobbyTypeOK'
  BY <1>0, WhoIsAlone DEF AtomicLobbyInv, LobbyInv
<1>2. UNCHANGED <<hub, hubJob, closed, clientState, queue, timedOut, phase, listed>>
  BY DEF AddPlayer, hubVars, queueVars
<1>3. /\ r \in listed /\ r \in Rooms /\ listed \subseteq Rooms
      /\ OnlyClient(d) => ~closed[d] /\ clientState[d] = "lobby" /\ Nowhere(d)
  BY <1>0, ReaderFacts DEF RoomPCs, LobbyTypeOK, Solo, SoloAtRest, SoloAtWork, At
<1>4. CASE Rest(g) /\ UNCHANGED <<seats, conn>>
  <2>1. Goto(g, "idle", NoRoom, 0)
    BY <1>4 DEF Rest
  <2>2. go'[g].pc = "idle"
    BY <1>0, <2>1, ReaderGoes
  <2>3. ReaderKnows(d)' /\ SoloAtWork(d)'
    BY <2>2 DEF ReaderKnows, SoloAtWork, EndPCs
  <2>4. OnlyClient(d) => Agrees(d)'
    BY <1>2, <1>3, <1>4, NowhereAgrees, PlainPlace
  <2> QED BY <1>0, <1>2, <1>4, <2>1, <2>3, <2>4, PlainReader DEF RoomPCs
<1>5. CASE /\ ~Full(r)
           /\ seats' = [seats EXCEPT ![r][1] = d]
           /\ conn' = [conn EXCEPT ![r][1] = d]
           /\ Then(g, "beginRoom")
  <2>1. seats[r][0] \in Clients /\ seats[r][1] = NoClient
    BY <1>0, <1>3, <1>5
       DEF LobbyInv, FirstSeatTaken, Known, Reached, Full, LobbyTypeOK, MaybeClient, Seats
  <2>2. /\ seats'[r][0] = seats[r][0] /\ seats'[r][1] = d
        /\ conn'[r][0] = conn[r][0] /\ conn'[r][1] = d
        /\ \A q \in Rooms \ {r} : seats'[q] = seats[q] /\ conn'[q] = conn[q]
    BY <1>0, <1>3, <1>5 DEF LobbyTypeOK, Seats
  <2>3. /\ go'[g].pc = "beginRoom" /\ RoomOf(g)' = r
        /\ \A h \in Goroutines \ {g} : go'[h] = go[h]
        /\ Others(g)
        /\ \A c \in Clients : At(Read(c), "new")' => At(Read(c), "new")
    BY <1>0, <1>5, ReaderGoes DEF Then
  <2>4. EndsArePending'
    BY <1>0, <1>1, <1>2, NoneFinished DEF EndsArePending, Ends, AtomicLobbyInv
  <2>5. ConnectionsMatch'
    <3>1. ASSUME NEW q \in listed, NEW i \in Seats, conn'[q][i] # NoClient
          PROVE  seats'[q][i] # NoClient /\ SessionOf[seats'[q][i]] = SessionOf[conn'[q][i]]
      <4>1. CASE q = r /\ i = 1
        BY <2>2, <4>1, LobbyAssumption
      <4>2. CASE ~(q = r /\ i = 1)
        <5>1. conn'[q][i] = conn[q][i] /\ seats'[q][i] = seats[q][i]
          BY <1>3, <2>2, <4>2 DEF Seats
        <5> QED BY <3>1, <5>1 DEF AtomicLobbyInv, ConnectionsMatch, SitsAt
      <4> QED BY <4>1, <4>2
    <3> QED BY <1>2, <3>1 DEF ConnectionsMatch, SitsAt
  <2>6. Knows(g)'
    <3>1. ReaderKnows(d)'
      BY <2>2, <2>3 DEF ReaderKnows, EndPCs
    <3> QED BY <1>2, <1>3, <2>3, <3>1, GoroutineNames DEF Knows, Told, At, RoomPCs
  <2>7. \A c \in Clients, q \in Rooms, i \in Seats : SessionOf[c] # s =>
          (SitsAt(SessionOf[c], q, i)' <=> SitsAt(SessionOf[c], q, i))
    BY <2>1, <2>2, LobbyAssumption DEF SitsAt, Seats
  <2>8. ASSUME OnlyClient(d) PROVE Solo(d)'
    <3>1. \A q \in listed : SitsIn(s, q)' => q = r
      BY <1>3, <2>2, <2>8 DEF Nowhere, NoRoomOf, SitsIn, SitsAt
    <3>2. ~SitsAt(s, r, 0)'
      BY <1>3, <2>2, <2>3, <2>8 DEF Nowhere, NoRoomOf, SitsIn, SitsAt, Seats
    <3>3. ~InQueue(s)'
      BY <1>2, <1>3, <2>8 DEF Nowhere, InQueue
    <3>4. InOnePlace(d)'
      BY <1>2, <2>3, <3>1, <3>2, <3>3 DEF InOnePlace, SitsIn, Seats
    <3>5. SoloAtRest(d)' /\ SoloAtWork(d)'
      BY <1>2, <1>3, <2>3, <2>8 DEF SoloAtRest, SoloAtWork, At, EndPCs
    <3> QED BY <3>4, <3>5 DEF Solo
  <2>9. ASSUME NEW c \in Clients, OnlyClient(c), g # Read(c)
        PROVE  InOnePlace(c)' /\ SoloAtRest(c)'
    <3>1. SessionOf[c] # s /\ c # d /\ ~Owed(c) /\ go'[Read(c)] = go[Read(c)]
      BY <1>0, <1>1, <2>3, <2>9, GoroutineNames, NothingOwed DEF OnlyClient
    <3>2. InOnePlace(c) /\ SoloAtRest(c)
      BY <2>9 DEF AtomicLobbyInv, Solo
    <3>3. \A q \in Rooms : SitsIn(SessionOf[c], q)' <=> SitsIn(SessionOf[c], q)
      BY <2>7, <3>1 DEF SitsIn
    <3>4. InQueue(SessionOf[c])' <=> InQueue(SessionOf[c])
      BY <1>2 DEF InQueue
    <3>5. Gone(c) => Gone(c)'
      <4>1. ASSUME NEW q \in listed, NEW i \in Seats, conn'[q][i] = c
            PROVE  conn[q][i] = c
        BY <1>3, <2>2, <3>1, <4>1 DEF Seats
      <4> QED BY <1>2, <4>1 DEF Gone
    <3>6. CASE SitsIn(SessionOf[c], r)
      <4>1. SitsAt(SessionOf[c], r, 0) /\ SitsAt(SessionOf[c], r, 0)'
        BY <1>3, <2>1, <2>2, <2>3, <3>1, <3>6 DEF SitsIn, SitsAt, Seats
      <4>2. InOnePlace(c)'
        BY <1>2, <1>3, <2>7, <3>1, <3>2, <3>3, <3>4 DEF InOnePlace, NoRoomOf, Seats
      <4>3. ~At(Read(c), "new")
        BY <1>3, <3>2, <3>6 DEF SoloAtRest, Nowhere, NoRoomOf
      <4>4. ASSUME At(Read(c), "idle") PROVE Owes(g, c)'
        <5>1. Waits(SessionOf[c])
          BY <1>3, <1>5, <3>2, <3>6, SoloInRoom
        <5>2. clientState[c] = "waiting"
          BY <3>1, <3>2, <4>4, <5>1 DEF SoloAtRest, Agrees
        <5>3. Full(r)'
          BY <2>1, <2>2, <2>3, LobbyAssumption DEF Full
        <5> QED BY <1>2, <1>3, <2>3, <4>1, <5>2, <5>3 DEF Owes
      <4> QED BY <1>0, <1>2, <3>1, <3>2, <3>5, <4>2, <4>3, <4>4
              DEF SoloAtRest, At, Owed
    <3>7. CASE ~SitsIn(SessionOf[c], r)
      <4>1. SamePlace(c)
        BY <1>2, <2>2, <3>3, <3>4, <3>7 DEF SamePlace
      <4> QED BY <1>0, <1>1, <1>2, <3>1, <3>2, <3>5, <4>1, RestStays
    <3> QED BY <3>6, <3>7
  <2>10. \A c \in Clients : OnlyClient(c) /\ g = Read(c) => Solo(c)'
    BY <2>8, GoroutineNames
  <2> HIDE DEF g
  <2> QED BY <1>0, <1>1, <1>2, <2>3, <2>4, <2>5, <2>6, <2>9, <2>10, Assemble
<1> QED BY <1>4, <1>5 DEF AddPlayer

-----------------------------------------------------------------------------
(* Rooms that go.                                                          *)

\* A room leaves the registry and takes nobody's place but that of those in it.
LEMMA RoomGoes ==
  ASSUME LobbyTypeOK, NEW r \in Rooms, NEW c \in Clients,
         listed' = listed \ {r}, UNCHANGED <<queue, seats, conn>>
  PROVE  /\ InOnePlace(c) => InOnePlace(c)'
         /\ ~SitsIn(SessionOf[c], r) => SamePlace(c)
         /\ InOnePlace(c) /\ r \in listed /\ SitsIn(SessionOf[c], r) => Nowhere(c)'
         /\ Gone(c) => Gone(c)'
         /\ Nowhere(c) => Nowhere(c)'
<1> DEFINE s == SessionOf[c]
<1>1. /\ \A q \in Rooms : SitsIn(s, q)' <=> SitsIn(s, q)
      /\ \A q \in Rooms, i \in Seats : SitsAt(s, q, i)' <=> SitsAt(s, q, i)
      /\ InQueue(s)' <=> InQueue(s)
  BY DEF SitsIn, SitsAt, InQueue
<1>2. listed \subseteq Rooms /\ 0 \in Seats /\ 1 \in Seats
  BY DEF LobbyTypeOK, Seats
<1>3. InOnePlace(c) => InOnePlace(c)'
  BY <1>1, <1>2 DEF InOnePlace, NoRoomOf
<1>4. ~SitsIn(s, r) => SamePlace(c)
  BY <1>1, <1>2 DEF SamePlace
<1>5. InOnePlace(c) /\ r \in listed /\ SitsIn(s, r) => Nowhere(c)'
  BY <1>1, <1>2 DEF InOnePlace, NoRoomOf, Nowhere
<1>6. Nowhere(c) => Nowhere(c)'
  BY <1>1, <1>2 DEF NoRoomOf, Nowhere
<1> QED BY <1>3, <1>4, <1>5, <1>6 DEF Gone

\* A lost connection takes the room with it where its player was alone.
LEMMA DropRoomStep ==
  ASSUME LobbyInv, LobbyInv', AtomicLobbyInv, NEW d \in Clients, DropRoom(d)
  PROVE  AtomicLobbyInv'
<1> DEFINE g == Read(d)
           s == SessionOf[d]
           r == RoomOf(g)
<1>0. g \in Goroutines /\ LobbyTypeOK /\ ~Rests(g) /\ go[g].pc = "drop"
  BY GoroutineNames DEF DropRoom, At, Busy, Rests, LobbyInv
<1>1. Alone(g) /\ LobbyTypeOK'
  BY <1>0, WhoIsAlone DEF AtomicLobbyInv, LobbyInv
<1>2. /\ UNCHANGED <<hub, hubJob, closed, clientState, queue, timedOut, seats, conn, phase>>
      /\ listed' = listed \ {r}
  BY DEF DropRoom, hubVars, queueVars
<1>3. /\ r \in listed /\ r \in Rooms /\ SeatIn(g) \in Seats
      /\ ~Full(r) /\ SitsAt(s, r, SeatIn(g))
      /\ OnlyClient(d) => ~closed[d] /\ Gone(d) /\ InOnePlace(d)
  BY <1>0, ReaderFacts DEF ReaderKnows, RoomPCs, LobbyTypeOK, Solo, SoloAtRest, SoloAtWork, At
<1>4. \A c \in Clients : SitsIn(SessionOf[c], r) => SessionOf[c] = s
  <2>1. seats[r][0] # NoClient
    BY <1>3 DEF LobbyInv, FirstSeatTaken, Known, Reached
  <2>2. seats[r][1] = NoClient
    BY <1>3, <2>1 DEF Full
  <2>3. SeatIn(g) = 0
    BY <1>3, <2>2 DEF SitsAt, Seats
  <2> QED BY <1>3, <2>2, <2>3 DEF SitsIn, SitsAt, Seats
<1>5. /\ go'[g].pc = "unregister"
      /\ \A h \in Goroutines \ {g} : go'[h] = go[h]
      /\ Others(g)
      /\ \A c \in Clients : At(Read(c), "new")' => At(Read(c), "new")
  BY <1>0, ReaderGoes DEF DropRoom
<1>6. EndsArePending'
  BY <1>0, <1>1, <1>2, NoneFinished DEF EndsArePending, Ends, AtomicLobbyInv
<1>7. ConnectionsMatch'
  BY <1>2 DEF AtomicLobbyInv, ConnectionsMatch, SitsAt
<1>8. Knows(g)'
  <2>1. ReaderKnows(d)'
    BY <1>5 DEF ReaderKnows, EndPCs
  <2> QED BY <1>5, <2>1, GoroutineNames DEF Knows, Told, At, RoomPCs
<1>9. ASSUME OnlyClient(d) PROVE Solo(d)'
  <2>1. InOnePlace(d)' /\ Gone(d)'
    BY <1>0, <1>2, <1>3, <1>9, RoomGoes
  <2> QED BY <1>2, <1>3, <1>5, <1>9, <2>1 DEF Solo, SoloAtRest, SoloAtWork, At, EndPCs
<1>10. ASSUME NEW c \in Clients, OnlyClient(c), g # Read(c)
       PROVE  InOnePlace(c)' /\ SoloAtRest(c)'
  <2>1. SessionOf[c] # s /\ c # d /\ ~Owed(c) /\ go'[Read(c)] = go[Read(c)]
    BY <1>0, <1>1, <1>5, <1>10, GoroutineNames, NothingOwed DEF OnlyClient
  <2>2. InOnePlace(c) /\ SoloAtRest(c)
    BY <1>10 DEF AtomicLobbyInv, Solo
  <2>3. SamePlace(c) /\ (Gone(c) => Gone(c)')
    BY <1>0, <1>2, <1>3, <1>4, <2>1, RoomGoes
  <2> QED BY <1>0, <1>1, <1>2, <2>1, <2>2, <2>3, RestStays
<1>11. \A c \in Clients : OnlyClient(c) /\ g = Read(c) => Solo(c)'
  BY <1>9, GoroutineNames
<1> HIDE DEF g
<1> QED BY <1>0, <1>1, <1>2, <1>5, <1>6, <1>7, <1>8, <1>10, <1>11, Assemble

\* The room of a game that is over: its players have been told.
LEMMA RemoveRoomStep ==
  ASSUME LobbyInv, LobbyInv', AtomicLobbyInv, NEW g \in Goroutines, RemoveRoom(g)
  PROVE  AtomicLobbyInv'
<1> DEFINE r == RoomOf(g)
<1>0. LobbyTypeOK /\ ~Rests(g) /\ go[g].pc = "remove"
  BY DEF RemoveRoom, At, Busy, Rests, LobbyInv
<1>1. Alone(g) /\ LobbyTypeOK' /\ Knows(g) /\ r \in listed /\ r \in Rooms
  BY <1>0, WhoIsAlone
     DEF AtomicLobbyInv, JobsKnow, Knows, RoomPCs, LobbyInv, LobbyTypeOK
<1>2. /\ UNCHANGED <<hub, hubJob, closed, clientState, queue, timedOut, seats, conn, phase>>
      /\ listed' = listed \ {r}
  BY DEF RemoveRoom, hubVars, queueVars
<1>3. /\ go'[g].pc = "idle"
      /\ \A h \in Goroutines \ {g} : go'[h] = go[h]
      /\ Others(g)
      /\ \A c \in Clients : At(Read(c), "new")' => At(Read(c), "new")
  BY <1>0, JobGoes DEF RemoveRoom, Rest
<1>4. EndsArePending'
  <2>1. ASSUME NEW q \in listed', phase[q] = "finished" PROVE FALSE
    <3>1. PICK h \in Goroutines : RoomOf(h) = q /\ go[h].pc \in {"reset", "remove"}
      BY <1>2, <2>1 DEF AtomicLobbyInv, EndsArePending, Ends
    <3>2. h = g
      BY <1>1, <3>1 DEF Alone, Busy
    <3> QED BY <1>2, <3>1, <3>2
  <2> QED BY <1>2, <2>1 DEF EndsArePending, Ends
<1>5. ConnectionsMatch'
  BY <1>2 DEF AtomicLobbyInv, ConnectionsMatch, SitsAt
<1>6. Knows(g)'
  BY <1>3 DEF Knows, ReaderKnows, GraceKnows, GameKnows, Told, At, RoomPCs, EndPCs
<1>7. ASSUME NEW c \in Clients, OnlyClient(c), SitsIn(SessionOf[c], r),
             clientState[c] = "lobby"
      PROVE  Nowhere(c)' /\ Agrees(c)'
  <2>1. Nowhere(c)'
    BY <1>0, <1>1, <1>2, <1>7, RoomGoes DEF AtomicLobbyInv, Solo
  <2>2. (clientState[c] = "lobby" /\ Nowhere(c))' => Agrees(c)'
    BY NowhereAgrees, PTL
  <2> QED BY <1>2, <1>7, <2>1, <2>2
<1>8. ASSUME NEW c \in Clients, OnlyClient(c), g = Read(c) PROVE Solo(c)'
  <2>1. ~closed[c] /\ clientState[c] = "lobby" /\ InOnePlace(c) /\ SitsIn(SessionOf[c], r)
    BY <1>0, <1>8, ReaderFacts
       DEF ReaderKnows, Solo, SoloAtRest, SoloAtWork, EndPCs, At
  <2>2. Agrees(c)' /\ InOnePlace(c)'
    BY <1>0, <1>1, <1>2, <1>7, <1>8, <2>1, RoomGoes
  <2> QED BY <1>2, <1>3, <1>8, <2>1, <2>2 DEF Solo, SoloAtRest, SoloAtWork, At, EndPCs
<1>9. ASSUME NEW c \in Clients, OnlyClient(c), g # Read(c)
      PROVE  InOnePlace(c)' /\ SoloAtRest(c)'
  <2>1. InOnePlace(c) /\ SoloAtRest(c) /\ go'[Read(c)] = go[Read(c)]
    BY <1>3, <1>9, GoroutineNames DEF AtomicLobbyInv, Solo
  <2>2. InOnePlace(c)' /\ (Gone(c) => Gone(c)')
    BY <1>0, <1>1, <1>2, <2>1, RoomGoes
  <2>3. CASE SitsIn(SessionOf[c], r)
    <3>1. ~At(Read(c), "new")
      BY <1>1, <2>1, <2>3 DEF SoloAtRest, Nowhere, NoRoomOf
    <3>2. At(Read(c), "idle") => clientState[c] = "lobby"
      BY <1>0, <1>1, <1>9, <2>3 DEF Knows, Told, At
    <3>3. At(Read(c), "idle") => Agrees(c)'
      BY <1>7, <1>9, <2>3, <3>2
    <3> QED BY <1>2, <2>1, <2>2, <3>1, <3>3 DEF SoloAtRest, At
  <2>4. CASE ~SitsIn(SessionOf[c], r)
    <3>1. SamePlace(c)
      BY <1>0, <1>1, <1>2, <2>4, RoomGoes
    <3>2. ~Owed(c)
      <4>1. ~Owes(g, c)
        BY <1>0, <2>4 DEF Owes, Told, At
      <4> QED BY <1>1, <4>1 DEF Alone, Owed, Late, Owes, Told, At, Busy, Rests
    <3> QED BY <1>0, <1>1, <1>2, <2>1, <2>2, <3>1, <3>2, RestStays
  <2> QED BY <2>3, <2>4
<1> QED BY <1>0, <1>1, <1>2, <1>3, <1>4, <1>5, <1>6, <1>8, <1>9, Assemble

-----------------------------------------------------------------------------
(* The hub's goroutine and the clean-up of the queue.                      *)

\* A goroutine that has nothing to do knows all it has to.
LEMMA IdleJob ==
  ASSUME NEW h \in Goroutines, Rests(h), Knows(h), go'[h] = go[h]
  PROVE  Knows(h)'
<1>1. /\ go[h].pc \notin RoomPCs \cup EndPCs \cup {"wait"}
      /\ \A c \in Clients : h = Read(c) => go[h].pc \in {"new", "idle", "done", "close"}
      /\ \A c \in Clients : h = Grace(c) => go[h].pc \in {"idle", "sleep"}
      /\ \A r \in Rooms : h = Game(r) => go[h].pc = "idle"
  BY IdleKnows
<1> QED BY <1>1 DEF Knows, Told, RoomPCs, EndPCs, ReaderKnows, GraceKnows, GameKnows, At

\* A step while all goroutines rest, and that leaves them and the rooms alone.
LEMMA SteadyStep ==
  ASSUME AtomicLobbyInv, \A g \in Goroutines : Rests(g),
         UNCHANGED <<go, seats, conn, phase, listed>>,
         OneAtATime', HubHoldsItsOwn',
         \A c \in Clients : OnlyClient(c) /\ Late(c)' => Nowhere(c)',
         \A c \in Clients : Gone(c) => Gone(c)',
         \A c \in Clients : OnlyClient(c) => InOnePlace(c)' /\ SoloAtRest(c)'
  PROVE  AtomicLobbyInv'
<1>1. EndsArePending'
  BY DEF AtomicLobbyInv, EndsArePending, Ends, RoomOf
<1>2. ConnectionsMatch'
  BY DEF AtomicLobbyInv, ConnectionsMatch, SitsAt
<1>3. JobsKnow'
  BY IdleJob DEF AtomicLobbyInv, JobsKnow
<1>4. ASSUME NEW c \in Clients, OnlyClient(c) PROVE SoloAtWork(c)'
  <2>1. CASE ~Busy(Read(c))
    <3>1. ~Busy(Read(c))'
      BY <2>1 DEF Busy
    <3>2. ~Busy(Read(c))' => SoloAtWork(c)'
      BY IdleWork, PTL
    <3> QED BY <3>1, <3>2
  <2>2. CASE At(Read(c), "close")
    <3>1. At(Read(c), "close")' /\ Gone(c)'
      BY <1>4, <2>2 DEF AtomicLobbyInv, Solo, SoloAtWork, At
    <3>2. (At(Read(c), "close") /\ Gone(c))' => SoloAtWork(c)'
      BY CloseWork, PTL
    <3> QED BY <3>1, <3>2
  <2> QED BY <2>1, <2>2, GoroutineNames DEF Rests
<1>5. \A c \in Clients : OnlyClient(c)' <=> OnlyClient(c)
  BY DEF OnlyClient
<1> QED BY <1>1, <1>2, <1>3, <1>4, <1>5 DEF AtomicLobbyInv, Solo

\* What is at rest is owed nothing while nothing of the queue is cleaned up.
LEMMA NothingLate ==
  ASSUME timedOut = <<>>, \A g \in Goroutines : Rests(g)
  PROVE  \A c : ~Owed(c)
BY DEF Owed, Late, Owes, Told, At, Busy, Rests

\* The hub takes a new connection, and closes the one before it, or forgets one.
LEMMA HubStep ==
  ASSUME LobbyInv, LobbyInv', AtomicLobbyInv, Hub
  PROVE  AtomicLobbyInv'
<1>1. /\ hubJob' = HubIdle
      /\ UNCHANGED <<clientState, queue, timedOut, seats, conn, phase, listed, go>>
  BY DEF Hub, HubRegister, HubUnregister, queueVars, roomVars
<1>2. hubJob # HubIdle
  BY DEF Hub, HubRegister, HubUnregister, HubIdle
<1>3. timedOut = <<>> /\ \A g \in Goroutines : Rests(g)
  BY <1>2 DEF AtomicLobbyInv, OneAtATime
<1>4. OneAtATime'
  BY <1>1, <1>3 DEF AtomicLobbyInv, OneAtATime, Busy, Rests, At
<1>5. HubHoldsItsOwn' /\ \A c \in Clients : OnlyClient(c) /\ closed'[c] => closed[c]
  <2> DEFINE d == hubJob.client
             s == SessionOf[d]
  <2>1. hub \in [Sessions -> MaybeClient] /\ closed \in [Clients -> BOOLEAN]
    BY DEF LobbyInv, LobbyTypeOK
  <2>2. CASE HubRegister
    <3>1. /\ d \in Clients /\ s \in Sessions /\ ~At(Read(d), "new")
          /\ hubJob = [op |-> "register", client |-> d]
      BY <2>2, LobbyAssumption
         DEF HubRegister, AtomicLobbyInv, HubHoldsItsOwn, LobbyInv, LobbyTypeOK
    <3>2. /\ hub' = [hub EXCEPT ![s] = d]
          /\ closed' = [c \in Clients |-> closed[c] \/ c = hub[s]]
      BY <2>2 DEF HubRegister
    <3>3. hub[s] # d /\ (hub[s] # NoClient => SessionOf[hub[s]] = s)
      BY <3>1 DEF AtomicLobbyInv, HubHoldsItsOwn
    <3>4. ASSUME NEW c \in Clients, OnlyClient(c), closed'[c] PROVE closed[c]
      BY <3>1, <3>2, <3>3, <3>4, LobbyAssumption DEF OnlyClient
    <3>5. HubHoldsItsOwn'
      BY <1>1, <2>1, <3>1, <3>2 DEF AtomicLobbyInv, HubHoldsItsOwn, HubIdle, At
    <3> QED BY <3>4, <3>5
  <2>3. CASE HubUnregister
    <3>1. \A x \in Sessions : hub'[x] = hub[x] \/ hub'[x] = NoClient
      BY <2>1, <2>3 DEF HubUnregister
    <3>2. UNCHANGED closed
      BY <2>3 DEF HubUnregister
    <3>3. HubHoldsItsOwn'
      BY <1>1, <3>1, LobbyAssumption DEF AtomicLobbyInv, HubHoldsItsOwn, HubIdle, At
    <3> QED BY <3>2, <3>3
  <2> QED BY <2>2, <2>3 DEF Hub
<1>6. ASSUME NEW c \in Clients, OnlyClient(c) PROVE InOnePlace(c)' /\ SoloAtRest(c)'
  <2>1. InOnePlace(c) /\ SoloAtRest(c) /\ ~Owed(c)
    BY <1>3, <1>6, NothingLate DEF AtomicLobbyInv, Solo
  <2>2. /\ InOnePlace(c)' /\ (Nowhere(c) => Nowhere(c)') /\ (Agrees(c) => Agrees(c)')
        /\ (Gone(c) => Gone(c)')
    BY <1>1, <2>1, PlainPlace DEF Gone
  <2> QED BY <1>1, <1>5, <1>6, <2>1, <2>2 DEF SoloAtRest, At
<1>7. \A c \in Clients : ~Late(c)' /\ (Gone(c) => Gone(c)')
  BY <1>1, <1>3 DEF Late, Gone
<1> QED BY <1>1, <1>3, <1>4, <1>5, <1>6, <1>7, SteadyStep

\* The clean-up takes whoever waits out of the queue.
LEMMA CleanUpStep ==
  ASSUME LobbyInv, LobbyInv', AtomicLobbyInv, Quiet, CleanUp
  PROVE  AtomicLobbyInv'
<1>1. UNCHANGED <<hub, hubJob, closed, clientState, seats, conn, phase, listed, go>>
  BY DEF CleanUp, hubVars, roomVars
<1>2. PICK k \in 1..Len(queue) :
        timedOut' = SubSeq(queue, 1, k) /\ queue' = SubSeq(queue, k + 1, Len(queue))
  BY DEF CleanUp
<1>3. queue \in Seq(Clients) /\ Len(queue) \in Nat
  BY LenProperties DEF LobbyInv, LobbyTypeOK
<1>4. PICK q \in Clients :
        /\ queue = <<q>> /\ Len(queue) = 1 /\ queue[1] = q
        /\ \A s \in Sessions : InQueue(s) <=> SessionOf[q] = s
  <2>1. Len(queue) # 0
    BY <1>2, <1>3
  <2>2. queue # <<>>
    BY <2>1
  <2> QED BY <2>2, QueueShape
<1>5. k = 1
  BY <1>4
<1>6. queue' = <<>> /\ timedOut' = <<q>>
  <2>1. queue' = SubSeq(queue, 2, 1) /\ timedOut' = SubSeq(queue, 1, 1)
    BY <1>2, <1>4, <1>5
  <2>2. queue' = <<>>
    BY <1>3, <2>1, SubSeqEmpty
  <2>3. timedOut' \in Seq(Clients) /\ Len(timedOut') = 1 /\ timedOut'[1] = queue[1]
    BY <1>3, <1>4, <2>1, SubSeqProperties
  <2> QED BY <1>4, <2>2, <2>3
<1>7. Len(timedOut') = 1 /\ Head(timedOut') = q /\ timedOut' # <<>>
  BY <1>6
<1>8. OneAtATime'
  BY <1>1, <1>7 DEF Quiet, OneAtATime, Busy, Rests, At
<1>9. HubHoldsItsOwn'
  BY <1>1 DEF AtomicLobbyInv, HubHoldsItsOwn, At
<1>10. \A s : ~InQueue(s)'
  BY <1>6 DEF InQueue
<1>11. ASSUME NEW c \in Clients, OnlyClient(c)
       PROVE  /\ InOnePlace(c)' /\ SoloAtRest(c)'
              /\ Late(c)' => Nowhere(c)'
  <2>1. InOnePlace(c) /\ SoloAtRest(c) /\ ~Owed(c)
    BY <1>11, NothingLate DEF AtomicLobbyInv, Solo, Quiet, Rests
  <2>2. Gone(c) => Gone(c)'
    BY <1>1, <1>6 DEF Gone
  <2>3. CASE c = q
    <3>1. NoRoomOf(SessionOf[c])
      BY <1>4, <2>1, <2>3, LobbyAssumption DEF InOnePlace
    <3>2. NoRoomOf(SessionOf[c])'
      BY <1>1, <3>1 DEF NoRoomOf, SitsIn, SitsAt
    <3>3. InOnePlace(c)' /\ Nowhere(c)'
      BY <1>10, <3>2 DEF InOnePlace, Nowhere, NoRoomOf, SitsIn, Seats
    <3>4. Owed(c)'
      BY <1>7, <2>3 DEF Owed, Late
    <3> QED BY <1>1, <2>1, <2>2, <3>3, <3>4 DEF SoloAtRest, At
  <2>4. CASE c # q
    <3>1. SessionOf[q] # SessionOf[c]
      BY <1>11, <2>4 DEF OnlyClient
    <3>2. SamePlace(c)
      BY <1>1, <1>4, <1>10, <3>1, LobbyAssumption DEF SamePlace, SitsIn, SitsAt
    <3>3. InOnePlace(c)' /\ SoloAtRest(c)'
      BY <1>1, <2>1, <2>2, <3>2, RestStays DEF LobbyInv
    <3>4. ~Late(c)'
      BY <1>7, <3>1 DEF Late
    <3> QED BY <3>3, <3>4
  <2> QED BY <2>3, <2>4
<1>12. \A c \in Clients : Gone(c) => Gone(c)'
  BY <1>1, <1>6 DEF Gone
<1> QED BY <1>1, <1>8, <1>9, <1>11, <1>12, SteadyStep DEF Quiet, Rests

\* Whoever was taken out of the queue is told.
LEMMA TellTimedOutStep ==
  ASSUME LobbyInv, LobbyInv', AtomicLobbyInv, TellTimedOut
  PROVE  AtomicLobbyInv'
<1> DEFINE s == SessionOf[Head(timedOut)]
<1>1. UNCHANGED <<hub, hubJob, closed, queue, seats, conn, phase, listed, go>>
  BY DEF TellTimedOut, hubVars, roomVars
<1>2. timedOut # <<>> /\ SetStateOf(s, "lobby") /\ timedOut' = Tail(timedOut)
  BY DEF TellTimedOut
<1>3. hubJob = HubIdle /\ Len(timedOut) <= 1 /\ \A g \in Goroutines : ~Busy(g)
  BY <1>2 DEF AtomicLobbyInv, OneAtATime
<1>4. s \in Sessions /\ timedOut' = <<>>
  <2>1. timedOut \in Seq(Clients) /\ Len(timedOut) \in Nat
    BY LenProperties DEF LobbyInv, LobbyTypeOK
  <2>2. Head(timedOut) \in Clients /\ Len(timedOut) = 1
    <3>1. \A seq \in Seq(Clients) : seq # <<>> => Len(seq) \in Nat \ {0}
      BY EmptySeq
    <3>2. Len(timedOut) = 1
      <4>1. \A n \in Nat \ {0} : n <= 1 => n = 1
        OBVIOUS
      <4> QED BY <1>2, <1>3, <2>1, <3>1, <4>1, Zenon
    <3>3. Head(timedOut) \in Clients
      BY <1>2, <2>1, HeadTailProperties
    <3> QED BY <3>2, <3>3
  <2>3. timedOut' \in Seq(Clients) /\ Len(timedOut') = 0
    BY <1>2, <2>1, <2>2, HeadTailProperties
  <2> QED BY <2>2, <2>3, EmptySeq, LobbyAssumption
<1>5. OneAtATime'
  BY <1>1, <1>3, <1>4, EmptySeq DEF OneAtATime, Busy, Rests
<1>6. HubHoldsItsOwn'
  BY <1>1 DEF AtomicLobbyInv, HubHoldsItsOwn, At
<1>7. ASSUME NEW c \in Clients, OnlyClient(c) PROVE InOnePlace(c)' /\ SoloAtRest(c)'
  <2>1. InOnePlace(c) /\ SoloAtRest(c) /\ (Late(c) => Nowhere(c))
    BY <1>7 DEF AtomicLobbyInv, Solo
  <2>2. InOnePlace(c)' /\ (Nowhere(c) => Nowhere(c)') /\ (Gone(c) => Gone(c)')
    BY <1>1, <2>1, PlacesKept DEF Gone
  <2>3. At(Read(c), "new") => clientState'[c] = clientState[c]
    BY <1>2, <1>3, <1>4, <1>7, SetStateEffect
  <2>4. ASSUME At(Read(c), "idle") PROVE Agrees(c)'
    <3>1. CASE SessionOf[c] = s
      <4>1. clientState'[c] = "lobby"
        BY <1>2, <1>3, <1>4, <1>7, <2>4, <3>1, SetStateEffect DEF At
      <4>2. Nowhere(c)'
        BY <1>2, <2>1, <2>2, <3>1 DEF Late
      <4>3. (clientState[c] = "lobby" /\ Nowhere(c))' => Agrees(c)'
        BY NowhereAgrees, PTL
      <4> QED BY <4>1, <4>2, <4>3
    <3>2. CASE SessionOf[c] # s
      <4>1. clientState'[c] = clientState[c]
        BY <1>2, <1>3, <1>4, <1>7, <3>2, SetStateEffect
      <4>2. ~Owed(c)
        BY <1>3, <3>2 DEF Owed, Late, Owes, Told, At, Busy, Rests
      <4> QED BY <1>1, <2>1, <2>4, <4>1, <4>2, PlacesKept DEF SoloAtRest, Agrees
    <3> QED BY <3>1, <3>2
  <2> QED BY <1>1, <2>1, <2>2, <2>3, <2>4 DEF SoloAtRest, At
<1>8. \A c \in Clients : ~Late(c)' /\ (Gone(c) => Gone(c)')
  BY <1>1, <1>4 DEF Late, Gone
<1> QED BY <1>1, <1>3, <1>5, <1>6, <1>7, <1>8, SteadyStep DEF Rests

\* A connection that comes, and one the hub is asked to forget.
LEMMA RegisterStep ==
  ASSUME LobbyInv, LobbyInv', AtomicLobbyInv, NEW d \in Clients,
         (Quiet /\ Register(d)) \/ Unregister(d)
  PROVE  AtomicLobbyInv'
<1> DEFINE g == Read(d)
<1>0. g \in Goroutines /\ LobbyTypeOK /\ go[g].pc \in {"new", "unregister"}
  BY GoroutineNames DEF Register, Unregister, At, LobbyInv
<1>1. Alone(g)
  <2>1. ~Rests(g) \/ Quiet
    BY DEF Unregister, Rests, Busy, At
  <2> QED BY <1>0, <2>1, WhoIsAlone DEF AtomicLobbyInv
<1>2. UNCHANGED <<hub, closed, clientState, queue, timedOut, seats, conn, phase, listed>>
  BY DEF Register, Unregister, queueVars, roomVars
<1>3. PICK pc \in {"idle", "close"}, op \in {"register", "unregister"} :
        /\ hubJob' = [op |-> op, client |-> d]
        /\ Goto(g, pc, NoRoom, 0)
        /\ \/ op = "register" /\ pc = "idle" /\ At(g, "new")
           \/ op = "unregister" /\ pc = "close" /\ At(g, "unregister")
  BY DEF Register, Unregister, Rest
<1>4. /\ go'[g].pc = pc
      /\ \A h \in Goroutines \ {g} : go'[h] = go[h]
      /\ Others(g)
      /\ \A c \in Clients : At(Read(c), "new")' => At(Read(c), "new") /\ c # d
  BY <1>0, <1>3, ReaderGoes DEF At
<1>5. OneAtATime'
  <2>1. \A h \in Goroutines \ {g} : ~Busy(h)'
    BY <1>1, <1>4 DEF Alone, Busy
  <2>2. Rests(g)'
    BY <1>3, <1>4 DEF Rests, Busy, At
  <2> QED BY <1>1, <1>2, <2>1, <2>2, EmptySeq DEF OneAtATime, Alone, Rests
<1>6. HubHoldsItsOwn'
  <2>1. \A c \in Clients : hubJob' = [op |-> "register", client |-> c] => At(Read(c), "new")
    BY <1>3
  <2>2. hubJob'.op = "register" => hubJob'.client = d
    BY <1>3
  <2>3. ~At(g, "new")'
    BY <1>4 DEF At
  <2> QED BY <1>2, <1>4, <2>1, <2>2, <2>3 DEF AtomicLobbyInv, HubHoldsItsOwn
<1>7. EndsArePending'
  BY <1>0, <1>1, <1>2, NoneFinished DEF EndsArePending, Ends, AtomicLobbyInv
<1>8. ConnectionsMatch'
  BY <1>2 DEF AtomicLobbyInv, ConnectionsMatch, SitsAt
<1>9. JobsKnow'
  <2>1. Knows(g)'
    BY <1>4, GoroutineNames DEF Knows, ReaderKnows, Told, At, RoomPCs, EndPCs
  <2>2. ASSUME NEW h \in Goroutines \ {g} PROVE Knows(h)'
    BY <1>0, <1>1, <1>4, OthersKnow DEF AtomicLobbyInv, JobsKnow
  <2> QED BY <2>1, <2>2 DEF JobsKnow
<1>10. ASSUME NEW c \in Clients, OnlyClient(c) PROVE Solo(c)'
  <2>1. Solo(c) /\ ~Owed(c)
    BY <1>0, <1>1, <1>10, NothingOwed DEF AtomicLobbyInv
  <2>2. /\ InOnePlace(c)' /\ (Nowhere(c) => Nowhere(c)') /\ (Agrees(c) => Agrees(c)')
        /\ (Gone(c) => Gone(c)')
    BY <1>2, <2>1, PlainPlace DEF Gone, Solo
  <2>3. CASE c = d
    <3>1. At(g, "new") => clientState[c] = "lobby" /\ Nowhere(c) /\ ~closed[c]
      BY <2>1, <2>3 DEF Solo, SoloAtRest, At
    <3>2. At(g, "unregister") => Gone(c)
      BY <2>1, <2>3 DEF Solo, SoloAtWork, At
    <3>3. At(g, "new") => Agrees(c)
      BY <3>1, NowhereAgrees
    <3>4. SoloAtRest(c)'
      <4>1. ~closed'[c]
        BY <1>0, <1>2, <2>1, <2>3 DEF Solo, SoloAtRest, At
      <4> QED BY <1>3, <1>4, <2>2, <2>3, <3>1, <3>3, <4>1 DEF SoloAtRest, At
    <3>5. SoloAtWork(c)'
      <4>1. At(g, "unregister") => Gone(c)'
        BY <2>2, <3>2
      <4> QED BY <1>3, <1>4, <2>3, <4>1 DEF SoloAtWork, EndPCs, At
    <3> QED BY <2>2, <3>4, <3>5 DEF Solo
  <2>4. CASE c # d
    <3>1. go'[Read(c)] = go[Read(c)] /\ ~Busy(Read(c)) /\ closed'[c] = closed[c]
      BY <1>1, <1>2, <1>4, <2>4, GoroutineNames DEF Alone
    <3>2. SoloAtRest(c)'
      BY <1>2, <2>1, <2>2, <3>1 DEF Solo, SoloAtRest, At
    <3>3. SoloAtWork(c)'
      <4>1. ~Busy(Read(c))'
        BY <3>1 DEF Busy
      <4>2. ~Busy(Read(c))' => SoloAtWork(c)'
        BY IdleWork, PTL
      <4> QED BY <4>1, <4>2
    <3> QED BY <2>2, <3>2, <3>3 DEF Solo
  <2> QED BY <2>3, <2>4
<1>11. \A c \in Clients : ~Late(c)' /\ (OnlyClient(c)' <=> OnlyClient(c))
  BY <1>1, <1>2 DEF Late, Alone, OnlyClient
<1> QED BY <1>5, <1>6, <1>7, <1>8, <1>9, <1>10, <1>11 DEF AtomicLobbyInv

\* A connection that is closed, whether or not the hub has forgotten it.
LEMMA CloseStep ==
  ASSUME LobbyInv, LobbyInv', AtomicLobbyInv, NEW d \in Clients, Close(d)
  PROVE  AtomicLobbyInv'
<1> DEFINE g == Read(d)
<1>0. g \in Goroutines /\ LobbyTypeOK /\ go[g].pc = "close" /\ Busy(g)
  BY GoroutineNames DEF Close, At, LobbyInv, Busy
<1>1. /\ timedOut = <<>>
      /\ \A h \in Goroutines \ {g} : ~Busy(h)
  BY <1>0 DEF AtomicLobbyInv, OneAtATime
<1>2. /\ UNCHANGED <<hub, hubJob, clientState, queue, timedOut, seats, conn, phase, listed>>
      /\ closed' = [closed EXCEPT ![d] = TRUE] /\ Goto(g, "done", NoRoom, 0)
  BY DEF Close, queueVars, roomVars
<1>3. /\ go'[g].pc = "done"
      /\ \A h \in Goroutines \ {g} : go'[h] = go[h]
      /\ \A c \in Clients : At(Read(c), "new")' => At(Read(c), "new")
  BY <1>0, <1>2, ReaderGoes
<1>4. OneAtATime'
  <2>1. \A h \in Goroutines : ~Busy(h)'
    BY <1>1, <1>3 DEF Busy
  <2> QED BY <1>1, <1>2, <2>1, EmptySeq DEF OneAtATime, Rests
<1>5. HubHoldsItsOwn'
  <2>1. \A c \in Clients : At(Read(c), "new") => At(Read(c), "new")'
    BY <1>0, <1>3, GoroutineNames DEF At
  <2> QED BY <1>2, <1>3, <2>1 DEF AtomicLobbyInv, HubHoldsItsOwn
<1>6. EndsArePending'
  BY <1>0, <1>2, <1>3 DEF EndsArePending, Ends, AtomicLobbyInv, RoomOf
<1>7. ConnectionsMatch'
  BY <1>2 DEF AtomicLobbyInv, ConnectionsMatch, SitsAt
<1>8. JobsKnow'
  <2>1. Knows(g)'
    BY <1>3, GoroutineNames DEF Knows, ReaderKnows, Told, At, RoomPCs, EndPCs
  <2>2. ASSUME NEW h \in Goroutines \ {g} PROVE Knows(h)'
    BY <1>1, <1>3, IdleJob DEF AtomicLobbyInv, JobsKnow, Rests
  <2> QED BY <2>1, <2>2 DEF JobsKnow
<1>9. ASSUME NEW c \in Clients, OnlyClient(c) PROVE Solo(c)'
  <2>1. Solo(c) /\ ~Owed(c)
    BY <1>0, <1>1, <1>9, NothingLate DEF AtomicLobbyInv, Rests, At
  <2>2. /\ InOnePlace(c)' /\ (Nowhere(c) => Nowhere(c)') /\ (Agrees(c) => Agrees(c)')
        /\ (Gone(c) => Gone(c)')
    BY <1>2, <2>1, PlainPlace DEF Gone, Solo
  <2>3. ~Busy(Read(c))'
    BY <1>1, <1>3, GoroutineNames DEF Busy
  <2>4. SoloAtWork(c)'
    <3>1. ~Busy(Read(c))' => SoloAtWork(c)'
      BY IdleWork, PTL
    <3> QED BY <2>3, <3>1
  <2>5. CASE c = d
    <3>1. Gone(c)'
      BY <1>0, <2>1, <2>2, <2>5 DEF Solo, SoloAtWork
    <3>2. SoloAtRest(c)'
      BY <1>3, <2>5, <3>1 DEF SoloAtRest, At
    <3> QED BY <2>2, <2>4, <3>2 DEF Solo
  <2>6. CASE c # d
    <3>1. go'[Read(c)] = go[Read(c)] /\ closed'[c] = closed[c]
      BY <1>0, <1>2, <1>3, <2>6, GoroutineNames DEF LobbyTypeOK
    <3>2. SoloAtRest(c)'
      BY <1>2, <2>1, <2>2, <3>1 DEF Solo, SoloAtRest, At
    <3> QED BY <2>2, <2>4, <3>2 DEF Solo
  <2> QED BY <2>5, <2>6
<1>10. \A c \in Clients : ~Late(c)' /\ (OnlyClient(c)' <=> OnlyClient(c))
  BY <1>1, <1>2 DEF Late, OnlyClient
<1> QED BY <1>4, <1>5, <1>6, <1>7, <1>8, <1>9, <1>10 DEF AtomicLobbyInv

-----------------------------------------------------------------------------
(* The theorems about atomic handlers.                                     *)

\* The invariant holds at the start: nobody is anywhere.
LEMMA AtomicInit == LobbyInit => AtomicLobbyInv
<1> SUFFICES ASSUME LobbyInit PROVE AtomicLobbyInv
  OBVIOUS
<1>1. /\ \A c \in Clients : go[Read(c)].pc = "new"
      /\ \A g \in Goroutines : go[g].pc \in {"new", "idle"} /\ RoomOf(g) = NoRoom
      /\ \A c \in Clients : go[Grace(c)].pc = "idle"
      /\ \A r \in Rooms : go[Game(r)].pc = "idle"
  BY GoroutineNames DEF LobbyInit, Loops, RoomOf
<1>2. \A g \in Goroutines : ~Busy(g)
  BY <1>1 DEF Busy
<1>3. OneAtATime
  BY <1>2, EmptySeq DEF LobbyInit, OneAtATime, Rests
<1>4. HubHoldsItsOwn
  BY LobbyAssumption DEF LobbyInit, HubHoldsItsOwn, HubIdle
<1>5. EndsArePending /\ ConnectionsMatch
  BY DEF LobbyInit, EndsArePending, Ends, ConnectionsMatch
<1>6. JobsKnow
  <2>1. ASSUME NEW g \in Goroutines PROVE Knows(g)
    BY <1>1, <2>1 DEF Knows, ReaderKnows, GraceKnows, GameKnows, Told, At, RoomPCs, EndPCs
  <2> QED BY <2>1 DEF JobsKnow
<1>7. ASSUME NEW c \in Clients PROVE Solo(c) /\ ~Late(c)
  <2>1. Nowhere(c) /\ InOnePlace(c)
    BY EmptySeq DEF LobbyInit, Nowhere, NoRoomOf, InOnePlace, InQueue
  <2>2. SoloAtRest(c)
    BY <1>1, <2>1 DEF LobbyInit, SoloAtRest, At
  <2>3. SoloAtWork(c)
    BY <1>2, IdleWork, GoroutineNames
  <2>4. ~Late(c)
    BY DEF LobbyInit, Late
  <2> QED BY <2>1, <2>2, <2>3, <2>4 DEF Solo
<1> QED BY <1>3, <1>4, <1>5, <1>6, <1>7 DEF AtomicLobbyInv

\* Nothing happens.
LEMMA AtomicStutter ==
  ASSUME LobbyInv, LobbyInv', AtomicLobbyInv, UNCHANGED lobbyVars
  PROVE  AtomicLobbyInv'
<1>1. UNCHANGED <<hub, hubJob, closed, clientState, queue, timedOut,
                  seats, conn, phase, listed, go>>
  BY DEF lobbyVars, hubVars, queueVars, roomVars
<1>2. OneAtATime' /\ HubHoldsItsOwn'
  BY <1>1 DEF AtomicLobbyInv, OneAtATime, HubHoldsItsOwn, Rests, Busy, At
<1>3. EndsArePending' /\ ConnectionsMatch'
  BY <1>1 DEF AtomicLobbyInv, EndsArePending, Ends, ConnectionsMatch, SitsAt, RoomOf
<1>4. JobsKnow'
  BY <1>1 DEF AtomicLobbyInv, JobsKnow, Knows, ReaderKnows, GraceKnows, GameKnows, Told,
              At, RoomOf, SeatIn, SitsIn, SitsAt, InQueue, Full
<1>5. ASSUME NEW c \in Clients
      PROVE  /\ InOnePlace(c)' <=> InOnePlace(c)
             /\ Nowhere(c)' <=> Nowhere(c)
             /\ NoRoomOf(SessionOf[c])' <=> NoRoomOf(SessionOf[c])
             /\ Agrees(c)' <=> Agrees(c)
             /\ Late(c)' <=> Late(c)
             /\ Gone(c)' <=> Gone(c)
             /\ OnlyClient(c)' <=> OnlyClient(c)
  BY <1>1, PlacesKept DEF Agrees, Late, Gone, OnlyClient
<1>6. ASSUME NEW c \in Clients, NEW g \in Goroutines PROVE Owes(g, c)' <=> Owes(g, c)
  BY <1>1 DEF Owes, Told, At, RoomOf, SeatIn, SitsIn, SitsAt, Full
<1>7. ASSUME NEW c \in Clients, Solo(c) PROVE Solo(c)'
  <2>1. Owed(c)' <=> Owed(c)
    BY <1>5, <1>6 DEF Owed
  <2> QED BY <1>1, <1>5, <1>7, <2>1 DEF Solo, SoloAtRest, SoloAtWork, At
<1> QED BY <1>2, <1>3, <1>4, <1>5, <1>7 DEF AtomicLobbyInv

\* Every step of a message's handler or of a lost connection's end.
LEMMA HandlerStep ==
  ASSUME LobbyInv, LobbyInv', AtomicLobbyInv, NEW d \in Clients,
         Handler(d) \/ Disconnect(d)
  PROVE  AtomicLobbyInv'
<1>1. CASE Handler(d)
  BY <1>1, JoinStep, StartGameStep, TellStep, ReplyStep, NewRoomStep, LookUpStep,
     AddPlayerStep, EnterGameStep, FindStep, CheckStep, ConnectionStep, QuitToLobbyStep,
     LeaveQueueStep DEF Handler
<1>2. CASE Disconnect(d)
  BY <1>2, FindStep, ConnectionStep, CheckStep, DropRoomStep, GraceBegins, LeaveQueueStep,
     RegisterStep, CloseStep DEF Disconnect
<1> QED BY <1>1, <1>2

\* Whatever arrives, when nothing else is under way.
LEMMA ArrivalStep ==
  ASSUME BusyBound = 1, LobbyInv, LobbyInv', AtomicLobbyInv, Arrive
  PROVE  AtomicLobbyInv'
<1>1. MayArrive => Quiet
  BY ArrivalsAreAlone DEF AtomicLobbyInv
<1>2. CASE CleanUp
  BY <1>1, <1>2, CleanUpStep DEF CleanUp
<1>3. ASSUME NEW c \in Clients, Register(c) \/ GraceOver(c) PROVE AtomicLobbyInv'
  BY <1>1, <1>3, RegisterStep, CallbackStep DEF Register, GraceOver
<1>4. ASSUME NEW c \in Clients, Lose(c) PROVE AtomicLobbyInv'
  <2>1. /\ Quiet /\ At(Read(c), "idle") /\ Goto(Read(c), "lost", NoRoom, 0)
        /\ UNCHANGED <<hubVars, clientState, queueVars, roomVars>>
    BY <1>1, <1>4 DEF Lose
  <2> QED BY <2>1, MessageStep
<1>5. ASSUME NEW c \in Clients, NEW msg \in {"join", "create", "rejoin", "leave", "lookup"},
             NEW r \in Rooms \cup {NoRoom}, Receive(c, msg, r)
      PROVE  AtomicLobbyInv'
  <2> DEFINE q == IF msg = "lookup" THEN r ELSE NoRoom
  <2>1. /\ Quiet /\ At(Read(c), "idle") /\ Goto(Read(c), msg, q, 0)
        /\ msg # "leave" => clientState[c] = "lobby"
        /\ msg = "join" => q = NoRoom
        /\ UNCHANGED <<hubVars, clientState, queueVars, roomVars>>
    BY <1>1, <1>5 DEF Receive, ValidMessages
  <2> HIDE DEF q
  <2> QED BY <2>1, MessageStep
<1>6. ASSUME NEW r \in Rooms, GameOver(r) PROVE AtomicLobbyInv'
  BY <1>1, <1>6, GameOverStep DEF GameOver
<1> QED BY <1>2, <1>3, <1>4, <1>5, <1>6 DEF Arrive

\* Every step keeps the invariant when handlers and callbacks are atomic.
LEMMA AtomicStep ==
  ASSUME BusyBound = 1, LobbyInv, AtomicLobbyInv, [LobbyNext]_lobbyVars
  PROVE  AtomicLobbyInv'
<1>1. LobbyInv'
  BY LobbyStep
<1>2. CASE UNCHANGED lobbyVars
  BY <1>1, <1>2, AtomicStutter
<1>3. CASE Arrive
  BY <1>1, <1>3, ArrivalStep
<1>4. CASE Hub \/ TellTimedOut
  BY <1>1, <1>4, HubStep, TellTimedOutStep
<1>5. ASSUME NEW c \in Clients, Handler(c) \/ Disconnect(c) \/ GraceCallback(c)
      PROVE  AtomicLobbyInv'
  BY <1>1, <1>5, HandlerStep, CallbackStep DEF GraceCallback
<1>6. ASSUME NEW g \in Goroutines, EndGame(g) PROVE AtomicLobbyInv'
  BY <1>1, <1>6, SetFinishedStep, ResetStep, RemoveRoomStep DEF EndGame
<1> QED BY <1>2, <1>3, <1>4, <1>5, <1>6 DEF LobbyNext, Work

\* With atomic handlers, the state that decides which messages a client may
\* send (ValidMessages) says where its session is.
THEOREM AtomicStatesAgree == BusyBound = 1 /\ LobbySpec => []StatesAgree
<1> SUFFICES ASSUME BusyBound = 1 PROVE LobbySpec => []StatesAgree
  OBVIOUS
<1>1. LobbyInv /\ AtomicLobbyInv => StatesAgree
  <2>1. SUFFICES ASSUME AtomicLobbyInv, NobodyBusy,
                        NEW c \in Clients, OnlyClient(c), At(Read(c), "idle")
                 PROVE  Agrees(c)
    BY DEF StatesAgree, Agrees
  <2>2. Quiet
    BY <2>1, NothingCounted DEF AtomicLobbyInv, NobodyBusy
  <2> QED BY <2>1, <2>2, QuietAgrees DEF AtomicLobbyInv, Solo
<1> QED BY <1>1, LobbyInitInv, LobbyStep, AtomicInit, AtomicStep, PTL DEF LobbySpec

\* With atomic handlers, joining, creating, looking up, leaving and ending a
\* game never put a session with one connection in two rooms, or in a room and
\* in the queue.
THEOREM AtomicOnePlace == BusyBound = 1 /\ LobbySpec => []OnePlace
<1> SUFFICES ASSUME BusyBound = 1 PROVE LobbySpec => []OnePlace
  OBVIOUS
<1>1. LobbyInv /\ AtomicLobbyInv => OnePlace
  <2>1. SUFFICES ASSUME LobbyInv, AtomicLobbyInv, NEW c \in Clients, OnlyClient(c)
                 PROVE  Cardinality({r \in listed : SitsIn(SessionOf[c], r)})
                          + Cardinality({k \in 1..Len(queue) : queue[k] = c}) <= 1
    BY DEF OnePlace
  <2> DEFINE R == {r \in listed : SitsIn(SessionOf[c], r)}
             Q == {k \in 1..Len(queue) : queue[k] = c}
  <2>2. InOnePlace(c)
    BY <2>1 DEF AtomicLobbyInv, Solo
  <2>3. R = {} \/ \E r \in listed : R = {r}
    BY <2>2 DEF InOnePlace
  <2>4. Q = {} \/ Q = {1}
    <3>1. Len(queue) \in Nat /\ Len(queue) <= 1
      BY <2>1, LenProperties DEF LobbyInv, LobbyTypeOK, QueueIsShort
    <3>2. \A k \in 1..Len(queue) : k = 1
      BY <3>1
    <3> QED BY <3>2
  <2>5. Q # {} => R = {}
    <3>1. Q # {} => InQueue(SessionOf[c])
      BY DEF InQueue
    <3> QED BY <2>2, <3>1 DEF InOnePlace, NoRoomOf
  <2>6. Cardinality(R) = 0 \/ (Cardinality(R) = 1 /\ R # {})
    BY <2>3, FS_EmptySet, FS_Singleton
  <2>7. Cardinality(Q) = 0 \/ (Cardinality(Q) = 1 /\ Q # {})
    BY <2>4, FS_EmptySet, FS_Singleton
  <2>8. R = {} => Cardinality(R) = 0
    BY FS_EmptySet
  <2> HIDE DEF R, Q
  <2>9. Cardinality(R) + Cardinality(Q) <= 1
    BY <2>5, <2>6, <2>7, <2>8
  <2> QED BY <2>9 DEF R, Q
<1> QED BY <1>1, LobbyInitInv, LobbyStep, AtomicInit, AtomicStep, PTL DEF LobbySpec

\* With atomic handlers, disconnecting takes a client out of the queue and out
\* of its seat, so that nobody waits for a connection that is gone.
THEOREM AtomicNoGhosts == BusyBound = 1 /\ LobbySpec => []NoGhosts
<1> SUFFICES ASSUME BusyBound = 1 PROVE LobbySpec => []NoGhosts
  OBVIOUS
<1>1. LobbyInv /\ AtomicLobbyInv => NoGhosts
  <2>1. SUFFICES ASSUME LobbyInv, AtomicLobbyInv PROVE NoGhosts
    OBVIOUS
  <2>2. ASSUME NEW c \in MaybeClient, Ghost(c) PROVE Gone(c)
    BY <2>1, <2>2 DEF Ghost, MaybeClient, AtomicLobbyInv, Solo, SoloAtRest, SoloAtWork, At
  <2>3. ASSUME NEW r \in listed, NEW i \in Seats PROVE ~Ghost(conn[r][i])
    <3>1. conn[r][i] \in MaybeClient
      BY <2>1 DEF LobbyInv, LobbyTypeOK
    <3> QED BY <2>2, <3>1 DEF Gone
  <2>4. ASSUME NEW k \in 1..Len(queue) PROVE ~Ghost(queue[k])
    <3>1. queue[k] \in MaybeClient
      BY <2>1 DEF LobbyInv, LobbyTypeOK, MaybeClient
    <3> QED BY <2>2, <3>1 DEF Gone
  <2> QED BY <2>3, <2>4 DEF NoGhosts
<1> QED BY <1>1, LobbyInitInv, LobbyStep, AtomicInit, AtomicStep, PTL DEF LobbySpec

-----------------------------------------------------------------------------
(* Games begin with two players, once, and end once.                       *)

BeginPCs  == {"begin", "beginRoom"}
TurnPCs   == BeginPCs \cup {"reset", "remove"}

\* A goroutine that is to start a game, or has ended one.
Phased(g) ==
  /\ go[g].pc \in BeginPCs => phase[RoomOf(g)] = "waiting"
  /\ go[g].pc \in {"reset", "remove"} => phase[RoomOf(g)] = "finished"

\* A full room plays, or is about to, or has played.
GameMatches(r) ==
  /\ phase[r] = "playing" => Full(r)
  /\ phase[r] = "waiting" /\ Full(r) =>
       \E g \in Goroutines : go[g].pc \in BeginPCs /\ RoomOf(g) = r

PhasesMatch ==
  /\ \A g \in Goroutines : Phased(g)
  /\ \A r \in listed : GameMatches(r)

\* No room changes, and nobody comes to such a step or goes on from it.
Still ==
  /\ UNCHANGED <<seats, phase, listed>>
  /\ \A g \in Goroutines :
       go[g].pc \in TurnPCs \/ go'[g].pc \in TurnPCs => go'[g] = go[g]

LEMMA StillMatches == ASSUME PhasesMatch, Still PROVE PhasesMatch'
<1>1. ASSUME NEW g \in Goroutines PROVE Phased(g)'
  BY <1>1 DEF PhasesMatch, Phased, Still, TurnPCs, RoomOf
<1>2. ASSUME NEW r \in listed' PROVE GameMatches(r)'
  <2>1. GameMatches(r) /\ (Full(r)' <=> Full(r)) /\ phase'[r] = phase[r]
    BY <1>2 DEF PhasesMatch, Still, Full
  <2>2. \A g \in Goroutines : go[g].pc \in BeginPCs => go'[g] = go[g]
    BY DEF Still, TurnPCs
  <2> QED BY <2>1, <2>2 DEF GameMatches, RoomOf
<1> QED BY <1>1, <1>2 DEF PhasesMatch

\* A goroutine that goes from one other step to another.
LEMMA MoveIsStill ==
  ASSUME LobbyTypeOK, NEW g \in Goroutines, NEW pc, NEW r, NEW i, Goto(g, pc, r, i),
         pc \notin TurnPCs, go[g].pc \notin TurnPCs,
         UNCHANGED <<seats, phase, listed>>
  PROVE  Still
BY DEF Goto, Still, LobbyTypeOK

\* So are most steps of a handler ...
LEMMA HandlerIsStill ==
  ASSUME LobbyTypeOK, NEW c \in Clients, Handler(c),
         ~StartGame(c), ~AddPlayer(c),
         \A r \in Rooms : ~JoinMatched(c, r) /\ ~CreateRoom(c, r),
         ~QuitToLobby(c)
  PROVE  Still
<1> DEFINE g == Read(c)
<1> USE DEF TurnPCs, BeginPCs
<1>0. g \in Goroutines
  BY GoroutineNames
<1>1. ASSUME JoinAgain(c) \/ JoinWaits(c) \/ LeaveQueue(c, "dequeue", "toLobby")
      PROVE  Still
  BY <1>0, <1>1, MoveIsStill DEF JoinAgain, JoinWaits, LeaveQueue, Then, roomVars, At
<1>2. ASSUME TellMatched(c) \/ Wait(c) \/ EnterGame(c) \/ TellHost(c) \/ ToLobby(c)
             \/ Reconnected(c)
      PROVE  Still
  BY <1>0, <1>2, MoveIsStill
     DEF TellMatched, Wait, EnterGame, TellHost, ToLobby, Reconnected, Then, Rest,
         roomVars, At
<1>3. ASSUME LookUp(c) \/ LeaveRoom(c) \/ CheckReconnect(c) PROVE Still
  BY <1>0, <1>3, MoveIsStill DEF LookUp, LeaveRoom, CheckReconnect, Then, Rest, roomVars, At
<1>4. ASSUME ClearConnection(c) \/ SetConnection(c) PROVE Still
  BY <1>0, <1>4, MoveIsStill DEF ClearConnection, SetConnection, Then, roomVars, At
<1>5. ASSUME FindToLeave(c) \/ FindToReconnect(c) PROVE Still
  BY <1>0, <1>5, MoveIsStill
     DEF FindToLeave, FindToReconnect, FindPlayerRoom, Then, roomVars, At
<1> QED BY <1>1, <1>2, <1>3, <1>4, <1>5 DEF Handler

LEMMA LeavingIsStill ==
  ASSUME LobbyTypeOK, OneAtATime, NEW c \in Clients,
         QuitToLobby(c) \/ (Disconnect(c) /\ ~DropRoom(c)) \/ GraceCallback(c)
  PROVE  Still
<1> USE DEF TurnPCs, BeginPCs
<1>0. Read(c) \in Goroutines /\ Grace(c) \in Goroutines
  BY GoroutineNames
<1>1. CASE QuitToLobby(c)
  BY <1>0, <1>1, MoveIsStill DEF QuitToLobby, Then, roomVars, At
<1>2. CASE FindLost(c) \/ CheckAlone(c) \/ LeaveQueue(c, "forget", "unregister")
  BY <1>0, <1>2, MoveIsStill
     DEF FindLost, FindPlayerRoom, CheckAlone, LeaveQueue, Then, roomVars, At
<1>3. CASE ClearConnectionIf(c) \/ Unregister(c) \/ Close(c)
  BY <1>0, <1>3, MoveIsStill DEF ClearConnectionIf, Unregister, Close, Then, roomVars, At
<1>4. CASE StartGrace(c)
  <2>1. UNCHANGED <<seats, phase, listed>> /\ go[Read(c)].pc = "warn"
    BY <1>4 DEF StartGrace, roomVars, At
  <2>2. /\ go'[Read(c)].pc = "unregister"
        /\ \A h \in Goroutines \ {Read(c), Grace(c)} : go'[h] = go[h]
        /\ go'[Grace(c)] = go[Grace(c)] \/ go'[Grace(c)].pc = "sleep"
    BY <1>0, <1>4, GoroutineNames DEF StartGrace, LobbyTypeOK
  <2>3. go[Grace(c)].pc \notin TurnPCs
    BY <1>0, <2>1, GoroutineNames DEF OneAtATime, Busy
  <2> QED BY <2>1, <2>2, <2>3 DEF Still
<1>5. CASE GraceCallback(c)
  BY <1>0, <1>5, MoveIsStill
     DEF GraceCallback, GraceWakes, CheckAbsent, Then, Rest, roomVars, At
<1> QED BY <1>1, <1>2, <1>3, <1>4, <1>5 DEF Disconnect

\* And what arrives, the hub's turns and the clean-up.
LEMMA ArrivalIsStill ==
  ASSUME LobbyTypeOK, Arrive \/ Hub \/ TellTimedOut
  PROVE  Still
<1> USE DEF TurnPCs, BeginPCs
<1>1. CASE CleanUp \/ Hub \/ TellTimedOut
  BY <1>1 DEF CleanUp, Hub, HubRegister, HubUnregister, TellTimedOut, roomVars, Still
<1>2. ASSUME NEW c \in Clients, Register(c) \/ Lose(c) \/ GraceOver(c) PROVE Still
  BY <1>2, GoroutineNames, MoveIsStill
     DEF Register, Lose, GraceOver, Rest, Then, roomVars, At
<1>3. ASSUME NEW c \in Clients, NEW msg \in {"join", "create", "rejoin", "leave", "lookup"},
             NEW r, Receive(c, msg, r)
      PROVE  Still
  <2> DEFINE q == IF msg = "lookup" THEN r ELSE NoRoom
  <2>1. /\ At(Read(c), "idle") /\ Goto(Read(c), msg, q, 0)
        /\ UNCHANGED <<seats, phase, listed>>
    BY <1>3 DEF Receive, roomVars
  <2> HIDE DEF q
  <2> QED BY <2>1, GoroutineNames, MoveIsStill DEF At
<1>4. ASSUME NEW r \in Rooms, GameOver(r) PROVE Still
  BY <1>4, GoroutineNames, MoveIsStill DEF GameOver, roomVars, At
<1> QED BY <1>1, <1>2, <1>3, <1>4 DEF Arrive

\* The step of a goroutine that changes one room, or its own place in a game.
LEMMA TurnMatches ==
  ASSUME PhasesMatch, NEW g \in Goroutines, NEW r, Alone(g), Others(g),
         \A q \in listed' \ {r} :
           q \in listed /\ seats'[q] = seats[q] /\ phase'[q] = phase[q],
         go[g].pc \in BeginPCs => RoomOf(g) = r,
         Phased(g)',
         r \in listed' => GameMatches(r)'
  PROVE  PhasesMatch'
<1>1. ASSUME NEW h \in Goroutines PROVE Phased(h)'
  BY <1>1 DEF Alone, Others, Phased, BeginPCs, Busy
<1>2. ASSUME NEW q \in listed' \ {r} PROVE GameMatches(q)'
  <2>1. q \in listed /\ (Full(q)' <=> Full(q)) /\ phase'[q] = phase[q]
    BY <1>2 DEF Full
  <2>2. ~(phase[q] = "waiting" /\ Full(q))
    BY <1>2, <2>1 DEF PhasesMatch, GameMatches, Alone, BeginPCs, Busy
  <2> QED BY <2>1, <2>2 DEF PhasesMatch, GameMatches
<1> QED BY <1>1, <1>2 DEF PhasesMatch

\* A room that is made waits, full when it is made for two.
LEMMA NewRoomMatches ==
  ASSUME LobbyInv, AtomicLobbyInv, PhasesMatch, NEW c \in Clients, NEW r \in Rooms,
         JoinMatched(c, r) \/ CreateRoom(c, r)
  PROVE  PhasesMatch'
<1> DEFINE g == Read(c)
<1>0. g \in Goroutines /\ LobbyTypeOK /\ ~Rests(g) /\ go[g].pc \in {"join", "create"}
  BY GoroutineNames DEF JoinMatched, CreateRoom, At, Busy, Rests, LobbyInv
<1>1. Alone(g)
  BY <1>0, WhoIsAlone DEF AtomicLobbyInv
<1>2. PICK p \in [Seats -> MaybeClient], pc \in {"begin", "wait"} :
        /\ NewRoom(r, p) /\ Goto(g, pc, r, 0)
        /\ pc = "wait" => p[1] = NoClient
  <2>1. CASE JoinMatched(c, r)
    <3> DEFINE p == [i \in Seats |-> IF i = 0 THEN Head(queue) ELSE c]
    <3>1. Head(queue) \in Clients
      BY <1>0, <2>1, QueueShape DEF JoinMatched
    <3>2. p \in [Seats -> MaybeClient]
      BY <3>1 DEF MaybeClient
    <3>3. NewRoom(r, p) /\ Goto(g, "begin", r, 0)
      BY <2>1 DEF JoinMatched
    <3> HIDE DEF p
    <3> QED BY <3>2, <3>3
  <2>2. CASE CreateRoom(c, r)
    <3> DEFINE p == [i \in Seats |-> IF i = 0 THEN c ELSE NoClient]
    <3>1. p \in [Seats -> MaybeClient] /\ p[1] = NoClient
      BY DEF MaybeClient, Seats
    <3>2. NewRoom(r, p) /\ Goto(g, "wait", r, 0)
      BY <2>2 DEF CreateRoom
    <3> HIDE DEF p
    <3> QED BY <3>1, <3>2
  <2> QED BY <2>1, <2>2
<1>3. /\ listed' = listed \cup {r} /\ seats'[r] = p /\ phase'[r] = "waiting"
      /\ \A q \in listed : seats'[q] = seats[q] /\ phase'[q] = phase[q]
  BY <1>0, <1>2, NewRoomEffect
<1>4. go'[g].pc = pc /\ RoomOf(g)' = r /\ Others(g)
  BY <1>0, <1>2, JobGoes
<1>5. Phased(g)'
  BY <1>3, <1>4 DEF Phased
<1>6. GameMatches(r)'
  <2>1. CASE pc = "wait"
    BY <1>2, <1>3, <2>1 DEF GameMatches, Full
  <2>2. CASE pc = "begin"
    BY <1>0, <1>3, <1>4, <2>2 DEF GameMatches, BeginPCs
  <2> QED BY <2>1, <2>2
<1> QED BY <1>0, <1>1, <1>3, <1>4, <1>5, <1>6, TurnMatches DEF BeginPCs

\* Whoever takes the free seat of a room will start its game.
LEMMA AddPlayerMatches ==
  ASSUME LobbyInv, AtomicLobbyInv, PhasesMatch, NEW c \in Clients, AddPlayer(c)
  PROVE  PhasesMatch'
<1> DEFINE g == Read(c)
           r == RoomOf(g)
<1>0. g \in Goroutines /\ LobbyTypeOK /\ ~Rests(g) /\ go[g].pc = "sit"
  BY GoroutineNames DEF AddPlayer, At, Busy, Rests, LobbyInv
<1>1. Alone(g) /\ r \in listed /\ r \in Rooms /\ phase[r] \in {"waiting", "playing"}
  BY <1>0, WhoIsAlone, ReaderFacts, NoneFinished DEF AtomicLobbyInv, RoomPCs, LobbyTypeOK
<1>2. UNCHANGED <<phase, listed>>
  BY DEF AddPlayer
<1>3. CASE Rest(g) /\ UNCHANGED seats
  <2>1. Still
    BY <1>0, <1>2, <1>3, MoveIsStill DEF Rest, TurnPCs, BeginPCs
  <2> QED BY <2>1, StillMatches
<1>4. CASE ~Full(r) /\ seats' = [seats EXCEPT ![r][1] = c] /\ Then(g, "beginRoom")
  <2>1. phase[r] = "waiting"
    BY <1>1, <1>4 DEF PhasesMatch, GameMatches
  <2>2. go'[g].pc = "beginRoom" /\ RoomOf(g)' = r /\ Others(g)
    BY <1>0, <1>4, JobGoes DEF Then
  <2>3. Phased(g)' /\ GameMatches(r)'
    BY <1>0, <1>2, <2>1, <2>2 DEF Phased, GameMatches, BeginPCs
  <2>4. \A q \in Rooms \ {r} : seats'[q] = seats[q]
    BY <1>0, <1>1, <1>4 DEF LobbyTypeOK
  <2> QED BY <1>0, <1>1, <1>2, <2>2, <2>3, <2>4, TurnMatches DEF BeginPCs, LobbyTypeOK
<1> QED BY <1>3, <1>4 DEF AddPlayer

\* A game that starts has its two players.
LEMMA StartGameMatches ==
  ASSUME LobbyInv, AtomicLobbyInv, PhasesMatch, NEW c \in Clients, StartGame(c)
  PROVE  /\ PhasesMatch'
         /\ RoomOf(Read(c)) \in listed /\ Full(RoomOf(Read(c)))
         /\ phase[RoomOf(Read(c))] = "waiting"
<1> DEFINE g == Read(c)
           r == RoomOf(g)
           next == IF At(g, "begin") THEN "tell" ELSE "enter"
<1>0. g \in Goroutines /\ LobbyTypeOK /\ ~Rests(g) /\ go[g].pc \in BeginPCs
  BY GoroutineNames DEF StartGame, At, Busy, Rests, LobbyInv, BeginPCs
<1>1. Alone(g) /\ r \in listed /\ r \in Rooms /\ seats[r][1] = c
  BY <1>0, WhoIsAlone, ReaderFacts
     DEF AtomicLobbyInv, RoomPCs, LobbyTypeOK, ReaderKnows, BeginPCs
<1>2. Full(r)
  BY <1>1, LobbyAssumption DEF Full, LobbyInv, FirstSeatTaken, Known, Reached
<1>3. phase[r] = "waiting"
  BY <1>0 DEF PhasesMatch, Phased
<1>4. /\ UNCHANGED <<seats, listed>> /\ phase' = [phase EXCEPT ![r] = "playing"]
      /\ Goto(g, next, r, SeatIn(g))
  BY DEF StartGame, Then
<1>5. phase'[r] = "playing" /\ \A q \in Rooms \ {r} : phase'[q] = phase[q]
  BY <1>0, <1>1, <1>4 DEF LobbyTypeOK
<1>6. go'[g].pc = next /\ RoomOf(g)' = r /\ Others(g)
  BY <1>0, <1>4, JobGoes
<1>7. Phased(g)' /\ GameMatches(r)'
  BY <1>2, <1>4, <1>5, <1>6 DEF Phased, GameMatches, Full, BeginPCs
<1>8. PhasesMatch'
  BY <1>0, <1>1, <1>4, <1>5, <1>6, <1>7, TurnMatches DEF LobbyTypeOK
<1> QED BY <1>1, <1>2, <1>3, <1>8

\* The end of a game, and of its room.
LEMMA EndMatches ==
  ASSUME LobbyInv, AtomicLobbyInv, PhasesMatch, NEW g \in Goroutines, EndGame(g)
  PROVE  /\ PhasesMatch'
         /\ RoomOf(g) \in listed
         /\ At(g, "finish") \/ phase[RoomOf(g)] = "finished"
<1> DEFINE r == RoomOf(g)
<1>0. LobbyTypeOK /\ ~Rests(g) /\ go[g].pc \in EndPCs
  BY DEF EndGame, SetFinished, ResetPlayersToLobby, RemoveRoom, At, Busy, Rests, LobbyInv, EndPCs
<1>1. Alone(g) /\ r \in listed /\ r \in Rooms
  BY <1>0, WhoIsAlone DEF AtomicLobbyInv, JobsKnow, Knows, RoomPCs, EndPCs, LobbyTypeOK
<1>2. At(g, "finish") \/ phase[r] = "finished"
  BY <1>0 DEF EndPCs, PhasesMatch, Phased, At
<1>3. CASE SetFinished(g)
  <2>1. /\ UNCHANGED <<seats, listed>> /\ phase' = [phase EXCEPT ![r] = "finished"]
        /\ Goto(g, "reset", r, 0)
    BY <1>3 DEF SetFinished
  <2>2. phase'[r] = "finished" /\ \A q \in Rooms \ {r} : phase'[q] = phase[q]
    BY <1>0, <1>1, <2>1 DEF LobbyTypeOK
  <2>3. go'[g].pc = "reset" /\ RoomOf(g)' = r /\ Others(g)
    BY <1>0, <2>1, JobGoes
  <2>4. Phased(g)' /\ GameMatches(r)'
    BY <2>2, <2>3 DEF Phased, GameMatches, BeginPCs
  <2>5. PhasesMatch'
    BY <1>0, <1>1, <2>1, <2>2, <2>3, <2>4, TurnMatches DEF LobbyTypeOK, EndPCs, BeginPCs
  <2> QED BY <1>1, <1>2, <2>5
<1>4. CASE ResetPlayersToLobby(g)
  <2>1. UNCHANGED <<seats, phase, listed>> /\ go[g].pc = "reset"
    BY <1>4 DEF ResetPlayersToLobby, roomVars, At
  <2>2. PICK pc \in {"reset", "remove"}, i \in Seats : Goto(g, pc, r, i)
    BY <1>0, <1>4, JobParts DEF ResetPlayersToLobby, Then, Seats
  <2>3. go'[g].pc = pc /\ RoomOf(g)' = r /\ Others(g)
    BY <1>0, <2>2, JobGoes
  <2>4. phase'[r] = "finished"
    BY <1>2, <2>1 DEF At
  <2>5. Phased(g)' /\ GameMatches(r)'
    BY <2>3, <2>4 DEF Phased, GameMatches, BeginPCs
  <2>6. PhasesMatch'
    BY <1>1, <2>1, <2>3, <2>5, TurnMatches DEF BeginPCs
  <2> QED BY <1>1, <1>2, <2>6
<1>5. CASE RemoveRoom(g)
  <2>1. /\ UNCHANGED <<seats, phase>> /\ listed' = listed \ {r} /\ go[g].pc = "remove"
        /\ Goto(g, "idle", NoRoom, 0)
    BY <1>5 DEF RemoveRoom, Rest, At
  <2>2. go'[g].pc = "idle" /\ Others(g)
    BY <1>0, <2>1, JobGoes
  <2>3. Phased(g)'
    BY <2>2 DEF Phased, BeginPCs
  <2>4. PhasesMatch'
    BY <1>1, <2>1, <2>2, <2>3, TurnMatches DEF BeginPCs
  <2> QED BY <1>1, <1>2, <2>4
<1> QED BY <1>3, <1>4, <1>5 DEF EndGame

LEMMA DropRoomMatches ==
  ASSUME LobbyInv, AtomicLobbyInv, PhasesMatch, NEW c \in Clients, DropRoom(c)
  PROVE  PhasesMatch'
<1> DEFINE g == Read(c)
<1>0. g \in Goroutines /\ LobbyTypeOK /\ ~Rests(g) /\ go[g].pc = "drop"
  BY GoroutineNames DEF DropRoom, At, Busy, Rests, LobbyInv
<1>1. Alone(g)
  BY <1>0, WhoIsAlone DEF AtomicLobbyInv
<1>2. UNCHANGED <<seats, phase>> /\ listed' = listed \ {RoomOf(g)}
  BY DEF DropRoom
<1>3. go'[g].pc = "unregister" /\ Others(g)
  BY <1>0, JobGoes DEF DropRoom
<1>4. Phased(g)'
  BY <1>3 DEF Phased, BeginPCs
<1> QED BY <1>0, <1>1, <1>2, <1>3, <1>4, TurnMatches DEF BeginPCs

\* Every step keeps them so.
LEMMA MatchStep ==
  ASSUME LobbyInv, AtomicLobbyInv, PhasesMatch, [LobbyNext]_lobbyVars
  PROVE  PhasesMatch'
<1>0. LobbyTypeOK /\ OneAtATime
  BY DEF LobbyInv, AtomicLobbyInv
<1>1. CASE Arrive \/ Hub \/ TellTimedOut
  BY <1>0, <1>1, ArrivalIsStill, StillMatches
<1>2. ASSUME NEW c \in Clients, Handler(c) PROVE PhasesMatch'
  BY <1>0, <1>2, HandlerIsStill, LeavingIsStill, StillMatches, NewRoomMatches,
     AddPlayerMatches, StartGameMatches
<1>3. ASSUME NEW c \in Clients, Disconnect(c) \/ GraceCallback(c) PROVE PhasesMatch'
  BY <1>0, <1>3, LeavingIsStill, StillMatches, DropRoomMatches
<1>4. ASSUME NEW g \in Goroutines, EndGame(g) PROVE PhasesMatch'
  BY <1>4, EndMatches
<1>5. CASE UNCHANGED lobbyVars
  <2>1. Still
    BY <1>5 DEF Still, lobbyVars, roomVars
  <2> QED BY <2>1, StillMatches
<1> QED BY <1>1, <1>2, <1>3, <1>4, <1>5 DEF LobbyNext, Work

-----------------------------------------------------------------------------
(* What the rules see.                                                     *)

Seen == [r \in Rooms |-> RoomAsSeen(r)]

LEMMA SeenParts ==
  ASSUME NEW r \in Rooms
  PROVE  /\ Seen[r] = RoomAsSeen(r)
         /\ r \notin listed => Seen[r] = LobbyGame!Closed
         /\ r \in listed => /\ Seen[r].host = InSeat(r, 0)
                            /\ Seen[r].guest = InSeat(r, 1)
                            /\ Seen[r].game = phase[r]
                            /\ Seen[r] = [host |-> InSeat(r, 0), guest |-> InSeat(r, 1),
                                          game |-> phase[r]]
BY DEF Seen, RoomAsSeen, LobbyGame!Closed

LEMMA WhoSits ==
  ASSUME LobbyTypeOK, NEW r \in Rooms, NEW i \in Seats
  PROVE  /\ seats[r][i] = NoClient => InSeat(r, i) = {}
         /\ seats[r][i] # NoClient =>
              seats[r][i] \in Clients /\ InSeat(r, i) = {SessionOf[seats[r][i]]}
BY LobbyAssumption DEF InSeat, SitsAt, LobbyTypeOK, MaybeClient

\* A step that changes nothing the rules see.
LEMMA Unseen ==
  ASSUME UNCHANGED <<seats, phase, listed>>, \A s \in Sessions : InQueue(s)' <=> InQueue(s)
  PROVE  UNCHANGED LobbyGame!lobbyRulesVars
<1>1. \A r \in Rooms : RoomAsSeen(r)' = RoomAsSeen(r)
  BY DEF RoomAsSeen, InSeat, SitsAt
<1>2. InLine' = InLine
  BY DEF InLine
<1> QED BY <1>1, <1>2 DEF LobbyGame!lobbyRulesVars

\* One room changes.
LEMMA OneSeen ==
  ASSUME NEW r \in Rooms,
         \A q \in Rooms \ {r} : /\ q \in listed' <=> q \in listed
                                /\ seats'[q] = seats[q] /\ phase'[q] = phase[q]
  PROVE  Seen' = [Seen EXCEPT ![r] = RoomAsSeen(r)']
<1>1. \A q \in Rooms \ {r} : RoomAsSeen(q)' = RoomAsSeen(q)
  BY DEF RoomAsSeen, InSeat, SitsAt
<1> QED BY <1>1 DEF Seen

LEMMA SeenAfter ==
  ASSUME NEW r \in Rooms
  PROVE  /\ r \notin listed' => RoomAsSeen(r)' = LobbyGame!Closed
         /\ r \in listed' => RoomAsSeen(r)' = [host |-> InSeat(r, 0)', guest |-> InSeat(r, 1)',
                                               game |-> phase'[r]]
BY DEF RoomAsSeen, LobbyGame!Closed

\* Nobody comes in who is somewhere already, but by another connection.
LEMMA WhoMayEnter ==
  ASSUME NEW c \in Clients, OnlyClient(c) => Nowhere(c)
  PROVE  LobbyGame!MayEnter(SessionOf[c])
<1> DEFINE s == SessionOf[c]
<1>1. SUFFICES ASSUME s \in {SessionOf[d] : d \in {d \in Clients : OnlyClient(d)}}
               PROVE  s \notin InLine /\ \A r \in Rooms : ~LobbyGame!IsIn(s, r)
  BY DEF LobbyGame!MayEnter
<1>2. Nowhere(c)
  BY <1>1 DEF OnlyClient
<1>3. ASSUME NEW r \in Rooms PROVE ~LobbyGame!IsIn(s, r)
  <2>1. LobbyGame!IsIn(s, r) <=> s \in Seen[r].host \cup Seen[r].guest
    BY DEF LobbyGame!IsIn, Seen
  <2>2. CASE r \notin listed
    <3>1. Seen[r] = LobbyGame!Closed
      BY <2>2, SeenParts
    <3> QED BY <2>1, <3>1 DEF LobbyGame!Closed
  <2>3. CASE r \in listed
    <3>1. Seen[r].host = InSeat(r, 0) /\ Seen[r].guest = InSeat(r, 1)
      BY <2>3, SeenParts
    <3> QED BY <1>2, <2>1, <2>3, <3>1 DEF Nowhere, NoRoomOf, InSeat, SitsIn, Seats
  <2> QED BY <2>2, <2>3
<1> QED BY <1>2, <1>3 DEF Nowhere, InLine

\* The step of a read loop that lets its client in.
LEMMA NewcomerMayEnter ==
  ASSUME LobbyInv, AtomicLobbyInv, NEW c \in Clients,
         go[Read(c)].pc \in {"join", "create", "sit"}
  PROVE  LobbyGame!MayEnter(SessionOf[c])
BY ReaderFacts, WhoMayEnter DEF Solo, SoloAtWork

-----------------------------------------------------------------------------
(* The steps that the rules see.                                           *)

LEMMA LineUpSeen ==
  ASSUME LobbyInv, AtomicLobbyInv, NEW c \in Clients, JoinWaits(c)
  PROVE  LobbyGame!LineUp(SessionOf[c])
<1>1. queue = <<>> /\ queue' = Append(queue, c) /\ UNCHANGED <<seats, phase, listed>>
  BY DEF JoinWaits, roomVars
<1>2. InLine = {}
  BY <1>1 DEF InLine, InQueue
<1>3. InLine' = {SessionOf[c]}
  <2>1. Len(queue') = 1 /\ queue'[1] = c
    BY <1>1
  <2>2. \A s : InQueue(s)' <=> SessionOf[c] = s
    BY <2>1 DEF InQueue
  <2> QED BY <2>2, LobbyAssumption DEF InLine
<1>4. Seen' = Seen
  BY <1>1 DEF Seen, RoomAsSeen, InSeat, SitsAt
<1>5. LobbyGame!MayEnter(SessionOf[c])
  BY NewcomerMayEnter DEF JoinWaits, At
<1> QED BY <1>2, <1>3, <1>4, <1>5 DEF LobbyGame!LineUp, Seen

LEMMA StepOutSeen ==
  ASSUME LobbyInv, UNCHANGED <<seats, phase, listed>>, NEW s \in Sessions, InQueue(s),
         Len(queue') = 0
  PROVE  LobbyGame!StepOut(s)
<1>1. InLine = {s}
  BY QueueShape DEF InLine
<1>2. InLine' = {}
  BY DEF InLine, InQueue
<1>3. Seen' = Seen
  BY DEF Seen, RoomAsSeen, InSeat, SitsAt
<1> QED BY <1>1, <1>2, <1>3 DEF LobbyGame!StepOut, Seen

LEMMA MatchSeen ==
  ASSUME LobbyInv, LobbyInv', AtomicLobbyInv, NEW c \in Clients, NEW r \in Rooms,
         JoinMatched(c, r)
  PROVE  \E t \in Sessions : LobbyGame!Match(SessionOf[c], t, r)
<1> DEFINE p == [i \in Seats |-> IF i = 0 THEN Head(queue) ELSE c]
<1>0. LobbyTypeOK /\ LobbyTypeOK'
  BY DEF LobbyInv
<1>1. PICK w \in Clients :
        /\ queue = <<w>> /\ Head(queue) = w
        /\ \A s \in Sessions : InQueue(s) <=> SessionOf[w] = s
        /\ SessionOf[w] # SessionOf[c]
  BY QueueShape, LobbyAssumption DEF JoinMatched
<1>2. p \in [Seats -> MaybeClient] /\ p[0] = w /\ p[1] = c
  BY <1>1 DEF MaybeClient, Seats
<1>3. NewRoom(r, p) /\ queue' = <<>>
  BY <1>1 DEF JoinMatched
<1> HIDE DEF p
<1>4. /\ r \notin listed /\ listed' = listed \cup {r}
      /\ seats'[r] = p /\ phase'[r] = "waiting"
  BY <1>0, <1>2, <1>3, NewRoomEffect
<1>5. \A q \in Rooms \ {r} : /\ q \in listed' <=> q \in listed
                             /\ seats'[q] = seats[q] /\ phase'[q] = phase[q]
  BY <1>0, <1>3 DEF NewRoom, LobbyTypeOK
<1>6. InSeat(r, 0)' = {SessionOf[w]} /\ InSeat(r, 1)' = {SessionOf[c]}
  BY <1>2, <1>4, LobbyAssumption DEF InSeat, SitsAt
<1>7. Seen' = [Seen EXCEPT ![r] = LobbyGame!With({SessionOf[w]}, {SessionOf[c]})]
  <2>1. RoomAsSeen(r)' = LobbyGame!With({SessionOf[w]}, {SessionOf[c]})
    BY <1>4, <1>6, SeenAfter DEF LobbyGame!With
  <2> QED BY <1>5, <2>1, OneSeen
<1>8. InLine = {SessionOf[w]} /\ InLine' = {}
  BY <1>1, <1>3, LobbyAssumption DEF InLine, InQueue
<1>9. Seen[r] = LobbyGame!Closed
  BY <1>4, SeenParts
<1>10. LobbyGame!MayEnter(SessionOf[c])
  BY NewcomerMayEnter DEF JoinMatched, At
<1>11. LobbyGame!Match(SessionOf[c], SessionOf[w], r)
  BY <1>1, <1>7, <1>8, <1>9, <1>10 DEF LobbyGame!Match, Seen
<1> QED BY <1>11, LobbyAssumption

LEMMA OpenSeen ==
  ASSUME LobbyInv, AtomicLobbyInv, NEW c \in Clients, NEW r \in Rooms, CreateRoom(c, r)
  PROVE  LobbyGame!Open(SessionOf[c], r)
<1> DEFINE p == [i \in Seats |-> IF i = 0 THEN c ELSE NoClient]
<1>0. LobbyTypeOK
  BY DEF LobbyInv
<1>1. p \in [Seats -> MaybeClient] /\ p[0] = c /\ p[1] = NoClient
  BY DEF MaybeClient, Seats
<1>2. NewRoom(r, p) /\ queue' = queue
  BY DEF CreateRoom, queueVars
<1> HIDE DEF p
<1>3. /\ r \notin listed /\ listed' = listed \cup {r}
      /\ seats'[r] = p /\ phase'[r] = "waiting"
  BY <1>0, <1>1, <1>2, NewRoomEffect
<1>4. \A q \in Rooms \ {r} : /\ q \in listed' <=> q \in listed
                             /\ seats'[q] = seats[q] /\ phase'[q] = phase[q]
  BY <1>0, <1>2 DEF NewRoom, LobbyTypeOK
<1>5. InSeat(r, 0)' = {SessionOf[c]} /\ InSeat(r, 1)' = {}
  BY <1>1, <1>3, LobbyAssumption DEF InSeat, SitsAt
<1>6. Seen' = [Seen EXCEPT ![r] = LobbyGame!With({SessionOf[c]}, {})]
  <2>1. RoomAsSeen(r)' = LobbyGame!With({SessionOf[c]}, {})
    BY <1>3, <1>5, SeenAfter DEF LobbyGame!With
  <2> QED BY <1>4, <2>1, OneSeen
<1>7. InLine' = InLine
  BY <1>2 DEF InLine, InQueue
<1>8. Seen[r] = LobbyGame!Closed
  BY <1>3, SeenParts
<1>9. LobbyGame!MayEnter(SessionOf[c])
  BY NewcomerMayEnter DEF CreateRoom, At
<1> QED BY <1>6, <1>7, <1>8, <1>9 DEF LobbyGame!Open, Seen

\* The seats of a room that is listed, as the rules see them.
LEMMA SeatsSeen ==
  ASSUME LobbyInv, NEW r \in listed
  PROVE  /\ r \in Rooms /\ Seen[r].game = phase[r]
         /\ Full(r) => LobbyGame!Pair(r)
         /\ ~Full(r) => LobbyGame!HostOnly(r) /\ seats[r][1] = NoClient
<1>1. r \in Rooms /\ LobbyTypeOK /\ 0 \in Seats /\ 1 \in Seats
  BY DEF LobbyInv, LobbyTypeOK, Seats
<1>2. seats[r][0] # NoClient
  BY <1>1 DEF LobbyInv, FirstSeatTaken, Known, Reached
<1>3. Seen[r].host # {} /\ (Seen[r].guest = {} <=> seats[r][1] = NoClient)
  <2>1. Seen[r].host = InSeat(r, 0) /\ Seen[r].guest = InSeat(r, 1)
    BY <1>1, SeenParts
  <2>2. InSeat(r, 0) # {} /\ (InSeat(r, 1) = {} <=> seats[r][1] = NoClient)
    BY <1>1, <1>2, WhoSits
  <2> QED BY <2>1, <2>2
<1> QED BY <1>1, <1>2, <1>3, SeenParts DEF Full, LobbyGame!Pair, LobbyGame!HostOnly, Seen

\* The free seat of a room is taken.
LEMMA GuestSeen ==
  ASSUME LobbyInv, NEW r \in listed, NEW c \in Clients, UNCHANGED <<phase, listed>>,
         seats' = [seats EXCEPT ![r][1] = c]
  PROVE  Seen' = [Seen EXCEPT ![r].guest = {SessionOf[c]}]
<1>1. /\ r \in Rooms /\ seats'[r][0] = seats[r][0] /\ seats'[r][1] = c
      /\ \A q \in Rooms \ {r} : seats'[q] = seats[q]
  BY DEF LobbyInv, LobbyTypeOK, Seats
<1>2. InSeat(r, 0)' = InSeat(r, 0) /\ InSeat(r, 1)' = {SessionOf[c]}
  BY <1>1, LobbyAssumption DEF InSeat, SitsAt
<1>3. RoomAsSeen(r)' = [Seen[r] EXCEPT !.guest = {SessionOf[c]}]
  <2>1. Seen[r] = [host |-> InSeat(r, 0), guest |-> InSeat(r, 1), game |-> phase[r]]
    BY <1>1, SeenParts
  <2>2. RoomAsSeen(r)' = [host |-> InSeat(r, 0)', guest |-> InSeat(r, 1)', game |-> phase'[r]]
    BY <1>1, SeenAfter
  <2> QED BY <1>2, <2>1, <2>2
<1>4. Seen' = [Seen EXCEPT ![r] = [Seen[r] EXCEPT !.guest = {SessionOf[c]}]]
  BY <1>1, <1>3, OneSeen
<1> QED BY <1>4

LEMMA JoinSeen ==
  ASSUME LobbyInv, LobbyInv', AtomicLobbyInv, PhasesMatch, NEW c \in Clients, AddPlayer(c)
  PROVE  \/ UNCHANGED LobbyGame!lobbyRulesVars
         \/ \E r \in Rooms : LobbyGame!Join(SessionOf[c], r)
<1> DEFINE g == Read(c)
           r == RoomOf(g)
<1>0. g \in Goroutines /\ LobbyTypeOK /\ ~Rests(g) /\ go[g].pc = "sit"
  BY GoroutineNames DEF AddPlayer, At, Busy, Rests, LobbyInv
<1>1. Alone(g) /\ r \in listed /\ r \in Rooms /\ phase[r] \in {"waiting", "playing"}
  BY <1>0, WhoIsAlone, ReaderFacts, NoneFinished DEF AtomicLobbyInv, RoomPCs, LobbyTypeOK
<1>2. UNCHANGED <<queue, phase, listed>>
  BY DEF AddPlayer, queueVars
<1>3. CASE UNCHANGED seats
  BY <1>2, <1>3, Unseen DEF InQueue
<1>4. CASE ~Full(r) /\ seats' = [seats EXCEPT ![r][1] = c]
  <2>1. phase[r] = "waiting"
    BY <1>1, <1>4 DEF PhasesMatch, GameMatches
  <2>2. LobbyGame!HostOnly(r) /\ Seen[r].game = "waiting"
    BY <1>1, <1>4, <2>1, SeatsSeen
  <2>3. Seen' = [Seen EXCEPT ![r].guest = {SessionOf[c]}]
    BY <1>1, <1>2, <1>4, GuestSeen
  <2>4. InLine' = InLine
    BY <1>2 DEF InLine, InQueue
  <2>5. LobbyGame!MayEnter(SessionOf[c])
    BY <1>0, NewcomerMayEnter
  <2>6. LobbyGame!Join(SessionOf[c], r)
    BY <2>2, <2>3, <2>4, <2>5 DEF LobbyGame!Join, Seen
  <2> QED BY <1>1, <2>6
<1> QED BY <1>3, <1>4 DEF AddPlayer

\* The game of a room moves on.
LEMMA PhaseSeen ==
  ASSUME LobbyInv, NEW r \in listed, NEW x, UNCHANGED <<queue, seats, listed>>,
         phase' = [phase EXCEPT ![r] = x]
  PROVE  Seen' = [Seen EXCEPT ![r].game = x] /\ InLine' = InLine
<1>1. r \in Rooms /\ phase'[r] = x /\ \A q \in Rooms \ {r} : phase'[q] = phase[q]
  BY DEF LobbyInv, LobbyTypeOK
<1>2. InSeat(r, 0)' = InSeat(r, 0) /\ InSeat(r, 1)' = InSeat(r, 1)
  BY DEF InSeat, SitsAt
<1>3. RoomAsSeen(r)' = [Seen[r] EXCEPT !.game = x]
  <2>1. Seen[r] = [host |-> InSeat(r, 0), guest |-> InSeat(r, 1), game |-> phase[r]]
    BY <1>1, SeenParts
  <2>2. RoomAsSeen(r)' = [host |-> InSeat(r, 0)', guest |-> InSeat(r, 1)', game |-> phase'[r]]
    BY <1>1, SeenAfter
  <2> QED BY <1>1, <1>2, <2>1, <2>2
<1>4. Seen' = [Seen EXCEPT ![r] = [Seen[r] EXCEPT !.game = x]]
  BY <1>1, <1>3, OneSeen
<1> QED BY <1>4 DEF InLine, InQueue

LEMMA BeginSeen ==
  ASSUME LobbyInv, AtomicLobbyInv, PhasesMatch, NEW c \in Clients, StartGame(c)
  PROVE  \E r \in Rooms : LobbyGame!Begin(r)
<1> DEFINE r == RoomOf(Read(c))
<1>1. r \in listed /\ Full(r) /\ phase[r] = "waiting"
  BY StartGameMatches
<1>2. UNCHANGED <<queue, seats, listed>> /\ phase' = [phase EXCEPT ![r] = "playing"]
  BY DEF StartGame, queueVars
<1> HIDE DEF r
<1>3. Seen' = [Seen EXCEPT ![r].game = "playing"] /\ InLine' = InLine
  BY <1>1, <1>2, PhaseSeen
<1>4. r \in Rooms /\ LobbyGame!Pair(r) /\ Seen[r].game = "waiting"
  BY <1>1, SeatsSeen
<1>5. LobbyGame!Begin(r)
  BY <1>3, <1>4 DEF LobbyGame!Begin, Seen
<1> QED BY <1>4, <1>5

LEMMA FinishSeen ==
  ASSUME LobbyInv, AtomicLobbyInv, PhasesMatch, NEW g \in Goroutines, SetFinished(g)
  PROVE  \E r \in Rooms : LobbyGame!Finish(r)
<1> DEFINE r == RoomOf(g)
<1>0. ~Rests(g) /\ go[g].pc = "finish" /\ LobbyTypeOK
  BY DEF SetFinished, At, Busy, Rests, LobbyInv
<1>1. r \in listed /\ Alone(g)
  BY <1>0, EndMatches, WhoIsAlone DEF EndGame, AtomicLobbyInv
<1>2. UNCHANGED <<queue, seats, listed>> /\ phase' = [phase EXCEPT ![r] = "finished"]
  BY DEF SetFinished, queueVars
<1>3. Seen' = [Seen EXCEPT ![r].game = "finished"] /\ InLine' = InLine
  BY <1>1, <1>2, PhaseSeen
<1>4. phase[r] = "playing" \/ (phase[r] = "waiting" /\ ~Full(r))
  <2>1. phase[r] \in {"waiting", "playing"}
    BY <1>0, <1>1, NoneFinished DEF AtomicLobbyInv, LobbyTypeOK
  <2>2. phase[r] = "waiting" => ~Full(r)
    BY <1>0, <1>1 DEF PhasesMatch, GameMatches, Alone, Busy, BeginPCs
  <2> QED BY <2>1, <2>2
<1>5. /\ r \in Rooms /\ Seen[r].game = phase[r]
      /\ ~Full(r) => LobbyGame!HostOnly(r)
  BY <1>1, SeatsSeen
<1>6. LobbyGame!Finish(r)
  BY <1>3, <1>4, <1>5 DEF LobbyGame!Finish, Seen
<1> QED BY <1>5, <1>6

\* A room goes from the registry.
LEMMA CloseSeen ==
  ASSUME LobbyInv, NEW r \in listed, phase[r] = "finished" \/ ~Full(r),
         UNCHANGED <<queue, seats, phase>>, listed' = listed \ {r}
  PROVE  r \in Rooms /\ LobbyGame!Close(r)
<1>1. r \in Rooms /\ Seen[r].game = phase[r] /\ (~Full(r) => LobbyGame!HostOnly(r))
  BY SeatsSeen
<1>2. RoomAsSeen(r)' = LobbyGame!Closed
  BY <1>1, SeenAfter
<1>3. Seen' = [Seen EXCEPT ![r] = LobbyGame!Closed]
  BY <1>1, <1>2, OneSeen
<1>4. InLine' = InLine
  BY DEF InLine, InQueue
<1> QED BY <1>1, <1>3, <1>4 DEF LobbyGame!Close, Seen

-----------------------------------------------------------------------------
(* Every step is one of the rules, or they do not see it.                  *)

RulesStep == [LobbyGame!LobbyRulesNext]_LobbyGame!lobbyRulesVars

\* The queue.
LEMMA JoinAgainUnseen ==
  ASSUME LobbyInv, NEW c \in Clients, JoinAgain(c)
  PROVE  UNCHANGED LobbyGame!lobbyRulesVars
<1>1. PICK k \in 1..Len(queue) :
        SessionOf[queue[k]] = SessionOf[c] /\ queue' = [queue EXCEPT ![k] = c]
  BY DEF JoinAgain
<1>2. InQueue(SessionOf[c])
  BY <1>1 DEF InQueue
<1>3. PICK w \in Clients :
        /\ queue = <<w>> /\ Len(queue) = 1 /\ queue[1] = w
        /\ \A s \in Sessions : InQueue(s) <=> SessionOf[w] = s
  BY <1>2, QueueShape, LobbyAssumption
<1>4. k = 1 /\ SessionOf[w] = SessionOf[c]
  BY <1>1, <1>3
<1>5. Len(queue') = 1 /\ queue'[1] = c
  BY <1>1, <1>3, <1>4, ExceptSeq DEF LobbyInv, LobbyTypeOK
<1>6. \A s \in Sessions : InQueue(s)' <=> InQueue(s)
  BY <1>3, <1>4, <1>5 DEF InQueue
<1> QED BY <1>6, Unseen DEF JoinAgain, roomVars

LEMMA LeaveQueueSeen ==
  ASSUME LobbyInv, NEW c \in Clients, NEW pc, NEW next, LeaveQueue(c, pc, next)
  PROVE  RulesStep
<1> DEFINE s == SessionOf[c]
<1>1. UNCHANGED <<seats, phase, listed>> /\ s \in Sessions
  BY LobbyAssumption DEF LeaveQueue, roomVars
<1>2. CASE UNCHANGED queue
  BY <1>1, <1>2, Unseen DEF InQueue, RulesStep
<1>3. ASSUME NEW k \in 1..Len(queue), SessionOf[queue[k]] = s,
             queue' = SubSeq(queue, 1, k - 1) \o SubSeq(queue, k + 1, Len(queue))
      PROVE  RulesStep
  <2>1. InQueue(s)
    BY <1>3 DEF InQueue
  <2>2. Len(queue') = 0
    BY <1>3, ShortQueue, Zenon DEF LobbyInv, LobbyTypeOK, QueueIsShort
  <2>3. LobbyGame!StepOut(s)
    BY <1>1, <2>1, <2>2, StepOutSeen
  <2> QED BY <1>1, <2>3 DEF RulesStep, LobbyGame!LobbyRulesNext
<1> QED BY <1>2, <1>3 DEF LeaveQueue

LEMMA CleanUpSeen ==
  ASSUME LobbyInv, CleanUp
  PROVE  RulesStep
<1>1. PICK k \in 1..Len(queue) : queue' = SubSeq(queue, k + 1, Len(queue))
  BY DEF CleanUp
<1>2. PICK w \in Clients :
        /\ queue = <<w>> /\ Len(queue) = 1
        /\ \A s \in Sessions : InQueue(s) <=> SessionOf[w] = s
  <2>1. queue # <<>>
    BY <1>1
  <2> QED BY <2>1, QueueShape
<1>3. Len(queue') = 0
  <2>1. queue' = SubSeq(queue, 2, 1)
    BY <1>1, <1>2
  <2> QED BY <2>1, SubSeqEmpty DEF LobbyInv, LobbyTypeOK
<1>4. SessionOf[w] \in Sessions /\ LobbyGame!StepOut(SessionOf[w])
  BY <1>2, <1>3, StepOutSeen, LobbyAssumption DEF CleanUp, roomVars
<1> QED BY <1>4 DEF RulesStep, LobbyGame!LobbyRulesNext

\* A message's handler.
LEMMA HandlerSeen ==
  ASSUME LobbyInv, LobbyInv', AtomicLobbyInv, PhasesMatch, NEW c \in Clients, Handler(c)
  PROVE  RulesStep
<1> DEFINE s == SessionOf[c]
<1>0. s \in Sessions
  BY LobbyAssumption
<1>1. CASE JoinWaits(c)
  BY <1>0, <1>1, LineUpSeen DEF RulesStep, LobbyGame!LobbyRulesNext
<1>2. CASE StartGame(c)
  BY <1>2, BeginSeen DEF RulesStep, LobbyGame!LobbyRulesNext
<1>3. ASSUME NEW r \in Rooms, JoinMatched(c, r) PROVE RulesStep
  BY <1>0, <1>3, MatchSeen DEF RulesStep, LobbyGame!LobbyRulesNext
<1>4. ASSUME NEW r \in Rooms, CreateRoom(c, r) PROVE RulesStep
  BY <1>0, <1>4, OpenSeen DEF RulesStep, LobbyGame!LobbyRulesNext
<1>5. CASE AddPlayer(c)
  BY <1>0, <1>5, JoinSeen DEF RulesStep, LobbyGame!LobbyRulesNext
<1>6. CASE JoinAgain(c)
  BY <1>6, JoinAgainUnseen DEF RulesStep
<1>7. CASE LeaveQueue(c, "dequeue", "toLobby")
  BY <1>7, LeaveQueueSeen
<1>8. CASE \/ TellMatched(c) \/ Wait(c) \/ LookUp(c) \/ EnterGame(c) \/ TellHost(c)
           \/ FindToLeave(c) \/ LeaveRoom(c) \/ ClearConnection(c) \/ QuitToLobby(c)
           \/ ToLobby(c) \/ FindToReconnect(c) \/ CheckReconnect(c) \/ SetConnection(c)
           \/ Reconnected(c)
  <2>1. UNCHANGED <<queue, seats, phase, listed>>
    BY <1>8 DEF TellMatched, Wait, LookUp, EnterGame, TellHost, FindToLeave, LeaveRoom,
       ClearConnection, QuitToLobby, ToLobby, FindToReconnect, CheckReconnect,
       SetConnection, Reconnected, queueVars, roomVars
  <2> QED BY <2>1, Unseen DEF InQueue, RulesStep
<1> QED BY <1>1, <1>2, <1>3, <1>4, <1>5, <1>6, <1>7, <1>8 DEF Handler

\* The end of a connection, a grace period or a game.
LEMMA EndSeen ==
  ASSUME LobbyInv, AtomicLobbyInv, PhasesMatch,
         \/ \E c \in Clients : Disconnect(c) \/ GraceCallback(c)
         \/ \E g \in Goroutines : EndGame(g)
  PROVE  RulesStep
<1>1. ASSUME NEW c \in Clients, DropRoom(c) PROVE RulesStep
  <2> DEFINE r == RoomOf(Read(c))
  <2>1. go[Read(c)].pc = "drop" /\ UNCHANGED <<queue, seats, phase>> /\ listed' = listed \ {r}
    BY <1>1 DEF DropRoom, At, queueVars
  <2>2. r \in listed /\ ~Full(r)
    BY <2>1, ReaderFacts DEF ReaderKnows, RoomPCs
  <2>3. r \in Rooms /\ LobbyGame!Close(r)
    BY <2>1, <2>2, CloseSeen
  <2> QED BY <2>3 DEF RulesStep, LobbyGame!LobbyRulesNext
<1>2. ASSUME NEW c \in Clients, LeaveQueue(c, "forget", "unregister") PROVE RulesStep
  BY <1>2, LeaveQueueSeen
<1>3. ASSUME NEW c \in Clients,
             \/ FindLost(c) \/ ClearConnectionIf(c) \/ CheckAlone(c) \/ StartGrace(c)
             \/ Unregister(c) \/ Close(c) \/ GraceCallback(c)
      PROVE  RulesStep
  <2>1. UNCHANGED <<queue, seats, phase, listed>>
    BY <1>3 DEF FindLost, ClearConnectionIf, CheckAlone, StartGrace, Unregister, Close,
       GraceCallback, GraceWakes, CheckAbsent, queueVars, roomVars
  <2> QED BY <2>1, Unseen DEF InQueue, RulesStep
<1>4. ASSUME NEW g \in Goroutines, SetFinished(g) PROVE RulesStep
  BY <1>4, FinishSeen DEF RulesStep, LobbyGame!LobbyRulesNext
<1>5. ASSUME NEW g \in Goroutines, ResetPlayersToLobby(g) PROVE RulesStep
  <2>1. UNCHANGED <<queue, seats, phase, listed>>
    BY <1>5 DEF ResetPlayersToLobby, queueVars, roomVars
  <2> QED BY <2>1, Unseen DEF InQueue, RulesStep
<1>6. ASSUME NEW g \in Goroutines, RemoveRoom(g) PROVE RulesStep
  <2> DEFINE r == RoomOf(g)
  <2>1. /\ At(g, "remove") /\ UNCHANGED <<queue, seats, phase>> /\ listed' = listed \ {r}
        /\ EndGame(g)
    BY <1>6 DEF RemoveRoom, EndGame, queueVars
  <2>2. r \in listed /\ phase[r] = "finished"
    BY <2>1, EndMatches DEF At
  <2>3. r \in Rooms /\ LobbyGame!Close(r)
    BY <2>1, <2>2, CloseSeen
  <2> QED BY <2>3 DEF RulesStep, LobbyGame!LobbyRulesNext
<1> QED BY <1>1, <1>2, <1>3, <1>4, <1>5, <1>6 DEF Disconnect, EndGame

LEMMA StepSeen ==
  ASSUME LobbyInv, LobbyInv', AtomicLobbyInv, PhasesMatch, [LobbyNext]_lobbyVars
  PROVE  RulesStep
<1>1. CASE Work /\ ~(Hub \/ TellTimedOut)
  BY <1>1, HandlerSeen, EndSeen DEF Work
<1>2. CASE CleanUp
  BY <1>2, CleanUpSeen
<1>3. CASE Hub \/ TellTimedOut \/ (Arrive /\ ~CleanUp) \/ UNCHANGED lobbyVars
  <2>1. UNCHANGED <<queue, seats, phase, listed>>
    BY <1>3 DEF Hub, HubRegister, HubUnregister, TellTimedOut, Arrive, Register, Lose,
       GraceOver, Receive, GameOver, lobbyVars, queueVars, roomVars
  <2> QED BY <2>1, Unseen DEF InQueue, RulesStep
<1> QED BY <1>1, <1>2, <1>3 DEF LobbyNext, Work

LEMMA InitSeen ==
  ASSUME LobbyInit
  PROVE  PhasesMatch /\ LobbyGame!LobbyRulesInit
<1>1. PhasesMatch
  BY DEF LobbyInit, PhasesMatch, Phased, BeginPCs
<1>2. InLine = {}
  BY EmptySeq DEF LobbyInit, InLine, InQueue
<1>3. Seen = [r \in Rooms |-> LobbyGame!Closed]
  BY DEF LobbyInit, Seen, RoomAsSeen, LobbyGame!Closed
<1> QED BY <1>1, <1>2, <1>3 DEF LobbyGame!LobbyRulesInit, Seen

\* The lobby with atomic handlers implements LobbyRules: whatever the sizes of
\* the sets, joinQueue, createRoom, joinRoom, leaveRoom, disconnections and the
\* ends of games do to a session or a room no more than the rules allow.
THEOREM LobbyPlaysByTheRules == BusyBound = 1 /\ LobbySpec => ImplementsLobbyRules
<1> SUFFICES ASSUME BusyBound = 1 PROVE LobbySpec => ImplementsLobbyRules
  OBVIOUS
<1>1. LobbyInit => PhasesMatch /\ LobbyGame!LobbyRulesInit
  BY InitSeen
<1>2. LobbyInv /\ AtomicLobbyInv /\ PhasesMatch /\ [LobbyNext]_lobbyVars => PhasesMatch'
  BY MatchStep
<1>3. LobbyInv /\ LobbyInv' /\ AtomicLobbyInv /\ PhasesMatch /\ [LobbyNext]_lobbyVars
        => [LobbyGame!LobbyRulesNext]_LobbyGame!lobbyRulesVars
  BY StepSeen DEF RulesStep
<1> QED BY <1>1, <1>2, <1>3, LobbyInitInv, LobbyStep, AtomicInit, AtomicStep, PTL
        DEF LobbySpec, ImplementsLobbyRules, LobbyGame!LobbyRulesSpec
=============================================================================
