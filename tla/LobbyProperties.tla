-------------------------- MODULE LobbyProperties --------------------------
(***************************************************************************)
(* What the lobby promises.                                                *)
(***************************************************************************)
EXTENDS Lobby

-----------------------------------------------------------------------------
(* Under any schedule.                                                     *)

\* A connection that is open, and that its own read loop has not given up, is
\* the one its session is known by, however the hub's goroutine and the
\* connections' ends interleave: an old connection that unregisters late does
\* not take the new one with it, and one that is replaced is closed.
KnownWhileOpen ==
  \A c \in Clients :
    \/ At(Read(c), "new") \/ hubJob = [op |-> "register", client |-> c]
    \/ At(Read(c), "close") \/ closed[c]
    \/ hub[SessionOf[c]] = c

\* A seat once taken is kept, by whom it was taken: of two players who find
\* the same free seat one is refused.
SeatsAreKept ==
  [][\A r \in Rooms : \A i \in Seats :
       Reached(r) /\ seats[r][i] # NoClient => seats'[r][i] = seats[r][i]]_lobbyVars

\* Goroutine g will see to seat i of room r, whose player is away: the player's
\* read loop on its way to start the grace period, the grace period itself, or
\* whoever ends the game or drops the room.
Attends(g, r, i) ==
  /\ RoomOf(g) = r
  /\ \/ go[g].pc \in {"alone", "warn", "sleep", "due", "absent"} /\ SeatIn(g) = i
     \/ go[g].pc \in {"drop", "quit", "finish", "reset", "remove"}

\* A player without a connection is never forgotten: in every room that can be
\* found somebody is under way who will see to it, however losses, returns,
\* departures and ends of the game interleave.  (A check that gives up because
\* the room is no longer active leaves it to whoever finished the game.)
AbsentAreWatched ==
  \A r \in listed : \A i \in Seats :
    seats[r][i] # NoClient /\ conn[r][i] = NoClient =>
      \E g \in Goroutines : Attends(g, r, i)

-----------------------------------------------------------------------------
(* While handlers and callbacks are atomic (BusyBound is 1).               *)

NobodyBusy == BusyNow = 0

Waits(s) == InQueue(s) \/ \E r \in listed : SitsIn(s, r) /\ ~Full(r)
Plays(s) == \E r \in listed : SitsIn(s, r) /\ Full(r)
OnlyClient(c) == \A d \in Clients : SessionOf[d] = SessionOf[c] => d = c

\* A client's state, which decides what messages it may send, says where its
\* session is: waiting in the queue or in a room, playing, or neither.  (For
\* sessions with one connection: see README for the others.)
StatesAgree ==
  NobodyBusy =>
    \A c \in Clients : OnlyClient(c) /\ At(Read(c), "idle") =>
      /\ clientState[c] = "waiting" <=> Waits(SessionOf[c])
      /\ clientState[c] = "in_game" <=> Plays(SessionOf[c])

\* Such a session is in one place: the queue or a single room.
OnePlace ==
  \A c \in Clients : OnlyClient(c) =>
    Cardinality({r \in listed : SitsIn(SessionOf[c], r)})
      + Cardinality({k \in 1..Len(queue) : queue[k] = c}) <= 1

\* No such player is left behind by a connection that is gone: neither in a
\* room, where the opponent would wait for ever, nor in the queue, where the
\* next one to join would get an opponent who is not there.
Ghost(c) == c # NoClient /\ go[Read(c)].pc \in {"close", "done"} /\ OnlyClient(c)
NoGhosts ==
  /\ \A r \in listed : \A i \in Seats : ~Ghost(conn[r][i])
  /\ \A k \in 1..Len(queue) : ~Ghost(queue[k])

Forfeits(c) == At(Grace(c), "finish") /\ go'[Grace(c)].pc = "reset"

\* Whoever loses the game by staying away stayed away for the whole grace
\* period: the callback belongs to the disconnection that is in force.
GraceIsFull ==
  [][\A c \in Clients : Forfeits(c) =>
       awayBy[RoomOf(Grace(c))][SeatIn(Grace(c))] = c]_lobbyVars

\* A client that waits, and is its session's connection, waits for something.
WaitersWait ==
  NobodyBusy =>
    \A c \in Clients :
      At(Read(c), "idle") /\ hub[SessionOf[c]] = c /\ clientState[c] = "waiting"
        => Waits(SessionOf[c])

-----------------------------------------------------------------------------
(* What must happen.                                                       *)

\* A player who has lost the connection comes back, or the room goes: the
\* opponent is not left in a game that cannot go on.
AbsentAreForfeited ==
  \A r \in Rooms : \A i \in Seats :
    (r \in listed /\ Full(r) /\ conn[r][i] = NoClient)
      ~> (r \notin listed \/ conn[r][i] # NoClient)
=============================================================================
