------------------------- MODULE DeliveryProperties -------------------------
(***************************************************************************)
(* What connections and broadcasts promise, under any schedule.            *)
(***************************************************************************)
EXTENDS Delivery

\* One goroutine at a time writes to a connection, as gorilla/websocket asks,
\* though the pump and every broadcast write directly.
OneWriter ==
  LET writers == {g \in Goroutines : At(g, "write")}
  IN \A g, h \in writers : Target(g) = Target(h) => g = h

\* No broadcast writes to a connection that has been closed meanwhile.
NoDirectWriteAfterClose ==
  \A g \in Players : At(g, "write") => Target(g) \notin cut

\* Nobody sends on a closed channel, which would panic and take the server
\* with it: the client is not closed between SendMessage's check and its send,
\* whichever goroutine sends to it.
NoSendOnClosed ==
  \A g \in Players : At(g, "put") => ~closed[Target(g)]

\* Nothing is under way that shows the game: no broadcast of it, and no answer to
\* a reconnection or word of its start, which one will follow.
Announces(g) ==
  \/ Kind(g) = "matched" /\ job[g].at \in {"look", "answer", "put"}
  \/ Kind(g) = "reconnected" /\ job[g].at \in {"answer", "put"}
Showing(g) == Announces(g) \/ (job[g].at \in Writing /\ ShowsGame(g))
Settled == \A g \in Players : ~Showing(g)
Open(c) == hub[SeatOf[c]] = c /\ ~closed[c] /\ c \notin broken

\* The start of the game and every change of the room reach every connection that
\* was registered when it came about and still works: it has been sent a state at
\* least as new, whichever connections came, went or were replaced during the
\* broadcast, and though "matched" may have been dropped.  So has a connection
\* that was registered when it reconnected, of what the room was then.
EveryChangeIsShown ==
  Settled => \A c \in Clients : Open(c) => newest[c] >= due[c]

\* The state follows a reconnection: when nothing is under way any more, the
\* player who came back has been sent the game as it is.
StateFollows ==
  AllRest => \A c \in Clients :
               state[c] = "InGame" /\ Open(c) /\ ~IsFirst(c) => view[c] = version

-----------------------------------------------------------------------------
(* What must happen.                                                       *)

\* Every goroutine comes to the end of what it does, although a broadcast waits
\* for the hub, which may be closing a connection, which may be waiting for
\* another broadcast to a slow peer, or for a pump, which waits for its turn;
\* and no answer stays in the channel of an open connection.
Unsent == {c \in Clients : send[c] # <<>> /\ ~closed[c]}
ComeToRest == []<>(AllRest /\ Unsent = {})

\* A connection whose peer is gone, or on which a write has failed, is closed
\* and forgotten by the hub.
Forgotten == {c \in cut : hub[SeatOf[c]] # c}
GoneAreForgotten == []<>(lost \cup broken \subseteq Forgotten)
=============================================================================
