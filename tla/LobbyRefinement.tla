-------------------------- MODULE LobbyRefinement --------------------------
(***************************************************************************)
(* A lobby whose handlers are atomic implements LobbyRules: a room is what *)
(* the registry lists, and whoever the queue holds is in line.             *)
(***************************************************************************)
EXTENDS LobbyProperties

InLine == {s \in Sessions : InQueue(s)}

\* Who sits in a seat.
InSeat(r, i) == {s \in Sessions : SitsAt(s, r, i)}

RoomAsSeen(r) ==
  IF r \in listed
  THEN [host |-> InSeat(r, 0), guest |-> InSeat(r, 1), game |-> phase[r]]
  ELSE [host |-> {}, guest |-> {}, game |-> "none"]

LobbyGame == INSTANCE LobbyRules WITH
  Single <- {SessionOf[c] : c \in {d \in Clients : OnlyClient(d)}},
  line   <- InLine,
  room   <- [r \in Rooms |-> RoomAsSeen(r)]

\* While handlers are atomic, every step of a handler, a callback or the
\* clean-up of the queue is a step of the rules or invisible to them: nobody
\* enters who is somewhere already, a game begins with two players and once,
\* ends once, and its room stays until then.
ImplementsLobbyRules == LobbyGame!LobbyRulesSpec
=============================================================================
