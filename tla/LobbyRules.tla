----------------------------- MODULE LobbyRules -----------------------------
(***************************************************************************)
(* The lobby as its players see it: a line of those who want any opponent, *)
(* and rooms that are opened, joined, played in and closed.  No            *)
(* connections, goroutines or half-done handlers: each step is something   *)
(* that happens to a session or a room as a whole.  This is what Lobby is  *)
(* to implement while its handlers are atomic.                             *)
(*                                                                         *)
(* Single are the sessions that never have two connections: each of them   *)
(* is in one place.  One that has several may enter with each of them.     *)
(***************************************************************************)
CONSTANTS Sessions, Rooms, Single

VARIABLES line,     \* the sessions that wait to be matched
          room      \* who is in each room, and how far its game is

lobbyRulesVars == <<line, room>>

\* A seat is the set of who sits in it.
Closed == [host |-> {}, guest |-> {}, game |-> "none"]
With(h, g) == [host |-> h, guest |-> g, game |-> "waiting"]

LobbyRulesInit == line = {} /\ room = [r \in Rooms |-> Closed]

IsIn(s, r) == s \in room[r].host \cup room[r].guest
\* JoinQueue asks whether the session has an entry; that it is in no room either is
\* what its client's state, "lobby", has to mean.
MayEnter(s) == s \in Single => s \notin line /\ \A r \in Rooms : ~IsIn(s, r)
HostOnly(r) == room[r].host # {} /\ room[r].guest = {}
Pair(r) == room[r].host # {} /\ room[r].guest # {}

-----------------------------------------------------------------------------
(* The line: nobody waits there with somebody else.                        *)

LineUp(s) ==
  /\ line = {} /\ MayEnter(s)
  /\ line' = {s}
  /\ UNCHANGED room

\* By leaving, being lost, or waiting too long.
StepOut(s) ==
  /\ s \in line
  /\ line' = line \ {s}
  /\ UNCHANGED room

\* Who comes is put in a room with who waits.
Match(s, t, r) ==
  /\ t \in line /\ s # t /\ MayEnter(s)
  /\ room[r] = Closed
  /\ room' = [room EXCEPT ![r] = With({t}, {s})]
  /\ line' = line \ {t}

-----------------------------------------------------------------------------
(* A room: opened by one, joined by another, played in by both, and closed *)
(* when its game is over or when there never was one.                      *)

Open(s, r) ==
  /\ MayEnter(s)
  /\ room[r] = Closed
  /\ room' = [room EXCEPT ![r] = With({s}, {})]
  /\ UNCHANGED line

Join(s, r) ==
  /\ MayEnter(s)
  /\ HostOnly(r) /\ room[r].game = "waiting"
  /\ room' = [room EXCEPT ![r].guest = {s}]
  /\ UNCHANGED line

Begin(r) ==
  /\ Pair(r) /\ room[r].game = "waiting"
  /\ room' = [room EXCEPT ![r].game = "playing"]
  /\ UNCHANGED line

\* Whose room is still empty may leave it as a game is left.
Finish(r) ==
  /\ \/ room[r].game = "playing"
     \/ room[r].game = "waiting" /\ HostOnly(r)
  /\ room' = [room EXCEPT ![r].game = "finished"]
  /\ UNCHANGED line

Close(r) ==
  /\ room[r].game = "finished" \/ HostOnly(r)
  /\ room' = [room EXCEPT ![r] = Closed]
  /\ UNCHANGED line

LobbyRulesNext ==
  \/ \E s \in Sessions : LineUp(s) \/ StepOut(s)
  \/ \E s, t \in Sessions, r \in Rooms : Match(s, t, r)
  \/ \E s \in Sessions, r \in Rooms : Open(s, r) \/ Join(s, r)
  \/ \E r \in Rooms : Begin(r) \/ Finish(r) \/ Close(r)

LobbyRulesSpec == LobbyRulesInit /\ [][LobbyRulesNext]_lobbyRulesVars
=============================================================================
