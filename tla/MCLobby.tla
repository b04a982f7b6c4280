------------------------------ MODULE MCLobby ------------------------------
(***************************************************************************)
(* Lobby made finite for TLC.                                              *)
(***************************************************************************)
EXTENDS LobbyRefinement, TLC

CONSTANTS a1, a2, A

\* Session A has the connections a1 and a2; the others have one connection, and
\* go by its name.
Owner == [c \in Clients |-> IF c \in {a1, a2} THEN A ELSE c]
Names == {Owner[c] : c \in Clients}
=============================================================================
