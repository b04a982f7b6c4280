------------------------ MODULE PlateCountProperties ------------------------
(***************************************************************************)
(* The plates that a client can get and the plates that the rules of the   *)
(* game work with.                                                         *)
(***************************************************************************)
EXTENDS TurnGame, PlateCount

\* Whatever number a client sends gives a room that can be played in, the ones
\* that overflow when ClampPlateCount rounds them up included; and a game that
\* the rules allow is one that a client can get, unless it has too many plates.
RoomsArePlayable ==
  /\ PlatesArePlayable
  /\ Cardinality(DOMAIN plate) <= MaxPlates =>
       \E n \in Ints : CreatedPlates(n) = Cardinality(DOMAIN plate)
=============================================================================
