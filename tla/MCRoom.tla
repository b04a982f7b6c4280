------------------------------- MODULE MCRoom -------------------------------
(***************************************************************************)
(* Room made finite for TLC.                                               *)
(***************************************************************************)
EXTENDS RoomRefinement, TLC, SequencesExt

CONSTANTS PurseBound,   \* tokens in the two purses together
          TokenBound,   \* tokens under all plates together
          Leavers       \* the players that may leave

\* Misses and timeouts fill the purses without end, and matches the plates;
\* a room can be closed by two goroutines, and no more reports are of use.  A
\* confirmation that finds no slot for its callback would wait for one, which
\* only the bound on slots makes possible.
Bounded ==
  /\ playerTokens[0] + playerTokens[1] <= PurseBound
  /\ FoldFunction(+, 0, tokens) <= TokenBound
  /\ \A i \in Players \ Leavers : go[i].why # "forfeit"
  /\ Len(reports) <= 2
  /\ (\E i \in Players : At(i, "confirm") /\ CanConfirm(i)) =>
       \E s \in Slots : At(s, "idle")

\* No operation tells one plate from another, nor one goroutine slot.
Symmetric == Permutations(Plates) \cup Permutations(Slots)

\* Symmetry is unsound for liveness.  There the players place their tokens
\* from the first plate to the last instead: which plates carry which counts
\* is then the same up to renaming.
PlateOrder == SetToSeq(Plates)
InOrder ==
  \E n \in 0..Len(PlateOrder) : hasTokens' = {PlateOrder[m] : m \in 1..n}
=============================================================================
