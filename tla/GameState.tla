------------------------------ MODULE GameState ------------------------------
(***************************************************************************)
(* The state of one game and the operations on it: internal/game/state.go. *)
(* Every operation here is called by Room under the room's lock; what one  *)
(* of them does not list as changed it leaves alone.                       *)
(*                                                                         *)
(* Abstractions.  A plate is an element of Plates (its index).  The flags  *)
(* HasTokens and Covered are the sets of plates that carry them, and the   *)
(* slices SelectedPlates and MatchedPlates are sets: SelectPlate never     *)
(* holds a plate twice and no operation depends on the order.  The seconds *)
(* of a turn are TurnLimit (60 in the code) and the least purse a player   *)
(* starts the matching phase with is MinTokens (5 in the code), so that    *)
(* small instances still reach the end of a turn and of a game.            *)
(* LastActionPlate only drives an animation and is left out.               *)
(***************************************************************************)
EXTENDS Integers, FiniteSets

CONSTANTS Plates, TurnLimit, MinTokens

\* ClampPlateCount: an even number of plates, at least 4.
ASSUME PlatesAssumption ==
  /\ IsFiniteSet(Plates)
  /\ Cardinality(Plates) >= 4
  /\ Cardinality(Plates) % 2 = 0

ASSUME LimitAssumption == TurnLimit \in Nat \ {0} /\ MinTokens \in Nat \ {0}

VARIABLES phase, currentTurn, placementRound, timeLeft,
          tokens, hasTokens, covered, selected, matched

gameVars == <<phase, currentTurn, placementRound, timeLeft,
              tokens, hasTokens, covered, selected, matched>>

Players == {0, 1}
Phases  == {"waiting", "placement", "matching", "add_token", "finished"}

MaxRound == Cardinality(Plates) \div 2 - 1

GameTypeOK ==
  /\ phase \in Phases
  /\ currentTurn \in Players
  /\ placementRound \in Nat \ {0}
  /\ timeLeft \in Int
  /\ tokens \in [Plates -> Nat]
  /\ hasTokens \in SUBSET Plates
  /\ covered \in SUBSET Plates
  /\ selected \in SUBSET Plates
  /\ matched \in SUBSET Plates

NewGameState ==
  /\ phase = "waiting"
  /\ currentTurn = 0
  /\ placementRound = 1
  /\ timeLeft = TurnLimit
  /\ tokens = [p \in Plates |-> 0]
  /\ hasTokens = {}
  /\ covered = Plates
  /\ selected = {}
  /\ matched = {}

-----------------------------------------------------------------------------
(* Placement phase.                                                        *)

PlaceToken(p) ==
  /\ phase = "placement"
  /\ p \notin hasTokens
  /\ tokens' = [tokens EXCEPT ![p] = placementRound]
  /\ hasTokens' = hasTokens \cup {p}
  /\ covered' = covered \ {p}
  /\ UNCHANGED <<phase, currentTurn, placementRound, timeLeft,
                 selected, matched>>

\* Mutation: the turn counts on past the second player.
NextPlacementTurn_NoWrap ==
  /\ currentTurn' = currentTurn + 1
  /\ placementRound' = placementRound + currentTurn
  /\ UNCHANGED <<phase, timeLeft, tokens, hasTokens, covered,
                 selected, matched>>

\* Mutation: the round advances when the first of the two players has placed.
NextPlacementTurn_RoundTooEarly ==
  /\ currentTurn' = 1 - currentTurn
  /\ placementRound' = placementRound + 1 - currentTurn
  /\ UNCHANGED <<phase, timeLeft, tokens, hasTokens, covered,
                 selected, matched>>

\* The code tests the round it has just incremented: the caller reads
\* PlacementComplete in the next state.
NextPlacementTurn ==
  /\ currentTurn' = 1 - currentTurn
  /\ placementRound' = placementRound + currentTurn
  /\ UNCHANGED <<phase, timeLeft, tokens, hasTokens, covered,
                 selected, matched>>

PlacementComplete == placementRound > MaxRound

-----------------------------------------------------------------------------
(* Matching phase.                                                         *)

StartMatching ==
  /\ phase' = "matching"
  /\ currentTurn' = 0
  /\ timeLeft' = TurnLimit
  /\ selected' = {}
  /\ matched' = {}
  /\ UNCHANGED <<placementRound, tokens, hasTokens, covered>>

SelectPlate(p) ==
  /\ phase = "matching"
  /\ \/ p \in selected /\ selected' = selected \ {p}
     \/ /\ p \notin selected
        /\ Cardinality(selected) < 2
        /\ selected' = selected \cup {p}
  /\ UNCHANGED <<phase, currentTurn, placementRound, timeLeft,
                 tokens, hasTokens, covered, matched>>

\* Mutation: the plates are compared with themselves.
SelectionMatches_SamePlate == \A p \in selected : tokens[p] = tokens[p]

\* The verdict of ConfirmMatch, and its effect: the two plates are opened.
SelectionMatches == \A p, q \in selected : tokens[p] = tokens[q]

ConfirmMatch ==
  /\ Cardinality(selected) = 2
  /\ covered' = covered \ selected
  /\ UNCHANGED <<phase, currentTurn, placementRound, timeLeft,
                 tokens, hasTokens, selected, matched>>

EnterAddToken ==
  /\ phase' = "add_token"
  /\ matched' = selected
  /\ UNCHANGED <<currentTurn, placementRound, timeLeft,
                 tokens, hasTokens, covered, selected>>

\* Mutation: the token goes to any plate.
AddToken_AnyPlate(p) ==
  /\ phase = "add_token"
  /\ tokens' = [tokens EXCEPT ![p] = @ + 1]
  /\ UNCHANGED <<phase, currentTurn, placementRound, timeLeft,
                 hasTokens, covered, selected, matched>>

AddToken(p) ==
  /\ phase = "add_token"
  /\ p \in matched
  /\ tokens' = [tokens EXCEPT ![p] = @ + 1]
  /\ UNCHANGED <<phase, currentTurn, placementRound, timeLeft,
                 hasTokens, covered, selected, matched>>

\* Mutation: the plates of the last turn stay open.
NextMatchingTurn_StaysOpen ==
  /\ currentTurn' = 1 - currentTurn
  /\ selected' = {}
  /\ matched' = {}
  /\ phase' = "matching"
  /\ timeLeft' = TurnLimit
  /\ UNCHANGED <<placementRound, tokens, hasTokens, covered>>

\* NextMatchingTurn together with the ResetForNextTurn it ends in.
NextMatchingTurn ==
  /\ currentTurn' = 1 - currentTurn
  /\ covered' = Plates
  /\ selected' = {}
  /\ matched' = {}
  /\ phase' = "matching"
  /\ timeLeft' = TurnLimit
  /\ UNCHANGED <<placementRound, tokens, hasTokens>>

HasMatchingPairs == \E p, q \in Plates : p # q /\ tokens[p] = tokens[q]

MarkFinished ==
  /\ phase' = "finished"
  /\ UNCHANGED <<currentTurn, placementRound, timeLeft, tokens, hasTokens,
                 covered, selected, matched>>
=============================================================================
