--------------------------- MODULE RoomRefinement ---------------------------
(***************************************************************************)
(* A room whose handlers and callbacks are atomic and whose players beat   *)
(* the clock implements the rules of TurnGame.  What the rules call the    *)
(* move of the turn is, in the room, the one callback under way.           *)
(***************************************************************************)
EXTENDS RoomProperties

TheCloser == CHOOSE g \in Goroutines : Ending(g)

Move ==
  IF reports # <<>> \/ \E g \in Goroutines : Ending(g) THEN "over"
  ELSE IF Pending(Placing) THEN "placed"
  ELSE IF Pending({"wakeHit", "hit"}) THEN "hit"
  ELSE IF Pending({"wakeMiss", "miss"}) THEN "miss"
  ELSE IF Pending({"wakeWin"}) THEN "won"
  ELSE IF Pending(Advancing) THEN "pass"
  ELSE "none"

\* The pair on show, and the winner once the game is being closed.
Pair == IF confirmPending THEN selected ELSE matched

Heir ==
  IF reports # <<>> THEN reports[1].winner
  ELSE IF ~\E g \in Goroutines : Ending(g) THEN 2
  ELSE IF go[TheCloser].why = "no_matches" THEN FewerTokens
  ELSE go[TheCloser].who

Rules == INSTANCE TurnGame WITH
  stage <- phase,
  turn  <- currentTurn,
  round <- placementRound,
  plate <- tokens,
  purse <- playerTokens,
  pair  <- Pair,
  move  <- Move,
  heir  <- Heir

\* Every step of the room is a step of the rules or invisible to them.
ImplementsRules == Rules!RulesSpec
=============================================================================
