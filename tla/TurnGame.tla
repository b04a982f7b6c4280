------------------------------ MODULE TurnGame ------------------------------
(***************************************************************************)
(* The game as its rules tell it: two players take turns, first placing    *)
(* tokens under plates, then looking for two plates with the same count.   *)
(* No locks, timers or callbacks: a turn is one move and what follows from *)
(* it.  This is what a Room is to implement when players beat the clock.   *)
(*                                                                         *)
(* move is what the player on turn has done so far in the turn:            *)
(*   none    nothing yet               pass   a turn that is over          *)
(*   placed  put tokens on a plate     won    emptied the purse            *)
(*   hit     showed two equal plates   over   the game is being closed     *)
(*   miss    showed two others                                             *)
(* heir is the winner once the game is being closed (Draw for a draw).     *)
(***************************************************************************)
EXTENDS Integers, FiniteSets

CONSTANTS Plates, MinTokens

ASSUME RulesAssumption ==
  /\ IsFiniteSet(Plates) /\ Cardinality(Plates) >= 4
  /\ Cardinality(Plates) % 2 = 0
  /\ MinTokens \in Nat \ {0}

VARIABLES stage, turn, round, plate, purse, pair, move, heir

rulesVars == <<stage, turn, round, plate, purse, pair, move, heir>>

Draw      == -1
Undecided == 2
Rounds    == Cardinality(Plates) \div 2 - 1
Endowment == IF MinTokens > Rounds THEN MinTokens ELSE Rounds + 1
Moves     == {"none", "placed", "hit", "miss", "pass", "won", "over"}

RulesTypeOK ==
  /\ stage \in {"waiting", "placement", "matching", "add_token", "finished"}
  /\ turn \in {0, 1}
  /\ round \in Nat \ {0}
  /\ plate \in [Plates -> Nat]
  /\ purse \in [{0, 1} -> Nat]
  /\ pair \in SUBSET Plates
  /\ move \in Moves
  /\ heir \in {Draw, 0, 1, Undecided}

RulesInit ==
  /\ stage = "waiting" /\ turn = 0 /\ round = 1
  /\ plate = [p \in Plates |-> 0]
  /\ purse = [i \in {0, 1} |-> 0]
  /\ pair = {} /\ move = "none" /\ heir = Undecided

\* Mutation: a plate is a pair with itself.
PairLeft_Alone == \E p, q \in Plates : plate[p] = plate[q]

PairLeft == \E p, q \in Plates : p # q /\ plate[p] = plate[q]

Richer == IF purse[0] = purse[1] THEN Draw
          ELSE IF purse[0] < purse[1] THEN 0 ELSE 1

-----------------------------------------------------------------------------

Start ==
  /\ stage = "waiting" /\ move = "none"
  /\ stage' = "placement"
  /\ UNCHANGED <<turn, round, plate, purse, pair, move, heir>>

Place(p) ==
  /\ stage = "placement" /\ move = "none"
  /\ round <= Rounds
  /\ plate[p] = 0
  /\ plate' = [plate EXCEPT ![p] = round]
  /\ move' = "placed"
  /\ UNCHANGED <<stage, turn, round, purse, pair, heir>>

NextPlacer ==
  /\ stage = "placement" /\ move = "placed"
  /\ turn' = 1 - turn
  /\ round' = round + turn
  /\ move' = "none"
  /\ UNCHANGED <<stage, plate, purse, pair, heir>>

Deal ==
  /\ stage = "placement" /\ move = "none"
  /\ round > Rounds
  /\ stage' = "matching"
  /\ purse' = [i \in {0, 1} |-> Endowment]
  /\ UNCHANGED <<turn, round, plate, pair, move, heir>>

\* Mutation: any two plates are a hit.
Show_AnyTwo(p, q) ==
  /\ stage = "matching" /\ move = "none"
  /\ p # q
  /\ pair' = {p, q}
  /\ move' = "hit"
  /\ UNCHANGED <<stage, turn, round, plate, purse, heir>>

\* A pair is confirmed; SelectPlate's steps on the way to it are not told.
Show(p, q) ==
  /\ stage = "matching" /\ move = "none"
  /\ p # q
  /\ pair' = {p, q}
  /\ move' = IF plate[p] = plate[q] THEN "hit" ELSE "miss"
  /\ UNCHANGED <<stage, turn, round, plate, purse, heir>>

Hit ==
  /\ move = "hit"
  /\ stage' = "add_token"
  /\ move' = "none"
  /\ UNCHANGED <<turn, round, plate, purse, pair, heir>>

Miss ==
  /\ move = "miss"
  /\ purse' = [purse EXCEPT ![turn] = @ + 1]
  /\ move' = "pass"
  /\ UNCHANGED <<stage, turn, round, plate, pair, heir>>

\* Mutation: the last token of a purse ends nothing.
Add_NoWin(p) ==
  /\ stage = "add_token" /\ move = "none"
  /\ p \in pair
  /\ plate' = [plate EXCEPT ![p] = @ + 1]
  /\ purse' = [purse EXCEPT ![turn] = @ - 1]
  /\ move' = "pass"
  /\ UNCHANGED <<stage, turn, round, pair, heir>>

Add(p) ==
  /\ stage = "add_token" /\ move = "none"
  /\ p \in pair
  /\ plate' = [plate EXCEPT ![p] = @ + 1]
  /\ purse' = [purse EXCEPT ![turn] = @ - 1]
  /\ move' = IF purse[turn] = 1 THEN "won" ELSE "pass"
  /\ UNCHANGED <<stage, turn, round, pair, heir>>

NextTurn ==
  /\ move = "pass" /\ PairLeft
  /\ stage' = "matching"
  /\ turn' = 1 - turn
  /\ pair' = {}
  /\ move' = "none"
  /\ UNCHANGED <<round, plate, purse, heir>>

\* The three ends: no pair is left, a purse is empty, a player leaves.
Close(winner) ==
  /\ move' = "over"
  /\ heir' = winner
  /\ UNCHANGED <<stage, turn, round, plate, purse, pair>>

NoMatches == move = "pass" /\ ~PairLeft /\ Close(Richer)
Tokens == move = "won" /\ Close(turn)
Forfeit(i) == stage # "finished" /\ move # "over" /\ Close(1 - i)

Finish ==
  /\ move = "over" /\ stage # "finished"
  /\ stage' = "finished"
  /\ UNCHANGED <<turn, round, plate, purse, pair, move, heir>>

Turn ==
  \/ Start \/ Deal
  \/ \E p \in Plates : Place(p) \/ Add(p) \/ \E q \in Plates : Show(p, q)

Outcome == NextPlacer \/ Hit \/ Miss \/ NextTurn \/ NoMatches \/ Tokens \/ Finish

RulesNext == Turn \/ Outcome \/ \E i \in {0, 1} : Forfeit(i)

RulesSpec == RulesInit /\ [][RulesNext]_rulesVars

-----------------------------------------------------------------------------
(* What the rules promise.                                                 *)

\* Matching raises one of two equal plates at a time, so the counts have no
\* gaps: under every plate there is one with each smaller count.
NoGap ==
  stage \in {"matching", "add_token"} =>
    \A p \in Plates : \A k \in 0..plate[p] : \E q \in Plates : plate[q] = k

\* A player who is to look for a pair can find one.
PairToFind ==
  stage = "matching" /\ move = "none" =>
    \E p, q \in Plates : p # q /\ plate[p] = plate[q]

\* No plate ever holds as many tokens as there are plates, so a game has only
\* so many hits, and ends unless the players miss for ever.
PlatesStayLow == \A p \in Plates : plate[p] < Cardinality(Plates)

\* An empty purse ends the game on the spot, whoever it belongs to.
EmptyPurseEnds ==
  stage \in {"matching", "add_token"} =>
    \A i \in {0, 1} : purse[i] = 0 => move \in {"won", "over"}
=============================================================================
