---------------------------- MODULE RulesProofs ----------------------------
(***************************************************************************)
(* What the rules of the game promise, for any number of plates.           *)
(*                                                                         *)
(* The argument: the placement phase leaves exactly two plates empty and   *)
(* gives each round a plate, so the matching phase starts without a gap    *)
(* and with a pair.  A hit raises one of two equal plates: the other keeps *)
(* the count it leaves, so no gap opens.  The counts of N plates without a *)
(* gap are below N, by the pigeonhole principle.                           *)
(***************************************************************************)
EXTENDS TurnGame, FiniteSetTheorems, TLAPS

Empty == {p \in Plates : plate[p] = 0}

InMatching == stage \in {"matching", "add_token"}

\* The placement phase: how many plates are still empty, which counts occur.
PlacementCount ==
  stage \in {"waiting", "placement"} =>
    /\ round <= Rounds + 1
    /\ round = Rounds + 1 => turn = 0 /\ move \in {"none", "over"}
    /\ \A p \in Plates : plate[p] <= round /\ plate[p] <= Rounds
    /\ \A k \in 1..(round - 1) : \E q \in Plates : plate[q] = k
    /\ stage = "waiting" => plate = [p \in Plates |-> 0] /\ round = 1 /\ turn = 0
    /\ move \in {"none", "placed", "over"}
    /\ move = "none" =>
         Cardinality(Empty) = Cardinality(Plates) - 2 * (round - 1) - turn
    /\ move = "placed" =>
         /\ Cardinality(Empty) = Cardinality(Plates) - 2 * (round - 1) - turn - 1
         /\ \E q \in Plates : plate[q] = round

\* What the move of the turn says of the pair shown.
PairShown ==
  /\ move = "hit" \/ (stage = "add_token" /\ move = "none") =>
       \E p, q \in Plates : p # q /\ pair = {p, q} /\ plate[p] = plate[q]
  /\ move \in {"hit", "miss"} => stage = "matching"
  /\ move \in {"pass", "won"} => InMatching
  /\ move = "placed" => stage = "placement"

RulesInd ==
  /\ RulesTypeOK
  /\ PlacementCount
  /\ PairShown
  /\ NoGap
  /\ PairToFind
  /\ PlatesStayLow
  /\ EmptyPurseEnds

\* Two plates are left over by the rounds.
LEMMA RoundsFact ==
  /\ Cardinality(Plates) \in Nat
  /\ Rounds \in Nat \ {0}
  /\ 2 * Rounds = Cardinality(Plates) - 2
  /\ Endowment \in Nat \ {0}
<1>1. Cardinality(Plates) \in Nat
  BY RulesAssumption, FS_CardinalityType
<1>2. \A n \in Nat : n >= 4 /\ n % 2 = 0 =>
        (n \div 2 - 1) \in Nat \ {0} /\ 2 * (n \div 2 - 1) = n - 2
  OBVIOUS
<1>3. Rounds \in Nat \ {0} /\ 2 * Rounds = Cardinality(Plates) - 2
  BY <1>1, <1>2, RulesAssumption DEF Rounds
<1>4. Endowment \in Nat \ {0}
  BY <1>3, RulesAssumption DEF Endowment
<1> QED BY <1>1, <1>3, <1>4

\* The pigeonhole principle: counts without a gap are below the number of
\* plates.
LEMMA GapFreeIsLow ==
  ASSUME NEW count \in [Plates -> Nat], NEW p \in Plates,
         \A k \in 0..count[p] : \E q \in Plates : count[q] = k
  PROVE  count[p] < Cardinality(Plates)
<1> DEFINE S == 0..count[p]
           f == [k \in S |-> CHOOSE q \in Plates : count[q] = k]
<1>1. \A k \in S : f[k] \in Plates /\ count[f[k]] = k
  OBVIOUS
<1>2. f \in [S -> Plates]
  BY <1>1
<1>3. IsFiniteSet(S) /\ Cardinality(S) = count[p] + 1
  BY FS_Interval
<1>4. IsFiniteSet(Plates) /\ Cardinality(Plates) \in Nat
  BY RulesAssumption, FS_CardinalityType
<1>5. ASSUME Cardinality(Plates) < Cardinality(S) PROVE FALSE
  <2> HIDE DEF f, S
  <2>1. PICK x, y \in S : x # y /\ f[x] = f[y]
    BY <1>2, <1>3, <1>4, <1>5, FS_PigeonHole
  <2> QED BY <1>1, <2>1
<1> QED BY <1>3, <1>4, <1>5

\* Two elements of a set of two.
LEMMA TwoElements ==
  ASSUME NEW S, IsFiniteSet(S), Cardinality(S) = 2
  PROVE  \E p, q \in S : p # q
<1>1. S # {}
  BY FS_EmptySet
<1>2. PICK p \in S : TRUE
  BY <1>1
<1>3. Cardinality(S \ {p}) = 1 /\ IsFiniteSet(S \ {p})
  BY <1>2, FS_RemoveElement
<1>4. S \ {p} # {}
  BY <1>3, FS_EmptySet
<1> QED BY <1>2, <1>4

\* Before the game all plates are empty.
LEMMA RulesInitInd == RulesInit => RulesInd
<1> SUFFICES ASSUME RulesInit PROVE RulesInd
  OBVIOUS
<1>1. RulesTypeOK
  BY DEF RulesInit, RulesTypeOK, Moves
<1>2. Empty = Plates
  BY DEF RulesInit, Empty
<1>3. PlacementCount
  BY <1>2, RoundsFact DEF RulesInit, PlacementCount
<1>4. PairShown /\ NoGap /\ PairToFind /\ EmptyPurseEnds
  BY DEF RulesInit, PairShown, NoGap, PairToFind, EmptyPurseEnds
<1>5. PlatesStayLow
  BY RulesAssumption, RoundsFact DEF RulesInit, PlatesStayLow
<1> QED BY <1>1, <1>3, <1>4, <1>5 DEF RulesInd

\* A step that leaves plates, purses and stage as they are keeps all but what
\* is said of the move itself.
LEMMA SameTable ==
  ASSUME RulesInd, UNCHANGED <<stage, turn, round, plate, purse>>,
         move' \in Moves, heir' \in {Draw, 0, 1, Undecided}, pair' \in SUBSET Plates,
         PairShown',
         move' \in {move, "over"} \/ (stage = "matching" /\ move = "none")
  PROVE  RulesInd'
<1>1. RulesTypeOK'
  BY DEF RulesInd, RulesTypeOK
<1>2. PlacementCount'
  BY DEF RulesInd, PlacementCount, Empty
<1>3. NoGap' /\ PlatesStayLow'
  BY DEF RulesInd, NoGap, PlatesStayLow
<1>4. PairToFind'
  BY DEF RulesInd, PairToFind
<1>5. EmptyPurseEnds'
  BY DEF RulesInd, EmptyPurseEnds
<1> QED BY <1>1, <1>2, <1>3, <1>4, <1>5 DEF RulesInd

\* Every step of the rules keeps the invariant: one case per action.
LEMMA RulesStep == RulesInd /\ [RulesNext]_rulesVars => RulesInd'
<1> SUFFICES ASSUME RulesInd, [RulesNext]_rulesVars PROVE RulesInd'
  OBVIOUS
<1> USE RoundsFact
<1>0. /\ RulesTypeOK /\ PlacementCount /\ PairShown /\ NoGap
      /\ PairToFind /\ PlatesStayLow /\ EmptyPurseEnds
  BY DEF RulesInd
<1>1. ASSUME Start PROVE RulesInd'
  <2>1. RulesTypeOK'
    BY <1>0, <1>1 DEF Start, RulesTypeOK
  <2>2. PlacementCount'
    BY <1>0, <1>1 DEF Start, RulesTypeOK, PlacementCount, Empty
  <2>3. PairShown' /\ NoGap' /\ PairToFind' /\ PlatesStayLow' /\ EmptyPurseEnds'
    BY <1>0, <1>1 DEF Start, PairShown, InMatching, NoGap, PairToFind,
         PlatesStayLow, EmptyPurseEnds
  <2> QED BY <2>1, <2>2, <2>3 DEF RulesInd
<1>2. ASSUME NEW p \in Plates, Place(p) PROVE RulesInd'
  <2>1. RulesTypeOK'
    BY <1>0, <1>2 DEF Place, RulesTypeOK, Moves
  <2>2. /\ stage = "placement" /\ stage' = stage /\ round' = round /\ turn' = turn
        /\ round <= Rounds /\ round \in Nat \ {0} /\ turn \in {0, 1}
        /\ plate \in [Plates -> Nat] /\ plate[p] = 0
        /\ plate' = [plate EXCEPT ![p] = round] /\ move' = "placed"
        /\ move = "none"
    BY <1>0, <1>2 DEF Place, RulesTypeOK
  <2>3. Empty' = Empty \ {p} /\ p \in Empty
    BY <2>2 DEF Empty
  <2>4. IsFiniteSet(Empty)
    BY RulesAssumption, FS_Subset DEF Empty
  <2>5. Cardinality(Empty') = Cardinality(Empty) - 1
    BY <2>3, <2>4, FS_RemoveElement
  <2>6. /\ \A q \in Plates : plate'[q] <= round /\ plate'[q] <= Rounds
        /\ plate'[p] = round
    BY <1>0, <2>2 DEF PlacementCount
  <2>7. \A k \in 1..(round - 1) : \E q \in Plates : plate'[q] = k
    <3>1. SUFFICES ASSUME NEW k \in 1..(round - 1)
                   PROVE  \E q \in Plates : plate'[q] = k
      OBVIOUS
    <3>2. PICK q \in Plates : plate[q] = k
      BY <1>0, <2>2 DEF PlacementCount
    <3> QED BY <2>2, <3>2
  <2>8. PlacementCount'
    BY <1>0, <2>2, <2>5, <2>6, <2>7 DEF PlacementCount
  <2>9. PlatesStayLow'
    BY <2>2, <2>6 DEF PlatesStayLow
  <2>10. PairShown' /\ NoGap' /\ PairToFind' /\ EmptyPurseEnds'
    BY <2>2 DEF PairShown, InMatching, NoGap, PairToFind, EmptyPurseEnds
  <2> QED BY <2>1, <2>8, <2>9, <2>10 DEF RulesInd
<1>3. ASSUME NextPlacer PROVE RulesInd'
  <2>1. RulesTypeOK'
    BY <1>0, <1>3 DEF NextPlacer, RulesTypeOK, Moves
  <2>2. /\ stage = "placement" /\ stage' = stage /\ round' = round + turn
        /\ turn' = 1 - turn /\ plate' = plate /\ move' = "none" /\ move = "placed"
        /\ round \in Nat \ {0} /\ turn \in {0, 1} /\ plate \in [Plates -> Nat]
        /\ round <= Rounds
    BY <1>0, <1>3 DEF NextPlacer, RulesTypeOK, PlacementCount
  <2>3. Empty' = Empty
    BY <2>2 DEF Empty
  <2>4. \A q \in Plates : plate[q] <= round /\ plate[q] <= Rounds
    BY <1>0, <2>2 DEF PlacementCount
  <2>5. \A k \in 1..round : \E q \in Plates : plate[q] = k
    BY <1>0, <2>2 DEF PlacementCount
  <2>6. Cardinality(Empty) = Cardinality(Plates) - 2 * (round - 1) - turn - 1
    BY <1>0, <2>2 DEF PlacementCount
  <2>7. PlacementCount'
    <3>1. CASE turn = 0
      BY <2>2, <2>3, <2>4, <2>5, <2>6, <3>1 DEF PlacementCount
    <3>2. CASE turn = 1
      BY <2>2, <2>3, <2>4, <2>5, <2>6, <3>2 DEF PlacementCount
    <3> QED BY <2>2, <3>1, <3>2
  <2>8. PairShown' /\ NoGap' /\ PairToFind' /\ EmptyPurseEnds' /\ PlatesStayLow'
    BY <1>0, <2>2
    DEF PairShown, InMatching, NoGap, PairToFind, EmptyPurseEnds,
         PlatesStayLow
  <2> QED BY <2>1, <2>7, <2>8 DEF RulesInd
<1>4. ASSUME Deal PROVE RulesInd'
  <2>1. RulesTypeOK'
    BY <1>0, <1>4 DEF Deal, RulesTypeOK, Moves
  <2>2. /\ stage = "placement" /\ stage' = "matching" /\ plate' = plate
        /\ move = "none" /\ move' = "none" /\ round = Rounds + 1 /\ turn = 0
        /\ plate \in [Plates -> Nat]
    BY <1>0, <1>4 DEF Deal, RulesTypeOK, PlacementCount
  <2>3. Cardinality(Empty) = 2
    BY <1>0, <2>2 DEF PlacementCount
  <2>4. PICK a, b \in Empty : a # b
    BY <2>3, RulesAssumption, FS_Subset, TwoElements DEF Empty
  <2>5. PairToFind'
    BY <2>2, <2>4 DEF PairToFind, Empty
  <2>6. NoGap'
    <3>1. SUFFICES ASSUME NEW p \in Plates, NEW k \in 0..plate[p]
                   PROVE  \E q \in Plates : plate[q] = k
      BY <2>2 DEF NoGap
    <3>2. plate[p] <= Rounds /\ plate[p] \in Nat
      BY <1>0, <2>2 DEF PlacementCount
    <3>3. CASE k = 0
      BY <2>4, <3>3 DEF Empty
    <3>4. CASE k # 0
      <4>1. k \in 1..(round - 1)
        BY <2>2, <3>2, <3>4
      <4> QED BY <1>0, <2>2, <4>1 DEF PlacementCount
    <3> QED BY <3>3, <3>4
  <2>7. PlacementCount' /\ PairShown' /\ PairToFind' /\ PlatesStayLow'
    BY <1>0, <2>2, <2>5 DEF PlacementCount, PairShown, PlatesStayLow
  <2>8. EmptyPurseEnds'
    BY <1>4 DEF Deal, EmptyPurseEnds
  <2> QED BY <2>1, <2>6, <2>7, <2>8 DEF RulesInd
<1>5. ASSUME NEW p \in Plates, NEW q \in Plates, Show(p, q) PROVE RulesInd'
  <2>1. PairShown'
    BY <1>0, <1>5 DEF Show, PairShown, InMatching
  <2> QED BY <1>0, <1>5, <2>1, SameTable DEF Show, Moves, RulesTypeOK
<1>6. ASSUME Hit PROVE RulesInd'
  <2>1. /\ stage = "matching" /\ move = "hit"
        /\ stage' = "add_token" /\ move' = "none"
        /\ UNCHANGED <<turn, round, plate, purse, pair, heir>>
    BY <1>0, <1>6 DEF Hit, PairShown
  <2>2. RulesTypeOK' /\ PairShown'
    BY <1>0, <2>1 DEF RulesTypeOK, Moves, PairShown
  <2>3. PlacementCount' /\ NoGap' /\ PairToFind' /\ PlatesStayLow' /\ EmptyPurseEnds'
    BY <1>0, <2>1
    DEF PlacementCount, NoGap, PairToFind, PlatesStayLow, EmptyPurseEnds
  <2> QED BY <2>2, <2>3 DEF RulesInd
<1>7. ASSUME Miss PROVE RulesInd'
  <2>1. /\ stage = "matching" /\ move = "miss" /\ move' = "pass"
        /\ purse' = [purse EXCEPT ![turn] = @ + 1]
        /\ UNCHANGED <<stage, turn, round, plate, pair, heir>>
        /\ turn \in {0, 1} /\ purse \in [{0, 1} -> Nat]
    BY <1>0, <1>7 DEF Miss, PairShown, RulesTypeOK
  <2>2. RulesTypeOK' /\ PairShown'
    BY <1>0, <2>1 DEF RulesTypeOK, Moves, PairShown, InMatching
  <2>3. PlacementCount' /\ NoGap' /\ PairToFind' /\ PlatesStayLow'
    BY <1>0, <2>1 DEF PlacementCount, NoGap, PairToFind, PlatesStayLow
  <2>4. EmptyPurseEnds'
    BY <1>0, <2>1 DEF EmptyPurseEnds
  <2> QED BY <2>2, <2>3, <2>4 DEF RulesInd
<1>8. ASSUME NEW p \in Plates, Add(p) PROVE RulesInd'
  <2>1. /\ stage = "add_token" /\ stage' = stage /\ move = "none"
        /\ move' \in {"won", "pass"} /\ p \in pair
        /\ plate' = [plate EXCEPT ![p] = @ + 1]
        /\ purse' = [purse EXCEPT ![turn] = @ - 1]
        /\ move' = IF purse[turn] = 1 THEN "won" ELSE "pass"
        /\ UNCHANGED <<turn, round, pair, heir>>
        /\ turn \in {0, 1} /\ purse \in [{0, 1} -> Nat]
        /\ plate \in [Plates -> Nat]
    BY <1>0, <1>8 DEF Add, RulesTypeOK
  <2>2. \A i \in {0, 1} : purse[i] # 0
    BY <1>0, <2>1 DEF EmptyPurseEnds
  <2>3. RulesTypeOK'
    <3>1. purse' \in [{0, 1} -> Nat] /\ plate' \in [Plates -> Nat]
      BY <2>1, <2>2
    <3> QED BY <1>0, <2>1, <3>1 DEF RulesTypeOK, Moves
  <2>4. PICK r \in Plates : r # p /\ plate[r] = plate[p]
    BY <1>0, <2>1 DEF PairShown
  <2>5. NoGap'
    <3>1. SUFFICES ASSUME NEW t \in Plates, NEW k \in 0..plate'[t]
                   PROVE  \E q \in Plates : plate'[q] = k
      BY <2>1 DEF NoGap
    <3>2. CASE k = plate'[p]
      BY <3>2
    <3>3. CASE k # plate'[p]
      <4>1. \E u \in Plates : k \in 0..plate[u]
        BY <2>1, <3>3
      <4>2. PICK q \in Plates : plate[q] = k
        BY <1>0, <2>1, <4>1 DEF NoGap
      <4>3. CASE q = p
        BY <2>1, <2>4, <4>2, <4>3
      <4>4. CASE q # p
        BY <2>1, <4>2, <4>4
      <4> QED BY <4>3, <4>4
    <3> QED BY <3>2, <3>3
  <2>6. PlatesStayLow'
    <3>1. SUFFICES ASSUME NEW t \in Plates PROVE plate'[t] < Cardinality(Plates)
      BY DEF PlatesStayLow
    <3>2. plate' \in [Plates -> Nat]
      BY <2>3 DEF RulesTypeOK
    <3>3. \A k \in 0..plate'[t] : \E q \in Plates : plate'[q] = k
      BY <2>1, <2>5 DEF NoGap
    <3> QED BY <3>2, <3>3, GapFreeIsLow
  <2>7. EmptyPurseEnds'
    BY <2>1, <2>2 DEF EmptyPurseEnds
  <2>8. PlacementCount' /\ PairShown' /\ PairToFind'
    BY <2>1 DEF PlacementCount, PairShown, InMatching, PairToFind
  <2> QED BY <2>3, <2>5, <2>6, <2>7, <2>8 DEF RulesInd
<1>9. ASSUME NextTurn PROVE RulesInd'
  <2>1. /\ move = "pass" /\ move' = "none" /\ stage' = "matching" /\ InMatching
        /\ turn' = 1 - turn /\ pair' = {} /\ PairLeft
        /\ UNCHANGED <<round, plate, purse, heir>>
    BY <1>0, <1>9 DEF NextTurn, PairShown
  <2>2. RulesTypeOK'
    BY <1>0, <2>1 DEF RulesTypeOK, Moves
  <2>3. PlacementCount' /\ PairShown' /\ NoGap' /\ PairToFind' /\ PlatesStayLow'
    BY <1>0, <2>1 DEF PlacementCount, PairShown, NoGap, PairToFind, PairLeft,
         PlatesStayLow, InMatching
  <2>4. EmptyPurseEnds'
    BY <1>0, <2>1 DEF EmptyPurseEnds, InMatching
  <2> QED BY <2>2, <2>3, <2>4 DEF RulesInd
<1>10. ASSUME NEW w \in {Draw, 0, 1}, Close(w) PROVE RulesInd'
  <2>1. PairShown'
    BY <1>0, <1>10 DEF Close, PairShown
  <2>2. /\ move' \in Moves /\ move' = "over" /\ pair' \in SUBSET Plates
        /\ heir' \in {Draw, 0, 1, Undecided}
        /\ UNCHANGED <<stage, turn, round, plate, purse>>
    BY <1>0, <1>10 DEF Close, Moves, RulesTypeOK
  <2> QED BY <2>1, <2>2, SameTable
<1>11. ASSUME Finish PROVE RulesInd'
  <2>1. /\ move = "over" /\ stage' = "finished"
        /\ UNCHANGED <<turn, round, plate, purse, pair, move, heir>>
    BY <1>11 DEF Finish
  <2> QED BY <1>0, <2>1 DEF RulesInd, RulesTypeOK, PlacementCount, PairShown,
       NoGap, PairToFind, PlatesStayLow, EmptyPurseEnds
<1>12. NoMatches \/ Tokens \/ (\E i \in {0, 1} : Forfeit(i)) =>
         \E w \in {Draw, 0, 1} : Close(w)
  BY <1>0 DEF NoMatches, Tokens, Forfeit, Richer, RulesTypeOK
<1>13. CASE UNCHANGED rulesVars
  BY <1>13 DEF rulesVars, RulesInd, RulesTypeOK, PlacementCount, PairShown,
       InMatching, NoGap, PairToFind, PairLeft, PlatesStayLow, EmptyPurseEnds, Empty
<1> QED
  BY <1>1, <1>2, <1>3, <1>4, <1>5, <1>6, <1>7, <1>8, <1>9, <1>10, <1>11,
     <1>12, <1>13
  DEF RulesNext, Turn, Outcome

\* The rules keep the types of their variables: no purse or plate goes below
\* zero, whoever adds, misses or leaves.
THEOREM RulesKeepTypes == RulesSpec => []RulesTypeOK
<1>1. RulesInd => RulesTypeOK
  BY DEF RulesInd
<1> QED BY RulesInitInd, RulesStep, <1>1, PTL DEF RulesSpec

\* The counts under the plates never leave a gap in the matching phase.
THEOREM RulesLeaveNoGap == RulesSpec => []NoGap
<1>1. RulesInd => NoGap
  BY DEF RulesInd
<1> QED BY RulesInitInd, RulesStep, <1>1, PTL DEF RulesSpec

\* A player who is to look for a pair can find one.
THEOREM RulesLeaveAPair == RulesSpec => []PairToFind
<1>1. RulesInd => PairToFind
  BY DEF RulesInd
<1> QED BY RulesInitInd, RulesStep, <1>1, PTL DEF RulesSpec

\* No plate ever holds as many tokens as there are plates.
THEOREM RulesKeepPlatesLow == RulesSpec => []PlatesStayLow
<1>1. RulesInd => PlatesStayLow
  BY DEF RulesInd
<1> QED BY RulesInitInd, RulesStep, <1>1, PTL DEF RulesSpec

\* An empty purse ends the game on the spot.
THEOREM RulesEndOnEmptyPurse == RulesSpec => []EmptyPurseEnds
<1>1. RulesInd => EmptyPurseEnds
  BY DEF RulesInd
<1> QED BY RulesInitInd, RulesStep, <1>1, PTL DEF RulesSpec
=============================================================================
