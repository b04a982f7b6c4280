-------------------------- MODULE PlateCountProofs --------------------------
(***************************************************************************)
(* ClampPlateCount gives every game plates it can be played with, for ints *)
(* of any width, and every playable number of plates to who asks for it.   *)
(***************************************************************************)
EXTENDS RulesProofs, PlateCountProperties

\* The range splits into two halves of even size.
LEMMA HalfFacts == Half \in Nat /\ Half >= 64 /\ IntRange = 2 * Half /\ Half % 2 = 0
BY IntAssumption DEF Half

\* Rounding up gives an even int: the successor of an odd one, or, for the
\* largest, the smallest of all.
LEMMA RoundUpIsEven ==
  ASSUME NEW n \in Ints
  PROVE  /\ RoundUp(n) \in Int
         /\ RoundUp(n) % 2 = 0
         /\ n % 2 = 0 => RoundUp(n) = n
<1>1. CASE n % 2 = 0
  BY <1>1 DEF RoundUp, Ints
<1>2. CASE n % 2 # 0 /\ n < Half - 1
  <2>1. n + 1 + Half \in 0..(IntRange - 1)
    BY <1>2, HalfFacts DEF Ints
  <2>2. (n + 1 + Half) % IntRange = n + 1 + Half
    BY <2>1, HalfFacts
  <2>3. RoundUp(n) = n + 1
    BY <1>2, <2>2, HalfFacts DEF RoundUp, Wrap, Ints
  <2> QED
    BY <1>2, <2>3, HalfFacts DEF Ints
<1>3. CASE n % 2 # 0 /\ n = Half - 1
  <2>1. (n + 1 + Half) % IntRange = 0
    BY <1>3, HalfFacts
  <2>2. RoundUp(n) = -Half
    BY <1>3, <2>1, HalfFacts DEF RoundUp, Wrap
  <2> QED
    BY <1>3, <2>2, HalfFacts
<1> QED
  BY <1>1, <1>2, <1>3, HalfFacts DEF Ints

\* The clamp gives a playable number, and keeps one.
LEMMA ClampIsPlayable ==
  ASSUME NEW n \in Ints
  PROVE  Playable(ClampPlateCount(n)) /\ (Playable(n) => ClampPlateCount(n) = n)
BY RoundUpIsEven DEF ClampPlateCount, Playable, MinPlates, MaxPlates

\* For ints of any width: create_room and a match give a playable number of
\* plates, and create_room the one asked for if it is playable.
THEOREM CountsArePlayable == PlatesArePlayable
<1>1. ASSUME NEW n, Playable(n)
      PROVE  n \in Ints
  BY <1>1, HalfFacts DEF Playable, Ints, MinPlates, MaxPlates
<1>2. Playable(MaxPlates)
  BY DEF Playable, MinPlates, MaxPlates
<1>3. \A n \in Ints : Playable(CreatedPlates(n)) /\ (Playable(n) => CreatedPlates(n) = n)
  <2> SUFFICES ASSUME NEW n \in Ints
               PROVE  Playable(CreatedPlates(n)) /\ (Playable(n) => CreatedPlates(n) = n)
    OBVIOUS
  <2> DEFINE m == IF n = 0 THEN MaxPlates ELSE n
  <2>1. m \in Ints /\ (Playable(n) => m = n)
    BY <1>1, <1>2 DEF Playable, MinPlates, MaxPlates
  <2>2. Playable(ClampPlateCount(m)) /\ (Playable(n) => ClampPlateCount(m) = n)
    BY <2>1, ClampIsPlayable
  <2> QED
    BY <2>2, <1>1, ClampIsPlayable DEF CreatedPlates, NewRoomPlates
<1>4. Playable(MatchedPlates)
  <2>1. QueuedPlates = 20
    BY <1>1, <1>2, ClampIsPlayable DEF QueuedPlates, MaxPlates
  <2>2. (40 + Half) % IntRange = 40 + Half
    BY HalfFacts
  <2>3. Wrap(QueuedPlates + QueuedPlates) \div 2 = 20
    BY <2>1, <2>2, HalfFacts DEF Wrap
  <2> QED
    BY <2>3, <1>1, <1>2, ClampIsPlayable DEF MatchedPlates, NewRoomPlates, MaxPlates
<1> QED
  BY <1>3, <1>4 DEF PlatesArePlayable

\* For ints of any width and any number of plates that the rules allow: each
\* room is one that the rules work with, and each number of plates up to the
\* largest is given to the client that asks for it.
THEOREM RoomsCanBePlayed == RulesSpec => []RoomsArePlayable
<1>1. RulesTypeOK => RoomsArePlayable
  <2> SUFFICES ASSUME RulesTypeOK, Cardinality(Plates) <= MaxPlates
               PROVE  \E n \in Ints : CreatedPlates(n) = Cardinality(Plates)
    BY CountsArePlayable DEF RoomsArePlayable, RulesTypeOK
  <2>1. Cardinality(Plates) \in Nat
    BY RulesAssumption, FS_CardinalityType
  <2>2. Playable(Cardinality(Plates))
    BY <2>1, RulesAssumption DEF Playable, MinPlates, MaxPlates
  <2>3. Cardinality(Plates) \in Ints
    BY <2>1, HalfFacts DEF Ints, MaxPlates
  <2> QED
    BY <2>2, <2>3, CountsArePlayable DEF PlatesArePlayable
<1> QED
  BY <1>1, RulesKeepTypes, PTL
=============================================================================
