----------------------------- MODULE PlateCount -----------------------------
(***************************************************************************)
(* How many plates a game has: ClampPlateCount of game/room.go and what    *)
(* cmd/server/main.go gives it.  create_room passes on any int a client    *)
(* sends, so the width of int matters: it is a parameter, as a build may   *)
(* have 32 or 64 bits, and a small one is enough for TLC.                  *)
(***************************************************************************)
EXTENDS Integers

CONSTANT IntRange   \* 2^w, for ints of w bits

\* Seven bits at least, so that 20 is an int with room above it.
ASSUME IntAssumption == IntRange \in Nat /\ IntRange >= 128 /\ IntRange % 4 = 0

Half == IntRange \div 2
Ints == (-Half)..(Half - 1)

\* The int that arithmetic leaves of a sum or difference of two ints.
Wrap(n) == ((n + Half) % IntRange) - Half

MinPlates == 4
MaxPlates == 20

\* Mutation: an odd count stays odd.
RoundUp_Never(n) == n
RoundUp(n) == IF n % 2 # 0 THEN Wrap(n + 1) ELSE n

ClampPlateCount(n) ==
  LET even == RoundUp(n)
      low  == IF even < MinPlates THEN MinPlates ELSE even
  IN IF low > MaxPlates THEN MaxPlates ELSE low

\* NewRoom clamps what it is given, which its callers have clamped before.
NewRoomPlates(n) == ClampPlateCount(n)

\* create_room: 0, or a field left out, stands for the default.
CreatedPlates(n) ==
  NewRoomPlates(ClampPlateCount(IF n = 0 THEN MaxPlates ELSE n))

\* A match: handleJoinQueue asks for the default, the entry is clamped when it
\* joins the queue, and the room gets the mean of two entries.
QueuedPlates == ClampPlateCount(MaxPlates)
MatchedPlates == NewRoomPlates(ClampPlateCount(Wrap(QueuedPlates + QueuedPlates) \div 2))

-----------------------------------------------------------------------------
Playable(n) == n \in MinPlates..MaxPlates /\ n % 2 = 0

\* Whatever number a client sends, the largest int included, which overflows
\* when it is rounded up, the room has an even number of plates from 4 to 20:
\* what the rules assume of Plates.  A number that is playable is kept, however
\* often it is clamped on its way.
PlatesArePlayable ==
  /\ \A n \in Ints :
       /\ Playable(CreatedPlates(n))
       /\ Playable(n) => CreatedPlates(n) = n
  /\ Playable(MatchedPlates)
=============================================================================
