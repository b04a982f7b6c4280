--------------------------- MODULE RoomProperties ---------------------------
(***************************************************************************)
(* What a room promises.  Which specification of Room keeps which promise  *)
(* is the README's table: some hold under any schedule, some only while    *)
(* handlers and callbacks are atomic and players beat the clock.           *)
(***************************************************************************)
EXTENDS Room

-----------------------------------------------------------------------------
(* Under any schedule.                                                     *)

WithTokens(k) == {p \in hasTokens : tokens[p] = k}

\* Whatever callbacks are late, the placement phase deals in pairs: two plates
\* for every round completed, and in the current round one for each turn taken
\* (placementPending is the turn being taken).
PlacementPairs ==
  phase = "placement" =>
    /\ \A k \in 1..(placementRound - 1) : Cardinality(WithTokens(k)) = 2
    /\ Cardinality(WithTokens(placementRound)) =
         currentTurn + (IF placementPending THEN 1 ELSE 0)

EndPCs == {"stop", "finish", "winner", "report", "remove"}
Ending(g) == go[g].pc \in EndPCs

\* The room is gone, or a goroutine is on its way to remove it.
Closing == ~listed \/ \E g \in Goroutines : Ending(g)

Placing  == {"wakePlace", "cover", "place"}
Advancing == {"wakeAdvance", "advance"}
Revealing == {"wakeHit", "hit", "wakeMiss", "miss"}
Pending(pcs) == \E s \in Slots : go[s].pc \in pcs

\* No lock is left behind: each of the three flags that block the players is
\* set only while a callback that will reset it is on its way, unless the
\* room is being closed.  Were a flag to outlive its callback, the players of
\* a live room could never move again.
LocksHaveOwners ==
  \/ Closing
  \/ /\ placementPending => Pending(Placing)
     /\ confirmPending   => Pending(Revealing \cup Advancing)
     /\ addTokenPending  => Pending(Advancing \cup {"wakeWin"})

\* What LocksHaveOwners rests on: whoever finished the game is still there
\* until the room is removed, so a callback that finds the room inactive may
\* return without resetting its lock.
FinisherStays ==
  phase = "finished" =>
    ~listed \/ \E g \in Goroutines : go[g].pc \in {"winner", "report", "remove"}

-----------------------------------------------------------------------------
(* While handlers and callbacks are atomic and players beat the clock.     *)

\* Goroutines that will move the turn on, or end the game, by themselves.
TurnEnders == {s \in Slots : \/ s = timer
                             \/ go[s].pc \in Revealing \cup Advancing \cup
                                  {"wakeWin", "expired", "timeout",
                                   "turn", "penalty"}}

\* A turn is ended once: no two goroutines are about to end the same turn
\* (the timer counts as one while it runs).
OneTurnEnder ==
  phase \in {"matching", "add_token"} => Cardinality(TurnEnders) <= 1

\* The turn that opened plate p is not over: its callback has yet to cover the
\* plate placed on, or the plate is one of the two that were confirmed, or that
\* matched.
OpenedThisTurn(p) ==
  \/ /\ phase = "placement"
     /\ \E s \in Slots : go[s].pc \in {"wakePlace", "cover"} /\ go[s].plate = p
  \/ phase = "matching" /\ confirmPending /\ p \in selected
  \/ phase = "add_token" /\ p \in matched

\* Nobody peeks: until the game is finished a plate is open only as long as the
\* turn that opened it lasts, and no more than two are open at a time.
NoPeeking ==
  /\ phase # "finished" => \A p \in Plates \ covered : OpenedThisTurn(p)
  /\ Cardinality(Plates \ covered) <= 2

\* Matching only ever raises one of two equal plates, so no count is skipped:
\* below every plate there is a plate with each smaller count.
GapFree ==
  phase \in {"matching", "add_token"} =>
    \A p \in Plates : \A k \in 0..tokens[p] : \E q \in Plates : tokens[q] = k

\* A token is added only to one of two open plates with the same count, and
\* comes from the purse of the player on turn.  (Plates are covered at every
\* change of turn, so that player opened them.)
AddOnlyAfterMatch ==
  [][phase = "add_token" /\ tokens' # tokens =>
       /\ Cardinality(matched) = 2
       /\ \A p, q \in matched : tokens[p] = tokens[q]
       /\ matched \cap covered = {}
       /\ \E p \in matched : tokens' = [tokens EXCEPT ![p] = @ + 1]
       /\ playerTokens' = [playerTokens EXCEPT ![currentTurn] = @ - 1]]_vars

\* A player whose purse is empty has won: the callback that will say so is on
\* its way, or a forfeit was quicker.
EmptyPurseWins ==
  phase \in {"matching", "add_token"} =>
    \A i \in Players :
      /\ playerTokens[i] >= 0
      /\ playerTokens[i] = 0 => \E g \in Goroutines : go[g].why # "none"

\* The game ends once, and when it ends because no pair is left the message
\* names the player who holds fewer tokens.
OneResult ==
  /\ Len(reports) <= 1
  /\ \A n \in 1..Len(reports) :
       LET w == reports[n].winner
           purse == reports[n].tokens
       IN reports[n].reason = "no_matches" =>
            IF w = Nobody THEN purse[0] = purse[1] ELSE purse[w] < purse[1 - w]

\* Whoever is reported to have won by tokens holds none.  (A turn that runs out
\* before the winning callback wakes would add two.)
HonestResult ==
  \A n \in 1..Len(reports) :
    reports[n].reason = "tokens" => reports[n].tokens[reports[n].winner] = 0

\* A finished game stays finished.
FinishedIsFinal == [][phase = "finished" => phase' = "finished"]_vars

\* One token a turn: none is added while a callback that will move the turn on,
\* or say who won, is already under way.
OneAddPerTurn ==
  [][phase = "add_token" /\ tokens' # tokens =>
       ~Pending(Advancing \cup {"wakeWin"})]_vars

-----------------------------------------------------------------------------
(* What must happen.                                                       *)

\* A flag that blocks the players is reset in time, or the room is removed.
LocksAreReleased ==
  /\ placementPending ~> (~placementPending \/ ~listed)
  /\ confirmPending   ~> (~confirmPending \/ ~listed)
  /\ addTokenPending  ~> (~addTokenPending \/ ~listed)

\* Once the end of the game is decided the room goes.
EndIsCarriedOut == (\E g \in Goroutines : go[g].why # "none") ~> ~listed

\* A turn of the matching phase is limited in time: player i does not stay on
\* turn in it for ever.
TurnIsLimited ==
  \A i \in Players :
    (phase = "matching" /\ currentTurn = i) ~>
      ~(phase = "matching" /\ currentTurn = i /\ listed)
=============================================================================
