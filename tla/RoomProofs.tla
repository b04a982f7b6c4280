----------------------------- MODULE RoomProofs -----------------------------
(***************************************************************************)
(* What a room keeps whatever the schedule: the type of its state, the     *)
(* owners of its locks, and the pairs of the placement phase.  And what it *)
(* keeps while handlers and callbacks are atomic, the turn timer included: *)
(* a finished game stays finished, and nobody peeks.                       *)
(*                                                                         *)
(* The argument of the second part: whoever is busy is alone, so the       *)
(* goroutine that finishes a game is the only one between two of its       *)
(* locks, and the callbacks that wake later find the room inactive.  The   *)
(* plates are all covered whenever a lock that opens them is free; the one *)
(* step that gives such a lock back without covering them is               *)
(* AdvanceMatching when no pair is left, and a player who is to look for a *)
(* pair always has one.                                                    *)
(***************************************************************************)
EXTENDS RoomProperties, FiniteSetTheorems, TLAPS

-----------------------------------------------------------------------------
(* Goroutines stay goroutines.                                             *)

\* A goroutine given a job is a goroutine.
LEMMA BecomeType ==
  ASSUME go \in [Goroutines -> Goroutine],
         NEW g \in Goroutines, NEW job \in Goroutine, Become(g, job)
  PROVE  go' \in [Goroutines -> Goroutine]
  BY DEF Become

\* So is one that only moves its program counter.
LEMMA JumpType ==
  ASSUME go \in [Goroutines -> Goroutine],
         NEW g \in Goroutines, NEW pc \in PCs, Jump(g, pc)
  PROVE  go' \in [Goroutines -> Goroutine]
<1>1. Job(pc, 0, go[g].who, go[g].plate, go[g].why) \in Goroutine
  BY DEF Job, Goroutine
<1>2. QED BY <1>1, BecomeType DEF Jump

\* The jobs a goroutine is given are of the right type.
LEMMA IdleType == Idle \in Goroutine /\ Ticker \in Goroutine
  BY DEF Idle, Does, Ticker, Job, Goroutine, PCs, Nobody, Reasons

\* A goroutine with nothing but a program counter.
LEMMA DoesType == ASSUME NEW pc \in PCs PROVE Does(pc) \in Goroutine
  BY DEF Does, Job, Goroutine, Nobody, Reasons

\* A callback that sleeps.
LEMMA SleeperType ==
  ASSUME NEW wake \in Wakes, NEW w \in 0..2, NEW who \in Players \cup {Nobody}
  PROVE  Sleeper(wake, w, who) \in Goroutine
  BY DEF Sleeper, Job, Goroutine, PCs, Reasons

\* A handler that leaves a callback behind: both are goroutines.
LEMMA SpawnType ==
  ASSUME go \in [Goroutines -> Goroutine],
         NEW i \in Players, NEW s \in Slots, NEW job \in Goroutine,
         Spawn(i, s, job)
  PROVE  go' \in [Goroutines -> Goroutine]
  BY IdleType DEF Spawn, Goroutines

\* The program counters handlers and callbacks jump to.
LEMMA SomePCs ==
  {"confirm", "place", "startMatching", "startTimer", "stop", "finish",
   "winner", "report", "remove", "expired", "timeout", "turn"} \subseteq PCs
  BY DEF PCs

\* The number of rounds is a number.
LEMMA MaxRoundType == MaxRound \in Int
  BY PlatesAssumption, FS_CardinalityType DEF MaxRound

\* The first state has the type.
LEMMA TypeInit == Init => TypeOK
<1> SUFFICES ASSUME Init PROVE TypeOK
  OBVIOUS
<1>1. GameTypeOK
  BY LimitAssumption DEF Init, GameTypeOK, NewGameState, Phases, Players
<1>2. go \in [Goroutines -> Goroutine]
  BY IdleType, DoesType DEF Init, PCs
<1>3. reports \in Seq([winner : Players \cup {Nobody}, reason : Reasons,
                       tokens : [Players -> Int]])
  BY DEF Init
<1>4. /\ playerTokens \in [Players -> Int]
      /\ timer \in Slots \cup {NoTimer}
  BY DEF Init
<1>5. QED
  BY <1>1, <1>2, <1>3, <1>4 DEF Init, TypeOK

\* Every step keeps the type: one case per action, the goroutines first.
LEMMA TypeStep == TypeOK /\ [Next]_vars => TypeOK'
<1> SUFFICES ASSUME TypeOK, [Next]_vars PROVE TypeOK'
  OBVIOUS
<1> USE DEF TypeOK
<1>1. ASSUME NEW i \in Players, StartGame(i)
     PROVE  TypeOK'
  <2>2. go' \in [Goroutines -> Goroutine]
    BY <1>1, BecomeType, IdleType DEF StartGame, Goroutines
  <2> QED BY <1>1, <2>2 DEF StartGame, GameTypeOK, Phases, Players, locks
<1>2. ASSUME NEW i \in Players, NEW p \in Plates, NEW s \in Slots,
             HandlePlaceToken(i, p, s)
     PROVE  TypeOK'
  <2>1. \A w \in 1..2 : Job("wakePlace", w, Nobody, p, "none") \in Goroutine
    BY DEF Job, Goroutine, PCs, Wakes, Reasons
  <2>2. go' \in [Goroutines -> Goroutine]
    BY <1>2, <2>1, SpawnType DEF HandlePlaceToken
  <2> QED BY <1>2, <2>2 DEF HandlePlaceToken, PlaceToken, GameTypeOK
<1>3. ASSUME NEW i \in Players, NEW p \in Plates, HandleSelectPlate(i, p)
     PROVE  TypeOK'
  <2>2. go' \in [Goroutines -> Goroutine]
    BY <1>3, BecomeType, IdleType DEF HandleSelectPlate, Goroutines
  <2> QED BY <1>3, <2>2 DEF HandleSelectPlate, SelectPlate, GameTypeOK, locks
<1>4. ASSUME NEW i \in Players, ConfirmStopTimer(i)
     PROVE  TypeOK'
  <2>2. go' \in [Goroutines -> Goroutine]
    BY <1>4, JumpType, SomePCs DEF ConfirmStopTimer, Goroutines
  <2> QED BY <1>4, <2>2 DEF ConfirmStopTimer, gameVars, locks, GameTypeOK
<1>5. ASSUME NEW i \in Players, NEW s \in Slots, HandleConfirmMatch(i, s)
     PROVE  TypeOK'
  <2>1. Sleeper("wakeHit", 2, Nobody) \in Goroutine /\ Sleeper("wakeMiss", 2, i) \in Goroutine
    BY SleeperType DEF Wakes
  <2>2. go' \in [Goroutines -> Goroutine]
    BY <1>5, <2>1, SpawnType DEF HandleConfirmMatch
  <2> QED BY <1>5, <2>2 DEF HandleConfirmMatch, ConfirmMatch, GameTypeOK
<1>6. ASSUME NEW i \in Players, RefuseConfirm(i)
     PROVE  TypeOK'
  <2>2. go' \in [Goroutines -> Goroutine]
    BY <1>6, BecomeType, IdleType DEF RefuseConfirm, Goroutines
  <2> QED BY <1>6, <2>2 DEF RefuseConfirm, gameVars, locks, GameTypeOK
<1>7. ASSUME NEW i \in Players, NEW p \in Plates, NEW s \in Slots,
             HandleAddToken(i, p, s)
     PROVE  TypeOK'
  <2>1. \A w \in 1..2 : /\ Job("wakeWin", w, i, NoPlate, "tokens") \in Goroutine
                       /\ Sleeper("wakeAdvance", w, Nobody) \in Goroutine
    BY DEF Job, Sleeper, Goroutine, PCs, Wakes, Reasons
  <2>2. go' \in [Goroutines -> Goroutine]
    BY <1>7, <2>1, SpawnType DEF HandleAddToken, AfterAdd
  <2> QED BY <1>7, <2>2 DEF HandleAddToken, AddToken, GameTypeOK, Players
<1>8. ASSUME NEW i \in Players, HandleLeaveRoom(i)
     PROVE  TypeOK'
  <2>1. Closer(1 - i, "forfeit") \in Goroutine
    BY DEF Closer, Job, Goroutine, PCs, Reasons, Players
  <2>2. go' \in [Goroutines -> Goroutine]
    BY <1>8, <2>1, BecomeType DEF HandleLeaveRoom, Goroutines
  <2> QED BY <1>8, <2>2 DEF HandleLeaveRoom, gameVars, locks, GameTypeOK
<1>9. ASSUME NEW s \in Slots, Wake(s)
     PROVE  TypeOK'
  <2>1. Resume[go[s].pc] \in PCs
    BY <1>9 DEF Wake, Resume, Wakes, PCs
  <2>2. go' \in [Goroutines -> Goroutine]
    BY <1>9, <2>1, BecomeType, JumpType, IdleType DEF Wake, Goroutines
  <2> QED BY <1>9, <2>2 DEF Wake, gameVars, locks, GameTypeOK
<1>10. ASSUME NEW s \in Slots, CoverPlate(s)
     PROVE  TypeOK'
  <2>2. go' \in [Goroutines -> Goroutine]
    BY <1>10, BecomeType, DoesType, SomePCs DEF CoverPlate, Goroutines
  <2>3. covered' \in SUBSET Plates
    BY <1>10 DEF CoverPlate, GameTypeOK
  <2> QED BY <1>10, <2>2, <2>3 DEF CoverPlate, GameTypeOK, locks
<1>11. ASSUME NEW s \in Slots, AdvancePlacement(s)
     PROVE  TypeOK'
  <2>2. go' \in [Goroutines -> Goroutine]
    BY <1>11, JumpType, BecomeType, IdleType, SomePCs
    DEF AdvancePlacement, Goroutines
  <2>3. currentTurn' \in Players /\ placementRound' \in Nat \ {0}
    BY <1>11 DEF AdvancePlacement, NextPlacementTurn, GameTypeOK, Players
  <2> QED
    BY <1>11, <2>2, <2>3 DEF AdvancePlacement, NextPlacementTurn, GameTypeOK
<1>12. ASSUME NEW s \in Slots, StartMatchingPhase(s)
     PROVE  TypeOK'
  <2>2. go' \in [Goroutines -> Goroutine]
    BY <1>12, JumpType, SomePCs DEF StartMatchingPhase, Goroutines
  <2>3. playerTokens' \in [Players -> Int]
    BY <1>12, MaxRoundType, LimitAssumption DEF StartMatchingPhase
  <2> QED BY <1>12, <2>2, <2>3, LimitAssumption
       DEF StartMatchingPhase, StartMatching, GameTypeOK, Phases, Players, locks
<1>13. ASSUME NEW s \in Slots, StartTimer(s)
     PROVE  TypeOK'
  <2>2. go' \in [Goroutines -> Goroutine]
    BY <1>13, BecomeType, IdleType DEF StartTimer, Goroutines
  <2> QED BY <1>13, <2>2, LimitAssumption DEF StartTimer, GameTypeOK, locks
<1>14. ASSUME NEW s \in Slots, SetAddTokenPhase(s)
     PROVE  TypeOK'
  <2>2. go' \in [Goroutines -> Goroutine]
    BY <1>14, BecomeType, IdleType DEF SetAddTokenPhase, Goroutines
  <2> QED
    BY <1>14, <2>2 DEF SetAddTokenPhase, EnterAddToken, GameTypeOK, Phases
<1>15. ASSUME NEW s \in Slots, HandleMatchFail(s)
     PROVE  TypeOK'
  <2>1. Sleeper("wakeAdvance", 2, Nobody) \in Goroutine
    BY SleeperType DEF Wakes
  <2>2. go' \in [Goroutines -> Goroutine]
    BY <1>15, <2>1, BecomeType DEF HandleMatchFail, Goroutines
  <2>3. go[s].who \in Players \cup {Nobody}
    BY DEF Goroutine, Goroutines
  <2>4. playerTokens' \in [Players -> Int]
    <3>1. CASE go[s].who \in Players
      BY <1>15, <3>1 DEF HandleMatchFail
    <3>2. CASE go[s].who \notin Players
      BY <1>15, <3>2 DEF HandleMatchFail
    <3> QED BY <3>1, <3>2
  <2> QED
    BY <1>15, <2>2, <2>4 DEF HandleMatchFail, gameVars, locks, GameTypeOK
<1>16. ASSUME NEW s \in Slots, AdvanceMatching(s)
     PROVE  TypeOK'
  <2>1. Closer(Nobody, "no_matches") \in Goroutine
    BY DEF Closer, Job, Goroutine, PCs, Reasons
  <2>2. go' \in [Goroutines -> Goroutine]
    BY <1>16, <2>1, BecomeType, JumpType, SomePCs
    DEF AdvanceMatching, Goroutines
  <2>3. GameTypeOK'
    <3>1. CASE NextMatchingTurn
      BY <3>1, LimitAssumption
      DEF NextMatchingTurn, GameTypeOK, Phases, Players
    <3>2. CASE UNCHANGED gameVars
      BY <3>2 DEF gameVars, GameTypeOK
    <3> QED BY <1>16, <3>1, <3>2 DEF AdvanceMatching
  <2> QED BY <1>16, <2>2, <2>3 DEF AdvanceMatching
<1>17. ASSUME NEW s \in Slots, TimerTick(s)
     PROVE  TypeOK'
  <2>2. go' \in [Goroutines -> Goroutine]
    BY <1>17, BecomeType, IdleType, DoesType, SomePCs
    DEF TimerTick, Goroutines
  <2> QED BY <1>17, <2>2 DEF TimerTick, GameTypeOK, locks
<1>18. ASSUME NEW s \in Slots, TimerDone(s)
     PROVE  TypeOK'
  <2>2. go' \in [Goroutines -> Goroutine]
    BY <1>18, BecomeType, IdleType DEF TimerDone, Goroutines
  <2> QED BY <1>18, <2>2 DEF TimerDone, gameVars, locks, GameTypeOK
<1>19. ASSUME NEW s \in Slots, TimerExpired(s)
     PROVE  TypeOK'
  <2>2. go' \in [Goroutines -> Goroutine]
    BY <1>19, JumpType, SomePCs DEF TimerExpired, Goroutines
  <2> QED BY <1>19, <2>2 DEF TimerExpired, gameVars, locks, GameTypeOK
<1>20. ASSUME NEW s \in Slots, TimeoutCheck(s)
     PROVE  TypeOK'
  <2>2. go' \in [Goroutines -> Goroutine]
    BY <1>20, BecomeType, JumpType, IdleType, SomePCs
    DEF TimeoutCheck, Goroutines
  <2> QED BY <1>20, <2>2 DEF TimeoutCheck, gameVars, locks, GameTypeOK
<1>21. ASSUME NEW s \in Slots, GetCurrentTurn(s)
     PROVE  TypeOK'
  <2>1. Job("penalty", 0, currentTurn, NoPlate, "none") \in Goroutine
    BY DEF Job, Goroutine, PCs, Reasons, GameTypeOK
  <2>2. go' \in [Goroutines -> Goroutine]
    BY <1>21, <2>1, BecomeType DEF GetCurrentTurn, Goroutines
  <2> QED BY <1>21, <2>2 DEF GetCurrentTurn, gameVars, locks, GameTypeOK
<1>22. ASSUME NEW s \in Slots, HandleTimeout(s)
     PROVE  TypeOK'
  <2>1. Sleeper("wakeAdvance", 2, Nobody) \in Goroutine
    BY SleeperType DEF Wakes
  <2>2. go' \in [Goroutines -> Goroutine]
    BY <1>22, <2>1, BecomeType DEF HandleTimeout, Goroutines
  <2>3. go[s].who \in Players \cup {Nobody}
    BY DEF Goroutine, Goroutines
  <2>4. playerTokens' \in [Players -> Int]
    <3>1. CASE go[s].who \in Players
      BY <1>22, <3>1 DEF HandleTimeout
    <3>2. CASE go[s].who \notin Players
      BY <1>22, <3>2 DEF HandleTimeout
    <3> QED BY <3>1, <3>2
  <2> QED BY <1>22, <2>2, <2>4 DEF HandleTimeout, gameVars, locks, GameTypeOK
<1>23. ASSUME NEW g \in Goroutines, StopTimer(g)
     PROVE  TypeOK'
  <2>2. go' \in [Goroutines -> Goroutine]
    BY <1>23, JumpType, SomePCs DEF StopTimer
  <2> QED BY <1>23, <2>2 DEF StopTimer, gameVars, locks, GameTypeOK
<1>24. ASSUME NEW g \in Goroutines, SetFinished(g)
     PROVE  TypeOK'
  <2>2. go' \in [Goroutines -> Goroutine]
    BY <1>24, JumpType, SomePCs DEF SetFinished
  <2> QED
    BY <1>24, <2>2 DEF SetFinished, MarkFinished, GameTypeOK, Phases, locks
<1>25. ASSUME NEW g \in Goroutines, GetWinner(g)
     PROVE  TypeOK'
  <2>1. Job("report", 0, FewerTokens, NoPlate, "no_matches") \in Goroutine
    BY DEF Job, Goroutine, PCs, Reasons, FewerTokens, Players
  <2>2. go' \in [Goroutines -> Goroutine]
    BY <1>25, <2>1, BecomeType DEF GetWinner
  <2> QED BY <1>25, <2>2 DEF GetWinner, gameVars, locks, GameTypeOK
<1>26. ASSUME NEW g \in Goroutines, ReportGameEnd(g)
     PROVE  TypeOK'
  <2>2. go' \in [Goroutines -> Goroutine]
    BY <1>26, JumpType, SomePCs DEF ReportGameEnd
  <2>3. reports' \in Seq([winner : Players \cup {Nobody}, reason : Reasons,
                          tokens : [Players -> Int]])
    BY <1>26 DEF ReportGameEnd, Goroutine
  <2> QED BY <1>26, <2>2, <2>3 DEF ReportGameEnd, gameVars, locks, GameTypeOK
<1>27. ASSUME NEW g \in Goroutines, RemoveRoom(g)
     PROVE  TypeOK'
  <2>2. go' \in [Goroutines -> Goroutine]
    BY <1>27, BecomeType, IdleType DEF RemoveRoom
  <2> QED BY <1>27, <2>2 DEF RemoveRoom, gameVars, locks, GameTypeOK
<1>28. ASSUME Second
     PROVE  TypeOK'
  <2>1. \A g \in Goroutines : go[g].wait > 0 =>
          Job(go[g].pc, go[g].wait - 1, go[g].who, go[g].plate, go[g].why) \in Goroutine
    BY DEF Job, Goroutine
  <2>2. go' \in [Goroutines -> Goroutine]
    BY <1>28, <2>1 DEF Second
  <2> QED BY <1>28, <2>2 DEF Second, gameVars, locks, GameTypeOK
<1>29. CASE UNCHANGED vars
  BY <1>29 DEF vars, gameVars, locks, GameTypeOK
<1> QED
  BY <1>1, <1>2, <1>3, <1>4, <1>5, <1>6, <1>7, <1>8, <1>9, <1>10, <1>11,
     <1>12, <1>13, <1>14, <1>15, <1>16, <1>17, <1>18, <1>19, <1>20, <1>21,
     <1>22, <1>23, <1>24, <1>25, <1>26, <1>27, <1>28, <1>29
  DEF Next, Work, Arrive, Handler, Message, Callback, CallbackBody,
      TurnTimer, TimeoutBody, EndGame

\* Whatever the schedule, every variable of a room keeps its type: no handler
\* or callback leaves an index, a phase or a purse that is none.
THEOREM Typing == Spec => []TypeOK
<1>1. QED
  BY TypeInit, TypeStep, PTL DEF Spec

-----------------------------------------------------------------------------
(* No lock of a room is left behind: LocksHaveOwners is an invariant of    *)
(* Spec.                                                                   *)
(*                                                                         *)
(* The argument: a goroutine gives up the role it owes a lock to only when *)
(* it resets that lock, or to another role that will, or because the game  *)
(* is being closed.  The delicate case is a callback that finds the room   *)
(* inactive and returns: FinisherStays says that somebody is closing it.   *)

LocksInd == TypeOK /\ FinisherStays /\ LocksHaveOwners

Finishing == {"winner", "report", "remove"}

\* What goroutine g owes, it still owes after it has become job, unless the
\* lock in question is reset or g now closes the room.
KeepsItsDebts(g, job) ==
  /\ go[g].pc \in Placing => job.pc \in Placing \/ ~placementPending'
  /\ go[g].pc \in Revealing \cup Advancing =>
       job.pc \in Revealing \cup Advancing \cup EndPCs \/ ~confirmPending'
  /\ go[g].pc \in Advancing \cup {"wakeWin"} =>
       job.pc \in Advancing \cup {"wakeWin"} \cup EndPCs \/ ~addTokenPending'
  /\ go[g].pc \in EndPCs => job.pc \in EndPCs

\* No lock is taken in the step.
NoLockTaken ==
  /\ placementPending' => placementPending
  /\ confirmPending' => confirmPending
  /\ addTokenPending' => addTokenPending

\* A step of one goroutine leaves the others as they are.
LEMMA BecomeEffect ==
  ASSUME go \in [Goroutines -> Goroutine],
         NEW g \in Goroutines, NEW job, Become(g, job)
  PROVE  /\ go'[g] = job
         /\ \A h \in Goroutines \ {g} : go'[h] = go[h]
  BY DEF Become

\* A handler that spawns a callback leaves all but itself and the callback's
\* slot as they are.
LEMMA SpawnEffect ==
  ASSUME go \in [Goroutines -> Goroutine],
         NEW i \in Players, NEW s \in Slots, NEW job, Spawn(i, s, job)
  PROVE  /\ go[s].pc = "idle" /\ i # s
         /\ go'[i] = Idle /\ go'[s] = job
         /\ \A h \in Goroutines \ {i, s} : go'[h] = go[h]
  BY SlotsAssumption DEF Spawn, Goroutines, At

\* A step of a goroutine that keeps its debts keeps every lock owned.
LEMMA DebtsKept ==
  ASSUME TypeOK, LocksHaveOwners, NEW g \in Goroutines, NEW job,
         Become(g, job), KeepsItsDebts(g, job), NoLockTaken, listed' = listed
  PROVE  LocksHaveOwners'
<1>1. /\ go'[g] = job
      /\ \A h \in Goroutines \ {g} : go'[h] = go[h]
  BY BecomeEffect DEF TypeOK
<1>2. CASE Closing
  <2>1. Closing'
    BY <1>1, <1>2 DEF Closing, Ending, KeepsItsDebts
  <2> QED BY <2>1 DEF LocksHaveOwners
<1>3. CASE job.pc \in EndPCs
  BY <1>1, <1>3 DEF LocksHaveOwners, Closing, Ending
<1>4. CASE ~Closing /\ job.pc \notin EndPCs
  <2>1. placementPending' => Pending(Placing)'
    BY <1>1, <1>4
    DEF LocksHaveOwners, Pending, KeepsItsDebts, NoLockTaken, Goroutines
  <2>2. confirmPending' => Pending(Revealing \cup Advancing)'
    BY <1>1, <1>4
    DEF LocksHaveOwners, Pending, KeepsItsDebts, NoLockTaken, Goroutines
  <2>3. addTokenPending' => Pending(Advancing \cup {"wakeWin"})'
    BY <1>1, <1>4
    DEF LocksHaveOwners, Pending, KeepsItsDebts, NoLockTaken, Goroutines
  <2> QED BY <2>1, <2>2, <2>3 DEF LocksHaveOwners
<1> QED BY <1>2, <1>3, <1>4

\* A goroutine that owes nothing keeps its debts whatever it becomes.
LEMMA DebtFree ==
  ASSUME NEW g \in Goroutines, NEW job,
         go[g].pc \notin Placing \cup Revealing \cup Advancing
                           \cup {"wakeWin"} \cup EndPCs
  PROVE  KeepsItsDebts(g, job)
  BY DEF KeepsItsDebts

\* A step that does not finish the game, of a goroutine that does not close
\* the room, leaves the finisher where it is.
LEMMA FinisherKept ==
  ASSUME TypeOK, FinisherStays, NEW g \in Goroutines, NEW job, Become(g, job),
         listed' = listed,
         phase' = "finished" => phase = "finished" \/ job.pc \in Finishing,
         go[g].pc \in Finishing => job.pc \in Finishing
  PROVE  FinisherStays'
<1>1. /\ go'[g] = job
      /\ \A h \in Goroutines \ {g} : go'[h] = go[h]
  BY BecomeEffect DEF TypeOK
<1> QED BY <1>1 DEF FinisherStays, Finishing

\* A message that takes a lock leaves a callback that owes it; the rest of
\* the room is as it was.
LEMMA SpawnKept ==
  ASSUME LocksInd, NEW i \in Players, NEW s \in Slots, NEW job,
         Spawn(i, s, job), go[i].pc \in {"idle", "confirm"},
         listed' = listed, phase' = phase,
         placementPending' => placementPending \/ job.pc \in Placing,
         confirmPending' => confirmPending \/ job.pc \in Revealing,
         addTokenPending' => addTokenPending \/ job.pc \in Advancing \cup {"wakeWin"}
  PROVE  FinisherStays' /\ LocksHaveOwners'
<1>1. /\ go[s].pc = "idle" /\ i # s
      /\ go'[i] = Idle /\ go'[s] = job
      /\ \A h \in Goroutines \ {i, s} : go'[h] = go[h]
  BY SpawnEffect DEF LocksInd, TypeOK
<1>2. FinisherStays'
  BY <1>1 DEF LocksInd, FinisherStays, Goroutines
<1>3. CASE Closing
  <2>1. Closing'
    BY <1>1, <1>3 DEF Closing, Ending, EndPCs
  <2> QED BY <1>2, <2>1 DEF LocksHaveOwners
<1>4. CASE ~Closing
  <2>1. \A pcs : \/ Pending(pcs) /\ "idle" \notin pcs
                 \/ job.pc \in pcs
                 => Pending(pcs)'
    BY <1>1, SlotsAssumption DEF Pending, Goroutines
  <2>2. "idle" \notin Placing \cup Revealing \cup Advancing \cup {"wakeWin"}
    BY DEF Placing, Revealing, Advancing
  <2>3. placementPending' => Pending(Placing)'
    BY <1>4, <2>1, <2>2 DEF LocksInd, LocksHaveOwners
  <2>4. confirmPending' => Pending(Revealing \cup Advancing)'
    BY <1>4, <2>1, <2>2 DEF LocksInd, LocksHaveOwners
  <2>5. addTokenPending' => Pending(Advancing \cup {"wakeWin"})'
    BY <1>4, <2>1, <2>2 DEF LocksInd, LocksHaveOwners
  <2> QED BY <1>2, <2>3, <2>4, <2>5 DEF LocksHaveOwners
<1> QED BY <1>3, <1>4

\* The pcs of the jobs a goroutine is given.
LEMMA JobPCs ==
  /\ Idle.pc = "idle" /\ Ticker.pc = "ticker"
  /\ \A pc : Does(pc).pc = pc
  /\ \A wake, w, who : Sleeper(wake, w, who).pc = wake
  /\ \A who, why : Closer(who, why).pc = "stop"
  /\ \A pc, w, who, plate, why : Job(pc, w, who, plate, why).pc = pc
  BY DEF Idle, Ticker, Does, Sleeper, Closer, Job

\* A step of a goroutine that owes no lock and finishes no game.
LEMMA QuietStep ==
  ASSUME LocksInd, NEW g \in Goroutines, NEW job, Become(g, job),
         UNCHANGED <<locks, listed>>,
         phase' = "finished" => phase = "finished",
         go[g].pc \notin Placing \cup Revealing \cup Advancing
                           \cup {"wakeWin"} \cup EndPCs
  PROVE  FinisherStays' /\ LocksHaveOwners'
<1>1. KeepsItsDebts(g, job) /\ NoLockTaken
  BY DebtFree DEF NoLockTaken, locks
<1>2. LocksHaveOwners'
  BY <1>1, DebtsKept DEF LocksInd
<1>3. FinisherStays'
  BY FinisherKept DEF LocksInd, Finishing, EndPCs
<1> QED BY <1>2, <1>3

\* A room starts with no lock set and nobody finishing it.
LEMMA LocksInit == Init => LocksInd
<1> SUFFICES ASSUME Init PROVE LocksInd
  OBVIOUS
<1>1. TypeOK
  BY TypeInit
<1>2. FinisherStays /\ LocksHaveOwners
  BY DEF Init, NewGameState, FinisherStays, LocksHaveOwners
<1> QED BY <1>1, <1>2 DEF LocksInd

\* Every step of a room keeps the locks owned.
LEMMA LocksStep == LocksInd /\ [Next]_vars => LocksInd'
<1> SUFFICES ASSUME LocksInd, [Next]_vars PROVE FinisherStays' /\ LocksHaveOwners'
  BY TypeStep DEF LocksInd
<1> USE DEF Placing, Revealing, Advancing, EndPCs
<1>0. go \in [Goroutines -> Goroutine] /\ Players \subseteq Goroutines /\ Slots \subseteq Goroutines
  BY DEF LocksInd, TypeOK, Goroutines
<1>1. ASSUME NEW i \in Players, StartGame(i)
     PROVE  FinisherStays' /\ LocksHaveOwners'
  <2>1. PICK job : Become(i, job)
    BY <1>1 DEF StartGame, Jump
  <2> QED BY <1>1, <1>0, <2>1, QuietStep DEF StartGame, At, Receives, locks
<1>2. ASSUME NEW i \in Players, NEW p \in Plates, HandleSelectPlate(i, p)
     PROVE  FinisherStays' /\ LocksHaveOwners'
  <2>1. PICK job : Become(i, job)
    BY <1>2 DEF HandleSelectPlate, Jump
  <2> QED
    BY <1>2, <1>0, <2>1, QuietStep
    DEF HandleSelectPlate, At, Receives, SelectPlate
<1>3. ASSUME NEW i \in Players, ConfirmStopTimer(i)
     PROVE  FinisherStays' /\ LocksHaveOwners'
  <2>1. PICK job : Become(i, job)
    BY <1>3 DEF ConfirmStopTimer, Jump
  <2> QED
    BY <1>3, <1>0, <2>1, QuietStep
    DEF ConfirmStopTimer, At, Receives, gameVars
<1>4. ASSUME NEW i \in Players, RefuseConfirm(i)
     PROVE  FinisherStays' /\ LocksHaveOwners'
  <2>1. PICK job : Become(i, job)
    BY <1>4 DEF RefuseConfirm, Jump
  <2> QED
    BY <1>4, <1>0, <2>1, QuietStep DEF RefuseConfirm, At, Receives, gameVars
<1>5. ASSUME NEW i \in Players, HandleLeaveRoom(i)
     PROVE  FinisherStays' /\ LocksHaveOwners'
  <2>1. PICK job : Become(i, job)
    BY <1>5 DEF HandleLeaveRoom, Jump
  <2> QED
    BY <1>5, <1>0, <2>1, QuietStep DEF HandleLeaveRoom, At, Receives, gameVars
<1>6. ASSUME NEW s \in Slots, StartMatchingPhase(s)
     PROVE  FinisherStays' /\ LocksHaveOwners'
  <2>1. PICK job : Become(s, job)
    BY <1>6 DEF StartMatchingPhase, Jump
  <2> QED
    BY <1>6, <1>0, <2>1, QuietStep
    DEF StartMatchingPhase, At, Receives, StartMatching
<1>7. ASSUME NEW s \in Slots, StartTimer(s)
     PROVE  FinisherStays' /\ LocksHaveOwners'
  <2>1. PICK job : Become(s, job)
    BY <1>7 DEF StartTimer, Jump
  <2> QED BY <1>7, <1>0, <2>1, QuietStep DEF StartTimer, At, Receives
<1>8. ASSUME NEW s \in Slots, TimerTick(s)
     PROVE  FinisherStays' /\ LocksHaveOwners'
  <2>1. PICK job : Become(s, job)
    BY <1>8 DEF TimerTick, Jump
  <2> QED BY <1>8, <1>0, <2>1, QuietStep DEF TimerTick, At, Receives
<1>9. ASSUME NEW s \in Slots, TimerDone(s)
     PROVE  FinisherStays' /\ LocksHaveOwners'
  <2>1. PICK job : Become(s, job)
    BY <1>9 DEF TimerDone, Jump
  <2> QED BY <1>9, <1>0, <2>1, QuietStep DEF TimerDone, At, Receives, gameVars
<1>10. ASSUME NEW s \in Slots, TimerExpired(s)
     PROVE  FinisherStays' /\ LocksHaveOwners'
  <2>1. PICK job : Become(s, job)
    BY <1>10 DEF TimerExpired, Jump
  <2> QED
    BY <1>10, <1>0, <2>1, QuietStep DEF TimerExpired, At, Receives, gameVars
<1>11. ASSUME NEW s \in Slots, TimeoutCheck(s)
     PROVE  FinisherStays' /\ LocksHaveOwners'
  <2>1. PICK job : Become(s, job)
    BY <1>11 DEF TimeoutCheck, Jump
  <2> QED
    BY <1>11, <1>0, <2>1, QuietStep DEF TimeoutCheck, At, Receives, gameVars
<1>12. ASSUME NEW s \in Slots, GetCurrentTurn(s)
     PROVE  FinisherStays' /\ LocksHaveOwners'
  <2>1. PICK job : Become(s, job)
    BY <1>12 DEF GetCurrentTurn, Jump
  <2> QED
    BY <1>12, <1>0, <2>1, QuietStep DEF GetCurrentTurn, At, Receives, gameVars
<1>13. ASSUME NEW s \in Slots, HandleTimeout(s)
     PROVE  FinisherStays' /\ LocksHaveOwners'
  <2>1. PICK job : Become(s, job)
    BY <1>13 DEF HandleTimeout, Jump
  <2> QED
    BY <1>13, <1>0, <2>1, QuietStep DEF HandleTimeout, At, Receives, gameVars
<1>14. ASSUME NEW i \in Players, NEW p \in Plates, NEW s \in Slots,
              HandlePlaceToken(i, p, s)
     PROVE  FinisherStays' /\ LocksHaveOwners'
  <2>1. PICK job : Spawn(i, s, job) /\ job.pc = "wakePlace"
    BY <1>14, JobPCs DEF HandlePlaceToken
  <2> QED
    BY <1>14, <2>1, SpawnKept DEF HandlePlaceToken, PlaceToken, At, Receives
<1>15. ASSUME NEW i \in Players, NEW s \in Slots, HandleConfirmMatch(i, s)
     PROVE  FinisherStays' /\ LocksHaveOwners'
  <2>1. PICK job : Spawn(i, s, job) /\ job.pc \in {"wakeHit", "wakeMiss"}
    BY <1>15, JobPCs DEF HandleConfirmMatch
  <2> QED BY <1>15, <2>1, SpawnKept DEF HandleConfirmMatch, ConfirmMatch, At
<1>16. ASSUME NEW i \in Players, NEW p \in Plates, NEW s \in Slots,
              HandleAddToken(i, p, s)
     PROVE  FinisherStays' /\ LocksHaveOwners'
  <2>1. PICK job : Spawn(i, s, job) /\ job.pc \in {"wakeWin", "wakeAdvance"}
    BY <1>16, JobPCs DEF HandleAddToken, AfterAdd
  <2> QED BY <1>16, <2>1, SpawnKept DEF HandleAddToken, AddToken, At, Receives
<1>17. ASSUME NEW s \in Slots, Wake(s)
     PROVE  FinisherStays' /\ LocksHaveOwners'
  <2>1. CASE isRoomActive
    <3>1. PICK job : Become(s, job) /\ job.pc = Resume[go[s].pc]
      BY <1>17, <2>1, JobPCs DEF Wake, Jump
    <3>2. KeepsItsDebts(s, job)
      BY <1>17, <3>1 DEF KeepsItsDebts, Wake, Wakes, Resume
    <3>3. LocksHaveOwners'
      BY <1>17, <1>0, <3>1, <3>2, DebtsKept
      DEF Wake, locks, NoLockTaken, LocksInd
    <3>4. FinisherStays'
      BY <1>17, <1>0, <3>1, FinisherKept
      DEF Wake, gameVars, Wakes, LocksInd, Finishing
    <3> QED BY <3>3, <3>4
  <2>2. CASE ~isRoomActive
    <3>1. Become(s, Idle) /\ go[s].pc \notin EndPCs
      BY <1>17, <2>2 DEF Wake, Wakes
    <3>2. FinisherStays'
      BY <1>17, <1>0, <3>1, FinisherKept
      DEF Wake, gameVars, LocksInd, Finishing
    <3>3. ~listed \/ phase = "finished"
      BY <2>2 DEF isRoomActive
    <3>4. Closing
      BY <3>3 DEF LocksInd, FinisherStays, Closing, Ending
    <3>5. Closing'
      BY <1>17, <1>0, <3>1, <3>4, BecomeEffect DEF Wake, Closing, Ending
    <3> QED BY <3>2, <3>5 DEF LocksHaveOwners
  <2> QED BY <2>1, <2>2
<1>18. ASSUME NEW s \in Slots, CoverPlate(s)
     PROVE  FinisherStays' /\ LocksHaveOwners'
  <2>1. PICK job : Become(s, job) /\ job.pc = "place"
    BY <1>18, JobPCs DEF CoverPlate, Jump
  <2>2. KeepsItsDebts(s, job)
    BY <1>18, <2>1 DEF KeepsItsDebts, CoverPlate, At
  <2>3. LocksHaveOwners'
    BY <1>18, <1>0, <2>1, <2>2, DebtsKept
    DEF CoverPlate, locks, NoLockTaken, LocksInd
  <2>4. FinisherStays'
    BY <1>18, <1>0, <2>1, FinisherKept
    DEF CoverPlate, gameVars, At, LocksInd, Finishing
  <2> QED BY <2>3, <2>4
<1>19. ASSUME NEW s \in Slots, AdvancePlacement(s)
     PROVE  FinisherStays' /\ LocksHaveOwners'
  <2>1. PICK job : Become(s, job) /\ job.pc \in {"startMatching", "idle"}
    BY <1>19, JobPCs DEF AdvancePlacement, Jump
  <2>2. KeepsItsDebts(s, job)
    BY <1>19, <2>1 DEF KeepsItsDebts, AdvancePlacement, At
  <2>3. LocksHaveOwners'
    BY <1>19, <1>0, <2>1, <2>2, DebtsKept
    DEF AdvancePlacement, locks, NoLockTaken, LocksInd
  <2>4. FinisherStays'
    BY <1>19, <1>0, <2>1, FinisherKept
    DEF AdvancePlacement, NextPlacementTurn, At, LocksInd, Finishing
  <2> QED BY <2>3, <2>4
<1>20. ASSUME NEW s \in Slots, SetAddTokenPhase(s)
     PROVE  FinisherStays' /\ LocksHaveOwners'
  <2>1. PICK job : Become(s, job) /\ job.pc = "idle"
    BY <1>20, JobPCs DEF SetAddTokenPhase, Jump
  <2>2. KeepsItsDebts(s, job)
    BY <1>20, <2>1 DEF KeepsItsDebts, SetAddTokenPhase, At
  <2>3. LocksHaveOwners'
    BY <1>20, <1>0, <2>1, <2>2, DebtsKept
    DEF SetAddTokenPhase, locks, NoLockTaken, LocksInd
  <2>4. FinisherStays'
    BY <1>20, <1>0, <2>1, FinisherKept
    DEF SetAddTokenPhase, EnterAddToken, At, LocksInd, Finishing
  <2> QED BY <2>3, <2>4
<1>21. ASSUME NEW s \in Slots, HandleMatchFail(s)
     PROVE  FinisherStays' /\ LocksHaveOwners'
  <2>1. PICK job : Become(s, job) /\ job.pc = "wakeAdvance"
    BY <1>21, JobPCs DEF HandleMatchFail, Jump
  <2>2. KeepsItsDebts(s, job)
    BY <1>21, <2>1 DEF KeepsItsDebts, HandleMatchFail, At
  <2>3. LocksHaveOwners'
    BY <1>21, <1>0, <2>1, <2>2, DebtsKept
    DEF HandleMatchFail, locks, NoLockTaken, LocksInd
  <2>4. FinisherStays'
    BY <1>21, <1>0, <2>1, FinisherKept
    DEF HandleMatchFail, gameVars, At, LocksInd, Finishing
  <2> QED BY <2>3, <2>4
<1>22. ASSUME NEW s \in Slots, AdvanceMatching(s)
     PROVE  FinisherStays' /\ LocksHaveOwners'
  <2>1. PICK job : Become(s, job) /\ job.pc \in {"startTimer", "stop"}
    BY <1>22, JobPCs DEF AdvanceMatching, Jump
  <2>2. KeepsItsDebts(s, job)
    BY <1>22, <2>1 DEF KeepsItsDebts, AdvanceMatching, At
  <2>3. LocksHaveOwners'
    BY <1>22, <1>0, <2>1, <2>2, DebtsKept
    DEF AdvanceMatching, locks, NoLockTaken, LocksInd
  <2>4. FinisherStays'
    BY <1>22, <1>0, <2>1, FinisherKept
    DEF AdvanceMatching, NextMatchingTurn, gameVars, At, LocksInd, Finishing
  <2> QED BY <2>3, <2>4
<1>23. ASSUME NEW g \in Goroutines, StopTimer(g)
     PROVE  FinisherStays' /\ LocksHaveOwners'
  <2>1. PICK job : Become(g, job) /\ job.pc = "finish"
    BY <1>23, JobPCs DEF StopTimer, Jump
  <2>2. KeepsItsDebts(g, job)
    BY <1>23, <2>1 DEF KeepsItsDebts, StopTimer, At
  <2>3. LocksHaveOwners'
    BY <1>23, <1>0, <2>1, <2>2, DebtsKept
    DEF StopTimer, locks, NoLockTaken, LocksInd
  <2>4. FinisherStays'
    BY <1>23, <1>0, <2>1, FinisherKept
    DEF StopTimer, gameVars, At, LocksInd, Finishing
  <2> QED BY <2>3, <2>4
<1>24. ASSUME NEW g \in Goroutines, SetFinished(g)
     PROVE  FinisherStays' /\ LocksHaveOwners'
  <2>1. PICK job : Become(g, job) /\ job.pc \in {"winner", "report"}
    BY <1>24, JobPCs DEF SetFinished, Jump
  <2>2. KeepsItsDebts(g, job)
    BY <1>24, <2>1 DEF KeepsItsDebts, SetFinished, At
  <2>3. LocksHaveOwners'
    BY <1>24, <1>0, <2>1, <2>2, DebtsKept
    DEF SetFinished, locks, NoLockTaken, LocksInd
  <2>4. FinisherStays'
    BY <1>24, <1>0, <2>1, FinisherKept
    DEF SetFinished, MarkFinished, At, LocksInd, Finishing
  <2> QED BY <2>3, <2>4
<1>25. ASSUME NEW g \in Goroutines, GetWinner(g)
     PROVE  FinisherStays' /\ LocksHaveOwners'
  <2>1. PICK job : Become(g, job) /\ job.pc = "report"
    BY <1>25, JobPCs DEF GetWinner, Jump
  <2>2. KeepsItsDebts(g, job)
    BY <1>25, <2>1 DEF KeepsItsDebts, GetWinner, At
  <2>3. LocksHaveOwners'
    BY <1>25, <1>0, <2>1, <2>2, DebtsKept
    DEF GetWinner, locks, NoLockTaken, LocksInd
  <2>4. FinisherStays'
    BY <1>25, <1>0, <2>1, FinisherKept
    DEF GetWinner, gameVars, At, LocksInd, Finishing
  <2> QED BY <2>3, <2>4
<1>26. ASSUME NEW g \in Goroutines, ReportGameEnd(g)
     PROVE  FinisherStays' /\ LocksHaveOwners'
  <2>1. PICK job : Become(g, job) /\ job.pc = "remove"
    BY <1>26, JobPCs DEF ReportGameEnd, Jump
  <2>2. KeepsItsDebts(g, job)
    BY <1>26, <2>1 DEF KeepsItsDebts, ReportGameEnd, At
  <2>3. LocksHaveOwners'
    BY <1>26, <1>0, <2>1, <2>2, DebtsKept
    DEF ReportGameEnd, locks, NoLockTaken, LocksInd
  <2>4. FinisherStays'
    BY <1>26, <1>0, <2>1, FinisherKept
    DEF ReportGameEnd, gameVars, At, LocksInd, Finishing
  <2> QED BY <2>3, <2>4
<1>27. ASSUME NEW g \in Goroutines, RemoveRoom(g)
     PROVE  FinisherStays' /\ LocksHaveOwners'
  BY <1>27 DEF RemoveRoom, FinisherStays, LocksHaveOwners, Closing
<1>28. ASSUME Second
     PROVE  FinisherStays' /\ LocksHaveOwners'
  <2>1. \A g \in Goroutines : go'[g].pc = go[g].pc
    BY <1>28, <1>0 DEF Second, Job
  <2>2. \A s \in Slots : go'[s].pc = go[s].pc
    BY <1>0, <2>1
  <2> QED BY <1>28, <2>1, <2>2 DEF Second, gameVars, locks, LocksInd,
       FinisherStays, LocksHaveOwners, Closing, Ending, Pending
<1>29. CASE UNCHANGED vars
  BY <1>29 DEF vars, gameVars, locks, LocksInd, FinisherStays,
       LocksHaveOwners, Closing, Ending, Pending
<1> QED
  BY <1>1, <1>2, <1>3, <1>4, <1>5, <1>6, <1>7, <1>8, <1>9, <1>10, <1>11,
     <1>12, <1>13, <1>14, <1>15, <1>16, <1>17, <1>18, <1>19, <1>20, <1>21,
     <1>22, <1>23, <1>24, <1>25, <1>26, <1>27, <1>28, <1>29
  DEF Next, Work, Arrive, Handler, Message, Callback, CallbackBody,
      TurnTimer, TimeoutBody, EndGame

\* Whatever the schedule, every lock that is set has a callback that will
\* reset it, unless the room is being closed.
THEOREM LocksOwned == Spec => []LocksHaveOwners
<1>1. LocksInd => LocksHaveOwners
  BY DEF LocksInd
<1> QED
  BY LocksInit, LocksStep, <1>1, PTL DEF Spec

\* Whatever the schedule, a finished game is in the hands of a goroutine that
\* will report it and remove the room, until the room is removed.
THEOREM FinishersStay == Spec => []FinisherStays
<1>1. LocksInd => FinisherStays
  BY DEF LocksInd
<1> QED
  BY LocksInit, LocksStep, <1>1, PTL DEF Spec

-----------------------------------------------------------------------------
(* The placement phase deals in pairs: PlacementPairs is an invariant of   *)
(* Spec.                                                                   *)
(*                                                                         *)
(* The argument: during the placement phase placementPending lets only one *)
(* turn be under way, so the round a plate is given is the round its turn  *)
(* was taken in, and AdvancePlacement is called once for each plate.       *)

\* Until the game is started nothing has been placed and nothing is under way.
StartOnce ==
  /\ ~At(0, "start")
  /\ At(1, "start") =>
       /\ phase \in {"waiting", "finished"}
       /\ currentTurn = 0 /\ placementRound = 1
       /\ hasTokens = {} /\ ~placementPending
       /\ \A s \in Slots : At(s, "idle")

\* One turn is under way at a time, and no plate is ahead of the round.
OnePlacer ==
  phase = "placement" =>
    /\ \A s \in Slots : go[s].pc \in Placing \cup {"idle", "startMatching"}
    /\ \A s, t \in Slots :
         go[s].pc \in Placing /\ go[t].pc \in Placing => s = t
    /\ Pending(Placing) => placementPending
    /\ \A p \in hasTokens : tokens[p] <= placementRound

PlacementInd == TypeOK /\ StartOnce /\ OnePlacer /\ PlacementPairs

\* A step of one goroutine does not bring StartGame back.
LEMMA StartKept ==
  ASSUME TypeOK, StartOnce, NEW g \in Goroutines, NEW job,
         Become(g, job), job.pc # "start",
         g \in Slots => ~At(g, "idle"),
         g = 0 => /\ phase' \in {phase, "finished"}
                  /\ UNCHANGED <<currentTurn, placementRound, hasTokens,
                                 placementPending>>
  PROVE  StartOnce'
<1>1. /\ go'[g] = job
      /\ \A h \in Goroutines \ {g} : go'[h] = go[h]
  BY BecomeEffect DEF TypeOK
<1>2. 0 \in Goroutines /\ 1 \in Goroutines /\ Slots \subseteq Goroutines
  BY DEF Goroutines, Players
<1>3. ~At(0, "start")'
  BY <1>1, <1>2 DEF StartOnce, At
<1>4. ASSUME At(1, "start")'
      PROVE  /\ phase' \in {"waiting", "finished"}
             /\ currentTurn' = 0 /\ placementRound' = 1
             /\ hasTokens' = {} /\ ~placementPending'
             /\ \A s \in Slots : At(s, "idle")'
  <2>1. At(1, "start") /\ g # 1
    BY <1>1, <1>2, <1>4 DEF At
  <2>2. g = 0
    BY <2>1 DEF StartOnce, Goroutines, Players
  <2>3. \A s \in Slots : At(s, "idle")'
    BY <1>1, <1>2, <2>1, <2>2, SlotsAssumption DEF StartOnce, At, Players
  <2> QED BY <2>1, <2>2, <2>3 DEF StartOnce
<1> QED BY <1>3, <1>4 DEF StartOnce

\* Nor does a message that is handled once the game has started.
LEMMA StartSpawnKept ==
  ASSUME TypeOK, StartOnce, NEW i \in Players, NEW s \in Slots, NEW job,
         Spawn(i, s, job), job.pc # "start",
         phase \notin {"waiting", "finished"}
  PROVE  StartOnce'
<1>1. /\ go'[i] = Idle /\ go'[s] = job
      /\ \A h \in Goroutines \ {i, s} : go'[h] = go[h]
  BY SpawnEffect DEF TypeOK
<1>2. 0 \in Goroutines /\ 1 \in Goroutines /\ 0 # s /\ 1 # s
  BY SlotsAssumption DEF Goroutines, Players
<1>3. ~At(0, "start") /\ ~At(1, "start")
  BY DEF StartOnce
<1>4. ~At(0, "start")' /\ ~At(1, "start")'
  BY <1>1, <1>2, <1>3, JobPCs DEF At
<1> QED BY <1>4 DEF StartOnce

\* A step that places nothing, and starts no turn, leaves the pairs alone.
LEMMA PairsKept ==
  ASSUME PlacementInd, NEW g \in Goroutines, NEW job, Become(g, job),
         UNCHANGED <<tokens, hasTokens, currentTurn, placementRound,
                     placementPending>>,
         phase' = "placement" => phase = "placement",
         phase' = "placement" /\ g \in Slots =>
           /\ job.pc \in Placing \cup {"idle", "startMatching"}
           /\ job.pc \in Placing => go[g].pc \in Placing
  PROVE  OnePlacer' /\ PlacementPairs'
<1>1. CASE phase' # "placement"
  BY <1>1 DEF OnePlacer, PlacementPairs
<1>2. CASE phase' = "placement"
  <2>1. /\ go'[g] = job
        /\ \A h \in Goroutines \ {g} : go'[h] = go[h]
    BY BecomeEffect DEF PlacementInd, TypeOK
  <2>2. OnePlacer'
    BY <1>2, <2>1 DEF PlacementInd, OnePlacer, Pending, Goroutines
  <2>3. PlacementPairs'
    BY <1>2 DEF PlacementInd, PlacementPairs, WithTokens
  <2> QED BY <2>2, <2>3
<1> QED BY <1>1, <1>2

\* Before the game has started nothing is placed.
LEMMA PlacementInit == Init => PlacementInd
<1> SUFFICES ASSUME Init PROVE PlacementInd
  OBVIOUS
<1>1. TypeOK
  BY TypeInit
<1>2. StartOnce
  BY SlotsAssumption, JobPCs
  DEF Init, NewGameState, StartOnce, At, Goroutines, Players
<1>3. OnePlacer /\ PlacementPairs
  BY DEF Init, NewGameState, OnePlacer, PlacementPairs
<1> QED BY <1>1, <1>2, <1>3 DEF PlacementInd

\* The game starts with nothing placed.
LEMMA StartGamePairs ==
  ASSUME PlacementInd, NEW i \in Players, StartGame(i)
  PROVE  StartOnce' /\ OnePlacer' /\ PlacementPairs'
<1>1. i = 1 /\ At(1, "start")
  BY DEF StartGame, PlacementInd, StartOnce, Players
<1>2. /\ go'[1] = Idle
      /\ \A h \in Goroutines \ {1} : go'[h] = go[h]
  BY <1>1, BecomeEffect DEF PlacementInd, TypeOK, StartGame, Goroutines
<1>3. ~At(0, "start")' /\ ~At(1, "start")'
  BY <1>1, <1>2, JobPCs DEF PlacementInd, StartOnce, At, Goroutines, Players
<1>4. \A s \in Slots : go'[s].pc = "idle"
  BY <1>1, <1>2, SlotsAssumption
  DEF PlacementInd, StartOnce, At, Goroutines, Players
<1>5. OnePlacer'
  BY <1>1, <1>4
  DEF PlacementInd, StartOnce, StartGame, OnePlacer, Pending, Placing
<1>6. WithTokens(1)' = {}
  BY <1>1 DEF PlacementInd, StartOnce, StartGame, WithTokens
<1>7. Cardinality(WithTokens(1)') = 0
  BY <1>6, FS_EmptySet
<1>8. PlacementPairs'
  BY <1>1, <1>7 DEF PlacementInd, StartOnce, StartGame, PlacementPairs, locks
<1> QED BY <1>3, <1>5, <1>8 DEF StartOnce

\* A plate placed counts for the round under way, and for no other.
LEMMA PlaceTokenPairs ==
  ASSUME PlacementInd, NEW i \in Players, NEW p \in Plates, NEW s \in Slots,
         HandlePlaceToken(i, p, s)
  PROVE  StartOnce' /\ OnePlacer' /\ PlacementPairs'
<1>1. /\ phase = "placement" /\ phase' = phase
      /\ p \notin hasTokens /\ hasTokens' = hasTokens \cup {p}
      /\ tokens' = [tokens EXCEPT ![p] = placementRound]
      /\ ~placementPending /\ placementPending'
      /\ currentTurn' = currentTurn /\ placementRound' = placementRound
  BY DEF HandlePlaceToken, PlaceToken
<1>2. /\ tokens \in [Plates -> Nat] /\ hasTokens \in SUBSET Plates
      /\ placementRound \in Nat \ {0} /\ currentTurn \in Players
  BY DEF PlacementInd, TypeOK, GameTypeOK
<1>3. PICK job : Spawn(i, s, job) /\ job.pc = "wakePlace"
  BY JobPCs DEF HandlePlaceToken
<1>4. /\ go[s].pc = "idle" /\ i # s
      /\ go'[i] = Idle /\ go'[s] = job
      /\ \A h \in Goroutines \ {i, s} : go'[h] = go[h]
  BY <1>3, SpawnEffect DEF PlacementInd, TypeOK
<1>5. StartOnce'
  BY <1>1, <1>3, StartSpawnKept DEF PlacementInd
<1>6. OnePlacer'
  <2>1. \A t \in Slots : go[t].pc \in {"idle", "startMatching"}
    BY <1>1 DEF PlacementInd, OnePlacer, Pending
  <2>2. \A t \in Slots : /\ go'[t].pc \in Placing \cup {"idle", "startMatching"}
                         /\ go'[t].pc \in Placing => t = s
    BY <1>3, <1>4, <2>1, SlotsAssumption DEF Placing, Goroutines
  <2>3. \A q \in hasTokens' : tokens'[q] <= placementRound'
    BY <1>1, <1>2 DEF PlacementInd, OnePlacer
  <2> QED BY <1>1, <2>2, <2>3 DEF OnePlacer
<1>7. \A k \in 1..(placementRound - 1) : WithTokens(k)' = WithTokens(k)
  BY <1>1, <1>2 DEF WithTokens
<1>8. /\ WithTokens(placementRound)' = WithTokens(placementRound) \cup {p}
      /\ p \notin WithTokens(placementRound)
  BY <1>1, <1>2 DEF WithTokens
<1>9. IsFiniteSet(WithTokens(placementRound))
  BY <1>2, PlatesAssumption, FS_Subset DEF WithTokens
<1>10. Cardinality(WithTokens(placementRound)') = currentTurn + 1
  <2>1. Cardinality(WithTokens(placementRound)) = currentTurn
    BY <1>1, <1>2 DEF PlacementInd, PlacementPairs, Players
  <2> QED BY <1>2, <1>8, <1>9, <2>1, FS_AddElement
<1>11. PlacementPairs'
  BY <1>1, <1>2, <1>7, <1>10 DEF PlacementInd, PlacementPairs
<1> QED BY <1>5, <1>6, <1>11

\* The turn that ends has placed its plate: a round ends with two.
LEMMA AdvancePairs ==
  ASSUME PlacementInd, NEW s \in Slots, AdvancePlacement(s)
  PROVE  StartOnce' /\ OnePlacer' /\ PlacementPairs'
<1>1. /\ phase' = phase /\ ~placementPending'
      /\ currentTurn' = 1 - currentTurn
      /\ placementRound' = placementRound + currentTurn
      /\ tokens' = tokens /\ hasTokens' = hasTokens
      /\ go[s].pc = "place"
  BY DEF AdvancePlacement, NextPlacementTurn, At
<1>2. /\ tokens \in [Plates -> Nat] /\ hasTokens \in SUBSET Plates
      /\ placementRound \in Nat \ {0} /\ currentTurn \in {0, 1}
  BY DEF PlacementInd, TypeOK, GameTypeOK, Players
<1>3. PICK job : Become(s, job) /\ job.pc \in {"idle", "startMatching"}
  BY JobPCs DEF AdvancePlacement, Jump
<1>4. s \in Goroutines /\ s # 0
  BY SlotsAssumption DEF Goroutines, Players
<1>5. /\ go'[s] = job
      /\ \A h \in Goroutines \ {s} : go'[h] = go[h]
  BY <1>3, <1>4, BecomeEffect DEF PlacementInd, TypeOK
<1>6. StartOnce'
  BY <1>1, <1>3, <1>4, StartKept DEF PlacementInd, At
<1>7. CASE phase # "placement"
  BY <1>1, <1>6, <1>7 DEF OnePlacer, PlacementPairs
<1>8. CASE phase = "placement"
  <2>1. \A t \in Slots : go'[t].pc \in {"idle", "startMatching"}
    BY <1>1, <1>3, <1>5, <1>8 DEF PlacementInd, OnePlacer, Placing, Goroutines
  <2>2. \A p \in hasTokens : tokens[p] <= placementRound /\ tokens[p] \in Nat
    BY <1>2, <1>8 DEF PlacementInd, OnePlacer
  <2>3. OnePlacer'
    BY <1>1, <1>2, <2>1, <2>2 DEF OnePlacer, Pending, Placing
  <2>4. placementPending
    BY <1>1, <1>8 DEF PlacementInd, OnePlacer, Pending, Placing
  <2>5. /\ Cardinality(WithTokens(placementRound)) = currentTurn + 1
        /\ \A k \in 1..(placementRound - 1) : Cardinality(WithTokens(k)) = 2
    BY <1>2, <1>8, <2>4 DEF PlacementInd, PlacementPairs
  <2>6. \A k : WithTokens(k)' = WithTokens(k)
    BY <1>1 DEF WithTokens
  <2>7. CASE currentTurn = 0
    BY <1>1, <1>2, <1>6, <2>3, <2>5, <2>6, <2>7 DEF PlacementPairs
  <2>8. CASE currentTurn = 1
    <3>1. WithTokens(placementRound + 1) = {}
      BY <1>2, <2>2 DEF WithTokens
    <3>2. Cardinality(WithTokens(placementRound + 1)) = 0
      BY <3>1, FS_EmptySet
    <3>3. \A k \in 1..placementRound : Cardinality(WithTokens(k)) = 2
      BY <1>2, <2>5, <2>8
    <3> QED
      BY <1>1, <1>2, <1>6, <2>3, <2>6, <2>8, <3>2, <3>3 DEF PlacementPairs
  <2> QED BY <1>2, <2>7, <2>8
<1> QED BY <1>7, <1>8

\* Every step of a room keeps the pairs.
LEMMA PlacementStep == PlacementInd /\ [Next]_vars => PlacementInd'
<1> SUFFICES ASSUME PlacementInd, [Next]_vars
             PROVE  StartOnce' /\ OnePlacer' /\ PlacementPairs'
  BY TypeStep DEF PlacementInd
<1>0. /\ TypeOK /\ StartOnce
      /\ Players \subseteq Goroutines /\ Slots \subseteq Goroutines
      /\ \A s \in Slots : s \notin {0, 1}
  BY SlotsAssumption DEF PlacementInd, Goroutines, Players
<1>1. ASSUME NEW i \in Players, StartGame(i)
      PROVE  StartOnce' /\ OnePlacer' /\ PlacementPairs'
  BY <1>1, StartGamePairs
<1>2. ASSUME NEW i \in Players, NEW p \in Plates, NEW s \in Slots,
             HandlePlaceToken(i, p, s)
      PROVE  StartOnce' /\ OnePlacer' /\ PlacementPairs'
  BY <1>2, PlaceTokenPairs
<1>3. ASSUME NEW s \in Slots, AdvancePlacement(s)
      PROVE  StartOnce' /\ OnePlacer' /\ PlacementPairs'
  BY <1>3, AdvancePairs
<1>4. ASSUME NEW i \in Players, ConfirmStopTimer(i)
      PROVE  StartOnce' /\ OnePlacer' /\ PlacementPairs'
  <2>1. PICK job : Become(i, job) /\ job.pc # "start"
    BY <1>4, JobPCs DEF ConfirmStopTimer, Jump
  <2>2. StartOnce'
    BY <1>4, <1>0, <2>1, StartKept, SlotsAssumption
    DEF ConfirmStopTimer, gameVars, locks
  <2>3. OnePlacer' /\ PlacementPairs'
    BY <1>4, <1>0, <2>1, PairsKept, SlotsAssumption
    DEF ConfirmStopTimer, gameVars, locks
  <2> QED BY <2>2, <2>3
<1>5. ASSUME NEW i \in Players, RefuseConfirm(i)
      PROVE  StartOnce' /\ OnePlacer' /\ PlacementPairs'
  <2>1. PICK job : Become(i, job) /\ job.pc # "start"
    BY <1>5, JobPCs DEF RefuseConfirm, Jump
  <2>2. StartOnce'
    BY <1>5, <1>0, <2>1, StartKept, SlotsAssumption
    DEF RefuseConfirm, gameVars, locks
  <2>3. OnePlacer' /\ PlacementPairs'
    BY <1>5, <1>0, <2>1, PairsKept, SlotsAssumption
    DEF RefuseConfirm, gameVars, locks
  <2> QED BY <2>2, <2>3
<1>6. ASSUME NEW i \in Players, HandleLeaveRoom(i)
      PROVE  StartOnce' /\ OnePlacer' /\ PlacementPairs'
  <2>1. PICK job : Become(i, job) /\ job.pc # "start"
    BY <1>6, JobPCs DEF HandleLeaveRoom, Jump
  <2>2. StartOnce'
    BY <1>6, <1>0, <2>1, StartKept, SlotsAssumption
    DEF HandleLeaveRoom, gameVars, locks
  <2>3. OnePlacer' /\ PlacementPairs'
    BY <1>6, <1>0, <2>1, PairsKept, SlotsAssumption
    DEF HandleLeaveRoom, gameVars, locks
  <2> QED BY <2>2, <2>3
<1>7. ASSUME NEW i \in Players, NEW p \in Plates, HandleSelectPlate(i, p)
      PROVE  StartOnce' /\ OnePlacer' /\ PlacementPairs'
  <2>1. Become(i, Idle) /\ Idle.pc # "start"
    BY <1>7, JobPCs DEF HandleSelectPlate
  <2>2. StartOnce'
    BY <1>7, <1>0, <2>1, StartKept, SlotsAssumption
    DEF HandleSelectPlate, SelectPlate, locks
  <2>3. OnePlacer' /\ PlacementPairs'
    BY <1>7 DEF HandleSelectPlate, SelectPlate, OnePlacer, PlacementPairs
  <2> QED BY <2>2, <2>3
<1>8. ASSUME NEW i \in Players, NEW s \in Slots, HandleConfirmMatch(i, s)
      PROVE  StartOnce' /\ OnePlacer' /\ PlacementPairs'
  <2>1. PICK job : Spawn(i, s, job) /\ job.pc # "start"
    BY <1>8, JobPCs DEF HandleConfirmMatch
  <2>2. phase \in {"matching", "add_token"} /\ phase' = phase
    BY <1>8 DEF HandleConfirmMatch, CanConfirm, ConfirmMatch, AddToken
  <2>3. StartOnce'
    BY <1>0, <2>1, <2>2, StartSpawnKept
  <2> QED BY <2>2, <2>3 DEF OnePlacer, PlacementPairs
<1>9. ASSUME NEW i \in Players, NEW p \in Plates, NEW s \in Slots,
             HandleAddToken(i, p, s)
      PROVE  StartOnce' /\ OnePlacer' /\ PlacementPairs'
  <2>1. PICK job : Spawn(i, s, job) /\ job.pc # "start"
    BY <1>9, JobPCs DEF HandleAddToken, AfterAdd
  <2>2. phase \in {"matching", "add_token"} /\ phase' = phase
    BY <1>9 DEF HandleAddToken, CanConfirm, ConfirmMatch, AddToken
  <2>3. StartOnce'
    BY <1>0, <2>1, <2>2, StartSpawnKept
  <2> QED BY <2>2, <2>3 DEF OnePlacer, PlacementPairs
<1>10. ASSUME NEW s \in Slots, Wake(s)
      PROVE  StartOnce' /\ OnePlacer' /\ PlacementPairs'
  <2>1. PICK job : /\ Become(s, job) /\ job.pc # "start"
                    /\ job.pc \in {"idle", Resume[go[s].pc]}
    BY <1>10, JobPCs DEF Wake, Wakes, Resume, Jump
  <2>2. StartOnce'
    BY <1>10, <1>0, <2>1, StartKept DEF Wake, Wakes, At
  <2>3. phase = "placement" =>
          job.pc \in Placing \cup {"idle"} /\ go[s].pc \in Placing
    BY <1>10, <2>1 DEF Wake, Wakes, Resume, PlacementInd, OnePlacer, Placing
  <2>4. OnePlacer' /\ PlacementPairs'
    BY <1>10, <1>0, <2>1, <2>3, PairsKept DEF Wake, gameVars, locks
  <2> QED BY <2>2, <2>4
<1>11. ASSUME NEW s \in Slots, CoverPlate(s)
      PROVE  StartOnce' /\ OnePlacer' /\ PlacementPairs'
  <2>1. PICK job : Become(s, job) /\ job.pc = "place"
    BY <1>11, JobPCs DEF CoverPlate
  <2>2. StartOnce'
    BY <1>11, <1>0, <2>1, StartKept DEF CoverPlate, At
  <2>3. OnePlacer' /\ PlacementPairs'
    BY <1>11, <1>0, <2>1, PairsKept DEF CoverPlate, At, Placing, locks
  <2> QED BY <2>2, <2>3
<1>12. ASSUME NEW s \in Slots, StartMatchingPhase(s)
      PROVE  StartOnce' /\ OnePlacer' /\ PlacementPairs'
  <2>1. PICK job : Become(s, job) /\ job.pc # "start"
    BY <1>12, JobPCs DEF StartMatchingPhase, Jump
  <2>2. StartOnce'
    BY <1>12, <1>0, <2>1, StartKept DEF StartMatchingPhase, At
  <2> QED
    BY <1>12, <2>2
    DEF StartMatchingPhase, StartMatching, OnePlacer, PlacementPairs
<1>13. ASSUME NEW s \in Slots, StartTimer(s)
      PROVE  StartOnce' /\ OnePlacer' /\ PlacementPairs'
  <2>1. PICK job : Become(s, job) /\ job.pc # "start"
    BY <1>13, JobPCs DEF StartTimer, Jump
  <2>2. go[s].pc \notin Placing \cup {"idle", "startMatching"}
    BY <1>13 DEF StartTimer, At, Placing
  <2>3. phase # "placement" /\ phase' # "placement"
    BY <1>13, <2>2 DEF StartTimer, PlacementInd, OnePlacer
  <2>4. StartOnce'
    BY <1>0, <2>1, <2>2, StartKept DEF At
  <2> QED BY <2>3, <2>4 DEF OnePlacer, PlacementPairs
<1>14. ASSUME NEW s \in Slots, SetAddTokenPhase(s)
      PROVE  StartOnce' /\ OnePlacer' /\ PlacementPairs'
  <2>1. PICK job : Become(s, job) /\ job.pc # "start"
    BY <1>14, JobPCs DEF SetAddTokenPhase, Jump
  <2>2. go[s].pc \notin Placing \cup {"idle", "startMatching"}
    BY <1>14 DEF SetAddTokenPhase, At, Placing
  <2>3. phase # "placement" /\ phase' # "placement"
    BY <1>14, <2>2
    DEF SetAddTokenPhase, PlacementInd, OnePlacer, EnterAddToken
  <2>4. StartOnce'
    BY <1>0, <2>1, <2>2, StartKept DEF At
  <2> QED BY <2>3, <2>4 DEF OnePlacer, PlacementPairs
<1>15. ASSUME NEW s \in Slots, HandleMatchFail(s)
      PROVE  StartOnce' /\ OnePlacer' /\ PlacementPairs'
  <2>1. PICK job : Become(s, job) /\ job.pc # "start"
    BY <1>15, JobPCs DEF HandleMatchFail, Jump
  <2>2. go[s].pc \notin Placing \cup {"idle", "startMatching"}
    BY <1>15 DEF HandleMatchFail, At, Placing
  <2>3. phase # "placement" /\ phase' # "placement"
    BY <1>15, <2>2 DEF HandleMatchFail, PlacementInd, OnePlacer, gameVars
  <2>4. StartOnce'
    BY <1>0, <2>1, <2>2, StartKept DEF At
  <2> QED BY <2>3, <2>4 DEF OnePlacer, PlacementPairs
<1>16. ASSUME NEW s \in Slots, AdvanceMatching(s)
      PROVE  StartOnce' /\ OnePlacer' /\ PlacementPairs'
  <2>1. PICK job : Become(s, job) /\ job.pc # "start"
    <3>1. CASE Jump(s, "startTimer")
      BY <3>1, JobPCs DEF Jump
    <3>2. CASE Become(s, Closer(Nobody, "no_matches"))
      BY <3>2, JobPCs
    <3> QED BY <1>16, <3>1, <3>2 DEF AdvanceMatching
  <2>2. go[s].pc \notin Placing \cup {"idle", "startMatching"}
    BY <1>16 DEF AdvanceMatching, At, Placing
  <2>3. phase # "placement" /\ phase' # "placement"
    BY <1>16, <2>2
    DEF AdvanceMatching, PlacementInd, OnePlacer, NextMatchingTurn, gameVars
  <2>4. StartOnce'
    BY <1>0, <2>1, <2>2, StartKept DEF At
  <2> QED BY <2>3, <2>4 DEF OnePlacer, PlacementPairs
<1>17. ASSUME NEW s \in Slots, TimerTick(s)
      PROVE  StartOnce' /\ OnePlacer' /\ PlacementPairs'
  <2>1. PICK job : Become(s, job) /\ job.pc # "start"
    BY <1>17, JobPCs DEF TimerTick, Jump
  <2>2. go[s].pc \notin Placing \cup {"idle", "startMatching"}
    BY <1>17 DEF TimerTick, At, Placing
  <2>3. phase # "placement" /\ phase' # "placement"
    BY <1>17, <2>2 DEF TimerTick, PlacementInd, OnePlacer
  <2>4. StartOnce'
    BY <1>0, <2>1, <2>2, StartKept DEF At
  <2> QED BY <2>3, <2>4 DEF OnePlacer, PlacementPairs
<1>18. ASSUME NEW s \in Slots, TimerDone(s)
      PROVE  StartOnce' /\ OnePlacer' /\ PlacementPairs'
  <2>1. PICK job : Become(s, job) /\ job.pc # "start"
    BY <1>18, JobPCs DEF TimerDone, Jump
  <2>2. go[s].pc \notin Placing \cup {"idle", "startMatching"}
    BY <1>18 DEF TimerDone, At, Placing
  <2>3. phase # "placement" /\ phase' # "placement"
    BY <1>18, <2>2 DEF TimerDone, PlacementInd, OnePlacer, gameVars
  <2>4. StartOnce'
    BY <1>0, <2>1, <2>2, StartKept DEF At
  <2> QED BY <2>3, <2>4 DEF OnePlacer, PlacementPairs
<1>19. ASSUME NEW s \in Slots, TimerExpired(s)
      PROVE  StartOnce' /\ OnePlacer' /\ PlacementPairs'
  <2>1. PICK job : Become(s, job) /\ job.pc # "start"
    BY <1>19, JobPCs DEF TimerExpired, Jump
  <2>2. go[s].pc \notin Placing \cup {"idle", "startMatching"}
    BY <1>19 DEF TimerExpired, At, Placing
  <2>3. phase # "placement" /\ phase' # "placement"
    BY <1>19, <2>2 DEF TimerExpired, PlacementInd, OnePlacer, gameVars
  <2>4. StartOnce'
    BY <1>0, <2>1, <2>2, StartKept DEF At
  <2> QED BY <2>3, <2>4 DEF OnePlacer, PlacementPairs
<1>20. ASSUME NEW s \in Slots, TimeoutCheck(s)
      PROVE  StartOnce' /\ OnePlacer' /\ PlacementPairs'
  <2>1. PICK job : Become(s, job) /\ job.pc # "start"
    BY <1>20, JobPCs DEF TimeoutCheck, Jump
  <2>2. go[s].pc \notin Placing \cup {"idle", "startMatching"}
    BY <1>20 DEF TimeoutCheck, At, Placing
  <2>3. phase # "placement" /\ phase' # "placement"
    BY <1>20, <2>2 DEF TimeoutCheck, PlacementInd, OnePlacer, gameVars
  <2>4. StartOnce'
    BY <1>0, <2>1, <2>2, StartKept DEF At
  <2> QED BY <2>3, <2>4 DEF OnePlacer, PlacementPairs
<1>21. ASSUME NEW s \in Slots, GetCurrentTurn(s)
      PROVE  StartOnce' /\ OnePlacer' /\ PlacementPairs'
  <2>1. PICK job : Become(s, job) /\ job.pc # "start"
    BY <1>21, JobPCs DEF GetCurrentTurn, Jump
  <2>2. go[s].pc \notin Placing \cup {"idle", "startMatching"}
    BY <1>21 DEF GetCurrentTurn, At, Placing
  <2>3. phase # "placement" /\ phase' # "placement"
    BY <1>21, <2>2 DEF GetCurrentTurn, PlacementInd, OnePlacer, gameVars
  <2>4. StartOnce'
    BY <1>0, <2>1, <2>2, StartKept DEF At
  <2> QED BY <2>3, <2>4 DEF OnePlacer, PlacementPairs
<1>22. ASSUME NEW s \in Slots, HandleTimeout(s)
      PROVE  StartOnce' /\ OnePlacer' /\ PlacementPairs'
  <2>1. PICK job : Become(s, job) /\ job.pc # "start"
    BY <1>22, JobPCs DEF HandleTimeout, Jump
  <2>2. go[s].pc \notin Placing \cup {"idle", "startMatching"}
    BY <1>22 DEF HandleTimeout, At, Placing
  <2>3. phase # "placement" /\ phase' # "placement"
    BY <1>22, <2>2 DEF HandleTimeout, PlacementInd, OnePlacer, gameVars
  <2>4. StartOnce'
    BY <1>0, <2>1, <2>2, StartKept DEF At
  <2> QED BY <2>3, <2>4 DEF OnePlacer, PlacementPairs
<1>23. ASSUME NEW g \in Goroutines, StopTimer(g)
      PROVE  StartOnce' /\ OnePlacer' /\ PlacementPairs'
  <2>1. PICK job : Become(g, job) /\ job.pc # "start"
    BY <1>23, JobPCs DEF StopTimer, Jump
  <2>2. StartOnce'
    BY <1>23, <1>0, <2>1, StartKept DEF StopTimer, gameVars, At, locks
  <2>3. phase = "placement" => g \notin Slots
    BY <1>23 DEF StopTimer, At, PlacementInd, OnePlacer, Placing
  <2>4. phase' = "placement" => phase = "placement"
    BY <1>23 DEF StopTimer, gameVars
  <2>5. OnePlacer' /\ PlacementPairs'
    BY <1>23, <2>1, <2>3, <2>4, PairsKept DEF StopTimer, gameVars, locks
  <2> QED BY <2>2, <2>5
<1>24. ASSUME NEW g \in Goroutines, SetFinished(g)
      PROVE  StartOnce' /\ OnePlacer' /\ PlacementPairs'
  <2>1. PICK job : Become(g, job) /\ job.pc # "start"
    BY <1>24, JobPCs DEF SetFinished, Jump
  <2>2. StartOnce'
    BY <1>24, <1>0, <2>1, StartKept DEF SetFinished, MarkFinished, At, locks
  <2>3. phase = "placement" => g \notin Slots
    BY <1>24 DEF SetFinished, At, PlacementInd, OnePlacer, Placing
  <2>4. phase' = "placement" => phase = "placement"
    BY <1>24 DEF SetFinished, MarkFinished
  <2>5. OnePlacer' /\ PlacementPairs'
    BY <1>24, <2>1, <2>3, <2>4, PairsKept DEF SetFinished, MarkFinished, locks
  <2> QED BY <2>2, <2>5
<1>25. ASSUME NEW g \in Goroutines, GetWinner(g)
      PROVE  StartOnce' /\ OnePlacer' /\ PlacementPairs'
  <2>1. PICK job : Become(g, job) /\ job.pc # "start"
    BY <1>25, JobPCs DEF GetWinner, Jump
  <2>2. StartOnce'
    BY <1>25, <1>0, <2>1, StartKept DEF GetWinner, gameVars, At, locks
  <2>3. phase = "placement" => g \notin Slots
    BY <1>25 DEF GetWinner, At, PlacementInd, OnePlacer, Placing
  <2>4. phase' = "placement" => phase = "placement"
    BY <1>25 DEF GetWinner, gameVars
  <2>5. OnePlacer' /\ PlacementPairs'
    BY <1>25, <2>1, <2>3, <2>4, PairsKept DEF GetWinner, gameVars, locks
  <2> QED BY <2>2, <2>5
<1>26. ASSUME NEW g \in Goroutines, ReportGameEnd(g)
      PROVE  StartOnce' /\ OnePlacer' /\ PlacementPairs'
  <2>1. PICK job : Become(g, job) /\ job.pc # "start"
    BY <1>26, JobPCs DEF ReportGameEnd, Jump
  <2>2. StartOnce'
    BY <1>26, <1>0, <2>1, StartKept DEF ReportGameEnd, gameVars, At, locks
  <2>3. phase = "placement" => g \notin Slots
    BY <1>26 DEF ReportGameEnd, At, PlacementInd, OnePlacer, Placing
  <2>4. phase' = "placement" => phase = "placement"
    BY <1>26 DEF ReportGameEnd, gameVars
  <2>5. OnePlacer' /\ PlacementPairs'
    BY <1>26, <2>1, <2>3, <2>4, PairsKept DEF ReportGameEnd, gameVars, locks
  <2> QED BY <2>2, <2>5
<1>27. ASSUME NEW g \in Goroutines, RemoveRoom(g)
      PROVE  StartOnce' /\ OnePlacer' /\ PlacementPairs'
  <2>1. PICK job : Become(g, job) /\ job.pc # "start"
    BY <1>27, JobPCs DEF RemoveRoom, Jump
  <2>2. StartOnce'
    BY <1>27, <1>0, <2>1, StartKept DEF RemoveRoom, gameVars, At, locks
  <2>3. phase = "placement" => g \notin Slots
    BY <1>27 DEF RemoveRoom, At, PlacementInd, OnePlacer, Placing
  <2>4. phase' = "placement" => phase = "placement"
    BY <1>27 DEF RemoveRoom, gameVars
  <2>5. OnePlacer' /\ PlacementPairs'
    BY <1>27, <2>1, <2>3, <2>4, PairsKept DEF RemoveRoom, gameVars, locks
  <2> QED BY <2>2, <2>5
<1>28. ASSUME Second
      PROVE  StartOnce' /\ OnePlacer' /\ PlacementPairs'
  <2>1. \A g \in Goroutines : go'[g].pc = go[g].pc
    BY <1>28 DEF Second, Job
  <2>2. /\ \A s \in Slots : go'[s].pc = go[s].pc
        /\ go'[0].pc = go[0].pc /\ go'[1].pc = go[1].pc
    BY <2>1 DEF Goroutines, Players
  <2>3. StartOnce'
    BY <1>0, <1>28, <2>2 DEF Second, StartOnce, At, gameVars, locks
  <2>4. OnePlacer'
    BY <1>28, <2>2
    DEF Second, PlacementInd, OnePlacer, Pending, gameVars, locks
  <2>5. PlacementPairs'
    BY <1>28
    DEF Second, PlacementInd, PlacementPairs, WithTokens, gameVars, locks
  <2> QED BY <2>3, <2>4, <2>5
<1>29. CASE UNCHANGED vars
  BY <1>29 DEF vars, gameVars, locks, PlacementInd, StartOnce, At,
       OnePlacer, Pending, PlacementPairs, WithTokens
<1> QED
  BY <1>1, <1>2, <1>3, <1>4, <1>5, <1>6, <1>7, <1>8, <1>9, <1>10, <1>11,
     <1>12, <1>13, <1>14, <1>15, <1>16, <1>17, <1>18, <1>19, <1>20, <1>21,
     <1>22, <1>23, <1>24, <1>25, <1>26, <1>27, <1>28, <1>29
  DEF Next, Work, Arrive, Handler, Message, Callback, CallbackBody,
      TurnTimer, TimeoutBody, EndGame

\* Whatever the schedule, the placement phase deals two plates to every round
\* completed, and one to each turn taken in the round under way.
THEOREM PairsPlaced == Spec => []PlacementPairs
<1>1. PlacementInd => PlacementPairs
  BY DEF PlacementInd
<1> QED
  BY PlacementInit, PlacementStep, <1>1, PTL DEF Spec

-----------------------------------------------------------------------------
(* Handlers and callbacks that run one at a time.                          *)

OthersStay(g) == \A h \in Goroutines \ {g} : go'[h] = go[h]

-----------------------------------------------------------------------------
(* Whoever is busy is alone.                                               *)

\* Who runs on was busy, and moves nobody else.
LEMMA RunsOn ==
  ASSUME TypeOK
  PROVE  /\ \A i \in Players :
              StartGame(i) \/ RefuseConfirm(i) => Busy(i) /\ OthersStay(i)
         /\ \A s \in Slots :
              /\ CallbackBody(s) \/ TimeoutBody(s) => Busy(s) /\ OthersStay(s)
              /\ TimerDone(s) => ~Busy(s)' /\ OthersStay(s)
         /\ \A g \in Goroutines : EndGame(g) => Busy(g) /\ OthersStay(g)
<1> USE DEF TypeOK, Busy, OthersStay, Become, Jump, At, Wakes
<1>1. ASSUME NEW i \in Players, StartGame(i) \/ RefuseConfirm(i)
      PROVE  Busy(i) /\ OthersStay(i)
  BY <1>1 DEF StartGame, RefuseConfirm
<1>2. ASSUME NEW s \in Slots, CallbackBody(s) PROVE Busy(s) /\ OthersStay(s)
  BY <1>2 DEF CallbackBody, CoverPlate, AdvancePlacement, StartMatchingPhase,
       StartTimer, SetAddTokenPhase, HandleMatchFail, AdvanceMatching
<1>3. ASSUME NEW s \in Slots, TimeoutBody(s) PROVE Busy(s) /\ OthersStay(s)
  BY <1>3 DEF TimeoutBody, TimerExpired, TimeoutCheck, GetCurrentTurn,
       HandleTimeout
<1>4. ASSUME NEW s \in Slots, TimerDone(s) PROVE ~Busy(s)' /\ OthersStay(s)
  <2>1. OthersStay(s) /\ go'[s] = Idle
    BY <1>4 DEF TimerDone, Goroutines
  <2>2. Idle.pc = "idle"
    BY JobPCs
  <2> QED BY <2>1, <2>2
<1>5. ASSUME NEW g \in Goroutines, EndGame(g) PROVE Busy(g) /\ OthersStay(g)
  BY <1>5 DEF EndGame, StopTimer, SetFinished, GetWinner, ReportGameEnd,
       RemoveRoom
<1> QED BY <1>1, <1>2, <1>3, <1>4, <1>5

\* A handler that leaves a sleeping callback is not busy any more.
LEMMA SpawnsSleep ==
  ASSUME TypeOK, NEW i \in Players, NEW s \in Slots,
         \/ HandleConfirmMatch(i, s)
         \/ \E p \in Plates : HandlePlaceToken(i, p, s) \/ HandleAddToken(i, p, s)
  PROVE  /\ ~Busy(i)' /\ ~Busy(s)'
         /\ \A h \in Goroutines \ {i, s} : go'[h] = go[h]
<1> DEFINE Sleeps == \E job : Spawn(i, s, job) /\ job.pc \in Wakes
<1>a. ASSUME HandleConfirmMatch(i, s) PROVE Sleeps
  <2>1. /\ Sleeper("wakeHit", 2, Nobody).pc \in Wakes
        /\ Sleeper("wakeMiss", 2, i).pc \in Wakes
    BY JobPCs DEF Wakes
  <2> QED BY <1>a, <2>1 DEF HandleConfirmMatch
<1>b. ASSUME NEW p \in Plates, HandlePlaceToken(i, p, s) PROVE Sleeps
  <2>1. PICK w \in 1..2 : Spawn(i, s, Job("wakePlace", w, Nobody, p, "none"))
    BY <1>b DEF HandlePlaceToken
  <2>2. Job("wakePlace", w, Nobody, p, "none").pc \in Wakes
    BY DEF Job, Wakes
  <2> QED BY <2>1, <2>2
<1>c. ASSUME NEW p \in Plates, HandleAddToken(i, p, s) PROVE Sleeps
  <2>1. PICK w \in 1..2 : Spawn(i, s, AfterAdd(i, w))
    BY <1>c DEF HandleAddToken
  <2>2. AfterAdd(i, w).pc \in Wakes
    BY DEF AfterAdd, Sleeper, Job, Wakes
  <2> QED BY <2>1, <2>2
<1>1. PICK job : Spawn(i, s, job) /\ job.pc \in Wakes
  BY <1>a, <1>b, <1>c
<1>2. /\ go'[i] = Idle /\ go'[s] = job
      /\ \A h \in Goroutines \ {i, s} : go'[h] = go[h]
  BY <1>1, SpawnEffect DEF TypeOK
<1>3. Idle.pc = "idle"
  BY JobPCs
<1> QED BY <1>1, <1>2, <1>3 DEF Busy

\* No step leaves two goroutines busy.
LEMMA BusyStep == TypeOK /\ OneBusy /\ [AtomicNext]_vars => OneBusy'
<1> SUFFICES ASSUME TypeOK, OneBusy, [AtomicNext]_vars PROVE OneBusy'
  OBVIOUS
<1>1. ASSUME NEW g \in Goroutines, OthersStay(g), Busy(g) \/ ~Busy(g)'
      PROVE  OneBusy'
  BY <1>1 DEF OneBusy, OthersStay, Busy
<1>2. ASSUME \A g \in Goroutines : ~Busy(g), NEW i \in Players, Message(i)
      PROVE  OneBusy'
  <2>1. CASE \E p \in Plates, s \in Slots :
               HandlePlaceToken(i, p, s) \/ HandleAddToken(i, p, s)
    BY <1>2, <2>1, SpawnsSleep DEF OneBusy, Busy
  <2>2. CASE \/ \E p \in Plates : HandleSelectPlate(i, p)
             \/ ConfirmStopTimer(i) \/ HandleLeaveRoom(i)
    <3>1. OthersStay(i)
      BY <2>2 DEF HandleSelectPlate, ConfirmStopTimer, HandleLeaveRoom,
           OthersStay, Become, Jump, TypeOK
    <3> QED BY <1>2, <3>1 DEF OneBusy, OthersStay, Busy
  <2> QED BY <1>2, <2>1, <2>2 DEF Message
<1>3. ASSUME Second PROVE OneBusy'
  BY <1>3 DEF Second, OneBusy, Busy, Job
<1>4. ASSUME NEW i \in Players, NEW s \in Slots, HandleConfirmMatch(i, s)
      PROVE  OneBusy'
  BY <1>4, SpawnsSleep DEF OneBusy, Busy
<1>5. CASE UNCHANGED vars
  BY <1>5 DEF vars, OneBusy, Busy
<1>6. CASE TakeUp
  BY <1>2, <1>3, <1>6 DEF TakeUp, Arrive
<1>7. CASE RunOn
  <2>1. CASE \E i \in Players : Handler(i)
    BY <1>1, <1>4, <2>1, RunsOn DEF Handler, Goroutines
  <2>2. CASE \E s \in Slots : CallbackBody(s) \/ TimerDone(s) \/ TimeoutBody(s)
    BY <1>1, <2>2, RunsOn DEF Goroutines
  <2>3. CASE \E g \in Goroutines : EndGame(g)
    BY <1>1, <2>3, RunsOn
  <2> QED BY <1>7, <2>1, <2>2, <2>3 DEF RunOn
<1> QED BY <1>5, <1>6, <1>7 DEF AtomicNext

-----------------------------------------------------------------------------
(* A finished game stays finished.                                         *)

\* Between two locks, on the way to a step that would set the phase.
Midway == {"start", "cover", "place", "startMatching", "hit", "advance"}

FinishedAtRest ==
  /\ phase = "finished" => \A g \in Goroutines : go[g].pc \notin Midway
  /\ ~listed => phase = "finished"
  /\ \A g \in Goroutines : go[g].pc \in Finishing => phase = "finished"
  /\ phase = "waiting" => At(1, "start")

\* A step of one goroutine that does not touch the end of the game.
LEMMA RestKept ==
  ASSUME TypeOK, FinishedAtRest, NEW g \in Goroutines, NEW job,
         Become(g, job), ~At(g, "start"), job.pc \notin Finishing,
         listed' = listed, phase' = phase,
         job.pc \in Midway => phase # "finished"
  PROVE  FinishedAtRest'
<1>1. /\ go'[g] = job
      /\ \A h \in Goroutines \ {g} : go'[h] = go[h]
  BY BecomeEffect DEF TypeOK
<1>2. 1 \in Goroutines
  BY DEF Goroutines, Players
<1> QED BY <1>1, <1>2 DEF FinishedAtRest, At

\* A handler that leaves a callback does not touch it either.
LEMMA RestSpawn ==
  ASSUME TypeOK, FinishedAtRest, NEW i \in Players, NEW s \in Slots,
         \/ HandleConfirmMatch(i, s)
         \/ \E p \in Plates : HandlePlaceToken(i, p, s) \/ HandleAddToken(i, p, s)
  PROVE  FinishedAtRest'
<1>1. /\ ~Busy(i)' /\ ~Busy(s)'
      /\ \A h \in Goroutines \ {i, s} : go'[h] = go[h]
  BY SpawnsSleep
<1>2. phase' = phase /\ listed' = listed /\ phase # "waiting"
  BY DEF HandleConfirmMatch, CanConfirm, ConfirmMatch,
       HandlePlaceToken, PlaceToken, HandleAddToken, AddToken
<1> QED
  BY <1>1, <1>2 DEF FinishedAtRest, Busy, Midway, Finishing, Wakes

\* Every step of the room with atomic handlers leaves a finished game at rest.
LEMMA RestStep ==
  TypeOK /\ OneBusy /\ FinishedAtRest /\ [AtomicNext]_vars => FinishedAtRest'
<1> SUFFICES ASSUME TypeOK, OneBusy, FinishedAtRest, [AtomicNext]_vars
             PROVE  FinishedAtRest'
  OBVIOUS
<1>1. ASSUME NEW i \in Players, StartGame(i) PROVE FinishedAtRest'
  <2>1. phase # "finished" /\ phase' = "placement" /\ listed' = listed
    BY <1>1 DEF StartGame, FinishedAtRest, At, Midway, Goroutines
  <2>2. OthersStay(i) /\ go'[i] = Idle
    BY <1>1, BecomeEffect DEF StartGame, OthersStay, TypeOK, Goroutines
  <2>3. Idle.pc = "idle"
    BY JobPCs
  <2> QED BY <2>1, <2>2, <2>3 DEF FinishedAtRest, OthersStay, Finishing
<1>2. ASSUME NEW i \in Players,
             \/ RefuseConfirm(i) \/ ConfirmStopTimer(i) \/ HandleLeaveRoom(i)
             \/ \E p \in Plates : HandleSelectPlate(i, p)
      PROVE  FinishedAtRest'
  <2>1. PICK job : Become(i, job) /\ job.pc \in {"idle", "confirm", "stop"}
    BY <1>2, JobPCs DEF RefuseConfirm, ConfirmStopTimer, HandleLeaveRoom,
         HandleSelectPlate, Jump
  <2>2. ~At(i, "start") /\ phase' = phase /\ listed' = listed
    BY <1>2 DEF RefuseConfirm, ConfirmStopTimer, HandleLeaveRoom,
         HandleSelectPlate, SelectPlate, Receives, At, gameVars
  <2> QED BY <2>1, <2>2, RestKept DEF Goroutines, Midway, Finishing
<1>3. ASSUME NEW i \in Players, NEW s \in Slots,
             \/ HandleConfirmMatch(i, s)
             \/ \E p \in Plates : HandlePlaceToken(i, p, s) \/ HandleAddToken(i, p, s)
      PROVE  FinishedAtRest'
  BY <1>3, RestSpawn
<1>4. ASSUME NEW s \in Slots, Wake(s) PROVE FinishedAtRest'
  <2>1. PICK job : /\ Become(s, job)
                   /\ \/ job.pc = "idle"
                      \/ isRoomActive /\ job.pc \notin Finishing
    BY <1>4, JobPCs DEF Wake, Jump, Resume, Wakes, Finishing
  <2>2. ~At(s, "start") /\ phase' = phase /\ listed' = listed
    BY <1>4 DEF Wake, At, gameVars, Wakes
  <2> QED
    BY <2>1, <2>2, RestKept DEF Goroutines, Midway, Finishing, isRoomActive
<1>5. ASSUME NEW s \in Slots, CoverPlate(s) \/ AdvancePlacement(s)
      PROVE  FinishedAtRest'
  <2>1. PICK job : Become(s, job) /\ job.pc \in {"idle", "place", "startMatching"}
    BY <1>5, JobPCs DEF CoverPlate, AdvancePlacement, Jump
  <2>2. /\ ~At(s, "start") /\ phase' = phase /\ listed' = listed
        /\ phase # "finished"
    BY <1>5 DEF CoverPlate, AdvancePlacement, NextPlacementTurn, At,
         FinishedAtRest, Midway, Goroutines
  <2> QED BY <2>1, <2>2, RestKept DEF Goroutines, Midway, Finishing
<1>6. ASSUME NEW s \in Slots,
             StartMatchingPhase(s) \/ SetAddTokenPhase(s) \/ AdvanceMatching(s)
      PROVE  FinishedAtRest'
  <2>1. PICK job : Become(s, job) /\ job.pc \in {"idle", "startTimer", "stop"}
    <3>1. CASE StartMatchingPhase(s) \/ SetAddTokenPhase(s)
      BY <3>1, JobPCs DEF StartMatchingPhase, SetAddTokenPhase, Jump
    <3>2. CASE AdvanceMatching(s)
      BY <3>2, JobPCs DEF AdvanceMatching, Jump
    <3> QED BY <1>6, <3>1, <3>2
  <2>2. /\ ~At(s, "start") /\ listed' = listed /\ phase # "finished"
        /\ phase' \in {phase, "matching", "add_token"}
    BY <1>6 DEF StartMatchingPhase, StartMatching, SetAddTokenPhase,
         EnterAddToken, AdvanceMatching, NextMatchingTurn, At, gameVars,
         FinishedAtRest, Midway, Goroutines
  <2>3. /\ go'[s] = job
        /\ \A h \in Goroutines \ {s} : go'[h] = go[h]
    BY <2>1, BecomeEffect DEF TypeOK, Goroutines
  <2>4. 1 \in Goroutines /\ s # 1
    BY SlotsAssumption DEF Goroutines, Players
  <2> QED BY <2>1, <2>2, <2>3, <2>4 DEF FinishedAtRest, Finishing, At
<1>7. ASSUME NEW s \in Slots,
             \/ StartTimer(s) \/ HandleMatchFail(s)
             \/ TimerTick(s) \/ TimerDone(s) \/ TimeoutBody(s)
      PROVE  FinishedAtRest'
  <2>1. PICK job :
          /\ Become(s, job)
          /\ job.pc \in {"idle", "ticker", "wakeAdvance", "expired",
                         "timeout", "turn", "penalty"}
    <3>1. CASE StartTimer(s) \/ HandleMatchFail(s)
      BY <3>1, JobPCs DEF StartTimer, HandleMatchFail
    <3>2. CASE TimerTick(s) \/ TimerDone(s)
      BY <3>2, JobPCs DEF TimerTick, TimerDone
    <3>3. CASE TimeoutBody(s)
      BY <3>3, JobPCs DEF TimeoutBody, TimerExpired, TimeoutCheck,
           GetCurrentTurn, HandleTimeout, Jump
    <3> QED BY <1>7, <3>1, <3>2, <3>3
  <2>2. ~At(s, "start") /\ phase' = phase /\ listed' = listed
    BY <1>7 DEF StartTimer, HandleMatchFail, TimerTick, TimerDone, TimeoutBody,
         TimerExpired, TimeoutCheck, GetCurrentTurn, HandleTimeout, At, gameVars
  <2> QED BY <2>1, <2>2, RestKept DEF Goroutines, Midway, Finishing
<1>8. ASSUME NEW g \in Goroutines, StopTimer(g) PROVE FinishedAtRest'
  <2>1. PICK job : Become(g, job) /\ job.pc = "finish"
    BY <1>8, JobPCs DEF StopTimer, Jump
  <2> QED
    BY <1>8, <2>1, RestKept DEF StopTimer, At, gameVars, Midway, Finishing
<1>9. ASSUME NEW g \in Goroutines, SetFinished(g) PROVE FinishedAtRest'
  <2>1. PICK job : Become(g, job) /\ job.pc \in {"winner", "report"}
    BY <1>9, JobPCs DEF SetFinished, Jump
  <2>2. /\ go'[g] = job
        /\ \A h \in Goroutines \ {g} : go'[h] = go[h]
    BY <2>1, BecomeEffect DEF TypeOK
  <2>3. \A h \in Goroutines \ {g} : go[h].pc \notin Midway
    BY <1>9 DEF SetFinished, OneBusy, Busy, At, Midway, Wakes
  <2> QED BY <1>9, <2>1, <2>2, <2>3
       DEF SetFinished, MarkFinished, FinishedAtRest, Midway
<1>10. ASSUME NEW g \in Goroutines,
              GetWinner(g) \/ ReportGameEnd(g) \/ RemoveRoom(g)
       PROVE  FinishedAtRest'
  <2>1. PICK job : Become(g, job) /\ job.pc \in {"idle", "report", "remove"}
    BY <1>10, JobPCs DEF GetWinner, ReportGameEnd, RemoveRoom, Jump
  <2>2. /\ go'[g] = job
        /\ \A h \in Goroutines \ {g} : go'[h] = go[h]
    BY <2>1, BecomeEffect DEF TypeOK
  <2>3. phase = "finished" /\ phase' = "finished"
    BY <1>10 DEF GetWinner, ReportGameEnd, RemoveRoom, gameVars, At,
         FinishedAtRest, Finishing
  <2> QED BY <2>1, <2>2, <2>3 DEF FinishedAtRest, Midway
<1>11. ASSUME Second PROVE FinishedAtRest'
  <2>1. \A g \in Goroutines : go'[g].pc = go[g].pc
    BY <1>11 DEF Second, Job
  <2>2. 1 \in Goroutines
    BY DEF Goroutines, Players
  <2> QED BY <1>11, <2>1, <2>2 DEF Second, FinishedAtRest, At, gameVars
<1>12. CASE UNCHANGED vars
  BY <1>12 DEF vars, gameVars, FinishedAtRest, At
<1> QED
  BY <1>1, <1>2, <1>3, <1>4, <1>5, <1>6, <1>7, <1>8, <1>9, <1>10, <1>11, <1>12
  DEF AtomicNext, TakeUp, RunOn, Arrive, Handler, Message, CallbackBody, EndGame
-----------------------------------------------------------------------------
(* Nobody peeks.                                                           *)

Early == phase \in {"waiting", "placement"}

\* Callbacks of a placement belong to the placement phase.
PlacersAreEarly ==
  \A s \in Slots : go[s].pc \in Placing \cup {"startMatching"} =>
    phase \in {"placement", "finished"}

\* A plate carries tokens for every turn taken, and the phase ends with the
\* last round.
PlacementGoesOn ==
  Early =>
    /\ Cardinality(hasTokens) = 2 * (placementRound - 1) + currentTurn
                                + (IF placementPending THEN 1 ELSE 0)
    /\ \A p \in Plates \ hasTokens : tokens[p] = 0
    /\ \A s \in Slots : At(s, "startMatching") =>
         placementRound = MaxRound + 1 /\ currentTurn = 0 /\ ~placementPending
    /\ (\A s \in Slots : ~At(s, "startMatching")) => placementRound <= MaxRound

PairToMatch == phase = "matching" => HasMatchingPairs

\* What is open has a callback that will cover it in the placement phase, and a
\* lock and the player's selection in the matching phase.
Covers ==
  /\ Early => \A p \in Plates \ covered :
       \E s \in Slots : go[s].pc \in {"wakePlace", "cover"} /\ go[s].plate = p
  /\ phase \in {"matching", "add_token"} => Plates \ covered \subseteq selected
  /\ phase = "add_token" => matched = selected
  /\ Early =>
       /\ ~placementPending => covered = Plates
       /\ \A s \in Slots :
            /\ go[s].pc \in {"wakePlace", "cover"} =>
                 covered \cup {go[s].plate} = Plates
            /\ At(s, "place") => covered = Plates
  /\ phase = "matching" /\ ~confirmPending => covered = Plates
  /\ Cardinality(Plates \ covered) <= 2

AtomicInd ==
  /\ PlacementInd /\ OneBusy /\ FinishedAtRest
  /\ PlacersAreEarly /\ PlacementGoesOn /\ PairToMatch /\ Covers

\* Two elements of a set of two.
LEMMA TwoElements ==
  ASSUME NEW S, IsFiniteSet(S), Cardinality(S) = 2
  PROVE  \E p, q \in S : p # q
<1>1. PICK p \in S : TRUE
  BY FS_EmptySet
<1>2. Cardinality(S \ {p}) = 1
  BY <1>1, FS_RemoveElement
<1>3. S \ {p} # {}
  BY <1>2, FS_EmptySet
<1> QED BY <1>1, <1>3

\* The rounds leave two plates over.
LEMMA RoundsFact ==
  /\ IsFiniteSet(Plates) /\ Cardinality(Plates) \in Nat
  /\ MaxRound \in Nat \ {0}
  /\ 2 * MaxRound = Cardinality(Plates) - 2
<1>1. Cardinality(Plates) \in Nat
  BY PlatesAssumption, FS_CardinalityType
<1>2. \A n \in Nat : n >= 4 /\ n % 2 = 0 =>
        (n \div 2 - 1) \in Nat \ {0} /\ 2 * (n \div 2 - 1) = n - 2
  OBVIOUS
<1> QED BY <1>1, <1>2, PlatesAssumption DEF MaxRound

\* Opening fewer plates leaves at most two open.
LEMMA FewOpen ==
  ASSUME covered \in SUBSET Plates, Cardinality(Plates \ covered) <= 2,
         covered \subseteq covered', covered' \in SUBSET Plates
  PROVE  Cardinality(Plates \ covered') <= 2
<1>1. IsFiniteSet(Plates \ covered)
  BY PlatesAssumption, FS_Difference
<1>2. /\ Cardinality(Plates \ covered') <= Cardinality(Plates \ covered)
      /\ IsFiniteSet(Plates \ covered')
  BY <1>1, FS_Subset
<1> QED BY <1>1, <1>2, FS_CardinalityType

\* Early on the slots hold nothing but callbacks of a placement.
LEMMA EarlySlots ==
  ASSUME AtomicInd, Early, NEW s \in Slots
  PROVE  go[s].pc \in Placing \cup {"idle", "startMatching"}
  BY DEF AtomicInd, PlacementInd, StartOnce, OnePlacer, FinishedAtRest, Early,
       At

\* A step that changes neither plates, turns nor locks, nor a callback of a
\* placement.
LEMMA CoversKept ==
  ASSUME AtomicInd, phase' \in {phase, "finished"},
         UNCHANGED <<currentTurn, placementRound, tokens, hasTokens, covered,
                     placementPending, confirmPending, matched>>,
         selected' = selected \/ (phase = "matching" /\ covered = Plates),
         \A s \in Slots :
           \/ go'[s].pc = go[s].pc /\ go'[s].plate = go[s].plate
           \/ /\ At(s, "wakePlace") /\ go'[s].pc = "cover"
              /\ go'[s].plate = go[s].plate
           \/ ~Early' /\ go'[s].pc \notin Placing \cup {"startMatching"}
  PROVE  PlacersAreEarly' /\ PlacementGoesOn' /\ PairToMatch' /\ Covers'
<1>1. PlacersAreEarly'
  BY DEF AtomicInd, PlacersAreEarly, At, Placing
<1>2. Early' => Early /\ phase' = phase
  BY DEF Early
<1>3. PlacementGoesOn'
  BY <1>2 DEF AtomicInd, PlacementGoesOn, At, MaxRound
<1>4. PairToMatch'
  BY DEF AtomicInd, PairToMatch, HasMatchingPairs
<1>5. Covers'
  <2>1. ASSUME NEW p \in Plates \ covered', Early'
        PROVE  \E s \in Slots : go'[s].pc \in {"wakePlace", "cover"} /\ go'[s].plate = p
    BY <1>2, <2>1 DEF AtomicInd, Covers, At
  <2>2. phase' \in {"matching", "add_token"} => Plates \ covered' \subseteq selected'
    BY DEF AtomicInd, Covers
  <2>3. phase' = "add_token" => matched' = selected'
    BY DEF AtomicInd, Covers
  <2> QED BY <1>2, <2>1, <2>2, <2>3 DEF AtomicInd, Covers, At
<1> QED BY <1>1, <1>3, <1>4, <1>5

\* Nothing has been placed when the game starts.
LEMMA CoversInit == Init => AtomicInd
<1> SUFFICES ASSUME Init PROVE AtomicInd
  OBVIOUS
<1>1. PlacementInd
  BY PlacementInit
<1>2. /\ \A g \in Goroutines : go[g] = IF g = 1 THEN Does("start") ELSE Idle
      /\ Does("start").pc = "start" /\ Idle.pc = "idle"
      /\ 1 \in Goroutines /\ 1 \notin Slots /\ Slots \subseteq Goroutines
  BY JobPCs, SlotsAssumption DEF Init, Goroutines, Players
<1>3. OneBusy
  BY <1>2 DEF OneBusy, Busy
<1>4. FinishedAtRest /\ PlacersAreEarly
  BY <1>2 DEF FinishedAtRest, PlacersAreEarly, Init, NewGameState, At,
       Finishing, Placing
<1>5. PlacementGoesOn
  BY <1>2, RoundsFact, FS_EmptySet
  DEF PlacementGoesOn, Init, NewGameState, At
<1>6. PairToMatch
  BY DEF PairToMatch, Init, NewGameState
<1>7. Covers
  <2>1. Plates \ covered = {}
    BY DEF Init, NewGameState
  <2>2. Cardinality(Plates \ covered) = 0
    BY <2>1, FS_EmptySet
  <2>3. \A s \in Slots : go[s].pc = "idle"
    BY <1>2
  <2>4. Early => /\ covered = Plates
                 /\ \A s \in Slots : go[s].pc \notin {"wakePlace", "cover", "place"}
    BY <2>3 DEF Init, NewGameState
  <2>5. phase \notin {"matching", "add_token"} /\ Cardinality(Plates \ covered) <= 2
    BY <2>2 DEF Init, NewGameState
  <2> QED BY <2>1, <2>4, <2>5 DEF Covers, At
<1> QED BY <1>1, <1>3, <1>4, <1>5, <1>6, <1>7 DEF AtomicInd

\* A plate is opened by the turn that places on it.
LEMMA PlaceCovers ==
  ASSUME AtomicInd, NEW i \in Players, NEW p \in Plates, NEW s \in Slots,
         HandlePlaceToken(i, p, s), \A g \in Goroutines : ~Busy(g)
  PROVE  PlacersAreEarly' /\ PlacementGoesOn' /\ PairToMatch' /\ Covers'
<1>1. /\ phase = "placement" /\ phase' = phase
      /\ p \notin hasTokens /\ hasTokens' = hasTokens \cup {p}
      /\ covered' = covered \ {p}
      /\ tokens' = [tokens EXCEPT ![p] = placementRound]
      /\ ~placementPending /\ placementPending'
      /\ UNCHANGED <<placementRound, currentTurn, confirmPending>>
  BY DEF HandlePlaceToken, PlaceToken
<1>2. TypeOK /\ GameTypeOK
  BY DEF AtomicInd, PlacementInd, TypeOK
<1>3. PICK w \in 1..2 : Spawn(i, s, Job("wakePlace", w, Nobody, p, "none"))
  BY DEF HandlePlaceToken
<1>4. /\ go'[s].pc = "wakePlace" /\ go'[s].plate = p
      /\ \A t \in Slots \ {s} : go'[t] = go[t]
  <2>1. /\ go'[s] = Job("wakePlace", w, Nobody, p, "none")
        /\ \A h \in Goroutines \ {i, s} : go'[h] = go[h]
    BY <1>2, <1>3, SpawnEffect DEF TypeOK
  <2> QED BY <2>1, SlotsAssumption DEF Goroutines, Job
<1>5. \A t \in Slots : go[t].pc = "idle"
  <2>1. \A t \in Slots : go[t].pc \in Placing \cup {"idle", "startMatching"}
    BY <1>1, EarlySlots DEF Early
  <2>2. \A t \in Slots : go[t].pc \notin Placing
    BY <1>1 DEF AtomicInd, PlacementInd, OnePlacer, Pending
  <2>3. \A t \in Slots : go[t].pc # "startMatching"
    BY DEF Busy, Wakes, Goroutines
  <2> QED BY <2>1, <2>2, <2>3
<1>6. covered = Plates
  BY <1>1 DEF AtomicInd, Covers, Early
<1>7. Cardinality(hasTokens') = Cardinality(hasTokens) + 1
  <2>1. IsFiniteSet(hasTokens)
    BY <1>2, PlatesAssumption, FS_Subset DEF GameTypeOK
  <2> QED BY <1>1, <2>1, FS_AddElement
<1>8. PlacementGoesOn'
  <2>1. placementRound <= MaxRound
    BY <1>1, <1>5 DEF AtomicInd, PlacementGoesOn, Early, At
  <2>2. Cardinality(hasTokens) = 2 * (placementRound - 1) + currentTurn
    BY <1>1, <1>2 DEF AtomicInd, PlacementGoesOn, Early, GameTypeOK, Players
  <2>3. Cardinality(hasTokens') =
          2 * (placementRound' - 1) + currentTurn' + (IF placementPending' THEN 1 ELSE 0)
    BY <1>1, <1>2, <1>7, <2>2 DEF GameTypeOK, Players
  <2>4. \A q \in Plates \ hasTokens' : tokens'[q] = 0
    BY <1>1, <1>2 DEF AtomicInd, PlacementGoesOn, Early, GameTypeOK
  <2>5. \A t \in Slots : go'[t].pc # "startMatching"
    BY <1>4, <1>5
  <2> QED BY <1>1, <2>1, <2>3, <2>4, <2>5 DEF PlacementGoesOn, At, MaxRound
<1>9. Covers'
  <2>1. Plates \ covered' = {p}
    BY <1>1, <1>6
  <2>2. Cardinality(Plates \ covered') = 1
    BY <2>1, FS_Singleton
  <2>3. covered' \cup {p} = Plates
    BY <1>1, <1>6
  <2> QED BY <1>1, <1>4, <1>5, <2>2, <2>3 DEF Covers, At
<1>10. PlacersAreEarly' /\ PairToMatch'
  BY <1>1 DEF PlacersAreEarly, PairToMatch
<1> QED BY <1>8, <1>9, <1>10

\* The callback of a turn covers the plate before the turn moves on.
LEMMA AdvanceCovers ==
  ASSUME AtomicInd, NEW s \in Slots, CoverPlate(s) \/ AdvancePlacement(s)
  PROVE  PlacersAreEarly' /\ PlacementGoesOn' /\ PairToMatch' /\ Covers'
<1>1. TypeOK /\ GameTypeOK
  BY DEF AtomicInd, PlacementInd, TypeOK
<1>2. go[s].pc \in {"cover", "place"} /\ phase = "placement" /\ phase' = phase
  BY DEF CoverPlate, AdvancePlacement, NextPlacementTurn, At, AtomicInd,
       PlacersAreEarly, Placing, FinishedAtRest, Midway, Goroutines
<1>3. /\ placementPending
      /\ \A t \in Slots \ {s} : go[t].pc = "idle"
  <2>1. \A t \in Slots : go[t].pc \in Placing \cup {"idle", "startMatching"}
    BY <1>2, EarlySlots DEF Early
  <2>2. placementPending /\ \A t \in Slots \ {s} : go[t].pc \notin Placing
    BY <1>2 DEF AtomicInd, PlacementInd, OnePlacer, Pending, Placing
  <2>3. \A t \in Slots \ {s} : go[t].pc # "startMatching"
    BY <1>2 DEF AtomicInd, OneBusy, Busy, Wakes, Goroutines
  <2> QED BY <2>1, <2>2, <2>3
<1>4. PlacersAreEarly' /\ PairToMatch'
  BY <1>2 DEF PlacersAreEarly, PairToMatch
<1>5. ASSUME CoverPlate(s) PROVE PlacementGoesOn' /\ Covers'
  <2>1. /\ At(s, "cover") /\ covered' = covered \cup ({go[s].plate} \cap Plates)
        /\ UNCHANGED <<currentTurn, placementRound, tokens, hasTokens,
                       placementPending, confirmPending>>
    BY <1>5 DEF CoverPlate, locks
  <2>2. go'[s].pc = "place" /\ \A t \in Slots \ {s} : go'[t] = go[t]
    <3>1. go'[s] = Does("place") /\ \A t \in Slots \ {s} : go'[t] = go[t]
      BY <1>1, <1>5, BecomeEffect DEF CoverPlate, TypeOK, Goroutines
    <3> QED BY <3>1, JobPCs
  <2>3. covered' = Plates
    BY <1>1, <1>2, <2>1 DEF AtomicInd, Covers, Early, At, GameTypeOK
  <2>4. PlacementGoesOn'
    BY <1>2, <1>3, <2>1, <2>2
    DEF AtomicInd, PlacementGoesOn, Early, At, MaxRound
  <2>5. Cardinality(Plates \ covered') <= 2
    BY <2>3, FewOpen, <1>1 DEF AtomicInd, Covers, GameTypeOK
  <2> QED BY <1>2, <1>3, <2>2, <2>3, <2>4, <2>5 DEF Covers, At
<1>6. ASSUME AdvancePlacement(s) PROVE PlacementGoesOn' /\ Covers'
  <2>1. /\ At(s, "place") /\ ~placementPending'
        /\ currentTurn' = 1 - currentTurn
        /\ placementRound' = placementRound + currentTurn
        /\ UNCHANGED <<tokens, hasTokens, covered, confirmPending>>
    BY <1>6 DEF AdvancePlacement, NextPlacementTurn
  <2>2. /\ go'[s].pc = IF placementRound' > MaxRound THEN "startMatching" ELSE "idle"
        /\ \A t \in Slots \ {s} : go'[t] = go[t]
    <3>1. MaxRound' = MaxRound
      BY DEF MaxRound
    <3>2. CASE placementRound' > MaxRound
      BY <1>1, <1>6, <3>1, <3>2, BecomeEffect, JobPCs
      DEF AdvancePlacement, PlacementComplete, Jump, TypeOK, Goroutines
    <3>3. CASE ~(placementRound' > MaxRound)
      BY <1>1, <1>6, <3>1, <3>3, BecomeEffect, JobPCs
      DEF AdvancePlacement, PlacementComplete, TypeOK, Goroutines
    <3> QED BY <3>2, <3>3
  <2>3. placementRound <= MaxRound
    BY <1>2, <1>3 DEF AtomicInd, PlacementGoesOn, Early, At
  <2>4. Cardinality(hasTokens) = 2 * (placementRound - 1) + currentTurn + 1
    BY <1>1, <1>2, <1>3
    DEF AtomicInd, PlacementGoesOn, Early, GameTypeOK, Players
  <2>5. /\ Cardinality(hasTokens') =
             2 * (placementRound' - 1) + currentTurn'
        /\ placementRound' > MaxRound =>
             placementRound' = MaxRound + 1 /\ currentTurn' = 0
    BY <1>1, <2>1, <2>3, <2>4, RoundsFact DEF GameTypeOK, Players
  <2>6. placementRound' > MaxRound \/ placementRound' <= MaxRound
    BY <1>1, <2>1, RoundsFact DEF GameTypeOK, Players
  <2>7. PlacementGoesOn'
    <3>1. \A t \in Slots : go'[t].pc = "startMatching" =>
            placementRound' > MaxRound
      BY <1>3, <2>2
    <3>2. (\A t \in Slots : go'[t].pc # "startMatching") =>
            placementRound' <= MaxRound
      BY <2>2, <2>6
    <3>3. MaxRound' = MaxRound
      BY DEF MaxRound
    <3>4. \A q \in Plates \ hasTokens' : tokens'[q] = 0
      BY <1>2, <2>1 DEF AtomicInd, PlacementGoesOn, Early
    <3>5. Cardinality(hasTokens') = 2 * (placementRound' - 1) + currentTurn'
                                     + (IF placementPending' THEN 1 ELSE 0)
      BY <1>1, <2>1, <2>5 DEF GameTypeOK, Players
    <3> QED BY <2>1, <2>5, <3>1, <3>2, <3>3, <3>4, <3>5
         DEF PlacementGoesOn, At
  <2>8. covered' = Plates
    BY <1>2, <2>1 DEF AtomicInd, Covers, Early
  <2>9. Cardinality(Plates \ covered') <= 2
    BY <2>1 DEF AtomicInd, Covers
  <2>10. \A t \in Slots : go'[t].pc \notin {"wakePlace", "cover", "place"}
    BY <1>3, <2>2
  <2> QED BY <1>2, <2>7, <2>8, <2>9, <2>10 DEF Covers, At
<1> QED BY <1>4, <1>5, <1>6

\* The matching phase starts with the two plates no round was left for.
LEMMA StartCovers ==
  ASSUME AtomicInd, NEW s \in Slots, StartMatchingPhase(s)
  PROVE  PlacersAreEarly' /\ PlacementGoesOn' /\ PairToMatch' /\ Covers'
<1>1. TypeOK /\ GameTypeOK
  BY DEF AtomicInd, PlacementInd, TypeOK
<1>2. /\ At(s, "startMatching") /\ phase' = "matching"
      /\ UNCHANGED <<tokens, hasTokens, covered, confirmPending>>
  BY DEF StartMatchingPhase, StartMatching, locks
<1>3. phase = "placement"
  BY <1>2 DEF AtomicInd, PlacersAreEarly, FinishedAtRest, Midway, At, Goroutines
<1>4. /\ placementRound = MaxRound + 1 /\ currentTurn = 0 /\ ~placementPending
      /\ Cardinality(hasTokens) = 2 * MaxRound
  BY <1>2, <1>3, RoundsFact DEF AtomicInd, PlacementGoesOn, Early
<1>5. covered = Plates /\ Cardinality(Plates \ covered) <= 2
  BY <1>3, <1>4 DEF AtomicInd, Covers, Early
<1>6. HasMatchingPairs'
  <2>1. Plates \cap hasTokens = hasTokens
    BY <1>1 DEF GameTypeOK
  <2>2. /\ IsFiniteSet(Plates \ hasTokens)
        /\ Cardinality(Plates \ hasTokens) = 2
    <3>1. /\ IsFiniteSet(Plates \ hasTokens)
          /\ Cardinality(Plates \ hasTokens) =
               Cardinality(Plates) - Cardinality(hasTokens)
      BY <2>1, PlatesAssumption, FS_Difference
    <3> QED BY <1>4, <3>1, RoundsFact
  <2>3. PICK p, q \in Plates \ hasTokens : p # q
    BY <2>2, TwoElements
  <2>4. tokens[p] = 0 /\ tokens[q] = 0
    BY <1>3 DEF AtomicInd, PlacementGoesOn, Early
  <2> QED BY <1>2, <2>3, <2>4 DEF HasMatchingPairs
<1>7. PlacersAreEarly'
  <2>1. \A t \in Slots \ {s} : go[t].pc \notin Placing \cup {"startMatching"}
    <3>1. \A t \in Slots : go[t].pc \notin Placing
      BY <1>3, <1>4 DEF AtomicInd, PlacementInd, OnePlacer, Pending
    <3>2. \A t \in Slots \ {s} : go[t].pc # "startMatching"
      BY <1>2 DEF AtomicInd, OneBusy, Busy, At, Wakes, Goroutines
    <3> QED BY <3>1, <3>2
  <2>2. go'[s].pc = "startTimer" /\ \A t \in Slots \ {s} : go'[t] = go[t]
    BY <1>1, BecomeEffect, JobPCs DEF StartMatchingPhase, Jump, TypeOK, Goroutines
  <2> QED BY <2>1, <2>2 DEF PlacersAreEarly, Placing
<1> QED
  BY <1>2, <1>5, <1>6, <1>7 DEF PlacementGoesOn, PairToMatch, Covers, Early

\* The selected pair is opened from a covered table.
LEMMA ConfirmCovers ==
  ASSUME AtomicInd, NEW i \in Players, NEW s \in Slots, HandleConfirmMatch(i, s)
  PROVE  PlacersAreEarly' /\ PlacementGoesOn' /\ PairToMatch' /\ Covers'
<1>1. TypeOK /\ GameTypeOK
  BY DEF AtomicInd, PlacementInd, TypeOK
<1>2. /\ phase = "matching" /\ phase' = phase /\ ~confirmPending
      /\ confirmPending' /\ covered' = covered \ selected
      /\ Cardinality(selected) = 2 /\ tokens' = tokens
  BY DEF HandleConfirmMatch, CanConfirm, ConfirmMatch
<1>3. covered = Plates
  BY <1>2 DEF AtomicInd, Covers
<1>4. Plates \ covered' = selected
  BY <1>1, <1>2, <1>3 DEF GameTypeOK
<1>5. Covers'
  <2>1. Cardinality(Plates \ covered') <= 2
    BY <1>2, <1>4
  <2>2. selected' = selected
    BY DEF HandleConfirmMatch, ConfirmMatch
  <2> QED BY <1>2, <1>4, <2>1, <2>2 DEF Covers, Early
<1>6. PlacementGoesOn' /\ PairToMatch'
  BY <1>2 DEF AtomicInd, PlacementGoesOn, Early, PairToMatch, HasMatchingPairs
<1>7. PlacersAreEarly'
  <2>1. /\ ~Busy(i)' /\ ~Busy(s)'
        /\ \A h \in Goroutines \ {i, s} : go'[h] = go[h]
    BY <1>1, SpawnsSleep
  <2>2. \A t \in Slots : go[t].pc \notin Placing \cup {"startMatching"}
    BY <1>2 DEF AtomicInd, PlacersAreEarly
  <2>3. \A t \in Slots \ {s} : go'[t] = go[t]
    BY <2>1, SlotsAssumption DEF Goroutines
  <2>4. Spawn(i, s, IF SelectionMatches THEN Sleeper("wakeHit", 2, Nobody)
                                        ELSE Sleeper("wakeMiss", 2, i))
    BY DEF HandleConfirmMatch
  <2>5. go'[s].pc \in {"wakeHit", "wakeMiss"}
    <3>1. go'[s] = IF SelectionMatches THEN Sleeper("wakeHit", 2, Nobody)
                                       ELSE Sleeper("wakeMiss", 2, i)
      BY <1>1, <2>4, SpawnEffect DEF TypeOK
    <3> QED BY <3>1, JobPCs
  <2> QED BY <2>2, <2>3, <2>5 DEF PlacersAreEarly, Placing
<1> QED BY <1>5, <1>6, <1>7

\* The callbacks of a turn of the matching phase leave the plates as they are
\* or cover them all.
LEMMA TurnCovers ==
  ASSUME AtomicInd, NEW s \in Slots, SetAddTokenPhase(s) \/ AdvanceMatching(s)
  PROVE  PlacersAreEarly' /\ PlacementGoesOn' /\ PairToMatch' /\ Covers'
<1>1. TypeOK /\ GameTypeOK
  BY DEF AtomicInd, PlacementInd, TypeOK
<1>2. go[s].pc \in {"hit", "advance"}
  BY DEF SetAddTokenPhase, AdvanceMatching, At
<1>3. ~Early /\ phase # "finished"
  <2>1. ~Early
    BY <1>2, EarlySlots DEF Placing
  <2> QED BY <1>2, <2>1 DEF AtomicInd, FinishedAtRest, Midway, Goroutines
<1>4. /\ \A t \in Slots \ {s} : go'[t] = go[t]
      /\ go'[s].pc \in {"idle", "startTimer", "stop"}
  <2>1. PICK job : Become(s, job) /\ job.pc \in {"idle", "startTimer", "stop"}
    <3>1. CASE SetAddTokenPhase(s)
      BY <3>1, JobPCs DEF SetAddTokenPhase
    <3>2. CASE AdvanceMatching(s)
      BY <3>2, JobPCs DEF AdvanceMatching, Jump
    <3> QED BY <3>1, <3>2
  <2> QED BY <1>1, <2>1, BecomeEffect DEF TypeOK, Goroutines
<1>5. PlacersAreEarly'
  <2>1. \A t \in Slots : go[t].pc \notin Placing \cup {"startMatching"}
    BY <1>3 DEF AtomicInd, PlacersAreEarly, Early
  <2> QED BY <1>4, <2>1 DEF PlacersAreEarly, Placing
<1>6. ASSUME SetAddTokenPhase(s)
      PROVE  PlacementGoesOn' /\ PairToMatch' /\ Covers'
  <2>1. /\ phase' = "add_token" /\ matched' = selected
        /\ UNCHANGED <<covered, selected>>
    BY <1>6 DEF SetAddTokenPhase, EnterAddToken
  <2>2. phase \in {"matching", "add_token"}
    BY <1>1, <1>3 DEF GameTypeOK, Phases, Early
  <2> QED BY <2>1, <2>2 DEF PlacementGoesOn, Early, PairToMatch, AtomicInd, Covers
<1>7. ASSUME AdvanceMatching(s), NextMatchingTurn, HasMatchingPairs
      PROVE  PlacementGoesOn' /\ PairToMatch' /\ Covers'
  <2>1. phase' = "matching" /\ covered' = Plates /\ tokens' = tokens
    BY <1>7 DEF NextMatchingTurn
  <2>2. Cardinality(Plates \ covered') <= 2
    BY <1>1, <2>1, FewOpen DEF AtomicInd, Covers, GameTypeOK
  <2> QED BY <1>7, <2>1, <2>2
       DEF PlacementGoesOn, Early, PairToMatch, HasMatchingPairs, Covers
<1>8. ASSUME AdvanceMatching(s), UNCHANGED gameVars, ~HasMatchingPairs
      PROVE  PlacementGoesOn' /\ PairToMatch' /\ Covers'
  <2>1. /\ phase # "matching" /\ phase' = phase
        /\ UNCHANGED <<covered, selected, matched>>
    BY <1>8 DEF AtomicInd, PairToMatch, gameVars
  <2> QED BY <1>3, <2>1
       DEF AtomicInd, PlacementGoesOn, Early, PairToMatch, Covers
<1> QED BY <1>5, <1>6, <1>7, <1>8 DEF AdvanceMatching

\* Every step of the room with atomic handlers keeps the invariant.
LEMMA AtomicStep == AtomicInd /\ [AtomicNext]_vars => AtomicInd'
<1> SUFFICES ASSUME AtomicInd, [AtomicNext]_vars PROVE AtomicInd'
  OBVIOUS
<1> DEFINE Rest == PlacersAreEarly /\ PlacementGoesOn /\ PairToMatch /\ Covers
<1>0. TypeOK /\ GameTypeOK /\ PlacementInd
  BY DEF AtomicInd, PlacementInd, TypeOK
<1>1. PlacementInd' /\ OneBusy' /\ FinishedAtRest'
  <2>1. [Next]_vars
    BY DEF AtomicNext, TakeUp, RunOn, Next, Work, Arrive, Callback, TurnTimer
  <2> QED BY <1>0, <2>1, PlacementStep, BusyStep, RestStep DEF AtomicInd
<1>2. ASSUME NEW i \in Players, StartGame(i) PROVE Rest'
  <2>1. i = 1 /\ At(1, "start")
    BY <1>2 DEF StartGame, AtomicInd, PlacementInd, StartOnce, Players
  <2>2. phase = "waiting" /\ \A s \in Slots : At(s, "idle")
    BY <2>1 DEF AtomicInd, PlacementInd, StartOnce, FinishedAtRest, Midway, At,
         Goroutines, Players
  <2>3. \A s \in Slots : go'[s] = go[s]
    BY <1>0, <1>2, <2>1, BecomeEffect, SlotsAssumption
    DEF StartGame, TypeOK, Goroutines
  <2>4. currentTurn = 0 /\ placementRound = 1
    BY <2>1 DEF AtomicInd, PlacementInd, StartOnce
  <2>5. /\ phase' = "placement" /\ currentTurn' = 0 /\ placementRound' = 1
        /\ UNCHANGED <<tokens, hasTokens, covered, placementPending,
                       confirmPending>>
    BY <1>2 DEF StartGame, locks
  <2>6. PlacersAreEarly' /\ PairToMatch'
    BY <2>5 DEF PlacersAreEarly, PairToMatch
  <2>7. PlacementGoesOn'
    BY <2>2, <2>3, <2>4, <2>5
    DEF AtomicInd, PlacementGoesOn, Early, At, MaxRound
  <2>8. Covers'
    BY <2>2, <2>3, <2>5 DEF AtomicInd, Covers, Early, At
  <2> QED BY <2>6, <2>7, <2>8
<1>3. ASSUME NEW i \in Players,
             \/ RefuseConfirm(i) \/ ConfirmStopTimer(i) \/ HandleLeaveRoom(i)
             \/ \E p \in Plates : HandleSelectPlate(i, p)
      PROVE  Rest'
  <2>1. \A s \in Slots : go'[s] = go[s]
    BY <1>0, <1>3, SlotsAssumption
    DEF RefuseConfirm, ConfirmStopTimer, HandleLeaveRoom, HandleSelectPlate,
        Become, Jump, TypeOK, Goroutines
  <2>2. /\ phase' = phase
        /\ UNCHANGED <<currentTurn, placementRound, tokens, hasTokens, covered,
                       placementPending, confirmPending, matched>>
    BY <1>3 DEF RefuseConfirm, ConfirmStopTimer, HandleLeaveRoom,
         HandleSelectPlate, SelectPlate, gameVars, locks
  <2>3. selected' = selected \/ (phase = "matching" /\ ~confirmPending)
    BY <1>3 DEF RefuseConfirm, ConfirmStopTimer, HandleLeaveRoom,
         HandleSelectPlate, SelectPlate, gameVars
  <2>4. phase = "matching" /\ ~confirmPending => covered = Plates
    BY DEF AtomicInd, Covers
  <2> QED BY <2>1, <2>2, <2>3, <2>4, CoversKept
<1>4. ASSUME \A g \in Goroutines : ~Busy(g), NEW i \in Players, NEW p \in Plates,
             NEW s \in Slots, HandlePlaceToken(i, p, s)
      PROVE  Rest'
  BY <1>4, PlaceCovers
<1>5. ASSUME NEW i \in Players, NEW s \in Slots, HandleConfirmMatch(i, s)
      PROVE  Rest'
  BY <1>5, ConfirmCovers
<1>6. ASSUME NEW i \in Players, NEW p \in Plates, NEW s \in Slots,
             HandleAddToken(i, p, s)
      PROVE  Rest'
  <2>1. /\ phase = "add_token" /\ phase' = phase
        /\ UNCHANGED <<covered, selected, matched>>
    BY <1>6 DEF HandleAddToken, AddToken
  <2>2. PICK w \in 1..2 : Spawn(i, s, AfterAdd(i, w))
    BY <1>6 DEF HandleAddToken
  <2>3. AfterAdd(i, w).pc \notin Placing \cup {"startMatching"}
    BY DEF AfterAdd, Sleeper, Job, Placing
  <2>4. go'[s] = AfterAdd(i, w) /\ \A t \in Slots \ {s} : go'[t] = go[t]
    BY <1>0, <2>2, SpawnEffect, SlotsAssumption DEF TypeOK, Goroutines
  <2>5. PlacersAreEarly'
    BY <2>1, <2>3, <2>4 DEF AtomicInd, PlacersAreEarly
  <2> QED BY <2>1, <2>5
       DEF AtomicInd, PlacementGoesOn, Early, PairToMatch, Covers
<1>7. ASSUME NEW s \in Slots, Wake(s) PROVE Rest'
  <2>1. UNCHANGED <<phase, currentTurn, placementRound, tokens, hasTokens,
                    covered, placementPending, confirmPending, selected, matched>>
    BY <1>7 DEF Wake, gameVars, locks
  <2>2. \A t \in Slots \ {s} : go'[t] = go[t]
    BY <1>0, <1>7 DEF Wake, Become, Jump, TypeOK, Goroutines
  <2>3. CASE isRoomActive
    <3>1. go'[s] = Job(Resume[go[s].pc], 0, go[s].who, go[s].plate, go[s].why)
      BY <1>0, <1>7, <2>3, BecomeEffect DEF Wake, Jump, TypeOK, Goroutines
    <3>2. /\ go'[s].plate = go[s].plate
          /\ \/ At(s, "wakePlace") /\ go'[s].pc = "cover"
             \/ go[s].pc \notin Placing \cup {"idle", "startMatching"}
                  /\ go'[s].pc \notin Placing \cup {"startMatching"}
      <4>1. go[s].pc \in Wakes
        BY <1>7 DEF Wake
      <4>2. go'[s].plate = go[s].plate /\ go'[s].pc = Resume[go[s].pc]
        BY <3>1 DEF Job
      <4>3. CASE At(s, "wakePlace")
        BY <4>2, <4>3 DEF At, Resume, Wakes
      <4>4. CASE ~At(s, "wakePlace")
        <5>1. Resume[go[s].pc] \in {"hit", "miss", "advance", "stop"}
          BY <4>1, <4>4 DEF At, Resume, Wakes
        <5> QED BY <4>1, <4>2, <4>4, <5>1 DEF At, Wakes, Placing
      <4> QED BY <4>3, <4>4
    <3>3. Early => At(s, "wakePlace")
      BY <1>7, EarlySlots DEF Wake, Wakes, At, Placing
    <3>4. \A t \in Slots :
            \/ go'[t].pc = go[t].pc /\ go'[t].plate = go[t].plate
            \/ /\ At(t, "wakePlace") /\ go'[t].pc = "cover"
               /\ go'[t].plate = go[t].plate
            \/ ~Early' /\ go'[t].pc \notin Placing \cup {"startMatching"}
      <4>1. Early' => Early
        BY <2>1 DEF Early
      <4> QED BY <2>2, <3>2, <3>3, <4>1 DEF At, Placing
    <3> QED BY <2>1, <3>4, CoversKept
  <2>4. CASE ~isRoomActive
    <3>1. go'[s].pc = "idle"
      BY <1>0, <1>7, <2>4, BecomeEffect, JobPCs DEF Wake, TypeOK, Goroutines
    <3>2. ~Early
      BY <2>4 DEF isRoomActive, AtomicInd, FinishedAtRest, Early
    <3> QED BY <2>1, <2>2, <3>1, <3>2, CoversKept DEF Early, Placing
  <2> QED BY <2>3, <2>4
<1>8. ASSUME NEW s \in Slots, CallbackBody(s),
             ~(StartTimer(s) \/ HandleMatchFail(s))
      PROVE  Rest'
  BY <1>8, AdvanceCovers, StartCovers, TurnCovers DEF CallbackBody
<1>9. ASSUME NEW s \in Slots,
             \/ StartTimer(s) \/ HandleMatchFail(s)
             \/ TimerTick(s) \/ TimerDone(s) \/ TimeoutBody(s)
      PROVE  Rest'
  <2>1. UNCHANGED <<phase, currentTurn, placementRound, tokens, hasTokens,
                    covered, placementPending, confirmPending, selected, matched>>
    BY <1>9 DEF StartTimer, HandleMatchFail, TimerTick, TimerDone, TimeoutBody,
         TimerExpired, TimeoutCheck, GetCurrentTurn, HandleTimeout, gameVars,
         locks
  <2>2. go[s].pc \notin Placing \cup {"idle", "startMatching"}
    BY <1>9 DEF StartTimer, HandleMatchFail, TimerTick, TimerDone, TimeoutBody,
         TimerExpired, TimeoutCheck, GetCurrentTurn, HandleTimeout, At, Placing
  <2>3. PICK job :
          /\ Become(s, job)
          /\ job.pc \in {"idle", "ticker", "wakeAdvance", "expired",
                         "timeout", "turn", "penalty"}
    <3>1. CASE StartTimer(s) \/ HandleMatchFail(s)
      BY <3>1, JobPCs DEF StartTimer, HandleMatchFail
    <3>2. CASE TimerTick(s) \/ TimerDone(s)
      BY <3>2, JobPCs DEF TimerTick, TimerDone
    <3>3. CASE TimeoutBody(s)
      BY <3>3, JobPCs DEF TimeoutBody, TimerExpired, TimeoutCheck,
           GetCurrentTurn, HandleTimeout, Jump
    <3> QED BY <1>9, <3>1, <3>2, <3>3
  <2>4. /\ go'[s].pc \notin Placing \cup {"startMatching"}
        /\ \A t \in Slots \ {s} : go'[t] = go[t]
    BY <1>0, <2>3, BecomeEffect DEF TypeOK, Goroutines, Placing
  <2>5. ~Early'
    BY <2>1, <2>2, EarlySlots DEF Early
  <2> QED BY <2>1, <2>4, <2>5, CoversKept
<1>10. ASSUME NEW g \in Goroutines, EndGame(g) PROVE Rest'
  <2>1. /\ phase' \in {phase, "finished"}
        /\ UNCHANGED <<currentTurn, placementRound, tokens, hasTokens, covered,
                       placementPending, confirmPending, selected, matched>>
    BY <1>10 DEF EndGame, StopTimer, SetFinished, MarkFinished, GetWinner,
         ReportGameEnd, RemoveRoom, gameVars, locks
  <2>2. go[g].pc \notin Placing \cup {"idle", "startMatching"}
    BY <1>10 DEF EndGame, StopTimer, SetFinished, GetWinner, ReportGameEnd,
         RemoveRoom, At, Placing
  <2>3. PICK job :
          /\ Become(g, job)
          /\ job.pc \in {"idle", "finish", "winner", "report", "remove"}
    BY <1>10, JobPCs DEF EndGame, StopTimer, SetFinished, GetWinner,
         ReportGameEnd, RemoveRoom, Jump
  <2>4. /\ go'[g].pc \notin Placing \cup {"startMatching"}
        /\ \A h \in Goroutines \ {g} : go'[h] = go[h]
    BY <1>0, <2>3, BecomeEffect DEF TypeOK, Placing
  <2>5. g \in Slots => ~Early'
    BY <2>1, <2>2, EarlySlots DEF Early
  <2> QED BY <2>1, <2>4, <2>5, CoversKept DEF Goroutines
<1>11. ASSUME Second PROVE Rest'
  <2>1. \A s \in Slots : go'[s].pc = go[s].pc /\ go'[s].plate = go[s].plate
    BY <1>11 DEF Second, Job, Goroutines
  <2> QED BY <1>11, <2>1, CoversKept DEF Second, gameVars, locks
<1>12. ASSUME UNCHANGED vars PROVE Rest'
  BY <1>12, CoversKept DEF vars, gameVars, locks
<1>13. Rest'
  BY <1>2, <1>3, <1>4, <1>5, <1>6, <1>7, <1>8, <1>9, <1>10, <1>11, <1>12
  DEF AtomicNext, TakeUp, RunOn, Arrive, Handler, Message, CallbackBody
<1> QED BY <1>1, <1>13 DEF AtomicInd

\* While handlers and callbacks are atomic a plate is open only during the turn
\* that opened it, and no more than two at a time: AdvanceMatching, which gives
\* the lock back without covering the plates, never finds a table without a
\* pair in the matching phase.
THEOREM NobodyPeeks == AtomicSpec => []NoPeeking
<1>1. ASSUME AtomicInd PROVE NoPeeking
  <2>1. phase \in Phases /\ Cardinality(Plates \ covered) <= 2
    BY <1>1 DEF AtomicInd, PlacementInd, TypeOK, GameTypeOK, Covers
  <2>2. ASSUME NEW p \in Plates \ covered, phase # "finished" PROVE OpenedThisTurn(p)
    <3>1. CASE Early
      <4>1. PICK s \in Slots : go[s].pc \in {"wakePlace", "cover"} /\ go[s].plate = p
        BY <1>1, <2>2, <3>1 DEF AtomicInd, Covers
      <4>2. phase = "placement"
        BY <1>1, <2>2, <4>1 DEF AtomicInd, PlacersAreEarly, Placing
      <4> QED BY <4>1, <4>2 DEF OpenedThisTurn
    <3>2. CASE ~Early
      BY <1>1, <2>1, <2>2, <3>2 DEF AtomicInd, Covers, Early, Phases, OpenedThisTurn
    <3> QED BY <3>1, <3>2
  <2> QED BY <2>1, <2>2 DEF NoPeeking
<1> QED BY CoversInit, AtomicStep, <1>1, PTL DEF AtomicSpec

\* While handlers and callbacks are atomic no late callback revives a game that
\* has ended.
THEOREM FinishedStays == AtomicSpec => FinishedIsFinal
<1>1. AtomicInd /\ [AtomicNext]_vars =>
        [phase = "finished" => phase' = "finished"]_vars
  <2> SUFFICES ASSUME AtomicInd, AtomicNext, phase = "finished"
               PROVE  phase' = "finished"
    OBVIOUS
  <2>1. \A g \in Goroutines : go[g].pc \notin Midway
    BY DEF AtomicInd, FinishedAtRest
  <2>2. CASE TakeUp
    BY <2>2 DEF TakeUp, Arrive, Message, Wake, TimerTick, HandleSelectPlate,
         SelectPlate, HandlePlaceToken, PlaceToken, HandleAddToken, AddToken,
         ConfirmStopTimer, HandleLeaveRoom, Second, gameVars
  <2>3. CASE \E i \in Players : Handler(i)
    BY <2>1, <2>3 DEF Handler, StartGame, RefuseConfirm, HandleConfirmMatch,
         ConfirmMatch, gameVars, At, Midway, Goroutines
  <2>4. CASE \E s \in Slots : CallbackBody(s)
    BY <2>1, <2>4 DEF CallbackBody, CoverPlate, AdvancePlacement,
         StartMatchingPhase, StartTimer, SetAddTokenPhase, HandleMatchFail,
         AdvanceMatching, gameVars, At, Midway, Goroutines
  <2>5. CASE \E s \in Slots : TimerDone(s) \/ TimeoutBody(s)
    BY <2>5 DEF TimerDone, TimeoutBody, TimerExpired, TimeoutCheck,
         GetCurrentTurn, HandleTimeout, gameVars
  <2>6. CASE \E g \in Goroutines : EndGame(g)
    BY <2>6 DEF EndGame, StopTimer, SetFinished, MarkFinished, GetWinner,
         ReportGameEnd, RemoveRoom, gameVars
  <2> QED BY <2>2, <2>3, <2>4, <2>5, <2>6 DEF AtomicNext, RunOn
<1> QED BY CoversInit, AtomicStep, <1>1, PTL DEF AtomicSpec, FinishedIsFinal

-----------------------------------------------------------------------------
(* A game is reported once.                                                *)

\* On the way to the report of a game.
Reporting == {"stop", "finish", "winner", "report"}

ReportInd ==
  /\ reports # <<>> => phase = "finished"
  /\ \A g \in Goroutines : go[g].pc \in Reporting => reports = <<>>
  /\ \A g \in Goroutines :
       At(g, "report") /\ go[g].why = "no_matches" => go[g].who = FewerTokens
  /\ OneResult

\* A step that reports nothing, and that nobody on the way to a report takes.
LEMMA ReportKept ==
  ASSUME ReportInd, reports' = reports, phase' = phase,
         playerTokens' = playerTokens \/ \A g \in Goroutines : ~At(g, "report"),
         \A g \in Goroutines :
           \/ go'[g].pc = go[g].pc /\ go'[g].who = go[g].who /\ go'[g].why = go[g].why
           \/ go'[g].pc \notin Reporting
           \/ go'[g].pc = "stop" /\ phase # "finished"
  PROVE  ReportInd'
<1>1. \A g \in Goroutines : go'[g].pc \in Reporting => reports' = <<>>
  BY DEF ReportInd
<1>2. ASSUME NEW g \in Goroutines, At(g, "report")', go'[g].why = "no_matches"
      PROVE  go'[g].who = FewerTokens'
  <2>1. At(g, "report") /\ go[g].why = "no_matches" /\ go'[g].who = go[g].who
    BY <1>2 DEF At, Reporting
  <2>2. playerTokens' = playerTokens
    BY <2>1
  <2> QED BY <2>1, <2>2 DEF ReportInd, FewerTokens
<1>3. OneResult'
  BY DEF ReportInd, OneResult
<1> QED BY <1>1, <1>2, <1>3 DEF ReportInd

\* The end of a game is reported by the one goroutine that carries it out.
LEMMA EndReports ==
  ASSUME AtomicInd, ReportInd, NEW g \in Goroutines, EndGame(g)
  PROVE  ReportInd'
<1>1. TypeOK /\ GameTypeOK /\ go \in [Goroutines -> Goroutine]
  BY DEF AtomicInd, PlacementInd, TypeOK
<1>2. go[g].pc \in Reporting \cup {"remove"}
  BY DEF EndGame, StopTimer, SetFinished, GetWinner, ReportGameEnd, RemoveRoom, At, Reporting
<1>3. \A h \in Goroutines \ {g} : go[h].pc \notin Reporting
  BY <1>2 DEF AtomicInd, OneBusy, Busy, Wakes, Reporting
<1>4. PICK job : Become(g, job)
  BY DEF EndGame, StopTimer, SetFinished, GetWinner, ReportGameEnd, RemoveRoom, Jump
<1>5. go'[g] = job /\ \A h \in Goroutines \ {g} : go'[h] = go[h]
  BY <1>1, <1>4, BecomeEffect
<1>6. ASSUME UNCHANGED <<playerTokens, reports>>, reports # <<>> => phase' = "finished",
             job.pc \in Reporting => go[g].pc \in Reporting,
             job.pc = "report" /\ job.why = "no_matches" => job.who = FewerTokens
      PROVE  ReportInd'
  <2>1. \A h \in Goroutines : go'[h].pc \in Reporting => reports' = <<>>
    BY <1>3, <1>5, <1>6 DEF ReportInd
  <2>2. \A h \in Goroutines :
          At(h, "report")' /\ go'[h].why = "no_matches" => go'[h].who = FewerTokens'
    BY <1>3, <1>5, <1>6 DEF At, Reporting, FewerTokens
  <2>3. OneResult'
    BY <1>6 DEF ReportInd, OneResult
  <2> QED BY <1>6, <2>1, <2>2, <2>3 DEF ReportInd
<1>7. CASE StopTimer(g)
  <2>1. job.pc = "finish" /\ UNCHANGED <<playerTokens, reports, phase>> /\ At(g, "stop")
    BY <1>1, <1>5, <1>7, BecomeEffect, JobPCs DEF StopTimer, Jump, gameVars
  <2> QED BY <1>6, <2>1 DEF ReportInd, At, Reporting
<1>8. CASE SetFinished(g)
  <2>1. /\ job.pc = IF go[g].why = "no_matches" THEN "winner" ELSE "report"
        /\ job.why = go[g].why
    <3>1. go'[g] = Job(IF go[g].why = "no_matches" THEN "winner" ELSE "report", 0,
                       go[g].who, go[g].plate, go[g].why)
      BY <1>1, <1>8, BecomeEffect DEF SetFinished, Jump
    <3> QED BY <1>5, <3>1 DEF Job
  <2>2. UNCHANGED <<playerTokens, reports>> /\ phase' = "finished" /\ At(g, "finish")
    BY <1>8 DEF SetFinished, MarkFinished
  <2> QED BY <1>6, <2>1, <2>2 DEF At, Reporting
<1>9. CASE GetWinner(g)
  <2>1. go'[g] = Job("report", 0, FewerTokens, NoPlate, "no_matches")
    BY <1>1, <1>9, BecomeEffect DEF GetWinner
  <2>2. job.pc = "report" /\ job.who = FewerTokens
    BY <1>5, <2>1 DEF Job
  <2>3. UNCHANGED <<playerTokens, reports, phase>> /\ At(g, "winner")
    BY <1>9 DEF GetWinner, gameVars
  <2> QED BY <1>6, <2>2, <2>3 DEF ReportInd, At, Reporting
<1>10. CASE ReportGameEnd(g)
  <2> DEFINE report == [winner |-> go[g].who, reason |-> go[g].why, tokens |-> playerTokens]
  <2>1. /\ At(g, "report") /\ reports = <<>> /\ reports' = Append(reports, report)
        /\ UNCHANGED <<phase, playerTokens>> /\ job.pc = "remove"
    <3>1. go'[g].pc = "remove"
      BY <1>1, <1>10, BecomeEffect, JobPCs DEF ReportGameEnd, Jump
    <3> QED BY <1>2, <1>5, <1>10, <3>1 DEF ReportGameEnd, gameVars, ReportInd, At, Reporting
  <2>2. reports' = <<report>>
    BY <2>1
  <2>3. phase' = "finished"
    BY <2>1 DEF AtomicInd, FinishedAtRest, Finishing, At
  <2>4. \A h \in Goroutines : go'[h].pc \notin Reporting
    BY <1>3, <1>5, <2>1 DEF Reporting
  <2>5. go[g].why = "no_matches" =>
          IF go[g].who = Nobody THEN playerTokens[0] = playerTokens[1]
                                ELSE playerTokens[go[g].who] < playerTokens[1 - go[g].who]
    <3>1. playerTokens \in [{0, 1} -> Int]
      BY <1>1 DEF TypeOK, Players
    <3>2. go[g].why = "no_matches" => go[g].who = FewerTokens
      BY <2>1 DEF ReportInd
    <3> QED BY <3>1, <3>2 DEF FewerTokens, Nobody
  <2>6. OneResult'
    <3>1. Len(reports') = 1 /\ reports'[1] = report
      BY <2>2
    <3>2. \A n \in 1..Len(reports') : n = 1
      BY <3>1
    <3> QED BY <2>5, <3>1, <3>2 DEF OneResult
  <2> QED BY <2>3, <2>4, <2>6 DEF ReportInd, At, Reporting
<1>11. CASE RemoveRoom(g)
  <2>1. job.pc = "idle" /\ UNCHANGED <<playerTokens, reports, phase>>
    BY <1>1, <1>5, <1>11, BecomeEffect, JobPCs DEF RemoveRoom, gameVars
  <2> QED BY <1>6, <2>1 DEF ReportInd, Reporting
<1> QED BY <1>7, <1>8, <1>9, <1>10, <1>11 DEF EndGame

LEMMA ReportStep == AtomicInd /\ ReportInd /\ [AtomicNext]_vars => ReportInd'
<1> SUFFICES ASSUME AtomicInd, ReportInd, [AtomicNext]_vars PROVE ReportInd'
  OBVIOUS
<1>0. TypeOK /\ GameTypeOK /\ go \in [Goroutines -> Goroutine] /\ Slots \subseteq Goroutines
      /\ Players \subseteq Goroutines
  BY DEF AtomicInd, PlacementInd, TypeOK, Goroutines
\* One goroutine goes on, and perhaps changes a purse.
<1>1. ASSUME NEW g \in Goroutines, NEW job, Become(g, job),
             \/ job.pc \notin Reporting
             \/ job.pc = "stop" /\ phase # "finished",
             reports' = reports, phase' = phase,
             playerTokens' = playerTokens \/ \A h \in Goroutines : ~At(h, "report")
      PROVE  ReportInd'
  <2>1. go'[g] = job /\ \A h \in Goroutines \ {g} : go'[h] = go[h]
    BY <1>0, <1>1, BecomeEffect
  <2> QED BY <1>1, <2>1, ReportKept
\* The phase changes only before the game is finished.
<1>2. ASSUME NEW g \in Goroutines, NEW job, Become(g, job), go[g].pc \in Midway,
             \/ job.pc \notin Reporting \/ job.pc = "stop",
             reports' = reports
      PROVE  ReportInd'
  <2>1. go'[g] = job /\ \A h \in Goroutines \ {g} : go'[h] = go[h]
    BY <1>0, <1>2, BecomeEffect
  <2>2. reports = <<>>
    BY <1>2 DEF AtomicInd, FinishedAtRest, ReportInd
  <2>3. \A h \in Goroutines : go'[h].pc # "report"
    <3>1. \A h \in Goroutines \ {g} : ~Busy(h)
      BY <1>2 DEF AtomicInd, OneBusy, Busy, Midway, Wakes
    <3> QED BY <1>2, <2>1, <3>1 DEF Busy, Wakes, Reporting
  <2>4. OneResult'
    BY <1>2 DEF ReportInd, OneResult
  <2> QED BY <1>2, <2>2, <2>3, <2>4 DEF ReportInd, At
<1>3. ASSUME NEW s \in Slots, Wake(s) PROVE ReportInd'
  <2>1. UNCHANGED <<reports, phase, playerTokens>> /\ go[s].pc \in Wakes
    BY <1>3 DEF Wake, gameVars
  <2>2. CASE isRoomActive
    <3>1. Resume[go[s].pc] \in {"cover", "hit", "miss", "advance", "stop"}
      BY <2>1 DEF Resume, Wakes
    <3>2. PICK job : Become(s, job) /\ job.pc = Resume[go[s].pc]
      BY <1>3, <2>2, JobPCs DEF Wake, Jump
    <3> QED BY <1>0, <1>1, <2>1, <2>2, <3>1, <3>2 DEF isRoomActive, Reporting
  <2>3. CASE ~isRoomActive
    BY <1>0, <1>1, <1>3, <2>1, <2>3, JobPCs DEF Wake, Reporting
  <2> QED BY <2>2, <2>3
<1>4. ASSUME NEW i \in Players,
             \/ RefuseConfirm(i) \/ ConfirmStopTimer(i) \/ HandleLeaveRoom(i)
             \/ \E p \in Plates : HandleSelectPlate(i, p)
      PROVE  ReportInd'
  <2>1. UNCHANGED <<reports, phase, playerTokens>>
    BY <1>4 DEF RefuseConfirm, ConfirmStopTimer, HandleLeaveRoom, HandleSelectPlate,
       SelectPlate, gameVars
  <2>2. PICK job : /\ Become(i, job)
                   /\ \/ job.pc \in {"idle", "confirm"}
                      \/ job.pc = "stop" /\ phase # "finished"
    BY <1>4, JobPCs DEF RefuseConfirm, ConfirmStopTimer, HandleLeaveRoom, HandleSelectPlate,
       Jump, isRoomActive
  <2> QED BY <1>0, <1>1, <2>1, <2>2 DEF Reporting
<1>5. ASSUME NEW i \in Players, NEW s \in Slots,
             \/ HandleConfirmMatch(i, s)
             \/ \E p \in Plates :
                  \/ HandlePlaceToken(i, p, s)
                  \/ HandleAddToken(i, p, s) /\ \A g \in Goroutines : ~Busy(g)
      PROVE  ReportInd'
  <2>1. /\ ~Busy(i)' /\ ~Busy(s)'
        /\ \A h \in Goroutines \ {i, s} : go'[h] = go[h]
    BY <1>0, <1>5, SpawnsSleep
  <2>2. UNCHANGED <<reports, phase>>
    BY <1>5 DEF HandleConfirmMatch, ConfirmMatch, HandlePlaceToken, PlaceToken,
       HandleAddToken, AddToken
  <2>3. playerTokens' = playerTokens \/ \A h \in Goroutines : ~At(h, "report")
    BY <1>5 DEF HandleConfirmMatch, HandlePlaceToken, Busy, At, Wakes
  <2>4. go'[i].pc \notin Reporting /\ go'[s].pc \notin Reporting
    BY <2>1 DEF Busy, Wakes, Reporting
  <2> QED BY <2>1, <2>2, <2>3, <2>4, ReportKept
<1>6. ASSUME NEW i \in Players, StartGame(i) PROVE ReportInd'
  BY <1>0, <1>2, <1>6, JobPCs DEF StartGame, At, Midway, Reporting
<1>7. ASSUME NEW s \in Slots,
             CoverPlate(s) \/ AdvancePlacement(s) \/ StartMatchingPhase(s)
             \/ SetAddTokenPhase(s) \/ AdvanceMatching(s)
      PROVE  ReportInd'
  <2>1. PICK job : /\ Become(s, job) /\ go[s].pc \in Midway /\ reports' = reports
                   /\ job.pc \in {"place", "startMatching", "idle", "startTimer", "stop"}
    BY <1>7, JobPCs DEF CoverPlate, AdvancePlacement, StartMatchingPhase, SetAddTokenPhase,
       AdvanceMatching, Jump, At, Midway
  <2> QED BY <1>0, <1>2, <2>1 DEF Reporting
<1>8. ASSUME NEW s \in Slots,
             \/ StartTimer(s) \/ HandleMatchFail(s)
             \/ TimerTick(s) \/ TimerDone(s) \/ TimeoutBody(s)
      PROVE  ReportInd'
  <2>1. UNCHANGED <<reports, phase>>
    BY <1>8 DEF StartTimer, HandleMatchFail, TimerTick, TimerDone, TimeoutBody,
       TimerExpired, TimeoutCheck, GetCurrentTurn, HandleTimeout, gameVars
  <2>2. PICK job :
          /\ Become(s, job)
          /\ job.pc \in {"idle", "ticker", "wakeAdvance", "expired",
                         "timeout", "turn", "penalty"}
    <3>1. CASE StartTimer(s) \/ HandleMatchFail(s)
      BY <3>1, JobPCs DEF StartTimer, HandleMatchFail
    <3>2. CASE TimerTick(s) \/ TimerDone(s)
      BY <3>2, JobPCs DEF TimerTick, TimerDone
    <3>3. CASE TimeoutBody(s)
      BY <3>3, JobPCs DEF TimeoutBody, TimerExpired, TimeoutCheck,
           GetCurrentTurn, HandleTimeout, Jump
    <3> QED BY <1>8, <3>1, <3>2, <3>3
  <2>3. playerTokens' = playerTokens \/ \A h \in Goroutines : ~At(h, "report")
    <3>1. CASE HandleMatchFail(s) \/ HandleTimeout(s)
      <4>1. go[s].pc \in {"miss", "penalty"}
        BY <3>1 DEF HandleMatchFail, HandleTimeout, At
      <4> QED BY <1>0, <4>1 DEF AtomicInd, OneBusy, Busy, At, Wakes
    <3>2. CASE ~(HandleMatchFail(s) \/ HandleTimeout(s))
      BY <1>8, <3>2 DEF StartTimer, TimerTick, TimerDone, TimeoutBody, TimerExpired,
         TimeoutCheck, GetCurrentTurn
    <3> QED BY <3>1, <3>2
  <2> QED BY <1>0, <1>1, <2>1, <2>2, <2>3 DEF Reporting
<1>9. CASE Second \/ UNCHANGED vars
  <2>1. UNCHANGED <<reports, phase, playerTokens>>
    BY <1>9 DEF Second, vars, gameVars
  <2>2. \A g \in Goroutines :
          go'[g].pc = go[g].pc /\ go'[g].who = go[g].who /\ go'[g].why = go[g].why
    BY <1>9 DEF Second, Job, vars
  <2> QED BY <2>1, <2>2, ReportKept
<1> QED
  BY <1>3, <1>4, <1>5, <1>6, <1>7, <1>8, <1>9, EndReports
  DEF AtomicNext, TakeUp, RunOn, Arrive, Handler, Message, CallbackBody

\* While handlers and callbacks are atomic a game is reported once, and the
\* message of a game without a winner by tokens names whoever holds fewer, whether
\* or not players beat the turn timer, leave, or confirm too late.
THEOREM OneReport == AtomicSpec => []OneResult
<1>1. Init => ReportInd
  <2> SUFFICES ASSUME Init PROVE ReportInd
    OBVIOUS
  <2>1. reports = <<>> /\ \A g \in Goroutines : go[g].pc \in {"start", "idle"}
    BY JobPCs DEF Init
  <2>2. OneResult
    BY <2>1 DEF OneResult
  <2> QED BY <2>1, <2>2 DEF ReportInd, Reporting, At
<1>2. ReportInd => OneResult
  BY DEF ReportInd
<1> QED BY <1>1, <1>2, CoversInit, AtomicStep, ReportStep, PTL DEF AtomicSpec
=============================================================================
