----------------------------- MODULE TurnProofs -----------------------------
(***************************************************************************)
(* What a room keeps while handlers and callbacks are atomic and players   *)
(* beat the turn timer: a turn has one end, the game one result, and every *)
(* step of the room is a step of the rules.                                *)
(*                                                                         *)
(* The argument: one goroutine at a time conducts the game.  It is the     *)
(* turn timer while a player thinks, and the callback of the turn once the *)
(* player has moved; the lock of the move keeps a second callback from     *)
(* being left, and confirming stops the timer.  Who ends the game is       *)
(* alone until the room is gone, so what it reports is what the purses     *)
(* hold.                                                                   *)
(***************************************************************************)
EXTENDS RoomProofs, RoomRefinement

-----------------------------------------------------------------------------
(* The invariant.                                                          *)

\* Callbacks that carry a turn on, from a player's move to the next timer.
Chain == Placing \cup Revealing \cup Advancing
           \cup {"wakeWin", "startMatching", "startTimer"}

Conducts(s) == s = timer \/ go[s].pc \in Chain
OneConductor == \A s, t \in Slots : Conducts(s) /\ Conducts(t) => s = t

\* The players beat the timer.
InTime ==
  /\ timeLeft > 0
  /\ \A s \in Slots : go[s].pc \notin {"expired", "timeout", "turn", "penalty"}

\* A timer that is not stopped runs, and a player who confirms has stopped it.
TimerRuns ==
  timer # NoTimer => At(timer, "ticker") /\ \A i \in Players : ~At(i, "confirm")

\* What the callback in slot s knows of the turn it carries on.
KnowsItsTurn(s) ==
  /\ go[s].pc \in Placing \cup {"startMatching"} => phase = "placement"
  /\ At(s, "startTimer") => phase = "matching" /\ ~confirmPending
  /\ go[s].pc \in Revealing => phase = "matching" /\ confirmPending
  /\ go[s].pc \in {"wakeHit", "hit"} => SelectionMatches
  /\ go[s].pc \in {"wakeMiss", "miss"} =>
       ~SelectionMatches /\ go[s].who = currentTurn
  /\ go[s].pc \in Advancing => \/ phase = "matching" /\ confirmPending
                               \/ phase = "add_token" /\ addTokenPending
  /\ At(s, "wakeWin") =>
       /\ phase = "add_token" /\ addTokenPending
       /\ go[s].who = currentTurn /\ go[s].why = "tokens"
       /\ playerTokens[currentTurn] <= 0

ChainKnows ==
  phase # "finished" =>
    /\ timer # NoTimer => phase = "matching" /\ ~confirmPending
    /\ \A s \in Slots : KnowsItsTurn(s)

Closes == \E g \in Goroutines : Ending(g)

\* Which locks a phase can hold, and what has been matched in it.
PhaseFlags ==
  /\ Early => ~confirmPending /\ ~addTokenPending /\ matched = {}
  /\ phase = "matching" =>
       /\ ~addTokenPending /\ matched = {}
       /\ confirmPending => Cardinality(selected) = 2
  /\ phase = "add_token" =>
       /\ ~confirmPending /\ Cardinality(matched) = 2
       /\ addTokenPending \/ Closes \/ \A p, q \in matched : tokens[p] = tokens[q]

\* What the goroutine that closes the room is about to report.
ClosesHonestly(g) ==
  /\ At(g, "remove") <=> reports # <<>>
  /\ go[g].pc \in {"stop", "finish"} => phase # "finished"
  /\ At(g, "winner") => go[g].why = "no_matches"
  /\ go[g].why # "none"
  /\ go[g].why = "tokens" =>
       go[g].who = currentTurn /\ playerTokens[currentTurn] <= 0
  /\ go[g].why = "forfeit" => go[g].who \in Players
  /\ go[g].why = "no_matches" /\ go[g].pc \in {"report", "remove"} =>
       go[g].who = FewerTokens

Ends ==
  /\ phase = "finished" => ~listed \/ Closes
  /\ ~listed => reports # <<>> /\ \A g \in Goroutines : ~Busy(g)
  /\ \A g \in Goroutines : Ending(g) => ClosesHonestly(g)
  /\ reports # <<>> =>
       /\ phase = "finished" /\ Len(reports) = 1
       /\ reports[1].tokens = playerTokens
       /\ reports[1].reason = "tokens" =>
            reports[1].winner = currentTurn /\ playerTokens[currentTurn] <= 0
       /\ reports[1].reason = "no_matches" => reports[1].winner = FewerTokens

Conduct == OneConductor /\ TimerRuns /\ ChainKnows /\ PhaseFlags /\ Ends

TurnInd == InTime /\ Conduct

\* The game is still being played.
Live == /\ phase # "finished" /\ listed /\ reports = <<>>
        /\ \A g \in Goroutines : ~Ending(g)

-----------------------------------------------------------------------------
(* Who plays, plays in a live room, and who carries a turn on, alone.      *)

\* An ending goroutine is busy.
LEMMA EndingBusy == \A g \in Goroutines : Ending(g) => Busy(g)
  BY DEF Ending, EndPCs, Busy, Wakes

\* A goroutine that is busy with anything but the end finds the game going on.
LEMMA LiveWork ==
  ASSUME AtomicInd, TurnInd, NEW g \in Goroutines, Busy(g), ~Ending(g)
  PROVE  Live
<1>1. \A h \in Goroutines : ~Ending(h)
  BY EndingBusy DEF AtomicInd, OneBusy
<1>2. listed
  BY DEF TurnInd, Conduct, Ends
<1> QED BY <1>1, <1>2 DEF TurnInd, Conduct, Ends, Closes, Live

\* So does a message taken up when nobody is busy.
LEMMA LiveMessage ==
  ASSUME AtomicInd, TurnInd, listed, \A g \in Goroutines : ~Busy(g)
  PROVE  Live
<1>1. \A h \in Goroutines : ~Ending(h)
  BY EndingBusy
<1> QED BY <1>1 DEF TurnInd, Conduct, Ends, Closes, Live

\* Who carries a turn on is alone, and the timer is off.
LEMMA AloneOnChain ==
  ASSUME TurnInd, timer \in Slots \cup {NoTimer}, NEW s \in Slots, go[s].pc \in Chain
  PROVE  timer = NoTimer /\ \A t \in Slots \ {s} : go[t].pc \notin Chain
<1>1. \A t \in Slots : Conducts(t) => t = s
  BY DEF TurnInd, Conduct, OneConductor, Conducts
<1>2. timer = NoTimer
  <2>1. SUFFICES ASSUME timer # NoTimer PROVE FALSE
    OBVIOUS
  <2>2. timer = s /\ At(timer, "ticker")
    BY <1>1, <2>1 DEF Conducts, TurnInd, Conduct, TimerRuns
  <2> QED BY <2>2 DEF At, Chain, Placing, Revealing, Advancing
<1> QED BY <1>1, <1>2 DEF Conducts

\* A step after which nobody conducts who did not before.
LEMMA ConductorKept ==
  ASSUME OneConductor, \A t \in Slots : Conducts(t)' => Conducts(t)
  PROVE  OneConductor'
  BY DEF OneConductor

\* A step of the one goroutine on the chain, which stays its only one.
LEMMA ChainMoves ==
  ASSUME TypeOK, TurnInd, NEW s \in Slots, go[s].pc \in Chain, OthersStay(s),
         timer' = NoTimer,
         phase' # "finished" => KnowsItsTurn(s)'
  PROVE  OneConductor' /\ TimerRuns' /\ ChainKnows'
<1>1. timer = NoTimer /\ \A t \in Slots \ {s} : go[t].pc \notin Chain
  BY AloneOnChain DEF TypeOK
<1>2. \A t \in Slots \ {s} : go'[t].pc \notin Chain
  BY <1>1 DEF OthersStay, Goroutines
<1>3. OneConductor'
  BY <1>2, SlotsAssumption DEF OneConductor, Conducts
<1>4. \A t \in Slots \ {s} : KnowsItsTurn(t)'
  BY <1>2 DEF KnowsItsTurn, Chain, At, Placing, Revealing, Advancing
<1> QED BY <1>3, <1>4 DEF TimerRuns, ChainKnows

\* A message that leaves a callback, when nobody conducts.
LEMMA ChainStarts ==
  ASSUME TypeOK, NEW i \in Players, NEW s \in Slots, NEW job, Spawn(i, s, job),
         \A t \in Slots : ~Conducts(t),
         timer' = timer,
         phase' # "finished" => KnowsItsTurn(s)'
  PROVE  OneConductor' /\ TimerRuns' /\ ChainKnows'
<1>1. timer = NoTimer /\ \A t \in Slots : go[t].pc \notin Chain
  BY DEF Conducts, TypeOK
<1>2. \A t \in Slots \ {s} : go'[t].pc \notin Chain
  <2>1. \A h \in Goroutines \ {i, s} : go'[h] = go[h]
    BY SpawnEffect DEF TypeOK
  <2> QED BY <1>1, <2>1, SlotsAssumption DEF Goroutines
<1>3. OneConductor'
  BY <1>1, <1>2, SlotsAssumption DEF OneConductor, Conducts
<1>4. \A t \in Slots \ {s} : KnowsItsTurn(t)'
  BY <1>2 DEF KnowsItsTurn, Chain, At, Placing, Revealing, Advancing
<1>5. timer' = NoTimer
  BY <1>1
<1> QED BY <1>3, <1>4, <1>5 DEF TimerRuns, ChainKnows

\* A step that leaves the callbacks of the turn and what they know as they are.
LEMMA ChainKept ==
  ASSUME TypeOK, TurnInd, timer' \in {timer, NoTimer},
         phase' \in {phase, "finished"},
         UNCHANGED <<confirmPending, addTokenPending, tokens, currentTurn,
                     playerTokens>>,
         selected' = selected \/ ~confirmPending,
         \A s \in Slots :
           \/ /\ go'[s].pc = go[s].pc
              /\ go'[s].who = go[s].who /\ go'[s].why = go[s].why
           \/ go'[s].pc \notin Chain
  PROVE  OneConductor' /\ ChainKnows'
<1>1. OneConductor'
  BY SlotsAssumption DEF TurnInd, Conduct, OneConductor, Conducts
<1>2. ASSUME phase' # "finished", NEW s \in Slots PROVE KnowsItsTurn(s)'
  <2>1. phase' = phase /\ KnowsItsTurn(s)
    BY <1>2 DEF TurnInd, Conduct, ChainKnows
  <2>2. CASE go'[s].pc \notin Chain
    BY <2>2 DEF KnowsItsTurn, Chain, At, Placing, Revealing, Advancing
  <2>3. CASE go'[s].pc = go[s].pc /\ go'[s].who = go[s].who /\ go'[s].why = go[s].why
    <3>1. go[s].pc \in Revealing => selected' = selected
      BY <2>1 DEF KnowsItsTurn
    <3> QED BY <2>1, <2>3, <3>1
         DEF KnowsItsTurn, SelectionMatches, At, Revealing
  <2> QED BY <2>2, <2>3
<1>3. phase' # "finished" /\ timer' # NoTimer =>
        phase' = "matching" /\ ~confirmPending'
  BY DEF TurnInd, Conduct, ChainKnows
<1> QED BY <1>1, <1>2, <1>3 DEF ChainKnows

\* A step that leaves the flags of the phase as they are.
LEMMA FlagsKept ==
  ASSUME TurnInd, phase' \in {phase, "finished"},
         UNCHANGED <<confirmPending, addTokenPending, tokens, matched>>,
         selected' = selected \/ ~confirmPending,
         phase' # "finished" /\ Closes => Closes'
  PROVE  PhaseFlags'
  BY DEF TurnInd, Conduct, PhaseFlags, Early

\* A step of a live room that does not close it.
LEMMA EndsLive ==
  ASSUME phase' # "finished", listed', reports' = <<>>, ~Closes'
  PROVE  Ends'
  BY DEF Ends, Closes

\* A step that leaves those who close the room and their report as they are.
LEMMA EndsKept ==
  ASSUME TurnInd,
         UNCHANGED <<phase, currentTurn, playerTokens, listed, reports>>,
         \A g \in Goroutines :
           \/ /\ go'[g].pc = go[g].pc
              /\ go'[g].who = go[g].who /\ go'[g].why = go[g].why
           \/ ~Ending(g) /\ go'[g].pc \in {"idle", "ticker"}
  PROVE  Ends' /\ (Closes => Closes')
<1>1. \A g \in Goroutines : Ending(g)' <=> Ending(g)
  BY DEF Ending, EndPCs
<1>2. Closes' <=> Closes
  BY <1>1 DEF Closes
<1>3. \A g \in Goroutines : Busy(g)' => Busy(g)
  BY DEF Busy
<1>4. ASSUME NEW g \in Goroutines, Ending(g)' PROVE ClosesHonestly(g)'
  <2>1. /\ Ending(g) /\ go'[g].pc = go[g].pc
        /\ go'[g].who = go[g].who /\ go'[g].why = go[g].why
    BY <1>1, <1>4
  <2> QED BY <2>1 DEF TurnInd, Conduct, Ends, ClosesHonestly, At, FewerTokens
<1> QED BY <1>2, <1>3, <1>4 DEF TurnInd, Conduct, Ends, FewerTokens

-----------------------------------------------------------------------------
(* The messages of the players.                                            *)

\* A message that leaves no callback.
LEMMA MessageTurn ==
  ASSUME AtomicInd, TurnInd, NEW i \in Players,
         \/ RefuseConfirm(i)
         \/ /\ \A g \in Goroutines : ~Busy(g)
            /\ ConfirmStopTimer(i) \/ \E p \in Plates : HandleSelectPlate(i, p)
  PROVE  Conduct'
<1>1. TypeOK
  BY DEF AtomicInd, PlacementInd
<1>2. PICK job : Become(i, job) /\ job.pc \in {"idle", "confirm"}
  BY JobPCs DEF RefuseConfirm, ConfirmStopTimer, HandleSelectPlate, Jump
<1>3. /\ go'[i] = job
      /\ \A h \in Goroutines \ {i} : go'[h] = go[h]
      /\ \A s \in Slots : go'[s] = go[s]
  BY <1>1, <1>2, BecomeEffect, SlotsAssumption DEF TypeOK, Goroutines
<1>4. Live
  <2>1. CASE RefuseConfirm(i)
    BY <2>1, LiveWork
    DEF RefuseConfirm, At, Busy, Wakes, Ending, EndPCs, Goroutines
  <2>2. CASE ~RefuseConfirm(i)
    BY <2>2, LiveMessage
    DEF ConfirmStopTimer, HandleSelectPlate, Receives
  <2> QED BY <2>1, <2>2
<1>5. /\ UNCHANGED <<phase, confirmPending, addTokenPending, tokens, matched,
                     currentTurn, playerTokens, listed, reports>>
      /\ timer' \in {timer, NoTimer}
      /\ selected' = selected \/ ~confirmPending
  BY DEF RefuseConfirm, ConfirmStopTimer, HandleSelectPlate, SelectPlate,
       gameVars, locks
<1>6. OneConductor' /\ ChainKnows'
  BY <1>1, <1>3, <1>5, ChainKept
<1>7. ~Closes'
  BY <1>2, <1>3, <1>4 DEF Live, Closes, Ending, EndPCs
<1>8. PhaseFlags'
  BY <1>4, <1>5, FlagsKept DEF Live, Closes
<1>9. Ends'
  BY <1>4, <1>5, <1>7, EndsLive DEF Live
<1>10. TimerRuns'
  <2>1. CASE ConfirmStopTimer(i)
    BY <2>1 DEF ConfirmStopTimer, TimerRuns
  <2>2. CASE ~ConfirmStopTimer(i)
    <3>1. go'[i] = Idle /\ timer' = timer
      BY <1>1, <2>2, BecomeEffect
      DEF RefuseConfirm, HandleSelectPlate, TypeOK, Goroutines
    <3>2. Idle.pc = "idle"
      BY JobPCs
    <3>3. timer # NoTimer => timer \in Slots
      BY <1>1 DEF TypeOK
    <3> QED BY <1>3, <3>1, <3>2, <3>3
         DEF TurnInd, Conduct, TimerRuns, At, Goroutines
  <2> QED BY <2>1, <2>2
<1> QED BY <1>6, <1>8, <1>9, <1>10 DEF Conduct

\* The game is started in a room where nothing has happened.
LEMMA StartGameTurn ==
  ASSUME AtomicInd, TurnInd, NEW i \in Players, StartGame(i)
  PROVE  Conduct'
<1>1. TypeOK
  BY DEF AtomicInd, PlacementInd
<1>2. i = 1 /\ At(1, "start")
  BY DEF StartGame, AtomicInd, PlacementInd, StartOnce, Players
<1>3. Live
  BY <1>2, LiveWork DEF At, Busy, Wakes, Ending, EndPCs, Goroutines
<1>4. phase = "waiting" /\ \A s \in Slots : At(s, "idle")
  BY <1>2, <1>3 DEF AtomicInd, PlacementInd, StartOnce, Live
<1>5. /\ go'[i] = Idle /\ Idle.pc = "idle"
      /\ \A h \in Goroutines \ {i} : go'[h] = go[h]
      /\ \A s \in Slots : go'[s] = go[s]
  BY <1>1, BecomeEffect, SlotsAssumption, JobPCs
  DEF StartGame, TypeOK, Goroutines
<1>6. /\ phase' = "placement"
      /\ UNCHANGED <<confirmPending, addTokenPending, matched, timer, listed,
                     reports>>
  BY DEF StartGame, locks
<1>7. timer = NoTimer
  BY <1>4 DEF TurnInd, Conduct, ChainKnows
<1>8. \A s \in Slots : go'[s].pc = "idle"
  BY <1>4, <1>5 DEF At
<1>9. OneConductor' /\ TimerRuns'
  BY <1>6, <1>7, <1>8, SlotsAssumption
  DEF OneConductor, TimerRuns, Conducts, Chain, Placing, Revealing, Advancing
<1>10. ChainKnows'
  BY <1>6, <1>7, <1>8
  DEF ChainKnows, KnowsItsTurn, At, Placing, Revealing, Advancing
<1>11. ~Closes'
  BY <1>3, <1>5 DEF Live, Closes, Ending, EndPCs
<1>12. PhaseFlags'
  BY <1>4, <1>6 DEF TurnInd, Conduct, PhaseFlags, Early
<1>13. Ends'
  BY <1>3, <1>6, <1>11, EndsLive DEF Live
<1> QED BY <1>9, <1>10, <1>12, <1>13 DEF Conduct

\* Whoever leaves closes the room of a game that goes on.
LEMMA LeaveTurn ==
  ASSUME AtomicInd, TurnInd, NEW i \in Players, HandleLeaveRoom(i),
         \A g \in Goroutines : ~Busy(g)
  PROVE  Conduct'
<1>1. TypeOK
  BY DEF AtomicInd, PlacementInd
<1>2. /\ go'[i] = Closer(1 - i, "forfeit")
      /\ \A h \in Goroutines \ {i} : go'[h] = go[h]
      /\ \A s \in Slots : go'[s] = go[s]
  BY <1>1, BecomeEffect, SlotsAssumption DEF HandleLeaveRoom, TypeOK, Goroutines
<1>3. go'[i].pc = "stop" /\ go'[i].who = 1 - i /\ go'[i].why = "forfeit"
  BY <1>2 DEF Closer, Job
<1>4. Live
  BY LiveMessage DEF HandleLeaveRoom, Receives
<1>5. UNCHANGED <<phase, confirmPending, addTokenPending, tokens, matched,
                  selected, currentTurn, playerTokens, timer, listed, reports>>
  BY DEF HandleLeaveRoom, gameVars, locks
<1>6. OneConductor' /\ ChainKnows'
  BY <1>1, <1>2, <1>5, ChainKept
<1>7. PhaseFlags'
  BY <1>4, <1>5, FlagsKept DEF Live, Closes
<1>8. TimerRuns'
  <2>1. timer # NoTimer => timer \in Slots
    BY <1>1 DEF TypeOK
  <2> QED BY <1>2, <1>3, <1>5, <2>1
       DEF TurnInd, Conduct, TimerRuns, At, Goroutines
<1>9. Ends'
  <2>1. ClosesHonestly(i)'
    BY <1>3, <1>4, <1>5 DEF ClosesHonestly, Live, At, Players
  <2>2. \A g \in Goroutines \ {i} : ~Ending(g)'
    BY <1>2, <1>4 DEF Live, Ending
  <2> QED BY <1>3, <1>4, <1>5, <2>1, <2>2
       DEF Ends, Live, Closes, Ending, EndPCs, Goroutines
<1> QED BY <1>6, <1>7, <1>8, <1>9 DEF Conduct

\* Nobody conducts when a player may place,
LEMMA FreeToPlace ==
  ASSUME AtomicInd, TurnInd, phase = "placement", ~placementPending,
         \A g \in Goroutines : ~Busy(g), NEW t \in Slots
  PROVE  ~Conducts(t) /\ At(t, "idle")
<1>1. go[t].pc \in Placing \cup {"idle", "startMatching"}
  BY EarlySlots DEF Early
<1>2. go[t].pc \notin Placing
  BY DEF AtomicInd, PlacementInd, OnePlacer, Pending
<1>3. go[t].pc # "startMatching"
  BY DEF Busy, Wakes, Goroutines
<1>4. timer # t
  BY SlotsAssumption DEF TurnInd, Conduct, ChainKnows
<1> QED BY <1>1, <1>2, <1>3, <1>4
     DEF Conducts, At, Chain, Placing, Revealing, Advancing

\* nor when a player who has stopped the timer may confirm,
LEMMA FreeToConfirm ==
  ASSUME AtomicInd, TurnInd, phase = "matching", ~confirmPending,
         NEW i \in Players, At(i, "confirm"), NEW t \in Slots
  PROVE  ~Conducts(t)
<1>1. KnowsItsTurn(t)
  BY DEF TurnInd, Conduct, ChainKnows
<1>2. go[t].pc \notin Chain \ {"startTimer"}
  BY <1>1 DEF KnowsItsTurn, Chain, At, Placing, Revealing, Advancing
<1>3. go[t].pc # "startTimer"
  BY SlotsAssumption DEF AtomicInd, OneBusy, Busy, At, Wakes, Goroutines
<1>4. timer # t
  BY SlotsAssumption DEF TurnInd, Conduct, TimerRuns
<1> QED BY <1>2, <1>3, <1>4 DEF Conducts

\* nor when a player may add a token.
LEMMA FreeToAdd ==
  ASSUME AtomicInd, TurnInd, phase = "add_token", ~addTokenPending,
         NEW t \in Slots
  PROVE  ~Conducts(t)
<1>1. KnowsItsTurn(t)
  BY DEF TurnInd, Conduct, ChainKnows
<1>2. timer # t
  BY SlotsAssumption DEF TurnInd, Conduct, ChainKnows
<1> QED BY <1>1, <1>2
     DEF KnowsItsTurn, Conducts, Chain, At, Placing, Revealing, Advancing

\* A handler that leaves a callback leaves a live room live.
LEMMA SpawnEnds ==
  ASSUME TypeOK, Live, NEW i \in Players, NEW s \in Slots, NEW job,
         Spawn(i, s, job), job.pc \in Wakes,
         phase' # "finished", UNCHANGED <<listed, reports>>
  PROVE  Ends' /\ ~Closes'
<1>1. /\ go'[i] = Idle /\ go'[s] = job
      /\ \A h \in Goroutines \ {i, s} : go'[h] = go[h]
  BY SpawnEffect DEF TypeOK
<1>2. Idle.pc = "idle"
  BY JobPCs
<1>3. ~Closes'
  BY <1>1, <1>2 DEF Live, Closes, Ending, EndPCs, Wakes
<1> QED BY <1>3, EndsLive DEF Live

\* A plate is placed, and its callback conducts.
LEMMA PlaceTurn ==
  ASSUME AtomicInd, TurnInd, NEW i \in Players, NEW p \in Plates, NEW s \in Slots,
         HandlePlaceToken(i, p, s), \A g \in Goroutines : ~Busy(g)
  PROVE  Conduct'
<1>1. TypeOK
  BY DEF AtomicInd, PlacementInd
<1>2. Live
  BY LiveMessage DEF HandlePlaceToken, Receives
<1>3. /\ phase = "placement" /\ phase' = phase /\ ~placementPending
      /\ UNCHANGED <<confirmPending, addTokenPending, matched, timer, listed,
                     reports>>
  BY DEF HandlePlaceToken, PlaceToken
<1>4. PICK w \in 1..2 : Spawn(i, s, Job("wakePlace", w, Nobody, p, "none"))
  BY DEF HandlePlaceToken
<1>5. go'[s].pc = "wakePlace"
  <2>1. go'[s] = Job("wakePlace", w, Nobody, p, "none")
    BY <1>1, <1>4, SpawnEffect DEF TypeOK
  <2> QED BY <2>1 DEF Job
<1>6. KnowsItsTurn(s)'
  BY <1>3, <1>5 DEF KnowsItsTurn, At, Placing, Revealing, Advancing
<1>7. OneConductor' /\ TimerRuns' /\ ChainKnows'
  BY <1>1, <1>3, <1>4, <1>6, FreeToPlace, ChainStarts
<1>8. Job("wakePlace", w, Nobody, p, "none").pc \in Wakes
  BY DEF Job, Wakes
<1>9. Ends'
  BY <1>1, <1>2, <1>3, <1>4, <1>8, SpawnEnds DEF Live
<1>10. PhaseFlags'
  BY <1>3 DEF TurnInd, Conduct, PhaseFlags, Early
<1> QED BY <1>7, <1>9, <1>10 DEF Conduct

\* A pair is confirmed, and the callback that knows the verdict conducts.
LEMMA ConfirmTurn ==
  ASSUME AtomicInd, TurnInd, NEW i \in Players, NEW s \in Slots,
         HandleConfirmMatch(i, s)
  PROVE  Conduct'
<1>1. TypeOK
  BY DEF AtomicInd, PlacementInd
<1>2. /\ phase = "matching" /\ phase' = phase /\ ~confirmPending
      /\ confirmPending' /\ currentTurn = i /\ At(i, "confirm")
      /\ Cardinality(selected) = 2
      /\ UNCHANGED <<addTokenPending, matched, selected, tokens, currentTurn,
                     timer, listed, reports>>
  BY DEF HandleConfirmMatch, CanConfirm, ConfirmMatch
<1>3. Live
  BY <1>2, LiveWork DEF At, Busy, Wakes, Ending, EndPCs, Goroutines
<1> DEFINE job == IF SelectionMatches THEN Sleeper("wakeHit", 2, Nobody)
                                      ELSE Sleeper("wakeMiss", 2, i)
<1>4. Spawn(i, s, job)
  BY DEF HandleConfirmMatch
<1>5. go'[s] = job
  BY <1>1, <1>4, SpawnEffect DEF TypeOK
<1>6. KnowsItsTurn(s)'
  <2>1. SelectionMatches' <=> SelectionMatches
    BY <1>2 DEF SelectionMatches
  <2>2. CASE SelectionMatches
    <3>1. go'[s].pc = "wakeHit"
      BY <1>5, <2>2 DEF Sleeper, Job
    <3> QED BY <1>2, <2>1, <2>2, <3>1
         DEF KnowsItsTurn, At, Placing, Revealing, Advancing
  <2>3. CASE ~SelectionMatches
    <3>1. go'[s].pc = "wakeMiss" /\ go'[s].who = i
      BY <1>5, <2>3 DEF Sleeper, Job
    <3> QED BY <1>2, <2>1, <2>3, <3>1
         DEF KnowsItsTurn, At, Placing, Revealing, Advancing
  <2> QED BY <2>2, <2>3
<1>7. OneConductor' /\ TimerRuns' /\ ChainKnows'
  <2> HIDE DEF job
  <2>1. \A t \in Slots : ~Conducts(t)
    BY <1>2, FreeToConfirm
  <2> QED BY <1>1, <1>2, <1>4, <1>6, <2>1, ChainStarts
<1>8. job.pc \in Wakes
  BY DEF Sleeper, Job, Wakes
<1>9. Ends'
  <2> HIDE DEF job
  <2> QED BY <1>1, <1>2, <1>3, <1>4, <1>8, SpawnEnds
<1>10. PhaseFlags'
  BY <1>2 DEF TurnInd, Conduct, PhaseFlags, Early
<1> QED BY <1>7, <1>9, <1>10 DEF Conduct

\* A token is added, and the callback of what follows conducts.
LEMMA AddTurn ==
  ASSUME AtomicInd, TurnInd, NEW i \in Players, NEW p \in Plates, NEW s \in Slots,
         HandleAddToken(i, p, s), \A g \in Goroutines : ~Busy(g)
  PROVE  Conduct'
<1>1. TypeOK
  BY DEF AtomicInd, PlacementInd
<1>2. Live
  BY LiveMessage DEF HandleAddToken, Receives
<1>3. /\ phase = "add_token" /\ phase' = phase /\ ~addTokenPending
      /\ addTokenPending' /\ currentTurn = i
      /\ UNCHANGED <<confirmPending, matched, currentTurn, timer, listed,
                     reports>>
  BY DEF HandleAddToken, AddToken
<1>4. PICK w \in 1..2 : Spawn(i, s, AfterAdd(i, w))
  BY DEF HandleAddToken
<1>5. go'[s] = AfterAdd(i, w)
  BY <1>1, <1>4, SpawnEffect DEF TypeOK
<1>6. KnowsItsTurn(s)'
  <2>1. CASE playerTokens'[i] <= 0
    <3>1. go'[s].pc = "wakeWin" /\ go'[s].who = i /\ go'[s].why = "tokens"
      BY <1>5, <2>1 DEF AfterAdd, Job
    <3> QED BY <1>3, <2>1, <3>1
         DEF KnowsItsTurn, At, Placing, Revealing, Advancing
  <2>2. CASE ~(playerTokens'[i] <= 0)
    <3>1. go'[s].pc = "wakeAdvance"
      BY <1>5, <2>2 DEF AfterAdd, Sleeper, Job
    <3> QED BY <1>3, <3>1
         DEF KnowsItsTurn, At, Placing, Revealing, Advancing
  <2> QED BY <2>1, <2>2
<1>7. OneConductor' /\ TimerRuns' /\ ChainKnows'
  BY <1>1, <1>3, <1>4, <1>6, FreeToAdd, ChainStarts
<1>8. AfterAdd(i, w).pc \in Wakes
  BY DEF AfterAdd, Sleeper, Job, Wakes
<1>9. Ends'
  BY <1>1, <1>2, <1>3, <1>4, <1>8, SpawnEnds
<1>10. PhaseFlags'
  BY <1>3 DEF TurnInd, Conduct, PhaseFlags, Early
<1> QED BY <1>7, <1>9, <1>10 DEF Conduct

-----------------------------------------------------------------------------
(* The callbacks.                                                          *)

\* A callback of a live room that does not close it.
LEMMA StepEnds ==
  ASSUME TypeOK, Live, NEW g \in Goroutines, NEW job, Become(g, job),
         job.pc \notin EndPCs,
         phase' # "finished", UNCHANGED <<listed, reports>>
  PROVE  Ends'
<1>1. go'[g] = job /\ \A h \in Goroutines \ {g} : go'[h] = go[h]
  BY BecomeEffect DEF TypeOK
<1>2. ~Closes'
  BY <1>1 DEF Live, Closes, Ending
<1> QED BY <1>2, EndsLive DEF Live

\* A callback of a live room that is about to close it.
LEMMA StopEnds ==
  ASSUME TypeOK, Live, NEW g \in Goroutines, NEW job, Become(g, job),
         job.pc = "stop", ClosesHonestly(g)',
         UNCHANGED <<phase, listed, reports>>
  PROVE  Ends' /\ Closes'
<1>1. go'[g] = job /\ \A h \in Goroutines \ {g} : go'[h] = go[h]
  BY BecomeEffect DEF TypeOK
<1>2. \A h \in Goroutines \ {g} : ~Ending(h)'
  BY <1>1 DEF Live, Ending
<1>3. Closes'
  BY <1>1 DEF Closes, Ending, EndPCs
<1> QED BY <1>2, <1>3 DEF Ends, Live

\* A step of one goroutine that leaves the timer running or stops it.
LEMMA TimerKept ==
  ASSUME TypeOK, TimerRuns, NEW g \in Goroutines, OthersStay(g),
         go'[g].pc # "confirm", timer' \in {timer, NoTimer},
         g = timer => timer' = NoTimer \/ go'[g].pc = "ticker"
  PROVE  TimerRuns'
<1>1. timer # NoTimer => timer \in Goroutines
  BY DEF TypeOK, Goroutines
<1>2. SUFFICES ASSUME timer' # NoTimer PROVE TimerRuns'
  BY DEF TimerRuns
<1>3. timer' = timer /\ timer \in Goroutines /\ timer # NoTimer
  BY <1>1, <1>2
<1>4. go'[timer].pc = "ticker"
  BY <1>2, <1>3 DEF TimerRuns, OthersStay, At
<1>5. \A i \in Players : go'[i].pc # "confirm"
  BY <1>3 DEF TimerRuns, OthersStay, At, Goroutines
<1> QED BY <1>3, <1>4, <1>5 DEF TimerRuns, At

\* A callback that wakes up goes on in a live room, and returns in one that is
\* being closed.
LEMMA WakeTurn ==
  ASSUME AtomicInd, TurnInd, NEW s \in Slots, Wake(s), OneBusy'
  PROVE  Conduct'
<1>0. s \in Goroutines /\ go[s].pc \in Wakes /\ go[s].pc \in Chain
  BY DEF Wake, Wakes, Chain, Goroutines, Placing, Revealing, Advancing
<1>1. TypeOK
  BY DEF AtomicInd, PlacementInd
<1>2. UNCHANGED <<phase, currentTurn, tokens, selected, matched, playerTokens,
                  confirmPending, addTokenPending, timer, listed, reports>>
  BY DEF Wake, gameVars, locks
<1>3. timer = NoTimer
  BY <1>0, <1>1, AloneOnChain DEF TypeOK
<1>4. ASSUME isRoomActive PROVE Conduct'
  <2> DEFINE job == Job(Resume[go[s].pc], 0, go[s].who, go[s].plate, go[s].why)
  <2>1. /\ Become(s, job) /\ job.pc = Resume[go[s].pc]
        /\ job.who = go[s].who /\ job.why = go[s].why
    BY <1>4 DEF Wake, Jump, Job
  <2> HIDE DEF job
  <2>2. go'[s] = job /\ OthersStay(s)
    BY <1>0, <1>1, <2>1, BecomeEffect DEF TypeOK, OthersStay
  <2>3. \/ At(s, "wakePlace")   /\ job.pc = "cover"
        \/ At(s, "wakeHit")     /\ job.pc = "hit"
        \/ At(s, "wakeMiss")    /\ job.pc = "miss"
        \/ At(s, "wakeAdvance") /\ job.pc = "advance"
        \/ At(s, "wakeWin")     /\ job.pc = "stop"
    BY <1>0, <2>1 DEF At, Resume, Wakes
  <2>4. Live
    <3>1. Busy(s)'
      BY <2>2, <2>3 DEF Busy, Wakes
    <3>2. \A h \in Goroutines \ {s} : ~Busy(h)
      BY <1>0, <2>2, <3>1 DEF OneBusy, OthersStay, Busy
    <3>3. \A h \in Goroutines : ~Busy(h)
      BY <1>0, <3>2 DEF Busy
    <3> QED BY <1>4, <3>3, LiveMessage DEF isRoomActive
  <2>5. KnowsItsTurn(s)
    BY <2>4 DEF TurnInd, Conduct, ChainKnows, Live
  <2>6. KnowsItsTurn(s)'
    BY <1>2, <2>1, <2>2, <2>3, <2>5
    DEF KnowsItsTurn, SelectionMatches, At, Placing, Revealing, Advancing
  <2>7. OneConductor' /\ TimerRuns' /\ ChainKnows'
    BY <1>0, <1>1, <1>2, <1>3, <2>2, <2>6, ChainMoves
  <2>8. PhaseFlags'
    BY <1>2, <2>4, FlagsKept DEF Live, Closes
  <2>9. Ends'
    <3>1. CASE job.pc # "stop"
      BY <1>0, <1>1, <1>2, <2>1, <2>3, <2>4, <3>1, StepEnds DEF EndPCs, Live
    <3>2. CASE job.pc = "stop"
      <4>1. At(s, "wakeWin")
        BY <2>3, <3>2
      <4>2. /\ go[s].who = currentTurn /\ go[s].why = "tokens"
            /\ playerTokens[currentTurn] <= 0
        BY <2>5, <4>1 DEF KnowsItsTurn
      <4>3. ClosesHonestly(s)'
        BY <1>2, <2>1, <2>2, <2>4, <3>2, <4>2 DEF ClosesHonestly, At, Live
      <4> QED BY <1>0, <1>1, <1>2, <2>1, <2>4, <3>2, <4>3, StopEnds
    <3> QED BY <3>1, <3>2
  <2> QED BY <2>7, <2>8, <2>9 DEF Conduct
<1>5. ASSUME ~isRoomActive PROVE Conduct'
  <2>1. phase = "finished"
    BY <1>5 DEF isRoomActive, AtomicInd, FinishedAtRest
  <2>2. go'[s].pc = "idle" /\ OthersStay(s)
    BY <1>0, <1>1, <1>5, BecomeEffect, JobPCs DEF Wake, TypeOK, OthersStay
  <2>3. OneConductor' /\ ChainKnows'
    BY <1>1, <1>2, <2>2, ChainKept
    DEF OthersStay, Chain, Placing, Revealing, Advancing, Goroutines
  <2>4. TimerRuns'
    BY <1>2, <1>3 DEF TimerRuns
  <2>5. Ends' /\ (Closes => Closes')
    <3>1. ~Ending(s)
      BY <1>0 DEF Ending, EndPCs, Wakes
    <3> QED BY <1>2, <2>2, <3>1, EndsKept DEF OthersStay
  <2>6. PhaseFlags'
    BY <1>2, <2>5, FlagsKept
  <2> QED BY <2>3, <2>4, <2>5, <2>6 DEF Conduct
<1> QED BY <1>4, <1>5

\* The callbacks of a placement.
LEMMA PlacementTurn ==
  ASSUME AtomicInd, TurnInd, NEW s \in Slots, CoverPlate(s) \/ AdvancePlacement(s)
  PROVE  Conduct'
<1>0. s \in Goroutines /\ go[s].pc \in Chain /\ go[s].pc \in Placing
  BY DEF CoverPlate, AdvancePlacement, At, Chain, Placing, Goroutines
<1>1. TypeOK
  BY DEF AtomicInd, PlacementInd
<1>2. Live
  BY <1>0, LiveWork DEF Busy, Ending, EndPCs, Wakes, Placing,
    CoverPlate, AdvancePlacement, At
<1>3. /\ UNCHANGED <<phase, tokens, selected, matched, confirmPending,
                     addTokenPending, timer, listed, reports>>
  BY DEF CoverPlate, AdvancePlacement, NextPlacementTurn, locks
<1>4. PICK job : Become(s, job) /\ job.pc \in {"idle", "place", "startMatching"}
  BY JobPCs DEF CoverPlate, AdvancePlacement, Jump
<1>5. go'[s] = job /\ OthersStay(s)
  BY <1>0, <1>1, <1>4, BecomeEffect DEF TypeOK, OthersStay
<1>6. phase = "placement"
  BY <1>0, <1>2 DEF TurnInd, Conduct, ChainKnows, Live, KnowsItsTurn
<1>7. KnowsItsTurn(s)'
  BY <1>3, <1>4, <1>5, <1>6
  DEF KnowsItsTurn, At, Placing, Revealing, Advancing
<1>8. timer = NoTimer
  BY <1>0, <1>1, AloneOnChain DEF TypeOK
<1>9. OneConductor' /\ TimerRuns' /\ ChainKnows'
  BY <1>0, <1>1, <1>3, <1>5, <1>7, <1>8, ChainMoves
<1>10. PhaseFlags'
  BY <1>2, <1>3, FlagsKept DEF Live, Closes
<1>11. Ends'
  BY <1>0, <1>1, <1>2, <1>3, <1>4, StepEnds DEF EndPCs, Live
<1> QED BY <1>9, <1>10, <1>11 DEF Conduct

\* The deal, and the first turn.
LEMMA DealTurn ==
  ASSUME AtomicInd, TurnInd, NEW s \in Slots, StartMatchingPhase(s)
  PROVE  Conduct'
<1>0. s \in Goroutines /\ go[s].pc \in Chain /\ At(s, "startMatching")
  BY DEF StartMatchingPhase, At, Chain, Goroutines
<1>1. TypeOK
  BY DEF AtomicInd, PlacementInd
<1>2. Live
  BY <1>0, LiveWork DEF Busy, Ending, EndPCs, Wakes, At
<1>3. /\ phase' = "matching" /\ matched' = {}
      /\ UNCHANGED <<confirmPending, addTokenPending, timer, listed, reports>>
  BY DEF StartMatchingPhase, StartMatching, locks
<1>4. PICK job : Become(s, job) /\ job.pc = "startTimer"
  BY JobPCs DEF StartMatchingPhase, Jump
<1>5. go'[s] = job /\ OthersStay(s)
  BY <1>0, <1>1, <1>4, BecomeEffect DEF TypeOK, OthersStay
<1>6. phase = "placement"
  BY <1>0, <1>2 DEF TurnInd, Conduct, ChainKnows, Live, KnowsItsTurn, At
<1>7. ~confirmPending /\ ~addTokenPending
  BY <1>6 DEF TurnInd, Conduct, PhaseFlags, Early
<1>8. KnowsItsTurn(s)'
  BY <1>3, <1>4, <1>5, <1>7
  DEF KnowsItsTurn, At, Placing, Revealing, Advancing
<1>9. timer = NoTimer
  BY <1>0, <1>1, AloneOnChain DEF TypeOK
<1>10. OneConductor' /\ TimerRuns' /\ ChainKnows'
  BY <1>0, <1>1, <1>3, <1>5, <1>8, <1>9, ChainMoves
<1>11. PhaseFlags'
  BY <1>3, <1>7 DEF PhaseFlags, Early
<1>12. Ends'
  BY <1>0, <1>1, <1>2, <1>3, <1>4, StepEnds DEF EndPCs
<1> QED BY <1>10, <1>11, <1>12 DEF Conduct

\* The timer takes over from the callback that starts it.
LEMMA TimerTurn ==
  ASSUME AtomicInd, TurnInd, NEW s \in Slots, StartTimer(s)
  PROVE  Conduct'
<1>0. s \in Goroutines /\ go[s].pc \in Chain /\ At(s, "startTimer")
  BY DEF StartTimer, At, Chain, Goroutines
<1>1. TypeOK
  BY DEF AtomicInd, PlacementInd
<1>2. Live
  BY <1>0, LiveWork DEF Busy, Ending, EndPCs, Wakes, At
<1>3. /\ timer' = s
      /\ UNCHANGED <<phase, tokens, selected, matched, confirmPending,
                     addTokenPending, listed, reports>>
  BY DEF StartTimer, locks
<1>4. Become(s, Ticker) /\ Ticker.pc = "ticker"
  BY JobPCs DEF StartTimer
<1>5. go'[s] = Ticker /\ OthersStay(s)
  BY <1>0, <1>1, <1>4, BecomeEffect DEF TypeOK, OthersStay
<1>6. phase = "matching" /\ ~confirmPending
  BY <1>0, <1>2 DEF TurnInd, Conduct, ChainKnows, Live, KnowsItsTurn
<1>7. \A t \in Slots \ {s} : go[t].pc \notin Chain
  BY <1>0, <1>1, AloneOnChain DEF TypeOK
<1>8. \A t \in Slots : go'[t].pc \notin Chain
  BY <1>4, <1>5, <1>7
  DEF OthersStay, Goroutines, Chain, Placing, Revealing, Advancing
<1>9. OneConductor'
  BY <1>3, <1>8 DEF OneConductor, Conducts
<1>10. TimerRuns'
  <2>1. \A i \in Players : ~At(i, "confirm")
    BY <1>0, SlotsAssumption DEF AtomicInd, OneBusy, Busy, At, Wakes, Goroutines
  <2> QED BY <1>3, <1>4, <1>5, <2>1, SlotsAssumption
       DEF TimerRuns, At, OthersStay, Goroutines
<1>11. ChainKnows'
  BY <1>3, <1>6, <1>8
  DEF ChainKnows, KnowsItsTurn, Chain, At, Placing, Revealing, Advancing
<1>12. PhaseFlags'
  BY <1>2, <1>3, FlagsKept DEF Live, Closes
<1>13. Ends'
  BY <1>0, <1>1, <1>2, <1>3, <1>4, StepEnds DEF EndPCs, Live
<1> QED BY <1>9, <1>10, <1>11, <1>12, <1>13 DEF Conduct

\* A hit opens the phase in which the token is added.
LEMMA HitTurn ==
  ASSUME AtomicInd, TurnInd, NEW s \in Slots, SetAddTokenPhase(s)
  PROVE  Conduct'
<1>0. s \in Goroutines /\ go[s].pc \in Chain /\ At(s, "hit")
  BY DEF SetAddTokenPhase, At, Chain, Revealing, Goroutines
<1>1. TypeOK
  BY DEF AtomicInd, PlacementInd
<1>2. Live
  BY <1>0, LiveWork DEF Busy, Ending, EndPCs, Wakes, At
<1>3. /\ phase' = "add_token" /\ matched' = selected /\ ~confirmPending'
      /\ UNCHANGED <<tokens, timer, listed, reports>>
  BY DEF SetAddTokenPhase, EnterAddToken
<1>4. Become(s, Idle) /\ Idle.pc = "idle"
  BY JobPCs DEF SetAddTokenPhase
<1>5. go'[s] = Idle /\ OthersStay(s)
  BY <1>0, <1>1, <1>4, BecomeEffect DEF TypeOK, OthersStay
<1>6. phase = "matching" /\ confirmPending /\ SelectionMatches
  BY <1>0, <1>2
  DEF TurnInd, Conduct, ChainKnows, Live, KnowsItsTurn, At, Revealing
<1>7. Cardinality(selected) = 2
  BY <1>6 DEF TurnInd, Conduct, PhaseFlags
<1>8. KnowsItsTurn(s)'
  BY <1>4, <1>5 DEF KnowsItsTurn, At, Placing, Revealing, Advancing
<1>9. timer = NoTimer
  BY <1>0, <1>1, AloneOnChain DEF TypeOK
<1>10. OneConductor' /\ TimerRuns' /\ ChainKnows'
  BY <1>0, <1>1, <1>3, <1>5, <1>8, <1>9, ChainMoves
<1>11. PhaseFlags'
  BY <1>3, <1>6, <1>7 DEF PhaseFlags, Early, SelectionMatches
<1>12. Ends'
  BY <1>0, <1>1, <1>2, <1>3, <1>4, StepEnds DEF EndPCs
<1> QED BY <1>10, <1>11, <1>12 DEF Conduct

\* A miss costs a token, and the turn goes on.
LEMMA MissTurn ==
  ASSUME AtomicInd, TurnInd, NEW s \in Slots, HandleMatchFail(s)
  PROVE  Conduct'
<1>0. s \in Goroutines /\ go[s].pc \in Chain /\ At(s, "miss")
  BY DEF HandleMatchFail, At, Chain, Revealing, Goroutines
<1>1. TypeOK
  BY DEF AtomicInd, PlacementInd
<1>2. Live
  BY <1>0, LiveWork DEF Busy, Ending, EndPCs, Wakes, At
<1>3. UNCHANGED <<phase, tokens, selected, matched, confirmPending,
                  addTokenPending, timer, listed, reports>>
  BY DEF HandleMatchFail, gameVars, locks
<1>4. PICK job : Become(s, job) /\ job.pc = "wakeAdvance"
  BY JobPCs DEF HandleMatchFail
<1>5. go'[s] = job /\ OthersStay(s)
  BY <1>0, <1>1, <1>4, BecomeEffect DEF TypeOK, OthersStay
<1>6. phase = "matching" /\ confirmPending
  BY <1>0, <1>2
  DEF TurnInd, Conduct, ChainKnows, Live, KnowsItsTurn, At, Revealing
<1>7. KnowsItsTurn(s)'
  BY <1>3, <1>4, <1>5, <1>6
  DEF KnowsItsTurn, At, Placing, Revealing, Advancing
<1>8. timer = NoTimer
  BY <1>0, <1>1, AloneOnChain DEF TypeOK
<1>9. OneConductor' /\ TimerRuns' /\ ChainKnows'
  BY <1>0, <1>1, <1>3, <1>5, <1>7, <1>8, ChainMoves
<1>10. PhaseFlags'
  BY <1>2, <1>3, FlagsKept DEF Live, Closes
<1>11. Ends'
  BY <1>0, <1>1, <1>2, <1>3, <1>4, StepEnds DEF EndPCs, Wakes, Live
<1> QED BY <1>9, <1>10, <1>11 DEF Conduct

\* The end of a turn is the next one, or the end of a game without pairs.
LEMMA AdvanceTurn ==
  ASSUME AtomicInd, TurnInd, NEW s \in Slots, AdvanceMatching(s)
  PROVE  Conduct'
<1>0. s \in Goroutines /\ go[s].pc \in Chain /\ At(s, "advance")
  BY DEF AdvanceMatching, At, Chain, Advancing, Goroutines
<1>1. TypeOK
  BY DEF AtomicInd, PlacementInd
<1>2. Live
  BY <1>0, LiveWork DEF Busy, Ending, EndPCs, Wakes, At
<1>3. /\ ~confirmPending' /\ ~addTokenPending'
      /\ UNCHANGED <<timer, listed, reports>>
  BY DEF AdvanceMatching
<1>4. phase \in {"matching", "add_token"}
  BY <1>0, <1>2
  DEF TurnInd, Conduct, ChainKnows, Live, KnowsItsTurn, At, Advancing
<1>5. timer = NoTimer
  BY <1>0, <1>1, AloneOnChain DEF TypeOK
<1>6. ASSUME NextMatchingTurn, Jump(s, "startTimer") PROVE Conduct'
  <2>1. PICK job : Become(s, job) /\ job.pc = "startTimer"
    BY <1>6, JobPCs DEF Jump
  <2>2. go'[s] = job /\ OthersStay(s)
    BY <1>0, <1>1, <2>1, BecomeEffect DEF TypeOK, OthersStay
  <2>3. phase' = "matching" /\ matched' = {}
    BY <1>6 DEF NextMatchingTurn
  <2>4. KnowsItsTurn(s)'
    BY <1>3, <2>1, <2>2, <2>3
    DEF KnowsItsTurn, At, Placing, Revealing, Advancing
  <2>5. OneConductor' /\ TimerRuns' /\ ChainKnows'
    BY <1>0, <1>1, <1>3, <1>5, <2>2, <2>4, ChainMoves
  <2>6. PhaseFlags'
    BY <1>3, <2>3 DEF PhaseFlags, Early
  <2>7. Ends'
    BY <1>0, <1>1, <1>2, <1>3, <2>1, <2>3, StepEnds DEF EndPCs
  <2> QED BY <2>5, <2>6, <2>7 DEF Conduct
<1>7. ASSUME ~HasMatchingPairs, UNCHANGED gameVars,
             Become(s, Closer(Nobody, "no_matches"))
      PROVE  Conduct'
  <2> DEFINE job == Closer(Nobody, "no_matches")
  <2>1. job.pc = "stop" /\ job.why = "no_matches"
    BY DEF Closer, Job
  <2> HIDE DEF job
  <2>2. Become(s, job)
    BY <1>7 DEF job
  <2>3. go'[s] = job /\ OthersStay(s)
    BY <1>0, <1>1, <2>2, BecomeEffect DEF TypeOK, OthersStay
  <2>4. /\ UNCHANGED <<phase, tokens, matched>>
        /\ phase = "add_token"
    BY <1>4, <1>7 DEF gameVars, AtomicInd, PairToMatch
  <2>5. KnowsItsTurn(s)'
    BY <2>1, <2>3 DEF KnowsItsTurn, At, Placing, Revealing, Advancing
  <2>6. OneConductor' /\ TimerRuns' /\ ChainKnows'
    BY <1>0, <1>1, <1>3, <1>5, <2>3, <2>5, ChainMoves
  <2>7. ClosesHonestly(s)'
    BY <1>2, <1>3, <2>1, <2>3, <2>4 DEF ClosesHonestly, At, Live
  <2>8. Ends' /\ Closes'
    BY <1>0, <1>1, <1>2, <1>3, <2>1, <2>2, <2>4, <2>7, StopEnds
  <2>9. PhaseFlags'
    BY <1>3, <2>4, <2>8 DEF TurnInd, Conduct, PhaseFlags, Early
  <2> QED BY <2>6, <2>8, <2>9 DEF Conduct
<1> QED BY <1>6, <1>7 DEF AdvanceMatching

-----------------------------------------------------------------------------
(* The turn timer, the clock and the end of the game.                      *)

\* A step that changes nothing but the clock and who sleeps how long.
LEMMA ClockTurn ==
  ASSUME AtomicInd, TurnInd,
         UNCHANGED <<phase, currentTurn, tokens, selected, matched, playerTokens,
                     confirmPending, addTokenPending, timer, listed, reports>>,
         \A g \in Goroutines :
           \/ /\ go'[g].pc = go[g].pc
              /\ go'[g].who = go[g].who /\ go'[g].why = go[g].why
           \/ At(g, "ticker") /\ go'[g].pc = "ticker"
           \/ At(g, "ticker") /\ go'[g].pc = "idle" /\ timer # g
  PROVE  Conduct'
<1>1. TypeOK
  BY DEF AtomicInd, PlacementInd
<1>2. OneConductor' /\ ChainKnows'
  BY <1>1, ChainKept DEF Goroutines, Chain, Placing, Revealing, Advancing
<1>3. TimerRuns'
  <2>1. timer # NoTimer => timer \in Goroutines
    BY <1>1 DEF TypeOK, Goroutines
  <2> QED BY <2>1 DEF TurnInd, Conduct, TimerRuns, At, Goroutines
<1>4. Ends' /\ (Closes => Closes')
  BY EndsKept DEF At, Ending, EndPCs
<1>5. PhaseFlags'
  BY <1>4, FlagsKept
<1> QED BY <1>2, <1>3, <1>4, <1>5 DEF Conduct

\* The ticks of the timer that do not end the turn, and the end of a timer that
\* was stopped.
LEMMA TickTurn ==
  ASSUME AtomicInd, TurnInd, NEW s \in Slots,
         (TimerTick(s) /\ timeLeft' > 0) \/ TimerDone(s)
  PROVE  Conduct'
<1>1. TypeOK /\ timeLeft \in Int
  BY DEF AtomicInd, PlacementInd, TypeOK, GameTypeOK
<1>2. UNCHANGED <<phase, currentTurn, tokens, selected, matched, playerTokens,
                  confirmPending, addTokenPending, timer, listed, reports>>
  BY DEF TimerTick, TimerDone, gameVars, locks
<1>3. /\ At(s, "ticker")
      /\ \/ Become(s, Ticker)
         \/ Become(s, Idle) /\ timer # s
  BY <1>1 DEF TimerTick, TimerDone
<1>4. /\ \/ go'[s].pc = "ticker"
         \/ go'[s].pc = "idle" /\ timer # s
      /\ OthersStay(s)
  BY <1>1, <1>3, BecomeEffect, JobPCs DEF TypeOK, OthersStay, Goroutines
<1> QED BY <1>2, <1>3, <1>4, ClockTurn DEF OthersStay

\* A second passes, or nothing happens.
LEMMA SecondTurn ==
  ASSUME AtomicInd, TurnInd, Second \/ UNCHANGED vars
  PROVE  Conduct'
<1>1. UNCHANGED <<phase, currentTurn, tokens, selected, matched, playerTokens,
                  confirmPending, addTokenPending, timer, listed, reports>>
  BY DEF Second, vars, gameVars, locks
<1>2. \A g \in Goroutines :
        /\ go'[g].pc = go[g].pc
        /\ go'[g].who = go[g].who /\ go'[g].why = go[g].why
  BY DEF Second, vars, Job
<1> QED BY <1>1, <1>2, ClockTurn

\* The goroutine that closes the room, alone, takes its next step.
LEMMA EndTurn ==
  ASSUME AtomicInd, TurnInd, NEW g \in Goroutines, EndGame(g)
  PROVE  Conduct'
<1>1. TypeOK
  BY DEF AtomicInd, PlacementInd
<1>2. /\ Ending(g) /\ Busy(g) /\ ClosesHonestly(g) /\ Closes
      /\ \A h \in Goroutines \ {g} : ~Busy(h)
  <2>1. Ending(g)
    BY DEF EndGame, StopTimer, SetFinished, GetWinner, ReportGameEnd,
         RemoveRoom, At, Ending, EndPCs
  <2> QED BY <2>1, EndingBusy
       DEF TurnInd, Conduct, Ends, Closes, AtomicInd, OneBusy
<1>3. listed
  BY <1>2 DEF TurnInd, Conduct, Ends
<1>4. /\ phase' \in {phase, "finished"} /\ timer' \in {timer, NoTimer}
      /\ UNCHANGED <<currentTurn, tokens, selected, matched, playerTokens,
                     confirmPending, addTokenPending>>
  BY DEF EndGame, StopTimer, SetFinished, MarkFinished, GetWinner,
       ReportGameEnd, RemoveRoom, gameVars, locks
<1>5. PICK job : /\ Become(g, job)
                 /\ job.pc \in {"idle", "finish", "winner", "report", "remove"}
  BY JobPCs DEF EndGame, StopTimer, SetFinished, GetWinner, ReportGameEnd,
       RemoveRoom, Jump
<1>6. go'[g] = job /\ OthersStay(g)
  BY <1>1, <1>5, BecomeEffect DEF TypeOK, OthersStay
<1>7. OneConductor' /\ ChainKnows'
  BY <1>1, <1>4, <1>5, <1>6, ChainKept
  DEF OthersStay, Chain, Placing, Revealing, Advancing, Goroutines
<1>8. TimerRuns'
  <2>1. g = timer => timer = NoTimer
    BY <1>2 DEF TurnInd, Conduct, TimerRuns, At, Busy, Wakes
  <2> QED BY <1>1, <1>4, <1>5, <1>6, <2>1, TimerKept DEF TurnInd, Conduct
<1>9. \A h \in Goroutines \ {g} : ~Busy(h)' /\ ~Ending(h)'
  BY <1>2, <1>6, EndingBusy DEF OthersStay, Busy, Ending
<1>10. ASSUME ~RemoveRoom(g), ClosesHonestly(g)', listed' = listed,
              job.pc # "idle",
              reports' # <<>> =>
                /\ phase' = "finished" /\ Len(reports') = 1
                /\ reports'[1].tokens = playerTokens
                /\ reports'[1].reason = "tokens" =>
                     /\ reports'[1].winner = currentTurn
                     /\ playerTokens[currentTurn] <= 0
                /\ reports'[1].reason = "no_matches" =>
                     reports'[1].winner = FewerTokens
       PROVE  Conduct'
  <2>1. Closes'
    BY <1>5, <1>6, <1>10 DEF Closes, Ending, EndPCs
  <2>2. PhaseFlags'
    BY <1>4, <2>1, FlagsKept
  <2>3. FewerTokens' = FewerTokens
    BY <1>4 DEF FewerTokens
  <2>4. Ends'
    BY <1>3, <1>4, <1>9, <1>10, <2>1, <2>3 DEF Ends
  <2> QED BY <1>7, <1>8, <2>2, <2>4 DEF Conduct
<1>11. CASE StopTimer(g)
  <2>1. /\ At(g, "stop") /\ go'[g].pc = "finish"
        /\ go'[g].who = go[g].who /\ go'[g].why = go[g].why
        /\ UNCHANGED <<phase, listed, reports>>
    BY <1>1, <1>11, BecomeEffect DEF StopTimer, Jump, Job, TypeOK, gameVars
  <2>2. ClosesHonestly(g)' /\ reports' = <<>>
    BY <1>2, <1>4, <2>1 DEF ClosesHonestly, At
  <2> QED BY <1>6, <1>10, <1>11, <2>1, <2>2 DEF StopTimer, RemoveRoom, At
<1>12. CASE SetFinished(g)
  <2>1. /\ At(g, "finish") /\ phase' = "finished"
        /\ go'[g].pc = (IF go[g].why = "no_matches" THEN "winner" ELSE "report")
        /\ go'[g].who = go[g].who /\ go'[g].why = go[g].why
        /\ UNCHANGED <<listed, reports>>
    BY <1>1, <1>12, BecomeEffect
    DEF SetFinished, MarkFinished, Jump, Job, TypeOK
  <2>2. ClosesHonestly(g)' /\ reports' = <<>>
    BY <1>2, <1>4, <2>1 DEF ClosesHonestly, At
  <2> QED BY <1>6, <1>10, <1>12, <2>1, <2>2 DEF SetFinished, RemoveRoom, At
<1>13. CASE GetWinner(g)
  <2>1. /\ At(g, "winner") /\ go'[g].pc = "report"
        /\ go'[g].who = FewerTokens /\ go'[g].why = "no_matches"
        /\ UNCHANGED <<phase, listed, reports>>
    BY <1>1, <1>13, BecomeEffect DEF GetWinner, Job, TypeOK, gameVars
  <2>2. FewerTokens' = FewerTokens
    BY <1>4 DEF FewerTokens
  <2>3. ClosesHonestly(g)' /\ reports' = <<>>
    BY <1>2, <1>4, <2>1, <2>2 DEF ClosesHonestly, At
  <2> QED BY <1>6, <1>10, <1>13, <2>1, <2>3 DEF GetWinner, RemoveRoom, At
<1>14. CASE ReportGameEnd(g)
  <2> DEFINE r == [winner |-> go[g].who, reason |-> go[g].why,
                   tokens |-> playerTokens]
  <2>1. /\ At(g, "report") /\ go'[g].pc = "remove"
        /\ go'[g].who = go[g].who /\ go'[g].why = go[g].why
        /\ reports' = Append(reports, r)
        /\ UNCHANGED <<phase, listed>>
    BY <1>1, <1>14, BecomeEffect DEF ReportGameEnd, Jump, Job, TypeOK, gameVars
  <2>2. reports = <<>>
    BY <1>2, <2>1 DEF ClosesHonestly, At
  <2>3. reports' = <<r>>
    BY <2>1, <2>2
  <2>4. reports' # <<>> /\ Len(reports') = 1 /\ reports'[1] = r
    BY <2>3
  <2>5. phase = "finished"
    BY <2>1 DEF AtomicInd, FinishedAtRest, Finishing, At
  <2>6. FewerTokens' = FewerTokens
    BY <1>4 DEF FewerTokens
  <2>7. ClosesHonestly(g)'
    BY <1>2, <1>4, <2>1, <2>4, <2>5, <2>6 DEF ClosesHonestly, At
  <2>8. /\ r.tokens = playerTokens
        /\ r.reason = "tokens" =>
             r.winner = currentTurn /\ playerTokens[currentTurn] <= 0
        /\ r.reason = "no_matches" => r.winner = FewerTokens
    BY <1>2, <2>1 DEF ClosesHonestly, At
  <2>9. ~RemoveRoom(g) /\ job.pc # "idle"
    BY <1>6, <2>1 DEF RemoveRoom, At
  <2> HIDE DEF r
  <2> QED BY <1>10, <2>1, <2>4, <2>5, <2>7, <2>8, <2>9
<1>15. CASE RemoveRoom(g)
  <2>1. At(g, "remove") /\ ~listed' /\ UNCHANGED <<phase, reports>>
    BY <1>15 DEF RemoveRoom, gameVars
  <2>2. go'[g].pc = "idle"
    BY <1>1, <1>15, BecomeEffect, JobPCs DEF RemoveRoom, TypeOK
  <2>3. phase = "finished" /\ reports # <<>>
    BY <1>2, <2>1
    DEF AtomicInd, FinishedAtRest, Finishing, At, ClosesHonestly
  <2>4. \A h \in Goroutines : ~Busy(h)' /\ ~Ending(h)'
    BY <1>9, <2>2 DEF Busy, Ending, EndPCs
  <2>5. FewerTokens' = FewerTokens
    BY <1>4 DEF FewerTokens
  <2>6. Ends'
    BY <1>4, <2>1, <2>3, <2>4, <2>5 DEF TurnInd, Conduct, Ends
  <2>7. PhaseFlags'
    BY <1>4, <2>1, <2>3, FlagsKept
  <2> QED BY <1>7, <1>8, <2>6, <2>7 DEF Conduct
<1> QED BY <1>11, <1>12, <1>13, <1>14, <1>15 DEF EndGame

-----------------------------------------------------------------------------
(* The invariant holds throughout.                                         *)

\* Players in time never meet the end of the timer.
LEMMA InTimeStep ==
  AtomicInd /\ TurnInd /\ [InTimeNext]_vars => InTime'
<1> SUFFICES ASSUME AtomicInd, TurnInd, [InTimeNext]_vars PROVE InTime'
  OBVIOUS
<1> DEFINE Late == {"expired", "timeout", "turn", "penalty"}
<1>1. TypeOK
  BY DEF AtomicInd, PlacementInd
<1>2. timeLeft > 0 /\ \A s \in Slots : go[s].pc \notin Late
  BY DEF TurnInd, InTime
<1>3. TurnLimit > 0
  BY LimitAssumption
<1>4. \A g \in Goroutines : \A job : Become(g, job) =>
        go'[g] = job /\ \A h \in Goroutines \ {g} : go'[h] = go[h]
  BY <1>1, BecomeEffect DEF TypeOK
<1>5. ASSUME NEW g \in Goroutines, NEW job, Become(g, job), job.pc \notin Late
      PROVE  \A s \in Slots : go'[s].pc \notin Late
  BY <1>2, <1>4, <1>5 DEF Goroutines
<1>6. CASE UNCHANGED vars
  BY <1>2, <1>6 DEF vars, gameVars, InTime
<1>7. ASSUME NEW i \in Players, NEW s \in Slots,
             \/ HandleConfirmMatch(i, s)
             \/ \E p \in Plates : HandlePlaceToken(i, p, s) \/ HandleAddToken(i, p, s)
      PROVE  \A t \in Slots : go'[t].pc \notin Late
  <2>1. /\ ~Busy(i)' /\ ~Busy(s)'
        /\ \A h \in Goroutines \ {i, s} : go'[h] = go[h]
    BY <1>1, <1>7, SpawnsSleep
  <2> QED BY <1>2, <2>1 DEF Busy, Wakes, Goroutines
<1>8. CASE RunOn
  <2>1. CASE \E i \in Players : StartGame(i) \/ RefuseConfirm(i)
    BY <1>2, <1>5, <2>1, JobPCs
    DEF StartGame, RefuseConfirm, gameVars, InTime, Goroutines
  <2>2. CASE \E i \in Players, s \in Slots : HandleConfirmMatch(i, s)
    <3>1. timeLeft' = timeLeft
      BY <2>2 DEF HandleConfirmMatch, ConfirmMatch
    <3> QED BY <1>2, <1>7, <2>2, <3>1 DEF InTime
  <2>3. ASSUME NEW s \in Slots, CallbackBody(s) PROVE InTime'
    <3>1. timeLeft' \in {timeLeft, TurnLimit}
      BY <2>3 DEF CallbackBody, CoverPlate, AdvancePlacement, NextPlacementTurn,
           StartMatchingPhase, StartMatching, StartTimer, SetAddTokenPhase,
           EnterAddToken, HandleMatchFail, AdvanceMatching, NextMatchingTurn,
           gameVars
    <3>2. PICK job : Become(s, job) /\ job.pc \notin Late
      <4>1. CASE CoverPlate(s) \/ AdvancePlacement(s) \/ StartMatchingPhase(s)
        BY <4>1, JobPCs DEF CoverPlate, AdvancePlacement, StartMatchingPhase, Jump
      <4>2. CASE StartTimer(s) \/ SetAddTokenPhase(s) \/ HandleMatchFail(s)
        BY <4>2, JobPCs DEF StartTimer, SetAddTokenPhase, HandleMatchFail
      <4>3. CASE AdvanceMatching(s)
        BY <4>3, JobPCs DEF AdvanceMatching, Jump
      <4> QED BY <2>3, <4>1, <4>2, <4>3 DEF CallbackBody
    <3>3. \A t \in Slots : go'[t].pc \notin Late
      BY <1>5, <3>2 DEF Goroutines
    <3> QED BY <1>2, <1>3, <3>1, <3>3 DEF InTime
  <2>4. CASE \E s \in Slots : TimerDone(s)
    BY <1>2, <1>5, <2>4, JobPCs DEF TimerDone, gameVars, InTime, Goroutines
  <2>5. ~\E s \in Slots : TimeoutBody(s)
    BY <1>2 DEF TimeoutBody, TimerExpired, TimeoutCheck, GetCurrentTurn,
         HandleTimeout, At
  <2>6. ASSUME NEW g \in Goroutines, EndGame(g) PROVE InTime'
    <3>1. timeLeft' = timeLeft
      BY <2>6 DEF EndGame, StopTimer, SetFinished, MarkFinished, GetWinner,
           ReportGameEnd, RemoveRoom, gameVars
    <3>2. PICK job : Become(g, job) /\ job.pc \notin Late
      BY <2>6, JobPCs DEF EndGame, StopTimer, SetFinished, GetWinner,
           ReportGameEnd, RemoveRoom, Jump
    <3> QED BY <1>2, <1>5, <3>1, <3>2 DEF InTime
  <2> QED BY <1>8, <2>1, <2>2, <2>3, <2>4, <2>5, <2>6 DEF RunOn, Handler
<1>9. CASE TakeUp /\ timeLeft' > 0
  <2>1. ASSUME NEW s \in Slots, Wake(s) PROVE InTime'
    <3>1. PICK job : Become(s, job) /\ job.pc \notin Late
      BY <2>1, JobPCs DEF Wake, Jump, Resume, Wakes
    <3> QED BY <1>5, <1>9, <3>1 DEF InTime, Goroutines
  <2>2. ASSUME NEW s \in Slots, TimerTick(s) PROVE InTime'
    <3>1. timeLeft \in Int
      BY <1>1 DEF TypeOK, GameTypeOK
    <3>2. Become(s, Ticker) /\ Ticker.pc = "ticker"
      BY <1>9, <2>2, <3>1, JobPCs DEF TimerTick
    <3> QED BY <1>5, <1>9, <3>2 DEF InTime, Goroutines
  <2>3. ASSUME NEW i \in Players, Message(i) PROVE InTime'
    <3>1. CASE \E p \in Plates, s \in Slots :
                 HandlePlaceToken(i, p, s) \/ HandleAddToken(i, p, s)
      BY <1>7, <1>9, <3>1 DEF InTime
    <3>2. CASE \/ \E p \in Plates : HandleSelectPlate(i, p)
               \/ ConfirmStopTimer(i) \/ HandleLeaveRoom(i)
      <4>1. PICK job : Become(i, job) /\ job.pc \notin Late
        BY <3>2, JobPCs
        DEF HandleSelectPlate, ConfirmStopTimer, HandleLeaveRoom, Jump
      <4> QED BY <1>5, <1>9, <4>1 DEF InTime, Goroutines
    <3> QED BY <2>3, <3>1, <3>2 DEF Message
  <2>4. ASSUME Second PROVE InTime'
    <3>1. \A s \in Slots : go'[s].pc = go[s].pc
      BY <2>4 DEF Second, Job, Goroutines
    <3> QED BY <1>2, <1>9, <3>1 DEF InTime
  <2> QED BY <1>9, <2>1, <2>2, <2>3, <2>4 DEF TakeUp, Arrive
<1> QED BY <1>6, <1>8, <1>9 DEF InTimeNext

\* The first state has one goroutine, about to start the game.
LEMMA TurnInit == Init => TurnInd
<1> SUFFICES ASSUME Init PROVE TurnInd
  OBVIOUS
<1>1. \A g \in Goroutines :
        go[g].pc = (IF g = 1 THEN "start" ELSE "idle")
  BY JobPCs DEF Init
<1>2. /\ \A s \in Slots : go[s].pc = "idle"
      /\ \A i \in Players : go[i].pc \in {"idle", "start"}
  BY <1>1, SlotsAssumption DEF Goroutines, Players
<1>3. /\ phase = "waiting" /\ timeLeft = TurnLimit /\ timer = NoTimer
      /\ matched = {} /\ ~confirmPending /\ ~addTokenPending
      /\ listed /\ reports = <<>>
  BY DEF Init, NewGameState
<1>4. InTime
  BY <1>2, <1>3, LimitAssumption DEF InTime
<1>5. OneConductor /\ TimerRuns /\ ChainKnows
  BY <1>2, <1>3, SlotsAssumption
  DEF OneConductor, TimerRuns, ChainKnows, Conducts, KnowsItsTurn, Chain, At,
      Placing, Revealing, Advancing
<1>6. PhaseFlags
  BY <1>3 DEF PhaseFlags, Early
<1>7. Ends
  BY <1>1, <1>3 DEF Ends, Ending, EndPCs, Closes
<1> QED BY <1>4, <1>5, <1>6, <1>7 DEF TurnInd, Conduct

\* Every step of a room with atomic handlers and players in time keeps it.
LEMMA TurnStep ==
  AtomicInd /\ TurnInd /\ [InTimeNext]_vars => TurnInd'
<1> SUFFICES ASSUME AtomicInd, TurnInd, [InTimeNext]_vars PROVE Conduct'
  BY InTimeStep DEF TurnInd
<1>1. CASE UNCHANGED vars
  BY <1>1, SecondTurn
<1>2. CASE RunOn
  <2>1. CASE \E i \in Players : Handler(i)
    BY <2>1, StartGameTurn, MessageTurn, ConfirmTurn DEF Handler
  <2>2. CASE \E s \in Slots : CallbackBody(s)
    BY <2>2, PlacementTurn, DealTurn, TimerTurn, HitTurn, MissTurn, AdvanceTurn
    DEF CallbackBody
  <2>3. CASE \E s \in Slots : TimerDone(s)
    BY <2>3, TickTurn
  <2>4. ~\E s \in Slots : TimeoutBody(s)
    BY DEF TurnInd, InTime, TimeoutBody, TimerExpired, TimeoutCheck,
         GetCurrentTurn, HandleTimeout, At
  <2>5. CASE \E g \in Goroutines : EndGame(g)
    BY <2>5, EndTurn
  <2> QED BY <1>2, <2>1, <2>2, <2>3, <2>4, <2>5 DEF RunOn
<1>3. CASE TakeUp /\ timeLeft' > 0
  <2>1. CASE (\E s \in Slots : Wake(s) \/ TimerTick(s)) /\ OneBusy'
    BY <1>3, <2>1, WakeTurn, TickTurn
  <2>2. CASE (\A g \in Goroutines : ~Busy(g)) /\ Arrive
    BY <2>2, MessageTurn, LeaveTurn, PlaceTurn, AddTurn DEF Arrive, Message
  <2>3. CASE Second
    BY <2>3, SecondTurn
  <2> QED BY <1>3, <2>1, <2>2, <2>3 DEF TakeUp
<1> QED BY <1>1, <1>2, <1>3 DEF InTimeNext

\* A room with atomic handlers and players in time is one with atomic handlers.
LEMMA InTimeIsAtomic == [InTimeNext]_vars => [AtomicNext]_vars
  BY DEF InTimeNext, AtomicNext

-----------------------------------------------------------------------------
(* The rules of the game, and what they keep.                              *)

\* Rules, with what RulesProofs proves of them.
RP == INSTANCE RulesProofs WITH
  stage <- phase,
  turn  <- currentTurn,
  round <- placementRound,
  plate <- tokens,
  purse <- playerTokens,
  pair  <- Pair,
  move  <- Move,
  heir  <- Heir

\* The instances count as this module does.
LEMMA SameSets ==
  /\ \A S : RP!IsFiniteSet(S) <=> IsFiniteSet(S)
  /\ \A S : RP!Cardinality(S) = Cardinality(S)
  /\ \A S : Rules!Cardinality(S) = Cardinality(S)
<1>1. \A S : RP!IsFiniteSet(S) <=> IsFiniteSet(S)
  BY Zenon DEF RP!IsFiniteSet, IsFiniteSet
<1>2. \A S : RP!Cardinality(S) = Cardinality(S)
  BY Zenon DEF RP!Cardinality, Cardinality
<1>3. \A S : Rules!Cardinality(S) = Cardinality(S)
  BY Zenon DEF Rules!Cardinality, Cardinality
<1> QED BY <1>1, <1>2, <1>3

\* The plates of a room are plates to the rules.
LEMMA RulesApply == RP!RulesAssumption
  BY PlatesAssumption, LimitAssumption, SameSets

LEMMA SameNumbers ==
  /\ RP!Rounds = MaxRound /\ Rules!Rounds = MaxRound
  /\ RP!Endowment = Rules!Endowment
<1>1. RP!Rounds = MaxRound /\ Rules!Rounds = MaxRound
  BY SameSets DEF RP!Rounds, Rules!Rounds, MaxRound
<1> QED BY <1>1 DEF RP!Endowment, Rules!Endowment

\* Both instances allow the same steps.
LEMMA SameRules ==
  /\ RP!RulesInit <=> Rules!RulesInit
  /\ [RP!RulesNext]_RP!rulesVars <=> [Rules!RulesNext]_Rules!rulesVars
<1>1. RP!RulesInit <=> Rules!RulesInit
  BY DEF RP!RulesInit, Rules!RulesInit, RP!Undecided, Rules!Undecided
<1>2. [RP!RulesNext]_RP!rulesVars <=> [Rules!RulesNext]_Rules!rulesVars
  BY SameNumbers
  DEF RP!RulesNext, Rules!RulesNext, RP!Turn, Rules!Turn,
      RP!Outcome, Rules!Outcome, RP!Forfeit, Rules!Forfeit,
      RP!Close, Rules!Close, RP!Start, Rules!Start, RP!Deal, Rules!Deal,
      RP!rulesVars, Rules!rulesVars, RP!Place, Rules!Place, RP!Add, Rules!Add,
      RP!Show, Rules!Show, RP!NextPlacer, Rules!NextPlacer, RP!Hit, Rules!Hit,
      RP!Miss, Rules!Miss, RP!NextTurn, Rules!NextTurn,
      RP!NoMatches, Rules!NoMatches, RP!Tokens, Rules!Tokens,
      RP!Finish, Rules!Finish, RP!PairLeft, Rules!PairLeft,
      RP!Richer, Rules!Richer, RP!Draw, Rules!Draw
<1> QED BY <1>1, <1>2

\* What the rules keep is kept of what they see of a room.
LEMMA RulesKept ==
  /\ RP!RulesInit => RP!RulesInd
  /\ RP!RulesInd /\ [RP!RulesNext]_RP!rulesVars => RP!RulesInd'
<1>1. RP!RulesInit => RP!RulesInd
  BY RulesApply, RP!RulesInitInd
<1>2. RP!RulesInd /\ [RP!RulesNext]_RP!rulesVars => RP!RulesInd'
  BY RulesApply, RP!RulesStep
<1> QED BY <1>1, <1>2

-----------------------------------------------------------------------------
(* What the rules see of a room: the move of the turn and the winner.      *)

\* The move a callback stands for.
MoveOf(pc) ==
  IF pc \in Placing THEN "placed"
  ELSE IF pc \in {"wakeHit", "hit"} THEN "hit"
  ELSE IF pc \in {"wakeMiss", "miss"} THEN "miss"
  ELSE IF pc = "wakeWin" THEN "won"
  ELSE IF pc \in Advancing THEN "pass"
  ELSE "none"

\* In a live room the move is that of whoever conducts.
LiveView ==
  Live => /\ Heir = 2
          /\ Move # "over"
          /\ (\A t \in Slots : go[t].pc \notin Chain) => Move = "none"
          /\ \A s \in Slots :
               (\A t \in Slots \ {s} : go[t].pc \notin Chain) =>
                 Move = MoveOf(go[s].pc)

\* In a room that is being closed it is over, and the winner is known.
OverView ==
  /\ reports # <<>> => Move = "over" /\ Heir = reports[1].winner
  /\ OneBusy /\ reports = <<>> =>
       \A g \in Goroutines : Ending(g) =>
         /\ Move = "over"
         /\ Heir = (IF go[g].why = "no_matches" THEN FewerTokens ELSE go[g].who)

LEMMA Views == LiveView /\ OverView
<1>1. LiveView
  <2>1. SUFFICES ASSUME Live PROVE LiveView
    BY DEF LiveView
  <2>2. reports = <<>> /\ ~\E g \in Goroutines : Ending(g)
    BY <2>1 DEF Live
  <2>3. Heir = 2
    BY <2>2 DEF Heir
  <2>4. Move # "over"
    BY <2>2 DEF Move
  <2>5. (\A t \in Slots : go[t].pc \notin Chain) => Move = "none"
    BY <2>2 DEF Move, Pending, Chain, Placing, Revealing, Advancing
  <2>6. ASSUME NEW s \in Slots, \A t \in Slots \ {s} : go[t].pc \notin Chain
        PROVE  Move = MoveOf(go[s].pc)
    <3>1. \A pcs : pcs \subseteq Chain => (Pending(pcs) <=> go[s].pc \in pcs)
      BY <2>6 DEF Pending
    <3>2. /\ Placing \subseteq Chain /\ {"wakeHit", "hit"} \subseteq Chain
          /\ {"wakeMiss", "miss"} \subseteq Chain /\ {"wakeWin"} \subseteq Chain
          /\ Advancing \subseteq Chain
      BY DEF Chain, Placing, Revealing, Advancing
    <3> QED BY <2>2, <3>1, <3>2 DEF Move, MoveOf
  <2> QED BY <2>3, <2>4, <2>5, <2>6 DEF LiveView
<1>2. reports # <<>> => Move = "over" /\ Heir = reports[1].winner
  BY DEF Move, Heir
<1>3. ASSUME OneBusy, reports = <<>>, NEW g \in Goroutines, Ending(g)
      PROVE  /\ Move = "over"
             /\ Heir = (IF go[g].why = "no_matches" THEN FewerTokens
                                                    ELSE go[g].who)
  <2>1. TheCloser \in Goroutines /\ Ending(TheCloser)
    BY <1>3 DEF TheCloser
  <2>2. TheCloser = g
    BY <1>3, <2>1, EndingBusy DEF OneBusy
  <2> QED BY <1>3, <2>2 DEF Move, Heir
<1> QED BY <1>1, <1>2, <1>3 DEF OverView

\* They hold after a step as well.
LEMMA ViewsAfter == (LiveView /\ OverView)'
  BY Views, PTL

\* A step of the callback that conducts, in a room that stays live.
LEMMA ChainView ==
  ASSUME TypeOK, TurnInd, Live, NEW s \in Slots, go[s].pc \in Chain, NEW job,
         Become(s, job), job.pc \notin EndPCs,
         phase' # "finished", UNCHANGED <<listed, reports>>
  PROVE  /\ Move = MoveOf(go[s].pc) /\ Move' = MoveOf(job.pc)
         /\ Heir' = Heir
<1>1. go'[s] = job /\ \A h \in Goroutines \ {s} : go'[h] = go[h]
  BY BecomeEffect DEF TypeOK, Goroutines
<1>2. \A t \in Slots \ {s} : go[t].pc \notin Chain
  BY AloneOnChain DEF TypeOK
<1>3. \A t \in Slots \ {s} : go'[t].pc \notin Chain
  BY <1>1, <1>2 DEF Goroutines
<1>4. Live'
  BY <1>1 DEF Live, Ending
<1>5. Move = MoveOf(go[s].pc) /\ Heir = 2
  BY <1>2, Views DEF LiveView
<1>6. Move' = MoveOf(go'[s].pc) /\ Heir' = 2
  BY <1>3, <1>4, ViewsAfter DEF LiveView
<1> QED BY <1>1, <1>5, <1>6

\* A message that leaves a callback when nobody conducts.
LEMMA SpawnView ==
  ASSUME TypeOK, Live, NEW i \in Players, NEW s \in Slots, NEW job,
         Spawn(i, s, job), job.pc \in Wakes,
         \A t \in Slots : ~Conducts(t),
         phase' # "finished", UNCHANGED <<listed, reports>>
  PROVE  /\ Move = "none" /\ Move' = MoveOf(job.pc)
         /\ Heir' = Heir
<1>1. /\ go'[i] = Idle /\ go'[s] = job
      /\ \A h \in Goroutines \ {i, s} : go'[h] = go[h]
  BY SpawnEffect DEF TypeOK
<1>2. \A t \in Slots : go[t].pc \notin Chain
  BY DEF Conducts
<1>3. \A t \in Slots \ {s} : go'[t].pc \notin Chain
  BY <1>1, <1>2, SlotsAssumption DEF Goroutines
<1>4. Live'
  <2>1. Idle.pc = "idle"
    BY JobPCs
  <2>2. \A g \in Goroutines : go'[g].pc \notin EndPCs
    BY <1>1, <2>1 DEF Live, Ending, EndPCs, Wakes
  <2> QED BY <2>2 DEF Live, Ending
<1>5. Move = "none" /\ Heir = 2
  BY <1>2, Views DEF LiveView
<1>6. Move' = MoveOf(go'[s].pc) /\ Heir' = 2
  BY <1>3, <1>4, ViewsAfter DEF LiveView
<1> QED BY <1>1, <1>5, <1>6

\* A step the rules do not see: what moves and who closes stay as they are.
LEMMA SameView ==
  ASSUME AtomicInd, TurnInd, AtomicInd', TurnInd',
         UNCHANGED <<playerTokens, reports>>,
         phase = "finished" \/
           \A s \in Slots : \/ go'[s].pc = go[s].pc
                            \/ MoveOf(go[s].pc) = "none" /\ MoveOf(go'[s].pc) = "none",
         phase' = phase, listed' = listed,
         \A g \in Goroutines :
           /\ Ending(g)' <=> Ending(g)
           /\ Ending(g) => go'[g].who = go[g].who /\ go'[g].why = go[g].why
  PROVE  Move' = Move /\ Heir' = Heir
<1>1. CASE reports # <<>>
  BY <1>1, Views, ViewsAfter DEF OverView
<1>2. CASE reports = <<>> /\ Closes
  <2>1. PICK g \in Goroutines : Ending(g)
    BY <1>2 DEF Closes
  <2>2. OneBusy /\ OneBusy'
    BY DEF AtomicInd
  <2>3. Ending(g)' /\ go'[g].who = go[g].who /\ go'[g].why = go[g].why
    BY <2>1
  <2>4. FewerTokens' = FewerTokens
    BY DEF FewerTokens
  <2> QED BY <1>2, <2>1, <2>2, <2>3, <2>4, Views, ViewsAfter DEF OverView
<1>3. CASE reports = <<>> /\ ~Closes
  <2>1. phase # "finished"
    BY <1>3 DEF TurnInd, Conduct, Ends
  <2>2. \A pcs \in {Placing, {"wakeHit", "hit"}, {"wakeMiss", "miss"},
                    {"wakeWin"}, Advancing} :
          Pending(pcs)' <=> Pending(pcs)
    BY <2>1 DEF Pending, MoveOf, Placing, Advancing
  <2>3. \A g \in Goroutines : ~Ending(g) /\ ~Ending(g)'
    BY <1>3 DEF Closes
  <2> QED BY <1>3, <2>2, <2>3 DEF Move, Heir
<1> QED BY <1>1, <1>2, <1>3

-----------------------------------------------------------------------------
(* Every step of the room is a step of the rules.                          *)

\* What the steps start from, and where they end.
Joint == AtomicInd /\ TurnInd /\ RP!RulesInd

\* A set of two is a pair.
LEMMA PairOf ==
  ASSUME NEW S, IsFiniteSet(S), Cardinality(S) = 2
  PROVE  \E p, q \in S : p # q /\ S = {p, q}
<1>1. PICK p, q \in S : p # q
  BY TwoElements
<1>2. Cardinality(S \ {p}) = 1 /\ IsFiniteSet(S \ {p})
  BY FS_RemoveElement
<1>3. Cardinality((S \ {p}) \ {q}) = 0 /\ IsFiniteSet((S \ {p}) \ {q})
  BY <1>1, <1>2, FS_RemoveElement
<1>4. (S \ {p}) \ {q} = {}
  BY <1>3, FS_EmptySet
<1> QED BY <1>1, <1>4

\* The steps the rules do not see.
LEMMA UnseenStep ==
  ASSUME AtomicInd, TurnInd, AtomicInd', TurnInd',
         \/ UNCHANGED vars \/ Second
         \/ \E s \in Slots : (TimerTick(s) /\ timeLeft' > 0) \/ TimerDone(s)
         \/ \E i \in Players :
              \/ RefuseConfirm(i) \/ ConfirmStopTimer(i)
              \/ \E p \in Plates : HandleSelectPlate(i, p)
         \/ \E s \in Slots : Wake(s) /\ ~isRoomActive
         \/ \E g \in Goroutines : StopTimer(g)
  PROVE  UNCHANGED RP!rulesVars
<1>1. TypeOK /\ timeLeft \in Int
  BY DEF AtomicInd, PlacementInd, TypeOK, GameTypeOK
<1>2. /\ UNCHANGED <<phase, currentTurn, placementRound, tokens, matched,
                     playerTokens, confirmPending, listed, reports>>
      /\ selected' = selected \/ ~confirmPending
  <2>1. CASE UNCHANGED vars \/ Second
    BY <2>1 DEF Second, vars, gameVars, locks
  <2>2. CASE \E s \in Slots : TimerTick(s) \/ TimerDone(s) \/ Wake(s)
    BY <2>2 DEF TimerTick, TimerDone, Wake, gameVars, locks
  <2>3. CASE \E i \in Players :
               \/ RefuseConfirm(i) \/ ConfirmStopTimer(i)
               \/ \E p \in Plates : HandleSelectPlate(i, p)
    BY <2>3 DEF RefuseConfirm, ConfirmStopTimer, HandleSelectPlate,
         SelectPlate, gameVars, locks
  <2>4. CASE \E g \in Goroutines : StopTimer(g)
    BY <2>4 DEF StopTimer, gameVars, locks
  <2> QED BY <2>1, <2>2, <2>3, <2>4
<1>3. Pair' = Pair
  BY <1>2 DEF Pair
<1>4. \A g \in Goroutines : \A job : Become(g, job) =>
        go'[g] = job /\ \A h \in Goroutines \ {g} : go'[h] = go[h]
  BY <1>1, BecomeEffect DEF TypeOK
<1>5. \A pc \in {"ticker", "idle", "expired", "confirm", "stop", "finish"} :
        MoveOf(pc) = "none"
  BY DEF MoveOf, Placing, Advancing
<1>6. Move' = Move /\ Heir' = Heir
  <2>1. CASE UNCHANGED vars \/ Second
    <3>1. \A g \in Goroutines :
            /\ go'[g].pc = go[g].pc
            /\ go'[g].who = go[g].who /\ go'[g].why = go[g].why
      BY <2>1 DEF Second, vars, Job
    <3> QED BY <1>2, <3>1, SameView DEF Ending, Goroutines
  <2>2. CASE \E s \in Slots : (TimerTick(s) /\ timeLeft' > 0) \/ TimerDone(s)
    <3>0. PICK s \in Slots : \E job :
            /\ At(s, "ticker") /\ Become(s, job) /\ job.pc \in {"ticker", "idle"}
      BY <1>1, <2>2, JobPCs DEF TimerTick, TimerDone
    <3>1. PICK job :
            /\ At(s, "ticker") /\ Become(s, job) /\ job.pc \in {"ticker", "idle"}
      BY <3>0
    <3>2. go'[s] = job /\ \A h \in Goroutines \ {s} : go'[h] = go[h]
      BY <1>4, <3>1 DEF Goroutines
    <3>3. \A t \in Slots : \/ go'[t].pc = go[t].pc
                           \/ MoveOf(go[t].pc) = "none" /\ MoveOf(go'[t].pc) = "none"
      BY <1>5, <3>1, <3>2 DEF At, Goroutines
    <3>4. \A g \in Goroutines :
            /\ Ending(g)' <=> Ending(g)
            /\ Ending(g) => go'[g].who = go[g].who /\ go'[g].why = go[g].why
      BY <3>1, <3>2 DEF At, Ending, EndPCs
    <3> QED BY <1>2, <3>3, <3>4, SameView
  <2>3. CASE \E i \in Players :
               \/ RefuseConfirm(i) \/ ConfirmStopTimer(i)
               \/ \E p \in Plates : HandleSelectPlate(i, p)
    <3>0. PICK i \in Players : \E job :
            /\ go[i].pc \in {"idle", "confirm"} /\ Become(i, job)
            /\ job.pc \in {"confirm", "idle"}
      BY <2>3, JobPCs
      DEF RefuseConfirm, ConfirmStopTimer, HandleSelectPlate, Receives, At, Jump
    <3>1. PICK job :
            /\ go[i].pc \in {"idle", "confirm"} /\ Become(i, job)
            /\ job.pc \in {"confirm", "idle"}
      BY <3>0
    <3>2. go'[i] = job /\ \A h \in Goroutines \ {i} : go'[h] = go[h]
      BY <1>4, <3>1 DEF Goroutines
    <3>3. \A t \in Slots : go'[t].pc = go[t].pc
      BY <3>2, SlotsAssumption DEF Goroutines
    <3>4. \A g \in Goroutines :
            /\ Ending(g)' <=> Ending(g)
            /\ Ending(g) => go'[g].who = go[g].who /\ go'[g].why = go[g].why
      BY <3>1, <3>2 DEF Ending, EndPCs
    <3> QED BY <1>2, <3>3, <3>4, SameView
  <2>4. CASE \E s \in Slots : Wake(s) /\ ~isRoomActive
    <3>1. PICK s \in Slots : Wake(s) /\ ~isRoomActive
      BY <2>4
    <3>2. phase = "finished"
      BY <3>1 DEF isRoomActive, AtomicInd, FinishedAtRest
    <3>3. go[s].pc \in Wakes /\ go'[s] = Idle
          /\ \A h \in Goroutines \ {s} : go'[h] = go[h]
      BY <1>4, <3>1 DEF Wake, Goroutines
    <3>4. Idle.pc = "idle"
      BY JobPCs
    <3>5. \A g \in Goroutines :
            /\ Ending(g)' <=> Ending(g)
            /\ Ending(g) => go'[g].who = go[g].who /\ go'[g].why = go[g].why
      BY <3>3, <3>4 DEF Ending, EndPCs, Wakes
    <3> QED BY <1>2, <3>2, <3>5, SameView
  <2>5. CASE \E g \in Goroutines : StopTimer(g)
    <3>1. PICK g \in Goroutines : StopTimer(g)
      BY <2>5
    <3>2. /\ At(g, "stop") /\ go'[g].pc = "finish"
          /\ go'[g].who = go[g].who /\ go'[g].why = go[g].why
          /\ \A h \in Goroutines \ {g} : go'[h] = go[h]
      BY <1>4, <3>1 DEF StopTimer, Jump, Job
    <3>3. \A t \in Slots : \/ go'[t].pc = go[t].pc
                           \/ MoveOf(go[t].pc) = "none" /\ MoveOf(go'[t].pc) = "none"
      BY <1>5, <3>2 DEF At, Goroutines
    <3>4. \A h \in Goroutines :
            /\ Ending(h)' <=> Ending(h)
            /\ Ending(h) => go'[h].who = go[h].who /\ go'[h].why = go[h].why
      BY <3>2 DEF At, Ending, EndPCs
    <3> QED BY <1>2, <3>3, <3>4, SameView
  <2> QED BY <2>1, <2>2, <2>3, <2>4, <2>5
<1> QED BY <1>2, <1>3, <1>6 DEF RP!rulesVars

\* StartGame starts, in a room where nothing has happened.
LEMMA StartRule ==
  ASSUME AtomicInd, TurnInd, AtomicInd', TurnInd', NEW i \in Players, StartGame(i)
  PROVE  RP!Start
<1>1. TypeOK
  BY DEF AtomicInd, PlacementInd
<1>2. i = 1 /\ At(1, "start")
  BY DEF StartGame, AtomicInd, PlacementInd, StartOnce, Players
<1>3. Live
  BY <1>2, LiveWork DEF At, Busy, Wakes, Ending, EndPCs, Goroutines
<1>4. /\ phase = "waiting" /\ currentTurn = 0 /\ placementRound = 1
      /\ \A s \in Slots : At(s, "idle")
  BY <1>2, <1>3 DEF AtomicInd, PlacementInd, StartOnce, Live
<1>5. /\ go'[i].pc = "idle"
      /\ \A h \in Goroutines \ {i} : go'[h] = go[h]
      /\ \A s \in Slots : go'[s] = go[s]
  BY <1>1, BecomeEffect, SlotsAssumption, JobPCs
  DEF StartGame, TypeOK, Goroutines
<1>6. /\ phase' = "placement" /\ currentTurn' = 0 /\ placementRound' = 1
      /\ UNCHANGED <<tokens, selected, matched, playerTokens, confirmPending,
                     listed, reports>>
  BY DEF StartGame, locks
<1>7. Live'
  BY <1>3, <1>5, <1>6 DEF Live, Ending, EndPCs
<1>8. /\ \A s \in Slots : go[s].pc \notin Chain
      /\ \A s \in Slots : go'[s].pc \notin Chain
  BY <1>4, <1>5 DEF At, Chain, Placing, Revealing, Advancing
<1>9. Move = "none" /\ Move' = "none" /\ Heir' = Heir
  BY <1>3, <1>7, <1>8, Views, ViewsAfter DEF LiveView
<1>10. Pair' = Pair
  BY <1>6 DEF Pair
<1> QED BY <1>4, <1>6, <1>9, <1>10 DEF RP!Start

\* A plate is placed in a round that is still to be played.
LEMMA PlaceRule ==
  ASSUME AtomicInd, TurnInd, NEW i \in Players, NEW p \in Plates, NEW s \in Slots,
         HandlePlaceToken(i, p, s), \A g \in Goroutines : ~Busy(g)
  PROVE  RP!Place(p)
<1>1. TypeOK
  BY DEF AtomicInd, PlacementInd
<1>2. Live
  BY LiveMessage DEF HandlePlaceToken, Receives
<1>3. /\ phase = "placement" /\ phase' = phase /\ ~placementPending
      /\ p \notin hasTokens
      /\ tokens' = [tokens EXCEPT ![p] = placementRound]
      /\ UNCHANGED <<currentTurn, placementRound, playerTokens, selected,
                     matched, confirmPending, listed, reports>>
  BY DEF HandlePlaceToken, PlaceToken
<1>4. PICK w \in 1..2 : Spawn(i, s, Job("wakePlace", w, Nobody, p, "none"))
  BY DEF HandlePlaceToken
<1>5. Job("wakePlace", w, Nobody, p, "none").pc = "wakePlace"
  BY DEF Job
<1>6. \A t \in Slots : ~Conducts(t) /\ At(t, "idle")
  BY <1>3, FreeToPlace
<1>7. Move = "none" /\ Move' = "placed" /\ Heir' = Heir
  <2>1. MoveOf("wakePlace") = "placed" /\ "wakePlace" \in Wakes
    BY DEF MoveOf, Placing, Wakes
  <2> QED BY <1>1, <1>2, <1>3, <1>4, <1>5, <1>6, <2>1, SpawnView
<1>8. placementRound <= MaxRound /\ tokens[p] = 0
  BY <1>3, <1>6 DEF AtomicInd, PlacementGoesOn, Early, At
<1>9. Pair' = Pair
  BY <1>3 DEF Pair
<1> QED BY <1>3, <1>7, <1>8, <1>9, SameNumbers DEF RP!Place

\* The turn of the placement phase that is over gives way to the next, which
\* may be no turn at all.
LEMMA NextPlacerRule ==
  ASSUME AtomicInd, TurnInd, NEW s \in Slots, AdvancePlacement(s)
  PROVE  RP!NextPlacer
<1>0. s \in Goroutines /\ go[s].pc \in Chain /\ At(s, "place")
  BY DEF AdvancePlacement, At, Chain, Placing, Goroutines
<1>1. TypeOK
  BY DEF AtomicInd, PlacementInd
<1>2. Live
  BY <1>0, LiveWork DEF Busy, Ending, EndPCs, Wakes, At
<1>3. /\ currentTurn' = 1 - currentTurn
      /\ placementRound' = placementRound + currentTurn
      /\ UNCHANGED <<phase, tokens, selected, matched, playerTokens,
                     confirmPending, listed, reports>>
  BY DEF AdvancePlacement, NextPlacementTurn
<1>4. PICK job : Become(s, job) /\ job.pc \in {"idle", "startMatching"}
  BY JobPCs DEF AdvancePlacement, Jump
<1>5. phase = "placement"
  BY <1>0, <1>2 DEF TurnInd, Conduct, ChainKnows, Live, KnowsItsTurn, At, Placing
<1>6. Move = "placed" /\ Move' = "none" /\ Heir' = Heir
  <2>1. /\ MoveOf("place") = "placed" /\ MoveOf("idle") = "none"
        /\ MoveOf("startMatching") = "none"
    BY DEF MoveOf, Placing, Advancing
  <2>2. job.pc \notin EndPCs
    BY <1>4 DEF EndPCs
  <2>3. Move = MoveOf(go[s].pc) /\ Move' = MoveOf(job.pc) /\ Heir' = Heir
    BY <1>0, <1>1, <1>2, <1>3, <1>4, <1>5, <2>2, ChainView
  <2> QED BY <1>0, <1>4, <2>1, <2>3 DEF At
<1>7. Pair' = Pair
  BY <1>3 DEF Pair
<1> QED BY <1>3, <1>5, <1>6, <1>7 DEF RP!NextPlacer

\* The deal comes after the last round.
LEMMA DealRule ==
  ASSUME AtomicInd, TurnInd, NEW s \in Slots, StartMatchingPhase(s)
  PROVE  RP!Deal
<1>0. s \in Goroutines /\ go[s].pc \in Chain /\ At(s, "startMatching")
  BY DEF StartMatchingPhase, At, Chain, Goroutines
<1>1. TypeOK
  BY DEF AtomicInd, PlacementInd
<1>2. Live
  BY <1>0, LiveWork DEF Busy, Ending, EndPCs, Wakes, At
<1>3. /\ phase' = "matching" /\ matched' = {} /\ currentTurn' = 0
      /\ playerTokens' = [j \in Players |-> IF MinTokens > MaxRound
                                            THEN MinTokens ELSE MaxRound + 1]
      /\ UNCHANGED <<placementRound, tokens, confirmPending, listed, reports>>
  BY DEF StartMatchingPhase, StartMatching, locks
<1>4. PICK job : Become(s, job) /\ job.pc = "startTimer"
  BY JobPCs DEF StartMatchingPhase, Jump
<1>5. phase = "placement"
  BY <1>0, <1>2 DEF TurnInd, Conduct, ChainKnows, Live, KnowsItsTurn, At
<1>6. Move = "none" /\ Move' = "none" /\ Heir' = Heir
  <2>1. MoveOf("startMatching") = "none" /\ MoveOf("startTimer") = "none"
    BY DEF MoveOf, Placing, Advancing
  <2>2. job.pc \notin EndPCs
    BY <1>4 DEF EndPCs
  <2>3. Move = MoveOf(go[s].pc) /\ Move' = MoveOf(job.pc) /\ Heir' = Heir
    BY <1>0, <1>1, <1>2, <1>3, <1>4, <2>2, ChainView
  <2> QED BY <1>0, <1>4, <2>1, <2>3 DEF At
<1>7. Pair' = Pair
  <2>1. ~confirmPending /\ matched = {}
    BY <1>5 DEF TurnInd, Conduct, PhaseFlags, Early
  <2> QED BY <1>3, <2>1 DEF Pair
<1>8. placementRound = MaxRound + 1 /\ currentTurn = 0
  BY <1>0, <1>5 DEF AtomicInd, PlacementGoesOn, Early
<1>9. MaxRound + 1 > MaxRound
  BY MaxRoundType
<1>10. playerTokens' = [j \in {0, 1} |-> RP!Endowment]
  BY <1>3, SameNumbers DEF Players, RP!Endowment
<1> QED BY <1>3, <1>5, <1>6, <1>7, <1>8, <1>9, <1>10, SameNumbers DEF RP!Deal

\* A confirmed pair is shown.
LEMMA ShowRule ==
  ASSUME AtomicInd, TurnInd, NEW i \in Players, NEW s \in Slots,
         HandleConfirmMatch(i, s)
  PROVE  \E p, q \in Plates : RP!Show(p, q)
<1>1. TypeOK /\ GameTypeOK
  BY DEF AtomicInd, PlacementInd, TypeOK
<1>2. /\ phase = "matching" /\ phase' = phase /\ ~confirmPending
      /\ confirmPending' /\ At(i, "confirm")
      /\ Cardinality(selected) = 2
      /\ UNCHANGED <<currentTurn, placementRound, tokens, selected, playerTokens,
                     listed, reports>>
  BY DEF HandleConfirmMatch, CanConfirm, ConfirmMatch
<1>3. Live
  BY <1>2, LiveWork DEF At, Busy, Wakes, Ending, EndPCs, Goroutines
<1>4. PICK job : /\ Spawn(i, s, job)
                 /\ job.pc = IF SelectionMatches THEN "wakeHit" ELSE "wakeMiss"
  BY JobPCs DEF HandleConfirmMatch
<1>5. /\ Move = "none" /\ Heir' = Heir
      /\ Move' = IF SelectionMatches THEN "hit" ELSE "miss"
  <2>1. /\ MoveOf("wakeHit") = "hit" /\ MoveOf("wakeMiss") = "miss"
        /\ job.pc \in Wakes
    BY <1>4 DEF MoveOf, Placing, Wakes
  <2>2. \A t \in Slots : ~Conducts(t)
    BY <1>2, FreeToConfirm
  <2>3. Move = "none" /\ Move' = MoveOf(job.pc) /\ Heir' = Heir
    BY <1>1, <1>2, <1>3, <1>4, <2>1, <2>2, SpawnView
  <2> QED BY <1>4, <2>1, <2>3
<1>6. IsFiniteSet(selected)
  BY <1>1, PlatesAssumption, FS_Subset DEF GameTypeOK
<1>7. PICK p, q \in selected : p # q /\ selected = {p, q}
  BY <1>2, <1>6, PairOf
<1>8. p \in Plates /\ q \in Plates
  BY <1>1 DEF GameTypeOK
<1>9. SelectionMatches <=> tokens[p] = tokens[q]
  BY <1>7 DEF SelectionMatches
<1>10. Pair' = {p, q}
  BY <1>2, <1>7 DEF Pair
<1>11. RP!Show(p, q)
  BY <1>2, <1>5, <1>7, <1>9, <1>10 DEF RP!Show
<1> QED BY <1>8, <1>11

\* A hit, and a miss.
LEMMA HitRule ==
  ASSUME AtomicInd, TurnInd, NEW s \in Slots, SetAddTokenPhase(s)
  PROVE  RP!Hit
<1>0. s \in Goroutines /\ go[s].pc \in Chain /\ At(s, "hit")
  BY DEF SetAddTokenPhase, At, Chain, Revealing, Goroutines
<1>1. TypeOK
  BY DEF AtomicInd, PlacementInd
<1>2. Live
  BY <1>0, LiveWork DEF Busy, Ending, EndPCs, Wakes, At
<1>3. /\ phase' = "add_token" /\ matched' = selected /\ ~confirmPending'
      /\ UNCHANGED <<currentTurn, placementRound, tokens, playerTokens,
                     listed, reports>>
  BY DEF SetAddTokenPhase, EnterAddToken
<1>4. PICK job : Become(s, job) /\ job.pc = "idle"
  BY JobPCs DEF SetAddTokenPhase
<1>5. confirmPending
  BY <1>0, <1>2
  DEF TurnInd, Conduct, ChainKnows, Live, KnowsItsTurn, At, Revealing
<1>6. Move = "hit" /\ Move' = "none" /\ Heir' = Heir
  <2>1. MoveOf("hit") = "hit" /\ MoveOf("idle") = "none"
    BY DEF MoveOf, Placing, Advancing
  <2>2. job.pc \notin EndPCs
    BY <1>4 DEF EndPCs
  <2>3. Move = MoveOf(go[s].pc) /\ Move' = MoveOf(job.pc) /\ Heir' = Heir
    BY <1>0, <1>1, <1>2, <1>3, <1>4, <2>2, ChainView
  <2> QED BY <1>0, <1>4, <2>1, <2>3 DEF At
<1>7. Pair' = Pair
  BY <1>3, <1>5 DEF Pair
<1> QED BY <1>3, <1>6, <1>7 DEF RP!Hit

LEMMA MissRule ==
  ASSUME AtomicInd, TurnInd, NEW s \in Slots, HandleMatchFail(s)
  PROVE  RP!Miss
<1>0. s \in Goroutines /\ go[s].pc \in Chain /\ At(s, "miss")
  BY DEF HandleMatchFail, At, Chain, Revealing, Goroutines
<1>1. TypeOK
  BY DEF AtomicInd, PlacementInd
<1>2. Live
  BY <1>0, LiveWork DEF Busy, Ending, EndPCs, Wakes, At
<1>3. /\ playerTokens' = [playerTokens EXCEPT ![go[s].who] = @ + 1]
      /\ UNCHANGED <<phase, currentTurn, placementRound, tokens, selected,
                     matched, confirmPending, listed, reports>>
  BY DEF HandleMatchFail, gameVars, locks
<1>4. PICK job : Become(s, job) /\ job.pc = "wakeAdvance"
  BY JobPCs DEF HandleMatchFail
<1>5. go[s].who = currentTurn
  BY <1>0, <1>2 DEF TurnInd, Conduct, ChainKnows, Live, KnowsItsTurn, At
<1>6. Move = "miss" /\ Move' = "pass" /\ Heir' = Heir
  <2>1. MoveOf("miss") = "miss" /\ MoveOf("wakeAdvance") = "pass"
    BY DEF MoveOf, Placing, Advancing
  <2>2. job.pc \notin EndPCs /\ phase' # "finished"
    BY <1>2, <1>3, <1>4 DEF EndPCs, Live
  <2>3. Move = MoveOf(go[s].pc) /\ Move' = MoveOf(job.pc) /\ Heir' = Heir
    BY <1>0, <1>1, <1>2, <1>3, <1>4, <2>2, ChainView
  <2> QED BY <1>0, <1>4, <2>1, <2>3 DEF At
<1>7. Pair' = Pair
  BY <1>3 DEF Pair
<1> QED BY <1>3, <1>5, <1>6, <1>7 DEF RP!Miss

\* A token is added by a player whose purse, as the rules keep it, is not
\* empty, so that the purse is empty afterwards exactly if it held one.
LEMMA AddRule ==
  ASSUME Joint, NEW i \in Players, NEW p \in Plates, NEW s \in Slots,
         HandleAddToken(i, p, s), \A g \in Goroutines : ~Busy(g)
  PROVE  RP!Add(p)
<1>1. TypeOK /\ AtomicInd /\ TurnInd
  BY DEF Joint, AtomicInd, PlacementInd
<1>2. Live
  BY <1>1, LiveMessage DEF HandleAddToken, Receives
<1>3. /\ phase = "add_token" /\ phase' = phase /\ ~addTokenPending
      /\ currentTurn = i /\ p \in matched
      /\ tokens' = [tokens EXCEPT ![p] = @ + 1]
      /\ playerTokens' = [playerTokens EXCEPT ![i] = @ - 1]
      /\ UNCHANGED <<currentTurn, placementRound, selected, matched,
                     confirmPending, listed, reports>>
  BY DEF HandleAddToken, AddToken
<1>4. PICK job : /\ Spawn(i, s, job)
                 /\ job.pc = IF playerTokens'[i] <= 0 THEN "wakeWin"
                                                      ELSE "wakeAdvance"
  BY JobPCs DEF HandleAddToken, AfterAdd
<1>5. /\ Move = "none" /\ Heir' = Heir
      /\ Move' = IF playerTokens'[i] <= 0 THEN "won" ELSE "pass"
  <2>1. /\ MoveOf("wakeWin") = "won" /\ MoveOf("wakeAdvance") = "pass"
        /\ job.pc \in Wakes
    BY <1>4 DEF MoveOf, Placing, Advancing, Wakes
  <2>2. \A t \in Slots : ~Conducts(t)
    BY <1>1, <1>3, FreeToAdd
  <2>3. phase' # "finished"
    BY <1>3
  <2>4. Move = "none" /\ Move' = MoveOf(job.pc) /\ Heir' = Heir
    BY <1>1, <1>2, <1>3, <1>4, <2>1, <2>2, <2>3, SpawnView
  <2> QED BY <1>4, <2>1, <2>4
<1>6. ~confirmPending
  BY <1>1, <1>3 DEF TurnInd, Conduct, PhaseFlags
<1>7. Pair = matched /\ Pair' = Pair
  BY <1>3, <1>6 DEF Pair
<1>8. playerTokens \in [{0, 1} -> Nat] /\ playerTokens[i] # 0
  <2>1. RP!RulesTypeOK /\ RP!EmptyPurseEnds
    BY DEF Joint, RP!RulesInd
  <2> QED BY <1>3, <1>5, <2>1 DEF RP!RulesTypeOK, RP!EmptyPurseEnds, Players
<1>9. playerTokens'[i] <= 0 <=> playerTokens[i] = 1
  <2>1. playerTokens'[i] = playerTokens[i] - 1
    BY <1>3, <1>8 DEF Players
  <2>2. playerTokens[i] \in Nat
    BY <1>8 DEF Players
  <2> QED BY <1>8, <2>1, <2>2
<1> QED BY <1>3, <1>5, <1>7, <1>9 DEF RP!Add

\* The end of a turn is the next turn or, when no pair is left, a result.
LEMMA AdvanceRule ==
  ASSUME AtomicInd, TurnInd, AtomicInd', NEW s \in Slots, AdvanceMatching(s)
  PROVE  RP!NextTurn \/ RP!NoMatches
<1>0. s \in Goroutines /\ go[s].pc \in Chain /\ At(s, "advance")
  BY DEF AdvanceMatching, At, Chain, Advancing, Goroutines
<1>1. TypeOK
  BY DEF AtomicInd, PlacementInd
<1>2. Live
  BY <1>0, LiveWork DEF Busy, Ending, EndPCs, Wakes, At
<1>3. ~confirmPending' /\ UNCHANGED <<playerTokens, listed, reports>>
  BY DEF AdvanceMatching
<1>4. phase \in {"matching", "add_token"}
  BY <1>0, <1>2
  DEF TurnInd, Conduct, ChainKnows, Live, KnowsItsTurn, At, Advancing
<1>5. MoveOf("advance") = "pass" /\ MoveOf("startTimer") = "none"
  BY DEF MoveOf, Placing, Advancing
<1>6. ASSUME HasMatchingPairs, NextMatchingTurn, Jump(s, "startTimer")
      PROVE  RP!NextTurn
  <2>1. PICK job : Become(s, job) /\ job.pc = "startTimer"
    BY <1>6, JobPCs DEF Jump
  <2>2. /\ phase' = "matching" /\ currentTurn' = 1 - currentTurn
        /\ matched' = {} /\ UNCHANGED <<placementRound, tokens>>
    BY <1>6 DEF NextMatchingTurn
  <2>3. job.pc \notin EndPCs /\ phase' # "finished"
    BY <2>1, <2>2 DEF EndPCs
  <2>4. Move = MoveOf(go[s].pc) /\ Move' = MoveOf(job.pc) /\ Heir' = Heir
    BY <1>0, <1>1, <1>2, <1>3, <2>1, <2>3, ChainView
  <2>5. Move = "pass" /\ Move' = "none"
    BY <1>0, <1>5, <2>1, <2>4 DEF At
  <2>6. Pair' = {}
    BY <1>3, <2>2 DEF Pair
  <2> QED BY <1>3, <1>6, <2>2, <2>4, <2>5, <2>6
       DEF RP!NextTurn, RP!PairLeft, HasMatchingPairs
<1>7. ASSUME ~HasMatchingPairs, UNCHANGED gameVars,
             Become(s, Closer(Nobody, "no_matches"))
      PROVE  RP!NoMatches
  <2>1. PICK job : Become(s, job) /\ job.pc = "stop" /\ job.why = "no_matches"
    BY <1>7 DEF Closer, Job
  <2>2. go'[s] = job
    BY <1>0, <1>1, <2>1, BecomeEffect DEF TypeOK
  <2>3. Ending(s)'
    BY <2>1, <2>2 DEF Ending, EndPCs
  <2>4. OneBusy' /\ reports' = <<>>
    BY <1>2, <1>3 DEF AtomicInd, Live
  <2>5. Move' = "over" /\ Heir' = FewerTokens'
    BY <1>0, <2>1, <2>2, <2>3, <2>4, ViewsAfter DEF OverView
  <2>6. FewerTokens' = RP!Richer
    BY <1>3 DEF FewerTokens, RP!Richer, RP!Draw, Nobody
  <2>7. Move = "pass"
    <3>1. \A t \in Slots \ {s} : go[t].pc \notin Chain
      BY <1>0, <1>1, AloneOnChain DEF TypeOK
    <3>2. Move = MoveOf(go[s].pc)
      BY <1>2, <3>1, Views DEF LiveView
    <3> QED BY <1>0, <1>5, <3>2 DEF At
  <2>8. /\ UNCHANGED <<phase, currentTurn, placementRound, tokens, matched>>
        /\ phase = "add_token"
    BY <1>4, <1>7 DEF gameVars, AtomicInd, PairToMatch
  <2>9. Pair' = Pair
    BY <1>3, <2>8 DEF Pair, TurnInd, Conduct, PhaseFlags
  <2> QED BY <1>3, <1>7, <2>5, <2>6, <2>7, <2>8, <2>9
       DEF RP!NoMatches, RP!Close, RP!PairLeft, HasMatchingPairs
<1> QED BY <1>6, <1>7 DEF AdvanceMatching

\* The win of a player with an empty purse; other callbacks only wake up.
LEMMA WakeRule ==
  ASSUME AtomicInd, TurnInd, AtomicInd', NEW s \in Slots, Wake(s), isRoomActive
  PROVE  RP!Tokens \/ UNCHANGED RP!rulesVars
<1>0. s \in Goroutines /\ go[s].pc \in Wakes /\ go[s].pc \in Chain
  BY DEF Wake, Wakes, Chain, Goroutines, Placing, Revealing, Advancing
<1>1. TypeOK
  BY DEF AtomicInd, PlacementInd
<1>2. UNCHANGED <<phase, currentTurn, placementRound, tokens, selected, matched,
                  playerTokens, confirmPending, listed, reports>>
  BY DEF Wake, gameVars, locks
<1>3. PICK job : /\ Become(s, job) /\ job.pc = Resume[go[s].pc]
                 /\ job.who = go[s].who /\ job.why = go[s].why
  BY DEF Wake, Jump, Job
<1>4. \/ At(s, "wakePlace")   /\ job.pc = "cover"
      \/ At(s, "wakeHit")     /\ job.pc = "hit"
      \/ At(s, "wakeMiss")    /\ job.pc = "miss"
      \/ At(s, "wakeAdvance") /\ job.pc = "advance"
      \/ At(s, "wakeWin")     /\ job.pc = "stop"
  BY <1>0, <1>3 DEF At, Resume, Wakes
<1>5. go'[s] = job /\ OthersStay(s)
  BY <1>0, <1>1, <1>3, BecomeEffect DEF TypeOK, OthersStay
<1>6. Live
  <2>1. Busy(s)'
    BY <1>4, <1>5 DEF Busy, Wakes
  <2>2. \A h \in Goroutines \ {s} : ~Busy(h)
    BY <1>0, <1>5, <2>1 DEF AtomicInd, OneBusy, OthersStay, Busy
  <2>3. \A h \in Goroutines : ~Busy(h)
    BY <1>0, <2>2 DEF Busy
  <2> QED BY <2>3, LiveMessage DEF isRoomActive
<1>7. Pair' = Pair
  BY <1>2 DEF Pair
<1>8. CASE ~At(s, "wakeWin")
  <2>1. job.pc \notin EndPCs /\ phase' # "finished"
    BY <1>2, <1>4, <1>6, <1>8 DEF EndPCs, Live
  <2>2. Move = MoveOf(go[s].pc) /\ Move' = MoveOf(job.pc) /\ Heir' = Heir
    BY <1>0, <1>1, <1>2, <1>3, <1>6, <2>1, ChainView
  <2>3. MoveOf(go[s].pc) = MoveOf(job.pc)
    BY <1>4, <1>8 DEF MoveOf, Placing, Advancing, At
  <2> QED BY <1>2, <1>7, <2>2, <2>3 DEF RP!rulesVars
<1>9. CASE At(s, "wakeWin")
  <2>1. job.pc = "stop"
    BY <1>4, <1>9 DEF At
  <2>2. go[s].who = currentTurn /\ go[s].why = "tokens"
    BY <1>6, <1>9 DEF TurnInd, Conduct, ChainKnows, KnowsItsTurn, Live
  <2>3. Ending(s)' /\ OneBusy' /\ reports' = <<>>
    BY <1>2, <1>5, <1>6, <2>1 DEF Ending, EndPCs, AtomicInd, Live
  <2>4. Move' = "over" /\ Heir' = currentTurn
    BY <1>0, <1>3, <1>5, <2>2, <2>3, ViewsAfter DEF OverView
  <2>5. Move = "won"
    <3>1. \A t \in Slots \ {s} : go[t].pc \notin Chain
      BY <1>0, <1>1, AloneOnChain DEF TypeOK
    <3>2. Move = MoveOf(go[s].pc)
      BY <1>6, <3>1, Views DEF LiveView
    <3> QED BY <1>9, <3>2 DEF At, MoveOf, Placing
  <2> QED BY <1>2, <1>7, <2>4, <2>5 DEF RP!Tokens, RP!Close
<1> QED BY <1>8, <1>9

\* A plate is covered, or a timer started: the rules do not see it.
LEMMA CoverRule ==
  ASSUME AtomicInd, TurnInd, NEW s \in Slots, CoverPlate(s) \/ StartTimer(s)
  PROVE  UNCHANGED RP!rulesVars
<1>0. /\ s \in Goroutines /\ go[s].pc \in Chain
      /\ go[s].pc \in {"cover", "startTimer"}
  BY DEF CoverPlate, StartTimer, At, Chain, Placing, Goroutines
<1>1. TypeOK
  BY DEF AtomicInd, PlacementInd
<1>2. Live
  BY <1>0, LiveWork DEF Busy, Ending, EndPCs, Wakes
<1>3. UNCHANGED <<phase, currentTurn, placementRound, tokens, selected, matched,
                  playerTokens, confirmPending, listed, reports>>
  BY DEF CoverPlate, StartTimer, locks
<1>4. PICK job : /\ Become(s, job)
                 /\ \/ At(s, "cover") /\ job.pc = "place"
                    \/ At(s, "startTimer") /\ job.pc = "ticker"
  BY JobPCs DEF CoverPlate, StartTimer
<1>5. job.pc \notin EndPCs /\ phase' # "finished"
  BY <1>2, <1>3, <1>4 DEF EndPCs, Live
<1>6. Move = MoveOf(go[s].pc) /\ Move' = MoveOf(job.pc) /\ Heir' = Heir
  BY <1>0, <1>1, <1>2, <1>3, <1>4, <1>5, ChainView
<1>7. MoveOf(go[s].pc) = MoveOf(job.pc)
  BY <1>4 DEF MoveOf, Placing, Advancing, At
<1>8. Pair' = Pair
  BY <1>3 DEF Pair
<1> QED BY <1>3, <1>6, <1>7, <1>8 DEF RP!rulesVars

\* Whoever leaves a game that goes on forfeits it.
LEMMA LeaveRule ==
  ASSUME AtomicInd, TurnInd, AtomicInd', NEW i \in Players, HandleLeaveRoom(i),
         \A g \in Goroutines : ~Busy(g)
  PROVE  RP!Forfeit(i)
<1>1. TypeOK /\ i \in Goroutines
  BY DEF AtomicInd, PlacementInd, Goroutines
<1>2. go'[i] = Closer(1 - i, "forfeit")
  BY <1>1, BecomeEffect DEF HandleLeaveRoom, TypeOK
<1>3. go'[i].pc = "stop" /\ go'[i].who = 1 - i /\ go'[i].why = "forfeit"
  BY <1>2 DEF Closer, Job
<1>4. Live
  BY LiveMessage DEF HandleLeaveRoom, Receives
<1>5. UNCHANGED <<phase, currentTurn, placementRound, tokens, selected, matched,
                  playerTokens, confirmPending, reports>>
  BY DEF HandleLeaveRoom, gameVars, locks
<1>6. Ending(i)' /\ OneBusy' /\ reports' = <<>>
  BY <1>3, <1>4, <1>5 DEF Ending, EndPCs, AtomicInd, Live
<1>7. Move' = "over" /\ Heir' = 1 - i
  BY <1>1, <1>3, <1>6, ViewsAfter DEF OverView
<1>8. Move # "over"
  BY <1>4, Views DEF LiveView
<1>9. Pair' = Pair
  BY <1>5 DEF Pair
<1> QED BY <1>4, <1>5, <1>7, <1>8, <1>9 DEF RP!Forfeit, RP!Close, Live

\* The phase is finished once; what is left of the end the rules do not see.
LEMMA EndRule ==
  ASSUME AtomicInd, TurnInd, AtomicInd', TurnInd', NEW g \in Goroutines, EndGame(g)
  PROVE  RP!Finish \/ UNCHANGED RP!rulesVars
<1>1. TypeOK
  BY DEF AtomicInd, PlacementInd
<1>2. Ending(g) /\ ClosesHonestly(g) /\ OneBusy /\ OneBusy'
  <2>1. Ending(g)
    BY DEF EndGame, StopTimer, SetFinished, GetWinner, ReportGameEnd,
         RemoveRoom, At, Ending, EndPCs
  <2> QED BY <2>1 DEF TurnInd, Conduct, Ends, AtomicInd
<1>3. CASE StopTimer(g)
  BY <1>3, UnseenStep
<1>4. CASE SetFinished(g)
  <2>1. /\ At(g, "finish") /\ phase' = "finished"
        /\ go'[g].pc \in {"winner", "report"}
        /\ go'[g].who = go[g].who /\ go'[g].why = go[g].why
        /\ UNCHANGED <<currentTurn, placementRound, tokens, selected, matched,
                       playerTokens, confirmPending, reports>>
    BY <1>1, <1>4, BecomeEffect
    DEF SetFinished, MarkFinished, Jump, Job, TypeOK, locks
  <2>2. reports = <<>> /\ phase # "finished"
    BY <1>2, <2>1 DEF ClosesHonestly, At
  <2>3. Ending(g)'
    BY <2>1 DEF Ending, EndPCs
  <2>4. FewerTokens' = FewerTokens /\ Pair' = Pair
    BY <2>1 DEF FewerTokens, Pair
  <2>5. Move = "over" /\ Move' = "over" /\ Heir' = Heir
    BY <1>2, <2>1, <2>2, <2>3, <2>4, Views, ViewsAfter DEF OverView
  <2> QED BY <2>1, <2>2, <2>4, <2>5 DEF RP!Finish
<1>5. CASE GetWinner(g) \/ ReportGameEnd(g) \/ RemoveRoom(g)
  <2>1. UNCHANGED <<phase, currentTurn, placementRound, tokens, selected,
                    matched, playerTokens, confirmPending>>
    BY <1>5 DEF GetWinner, ReportGameEnd, RemoveRoom, gameVars, locks
  <2>2. FewerTokens' = FewerTokens /\ Pair' = Pair
    BY <2>1 DEF FewerTokens, Pair
  <2>3. Move' = Move /\ Heir' = Heir
    <3>1. CASE GetWinner(g)
      <4>1. /\ At(g, "winner") /\ go'[g].pc = "report"
            /\ go'[g].why = "no_matches" /\ reports' = reports
        BY <1>1, <3>1, BecomeEffect DEF GetWinner, Job, TypeOK
      <4>2. reports = <<>> /\ go[g].why = "no_matches" /\ Ending(g)'
        BY <1>2, <4>1 DEF ClosesHonestly, At, Ending, EndPCs
      <4> QED BY <1>2, <2>2, <4>1, <4>2, Views, ViewsAfter DEF OverView
    <3>2. CASE ReportGameEnd(g)
      <4> DEFINE r == [winner |-> go[g].who, reason |-> go[g].why,
                       tokens |-> playerTokens]
      <4>1. At(g, "report") /\ reports' = Append(reports, r)
        BY <3>2 DEF ReportGameEnd
      <4>2. reports = <<>>
        BY <1>2, <4>1 DEF ClosesHonestly, At
      <4>3. reports' = <<r>>
        BY <4>1, <4>2
      <4>4. reports' # <<>> /\ reports'[1].winner = go[g].who
        BY <4>3
      <4>5. Heir = go[g].who /\ Move = "over"
        <5>1. go[g].why = "no_matches" => go[g].who = FewerTokens
          BY <1>2, <4>1 DEF ClosesHonestly, At
        <5> QED BY <1>2, <4>2, <5>1, Views DEF OverView
      <4> QED BY <4>4, <4>5, ViewsAfter DEF OverView
    <3>3. CASE RemoveRoom(g)
      <4>1. At(g, "remove") /\ reports' = reports
        BY <3>3 DEF RemoveRoom
      <4>2. reports # <<>>
        BY <1>2, <4>1 DEF ClosesHonestly
      <4> QED BY <4>1, <4>2, Views, ViewsAfter DEF OverView
    <3> QED BY <1>5, <3>1, <3>2, <3>3
  <2> QED BY <2>1, <2>2, <2>3 DEF RP!rulesVars
<1> QED BY <1>3, <1>4, <1>5 DEF EndGame

\* A room before its game is what the rules start from.
LEMMA InitRule == Init => RP!RulesInit
<1> SUFFICES ASSUME Init PROVE RP!RulesInit
  OBVIOUS
<1>1. \A g \in Goroutines :
        go[g].pc = (IF g = 1 THEN "start" ELSE "idle")
  BY JobPCs DEF Init
<1>2. Live
  BY <1>1 DEF Init, NewGameState, Live, Ending, EndPCs
<1>3. \A s \in Slots : go[s].pc \notin Chain
  BY <1>1, SlotsAssumption
  DEF Goroutines, Players, Chain, Placing, Revealing, Advancing
<1>4. Move = "none" /\ Heir = 2
  BY <1>2, <1>3, Views DEF LiveView
<1>5. Pair = {}
  BY DEF Init, NewGameState, Pair
<1> QED BY <1>4, <1>5
     DEF Init, NewGameState, Players, RP!RulesInit, RP!Undecided

\* Every step of the room is a step of the rules, or invisible to them.
LEMMA RuleStep ==
  Joint /\ AtomicInd' /\ TurnInd' /\ [InTimeNext]_vars
    => [RP!RulesNext]_RP!rulesVars
<1> SUFFICES ASSUME Joint, AtomicInd', TurnInd', [InTimeNext]_vars
             PROVE  [RP!RulesNext]_RP!rulesVars
  OBVIOUS
<1> USE DEF RP!RulesNext, RP!Turn, RP!Outcome
<1>0. AtomicInd /\ TurnInd
  BY DEF Joint
<1>1. CASE UNCHANGED vars
  BY <1>0, <1>1, UnseenStep
<1>2. CASE RunOn
  <2>1. CASE \E i \in Players : Handler(i)
    BY <1>0, <2>1, StartRule, UnseenStep, ShowRule DEF Handler
  <2>2. CASE \E s \in Slots : CallbackBody(s)
    BY <1>0, <2>2, CoverRule, NextPlacerRule, DealRule, HitRule, MissRule,
       AdvanceRule
    DEF CallbackBody
  <2>3. CASE \E s \in Slots : TimerDone(s)
    BY <1>0, <2>3, UnseenStep
  <2>4. ~\E s \in Slots : TimeoutBody(s)
    BY <1>0 DEF TurnInd, InTime, TimeoutBody, TimerExpired, TimeoutCheck,
         GetCurrentTurn, HandleTimeout, At
  <2>5. CASE \E g \in Goroutines : EndGame(g)
    BY <1>0, <2>5, EndRule
  <2> QED BY <1>2, <2>1, <2>2, <2>3, <2>4, <2>5 DEF RunOn
<1>3. CASE TakeUp /\ timeLeft' > 0
  <2>1. CASE \E s \in Slots : Wake(s) \/ TimerTick(s)
    BY <1>0, <1>3, <2>1, WakeRule, UnseenStep
  <2>2. CASE (\A g \in Goroutines : ~Busy(g)) /\ Arrive
    BY <1>0, <2>2, UnseenStep, PlaceRule, AddRule, LeaveRule
    DEF Arrive, Message, Players
  <2>3. CASE Second
    BY <1>0, <2>3, UnseenStep
  <2> QED BY <1>3, <2>1, <2>2, <2>3 DEF TakeUp
<1> QED BY <1>1, <1>2, <1>3 DEF InTimeNext

-----------------------------------------------------------------------------
(* The theorems.                                                           *)

\* The room and the rules keep their invariants together.
LEMMA JointInit == Init => Joint
  BY CoversInit, TurnInit, InitRule, RulesKept DEF Joint

LEMMA JointStep == Joint /\ [InTimeNext]_vars => Joint' /\ [RP!RulesNext]_RP!rulesVars
<1> SUFFICES ASSUME Joint, [InTimeNext]_vars
             PROVE  Joint' /\ [RP!RulesNext]_RP!rulesVars
  OBVIOUS
<1>1. AtomicInd' /\ TurnInd'
  BY InTimeIsAtomic, AtomicStep, TurnStep DEF Joint
<1>2. [RP!RulesNext]_RP!rulesVars
  BY <1>1, RuleStep
<1> QED BY <1>1, <1>2, RulesKept DEF Joint

\* A room whose handlers and callbacks are atomic and whose players beat the
\* turn timer plays by the rules: every step is one of the rules' or invisible
\* to them, for any number of plates and of goroutines.
THEOREM RoomPlaysByTheRules == InTimeSpec => ImplementsRules
<1>1. Init => Rules!RulesInit
  BY InitRule, SameRules
<1>2. Joint /\ [InTimeNext]_vars => [Rules!RulesNext]_Rules!rulesVars
  BY JointStep, SameRules
<1> QED BY <1>1, <1>2, JointInit, JointStep, PTL
     DEF InTimeSpec, ImplementsRules, Rules!RulesSpec

\* A turn of the matching phase has one goroutine that will end it: the timer
\* while it runs, or the callback of the player's move.
THEOREM TurnsEndOnce == InTimeSpec => []OneTurnEnder
<1>1. ASSUME TurnInd PROVE OneTurnEnder
  <2>1. \A s, t \in TurnEnders : s = t
    BY <1>1 DEF TurnInd, InTime, Conduct, OneConductor, Conducts, Chain, TurnEnders
  <2>2. TurnEnders = {} \/ \E s : TurnEnders = {s}
    BY <2>1
  <2>3. Cardinality(TurnEnders) \in {0, 1}
    <3>1. CASE TurnEnders = {}
      <4>1. Cardinality({}) = 0
        BY FS_EmptySet
      <4> QED BY <3>1, <4>1
    <3>2. CASE \E s : TurnEnders = {s}
      <4>1. PICK s : TurnEnders = {s}
        BY <3>2
      <4>2. Cardinality({s}) = 1
        BY FS_Singleton
      <4> QED BY <4>1, <4>2
    <3> QED BY <2>2, <3>1, <3>2
  <2>4. \A n \in {0, 1} : n <= 1
    OBVIOUS
  <2> QED BY <2>3, <2>4 DEF OneTurnEnder
<1>2. Joint => OneTurnEnder
  BY <1>1 DEF Joint
<1> QED BY <1>2, JointInit, JointStep, PTL DEF InTimeSpec

\* The counts under the plates of a room never leave a gap in the matching
\* phase.
THEOREM RoomLeavesNoGap == InTimeSpec => []GapFree
<1>1. Joint => GapFree
  BY DEF Joint, RP!RulesInd, RP!NoGap, GapFree
<1> QED BY <1>1, JointInit, JointStep, PTL DEF InTimeSpec

\* A player whose purse is empty has won: no purse is overdrawn, and whoever
\* will say who won is on its way.
THEOREM EmptyPursesWin == InTimeSpec => []EmptyPurseWins
<1>1. ASSUME Joint, phase \in {"matching", "add_token"}, NEW i \in Players
      PROVE  /\ playerTokens[i] >= 0
             /\ playerTokens[i] = 0 => \E g \in Goroutines : go[g].why # "none"
  <2>1. RP!RulesTypeOK /\ RP!EmptyPurseEnds /\ TurnInd
    BY <1>1 DEF Joint, RP!RulesInd
  <2>2. playerTokens[i] \in Nat
    BY <2>1 DEF RP!RulesTypeOK, Players
  <2>3. ASSUME playerTokens[i] = 0 PROVE \E g \in Goroutines : go[g].why # "none"
    <3>1. Move \in {"won", "over"}
      BY <1>1, <2>1, <2>3 DEF RP!EmptyPurseEnds, Players
    <3>2. reports = <<>>
      BY <1>1, <2>1 DEF TurnInd, Conduct, Ends
    <3>3. CASE \E g \in Goroutines : Ending(g)
      BY <2>1, <3>3 DEF TurnInd, Conduct, Ends, ClosesHonestly
    <3>4. CASE ~\E g \in Goroutines : Ending(g)
      <4>1. Pending({"wakeWin"})
        BY <3>1, <3>2, <3>4 DEF Move
      <4>2. PICK s \in Slots : At(s, "wakeWin")
        BY <4>1 DEF Pending, At
      <4>3. go[s].why = "tokens"
        BY <1>1, <2>1, <4>2 DEF TurnInd, Conduct, ChainKnows, KnowsItsTurn
      <4> QED BY <4>3 DEF Goroutines
    <3> QED BY <3>3, <3>4
  <2> QED BY <2>2, <2>3
<1>2. Joint => EmptyPurseWins
  BY <1>1 DEF EmptyPurseWins
<1> QED BY <1>2, JointInit, JointStep, PTL DEF InTimeSpec

\* While handlers and callbacks are atomic and players beat the turn timer, a
\* winner by tokens is reported with an empty purse.  (OneReport, that the game
\* ends once and names the right winner when no pair is left, needs no such
\* players.)
THEOREM ResultsAreHonest == InTimeSpec => []HonestResult
<1>1. ASSUME Joint PROVE HonestResult
  <2>1. playerTokens \in [{0, 1} -> Nat] /\ TurnInd /\ TypeOK
    BY <1>1
    DEF Joint, RP!RulesInd, RP!RulesTypeOK, AtomicInd, PlacementInd
  <2>2. CASE reports = <<>>
    BY <2>2 DEF HonestResult
  <2>3. CASE reports # <<>>
    <3>1. /\ Len(reports) = 1 /\ reports[1].tokens = playerTokens
          /\ reports[1].reason = "tokens" =>
               reports[1].winner = currentTurn /\ playerTokens[currentTurn] <= 0
      BY <2>1, <2>3 DEF TurnInd, Conduct, Ends
    <3>2. currentTurn \in {0, 1}
      BY <2>1 DEF TypeOK, GameTypeOK, Players
    <3>3. reports[1].reason = "tokens" =>
            reports[1].tokens[reports[1].winner] = 0
      BY <2>1, <3>1, <3>2
    <3>4. \A n \in 1..Len(reports) : n = 1
      BY <3>1
    <3> QED BY <3>1, <3>3, <3>4 DEF HonestResult
  <2> QED BY <2>2, <2>3
<1> QED BY <1>1, JointInit, JointStep, PTL DEF InTimeSpec

\* Tokens change in the phase of adding one by the rules' Add alone.
LEMMA AddsByTheRules ==
  ASSUME Joint, [RP!RulesNext]_RP!rulesVars, phase = "add_token", tokens' # tokens
  PROVE  /\ Move = "none"
         /\ \E p \in matched : tokens' = [tokens EXCEPT ![p] = @ + 1]
         /\ playerTokens' = [playerTokens EXCEPT ![currentTurn] = @ - 1]
<1>1. PICK p \in Plates : RP!Add(p)
  BY DEF RP!RulesNext, RP!rulesVars, RP!Turn, RP!Outcome, RP!Start, RP!Place,
     RP!NextPlacer, RP!Deal, RP!Show, RP!Hit, RP!Miss, RP!NextTurn, RP!Close,
     RP!NoMatches, RP!Tokens, RP!Forfeit, RP!Finish
<1>2. ~confirmPending
  BY DEF Joint, TurnInd, Conduct, PhaseFlags
<1> QED BY <1>1, <1>2 DEF RP!Add, Pair

\* The plates of a turn stay open until it ends.
PairShows ==
  /\ phase = "matching" /\ confirmPending => selected \cap covered = {}
  /\ phase = "add_token" => matched \cap covered = {}

\* Only a confirmation opens a pair, and only a change of turn covers it.
LEMMA PairShowsStep ==
  ASSUME Joint, PairShows, [InTimeNext]_vars
  PROVE  PairShows'
<1>1. ASSUME UNCHANGED <<covered, selected, matched, confirmPending>>,
             phase' \in {phase, "placement", "finished"}
      PROVE  PairShows'
  BY <1>1 DEF PairShows
<1>2. ASSUME NEW i \in Players, Handler(i) PROVE PairShows'
  <2>1. CASE StartGame(i) \/ RefuseConfirm(i)
    BY <1>1, <2>1 DEF StartGame, RefuseConfirm, gameVars, locks
  <2>2. ASSUME NEW s \in Slots, HandleConfirmMatch(i, s) PROVE PairShows'
    BY <2>2 DEF HandleConfirmMatch, CanConfirm, ConfirmMatch, PairShows
  <2> QED BY <1>2, <2>1, <2>2 DEF Handler
<1>3. ASSUME NEW i \in Players, Message(i) PROVE PairShows'
  <2>1. ASSUME NEW p \in Plates, HandleSelectPlate(i, p) PROVE PairShows'
    BY <2>1 DEF HandleSelectPlate, SelectPlate, PairShows, locks
  <2>2. ASSUME NEW p \in Plates, NEW s \in Slots, HandlePlaceToken(i, p, s)
        PROVE  PairShows'
    BY <2>2 DEF HandlePlaceToken, PlaceToken, PairShows
  <2>3. ASSUME NEW p \in Plates, NEW s \in Slots, HandleAddToken(i, p, s)
        PROVE  PairShows'
    BY <1>1, <2>3 DEF HandleAddToken, AddToken
  <2>4. CASE ConfirmStopTimer(i) \/ HandleLeaveRoom(i)
    BY <1>1, <2>4 DEF ConfirmStopTimer, HandleLeaveRoom, gameVars, locks
  <2> QED BY <1>3, <2>1, <2>2, <2>3, <2>4 DEF Message
<1>4. ASSUME NEW s \in Slots, CallbackBody(s) PROVE PairShows'
  <2>1. /\ At(s, "cover") => phase = "placement"
        /\ At(s, "hit") => phase = "matching" /\ confirmPending
    <3>1. At(s, "cover") \/ At(s, "hit") => phase # "finished"
      BY DEF Joint, AtomicInd, FinishedAtRest, Midway, At, Goroutines
    <3> QED BY <3>1 DEF Joint, TurnInd, Conduct, ChainKnows, KnowsItsTurn, At, Placing, Revealing
  <2>2. CASE CoverPlate(s)
    BY <2>1, <2>2 DEF CoverPlate, PairShows
  <2>3. CASE AdvancePlacement(s) \/ StartTimer(s) \/ HandleMatchFail(s)
    BY <1>1, <2>3
    DEF AdvancePlacement, NextPlacementTurn, StartTimer, HandleMatchFail, gameVars, locks
  <2>4. CASE StartMatchingPhase(s)
    BY <2>4 DEF StartMatchingPhase, StartMatching, PairShows
  <2>5. CASE SetAddTokenPhase(s)
    BY <2>1, <2>5 DEF SetAddTokenPhase, EnterAddToken, PairShows
  <2>6. CASE AdvanceMatching(s)
    BY <2>6 DEF AdvanceMatching, NextMatchingTurn, gameVars, PairShows
  <2> QED BY <1>4, <2>2, <2>3, <2>4, <2>5, <2>6 DEF CallbackBody
<1>5. ASSUME NEW s \in Slots, Wake(s) \/ TimerTick(s) \/ TimerDone(s) \/ TimeoutBody(s)
      PROVE  PairShows'
  BY <1>1, <1>5
  DEF Wake, TimerTick, TimerDone, TimeoutBody, TimerExpired, TimeoutCheck, GetCurrentTurn,
      HandleTimeout, gameVars, locks
<1>6. ASSUME NEW g \in Goroutines, EndGame(g) PROVE PairShows'
  BY <1>1, <1>6 DEF EndGame, StopTimer, SetFinished, MarkFinished, GetWinner, ReportGameEnd,
     RemoveRoom, gameVars, locks
<1>7. CASE Second \/ UNCHANGED vars
  BY <1>1, <1>7 DEF Second, vars, gameVars, locks
<1> QED BY <1>2, <1>3, <1>4, <1>5, <1>6, <1>7 DEF InTimeNext, TakeUp, RunOn, Arrive

\* A token is added only to one of two open plates that match, and is the
\* player's on turn.
THEOREM TokensFollowMatches == InTimeSpec => AddOnlyAfterMatch
<1>1. ASSUME Joint, PairShows, [InTimeNext]_vars, phase = "add_token", tokens' # tokens
      PROVE  /\ Cardinality(matched) = 2
             /\ \A p, q \in matched : tokens[p] = tokens[q]
             /\ matched \cap covered = {}
             /\ \E p \in matched : tokens' = [tokens EXCEPT ![p] = @ + 1]
             /\ playerTokens' = [playerTokens EXCEPT ![currentTurn] = @ - 1]
  <2>1. /\ Move = "none"
        /\ \E p \in matched : tokens' = [tokens EXCEPT ![p] = @ + 1]
        /\ playerTokens' = [playerTokens EXCEPT ![currentTurn] = @ - 1]
    BY <1>1, JointStep, AddsByTheRules
  <2>2. Cardinality(matched) = 2 /\ ~confirmPending
    BY <1>1 DEF Joint, TurnInd, Conduct, PhaseFlags
  <2>3. \A p, q \in matched : tokens[p] = tokens[q]
    BY <1>1, <2>1, <2>2 DEF Joint, RP!RulesInd, RP!PairShown, Pair
  <2> QED BY <1>1, <2>1, <2>2, <2>3 DEF PairShows
<1>2. Init => PairShows
  BY DEF Init, NewGameState, PairShows
<1> QED BY <1>1, <1>2, JointInit, JointStep, PairShowsStep, PTL DEF InTimeSpec, AddOnlyAfterMatch

\* One token a turn: none is added once a callback that moves the turn on is
\* under way.
THEOREM OneTokenATurn == InTimeSpec => OneAddPerTurn
<1>1. ASSUME Joint, [InTimeNext]_vars, phase = "add_token", tokens' # tokens
      PROVE  ~Pending(Advancing \cup {"wakeWin"})
  <2>1. Move = "none"
    BY <1>1, JointStep, AddsByTheRules
  <2>2. ~Pending(Advancing) /\ ~Pending({"wakeWin"})
    BY <2>1 DEF Move
  <2> QED BY <2>2 DEF Pending
<1> QED BY <1>1, JointInit, JointStep, PTL DEF InTimeSpec, OneAddPerTurn
=============================================================================
