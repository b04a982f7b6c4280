-------------------------------- MODULE Room --------------------------------
(***************************************************************************)
(* One room with its two players seated: internal/game/room.go and the     *)
(* handlers and delayed callbacks of cmd/server/main.go that drive it.     *)
(*                                                                         *)
(* The goroutines that touch a room are the read loops of the two players  *)
(* (a player's messages are handled one at a time), the time.AfterFunc     *)
(* callbacks and the turn timer's goroutine.  One action is one critical   *)
(* section of the room's mutex (or of the registry's), so a handler that   *)
(* locks twice is two actions with a program counter between them, and the *)
(* other goroutines may run in that gap.  Broadcasts only read the room    *)
(* and are left out.                                                       *)
(*                                                                         *)
(* Time is a clock that ticks once a second: a 2s callback sleeps 2 ticks, *)
(* a 1.5s one sleeps 1 or 2 (it starts anywhere between two ticks).        *)
(***************************************************************************)
EXTENDS GameState, Sequences

CONSTANTS Slots,      \* the goroutines callbacks and timers can run in
          NoTimer,    \* r.timerDone == nil
          NoPlate

ASSUME SlotsAssumption ==
  /\ Slots \cap Players = {}
  /\ NoTimer \notin Slots
  /\ NoPlate \notin Plates

VARIABLES playerTokens,      \* Players[i].Tokens
          placementPending, confirmPending, addTokenPending,
          timer,             \* the slot of the live timer goroutine
          listed,            \* s.rooms[room.ID] == room
          go,                \* the goroutines
          reports            \* the game_end messages broadcast so far

locks == <<placementPending, confirmPending, addTokenPending>>
vars == <<gameVars, playerTokens, locks, timer, listed, go, reports>>

Goroutines == Players \cup Slots
Nobody == -1

-----------------------------------------------------------------------------
(* Goroutines.  wait counts the clock ticks a goroutine still sleeps; for  *)
(* the timer goroutine it is 1 while its ticker channel is empty.  who is  *)
(* the player a callback captured (or the winner it will report), plate    *)
(* the plate and why the reason for the end of the game.                   *)

Reasons == {"none", "tokens", "forfeit", "no_matches"}
Wakes == {"wakePlace", "wakeHit", "wakeMiss", "wakeAdvance", "wakeWin"}
Resume == [w \in Wakes |->
             CASE w = "wakePlace"   -> "cover"
               [] w = "wakeHit"     -> "hit"
               [] w = "wakeMiss"    -> "miss"
               [] w = "wakeAdvance" -> "advance"
               [] w = "wakeWin"     -> "stop"]
PCs == Wakes \cup
       {"idle", "start", "confirm",
        "cover", "place", "startMatching", "startTimer",
        "hit", "miss", "advance",
        "ticker", "expired", "timeout", "turn", "penalty",
        "stop", "finish", "winner", "report", "remove"}

Goroutine == [pc : PCs, wait : 0..2, who : Players \cup {Nobody},
              plate : Plates \cup {NoPlate}, why : Reasons]

Job(pc, wait, who, plate, why) ==
  [pc |-> pc, wait |-> wait, who |-> who, plate |-> plate, why |-> why]
Does(pc)  == Job(pc, 0, Nobody, NoPlate, "none")
Idle      == Does("idle")
Ticker    == Job("ticker", 1, Nobody, NoPlate, "none")
Sleeper(wake, seconds, who) == Job(wake, seconds, who, NoPlate, "none")
Closer(who, why) == Job("stop", 0, who, NoPlate, why)

At(g, pc) == go[g].pc = pc
Become(g, job) == go' = [go EXCEPT ![g] = job]
Jump(g, pc) == Become(g, Job(pc, 0, go[g].who, go[g].plate, go[g].why))
\* Handler i returns, having left callback in a free slot.
Spawn(i, s, callback) ==
  /\ At(s, "idle")
  /\ go' = [go EXCEPT ![i] = Idle, ![s] = callback]

\* Mutation: the placement phase does not count as active.
isRoomActive_MatchingOnly == phase \in {"matching", "add_token"} /\ listed

isRoomActive == phase # "finished" /\ listed

TypeOK ==
  /\ GameTypeOK
  /\ playerTokens \in [Players -> Int]
  /\ placementPending \in BOOLEAN
  /\ confirmPending \in BOOLEAN
  /\ addTokenPending \in BOOLEAN
  /\ timer \in Slots \cup {NoTimer}
  /\ listed \in BOOLEAN
  /\ go \in [Goroutines -> Goroutine]
  /\ reports \in Seq([winner : Players \cup {Nobody}, reason : Reasons,
                      tokens : [Players -> Int]])

\* The room is registered with both players seated; the goroutine of the
\* player who came second is about to call StartGame.
Init ==
  /\ NewGameState
  /\ playerTokens = [i \in Players |-> 0]
  /\ placementPending = FALSE /\ confirmPending = FALSE
  /\ addTokenPending = FALSE
  /\ timer = NoTimer
  /\ listed = TRUE
  /\ go = [g \in Goroutines |-> IF g = 1 THEN Does("start") ELSE Idle]
  /\ reports = <<>>

StartGame(i) ==
  /\ At(i, "start")
  /\ phase' = "placement" /\ currentTurn' = 0 /\ placementRound' = 1
  /\ Become(i, Idle)
  /\ UNCHANGED <<timeLeft, tokens, hasTokens, covered, selected, matched,
                 playerTokens, locks, timer, listed, reports>>

-----------------------------------------------------------------------------
(* Messages of the players.                                                *)

\* The read loop of player i is free and findPlayerRoom finds this room.  The
\* lookup and the handler's first critical section are one action: all the
\* registry can do in between is lose the room, and nobody sees what happens
\* to a room that is lost.  A message that is refused (wrong phase, wrong
\* turn, locked, an index out of range) changes nothing.
Receives(i) == At(i, "idle") /\ listed

HandlePlaceToken(i, p, s) ==
  /\ Receives(i)
  /\ currentTurn = i
  /\ ~placementPending
  /\ PlaceToken(p)
  /\ placementPending' = TRUE
  /\ \E w \in 1..2 :
       Spawn(i, s, Job("wakePlace", w, Nobody, p, "none"))
  /\ UNCHANGED <<playerTokens, confirmPending, addTokenPending,
                 timer, listed, reports>>

HandleSelectPlate(i, p) ==
  /\ Receives(i)
  /\ currentTurn = i
  /\ ~confirmPending
  /\ SelectPlate(p)
  /\ Become(i, Idle)
  /\ UNCHANGED <<playerTokens, locks, timer, listed, reports>>

\* Mutation: the turn timer runs on.
ConfirmStopTimer_RunsOn(i) ==
  /\ Receives(i)
  /\ Jump(i, "confirm")
  /\ UNCHANGED <<gameVars, playerTokens, locks, timer, listed, reports>>

\* handleConfirmMatch stops the turn timer before it looks at anything else.
ConfirmStopTimer(i) ==
  /\ Receives(i)
  /\ timer' = NoTimer
  /\ Jump(i, "confirm")
  /\ UNCHANGED <<gameVars, playerTokens, locks, listed, reports>>

CanConfirm(i) ==
  /\ phase = "matching"
  /\ currentTurn = i
  /\ Cardinality(selected) = 2
  /\ ~confirmPending

HandleConfirmMatch(i, s) ==
  /\ At(i, "confirm")
  /\ CanConfirm(i)
  /\ confirmPending' = TRUE
  /\ ConfirmMatch
  /\ Spawn(i, s, IF SelectionMatches THEN Sleeper("wakeHit", 2, Nobody)
                                     ELSE Sleeper("wakeMiss", 2, i))
  /\ UNCHANGED <<playerTokens, placementPending, addTokenPending,
                 timer, listed, reports>>

RefuseConfirm(i) ==
  /\ At(i, "confirm")
  /\ ~CanConfirm(i)
  /\ Become(i, Idle)
  /\ UNCHANGED <<gameVars, playerTokens, locks, timer, listed, reports>>

\* Mutation: the last token of a purse does not win.
AfterAdd_NegativeWins(i, w) ==
  IF playerTokens'[i] < 0 THEN Job("wakeWin", w, i, NoPlate, "tokens")
                          ELSE Sleeper("wakeAdvance", w, Nobody)

\* What follows: the win of a player with an empty purse, or the next turn.
AfterAdd(i, w) ==
  IF playerTokens'[i] <= 0 THEN Job("wakeWin", w, i, NoPlate, "tokens")
                           ELSE Sleeper("wakeAdvance", w, Nobody)

\* Mutation: the lock is not asked.
HandleAddToken_Unlocked(i, p, s) ==
  /\ Receives(i)
  /\ currentTurn = i
  /\ AddToken(p)
  /\ addTokenPending' = TRUE
  /\ playerTokens' = [playerTokens EXCEPT ![i] = @ - 1]
  /\ \E w \in 1..2 : Spawn(i, s, AfterAdd(i, w))
  /\ UNCHANGED <<placementPending, confirmPending, timer, listed, reports>>

HandleAddToken(i, p, s) ==
  /\ Receives(i)
  /\ currentTurn = i
  /\ ~addTokenPending
  /\ AddToken(p)
  /\ addTokenPending' = TRUE
  /\ playerTokens' = [playerTokens EXCEPT ![i] = @ - 1]
  /\ \E w \in 1..2 : Spawn(i, s, AfterAdd(i, w))
  /\ UNCHANGED <<placementPending, confirmPending, timer, listed, reports>>

\* leave_room: the opponent wins by forfeit.
HandleLeaveRoom(i) ==
  /\ Receives(i)
  /\ isRoomActive
  /\ Become(i, Closer(1 - i, "forfeit"))
  /\ UNCHANGED <<gameVars, playerTokens, locks, timer, listed, reports>>

-----------------------------------------------------------------------------
(* Delayed callbacks.                                                      *)

\* Mutation: a callback does not ask.
Wake_Unchecked(s) ==
  /\ go[s].pc \in Wakes
  /\ go[s].wait = 0
  /\ Jump(s, Resume[go[s].pc])
  /\ UNCHANGED <<gameVars, playerTokens, locks, timer, listed, reports>>

\* Every callback starts by asking whether the room is still active.
Wake(s) ==
  /\ go[s].pc \in Wakes
  /\ go[s].wait = 0
  /\ IF isRoomActive THEN Jump(s, Resume[go[s].pc]) ELSE Become(s, Idle)
  /\ UNCHANGED <<gameVars, playerTokens, locks, timer, listed, reports>>

CoverPlate(s) ==
  /\ At(s, "cover")
  /\ covered' = covered \cup ({go[s].plate} \cap Plates)
  /\ Become(s, Does("place"))
  /\ UNCHANGED <<phase, currentTurn, placementRound, timeLeft, tokens,
                 hasTokens, selected, matched,
                 playerTokens, locks, timer, listed, reports>>

AdvancePlacement(s) ==
  /\ At(s, "place")
  /\ placementPending' = FALSE
  /\ NextPlacementTurn
  /\ IF PlacementComplete' THEN Jump(s, "startMatching") ELSE Become(s, Idle)
  /\ UNCHANGED <<playerTokens, confirmPending, addTokenPending,
                 timer, listed, reports>>

StartMatchingPhase(s) ==
  /\ At(s, "startMatching")
  /\ playerTokens' = [i \in Players |-> IF MinTokens > MaxRound
                                        THEN MinTokens ELSE MaxRound + 1]
  /\ StartMatching
  /\ Jump(s, "startTimer")
  /\ UNCHANGED <<locks, timer, listed, reports>>

\* StartTimer stops the timer that runs, if any: its goroutine is the one
\* that finds itself no longer the value of timer.
StartTimer(s) ==
  /\ At(s, "startTimer")
  /\ timeLeft' = TurnLimit
  /\ timer' = s
  /\ Become(s, Ticker)
  /\ UNCHANGED <<phase, currentTurn, placementRound, tokens, hasTokens,
                 covered, selected, matched,
                 playerTokens, locks, listed, reports>>

SetAddTokenPhase(s) ==
  /\ At(s, "hit")
  /\ confirmPending' = FALSE
  /\ EnterAddToken
  /\ Become(s, Idle)
  /\ UNCHANGED <<playerTokens, placementPending, addTokenPending,
                 timer, listed, reports>>

\* Mutation: the penalty token goes to whoever is not on turn.
HandleMatchFail_WrongPlayer(s) ==
  /\ At(s, "miss")
  /\ playerTokens' = [playerTokens EXCEPT ![1 - go[s].who] = @ + 1]
  /\ Become(s, Sleeper("wakeAdvance", 2, Nobody))
  /\ UNCHANGED <<gameVars, locks, timer, listed, reports>>

\* Mutation: nobody is left to move the turn on.
HandleMatchFail_NoAdvance(s) ==
  /\ At(s, "miss")
  /\ playerTokens' = [playerTokens EXCEPT ![go[s].who] = @ + 1]
  /\ Become(s, Idle)
  /\ UNCHANGED <<gameVars, locks, timer, listed, reports>>

HandleMatchFail(s) ==
  /\ At(s, "miss")
  /\ playerTokens' = [playerTokens EXCEPT ![go[s].who] = @ + 1]
  /\ Become(s, Sleeper("wakeAdvance", 2, Nobody))
  /\ UNCHANGED <<gameVars, locks, timer, listed, reports>>

\* The locks are reset whether or not the game goes on.
AdvanceMatching(s) ==
  /\ At(s, "advance")
  /\ confirmPending' = FALSE
  /\ addTokenPending' = FALSE
  /\ \/ /\ HasMatchingPairs
        /\ NextMatchingTurn
        /\ Jump(s, "startTimer")
     \/ /\ ~HasMatchingPairs
        /\ UNCHANGED gameVars
        /\ Become(s, Closer(Nobody, "no_matches"))
  /\ UNCHANGED <<playerTokens, placementPending, timer, listed, reports>>

-----------------------------------------------------------------------------
(* The turn timer.                                                         *)

\* select chooses among its ready cases: a goroutine whose done channel is
\* closed may still take the tick its ticker had buffered.
TimerTick(s) ==
  /\ At(s, "ticker")
  /\ go[s].wait = 0
  /\ timeLeft' = timeLeft - 1
  /\ Become(s, IF timeLeft' <= 0 THEN Does("expired") ELSE Ticker)
  /\ UNCHANGED <<phase, currentTurn, placementRound, tokens, hasTokens,
                 covered, selected, matched,
                 playerTokens, locks, timer, listed, reports>>

TimerDone(s) ==
  /\ At(s, "ticker")
  /\ timer # s
  /\ Become(s, Idle)
  /\ UNCHANGED <<gameVars, playerTokens, locks, timer, listed, reports>>

\* StopTimer stops the room's timer, whichever goroutine that is by now.
TimerExpired(s) ==
  /\ At(s, "expired")
  /\ timer' = NoTimer
  /\ Jump(s, "timeout")
  /\ UNCHANGED <<gameVars, playerTokens, locks, listed, reports>>

TimeoutCheck(s) ==
  /\ At(s, "timeout")
  /\ IF isRoomActive THEN Jump(s, "turn") ELSE Become(s, Idle)
  /\ UNCHANGED <<gameVars, playerTokens, locks, timer, listed, reports>>

GetCurrentTurn(s) ==
  /\ At(s, "turn")
  /\ Become(s, Job("penalty", 0, currentTurn, NoPlate, "none"))
  /\ UNCHANGED <<gameVars, playerTokens, locks, timer, listed, reports>>

HandleTimeout(s) ==
  /\ At(s, "penalty")
  /\ playerTokens' = [playerTokens EXCEPT ![go[s].who] = @ + 2]
  /\ Become(s, Sleeper("wakeAdvance", 2, Nobody))
  /\ UNCHANGED <<gameVars, locks, timer, listed, reports>>

-----------------------------------------------------------------------------
(* The end of the game: endGame and, with reason no_matches, its twin      *)
(* endGameNoMatches, which asks for the winner once the game is finished.  *)

StopTimer(g) ==
  /\ At(g, "stop")
  /\ timer' = NoTimer
  /\ Jump(g, "finish")
  /\ UNCHANGED <<gameVars, playerTokens, locks, listed, reports>>

SetFinished(g) ==
  /\ At(g, "finish")
  /\ MarkFinished
  /\ Jump(g, IF go[g].why = "no_matches" THEN "winner" ELSE "report")
  /\ UNCHANGED <<playerTokens, locks, timer, listed, reports>>

\* Mutation: the player with more tokens wins.
FewerTokens_More ==
  IF playerTokens[0] = playerTokens[1] THEN Nobody
  ELSE IF playerTokens[0] > playerTokens[1] THEN 0 ELSE 1

\* The winner is the player with fewer tokens; nobody if they are equal.
FewerTokens ==
  IF playerTokens[0] = playerTokens[1] THEN Nobody
  ELSE IF playerTokens[0] < playerTokens[1] THEN 0 ELSE 1

GetWinner(g) ==
  /\ At(g, "winner")
  /\ Become(g, Job("report", 0, FewerTokens, NoPlate, "no_matches"))
  /\ UNCHANGED <<gameVars, playerTokens, locks, timer, listed, reports>>

ReportGameEnd(g) ==
  /\ At(g, "report")
  /\ reports' = Append(reports, [winner |-> go[g].who, reason |-> go[g].why,
                                 tokens |-> playerTokens])
  /\ Jump(g, "remove")
  /\ UNCHANGED <<gameVars, playerTokens, locks, timer, listed>>

\* Mutation: the room stays in the registry.
RemoveRoom_Kept(g) ==
  /\ At(g, "remove")
  /\ Become(g, Idle)
  /\ UNCHANGED <<gameVars, playerTokens, locks, timer, listed, reports>>

\* resetPlayersToLobby and removeRoom: no message finds the room any more.
RemoveRoom(g) ==
  /\ At(g, "remove")
  /\ listed' = FALSE
  /\ Become(g, Idle)
  /\ UNCHANGED <<gameVars, playerTokens, locks, timer, reports>>

-----------------------------------------------------------------------------
(* The clock: every sleeper is a second nearer its end, and the live       *)
(* ticker's channel holds a tick.                                          *)

Second ==
  /\ go' = [g \in Goroutines |->
              IF go[g].wait > 0 /\ (At(g, "ticker") => timer = g)
              THEN Job(go[g].pc, go[g].wait - 1, go[g].who,
                       go[g].plate, go[g].why)
              ELSE go[g]]
  /\ UNCHANGED <<gameVars, playerTokens, locks, timer, listed, reports>>

-----------------------------------------------------------------------------
(* Specifications.                                                         *)

\* The messages of player i.
Message(i) ==
  \/ \E p \in Plates : \/ HandleSelectPlate(i, p)
                       \/ \E s \in Slots : \/ HandlePlaceToken(i, p, s)
                                           \/ HandleAddToken(i, p, s)
  \/ ConfirmStopTimer(i)
  \/ HandleLeaveRoom(i)

Handler(i) ==
  \/ StartGame(i)
  \/ RefuseConfirm(i)
  \/ \E s \in Slots : HandleConfirmMatch(i, s)

CallbackBody(s) ==
  \/ CoverPlate(s) \/ AdvancePlacement(s)
  \/ StartMatchingPhase(s) \/ StartTimer(s) \/ SetAddTokenPhase(s)
  \/ HandleMatchFail(s) \/ AdvanceMatching(s)

Callback(s) == Wake(s) \/ CallbackBody(s)

TimeoutBody(s) ==
  \/ TimerExpired(s) \/ TimeoutCheck(s) \/ GetCurrentTurn(s) \/ HandleTimeout(s)

TurnTimer(s) == TimerTick(s) \/ TimerDone(s) \/ TimeoutBody(s)

EndGame(g) ==
  \/ StopTimer(g) \/ SetFinished(g) \/ GetWinner(g)
  \/ ReportGameEnd(g) \/ RemoveRoom(g)

\* What the server's goroutines do once they are running.
Work ==
  \/ \E i \in Players : Handler(i)
  \/ \E s \in Slots : Callback(s) \/ TurnTimer(s)
  \/ \E g \in Goroutines : EndGame(g)

Arrive == \E i \in Players : Message(i)

Next == Work \/ Arrive \/ Second

\* Any schedule: a goroutine may be held up for any time between two locks.
Spec == Init /\ [][Next]_vars

\* A goroutine that could take a step now.
Running(g) ==
  /\ ~At(g, "idle")
  /\ go[g].wait = 0 \/ (At(g, "ticker") /\ timer # g)
Quiet == \A g \in Goroutines : ~Running(g)

\* The server keeps up with the clock, so that what can run runs before the
\* next second, and runs one handler or callback at a time, as if one lock were
\* held from the first critical section of each to its last: a callback or a
\* message is taken up when nobody is busy, and who is busy runs on.
Busy(g) == go[g].pc \notin Wakes \cup {"idle", "ticker"}
OneBusy == \A g, h \in Goroutines : Busy(g) /\ Busy(h) => g = h
TakeUp ==
  \/ (\E s \in Slots : Wake(s) \/ TimerTick(s)) /\ OneBusy'
  \/ (\A g \in Goroutines : ~Busy(g)) /\ Arrive
  \/ Quiet /\ Second
RunOn ==
  \/ \E i \in Players : Handler(i)
  \/ \E s \in Slots : CallbackBody(s) \/ TimerDone(s) \/ TimeoutBody(s)
  \/ \E g \in Goroutines : EndGame(g)
AtomicNext == TakeUp \/ RunOn
AtomicSpec == Init /\ [][AtomicNext]_vars

\* As above, with players who always beat the turn timer.
InTimeNext == RunOn \/ (TakeUp /\ timeLeft' > 0)
InTimeSpec == Init /\ [][InTimeNext]_vars

\* The Go scheduler runs every goroutine that can run, and time passes: the
\* server comes to rest over and over, and each time the next second follows.
\* Nothing is assumed of the players.
Fairness ==
  /\ \A i \in Players : WF_vars(Handler(i) \/ EndGame(i))
  /\ \A s \in Slots : WF_vars(Callback(s) \/ TurnTimer(s) \/ EndGame(s))
  /\ SF_vars(Quiet /\ Second)
FairAtomicSpec == AtomicSpec /\ Fairness
=============================================================================
