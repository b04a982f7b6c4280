# Memory Feast Online in TLA+

Memory Feast is a two-player memory game. `memory-feast-online/` is a Go server
that keeps the games and a web client that shows them; `memory-feast.html` is an
older offline version. This directory specifies the server: TLA+ modules translated
from its source, TLC configurations that check them on small instances, and
theorems that TLAPS proves for every value of the constants. Paths below are
relative to `memory-feast-online/` unless they start with `/`.

## The system

### Components

| Component | State | Operations | Interacts with |
|---|---|---|---|
| **Game state** `internal/game/state.go` | phase, turn, round, seconds left, plates (tokens, open or covered), selected and matched plates | place, next placement turn, start matching, select, confirm, enter add-token, add, next turn, finish | called by the room under the room's lock |
| **Room** `internal/game/room.go` | the two players with their purses, the game state, three lock flags (`placementPending`, `confirmPending`, `addTokenPending`), the turn timer | one method per message and callback, each one critical section; `StartTimer`, `StopTimer` and the timer goroutine; broadcasts | server handlers, timer goroutine, hub |
| **Server, in a game** `cmd/server/main.go` | none of its own: goroutines that hold captured values | handlers of `place_token`, `select_plate`, `confirm_match`, `add_token`, `leave_room`; `time.AfterFunc` callbacks of 1.5 s and 2 s; `endGame`, `endGameNoMatches` | room, registry |
| **Server, in the lobby** `cmd/server/main.go` | the registry `rooms` (guarded by `roomsMu`) | `join_queue`, `create_room`, `join_room`, `leave_room`, `findPlayerRoom`, `removeRoom` | matchmaker, hub, rooms |
| **Matchmaker** `internal/game/matchmaker.go` | FIFO queue of entries with their arrival | `JoinQueue` (pairs with the first in the queue), `LeaveQueue`, the clean-up that runs every 10 s and drops entries older than 60 s | calls back into the server with and without its lock held |
| **Presence** `player.go`, `main.go` | per player the connection and the time it was lost | `SetConnection`, `ClearConnection`, `ClearConnectionIf`, `handleReconnect`, `handleClientDisconnect` and its 30 s callback | read loops, room |
| **Hub and clients** `internal/ws` | session to client map; per client a state (lobby, waiting, in game), a `Send` channel of 256, a closed flag | `Run` (register, unregister), `SendMessage`, `WriteMessageDirect`, `WritePump`, `ReadPump`, `Close` | every handler and broadcast |
| **Broadcasts** `room.go` | none: snapshots of the room | `BroadcastState`, `GetGameStateForPlayer`, `BroadcastMessage`, `SendToPlayer` | room (read), hub |
| **Message protocol** `internal/ws/message.go` | none | which message a client in which state may send; payload types | server |
| **Store** `internal/store/redis.go` | rooms and invite codes with a time to live | save, get, delete; the server only ever deletes | Redis, or a map |
| **Web client** `web/index.html` | its own view of the connection and game | rendering, reconnection | server |
| **Local game** `/memory-feast.html` | a second copy of the rules | | |
| Origin check, HTTP set-up, deployment | configuration | | |

### How it runs

Every WebSocket has a read loop that handles one message at a time. Handlers take the
room's mutex for each step and let it go in between; what must happen later (cover the
plate again, reveal the result, move the turn on) is left to a `time.AfterFunc`
callback, which again is several critical sections. The matching phase has a turn
timer: a goroutine with a ticker, replaced on each turn, that lowers `TimeLeft` and,
at zero, gives the player on turn two penalty tokens and ends the turn. So a room is
driven by two read loops, up to a few callbacks and one or more timer goroutines (a
stopped one may not have noticed yet), and nothing but the flags and a check of
`isRoomActive` keeps them apart.

### What is hard about it

* a callback checks that the room is active, lets the lock go, and acts on it;
* the flags that keep a player from moving twice in a turn are set by a message and
  reset by a callback that may return early;
* a turn can be ended by a match, a miss, the timer, a forfeit or an empty purse,
  and more than one of them can be on its way;
* `endGame` is five steps and can run twice at once;
* a timer goroutine that has been replaced may still consume a tick;
* a connection is written to by its pump and by every broadcast, and closed by its read
  loop, its pump or the hub, under two mutexes of its own and the hub's;
* a broadcast looks each player up in turn, while connections come and go;
* the store writes two keys for one room, either of which may fail;
* in the lobby: a match made before the client that joined is marked as waiting, a
  clean-up that speaks to a player who has moved on, old connections that disconnect
  after the new one has registered, a grace period that does not know which
  disconnection it was started for.

### What makes each component correct

* *Rules*: tokens are dealt in pairs; matching never leaves a gap in the counts; a
  player who is to look for a pair can find one; an empty purse ends the game.
* *Room*: the three flags never outlive the callback that resets them; a turn ends
  once; a plate is open only in the turn that opened it; the room implements the rules;
  what is decided to end does end, and is announced once, as the purses have it.
* *Lobby*: a session is in the queue or in a room, not in both; a client's state
  agrees with where its session is; a seat that is taken stays taken.
* *Presence*: somebody sees to every player who is away; a player who stays away forfeits.
* *Hub and clients*: one client per session and the newest wins; one writer at a time;
  nothing is sent on a closed channel; a dead connection is found out and forgotten; and
  no wait for a lock, a channel or a slow peer is for ever.
* *Broadcasts*: a change of the game reaches every player who is connected.
* *Clamp*: whatever a client asks for, the rules get a number of plates they work with.
* *Store*: Redis answers as the map does, for as long as its commands succeed.

## Modules

| Module | Models | |
|---|---|---|
| `GameState` | `state.go` | one operator per method, the variables of one game |
| `Room` | `room.go`, the game half of `main.go` | extends `GameState`; all goroutines of a room |
| `RoomProperties` | | what a room promises |
| `TurnGame` | the rules, as an abstract specification | no locks, timers, callbacks |
| `RoomRefinement` | | the mapping from `Room` to `TurnGame` |
| `Lobby` | the rest of `main.go`, `matchmaker.go`, `player.go`, `hub.go` `Run`, the read loop of `client.go` | everything around the games |
| `LobbyProperties` | | what the lobby promises |
| `LobbyRules` | the lobby as its players see it, as an abstract specification | no connections, goroutines or half-done handlers |
| `LobbyRefinement` | | the mapping from `Lobby` to `LobbyRules` |
| `PlateCount` | `ClampPlateCount` and its uses | a pure function on ints of some width |
| `PlateCountProperties` | | what clients can get against what `TurnGame` works with |
| `Delivery` | `Close`, `WritePump`, `WriteMessageDirect`, `SendMessage` and `Run` of `hub.go`, the broadcasts of `room.go` and `main.go` | the connections of the two players of one game |
| `DeliveryProperties` | | what connections and broadcasts promise |
| `Store` | `redis.go` | `RedisStore` command by command, with `MemoryStore` as what it stands for |
| `MCRoom`, `MCTurnGame`, `MCLobby`, `MCDelivery`, `MCStore` | | bounds and symmetry for TLC |
| `RoomProofs`, `TurnProofs`, `RulesProofs`, `PlateCountProofs`, `LobbyProofs`, `LobbyAtomicProofs`, `DeliveryProofs`, `StoreProofs` | | theorems |

`Room` follows one game from its first placement to the removal of its room; `Lobby`
follows many connections in and out of games that are only waiting, playing or
finished. They meet in `endGame`, which both have: `Room` for the order of its steps
against the callbacks of the game, `Lobby` for what it does to the clients. `Delivery`
is the layer under both: what they leave out when they "broadcast" or "answer". It
takes from `Room` only that a room changes and ends, and from `Lobby` only that clients
register, reconnect and are lost. `PlateCount` shows what `Room` and `TurnGame` assume
of `Plates`; `Store` is used by nothing but the removal of a room.

### Correspondence of `Room` with the code

One action is one critical section of `Room.mu` (or of `roomsMu`). A goroutine is a
record in `go`: a program counter and what its closure captured. Players 0 and 1 are
the read loops; `Slots` are the goroutines that callbacks and timers run in.

| Code | Actions |
|---|---|
| `handlePlaceToken` and its callback | `HandlePlaceToken`; `Wake`, `CoverPlate`, `AdvancePlacement`, `StartMatchingPhase`, `StartTimer` |
| `handleSelectPlate` | `HandleSelectPlate` |
| `handleConfirmMatch` and its callbacks | `ConfirmStopTimer` (the timer is stopped before the message is validated), `HandleConfirmMatch` or `RefuseConfirm`; `Wake`, `SetAddTokenPhase` or `HandleMatchFail`; `Wake`, `AdvanceMatching`, `StartTimer` |
| `handleAddToken` and its callbacks | `HandleAddToken`; `Wake`, then `AdvanceMatching` or the end of the game |
| `handleLeaveRoom` in a game | `HandleLeaveRoom`, then the end of the game |
| timer goroutine, `startMatchingTimer` | `TimerTick`, `TimerDone`, `TimerExpired`, `TimeoutCheck`, `GetCurrentTurn`, `HandleTimeout`, `Wake`, `AdvanceMatching` |
| `endGame`, `endGameNoMatches` | `StopTimer`, `SetFinished`, `GetWinner`, `ReportGameEnd`, `RemoveRoom` |

Abstractions:

* Broadcasts read the room and are left to `Delivery`; so are messages of failure.
  `reports` keeps the `game_end` messages, which properties speak of.
* `findPlayerRoom` and the handler's first critical section are one action: the only
  thing the registry can do in between is lose the room, and no one observes a room
  that is lost. `resetPlayersToLobby` and `removeRoom` are one action for the same
  reason: client states are not part of this module.
* `endGame` reads the two purses without the lock when it builds the message;
  `ReportGameEnd` reads them in one step.
* `SelectedPlates` and `MatchedPlates` are sets.
* Time is a clock with a tick per second. A 2 s callback sleeps two ticks, a 1.5 s one
  one or two, as it starts between two ticks. `TurnLimit` stands for 60 seconds and
  `MinTokens` for the least purse of 5.
* A ticker's channel holds one tick, and a goroutine whose `done` channel is closed
  may still take that tick: Go's `select` chooses among ready cases at random. The
  module's `go.mod` says Go 1.22, whose ticker channels stay buffered after `Stop`.

### Specifications of `Room`

The code promises different things under different schedules, so `Room` has three
next-state relations, each contained in the one before:

| | A goroutine between two locks may be held up | Two goroutines in one second |
|---|---|---|
| `Spec` | for any time | interleave |
| `AtomicSpec` | not at all | one after the other |
| `InTimeSpec` | not at all | one after the other, and the players always beat the turn timer |

`Spec` is the code as Go may run it. `AtomicSpec` is what one would get if a handler or
callback kept the lock from its first critical section to its last: what fails in it is a
flaw of the design and not of a missing lock. `InTimeSpec` leaves the turn timer out of
the race, and is what implements the rules.

The fairness of `FairAtomicSpec`: weak for each goroutine, be it a handler, a callback,
the timer or the end of a game, since the Go scheduler runs every goroutine
that can run and the mutexes are not held for ever; strong for the clock, since the
server comes to rest over and over and messages must not stop time. Nothing is assumed
of the players, who may stay silent for ever.

### Correspondence of `Lobby` with the code

A client is one WebSocket connection, and `SessionOf` says whose. A goroutine is a
connection's read loop, the callback of its grace period, or the callback that ends
the game of a room by the rules; `go` gives its program counter and the room and seat
it has captured. One action is one critical section of the matchmaker, the registry, a
room, a player's connection or a client's state.

| Code | Actions |
|---|---|
| `handleWebSocket`, `Hub.Run` | `Register`, `HubRegister` (closes the session's previous client) |
| `handleMessage`, `isMessageAllowedForState`, `message.go` | `Receive`, `ValidMessages` |
| `handleJoinQueue`, `Matchmaker.JoinQueue`, `onMatched` | `JoinAgain`, `JoinMatched` or `JoinWaits`; `StartGame` (still under the matchmaker's lock); `TellMatched` for each player, or `Wait` |
| the matchmaker's clean-up and `onTimeout` | `CleanUp`, `TellTimedOut` |
| `handleCreateRoom` | `CreateRoom`, `Wait` |
| `handleJoinRoom` | `LookUp`, `AddPlayer`, `StartGame`, `EnterGame`, `TellHost` |
| `handleLeaveRoom` | `FindToLeave`; `LeaveRoom`, `ClearConnection`, `QuitToLobby` and the end of the game, or `LeaveQueue`; `ToLobby` |
| `handleReconnect` | `FindToReconnect`, `CheckReconnect`, `SetConnection`, `Reconnected` |
| the end of the read loop, `handleClientDisconnect` | `Lose`; `FindLost`, `ClearConnectionIf`, `CheckAlone`, `DropRoom` or `StartGrace`, or `LeaveQueue`; `Unregister`, which the hub takes up (`HubUnregister`), and `Close`, in either order |
| the callback of the grace period | `GraceOver`, `GraceWakes`, `CheckAbsent`, then the end of the game |
| `endGame` | `SetFinished`, `ResetPlayersToLobby` for each seat, `RemoveRoom` |

Abstractions:

* A room code is used only after its creator was told of it (`codes`), and codes do not
  collide. A client reconnects to its own session: main.go:625 looks up the one the
  message names, and the web client sends the one it was given (index.html:1642).
* Durations are not counted: an entry may be too old at any moment, and a grace period
  ends at any moment after it began. `awayBy` is `DisconnectedAt`: the connection whose
  loss set it. A reconnection is too late exactly when the callback of that loss is due.
* Answers to the clients are left to `Delivery`. `GetClient` and the `SetState` after it are one
  step, and so are the two reads of `isRoomActive`, of the phase and then of the registry:
  a removed room does not come back, so what the second finds was true at the first.
* The name of a room that nobody can reach any more is used again, so `Rooms` bounds the
  rooms that exist at once and not those ever made.

`BusyBound` is how many handlers, callbacks, clean-ups and turns of the hub may be under
way at once: `Arrive`, which starts one, waits while there are as many. With 1 each of
them is atomic. `LobbyFairness` is weak fairness for `Work`, as the Go scheduler runs
what can run, and strong fairness for the end of each grace period (`time.AfterFunc`
fires), strong because `BusyBound` may postpone it. Players, and the rules that end a
game, owe nothing.

Two connections of one session (two tabs, or a page that was reloaded before its old
connection was noticed) break more than the hub can mend, so `StatesAgree`, `OnePlace`
and `NoGhosts` speak of sessions with one connection. With two, the old connection's
disconnect may leave its entry in the queue (main.go:714 returns before `LeaveQueue`),
and a match found for the old connection's entry puts the new one in a game that its
player is not bound to (main.go:309). No document promises otherwise; `WaitersWait`
below is a case where one does.

### What a lobby comes to: `LobbyRules`

`LobbyRules` is what the handlers of the lobby do when each of them is atomic. There is
a line of sessions that want any opponent, and each room is closed, or has a host and
perhaps a guest and a game that waits, is played or is finished. A session may step into
the line or into a room only if it is in neither (`MayEnter`); a game begins when there
are two and ends once; a room goes when its game is finished or when its host is alone
in it. `LobbyRefinement` reads a `Lobby` state as one of these: the line is who has an
entry in the queue, a room is what the registry lists, and a seat is the set of sessions
that sit in it. It promises less in three places. A session with several connections may
enter with each (`Single` are those with one). Leaving a room without an opponent ends a
game that never began (main.go:669), so `Finish` applies to it, and a host who is alone
may be lost and the room closed without any end. And it has no fairness, so a game with
two players need not ever begin. Nor is anything said of handlers that interleave: with
`BusyBound = 2` TLC finds a step that is none of the rules.

### Correspondence of `Delivery` with the code

A connection has two goroutines, its read loop and its pump; `Workers` are timers and
callbacks, and the hub is one more. `job` says for each where it is, what it is about,
the seat a broadcast is at, the client it writes to or closes and the snapshot it holds.
One action is the code between two waits: for a mutex, for a channel, or for the network.

| Code | Actions |
|---|---|
| `handleWebSocket`, `Hub.Run` | `Connect` (a send on an unbuffered channel: the hub has taken the client, not yet entered it), `HubRegister`, which closes the session's old client with `h.mu` held, `HubUnregister` |
| `Client.Close` | `BeginClose`, `CutConnection` |
| `BroadcastState`, `broadcastStateWithMessage`, `BroadcastMessage`, `SendToPlayer` | for each seat `Look` and `Snapshot`, in the order each of them has, then `WriteMessageDirect`; `NextSeat` |
| `WriteMessageDirect` | `EnterWrite`, `BeginWrite` (which has `writeMu` and lets `closeMu` go), `EndWrite` |
| `SendMessage` | `BeginSend`, `Send` |
| `WritePump` | `Take`, `TakeClosed` or `Ping`; `PumpLock`, `PumpWrite`, and `Close` at its end |
| the `join_queue` of the second player | `Start`: for each seat `Look` and `SendMessage` with `matched`, then `BroadcastState` |
| the matchmaker's `onTimeout` | `QueueTimesOut`, `Look`, `SendMessage` with `queue_timeout` |
| a handler, callback or tick that changes the room | `Change`, `End` (`endGame`) |
| a refused message; `handleReconnect` | `Refuse`; `Reconnect`, then `SendMessage` and `BroadcastState` |
| the end of `ReadPump` | `ReadEnds` (`OnDisconnect`; the `player_left` message of `handleClientDisconnect`, while a game is played), `Unregister`, `Close` |

Abstractions:

* A room is its `version`, which grows with each change. A snapshot is the version it was
  taken at. `view` and `newest` are what a connection was last sent and the newest it was
  ever sent; `due` is the version the room had when, with the connection registered,
  it last changed or the player came back.
* A write to a peer that is alive takes no time that matters. A peer that is gone or
  stalled (`Lose`) may take a write or not, and makes it fail by `writeWait` at the
  latest; after a failed write gorilla/websocket fails every later one. A ping that is
  taken changes nothing and is left out.
* Which messages change the room is left to `Room`, whether a lost connection was still
  its player's to `Lobby`: both are choices here. So a player who was waiting may be
  matched after the connection is lost, as happens when another has joined the queue.
* Answers go to the client of the read loop that sends them. Words to a player, `matched` and
  `queue_timeout`, go to whoever the hub has at the seat, with the client's new `state`;
  they are the two ways in which another goroutine sends on a channel. `join_room` looks up
  only the first player, and answers the second, so it is one of the cases of `Start` less
  a word.
* `BroadcastMessage` writes with the room's read lock held. No one waits for the room
  with one of the locks modelled here, so this makes others late, which any goroutine
  may be anyway, and closes no cycle.
* `Capacity` is the size of the `Send` channel. `BusyBound` is how many goroutines may
  have something to do when another one takes something up.

`DeliveryFairness` is weak fairness of `Work` as a whole: while some goroutine can go
on, one does. It does not say which, so `ComeToRest` cannot lean on one goroutine being
served before another, and it asks nothing of players or networks.

### Correspondence of `Store` with the code

`Begin` is the call of a method, and `Set`, `SetCode`, `Get`, `Del`, `DelCode`, `Find`
and `Read` are the commands it sends, each atomic, as they are in Redis. `Fail` is a
command that ends with an error, whether it was carried out or not; the method returns
it, so whatever came after it is left undone. `Expire` takes away a key whose time is
over, a room and its mapping one by one. `memory` is what `MemoryStore` would hold had
each successful call been one step on it. `sure` are the keys whose last call had the
key to itself and succeeded: only of those can anything be promised, as the code has no
transaction. Values are one of a few, and a mapping is known by its room, since a room
keeps its code and `generateRoomCode` is taken not to repeat itself.

## Runs

Room runs have 4 plates, the least the code allows, which gives one placement round and
the first pair of empty plates; `MinTokens = 1` makes the purses 2, so a game is won in
two matches. `PurseBound` bounds both purses together, `TokenBound` all plates together,
`Leavers` are the players that may leave: both in `RoomRules` and `RoomAnySchedule`, so
that two ends of the game meet. Plates and slots are symmetric. `OneResult` and
`HonestResult` are checked where games are won, in `RoomRules`: in the other runs the purses
do not get that far.

`LobbyAtomic` has three connections and one room at a time. Its handlers are atomic, and
two of the connections are of one session, which makes takeovers, reconnection and a grace
period that outlives its cause possible. As nothing else arrives meanwhile, the hub and
the read loop that ends are alone with each other; that `KnownWhileOpen`,
`AbsentAreWatched` and `SeatsAreKept` do not rest on this is proved. Connections are made
once, so the system stops when all are gone: `CHECK_DEADLOCK FALSE`. With two rooms and
three connections of their own the states are too many to list; that the invariants hold
there too, as for any number of each, is proved, and so is what holds under any schedule.

`Delivery` has one player with the connection `b` and another with `a1`, which the game
began with, and then `a2`. At first the player of `a1` waits for the other, or the game has
started and been shown. The peer of `a1` may go or stall, and it is the one that sends more
than what starts the game or comes back to it (`Talkers`); that of `a2` reconnects. One
goroutine beside those of the connections acts for timers, callbacks and the matchmaker's
clean-up, the room changes once, by its start or after it, one message may be refused, and
the channel holds one message, so that it is full with the next. With `BusyBound = 2` a
goroutine is taken up while one other is under way; work that starts other work (a
registration, a close, an unregistration) comes on top, so that up to four are under way.
Here, too, everyone may leave and nothing is left to do.

`Store` has one room, one session, two callers and two values: one room more would be
the same again, as calls on different keys do not touch.

`TurnGame` has ints of 8 bits for `RoomsArePlayable`, which TLC evaluates for all 256
of them, and six plates, which is one of the numbers a client can get.

| Run | Specification | Properties | Shows |
|---|---|---|---|
| `TurnGame.cfg` | `RulesSpec` | `RulesTypeOK`, `NoGap`, `PairToFind`, `EmptyPurseEnds`, `RoomsArePlayable` | The rules of the game: the counts keep no gap, a player on turn can always find a pair, an empty purse ends the game; and every number of plates a client may ask for, ints that overflow included, gives a game the rules are made for. |
| `RoomRules.cfg` | `InTimeSpec` | `TypeOK`, `OneTurnEnder`, `GapFree`, `EmptyPurseWins`, `OneResult`, `HonestResult`, `AddOnlyAfterMatch`, `OneAddPerTurn`, `ImplementsRules` | A whole game, with forfeits, when handlers and callbacks are atomic and the players beat the turn timer: one goroutine ends each turn, one result is announced and it is the one the purses give, and every step is a step of TurnGame or invisible to it. |
| `RoomAnySchedule.cfg` | `Spec` | `PlacementPairs`, `LocksHaveOwners`, `FinisherStays` | Any interleaving of handlers, callbacks, timers and forfeits, lock by lock: the placement phase still deals in pairs, no lock is left behind, and whoever finished the game stays until the room is removed, both players leaving at once included. |
| `RoomLiveness.cfg` | `FairAtomicSpec` | `NoPeeking`, `FinishedIsFinal`, `LocksAreReleased`, `EndIsCarriedOut` | Atomic handlers and callbacks, turns that time out and fair scheduling, with no assumption on the players: plates are covered whichever callback ends the turn, a finished game stays finished, a flag that blocks the players is reset or the room goes, and a decided end is carried out. |
| `LobbyAtomic.cfg` | `FairLobbySpec` | `LobbyTypeOK`, `KnownWhileOpen`, `StatesAgree`, `OnePlace`, `NoGhosts`, `AbsentAreWatched`, `SeatsAreKept`, `AbsentAreForfeited`, `ImplementsLobbyRules` | Atomic handlers, a session with two connections and one with one, under fair scheduling: the state a client is in says where its session is, a session is in one place, a taken seat stays taken, no lost connection leaves a player behind, somebody sees to every player who is away, and who stays away is forfeited; and every step is a step of LobbyRules or invisible to it. |
| `Delivery.cfg` | `FairDeliverySpec` | `DeliveryTypeOK`, `OneWriter`, `NoDirectWriteAfterClose`, `NoSendOnClosed`, `EveryChangeIsShown`, `ComeToRest`, `GoneAreForgotten` | The start of a game or its time-out, broadcasts, answers, pings, closes and a reconnection on three connections of two players, lock by lock, with a peer that goes away or stalls: one writer at a time, no send on a closed channel, no change of the game that an open connection is not shown, everything comes to rest, and dead connections are forgotten. |
| `Store.cfg` | `StoreSpec` | `StoreTypeOK`, `SameAsMemory`, `AnswersAreTrue` | Two callers at once on a room and a session, command by command, with commands that fail half-way and keys that expire: a call that succeeds undisturbed leaves RedisStore as MemoryStore would be, and an undisturbed lookup is answered likewise. |

A message or callback that finds no free slot is disabled, so the number of slots is a
bound: two allow for two callbacks at once, or a callback and a timer. `TurnLimit` is 3
where a confirmation is to fall before, at or after the expiry, and 1 where it is enough
that turns expire. `PurseBound` allows for a win by
tokens, an empty purse, and at least one miss or time-out for each player.

Every property has a mutant in `PROJECT.json`: an operator `X_...` beside the definition
`X` it would replace, which is the bug the property is there to catch.

### What the code does not keep

These runs end in a counterexample. Each checks one sentence of the repository.

| Run | Specification | Property | What the run shows |
|---|---|---|---|
| `RoomAddAfterTimeout.cfg` | `AtomicSpec` | `AddOnlyAfterMatch` | After the turn timer has expired the turn stays open for 2s: confirm_match is still accepted, AdvanceMatching then clears the selection under the reveal, and the reveal callback enters the add-token phase with whatever the next player has selected. internal/game/state.go:153 says `SetAddTokenPhase transitions to add token phase after successful match`. (`src/memory-feast-online/internal/game/room.go:225`) |
| `RoomTurnLimit.cfg` | `FairAtomicSpec` | `TurnIsLimited` | handleConfirmMatch stops the turn timer before HandleConfirmMatch decides whether the confirmation is valid; when it is refused (one plate selected, or the other player's turn) nothing restarts the timer and the turn has no limit. docs/TERMINOLOGY.md:231 says of MatchingTimeLimit `매칭 단계 턴 제한 시간(초)` (turn time limit of the matching phase). (`src/memory-feast-online/cmd/server/main.go:522`) |
| `LobbyGrace.cfg` | `LobbySpec` | `GraceIsFull` | The callback started by a disconnection asks only whether the player is connected when it wakes: a player who was away, came back and was lost again is forfeited by the first callback, with less than the grace period gone. internal/ws/message.go:154 announces the period to the opponent as `seconds until forfeit`, and docs/TERMINOLOGY.md:229 defines it as `상대 연결 끊김 후 복귀 허용 시간` (time allowed to come back after a disconnection). (`src/memory-feast-online/cmd/server/main.go:738`) |
| `LobbyDequeued.cfg` | `LobbySpec` | `WaitersWait` | handleClientDisconnect of a connection whose session is in no room calls LeaveQueue with the session, whichever connection joined the queue: the new connection of a player who reloaded the page stays Waiting, is in no queue and can only leave. docs/TERMINOLOGY.md:16 defines Waiting as `매칭 대기열 또는 방에서 상대 대기 중` (waiting for an opponent in the matching queue or in a room). (`src/memory-feast-online/cmd/server/main.go:705`) |
| `DeliveryState.cfg` | `DeliverySpec` | `StateFollows` | handleWebSocket hands the new client to the hub's goroutine (hub.go:67) and reads on; a reconnect message handled before that goroutine has entered the client (hub.go:47) is answered over the new connection, but room.BroadcastState looks the session up in the hub and finds the old client or none, so the player who is back is sent no state until the room next changes. The code announces it there as `// Send current game state` (cmd/server/main.go:665), and the web client relies on it: `// Game state will follow automatically from server` (web/index.html:1815). (`src/memory-feast-online/cmd/server/main.go:666`) |

They show where the promises above stop: a turn ends once and tokens
are only added after a match as long as the confirmation beats the timer
(`InTimeSpec`). In the lobby both runs need two connections of one session and nothing
else: their handlers are atomic. `DeliveryState` needs a reconnection that overtakes the
hub's goroutine.

A finished game stays finished (`FinishedIsFinal`) only as long as handlers and callbacks
do not interleave. With `Spec` instead of `FairAtomicSpec` in `RoomLiveness.cfg` and
without symmetry-breaking and the liveness properties, TLC shows a callback of
`place_token` that has passed `isRoomActive` (main.go:480) and starts the matching phase
after a forfeit has set the game finished.

Nor is one result the only one (`OneResult`) when they interleave: with it as an invariant of
`RoomAnySchedule.cfg`, TLC shows both players leave, each handler pass `isRoomActive`
before the other's `SetFinished`, and each announce that its opponent has won. Both say that
the game ends, and the room is removed; that much, and that whoever finished it stays until
then (`FinisherStays`), is kept.

## Proofs

TLAPS checks these for every set of plates, every number of slots and every limit
allowed by the `ASSUME`s of `GameState`, `Room` and `TurnGame` (an even number of plates, at
least four; positive limits; slots that are not players); for any connections,
sessions, rooms and `BusyBound` that satisfy `LobbyAssumption` (each connection has a
session; at least one handler runs); for any connections of the two players, faulty and
talking peers, workers, capacity and bounds that satisfy `DeliveryAssumption`; for any
keys, callers and values of a store (`StoreAssumption`: room and session keys are
different keys); and for ints of any width of at least 7 bits (`IntAssumption`).

| Theorem | Module | Establishes |
|---|---|---|
| `Typing` | `RoomProofs` | For any number of plates and goroutines and under any schedule every variable of a room keeps its type. |
| `LocksOwned` | `RoomProofs` | Under any schedule a lock that is set has a callback on its way that will reset it, unless the room is being closed. |
| `FinishersStay` | `RoomProofs` | Under any schedule a finished game is in the hands of a goroutine that will report it and remove the room. |
| `PairsPlaced` | `RoomProofs` | Under any schedule and for any number of plates the placement phase deals two plates to each completed round. |
| `NobodyPeeks` | `RoomProofs` | With atomic handlers and callbacks, and whatever callback ends the turn, a plate is open only as long as the turn that opened it lasts (the callback that will cover the plate placed on, or the two plates confirmed or matched), and no more than two are open. |
| `FinishedStays` | `RoomProofs` | With atomic handlers and callbacks a finished game stays finished. |
| `OneReport` | `RoomProofs` | With atomic handlers and callbacks, time-outs and forfeits included, one result at most is announced, and a game that ends for want of a pair is won by who holds fewer tokens. |
| `RoomPlaysByTheRules` | `TurnProofs` | As long as the players beat the timer, a room of any size with any number of callbacks implements the rules of TurnGame, for any purse and turn limit. |
| `TurnsEndOnce` | `TurnProofs` | As long as the players beat the timer one goroutine at most is about to end the turn, whatever ends it. |
| `RoomLeavesNoGap` | `TurnProofs` | The counts of a room leave no gap in the matching phase: what the rules promise holds of the room that implements them. |
| `EmptyPursesWin` | `TurnProofs` | A player whose purse is empty has a goroutine under way that ends the game. |
| `ResultsAreHonest` | `TurnProofs` | With atomic handlers and callbacks, and as long as the players beat the timer, whoever is reported to have won by tokens holds none: the purse that decided is still empty when the winning callback wakes. |
| `TokensFollowMatches` | `TurnProofs` | With atomic handlers and callbacks, and as long as the players beat the timer, a token is only added to one of two open plates that hold equally many, and is paid for from the purse of the player on turn. |
| `OneTokenATurn` | `TurnProofs` | One token at most is added in a turn. |
| `RulesKeepTypes` | `RulesProofs` | For any number of plates and tokens every variable of the rules keeps its type. |
| `RulesLeaveNoGap` | `RulesProofs` | For any number of plates the counts leave no gap in the matching phase. |
| `RulesLeaveAPair` | `RulesProofs` | For any number of plates a player who is to look for a pair can find one. |
| `RulesKeepPlatesLow` | `RulesProofs` | For any number of plates no plate ever holds as many tokens as there are plates (pigeonhole principle on NoGap). |
| `RulesEndOnEmptyPurse` | `RulesProofs` | For any purse an empty purse ends the game on the spot. |
| `LobbyTypesHold` | `LobbyProofs` | For any connections, sessions and rooms and under any schedule every variable of the lobby keeps its type. |
| `OpenAreKnown` | `LobbyProofs` | Under any schedule a connection that is open, and that its own read loop has not given up, is the one the hub knows its session by, however old and new connections of a session overlap. |
| `WatchHolds` | `LobbyProofs` | Under any schedule and with any number of handlers at once, in every room that is listed somebody is under way who will see to a player without a connection: the read loop that lost it, the grace period, or whoever ends the game. |
| `SeatsStay` | `LobbyProofs` | Under any schedule a taken seat is never given to another player. |
| `AtomicStatesAgree` | `LobbyAtomicProofs` | With atomic handlers, for any connections, sessions and rooms, the state of the only connection of a session, which decides what it may send, says whether the session waits, plays or does neither. |
| `AtomicOnePlace` | `LobbyAtomicProofs` | With atomic handlers a session with one connection is never in two rooms, or in a room and in the queue. |
| `AtomicNoGhosts` | `LobbyAtomicProofs` | With atomic handlers the only connection of a session, once gone, is left neither in the queue nor at the seat of a room. |
| `LobbyPlaysByTheRules` | `LobbyAtomicProofs` | With atomic handlers a lobby with any connections, sessions and rooms implements LobbyRules: nobody enters who is somewhere already, a game begins with two players and once, ends once, and its room stays until then. |
| `CountsArePlayable` | `PlateCountProofs` | For ints of any width that hold 20, any number a client sends, the ones that overflow included, gives a room an even number of plates from 4 to 20. |
| `RoomsCanBePlayed` | `PlateCountProofs` | For ints of any width: what a client gets is a game that the rules work with, and each game of the rules with up to 20 plates is one that a client gets by asking for its number. |
| `DeliveryTypes` | `DeliveryProofs` | For any connections, goroutines and channel capacity and under any schedule every variable of the delivery keeps its type, and no Send channel overflows. |
| `WritersTakeTurns` | `DeliveryProofs` | Under any schedule one goroutine at a time writes to a connection. |
| `WritesPrecedeClose` | `DeliveryProofs` | Under any schedule no broadcast writes to a connection that has been closed. |
| `SendsFindItOpen` | `DeliveryProofs` | Under any schedule no goroutine sends on a closed channel, be it the client's own reader or another that tells it of a match or a time-out. |
| `ChangesAreShown` | `DeliveryProofs` | Under any schedule and for any connections every change reaches every connection that was registered when it came about and still works, and so does the state of the room when it reconnected. |
| `StoreTypes` | `StoreProofs` | For any keys, values and callers every variable of the store keeps its type. |
| `StoresAgree` | `StoreProofs` | Whatever failed or expired before, a call that succeeds undisturbed leaves RedisStore answering as MemoryStore does. |
| `LookupsAgree` | `StoreProofs` | An undisturbed lookup is answered as MemoryStore would answer it, although it may read two keys one after the other. |

* *Room, any schedule.* `TypeOK` is inductive by itself. `LocksHaveOwners` is not: a
  callback that finds the room inactive returns without resetting its flag, so the
  proof needs `FinisherStays`: a finished room has a goroutine that is on its way to
  remove it. `LocksInd` is the conjunction. `PlacementPairs` needs to know that one
  callback at most is moving the placement on (`OnePlacer`) and that the game starts
  once (`StartOnce`); counting the plates with a given number of tokens is then an
  argument about finite sets.
* *Room, atomic handlers.* `AtomicInd` starts from the fact that one goroutine at most is
  busy (`OneBusy`). A game that is finished, or gone from the registry, is then at rest but
  for the goroutine that ends it (`FinishedAtRest`), so no late callback revives it. What is
  open follows from that (`Covers`): in the placement phase the plate just placed, until the
  callback of the placement is through; in the matching phase the pair that is being shown.
  `AdvanceMatching` would leave an open plate behind if it found no pair on the table, so
  `Covers` needs the placement's count of plates (`PlacementGoesOn`, `PairToMatch`).
* *Room, atomic and in time.* `TurnInd` adds that the timer has not expired (`InTime`) and
  that one goroutine at a time conducts the game (`OneConductor`): the timer while a player
  thinks (`TimerRuns`), the callback of the move after that. The flag of a move keeps the
  other player's messages out while that callback sleeps (`PhaseFlags`), so what it knew of
  the turn when it was made is still so when it wakes (`ChainKnows`); whoever ends the game
  is alone until the room is gone (`Ends`). The refinement is proved from `Joint`, which is
  `AtomicInd`, `TurnInd` and the inductive invariant of the rules read through the mapping:
  each step of the room is one step of the rules or leaves them as they are, and a
  `HandleAddToken` is one only because the rules say that the purse is not yet empty. So the
  invariants of the two levels hold each other up, and what is proved of the rules (`NoGap`)
  comes back as a promise of the room (`GapFree`).
* *Rules.* `NoGap`, `PairToFind` and `EmptyPurseEnds` are proved from one inductive
  invariant that also says how many plates carry each count while the tokens are being
  dealt (`PlacementCount`) and that a pair that was shown is a pair (`PairShown`).
  `PlatesStayLow` follows by the pigeonhole principle: a plate with `n` tokens and no gap
  under it needs `n + 1` plates.
* *Lobby, any schedule.* `LobbyInv` adds to the types and `KnownWhileOpen` what they need to
  be inductive: the queue has one entry at most, whoever the hub is asked to forget is closed
  or about to be closed by its own read loop (`LeaversClose`: client.go:34-35 asks the hub
  first and closes then, so the hub may forget a client that is still open, but only one
  that has given itself up), and a room that somebody
  can get at has its first player (`FirstSeatTaken`; a joiner writes the second seat, so
  `SeatsStay` needs to know that the only free seat is that one). `FirstSeatTaken`
  speaks of everyone who holds the room, in the registry, in a goroutine or by its code.
  `AbsentAreWatched` needs, beyond these, that the end of a finished room is under way and
  that a connection has one grace period (`WatchInv`): a callback that gives up because the
  room is no longer active leaves the absent player to whoever finished it.
* *Lobby, atomic handlers.* These theorems have the hypothesis `BusyBound = 1`: nothing
  arrives while a goroutine, the hub or the clean-up of the queue is in the middle of its
  work (`OneAtATime`). The three invariants are about what holds in between, so
  `AtomicLobbyInv` also says what is true half-way. `JobsKnow` is what each goroutine at
  work may rely on at each of its steps: the creator whose room a joiner enters is still
  alone in it, the room to be ended is still listed, the player who is absent has not come
  back. `Owed` names the two cases in which a client's state and its place differ, the start
  and the end of a game, and the goroutine that will put that right; the clean-up of the
  queue is the third, since it takes the entry out first and tells the client after
  (`Late`). The remaining parts tie the tables together: the hub holds every client under
  its own session (`HubHoldsItsOwn`), a seat's connection is one of its player's
  (`ConnectionsMatch`), and a finished room that is listed is being removed
  (`EndsArePending`). `Solo` is what the three invariants need of a session with one
  connection; a session with two breaks it, as `LobbyDequeued` shows.
* *Lobby, refinement.* `LobbyPlaysByTheRules` goes through the actions one by one: each
  is one step of `LobbyRules` or leaves the line and the rooms as they are seen. That who
  enters is nowhere else, and that a joiner finds the host alone, is in `AtomicLobbyInv`
  (`SoloAtWork`, `JobsKnow`). How far a game is, is not: `PhasesMatch` adds that a listed
  room that waits has two players only while a goroutine is about to start its game, and
  that whoever starts or ends a game finds it where the rules have it. It is an invariant
  because a room's phase and seats change only by the goroutine at work, which hands the
  room on in the phase that its next step expects. From it follow that `StartGame`
  begins a game of two that waits, that `SetFinished` ends a game that is played or the
  room of a lone host, and that `RemoveRoom` closes one that is finished.
* *Clamp.* `CountsArePlayable` is arithmetic with `%` and `\div`, by cases on where the
  int lies and whether it is odd. `RoomsCanBePlayed` adds what `TurnGame` assumes of its
  plates: with at most 20 of them they are a number the clamp keeps.
* *Delivery, any schedule.* `DeliveryInv` adds to the types who owns which mutex at which
  step (`Owners`: one owner, and whoever is at a step between lock and unlock is it),
  whose client a step is about (`Aims`), what a closed, cut or failed connection implies
  (`Flags`), that nobody is due a change the room has not had, or anything before the hub
  has entered it (`Dues`), and `Reach`: for every registered connection that has not been
  shown what it is due there is a broadcast under way that is still to look its seat up,
  or is at its seat with a snapshot that is new enough, or an answer to a reconnection or a
  word of the start, which a broadcast follows whether or not the channel takes it. `OneWriter`,
  `NoDirectWriteAfterClose` and `NoSendOnClosed` follow from `Owners` and `Flags`,
  `EveryChangeIsShown` from `Reach`.
* *Store.* An undisturbed call that writes is the only one on its key that does (`Alone`),
  and what it has done so far is known (`Done`); an undisturbed lookup is about a key
  that is sure, so nobody writes it (`Looks`). With these `SameAsMemory` and
  `AnswersAreTrue` are inductive.

Only model-checked: liveness (`LocksAreReleased`, `EndIsCarriedOut`, `AbsentAreForfeited`,
`ComeToRest`, `GoneAreForgotten`), which is out of the prover's reach. Every other
property of a passing run is stated by one of the theorems above. `PlatesStayLow` is a
consequence of `NoGap` that is proved but in no run.

## Not modelled, and what is left

* **The local game** (`/memory-feast.html`) is an older version for one browser, with a
  copy of the rules of its own. It shares no code and no state with the server.
* **The web client** (`web/index.html`) draws what it is sent. It keeps a session id and
  opens its socket again when it is lost; what the server sees of that is modelled:
  connections that come, go and reconnect at any time.
* **What a snapshot shows** of the plates (`GetGameStateForPlayer`), and that it shares
  the slice of selected plates with the room: `Delivery` has only its version.
* **Timing of writes**: `writeWait`, `pongWait` and `pingPeriod` are no numbers here, only
  the certainty that a stalled write or a silent peer ends in an error.
* `RemovePlayer` (`room.go`), `WriteMessage` (`player.go`) and most of the store are never
  called by the server; the first two are left out. So are the queue look-ups nobody calls
  (`GetQueuePosition`, `QueueSize`, `GetEntryBySessionID`).
* **The origin check** (string comparison), the HTTP set-up and the deployment files keep
  no state of the system.

Left to do: more of the lobby under any schedule. Reconnection with interleaving
handlers has millions of states with three connections, and what is proved of it are the
types, the registration of clients, the seats and that somebody sees to every player who is
away. `PROJECT.json` names, under its hazards, the races that no property covers, and why.
