# A TLA+ model of the quepu room server

The repository is the server of a mahjong room application ("雀谱"): a Node.js
process that keeps rooms as event-sourced aggregates, serves them over REST and
WebSocket, persists them in memory or in PostgreSQL with a Redis lock, and times
turns out by itself. This directory models its core in TLA+, checks the models
with TLC on small instances, and proves the most important facts for every
instance with TLAPS.

Paths are relative to the repository: `src/domain/room.js` is
`src/src/domain/room.js` in `PROJECT.json`.

## 1. The system

### 1.1 Parts, their state and their operations

| Part | State it keeps | Operations | Hard behaviour |
|---|---|---|---|
| **Room aggregate** `domain/room.js` | status, owner, seats, ready flags, scores, zeng, round, flower states, turn, deadline, last events | the commands of `Room.execute`; replay with `applyPersistedEvent`, `restoreSnapshot` | long legal sequences of commands; replay must agree with execution |
| **Susong flowers and piao** `domain/rules/susong.js` | flower state of a player | create, draw, resolve | one choice at the right moment |
| **Room actor** `domain/room-actor.js` | the aggregate in memory, a queue of calls | `dispatch`: lookup, lock, recover, find stored command, execute, append, presence, record the answer, restore on failure, release | every `await` may fail, interleave with other processes, or be the last thing a process does |
| **Locks** `MemoryRoomLock`, `infra/redis/fencing-lock.js` | a lease and a fencing token per room | acquire, assert, release | leases expire while they are relied on |
| **Event store** `infra/persistence/game-memory.js`, `postgres.js` | events, command results, presence, snapshots, outbox | conditional append, lookup, save | conditional writes; check and write in two calls (PostgreSQL) |
| **Presence overlay** | connection flags beside the event stream | disconnect, reconnect, merge on recovery | an overlay may be older than the snapshot it is laid over |
| **Turn deadlines** `domain/deadline.js`, `infra/persistence/deadline-store.js` | timers and entries in memory; one row per deadline with a lease and a token | schedule, refresh, expire (claim, dispatch, complete), cancel, close, recover | timers race players, processes race each other, calls that are not awaited, restarts |
| **Realtime gateway** `modules/realtime/gateway.js` | subscriptions with a last version, send queues, grace timers | subscribe, broadcast, sync | version gaps, backpressure, reads across an await |
| **Room service, HTTP** `modules/room/*.js` | none of its own | `createRoom`, `settleSusongRound`, dispatch of commands, routes | `createRoom` searches all rooms and then creates; `settleSusongRound` scores the room in memory and applies the result later |
| **Server** `server.js` | sockets, each with a player and an access token; the index of a player's sockets | session commands, room commands one after the other per socket, close | sockets of a player come and go in any order; a socket closes with commands unserved; a close tells one room after the other |
| **Auth** `modules/auth` | sessions, tokens, exchanged tokens, bans, in memory | login, refresh, check, logout, ban | a token exchanged before ends its session |
| **Susong scoring** `domain/rules/susong-scoring.js`, `susong.js` | none | tier, payers, amounts, deltas of a round | kongs, sanxi, flowers and zeng together |
| **Support desk** `modules/support` | tickets, messages, audit log, idempotency records, in memory | create, reply, close | read, run and save with an await in between |
| **Outbox** | rows to publish | claim, publish, retry | no publisher runs in this code |
| **Client** `clients/dart_protocol`, Flutter app | phase, tokens, last version, snapshot, commands without an answer | connect, sign in, refresh, apply, detect gaps, synchronise, send again | answers overtaken by events; connections that end at any time; repeated commands |
| Protocol validation, configuration, metrics, logging, rate limits, module stubs | | | stateless, or counters nobody reads |

### 1.2 How they interact

A socket or HTTP request becomes a command with a `commandId`. The room service
gives it to `registry.dispatch`, which serialises the calls of one process per
room; the actor takes the room lock, rebuilds its aggregate from snapshot and
events, looks for the command id among the recorded answers and in the stream,
executes the command on the aggregate, appends its events on the condition that
the version is still the one it started from, saves the presence overlay,
records the answer and releases the lock. Afterwards the service calls
`deadlines.refresh` with the aggregate, and the gateway broadcasts the event.
When a timer goes off, the scheduler claims the deadline's row and dispatches a
command of its own through the same actor. Other processes do the same over the
same PostgreSQL and Redis; nothing but these stores is shared.

Who sends a command is decided by the access token of its socket. A session command
(login, refresh, authenticate, logout) changes sessions in the auth service and the
socket's place in the index of connections in one go; a socket's close takes it out
of the index and, if it was the player's last, disconnects the player from every
room through the actors' queues. Sessions, sockets and support tickets are of one
process and die with it; rooms and results of commands do not.

### 1.3 What makes each part correct

* Actor: a command id is applied at most once and every answer for it agrees; an
  answered event is durable; after a failed command the aggregate in memory
  shows only what is durable; writes are ordered by fencing tokens.
* Room: replaying events on any checkpoint gives the room that appended them;
  scores sum to zero; the owner is at the table; turn, readiness and deadline
  fit the status; flowers are neither lost nor counted twice; the room goes
  through its life cycle and never deals more rounds than agreed.
* Presence: the last word about a connection survives events and recoveries.
* Deadlines: a timeout ends only the turn it was set for, once, and not before
  time; the rows tell what happened; an armed turn ends.
* Gateway and client: over a connection versions come once and in order, and while
  the socket listens none is left out; events and answers to reconnects show durable
  rooms, and where the room in memory is shown at most its last event may be lost;
  after a gap, a lost connection or a failed call a client gets back online with the
  current room.
* Sessions: a session has one refresh token that can be exchanged, its newest, and
  none once it is revoked.
* Sockets: the index of a player's connections is the sockets signed in as that
  player; a player is offline when the last of them has gone, not before, and a
  socket listens to rooms as the player it is.
* Requests with a key: carried out once, every answer alike; a room that was given
  to a caller is durable and a retry finds it, although the room and the result of its
  command may be two writes; no room that is not durable stays in memory.
* Settlement by the rule engine: once per round, and by the rule sheet for the room
  as it is when the settlement is applied.

## 2. The modules

| Module | Models | Used by |
|---|---|---|
| `CommandLog` | abstract: an append-only log in which a command id is applied at most once | refined by `RoomActor` |
| `RoomActor` | the command pipeline of several processes over lock and store | `MCRoomActor`, `RoomActorProofs` |
| `RoomActorProofs` | theorems about `RoomActor`: types, at most once, fencing; answers, the idle aggregate, the command log | |
| `SusongFlowers` | the flower state of one player (operators) | `Room` |
| `RoomLifecycle` | abstract: the life of a room as its users see it | refined by `Room` |
| `Room` | the aggregate with all its commands and events, and its replay | `MCRoom`, `RoomPresence`, `Settlement` |
| `RoomPresence` | extends `Room` with connection flags, snapshot and overlay | `MCRoomPresence`, `RoomProofs` |
| `RoomProofs` | theorems about `Room` and `RoomPresence` | `SettlementProofs` |
| `Deadlines` | timers of several processes over the durable deadline store | `MCDeadlines`, `DeadlinesProofs` |
| `DeadlinesProofs` | theorems about `Deadlines` | |
| `RoomFeed` | the gateway, the socket handlers that feed it, and the Dart clients | `MCRoomFeed`, `RoomFeedProofs` |
| `RoomFeedProofs` | theorems about `RoomFeed` | |
| `AuthService` | sessions and tokens | `Connections`, `AuthServiceProofs` |
| `AuthServiceProofs` | theorems about `AuthService` | `ConnectionsProofs` |
| `Connections` | sockets, the index of connections, session commands, presence in several rooms, the Dart clients' session side | `MCConnections`, `ConnectionsProofs` |
| `ConnectionsProofs` | theorems about `Connections` | |
| `SupportDesk` | tickets, audit log and idempotency records | `Requests` |
| `RoomCreation` | `createRoom`, the registry of rooms, the store of checkpoints and results | `Requests` |
| `Requests` | both of them in one process that may restart | `MCRequests`, `RequestsProofs` |
| `RequestsProofs` | theorems about `Requests` | |
| `SusongScoring` | the scoring of a round (operators), over `SusongFlowers` | `Settlement` |
| `Settlement` | the rule engine over `Room` and the actor's queue | `MCSettlement`, `SettlementProofs` |
| `SettlementProofs` | theorems about `Settlement` and the operators of `SusongScoring` | |

The modules are cut where the code is: `Room` has no idempotency and no versions
(a refused command is no step, every command is new), because the actor decides
these; `RoomActor` knows of a room only which requests were applied to it and how
many events a request produces; `Deadlines` sees a dispatch as one step, which is
what `RoomActor` establishes (`ImplementsLog`); `RoomFeed` keeps of a dispatch the
steps in which memory and store differ, since sockets may look at either.
`Connections` takes of the rooms the queue of each and the flags of presence,
`Settlement` extends `Room` by the actor's queue and by what is durable.

### 2.1 RoomActor

One action per stretch of code between two awaits of `_dispatchNow`: `Lookup`
(506-515), `AcquireMemory`, or `AcquireGet`, `AcquireIncr` and `AcquireSetNx` for
the three Redis calls, `AssertLease`, `Recover`, `RecoverPresence`, `FindResult`,
`FindEvents`, `Execute`, `AssertWrite`, `AppendBatch`, `SavePresence`,
`SaveResult`, `Restore` and `Release`. Where PostgreSQL checks the lock in one
call and writes in another, the check is a step of its own (`CheckAppend`,
`CheckPresence`, `CheckSave`); in the memory store the check is part of the write.
`CallFails` is any of these calls throwing before it had an effect; a call that
throws after it had one is part of the action (the append may be durable and the
caller see an error). `Crash` loses everything in memory; `LeaseExpires` may come
between any two steps, as nothing renews a lease. The variable `backend` chooses
the deployment at the start: `memory`, `redis` (with PostgreSQL) or `nolock`
(PostgreSQL without `REDIS_URL`).

The state: `events`, `results` and `presence` are the tables; `storeToken` the
memory store's own fencing record; `lock` and `fence` the lock service; `pc`,
`cur`, `tok`, `ver`, `room` and `out` the locals of a dispatch and the aggregate
in memory. `suspect`, `acks` and `base` are history.

### 2.2 Room and SusongFlowers

`room` is the aggregate; each command of `Room.execute` is one action that either
appends one event (two with `next_round` and `autoDeal`) or does nothing. `copy`
is the same room rebuilt from a checkpoint: `Append` gives it the event through
`ApplyPersistedEvent`, which has one definition per event type, and `Checkpoint`
replaces it by a snapshot. Tiles, hands, names and times are left out; of a hand
only the number of flowers counts, of a deadline only whether it is set, of a
settlement the deltas or transfers the server rule engine may author.

### 2.3 RoomPresence

Extends `Room`. `connected` are the flags in memory, `stored` those of the latest
snapshot, `overlay` the last saved presence. Every `RoomCommand` saves a snapshot
(`snapshotEvery` is 1 by default, and no deployment here sets it), connection
changes save the overlay only, and `Recover` lays the overlay over the snapshot.
Room commands and connection changes first rebuild the aggregate, as
`RoomActor.dispatch` does. A version and the timestamps of the overlay are not
kept: `mergePresence` does not use them to decide.

### 2.4 Deadlines

A deadline is named after the room version at which its turn began (the code's id
is `turn:room:round:version`), so versions stand for deadlines. `rec` is the table
`game_deadlines`; `entry` the scheduler's map, with `scheduled` and `waiting` for
the code's `scheduled` (without and with `retryAt`), `firing`, and then the point
that `expire` has reached: `claimed`, `checked`, or the outcome it is about to
record. `calls` are store calls not awaited by their caller and not yet executed,
in any order except that a `cancel` follows the `upsert` of its entry
(`persistPromise`). `seen` is what a process has in memory of the room; it may be
behind. `late` is the clock, as far as deadlines can tell: those up to `late`
have passed.

`Play` is a command of a player through this process, `Refresh` the refresh after
it, `RefreshMissed` the case in which the command was stored and answered with an
error. `Subscribe` refreshes the aggregate as it is, `Reconnect` after recovery.
`Fire`, `Claim` / `ClaimLater` / `ClaimRefused`, `CheckStale`, `DispatchTimeout`
and `Complete` are the stretches of `expire` between its awaits. `Close` and
`Crash` end a process, `Restart` is `recoverAll` of a new one.

`calm` tells two kinds of behaviour apart, chosen at the start. Rough behaviours
have everything: several processes, stale aggregates, calls that fail or arrive
in another order, early clocks, refused dispatches. Calm behaviours have one
process (which may still crash at any step and be started again), and its store
calls take effect in the order it makes them; the liveness properties are about
these.

### 2.5 RoomFeed

A room is the sequence of the events that made it, each with a number of its own
(`made`), so that a room whose last event failed to be appended differs from the
durable one of the same version. `durable` is the stream, `mem` the aggregate in
memory, `calls` the actor's queue, `handler` what `handleCommand` is doing for
each client (one request at a time, `__messageTail`) and for the scheduler's
`onTimeout`.

| Code | Actions |
|---|---|
| `handleCommand`, command or join | `HandleCommand` (reads `beforeVersion`), then `Execute`, `AppendEvents`, `Answer`, or `Refuse`, `DispatchFails`; `AnswerAgain` for a command applied before |
| `handleCommand`, reconnect, with `gateway.sync` | `HandleReconnect`, `SyncDispatch` (the room is kept), `SyncAnswer` (events read, socket subscribed, answer sent), `SyncFails` |
| `handleCommand`, subscribe; create_room when its result is found | `HandleSubscribe`, `HandleCreate`: the room in memory, at once and in no queue |
| `handleCommand`, refresh, login, auth (`addClient`, `removeClient`, `gateway.disconnect`) | `HandleRefresh`: the socket ceases to listen and stays open |
| `onTimeout` | `Timeout`, then as a command |
| `broadcast`, `_broadcastNow` | `tail` is the chain of `broadcastTails`; `PublishNothing`, `PublishNext`, or `ReadGap` followed by `PublishGap` or `GapFails` |
| `subscribe`, `send` | `Subscribe` (the first listener moves `cursor`), `Send` (a full queue closes the socket) |
| REST commands, other processes | `Foreign`: an event that nobody here publishes |
| the Dart client | `SendCommand`, `SendSubscribe`, `SendRefresh`, `Resync`, `Resend`, `ReceiveEvent`, `ReceiveSync`, `ReceiveCreated`, `ReceiveSubscribed`, `ReceiveRefreshed`, `Disconnect`, `Connect` |

`inbox` is at once the bounded queue of the socket and what is on the wire: a
message leaves it when the client receives it. `ghost` says that a socket was
subscribed after it had closed (its player left while the reconnect was served):
it takes nothing, but the room's listeners are never empty again. `fed`, `left` and
`given` are history: the event versions sent over the present connection, after how
many of them its socket ceased to listen, and the clients whose room came with the
answer to a create.

`HandleRefresh` stands for whatever ends the subscriptions of a socket that stays open:
a refresh, which the client sends by itself, or a login, an auth or an unsubscribe. The
client is not told and does not subscribe again; a join or a reconnect that it sends
later over the same connection does. A create that is sent again reaches the server
before the events its sender makes: the client keeps a create until it is answered and
sends it again after a timeout or on the next connection. `Init` therefore has one on
its way, or none; it is taken from the budget of `MaxFailures`.

A client has one connection at a time and connects again when the server has finished
with the last one; acknowledgements that show no room change nothing modelled and are
left out; a refused command changes nothing at the client but for a version conflict,
which is `Resync`. Of several unanswered reconnects of a client the latest is kept. A
client sends a command when the one before was served: sent earlier it would wait for
that, as the server serves one at a time (`__messageTail`). A command makes one event;
two at once would be the gap of two that a `Foreign` event makes. In the code an
answered handler continues a few microtasks after the dispatch left the queue; the model
takes these as one step, as the next dispatch begins with calls of the store.

### 2.6 AuthService and Connections

`AuthService` has one action per method of `auth/service.js`, all of them synchronous:
`CreateSession`, `RotateTokens`, `Revoke`, `RequireAuth`, `Exchange` and `RefuseRefresh`
(the two outcomes of `refresh`), `Logout`, `BanUser`. A token is its session and its
number there; time is the age of a session's tokens (`Age`). One-time codes and user
records are data.

| Code | `Connections` |
|---|---|
| `addClient`, `removeClient` | `AddClient`, `RemoveClient`; `clients` is the index, `player` and `token` are `ws.playerId` and `ws.accessToken` |
| session commands of `handleCommand` | `ServeLogin`, `ServeRefresh`, `ServeAuth`, `ServeLogout` |
| a reconnect to a room, with `gateway.sync` | `ServeReconnect`, `EnterQueue` (the actor has recovered), `RunCall` or `CallFails`, `Subscribe` |
| the close handler | `Close`, then one `RunCall` or `CallFails` per room (`leaving`) |
| `__messageTail` | `queue`, `busy`: one command at a time, also those received before the close |
| the Dart client | `Connect`, `LoseConnection`, `SendLogin`, `SendRefresh`, `SendLogout`, `SendReconnect`, `Resend`, `Receive` |

`signed`, `strayed` and `overtaken` are history: `signed` says who a session command
signed in on a socket and none signed out again. The other two name the players for
whom the code may leave the flag of presence wrong, and the properties leave them out:

* a command served after its socket had closed signs the player in, or connects the
  player to a room, on a socket that will not close again (`strayed`);
* a socket that signs in as another player does not disconnect the first from the
  rooms (`strayed`), and a disconnect that fails is only logged (`strayed`);
* the close handler tells one room after the other, with an await each, and a player
  who is back meanwhile is disconnected from the rooms it has still to tell
  (`overtaken`).

Other things of this code that the model shows as they are: a socket that refreshes or
signs in again, though as the same player, is unsubscribed from all rooms and not told;
other sockets of a revoked session keep their subscriptions (only their commands are
refused); a socket keeps the token it had when its session is refreshed on another; a
repeated reconnect subscribes a socket as the player its token has by then. All rooms
of the model are full and known to both users: joining is `RoomPresence`'s.

### 2.7 SupportDesk, RoomCreation, Requests

In `SupportDesk` the look-up of the key and the operation are one step, as no await
parts them (`CreateTicket`, `ReplyTicket`, `CloseTicket`, `Refuse`, `Replay`,
`Conflict`), and `Save` (the record, and the answer) is the next: `saving` holds what
is in between. Two calls with one key that overlap there both run; `raced` remembers
their keys. Texts stand for the input of a request.

`RoomCreation` follows one call of `createRoom` through `LookUp` (`findCommandResult`
and the comparison of `requestHash`), `AnswerFound` or `Register`, the writes, `Release`
and `GiveUp`. `backend` chooses the store at the start. The memory store has
`initializeRoom`, which writes checkpoint and result or neither (`Initialize`), and ends
with the process. The PostgreSQL store has no such method: `registry.initialize` awaits
`saveSnapshot` (`SaveCheckpoint`) and then `saveCommandResult` (`SaveResult`), each of
which may fail before it took effect or after (`Saves`), and the process may end between
them; the store survives it. `Recover` is a durable room that comes into memory, as each
does when a process starts and as whoever asks for it later has it. `memory` is the
registry, `checkpoints` and `results` the store, `HalfMade` the rooms of which only the
first write was done. `overlapped` remembers the commands of which two calls were under
way at once: both may make a room. A room is named after the call that made it, so that
two rooms never get the same id; the code takes eight hexadecimal digits at random and
does not look whether the id is taken.

`Requests` composes both in one process; `Restart` loses the desk and the calls, and
keeps the store if it is PostgreSQL.

### 2.8 SusongScoring and Settlement

`SusongScoring` is `evaluateSusongWin`, `classifySusongHu`, `scoreSusongWin` and
`scoreSusongRound` as operators over flower states, zeng and a fact. `Settlement` puts
`settleSusongRound` over `Room`: `SettleSusongRound` scores the room in memory,
whatever is being executed on it (`running`), and queues deltas and transfers with the
version it was given; `ExecuteSettlement` has the actor apply the first of the queue by
`Room`'s `SettleScores`, or `AnswerSettlement` answers or refuses it; `Execute` is any
other command (zeng, flowers, settlement by the owner, next round, cancel); `Commit` and
`Fail` end the command under way, `Restart` the process. `durable` is the room in the
store. `applied` is history, and `basis` of a settlement tells whether the room it was
scored from became durable or was lost.

`settleSusongRound` is called by nothing but a test in this repository; it is modelled
as it would be used, with retries, with the version of the room, a later one, or none.
Left out of the other commands are `ApplyAction` and `Finish`, which change nothing that
a settlement reads but the status. A command of two events counts as one version.

## 3. The runs

| Run | Question | Instance | Result |
|---|---|---|---|
| `room_actor` | is every command applied once, whatever fails? | 2 processes; 3 requests: of one command id a reconnect without event and a deal with 2 events, of another an action with 1 event; 3 dispatches; all 3 deployments | holds |
| `room` | does the aggregate keep its invariants, and replay agree? | 2 seats, 3 people of whom 2 are members, 2 rounds, strong piao, deadlines on | holds |
| `room_presence` | do connection flags survive? | 2 seats, 3 people, 1 round | holds |
| `deadlines` | does a timeout end only its own turn, once, in time? | 2 processes, 2 turns (and the version after), 1 event, 2 claims per deadline, rough | holds |
| `deadlines_live` | does an armed turn end? | calm, 2 events, 3 claims | holds |
| `deadlines_next_turn` | does every turn end? | calm, 1 event | **violated** |
| `room_feed` | is every version sent once and in order, and how far may a room that is shown be ahead of the store? | 2 clients, 3 events, queues of 2, one trouble | holds |
| `room_feed_sync` | does a client that synchronises get back online? | 2 clients, 1 event, no trouble | **violated** |
| `sessions` | is one token of a session good, the index right, presence what the sockets are? | 2 users, 2 devices, 2 sockets, 2 sessions, 2 rooms, 2 tokens a session, 3 commands, 1 trouble | holds |
| `sessions_refresh` | does a client that did nothing wrong keep its session? | the same | **violated** |
| `requests` | is a request with a key carried out once, and is a room that is given out durable? | both stores; 2 users, 2 keys, 2 tickets, 3 calls of one create command, 2 failures, 4 requests, 1 restart | holds |
| `settlement` | does the rule engine settle each round once and by the rule sheet? | 4 players of whom 1 changes zeng and flowers, 4 opening hands, 5 facts, 2 command ids, 2 rounds, 2 settlements and 3 other commands | holds |

### 3.1 Properties that hold

*Room actor.* `AtMostOnce`: all events with one command id come from one append
for one request, while the room has no more than `ReadLimit` events.
`AckedEventIsDurable`: an answer that names an event names a durable one of the
caller's own command, and the last one of its batch as long as the room has no more
than `ReadLimit` events. `AnswersAgree`: the answers to one command id are answers to
one request, and under the same condition name the same event (an answer rebuilt from
a stream of which only the beginning was read may name an earlier one). `IdleRoomIsDurable`: between commands the aggregate is a prefix of the
stream (unless a rebuild after a failure itself failed half-way).
`MemoryWritesFenced`: with the memory deployment no write has a token older than
that of a row already there. `ImplementsLog`: the pipeline implements
`CommandLog`, with the requests of the stored events as the log and the requests
of the recorded answers as the answers.

*Room.* `ReplayAgrees`: replay from any checkpoint gives the room (but for ready
flags that some events clear only in memory; section 5 says why that is
not reachable through the actor). `ZeroSum`: scores sum to zero. `TableInOrder`: the
owner is at the table, and the table is ready when it says so. `TurnInOrder`: a round is
played by a full table, the turn is with a player at it, and the room carries a deadline
exactly while a turn is pending. `FlowersInOrder`: no flower a player got is
forgotten, those that count are those that should, and nobody plays before choosing.
`ImplementsLifecycle`: the room implements `RoomLifecycle`.

*Presence.* `PresenceSurvives`: the last accepted join, disconnect or reconnect
of a player is what a recovery yields, unless the player left and came back; and only
seated players have a flag.

*Deadlines.* `TimeoutEndsItsTurn`, `TimedOutWhenLate`, `ExecutedIsApplied`,
`OneHolder`, `TerminalIsFinal` hold in rough behaviours; `ArmedTurnEnds` holds in
calm behaviours without shutdown.

*Feed.* `OnlyDurableShown`: no event and no answer to a reconnect shows an event that is
not in the store, although the aggregate in memory is ahead of the store while a command
runs and keeps a failed event until it is restored; it holds because rooms are kept by
the handlers, and read at the end of a dispatch. What a subscribe and a create sent
again are answered with is the aggregate in memory: of it at most the last event is not
in the store and may never be, and only a client that was given its room by a create may
have such a room, until the next event that applies or the next reconnect gives it
another. `EachVersionOnce`: over one connection no version comes twice or late, and none
is left out while the socket listens, through gaps that are read with an `await`,
sockets that come and go meanwhile, a cursor moved by a first subscriber, full queues,
repeated commands, events of other processes, and publications whose command failed
after its append. Where a refresh ended the subscription of an open socket and a later
request began it again, the versions in between are not sent (`left`).

*Sessions.* `OneLiveToken`: a session has one refresh token that can be exchanged, its
newest, and none when revoked; every older one is remembered, so that it is known when
it comes back. `Indexed`: the index of a player's connections is the sockets a session
command signed in as that player, and that neither signed out, nor changed hands, nor
closed since. `SubscribedAsSelf`: a socket listens to a room as the player it is signed
in as. `GoneIsOffline`, `HereIsOnline`: when nothing is under way, a player shown
connected has an open socket, and a player who reconnected on a socket still open is
shown connected (but for the players named in 2.6). A repeated login makes a session
more, and a repeated refresh ends one.

*Requests.* `EachRequestOnce`: a request leaves one ticket or one message, also when it
is sent again with another text. `RetriesAgree`: all answers for one key are one answer
to one input. `AuditTells`: the audit log tells the whole story of each ticket, from
nothing to the ticket as it is, and nothing follows the close. `OneRoomPerCommand`: a
create command has one room that its retries are answered with, also when its caller was
told of an error after the room was made or the process ended; with the memory store it
leaves no other room (with PostgreSQL it may, see 3.2). `RoomsAreDurable`: rooms given
to callers are durable, have their results and are theirs, and when no call is under way
the process holds no room that a restart would lose. The first two and
`OneRoomPerCommand` except keys and commands of which two calls overlapped, and say that
nothing else makes a request count twice.

*Settlement.* `SettledAsRuled`: a settlement sent with a room version changes the scores
as the rule sheet says of the room it is applied to, whatever happened since it was
scored; the rule sheet is written down a second time, as what one player owes another,
from `docs/rules/SUSONG_8931_RULE_BASELINE.md`, 3 and 5 (on 4, see 3.2). It is about
settlements whose room became durable: one scored from a change that was then lost may
be applied at the version that the change would have had. `SettledOnce`: one settlement
per round and one per command id. `EngineAgreesWithRoom`: what the engine scores the
room accepts, so that a settlement is refused for its moment and never for its amounts.

### 3.2 Where code and documents part

Three disagreements are runs that must find their property violated, and entries of
"findings".

* `KeepsSession`. A client keeps a refresh until it is answered and sends it again after
  a timeout or on its next connection ("safe to replay", `client.dart:1040`); the server
  takes a token that was exchanged for one that was stolen, and revokes the session
  (`auth/service.js:163-166`). If the first answer was lost or late, the player is
  signed out by the retry. Two sends and one lost answer are enough.
* `TurnEnds`. After a timeout nobody calls `refresh`; the next turn is not armed
  until a socket subscribes or reconnects, or a player acts.
* `SyncEnds`. A client that missed an event asks for the room, is answered with a
  snapshot and the list of missed events, takes the events for protocol envelopes
  (they have a `roomVersion`), fails to parse the first and never leaves the
  syncing phase, in which it may send no command. The snapshot is applied, so it
  sees the room but cannot play until it loses its connection and nothing has
  happened meanwhile.

Six more are stated as properties, or are a constant, of the modules, and show when
the cfg of their module is changed as said:

* `EveryWriteFenced` (a PROPERTY for `MCRoomActor.cfg`). With PostgreSQL the token is
  checked by one call and the row written by another. At most once is not lost (the
  append is conditional on the version), but "every write is fenced", as the header of
  `room-actor.js` has it, is not what the code does.
* `EachFlowerOnce` (an INVARIANT for `MCRoom.cfg`). A flower may be discarded while the
  piao choice is pending, and the choice starts the count anew.
* `CaughtUp` (an INVARIANT for `MCRoomFeed.cfg`). The answer to a reconnect holds the
  room as it was before two awaits, and the socket is subscribed after them. An event
  published in between is missed by a socket that was not subscribed, and overwritten by
  the older snapshot in a client that was; the client is online with the old room.
* `NothingAhead` (an INVARIANT for `MCRoomFeed.cfg`). A subscribe
  (`server.js:449-461` with `gateway.js:413`), a create that is sent again
  (`room/service.js:158-171`, `server.js:425-431`) and `GET` of a room
  (`room/service.js:118-129`, not modelled) show the aggregate in memory without
  recovery and in no queue. Between `execute` (`room-actor.js:537`) and the append (565)
  this is a room whose last event may never be durable. A client keeps the room of a
  create: if its last event was lost, it takes the event that is stored under that
  version later for a duplicate, and has the wrong room until the event after it, or a
  reconnect.
* `NoRoomLeftBehind` (an INVARIANT for `MCRequests.cfg`). "PostgreSQL adapters should
  implement the same operation in one transaction; [...] a failed response write cannot
  leave an orphaned version-zero room" (`game-memory.js:854-857`). The PostgreSQL store
  has no `initializeRoom`, and `registry.initialize` makes two calls
  (`gateway.js:199-210`). If only the first has an effect, the room stays in the store,
  is recovered by every process that starts, and belongs to a command whose retry does
  not find it and makes another room.
* `ArmedTurnEnds` with shutdowns (`GracefulClose = TRUE` in `MCDeadlinesLive.cfg`).
  `close()` cancels the rows in the store; the restarted process meets a cancelled row
  and skips the deadline.

Others show in the models, which leave them as they are. An answer rebuilt from the
event stream reports the room's version at the time of the retry, not that of the
original answer (`room-actor.js:419-421` against `0004_game_events_actor.up.sql:69-70`);
`AnswersAgree` says what does agree. The presence overlay is applied even where the
snapshot is newer, so that a player who left while disconnected and joined again is
recovered as disconnected (`game-memory.js:132`); `PresenceSurvives` leaves these
players out. A refresh from an aggregate that is behind, or a `cancelRoom` that arrives
late, cancels the row of the turn being played (`deadline.js:492` against `ADR-004`,
line 32); the turn then has no timeout, and `ArmedTurnEnds` is stated of calm
behaviours, where this does not happen. Two overlapping calls with one key both run, at
the support desk (`support/service.js:180`) and in `createRoom` (`room/service.js:157`).
A settlement sent without a version may be applied to flowers and zeng that changed
since it was scored, though the rule sheet (5) has it read the zeng kept by the room;
one that is sent again after its room changed is scored anew and refused as another
request under the same command id. By the rule sheet, 4 (line 62), the players in a
sanxi relation with a winner pay together with the discarder; the code has only the
doubling between the two (`susong-scoring.js`), no fact of the run has the case, and
`SettledAsRuled` is limited to sections 3 and 5. A socket that is unsubscribed by a
refresh over its open connection is not told, and its client does not subscribe again
(`server.js:298`, `client.dart:893-910`): it hears of nothing until it asks for the room
again or connects anew. Players for whom presence may stay wrong are named in 2.6.

### 3.3 Bounds, and why they are enough

* Processes: two. Every race in these modules is between a process and one other
  (a lease that passed on, a version that moved on); a third would only repeat it.
* Requests: two of one command id with different payloads, one without and one with
  two events, and one of another command id with one event. Three dispatches allow
  an original, its retry and an intervening command. `ReadLimit` is 8 and no
  behaviour has more than 6 events, so that `AtMostOnce`, `AckedEventIsDurable` and
  `AnswersAgree` are checked where their condition holds; what happens beyond the limit (10000 in the code) is a listed
  hazard.
* Room: two seats are the least a table may have, the third person makes full
  tables, refused joins and re-used seats happen; one of the three is not a
  member. Two rounds reach both "a further round" and "the last round". `MaxZeng`,
  `MaxFlowers` and `MaxDelta` are 1: flowers and deltas of size one reach every
  branch, larger ones only repeat them.
* Presence: `MaxDelta`, `MaxZeng`, `MaxFlowers` 0, as flags do not depend on them.
* Deadlines: two turns, so that a deadline may meet the turn after its own.
  `MaxEvents` bounds subscriptions, reconnections, disconnections, restarts,
  failures and early timers of one behaviour, `MaxToken` the claims of one
  deadline, `MaxCalls` the calls pending when a refresh begins.
* Feed: the room's creator, who is subscribed from the start, and a player who joins
  while events happen. Three events let a gap of two follow a version already
  sent, or precede one. A queue of two is filled by an answer and an event.
  `MaxTrouble` is 1: one lost connection or needless synchronisation, or one failing
  call or repeated command, or one foreign event. Connections closed by a full queue
  and failing gap reads come on top, without a bound of their own. A subscribe and a
  refresh count as a lost connection, as does a needless reconnect; a reconnect of a
  client that is not listening, and has received what it was sent, is free, so that what a refresh left out is followed by
  what a reconnect begins. With `MaxVersion` 2, `MaxTrouble` and `MaxFailures`
  2 and no foreign events, a create that was sent again sees a command whose append then
  fails, and the client keeps the room that was lost: `OnlyDurableShown` holds there as
  well (not a run; the theorem is for all bounds).
* Sessions: two of everything, so that a player may have two sockets, a socket two
  players, a session a successor token, and a close two rooms to tell. Three commands
  (the greeting of a new connection is not counted) allow a login, its repetition or a
  refresh, and a reconnect. `MaxTrouble` counts failed dispatches, lapsed tokens and
  bans. A socket is used once, so that a device that comes back takes the second.
* Requests: four requests are an original, its retry with the same or another input, and
  two of somebody else, or a call of `createRoom` with two retries. One create command
  is enough, as calls of different commands do not meet. Two failures let the retry of
  a failed call fail as well, in either of its writes; a restart comes between any two
  steps.
* Settlement: four players are what the rules score. One of them raises the zeng and
  draws flowers; four opening hands (strong piao, no flowers, four, nine) reach every
  tier on both sides of its boundary together with one more flower. Five facts:
  self-draws of the busy player on a kong and of another, in sanxi; two winners on a
  discard, one in sanxi with the discarder; a special hand; a draw. Two settlements
  allow a retry or a rival, three other commands the next round.
* Symmetry is used over processes, members, users, devices, sockets, sessions, keys,
  tickets, calls and command ids of the engine in safety runs. The liveness
  runs and the violation runs of `Deadlines` use none.

`CHECK_DEADLOCK FALSE` is set where the bounds let a behaviour stop. `MCRoom`
checks deadlock: a room can always do something (a checkpoint, if nothing else).

### 3.4 Fairness

`Deadlines` and `RoomFeed` have liveness properties. In `Deadlines`, `Fairness` says that time passes
(`Elapse`), that leases run out (they are timestamps), that a refresh that follows
a command and the restart of a dead process happen, that store calls are executed,
and that the timer callbacks of each deadline take their next step. All are weak:
the event loop runs callbacks that are due, and each of these actions stays
enabled until it is taken. Players are not assumed to act, sockets not to
subscribe. In calm behaviours there is one process, so fairness over the processes
of a deadline is fairness of that one.

In `RoomFeed`, callbacks that are due run (publications, dispatches and handlers of
each player), messages on an open socket arrive, and the timer of an unanswered
reconnect goes off. Nothing says that players act, that a socket ends or that one
is opened again.

### 3.5 Mutants

Every property of a passing run has a mutant in the module (the definitions
commented "Mutant"): a plausible bug, such as a search for the command id that
looks only at recorded answers, a fence counter that expires with the lease, a
settlement that is added to the score twice, a worker that gives up when
another holds the lease, a close that takes the player offline whatever other sockets
there are, or a self-draw that the winner pays too. Put in place of the definition it imitates, TLC finds
the property violated.

## 4. The proofs

Each module of proofs is about every value of the constants; it assumes what the
modules assume of them and nothing else: `ActorAssumption`; `RoomAssumption`;
`DeadlineAssumption`; `FeedAssumption`; `AuthAssumption` and `ConnectionsAssumption`;
`DeskAssumption`, `CreationAssumption` and `RequestsAssumption`; `SettlementAssumption`.
They give constants
their types (bounds are natural numbers, `Rooms` is a sequence, a table has two seats at
least, users that may be banned are users) and say that there is a process and that a
name for "none" is not one of the things it stands beside; TLC evaluates them in the
runs. `SettlementAssumption` says besides that the table has four players, as the rules
are for four, that the price of a tier is between 1 and 9 and of a zeng not negative
(`normalizeSusongConfig`), and that a draw reports no winner (`scoreSusongRound`
reads none).

| Module | Theorem | States |
|---|---|---|
| `RoomActorProofs` | `TypeCorrect` | `Spec => []TypeOK` |
| | `AtMostOnceHolds` | `Spec => []AtMostOnce` |
| | `MemoryWritesFencedHolds` | `Spec => MemoryWritesFenced` |
| | `IdleRoomIsDurableHolds` | `Spec => []IdleRoomIsDurable` |
| | `AckedEventIsDurableHolds` | `Spec => []AckedEventIsDurable` |
| | `AnswersAgreeHolds` | `Spec => []AnswersAgree` |
| | `ImplementsLogHolds` | `Spec /\ [](Len(events) <= ReadLimit) => ImplementsLog` |
| `RoomProofs` | `RoomTyped` | `Spec => []TypeOK` |
| | `ZeroSumHolds` | `Spec => []ZeroSum` |
| | `TableInOrderHolds` | `Spec => []TableInOrder` |
| | `TurnInOrderHolds` | `Spec => []TurnInOrder` |
| | `FlowersInOrderHolds` | `Spec => []FlowersInOrder` |
| | `ReplayAgreesHolds` | `Spec => []ReplayAgrees` |
| | `ImplementsLifecycleHolds` | `Spec => ImplementsLifecycle` |
| | `PresenceSurvivesHolds` | `PresenceSpec => []PresenceSurvives` |
| `DeadlinesProofs` | `DeadlinesTyped` | `Spec => []TypeOK` |
| | `TimedOutWhenLateHolds` | `Spec => []TimedOutWhenLate` |
| | `ExecutedIsAppliedHolds` | `Spec => []ExecutedIsApplied` |
| | `OneHolderHolds` | `Spec => []OneHolder` |
| | `TimeoutEndsItsTurnHolds` | `Spec => TimeoutEndsItsTurn` |
| | `TerminalIsFinalHolds` | `Spec => TerminalIsFinal` |
| `RoomFeedProofs` | `FeedTyped` | `Spec => []TypeOK` |
| | `OnlyDurableShownHolds` | `Spec => []OnlyDurableShown` |
| | `EachVersionOnceHolds` | `Spec => []EachVersionOnce` |
| `AuthServiceProofs` | `OneLiveTokenHolds` | `AuthSpec => []OneLiveToken` |
| `ConnectionsProofs` | `ConnectionsTyped` | `Spec => []TypeOK` |
| | `IndexedHolds` | `Spec => []Indexed` |
| | `SessionsKeepOneToken` | `Spec => []OneLiveToken` |
| | `SubscribedAsSelfHolds` | `Spec => []SubscribedAsSelf` |
| | `GoneIsOfflineHolds` | `Spec => []GoneIsOffline` |
| | `HereIsOnlineHolds` | `Spec => []HereIsOnline` |
| `RequestsProofs` | `OneRoomPerCommandHolds` | `Spec => []OneRoomPerCommand` |
| | `RoomsAreDurableHolds` | `Spec => []RoomsAreDurable` |
| | `RetriesAgreeHolds` | `Spec => []RetriesAgree` |
| | `EachRequestOnceHolds` | `Spec => []EachRequestOnce` |
| | `AuditTellsHolds` | `Spec => []AuditTells` |
| `SettlementProofs` | `SettledOnceHolds` | `SettlementSpec => []SettledOnce` |
| | `EngineAgreesHolds` | `SettlementSpec => []EngineAgreesWithRoom` |
| | `SettledAsRuledHolds` | `SettlementSpec => SettledAsRuled` |

### 4.1 RoomActor

`TypeOK` is not inductive: that an append is in range needs to
know what the locals of a running dispatch mean. `TypeInv` adds `Locals`: a
running dispatch has a request, and after recovery `ver` is the length of the
aggregate and does not exceed the stream. `TypeInvStep` shows it preserved, one
step per action.

`AtMostOnce` needs to say what a dispatch that has searched the stream knows.
`AllFresh` says it: from the moment the search found nothing until the append,
no event of the stream carries the command id, as long as the stream still ends at
`ver` -- and if it does not, the conditional append refuses. The append is then
the only step that can add an event of a command id, and it adds its batch where
there is none. `AtMostOnceStep` is the inductive step; most
actions leave `events` alone and are settled by the lemma `QuietStep`. Note what
the proof does not use: the lock. At most once rests on the conditional append and
on the search made after recovery, which is why it holds without Redis too.

`MemoryWritesFencedHolds` strengthens with `TokensRecorded`: every stored token is
at most the one the memory store remembers, which is compared in the same step as
the write.

*Answers and the log.* `AnswerInv` describes the stream as made of batches (`Batches`:
each event knows the version before its batch, and a batch is of one request), and says
what a process may hold beside it. `RoomInv`: a room in memory is a prefix of the
stream, but for the batch of a command that is past its execution and not yet restored.
`OutInv`: an answer under way says something true of the stream (`Given`), now and, as a
stream only grows by whole batches (`Grown`), ever after. `ResultInv` says the same of
the recorded answers, `AckInv` of those given, and that an answer is given only after
one to the same request was recorded. The three invariants are read off it; that two
answers name one event is that a command id has one batch (`AtMostOnce`) and a batch one
end.

`ImplementsLogHolds` is the step simulation: the append of a batch is `Apply`, an
answer that is given is `Answer`, everything else stutters. Its second hypothesis is
needed and is satisfiable: beyond `ReadLimit` events the search that follows a recovery
does not see the last ones, and a retry is then applied a second time, which no step of
the log is. This is the hazard of `room-actor.js` with more than 10000 events, and the
guard of `AtMostOnce`, `AckedEventIsDurable` and `AnswersAgree`.

### 4.2 Room and RoomPresence

`RoomInv` has the properties as its parts and adds what they need of one another:
`TablePart` (seats are one player's each and have a lowest, since a `CHOOSE` of the first
turn and of the next owner needs one; scores, zeng and ready flags are of the seated),
`StatusPart` (what each status says of round, phase and flowers), `FlowerPart`, and
`CopyPart`: the copy that is replayed is the room but for ready flags, and these too
until a round starts. Since `CopyPart` says that command and replay start alike, the
proof of each command ends with the same lemma, `CopyIsRoom` or `CopyAgain`, and
`ReplayAgreesHolds` is nothing but this part. `RoomInvStep` has a lemma per
command.

`ZeroSumHolds` is about `Sum`, a fold over the players of a function. A fold has no
definition by cases that a prover could unfold, so `SumsExist` and `SumOf` first show
that there is a function that adds up along some order of the players and that the fold
is one; `SumAdds` (one player more adds that player's value) and `SumOfZeros` follow.
The induction over sets of players is made by a least counterexample (`AllNaturals`,
`AllSubsets`), with the fact that a set of numbers has a least member taken from the
library. `ZeroPart` adds that nobody has a score before the first round, so that who
joins or leaves moves nothing: this is what makes the property inductive.

`ImplementsLifecycleHolds` maps each command to a step of `RoomLifecycle` or a stutter
(`LifeStep`), with `RoomInv` for the fields that the abstract room leaves out.
`PresenceSurvives` is inductive but for the type of the overlay; `PresenceInv` adds it.
The commands of `Room` enter its proof only through what they do to the seats.

### 4.3 Deadlines

`DeadlineInv` joins the three invariants with the types and one part that makes them
inductive: `ClaimOK`, what is known by an entry that works on a claim. Its deadline has
passed; unless the row is done with, its token is one the row has given out, so that a
newer claim has a greater one; and if its dispatch was answered "executed", the timeout
has ended the turn, whatever has become of the lease since. `OneHolder` then follows
from tokens that only grow, and `ExecutedIsApplied` from the last clause, as `Complete`
writes what an entry knows and not what the row said. `TimeoutEndsItsTurn` and
`TerminalIsFinal` are about steps: the first holds of every step, the second needs the
invariant (a blank row is not terminal; a call under way is about a row that exists).
Nothing is assumed of clocks: a lease may run out at any step.

### 4.4 RoomFeed

`FeedInv` is one part for each piece of the feed. `StoreOK` says when memory and store
differ: the room in memory is within the store's, or one event ahead of it (`Ahead`)
while the first command of the queue is between its execution and its append.
`HandlersOK`, `WireOK` and `ClientsOK` say that every room that was kept, sent or shown
lies within the store, or all of it but the last event where the room in memory was
shown (`Fits` of a message, `ViewIs` of a client), which with an append-only store is
`OnlyDurableShown` for good. `FedOK` is what makes `EachVersionOnce` inductive, with
`FedIs` for each client: an open connection was sent nothing later than the cursor, nor
than the version a publication reads from; either its socket ceased to listen after the
last event it was sent (`left`), or it listens and was sent the one at the cursor, where
a reading publication goes on. So the next event is later than all that was sent, and
the next version for whoever was sent anything and listens; who was sent nothing may
begin anywhere. `QueuesOK` gives that it is always the first of each queue that moves.

### 4.5 AuthService and Connections

`AuthInv` says of every pair of a session and a number which of the three maps it is in
(`InMaps`): among the refresh tokens if it is the newest of a session that has begun and
is not revoked, among the exchanged ones if it is older, among the access tokens only if
its refresh token can be exchanged. This is `OneLiveToken` token by token, and with
`Begun` (a session has had tokens exactly if it has a user) it is inductive: `AuthStep`, with a
lemma each for login, rotation and revocation.

In `Connections` clients send tokens of their own, and a step of the auth service is one
only with a token that was issued. `ConnInv` therefore adds `WireOK` (what is queued,
held, pending and answered are commands and tokens) and `SocketsOK` (a socket has a
player and a token or neither, its player is the owner of the token's session, it is
signed in as that player or not at all, and the index is the sockets signed in).
`ConnStep` has one lemma per action: each keeps `WireOK` and `SocketsOK`, and is a step
of the auth service or leaves it alone. `IndexedHolds` is a part of the same invariant,
and `SessionsKeepOneToken` carries `OneLiveTokenHolds` over to the server by
`SessionsByAuth`.

*Presence.* `PresInv` adds the life of a socket and the queues of the rooms. `LifeOK`
says that a socket has one client and one close and that a logout is the last thing sent
over it, `ServedAsSelf` that a reconnect under way is served for the player the socket
has (why a socket that changes hands is not listening as its former player), `CallsOK`
that a handler which waits has one call in one queue. `GoneIsOffline` and `HereIsOnline`
are about the moment when nothing is under way; between such moments one has to say what
will still happen. For a player who is gone, `GoneInv`: each room either will be told by
a close handler that has not come to it (`Yet`), or has a disconnect in its queue after
everything that would show the player (`OffComes`). For one who is back, `HereInv`: a
handler that listens or was dispatched is shown now and no disconnect of the player
follows in that queue, a reconnect in a queue is the last word in it, and a close handler
that was looking at other sockets has no room left but the one it is telling.

### 4.6 Requests

The two parts share only the restart, and each has an invariant of its own.
`CreationInv` says of each step of a call what is true there (`CallOK`: a call that was
locked is about its own room, which is not durable yet; one that is between the two
writes has its checkpoint, one that is past them its result), that a result is of the
call that made the room and comes after its checkpoint, that with the memory store it
comes with it, and that a room in memory only belongs to a call that is not through
(`StoresOK`), and that two calls of one command have overlapped if both are under way,
or if one is about to write its result and the other has a result (`OverlapsOK`). The
last part carries `LookUp` to the write of the result: a call that makes a room found no
result, so that whatever is there by then was written by a call it overlapped. A room
that was left half made has no result, and so is never found and never given out.
`DeskInv` says that the records, the operations not yet recorded and the answers of one
key are one, unless it was raced (`RecordsOK`), that every message is of a request that
has a record or is being recorded, and that two messages of one key are of calls that
raced (`MessagesOK`).

`AuditInv` adds to `AuditTells` only that the ticket of a "closed" entry is closed. The
work is in "the newest entry about a ticket": `Told` picks it from the part of the log
before an entry, `NewestEntry` shows that there is one, again by a least counterexample,
and `ToldNext` that an entry about another ticket does not change it.

### 4.7 Settlement

Two parts are joined: what the rule engine computes, for any flowers and zeng of four
players and any fact, and what becomes of it in the queue.

*The engine.* `RoundTransfers` is a set of transfers, `Deltas` a sum of them per player,
the rule sheet an amount per pair of players. `RoundIsProper` says that nobody pays
himself or nothing and that each pair has the one transfer the table `OwedTable` asks
for. `DeltasAreMoves` and `DeltasAddUp` are `EngineAgreesHolds`: each transfer adds up to
zero over the players, and `SumsSwap` exchanges the sum over transfers with the one over
players (again a least counterexample, over the sets of transfers). `DeltasAreOwed` turns
a sum over transfers into one over payers, and `TierIsRuled`, `OwedIsRuled` and
`DeltasAreRuled` find in it what the rule sheet says, tier by tier.

*The queue.* `SettledAsRuled` holds because of what a version tells of a room, and
`BasisOK` says it of every settlement in the queue: if it was scored from a durable room
it names no version later than the store's, and if it names this one, it was scored from
this room; if it was scored while a command was being written, the same holds of the next
version and the room in memory; what was scored from a room that was lost is known by its
`basis` only. `Commit` turns the second case into the first, `Fail` into the third.
`AppliedOK` makes `SettledOnce` inductive: what was settled has a result, and its round is
over in the durable room. That it stays over is `Advanced`, which compares the room in
memory with the durable one and holds of every command. `FourAtTable` has the types, and
`SettleInv` is all of it; there is one lemma per action.

### 4.8 Only model-checked

Liveness under fairness (`ArmedTurnEnds`) is out of the prover's reach and stays with TLC,
as are the properties the code does not have (3.2). Every invariant and every step
property of the passing runs has a theorem. No module uses a RECURSIVE operator.

## 5. Not modelled, and why

* Of gateway and client: unsubscribe requests (the client sends none by itself; they end
  a subscription as a refresh does), a return from the background while a refresh is
  under way and a logout on an open socket (`Connections` has the latter), the filter for
  private events (it changes payloads, never versions), the grace timers (they only
  count), maintenance mode, the client's support and REST calls.
* Of auth: one-time codes, user records, device names. They decide who may log in, not
  what becomes of a session.
* Of rooms: room ids that collide, the order of `listRooms`, the history of a player's
  rooms, ETags and `If-Match` (the expected version of `Settlement` is the same check).
* Of the server: heartbeats, configuration and its own shutdown.
* Outbox: rows are written by `appendBatch` but no publisher runs in this code.
* Snapshots with `snapshotEvery` above 1: no deployment sets it. With it, a replay
  of events on an older snapshot would keep ready flags that execution clears
  (`ReadyForgotten` in `Room`); with the default of 1 the latest snapshot is that
  of the latest event.
* The numeric range of scores: JavaScript numbers are exact to 2^53.
* Protocol validation, configuration, metrics, logs, rate limits, module stubs:
  stateless or without effect on the parts modelled.
* `lock` renewal: the code has none.

## 6. Plan

Done, in this order: `CommandLog` and `RoomActor` with proofs; `SusongFlowers`,
`RoomLifecycle` and `Room`; `RoomPresence`; `Deadlines`; `RoomFeed`; `AuthService` and
`Connections` with proofs; `SupportDesk`, `RoomCreation` and `Requests` with proofs;
`SusongScoring` and `Settlement`; proofs about `RoomActor`'s answers and its log, `Room`
and `RoomPresence`, `Deadlines`, `RoomFeed`, presence in `Connections`, the audit log, and
`Settlement`.

Next:

1. The outbox, when a publisher runs.
2. The client's maintenance mode in `RoomFeed`.
