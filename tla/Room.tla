-------------------------------- MODULE Room --------------------------------
(***************************************************************************)
(* The Room aggregate: seats, owner, readiness, scores, zeng, rounds,      *)
(* flowers and the turn, with every event it appends replayed on a copy    *)
(* by applyPersistedEvent.                                                 *)
(*                                                                         *)
(* One action per command of Room.execute; a refused command changes       *)
(* nothing and is no step.  Connection flags are in RoomPresence.tla;      *)
(* idempotency and versions in RoomActor.tla: here every command is new.   *)
(***************************************************************************)
EXTENDS Integers, FiniteSets, Functions, SusongFlowers

CONSTANTS
  Players,         \* who may take a seat
  Members,         \* the players with evidence for the access policy
  NoPlayer,        \* null
  Admin, System,   \* callers with isAdmin, with actorRole SYSTEM
  FirstOwner,      \* ownerId the room is created with, or NoPlayer
  MaxPlayers,
  TotalRounds,
  PiaoMode,
  DeadlineEnabled,
  MaxZeng, MaxFlowers, MaxDelta   \* bounds: zeng, flowers and scores a player reaches

ASSUME RoomAssumption ==
  /\ Members \subseteq Players
  /\ {NoPlayer, Admin, System} \cap Players = {}
  /\ NoPlayer \notin {Admin, System}
  /\ FirstOwner \in Players \cup {NoPlayer}
  /\ MaxPlayers \in Nat /\ MaxPlayers >= 2
  /\ TotalRounds \in Nat \ {0}
  /\ PiaoMode \in PiaoModes
  /\ DeadlineEnabled \in BOOLEAN
  /\ MaxZeng \in Nat /\ MaxFlowers \in Nat /\ MaxDelta \in Nat

VARIABLES
  room,        \* the aggregate, but for the connection flags
  copy,        \* a checkpoint of room with the events after it applied
  handled      \* history: the flowers each player discarded or replaced this round

vars == <<room, copy, handled>>

Seats == 0..(MaxPlayers - 1)
Callers == Players \cup {Admin, System}

Started == {"dealing", "playing", "settling", "next_round"}
Over == {"finished", "cancelled"}
ReadyStates == {"waiting", "ready"}
ZengStates == ReadyStates \cup Started

Empty == [p \in {} |-> 0]

NewRoom ==
  [status |-> "waiting", owner |-> FirstOwner,
   seatOf |-> Empty,      \* players (Map) and their seat; seats is its inverse
   ready |-> {}, scores |-> Empty, zeng |-> Empty,
   turn |-> NoPlayer, round |-> 0,
   phase |-> "none",      \* currentRound.status, none before the first round
   flowers |-> Empty,     \* currentRound.flowerStates, empty while not initialized
   deadline |-> FALSE]    \* currentRound.turnDeadlineAt is set

Init ==
  /\ room = NewRoom
  /\ copy = NewRoom
  /\ handled = Empty

Seated(r) == DOMAIN r.seatOf
AllReady(r) == Cardinality(Seated(r)) = MaxPlayers /\ r.ready = Seated(r)

With(f, p, v) == [q \in DOMAIN f \cup {p} |-> IF q = p THEN v ELSE f[q]]
Without(f, p) == Restrict(f, DOMAIN f \ {p})

BySeat(r, s) == CHOOSE p \in Seated(r) : r.seatOf[p] = s
LowestSeat(r) == CHOOSE s \in Range(r.seatOf) : \A t \in Range(r.seatOf) : s <= t
FirstTurn(r) == BySeat(r, LowestSeat(r))

\* The next seated player in seat order, the first one after the last.
NextTurn(r, p) ==
  LET later == {s \in Range(r.seatOf) : s > r.seatOf[p]} IN
  IF later = {} THEN FirstTurn(r)
  ELSE BySeat(r, CHOOSE s \in later : \A t \in later : s <= t)

-----------------------------------------------------------------------------
\* applyPersistedEvent: the state after one more event of the stream.
Joined(r, e) ==
  [r EXCEPT !.seatOf = With(@, e.player, e.seat), !.ready = @ \ {e.player},
            !.scores = IF e.player \in DOMAIN @ THEN @ ELSE With(@, e.player, 0),
            !.zeng = IF e.player \in DOMAIN @ THEN @ ELSE With(@, e.player, 0),
            !.owner = e.owner]

LeftRoom(r, e) ==
  [r EXCEPT !.seatOf = Without(@, e.player), !.ready = @ \ {e.player},
            !.scores = Without(@, e.player), !.zeng = Without(@, e.player),
            !.owner = e.owner,
            !.status = IF @ = "ready" THEN "waiting" ELSE @]

ReadySet(r, e) ==
  [r EXCEPT !.ready = IF e.ready THEN @ \cup {e.player} ELSE @ \ {e.player},
            !.status = e.status]

\* An event that does not follow on the state is refused: the replay stops.
ZengIncreased(r, e) ==
  IF r.zeng[e.player] = e.current - 1 THEN [r EXCEPT !.zeng[e.player] = e.current] ELSE r

\* The replay knows nothing of the ready flags a bypassing start has set.
RoundStarted(r, e) ==
  [r EXCEPT !.status = e.status, !.phase = e.status, !.round = e.round,
            !.turn = e.turn, !.flowers = Empty, !.deadline = e.deadline]

RoundPlaying(r, e) ==
  [r EXCEPT !.status = "playing", !.phase = "playing", !.turn = e.turn,
            !.deadline = e.deadline \/ @]

FlowersInitialized(r, e) == [r EXCEPT !.flowers = e.flowers]

PiaoChosen(r, e) ==
  IF r.flowers[e.player].status # "awaiting_piao_choice" THEN r
  ELSE [r EXCEPT !.flowers[e.player] = CreateFlowerState(@.mode, @.opening, e.choice)]

FlowerDrawn(r, e) == [r EXCEPT !.flowers[e.player] = RecordDraw(@, e.count)]
FlowerResolved(r, e) == [r EXCEPT !.flowers[e.player] = Resolve(@, e.action)]

ActionApplied(r, e) ==
  [r EXCEPT !.status = "playing", !.turn = e.turn, !.deadline = e.deadline]

\* Mutant: the scores of the event are added to those already there.
RoundSettlingAdding(r, e) ==
  [r EXCEPT !.status = "settling", !.phase = "settling", !.deadline = FALSE,
            !.scores = [p \in DOMAIN @ |-> @[p] + e.scores[p]]]

RoundSettling(r, e) ==
  [r EXCEPT !.status = "settling", !.phase = "settling", !.deadline = FALSE,
            !.scores = e.scores]

NextRoundAwaited(r, e) == [r EXCEPT !.status = "next_round", !.deadline = FALSE]

RoundDealing(r, e) ==
  [r EXCEPT !.status = "dealing", !.phase = "dealing", !.round = e.round,
            !.turn = NoPlayer, !.flowers = Empty, !.deadline = FALSE]

MatchFinished(r, e) ==
  [r EXCEPT !.status = "finished", !.deadline = FALSE,
            !.phase = IF @ = "settling" THEN @ ELSE "finished"]

RoomCancelled(r, e) == [r EXCEPT !.status = "cancelled", !.deadline = FALSE]

ApplyPersistedEvent(r, e) ==
  CASE e.type = "PLAYER_JOINED" -> Joined(r, e)
    [] e.type = "PLAYER_LEFT" -> LeftRoom(r, e)
    [] e.type = "PLAYER_READY" -> ReadySet(r, e)
    [] e.type = "PLAYER_ZENG_INCREASED" -> ZengIncreased(r, e)
    [] e.type = "ROUND_STARTED" -> RoundStarted(r, e)
    [] e.type = "ROUND_PLAYING" -> RoundPlaying(r, e)
    [] e.type = "SUSONG_FLOWERS_INITIALIZED" -> FlowersInitialized(r, e)
    [] e.type = "SUSONG_PIAO_CHOSEN" -> PiaoChosen(r, e)
    [] e.type = "SUSONG_FLOWER_DRAWN" -> FlowerDrawn(r, e)
    [] e.type = "SUSONG_FLOWER_RESOLVED" -> FlowerResolved(r, e)
    [] e.type = "ACTION_APPLIED" -> ActionApplied(r, e)
    [] e.type = "ROUND_SETTLING" -> RoundSettling(r, e)
    [] e.type = "NEXT_ROUND" -> NextRoundAwaited(r, e)
    [] e.type = "ROUND_DEALING" -> RoundDealing(r, e)
    [] e.type = "MATCH_FINISHED" -> MatchFinished(r, e)
    [] e.type = "ROOM_CANCELLED" -> RoomCancelled(r, e)

-----------------------------------------------------------------------------
HandledAfter(r, e) ==
  [p \in DOMAIN r.flowers |->
     IF e.type = "SUSONG_FLOWERS_INITIALIZED" THEN 0
     ELSE IF e.type = "SUSONG_FLOWER_RESOLVED" /\ e.player = p THEN handled[p] + 1
     ELSE handled[p]]

\* A command changes the room and appends the event that says so.
Append(r, e) ==
  /\ room' = r
  /\ copy' = ApplyPersistedEvent(copy, e)
  /\ handled' = HandledAfter(r, e)

\* _assertOwner, and the weaker form of the round commands.
IsOwner(who) == who = Admin \/ (room.owner # NoPlayer /\ who = room.owner)
MayRunRound(who) == who \in {room.owner, Admin, System}

\* _assertAccess: the first player of a room without owner claims it.
HasAccess(p) == p \in Members \/ p = room.owner
                \/ (room.owner = NoPlayer /\ Seated(room) = {})

\* Mutant: the seat asked for is given, taken or not.
AnySeat(s) == TRUE

FreeSeat(s) == s \notin Range(room.seatOf)

Join(p, s) ==
  /\ room.status = "waiting"
  /\ HasAccess(p)
  /\ p \notin Seated(room)
  /\ Cardinality(Seated(room)) < MaxPlayers
  /\ FreeSeat(s)
  /\ LET owner == IF room.owner = NoPlayer THEN p ELSE room.owner IN
     Append([room EXCEPT !.owner = owner, !.seatOf = With(@, p, s),
                         !.scores = With(@, p, 0), !.zeng = With(@, p, 0)],
            [type |-> "PLAYER_JOINED", player |-> p, seat |-> s, owner |-> owner])

\* Mutant: a leaving owner stays the owner.
LeaveKeepingOwner(p, successor) ==
  /\ room.status \in ReadyStates
  /\ p \in Seated(room)
  /\ Append([room EXCEPT !.seatOf = Without(@, p), !.ready = @ \ {p},
                         !.scores = Without(@, p), !.zeng = Without(@, p),
                         !.status = "waiting"],
            [type |-> "PLAYER_LEFT", player |-> p, owner |-> room.owner])

\* An owner who is not alone names a successor at the table.
Leave(p, successor) ==
  LET leavesOwner == p = room.owner
      owner == IF leavesOwner THEN successor ELSE room.owner
  IN
  /\ room.status \in ReadyStates
  /\ p \in Seated(room)
  /\ leavesOwner /\ Seated(room) # {p} => successor \in Seated(room) \ {p}
  /\ ~leavesOwner \/ Seated(room) = {p} => successor = NoPlayer
  /\ Append([room EXCEPT !.seatOf = Without(@, p), !.ready = @ \ {p},
                         !.scores = Without(@, p), !.zeng = Without(@, p),
                         !.owner = owner,
                         !.status = IF @ = "ready" THEN "waiting" ELSE @],
            [type |-> "PLAYER_LEFT", player |-> p, owner |-> owner])

StatusWhenMarked(marked) == IF AllReady(marked) THEN "ready" ELSE "waiting"

SetReady(p, ready) ==
  LET marked == [room EXCEPT !.ready = IF ready THEN @ \cup {p} ELSE @ \ {p}]
      status == StatusWhenMarked(marked)
  IN
  /\ room.status \in ReadyStates
  /\ p \in Seated(room)
  /\ Append([marked EXCEPT !.status = status],
            [type |-> "PLAYER_READY", player |-> p, ready |-> ready, status |-> status])

IncreaseZeng(p) ==
  /\ room.status \in ZengStates
  /\ p \in Seated(room)
  /\ room.zeng[p] < MaxZeng
  /\ Append([room EXCEPT !.zeng[p] = @ + 1],
            [type |-> "PLAYER_ZENG_INCREASED", player |-> p, current |-> room.zeng[p] + 1])

-----------------------------------------------------------------------------
\* start: from a full table with everybody ready, or bypassing readiness; with
\* autoAdvance the round is played at once, without opening flowers.
Start(who, autoAdvance, bypassReady) ==
  LET status == IF autoAdvance THEN "playing" ELSE "dealing"
      turn == IF autoAdvance THEN FirstTurn(room) ELSE NoPlayer
      deadline == autoAdvance /\ DeadlineEnabled
  IN
  /\ room.status \in ReadyStates
  /\ IsOwner(who)
  /\ Cardinality(Seated(room)) = MaxPlayers
  /\ AllReady(room) \/ bypassReady
  /\ Append([room EXCEPT !.ready = IF bypassReady THEN Seated(room) ELSE @,
                         !.round = 1, !.status = status, !.phase = status,
                         !.turn = turn, !.flowers = Empty, !.deadline = deadline],
            [type |-> "ROUND_STARTED", round |-> 1, status |-> status, turn |-> turn,
             deadline |-> deadline])

InitializeFlowers(opening) ==
  LET flowers == [p \in Seated(room) |-> CreateFlowerState(PiaoMode, opening[p], "none")] IN
  /\ room.status = "dealing"
  /\ room.flowers = Empty
  /\ Append([room EXCEPT !.flowers = flowers],
            [type |-> "SUSONG_FLOWERS_INITIALIZED", flowers |-> flowers])

\* choose_piao and resolve_flower look at the flower state only: they are
\* accepted whatever the status of the room.
ChoosePiao(p, choice) ==
  /\ p \in DOMAIN room.flowers
  /\ room.flowers[p].status = "awaiting_piao_choice"
  /\ Append([room EXCEPT !.flowers[p] = CreateFlowerState(@.mode, @.opening, choice)],
            [type |-> "SUSONG_PIAO_CHOSEN", player |-> p, choice |-> choice])

RecordFlowerDraw(p, n) ==
  /\ room.status = "playing"
  /\ p \in DOMAIN room.flowers
  /\ CanDraw(room.flowers[p])
  /\ room.flowers[p].opening + room.flowers[p].drawn + n <= MaxFlowers
  /\ Append([room EXCEPT !.flowers[p] = RecordDraw(@, n)],
            [type |-> "SUSONG_FLOWER_DRAWN", player |-> p, count |-> n])

ResolveFlower(p, action) ==
  /\ p \in DOMAIN room.flowers
  /\ CanResolve(room.flowers[p], action)
  /\ Append([room EXCEPT !.flowers[p] = Resolve(@, action)],
            [type |-> "SUSONG_FLOWER_RESOLVED", player |-> p, action |-> action])

BeginPlaying(who) ==
  /\ room.status = "dealing"
  /\ MayRunRound(who)
  /\ \A p \in DOMAIN room.flowers : ~Unresolved(room.flowers[p])
  /\ Append([room EXCEPT !.status = "playing", !.phase = "playing",
                         !.turn = FirstTurn(room), !.deadline = DeadlineEnabled],
            [type |-> "ROUND_PLAYING", turn |-> FirstTurn(room), deadline |-> DeadlineEnabled])

\* Mutant: the deadline is not armed again for the next player.
ApplyActionDisarming(p) ==
  /\ room.status = "playing"
  /\ p \in Seated(room)
  /\ room.turn = p
  /\ Append([room EXCEPT !.turn = NextTurn(room, p), !.deadline = FALSE],
            [type |-> "ACTION_APPLIED", turn |-> NextTurn(room, p), deadline |-> FALSE])

\* applyAction: the turn passes on.  (Rules of the actions are no part of it.)
ApplyAction(p) ==
  /\ room.status = "playing"
  /\ p \in Seated(room)
  /\ room.turn = p
  /\ Append([room EXCEPT !.turn = NextTurn(room, p), !.deadline = DeadlineEnabled],
            [type |-> "ACTION_APPLIED", turn |-> NextTurn(room, p),
             deadline |-> DeadlineEnabled])

\* What the transfers move to and from player p.
Sum(f) == FoldFunction(+, 0, f)
Received(transfers, p) == Sum([t \in transfers |-> IF t.to = p THEN t.amount ELSE 0])
Paid(transfers, p) == Sum([t \in transfers |-> IF t.from = p THEN t.amount ELSE 0])

\* Mutant: the deltas are taken as they come.
AnySettlement(who, deltas, transfers) == TRUE

\* serverSettlementDeltas: scores come from the server, add up to zero and are
\* accounted for by the transfers.
ServerSettlement(who, deltas, transfers) ==
  /\ who = System
  /\ Sum(deltas) = 0
  /\ \A t \in transfers : t.from # t.to
  /\ \A p \in Seated(room) : deltas[p] = Received(transfers, p) - Paid(transfers, p)

Settle(who, scores) ==
  /\ room.status = "playing"
  /\ MayRunRound(who)
  /\ Append([room EXCEPT !.status = "settling", !.phase = "settling",
                         !.scores = scores, !.deadline = FALSE],
            [type |-> "ROUND_SETTLING", scores |-> scores])

\* settleRound without and with scores of the server.
SettleRound(who) == Settle(who, room.scores)

SettleScores(who, deltas, transfers) ==
  /\ ServerSettlement(who, deltas, transfers)
  /\ Settle(who, [p \in Seated(room) |-> room.scores[p] + deltas[p]])

\* Mutant: one round more than agreed.
LastRoundOffByOne == room.round > TotalRounds

LastRound == room.round >= TotalRounds

Dealing == [type |-> "ROUND_DEALING", round |-> room.round + 1]

DealtNext ==
  [room EXCEPT !.status = "dealing", !.phase = "dealing", !.round = @ + 1,
               !.turn = NoPlayer, !.flowers = Empty, !.deadline = FALSE]

Finished(r) ==
  [r EXCEPT !.status = "finished", !.deadline = FALSE]

\* nextRound after the last round ends the match; else the next round is
\* awaited, or with autoDeal dealt by the same command.
NextRound(who, autoDeal) ==
  /\ room.status = "settling"
  /\ MayRunRound(who)
  /\ \/ LastRound /\ Append(Finished(room), [type |-> "MATCH_FINISHED"])
     \/ /\ ~LastRound /\ ~autoDeal
        /\ Append([room EXCEPT !.status = "next_round", !.deadline = FALSE],
                  [type |-> "NEXT_ROUND"])
     \/ /\ ~LastRound /\ autoDeal
        /\ room' = DealtNext
        /\ copy' = ApplyPersistedEvent(ApplyPersistedEvent(copy, [type |-> "NEXT_ROUND"]),
                                       Dealing)
        /\ handled' = Empty

\* beginNextRound has no check of the caller.
BeginNextRound ==
  /\ room.status = "next_round"
  /\ Append(DealtNext, Dealing)

Finish(who) ==
  /\ room.status \in {"playing", "settling", "next_round"}
  /\ MayRunRound(who)
  /\ Append([Finished(room) EXCEPT !.phase = IF @ = "settling" THEN @ ELSE "finished"],
            [type |-> "MATCH_FINISHED"])

Cancel(who) ==
  /\ room.status \notin Over
  /\ IsOwner(who)
  /\ Append([room EXCEPT !.status = "cancelled", !.deadline = FALSE],
            [type |-> "ROOM_CANCELLED"])

-----------------------------------------------------------------------------
\* Another checkpoint is taken to replay from.
Checkpoint ==
  /\ copy' = room
  /\ UNCHANGED <<room, handled>>

Table == \E p \in Players :
  \/ \E s \in Seats : Join(p, s)
  \/ \E q \in Players \cup {NoPlayer} : Leave(p, q)
  \/ \E ready \in BOOLEAN : SetReady(p, ready)
  \/ IncreaseZeng(p)

Flowers ==
  \/ \E opening \in [Seated(room) -> 0..MaxFlowers] : InitializeFlowers(opening)
  \/ \E p \in Players :
       \/ \E choice \in {"piao", "not_piao"} : ChoosePiao(p, choice)
       \/ RecordFlowerDraw(p, 1)
       \/ \E action \in {"discard", "replace"} : ResolveFlower(p, action)

Transfers == [from : Seated(room), to : Seated(room), amount : 1..MaxDelta]

Round == \E who \in Callers :
  \/ \E auto \in BOOLEAN, bypass \in BOOLEAN : Start(who, auto, bypass)
  \/ BeginPlaying(who)
  \/ SettleRound(who)
  \/ /\ room.status = "playing"
     /\ \E deltas \in [Seated(room) -> -MaxDelta..MaxDelta] :
          \E transfers \in SUBSET Transfers : SettleScores(who, deltas, transfers)
  \/ \E autoDeal \in BOOLEAN : NextRound(who, autoDeal)
  \/ Finish(who) \/ Cancel(who)

Command ==
  Table \/ Flowers \/ Round \/ BeginNextRound \/ \E p \in Players : ApplyAction(p)

Next == Command \/ Checkpoint

Spec == Init /\ [][Next]_vars

-----------------------------------------------------------------------------
PlayersRound == {"none", "dealing", "playing", "settling", "finished"}

\* Every field has its type, and the maps are over the seated players.
TypeOK ==
  /\ room.status \in ReadyStates \cup Started \cup Over
  /\ Seated(room) \subseteq Players
  /\ room.seatOf \in [Seated(room) -> Seats]
  /\ \A p \in Seated(room), q \in Seated(room) :
       room.seatOf[p] = room.seatOf[q] => p = q
  /\ room.ready \subseteq Seated(room)
  /\ room.owner \in Players \cup {NoPlayer}
  /\ room.scores \in [Seated(room) -> Int]
  /\ room.zeng \in [Seated(room) -> Nat]
  /\ room.turn \in Players \cup {NoPlayer}
  /\ room.round \in Nat
  /\ room.phase \in PlayersRound
  /\ DOMAIN room.flowers \in {{}, Seated(room)}
  /\ \A p \in DOMAIN room.flowers : room.flowers[p] \in FlowerStates
  /\ room.deadline \in BOOLEAN
  /\ handled \in [DOMAIN room.flowers -> Nat]

\* Replaying the events on any earlier checkpoint gives the room that appended
\* them (but for ready flags, which no longer matter once a round has started):
\* what a restart recovers is what the players saw.
ReadyForgotten(r) == IF r.status \in ReadyStates THEN r ELSE [r EXCEPT !.ready = {}]
ReplayAgrees == ReadyForgotten(copy) = ReadyForgotten(room)

\* Whatever is settled, at whatever round, nobody gains what nobody loses.
ZeroSum == Sum(room.scores) = 0

\* A table with players at it has an owner who can start and cancel: one of
\* them, or the preassigned owner who has not come yet.
OwnerAtTable ==
  Seated(room) # {} =>
    room.owner # NoPlayer /\ room.owner \in Seated(room) \cup {FirstOwner}

\* While people gather, the room is ready exactly if the table is full of ready
\* players.
ReadyIsReady ==
  room.status \in ReadyStates => (room.status = "ready" <=> AllReady(room))

\* Joins, leaves, hand-overs and changes of mind in any order leave a table that
\* somebody can start, and that is ready when it says so (Room: join, leave, setReady).
TableInOrder == OwnerAtTable /\ ReadyIsReady

\* A round is played by a full table, and the turn is with a player at it.
TurnAtTable ==
  /\ room.status \in Started => Cardinality(Seated(room)) = MaxPlayers
  /\ room.status = "playing" => room.turn \in Seated(room)

\* The room carries a deadline exactly while a turn is pending.
DeadlineForTurn == room.deadline <=> room.status = "playing" /\ DeadlineEnabled

\* Whatever starts, passes, ends or cuts short a turn, what a scheduler
\* (Deadlines.tla) reads of the room is a turn of a player at a full table, with a
\* deadline, or neither (Room: beginPlaying, applyAction, settleRound, cancel).
TurnInOrder == TurnAtTable /\ DeadlineForTurn

\* No round is played on while a player owes a piao choice.
ChosenBeforePlay ==
  \A p \in DOMAIN room.flowers :
    room.flowers[p].status = "awaiting_piao_choice" => room.status \in {"dealing", "cancelled"}

\* In piao no flower counts and none is replaced; otherwise every flower of the
\* opening hand and of the draws counts, and none is discarded.
FlowersCounted ==
  \A p \in DOMAIN room.flowers : LET f == room.flowers[p] IN
    IF f.status = "not_piao"
    THEN f.counted = f.opening + f.drawn /\ f.replacements <= f.counted /\ f.discards = 0
    ELSE f.counted = 0 /\ f.replacements = 0 /\ f.discards <= f.opening + f.drawn

Obliged(p) == handled[p] + room.flowers[p].discards + room.flowers[p].replacements
Got(p) == room.flowers[p].opening + room.flowers[p].drawn
Chosen == {p \in DOMAIN room.flowers : room.flowers[p].status # "awaiting_piao_choice"}

\* Choices, draws, discards and replacements may come in any order: no flower a
\* player got is forgotten, those that count are those that should, and nobody plays
\* before choosing (Room: chooseSusongPiao, recordSusongFlowerDraw,
\* resolveSusongFlower, beginPlaying).
FlowersInOrder ==
  ChosenBeforePlay /\ FlowersCounted /\ \A p \in Chosen : Obliged(p) >= Got(p)

\* Each flower is discarded or replaced once.  (Does not hold: a discard before the
\* piao choice is asked for again; README 3.2.)
EachFlowerOnce == \A p \in Chosen : Obliged(p) = Got(p)

\* The room lives as RoomLifecycle.tla promises: one phase after the other, no
\* round beyond the agreed number, and nothing after its end.
Life == INSTANCE RoomLifecycle WITH status <- room.status, roundNumber <- room.round
ImplementsLifecycle == Life!LifeSpec
=============================================================================
