------------------------------ MODULE Settlement ------------------------------
(***************************************************************************)
(* The rule engine settles a round (RoomService.settleSusongRound): it     *)
(* scores the round from the room in memory and queues the result for the  *)
(* room's actor, behind commands that may change the room before it is     *)
(* applied.  The room in memory may be one that a command has changed and  *)
(* that is not durable yet, nor ever will be.                              *)
(*                                                                         *)
(* The room is that of Room.tla, four players in their first round, with   *)
(* the commands that change what a settlement reads or whether it may be   *)
(* applied.  Of the actor (RoomActor.tla) there are the command under way  *)
(* with its write, the version, the command ids with a result, and of its  *)
(* queue the settlements: the other commands run between any two of them.  *)
(***************************************************************************)
EXTENDS Room, SusongScoring

CONSTANTS
  Busy,         \* the players who raise their zeng and draw flowers
  Hands,        \* the flower states they may begin with; the others had one flower
  Facts,        \* what the rule engine may report
  Ids,          \* command ids of the rule engine
  Config,       \* scoreTiers (tiers) and the zeng unit (zeng) of the room
  NoVersion,
  MaxScored, MaxCommands   \* bounds: settlements sent, other commands

ASSUME SettlementAssumption ==
  /\ Busy \subseteq Players /\ Hands \subseteq FlowerStates
  /\ IsFiniteSet(Players) /\ Cardinality(Players) = 4 /\ MaxPlayers = 4
  /\ Config.tiers \in [1..4 -> 1..9] /\ Config.zeng \in Nat
  /\ \A fact \in Facts :
       /\ IsFiniteSet(fact.wins)
       /\ \A win \in fact.wins : win.special \in BOOLEAN /\ win.gangs \in Nat
       /\ fact.outcome = "draw" => fact.wins = {}
  /\ NoVersion \notin Nat
  /\ {MaxScored, MaxCommands} \subseteq Nat

VARIABLES
  running,      \* what is executed and not durable: nothing, a command, a settlement
  durable,      \* the room (and its history) as the store has it
  version,      \* of the durable room; a command of two events counts once
  waiting,      \* settlements in the actor's queue, numbered in its order
  done,         \* the ids of Ids with a command result
  applied,      \* history: the settlements made durable, each with its round
  scored, commands   \* how many of each were sent

actor == <<running, durable, version, waiting, done, applied, scored, commands>>
settlementVars == <<vars, actor>>

Memory == [room |-> room, handled |-> handled]

\* An opening hand whose flowers have been replaced, or in piao discarded.
Dealt(mode, n, choice) ==
  [CreateFlowerState(mode, n, choice) EXCEPT !.replacements = 0, !.discards = 0]

SettlementInit ==
  /\ \E hand \in [Busy -> Hands] :
       LET seat == CHOOSE f \in Injection(Players, Seats) : TRUE
           first == CHOOSE p \in Players : seat[p] = 0
       IN room = [NewRoom EXCEPT
            !.status = "playing", !.phase = "playing", !.round = 1, !.seatOf = seat,
            !.ready = Players, !.owner = first, !.turn = first, !.deadline = DeadlineEnabled,
            !.scores = [p \in Players |-> 0], !.zeng = [p \in Players |-> 0],
            !.flowers = [p \in Players |->
               IF p \in Busy THEN hand[p] ELSE Dealt("optional", 1, "none")]]
  /\ copy = room
  /\ handled = [p \in Players |-> 0]
  /\ running = "nothing" /\ durable = Memory
  /\ version = 0
  /\ waiting = {} /\ done = {} /\ applied = {}
  /\ scored = 0 /\ commands = 0

-----------------------------------------------------------------------------
\* settleSusongRound reads and scores the room in memory and queues the result,
\* with a version it was given of the room, or with none.
SettleSusongRound(id, fact, expected) ==
  LET transfers == RoundTransfers(Config, room.zeng, room.flowers, fact) IN
  /\ scored < MaxScored /\ scored' = scored + 1
  /\ fact.outcome # "draw" => room.flowers # Empty
  /\ Scorable(room.zeng, room.flowers, fact)
  /\ waiting' = waiting \cup
       {[number |-> scored, id |-> id, fact |-> fact, expected |-> expected,
         transfers |-> transfers, deltas |-> Deltas(Players, transfers),
         basis |-> IF running = "nothing" THEN "durable" ELSE "pending"]}
  /\ UNCHANGED <<vars, running, durable, version, done, applied, commands>>

\* Any other command, executed on the room in memory.
Execute ==
  /\ running = "nothing" /\ running' = "command"
  /\ commands < MaxCommands /\ commands' = commands + 1
  /\ \/ \E p \in Busy : \/ IncreaseZeng(p)
                        \/ RecordFlowerDraw(p, 1)
                        \/ \E action \in {"discard", "replace"} : ResolveFlower(p, action)
     \/ SettleRound(room.owner) \/ Cancel(room.owner)
     \/ NextRound(System, TRUE) \/ BeginPlaying(System)
  /\ UNCHANGED <<durable, version, waiting, done, applied, scored>>

First == CHOOSE s \in waiting : \A t \in waiting : s.number <= t.number

\* Mutants: a repeated command id is taken for a new command; the version the
\* caller expects is not looked at.
NeverSeen(s) == FALSE
MatchesAnything(s) == TRUE

Seen(s) == s.id \in done
MatchesVersion(s) == s.expected \in {NoVersion, version}

\* The first settlement of the queue is executed.
ExecuteSettlement ==
  /\ running = "nothing" /\ waiting # {}
  /\ ~Seen(First) /\ MatchesVersion(First)
  /\ SettleScores(System, First.deltas, First.transfers)
  /\ running' = "settlement"
  /\ UNCHANGED <<durable, version, waiting, done, applied, scored, commands>>

MayBeSettled(s) ==
  room.status = "playing" /\ ServerSettlement(System, s.deltas, s.transfers)

\* It is answered again, or refused.
AnswerSettlement ==
  /\ running = "nothing" /\ waiting # {}
  /\ Seen(First) \/ ~MatchesVersion(First) \/ ~MayBeSettled(First)
  /\ waiting' = waiting \ {First}
  /\ UNCHANGED <<vars, running, durable, version, done, applied, scored, commands>>

\* What was scored while a command was under way becomes durable or lost with it.
Rebased(basis) ==
  {[s EXCEPT !.basis = IF @ = "pending" THEN basis ELSE @] :
     s \in IF running = "settlement" THEN waiting \ {First} ELSE waiting}

\* The event is appended, with the result of the command.
Commit ==
  /\ running # "nothing" /\ running' = "nothing"
  /\ durable' = Memory /\ version' = version + 1
  /\ waiting' = Rebased("durable")
  /\ IF running = "settlement"
     THEN /\ done' = done \cup {First.id}
          /\ applied' = applied \cup
               {[number |-> First.number, id |-> First.id, round |-> room.round]}
     ELSE UNCHANGED <<done, applied>>
  /\ UNCHANGED <<vars, scored, commands>>

Restored == room' = durable.room /\ copy' = durable.room /\ handled' = durable.handled

\* The append fails: the room is restored.
Fail ==
  /\ running # "nothing" /\ running' = "nothing"
  /\ Restored
  /\ waiting' = Rebased("lost")
  /\ UNCHANGED <<durable, version, done, applied, scored, commands>>

\* The process starts again, without its queue.
Restart ==
  /\ running' = "nothing" /\ waiting' = {}
  /\ Restored
  /\ UNCHANGED <<durable, version, done, applied, scored, commands>>

Settling == \E id \in Ids, fact \in Facts :
  \/ SettleSusongRound(id, fact, NoVersion)
  \/ SettleSusongRound(id, fact, version)
  \/ running # "nothing" /\ SettleSusongRound(id, fact, version + 1)

SettlementNext ==
  Settling \/ Execute \/ ExecuteSettlement \/ AnswerSettlement \/ Commit \/ Fail \/ Restart

SettlementSpec == SettlementInit /\ [][SettlementNext]_settlementVars

-----------------------------------------------------------------------------
\* The rule sheet (docs/rules/SUSONG_8931_RULE_BASELINE.md, 3 and 5), as what
\* one player owes another.
RuledTier(f, win) ==
  IF f.status = "piao" \/ f.counted = 0 \/ win.special \/ win.gangs > 1 THEN 4
  ELSE IF win.gangs = 1
       THEN CHOOSE tier \in 2..4 : f.counted \in <<{}, 1..3, 4..5, Nat \ 0..5>>[tier]
       ELSE CHOOSE tier \in 1..3 : f.counted \in <<1..4, 5..9, Nat \ 0..9>>[tier]

Owes(payer, winner, fact) ==
  LET win == CHOOSE w \in fact.wins : w.player = winner
      score == Config.tiers[RuledTier(room.flowers[winner], win)]
                 + (room.zeng[winner] + room.zeng[payer]) * Config.zeng
  IN IF winner \notin Winners(fact) \/ payer = winner
          \/ (fact.outcome = "discard" /\ payer # fact.discarder) THEN 0
     ELSE IF {payer, winner} \in fact.sanxi THEN 2 * score ELSE score

RuledScore(p, fact) ==
  room.scores[p] + Sum([q \in Players |-> Owes(q, p, fact) - Owes(p, q, fact)])

\* Nobody wins with flowers or a choice outstanding, nor without flowers on a discard.
RuledWin(winner, fact) ==
  LET f == room.flowers[winner] IN
  /\ f.status # "awaiting_piao_choice" /\ f.discards = 0 /\ f.replacements = 0
  /\ fact.outcome = "discard" => f.status # "piao" /\ f.counted > 0

\* A settlement sent with a room version changes the scores as the rule sheet
\* says of the room it is applied to, whatever players did since it was scored,
\* whatever failed, and whichever round has begun: unless it was scored from a
\* room that never became durable.  (Without a version it may be stale.)
SettledAsRuled ==
  [][ExecuteSettlement /\ First.expected # NoVersion /\ First.basis # "lost" =>
       /\ \A w \in Winners(First.fact) : RuledWin(w, First.fact)
       /\ \A p \in Players : room'.scores[p] = RuledScore(p, First.fact)
    ]_settlementVars

\* One settlement per round and one per command id, through retries, failures
\* and restarts.
SettledOnce ==
  \A s \in applied, t \in applied : s.id = t.id \/ s.round = t.round => s = t

\* What the rule engine scores is what the room accepts (serverSettlementDeltas):
\* a settlement is refused for its moment, never for its amounts.
EngineAgreesWithRoom ==
  \A s \in waiting :
    /\ ServerSettlement(System, s.deltas, s.transfers)
    /\ \A t \in s.transfers : t.amount > 0
=============================================================================
