------------------------------ MODULE RoomProofs ------------------------------
(***************************************************************************)
(* The Room aggregate for any players, seats, rounds and bounds: the table *)
(* is in order, the turn is with somebody at it, no flower is forgotten,   *)
(* the scores add up to zero, the events replayed on any checkpoint give   *)
(* the room that appended them, and the room lives as RoomLifecycle        *)
(* promises; and a recovery yields the last word about each connection.    *)
(***************************************************************************)
EXTENDS RoomPresence, FiniteSetTheorems, WellFoundedInduction, TLAPS

Statuses == ReadyStates \cup Started \cup Over
OnPlayers(T) == UNION {[S -> T] : S \in SUBSET Players}

Fields ==
  [status : Statuses, owner : Players \cup {NoPlayer}, seatOf : OnPlayers(Seats),
   ready : SUBSET Players, scores : OnPlayers(Int), zeng : OnPlayers(Nat),
   turn : Players \cup {NoPlayer}, round : Nat, phase : PlayersRound,
   flowers : OnPlayers(FlowerStates), deadline : BOOLEAN]

Shape == room \in Fields /\ handled \in [DOMAIN room.flowers -> Nat]

\* Whatever is taken of these seats, one of them is the lowest.
Ordered(S) == \A T \in SUBSET S : T # {} => \E m \in T : \A k \in T : m <= k

\* The maps are over the seated players, of whom there are not too many.
TablePart ==
  /\ \A p, q \in Seated(room) : room.seatOf[p] = room.seatOf[q] => p = q
  /\ room.ready \subseteq Seated(room)
  /\ DOMAIN room.scores = Seated(room) /\ DOMAIN room.zeng = Seated(room)
  /\ IsFiniteSet(Seated(room)) /\ Cardinality(Seated(room)) <= MaxPlayers
  /\ Ordered(Range(room.seatOf))
  /\ room.owner \in Seated(room) \cup {NoPlayer, FirstOwner} /\ OwnerAtTable

\* What the status says of the round.
StatusPart ==
  /\ room.status \in ReadyStates => room.flowers = Empty /\ room.round = 0
  /\ room.status = "next_round" => room.round < TotalRounds
  /\ room.status = "settling" => room.phase = "settling"
  /\ ReadyIsReady
  /\ TurnAtTable /\ DeadlineForTurn

FlowerPart == DOMAIN room.flowers \in {{}, Seated(room)} /\ FlowersInOrder

\* The copy is the room, but for ready flags once a round has started.
CopyPart ==
  /\ copy = [room EXCEPT !.ready = copy.ready]
  /\ copy.ready \subseteq Players
  /\ room.status \in ReadyStates => copy.ready = room.ready

RoomInv == Shape /\ TablePart /\ StatusPart /\ FlowerPart /\ CopyPart

-----------------------------------------------------------------------------
\* What With and Without do to a map.
LEMMA WithMap ==
  ASSUME NEW S, NEW T, NEW f \in [S -> T], NEW p, NEW v \in T
  PROVE  /\ With(f, p, v) \in [S \cup {p} -> T]
         /\ With(f, p, v)[p] = v
         /\ \A q \in S \ {p} : With(f, p, v)[q] = f[q]
BY DEF With

LEMMA WithoutMap ==
  ASSUME NEW S, NEW T, NEW f \in [S -> T], NEW p
  PROVE  /\ Without(f, p) \in [S \ {p} -> T]
         /\ \A q \in S \ {p} : Without(f, p)[q] = f[q]
BY DEF Without, Restrict

LEMMA EmptyMap == \A T : Empty \in [{} -> T] /\ Empty \in OnPlayers(T)
<1> SUFFICES ASSUME NEW T PROVE Empty \in [{} -> T] /\ Empty \in OnPlayers(T)
  OBVIOUS
<1>1. Empty \in [{} -> T]
  BY DEF Empty
<1> QED
  BY <1>1 DEF OnPlayers

LEMMA OnPlayersMap ==
  ASSUME NEW T, NEW f
  PROVE  f \in OnPlayers(T) <=> f \in [DOMAIN f -> T] /\ DOMAIN f \subseteq Players
BY DEF OnPlayers

-----------------------------------------------------------------------------
\* The order of the seats.
LEMMA OrderedSubset ==
  ASSUME NEW S, NEW R, R \subseteq S, Ordered(S)
  PROVE  Ordered(R)
BY DEF Ordered

LEMMA OrderedAdd ==
  ASSUME NEW S, S \subseteq Int, NEW s \in Int, Ordered(S)
  PROVE  Ordered(S \cup {s})
<1> SUFFICES ASSUME NEW T \in SUBSET (S \cup {s}), T # {}
             PROVE  \E m \in T : \A k \in T : m <= k
  BY DEF Ordered
<1>1. CASE T \ {s} = {}
  <2>1. T = {s}
    BY <1>1
  <2> QED
    BY <2>1
<1>2. CASE T \ {s} # {}
  <2>1. PICK m \in T \ {s} : \A k \in T \ {s} : m <= k
    BY <1>2 DEF Ordered
  <2>2. m \in Int /\ \A k \in T : k \in Int
    BY <2>1
  <2>3. CASE s \in T /\ s < m
    BY <2>1, <2>2, <2>3
  <2>4. CASE ~(s \in T /\ s < m)
    BY <2>1, <2>2, <2>4
  <2> QED
    BY <2>3, <2>4
<1> QED
  BY <1>1, <1>2

LEMMA RoomFacts ==
  ASSUME Shape
  PROVE  /\ room.status \in Statuses /\ room.owner \in Players \cup {NoPlayer}
         /\ Seated(room) \subseteq Players /\ room.seatOf \in [Seated(room) -> Seats]
         /\ Seats \subseteq Int /\ Range(room.seatOf) \subseteq Seats
         /\ room.scores \in [DOMAIN room.scores -> Int] /\ DOMAIN room.scores \subseteq Players
         /\ room.zeng \in [DOMAIN room.zeng -> Nat] /\ DOMAIN room.zeng \subseteq Players
         /\ room.flowers \in [DOMAIN room.flowers -> FlowerStates]
         /\ DOMAIN room.flowers \subseteq Players
         /\ room.round \in Nat /\ room.turn \in Players \cup {NoPlayer}
         /\ room.phase \in PlayersRound /\ room.ready \subseteq Players
<1>1. /\ room.status \in Statuses /\ room.owner \in Players \cup {NoPlayer}
      /\ room.seatOf \in OnPlayers(Seats) /\ room.scores \in OnPlayers(Int)
      /\ room.zeng \in OnPlayers(Nat) /\ room.flowers \in OnPlayers(FlowerStates)
      /\ room.round \in Nat /\ room.turn \in Players \cup {NoPlayer}
      /\ room.phase \in PlayersRound /\ room.ready \subseteq Players
  BY DEF Shape, Fields
<1>2. Seats \subseteq Int
  BY RoomAssumption DEF Seats
<1>3. Range(room.seatOf) \subseteq Seats
  BY <1>1, OnPlayersMap DEF Range
<1> QED
  BY <1>1, <1>2, <1>3, OnPlayersMap DEF Seated

\* The first turn is with somebody at the table.
LEMMA FirstTurnSeated ==
  ASSUME Shape, TablePart, Seated(room) # {}
  PROVE  FirstTurn(room) \in Seated(room)
<1>1. \E s \in Range(room.seatOf) : \A t \in Range(room.seatOf) : s <= t
  <2>1. Range(room.seatOf) # {}
    BY DEF Range, Seated
  <2> QED
    BY <2>1 DEF TablePart, Ordered
<1>2. LowestSeat(room) \in Range(room.seatOf)
  BY <1>1 DEF LowestSeat
<1>3. \E p \in Seated(room) : room.seatOf[p] = LowestSeat(room)
  BY <1>2 DEF Range, Seated
<1> QED
  BY <1>3 DEF FirstTurn, BySeat

\* The turn passes on to somebody at the table.
LEMMA NextTurnSeated ==
  ASSUME Shape, TablePart, NEW p \in Seated(room)
  PROVE  NextTurn(room, p) \in Seated(room)
<1> DEFINE later == {s \in Range(room.seatOf) : s > room.seatOf[p]}
           s == CHOOSE s \in later : \A t \in later : s <= t
<1>1. CASE later = {}
  BY <1>1, FirstTurnSeated DEF NextTurn
<1>2. CASE later # {}
  <2>1. \E m \in later : \A t \in later : m <= t
    BY <1>2 DEF TablePart, Ordered
  <2>2. s \in later
    BY <2>1
  <2>3. \E q \in Seated(room) : room.seatOf[q] = s
    BY <2>2 DEF Range, Seated
  <2>4. NextTurn(room, p) = BySeat(room, s)
    BY <1>2 DEF NextTurn
  <2> HIDE DEF s
  <2> QED
    BY <2>3, <2>4 DEF BySeat
<1> QED
  BY <1>1, <1>2

\* applyPersistedEvent by the type of the event.
LEMMA Replayed ==
  ASSUME NEW r, NEW e
  PROVE  /\ e.type = "PLAYER_JOINED" => ApplyPersistedEvent(r, e) = Joined(r, e)
         /\ e.type = "PLAYER_LEFT" => ApplyPersistedEvent(r, e) = LeftRoom(r, e)
         /\ e.type = "PLAYER_READY" => ApplyPersistedEvent(r, e) = ReadySet(r, e)
         /\ e.type = "PLAYER_ZENG_INCREASED" => ApplyPersistedEvent(r, e) = ZengIncreased(r, e)
         /\ e.type = "ROUND_STARTED" => ApplyPersistedEvent(r, e) = RoundStarted(r, e)
         /\ e.type = "ROUND_PLAYING" => ApplyPersistedEvent(r, e) = RoundPlaying(r, e)
         /\ e.type = "SUSONG_FLOWERS_INITIALIZED" =>
              ApplyPersistedEvent(r, e) = FlowersInitialized(r, e)
         /\ e.type = "SUSONG_PIAO_CHOSEN" => ApplyPersistedEvent(r, e) = PiaoChosen(r, e)
         /\ e.type = "SUSONG_FLOWER_DRAWN" => ApplyPersistedEvent(r, e) = FlowerDrawn(r, e)
         /\ e.type = "SUSONG_FLOWER_RESOLVED" => ApplyPersistedEvent(r, e) = FlowerResolved(r, e)
         /\ e.type = "ACTION_APPLIED" => ApplyPersistedEvent(r, e) = ActionApplied(r, e)
         /\ e.type = "ROUND_SETTLING" => ApplyPersistedEvent(r, e) = RoundSettling(r, e)
         /\ e.type = "NEXT_ROUND" => ApplyPersistedEvent(r, e) = NextRoundAwaited(r, e)
         /\ e.type = "ROUND_DEALING" => ApplyPersistedEvent(r, e) = RoundDealing(r, e)
         /\ e.type = "MATCH_FINISHED" => ApplyPersistedEvent(r, e) = MatchFinished(r, e)
         /\ e.type = "ROOM_CANCELLED" => ApplyPersistedEvent(r, e) = RoomCancelled(r, e)
BY DEF ApplyPersistedEvent

\* Events that are not about flowers leave what was handled of them.
LEMMA HandledStays ==
  ASSUME Shape, NEW r, NEW e, r.flowers = room.flowers,
         e.type \notin {"SUSONG_FLOWERS_INITIALIZED", "SUSONG_FLOWER_RESOLVED"}
  PROVE  HandledAfter(r, e) = handled
BY DEF HandledAfter, Shape

LEMMA InitRoomInv == Init => RoomInv
<1> SUFFICES ASSUME Init PROVE RoomInv
  OBVIOUS
<1> USE DEF Init, NewRoom
<1>1. DOMAIN Empty = {} /\ Range(Empty) = {}
  BY DEF Empty, Range
<1>2. Shape
  BY <1>1, EmptyMap, RoomAssumption
     DEF Shape, Fields, Statuses, ReadyStates, PlayersRound
<1>3. TablePart
  BY <1>1, FS_EmptySet, RoomAssumption DEF TablePart, Seated, Ordered, OwnerAtTable
<1>4. StatusPart
  BY <1>1, FS_EmptySet, RoomAssumption
     DEF StatusPart, ReadyIsReady, AllReady, TurnAtTable, DeadlineForTurn, ReadyStates, Started,
         Seated
<1>5. FlowerPart
  BY <1>1 DEF FlowerPart, FlowersInOrder, ChosenBeforePlay, FlowersCounted, Chosen
<1>6. CopyPart
  BY DEF CopyPart
<1> QED
  BY <1>2, <1>3, <1>4, <1>5, <1>6 DEF RoomInv

-----------------------------------------------------------------------------
\* While people gather, the copy is the room.
LEMMA CopyIsRoom ==
  ASSUME Shape, CopyPart, room.status \in ReadyStates
  PROVE  copy = room
BY DEF Shape, Fields, CopyPart

LEMMA CopyAgain ==
  ASSUME Shape', copy' = room'
  PROVE  CopyPart'
BY DEF Shape, Fields, CopyPart

\* Nothing of a round changes while people come and go.
LEMMA GatheringKeeps ==
  ASSUME RoomInv, Shape', room.status \in ReadyStates, room'.status \in ReadyStates,
         room'.flowers = room.flowers, room'.round = room.round, room'.deadline = room.deadline,
         ReadyIsReady'
  PROVE  StatusPart' /\ FlowerPart'
<1>1. room.flowers = Empty /\ room.round = 0 /\ DOMAIN Empty = {}
  BY DEF RoomInv, StatusPart, Empty
<1>2. room'.status \in {"waiting", "ready"} /\ room.status \in {"waiting", "ready"}
  BY DEF ReadyStates
<1>3. StatusPart'
  BY <1>1, <1>2 DEF RoomInv, StatusPart, TurnAtTable, DeadlineForTurn, ReadyStates, Started
<1>4. FlowerPart'
  BY <1>1 DEF FlowerPart, FlowersInOrder, ChosenBeforePlay, FlowersCounted, Chosen
<1> QED
  BY <1>3, <1>4

LEMMA JoinKeeps ==
  ASSUME RoomInv, NEW p \in Players, NEW s \in Seats, Join(p, s)
  PROVE  RoomInv'
<1> DEFINE owner == IF room.owner = NoPlayer THEN p ELSE room.owner
           e == [type |-> "PLAYER_JOINED", player |-> p, seat |-> s, owner |-> owner]
           S == Seated(room)
<1>1. /\ Shape /\ TablePart /\ CopyPart
      /\ room.status = "waiting" /\ p \notin S /\ Cardinality(S) < MaxPlayers
      /\ s \notin Range(room.seatOf)
      /\ room' = [room EXCEPT !.owner = owner, !.seatOf = With(room.seatOf, p, s),
                              !.scores = With(room.scores, p, 0), !.zeng = With(room.zeng, p, 0)]
      /\ copy' = ApplyPersistedEvent(copy, e) /\ handled' = HandledAfter(room', e)
  BY DEF RoomInv, Join, Append, FreeSeat
<1>2. /\ room.seatOf \in [S -> Seats] /\ room.scores \in [S -> Int] /\ room.zeng \in [S -> Nat]
      /\ S \subseteq Players /\ Seats \subseteq Int /\ room.ready \subseteq S
      /\ DOMAIN room.scores = S /\ DOMAIN room.zeng = S /\ Range(room.seatOf) \subseteq Int
  BY <1>1, RoomFacts DEF TablePart
<1>3. copy' = room'
  <2>1. copy' = Joined(room, e)
    BY <1>1, CopyIsRoom, Replayed DEF ReadyStates
  <2>2. room.ready \ {p} = room.ready /\ p \notin DOMAIN room.scores /\ p \notin DOMAIN room.zeng
    BY <1>1, <1>2
  <2>3. Joined(room, e) = [room EXCEPT !.seatOf = With(room.seatOf, p, s), !.ready = room.ready,
                                       !.scores = With(room.scores, p, 0),
                                       !.zeng = With(room.zeng, p, 0), !.owner = owner]
    BY <2>2 DEF Joined
  <2> QED
    BY ZenonT(30), <1>1, <2>1, <2>3 DEF Shape, Fields
<1> HIDE DEF owner, S
<1>4. /\ With(room.seatOf, p, s) \in [S \cup {p} -> Seats]
      /\ With(room.seatOf, p, s)[p] = s
      /\ \A q \in S \ {p} : With(room.seatOf, p, s)[q] = room.seatOf[q]
      /\ With(room.scores, p, 0) \in [S \cup {p} -> Int]
      /\ With(room.zeng, p, 0) \in [S \cup {p} -> Nat]
  <2>1. room.seatOf \in [S -> Seats] /\ room.scores \in [S -> Int] /\ room.zeng \in [S -> Nat]
    BY <1>2
  <2>2. /\ With(room.seatOf, p, s) \in [S \cup {p} -> Seats]
        /\ With(room.seatOf, p, s)[p] = s
        /\ \A q \in S \ {p} : With(room.seatOf, p, s)[q] = room.seatOf[q]
    BY <2>1 DEF With
  <2>3. With(room.scores, p, 0) \in [S \cup {p} -> Int]
    <3>1. 0 \in Int
      OBVIOUS
    <3> QED
      BY <2>1, <3>1, WithMap
  <2>4. With(room.zeng, p, 0) \in [S \cup {p} -> Nat]
    <3>1. 0 \in Nat
      OBVIOUS
    <3> QED
      BY <2>1, <3>1, WithMap
  <2> QED
    BY <2>2, <2>3, <2>4
<1>5. /\ With(room.seatOf, p, s) \in OnPlayers(Seats)
      /\ With(room.scores, p, 0) \in OnPlayers(Int)
      /\ With(room.zeng, p, 0) \in OnPlayers(Nat)
      /\ owner \in Players \cup {NoPlayer}
  BY <1>1, <1>2, <1>4, RoomFacts DEF OnPlayers, owner
<1>6. room' \in Fields
  BY <1>1, <1>5 DEF Shape, Fields
<1>7. /\ room'.status = "waiting" /\ room'.owner = owner /\ room'.flowers = room.flowers
      /\ room'.seatOf = With(room.seatOf, p, s) /\ room'.ready = room.ready
      /\ room'.scores = With(room.scores, p, 0) /\ room'.zeng = With(room.zeng, p, 0)
      /\ room'.round = room.round /\ room'.deadline = room.deadline
  BY <1>1 DEF Shape, Fields
<1>8. Seated(room') = S \cup {p}
  BY <1>4, <1>7 DEF Seated
<1>9. handled' = handled
  BY <1>1, <1>7, HandledStays
<1>10. Shape'
  BY <1>1, <1>6, <1>7, <1>9 DEF Shape
<1>11. TablePart'
  <2>1. /\ room'.seatOf[p] = s /\ \A q \in S : room'.seatOf[q] = room.seatOf[q]
    BY <1>1, <1>4, <1>7 DEF S
  <2>2. \A q \in S : room.seatOf[q] # s
    BY <1>1 DEF Range, S, Seated
  <2>3. \A q, r \in Seated(room') : room'.seatOf[q] = room'.seatOf[r] => q = r
    BY <1>1, <1>8, <2>1, <2>2 DEF TablePart, S
  <2>4. Range(room'.seatOf) = Range(room.seatOf) \cup {s}
    <3>1. DOMAIN room'.seatOf = DOMAIN room.seatOf \cup {p} /\ S = DOMAIN room.seatOf
      BY <1>8 DEF Seated, S
    <3> QED
      BY <1>1, <2>1, <3>1 DEF Range
  <2>5. Ordered(Range(room'.seatOf))
    BY <1>1, <1>2, <2>4, OrderedAdd DEF TablePart
  <2>6. IsFiniteSet(S \cup {p}) /\ Cardinality(S \cup {p}) <= MaxPlayers
    <3>1. IsFiniteSet(S)
      BY <1>1 DEF TablePart, S
    <3>2. IsFiniteSet(S \cup {p}) /\ Cardinality(S \cup {p}) = Cardinality(S) + 1
      BY <1>1, <3>1, FS_AddElement DEF S
    <3>3. Cardinality(S) \in Nat
      BY <3>1, FS_CardinalityType
    <3> QED
      BY <1>1, <3>2, <3>3, RoomAssumption DEF S
  <2>7. room'.owner \in S \cup {p, FirstOwner} /\ room'.owner # NoPlayer
    <3>1. room.owner \in S \cup {NoPlayer, FirstOwner} /\ p # NoPlayer
      BY <1>1, RoomAssumption DEF TablePart, S
    <3>2. owner = IF room.owner = NoPlayer THEN p ELSE room.owner
      BY DEF owner
    <3>3. owner \in S \cup {p, FirstOwner} /\ owner # NoPlayer
      BY <3>1, <3>2
    <3> QED
      BY <1>7, <3>3
  <2>8. DOMAIN room'.scores = S \cup {p} /\ DOMAIN room'.zeng = S \cup {p}
    BY <1>4, <1>7
  <2> QED
    BY <1>2, <1>7, <1>8, <2>3, <2>5, <2>6, <2>7, <2>8 DEF TablePart, OwnerAtTable
<1>12. ReadyIsReady'
  BY <1>1, <1>2, <1>7, <1>8 DEF ReadyIsReady, AllReady, S
<1>13. StatusPart' /\ FlowerPart'
  BY <1>1, <1>7, <1>10, <1>12, GatheringKeeps DEF ReadyStates
<1>14. CopyPart'
  BY <1>10, <1>3, CopyAgain
<1> QED
  BY <1>10, <1>11, <1>13, <1>14 DEF RoomInv

LEMMA LeaveKeeps ==
  ASSUME RoomInv, NEW p \in Players, NEW successor \in Players \cup {NoPlayer},
         Leave(p, successor)
  PROVE  RoomInv'
<1> DEFINE owner == IF p = room.owner THEN successor ELSE room.owner
           status == IF room.status = "ready" THEN "waiting" ELSE room.status
           e == [type |-> "PLAYER_LEFT", player |-> p, owner |-> owner]
           S == Seated(room)
<1>1. /\ Shape /\ TablePart /\ CopyPart
      /\ room.status \in ReadyStates /\ p \in S
      /\ p = room.owner /\ S # {p} => successor \in S \ {p}
      /\ p # room.owner \/ S = {p} => successor = NoPlayer
      /\ room' = [room EXCEPT !.seatOf = Without(room.seatOf, p), !.ready = room.ready \ {p},
                              !.scores = Without(room.scores, p), !.zeng = Without(room.zeng, p),
                              !.owner = owner, !.status = status]
      /\ copy' = ApplyPersistedEvent(copy, e) /\ handled' = HandledAfter(room', e)
  BY DEF RoomInv, Leave, Append
<1>2. /\ room.seatOf \in [S -> Seats] /\ room.scores \in [S -> Int] /\ room.zeng \in [S -> Nat]
      /\ S \subseteq Players /\ room.ready \subseteq S
      /\ DOMAIN room.scores = S /\ DOMAIN room.zeng = S
  BY <1>1, RoomFacts DEF TablePart
<1>3. copy' = room'
  <2>1. copy' = LeftRoom(room, e)
    BY <1>1, CopyIsRoom, Replayed
  <2> QED
    BY <1>1, <2>1 DEF LeftRoom, Shape, Fields
<1> HIDE DEF owner, S
<1>4. /\ Without(room.seatOf, p) \in [S \ {p} -> Seats]
      /\ \A q \in S \ {p} : Without(room.seatOf, p)[q] = room.seatOf[q]
      /\ Without(room.scores, p) \in [S \ {p} -> Int]
      /\ Without(room.zeng, p) \in [S \ {p} -> Nat]
  <2>1. room.seatOf \in [S -> Seats] /\ room.scores \in [S -> Int] /\ room.zeng \in [S -> Nat]
    BY <1>2
  <2>2. /\ Without(room.seatOf, p) \in [S \ {p} -> Seats]
        /\ \A q \in S \ {p} : Without(room.seatOf, p)[q] = room.seatOf[q]
    BY <2>1 DEF Without, Restrict
  <2>3. Without(room.scores, p) \in [S \ {p} -> Int]
    BY <2>1, WithoutMap
  <2>4. Without(room.zeng, p) \in [S \ {p} -> Nat]
    BY <2>1, WithoutMap
  <2> QED
    BY <2>2, <2>3, <2>4
<1>5. /\ Without(room.seatOf, p) \in OnPlayers(Seats)
      /\ Without(room.scores, p) \in OnPlayers(Int)
      /\ Without(room.zeng, p) \in OnPlayers(Nat)
      /\ owner \in Players \cup {NoPlayer} /\ status = "waiting"
  BY <1>1, <1>2, <1>4, RoomFacts DEF OnPlayers, owner, ReadyStates
<1>6. room' \in Fields
  BY <1>1, <1>2, <1>5 DEF Shape, Fields, Statuses, ReadyStates
<1>7. /\ room'.status = "waiting" /\ room'.owner = owner /\ room'.flowers = room.flowers
      /\ room'.seatOf = Without(room.seatOf, p) /\ room'.ready = room.ready \ {p}
      /\ room'.scores = Without(room.scores, p) /\ room'.zeng = Without(room.zeng, p)
      /\ room'.round = room.round /\ room'.deadline = room.deadline
  BY <1>1, <1>5 DEF Shape, Fields
<1>8. Seated(room') = S \ {p}
  BY <1>4, <1>7 DEF Seated
<1>9. handled' = handled
  BY ZenonT(30), <1>1, <1>7, HandledStays
<1>10. Shape'
  BY <1>1, <1>6, <1>7, <1>9 DEF Shape
<1>11. /\ IsFiniteSet(S \ {p}) /\ Cardinality(S \ {p}) < MaxPlayers
  <2>1. IsFiniteSet(S) /\ Cardinality(S) <= MaxPlayers
    BY <1>1 DEF TablePart, S
  <2>2. IsFiniteSet(S \ {p}) /\ Cardinality(S \ {p}) = Cardinality(S) - 1
    BY <1>1, <2>1, FS_RemoveElement DEF S
  <2>3. Cardinality(S) \in Nat
    BY <2>1, FS_CardinalityType
  <2> QED
    BY <2>1, <2>2, <2>3, RoomAssumption
<1>12. TablePart'
  <2>1. \A q \in S \ {p} : room'.seatOf[q] = room.seatOf[q]
    BY <1>4, <1>7
  <2>2. \A q, r \in Seated(room') : room'.seatOf[q] = room'.seatOf[r] => q = r
    BY <1>1, <1>8, <2>1 DEF TablePart, S
  <2>3. Range(room'.seatOf) \subseteq Range(room.seatOf)
    <3>1. DOMAIN room'.seatOf = S \ {p} /\ S = DOMAIN room.seatOf
      BY <1>8 DEF Seated, S
    <3> QED
      BY <2>1, <3>1 DEF Range
  <2>4. Ordered(Range(room'.seatOf))
    BY <1>1, <2>3, OrderedSubset DEF TablePart
  <2>5. /\ room'.owner \in (S \ {p}) \cup {NoPlayer, FirstOwner}
        /\ S \ {p} # {} => room'.owner # NoPlayer /\ room'.owner \in (S \ {p}) \cup {FirstOwner}
    <3>1. /\ room.owner \in S \cup {NoPlayer, FirstOwner} /\ NoPlayer \notin S
          /\ room.owner # NoPlayer /\ room.owner \in S \cup {FirstOwner}
      BY <1>1, <1>2, RoomAssumption DEF TablePart, OwnerAtTable, S
    <3>2. owner = IF p = room.owner THEN successor ELSE room.owner
      BY DEF owner
    <3> QED
      BY <1>1, <1>7, <3>1, <3>2
  <2>6. DOMAIN room'.scores = S \ {p} /\ DOMAIN room'.zeng = S \ {p}
    BY <1>4, <1>7
  <2>7. Cardinality(S \ {p}) <= MaxPlayers
    BY <1>11, FS_CardinalityType, RoomAssumption
  <2> QED
    BY <1>2, <1>7, <1>8, <1>11, <2>2, <2>4, <2>5, <2>6, <2>7
       DEF TablePart, OwnerAtTable
<1>13. ReadyIsReady'
  <2>1. Cardinality(S \ {p}) # MaxPlayers
    BY <1>11, FS_CardinalityType, RoomAssumption
  <2> QED
    BY <1>7, <1>8, <2>1 DEF ReadyIsReady, AllReady
<1>14. StatusPart' /\ FlowerPart'
  BY <1>1, <1>7, <1>10, <1>13, GatheringKeeps DEF ReadyStates
<1> QED
  BY <1>3, <1>10, <1>12, <1>14, CopyAgain DEF RoomInv

LEMMA SetReadyKeeps ==
  ASSUME RoomInv, NEW p \in Players, NEW ready \in BOOLEAN, SetReady(p, ready)
  PROVE  RoomInv'
<1> DEFINE R == IF ready THEN room.ready \cup {p} ELSE room.ready \ {p}
           marked == [room EXCEPT !.ready = R]
           status == StatusWhenMarked(marked)
           e == [type |-> "PLAYER_READY", player |-> p, ready |-> ready, status |-> status]
<1>1. /\ Shape /\ TablePart /\ CopyPart
      /\ room.status \in ReadyStates /\ p \in Seated(room)
      /\ room' = [marked EXCEPT !.status = status]
      /\ copy' = ApplyPersistedEvent(copy, e) /\ handled' = HandledAfter(room', e)
  BY DEF RoomInv, SetReady, Append
<1>2. room.ready \subseteq Seated(room) /\ Seated(room) \subseteq Players
  BY <1>1, RoomFacts DEF TablePart
<1>3. copy' = room'
  <2>1. copy' = ReadySet(room, e)
    BY <1>1, CopyIsRoom, Replayed
  <2>2. ReadySet(room, e) = [room EXCEPT !.ready = R, !.status = status]
    BY DEF ReadySet
  <2> QED
    BY <1>1, <2>1, <2>2 DEF Shape, Fields
<1>4. /\ R \subseteq Seated(room) /\ status \in ReadyStates
      /\ status = "ready" <=> Cardinality(Seated(room)) = MaxPlayers /\ R = Seated(room)
  <2>1. R \subseteq Seated(room)
    BY <1>1, <1>2
  <2>2. marked.ready = R /\ Seated(marked) = Seated(room)
    BY <1>1 DEF Shape, Fields, Seated
  <2> QED
    BY <2>1, <2>2 DEF StatusWhenMarked, AllReady, ReadyStates
<1> HIDE DEF R, status
<1>5. room' \in Fields
  BY <1>1, <1>2, <1>4 DEF Shape, Fields, Statuses
<1>6. /\ room'.status = status /\ room'.ready = R
      /\ room'.owner = room.owner /\ room'.seatOf = room.seatOf
      /\ room'.scores = room.scores /\ room'.zeng = room.zeng
      /\ room'.flowers = room.flowers /\ room'.round = room.round
      /\ room'.deadline = room.deadline
  BY <1>1 DEF Shape, Fields
<1>7. handled' = handled
  BY <1>1, <1>6, HandledStays
<1>8. Shape'
  BY <1>1, <1>5, <1>6, <1>7 DEF Shape
<1>9. Seated(room') = Seated(room)
  BY <1>6 DEF Seated
<1>10. TablePart'
  BY <1>1, <1>4, <1>6, <1>9 DEF TablePart, OwnerAtTable
<1>11. ReadyIsReady'
  BY <1>4, <1>6, <1>9 DEF ReadyIsReady, AllReady
<1>12. StatusPart' /\ FlowerPart'
  BY <1>1, <1>4, <1>6, <1>8, <1>11, GatheringKeeps
<1>13. CopyPart'
  BY <1>3, <1>8, CopyAgain
<1> QED
  BY <1>8, <1>10, <1>12, <1>13 DEF RoomInv

LEMMA IncreaseZengKeeps ==
  ASSUME RoomInv, NEW p \in Players, IncreaseZeng(p)
  PROVE  RoomInv'
<1> DEFINE zeng == [room.zeng EXCEPT ![p] = room.zeng[p] + 1]
           e == [type |-> "PLAYER_ZENG_INCREASED", player |-> p, current |-> room.zeng[p] + 1]
<1>1. /\ Shape /\ TablePart /\ StatusPart /\ FlowerPart /\ CopyPart
      /\ p \in Seated(room)
      /\ room' = [room EXCEPT !.zeng = zeng]
      /\ copy' = ApplyPersistedEvent(copy, e) /\ handled' = HandledAfter(room', e)
  BY DEF RoomInv, IncreaseZeng, Append
<1>2. room.zeng \in [Seated(room) -> Nat] /\ Seated(room) \subseteq Players
  BY <1>1, RoomFacts DEF TablePart
<1>3. zeng \in [Seated(room) -> Nat] /\ room.zeng[p] \in Nat
  BY <1>1, <1>2
<1>4. copy' = [copy EXCEPT !.zeng = zeng]
  <2>1. copy' = ZengIncreased(copy, e)
    BY <1>1, Replayed
  <2>2. copy.zeng = room.zeng
    BY <1>1 DEF CopyPart, Shape, Fields
  <2>3. copy.zeng[e.player] = e.current - 1
    BY <1>3, <2>2
  <2> QED
    BY <2>1, <2>2, <2>3 DEF ZengIncreased
<1> HIDE DEF zeng
<1>5. zeng \in OnPlayers(Nat)
  BY <1>2, <1>3 DEF OnPlayers
<1>6. room' \in Fields
  BY <1>1, <1>5 DEF Shape, Fields
<1>7. /\ room'.status = room.status /\ room'.ready = room.ready
      /\ room'.owner = room.owner /\ room'.seatOf = room.seatOf
      /\ room'.scores = room.scores /\ room'.zeng = zeng
      /\ room'.flowers = room.flowers /\ room'.round = room.round /\ room'.turn = room.turn
      /\ room'.phase = room.phase /\ room'.deadline = room.deadline
  BY <1>1 DEF Shape, Fields
<1>8. handled' = handled
  BY <1>1, <1>7, HandledStays
<1>9. Shape'
  BY <1>1, <1>6, <1>7, <1>8 DEF Shape
<1>10. Seated(room') = Seated(room) /\ DOMAIN zeng = Seated(room)
  BY <1>3, <1>7 DEF Seated
<1>11. TablePart'
  BY <1>1, <1>7, <1>10 DEF TablePart, OwnerAtTable
<1>12. StatusPart'
  BY <1>1, <1>7, <1>10
     DEF StatusPart, ReadyIsReady, AllReady, TurnAtTable, DeadlineForTurn
<1>13. FlowerPart'
  BY ZenonT(30), <1>1, <1>7, <1>8, <1>10
     DEF FlowerPart, FlowersInOrder, ChosenBeforePlay, FlowersCounted, Chosen, Obliged, Got
<1>14. CopyPart'
  BY ZenonT(30), <1>1, <1>4, <1>7 DEF CopyPart, Shape, Fields
<1> QED
  BY <1>9, <1>11, <1>12, <1>13, <1>14 DEF RoomInv

-----------------------------------------------------------------------------
\* A step that changes the flowers only.
LEMMA FlowersChange ==
  ASSUME RoomInv, room.status \notin ReadyStates,
         NEW flowers \in [Seated(room) -> FlowerStates],
         room' = [room EXCEPT !.flowers = flowers],
         copy' = [copy EXCEPT !.flowers = flowers],
         handled' \in [Seated(room) -> Nat],
         FlowersInOrder'
  PROVE  RoomInv'
<1>1. Shape /\ TablePart /\ StatusPart /\ CopyPart
  BY DEF RoomInv
<1>2. flowers \in OnPlayers(FlowerStates) /\ DOMAIN flowers = Seated(room)
  BY <1>1, RoomFacts DEF OnPlayers
<1>3. room' \in Fields
  BY <1>1, <1>2 DEF Shape, Fields
<1>4. /\ room'.status = room.status /\ room'.ready = room.ready
      /\ room'.owner = room.owner /\ room'.seatOf = room.seatOf
      /\ room'.scores = room.scores /\ room'.zeng = room.zeng
      /\ room'.flowers = flowers /\ room'.round = room.round /\ room'.turn = room.turn
      /\ room'.phase = room.phase /\ room'.deadline = room.deadline
  BY <1>1 DEF Shape, Fields
<1>5. Shape'
  BY <1>2, <1>3, <1>4 DEF Shape
<1>6. Seated(room') = Seated(room)
  BY <1>4 DEF Seated
<1>7. TablePart'
  BY <1>1, <1>4, <1>6 DEF TablePart, OwnerAtTable
<1>8. StatusPart'
  BY <1>1, <1>4, <1>6
     DEF StatusPart, ReadyIsReady, AllReady, TurnAtTable, DeadlineForTurn
<1>9. FlowerPart'
  BY <1>2, <1>4, <1>6 DEF FlowerPart
<1>10. CopyPart'
  BY <1>1, <1>4 DEF CopyPart, Shape, Fields
<1> QED
  BY <1>5, <1>7, <1>8, <1>9, <1>10 DEF RoomInv

LEMMA CreatedFlowers ==
  ASSUME NEW mode \in PiaoModes, NEW n \in Nat, NEW choice \in PiaoChoices,
         NEW f, f = CreateFlowerState(mode, n, choice)
  PROVE  /\ f \in FlowerStates /\ f.opening = n /\ f.drawn = 0
         /\ choice # "none" => f.status # "awaiting_piao_choice"
         /\ IF f.status = "not_piao"
            THEN f.counted = n /\ f.replacements = n /\ f.discards = 0
            ELSE f.counted = 0 /\ f.replacements = 0 /\ f.discards = n
BY DEF CreateFlowerState, FlowerStates, FlowerStatus, PiaoModes, PiaoChoices

LEMMA InitializeFlowersKeeps ==
  ASSUME RoomInv, NEW opening \in [Seated(room) -> 0..MaxFlowers], InitializeFlowers(opening)
  PROVE  RoomInv'
<1> DEFINE flowers == [p \in Seated(room) |-> CreateFlowerState(PiaoMode, opening[p], "none")]
           e == [type |-> "SUSONG_FLOWERS_INITIALIZED", flowers |-> flowers]
<1>1. /\ Shape /\ TablePart /\ CopyPart /\ room.status = "dealing"
      /\ room' = [room EXCEPT !.flowers = flowers]
      /\ copy' = ApplyPersistedEvent(copy, e) /\ handled' = HandledAfter(room', e)
  BY DEF RoomInv, InitializeFlowers, Append
<1>2. copy' = [copy EXCEPT !.flowers = flowers]
  BY <1>1, Replayed DEF FlowersInitialized
<1>3. handled' = [p \in DOMAIN room'.flowers |-> 0]
  BY <1>1 DEF HandledAfter
<1>4. \A p \in Seated(room) :
        /\ flowers[p] \in FlowerStates
        /\ flowers[p].opening = opening[p] /\ flowers[p].drawn = 0 /\ opening[p] \in Nat
        /\ IF flowers[p].status = "not_piao"
           THEN /\ flowers[p].counted = opening[p] /\ flowers[p].replacements = opening[p]
                /\ flowers[p].discards = 0
           ELSE /\ flowers[p].counted = 0 /\ flowers[p].replacements = 0
                /\ flowers[p].discards = opening[p]
  <2> SUFFICES ASSUME NEW p \in Seated(room)
               PROVE  /\ flowers[p] \in FlowerStates
                      /\ flowers[p].opening = opening[p] /\ flowers[p].drawn = 0
                      /\ opening[p] \in Nat
                      /\ IF flowers[p].status = "not_piao"
                         THEN /\ flowers[p].counted = opening[p]
                              /\ flowers[p].replacements = opening[p]
                              /\ flowers[p].discards = 0
                         ELSE /\ flowers[p].counted = 0 /\ flowers[p].replacements = 0
                              /\ flowers[p].discards = opening[p]
    OBVIOUS
  <2>1. opening[p] \in Nat /\ PiaoMode \in PiaoModes /\ "none" \in PiaoChoices
    BY RoomAssumption DEF PiaoChoices
  <2>2. flowers[p] = CreateFlowerState(PiaoMode, opening[p], "none")
    OBVIOUS
  <2> HIDE DEF flowers
  <2> QED
    BY <2>1, <2>2, CreatedFlowers
<1>5. DOMAIN flowers = Seated(room) /\ flowers \in [Seated(room) -> FlowerStates]
  BY <1>4
<1> HIDE DEF flowers
<1>6. room'.flowers = flowers /\ room'.status = "dealing"
  BY <1>1 DEF Shape, Fields
<1>7. handled' = [p \in Seated(room) |-> 0]
  BY <1>3, <1>5, <1>6
<1>8. FlowersInOrder'
  <2>1. ChosenBeforePlay'
    BY <1>6 DEF ChosenBeforePlay
  <2>2. FlowersCounted'
    BY <1>4, <1>5, <1>6 DEF FlowersCounted, FlowerStates
  <2>3. \A p \in Chosen' : Obliged(p)' >= Got(p)'
    BY <1>4, <1>5, <1>6, <1>7 DEF Chosen, Obliged, Got, FlowerStates
  <2> QED
    BY <2>1, <2>2, <2>3 DEF FlowersInOrder
<1> QED
  BY <1>1, <1>2, <1>5, <1>7, <1>8, FlowersChange DEF ReadyStates

\* A step that changes the flowers of one player.
LEMMA OneFlowerChange ==
  ASSUME RoomInv, NEW p \in DOMAIN room.flowers, NEW f \in FlowerStates, NEW h \in Nat,
         room' = [room EXCEPT !.flowers[p] = f],
         copy' = [copy EXCEPT !.flowers[p] = f],
         handled' = [handled EXCEPT ![p] = h],
         f.status = "awaiting_piao_choice" => room.status \in {"dealing", "cancelled"},
         IF f.status = "not_piao"
         THEN f.counted = f.opening + f.drawn /\ f.replacements <= f.counted /\ f.discards = 0
         ELSE f.counted = 0 /\ f.replacements = 0 /\ f.discards <= f.opening + f.drawn,
         f.status # "awaiting_piao_choice" =>
           h + f.discards + f.replacements >= f.opening + f.drawn
  PROVE  RoomInv'
<1> DEFINE flowers == [room.flowers EXCEPT ![p] = f]
<1>1. /\ Shape /\ TablePart /\ StatusPart /\ FlowerPart /\ CopyPart
      /\ DOMAIN room.flowers = Seated(room)
  BY DEF RoomInv, FlowerPart
<1>2. /\ room.flowers \in [Seated(room) -> FlowerStates]
      /\ handled \in [Seated(room) -> Nat] /\ copy.flowers = room.flowers
  BY <1>1, RoomFacts DEF Shape, Fields, CopyPart
<1>3. room.status \notin ReadyStates
  BY <1>1 DEF StatusPart, Empty
<1>4. /\ flowers \in [Seated(room) -> FlowerStates]
      /\ flowers[p] = f /\ \A q \in Seated(room) \ {p} : flowers[q] = room.flowers[q]
      /\ DOMAIN flowers = Seated(room)
  BY <1>1, <1>2
<1>5. /\ room' = [room EXCEPT !.flowers = flowers]
      /\ copy' = [copy EXCEPT !.flowers = flowers]
  BY <1>2
<1> HIDE DEF flowers
<1>6. room'.flowers = flowers /\ room'.status = room.status
  BY <1>1, <1>5 DEF Shape, Fields
<1>7. /\ handled' \in [Seated(room) -> Nat]
      /\ handled'[p] = h /\ \A q \in Seated(room) \ {p} : handled'[q] = handled[q]
  BY <1>1, <1>2
<1>8. FlowersInOrder'
  <2>1. ChosenBeforePlay'
    BY <1>1, <1>4, <1>6 DEF FlowerPart, FlowersInOrder, ChosenBeforePlay
  <2>2. FlowersCounted'
    BY <1>1, <1>4, <1>6 DEF FlowerPart, FlowersInOrder, FlowersCounted
  <2>3. \A q \in Chosen' : Obliged(q)' >= Got(q)'
    BY <1>1, <1>4, <1>6, <1>7 DEF FlowerPart, FlowersInOrder, Chosen, Obliged, Got
  <2> QED
    BY <2>1, <2>2, <2>3 DEF FlowersInOrder
<1> QED
  BY <1>3, <1>4, <1>5, <1>7, <1>8, FlowersChange

\* What is known of one player's flowers.
LEMMA OneFlower ==
  ASSUME RoomInv, NEW p \in DOMAIN room.flowers, NEW f, f = room.flowers[p]
  PROVE  /\ f \in FlowerStates /\ handled[p] \in Nat /\ copy.flowers = room.flowers
         /\ f.status = "awaiting_piao_choice" => room.status \in {"dealing", "cancelled"}
         /\ IF f.status = "not_piao"
            THEN f.counted = f.opening + f.drawn /\ f.replacements <= f.counted /\ f.discards = 0
            ELSE f.counted = 0 /\ f.replacements = 0 /\ f.discards <= f.opening + f.drawn
         /\ f.status # "awaiting_piao_choice" =>
              handled[p] + f.discards + f.replacements >= f.opening + f.drawn
<1>1. /\ Shape /\ FlowersInOrder /\ CopyPart
      /\ room.flowers \in [DOMAIN room.flowers -> FlowerStates]
      /\ handled \in [DOMAIN room.flowers -> Nat]
  BY RoomFacts DEF RoomInv, FlowerPart, Shape
<1>2. copy.flowers = room.flowers
  BY <1>1 DEF CopyPart, Shape, Fields
<1>3. f \in FlowerStates /\ handled[p] \in Nat
  BY <1>1
<1> QED
  BY <1>1, <1>2, <1>3
     DEF FlowersInOrder, ChosenBeforePlay, FlowersCounted, Chosen, Obliged, Got

LEMMA ChoosePiaoKeeps ==
  ASSUME RoomInv, NEW p \in Players, NEW choice \in {"piao", "not_piao"}, ChoosePiao(p, choice)
  PROVE  RoomInv'
<1> DEFINE s == room.flowers[p]
           f == CreateFlowerState(s.mode, s.opening, choice)
           e == [type |-> "SUSONG_PIAO_CHOSEN", player |-> p, choice |-> choice]
<1>1. /\ Shape /\ p \in DOMAIN room.flowers /\ s.status = "awaiting_piao_choice"
      /\ room' = [room EXCEPT !.flowers[p] = f]
      /\ copy' = ApplyPersistedEvent(copy, e) /\ handled' = HandledAfter(room', e)
  BY DEF RoomInv, ChoosePiao, Append
<1>2. s \in FlowerStates /\ handled[p] \in Nat /\ copy.flowers = room.flowers
  BY <1>1, OneFlower
<1>3. copy' = [copy EXCEPT !.flowers[p] = f]
  <2>1. copy' = PiaoChosen(copy, e)
    BY <1>1, Replayed
  <2> QED
    BY <1>1, <1>2, <2>1 DEF PiaoChosen
<1>4. handled' = [handled EXCEPT ![p] = handled[p]]
  <2>1. DOMAIN room'.flowers = DOMAIN room.flowers
    BY <1>1 DEF Shape, Fields
  <2> QED
    BY <1>1, <2>1 DEF HandledAfter, Shape
<1>5. /\ f \in FlowerStates /\ f.opening \in Nat /\ f.drawn = 0
      /\ f.status # "awaiting_piao_choice"
      /\ IF f.status = "not_piao"
         THEN f.counted = f.opening /\ f.replacements = f.opening /\ f.discards = 0
         ELSE f.counted = 0 /\ f.replacements = 0 /\ f.discards = f.opening
  <2>1. s.mode \in PiaoModes /\ s.opening \in Nat /\ choice \in PiaoChoices
    BY <1>2 DEF FlowerStates, PiaoChoices
  <2> QED
    BY <2>1, CreatedFlowers
<1> HIDE DEF f
<1>6. /\ IF f.status = "not_piao"
         THEN f.counted = f.opening + f.drawn /\ f.replacements <= f.counted /\ f.discards = 0
         ELSE f.counted = 0 /\ f.replacements = 0 /\ f.discards <= f.opening + f.drawn
      /\ handled[p] + f.discards + f.replacements >= f.opening + f.drawn
  BY <1>2, <1>5
<1> QED
  BY SMTT(30), <1>1, <1>2, <1>3, <1>4, <1>5, <1>6, OneFlowerChange

LEMMA DrawnFlower ==
  ASSUME NEW s \in FlowerStates, NEW f, f = RecordDraw(s, 1)
  PROVE  /\ f \in FlowerStates /\ f.status = s.status /\ f.opening = s.opening
         /\ f.drawn = s.drawn + 1
         /\ IF s.status = "piao"
            THEN /\ f.discards = s.discards + 1 /\ f.counted = s.counted
                 /\ f.replacements = s.replacements
            ELSE /\ f.discards = s.discards /\ f.counted = s.counted + 1
                 /\ f.replacements = s.replacements + 1
<1> DEFINE drawn == s.drawn + 1
           discards == s.discards + 1
           counted == s.counted + 1
           replacements == s.replacements + 1
<1>0. drawn \in Nat /\ discards \in Nat /\ counted \in Nat /\ replacements \in Nat
  BY DEF FlowerStates
<1>1. CASE s.status = "piao"
  <2>1. f = [s EXCEPT !.drawn = drawn, !.discards = discards]
    BY <1>1 DEF RecordDraw
  <2> HIDE DEF drawn, discards
  <2>2. /\ f \in FlowerStates /\ f.status = s.status /\ f.opening = s.opening
        /\ f.drawn = drawn /\ f.discards = discards /\ f.counted = s.counted
        /\ f.replacements = s.replacements
    BY <1>0, <2>1 DEF FlowerStates
  <2> QED
    BY <1>1, <2>2 DEF drawn, discards
<1>2. CASE s.status # "piao"
  <2>1. f = [s EXCEPT !.drawn = drawn, !.counted = counted, !.replacements = replacements]
    BY <1>2 DEF RecordDraw
  <2> HIDE DEF drawn, counted, replacements
  <2>2. /\ f \in FlowerStates /\ f.status = s.status /\ f.opening = s.opening
        /\ f.drawn = drawn /\ f.discards = s.discards /\ f.counted = counted
        /\ f.replacements = replacements
    BY <1>0, <2>1 DEF FlowerStates
  <2> QED
    BY <1>2, <2>2 DEF drawn, counted, replacements
<1> QED
  BY <1>1, <1>2

LEMMA RecordFlowerDrawKeeps ==
  ASSUME RoomInv, NEW p \in Players, RecordFlowerDraw(p, 1)
  PROVE  RoomInv'
<1> DEFINE s == room.flowers[p]
           f == RecordDraw(s, 1)
           e == [type |-> "SUSONG_FLOWER_DRAWN", player |-> p, count |-> 1]
<1>1. /\ Shape /\ p \in DOMAIN room.flowers /\ s.status # "awaiting_piao_choice"
      /\ room' = [room EXCEPT !.flowers[p] = f]
      /\ copy' = ApplyPersistedEvent(copy, e) /\ handled' = HandledAfter(room', e)
  BY DEF RoomInv, RecordFlowerDraw, CanDraw, Append
<1>2. /\ s \in FlowerStates /\ handled[p] \in Nat /\ copy.flowers = room.flowers
      /\ IF s.status = "not_piao"
         THEN s.counted = s.opening + s.drawn /\ s.replacements <= s.counted /\ s.discards = 0
         ELSE s.counted = 0 /\ s.replacements = 0 /\ s.discards <= s.opening + s.drawn
      /\ handled[p] + s.discards + s.replacements >= s.opening + s.drawn
  BY <1>1, OneFlower
<1>3. copy' = [copy EXCEPT !.flowers[p] = f]
  <2>1. copy' = FlowerDrawn(copy, e)
    BY <1>1, Replayed
  <2> QED
    BY <1>2, <2>1 DEF FlowerDrawn
<1>4. handled' = [handled EXCEPT ![p] = handled[p]]
  <2>1. DOMAIN room'.flowers = DOMAIN room.flowers
    BY <1>1 DEF Shape, Fields
  <2> QED
    BY <1>1, <2>1 DEF HandledAfter, Shape
<1>5. /\ f \in FlowerStates /\ f.status # "awaiting_piao_choice"
      /\ IF f.status = "not_piao"
         THEN f.counted = f.opening + f.drawn /\ f.replacements <= f.counted /\ f.discards = 0
         ELSE f.counted = 0 /\ f.replacements = 0 /\ f.discards <= f.opening + f.drawn
      /\ handled[p] + f.discards + f.replacements >= f.opening + f.drawn
  <2> HIDE DEF s, f
  <2>1. f = RecordDraw(s, 1) /\ s \in FlowerStates /\ s.status # "awaiting_piao_choice"
    BY <1>1, <1>2 DEF f
  <2>2. /\ f \in FlowerStates /\ f.status = s.status /\ f.opening = s.opening
        /\ f.drawn = s.drawn + 1
        /\ IF s.status = "piao"
           THEN /\ f.discards = s.discards + 1 /\ f.counted = s.counted
                /\ f.replacements = s.replacements
           ELSE /\ f.discards = s.discards /\ f.counted = s.counted + 1
                /\ f.replacements = s.replacements + 1
    BY <2>1, DrawnFlower
  <2>3. /\ s.counted \in Nat /\ s.replacements \in Nat /\ s.opening \in Nat
        /\ s.drawn \in Nat /\ s.discards \in Nat /\ s.status \in {"piao", "not_piao"}
    BY <2>1 DEF FlowerStates, FlowerStatus
  <2> QED
    BY <1>2, <2>1, <2>2, <2>3
<1> HIDE DEF f
<1> QED
  BY ZenonT(30), <1>1, <1>2, <1>3, <1>4, <1>5, OneFlowerChange

LEMMA ResolveFlowerKeeps ==
  ASSUME RoomInv, NEW p \in Players, NEW action \in {"discard", "replace"},
         ResolveFlower(p, action)
  PROVE  RoomInv'
<1> DEFINE s == room.flowers[p]
           f == Resolve(s, action)
           e == [type |-> "SUSONG_FLOWER_RESOLVED", player |-> p, action |-> action]
<1>1. /\ Shape /\ p \in DOMAIN room.flowers /\ CanResolve(s, action)
      /\ room' = [room EXCEPT !.flowers[p] = f]
      /\ copy' = ApplyPersistedEvent(copy, e) /\ handled' = HandledAfter(room', e)
  BY DEF RoomInv, ResolveFlower, Append
<1>2. /\ s \in FlowerStates /\ handled[p] \in Nat /\ copy.flowers = room.flowers
      /\ s.status = "awaiting_piao_choice" => room.status \in {"dealing", "cancelled"}
      /\ IF s.status = "not_piao"
         THEN s.counted = s.opening + s.drawn /\ s.replacements <= s.counted /\ s.discards = 0
         ELSE s.counted = 0 /\ s.replacements = 0 /\ s.discards <= s.opening + s.drawn
      /\ s.status # "awaiting_piao_choice" =>
           handled[p] + s.discards + s.replacements >= s.opening + s.drawn
  BY <1>1, OneFlower
<1>3. copy' = [copy EXCEPT !.flowers[p] = f]
  <2>1. copy' = FlowerResolved(copy, e)
    BY <1>1, Replayed
  <2> QED
    BY <1>2, <2>1 DEF FlowerResolved
<1>4. handled' = [handled EXCEPT ![p] = handled[p] + 1]
  <2>1. DOMAIN room'.flowers = DOMAIN room.flowers
    BY <1>1 DEF Shape, Fields
  <2> QED
    BY <1>1, <2>1 DEF HandledAfter, Shape
<1>5. /\ f \in FlowerStates /\ f.status = s.status
      /\ IF f.status = "not_piao"
         THEN f.counted = f.opening + f.drawn /\ f.replacements <= f.counted /\ f.discards = 0
         ELSE f.counted = 0 /\ f.replacements = 0 /\ f.discards <= f.opening + f.drawn
      /\ f.status # "awaiting_piao_choice" =>
           (handled[p] + 1) + f.discards + f.replacements >= f.opening + f.drawn
  BY <1>1, <1>2 DEF Resolve, CanResolve, FlowerStates, FlowerStatus
<1>6. handled[p] + 1 \in Nat
  BY <1>2
<1> HIDE DEF f
<1> QED
  BY ZenonT(30), <1>1, <1>2, <1>3, <1>4, <1>5, <1>6, OneFlowerChange

-----------------------------------------------------------------------------
\* A step of a round or into one: the seats, the owner and the zeng stay, the
\* flowers stay or go.
LEMMA RoundKeeps ==
  ASSUME RoomInv, room' \in Fields,
         room'.seatOf = room.seatOf, room'.owner = room.owner, room'.zeng = room.zeng,
         room'.ready \in {room.ready, Seated(room)}, DOMAIN room'.scores = Seated(room),
         copy' = [room' EXCEPT !.ready = copy.ready],
         room'.status \notin ReadyStates,
         room'.status = "next_round" => room'.round < TotalRounds,
         room'.status = "settling" => room'.phase = "settling",
         TurnAtTable', DeadlineForTurn', ChosenBeforePlay',
         \/ room'.flowers = room.flowers /\ handled' = handled
         \/ room'.flowers = Empty /\ handled' = Empty
  PROVE  RoomInv'
<1>1. /\ Shape /\ TablePart /\ FlowerPart /\ CopyPart /\ Seated(room') = Seated(room)
  BY DEF RoomInv, Seated
<1>2. DOMAIN Empty = {} /\ Empty \in [{} -> Nat]
  BY EmptyMap DEF Empty
<1>3. Shape'
  BY <1>1, <1>2 DEF Shape
<1>4. TablePart'
  BY <1>1 DEF TablePart, OwnerAtTable
<1>5. StatusPart'
  BY DEF StatusPart, ReadyIsReady
<1>6. FlowerPart'
  <2>1. CASE room'.flowers = Empty
    BY <1>2, <2>1 DEF FlowerPart, FlowersInOrder, FlowersCounted, Chosen
  <2>2. CASE room'.flowers = room.flowers /\ handled' = handled
    BY <1>1, <2>2 DEF FlowerPart, FlowersInOrder, FlowersCounted, Chosen, Obliged, Got
  <2> QED
    BY <2>1, <2>2
<1>7. CopyPart'
  <2>1. copy.ready \subseteq Players
    BY <1>1 DEF CopyPart
  <2>2. copy'.ready = copy.ready
    BY DEF Fields
  <2> QED
    BY <2>1, <2>2 DEF CopyPart
<1> QED
  BY <1>3, <1>4, <1>5, <1>6, <1>7 DEF RoomInv

\* After an event that clears the flowers nothing is handled.
LEMMA HandledCleared ==
  ASSUME NEW r, NEW e, r.flowers = Empty
  PROVE  HandledAfter(r, e) = Empty
BY DEF HandledAfter, Empty

LEMMA CopyFacts ==
  ASSUME RoomInv
  PROVE  /\ Shape /\ TablePart /\ StatusPart /\ FlowerPart /\ CopyPart /\ room \in Fields
         /\ copy = [room EXCEPT !.ready = copy.ready] /\ copy.ready \subseteq Players
         /\ copy.status = room.status /\ copy.phase = room.phase /\ copy.deadline = room.deadline
         /\ copy.scores = room.scores
BY DEF RoomInv, CopyPart, Shape, Fields

LEMMA StartKeeps ==
  ASSUME RoomInv, NEW who, NEW autoAdvance \in BOOLEAN, NEW bypassReady \in BOOLEAN,
         Start(who, autoAdvance, bypassReady)
  PROVE  RoomInv'
<1> DEFINE status == IF autoAdvance THEN "playing" ELSE "dealing"
           turn == IF autoAdvance THEN FirstTurn(room) ELSE NoPlayer
           deadline == autoAdvance /\ DeadlineEnabled
           ready == IF bypassReady THEN Seated(room) ELSE room.ready
           e == [type |-> "ROUND_STARTED", round |-> 1, status |-> status, turn |-> turn,
                 deadline |-> deadline]
<1>1. /\ Cardinality(Seated(room)) = MaxPlayers
      /\ room' = [room EXCEPT !.ready = ready, !.round = 1, !.status = status, !.phase = status,
                              !.turn = turn, !.flowers = Empty, !.deadline = deadline]
      /\ copy' = ApplyPersistedEvent(copy, e) /\ handled' = HandledAfter(room', e)
  BY DEF Start, Append
<1>2. Shape /\ TablePart /\ CopyPart
  BY DEF RoomInv
<1>3. Seated(room) # {} /\ room.ready \subseteq Players /\ Seated(room) \subseteq Players
  <2>1. MaxPlayers # 0
    BY RoomAssumption
  <2> QED
    BY <1>1, <1>2, <2>1, FS_EmptySet, RoomFacts DEF TablePart
<1>4. /\ autoAdvance => turn \in Seated(room)
      /\ turn \in Players \cup {NoPlayer} /\ deadline \in BOOLEAN /\ ready \subseteq Players
      /\ ready \in {room.ready, Seated(room)}
      /\ status \in {"playing", "dealing"} /\ (status = "playing" <=> autoAdvance)
  <2>1. FirstTurn(room) \in Seated(room)
    BY <1>2, <1>3, FirstTurnSeated
  <2> QED
    BY <1>3, <2>1, RoomAssumption
<1>5. copy' = [copy EXCEPT !.round = 1, !.status = status, !.phase = status,
                           !.turn = turn, !.flowers = Empty, !.deadline = deadline]
  <2>1. copy' = RoundStarted(copy, e)
    BY <1>1, Replayed
  <2> QED
    BY <2>1 DEF RoundStarted
<1>6. deadline <=> autoAdvance /\ DeadlineEnabled
  OBVIOUS
<1> HIDE DEF status, turn, deadline, ready
<1>7. room' \in Fields
  BY <1>1, <1>2, <1>4, EmptyMap DEF Shape, Fields, Statuses, Started, PlayersRound
<1>8. /\ room'.seatOf = room.seatOf /\ room'.owner = room.owner /\ room'.zeng = room.zeng
      /\ room'.ready = ready /\ room'.scores = room.scores
      /\ room'.status = status /\ room'.turn = turn /\ room'.deadline = deadline
      /\ room'.flowers = Empty
  BY <1>1, <1>2 DEF Shape, Fields
<1>9. copy' = [room' EXCEPT !.ready = copy.ready]
  BY <1>1, <1>2, <1>5 DEF Shape, Fields, CopyPart
<1>10. Seated(room') = Seated(room)
  BY <1>8 DEF Seated
<1>11. handled' = Empty
  BY <1>1, <1>8, HandledCleared
<1>12. TurnAtTable' /\ DeadlineForTurn' /\ ChosenBeforePlay'
  BY <1>1, <1>4, <1>6, <1>8, <1>10 DEF TurnAtTable, DeadlineForTurn, ChosenBeforePlay, Empty
<1>13. /\ room'.status \notin ReadyStates /\ room'.status # "next_round"
       /\ room'.status # "settling"
  BY <1>4, <1>8 DEF ReadyStates
<1>14. DOMAIN room'.scores = Seated(room)
  BY <1>2, <1>8 DEF TablePart
<1> QED
  BY <1>4, <1>7, <1>8, <1>9, <1>11, <1>12, <1>13, <1>14, RoundKeeps

LEMMA BeginPlayingKeeps ==
  ASSUME RoomInv, NEW who, BeginPlaying(who)
  PROVE  RoomInv'
<1> DEFINE turn == FirstTurn(room)
           e == [type |-> "ROUND_PLAYING", turn |-> turn, deadline |-> DeadlineEnabled]
<1>1. /\ room.status = "dealing" /\ \A p \in DOMAIN room.flowers : ~Unresolved(room.flowers[p])
      /\ room' = [room EXCEPT !.status = "playing", !.phase = "playing", !.turn = turn,
                              !.deadline = DeadlineEnabled]
      /\ copy' = ApplyPersistedEvent(copy, e) /\ handled' = HandledAfter(room', e)
  BY DEF BeginPlaying, Append
<1>2. Shape /\ TablePart /\ StatusPart /\ CopyPart
  BY DEF RoomInv
<1>3. Cardinality(Seated(room)) = MaxPlayers /\ room.deadline = FALSE
  BY <1>1, <1>2 DEF StatusPart, TurnAtTable, DeadlineForTurn, Started, Shape, Fields
<1>4. turn \in Seated(room) /\ turn \in Players
  <2>1. Seated(room) # {}
    BY <1>3, FS_EmptySet, RoomAssumption
  <2> QED
    BY <1>2, <2>1, FirstTurnSeated, RoomFacts
<1>5. copy' = [copy EXCEPT !.status = "playing", !.phase = "playing", !.turn = turn,
                           !.deadline = DeadlineEnabled]
  <2>1. copy' = RoundPlaying(copy, e)
    BY <1>1, Replayed
  <2>2. copy.deadline = FALSE
    BY <1>3, CopyFacts
  <2> QED
    BY <2>1, <2>2, RoomAssumption DEF RoundPlaying
<1> HIDE DEF turn
<1>6. room' \in Fields
  BY <1>1, <1>2, <1>4, RoomAssumption DEF Shape, Fields, Statuses, Started, PlayersRound
<1>7. /\ room'.seatOf = room.seatOf /\ room'.owner = room.owner /\ room'.zeng = room.zeng
      /\ room'.ready = room.ready /\ room'.scores = room.scores
      /\ room'.status = "playing" /\ room'.turn = turn /\ room'.deadline = DeadlineEnabled
      /\ room'.flowers = room.flowers
  BY <1>1, <1>2 DEF Shape, Fields
<1>8. copy' = [room' EXCEPT !.ready = copy.ready]
  BY <1>1, <1>2, <1>5 DEF Shape, Fields, CopyPart
<1>9. handled' = handled
  BY <1>1, <1>2, <1>7, HandledStays
<1>10. TurnAtTable' /\ DeadlineForTurn' /\ ChosenBeforePlay'
  <2>1. Seated(room') = Seated(room)
    BY <1>7 DEF Seated
  <2> QED
    BY <1>1, <1>3, <1>4, <1>7, <2>1
       DEF TurnAtTable, DeadlineForTurn, ChosenBeforePlay, Unresolved
<1>11. DOMAIN room'.scores = Seated(room)
  BY <1>2, <1>7 DEF TablePart
<1> QED
  BY <1>6, <1>7, <1>8, <1>9, <1>10, <1>11, RoundKeeps DEF ReadyStates

LEMMA ApplyActionKeeps ==
  ASSUME RoomInv, NEW p \in Players, ApplyAction(p)
  PROVE  RoomInv'
<1> DEFINE turn == NextTurn(room, p)
           e == [type |-> "ACTION_APPLIED", turn |-> turn, deadline |-> DeadlineEnabled]
<1>1. /\ room.status = "playing" /\ p \in Seated(room)
      /\ room' = [room EXCEPT !.turn = turn, !.deadline = DeadlineEnabled]
      /\ copy' = ApplyPersistedEvent(copy, e) /\ handled' = HandledAfter(room', e)
  BY DEF ApplyAction, Append
<1>2. Shape /\ TablePart /\ StatusPart /\ FlowerPart /\ CopyPart
  BY DEF RoomInv
<1>3. turn \in Seated(room) /\ turn \in Players
  BY <1>1, <1>2, NextTurnSeated, RoomFacts
<1>4. copy' = [copy EXCEPT !.turn = turn, !.deadline = DeadlineEnabled]
  <2>1. copy' = ActionApplied(copy, e)
    BY <1>1, Replayed
  <2>2. copy.status = "playing" /\ copy = [room EXCEPT !.ready = copy.ready]
    BY <1>1, CopyFacts
  <2> QED
    BY <1>2, <2>1, <2>2 DEF ActionApplied, Shape, Fields
<1> HIDE DEF turn
<1>5. room' \in Fields
  BY <1>1, <1>2, <1>3, RoomAssumption DEF Shape, Fields
<1>6. /\ room'.seatOf = room.seatOf /\ room'.owner = room.owner /\ room'.zeng = room.zeng
      /\ room'.ready = room.ready /\ room'.scores = room.scores
      /\ room'.status = "playing" /\ room'.turn = turn /\ room'.deadline = DeadlineEnabled
      /\ room'.flowers = room.flowers
  BY <1>1, <1>2 DEF Shape, Fields
<1>7. copy' = [room' EXCEPT !.ready = copy.ready]
  BY <1>1, <1>2, <1>4 DEF Shape, Fields, CopyPart
<1>8. handled' = handled
  BY <1>1, <1>2, <1>6, HandledStays
<1>9. TurnAtTable' /\ DeadlineForTurn' /\ ChosenBeforePlay'
  <2>1. Seated(room') = Seated(room)
    BY <1>6 DEF Seated
  <2>2. Cardinality(Seated(room)) = MaxPlayers
    BY <1>1, <1>2 DEF StatusPart, TurnAtTable, Started
  <2>3. ChosenBeforePlay'
    BY <1>1, <1>2, <1>6 DEF FlowerPart, FlowersInOrder, ChosenBeforePlay
  <2> QED
    BY <1>3, <1>6, <2>1, <2>2, <2>3 DEF TurnAtTable, DeadlineForTurn
<1>10. DOMAIN room'.scores = Seated(room)
  BY <1>2, <1>6 DEF TablePart
<1> QED
  BY <1>5, <1>6, <1>7, <1>8, <1>9, <1>10, RoundKeeps DEF ReadyStates

LEMMA SettleKeeps ==
  ASSUME RoomInv, NEW who, NEW scores \in [Seated(room) -> Int], Settle(who, scores)
  PROVE  RoomInv'
<1> DEFINE e == [type |-> "ROUND_SETTLING", scores |-> scores]
<1>1. /\ room.status = "playing"
      /\ room' = [room EXCEPT !.status = "settling", !.phase = "settling",
                              !.scores = scores, !.deadline = FALSE]
      /\ copy' = ApplyPersistedEvent(copy, e) /\ handled' = HandledAfter(room', e)
  BY DEF Settle, Append
<1>2. Shape /\ TablePart /\ StatusPart /\ FlowerPart /\ CopyPart
  BY DEF RoomInv
<1>3. copy' = [copy EXCEPT !.status = "settling", !.phase = "settling", !.deadline = FALSE,
                           !.scores = scores]
  <2>1. copy' = RoundSettling(copy, e)
    BY <1>1, Replayed
  <2> QED
    BY <2>1 DEF RoundSettling
<1>4. scores \in OnPlayers(Int)
  BY <1>2, RoomFacts DEF OnPlayers
<1>5. room' \in Fields
  BY <1>1, <1>2, <1>4 DEF Shape, Fields, Statuses, Started, PlayersRound
<1>6. /\ room'.seatOf = room.seatOf /\ room'.owner = room.owner /\ room'.zeng = room.zeng
      /\ room'.ready = room.ready /\ room'.scores = scores
      /\ room'.status = "settling" /\ room'.phase = "settling" /\ room'.deadline = FALSE
      /\ room'.flowers = room.flowers
  BY <1>1, <1>2 DEF Shape, Fields
<1>7. copy' = [room' EXCEPT !.ready = copy.ready]
  BY <1>1, <1>2, <1>3 DEF Shape, Fields, CopyPart
<1>8. handled' = handled
  BY <1>1, <1>2, <1>6, HandledStays
<1>9. TurnAtTable' /\ DeadlineForTurn' /\ ChosenBeforePlay'
  <2>1. Seated(room') = Seated(room)
    BY <1>6 DEF Seated
  <2>2. Cardinality(Seated(room)) = MaxPlayers
    BY <1>1, <1>2 DEF StatusPart, TurnAtTable, Started
  <2>3. ChosenBeforePlay'
    BY <1>1, <1>2, <1>6 DEF FlowerPart, FlowersInOrder, ChosenBeforePlay
  <2> QED
    BY <1>6, <2>1, <2>2, <2>3 DEF TurnAtTable, DeadlineForTurn
<1> QED
  BY <1>5, <1>6, <1>7, <1>8, <1>9, RoundKeeps DEF ReadyStates

\* Scores without a settlement are those already there; with one, the deltas are added.
LEMMA SettleRoundKeeps ==
  ASSUME RoomInv, NEW who, SettleRound(who)
  PROVE  RoomInv'
<1>1. room.scores \in [Seated(room) -> Int]
  BY RoomFacts DEF RoomInv, TablePart
<1> QED
  BY <1>1, SettleKeeps DEF SettleRound

LEMMA SettleScoresKeeps ==
  ASSUME RoomInv, NEW who, NEW deltas \in [Seated(room) -> -MaxDelta..MaxDelta],
         NEW transfers, SettleScores(who, deltas, transfers)
  PROVE  RoomInv'
<1> DEFINE scores == [p \in Seated(room) |-> room.scores[p] + deltas[p]]
<1>1. room.scores \in [Seated(room) -> Int]
  BY RoomFacts DEF RoomInv, TablePart
<1>2. scores \in [Seated(room) -> Int]
  BY <1>1, RoomAssumption
<1>3. Settle(who, scores)
  BY DEF SettleScores
<1> HIDE DEF scores
<1> QED
  BY <1>2, <1>3, SettleKeeps

\* The next round is dealt, with the wait for it in the stream or not.
LEMMA DealtNextKeeps ==
  ASSUME RoomInv, room.status \in {"settling", "next_round"}, room' = DealtNext,
         copy' = [copy EXCEPT !.status = "dealing", !.phase = "dealing",
                              !.round = room.round + 1, !.turn = NoPlayer,
                              !.flowers = Empty, !.deadline = FALSE],
         handled' = Empty
  PROVE  RoomInv'
<1>1. room' = [room EXCEPT !.status = "dealing", !.phase = "dealing", !.round = room.round + 1,
                           !.turn = NoPlayer, !.flowers = Empty, !.deadline = FALSE]
  BY DEF DealtNext
<1>2. Shape /\ TablePart /\ StatusPart /\ CopyPart /\ room.round + 1 \in Nat
  BY RoomFacts DEF RoomInv
<1>3. room' \in Fields
  <2>1. Empty \in OnPlayers(FlowerStates)
    BY EmptyMap
  <2>2. "dealing" \in Statuses /\ "dealing" \in PlayersRound
    BY DEF Statuses, Started, PlayersRound
  <2> QED
    BY ZenonT(30), <1>1, <1>2, <2>1, <2>2 DEF Shape, Fields
<1>4. /\ room'.seatOf = room.seatOf /\ room'.owner = room.owner /\ room'.zeng = room.zeng
      /\ room'.ready = room.ready /\ room'.scores = room.scores
      /\ room'.status = "dealing" /\ room'.deadline = FALSE /\ room'.flowers = Empty
  BY <1>1, <1>2 DEF Shape, Fields
<1>5. copy' = [room' EXCEPT !.ready = copy.ready]
  BY ZenonT(30), <1>1, <1>2 DEF Shape, Fields, CopyPart
<1>6. TurnAtTable' /\ DeadlineForTurn' /\ ChosenBeforePlay'
  <2>1. Seated(room') = Seated(room)
    BY <1>4 DEF Seated
  <2>2. Cardinality(Seated(room)) = MaxPlayers
    BY <1>2 DEF StatusPart, TurnAtTable, Started
  <2> QED
    BY <1>4, <2>1, <2>2 DEF TurnAtTable, DeadlineForTurn, ChosenBeforePlay
<1>7. DOMAIN room'.scores = Seated(room)
  BY <1>2, <1>4 DEF TablePart
<1> QED
  BY <1>3, <1>4, <1>5, <1>6, <1>7, RoundKeeps DEF ReadyStates

LEMMA BeginNextRoundKeeps == ASSUME RoomInv, BeginNextRound PROVE RoomInv'
<1>1. /\ room.status = "next_round" /\ room' = DealtNext
      /\ copy' = ApplyPersistedEvent(copy, Dealing) /\ handled' = HandledAfter(room', Dealing)
  BY DEF BeginNextRound, Append
<1>2. copy' = [copy EXCEPT !.status = "dealing", !.phase = "dealing",
                           !.round = room.round + 1, !.turn = NoPlayer,
                           !.flowers = Empty, !.deadline = FALSE]
  <2>1. Dealing.type = "ROUND_DEALING" /\ Dealing.round = room.round + 1
    BY DEF Dealing
  <2>2. copy' = RoundDealing(copy, Dealing)
    BY <1>1, <2>1, Replayed
  <2> QED
    BY <2>1, <2>2 DEF RoundDealing
<1>3. handled' = Empty
  <2>1. room'.flowers = Empty
    BY <1>1, CopyFacts DEF DealtNext, Fields
  <2> QED
    BY <1>1, <2>1, HandledCleared
<1> QED
  BY <1>1, <1>2, <1>3, DealtNextKeeps

\* The match or the room ends, or the next round is awaited: flowers, scores and turn stay.
LEMMA StopKeeps ==
  ASSUME RoomInv, NEW status \in {"next_round", "finished", "cancelled"},
         NEW phase \in PlayersRound,
         room' = [room EXCEPT !.status = status, !.deadline = FALSE, !.phase = phase],
         copy' = [copy EXCEPT !.status = status, !.deadline = FALSE, !.phase = phase],
         handled' = handled,
         status = "next_round" => room.status = "settling" /\ room.round < TotalRounds,
         status = "finished" => room.status \in {"playing", "settling", "next_round"}
  PROVE  RoomInv'
<1>1. Shape /\ TablePart /\ StatusPart /\ FlowerPart /\ CopyPart
  BY DEF RoomInv
<1>2. room' \in Fields
  BY <1>1 DEF Shape, Fields, Statuses, Started, Over
<1>3. /\ room'.seatOf = room.seatOf /\ room'.owner = room.owner /\ room'.zeng = room.zeng
      /\ room'.ready = room.ready /\ room'.scores = room.scores
      /\ room'.status = status /\ room'.deadline = FALSE /\ room'.flowers = room.flowers
      /\ room'.round = room.round
  BY <1>1 DEF Shape, Fields
<1>4. copy' = [room' EXCEPT !.ready = copy.ready]
  BY <1>1 DEF Shape, Fields, CopyPart
<1>5. TurnAtTable' /\ DeadlineForTurn' /\ ChosenBeforePlay'
  <2>1. Seated(room') = Seated(room)
    BY <1>3 DEF Seated
  <2>2. status = "next_round" => Cardinality(Seated(room)) = MaxPlayers
    BY <1>1 DEF StatusPart, TurnAtTable, Started
  <2>3. ChosenBeforePlay'
    BY <1>1, <1>3 DEF FlowerPart, FlowersInOrder, ChosenBeforePlay
  <2> QED
    BY <1>3, <2>1, <2>2, <2>3 DEF TurnAtTable, DeadlineForTurn, Started
<1>6. DOMAIN room'.scores = Seated(room)
  BY <1>1, <1>3 DEF TablePart
<1> QED
  BY <1>2, <1>3, <1>4, <1>5, <1>6, RoundKeeps DEF ReadyStates

LEMMA NextRoundKeeps ==
  ASSUME RoomInv, NEW who, NEW autoDeal \in BOOLEAN, NextRound(who, autoDeal)
  PROVE  RoomInv'
<1> DEFINE finished == [type |-> "MATCH_FINISHED"]
           awaited == [type |-> "NEXT_ROUND"]
<1>1. /\ Shape /\ room \in Fields /\ room.status = "settling" /\ room.phase = "settling"
      /\ copy.phase = "settling" /\ copy = [room EXCEPT !.ready = copy.ready]
  BY CopyFacts DEF NextRound, StatusPart
<1>2. ASSUME Append(Finished(room), finished) PROVE RoomInv'
  <2>1. /\ room' = [room EXCEPT !.status = "finished", !.deadline = FALSE]
        /\ copy' = MatchFinished(copy, finished) /\ handled' = HandledAfter(room', finished)
    BY <1>2, Replayed DEF Append, Finished
  <2>2. room' = [room EXCEPT !.status = "finished", !.deadline = FALSE, !.phase = "settling"]
    BY <1>1, <2>1 DEF Fields
  <2>3. copy' = [copy EXCEPT !.status = "finished", !.deadline = FALSE, !.phase = "settling"]
    BY <1>1, <2>1 DEF MatchFinished
  <2>4. handled' = handled
    <3>1. room'.flowers = room.flowers
      BY <1>1, <2>1 DEF Fields
    <3> QED
      BY <1>1, <2>1, <3>1, HandledStays
  <2> QED
    BY <1>1, <2>2, <2>3, <2>4, StopKeeps DEF PlayersRound
<1>3. ASSUME ~LastRound,
             Append([room EXCEPT !.status = "next_round", !.deadline = FALSE], awaited)
      PROVE  RoomInv'
  <2>1. /\ room' = [room EXCEPT !.status = "next_round", !.deadline = FALSE]
        /\ copy' = NextRoundAwaited(copy, awaited) /\ handled' = HandledAfter(room', awaited)
    BY <1>3, Replayed DEF Append
  <2>2. room' = [room EXCEPT !.status = "next_round", !.deadline = FALSE, !.phase = "settling"]
    BY <1>1, <2>1 DEF Fields
  <2>3. copy' = [copy EXCEPT !.status = "next_round", !.deadline = FALSE, !.phase = "settling"]
    BY <1>1, <2>1 DEF NextRoundAwaited, Fields
  <2>4. handled' = handled
    <3>1. room'.flowers = room.flowers
      BY <1>1, <2>1 DEF Fields
    <3> QED
      BY <1>1, <2>1, <3>1, HandledStays
  <2>5. room.round < TotalRounds
    BY <1>1, <1>3, RoomFacts, RoomAssumption DEF LastRound
  <2> QED
    BY <1>1, <2>2, <2>3, <2>4, <2>5, StopKeeps DEF PlayersRound
<1>4. ASSUME room' = DealtNext, handled' = Empty,
             copy' = ApplyPersistedEvent(ApplyPersistedEvent(copy, awaited), Dealing)
      PROVE  RoomInv'
  <2>1. ApplyPersistedEvent(copy, awaited) = NextRoundAwaited(copy, awaited)
    BY Replayed
  <2>2. Dealing.type = "ROUND_DEALING" /\ Dealing.round = room.round + 1
    BY DEF Dealing
  <2>3. copy' = RoundDealing(NextRoundAwaited(copy, awaited), Dealing)
    BY <1>4, <2>1, <2>2, Replayed
  <2>4. copy' = [copy EXCEPT !.status = "dealing", !.phase = "dealing",
                             !.round = room.round + 1, !.turn = NoPlayer,
                             !.flowers = Empty, !.deadline = FALSE]
    BY <1>1, <2>2, <2>3 DEF NextRoundAwaited, RoundDealing, Fields
  <2> QED
    BY <1>1, <1>4, <2>4, DealtNextKeeps
<1> QED
  BY <1>2, <1>3, <1>4 DEF NextRound

LEMMA FinishKeeps == ASSUME RoomInv, NEW who, Finish(who) PROVE RoomInv'
<1> DEFINE phase == IF room.phase = "settling" THEN room.phase ELSE "finished"
           e == [type |-> "MATCH_FINISHED"]
<1>1. /\ room.status \in {"playing", "settling", "next_round"}
      /\ room' = [Finished(room) EXCEPT !.phase = IF @ = "settling" THEN @ ELSE "finished"]
      /\ copy' = ApplyPersistedEvent(copy, e) /\ handled' = HandledAfter(room', e)
  BY DEF Finish, Append
<1>2. /\ Shape /\ room \in Fields /\ copy.phase = room.phase
  BY CopyFacts
<1>3. room' = [room EXCEPT !.status = "finished", !.deadline = FALSE, !.phase = phase]
  BY <1>1, <1>2 DEF Finished, Fields
<1>4. copy' = [copy EXCEPT !.status = "finished", !.deadline = FALSE, !.phase = phase]
  <2>1. copy' = MatchFinished(copy, e)
    BY <1>1, Replayed
  <2> QED
    BY <1>2, <2>1 DEF MatchFinished
<1>5. handled' = handled
  <2>1. room'.flowers = room.flowers
    BY <1>2, <1>3 DEF Fields
  <2> QED
    BY <1>1, <1>2, <2>1, HandledStays
<1>6. phase \in PlayersRound
  BY DEF PlayersRound
<1> HIDE DEF phase
<1> QED
  BY <1>1, <1>3, <1>4, <1>5, <1>6, StopKeeps

LEMMA CancelKeeps == ASSUME RoomInv, NEW who, Cancel(who) PROVE RoomInv'
<1> DEFINE e == [type |-> "ROOM_CANCELLED"]
<1>1. /\ room' = [room EXCEPT !.status = "cancelled", !.deadline = FALSE]
      /\ copy' = ApplyPersistedEvent(copy, e) /\ handled' = HandledAfter(room', e)
  BY DEF Cancel, Append
<1>2. /\ Shape /\ room \in Fields /\ copy.phase = room.phase /\ room.phase \in PlayersRound
      /\ copy = [room EXCEPT !.ready = copy.ready]
  BY CopyFacts, RoomFacts
<1>3. room' = [room EXCEPT !.status = "cancelled", !.deadline = FALSE, !.phase = room.phase]
  BY <1>1, <1>2 DEF Fields
<1>4. copy' = [copy EXCEPT !.status = "cancelled", !.deadline = FALSE, !.phase = room.phase]
  <2>1. copy' = RoomCancelled(copy, e)
    BY <1>1, Replayed
  <2> QED
    BY <1>2, <2>1 DEF RoomCancelled, Fields
<1>5. handled' = handled
  <2>1. room'.flowers = room.flowers
    BY <1>2, <1>3 DEF Fields
  <2> QED
    BY <1>1, <1>2, <2>1, HandledStays
<1> QED
  BY <1>2, <1>3, <1>4, <1>5, StopKeeps

\* Another checkpoint.
LEMMA CheckpointKeeps == ASSUME RoomInv, Checkpoint PROVE RoomInv'
<1>1. copy' = room /\ room' = room /\ handled' = handled
  BY DEF Checkpoint
<1>2. Shape /\ TablePart /\ StatusPart /\ FlowerPart
  BY DEF RoomInv
<1>3. Shape' /\ TablePart' /\ StatusPart' /\ FlowerPart'
  BY <1>1, <1>2
     DEF Shape, TablePart, OwnerAtTable, StatusPart, ReadyIsReady, TurnAtTable, DeadlineForTurn,
         FlowerPart, FlowersInOrder, ChosenBeforePlay, FlowersCounted, Chosen, Obliged, Got
<1>4. CopyPart'
  BY <1>1, <1>3, CopyAgain
<1> QED
  BY <1>3, <1>4 DEF RoomInv

LEMMA TableKeeps == ASSUME RoomInv, Table PROVE RoomInv'
<1>1. PICK p \in Players :
        \/ \E s \in Seats : Join(p, s)
        \/ \E q \in Players \cup {NoPlayer} : Leave(p, q)
        \/ \E ready \in BOOLEAN : SetReady(p, ready)
        \/ IncreaseZeng(p)
  BY DEF Table
<1>2. CASE \E s \in Seats : Join(p, s)
  BY <1>2, JoinKeeps
<1>3. CASE \E q \in Players \cup {NoPlayer} : Leave(p, q)
  BY <1>3, LeaveKeeps
<1>4. CASE \E ready \in BOOLEAN : SetReady(p, ready)
  BY <1>4, SetReadyKeeps
<1>5. CASE IncreaseZeng(p)
  BY <1>5, IncreaseZengKeeps
<1> QED
  BY <1>1, <1>2, <1>3, <1>4, <1>5

LEMMA FlowersKeep == ASSUME RoomInv, Flowers PROVE RoomInv'
<1>1. CASE \E opening \in [Seated(room) -> 0..MaxFlowers] : InitializeFlowers(opening)
  BY <1>1, InitializeFlowersKeeps
<1>2. CASE \E p \in Players : \E choice \in {"piao", "not_piao"} : ChoosePiao(p, choice)
  BY <1>2, ChoosePiaoKeeps
<1>3. CASE \E p \in Players : RecordFlowerDraw(p, 1)
  BY <1>3, RecordFlowerDrawKeeps
<1>4. CASE \E p \in Players : \E action \in {"discard", "replace"} : ResolveFlower(p, action)
  BY <1>4, ResolveFlowerKeeps
<1> QED
  BY <1>1, <1>2, <1>3, <1>4 DEF Flowers

LEMMA RoundStepKeeps == ASSUME RoomInv, Round PROVE RoomInv'
<1>1. PICK who \in Callers :
        \/ \E auto \in BOOLEAN, bypass \in BOOLEAN : Start(who, auto, bypass)
        \/ BeginPlaying(who)
        \/ SettleRound(who)
        \/ \E deltas \in [Seated(room) -> -MaxDelta..MaxDelta] :
             \E transfers \in SUBSET Transfers : SettleScores(who, deltas, transfers)
        \/ \E autoDeal \in BOOLEAN : NextRound(who, autoDeal)
        \/ Finish(who) \/ Cancel(who)
  BY DEF Round
<1>2. CASE \E auto \in BOOLEAN, bypass \in BOOLEAN : Start(who, auto, bypass)
  BY <1>2, StartKeeps
<1>3. CASE BeginPlaying(who)
  BY <1>3, BeginPlayingKeeps
<1>4. CASE SettleRound(who)
  BY <1>4, SettleRoundKeeps
<1>5. CASE \E deltas \in [Seated(room) -> -MaxDelta..MaxDelta] :
             \E transfers \in SUBSET Transfers : SettleScores(who, deltas, transfers)
  BY <1>5, SettleScoresKeeps
<1>6. CASE \E autoDeal \in BOOLEAN : NextRound(who, autoDeal)
  BY <1>6, NextRoundKeeps
<1>7. CASE Finish(who)
  BY <1>7, FinishKeeps
<1>8. CASE Cancel(who)
  BY <1>8, CancelKeeps
<1> QED
  BY <1>1, <1>2, <1>3, <1>4, <1>5, <1>6, <1>7, <1>8

\* Every command, and every checkpoint, keeps the invariant.
LEMMA RoomInvStep == RoomInv /\ [Next]_vars => RoomInv'
<1> SUFFICES ASSUME RoomInv, [Next]_vars PROVE RoomInv'
  OBVIOUS
<1>1. CASE Table
  BY <1>1, TableKeeps
<1>2. CASE Flowers
  BY <1>2, FlowersKeep
<1>3. CASE Round
  BY <1>3, RoundStepKeeps
<1>4. CASE BeginNextRound
  BY <1>4, BeginNextRoundKeeps
<1>5. CASE \E p \in Players : ApplyAction(p)
  BY <1>5, ApplyActionKeeps
<1>6. CASE Checkpoint
  BY <1>6, CheckpointKeeps
<1>7. CASE UNCHANGED vars
  BY <1>7
     DEF vars, RoomInv, Shape, TablePart, OwnerAtTable, StatusPart, ReadyIsReady, TurnAtTable,
         DeadlineForTurn, FlowerPart, FlowersInOrder, ChosenBeforePlay, FlowersCounted, Chosen,
         Obliged, Got, CopyPart
<1> QED
  BY <1>1, <1>2, <1>3, <1>4, <1>5, <1>6, <1>7 DEF Next, Command

LEMMA AlwaysRoomInv == Spec => []RoomInv
<1>1. Init => RoomInv
  BY InitRoomInv
<1>2. RoomInv /\ [Next]_vars => RoomInv'
  BY RoomInvStep
<1> QED
  BY <1>1, <1>2, PTL DEF Spec

-----------------------------------------------------------------------------
\* Sums.  Induction over sets of numbers, and of sets, by a least counterexample.
\* Induction over the natural numbers, for a set of them.
LEMMA AllNaturals ==
  ASSUME NEW G, 0 \in G, \A n \in Nat : n \in G => n + 1 \in G
  PROVE  Nat \subseteq G
<1> DEFINE Rest == Nat \ G
           Less == OpToRel(<, Nat)
<1>1. SUFFICES ASSUME Rest # {} PROVE FALSE
  OBVIOUS
<1>2. \E m \in Rest : \A k \in Rest : <<k, m>> \notin Less
  <2>1. IsWellFoundedOn(Less, Nat)
    BY NatLessThanWellFounded
  <2>2. Rest \subseteq Nat
    OBVIOUS
  <2> HIDE DEF Rest, Less
  <2> QED
    BY <1>1, <2>1, <2>2, WFMin
<1>3. PICK m \in Rest : \A k \in Rest : <<k, m>> \notin Less
  BY <1>2
<1>4. \A k \in Nat : k < m => <<k, m>> \in Less
  BY DEF OpToRel
<1> HIDE DEF Less
<1>5. m \in Nat \ {0} /\ m - 1 \in Nat /\ m - 1 < m
  OBVIOUS
<1>6. m - 1 \notin Rest
  BY <1>3, <1>4, <1>5
<1> QED
  BY <1>5, <1>6

\* The element that a sum takes first.
Picked(s) == CHOOSE x \in s : TRUE

\* Induction over the subsets of a finite set, each from itself without Picked.
LEMMA AllSubsets ==
  ASSUME NEW S, IsFiniteSet(S), NEW G, {} \in G,
         \A T \in SUBSET S : T # {} /\ T \ {Picked(T)} \in G => T \in G
  PROVE  SUBSET S \subseteq G
<1> DEFINE N == {n \in Nat : \A T \in SUBSET S : Cardinality(T) = n => T \in G}
<1>1. \A T \in SUBSET S : IsFiniteSet(T) /\ Cardinality(T) \in Nat
  BY FS_Subset, FS_CardinalityType
<1>2. 0 \in N
  BY ZenonT(30), <1>1, FS_EmptySet
<1>3. ASSUME NEW n \in Nat, n \in N PROVE n + 1 \in N
  <2> SUFFICES ASSUME NEW T \in SUBSET S, Cardinality(T) = n + 1 PROVE T \in G
    OBVIOUS
  <2>1. T # {}
    <3>1. Cardinality({}) = 0 /\ n + 1 # 0
      BY FS_EmptySet
    <3> QED
      BY <3>1
  <2>2. Picked(T) \in T
    BY <2>1 DEF Picked
  <2>3. Cardinality(T \ {Picked(T)}) = n
    BY <1>1, <2>2, FS_RemoveElement
  <2>4. T \ {Picked(T)} \in G
    BY <1>3, <2>3
  <2> QED
    BY <2>1, <2>4
<1>4. Nat \subseteq N
  <2> HIDE DEF N
  <2> QED
    BY <1>2, <1>3, AllNaturals
<1> QED
  BY <1>1, <1>4

\* The recursion that Sum is.
SumsOf(g, f, D) == [s \in D |-> IF s = {} THEN 0 ELSE f[Picked(s)] + g[s \ {Picked(s)}]]

LEMMA SumIs ==
  ASSUME NEW f
  PROVE  Sum(f) = (CHOOSE g : g = SumsOf(g, f, SUBSET DOMAIN f))[DOMAIN f]
BY DEF Sum, FoldFunction, FoldFunctionOnSet, MapThenFoldSet, SumsOf, Picked

LEMMA SumsExist ==
  ASSUME NEW S, IsFiniteSet(S), NEW f \in [S -> Int]
  PROVE  \E g \in [SUBSET S -> Int] : g = SumsOf(g, f, SUBSET S)
<1> DEFINE Up(n) == {s \in SUBSET S : Cardinality(s) <= n}
           N == {n \in Nat : \E g \in [Up(n) -> Int] : g = SumsOf(g, f, Up(n))}
<1>1. \A T \in SUBSET S : IsFiniteSet(T) /\ Cardinality(T) \in Nat
  BY FS_Subset, FS_CardinalityType
<1>2. 0 \in N
  <2>1. Up(0) = {{}}
    BY <1>1, FS_EmptySet
  <2> DEFINE g == [s \in {{}} |-> 0]
  <2>2. g \in [Up(0) -> Int] /\ g = SumsOf(g, f, Up(0))
    BY <2>1 DEF SumsOf
  <2> QED
    BY <2>2
<1>3. ASSUME NEW n \in Nat, n \in N PROVE n + 1 \in N
  <2>1. PICK g \in [Up(n) -> Int] : g = SumsOf(g, f, Up(n))
    BY <1>3
  <2> DEFINE h == SumsOf(g, f, Up(n + 1))
  <2>2. ASSUME NEW s \in Up(n + 1), s # {}
        PROVE  Picked(s) \in S /\ s \ {Picked(s)} \in Up(n)
    <3>1. Picked(s) \in s
      BY <2>2 DEF Picked
    <3>2. Cardinality(s \ {Picked(s)}) = Cardinality(s) - 1
      BY <1>1, <3>1, FS_RemoveElement
    <3> QED
      BY <1>1, <1>3, <3>1, <3>2
  <2>3. h \in [Up(n + 1) -> Int]
    <3>1. ASSUME NEW s \in Up(n + 1) PROVE h[s] \in Int
      <4>1. CASE s = {}
        BY <4>1 DEF SumsOf
      <4>2. CASE s # {}
        <5>1. f[Picked(s)] \in Int /\ g[s \ {Picked(s)}] \in Int
          BY <2>1, <2>2, <4>2
        <5>2. h[s] = f[Picked(s)] + g[s \ {Picked(s)}]
          BY <4>2 DEF SumsOf
        <5> QED
          BY <5>1, <5>2
      <4> QED
        BY <4>1, <4>2
    <3>2. h = [s \in Up(n + 1) |-> h[s]]
      BY DEF SumsOf
    <3> HIDE DEF h
    <3> QED
      BY <3>1, <3>2
  <2>4. Up(n) \subseteq Up(n + 1)
    BY <1>1, <1>3
  <2>5. \A s \in Up(n) : h[s] = g[s]
    BY <2>1, <2>4 DEF SumsOf
  <2>6. h = SumsOf(h, f, Up(n + 1))
    BY <2>2, <2>3, <2>5 DEF SumsOf
  <2>7. \E i \in [Up(n + 1) -> Int] : i = SumsOf(i, f, Up(n + 1))
    <3> HIDE DEF h, Up
    <3> QED
      BY <2>3, <2>6
  <2>8. n + 1 \in Nat
    OBVIOUS
  <2> HIDE DEF Up, h
  <2> QED
    BY <2>7, <2>8
<1>4. Nat \subseteq N
  <2> HIDE DEF N
  <2> QED
    BY <1>2, <1>3, AllNaturals
<1>5. Up(Cardinality(S)) = SUBSET S
  BY <1>1, FS_Subset
<1> QED
  BY <1>1, <1>4, <1>5

\* Sum of a finite map.
LEMMA SumOf ==
  ASSUME NEW S, IsFiniteSet(S), NEW f \in [S -> Int]
  PROVE  \E g \in [SUBSET S -> Int] : g = SumsOf(g, f, SUBSET S) /\ Sum(f) = g[S]
<1> DEFINE g == CHOOSE g : g = SumsOf(g, f, SUBSET S)
           G == {T \in SUBSET S : g[T] \in Int}
<1>1. g = SumsOf(g, f, SUBSET S)
  BY SumsExist
<1>2. Sum(f) = g[S]
  BY SumIs
<1> HIDE DEF g
<1>3. {} \in G
  BY <1>1 DEF SumsOf
<1>4. ASSUME NEW T \in SUBSET S, T # {}, T \ {Picked(T)} \in G PROVE T \in G
  <2>1. Picked(T) \in S
    BY <1>4 DEF Picked
  <2>2. g[T] = f[Picked(T)] + g[T \ {Picked(T)}]
    BY <1>1, <1>4 DEF SumsOf
  <2> QED
    BY <1>4, <2>1, <2>2
<1>5. SUBSET S \subseteq G
  <2> HIDE DEF G
  <2> QED
    BY <1>3, <1>4, AllSubsets
<1>6. g \in [SUBSET S -> Int]
  BY <1>1, <1>5 DEF SumsOf
<1> QED
  BY <1>1, <1>2, <1>6

\* A sum over nothing, and a sum of zeros.
LEMMA SumOfZeros ==
  ASSUME NEW S, IsFiniteSet(S), NEW f \in [S -> Int], \A x \in S : f[x] = 0
  PROVE  Sum(f) = 0
<1>1. PICK g \in [SUBSET S -> Int] : g = SumsOf(g, f, SUBSET S) /\ Sum(f) = g[S]
  BY SumOf
<1> DEFINE G == {T \in SUBSET S : g[T] = 0}
<1>2. {} \in G
  BY <1>1 DEF SumsOf
<1>3. ASSUME NEW T \in SUBSET S, T # {}, T \ {Picked(T)} \in G PROVE T \in G
  <2>1. Picked(T) \in S
    BY <1>3 DEF Picked
  <2>2. g[T] = f[Picked(T)] + g[T \ {Picked(T)}]
    BY <1>1, <1>3 DEF SumsOf
  <2> QED
    BY <1>3, <2>1, <2>2
<1>4. SUBSET S \subseteq G
  <2> HIDE DEF G
  <2> QED
    BY <1>2, <1>3, AllSubsets
<1> QED
  BY <1>1, <1>4

\* The sum of two maps added.
LEMMA SumAdds ==
  ASSUME NEW S, IsFiniteSet(S), NEW f \in [S -> Int], NEW d \in [S -> Int]
  PROVE  Sum([x \in S |-> f[x] + d[x]]) = Sum(f) + Sum(d)
<1> DEFINE h == [x \in S |-> f[x] + d[x]]
<1>0. h \in [S -> Int]
  OBVIOUS
<1>1. PICK a \in [SUBSET S -> Int] : a = SumsOf(a, f, SUBSET S) /\ Sum(f) = a[S]
  BY SumOf
<1>2. PICK b \in [SUBSET S -> Int] : b = SumsOf(b, d, SUBSET S) /\ Sum(d) = b[S]
  BY SumOf
<1>3. PICK c \in [SUBSET S -> Int] : c = SumsOf(c, h, SUBSET S) /\ Sum(h) = c[S]
  <2> HIDE DEF h
  <2> QED
    BY <1>0, SumOf
<1> DEFINE G == {T \in SUBSET S : c[T] = a[T] + b[T]}
<1>4. {} \in G
  BY <1>1, <1>2, <1>3 DEF SumsOf
<1>5. ASSUME NEW T \in SUBSET S, T # {}, T \ {Picked(T)} \in G PROVE T \in G
  <2>1. Picked(T) \in S
    BY <1>5 DEF Picked
  <2>2. a[T] = f[Picked(T)] + a[T \ {Picked(T)}]
    BY <1>1, <1>5 DEF SumsOf
  <2>3. b[T] = d[Picked(T)] + b[T \ {Picked(T)}]
    BY <1>2, <1>5 DEF SumsOf
  <2>4. c[T] = h[Picked(T)] + c[T \ {Picked(T)}]
    BY <1>3, <1>5 DEF SumsOf
  <2>5. h[Picked(T)] = f[Picked(T)] + d[Picked(T)]
    BY <2>1
  <2> HIDE DEF h
  <2> QED
    BY <1>5, <2>1, <2>2, <2>3, <2>4, <2>5
<1>6. SUBSET S \subseteq G
  <2> HIDE DEF G
  <2> QED
    BY <1>4, <1>5, AllSubsets
<1> QED
  BY <1>1, <1>2, <1>3, <1>6
-----------------------------------------------------------------------------
\* Nobody has a score before the first round, and the scores add up to zero.
ZeroPart ==
  /\ room.status \in ReadyStates => \A p \in DOMAIN room.scores : room.scores[p] = 0
  /\ ZeroSum

LEMMA ScoreFacts ==
  ASSUME RoomInv
  PROVE  room.scores \in [Seated(room) -> Int] /\ IsFiniteSet(Seated(room))
BY RoomFacts DEF RoomInv, TablePart

LEMMA InitZero == Init => ZeroPart
<1> SUFFICES ASSUME Init PROVE ZeroPart
  OBVIOUS
<1>1. room.scores = Empty /\ Empty \in [{} -> Int] /\ DOMAIN room.scores = {}
  BY EmptyMap DEF Init, NewRoom, Empty
<1>2. Sum(room.scores) = 0
  BY <1>1, SumOfZeros, FS_EmptySet
<1> QED
  BY <1>1, <1>2 DEF ZeroPart, ZeroSum

LEMMA ZerosKeep ==
  ASSUME RoomInv', \A p \in DOMAIN room'.scores : room'.scores[p] = 0
  PROVE  ZeroPart'
<1>1. room'.scores \in [Seated(room') -> Int] /\ IsFiniteSet(Seated(room'))
  <2>1. room'.scores \in OnPlayers(Int)
    BY DEF RoomInv, Shape, Fields
  <2>2. DOMAIN room'.scores = Seated(room') /\ IsFiniteSet(Seated(room'))
    BY DEF RoomInv, TablePart
  <2> QED
    BY <2>1, <2>2, OnPlayersMap
<1>2. Sum(room'.scores) = 0
  BY <1>1, SumOfZeros
<1> QED
  BY <1>2 DEF ZeroPart, ZeroSum

\* Most commands leave the scores alone, and do not end a match.
ScoresStay ==
  room'.scores = room.scores /\ (room'.status \in ReadyStates => room.status \in ReadyStates)

LEMMA StayingKeeps == ASSUME ZeroPart, ScoresStay PROVE ZeroPart'
BY DEF ZeroPart, ScoresStay, ZeroSum

LEMMA TableZero == ASSUME RoomInv, RoomInv', ZeroPart, Table PROVE ZeroPart'
<1>1. PICK p \in Players :
         \/ \E s \in Seats : Join(p, s)
         \/ \E q \in Players \cup {NoPlayer} : Leave(p, q)
         \/ \E ready \in BOOLEAN : SetReady(p, ready)
         \/ IncreaseZeng(p)
  BY DEF Table
<1>2. room \in Fields
  BY DEF RoomInv, Shape
<1>3. room.scores \in [Seated(room) -> Int]
  BY ScoreFacts
<1>4. CASE \E s \in Seats : Join(p, s)
  <2>1. room'.scores = With(room.scores, p, 0) /\ room.status = "waiting"
    BY <1>2, <1>4 DEF Join, Append, Fields
  <2>2. \A q \in DOMAIN room.scores : room.scores[q] = 0
    BY <2>1 DEF ZeroPart, ReadyStates
  <2>3. \A q \in DOMAIN room'.scores : room'.scores[q] = 0
    BY <1>3, <2>1, <2>2, WithMap DEF With
  <2> QED
    BY <2>3, ZerosKeep
<1>5. CASE \E q \in Players \cup {NoPlayer} : Leave(p, q)
  <2>1. room'.scores = Without(room.scores, p) /\ room.status \in ReadyStates
    BY <1>2, <1>5 DEF Leave, Append, Fields
  <2>2. \A q \in DOMAIN room.scores : room.scores[q] = 0
    BY <2>1 DEF ZeroPart
  <2>3. \A q \in DOMAIN room'.scores : room'.scores[q] = 0
    BY <1>3, <2>1, <2>2 DEF Without, Restrict
  <2> QED
    BY <2>3, ZerosKeep
<1>6. CASE \E ready \in BOOLEAN : SetReady(p, ready)
  <2>1. ScoresStay
    BY <1>2, <1>6 DEF SetReady, Append, Fields, ScoresStay
  <2> QED
    BY <2>1, StayingKeeps
<1>7. CASE IncreaseZeng(p)
  <2>1. ScoresStay
    BY <1>2, <1>7 DEF IncreaseZeng, Append, Fields, ScoresStay
  <2> QED
    BY <2>1, StayingKeeps
<1> QED
  BY <1>1, <1>4, <1>5, <1>6, <1>7

LEMMA FlowersZero == ASSUME RoomInv, Flowers PROVE ScoresStay
<1>1. room \in Fields
  BY DEF RoomInv, Shape
<1>2. ASSUME NEW opening \in [Seated(room) -> 0..MaxFlowers], InitializeFlowers(opening)
      PROVE  ScoresStay
  BY <1>1, <1>2 DEF InitializeFlowers, Append, Fields, ScoresStay
<1>3. ASSUME NEW p \in Players, NEW choice \in {"piao", "not_piao"}, ChoosePiao(p, choice)
      PROVE  ScoresStay
  BY <1>1, <1>3 DEF ChoosePiao, Append, Fields, ScoresStay
<1>4. ASSUME NEW p \in Players, RecordFlowerDraw(p, 1) PROVE ScoresStay
  BY <1>1, <1>4 DEF RecordFlowerDraw, Append, Fields, ScoresStay
<1>5. ASSUME NEW p \in Players, NEW action \in {"discard", "replace"}, ResolveFlower(p, action)
      PROVE  ScoresStay
  BY <1>1, <1>5 DEF ResolveFlower, Append, Fields, ScoresStay
<1> QED
  BY <1>2, <1>3, <1>4, <1>5 DEF Flowers

\* A settlement adds up to zero, and so does what it is added to.
LEMMA SettledZero ==
  ASSUME RoomInv, ZeroPart, NEW who, NEW deltas \in [Seated(room) -> Int], NEW transfers,
         SettleScores(who, deltas, transfers)
  PROVE  ZeroPart'
<1> DEFINE scores == [p \in Seated(room) |-> room.scores[p] + deltas[p]]
<1>1. room \in Fields
  BY DEF RoomInv, Shape
<1>2. room'.scores = scores /\ room'.status = "settling"
  BY <1>1 DEF SettleScores, Settle, Append, Fields
<1>3. room.scores \in [Seated(room) -> Int] /\ IsFiniteSet(Seated(room))
  BY ScoreFacts
<1>4. Sum(scores) = Sum(room.scores) + Sum(deltas)
  BY <1>3, SumAdds
<1>5. Sum(deltas) = 0 /\ Sum(room.scores) = 0
  BY DEF SettleScores, ServerSettlement, ZeroPart, ZeroSum
<1>6. "settling" \notin ReadyStates
  BY DEF ReadyStates
<1> HIDE DEF scores
<1> QED
  BY <1>2, <1>4, <1>5, <1>6 DEF ZeroPart, ZeroSum

LEMMA RoundZero == ASSUME RoomInv, ZeroPart, Round PROVE ZeroPart'
<1>1. room \in Fields
  BY DEF RoomInv, Shape
<1>2. PICK who \in Callers :
         \/ \E auto \in BOOLEAN, bypass \in BOOLEAN : Start(who, auto, bypass)
         \/ BeginPlaying(who)
         \/ SettleRound(who)
         \/ \E deltas \in [Seated(room) -> -MaxDelta..MaxDelta] :
              \E transfers \in SUBSET Transfers : SettleScores(who, deltas, transfers)
         \/ \E autoDeal \in BOOLEAN : NextRound(who, autoDeal)
         \/ Finish(who) \/ Cancel(who)
  BY DEF Round
<1>3. ASSUME NEW auto \in BOOLEAN, NEW bypass \in BOOLEAN, Start(who, auto, bypass)
      PROVE  ScoresStay
  BY <1>1, <1>3 DEF Start, Append, Fields, ScoresStay
<1>4. CASE BeginPlaying(who)
  <2>1. ScoresStay
    BY <1>1, <1>4 DEF BeginPlaying, Append, Fields, ScoresStay, ReadyStates
  <2> QED
    BY <2>1, StayingKeeps
<1>5. CASE SettleRound(who)
  <2>1. ScoresStay
    BY <1>1, <1>5 DEF SettleRound, Settle, Append, Fields, ScoresStay, ReadyStates
  <2> QED
    BY <2>1, StayingKeeps
<1>6. ASSUME NEW deltas \in [Seated(room) -> -MaxDelta..MaxDelta], NEW transfers,
             SettleScores(who, deltas, transfers)
      PROVE  ZeroPart'
  <2>1. deltas \in [Seated(room) -> Int]
    BY RoomAssumption
  <2> QED
    BY <1>6, <2>1, SettledZero
<1>7. ASSUME NEW autoDeal \in BOOLEAN, NextRound(who, autoDeal) PROVE ScoresStay
  BY <1>1, <1>7
     DEF NextRound, Append, Finished, DealtNext, Fields, ScoresStay, ReadyStates
<1>8. CASE Finish(who) \/ Cancel(who)
  <2>1. ScoresStay
    BY <1>1, <1>8 DEF Finish, Cancel, Append, Finished, Fields, ScoresStay, ReadyStates
  <2> QED
    BY <2>1, StayingKeeps
<1> QED
  BY <1>2, <1>3, <1>4, <1>5, <1>6, <1>7, <1>8, StayingKeeps

LEMMA ZeroStep == RoomInv /\ RoomInv' /\ ZeroPart /\ [Next]_vars => ZeroPart'
<1> SUFFICES ASSUME RoomInv, RoomInv', ZeroPart, [Next]_vars PROVE ZeroPart'
  OBVIOUS
<1>1. room \in Fields
  BY DEF RoomInv, Shape
<1>2. CASE Table
  BY <1>2, TableZero
<1>3. CASE Flowers
  BY <1>3, FlowersZero, StayingKeeps
<1>4. CASE Round
  BY <1>4, RoundZero
<1>5. CASE BeginNextRound \/ \E p \in Players : ApplyAction(p)
  <2>1. ScoresStay
    BY ZenonT(30), <1>1, <1>5
       DEF BeginNextRound, DealtNext, ApplyAction, Append, Fields, ScoresStay, ReadyStates
  <2> QED
    BY <2>1, StayingKeeps
<1>6. CASE Checkpoint \/ UNCHANGED vars
  <2>1. ScoresStay
    BY <1>6 DEF Checkpoint, vars, ScoresStay
  <2> QED
    BY <2>1, StayingKeeps
<1> QED
  BY <1>2, <1>3, <1>4, <1>5, <1>6 DEF Next, Command

-----------------------------------------------------------------------------
\* Every field keeps its type, and the seats, scores, zeng, ready flags and flowers
\* speak of the same players: those who joined and have not left (Room.execute).
THEOREM RoomTyped == Spec => []TypeOK
<1>1. RoomInv => TypeOK
  BY RoomFacts, OnPlayersMap
     DEF RoomInv, Shape, Fields, Statuses, TablePart, FlowerPart, TypeOK, Seated
<1> QED
  BY <1>1, AlwaysRoomInv, PTL

\* Joins, leaves, rounds without and with scores in any order: the scores of those at
\* the table add up to zero (Room: serverSettlementDeltas, settleRound).
THEOREM ZeroSumHolds == Spec => []ZeroSum
<1>1. Init => ZeroPart
  BY InitZero
<1>2. RoomInv /\ RoomInv' /\ ZeroPart /\ [Next]_vars => ZeroPart'
  BY ZeroStep
<1>3. ZeroPart => ZeroSum
  BY DEF ZeroPart
<1> QED
  BY <1>1, <1>2, <1>3, AlwaysRoomInv, PTL DEF Spec

\* Joins, leaves, hand-overs and changes of mind in any order leave a table with an
\* owner who can start, and ready exactly when all are (Room: join, leave, setReady).
THEOREM TableInOrderHolds == Spec => []TableInOrder
<1>1. RoomInv => TableInOrder
  BY DEF RoomInv, TablePart, StatusPart, TableInOrder
<1> QED
  BY <1>1, AlwaysRoomInv, PTL

\* A started round has a full table, a round being played a turn of somebody at it,
\* and the deadline is set for exactly that turn (Room: beginPlaying, applyAction).
THEOREM TurnInOrderHolds == Spec => []TurnInOrder
<1>1. RoomInv => TurnInOrder
  BY DEF RoomInv, StatusPart, TurnInOrder
<1> QED
  BY <1>1, AlwaysRoomInv, PTL

\* However choices, draws, discards and replacements mix, no flower is forgotten and
\* the right ones count (Room: chooseSusongPiao, resolveSusongFlower).
THEOREM FlowersInOrderHolds == Spec => []FlowersInOrder
<1>1. RoomInv => FlowersInOrder
  BY DEF RoomInv, FlowerPart
<1> QED
  BY <1>1, AlwaysRoomInv, PTL

\* The events replayed on any earlier checkpoint give the room that appended them
\* (Room: applyPersistedEvent).
THEOREM ReplayAgreesHolds == Spec => []ReplayAgrees
<1>1. RoomInv => ReplayAgrees
  <2> SUFFICES ASSUME RoomInv PROVE ReplayAgrees
    OBVIOUS
  <2>1. CASE room.status \in ReadyStates
    BY <2>1, CopyIsRoom DEF RoomInv, ReplayAgrees
  <2>2. CASE room.status \notin ReadyStates
    <3>1. [copy EXCEPT !.ready = {}] = [room EXCEPT !.ready = {}]
      BY CopyFacts DEF Fields
    <3> QED
      BY <2>2, <3>1, CopyFacts DEF ReplayAgrees, ReadyForgotten
  <2> QED
    BY <2>1, <2>2
<1> QED
  BY <1>1, AlwaysRoomInv, PTL

-----------------------------------------------------------------------------
\* A step as the users of the room see it.
Stays == room'.status = room.status /\ room'.round = room.round
Becomes(s) == room'.status = s /\ room'.round = room.round
Deals(s) == room'.status = s /\ room'.round = room.round + 1

LEMMA StatusFacts == RoomInv => room \in Fields /\ room.round \in Nat /\ room.status \in Statuses
BY CopyFacts, RoomFacts

LEMMA TableSeen ==
  ASSUME RoomInv, Table
  PROVE  \/ Stays
         \/ room.status \in ReadyStates /\ \E s \in ReadyStates : Becomes(s)
<1>1. room \in Fields
  BY StatusFacts
<1>2. ASSUME NEW p \in Players, NEW s \in Seats, Join(p, s) PROVE Stays
  BY <1>1, <1>2 DEF Join, Append, Fields, Stays
<1>3. ASSUME NEW p \in Players, NEW q, Leave(p, q)
      PROVE  room.status \in ReadyStates /\ \E s \in ReadyStates : Becomes(s)
  BY <1>1, <1>3 DEF Leave, Append, Fields, Becomes, ReadyStates
<1>4. ASSUME NEW p \in Players, NEW ready \in BOOLEAN, SetReady(p, ready)
      PROVE  room.status \in ReadyStates /\ \E s \in ReadyStates : Becomes(s)
  <2> DEFINE marked == [room EXCEPT !.ready = IF ready THEN room.ready \cup {p}
                                              ELSE room.ready \ {p}]
             status == StatusWhenMarked(marked)
  <2>1. room.status \in ReadyStates /\ room' = [marked EXCEPT !.status = status]
    BY <1>4 DEF SetReady, Append
  <2>2. status \in ReadyStates
    BY DEF StatusWhenMarked, ReadyStates
  <2> HIDE DEF status
  <2>3. Becomes(status)
    BY <1>1, <2>1 DEF Fields, Becomes
  <2> QED
    BY <2>1, <2>2, <2>3
<1>5. ASSUME NEW p \in Players, IncreaseZeng(p) PROVE Stays
  BY <1>1, <1>5 DEF IncreaseZeng, Append, Fields, Stays
<1>6. PICK p \in Players :
        \/ \E s \in Seats : Join(p, s)
        \/ \E q \in Players \cup {NoPlayer} : Leave(p, q)
        \/ \E ready \in BOOLEAN : SetReady(p, ready)
        \/ IncreaseZeng(p)
  BY DEF Table
<1> QED
  BY <1>2, <1>3, <1>4, <1>5, <1>6

LEMMA FlowersSeen == ASSUME RoomInv, Flowers PROVE Stays
<1>1. room \in Fields
  BY StatusFacts
<1>2. ASSUME NEW opening, InitializeFlowers(opening) PROVE Stays
  BY <1>1, <1>2 DEF InitializeFlowers, Append, Fields, Stays
<1>3. ASSUME NEW p, NEW choice, ChoosePiao(p, choice) PROVE Stays
  BY <1>1, <1>3 DEF ChoosePiao, Append, Fields, Stays
<1>4. ASSUME NEW p, RecordFlowerDraw(p, 1) PROVE Stays
  BY <1>1, <1>4 DEF RecordFlowerDraw, Append, Fields, Stays
<1>5. ASSUME NEW p, NEW action, ResolveFlower(p, action) PROVE Stays
  BY <1>1, <1>5 DEF ResolveFlower, Append, Fields, Stays
<1> QED
  BY <1>2, <1>3, <1>4, <1>5 DEF Flowers

\* What a step of a round, or into one or out of it, is seen as.
RoundSeen ==
  \/ room.status \in ReadyStates /\ (Deals("dealing") \/ Deals("playing"))
  \/ room.status = "dealing" /\ Becomes("playing")
  \/ room.status = "playing" /\ Becomes("settling")
  \/ room.status = "settling" /\ room.round < TotalRounds /\ Becomes("next_round")
  \/ /\ room.status \in {"settling", "next_round"} /\ room.round < TotalRounds
     /\ Deals("dealing")
  \/ room.status \in {"playing", "settling", "next_round"} /\ Becomes("finished")
  \/ room.status \notin Over /\ Becomes("cancelled")

LEMMA RoundIsSeen == ASSUME RoomInv, Round \/ BeginNextRound PROVE RoundSeen
<1>1. room \in Fields /\ room.round \in Nat /\ TotalRounds \in Nat
  BY StatusFacts, RoomAssumption
<1>2. room.status = "next_round" => room.round < TotalRounds
  BY DEF RoomInv, StatusPart
<1>3. ASSUME NEW who, NEW auto \in BOOLEAN, NEW bypass \in BOOLEAN, Start(who, auto, bypass)
      PROVE  RoundSeen
  <2>1. room.status \in ReadyStates /\ room.round = 0
    BY <1>3 DEF Start, RoomInv, StatusPart
  <2>2. room'.round = 1 /\ room'.status = IF auto THEN "playing" ELSE "dealing"
    BY <1>1, <1>3 DEF Start, Append, Fields
  <2> QED
    BY <2>1, <2>2 DEF Deals, RoundSeen
<1>4. ASSUME NEW who, BeginPlaying(who) PROVE RoundSeen
  BY <1>1, <1>4 DEF BeginPlaying, Append, Fields, Becomes, RoundSeen
<1>5. ASSUME NEW who, NEW scores, Settle(who, scores) PROVE RoundSeen
  BY <1>1, <1>5 DEF Settle, Append, Fields, Becomes, RoundSeen
<1>6. ASSUME room.status \in {"settling", "next_round"}, room.round < TotalRounds,
             room' = DealtNext
      PROVE  RoundSeen
  BY <1>1, <1>6 DEF DealtNext, Fields, Deals, RoundSeen
<1>7. ASSUME NEW who, NEW autoDeal \in BOOLEAN, NextRound(who, autoDeal) PROVE RoundSeen
  <2>1. room.status = "settling"
    BY <1>7 DEF NextRound
  <2>2. CASE room' = Finished(room)
    BY <1>1, <2>1, <2>2 DEF Finished, Fields, Becomes, RoundSeen
  <2>3. CASE ~LastRound /\ room' = [room EXCEPT !.status = "next_round", !.deadline = FALSE]
    BY <1>1, <2>1, <2>3 DEF LastRound, Fields, Becomes, RoundSeen
  <2>4. CASE ~LastRound /\ room' = DealtNext
    BY <1>1, <1>6, <2>1, <2>4 DEF LastRound
  <2> QED
    BY <1>7, <2>2, <2>3, <2>4 DEF NextRound, Append
<1>8. ASSUME BeginNextRound PROVE RoundSeen
  BY <1>2, <1>6, <1>8 DEF BeginNextRound, Append
<1>9. ASSUME NEW who, Finish(who) PROVE RoundSeen
  BY <1>1, <1>9 DEF Finish, Finished, Append, Fields, Becomes, RoundSeen
<1>10. ASSUME NEW who, Cancel(who) PROVE RoundSeen
  BY <1>1, <1>10 DEF Cancel, Append, Fields, Becomes, RoundSeen
<1>11. ASSUME NEW who, SettleRound(who) PROVE RoundSeen
  BY <1>5, <1>11 DEF SettleRound
<1>12. ASSUME NEW who, NEW deltas, NEW transfers, SettleScores(who, deltas, transfers)
       PROVE  RoundSeen
  BY <1>5, <1>12 DEF SettleScores
<1> QED
  BY <1>3, <1>4, <1>7, <1>8, <1>9, <1>10, <1>11, <1>12 DEF Round

\* Each step of the room is a step of its life, or none.
LEMMA LifeStep == RoomInv /\ [Next]_vars => [Life!LifeNext]_(Life!lifeVars)
<1> SUFFICES ASSUME RoomInv, [Next]_vars PROVE [Life!LifeNext]_(Life!lifeVars)
  OBVIOUS
<1>1. ASSUME Stays PROVE UNCHANGED Life!lifeVars
  BY <1>1 DEF Stays, Life!lifeVars
<1>2. ASSUME room.status \in ReadyStates, NEW s \in ReadyStates, Becomes(s)
      PROVE  Life!Gather
  BY <1>2 DEF Becomes, ReadyStates, Life!Gather, Life!Gathering, Life!To
<1>3. ASSUME RoundSeen PROVE Life!LifeNext
  BY <1>3
     DEF RoundSeen, Becomes, Deals, ReadyStates, Over, Life!LifeNext, Life!Gathering, Life!Over,
         Life!To, Life!DealTo, Life!StartMatch, Life!PlayRound, Life!SettleRound, Life!AwaitNext,
         Life!DealNext, Life!FinishMatch, Life!CancelRoom
<1>4. CASE Table
  BY <1>1, <1>2, <1>4, TableSeen DEF Life!LifeNext
<1>5. CASE Flowers
  BY <1>1, <1>5, FlowersSeen
<1>6. CASE Round \/ BeginNextRound
  BY <1>3, <1>6, RoundIsSeen
<1>7. CASE \E p \in Players : ApplyAction(p)
  <2>1. Stays
    BY <1>7, StatusFacts DEF ApplyAction, Append, Fields, Stays
  <2> QED
    BY <1>1, <2>1
<1>8. CASE Checkpoint \/ UNCHANGED vars
  <2>1. Stays
    BY <1>8 DEF Checkpoint, vars, Stays
  <2> QED
    BY <1>1, <2>1
<1> QED
  BY <1>4, <1>5, <1>6, <1>7, <1>8 DEF Next, Command

\* The room lives as RoomLifecycle promises: one phase after the other, no round
\* beyond the agreed number, nothing after its end (Room: start, nextRound, cancel).
THEOREM ImplementsLifecycleHolds == Spec => ImplementsLifecycle
<1>1. Init => Life!LifeInit
  BY DEF Init, NewRoom, Life!LifeInit
<1>2. RoomInv /\ [Next]_vars => [Life!LifeNext]_(Life!lifeVars)
  BY LifeStep
<1> QED
  BY <1>1, <1>2, AlwaysRoomInv, PTL DEF Spec, ImplementsLifecycle, Life!LifeSpec

-----------------------------------------------------------------------------
\* The flags in memory are those of people at the table, and the overlay is of flags.
PresenceInv ==
  PresenceSurvives /\ overlay \in [DOMAIN overlay -> BOOLEAN]

LEMMA PresenceStart == PresenceInit => PresenceInv
BY DEF PresenceInit, Init, NewRoom, Empty, PresenceInv, PresenceSurvives, RecoveredFlags, Seated

LEMMA RoomCommandKeeps ==
  ASSUME PresenceInv, RoomCommand
  PROVE  PresenceInv'
<1> DEFINE newcomers == Seated(room') \ Seated(room)
<1>1. /\ connected = RecoveredFlags /\ overlay' = overlay
      /\ connected' = (connected \cap Seated(room')) \cup newcomers /\ stored' = connected'
      /\ told' = (told \cap Seated(room')) \cup newcomers
      /\ returned' = (returned \cap Seated(room')) \cup (newcomers \cap DOMAIN overlay)
  BY DEF RoomCommand, Recovered, FlagsAfter
<1>2. \A p \in Seated(room) \ returned : p \in connected <=> p \in told
  BY <1>1 DEF PresenceInv, PresenceSurvives
<1>3. \A p \in Seated(room') : p \in RecoveredFlags' <=>
        IF p \in DOMAIN overlay THEN overlay[p] ELSE p \in connected'
  BY <1>1 DEF RecoveredFlags
<1>4. \A p \in connected : IF p \in DOMAIN overlay THEN overlay[p] ELSE p \in stored
  BY <1>1 DEF RecoveredFlags
<1>5. \A p \in Seated(room) \ connected :
        IF p \in DOMAIN overlay THEN ~overlay[p] ELSE p \notin stored
  BY <1>1 DEF RecoveredFlags
<1>6. ASSUME NEW p \in Seated(room') \ returned'
      PROVE  p \in RecoveredFlags' <=> p \in told'
  <2>1. CASE p \in newcomers
    BY <1>1, <1>3, <1>6, <2>1
  <2>2. CASE p \in Seated(room)
    <3>1. p \notin returned /\ (p \in connected' <=> p \in connected)
          /\ (p \in told' <=> p \in told)
      BY <1>1, <1>6, <2>2
    <3>2. CASE p \in DOMAIN overlay
      BY <1>2, <1>3, <1>4, <1>5, <1>6, <2>2, <3>1, <3>2
    <3>3. CASE p \notin DOMAIN overlay
      BY <1>2, <1>3, <1>6, <2>2, <3>1, <3>3
    <3> QED
      BY <3>2, <3>3
  <2> QED
    BY <1>6, <2>1, <2>2
<1>7. connected' \subseteq Seated(room')
  BY <1>1
<1> QED
  BY <1>1, <1>6, <1>7 DEF PresenceInv, PresenceSurvives

LEMMA SetConnectedKeeps ==
  ASSUME PresenceInv, NEW p, NEW flag \in BOOLEAN, SetConnected(p, flag)
  PROVE  PresenceInv'
<1>1. /\ connected = RecoveredFlags /\ p \in Seated(room) /\ room' = room
      /\ connected' = IF flag THEN connected \cup {p} ELSE connected \ {p}
      /\ overlay' = [q \in Seated(room) |-> q \in connected']
      /\ told' = IF flag THEN told \cup {p} ELSE told \ {p}
      /\ returned' = returned \ {p}
  BY DEF SetConnected, Recovered, SavedOverlay, vars
<1>2. connected' \subseteq Seated(room')
  BY <1>1 DEF RecoveredFlags
<1>3. \A q \in Seated(room') : q \in RecoveredFlags' <=> q \in connected'
  <2>1. DOMAIN overlay' = Seated(room) /\ \A q \in Seated(room) : overlay'[q] = (q \in connected')
    BY <1>1
  <2> QED
    BY <1>1, <2>1 DEF RecoveredFlags
<1>4. \A q \in Seated(room) \ returned : q \in connected <=> q \in told
  BY <1>1 DEF PresenceInv, PresenceSurvives
<1>5. \A q \in Seated(room') \ returned' : q \in connected' <=> q \in told'
  BY <1>1, <1>4
<1>6. overlay' \in [DOMAIN overlay' -> BOOLEAN]
  BY <1>1
<1> QED
  BY <1>2, <1>3, <1>5, <1>6 DEF PresenceInv, PresenceSurvives

LEMMA PresenceStep == PresenceInv /\ [PresenceNext]_presenceVars => PresenceInv'
<1> SUFFICES ASSUME PresenceInv, [PresenceNext]_presenceVars PROVE PresenceInv'
  OBVIOUS
<1>1. CASE RoomCommand
  BY <1>1, RoomCommandKeeps
<1>2. ASSUME NEW p \in Players, Disconnect(p) PROVE PresenceInv'
  BY <1>2, SetConnectedKeeps DEF Disconnect
<1>3. ASSUME NEW p \in Players, Reconnect(p) PROVE PresenceInv'
  BY <1>3, SetConnectedKeeps DEF Reconnect
<1>4. ASSUME NEW p \in Players, ReconnectRefused(p) PROVE PresenceInv'
  BY <1>4
     DEF ReconnectRefused, vars, PresenceInv, PresenceSurvives, RecoveredFlags, Seated
<1>5. CASE Recover
  BY <1>5 DEF Recover, vars, PresenceInv, PresenceSurvives, RecoveredFlags, Seated
<1>6. CASE UNCHANGED presenceVars
  BY <1>6 DEF presenceVars, presence, vars, PresenceInv, PresenceSurvives, RecoveredFlags, Seated
<1> QED
  BY <1>1, <1>2, <1>3, <1>4, <1>5, <1>6 DEF PresenceNext

\* What the last accepted join, disconnect or reconnect of a player said survives
\* every later event, snapshot and recovery, unless the player left and came back
\* (RoomActor: mergePresence; Room: _restorePresence).
THEOREM PresenceSurvivesHolds == PresenceSpec => []PresenceSurvives
<1>1. PresenceInit => PresenceInv
  BY PresenceStart
<1>2. PresenceInv /\ [PresenceNext]_presenceVars => PresenceInv'
  BY PresenceStep
<1>3. PresenceInv => PresenceSurvives
  BY DEF PresenceInv
<1> QED
  BY <1>1, <1>2, <1>3, PTL DEF PresenceSpec
===============================================================================
