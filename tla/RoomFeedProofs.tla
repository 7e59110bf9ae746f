---------------------------- MODULE RoomFeedProofs ----------------------------
(***************************************************************************)
(* The feed of a room for any clients, versions and bounds: the state      *)
(* keeps its types, a room that is shown is durable, or all but its last   *)
(* event, and over one connection every version comes once and in order.   *)
(***************************************************************************)
EXTENDS RoomFeed, TLAPS

Steps == {"idle", "queued", "executed", "appended", "publish", "sync", "answer"}

HandlerStates ==
  [step : Steps, joins : BOOLEAN, before : Nat, since : Nat, room : Rooms,
   target : 0..MaxVersion]
RequestTypes == {"join", "command", "reconnect", "subscribe", "create", "refresh"}
Requests == [type : RequestTypes, since : Nat]
MessageTypes == {"event", "sync", "created", "subscribed", "refreshed"}
Messages == [type : MessageTypes, ver : 0..MaxVersion, room : Rooms, missed : BOOLEAN]

\* One room is an earlier state of another.
Within(s, t) == Len(s) <= Len(t) /\ \A i \in 1..Len(s) : t[i] = s[i]
\* It is, but perhaps for its last event.
Nearly(s, t) == Len(s) <= Len(t) + 1 /\ \A i \in 1..(Len(s) - 1) : t[i] = s[i]
Once(s) == \A i, j \in DOMAIN s : s[i] = s[j] => i = j

\* The room in memory is durable, but for one event while a command is executed.
Ahead ==
  /\ Len(mem) \in 1..(Len(durable) + 1)
  /\ \A i \in 1..(Len(mem) - 1) : durable[i] = mem[i]

HeadExecuted == calls # <<>> /\ handler[Head(calls)].step = "executed"

StoreOK ==
  /\ durable \in Rooms /\ Len(durable) <= MaxVersion
  /\ mem \in Rooms /\ Len(mem) <= MaxVersion
  /\ made \in Nat
  /\ IF HeadExecuted THEN Ahead ELSE Within(mem, durable)

\* Whatever room a handler keeps was durable once, and the scheduler never joins.
HandlersOK ==
  /\ handler \in [Handlers -> HandlerStates]
  /\ ~handler[Timer].joins
  /\ \A h \in Handlers : Within(handler[h].room, durable)

\* A handler is in one queue once, and only the first is being served.
QueuesOK ==
  /\ calls \in Seq(Handlers) /\ tail \in Seq(Handlers)
  /\ Once(calls) /\ Once(tail)
  /\ \A i \in DOMAIN calls :
       /\ handler[calls[i]].step \in {"queued", "executed", "appended", "sync"}
       /\ i # 1 => handler[calls[i]].step \in {"queued", "sync"}
  /\ \A i \in DOMAIN tail : handler[tail[i]].step = "publish"

\* The first publication reads from the cursor, if it reads.
CursorOK ==
  /\ reading \in Nat \cup {None} /\ cursor \in 0..MaxVersion
  /\ reading # None => tail # <<>> /\ reading < handler[Head(tail)].target - 1

\* A message shows a room that is durable, or nearly.
Fits(m, room) ==
  IF m.type \in {"event", "sync"} THEN Within(m.room, room) ELSE Nearly(m.room, room)

WireOK ==
  /\ conn \in [Clients -> {"open", "closing", "closed"}] /\ subs \subseteq Clients
  /\ requests \in [Clients -> Seq(Requests)]
  /\ inbox \in [Clients -> Seq(Messages)]
  /\ \A c \in Clients :
       /\ Len(inbox[c]) <= MaxQueue
       /\ conn[c] = "closed" => c \notin subs /\ inbox[c] = <<>>
       /\ \A i \in DOMAIN inbox[c] : Fits(inbox[c][i], durable)

\* What an open connection was sent last is not newer than the cursor, or than where a
\* publication reads from; and it is just that unless the socket ceased to listen since.
FedIs(c) ==
  /\ left[c] \subseteq 0..Len(fed[c])
  /\ conn[c] = "closed" => fed[c] = <<>>
  /\ conn[c] = "open" /\ fed[c] # <<>> =>
       /\ fed[c][Len(fed[c])] <= cursor
       /\ reading # None => fed[c][Len(fed[c])] <= reading
       /\ \/ Len(fed[c]) \in left[c]
          \/ /\ c \in subs /\ fed[c][Len(fed[c])] = cursor
             /\ reading # None => reading = cursor

FedOK ==
  /\ fed \in [Clients -> Seq(Nat)] /\ left \in [Clients -> SUBSET Nat] /\ cursor \in Nat
  /\ EachVersionOnce
  /\ \A c \in Clients : FedIs(c)

ViewIs(c) ==
  IF c \in given THEN Nearly(view[c], durable) ELSE Within(view[c], durable)

ClientsOK ==
  /\ phase \in [Clients -> {"online", "syncing", "disconnected"}]
  /\ waiting \in [Clients -> Nat \cup {None}]
  /\ ver \in [Clients -> -1..MaxVersion] /\ view \in [Clients -> Rooms]
  /\ \A c \in Clients :
       /\ phase[c] = "disconnected" <=> conn[c] = "closed"
       /\ ViewIs(c)

SpentOK == losses \in 0..MaxLosses /\ failures \in 0..MaxFailures /\ foreign \in 0..MaxForeign

FeedInv ==
  StoreOK /\ HandlersOK /\ QueuesOK /\ CursorOK /\ WireOK /\ FedOK /\ ClientsOK /\ SpentOK

-----------------------------------------------------------------------------
\* Sequences.
LEMMA EmptySeq == \A S : <<>> \in Seq(S) /\ Len(<<>>) = 0 /\ DOMAIN <<>> = {}
OBVIOUS

LEMMA TailIs ==
  ASSUME NEW S, NEW s \in Seq(S), s # <<>>
  PROVE  /\ Len(s) \in Nat \ {0} /\ Head(s) = s[1] /\ Head(s) \in S /\ 1 \in DOMAIN s
         /\ Tail(s) \in Seq(S) /\ Len(Tail(s)) = Len(s) - 1
         /\ DOMAIN Tail(s) = 1..(Len(s) - 1)
         /\ \A i \in 1..(Len(s) - 1) : Tail(s)[i] = s[i + 1] /\ i + 1 \in DOMAIN s
OBVIOUS

LEMMA AppendIs ==
  ASSUME NEW S, NEW s \in Seq(S), NEW x \in S
  PROVE  /\ Append(s, x) \in Seq(S) /\ Len(Append(s, x)) = Len(s) + 1 /\ Append(s, x) # <<>>
         /\ DOMAIN Append(s, x) = 1..(Len(s) + 1) /\ DOMAIN s = 1..Len(s) /\ Len(s) \in Nat
         /\ \A i \in 1..Len(s) : Append(s, x)[i] = s[i]
         /\ Append(s, x)[Len(s) + 1] = x
OBVIOUS

LEMMA ConcatIs ==
  ASSUME NEW S, NEW s \in Seq(S), NEW t \in Seq(S)
  PROVE  /\ s \o t \in Seq(S) /\ Len(s \o t) = Len(s) + Len(t)
         /\ \A i \in 1..Len(s) : (s \o t)[i] = s[i]
         /\ \A i \in 1..Len(t) : (s \o t)[Len(s) + i] = t[i]
         /\ \A i \in 1..(Len(s) + Len(t)) : i \in 1..Len(s) \/ i - Len(s) \in 1..Len(t)
OBVIOUS

LEMMA SubSeqIs ==
  ASSUME NEW S, NEW s \in Seq(S), NEW n \in Nat, n <= Len(s)
  PROVE  /\ SubSeq(s, 1, n) \in Seq(S) /\ Len(SubSeq(s, 1, n)) = n
         /\ \A i \in 1..n : SubSeq(s, 1, n)[i] = s[i] /\ i \in DOMAIN s
OBVIOUS

\* The model's Prefix, element by element.
LEMMA PrefixWithin ==
  ASSUME NEW s \in Rooms, NEW t \in Rooms
  PROVE  Prefix(s, t) <=> Within(s, t)
<1>1. ASSUME Len(s) <= Len(t) PROVE SubSeq(t, 1, Len(s)) = s <=> \A i \in 1..Len(s) : t[i] = s[i]
  <2>1. /\ SubSeq(t, 1, Len(s)) \in Seq(Nat) /\ Len(SubSeq(t, 1, Len(s))) = Len(s)
        /\ \A i \in 1..Len(s) : SubSeq(t, 1, Len(s))[i] = t[i]
    BY <1>1 DEF Rooms
  <2> QED
    BY <2>1 DEF Rooms
<1> QED
  BY <1>1 DEF Prefix, Within

LEMMA WithinTrans ==
  ASSUME NEW s \in Rooms, NEW t \in Rooms, NEW u \in Rooms, Within(s, t), Within(t, u)
  PROVE  Within(s, u)
<1>1. Len(s) \in Nat /\ Len(t) \in Nat /\ Len(u) \in Nat
  BY DEF Rooms
<1>2. ASSUME NEW i \in 1..Len(s) PROVE u[i] = s[i]
  BY <1>1 DEF Within
<1> QED
  BY <1>1, <1>2 DEF Within

LEMMA WithinSelf == <<>> \in Rooms /\ \A s \in Rooms : Within(s, s) /\ Within(<<>>, s)
BY DEF Within, Rooms

LEMMA WithinAppend ==
  ASSUME NEW s \in Rooms, NEW x \in Nat
  PROVE  Append(s, x) \in Rooms /\ Within(s, Append(s, x)) /\ Len(Append(s, x)) = Len(s) + 1
BY DEF Within, Rooms

LEMMA WithinNearly ==
  ASSUME NEW s \in Rooms, NEW t \in Rooms, Within(s, t)
  PROVE  Nearly(s, t)
BY DEF Within, Nearly, Rooms

LEMMA NearlyTrans ==
  ASSUME NEW s \in Rooms, NEW t \in Rooms, NEW u \in Rooms, Nearly(s, t), Within(t, u)
  PROVE  Nearly(s, u)
<1>1. Len(s) \in Nat /\ Len(t) \in Nat /\ Len(u) \in Nat
  BY DEF Rooms
<1>2. ASSUME NEW i \in 1..(Len(s) - 1) PROVE u[i] = s[i]
  <2>1. i \in 1..Len(t)
    BY <1>1 DEF Nearly
  <2> QED
    BY <2>1 DEF Nearly, Within
<1> QED
  BY <1>1, <1>2 DEF Nearly, Within

\* The model's NearlyDurable, element by element.
LEMMA NearlyIs ==
  ASSUME NEW s \in Rooms, durable \in Rooms
  PROVE  NearlyDurable(s) <=> Nearly(s, durable)
<1>1. Len(s) \in Nat /\ Len(durable) \in Nat
  BY DEF Rooms
<1>2. CASE s = <<>>
  BY <1>1, <1>2 DEF NearlyDurable, Nearly
<1>3. CASE s # <<>>
  <2> DEFINE front == SubSeq(s, 1, Len(s) - 1)
  <2>1. Len(s) - 1 \in Nat /\ Len(s) - 1 <= Len(s)
    BY <1>1, <1>3 DEF Rooms
  <2>2. /\ front \in Rooms /\ Len(front) = Len(s) - 1
        /\ \A i \in 1..(Len(s) - 1) : front[i] = s[i]
    <3> DEFINE n == Len(s) - 1
    <3>1. n \in Nat /\ n <= Len(s)
      BY <2>1
    <3> HIDE DEF n
    <3>2. /\ SubSeq(s, 1, n) \in Seq(Nat) /\ Len(SubSeq(s, 1, n)) = n
          /\ \A i \in 1..n : SubSeq(s, 1, n)[i] = s[i]
      BY <3>1, SubSeqIs DEF Rooms
    <3> QED
      BY <3>2 DEF n, Rooms
  <2>3. NearlyDurable(s) <=> Prefix(front, durable)
    BY <1>3 DEF NearlyDurable
  <2> HIDE DEF front
  <2>4. Prefix(front, durable) <=> Within(front, durable)
    BY <2>2, PrefixWithin
  <2>5. Within(front, durable) <=> Nearly(s, durable)
    BY <1>1, <2>1, <2>2 DEF Within, Nearly
  <2> QED
    BY <2>3, <2>4, <2>5
<1> QED
  BY <1>2, <1>3

LEMMA FitsKept ==
  ASSUME NEW m \in Messages, NEW s \in Rooms, NEW t \in Rooms, Fits(m, s), Within(s, t)
  PROVE  Fits(m, t)
<1>1. m.room \in Rooms
  BY DEF Messages
<1> QED
  BY <1>1, WithinTrans, NearlyTrans DEF Fits

-----------------------------------------------------------------------------
LEMMA IdleTyped ==
  Idle \in HandlerStates /\ Idle.room = <<>> /\ Idle.step = "idle" /\ ~Idle.joins
<1>1. /\ "idle" \in Steps /\ FALSE \in BOOLEAN /\ 0 \in Nat /\ <<>> \in Rooms
      /\ 0 \in 0..MaxVersion
  BY FeedAssumption DEF Steps, Rooms
<1>2. Idle \in HandlerStates
  BY <1>1, Zenon DEF Idle, HandlerStates
<1> QED
  BY <1>2 DEF Idle

LEMMA InitFeedInv == Init => FeedInv
<1> SUFFICES ASSUME Init PROVE FeedInv
  OBVIOUS
<1> USE FeedAssumption DEF Init
<1>1. StoreOK
  BY DEF StoreOK, HeadExecuted, Rooms, Within
<1>2. HandlersOK
  <2>1. Within(<<>>, durable)
    BY WithinSelf
  <2>2. handler \in [Handlers -> HandlerStates] /\ \A h \in Handlers : handler[h] = Idle
    BY IdleTyped
  <2>3. Timer \in Handlers
    BY DEF Handlers
  <2> QED
    BY <2>1, <2>2, <2>3, IdleTyped DEF HandlersOK
<1>3. QueuesOK /\ CursorOK
  BY DEF QueuesOK, CursorOK, Once
<1>4. WireOK
  <2>1. requests \in [Clients -> Seq(Requests)]
    <3>1. CASE requests = [c \in Clients |-> <<>>]
      BY <3>1
    <3>2. CASE requests = [c \in Clients |-> IF c = Creator THEN <<Request("create", 0)>> ELSE <<>>]
      <4>1. Request("create", 0) \in Requests
        BY DEF Request, Requests, RequestTypes
      <4>2. <<Request("create", 0)>> \in Seq(Requests) /\ <<>> \in Seq(Requests)
        BY <4>1, EmptySeq
      <4> DEFINE sent == <<Request("create", 0)>>
      <4> HIDE DEF sent
      <4> QED
        BY <3>2, <4>2 DEF sent
    <3> QED
      BY <3>1, <3>2
  <2> QED
    BY <2>1 DEF WireOK
<1>5. FedOK
  BY DEF FedOK, FedIs, EachVersionOnce
<1>6. ClientsOK
  <2>1. Within(<<>>, durable) /\ <<>> \in Rooms
    BY WithinSelf
  <2>2. ver \in [Clients -> -1..MaxVersion] /\ view \in [Clients -> Rooms]
    BY <2>1
  <2>3. \A c \in Clients : ViewIs(c)
    BY <2>1, WithinSelf, WithinNearly DEF ViewIs
  <2> QED
    BY <2>1, <2>2, <2>3 DEF ClientsOK
<1>7. SpentOK
  BY DEF SpentOK
<1> QED
  BY <1>1, <1>2, <1>3, <1>4, <1>5, <1>6, <1>7 DEF FeedInv

-----------------------------------------------------------------------------
\* What is known of rooms stays true as the stream grows.
LEMMA HandlersKept ==
  ASSUME HandlersOK, durable \in Rooms, durable' \in Rooms, Within(durable, durable'),
         handler' = handler
  PROVE  HandlersOK'
<1>1. ASSUME NEW h \in Handlers PROVE Within(handler[h].room, durable')
  <2>1. handler[h].room \in Rooms /\ Within(handler[h].room, durable)
    BY DEF HandlersOK, HandlerStates
  <2> QED
    BY <2>1, WithinTrans
<1> QED
  BY <1>1 DEF HandlersOK

LEMMA HandlersSet ==
  ASSUME HandlersOK, durable \in Rooms, durable' \in Rooms, Within(durable, durable'),
         NEW h \in Handlers, NEW v \in HandlerStates, Within(v.room, durable'),
         h = Timer => ~v.joins, Set(h, v)
  PROVE  /\ HandlersOK' /\ handler'[h] = v
         /\ \A g \in Handlers \ {h} : handler'[g] = handler[g]
<1>1. /\ handler' \in [Handlers -> HandlerStates] /\ handler'[h] = v
      /\ \A g \in Handlers \ {h} : handler'[g] = handler[g]
  BY DEF HandlersOK, Set
<1>2. ASSUME NEW g \in Handlers \ {h} PROVE Within(handler[g].room, durable')
  <2>1. handler[g].room \in Rooms /\ Within(handler[g].room, durable)
    BY DEF HandlersOK, HandlerStates
  <2> QED
    BY <2>1, WithinTrans
<1>3. ~handler'[Timer].joins
  <2>1. Timer \in Handlers
    BY DEF Handlers
  <2>2. CASE h = Timer
    BY <1>1, <2>2, Zenon
  <2>3. CASE h # Timer
    <3>1. handler'[Timer] = handler[Timer]
      BY <1>1, <2>1, <2>3
    <3> QED
      BY <3>1, Zenon DEF HandlersOK
  <2> QED
    BY <2>2, <2>3
<1> QED
  BY <1>1, <1>2, <1>3 DEF HandlersOK

\* A handler enters the actor's queue.
LEMMA QueueEnter ==
  ASSUME QueuesOK, CursorOK, NEW h \in Handlers, NEW v, v.step \in {"queued", "sync"},
         handler[h].step = "idle", handler'[h] = v,
         \A g \in Handlers \ {h} : handler'[g] = handler[g],
         calls' = Append(calls, h), tail' = tail, reading' = reading, cursor' = cursor
  PROVE  QueuesOK' /\ CursorOK' /\ (HeadExecuted' <=> HeadExecuted)
<1>1. /\ calls \in Seq(Handlers) /\ tail \in Seq(Handlers) /\ Once(calls) /\ Once(tail)
  BY DEF QueuesOK
<1>2. /\ \A i \in DOMAIN calls : calls[i] \in Handlers \ {h}
      /\ \A i \in DOMAIN tail : tail[i] \in Handlers \ {h}
  BY <1>1 DEF QueuesOK
<1>3. /\ calls' \in Seq(Handlers) /\ DOMAIN calls' = 1..(Len(calls) + 1)
      /\ DOMAIN calls = 1..Len(calls) /\ Len(calls) \in Nat
      /\ \A i \in 1..Len(calls) : calls'[i] = calls[i]
      /\ calls'[Len(calls) + 1] = h
  BY <1>1, AppendIs
<1>4. Once(calls')
  BY <1>1, <1>2, <1>3 DEF Once
<1>5. ASSUME NEW i \in DOMAIN calls'
      PROVE  /\ handler'[calls'[i]].step \in {"queued", "executed", "appended", "sync"}
             /\ i # 1 => handler'[calls'[i]].step \in {"queued", "sync"}
  <2>1. CASE i \in 1..Len(calls)
    BY <1>2, <1>3, <2>1 DEF QueuesOK
  <2>2. CASE i = Len(calls) + 1
    BY <1>3, <2>2
  <2> QED
    BY <1>3, <2>1, <2>2
<1>6. \A i \in DOMAIN tail : handler'[tail[i]].step = "publish"
  BY <1>2 DEF QueuesOK
<1>7. reading # None => handler'[Head(tail)] = handler[Head(tail)]
  <2> SUFFICES ASSUME reading # None PROVE handler'[Head(tail)] = handler[Head(tail)]
    OBVIOUS
  <2>1. tail # <<>>
    BY DEF CursorOK
  <2> QED
    BY <1>1, <1>2, <2>1, TailIs
<1>8. CursorOK'
  BY <1>7 DEF CursorOK
<1>9. HeadExecuted' <=> HeadExecuted
  <2>1. calls' # <<>> /\ Head(calls') = calls'[1]
    BY <1>1, <1>3, TailIs
  <2>2. CASE calls = <<>>
    BY <1>3, <2>1, <2>2 DEF HeadExecuted
  <2>3. CASE calls # <<>>
    <3>1. Head(calls') = Head(calls) /\ Head(calls) \in Handlers \ {h}
      BY <1>1, <1>2, <1>3, <2>1, <2>3, TailIs
    <3> QED
      BY <2>1, <2>3, <3>1 DEF HeadExecuted
  <2> QED
    BY <2>2, <2>3
<1> QED
  BY <1>1, <1>3, <1>4, <1>5, <1>6, <1>8, <1>9 DEF QueuesOK

\* The handler being served goes on.
LEMMA QueueStep ==
  ASSUME QueuesOK, CursorOK, calls # <<>>, NEW h, h = Head(calls),
         NEW v, v.step \in {"executed", "appended"}, handler'[h] = v,
         \A g \in Handlers \ {h} : handler'[g] = handler[g],
         calls' = calls, tail' = tail, reading' = reading, cursor' = cursor
  PROVE  QueuesOK' /\ CursorOK'
<1>1. /\ calls \in Seq(Handlers) /\ tail \in Seq(Handlers) /\ Once(calls) /\ Once(tail)
      /\ h \in Handlers /\ h = calls[1] /\ 1 \in DOMAIN calls
  BY TailIs DEF QueuesOK
<1>2. /\ \A i \in DOMAIN calls : calls[i] \in Handlers /\ (i # 1 => calls[i] # h)
      /\ \A i \in DOMAIN tail : tail[i] \in Handlers \ {h}
  BY <1>1 DEF QueuesOK, Once
<1>3. ASSUME NEW i \in DOMAIN calls
      PROVE  /\ handler'[calls[i]].step \in {"queued", "executed", "appended", "sync"}
             /\ i # 1 => handler'[calls[i]].step \in {"queued", "sync"}
  <2>1. CASE i = 1
    BY <1>1, <2>1
  <2>2. CASE i # 1
    BY <1>2, <2>2 DEF QueuesOK
  <2> QED
    BY <2>1, <2>2
<1>4. \A i \in DOMAIN tail : handler'[tail[i]].step = "publish"
  BY <1>2 DEF QueuesOK
<1>5. reading # None => handler'[Head(tail)] = handler[Head(tail)]
  <2> SUFFICES ASSUME reading # None PROVE handler'[Head(tail)] = handler[Head(tail)]
    OBVIOUS
  <2>1. tail # <<>>
    BY DEF CursorOK
  <2> QED
    BY <1>1, <1>2, <2>1, TailIs
<1>6. CursorOK'
  BY <1>5 DEF CursorOK
<1> QED
  BY <1>1, <1>3, <1>4, <1>6 DEF QueuesOK

\* The handler being served leaves the actor's queue, to publish or not.
LEMMA QueueLeave ==
  ASSUME QueuesOK, CursorOK, calls # <<>>, NEW h, h = Head(calls), NEW v, handler'[h] = v,
         \A g \in Handlers \ {h} : handler'[g] = handler[g],
         calls' = Tail(calls), reading' = reading, cursor' \in 0..MaxVersion,
         \/ tail' = tail
         \/ tail' = Append(tail, h) /\ v.step = "publish"
  PROVE  QueuesOK' /\ CursorOK' /\ ~HeadExecuted'
<1>1. /\ calls \in Seq(Handlers) /\ tail \in Seq(Handlers) /\ Once(calls) /\ Once(tail)
      /\ h \in Handlers /\ h = calls[1] /\ 1 \in DOMAIN calls
  BY TailIs DEF QueuesOK
<1>2. /\ \A i \in DOMAIN calls : calls[i] \in Handlers /\ (i # 1 => calls[i] # h)
      /\ \A i \in DOMAIN tail : tail[i] \in Handlers \ {h}
  BY <1>1 DEF QueuesOK, Once
<1>3. /\ calls' \in Seq(Handlers) /\ DOMAIN calls' = 1..(Len(calls) - 1)
      /\ \A i \in 1..(Len(calls) - 1) : calls'[i] = calls[i + 1] /\ i + 1 \in DOMAIN calls
  BY <1>1, TailIs
<1>4. Once(calls')
  BY <1>1, <1>3 DEF Once
<1>5. ASSUME NEW i \in DOMAIN calls' PROVE handler'[calls'[i]].step \in {"queued", "sync"}
  <2>1. calls'[i] = calls[i + 1] /\ i + 1 \in DOMAIN calls /\ i + 1 # 1
    BY <1>1, <1>3
  <2>2. handler[calls[i + 1]].step \in {"queued", "sync"} /\ calls[i + 1] \in Handlers \ {h}
    BY <1>2, <2>1 DEF QueuesOK
  <2> QED
    BY <2>1, <2>2
<1>6. /\ tail' \in Seq(Handlers) /\ Once(tail')
      /\ \A i \in DOMAIN tail' : handler'[tail'[i]].step = "publish"
      /\ tail # <<>> => tail' # <<>> /\ Head(tail') = Head(tail)
  <2>1. CASE tail' = tail
    BY <1>1, <1>2, <2>1 DEF QueuesOK
  <2>2. CASE tail' = Append(tail, h) /\ v.step = "publish"
    <3>1. /\ tail' \in Seq(Handlers) /\ DOMAIN tail' = 1..(Len(tail) + 1)
          /\ DOMAIN tail = 1..Len(tail) /\ Len(tail) \in Nat
          /\ \A i \in 1..Len(tail) : tail'[i] = tail[i]
          /\ tail'[Len(tail) + 1] = h /\ tail' # <<>>
      BY <1>1, <2>2, AppendIs
    <3>2. Once(tail')
      BY SMTT(30), <1>1, <1>2, <3>1 DEF Once
    <3>3. \A i \in DOMAIN tail' : handler'[tail'[i]].step = "publish"
      BY SMTT(30), <1>2, <2>2, <3>1 DEF QueuesOK
    <3>4. tail # <<>> => Head(tail') = Head(tail)
      BY <1>1, <3>1, TailIs
    <3> QED
      BY <3>1, <3>2, <3>3, <3>4
  <2> QED
    BY <2>1, <2>2
<1>7. CursorOK'
  <2>1. ASSUME reading # None
        PROVE  /\ tail # <<>> /\ Head(tail') = Head(tail)
               /\ handler'[Head(tail)] = handler[Head(tail)]
    <3>1. tail # <<>>
      BY <2>1 DEF CursorOK
    <3> QED
      BY <1>1, <1>2, <1>6, <3>1, TailIs
  <2> QED
    BY <1>6, <2>1 DEF CursorOK
<1>8. ~HeadExecuted'
  <2>1. calls' # <<>> => 1 \in DOMAIN calls' /\ Head(calls') = calls'[1]
    BY <1>3, TailIs
  <2> QED
    BY <1>5, <2>1 DEF HeadExecuted
<1> QED
  BY <1>3, <1>4, <1>5, <1>6, <1>7, <1>8 DEF QueuesOK

\* The first publication is over.
LEMMA TailLeave ==
  ASSUME QueuesOK, tail # <<>>, NEW h, h = Head(tail),
         \A g \in Handlers \ {h} : handler'[g] = handler[g],
         calls' = calls, tail' = Tail(tail), reading' = None, cursor' \in 0..MaxVersion
  PROVE  QueuesOK' /\ CursorOK' /\ (HeadExecuted' <=> HeadExecuted)
<1>1. /\ calls \in Seq(Handlers) /\ tail \in Seq(Handlers) /\ Once(calls) /\ Once(tail)
      /\ h \in Handlers /\ h = tail[1] /\ 1 \in DOMAIN tail
  BY TailIs DEF QueuesOK
<1>2. /\ \A i \in DOMAIN tail : tail[i] \in Handlers /\ (i # 1 => tail[i] # h)
      /\ \A i \in DOMAIN calls : calls[i] \in Handlers \ {h}
  BY SMTT(30), <1>1 DEF QueuesOK, Once
<1>3. /\ tail' \in Seq(Handlers) /\ DOMAIN tail' = 1..(Len(tail) - 1)
      /\ \A i \in 1..(Len(tail) - 1) : tail'[i] = tail[i + 1] /\ i + 1 \in DOMAIN tail
  BY <1>1, TailIs
<1>4. Once(tail')
  BY <1>1, <1>3 DEF Once
<1>5. ASSUME NEW i \in DOMAIN tail' PROVE handler'[tail'[i]].step = "publish"
  <2>1. tail'[i] = tail[i + 1] /\ i + 1 \in DOMAIN tail /\ i + 1 # 1
    BY <1>1, <1>3
  <2>2. handler[tail[i + 1]].step = "publish" /\ tail[i + 1] \in Handlers \ {h}
    BY <1>2, <2>1 DEF QueuesOK
  <2> QED
    BY <2>1, <2>2
<1>6. \A i \in DOMAIN calls :
        /\ handler'[calls[i]].step \in {"queued", "executed", "appended", "sync"}
        /\ i # 1 => handler'[calls[i]].step \in {"queued", "sync"}
  BY <1>2 DEF QueuesOK
<1>7. HeadExecuted' <=> HeadExecuted
  <2>1. calls # <<>> => Head(calls) \in Handlers \ {h}
    BY <1>1, <1>2, TailIs
  <2> QED
    BY <2>1 DEF HeadExecuted
<1> QED
  BY <1>1, <1>3, <1>4, <1>5, <1>6, <1>7 DEF QueuesOK, CursorOK

-----------------------------------------------------------------------------
\* What is sent.
LEMMA EventTyped ==
  ASSUME NEW v \in 0..MaxVersion, NEW room \in Rooms
  PROVE  /\ Event(v, room) \in Messages /\ Event(v, room).room = room
         /\ Event(v, room).type = "event"
<1>1. "event" \in MessageTypes /\ FALSE \in BOOLEAN
  BY DEF MessageTypes
<1>2. Event(v, room) \in Messages
  BY <1>1, Zenon DEF Event, Messages
<1> QED
  BY <1>2 DEF Event

LEMMA SyncTyped ==
  ASSUME NEW room \in Rooms, Len(room) <= MaxVersion, NEW missed \in BOOLEAN
  PROVE  /\ Sync(room, missed) \in Messages /\ Sync(room, missed).room = room
         /\ Sync(room, missed).type = "sync"
<1>1. "sync" \in MessageTypes /\ Len(room) \in 0..MaxVersion
  BY FeedAssumption DEF Rooms, MessageTypes
<1>2. Sync(room, missed) \in Messages
  BY <1>1, Zenon DEF Sync, Messages
<1> QED
  BY <1>2 DEF Sync

LEMMA ShownTyped ==
  ASSUME mem \in Rooms, Len(mem) <= MaxVersion, NEW type \in MessageTypes
  PROVE  /\ Shown(type) \in Messages /\ Shown(type).room = mem
         /\ Shown(type).type = type
<1>1. FALSE \in BOOLEAN /\ Len(mem) \in 0..MaxVersion
  BY FeedAssumption DEF Rooms
<1>2. Shown(type) \in Messages
  BY <1>1, Zenon DEF Shown, Messages
<1> QED
  BY <1>2 DEF Shown

LEMMA RefreshedTyped ==
  Refreshed \in Messages /\ Refreshed.room = <<>> /\ Refreshed.type = "refreshed"
<1>1. "refreshed" \in MessageTypes /\ FALSE \in BOOLEAN /\ <<>> \in Rooms /\ 0 \in 0..MaxVersion
  BY FeedAssumption DEF MessageTypes, Rooms
<1>2. Refreshed \in Messages
  BY <1>1, Zenon DEF Refreshed, Messages
<1> QED
  BY <1>2 DEF Refreshed

LEMMA PublicationTyped ==
  ASSUME NEW from \in Nat, NEW to \in 0..MaxVersion, from < to, NEW room \in Rooms
  PROVE  /\ Publication(from, to, room) \in Seq(Messages)
         /\ Len(Publication(from, to, room)) = to - from
         /\ \A i \in DOMAIN Publication(from, to, room) :
              /\ Publication(from, to, room)[i].room = room
              /\ Publication(from, to, room)[i].type = "event"
<1>1. to - from \in Nat
  OBVIOUS
<1>2. ASSUME NEW i \in 1..(to - from)
      PROVE  /\ Event(from + i, room) \in Messages /\ Event(from + i, room).room = room
             /\ Event(from + i, room).type = "event"
  <2>1. from + i \in 0..MaxVersion
    BY FeedAssumption
  <2> QED
    BY <2>1, EventTyped
<1> QED
  BY <1>1, <1>2 DEF Publication

LEMMA TakenIs ==
  ASSUME WireOK, NEW c \in Clients, NEW msgs \in Seq(Messages)
  PROVE  /\ Taken(c, msgs) \in Seq(Messages) /\ Len(Taken(c, msgs)) \in Nat
         /\ Len(Taken(c, msgs)) <= Len(msgs)
         /\ DOMAIN Taken(c, msgs) = 1..Len(Taken(c, msgs))
         /\ \A i \in 1..Len(Taken(c, msgs)) : Taken(c, msgs)[i] = msgs[i] /\ i \in DOMAIN msgs
         /\ conn[c] # "open" => Len(Taken(c, msgs)) = 0
         /\ Len(inbox[c]) + Len(Taken(c, msgs)) <= MaxQueue
<1>1. Len(inbox[c]) \in Nat /\ Len(inbox[c]) <= MaxQueue /\ MaxQueue \in Nat
  BY FeedAssumption DEF WireOK
<1> DEFINE n == Smaller(Len(msgs), MaxQueue - Len(inbox[c]))
<1>2. n \in Nat /\ n <= Len(msgs) /\ n <= MaxQueue - Len(inbox[c])
  <2> DEFINE free == MaxQueue - Len(inbox[c])
  <2>1. free \in Nat /\ Len(msgs) \in Nat
    BY <1>1
  <2>2. n = IF Len(msgs) < free THEN Len(msgs) ELSE free
    BY DEF Smaller
  <2> HIDE DEF n, free
  <2>3. n \in Nat /\ n <= Len(msgs) /\ n <= free
    BY <2>1, <2>2
  <2> QED
    BY <2>3 DEF free
<1>3. CASE conn[c] = "open"
  <2>1. Taken(c, msgs) = SubSeq(msgs, 1, n)
    BY <1>3 DEF Taken
  <2> HIDE DEF n
  <2>2. /\ SubSeq(msgs, 1, n) \in Seq(Messages) /\ Len(SubSeq(msgs, 1, n)) = n
        /\ \A i \in 1..n : SubSeq(msgs, 1, n)[i] = msgs[i] /\ i \in DOMAIN msgs
    BY <1>2, SubSeqIs
  <2>3. Len(inbox[c]) + n <= MaxQueue
    BY <1>1, <1>2
  <2> QED
    <3>1. DOMAIN SubSeq(msgs, 1, n) = 1..n /\ n \in Nat /\ n <= Len(msgs)
      BY <1>2, <2>2
    <3> QED
      BY <1>3, <2>1, <2>2, <2>3, <3>1
<1>4. CASE conn[c] # "open"
  <2>1. Taken(c, msgs) = <<>>
    BY <1>4 DEF Taken
  <2> QED
    BY <1>1, <2>1, EmptySeq
<1> QED
  BY <1>3, <1>4

LEMMA Sending ==
  ASSUME WireOK, durable' = durable, NEW S \in SUBSET Clients, NEW msgs \in Seq(Messages),
         \A i \in DOMAIN msgs : Fits(msgs[i], durable),
         Send(S, msgs), requests' \in [Clients -> Seq(Requests)],
         subs' \subseteq Clients, \A c \in subs' : conn[c] # "closed"
  PROVE  /\ WireOK'
         /\ \A c \in Clients :
              /\ conn'[c] = "closed" <=> conn[c] = "closed"
              /\ conn'[c] = "open" =>
                   conn[c] = "open" /\ (c \in S => Len(Taken(c, msgs)) = Len(msgs))
<1>1. /\ conn \in [Clients -> {"open", "closing", "closed"}]
      /\ inbox \in [Clients -> Seq(Messages)]
  BY DEF WireOK
<1>2. ASSUME NEW c \in Clients
      PROVE  /\ conn'[c] \in {"open", "closing", "closed"}
             /\ conn'[c] = "closed" <=> conn[c] = "closed"
             /\ conn'[c] = "open" =>
                   conn[c] = "open" /\ (c \in S => Len(Taken(c, msgs)) = Len(msgs))
  <2>1. conn'[c] = IF c \in S /\ conn[c] = "open" /\ Len(Taken(c, msgs)) < Len(msgs)
                   THEN "closing" ELSE conn[c]
    BY DEF Send
  <2>2. Len(Taken(c, msgs)) \in Nat /\ Len(msgs) \in Nat
        /\ Len(Taken(c, msgs)) <= Len(msgs)
    BY TakenIs
  <2> QED
    BY <1>1, <2>1, <2>2
<1>3. ASSUME NEW c \in Clients
      PROVE  /\ inbox'[c] \in Seq(Messages) /\ Len(inbox'[c]) <= MaxQueue
             /\ conn[c] = "closed" => inbox'[c] = <<>>
             /\ \A i \in DOMAIN inbox'[c] : Fits(inbox'[c][i], durable)
  <2> DEFINE taken == Taken(c, msgs)
  <2>1. inbox'[c] = IF c \in S THEN inbox[c] \o taken ELSE inbox[c]
    BY DEF Send
  <2>2. CASE c \notin S
    BY <2>1, <2>2 DEF WireOK
  <2>3. CASE c \in S
    <3>1. /\ taken \in Seq(Messages) /\ Len(taken) \in Nat
          /\ \A i \in 1..Len(taken) : taken[i] = msgs[i] /\ i \in DOMAIN msgs
          /\ conn[c] # "open" => Len(taken) = 0
          /\ Len(inbox[c]) + Len(taken) <= MaxQueue
      BY TakenIs
    <3> HIDE DEF taken
    <3>2. inbox[c] \in Seq(Messages) /\ inbox'[c] = inbox[c] \o taken
      BY <1>1, <2>1, <2>3
    <3>3. /\ inbox'[c] \in Seq(Messages) /\ Len(inbox'[c]) = Len(inbox[c]) + Len(taken)
          /\ \A i \in 1..Len(inbox[c]) : inbox'[c][i] = inbox[c][i]
          /\ \A i \in 1..Len(taken) : inbox'[c][Len(inbox[c]) + i] = taken[i]
          /\ \A i \in 1..(Len(inbox[c]) + Len(taken)) :
               i \in 1..Len(inbox[c]) \/ i - Len(inbox[c]) \in 1..Len(taken)
      BY <3>1, <3>2, ConcatIs
    <3>4. ASSUME NEW i \in DOMAIN inbox'[c] PROVE Fits(inbox'[c][i], durable)
      <4>1. i \in 1..(Len(inbox[c]) + Len(taken))
        BY <3>3
      <4>2. CASE i \in 1..Len(inbox[c])
        BY <3>2, <3>3, <4>2 DEF WireOK
      <4>3. CASE i - Len(inbox[c]) \in 1..Len(taken)
        <5>1. Len(inbox[c]) \in Nat /\ i = Len(inbox[c]) + (i - Len(inbox[c]))
          BY <3>2, <4>1
        <5>2. inbox'[c][i] = msgs[i - Len(inbox[c])] /\ i - Len(inbox[c]) \in DOMAIN msgs
          BY <3>1, <3>3, <4>3, <5>1
        <5> QED
          BY <5>2
      <4> QED
        BY <3>3, <4>1, <4>2, <4>3
    <3>5. conn[c] = "closed" => inbox'[c] = <<>>
      <4>1. conn[c] = "closed" => Len(inbox[c]) = 0
        BY EmptySeq DEF WireOK
      <4> QED
        BY <3>1, <3>3, <4>1
    <3> QED
      BY <3>1, <3>3, <3>4, <3>5
  <2> QED
    BY <2>2, <2>3
<1>4. conn' \in [Clients -> {"open", "closing", "closed"}] /\ inbox' \in [Clients -> Seq(Messages)]
  BY <1>2, <1>3 DEF Send
<1> QED
  BY <1>2, <1>3, <1>4 DEF WireOK

LEMMA SendingOne ==
  ASSUME WireOK, durable' = durable, NEW c \in Clients, NEW m \in Messages, Fits(m, durable),
         Send({c}, <<m>>), requests' \in [Clients -> Seq(Requests)],
         subs' \subseteq Clients, \A d \in subs' : conn[d] # "closed"
  PROVE  /\ WireOK'
         /\ \A d \in Clients :
              /\ conn'[d] = "closed" <=> conn[d] = "closed"
              /\ conn'[d] = "open" => conn[d] = "open"
<1> DEFINE msgs == <<m>>
<1>1. /\ msgs \in Seq(Messages) /\ \A i \in DOMAIN msgs : Fits(msgs[i], durable)
      /\ Send({c}, msgs) /\ {c} \in SUBSET Clients
  OBVIOUS
<1> HIDE DEF msgs
<1> QED
  BY <1>1, Sending

\* A publication: everybody who listens is sent the versions after the last one, as
\* far as the queues go.
LEMMA Delivering ==
  ASSUME WireOK, FedOK, ClientsOK, durable \in Rooms, durable' = durable,
         NEW from \in Nat, NEW to \in 0..MaxVersion, from < to,
         NEW room \in Rooms, Within(room, durable), Deliver(from, to, room),
         requests' = requests, subs' = subs, left' = left, cursor' = to, reading' = None,
         from = IF reading = None THEN cursor ELSE reading, UNCHANGED client
  PROVE  WireOK' /\ FedOK' /\ ClientsOK'
<1> DEFINE msgs == Publication(from, to, room)
           taken(c) == Taken(c, msgs)
           more(c) == [i \in DOMAIN taken(c) |-> from + i]
<1>1. /\ msgs \in Seq(Messages) /\ Len(msgs) = to - from
      /\ \A i \in DOMAIN msgs : msgs[i].room = room /\ msgs[i].type = "event"
  BY PublicationTyped, Zenon
<1>0. \A i \in DOMAIN msgs : Fits(msgs[i], durable)
  BY <1>1 DEF Fits
<1>2. /\ Send(subs, msgs)
      /\ fed' = [c \in Clients |-> IF c \in subs THEN fed[c] \o more(c) ELSE fed[c]]
  BY DEF Deliver
<1>3. /\ subs \in SUBSET Clients /\ \A c \in subs : conn[c] # "closed"
      /\ requests' \in [Clients -> Seq(Requests)]
  BY DEF WireOK
<1>4. /\ WireOK'
      /\ \A c \in Clients :
           /\ conn'[c] = "closed" <=> conn[c] = "closed"
           /\ conn'[c] = "open" =>
                conn[c] = "open" /\ (c \in subs => Len(taken(c)) = Len(msgs))
  BY <1>0, <1>1, <1>2, <1>3, Sending
<1>5. ASSUME NEW c \in Clients
      PROVE  /\ Len(taken(c)) \in Nat /\ DOMAIN taken(c) = 1..Len(taken(c))
             /\ conn[c] # "open" => Len(taken(c)) = 0
  BY <1>1, TakenIs
<1> HIDE DEF msgs, taken
<1>6. ASSUME NEW c \in Clients
      PROVE  /\ more(c) \in Seq(Nat) /\ Len(more(c)) = Len(taken(c))
             /\ \A i \in 1..Len(more(c)) : more(c)[i] = from + i
  BY <1>5
<1> HIDE DEF more
<1>7. ASSUME NEW c \in Clients
      PROVE  /\ fed'[c] \in Seq(Nat)
             /\ \A i \in 1..(Len(fed'[c]) - 1) :
                  /\ fed'[c][i + 1] > fed'[c][i]
                  /\ i \notin left[c] => fed'[c][i + 1] = fed'[c][i] + 1
             /\ left[c] \subseteq 0..Len(fed'[c])
             /\ conn[c] = "closed" => fed'[c] = <<>>
             /\ conn'[c] = "open" /\ fed'[c] # <<>> =>
                  /\ fed'[c][Len(fed'[c])] <= to
                  /\ Len(fed'[c]) \in left[c] \/ (c \in subs /\ fed'[c][Len(fed'[c])] = to)
  <2>1. /\ fed[c] \in Seq(Nat) /\ Len(fed[c]) \in Nat
        /\ \A i \in 1..(Len(fed[c]) - 1) :
             /\ fed[c][i + 1] > fed[c][i]
             /\ i \notin left[c] => fed[c][i + 1] = fed[c][i] + 1
        /\ left[c] \subseteq 0..Len(fed[c])
        /\ conn[c] = "closed" => fed[c] = <<>>
        /\ conn[c] = "open" /\ fed[c] # <<>> =>
             /\ fed[c][Len(fed[c])] <= from
             /\ Len(fed[c]) \in left[c] \/ (c \in subs /\ fed[c][Len(fed[c])] = from)
    BY DEF FedOK, FedIs, EachVersionOnce
  <2>2. CASE c \notin subs
    <3>1. fed'[c] = fed[c] /\ (conn'[c] = "open" => conn[c] = "open")
      BY <1>2, <1>4, <2>2
    <3>2. fed[c] # <<>> => fed[c][Len(fed[c])] \in Nat
      BY <2>1
    <3> QED
      BY <2>1, <2>2, <3>1, <3>2
  <2>3. CASE c \in subs
    <3>1. /\ fed'[c] = fed[c] \o more(c) /\ more(c) \in Seq(Nat) /\ Len(more(c)) \in Nat
          /\ \A i \in 1..Len(more(c)) : more(c)[i] = from + i
          /\ Len(more(c)) # 0 => conn[c] = "open"
          /\ conn'[c] = "open" => conn[c] = "open" /\ Len(more(c)) = to - from
      BY <1>1, <1>2, <1>4, <1>5, <1>6, <2>3
    <3>2. /\ fed'[c] \in Seq(Nat) /\ Len(fed'[c]) = Len(fed[c]) + Len(more(c))
          /\ \A i \in 1..Len(fed[c]) : fed'[c][i] = fed[c][i]
          /\ \A i \in 1..Len(more(c)) : fed'[c][Len(fed[c]) + i] = more(c)[i]
      BY <2>1, <3>1, ConcatIs
    <3>3. ASSUME NEW i \in 1..(Len(fed'[c]) - 1)
          PROVE  /\ fed'[c][i + 1] > fed'[c][i]
                 /\ i \notin left[c] => fed'[c][i + 1] = fed'[c][i] + 1
      <4> DEFINE n == Len(fed[c])
                 m == Len(more(c))
      <4>0. n \in Nat /\ m \in Nat /\ i \in 1..(n + m - 1)
        BY <2>1, <3>1, <3>2
      <4>1. CASE i + 1 <= Len(fed[c])
        <5>1. n \in Nat /\ i \in Nat /\ 1 <= i /\ i + 1 <= n
          BY <4>0, <4>1
        <5> HIDE DEF n
        <5>2. i \in 1..(n - 1) /\ i \in 1..n /\ i + 1 \in 1..n
          BY <5>1
        <5> USE DEF n
        <5>3. fed'[c][i] = fed[c][i] /\ fed'[c][i + 1] = fed[c][i + 1]
          BY <3>2, <5>2
        <5>4. /\ fed[c][i + 1] > fed[c][i]
              /\ i \notin left[c] => fed[c][i + 1] = fed[c][i] + 1
          BY <2>1, <5>2
        <5> QED
          BY <5>3, <5>4
      <4>2. CASE i = Len(fed[c])
        <5>1. fed[c] # <<>> /\ Len(more(c)) # 0 /\ 1 \in 1..Len(more(c))
          BY <2>1, <3>1, <3>2, <4>2, EmptySeq
        <5>2. /\ fed[c][i] <= from /\ (i \notin left[c] => fed[c][i] = from)
              /\ fed'[c][i] = fed[c][i] /\ fed[c][i] \in Nat
          BY <2>1, <3>1, <3>2, <4>2, <5>1
        <5>3. fed'[c][i + 1] = from + 1
          BY <3>1, <3>2, <4>2, <5>1
        <5> QED
          BY <5>2, <5>3
      <4>3. CASE i > Len(fed[c])
        <5> DEFINE j == i - n
        <5>0. i > n
          BY <4>3
        <5> HIDE DEF n, m
        <5>1. j \in 1..m /\ j + 1 \in 1..m /\ i = n + j /\ i + 1 = n + (j + 1)
          BY <4>0, <5>0
        <5> HIDE DEF j
        <5>2. j \in 1..Len(more(c)) /\ j + 1 \in 1..Len(more(c))
              /\ i = Len(fed[c]) + j /\ i + 1 = Len(fed[c]) + (j + 1)
          BY <5>1 DEF n, m
        <5>3. fed'[c][i] = more(c)[j] /\ fed'[c][i + 1] = more(c)[j + 1]
          BY <3>2, <5>2, Zenon
        <5>4. more(c)[j] = from + j /\ more(c)[j + 1] = from + (j + 1)
          BY <3>1, <5>2, Zenon
        <5>5. from + (j + 1) = (from + j) + 1
          BY <4>0, <5>1
        <5>6. fed'[c][i + 1] = fed'[c][i] + 1
          BY <5>3, <5>4, <5>5, Zenon
        <5>7. fed'[c][i] \in Nat
          BY <4>0, <5>1, <5>3, <5>4
        <5> QED
          BY <5>6, <5>7
      <4> QED
        BY <2>1, <4>1, <4>2, <4>3
    <3>4. conn[c] = "closed" => fed'[c] = <<>>
      BY <1>3, <2>3
    <3>5. conn'[c] = "open" => fed'[c][Len(fed'[c])] = to
      <4> SUFFICES ASSUME conn'[c] = "open" PROVE fed'[c][Len(fed'[c])] = to
        OBVIOUS
      <4>1. Len(more(c)) = to - from /\ to - from \in 1..Len(more(c))
        BY <3>1
      <4>2. fed'[c][Len(fed[c]) + (to - from)] = from + (to - from)
        BY <3>1, <3>2, <4>1
      <4> QED
        BY <3>2, <4>1, <4>2
    <3>6. left[c] \subseteq 0..Len(fed'[c])
      BY <2>1, <3>1, <3>2
    <3> QED
      BY <2>3, <3>2, <3>3, <3>4, <3>5, <3>6
  <2> QED
    BY <2>2, <2>3
<1>8. fed' \in [Clients -> Seq(Nat)]
  BY <1>2, <1>7
<1>9. FedOK'
  <2>1. \A c \in Clients : FedIs(c)'
    BY <1>4, <1>7 DEF FedIs
  <2>2. EachVersionOnce'
    BY <1>7 DEF EachVersionOnce
  <2> QED
    BY <1>8, <2>1, <2>2, FeedAssumption DEF FedOK
<1>10. ClientsOK'
  BY <1>4 DEF ClientsOK, ViewIs, client
<1> QED
  BY <1>4, <1>9, <1>10

-----------------------------------------------------------------------------
\* What stays when nothing it speaks of changes, while the stream may grow.
LEMMA WireKept ==
  ASSUME WireOK, durable \in Rooms, durable' \in Rooms, Within(durable, durable'),
         conn' = conn, subs' = subs, inbox' = inbox, requests' \in [Clients -> Seq(Requests)]
  PROVE  WireOK'
<1>1. ASSUME NEW c \in Clients, NEW i \in DOMAIN inbox[c]
      PROVE  Fits(inbox[c][i], durable')
  <2>1. inbox[c][i] \in Messages /\ Fits(inbox[c][i], durable)
    BY DEF WireOK
  <2> QED
    BY <2>1, FitsKept
<1> QED
  BY <1>1 DEF WireOK

LEMMA FedKept ==
  ASSUME FedOK, fed' = fed, left' = left, subs \subseteq subs',
         cursor' = cursor \/ (subs = {} /\ cursor' \in Nat /\ cursor <= cursor'),
         \A c \in Clients : conn'[c] = "closed" => conn[c] = "closed",
         \A c \in Clients : conn'[c] = "open" => conn[c] = "open",
         reading' = reading \/ reading' \in {None, cursor}
  PROVE  FedOK'
<1>1. ASSUME NEW c \in Clients PROVE FedIs(c)'
  <2>1. FedIs(c) /\ fed[c] \in Seq(Nat) /\ cursor \in Nat
    BY DEF FedOK
  <2>2. /\ conn'[c] = "closed" => conn[c] = "closed"
        /\ conn'[c] = "open" => conn[c] = "open"
    OBVIOUS
  <2>3. CASE conn'[c] = "open" /\ fed[c] # <<>>
    <3> DEFINE last == fed[c][Len(fed[c])]
    <3>1. last \in Nat
      BY <2>1, <2>3
    <3>2. /\ last <= cursor /\ (reading # None => last <= reading)
          /\ \/ Len(fed[c]) \in left[c]
             \/ /\ c \in subs /\ last = cursor
                /\ reading # None => reading = cursor
      BY <2>1, <2>2, <2>3 DEF FedIs
    <3>3. left[c] \subseteq 0..Len(fed[c])
      BY <2>1 DEF FedIs
    <3>4. fed'[c][Len(fed'[c])] = last /\ fed'[c] = fed[c] /\ left'[c] = left[c]
      OBVIOUS
    <3> HIDE DEF last
    <3>5. last <= cursor' /\ (reading' # None => last <= reading')
      BY <2>1, <3>1, <3>2
    <3>6. \/ Len(fed[c]) \in left[c]
          \/ /\ c \in subs' /\ last = cursor'
             /\ reading' # None => reading' = cursor'
      BY <2>1, <3>1, <3>2
    <3> QED
      BY <2>3, <3>3, <3>4, <3>5, <3>6 DEF FedIs
  <2>4. CASE ~(conn'[c] = "open" /\ fed[c] # <<>>)
    BY <2>1, <2>2, <2>4 DEF FedIs
  <2> QED
    BY <2>3, <2>4
<1>2. fed' \in [Clients -> Seq(Nat)] /\ left' \in [Clients -> SUBSET Nat]
      /\ EachVersionOnce' /\ cursor' \in Nat
  BY DEF FedOK, EachVersionOnce
<1> QED
  BY <1>1, <1>2 DEF FedOK

LEMMA ClientsKept ==
  ASSUME ClientsOK, durable \in Rooms, durable' \in Rooms, Within(durable, durable'),
         UNCHANGED client, \A c \in Clients : conn'[c] = "closed" <=> conn[c] = "closed"
  PROVE  ClientsOK'
<1>1. ASSUME NEW c \in Clients PROVE ViewIs(c)'
  <2>1. view[c] \in Rooms /\ ViewIs(c)
    BY DEF ClientsOK
  <2>2. given' = given /\ view' = view
    BY DEF client
  <2> QED
    BY <2>1, <2>2, WithinTrans, NearlyTrans DEF ViewIs
<1> QED
  BY <1>1 DEF ClientsOK, client

LEMMA QueueKeep ==
  ASSUME QueuesOK, CursorOK, NEW h \in Handlers, handler[h].step = "answer",
         \A g \in Handlers \ {h} : handler'[g] = handler[g],
         calls' = calls, tail' = tail, reading' = reading, cursor' \in 0..MaxVersion
  PROVE  QueuesOK' /\ CursorOK' /\ (HeadExecuted' <=> HeadExecuted)
<1>1. calls \in Seq(Handlers) /\ tail \in Seq(Handlers)
  BY DEF QueuesOK
<1>2. /\ \A i \in DOMAIN calls : calls[i] \in Handlers \ {h}
      /\ \A i \in DOMAIN tail : tail[i] \in Handlers \ {h}
  BY <1>1 DEF QueuesOK
<1>3. QueuesOK'
  BY <1>2 DEF QueuesOK, Once
<1>4. CursorOK'
  <2>1. tail # <<>> => handler'[Head(tail)] = handler[Head(tail)]
    BY <1>1, <1>2, TailIs
  <2> QED
    BY <2>1 DEF CursorOK
<1>5. HeadExecuted' <=> HeadExecuted
  <2>1. calls # <<>> => handler'[Head(calls)] = handler[Head(calls)]
    BY <1>1, <1>2, TailIs
  <2> QED
    BY <2>1 DEF HeadExecuted
<1> QED
  BY <1>3, <1>4, <1>5

LEMMA StoreKept ==
  ASSUME StoreOK, UNCHANGED <<durable, made, mem>>, HeadExecuted' <=> HeadExecuted
  PROVE  StoreOK'
BY DEF StoreOK, Ahead, Within

LEMMA ServerKept ==
  ASSUME FeedInv, UNCHANGED <<server, tail, reading, cursor>>
  PROVE  StoreOK' /\ HandlersOK' /\ QueuesOK' /\ CursorOK'
<1> USE DEF server, FeedInv
<1>1. HeadExecuted' <=> HeadExecuted
  BY DEF HeadExecuted
<1>2. StoreOK'
  BY <1>1, StoreKept
<1>3. HandlersOK' /\ QueuesOK' /\ CursorOK'
  BY DEF HandlersOK, QueuesOK, CursorOK, Once
<1> QED
  BY <1>2, <1>3

-----------------------------------------------------------------------------
\* The gateway's steps.
LEMMA Finishing ==
  ASSUME FeedInv, NEW h \in Handlers, First(h), Finished(h),
         UNCHANGED <<durable, made, mem, calls, spent>>, reading' = None,
         cursor' \in 0..MaxVersion
  PROVE  StoreOK' /\ HandlersOK' /\ QueuesOK' /\ CursorOK' /\ SpentOK'
<1>1. StoreOK /\ HandlersOK /\ QueuesOK /\ CursorOK /\ SpentOK /\ durable \in Rooms
  BY DEF FeedInv, StoreOK
<1>2. /\ HandlersOK' /\ handler'[h] = Idle
      /\ \A g \in Handlers \ {h} : handler'[g] = handler[g]
  <2>1. Within(durable, durable') /\ Within(Idle.room, durable')
    BY <1>1, WithinSelf, IdleTyped
  <2> QED
    BY <1>1, <2>1, IdleTyped, HandlersSet DEF Finished
<1>3. QueuesOK' /\ CursorOK' /\ (HeadExecuted' <=> HeadExecuted)
  BY <1>1, <1>2, TailLeave DEF First, Finished
<1>4. StoreOK'
  BY <1>1, <1>3, StoreKept
<1>5. SpentOK'
  BY <1>1 DEF SpentOK, spent
<1> QED
  BY <1>2, <1>3, <1>4, <1>5

LEMMA PublishKeeps ==
  ASSUME FeedInv, NEW h \in Handlers, Publishes(h)
  PROVE  FeedInv'
<1>1. /\ StoreOK /\ HandlersOK /\ QueuesOK /\ CursorOK /\ WireOK /\ FedOK /\ ClientsOK /\ SpentOK
      /\ durable \in Rooms /\ Within(durable, durable)
      /\ cursor \in 0..MaxVersion /\ requests \in [Clients -> Seq(Requests)]
  BY WithinSelf DEF FeedInv, StoreOK, CursorOK, WireOK
<1>2. /\ handler[h].target \in 0..MaxVersion /\ handler[h].room \in Rooms
      /\ Within(handler[h].room, durable)
  BY <1>1 DEF HandlersOK, HandlerStates
<1>3. CASE PublishNothing(h) \/ GapFails(h)
  <2>1. /\ First(h) /\ Finished(h) /\ reading' = None
        /\ UNCHANGED <<durable, made, mem, calls, cursor, subs, conn, requests, inbox, fed, left>>
        /\ UNCHANGED client /\ UNCHANGED spent
    BY <1>3 DEF PublishNothing, GapFails, wire
  <2>2. StoreOK' /\ HandlersOK' /\ QueuesOK' /\ CursorOK' /\ SpentOK'
    BY <1>1, <2>1, Finishing
  <2>3. WireOK' /\ FedOK' /\ ClientsOK'
    BY <1>1, <2>1, WireKept, FedKept, ClientsKept
  <2> QED
    BY <2>2, <2>3 DEF FeedInv
<1>4. CASE PublishNext(h) \/ PublishGap(h)
  <2> DEFINE from == IF reading = None THEN cursor ELSE reading
  <2>1. /\ First(h) /\ Finished(h) /\ reading' = None /\ cursor' = handler[h].target
        /\ UNCHANGED <<durable, made, mem, calls, subs, requests, left>>
        /\ UNCHANGED client /\ UNCHANGED spent
        /\ Deliver(from, handler[h].target, handler[h].room)
    BY <1>4 DEF PublishNext, PublishGap
  <2>2. from \in Nat /\ from < handler[h].target
    <3>1. CASE reading = None
      <4>1. handler[h].target = cursor + 1
        BY <1>4, <3>1 DEF PublishNext, PublishGap
      <4> QED
        BY <1>1, <3>1, <4>1
    <3>2. CASE reading # None
      <4>1. Head(tail) = h /\ reading \in Nat /\ reading < handler[h].target - 1
        BY <1>1, <2>1, <3>2 DEF CursorOK, First
      <4> QED
        BY <1>2, <3>2, <4>1
    <3> QED
      BY <3>1, <3>2
  <2>3. StoreOK' /\ HandlersOK' /\ QueuesOK' /\ CursorOK' /\ SpentOK'
    BY <1>1, <1>2, <2>1, Finishing
  <2>4. WireOK' /\ FedOK' /\ ClientsOK'
    <3>1. from = IF reading = None THEN cursor ELSE reading
      OBVIOUS
    <3> HIDE DEF from
    <3> QED
      BY <1>1, <1>2, <2>1, <2>2, <3>1, Delivering
  <2> QED
    BY <2>3, <2>4 DEF FeedInv
<1>5. CASE ReadGap(h)
  <2>1. /\ First(h) /\ reading' = cursor /\ handler[h].target > cursor + 1
        /\ UNCHANGED <<durable, made, mem, calls, handler, tail, cursor, subs,
                        conn, requests, inbox, fed, left>>
        /\ UNCHANGED client /\ UNCHANGED spent
    BY <1>5 DEF ReadGap, server, wire
  <2>2. StoreOK' /\ HandlersOK' /\ QueuesOK'
    <3>1. HeadExecuted' <=> HeadExecuted
      BY <2>1 DEF HeadExecuted
    <3> QED
      BY <1>1, <2>1, <3>1, StoreKept, HandlersKept DEF QueuesOK, Once
  <2>3. CursorOK'
    BY <1>1, <1>2, <2>1 DEF CursorOK, First
  <2>4. WireOK' /\ FedOK' /\ ClientsOK'
    BY <1>1, <2>1, WireKept, FedKept, ClientsKept
  <2> QED
    BY <1>1, <2>1, <2>2, <2>3, <2>4 DEF FeedInv, SpentOK, spent
<1> QED
  BY <1>3, <1>4, <1>5 DEF Publishes

-----------------------------------------------------------------------------
\* The handlers and the actor's queue.
LEMMA Asking ==
  ASSUME requests \in [Clients -> Seq(Requests)], NEW c \in Clients,
         NEW type \in RequestTypes, NEW since \in Nat,
         Ask(c, type, since)
  PROVE  requests' \in [Clients -> Seq(Requests)]
<1>1. Request(type, since) \in Requests
  BY DEF Request, Requests
<1> DEFINE r == Request(type, since)
<1>2. requests' = [requests EXCEPT ![c] = Append(@, r)] /\ r \in Requests
  BY <1>1 DEF Ask
<1> HIDE DEF r
<1>3. Append(requests[c], r) \in Seq(Requests)
  BY <1>2, AppendIs
<1> QED
  BY <1>2, <1>3

LEMMA Begun ==
  ASSUME requests \in [Clients -> Seq(Requests)], NEW c \in Clients, requests[c] # <<>>,
         requests' = [requests EXCEPT ![c] = Tail(@)]
  PROVE  requests' \in [Clients -> Seq(Requests)] /\ Head(requests[c]).since \in Nat
<1>1. Tail(requests[c]) \in Seq(Requests) /\ Head(requests[c]) \in Requests
  BY TailIs
<1> QED
  BY <1>1 DEF Requests

LEMMA Entering ==
  ASSUME FeedInv, NEW h \in Handlers, handler[h] = Idle,
         NEW v \in HandlerStates, v.step \in {"queued", "sync"}, v.room = <<>>,
         h = Timer => ~v.joins, Set(h, v), calls' = Append(calls, h),
         UNCHANGED <<durable, made, mem, tail, reading, cursor, subs, conn, inbox, fed, left>>,
         requests' \in [Clients -> Seq(Requests)], UNCHANGED client, UNCHANGED spent
  PROVE  FeedInv'
<1>1. /\ StoreOK /\ HandlersOK /\ QueuesOK /\ CursorOK /\ WireOK /\ FedOK /\ ClientsOK /\ SpentOK
      /\ durable \in Rooms /\ Within(durable, durable) /\ Within(<<>>, durable)
  BY WithinSelf DEF FeedInv, StoreOK
<1>2. /\ HandlersOK' /\ handler'[h] = v
      /\ \A g \in Handlers \ {h} : handler'[g] = handler[g]
  BY <1>1, HandlersSet
<1>3. QueuesOK' /\ CursorOK' /\ (HeadExecuted' <=> HeadExecuted)
  BY <1>1, <1>2, IdleTyped, QueueEnter
<1>4. StoreOK'
  BY <1>1, <1>3, StoreKept
<1>5. WireOK' /\ FedOK' /\ ClientsOK'
  BY <1>1, WireKept, FedKept, ClientsKept
<1> QED
  BY <1>1, <1>2, <1>3, <1>4, <1>5 DEF FeedInv, SpentOK, spent

LEMMA HandleKeeps ==
  ASSUME FeedInv, NEW c \in Clients, HandleCommand(c) \/ HandleReconnect(c)
  PROVE  FeedInv'
<1>1. /\ requests \in [Clients -> Seq(Requests)] /\ Len(mem) \in Nat
      /\ c \in Handlers /\ c # Timer
  BY FeedAssumption DEF FeedInv, StoreOK, WireOK, Rooms, Handlers
<1>2. CASE HandleCommand(c)
  <2> DEFINE joins == Head(requests[c]).type = "join"
             v == [Idle EXCEPT !.step = "queued", !.joins = joins, !.before = Len(mem)]
  <2>1. joins \in BOOLEAN
    OBVIOUS
  <2>2. v \in HandlerStates /\ v.step = "queued" /\ v.room = <<>>
    <3> HIDE DEF joins
    <3> QED
      BY <1>1, <2>1, IdleTyped DEF HandlerStates, Steps
  <2>3. /\ handler[c] = Idle /\ Set(c, v) /\ calls' = Append(calls, c)
        /\ UNCHANGED <<durable, made, mem, tail, reading, cursor, subs, conn, inbox, fed, left>>
        /\ UNCHANGED client /\ UNCHANGED spent
        /\ requests[c] # <<>> /\ requests' = [requests EXCEPT ![c] = Tail(@)]
    BY <1>2 DEF HandleCommand, feed
  <2>4. requests' \in [Clients -> Seq(Requests)]
    BY <1>1, <2>3, Begun
  <2> HIDE DEF v
  <2> QED
    BY <1>1, <2>2, <2>3, <2>4, Entering
<1>3. CASE HandleReconnect(c)
  <2> DEFINE v == [Idle EXCEPT !.step = "sync", !.since = Head(requests[c]).since]
  <2>1. /\ handler[c] = Idle /\ Set(c, v) /\ calls' = Append(calls, c)
        /\ UNCHANGED <<durable, made, mem, tail, reading, cursor, subs, conn, inbox, fed, left>>
        /\ UNCHANGED client /\ UNCHANGED spent
        /\ requests[c] # <<>> /\ requests' = [requests EXCEPT ![c] = Tail(@)]
    BY <1>3 DEF HandleReconnect, feed
  <2>2. requests' \in [Clients -> Seq(Requests)] /\ Head(requests[c]).since \in Nat
    BY <1>1, <2>1, Begun
  <2>3. v \in HandlerStates /\ v.step = "sync" /\ v.room = <<>>
    BY <2>2, IdleTyped DEF HandlerStates, Steps
  <2> HIDE DEF v
  <2> QED
    BY <1>1, <2>1, <2>2, <2>3, Entering
<1> QED
  BY <1>2, <1>3

LEMMA TimeoutKeeps ==
  ASSUME FeedInv, Timeout
  PROVE  FeedInv'
<1> DEFINE v == [Idle EXCEPT !.step = "queued"]
<1>1. v \in HandlerStates /\ v.step = "queued" /\ v.room = <<>> /\ ~v.joins
  BY IdleTyped DEF HandlerStates, Steps
<1>2. /\ Timer \in Handlers /\ handler[Timer] = Idle /\ Set(Timer, v)
      /\ calls' = Append(calls, Timer)
      /\ UNCHANGED <<durable, made, mem, tail, reading, cursor, subs, conn, inbox, fed, left>>
      /\ UNCHANGED client /\ UNCHANGED spent /\ requests' = requests
  BY DEF Timeout, feed, wire, Handlers
<1>3. requests' \in [Clients -> Seq(Requests)]
  BY <1>2 DEF FeedInv, WireOK
<1> HIDE DEF v
<1> QED
  BY <1>1, <1>2, <1>3, Entering

\* What the command being served finds.
LEMMA ServedIs ==
  ASSUME FeedInv, NEW h \in Handlers, NEW step, Served(h, step)
  PROVE  /\ calls # <<>> /\ h = Head(calls) /\ handler[h].step = step
         /\ HeadExecuted <=> step = "executed"
         /\ step # "executed" => Within(mem, durable)
         /\ step = "executed" => Ahead
BY DEF Served, FeedInv, StoreOK, HeadExecuted

LEMMA ExecuteKeeps ==
  ASSUME FeedInv, NEW h \in Handlers, Execute(h)
  PROVE  FeedInv'
<1>1. /\ StoreOK /\ HandlersOK /\ QueuesOK /\ CursorOK /\ WireOK /\ FedOK /\ ClientsOK /\ SpentOK
      /\ durable \in Rooms /\ Within(durable, durable) /\ requests \in [Clients -> Seq(Requests)]
      /\ Len(durable) \in Nat /\ Len(durable) < MaxVersion /\ made \in Nat
  BY WithinSelf DEF FeedInv, StoreOK, WireOK, Rooms, Execute
<1>2. /\ made' = made + 1 /\ mem' = Append(durable, made')
      /\ UNCHANGED <<durable, calls, tail, reading, cursor, subs, conn, requests, inbox, fed, left>>
      /\ UNCHANGED client /\ UNCHANGED spent
  BY DEF Execute, feed, wire
<1>3. calls # <<>> /\ h = Head(calls)
  BY DEF Execute, Served
<1> DEFINE v == [handler[h] EXCEPT !.step = "executed"]
<1>4. /\ v \in HandlerStates /\ v.step = "executed" /\ Within(v.room, durable)
      /\ h = Timer => ~v.joins
  <2>1. handler[h] \in HandlerStates /\ Within(handler[h].room, durable)
    BY <1>1 DEF HandlersOK
  <2>2. v \in HandlerStates /\ v.step = "executed" /\ v.room = handler[h].room
    BY <2>1 DEF HandlerStates, Steps
  <2>3. v.joins = handler[h].joins
    BY <2>1 DEF HandlerStates
  <2> QED
    BY <1>1, <2>1, <2>2, <2>3 DEF HandlersOK
<1>5. Set(h, v)
  BY DEF Execute
<1> HIDE DEF v
<1>6. /\ HandlersOK' /\ handler'[h] = v
      /\ \A g \in Handlers \ {h} : handler'[g] = handler[g]
  BY <1>1, <1>2, <1>4, <1>5, HandlersSet
<1>7. QueuesOK' /\ CursorOK'
  BY <1>1, <1>2, <1>3, <1>4, <1>6, QueueStep
<1>8. StoreOK'
  <2>1. /\ mem' \in Rooms /\ Len(mem') = Len(durable) + 1
        /\ \A i \in 1..Len(durable) : mem'[i] = durable[i]
    BY <1>1, <1>2, AppendIs DEF Rooms
  <2>2. Len(mem') <= MaxVersion
    BY <1>1, <2>1, FeedAssumption
  <2>3. Ahead'
    BY <1>1, <1>2, <2>1 DEF Ahead
  <2>4. HeadExecuted'
    BY <1>2, <1>3, <1>4, <1>6 DEF HeadExecuted
  <2> QED
    BY <1>1, <1>2, <2>1, <2>2, <2>3, <2>4 DEF StoreOK
<1>9. WireOK' /\ FedOK' /\ ClientsOK'
  BY <1>1, <1>2, WireKept, FedKept, ClientsKept
<1> QED
  BY <1>1, <1>2, <1>6, <1>7, <1>8, <1>9 DEF FeedInv, SpentOK, spent

\* The stream only grows: the room in memory was one event ahead of it.
LEMMA AppendKeeps ==
  ASSUME FeedInv, NEW h \in Handlers, AppendEvents(h)
  PROVE  FeedInv'
<1>1. /\ StoreOK /\ HandlersOK /\ QueuesOK /\ CursorOK /\ WireOK /\ FedOK /\ ClientsOK /\ SpentOK
      /\ durable \in Rooms /\ mem \in Rooms /\ Len(mem) <= MaxVersion
      /\ requests \in [Clients -> Seq(Requests)]
      /\ Len(durable) \in Nat /\ Len(mem) \in Nat
  BY DEF FeedInv, StoreOK, WireOK, Rooms
<1>2. /\ Len(mem) = Len(durable) + 1 /\ durable' = mem
      /\ UNCHANGED <<made, mem, calls, tail, reading, cursor, subs, conn, requests, inbox, fed, left>>
      /\ UNCHANGED client /\ UNCHANGED spent
  BY DEF AppendEvents, feed, wire
<1>3. calls # <<>> /\ h = Head(calls) /\ Ahead
  BY ServedIs DEF AppendEvents
<1>4. Within(durable, durable') /\ durable' \in Rooms /\ Within(durable', durable')
  <2>1. \A i \in 1..Len(durable) : mem[i] = durable[i]
    BY <1>1, <1>2, <1>3 DEF Ahead
  <2> QED
    BY <1>1, <1>2, <2>1, WithinSelf DEF Within
<1> DEFINE v == [handler[h] EXCEPT !.step = "appended"]
<1>5. /\ v \in HandlerStates /\ v.step = "appended" /\ Within(v.room, durable')
      /\ h = Timer => ~v.joins
  <2>1. handler[h] \in HandlerStates /\ Within(handler[h].room, durable)
    BY <1>1 DEF HandlersOK
  <2>2. v \in HandlerStates /\ v.step = "appended" /\ v.room = handler[h].room
    BY <2>1 DEF HandlerStates, Steps
  <2>3. handler[h].room \in Rooms /\ v.joins = handler[h].joins
    BY <2>1 DEF HandlerStates
  <2>4. Within(v.room, durable')
    BY <1>1, <1>4, <2>1, <2>2, <2>3, WithinTrans
  <2> QED
    BY <1>1, <2>2, <2>3, <2>4 DEF HandlersOK
<1>6. Set(h, v)
  BY DEF AppendEvents
<1> HIDE DEF v
<1>7. /\ HandlersOK' /\ handler'[h] = v
      /\ \A g \in Handlers \ {h} : handler'[g] = handler[g]
  BY <1>1, <1>4, <1>5, <1>6, HandlersSet
<1>8. QueuesOK' /\ CursorOK'
  BY <1>1, <1>2, <1>3, <1>5, <1>7, QueueStep
<1>9. StoreOK'
  <2>1. ~HeadExecuted'
    BY <1>2, <1>3, <1>5, <1>7 DEF HeadExecuted
  <2> QED
    BY <1>1, <1>2, <1>4, <2>1 DEF StoreOK
<1>10. WireOK' /\ FedOK' /\ ClientsOK'
  BY <1>1, <1>2, <1>4, WireKept, FedKept, ClientsKept
<1> QED
  BY <1>1, <1>2, <1>7, <1>8, <1>9, <1>10 DEF FeedInv, SpentOK, spent

LEMMA Leaving ==
  ASSUME FeedInv, NEW h \in Handlers, calls # <<>>, h = Head(calls),
         NEW room \in Rooms, Within(room, durable), Leaves(room),
         NEW v \in HandlerStates, Within(v.room, durable), h = Timer => ~v.joins, Set(h, v),
         \/ tail' = tail
         \/ tail' = Append(tail, h) /\ v.step = "publish",
         UNCHANGED <<durable, made, reading>>, cursor' \in 0..MaxVersion
  PROVE  StoreOK' /\ HandlersOK' /\ QueuesOK' /\ CursorOK'
<1>1. /\ StoreOK /\ HandlersOK /\ QueuesOK /\ CursorOK
      /\ durable \in Rooms /\ Within(durable, durable)
  BY WithinSelf DEF FeedInv, StoreOK
<1>2. mem' = room /\ calls' = Tail(calls)
  BY DEF Leaves
<1>3. /\ HandlersOK' /\ handler'[h] = v
      /\ \A g \in Handlers \ {h} : handler'[g] = handler[g]
  BY <1>1, HandlersSet
<1>4. QueuesOK' /\ CursorOK' /\ ~HeadExecuted'
  BY <1>1, <1>2, <1>3, QueueLeave
<1>5. StoreOK'
  <2>1. Len(room) <= MaxVersion /\ Within(mem', durable')
    <3>1. Len(room) \in Nat /\ Len(durable) \in Nat /\ Len(durable) <= MaxVersion
      BY <1>1 DEF Rooms, StoreOK
    <3> QED
      BY <1>2, <3>1, FeedAssumption DEF Within
  <2> QED
    BY <1>1, <1>2, <1>4, <2>1 DEF StoreOK
<1> QED
  BY <1>3, <1>4, <1>5

\* The dispatch is over and nobody hears of it.
LEMMA FailKeeps ==
  ASSUME FeedInv, NEW h \in Handlers, Refuse(h) \/ DispatchFails(h)
  PROVE  FeedInv'
<1>1. /\ durable \in Rooms /\ Within(durable, durable) /\ Within(Idle.room, durable)
      /\ requests \in [Clients -> Seq(Requests)] /\ cursor \in 0..MaxVersion
      /\ WireOK /\ FedOK /\ ClientsOK /\ SpentOK
  BY WithinSelf, IdleTyped DEF FeedInv, StoreOK, WireOK, CursorOK
<1>2. /\ calls # <<>> /\ h = Head(calls) /\ Leaves(durable) /\ Set(h, Idle)
      /\ UNCHANGED <<durable, made, tail, reading, cursor, subs, conn, requests, inbox, fed, left>>
      /\ UNCHANGED client /\ UNCHANGED <<losses, foreign>> /\ (UNCHANGED failures \/ Fail)
  BY DEF Refuse, DispatchFails, Served, feed, wire
<1>3. StoreOK' /\ HandlersOK' /\ QueuesOK' /\ CursorOK'
  BY <1>1, <1>2, IdleTyped, Leaving
<1>4. WireOK' /\ FedOK' /\ ClientsOK'
  BY <1>1, <1>2, WireKept, FedKept, ClientsKept
<1>5. SpentOK'
  BY <1>1, <1>2, FeedAssumption DEF SpentOK, Fail
<1> QED
  BY <1>3, <1>4, <1>5 DEF FeedInv

\* Subscribing moves the cursor only when nobody listens.
LEMMA Subscribing ==
  ASSUME FeedInv, NEW c \in Clients, NEW room \in Rooms, Len(room) <= MaxVersion,
         Subscribe(c, room)
  PROVE  /\ cursor' \in 0..MaxVersion
         /\ cursor' = cursor \/ (subs = {} /\ cursor' \in Nat /\ cursor <= cursor')
         /\ subs \subseteq subs' /\ subs' \subseteq Clients
         /\ \A d \in subs' : conn[d] # "closed"
<1>1. /\ cursor \in 0..MaxVersion /\ Len(room) \in Nat /\ subs \subseteq Clients
      /\ \A d \in subs : conn[d] # "closed"
  BY DEF FeedInv, CursorOK, WireOK, Rooms
<1>2. Larger(cursor, Len(room)) \in 0..MaxVersion /\ cursor <= Larger(cursor, Len(room))
      /\ Larger(cursor, Len(room)) \in Nat
  BY <1>1, FeedAssumption DEF Larger
<1> QED
  BY <1>1, <1>2 DEF Subscribe

LEMMA Announcing ==
  ASSUME FeedInv, NEW h \in Handlers, calls # <<>>, h = Head(calls),
         NEW room \in Rooms, Within(room, durable), Leaves(room),
         NEW version \in 0..Len(durable), Announce(h, version, room),
         UNCHANGED <<durable, made, reading, conn, requests, inbox, fed, left>>,
         UNCHANGED client
  PROVE  /\ StoreOK' /\ HandlersOK' /\ QueuesOK' /\ CursorOK'
         /\ WireOK' /\ FedOK' /\ ClientsOK'
<1>1. /\ durable \in Rooms /\ Within(durable, durable) /\ Within(Idle.room, durable)
      /\ requests \in [Clients -> Seq(Requests)] /\ cursor \in 0..MaxVersion
      /\ WireOK /\ FedOK /\ ClientsOK /\ HandlersOK
      /\ Len(durable) \in Nat /\ Len(durable) <= MaxVersion
  BY WithinSelf, IdleTyped DEF FeedInv, StoreOK, WireOK, CursorOK, Rooms
<1>2. /\ cursor' \in 0..MaxVersion
      /\ cursor' = cursor \/ (subs = {} /\ cursor' \in Nat /\ cursor <= cursor')
      /\ subs \subseteq subs' /\ subs' \subseteq Clients
      /\ \A d \in subs' : conn[d] # "closed"
  <2>1. CASE ~handler[h].joins
    <3>1. UNCHANGED <<cursor, subs>>
      BY <2>1 DEF Announce
    <3> QED
      BY <1>1, <3>1 DEF WireOK
  <2>2. CASE handler[h].joins
    <3>1. h # Timer
      BY <1>1, <2>2, Zenon DEF HandlersOK
    <3>2. h \in Clients /\ Subscribe(h, room)
      BY <2>2, <3>1 DEF Announce, Handlers
    <3>3. Len(room) <= MaxVersion
      BY <1>1, FeedAssumption DEF Within, Rooms
    <3> QED
      BY <3>2, <3>3, Subscribing
  <2> QED
    BY <2>1, <2>2
<1>3. StoreOK' /\ HandlersOK' /\ QueuesOK' /\ CursorOK'
  <2>1. CASE version > handler[h].before
    <3> DEFINE v == [Idle EXCEPT !.step = "publish", !.room = room, !.target = version]
    <3>1. version \in 0..MaxVersion
      BY <1>1, FeedAssumption
    <3>2. v \in HandlerStates /\ v.step = "publish" /\ v.room = room /\ ~v.joins
      BY <3>1, IdleTyped DEF HandlerStates, Steps
    <3>3. Set(h, v) /\ tail' = Append(tail, h)
      BY <2>1 DEF Announce
    <3> HIDE DEF v
    <3> QED
      BY <1>1, <1>2, <3>2, <3>3, Leaving
  <2>2. CASE ~(version > handler[h].before)
    <3>1. Set(h, Idle) /\ tail' = tail
      BY <2>2 DEF Announce
    <3> QED
      BY <1>1, <1>2, <3>1, IdleTyped, Leaving
  <2> QED
    BY <2>1, <2>2
<1>4. WireOK'
  <2>1. \A c \in Clients : conn[c] = "closed" => c \notin subs'
    BY <1>2
  <2> QED
    BY <1>1, <1>2, <2>1 DEF WireOK
<1>5. FedOK' /\ ClientsOK'
  BY <1>1, <1>2, FedKept, ClientsKept
<1> QED
  BY <1>3, <1>4, <1>5

LEMMA AnswerKeeps ==
  ASSUME FeedInv, NEW h \in Handlers, Answer(h) \/ AnswerAgain(h)
  PROVE  FeedInv'
<1>1. /\ durable \in Rooms /\ mem \in Rooms /\ Within(durable, durable) /\ SpentOK
      /\ Len(durable) \in Nat /\ Len(mem) \in Nat
  BY WithinSelf DEF FeedInv, StoreOK, Rooms
<1>2. calls # <<>> /\ h = Head(calls) /\ Within(mem, durable)
  BY ServedIs DEF Answer, AnswerAgain
<1>3. /\ UNCHANGED <<durable, made, reading, conn, requests, inbox, fed, left>>
      /\ UNCHANGED client /\ UNCHANGED <<losses, foreign>> /\ (UNCHANGED failures \/ Fail)
  BY DEF Answer, AnswerAgain, wire, spent
<1>4. SpentOK'
  BY <1>1, <1>3, FeedAssumption DEF SpentOK, Fail
<1>5. PICK room \in {durable, mem}, version \in 0..Len(durable) :
        Leaves(room) /\ Announce(h, version, room)
  <2>1. CASE Answer(h)
    <3> DEFINE room == IF h = Timer THEN durable ELSE mem
    <3>1. Leaves(room) /\ Announce(h, Len(mem), mem') /\ mem' = room
      BY <2>1 DEF Answer, Leaves
    <3>2. Len(mem) \in 0..Len(durable)
      BY <1>1, <1>2 DEF Within
    <3>3. Leaves(room) /\ Announce(h, Len(mem), room)
      BY <3>1
    <3>4. room \in {durable, mem}
      OBVIOUS
    <3> HIDE DEF room
    <3> QED
      BY <3>2, <3>3, <3>4
  <2>2. CASE AnswerAgain(h)
    <3>1. Leaves(mem) /\ \E v \in 1..Len(durable) : Announce(h, v, mem)
      BY <2>2 DEF AnswerAgain
    <3>2. 1..Len(durable) \subseteq 0..Len(durable)
      BY <1>1
    <3> QED
      BY <3>1, <3>2, Zenon
  <2> QED
    BY <2>1, <2>2
<1>6. room \in Rooms /\ Within(room, durable)
  BY <1>1, <1>2
<1>7. /\ StoreOK' /\ HandlersOK' /\ QueuesOK' /\ CursorOK'
      /\ WireOK' /\ FedOK' /\ ClientsOK'
  BY <1>2, <1>3, <1>5, <1>6, Announcing
<1> QED
  BY <1>4, <1>7 DEF FeedInv

\* A reconnect.
LEMMA SyncDispatchKeeps ==
  ASSUME FeedInv, NEW c \in Clients, SyncDispatch(c)
  PROVE  FeedInv'
<1>1. /\ durable \in Rooms /\ Within(durable, durable)
      /\ requests \in [Clients -> Seq(Requests)] /\ cursor \in 0..MaxVersion
      /\ HandlersOK /\ WireOK /\ FedOK /\ ClientsOK /\ SpentOK
      /\ c \in Handlers /\ c # Timer
  BY WithinSelf, FeedAssumption DEF FeedInv, StoreOK, WireOK, CursorOK, Handlers
<1> DEFINE v == [handler[c] EXCEPT !.step = "answer", !.room = durable]
<1>2. /\ calls # <<>> /\ c = Head(calls) /\ Leaves(durable) /\ Set(c, v)
      /\ UNCHANGED <<durable, made, tail, reading, cursor, subs, conn, requests, inbox, fed, left>>
      /\ UNCHANGED client /\ UNCHANGED spent
  BY DEF SyncDispatch, Served, feed, wire
<1>3. v \in HandlerStates /\ v.step = "answer" /\ v.room = durable
  <2>1. handler[c] \in HandlerStates
    BY <1>1 DEF HandlersOK
  <2> QED
    BY <1>1, <2>1 DEF HandlerStates, Steps
<1> HIDE DEF v
<1>4. StoreOK' /\ HandlersOK' /\ QueuesOK' /\ CursorOK'
  BY <1>1, <1>2, <1>3, Leaving
<1>5. WireOK' /\ FedOK' /\ ClientsOK'
  BY <1>1, <1>2, WireKept, FedKept, ClientsKept
<1> QED
  BY <1>1, <1>2, <1>4, <1>5 DEF FeedInv, SpentOK, spent

\* A handler that is in no queue is done.
LEMMA Answered ==
  ASSUME FeedInv, NEW c \in Clients, handler[c].step = "answer", Set(c, Idle),
         UNCHANGED <<durable, made, mem, calls, tail, reading>>, cursor' \in 0..MaxVersion
  PROVE  StoreOK' /\ HandlersOK' /\ QueuesOK' /\ CursorOK'
<1>1. /\ StoreOK /\ HandlersOK /\ QueuesOK /\ CursorOK /\ c \in Handlers
      /\ durable \in Rooms /\ Within(durable, durable) /\ Within(Idle.room, durable)
  BY WithinSelf, IdleTyped DEF FeedInv, StoreOK, Handlers
<1>2. HandlersOK' /\ \A g \in Handlers \ {c} : handler'[g] = handler[g]
  BY <1>1, IdleTyped, HandlersSet
<1>3. QueuesOK' /\ CursorOK' /\ (HeadExecuted' <=> HeadExecuted)
  BY <1>1, <1>2, QueueKeep
<1> QED
  BY <1>1, <1>2, <1>3, StoreKept

LEMMA SyncAnswerKeeps ==
  ASSUME FeedInv, NEW c \in Clients, SyncAnswer(c)
  PROVE  FeedInv'
<1>1. /\ durable \in Rooms /\ Within(durable, durable) /\ mem \in Rooms /\ Len(mem) <= MaxVersion
      /\ requests \in [Clients -> Seq(Requests)]
      /\ HandlersOK /\ WireOK /\ FedOK /\ ClientsOK /\ SpentOK
      /\ c \in Handlers
  BY WithinSelf DEF FeedInv, StoreOK, WireOK, Handlers
<1>2. /\ handler[c].step = "answer" /\ Subscribe(c, mem) /\ Set(c, Idle)
      /\ UNCHANGED <<durable, made, mem, calls, tail, reading, requests, fed, left>>
      /\ UNCHANGED client /\ UNCHANGED spent
  BY DEF SyncAnswer
<1>3. PICK missed \in BOOLEAN : Send({c}, <<Sync(handler[c].room, missed)>>)
  <2>1. PICK through \in Len(handler[c].room)..Len(durable) :
          Send({c}, <<Sync(handler[c].room, through > handler[c].since)>>)
    BY DEF SyncAnswer
  <2>2. (through > handler[c].since) \in BOOLEAN
    OBVIOUS
  <2> DEFINE missed == through > handler[c].since
  <2>3. missed \in BOOLEAN /\ Send({c}, <<Sync(handler[c].room, missed)>>)
    BY <2>1, <2>2
  <2> HIDE DEF missed
  <2> QED
    BY <2>3
<1>4. /\ cursor' \in 0..MaxVersion
      /\ cursor' = cursor \/ (subs = {} /\ cursor' \in Nat /\ cursor <= cursor')
      /\ subs \subseteq subs' /\ subs' \subseteq Clients
      /\ \A d \in subs' : conn[d] # "closed"
  BY <1>1, <1>2, Subscribing
<1>5. StoreOK' /\ HandlersOK' /\ QueuesOK' /\ CursorOK'
  BY <1>2, <1>4, Answered
<1> DEFINE m == Sync(handler[c].room, missed)
<1>6. m \in Messages /\ Fits(m, durable)
  <2>1. handler[c].room \in Rooms /\ Within(handler[c].room, durable)
    BY <1>1 DEF HandlersOK, HandlerStates
  <2>2. Len(handler[c].room) <= MaxVersion
    <3>1. Len(handler[c].room) \in Nat /\ Len(durable) \in Nat /\ Len(durable) <= MaxVersion
      BY <1>1, <2>1 DEF Rooms, FeedInv, StoreOK
    <3> QED
      BY <2>1, <3>1, FeedAssumption DEF Within
  <2>3. m \in Messages /\ m.room = handler[c].room /\ m.type = "sync"
    BY <2>1, <2>2, SyncTyped
  <2> QED
    BY <2>1, <2>3 DEF Fits
<1>7. Send({c}, <<m>>)
  BY <1>3
<1> HIDE DEF m
<1>9. /\ WireOK'
      /\ \A d \in Clients :
           /\ conn'[d] = "closed" <=> conn[d] = "closed"
           /\ conn'[d] = "open" => conn[d] = "open"
  BY <1>1, <1>2, <1>4, <1>6, <1>7, SendingOne
<1>10. FedOK' /\ ClientsOK'
  BY <1>1, <1>2, <1>4, <1>9, FedKept, ClientsKept
<1> QED
  BY <1>1, <1>2, <1>5, <1>9, <1>10 DEF FeedInv, SpentOK, spent

\* The room in memory is durable, or but for its last event.
LEMMA MemoryNearly ==
  ASSUME FeedInv
  PROVE  mem \in Rooms /\ durable \in Rooms /\ Len(mem) <= MaxVersion /\ Nearly(mem, durable)
<1>1. mem \in Rooms /\ durable \in Rooms /\ Len(mem) <= MaxVersion
  BY DEF FeedInv, StoreOK
<1>2. Ahead => Nearly(mem, durable)
  BY <1>1 DEF Ahead, Nearly, Rooms
<1>3. Within(mem, durable) => Nearly(mem, durable)
  BY <1>1, WithinNearly
<1> QED
  BY <1>1, <1>2, <1>3 DEF FeedInv, StoreOK

LEMMA ShowsKeeps ==
  ASSUME FeedInv, NEW c \in Clients, NEW request, NEW type \in {"subscribed", "created"},
         Shows(c, request, type)
  PROVE  FeedInv'
<1>1. /\ durable \in Rooms /\ Within(durable, durable) /\ mem \in Rooms /\ Len(mem) <= MaxVersion
      /\ requests \in [Clients -> Seq(Requests)]
      /\ StoreOK /\ HandlersOK /\ QueuesOK /\ CursorOK /\ WireOK /\ FedOK /\ ClientsOK /\ SpentOK
      /\ Nearly(mem, durable)
  BY WithinSelf, MemoryNearly DEF FeedInv, WireOK
<1>2. /\ Subscribe(c, mem) /\ requests[c] # <<>>
      /\ requests' = [requests EXCEPT ![c] = Tail(@)]
      /\ UNCHANGED <<durable, made, mem, calls, handler, tail, reading, fed, left>>
      /\ UNCHANGED client /\ UNCHANGED spent
  BY DEF Shows, server
<1>3. requests' \in [Clients -> Seq(Requests)]
  BY <1>1, <1>2, Begun
<1>4. /\ cursor' \in 0..MaxVersion
      /\ cursor' = cursor \/ (subs = {} /\ cursor' \in Nat /\ cursor <= cursor')
      /\ subs \subseteq subs' /\ subs' \subseteq Clients
      /\ \A d \in subs' : conn[d] # "closed"
  BY <1>1, <1>2, Subscribing
<1>5. StoreOK' /\ HandlersOK' /\ QueuesOK' /\ CursorOK'
  <2>1. HeadExecuted' <=> HeadExecuted
    BY <1>2 DEF HeadExecuted
  <2>2. HandlersOK'
    BY <1>1, <1>2, HandlersKept
  <2>3. StoreOK'
    BY <1>1, <1>2, <2>1, StoreKept
  <2> QED
    BY <1>1, <1>2, <1>4, <2>2, <2>3 DEF QueuesOK, CursorOK, Once
<1> DEFINE m == Shown(type)
<1>6. m \in Messages /\ Fits(m, durable)
  <2>1. m \in Messages /\ m.room = mem /\ m.type = type
    BY <1>1, ShownTyped DEF MessageTypes
  <2> QED
    BY <1>1, <2>1 DEF Fits
<1>7. Send({c}, <<m>>)
  BY DEF Shows
<1> HIDE DEF m
<1>8. /\ WireOK'
      /\ \A d \in Clients :
           /\ conn'[d] = "closed" <=> conn[d] = "closed"
           /\ conn'[d] = "open" => conn[d] = "open"
  BY <1>1, <1>2, <1>3, <1>4, <1>6, <1>7, SendingOne
<1>9. FedOK' /\ ClientsOK'
  BY <1>1, <1>2, <1>4, <1>8, FedKept, ClientsKept
<1> QED
  BY <1>1, <1>2, <1>5, <1>8, <1>9 DEF FeedInv, SpentOK, spent

\* The socket is sent nothing more, and it is remembered after which version.
LEMMA RefreshKeeps ==
  ASSUME FeedInv, NEW c \in Clients, HandleRefresh(c)
  PROVE  FeedInv'
<1>1. /\ durable \in Rooms /\ Within(durable, durable)
      /\ requests \in [Clients -> Seq(Requests)]
      /\ WireOK /\ FedOK /\ ClientsOK /\ SpentOK
  BY WithinSelf DEF FeedInv, StoreOK, WireOK
<1>2. /\ requests[c] # <<>> /\ requests' = [requests EXCEPT ![c] = Tail(@)]
      /\ subs' = subs \ {c} /\ left' = [left EXCEPT ![c] = @ \cup {Len(fed[c])}]
      /\ Send({c}, <<Refreshed>>)
      /\ UNCHANGED <<server, tail, reading, cursor, durable, fed>>
      /\ UNCHANGED client /\ UNCHANGED spent
  BY DEF HandleRefresh, server
<1>3. requests' \in [Clients -> Seq(Requests)]
  BY <1>1, <1>2, Begun
<1>4. subs' \subseteq Clients /\ \A d \in subs' : conn[d] # "closed"
  BY <1>1, <1>2 DEF WireOK
<1>5. StoreOK' /\ HandlersOK' /\ QueuesOK' /\ CursorOK'
  BY <1>2, ServerKept
<1>6. Refreshed \in Messages /\ Fits(Refreshed, durable)
  <2>1. Nearly(<<>>, durable) /\ Refreshed.room = <<>> /\ Refreshed.type = "refreshed"
    BY <1>1, WithinSelf, WithinNearly, RefreshedTyped
  <2> QED
    BY <2>1, RefreshedTyped DEF Fits
<1>7. /\ WireOK'
      /\ \A d \in Clients :
           /\ conn'[d] = "closed" <=> conn[d] = "closed"
           /\ conn'[d] = "open" => conn[d] = "open"
  <2> DEFINE m == Refreshed
  <2>1. m \in Messages /\ Fits(m, durable) /\ Send({c}, <<m>>)
    BY <1>2, <1>6
  <2> HIDE DEF m
  <2> QED
    BY <1>1, <1>2, <1>3, <1>4, <2>1, SendingOne
<1>8. FedOK'
  <2>1. fed \in [Clients -> Seq(Nat)] /\ left \in [Clients -> SUBSET Nat] /\ Len(fed[c]) \in Nat
    BY <1>1 DEF FedOK
  <2>2. /\ left' \in [Clients -> SUBSET Nat] /\ left'[c] = left[c] \cup {Len(fed[c])}
        /\ \A d \in Clients \ {c} : left'[d] = left[d]
    BY <1>2, <2>1
  <2>3. EachVersionOnce'
    BY <1>1, <1>2, <2>1, <2>2 DEF FedOK, EachVersionOnce
  <2>4. FedIs(c) /\ FedIs(c)'
    <3>1. FedIs(c)
      BY <1>1 DEF FedOK
    <3>2. Len(fed'[c]) \in left'[c] /\ left'[c] \subseteq 0..Len(fed'[c])
      BY <1>2, <2>1, <2>2, <3>1 DEF FedIs
    <3>3. /\ conn'[c] = "closed" => conn[c] = "closed"
          /\ conn'[c] = "open" => conn[c] = "open"
      BY <1>7
    <3> QED
      BY <1>2, <3>1, <3>2, <3>3 DEF FedIs
  <2>5. ASSUME NEW d \in Clients \ {c} PROVE FedIs(d)'
    <3>1. FedIs(d)
      BY <1>1 DEF FedOK
    <3>2. /\ conn'[d] = "closed" => conn[d] = "closed"
          /\ conn'[d] = "open" => conn[d] = "open"
      BY <1>7
    <3>3. d \in subs' <=> d \in subs
      BY <1>2
    <3> QED
      BY <1>2, <2>2, <3>1, <3>2, <3>3 DEF FedIs
  <2> QED
    BY <1>1, <1>2, <2>1, <2>2, <2>3, <2>4, <2>5 DEF FedOK
<1>9. ClientsOK'
  BY <1>1, <1>2, <1>7, ClientsKept
<1> QED
  BY <1>1, <1>2, <1>5, <1>7, <1>8, <1>9 DEF FeedInv, SpentOK, spent

LEMMA SyncFailsKeeps ==
  ASSUME FeedInv, NEW c \in Clients, SyncFails(c)
  PROVE  FeedInv'
<1>1. /\ durable \in Rooms /\ Within(durable, durable) /\ Within(Idle.room, durable)
      /\ requests \in [Clients -> Seq(Requests)] /\ cursor \in 0..MaxVersion
      /\ WireOK /\ FedOK /\ ClientsOK /\ SpentOK /\ c \in Handlers
  BY WithinSelf, IdleTyped DEF FeedInv, StoreOK, WireOK, CursorOK, Handlers
<1>2. /\ Fail /\ Set(c, Idle)
      /\ UNCHANGED <<durable, made, tail, reading, cursor, subs, conn, requests, inbox, fed, left>>
      /\ UNCHANGED client /\ UNCHANGED <<losses, foreign>>
  BY DEF SyncFails, feed, wire
<1>3. StoreOK' /\ HandlersOK' /\ QueuesOK' /\ CursorOK'
  <2>1. CASE Served(c, "sync") /\ Leaves(durable)
    BY <1>1, <1>2, <2>1, IdleTyped, Leaving DEF Served
  <2>2. CASE handler[c].step = "answer" /\ UNCHANGED <<mem, calls>>
    BY <1>1, <1>2, <2>2, Answered
  <2> QED
    BY <2>1, <2>2 DEF SyncFails
<1>4. WireOK' /\ FedOK' /\ ClientsOK'
  BY <1>1, <1>2, WireKept, FedKept, ClientsKept
<1>5. SpentOK'
  BY <1>1, <1>2, FeedAssumption DEF SpentOK, Fail
<1> QED
  BY <1>3, <1>4, <1>5 DEF FeedInv

\* An event appended elsewhere extends the stream, and the room in memory only
\* when no command is half done.
LEMMA ForeignKeeps ==
  ASSUME FeedInv, Foreign
  PROVE  FeedInv'
<1>1. /\ StoreOK /\ HandlersOK /\ QueuesOK /\ CursorOK /\ WireOK /\ FedOK /\ ClientsOK /\ SpentOK
      /\ durable \in Rooms /\ mem \in Rooms /\ requests \in [Clients -> Seq(Requests)]
      /\ Len(durable) \in Nat /\ Len(durable) < MaxVersion /\ made \in Nat
      /\ Len(mem) \in Nat /\ Len(mem) <= MaxVersion
  BY DEF FeedInv, StoreOK, WireOK, Rooms, Foreign
<1>2. /\ made' = made + 1 /\ durable' = Append(durable, made')
      /\ UNCHANGED <<calls, handler, tail, reading, cursor, subs, conn, requests, inbox, fed, left>>
      /\ UNCHANGED client /\ UNCHANGED <<losses, failures>>
  BY DEF Foreign, feed, wire
<1>3. /\ durable' \in Rooms /\ Within(durable, durable') /\ Len(durable') = Len(durable) + 1
      /\ \A i \in 1..Len(durable) : durable'[i] = durable[i]
  BY <1>1, <1>2, WithinAppend DEF Within
<1>4. HandlersOK' /\ QueuesOK' /\ CursorOK' /\ (HeadExecuted' <=> HeadExecuted)
  <2>1. HandlersOK'
    BY <1>1, <1>2, <1>3, HandlersKept
  <2> QED
    BY <1>1, <1>2, <2>1 DEF QueuesOK, CursorOK, Once, HeadExecuted
<1>5. StoreOK'
  <2>1. Len(durable') <= MaxVersion /\ made' \in Nat
    BY <1>1, <1>2, <1>3, FeedAssumption
  <2>2. CASE mem' = mem
    <3>1. ASSUME HeadExecuted PROVE Ahead'
      <4>1. Len(mem) \in 1..(Len(durable) + 1) /\ \A i \in 1..(Len(mem) - 1) : durable[i] = mem[i]
        BY <1>1, <3>1 DEF StoreOK, Ahead
      <4>2. \A i \in 1..(Len(mem) - 1) : i \in 1..Len(durable)
        BY <1>1, <4>1
      <4>3. Len(mem) \in 1..(Len(durable') + 1)
        BY <1>1, <1>3, <4>1
      <4> QED
        BY <1>3, <2>2, <4>1, <4>2, <4>3 DEF Ahead
    <3>2. ASSUME ~HeadExecuted PROVE Within(mem', durable')
      <4>1. Within(mem, durable)
        BY <1>1, <3>2 DEF StoreOK
      <4> QED
        BY <1>1, <1>3, <2>2, <4>1, WithinTrans
    <3> QED
      BY <1>1, <1>3, <1>4, <2>1, <2>2, <3>1, <3>2 DEF StoreOK
  <2>3. CASE /\ \A i \in DOMAIN calls : handler[calls[i]].step \in {"queued", "sync"}
             /\ mem' = durable'
    <3>1. ~HeadExecuted
      <4>1. calls # <<>> => 1 \in DOMAIN calls /\ Head(calls) = calls[1]
        BY <1>1, TailIs DEF QueuesOK
      <4> QED
        BY <2>3, <4>1 DEF HeadExecuted
    <3>2. Within(mem', durable')
      BY <1>3, <2>3, WithinSelf
    <3> QED
      BY <1>3, <1>4, <2>1, <2>3, <3>1, <3>2 DEF StoreOK
  <2> QED
    BY <2>2, <2>3 DEF Foreign
<1>6. WireOK' /\ FedOK' /\ ClientsOK'
  BY <1>1, <1>2, <1>3, WireKept, FedKept, ClientsKept
<1>7. SpentOK'
  BY <1>1, <1>2, FeedAssumption DEF SpentOK, Foreign
<1> QED
  BY <1>4, <1>5, <1>6, <1>7 DEF FeedInv

-----------------------------------------------------------------------------
\* The clients.
LEMMA Synchronising ==
  ASSUME requests \in [Clients -> Seq(Requests)], waiting \in [Clients -> Nat \cup {None}],
         ver \in [Clients -> -1..MaxVersion], NEW c \in Clients,
         Reconnects(c) \/ ReconnectsAgain(c)
  PROVE  requests' \in [Clients -> Seq(Requests)] /\ waiting' \in [Clients -> Nat \cup {None}]
<1>1. CASE Reconnects(c)
  <2> DEFINE since == Larger(0, ver[c])
  <2>1. since \in Nat
    BY FeedAssumption DEF Larger
  <2>2. Ask(c, "reconnect", since) /\ waiting' = [waiting EXCEPT ![c] = since]
    BY <1>1 DEF Reconnects
  <2> HIDE DEF since
  <2> QED
    BY <2>1, <2>2, Asking DEF RequestTypes
<1>2. CASE ReconnectsAgain(c)
  <2>1. waiting[c] \in Nat /\ Ask(c, "reconnect", waiting[c]) /\ waiting' = waiting
    BY <1>2 DEF ReconnectsAgain
  <2> QED
    BY <2>1, Asking DEF RequestTypes
<1> QED
  BY <1>1, <1>2

LEMMA AskKeeps ==
  ASSUME FeedInv, NEW c \in Clients,
         \/ SendCommand(c) \/ SendSubscribe(c) \/ SendRefresh(c)
         \/ Resync(c) \/ Resend(c)
  PROVE  FeedInv'
<1>1. /\ durable \in Rooms /\ Within(durable, durable)
      /\ requests \in [Clients -> Seq(Requests)] /\ waiting \in [Clients -> Nat \cup {None}]
      /\ ver \in [Clients -> -1..MaxVersion]
      /\ WireOK /\ FedOK /\ ClientsOK /\ SpentOK
  BY WithinSelf DEF FeedInv, StoreOK, WireOK, ClientsOK
<1>2. /\ UNCHANGED <<server, tail, reading, cursor, subs, conn, inbox, fed, left>>
      /\ UNCHANGED <<durable, ver, view, given, failures, foreign>>
  BY DEF SendCommand, SendSubscribe, SendRefresh, SendSession, Resync, Resend, feed, server, client, spent
<1>3. /\ requests' \in [Clients -> Seq(Requests)] /\ waiting' \in [Clients -> Nat \cup {None}]
      /\ \/ phase' = phase
         \/ conn[c] = "open" /\ phase' = [phase EXCEPT ![c] = "syncing"]
      /\ UNCHANGED losses \/ Lose
  <2>1. CASE SendCommand(c)
    <3>1. /\ Ask(c, IF known[c] THEN "command" ELSE "join", 0)
          /\ UNCHANGED <<waiting, phase, losses>>
      BY <2>1 DEF SendCommand, client, spent
    <3>2. (IF known[c] THEN "command" ELSE "join") \in RequestTypes /\ 0 \in Nat
      BY DEF RequestTypes
    <3> DEFINE type == IF known[c] THEN "command" ELSE "join"
    <3>3. type \in RequestTypes /\ Ask(c, type, 0)
      BY <3>1, <3>2
    <3> HIDE DEF type
    <3> QED
      BY <1>1, <3>1, <3>3, Asking
  <2>2. CASE Resync(c)
    BY <1>1, <2>2, Synchronising DEF Resync
  <2>3. CASE Resend(c)
    <3>1. ReconnectsAgain(c) /\ UNCHANGED <<phase, losses>>
      BY <2>3 DEF Resend, spent
    <3> QED
      BY <1>1, <3>1, Synchronising
  <2>4. CASE SendSubscribe(c) \/ SendRefresh(c)
    <3>1. PICK type \in {"subscribe", "refresh"} : SendSession(c, type)
      BY <2>4 DEF SendSubscribe, SendRefresh
    <3>2. Ask(c, type, 0) /\ UNCHANGED <<waiting, phase>> /\ Lose
      BY <3>1 DEF SendSession, client
    <3>3. type \in RequestTypes /\ 0 \in Nat
      BY DEF RequestTypes
    <3> QED
      BY <1>1, <3>2, <3>3, Asking
  <2> QED
    BY <2>1, <2>2, <2>3, <2>4
<1>4. StoreOK' /\ HandlersOK' /\ QueuesOK' /\ CursorOK'
  BY <1>2, ServerKept
<1>5. WireOK' /\ FedOK'
  BY <1>1, <1>2, <1>3, WireKept, FedKept
<1>6. ClientsOK'
  BY <1>1, <1>2, <1>3 DEF ClientsOK, ViewIs
<1>7. SpentOK'
  BY SMTT(30), <1>1, <1>2, <1>3, FeedAssumption DEF SpentOK, Lose
<1> QED
  BY <1>4, <1>5, <1>6, <1>7 DEF FeedInv

\* A message is taken off the socket.
LEMMA Receiving ==
  ASSUME WireOK, UNCHANGED <<durable, conn, subs>>, NEW c \in Clients,
         inbox[c] # <<>>, inbox' = [inbox EXCEPT ![c] = Tail(@)],
         requests' \in [Clients -> Seq(Requests)]
  PROVE  /\ WireOK' /\ conn[c] # "closed"
         /\ Head(inbox[c]).ver \in 0..MaxVersion
         /\ Head(inbox[c]).room \in Rooms /\ Fits(Head(inbox[c]), durable)
<1>1. inbox \in [Clients -> Seq(Messages)] /\ inbox[c] \in Seq(Messages) /\ MaxQueue \in Nat
  BY FeedAssumption DEF WireOK
<1>2. /\ Len(inbox[c]) \in Nat \ {0} /\ Head(inbox[c]) = inbox[c][1]
      /\ Head(inbox[c]) \in Messages /\ 1 \in DOMAIN inbox[c]
      /\ Tail(inbox[c]) \in Seq(Messages) /\ Len(Tail(inbox[c])) = Len(inbox[c]) - 1
      /\ DOMAIN Tail(inbox[c]) = 1..(Len(inbox[c]) - 1)
      /\ \A i \in 1..(Len(inbox[c]) - 1) :
           Tail(inbox[c])[i] = inbox[c][i + 1] /\ i + 1 \in DOMAIN inbox[c]
  BY <1>1, TailIs
<1>3. /\ inbox' \in [Clients -> Seq(Messages)] /\ inbox'[c] = Tail(inbox[c])
      /\ \A d \in Clients \ {c} : inbox'[d] = inbox[d]
  BY <1>1, <1>2
<1>4. conn[c] # "closed"
  BY DEF WireOK
<1>5. ASSUME NEW d \in Clients
      PROVE  /\ Len(inbox'[d]) <= MaxQueue
             /\ conn[d] = "closed" => inbox'[d] = <<>>
             /\ \A i \in DOMAIN inbox'[d] : Fits(inbox'[d][i], durable)
  <2>1. CASE d = c
    <3>1. Len(inbox[c]) <= MaxQueue /\ \A i \in DOMAIN inbox[c] : Fits(inbox[c][i], durable)
      BY DEF WireOK
    <3>2. Len(inbox'[c]) <= MaxQueue
      BY <1>1, <1>2, <1>3, <3>1
    <3>3. \A i \in DOMAIN inbox'[c] : Fits(inbox'[c][i], durable)
      BY <1>2, <1>3, <3>1
    <3> QED
      BY <1>4, <2>1, <3>2, <3>3
  <2>2. CASE d # c
    BY <1>3, <2>2 DEF WireOK
  <2> QED
    BY <2>1, <2>2
<1>6. WireOK'
  BY <1>3, <1>5 DEF WireOK
<1>7. Fits(Head(inbox[c]), durable)
  BY <1>2 DEF WireOK
<1> QED
  BY <1>2, <1>4, <1>6, <1>7 DEF Messages

LEMMA ReceiveKeeps ==
  ASSUME FeedInv, NEW c \in Clients, Receives(c)
  PROVE  FeedInv'
<1>1. /\ durable \in Rooms /\ Within(durable, durable)
      /\ requests \in [Clients -> Seq(Requests)] /\ waiting \in [Clients -> Nat \cup {None}]
      /\ ver \in [Clients -> -1..MaxVersion] /\ view \in [Clients -> Rooms]
      /\ phase \in [Clients -> {"online", "syncing", "disconnected"}]
      /\ WireOK /\ FedOK /\ ClientsOK /\ SpentOK
  BY WithinSelf DEF FeedInv, StoreOK, WireOK, ClientsOK
<1> DEFINE m == Head(inbox[c])
<1>2. /\ inbox[c] # <<>> /\ inbox' = [inbox EXCEPT ![c] = Tail(@)]
      /\ UNCHANGED <<server, tail, reading, cursor, subs, conn, fed, left, durable>>
      /\ UNCHANGED spent
  BY DEF Receives, ReceiveEvent, ReceiveSync, ReceiveCreated, ReceiveSubscribed,
         ReceiveRefreshed, Received, feed, server
<1>3. /\ requests' \in [Clients -> Seq(Requests)] /\ waiting' \in [Clients -> Nat \cup {None}]
      /\ \/ UNCHANGED <<ver, view, given>>
         \/ /\ ver' = [ver EXCEPT ![c] = m.ver] /\ view' = [view EXCEPT ![c] = m.room]
            /\ \/ m.type \in {"event", "sync"} /\ given' = given \ {c}
               \/ m.type = "created" /\ given' = given \cup {c}
      /\ \/ phase' = phase
         \/ phase' = [phase EXCEPT ![c] = "syncing"]
         \/ phase' = [phase EXCEPT ![c] = "online"]
  <2>1. CASE ReceiveEvent(c)
    <3>1. CASE UNCHANGED <<requests, phase, waiting>>
      BY <1>1, <2>1, <3>1 DEF ReceiveEvent, Received
    <3>2. CASE /\ phase' = [phase EXCEPT ![c] = "syncing"]
               /\ Reconnects(c) /\ UNCHANGED <<ver, view, given>>
      BY <1>1, <3>2, Synchronising
    <3> QED
      BY <2>1, <3>1, <3>2 DEF ReceiveEvent
  <2>2. CASE ReceiveSync(c)
    <3>1. waiting' = [waiting EXCEPT ![c] = None] /\ requests' = requests
      BY <2>2 DEF ReceiveSync
    <3>2. waiting' \in [Clients -> Nat \cup {None}]
      BY <1>1, <3>1
    <3> QED
      BY <1>1, <2>2, <3>1, <3>2 DEF ReceiveSync, Received
  <2>3. CASE ReceiveCreated(c)
    BY <1>1, <2>3 DEF ReceiveCreated, Received
  <2>4. CASE ReceiveSubscribed(c) \/ ReceiveRefreshed(c)
    BY <1>1, <2>4 DEF ReceiveSubscribed, ReceiveRefreshed, client
  <2> QED
    BY <2>1, <2>2, <2>3, <2>4 DEF Receives
<1>4. /\ WireOK' /\ conn[c] # "closed" /\ m.ver \in 0..MaxVersion
      /\ m.room \in Rooms /\ Fits(m, durable)
  BY <1>1, <1>2, <1>3, Receiving
<1> HIDE DEF m
<1>5. StoreOK' /\ HandlersOK' /\ QueuesOK' /\ CursorOK'
  BY <1>2, ServerKept
<1>6. FedOK'
  BY <1>1, <1>2, FedKept
<1>7. ver' \in [Clients -> -1..MaxVersion] /\ view' \in [Clients -> Rooms]
  <2>1. m.ver \in -1..MaxVersion
    BY <1>4, FeedAssumption
  <2> QED
    BY <1>1, <1>3, <1>4, <2>1
<1>8. \A d \in Clients : ViewIs(d)'
  <2>1. CASE UNCHANGED <<ver, view, given>>
    BY <1>1, <1>2, <2>1 DEF ClientsOK, ViewIs
  <2>2. CASE /\ view' = [view EXCEPT ![c] = m.room]
             /\ \/ m.type \in {"event", "sync"} /\ given' = given \ {c}
                \/ m.type = "created" /\ given' = given \cup {c}
    <3>1. view'[c] = m.room /\ \A d \in Clients \ {c} : view'[d] = view[d]
      BY <1>1, <2>2
    <3>2. ViewIs(c)'
      BY <1>2, <1>4, <2>2, <3>1 DEF ViewIs, Fits
    <3>3. \A d \in Clients \ {c} : ViewIs(d)'
      BY <1>1, <1>2, <2>2, <3>1 DEF ClientsOK, ViewIs
    <3> QED
      BY <3>2, <3>3
  <2> QED
    BY <1>3, <2>1, <2>2
<1>9. /\ phase' \in [Clients -> {"online", "syncing", "disconnected"}]
      /\ \A d \in Clients : phase'[d] = "disconnected" <=> conn[d] = "closed"
  BY <1>1, <1>3, <1>4 DEF ClientsOK
<1>10. ClientsOK'
  BY <1>2, <1>3, <1>7, <1>8, <1>9 DEF ClientsOK
<1> QED
  BY <1>1, <1>2, <1>4, <1>5, <1>6, <1>10 DEF FeedInv, SpentOK, spent

\* A connection ends with all that was on its way.
LEMMA DisconnectKeeps ==
  ASSUME FeedInv, NEW c \in Clients, Disconnect(c)
  PROVE  FeedInv'
<1>1. /\ WireOK /\ FedOK /\ ClientsOK /\ SpentOK
  BY DEF FeedInv
<1>2. /\ conn' = [conn EXCEPT ![c] = "closed"] /\ subs' = subs \ {c}
      /\ requests' = [requests EXCEPT ![c] = <<>>] /\ inbox' = [inbox EXCEPT ![c] = <<>>]
      /\ fed' = [fed EXCEPT ![c] = <<>>] /\ left' = [left EXCEPT ![c] = {}]
      /\ phase' = [phase EXCEPT ![c] = "disconnected"]
      /\ UNCHANGED <<server, tail, reading, cursor, durable>>
      /\ UNCHANGED <<waiting, ver, view, given, failures, foreign>> /\ (UNCHANGED losses \/ Lose)
  BY DEF Disconnect, server
<1>3. StoreOK' /\ HandlersOK' /\ QueuesOK' /\ CursorOK'
  BY <1>2, ServerKept
<1>4. WireOK'
  <2>1. /\ conn' \in [Clients -> {"open", "closing", "closed"}] /\ subs' \subseteq Clients
        /\ requests' \in [Clients -> Seq(Requests)] /\ inbox' \in [Clients -> Seq(Messages)]
    BY <1>1, <1>2, EmptySeq DEF WireOK
  <2>2. ASSUME NEW d \in Clients
        PROVE  /\ Len(inbox'[d]) <= MaxQueue
               /\ conn'[d] = "closed" => d \notin subs' /\ inbox'[d] = <<>>
               /\ \A i \in DOMAIN inbox'[d] : Fits(inbox'[d][i], durable')
    <3>1. CASE d = c
      BY <1>1, <1>2, <3>1, EmptySeq, FeedAssumption DEF WireOK
    <3>2. CASE d # c
      BY <1>1, <1>2, <3>2 DEF WireOK
    <3> QED
      BY <3>1, <3>2
  <2> QED
    BY <2>1, <2>2 DEF WireOK
<1>5. FedOK'
  <2>1. /\ fed' \in [Clients -> Seq(Nat)] /\ fed'[c] = <<>>
        /\ left' \in [Clients -> SUBSET Nat] /\ left'[c] = {} /\ conn'[c] = "closed"
        /\ \A d \in Clients \ {c} :
             fed'[d] = fed[d] /\ left'[d] = left[d] /\ conn'[d] = conn[d]
    BY <1>1, <1>2, EmptySeq DEF FedOK, WireOK
  <2>2. EachVersionOnce'
    <3>1. 1..(Len(fed'[c]) - 1) = {}
      BY <2>1, EmptySeq
    <3> QED
      BY <1>1, <2>1, <3>1 DEF FedOK, EachVersionOnce
  <2>3. \A d \in Clients \ {c} : FedIs(d)'
    BY <1>1, <1>2, <2>1 DEF FedOK, FedIs
  <2>4. FedIs(c)'
    BY <2>1 DEF FedIs
  <2> QED
    BY <1>1, <1>2, <2>1, <2>2, <2>3, <2>4 DEF FedOK
<1>6. ClientsOK'
  BY <1>1, <1>2 DEF ClientsOK, ViewIs, WireOK, server
<1>7. SpentOK'
  BY <1>1, <1>2, FeedAssumption DEF SpentOK, Lose
<1> QED
  BY <1>3, <1>4, <1>5, <1>6, <1>7 DEF FeedInv

LEMMA ConnectKeeps ==
  ASSUME FeedInv, NEW c \in Clients, Connect(c)
  PROVE  FeedInv'
<1>1. /\ WireOK /\ FedOK /\ ClientsOK /\ SpentOK
      /\ requests \in [Clients -> Seq(Requests)] /\ waiting \in [Clients -> Nat \cup {None}]
      /\ ver \in [Clients -> -1..MaxVersion]
  BY DEF FeedInv, WireOK, ClientsOK
<1>2. /\ conn[c] = "closed" /\ conn' = [conn EXCEPT ![c] = "open"]
      /\ UNCHANGED <<server, tail, reading, cursor, durable, subs, inbox, fed, left, given>>
      /\ UNCHANGED <<ver, view>> /\ UNCHANGED spent
      /\ \/ phase' = [phase EXCEPT ![c] = "syncing"] /\ (Reconnects(c) \/ ReconnectsAgain(c))
         \/ phase' = [phase EXCEPT ![c] = "online"] /\ UNCHANGED <<requests, waiting>>
  BY DEF Connect, server, feed
<1>3. requests' \in [Clients -> Seq(Requests)] /\ waiting' \in [Clients -> Nat \cup {None}]
  BY <1>1, <1>2, Synchronising
<1>4. StoreOK' /\ HandlersOK' /\ QueuesOK' /\ CursorOK'
  BY <1>2, ServerKept
<1>5. WireOK'
  BY <1>1, <1>2, <1>3 DEF WireOK
<1>6. FedOK'
  <2>1. fed[c] = <<>>
    BY <1>1, <1>2 DEF FedOK, FedIs
  <2>2. ASSUME NEW d \in Clients PROVE FedIs(d)'
    <3>1. FedIs(d) /\ conn \in [Clients -> {"open", "closing", "closed"}]
      BY <1>1 DEF FedOK, WireOK
    <3>2. CASE d = c
      <4>1. fed'[c] = <<>> /\ left'[c] \subseteq 0..Len(fed'[c])
        BY <1>2, <2>1, <3>1, <3>2 DEF FedIs
      <4> QED
        BY <3>2, <4>1 DEF FedIs
    <3>3. CASE d # c
      <4>1. conn'[d] = conn[d]
        BY <1>2, <3>1, <3>3
      <4> QED
        BY <1>2, <3>1, <4>1 DEF FedIs
    <3> QED
      BY <3>2, <3>3
  <2> QED
    BY <1>1, <1>2, <2>2 DEF FedOK, EachVersionOnce
<1>7. ClientsOK'
  BY <1>1, <1>2, <1>3 DEF ClientsOK, ViewIs, WireOK
<1> QED
  BY <1>1, <1>2, <1>4, <1>5, <1>6, <1>7 DEF FeedInv, SpentOK, spent

-----------------------------------------------------------------------------
LEMMA NextKeeps == FeedInv /\ [Next]_vars => FeedInv'
<1> SUFFICES ASSUME FeedInv, [Next]_vars PROVE FeedInv'
  OBVIOUS
<1>1. ASSUME NEW h \in Handlers, Publishes(h) PROVE FeedInv'
  BY <1>1, PublishKeeps
<1>2. ASSUME NEW h \in Handlers, Dispatches(h) PROVE FeedInv'
  BY <1>2, ExecuteKeeps, FailKeeps, AppendKeeps, AnswerKeeps DEF Dispatches
<1>3. ASSUME NEW c \in Clients, Handles(c) PROVE FeedInv'
  BY <1>3, HandleKeeps, ShowsKeeps, RefreshKeeps, SyncDispatchKeeps, SyncAnswerKeeps, SyncFailsKeeps
     DEF Handles, HandleSubscribe, HandleCreate
<1>4. ASSUME NEW c \in Clients, Receives(c) PROVE FeedInv'
  BY <1>4, ReceiveKeeps
<1>5. ASSUME NEW c \in Clients,
             \/ SendCommand(c) \/ SendSubscribe(c) \/ SendRefresh(c)
             \/ Resync(c) \/ Resend(c) \/ Disconnect(c) \/ Connect(c)
      PROVE  FeedInv'
  BY <1>5, AskKeeps, DisconnectKeeps, ConnectKeeps
<1>6. CASE Timeout \/ Foreign
  BY <1>6, TimeoutKeeps, ForeignKeeps
<1>7. CASE UNCHANGED vars
  <2>1. /\ UNCHANGED <<server, tail, reading, cursor, subs, conn, inbox, fed, left, requests, durable>>
        /\ UNCHANGED client /\ UNCHANGED spent
    BY <1>7 DEF vars, server, feed, wire
  <2>2. StoreOK' /\ HandlersOK' /\ QueuesOK' /\ CursorOK'
    BY <2>1, ServerKept
  <2>3. /\ WireOK /\ FedOK /\ ClientsOK /\ SpentOK
        /\ durable \in Rooms /\ Within(durable, durable) /\ requests \in [Clients -> Seq(Requests)]
    BY WithinSelf DEF FeedInv, StoreOK, WireOK
  <2>4. WireOK' /\ FedOK' /\ ClientsOK'
    BY <2>1, <2>3, WireKept, FedKept, ClientsKept
  <2> QED
    BY <2>1, <2>2, <2>3, <2>4 DEF FeedInv, SpentOK, spent
<1> QED
  BY <1>1, <1>2, <1>3, <1>4, <1>5, <1>6, <1>7 DEF Next

LEMMA FeedInvHolds == Spec => []FeedInv
BY InitFeedInv, NextKeeps, PTL DEF Spec

\* The feed keeps its types and bounds whatever the clients, losses and versions: a
\* handler in the actor's queue is at a step of its dispatch, a waiting publication
\* is one, the first reads only across a gap, sockets subscribed are not closed, and
\* no outgoing queue is longer than WS_MAX_QUEUE_MESSAGES.
THEOREM FeedTyped == Spec => []TypeOK
<1>1. FeedInv => TypeOK
  <2> SUFFICES ASSUME FeedInv PROVE TypeOK
    OBVIOUS
  <2>1. durable \in Rooms /\ mem \in Rooms /\ made \in Nat
    BY DEF FeedInv, StoreOK
  <2>2. /\ \A i \in DOMAIN calls :
             handler[calls[i]].step \in {"queued", "executed", "appended", "sync"}
        /\ \A i \in DOMAIN tail : handler[tail[i]].step = "publish"
    BY DEF FeedInv, QueuesOK
  <2>3. /\ cursor \in 0..MaxVersion
        /\ reading # None => tail # <<>> /\ reading < handler[Head(tail)].target - 1
    BY DEF FeedInv, CursorOK
  <2>4. /\ subs \subseteq {c \in Clients : conn[c] # "closed"}
        /\ \A c \in Clients : Len(inbox[c]) <= MaxQueue
    BY DEF FeedInv, WireOK
  <2>5. \A c \in Clients : /\ ver[c] \in -1..MaxVersion
                           /\ phase[c] = "disconnected" <=> conn[c] = "closed"
    BY DEF FeedInv, ClientsOK
  <2>6. \A c \in Clients : left[c] \subseteq 0..Len(fed[c])
    BY DEF FeedInv, FedOK, FedIs
  <2> QED
    BY <2>1, <2>2, <2>3, <2>4, <2>5, <2>6 DEF TypeOK, FeedInv, SpentOK
<1> QED
  BY <1>1, FeedInvHolds, PTL

\* A room that an event or the answer to a reconnect shows was durable once, and so is
\* the room of a client unless a create gave it: although a handler executes on the
\* room in memory before the append, what it hands to the gateway is the room after the
\* append, or the one restored from the store, and the stream only grows.  What a
\* subscribe or a create sent again is shown, whenever that comes, is at most one event
\* ahead, since the actor's queue executes one command at a time.
THEOREM OnlyDurableShownHolds == Spec => []OnlyDurableShown
<1>1. FeedInv => OnlyDurableShown
  <2> SUFFICES ASSUME FeedInv PROVE OnlyDurableShown
    OBVIOUS
  <2>1. durable \in Rooms
    BY DEF FeedInv, StoreOK
  <2>2. ASSUME NEW c \in Clients
        PROVE  IF c \in given THEN NearlyDurable(view[c]) ELSE Prefix(view[c], durable)
    <3>1. view[c] \in Rooms /\ ViewIs(c)
      BY DEF FeedInv, ClientsOK
    <3> QED
      BY <2>1, <3>1, PrefixWithin, NearlyIs DEF ViewIs
  <2>3. ASSUME NEW c \in Clients, NEW i \in DOMAIN inbox[c]
        PROVE  IF inbox[c][i].type \in {"event", "sync"}
               THEN Prefix(inbox[c][i].room, durable)
               ELSE NearlyDurable(inbox[c][i].room)
    <3>1. inbox[c][i] \in Messages /\ Fits(inbox[c][i], durable)
      BY DEF FeedInv, WireOK
    <3>2. inbox[c][i].room \in Rooms
      BY <3>1 DEF Messages
    <3> QED
      BY <2>1, <3>1, <3>2, PrefixWithin, NearlyIs DEF Fits
  <2> QED
    BY <2>2, <2>3 DEF OnlyDurableShown
<1> QED
  BY <1>1, FeedInvHolds, PTL

\* Over one connection event versions come once and in order, whichever handlers
\* publish, whatever gap is read meanwhile, and whoever subscribes, is taken off the
\* room or is cut off: publications are served in turn, each begins where the last one
\* ended, and a socket that missed one is closed before the next, or was not listening.
THEOREM EachVersionOnceHolds == Spec => []EachVersionOnce
<1>1. FeedInv => EachVersionOnce
  BY DEF FeedInv, FedOK
<1> QED
  BY <1>1, FeedInvHolds, PTL
===============================================================================
