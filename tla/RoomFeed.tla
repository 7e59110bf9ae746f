------------------------------- MODULE RoomFeed -------------------------------
(***************************************************************************)
(* How the events of one room reach its players: the RealtimeGateway of a  *)
(* server process (subscriptions, the last version broadcast, a queue of   *)
(* publications, bounded sockets), the command handlers of server.js that  *)
(* feed it, and the Dart clients that apply events, notice gaps and        *)
(* synchronise.                                                            *)
(*                                                                         *)
(* A room is the sequence of the events that made it, so that a room that  *)
(* was never durable differs from the durable one of the same version.     *)
(* The actor's queue is kept, its pipeline (RoomActor.tla) is reduced to:  *)
(* execute on the aggregate in memory, append, answer -- or fail on the    *)
(* way.  Replaced are: a player's connections by one at a time, the        *)
(* handshake by one step, acknowledgements by nothing unless they show a   *)
(* room.                                                                   *)
(***************************************************************************)
EXTENDS Integers, Sequences, FiniteSets

CONSTANTS
  Clients,
  Creator,      \* the client that made the room
  Timer,        \* the deadline scheduler, which dispatches commands of its own
  None,
  MaxVersion,   \* bound: events of the room
  MaxQueue,     \* WS_MAX_QUEUE_MESSAGES
  MaxLosses,    \* bound: connections lost, and requests nobody needed
  MaxFailures,  \* bound: calls that fail, and commands sent again
  MaxForeign,   \* bound: events that REST commands or other processes append
  MaxTrouble    \* bound: the three together

ASSUME FeedAssumption ==
  /\ Creator \in Clients /\ Timer \notin Clients /\ None \notin Nat
  /\ MaxVersion \in Nat /\ MaxQueue \in Nat \ {0}
  /\ {MaxLosses, MaxFailures, MaxForeign, MaxTrouble} \subseteq Nat

VARIABLES
  durable,      \* the event stream in the store
  made,         \* events made so far, durable or not; names the next one
  mem,          \* the aggregate in memory
  calls,        \* the actor's queue; its head is being served
  handler,      \* what the server does for each client, and for the timer
  tail,         \* the publications waiting for their turn
  reading,      \* the version after which the first of them reads, or None
  cursor,       \* broadcastVersions
  subs,         \* the open sockets subscribed
  ghost,        \* whether a closed socket is subscribed
  conn,         \* per client: "open", "closing" (by backpressure) or "closed"
  requests,     \* per client: what it sent and the server has not begun
  inbox,        \* per client: what it was sent and has not received
  fed,          \* per client: the event versions sent over its connection
  left,         \* history, per client: after how many of them it ceased to listen
  phase,        \* per client: "online", "syncing" or "disconnected"
  known,        \* per client: whether it knows its room
  waiting,      \* per client: the version its unanswered reconnect gives, or None
  ver, view,    \* per client: the version and the room it has
  given,        \* history: the clients whose room the answer to a create gave
  losses, failures, foreign

server == <<durable, made, mem, calls, handler>>
feed == <<tail, reading, cursor, subs, ghost>>
wire == <<conn, requests, inbox, fed, left>>
client == <<phase, known, waiting, ver, view, given>>
spent == <<losses, failures, foreign>>
vars == <<server, feed, wire, client, spent>>

Handlers == Clients \cup {Timer}
Idle == [step |-> "idle", joins |-> FALSE, before |-> 0, since |-> 0,
         room |-> <<>>, target |-> 0]

Larger(i, j) == IF i > j THEN i ELSE j
Smaller(i, j) == IF i < j THEN i ELSE j
Prefix(s, t) == Len(s) <= Len(t) /\ SubSeq(t, 1, Len(s)) = s

Request(type, since) == [type |-> type, since |-> since]

Trouble == losses + failures + foreign < MaxTrouble
Lose == Trouble /\ losses < MaxLosses /\ losses' = losses + 1
Fail == Trouble /\ failures < MaxFailures /\ failures' = failures + 1

\* The room was just made.  Its creator, who has the answer or will know it from what
\* follows, may have sent the command again before.
Init ==
  /\ durable = <<>> /\ made = 0 /\ mem = <<>> /\ calls = <<>>
  /\ handler = [h \in Handlers |-> Idle]
  /\ tail = <<>> /\ reading = None /\ cursor = 0
  /\ subs = {Creator} /\ ghost = FALSE
  /\ conn = [c \in Clients |-> "open"]
  /\ inbox = [c \in Clients |-> <<>>]
  /\ fed = [c \in Clients |-> <<>>] /\ left = [c \in Clients |-> {}]
  /\ phase = [c \in Clients |-> "online"]
  /\ known = [c \in Clients |-> c = Creator]
  /\ waiting = [c \in Clients |-> None]
  /\ ver = [c \in Clients |-> IF c = Creator THEN 0 ELSE -1]
  /\ view = [c \in Clients |-> <<>>] /\ given = {Creator}
  /\ losses = 0 /\ foreign = 0
  /\ \/ failures = 0 /\ requests = [c \in Clients |-> <<>>]
     \/ /\ failures = 1 /\ MaxFailures > 0 /\ MaxTrouble > 0
        /\ requests = [c \in Clients |-> IF c = Creator THEN <<Request("create", 0)>> ELSE <<>>]

Set(h, value) == handler' = [handler EXCEPT ![h] = value]

-----------------------------------------------------------------------------
\* The gateway: subscribing and sending.

\* Mutant: the gateway lists the room's sockets itself and never forgets a closed one.
SubscribeClosed(c, room) ==
  /\ cursor' = IF subs = {} THEN Larger(cursor, Len(room)) ELSE cursor
  /\ subs' = subs \cup {c}
  /\ UNCHANGED ghost

\* The first listener moves the cursor up to the room in memory.
Subscribe(c, room) ==
  /\ cursor' = IF subs = {} /\ ~ghost THEN Larger(cursor, Len(room)) ELSE cursor
  /\ subs' = IF conn[c] = "closed" THEN subs ELSE subs \cup {c}
  /\ ghost' = (ghost \/ conn[c] = "closed")

\* What of msgs an open socket takes before its queue is full.
Taken(c, msgs) ==
  IF conn[c] = "open"
  THEN SubSeq(msgs, 1, Smaller(Len(msgs), MaxQueue - Len(inbox[c])))
  ELSE <<>>

\* Whoever cannot take it all is closed.
Send(S, msgs) ==
  /\ inbox' = [c \in Clients |->
                 IF c \in S THEN inbox[c] \o Taken(c, msgs) ELSE inbox[c]]
  /\ conn' = [c \in Clients |->
                 IF c \in S /\ conn[c] = "open" /\ Len(Taken(c, msgs)) < Len(msgs)
                 THEN "closing" ELSE conn[c]]

Event(v, room) == [type |-> "event", ver |-> v, room |-> room, missed |-> FALSE]
Sync(room, missed) ==
  [type |-> "sync", ver |-> Len(room), room |-> room, missed |-> missed]

\* What a subscribe or a create that was sent again is answered with.
Shown(type) == [type |-> type, ver |-> Len(mem), room |-> mem, missed |-> FALSE]
Refreshed == [type |-> "refreshed", ver |-> 0, room |-> <<>>, missed |-> FALSE]

\* Events from+1 .. to, each with the room of the publication.
Publication(from, to, room) == [i \in 1..(to - from) |-> Event(from + i, room)]

Deliver(from, to, room) ==
  LET msgs == Publication(from, to, room)
  IN  /\ Send(subs, msgs)
      /\ fed' = [c \in Clients |->
                   IF c \in subs
                   THEN fed[c] \o [i \in DOMAIN Taken(c, msgs) |-> from + i]
                   ELSE fed[c]]

-----------------------------------------------------------------------------
\* Publications are served in turn.  _broadcastNow begins by comparing the
\* version with the cursor: nothing to do, or the next one, or a gap to read.
Finished(h) == tail' = Tail(tail) /\ Set(h, Idle)

First(h) == tail # <<>> /\ Head(tail) = h

PublishNothing(h) ==
  /\ First(h) /\ reading = None
  /\ handler[h].target <= cursor
  /\ Finished(h)
  /\ UNCHANGED <<durable, made, mem, calls, reading, cursor, subs, ghost, wire,
                 client, spent>>

PublishNext(h) ==
  /\ First(h) /\ reading = None
  /\ handler[h].target = cursor + 1
  /\ Deliver(cursor, handler[h].target, handler[h].room)
  /\ cursor' = handler[h].target
  /\ Finished(h)
  /\ UNCHANGED <<durable, made, mem, calls, reading, subs, ghost, requests, left, client,
                 spent>>

ReadGap(h) ==
  /\ First(h) /\ reading = None
  /\ handler[h].target > cursor + 1
  /\ reading' = cursor
  /\ UNCHANGED <<server, tail, cursor, subs, ghost, wire, client, spent>>

\* Mutant: a gap is noticed, and its last event published alone.
PublishGapLatest(h) ==
  /\ First(h) /\ reading # None
  /\ Deliver(handler[h].target - 1, handler[h].target, handler[h].room)
  /\ cursor' = handler[h].target
  /\ reading' = None
  /\ Finished(h)
  /\ UNCHANGED <<durable, made, mem, calls, subs, ghost, requests, left, client, spent>>

\* The events were read; they go to whoever listens now, and the cursor is set
\* whatever became of it meanwhile.
PublishGap(h) ==
  /\ First(h) /\ reading # None
  /\ Deliver(reading, handler[h].target, handler[h].room)
  /\ cursor' = handler[h].target
  /\ reading' = None
  /\ Finished(h)
  /\ UNCHANGED <<durable, made, mem, calls, subs, ghost, requests, left, client,
                 spent>>

\* The read failed: logged, and nothing is published.  (Not among MaxFailures: a
\* gap takes a failure or a foreign event already.)
GapFails(h) ==
  /\ First(h) /\ reading # None
  /\ reading' = None
  /\ Finished(h)
  /\ UNCHANGED <<durable, made, mem, calls, cursor, subs, ghost, wire, client, spent>>

-----------------------------------------------------------------------------
\* The handlers of server.js, one request of a client at a time, and the actor's
\* queue.  A handler that publishes waits for its publication.

HandleCommand(c) ==
  /\ requests[c] # <<>> /\ Head(requests[c]).type \in {"join", "command"}
  /\ handler[c] = Idle
  /\ Set(c, [Idle EXCEPT !.step = "queued",
                         !.joins = Head(requests[c]).type = "join",
                         !.before = Len(mem)])
  /\ calls' = Append(calls, c)
  /\ requests' = [requests EXCEPT ![c] = Tail(@)]
  /\ UNCHANGED <<durable, made, mem, feed, conn, inbox, fed, left, client, spent>>

HandleReconnect(c) ==
  /\ requests[c] # <<>> /\ Head(requests[c]).type = "reconnect"
  /\ handler[c] = Idle
  /\ Set(c, [Idle EXCEPT !.step = "sync", !.since = Head(requests[c]).since])
  /\ calls' = Append(calls, c)
  /\ requests' = [requests EXCEPT ![c] = Tail(@)]
  /\ UNCHANGED <<durable, made, mem, feed, conn, inbox, fed, left, client, spent>>

\* A subscribe is answered with the room in memory, whatever is being done to it; so
\* is a create that was sent again, whose result is found.
Shows(c, request, answer) ==
  /\ requests[c] # <<>> /\ Head(requests[c]).type = request
  /\ handler[c] = Idle
  /\ Subscribe(c, mem)
  /\ Send({c}, <<Shown(answer)>>)
  /\ requests' = [requests EXCEPT ![c] = Tail(@)]
  /\ UNCHANGED <<server, tail, reading, fed, left, client, spent>>

HandleSubscribe(c) == Shows(c, "subscribe", "subscribed")
HandleCreate(c) == Shows(c, "create", "created")

\* A refresh, a login or an auth takes the socket out of the player's connections and
\* adds it again; its subscriptions end, as they do with an unsubscribe.
HandleRefresh(c) ==
  /\ requests[c] # <<>> /\ Head(requests[c]).type = "refresh"
  /\ handler[c] = Idle
  /\ subs' = subs \ {c}
  /\ left' = [left EXCEPT ![c] = @ \cup {Len(fed[c])}]
  /\ Send({c}, <<Refreshed>>)
  /\ requests' = [requests EXCEPT ![c] = Tail(@)]
  /\ UNCHANGED <<server, tail, reading, cursor, ghost, fed, client, spent>>

\* The scheduler dispatches a timeout; what it made is published in any case.
Timeout ==
  /\ handler[Timer] = Idle
  /\ Len(durable) < MaxVersion
  /\ Set(Timer, [Idle EXCEPT !.step = "queued"])
  /\ calls' = Append(calls, Timer)
  /\ UNCHANGED <<durable, made, mem, feed, wire, client, spent>>

Served(h, step) == calls # <<>> /\ Head(calls) = h /\ handler[h].step = step

\* The dispatch of h is over, and the room in memory is this one.
Leaves(room) == mem' = room /\ calls' = Tail(calls)

\* The room is rebuilt from the store and the command executed on it.
Execute(h) ==
  /\ Served(h, "queued")
  /\ Len(durable) < MaxVersion
  /\ made' = made + 1
  /\ mem' = Append(durable, made')
  /\ Set(h, [handler[h] EXCEPT !.step = "executed"])
  /\ UNCHANGED <<durable, calls, feed, wire, client, spent>>

\* The room refuses the command, or it is not served at all.
Refuse(h) ==
  /\ Served(h, "queued")
  /\ \/ Len(durable) = MaxVersion /\ UNCHANGED failures
     \/ Fail
  /\ Leaves(durable)
  /\ Set(h, Idle)
  /\ UNCHANGED <<durable, made, feed, wire, client, losses, foreign>>

\* The append is conditional on the version.
AppendEvents(h) ==
  /\ Served(h, "executed")
  /\ Len(mem) = Len(durable) + 1
  /\ durable' = mem
  /\ Set(h, [handler[h] EXCEPT !.step = "appended"])
  /\ UNCHANGED <<made, mem, calls, feed, wire, client, spent>>

\* The append or a later call fails: the room in memory is restored, the caller
\* gets an error, and nothing is published, not even what is durable.
DispatchFails(h) ==
  /\ Served(h, "executed") \/ Served(h, "appended")
  /\ \/ handler[h].step = "executed" /\ Len(mem) # Len(durable) + 1 /\ UNCHANGED failures
     \/ Fail
  /\ Leaves(durable)
  /\ Set(h, Idle)
  /\ UNCHANGED <<durable, made, feed, wire, client, losses, foreign>>

\* The answer: a join subscribes, and an event newer than the room this handler
\* began with is handed to the gateway, with the room as it is.
Announce(h, version, room) ==
  /\ IF handler[h].joins
     THEN Subscribe(h, room)
     ELSE UNCHANGED <<cursor, subs, ghost>>
  /\ IF version > handler[h].before
     THEN /\ Set(h, [Idle EXCEPT !.step = "publish", !.room = room, !.target = version])
          /\ tail' = Append(tail, h)
     ELSE Set(h, Idle) /\ UNCHANGED tail

\* The scheduler recovers the room before it publishes.
Answer(h) ==
  /\ Served(h, "appended")
  /\ Leaves(IF h = Timer THEN durable ELSE mem)
  /\ Announce(h, Len(mem), mem')
  /\ UNCHANGED <<durable, made, reading, wire, client, spent>>

\* The command was applied before, by whatever process: its recorded answer is
\* given without looking at the room.
AnswerAgain(h) ==
  /\ h \in Clients
  /\ Served(h, "queued")
  /\ Fail
  /\ Leaves(mem)
  /\ \E v \in 1..Len(durable) : Announce(h, v, mem)
  /\ UNCHANGED <<durable, made, reading, wire, client, losses, foreign>>

\* sync: a reconnect is dispatched, the room it leaves is kept, and the events
\* are read later.
SyncDispatch(c) ==
  /\ Served(c, "sync")
  /\ Leaves(durable)
  /\ Set(c, [handler[c] EXCEPT !.step = "answer", !.room = durable])
  /\ UNCHANGED <<durable, made, feed, wire, client, spent>>

\* Mutant: the room is read after the events and not before.
SyncAnswerLate(c) ==
  /\ handler[c].step = "answer"
  /\ Subscribe(c, mem)
  /\ Send({c}, <<Sync(mem, Len(durable) > handler[c].since)>>)
  /\ Set(c, Idle)
  /\ UNCHANGED <<durable, made, mem, calls, tail, reading, requests, fed, left, client,
                 spent>>

\* Only then the socket is subscribed and answered.
SyncAnswer(c) ==
  /\ handler[c].step = "answer"
  /\ Subscribe(c, mem)
  /\ \E through \in Len(handler[c].room)..Len(durable) :
       Send({c}, <<Sync(handler[c].room, through > handler[c].since)>>)
  /\ Set(c, Idle)
  /\ UNCHANGED <<durable, made, mem, calls, tail, reading, requests, fed, left, client,
                 spent>>

\* The client hears of a passing error, or of nothing if it is gone.
SyncFails(c) ==
  /\ Fail
  /\ \/ Served(c, "sync") /\ Leaves(durable)
     \/ handler[c].step = "answer" /\ UNCHANGED <<mem, calls>>
  /\ Set(c, Idle)
  /\ UNCHANGED <<durable, made, feed, wire, client, losses, foreign>>

\* Another process appends, or a REST command of this one does between two calls
\* of the queue.  Neither publishes.
Foreign ==
  /\ Trouble /\ foreign < MaxForeign /\ foreign' = foreign + 1
  /\ Len(durable) < MaxVersion
  /\ made' = made + 1
  /\ durable' = Append(durable, made')
  /\ \/ mem' = mem
     \/ /\ \A i \in DOMAIN calls : handler[calls[i]].step \in {"queued", "sync"}
        /\ mem' = durable'
  /\ UNCHANGED <<calls, handler, feed, wire, client, losses, failures>>

-----------------------------------------------------------------------------
\* The clients.

Ask(c, type, since) ==
  requests' = [requests EXCEPT ![c] = Append(@, Request(type, since))]

\* A reconnect says which version the client has, and says the same when it is
\* sent again.
Reconnects(c) ==
  LET since == Larger(0, ver[c])
  IN  Ask(c, "reconnect", since) /\ waiting' = [waiting EXCEPT ![c] = since]

ReconnectsAgain(c) ==
  /\ waiting[c] # None
  /\ Ask(c, "reconnect", waiting[c])
  /\ UNCHANGED waiting

\* The server serves a client's requests one at a time, so that one sent before the last
\* was served is as good as sent after.
AllServed(c) == requests[c] = <<>> /\ handler[c] = Idle

\* Business commands are for clients online.
SendCommand(c) ==
  /\ phase[c] = "online" /\ conn[c] = "open"
  /\ AllServed(c)
  /\ Len(durable) < MaxVersion
  /\ Ask(c, IF known[c] THEN "command" ELSE "join", 0)
  /\ UNCHANGED <<server, feed, conn, inbox, fed, left, client, spent>>

\* A client may ask to listen, and does refresh its session, over an open connection.
SendSession(c, type) ==
  /\ conn[c] = "open" /\ AllServed(c)
  /\ Lose
  /\ Ask(c, type, 0)
  /\ UNCHANGED <<server, feed, conn, inbox, fed, left, client, failures, foreign>>

SendSubscribe(c) == phase[c] = "online" /\ known[c] /\ SendSession(c, "subscribe")
SendRefresh(c) == SendSession(c, "refresh")

\* The player or the app's return to the foreground asks for the room again, or a
\* command was refused for its version.  (It is not counted from a client that is not
\* listening and has received all that it was sent.)
Resync(c) ==
  /\ known[c] /\ conn[c] = "open"
  /\ phase[c] \in {"online", "syncing"}
  /\ \/ Lose
     \/ c \notin subs /\ AllServed(c) /\ inbox[c] = <<>> /\ UNCHANGED losses
  /\ phase' = [phase EXCEPT ![c] = "syncing"]
  /\ Reconnects(c)
  /\ UNCHANGED <<server, feed, conn, inbox, fed, left, known, ver, view, given, failures,
                 foreign>>

\* A reconnect left without an answer is sent again after a while.
Resend(c) ==
  /\ phase[c] = "syncing" /\ conn[c] = "open"
  /\ AllServed(c) /\ inbox[c] = <<>>
  /\ ReconnectsAgain(c)
  /\ UNCHANGED <<server, feed, conn, inbox, fed, left, phase, known, ver, view, given, spent>>

Received(c, type) ==
  /\ inbox[c] # <<>> /\ Head(inbox[c]).type = type
  /\ inbox' = [inbox EXCEPT ![c] = Tail(@)]

\* What RoomStateReducer.apply makes of an event of version v.
Applies(c, v) == v = ver[c] + 1
Duplicate(c, v) == v <= ver[c]

ReceiveEvent(c) ==
  /\ Received(c, "event")
  /\ LET e == Head(inbox[c])
     IN  /\ known' = [known EXCEPT ![c] = TRUE]
         /\ \/ /\ Duplicate(c, e.ver)
               /\ UNCHANGED <<requests, phase, waiting, ver, view, given>>
            \/ /\ Applies(c, e.ver)
               /\ ver' = [ver EXCEPT ![c] = e.ver]
               /\ view' = [view EXCEPT ![c] = e.room]
               /\ given' = given \ {c}
               /\ UNCHANGED <<requests, phase, waiting>>
            \/ /\ ~Applies(c, e.ver) /\ ~Duplicate(c, e.ver)
               /\ phase' = [phase EXCEPT ![c] = "syncing"]
               /\ Reconnects(c)
               /\ UNCHANGED <<ver, view, given>>
  /\ UNCHANGED <<server, feed, conn, fed, left, spent>>

\* The snapshot replaces the room.  If the answer lists events, the first of them
\* is not the envelope fromJson asks for, and the rest of the handler is left.
ReceiveSync(c) ==
  /\ Received(c, "sync")
  /\ LET s == Head(inbox[c])
     IN  /\ ver' = [ver EXCEPT ![c] = s.ver]
         /\ view' = [view EXCEPT ![c] = s.room]
         /\ phase' = IF s.missed THEN phase ELSE [phase EXCEPT ![c] = "online"]
  /\ waiting' = [waiting EXCEPT ![c] = None]
  /\ given' = given \ {c}
  /\ UNCHANGED <<server, feed, conn, requests, fed, left, known, spent>>

\* The room of a create is taken like that of a sync, and nothing else done.
ReceiveCreated(c) ==
  /\ Received(c, "created")
  /\ known' = [known EXCEPT ![c] = TRUE]
  /\ ver' = [ver EXCEPT ![c] = Head(inbox[c]).ver]
  /\ view' = [view EXCEPT ![c] = Head(inbox[c]).room]
  /\ given' = given \cup {c}
  /\ UNCHANGED <<server, feed, conn, requests, fed, left, phase, waiting, spent>>

\* That of a subscribe is handed to the app's listeners and not kept.
ReceiveSubscribed(c) ==
  /\ Received(c, "subscribed")
  /\ UNCHANGED <<server, feed, conn, requests, fed, left, client, spent>>

\* Authenticated again, a client goes on synchronising, unless an event that it applied
\* meanwhile made it forget that it must.
ReceiveRefreshed(c) ==
  /\ Received(c, "refreshed")
  /\ \/ UNCHANGED phase
     \/ phase[c] = "syncing" /\ phase' = [phase EXCEPT ![c] = "online"]
  /\ UNCHANGED <<server, feed, conn, requests, fed, left, known, waiting, ver, view, given,
                 spent>>

\* A connection ends, by the network or because the gateway closed it; both ends
\* learn of it here.  What the server still does for the client goes on.
Disconnect(c) ==
  /\ \/ conn[c] = "open" /\ Lose
     \/ conn[c] = "closing" /\ UNCHANGED losses
  /\ conn' = [conn EXCEPT ![c] = "closed"]
  /\ subs' = subs \ {c}
  /\ requests' = [requests EXCEPT ![c] = <<>>]
  /\ inbox' = [inbox EXCEPT ![c] = <<>>]
  /\ fed' = [fed EXCEPT ![c] = <<>>]
  /\ left' = [left EXCEPT ![c] = {}]
  /\ phase' = [phase EXCEPT ![c] = "disconnected"]
  /\ UNCHANGED <<server, tail, reading, cursor, ghost, known, waiting, ver, view, given, failures,
                 foreign>>

\* Connected and authenticated again, a client that knows its room synchronises.
Connect(c) ==
  /\ conn[c] = "closed" /\ handler[c] = Idle
  /\ conn' = [conn EXCEPT ![c] = "open"]
  /\ IF known[c]
     THEN /\ phase' = [phase EXCEPT ![c] = "syncing"]
          /\ IF waiting[c] = None THEN Reconnects(c) ELSE ReconnectsAgain(c)
     ELSE phase' = [phase EXCEPT ![c] = "online"] /\ UNCHANGED <<requests, waiting>>
  /\ UNCHANGED <<server, feed, inbox, fed, left, known, ver, view, given, spent>>

-----------------------------------------------------------------------------
Publishes(h) ==
  PublishNothing(h) \/ PublishNext(h) \/ ReadGap(h) \/ PublishGap(h) \/ GapFails(h)
Dispatches(h) ==
  \/ Execute(h) \/ Refuse(h) \/ AppendEvents(h) \/ DispatchFails(h)
  \/ Answer(h) \/ AnswerAgain(h)
Handles(c) ==
  \/ HandleCommand(c) \/ HandleReconnect(c)
  \/ HandleSubscribe(c) \/ HandleCreate(c) \/ HandleRefresh(c)
  \/ SyncDispatch(c) \/ SyncAnswer(c) \/ SyncFails(c)
Receives(c) ==
  \/ ReceiveEvent(c) \/ ReceiveSync(c) \/ ReceiveCreated(c)
  \/ ReceiveSubscribed(c) \/ ReceiveRefreshed(c)

Next ==
  \/ \E h \in Handlers : Publishes(h) \/ Dispatches(h)
  \/ \E c \in Clients :
       \/ Handles(c) \/ Receives(c)
       \/ SendCommand(c) \/ SendSubscribe(c) \/ SendRefresh(c)
       \/ Resync(c) \/ Resend(c) \/ Disconnect(c) \/ Connect(c)
  \/ Timeout
  \/ Foreign

\* Callbacks that are due run, messages on an open socket arrive, and the timer of
\* an unanswered reconnect goes off.  Players need do nothing.
Fairness ==
  /\ \A h \in Handlers : WF_vars(Publishes(h)) /\ WF_vars(Dispatches(h))
  /\ \A c \in Clients :
       WF_vars(Handles(c)) /\ WF_vars(Receives(c)) /\ WF_vars(Resend(c))

Spec == Init /\ [][Next]_vars /\ Fairness

-----------------------------------------------------------------------------
Rooms == Seq(Nat)

TypeOK ==
  /\ durable \in Rooms /\ mem \in Rooms
  /\ made \in Nat /\ cursor \in 0..MaxVersion /\ losses \in 0..MaxLosses
  /\ failures \in 0..MaxFailures
  /\ foreign \in 0..MaxForeign
  /\ \A i \in DOMAIN calls : handler[calls[i]].step \in {"queued", "executed", "appended", "sync"}
  /\ \A i \in DOMAIN tail : handler[tail[i]].step = "publish"
  /\ reading # None => tail # <<>> /\ reading < handler[Head(tail)].target - 1
  /\ subs \subseteq {c \in Clients : conn[c] # "closed"}
  /\ \A c \in Clients :
       /\ Len(inbox[c]) <= MaxQueue
       /\ left[c] \subseteq 0..Len(fed[c])
       /\ ver[c] \in -1..MaxVersion
       /\ phase[c] = "disconnected" <=> conn[c] = "closed"

\* Durable, but perhaps for its last event.
NearlyDurable(room) ==
  room = <<>> \/ Prefix(SubSeq(room, 1, Len(room) - 1), durable)

\* Events and the answers to reconnects show rooms that are durable, although the
\* aggregate in memory runs ahead of the store; an answer to a subscribe or to a create
\* sent again shows the room in memory, of which at most the last event may never be
\* durable.  So a client has a durable room unless a create gave it
\* (room-actor.js: dispatch; gateway.js: sync, subscribe, _broadcastNow;
\* server.js: handleCommand).
OnlyDurableShown ==
  \A c \in Clients :
    /\ IF c \in given THEN NearlyDurable(view[c]) ELSE Prefix(view[c], durable)
    /\ \A i \in DOMAIN inbox[c] :
         IF inbox[c][i].type \in {"event", "sync"}
         THEN Prefix(inbox[c][i].room, durable)
         ELSE NearlyDurable(inbox[c][i].room)

\* Over one connection no version comes twice or late, and none is left out while the
\* socket listens, whatever the publications, gaps, other sockets, and subscriptions
\* that ended and began again (gateway.js: _broadcastNow, broadcast, subscribe,
\* disconnect; server.js: addClient).
EachVersionOnce ==
  \A c \in Clients :
    \A i \in 1..(Len(fed[c]) - 1) :
      /\ fed[c][i + 1] > fed[c][i]
      /\ i \notin left[c] => fed[c][i + 1] = fed[c][i] + 1

\* No client has or is sent a room that is not durable.  (Does not hold: a subscribe, or
\* a create sent again, is answered between execution and append; README 3.2.)
NothingAhead ==
  \A c \in Clients :
    /\ Prefix(view[c], durable)
    /\ \A i \in DOMAIN inbox[c] : Prefix(inbox[c][i].room, durable)

\* Once everything has been handled and received, and the last event published, an online
\* client that listens has the room as it is stored.  (Does not hold: the answer to a
\* reconnect may be older than what was published meanwhile; README 3.2.)
CaughtUp ==
  (/\ \A h \in Handlers : handler[h] = Idle
   /\ \A c \in Clients : requests[c] = <<>> /\ inbox[c] = <<>>
   /\ cursor = Len(durable))
    => \A c \in subs : conn[c] = "open" /\ phase[c] = "online" /\ known[c] => view[c] = durable

\* A client that synchronises gets back online or loses its connection.
SyncEnds ==
  \A c \in Clients : (phase[c] = "syncing") ~> (phase[c] # "syncing")
=============================================================================
