------------------------------ MODULE RoomActor ------------------------------
(***************************************************************************)
(* RoomActor instances of several server processes serving one room over   *)
(* one durable store: command lookup, room lock with fencing token,        *)
(* recovery from snapshot and event tail, execution, conditional append,   *)
(* presence overlay, recorded answer, release.  Every await is a step.     *)
(*                                                                         *)
(* Three deployments are modelled (variable backend, fixed initially):     *)
(*   "memory"  MemoryRoomLock + MemoryGameEventStore: a store call checks  *)
(*             the lock and writes without giving up control;              *)
(*   "redis"   RedisFencingLock + PostgresGameEventStore: the lock is      *)
(*             checked by one call and the rows are written by another;    *)
(*   "nolock"  PostgresGameEventStore without REDIS_URL.                   *)
(*                                                                         *)
(* Room rules are abstracted: executing a request is refused or produces   *)
(* one of the numbers of events the request Yields (see Room.tla).         *)
(***************************************************************************)
EXTENDS Integers, Sequences, FiniteSets

CONSTANTS
  Actors,          \* RoomActor instances, one per server process
  Requests, Commands, CommandOf, Yields,   \* as in CommandLog
  NoRequest, NoActor,
  Backends,        \* the deployments to consider
  ReadLimit,       \* default limit of getEvents, 10000 in both stores
  MaxDispatches    \* bound: calls of dispatch in a behaviour

ASSUME ActorAssumption ==
  /\ CommandOf \in [Requests -> Commands]
  /\ Yields \in [Requests -> SUBSET (0..2)]
  /\ NoRequest \notin Requests
  /\ NoActor \notin Actors
  /\ Backends \subseteq {"memory", "redis", "nolock"}
  /\ ReadLimit \in Nat
  /\ MaxDispatches \in Nat

VARIABLES
  backend,
  \* durable
  events,      \* game_events: <<[req, token, base], ...>>, index = room_version;
               \* base (history) is the version before the event's batch
  results,     \* game_command_results: command id -> answer or NoAnswer
  presence,    \* game_presence: [version, token]
  storeToken,  \* MemoryGameEventStore.fencingTokens
  \* lock service
  lock,        \* the lease: [owner, token]
  fence,       \* last fencing token handed out
  \* per actor
  pc,
  cur,         \* the request being dispatched
  tok,         \* fencing token of this dispatch
  ver,         \* beforeVersion: version after recovery
  room,        \* the aggregate in memory: the requests applied to it
  out,         \* the answer about to be returned
  suspect,     \* history: actors whose last restore failed half-way
  acks,        \* history: answers returned to callers: [to, answer]
  dispatched   \* number of dispatch calls so far

durable == <<events, results, presence, storeToken>>
service == <<lock, fence>>
locals == <<cur, tok, ver, out>>
vars == <<backend, durable, service, pc, cur, tok, ver, room, out, suspect,
          acks, dispatched>>

NoLease == [owner |-> NoActor, token |-> 0]

\* No game_presence row: behaves as an overlay of version 0.
NoPresence == [version |-> 0, token |-> -1]

\* An answer: the request, the version of its last event (0: none), the
\* roomVersion it reports, and whether it was synthesized from the stream.
NoAnswer == [req |-> NoRequest, last |-> 0, version |-> 0, replay |-> FALSE]

Answers == [req : Requests, last : Nat, version : Nat, replay : BOOLEAN]

Steps == {"idle", "lookup", "acquire", "incr", "setNx", "assert", "recover",
          "presence", "findResult", "findEvents", "execute", "assertWrite",
          "append", "insert", "putPresence", "writePresence", "upsert", "save",
          "saveInsert", "restore", "release"}

Sync == backend = "memory"

\* lock.assert: the lease exists and carries this dispatch's token.
LeaseOk(a) == backend = "nolock" \/ lock.token = tok[a]

\* Mutant: the memory store does not look at the fencing token.
WriteUnfenced(a) == TRUE

\* _assertFencing of the memory store, in the same turn as the write.
WriteAllowed(a) == Sync => LeaseOk(a) /\ tok[a] >= storeToken

Recorded(a) == IF Sync THEN tok[a] ELSE storeToken

Requested(evs) == [i \in DOMAIN evs |-> evs[i].req]

Executed(a) == Len(room[a]) - ver[a]

\* Mutant: only recorded answers are searched for the command id.
NoMatchingEvents(c) == {}

\* getEvents without a limit returns the first ReadLimit events of the room.
MatchingEvents(c) ==
  {i \in DOMAIN events : i <= ReadLimit /\ CommandOf[events[i].req] = c}

\* Mutant: the command id alone identifies the request.
AnySameRequest(stored, r) == stored.req # NoRequest

\* isSameHash: what is stored under the command id came from this request.
SameRequest(stored, r) == stored.req = r

\* The caller of a's dispatch receives the answer.
Told(a, answer) == acks \cup {[to |-> cur[a], answer |-> answer]}

IsPrefixOf(s, t) == Len(s) <= Len(t) /\ \A i \in DOMAIN s : s[i] = t[i]

-----------------------------------------------------------------------------
Init ==
  /\ backend \in Backends
  /\ events = <<>>
  /\ results = [c \in Commands |-> NoAnswer]
  /\ presence = NoPresence
  /\ storeToken = 0
  /\ lock = NoLease
  /\ fence = 0
  /\ pc = [a \in Actors |-> "idle"]
  /\ cur = [a \in Actors |-> NoRequest]
  /\ tok = [a \in Actors |-> 0]
  /\ ver = [a \in Actors |-> 0]
  /\ room = [a \in Actors |-> <<>>]
  /\ out = [a \in Actors |-> NoAnswer]
  /\ suspect = {}
  /\ acks = {}
  /\ dispatched = 0

Go(a, step) == pc' = [pc EXCEPT ![a] = step]

\* A dispatch ends: its locals are gone, the aggregate stays.
Return(a) ==
  /\ Go(a, "idle")
  /\ cur' = [cur EXCEPT ![a] = NoRequest]
  /\ tok' = [tok EXCEPT ![a] = 0]
  /\ ver' = [ver EXCEPT ![a] = 0]
  /\ out' = [out EXCEPT ![a] = NoAnswer]

\* Leave the dispatch with an error; the lease is released on the way.
Abort(a) == /\ Go(a, "release")
            /\ out' = [out EXCEPT ![a] = NoAnswer]

\* dispatch: one command at a time per actor (its promise tail).
Dispatch(a, r) ==
  /\ pc[a] = "idle"
  /\ dispatched < MaxDispatches
  /\ dispatched' = dispatched + 1
  /\ cur' = [cur EXCEPT ![a] = r]
  /\ Go(a, "lookup")
  /\ UNCHANGED <<backend, durable, service, tok, ver, out, room, suspect, acks>>

\* The lookup before the lock: a recorded answer is replayed, a command id
\* recorded for another request is refused.
Lookup(a) ==
  LET known == results[CommandOf[cur[a]]] IN
  /\ pc[a] = "lookup"
  /\ acks' = IF SameRequest(known, cur[a]) THEN Told(a, known) ELSE acks
  /\ IF known = NoAnswer THEN Go(a, "acquire") /\ UNCHANGED locals ELSE Return(a)
  /\ UNCHANGED <<backend, durable, service, room, suspect, dispatched>>

\* MemoryRoomLock.acquire; re-entrant for the same owner.
AcquireMemory(a) ==
  /\ pc[a] = "acquire" /\ backend = "memory"
  /\ \/ /\ lock = NoLease
        /\ fence' = fence + 1
        /\ lock' = [owner |-> a, token |-> fence + 1]
        /\ tok' = [tok EXCEPT ![a] = fence + 1]
        /\ Go(a, "assert")
        /\ UNCHANGED <<cur, ver, out>>
     \/ /\ lock.owner = a
        /\ tok' = [tok EXCEPT ![a] = lock.token]
        /\ Go(a, "assert")
        /\ UNCHANGED <<service, cur, ver, out>>
     \/ /\ lock.owner \notin {a, NoActor}
        /\ Return(a)
        /\ UNCHANGED service
  /\ UNCHANGED <<backend, durable, room, suspect, acks, dispatched>>

\* RedisFencingLock.acquire, first call: GET.
AcquireGet(a) ==
  /\ pc[a] = "acquire" /\ backend = "redis"
  /\ IF lock.owner = a
     THEN /\ tok' = [tok EXCEPT ![a] = lock.token]
          /\ Go(a, "assert")
     ELSE /\ Go(a, "incr")
          /\ UNCHANGED tok
  /\ UNCHANGED <<backend, durable, service, cur, ver, room, out, suspect, acks,
                 dispatched>>

\* Second call: INCR of the fence key.
AcquireIncr(a) ==
  /\ pc[a] = "incr"
  /\ fence' = fence + 1
  /\ tok' = [tok EXCEPT ![a] = fence + 1]
  /\ Go(a, "setNx")
  /\ UNCHANGED <<backend, durable, lock, cur, ver, room, out, suspect, acks,
                 dispatched>>

\* Third call: SET NX PX, LOCK_BUSY when another lease is there.  The reply
\* may be lost after the lease was taken.
AcquireSetNx(a) ==
  /\ pc[a] = "setNx"
  /\ IF lock = NoLease
     THEN /\ lock' = [owner |-> a, token |-> tok[a]]
          /\ (Go(a, "assert") /\ UNCHANGED locals) \/ Return(a)
     ELSE /\ Return(a)
          /\ UNCHANGED lock
  /\ UNCHANGED <<backend, durable, fence, room, suspect, acks, dispatched>>

\* Without a lock service _acquire and _assertLock do nothing.
AcquireNothing(a) ==
  /\ pc[a] = "acquire" /\ backend = "nolock"
  /\ Go(a, "recover")
  /\ UNCHANGED <<backend, durable, service, cur, tok, ver, room, out, suspect,
                 acks, dispatched>>

AssertLease(a) ==
  /\ pc[a] = "assert"
  /\ Go(a, IF LeaseOk(a) THEN "recover" ELSE "release")
  /\ UNCHANGED <<backend, durable, service, cur, tok, ver, room, out, suspect,
                 acks, dispatched>>

\* _recoverNow: the aggregate is rebuilt from the latest snapshot and the
\* contiguous tail up to the latest version.
Recover(a) ==
  /\ pc[a] = "recover"
  /\ room' = [room EXCEPT ![a] = Requested(events)]
  /\ ver' = [ver EXCEPT ![a] = Len(events)]
  /\ suspect' = suspect \ {a}
  /\ Go(a, "presence")
  /\ UNCHANGED <<backend, durable, service, cur, tok, out, acks, dispatched>>

\* _restorePresence refuses an overlay that is ahead of the version recovered.
RecoverPresence(a) ==
  /\ pc[a] = "presence"
  /\ Go(a, IF presence.version > ver[a] THEN "release" ELSE "findResult")
  /\ UNCHANGED <<backend, durable, service, cur, tok, ver, room, out, suspect,
                 acks, dispatched>>

\* recover() without a command: reconnects and gap reads refresh the
\* aggregate behind the commands in flight.
Refresh(a) ==
  /\ pc[a] = "idle"
  /\ room[a] # Requested(events)
  /\ room' = [room EXCEPT ![a] = Requested(events)]
  /\ suspect' = suspect \ {a}
  /\ UNCHANGED <<backend, durable, service, pc, cur, tok, ver, out, acks,
                 dispatched>>

\* _findStoredCommand, first read: the recorded answer.
FindResult(a) ==
  LET known == results[CommandOf[cur[a]]] IN
  /\ pc[a] = "findResult"
  /\ IF known = NoAnswer
     THEN Go(a, "findEvents") /\ UNCHANGED out
     ELSE /\ Go(a, "release")
          /\ out' = [out EXCEPT ![a] =
                       IF SameRequest(known, cur[a]) THEN known ELSE NoAnswer]
  /\ UNCHANGED <<backend, durable, service, cur, tok, ver, room, suspect, acks,
                 dispatched>>

\* Second read: an event that carries the command id proves that the command
\* was applied; the answer is synthesized from the recovered aggregate.
FindEvents(a) ==
  LET found == MatchingEvents(CommandOf[cur[a]]) IN
  /\ pc[a] = "findEvents"
  /\ \/ /\ found = {}
        /\ Go(a, "execute")
        /\ UNCHANGED out
     \/ \E last \in found :
          /\ \A i \in found : i <= last
          /\ IF SameRequest(events[last], cur[a])
             THEN /\ out' = [out EXCEPT ![a] =
                               [req |-> cur[a], last |-> last,
                                version |-> Len(room[a]), replay |-> TRUE]]
                  /\ Go(a, "save")
             ELSE Abort(a)
  /\ UNCHANGED <<backend, durable, service, cur, tok, ver, room, suspect, acks,
                 dispatched>>

-----------------------------------------------------------------------------
\* Room.execute: refused, or applied to the aggregate in memory.
Execute(a) ==
  /\ pc[a] = "execute"
  /\ \/ Abort(a) /\ UNCHANGED room
     \/ \E n \in Yields[cur[a]] :
          /\ room' = [room EXCEPT ![a] = @ \o [i \in 1..n |-> cur[a]]]
          /\ out' = [out EXCEPT ![a] =
                       [req |-> cur[a], last |-> IF n > 0 THEN ver[a] + n ELSE 0,
                        version |-> ver[a] + n, replay |-> FALSE]]
          /\ Go(a, "assertWrite")
  /\ UNCHANGED <<backend, durable, service, cur, tok, ver, suspect, acks, dispatched>>

\* The lock is asserted again; then events are appended, or, when the command
\* changed connection flags only, the presence overlay is saved.
AssertWrite(a) ==
  /\ pc[a] = "assertWrite"
  /\ \/ ~LeaseOk(a) /\ Go(a, "restore")
     \/ LeaseOk(a) /\ Executed(a) > 0 /\ Go(a, "append")
     \/ LeaseOk(a) /\ Executed(a) = 0 /\ (Go(a, "putPresence") \/ Go(a, "save"))
  /\ UNCHANGED <<backend, durable, service, cur, tok, ver, room, out, suspect,
                 acks, dispatched>>

\* PostgreSQL: the first statement of a write is lock.assert, a call to Redis
\* that the row inserts follow.
CheckThen(a, from, to) ==
  /\ pc[a] = from /\ ~Sync
  /\ IF LeaseOk(a) THEN Go(a, to) /\ UNCHANGED out
     ELSE IF from = "save" /\ out[a].replay THEN Abort(a)
     ELSE Go(a, "restore") /\ UNCHANGED out
  /\ UNCHANGED <<backend, durable, service, cur, tok, ver, room, suspect, acks,
                 dispatched>>

CheckAppend(a) == CheckThen(a, "append", "insert")
CheckPresence(a) == CheckThen(a, "putPresence", "writePresence")
CheckSave(a) == CheckThen(a, "save", "saveInsert")

\* Mutant: a version conflict is swallowed and the answer recorded.
AppendIgnoringConflict(a) ==
  /\ pc[a] = IF Sync THEN "append" ELSE "insert"
  /\ IF Len(events) = ver[a] /\ WriteAllowed(a)
     THEN /\ events' = events \o [i \in 1..Executed(a) |->
                         [req |-> cur[a], token |-> tok[a], base |-> ver[a]]]
          /\ storeToken' = Recorded(a)
     ELSE UNCHANGED <<events, storeToken>>
  /\ Go(a, "save")
  /\ UNCHANGED <<backend, results, presence, service, cur, tok, ver, room, out,
                 suspect, acks, dispatched>>

\* Mutant: the events of a batch are inserted one by one and the second fails.
AppendFirstOnly(a) ==
  /\ pc[a] = IF Sync THEN "append" ELSE "insert"
  /\ IF Len(events) = ver[a] /\ WriteAllowed(a)
     THEN /\ events' = Append(events,
                         [req |-> cur[a], token |-> tok[a], base |-> ver[a]])
          /\ storeToken' = Recorded(a)
     ELSE UNCHANGED <<events, storeToken>>
  /\ Go(a, IF events' # events /\ Executed(a) = 1 THEN "save" ELSE "restore")
  /\ UNCHANGED <<backend, results, presence, service, cur, tok, ver, room, out,
                 suspect, acks, dispatched>>

\* appendBatch: all events of the command or none, each exactly the next
\* version.  The reply to a successful commit may be lost on a network.
AppendBatch(a) ==
  /\ pc[a] = IF Sync THEN "append" ELSE "insert"
  /\ IF Len(events) = ver[a] /\ WriteAllowed(a)
     THEN /\ events' = events \o [i \in 1..Executed(a) |->
                         [req |-> cur[a], token |-> tok[a], base |-> ver[a]]]
          /\ storeToken' = Recorded(a)
          /\ Go(a, "save") \/ (~Sync /\ Go(a, "restore"))
     ELSE /\ Go(a, "restore")
          /\ UNCHANGED <<events, storeToken>>
  /\ UNCHANGED <<backend, results, presence, service, cur, tok, ver, room, out,
                 suspect, acks, dispatched>>

PutPresence(a) ==
  /\ presence' = [version |-> ver[a], token |-> tok[a]]
  /\ storeToken' = Recorded(a)
  /\ Go(a, "save") \/ (~Sync /\ Go(a, "restore"))

\* savePresence: an overlay of an older version does not replace a newer one.
\* In PostgreSQL the check locks the row, but a first row cannot be locked
\* before it exists: the upsert then follows as a step of its own.
SavePresence(a) ==
  /\ pc[a] = IF Sync THEN "putPresence" ELSE "writePresence"
  /\ \/ ~Sync /\ presence = NoPresence /\ Go(a, "upsert")
        /\ UNCHANGED <<presence, storeToken>>
     \/ (Sync \/ presence # NoPresence) /\ presence.version <= ver[a]
        /\ WriteAllowed(a) /\ PutPresence(a)
     \/ (presence.version > ver[a] \/ ~WriteAllowed(a)) /\ Go(a, "restore")
        /\ UNCHANGED <<presence, storeToken>>
  /\ UNCHANGED <<backend, events, results, service, cur, tok, ver, room, out,
                 suspect, acks, dispatched>>

UpsertPresence(a) ==
  /\ pc[a] = "upsert" /\ ~Sync
  /\ PutPresence(a)
  /\ UNCHANGED <<backend, events, results, service, cur, tok, ver, room, out,
                 suspect, acks, dispatched>>

\* _saveCommandResult: insert the answer; a row of the same request is
\* returned instead of the new one, a row of another request is refused.
\* A synthesized answer is returned whatever row was there.
SaveResult(a) ==
  LET c == CommandOf[cur[a]]
      known == results[c]
      giveUp == IF out[a].replay THEN Abort(a)
                ELSE Go(a, "restore") /\ UNCHANGED out
  IN
  /\ pc[a] = IF Sync THEN "save" ELSE "saveInsert"
  /\ \/ /\ known = NoAnswer /\ WriteAllowed(a)
        /\ results' = [results EXCEPT ![c] = out[a]]
        /\ storeToken' = Recorded(a)
        /\ (Go(a, "release") /\ UNCHANGED out) \/ giveUp
     \/ /\ SameRequest(known, cur[a])
        /\ Go(a, "release")
        /\ out' = [out EXCEPT ![a] = IF @.replay THEN @ ELSE known]
        /\ UNCHANGED <<results, storeToken>>
     \/ /\ IF known = NoAnswer THEN ~WriteAllowed(a) ELSE ~SameRequest(known, cur[a])
        /\ giveUp
        /\ UNCHANGED <<results, storeToken>>
  /\ UNCHANGED <<backend, events, presence, service, cur, tok, ver, room, suspect,
                 acks, dispatched>>

\* Mutant: a failed write leaves the aggregate as the command left it.
RestoreNothing(a) ==
  /\ pc[a] = "restore"
  /\ Abort(a)
  /\ UNCHANGED <<backend, durable, service, cur, tok, ver, room, suspect, acks,
                 dispatched>>

\* _restoreAfterFailedPersistence: rebuild from the stream when it moved past
\* the version before the command, else go back to the checkpoint taken before
\* it.  A failed read of the version also goes back; a failed rebuild leaves
\* the aggregate as it is.
Restore(a) ==
  /\ pc[a] = "restore"
  /\ IF Executed(a) = 0
     THEN UNCHANGED <<room, suspect>>
     ELSE \/ /\ Len(events) > ver[a]
             /\ room' = [room EXCEPT ![a] = Requested(events)]
             /\ UNCHANGED suspect
          \/ /\ ~Sync \/ Len(events) <= ver[a]
             /\ room' = [room EXCEPT ![a] = SubSeq(@, 1, ver[a])]
             /\ UNCHANGED suspect
          \/ /\ ~Sync /\ Len(events) > ver[a]
             /\ suspect' = suspect \cup {a}
             /\ UNCHANGED room
  /\ Abort(a)
  /\ UNCHANGED <<backend, durable, service, cur, tok, ver, acks, dispatched>>

\* _release: compare and delete.  Releasing a lease that another actor took
\* over throws, and so does an unreachable lock service: the caller then gets
\* an error although the command may be durable.
Release(a) ==
  LET answer == IF out[a] = NoAnswer THEN acks ELSE Told(a, out[a])
      held == lock.token = tok[a]
  IN
  /\ pc[a] = "release"
  /\ Return(a)
  /\ \/ backend = "nolock" /\ acks' = answer /\ UNCHANGED lock
     \/ backend # "nolock" /\ lock = NoLease /\ acks' = answer /\ UNCHANGED lock
     \/ backend # "nolock" /\ held /\ lock' = NoLease /\ acks' = answer
     \/ backend # "nolock" /\ lock # NoLease /\ ~held /\ UNCHANGED <<lock, acks>>
     \/ backend = "redis" /\ held /\ lock' \in {lock, NoLease} /\ UNCHANGED acks
  /\ UNCHANGED <<backend, durable, fence, room, suspect, dispatched>>

-----------------------------------------------------------------------------
\* A call to the store or the lock service fails before it had any effect.
CallFails(a) ==
  /\ ~Sync
  /\ \/ /\ pc[a] \in {"lookup", "acquire", "incr", "setNx"}
        /\ Return(a)
     \/ /\ pc[a] \in {"assert", "recover", "presence", "findResult", "findEvents"}
        /\ Abort(a)
        /\ UNCHANGED <<cur, tok, ver>>
     \/ /\ pc[a] \in {"assertWrite", "append", "insert", "putPresence",
                     "writePresence", "upsert", "save", "saveInsert"}
        /\ IF out[a].replay THEN Abort(a) ELSE Go(a, "restore") /\ UNCHANGED out
        /\ UNCHANGED <<cur, tok, ver>>
  /\ UNCHANGED <<backend, durable, service, room, suspect, acks, dispatched>>

\* The process dies and a new one takes its place: nothing in memory is left
\* (the memory store goes with its process and is not restarted), the lease
\* stays until it expires and belongs to an owner id nobody has.
Crash(a) ==
  /\ ~Sync
  /\ pc[a] # "idle"
  /\ Return(a)
  /\ room' = [room EXCEPT ![a] = <<>>]
  /\ lock' = IF lock.owner = a THEN [lock EXCEPT !.owner = NoActor] ELSE lock
  /\ suspect' = suspect \ {a}
  /\ UNCHANGED <<backend, durable, fence, acks, dispatched>>

\* Mutant: the fence counter expires with the lease.
LeaseAndFenceExpire ==
  /\ lock # NoLease
  /\ lock' = NoLease
  /\ fence' = 0
  /\ UNCHANGED <<backend, durable, pc, cur, tok, ver, room, out, suspect,
                 acks, dispatched>>

\* leaseMs passes; nothing renews a lease.
LeaseExpires ==
  /\ lock # NoLease
  /\ lock' = NoLease
  /\ UNCHANGED <<backend, durable, fence, pc, cur, tok, ver, room, out, suspect,
                 acks, dispatched>>

Acquire(a) == AcquireMemory(a) \/ AcquireGet(a) \/ AcquireIncr(a)
              \/ AcquireSetNx(a) \/ AcquireNothing(a)

Read(a) == Lookup(a) \/ AssertLease(a) \/ Recover(a) \/ RecoverPresence(a)
           \/ FindResult(a) \/ FindEvents(a)

Write(a) == AssertWrite(a) \/ CheckAppend(a) \/ CheckPresence(a) \/ CheckSave(a)
            \/ AppendBatch(a) \/ SavePresence(a)
            \/ UpsertPresence(a) \/ SaveResult(a)

Next ==
  \/ \E a \in Actors :
       \/ \E r \in Requests : Dispatch(a, r)
       \/ Acquire(a) \/ Read(a) \/ Execute(a) \/ Write(a)
       \/ Restore(a) \/ Release(a) \/ Refresh(a)
       \/ CallFails(a) \/ Crash(a)
  \/ LeaseExpires

Spec == Init /\ [][Next]_vars

-----------------------------------------------------------------------------
StoreOK ==
  /\ events \in Seq([req : Requests, token : Int, base : Nat])
  /\ results \in [Commands -> Answers \cup {NoAnswer}]
  /\ presence \in [version : Nat, token : Int]
  /\ storeToken \in Nat

\* Every token in use was handed out by the fence counter.
LockOK ==
  /\ fence \in Nat
  /\ lock \in [owner : Actors \cup {NoActor}, token : 0..fence]
  /\ tok \in [Actors -> 0..fence]

CallOK ==
  /\ pc \in [Actors -> Steps]
  /\ cur \in [Actors -> Requests \cup {NoRequest}]
  /\ ver \in [Actors -> Nat]
  /\ room \in [Actors -> Seq(Requests)]
  /\ out \in [Actors -> Answers \cup {NoAnswer}]

HistoryOK ==
  /\ suspect \subseteq Actors
  /\ acks \subseteq [to : Requests, answer : Answers]
  /\ dispatched \in 0..MaxDispatches

TypeOK == backend \in Backends /\ StoreOK /\ LockOK /\ CallOK /\ HistoryOK

\* A command id is applied at most once: all events that carry it were
\* appended by one append, for one request -- however often the command is
\* retried, by whichever process, after whichever failure.  Events beyond
\* ReadLimit are not seen by the search for the command id.
SameBatch(i, j) == events[i].base = events[j].base /\ events[i].req = events[j].req

AppliedOnce ==
  \A i, j \in DOMAIN events :
    CommandOf[events[i].req] = CommandOf[events[j].req] => SameBatch(i, j)

AtMostOnce == Len(events) <= ReadLimit => AppliedOnce

\* An answer that names an event is only given when that event is durable and of the
\* caller's own command -- and is the last one of it, unless the search for the
\* command id stopped at ReadLimit in the middle of a batch.
AckedEventIsDurable ==
  \A k \in acks : k.answer.last > 0 =>
    /\ k.answer.last \in DOMAIN events
    /\ events[k.answer.last].req = k.to
    /\ Len(events) <= ReadLimit /\ k.answer.last + 1 \in DOMAIN events =>
         events[k.answer.last + 1].base # events[k.answer.last].base

\* Whoever asks and however often, the answers given for one command id go to
\* one request, and those that name an event name the same one, as long as all
\* events are searched.
AnswersAgree ==
  \A k, l \in acks :
    CommandOf[k.to] = CommandOf[l.to] =>
      /\ k.to = l.to
      /\ Len(events) <= ReadLimit /\ k.answer.last > 0 /\ l.answer.last > 0 =>
           k.answer.last = l.answer.last

\* Between commands the aggregate shows only what is durable: what a failed
\* command did to it is gone.  (Exception: a rebuild that failed half-way.)
IdleRoomIsDurable ==
  \A a \in Actors : pc[a] = "idle" /\ a \notin suspect =>
    IsPrefixOf(room[a], Requested(events))

\* "every write is fenced": no row is written under a token older than that of
\* a row already there.
StoredTokens == {events[i].token : i \in DOMAIN events} \cup {presence.token}

WriteFenced ==
  /\ presence' # presence => \A t \in StoredTokens : t <= presence'.token
  /\ events' # events =>
       \A t \in StoredTokens : t <= events'[Len(events')].token

\* (Does not hold with Redis: the lease may pass on between the check and the write;
\* README 3.2.)
EveryWriteFenced == [][WriteFenced]_vars

\* In the memory deployment, where the check and the write are one turn, they are.
MemoryWritesFenced == [][backend = "memory" => WriteFenced]_vars

\* The pipeline implements the command log: a command's events enter the log
\* together and once, an answer is recorded once and never for nothing.  (As
\* AtMostOnce, while the room has at most ReadLimit events.)
Log == INSTANCE CommandLog WITH
         log <- Requested(events),
         answered <- [c \in Commands |-> results[c].req]

ImplementsLog == Log!LogSpec
=============================================================================
