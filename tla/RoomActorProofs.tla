--------------------------- MODULE RoomActorProofs ---------------------------
(***************************************************************************)
(* Proofs about RoomActor for any actors, requests and deployments.  First *)
(* what the store holds: types, at most one batch per request, writes      *)
(* fenced by the lock.  Then what callers are told and what an idle room   *)
(* shows: answers name durable events of the caller's own command and      *)
(* agree with one another, a failed command leaves nothing behind in       *)
(* memory, and the pipeline implements the command log -- the last with as *)
(* many events as the search reads.                                        *)
(***************************************************************************)
EXTENDS RoomActor, SequenceTheorems, TLAPS

\* The steps after recovery, before and after the command was executed.
Recovered == {"presence", "findResult", "findEvents", "execute"}
Executing == {"assertWrite", "append", "insert", "putPresence", "writePresence",
              "upsert", "save", "saveInsert", "restore"}

\* What the locals of a running dispatch mean.
Locals(a) ==
  /\ pc[a] # "idle" => cur[a] \in Requests
  /\ pc[a] \in Recovered => ver[a] = Len(room[a]) /\ ver[a] <= Len(events)
  /\ pc[a] \in Executing => ver[a] <= Len(room[a]) /\ ver[a] <= Len(events)

TypeInv == TypeOK /\ \A a \in Actors : Locals(a)

-----------------------------------------------------------------------------
\* The requests of the stored events are a sequence of requests as long as the
\* stream: what the room rebuilt from it (_recoverNow) consists of.
LEMMA RequestedType ==
  ASSUME NEW evs \in Seq([req : Requests, token : Int, base : Nat])
  PROVE  Requested(evs) \in Seq(Requests) /\ Len(Requested(evs)) = Len(evs)
<1>1. Requested(evs) = [i \in 1..Len(evs) |-> evs[i].req]
  BY DEF Requested
<1>2. Len(evs) \in Nat /\ \A i \in 1..Len(evs) : evs[i].req \in Requests
  <2>1. \A i \in 1..Len(evs) : evs[i] \in [req : Requests, token : Int, base : Nat]
    BY ElementOfSeq
  <2> QED BY <2>1, LenProperties
<1>3. /\ [i \in 1..Len(evs) |-> evs[i].req] \in Seq(Requests)
      /\ Len([i \in 1..Len(evs) |-> evs[i].req]) = Len(evs)
  BY <1>2
<1> QED BY <1>1, <1>3

\* Appending a batch of n copies of one element (appendBatch) leaves the stream
\* as it was up to its old end and puts the element at every later index.
LEMMA BatchType ==
  ASSUME NEW S, NEW s \in Seq(S), NEW n \in Nat, NEW e \in S
  PROVE  /\ s \o [i \in 1..n |-> e] \in Seq(S)
         /\ Len(s \o [i \in 1..n |-> e]) = Len(s) + n
         /\ \A i \in 1..Len(s) : (s \o [j \in 1..n |-> e])[i] = s[i]
         /\ \A i \in Len(s)+1 .. Len(s)+n : (s \o [j \in 1..n |-> e])[i] = e
<1> DEFINE t == [i \in 1..n |-> e]
<1>1. t \in Seq(S) /\ Len(t) = n
  OBVIOUS
<1> QED BY <1>1

\* A fresh process with empty stores satisfies the inductive type invariant.
LEMMA InitTypeInv == Init => TypeInv
BY ActorAssumption DEF Init, TypeInv, TypeOK, StoreOK, LockOK, CallOK, HistoryOK,
   Locals, Recovered, Executing, Steps, NoLease, NoAnswer, NoPresence

-----------------------------------------------------------------------------
\* Every step of every dispatch, of the lock and of its expiry, and every crash
\* preserves the types together with what the program counter implies of ver and
\* room: the inductive step of TypeCorrect.
THEOREM TypeInvStep == TypeInv /\ [Next]_vars => TypeInv'
<1> USE DEF locals, durable, service
<1> SUFFICES ASSUME TypeInv, [Next]_vars PROVE TypeInv'
  OBVIOUS
<1>0. /\ backend \in Backends /\ StoreOK /\ LockOK /\ CallOK /\ HistoryOK
      /\ \A a \in Actors : Locals(a)
  BY DEF TypeInv, TypeOK
<1>pc. pc \in [Actors -> Steps]
  BY <1>0 DEF CallOK
<1>call. /\ cur \in [Actors -> Requests \cup {NoRequest}]
         /\ ver \in [Actors -> Nat]
         /\ room \in [Actors -> Seq(Requests)]
         /\ out \in [Actors -> Answers \cup {NoAnswer}]
  BY <1>0 DEF CallOK
<1>lock. /\ fence \in Nat /\ tok \in [Actors -> 0..fence]
         /\ lock \in [owner : Actors \cup {NoActor}, token : 0..fence]
  BY <1>0 DEF LockOK
<1>seq. Requested(events) \in Seq(Requests) /\ Len(Requested(events)) = Len(events)
        /\ Len(events) \in Nat
  BY <1>0, RequestedType, LenProperties DEF StoreOK
<1>1. ASSUME NEW a \in Actors, NEW r \in Requests, Dispatch(a, r) PROVE TypeInv'
  <2>1. pc' \in [Actors -> Steps] /\ pc'[a] \in {"lookup"}
        /\ \A b \in Actors \ {a} : pc'[b] = pc[b]
    BY <1>pc, <1>1 DEF Dispatch, Go, Steps
  <2>2. StoreOK'
    BY <1>0, <1>1 DEF Dispatch, Go, StoreOK
  <2>3. LockOK'
    BY <1>lock, <1>1 DEF Dispatch, Go, LockOK
  <2>4. CallOK'
    BY <1>call, <1>1, <2>1 DEF Dispatch, Go, CallOK
  <2>5. HistoryOK'
    BY <1>0, <1>1, ActorAssumption DEF Dispatch, Go, HistoryOK
  <2>6. \A b \in Actors : Locals(b)'
    BY <1>0, <1>pc, <1>call, <1>1, <2>1 DEF Dispatch, Go, Locals, Recovered, Executing
  <2> QED BY <1>0, <1>1, <2>1, <2>2, <2>3, <2>4, <2>5, <2>6 DEF Dispatch, Go, TypeInv, TypeOK
<1>2. ASSUME NEW a \in Actors, Lookup(a) PROVE TypeInv'
  <2>a. cur[a] \in Requests /\ results[CommandOf[cur[a]]] \in Answers \cup {NoAnswer}
    BY <1>0, <1>2, ActorAssumption DEF Lookup, StoreOK, CallOK, Locals
  <2>b. results[CommandOf[cur[a]]].req = cur[a] => results[CommandOf[cur[a]]] \in Answers
    BY <2>a, ActorAssumption DEF NoAnswer
  <2>1. pc' \in [Actors -> Steps] /\ pc'[a] \in {"acquire", "idle"}
        /\ \A b \in Actors \ {a} : pc'[b] = pc[b]
    BY <1>pc, <1>2 DEF Lookup, Return, Go, Steps
  <2>2. StoreOK'
    BY <1>0, <1>2 DEF Lookup, Return, Go, StoreOK
  <2>3. LockOK'
    BY <1>lock, <1>2 DEF Lookup, Return, Go, LockOK
  <2>4. CallOK'
    <3>1. cur' \in [Actors -> Requests \cup {NoRequest}]
      BY <1>call, <1>2 DEF Lookup, Return
    <3>2. ver' \in [Actors -> Nat]
      BY <1>call, <1>2 DEF Lookup, Return
    <3>3. room' \in [Actors -> Seq(Requests)]
      BY <1>call, <1>2 DEF Lookup, Return
    <3>4. out' \in [Actors -> Answers \cup {NoAnswer}]
      BY <1>call, <1>2 DEF Lookup, Return
    <3> QED BY <2>1, <3>1, <3>2, <3>3, <3>4 DEF CallOK
  <2>5. HistoryOK'
    BY <1>0, <1>2, <2>a, <2>b DEF Lookup, HistoryOK, Told, SameRequest
  <2>6. \A b \in Actors : Locals(b)'
    BY <1>0, <1>pc, <1>call, <1>2, <2>1 DEF Lookup, Return, Go, Locals, Recovered, Executing
  <2> QED BY <1>0, <1>2, <2>1, <2>2, <2>3, <2>4, <2>5, <2>6 DEF Lookup, Return, Go, TypeInv, TypeOK
<1>3. ASSUME NEW a \in Actors, AcquireMemory(a) PROVE TypeInv'
  <2>1. pc' \in [Actors -> Steps] /\ pc'[a] \in {"assert", "idle"}
        /\ \A b \in Actors \ {a} : pc'[b] = pc[b]
    BY <1>pc, <1>3 DEF AcquireMemory, Return, Go, Steps
  <2>2. StoreOK'
    BY <1>0, <1>3 DEF AcquireMemory, Return, Go, StoreOK
  <2>3. LockOK'
    BY <1>lock, <1>3, ActorAssumption DEF AcquireMemory, Return, Go, LockOK, NoLease
  <2>4. CallOK'
    BY <1>call, <1>3, <2>1 DEF AcquireMemory, Return, Go, CallOK
  <2>5. HistoryOK'
    BY <1>0, <1>3 DEF AcquireMemory, Return, Go, HistoryOK
  <2>6. \A b \in Actors : Locals(b)'
    BY <1>0, <1>pc, <1>call, <1>3, <2>1 DEF AcquireMemory, Return, Go, Locals, Recovered, Executing
  <2> QED BY <1>0, <1>3, <2>1, <2>2, <2>3, <2>4, <2>5, <2>6 DEF AcquireMemory, Return, Go, TypeInv, TypeOK
<1>4. ASSUME NEW a \in Actors, AcquireGet(a) PROVE TypeInv'
  <2>1. pc' \in [Actors -> Steps] /\ pc'[a] \in {"assert", "incr"}
        /\ \A b \in Actors \ {a} : pc'[b] = pc[b]
    BY <1>pc, <1>4 DEF AcquireGet, Go, Steps
  <2>2. StoreOK'
    BY <1>0, <1>4 DEF AcquireGet, Go, StoreOK
  <2>3. LockOK'
    BY <1>lock, <1>4 DEF AcquireGet, Go, LockOK
  <2>4. CallOK'
    BY <1>call, <1>4, <2>1 DEF AcquireGet, Go, CallOK
  <2>5. HistoryOK'
    BY <1>0, <1>4 DEF AcquireGet, Go, HistoryOK
  <2>6. \A b \in Actors : Locals(b)'
    BY <1>0, <1>pc, <1>call, <1>4, <2>1 DEF AcquireGet, Go, Locals, Recovered, Executing
  <2> QED BY <1>0, <1>4, <2>1, <2>2, <2>3, <2>4, <2>5, <2>6 DEF AcquireGet, Go, TypeInv, TypeOK
<1>5. ASSUME NEW a \in Actors, AcquireIncr(a) PROVE TypeInv'
  <2>1. pc' \in [Actors -> Steps] /\ pc'[a] \in {"setNx"}
        /\ \A b \in Actors \ {a} : pc'[b] = pc[b]
    BY <1>pc, <1>5 DEF AcquireIncr, Go, Steps
  <2>2. StoreOK'
    BY <1>0, <1>5 DEF AcquireIncr, Go, StoreOK
  <2>3. LockOK'
    BY <1>lock, <1>5 DEF AcquireIncr, Go, LockOK
  <2>4. CallOK'
    BY <1>call, <1>5, <2>1 DEF AcquireIncr, Go, CallOK
  <2>5. HistoryOK'
    BY <1>0, <1>5 DEF AcquireIncr, Go, HistoryOK
  <2>6. \A b \in Actors : Locals(b)'
    BY <1>0, <1>pc, <1>call, <1>5, <2>1 DEF AcquireIncr, Go, Locals, Recovered, Executing
  <2> QED BY <1>0, <1>5, <2>1, <2>2, <2>3, <2>4, <2>5, <2>6 DEF AcquireIncr, Go, TypeInv, TypeOK
<1>6. ASSUME NEW a \in Actors, AcquireSetNx(a) PROVE TypeInv'
  <2>1. pc' \in [Actors -> Steps] /\ pc'[a] \in {"assert", "idle"}
        /\ \A b \in Actors \ {a} : pc'[b] = pc[b]
    BY <1>pc, <1>6 DEF AcquireSetNx, Return, Go, Steps
  <2>2. StoreOK'
    BY <1>0, <1>6 DEF AcquireSetNx, Return, Go, StoreOK
  <2>3. LockOK'
    BY <1>lock, <1>6 DEF AcquireSetNx, Return, Go, LockOK
  <2>4. CallOK'
    <3>1. cur' \in [Actors -> Requests \cup {NoRequest}]
      BY <1>call, <1>6 DEF AcquireSetNx, Return
    <3>2. ver' \in [Actors -> Nat]
      BY <1>call, <1>6 DEF AcquireSetNx, Return
    <3>3. room' \in [Actors -> Seq(Requests)]
      BY <1>call, <1>6 DEF AcquireSetNx, Return
    <3>4. out' \in [Actors -> Answers \cup {NoAnswer}]
      BY <1>call, <1>6 DEF AcquireSetNx, Return
    <3> QED BY <2>1, <3>1, <3>2, <3>3, <3>4 DEF CallOK
  <2>5. HistoryOK'
    BY <1>0, <1>6 DEF AcquireSetNx, Return, Go, HistoryOK
  <2>6. \A b \in Actors : Locals(b)'
    BY <1>0, <1>pc, <1>call, <1>6, <2>1 DEF AcquireSetNx, Return, Go, Locals, Recovered, Executing
  <2> QED BY <1>0, <1>6, <2>1, <2>2, <2>3, <2>4, <2>5, <2>6 DEF AcquireSetNx, Return, Go, TypeInv, TypeOK
<1>7. ASSUME NEW a \in Actors, AcquireNothing(a) PROVE TypeInv'
  <2>1. pc' \in [Actors -> Steps] /\ pc'[a] \in {"recover"}
        /\ \A b \in Actors \ {a} : pc'[b] = pc[b]
    BY <1>pc, <1>7 DEF AcquireNothing, Go, Steps
  <2>2. StoreOK'
    BY <1>0, <1>7 DEF AcquireNothing, Go, StoreOK
  <2>3. LockOK'
    BY <1>lock, <1>7 DEF AcquireNothing, Go, LockOK
  <2>4. CallOK'
    BY <1>call, <1>7, <2>1 DEF AcquireNothing, Go, CallOK
  <2>5. HistoryOK'
    BY <1>0, <1>7 DEF AcquireNothing, Go, HistoryOK
  <2>6. \A b \in Actors : Locals(b)'
    BY <1>0, <1>pc, <1>call, <1>7, <2>1 DEF AcquireNothing, Go, Locals, Recovered, Executing
  <2> QED BY <1>0, <1>7, <2>1, <2>2, <2>3, <2>4, <2>5, <2>6 DEF AcquireNothing, Go, TypeInv, TypeOK
<1>8. ASSUME NEW a \in Actors, AssertLease(a) PROVE TypeInv'
  <2>1. pc' \in [Actors -> Steps] /\ pc'[a] \in {"recover", "release"}
        /\ \A b \in Actors \ {a} : pc'[b] = pc[b]
    BY <1>pc, <1>8 DEF AssertLease, Go, Steps
  <2>2. StoreOK'
    BY <1>0, <1>8 DEF AssertLease, Go, StoreOK
  <2>3. LockOK'
    BY <1>lock, <1>8 DEF AssertLease, Go, LockOK
  <2>4. CallOK'
    BY <1>call, <1>8, <2>1 DEF AssertLease, Go, CallOK
  <2>5. HistoryOK'
    BY <1>0, <1>8 DEF AssertLease, Go, HistoryOK
  <2>6. \A b \in Actors : Locals(b)'
    BY <1>0, <1>pc, <1>call, <1>8, <2>1 DEF AssertLease, Go, Locals, Recovered, Executing
  <2> QED BY <1>0, <1>8, <2>1, <2>2, <2>3, <2>4, <2>5, <2>6 DEF AssertLease, Go, TypeInv, TypeOK
<1>9. ASSUME NEW a \in Actors, Recover(a) PROVE TypeInv'
  <2>1. pc' \in [Actors -> Steps] /\ pc'[a] \in {"presence"}
        /\ \A b \in Actors \ {a} : pc'[b] = pc[b]
    BY <1>pc, <1>9 DEF Recover, Go, Steps
  <2>2. StoreOK'
    BY <1>0, <1>9 DEF Recover, Go, StoreOK
  <2>3. LockOK'
    BY <1>lock, <1>9 DEF Recover, Go, LockOK
  <2>4. CallOK'
    <3>1. cur' \in [Actors -> Requests \cup {NoRequest}]
      BY <1>call, <1>9 DEF Recover
    <3>2. ver' \in [Actors -> Nat]
      BY <1>call, <1>seq, <1>9 DEF Recover
    <3>3. room' \in [Actors -> Seq(Requests)]
      BY <1>call, <1>seq, <1>9 DEF Recover
    <3>4. out' \in [Actors -> Answers \cup {NoAnswer}]
      BY <1>call, <1>9 DEF Recover
    <3> QED BY <2>1, <3>1, <3>2, <3>3, <3>4 DEF CallOK
  <2>5. HistoryOK'
    BY <1>0, <1>9 DEF Recover, Go, HistoryOK
  <2>6. \A b \in Actors : Locals(b)'
    BY <1>0, <1>pc, <1>call, <1>seq, <1>9, <2>1 DEF Recover, Go, Locals, Recovered, Executing
  <2> QED BY <1>0, <1>9, <2>1, <2>2, <2>3, <2>4, <2>5, <2>6 DEF Recover, Go, TypeInv, TypeOK
<1>10. ASSUME NEW a \in Actors, RecoverPresence(a) PROVE TypeInv'
  <2>1. pc' \in [Actors -> Steps] /\ pc'[a] \in {"release", "findResult"}
        /\ \A b \in Actors \ {a} : pc'[b] = pc[b]
    BY <1>pc, <1>10 DEF RecoverPresence, Go, Steps
  <2>2. StoreOK'
    BY <1>0, <1>10 DEF RecoverPresence, Go, StoreOK
  <2>3. LockOK'
    BY <1>lock, <1>10 DEF RecoverPresence, Go, LockOK
  <2>4. CallOK'
    BY <1>call, <1>10, <2>1 DEF RecoverPresence, Go, CallOK
  <2>5. HistoryOK'
    BY <1>0, <1>10 DEF RecoverPresence, Go, HistoryOK
  <2>6. \A b \in Actors : Locals(b)'
    BY <1>0, <1>pc, <1>call, <1>10, <2>1 DEF RecoverPresence, Go, Locals, Recovered, Executing
  <2> QED BY <1>0, <1>10, <2>1, <2>2, <2>3, <2>4, <2>5, <2>6 DEF RecoverPresence, Go, TypeInv, TypeOK
<1>11. ASSUME NEW a \in Actors, FindResult(a) PROVE TypeInv'
  <2>a. results[CommandOf[cur[a]]] \in Answers \cup {NoAnswer}
    BY <1>0, <1>11, ActorAssumption DEF FindResult, StoreOK, CallOK, Locals
  <2>1. pc' \in [Actors -> Steps] /\ pc'[a] \in {"release", "findEvents"}
        /\ \A b \in Actors \ {a} : pc'[b] = pc[b]
    BY <1>pc, <1>11 DEF FindResult, Go, Steps
  <2>2. StoreOK'
    BY <1>0, <1>11 DEF FindResult, Go, StoreOK
  <2>3. LockOK'
    BY <1>lock, <1>11 DEF FindResult, Go, LockOK
  <2>4. CallOK'
    <3>1. cur' \in [Actors -> Requests \cup {NoRequest}]
      BY <1>call, <1>11 DEF FindResult
    <3>2. ver' \in [Actors -> Nat]
      BY <1>call, <1>11 DEF FindResult
    <3>3. room' \in [Actors -> Seq(Requests)]
      BY <1>call, <1>11 DEF FindResult
    <3>4. out' \in [Actors -> Answers \cup {NoAnswer}]
      BY <1>call, <2>a, <1>11 DEF FindResult
    <3> QED BY <2>1, <3>1, <3>2, <3>3, <3>4 DEF CallOK
  <2>5. HistoryOK'
    BY <1>0, <1>11 DEF FindResult, Go, HistoryOK
  <2>6. \A b \in Actors : Locals(b)'
    BY <1>0, <1>pc, <1>call, <1>11, <2>1 DEF FindResult, Go, Locals, Recovered, Executing
  <2> QED BY <1>0, <1>11, <2>1, <2>2, <2>3, <2>4, <2>5, <2>6 DEF FindResult, Go, TypeInv, TypeOK
<1>12. ASSUME NEW a \in Actors, FindEvents(a) PROVE TypeInv'
  <2>a. /\ cur[a] \in Requests /\ Len(room[a]) \in Nat
        /\ \A i \in MatchingEvents(CommandOf[cur[a]]) : i \in Nat
    BY <1>0, <1>call, <1>12, LenProperties
       DEF FindEvents, MatchingEvents, StoreOK, CallOK, Locals
  <2>b. \A last \in MatchingEvents(CommandOf[cur[a]]) :
          [req |-> cur[a], last |-> last, version |-> Len(room[a]), replay |-> TRUE]
            \in Answers
    BY <2>a DEF Answers
  <2>1. pc' \in [Actors -> Steps] /\ pc'[a] \in {"execute", "save", "release"}
        /\ \A b \in Actors \ {a} : pc'[b] = pc[b]
    BY <1>pc, <1>12 DEF FindEvents, Abort, Go, Steps
  <2>2. StoreOK'
    BY <1>0, <1>12 DEF FindEvents, Abort, Go, StoreOK
  <2>3. LockOK'
    BY <1>lock, <1>12 DEF FindEvents, Abort, Go, LockOK
  <2>4. CallOK'
    <3>1. cur' \in [Actors -> Requests \cup {NoRequest}]
      BY <1>call, <1>12 DEF FindEvents, Abort
    <3>2. ver' \in [Actors -> Nat]
      BY <1>call, <1>12 DEF FindEvents, Abort
    <3>3. room' \in [Actors -> Seq(Requests)]
      BY <1>call, <1>12 DEF FindEvents, Abort
    <3>4. out' \in [Actors -> Answers \cup {NoAnswer}]
      BY <1>call, <2>b, <1>12 DEF FindEvents, Abort
    <3> QED BY <2>1, <3>1, <3>2, <3>3, <3>4 DEF CallOK
  <2>5. HistoryOK'
    BY <1>0, <1>12 DEF FindEvents, Abort, Go, HistoryOK
  <2>6. \A b \in Actors : Locals(b)'
    BY <1>0, <1>pc, <1>call, <1>12, <2>1 DEF FindEvents, Abort, Go, Locals, Recovered, Executing
  <2> QED BY <1>0, <1>12, <2>1, <2>2, <2>3, <2>4, <2>5, <2>6 DEF FindEvents, Abort, Go, TypeInv, TypeOK
<1>13. ASSUME NEW a \in Actors, Execute(a) PROVE TypeInv'
  <2>r. pc[a] = "execute" /\ cur[a] \in Requests /\ ver[a] \in Nat /\ room[a] \in Seq(Requests)
    BY <1>0, <1>call, <1>13 DEF Execute, Locals
  <2>y. \A n \in Yields[cur[a]] : n \in Nat
    BY <2>r, ActorAssumption
  <2>a. ver[a] = Len(room[a]) /\ ver[a] <= Len(events)
    BY <1>0, <2>r DEF Locals, Recovered
  <2>b. \A n \in Yields[cur[a]] :
          /\ room[a] \o [i \in 1..n |-> cur[a]] \in Seq(Requests)
          /\ Len(room[a] \o [i \in 1..n |-> cur[a]]) = Len(room[a]) + n
    BY <2>r, <2>y, BatchType
  <2>c. \A n \in Yields[cur[a]] :
          [req |-> cur[a], last |-> IF n > 0 THEN ver[a] + n ELSE 0,
           version |-> ver[a] + n, replay |-> FALSE] \in Answers
    BY <2>r, <2>y DEF Answers
  <2>1. pc' \in [Actors -> Steps] /\ pc'[a] \in {"release", "assertWrite"}
        /\ \A b \in Actors \ {a} : pc'[b] = pc[b]
    BY <1>pc, <1>13 DEF Execute, Abort, Go, Steps
  <2>2. StoreOK'
    BY <1>0, <1>13 DEF Execute, Abort, Go, StoreOK
  <2>3. LockOK'
    BY <1>lock, <1>13 DEF Execute, Abort, Go, LockOK
  <2>4. CallOK'
    <3>1. cur' \in [Actors -> Requests \cup {NoRequest}]
      BY <1>call, <1>13 DEF Execute, Abort
    <3>2. ver' \in [Actors -> Nat]
      BY <1>call, <1>13 DEF Execute, Abort
    <3>3. room' \in [Actors -> Seq(Requests)]
      BY ZenonT(30), <1>call, <2>b, <1>13 DEF Execute
    <3>4. out' \in [Actors -> Answers \cup {NoAnswer}]
      BY ZenonT(30), <1>call, <2>c, <1>13 DEF Execute, Abort
    <3> QED BY <2>1, <3>1, <3>2, <3>3, <3>4 DEF CallOK
  <2>5. HistoryOK'
    BY <1>0, <1>13 DEF Execute, Abort, Go, HistoryOK
  <2>6. \A b \in Actors : Locals(b)'
    <3>1. pc'[a] \in Executing => Len(room'[a]) \in Nat /\ ver[a] <= Len(room'[a])
      <4>1. SUFFICES ASSUME pc'[a] = "assertWrite" PROVE Len(room'[a]) \in Nat /\ ver[a] <= Len(room'[a])
        BY <2>1 DEF Executing
      <4>2. ~Abort(a)
        BY <1>pc, <4>1 DEF Abort, Go
      <4>3. \E n \in Yields[cur[a]] :
              room' = [room EXCEPT ![a] = room[a] \o [i \in 1..n |-> cur[a]]]
        BY <1>13, <4>2 DEF Execute
      <4>4. \E n \in Yields[cur[a]] : room'[a] = room[a] \o [i \in 1..n |-> cur[a]]
        BY <1>call, <4>3
      <4>5. PICK n \in Yields[cur[a]] : room'[a] = room[a] \o [i \in 1..n |-> cur[a]]
        BY <4>4
      <4>6. Len(room'[a]) = ver[a] + n
        BY <2>a, <2>b, <4>5
      <4> QED BY <2>r, <2>y, <4>6
    <3>2. \A b \in Actors \ {a} : room'[b] = room[b]
      BY <1>call, <1>13 DEF Execute
    <3> QED BY <1>0, <1>pc, <1>call, <1>13, <2>1, <2>r, <2>a, <3>1, <3>2 DEF Execute, Locals, Recovered, Executing
  <2> QED BY <1>0, <1>13, <2>1, <2>2, <2>3, <2>4, <2>5, <2>6 DEF Execute, Abort, Go, TypeInv, TypeOK
<1>14. ASSUME NEW a \in Actors, AssertWrite(a) PROVE TypeInv'
  <2>1. pc' \in [Actors -> Steps] /\ pc'[a] \in {"restore", "append", "putPresence", "save"}
        /\ \A b \in Actors \ {a} : pc'[b] = pc[b]
    BY <1>pc, <1>14 DEF AssertWrite, Go, Steps
  <2>2. StoreOK'
    BY <1>0, <1>14 DEF AssertWrite, Go, StoreOK
  <2>3. LockOK'
    BY <1>lock, <1>14 DEF AssertWrite, Go, LockOK
  <2>4. CallOK'
    BY <1>call, <1>14, <2>1 DEF AssertWrite, Go, CallOK
  <2>5. HistoryOK'
    BY <1>0, <1>14 DEF AssertWrite, Go, HistoryOK
  <2>6. \A b \in Actors : Locals(b)'
    BY <1>0, <1>pc, <1>call, <1>14, <2>1 DEF AssertWrite, Go, Locals, Recovered, Executing
  <2> QED BY <1>0, <1>14, <2>1, <2>2, <2>3, <2>4, <2>5, <2>6 DEF AssertWrite, Go, TypeInv, TypeOK
<1>15. ASSUME NEW a \in Actors, CheckAppend(a) PROVE TypeInv'
  <2>1. pc' \in [Actors -> Steps] /\ pc'[a] \in {"insert", "restore", "release"}
        /\ \A b \in Actors \ {a} : pc'[b] = pc[b]
    BY <1>pc, <1>15 DEF CheckAppend, CheckThen, Abort, Go, Steps
  <2>2. StoreOK'
    BY <1>0, <1>15 DEF CheckAppend, CheckThen, Abort, Go, StoreOK
  <2>3. LockOK'
    BY <1>lock, <1>15 DEF CheckAppend, CheckThen, Abort, Go, LockOK
  <2>4. CallOK'
    BY <1>call, <1>15, <2>1 DEF CheckAppend, CheckThen, Abort, Go, CallOK
  <2>5. HistoryOK'
    BY <1>0, <1>15 DEF CheckAppend, CheckThen, Abort, Go, HistoryOK
  <2>6. \A b \in Actors : Locals(b)'
    BY <1>0, <1>pc, <1>call, <1>15, <2>1 DEF CheckAppend, CheckThen, Abort, Go, Locals, Recovered, Executing
  <2> QED BY <1>0, <1>15, <2>1, <2>2, <2>3, <2>4, <2>5, <2>6 DEF CheckAppend, CheckThen, Abort, Go, TypeInv, TypeOK
<1>16. ASSUME NEW a \in Actors, CheckPresence(a) PROVE TypeInv'
  <2>1. pc' \in [Actors -> Steps] /\ pc'[a] \in {"writePresence", "restore", "release"}
        /\ \A b \in Actors \ {a} : pc'[b] = pc[b]
    BY <1>pc, <1>16 DEF CheckPresence, CheckThen, Abort, Go, Steps
  <2>2. StoreOK'
    BY <1>0, <1>16 DEF CheckPresence, CheckThen, Abort, Go, StoreOK
  <2>3. LockOK'
    BY <1>lock, <1>16 DEF CheckPresence, CheckThen, Abort, Go, LockOK
  <2>4. CallOK'
    BY <1>call, <1>16, <2>1 DEF CheckPresence, CheckThen, Abort, Go, CallOK
  <2>5. HistoryOK'
    BY <1>0, <1>16 DEF CheckPresence, CheckThen, Abort, Go, HistoryOK
  <2>6. \A b \in Actors : Locals(b)'
    BY <1>0, <1>pc, <1>call, <1>16, <2>1 DEF CheckPresence, CheckThen, Abort, Go, Locals, Recovered, Executing
  <2> QED BY <1>0, <1>16, <2>1, <2>2, <2>3, <2>4, <2>5, <2>6 DEF CheckPresence, CheckThen, Abort, Go, TypeInv, TypeOK
<1>17. ASSUME NEW a \in Actors, CheckSave(a) PROVE TypeInv'
  <2>1. pc' \in [Actors -> Steps] /\ pc'[a] \in {"saveInsert", "restore", "release"}
        /\ \A b \in Actors \ {a} : pc'[b] = pc[b]
    BY <1>pc, <1>17 DEF CheckSave, CheckThen, Abort, Go, Steps
  <2>2. StoreOK'
    BY <1>0, <1>17 DEF CheckSave, CheckThen, Abort, Go, StoreOK
  <2>3. LockOK'
    BY <1>lock, <1>17 DEF CheckSave, CheckThen, Abort, Go, LockOK
  <2>4. CallOK'
    BY <1>call, <1>17, <2>1 DEF CheckSave, CheckThen, Abort, Go, CallOK
  <2>5. HistoryOK'
    BY <1>0, <1>17 DEF CheckSave, CheckThen, Abort, Go, HistoryOK
  <2>6. \A b \in Actors : Locals(b)'
    BY <1>0, <1>pc, <1>call, <1>17, <2>1 DEF CheckSave, CheckThen, Abort, Go, Locals, Recovered, Executing
  <2> QED BY <1>0, <1>17, <2>1, <2>2, <2>3, <2>4, <2>5, <2>6 DEF CheckSave, CheckThen, Abort, Go, TypeInv, TypeOK
<1>18. ASSUME NEW a \in Actors, AppendBatch(a) PROVE TypeInv'
  <2>a. cur[a] \in Requests /\ tok[a] \in Nat /\ ver[a] \in Nat /\ Executed(a) \in Nat
    BY <1>0, <1>18 DEF AppendBatch, LockOK, CallOK, Executed, Locals, Executing
  <2> DEFINE e == [req |-> cur[a], token |-> tok[a], base |-> ver[a]]
             R == [req : Requests, token : Int, base : Nat]
  <2>b. e \in R
    BY <2>a
  <2>c. events' = events \/ events' = events \o [i \in 1..Executed(a) |-> e]
    BY <1>18 DEF AppendBatch
  <2>d. events' \in Seq(R) /\ Len(events) <= Len(events')
    <3>1. events \in Seq(R)
      BY <1>0 DEF StoreOK
    <3> HIDE DEF e, R
    <3>2. CASE events' = events
      BY <1>seq, <3>1, <3>2
    <3>3. CASE events' = events \o [i \in 1..Executed(a) |-> e]
      <4>1. /\ events \o [i \in 1..Executed(a) |-> e] \in Seq(R)
            /\ Len(events \o [i \in 1..Executed(a) |-> e]) = Len(events) + Executed(a)
        BY <2>a, <2>b, <3>1, BatchType
      <4>2. Len(events') = Len(events) + Executed(a)
        BY <3>3, <4>1
      <4> QED BY <1>seq, <2>a, <3>3, <4>1, <4>2
    <3> QED BY <2>c, <3>2, <3>3
  <2>1. pc' \in [Actors -> Steps] /\ pc'[a] \in {"save", "restore"}
        /\ \A b \in Actors \ {a} : pc'[b] = pc[b]
    BY <1>pc, <1>18 DEF AppendBatch, Go, Steps
  <2>2. StoreOK'
    BY <1>0, <1>18, <2>a, <2>d DEF AppendBatch, StoreOK, Recorded
  <2>3. LockOK'
    BY <1>lock, <1>18 DEF AppendBatch, Go, LockOK
  <2>4. CallOK'
    BY <1>call, <1>18, <2>1 DEF AppendBatch, Go, CallOK
  <2>5. HistoryOK'
    BY <1>0, <1>18 DEF AppendBatch, Go, HistoryOK
  <2>6. \A b \in Actors : Locals(b)'
    BY <1>0, <1>pc, <1>call, <1>seq, <1>18, <2>1, <2>d DEF AppendBatch, Locals, Recovered, Executing
  <2> QED BY <1>0, <1>18, <2>1, <2>2, <2>3, <2>4, <2>5, <2>6 DEF AppendBatch, Go, TypeInv, TypeOK
<1>19. ASSUME NEW a \in Actors, SavePresence(a) PROVE TypeInv'
  <2>a. tok[a] \in Nat /\ ver[a] \in Nat /\ Recorded(a) \in Nat
    BY <1>0, <1>lock, <1>call, <1>19 DEF SavePresence, StoreOK, Recorded
  <2>b. [version |-> ver[a], token |-> tok[a]] \in [version : Nat, token : Int]
    BY <2>a
  <2>1. pc' \in [Actors -> Steps] /\ pc'[a] \in {"upsert", "save", "restore"}
        /\ \A b \in Actors \ {a} : pc'[b] = pc[b]
    BY <1>pc, <1>19 DEF SavePresence, PutPresence, Go, Steps
  <2>2. StoreOK'
    BY <1>0, <1>19, <2>a, <2>b DEF SavePresence, PutPresence, StoreOK
  <2>3. LockOK'
    BY <1>lock, <1>19 DEF SavePresence, PutPresence, Go, LockOK
  <2>4. CallOK'
    BY <1>call, <1>19, <2>1 DEF SavePresence, PutPresence, Go, CallOK
  <2>5. HistoryOK'
    BY <1>0, <1>19 DEF SavePresence, PutPresence, Go, HistoryOK
  <2>6. \A b \in Actors : Locals(b)'
    BY <1>0, <1>pc, <1>call, <1>19, <2>1 DEF SavePresence, PutPresence, Go, Locals, Recovered, Executing
  <2> QED BY <1>0, <1>19, <2>1, <2>2, <2>3, <2>4, <2>5, <2>6 DEF SavePresence, PutPresence, Go, TypeInv, TypeOK
<1>20. ASSUME NEW a \in Actors, UpsertPresence(a) PROVE TypeInv'
  <2>a. tok[a] \in Nat /\ ver[a] \in Nat /\ Recorded(a) \in Nat
    BY <1>0, <1>lock, <1>call, <1>20 DEF UpsertPresence, StoreOK, Recorded
  <2>b. [version |-> ver[a], token |-> tok[a]] \in [version : Nat, token : Int]
    BY <2>a
  <2>1. pc' \in [Actors -> Steps] /\ pc'[a] \in {"save", "restore"}
        /\ \A b \in Actors \ {a} : pc'[b] = pc[b]
    BY <1>pc, <1>20 DEF UpsertPresence, PutPresence, Go, Steps
  <2>2. StoreOK'
    BY <1>0, <1>20, <2>a, <2>b DEF UpsertPresence, PutPresence, StoreOK
  <2>3. LockOK'
    BY <1>lock, <1>20 DEF UpsertPresence, PutPresence, Go, LockOK
  <2>4. CallOK'
    BY <1>call, <1>20, <2>1 DEF UpsertPresence, PutPresence, Go, CallOK
  <2>5. HistoryOK'
    BY <1>0, <1>20 DEF UpsertPresence, PutPresence, Go, HistoryOK
  <2>6. \A b \in Actors : Locals(b)'
    BY <1>0, <1>pc, <1>call, <1>20, <2>1 DEF UpsertPresence, PutPresence, Go, Locals, Recovered, Executing
  <2> QED BY <1>0, <1>20, <2>1, <2>2, <2>3, <2>4, <2>5, <2>6 DEF UpsertPresence, PutPresence, Go, TypeInv, TypeOK
<1>21. ASSUME NEW a \in Actors, SaveResult(a) PROVE TypeInv'
  <2>a. cur[a] \in Requests /\ CommandOf[cur[a]] \in Commands
        /\ results[CommandOf[cur[a]]] \in Answers \cup {NoAnswer}
        /\ tok[a] \in Nat /\ Recorded(a) \in Nat /\ out[a] \in Answers \cup {NoAnswer}
    BY <1>0, <1>lock, <1>call, <1>21, ActorAssumption
       DEF SaveResult, StoreOK, CallOK, Locals, Recorded
  <2>1. pc' \in [Actors -> Steps] /\ pc'[a] \in {"release", "restore"}
        /\ \A b \in Actors \ {a} : pc'[b] = pc[b]
    BY <1>pc, <1>21 DEF SaveResult, Abort, Go, Steps
  <2>2. StoreOK'
    <3>1. results' \in [Commands -> Answers \cup {NoAnswer}]
      BY <1>0, <1>21, <2>a DEF SaveResult, StoreOK
    <3>2. storeToken' \in Nat
      BY <1>0, <1>21, <2>a DEF SaveResult, StoreOK
    <3> QED BY <1>0, <1>21, <3>1, <3>2 DEF SaveResult, StoreOK
  <2>3. LockOK'
    BY <1>lock, <1>21 DEF SaveResult, Abort, Go, LockOK
  <2>4. CallOK'
    <3>1. cur' \in [Actors -> Requests \cup {NoRequest}]
      BY <1>call, <1>21 DEF SaveResult, Abort
    <3>2. ver' \in [Actors -> Nat]
      BY <1>call, <1>21 DEF SaveResult, Abort
    <3>3. room' \in [Actors -> Seq(Requests)]
      BY <1>call, <1>21 DEF SaveResult, Abort
    <3>4. out' \in [Actors -> Answers \cup {NoAnswer}]
      BY <1>call, <2>a, <1>21 DEF SaveResult, Abort
    <3> QED BY <2>1, <3>1, <3>2, <3>3, <3>4 DEF CallOK
  <2>5. HistoryOK'
    BY <1>0, <1>21 DEF SaveResult, Abort, Go, HistoryOK
  <2>6. \A b \in Actors : Locals(b)'
    BY <1>0, <1>pc, <1>call, <1>21, <2>1 DEF SaveResult, Abort, Go, Locals, Recovered, Executing
  <2> QED BY <1>0, <1>21, <2>1, <2>2, <2>3, <2>4, <2>5, <2>6 DEF SaveResult, Abort, Go, TypeInv, TypeOK
<1>22. ASSUME NEW a \in Actors, Restore(a) PROVE TypeInv'
  <2>a. SubSeq(room[a], 1, ver[a]) \in Seq(Requests)
    BY <1>0, <1>call, <1>22, SubSeqProperties DEF Restore, Locals, Executing
  <2>1. pc' \in [Actors -> Steps] /\ pc'[a] \in {"release"}
        /\ \A b \in Actors \ {a} : pc'[b] = pc[b]
    BY <1>pc, <1>22 DEF Restore, Abort, Go, Steps
  <2>2. StoreOK'
    BY <1>0, <1>22 DEF Restore, Abort, Go, StoreOK
  <2>3. LockOK'
    BY <1>lock, <1>22 DEF Restore, Abort, Go, LockOK
  <2>4. CallOK'
    <3>1. cur' \in [Actors -> Requests \cup {NoRequest}]
      BY <1>call, <1>22 DEF Restore, Abort
    <3>2. ver' \in [Actors -> Nat]
      BY <1>call, <1>22 DEF Restore, Abort
    <3>3. room' \in [Actors -> Seq(Requests)]
      BY <1>call, <1>seq, <2>a, <1>22 DEF Restore
    <3>4. out' \in [Actors -> Answers \cup {NoAnswer}]
      BY <1>call, <1>22 DEF Restore, Abort
    <3> QED BY <2>1, <3>1, <3>2, <3>3, <3>4 DEF CallOK
  <2>5. HistoryOK'
    BY <1>0, <1>22 DEF Restore, Abort, Go, HistoryOK
  <2>6. \A b \in Actors : Locals(b)'
    BY <1>0, <1>pc, <1>call, <1>22, <2>1 DEF Restore, Abort, Go, Locals, Recovered, Executing
  <2> QED BY <1>0, <1>22, <2>1, <2>2, <2>3, <2>4, <2>5, <2>6 DEF Restore, Abort, Go, TypeInv, TypeOK
<1>23. ASSUME NEW a \in Actors, Release(a) PROVE TypeInv'
  <2>a. out[a] # NoAnswer => [to |-> cur[a], answer |-> out[a]] \in [to : Requests, answer : Answers]
    BY <1>0, <1>call, <1>23 DEF Release, Locals
  <2>b. acks' \in {acks, Told(a, out[a])} /\ (acks' # acks => out[a] # NoAnswer)
    BY <1>23 DEF Release
  <2>1. pc' \in [Actors -> Steps] /\ pc'[a] \in {"idle"}
        /\ \A b \in Actors \ {a} : pc'[b] = pc[b]
    BY <1>pc, <1>23 DEF Release, Return, Go, Steps
  <2>2. StoreOK'
    BY <1>0, <1>23 DEF Release, Return, Go, StoreOK
  <2>3. LockOK'
    <3>1. NoLease \in [owner : Actors \cup {NoActor}, token : 0..fence]
      BY <1>lock DEF NoLease
    <3>2. lock' \in {lock, NoLease}
      BY <1>23 DEF Release
    <3> QED BY <1>lock, <1>23, <3>1, <3>2 DEF Release, Return, LockOK
  <2>4. CallOK'
    BY <1>call, <1>23, <2>1 DEF Release, Return, Go, CallOK
  <2>5. HistoryOK'
    BY <1>0, <1>23, <2>a, <2>b DEF Release, HistoryOK, Told
  <2>6. \A b \in Actors : Locals(b)'
    BY <1>0, <1>pc, <1>call, <1>23, <2>1 DEF Release, Return, Go, Locals, Recovered, Executing
  <2> QED BY <1>0, <1>23, <2>1, <2>2, <2>3, <2>4, <2>5, <2>6 DEF Release, Return, Go, TypeInv, TypeOK
<1>24. ASSUME NEW a \in Actors, CallFails(a) PROVE TypeInv'
  <2>1. pc' \in [Actors -> Steps] /\ pc'[a] \in {"idle", "release", "restore"}
        /\ \A b \in Actors \ {a} : pc'[b] = pc[b]
    BY <1>pc, <1>24 DEF CallFails, Return, Abort, Go, Steps
  <2>2. StoreOK'
    BY <1>0, <1>24 DEF CallFails, Return, Abort, Go, StoreOK
  <2>3. LockOK'
    BY <1>lock, <1>24 DEF CallFails, Return, Abort, Go, LockOK
  <2>4. CallOK'
    <3>1. cur' \in [Actors -> Requests \cup {NoRequest}]
      BY <1>call, <1>24 DEF CallFails, Return, Abort
    <3>2. ver' \in [Actors -> Nat]
      BY <1>call, <1>24 DEF CallFails, Return, Abort
    <3>3. room' \in [Actors -> Seq(Requests)]
      BY <1>call, <1>24 DEF CallFails, Return, Abort
    <3>4. out' \in [Actors -> Answers \cup {NoAnswer}]
      BY <1>call, <1>24 DEF CallFails, Return, Abort
    <3> QED BY <2>1, <3>1, <3>2, <3>3, <3>4 DEF CallOK
  <2>5. HistoryOK'
    BY <1>0, <1>24 DEF CallFails, Return, Abort, Go, HistoryOK
  <2>6. \A b \in Actors : Locals(b)'
    BY <1>0, <1>pc, <1>call, <1>24, <2>1 DEF CallFails, Return, Abort, Go, Locals, Recovered, Executing
  <2> QED BY <1>0, <1>24, <2>1, <2>2, <2>3, <2>4, <2>5, <2>6 DEF CallFails, Return, Abort, Go, TypeInv, TypeOK
<1>25. ASSUME NEW a \in Actors, Crash(a) PROVE TypeInv'
  <2>1. pc' \in [Actors -> Steps] /\ pc'[a] \in {"idle"}
        /\ \A b \in Actors \ {a} : pc'[b] = pc[b]
    BY <1>pc, <1>25 DEF Crash, Return, Go, Steps
  <2>2. StoreOK'
    BY <1>0, <1>25 DEF Crash, Return, Go, StoreOK
  <2>3. LockOK'
    BY <1>lock, <1>25 DEF Crash, Return, Go, LockOK
  <2>4. CallOK'
    BY <1>call, <1>25, <2>1 DEF Crash, Return, Go, CallOK
  <2>5. HistoryOK'
    BY <1>0, <1>25 DEF Crash, Return, Go, HistoryOK
  <2>6. \A b \in Actors : Locals(b)'
    BY <1>0, <1>pc, <1>call, <1>25, <2>1 DEF Crash, Return, Go, Locals, Recovered, Executing
  <2> QED BY <1>0, <1>25, <2>1, <2>2, <2>3, <2>4, <2>5, <2>6 DEF Crash, Return, Go, TypeInv, TypeOK
<1>26. ASSUME NEW a \in Actors, Refresh(a) PROVE TypeInv'
  BY <1>0, <1>pc, <1>call, <1>seq, <1>26 DEF Refresh, TypeInv, TypeOK, StoreOK, LockOK, CallOK, HistoryOK, Locals, Recovered, Executing
<1>27. ASSUME LeaseExpires PROVE TypeInv'
  BY <1>0, <1>27, ActorAssumption DEF LeaseExpires, NoLease, TypeInv, TypeOK, StoreOK, LockOK, CallOK, HistoryOK, Locals, Recovered, Executing
<1>28. ASSUME UNCHANGED vars PROVE TypeInv'
  BY <1>0, <1>28 DEF vars, TypeInv, TypeOK, StoreOK, LockOK, CallOK, HistoryOK, Locals, Recovered, Executing
<1> QED
  BY <1>1, <1>2, <1>3, <1>4, <1>5, <1>6, <1>7, <1>8, <1>9, <1>10, <1>11, <1>12, <1>13, <1>14, <1>15, <1>16, <1>17, <1>18, <1>19, <1>20, <1>21, <1>22, <1>23, <1>24, <1>25, <1>26, <1>27, <1>28 DEF Next, Acquire, Read, Write

\* TypeOK holds in every reachable state: whatever fails, crashes or expires,
\* the locals of a dispatch (room-actor.js _dispatchNow) and the rows of the
\* store stay well formed, and no token is in use that the fence did not issue.
THEOREM TypeCorrect == Spec => []TypeOK
<1>1. TypeInv => TypeOK
  BY DEF TypeInv
<1> QED BY InitTypeInv, TypeInvStep, <1>1, PTL DEF Spec

-----------------------------------------------------------------------------
\* Between the search for the command id and the append: if the stream has not
\* moved since the recovery, no event carries the command id.
Searched == {"execute", "assertWrite", "append", "insert"}

Fresh(a) ==
  pc[a] \in Searched /\ Len(events) = ver[a] /\ Len(events) <= ReadLimit =>
    \A i \in DOMAIN events : CommandOf[events[i].req] # CommandOf[cur[a]]

AllFresh == \A a \in Actors : Fresh(a)

\* A step of actor a that appends nothing and does not enter the steps of
\* Searched keeps every dispatch fresh.
LEMMA QuietStep ==
  ASSUME CallOK, AllFresh, NEW a \in Actors,
         events' = events,
         pc' = [pc EXCEPT ![a] = pc'[a]],
         cur' = [cur EXCEPT ![a] = cur'[a]],
         ver' = [ver EXCEPT ![a] = ver'[a]],
         pc'[a] \in Searched => pc[a] \in Searched /\ cur'[a] = cur[a] /\ ver'[a] = ver[a]
  PROVE  AllFresh'
<1>1. \A b \in Actors \ {a} : pc'[b] = pc[b] /\ cur'[b] = cur[b] /\ ver'[b] = ver[b]
  BY DEF CallOK
<1> QED BY <1>1 DEF AllFresh, Fresh

\* No step applies a command id twice: while a dispatch is past its search and
\* its base version is still the end of the stream, its command id is not in the
\* stream (AllFresh), so the conditional append cannot duplicate it.
THEOREM AtMostOnceStep ==
  TypeInv /\ AtMostOnce /\ AllFresh /\ [Next]_vars => AtMostOnce' /\ AllFresh'
<1> USE DEF locals, durable, service
<1> SUFFICES ASSUME TypeInv, AtMostOnce, AllFresh, [Next]_vars
             PROVE  AtMostOnce' /\ AllFresh'
  OBVIOUS
<1>0. StoreOK /\ CallOK /\ \A a \in Actors : Locals(a)
  BY DEF TypeInv, TypeOK
<1>call. /\ pc \in [Actors -> Steps]
         /\ cur \in [Actors -> Requests \cup {NoRequest}]
         /\ ver \in [Actors -> Nat]
  BY <1>0 DEF CallOK
<1>quiet. events' = events => AtMostOnce'
  BY DEF AtMostOnce, AppliedOnce, SameBatch
<1>1. ASSUME NEW a \in Actors, NEW r \in Requests, Dispatch(a, r)
      PROVE  AtMostOnce' /\ AllFresh'
  <2>1. /\ pc' = [pc EXCEPT ![a] = pc'[a]] /\ cur' = [cur EXCEPT ![a] = cur'[a]]
        /\ ver' = [ver EXCEPT ![a] = ver'[a]] /\ events' = events
        /\ pc'[a] \notin Searched
    BY <1>call, <1>1 DEF Dispatch, Go, Searched
  <2> QED BY <1>0, <1>quiet, <2>1, QuietStep
<1>2. ASSUME NEW a \in Actors, Lookup(a) PROVE AtMostOnce' /\ AllFresh'
  <2>1. /\ pc' = [pc EXCEPT ![a] = pc'[a]] /\ cur' = [cur EXCEPT ![a] = cur'[a]]
        /\ ver' = [ver EXCEPT ![a] = ver'[a]] /\ events' = events
        /\ pc'[a] \in Searched => pc[a] \in Searched /\ cur'[a] = cur[a] /\ ver'[a] = ver[a]
    BY <1>call, <1>2 DEF Lookup, Return, Go, Searched
  <2> QED BY <1>0, <1>quiet, <2>1, QuietStep
<1>3. ASSUME NEW a \in Actors, AcquireMemory(a) PROVE AtMostOnce' /\ AllFresh'
  <2>1. /\ pc' = [pc EXCEPT ![a] = pc'[a]] /\ cur' = [cur EXCEPT ![a] = cur'[a]]
        /\ ver' = [ver EXCEPT ![a] = ver'[a]] /\ events' = events
        /\ pc'[a] \in Searched => pc[a] \in Searched /\ cur'[a] = cur[a] /\ ver'[a] = ver[a]
    BY <1>call, <1>3 DEF AcquireMemory, Return, Go, Searched
  <2> QED BY <1>0, <1>quiet, <2>1, QuietStep
<1>4. ASSUME NEW a \in Actors, AcquireGet(a) PROVE AtMostOnce' /\ AllFresh'
  <2>1. /\ pc' = [pc EXCEPT ![a] = pc'[a]] /\ cur' = [cur EXCEPT ![a] = cur'[a]]
        /\ ver' = [ver EXCEPT ![a] = ver'[a]] /\ events' = events
        /\ pc'[a] \in Searched => pc[a] \in Searched /\ cur'[a] = cur[a] /\ ver'[a] = ver[a]
    BY <1>call, <1>4 DEF AcquireGet, Go, Searched
  <2> QED BY <1>0, <1>quiet, <2>1, QuietStep
<1>5. ASSUME NEW a \in Actors, AcquireIncr(a) PROVE AtMostOnce' /\ AllFresh'
  <2>1. /\ pc' = [pc EXCEPT ![a] = pc'[a]] /\ cur' = [cur EXCEPT ![a] = cur'[a]]
        /\ ver' = [ver EXCEPT ![a] = ver'[a]] /\ events' = events
        /\ pc'[a] \in Searched => pc[a] \in Searched /\ cur'[a] = cur[a] /\ ver'[a] = ver[a]
    BY <1>call, <1>5 DEF AcquireIncr, Go, Searched
  <2> QED BY <1>0, <1>quiet, <2>1, QuietStep
<1>6. ASSUME NEW a \in Actors, AcquireSetNx(a) PROVE AtMostOnce' /\ AllFresh'
  <2>1. /\ pc' = [pc EXCEPT ![a] = pc'[a]] /\ cur' = [cur EXCEPT ![a] = cur'[a]]
        /\ ver' = [ver EXCEPT ![a] = ver'[a]] /\ events' = events
        /\ pc'[a] \in Searched => pc[a] \in Searched /\ cur'[a] = cur[a] /\ ver'[a] = ver[a]
    BY <1>call, <1>6 DEF AcquireSetNx, Return, Go, Searched
  <2> QED BY <1>0, <1>quiet, <2>1, QuietStep
<1>7. ASSUME NEW a \in Actors, AcquireNothing(a) PROVE AtMostOnce' /\ AllFresh'
  <2>1. /\ pc' = [pc EXCEPT ![a] = pc'[a]] /\ cur' = [cur EXCEPT ![a] = cur'[a]]
        /\ ver' = [ver EXCEPT ![a] = ver'[a]] /\ events' = events
        /\ pc'[a] \in Searched => pc[a] \in Searched /\ cur'[a] = cur[a] /\ ver'[a] = ver[a]
    BY <1>call, <1>7 DEF AcquireNothing, Go, Searched
  <2> QED BY <1>0, <1>quiet, <2>1, QuietStep
<1>8. ASSUME NEW a \in Actors, AssertLease(a) PROVE AtMostOnce' /\ AllFresh'
  <2>1. /\ pc' = [pc EXCEPT ![a] = pc'[a]] /\ cur' = [cur EXCEPT ![a] = cur'[a]]
        /\ ver' = [ver EXCEPT ![a] = ver'[a]] /\ events' = events
        /\ pc'[a] \in Searched => pc[a] \in Searched /\ cur'[a] = cur[a] /\ ver'[a] = ver[a]
    BY <1>call, <1>8 DEF AssertLease, Go, Searched
  <2> QED BY <1>0, <1>quiet, <2>1, QuietStep
<1>9. ASSUME NEW a \in Actors, Recover(a) PROVE AtMostOnce' /\ AllFresh'
  <2>1. /\ pc' = [pc EXCEPT ![a] = pc'[a]] /\ cur' = [cur EXCEPT ![a] = cur'[a]]
        /\ ver' = [ver EXCEPT ![a] = ver'[a]] /\ events' = events
        /\ pc'[a] \in Searched => pc[a] \in Searched /\ cur'[a] = cur[a] /\ ver'[a] = ver[a]
    BY <1>call, <1>9 DEF Recover, Go, Searched
  <2> QED BY <1>0, <1>quiet, <2>1, QuietStep
<1>10. ASSUME NEW a \in Actors, RecoverPresence(a) PROVE AtMostOnce' /\ AllFresh'
  <2>1. /\ pc' = [pc EXCEPT ![a] = pc'[a]] /\ cur' = [cur EXCEPT ![a] = cur'[a]]
        /\ ver' = [ver EXCEPT ![a] = ver'[a]] /\ events' = events
        /\ pc'[a] \in Searched => pc[a] \in Searched /\ cur'[a] = cur[a] /\ ver'[a] = ver[a]
    BY <1>call, <1>10 DEF RecoverPresence, Go, Searched
  <2> QED BY <1>0, <1>quiet, <2>1, QuietStep
<1>11. ASSUME NEW a \in Actors, FindResult(a) PROVE AtMostOnce' /\ AllFresh'
  <2>1. /\ pc' = [pc EXCEPT ![a] = pc'[a]] /\ cur' = [cur EXCEPT ![a] = cur'[a]]
        /\ ver' = [ver EXCEPT ![a] = ver'[a]] /\ events' = events
        /\ pc'[a] \in Searched => pc[a] \in Searched /\ cur'[a] = cur[a] /\ ver'[a] = ver[a]
    BY <1>call, <1>11 DEF FindResult, Go, Searched
  <2> QED BY <1>0, <1>quiet, <2>1, QuietStep
<1>12. ASSUME NEW a \in Actors, FindEvents(a) PROVE AtMostOnce' /\ AllFresh'
  <2>1. /\ events' = events /\ cur' = cur /\ ver' = ver
        /\ \A b \in Actors \ {a} : pc'[b] = pc[b]
        /\ pc'[a] = "execute" => MatchingEvents(CommandOf[cur[a]]) = {}
        /\ pc'[a] \in Searched => pc'[a] = "execute"
    BY <1>call, <1>12 DEF FindEvents, Abort, Go, Searched
  <2>2. MatchingEvents(CommandOf[cur[a]]) = {} /\ Len(events) <= ReadLimit =>
          \A i \in DOMAIN events : CommandOf[events[i].req] # CommandOf[cur[a]]
    <3>1. Len(events) \in Nat /\ DOMAIN events = 1..Len(events) /\ ReadLimit \in Nat
      BY <1>0, LenProperties, ActorAssumption DEF StoreOK
    <3> QED BY <3>1 DEF MatchingEvents
  <2>3. AllFresh'
    BY <2>1, <2>2 DEF AllFresh, Fresh
  <2> QED BY <1>quiet, <2>1, <2>3
<1>13. ASSUME NEW a \in Actors, Execute(a) PROVE AtMostOnce' /\ AllFresh'
  <2>1. /\ pc' = [pc EXCEPT ![a] = pc'[a]] /\ cur' = [cur EXCEPT ![a] = cur'[a]]
        /\ ver' = [ver EXCEPT ![a] = ver'[a]] /\ events' = events
        /\ pc'[a] \in Searched => pc[a] \in Searched /\ cur'[a] = cur[a] /\ ver'[a] = ver[a]
    BY <1>call, <1>13 DEF Execute, Abort, Go, Searched
  <2> QED BY <1>0, <1>quiet, <2>1, QuietStep
<1>14. ASSUME NEW a \in Actors, AssertWrite(a) PROVE AtMostOnce' /\ AllFresh'
  <2>1. /\ pc' = [pc EXCEPT ![a] = pc'[a]] /\ cur' = [cur EXCEPT ![a] = cur'[a]]
        /\ ver' = [ver EXCEPT ![a] = ver'[a]] /\ events' = events
        /\ pc'[a] \in Searched => pc[a] \in Searched /\ cur'[a] = cur[a] /\ ver'[a] = ver[a]
    BY <1>call, <1>14 DEF AssertWrite, Go, Searched
  <2> QED BY <1>0, <1>quiet, <2>1, QuietStep
<1>15. ASSUME NEW a \in Actors, CheckAppend(a) PROVE AtMostOnce' /\ AllFresh'
  <2>1. /\ pc' = [pc EXCEPT ![a] = pc'[a]] /\ cur' = [cur EXCEPT ![a] = cur'[a]]
        /\ ver' = [ver EXCEPT ![a] = ver'[a]] /\ events' = events
        /\ pc'[a] \in Searched => pc[a] \in Searched /\ cur'[a] = cur[a] /\ ver'[a] = ver[a]
    BY <1>call, <1>15 DEF CheckAppend, CheckThen, Abort, Go, Searched
  <2> QED BY <1>0, <1>quiet, <2>1, QuietStep
<1>16. ASSUME NEW a \in Actors, CheckPresence(a) PROVE AtMostOnce' /\ AllFresh'
  <2>1. /\ pc' = [pc EXCEPT ![a] = pc'[a]] /\ cur' = [cur EXCEPT ![a] = cur'[a]]
        /\ ver' = [ver EXCEPT ![a] = ver'[a]] /\ events' = events
        /\ pc'[a] \in Searched => pc[a] \in Searched /\ cur'[a] = cur[a] /\ ver'[a] = ver[a]
    BY <1>call, <1>16 DEF CheckPresence, CheckThen, Abort, Go, Searched
  <2> QED BY <1>0, <1>quiet, <2>1, QuietStep
<1>17. ASSUME NEW a \in Actors, CheckSave(a) PROVE AtMostOnce' /\ AllFresh'
  <2>1. /\ pc' = [pc EXCEPT ![a] = pc'[a]] /\ cur' = [cur EXCEPT ![a] = cur'[a]]
        /\ ver' = [ver EXCEPT ![a] = ver'[a]] /\ events' = events
        /\ pc'[a] \in Searched => pc[a] \in Searched /\ cur'[a] = cur[a] /\ ver'[a] = ver[a]
    BY <1>call, <1>17 DEF CheckSave, CheckThen, Abort, Go, Searched
  <2> QED BY <1>0, <1>quiet, <2>1, QuietStep
<1>18. ASSUME NEW a \in Actors, SavePresence(a) PROVE AtMostOnce' /\ AllFresh'
  <2>1. /\ pc' = [pc EXCEPT ![a] = pc'[a]] /\ cur' = [cur EXCEPT ![a] = cur'[a]]
        /\ ver' = [ver EXCEPT ![a] = ver'[a]] /\ events' = events
        /\ pc'[a] \in Searched => pc[a] \in Searched /\ cur'[a] = cur[a] /\ ver'[a] = ver[a]
    BY <1>call, <1>18 DEF SavePresence, PutPresence, Go, Searched
  <2> QED BY <1>0, <1>quiet, <2>1, QuietStep
<1>19. ASSUME NEW a \in Actors, UpsertPresence(a) PROVE AtMostOnce' /\ AllFresh'
  <2>1. /\ pc' = [pc EXCEPT ![a] = pc'[a]] /\ cur' = [cur EXCEPT ![a] = cur'[a]]
        /\ ver' = [ver EXCEPT ![a] = ver'[a]] /\ events' = events
        /\ pc'[a] \in Searched => pc[a] \in Searched /\ cur'[a] = cur[a] /\ ver'[a] = ver[a]
    BY <1>call, <1>19 DEF UpsertPresence, PutPresence, Go, Searched
  <2> QED BY <1>0, <1>quiet, <2>1, QuietStep
<1>20. ASSUME NEW a \in Actors, SaveResult(a) PROVE AtMostOnce' /\ AllFresh'
  <2>1. /\ pc' = [pc EXCEPT ![a] = pc'[a]] /\ cur' = [cur EXCEPT ![a] = cur'[a]]
        /\ ver' = [ver EXCEPT ![a] = ver'[a]] /\ events' = events
        /\ pc'[a] \in Searched => pc[a] \in Searched /\ cur'[a] = cur[a] /\ ver'[a] = ver[a]
    BY <1>call, <1>20 DEF SaveResult, Abort, Go, Searched
  <2> QED BY <1>0, <1>quiet, <2>1, QuietStep
<1>21. ASSUME NEW a \in Actors, Restore(a) PROVE AtMostOnce' /\ AllFresh'
  <2>1. /\ pc' = [pc EXCEPT ![a] = pc'[a]] /\ cur' = [cur EXCEPT ![a] = cur'[a]]
        /\ ver' = [ver EXCEPT ![a] = ver'[a]] /\ events' = events
        /\ pc'[a] \in Searched => pc[a] \in Searched /\ cur'[a] = cur[a] /\ ver'[a] = ver[a]
    BY <1>call, <1>21 DEF Restore, Abort, Go, Searched
  <2> QED BY <1>0, <1>quiet, <2>1, QuietStep
<1>22. ASSUME NEW a \in Actors, Release(a) PROVE AtMostOnce' /\ AllFresh'
  <2>1. /\ pc' = [pc EXCEPT ![a] = pc'[a]] /\ cur' = [cur EXCEPT ![a] = cur'[a]]
        /\ ver' = [ver EXCEPT ![a] = ver'[a]] /\ events' = events
        /\ pc'[a] \in Searched => pc[a] \in Searched /\ cur'[a] = cur[a] /\ ver'[a] = ver[a]
    BY <1>call, <1>22 DEF Release, Return, Go, Searched
  <2> QED BY <1>0, <1>quiet, <2>1, QuietStep
<1>23. ASSUME NEW a \in Actors, CallFails(a) PROVE AtMostOnce' /\ AllFresh'
  <2>1. /\ pc' = [pc EXCEPT ![a] = pc'[a]] /\ cur' = [cur EXCEPT ![a] = cur'[a]]
        /\ ver' = [ver EXCEPT ![a] = ver'[a]] /\ events' = events
        /\ pc'[a] \in Searched => pc[a] \in Searched /\ cur'[a] = cur[a] /\ ver'[a] = ver[a]
    BY <1>call, <1>23 DEF CallFails, Return, Abort, Go, Searched
  <2> QED BY <1>0, <1>quiet, <2>1, QuietStep
<1>24. ASSUME NEW a \in Actors, Crash(a) PROVE AtMostOnce' /\ AllFresh'
  <2>1. /\ pc' = [pc EXCEPT ![a] = pc'[a]] /\ cur' = [cur EXCEPT ![a] = cur'[a]]
        /\ ver' = [ver EXCEPT ![a] = ver'[a]] /\ events' = events
        /\ pc'[a] \in Searched => pc[a] \in Searched /\ cur'[a] = cur[a] /\ ver'[a] = ver[a]
    BY <1>call, <1>24 DEF Crash, Return, Go, Searched
  <2> QED BY <1>0, <1>quiet, <2>1, QuietStep
<1>25. ASSUME NEW a \in Actors, Refresh(a) PROVE AtMostOnce' /\ AllFresh'
  <2>1. /\ pc' = [pc EXCEPT ![a] = pc'[a]] /\ cur' = [cur EXCEPT ![a] = cur'[a]]
        /\ ver' = [ver EXCEPT ![a] = ver'[a]] /\ events' = events
        /\ pc'[a] \in Searched => pc[a] \in Searched /\ cur'[a] = cur[a] /\ ver'[a] = ver[a]
    BY <1>call, <1>25 DEF Refresh, Searched
  <2> QED BY <1>0, <1>quiet, <2>1, QuietStep
<1>26. ASSUME NEW a \in Actors, AppendBatch(a) PROVE AtMostOnce' /\ AllFresh'
  <2> DEFINE e == [req |-> cur[a], token |-> tok[a], base |-> ver[a]]
             R == [req : Requests, token : Int, base : Nat]
  <2>1. /\ pc[a] \in Searched /\ pc'[a] \notin Searched /\ cur' = cur /\ ver' = ver
        /\ \A b \in Actors \ {a} : pc'[b] = pc[b]
    BY <1>call, <1>26 DEF AppendBatch, Go, Searched
  <2>2. CASE events' = events
    BY <1>quiet, <2>1, <2>2 DEF AllFresh, Fresh
  <2>3. CASE Len(events) = ver[a] /\ events' = events \o [i \in 1..Executed(a) |-> e]
    <3>1. Executed(a) \in Nat /\ e \in R /\ events \in Seq(R)
      BY <1>0, <1>26, LenProperties
         DEF TypeInv, TypeOK, AppendBatch, StoreOK, LockOK, CallOK, Executed, Locals, Executing
    <3> HIDE DEF e, R
    <3>2. /\ events' \in Seq(R) /\ Len(events') = Len(events) + Executed(a)
          /\ \A i \in 1..Len(events) : events'[i] = events[i]
          /\ \A i \in Len(events)+1 .. Len(events') : events'[i] = e
      <4>1. /\ events \o [i \in 1..Executed(a) |-> e] \in Seq(R)
            /\ Len(events \o [i \in 1..Executed(a) |-> e]) = Len(events) + Executed(a)
            /\ \A i \in 1..Len(events) : (events \o [j \in 1..Executed(a) |-> e])[i] = events[i]
            /\ \A i \in Len(events)+1 .. Len(events)+Executed(a) :
                 (events \o [j \in 1..Executed(a) |-> e])[i] = e
        BY <3>1, BatchType, SMTT(60)
      <4>2. events' = events \o [i \in 1..Executed(a) |-> e]
        BY <2>3
      <4> QED BY <4>1, <4>2
    <3>3. /\ Len(events) \in Nat /\ DOMAIN events = 1..Len(events)
          /\ Len(events') \in Nat /\ DOMAIN events' = 1..Len(events') /\ ReadLimit \in Nat
      BY <3>1, <3>2, LenProperties, ActorAssumption
    <3>4. AtMostOnce'
      <4> SUFFICES ASSUME Len(events') <= ReadLimit, NEW i \in DOMAIN events', NEW j \in DOMAIN events',
                          CommandOf[events'[i].req] = CommandOf[events'[j].req]
                   PROVE  SameBatch(i, j)'
        BY DEF AtMostOnce, AppliedOnce
      <4>1. AppliedOnce /\ Len(events) <= ReadLimit
        BY <3>1, <3>2, <3>3 DEF AtMostOnce
      <4>2. \A k \in DOMAIN events : CommandOf[events[k].req] # CommandOf[e.req]
        BY <2>1, <2>3, <4>1 DEF AllFresh, Fresh, e
      <4>3. CASE i \in DOMAIN events /\ j \in DOMAIN events
        BY <3>2, <3>3, <4>1, <4>3 DEF AppliedOnce, SameBatch
      <4>4. CASE i \notin DOMAIN events /\ j \notin DOMAIN events
        <5>1. events'[i] = e /\ events'[j] = e
          BY <3>2, <3>3, <4>4
        <5> QED BY <5>1 DEF SameBatch
      <4>5. CASE i \in DOMAIN events /\ j \notin DOMAIN events
        <5>1. events'[i] = events[i] /\ events'[j] = e
          BY <3>2, <3>3, <4>5
        <5> QED BY <4>2, <4>5, <5>1
      <4>6. CASE i \notin DOMAIN events /\ j \in DOMAIN events
        <5>1. events'[i] = e /\ events'[j] = events[j]
          BY <3>2, <3>3, <4>6
        <5> QED BY <4>2, <4>6, <5>1
      <4> QED BY <4>3, <4>4, <4>5, <4>6
    \* An empty batch changes nothing; a longer one moves the stream past what
    \* the others recovered.
    <3>5. AllFresh'
      <4> SUFFICES ASSUME NEW b \in Actors, pc'[b] \in Searched, Len(events') = ver'[b],
                          Len(events') <= ReadLimit, NEW i \in DOMAIN events'
                   PROVE  CommandOf[events'[i].req] # CommandOf[cur'[b]]
        BY DEF AllFresh, Fresh
      <4>1. b # a /\ pc[b] \in Searched /\ ver[b] <= Len(events) /\ ver[b] \in Nat
        BY <1>0, <1>call, <2>1 DEF Locals, Searched, Recovered, Executing
      <4>2. Len(events) = Len(events') /\ Len(events) = ver[b]
        BY <2>1, <3>1, <3>2, <3>3, <4>1
      <4> QED BY <2>1, <3>2, <3>3, <4>1, <4>2 DEF AllFresh, Fresh
    <3> QED BY <3>4, <3>5
  <2> QED BY <1>26, <2>2, <2>3 DEF AppendBatch
<1>27. ASSUME LeaseExpires PROVE AtMostOnce' /\ AllFresh'
  BY <1>quiet, <1>27 DEF LeaseExpires, AllFresh, Fresh
<1>28. ASSUME UNCHANGED vars PROVE AtMostOnce' /\ AllFresh'
  BY <1>quiet, <1>28 DEF vars, AllFresh, Fresh
<1> QED
  BY <1>1, <1>2, <1>3, <1>4, <1>5, <1>6, <1>7, <1>8, <1>9, <1>10, <1>11, <1>12, <1>13, <1>14, <1>15, <1>16, <1>17, <1>18, <1>19, <1>20, <1>21, <1>22, <1>23, <1>24, <1>25, <1>26, <1>27, <1>28
     DEF Next, Acquire, Read, Write

\* A command id is applied at most once (AtMostOnce): the search for it
\* (_findStoredCommand) and the conditional append (appendBatch) together make
\* every retry harmless, with or without a lock, as long as the room has at
\* most ReadLimit events.
THEOREM AtMostOnceHolds == Spec => []AtMostOnce
<1>1. Init => TypeInv /\ AtMostOnce /\ AllFresh
  BY InitTypeInv DEF Init, AtMostOnce, AppliedOnce, SameBatch, AllFresh, Fresh, Searched
<1>2. TypeInv /\ AtMostOnce /\ AllFresh /\ [Next]_vars => (TypeInv /\ AtMostOnce /\ AllFresh)'
  BY TypeInvStep, AtMostOnceStep
<1> QED BY <1>1, <1>2, PTL DEF Spec
-----------------------------------------------------------------------------
\* In the memory store the highest token of any write is remembered.
TokensRecorded == backend = "memory" => \A t \in StoredTokens : t <= storeToken

\* A write to the event or presence rows of the memory store is made with a
\* token at least as high as that of every row there, and remembers it.
LEMMA FencedStep ==
  ASSUME TypeInv, TokensRecorded, [Next]_vars
  PROVE  TokensRecorded' /\ (backend = "memory" => WriteFenced)
<1> USE DEF locals, durable, service
<1>0. StoreOK /\ LockOK /\ CallOK /\ \A a \in Actors : Locals(a)
  BY DEF TypeInv, TypeOK
<1>1. CASE backend # "memory"
  <2>1. backend' = backend
    BY ZenonT(30) DEF Next, Acquire, Read, Write, Dispatch, Lookup, AcquireMemory, AcquireGet,
       AcquireIncr, AcquireSetNx, AcquireNothing, AssertLease, Recover,
       RecoverPresence, Refresh, FindResult, FindEvents, Execute, AssertWrite,
       CheckAppend, CheckPresence, CheckSave, CheckThen, AppendBatch, SavePresence,
       UpsertPresence, SaveResult, Restore, Release, CallFails, Crash, LeaseExpires, vars
  <2> QED BY <1>1, <2>1 DEF TokensRecorded
<1>2. CASE backend = "memory" /\ events' = events /\ presence' = presence
           /\ storeToken' \in Nat /\ storeToken <= storeToken'
  <2>1. StoredTokens' = StoredTokens /\ StoredTokens \subseteq Int /\ storeToken \in Int
    <3>1. \A i \in DOMAIN events : events[i].token \in Int
      <4>1. \A i \in 1..Len(events) :
              events[i] \in [req : Requests, token : Int, base : Nat]
        BY <1>0, ElementOfSeq DEF StoreOK
      <4> QED BY <1>0, <4>1, LenProperties DEF StoreOK
    <3> QED BY <1>0, <1>2, <3>1 DEF StoredTokens, StoreOK
  <2> QED BY <1>2, <2>1 DEF TokensRecorded, WriteFenced
<1>3. ASSUME backend = "memory", UNCHANGED <<events, presence, storeToken>>
      PROVE  TokensRecorded' /\ (backend = "memory" => WriteFenced)
  BY <1>0, <1>2, <1>3 DEF StoreOK
<1>4. ASSUME NEW a \in Actors, AppendBatch(a), backend = "memory"
      PROVE  TokensRecorded' /\ (backend = "memory" => WriteFenced)
  <2> DEFINE e == [req |-> cur[a], token |-> tok[a], base |-> ver[a]]
             R == [req : Requests, token : Int, base : Nat]
  <2>1. CASE UNCHANGED <<events, storeToken>>
    BY <1>3, <1>4, <2>1 DEF AppendBatch
  <2>2. CASE /\ events' = events \o [i \in 1..Executed(a) |-> e]
             /\ storeToken' = tok[a] /\ storeToken <= tok[a]
    <3>1. /\ Executed(a) \in Nat /\ e \in R /\ events \in Seq(R)
          /\ tok[a] \in Nat /\ storeToken \in Nat /\ presence' = presence
      BY <1>0, <1>4, LenProperties
         DEF AppendBatch, StoreOK, LockOK, CallOK, Executed, Locals, Executing
    <3>2. e.token = tok[a] /\ \A i \in DOMAIN events : events[i].token \in Int
      <4>1. \A i \in 1..Len(events) : events[i] \in R
        BY <3>1, ElementOfSeq
      <4> QED BY <3>1, <4>1, LenProperties
    <3> HIDE DEF e, R
    <3>3. /\ events' \in Seq(R) /\ Len(events') = Len(events) + Executed(a)
          /\ \A i \in 1..Len(events) : events'[i] = events[i]
          /\ \A i \in Len(events)+1 .. Len(events') : events'[i] = e
      <4>1. /\ events \o [i \in 1..Executed(a) |-> e] \in Seq(R)
            /\ Len(events \o [i \in 1..Executed(a) |-> e]) = Len(events) + Executed(a)
            /\ \A i \in 1..Len(events) : (events \o [j \in 1..Executed(a) |-> e])[i] = events[i]
            /\ \A i \in Len(events)+1 .. Len(events)+Executed(a) :
                 (events \o [j \in 1..Executed(a) |-> e])[i] = e
        BY SMTT(30), <3>1, BatchType
      <4> QED BY <2>2, <4>1
    <3>4. /\ Len(events) \in Nat /\ DOMAIN events = 1..Len(events)
          /\ Len(events') \in Nat /\ DOMAIN events' = 1..Len(events')
      BY <3>1, <3>3, LenProperties
    <3>5. \A t \in StoredTokens : t <= tok[a]
      <4>1. StoredTokens \subseteq Int
        BY <1>0, <3>2 DEF StoredTokens, StoreOK
      <4>2. \A t \in StoredTokens : t <= storeToken
        BY <1>4 DEF TokensRecorded
      <4> QED BY <2>2, <3>1, <4>1, <4>2
    <3>6. \A t \in StoredTokens' : t \in StoredTokens \/ t = tok[a]
      BY <3>1, <3>2, <3>3, <3>4 DEF StoredTokens
    <3>7. TokensRecorded'
      BY <2>2, <3>1, <3>5, <3>6 DEF TokensRecorded
    <3>8. events' # events => events'[Len(events')] = e
      <4>1. CASE Executed(a) = 0
        BY <3>1, <3>3, <3>4, <4>1
      <4>2. CASE Executed(a) > 0
        BY <3>1, <3>3, <3>4, <4>2
      <4> QED BY <3>1, <4>1, <4>2
    <3>9. WriteFenced
      BY <3>1, <3>2, <3>5, <3>8 DEF WriteFenced
    <3> QED BY <3>7, <3>9
  <2> QED BY <1>4, <2>1, <2>2 DEF AppendBatch, WriteAllowed, Recorded, Sync
<1>5. ASSUME NEW a \in Actors, SavePresence(a), backend = "memory"
      PROVE  TokensRecorded' /\ (backend = "memory" => WriteFenced)
  <2>1. CASE UNCHANGED <<presence, storeToken>>
    BY <1>3, <1>5, <2>1 DEF SavePresence
  <2>2. CASE /\ presence' = [version |-> ver[a], token |-> tok[a]] /\ events' = events
             /\ storeToken' = tok[a] /\ storeToken <= tok[a]
    <3>1. storeToken \in Nat /\ tok[a] \in Nat
      BY <1>0, <1>5 DEF StoreOK, LockOK
    <3>2. StoredTokens \subseteq Int /\ \A t \in StoredTokens : t <= tok[a]
      <4>1. \A i \in 1..Len(events) :
              events[i] \in [req : Requests, token : Int, base : Nat]
        BY <1>0, ElementOfSeq DEF StoreOK
      <4>2. StoredTokens \subseteq Int
        BY <1>0, <4>1, LenProperties DEF StoreOK, StoredTokens
      <4> QED BY <1>5, <2>2, <3>1, <4>2 DEF TokensRecorded
    <3> QED BY <2>2, <3>1, <3>2 DEF TokensRecorded, StoredTokens, WriteFenced
  <2> QED BY <1>5, <2>1, <2>2
          DEF SavePresence, PutPresence, WriteAllowed, Recorded, Sync
<1>6. ASSUME NEW a \in Actors, UpsertPresence(a), backend = "memory"
      PROVE  FALSE
  BY <1>6 DEF UpsertPresence, Sync
<1>7. ASSUME NEW a \in Actors, SaveResult(a), backend = "memory"
      PROVE  TokensRecorded' /\ (backend = "memory" => WriteFenced)
  <2>1. storeToken' \in Nat /\ storeToken <= storeToken'
    BY <1>0, <1>7 DEF SaveResult, StoreOK, LockOK, Recorded, WriteAllowed, Sync
  <2> QED BY <1>2, <1>7, <2>1 DEF SaveResult
<1>8. ASSUME backend = "memory", [Next]_vars,
             \A a \in Actors : ~(AppendBatch(a) \/ SavePresence(a) \/ SaveResult(a))
      PROVE  UNCHANGED <<events, presence, storeToken>>
  BY ZenonT(30), <1>6, <1>8
     DEF Next, Acquire, Read, Write, Dispatch, Lookup, AcquireMemory, AcquireGet,
     AcquireIncr, AcquireSetNx, AcquireNothing, AssertLease, Recover,
     RecoverPresence, Refresh, FindResult, FindEvents, Execute, AssertWrite,
     CheckAppend, CheckPresence, CheckSave, CheckThen,
     Restore, Release, CallFails, Crash, LeaseExpires, vars
<1> QED BY <1>1, <1>3, <1>4, <1>5, <1>7, <1>8

\* In the memory deployment every write of events or presence is fenced
\* (MemoryWritesFenced): its token is at least that of every row there, because
\* _assertFencing and the write are one turn of the event loop.
THEOREM MemoryWritesFencedHolds == Spec => MemoryWritesFenced
<1>1. Init => TypeInv /\ TokensRecorded
  BY InitTypeInv DEF Init, TokensRecorded, StoredTokens, NoPresence
<1>2. TypeInv /\ TokensRecorded /\ [Next]_vars => (TypeInv /\ TokensRecorded)'
  BY TypeInvStep, FencedStep
<1>3. TypeInv /\ TokensRecorded /\ [Next]_vars => [backend = "memory" => WriteFenced]_vars
  BY FencedStep
<1> QED BY <1>1, <1>2, <1>3, PTL DEF Spec, MemoryWritesFenced

-----------------------------------------------------------------------------
\* Answers, and the room of an idle actor.
Row == [req : Requests, token : Int, base : Nat]

\* After execution: the command's events are in memory only, or durable.
Pending == {"assertWrite", "append", "insert"}
Written == {"putPresence", "writePresence", "upsert", "save", "saveInsert"}

\* A stream is made of batches: each event knows the version before its batch, and
\* a batch is of one request.
Batches(evs) ==
  /\ \A i \in 1..Len(evs) : evs[i].base < i
  /\ \A i, j \in 1..Len(evs) : i < j => evs[i].base <= evs[j].base
  /\ \A i, j \in 1..Len(evs) : evs[i].base = evs[j].base => evs[i].req = evs[j].req

EndOfBatch(evs, i) == i + 1 \in 1..Len(evs) => evs[i + 1].base # evs[i].base

\* The stream has only become longer, by whole batches.
Grown(evs, new) ==
  /\ Len(evs) <= Len(new)
  /\ \A i \in 1..Len(evs) : new[i] = evs[i]
  /\ \A i \in Len(evs) + 1 .. Len(new) : new[i].base = Len(evs)

\* What an answer to request r says is true of the stream.
Given(evs, answer, r) ==
  /\ answer.req = r
  /\ answer.last = 0 => 0 \in Yields[r]
  /\ answer.last > 0 =>
       /\ answer.last <= Len(evs)
       /\ evs[answer.last].req = r
       /\ Len(evs) <= ReadLimit => EndOfBatch(evs, answer.last)

\* The first n requests of an aggregate are those of the stream.
On(s, n, evs) == n <= Len(s) /\ n <= Len(evs) /\ \A i \in 1..n : s[i] = evs[i].req

-----------------------------------------------------------------------------
LEMMA RowOf ==
  ASSUME NEW evs \in Seq(Row)
  PROVE  /\ Len(evs) \in Nat /\ DOMAIN evs = 1..Len(evs)
         /\ \A i \in 1..Len(evs) : evs[i] \in Row
BY ElementOfSeq, LenProperties

\* What a batch appended at the end of the stream makes of it (appendBatch).
LEMMA AppendedBatch ==
  ASSUME NEW evs \in Seq(Row), Batches(evs), NEW n \in Nat,
         NEW e \in Row, e.base = Len(evs),
         NEW new \in Seq(Row), Len(new) = Len(evs) + n,
         \A i \in 1..Len(evs) : new[i] = evs[i],
         \A i \in Len(evs) + 1 .. Len(evs) + n : new[i] = e
  PROVE  Grown(evs, new) /\ Batches(new)
<1>1. /\ new \in Seq(Row) /\ Len(new) = Len(evs) + n
      /\ \A i \in 1..Len(evs) : new[i] = evs[i]
      /\ \A i \in Len(evs) + 1 .. Len(evs) + n : new[i] = e
  OBVIOUS
<1>2. Len(evs) \in Nat /\ \A i \in 1..Len(evs) : evs[i].base \in Nat
  BY RowOf DEF Row
<1>3. \A i \in Len(evs) + 1 .. Len(new) : new[i] = e
  BY <1>1
<1>4. Grown(evs, new)
  BY <1>1, <1>2, <1>3 DEF Grown
<1>5. ASSUME NEW i \in 1..Len(new)
      PROVE  \/ i \in 1..Len(evs) /\ new[i] = evs[i]
             \/ i > Len(evs) /\ new[i] = e
  BY <1>1, <1>2, <1>3
<1>6. \A i \in 1..Len(evs) : evs[i].base < Len(evs)
  BY <1>2 DEF Batches
<1>7. Batches(new)
  <2> SUFFICES ASSUME NEW i \in 1..Len(new), NEW j \in 1..Len(new)
               PROVE  /\ new[i].base < i
                      /\ i < j => new[i].base <= new[j].base
                      /\ new[i].base = new[j].base => new[i].req = new[j].req
    BY DEF Batches
  <2>1. CASE i \in 1..Len(evs) /\ j \in 1..Len(evs)
    BY <1>1, <2>1 DEF Batches
  <2>2. CASE i \in 1..Len(evs) /\ j > Len(evs)
    BY SMTT(30), <1>2, <1>5, <1>6, <2>2 DEF Batches
  <2>3. CASE i > Len(evs) /\ j \in 1..Len(evs)
    BY <1>2, <1>5, <1>6, <2>3
  <2>4. CASE i > Len(evs) /\ j > Len(evs)
    BY <1>2, <1>5, <2>4
  <2> QED
    BY <1>5, <2>1, <2>2, <2>3, <2>4
<1> QED
  BY <1>4, <1>7

LEMMA NothingAppended ==
  ASSUME NEW evs \in Seq(Row)
  PROVE  Grown(evs, evs)
BY RowOf DEF Grown

\* What was true to tell stays true.
LEMMA GivenStays ==
  ASSUME NEW evs \in Seq(Row), NEW new \in Seq(Row), Batches(evs), Grown(evs, new),
         NEW answer, answer.last \in Nat, NEW r, Given(evs, answer, r)
  PROVE  Given(new, answer, r)
<1> DEFINE i == answer.last
<1>1. Len(evs) \in Nat /\ Len(new) \in Nat /\ \A j \in 1..Len(evs) : evs[j].base \in Nat
  BY RowOf DEF Row
<1> SUFFICES ASSUME i > 0
             PROVE  /\ i <= Len(new) /\ new[i].req = r
                    /\ Len(new) <= ReadLimit => EndOfBatch(new, i)
  BY DEF Given
<1>2. i \in 1..Len(evs) /\ evs[i].req = r /\ (Len(evs) <= ReadLimit => EndOfBatch(evs, i))
  BY <1>1 DEF Given
<1>3. i <= Len(new) /\ new[i] = evs[i]
  BY <1>1, <1>2 DEF Grown
<1>4. ASSUME Len(new) <= ReadLimit, i + 1 \in 1..Len(new) PROVE new[i + 1].base # new[i].base
  <2>1. EndOfBatch(evs, i)
    BY <1>1, <1>2, <1>4, ActorAssumption DEF Grown
  <2>2. CASE i < Len(evs)
    BY <1>1, <1>2, <1>3, <2>1, <2>2 DEF EndOfBatch, Grown
  <2>3. CASE i = Len(evs)
    <3>1. new[i + 1].base = Len(evs)
      BY <1>1, <1>4, <2>3 DEF Grown
    <3>2. new[i].base < Len(evs)
      BY <1>1, <1>2, <1>3 DEF Batches
    <3> QED
      BY <1>1, <1>2, <1>3, <3>1, <3>2
  <2> QED
    BY <1>1, <1>2, <2>2, <2>3
<1> QED
  BY <1>2, <1>3, <1>4 DEF EndOfBatch

\* What an aggregate had from the stream it has from the longer one.
LEMMA OnStays ==
  ASSUME NEW evs \in Seq(Row), NEW new \in Seq(Row), Grown(evs, new),
         NEW s \in Seq(Requests), NEW n \in Nat, On(s, n, evs)
  PROVE  On(s, n, new)
<1>1. Len(evs) \in Nat /\ Len(new) \in Nat
  BY RowOf
<1> QED
  BY SMTT(30), <1>1 DEF On, Grown

\* A rebuilt aggregate is the stream (_recoverNow).
LEMMA RebuiltOn ==
  ASSUME NEW evs \in Seq(Row)
  PROVE  On(Requested(evs), Len(Requested(evs)), evs) /\ Len(Requested(evs)) = Len(evs)
<1>1. Requested(evs) \in Seq(Requests) /\ Len(Requested(evs)) = Len(evs)
  BY RequestedType DEF Row
<1>2. \A i \in 1..Len(evs) : Requested(evs)[i] = evs[i].req
  BY RowOf DEF Requested
<1>3. Len(evs) \in Nat
  BY RowOf
<1> QED
  BY <1>1, <1>2, <1>3 DEF On

LEMMA OnIsPrefix ==
  ASSUME NEW evs \in Seq(Row), NEW s \in Seq(Requests), On(s, Len(s), evs)
  PROVE  IsPrefixOf(s, Requested(evs))
<1>1. Len(Requested(evs)) = Len(evs) /\ Len(evs) \in Nat /\ Len(s) \in Nat /\ DOMAIN s = 1..Len(s)
  BY RebuiltOn, RowOf, LenProperties
<1>2. \A i \in 1..Len(evs) : Requested(evs)[i] = evs[i].req
  BY RowOf DEF Requested
<1> QED
  BY <1>1, <1>2 DEF On, IsPrefixOf

-----------------------------------------------------------------------------
\* Per actor: what its aggregate shows of the stream.  Nobody who has recovered and
\* not yet returned has an aggregate that a failed rebuild left behind.
RoomInv(a) ==
  /\ pc[a] \in Recovered \cup Executing => a \notin suspect
  /\ pc[a] \notin Pending \cup {"restore"} /\ a \notin suspect =>
       On(room[a], Len(room[a]), events)
  /\ pc[a] \in Pending \cup {"restore"} => On(room[a], ver[a], events)
  /\ pc[a] \in Pending => \A i \in ver[a] + 1 .. Len(room[a]) : room[a][i] = cur[a]

\* Per actor: what its answer is worth at each step.
OutInv(a) ==
  /\ pc[a] \in Pending =>
       /\ out[a].req = cur[a] /\ Executed(a) \in Yields[cur[a]]
       /\ out[a].last = IF Executed(a) > 0 THEN Len(room[a]) ELSE 0
       /\ out[a].replay = FALSE
  /\ pc[a] \in Written => Given(events, out[a], cur[a])
  /\ pc[a] = "release" /\ out[a] # NoAnswer =>
       Given(events, out[a], cur[a]) /\ results[CommandOf[cur[a]]].req = cur[a]
  /\ pc[a] \notin Pending \cup Written \cup {"release", "restore"} => out[a] = NoAnswer

\* Recorded answers are true, and are those of their command id.
ResultInv ==
  \A c \in Commands : results[c] # NoAnswer =>
    CommandOf[results[c].req] = c /\ Given(events, results[c], results[c].req)

\* An answer is given to a caller only after it, or another one for the same request,
\* has been recorded.
AckInv ==
  \A k \in acks :
    Given(events, k.answer, k.to) /\ results[CommandOf[k.to]].req = k.to

AnswerInv ==
  /\ Batches(events)
  /\ \A a \in Actors : RoomInv(a) /\ OutInv(a)
  /\ ResultInv /\ AckInv

LEMMA InitAnswerInv == Init => AnswerInv
<1> SUFFICES ASSUME Init PROVE AnswerInv
  OBVIOUS
<1>1. Batches(events)
  BY DEF Init, Batches
<1>2. \A a \in Actors : RoomInv(a) /\ OutInv(a)
  <2>1. On(<<>>, Len(<<>>), <<>>)
    BY DEF On
  <2> QED
    BY <2>1 DEF Init, RoomInv, OutInv, Recovered, Executing, Pending, Written
<1>3. ResultInv /\ AckInv
  BY DEF Init, ResultInv, AckInv
<1> QED
  BY <1>1, <1>2, <1>3 DEF AnswerInv

-----------------------------------------------------------------------------
\* A step of actor a leaves the others' dispatches and aggregates alone.
ActorStep(a) ==
  \/ \E r \in Requests : Dispatch(a, r)
  \/ Acquire(a) \/ Read(a) \/ Execute(a) \/ Write(a)
  \/ Restore(a) \/ Release(a) \/ Refresh(a)
  \/ CallFails(a) \/ Crash(a)

Untouched(b) ==
  /\ pc'[b] = pc[b] /\ cur'[b] = cur[b] /\ ver'[b] = ver[b]
  /\ room'[b] = room[b] /\ out'[b] = out[b]
  /\ b \in suspect' <=> b \in suspect

LEMMA OthersUntouched ==
  ASSUME CallOK, NEW a \in Actors, ActorStep(a), NEW b \in Actors \ {a}
  PROVE  Untouched(b)
<1> USE DEF CallOK, Untouched, Go, Return, Abort, locals
<1>1. ASSUME NEW r \in Requests, Dispatch(a, r) PROVE Untouched(b)
  BY <1>1 DEF Dispatch
<1>2. CASE Acquire(a)
  BY <1>2 DEF Acquire, AcquireMemory, AcquireGet, AcquireIncr, AcquireSetNx, AcquireNothing
<1>3. CASE Read(a)
  BY <1>3 DEF Read, Lookup, AssertLease, Recover, RecoverPresence, FindResult, FindEvents
<1>4. CASE Execute(a)
  BY <1>4 DEF Execute
<1>5. CASE AssertWrite(a) \/ CheckAppend(a) \/ CheckPresence(a) \/ CheckSave(a)
  BY <1>5 DEF AssertWrite, CheckAppend, CheckPresence, CheckSave, CheckThen
<1>6. CASE AppendBatch(a) \/ SavePresence(a) \/ UpsertPresence(a)
  BY <1>6 DEF AppendBatch, SavePresence, UpsertPresence, PutPresence
<1>7. CASE SaveResult(a)
  BY <1>7 DEF SaveResult
<1>8. CASE Restore(a) \/ Release(a) \/ Refresh(a)
  BY <1>8 DEF Restore, Release, Refresh
<1>9. CASE CallFails(a) \/ Crash(a)
  BY <1>9 DEF CallFails, Crash
<1> QED
  BY <1>1, <1>2, <1>3, <1>4, <1>5, <1>6, <1>7, <1>8, <1>9 DEF ActorStep, Write

\* The stream is appended to by appendBatch, answers are recorded by SaveResult and
\* given by Lookup and Release; nobody else does any of it.
LEMMA WhoWrites ==
  ASSUME NEW a \in Actors, ActorStep(a)
  PROVE  /\ AppendBatch(a) \/ UNCHANGED events
         /\ SaveResult(a) \/ UNCHANGED results
         /\ Lookup(a) \/ Release(a) \/ UNCHANGED acks
<1> USE DEF durable
<1>1. ASSUME NEW r \in Requests, Dispatch(a, r) PROVE UNCHANGED <<events, results, acks>>
  BY <1>1 DEF Dispatch
<1>2. CASE Acquire(a)
  BY <1>2 DEF Acquire, AcquireMemory, AcquireGet, AcquireIncr, AcquireSetNx, AcquireNothing
<1>3. CASE Read(a)
  BY <1>3 DEF Read, Lookup, AssertLease, Recover, RecoverPresence, FindResult, FindEvents
<1>4. CASE Execute(a)
  BY <1>4 DEF Execute
<1>5. CASE Write(a)
  BY <1>5 DEF Write, AssertWrite, CheckAppend, CheckPresence, CheckSave, CheckThen,
     AppendBatch, SavePresence, UpsertPresence, SaveResult
<1>6. CASE Restore(a) \/ Release(a) \/ Refresh(a) \/ CallFails(a) \/ Crash(a)
  BY <1>6 DEF Restore, Release, Refresh, CallFails, Crash
<1> QED
  BY <1>1, <1>2, <1>3, <1>4, <1>5, <1>6 DEF ActorStep

-----------------------------------------------------------------------------
LEMMA TypeFacts ==
  ASSUME TypeInv, NEW a \in Actors
  PROVE  /\ events \in Seq(Row) /\ Len(events) \in Nat
         /\ room[a] \in Seq(Requests) /\ Len(room[a]) \in Nat /\ ver[a] \in Nat
         /\ out[a] \in Answers \cup {NoAnswer} /\ out[a].last \in Nat
         /\ pc[a] # "idle" => cur[a] \in Requests
         /\ results \in [Commands -> Answers \cup {NoAnswer}]
         /\ pc \in [Actors -> Steps] /\ cur \in [Actors -> Requests \cup {NoRequest}]
         /\ ver \in [Actors -> Nat] /\ room \in [Actors -> Seq(Requests)]
         /\ out \in [Actors -> Answers \cup {NoAnswer}]
<1>1. /\ events \in Seq(Row) /\ room[a] \in Seq(Requests) /\ ver[a] \in Nat
      /\ out[a] \in Answers \cup {NoAnswer}
      /\ results \in [Commands -> Answers \cup {NoAnswer}]
      /\ pc \in [Actors -> Steps] /\ cur \in [Actors -> Requests \cup {NoRequest}]
      /\ ver \in [Actors -> Nat] /\ room \in [Actors -> Seq(Requests)]
      /\ out \in [Actors -> Answers \cup {NoAnswer}]
  BY DEF TypeInv, TypeOK, StoreOK, CallOK, Row
<1>2. out[a].last \in Nat
  BY <1>1 DEF Answers, NoAnswer
<1>3. pc[a] # "idle" => cur[a] \in Requests
  BY DEF TypeInv, Locals
<1> QED
  BY <1>1, <1>2, <1>3, RowOf, LenProperties

\* Dispatches that make no step, or none that tells: b is another actor.
LEMMA OthersKeep ==
  ASSUME TypeInv, AnswerInv, events' \in Seq(Row), Grown(events, events'),
         \A c \in Commands : results[c] # NoAnswer => results'[c] = results[c],
         NEW b \in Actors, Untouched(b)
  PROVE  RoomInv(b)' /\ OutInv(b)'
<1>1. RoomInv(b) /\ OutInv(b) /\ Batches(events)
  BY DEF AnswerInv
<1>2. /\ events \in Seq(Row) /\ room[b] \in Seq(Requests) /\ Len(room[b]) \in Nat
      /\ ver[b] \in Nat /\ out[b].last \in Nat /\ (pc[b] # "idle" => cur[b] \in Requests)
  BY TypeFacts
<1>3. \A n \in Nat : On(room[b], n, events) => On(room[b], n, events')
  BY <1>2, OnStays
<1>4. RoomInv(b)'
  BY <1>1, <1>2, <1>3 DEF RoomInv, Untouched
<1>5. Given(events, out[b], cur[b]) => Given(events', out[b], cur[b])
  BY <1>1, <1>2, GivenStays
<1>6. pc[b] = "release" /\ results[CommandOf[cur[b]]].req = cur[b] =>
        results'[CommandOf[cur[b]]].req = cur[b]
  <2> SUFFICES ASSUME pc[b] = "release", results[CommandOf[cur[b]]].req = cur[b]
               PROVE  results'[CommandOf[cur[b]]] = results[CommandOf[cur[b]]]
    OBVIOUS
  <2>1. cur[b] \in Requests /\ CommandOf[cur[b]] \in Commands
    BY <1>2, ActorAssumption
  <2> QED
    BY <2>1, ActorAssumption DEF NoAnswer
<1>7. Executed(b)' = Executed(b)
  BY DEF Executed, Untouched
<1>8. OutInv(b)'
  BY <1>1, <1>5, <1>6, <1>7 DEF OutInv, Untouched
<1> QED
  BY <1>4, <1>8

\* The actor's own dispatch, outside of execution, with nothing to tell.
LEMMA CalmKeeps ==
  ASSUME NEW a \in Actors, RoomInv(a), UNCHANGED events,
         pc[a] \notin Pending \cup {"restore"},
         pc'[a] \notin Pending \cup Written \cup {"restore"},
         pc'[a] \in Recovered => pc[a] \in Recovered,
         room'[a] = room[a], a \in suspect' <=> a \in suspect, out'[a] = NoAnswer
  PROVE  RoomInv(a)' /\ OutInv(a)'
<1>1. Executing \subseteq Pending \cup Written \cup {"restore"}
  BY DEF Executing, Pending, Written
<1> QED
  BY <1>1 DEF RoomInv, OutInv

\* A failed write: the aggregate still has its beginning from the stream.
LEMMA ToRestoreKeeps ==
  ASSUME TypeInv, NEW a \in Actors, RoomInv(a), pc[a] \in Executing, pc'[a] = "restore",
         ver'[a] = ver[a], room'[a] = room[a], a \in suspect' <=> a \in suspect,
         events' \in Seq(Row), Grown(events, events')
  PROVE  RoomInv(a)' /\ OutInv(a)'
<1>1. /\ events \in Seq(Row) /\ Len(events) \in Nat
      /\ room[a] \in Seq(Requests) /\ Len(room[a]) \in Nat /\ ver[a] \in Nat
  BY TypeFacts
<1>2. ver[a] <= Len(room[a])
  BY DEF TypeInv, Locals
<1>3. a \notin suspect
  BY DEF RoomInv
<1>4. On(room[a], ver[a], events)
  BY <1>1, <1>2, <1>3 DEF RoomInv, On
<1>5. On(room[a], ver[a], events')
  BY <1>1, <1>4, OnStays
<1> QED
  BY <1>3, <1>5 DEF RoomInv, OutInv, Recovered, Pending, Written

\* Writes that follow the append, and writes without one.
LEMMA WrittenKeeps ==
  ASSUME NEW a \in Actors, RoomInv(a), OutInv(a), UNCHANGED events,
         pc[a] \in Written, pc'[a] \in Written, cur'[a] = cur[a],
         room'[a] = room[a], a \in suspect' <=> a \in suspect, out'[a] = out[a]
  PROVE  RoomInv(a)' /\ OutInv(a)'
BY DEF RoomInv, OutInv, Recovered, Executing, Pending, Written

-----------------------------------------------------------------------------
\* The actions, one after the other: what they leave of the actor's own dispatch.

LEMMA EntryKeeps ==
  ASSUME TypeInv, AnswerInv, NEW a \in Actors,
         \/ \E r \in Requests : Dispatch(a, r)
         \/ Acquire(a) \/ Lookup(a) \/ AssertLease(a) \/ RecoverPresence(a) \/ Release(a)
  PROVE  RoomInv(a)' /\ OutInv(a)'
<1> USE DEF Go, Return, Abort, locals, durable
<1>1. RoomInv(a) /\ OutInv(a)
  BY DEF AnswerInv
<1>2. /\ pc \in [Actors -> Steps] /\ out \in [Actors -> Answers \cup {NoAnswer}]
  BY TypeFacts
<1> DEFINE Calm ==
      /\ UNCHANGED <<events, room, suspect>>
      /\ pc[a] \notin Pending \cup {"restore"}
      /\ pc'[a] \notin Pending \cup Written \cup {"restore"}
      /\ pc'[a] \in Recovered => pc[a] \in Recovered
      /\ out'[a] = NoAnswer
<1>3. pc[a] \notin Pending \cup Written \cup {"release", "restore"} => out[a] = NoAnswer
  BY <1>1 DEF OutInv
<1> USE DEF Pending, Written, Recovered
<1>4. ASSUME NEW r \in Requests, Dispatch(a, r) PROVE Calm
  BY <1>2, <1>3, <1>4 DEF Dispatch
<1>5. CASE AcquireMemory(a)
  <2>1. Calm
    BY <1>2, <1>3, <1>5 DEF AcquireMemory
  <2> QED
    BY <1>1, <2>1, CalmKeeps
<1>6. CASE AcquireGet(a) \/ AcquireIncr(a) \/ AcquireSetNx(a) \/ AcquireNothing(a)
  <2>1. Calm
    BY <1>2, <1>3, <1>6 DEF AcquireGet, AcquireIncr, AcquireSetNx, AcquireNothing
  <2> QED
    BY <1>1, <2>1, CalmKeeps
<1>7. CASE Lookup(a)
  <2>1. Calm
    BY <1>2, <1>3, <1>7 DEF Lookup
  <2> QED
    BY <1>1, <2>1, CalmKeeps
<1>8. CASE AssertLease(a) \/ RecoverPresence(a)
  <2>1. Calm
    BY <1>2, <1>3, <1>8 DEF AssertLease, RecoverPresence
  <2> QED
    BY <1>1, <2>1, CalmKeeps
<1>9. CASE Release(a)
  <2>1. Calm
    BY <1>2, <1>9 DEF Release
  <2> QED
    BY <1>1, <2>1, CalmKeeps
<1>10. ASSUME NEW r \in Requests, Dispatch(a, r) PROVE RoomInv(a)' /\ OutInv(a)'
  BY <1>1, <1>4, <1>10, CalmKeeps
<1> QED
  BY <1>5, <1>6, <1>7, <1>8, <1>9, <1>10 DEF Acquire

LEMMA RebuildKeeps ==
  ASSUME TypeInv, AnswerInv, NEW a \in Actors, Recover(a) \/ Refresh(a)
  PROVE  RoomInv(a)' /\ OutInv(a)'
<1> USE DEF Go
<1>1. RoomInv(a) /\ OutInv(a)
  BY DEF AnswerInv
<1>2. /\ pc \in [Actors -> Steps] /\ room \in [Actors -> Seq(Requests)] /\ events \in Seq(Row)
  BY TypeFacts
<1>3. /\ UNCHANGED <<events, out>> /\ room'[a] = Requested(events) /\ a \notin suspect'
      /\ \/ pc[a] = "recover" /\ pc'[a] = "presence"
         \/ pc[a] = "idle" /\ pc'[a] = "idle"
  BY <1>2 DEF Recover, Refresh, durable
<1>4. On(room'[a], Len(room'[a]), events')
  BY <1>2, <1>3, RebuiltOn
<1> QED
  BY <1>1, <1>3, <1>4 DEF RoomInv, OutInv, Recovered, Executing, Pending, Written

\* The two reads of _findStoredCommand: an answer is taken from the record, or made up
\* from the last of the command's events.
LEMMA FindKeeps ==
  ASSUME TypeInv, AnswerInv, NEW a \in Actors, FindResult(a) \/ FindEvents(a)
  PROVE  RoomInv(a)' /\ OutInv(a)'
<1> USE DEF Go, Abort
<1>1. RoomInv(a) /\ OutInv(a) /\ ResultInv /\ Batches(events)
  BY DEF AnswerInv
<1>2. /\ pc \in [Actors -> Steps] /\ out \in [Actors -> Answers \cup {NoAnswer}]
      /\ cur[a] \in Requests /\ events \in Seq(Row) /\ Len(events) \in Nat
  BY TypeFacts DEF FindResult, FindEvents
<1>3. CommandOf[cur[a]] \in Commands /\ NoAnswer.req \notin Requests
  BY <1>2, ActorAssumption DEF NoAnswer
<1>4. UNCHANGED <<events, results, cur, ver, room, suspect>>
  BY DEF FindResult, FindEvents, durable
<1>5. pc[a] \notin Pending \cup Written \cup {"release", "restore"} /\ pc[a] \in Recovered
  BY DEF FindResult, FindEvents, Pending, Written, Recovered
<1>6. CASE pc'[a] \in {"findEvents", "execute"} /\ UNCHANGED out
  BY <1>1, <1>4, <1>5, <1>6, CalmKeeps DEF OutInv, Pending, Written, Recovered
<1>7. CASE pc'[a] = "release" /\ out'[a] = NoAnswer
  BY <1>1, <1>4, <1>5, <1>7, CalmKeeps DEF Pending, Written, Recovered
<1>8. CASE pc'[a] = "release" /\ results[CommandOf[cur[a]]].req = cur[a]
           /\ out'[a] = results[CommandOf[cur[a]]]
  <2>1. Given(events, out'[a], cur[a])
    BY <1>1, <1>2, <1>3, <1>8 DEF ResultInv
  <2> QED
    BY <1>1, <1>4, <1>5, <1>8, <2>1
       DEF RoomInv, OutInv, Recovered, Executing, Pending, Written
<1>9. ASSUME NEW last \in MatchingEvents(CommandOf[cur[a]]), pc'[a] = "save",
             \A i \in MatchingEvents(CommandOf[cur[a]]) : i <= last,
             SameRequest(events[last], cur[a]),
             out'[a] = [req |-> cur[a], last |-> last, version |-> Len(room[a]),
                        replay |-> TRUE]
      PROVE  RoomInv(a)' /\ OutInv(a)'
  <2>1. last \in 1..Len(events) /\ events[last].req = cur[a]
    BY <1>2, <1>9, LenProperties DEF MatchingEvents, SameRequest
  <2>2. out'[a].last = last /\ out'[a].req = cur[a]
    BY <1>9
  <2>3. ASSUME Len(events) <= ReadLimit PROVE EndOfBatch(events, last)
    <3> SUFFICES ASSUME last + 1 \in 1..Len(events), events[last + 1].base = events[last].base
                 PROVE  FALSE
      BY DEF EndOfBatch
    <3>1. events[last + 1].req = cur[a]
      BY <1>1, <2>1 DEF Batches
    <3>2. last + 1 \in MatchingEvents(CommandOf[cur[a]])
      BY <1>2, <2>1, <2>3, <3>1, LenProperties, ActorAssumption DEF MatchingEvents
    <3> QED
      BY <1>9, <2>1, <3>2
  <2>4. Given(events, out'[a], cur[a])
    BY <2>1, <2>2, <2>3 DEF Given
  <2> QED
    BY <1>1, <1>4, <1>5, <1>9, <2>4
       DEF RoomInv, OutInv, Recovered, Executing, Pending, Written
<1>10. CASE FindResult(a)
  BY <1>2, <1>6, <1>7, <1>8, <1>10 DEF FindResult, SameRequest
<1>11. CASE FindEvents(a)
  <2>1. CASE UNCHANGED out /\ pc'[a] = "execute"
    BY <1>6, <2>1
  <2>2. CASE pc'[a] = "release" /\ out'[a] = NoAnswer
    BY <1>7, <2>2
  <2>3. ASSUME NEW last \in MatchingEvents(CommandOf[cur[a]]),
               \A i \in MatchingEvents(CommandOf[cur[a]]) : i <= last,
               SameRequest(events[last], cur[a]), Go(a, "save"),
               out' = [out EXCEPT ![a] = [req |-> cur[a], last |-> last,
                                          version |-> Len(room[a]), replay |-> TRUE]]
        PROVE  RoomInv(a)' /\ OutInv(a)'
    BY <1>2, <1>9, <2>3
  <2> QED
    BY <1>2, <1>11, <2>1, <2>2, <2>3 DEF FindEvents
<1> QED
  BY <1>10, <1>11

\* Room.execute: the new events are in memory, after those of the stream.
LEMMA ExecuteKeeps ==
  ASSUME TypeInv, AnswerInv, NEW a \in Actors, Execute(a)
  PROVE  RoomInv(a)' /\ OutInv(a)'
<1> USE DEF Go, Abort
<1>1. RoomInv(a) /\ OutInv(a)
  BY DEF AnswerInv
<1>2. /\ pc \in [Actors -> Steps] /\ out \in [Actors -> Answers \cup {NoAnswer}]
      /\ room \in [Actors -> Seq(Requests)] /\ room[a] \in Seq(Requests)
      /\ Len(room[a]) \in Nat /\ ver[a] \in Nat /\ cur[a] \in Requests
  BY TypeFacts DEF Execute
<1>3. UNCHANGED <<events, results, cur, ver, suspect>> /\ pc[a] = "execute"
  BY DEF Execute, durable
<1>4. CASE pc'[a] = "release" /\ out'[a] = NoAnswer /\ UNCHANGED room
  BY <1>1, <1>3, <1>4, CalmKeeps DEF Pending, Written, Recovered
<1>5. ASSUME NEW n \in Yields[cur[a]],
             room' = [room EXCEPT ![a] = room[a] \o [i \in 1..n |-> cur[a]]],
             out' = [out EXCEPT ![a] = [req |-> cur[a], last |-> IF n > 0 THEN ver[a] + n ELSE 0,
                                        version |-> ver[a] + n, replay |-> FALSE]],
             Go(a, "assertWrite")
      PROVE  RoomInv(a)' /\ OutInv(a)'
  <2>1. n \in Nat
    <3>1. Yields[cur[a]] \subseteq 0..2
      BY <1>2, ActorAssumption
    <3> QED
      BY <3>1
  <2>2. Len(room[a]) = ver[a] /\ a \notin suspect /\ On(room[a], ver[a], events)
    BY <1>1, <1>3 DEF TypeInv, Locals, RoomInv, Recovered, Pending
  <2>3. /\ Len(room'[a]) = ver[a] + n
        /\ \A i \in 1..ver[a] : room'[a][i] = room[a][i]
        /\ \A i \in ver[a] + 1 .. ver[a] + n : room'[a][i] = cur[a]
    <3> DEFINE grown == room[a] \o [i \in 1..n |-> cur[a]]
    <3>1. room'[a] = grown
      BY <1>2, <1>5
    <3>2. /\ Len(grown) = Len(room[a]) + n
          /\ \A i \in 1..Len(room[a]) : grown[i] = room[a][i]
          /\ \A i \in Len(room[a])+1 .. Len(room[a])+n : grown[i] = cur[a]
      BY <1>2, <2>1, BatchType
    <3> HIDE DEF grown
    <3> QED
      BY <2>2, <3>1, <3>2
  <2>4. On(room'[a], ver[a], events)
    BY <1>2, <2>1, <2>2, <2>3 DEF On
  <2>5. RoomInv(a)'
    BY <1>2, <1>3, <1>5, <2>2, <2>3, <2>4 DEF RoomInv, Pending
  <2>6. Executed(a)' = n
    BY <1>2, <1>3, <2>1, <2>3 DEF Executed
  <2>7. /\ out'[a].req = cur[a] /\ out'[a].last = IF n > 0 THEN ver[a] + n ELSE 0
        /\ out'[a].replay = FALSE
    BY <1>2, <1>5
  <2>8. pc'[a] = "assertWrite"
    BY <1>2, <1>5
  <2>9. OutInv(a)'
    BY <1>3, <2>3, <2>6, <2>7, <2>8 DEF OutInv, Pending, Written
  <2> QED
    BY <2>5, <2>9
<1> QED
  BY <1>2, <1>4, <1>5 DEF Execute

\* The checks of the lock before each write.
LEMMA CheckKeeps ==
  ASSUME TypeInv, AnswerInv, NEW a \in Actors,
         AssertWrite(a) \/ CheckAppend(a) \/ CheckPresence(a) \/ CheckSave(a)
  PROVE  RoomInv(a)' /\ OutInv(a)'
<1> USE DEF Go, Abort
<1>1. RoomInv(a) /\ OutInv(a)
  BY DEF AnswerInv
<1>2. /\ pc \in [Actors -> Steps] /\ out \in [Actors -> Answers \cup {NoAnswer}]
      /\ Len(room[a]) \in Nat /\ ver[a] \in Nat /\ events \in Seq(Row) /\ cur[a] \in Requests
  BY TypeFacts DEF AssertWrite, CheckAppend, CheckPresence, CheckSave, CheckThen
<1>3. UNCHANGED <<events, results, cur, ver, room, suspect>> /\ Grown(events, events')
  BY <1>2, NothingAppended
     DEF AssertWrite, CheckAppend, CheckPresence, CheckSave, CheckThen, durable
<1>4. pc[a] \in Executing
  BY DEF AssertWrite, CheckAppend, CheckPresence, CheckSave, CheckThen, Executing
<1>5. CASE pc'[a] = "restore"
  BY <1>1, <1>2, <1>3, <1>4, <1>5, ToRestoreKeeps
<1>6. CASE pc[a] \in Written /\ pc'[a] \in Written /\ UNCHANGED out
  BY <1>1, <1>3, <1>6, WrittenKeeps
<1>7. CASE pc[a] \in Written /\ pc'[a] = "release" /\ out'[a] = NoAnswer
  BY <1>1, <1>3, <1>7, CalmKeeps DEF Pending, Written, Recovered
<1>8. CASE pc[a] \in Pending /\ pc'[a] \in Pending /\ UNCHANGED out
  <2>1. Executed(a)' = Executed(a)
    BY <1>3 DEF Executed
  <2> QED
    BY <1>1, <1>3, <1>8, <2>1 DEF RoomInv, OutInv, Recovered, Executing, Pending, Written
<1>9. CASE pc[a] \in Pending /\ Executed(a) = 0 /\ pc'[a] \in {"putPresence", "save"}
           /\ UNCHANGED out
  <2>1. Len(room[a]) = ver[a]
    BY <1>2, <1>9 DEF Executed
  <2>2. Given(events, out[a], cur[a])
    BY <1>1, <1>9 DEF OutInv, Given
  <2> QED
    BY <1>1, <1>3, <1>9, <2>1, <2>2
       DEF RoomInv, OutInv, Recovered, Executing, Pending, Written
<1>10. CASE AssertWrite(a)
  BY <1>2, <1>5, <1>8, <1>9, <1>10 DEF AssertWrite, Pending
<1>11. CASE CheckAppend(a)
  BY <1>2, <1>5, <1>8, <1>11 DEF CheckAppend, CheckThen, Pending
<1>12. CASE CheckPresence(a) \/ CheckSave(a)
  BY <1>2, <1>5, <1>6, <1>7, <1>12 DEF CheckPresence, CheckSave, CheckThen, Written
<1> QED
  BY <1>10, <1>11, <1>12

\* appendBatch: the batch of the command is in the stream, and its answer names the last
\* event of it; or nothing was appended.
LEMMA AppendKeeps ==
  ASSUME TypeInv, AnswerInv, NEW a \in Actors, AppendBatch(a)
  PROVE  /\ RoomInv(a)' /\ OutInv(a)'
         /\ events' \in Seq(Row) /\ Grown(events, events') /\ Batches(events')
<1> DEFINE e == [req |-> cur[a], token |-> tok[a], base |-> ver[a]]
<1> USE DEF Go
<1>1. RoomInv(a) /\ OutInv(a) /\ Batches(events)
  BY DEF AnswerInv
<1>2. pc[a] \in Pending /\ pc[a] \in Executing /\ pc[a] # "idle" /\ UNCHANGED <<cur, ver, room, out, suspect>>
  BY DEF AppendBatch, Pending, Executing
<1>3. /\ events \in Seq(Row) /\ Len(events) \in Nat /\ cur[a] \in Requests
      /\ room[a] \in Seq(Requests) /\ Len(room[a]) \in Nat /\ ver[a] \in Nat
      /\ pc \in [Actors -> Steps]
  BY <1>2, TypeFacts
<1>4. CASE events' = events /\ pc'[a] = "restore"
  <2>1. Grown(events, events')
    BY <1>3, <1>4, NothingAppended
  <2> QED
    BY <1>1, <1>2, <1>3, <1>4, <2>1, ToRestoreKeeps
<1>5. CASE /\ Len(events) = ver[a] /\ events' = events \o [i \in 1..Executed(a) |-> e]
           /\ pc'[a] \in {"save", "restore"}
  <2>1. ver[a] <= Len(room[a]) /\ Executed(a) \in Nat /\ ver[a] + Executed(a) = Len(room[a])
    BY <1>2, <1>3 DEF TypeInv, Locals, Executed
  <2>2. e \in Row /\ e.base = Len(events) /\ e.req = cur[a]
    <3>1. tok[a] \in Int
      BY DEF TypeInv, TypeOK, LockOK
    <3> QED
      BY <1>3, <1>5, <3>1 DEF Row
  <2> HIDE DEF e
  <2>3. /\ events' \in Seq(Row) /\ Len(events') = Len(room[a])
        /\ Grown(events, events') /\ Batches(events')
        /\ \A i \in ver[a] + 1 .. Len(events') : events'[i] = e
    <3>1. /\ events \o [i \in 1..Executed(a) |-> e] \in Seq(Row)
          /\ Len(events \o [i \in 1..Executed(a) |-> e]) = Len(events) + Executed(a)
          /\ \A i \in 1..Len(events) : (events \o [j \in 1..Executed(a) |-> e])[i] = events[i]
          /\ \A i \in Len(events)+1 .. Len(events)+Executed(a) :
               (events \o [j \in 1..Executed(a) |-> e])[i] = e
      <4>1. events \in Seq(Row) /\ Executed(a) \in Nat /\ e \in Row
        BY <1>3, <2>1, <2>2
      <4> QED
        BY SMTT(30), <4>1, BatchType
    <3>2. /\ events' \in Seq(Row) /\ Len(events') = Len(events) + Executed(a)
          /\ \A i \in 1..Len(events) : events'[i] = events[i]
          /\ \A i \in Len(events)+1 .. Len(events)+Executed(a) : events'[i] = e
      BY <1>5, <3>1
    <3>3. Grown(events, events') /\ Batches(events')
      BY <1>1, <1>3, <2>1, <2>2, <3>2, AppendedBatch
    <3> QED
      BY <1>5, <2>1, <3>2, <3>3
  <2>4. CASE pc'[a] = "restore"
    BY <1>1, <1>2, <1>3, <2>3, <2>4, ToRestoreKeeps
  <2>5. CASE pc'[a] = "save"
    <3>1. On(room[a], Len(room[a]), events')
      <4>1. \A i \in 1..ver[a] : room[a][i] = events'[i].req
        BY <1>1, <1>2, <1>3, <1>5, <2>3 DEF RoomInv, On, Grown
      <4>2. \A i \in ver[a] + 1 .. Len(room[a]) : room[a][i] = events'[i].req
        BY <1>1, <1>2, <2>2, <2>3 DEF RoomInv
      <4> QED
        BY <1>3, <2>1, <2>3, <4>1, <4>2 DEF On
    <3>2. Given(events', out[a], cur[a])
      <4>1. CASE Executed(a) = 0
        BY <1>1, <1>2, <4>1 DEF OutInv, Given
      <4>2. CASE Executed(a) > 0
        <5>1. out[a].req = cur[a] /\ out[a].last = Len(events') /\ Len(events') > 0
          BY <1>1, <1>2, <1>3, <2>1, <2>3, <4>2 DEF OutInv
        <5>2. events'[Len(events')] = e
          <6>1. Len(events') \in ver[a] + 1 .. Len(events')
            BY <1>3, <2>1, <2>3, <4>2
          <6> QED
            BY <2>3, <6>1
        <5>3. EndOfBatch(events', Len(events'))
          BY <1>3, <2>3 DEF EndOfBatch
        <5> QED
          BY <1>3, <2>2, <2>3, <5>1, <5>2, <5>3 DEF Given
      <4> QED
        BY <2>1, <4>1, <4>2
    <3> QED
      BY <1>1, <1>2, <2>3, <2>5, <3>1, <3>2
         DEF RoomInv, OutInv, Recovered, Executing, Pending, Written
  <2> QED
    BY <1>5, <2>3, <2>4, <2>5
<1> QED
  BY <1>3, <1>4, <1>5 DEF AppendBatch

\* The presence overlay says nothing about the stream.
LEMMA PresenceKeeps ==
  ASSUME TypeInv, AnswerInv, NEW a \in Actors, SavePresence(a) \/ UpsertPresence(a)
  PROVE  RoomInv(a)' /\ OutInv(a)'
<1> USE DEF Go, PutPresence
<1>1. RoomInv(a) /\ OutInv(a)
  BY DEF AnswerInv
<1>2. pc \in [Actors -> Steps] /\ events \in Seq(Row)
  BY TypeFacts
<1>3. UNCHANGED <<events, cur, ver, room, out, suspect>>
  BY DEF SavePresence, UpsertPresence
<1>4. pc[a] \in Written /\ pc[a] \in Executing
  BY DEF SavePresence, UpsertPresence, Written, Executing
<1>5. Grown(events, events')
  BY <1>2, <1>3, NothingAppended
<1>6. CASE pc'[a] = "restore"
  BY <1>1, <1>2, <1>3, <1>4, <1>5, <1>6, ToRestoreKeeps
<1>7. CASE pc'[a] \in Written
  BY <1>1, <1>3, <1>4, <1>7, WrittenKeeps
<1>8. pc'[a] \in {"restore", "save", "upsert"}
  BY <1>2 DEF SavePresence, UpsertPresence
<1> QED
  BY <1>6, <1>7, <1>8 DEF Written

\* An answer is recorded once: what is there stays there.
LEMMA RecordedStays ==
  ASSUME TypeInv, NEW a \in Actors, SaveResult(a)
  PROVE  \A c \in Commands : results[c] # NoAnswer => results'[c] = results[c]
<1>1. results \in [Commands -> Answers \cup {NoAnswer}]
  BY TypeFacts
<1> QED
  BY <1>1 DEF SaveResult

\* _saveCommandResult: whoever leaves with an answer leaves it recorded.
LEMMA SaveKeeps ==
  ASSUME TypeInv, AnswerInv, NEW a \in Actors, SaveResult(a)
  PROVE  RoomInv(a)' /\ OutInv(a)' /\ ResultInv'
<1> DEFINE c == CommandOf[cur[a]]
<1> USE DEF Go, Abort
<1>1. RoomInv(a) /\ OutInv(a) /\ ResultInv
  BY DEF AnswerInv
<1>2. pc[a] \in Written /\ pc[a] \in Executing /\ pc[a] # "idle"
  BY DEF SaveResult, Written, Executing
<1>3. /\ pc \in [Actors -> Steps] /\ out \in [Actors -> Answers \cup {NoAnswer}]
      /\ events \in Seq(Row) /\ cur[a] \in Requests
      /\ results \in [Commands -> Answers \cup {NoAnswer}]
  BY <1>2, TypeFacts
<1>4. c \in Commands /\ NoAnswer.req \notin Requests
  BY <1>3, ActorAssumption DEF NoAnswer
<1>5. UNCHANGED <<events, cur, ver, room, suspect>> /\ Grown(events, events')
  BY <1>3, NothingAppended DEF SaveResult
<1>6. Given(events, out[a], cur[a]) /\ out[a].req = cur[a]
  BY <1>1, <1>2 DEF OutInv, Given
<1>7. ASSUME results' = [results EXCEPT ![c] = out[a]] PROVE ResultInv'
  <2> SUFFICES ASSUME NEW d \in Commands, results'[d] # NoAnswer
               PROVE  CommandOf[results'[d].req] = d /\ Given(events, results'[d], results'[d].req)
    BY <1>5 DEF ResultInv
  <2>1. CASE d = c
    BY <1>3, <1>4, <1>6, <1>7, <2>1
  <2>2. CASE d # c
    BY <1>1, <1>3, <1>7, <2>2 DEF ResultInv
  <2> QED
    BY <2>1, <2>2
<1>8. UNCHANGED results => ResultInv'
  BY <1>1, <1>5 DEF ResultInv
<1>9. ASSUME pc'[a] = "restore" PROVE RoomInv(a)' /\ OutInv(a)'
  BY <1>1, <1>2, <1>3, <1>5, <1>9, ToRestoreKeeps
<1>10. ASSUME pc'[a] = "release", out'[a] = NoAnswer PROVE RoomInv(a)' /\ OutInv(a)'
  BY <1>1, <1>2, <1>5, <1>10, CalmKeeps DEF Pending, Written, Recovered
<1>11. ASSUME pc'[a] = "release", Given(events, out'[a], cur[a]), results'[c].req = cur[a]
       PROVE  RoomInv(a)' /\ OutInv(a)'
  BY <1>1, <1>2, <1>5, <1>11
     DEF RoomInv, OutInv, Recovered, Executing, Pending, Written
<1>12. SameRequest(results[c], cur[a]) =>
         results[c].req = cur[a] /\ Given(events, results[c], cur[a])
  BY <1>1, <1>3, <1>4 DEF ResultInv, SameRequest
<1>13. CASE /\ results[c] = NoAnswer /\ results' = [results EXCEPT ![c] = out[a]]
            /\ pc' = [pc EXCEPT ![a] = "release"] /\ UNCHANGED out
  BY <1>3, <1>4, <1>6, <1>7, <1>11, <1>13
<1>14. CASE /\ results' = [results EXCEPT ![c] = out[a]] \/ UNCHANGED results
            /\ pc'[a] = "restore" \/ (pc'[a] = "release" /\ out'[a] = NoAnswer)
  BY <1>7, <1>8, <1>9, <1>10, <1>14
<1>15. CASE /\ SameRequest(results[c], cur[a]) /\ pc' = [pc EXCEPT ![a] = "release"]
            /\ out' = [out EXCEPT ![a] = IF out[a].replay THEN out[a] ELSE results[c]]
            /\ UNCHANGED results
  <2>1. pc'[a] = "release" /\ out'[a] \in {out[a], results[c]}
    BY <1>3, <1>15
  <2> QED
    BY <1>6, <1>8, <1>11, <1>12, <1>15, <2>1
<1>16. pc' = [pc EXCEPT ![a] = "release"] /\ out' = [out EXCEPT ![a] = NoAnswer] =>
         pc'[a] = "release" /\ out'[a] = NoAnswer
  BY <1>3
<1>17. pc' = [pc EXCEPT ![a] = "restore"] => pc'[a] = "restore"
  BY <1>3
<1> QED
  BY <1>13, <1>14, <1>15, <1>16, <1>17 DEF SaveResult

\* _restoreAfterFailedPersistence: the stream's room, or what it was before the command.
LEMMA RestoreKeeps ==
  ASSUME TypeInv, AnswerInv, NEW a \in Actors, Restore(a)
  PROVE  RoomInv(a)' /\ OutInv(a)'
<1> USE DEF Go, Abort
<1>1. RoomInv(a) /\ OutInv(a)
  BY DEF AnswerInv
<1>2. pc[a] = "restore" /\ UNCHANGED <<events, cur, ver>>
  BY DEF Restore, durable
<1>3. /\ pc \in [Actors -> Steps] /\ out \in [Actors -> Answers \cup {NoAnswer}]
      /\ room \in [Actors -> Seq(Requests)] /\ room[a] \in Seq(Requests)
      /\ Len(room[a]) \in Nat /\ ver[a] \in Nat /\ events \in Seq(Row)
  BY TypeFacts
<1>4. pc'[a] = "release" /\ out'[a] = NoAnswer
  BY <1>3 DEF Restore
<1>5. OutInv(a)'
  BY <1>4 DEF OutInv, Pending, Written
<1>6. On(room[a], ver[a], events) /\ ver[a] <= Len(room[a])
  BY <1>1, <1>2 DEF RoomInv, TypeInv, Locals, Executing
<1>7. On(room'[a], Len(room'[a]), events) \/ a \in suspect'
  <2>1. CASE Executed(a) = 0 /\ UNCHANGED <<room, suspect>>
    BY <1>3, <1>6, <2>1 DEF Executed
  <2>2. CASE room' = [room EXCEPT ![a] = Requested(events)]
    BY <1>3, <2>2, RebuiltOn
  <2>3. CASE room' = [room EXCEPT ![a] = SubSeq(room[a], 1, ver[a])]
    <3>1. room'[a] = SubSeq(room[a], 1, ver[a])
      BY <1>3, <2>3
    <3>2. Len(room'[a]) = ver[a] /\ \A i \in 1..ver[a] : room'[a][i] = room[a][i]
      BY <1>3, <1>6, <3>1
    <3> QED
      BY <1>3, <1>6, <3>2 DEF On
  <2>4. CASE suspect' = suspect \cup {a}
    BY <2>4
  <2> QED
    BY <2>1, <2>2, <2>3, <2>4 DEF Restore
<1>8. RoomInv(a)'
  BY <1>2, <1>4, <1>7 DEF RoomInv, Recovered, Executing, Pending
<1> QED
  BY <1>5, <1>8

\* A call fails: the dispatch leaves, or goes to restore.
LEMMA FailsKeeps ==
  ASSUME TypeInv, AnswerInv, NEW a \in Actors, CallFails(a)
  PROVE  RoomInv(a)' /\ OutInv(a)'
<1> USE DEF Go, Return, Abort
<1>1. RoomInv(a) /\ OutInv(a)
  BY DEF AnswerInv
<1>2. /\ pc \in [Actors -> Steps] /\ out \in [Actors -> Answers \cup {NoAnswer}]
      /\ events \in Seq(Row)
  BY TypeFacts
<1>3. UNCHANGED <<events, room, suspect>> /\ Grown(events, events')
  BY <1>2, NothingAppended DEF CallFails, durable
<1>4. CASE /\ pc[a] \notin Executing /\ pc'[a] \in {"idle", "release"} /\ out'[a] = NoAnswer
  BY <1>1, <1>3, <1>4, CalmKeeps DEF Pending, Written, Recovered, Executing
<1>5. CASE pc[a] \in Executing /\ pc'[a] = "restore" /\ UNCHANGED ver
  BY <1>1, <1>2, <1>3, <1>5, ToRestoreKeeps
<1>6. CASE pc[a] \in Written /\ pc'[a] = "release" /\ out'[a] = NoAnswer
  BY <1>1, <1>3, <1>6, CalmKeeps DEF Pending, Written, Recovered
<1>7. CASE pc[a] \in Pending /\ out[a].replay
  <2>1. FALSE
    BY <1>1, <1>7 DEF OutInv
  <2> QED
    BY <2>1
<1> QED
  BY <1>2, <1>4, <1>5, <1>6, <1>7 DEF CallFails, Executing, Pending, Written

\* A new process starts with an empty aggregate.
LEMMA CrashKeeps ==
  ASSUME TypeInv, AnswerInv, NEW a \in Actors, Crash(a)
  PROVE  RoomInv(a)' /\ OutInv(a)'
<1> USE DEF Go, Return
<1>1. /\ pc \in [Actors -> Steps] /\ out \in [Actors -> Answers \cup {NoAnswer}]
      /\ room \in [Actors -> Seq(Requests)] /\ Len(events) \in Nat
  BY TypeFacts
<1>2. pc'[a] = "idle" /\ out'[a] = NoAnswer /\ room'[a] = <<>> /\ events' = events
  BY <1>1 DEF Crash, durable
<1>3. On(<<>>, Len(<<>>), events)
  BY <1>1 DEF On
<1> QED
  BY <1>2, <1>3 DEF RoomInv, OutInv, Recovered, Executing, Pending, Written

LEMMA OwnKeeps ==
  ASSUME TypeInv, AnswerInv, NEW a \in Actors, ActorStep(a)
  PROVE  RoomInv(a)' /\ OutInv(a)'
<1>1. CASE Read(a)
  BY <1>1, EntryKeeps, RebuildKeeps, FindKeeps DEF Read
<1>2. CASE Write(a)
  BY <1>2, CheckKeeps, AppendKeeps, PresenceKeeps, SaveKeeps DEF Write
<1> QED
  BY <1>1, <1>2, EntryKeeps, RebuildKeeps, ExecuteKeeps, RestoreKeeps, FailsKeeps,
     CrashKeeps DEF ActorStep

\* What callers have been told stays true, and what they are told now is.
LEMMA AcksKeep ==
  ASSUME TypeInv, AnswerInv, NEW a \in Actors, ActorStep(a),
         events' \in Seq(Row), Grown(events, events'),
         \A c \in Commands : results[c] # NoAnswer => results'[c] = results[c]
  PROVE  AckInv'
<1>1. /\ OutInv(a) /\ ResultInv /\ AckInv /\ Batches(events)
  BY DEF AnswerInv
<1>2. /\ events \in Seq(Row) /\ results \in [Commands -> Answers \cup {NoAnswer}]
      /\ acks \subseteq [to : Requests, answer : Answers]
      /\ pc[a] # "idle" => cur[a] \in Requests
      /\ out[a] \in Answers \cup {NoAnswer}
  BY TypeFacts DEF TypeInv, TypeOK, HistoryOK
<1>3. ASSUME NEW r \in Requests, results[CommandOf[r]].req = r
      PROVE  results'[CommandOf[r]].req = r
  <2>1. CommandOf[r] \in Commands /\ results[CommandOf[r]] # NoAnswer
    BY <1>3, ActorAssumption DEF NoAnswer
  <2> QED
    BY <1>3, <2>1
<1>4. ASSUME NEW r \in Requests, NEW answer \in Answers, Given(events, answer, r)
      PROVE  Given(events', answer, r)
  <2>1. answer.last \in Nat
    BY DEF Answers
  <2> QED
    BY <1>1, <1>2, <1>4, <2>1, GivenStays
<1>5. SUFFICES ASSUME NEW k \in acks'
               PROVE  /\ k.to \in Requests /\ k.answer \in Answers
                      /\ Given(events, k.answer, k.to)
                      /\ results[CommandOf[k.to]].req = k.to
  BY <1>3, <1>4 DEF AckInv
<1>6. CASE k \in acks
  BY <1>1, <1>2, <1>6 DEF AckInv
<1>7. CASE Lookup(a) /\ k \notin acks
  <2> DEFINE known == results[CommandOf[cur[a]]]
  <2>1. SameRequest(known, cur[a]) /\ k = [to |-> cur[a], answer |-> known]
    BY <1>7 DEF Lookup, Told
  <2>2. cur[a] \in Requests /\ CommandOf[cur[a]] \in Commands
    BY <1>2, <1>7, ActorAssumption DEF Lookup
  <2>3. known \in Answers /\ known # NoAnswer
    BY <1>2, <2>1, <2>2, ActorAssumption DEF SameRequest, NoAnswer
  <2>4. Given(events, known, cur[a]) /\ known.req = cur[a]
    BY <1>1, <2>1, <2>2, <2>3 DEF ResultInv, SameRequest
  <2> QED
    BY <2>1, <2>2, <2>3, <2>4
<1>8. CASE Release(a) /\ k \notin acks
  <2>1. pc[a] = "release" /\ out[a] # NoAnswer /\ k = [to |-> cur[a], answer |-> out[a]]
    BY <1>8 DEF Release, Told
  <2>2. cur[a] \in Requests /\ out[a] \in Answers
    BY <1>2, <2>1
  <2> QED
    BY <1>1, <2>1, <2>2 DEF OutInv
<1> QED
  BY <1>6, <1>7, <1>8, WhoWrites

\* Every step keeps the answers true of the stream, and the aggregates on it.
LEMMA AnswerInvStep ==
  ASSUME TypeInv, AnswerInv, [Next]_vars
  PROVE  AnswerInv'
<1>1. ASSUME NEW a \in Actors, ActorStep(a) PROVE AnswerInv'
  <2>1. events \in Seq(Row) /\ ResultInv /\ Batches(events) /\ CallOK
    BY TypeFacts, <1>1 DEF AnswerInv, TypeInv, TypeOK
  <2>2. events' \in Seq(Row) /\ Grown(events, events') /\ Batches(events')
    <3>1. CASE AppendBatch(a)
      BY <3>1, AppendKeeps
    <3>2. CASE UNCHANGED events
      BY <2>1, <3>2, NothingAppended
    <3> QED
      BY <1>1, <3>1, <3>2, WhoWrites
  <2>3. \A c \in Commands : results[c] # NoAnswer => results'[c] = results[c]
    BY <1>1, WhoWrites, RecordedStays
  <2>4. \A b \in Actors : RoomInv(b)' /\ OutInv(b)'
    <3> SUFFICES ASSUME NEW b \in Actors PROVE RoomInv(b)' /\ OutInv(b)'
      OBVIOUS
    <3>1. CASE b = a
      BY <1>1, <3>1, OwnKeeps
    <3>2. CASE b # a
      <4>1. Untouched(b)
        BY <1>1, <2>1, <3>2, OthersUntouched
      <4> QED
        BY <2>2, <2>3, <4>1, OthersKeep
    <3> QED
      BY <3>1, <3>2
  <2>5. ResultInv'
    <3>1. CASE SaveResult(a)
      BY <3>1, SaveKeeps
    <3>2. CASE UNCHANGED results
      <4> SUFFICES ASSUME NEW c \in Commands, results[c] # NoAnswer
                   PROVE  CommandOf[results[c].req] = c /\ Given(events', results[c], results[c].req)
        BY <3>2 DEF ResultInv
      <4>1. CommandOf[results[c].req] = c /\ Given(events, results[c], results[c].req)
        BY <2>1 DEF ResultInv
      <4>2. results[c].last \in Nat
        BY <1>1, TypeFacts DEF Answers, NoAnswer
      <4> QED
        BY <2>1, <2>2, <4>1, <4>2, GivenStays
    <3> QED
      BY <1>1, <3>1, <3>2, WhoWrites
  <2>6. AckInv'
    BY <1>1, <2>2, <2>3, AcksKeep
  <2> QED
    BY <2>2, <2>4, <2>5, <2>6 DEF AnswerInv
<1>2. CASE LeaseExpires \/ UNCHANGED vars
  <2>1. UNCHANGED <<events, results, pc, cur, ver, room, out, suspect, acks>>
    BY <1>2 DEF LeaseExpires, vars, durable
  <2>2. \A b \in Actors : RoomInv(b)' /\ OutInv(b)'
    BY <2>1 DEF AnswerInv, RoomInv, OutInv, Executed
  <2>3. ResultInv' /\ AckInv' /\ Batches(events)'
    BY <2>1 DEF AnswerInv, ResultInv, AckInv
  <2> QED
    BY <2>2, <2>3 DEF AnswerInv
<1> QED
  BY <1>1, <1>2 DEF Next, ActorStep

\* All of what the theorems below rest on holds in every reachable state.
LEMMA AlwaysAnswerInv == Spec => [](TypeInv /\ AnswerInv /\ AtMostOnce /\ AllFresh)
<1>1. Init => TypeInv /\ AnswerInv /\ AtMostOnce /\ AllFresh
  BY InitTypeInv, InitAnswerInv
     DEF Init, AtMostOnce, AppliedOnce, SameBatch, AllFresh, Fresh, Searched
<1>2. TypeInv /\ AnswerInv /\ AtMostOnce /\ AllFresh /\ [Next]_vars =>
        (TypeInv /\ AnswerInv /\ AtMostOnce /\ AllFresh)'
  BY TypeInvStep, AnswerInvStep, AtMostOnceStep
<1> QED
  BY <1>1, <1>2, PTL DEF Spec

-----------------------------------------------------------------------------
\* Between commands the aggregate shows only what is durable (IdleRoomIsDurable):
\* whatever failed, crashed or expired during the command, _dispatchNow has put the
\* aggregate back on the stream, unless the rebuild itself failed.
THEOREM IdleRoomIsDurableHolds == Spec => []IdleRoomIsDurable
<1>1. TypeInv /\ AnswerInv => IdleRoomIsDurable
  <2> SUFFICES ASSUME TypeInv, AnswerInv, NEW a \in Actors, pc[a] = "idle", a \notin suspect
               PROVE  IsPrefixOf(room[a], Requested(events))
    BY DEF IdleRoomIsDurable
  <2>1. On(room[a], Len(room[a]), events)
    BY DEF AnswerInv, RoomInv, Pending
  <2> QED
    BY <2>1, TypeFacts, OnIsPrefix
<1> QED
  BY <1>1, AlwaysAnswerInv, PTL

\* An answer that names an event is given only when that event is durable, is of the
\* caller's own command and is the last of it (AckedEventIsDurable): answers are
\* recorded after the append and given after they are recorded.
THEOREM AckedEventIsDurableHolds == Spec => []AckedEventIsDurable
<1>1. TypeInv /\ AnswerInv => AckedEventIsDurable
  <2> SUFFICES ASSUME TypeInv, AnswerInv, NEW k \in acks, k.answer.last > 0
               PROVE  /\ k.answer.last \in DOMAIN events
                      /\ events[k.answer.last].req = k.to
                      /\ Len(events) <= ReadLimit /\ k.answer.last + 1 \in DOMAIN events =>
                           events[k.answer.last + 1].base # events[k.answer.last].base
    BY DEF AckedEventIsDurable
  <2>1. Given(events, k.answer, k.to)
    BY DEF AnswerInv, AckInv
  <2>2. k.answer.last \in Nat
    BY DEF TypeInv, TypeOK, HistoryOK, Answers
  <2>3. events \in Seq(Row) /\ Len(events) \in Nat /\ DOMAIN events = 1..Len(events)
    <3>1. events \in Seq(Row)
      BY DEF TypeInv, TypeOK, StoreOK, Row
    <3> QED
      BY <3>1, RowOf
  <2> QED
    BY <2>1, <2>2, <2>3 DEF Given, EndOfBatch
<1> QED
  BY <1>1, AlwaysAnswerInv, PTL

\* The ends of batches of one base version are one event.
LEMMA OneEnd ==
  ASSUME NEW evs \in Seq(Row), Batches(evs), NEW i \in 1..Len(evs), NEW j \in 1..Len(evs),
         evs[i].base = evs[j].base, i < j
  PROVE  ~EndOfBatch(evs, i)
<1>1. Len(evs) \in Nat /\ \A k \in 1..Len(evs) : evs[k].base \in Nat
  BY RowOf DEF Row
<1>2. i + 1 \in 1..Len(evs)
  BY <1>1
<1>3. evs[i].base <= evs[i + 1].base
  BY <1>1, <1>2 DEF Batches
<1>4. evs[i + 1].base <= evs[j].base
  <2>1. CASE i + 1 = j
    BY <1>1, <2>1
  <2>2. CASE i + 1 < j
    BY <1>2, <2>2 DEF Batches
  <2> QED
    BY <1>1, <2>1, <2>2
<1>5. evs[i + 1].base = evs[i].base
  BY <1>1, <1>2, <1>3, <1>4
<1> QED
  BY <1>2, <1>5 DEF EndOfBatch

\* However often a command id is sent, by whom and through which process, its answers go
\* to one request and name one event (AnswersAgree).
THEOREM AnswersAgreeHolds == Spec => []AnswersAgree
<1>1. TypeInv /\ AnswerInv /\ AtMostOnce => AnswersAgree
  <2> SUFFICES ASSUME TypeInv, AnswerInv, AtMostOnce, NEW k \in acks, NEW l \in acks,
                      CommandOf[k.to] = CommandOf[l.to]
               PROVE  /\ k.to = l.to
                      /\ Len(events) <= ReadLimit /\ k.answer.last > 0 /\ l.answer.last > 0 =>
                           k.answer.last = l.answer.last
    BY DEF AnswersAgree
  <2>1. /\ Given(events, k.answer, k.to) /\ results[CommandOf[k.to]].req = k.to
        /\ Given(events, l.answer, l.to) /\ results[CommandOf[l.to]].req = l.to
    BY DEF AnswerInv, AckInv
  <2>2. k.to = l.to
    BY <2>1
  <2>3. ASSUME Len(events) <= ReadLimit, k.answer.last > 0, l.answer.last > 0
        PROVE  k.answer.last = l.answer.last
    <3> DEFINE i == k.answer.last
               j == l.answer.last
    <3>1. i \in Nat /\ j \in Nat
      BY DEF TypeInv, TypeOK, HistoryOK, Answers
    <3>2. events \in Seq(Row) /\ Len(events) \in Nat /\ DOMAIN events = 1..Len(events)
          /\ Batches(events)
      <4>1. events \in Seq(Row) /\ Batches(events)
        BY DEF TypeInv, TypeOK, StoreOK, Row, AnswerInv
      <4> QED
        BY <4>1, RowOf
    <3>3. /\ i \in 1..Len(events) /\ events[i].req = k.to /\ EndOfBatch(events, i)
          /\ j \in 1..Len(events) /\ events[j].req = l.to /\ EndOfBatch(events, j)
      BY <2>1, <2>3, <3>1, <3>2 DEF Given
    <3>4. events[i].base = events[j].base
      BY <2>2, <2>3, <3>2, <3>3 DEF AtMostOnce, AppliedOnce, SameBatch
    <3> HIDE DEF i, j
    <3>5. ~(i < j) /\ ~(j < i)
      BY <3>2, <3>3, <3>4, OneEnd
    <3>6. i = j
      BY <3>1, <3>5
    <3> QED
      BY <3>6 DEF i, j
  <2> QED
    BY <2>2, <2>3
<1> QED
  BY <1>1, AlwaysAnswerInv, PTL

-----------------------------------------------------------------------------
\* While the search reads all events, a step of the pipeline is a step of the command
\* log: appendBatch applies the command, _saveCommandResult answers it, and the rest
\* does not show.
LEMMA LogStep ==
  ASSUME TypeInv, AnswerInv, AllFresh, [Next]_vars, Len(events) <= ReadLimit
  PROVE  [Log!LogNext]_(Log!logVars)
<1>1. CASE UNCHANGED <<events, results>>
  BY <1>1 DEF Log!logVars, Requested
<1>2. ASSUME NEW a \in Actors, AppendBatch(a), events' # events
      PROVE  Log!Apply(cur[a]) /\ cur[a] \in Requests
  <2> DEFINE n == Executed(a)
             e == [req |-> cur[a], token |-> tok[a], base |-> ver[a]]
  <2>1. /\ pc[a] \in {"append", "insert"} /\ Len(events) = ver[a]
        /\ events' = events \o [i \in 1..n |-> e] /\ UNCHANGED results
    BY <1>2 DEF AppendBatch
  <2>2. /\ events \in Seq(Row) /\ Len(events) \in Nat /\ cur[a] \in Requests
        /\ Len(room[a]) \in Nat /\ ver[a] \in Nat /\ DOMAIN events = 1..Len(events)
    BY <2>1, TypeFacts, RowOf
  <2>3. n \in Yields[cur[a]] /\ n \in Nat
    <3>1. ver[a] <= Len(room[a])
      BY <2>1 DEF TypeInv, Locals, Executing
    <3> QED
      BY <2>1, <2>2, <3>1 DEF AnswerInv, OutInv, Pending, Executed
  <2>4. e \in Row /\ e.req = cur[a]
    <3>1. tok[a] \in Int
      BY DEF TypeInv, TypeOK, LockOK
    <3> QED
      BY <2>2, <3>1 DEF Row
  <2>5. /\ events' \in Seq(Row) /\ Len(events') = Len(events) + n
        /\ \A i \in 1..Len(events) : events'[i] = events[i]
        /\ \A i \in Len(events) + 1 .. Len(events) + n : events'[i] = e
    <3> HIDE DEF e, n
    <3>1. /\ events \o [i \in 1..n |-> e] \in Seq(Row)
          /\ Len(events \o [i \in 1..n |-> e]) = Len(events) + n
          /\ \A i \in 1..Len(events) : (events \o [j \in 1..n |-> e])[i] = events[i]
          /\ \A i \in Len(events) + 1 .. Len(events) + n : (events \o [j \in 1..n |-> e])[i] = e
      <4>1. events \in Seq(Row) /\ n \in Nat /\ e \in Row
        BY <2>2, <2>3, <2>4
      <4> QED
        BY SMTT(30), <4>1, BatchType
    <3> QED
      BY <2>1, <3>1
  <2>6. n # 0
    <3> SUFFICES ASSUME n = 0 PROVE FALSE
      OBVIOUS
    <3>1. Len(events') = Len(events) /\ \A i \in 1..Len(events) : events'[i] = events[i]
      BY <2>2, <2>5
    <3>2. events' = events
      BY <2>2, <2>5, <3>1
    <3> QED
      BY <1>2, <3>2
  <2>7. ~Log!Applied(CommandOf[cur[a]])
    <3>1. \A i \in DOMAIN events : CommandOf[events[i].req] # CommandOf[cur[a]]
      BY <2>1 DEF AllFresh, Fresh, Searched
    <3> QED
      BY <3>1 DEF Log!Applied, Requested
  <2>8. Requested(events)' = Requested(events) \o Log!Batch(cur[a], n)
    <3> HIDE DEF e, n
    <3>1. Requested(events) \in Seq(Requests) /\ Len(Requested(events)) = Len(events)
          /\ \A i \in 1..Len(events) : Requested(events)[i] = events[i].req
      BY <2>2, RequestedType DEF Row, Requested
    <3>2. Requested(events') \in Seq(Requests) /\ Len(Requested(events')) = Len(events')
          /\ \A i \in 1..Len(events') : Requested(events')[i] = events'[i].req
      <4>1. events' \in Seq(Row)
        BY <2>5
      <4>2. DOMAIN events' = 1..Len(events')
        BY <4>1, RowOf
      <4> QED
        BY <4>1, <4>2, RequestedType DEF Row, Requested
    <3> DEFINE new == Requested(events) \o [i \in 1..n |-> cur[a]]
    <3>3. /\ new \in Seq(Requests) /\ Len(new) = Len(Requested(events)) + n
          /\ \A i \in 1..Len(Requested(events)) : new[i] = Requested(events)[i]
          /\ \A i \in Len(Requested(events)) + 1 .. Len(Requested(events)) + n : new[i] = cur[a]
      <4>1. Requested(events) \in Seq(Requests) /\ n \in Nat /\ cur[a] \in Requests
        BY <2>2, <2>3, <3>1
      <4> QED
        BY SMTT(30), <4>1, BatchType
    <3> HIDE DEF new
    <3>4. Len(new) = Len(Requested(events')) /\ Len(new) = Len(events) + n
      BY <2>5, <3>1, <3>2, <3>3
    <3>5. \A i \in 1..Len(events) + n : new[i] = Requested(events')[i]
      <4> SUFFICES ASSUME NEW i \in 1..Len(events) + n PROVE new[i] = Requested(events')[i]
        OBVIOUS
      <4>1. CASE i \in 1..Len(events)
        BY <2>2, <2>3, <2>5, <3>1, <3>2, <3>3, <4>1
      <4>2. CASE i \in Len(events) + 1 .. Len(events) + n
        BY <2>2, <2>3, <2>4, <2>5, <3>1, <3>2, <3>3, <4>2
      <4> QED
        BY <2>2, <2>3, <4>1, <4>2
    <3>6. new = Requested(events')
      BY <3>2, <3>3, <3>4, <3>5
    <3> QED
      BY <3>6 DEF new, Log!Batch
  <2> QED
    BY <2>1, <2>2, <2>3, <2>6, <2>7, <2>8 DEF Log!Apply
<1>3. ASSUME NEW a \in Actors, SaveResult(a), results' # results
      PROVE  Log!Answer(cur[a]) /\ cur[a] \in Requests
  <2> DEFINE c == CommandOf[cur[a]]
  <2>1. /\ pc[a] \in Written /\ results[c] = NoAnswer /\ UNCHANGED events
        /\ results' = [results EXCEPT ![c] = out[a]]
    BY <1>3 DEF SaveResult, Written
  <2>2. /\ events \in Seq(Row) /\ Len(events) \in Nat /\ DOMAIN events = 1..Len(events)
        /\ results \in [Commands -> Answers \cup {NoAnswer}]
        /\ cur[a] \in Requests /\ out[a].last \in Nat
    BY <2>1, TypeFacts, RowOf DEF Written
  <2>3. c \in Commands
    BY <2>2, ActorAssumption
  <2>4. Given(events, out[a], cur[a])
    BY <2>1 DEF AnswerInv, OutInv
  <2>5. \/ \E i \in DOMAIN Requested(events) : Requested(events)[i] = cur[a]
        \/ 0 \in Yields[cur[a]]
    <3>1. CASE out[a].last = 0
      BY <2>4, <3>1 DEF Given
    <3>2. CASE out[a].last > 0
      <4>1. out[a].last \in DOMAIN events /\ events[out[a].last].req = cur[a]
        BY <2>2, <2>4, <3>2 DEF Given
      <4> QED
        BY <4>1 DEF Requested
    <3> QED
      BY <2>2, <3>1, <3>2
  <2>6. results[c].req = NoRequest
    BY <2>1 DEF NoAnswer
  <2>7. [d \in Commands |-> results'[d].req] =
          [[d \in Commands |-> results[d].req] EXCEPT ![c] = cur[a]]
    BY <2>1, <2>2, <2>3, <2>4 DEF Given
  <2>8. Requested(events)' = Requested(events)
    BY <2>1 DEF Requested
  <2> QED
    BY <2>2, <2>3, <2>5, <2>6, <2>7, <2>8 DEF Log!Answer
<1>4. CASE \E a \in Actors : ActorStep(a)
  <2>1. PICK a \in Actors : ActorStep(a)
    BY <1>4
  <2>2. CASE AppendBatch(a) /\ events' # events
    BY <1>2, <2>2 DEF Log!LogNext
  <2>3. CASE SaveResult(a) /\ results' # results
    <3>1. Log!Answer(cur[a]) /\ cur[a] \in Requests
      BY <1>3, <2>3
    <3>2. \E r \in Requests : Log!Answer(r)
      BY <3>1 DEF Log!Answer
    <3> QED
      BY <3>2 DEF Log!LogNext
  <2>4. AppendBatch(a) => UNCHANGED results
    BY DEF AppendBatch
  <2>5. SaveResult(a) => UNCHANGED events
    BY DEF SaveResult
  <2> QED
    BY <1>1, <2>1, <2>2, <2>3, <2>4, <2>5, WhoWrites
<1>5. CASE LeaseExpires \/ UNCHANGED vars
  BY <1>1, <1>5 DEF LeaseExpires, vars, durable
<1> QED
  BY <1>4, <1>5 DEF Next, ActorStep

\* The pipeline implements the command log (ImplementsLog): lookup, lock, recovery,
\* execution, append and answer of any number of processes show only commands applied
\* whole and once, and answers recorded once and for something applied -- while the
\* room has no more events than getEvents returns.
THEOREM ImplementsLogHolds == Spec /\ [](Len(events) <= ReadLimit) => ImplementsLog
<1>1. Init => Log!LogInit
  BY DEF Init, Log!LogInit, Requested, NoAnswer
<1>2. TypeInv /\ AnswerInv /\ AtMostOnce /\ AllFresh /\ Len(events) <= ReadLimit
        /\ [Next]_vars => [Log!LogNext]_(Log!logVars)
  BY LogStep
<1> QED
  BY <1>1, <1>2, AlwaysAnswerInv, PTL DEF Spec, ImplementsLog, Log!LogSpec
================================================================================
