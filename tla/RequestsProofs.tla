---------------------------- MODULE RequestsProofs ----------------------------
(***************************************************************************)
(* Requests that are repeated by key, for any number of users, keys,       *)
(* tickets, calls and commands, and any number of failures and restarts.   *)
(***************************************************************************)
EXTENDS Requests, WellFoundedInduction, TLAPS

-----------------------------------------------------------------------------
(* The creation of rooms. *)

\* What a step of a call implies of its fields and of the stores.
CallOK(c) ==
  /\ UnderWay(c) => call[c].command \in Commands /\ call[c].payload \in Payloads
  /\ call[c].step \in {"new", "creating"} => c \notin memory
  /\ call[c].step \in {"new", "creating", "locked"} => c \notin checkpoints
  /\ call[c].step \in {"locked", "checkpointed", "written", "failed"} => call[c].room = c
  /\ call[c].step = "checkpointed" => c \in checkpoints
  /\ call[c].step = "found" => Result(c) \in results
  /\ call[c].step = "written" => Result(c) \in results

\* A result is of the call that made its room, and the room is durable; the memory store
\* has both or neither.  What is only in memory belongs to a call that is not through.
StoresOK ==
  /\ backend = "memory" => \A r \in checkpoints : \E x \in results : x.room = r
  /\ \A x \in results : x.room \in checkpoints /\ x = Result(x.room)
  /\ named \subseteq results
  /\ \A r \in memory \ checkpoints : call[r].step \in {"locked", "failed"}

\* Two calls of one command have overlapped if both are under way, or if one is about
\* to make a room and the other has made one.
OverlapsOK ==
  /\ \A c, d \in Calls :
       c # d /\ UnderWay(c) /\ UnderWay(d) /\ call[c].command = call[d].command
         => call[c].command \in overlapped
  /\ \A c \in Calls, x \in results :
       call[c].step \in {"creating", "locked", "checkpointed"} /\ x.command = call[c].command
         => x.command \in overlapped
  /\ \A x, y \in results : x.command = y.command => x = y \/ x.command \in overlapped

CreationInv ==
  CreationTypeOK /\ (\A c \in Calls : CallOK(c)) /\ StoresOK /\ OverlapsOK

LEMMA CreationInvInit == CreationInit => CreationInv
BY CreationAssumption DEF CreationInit, CreationInv, CreationTypeOK, CallOK, StoresOK, OverlapsOK,
   Fresh, Steps, Rooms, UnderWay

\* A call comes in.
LEMMA LookUpStep ==
  ASSUME CreationInv, NEW c \in Calls, NEW k \in Commands, NEW p \in Payloads, LookUp(c, k, p)
  PROVE  CreationInv'
<1> USE CreationAssumption DEF CreationInv, Rooms
<1>1. \A d \in Calls \ {c} : call'[d] = call[d]
  BY DEF LookUp, CreationTypeOK
<1>2. UNCHANGED <<backend, memory, checkpoints, results, named, failures>> /\ call[c].step = "new"
  BY DEF LookUp
<1>3. overlapped' = overlapped \cup Overlaps(k)
  BY DEF LookUp
<1>4. CASE /\ Found(k) = {}
           /\ call' = [call EXCEPT ![c] = [step |-> "creating", command |-> k, payload |-> p,
                                           room |-> NoRoom]]
  <2>1. CreationTypeOK'
    BY <1>2, <1>3, <1>4 DEF CreationTypeOK, Steps, Overlaps
  <2>2. \A x \in results : x.command # k
    BY <1>4 DEF Found, StoresOK
  <2>3. call'[c] = [step |-> "creating", command |-> k, payload |-> p, room |-> NoRoom]
    BY <1>4 DEF CreationTypeOK
  <2>4. \A d \in Calls : CallOK(d)'
    <3>1. CallOK(c)'
      BY <1>2, <2>3 DEF CallOK, UnderWay
    <3>2. \A d \in Calls \ {c} : CallOK(d)'
      BY <1>1, <1>2 DEF CallOK, UnderWay, Result
    <3> QED
      BY <3>1, <3>2
  <2>5. StoresOK'
    BY <1>1, <1>2, <2>3 DEF StoresOK, CallOK, Result, CreationTypeOK
  <2>6. OverlapsOK'
    BY <1>1, <1>2, <1>3, <2>2, <2>3 DEF OverlapsOK, UnderWay, Overlaps
  <2> QED
    BY <2>1, <2>4, <2>5, <2>6
<1>5. ASSUME NEW x \in Found(k),
             call' = [call EXCEPT ![c] =
               [step |-> IF x.payload = p THEN "found" ELSE "done", command |-> k,
                payload |-> p, room |-> x.room]]
      PROVE  CreationInv'
  <2>0. x \in results /\ x.command = k /\ x.room \in checkpoints /\ x.room \in Calls
        /\ x = Result(x.room)
    BY DEF Found, StoresOK, CreationTypeOK
  <2>1. CreationTypeOK'
    BY <1>2, <1>3, <1>5, <2>0 DEF CreationTypeOK, Steps, Overlaps
  <2>2. call'[c] = [step |-> IF x.payload = p THEN "found" ELSE "done", command |-> k,
                    payload |-> p, room |-> x.room]
    BY <1>5 DEF CreationTypeOK
  <2>3. c \notin memory /\ c \notin checkpoints
    BY <1>2 DEF CallOK
  <2>4. CallOK(c)'
    BY <1>2, <2>0, <2>2 DEF CallOK, UnderWay, Result
  <2>5. \A d \in Calls \ {c} : CallOK(d)'
    BY <1>1, <1>2 DEF CallOK, UnderWay, Result
  <2>6. StoresOK'
    BY <1>1, <1>2, <2>2, <2>3 DEF StoresOK, Result, CreationTypeOK
  <2>7. OverlapsOK'
    BY <1>1, <1>2, <1>3, <2>2 DEF OverlapsOK, UnderWay, Overlaps
  <2> QED
    BY <2>1, <2>4, <2>5, <2>6, <2>7
<1> QED
  BY <1>4, <1>5 DEF LookUp

\* The steps of a call, one lemma each.
LEMMA AnswerFoundStep ==
  ASSUME CreationInv, NEW c \in Calls, AnswerFound(c)
  PROVE  CreationInv'
<1> USE CreationAssumption DEF CreationInv, Rooms
<1>1. /\ call'[c] = [call[c] EXCEPT !.step = "done"]
      /\ \A d \in Calls \ {c} : call'[d] = call[d]
      /\ call[c].step = "found"
      /\ UNCHANGED <<backend, checkpoints, results, overlapped, failures>>
  BY DEF AnswerFound, CreationTypeOK
<1>2. Result(c) \in results /\ call[c].room \in checkpoints
  BY <1>1 DEF CallOK, StoresOK, Result
<1>3. memory' = memory \cup {call[c].room} /\ named' = named \cup {Result(c)}
  BY DEF AnswerFound
<1>4. CreationTypeOK'
  BY <1>1, <1>2, <1>3 DEF CreationTypeOK, AnswerFound, Steps
<1>5. \A d \in Calls : CallOK(d)'
  BY <1>1, <1>2, <1>3 DEF CallOK, UnderWay, Result, CreationTypeOK
<1>6. StoresOK'
  BY <1>1, <1>2, <1>3 DEF StoresOK, Result, CreationTypeOK
<1>7. OverlapsOK'
  BY <1>1 DEF OverlapsOK, UnderWay, CreationTypeOK
<1> QED
  BY <1>4, <1>5, <1>6, <1>7

LEMMA RegisterStep ==
  ASSUME CreationInv, NEW c \in Calls, Register(c)
  PROVE  CreationInv'
<1> USE CreationAssumption DEF CreationInv, Rooms
<1>0. call' = [call EXCEPT ![c].step = "locked", ![c].room = c]
  BY DEF Register
<1>1. /\ call[c].step = "creating"
      /\ memory' = memory \cup {c}
      /\ UNCHANGED <<backend, checkpoints, results, named, overlapped, failures>>
  BY DEF Register
<1>2. c \notin checkpoints /\ UnderWay(c)
  BY <1>1 DEF CallOK, UnderWay
<1>3. CreationTypeOK'
  BY ZenonT(30), <1>0, <1>1 DEF CreationTypeOK, Steps
<1>4. /\ call'[c].step = "locked" /\ call'[c].room = c
      /\ call'[c].command = call[c].command /\ call'[c].payload = call[c].payload
      /\ \A d \in Calls \ {c} : call'[d] = call[d]
  BY <1>0 DEF CreationTypeOK
<1>5. \A d \in Calls : CallOK(d)'
  <2>1. CallOK(c)'
    BY <1>1, <1>2, <1>4 DEF CallOK, UnderWay
  <2>2. \A d \in Calls \ {c} : CallOK(d)'
    BY <1>1, <1>4 DEF CallOK, UnderWay, Result
  <2> QED
    BY <2>1, <2>2
<1>6. StoresOK'
  <2>1. \A x \in results : x.room # c /\ x.room \in Calls
    BY <1>2 DEF StoresOK, CreationTypeOK
  <2>2. \A x \in results : x = Result(x.room)'
    BY <1>4, <2>1 DEF StoresOK, Result
  <2>3. \A r \in memory' \ checkpoints' : call'[r].step \in {"locked", "failed"}
    BY <1>1, <1>4 DEF StoresOK, CreationTypeOK
  <2> QED
    BY <1>1, <2>2, <2>3 DEF StoresOK
<1>7. OverlapsOK'
  BY <1>1, <1>4 DEF OverlapsOK, UnderWay
<1> QED
  BY <1>3, <1>5, <1>6, <1>7

LEMMA InitializeStep ==
  ASSUME CreationInv, NEW c \in Calls, Initialize(c)
  PROVE  CreationInv'
<1> USE CreationAssumption DEF CreationInv, Rooms
<1>1. /\ call[c].step = "locked" /\ call[c].room = c /\ c \notin checkpoints
      /\ call[c].command \in Commands /\ call[c].payload \in Payloads
      /\ UNCHANGED <<backend, memory, named, overlapped>>
  BY DEF Initialize, CallOK, UnderWay
<1>2. CASE /\ checkpoints' = checkpoints \cup {call[c].room}
           /\ results' = results \cup {Result(c)}
           /\ call' = [call EXCEPT ![c].step = "written"]
           /\ UNCHANGED failures
  <2>1. /\ call'[c] = [call[c] EXCEPT !.step = "written"]
        /\ \A d \in Calls \ {c} : call'[d] = call[d]
    BY <1>2 DEF CreationTypeOK
  <2>2. CreationTypeOK'
    BY <1>1, <1>2 DEF CreationTypeOK, Result, Steps
  <2>3. \A d \in Calls : CallOK(d)'
    BY <1>1, <1>2, <2>1 DEF CallOK, UnderWay, Result, CreationTypeOK
  <2>4. StoresOK'
    <3>1. Result(c)' = Result(c) /\ Result(c).room = c
      BY <1>1, <2>1 DEF Result, CreationTypeOK
    <3>2. \A x \in results : x.room # c /\ x.room \in Calls
      BY <1>1 DEF StoresOK, CreationTypeOK
    <3>3. \A x \in results : x = Result(x.room)'
      BY <2>1, <3>2 DEF StoresOK, Result
    <3> QED
      BY <1>1, <1>2, <2>1, <3>1, <3>2, <3>3 DEF StoresOK, CreationTypeOK
  <2>5. OverlapsOK'
    <3>1. \A d \in Calls \ {c} :
            call[d].step \in {"creating", "locked", "checkpointed"}
              /\ call[d].command = call[c].command
            => call[c].command \in overlapped
      BY <1>1 DEF OverlapsOK, UnderWay
    <3>2. \A x \in results : x.command = call[c].command => x.command \in overlapped
      BY <1>1 DEF OverlapsOK
    <3>3. Result(c).command = call[c].command
      BY DEF Result
    <3>4. /\ \A d \in Calls : UnderWay(d)' <=> UnderWay(d)
          /\ \A d \in Calls : call'[d].command = call[d].command
      BY <1>1, <2>1 DEF UnderWay, CreationTypeOK
    <3>5. \A d \in Calls : call'[d].step \in {"creating", "locked", "checkpointed"}
                            => d # c /\ call'[d] = call[d]
      BY <2>1 DEF CreationTypeOK
    <3> QED
      BY <1>1, <1>2, <3>1, <3>2, <3>3, <3>4, <3>5 DEF OverlapsOK
  <2> QED
    BY <2>2, <2>3, <2>4, <2>5
<1>3. CASE /\ Fails
           /\ call' = [call EXCEPT ![c].step = "failed"]
           /\ UNCHANGED <<checkpoints, results>>
  <2>1. /\ call'[c] = [call[c] EXCEPT !.step = "failed"]
        /\ \A d \in Calls \ {c} : call'[d] = call[d]
    BY <1>3 DEF CreationTypeOK
  <2>2. CreationTypeOK'
    BY <1>1, <1>3 DEF CreationTypeOK, Steps, Fails
  <2>3. \A d \in Calls : CallOK(d)'
    BY <1>1, <1>3, <2>1 DEF CallOK, UnderWay, Result, CreationTypeOK
  <2>4. StoresOK'
    BY <1>1, <1>3, <2>1 DEF StoresOK, Result, CreationTypeOK
  <2>5. OverlapsOK'
    BY <1>1, <1>3, <2>1 DEF OverlapsOK, UnderWay, CreationTypeOK
  <2> QED
    BY <2>2, <2>3, <2>4, <2>5
<1> QED
  BY <1>2, <1>3 DEF Initialize

LEMMA SaveCheckpointStep ==
  ASSUME CreationInv, NEW c \in Calls, SaveCheckpoint(c)
  PROVE  CreationInv'
<1> USE CreationAssumption DEF CreationInv, Rooms
<1>1. /\ call[c].step = "locked" /\ call[c].room = c /\ c \notin checkpoints
      /\ call[c].command \in Commands /\ call[c].payload \in Payloads
      /\ backend = "postgres"
      /\ UNCHANGED <<backend, memory, named, overlapped, results>>
  BY DEF SaveCheckpoint, Saves, CallOK, UnderWay
<1>2. PICK s \in {"checkpointed", "failed"} :
        /\ call' = [call EXCEPT ![c].step = s]
        /\ checkpoints' = checkpoints \cup {c} \/ (s = "failed" /\ checkpoints' = checkpoints)
        /\ failures' \in 0..MaxFailures
  <2>1. failures' \in 0..MaxFailures
    BY DEF SaveCheckpoint, Saves, Fails, CreationTypeOK
  <2>2. CASE /\ call' = [call EXCEPT ![c].step = "checkpointed"]
             /\ checkpoints' = checkpoints \cup {c}
    <3> WITNESS "checkpointed" \in {"checkpointed", "failed"}
    <3> QED
      BY <1>1, <2>1, <2>2
  <2>3. CASE /\ call' = [call EXCEPT ![c].step = "failed"]
             /\ checkpoints' = checkpoints \cup {c} \/ checkpoints' = checkpoints
    <3> WITNESS "failed" \in {"checkpointed", "failed"}
    <3> QED
      BY <1>1, <2>1, <2>3
  <2> QED
    BY <1>1, <2>2, <2>3 DEF SaveCheckpoint, Saves
<1>3. /\ call'[c] = [call[c] EXCEPT !.step = s]
      /\ \A d \in Calls \ {c} : call'[d] = call[d]
  BY <1>2 DEF CreationTypeOK
<1>4. CreationTypeOK'
  BY <1>1, <1>2 DEF CreationTypeOK, Steps
<1>5. \A d \in Calls : CallOK(d)'
  BY <1>1, <1>2, <1>3 DEF CallOK, UnderWay, Result, CreationTypeOK
<1>6. StoresOK'
  BY <1>1, <1>2, <1>3 DEF StoresOK, Result, CreationTypeOK
<1>7. OverlapsOK'
  BY <1>1, <1>2, <1>3 DEF OverlapsOK, UnderWay, CreationTypeOK
<1> QED
  BY <1>4, <1>5, <1>6, <1>7

\* The result may be there although the call failed.
LEMMA SaveResultStep ==
  ASSUME CreationInv, NEW c \in Calls, SaveResult(c)
  PROVE  CreationInv'
<1> USE CreationAssumption DEF CreationInv, Rooms
<1>1. /\ call[c].step = "checkpointed" /\ call[c].room = c /\ c \in checkpoints
      /\ call[c].command \in Commands /\ call[c].payload \in Payloads
      /\ UNCHANGED <<backend, memory, named, overlapped, checkpoints>>
  BY DEF SaveResult, Saves, CallOK, UnderWay
<1>2. PICK s \in {"written", "failed"} :
        /\ call' = [call EXCEPT ![c].step = s]
        /\ results' = results \cup {Result(c)} \/ (s = "failed" /\ results' = results)
        /\ failures' \in 0..MaxFailures
  <2>1. failures' \in 0..MaxFailures
    BY DEF SaveResult, Saves, Fails, CreationTypeOK
  <2>2. CASE /\ call' = [call EXCEPT ![c].step = "written"]
             /\ results' = results \cup {Result(c)}
    <3> WITNESS "written" \in {"written", "failed"}
    <3> QED
      BY <1>1, <2>1, <2>2
  <2>3. CASE /\ call' = [call EXCEPT ![c].step = "failed"]
             /\ results' = results \cup {Result(c)} \/ results' = results
    <3> WITNESS "failed" \in {"written", "failed"}
    <3> QED
      BY <1>1, <2>1, <2>3
  <2> QED
    BY <1>1, <2>2, <2>3 DEF SaveResult, Saves
<1>3. /\ call'[c] = [call[c] EXCEPT !.step = s]
      /\ \A d \in Calls \ {c} : call'[d] = call[d]
  BY <1>2 DEF CreationTypeOK
<1>4. CreationTypeOK'
  BY <1>1, <1>2 DEF CreationTypeOK, Steps, Result
<1>5. \A d \in Calls : Result(d)' = Result(d)
  BY <1>3 DEF Result, CreationTypeOK
<1>6. \A d \in Calls : CallOK(d)'
  <2>1. CallOK(c)'
    BY <1>1, <1>2, <1>3, <1>5 DEF CallOK, UnderWay
  <2>2. \A d \in Calls \ {c} : CallOK(d)'
    BY <1>1, <1>2, <1>3, <1>5 DEF CallOK, UnderWay
  <2> QED
    BY <2>1, <2>2
<1>7. StoresOK'
  <2>1. Result(c).room = c
    BY <1>1 DEF Result
  <2>2. \A x \in results' : x.room \in checkpoints' /\ x = Result(x.room)'
    BY <1>1, <1>2, <1>5, <2>1 DEF StoresOK, CreationTypeOK
  <2>3. \A r \in memory' \ checkpoints' : call'[r].step \in {"locked", "failed"}
    BY <1>1, <1>3 DEF StoresOK, CreationTypeOK
  <2> QED
    BY <1>1, <1>2, <2>2, <2>3 DEF StoresOK
<1>8. OverlapsOK'
  <2>1. \A d \in Calls \ {c} :
          call[d].step \in {"creating", "locked", "checkpointed"}
            /\ call[d].command = call[c].command
          => call[c].command \in overlapped
    BY <1>1 DEF OverlapsOK, UnderWay
  <2>2. \A x \in results : x.command = call[c].command => x.command \in overlapped
    BY <1>1 DEF OverlapsOK
  <2>3. Result(c).command = call[c].command
    BY DEF Result
  <2>4. /\ \A d \in Calls : UnderWay(d)' <=> UnderWay(d)
        /\ \A d \in Calls : call'[d].command = call[d].command
    BY <1>1, <1>3 DEF UnderWay, CreationTypeOK
  <2>5. \A d \in Calls : call'[d].step \in {"creating", "locked", "checkpointed"}
                          => d # c /\ call'[d] = call[d]
    BY <1>3 DEF CreationTypeOK
  <2>6. results' \subseteq results \cup {Result(c)}
    BY <1>2
  <2> QED
    BY <1>1, <2>1, <2>2, <2>3, <2>4, <2>5, <2>6 DEF OverlapsOK
<1> QED
  BY <1>4, <1>6, <1>7, <1>8

LEMMA ReleaseStep ==
  ASSUME CreationInv, NEW c \in Calls, Release(c)
  PROVE  CreationInv'
<1> USE CreationAssumption DEF CreationInv, Rooms
<1>1. /\ call[c].step = "written" /\ Result(c) \in results
      /\ c \in checkpoints
      /\ UNCHANGED <<backend, memory, checkpoints, results, overlapped>>
  BY DEF Release, CallOK, StoresOK, Result
<1>2. PICK s \in {"done", "failed"} :
        /\ call' = [call EXCEPT ![c].step = s]
        /\ named' \in {named, named \cup {Result(c)}}
        /\ failures' \in 0..MaxFailures
  BY DEF Release, Fails, CreationTypeOK
<1>3. /\ call'[c] = [call[c] EXCEPT !.step = s]
      /\ \A d \in Calls \ {c} : call'[d] = call[d]
  BY <1>2 DEF CreationTypeOK
<1>4. CreationTypeOK'
  BY <1>1, <1>2 DEF CreationTypeOK, Steps
<1>5. \A d \in Calls : CallOK(d)'
  BY <1>1, <1>3 DEF CallOK, UnderWay, Result, CreationTypeOK
<1>6. StoresOK'
  BY <1>1, <1>2, <1>3 DEF StoresOK, Result, CreationTypeOK
<1>7. OverlapsOK'
  BY <1>1, <1>3 DEF OverlapsOK, UnderWay, CreationTypeOK
<1> QED
  BY <1>4, <1>5, <1>6, <1>7

LEMMA GiveUpStep ==
  ASSUME CreationInv, NEW c \in Calls, GiveUp(c)
  PROVE  CreationInv'
<1> USE CreationAssumption DEF CreationInv, Rooms
<1>1. /\ call[c].step = "failed" /\ call[c].room = c
      /\ memory' = memory \ {c}
      /\ call'[c] = [call[c] EXCEPT !.step = "done"]
      /\ \A d \in Calls \ {c} : call'[d] = call[d]
      /\ UNCHANGED <<backend, checkpoints, results, named, overlapped, failures>>
  BY DEF GiveUp, CallOK, CreationTypeOK
<1>2. CreationTypeOK'
  BY <1>1 DEF CreationTypeOK, GiveUp, Steps
<1>3. \A d \in Calls : CallOK(d)'
  BY <1>1 DEF CallOK, UnderWay, Result, CreationTypeOK
<1>4. StoresOK'
  BY <1>1 DEF StoresOK, Result, CreationTypeOK
<1>5. OverlapsOK'
  BY <1>1 DEF OverlapsOK, UnderWay, CreationTypeOK
<1> QED
  BY <1>2, <1>3, <1>4, <1>5

LEMMA RecoverStep ==
  ASSUME CreationInv, NEW r \in Rooms, Recover(r)
  PROVE  CreationInv'
<1> USE CreationAssumption DEF CreationInv, Rooms
<1>1. /\ r \in checkpoints /\ memory' = memory \cup {r}
      /\ UNCHANGED <<backend, call, checkpoints, results, named, overlapped, failures>>
  BY DEF Recover
<1>2. CreationTypeOK'
  BY <1>1 DEF CreationTypeOK
<1>3. \A c \in Calls : CallOK(c)'
  BY <1>1 DEF CallOK, UnderWay, Result
<1>4. StoresOK' /\ OverlapsOK'
  BY <1>1 DEF StoresOK, OverlapsOK, UnderWay, Result
<1> QED
  BY <1>2, <1>3, <1>4

\* The process ends; what is left of the stores is all of them, or nothing.
LEMMA CreationLostStep ==
  ASSUME CreationInv, CreationLost
  PROVE  CreationInv'
<1> USE CreationAssumption DEF CreationInv, Rooms
<1>1. /\ \A c \in Calls : call'[c] = IF UnderWay(c) THEN [call[c] EXCEPT !.step = "done"] ELSE call[c]
      /\ memory' = {}
      /\ UNCHANGED <<backend, overlapped, failures>>
      /\ \/ UNCHANGED <<checkpoints, results, named>>
         \/ checkpoints' = {} /\ results' = {} /\ named' = {}
  BY DEF CreationLost
<1>2. CreationTypeOK'
  BY <1>1 DEF CreationTypeOK, CreationLost, Steps
<1>3. \A c \in Calls : ~UnderWay(c)' /\ Result(c)' = Result(c)
  BY <1>1 DEF UnderWay, Result, CreationTypeOK
<1>4. \A c \in Calls : CallOK(c)'
  BY ZenonT(30), <1>1, <1>3 DEF CallOK, UnderWay, CreationTypeOK
<1>5. StoresOK'
  BY <1>1, <1>3 DEF StoresOK, CreationTypeOK
<1>6. OverlapsOK'
  BY <1>1, <1>3 DEF OverlapsOK, UnderWay
<1> QED
  BY <1>2, <1>4, <1>5, <1>6

\* Whatever calls come in, go on, fail or are lost, what is known of calls and stores
\* stays true (room/service.js: createRoom).
THEOREM CreationStepKeeps == CreationInv /\ [Next]_vars => CreationInv'
<1> SUFFICES ASSUME CreationInv, [Next]_vars
             PROVE  CreationInv'
  OBVIOUS
<1>1. CASE UNCHANGED creation
  BY <1>1 DEF creation, CreationInv, CreationTypeOK, CallOK, StoresOK, OverlapsOK, UnderWay, Result
<1>2. CASE AskRoom
  BY <1>2, LookUpStep DEF AskRoom
<1>3. CASE CreateRoom
  BY <1>3, AnswerFoundStep, RegisterStep, InitializeStep, SaveCheckpointStep, SaveResultStep,
     ReleaseStep, GiveUpStep
     DEF CreateRoom, CreationStep
<1>4. CASE RecoverRoom
  BY <1>4, RecoverStep DEF RecoverRoom
<1>5. CASE Restart
  BY <1>5, CreationLostStep DEF Restart
<1> QED
  BY <1>1, <1>2, <1>3, <1>4, <1>5 DEF Next, AskDesk, SaveAnswer, vars

\* A create command makes one room, unless two of its calls overlapped, through failures
\* and restarts and for any number of calls (room/service.js: createRoom).
THEOREM OneRoomPerCommandHolds == Spec => []OneRoomPerCommand
<1>1. Spec => []CreationInv
  BY CreationInvInit, CreationStepKeeps, PTL DEF Spec, Init
<1>2. CreationInv => OneRoomPerCommand
  BY DEF CreationInv, StoresOK, OverlapsOK, OneRoomPerCommand, HalfMade
<1> QED
  BY <1>1, <1>2, PTL

\* Callers are given durable rooms, and a process at rest holds no other
\* (room/service.js: createRoom).
THEOREM RoomsAreDurableHolds == Spec => []RoomsAreDurable
<1>1. Spec => []CreationInv
  BY CreationInvInit, CreationStepKeeps, PTL DEF Spec, Init
<1>2. CreationInv => RoomsAreDurable
  BY DEF CreationInv, CreationTypeOK, StoresOK, UnderWay, RoomsAreDurable, NamedIsDurable,
     NoOrphans, Rooms
<1> QED
  BY <1>1, <1>2, PTL

-----------------------------------------------------------------------------
(* The support desk. *)

TicketType == [owner : Users \cup {None}, closed : BOOLEAN, messages : Seq(Requests)]

\* A scope that has been used is being saved or recorded.
Known(scope) ==
  \/ \E p \in saving : Scope(p.request) = scope
  \/ \E i \in idempotency : i.scope = scope

\* What is recorded, being saved and answered of one scope is the same, or raced.
RecordsOK ==
  /\ \A i \in idempotency : i = [scope |-> i.scope, input |-> i.input, result |-> i.result]
  /\ \A i, j \in idempotency : i.scope = j.scope => i = j
  /\ \A p, q \in saving :
       Scope(p.request) = Scope(q.request) => p = q \/ Scope(p.request) \in raced
  /\ \A p \in saving, i \in idempotency : Scope(p.request) = i.scope => i.scope \in raced
  /\ \A a \in answers : a \in idempotency \/ a.scope \in raced

\* Each message came from a request with a scope that has been used, and two of one
\* scope from two that raced.
MessagesOK ==
  /\ \A t \in Tickets : \A i \in 1..Len(tickets[t].messages) :
       Known(Scope(tickets[t].messages[i]))
  /\ \A t, u \in Tickets :
       \A i \in 1..Len(tickets[t].messages), j \in 1..Len(tickets[u].messages) :
         /\ t # u \/ i # j
         /\ Scope(tickets[t].messages[i]) = Scope(tickets[u].messages[j])
         => Scope(tickets[t].messages[i]) \in raced

DeskInv == tickets \in [Tickets -> TicketType] /\ RecordsOK /\ MessagesOK

LEMMA AppendTyped ==
  ASSUME NEW S, NEW s \in Seq(S), NEW e \in S
  PROVE  Append(s, e) \in Seq(S)
OBVIOUS

LEMMA NoTickets ==
  ASSUME NEW new, new = [t \in Tickets |-> Absent]
  PROVE  /\ new \in [Tickets -> TicketType]
         /\ \A t \in Tickets : Len(new[t].messages) = 0
<1>1. Absent \in TicketType /\ Len(Absent.messages) = 0
  BY DEF Absent, TicketType
<1> QED
  BY <1>1

LEMMA DeskInvInit == DeskInit => DeskInv
<1> SUFFICES ASSUME DeskInit PROVE DeskInv
  OBVIOUS
<1>1. tickets \in [Tickets -> TicketType] /\ \A t \in Tickets : Len(tickets[t].messages) = 0
  BY NoTickets DEF DeskInit
<1>2. RecordsOK
  BY DEF DeskInit, RecordsOK
<1>3. MessagesOK
  BY <1>1 DEF MessagesOK
<1> QED
  BY <1>1, <1>2, <1>3 DEF DeskInv

\* An operation is carried out: one ticket is put, perhaps with one message more.
LEMMA RanStep ==
  ASSUME DeskInv, NEW q \in Requests, Prior(q) = {}, NEW t \in Tickets, NEW new \in TicketType,
         new.messages \in {tickets[t].messages, Append(tickets[t].messages, q)},
         tickets' = [tickets EXCEPT ![t] = new],
         NEW result, Ran(q, result)
  PROVE  DeskInv'
<1> DEFINE mine == [request |-> q, result |-> result]
           old(x) == tickets[x].messages
           now(x) == tickets'[x].messages
           known(scope) == \/ \E p \in saving' : Scope(p.request) = scope
                           \/ \E i \in idempotency' : i.scope = scope
<1>1. /\ saving' = saving \cup {mine}
      /\ idempotency' = idempotency /\ answers' = answers
      /\ raced \subseteq raced'
  BY DEF Ran
<1>2. \A p \in saving : Scope(p.request) = Scope(q) => Scope(q) \in raced'
  BY DEF Ran
<1>3. \A i \in idempotency : i.scope # Scope(q)
  BY DEF Prior
<1>4. tickets' \in [Tickets -> TicketType]
  BY DEF DeskInv
<1>5. RecordsOK'
  BY <1>1, <1>2, <1>3 DEF DeskInv, RecordsOK
<1>6. \A x \in Tickets : Len(old(x)) \in Nat /\ old(x) \in Seq(Requests)
  BY DEF DeskInv, TicketType
<1>7. \A x \in Tickets : \A i \in 1..Len(now(x)) :
        \/ i \in 1..Len(old(x)) /\ now(x)[i] = old(x)[i]
        \/ x = t /\ i = Len(old(t)) + 1 /\ now(x)[i] = q
  <2> SUFFICES ASSUME NEW x \in Tickets, NEW i \in 1..Len(now(x))
               PROVE  \/ i \in 1..Len(old(x)) /\ now(x)[i] = old(x)[i]
                      \/ x = t /\ i = Len(old(t)) + 1 /\ now(x)[i] = q
    OBVIOUS
  <2>1. CASE x # t
    <3>1. now(x) = old(x)
      BY <2>1 DEF DeskInv
    <3> QED
      BY <3>1
  <2>2. CASE x = t
    <3>1. now(x) = old(t) \/ now(x) = Append(old(t), q)
      BY <2>2 DEF DeskInv
    <3> QED
      BY SMTT(30), <1>6, <2>2, <3>1
  <2> QED
    BY <2>1, <2>2
<1>8. \A scope : Known(scope) => known(scope)
  BY <1>1 DEF Known
<1>9. known(Scope(q))
  <2>1. mine \in saving' /\ mine.request = q
    BY <1>1
  <2> QED
    BY <2>1
<1>10. \A x \in Tickets : \A i \in 1..Len(now(x)) : known(Scope(now(x)[i]))
  <2>1. \A x \in Tickets : \A i \in 1..Len(old(x)) : Known(Scope(old(x)[i]))
    BY DEF DeskInv, MessagesOK
  <2> HIDE DEF known, old, now
  <2> QED
    BY <1>7, <1>8, <1>9, <2>1
<1>11. \A x \in Tickets : \A i \in 1..Len(old(x)) :
         Scope(old(x)[i]) = Scope(q) => Scope(q) \in raced'
  BY <1>2, <1>3 DEF DeskInv, MessagesOK, Known
<1>12. ASSUME NEW x \in Tickets, NEW y \in Tickets, NEW i \in 1..Len(now(x)),
              NEW j \in 1..Len(now(y)), x # y \/ i # j,
              Scope(now(x)[i]) = Scope(now(y)[j])
       PROVE  Scope(now(x)[i]) \in raced'
  <2>1. CASE i \in 1..Len(old(x)) /\ now(x)[i] = old(x)[i]
    <3>1. CASE j \in 1..Len(old(y)) /\ now(y)[j] = old(y)[j]
      BY <1>1, <1>12, <2>1, <3>1 DEF DeskInv, MessagesOK
    <3>2. CASE now(y)[j] = q
      BY <1>11, <1>12, <2>1, <3>2
    <3> QED
      BY <1>7, <3>1, <3>2
  <2>2. CASE x = t /\ i = Len(old(t)) + 1 /\ now(x)[i] = q
    <3>1. CASE j \in 1..Len(old(y)) /\ now(y)[j] = old(y)[j]
      BY <1>11, <1>12, <2>2, <3>1
    <3>2. CASE y = t /\ j = Len(old(t)) + 1
      BY <1>12, <2>2, <3>2
    <3> QED
      BY <1>7, <3>1, <3>2
  <2> QED
    BY <1>7, <2>1, <2>2
<1>13. MessagesOK'
  BY SMTT(30), <1>10, <1>12 DEF MessagesOK, Known
<1> QED
  BY <1>4, <1>5, <1>13 DEF DeskInv

\* The answer is recorded: what was recorded of the scope before had raced.
LEMMA SaveStep ==
  ASSUME DeskInv, NEW p \in saving, Save(p)
  PROVE  DeskInv'
<1> DEFINE record == [scope |-> Scope(p.request), input |-> Input(p.request),
                      result |-> p.result]
<1>1. /\ saving' = saving \ {p}
      /\ idempotency' = (idempotency \ Prior(p.request)) \cup {record}
      /\ answers' = answers \cup {record}
      /\ UNCHANGED <<tickets, raced>>
  BY DEF Save
<1>2. \A i \in Prior(p.request) : i.scope = Scope(p.request) /\ i.scope \in raced
  BY DEF Prior, DeskInv, RecordsOK
<1>3. \A i \in idempotency \ Prior(p.request) : i.scope # Scope(p.request)
  BY DEF Prior
<1>4. record.scope = Scope(p.request)
      /\ record = [scope |-> record.scope, input |-> record.input, result |-> record.result]
  OBVIOUS
<1> HIDE DEF record
<1>5. RecordsOK'
  BY <1>1, <1>2, <1>3, <1>4 DEF DeskInv, RecordsOK
<1>6. \A scope : Known(scope) => Known(scope)'
  BY <1>1, <1>2, <1>4 DEF Known
<1>7. MessagesOK'
  BY <1>1, <1>6 DEF DeskInv, MessagesOK
<1> QED
  BY <1>1, <1>5, <1>7 DEF DeskInv

\* A retry is answered from the record.
LEMMA ReplayStep ==
  ASSUME DeskInv, NEW q \in Requests, Replay(q)
  PROVE  DeskInv'
<1>1. PICK i \in Prior(q) :
        answers' = answers \cup {[scope |-> i.scope, input |-> i.input, result |-> i.result]}
  BY DEF Replay
<1>2. i \in idempotency /\ i = [scope |-> i.scope, input |-> i.input, result |-> i.result]
  BY DEF Prior, DeskInv, RecordsOK
<1>3. answers' = answers \cup {i}
  BY <1>1, <1>2
<1>4. UNCHANGED <<tickets, idempotency, saving, raced>>
  BY DEF Replay
<1>5. RecordsOK'
  BY <1>2, <1>3, <1>4 DEF DeskInv, RecordsOK
<1>6. MessagesOK'
  BY <1>4 DEF DeskInv, MessagesOK, Known
<1> QED
  BY <1>4, <1>5, <1>6 DEF DeskInv

\* A request comes in.
LEMMA HandleStep ==
  ASSUME DeskInv, NEW q \in Requests, Handle(q)
  PROVE  DeskInv'
<1> USE DeskAssumption
<1>0. /\ q.op = "create" => q.user \in Users
      /\ q.op # "create" => q.ticket \in Tickets
  BY DEF Requests
<1>1. CASE Replay(q)
  BY <1>1, ReplayStep
<1>2. CASE Conflict(q) \/ Refuse(q)
  <2>1. UNCHANGED <<tickets, idempotency, saving, raced, answers>>
    BY <1>2 DEF Conflict, Refuse, desk
  <2> QED
    BY <2>1 DEF DeskInv, RecordsOK, MessagesOK, Known
<1>3. CASE CreateTicket(q)
  <2> DEFINE new == [owner |-> q.user, closed |-> FALSE, messages |-> <<q>>]
  <2>1. PICK t \in Tickets : ~Exists(t) /\ Put(t, new, "created") /\ Ran(q, Seen(t, new))
    BY <1>3 DEF CreateTicket
  <2>2. tickets[t].messages = <<>>
    BY <2>1 DEF Exists, Absent
  <2>3. new.messages = Append(tickets[t].messages, q)
    BY <2>2
  <2>4. new \in TicketType
    BY <1>0, <1>3 DEF TicketType, CreateTicket
  <2>5. tickets' = [tickets EXCEPT ![t] = new] /\ Prior(q) = {}
    BY <1>3, <2>1 DEF Put, CreateTicket
  <2> HIDE DEF new
  <2> QED
    BY <2>1, <2>3, <2>4, <2>5, RanStep
<1>4. CASE ReplyTicket(q)
  <2> DEFINE t == q.ticket
             new == [tickets[t] EXCEPT !.messages = Append(@, q)]
  <2>1. t \in Tickets /\ Prior(q) = {} /\ Ran(q, Seen(t, new))
        /\ tickets' = [tickets EXCEPT ![t] = new]
    BY <1>0, <1>4 DEF ReplyTicket, Put
  <2>2. tickets[t] \in TicketType
    BY <2>1 DEF DeskInv
  <2>3. Append(tickets[t].messages, q) \in Seq(Requests)
    BY <2>2, AppendTyped DEF TicketType
  <2>4. new \in TicketType /\ new.messages = Append(tickets[t].messages, q)
    BY <2>2, <2>3 DEF TicketType
  <2> HIDE DEF new
  <2> QED
    BY <2>1, <2>4, RanStep
<1>5. CASE CloseTicket(q)
  <2> DEFINE t == q.ticket
             next == [tickets[t] EXCEPT !.closed = TRUE]
             new == IF tickets[t].closed THEN tickets[t] ELSE next
  <2>1. t \in Tickets /\ Prior(q) = {} /\ Ran(q, Seen(t, next))
    BY <1>0, <1>5 DEF CloseTicket
  <2>2. tickets[t] \in TicketType
    BY <2>1 DEF DeskInv
  <2>3. new \in TicketType /\ new.messages = tickets[t].messages
    BY <2>2 DEF TicketType
  <2>4. tickets' = [tickets EXCEPT ![t] = new]
    BY <1>5, <2>1 DEF CloseTicket, Put, DeskInv
  <2> HIDE DEF new
  <2> QED
    BY <2>1, <2>3, <2>4, RanStep
<1> QED
  BY <1>1, <1>2, <1>3, <1>4, <1>5 DEF Handle

\* Whatever is asked, recorded, asked again or lost, records, answers and messages of one
\* scope are one, or raced (support/service.js: _idempotent).
THEOREM DeskStepKeeps == DeskInv /\ [Next]_vars => DeskInv'
<1> SUFFICES ASSUME DeskInv, [Next]_vars
             PROVE  DeskInv'
  OBVIOUS
<1>1. CASE UNCHANGED desk
  BY <1>1 DEF desk, DeskInv, RecordsOK, MessagesOK, Known
<1>2. CASE AskDesk
  BY <1>2, HandleStep DEF AskDesk
<1>3. CASE SaveAnswer
  BY <1>3, SaveStep DEF SaveAnswer
<1>4. CASE Restart
  <2>1. tickets' = [t \in Tickets |-> Absent] /\ idempotency' = {} /\ saving' = {}
        /\ answers' = {}
    BY <1>4 DEF Restart, DeskLost
  <2>2. tickets' \in [Tickets -> TicketType]
        /\ \A t \in Tickets : Len(tickets'[t].messages) = 0
    BY <2>1, NoTickets
  <2>3. RecordsOK'
    BY <2>1 DEF RecordsOK
  <2>4. MessagesOK'
    BY <2>2 DEF MessagesOK
  <2> QED
    BY <2>2, <2>3, <2>4 DEF DeskInv
<1> QED
  BY <1>1, <1>2, <1>3, <1>4 DEF Next, AskRoom, CreateRoom, RecoverRoom, vars

\* All answers given for one key are one, unless two calls with the key overlapped
\* (support/service.js: _idempotent).
THEOREM RetriesAgreeHolds == Spec => []RetriesAgree
<1>1. Spec => []DeskInv
  BY DeskInvInit, DeskStepKeeps, PTL DEF Spec, Init
<1>2. DeskInv => RetriesAgree
  BY DEF DeskInv, RecordsOK, RetriesAgree
<1> QED
  BY <1>1, <1>2, PTL

\* A request leaves one ticket or one message, unless two calls with its key overlapped
\* (support/service.js: _idempotent and the three operations).
THEOREM EachRequestOnceHolds == Spec => []EachRequestOnce
<1>1. Spec => []DeskInv
  BY DeskInvInit, DeskStepKeeps, PTL DEF Spec, Init
<1>2. DeskInv => EachRequestOnce
  <2> SUFFICES ASSUME DeskInv, NEW m \in Messages, NEW n \in Messages, m # n,
                      Scope(tickets[m[1]].messages[m[2]]) = Scope(tickets[n[1]].messages[n[2]])
               PROVE  Scope(tickets[m[1]].messages[m[2]]) \in raced
    BY DEF EachRequestOnce
  <2>1. \A t \in Tickets : DOMAIN tickets[t].messages = 1..Len(tickets[t].messages)
    BY DEF DeskInv, TicketType
  <2>2. /\ m = <<m[1], m[2]>> /\ m[1] \in Tickets /\ m[2] \in 1..Len(tickets[m[1]].messages)
        /\ n = <<n[1], n[2]>> /\ n[1] \in Tickets /\ n[2] \in 1..Len(tickets[n[1]].messages)
    BY <2>1 DEF Messages
  <2>3. m[1] # n[1] \/ m[2] # n[2]
    BY <2>2
  <2> QED
    BY <2>2, <2>3 DEF DeskInv, MessagesOK
<1> QED
  BY <1>1, <1>2, PTL

-----------------------------------------------------------------------------
(* The audit log. *)

Shown == [ticket : Tickets, closed : BOOLEAN, messages : Nat]
Entries ==
  [action : {"created", "replied", "closed"}, ticket : Tickets, before : Shown, after : Shown]

\* The log tells of the tickets as they are; those it says are closed, are.
AuditInv ==
  /\ audit \in Seq(Entries)
  /\ \A i \in 1..Len(audit) : audit[i].action = "closed" => tickets[audit[i].ticket].closed
  /\ AuditTells

\* Entries about a ticket have a newest one.
LEMMA NewestEntry ==
  ASSUME NEW n \in Nat, NEW about, about \subseteq 1..n, about # {}
  PROVE  \E i \in about : \A j \in about : j <= i
<1> DEFINE Back == {n - i : i \in about}
           Less == OpToRel(<, Nat)
<1>1. Back \subseteq Nat /\ Back # {}
  <2>1. \A i \in about : n - i \in Nat
    OBVIOUS
  <2>2. PICK i \in about : TRUE
    OBVIOUS
  <2>3. n - i \in Back
    BY <2>2
  <2> QED
    BY <2>1, <2>3
<1>2. \E m \in Back : \A k \in Back : <<k, m>> \notin Less
  <2>1. IsWellFoundedOn(Less, Nat)
    BY NatLessThanWellFounded
  <2> HIDE DEF Back, Less
  <2> QED
    BY <1>1, <2>1, WFMin
<1>3. PICK m \in Back : \A k \in Back : <<k, m>> \notin Less
  BY <1>2
<1>4. \A k \in Nat : k < m => <<k, m>> \in Less
  BY DEF OpToRel
<1> HIDE DEF Less
<1>5. ASSUME NEW k \in Back PROVE k >= m
  <2> HIDE DEF Back
  <2>1. k \in Nat /\ m \in Nat
    BY <1>1, <1>3
  <2>2. ~(k < m)
    BY <1>3, <1>4, <2>1
  <2> QED
    BY <2>1, <2>2
<1>6. PICK i \in about : m = n - i
  OBVIOUS
<1>7. \A j \in about : n - j >= n - i
  BY <1>5, <1>6
<1> QED
  BY <1>7

\* What is told of a ticket is what the newest of the entries about it says.
About(log, t, n) == {i \in 1..n : log[i].ticket = t}
Latest(log, t, about) ==
  IF about = {} THEN Seen(t, Absent)
  ELSE log[CHOOSE i \in about : \A j \in about : j <= i].after

LEMMA ToldIsLatest == \A log, t, n : Told(log, t, n) = Latest(log, t, About(log, t, n))
BY DEF Told, Latest, About

LEMMA LatestIs ==
  ASSUME NEW log, NEW t, NEW n \in Nat, NEW about, about \subseteq 1..n, about # {}
  PROVE  \E i \in about : (\A j \in about : j <= i) /\ Latest(log, t, about) = log[i].after
<1> DEFINE newest == CHOOSE i \in about : \A j \in about : j <= i
<1>1. newest \in about /\ \A j \in about : j <= newest
  BY NewestEntry
<1>2. Latest(log, t, about) = log[newest].after
  BY DEF Latest
<1> HIDE DEF newest
<1> QED
  BY <1>1, <1>2

\* An entry more changes what is told of its ticket, and nothing that was told before.
LEMMA ToldNext ==
  ASSUME NEW S, NEW log \in Seq(S), NEW e \in S, NEW t
  PROVE  /\ \A n \in 0..Len(log) : Told(Append(log, e), t, n) = Told(log, t, n)
         /\ Told(Append(log, e), t, Len(log) + 1)
              = IF e.ticket = t THEN e.after ELSE Told(log, t, Len(log))
<1> DEFINE more == Append(log, e)
           last == Len(log)
<1>1. last \in Nat /\ (\A i \in 1..last : more[i] = log[i]) /\ more[last + 1] = e
  OBVIOUS
<1> HIDE DEF more, last
<1>2. ASSUME NEW n \in 0..last
      PROVE  Told(more, t, n) = Told(log, t, n)
  <2> DEFINE about == About(log, t, n)
  <2>1. About(more, t, n) = about
    BY <1>1 DEF About
  <2>2. Told(more, t, n) = Latest(more, t, about) /\ Told(log, t, n) = Latest(log, t, about)
    BY <2>1, ToldIsLatest
  <2>3. n \in Nat /\ about \subseteq 1..n /\ \A i \in 1..n : more[i] = log[i]
    BY <1>1 DEF About
  <2> HIDE DEF about
  <2>4. CASE about = {}
    BY <2>2, <2>4 DEF Latest
  <2>5. CASE about # {}
    <3>0. n \in Nat /\ about \subseteq 1..n
      BY <2>3
    <3>1. PICK i \in about : /\ \A j \in about : j <= i
                             /\ Latest(more, t, about) = more[i].after
      BY <2>5, <3>0, LatestIs
    <3>2. PICK k \in about : /\ \A j \in about : j <= k
                             /\ Latest(log, t, about) = log[k].after
      BY <2>5, <3>0, LatestIs
    <3>3. i = k
      BY <2>3, <3>1, <3>2
    <3> QED
      BY <2>2, <2>3, <3>1, <3>2, <3>3
  <2> QED
    BY <2>4, <2>5
<1>3. ASSUME e.ticket = t PROVE Told(more, t, last + 1) = e.after
  <2> DEFINE about == About(more, t, last + 1)
  <2>1. last + 1 \in about /\ about \subseteq 1..last + 1
    BY <1>1, <1>3 DEF About
  <2>2. Told(more, t, last + 1) = Latest(more, t, about)
    BY ToldIsLatest
  <2> HIDE DEF about
  <2>3. PICK i \in about : (\A j \in about : j <= i) /\ Latest(more, t, about) = more[i].after
    <3>1. last + 1 \in Nat /\ about # {}
      BY <1>1, <2>1
    <3> QED
      BY <2>1, <3>1, LatestIs
  <2>4. i = last + 1
    BY <1>1, <2>1, <2>3
  <2> QED
    BY <1>1, <2>2, <2>3, <2>4
<1>4. ASSUME e.ticket # t PROVE Told(more, t, last + 1) = Told(log, t, last)
  <2>1. About(more, t, last + 1) = About(more, t, last)
    BY <1>1, <1>4 DEF About
  <2>2. Told(more, t, last + 1) = Told(more, t, last)
    BY <2>1, ToldIsLatest
  <2>3. Told(more, t, last) = Told(log, t, last)
    BY <1>1, <1>2
  <2> QED
    BY <2>2, <2>3
<1> QED
  BY <1>2, <1>3, <1>4 DEF more, last

\* A ticket is changed, and an entry says so.
LEMMA PutTells ==
  ASSUME tickets \in [Tickets -> TicketType], AuditInv,
         NEW t \in Tickets, NEW ticket \in TicketType,
         NEW action \in {"created", "replied", "closed"}, Put(t, ticket, action),
         ~tickets[t].closed, Seen(t, ticket) # Seen(t, tickets[t]),
         action = "closed" => ticket.closed
  PROVE  AuditInv'
<1> DEFINE e == Entry(action, t, Seen(t, tickets[t]), Seen(t, ticket))
           last == Len(audit)
<1>1. e \in Entries
  <2>1. tickets[t] \in TicketType
    OBVIOUS
  <2>2. Seen(t, tickets[t]) \in Shown /\ Seen(t, ticket) \in Shown
    BY <2>1 DEF Seen, Shown, TicketType
  <2> QED
    BY <2>2 DEF Entry, Entries
<1>2. /\ e.action = action /\ e.ticket = t
      /\ e.before = Seen(t, tickets[t]) /\ e.after = Seen(t, ticket)
  BY DEF Entry
<1>3. tickets' = [tickets EXCEPT ![t] = ticket] /\ audit' = Append(audit, e)
  BY DEF Put
<1> HIDE DEF e
<1>4. audit \in Seq(Entries) /\ last \in Nat
  BY DEF AuditInv
<1>5. /\ audit' \in Seq(Entries) /\ Len(audit') = last + 1
      /\ \A i \in 1..last : audit'[i] = audit[i]
      /\ audit'[last + 1] = e
  BY <1>1, <1>3, <1>4
<1>6. /\ \A u : \A n \in 0..last : Told(audit', u, n) = Told(audit, u, n)
      /\ \A u : Told(audit', u, last + 1) = IF e.ticket = u THEN e.after ELSE Told(audit, u, last)
  <2>1. ASSUME NEW u
        PROVE  /\ \A n \in 0..last : Told(audit', u, n) = Told(audit, u, n)
               /\ Told(audit', u, last + 1) = IF e.ticket = u THEN e.after ELSE Told(audit, u, last)
    <3>1. /\ \A n \in 0..Len(audit) : Told(Append(audit, e), u, n) = Told(audit, u, n)
          /\ Told(Append(audit, e), u, Len(audit) + 1)
               = IF e.ticket = u THEN e.after ELSE Told(audit, u, Len(audit))
      BY <1>1, <1>4, ToldNext
    <3> QED
      BY <1>3, <3>1
  <2> QED
    BY <2>1
<1> HIDE DEF last
<1>7. /\ tickets'[t] = ticket /\ \A u \in Tickets \ {t} : tickets'[u] = tickets[u]
  BY <1>3
<1>8. \A i \in 1..last : audit[i].ticket \in Tickets
  <2>1. \A i \in 1..last : audit[i] \in Entries
    BY <1>4 DEF last
  <2> QED
    BY <2>1 DEF Entries
<1>9. \A i \in 1..last : audit[i].ticket = t => audit[i].action # "closed"
  BY DEF AuditInv, last
<1>10. \A i \in 1..last + 1 : audit'[i].action = "closed" => tickets'[audit'[i].ticket].closed
  <2> SUFFICES ASSUME NEW i \in 1..last + 1, audit'[i].action = "closed"
               PROVE  tickets'[audit'[i].ticket].closed
    OBVIOUS
  <2>1. CASE i = last + 1
    BY <1>2, <1>5, <1>7, <2>1
  <2>2. CASE i \in 1..last
    <3>1. tickets[audit[i].ticket].closed
      BY <1>5, <2>2 DEF AuditInv, last
    <3> QED
      BY <1>5, <1>7, <1>8, <2>2, <3>1
  <2> QED
    BY <1>4, <2>1, <2>2 DEF last
<1>11. ClosedIsFinal'
  <2> SUFFICES ASSUME NEW i \in 1..last + 1, NEW j \in 1..last + 1,
                      i < j, audit'[i].ticket = audit'[j].ticket
               PROVE  audit'[i].action # "closed"
    BY <1>5 DEF ClosedIsFinal
  <2>1. i \in 1..last
    BY <1>4 DEF last
  <2>2. CASE j = last + 1
    BY <1>2, <1>5, <1>9, <2>1, <2>2
  <2>3. CASE j \in 1..last
    BY <1>4, <1>5, <2>1, <2>3 DEF AuditInv, AuditTells, ClosedIsFinal, last
  <2> QED
    BY <1>4, <2>2, <2>3 DEF last
<1>12. \A i \in 1..last + 1 :
         /\ audit'[i].before = Told(audit', audit'[i].ticket, i - 1)
         /\ audit'[i].after # audit'[i].before
  <2> SUFFICES ASSUME NEW i \in 1..last + 1
               PROVE  /\ audit'[i].before = Told(audit', audit'[i].ticket, i - 1)
                      /\ audit'[i].after # audit'[i].before
    OBVIOUS
  <2>1. CASE i = last + 1
    <3>1. Told(audit', t, i - 1) = Told(audit, t, last)
      BY <1>4, <1>6, <2>1 DEF last
    <3>2. Told(audit, t, last) = Seen(t, tickets[t])
      BY DEF AuditInv, AuditTells, last
    <3> QED
      BY <1>2, <1>5, <2>1, <3>1, <3>2
  <2>2. CASE i \in 1..last
    <3>1. /\ audit[i].before = Told(audit, audit[i].ticket, i - 1)
          /\ audit[i].after # audit[i].before
      BY <1>4, <2>2 DEF AuditInv, AuditTells, last
    <3>2. Told(audit', audit[i].ticket, i - 1) = Told(audit, audit[i].ticket, i - 1)
      BY <1>4, <1>6, <2>2 DEF last
    <3> QED
      BY <1>5, <2>2, <3>1, <3>2
  <2> QED
    BY <1>4, <2>1, <2>2 DEF last
<1>13. \A u \in Tickets : Told(audit', u, last + 1) = Seen(u, tickets'[u])
  BY <1>2, <1>6, <1>7 DEF AuditInv, AuditTells, last
<1>14. AuditTells'
  BY <1>5, <1>11, <1>12, <1>13 DEF AuditTells
<1> QED
  BY <1>5, <1>10, <1>14 DEF AuditInv

\* Nothing is said, and nothing was changed.
LEMMA QuietTells ==
  ASSUME AuditInv, UNCHANGED <<tickets, audit>>
  PROVE  AuditInv'
BY DEF AuditInv, AuditTells, ClosedIsFinal

LEMMA NothingTold ==
  ASSUME tickets = [t \in Tickets |-> Absent], audit = <<>>
  PROVE  AuditInv
<1>1. audit \in Seq(Entries) /\ Len(audit) = 0 /\ DOMAIN audit = {}
  OBVIOUS
<1>2. \A t : Told(audit, t, 0) = Seen(t, Absent)
  BY DEF Told
<1> QED
  BY <1>1, <1>2 DEF AuditInv, AuditTells, ClosedIsFinal

LEMMA HandleTells ==
  ASSUME tickets \in [Tickets -> TicketType], AuditInv, NEW q \in Requests, Handle(q)
  PROVE  AuditInv'
<1> USE DeskAssumption
<1>0. /\ q.op = "create" => q.user \in Users
      /\ q.op # "create" => q.ticket \in Tickets
  BY DEF Requests
<1>1. CASE Replay(q) \/ Conflict(q) \/ Refuse(q)
  <2>1. UNCHANGED <<tickets, audit>>
    BY <1>1 DEF Replay, Conflict, Refuse, desk
  <2> QED
    BY <2>1, QuietTells
<1>2. CASE CreateTicket(q)
  <2> DEFINE new == [owner |-> q.user, closed |-> FALSE, messages |-> <<q>>]
  <2>1. PICK t \in Tickets : ~Exists(t) /\ Put(t, new, "created")
    BY <1>2 DEF CreateTicket
  <2>2. tickets[t] = Absent
    BY <2>1 DEF Exists
  <2>3. new \in TicketType /\ <<q>> \in Seq(Requests) /\ Len(<<q>>) = 1
    BY <1>0, <1>2 DEF TicketType, CreateTicket
  <2>4. Seen(t, new).messages = 1 /\ Seen(t, tickets[t]).messages = 0 /\ ~tickets[t].closed
    BY <2>2 DEF Seen, Absent
  <2>5. Seen(t, new) # Seen(t, tickets[t])
    BY <2>4
  <2> HIDE DEF new
  <2> QED
    BY <2>1, <2>3, <2>4, <2>5, PutTells
<1>3. CASE ReplyTicket(q)
  <2> DEFINE t == q.ticket
             new == [tickets[t] EXCEPT !.messages = Append(@, q)]
  <2>1. t \in Tickets /\ Put(t, new, "replied") /\ ~tickets[t].closed
    BY <1>0, <1>3 DEF ReplyTicket, MayReply
  <2>2. tickets[t] \in TicketType /\ tickets[t].messages \in Seq(Requests)
    BY <2>1 DEF TicketType
  <2>3. /\ Append(tickets[t].messages, q) \in Seq(Requests)
        /\ Len(Append(tickets[t].messages, q)) = Len(tickets[t].messages) + 1
    BY <2>2, AppendTyped
  <2>4. new \in TicketType /\ new.messages = Append(tickets[t].messages, q)
    BY <2>2, <2>3 DEF TicketType
  <2>5. Seen(t, new).messages # Seen(t, tickets[t]).messages
    BY <2>2, <2>3, <2>4 DEF Seen
  <2> HIDE DEF new
  <2> QED
    BY <2>1, <2>4, <2>5, PutTells
<1>4. CASE CloseTicket(q)
  <2> DEFINE t == q.ticket
             new == [tickets[t] EXCEPT !.closed = TRUE]
  <2>1. CASE tickets[t].closed
    BY <1>4, <2>1, QuietTells DEF CloseTicket
  <2>2. CASE ~tickets[t].closed
    <3>1. t \in Tickets /\ Put(t, new, "closed")
      BY <1>0, <1>4, <2>2 DEF CloseTicket
    <3>2. tickets[t] \in TicketType
      BY <3>1
    <3>3. new \in TicketType /\ new.closed
      BY <3>2 DEF TicketType
    <3>4. Seen(t, new).closed # Seen(t, tickets[t]).closed
      BY <2>2, <3>2, <3>3 DEF Seen, TicketType
    <3> HIDE DEF new
    <3> QED
      BY <2>2, <3>1, <3>3, <3>4, PutTells
  <2> QED
    BY <2>1, <2>2
<1> QED
  BY <1>1, <1>2, <1>3, <1>4 DEF Handle

\* Whatever is sent, again and again or late, the audit log tells of each ticket how it
\* came to be as it is, and of nothing after its close (support/service.js: _audit).
THEOREM AuditTellsHolds == Spec => []AuditTells
<1>1. Init => AuditInv
  BY NothingTold DEF Init, DeskInit
<1>2. DeskInv /\ AuditInv /\ [Next]_vars => AuditInv'
  <2> SUFFICES ASSUME DeskInv, AuditInv, [Next]_vars PROVE AuditInv'
    OBVIOUS
  <2>1. CASE AskDesk
    BY <2>1, HandleTells DEF AskDesk, DeskInv
  <2>2. CASE SaveAnswer \/ AskRoom \/ CreateRoom \/ RecoverRoom \/ UNCHANGED vars
    <3>1. UNCHANGED <<tickets, audit>>
      BY <2>2 DEF SaveAnswer, Save, AskRoom, CreateRoom, RecoverRoom, vars, desk
    <3> QED
      BY <3>1, QuietTells
  <2>3. CASE Restart
    <3>1. tickets' = [t \in Tickets |-> Absent] /\ audit' = <<>>
      BY <2>3 DEF Restart, DeskLost
    <3>2. audit' \in Seq(Entries) /\ Len(audit') = 0 /\ DOMAIN audit' = {}
      BY <3>1
    <3>3. \A t : Told(audit', t, 0) = Seen(t, Absent)
      BY DEF Told
    <3> QED
      BY <3>1, <3>2, <3>3 DEF AuditInv, AuditTells, ClosedIsFinal
  <2> QED
    BY <2>1, <2>2, <2>3 DEF Next
<1>3. AuditInv => AuditTells
  BY DEF AuditInv
<1> QED
  BY <1>1, <1>2, <1>3, DeskInvInit, DeskStepKeeps, PTL DEF Spec, Init
=============================================================================
