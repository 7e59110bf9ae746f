----------------------------- MODULE RoomCreation -----------------------------
(***************************************************************************)
(* The creation of rooms: RoomService.createRoom over the registry of the  *)
(* process's rooms and the durable store of their checkpoints and of the   *)
(* results of commands.                                                    *)
(*                                                                         *)
(* A call is looked up by its command id over all rooms, then creates a    *)
(* room in memory and makes it durable under the room's lock: its          *)
(* checkpoint and the result of the command, in one write where the store  *)
(* has one, and otherwise in two.  What happens in the room afterwards is  *)
(* left out.  A room's id is fresh: it is known here by the call that made *)
(* it.                                                                     *)
(***************************************************************************)
EXTENDS Naturals, FiniteSets

CONSTANTS
  Calls,        \* calls of createRoom
  Commands,     \* command ids
  Payloads,     \* what requestHash is taken of: the actor and the payload
  NoRoom,
  MaxFailures   \* bound: failures of the lock and of the store

ASSUME CreationAssumption == NoRoom \notin Calls /\ MaxFailures \in Nat

VARIABLES
  backend,      \* the store: "memory", of this process, or "postgres"
  call,         \* each call: its step, command, payload and the room it is about
  memory,       \* the registry: room ids with an actor in this process
  checkpoints,  \* durable: rooms with a snapshot
  results,      \* durable: the command results, each with its room
  named,        \* history: the rooms of this store named in answers, as results
  overlapped,   \* history: commands of which two calls were under way at once
  failures

Rooms == Calls

creation == <<backend, call, memory, checkpoints, results, named, overlapped, failures>>

Steps == {"new", "found", "creating", "locked", "checkpointed", "written", "failed", "done"}
NoCommand == "none"

Fresh == [step |-> "new", command |-> NoCommand, payload |-> NoCommand, room |-> NoRoom]

CreationInit ==
  /\ backend \in {"memory", "postgres"}
  /\ call = [c \in Calls |-> Fresh]
  /\ memory = {} /\ checkpoints = {} /\ results = {}
  /\ named = {} /\ overlapped = {}
  /\ failures = 0

-----------------------------------------------------------------------------
UnderWay(c) == call[c].step \notin {"new", "done"}

Result(c) == [command |-> call[c].command, payload |-> call[c].payload, room |-> call[c].room]

Overlaps(k) == IF \E c \in Calls : UnderWay(c) /\ call[c].command = k THEN {k} ELSE {}

\* findCommandResult asks each room that is durable when the scan starts for a result;
\* which of several comes first depends on the order of the rooms.
Found(k) == {x \in results : x.command = k /\ x.room \in checkpoints}

\* The call comes in.  A result of another request for its command refuses it.
LookUp(c, k, p) ==
  /\ call[c].step = "new"
  /\ \/ /\ Found(k) = {}
        /\ call' = [call EXCEPT ![c] = [step |-> "creating", command |-> k, payload |-> p,
                                        room |-> NoRoom]]
     \/ \E x \in Found(k) :
          call' = [call EXCEPT ![c] =
            [step |-> IF x.payload = p THEN "found" ELSE "done", command |-> k, payload |-> p,
             room |-> x.room]]
  /\ overlapped' = overlapped \cup Overlaps(k)
  /\ UNCHANGED <<backend, memory, checkpoints, results, named, failures>>

\* The room of an earlier call: recovered into memory if need be.
AnswerFound(c) ==
  /\ call[c].step = "found"
  /\ memory' = memory \cup {call[c].room}
  /\ named' = named \cup {Result(c)}
  /\ call' = [call EXCEPT ![c].step = "done"]
  /\ UNCHANGED <<backend, checkpoints, results, overlapped, failures>>

\* The room is registered, and its lock asked for.
Register(c) ==
  /\ call[c].step = "creating"
  /\ memory' = memory \cup {c}
  /\ call' = [call EXCEPT ![c].step = "locked", ![c].room = c]
  /\ UNCHANGED <<backend, checkpoints, results, named, overlapped, failures>>

Fails == failures < MaxFailures /\ failures' = failures + 1

\* The memory store has initializeRoom: checkpoint and result, both or neither.
Initialize(c) ==
  /\ backend = "memory" /\ call[c].step = "locked"
  /\ \/ /\ checkpoints' = checkpoints \cup {call[c].room}
        /\ results' = results \cup {Result(c)}
        /\ call' = [call EXCEPT ![c].step = "written"]
        /\ UNCHANGED failures
     \/ /\ Fails
        /\ call' = [call EXCEPT ![c].step = "failed"]
        /\ UNCHANGED <<checkpoints, results>>
  /\ UNCHANGED <<backend, memory, named, overlapped>>

\* A call of PostgreSQL for c, which moves to this step, or fails, before it took
\* effect or after.
Saves(c, step, took) ==
  \/ /\ took
     /\ call' = [call EXCEPT ![c].step = step]
     /\ UNCHANGED failures
  \/ /\ Fails
     /\ call' = [call EXCEPT ![c].step = "failed"]
     /\ took \/ UNCHANGED <<checkpoints, results>>

\* Mutant: the result is written first.
SaveResultFirst(c) ==
  /\ backend = "postgres" /\ call[c].step = "locked"
  /\ Saves(c, "checkpointed", results' = results \cup {Result(c)} /\ UNCHANGED checkpoints)
  /\ UNCHANGED <<backend, memory, named, overlapped>>

\* The PostgreSQL store has not: the checkpoint is saved,
SaveCheckpoint(c) ==
  /\ backend = "postgres" /\ call[c].step = "locked"
  /\ Saves(c, "checkpointed",
           checkpoints' = checkpoints \cup {call[c].room} /\ UNCHANGED results)
  /\ UNCHANGED <<backend, memory, named, overlapped>>

\* and then the result.
SaveResult(c) ==
  /\ call[c].step = "checkpointed"
  /\ Saves(c, "written", results' = results \cup {Result(c)} /\ UNCHANGED checkpoints)
  /\ UNCHANGED <<backend, memory, named, overlapped>>

\* The lock is released, and the caller told; a release that fails fails the call.
Release(c) ==
  /\ call[c].step = "written"
  /\ \/ /\ named' = named \cup {Result(c)}
        /\ call' = [call EXCEPT ![c].step = "done"]
        /\ UNCHANGED failures
     \/ /\ Fails
        /\ call' = [call EXCEPT ![c].step = "failed"]
        /\ UNCHANGED named
  /\ UNCHANGED <<backend, memory, checkpoints, results, overlapped>>

\* Mutant: a call that failed answers with its room.
GiveAnyway(c) ==
  /\ call[c].step = "failed"
  /\ named' = named \cup {Result(c)}
  /\ memory' = memory \ {call[c].room}
  /\ call' = [call EXCEPT ![c].step = "done"]
  /\ UNCHANGED <<backend, checkpoints, results, overlapped, failures>>

\* The room is dropped from memory, the caller gets the error.
GiveUp(c) ==
  /\ call[c].step = "failed"
  /\ memory' = memory \ {call[c].room}
  /\ call' = [call EXCEPT ![c].step = "done"]
  /\ UNCHANGED <<backend, checkpoints, results, named, overlapped, failures>>

CreationStep(c) ==
  \/ AnswerFound(c) \/ Register(c)
  \/ Initialize(c) \/ SaveCheckpoint(c) \/ SaveResult(c)
  \/ Release(c) \/ GiveUp(c)

\* A durable room is recovered into memory: a new process does this with each that it
\* finds, and later whoever asks for the room.
Recover(r) ==
  /\ r \in checkpoints \ memory
  /\ memory' = memory \cup {r}
  /\ UNCHANGED <<backend, call, checkpoints, results, named, overlapped, failures>>

\* The process ends: the calls get no answer, and the next process begins with no room.
\* The memory store ends with it.
CreationLost ==
  /\ call' = [c \in Calls |-> IF UnderWay(c) THEN [call[c] EXCEPT !.step = "done"] ELSE call[c]]
  /\ memory' = {}
  /\ \/ backend = "postgres" /\ UNCHANGED <<checkpoints, results, named>>
     \/ backend = "memory" /\ checkpoints' = {} /\ results' = {} /\ named' = {}
  /\ UNCHANGED <<backend, overlapped, failures>>

-----------------------------------------------------------------------------
CreationTypeOK ==
  /\ backend \in {"memory", "postgres"}
  /\ call \in [Calls -> [step : Steps, command : Commands \cup {NoCommand},
                         payload : Payloads \cup {NoCommand}, room : Rooms \cup {NoRoom}]]
  /\ memory \subseteq Rooms /\ checkpoints \subseteq Rooms
  /\ \A x \in results \cup named :
       x.command \in Commands /\ x.payload \in Payloads /\ x.room \in Rooms
  /\ overlapped \subseteq Commands
  /\ failures \in 0..MaxFailures

\* Durable rooms without the result of the command that made them: no retry finds them.
HalfMade == {r \in checkpoints : \A x \in results : x.room # r}

\* A create command has one room that its retries are answered with, however often it is
\* sent, also when the caller was told of an error after the room was made, or the
\* process ended before the answer -- unless two of its calls were under way at once;
\* and with the memory store it leaves no other room (room/service.js: createRoom;
\* gateway.js: initialize; game-memory.js: initializeRoom).
OneRoomPerCommand ==
  /\ \A x, y \in results : x.command = y.command => x = y \/ x.command \in overlapped
  /\ backend = "memory" => HalfMade = {}

\* A caller is given a room that is durable, has its result, and was made by this
\* command for this actor and payload, although checkpoint and result are written one
\* by one and either may fail; and when no call is under way, every room that the
\* process holds is durable, whatever failed: none is left that a restart would lose
\* (room/service.js: createRoom, both its answers, and registry.delete).
NamedIsDurable == \A x \in named : x \in results /\ x.room \in checkpoints
NoOrphans == (\A c \in Calls : ~UnderWay(c)) => memory \subseteq checkpoints
RoomsAreDurable == NamedIsDurable /\ NoOrphans

\* A failed write of the result leaves no room behind, as the memory store says of
\* initializeRoom and asks of PostgreSQL (game-memory.js:854-857).  (Does not hold with
\* PostgreSQL, which has no initializeRoom: gateway.js:199-210.)
NoRoomLeftBehind == (\A c \in Calls : ~UnderWay(c)) => HalfMade = {}
=============================================================================
