------------------------------- MODULE Requests -------------------------------
(***************************************************************************)
(* The requests of one server process that are repeated by key rather than *)
(* ordered by a room's actor: the support desk and the creation of rooms,  *)
(* and the end of the process, which takes the whole support desk with it, *)
(* the calls, and of the rooms what the store does not keep.               *)
(***************************************************************************)
EXTENDS SupportDesk, RoomCreation

CONSTANTS
  MaxRequests,  \* bound: requests to the desk and calls of createRoom
  MaxRestarts   \* bound: ends of the process

ASSUME RequestsAssumption == {MaxRequests, MaxRestarts} \subseteq Nat

VARIABLES asked, restarts

vars == <<desk, creation, asked, restarts>>

Init == DeskInit /\ CreationInit /\ asked = 0 /\ restarts = 0

Ask == asked < MaxRequests /\ asked' = asked + 1

\* A request comes in.
AskDesk ==
  /\ Ask
  /\ \E q \in Requests : Handle(q)
  /\ UNCHANGED <<creation, restarts>>

SaveAnswer ==
  /\ \E p \in saving : Save(p)
  /\ UNCHANGED <<creation, asked, restarts>>

AskRoom ==
  /\ Ask
  /\ \E c \in Calls, k \in Commands, p \in Payloads : LookUp(c, k, p)
  /\ UNCHANGED <<desk, restarts>>

CreateRoom ==
  /\ \E c \in Calls : CreationStep(c)
  /\ UNCHANGED <<desk, asked, restarts>>

RecoverRoom ==
  /\ \E r \in Rooms : Recover(r)
  /\ UNCHANGED <<desk, asked, restarts>>

Restart ==
  /\ restarts < MaxRestarts /\ restarts' = restarts + 1
  /\ CreationLost
  /\ DeskLost
  /\ UNCHANGED asked

Next == AskDesk \/ SaveAnswer \/ AskRoom \/ CreateRoom \/ RecoverRoom \/ Restart

Spec == Init /\ [][Next]_vars

=============================================================================
