----------------------------- MODULE MCRoomActor -----------------------------
(***************************************************************************)
(* Instances of RoomActor for TLC.  NextDeal is next_round with autoDeal,  *)
(* which appends NEXT_ROUND and ROUND_DEALING together; Reconnect, sent    *)
(* under the same command id, appends nothing but may save the presence    *)
(* overlay; Act stands for the commands that append one event.             *)
(***************************************************************************)
EXTENDS RoomActor, TLC

CONSTANTS Reconnect, NextDeal, Act, A1, A2

MCRequests == {Reconnect, NextDeal, Act}

\* The command id is the first request that carries it.
MCCommands == {Reconnect, Act}
MCCommandOf == [r \in MCRequests |-> IF r = NextDeal THEN Reconnect ELSE r]

MCYields == [r \in MCRequests |->
              IF r = NextDeal THEN {2} ELSE IF r = Reconnect THEN {0} ELSE {1}]

MCActors == {A1, A2}
ActorSymmetry == Permutations(MCActors)
=============================================================================
