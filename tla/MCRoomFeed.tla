------------------------------ MODULE MCRoomFeed ------------------------------
(***************************************************************************)
(* Instances of RoomFeed for TLC: the player who made the room and another *)
(* who joins it.                                                           *)
(***************************************************************************)
EXTENDS RoomFeed

CONSTANTS Ann, Bob

MCClients == {Ann, Bob}
=============================================================================
