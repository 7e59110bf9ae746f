---------------------------- MODULE RoomPresence ----------------------------
(***************************************************************************)
(* The connection flags of the seated players.  Disconnecting and          *)
(* reconnecting append no event: the flags are saved beside the event      *)
(* stream as a presence overlay (game_presence), and a recovery lays the   *)
(* overlay over the flags of the latest snapshot.  Joins and leaves go     *)
(* through the aggregate of Room.tla and set flags of their own.           *)
(***************************************************************************)
EXTENDS Room

VARIABLES
  connected,   \* the flags of the aggregate in memory: the players connected
  stored,      \* the flags in the latest durable snapshot
  overlay,     \* the flags last saved as presence, by player seated then
  told,        \* history: the flag each player's last accepted command set
  returned     \* history: players who took a seat while the overlay named them,
               \* and have not lost or made a connection since

presence == <<connected, stored, overlay, told, returned>>
presenceVars == <<vars, presence>>

PresenceInit ==
  Init /\ connected = {} /\ stored = {} /\ overlay = Empty /\ told = {} /\ returned = {}

\* mergePresence and _restorePresence: every player the overlay names gets its
\* flag, however much older than the snapshot the overlay is.
RecoveredFlags ==
  {p \in Seated(room) : IF p \in DOMAIN overlay THEN overlay[p] ELSE p \in stored}

\* RoomActor rebuilds the aggregate before it executes a command.
Recovered == connected = RecoveredFlags

\* A join sets the flag of the newcomer, a leave drops it.
FlagsAfter(flags, newcomers) == (flags \cap Seated(room')) \cup newcomers

\* Any other command: its event is appended with a snapshot of the room.
RoomCommand ==
  /\ Recovered
  /\ Command
  /\ LET newcomers == Seated(room') \ Seated(room) IN
       /\ connected' = FlagsAfter(connected, newcomers)
       /\ stored' = connected'
       /\ told' = (told \cap Seated(room')) \cup newcomers
       /\ returned' = (returned \cap Seated(room')) \cup (newcomers \cap DOMAIN overlay)
  /\ UNCHANGED overlay

\* Mutant: only the player at hand is saved.
OverlayOfOne(p) == [q \in {p} |-> q \in connected']

\* The overlay saved replaces the one before, for all seated players.
SavedOverlay(p) == [q \in Seated(room) |-> q \in connected']

SetConnected(p, flag) ==
  /\ Recovered
  /\ p \in Seated(room)
  /\ connected' = IF flag THEN connected \cup {p} ELSE connected \ {p}
  /\ overlay' = SavedOverlay(p)
  /\ told' = IF flag THEN told \cup {p} ELSE told \ {p}
  /\ returned' = returned \ {p}
  /\ UNCHANGED <<vars, stored>>

Disconnect(p) == SetConnected(p, FALSE)
Reconnect(p) == p \notin connected /\ SetConnected(p, TRUE)

\* reconnectSync sets the flag before it refuses a cursor outside its window;
\* the actor saves nothing of a refused command.
ReconnectRefused(p) ==
  /\ Recovered
  /\ p \in Seated(room) \ connected
  /\ connected' = connected \cup {p}
  /\ UNCHANGED <<vars, stored, overlay, told, returned>>

\* Another dispatch, another process or a restart rebuilds the room.
Recover ==
  /\ ~Recovered
  /\ connected' = RecoveredFlags
  /\ UNCHANGED <<vars, stored, overlay, told, returned>>

PresenceNext ==
  \/ RoomCommand
  \/ \E p \in Players : Disconnect(p) \/ Reconnect(p) \/ ReconnectRefused(p)
  \/ Recover

PresenceSpec == PresenceInit /\ [][PresenceNext]_presenceVars
-----------------------------------------------------------------------------
\* What the last accepted join, disconnect or reconnect of a player said
\* survives every later event, snapshot and recovery, unless the player left
\* and came back since.  (A player who left while disconnected and joins again
\* is recovered as disconnected, and the next overlay saved makes that last.)
PresenceSurvives ==
  /\ connected \subseteq Seated(room)
  /\ \A p \in Seated(room) \ returned : p \in RecoveredFlags <=> p \in told
=============================================================================
