---------------------------- MODULE DeadlinesProofs ----------------------------
(***************************************************************************)
(* The turn deadlines, for any number of processes, turns, claims and      *)
(* store calls under way, in calm behaviours and rough ones: no turn is    *)
(* timed out early or twice, a row says EXECUTED only of a turn its        *)
(* timeout ended, no two workers share a lease, and what is terminal stays *)
(* as it is.                                                               *)
(***************************************************************************)
EXTENDS Deadlines, TLAPS

Rows == [status : Terminal \cup {"none", "SCHEDULED", "CLAIMED"},
         owner : Procs \cup {NoProc}, token : 0..MaxToken, live : BOOLEAN]

Views == [version : 0..MaxVersion + 1, playing : BOOLEAN]

\* The room, and the deadlines that have passed.
WorldOK ==
  /\ calm \in BOOLEAN /\ playing \in BOOLEAN /\ chances \in 0..MaxEvents
  /\ version \in 0..MaxVersion + 1 /\ late \in 0..version
  /\ timedOut \subseteq 1..version
  /\ playing => version \in Versions

\* The room as the processes see it.
ViewsOK ==
  /\ up \subseteq Procs /\ owes \subseteq up
  /\ seen \in [Procs -> Views]
  /\ \A p \in Procs : seen[p].version <= version
  /\ \A p \in Procs : seen[p].playing => seen[p].version \in Versions

\* A row is live only while it is claimed, and one that was never stored is blank.
StoreOK ==
  /\ rec \in [Versions -> Rows]
  /\ \A v \in Versions : rec[v].live => rec[v].status = "CLAIMED"
  /\ \A v \in Versions : rec[v].status = "none" => rec[v] = NoRow

\* Calls are made by running processes, or by one that was closing.
CallsOK ==
  /\ unsaved \subseteq up \X Versions
  /\ calls \subseteq [by : Procs \cup {NoProc}, op : {"upsert", "cancel", "cancelRoom"},
                      v : 0..MaxVersion]
  /\ \A c \in calls : /\ c.by \in up \cup {NoProc}
                      /\ c.op = "upsert" => c.by \in up /\ c.v \in Versions
                      /\ c.op = "cancel" => c.v \in Versions

\* An entry that works on a claim: its deadline has passed; unless the row is done
\* with, its token is one that the row has given out; and if it was answered
\* "executed", the timeout ended the turn.
ClaimOK(p, v) ==
  entry[p][v].st \in Working =>
    /\ v <= late
    /\ entry[p][v].token >= 1
    /\ rec[v].status \notin Terminal => entry[p][v].token <= rec[v].token
    /\ entry[p][v].st = "executed" => v \in timedOut

EntriesOK ==
  /\ entry \in [Procs -> [Versions -> Entries]]
  /\ \A p \in Procs, v \in Versions : ClaimOK(p, v)

DeadlineInv ==
  /\ WorldOK /\ ViewsOK /\ StoreOK /\ CallsOK /\ EntriesOK
  /\ TimedOutWhenLate /\ ExecutedIsApplied /\ OneHolder

LEMMA DeadlineInvTyped == DeadlineInv => TypeOK
<1> SUFFICES ASSUME DeadlineInv PROVE TypeOK
  OBVIOUS
<1> QED
  BY DEF DeadlineInv, WorldOK, ViewsOK, StoreOK, CallsOK, EntriesOK, TypeOK, Rows

LEMMA InitDeadlineInv == Init => DeadlineInv
<1> SUFFICES ASSUME Init PROVE DeadlineInv
  OBVIOUS
<1> USE DeadlineAssumption DEF Init
<1>1. WorldOK
  <2>1. calm \in BOOLEAN
    BY Zenon
  <2>2. playing \in BOOLEAN /\ ~playing
    BY Zenon
  <2>3. /\ chances \in 0..MaxEvents
        /\ version \in 0..MaxVersion + 1 /\ late \in 0..version
        /\ timedOut \subseteq 1..version
    BY SMT
  <2> QED
    BY <2>1, <2>2, <2>3, Zenon DEF WorldOK
<1>2. ViewsOK
  <2>1. Lead \in Procs
    BY DEF Lead
  <2>2. up \subseteq Procs /\ owes \subseteq up
    <3>1. up = {Lead} \/ up = Procs
      BY Zenon
    <3> QED
      BY <2>1, <3>1
  <2>3. seen = [p \in Procs |-> [version |-> 0, playing |-> FALSE]]
    BY Zenon DEF Room
  <2>4. [version |-> 0, playing |-> FALSE] \in Views
    <3>1. 0 \in 0..MaxVersion + 1
      BY SMT
    <3> QED
      BY <3>1, Zenon DEF Views
  <2>5. seen \in [Procs -> Views]
    BY <2>3, <2>4, Zenon
  <2>6. \A p \in Procs : seen[p].version = 0 /\ seen[p].playing = FALSE
    BY <2>3
  <2>7. \A p \in Procs : seen[p].version <= version
    BY <2>6
  <2> QED
    BY <2>2, <2>5, <2>6, <2>7, Zenon DEF ViewsOK
<1>3. StoreOK
  BY DEF StoreOK, Rows, NoRow
<1>4. CallsOK
  BY DEF CallsOK
<1>5. EntriesOK
  BY DEF EntriesOK, Entries, NoEntry, ClaimOK, Working
<1>6. TimedOutWhenLate /\ ExecutedIsApplied
  BY DEF TimedOutWhenLate, ExecutedIsApplied, NoRow
<1>7. OneHolder
  BY DEF OneHolder, Working, NoEntry
<1> QED
  BY <1>1, <1>2, <1>3, <1>4, <1>5, <1>6, <1>7 DEF DeadlineInv

-----------------------------------------------------------------------------
\* What time and the timeout command do to the room: it only goes on.
WorldGoesOn ==
  /\ late <= late' /\ late' \in Nat
  /\ timedOut \subseteq timedOut'

\* What the store does to the rows: one that is done with stays so, and the others
\* keep counting their claims.
RowsGoOn ==
  \A v \in Versions :
    rec'[v].status \notin Terminal =>
      rec[v].status \notin Terminal /\ rec[v].token <= rec'[v].token

LEMMA UnchangedRowsGoOn ==
  ASSUME StoreOK, UNCHANGED rec
  PROVE  RowsGoOn
BY DeadlineAssumption DEF StoreOK, RowsGoOn, Rows

\* A scheduler's entry is one of the record's values.
LEMMA EntryTyped ==
  ASSUME EntriesOK, NEW p \in Procs, NEW v \in Versions
  PROVE  entry[p][v] \in Entries
BY DEF EntriesOK

LEMMA SetEntryEffect ==
  ASSUME EntriesOK, NEW p \in Procs, NEW v \in Versions, NEW e \in Entries,
         SetEntry(p, v, e)
  PROVE  /\ entry' \in [Procs -> [Versions -> Entries]]
         /\ entry'[p][v] = e
         /\ \A q \in Procs, w \in Versions :
              <<q, w>> # <<p, v>> => entry'[q][w] = entry[q][w]
BY DEF EntriesOK, SetEntry

\* An entry that works on a claim was one before, with the same token, and is
\* "executed" only if it was or if the timeout ended the turn.
EntriesGoOn ==
  /\ entry' \in [Procs -> [Versions -> Entries]]
  /\ \A p \in Procs, v \in Versions :
       entry'[p][v].st \in Working =>
         /\ entry[p][v].st \in Working
         /\ entry'[p][v].token = entry[p][v].token
         /\ entry'[p][v].st = "executed" => entry[p][v].st = "executed" \/ v \in timedOut'

LEMMA EntriesGoOnKeeps ==
  ASSUME EntriesOK, OneHolder, WorldOK, StoreOK, rec' \in [Versions -> Rows],
         EntriesGoOn, WorldGoesOn, RowsGoOn
  PROVE  EntriesOK' /\ OneHolder'
<1>1. ASSUME NEW p \in Procs, NEW v \in Versions, entry'[p][v].st \in Working
      PROVE  /\ v <= late'
             /\ entry'[p][v].token >= 1
             /\ rec'[v].status \notin Terminal => entry'[p][v].token <= rec'[v].token
             /\ entry'[p][v].st = "executed" => v \in timedOut'
  <2>1. /\ entry[p][v].st \in Working
        /\ entry'[p][v].token = entry[p][v].token
        /\ entry'[p][v].st = "executed" => entry[p][v].st = "executed" \/ v \in timedOut'
    BY <1>1 DEF EntriesGoOn
  <2>2. /\ v <= late
        /\ entry[p][v].token >= 1
        /\ rec[v].status \notin Terminal => entry[p][v].token <= rec[v].token
        /\ entry[p][v].st = "executed" => v \in timedOut
    BY <2>1 DEF EntriesOK, ClaimOK
  <2>3. /\ v \in Int /\ late \in Int /\ late' \in Int /\ late <= late'
        /\ timedOut \subseteq timedOut'
    BY DEF WorldOK, WorldGoesOn, Versions
  <2>4. entry[p][v].token \in Int /\ rec[v].token \in Int /\ rec'[v].token \in Int
    BY EntryTyped DEF Entries, StoreOK, Rows
  <2>5. rec'[v].status \notin Terminal =>
          rec[v].status \notin Terminal /\ rec[v].token <= rec'[v].token
    BY DEF RowsGoOn
  <2> QED
    BY <2>1, <2>2, <2>3, <2>4, <2>5
<1>2. EntriesOK'
  BY <1>1 DEF EntriesOK, ClaimOK, EntriesGoOn
<1>3. OneHolder'
  BY DEF OneHolder, EntriesGoOn
<1> QED
  BY <1>2, <1>3

\* Steps that leave the entries alone.
LEMMA SameEntriesGoOn ==
  ASSUME EntriesOK, UNCHANGED entry
  PROVE  EntriesGoOn
BY DEF EntriesOK, EntriesGoOn

\* Steps that take an entry out of a claim, or never had it in one.
LEMMA IdleEntryGoesOn ==
  ASSUME EntriesOK, NEW p \in Procs, NEW v \in Versions, NEW e \in Entries,
         e.st \notin Working, SetEntry(p, v, e)
  PROVE  EntriesGoOn
BY SetEntryEffect DEF EntriesOK, EntriesGoOn

\* Steps that leave the store and the schedulers alone.
LEMMA QuietKeeps ==
  ASSUME DeadlineInv, UNCHANGED <<entry, rec>>, WorldOK', WorldGoesOn
  PROVE  StoreOK' /\ EntriesOK' /\ ExecutedIsApplied' /\ OneHolder'
<1> USE DEF DeadlineInv
<1>1. StoreOK'
  BY DEF StoreOK
<1>2. EntriesGoOn /\ RowsGoOn
  BY SameEntriesGoOn, UnchangedRowsGoOn
<1>3. rec' \in [Versions -> Rows]
  BY <1>1 DEF StoreOK
<1>4. EntriesOK' /\ OneHolder'
  BY <1>2, <1>3, EntriesGoOnKeeps
<1>5. ExecutedIsApplied'
  BY DEF ExecutedIsApplied, WorldGoesOn
<1> QED
  BY <1>1, <1>4, <1>5

LEMMA PlayKeeps ==
  ASSUME DeadlineInv, NEW p \in Procs, NEW turnPending \in BOOLEAN, NEW sameTurn \in BOOLEAN,
         Play(p, turnPending, sameTurn)
  PROVE  DeadlineInv'
<1> USE DeadlineAssumption
<1>1. WorldOK /\ ViewsOK /\ CallsOK /\ TimedOutWhenLate
  BY DEF DeadlineInv
<1>2. version' = version + 1 /\ version <= MaxVersion /\ timedOut' = timedOut
  BY DEF Play, Commits
<1>3. late' \in 0..version' /\ late <= late' /\ late' \in Nat /\ late \in Nat
  BY <1>1, <1>2 DEF WorldOK, Play
<1>4. playing' = turnPending /\ (turnPending => version' \in Versions)
  BY <1>1, <1>2 DEF WorldOK, Play, Commits, Versions
<1>5. WorldOK'
  <2>1. calm' \in BOOLEAN /\ playing' \in BOOLEAN
    BY <1>1, <1>4, Zenon DEF WorldOK, Play
  <2>2. /\ chances' \in 0..MaxEvents /\ version' \in 0..MaxVersion + 1
        /\ timedOut' \subseteq 1..version'
    BY <1>1, <1>2 DEF WorldOK, Play
  <2> QED
    BY <1>3, <1>4, <2>1, <2>2, Zenon DEF WorldOK
<1>6. WorldGoesOn
  BY <1>2, <1>3 DEF WorldGoesOn
<1>7. ViewsOK'
  <2>1. seen' = [seen EXCEPT ![p] = [version |-> version + 1, playing |-> turnPending]]
    BY DEF Play, Commits
  <2>2. [version |-> version + 1, playing |-> turnPending] \in Views
    BY <1>1, <1>2 DEF WorldOK, Views
  <2>3. seen' \in [Procs -> Views]
    BY <1>1, <2>1, <2>2 DEF ViewsOK
  <2>4. ASSUME NEW q \in Procs
        PROVE  /\ seen'[q].version <= version'
               /\ seen'[q].playing => seen'[q].version \in Versions
    <3>1. CASE q = p
      BY <1>1, <1>2, <1>4, <2>1, <3>1 DEF ViewsOK, WorldOK
    <3>2. CASE q # p
      BY <1>1, <1>2, <2>1, <3>2 DEF ViewsOK, WorldOK, Views
    <3> QED
      BY <3>1, <3>2
  <2> QED
    BY <1>1, <2>3, <2>4 DEF ViewsOK, Play
<1>8. CallsOK'
  BY <1>1 DEF CallsOK, Play
<1>9. TimedOutWhenLate'
  BY <1>1, <1>2, <1>3 DEF TimedOutWhenLate, WorldOK
<1> QED
  BY <1>5, <1>6, <1>7, <1>8, <1>9, QuietKeeps DEF DeadlineInv, Play

\* The count of events stays within its bound.
LEMMA EventCounted ==
  ASSUME WorldOK, Event \/ UNCHANGED chances
  PROVE  chances' \in 0..MaxEvents
BY DeadlineAssumption DEF WorldOK, Event

LEMMA SameWorldKeeps ==
  ASSUME WorldOK, TimedOutWhenLate, UNCHANGED <<calm, world>>, Event \/ UNCHANGED chances
  PROVE  WorldOK' /\ WorldGoesOn /\ TimedOutWhenLate'
<1>1. chances' \in 0..MaxEvents
  BY EventCounted
<1>2. WorldOK'
  BY <1>1, Zenon DEF WorldOK, world
<1>3. WorldGoesOn
  BY DEF WorldOK, WorldGoesOn, world
<1> QED
  BY <1>2, <1>3 DEF TimedOutWhenLate, world

\* A process that recovers its actor sees the room as it is.
LEMMA RecoveredView ==
  ASSUME WorldOK, ViewsOK, NEW p \in Procs, seen' = [seen EXCEPT ![p] = Room],
         UNCHANGED version, up' \subseteq Procs, owes' \subseteq up'
  PROVE  ViewsOK'
<1>1. Room \in Views /\ Room.version = version /\ (Room.playing => Room.version \in Versions)
  BY Zenon DEF WorldOK, Room, Views
<1>2. seen' \in [Procs -> Views]
  BY <1>1 DEF ViewsOK
<1>3. ASSUME NEW q \in Procs
      PROVE  /\ seen'[q].version <= version
             /\ seen'[q].playing => seen'[q].version \in Versions
  <2>1. CASE q = p
    BY <1>1, <2>1 DEF ViewsOK, WorldOK
  <2>2. CASE q # p
    BY <2>2 DEF ViewsOK
  <2> QED
    BY <2>1, <2>2
<1> QED
  BY <1>2, <1>3 DEF ViewsOK

LEMMA SameViews ==
  ASSUME ViewsOK, UNCHANGED <<seen, version>>, up' \subseteq Procs, owes' \subseteq up'
  PROVE  ViewsOK'
BY DEF ViewsOK

LEMMA RecoveryKeeps ==
  ASSUME DeadlineInv, NEW p \in Procs,
         Disconnect(p) \/ Reconnect(p) \/ Restart(p) \/ RefreshMissed(p)
  PROVE  DeadlineInv'
<1>1. WorldOK /\ ViewsOK /\ CallsOK /\ TimedOutWhenLate
  BY DEF DeadlineInv
<1>2. UNCHANGED <<calm, world, rec, entry, unsaved, calls>> /\ (Event \/ UNCHANGED chances)
  BY DEF Disconnect, Reconnect, Restart, RefreshMissed, RoughEvent
<1>3. WorldOK' /\ WorldGoesOn /\ TimedOutWhenLate'
  BY <1>1, <1>2, SameWorldKeeps
<1>4. up \subseteq up' /\ up' \subseteq Procs /\ owes' \subseteq up'
  BY <1>1 DEF Disconnect, Reconnect, Restart, RefreshMissed, ViewsOK
<1>5. ViewsOK'
  <2>1. UNCHANGED version
    BY <1>2 DEF world
  <2>2. seen' = [seen EXCEPT ![p] = Room] \/ UNCHANGED seen
    BY DEF Disconnect, Reconnect, Restart, RefreshMissed
  <2> QED
    BY <1>1, <1>4, <2>1, <2>2, RecoveredView, SameViews
<1>6. CallsOK'
  BY <1>1, <1>2, <1>4 DEF CallsOK
<1> QED
  BY <1>2, <1>3, <1>5, <1>6, QuietKeeps DEF DeadlineInv

LEMMA ElapseKeeps ==
  ASSUME DeadlineInv, Elapse
  PROVE  DeadlineInv'
<1>1. WorldOK /\ ViewsOK /\ CallsOK /\ TimedOutWhenLate
  BY DEF DeadlineInv
<1>2. /\ late' = late + 1 /\ late < version
      /\ UNCHANGED <<calm, version, playing, timedOut, rec, up, seen, owes, entry, unsaved,
                     calls, chances>>
  BY DEF Elapse, local
<1>3. late' \in 0..version /\ late \in Nat /\ late' \in Nat /\ late <= late'
  BY <1>1, <1>2 DEF WorldOK
<1>4. WorldOK'
  BY <1>1, <1>2, <1>3, Zenon DEF WorldOK
<1>5. WorldGoesOn
  BY <1>2, <1>3 DEF WorldGoesOn
<1>6. TimedOutWhenLate'
  BY <1>1, <1>2, <1>3 DEF TimedOutWhenLate, WorldOK
<1>7. ViewsOK' /\ CallsOK'
  BY <1>1, <1>2 DEF ViewsOK, CallsOK
<1> QED
  BY <1>2, <1>4, <1>5, <1>6, <1>7, QuietKeeps DEF DeadlineInv

-----------------------------------------------------------------------------
\* The store.

LEMMA StoreStepKeeps ==
  ASSUME DeadlineInv, UNCHANGED <<calm, world, up, seen, owes, entry>>,
         Event \/ UNCHANGED chances, StoreOK', RowsGoOn, CallsOK', ExecutedIsApplied'
  PROVE  DeadlineInv'
<1>1. WorldOK /\ ViewsOK /\ EntriesOK /\ StoreOK /\ OneHolder /\ TimedOutWhenLate
  BY DEF DeadlineInv
<1>2. WorldOK' /\ WorldGoesOn /\ TimedOutWhenLate'
  BY <1>1, SameWorldKeeps
<1>3. ViewsOK'
  BY <1>1 DEF ViewsOK, world
<1>4. EntriesOK' /\ OneHolder'
  <2>1. EntriesGoOn
    BY <1>1, SameEntriesGoOn
  <2>2. rec' \in [Versions -> Rows]
    BY DEF StoreOK
  <2> QED
    BY <1>1, <1>2, <2>1, <2>2, EntriesGoOnKeeps
<1> QED
  BY <1>2, <1>3, <1>4 DEF DeadlineInv

\* No call changes a row that is done with, or makes one EXECUTED.
RowsCancelled ==
  /\ rec' \in [Versions -> Rows]
  /\ \A v \in Versions :
       \/ rec'[v] = rec[v]
       \/ rec[v].status = "SCHEDULED" /\ rec'[v] = [rec[v] EXCEPT !.status = "CANCELLED"]
       \/ rec[v].status = "none" /\ rec'[v] = [NoRow EXCEPT !.status = "SCHEDULED"]
       \/ rec[v].live /\ rec'[v] = [rec[v] EXCEPT !.live = FALSE]

LEMMA RowsCancelledKeeps ==
  ASSUME StoreOK, ExecutedIsApplied, UNCHANGED timedOut, RowsCancelled
  PROVE  StoreOK' /\ RowsGoOn /\ ExecutedIsApplied'
<1> SUFFICES ASSUME NEW v \in Versions
             PROVE  /\ rec'[v].live => rec'[v].status = "CLAIMED"
                    /\ rec'[v].status = "none" => rec'[v] = NoRow
                    /\ rec'[v].status \notin Terminal =>
                         rec[v].status \notin Terminal /\ rec[v].token <= rec'[v].token
                    /\ rec'[v].status = "EXECUTED" => rec[v].status = "EXECUTED"
  BY DEF StoreOK, RowsCancelled, RowsGoOn, ExecutedIsApplied
<1>1. rec[v] \in Rows
  BY DEF StoreOK
<1>2. CASE rec'[v] = rec[v]
  BY <1>1, <1>2 DEF StoreOK, Rows
<1>3. CASE rec[v].status = "SCHEDULED" /\ rec'[v] = [rec[v] EXCEPT !.status = "CANCELLED"]
  BY <1>1, <1>3 DEF StoreOK, Rows, Terminal
<1>4. CASE rec[v].status = "none" /\ rec'[v] = [NoRow EXCEPT !.status = "SCHEDULED"]
  BY <1>4 DEF StoreOK, NoRow, Terminal
<1>5. CASE rec[v].live /\ rec'[v] = [rec[v] EXCEPT !.live = FALSE]
  BY <1>1, <1>5 DEF StoreOK, Rows, Terminal
<1> QED
  BY <1>2, <1>3, <1>4, <1>5 DEF RowsCancelled

\* A row without a lease, whatever its status.
LEMMA BlankRow ==
  ASSUME NEW s \in Terminal \cup {"none", "SCHEDULED", "CLAIMED"}
  PROVE  [NoRow EXCEPT !.status = s] \in Rows
<1>1. 0 \in 0..MaxToken
  BY DeadlineAssumption
<1>2. \A r \in Rows : [r EXCEPT !.status = s] \in Rows
  BY DEF Rows
<1>3. "none" \in Terminal \cup {"none", "SCHEDULED", "CLAIMED"} /\ NoProc \in Procs \cup {NoProc}
  BY DEF Terminal
<1>4. NoRow \in Rows
  BY <1>1, <1>3, Zenon DEF NoRow, Rows
<1> QED
  BY <1>2, <1>4

LEMMA ExecuteCallKeeps ==
  ASSUME DeadlineInv, NEW c \in calls, ExecuteCall(c)
  PROVE  DeadlineInv'
<1>1. StoreOK /\ CallsOK /\ ExecutedIsApplied
  BY DEF DeadlineInv
<1>2. /\ UNCHANGED <<calm, world, up, seen, owes, entry, unsaved, chances, timedOut>>
      /\ calls' = calls \ {c}
  BY DEF ExecuteCall, local, world
<1>3. c.op \in {"upsert", "cancel", "cancelRoom"} /\ (c.op # "cancelRoom" => c.v \in Versions)
  BY <1>1 DEF CallsOK
<1>4. RowsCancelled
  <2>1. \A v \in Versions : rec[v] \in Rows /\ Cancelled(rec[v]) \in Rows
    BY <1>1 DEF StoreOK, Rows, Cancelled, Terminal
  <2>2. CASE c.op = "upsert"
    <3>1. [NoRow EXCEPT !.status = "SCHEDULED"] \in Rows
      BY BlankRow
    <3>2. rec' = IF Stored(c.v) THEN rec
                 ELSE [rec EXCEPT ![c.v] = [NoRow EXCEPT !.status = "SCHEDULED"]]
      BY <2>2 DEF ExecuteCall
    <3> QED
      BY <1>1, <1>3, <2>2, <3>1, <3>2 DEF StoreOK, Stored, RowsCancelled
  <2>3. CASE c.op = "cancel"
    <3>1. rec' = [rec EXCEPT ![c.v] = Cancelled(rec[c.v])]
      BY <2>3 DEF ExecuteCall
    <3> QED
      BY <1>1, <1>3, <2>1, <2>3, <3>1 DEF StoreOK, Cancelled, RowsCancelled
  <2>4. CASE c.op = "cancelRoom"
    <3>1. rec' = [v \in Versions |-> IF v = c.v THEN rec[v] ELSE Cancelled(rec[v])]
      BY <2>4 DEF ExecuteCall
    <3> QED
      BY <1>1, <2>1, <3>1 DEF StoreOK, Cancelled, RowsCancelled
  <2> QED
    BY <1>3, <2>2, <2>3, <2>4
<1>5. StoreOK' /\ RowsGoOn /\ ExecutedIsApplied'
  BY <1>1, <1>2, <1>4, RowsCancelledKeeps
<1>6. CallsOK'
  BY <1>1, <1>2 DEF CallsOK
<1> QED
  BY <1>2, <1>5, <1>6, StoreStepKeeps

LEMMA CallFailsKeeps ==
  ASSUME DeadlineInv, NEW c \in calls, CallFails(c)
  PROVE  DeadlineInv'
<1>1. StoreOK /\ CallsOK /\ ExecutedIsApplied
  BY DEF DeadlineInv
<1>2. /\ UNCHANGED <<calm, world, rec, up, seen, owes, entry, timedOut>>
      /\ calls' = calls \ {c}
      /\ unsaved' = IF c.op = "upsert" THEN unsaved \cup {<<c.by, c.v>>} ELSE unsaved
      /\ Event
  BY DEF CallFails, RoughEvent, world
<1>3. StoreOK' /\ RowsGoOn /\ ExecutedIsApplied'
  BY <1>1, <1>2, UnchangedRowsGoOn DEF StoreOK, ExecutedIsApplied
<1>4. CallsOK'
  <2>1. c.op = "upsert" => <<c.by, c.v>> \in up \X Versions
    BY <1>1 DEF CallsOK
  <2>2. unsaved' \subseteq up' \X Versions
    BY <1>1, <1>2, <2>1 DEF CallsOK
  <2> QED
    BY <1>1, <1>2, <2>2 DEF CallsOK
<1> QED
  BY <1>2, <1>3, <1>4, StoreStepKeeps

LEMMA LeaseExpiresKeeps ==
  ASSUME DeadlineInv, NEW v \in Versions, LeaseExpires(v)
  PROVE  DeadlineInv'
<1>1. StoreOK /\ CallsOK /\ ExecutedIsApplied
  BY DEF DeadlineInv
<1>2. /\ UNCHANGED <<calm, world, up, seen, owes, entry, unsaved, calls, chances, timedOut>>
      /\ rec[v].live /\ rec' = [rec EXCEPT ![v].live = FALSE]
  BY DEF LeaseExpires, local, world
<1>3. RowsCancelled
  <2>1. \A w \in Versions : rec[w] \in Rows /\ [rec[w] EXCEPT !.live = FALSE] \in Rows
    BY <1>1 DEF StoreOK, Rows
  <2> QED
    BY <1>1, <1>2, <2>1 DEF StoreOK, RowsCancelled
<1>4. StoreOK' /\ RowsGoOn /\ ExecutedIsApplied'
  BY <1>1, <1>2, <1>3, RowsCancelledKeeps
<1>5. CallsOK'
  BY <1>1, <1>2 DEF CallsOK
<1> QED
  BY <1>2, <1>4, <1>5, StoreStepKeeps

-----------------------------------------------------------------------------
\* The schedulers.

\* What a refresh leaves in a scheduler: entries done with or scheduled, and the
\* rest as they were; and it calls the store for rows there are.
LEMMA RefreshedEffect ==
  ASSUME WorldOK, ViewsOK, CallsOK, EntriesOK, NEW p \in up, Refreshed(p)
  PROVE  /\ EntriesGoOn
         /\ calls' \subseteq [by : Procs \cup {NoProc}, op : {"upsert", "cancel", "cancelRoom"},
                              v : 0..MaxVersion]
         /\ \A c \in calls' : /\ c.by \in up \cup {NoProc}
                              /\ c.op = "upsert" => c.by \in up /\ c.v \in Versions
                              /\ c.op = "cancel" => c.v \in Versions
<1> USE DeadlineAssumption
<1> DEFINE turn == IF seen[p].playing THEN {seen[p].version} ELSE {}
           kept == {v \in turn : entry[p][v].st \in Armed}
           new == {v \in turn : entry[p][v].st = "none"}
           dropped == {v \in Versions : kept = {} /\ entry[p][v].st \in Armed}
           swept == IF turn = {} THEN 0 ELSE seen[p].version
           made == {[by |-> p, op |-> "cancel", v |-> v] : v \in dropped}
                     \cup {[by |-> p, op |-> "upsert", v |-> v] : v \in new}
                     \cup (IF kept # {} THEN {} ELSE
                           {[by |-> p, op |-> "cancelRoom", v |-> swept]})
<1>1. p \in Procs /\ turn \subseteq Versions
  BY DEF ViewsOK
<1>2. new \subseteq Versions /\ dropped \subseteq Versions
  BY <1>1
<1>3. swept \in 0..MaxVersion
  <2>1. turn # {} => seen[p].playing
    OBVIOUS
  <2>2. turn # {} => seen[p].version \in Versions
    BY <1>1, <2>1 DEF ViewsOK
  <2> HIDE DEF turn
  <2> QED
    BY <2>2 DEF Versions
<1>4. /\ entry' = [entry EXCEPT ![p] = [v \in Versions |->
                     IF v \in dropped THEN Done
                     ELSE IF v \in new THEN [st |-> "scheduled", token |-> 0]
                     ELSE entry[p][v]]]
      /\ calls' = calls \cup made
  BY Zenon DEF Refreshed
<1> HIDE DEF turn, kept, new, dropped, swept
<1>5. EntriesGoOn
  <2>1. Done \in Entries /\ Done.st \notin Working
    BY DEF Done, Entries, Working
  <2>2. [st |-> "scheduled", token |-> 0] \in Entries
    BY DEF Entries, Armed
  <2>3. \A v \in Versions : entry[p][v] \in Entries
    BY <1>1 DEF EntriesOK
  <2>4. entry' \in [Procs -> [Versions -> Entries]]
    BY <1>1, <1>4, <2>1, <2>2, <2>3 DEF EntriesOK
  <2>5. ASSUME NEW q \in Procs, NEW v \in Versions, entry'[q][v].st \in Working
        PROVE  entry'[q][v] = entry[q][v]
    <3>1. "scheduled" \notin Working
      BY DEF Working
    <3> QED
      BY <1>1, <1>4, <2>1, <2>5, <3>1 DEF EntriesOK
  <2> QED
    BY <2>4, <2>5 DEF EntriesGoOn
<1>6. ASSUME NEW c \in made
      PROVE  /\ c \in [by : Procs \cup {NoProc}, op : {"upsert", "cancel", "cancelRoom"},
                       v : 0..MaxVersion]
             /\ c.by \in up
             /\ c.op \in {"upsert", "cancel"} => c.v \in Versions
  <2>1. Versions \subseteq 0..MaxVersion
    BY DEF Versions
  <2> QED
    BY <1>1, <1>2, <1>3, <2>1
<1> QED
  BY <1>4, <1>5, <1>6 DEF CallsOK

LEMMA RefreshKeeps ==
  ASSUME DeadlineInv, NEW p \in Procs, Refresh(p) \/ Subscribe(p)
  PROVE  DeadlineInv'
<1>1. WorldOK /\ ViewsOK /\ StoreOK /\ CallsOK /\ EntriesOK /\ OneHolder
        /\ TimedOutWhenLate /\ ExecutedIsApplied
  BY DEF DeadlineInv
<1>2. /\ p \in up /\ Refreshed(p) /\ owes' \subseteq owes
      /\ UNCHANGED <<calm, world, rec, up, seen, unsaved>>
      /\ Event \/ UNCHANGED chances
  BY DEF Refresh, Subscribe
<1>3. WorldOK' /\ WorldGoesOn /\ TimedOutWhenLate'
  BY <1>1, <1>2, SameWorldKeeps
<1>4. /\ EntriesGoOn
      /\ calls' \subseteq [by : Procs \cup {NoProc}, op : {"upsert", "cancel", "cancelRoom"},
                           v : 0..MaxVersion]
      /\ \A c \in calls' : /\ c.by \in up \cup {NoProc}
                           /\ c.op = "upsert" => c.by \in up /\ c.v \in Versions
                           /\ c.op = "cancel" => c.v \in Versions
  BY <1>1, <1>2, RefreshedEffect
<1>5. CallsOK'
  BY <1>1, <1>2, <1>4 DEF CallsOK
<1>6. StoreOK' /\ RowsGoOn /\ rec' \in [Versions -> Rows]
  BY <1>1, <1>2, UnchangedRowsGoOn DEF StoreOK
<1>7. EntriesOK' /\ OneHolder'
  BY <1>1, <1>3, <1>4, <1>6, EntriesGoOnKeeps
<1>8. ViewsOK'
  BY <1>1, <1>2 DEF ViewsOK, world
<1>9. ExecutedIsApplied'
  BY <1>1, <1>2 DEF ExecutedIsApplied, world
<1> QED
  BY <1>3, <1>5, <1>6, <1>7, <1>8, <1>9 DEF DeadlineInv

\* A step of an expiring entry that takes it out of a claim or never had it in one,
\* or only answers the question whether it is stale.
LEMMA ExpiryKeeps ==
  ASSUME DeadlineInv, EntriesGoOn, UNCHANGED <<calm, world, up, seen, owes, unsaved, calls>>,
         Event \/ UNCHANGED chances, StoreOK', RowsGoOn, ExecutedIsApplied'
  PROVE  DeadlineInv'
<1>1. WorldOK /\ ViewsOK /\ StoreOK /\ CallsOK /\ EntriesOK /\ OneHolder /\ TimedOutWhenLate
  BY DEF DeadlineInv
<1>2. WorldOK' /\ WorldGoesOn /\ TimedOutWhenLate'
  BY <1>1, SameWorldKeeps
<1>3. EntriesOK' /\ OneHolder'
  <2>1. rec' \in [Versions -> Rows]
    BY DEF StoreOK
  <2> QED
    BY <1>1, <1>2, <2>1, EntriesGoOnKeeps
<1>4. ViewsOK' /\ CallsOK'
  BY <1>1 DEF ViewsOK, CallsOK, world
<1> QED
  BY <1>2, <1>3, <1>4 DEF DeadlineInv

LEMMA FireKeeps ==
  ASSUME DeadlineInv, NEW p \in Procs, NEW v \in Versions,
         Fire(p, v) \/ ClaimLater(p, v) \/ ClaimRefused(p, v) \/ CheckStale(p, v)
  PROVE  DeadlineInv'
<1> USE DeadlineAssumption
<1>1. EntriesOK /\ StoreOK /\ ExecutedIsApplied
  BY DEF DeadlineInv
<1>2. /\ UNCHANGED <<calm, world, up, seen, owes, unsaved, calls, rec>>
      /\ Event \/ UNCHANGED chances
  BY DEF Fire, ClaimLater, ClaimRefused, CheckStale, Firing, RoughEvent
<1>3. EntriesGoOn
  <2>1. Done \in Entries /\ Done.st \notin Working
    BY DEF Done, Entries, Working
  <2>2. \A st \in {"firing", "waiting", "scheduled"} :
          [st |-> st, token |-> 0] \in Entries /\ st \notin Working
    BY DEF Entries, Armed, Working
  <2>3. CASE Fire(p, v)
    BY <1>1, <2>2, <2>3, IdleEntryGoesOn DEF Fire
  <2>4. CASE ClaimLater(p, v)
    BY <1>1, <2>1, <2>2, <2>4, IdleEntryGoesOn DEF ClaimLater
  <2>5. CASE ClaimRefused(p, v)
    BY <1>1, <2>1, <2>5, IdleEntryGoesOn DEF ClaimRefused
  <2>6. CASE CheckStale(p, v)
    <3>1. PICK st \in {"checked", "stale"} :
            /\ entry[p][v].st = "claimed"
            /\ SetEntry(p, v, [entry[p][v] EXCEPT !.st = st])
      BY <2>6 DEF CheckStale
    <3>2. [entry[p][v] EXCEPT !.st = st] \in Entries
      BY <1>1, EntryTyped DEF Entries, Working
    <3>3. /\ entry[p][v].st \in Working
          /\ st \in Working /\ st # "executed"
          /\ [entry[p][v] EXCEPT !.st = st].st = st
          /\ [entry[p][v] EXCEPT !.st = st].token = entry[p][v].token
      BY <1>1, <3>1, EntryTyped DEF Entries, Working
    <3> DEFINE e == [entry[p][v] EXCEPT !.st = st]
    <3> HIDE DEF e
    <3>4. /\ entry' \in [Procs -> [Versions -> Entries]]
          /\ entry'[p][v] = e
          /\ \A q \in Procs, w \in Versions :
               <<q, w>> # <<p, v>> => entry'[q][w] = entry[q][w]
      BY <1>1, <3>1, <3>2, SetEntryEffect DEF e
    <3>5. e.st = st /\ e.token = entry[p][v].token
      BY <3>3 DEF e
    <3> QED
      BY <3>3, <3>4, <3>5 DEF EntriesGoOn
  <2> QED
    BY <2>3, <2>4, <2>5, <2>6
<1>4. StoreOK' /\ RowsGoOn /\ ExecutedIsApplied'
  BY <1>1, <1>2, UnchangedRowsGoOn DEF StoreOK, ExecutedIsApplied, world
<1> QED
  BY <1>2, <1>3, <1>4, ExpiryKeeps

\* A claim raises the row's token: whoever worked on an earlier claim of the row has
\* a lower one.
LEMMA ClaimKeeps ==
  ASSUME DeadlineInv, NEW p \in Procs, NEW v \in Versions, Claim(p, v)
  PROVE  DeadlineInv'
<1> USE DeadlineAssumption
<1>1. WorldOK /\ ViewsOK /\ StoreOK /\ CallsOK /\ EntriesOK /\ OneHolder
        /\ TimedOutWhenLate /\ ExecutedIsApplied
  BY DEF DeadlineInv
<1> DEFINE n == rec[v].token + 1
           row == [status |-> "CLAIMED", owner |-> p, token |-> n, live |-> TRUE]
           e == [st |-> "claimed", token |-> n]
<1>2. /\ UNCHANGED <<calm, world, up, seen, owes, unsaved, calls, chances>>
      /\ rec[v].status \in {"SCHEDULED", "CLAIMED"} /\ v <= late
      /\ rec[v].token < MaxToken
      /\ rec' = [rec EXCEPT ![v] = row] /\ SetEntry(p, v, e)
  BY DEF Claim, Firing, Claimable, Claims
<1>3. rec[v].token \in 0..MaxToken /\ n \in 0..MaxToken /\ n >= 1 /\ rec[v].token < n
  BY <1>1, <1>2 DEF StoreOK, Rows
<1>4. row \in Rows
  <2>1. \A b \in BOOLEAN :
          [status |-> "CLAIMED", owner |-> p, token |-> n, live |-> b] \in Rows
    BY <1>3 DEF Rows
  <2> QED
    BY <2>1, Zenon
<1>5. e \in Entries
  BY <1>3 DEF Entries, Working
<1> HIDE DEF n, row, e
<1>6. row.status = "CLAIMED" /\ row.token = n
  BY DEF row
<1>7. e.st = "claimed" /\ e.token = n
  BY DEF e
<1>8. StoreOK' /\ RowsGoOn /\ ExecutedIsApplied'
  <2>1. rec' \in [Versions -> Rows]
    BY <1>1, <1>2, <1>4 DEF StoreOK
  <2>2. \A w \in Versions : w # v => rec'[w] = rec[w] /\ rec[w] \in Rows
    BY <1>1, <1>2 DEF StoreOK
  <2>3. rec'[v] = row
    BY <1>1, <1>2 DEF StoreOK
  <2>4. StoreOK'
    BY <1>1, <1>6, <2>1, <2>2, <2>3 DEF StoreOK
  <2>5. RowsGoOn
    <3> SUFFICES ASSUME NEW w \in Versions, rec'[w].status \notin Terminal
                 PROVE  rec[w].status \notin Terminal /\ rec[w].token <= rec'[w].token
      BY DEF RowsGoOn
    <3>1. CASE w = v
      BY <1>2, <1>3, <1>6, <2>3, <3>1 DEF Terminal
    <3>2. CASE w # v
      BY <2>2, <3>2 DEF Rows
    <3> QED
      BY <3>1, <3>2
  <2>6. ExecutedIsApplied'
    BY <1>1, <1>2, <1>6, <2>2, <2>3 DEF ExecutedIsApplied, world
  <2> QED
    BY <2>4, <2>5, <2>6
<1>9. WorldOK' /\ WorldGoesOn /\ TimedOutWhenLate'
  BY <1>1, <1>2, SameWorldKeeps
<1>10. /\ entry' \in [Procs -> [Versions -> Entries]]
       /\ entry'[p][v] = e
       /\ \A q \in Procs, w \in Versions : <<q, w>> # <<p, v>> => entry'[q][w] = entry[q][w]
  BY <1>1, <1>2, <1>5, SetEntryEffect
<1>11. ASSUME NEW q \in Procs, NEW w \in Versions, <<q, w>> # <<p, v>>
       PROVE  ClaimOK(q, w)'
  <2>1. entry'[q][w] = entry[q][w] /\ ClaimOK(q, w) /\ entry[q][w] \in Entries
    BY <1>1, <1>10, <1>11 DEF EntriesOK
  <2>2. rec[w].token \in Int /\ rec'[w].token \in Int /\ entry[q][w].token \in Int
    BY <1>1, <1>8, <2>1 DEF StoreOK, Rows, Entries
  <2> QED
    BY <1>2, <1>8, <2>1, <2>2 DEF ClaimOK, RowsGoOn, world
<1>12. ClaimOK(p, v)'
  <2>1. rec'[v].token = n
    BY <1>1, <1>2, <1>6 DEF StoreOK
  <2> QED
    BY <1>2, <1>3, <1>7, <1>10, <2>1 DEF ClaimOK, world
<1>13. EntriesOK'
  BY <1>10, <1>11, <1>12 DEF EntriesOK
<1>14. OneHolder'
  <2> SUFFICES ASSUME NEW w \in Versions, NEW q \in Procs, NEW r \in Procs, q # r,
                      entry'[q][w].st \in Working, entry'[r][w].st \in Working
               PROVE  entry'[q][w].token # entry'[r][w].token
    BY DEF OneHolder
  <2>1. ASSUME NEW x \in Procs, x # p, entry'[x][v].st \in Working
        PROVE  entry'[x][v].token < n
    <3>1. entry'[x][v] = entry[x][v] /\ ClaimOK(x, v) /\ entry[x][v] \in Entries
      BY <1>1, <1>10, <2>1 DEF EntriesOK
    <3>2. entry[x][v].token <= rec[v].token
      BY <1>2, <2>1, <3>1 DEF ClaimOK, Terminal
    <3> QED
      BY <1>3, <3>1, <3>2 DEF Entries
  <2>2. CASE w = v /\ q = p
    BY <1>3, <1>7, <1>10, <2>1, <2>2
  <2>3. CASE w = v /\ r = p
    BY <1>3, <1>7, <1>10, <2>1, <2>3
  <2>4. CASE ~(w = v /\ p \in {q, r})
    BY <1>1, <1>10, <2>4 DEF OneHolder
  <2> QED
    BY <2>2, <2>3, <2>4
<1>15. ViewsOK' /\ CallsOK'
  BY <1>1, <1>2 DEF ViewsOK, CallsOK, world
<1> QED
  BY <1>8, <1>9, <1>13, <1>14, <1>15 DEF DeadlineInv

\* What the timeout command does to the room: nothing, or it ends the turn whose
\* deadline the entry is, which has passed.
LEMMA DispatchEffect ==
  ASSUME NEW p \in Procs, NEW v \in Versions, DispatchTimeout(p, v)
  PROVE  \E st \in {"executed", "stale", "failed"} :
           /\ entry[p][v].st = "checked"
           /\ SetEntry(p, v, [entry[p][v] EXCEPT !.st = st])
           /\ Event \/ UNCHANGED chances
           /\ UNCHANGED <<calm, late, rec, up, owes, unsaved, calls>>
           /\ st = "executed" => v \in timedOut'
           /\ \/ v \notin timedOut /\ CurrentTurn(v) /\ Applied(p, v)
              \/ /\ UNCHANGED <<version, playing, timedOut>>
                 /\ seen' = [seen EXCEPT ![p] = Room] \/ UNCHANGED seen
BY DEF DispatchTimeout, RoughEvent, Applied

LEMMA DispatchKeeps ==
  ASSUME DeadlineInv, NEW p \in Procs, NEW v \in Versions, DispatchTimeout(p, v)
  PROVE  DeadlineInv'
<1> USE DeadlineAssumption
<1>1. WorldOK /\ ViewsOK /\ StoreOK /\ CallsOK /\ EntriesOK /\ OneHolder
        /\ TimedOutWhenLate /\ ExecutedIsApplied
  BY DEF DeadlineInv
<1>2. PICK st \in {"executed", "stale", "failed"} :
        /\ entry[p][v].st = "checked"
        /\ SetEntry(p, v, [entry[p][v] EXCEPT !.st = st])
        /\ Event \/ UNCHANGED chances
        /\ UNCHANGED <<calm, late, rec, up, owes, unsaved, calls>>
        /\ st = "executed" => v \in timedOut'
        /\ \/ v \notin timedOut /\ CurrentTurn(v) /\ Applied(p, v)
           \/ /\ UNCHANGED <<version, playing, timedOut>>
              /\ seen' = [seen EXCEPT ![p] = Room] \/ UNCHANGED seen
  BY DispatchEffect
<1>3. v <= late
  BY <1>1, <1>2 DEF EntriesOK, ClaimOK, Working
<1>4. WorldOK' /\ WorldGoesOn /\ TimedOutWhenLate' /\ ViewsOK'
  <2>1. chances' \in 0..MaxEvents
    BY <1>1, <1>2, EventCounted
  <2>2. CASE CurrentTurn(v) /\ Applied(p, v)
    <3> DEFINE more == v < MaxVersion
    <3>1. /\ version = v /\ version' = v + 1 /\ playing' = more
          /\ seen' = [seen EXCEPT ![p] = [version |-> v + 1, playing |-> more]]
          /\ timedOut' = timedOut \cup {v}
      BY <2>2 DEF CurrentTurn, Applied, Commits
    <3>2. more \in BOOLEAN /\ (more => v + 1 \in Versions)
      BY DEF Versions
    <3>3. /\ v + 1 \in 0..MaxVersion + 1 /\ late \in 0..v + 1 /\ late \in Nat
          /\ timedOut \cup {v} \subseteq 1..v + 1
      BY <1>1, <3>1 DEF WorldOK, Versions
    <3> HIDE DEF more
    <3>4. WorldOK'
      BY <1>1, <1>2, <2>1, <3>1, <3>2, <3>3, Zenon DEF WorldOK
    <3>5. WorldGoesOn /\ TimedOutWhenLate'
      BY <1>1, <1>2, <1>3, <3>1, <3>3 DEF WorldGoesOn, TimedOutWhenLate
    <3>6. [version |-> v + 1, playing |-> more] \in Views
      BY <3>2, <3>3 DEF Views
    <3>7. seen' \in [Procs -> Views]
      BY <1>1, <3>1, <3>6 DEF ViewsOK
    <3>8. ASSUME NEW q \in Procs
          PROVE  /\ seen'[q].version <= version'
                 /\ seen'[q].playing => seen'[q].version \in Versions
      <4>1. CASE q = p
        BY <1>1, <3>1, <3>2, <3>3, <4>1 DEF ViewsOK
      <4>2. CASE q # p
        BY <1>1, <3>1, <4>2 DEF ViewsOK, Views, Versions
      <4> QED
        BY <4>1, <4>2
    <3>9. ViewsOK'
      BY <1>1, <1>2, <3>7, <3>8 DEF ViewsOK
    <3> QED
      BY <3>4, <3>5, <3>9
  <2>3. CASE UNCHANGED <<version, playing, timedOut>> /\
               (seen' = [seen EXCEPT ![p] = Room] \/ UNCHANGED seen)
    <3>1. WorldOK' /\ WorldGoesOn /\ TimedOutWhenLate'
      BY <1>1, <1>2, <2>3, SameWorldKeeps DEF world
    <3>2. ViewsOK'
      <4>1. up' \subseteq Procs /\ owes' \subseteq up'
        BY <1>1, <1>2 DEF ViewsOK
      <4> QED
        BY <1>1, <2>3, <4>1, RecoveredView, SameViews
    <3> QED
      BY <3>1, <3>2
  <2> QED
    BY <1>2, <2>2, <2>3
<1>5. EntriesGoOn
  <2> DEFINE e == [entry[p][v] EXCEPT !.st = st]
  <2>1. entry[p][v] \in Entries /\ entry[p][v].st \in Working
    BY <1>1, <1>2, EntryTyped DEF Working
  <2>2. e \in Entries /\ e.st = st /\ e.token = entry[p][v].token
    BY <2>1 DEF Entries, Working
  <2> HIDE DEF e
  <2>3. /\ entry' \in [Procs -> [Versions -> Entries]]
        /\ entry'[p][v] = e
        /\ \A q \in Procs, w \in Versions : <<q, w>> # <<p, v>> => entry'[q][w] = entry[q][w]
    BY <1>1, <1>2, <2>2, SetEntryEffect DEF e
  <2> QED
    BY <1>2, <2>1, <2>2, <2>3 DEF EntriesGoOn
<1>6. StoreOK' /\ RowsGoOn /\ rec' \in [Versions -> Rows]
  BY <1>1, <1>2, UnchangedRowsGoOn DEF StoreOK
<1>7. EntriesOK' /\ OneHolder'
  BY <1>1, <1>4, <1>5, <1>6, EntriesGoOnKeeps
<1>8. ExecutedIsApplied'
  BY <1>1, <1>2, <1>4 DEF ExecutedIsApplied, WorldGoesOn
<1>9. CallsOK'
  BY <1>1, <1>2 DEF CallsOK
<1> QED
  BY <1>4, <1>6, <1>7, <1>8, <1>9 DEF DeadlineInv

LEMMA CompleteKeeps ==
  ASSUME DeadlineInv, NEW p \in Procs, NEW v \in Versions, Complete(p, v)
  PROVE  DeadlineInv'
<1>1. EntriesOK /\ StoreOK /\ ExecutedIsApplied
  BY DEF DeadlineInv
<1>2. /\ UNCHANGED <<calm, world, up, seen, owes, unsaved, calls>>
      /\ Event \/ UNCHANGED chances
      /\ entry[p][v].st \in DOMAIN Outcome /\ SetEntry(p, v, Done)
  BY DEF Complete, RoughEvent
<1>3. EntriesGoOn
  <2>1. Done \in Entries /\ Done.st \notin Working
    BY DeadlineAssumption DEF Done, Entries, Working
  <2> QED
    BY <1>1, <1>2, <2>1, IdleEntryGoesOn
<1>4. StoreOK' /\ RowsGoOn /\ ExecutedIsApplied'
  <2>1. CASE UNCHANGED rec
    BY <1>1, <1>2, <2>1, UnchangedRowsGoOn DEF StoreOK, ExecutedIsApplied, world
  <2>2. CASE rec' = [rec EXCEPT ![v] = [NoRow EXCEPT !.status = Outcome[entry[p][v].st]]]
    <3> DEFINE s == Outcome[entry[p][v].st]
               row == [NoRow EXCEPT !.status = s]
    <3>1. s \in Terminal /\ (s = "EXECUTED" => entry[p][v].st = "executed")
      BY <1>2 DEF Outcome, Terminal
    <3>2. row \in Rows
      BY <3>1, BlankRow
    <3>3. row.status = s /\ row.live = FALSE
      BY DEF NoRow
    <3>4. s = "EXECUTED" => v \in timedOut
      BY <1>1, <3>1 DEF EntriesOK, ClaimOK, Working
    <3>5. s # "none"
      BY <3>1 DEF Terminal
    <3> HIDE DEF s, row
    <3>6. /\ rec' \in [Versions -> Rows] /\ rec'[v] = row
          /\ \A w \in Versions : w # v => rec'[w] = rec[w]
      BY <1>1, <2>2, <3>2 DEF StoreOK, row, s
    <3>7. StoreOK'
      <4> SUFFICES ASSUME NEW w \in Versions
                   PROVE  /\ rec'[w].live => rec'[w].status = "CLAIMED"
                          /\ rec'[w].status = "none" => rec'[w] = NoRow
        BY <3>6 DEF StoreOK
      <4> QED
        BY <1>1, <3>3, <3>5, <3>6 DEF StoreOK
    <3>8. RowsGoOn
      <4> SUFFICES ASSUME NEW w \in Versions, rec'[w].status \notin Terminal
                   PROVE  rec[w].status \notin Terminal /\ rec[w].token <= rec'[w].token
        BY DEF RowsGoOn
      <4>1. w # v
        BY <3>1, <3>3, <3>6
      <4>2. rec'[w] = rec[w] /\ rec[w].token \in Int
        BY <1>1, <3>6, <4>1 DEF StoreOK, Rows
      <4> QED
        BY <4>2
    <3>9. ExecutedIsApplied'
      BY <1>1, <1>2, <3>3, <3>4, <3>6 DEF ExecutedIsApplied, world
    <3> QED
      BY <3>7, <3>8, <3>9
  <2> QED
    BY <2>1, <2>2 DEF Complete
<1> QED
  BY <1>2, <1>3, <1>4, ExpiryKeeps

\* A process that is gone leaves its claims in the store, and nothing to complete
\* them with.
LEMMA GoneKeeps ==
  ASSUME DeadlineInv, NEW p \in up, NEW keptCalls, Gone(p, keptCalls),
         keptCalls \subseteq [by : {NoProc}, op : {"cancel"}, v : Versions]
  PROVE  DeadlineInv'
<1> USE DeadlineAssumption
<1>1. WorldOK /\ ViewsOK /\ StoreOK /\ CallsOK /\ EntriesOK /\ OneHolder
        /\ TimedOutWhenLate /\ ExecutedIsApplied
  BY DEF DeadlineInv
<1>2. WorldOK' /\ WorldGoesOn /\ TimedOutWhenLate'
  BY <1>1, SameWorldKeeps DEF Gone
<1>3. ViewsOK'
  <2> DEFINE blank == [version |-> 0, playing |-> FALSE]
  <2>1. 0 \in 0..MaxVersion + 1
    OBVIOUS
  <2>2. blank \in Views
    BY <2>1, Zenon DEF Views
  <2>3. blank.version = 0 /\ blank.playing = FALSE
    OBVIOUS
  <2>4. seen' = [seen EXCEPT ![p] = blank] /\ up' = up \ {p} /\ owes' = owes \ {p}
        /\ version' = version
    BY DEF Gone, world
  <2> HIDE DEF blank
  <2>5. seen' \in [Procs -> Views] /\ \A q \in Procs : seen'[q] = blank \/ seen'[q] = seen[q]
    BY <1>1, <2>2, <2>4 DEF ViewsOK
  <2>6. 0 <= version
    BY <1>1 DEF WorldOK
  <2> QED
    BY <1>1, <2>3, <2>4, <2>5, <2>6 DEF ViewsOK
<1>4. StoreOK' /\ RowsGoOn /\ ExecutedIsApplied'
  <2>1. \A v \in Versions : rec[v] \in Rows /\ [rec[v] EXCEPT !.owner = NoProc] \in Rows
    BY <1>1 DEF StoreOK, Rows
  <2>2. rec' = [v \in Versions |->
                  IF rec[v].owner = p THEN [rec[v] EXCEPT !.owner = NoProc] ELSE rec[v]]
    BY DEF Gone
  <2>3. rec' \in [Versions -> Rows]
    BY <2>1, <2>2
  <2>4. ASSUME NEW v \in Versions
        PROVE  /\ rec'[v].status = rec[v].status /\ rec'[v].token = rec[v].token
               /\ rec'[v].live = rec[v].live
               /\ rec[v].owner = NoProc => rec'[v] = rec[v]
    BY <2>1, <2>2 DEF Rows
  <2>5. StoreOK'
    <3> SUFFICES ASSUME NEW v \in Versions
                 PROVE  /\ rec'[v].live => rec'[v].status = "CLAIMED"
                        /\ rec'[v].status = "none" => rec'[v] = NoRow
      BY <2>3 DEF StoreOK
    <3>1. rec[v] = NoRow => rec[v].owner = NoProc
      BY DEF NoRow
    <3> QED
      BY <1>1, <2>4, <3>1 DEF StoreOK
  <2>6. RowsGoOn
    <3>1. \A v \in Versions : rec[v].token \in Int
      BY <1>1 DEF StoreOK, Rows
    <3> QED
      BY <2>4, <3>1 DEF RowsGoOn
  <2>7. ExecutedIsApplied'
    BY <1>1, <2>4 DEF ExecutedIsApplied, Gone, world
  <2> QED
    BY <2>5, <2>6, <2>7
<1>5. EntriesGoOn
  <2>1. NoEntry \in Entries /\ NoEntry.st \notin Working
    BY DEF NoEntry, Entries, Working
  <2>2. entry' = [entry EXCEPT ![p] = [v \in Versions |-> NoEntry]]
    BY DEF Gone
  <2> QED
    BY <1>1, <2>1, <2>2 DEF EntriesGoOn, EntriesOK
<1>6. EntriesOK' /\ OneHolder'
  <2>1. rec' \in [Versions -> Rows]
    BY <1>4 DEF StoreOK
  <2> QED
    BY <1>1, <1>2, <1>4, <1>5, <2>1, EntriesGoOnKeeps
<1>7. CallsOK'
  <2>1. /\ up' = up \ {p}
        /\ unsaved' = {u \in unsaved : u[1] # p}
        /\ calls' = {c \in calls : c.by # p} \cup keptCalls
    BY DEF Gone
  <2>2. \A c \in keptCalls : c.by = NoProc /\ c.op = "cancel" /\ c.v \in Versions
    OBVIOUS
  <2>3. unsaved' \subseteq up' \X Versions
    BY <1>1, <2>1 DEF CallsOK
  <2>4. calls' \subseteq [by : Procs \cup {NoProc}, op : {"upsert", "cancel", "cancelRoom"},
                          v : 0..MaxVersion]
    BY <1>1, <2>1 DEF CallsOK, Versions
  <2>5. p # NoProc
    BY <1>1 DEF ViewsOK
  <2> QED
    BY <1>1, <2>1, <2>2, <2>3, <2>4, <2>5 DEF CallsOK
<1> QED
  BY <1>2, <1>3, <1>4, <1>6, <1>7 DEF DeadlineInv

-----------------------------------------------------------------------------
\* Every step keeps the invariant: one case per action.
LEMMA DeadlineInvStep == DeadlineInv /\ [Next]_vars => DeadlineInv'
<1> SUFFICES ASSUME DeadlineInv, [Next]_vars PROVE DeadlineInv'
  OBVIOUS
<1>1. ASSUME NEW p \in Procs, NEW pending \in BOOLEAN, NEW same \in BOOLEAN,
             Play(p, pending, same)
      PROVE  DeadlineInv'
  BY <1>1, PlayKeeps
<1>2. ASSUME NEW p \in Procs, Refresh(p) \/ Subscribe(p) PROVE DeadlineInv'
  BY <1>2, RefreshKeeps
<1>3. ASSUME NEW p \in Procs, RefreshMissed(p) \/ Disconnect(p) \/ Reconnect(p) \/ Restart(p)
      PROVE  DeadlineInv'
  BY <1>3, RecoveryKeeps
<1>4. ASSUME NEW p \in Procs, NEW v \in Versions, Expire(p, v) PROVE DeadlineInv'
  BY <1>4, FireKeeps, ClaimKeeps, DispatchKeeps, CompleteKeeps DEF Expire
<1>5. ASSUME NEW p \in Procs, Crash(p) PROVE DeadlineInv'
  BY <1>5, GoneKeeps DEF Crash
<1>6. ASSUME NEW p \in Procs, Close(p) PROVE DeadlineInv'
  <2>1. PICK reached \in SUBSET {v \in Versions : entry[p][v].st \in Armed} :
          Gone(p, {[by |-> NoProc, op |-> "cancel", v |-> v] : v \in reached})
    BY <1>6 DEF Close
  <2> DEFINE kept == {[by |-> NoProc, op |-> "cancel", v |-> v] : v \in reached}
  <2>2. kept \subseteq [by : {NoProc}, op : {"cancel"}, v : Versions]
    OBVIOUS
  <2>3. p \in up
    BY <1>6 DEF Close
  <2> QED
    BY <2>1, <2>2, <2>3, GoneKeeps
<1>7. ASSUME NEW c \in calls, ExecuteCall(c) \/ CallFails(c) PROVE DeadlineInv'
  BY <1>7, ExecuteCallKeeps, CallFailsKeeps
<1>8. ASSUME NEW v \in Versions, LeaseExpires(v) PROVE DeadlineInv'
  BY <1>8, LeaseExpiresKeeps
<1>9. CASE Elapse
  BY <1>9, ElapseKeeps
<1>10. CASE UNCHANGED vars
  <2>1. UNCHANGED <<calm, world, up, seen, owes, entry, unsaved, calls, chances, rec>>
    BY <1>10 DEF vars, local
  <2>2. StoreOK /\ ExecutedIsApplied /\ CallsOK
    BY DEF DeadlineInv
  <2>3. StoreOK' /\ RowsGoOn
    BY <2>1, <2>2, UnchangedRowsGoOn DEF StoreOK
  <2>4. CallsOK' /\ ExecutedIsApplied'
    BY <2>1, <2>2 DEF CallsOK, ExecutedIsApplied, world
  <2> QED
    BY <2>1, <2>3, <2>4, StoreStepKeeps
<1> QED
  BY <1>1, <1>2, <1>3, <1>4, <1>5, <1>6, <1>7, <1>8, <1>9, <1>10 DEF Next

\* Rows, entries and calls are well formed, and a lease has an owner unless that
\* worker is gone (deadline-store.js, deadline.js).
THEOREM DeadlinesTyped == Spec => []TypeOK
<1>1. Spec => []DeadlineInv
  BY InitDeadlineInv, DeadlineInvStep, PTL DEF Spec
<1> QED
  BY <1>1, DeadlineInvTyped, PTL

\* No turn is ended by its timeout before its deadline has passed: the store looks at
\* the clock when a deadline is claimed, and who dispatches has claimed.
THEOREM TimedOutWhenLateHolds == Spec => []TimedOutWhenLate
<1>1. DeadlineInv => TimedOutWhenLate
  BY DEF DeadlineInv
<1> QED
  BY <1>1, InitDeadlineInv, DeadlineInvStep, PTL DEF Spec

\* A row says EXECUTED only of a turn that the timeout has ended, whoever completes it
\* (complete).
THEOREM ExecutedIsAppliedHolds == Spec => []ExecutedIsApplied
<1>1. DeadlineInv => ExecutedIsApplied
  BY DEF DeadlineInv
<1> QED
  BY <1>1, InitDeadlineInv, DeadlineInvStep, PTL DEF Spec

\* Two workers of a deadline never have the same token, however many leases expire
\* under however many workers (claim: the token is raised with every claim).
THEOREM OneHolderHolds == Spec => []OneHolder
<1>1. DeadlineInv => OneHolder
  BY DEF DeadlineInv
<1> QED
  BY <1>1, InitDeadlineInv, DeadlineInvStep, PTL DEF Spec

-----------------------------------------------------------------------------
\* What one step does to the turns that timed out, and to the rows that are done with.

TimeoutAtItsTurn ==
  timedOut' # timedOut =>
    /\ playing /\ version \in timedOut' \ timedOut /\ version' = version + 1
    /\ timedOut' = timedOut \cup {version}

FinalRows == \A v \in Versions : rec[v].status \in Terminal => rec'[v].status = rec[v].status

\* Only the dispatch of a timeout adds to the turns that timed out.
LEMMA TimeoutStep == [Next]_vars => TimeoutAtItsTurn
<1> SUFFICES ASSUME [Next]_vars PROVE TimeoutAtItsTurn
  OBVIOUS
<1>1. ASSUME NEW p \in Procs, NEW v \in Versions, DispatchTimeout(p, v)
      PROVE  TimeoutAtItsTurn
  <2>1. CASE v \notin timedOut /\ CurrentTurn(v) /\ Applied(p, v)
    BY <2>1 DEF CurrentTurn, Applied, Commits, TimeoutAtItsTurn
  <2>2. CASE UNCHANGED timedOut
    BY <2>2 DEF TimeoutAtItsTurn
  <2> QED
    BY <1>1, <2>1, <2>2, DispatchEffect
<1>2. ASSUME NEW p \in Procs, NEW v \in Versions,
             Expire(p, v), ~DispatchTimeout(p, v)
      PROVE  UNCHANGED timedOut
  BY <1>2 DEF Expire, Fire, Claim, ClaimLater, ClaimRefused, Firing, CheckStale, Complete, world
<1>3. ASSUME NEW p \in Procs,
             \/ \E pending \in BOOLEAN, same \in BOOLEAN : Play(p, pending, same)
             \/ Refresh(p) \/ RefreshMissed(p) \/ Subscribe(p) \/ Disconnect(p) \/ Reconnect(p)
             \/ Crash(p) \/ Close(p) \/ Restart(p)
      PROVE  UNCHANGED timedOut
  BY <1>3 DEF Play, Refresh, RefreshMissed, Subscribe, Disconnect, Reconnect, Crash, Close,
     Gone, Restart, world
<1>4. ASSUME \/ \E c \in calls : ExecuteCall(c) \/ CallFails(c)
             \/ \E v \in Versions : LeaseExpires(v)
             \/ Elapse \/ UNCHANGED vars
      PROVE  UNCHANGED timedOut
  BY <1>4 DEF ExecuteCall, CallFails, LeaseExpires, Elapse, vars, world
<1> QED
  BY <1>1, <1>2, <1>3, <1>4 DEF Next, TimeoutAtItsTurn

\* The store's own calls pass over rows that are done with; a claim is not given for
\* one, and it is not completed again.
LEMMA FinalStep == DeadlineInv /\ [Next]_vars => FinalRows
<1> SUFFICES ASSUME DeadlineInv, [Next]_vars PROVE FinalRows
  OBVIOUS
<1>1. StoreOK /\ CallsOK
  BY DEF DeadlineInv
<1>2. CASE UNCHANGED rec
  BY <1>2 DEF FinalRows
<1>3. ASSUME NEW v \in Versions, NEW row,
             rec' = [rec EXCEPT ![v] = row], rec[v].status \notin Terminal
      PROVE  FinalRows
  BY <1>1, <1>3 DEF FinalRows, StoreOK
<1>4. ASSUME NEW p \in Procs, NEW v \in Versions, Claim(p, v) PROVE FinalRows
  BY <1>3, <1>4 DEF Claim, Claims, Claimable, Terminal
<1>5. ASSUME NEW p \in Procs, NEW v \in Versions, Complete(p, v) PROVE FinalRows
  BY <1>2, <1>3, <1>5 DEF Complete, MayComplete, Terminal
<1>6. ASSUME NEW p \in Procs, NEW kept, Gone(p, kept) PROVE FinalRows
  <2>1. \A v \in Versions : rec'[v] = rec[v] \/ rec'[v] = [rec[v] EXCEPT !.owner = NoProc]
    BY <1>6 DEF Gone
  <2> QED
    BY <1>1, <2>1 DEF FinalRows, StoreOK, Rows
<1>7. ASSUME NEW c \in calls, ExecuteCall(c) PROVE FinalRows
  <2>1. \A v \in Versions :
          \/ rec'[v] = rec[v] \/ rec'[v] = Cancelled(rec[v])
          \/ rec[v].status = "none"
    <3>1. CASE c.op = "upsert"
      BY <1>1, <1>7, <3>1 DEF ExecuteCall, Stored, StoreOK
    <3>2. CASE c.op = "cancel"
      BY <1>1, <1>7, <3>2 DEF ExecuteCall, StoreOK
    <3>3. CASE c.op = "cancelRoom"
      BY <1>1, <1>7, <3>3 DEF ExecuteCall, StoreOK
    <3> QED
      BY <1>1, <3>1, <3>2, <3>3 DEF CallsOK
  <2> QED
    BY <2>1 DEF FinalRows, Cancelled, Terminal
<1>8. ASSUME NEW v \in Versions, LeaseExpires(v) PROVE FinalRows
  BY <1>1, <1>3, <1>8 DEF LeaseExpires, StoreOK, Terminal
<1>9. ASSUME NEW p \in Procs, NEW v \in Versions,
             Expire(p, v), ~Claim(p, v), ~Complete(p, v)
      PROVE  UNCHANGED rec
  BY <1>9 DEF Expire, Fire, ClaimLater, ClaimRefused, CheckStale, DispatchTimeout
<1>10. ASSUME NEW p \in Procs,
              \/ \E pending \in BOOLEAN, same \in BOOLEAN : Play(p, pending, same)
              \/ Refresh(p) \/ RefreshMissed(p) \/ Subscribe(p) \/ Disconnect(p) \/ Reconnect(p)
              \/ Restart(p)
       PROVE  UNCHANGED rec
  BY <1>10 DEF Play, Refresh, RefreshMissed, Subscribe, Disconnect, Reconnect, Restart
<1>11. ASSUME (\E c \in calls : CallFails(c)) \/ Elapse \/ UNCHANGED vars
       PROVE  UNCHANGED rec
  BY <1>11 DEF CallFails, Elapse, vars
<1> QED
  BY <1>2, <1>4, <1>5, <1>6, <1>7, <1>8, <1>9, <1>10, <1>11 DEF Next, Crash, Close

\* A timeout ends the turn it was set for, and only once, whoever dispatches it and
\* however often: the command carries the version the deadline was set at.
THEOREM TimeoutEndsItsTurnHolds == Spec => TimeoutEndsItsTurn
<1>1. [Next]_vars => [TimeoutAtItsTurn]_vars
  BY TimeoutStep
<1> QED
  BY <1>1, PTL DEF Spec, TimeoutEndsItsTurn, TimeoutAtItsTurn

\* Terminal states are immutable: neither a late call, nor a late worker, nor a crash
\* brings a row back (upsert, cancel, cancelRoom, claim, complete).
THEOREM TerminalIsFinalHolds == Spec => TerminalIsFinal
<1>1. DeadlineInv /\ [Next]_vars => [FinalRows]_vars
  BY FinalStep
<1> QED
  BY <1>1, InitDeadlineInv, DeadlineInvStep, PTL DEF Spec, TerminalIsFinal, FinalRows
================================================================================
