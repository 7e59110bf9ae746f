------------------------------ MODULE Deadlines ------------------------------
(***************************************************************************)
(* The turn deadlines of one room: the DeadlineScheduler of each server    *)
(* process (timers and entries in memory) over the durable DeadlineStore   *)
(* (one row per turn, claimed under a lease with a token).  A deadline is  *)
(* named after the room version at which its turn began, so versions stand *)
(* for deadlines.                                                          *)
(*                                                                         *)
(* The room is the authority: its durable version, and per process the     *)
(* version its aggregate in memory has seen.  Dispatching a command is one *)
(* step here (RoomActor.tla).  In "calm" behaviours one process runs, store*)
(* calls arrive in the order they were made and none fails; a crash is     *)
(* still possible at any point.  All else is "rough".                      *)
(***************************************************************************)
EXTENDS Integers, FiniteSets

CONSTANTS
  Procs, NoProc,
  MaxVersion,      \* bound: turns of the room
  MaxEvents,       \* bound: subscriptions, restarts, failures, early timers
  MaxToken,        \* bound: claims of one deadline
  MaxCalls,        \* bound: store calls under way when a refresh begins
  Modes,           \* the values of calm to consider
  GracefulClose    \* BOOLEAN: calm processes may also be shut down

ASSUME DeadlineAssumption ==
  /\ NoProc \notin Procs /\ Procs # {}
  /\ MaxVersion \in Nat /\ MaxEvents \in Nat /\ MaxToken \in Nat /\ MaxCalls \in Nat
  /\ Modes \subseteq BOOLEAN /\ GracefulClose \in BOOLEAN

VARIABLES
  calm,
  version,     \* durable room version; 0: no turn yet
  playing,     \* whether a turn is pending at that version
  timedOut,    \* the versions whose turn the timeout command ended
  late,        \* the deadlines of turns up to this version have passed
  rec,         \* game_deadlines: [status, owner, token, live] per version
  up,          \* the processes running
  seen,        \* per process: [version, playing] of its aggregate
  owes,        \* processes about to refresh after a command
  entry,       \* per process and version: [st, token], the scheduler's entries
  unsaved,     \* entries with a persistError
  calls,       \* store calls not yet executed: [by, op, v]
  chances      \* events so far

world == <<version, playing, timedOut, late>>
local == <<seen, owes, entry, unsaved>>
vars == <<calm, world, rec, up, local, calls, chances>>

Versions == 1..MaxVersion
Terminal == {"EXECUTED", "STALE", "FAILED", "CANCELLED"}
Armed == {"scheduled", "waiting"}     \* both are status 'scheduled'; waiting has a retryAt
Working == {"claimed", "checked", "executed", "stale", "failed"}

NoRow == [status |-> "none", owner |-> NoProc, token |-> 0, live |-> FALSE]
NoEntry == [st |-> "none", token |-> 0]
Done == [st |-> "done", token |-> 0]

Room == [version |-> version, playing |-> playing]

-----------------------------------------------------------------------------
\* The one process of calm behaviours.
Lead == CHOOSE p \in Procs : TRUE

Init ==
  /\ calm \in Modes
  /\ version = 0 /\ playing = FALSE /\ timedOut = {} /\ late = 0
  /\ rec = [v \in Versions |-> NoRow]
  /\ up = IF calm THEN {Lead} ELSE Procs
  /\ seen = [p \in Procs |-> Room]
  /\ owes = {}
  /\ entry = [p \in Procs |-> [v \in Versions |-> NoEntry]]
  /\ unsaved = {}
  /\ calls = {}
  /\ chances = 0

SetEntry(p, v, e) == entry' = [entry EXCEPT ![p][v] = e]

Event == chances < MaxEvents /\ chances' = chances + 1
RoughEvent == ~calm /\ Event

\* A room call of process p brings its aggregate up to date.
Commits(p, v, turnPending) ==
  /\ version' = v
  /\ playing' = turnPending
  /\ seen' = [seen EXCEPT ![p] = [version |-> v, playing |-> turnPending]]

\* A command handled by p ends the turn (or play), and the deadline of the next
\* one is new -- or the same, if the command left the turn as it was.  A calm
\* process has its earlier store calls behind it.
Play(p, turnPending, sameTurn) ==
  /\ p \in up
  /\ playing \/ version = 0
  /\ version <= MaxVersion /\ (turnPending => version < MaxVersion)
  /\ calm => calls = {}
  /\ sameTurn => turnPending /\ version > 0
  /\ Commits(p, version + 1, turnPending)
  /\ owes' = owes \cup {p}
  /\ late' = IF sameTurn /\ late = version THEN version + 1 ELSE late
  /\ UNCHANGED <<calm, timedOut, rec, up, entry, unsaved, calls, chances>>

\* Time passes the deadline of the oldest turn not yet due.
Elapse ==
  /\ late < version
  /\ late' = late + 1
  /\ UNCHANGED <<calm, version, playing, timedOut, rec, up, local, calls, chances>>

-----------------------------------------------------------------------------
\* refresh: nothing to do if the turn p sees has an armed entry.  Otherwise the
\* armed entries of other turns are cancelled, each also in the store; the turn
\* gets an entry if it never had one; and every other scheduled row of the room
\* is cancelled in the store, without waiting for it.
Refreshed(p) ==
  LET turn == IF seen[p].playing THEN {seen[p].version} ELSE {}
      kept == {v \in turn : entry[p][v].st \in Armed}
      new == {v \in turn : entry[p][v].st = "none"}
      dropped == {v \in Versions : kept = {} /\ entry[p][v].st \in Armed}
  IN /\ Cardinality(calls) <= MaxCalls
     /\ entry' = [entry EXCEPT ![p] = [v \in Versions |->
                    IF v \in dropped THEN Done
                    ELSE IF v \in new THEN [st |-> "scheduled", token |-> 0]
                    ELSE @[v]]]
     /\ calls' = calls \cup {[by |-> p, op |-> "cancel", v |-> v] : v \in dropped}
                       \cup {[by |-> p, op |-> "upsert", v |-> v] : v \in new}
                       \cup (IF kept # {} THEN {} ELSE
                             {[by |-> p, op |-> "cancelRoom",
                               v |-> IF turn = {} THEN 0 ELSE seen[p].version]})

Refresh(p) ==
  /\ p \in up \cap owes
  /\ calm => calls = {}
  /\ owes' = owes \ {p}
  /\ Refreshed(p)
  /\ UNCHANGED <<calm, world, rec, up, seen, unsaved, chances>>

\* The command is answered with an error after its event was stored: no refresh.
RefreshMissed(p) ==
  /\ RoughEvent
  /\ p \in up \cap owes
  /\ owes' = owes \ {p}
  /\ UNCHANGED <<calm, world, rec, up, seen, entry, unsaved, calls>>

\* A socket subscribes: refresh of the aggregate as it is in memory.
Subscribe(p) ==
  /\ p \in up /\ p \notin owes
  /\ calm => calls = {}
  /\ Refreshed(p)
  /\ Event
  /\ UNCHANGED <<calm, world, rec, up, seen, owes, unsaved>>

\* A socket closes: the presence command recovers the actor; no refresh.
Disconnect(p) ==
  /\ p \in up
  /\ seen' = [seen EXCEPT ![p] = Room]
  /\ Event
  /\ UNCHANGED <<calm, world, rec, up, owes, entry, unsaved, calls>>

\* A socket reconnects: the actor recovers, and a refresh follows.
Reconnect(p) ==
  /\ p \in up /\ p \notin owes
  /\ seen' = [seen EXCEPT ![p] = Room]
  /\ owes' = owes \cup {p}
  /\ Event
  /\ UNCHANGED <<calm, world, rec, up, entry, unsaved, calls>>

-----------------------------------------------------------------------------
\* The store, one call at a time.
Stored(v) == rec[v].status # "none"

\* Mutant: any row is cancelled, terminal or not.
CancelledAnyway(r) == [r EXCEPT !.status = "CANCELLED", !.live = FALSE]

\* A claimed row is left alone: cancel throws, cancelRoom passes over it.
Cancelled(r) ==
  IF r.status = "SCHEDULED" THEN [r EXCEPT !.status = "CANCELLED"] ELSE r

ExecuteCall(c) ==
  /\ c \in calls
  /\ calls' = calls \ {c}
  /\ CASE c.op = "upsert" ->
            rec' = IF Stored(c.v) THEN rec
                   ELSE [rec EXCEPT ![c.v] = [NoRow EXCEPT !.status = "SCHEDULED"]]
       [] c.op = "cancel" ->
            /\ [c EXCEPT !.op = "upsert"] \notin calls     \* after persistPromise
            /\ rec' = [rec EXCEPT ![c.v] = Cancelled(@)]
       [] c.op = "cancelRoom" ->
            rec' = [v \in Versions |-> IF v = c.v THEN rec[v] ELSE Cancelled(rec[v])]
  /\ UNCHANGED <<calm, world, up, local, chances>>

\* The call fails; only a failed upsert is remembered.
CallFails(c) ==
  /\ RoughEvent
  /\ c \in calls
  /\ calls' = calls \ {c}
  /\ unsaved' = IF c.op = "upsert" THEN unsaved \cup {<<c.by, c.v>>} ELSE unsaved
  /\ UNCHANGED <<calm, world, rec, up, seen, owes, entry>>

LeaseExpires(v) ==
  /\ rec[v].live
  /\ rec' = [rec EXCEPT ![v].live = FALSE]
  /\ UNCHANGED <<calm, world, up, local, calls, chances>>

-----------------------------------------------------------------------------
\* The timer of an entry goes off: when its deadline has passed, or, after
\* LEASE_HELD, the lease.  A rough clock may be early.
Fire(p, v) ==
  /\ p \in up /\ entry[p][v].st \in Armed
  /\ entry[p][v].st = "waiting" => ~rec[v].live
  /\ IF v <= late THEN UNCHANGED chances ELSE RoughEvent
  /\ SetEntry(p, v, [st |-> "firing", token |-> 0])
  /\ UNCHANGED <<calm, world, rec, up, seen, owes, unsaved, calls>>

\* Mutant: the store does not look at the clock.
ClaimableEarly(v) == rec[v].status \in {"SCHEDULED", "CLAIMED"} /\ ~rec[v].live

Claimable(v) == rec[v].status \in {"SCHEDULED", "CLAIMED"} /\ ~rec[v].live /\ v <= late

\* Mutant: a claim does not raise the token.
ClaimsSameToken(p, v) ==
  /\ rec' = [rec EXCEPT ![v] = [status |-> "CLAIMED", owner |-> p, token |-> 1, live |-> TRUE]]
  /\ SetEntry(p, v, [st |-> "claimed", token |-> 1])

Claims(p, v) ==
  /\ rec[v].token < MaxToken
  /\ rec' = [rec EXCEPT ![v] = [status |-> "CLAIMED", owner |-> p,
                                 token |-> rec[v].token + 1, live |-> TRUE]]
  /\ SetEntry(p, v, [st |-> "claimed", token |-> rec[v].token + 1])

Firing(p, v) ==
  /\ p \in up /\ entry[p][v].st = "firing"
  /\ [by |-> p, op |-> "upsert", v |-> v] \notin calls    \* after persistPromise
  /\ UNCHANGED <<calm, world, up, seen, owes, unsaved, calls>>

Claim(p, v) ==
  /\ Firing(p, v) /\ <<p, v>> \notin unsaved
  /\ Claimable(v) /\ Claims(p, v)
  /\ UNCHANGED chances

\* Mutant: whoever does not get the lease gives up.
ClaimLaterSkips(p, v) ==
  /\ Firing(p, v) /\ <<p, v>> \notin unsaved /\ Stored(v)
  /\ rec[v].status \notin Terminal /\ (rec[v].live \/ v > late)
  /\ SetEntry(p, v, Done)
  /\ UNCHANGED <<rec, chances>>

\* LEASE_HELD and NOT_DUE: the entry is armed again for the lease's end or the
\* deadline -- unless that moment passed while the answer was on its way, then
\* the entry is skipped for good.
ClaimLater(p, v) ==
  /\ Firing(p, v) /\ <<p, v>> \notin unsaved /\ Stored(v)
  /\ rec[v].status \notin Terminal /\ (rec[v].live \/ v > late)
  /\ \/ /\ SetEntry(p, v, [st |-> IF rec[v].live THEN "waiting" ELSE "scheduled", token |-> 0])
        /\ UNCHANGED chances
     \/ SetEntry(p, v, Done) /\ RoughEvent
  /\ UNCHANGED rec

\* TERMINAL: skipped.  Not persisted, or the claim fails: failed.
ClaimRefused(p, v) ==
  /\ Firing(p, v)
  /\ IF rec[v].status \in Terminal \cup {"none"} \/ <<p, v>> \in unsaved
     THEN UNCHANGED chances ELSE RoughEvent
  /\ SetEntry(p, v, Done)
  /\ UNCHANGED rec

\* _staleReason: the aggregate in memory has moved on, or not.
CheckStale(p, v) ==
  /\ p \in up /\ entry[p][v].st = "claimed"
  /\ SetEntry(p, v, [entry[p][v] EXCEPT !.st = IF seen[p].version = v THEN "checked" ELSE "stale"])
  /\ UNCHANGED <<calm, world, rec, up, seen, owes, unsaved, calls, chances>>

\* The timeout command: answered from the record of its command id if it was
\* applied before, refused if the room is at another version or not in play.
\* A rough dispatch may also fail, before or after it was applied.
Applied(p, v) ==
  /\ Commits(p, v + 1, v < MaxVersion)
  /\ timedOut' = timedOut \cup {v}

\* Mutant: the timeout command carries no expected version.
AnyTurn(v) == playing

CurrentTurn(v) == playing /\ version = v

DispatchTimeout(p, v) ==
  /\ p \in up /\ entry[p][v].st = "checked"
  /\ \E st \in {"executed", "stale", "failed"} :
       /\ SetEntry(p, v, [entry[p][v] EXCEPT !.st = st])
       /\ IF st = "failed" THEN RoughEvent ELSE UNCHANGED chances
       /\ \/ /\ v \notin timedOut /\ CurrentTurn(v) /\ st # "stale"
             /\ Applied(p, v)
          \/ /\ CASE st = "executed" -> v \in timedOut
                 [] st = "stale" -> v \notin timedOut /\ ~CurrentTurn(v)
                 [] st = "failed" -> TRUE
             /\ \/ seen' = [seen EXCEPT ![p] = Room]
                \/ st # "stale" /\ UNCHANGED seen
             /\ UNCHANGED <<version, playing, timedOut>>
  /\ UNCHANGED <<calm, late, rec, up, owes, unsaved, calls>>

\* Mutant: a refused timeout counts as executed.
OutcomeOptimistic == [executed |-> "EXECUTED", stale |-> "EXECUTED", failed |-> "FAILED"]

\* complete: a row already terminal is left alone, and so is one claimed again
\* with a newer token (the entry is then failed, CLAIM_LOST).
Outcome == [executed |-> "EXECUTED", stale |-> "STALE", failed |-> "FAILED"]

MayComplete(p, v) ==
  rec[v].status = "CLAIMED" /\ rec[v].token = entry[p][v].token /\ rec[v].owner = p

\* Mutant: the lease is not given back.
CompleteKeepingLease(p, v) ==
  /\ p \in up /\ entry[p][v].st \in DOMAIN Outcome
  /\ IF MayComplete(p, v)
     THEN rec' = [rec EXCEPT ![v].status = Outcome[entry[p][v].st]] ELSE UNCHANGED rec
  /\ SetEntry(p, v, Done)
  /\ UNCHANGED <<calm, world, up, seen, owes, unsaved, calls, chances>>

Complete(p, v) ==
  /\ p \in up /\ entry[p][v].st \in DOMAIN Outcome
  /\ \/ /\ MayComplete(p, v)
        /\ rec' = [rec EXCEPT ![v] = [NoRow EXCEPT !.status = Outcome[entry[p][v].st]]]
        /\ UNCHANGED chances
     \/ ~MayComplete(p, v) /\ UNCHANGED <<rec, chances>>
     \/ RoughEvent /\ UNCHANGED rec
  /\ SetEntry(p, v, Done)
  /\ UNCHANGED <<calm, world, up, seen, owes, unsaved, calls>>

-----------------------------------------------------------------------------
\* What a process leaves behind: rows claimed by a worker that is no more.
Gone(p, keptCalls) ==
  /\ up' = up \ {p}
  /\ rec' = [v \in Versions |->
               IF rec[v].owner = p THEN [rec[v] EXCEPT !.owner = NoProc] ELSE rec[v]]
  /\ entry' = [entry EXCEPT ![p] = [v \in Versions |-> NoEntry]]
  /\ unsaved' = {u \in unsaved : u[1] # p}
  /\ owes' = owes \ {p}
  /\ seen' = [seen EXCEPT ![p] = [version |-> 0, playing |-> FALSE]]
  /\ calls' = {c \in calls : c.by # p} \cup keptCalls
  /\ Event
  /\ UNCHANGED <<calm, world>>

Crash(p) == p \in up /\ Gone(p, {})

\* close cancels every scheduled entry, also in the store, and does not wait:
\* the store may be closed before some of the calls.
Close(p) ==
  /\ p \in up /\ (calm => GracefulClose)
  /\ \E reached \in SUBSET {v \in Versions : entry[p][v].st \in Armed} :
       Gone(p, {[by |-> NoProc, op |-> "cancel", v |-> v] : v \in reached})

\* recoverAll: the room is recovered and refreshed.
Restart(p) ==
  /\ p \notin up /\ (calm => p = Lead)
  /\ up' = up \cup {p}
  /\ seen' = [seen EXCEPT ![p] = Room]
  /\ owes' = owes \cup {p}
  /\ UNCHANGED <<calm, world, rec, entry, unsaved, calls, chances>>

-----------------------------------------------------------------------------
Expire(p, v) ==
  \/ Fire(p, v) \/ Claim(p, v) \/ ClaimLater(p, v) \/ ClaimRefused(p, v)
  \/ CheckStale(p, v) \/ DispatchTimeout(p, v) \/ Complete(p, v)

Next ==
  \/ \E p \in Procs :
       \/ \E pending \in BOOLEAN, same \in BOOLEAN : Play(p, pending, same)
       \/ Refresh(p) \/ RefreshMissed(p) \/ Subscribe(p) \/ Disconnect(p) \/ Reconnect(p)
       \/ \E v \in Versions : Expire(p, v)
       \/ Crash(p) \/ Close(p) \/ Restart(p)
  \/ \E c \in calls : ExecuteCall(c) \/ CallFails(c)
  \/ \E v \in Versions : LeaseExpires(v)
  \/ Elapse

\* Time passes, leases run out, a dead process is started again, a running one
\* takes its steps and its store calls are executed.  Players need not move.
Fairness ==
  /\ WF_vars(Elapse)
  /\ WF_vars(\E v \in Versions : LeaseExpires(v))
  /\ WF_vars(\E p \in Procs : Refresh(p) \/ Restart(p))
  /\ WF_vars(\E c \in calls : ExecuteCall(c))
  /\ \A v \in Versions : WF_vars(\E p \in Procs : Expire(p, v))

Spec == Init /\ [][Next]_vars /\ Fairness

-----------------------------------------------------------------------------
Entries == [st : {"none", "done", "firing"} \cup Armed \cup Working, token : 0..MaxToken]

\* Rows, entries and calls are well formed; a lease has an owner, unless that
\* worker is gone.
TypeOK ==
  /\ calm \in BOOLEAN /\ playing \in BOOLEAN /\ chances \in 0..MaxEvents
  /\ version \in 0..MaxVersion + 1 /\ late \in 0..version
  /\ timedOut \subseteq 1..version
  /\ rec \in [Versions -> [status : Terminal \cup {"none", "SCHEDULED", "CLAIMED"},
                           owner : Procs \cup {NoProc}, token : 0..MaxToken, live : BOOLEAN]]
  /\ \A v \in Versions : rec[v].live => rec[v].status = "CLAIMED"
  /\ up \subseteq Procs /\ owes \subseteq up
  /\ \A p \in up : seen[p].version <= version
  /\ entry \in [Procs -> [Versions -> Entries]]
  /\ unsaved \subseteq up \X Versions
  /\ calls \subseteq [by : Procs \cup {NoProc}, op : {"upsert", "cancel", "cancelRoom"},
                      v : 0..MaxVersion]

\* No turn is ended by its timeout before its deadline has passed, whatever
\* timers go off early and whoever claims.
TimedOutWhenLate == \A v \in timedOut : v <= late

\* A row says EXECUTED only of a turn that the timeout has ended, through lost
\* leases, repeated dispatches and late answers.
ExecutedIsApplied == \A v \in Versions : rec[v].status = "EXECUTED" => v \in timedOut

\* However many workers wake for a deadline, at most one of them holds its lease.
OneHolder ==
  \A v \in Versions : \A p, q \in Procs :
    p # q /\ entry[p][v].st \in Working /\ entry[q][v].st \in Working =>
      entry[p][v].token # entry[q][v].token

\* A stale deadline does not advance a new turn: a timeout ends the turn it was
\* set for, and only once, whoever dispatches it and however often.
TimeoutEndsItsTurn ==
  [][timedOut' # timedOut =>
       /\ playing /\ version \in timedOut' \ timedOut /\ version' = version + 1
       /\ timedOut' = timedOut \cup {version}]_vars

\* "terminal states are immutable"
TerminalIsFinal ==
  [][\A v \in Versions : rec[v].status \in Terminal => rec'[v].status = rec[v].status]_vars

\* A calm process that has armed the deadline of a turn sees the turn end, by
\* the player or by the timeout, through crashes and restarts.
Awaits(v) == CurrentTurn(v) /\ \E p \in up : entry[p][v].st \in Armed

ArmedTurnEnds == \A v \in Versions : calm /\ Awaits(v) ~> ~CurrentTurn(v)

\* Every turn ends, even if nobody plays.  (After a timeout nobody refreshes:
\* the deadline of the next turn is not armed.)
TurnEnds == \A v \in Versions : calm /\ CurrentTurn(v) ~> ~CurrentTurn(v)
=============================================================================
