----------------------------- MODULE CommandLog -----------------------------
(***************************************************************************)
(* What a room's command pipeline promises its callers, whatever lock,     *)
(* store and process carry it out: an append-only log in which a command   *)
(* id is applied at most once, and at most one recorded answer per command *)
(* id, given only for a request that was applied or needed no event.       *)
(***************************************************************************)
EXTENDS Integers, Sequences

CONSTANTS
  Requests,    \* a command id together with one payload (one requestHash)
  Commands,    \* command ids
  CommandOf,   \* the command id of each request
  Yields,      \* the numbers of events executing a request may produce
  NoRequest    \* "no answer recorded yet"

VARIABLES
  log,         \* the requests in the order their events were applied
  answered     \* command id -> the request whose answer was recorded

logVars == <<log, answered>>

\* n events produced by request r.
Batch(r, n) == [i \in 1..n |-> r]

Applied(c) == \E i \in DOMAIN log : CommandOf[log[i]] = c

LogInit ==
  /\ log = <<>>
  /\ answered = [c \in Commands |-> NoRequest]

\* All events of a request enter the log together, and only once.
Apply(r) ==
  /\ ~Applied(CommandOf[r])
  /\ \E n \in Yields[r] \ {0} : log' = log \o Batch(r, n)
  /\ UNCHANGED answered

\* An answer is recorded once and refers to an applied request, or to one
\* that is allowed to produce no event.
Answer(r) ==
  /\ answered[CommandOf[r]] = NoRequest
  /\ \/ \E i \in DOMAIN log : log[i] = r
     \/ 0 \in Yields[r]
  /\ answered' = [answered EXCEPT ![CommandOf[r]] = r]
  /\ UNCHANGED log

LogNext == \E r \in Requests : Apply(r) \/ Answer(r)

LogSpec == LogInit /\ [][LogNext]_logVars
=============================================================================
