------------------------------ MODULE SupportDesk ------------------------------
(***************************************************************************)
(* Support tickets: SupportTicketService over the tickets, messages, audit *)
(* log and idempotency records that a process keeps in its memory.         *)
(*                                                                         *)
(* A request names its operation, its user, its key (the Idempotency-Key   *)
(* header, or else the request id) and its input, a ticket and a text.     *)
(* The key is looked up and the operation carried out in one go; the       *)
(* record of it is saved after an await, when the answer is given.         *)
(***************************************************************************)
EXTENDS Naturals, Sequences, FiniteSets

CONSTANTS
  Users, Keys, Texts,
  Tickets,      \* ids that the id factory gives out
  None

ASSUME DeskAssumption == None \notin Users \cup Tickets \cup Texts

VARIABLES
  tickets,      \* each id's ticket, or Absent
  idempotency,  \* the records saved
  audit,        \* auditLogs
  saving,       \* operations carried out and not yet recorded
  answers,      \* history: the answers given
  raced         \* history: scopes of which two calls overlapped

desk == <<tickets, idempotency, audit, saving, answers, raced>>

Absent == [owner |-> None, closed |-> FALSE, messages |-> <<>>]
Exists(t) == tickets[t] # Absent

Requests ==
  [op : {"create"}, user : Users, key : Keys, ticket : {None}, text : Texts]
    \cup [op : {"reply"}, user : Users, key : Keys, ticket : Tickets, text : Texts]
    \cup [op : {"close"}, user : Users, key : Keys, ticket : Tickets, text : {None}]

Scope(q) == <<q.op, q.user, q.key>>
Input(q) == <<q.ticket, q.text>>

DeskInit ==
  /\ tickets = [t \in Tickets |-> Absent]
  /\ idempotency = {} /\ saving = {}
  /\ audit = <<>>
  /\ answers = {} /\ raced = {}

-----------------------------------------------------------------------------
\* The repository.

Entry(action, t, before, after) ==
  [action |-> action, ticket |-> t, before |-> before, after |-> after]

\* A ticket as the audit log and the answers show it.
Seen(t, ticket) ==
  [ticket |-> t, closed |-> ticket.closed, messages |-> Len(ticket.messages)]

Put(t, ticket, action) ==
  /\ tickets' = [tickets EXCEPT ![t] = ticket]
  /\ audit' = Append(audit, Entry(action, t, Seen(t, tickets[t]), Seen(t, ticket)))

Prior(q) == {i \in idempotency : i.scope = Scope(q)}

\* An operation was carried out: run has returned, saveIdempotency is to come.
Ran(q, result) ==
  /\ saving' = saving \cup {[request |-> q, result |-> result]}
  /\ raced' = raced \cup {Scope(p.request) : p \in {x \in saving : Scope(x.request) = Scope(q)}}
  /\ UNCHANGED <<idempotency, answers>>

-----------------------------------------------------------------------------
\* The service: _idempotent and the three operations.

\* Mutant: whatever is recorded under the key is the answer.
ReplayAnything(q) ==
  /\ \E i \in Prior(q) :
       answers' = answers \cup {[scope |-> i.scope, input |-> Input(q), result |-> i.result]}
  /\ UNCHANGED <<tickets, idempotency, audit, saving, raced>>

\* A retry: the recorded answer.
Replay(q) ==
  /\ \E i \in Prior(q) :
       /\ i.input = Input(q)
       /\ answers' = answers \cup {[scope |-> i.scope, input |-> i.input, result |-> i.result]}
  /\ UNCHANGED <<tickets, idempotency, audit, saving, raced>>

\* IDEMPOTENCY_CONFLICT.
Conflict(q) ==
  /\ \E i \in Prior(q) : i.input # Input(q)
  /\ UNCHANGED desk

CreateTicket(q) ==
  /\ q.op = "create" /\ Prior(q) = {}
  /\ \E t \in Tickets :
       /\ ~Exists(t)
       /\ LET new == [owner |-> q.user, closed |-> FALSE, messages |-> <<q>>] IN
          Put(t, new, "created") /\ Ran(q, Seen(t, new))

Owns(q) == tickets[q.ticket].owner = q.user

\* Mutant: the repository is relied on to refuse a closed ticket.
MayReplyAlways(q) == Owns(q)
MayReply(q) == Owns(q) /\ ~tickets[q.ticket].closed

ReplyTicket(q) ==
  /\ q.op = "reply" /\ Prior(q) = {}
  /\ MayReply(q)
  /\ LET next == [tickets[q.ticket] EXCEPT !.messages = Append(@, q)] IN
     Put(q.ticket, next, "replied") /\ Ran(q, Seen(q.ticket, next))

\* A ticket closed already is answered as it is.
CloseTicket(q) ==
  /\ q.op = "close" /\ Prior(q) = {}
  /\ Owns(q)
  /\ LET next == [tickets[q.ticket] EXCEPT !.closed = TRUE] IN
     /\ IF tickets[q.ticket].closed THEN UNCHANGED <<tickets, audit>>
        ELSE Put(q.ticket, next, "closed")
     /\ Ran(q, Seen(q.ticket, next))

\* SUPPORT_TICKET_NOT_FOUND, also for the ticket of another user, and
\* SUPPORT_TICKET_CLOSED.  An error is not recorded.
Refuse(q) ==
  /\ q.op # "create" /\ Prior(q) = {}
  /\ ~Owns(q) \/ (q.op = "reply" /\ ~MayReply(q))
  /\ UNCHANGED desk

\* Mutant: nothing is recorded of an answer.
SaveNothing(p) ==
  /\ saving' = saving \ {p}
  /\ answers' = answers \cup {[scope |-> Scope(p.request), input |-> Input(p.request),
                               result |-> p.result]}
  /\ UNCHANGED <<tickets, idempotency, audit, raced>>

\* saveIdempotency, and the answer.
Save(p) ==
  LET record == [scope |-> Scope(p.request), input |-> Input(p.request), result |-> p.result] IN
  /\ saving' = saving \ {p}
  /\ idempotency' = (idempotency \ Prior(p.request)) \cup {record}
  /\ answers' = answers \cup {record}
  /\ UNCHANGED <<tickets, audit, raced>>

Handle(q) ==
  \/ Replay(q) \/ Conflict(q)
  \/ CreateTicket(q) \/ ReplyTicket(q) \/ CloseTicket(q) \/ Refuse(q)

\* The process ends, and all that it kept is gone.
DeskLost ==
  /\ tickets' = [t \in Tickets |-> Absent]
  /\ idempotency' = {} /\ saving' = {}
  /\ audit' = <<>>
  /\ answers' = {} /\ raced' = {}

-----------------------------------------------------------------------------
Messages == UNION {{<<t, i>> : i \in DOMAIN tickets[t].messages} : t \in Tickets}

\* However often and in whatever order requests are sent again, a request leaves one
\* ticket or one message, also if it is sent again with another text -- unless two
\* calls with its key overlapped (support/service.js: _idempotent).
EachRequestOnce ==
  \A m, n \in Messages :
    LET p == tickets[m[1]].messages[m[2]]
        q == tickets[n[1]].messages[n[2]]
    IN m # n /\ Scope(p) = Scope(q) => Scope(p) \in raced

\* All the answers given for one key are one answer to one input, and later calls
\* change nothing in it (support/service.js: _idempotent, the replay).
RetriesAgree ==
  \A a, b \in answers : a.scope = b.scope => a = b \/ a.scope \in raced

\* Nothing follows the close of a ticket.
ClosedIsFinal ==
  \A i, j \in DOMAIN audit :
    i < j /\ audit[i].ticket = audit[j].ticket => audit[i].action # "closed"

\* What the first n entries of the audit log tell of a ticket.
Told(log, t, n) ==
  LET about == {i \in 1..n : log[i].ticket = t} IN
  IF about = {} THEN Seen(t, Absent)
  ELSE log[CHOOSE i \in about : \A j \in about : j <= i].after

\* The audit log tells the whole story of each ticket and nothing else: its entries
\* lead from no ticket to the ticket as it is, each from where the one before it ended,
\* each changed something, and none follows the close, whatever was being sent then --
\* the service alone sees to that, the repository takes a message for any ticket
\* (support/service.js: _audit and the three operations; repository.js: appendMessage).
AuditTells ==
  /\ ClosedIsFinal
  /\ \A i \in DOMAIN audit : LET e == audit[i] IN
       e.before = Told(audit, e.ticket, i - 1) /\ e.after # e.before
  /\ \A t \in Tickets : Told(audit, t, Len(audit)) = Seen(t, tickets[t])
=============================================================================
