------------------------------ MODULE Connections ------------------------------
(***************************************************************************)
(* Who is here: the sockets of a server process, the index of the players' *)
(* connections, the session commands that sign a socket in and out, the    *)
(* presence of players in their rooms, and the Dart clients, which send a  *)
(* session command again when its answer does not come.                    *)
(*                                                                         *)
(* The rooms are full: presence is all of them that changes here, by the   *)
(* reconnect of a socket and by the handler of a socket's close, through   *)
(* the queue of the room's actor (RoomActor.tla).                          *)
(***************************************************************************)
EXTENDS AuthService, Sequences

CONSTANTS
  Clients,      \* devices
  Sockets,
  Rooms,        \* a sequence, in the order of the server's map
  None,
  MaxCommands,  \* bound: session commands and reconnects sent, the repeated ones too
  MaxTrouble    \* bound: dispatches that fail, tokens that lapse, players banned

ASSUME ConnectionsAssumption ==
  /\ Rooms \in Seq({Rooms[i] : i \in DOMAIN Rooms})
  /\ None \notin Sockets \cup Users \cup Tokens
  /\ {MaxCommands, MaxTrouble} \subseteq Nat

VARIABLES
  state,        \* of each socket: "new", "open" or "closed"
  queue,        \* per socket: the commands received and not begun
  busy,         \* per socket: the reconnect being served
  leaving,      \* per closed socket: the player and the rooms its handler is to tell
  player,       \* per socket: ws.playerId
  token,        \* per socket: ws.accessToken
  signed,       \* per socket: the user a session command signed in and none out again
  clients,      \* the index: a player's sockets
  subs,         \* the rooms' listeners, each with the player it subscribed as
  calls,        \* per room: the actor's queue
  connected,    \* the players connected in each room
  conn,         \* per client: its socket, or None
  phase,        \* per client: "disconnected", "authenticating" or "online"
  held,         \* per client: its newest tokens, or None
  pending,      \* per client: its unanswered login or refresh, or None
  answers,      \* per socket: the answers the client has not read
  strayed,      \* the players of whom a closed socket was served, or who gave a
                \* socket to another player, or whose disconnect failed
  overtaken,    \* the players signed in while a close of theirs still had rooms to tell
  sent, trouble

sockets == <<state, queue, busy, leaving, player, token, signed, clients, subs>>
presence == <<calls, connected>>
client == <<conn, phase, held, pending>>
history == <<strayed, overtaken>>
spent == <<sent, trouble>>
vars == <<auth, sockets, presence, client, answers, history, spent>>

RoomSet == {Rooms[i] : i \in DOMAIN Rooms}
Idle == [step |-> "idle", user |-> None, room |-> None]
Nothing == [user |-> None, rooms |-> <<>>]

Init ==
  /\ AuthInit
  /\ state = [w \in Sockets |-> "new"]
  /\ queue = [w \in Sockets |-> <<>>]
  /\ busy = [w \in Sockets |-> Idle]
  /\ leaving = [w \in Sockets |-> Nothing]
  /\ player = [w \in Sockets |-> None]
  /\ token = [w \in Sockets |-> None]
  /\ signed = [w \in Sockets |-> None]
  /\ clients = [u \in Users |-> {}]
  /\ subs = {}
  /\ calls = [r \in RoomSet |-> <<>>]
  /\ connected = {}
  /\ conn = [c \in Clients |-> None]
  /\ phase = [c \in Clients |-> "disconnected"]
  /\ held = [c \in Clients |-> None]
  /\ pending = [c \in Clients |-> None]
  /\ answers = [w \in Sockets |-> <<>>]
  /\ strayed = {} /\ overtaken = {}
  /\ sent = 0 /\ trouble = 0

Trouble == trouble < MaxTrouble /\ trouble' = trouble + 1

-----------------------------------------------------------------------------
\* The index of connections.

Unsubscribed(w) == {b \in subs : b.socket # w}

\* Mutant: the socket takes the session for its player.
AddClientAsSession(w, u, t) ==
  /\ clients' = [clients EXCEPT ![u] = @ \cup {w}]
  /\ subs' = IF player[w] = None THEN subs ELSE Unsubscribed(w)
  /\ player' = [player EXCEPT ![w] = t[1]]
  /\ token' = [token EXCEPT ![w] = t]
  /\ signed' = [signed EXCEPT ![w] = u]

\* Mutant: a socket that signs in as another player keeps what it listens to.
AddClientOnTop(w, u, t) ==
  /\ clients' = [clients EXCEPT ![u] = @ \cup {w}]
  /\ player' = [player EXCEPT ![w] = u]
  /\ token' = [token EXCEPT ![w] = t]
  /\ signed' = [signed EXCEPT ![w] = u]
  /\ UNCHANGED subs

\* Whoever the socket was before is removed first, and with it what it listened to.
AddClient(w, u, t) ==
  /\ clients' = [x \in Users |-> IF x = u THEN clients[x] \cup {w}
                                 ELSE IF x = player[w] THEN clients[x] \ {w}
                                 ELSE clients[x]]
  /\ subs' = IF player[w] = None THEN subs ELSE Unsubscribed(w)
  /\ player' = [player EXCEPT ![w] = u]
  /\ token' = [token EXCEPT ![w] = t]
  /\ signed' = [signed EXCEPT ![w] = u]

\* Mutant: the player's entry is deleted with the first socket that goes.
RemoveClientEntry(w) ==
  /\ clients' = [x \in Users |-> IF x = player[w] THEN {} ELSE clients[x]]
  /\ subs' = Unsubscribed(w)
  /\ signed' = [signed EXCEPT ![w] = None]
  /\ UNCHANGED <<player, token>>

\* The socket keeps its player and its token.
RemoveClient(w) ==
  /\ clients' = [x \in Users |-> IF x = player[w] THEN clients[x] \ {w} ELSE clients[x]]
  /\ subs' = Unsubscribed(w)
  /\ signed' = [signed EXCEPT ![w] = None]
  /\ UNCHANGED <<player, token>>

\* What the properties leave out: see strayed and overtaken.
Strays(w, u) ==
  /\ strayed' = strayed \cup (IF state[w] = "closed" THEN {u} ELSE {})
                        \cup ({player[w]} \ {None, u})
  /\ overtaken' = overtaken \cup
       (IF \E x \in Sockets : leaving[x].user = u /\ Len(leaving[x].rooms) > 1
        THEN {u} ELSE {})

-----------------------------------------------------------------------------
\* Serving a socket, one command after the other -- also those that were received
\* before the socket closed.

Serves(w, type) ==
  /\ queue[w] # <<>> /\ Head(queue[w]).type = type
  /\ busy[w] = Idle
  /\ queue' = [queue EXCEPT ![w] = Tail(@)]

Arg(w) == Head(queue[w]).arg

Answer(w, type, t) ==
  answers' = IF state[w] = "open"
             THEN [answers EXCEPT ![w] =
                     Append(@, [type |-> type, token |-> t, to |-> Head(queue[w])])]
             ELSE answers

SignIn(w, u, t) == AddClient(w, u, t) /\ Strays(w, u)

SameSockets == UNCHANGED <<player, token, signed, clients, subs, history>>

ServeLogin(w) ==
  /\ Serves(w, "login")
  /\ \/ \E s \in Sessions :
          /\ CreateSession(s, Arg(w))
          /\ SignIn(w, Arg(w), <<s, 1>>)
          /\ Answer(w, "session", <<s, 1>>)
     \/ /\ Arg(w) \in banned
        /\ Answer(w, "error", None)
        /\ SameSockets /\ UNCHANGED auth
  /\ UNCHANGED <<state, busy, leaving, presence, client, spent>>

ServeRefresh(w) ==
  /\ Serves(w, "refresh")
  /\ \/ /\ Exchange(Arg(w))
        /\ LET s == Arg(w)[1] IN
           /\ SignIn(w, owner[s], <<s, issued'[s]>>)
           /\ Answer(w, "session", <<s, issued'[s]>>)
     \/ /\ RefuseRefresh(Arg(w))
        /\ Answer(w, IF Arg(w) \in refreshes THEN "expired" ELSE "error", None)
        /\ SameSockets
  /\ UNCHANGED <<state, busy, leaving, presence, client, spent>>

ServeAuth(w) ==
  /\ Serves(w, "auth")
  /\ RequireAuth(Arg(w))
  /\ IF Accepts(Arg(w))
     THEN /\ SignIn(w, owner[Arg(w)[1]], Arg(w))
          /\ Answer(w, "principal", None)
     ELSE Answer(w, "error", None) /\ SameSockets
  /\ UNCHANGED <<state, busy, leaving, presence, client, spent>>

ServeLogout(w) ==
  /\ Serves(w, "logout")
  /\ IF Accepts(Arg(w))
     THEN /\ Logout(Arg(w))
          /\ RemoveClient(w)
          /\ Answer(w, "logged out", None)
          /\ UNCHANGED history
     ELSE RequireAuth(Arg(w)) /\ Answer(w, "error", None) /\ SameSockets
  /\ UNCHANGED <<state, busy, leaving, presence, client, spent>>

\* A business command looks at the socket's token, and takes its player from it.
ServeReconnect(w) ==
  /\ Serves(w, "reconnect")
  /\ IF token[w] = None THEN UNCHANGED auth ELSE RequireAuth(token[w])
  /\ IF token[w] # None /\ Accepts(token[w])
     THEN LET u == owner[token[w][1]] IN
          /\ player' = [player EXCEPT ![w] = u]
          /\ busy' = [busy EXCEPT ![w] = [step |-> "recovering", user |-> u, room |-> Arg(w)]]
          /\ Strays(w, u)
     ELSE UNCHANGED <<player, busy, history>>
  /\ UNCHANGED <<state, leaving, token, signed, clients, subs, presence, client,
                 answers, spent>>

\* sync: the actor has recovered, the reconnect enters its queue.
EnterQueue(w) ==
  /\ busy[w].step = "recovering"
  /\ calls' = [calls EXCEPT ![busy[w].room] =
                 Append(@, [socket |-> w, user |-> busy[w].user, on |-> TRUE])]
  /\ busy' = [busy EXCEPT ![w].step = "queued"]
  /\ strayed' = strayed \cup (IF state[w] = "closed" THEN {busy[w].user} ELSE {})
  /\ UNCHANGED <<auth, state, queue, leaving, player, token, signed, clients, subs,
                 connected, client, answers, overtaken, spent>>

\* It was dispatched: the socket, open or not, is subscribed.
Subscribe(w) ==
  /\ busy[w].step = "dispatched"
  /\ subs' = subs \cup {[room |-> busy[w].room, socket |-> w, user |-> busy[w].user]}
  /\ busy' = [busy EXCEPT ![w] = Idle]
  /\ UNCHANGED <<auth, state, queue, leaving, player, token, signed, clients, presence,
                 client, answers, history, spent>>

-----------------------------------------------------------------------------
\* The end of a socket.

Gone(w, u) == [socket |-> w, user |-> u, on |-> FALSE]

\* The rooms that the close handler of w has still to tell, the first of which it
\* is telling.
Tell(w, u, rooms, queues) ==
  /\ leaving' = [leaving EXCEPT ![w] =
                   IF rooms = <<>> THEN Nothing ELSE [user |-> u, rooms |-> rooms]]
  /\ calls' = IF rooms = <<>> THEN queues
              ELSE [queues EXCEPT ![Head(rooms)] = Append(@, Gone(w, u))]

\* Mutant: the handler looks at the index before it takes the socket out.
LastOneBefore(w) == player[w] # None /\ clients[player[w]] = {}

\* Mutant: every socket that closes takes its player with it.
LastOneAlways(w) == player[w] # None

\* The socket that closes had a player, who has no other signed in.
LastOne(w) == player[w] # None /\ clients'[player[w]] = {}

\* Some of what the client sent was received; it will be served.
Close(w) ==
  /\ state[w] = "open"
  /\ state' = [state EXCEPT ![w] = "closed"]
  /\ \E n \in 0..Len(queue[w]) : queue' = [queue EXCEPT ![w] = SubSeq(@, 1, n)]
  /\ RemoveClient(w)
  /\ IF LastOne(w)
     THEN Tell(w, player[w], Rooms, calls)
     ELSE UNCHANGED <<leaving, calls>>
  /\ conn' = [c \in Clients |-> IF conn[c] = w THEN None ELSE conn[c]]
  /\ phase' = [c \in Clients |-> IF conn[c] = w THEN "disconnected" ELSE phase[c]]
  /\ answers' = [answers EXCEPT ![w] = <<>>]
  /\ UNCHANGED <<auth, busy, connected, held, pending, history, spent>>

\* The actor of r serves its next call; the handler that made it goes on.
Dispatched(r, call, queues) ==
  IF call.on
  THEN /\ busy' = [busy EXCEPT ![call.socket].step = "dispatched"]
       /\ calls' = queues /\ UNCHANGED leaving
  ELSE /\ Tell(call.socket, call.user, Tail(leaving[call.socket].rooms), queues)
       /\ UNCHANGED busy

RunCall(r) ==
  /\ calls[r] # <<>>
  /\ LET call == Head(calls[r]) IN
     /\ connected' = IF call.on THEN connected \cup {<<r, call.user>>}
                     ELSE connected \ {<<r, call.user>>}
     /\ Dispatched(r, call, [calls EXCEPT ![r] = Tail(@)])
  /\ UNCHANGED <<auth, state, queue, player, token, signed, clients, subs, client,
                 answers, history, spent>>

\* A failed reconnect is answered with an error, a failed disconnect is logged.
CallFails(r) ==
  /\ calls[r] # <<>>
  /\ Trouble
  /\ LET call == Head(calls[r]) IN
     IF call.on
     THEN /\ busy' = [busy EXCEPT ![call.socket] = Idle]
          /\ calls' = [calls EXCEPT ![r] = Tail(@)]
          /\ UNCHANGED <<leaving, strayed>>
     ELSE /\ Dispatched(r, call, [calls EXCEPT ![r] = Tail(@)])
          /\ strayed' = strayed \cup {call.user}
  /\ UNCHANGED <<auth, state, queue, player, token, signed, clients, subs, connected,
                 client, answers, overtaken, sent>>

-----------------------------------------------------------------------------
\* The clients.

Command(type, arg) == [type |-> type, arg |-> arg]

Sends(c, command) ==
  /\ sent < MaxCommands /\ sent' = sent + 1
  /\ queue' = [queue EXCEPT ![conn[c]] = Append(@, command)]

Attached(c) == conn[c] # None /\ phase[c] # "disconnected"

SameServer ==
  UNCHANGED <<auth, state, busy, leaving, player, token, signed, clients, subs, presence,
              history, trouble>>

\* connect: a fresh socket, and auth if there is an access token.
Connect(c) ==
  /\ phase[c] = "disconnected"
  /\ \E w \in Sockets :
       /\ state[w] = "new"
       /\ state' = [state EXCEPT ![w] = "open"]
       /\ conn' = [conn EXCEPT ![c] = w]
       /\ queue' = [queue EXCEPT ![w] =
                      IF held[c] = None THEN <<>> ELSE <<Command("auth", held[c])>>]
  /\ phase' = [phase EXCEPT ![c] = "authenticating"]
  /\ UNCHANGED <<auth, busy, leaving, player, token, signed, clients, subs, presence,
                 held, pending, answers, history, spent>>

\* The client loses its connection; the server does not know yet.
LoseConnection(c) ==
  /\ Attached(c)
  /\ conn' = [conn EXCEPT ![c] = None]
  /\ phase' = [phase EXCEPT ![c] = "disconnected"]
  /\ UNCHANGED <<auth, sockets, presence, held, pending, answers, history, spent>>

SendLogin(c, u) ==
  /\ Attached(c) /\ pending[c] = None
  /\ Sends(c, Command("login", u))
  /\ pending' = [pending EXCEPT ![c] = Command("login", u)]
  /\ SameServer /\ UNCHANGED <<conn, phase, held, answers>>

SendRefresh(c) ==
  /\ Attached(c) /\ pending[c] = None /\ held[c] # None
  /\ Sends(c, Command("refresh", held[c]))
  /\ pending' = [pending EXCEPT ![c] = Command("refresh", held[c])]
  /\ SameServer /\ UNCHANGED <<conn, phase, held, answers>>

\* A command that was not answered in time, or that a connection was lost over, is
\* sent again as it was.
Resend(c) ==
  /\ Attached(c) /\ pending[c] # None
  /\ Sends(c, pending[c])
  /\ SameServer /\ UNCHANGED <<client, answers>>

SendReconnect(c, r) ==
  /\ phase[c] = "online" /\ conn[c] # None
  /\ Sends(c, Command("reconnect", r))
  /\ SameServer /\ UNCHANGED <<client, answers>>

\* The client is logged out at once.
SendLogout(c) ==
  /\ Attached(c) /\ held[c] # None
  /\ Sends(c, Command("logout", held[c]))
  /\ held' = [held EXCEPT ![c] = None]
  /\ pending' = [pending EXCEPT ![c] = None]
  /\ phase' = [phase EXCEPT ![c] = "disconnected"]
  /\ SameServer /\ UNCHANGED <<conn, answers>>

\* An answer counts whenever it comes; one that comes after the logout gives the
\* client tokens, but not the way from disconnected to online.
Receive(c) ==
  /\ conn[c] # None /\ answers[conn[c]] # <<>>
  /\ LET a == Head(answers[conn[c]]) IN
     /\ held' = IF a.type = "session" THEN [held EXCEPT ![c] = a.token]
                ELSE IF a.type = "logged out" THEN [held EXCEPT ![c] = None]
                ELSE held
     /\ pending' = IF a.to = pending[c] /\ a.type \in {"session", "error"}
                   THEN [pending EXCEPT ![c] = None] ELSE pending
     /\ phase' = IF a.type \in {"session", "principal"} /\ phase[c] # "disconnected"
                 THEN [phase EXCEPT ![c] = "online"]
                 ELSE IF a.type = "logged out" THEN [phase EXCEPT ![c] = "disconnected"]
                 ELSE phase
  /\ answers' = [answers EXCEPT ![conn[c]] = Tail(@)]
  /\ UNCHANGED <<auth, sockets, presence, conn, history, spent>>

-----------------------------------------------------------------------------
Serve(w) ==
  \/ ServeLogin(w) \/ ServeRefresh(w) \/ ServeAuth(w) \/ ServeLogout(w)
  \/ ServeReconnect(w) \/ EnterQueue(w) \/ Subscribe(w)

Operate ==
  /\ Trouble
  /\ (\E s \in Sessions : Age(s)) \/ (\E u \in Users : BanUser(u))
  /\ UNCHANGED <<sockets, presence, client, answers, history, sent>>

ClientStep(c) ==
  \/ Connect(c) \/ LoseConnection(c)
  \/ \E u \in Users : SendLogin(c, u)
  \/ SendRefresh(c) \/ Resend(c) \/ SendLogout(c)
  \/ \E r \in RoomSet : SendReconnect(c, r)
  \/ Receive(c)

Next ==
  \/ \E w \in Sockets : Serve(w) \/ Close(w)
  \/ \E r \in RoomSet : RunCall(r) \/ CallFails(r)
  \/ \E c \in Clients : ClientStep(c)
  \/ Operate

Spec == Init /\ [][Next]_vars

-----------------------------------------------------------------------------
TypeOK ==
  /\ AuthTypeOK
  /\ state \in [Sockets -> {"new", "open", "closed"}]
  /\ player \in [Sockets -> Users \cup {None}] /\ signed \in [Sockets -> Users \cup {None}]
  /\ token \in [Sockets -> Tokens \cup {None}]
  /\ clients \in [Users -> SUBSET Sockets]
  /\ subs \subseteq [room : RoomSet, socket : Sockets, user : Users]
  /\ connected \subseteq RoomSet \X Users
  /\ conn \in [Clients -> Sockets \cup {None}]
  /\ held \in [Clients -> Tokens \cup {None}]
  /\ {strayed, overtaken} \subseteq SUBSET Users

\* No command, dispatch or close is under way.
Quiet ==
  \A w \in Sockets : queue[w] = <<>> /\ busy[w] = Idle /\ leaving[w] = Nothing

\* The index of a player's connections is exactly the sockets that a session command
\* signed in as that player and that neither signed out, nor changed hands, nor
\* closed since; one device that goes takes no other with it (server.js: addClient,
\* removeClient, the close handler).
Indexed == \A u \in Users : clients[u] = {w \in Sockets : signed[w] = u}

\* A socket listens to a room as the player it is signed in as, whatever accounts
\* it had before and whatever was being served when it changed (removeClient,
\* gateway.subscribe; events are filtered for ws.playerId when they are sent).
SubscribedAsSelf ==
  \A b \in subs :
    /\ player[b.socket] = b.user
    /\ state[b.socket] = "open" => signed[b.socket] = b.user

\* When all is quiet, a player shown connected has an open socket -- unless a command
\* was served for the player on a socket that had closed, the player's socket was
\* given to another player, or a disconnect failed (the close handler: "only when the
\* closing socket was their final authenticated connection").
GoneIsOffline ==
  Quiet => \A seen \in connected : LET u == seen[2] IN
             u \in strayed \/ \E w \in Sockets : state[w] = "open" /\ player[w] = u

\* When all is quiet, a player with an open socket that reconnected to a room is shown
\* connected there, however many sockets of the player closed meanwhile -- unless the
\* handler of a close was still going through the rooms when the player came back.
HereIsOnline ==
  Quiet => \A b \in subs :
             state[b.socket] = "open" /\ b.user \notin overtaken
               => <<b.room, b.user>> \in connected

\* A client that has tokens, and neither logged out, nor was banned, nor let them
\* lapse, has a session.
KeepsSession ==
  \A c \in Clients :
    held[c] # None => LET s == held[c][1] IN
                      s \in revoked => age[s] = 2 \/ owner[s] \in banned
=============================================================================
