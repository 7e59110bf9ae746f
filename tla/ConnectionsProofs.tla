--------------------------- MODULE ConnectionsProofs ---------------------------
(***************************************************************************)
(* Sockets and sessions, for any number of users, devices, sockets,        *)
(* sessions, rooms and commands: whatever the clients send and send again  *)
(* and whatever sockets come and go, a session keeps its one live token,   *)
(* the index of connections lists exactly the sockets that are             *)
(* signed in, who listens to a room listens as the player it is signed in  *)
(* as, and when all is quiet the rooms show the players who are here and   *)
(* not those who are gone.                                                 *)
(***************************************************************************)
EXTENDS Connections, AuthServiceProofs, SequenceTheorems

\* What clients send, and what they are answered.
Sent ==
  [type : {"login"}, arg : Users]
    \cup [type : {"refresh", "auth", "logout"}, arg : Tokens]
    \cup [type : {"reconnect"}, arg : RoomSet]

Answered ==
  [type : {"session"}, token : Tokens, to : Sent]
    \cup [type : {"principal", "error", "expired", "logged out"}, token : {None}, to : Sent]

\* What is under way between clients and server.
WireOK ==
  /\ queue \in [Sockets -> Seq(Sent)]
  /\ answers \in [Sockets -> Seq(Answered)]
  /\ conn \in [Clients -> Sockets \cup {None}]
  /\ held \in [Clients -> Tokens \cup {None}]
  /\ pending \in [Clients -> Sent \cup {None}]

\* A socket has a player and a token or neither; its player is the owner of the
\* token's session, and it is signed in as that player or not at all.
SignedAsPlayer ==
  \A w \in Sockets :
    /\ token[w] = None <=> player[w] = None
    /\ token[w] # None => owner[token[w][1]] = player[w]
    /\ signed[w] # None => signed[w] = player[w]

SocketsOK ==
  /\ player \in [Sockets -> Users \cup {None}]
  /\ token \in [Sockets -> Tokens \cup {None}]
  /\ signed \in [Sockets -> Users \cup {None}]
  /\ clients \in [Users -> SUBSET Sockets]
  /\ SignedAsPlayer
  /\ Indexed

ConnInv == AuthInv /\ WireOK /\ SocketsOK

\* Sessions keep their users.
OwnersKept == \A s \in Sessions : owner[s] # Nobody => owner'[s] = owner[s]

\* What a step of the system comes to.
Kept == [AuthNext]_auth /\ WireOK' /\ SocketsOK'

LEMMA ConnInvInit == Init => ConnInv
<1> SUFFICES ASSUME Init PROVE ConnInv
  OBVIOUS
<1>1. AuthInv
  BY AuthInvInit DEF Init
<1>2. WireOK
  BY DEF Init, WireOK
<1>3. SocketsOK
  BY ConnectionsAssumption DEF Init, SocketsOK, SignedAsPlayer, Indexed
<1> QED
  BY <1>1, <1>2, <1>3 DEF ConnInv

-----------------------------------------------------------------------------
\* The command that is served is one that a client may send.
LEMMA ServedIsSent ==
  ASSUME WireOK, NEW w \in Sockets, NEW type, Serves(w, type)
  PROVE  /\ Head(queue[w]) \in Sent
         /\ Head(queue[w]).type = type
         /\ queue' \in [Sockets -> Seq(Sent)]
<1>1. queue[w] \in Seq(Sent) /\ queue[w] # <<>>
  BY DEF WireOK, Serves
<1>2. Head(queue[w]) \in Sent /\ Tail(queue[w]) \in Seq(Sent)
  BY <1>1, HeadTailProperties
<1> QED
  BY <1>2 DEF WireOK, Serves

LEMMA ArgTypes ==
  ASSUME NEW w \in Sockets, Head(queue[w]) \in Sent
  PROVE  /\ Head(queue[w]).type = "login" => Arg(w) \in Users
         /\ Head(queue[w]).type \in {"refresh", "auth", "logout"} => Arg(w) \in Tokens
         /\ Head(queue[w]).type = "reconnect" => Arg(w) \in RoomSet
BY DEF Arg, Sent

LEMMA AppendTyped ==
  ASSUME NEW S, NEW s \in Seq(S), NEW e \in S
  PROVE  Append(s, e) \in Seq(S)
OBVIOUS

\* An answer reaches an open socket.
LEMMA AnswerKeeps ==
  ASSUME WireOK, NEW w \in Sockets, Head(queue[w]) \in Sent, NEW type, NEW t,
         Answer(w, type, t),
         \/ type = "session" /\ t \in Tokens
         \/ type \in {"principal", "error", "expired", "logged out"} /\ t = None
  PROVE  answers' \in [Sockets -> Seq(Answered)]
<1> DEFINE a == [type |-> type, token |-> t, to |-> Head(queue[w])]
<1>1. a \in Answered
  BY DEF Answered
<1>2. answers[w] \in Seq(Answered)
  BY DEF WireOK
<1> HIDE DEF a
<1>3. Append(answers[w], a) \in Seq(Answered)
  BY <1>1, <1>2, AppendTyped
<1> QED
  BY <1>3 DEF Answer, WireOK, a

\* A session command signs a socket in, whoever it was before.
LEMMA AddClientKeeps ==
  ASSUME SocketsOK, NEW w \in Sockets, NEW u \in Users, NEW t \in Tokens,
         AddClient(w, u, t), OwnersKept, owner'[t[1]] = u
  PROVE  SocketsOK'
<1> USE AuthAssumption, ConnectionsAssumption
<1>1. \A x \in Sockets : token[x] # None => owner'[token[x][1]] = player[x]
  <2> SUFFICES ASSUME NEW x \in Sockets, token[x] # None
               PROVE  owner'[token[x][1]] = player[x]
    OBVIOUS
  <2>1. player[x] \in Users /\ owner[token[x][1]] = player[x] /\ token[x] \in Tokens
    BY DEF SocketsOK, SignedAsPlayer
  <2>2. token[x][1] \in Sessions
    BY <2>1, TokenIsPair
  <2> QED
    BY <2>1, <2>2 DEF OwnersKept
<1>2. SignedAsPlayer'
  BY <1>1 DEF SocketsOK, SignedAsPlayer, AddClient
<1>3. Indexed'
  BY DEF SocketsOK, SignedAsPlayer, Indexed, AddClient
<1> QED
  BY <1>2, <1>3 DEF SocketsOK, AddClient

\* A socket is signed out, and keeps its player.
LEMMA RemoveClientKeeps ==
  ASSUME SocketsOK, NEW w \in Sockets, RemoveClient(w), UNCHANGED owner
  PROVE  SocketsOK'
<1> USE AuthAssumption, ConnectionsAssumption
<1>1. SignedAsPlayer'
  BY DEF SocketsOK, SignedAsPlayer, RemoveClient
<1>2. Indexed'
  BY DEF SocketsOK, SignedAsPlayer, Indexed, RemoveClient
<1> QED
  BY <1>1, <1>2 DEF SocketsOK, RemoveClient

\* Sockets that do not change, whatever sessions do.
LEMMA SocketsStay ==
  ASSUME SocketsOK, UNCHANGED <<player, token, signed, clients>>, OwnersKept
  PROVE  SocketsOK'
<1> USE AuthAssumption, ConnectionsAssumption
<1>1. \A x \in Sockets : token[x] # None => owner'[token[x][1]] = player[x]
  <2> SUFFICES ASSUME NEW x \in Sockets, token[x] # None
               PROVE  owner'[token[x][1]] = player[x]
    OBVIOUS
  <2>1. player[x] \in Users /\ owner[token[x][1]] = player[x] /\ token[x] \in Tokens
    BY DEF SocketsOK, SignedAsPlayer
  <2>2. token[x][1] \in Sessions
    BY <2>1, TokenIsPair
  <2> QED
    BY <2>1, <2>2 DEF OwnersKept
<1> QED
  BY <1>1 DEF SocketsOK, SignedAsPlayer, Indexed

\* A token that is accepted, or can be exchanged, is a user's.
LEMMA TokenHasUser ==
  ASSUME AuthInv, NEW t \in Tokens, t \in refreshes \cup access
  PROVE  t[1] \in Sessions /\ owner[t[1]] \in Users
<1>1. t = <<t[1], t[2]>> /\ t[1] \in Sessions /\ t[2] \in 1..MaxTokens
  BY TokenIsPair
<1>2. owner[t[1]] # Nobody
  BY <1>1 DEF AuthInv, InMaps
<1> QED
  BY <1>1, <1>2 DEF AuthInv, AuthTypeOK

-----------------------------------------------------------------------------
\* Steps of the server that serve a command, one lemma each.

LEMMA ServeLoginStep ==
  ASSUME ConnInv, NEW w \in Sockets, ServeLogin(w)
  PROVE  Kept
<1> USE AuthAssumption, ConnectionsAssumption
<1>0. AuthInv /\ WireOK /\ SocketsOK
  BY DEF ConnInv
<1>1. /\ Head(queue[w]) \in Sent /\ Arg(w) \in Users
      /\ queue' \in [Sockets -> Seq(Sent)]
  BY <1>0, ServedIsSent, ArgTypes DEF ServeLogin
<1>2. CASE \E s \in Sessions :
             /\ CreateSession(s, Arg(w))
             /\ SignIn(w, Arg(w), <<s, 1>>)
             /\ Answer(w, "session", <<s, 1>>)
  <2> PICK s \in Sessions : /\ CreateSession(s, Arg(w))
                            /\ SignIn(w, Arg(w), <<s, 1>>)
                            /\ Answer(w, "session", <<s, 1>>)
    BY <1>2
  <2>1. <<s, 1>> \in Tokens
    BY DEF Tokens
  <2>2. answers' \in [Sockets -> Seq(Answered)]
    BY <1>0, <1>1, <2>1, AnswerKeeps
  <2>3. OwnersKept /\ owner'[<<s, 1>>[1]] = Arg(w)
    BY <1>0 DEF CreateSession, OwnersKept, AuthInv, AuthTypeOK
  <2>4. SocketsOK'
    BY <1>0, <1>1, <2>1, <2>3, AddClientKeeps DEF SignIn
  <2>5. AuthNext
    BY <1>1 DEF AuthNext
  <2> QED
    BY <1>0, <1>1, <2>2, <2>4, <2>5 DEF Kept, WireOK, ServeLogin, client
<1>3. CASE Arg(w) \in banned /\ Answer(w, "error", None) /\ SameSockets /\ UNCHANGED auth
  <2>1. answers' \in [Sockets -> Seq(Answered)]
    BY <1>0, <1>1, <1>3, AnswerKeeps
  <2>2. SocketsOK'
    BY <1>0, <1>3, SocketsStay DEF SameSockets, OwnersKept, auth
  <2> QED
    BY <1>0, <1>1, <1>3, <2>1, <2>2 DEF Kept, WireOK, ServeLogin, client
<1> QED
  BY <1>2, <1>3 DEF ServeLogin

LEMMA ServeRefreshStep ==
  ASSUME ConnInv, NEW w \in Sockets, ServeRefresh(w)
  PROVE  Kept
<1> USE AuthAssumption, ConnectionsAssumption
<1>0. AuthInv /\ WireOK /\ SocketsOK
  BY DEF ConnInv
<1>1. /\ Head(queue[w]) \in Sent /\ Arg(w) \in Tokens
      /\ queue' \in [Sockets -> Seq(Sent)]
  BY <1>0, ServedIsSent, ArgTypes DEF ServeRefresh
<1> DEFINE s == Arg(w)[1]
<1>2. CASE /\ Exchange(Arg(w))
           /\ SignIn(w, owner[s], <<s, issued'[s]>>)
           /\ Answer(w, "session", <<s, issued'[s]>>)
  <2>1. s \in Sessions /\ owner[s] \in Users
    BY <1>0, <1>1, <1>2, TokenHasUser DEF Exchange, Exchangeable
  <2>2. <<s, issued'[s]>> \in Tokens
    BY <1>0, <1>2, <2>1 DEF Exchange, RotateTokens, AuthInv, AuthTypeOK, Tokens
  <2>3. answers' \in [Sockets -> Seq(Answered)]
    BY <1>0, <1>1, <1>2, <2>2, AnswerKeeps
  <2>4. OwnersKept /\ owner'[<<s, issued'[s]>>[1]] = owner[s]
    BY <1>2 DEF Exchange, RotateTokens, OwnersKept
  <2>5. SocketsOK'
    BY <1>0, <1>2, <2>1, <2>2, <2>4, AddClientKeeps DEF SignIn
  <2>6. AuthNext
    BY <1>1, <1>2 DEF AuthNext
  <2> QED
    BY <1>0, <1>1, <2>3, <2>5, <2>6 DEF Kept, WireOK, ServeRefresh, client
<1>3. CASE /\ RefuseRefresh(Arg(w))
           /\ Answer(w, IF Arg(w) \in refreshes THEN "expired" ELSE "error", None)
           /\ SameSockets
  <2>1. answers' \in [Sockets -> Seq(Answered)]
    BY <1>0, <1>1, <1>3, AnswerKeeps
  <2>2. OwnersKept
    BY <1>3 DEF RefuseRefresh, Revoke, auth, OwnersKept
  <2>3. SocketsOK'
    BY <1>0, <1>3, <2>2, SocketsStay DEF SameSockets
  <2>4. AuthNext
    BY <1>1, <1>3 DEF AuthNext
  <2> QED
    BY <1>0, <1>1, <2>1, <2>3, <2>4 DEF Kept, WireOK, ServeRefresh, client
<1> QED
  BY <1>2, <1>3 DEF ServeRefresh

LEMMA ServeAuthStep ==
  ASSUME ConnInv, NEW w \in Sockets, ServeAuth(w)
  PROVE  Kept
<1> USE AuthAssumption, ConnectionsAssumption
<1>0. AuthInv /\ WireOK /\ SocketsOK
  BY DEF ConnInv
<1>1. /\ Head(queue[w]) \in Sent /\ Arg(w) \in Tokens
      /\ queue' \in [Sockets -> Seq(Sent)]
  BY <1>0, ServedIsSent, ArgTypes DEF ServeAuth
<1>2. RequireAuth(Arg(w)) /\ UNCHANGED owner /\ OwnersKept
  BY DEF ServeAuth, RequireAuth, OwnersKept
<1>3. AuthNext
  BY <1>1, <1>2 DEF AuthNext
<1>4. answers' \in [Sockets -> Seq(Answered)]
  BY <1>0, <1>1, AnswerKeeps DEF ServeAuth
<1>5. SocketsOK'
  <2>1. CASE Accepts(Arg(w))
    <3>1. Arg(w)[1] \in Sessions /\ owner[Arg(w)[1]] \in Users
      BY <1>0, <1>1, <2>1, TokenHasUser DEF Accepts
    <3>2. AddClient(w, owner[Arg(w)[1]], Arg(w))
      BY <2>1 DEF ServeAuth, SignIn
    <3> QED
      BY <1>0, <1>1, <1>2, <3>1, <3>2, AddClientKeeps
  <2>2. CASE ~Accepts(Arg(w))
    BY <1>0, <1>2, <2>2, SocketsStay DEF ServeAuth, SameSockets
  <2> QED
    BY <2>1, <2>2
<1> QED
  BY <1>0, <1>1, <1>3, <1>4, <1>5 DEF Kept, WireOK, ServeAuth, client

LEMMA ServeLogoutStep ==
  ASSUME ConnInv, NEW w \in Sockets, ServeLogout(w)
  PROVE  Kept
<1> USE AuthAssumption, ConnectionsAssumption
<1>0. AuthInv /\ WireOK /\ SocketsOK
  BY DEF ConnInv
<1>1. /\ Head(queue[w]) \in Sent /\ Arg(w) \in Tokens
      /\ queue' \in [Sockets -> Seq(Sent)]
  BY <1>0, ServedIsSent, ArgTypes DEF ServeLogout
<1>2. UNCHANGED owner /\ OwnersKept
  BY DEF ServeLogout, Logout, Revoke, RequireAuth, OwnersKept
<1>3. AuthNext
  BY <1>1 DEF AuthNext, ServeLogout
<1>4. answers' \in [Sockets -> Seq(Answered)]
  BY <1>0, <1>1, AnswerKeeps DEF ServeLogout
<1>5. SocketsOK'
  <2>1. CASE Accepts(Arg(w))
    BY <1>0, <1>2, <2>1, RemoveClientKeeps DEF ServeLogout
  <2>2. CASE ~Accepts(Arg(w))
    BY <1>0, <1>2, <2>2, SocketsStay DEF ServeLogout, SameSockets
  <2> QED
    BY <2>1, <2>2
<1> QED
  BY <1>0, <1>1, <1>3, <1>4, <1>5 DEF Kept, WireOK, ServeLogout, client

\* The token a socket carries is of its player, so the player stays the same.
LEMMA ServeReconnectStep ==
  ASSUME ConnInv, NEW w \in Sockets, ServeReconnect(w)
  PROVE  Kept
<1> USE AuthAssumption, ConnectionsAssumption
<1>0. AuthInv /\ WireOK /\ SocketsOK
  BY DEF ConnInv
<1>1. queue' \in [Sockets -> Seq(Sent)]
  BY <1>0, ServedIsSent DEF ServeReconnect
<1>2. [AuthNext]_auth /\ UNCHANGED owner
  <2>1. CASE token[w] = None
    BY <2>1 DEF ServeReconnect, auth
  <2>2. CASE token[w] # None
    <3>1. token[w] \in Tokens /\ RequireAuth(token[w])
      BY <1>0, <2>2 DEF ServeReconnect, SocketsOK
    <3> QED
      BY <3>1 DEF AuthNext, RequireAuth
  <2> QED
    BY <2>1, <2>2
<1>3. UNCHANGED player
  <2>1. CASE token[w] # None /\ Accepts(token[w])
    <3>1. player' = [player EXCEPT ![w] = owner[token[w][1]]]
      BY <2>1 DEF ServeReconnect
    <3>2. owner[token[w][1]] = player[w]
      BY <1>0, <2>1 DEF SocketsOK, SignedAsPlayer
    <3> QED
      BY <1>0, <3>1, <3>2 DEF SocketsOK
  <2>2. CASE ~(token[w] # None /\ Accepts(token[w]))
    BY <2>2 DEF ServeReconnect
  <2> QED
    BY <2>1, <2>2
<1>4. SocketsOK'
  BY <1>0, <1>2, <1>3, SocketsStay DEF ServeReconnect, OwnersKept
<1> QED
  BY <1>0, <1>1, <1>2, <1>4 DEF Kept, WireOK, ServeReconnect, client

-----------------------------------------------------------------------------
\* The end of a socket.
LEMMA CloseStep ==
  ASSUME ConnInv, NEW w \in Sockets, Close(w)
  PROVE  Kept
<1>0. AuthInv /\ WireOK /\ SocketsOK
  BY DEF ConnInv
<1>1. queue' \in [Sockets -> Seq(Sent)]
  <2>1. PICK n \in 0..Len(queue[w]) : queue' = [queue EXCEPT ![w] = SubSeq(@, 1, n)]
    BY DEF Close
  <2>2. queue[w] \in Seq(Sent)
    BY <1>0 DEF WireOK
  <2>3. \A i \in 1..n : queue[w][i] \in Sent
    BY <2>2, ElementOfSeq, LenProperties
  <2>4. SubSeq(queue[w], 1, n) \in Seq(Sent)
    BY <2>2, <2>3, SubSeqProperties, LenProperties
  <2> QED
    BY <1>0, <2>1, <2>4 DEF WireOK
<1>2. answers' \in [Sockets -> Seq(Answered)]
  BY <1>0 DEF Close, WireOK
<1>3. SocketsOK'
  BY <1>0, RemoveClientKeeps DEF Close, auth
<1>4. conn' \in [Clients -> Sockets \cup {None}]
  BY <1>0 DEF Close, WireOK
<1> QED
  BY <1>0, <1>1, <1>2, <1>3, <1>4 DEF Kept, WireOK, Close

\* Steps of the rooms and of the handlers that wait for them.
LEMMA RoomStep ==
  ASSUME ConnInv,
         \/ \E w \in Sockets : EnterQueue(w) \/ Subscribe(w)
         \/ \E r \in RoomSet : RunCall(r) \/ CallFails(r)
  PROVE  Kept
<1>1. UNCHANGED <<auth, queue, player, token, signed, clients, client, answers>>
  BY DEF EnterQueue, Subscribe, RunCall, CallFails
<1> QED
  BY <1>1, SocketsStay DEF ConnInv, Kept, WireOK, client, auth, OwnersKept

-----------------------------------------------------------------------------
\* The steps of a client change no session and no socket's player.
LEMMA SendKeeps ==
  ASSUME WireOK, NEW c \in Clients, Attached(c), NEW command \in Sent, Sends(c, command)
  PROVE  queue' \in [Sockets -> Seq(Sent)]
<1>1. conn[c] \in Sockets
  BY DEF WireOK, Attached
<1>2. Append(queue[conn[c]], command) \in Seq(Sent)
  BY <1>1, AppendTyped DEF WireOK
<1> QED
  BY <1>1, <1>2 DEF WireOK, Sends

LEMMA ClientKeeps ==
  ASSUME ConnInv, NEW c \in Clients, ClientStep(c)
  PROVE  Kept
<1> USE AuthAssumption, ConnectionsAssumption
<1>0. AuthInv /\ WireOK /\ SocketsOK
  BY DEF ConnInv
<1>1. UNCHANGED <<auth, player, token, signed, clients>>
  BY DEF ClientStep, Connect, LoseConnection, SendLogin, SendRefresh, Resend, SendLogout,
         SendReconnect, Receive, SameServer, sockets
<1>2. SocketsOK'
  BY <1>0, <1>1, SocketsStay DEF auth, OwnersKept
<1>3. held[c] # None => held[c] \in Tokens
  BY <1>0 DEF WireOK
<1>4. CASE Connect(c)
  <2>1. PICK w \in Sockets :
          /\ conn' = [conn EXCEPT ![c] = w]
          /\ queue' = [queue EXCEPT ![w] =
                         IF held[c] = None THEN <<>> ELSE <<Command("auth", held[c])>>]
    BY <1>4 DEF Connect
  <2>2. held[c] # None => Command("auth", held[c]) \in Sent
    BY <1>3 DEF Command, Sent
  <2>3. (IF held[c] = None THEN <<>> ELSE <<Command("auth", held[c])>>) \in Seq(Sent)
    BY <2>2
  <2>4. WireOK'
    BY <1>0, <1>4, <2>1, <2>3 DEF WireOK, Connect
  <2> QED
    BY <1>1, <1>2, <2>4 DEF Kept
<1>5. CASE LoseConnection(c)
  BY <1>0, <1>1, <1>2, <1>5 DEF Kept, WireOK, LoseConnection, sockets
<1>6. ASSUME NEW u \in Users, SendLogin(c, u)
      PROVE  Kept
  <2>1. Command("login", u) \in Sent
    BY DEF Command, Sent
  <2>2. queue' \in [Sockets -> Seq(Sent)]
    BY <1>0, <1>6, <2>1, SendKeeps DEF SendLogin
  <2>3. WireOK'
    BY <1>0, <1>6, <2>1, <2>2 DEF WireOK, SendLogin
  <2> QED
    BY <1>1, <1>2, <2>3 DEF Kept
<1>7. CASE SendRefresh(c)
  <2>1. Command("refresh", held[c]) \in Sent
    BY <1>3, <1>7 DEF Command, Sent, SendRefresh
  <2>2. queue' \in [Sockets -> Seq(Sent)]
    BY <1>0, <1>7, <2>1, SendKeeps DEF SendRefresh
  <2>3. WireOK'
    BY <1>0, <1>7, <2>1, <2>2 DEF WireOK, SendRefresh
  <2> QED
    BY <1>1, <1>2, <2>3 DEF Kept
<1>8. CASE Resend(c)
  <2>1. pending[c] \in Sent
    BY <1>0, <1>8 DEF WireOK, Resend
  <2>2. queue' \in [Sockets -> Seq(Sent)]
    BY <1>0, <1>8, <2>1, SendKeeps DEF Resend
  <2>3. WireOK'
    BY <1>0, <1>8, <2>2 DEF WireOK, Resend, client
  <2> QED
    BY <1>1, <1>2, <2>3 DEF Kept
<1>9. CASE SendLogout(c)
  <2>1. Command("logout", held[c]) \in Sent
    BY <1>3, <1>9 DEF Command, Sent, SendLogout
  <2>2. queue' \in [Sockets -> Seq(Sent)]
    BY <1>0, <1>9, <2>1, SendKeeps DEF SendLogout
  <2>3. WireOK'
    BY <1>0, <1>9, <2>2 DEF WireOK, SendLogout
  <2> QED
    BY <1>1, <1>2, <2>3 DEF Kept
<1>10. ASSUME NEW r \in RoomSet, SendReconnect(c, r)
       PROVE  Kept
  <2>1. Command("reconnect", r) \in Sent
    BY DEF Command, Sent
  <2>2. queue' \in [Sockets -> Seq(Sent)]
    BY <1>0, <1>10, <2>1, SendKeeps DEF SendReconnect, Attached
  <2>3. WireOK'
    BY <1>0, <1>10, <2>2 DEF WireOK, SendReconnect, client
  <2> QED
    BY <1>1, <1>2, <2>3 DEF Kept
<1>11. CASE Receive(c)
  <2> DEFINE w == conn[c]
             a == Head(answers[w])
  <2>1. w \in Sockets /\ answers[w] \in Seq(Answered) /\ answers[w] # <<>>
    BY <1>0, <1>11 DEF Receive, WireOK
  <2>2. a \in Answered /\ Tail(answers[w]) \in Seq(Answered)
    BY <2>1, HeadTailProperties
  <2>3. a.type = "session" => a.token \in Tokens
    BY <2>2 DEF Answered
  <2>4. answers' \in [Sockets -> Seq(Answered)]
    BY <1>0, <1>11, <2>1, <2>2 DEF Receive, WireOK
  <2>5. held' \in [Clients -> Tokens \cup {None}]
    BY <1>0, <1>11, <2>3 DEF Receive, WireOK
  <2>6. pending' \in [Clients -> Sent \cup {None}]
    BY <1>0, <1>11 DEF Receive, WireOK
  <2>7. WireOK'
    BY <1>0, <1>11, <2>4, <2>5, <2>6 DEF WireOK, Receive, sockets
  <2> QED
    BY <1>1, <1>2, <2>7 DEF Kept
<1> QED
  BY <1>4, <1>5, <1>6, <1>7, <1>8, <1>9, <1>10, <1>11 DEF ClientStep

\* Time passes, an operator bans a user.
LEMMA OperateStep ==
  ASSUME ConnInv, Operate
  PROVE  Kept
<1>1. AuthNext /\ OwnersKept
  BY DEF Operate, AuthNext, OwnersKept, Age, BanUser, Revoke
<1>2. SocketsOK'
  BY <1>1, SocketsStay DEF ConnInv, Operate, sockets
<1> QED
  BY <1>1, <1>2 DEF Kept, ConnInv, WireOK, Operate, sockets, client

\* Every step of sockets, rooms and clients is a step of the sessions or none, and keeps
\* what is known of the wire and of the sockets.
THEOREM ConnStep == ConnInv /\ [Next]_vars => Kept /\ ConnInv'
<1> SUFFICES ASSUME ConnInv, [Next]_vars
             PROVE  Kept
  BY AuthStep DEF Kept, ConnInv
<1>1. ASSUME NEW w \in Sockets, Serve(w)
      PROVE  Kept
  BY <1>1, ServeLoginStep, ServeRefreshStep, ServeAuthStep, ServeLogoutStep,
     ServeReconnectStep, RoomStep DEF Serve
<1>2. ASSUME NEW w \in Sockets, Close(w)
      PROVE  Kept
  BY <1>2, CloseStep
<1>3. ASSUME NEW r \in RoomSet, RunCall(r) \/ CallFails(r)
      PROVE  Kept
  BY <1>3, RoomStep
<1>4. ASSUME NEW c \in Clients, ClientStep(c)
      PROVE  Kept
  BY <1>4, ClientKeeps
<1>5. CASE Operate
  BY <1>5, OperateStep
<1>6. CASE UNCHANGED vars
  BY <1>6, SocketsStay DEF vars, sockets, client, auth, ConnInv, Kept, WireOK, OwnersKept
<1> QED
  BY <1>1, <1>2, <1>3, <1>4, <1>5, <1>6 DEF Next

\* The handlers touch sessions only by AuthService's own operations.
LEMMA SessionsByAuth == Spec => AuthSpec
<1>1. Init => AuthInit
  BY DEF Init
<1>2. Spec => []ConnInv
  BY ConnInvInit, ConnStep, PTL DEF Spec
<1>3. ConnInv /\ [Next]_vars => [AuthNext]_auth
  BY ConnStep DEF Kept
<1> QED
  BY <1>1, <1>2, <1>3, PTL DEF Spec, AuthSpec

\* However sockets sign in, change hands, sign out and close, a player's entry of the
\* index is exactly the sockets signed in as that player (server.js: addClient,
\* removeClient, the close handler).
THEOREM IndexedHolds == Spec => []Indexed
<1>1. Spec => []ConnInv
  BY ConnInvInit, ConnStep, PTL DEF Spec
<1>2. ConnInv => Indexed
  BY DEF ConnInv, SocketsOK
<1> QED
  BY <1>1, <1>2, PTL

\* So whatever reaches the server over sockets, a session keeps its one live token
\* (server.js: the handlers of session commands).
THEOREM SessionsKeepOneToken == Spec => []OneLiveToken
  BY SessionsByAuth, OneLiveTokenHolds, PTL

-----------------------------------------------------------------------------
(***************************************************************************)
(* Presence: the sockets served, the actors' queues and the handlers of    *)
(* closed sockets.                                                         *)
(***************************************************************************)
BusyStates ==
  [step : {"idle", "recovering", "queued", "dispatched"}, user : Users \cup {None},
   room : RoomSet \cup {None}]
Calls == [socket : Sockets, user : Users, on : BOOLEAN]
Leavings == [user : Users \cup {None}, rooms : Seq(RoomSet)]

PresenceTyped ==
  /\ state \in [Sockets -> {"new", "open", "closed"}]
  /\ busy \in [Sockets -> BusyStates]
  /\ leaving \in [Sockets -> Leavings]
  /\ subs \subseteq [room : RoomSet, socket : Sockets, user : Users]
  /\ calls \in [RoomSet -> Seq(Calls)]
  /\ connected \subseteq RoomSet \X Users
  /\ phase \in [Clients -> {"disconnected", "authenticating", "online"}]
  /\ strayed \subseteq Users /\ overtaken \subseteq Users

\* No client sends over w any more.
Silent(w) == \A c \in Clients : conn[c] = w => phase[c] = "disconnected"

\* A socket begins with nothing, and has one client; its close comes once; a logout is
\* the last that its client sends over it.
LifeOK ==
  /\ \A c, d \in Clients : conn[c] = conn[d] /\ conn[c] # None => c = d
  /\ \A c \in Clients : pending[c] # None => pending[c].type # "logout"
  /\ \A w \in Sockets :
       /\ state[w] = "new" =>
            /\ token[w] = None /\ signed[w] = None /\ queue[w] = <<>> /\ busy[w] = Idle
            /\ \A c \in Clients : conn[c] # w
       /\ state[w] # "closed" => leaving[w] = Nothing
       /\ signed[w] # None /\ state[w] = "closed" => signed[w] \in strayed
       /\ \A i \in DOMAIN queue[w] :
            queue[w][i].type = "logout" => i = Len(queue[w]) /\ Silent(w)
       /\ state[w] = "open" /\ token[w] # None /\ signed[w] = None =>
            queue[w] = <<>> /\ Silent(w)

\* A reconnect is served for the player the socket has.
ServedAsSelf ==
  \A w \in Sockets : busy[w].step # "idle" =>
    /\ busy[w].user \in Users /\ busy[w].room \in RoomSet
    /\ player[w] = busy[w].user
    /\ state[w] = "open" => signed[w] = busy[w].user

\* A handler that waits has one call in one queue.
CallsOK ==
  /\ \A r \in RoomSet : \A i \in DOMAIN calls[r] :
       /\ calls[r][i].on =>
            /\ busy[calls[r][i].socket].step = "queued"
            /\ busy[calls[r][i].socket].user = calls[r][i].user
            /\ busy[calls[r][i].socket].room = r
       /\ ~calls[r][i].on =>
            /\ leaving[calls[r][i].socket].user = calls[r][i].user
            /\ leaving[calls[r][i].socket].rooms # <<>>
            /\ Head(leaving[calls[r][i].socket].rooms) = r
  /\ \A r, q \in RoomSet : \A i \in DOMAIN calls[r], j \in DOMAIN calls[q] :
       /\ calls[r][i].socket = calls[q][j].socket
       /\ calls[r][i].on <=> calls[q][j].on
       => r = q /\ i = j

\* u has an open socket; a close handler has not told r of u yet; r will hear that u
\* is gone after its i-th call, or after whatever it has heard of u.
Here(u) == \E w \in Sockets : state[w] = "open" /\ player[w] = u
Yet(r, u) ==
  \E w \in Sockets :
    /\ leaving[w].user = u
    /\ \E i \in 2..Len(leaving[w].rooms) : leaving[w].rooms[i] = r
OffAfter(r, u, i) ==
  \E j \in DOMAIN calls[r] : j > i /\ calls[r][j].user = u /\ ~calls[r][j].on
OffComes(r, u) ==
  /\ <<r, u>> \in connected => OffAfter(r, u, 0)
  /\ \A i \in DOMAIN calls[r] : calls[r][i].user = u /\ calls[r][i].on => OffAfter(r, u, i)

\* Every room hears that a player without a socket is gone.
GoneInv ==
  \A u \in Users :
    u \in strayed \/ Here(u) \/ \A r \in RoomSet : Yet(r, u) \/ OffComes(r, u)

\* A close handler of a player who is back has no room left but the one it is telling.
OneRoomLeft ==
  \A w, x \in Sockets :
    /\ state[w] = "open" /\ signed[w] # None /\ signed[w] \notin overtaken
    /\ leaving[x].user = signed[w]
    => Len(leaving[x].rooms) <= 1

Shown(r, u) == <<r, u>> \in connected /\ ~OffAfter(r, u, 0)

\* A player whose reconnect was dispatched is shown, and no room will hear that the
\* player is gone.
DispatchedShown ==
  \A w \in Sockets :
    state[w] = "open" /\ busy[w].step = "dispatched" /\ busy[w].user \notin overtaken
      => Shown(busy[w].room, busy[w].user)
ListenersShown ==
  \A b \in subs : state[b.socket] = "open" /\ b.user \notin overtaken => Shown(b.room, b.user)
QueuedLast ==
  \A r \in RoomSet : \A i \in DOMAIN calls[r] :
    /\ calls[r][i].on /\ state[calls[r][i].socket] = "open"
    /\ calls[r][i].user \notin overtaken
    => ~OffAfter(r, calls[r][i].user, i)

HereInv == OneRoomLeft /\ DispatchedShown /\ ListenersShown /\ QueuedLast

PresInv ==
  /\ PresenceTyped /\ LifeOK /\ ServedAsSelf /\ CallsOK /\ SubscribedAsSelf
  /\ GoneInv /\ HereInv

LEMMA EmptyQueue == DOMAIN <<>> = {} /\ Len(<<>>) = 0
OBVIOUS

LEMMA NothingTyped ==
  /\ Idle \in BusyStates /\ Idle.step = "idle" /\ Nothing \in Leavings
  /\ Nothing.user = None /\ Nothing.rooms = <<>> /\ None \notin Users
BY ConnectionsAssumption DEF Idle, BusyStates, Nothing, Leavings

LEMMA PresInvInit == Init => PresInv
<1> SUFFICES ASSUME Init PROVE PresInv
  OBVIOUS
<1> USE NothingTyped DEF Init
<1>1. PresenceTyped
  <2>1. /\ busy \in [Sockets -> BusyStates] /\ leaving \in [Sockets -> Leavings]
        /\ calls \in [RoomSet -> Seq(Calls)]
    OBVIOUS
  <2>2. /\ state \in [Sockets -> {"new", "open", "closed"}]
        /\ phase \in [Clients -> {"disconnected", "authenticating", "online"}]
    OBVIOUS
  <2> QED
    BY <2>1, <2>2 DEF PresenceTyped
<1>5. LifeOK
  BY ConnectionsAssumption, EmptyQueue DEF LifeOK
<1>6. ServedAsSelf
  BY DEF ServedAsSelf
<1>2. CallsOK /\ SubscribedAsSelf
  BY DEF CallsOK, SubscribedAsSelf
<1>3. GoneInv
  BY DEF GoneInv, OffComes
<1>4. HereInv
  BY DEF HereInv, OneRoomLeft, DispatchedShown, ListenersShown, QueuedLast
<1> QED
  BY <1>1, <1>2, <1>3, <1>4, <1>5, <1>6 DEF PresInv

-----------------------------------------------------------------------------
\* What a step that touches no socket's life leaves as it was.
LEMMA PresenceKept ==
  ASSUME ServedAsSelf, CallsOK, SubscribedAsSelf, GoneInv, HereInv,
         UNCHANGED <<state, busy, leaving, player, signed, subs, calls, connected,
                     strayed, overtaken>>
  PROVE  ServedAsSelf' /\ CallsOK' /\ SubscribedAsSelf' /\ GoneInv' /\ HereInv'
<1>1. ServedAsSelf' /\ CallsOK' /\ SubscribedAsSelf'
  BY DEF ServedAsSelf, CallsOK, SubscribedAsSelf
<1>2. GoneInv'
  BY DEF GoneInv, Here, Yet, OffComes, OffAfter
<1>3. OneRoomLeft' /\ DispatchedShown' /\ ListenersShown' /\ QueuedLast'
  BY DEF HereInv, OneRoomLeft, DispatchedShown, ListenersShown, QueuedLast, Shown, OffAfter
<1> QED
  BY <1>1, <1>2, <1>3 DEF HereInv

LEMMA CallsKept ==
  ASSUME CallsOK, UNCHANGED <<calls, leaving>>,
         \A w \in Sockets : busy[w].step = "queued" => busy'[w] = busy[w],
         PresenceTyped
  PROVE  CallsOK'
<1>1. ASSUME NEW r \in RoomSet, NEW i \in DOMAIN calls[r] PROVE calls[r][i].socket \in Sockets
  <2>1. calls[r] \in Seq(Calls)
    BY DEF PresenceTyped
  <2>2. calls[r][i] \in Calls
    BY <2>1
  <2> QED
    BY <2>2 DEF Calls
<1> QED
  BY <1>1 DEF CallsOK

\* A command of w is taken from its queue; what it does to w is as a session command
\* does it, and only a logout leaves w with a token and signed out.
LEMMA ServeLife ==
  ASSUME ConnInv, LifeOK, NEW w \in Sockets, NEW type, Serves(w, type),
         UNCHANGED <<state, conn, phase, pending, leaving>>, strayed \subseteq strayed',
         \A x \in Sockets \ {w} :
           token'[x] = token[x] /\ signed'[x] = signed[x] /\ busy'[x] = busy[x],
         signed'[w] # None /\ state[w] = "closed" => signed'[w] \in strayed',
         state[w] = "open" /\ token'[w] # None /\ signed'[w] = None => type = "logout"
  PROVE  LifeOK' /\ state[w] # "new"
<1>1. /\ queue[w] \in Seq(Sent) /\ queue[w] # <<>> /\ Head(queue[w]).type = type
      /\ queue' = [queue EXCEPT ![w] = Tail(queue[w])] /\ queue \in [Sockets -> Seq(Sent)]
  BY DEF ConnInv, WireOK, Serves
<1>2. state[w] # "new"
  BY <1>1 DEF LifeOK
<1>3. /\ Len(queue[w]) \in Nat \ {0} /\ Head(queue[w]) = queue[w][1] /\ 1 \in DOMAIN queue[w]
      /\ Tail(queue[w]) \in Seq(Sent) /\ Len(Tail(queue[w])) = Len(queue[w]) - 1
      /\ \A i \in DOMAIN Tail(queue[w]) :
           Tail(queue[w])[i] = queue[w][i + 1] /\ i + 1 \in DOMAIN queue[w] /\ i \in Nat
  BY <1>1
<1>4. \A x \in Sockets : Silent(x)' <=> Silent(x)
  BY DEF Silent
<1>5. ASSUME NEW i \in DOMAIN queue'[w], queue'[w][i].type = "logout"
      PROVE  i = Len(queue'[w]) /\ Silent(w)
  <2>1. i \in Nat /\ queue[w][i + 1].type = "logout" /\ i + 1 \in DOMAIN queue[w]
    BY <1>1, <1>3, <1>5
  <2>2. i + 1 = Len(queue[w]) /\ Silent(w)
    BY <2>1 DEF LifeOK
  <2>3. Len(queue'[w]) = Len(queue[w]) - 1
    BY <1>1, <1>3
  <2> QED
    BY <1>3, <2>1, <2>2, <2>3
<1>6. ASSUME state[w] = "open", token'[w] # None, signed'[w] = None
      PROVE  queue'[w] = <<>> /\ Silent(w)
  <2>1. queue[w][1].type = "logout"
    BY <1>1, <1>3, <1>6
  <2>2. Len(queue[w]) = 1 /\ Silent(w)
    BY <1>3, <2>1 DEF LifeOK
  <2> QED
    BY <1>1, <1>3, <2>2
<1>7. ASSUME NEW x \in Sockets
      PROVE  /\ state'[x] = "new" =>
                  /\ token'[x] = None /\ signed'[x] = None /\ queue'[x] = <<>> /\ busy'[x] = Idle
                  /\ \A c \in Clients : conn'[c] # x
             /\ state'[x] # "closed" => leaving'[x] = Nothing
             /\ signed'[x] # None /\ state'[x] = "closed" => signed'[x] \in strayed'
             /\ \A i \in DOMAIN queue'[x] :
                  queue'[x][i].type = "logout" => i = Len(queue'[x]) /\ Silent(x)'
             /\ state'[x] = "open" /\ token'[x] # None /\ signed'[x] = None =>
                  queue'[x] = <<>> /\ Silent(x)'
  <2>1. CASE x = w
    BY <1>2, <1>4, <1>5, <1>6, <2>1 DEF LifeOK
  <2>2. CASE x # w
    <3>1. queue'[x] = queue[x]
      BY <1>1, <2>2
    <3> QED
      BY <1>4, <2>2, <3>1 DEF LifeOK
  <2> QED
    BY <2>1, <2>2
<1> QED
  BY <1>2, <1>7 DEF LifeOK

\* A socket is signed in, whoever it was before.
LEMMA SignInPresence ==
  ASSUME ConnInv, PresInv, NEW w \in Sockets, NEW u \in Users, NEW t, NEW type,
         Serves(w, type), AddClient(w, u, t), Strays(w, u),
         UNCHANGED <<state, busy, leaving, calls, connected, conn, phase, pending>>
  PROVE  PresInv'
<1> USE NothingTyped
<1>1. /\ PresenceTyped /\ LifeOK /\ ServedAsSelf /\ CallsOK /\ SubscribedAsSelf /\ GoneInv /\ HereInv
      /\ SocketsOK /\ busy[w] = Idle
  BY DEF PresInv, ConnInv, Serves
<1>2. /\ player' = [player EXCEPT ![w] = u] /\ signed' = [signed EXCEPT ![w] = u]
      /\ token' = [token EXCEPT ![w] = t]
      /\ subs' = IF player[w] = None THEN subs ELSE Unsubscribed(w)
  BY DEF AddClient
<1>3. /\ player \in [Sockets -> Users \cup {None}] /\ signed \in [Sockets -> Users \cup {None}]
      /\ DOMAIN token = Sockets
  BY <1>1 DEF SocketsOK
<1>4. /\ player'[w] = u /\ signed'[w] = u
      /\ \A x \in Sockets \ {w} : player'[x] = player[x] /\ signed'[x] = signed[x] /\ token'[x] = token[x]
  BY <1>2, <1>3
<1>5. /\ strayed \subseteq strayed' /\ overtaken \subseteq overtaken'
      /\ state[w] = "closed" => u \in strayed'
      /\ player[w] # None /\ player[w] # u => player[w] \in strayed'
      /\ (\E x \in Sockets : leaving[x].user = u /\ Len(leaving[x].rooms) > 1) => u \in overtaken'
      /\ strayed' \subseteq Users /\ overtaken' \subseteq Users
  BY <1>1, <1>3 DEF Strays, PresenceTyped
<1>6. subs' \subseteq subs /\ \A b \in subs' : b.socket \in Sockets \ {w}
  <2>1. \A b \in subs : b.socket \in Sockets /\ b.user \in Users /\ player[b.socket] = b.user
    BY <1>1 DEF PresenceTyped, SubscribedAsSelf
  <2>2. CASE player[w] = None
    BY <1>2, <2>1, <2>2
  <2>3. CASE player[w] # None
    BY <1>2, <2>1, <2>3 DEF Unsubscribed
  <2> QED
    BY <2>2, <2>3
<1>7. PresenceTyped'
  <2>1. subs' \subseteq [room : RoomSet, socket : Sockets, user : Users]
    BY <1>1, <1>6 DEF PresenceTyped
  <2> QED
    BY <1>1, <1>5, <2>1 DEF PresenceTyped
<1>8. LifeOK'
  <2>1. signed'[w] # None /\ state[w] = "closed" => signed'[w] \in strayed'
    BY <1>4, <1>5
  <2>2. ~(state[w] = "open" /\ token'[w] # None /\ signed'[w] = None)
    BY <1>4
  <2> QED
    BY <1>1, <1>4, <1>5, <2>1, <2>2, ServeLife
<1>9. ServedAsSelf'
  BY <1>1, <1>4 DEF ServedAsSelf
<1>10. CallsOK'
  BY <1>1, CallsKept
<1>11. SubscribedAsSelf'
  BY <1>1, <1>4, <1>6 DEF SubscribedAsSelf
<1>12. GoneInv'
  <2> SUFFICES ASSUME NEW v \in Users, v \notin strayed', ~Here(v)'
               PROVE  \A r \in RoomSet : (Yet(r, v) \/ OffComes(r, v))'
    BY DEF GoneInv
  <2>1. v \notin strayed
    BY <1>5
  <2>2. ~Here(v)
    <3> SUFFICES ASSUME NEW x \in Sockets, state[x] = "open", player[x] = v PROVE FALSE
      BY DEF Here
    <3>1. CASE x = w
      <4>1. v = u
        BY <1>5, <3>1
      <4> QED
        BY <1>4, <3>1, <4>1 DEF Here
    <3>2. CASE x # w
      BY <1>4, <3>2 DEF Here
    <3> QED
      BY <3>1, <3>2
  <2>3. \A r \in RoomSet : Yet(r, v) \/ OffComes(r, v)
    BY <1>1, <2>1, <2>2 DEF GoneInv
  <2> QED
    BY <2>3 DEF Yet, OffComes, OffAfter
<1>13. OneRoomLeft'
  <2> SUFFICES ASSUME NEW x \in Sockets, NEW y \in Sockets, state[x] = "open", signed'[x] # None,
                      signed'[x] \notin overtaken', leaving[y].user = signed'[x]
               PROVE  Len(leaving[y].rooms) <= 1
    BY DEF OneRoomLeft
  <2>1. leaving[y].rooms \in Seq(RoomSet)
    BY <1>1 DEF PresenceTyped, Leavings
  <2>2. CASE x = w
    BY <1>4, <1>5, <2>1, <2>2
  <2>3. CASE x # w
    BY <1>1, <1>4, <1>5, <2>3 DEF HereInv, OneRoomLeft
  <2> QED
    BY <2>2, <2>3
<1>14. DispatchedShown' /\ ListenersShown' /\ QueuedLast'
  BY <1>1, <1>5, <1>6 DEF HereInv, DispatchedShown, ListenersShown, QueuedLast, Shown, OffAfter
<1> QED
  BY <1>7, <1>8, <1>9, <1>10, <1>11, <1>12, <1>13, <1>14 DEF PresInv, HereInv

\* A command that is refused changes no socket.
LEMMA RefusedPresence ==
  ASSUME ConnInv, PresInv, NEW w \in Sockets, NEW type, Serves(w, type), SameSockets,
         UNCHANGED <<state, busy, leaving, calls, connected, conn, phase, pending>>
  PROVE  PresInv'
<1>1. /\ PresenceTyped /\ LifeOK /\ ServedAsSelf /\ CallsOK /\ SubscribedAsSelf /\ GoneInv /\ HereInv
  BY DEF PresInv
<1>2. UNCHANGED <<player, token, signed, subs, strayed, overtaken>>
  BY DEF SameSockets, history
<1>3. PresenceTyped'
  BY <1>1, <1>2 DEF PresenceTyped
<1>4. LifeOK'
  <2>1. ~(state[w] = "open" /\ token'[w] # None /\ signed'[w] = None)
    BY <1>1, <1>2 DEF LifeOK, Serves
  <2>2. signed'[w] # None /\ state[w] = "closed" => signed'[w] \in strayed'
    BY <1>1, <1>2 DEF LifeOK
  <2> QED
    BY <1>1, <1>2, <2>1, <2>2, ServeLife
<1>5. ServedAsSelf' /\ CallsOK' /\ SubscribedAsSelf' /\ GoneInv' /\ HereInv'
  BY <1>1, <1>2, PresenceKept
<1> QED
  BY <1>3, <1>4, <1>5 DEF PresInv

\* A socket that signs out listens to nothing.
LEMMA LogoutPresence ==
  ASSUME ConnInv, PresInv, NEW w \in Sockets, Serves(w, "logout"), RemoveClient(w),
         UNCHANGED history,
         UNCHANGED <<state, busy, leaving, calls, connected, conn, phase, pending>>
  PROVE  PresInv'
<1> USE NothingTyped
<1>1. /\ PresenceTyped /\ LifeOK /\ ServedAsSelf /\ CallsOK /\ SubscribedAsSelf /\ GoneInv /\ HereInv
      /\ SocketsOK /\ busy[w] = Idle
  BY DEF PresInv, ConnInv, Serves
<1>2. /\ UNCHANGED <<player, token, strayed, overtaken>>
      /\ signed'[w] = None /\ \A x \in Sockets \ {w} : signed'[x] = signed[x]
      /\ subs' \subseteq subs /\ \A b \in subs' : b.socket # w
  BY <1>1 DEF RemoveClient, Unsubscribed, history, SocketsOK
<1>3. PresenceTyped'
  BY <1>1, <1>2 DEF PresenceTyped
<1>4. LifeOK'
  BY <1>1, <1>2, ServeLife
<1>5. ServedAsSelf'
  BY <1>1, <1>2 DEF ServedAsSelf
<1>6. CallsOK'
  BY <1>1, CallsKept
<1>7. SubscribedAsSelf'
  <2>1. \A b \in subs' : b.socket \in Sockets \ {w}
    BY <1>1, <1>2 DEF PresenceTyped
  <2> QED
    BY <1>1, <1>2, <2>1 DEF SubscribedAsSelf
<1>8. GoneInv'
  BY <1>1, <1>2 DEF GoneInv, Here, Yet, OffComes, OffAfter
<1>9. OneRoomLeft'
  BY <1>1, <1>2 DEF HereInv, OneRoomLeft
<1>10. DispatchedShown' /\ ListenersShown' /\ QueuedLast'
  BY <1>1, <1>2 DEF HereInv, DispatchedShown, ListenersShown, QueuedLast, Shown, OffAfter
<1> QED
  BY <1>3, <1>4, <1>5, <1>6, <1>7, <1>8, <1>9, <1>10 DEF PresInv, HereInv

\* A reconnect is begun for the player of the socket's token, who is the socket's.
LEMMA ReconnectPresence ==
  ASSUME ConnInv, PresInv, NEW w \in Sockets, ServeReconnect(w)
  PROVE  PresInv'
<1> USE NothingTyped
<1>1. /\ PresenceTyped /\ LifeOK /\ ServedAsSelf /\ CallsOK /\ SubscribedAsSelf /\ GoneInv /\ HereInv
      /\ SocketsOK /\ WireOK /\ AuthInv /\ busy[w] = Idle /\ Serves(w, "reconnect")
  BY DEF PresInv, ConnInv, Serves, ServeReconnect
<1>2. UNCHANGED <<state, leaving, token, signed, clients, subs, calls, connected, conn, phase, pending>>
  BY DEF ServeReconnect, presence, client
<1>3. Arg(w) \in RoomSet
  BY <1>1, ServedIsSent, ArgTypes
<1>4. state[w] = "open" /\ token[w] # None => signed[w] = player[w]
  <2>1. queue[w] # <<>>
    BY <1>1 DEF Serves
  <2> QED
    BY <1>1, <2>1 DEF LifeOK, SocketsOK, SignedAsPlayer
<1>5. CASE ~(token[w] # None /\ Accepts(token[w]))
  <2>1. UNCHANGED <<player, busy, history>>
    BY <1>5 DEF ServeReconnect
  <2> QED
    BY <1>1, <1>2, <2>1, RefusedPresence DEF SameSockets
<1>6. CASE token[w] # None /\ Accepts(token[w])
  <2> DEFINE u == owner[token[w][1]]
             b == [step |-> "recovering", user |-> u, room |-> Arg(w)]
  <2>1. u = player[w] /\ u \in Users
    <3>1. u = player[w] /\ player[w] # None /\ player[w] \in Users \cup {None}
      BY <1>1, <1>6 DEF SocketsOK, SignedAsPlayer
    <3> QED
      BY <3>1
  <2>2. player' = [player EXCEPT ![w] = u] /\ busy' = [busy EXCEPT ![w] = b] /\ Strays(w, u)
    BY <1>6 DEF ServeReconnect
  <2> HIDE DEF u
  <2>3. b \in BusyStates /\ b.step = "recovering" /\ b.user = u /\ b.room \in RoomSet
    BY <1>3, <2>1 DEF BusyStates
  <2> HIDE DEF b
  <2>4. UNCHANGED player
    BY <1>1, <2>1, <2>2 DEF SocketsOK
  <2>5. /\ busy' \in [Sockets -> BusyStates] /\ busy'[w] = b
        /\ \A x \in Sockets \ {w} : busy'[x] = busy[x]
    BY <1>1, <2>2, <2>3 DEF PresenceTyped
  <2>6. /\ strayed \subseteq strayed' /\ overtaken \subseteq overtaken'
        /\ strayed' \subseteq Users /\ overtaken' \subseteq Users
    BY <1>1, <2>1, <2>2 DEF Strays, PresenceTyped, SocketsOK
  <2>7. PresenceTyped'
    BY <1>1, <1>2, <2>5, <2>6 DEF PresenceTyped
  <2>8. LifeOK'
    <3>1. signed'[w] # None /\ state[w] = "closed" => signed'[w] \in strayed'
      BY <1>1, <1>2, <2>6 DEF LifeOK
    <3>2. ~(state[w] = "open" /\ token'[w] # None /\ signed'[w] = None)
      BY <1>2, <1>4, <2>1
    <3> QED
      BY <1>1, <1>2, <2>5, <2>6, <3>1, <3>2, ServeLife
  <2>9. ServedAsSelf'
    BY <1>1, <1>2, <1>4, <1>6, <2>1, <2>3, <2>4, <2>5 DEF ServedAsSelf
  <2>10. CallsOK'
    BY <1>1, <1>2, <2>5, CallsKept
  <2>11. SubscribedAsSelf'
    BY <1>1, <1>2, <2>4 DEF SubscribedAsSelf
  <2>12. GoneInv'
    BY <1>1, <1>2, <2>4, <2>6 DEF GoneInv, Here, Yet, OffComes, OffAfter
  <2>13. OneRoomLeft' /\ ListenersShown' /\ QueuedLast'
    BY <1>1, <1>2, <2>6 DEF HereInv, OneRoomLeft, ListenersShown, QueuedLast, Shown, OffAfter
  <2>14. DispatchedShown'
    BY <1>1, <1>2, <2>3, <2>5, <2>6 DEF HereInv, DispatchedShown, Shown, OffAfter
  <2> QED
    BY <2>7, <2>8, <2>9, <2>10, <2>11, <2>12, <2>13, <2>14 DEF PresInv, HereInv
<1> QED
  BY <1>5, <1>6

LEMMA ServePresence ==
  ASSUME ConnInv, PresInv, NEW w \in Sockets,
         ServeLogin(w) \/ ServeRefresh(w) \/ ServeAuth(w) \/ ServeLogout(w) \/ ServeReconnect(w)
  PROVE  PresInv'
<1>1. WireOK /\ AuthInv
  BY DEF ConnInv
<1>2. CASE ServeLogin(w) \/ ServeRefresh(w) \/ ServeAuth(w) \/ ServeLogout(w)
  <2>1. UNCHANGED <<state, busy, leaving, calls, connected, conn, phase, pending>>
    BY <1>2 DEF ServeLogin, ServeRefresh, ServeAuth, ServeLogout, presence, client
  <2>2. CASE ServeLogin(w)
    <3>1. Serves(w, "login") /\ Arg(w) \in Users
      BY <1>1, <2>2, ServedIsSent, ArgTypes DEF ServeLogin
    <3>2. SameSockets \/ \E t : AddClient(w, Arg(w), t) /\ Strays(w, Arg(w))
      BY <2>2 DEF ServeLogin, SignIn
    <3> QED
      BY <2>1, <3>1, <3>2, SignInPresence, RefusedPresence
  <2>3. CASE ServeRefresh(w)
    <3>1. Serves(w, "refresh") /\ Arg(w) \in Tokens
      BY <1>1, <2>3, ServedIsSent, ArgTypes DEF ServeRefresh
    <3>2. CASE SameSockets
      BY <2>1, <3>1, <3>2, RefusedPresence
    <3>3. CASE /\ Exchange(Arg(w))
               /\ SignIn(w, owner[Arg(w)[1]], <<Arg(w)[1], issued'[Arg(w)[1]]>>)
      <4>1. owner[Arg(w)[1]] \in Users
        BY <1>1, <3>1, <3>3, TokenHasUser DEF Exchange, Exchangeable
      <4> QED
        BY <2>1, <3>1, <3>3, <4>1, SignInPresence DEF SignIn
    <3> QED
      BY <2>3, <3>2, <3>3 DEF ServeRefresh
  <2>4. CASE ServeAuth(w)
    <3>1. Serves(w, "auth") /\ Arg(w) \in Tokens
      BY <1>1, <2>4, ServedIsSent, ArgTypes DEF ServeAuth
    <3>2. CASE Accepts(Arg(w))
      <4>1. owner[Arg(w)[1]] \in Users
        BY <1>1, <3>1, <3>2, TokenHasUser DEF Accepts
      <4>2. SignIn(w, owner[Arg(w)[1]], Arg(w))
        BY <2>4, <3>2 DEF ServeAuth
      <4> QED
        BY <2>1, <3>1, <4>1, <4>2, SignInPresence DEF SignIn
    <3>3. CASE ~Accepts(Arg(w))
      BY <2>1, <2>4, <3>1, <3>3, RefusedPresence DEF ServeAuth
    <3> QED
      BY <3>2, <3>3
  <2>5. CASE ServeLogout(w)
    <3>1. Serves(w, "logout") /\ (SameSockets \/ (RemoveClient(w) /\ UNCHANGED history))
      BY <2>5 DEF ServeLogout
    <3> QED
      BY <2>1, <3>1, LogoutPresence, RefusedPresence
  <2> QED
    BY <1>2, <2>2, <2>3, <2>4, <2>5
<1> QED
  BY <1>2, ReconnectPresence

-----------------------------------------------------------------------------
\* The queue of r loses its first d calls, and may get one more at the end.
Moved(r, d) ==
  /\ d <= Len(calls[r])
  /\ \A i \in 1..(Len(calls[r]) - d) : calls'[r][i] = calls[r][i + d]
Shifted(r, d) == Moved(r, d) /\ DOMAIN calls'[r] = 1..(Len(calls[r]) - d)
Extended(r, d, call) ==
  /\ Moved(r, d)
  /\ DOMAIN calls'[r] = 1..(Len(calls[r]) - d + 1)
  /\ calls'[r][Len(calls[r]) - d + 1] = call

LEMMA CallTyped ==
  ASSUME PresenceTyped, NEW r \in RoomSet
  PROVE  /\ Len(calls[r]) \in Nat /\ DOMAIN calls[r] = 1..Len(calls[r])
         /\ \A i \in DOMAIN calls[r] :
              calls[r][i].socket \in Sockets /\ calls[r][i].user \in Users /\ i \in Nat \ {0}
<1>1. calls[r] \in Seq(Calls)
  BY DEF PresenceTyped
<1>2. \A i \in DOMAIN calls[r] : calls[r][i] \in Calls
  BY <1>1
<1> QED
  BY <1>1, <1>2 DEF Calls

LEMMA MovedIs ==
  ASSUME PresenceTyped, NEW r \in RoomSet, NEW d \in {0, 1}, NEW e,
         Shifted(r, d) \/ Extended(r, d, e)
  PROVE  /\ \A i \in DOMAIN calls'[r] :
              /\ i \in Nat \ {0} /\ i + d <= Len(calls[r]) + 1
              /\ \/ i + d \in DOMAIN calls[r] /\ calls'[r][i] = calls[r][i + d]
                 \/ Extended(r, d, e) /\ calls'[r][i] = e /\ i + d = Len(calls[r]) + 1
         /\ \A i \in DOMAIN calls[r] :
              i > d => i - d \in DOMAIN calls'[r] /\ calls'[r][i - d] = calls[r][i]
<1>1. Len(calls[r]) \in Nat /\ DOMAIN calls[r] = 1..Len(calls[r])
  BY CallTyped
<1> DEFINE n == Len(calls[r])
<1>2. CASE Shifted(r, d)
  <2>1. /\ DOMAIN calls'[r] = 1..(n - d) /\ d <= n
        /\ \A i \in 1..(n - d) : calls'[r][i] = calls[r][i + d]
    BY <1>2 DEF Shifted, Moved
  <2>2. \A i \in 1..(n - d) : i \in Nat \ {0} /\ i + d <= n + 1 /\ i + d \in 1..n
    BY <1>1, <2>1
  <2>3. \A i \in 1..n : i > d => i - d \in 1..(n - d) /\ (i - d) + d = i
    BY <1>1, <2>1
  <2> HIDE DEF n
  <2>4. ASSUME NEW i \in 1..n, i > d
        PROVE  i - d \in DOMAIN calls'[r] /\ calls'[r][i - d] = calls[r][i]
    BY <2>1, <2>3, <2>4
  <2> QED
    BY <1>1, <2>1, <2>2, <2>4 DEF n
<1>3. CASE Extended(r, d, e)
  <2>1. /\ DOMAIN calls'[r] = 1..(n - d + 1) /\ calls'[r][n - d + 1] = e /\ d <= n
        /\ \A i \in 1..(n - d) : calls'[r][i] = calls[r][i + d]
    BY <1>3 DEF Extended, Moved
  <2>2. ASSUME NEW i \in 1..(n - d + 1)
        PROVE  /\ i \in Nat \ {0} /\ i + d <= n + 1
               /\ (i \in 1..(n - d) /\ i + d \in 1..n) \/ (i = n - d + 1 /\ i + d = n + 1)
    BY <1>1, <2>1
  <2>3. ASSUME NEW i \in 1..n, i > d PROVE i - d \in 1..(n - d) /\ (i - d) + d = i
    BY <1>1, <2>1, <2>3
  <2>4. 1..(n - d) \subseteq 1..(n - d + 1)
    BY <1>1, <2>1
  <2> HIDE DEF n
  <2>5. ASSUME NEW i \in DOMAIN calls'[r]
        PROVE  /\ i \in Nat \ {0} /\ i + d <= n + 1
               /\ \/ i + d \in 1..n /\ calls'[r][i] = calls[r][i + d]
                  \/ calls'[r][i] = e /\ i + d = n + 1
    BY <2>1, <2>2
  <2>6. ASSUME NEW i \in 1..n, i > d
        PROVE  i - d \in DOMAIN calls'[r] /\ calls'[r][i - d] = calls[r][i]
    <3>1. i - d \in 1..(n - d) /\ (i - d) + d = i
      BY <2>3, <2>6
    <3>2. calls'[r][i - d] = calls[r][(i - d) + d]
      BY <2>1, <3>1
    <3> QED
      BY <2>1, <2>4, <3>1, <3>2
  <2> QED
    BY <1>1, <1>3, <2>5, <2>6 DEF n
<1> QED
  BY <1>2, <1>3

LEMMA OffMoves ==
  ASSUME PresenceTyped, NEW r \in RoomSet, NEW d \in {0, 1}, NEW e,
         Shifted(r, d) \/ Extended(r, d, e), NEW v, NEW i \in Nat
  PROVE  /\ OffAfter(r, v, i + d) => OffAfter(r, v, i)'
         /\ OffAfter(r, v, i)' =>
              OffAfter(r, v, i + d) \/ (Extended(r, d, e) /\ e.user = v /\ ~e.on)
         /\ Extended(r, d, e) /\ e.user = v /\ ~e.on /\ i + d <= Len(calls[r]) =>
              OffAfter(r, v, i)'
<1>1. /\ \A j \in DOMAIN calls'[r] :
           /\ j \in Nat \ {0} /\ j + d <= Len(calls[r]) + 1
           /\ \/ j + d \in DOMAIN calls[r] /\ calls'[r][j] = calls[r][j + d]
              \/ Extended(r, d, e) /\ calls'[r][j] = e /\ j + d = Len(calls[r]) + 1
      /\ \A j \in DOMAIN calls[r] :
           j > d => j - d \in DOMAIN calls'[r] /\ calls'[r][j - d] = calls[r][j]
  BY MovedIs
<1>2. Len(calls[r]) \in Nat /\ \A j \in DOMAIN calls[r] : j \in Nat \ {0}
  BY CallTyped
<1>3. ASSUME OffAfter(r, v, i + d) PROVE OffAfter(r, v, i)'
  <2>1. PICK j \in DOMAIN calls[r] : j > i + d /\ calls[r][j].user = v /\ ~calls[r][j].on
    BY <1>3 DEF OffAfter
  <2>2. j > d /\ j - d > i
    BY <1>2, <2>1
  <2> QED
    BY <1>1, <2>1, <2>2 DEF OffAfter
<1>4. ASSUME OffAfter(r, v, i)'
      PROVE  OffAfter(r, v, i + d) \/ (Extended(r, d, e) /\ e.user = v /\ ~e.on)
  <2>1. PICK j \in DOMAIN calls'[r] : j > i /\ calls'[r][j].user = v /\ ~calls'[r][j].on
    BY <1>4 DEF OffAfter
  <2>2. CASE j + d \in DOMAIN calls[r] /\ calls'[r][j] = calls[r][j + d]
    <3>1. j + d > i + d
      BY <1>1, <2>1
    <3> QED
      BY <2>1, <2>2, <3>1 DEF OffAfter
  <2>3. CASE Extended(r, d, e) /\ calls'[r][j] = e
    BY <2>1, <2>3
  <2> QED
    BY <1>1, <2>2, <2>3
<1>5. ASSUME Extended(r, d, e), e.user = v, ~e.on, i + d <= Len(calls[r])
      PROVE  OffAfter(r, v, i)'
  <2> DEFINE j == Len(calls[r]) - d + 1
  <2>1. j \in DOMAIN calls'[r] /\ calls'[r][j] = e /\ j > i
    BY <1>2, <1>5 DEF Extended, Moved
  <2> QED
    BY <1>5, <2>1 DEF OffAfter
<1> QED
  BY <1>3, <1>4, <1>5

\* All queues at once: that of r loses what d says, and that of re gets e, if it adds.
Step(d, adds, re, e) ==
  \A q \in RoomSet : Shifted(q, d[q]) \/ (adds /\ q = re /\ Extended(q, d[q], e))

LEMMA CallsMoved ==
  ASSUME PresenceTyped, CallsOK, NEW d \in [RoomSet -> {0, 1}], NEW adds, NEW re,
         NEW e, Step(d, adds, re, e),
         \A q \in RoomSet : \A i \in DOMAIN calls[q] : i > d[q] =>
           /\ adds => ~(calls[q][i].socket = e.socket /\ (calls[q][i].on <=> e.on))
           /\ calls[q][i].on => busy'[calls[q][i].socket] = busy[calls[q][i].socket]
           /\ ~calls[q][i].on => leaving'[calls[q][i].socket] = leaving[calls[q][i].socket],
         adds => /\ e.on => /\ busy'[e.socket].step = "queued"
                            /\ busy'[e.socket].user = e.user /\ busy'[e.socket].room = re
                 /\ ~e.on => /\ leaving'[e.socket].user = e.user
                             /\ leaving'[e.socket].rooms # <<>>
                             /\ Head(leaving'[e.socket].rooms) = re
  PROVE  CallsOK'
<1>1. ASSUME NEW q \in RoomSet, NEW i \in DOMAIN calls'[q]
      PROVE  /\ i \in Nat
             /\ \/ /\ i + d[q] \in DOMAIN calls[q] /\ i + d[q] > d[q]
                   /\ calls'[q][i] = calls[q][i + d[q]]
                \/ adds /\ q = re /\ calls'[q][i] = e /\ i + d[q] = Len(calls[q]) + 1
  <2>1. d[q] \in {0, 1}
    OBVIOUS
  <2>2. CASE Shifted(q, d[q])
    <3>1. ~Extended(q, d[q], e)
      BY <2>1, <2>2, CallTyped DEF Shifted, Extended, Moved
    <3> QED
      BY <2>1, <2>2, <3>1, MovedIs
  <2>3. CASE adds /\ q = re /\ Extended(q, d[q], e)
    BY <2>1, <2>3, MovedIs
  <2> QED
    BY <2>2, <2>3 DEF Step
<1>2. ASSUME NEW q \in RoomSet, NEW i \in DOMAIN calls'[q]
      PROVE  /\ calls'[q][i].on =>
                  /\ busy'[calls'[q][i].socket].step = "queued"
                  /\ busy'[calls'[q][i].socket].user = calls'[q][i].user
                  /\ busy'[calls'[q][i].socket].room = q
             /\ ~calls'[q][i].on =>
                  /\ leaving'[calls'[q][i].socket].user = calls'[q][i].user
                  /\ leaving'[calls'[q][i].socket].rooms # <<>>
                  /\ Head(leaving'[calls'[q][i].socket].rooms) = q
  <2>1. CASE /\ i + d[q] \in DOMAIN calls[q] /\ i + d[q] > d[q]
             /\ calls'[q][i] = calls[q][i + d[q]]
    BY SMTT(30), <2>1 DEF CallsOK
  <2>2. CASE adds /\ q = re /\ calls'[q][i] = e
    BY <2>2
  <2> QED
    BY SMTT(30), <1>1, <2>1, <2>2
<1>3. ASSUME NEW q \in RoomSet, NEW p \in RoomSet,
             NEW i \in DOMAIN calls'[q], NEW j \in DOMAIN calls'[p],
             calls'[q][i].socket = calls'[p][j].socket, calls'[q][i].on <=> calls'[p][j].on
      PROVE  q = p /\ i = j
  <2> DEFINE Old(r, k) == /\ k + d[r] \in DOMAIN calls[r] /\ k + d[r] > d[r]
                          /\ calls'[r][k] = calls[r][k + d[r]]
             New(r, k) == adds /\ r = re /\ calls'[r][k] = e /\ k + d[r] = Len(calls[r]) + 1
  <2>1. /\ i \in Nat /\ j \in Nat /\ d[q] \in Nat /\ d[p] \in Nat
        /\ Old(q, i) \/ New(q, i)
        /\ Old(p, j) \/ New(p, j)
    <3>1. d[q] \in {0, 1} /\ d[p] \in {0, 1}
      OBVIOUS
    <3> QED
      BY <1>1, <3>1
  <2>2. CASE Old(q, i) /\ Old(p, j)
    <3>1. q = p /\ i + d[q] = j + d[p]
      BY SMTT(30), <1>3, <2>2 DEF CallsOK
    <3> QED
      BY <2>1, <3>1
  <2>3. CASE New(q, i) /\ New(p, j)
    <3>1. q = p /\ i + d[q] = j + d[p]
      BY <2>3
    <3> QED
      BY <2>1, <3>1
  <2>4. CASE (Old(q, i) /\ New(p, j)) \/ (New(q, i) /\ Old(p, j))
    BY <1>3, <2>4
  <2> QED
    BY <2>1, <2>2, <2>3, <2>4
<1> QED
  BY <1>2, <1>3 DEF CallsOK

\* What rooms show of players who are here does not change by a call that goes, nor by
\* one that comes, unless it tells of a player who is here.
LEMMA ShownMoves ==
  ASSUME PresenceTyped, NEW d \in [RoomSet -> {0, 1}], NEW adds, NEW re,
         NEW e, Step(d, adds, re, e), NEW q \in RoomSet, NEW v \in Users, Shown(q, v),
         adds => e.on \/ e.user # v,
         <<q, v>> \notin connected' =>
           /\ d[q] = 1
           /\ calls[q][1].user = v /\ ~calls[q][1].on
  PROVE  Shown(q, v)'
<1>1. d[q] \in {0, 1}
  OBVIOUS
<1>2. Len(calls[q]) \in Nat /\ DOMAIN calls[q] = 1..Len(calls[q])
  BY CallTyped
<1>3. d[q] <= Len(calls[q])
  BY DEF Step, Shifted, Extended, Moved
<1>4. <<q, v>> \in connected'
  <2> SUFFICES ASSUME <<q, v>> \notin connected' PROVE FALSE
    OBVIOUS
  <2>1. 1 \in DOMAIN calls[q] /\ 1 > 0
    BY <1>2, <1>3
  <2>2. OffAfter(q, v, 0)
    BY <2>1 DEF OffAfter
  <2> QED
    BY <2>2 DEF Shown
<1>5. ~OffAfter(q, v, 0)'
  <2> SUFFICES ASSUME OffAfter(q, v, 0)' PROVE FALSE
    OBVIOUS
  <2>1. OffAfter(q, v, 0 + d[q])
    <3>1. CASE Shifted(q, d[q])
      <4>1. ~Extended(q, d[q], e)
        BY <1>1, <1>2, <3>1 DEF Shifted, Extended, Moved
      <4> QED
        BY <1>1, <3>1, <4>1, OffMoves
    <3>2. CASE adds /\ Extended(q, d[q], e)
      BY <1>1, <3>2, OffMoves
    <3> QED
      BY <3>1, <3>2 DEF Step
  <2>2. OffAfter(q, v, 0)
    BY <1>1, <1>2, <2>1 DEF OffAfter
  <2> QED
    BY <2>2 DEF Shown
<1> QED
  BY <1>4, <1>5 DEF Shown

LEMMA QueuedMoves ==
  ASSUME PresenceTyped, CallsOK, ServedAsSelf, QueuedLast,
         NEW d \in [RoomSet -> {0, 1}], NEW adds, NEW re,
         NEW e, Step(d, adds, re, e), overtaken' = overtaken,
         \A w \in Sockets : state'[w] = "open" => state[w] = "open",
         \A w \in Sockets :
           state'[w] = "open" /\ signed[w] # None /\ signed[w] \notin overtaken /\ adds
             => e.on \/ e.user # signed[w]
  PROVE  QueuedLast'
<1> SUFFICES ASSUME NEW q \in RoomSet, NEW i \in DOMAIN calls'[q], calls'[q][i].on,
                    state'[calls'[q][i].socket] = "open",
                    NEW v, v = calls'[q][i].user, v \notin overtaken, OffAfter(q, v, i)'
             PROVE  FALSE
  BY DEF QueuedLast, OffAfter
<1>1. d[q] \in {0, 1} /\ Len(calls[q]) \in Nat
  BY CallTyped
<1>2. /\ i \in Nat
      /\ \/ i + d[q] \in DOMAIN calls[q] /\ calls'[q][i] = calls[q][i + d[q]]
         \/ adds /\ calls'[q][i] = e /\ i + d[q] = Len(calls[q]) + 1
      /\ OffAfter(q, v, i + d[q]) \/ (adds /\ e.user = v /\ ~e.on)
  <2>1. CASE Shifted(q, d[q])
    <3>1. ~Extended(q, d[q], e)
      BY <1>1, <2>1, CallTyped DEF Shifted, Extended, Moved
    <3>2. /\ i \in Nat
          /\ i + d[q] \in DOMAIN calls[q] /\ calls'[q][i] = calls[q][i + d[q]]
      BY <1>1, <2>1, <3>1, MovedIs
    <3>3. OffAfter(q, v, i + d[q])
      BY <1>1, <2>1, <3>1, <3>2, OffMoves
    <3> QED
      BY <3>2, <3>3
  <2>2. CASE adds /\ Extended(q, d[q], e)
    <3>1. /\ i \in Nat
          /\ \/ i + d[q] \in DOMAIN calls[q] /\ calls'[q][i] = calls[q][i + d[q]]
             \/ calls'[q][i] = e /\ i + d[q] = Len(calls[q]) + 1
      BY <1>1, <2>2, MovedIs
    <3>2. OffAfter(q, v, i + d[q]) \/ (e.user = v /\ ~e.on)
      BY <1>1, <2>2, <3>1, OffMoves
    <3> QED
      BY <2>2, <3>1, <3>2
  <2> QED
    BY <2>1, <2>2 DEF Step
<1>3. CASE i + d[q] \in DOMAIN calls[q] /\ calls'[q][i] = calls[q][i + d[q]]
  <2> DEFINE k == i + d[q]
             w == calls[q][k].socket
  <2>1. /\ k \in DOMAIN calls[q] /\ calls[q][k].on /\ calls[q][k].user = v
        /\ w \in Sockets /\ v \in Users /\ state[w] = "open" /\ state'[w] = "open"
    BY <1>3, CallTyped
  <2>2. ~OffAfter(q, v, k)
    BY <2>1 DEF QueuedLast
  <2>3. signed[w] = v /\ v # None
    <3>1. busy[w].step = "queued" /\ busy[w].user = v
      BY SMTT(30), <2>1 DEF CallsOK
    <3> QED
      BY <2>1, <3>1, NothingTyped DEF ServedAsSelf
  <2> QED
    BY <1>2, <2>1, <2>2, <2>3
<1>4. CASE calls'[q][i] = e /\ i + d[q] = Len(calls[q]) + 1
  <2>1. ~OffAfter(q, v, Len(calls[q]) + 1)
    <3>1. \A j \in DOMAIN calls[q] : ~(j > Len(calls[q]) + 1)
      BY <1>1, CallTyped
    <3> QED
      BY <3>1 DEF OffAfter
  <2> QED
    BY <1>2, <1>4, <2>1
<1> QED
  BY <1>2, <1>3, <1>4

\* A room that will hear that v is gone still will, unless it just heard or v comes
\* back.
LEMMA OffComesMoves ==
  ASSUME PresenceTyped, NEW d \in [RoomSet -> {0, 1}], NEW adds, NEW re,
         NEW e, Step(d, adds, re, e), NEW q \in RoomSet, NEW v \in Users, OffComes(q, v),
         adds /\ e.on => e.user # v,
         <<q, v>> \in connected' =>
           \/ <<q, v>> \in connected
           \/ d[q] = 1 /\ calls[q][1].on /\ calls[q][1].user = v,
         d[q] = 1 /\ calls[q][1].user = v /\ ~calls[q][1].on => <<q, v>> \notin connected'
  PROVE  OffComes(q, v)'
<1>1. d[q] \in {0, 1} /\ Len(calls[q]) \in Nat /\ DOMAIN calls[q] = 1..Len(calls[q])
  BY CallTyped
<1>2. Shifted(q, d[q]) \/ (adds /\ Extended(q, d[q], e))
  BY DEF Step
<1>3. d[q] <= Len(calls[q])
  BY <1>2 DEF Shifted, Extended, Moved
<1>4. \A i \in Nat : OffAfter(q, v, i + d[q]) => OffAfter(q, v, i)'
  BY <1>1, <1>2, OffMoves
<1>5. ASSUME <<q, v>> \in connected' PROVE OffAfter(q, v, 0)'
  <2>1. CASE <<q, v>> \in connected
    <3>1. PICK j \in DOMAIN calls[q] : j > 0 /\ calls[q][j].user = v /\ ~calls[q][j].on
      BY <2>1 DEF OffComes, OffAfter
    <3>2. j > d[q]
      <4> SUFFICES ASSUME ~(j > d[q]) PROVE FALSE
        OBVIOUS
      <4>1. d[q] = 1 /\ j = 1
        BY <1>1, <3>1
      <4> QED
        BY <1>5, <3>1, <4>1
    <3>3. OffAfter(q, v, 0 + d[q])
      BY <1>1, <3>1, <3>2 DEF OffAfter
    <3> QED
      BY <1>4, <3>3
  <2>2. CASE d[q] = 1 /\ calls[q][1].on /\ calls[q][1].user = v
    <3>1. 1 \in DOMAIN calls[q]
      BY <1>1, <1>3, <2>2
    <3>2. OffAfter(q, v, 0 + d[q])
      BY <2>2, <3>1 DEF OffComes
    <3> QED
      BY <1>4, <3>2
  <2> QED
    BY <1>5, <2>1, <2>2
<1>6. ASSUME NEW i \in DOMAIN calls'[q], calls'[q][i].user = v, calls'[q][i].on
      PROVE  OffAfter(q, v, i)'
  <2>1. i \in Nat /\ i + d[q] \in DOMAIN calls[q] /\ calls'[q][i] = calls[q][i + d[q]]
    <3>1. CASE Shifted(q, d[q])
      <4>1. ~Extended(q, d[q], e)
        BY <1>1, <3>1 DEF Shifted, Extended, Moved
      <4> QED
        BY <1>1, <3>1, <4>1, MovedIs
    <3>2. CASE adds /\ Extended(q, d[q], e)
      BY <1>1, <1>6, <3>2, MovedIs
    <3> QED
      BY <1>2, <3>1, <3>2
  <2>2. OffAfter(q, v, i + d[q])
    BY <1>6, <2>1 DEF OffComes
  <2> QED
    BY <1>4, <2>1, <2>2
<1> QED
  BY <1>5, <1>6 DEF OffComes

LEMMA AppendExtends ==
  ASSUME PresenceTyped, NEW r \in RoomSet, NEW e \in Calls, calls'[r] = Append(calls[r], e)
  PROVE  Extended(r, 0, e) /\ calls'[r] \in Seq(Calls)
<1>1. calls[r] \in Seq(Calls)
  BY DEF PresenceTyped
<1> QED
  BY <1>1 DEF Extended, Moved

LEMMA SameShifts ==
  ASSUME PresenceTyped, NEW r \in RoomSet, calls'[r] = calls[r]
  PROVE  Shifted(r, 0)
<1>1. calls[r] \in Seq(Calls)
  BY DEF PresenceTyped
<1> QED
  BY <1>1 DEF Shifted, Moved

LEMMA TailShifts ==
  ASSUME PresenceTyped, NEW r \in RoomSet, calls[r] # <<>>
  PROVE  /\ Tail(calls[r]) \in Seq(Calls)
         /\ calls'[r] = Tail(calls[r]) => Shifted(r, 1)
         /\ \A e \in Calls : calls'[r] = Append(Tail(calls[r]), e) => Extended(r, 1, e)
         /\ Head(calls[r]) = calls[r][1] /\ 1 \in DOMAIN calls[r] /\ Head(calls[r]) \in Calls
<1>1. calls[r] \in Seq(Calls)
  BY DEF PresenceTyped
<1>2. /\ Tail(calls[r]) \in Seq(Calls) /\ Len(calls[r]) \in Nat \ {0}
      /\ Len(Tail(calls[r])) = Len(calls[r]) - 1
      /\ DOMAIN Tail(calls[r]) = 1..(Len(calls[r]) - 1)
      /\ \A i \in 1..(Len(calls[r]) - 1) : Tail(calls[r])[i] = calls[r][i + 1]
      /\ Head(calls[r]) = calls[r][1] /\ 1 \in DOMAIN calls[r] /\ Head(calls[r]) \in Calls
  BY <1>1
<1>3. ASSUME calls'[r] = Tail(calls[r]) PROVE Shifted(r, 1)
  BY <1>2, <1>3 DEF Shifted, Moved
<1>4. ASSUME NEW e \in Calls, calls'[r] = Append(Tail(calls[r]), e) PROVE Extended(r, 1, e)
  <2> DEFINE s == Tail(calls[r])
  <2>1. s \in Seq(Calls) /\ Len(s) = Len(calls[r]) - 1 /\ Len(calls[r]) \in Nat
    BY <1>2
  <2>2. /\ DOMAIN Append(s, e) = 1..(Len(s) + 1)
        /\ \A i \in 1..Len(s) : Append(s, e)[i] = s[i]
        /\ Append(s, e)[Len(s) + 1] = e
    <3> HIDE DEF s
    <3> QED
      BY <2>1
  <2>3. /\ DOMAIN calls'[r] = 1..(Len(calls[r]) - 1 + 1)
        /\ calls'[r][Len(calls[r]) - 1 + 1] = e
        /\ \A i \in 1..(Len(calls[r]) - 1) : calls'[r][i] = calls[r][i + 1]
    BY <1>2, <1>4, <2>1, <2>2
  <2>4. 1 <= Len(calls[r])
    BY <1>2
  <2> HIDE DEF s
  <2> QED
    BY <2>3, <2>4 DEF Extended, Moved
<1> QED
  BY <1>2, <1>3, <1>4

\* A reconnect enters the queue of its room.
LEMMA EnterPresence ==
  ASSUME ConnInv, PresInv, NEW w \in Sockets, EnterQueue(w)
  PROVE  PresInv'
<1> USE NothingTyped
<1>1. /\ PresenceTyped /\ LifeOK /\ ServedAsSelf /\ CallsOK /\ SubscribedAsSelf /\ GoneInv /\ HereInv
  BY DEF PresInv
<1> DEFINE u == busy[w].user
           re == busy[w].room
           e == [socket |-> w, user |-> u, on |-> TRUE]
           d == [q \in RoomSet |-> 0]
           adds == TRUE
<1>2. /\ busy[w].step = "recovering" /\ u \in Users /\ re \in RoomSet /\ player[w] = u
      /\ busy[w] \in BusyStates
  BY <1>1 DEF EnterQueue, ServedAsSelf, PresenceTyped
<1>3. /\ UNCHANGED <<auth, state, queue, leaving, player, token, signed, clients, subs,
                     connected, conn, phase, pending, overtaken>>
      /\ calls' = [calls EXCEPT ![re] = Append(@, e)]
      /\ busy' = [busy EXCEPT ![w].step = "queued"]
      /\ strayed' = strayed \cup (IF state[w] = "closed" THEN {u} ELSE {})
  BY DEF EnterQueue, client
<1>4. e \in Calls /\ e.socket = w /\ e.user = u /\ e.on
  <2>1. TRUE \in BOOLEAN
    OBVIOUS
  <2>2. e \in Calls
    BY <1>2, <2>1, Zenon DEF Calls
  <2> QED
    BY <2>2
<1>5. /\ busy'[w].step = "queued" /\ busy'[w].user = u /\ busy'[w].room = re
      /\ busy' \in [Sockets -> BusyStates] /\ \A x \in Sockets \ {w} : busy'[x] = busy[x]
  BY <1>1, <1>2, <1>3 DEF PresenceTyped, BusyStates
<1>6. calls'[re] = Append(calls[re], e) /\ \A q \in RoomSet \ {re} : calls'[q] = calls[q]
  BY <1>1, <1>2, <1>3 DEF PresenceTyped
<1>17. adds
  OBVIOUS
<1>7. d \in [RoomSet -> {0, 1}] /\ \A q \in RoomSet : d[q] = 0
  OBVIOUS
<1> HIDE DEF e, d, u, re, adds
<1>8. Extended(re, 0, e) /\ calls'[re] \in Seq(Calls)
  BY <1>1, <1>2, <1>4, <1>6, AppendExtends
<1>9. Step(d, adds, re, e)
  <2> SUFFICES ASSUME NEW q \in RoomSet PROVE Shifted(q, 0) \/ (q = re /\ Extended(q, 0, e))
    BY <1>7, <1>17 DEF Step
  <2>1. CASE q = re
    BY <1>8, <2>1
  <2>2. CASE q # re
    BY <1>1, <1>6, <2>2, SameShifts
  <2> QED
    BY <2>1, <2>2
<1>10. PresenceTyped'
  <2>1. calls' \in [RoomSet -> Seq(Calls)]
    BY <1>1, <1>3, <1>6, <1>8 DEF PresenceTyped
  <2>2. strayed' \subseteq Users
    BY <1>1, <1>2, <1>3 DEF PresenceTyped
  <2> QED
    BY <1>1, <1>3, <1>5, <2>1, <2>2 DEF PresenceTyped
<1>11. LifeOK'
  <2>1. \A x \in Sockets : state[x] = "new" => busy'[x] = busy[x]
    BY <1>1, <1>2, <1>5 DEF LifeOK
  <2> QED
    BY <1>1, <1>3, <2>1 DEF LifeOK, Silent
<1>12. ServedAsSelf'
  BY <1>1, <1>2, <1>3, <1>5 DEF ServedAsSelf
<1>13. CallsOK'
  <2>1. ASSUME NEW q \in RoomSet, NEW i \in DOMAIN calls[q]
        PROVE  /\ ~(calls[q][i].socket = e.socket /\ (calls[q][i].on <=> e.on))
               /\ calls[q][i].on => busy'[calls[q][i].socket] = busy[calls[q][i].socket]
    <3>1. calls[q][i].on => calls[q][i].socket # w
      BY <1>1, <1>2 DEF CallsOK
    <3>2. calls[q][i].socket \in Sockets
      BY <1>1, CallTyped
    <3> QED
      BY <1>4, <1>5, <3>1, <3>2
  <2>2. \A q \in RoomSet : \A i \in DOMAIN calls[q] : i > d[q] =>
           /\ adds => ~(calls[q][i].socket = e.socket /\ (calls[q][i].on <=> e.on))
           /\ calls[q][i].on => busy'[calls[q][i].socket] = busy[calls[q][i].socket]
           /\ ~calls[q][i].on => leaving'[calls[q][i].socket] = leaving[calls[q][i].socket]
    BY <1>3, <2>1
  <2>3. adds => /\ e.on => /\ busy'[e.socket].step = "queued"
                           /\ busy'[e.socket].user = e.user /\ busy'[e.socket].room = re
                /\ ~e.on => /\ leaving'[e.socket].user = e.user
                            /\ leaving'[e.socket].rooms # <<>>
                            /\ Head(leaving'[e.socket].rooms) = re
    BY <1>4, <1>5
  <2>4. PresenceTyped /\ CallsOK
    BY <1>1
  <2>5. d \in [RoomSet -> {0, 1}]
    BY <1>7
  <2> QED
    BY <1>9, <2>2, <2>3, <2>4, <2>5, CallsMoved
<1>14. SubscribedAsSelf'
  BY <1>1, <1>3 DEF SubscribedAsSelf
<1>15. GoneInv'
  <2> SUFFICES ASSUME NEW v \in Users, v \notin strayed', ~Here(v)'
               PROVE  \A q \in RoomSet : (Yet(q, v) \/ OffComes(q, v))'
    BY DEF GoneInv
  <2>1. v \notin strayed /\ ~Here(v)
    BY <1>3 DEF Here
  <2>2. v # u
    <3>1. state[w] # "open" \/ v # u
      BY <1>2, <2>1 DEF Here
    <3>2. state[w] # "closed" \/ v # u
      BY <1>3
    <3>3. state[w] # "new"
      BY <1>1, <1>2 DEF LifeOK
    <3> QED
      BY <1>1, <3>1, <3>2, <3>3 DEF PresenceTyped
  <2>3. ASSUME NEW q \in RoomSet PROVE (Yet(q, v) \/ OffComes(q, v))'
    <3>1. Yet(q, v) \/ OffComes(q, v)
      BY <1>1, <2>1 DEF GoneInv
    <3>2. Yet(q, v) => Yet(q, v)'
      BY <1>3 DEF Yet
    <3>3. OffComes(q, v) => OffComes(q, v)'
      <4> SUFFICES ASSUME OffComes(q, v) PROVE OffComes(q, v)'
        OBVIOUS
      <4>1. d[q] = 0
        BY <1>7
      <4>2. adds /\ e.on => e.user # v
        BY <1>4, <2>2
      <4>3. <<q, v>> \in connected' => \/ <<q, v>> \in connected
                                       \/ d[q] = 1 /\ calls[q][1].on /\ calls[q][1].user = v
        BY <1>3
      <4>4. d[q] = 1 /\ calls[q][1].user = v /\ ~calls[q][1].on => <<q, v>> \notin connected'
        BY <4>1
      <4>5. PresenceTyped /\ d \in [RoomSet -> {0, 1}]
        BY <1>1, <1>7
      <4> QED
        BY <1>9, <4>2, <4>3, <4>4, <4>5, OffComesMoves
    <3> QED
      BY <3>1, <3>2, <3>3
  <2> QED
    BY <2>3
<1>16. HereInv'
  <2>1. OneRoomLeft'
    BY <1>1, <1>3 DEF HereInv, OneRoomLeft
  <2>2. ASSUME NEW q \in RoomSet, NEW v \in Users, Shown(q, v) PROVE Shown(q, v)'
    <3>1. <<q, v>> \in connected'
      BY <1>3, <2>2 DEF Shown
    <3> QED
      BY <1>1, <1>4, <1>7, <1>9, <2>2, <3>1, ShownMoves
  <2>3. DispatchedShown'
    <3> SUFFICES ASSUME NEW x \in Sockets, state[x] = "open", busy'[x].step = "dispatched",
                        busy'[x].user \notin overtaken
                 PROVE  Shown(busy[x].room, busy[x].user)' /\ busy'[x] = busy[x]
      BY <1>3 DEF DispatchedShown, Shown, OffAfter
    <3>1. busy'[x] = busy[x]
      BY <1>5
    <3>2. /\ Shown(busy[x].room, busy[x].user)
          /\ busy[x].room \in RoomSet /\ busy[x].user \in Users
      BY <1>1, <3>1 DEF HereInv, DispatchedShown, ServedAsSelf
    <3> DEFINE q == busy[x].room
               v == busy[x].user
    <3>3. q \in RoomSet /\ v \in Users /\ Shown(q, v)
      BY <3>2
    <3> QED
      BY <2>2, <3>1, <3>2
  <2>4. ListenersShown'
    BY <1>1, <1>3, <2>2 DEF HereInv, ListenersShown, PresenceTyped
  <2>5. QueuedLast'
    BY <1>1, <1>3, <1>4, <1>7, <1>9, QueuedMoves DEF HereInv
  <2> QED
    BY <2>1, <2>3, <2>4, <2>5 DEF HereInv
<1> QED
  BY <1>10, <1>11, <1>12, <1>13, <1>14, <1>15, <1>16 DEF PresInv

\* A reconnect that was dispatched ends in a subscription, of the player that is shown.
LEMMA SubscribePresence ==
  ASSUME PresInv, NEW w \in Sockets, Subscribe(w)
  PROVE  PresInv'
<1> USE NothingTyped
<1>1. /\ PresenceTyped /\ LifeOK /\ ServedAsSelf /\ CallsOK /\ SubscribedAsSelf /\ GoneInv /\ HereInv
  BY DEF PresInv
<1> DEFINE new == [room |-> busy[w].room, socket |-> w, user |-> busy[w].user]
<1>2. /\ UNCHANGED <<state, queue, leaving, player, token, signed, calls, connected,
                     conn, phase, pending, strayed, overtaken>>
      /\ subs' = subs \cup {new} /\ busy' = [busy EXCEPT ![w] = Idle]
      /\ busy[w].step = "dispatched"
  BY DEF Subscribe, presence, client, history
<1>3. /\ busy[w].user \in Users /\ busy[w].room \in RoomSet /\ player[w] = busy[w].user
      /\ state[w] = "open" => signed[w] = busy[w].user
  BY <1>1, <1>2 DEF ServedAsSelf
<1>4. /\ busy' \in [Sockets -> BusyStates] /\ busy'[w] = Idle
      /\ \A x \in Sockets \ {w} : busy'[x] = busy[x]
  BY <1>1, <1>2 DEF PresenceTyped
<1>5. /\ new \in [room : RoomSet, socket : Sockets, user : Users]
      /\ new.room = busy[w].room /\ new.socket = w /\ new.user = busy[w].user
  BY <1>3
<1> HIDE DEF new
<1>6. PresenceTyped'
  BY <1>1, <1>2, <1>4, <1>5 DEF PresenceTyped
<1>7. LifeOK'
  <2>1. \A x \in Sockets : busy'[x] = Idle \/ busy'[x] = busy[x]
    BY <1>4
  <2> QED
    BY <1>1, <1>2, <2>1 DEF LifeOK, Silent
<1>8. ServedAsSelf'
  BY <1>1, <1>2, <1>4 DEF ServedAsSelf
<1>9. CallsOK'
  BY <1>1, <1>2, <1>4, CallsKept
<1>10. SubscribedAsSelf'
  BY <1>1, <1>2, <1>3, <1>5 DEF SubscribedAsSelf
<1>11. GoneInv'
  BY <1>1, <1>2 DEF GoneInv, Here, Yet, OffComes, OffAfter
<1>12. OneRoomLeft' /\ QueuedLast'
  BY <1>1, <1>2 DEF HereInv, OneRoomLeft, QueuedLast, OffAfter
<1>13. DispatchedShown'
  BY <1>1, <1>2, <1>4 DEF HereInv, DispatchedShown, Shown, OffAfter
<1>14. ListenersShown'
  <2>1. state[w] = "open" /\ new.user \notin overtaken => Shown(new.room, new.user)
    BY <1>1, <1>2, <1>5 DEF HereInv, DispatchedShown
  <2>2. \A q, v : Shown(q, v)' <=> Shown(q, v)
    BY <1>2 DEF Shown, OffAfter
  <2> SUFFICES ASSUME NEW b \in subs', state[b.socket] = "open", b.user \notin overtaken
               PROVE  Shown(b.room, b.user)
    BY <1>2, <2>2 DEF ListenersShown
  <2> QED
    BY <1>1, <1>2, <1>5, <2>1 DEF HereInv, ListenersShown
<1> QED
  BY <1>6, <1>7, <1>8, <1>9, <1>10, <1>11, <1>12, <1>13, <1>14 DEF PresInv, HereInv

\* What the first call of a queue is, and that no other call is its.
LEMMA FirstCall ==
  ASSUME PresInv, NEW r \in RoomSet, calls[r] # <<>>, NEW call, call = Head(calls[r])
  PROVE  /\ call = calls[r][1] /\ 1 \in DOMAIN calls[r] /\ call \in Calls
         /\ call.socket \in Sockets /\ call.user \in Users /\ call.on \in BOOLEAN
         /\ call.on => /\ busy[call.socket].step = "queued"
                       /\ busy[call.socket].user = call.user /\ busy[call.socket].room = r
         /\ ~call.on => /\ leaving[call.socket].user = call.user
                        /\ leaving[call.socket].rooms # <<>>
                        /\ Head(leaving[call.socket].rooms) = r
         /\ \A q \in RoomSet : \A i \in DOMAIN calls[q] :
              /\ calls[q][i].socket = call.socket
              /\ calls[q][i].on <=> call.on
              => q = r /\ i = 1
<1>1. PresenceTyped /\ CallsOK
  BY DEF PresInv
<1>2. call = calls[r][1] /\ 1 \in DOMAIN calls[r] /\ call \in Calls
  BY <1>1, TailShifts
<1>3. call.socket \in Sockets /\ call.user \in Users /\ call.on \in BOOLEAN
  BY <1>2 DEF Calls
<1> QED
  BY <1>1, <1>2, <1>3 DEF CallsOK

\* The queue of r lost its first call, the others are as they were.
LEMMA FirstGone ==
  ASSUME PresenceTyped, NEW r \in RoomSet, calls[r] # <<>>,
         calls' = [calls EXCEPT ![r] = Tail(@)],
         NEW d, d = [q \in RoomSet |-> IF q = r THEN 1 ELSE 0], NEW adds, ~adds, NEW re, NEW e
  PROVE  /\ d \in [RoomSet -> {0, 1}] /\ d[r] = 1
         /\ \A q \in RoomSet \ {r} : d[q] = 0
         /\ Step(d, adds, re, e) /\ Shifted(r, 1)
         /\ calls' \in [RoomSet -> Seq(Calls)]
<1>1. /\ d \in [RoomSet -> {0, 1}] /\ d[r] = 1
      /\ \A q \in RoomSet \ {r} : d[q] = 0
  OBVIOUS
<1>2. calls'[r] = Tail(calls[r]) /\ \A q \in RoomSet \ {r} : calls'[q] = calls[q]
  BY DEF PresenceTyped
<1>3. Shifted(r, 1) /\ Tail(calls[r]) \in Seq(Calls)
  BY <1>2, TailShifts
<1>4. ASSUME NEW q \in RoomSet PROVE Shifted(q, d[q])
  <2>1. CASE q = r
    BY <1>1, <1>3, <2>1
  <2>2. CASE q # r
    BY <1>1, <1>2, <2>2, SameShifts
  <2> QED
    BY <2>1, <2>2
<1>5. calls' \in [RoomSet -> Seq(Calls)]
  BY <1>3 DEF PresenceTyped
<1> QED
  BY <1>1, <1>3, <1>4, <1>5 DEF Step

\* A reconnect is dispatched, or it fails.
LEMMA OnCallPresence ==
  ASSUME PresInv, NEW r \in RoomSet, calls[r] # <<>>, NEW call, call = Head(calls[r]), call.on,
         calls' = [calls EXCEPT ![r] = Tail(@)],
         UNCHANGED <<state, queue, leaving, player, token, signed, subs, conn, phase, pending,
                     strayed, overtaken>>,
         \/ /\ busy' = [busy EXCEPT ![call.socket].step = "dispatched"]
            /\ connected' = connected \cup {<<r, call.user>>}
         \/ /\ busy' = [busy EXCEPT ![call.socket] = Idle]
            /\ connected' = connected
  PROVE  PresInv'
<1> USE NothingTyped
<1>1. /\ PresenceTyped /\ LifeOK /\ ServedAsSelf /\ CallsOK /\ SubscribedAsSelf /\ GoneInv /\ HereInv
  BY DEF PresInv
<1> DEFINE w == call.socket
           u == call.user
           d == [q \in RoomSet |-> IF q = r THEN 1 ELSE 0]
           adds == FALSE
<1>2. /\ call = calls[r][1] /\ 1 \in DOMAIN calls[r] /\ w \in Sockets /\ u \in Users
      /\ busy[w].step = "queued" /\ busy[w].user = u /\ busy[w].room = r
      /\ \A q \in RoomSet : \A i \in DOMAIN calls[q] :
           calls[q][i].socket = w /\ calls[q][i].on => q = r /\ i = 1
  BY FirstCall
<1>3. ~adds
  OBVIOUS
<1> HIDE DEF adds
<1>4. /\ d \in [RoomSet -> {0, 1}] /\ d[r] = 1
      /\ \A q \in RoomSet \ {r} : d[q] = 0
      /\ Step(d, adds, r, call) /\ Shifted(r, 1)
      /\ calls' \in [RoomSet -> Seq(Calls)]
  BY <1>1, <1>3, FirstGone
<1> HIDE DEF d
<1>5. /\ busy' \in [Sockets -> BusyStates] /\ \A x \in Sockets \ {w} : busy'[x] = busy[x]
      /\ \/ busy'[w].step = "dispatched" /\ busy'[w].user = u /\ busy'[w].room = r
            /\ connected' = connected \cup {<<r, u>>}
         \/ busy'[w] = Idle /\ connected' = connected
  <2>1. busy[w] \in BusyStates
    BY <1>1, <1>2 DEF PresenceTyped
  <2>2. CASE /\ busy' = [busy EXCEPT ![w].step = "dispatched"]
             /\ connected' = connected \cup {<<r, u>>}
    BY ZenonT(30), <1>1, <1>2, <2>1, <2>2 DEF PresenceTyped, BusyStates
  <2>3. CASE /\ busy' = [busy EXCEPT ![w] = Idle]
             /\ connected' = connected
    BY <1>1, <1>2, <2>3 DEF PresenceTyped
  <2> QED
    BY <2>2, <2>3
<1>6. connected \subseteq connected' /\ connected' \subseteq connected \cup {<<r, u>>}
  BY <1>5
<1> HIDE DEF w, u
<1>7. PresenceTyped'
  <2>1. connected' \subseteq RoomSet \X Users
    BY <1>1, <1>2, <1>6 DEF PresenceTyped
  <2> QED
    BY <1>1, <1>4, <1>5, <2>1 DEF PresenceTyped
<1>8. LifeOK'
  <2>1. \A x \in Sockets : state[x] = "new" => busy'[x] = busy[x]
    BY <1>1, <1>2, <1>5 DEF LifeOK
  <2> QED
    BY <1>1, <2>1 DEF LifeOK, Silent
<1>9. ServedAsSelf'
  BY <1>1, <1>2, <1>5 DEF ServedAsSelf
<1>10. CallsOK'
  <2>1. ASSUME NEW q \in RoomSet, NEW i \in DOMAIN calls[q], i > d[q], calls[q][i].on
        PROVE  busy'[calls[q][i].socket] = busy[calls[q][i].socket]
    <3>1. calls[q][i].socket \in Sockets
      BY <1>1, CallTyped
    <3>2. calls[q][i].socket # w
      BY <1>2, <1>4, <2>1
    <3> QED
      BY <1>5, <3>1, <3>2
  <2>2. \A q \in RoomSet : \A i \in DOMAIN calls[q] : i > d[q] =>
           /\ adds => ~(calls[q][i].socket = call.socket /\ (calls[q][i].on <=> call.on))
           /\ calls[q][i].on => busy'[calls[q][i].socket] = busy[calls[q][i].socket]
           /\ ~calls[q][i].on => leaving'[calls[q][i].socket] = leaving[calls[q][i].socket]
    BY <1>3, <2>1
  <2> QED
    BY <1>1, <1>3, <1>4, <2>2, CallsMoved
<1>11. SubscribedAsSelf'
  BY <1>1 DEF SubscribedAsSelf
<1>12. GoneInv'
  <2> SUFFICES ASSUME NEW v \in Users, v \notin strayed, ~Here(v)', NEW q \in RoomSet
               PROVE  (Yet(q, v) \/ OffComes(q, v))'
    BY DEF GoneInv
  <2>1. ~Here(v)
    BY DEF Here
  <2>2. Yet(q, v) \/ OffComes(q, v)
    BY <1>1, <2>1 DEF GoneInv
  <2>3. Yet(q, v) => Yet(q, v)'
    BY DEF Yet
  <2>4. ASSUME OffComes(q, v) PROVE OffComes(q, v)'
    <3>1. <<q, v>> \in connected' => \/ <<q, v>> \in connected
                                     \/ d[q] = 1 /\ calls[q][1].on /\ calls[q][1].user = v
      BY <1>2, <1>4, <1>6 DEF u
    <3>2. d[q] = 1 /\ calls[q][1].user = v /\ ~calls[q][1].on => <<q, v>> \notin connected'
      BY <1>2, <1>4
    <3>3. adds /\ call.on => call.user # v
      BY <1>3
    <3> QED
      BY <1>1, <1>4, <2>4, <3>1, <3>2, <3>3, OffComesMoves
  <2> QED
    BY <2>2, <2>3, <2>4
<1>13. HereInv'
  <2>1. OneRoomLeft'
    BY <1>1 DEF HereInv, OneRoomLeft
  <2>2. ASSUME NEW q \in RoomSet, NEW v \in Users, Shown(q, v) PROVE Shown(q, v)'
    <3>1. <<q, v>> \in connected'
      BY <1>6, <2>2 DEF Shown
    <3> QED
      BY <1>1, <1>3, <1>4, <2>2, <3>1, ShownMoves
  <2>3. ASSUME NEW x \in Sockets, state[x] = "open", busy'[x].step = "dispatched",
               busy'[x].user \notin overtaken,
               NEW q, q = busy'[x].room, NEW v, v = busy'[x].user
        PROVE  Shown(q, v)'
    <3>1. CASE x = w
      <4>1. q = r /\ v = u /\ connected' = connected \cup {<<r, u>>}
        BY <1>5, <2>3, <3>1
      <4>2. ~OffAfter(r, u, 1)
        BY <1>1, <1>2, <2>3, <3>1, <4>1 DEF HereInv, QueuedLast, w, u
      <4>3. ~Extended(r, 1, call)
        BY <1>1, <1>2, <1>4, CallTyped DEF Shifted, Extended, Moved
      <4>4. 1 \in {0, 1} /\ 0 \in Nat /\ 0 + 1 = 1
        OBVIOUS
      <4>5. ~OffAfter(r, u, 0)'
        BY <1>1, <1>4, <4>2, <4>3, <4>4, OffMoves
      <4> QED
        BY <4>1, <4>5 DEF Shown
    <3>2. CASE x # w
      <4>1. busy'[x] = busy[x]
        BY <1>5, <3>2
      <4>2. Shown(q, v) /\ q \in RoomSet /\ v \in Users
        BY <1>1, <2>3, <4>1 DEF HereInv, DispatchedShown, ServedAsSelf
      <4> QED
        BY <2>2, <4>2
    <3> QED
      BY <3>1, <3>2
  <2>4. DispatchedShown'
    BY <2>3 DEF DispatchedShown, Shown, OffAfter
  <2>5. ListenersShown'
    BY <1>1, <2>2 DEF HereInv, ListenersShown, PresenceTyped
  <2>6. QueuedLast'
    BY <1>1, <1>3, <1>4, QueuedMoves DEF HereInv
  <2> QED
    BY <2>1, <2>4, <2>5, <2>6 DEF HereInv
<1> QED
  BY <1>7, <1>8, <1>9, <1>10, <1>11, <1>12, <1>13 DEF PresInv

\* A room that is told that v is gone hears of it after all else.
LEMMA OffComesTold ==
  ASSUME PresenceTyped, NEW q \in RoomSet, NEW d \in {0, 1}, NEW e, Extended(q, d, e),
         NEW v, e.user = v, ~e.on
  PROVE  OffComes(q, v)'
<1>1. Len(calls[q]) \in Nat /\ d <= Len(calls[q]) /\ DOMAIN calls[q] = 1..Len(calls[q])
  BY CallTyped DEF Extended, Moved
<1>2. \A i \in Nat : i + d <= Len(calls[q]) => OffAfter(q, v, i)'
  BY OffMoves
<1>3. OffAfter(q, v, 0)'
  BY <1>1, <1>2
<1>4. ASSUME NEW i \in DOMAIN calls'[q], calls'[q][i].on PROVE OffAfter(q, v, i)'
  <2>1. i \in Nat /\ i + d \in DOMAIN calls[q]
    BY <1>4, MovedIs
  <2> QED
    BY <1>1, <1>2, <2>1
<1> QED
  BY <1>3, <1>4 DEF OffComes

\* The queues, without the first call of those that d says.
Without(d, queues) ==
  /\ queues \in [RoomSet -> Seq(Calls)]
  /\ \A q \in RoomSet :
       \/ d[q] = 0 /\ queues[q] = calls[q]
       \/ d[q] = 1 /\ calls[q] # <<>> /\ queues[q] = Tail(calls[q])

\* A close handler goes on to its next room, or it is done.
LEMMA TellStep ==
  ASSUME PresenceTyped, NEW x \in Sockets, NEW u \in Users, NEW rest \in Seq(RoomSet),
         NEW d \in [RoomSet -> {0, 1}], NEW queues, Without(d, queues),
         Tell(x, u, rest, queues)
  PROVE  /\ leaving' \in [Sockets -> Leavings] /\ calls' \in [RoomSet -> Seq(Calls)]
         /\ leaving'[x] = IF rest # <<>> THEN [user |-> u, rooms |-> rest] ELSE Nothing
         /\ \A y \in Sockets \ {x} : leaving'[y] = leaving[y]
         /\ Gone(x, u).socket = x /\ Gone(x, u).user = u /\ ~Gone(x, u).on
         /\ rest # <<>> =>
              Head(rest) \in RoomSet /\ Extended(Head(rest), d[Head(rest)], Gone(x, u))
         /\ Step(d, rest # <<>>, Head(rest), Gone(x, u))
<1> USE NothingTyped
<1> DEFINE adds == rest # <<>>
           e == Gone(x, u)
<1>10. /\ queues \in [RoomSet -> Seq(Calls)]
       /\ \A q \in RoomSet :
            \/ d[q] = 0 /\ queues[q] = calls[q]
            \/ d[q] = 1 /\ calls[q] # <<>> /\ queues[q] = Tail(calls[q])
  BY DEF Without
<1>1. e.socket = x /\ e.user = u /\ ~e.on /\ e \in Calls
  <2>1. FALSE \in BOOLEAN
    OBVIOUS
  <2>2. Gone(x, u) \in Calls
    BY <2>1, Zenon DEF Gone, Calls
  <2> QED
    BY <2>2 DEF Gone
<1>2. (adds <=> rest # <<>>) /\ (adds => Head(rest) \in RoomSet)
  OBVIOUS
<1> DEFINE to == [user |-> u, rooms |-> rest]
<1>3. to \in Leavings
  BY DEF Leavings
<1>4. /\ leaving' = [leaving EXCEPT ![x] = IF adds THEN to ELSE Nothing]
      /\ ~adds => calls' = queues
      /\ adds => calls' = [queues EXCEPT ![Head(rest)] = Append(@, e)]
  BY DEF Tell
<1> HIDE DEF to, adds, e
<1>5. /\ leaving' \in [Sockets -> Leavings]
      /\ leaving'[x] = IF adds THEN to ELSE Nothing
      /\ \A y \in Sockets \ {x} : leaving'[y] = leaving[y]
  BY <1>3, <1>4 DEF PresenceTyped
<1>6. ASSUME NEW q \in RoomSet
      PROVE  /\ calls'[q] = IF adds /\ q = Head(rest) THEN Append(queues[q], e) ELSE queues[q]
             /\ calls'[q] \in Seq(Calls)
  <2>1. Append(queues[q], e) \in Seq(Calls) /\ queues[q] \in Seq(Calls)
    BY <1>1, <1>10
  <2> QED
    BY <1>2, <1>4, <1>10, <2>1
<1>7. calls' \in [RoomSet -> Seq(Calls)]
  BY <1>2, <1>4, <1>6, <1>10
<1>8. ASSUME NEW q \in RoomSet
      PROVE  IF adds /\ q = Head(rest) THEN Extended(q, d[q], e) ELSE Shifted(q, d[q])
  <2>1. CASE d[q] = 0 /\ queues[q] = calls[q]
    BY <1>1, <1>6, <1>10, <2>1, SameShifts, AppendExtends
  <2>2. CASE d[q] = 1 /\ calls[q] # <<>> /\ queues[q] = Tail(calls[q])
    BY <1>1, <1>6, <1>10, <2>2, TailShifts
  <2> QED
    BY <1>10, <2>1, <2>2
<1>9. Step(d, adds, Head(rest), e)
  BY <1>8 DEF Step
<1> QED
  BY <1>1, <1>2, <1>5, <1>7, <1>8, <1>9 DEF to, adds, e

LEMMA RestOf ==
  ASSUME NEW S, NEW s \in Seq(S), s # <<>>
  PROVE  /\ Tail(s) \in Seq(S) /\ Len(s) \in Nat \ {0} /\ Len(Tail(s)) = Len(s) - 1
         /\ \A i \in 2..Len(s) : Tail(s)[i - 1] = s[i] /\ i - 1 \in 1..Len(Tail(s))
         /\ Len(s) <= 1 <=> Tail(s) = <<>>
         /\ Tail(s) # <<>> => Head(Tail(s)) = s[2]
BY SMTT(30)

\* A room hears that a player is gone, or fails to; the close handler goes on.
LEMMA OffCallPresence ==
  ASSUME PresInv, NEW r \in RoomSet, calls[r] # <<>>, NEW call, call = Head(calls[r]), ~call.on,
         Tell(call.socket, call.user, Tail(leaving[call.socket].rooms),
              [calls EXCEPT ![r] = Tail(@)]),
         UNCHANGED <<state, queue, busy, player, token, signed, subs, conn, phase, pending,
                     overtaken>>,
         \/ connected' = connected \ {<<r, call.user>>} /\ strayed' = strayed
         \/ connected' = connected /\ strayed' = strayed \cup {call.user}
  PROVE  PresInv'
<1> USE NothingTyped
<1>1. /\ PresenceTyped /\ LifeOK /\ ServedAsSelf /\ CallsOK /\ SubscribedAsSelf /\ GoneInv /\ HereInv
  BY DEF PresInv
<1> DEFINE x == call.socket
           u == call.user
           rooms == leaving[x].rooms
           rest == Tail(rooms)
           d == [q \in RoomSet |-> IF q = r THEN 1 ELSE 0]
           adds == rest # <<>>
           e == Gone(x, u)
           queues == [calls EXCEPT ![r] = Tail(@)]
<1>2. /\ call = calls[r][1] /\ 1 \in DOMAIN calls[r] /\ x \in Sockets /\ u \in Users
      /\ leaving[x].user = u /\ rooms # <<>>
      /\ \A q \in RoomSet : \A i \in DOMAIN calls[q] :
           calls[q][i].socket = x /\ ~calls[q][i].on => q = r /\ i = 1
  BY SMTT(30), FirstCall
<1>3. rooms \in Seq(RoomSet)
  BY SMTT(30), <1>1, <1>2 DEF PresenceTyped, Leavings
<1>4. /\ rest \in Seq(RoomSet) /\ Len(rooms) \in Nat \ {0} /\ Len(rest) = Len(rooms) - 1
      /\ \A i \in 2..Len(rooms) : rest[i - 1] = rooms[i] /\ i - 1 \in 1..Len(rest)
      /\ Len(rooms) <= 1 <=> ~adds
      /\ adds => Head(rest) = rooms[2]
  BY <1>2, <1>3, RestOf
<1>5. /\ d \in [RoomSet -> {0, 1}] /\ d[r] = 1
      /\ \A q \in RoomSet \ {r} : d[q] = 0
  OBVIOUS
<1>6. /\ queues \in [RoomSet -> Seq(Calls)]
      /\ \A q \in RoomSet :
           \/ d[q] = 0 /\ queues[q] = calls[q]
           \/ d[q] = 1 /\ calls[q] # <<>> /\ queues[q] = Tail(calls[q])
  <2>1. Tail(calls[r]) \in Seq(Calls)
    BY <1>1, TailShifts
  <2> QED
    BY <1>1, <1>5, <2>1 DEF PresenceTyped
<1>7. Tell(x, u, rest, queues) /\ (adds <=> rest # <<>>) /\ e = Gone(x, u)
  OBVIOUS
<1>8. state[x] = "closed"
  <2>1. leaving[x] # Nothing
    BY <1>2
  <2> QED
    BY <1>1, <1>2, <2>1 DEF LifeOK
<1>9. /\ strayed \subseteq strayed' /\ strayed' \subseteq Users /\ connected' \subseteq connected
      /\ \A q, v : v \notin strayed' /\ <<q, v>> \in connected =>
                     (<<q, v>> \in connected' <=> ~(q = r /\ v = u))
      /\ \A q, v : <<q, v>> \in connected /\ <<q, v>> \notin connected' => q = r /\ v = u
  BY <1>1, <1>2 DEF PresenceTyped
<1> HIDE DEF x, u, rooms, rest, d, adds, e, queues
<1>10. /\ leaving' \in [Sockets -> Leavings] /\ calls' \in [RoomSet -> Seq(Calls)]
       /\ leaving'[x] = IF adds THEN [user |-> u, rooms |-> rest] ELSE Nothing
       /\ \A y \in Sockets \ {x} : leaving'[y] = leaving[y]
       /\ e.socket = x /\ e.user = u /\ ~e.on
       /\ adds => Head(rest) \in RoomSet /\ Extended(Head(rest), d[Head(rest)], e)
       /\ Step(d, adds, Head(rest), e)
  <2>1. Without(d, queues)
    BY <1>6 DEF Without
  <2>2. Tell(x, u, rest, queues)
    BY <1>7
  <2> QED
    BY <1>1, <1>2, <1>4, <1>5, <2>1, <2>2, TellStep DEF adds, e
<1>11. PresenceTyped'
  BY <1>1, <1>9, <1>10 DEF PresenceTyped
<1>12. LifeOK'
  <2>1. \A y \in Sockets : state[y] # "closed" => leaving'[y] = leaving[y]
    BY <1>8, <1>10
  <2> QED
    BY <1>1, <1>9, <2>1 DEF LifeOK, Silent
<1>13. ServedAsSelf' /\ SubscribedAsSelf'
  BY SMTT(30), <1>1 DEF ServedAsSelf, SubscribedAsSelf
<1>14. CallsOK'
  <2>1. \A q \in RoomSet : \A i \in DOMAIN calls[q] : i > d[q] =>
           ~(calls[q][i].socket = x /\ ~calls[q][i].on)
    BY <1>2, <1>5
  <2>2. \A q \in RoomSet : \A i \in DOMAIN calls[q] : calls[q][i].socket \in Sockets
    BY <1>1, CallTyped
  <2>3. \A q \in RoomSet : \A i \in DOMAIN calls[q] : i > d[q] =>
           /\ adds => ~(calls[q][i].socket = e.socket /\ (calls[q][i].on <=> e.on))
           /\ calls[q][i].on => busy'[calls[q][i].socket] = busy[calls[q][i].socket]
           /\ ~calls[q][i].on => leaving'[calls[q][i].socket] = leaving[calls[q][i].socket]
    BY <1>10, <2>1, <2>2
  <2>4. adds => /\ leaving'[e.socket].user = e.user
                /\ leaving'[e.socket].rooms # <<>>
                /\ Head(leaving'[e.socket].rooms) = Head(rest)
    BY <1>7, <1>10
  <2>5. PresenceTyped /\ CallsOK /\ d \in [RoomSet -> {0, 1}] /\ Step(d, adds, Head(rest), e)
    BY <1>1, <1>5, <1>10
  <2>6. adds => /\ e.on => /\ busy'[e.socket].step = "queued"
                            /\ busy'[e.socket].user = e.user /\ busy'[e.socket].room = Head(rest)
                /\ ~e.on => /\ leaving'[e.socket].user = e.user
                            /\ leaving'[e.socket].rooms # <<>>
                            /\ Head(leaving'[e.socket].rooms) = Head(rest)
    BY <1>10, <2>4
  <2> QED
    BY SMTT(30), <2>3, <2>5, <2>6, CallsMoved
<1>15. GoneInv'
  <2> SUFFICES ASSUME NEW v \in Users, v \notin strayed', ~Here(v)', NEW q \in RoomSet
               PROVE  (Yet(q, v) \/ OffComes(q, v))'
    BY DEF GoneInv
  <2>1. v \notin strayed /\ ~Here(v)
    BY <1>9 DEF Here
  <2>2. CASE OffComes(q, v)
    <3>1. adds /\ e.on => e.user # v
      BY <1>10
    <3>2. <<q, v>> \in connected' => \/ <<q, v>> \in connected
                                     \/ d[q] = 1 /\ calls[q][1].on /\ calls[q][1].user = v
      BY <1>9
    <3>3. d[q] = 1 /\ calls[q][1].user = v /\ ~calls[q][1].on => <<q, v>> \notin connected'
      BY <1>2, <1>5, <1>9 DEF u
    <3> QED
      BY <1>1, <1>5, <1>10, <2>2, <3>1, <3>2, <3>3, OffComesMoves
  <2>3. CASE Yet(q, v)
    <3>1. PICK y \in Sockets : /\ leaving[y].user = v
                               /\ \E i \in 2..Len(leaving[y].rooms) : leaving[y].rooms[i] = q
      BY <2>3 DEF Yet
    <3>2. CASE y # x
      BY <1>10, <3>1, <3>2 DEF Yet
    <3>3. CASE y = x
      <4>1. v = u
        BY <1>2, <3>1, <3>3
      <4>2. PICK i \in 2..Len(rooms) : rooms[i] = q
        BY <3>1, <3>3 DEF rooms
      <4>3. rest[i - 1] = q /\ i - 1 \in 1..Len(rest) /\ i \in Nat /\ adds
        BY <1>4, <4>2
      <4>4. CASE i = 2
        <5>1. Head(rest) = q
          BY <1>4, <4>2, <4>3, <4>4
        <5>2. Extended(q, d[q], e) /\ d[q] \in {0, 1}
          BY <1>5, <1>10, <4>3, <5>1
        <5> QED
          BY <1>1, <1>10, <4>1, <5>2, OffComesTold
      <4>5. CASE i # 2
        <5>1. i - 1 \in 2..Len(rest)
          BY <1>4, <4>2, <4>3, <4>5
        <5>2. leaving'[x].user = v /\ leaving'[x].rooms = rest
          BY <1>10, <4>1, <4>3
        <5> QED
          BY <1>2, <4>3, <5>1, <5>2 DEF Yet
      <4> QED
        BY <4>4, <4>5
    <3> QED
      BY <3>2, <3>3
  <2> QED
    BY <1>1, <2>1, <2>2, <2>3 DEF GoneInv
<1>16. HereInv'
  <2>1. OneRoomLeft'
    <3> SUFFICES ASSUME NEW w \in Sockets, NEW y \in Sockets, state[w] = "open",
                        signed[w] # None, signed[w] \notin overtaken,
                        leaving'[y].user = signed[w]
                 PROVE  Len(leaving'[y].rooms) <= 1
      BY DEF OneRoomLeft
    <3>1. CASE y # x
      BY <1>1, <1>10, <3>1 DEF HereInv, OneRoomLeft
    <3>2. CASE y = x
      <4>1. adds
        BY <1>10, <3>2
      <4>2. leaving'[x].user = u /\ leaving'[x].rooms = rest
        BY <1>10, <4>1
      <4>3. Len(rooms) <= 1
        BY <1>1, <1>2, <3>2, <4>2 DEF HereInv, OneRoomLeft, rooms
      <4> QED
        BY <1>4, <4>1, <4>3
    <3> QED
      BY <3>1, <3>2
  <2>2. ASSUME NEW w \in Sockets, state[w] = "open", signed[w] # None, signed[w] \notin overtaken,
               adds
        PROVE  u # signed[w]
    <3>1. ~(Len(rooms) <= 1)
      BY <1>4, <2>2
    <3> QED
      BY <1>1, <1>2, <2>2, <3>1 DEF HereInv, OneRoomLeft, rooms
  <2>3. ASSUME NEW w \in Sockets, state[w] = "open", signed[w] \notin overtaken,
               NEW q \in RoomSet, NEW v \in Users, v = signed[w], Shown(q, v)
        PROVE  Shown(q, v)'
    <3>1. adds => e.on \/ e.user # v
      BY <1>10, <2>2, <2>3
    <3>2. <<q, v>> \notin connected' => d[q] = 1 /\ calls[q][1].user = v /\ ~calls[q][1].on
      BY <1>2, <1>5, <1>9, <2>3 DEF Shown, u
    <3> QED
      BY <1>1, <1>5, <1>10, <2>3, <3>1, <3>2, ShownMoves
  <2>4. DispatchedShown'
    <3> SUFFICES ASSUME NEW w \in Sockets, state[w] = "open", busy[w].step = "dispatched",
                        busy[w].user \notin overtaken,
                        NEW q, q = busy[w].room, NEW v, v = busy[w].user
                 PROVE  Shown(q, v)'
      BY DEF DispatchedShown, Shown, OffAfter
    <3>1. q \in RoomSet /\ v \in Users /\ signed[w] = v /\ Shown(q, v)
      BY <1>1 DEF ServedAsSelf, HereInv, DispatchedShown
    <3> QED
      BY SMTT(30), <2>3, <3>1
  <2>5. ListenersShown'
    <3> SUFFICES ASSUME NEW b \in subs, state[b.socket] = "open", b.user \notin overtaken,
                        NEW q, q = b.room, NEW v, v = b.user
                 PROVE  Shown(q, v)'
      BY DEF ListenersShown, Shown, OffAfter
    <3>1. /\ b.socket \in Sockets /\ q \in RoomSet /\ v \in Users
          /\ signed[b.socket] = v /\ Shown(q, v)
      BY <1>1 DEF PresenceTyped, SubscribedAsSelf, HereInv, ListenersShown
    <3> QED
      BY <2>3, <3>1
  <2>6. QueuedLast'
    <3>1. \A w \in Sockets :
            state'[w] = "open" /\ signed[w] # None /\ signed[w] \notin overtaken /\ adds
              => e.on \/ e.user # signed[w]
      BY <1>10, <2>2
    <3>2. /\ PresenceTyped /\ CallsOK /\ ServedAsSelf /\ QueuedLast
          /\ d \in [RoomSet -> {0, 1}] /\ Step(d, adds, Head(rest), e)
      BY <1>1, <1>5, <1>10 DEF HereInv
    <3>3. /\ overtaken' = overtaken
          /\ \A w \in Sockets : state'[w] = "open" => state[w] = "open"
      OBVIOUS
    <3> QED
      BY <3>1, <3>2, <3>3, QueuedMoves
  <2> QED
    BY <2>1, <2>4, <2>5, <2>6 DEF HereInv
<1> QED
  BY <1>11, <1>12, <1>13, <1>14, <1>15, <1>16 DEF PresInv

\* The life of sockets when one closes.
LEMMA CloseLife ==
  ASSUME ConnInv, LifeOK, NEW w \in Sockets, Close(w), PresenceTyped,
         \A y \in Sockets \ {w} : leaving'[y] = leaving[y]
  PROVE  LifeOK'
<1> USE NothingTyped, ConnectionsAssumption
<1>1. WireOK /\ SocketsOK
  BY DEF ConnInv
<1>2. /\ state[w] = "open" /\ state' = [state EXCEPT ![w] = "closed"]
      /\ conn' = [c \in Clients |-> IF conn[c] = w THEN None ELSE conn[c]]
      /\ phase' = [c \in Clients |-> IF conn[c] = w THEN "disconnected" ELSE phase[c]]
      /\ signed' = [signed EXCEPT ![w] = None]
      /\ UNCHANGED <<busy, pending, strayed, token>>
  BY DEF Close, RemoveClient, history
<1>3. PICK n \in 0..Len(queue[w]) : queue' = [queue EXCEPT ![w] = SubSeq(queue[w], 1, n)]
  BY DEF Close
<1>4. queue[w] \in Seq(Sent) /\ queue \in [Sockets -> Seq(Sent)]
  BY <1>1 DEF WireOK
<1>5. \A c \in Clients : /\ conn'[c] # w
                         /\ conn'[c] # None => conn'[c] = conn[c] /\ phase'[c] = phase[c]
  BY <1>2
<1>6. \A x \in Sockets \ {w} : /\ queue'[x] = queue[x] /\ signed'[x] = signed[x]
                               /\ state'[x] = state[x] /\ token'[x] = token[x]
                               /\ busy'[x] = busy[x]
  BY <1>1, <1>2, <1>3, <1>4 DEF SocketsOK
<1>7. state'[w] = "closed" /\ signed'[w] = None
  BY <1>1, <1>2 DEF SocketsOK, PresenceTyped
<1>8. \A x \in Sockets : Silent(x) => Silent(x)'
  BY <1>5 DEF Silent
<1>9. Silent(w)'
  BY <1>5 DEF Silent
<1>10. ASSUME NEW i \in DOMAIN queue'[w], queue'[w][i].type = "logout"
       PROVE  i = Len(queue'[w])
  <2> DEFINE s == queue[w]
  <2>1. /\ SubSeq(s, 1, n) \in Seq(Sent) /\ Len(SubSeq(s, 1, n)) = n /\ n \in Nat
        /\ DOMAIN SubSeq(s, 1, n) = 1..n /\ n <= Len(s) /\ Len(s) \in Nat
        /\ DOMAIN s = 1..Len(s)
        /\ \A j \in 1..n : SubSeq(s, 1, n)[j] = s[j]
    <3>1. n \in Nat /\ n <= Len(s) /\ Len(s) \in Nat /\ s \in Seq(Sent)
      BY <1>3, <1>4
    <3> HIDE DEF s
    <3>2. \A j \in 1..n : s[j] \in Sent
      BY <3>1, ElementOfSeq, LenProperties
    <3> QED
      BY <3>1, <3>2, SubSeqProperties, LenProperties
  <2>2. queue'[w] = SubSeq(s, 1, n)
    BY <1>3, <1>4
  <2> HIDE DEF s
  <2>3. i \in 1..n /\ i \in 1..Len(s) /\ s[i].type = "logout"
    BY <1>10, <2>1, <2>2
  <2>4. i = Len(s)
    BY <2>1, <2>3 DEF LifeOK, s
  <2> QED
    BY <2>1, <2>2, <2>3, <2>4
<1>11. \A c, d \in Clients : conn'[c] = conn'[d] /\ conn'[c] # None => c = d
  BY <1>5 DEF LifeOK
<1>12. ASSUME NEW x \in Sockets
       PROVE  /\ state'[x] = "new" =>
                   /\ token'[x] = None /\ signed'[x] = None /\ queue'[x] = <<>> /\ busy'[x] = Idle
                   /\ \A c \in Clients : conn'[c] # x
              /\ state'[x] # "closed" => leaving'[x] = Nothing
              /\ signed'[x] # None /\ state'[x] = "closed" => signed'[x] \in strayed'
              /\ \A i \in DOMAIN queue'[x] :
                   queue'[x][i].type = "logout" => i = Len(queue'[x]) /\ Silent(x)'
              /\ state'[x] = "open" /\ token'[x] # None /\ signed'[x] = None =>
                   queue'[x] = <<>> /\ Silent(x)'
  <2>1. CASE x = w
    BY <1>7, <1>9, <1>10, <2>1
  <2>2. CASE x # w
    <3>1. state[x] = "new" => \A c \in Clients : conn'[c] # x
      BY <1>5, <2>2 DEF LifeOK
    <3> QED
      BY <1>2, <1>6, <1>8, <2>2, <3>1 DEF LifeOK
  <2> QED
    BY <2>1, <2>2
<1>13. \A c \in Clients : pending'[c] # None => pending'[c].type # "logout"
  BY <1>2 DEF LifeOK
<1> QED
  BY <1>11, <1>12, <1>13 DEF LifeOK

\* A socket closes; if its player has no other, the rooms are to hear of it.
LEMMA ClosePresence ==
  ASSUME ConnInv, PresInv, NEW w \in Sockets, Close(w)
  PROVE  PresInv'
<1> USE NothingTyped
<1>1. /\ PresenceTyped /\ LifeOK /\ ServedAsSelf /\ CallsOK /\ SubscribedAsSelf /\ GoneInv /\ HereInv
      /\ SocketsOK
  BY DEF PresInv, ConnInv
<1> DEFINE u == player[w]
           d == [q \in RoomSet |-> 0]
           adds == LastOne(w) /\ Rooms # <<>>
           e == Gone(w, u)
<1>2. /\ state[w] = "open" /\ state' = [state EXCEPT ![w] = "closed"]
      /\ phase' = [c \in Clients |-> IF conn[c] = w THEN "disconnected" ELSE phase[c]]
      /\ signed' = [signed EXCEPT ![w] = None] /\ subs' = Unsubscribed(w)
      /\ clients' = [x \in Users |-> IF x = player[w] THEN clients[x] \ {w} ELSE clients[x]]
      /\ UNCHANGED <<busy, connected, player, strayed, overtaken>>
      /\ leaving[w] = Nothing
  BY <1>1 DEF Close, RemoveClient, history, LifeOK
<1>3. IF LastOne(w) THEN Tell(w, u, Rooms, calls) ELSE UNCHANGED <<leaving, calls>>
  BY DEF Close
<1>4. LastOne(w) => u \in Users
  BY <1>1 DEF SocketsOK, LastOne
<1>5. d \in [RoomSet -> {0, 1}] /\ \A q \in RoomSet : d[q] = 0
  OBVIOUS
<1>6. Rooms \in Seq(RoomSet) /\ (Rooms # <<>> => Head(Rooms) = Rooms[1])
  BY ConnectionsAssumption DEF RoomSet
<1>7. e.socket = w /\ e.user = u /\ ~e.on
  BY DEF Gone
<1>8. adds <=> LastOne(w) /\ Rooms # <<>>
  OBVIOUS
<1> HIDE DEF u, d, adds, e
<1>9. /\ leaving' \in [Sockets -> Leavings] /\ calls' \in [RoomSet -> Seq(Calls)]
      /\ leaving'[w] = IF adds THEN [user |-> u, rooms |-> Rooms] ELSE Nothing
      /\ \A y \in Sockets \ {w} : leaving'[y] = leaving[y]
      /\ adds => Head(Rooms) \in RoomSet /\ Extended(Head(Rooms), d[Head(Rooms)], e)
      /\ Step(d, adds, Head(Rooms), e)
  <2>1. CASE LastOne(w)
    <3>1. Without(d, calls)
      BY <1>1, <1>5 DEF Without, PresenceTyped
    <3>2. Tell(w, u, Rooms, calls) /\ u \in Users
      BY <1>3, <1>4, <2>1
    <3>3. adds <=> Rooms # <<>>
      BY <1>8, <2>1
    <3>4. /\ leaving' \in [Sockets -> Leavings] /\ calls' \in [RoomSet -> Seq(Calls)]
          /\ leaving'[w] = IF Rooms # <<>> THEN [user |-> u, rooms |-> Rooms] ELSE Nothing
          /\ \A y \in Sockets \ {w} : leaving'[y] = leaving[y]
          /\ Rooms # <<>> => Head(Rooms) \in RoomSet /\ Extended(Head(Rooms), d[Head(Rooms)], e)
          /\ Step(d, Rooms # <<>>, Head(Rooms), e)
      BY <1>1, <1>5, <1>6, <3>1, <3>2, TellStep DEF e
    <3>5. Step(d, adds, Head(Rooms), e)
      BY <3>3, <3>4 DEF Step
    <3> QED
      BY <3>3, <3>4, <3>5
  <2>2. CASE ~LastOne(w)
    <3>1. calls' = calls /\ leaving' = leaving /\ ~adds
      BY <1>3, <1>8, <2>2
    <3>2. \A q \in RoomSet : Shifted(q, d[q])
      BY <1>1, <1>5, <3>1, SameShifts
    <3> QED
      BY <1>1, <1>2, <3>1, <3>2 DEF Step, PresenceTyped
  <2> QED
    BY <2>1, <2>2
<1>10. /\ \A x \in Sockets \ {w} : state'[x] = state[x] /\ signed'[x] = signed[x]
       /\ state'[w] = "closed" /\ signed'[w] = None
       /\ subs' \subseteq subs /\ \A b \in subs' : b.socket \in Sockets \ {w}
       /\ \A x \in Sockets : state'[x] = "open" => x # w /\ state[x] = "open"
  BY <1>1, <1>2 DEF PresenceTyped, SocketsOK, Unsubscribed
<1>11. PresenceTyped'
  <2>1. /\ state' \in [Sockets -> {"new", "open", "closed"}]
        /\ subs' \subseteq [room : RoomSet, socket : Sockets, user : Users]
        /\ phase' \in [Clients -> {"disconnected", "authenticating", "online"}]
    BY <1>1, <1>2, <1>10 DEF PresenceTyped
  <2> QED
    BY <1>1, <1>2, <1>9, <2>1 DEF PresenceTyped
<1>12. LifeOK'
  BY <1>1, <1>9, CloseLife
<1>13. ServedAsSelf'
  BY <1>1, <1>2, <1>10 DEF ServedAsSelf
<1>14. CallsOK'
  <2>1. \A q \in RoomSet : \A i \in DOMAIN calls[q] :
          calls[q][i].socket \in Sockets /\ ~(calls[q][i].socket = w /\ ~calls[q][i].on)
    BY <1>1, <1>2, CallTyped DEF CallsOK
  <2>2. \A q \in RoomSet : \A i \in DOMAIN calls[q] : i > d[q] =>
           /\ adds => ~(calls[q][i].socket = e.socket /\ (calls[q][i].on <=> e.on))
           /\ calls[q][i].on => busy'[calls[q][i].socket] = busy[calls[q][i].socket]
           /\ ~calls[q][i].on => leaving'[calls[q][i].socket] = leaving[calls[q][i].socket]
    BY <1>2, <1>7, <1>9, <2>1
  <2>3. PresenceTyped /\ CallsOK /\ d \in [RoomSet -> {0, 1}] /\ Step(d, adds, Head(Rooms), e)
    BY <1>1, <1>5, <1>9
  <2>4. adds => /\ e.on => /\ busy'[e.socket].step = "queued"
                           /\ busy'[e.socket].user = e.user /\ busy'[e.socket].room = Head(Rooms)
                /\ ~e.on => /\ leaving'[e.socket].user = e.user
                            /\ leaving'[e.socket].rooms # <<>>
                            /\ Head(leaving'[e.socket].rooms) = Head(Rooms)
    BY <1>7, <1>8, <1>9
  <2> QED
    BY <2>2, <2>3, <2>4, CallsMoved
<1>15. SubscribedAsSelf'
  BY <1>1, <1>2, <1>10 DEF SubscribedAsSelf
<1>16. GoneInv'
  <2> SUFFICES ASSUME NEW v \in Users, v \notin strayed, ~Here(v)', NEW q \in RoomSet
               PROVE  (Yet(q, v) \/ OffComes(q, v))'
    BY <1>2 DEF GoneInv
  <2>1. CASE Here(v)
    <3>1. u = v /\ \A x \in Sockets \ {w} : ~(state[x] = "open" /\ player[x] = v)
      BY <1>2, <1>10, <2>1 DEF Here, u
    <3>2. clients'[v] = {}
      <4>1. clients'[v] = clients[v] \ {w}
        BY <1>2, <3>1 DEF u
      <4>2. ASSUME NEW x \in clients[v], x # w PROVE FALSE
        <5>1. x \in Sockets /\ signed[x] = v
          BY <1>1, <4>2 DEF SocketsOK, Indexed
        <5>2. player[x] = v
          BY <1>1, <5>1 DEF SocketsOK, SignedAsPlayer
        <5>3. state[x] \in {"new", "open", "closed"}
          BY <1>1, <5>1 DEF PresenceTyped
        <5> QED
          BY <1>1, <3>1, <4>2, <5>1, <5>2, <5>3 DEF LifeOK
      <4> QED
        BY <4>1, <4>2
    <3>3. LastOne(w)
      BY <3>1, <3>2 DEF LastOne, u
    <3>4. PICK i \in DOMAIN Rooms : Rooms[i] = q
      BY DEF RoomSet
    <3>5. i \in 1..Len(Rooms) /\ Len(Rooms) \in Nat /\ Rooms # <<>> /\ adds
      BY <1>6, <1>8, <3>3, <3>4
    <3>6. CASE i = 1
      <4>1. Extended(q, d[q], e) /\ d[q] \in {0, 1}
        BY <1>5, <1>6, <1>9, <3>4, <3>5, <3>6
      <4> QED
        BY <1>1, <1>7, <3>1, <4>1, OffComesTold
    <3>7. CASE i # 1
      <4>1. i \in 2..Len(Rooms)
        BY <3>5, <3>7
      <4>2. leaving'[w].user = v /\ leaving'[w].rooms = Rooms
        BY <1>9, <3>1, <3>5
      <4> QED
        BY <3>4, <4>1, <4>2 DEF Yet
    <3> QED
      BY <3>6, <3>7
  <2>2. CASE Yet(q, v)
    <3>1. \A y \in Sockets : leaving[y].user = v => leaving'[y] = leaving[y]
      BY <1>2, <1>9
    <3> QED
      BY <2>2, <3>1 DEF Yet
  <2>3. CASE OffComes(q, v)
    <3>1. adds /\ e.on => e.user # v
      BY <1>7
    <3>2. <<q, v>> \in connected' => \/ <<q, v>> \in connected
                                     \/ d[q] = 1 /\ calls[q][1].on /\ calls[q][1].user = v
      BY <1>2
    <3>3. d[q] = 1 /\ calls[q][1].user = v /\ ~calls[q][1].on => <<q, v>> \notin connected'
      BY <1>5
    <3> QED
      BY SMTT(30), <1>1, <1>5, <1>9, <2>3, <3>1, <3>2, <3>3, OffComesMoves
  <2> QED
    BY <1>1, <2>1, <2>2, <2>3 DEF GoneInv
<1>17. ASSUME NEW x \in Sockets, state'[x] = "open", signed[x] # None, adds
       PROVE  u # signed[x]
  <2>1. clients'[u] = {} /\ u \in Users
    BY <1>4, <1>8, <1>17 DEF LastOne, u
  <2>2. x # w
    BY <1>10, <1>17
  <2>3. ASSUME u = signed[x] PROVE FALSE
    <3>1. x \in clients[u]
      BY <1>1, <2>1, <2>3 DEF SocketsOK, Indexed
    <3> QED
      BY <1>2, <2>1, <2>2, <3>1
  <2> QED
    BY <2>3
<1>18. HereInv'
  <2>1. OneRoomLeft'
    <3> SUFFICES ASSUME NEW x \in Sockets, NEW y \in Sockets, state'[x] = "open",
                        signed'[x] # None, signed'[x] \notin overtaken,
                        leaving'[y].user = signed'[x]
                 PROVE  Len(leaving'[y].rooms) <= 1
      BY <1>2 DEF OneRoomLeft
    <3>1. state[x] = "open" /\ signed'[x] = signed[x]
      BY <1>10
    <3>2. CASE y # w
      BY <1>1, <1>9, <3>1, <3>2 DEF HereInv, OneRoomLeft
    <3>3. CASE y = w
      <4>1. adds
        BY <1>9, <3>3
      <4>2. leaving'[w].user = u
        BY <1>9, <4>1
      <4> QED
        BY <1>17, <3>1, <3>3, <4>1, <4>2
    <3> QED
      BY <3>2, <3>3
  <2>2. ASSUME NEW x \in Sockets, state'[x] = "open", NEW v \in Users, v = signed[x],
               NEW q \in RoomSet, Shown(q, v)
        PROVE  Shown(q, v)'
    <3>1. adds => e.on \/ e.user # v
      BY <1>7, <1>17, <2>2
    <3>2. <<q, v>> \notin connected' => d[q] = 1 /\ calls[q][1].user = v /\ ~calls[q][1].on
      BY <1>2, <2>2 DEF Shown
    <3> QED
      BY <1>1, <1>5, <1>9, <2>2, <3>1, <3>2, ShownMoves
  <2>3. DispatchedShown'
    <3> SUFFICES ASSUME NEW x \in Sockets, state'[x] = "open", busy[x].step = "dispatched",
                        busy[x].user \notin overtaken,
                        NEW q, q = busy[x].room, NEW v, v = busy[x].user
                 PROVE  Shown(q, v)'
      BY <1>2 DEF DispatchedShown, Shown, OffAfter
    <3>1. q \in RoomSet /\ v \in Users /\ signed[x] = v /\ Shown(q, v)
      BY <1>1, <1>10 DEF ServedAsSelf, HereInv, DispatchedShown
    <3> QED
      BY <2>2, <3>1
  <2>4. ListenersShown'
    <3> SUFFICES ASSUME NEW b \in subs', state'[b.socket] = "open", b.user \notin overtaken,
                        NEW q, q = b.room, NEW v, v = b.user
                 PROVE  Shown(q, v)'
      BY <1>2 DEF ListenersShown, Shown, OffAfter
    <3>1. /\ b.socket \in Sockets /\ q \in RoomSet /\ v \in Users
          /\ signed[b.socket] = v /\ Shown(q, v)
      BY <1>1, <1>10 DEF PresenceTyped, SubscribedAsSelf, HereInv, ListenersShown
    <3> QED
      BY <2>2, <3>1
  <2>5. QueuedLast'
    <3>1. \A x \in Sockets :
            state'[x] = "open" /\ signed[x] # None /\ signed[x] \notin overtaken /\ adds
              => e.on \/ e.user # signed[x]
      BY <1>7, <1>17
    <3>2. /\ PresenceTyped /\ CallsOK /\ ServedAsSelf /\ QueuedLast
          /\ d \in [RoomSet -> {0, 1}] /\ Step(d, adds, Head(Rooms), e)
      BY <1>1, <1>5, <1>9 DEF HereInv
    <3>3. /\ overtaken' = overtaken
          /\ \A x \in Sockets : state'[x] = "open" => state[x] = "open"
      BY <1>2, <1>10
    <3> QED
      BY <3>1, <3>2, <3>3, QueuedMoves
  <2> QED
    BY <2>1, <2>3, <2>4, <2>5 DEF HereInv
<1> QED
  BY <1>11, <1>12, <1>13, <1>14, <1>15, <1>16, <1>18 DEF PresInv

-----------------------------------------------------------------------------
\* A client that says nothing, and does not come back over the same socket.
LEMMA LifeStays ==
  ASSUME LifeOK,
         UNCHANGED <<state, queue, busy, leaving, token, signed, strayed>>,
         \A c \in Clients :
           /\ conn'[c] \in {conn[c], None} /\ pending'[c] \in {pending[c], None}
           /\ phase[c] = "disconnected" => phase'[c] = "disconnected"
  PROVE  LifeOK'
<1>1. \A w \in Sockets : w # None
  BY ConnectionsAssumption
<1>2. \A w \in Sockets : Silent(w) => Silent(w)'
  BY <1>1 DEF Silent
<1>3. \A w \in Sockets : (\A c \in Clients : conn[c] # w) => (\A c \in Clients : conn'[c] # w)
  BY <1>1
<1>4. \A c, d \in Clients : conn'[c] = conn'[d] /\ conn'[c] # None => c = d
  BY DEF LifeOK
<1>5. \A c \in Clients : pending'[c] # None => pending'[c].type # "logout"
  BY DEF LifeOK
<1> QED
  BY <1>2, <1>3, <1>4, <1>5 DEF LifeOK

\* A client sends over its socket; with a logout it falls silent.
LEMMA SendLife ==
  ASSUME LifeOK, WireOK, PresenceTyped, NEW c \in Clients, Attached(c), NEW command,
         Sends(c, command),
         UNCHANGED <<state, busy, leaving, token, signed, strayed, conn>>,
         \/ phase' = phase /\ command.type # "logout"
         \/ phase' = [phase EXCEPT ![c] = "disconnected"],
         \A b \in Clients : pending'[b] # None => pending'[b].type # "logout"
  PROVE  LifeOK'
<1>0. PICK w \in Sockets : w = conn[c]
  BY DEF WireOK, Attached
<1>1. /\ w \in Sockets /\ w # None /\ ~Silent(w)
      /\ queue \in [Sockets -> Seq(Sent)] /\ queue' = [queue EXCEPT ![w] = Append(@, command)]
  BY <1>0, ConnectionsAssumption DEF WireOK, Attached, Sends, Silent
<1>2. \A b \in Clients : phase[b] = "disconnected" => phase'[b] = "disconnected"
  BY DEF PresenceTyped
<1>3. \A x \in Sockets : Silent(x) => Silent(x)'
  BY <1>2 DEF Silent
<1>4. \A b \in Clients : conn[b] = w => b = c
  BY <1>0, <1>1 DEF LifeOK
<1>5. command.type = "logout" => Silent(w)'
  BY <1>4 DEF Silent, PresenceTyped
<1>6. /\ queue'[w] = Append(queue[w], command) /\ queue[w] \in Seq(Sent)
      /\ \A x \in Sockets \ {w} : queue'[x] = queue[x]
  BY <1>1
<1>7. ASSUME NEW i \in DOMAIN queue'[w], queue'[w][i].type = "logout"
      PROVE  i = Len(queue'[w]) /\ Silent(w)'
  <2>1. /\ Len(queue'[w]) = Len(queue[w]) + 1 /\ Len(queue[w]) \in Nat
        /\ i \in 1..(Len(queue[w]) + 1) /\ DOMAIN queue[w] = 1..Len(queue[w])
        /\ \A j \in 1..Len(queue[w]) : queue'[w][j] = queue[w][j]
        /\ queue'[w][Len(queue[w]) + 1] = command
    BY <1>6
  <2>2. \A j \in DOMAIN queue[w] : queue[w][j].type # "logout"
    BY <1>1 DEF LifeOK
  <2>3. i = Len(queue[w]) + 1
    BY <1>7, <2>1, <2>2
  <2> QED
    BY <1>5, <1>7, <2>1, <2>3
<1>8. state[w] # "new"
  BY <1>0, <1>1 DEF LifeOK
<1>9. ~(state[w] = "open" /\ token[w] # None /\ signed[w] = None)
  BY <1>1 DEF LifeOK
<1>10. ASSUME NEW x \in Sockets
       PROVE  /\ state'[x] = "new" =>
                   /\ token'[x] = None /\ signed'[x] = None /\ queue'[x] = <<>> /\ busy'[x] = Idle
                   /\ \A b \in Clients : conn'[b] # x
              /\ state'[x] # "closed" => leaving'[x] = Nothing
              /\ signed'[x] # None /\ state'[x] = "closed" => signed'[x] \in strayed'
              /\ \A i \in DOMAIN queue'[x] :
                   queue'[x][i].type = "logout" => i = Len(queue'[x]) /\ Silent(x)'
              /\ state'[x] = "open" /\ token'[x] # None /\ signed'[x] = None =>
                   queue'[x] = <<>> /\ Silent(x)'
  <2>1. CASE x = w
    <3>1. /\ state[w] # "closed" => leaving[w] = Nothing
          /\ signed[w] # None /\ state[w] = "closed" => signed[w] \in strayed
      BY <1>1 DEF LifeOK
    <3>2. /\ state'[w] = state[w] /\ leaving'[w] = leaving[w] /\ signed'[w] = signed[w]
          /\ token'[w] = token[w] /\ strayed' = strayed
      OBVIOUS
    <3> QED
      BY <1>7, <1>8, <1>9, <2>1, <3>1, <3>2
  <2>2. CASE x # w
    BY <1>3, <1>6, <2>2 DEF LifeOK
  <2> QED
    BY <2>1, <2>2
<1> QED
  BY <1>10 DEF LifeOK

\* A client connects over a fresh socket.
LEMMA ConnectPresence ==
  ASSUME ConnInv, PresInv, NEW c \in Clients, Connect(c)
  PROVE  PresInv'
<1> USE NothingTyped
<1>1. /\ PresenceTyped /\ LifeOK /\ ServedAsSelf /\ CallsOK /\ SubscribedAsSelf /\ GoneInv /\ HereInv
      /\ SocketsOK /\ WireOK
  BY DEF PresInv, ConnInv
<1>2. PICK w \in Sockets : /\ state[w] = "new"
                           /\ state' = [state EXCEPT ![w] = "open"]
                           /\ conn' = [conn EXCEPT ![c] = w]
                           /\ queue' = [queue EXCEPT ![w] =
                                IF held[c] = None THEN <<>> ELSE <<Command("auth", held[c])>>]
  BY DEF Connect
<1>3. /\ UNCHANGED <<busy, leaving, player, token, signed, subs, calls, connected,
                     pending, strayed, overtaken>>
      /\ phase' = [phase EXCEPT ![c] = "authenticating"]
  BY DEF Connect, presence, history
<1>4. /\ token[w] = None /\ signed[w] = None /\ busy[w] = Idle /\ player[w] = None
      /\ leaving[w] = Nothing /\ \A b \in Clients : conn[b] # w
      /\ \A b \in subs : b.socket \in Sockets \ {w}
  <2>1. /\ token[w] = None /\ signed[w] = None /\ busy[w] = Idle /\ player[w] = None
        /\ leaving[w] = Nothing /\ \A b \in Clients : conn[b] # w
    BY <1>1, <1>2 DEF LifeOK, SocketsOK, SignedAsPlayer
  <2> QED
    BY <1>1, <2>1 DEF SubscribedAsSelf, PresenceTyped
<1>5. /\ state'[w] = "open" /\ \A x \in Sockets \ {w} : state'[x] = state[x]
      /\ state' \in [Sockets -> {"new", "open", "closed"}]
      /\ phase' \in [Clients -> {"disconnected", "authenticating", "online"}]
      /\ conn'[c] = w /\ \A b \in Clients \ {c} : conn'[b] = conn[b] /\ phase'[b] = phase[b]
  BY <1>1, <1>2, <1>3 DEF PresenceTyped, WireOK
<1>6. PresenceTyped'
  BY <1>1, <1>3, <1>5 DEF PresenceTyped
<1>7. LifeOK'
  <2>1. \A x \in Sockets \ {w} : Silent(x) => Silent(x)'
    BY <1>5 DEF Silent
  <2>2. \A x \in Sockets \ {w} : (\A b \in Clients : conn[b] # x) => (\A b \in Clients : conn'[b] # x)
    BY <1>5
  <2>3. \A a, b \in Clients : conn'[a] = conn'[b] /\ conn'[a] # None => a = b
    BY <1>1, <1>4, <1>5 DEF LifeOK
  <2>4. \A i \in DOMAIN queue'[w] : queue'[w][i].type # "logout"
    <3>1. queue'[w] = IF held[c] = None THEN <<>> ELSE <<Command("auth", held[c])>>
      BY <1>1, <1>2 DEF WireOK
    <3> QED
      BY <3>1 DEF Command
  <2>5. \A x \in Sockets \ {w} : queue'[x] = queue[x]
    BY <1>1, <1>2 DEF WireOK
  <2>6. ASSUME NEW x \in Sockets
        PROVE  /\ state'[x] = "new" =>
                    /\ token'[x] = None /\ signed'[x] = None /\ queue'[x] = <<>> /\ busy'[x] = Idle
                    /\ \A b \in Clients : conn'[b] # x
               /\ state'[x] # "closed" => leaving'[x] = Nothing
               /\ signed'[x] # None /\ state'[x] = "closed" => signed'[x] \in strayed'
               /\ \A i \in DOMAIN queue'[x] :
                    queue'[x][i].type = "logout" => i = Len(queue'[x]) /\ Silent(x)'
               /\ state'[x] = "open" /\ token'[x] # None /\ signed'[x] = None =>
                    queue'[x] = <<>> /\ Silent(x)'
    <3>1. CASE x = w
      BY <1>3, <1>4, <1>5, <2>4, <3>1
    <3>2. CASE x # w
      BY <1>1, <1>3, <1>5, <2>1, <2>2, <2>5, <3>2 DEF LifeOK
    <3> QED
      BY <3>1, <3>2
  <2> QED
    BY <1>1, <1>3, <2>3, <2>6 DEF LifeOK
<1>8. ServedAsSelf'
  BY <1>1, <1>3, <1>4, <1>5 DEF ServedAsSelf
<1>9. CallsOK'
  BY <1>1, <1>3, CallsKept
<1>10. SubscribedAsSelf'
  BY <1>1, <1>3, <1>4, <1>5 DEF SubscribedAsSelf
<1>11. GoneInv'
  <2>1. \A v : Here(v) => Here(v)'
    BY <1>2, <1>3, <1>5 DEF Here
  <2> QED
    BY <1>1, <1>3, <2>1 DEF GoneInv, Yet, OffComes, OffAfter
<1>12. OneRoomLeft'
  BY <1>1, <1>3, <1>4, <1>5 DEF HereInv, OneRoomLeft
<1>13. DispatchedShown' /\ ListenersShown'
  BY <1>1, <1>3, <1>4, <1>5 DEF HereInv, DispatchedShown, ListenersShown, Shown, OffAfter
<1>14. QueuedLast'
  <2>1. \A r \in RoomSet : \A i \in DOMAIN calls[r] :
          calls[r][i].on => calls[r][i].socket \in Sockets \ {w}
    BY <1>1, <1>4, CallTyped DEF CallsOK
  <2> QED
    BY <1>1, <1>3, <1>5, <2>1 DEF HereInv, QueuedLast, OffAfter
<1> QED
  BY <1>6, <1>7, <1>8, <1>9, <1>10, <1>11, <1>12, <1>13, <1>14 DEF PresInv, HereInv

LEMMA ClientPresence ==
  ASSUME ConnInv, PresInv, NEW c \in Clients, ClientStep(c)
  PROVE  PresInv'
<1>1. /\ PresenceTyped /\ LifeOK /\ ServedAsSelf /\ CallsOK /\ SubscribedAsSelf /\ GoneInv /\ HereInv
      /\ WireOK
  BY DEF PresInv, ConnInv
<1>2. CASE Connect(c)
  BY <1>2, ConnectPresence
<1>3. ASSUME LifeOK', UNCHANGED <<state, busy, leaving, player, signed, subs, calls, connected,
                                  strayed, overtaken>>,
             phase' \in [Clients -> {"disconnected", "authenticating", "online"}]
      PROVE  PresInv'
  <2>1. PresenceTyped'
    BY <1>1, <1>3 DEF PresenceTyped
  <2>2. ServedAsSelf' /\ CallsOK' /\ SubscribedAsSelf' /\ GoneInv' /\ HereInv'
    BY <1>1, <1>3, PresenceKept
  <2> QED
    BY <1>3, <2>1, <2>2 DEF PresInv
<1>4. CASE LoseConnection(c)
  <2>1. /\ UNCHANGED <<state, queue, busy, leaving, player, token, signed, subs, calls, connected,
                       pending, strayed, overtaken>>
        /\ conn' = [conn EXCEPT ![c] = None] /\ phase' = [phase EXCEPT ![c] = "disconnected"]
    BY <1>4 DEF LoseConnection, sockets, presence, history
  <2>2. \A b \in Clients : /\ conn'[b] \in {conn[b], None} /\ pending'[b] \in {pending[b], None}
                           /\ phase[b] = "disconnected" => phase'[b] = "disconnected"
    BY <1>1, <2>1 DEF WireOK, PresenceTyped
  <2>3. LifeOK'
    BY <1>1, <2>1, <2>2, LifeStays
  <2> QED
    BY <1>1, <1>3, <2>1, <2>3 DEF PresenceTyped
<1>5. CASE Receive(c)
  <2>1. /\ UNCHANGED <<state, queue, busy, leaving, player, token, signed, subs, calls, connected,
                       conn, strayed, overtaken>>
        /\ pending' = [pending EXCEPT ![c] = None] \/ pending' = pending
        /\ \/ phase[c] # "disconnected" /\ phase' = [phase EXCEPT ![c] = "online"]
           \/ phase' = [phase EXCEPT ![c] = "disconnected"]
           \/ phase' = phase
    BY <1>5 DEF Receive, sockets, presence, history
  <2>2. \A b \in Clients : /\ conn'[b] \in {conn[b], None} /\ pending'[b] \in {pending[b], None}
                           /\ phase[b] = "disconnected" => phase'[b] = "disconnected"
    BY <1>1, <2>1 DEF WireOK, PresenceTyped
  <2>3. LifeOK'
    BY <1>1, <2>1, <2>2, LifeStays
  <2>4. phase' \in [Clients -> {"disconnected", "authenticating", "online"}]
    BY <1>1, <2>1 DEF PresenceTyped
  <2> QED
    BY <1>3, <2>1, <2>3, <2>4
<1>6. ASSUME NEW command, Attached(c), Sends(c, command), SameServer, UNCHANGED conn,
             \/ phase' = phase /\ command.type # "logout"
             \/ phase' = [phase EXCEPT ![c] = "disconnected"],
             \/ pending' = [pending EXCEPT ![c] = None]
             \/ pending' = [pending EXCEPT ![c] = command] /\ command.type # "logout"
             \/ pending' = pending
      PROVE  PresInv'
  <2>1. UNCHANGED <<state, busy, leaving, player, token, signed, subs, calls, connected,
                    strayed, overtaken>>
    BY <1>6 DEF SameServer, presence, history
  <2>2. \A b \in Clients : pending'[b] # None => pending'[b].type # "logout"
    BY <1>1, <1>6 DEF WireOK, LifeOK
  <2>3. LifeOK'
    BY <1>1, <1>6, <2>1, <2>2, SendLife
  <2>4. phase' \in [Clients -> {"disconnected", "authenticating", "online"}]
    BY <1>1, <1>6 DEF PresenceTyped
  <2> QED
    BY <1>3, <2>1, <2>3, <2>4
<1>7. ASSUME NEW u \in Users, SendLogin(c, u) PROVE PresInv'
  BY <1>6, <1>7 DEF SendLogin, Command
<1>8. CASE SendRefresh(c)
  BY <1>6, <1>8 DEF SendRefresh, Command
<1>9. CASE Resend(c)
  <2>1. pending[c].type # "logout"
    BY <1>1, <1>9 DEF Resend, LifeOK
  <2> QED
    BY <1>6, <1>9, <2>1 DEF Resend, client
<1>10. CASE SendLogout(c)
  BY <1>6, <1>10 DEF SendLogout
<1>11. ASSUME NEW r \in RoomSet, SendReconnect(c, r) PROVE PresInv'
  <2>1. Attached(c)
    BY <1>11 DEF SendReconnect, Attached
  <2> QED
    BY <1>6, <1>11, <2>1 DEF SendReconnect, Command, client
<1> QED
  BY <1>2, <1>4, <1>5, <1>7, <1>8, <1>9, <1>10, <1>11 DEF ClientStep

\* Every step of sockets, rooms and clients keeps what is known of presence.
LEMMA PresStep ==
  ASSUME ConnInv, PresInv, [Next]_vars
  PROVE  PresInv'
<1>1. ASSUME NEW w \in Sockets, Serve(w)
      PROVE  PresInv'
  BY <1>1, ServePresence, EnterPresence, SubscribePresence DEF Serve
<1>2. ASSUME NEW w \in Sockets, Close(w)
      PROVE  PresInv'
  BY <1>2, ClosePresence
<1>3. ASSUME NEW r \in RoomSet, RunCall(r) \/ CallFails(r)
      PROVE  PresInv'
  <2> DEFINE call == Head(calls[r])
  <2>1. /\ calls[r] # <<>>
        /\ UNCHANGED <<state, queue, player, token, signed, subs, conn, phase, pending, overtaken>>
    BY <1>3 DEF RunCall, CallFails, client, history
  <2>2. CASE call.on
    <3>1. /\ calls' = [calls EXCEPT ![r] = Tail(@)] /\ UNCHANGED <<leaving, strayed>>
          /\ \/ /\ busy' = [busy EXCEPT ![call.socket].step = "dispatched"]
                /\ connected' = connected \cup {<<r, call.user>>}
             \/ /\ busy' = [busy EXCEPT ![call.socket] = Idle]
                /\ connected' = connected
      BY <1>3, <2>2 DEF RunCall, CallFails, Dispatched, history
    <3> QED
      BY <2>1, <2>2, <3>1, OnCallPresence
  <2>3. CASE ~call.on
    <3>1. /\ Tell(call.socket, call.user, Tail(leaving[call.socket].rooms),
                  [calls EXCEPT ![r] = Tail(@)])
          /\ UNCHANGED busy
          /\ \/ connected' = connected \ {<<r, call.user>>} /\ strayed' = strayed
             \/ connected' = connected /\ strayed' = strayed \cup {call.user}
      BY <1>3, <2>3 DEF RunCall, CallFails, Dispatched, history
    <3> QED
      BY <2>1, <2>3, <3>1, OffCallPresence
  <2> QED
    BY <2>2, <2>3
<1>4. ASSUME NEW c \in Clients, ClientStep(c)
      PROVE  PresInv'
  BY <1>4, ClientPresence
<1>5. CASE Operate \/ UNCHANGED vars
  <2>1. /\ PresenceTyped /\ LifeOK /\ ServedAsSelf /\ CallsOK /\ SubscribedAsSelf /\ GoneInv
        /\ HereInv
    BY DEF PresInv
  <2>2. UNCHANGED <<state, queue, busy, leaving, player, token, signed, subs, calls, connected,
                    conn, phase, pending, strayed, overtaken>>
    BY <1>5 DEF Operate, vars, sockets, presence, client, history
  <2>3. LifeOK'
    BY <2>1, <2>2, LifeStays
  <2>4. PresenceTyped'
    BY <2>1, <2>2 DEF PresenceTyped
  <2>5. ServedAsSelf' /\ CallsOK' /\ SubscribedAsSelf' /\ GoneInv' /\ HereInv'
    BY <2>1, <2>2, PresenceKept
  <2> QED
    BY <2>3, <2>4, <2>5 DEF PresInv
<1> QED
  BY <1>1, <1>2, <1>3, <1>4, <1>5 DEF Next

LEMMA PresInvHolds == Spec => [](ConnInv /\ PresInv)
<1>1. Init => ConnInv /\ PresInv
  BY ConnInvInit, PresInvInit
<1>2. ConnInv /\ PresInv /\ [Next]_vars => (ConnInv /\ PresInv)'
  BY ConnStep, PresStep
<1> QED
  BY <1>1, <1>2, PTL DEF Spec

\* The sockets, the index, the rooms' listeners and the connected players are what
\* their declarations say (server.js: the maps of the gateway and of the sessions).
THEOREM ConnectionsTyped == Spec => []TypeOK
<1>1. ASSUME ConnInv, PresInv PROVE TypeOK
  <2>1. AuthTypeOK
    BY <1>1 DEF ConnInv, AuthInv
  <2> QED
    BY <1>1, <2>1 DEF ConnInv, WireOK, SocketsOK, PresInv, PresenceTyped, TypeOK
<1> QED
  BY <1>1, PresInvHolds, PTL

\* However often a socket changes hands while reconnects of its are under way, whoever
\* listens to a room listens as the player the socket is signed in as (server.js:
\* removeClient, gateway.subscribe, the handler of reconnect).
THEOREM SubscribedAsSelfHolds == Spec => []SubscribedAsSelf
<1>1. PresInv => SubscribedAsSelf
  BY DEF PresInv
<1> QED
  BY <1>1, PresInvHolds, PTL

\* Whatever reconnects, closes and dispatches cross in the queues of the rooms, once
\* all is quiet no room shows a player whose last socket closed (server.js: the close
\* handler; strayed names the players it says nothing of).
THEOREM GoneIsOfflineHolds == Spec => []GoneIsOffline
<1>1. ASSUME ConnInv, PresInv PROVE GoneIsOffline
  <2> SUFFICES ASSUME Quiet, NEW seen \in connected, NEW u, u = seen[2], u \notin strayed, ~Here(u)
               PROVE  FALSE
    BY DEF GoneIsOffline, Here
  <2> DEFINE r == seen[1]
  <2>1. seen = <<r, u>> /\ r \in RoomSet /\ u \in Users
    BY <1>1 DEF PresInv, PresenceTyped
  <2>2. \A w \in Sockets : leaving[w].user = None /\ leaving[w].rooms = <<>>
    BY DEF Quiet, Nothing
  <2>3. ~Yet(r, u)
    BY <2>1, <2>2, NothingTyped DEF Yet
  <2>4. OffComes(r, u)
    BY <1>1, <2>1, <2>3 DEF PresInv, GoneInv
  <2>5. PICK j \in DOMAIN calls[r] : calls[r][j].user = u /\ ~calls[r][j].on
    BY <2>1, <2>4 DEF OffComes, OffAfter
  <2>6. calls[r][j].socket \in Sockets
    BY <1>1, <2>1, <2>5, CallTyped DEF PresInv
  <2>7. leaving[calls[r][j].socket].rooms # <<>>
    BY <1>1, <2>1, <2>5 DEF PresInv, CallsOK
  <2> QED
    BY <2>2, <2>6, <2>7
<1> QED
  BY <1>1, PresInvHolds, PTL

\* However many of a player's sockets closed while another one reconnected, once all is
\* quiet the room that the open socket listens to shows the player (server.js: the close
\* handler, the handler of reconnect; overtaken names the players it says nothing of).
THEOREM HereIsOnlineHolds == Spec => []HereIsOnline
<1>1. PresInv => HereIsOnline
  BY DEF PresInv, HereInv, ListenersShown, Shown, HereIsOnline
<1> QED
  BY <1>1, PresInvHolds, PTL
=============================================================================
