------------------------------ MODULE AuthService ------------------------------
(***************************************************************************)
(* Sessions and their tokens, as AuthService keeps them in the memory of a *)
(* server process.  Every operation is synchronous, so each is one step.   *)
(*                                                                         *)
(* A token is the session it was issued for and its number there: a        *)
(* session's tokens come in pairs, an access and a refresh token of the    *)
(* same number.  Time is how old a session's tokens are: in use, the       *)
(* access token lapsed, or both lapsed (accessTtlSeconds is the smaller).  *)
(***************************************************************************)
EXTENDS Integers, FiniteSets

CONSTANTS
  Users, Nobody, Sessions,
  Bannable,     \* the users an operator may ban
  MaxTokens     \* bound: tokens issued for one session

ASSUME AuthAssumption ==
  /\ Nobody \notin Users /\ Bannable \subseteq Users
  /\ MaxTokens \in Nat \ {0}

VARIABLES
  owner,        \* the user of each session, or Nobody before the login
  issued,       \* how many pairs of tokens each session has had
  age,          \* 0: in use, 1: the access token lapsed, 2: the refresh token too
  revoked,      \* the sessions with revokedAt
  banned,       \* bannedUsers
  access,       \* accessTokens
  refreshes,    \* refreshTokens
  used          \* usedRefreshTokens

auth == <<owner, issued, age, revoked, banned, access, refreshes, used>>

Tokens == Sessions \X (1..MaxTokens)
Current(s) == <<s, issued[s]>>

AuthInit ==
  /\ owner = [s \in Sessions |-> Nobody]
  /\ issued = [s \in Sessions |-> 0]
  /\ age = [s \in Sessions |-> 0]
  /\ revoked = {} /\ banned = {}
  /\ access = {} /\ refreshes = {} /\ used = {}

-----------------------------------------------------------------------------
\* login: a session of its own, whatever sessions the user has.
CreateSession(s, u) ==
  /\ owner[s] = Nobody /\ u \notin banned
  /\ owner' = [owner EXCEPT ![s] = u]
  /\ issued' = [issued EXCEPT ![s] = 1]
  /\ access' = access \cup {<<s, 1>>}
  /\ refreshes' = refreshes \cup {<<s, 1>>}
  /\ UNCHANGED <<age, revoked, banned, used>>

\* Mutant: the old refresh token stays in the map.
RotateKeepingOld(s) ==
  /\ issued[s] < MaxTokens
  /\ issued' = [issued EXCEPT ![s] = @ + 1]
  /\ age' = [age EXCEPT ![s] = 0]
  /\ access' = (access \ {Current(s)}) \cup {<<s, issued[s] + 1>>}
  /\ refreshes' = refreshes \cup {<<s, issued[s] + 1>>}
  /\ used' = used \cup {Current(s)}
  /\ UNCHANGED <<owner, revoked, banned>>

\* The old pair is dropped, its refresh token remembered, and the session's time
\* begins anew.
RotateTokens(s) ==
  /\ issued[s] < MaxTokens
  /\ issued' = [issued EXCEPT ![s] = @ + 1]
  /\ age' = [age EXCEPT ![s] = 0]
  /\ access' = (access \ {Current(s)}) \cup {<<s, issued[s] + 1>>}
  /\ refreshes' = (refreshes \ {Current(s)}) \cup {<<s, issued[s] + 1>>}
  /\ used' = used \cup {Current(s)}
  /\ UNCHANGED <<owner, revoked, banned>>

\* revokeSession, for each session of S.
Revoke(S) ==
  /\ revoked' = revoked \cup S
  /\ access' = access \ {Current(s) : s \in S}
  /\ refreshes' = refreshes \ {Current(s) : s \in S}
  /\ UNCHANGED <<owner, issued, age, used>>

-----------------------------------------------------------------------------
\* requireAuth.  Looking at a lapsed token drops it.
Accepts(t) ==
  /\ t \in access /\ t[1] \notin revoked
  /\ age[t[1]] = 0
  /\ owner[t[1]] \notin banned

Lapsed(t) == t \in access /\ t[1] \notin revoked /\ age[t[1]] > 0

RequireAuth(t) ==
  /\ access' = IF Lapsed(t) THEN access \ {t} ELSE access
  /\ UNCHANGED <<owner, issued, age, revoked, banned, refreshes, used>>

\* refresh: the newest token of a session is exchanged for the next pair; a token
\* exchanged before, or too old, ends its session; any other is unknown.
Exchangeable(t) == t \in refreshes /\ t[1] \notin revoked /\ age[t[1]] < 2

Exchange(t) == Exchangeable(t) /\ RotateTokens(t[1])

RefuseRefresh(t) ==
  /\ ~Exchangeable(t)
  /\ IF t \in refreshes \cup used
     THEN Revoke({t[1]}) /\ UNCHANGED banned
     ELSE UNCHANGED auth

\* logout with an access token that is accepted.
Logout(t) == Accepts(t) /\ Revoke({t[1]}) /\ UNCHANGED banned

BanUser(u) ==
  /\ u \in Bannable \ banned
  /\ banned' = banned \cup {u}
  /\ Revoke({s \in Sessions : owner[s] = u})

\* Time passes for a session's tokens.
Age(s) ==
  /\ owner[s] # Nobody
  /\ \E a \in (age[s] + 1)..2 : age' = [age EXCEPT ![s] = a]
  /\ UNCHANGED <<owner, issued, revoked, banned, access, refreshes, used>>

AuthNext ==
  \/ \E s \in Sessions, u \in Users : CreateSession(s, u)
  \/ \E t \in Tokens : RequireAuth(t) \/ Exchange(t) \/ RefuseRefresh(t) \/ Logout(t)
  \/ \E u \in Users : BanUser(u)
  \/ \E s \in Sessions : Age(s)

AuthSpec == AuthInit /\ [][AuthNext]_auth

-----------------------------------------------------------------------------
AuthTypeOK ==
  /\ owner \in [Sessions -> Users \cup {Nobody}]
  /\ issued \in [Sessions -> 0..MaxTokens]
  /\ age \in [Sessions -> 0..2]
  /\ revoked \subseteq Sessions /\ banned \subseteq Bannable
  /\ {access, refreshes, used} \subseteq SUBSET Tokens

\* Whatever is presented in whatever order, a session has one refresh token that
\* can be exchanged, its newest, and none once it is revoked; every older one is
\* remembered, so that it is known when it comes back; and no access token but the
\* newest is in the map (auth/service.js: rotateTokens, refresh, revokeSession).
OneLiveToken ==
  \A s \in Sessions :
    /\ {t \in refreshes : t[1] = s} =
         IF owner[s] = Nobody \/ s \in revoked THEN {} ELSE {Current(s)}
    /\ {t \in used : t[1] = s} = {t \in Tokens : t[1] = s /\ t[2] < issued[s]}
    /\ {t \in access : t[1] = s} \subseteq {t \in refreshes : t[1] = s}
=============================================================================
