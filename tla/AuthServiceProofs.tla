--------------------------- MODULE AuthServiceProofs ---------------------------
(***************************************************************************)
(* What AuthService keeps of its tokens, for any number of users, sessions *)
(* and tokens: AuthSpec => []OneLiveToken.                                 *)
(*                                                                         *)
(* OneLiveToken is about the tokens of a session; the invariant says the   *)
(* same of each token by itself, and that a session without a user has had *)
(* no tokens, so that none of the operations finds it.                     *)
(***************************************************************************)
EXTENDS AuthService, TLAPS

\* A session has had tokens exactly if it has a user, and only such are revoked.
Begun ==
  /\ \A s \in Sessions : owner[s] = Nobody <=> issued[s] = 0
  /\ \A s \in revoked : owner[s] # Nobody

\* Which tokens are in the maps.
InMaps(s, n) ==
  /\ <<s, n>> \in refreshes <=> owner[s] # Nobody /\ s \notin revoked /\ n = issued[s]
  /\ <<s, n>> \in used <=> n < issued[s]
  /\ <<s, n>> \in access => <<s, n>> \in refreshes

AuthInv ==
  /\ AuthTypeOK
  /\ Begun
  /\ \A s \in Sessions, n \in 1..MaxTokens : InMaps(s, n)

\* A token is a session and a number.
LEMMA TokenIsPair ==
  ASSUME NEW t \in Tokens
  PROVE  /\ t = <<t[1], t[2]>>
         /\ t[1] \in Sessions /\ t[2] \in 1..MaxTokens
BY DEF Tokens

\* The first state.
LEMMA AuthInvInit == AuthInit => AuthInv
BY AuthAssumption DEF AuthInit, AuthInv, AuthTypeOK, Begun, InMaps, Tokens

\* A login takes a session that has no tokens yet.
LEMMA CreateSessionStep ==
  ASSUME AuthInv, NEW s \in Sessions, NEW u \in Users, CreateSession(s, u)
  PROVE  AuthInv'
<1> USE AuthAssumption
<1>1. issued[s] = 0 /\ s \notin revoked
  BY DEF AuthInv, Begun, CreateSession
<1>2. AuthTypeOK'
  <2>1. <<s, 1>> \in Tokens
    BY DEF Tokens
  <2> QED
    BY <2>1 DEF AuthInv, AuthTypeOK, CreateSession, Tokens
<1>3. Begun'
  BY <1>1 DEF AuthInv, AuthTypeOK, Begun, CreateSession
<1>4. ASSUME NEW r \in Sessions, NEW n \in 1..MaxTokens
      PROVE  InMaps(r, n)'
  BY <1>1 DEF AuthInv, AuthTypeOK, InMaps, CreateSession
<1> QED
  BY <1>2, <1>3, <1>4 DEF AuthInv

\* The exchange of a token that can be exchanged: it is the newest of its session.
LEMMA RotateStep ==
  ASSUME AuthInv, NEW s \in Sessions, owner[s] # Nobody, s \notin revoked, RotateTokens(s)
  PROVE  AuthInv'
<1> USE AuthAssumption
<1>1. issued[s] \in 1..MaxTokens /\ issued[s] + 1 \in 1..MaxTokens
  BY DEF AuthInv, AuthTypeOK, Begun, RotateTokens
<1>2. AuthTypeOK'
  BY <1>1 DEF AuthInv, AuthTypeOK, RotateTokens, Tokens, Current
<1>3. Begun'
  BY <1>1 DEF AuthInv, AuthTypeOK, Begun, RotateTokens
<1>4. ASSUME NEW r \in Sessions, NEW n \in 1..MaxTokens
      PROVE  InMaps(r, n)'
  <2>1. CASE r = s
    BY <1>1, <2>1 DEF AuthInv, AuthTypeOK, InMaps, RotateTokens, Current
  <2>2. CASE r # s
    BY <1>1, <2>2 DEF AuthInv, AuthTypeOK, InMaps, RotateTokens, Current
  <2> QED
    BY <2>1, <2>2
<1> QED
  BY <1>2, <1>3, <1>4 DEF AuthInv

\* Sessions that have a user are revoked.
LEMMA RevokeStep ==
  ASSUME AuthInv, NEW S \in SUBSET Sessions, \A s \in S : owner[s] # Nobody, Revoke(S),
         banned' \subseteq Bannable
  PROVE  AuthInv'
<1>1. AuthTypeOK'
  BY DEF AuthInv, AuthTypeOK, Revoke
<1>2. Begun'
  BY DEF AuthInv, Begun, Revoke
<1>3. ASSUME NEW r \in Sessions, NEW n \in 1..MaxTokens
      PROVE  InMaps(r, n)'
  BY DEF AuthInv, AuthTypeOK, InMaps, Revoke, Current
<1> QED
  BY <1>1, <1>2, <1>3 DEF AuthInv

\* Every operation keeps the invariant.
THEOREM AuthStep == AuthInv /\ [AuthNext]_auth => AuthInv'
<1> USE AuthAssumption
<1> SUFFICES ASSUME AuthInv, [AuthNext]_auth
             PROVE  AuthInv'
  OBVIOUS
<1>1. ASSUME NEW s \in Sessions, NEW u \in Users, CreateSession(s, u)
      PROVE  AuthInv'
  BY <1>1, CreateSessionStep
<1>2. ASSUME NEW t \in Tokens, RequireAuth(t)
      PROVE  AuthInv'
  BY <1>2 DEF AuthInv, AuthTypeOK, Begun, InMaps, RequireAuth
<1>3. ASSUME NEW t \in Tokens, Exchange(t)
      PROVE  AuthInv'
  <2>1. t = <<t[1], t[2]>> /\ t[1] \in Sessions /\ t[2] \in 1..MaxTokens
    BY TokenIsPair
  <2>2. owner[t[1]] # Nobody /\ t[1] \notin revoked
    BY <1>3, <2>1 DEF Exchange, Exchangeable, AuthInv, InMaps
  <2> QED
    BY <1>3, <2>1, <2>2, RotateStep DEF Exchange
<1>4. ASSUME NEW t \in Tokens, RefuseRefresh(t)
      PROVE  AuthInv'
  <2>1. t = <<t[1], t[2]>> /\ t[1] \in Sessions /\ t[2] \in 1..MaxTokens
    BY TokenIsPair
  <2>2. CASE t \in refreshes \cup used
    <3>1. issued[t[1]] # 0
      BY <2>1, <2>2 DEF AuthInv, AuthTypeOK, Begun, InMaps
    <3>2. owner[t[1]] # Nobody
      BY <2>1, <3>1 DEF AuthInv, Begun
    <3>3. Revoke({t[1]}) /\ banned' \subseteq Bannable
      BY <1>4, <2>2 DEF RefuseRefresh, AuthInv, AuthTypeOK
    <3> QED
      BY <2>1, <3>2, <3>3, RevokeStep
  <2>3. CASE t \notin refreshes \cup used
    BY <1>4, <2>3 DEF RefuseRefresh, auth, AuthInv, AuthTypeOK, Begun, InMaps
  <2> QED
    BY <2>2, <2>3
<1>5. ASSUME NEW t \in Tokens, Logout(t)
      PROVE  AuthInv'
  <2>1. t = <<t[1], t[2]>> /\ t[1] \in Sessions /\ t[2] \in 1..MaxTokens
    BY TokenIsPair
  <2>2. owner[t[1]] # Nobody
    BY <1>5, <2>1 DEF Logout, Accepts, AuthInv, InMaps
  <2>3. Revoke({t[1]}) /\ banned' \subseteq Bannable
    BY <1>5 DEF Logout, AuthInv, AuthTypeOK
  <2> QED
    BY <2>1, <2>2, <2>3, RevokeStep
<1>6. ASSUME NEW u \in Users, BanUser(u)
      PROVE  AuthInv'
  <2> DEFINE S == {s \in Sessions : owner[s] = u}
  <2>1. \A s \in S : owner[s] # Nobody
    OBVIOUS
  <2>2. Revoke(S) /\ banned' \subseteq Bannable
    BY <1>6 DEF BanUser, AuthInv, AuthTypeOK
  <2>3. S \in SUBSET Sessions
    OBVIOUS
  <2> QED
    BY <2>1, <2>2, <2>3, RevokeStep
<1>7. ASSUME NEW s \in Sessions, Age(s)
      PROVE  AuthInv'
  <2>1. AuthTypeOK'
    BY <1>7 DEF Age, AuthInv, AuthTypeOK
  <2> QED
    BY <1>7, <2>1 DEF Age, AuthInv, Begun, InMaps
<1>8. CASE UNCHANGED auth
  BY <1>8 DEF auth, AuthInv, AuthTypeOK, Begun, InMaps, Tokens
<1> QED
  BY <1>1, <1>2, <1>3, <1>4, <1>5, <1>6, <1>7, <1>8 DEF AuthNext

\* The invariant says what OneLiveToken says.
LEMMA InvGivesOneLiveToken == AuthInv => OneLiveToken
<1> SUFFICES ASSUME AuthInv, NEW s \in Sessions
             PROVE  /\ {t \in refreshes : t[1] = s} =
                         IF owner[s] = Nobody \/ s \in revoked THEN {} ELSE {Current(s)}
                    /\ {t \in used : t[1] = s} = {t \in Tokens : t[1] = s /\ t[2] < issued[s]}
                    /\ {t \in access : t[1] = s} \subseteq {t \in refreshes : t[1] = s}
  BY DEF OneLiveToken
<1>1. \A t \in refreshes \cup used \cup access :
        t \in Tokens /\ t = <<t[1], t[2]>> /\ t[1] \in Sessions /\ t[2] \in 1..MaxTokens
  BY TokenIsPair DEF AuthInv, AuthTypeOK
<1>2. {t \in refreshes : t[1] = s} =
        IF owner[s] = Nobody \/ s \in revoked THEN {} ELSE {Current(s)}
  <2>1. CASE owner[s] = Nobody \/ s \in revoked
    BY <1>1, <2>1 DEF AuthInv, InMaps
  <2>2. CASE ~(owner[s] = Nobody \/ s \in revoked)
    <3>1. issued[s] \in 1..MaxTokens
      BY <2>2 DEF AuthInv, AuthTypeOK, Begun
    <3>2. Current(s) \in refreshes /\ Current(s)[1] = s
      BY <2>2, <3>1 DEF AuthInv, InMaps, Current
    <3>3. \A t \in refreshes : t[1] = s => t = Current(s)
      BY <1>1, <3>1 DEF AuthInv, InMaps, Current
    <3> QED
      BY <2>2, <3>2, <3>3
  <2> QED
    BY <2>1, <2>2
<1>3. {t \in used : t[1] = s} = {t \in Tokens : t[1] = s /\ t[2] < issued[s]}
  <2>1. \A t \in used : t[1] = s => t[2] < issued[s]
    BY <1>1 DEF AuthInv, InMaps
  <2>2. \A t \in Tokens : t[1] = s /\ t[2] < issued[s] => t \in used
    BY TokenIsPair DEF AuthInv, InMaps
  <2> QED
    BY <1>1, <2>1, <2>2
<1>4. {t \in access : t[1] = s} \subseteq {t \in refreshes : t[1] = s}
  BY <1>1 DEF AuthInv, InMaps
<1> QED
  BY <1>2, <1>3, <1>4

\* Whatever tokens are presented in whatever order, of each session at most the newest
\* can be exchanged, and those exchanged before are all remembered (auth/service.js:
\* rotateTokens, refresh, revokeSession).
THEOREM OneLiveTokenHolds == AuthSpec => []OneLiveToken
<1>1. AuthSpec => []AuthInv
  BY AuthInvInit, AuthStep, PTL DEF AuthSpec
<1> QED
  BY <1>1, InvGivesOneLiveToken, PTL
=============================================================================
