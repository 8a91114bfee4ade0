----------------------------- MODULE GateProofs -----------------------------
(***************************************************************************)
(* What HEMGate guarantees for any number of players and connections,      *)
(* whether or not connections overlap and answers come late: an account    *)
(* has one resume token at most, a launch revokes the leases of another,   *)
(* and a connection loses its authorization only by quitting.              *)
(***************************************************************************)
EXTENDS Gate, TLAPS

\* Bukkit finds a player under its UUID only while that connection is online.
CurrentIsOnline ==
    \A p \in Players : current[p] # 0 => <<p, current[p]>> \in online

\* A pending lease request captured the lease of a real launch.
PendingIsReal ==
    \A c \in Connections :
        pendingLeaseRequests[c] # NoLease => pendingLeaseRequests[c].launch # 0

GateInv == TypeOK /\ CurrentIsOnline /\ PendingIsReal /\ OneLease

LEMMA FreshType ==
    ASSUME TypeOK, NEW n \in 0 .. MaxConnections
    PROVE  Fresh(n) \in Lease
BY BoundsAssumption DEF Fresh, Lease, TypeOK

LEMMA NoLeaseType == NoLease \in Lease
BY BoundsAssumption DEF NoLease, Lease

\* A cleanup yields maps of the right types ...
LEMMA CleanupType ==
    ASSUME TypeOK
    PROVE  /\ KeptLeases \in [Players -> [Tokens -> Lease]]
           /\ KeptTokens \in [Players -> 0 .. MaxTokens]
           /\ KeptSessions \in [Players -> Lease]
BY NoLeaseType, BoundsAssumption
   DEF KeptLeases, KeptTokens, KeptSessions, TypeOK

\* ... that still agree on which token is in use.
LEMMA CleanupOneLease ==
    ASSUME TypeOK, OneLease, NEW p \in Players, NEW t \in Tokens
    PROVE  KeptLeases[p][t] # NoLease <=> t = KeptTokens[p]
<1>1. KeptLeases[p][t] =
        IF Valid(resumeSessions[p][t]) THEN resumeSessions[p][t] ELSE NoLease
  BY DEF KeptLeases
<1>2. Valid(resumeSessions[p][t]) => resumeSessions[p][t] # NoLease
  BY DEF Valid, NoLease
<1>3. resumeSessions[p][t] # NoLease <=> t = activeResumeTokens[p]
  BY DEF OneLease
<1>4. KeptTokens[p] =
        IF \E u \in Tokens : u = activeResumeTokens[p] /\ Valid(resumeSessions[p][u])
        THEN activeResumeTokens[p] ELSE 0
  BY DEF KeptTokens
<1>5. t # 0
  BY DEF Tokens
<1> QED
  BY <1>1, <1>2, <1>3, <1>4, <1>5

LEMMA GateInit == Init => GateInv
BY BoundsAssumption, NoLeaseType
   DEF Init, GateInv, TypeOK, CurrentIsOnline, PendingIsReal, OneLease, Tokens

LEMMA GateStep == GateInv /\ [Next]_vars => GateInv'
<1> SUFFICES ASSUME GateInv, [Next]_vars
             PROVE  GateInv'
  OBVIOUS
<1> USE DEF GateInv
<1>1. ASSUME NEW p \in Players, Join(p)
      PROVE  GateInv'
  <2>1. opened[p] + 1 \in 1 .. MaxConnections
    BY <1>1, BoundsAssumption DEF Join, TypeOK
  <2>2. <<p, opened[p] + 1>> \in Connections
    BY <2>1 DEF Connections
  <2>3. TypeOK'
    <3>1. opened[p] + 1 \in 0 .. MaxConnections
      BY <2>1, BoundsAssumption
    <3>2. /\ opened' \in [Players -> 0 .. MaxConnections]
          /\ current' \in [Players -> 0 .. MaxConnections]
      BY <1>1, <3>1 DEF Join, TypeOK
    <3>3. /\ online' \subseteq Connections
          /\ online \subseteq online'
      BY <1>1, <2>2 DEF Join, TypeOK
    <3> QED
      BY <1>1, <3>2, <3>3 DEF Join, TypeOK, session
  <2>4. CurrentIsOnline'
    BY <1>1 DEF Join, CurrentIsOnline, TypeOK
  <2> QED
    BY <1>1, <2>3, <2>4 DEF Join, PendingIsReal, OneLease, session
<1>2. ASSUME NEW c \in Connections, RegisterChannel(c) \/ KickTimer(c)
      PROVE  GateInv'
  <2>1. TypeOK'
    BY <1>2 DEF RegisterChannel, KickTimer, Speaks, Kick, TypeOK, session
  <2> QED
    BY <1>2, <2>1
       DEF RegisterChannel, KickTimer, CurrentIsOnline, PendingIsReal, OneLease,
           session
<1>3. ASSUME NEW c \in Connections, Quit(c)
      PROVE  GateInv'
  <2>1. c[1] \in Players /\ c[2] \in 1 .. MaxConnections /\ c = <<c[1], c[2]>>
    BY DEF Connections
  <2>2. TypeOK'
    BY <1>3, <2>1, NoLeaseType, BoundsAssumption DEF Quit, TypeOK, session
  <2>3. CurrentIsOnline'
    BY <1>3, <2>1 DEF Quit, CurrentIsOnline, TypeOK
  <2>4. PendingIsReal'
    BY <1>3 DEF Quit, PendingIsReal, TypeOK
  <2> QED
    BY <1>3, <2>2, <2>3, <2>4 DEF Quit, OneLease, session
<1>4. ASSUME NEW c \in Connections, SendAuth(c) \/ HubAnswers(c)
      PROVE  GateInv'
  <2>1. TypeOK'
    <3>1. CASE SendAuth(c)
      <4>1. c[1] \in Players
        BY DEF Connections
      <4>2. [token |-> 0, expires |-> 0] \in
                [token : 0 .. MaxTokens, expires : 0 .. MaxTime + TTL]
        BY BoundsAssumption
      <4>3. held' \in [Players -> [token : 0 .. MaxTokens,
                                   expires : 0 .. MaxTime + TTL]]
        BY <3>1, <4>1, <4>2 DEF SendAuth, TypeOK
      <4> QED
        BY <3>1, <4>3 DEF SendAuth, TypeOK, session
    <3>2. CASE HubAnswers(c)
      BY <3>2 DEF HubAnswers, TypeOK, session
    <3> QED
      BY <1>4, <3>1, <3>2
  <2> QED
    BY <1>4, <2>1
       DEF SendAuth, HubAnswers, CurrentIsOnline, PendingIsReal, OneLease, session
<1>5. ASSUME NEW c \in Connections, ApplyGrant(c)
      PROVE  GateInv'
  <2>1. c[1] \in Players /\ c[2] \in 1 .. MaxConnections
    BY DEF Connections
  <2>2. CASE UNCHANGED <<authenticated, session, profile>>
    BY <1>5, <2>2
       DEF ApplyGrant, session, TypeOK, CurrentIsOnline, PendingIsReal, OneLease
  <2>3. ASSUME NEW d \in Found(c), RevokeActiveResumeSession(c[1]),
               CompleteAuthorization(d, c[2], activeSessions), UNCHANGED minted
        PROVE  GateInv'
    <3>1. d \in online /\ d[1] = c[1]
      BY <2>1 DEF Found, CurrentIsOnline, Connections
    <3>2. /\ authenticated' \subseteq online
          /\ activeSessions' \in [Players -> Lease]
          /\ profile' \in [Players -> 0 .. MaxConnections]
      BY <2>1, <2>3, <3>1, FreshType DEF CompleteAuthorization, TypeOK
    <3>3. /\ activeResumeTokens' \in [Players -> 0 .. MaxTokens]
          /\ resumeSessions' \in [Players -> [Tokens -> Lease]]
      BY <2>1, <2>3, NoLeaseType, BoundsAssumption
         DEF RevokeActiveResumeSession, TypeOK
    <3>4. TypeOK'
      BY <1>5, <2>3, <3>2, <3>3 DEF ApplyGrant, TypeOK
    <3>5. OneLease'
      <4> SUFFICES ASSUME NEW p \in Players, NEW t \in Tokens
                   PROVE  resumeSessions'[p][t] # NoLease <=> t = activeResumeTokens'[p]
        BY DEF OneLease
      <4>1. CASE p = c[1]
        <5>1. resumeSessions'[p][t] =
                IF t = activeResumeTokens[p] THEN NoLease ELSE resumeSessions[p][t]
          BY <2>3, <4>1 DEF RevokeActiveResumeSession, TypeOK
        <5>2. activeResumeTokens'[p] = 0 /\ t # 0
          BY <2>3, <4>1 DEF RevokeActiveResumeSession, TypeOK, Tokens
        <5> QED
          BY <5>1, <5>2 DEF OneLease
      <4>2. CASE p # c[1]
        BY <2>3, <4>2 DEF RevokeActiveResumeSession, TypeOK, OneLease
      <4> QED
        BY <4>1, <4>2
    <3> QED
      BY <1>5, <3>4, <3>5 DEF ApplyGrant, CurrentIsOnline, PendingIsReal
  <2> QED
    BY <1>5, <2>2, <2>3 DEF ApplyGrant
<1>6. ASSUME NEW c \in Connections, ApplyRefusal(c)
      PROVE  GateInv'
  <2>1. TypeOK'
    BY <1>6 DEF ApplyRefusal, Found, Kick, TypeOK, session
  <2> QED
    BY <1>6, <2>1
       DEF ApplyRefusal, CurrentIsOnline, PendingIsReal, OneLease, session
<1>7. ASSUME NEW c \in Connections, Resume(c)
      PROVE  GateInv'
  <2>1. c[1] \in Players /\ c \in online /\ held[c[1]].token \in Tokens
    <3>1. c[1] \in Players
      BY DEF Connections
    <3>2. c \in online /\ held[c[1]].token # 0
      BY <1>7 DEF Resume, Speaks
    <3>3. held[c[1]].token \in 0 .. MaxTokens
      BY <3>1 DEF TypeOK
    <3> QED
      BY <3>1, <3>2, <3>3, BoundsAssumption DEF Tokens
  <2>2. /\ resumeSessions' = KeptLeases
        /\ activeResumeTokens' = KeptTokens
        /\ UNCHANGED <<now, opened, online, current, listening, request, minted,
                       pendingLeaseRequests, held>>
    BY <1>7 DEF Resume
  <2>3. KeptLeases[c[1]][held[c[1]].token] \in Lease
    BY <2>1, CleanupType
  <2>4. /\ authenticated' \subseteq online
        /\ activeSessions' \in [Players -> Lease]
        /\ profile' \in [Players -> 0 .. MaxConnections]
        /\ kicked' \in [Connections -> {"no", "late", "expired", "rejected"}]
    <3> DEFINE lease == KeptLeases[c[1]][held[c[1]].token]
    <3>1. CASE lease = NoLease
      BY <1>7, <3>1, CleanupType DEF Resume, Kick, TypeOK
    <3>2. CASE lease # NoLease
      <4>1. CompleteAuthorization(c, lease.launch, KeptSessions) /\ UNCHANGED kicked
        BY <1>7, <3>2 DEF Resume
      <4>2. lease.launch \in 0 .. MaxConnections
        BY <2>3 DEF Lease
      <4>3. Fresh(lease.launch) \in Lease
        BY <4>2, FreshType
      <4> HIDE DEF lease
      <4> QED
        BY <2>1, <4>1, <4>2, <4>3, CleanupType DEF CompleteAuthorization, TypeOK
    <3> QED
      BY <3>1, <3>2
  <2>5. TypeOK'
    BY <2>2, <2>4, CleanupType DEF TypeOK
  <2>6. OneLease'
    BY <2>2, CleanupOneLease DEF OneLease
  <2> QED
    BY <2>2, <2>5, <2>6 DEF CurrentIsOnline, PendingIsReal
<1>8. ASSUME NEW c \in Connections, RequestLease(c)
      PROVE  GateInv'
  <2>1. c[1] \in Players /\ activeSessions[c[1]] \in Lease
    BY DEF Connections, TypeOK
  <2>2. TypeOK'
    BY <1>8, <2>1 DEF RequestLease, TypeOK, session
  <2>3. PendingIsReal'
    BY <1>8 DEF RequestLease, PendingIsReal, Valid, TypeOK
  <2> QED
    BY <1>8, <2>2, <2>3 DEF RequestLease, CurrentIsOnline, OneLease, session
<1>9. ASSUME NEW c \in Connections, IssueLease(c)
      PROVE  GateInv'
  <2> DEFINE p == c[1]
             source == pendingLeaseRequests[c]
  <2>1. p \in Players /\ source \in Lease /\ source.launch # 0
    BY <1>9 DEF Connections, IssueLease, PendingIsReal, TypeOK
  <2>2. /\ pendingLeaseRequests' = [pendingLeaseRequests EXCEPT ![c] = NoLease]
        /\ activeSessions' = KeptSessions
        /\ UNCHANGED <<now, opened, online, current, kicked, listening, request,
                       authenticated, profile>>
    BY <1>9 DEF IssueLease
  <2>3. /\ pendingLeaseRequests' \in [Connections -> Lease]
        /\ activeSessions' \in [Players -> Lease]
        /\ PendingIsReal'
        /\ CurrentIsOnline'
    BY <2>2, NoLeaseType, CleanupType
       DEF TypeOK, PendingIsReal, CurrentIsOnline
  <2>4. ASSUME NEW t \in Tokens, NEW lease \in Lease, Deliver(c, t, lease)
        PROVE  held' \in [Players -> [token : 0 .. MaxTokens,
                                      expires : 0 .. MaxTime + TTL]]
    <3>1. t \in 0 .. MaxTokens /\ lease.expires \in 0 .. MaxTime + TTL
      BY BoundsAssumption DEF Tokens, Lease
    <3>2. [token |-> t, expires |-> lease.expires] \in
              [token : 0 .. MaxTokens, expires : 0 .. MaxTime + TTL]
      BY <3>1
    <3> QED
      BY <2>1, <2>4, <3>2 DEF Deliver, TypeOK
  <2>5. CASE KeptTokens[p] # 0
    <3>1. /\ activeResumeTokens' = KeptTokens
          /\ resumeSessions' = KeptLeases
          /\ Deliver(c, KeptTokens[p], KeptLeases[p][KeptTokens[p]])
          /\ UNCHANGED minted
      BY <1>9, <2>5 DEF IssueLease
    <3>2. KeptTokens[p] \in Tokens
      BY <2>1, <2>5, CleanupType, BoundsAssumption DEF Tokens
    <3>3. KeptLeases[p][KeptTokens[p]] \in Lease
      BY <2>1, <3>2, CleanupType
    <3>4. TypeOK'
      BY <2>2, <2>3, <2>4, <3>1, <3>2, <3>3, CleanupType DEF TypeOK
    <3>5. OneLease'
      BY <3>1, CleanupOneLease DEF OneLease
    <3> QED
      BY <2>3, <3>4, <3>5
  <2>6. CASE KeptTokens[p] = 0
    <3> DEFINE t == minted[p] + 1
               lease == Fresh(source.launch)
    <3>1. /\ minted[p] < MaxTokens
          /\ minted' = [minted EXCEPT ![p] = t]
          /\ activeResumeTokens' = [KeptTokens EXCEPT ![p] = t]
          /\ resumeSessions' = [KeptLeases EXCEPT ![p][t] = lease]
          /\ Deliver(c, t, lease)
      BY <1>9, <2>6 DEF IssueLease
    <3>2. t \in Tokens /\ t \in 0 .. MaxTokens /\ t # 0
      BY <2>1, <3>1, BoundsAssumption, SMTT(30) DEF TypeOK, Tokens
    <3>3. lease \in Lease /\ lease # NoLease
      <4>1. source.launch \in 0 .. MaxConnections
        BY <2>1 DEF Lease
      <4> QED
        BY <2>1, <4>1, FreshType DEF Fresh, NoLease
    <3> HIDE DEF t, lease
    <3>4. /\ minted' \in [Players -> 0 .. MaxTokens]
          /\ activeResumeTokens' \in [Players -> 0 .. MaxTokens]
          /\ resumeSessions' \in [Players -> [Tokens -> Lease]]
      BY <2>1, <3>1, <3>2, <3>3, CleanupType DEF TypeOK
    <3>5. TypeOK'
      BY <2>2, <2>3, <2>4, <3>1, <3>2, <3>3, <3>4 DEF TypeOK
    <3>6. OneLease'
      <4> SUFFICES ASSUME NEW q \in Players, NEW u \in Tokens
                   PROVE  resumeSessions'[q][u] # NoLease
                            <=> u = activeResumeTokens'[q]
        BY DEF OneLease
      <4>1. KeptLeases[q][u] # NoLease <=> u = KeptTokens[q]
        BY CleanupOneLease
      <4>2. u # 0
        BY DEF Tokens
      <4>3. CASE q = p /\ u = t
        BY <2>1, <3>1, <3>3, <4>3, CleanupType
      <4>4. CASE q = p /\ u # t
        <5>1. resumeSessions'[q][u] = KeptLeases[q][u]
          BY <2>1, <3>1, <4>4, CleanupType
        <5>2. activeResumeTokens'[q] = t
          BY <2>1, <3>1, <4>4, CleanupType
        <5> QED
          BY <2>6, <4>1, <4>2, <4>4, <5>1, <5>2
      <4>5. CASE q # p
        BY <3>1, <4>1, <4>5, CleanupType
      <4> QED
        BY <4>3, <4>4, <4>5
    <3> QED
      BY <2>3, <3>5, <3>6
  <2> QED
    BY <2>5, <2>6
<1>10. ASSUME NEW c \in Connections, GiveUpLease(c)
       PROVE  GateInv'
  <2>1. TypeOK' /\ PendingIsReal'
    BY <1>10, NoLeaseType DEF GiveUpLease, TypeOK, PendingIsReal, session
  <2> QED
    BY <1>10, <2>1 DEF GiveUpLease, CurrentIsOnline, OneLease, session
<1>11. ASSUME Tick \/ UNCHANGED vars
       PROVE  GateInv'
  <2>1. TypeOK'
    BY <1>11, BoundsAssumption DEF Tick, vars, TypeOK, session
  <2> QED
    BY <1>11, <2>1
       DEF Tick, vars, CurrentIsOnline, PendingIsReal, OneLease, session
<1> QED
  BY <1>1, <1>2, <1>3, <1>4, <1>5, <1>6, <1>7, <1>8, <1>9, <1>10, <1>11
     DEF Next, Command, HubTask, LeasePoll

(* Types are kept; in particular only an online connection is ever         *)
(* authorized, whoever the hub's answer was for.                           *)
THEOREM GateTypeCorrect == Spec => []TypeOK
<1>1. GateInv => TypeOK
  BY DEF GateInv
<1> QED
  BY <1>1, GateInit, GateStep, PTL DEF Spec

(* An account never has two resume tokens, and the token in use always has *)
(* its lease: the two maps of the plugin agree at every step.              *)
THEOREM TokensAreUnique == Spec => []OneLease
<1>1. GateInv => OneLease
  BY DEF GateInv
<1> QED
  BY <1>1, GateInit, GateStep, PTL DEF Spec

(* No step takes authorization away from a connection that stays online:   *)
(* neither the quit of another connection of the account, nor a second     *)
(* launch, nor the expiry of a lease.                                      *)
THEOREM AuthorizationEndsWithQuit == Spec => AuthorizationLasts
<1>1. ASSUME [Next]_vars
      PROVE  [\A c \in authenticated : c \in authenticated' \/ c \notin online']_vars
  <2>1. ASSUME NEW c \in Connections, Quit(c), NEW d \in authenticated
        PROVE  d \in authenticated' \/ d \notin online'
    BY <2>1 DEF Quit
  <2>2. ASSUME authenticated \subseteq authenticated', NEW d \in authenticated
        PROVE  d \in authenticated' \/ d \notin online'
    BY <2>2
  <2>3. CASE \E p \in Players : Join(p)
    BY <2>2, <2>3 DEF Join
  <2>4. ASSUME NEW c \in Connections,
               \/ RegisterChannel(c)
               \/ KickTimer(c)
               \/ Command(c)
               \/ HubTask(c)
               \/ LeasePoll(c)
        PROVE  authenticated \subseteq authenticated'
    <3>1. CASE RegisterChannel(c) \/ KickTimer(c) \/ LeasePoll(c)
      BY <3>1 DEF RegisterChannel, KickTimer, LeasePoll, IssueLease, GiveUpLease
    <3>2. CASE Command(c)
      BY <3>2 DEF Command, SendAuth, Resume, RequestLease, CompleteAuthorization
    <3>3. CASE HubTask(c)
      BY <3>3 DEF HubTask, HubAnswers, ApplyGrant, ApplyRefusal,
                  CompleteAuthorization
    <3> QED
      BY <2>4, <3>1, <3>2, <3>3
  <2>5. CASE Tick \/ UNCHANGED vars
    BY <2>2, <2>5 DEF Tick, vars
  <2> QED
    BY <1>1, <2>1, <2>2, <2>3, <2>4, <2>5 DEF Next
<1> QED
  BY <1>1, PTL DEF Spec, AuthorizationLasts

-----------------------------------------------------------------------------
(* The leases that browsers store.                                         *)

\* A cleanup does not touch a lease that a browser may still use.
LEMMA CleanupKeepsHeld ==
    ASSUME TypeOK, NEW p \in Players, LeaseWorks(p),
           held[p].token # 0, held[p].expires >= now
    PROVE  /\ held[p].token \in Tokens
           /\ KeptLeases[p][held[p].token] = resumeSessions[p][held[p].token]
           /\ KeptLeases[p][held[p].token] # NoLease
<1>1. held[p].token \in Tokens
  BY BoundsAssumption DEF TypeOK, Tokens
<1>2. Valid(resumeSessions[p][held[p].token])
  BY DEF LeaseWorks, Valid
<1>3. KeptLeases[p][held[p].token] = resumeSessions[p][held[p].token]
  BY <1>1, <1>2 DEF KeptLeases
<1> QED
  BY <1>1, <1>2, <1>3 DEF Valid, NoLease

\* The grant of a launch of the player meets one of their connections.
GrantMeets(p) == \E c \in Connections : c[1] = p /\ ApplyGrant(c) /\ Found(c) # {}

LEMMA LeaseWorksStep ==
    ASSUME GateInv, [Next]_vars, NEW p \in Players, LeaseWorks(p),
           ~GrantMeets(p)
    PROVE  LeaseWorks(p)'
<1>1. TypeOK
  BY DEF GateInv
<1>2. CASE UNCHANGED <<now, resumeSessions, held>>
  BY <1>2 DEF LeaseWorks
<1>3. ASSUME NEW c \in Connections, SendAuth(c)
      PROVE  LeaseWorks(p)'
  <2>1. /\ c[1] \in Players
        /\ held' = [held EXCEPT ![c[1]] = [token |-> 0, expires |-> 0]]
        /\ UNCHANGED <<now, resumeSessions>>
    BY <1>3 DEF SendAuth, session, Connections
  <2>2. held'[p] = held[p] \/ held'[p].token = 0
    BY <1>1, <2>1 DEF TypeOK
  <2> QED
    BY <2>1, <2>2 DEF LeaseWorks
<1>4. ASSUME NEW c \in Connections, ApplyGrant(c)
      PROVE  LeaseWorks(p)'
  <2>1. UNCHANGED <<now, held>>
    BY <1>4 DEF ApplyGrant
  <2>2. CASE UNCHANGED session
    BY <1>2, <2>1, <2>2 DEF session
  <2>3. ASSUME NEW d \in Found(c), RevokeActiveResumeSession(c[1])
        PROVE  LeaseWorks(p)'
    <3>1. c[1] # p
      BY <1>4, <2>3 DEF GrantMeets
    <3>2. resumeSessions'[p] = resumeSessions[p]
      BY <1>1, <2>3, <3>1 DEF RevokeActiveResumeSession, TypeOK
    <3> QED
      BY <2>1, <3>2 DEF LeaseWorks
  <2> QED
    BY <1>4, <2>2, <2>3 DEF ApplyGrant
<1>5. ASSUME NEW c \in Connections, Resume(c)
      PROVE  LeaseWorks(p)'
  <2>1. resumeSessions' = KeptLeases /\ UNCHANGED <<now, held>>
    BY <1>5 DEF Resume
  <2> QED
    BY <1>1, <2>1, CleanupKeepsHeld DEF LeaseWorks
<1>6. ASSUME NEW c \in Connections, IssueLease(c)
      PROVE  LeaseWorks(p)'
  <2> DEFINE source == pendingLeaseRequests[c]
  <2>1. /\ c[1] \in Players
        /\ source \in Lease /\ source.launch # 0
        /\ UNCHANGED now
    BY <1>1, <1>6 DEF IssueLease, TypeOK, Connections, GateInv, PendingIsReal
  <2>2. ASSUME held'[p] = held[p]
        PROVE  LeaseWorks(p)'
    <3> SUFFICES ASSUME held[p].token # 0, held[p].expires >= now
                 PROVE  /\ resumeSessions'[p][held[p].token].launch # 0
                        /\ resumeSessions'[p][held[p].token].expires
                             = held[p].expires
      BY <2>1, <2>2 DEF LeaseWorks
    <3> DEFINE t == held[p].token
    <3>1. /\ t \in Tokens
          /\ KeptLeases[p][t] = resumeSessions[p][t]
          /\ KeptLeases[p][t] # NoLease
      BY <1>1, CleanupKeepsHeld
    <3>2. t = KeptTokens[p] /\ t # 0
      BY <1>1, <3>1, CleanupOneLease DEF GateInv
    <3>3. resumeSessions'[p][t] = KeptLeases[p][t]
      <4>1. CASE KeptTokens[c[1]] # 0
        BY <1>6, <4>1 DEF IssueLease
      <4>2. CASE KeptTokens[c[1]] = 0
        <5> DEFINE q == c[1]
        <5>1. q # p
          BY <3>2, <4>2
        <5>2. resumeSessions' =
                [KeptLeases EXCEPT ![q][minted[q] + 1] = Fresh(source.launch)]
          BY <1>6, <4>2 DEF IssueLease
        <5> HIDE DEF q
        <5> QED
          BY <1>1, <5>1, <5>2, CleanupType
      <4> QED
        BY <4>1, <4>2
    <3> QED
      BY <3>1, <3>3 DEF LeaseWorks
  <2>3. CASE held'[p] # held[p]
    <3>1. p = c[1] /\ held' # held
      BY <1>1, <1>6, <2>1, <2>3 DEF IssueLease, Deliver, TypeOK
    <3>2. ASSUME NEW t \in Tokens, NEW lease,
                 held' = [held EXCEPT ![p] = [token |-> t,
                                              expires |-> lease.expires]],
                 resumeSessions'[p][t] = lease, lease.launch # 0
          PROVE  LeaseWorks(p)'
      <4>1. held'[p].token = t /\ held'[p].expires = lease.expires
        BY <1>1, <3>2 DEF TypeOK
      <4> QED
        BY <3>2, <4>1 DEF LeaseWorks
    <3>3. CASE KeptTokens[p] # 0
      <4> DEFINE t == KeptTokens[p]
                 lease == KeptLeases[p][t]
      <4>1. /\ resumeSessions' = KeptLeases
            /\ held' = [held EXCEPT ![p] = [token |-> t,
                                            expires |-> lease.expires]]
        BY <1>6, <3>1, <3>3 DEF IssueLease, Deliver
      <4>2. t \in Tokens
        BY <1>1, <3>3, CleanupType, BoundsAssumption DEF Tokens
      <4>3. lease # NoLease
        BY <1>1, <4>2, CleanupOneLease DEF GateInv
      <4>4. lease.launch # 0
        BY <4>2, <4>3 DEF KeptLeases, Valid
      <4> QED
        BY <3>2, <4>1, <4>2, <4>4
    <3>4. CASE KeptTokens[p] = 0
      <4> DEFINE t == minted[p] + 1
                 lease == Fresh(source.launch)
      <4>1. /\ minted[p] < MaxTokens
            /\ resumeSessions' = [KeptLeases EXCEPT ![p][t] = lease]
            /\ held' = [held EXCEPT ![p] = [token |-> t,
                                            expires |-> lease.expires]]
        BY <1>6, <3>1, <3>4 DEF IssueLease, Deliver
      <4>2. t \in Tokens
        BY <1>1, <4>1, BoundsAssumption DEF TypeOK, Tokens
      <4>3. lease.launch # 0
        BY <2>1 DEF Fresh
      <4> HIDE DEF t, lease
      <4>4. resumeSessions'[p][t] = lease
        BY <1>1, <4>1, <4>2, CleanupType
      <4> QED
        BY <3>2, <4>1, <4>2, <4>3, <4>4
    <3> QED
      BY <3>3, <3>4
  <2> QED
    BY <2>2, <2>3
<1>7. ASSUME Tick
      PROVE  LeaseWorks(p)'
  <2>1. /\ now' = now + 1 /\ now \in Int /\ held[p].expires \in Int
        /\ UNCHANGED <<resumeSessions, held>>
    BY <1>1, <1>7, BoundsAssumption DEF Tick, session, TypeOK
  <2> QED
    BY <2>1 DEF LeaseWorks
<1>8. CASE \E q \in Players : Join(q)
  BY <1>2, <1>8 DEF Join, session
<1>9. ASSUME NEW c \in Connections,
             \/ RegisterChannel(c)
             \/ Quit(c)
             \/ KickTimer(c)
             \/ HubAnswers(c)
             \/ ApplyRefusal(c)
             \/ RequestLease(c)
             \/ GiveUpLease(c)
      PROVE  LeaseWorks(p)'
  BY <1>2, <1>9
     DEF RegisterChannel, Quit, KickTimer, HubAnswers, ApplyRefusal,
         RequestLease, GiveUpLease, session
<1>10. CASE UNCHANGED vars
  BY <1>2, <1>10 DEF vars, session
<1> QED
  BY <1>3, <1>4, <1>5, <1>6, <1>7, <1>8, <1>9, <1>10
     DEF Next, Command, HubTask, LeasePoll

(* A lease stored in a browser stays usable until its original expiry,     *)
(* however often it is used, whether or not connections overlap and answers*)
(* come late: nothing but the grant of a launch takes it away.             *)
THEOREM LeasesLast == Spec => HeldLeaseLasts
<1>1. ASSUME GateInv, [Next]_vars
      PROVE  [\A p \in Players :
                 LeaseWorks(p) /\ ~LeaseWorks(p)' => GrantApplied(p)]_vars
  <2>1. ASSUME NEW p \in Players, LeaseWorks(p), ~LeaseWorks(p)'
        PROVE  GrantApplied(p)
    <3>1. PICK c \in Connections : c[1] = p /\ ApplyGrant(c)
      BY <1>1, <2>1, LeaseWorksStep DEF GrantMeets
    <3>2. request[c] = "granted" /\ request'[c] = "applied"
      BY <1>1, <3>1 DEF ApplyGrant, GateInv, TypeOK
    <3> QED
      BY <3>1, <3>2 DEF GrantApplied
  <2> QED
    BY <2>1
<1> QED
  BY <1>1, GateInit, GateStep, PTL DEF Spec, HeldLeaseLasts

-----------------------------------------------------------------------------
(* The same leases, when a connection has quit before the next one joins  *)
(* and the hub's answers concern the connection they find.                 *)

Orderly == ~Overlap /\ ~LateAnswers

OnlineIsCurrent == \A c \in online : current[c[1]] = c[2]
FutureIsUnused ==
    \A c \in Connections :
        c[2] > opened[c[1]] => c \notin online /\ request[c] = "none"

\* While a launch is being redeemed the browser stores no token: it dropped
\* the old one, and a locked connection is given none.
AskingHoldsNothing ==
    \A c \in online :
        request[c] \in {"asked", "granted"} =>
            c \notin authenticated /\ held[c[1]].token = 0

HeldInv ==
    /\ GateInv
    /\ OnlineIsCurrent
    /\ FutureIsUnused
    /\ AskingHoldsNothing
    /\ HeldLeaseWorks

LEMMA SameConnection ==
    ASSUME OnlineIsCurrent, NEW c \in Connections, NEW d \in Connections,
           c \in online, d \in online, c[1] = d[1]
    PROVE  c = d
BY DEF OnlineIsCurrent, Connections

LEMMA HeldStep ==
    ASSUME Orderly, HeldInv, GateInv', [Next]_vars
    PROVE  OnlineIsCurrent' /\ FutureIsUnused' /\ AskingHoldsNothing'
<1> USE DEF HeldInv
<1> DEFINE Goal == OnlineIsCurrent' /\ FutureIsUnused' /\ AskingHoldsNothing'
<1>1. TypeOK
  BY DEF GateInv
<1>2. ASSUME NEW p \in Players, Join(p)
      PROVE  Goal
  <2> DEFINE n == <<p, opened[p] + 1>>
  <2>1. n \in Connections /\ n[1] = p /\ n[2] = opened[p] + 1
    BY <1>1, <1>2, BoundsAssumption DEF Join, Connections, TypeOK
  <2>2. /\ opened' = [opened EXCEPT ![p] = opened[p] + 1]
        /\ online' = online \cup {n}
        /\ current' = [current EXCEPT ![p] = opened[p] + 1]
        /\ UNCHANGED <<now, request, authenticated, resumeSessions, held>>
    BY <1>2 DEF Join, session
  <2>3. /\ \A c \in online : c[1] # p
        /\ \A c \in online : c[1] \in Players
        /\ opened \in [Players -> Nat]
    BY <1>1, <1>2, BoundsAssumption DEF Orderly, Join, TypeOK, Connections
  <2> HIDE DEF n
  <2>4. request[n] = "none"
    BY <2>1, <2>3 DEF FutureIsUnused
  <2>5. OnlineIsCurrent'
    BY <1>1, <2>1, <2>2, <2>3 DEF OnlineIsCurrent, TypeOK
  <2>6. FutureIsUnused'
    <3> SUFFICES ASSUME NEW c \in Connections, c[2] > opened'[c[1]]
                 PROVE  c \notin online' /\ request[c] = "none"
      BY <2>2 DEF FutureIsUnused
    <3>1. c[1] \in Players /\ c[2] \in Nat
      BY DEF Connections
    <3>2. c[2] > opened[c[1]] /\ c # n
      BY <2>1, <2>2, <2>3, <3>1
    <3> QED
      BY <2>2, <3>2 DEF FutureIsUnused
  <2> QED
    BY <2>2, <2>4, <2>5, <2>6 DEF AskingHoldsNothing
<1>3. ASSUME NEW c \in Connections,
             \/ RegisterChannel(c)
             \/ KickTimer(c)
             \/ RequestLease(c)
             \/ GiveUpLease(c)
      PROVE  Goal
  <2>1. UNCHANGED <<now, opened, online, current, request, authenticated,
                    resumeSessions, held>>
    BY <1>3 DEF RegisterChannel, KickTimer, RequestLease, GiveUpLease, session
  <2> QED
    BY <2>1
       DEF OnlineIsCurrent, FutureIsUnused, AskingHoldsNothing
<1>4. ASSUME NEW c \in Connections, Quit(c)
      PROVE  Goal
  <2>1. c \in online /\ \A d \in online : d \in Connections
    BY <1>1, <1>4 DEF Quit, TypeOK
  <2>2. /\ online' = online \ {c}
        /\ authenticated' = authenticated \ {c}
        /\ current' = [current EXCEPT ![c[1]] =
                          IF current[c[1]] = c[2] THEN 0 ELSE current[c[1]]]
        /\ UNCHANGED <<now, opened, request, resumeSessions, held>>
    BY <1>4 DEF Quit, session
  <2>3. \A d \in online' : d \in online /\ d[1] # c[1]
    BY <2>1, <2>2, SameConnection
  <2>4. OnlineIsCurrent'
    BY <1>1, <2>2, <2>3 DEF OnlineIsCurrent, TypeOK
  <2> QED
    BY <2>2, <2>4 DEF FutureIsUnused, AskingHoldsNothing
<1>5. ASSUME NEW c \in Connections, SendAuth(c)
      PROVE  Goal
  <2>1. /\ c \in online /\ c \notin authenticated /\ c[1] \in Players
        /\ request' = [request EXCEPT ![c] = "asked"]
        /\ held' = [held EXCEPT ![c[1]] = [token |-> 0, expires |-> 0]]
        /\ UNCHANGED <<now, opened, online, current, authenticated,
                       resumeSessions>>
    BY <1>5 DEF SendAuth, Speaks, Locked, session, Connections
  <2>2. /\ request'[c] = "asked" /\ held'[c[1]].token = 0
        /\ \A d \in Connections : d # c => request'[d] = request[d]
        /\ \A p \in Players : p # c[1] => held'[p] = held[p]
    BY <1>1, <2>1 DEF TypeOK
  <2>3. AskingHoldsNothing'
    <3> SUFFICES ASSUME NEW d \in online, request'[d] \in {"asked", "granted"}
                 PROVE  d \notin authenticated /\ held'[d[1]].token = 0
      BY <2>1 DEF AskingHoldsNothing
    <3>1. d \in Connections /\ d[1] \in Players
      BY <1>1 DEF TypeOK, Connections
    <3>2. CASE d = c
      BY <2>1, <2>2, <3>2
    <3>3. CASE d # c
      <4>1. d[1] # c[1]
        BY <2>1, <3>1, <3>3, SameConnection
      <4> QED
        BY <2>2, <3>1, <3>3, <4>1 DEF AskingHoldsNothing
    <3> QED
      BY <3>2, <3>3
  <2>4. FutureIsUnused'
    BY <2>1, <2>2 DEF FutureIsUnused
  <2> QED
    BY <2>1, <2>3, <2>4 DEF OnlineIsCurrent
<1>6. ASSUME NEW c \in Connections, HubAnswers(c)
      PROVE  Goal
  <2>1. /\ request[c] = "asked"
        /\ \A d \in Connections : d # c => request'[d] = request[d]
        /\ UNCHANGED <<now, opened, online, current, authenticated,
                       resumeSessions, held>>
    BY <1>1, <1>6 DEF HubAnswers, session, TypeOK
  <2>2. \A d \in online : d \in Connections
    BY <1>1 DEF TypeOK
  <2> QED
    BY <2>1, <2>2
       DEF OnlineIsCurrent, FutureIsUnused, AskingHoldsNothing
<1>7. ASSUME NEW c \in Connections, ApplyRefusal(c)
      PROVE  Goal
  <2>1. /\ request[c] = "refused" /\ request'[c] = "rejected"
        /\ \A d \in Connections : d # c => request'[d] = request[d]
        /\ UNCHANGED <<now, opened, online, current, authenticated,
                       resumeSessions, held>>
    BY <1>1, <1>7 DEF ApplyRefusal, session, TypeOK
  <2>2. \A d \in online : d \in Connections
    BY <1>1 DEF TypeOK
  <2> QED
    BY <2>1, <2>2
       DEF OnlineIsCurrent, FutureIsUnused, AskingHoldsNothing
<1>8. ASSUME NEW c \in Connections, ApplyGrant(c)
      PROVE  Goal
  <2>1. /\ request[c] = "granted" /\ request'[c] = "applied"
        /\ \A d \in Connections : d # c => request'[d] = request[d]
        /\ UNCHANGED <<now, opened, online, current, held>>
    BY <1>1, <1>8 DEF ApplyGrant, TypeOK
  <2>2. \A d \in online : d \in Connections
    BY <1>1 DEF TypeOK
  <2>3. OnlineIsCurrent' /\ FutureIsUnused'
    BY <2>1, <2>2 DEF OnlineIsCurrent, FutureIsUnused
  <2>4. CASE UNCHANGED <<authenticated, session, profile>>
    BY <2>1, <2>2, <2>3, <2>4 DEF session, AskingHoldsNothing
  <2>5. ASSUME NEW d \in Found(c), RevokeActiveResumeSession(c[1]),
               CompleteAuthorization(d, c[2], activeSessions)
        PROVE  Goal
    <3>1. d = c
      BY <1>8 DEF ApplyGrant, InTime, Orderly
    <3>2. c \in online /\ c[1] \in Players
      BY <2>5, <3>1 DEF Found, GateInv, CurrentIsOnline, Connections
    <3>3. authenticated' = authenticated \cup {c}
      BY <2>5, <3>1 DEF CompleteAuthorization
    <3>4. AskingHoldsNothing'
      BY <2>1, <2>2, <3>3 DEF AskingHoldsNothing
    <3> QED
      BY <2>3, <3>4
  <2> QED
    BY <1>8, <2>4, <2>5 DEF ApplyGrant
<1>9. ASSUME NEW c \in Connections, Resume(c)
      PROVE  Goal
  <2>1. /\ request[c] = "none"
        /\ resumeSessions' = KeptLeases
        /\ UNCHANGED <<now, opened, online, current, request, held>>
    BY <1>9 DEF Resume
  <2>2. authenticated' \subseteq authenticated \cup {c}
    BY <1>9 DEF Resume, CompleteAuthorization
  <2>3. AskingHoldsNothing'
    BY <2>1, <2>2 DEF AskingHoldsNothing
  <2> QED
    BY <2>1, <2>3 DEF OnlineIsCurrent, FutureIsUnused
<1>10. ASSUME NEW c \in Connections, IssueLease(c)
       PROVE  Goal
  <2> DEFINE p == c[1]
             source == pendingLeaseRequests[c]
  <2>1. /\ c \in online /\ c \in authenticated /\ p \in Players
        /\ source \in Lease /\ source.launch # 0
        /\ UNCHANGED <<now, opened, online, current, request, authenticated>>
    BY <1>1, <1>10
       DEF IssueLease, Locked, TypeOK, Connections, GateInv, PendingIsReal
  <2>2. /\ \A q \in Players : q # p => held'[q] = held[q]
        /\ \A d \in online : d \in Connections /\ d[1] \in Players
    BY <1>1, <1>10 DEF IssueLease, Deliver, TypeOK, Connections
  <2>3. AskingHoldsNothing'
    <3> SUFFICES ASSUME NEW d \in online, request[d] \in {"asked", "granted"}
                 PROVE  d \notin authenticated /\ held'[d[1]].token = 0
      BY <2>1 DEF AskingHoldsNothing
    <3>1. d # c
      BY <2>1 DEF AskingHoldsNothing
    <3>2. d[1] # p
      BY <2>1, <2>2, <3>1, SameConnection
    <3> QED
      BY <2>2, <3>2 DEF AskingHoldsNothing
  <2> QED
    BY <2>1, <2>3 DEF OnlineIsCurrent, FutureIsUnused
<1>11. ASSUME Tick
       PROVE  Goal
  <2>1. UNCHANGED <<opened, online, current, request, authenticated, held>>
    BY <1>11 DEF Tick
  <2> QED
    BY <2>1 DEF OnlineIsCurrent, FutureIsUnused, AskingHoldsNothing
<1>12. ASSUME UNCHANGED vars
       PROVE  Goal
  BY <1>12 DEF vars, session, OnlineIsCurrent, FutureIsUnused, AskingHoldsNothing
<1> QED
  BY <1>2, <1>3, <1>4, <1>5, <1>6, <1>7, <1>8, <1>9, <1>10, <1>11, <1>12
     DEF Next, Command, HubTask, LeasePoll

LEMMA HeldInit == Init => HeldInv
<1> SUFFICES ASSUME Init PROVE HeldInv
  OBVIOUS
<1>1. /\ online = {}
      /\ \A c \in Connections : request[c] = "none"
      /\ \A p \in Players : held[p].token = 0
  BY DEF Init
<1> QED
  BY <1>1, GateInit
     DEF HeldInv, OnlineIsCurrent, FutureIsUnused, AskingHoldsNothing,
         HeldLeaseWorks, LeaseWorks

\* A grant meets the connection that asked for it, whose player's browser
\* stores nothing.
LEMMA GrantTakesNothing ==
    ASSUME Orderly, HeldInv, NEW p \in Players, GrantMeets(p)
    PROVE  held[p].token = 0 /\ UNCHANGED held
<1> USE DEF HeldInv
<1>1. PICK c \in Connections : c[1] = p /\ ApplyGrant(c) /\ Found(c) # {}
  BY DEF GrantMeets
<1>2. request[c] = "granted" /\ Found(c) \subseteq {c} /\ UNCHANGED held
  BY <1>1 DEF ApplyGrant, InTime, Orderly
<1>3. c \in online
  BY <1>1, <1>2 DEF Found, GateInv, CurrentIsOnline, Connections
<1> QED
  BY <1>1, <1>2, <1>3 DEF AskingHoldsNothing

LEMMA HeldNext ==
    ASSUME Orderly, HeldInv, [Next]_vars
    PROVE  HeldInv'
<1>1. GateInv'
  BY GateStep DEF HeldInv
<1>2. ASSUME NEW p \in Players
      PROVE  LeaseWorks(p)'
  <2>1. CASE GrantMeets(p)
    BY <1>2, <2>1, GrantTakesNothing DEF LeaseWorks
  <2>2. CASE ~GrantMeets(p)
    BY <1>2, <2>2, LeaseWorksStep DEF HeldInv, HeldLeaseWorks
  <2> QED
    BY <2>1, <2>2
<1> QED
  BY <1>1, <1>2, HeldStep DEF HeldInv, HeldLeaseWorks

(* With one connection at a time and answers in time not even a launch     *)
(* takes away a lease that a browser stores: the browser forgot it when it *)
(* asked for the launch.                                                   *)
THEOREM HeldLeaseIsGood ==
    ASSUME Orderly
    PROVE  Spec => []HeldLeaseWorks
<1>1. HeldInv /\ [Next]_vars => HeldInv'
  BY HeldNext
<1>2. HeldInv => HeldLeaseWorks
  BY DEF HeldInv
<1> QED
  BY <1>1, <1>2, HeldInit, PTL DEF Spec

-----------------------------------------------------------------------------
(* Where a lease of another launch than the latest comes from, whether or  *)
(* not connections overlap and answers come late.                          *)

\* No step of a player makes token t stale, unless it answers a lease request
\* captured before the latest launch or resume.
Explained(p, t) ==
    ~Stale(p, t) /\ Stale(p, t)' =>
        \E c \in Connections :
           /\ c[1] = p
           /\ pendingLeaseRequests[c] # NoLease
           /\ pendingLeaseRequests[c].launch # profile[p]
           /\ pendingLeaseRequests'[c] = NoLease

\* A lease that stays, of a profile that stays, does not become stale; nor does
\* one that is removed.
LEMMA KeptIsExplained ==
    ASSUME NEW p, NEW t, profile'[p] = profile[p],
           resumeSessions'[p][t] \in {resumeSessions[p][t], NoLease}
    PROVE  Explained(p, t)
BY DEF Explained, Stale

LEMMA CleanupKeeps ==
    ASSUME NEW p \in Players, NEW t \in Tokens
    PROVE  KeptLeases[p][t] \in {resumeSessions[p][t], NoLease}
BY DEF KeptLeases

LEMMA ExplainedStep ==
    ASSUME GateInv, [Next]_vars, NEW p \in Players, NEW t \in Tokens
    PROVE  Explained(p, t)
<1>1. TypeOK /\ OneLease
  BY DEF GateInv
<1>2. CASE UNCHANGED <<session, profile>>
  BY <1>2, KeptIsExplained DEF session
<1>3. ASSUME NEW c \in Connections, ApplyGrant(c)
      PROVE  Explained(p, t)
  <2>1. ASSUME NEW d \in Found(c), RevokeActiveResumeSession(c[1]),
               CompleteAuthorization(d, c[2], activeSessions)
        PROVE  Explained(p, t)
    <3>1. d[1] = c[1] /\ c[1] \in Players
      BY DEF Found, Connections
    <3>2. CASE p = c[1]
      <4>1. resumeSessions'[p][t] =
              IF t = activeResumeTokens[p] THEN NoLease ELSE resumeSessions[p][t]
        BY <1>1, <2>1, <3>2 DEF RevokeActiveResumeSession, TypeOK
      <4>2. resumeSessions'[p][t] = NoLease
        BY <1>1, <4>1 DEF OneLease
      <4> QED
        BY <4>2 DEF Explained, Stale
    <3>3. CASE p # c[1]
      <4>1. profile'[p] = profile[p]
        BY <1>1, <2>1, <3>1, <3>3 DEF CompleteAuthorization, TypeOK
      <4>2. resumeSessions'[p] = resumeSessions[p]
        BY <1>1, <2>1, <3>3 DEF RevokeActiveResumeSession, TypeOK
      <4> QED
        BY <4>1, <4>2, KeptIsExplained
    <3> QED
      BY <3>2, <3>3
  <2> QED
    BY <1>2, <1>3, <2>1 DEF ApplyGrant
<1>4. ASSUME NEW c \in Connections, Resume(c)
      PROVE  Explained(p, t)
  <2> DEFINE u == held[c[1]].token
             lease == KeptLeases[c[1]][u]
  <2>1. c[1] \in Players /\ u \in Tokens /\ resumeSessions' = KeptLeases
    <3>1. c[1] \in Players
      BY DEF Connections
    <3>2. u # 0 /\ resumeSessions' = KeptLeases
      BY <1>4 DEF Resume
    <3>3. u \in 0 .. MaxTokens
      BY <1>1, <3>1 DEF TypeOK
    <3> QED
      BY <3>1, <3>2, <3>3, BoundsAssumption DEF Tokens
  <2>2. resumeSessions'[p][t] \in {resumeSessions[p][t], NoLease}
    BY <2>1, CleanupKeeps
  <2>3. CASE lease = NoLease
    <3>1. UNCHANGED profile
      BY <1>4, <2>3 DEF Resume
    <3> QED
      BY <2>2, <3>1, KeptIsExplained
  <2>4. CASE lease # NoLease
    <3>1. profile' = [profile EXCEPT ![c[1]] = lease.launch]
      BY <1>4, <2>4 DEF Resume, CompleteAuthorization
    <3> HIDE DEF u
    <3>2. CASE p = c[1]
      <4>1. profile'[p] = lease.launch
        BY <1>1, <2>1, <3>1, <3>2 DEF TypeOK
      <4>2. ASSUME KeptLeases[p][t] # NoLease
            PROVE  t = u
        <5>1. t = KeptTokens[p]
          BY <1>1, <4>2, CleanupOneLease
        <5>2. u = KeptTokens[p]
          BY <1>1, <2>1, <2>4, <3>2, CleanupOneLease
        <5> QED
          BY <5>1, <5>2
      <4> QED
        BY <2>1, <3>2, <4>1, <4>2 DEF Explained, Stale
    <3>3. CASE p # c[1]
      <4>1. profile'[p] = profile[p]
        BY <1>1, <2>1, <3>1, <3>3 DEF TypeOK
      <4> QED
        BY <2>2, <4>1, KeptIsExplained
    <3> QED
      BY <3>2, <3>3
  <2> QED
    BY <2>3, <2>4
<1>5. ASSUME NEW c \in Connections, IssueLease(c)
      PROVE  Explained(p, t)
  <2> DEFINE source == pendingLeaseRequests[c]
             new == minted[c[1]] + 1
  <2>1. /\ source # NoLease /\ c[1] \in Players
        /\ pendingLeaseRequests' = [pendingLeaseRequests EXCEPT ![c] = NoLease]
        /\ UNCHANGED profile
    BY <1>5 DEF IssueLease, Connections
  <2>2. pendingLeaseRequests'[c] = NoLease
    BY <1>1, <2>1 DEF TypeOK
  <2>3. CASE resumeSessions' = KeptLeases
    BY <2>1, <2>3, CleanupKeeps, KeptIsExplained
  <2>4. CASE resumeSessions' =
               [KeptLeases EXCEPT ![c[1]][new] = Fresh(source.launch)]
    <3> HIDE DEF new
    <3>1. CASE p = c[1] /\ t = new
      <4>1. resumeSessions'[p][t].launch = source.launch
        BY <1>1, <2>4, <3>1, CleanupType DEF Fresh
      <4>2. CASE source.launch = profile[p]
        BY <2>1, <4>1, <4>2 DEF Explained, Stale
      <4>3. CASE source.launch # profile[p]
        BY <2>1, <2>2, <3>1, <4>3 DEF Explained
      <4> QED
        BY <4>2, <4>3
    <3>2. CASE ~(p = c[1] /\ t = new)
      <4>1. resumeSessions'[p][t] = KeptLeases[p][t]
        BY <1>1, <2>1, <2>4, <3>2, CleanupType
      <4> QED
        BY <2>1, <4>1, CleanupKeeps, KeptIsExplained
    <3> QED
      BY <3>1, <3>2
  <2> QED
    BY <1>5, <2>3, <2>4 DEF IssueLease
<1>6. CASE \E q \in Players : Join(q)
  BY <1>2, <1>6 DEF Join
<1>7. ASSUME NEW c \in Connections,
             \/ RegisterChannel(c)
             \/ Quit(c)
             \/ KickTimer(c)
             \/ SendAuth(c)
             \/ HubAnswers(c)
             \/ ApplyRefusal(c)
             \/ RequestLease(c)
             \/ GiveUpLease(c)
      PROVE  Explained(p, t)
  BY <1>2, <1>7
     DEF RegisterChannel, Quit, KickTimer, SendAuth, HubAnswers, ApplyRefusal,
         RequestLease, GiveUpLease
<1>8. CASE Tick \/ UNCHANGED vars
  BY <1>2, <1>8 DEF Tick, vars
<1> QED
  BY <1>3, <1>4, <1>5, <1>6, <1>7, <1>8 DEF Next, Command, HubTask, LeasePoll

(* A launch, and a resume, revoke every lease of another launch, for any   *)
(* number of connections, overlapping or not, and however late the hub     *)
(* answers: only a lease request made before and answered after can bring  *)
(* the profile of an earlier launch back.                                  *)
THEOREM LeasesAreRevoked == Spec => LaunchRevokes
<1>1. ASSUME GateInv, [Next]_vars
      PROVE  [\A p \in Players : \A t \in Tokens : Explained(p, t)]_vars
  BY <1>1, ExplainedStep
<1> QED
  BY <1>1, GateInit, GateStep, PTL DEF Spec, LaunchRevokes, Explained
=============================================================================
