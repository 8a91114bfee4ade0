-------------------------------- MODULE Gate --------------------------------
(***************************************************************************)
(* HEMGate: how a connection to a world gets authorized, and the reconnect *)
(* leases that spare a refreshed browser a new launch.                     *)
(*                                                                         *)
(* Paper runs the event handlers, the commands and the scheduled tasks on  *)
(* its main thread, one at a time; each is one action.  The hub is asked on*)
(* a thread of its own, and its answer comes back as a task that looks the *)
(* player up again by UUID.  A launch is named by the connection that      *)
(* redeemed it; the profile, the skin and the operator flag that came with *)
(* it are known by that number.                                            *)
(***************************************************************************)
EXTENDS Integers, FiniteSets

CONSTANTS
    Players,        \* HEM usernames; one UUID each
    MaxConnections, \* bound: connections of a player
    MaxTokens,      \* bound: resume tokens minted for a player
    MaxTime,        \* bound: the clock
    TTL,            \* RESUME_TTL_MS
    Overlap,        \* TRUE iff a player may join again before the previous
                    \* connection has quit
    LateAnswers     \* TRUE iff the hub's answer may find the player on another
                    \* connection than the one that asked

ASSUME BoundsAssumption ==
    MaxConnections \in Nat /\ MaxTokens \in Nat /\ MaxTime \in Nat /\ TTL \in Nat
ASSUME SwitchAssumption == Overlap \in BOOLEAN /\ LateAnswers \in BOOLEAN

Connections == Players \X (1 .. MaxConnections)
Tokens == 1 .. MaxTokens

\* A SessionLease: the launch it descends from and expiresAt.
NoLease == [launch |-> 0, expires |-> 0]
Lease == [launch : 0 .. MaxConnections, expires : 0 .. MaxTime + TTL]

VARIABLES
    now,                 \* System.currentTimeMillis
    opened,              \* connections of a player so far
    online,              \* connections that have joined and not quit
    current,             \* Bukkit.getPlayer(uuid): a connection's number or 0
    kicked,              \* why a connection was told to leave
    listening,           \* connections that registered hem:session
    request,             \* the launch redeemed on a connection
    authenticated,       \* HEMGate's set of unlocked connections
    activeSessions,      \* by player: the lease a resume token may be cut from
    resumeSessions,      \* by player and token: the lease the token gives
    activeResumeTokens,  \* by player: the token in use, 0 if none
    minted,              \* tokens minted for a player so far
    pendingLeaseRequests,\* by connection: the lease captured by its request
    profile,             \* by player: the launch whose profile is applied
    held                 \* by player: the token in the browser's sessionStorage
                         \* and the time until which it is good

session == <<activeSessions, resumeSessions, activeResumeTokens, minted>>
vars == <<now, opened, online, current, kicked, listening, request,
          authenticated, session, pendingLeaseRequests, profile, held>>

\* Every variable keeps to its range; only open connections are authorized.
TypeOK ==
    /\ now \in 0 .. MaxTime
    /\ opened \in [Players -> 0 .. MaxConnections]
    /\ online \subseteq Connections
    /\ current \in [Players -> 0 .. MaxConnections]
    /\ kicked \in [Connections -> {"no", "late", "expired", "rejected"}]
    /\ listening \subseteq online
    /\ request \in [Connections -> {"none", "asked", "granted", "refused",
                                    "applied", "rejected"}]
    /\ authenticated \subseteq online
    /\ activeSessions \in [Players -> Lease]
    /\ resumeSessions \in [Players -> [Tokens -> Lease]]
    /\ activeResumeTokens \in [Players -> 0 .. MaxTokens]
    /\ minted \in [Players -> 0 .. MaxTokens]
    /\ pendingLeaseRequests \in [Connections -> Lease]
    /\ profile \in [Players -> 0 .. MaxConnections]
    /\ held \in [Players -> [token : 0 .. MaxTokens,
                             expires : 0 .. MaxTime + TTL]]

Init ==
    /\ now = 0
    /\ opened = [p \in Players |-> 0]
    /\ online = {}
    /\ current = [p \in Players |-> 0]
    /\ kicked = [c \in Connections |-> "no"]
    /\ listening = {}
    /\ request = [c \in Connections |-> "none"]
    /\ authenticated = {}
    /\ activeSessions = [p \in Players |-> NoLease]
    /\ resumeSessions = [p \in Players |-> [t \in Tokens |-> NoLease]]
    /\ activeResumeTokens = [p \in Players |-> 0]
    /\ minted = [p \in Players |-> 0]
    /\ pendingLeaseRequests = [c \in Connections |-> NoLease]
    /\ profile = [p \in Players |-> 0]
    /\ held = [p \in Players |-> [token |-> 0, expires |-> 0]]

-----------------------------------------------------------------------------
Locked(c) == c \notin authenticated
Valid(lease) == lease.launch # 0 /\ lease.expires >= now
Fresh(launch) == [launch |-> launch, expires |-> now + TTL]

\* A connection whose commands are still read.
Speaks(c) == c \in online /\ kicked[c] = "no"

Kick(c, why) ==
    kicked' = [kicked EXCEPT ![c] = IF @ = "no" THEN why ELSE @]

\* cleanupResumeSessions: what the three maps hold afterwards.
KeptLeases ==
    [p \in Players |-> [t \in Tokens |->
        IF Valid(resumeSessions[p][t]) THEN resumeSessions[p][t] ELSE NoLease]]
KeptTokens ==
    [p \in Players |->
        IF \E t \in Tokens :
              t = activeResumeTokens[p] /\ Valid(resumeSessions[p][t])
        THEN activeResumeTokens[p] ELSE 0]
KeptSessions ==
    [p \in Players |->
        IF Valid(activeSessions[p]) THEN activeSessions[p] ELSE NoLease]

\* A revocation that is forgotten.
RevokeNothing(p) == UNCHANGED <<activeResumeTokens, resumeSessions>>

\* revokeActiveResumeSession: forget the player's token and its lease.
RevokeActiveResumeSession(p) ==
    /\ activeResumeTokens' = [activeResumeTokens EXCEPT ![p] = 0]
    /\ resumeSessions' = [resumeSessions EXCEPT ![p] = [t \in Tokens |->
           IF t = activeResumeTokens[p] THEN NoLease ELSE @[t]]]

\* completeAuthorization, apart from the revocation: sessions is the map of
\* active sessions it adds to.
CompleteAuthorization(c, launch, sessions) ==
    /\ authenticated' = authenticated \cup {c}
    /\ activeSessions' = [sessions EXCEPT ![c[1]] = Fresh(launch)]
    /\ profile' = [profile EXCEPT ![c[1]] = launch]

-----------------------------------------------------------------------------
(* Connections.                                                            *)

\* onJoin: a new Player object, locked, and a timer to kick it.
Join(p) ==
    /\ opened[p] < MaxConnections
    /\ Overlap \/ \A c \in online : c[1] # p
    /\ opened' = [opened EXCEPT ![p] = @ + 1]
    /\ online' = online \cup {<<p, opened[p] + 1>>}
    /\ current' = [current EXCEPT ![p] = opened[p] + 1]
    /\ UNCHANGED <<now, kicked, listening, request, authenticated, session,
                   pendingLeaseRequests, profile, held>>

RegisterChannel(c) ==
    /\ Speaks(c)
    /\ c \notin listening
    /\ listening' = listening \cup {c}
    /\ UNCHANGED <<now, opened, online, current, kicked, request, authenticated,
                   session, pendingLeaseRequests, profile, held>>

\* How Quit treated authorization when it was a set of UUIDs.
QuitByAccount(c) ==
    /\ c \in online
    /\ online' = online \ {c}
    /\ listening' = listening \ {c}
    /\ authenticated' = {d \in authenticated : d[1] # c[1]}
    /\ pendingLeaseRequests' = [pendingLeaseRequests EXCEPT ![c] = NoLease]
    /\ current' = [current EXCEPT ![c[1]] = IF @ = c[2] THEN 0 ELSE @]
    /\ UNCHANGED <<now, opened, kicked, request, session, profile, held>>

\* onQuit.  A poll of the lease request that comes later finds nothing to do.
Quit(c) ==
    /\ c \in online
    /\ online' = online \ {c}
    /\ listening' = listening \ {c}
    /\ authenticated' = authenticated \ {c}
    /\ pendingLeaseRequests' = [pendingLeaseRequests EXCEPT ![c] = NoLease]
    /\ current' = [current EXCEPT ![c[1]] = IF @ = c[2] THEN 0 ELSE @]
    /\ UNCHANGED <<now, opened, kicked, request, session, profile, held>>

\* A timer that spares the connections that never sent a command.
KickTimerIfAsked(c) ==
    /\ Speaks(c)
    /\ Locked(c)
    /\ request[c] # "none"
    /\ Kick(c, "late")
    /\ UNCHANGED <<now, opened, online, current, listening, request,
                   authenticated, session, pendingLeaseRequests, profile, held>>

\* timeoutSeconds after the join.
KickTimer(c) ==
    /\ Speaks(c)
    /\ Locked(c)
    /\ Kick(c, "late")
    /\ UNCHANGED <<now, opened, online, current, listening, request,
                   authenticated, session, pendingLeaseRequests, profile, held>>

-----------------------------------------------------------------------------
(* Launch tokens.                                                          *)

\* /hem auth: the browser forgets its lease and redeems the launch, once per
\* connection; authorizeAsync asks the hub.
SendAuth(c) ==
    /\ Speaks(c)
    /\ Locked(c)
    /\ request[c] = "none"
    /\ request' = [request EXCEPT ![c] = "asked"]
    /\ held' = [held EXCEPT ![c[1]] = [token |-> 0, expires |-> 0]]
    /\ UNCHANGED <<now, opened, online, current, kicked, listening,
                   authenticated, session, pendingLeaseRequests, profile>>

\* The hub answers, or cannot be reached in time; a task is scheduled.
HubAnswers(c) ==
    /\ request[c] = "asked"
    /\ \E answer \in {"granted", "refused"} :
          request' = [request EXCEPT ![c] = answer]
    /\ UNCHANGED <<now, opened, online, current, kicked, listening,
                   authenticated, session, pendingLeaseRequests, profile, held>>

\* The connection that the task of a request finds, if any.
Found(c) == {d \in Connections : d = <<c[1], current[c[1]]>>}

InTime(c) == LateAnswers \/ Found(c) \subseteq {c}

\* The task of a granted launch: a fresh authorization of whichever connection
\* the player has now.
ApplyGrant(c) ==
    /\ request[c] = "granted"
    /\ InTime(c)
    /\ request' = [request EXCEPT ![c] = "applied"]
    /\ \/ /\ Found(c) = {}
          /\ UNCHANGED <<authenticated, session, profile>>
       \/ \E d \in Found(c) :
             /\ RevokeActiveResumeSession(c[1])
             /\ CompleteAuthorization(d, c[2], activeSessions)
             /\ UNCHANGED minted
    /\ UNCHANGED <<now, opened, online, current, kicked, listening,
                   pendingLeaseRequests, held>>

\* denyOnMain.
ApplyRefusal(c) ==
    /\ request[c] = "refused"
    /\ InTime(c)
    /\ request' = [request EXCEPT ![c] = "rejected"]
    /\ \/ Found(c) = {} /\ UNCHANGED kicked
       \/ \E d \in Found(c) : Kick(d, "rejected")
    /\ UNCHANGED <<now, opened, online, current, listening, authenticated,
                   session, pendingLeaseRequests, profile, held>>

-----------------------------------------------------------------------------
(* Resume leases.                                                          *)

ResumeOnce(c) ==
    LET p == c[1]
        t == held[p].token IN
    /\ Speaks(c)
    /\ Locked(c)
    /\ request[c] = "none"
    /\ t # 0
    /\ resumeSessions' = [KeptLeases EXCEPT ![p][t] = NoLease]
    /\ activeResumeTokens' = [KeptTokens EXCEPT ![p] = IF @ = t THEN 0 ELSE @]
    /\ IF KeptLeases[p][t] = NoLease
       THEN /\ Kick(c, "expired")
            /\ activeSessions' = KeptSessions
            /\ UNCHANGED <<authenticated, profile>>
       ELSE /\ CompleteAuthorization(c, KeptLeases[p][t].launch, KeptSessions)
            /\ UNCHANGED kicked
    /\ UNCHANGED <<now, opened, online, current, listening, request, minted,
                   pendingLeaseRequests, held>>

\* /hem resume with the stored token: it keeps its lease and its expiry.
Resume(c) ==
    LET p == c[1]
        t == held[p].token IN
    /\ Speaks(c)
    /\ Locked(c)
    /\ request[c] = "none"
    /\ t # 0
    /\ resumeSessions' = KeptLeases
    /\ activeResumeTokens' = KeptTokens
    /\ IF KeptLeases[p][t] = NoLease
       THEN /\ Kick(c, "expired")
            /\ activeSessions' = KeptSessions
            /\ UNCHANGED <<authenticated, profile>>
       ELSE /\ CompleteAuthorization(c, KeptLeases[p][t].launch, KeptSessions)
            /\ UNCHANGED kicked
    /\ UNCHANGED <<now, opened, online, current, listening, request, minted,
                   pendingLeaseRequests, held>>

PendingOf(p) ==
    {c \in Connections : c[1] = p /\ pendingLeaseRequests[c] # NoLease}

\* /hem lease, sent by a browser that stores no token: requestResumeSession.
\* Every request in progress may need a token within the bound.
RequestLease(c) ==
    /\ Speaks(c)
    /\ ~Locked(c)
    /\ held[c[1]].token = 0
    /\ pendingLeaseRequests[c] = NoLease
    /\ minted[c[1]] + Cardinality(PendingOf(c[1])) < MaxTokens
    /\ Valid(activeSessions[c[1]])
    /\ pendingLeaseRequests' =
          [pendingLeaseRequests EXCEPT ![c] = activeSessions[c[1]]]
    /\ UNCHANGED <<now, opened, online, current, kicked, listening, request,
                   authenticated, session, profile, held>>

\* Token t goes out to connection c and reaches the browser, unless it left.
Deliver(c, t, lease) ==
    \/ UNCHANGED held
    \/ /\ kicked[c] = "no"
       /\ held' = [held EXCEPT ![c[1]] = [token |-> t, expires |-> lease.expires]]

\* Every request mints a lease of its own.
IssueParallelLease(c) ==
    LET p == c[1]
        t == minted[p] + 1
        source == pendingLeaseRequests[c] IN
    /\ source # NoLease
    /\ c \in listening /\ ~Locked(c)
    /\ t \in Tokens
    /\ pendingLeaseRequests' = [pendingLeaseRequests EXCEPT ![c] = NoLease]
    /\ activeSessions' = KeptSessions
    /\ minted' = [minted EXCEPT ![p] = t]
    /\ activeResumeTokens' = [KeptTokens EXCEPT ![p] = t]
    /\ resumeSessions' = [KeptLeases EXCEPT ![p][t] = Fresh(source.launch)]
    /\ Deliver(c, t, Fresh(source.launch))
    /\ UNCHANGED <<now, opened, online, current, kicked, listening, request,
                   authenticated, profile>>

\* issueResumeSessionWhenListening, once the channel is there: the token in use
\* if there is one, else a new one cut from the lease captured by the request.
IssueLease(c) ==
    LET p == c[1]
        existing == KeptTokens[p]
        source == pendingLeaseRequests[c] IN
    /\ source # NoLease
    /\ c \in listening /\ ~Locked(c)
    /\ pendingLeaseRequests' = [pendingLeaseRequests EXCEPT ![c] = NoLease]
    /\ activeSessions' = KeptSessions
    /\ \/ /\ existing # 0
          /\ activeResumeTokens' = KeptTokens
          /\ resumeSessions' = KeptLeases
          /\ Deliver(c, existing, KeptLeases[p][existing])
          /\ UNCHANGED minted
       \/ /\ existing = 0
          /\ minted[p] < MaxTokens
          /\ minted' = [minted EXCEPT ![p] = @ + 1]
          /\ activeResumeTokens' = [KeptTokens EXCEPT ![p] = minted[p] + 1]
          /\ resumeSessions' =
                [KeptLeases EXCEPT ![p][minted[p] + 1] = Fresh(source.launch)]
          /\ Deliver(c, minted[p] + 1, Fresh(source.launch))
    /\ UNCHANGED <<now, opened, online, current, kicked, listening, request,
                   authenticated, profile>>

\* The last poll leaves the request in the map, which blocks the next one.
GiveUpForgetfully(c) ==
    pendingLeaseRequests[c] # NoLease /\ c \notin listening /\ UNCHANGED vars

\* After 40 polls without the channel.
GiveUpLease(c) ==
    /\ pendingLeaseRequests[c] # NoLease
    /\ c \notin listening
    /\ pendingLeaseRequests' = [pendingLeaseRequests EXCEPT ![c] = NoLease]
    /\ UNCHANGED <<now, opened, online, current, kicked, listening, request,
                   authenticated, session, profile, held>>

-----------------------------------------------------------------------------
Tick ==
    /\ now < MaxTime
    /\ now' = now + 1
    /\ UNCHANGED <<opened, online, current, kicked, listening, request,
                   authenticated, session, pendingLeaseRequests, profile, held>>

Command(c) == SendAuth(c) \/ Resume(c) \/ RequestLease(c)
HubTask(c) == HubAnswers(c) \/ ApplyGrant(c) \/ ApplyRefusal(c)
LeasePoll(c) == IssueLease(c) \/ GiveUpLease(c)

Next ==
    \/ \E p \in Players : Join(p)
    \/ \E c \in Connections :
          \/ RegisterChannel(c)
          \/ Quit(c)
          \/ KickTimer(c)
          \/ Command(c)
          \/ HubTask(c)
          \/ LeasePoll(c)
    \/ Tick

Spec == Init /\ [][Next]_vars

(* Scheduled tasks run and a kicked connection quits; nobody has to play,  *)
(* and the hub need not answer.                                            *)
FairSpec ==
    /\ Spec
    /\ \A c \in Connections :
          /\ WF_vars(KickTimer(c))
          /\ WF_vars(kicked[c] # "no" /\ Quit(c))
          /\ WF_vars(LeasePoll(c))

-----------------------------------------------------------------------------
(* Old and new physical connections of an account do not erase each        *)
(* other's authorization: it ends only when its own connection quits.      *)
AuthorizationLasts ==
    [][\A c \in authenticated : c \in authenticated' \/ c \notin online']_vars

(* A player has at most one resume token, and it is the one in use: repeated*)
(* requests are answered with it instead of minting parallel leases.       *)
OneLease ==
    \A p \in Players : \A t \in Tokens :
        resumeSessions[p][t] # NoLease <=> t = activeResumeTokens[p]

\* A token that would restore another profile than the one applied last.
Stale(p, t) ==
    resumeSessions[p][t] # NoLease /\ resumeSessions[p][t].launch # profile[p]

(* A launch and a resume leave no lease of another launch behind, whichever *)
(* connection they are applied to: a lease of an earlier launch can only be *)
(* the late answer to a request that was made before the latest one.       *)
LaunchRevokes ==
    [][\A p \in Players : \A t \in Tokens :
          ~Stale(p, t) /\ Stale(p, t)' =>
              \E c \in Connections :
                 /\ c[1] = p
                 /\ pendingLeaseRequests[c] # NoLease
                 /\ pendingLeaseRequests[c].launch # profile[p]
                 /\ pendingLeaseRequests'[c] = NoLease]_vars

(* What the comment of resumeSession says of such a request too: a fresh    *)
(* launch revokes the lease, so that one that is still good restores the    *)
(* profile and the permissions of the latest launch.  The code does not.    *)
LeaseIsFresh ==
    \A p \in Players : \A t \in Tokens :
        Valid(resumeSessions[p][t]) => ~Stale(p, t)

\* The lease in a browser's storage restores its launch until it expires.
LeaseWorks(p) ==
    held[p].token # 0 /\ held[p].expires >= now =>
        /\ resumeSessions[p][held[p].token].launch # 0
        /\ resumeSessions[p][held[p].token].expires = held[p].expires

GrantApplied(p) ==
    \E c \in Connections :
        c[1] = p /\ request[c] = "granted" /\ request'[c] = "applied"

(* The lease in a browser's storage can be used, and used again, until its *)
(* original expiry, however often the page is refreshed and whatever its   *)
(* other connections do: only the grant of a launch takes it away.         *)
HeldLeaseLasts ==
    [][\A p \in Players :
          LeaseWorks(p) /\ ~LeaseWorks(p)' => GrantApplied(p)]_vars

(* One connection at a time, and answers in time: no browser stores a      *)
(* lease that a launch took away, because it forgets its lease when it     *)
(* redeems a launch.                                                       *)
HeldLeaseWorks == \A p \in Players : LeaseWorks(p)

(* A connection does not stay locked: it is authorized or it ends.         *)
LockedSettles ==
    \A c \in Connections :
        (c \in online /\ Locked(c)) ~> (c \notin online \/ ~Locked(c))

(* A lease request is answered or given up, so that it can be made again.  *)
LeaseRequestEnds ==
    \A c \in Connections :
        (pendingLeaseRequests[c] # NoLease) ~> (pendingLeaseRequests[c] = NoLease)
=============================================================================
