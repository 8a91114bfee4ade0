-------------------------------- MODULE Hub --------------------------------
(***************************************************************************)
(* The hub: a Cloudflare worker over the tables of a D1 database.          *)
(*                                                                         *)
(* A statement is atomic; a request is not, and stops between any two of   *)
(* its statements when D1 or the orchestrator fails.  What a request has   *)
(* read so far is its entry of `request'.  Credentials never change, so    *)
(* requireIdentity is the condition that the caller is registered.         *)
(***************************************************************************)
EXTENDS Integers, FiniteSets, Sequences

CONSTANTS
    Identities,   \* the devices that may register
    Names,        \* Minecraft usernames, up to case (COLLATE NOCASE)
    Worlds,       \* world ids
    Shared,       \* the worlds created with kind 'shared'
    Invites,      \* bound: the invites that can be made
    Tokens,       \* bound: the launch tokens that can be made
    Requests,     \* bound: requests the worker has in progress at a time
    MaxTime,      \* bound: the clock's last reading
    InviteTTL,    \* seven days
    SessionTTL,   \* ninety seconds
    None          \* NULL, or no row

ASSUME TimesAssumption == MaxTime \in Nat /\ InviteTTL \in Nat /\ SessionTTL \in Nat
ASSUME WorldsAssumption == Shared \subseteq Worlds
Time == 0 .. MaxTime

WorldRow == [owner : Identities, archived : BOOLEAN]
InviteRow == [world : Worlds, expires : Nat, uses : Nat]
SessionRow == [world : Worlds, identity : Identities, name : Names,
               expires : Nat, consumed : Time \cup {None}]

\* What a request in progress still has to do and what it holds of its reads.
Pending ==
    [op : {"register"}, identity : Identities, name : Names]
        \cup [op : {"spent", "join"}, identity : Identities, invite : Invites]
        \cup [op : {"launch", "archive", "invite"}, identity : Identities,
              world : Worlds]
        \cup [op : {"admit"}, token : Tokens, name : Names]

ASSUME NoneAssumption ==
    /\ None \notin Identities \cup Names \cup Worlds \cup Invites \cup Tokens \cup Nat
    /\ None \notin WorldRow \cup InviteRow \cup SessionRow \cup Pending

VARIABLES
    username,     \* identities: mc_username
    worlds,       \* worlds
    memberships,  \* memberships: pairs (world, identity)
    invites,      \* invites
    sessions,     \* launch_sessions
    request,      \* the worker's requests in progress
    now,          \* the clock
    joined,       \* history: who was told to have joined with an invite
    broken,       \* history: invites and tokens of requests that failed after
                  \* the use was counted
    admitted      \* history: the names HEMGate was told OK for, by token

vars == <<username, worlds, memberships, invites, sessions, request, now,
          joined, broken, admitted>>

(* register looks for a free name and inserts it in two statements; two    *)
(* registrations at a time still never share a Minecraft login, which is   *)
(* all that Paper knows a player by.                                       *)
NamesDistinct ==
    \A i, j \in Identities : i # j /\ username[i] # None => username[i] # username[j]

\* Every row has the columns of its table, its foreign keys exist, mc_username is
\* unique, and requests in progress hold what they have read.
TypeOK ==
    /\ username \in [Identities -> Names \cup {None}]
    /\ worlds \in [Worlds -> WorldRow \cup {None}]
    /\ memberships \subseteq Worlds \X Identities
    /\ invites \in [Invites -> InviteRow \cup {None}]
    /\ sessions \in [Tokens -> SessionRow \cup {None}]
    /\ request \in [Requests -> Pending \cup {None}]
    /\ now \in Time
    /\ joined \in [Invites -> SUBSET Identities]
    /\ broken \subseteq Invites \cup Tokens
    /\ admitted \in [Tokens -> Seq(Names)]
    /\ \A m \in memberships : worlds[m[1]] # None /\ username[m[2]] # None
    /\ NamesDistinct

Init ==
    /\ username = [i \in Identities |-> None]
    /\ worlds = [w \in Worlds |-> None]
    /\ memberships = {}
    /\ invites = [v \in Invites |-> None]
    /\ sessions = [t \in Tokens |-> None]
    /\ request = [r \in Requests |-> None]
    /\ now = 0
    /\ joined = [v \in Invites |-> {}]
    /\ broken = {}
    /\ admitted = [t \in Tokens |-> <<>>]

Open(w) == worlds[w] # None /\ ~worlds[w].archived

\* requireMembership, and the owner's routes on top of it.
IsMember(i, w) == Open(w) /\ <<w, i>> \in memberships
IsOwner(i, w) == IsMember(i, w) /\ worlds[w].owner = i

Begin(r, pending) == request[r] = None /\ request' = [request EXCEPT ![r] = pending]
Has(r, op) == request[r] # None /\ request[r].op = op
Finish(r) == request' = [request EXCEPT ![r] = None]

-----------------------------------------------------------------------------
\* register: deriveAvailableUsername looks for a free name ...
ProposeName(r, i, n) ==
    /\ username[i] = None
    /\ \A j \in Identities : username[j] # n
    /\ \A q \in Requests : ~(Has(q, "register") /\ request[q].identity = i)
    /\ Begin(r, [op |-> "register", identity |-> i, name |-> n])
    /\ UNCHANGED <<username, worlds, memberships, invites, sessions, now, joined,
                   broken, admitted>>

InsertIdentityUnchecked(r) ==
    /\ Has(r, "register")
    /\ username' = [username EXCEPT ![request[r].identity] = request[r].name]
    /\ Finish(r)
    /\ UNCHANGED <<worlds, memberships, invites, sessions, now, joined, broken, admitted>>

\* ... and the INSERT fails if mc_username is no longer UNIQUE (see Fail).
InsertIdentity(r) ==
    /\ Has(r, "register")
    /\ \A j \in Identities : username[j] # request[r].name
    /\ username' = [username EXCEPT ![request[r].identity] = request[r].name]
    /\ Finish(r)
    /\ UNCHANGED <<worlds, memberships, invites, sessions, now, joined, broken, admitted>>

\* createWorld: one batch, so the owner is a member from the start.
CreateWorld(i, w) ==
    /\ username[i] # None
    /\ worlds[w] = None
    /\ worlds' = [worlds EXCEPT ![w] = [owner |-> i, archived |-> FALSE]]
    /\ memberships' = memberships \cup {<<w, i>>}
    /\ UNCHANGED <<username, invites, sessions, request, now, joined, broken, admitted>>

-----------------------------------------------------------------------------
\* archiveWorld, createInvite and launchWorld begin with requireMembership; the
\* world may be archived before they go on.
Authorized(r, op, i, w) ==
    /\ CASE op = "launch"  -> IsMember(i, w)
         [] op = "archive" -> IsOwner(i, w)
         [] op = "invite"  -> IsOwner(i, w) /\ w \in Shared
    /\ Begin(r, [op |-> op, identity |-> i, world |-> w])
    /\ UNCHANGED <<username, worlds, memberships, invites, sessions, now, joined,
                   broken, admitted>>

Archive(r) ==
    /\ Has(r, "archive")
    /\ worlds' = [worlds EXCEPT ![request[r].world].archived = TRUE]
    /\ Finish(r)
    /\ UNCHANGED <<username, memberships, invites, sessions, now, joined, broken, admitted>>

InsertInvite(r, v) ==
    /\ Has(r, "invite") /\ invites[v] = None
    /\ invites' = [invites EXCEPT ![v] =
          [world |-> request[r].world, expires |-> now + InviteTTL, uses |-> 0]]
    /\ Finish(r)
    /\ UNCHANGED <<username, worlds, memberships, sessions, now, joined, broken, admitted>>

\* launchWorld once the orchestrator reports `ready': the session is stored for
\* the caller's name and the world, whatever became of the world meanwhile.  The
\* orchestrator's other answers end the request (Fail).
InsertSession(r, t) ==
    /\ Has(r, "launch") /\ sessions[t] = None
    /\ sessions' = [sessions EXCEPT ![t] =
          [world |-> request[r].world, identity |-> request[r].identity,
           name |-> username[request[r].identity],
           expires |-> now + SessionTTL, consumed |-> None]]
    /\ Finish(r)
    /\ UNCHANGED <<username, worlds, memberships, invites, now, joined, broken, admitted>>

-----------------------------------------------------------------------------
MaxUses == 1

\* Reading `uses' first and counting later, as two statements would.
RedeemableAtAnyTime(v) == invites[v] # None /\ now < invites[v].expires

Redeemable(v) ==
    /\ invites[v] # None
    /\ invites[v].uses < MaxUses
    /\ now < invites[v].expires

\* redeemInvite: UPDATE ... RETURNING counts the use first ...
SpendInvite(r, i, v) ==
    /\ username[i] # None
    /\ Redeemable(v)
    /\ invites' = [invites EXCEPT ![v].uses = @ + 1]
    /\ Begin(r, [op |-> "spent", identity |-> i, invite |-> v])
    /\ UNCHANGED <<username, worlds, memberships, sessions, now, joined, broken, admitted>>

\* ... then looks the world up, answering 409 if it was archived or is not shared ...
LookupWorld(r) ==
    /\ Has(r, "spent")
    /\ LET w == invites[request[r].invite].world IN
       request' = [request EXCEPT ![r] =
          IF Open(w) /\ w \in Shared THEN [@ EXCEPT !.op = "join"] ELSE None]
    /\ UNCHANGED <<username, worlds, memberships, invites, sessions, now, joined,
                   broken, admitted>>

\* ... and adds the member (INSERT OR IGNORE), even to a world archived since.
Join(r) ==
    /\ Has(r, "join")
    /\ LET i == request[r].identity
           v == request[r].invite IN
       /\ memberships' = memberships \cup {<<invites[v].world, i>>}
       /\ joined' = [joined EXCEPT ![v] = @ \cup {i}]
    /\ Finish(r)
    /\ UNCHANGED <<username, worlds, invites, sessions, now, broken, admitted>>

-----------------------------------------------------------------------------
\* Any token that has not expired, spent or not.
AcceptsAgain(t, w, n) ==
    /\ sessions[t] # None
    /\ sessions[t].world = w /\ sessions[t].name = n
    /\ now < sessions[t].expires

\* The WHERE of consumeLaunch.
Accepts(t, w, n) ==
    /\ sessions[t] # None
    /\ sessions[t].world = w /\ sessions[t].name = n
    /\ sessions[t].consumed = None
    /\ now < sessions[t].expires

\* consumeLaunch: HEMGate of world w asks for the player who connected as n.
ConsumeToken(r, t, w, n) ==
    /\ Accepts(t, w, n)
    /\ sessions' = [sessions EXCEPT ![t].consumed = now]
    /\ Begin(r, [op |-> "admit", token |-> t, name |-> n])
    /\ UNCHANGED <<username, worlds, memberships, invites, now, joined, broken, admitted>>

\* Answering from the session alone.
AdmitUnseen(r) ==
    /\ Has(r, "admit")
    /\ admitted' = [admitted EXCEPT ![request[r].token] = Append(@, request[r].name)]
    /\ Finish(r)
    /\ UNCHANGED <<username, worlds, memberships, invites, sessions, now, joined, broken>>

\* The second read: OK only for a member of a world that is still open.
Admit(r) ==
    /\ Has(r, "admit")
    /\ LET t == request[r].token IN
       admitted' = IF IsMember(sessions[t].identity, sessions[t].world)
                   THEN [admitted EXCEPT ![t] = Append(@, request[r].name)] ELSE admitted
    /\ Finish(r)
    /\ UNCHANGED <<username, worlds, memberships, invites, sessions, now, joined, broken>>

-----------------------------------------------------------------------------
\* The request ends between two statements: D1 or the orchestrator answered with
\* an error, a constraint failed, or the host is not ready yet.
Fail(r) ==
    /\ request[r] # None
    /\ broken' = CASE request[r].op \in {"spent", "join"} -> broken \cup {request[r].invite}
                   [] request[r].op = "admit" -> broken \cup {request[r].token}
                   [] OTHER -> broken
    /\ Finish(r)
    /\ UNCHANGED <<username, worlds, memberships, invites, sessions, now, joined, admitted>>

Tick ==
    /\ now < MaxTime
    /\ now' = now + 1
    /\ UNCHANGED <<username, worlds, memberships, invites, sessions, request, joined,
                   broken, admitted>>

Next ==
    \/ \E r \in Requests, i \in Identities, n \in Names : ProposeName(r, i, n)
    \/ \E i \in Identities, w \in Worlds : CreateWorld(i, w)
    \/ \E r \in Requests, i \in Identities, w \in Worlds :
          \E op \in {"launch", "archive", "invite"} : Authorized(r, op, i, w)
    \/ \E r \in Requests, v \in Invites : InsertInvite(r, v)
    \/ \E r \in Requests, t \in Tokens : InsertSession(r, t)
    \/ \E r \in Requests, i \in Identities, v \in Invites : SpendInvite(r, i, v)
    \/ \E r \in Requests, t \in Tokens, w \in Worlds, n \in Names :
          ConsumeToken(r, t, w, n)
    \/ \E r \in Requests :
          InsertIdentity(r) \/ Archive(r) \/ LookupWorld(r) \/ Join(r) \/ Admit(r) \/ Fail(r)
    \/ Tick

Spec == Init /\ [][Next]_vars

-----------------------------------------------------------------------------
(* An invite lets one player in, however many redeem it at once.           *)
InviteBudget == \A v \in Invites : Cardinality(joined[v]) <= MaxUses

(* Members are the owner and those who redeemed an invite of that world,   *)
(* and nobody is ever invited to a world that is not shared.               *)
MembersInvited ==
    /\ \A m \in memberships :
          worlds[m[1]].owner = m[2]
              \/ \E v \in Invites : m[2] \in joined[v] /\ invites[v].world = m[1]
    /\ \A v \in Invites : invites[v] # None => invites[v].world \in Shared

(* A counted use is accounted for: somebody joined, is joining, was turned *)
(* away by the archive, or the redemption broke off after the count.  So   *)
(* an invite is wasted only by a failure between the two statements.       *)
SpentInviteExplained ==
    \A v \in Invites : invites[v] # None /\ invites[v].uses > 0 =>
        \/ joined[v] # {} \/ v \in broken \/ ~Open(invites[v].world)
        \/ \E r \in Requests : /\ Has(r, "spent") \/ Has(r, "join")
                               /\ request[r].invite = v

(* Whatever overlaps or fails, an invite lets in one player at most, into  *)
(* its own world, and its use is never lost without a failure or an        *)
(* archived world to blame.                                                *)
InvitesAccounted == InviteBudget /\ MembersInvited /\ SpentInviteExplained

(* A launch token admits the player it was made for and nobody else, once, *)
(* however often HEMGate asks and however its requests overlap.            *)
AdmittedOnce ==
    \A t \in Tokens :
        admitted[t] # <<>> => admitted[t] = <<username[sessions[t].identity]>>

(* A consumed token admitted its player, is about to, or belongs to a      *)
(* world archived since: otherwise only a failure after the first          *)
(* statement wastes it, and the player has to launch again.                *)
SpentTokenExplained ==
    \A t \in Tokens : sessions[t] # None /\ sessions[t].consumed # None =>
        \/ admitted[t] # <<>> \/ t \in broken \/ ~Open(sessions[t].world)
        \/ \E r \in Requests : Has(r, "admit") /\ request[r].token = t

(* Whatever overlaps or fails, a launch token admits its own player once,  *)
(* and is never used up without a failure or an archived world to blame.   *)
TokensAccounted == AdmittedOnce /\ SpentTokenExplained

(* Nobody is admitted to an archived world: not with a launch that waited  *)
(* for the orchestrator when it was archived, nor with a token consumed    *)
(* just before.                                                            *)
ArchiveIsFinal ==
    [][\A t \in Tokens : sessions[t] # None /\ worlds[sessions[t].world].archived =>
           admitted'[t] = admitted[t]]_vars
=============================================================================
