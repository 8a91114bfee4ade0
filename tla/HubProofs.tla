------------------------------ MODULE HubProofs ------------------------------
(***************************************************************************)
(* What the hub promises for any number of players, worlds, invites,       *)
(* tokens and requests at a time, whichever of them overlap or fail: its   *)
(* tables keep their constraints, an invite lets in one player, a launch   *)
(* token admits its own player once, and an archived world nobody.         *)
(***************************************************************************)
EXTENDS Hub, FiniteSetTheorems, SequenceTheorems, TLAPS

-----------------------------------------------------------------------------
(* Requests in progress.                                                   *)

\* A request that redeems an invite, one that consumes a token.
Redeems(r, v) == (Has(r, "spent") \/ Has(r, "join")) /\ request[r].invite = v
Consumes(r, t) == Has(r, "admit") /\ request[r].token = t

\* What a request holds, by what it does.
LEMMA PendingFields ==
    ASSUME NEW p \in Pending
    PROVE  /\ p # None
           /\ p.op \in {"register", "spent", "join", "launch", "archive", "invite", "admit"}
           /\ p.op = "register" => p.identity \in Identities /\ p.name \in Names
           /\ p.op \in {"spent", "join"} => p.identity \in Identities /\ p.invite \in Invites
           /\ p.op \in {"launch", "archive", "invite"} =>
                 p.identity \in Identities /\ p.world \in Worlds
           /\ p.op = "admit" => p.token \in Tokens /\ p.name \in Names
  BY NoneAssumption DEF Pending

\* The columns of the tables.
TableTypes ==
    /\ username \in [Identities -> Names \cup {None}]
    /\ worlds \in [Worlds -> WorldRow \cup {None}]
    /\ memberships \subseteq Worlds \X Identities
    /\ invites \in [Invites -> InviteRow \cup {None}]
    /\ sessions \in [Tokens -> SessionRow \cup {None}]

RequestTypes == request \in [Requests -> Pending \cup {None}] /\ now \in Time

HistoryTypes ==
    /\ joined \in [Invites -> SUBSET Identities]
    /\ broken \subseteq Invites \cup Tokens
    /\ admitted \in [Tokens -> Seq(Names)]

Types == TableTypes /\ RequestTypes /\ HistoryTypes

\* Rows refer to rows that exist.
RowsExist ==
    /\ \A m \in memberships : worlds[m[1]] # None /\ username[m[2]] # None
    /\ \A v \in Invites : invites[v] # None =>
          worlds[invites[v].world] # None /\ invites[v].world \in Shared
    /\ \A t \in Tokens : sessions[t] # None =>
          /\ worlds[sessions[t].world] # None
          /\ username[sessions[t].identity] = sessions[t].name

\* So do requests: what they have read of rows stays true, and an identity that is
\* registering has no row and no second request to register.
RowReads(r) ==
    /\ Has(r, "spent") \/ Has(r, "join") =>
          invites[request[r].invite] # None /\ username[request[r].identity] # None
    /\ Has(r, "admit") =>
          /\ sessions[request[r].token] # None
          /\ sessions[request[r].token].name = request[r].name
    /\ Has(r, "launch") \/ Has(r, "archive") \/ Has(r, "invite") =>
          worlds[request[r].world] # None /\ username[request[r].identity] # None
    /\ Has(r, "invite") => request[r].world \in Shared

Registers(r, i) == Has(r, "register") /\ request[r].identity = i

ReadsExist ==
    /\ \A r \in Requests : RowReads(r)
    /\ \A r \in Requests, i \in Identities : Registers(r, i) =>
          username[i] = None /\ \A q \in Requests : Registers(q, i) => q = r

Tables == Types /\ RowsExist /\ ReadsExist /\ NamesDistinct

LEMMA InitialTables == Init => Tables
<1> SUFFICES ASSUME Init PROVE Tables
  OBVIOUS
<1>1. TableTypes /\ RequestTypes
  BY TimesAssumption DEF Init, TableTypes, RequestTypes, Time
<1>2. HistoryTypes
  BY DEF Init, HistoryTypes
<1>3. RowsExist /\ ReadsExist /\ NamesDistinct
  BY DEF Init, RowsExist, ReadsExist, RowReads, Registers, NamesDistinct, Has
<1> QED
  BY <1>1, <1>2, <1>3 DEF Tables, Types

\* The parts make up the type invariant.
LEMMA TablesImplyTypes == Tables => TypeOK
  BY DEF Tables, Types, TableTypes, RequestTypes, HistoryTypes, RowsExist, TypeOK

-----------------------------------------------------------------------------
\* Every action keeps the types.
LEMMA TypesKept ==
    ASSUME Types, ReadsExist, [Next]_vars
    PROVE  Types'
<1> USE DEF Types
<1>1. ASSUME NEW r \in Requests, NEW i \in Identities, NEW n \in Names, ProposeName(r, i, n)
      PROVE  Types'
  <2>1. [op |-> "register", identity |-> i, name |-> n] \in Pending
    BY DEF Pending
  <2> QED
    BY <1>1, <2>1 DEF ProposeName, Begin, TableTypes, RequestTypes, HistoryTypes
<1>2. ASSUME NEW i \in Identities, NEW w \in Worlds, CreateWorld(i, w)
      PROVE  Types'
  <2>1. [owner |-> i, archived |-> FALSE] \in WorldRow
    BY DEF WorldRow
  <2> QED
    BY <1>2, <2>1 DEF CreateWorld, TableTypes, RequestTypes, HistoryTypes
<1>3. ASSUME NEW r \in Requests, NEW i \in Identities, NEW w \in Worlds,
             NEW op \in {"launch", "archive", "invite"}, Authorized(r, op, i, w)
      PROVE  Types'
  <2>1. [op |-> op, identity |-> i, world |-> w] \in Pending
    BY DEF Pending
  <2> QED
    BY <1>3, <2>1 DEF Authorized, Begin, TableTypes, RequestTypes, HistoryTypes
<1>4. ASSUME NEW r \in Requests, NEW v \in Invites, InsertInvite(r, v)
      PROVE  Types'
  <2>1. request[r].world \in Worlds
    BY <1>4, PendingFields DEF InsertInvite, Has, RequestTypes
  <2>2. [world |-> request[r].world, expires |-> now + InviteTTL, uses |-> 0] \in InviteRow
    BY <2>1, TimesAssumption DEF InviteRow, RequestTypes, Time
  <2> QED
    BY <1>4, <2>2 DEF InsertInvite, Finish, TableTypes, RequestTypes, HistoryTypes
<1>5. ASSUME NEW r \in Requests, NEW t \in Tokens, InsertSession(r, t)
      PROVE  Types'
  <2>1. request[r].world \in Worlds /\ request[r].identity \in Identities
    BY <1>5, PendingFields DEF InsertSession, Has, RequestTypes
  <2>2. username[request[r].identity] \in Names
    BY <1>5, <2>1 DEF InsertSession, ReadsExist, RowReads, TableTypes
  <2> DEFINE row == [world |-> request[r].world, identity |-> request[r].identity,
                     name |-> username[request[r].identity],
                     expires |-> now + SessionTTL, consumed |-> None]
  <2>3. row \in SessionRow
    BY <2>1, <2>2, TimesAssumption DEF SessionRow, RequestTypes, Time
  <2>4. sessions' = [sessions EXCEPT ![t] = row]
    BY <1>5 DEF InsertSession
  <2> HIDE DEF row
  <2> QED
    BY <1>5, <2>3, <2>4 DEF InsertSession, Finish, TableTypes, RequestTypes, HistoryTypes
<1>6. ASSUME NEW r \in Requests, NEW i \in Identities, NEW v \in Invites, SpendInvite(r, i, v)
      PROVE  Types'
  <2>1. [op |-> "spent", identity |-> i, invite |-> v] \in Pending
    BY DEF Pending
  <2>2. invites[v] \in InviteRow
    BY <1>6 DEF SpendInvite, Redeemable, TableTypes
  <2>3. [invites[v] EXCEPT !.uses = invites[v].uses + 1] \in InviteRow
    BY <2>2 DEF InviteRow
  <2>4. invites' = [invites EXCEPT ![v] = [invites[v] EXCEPT !.uses = invites[v].uses + 1]]
    BY <1>6 DEF SpendInvite
  <2> QED
    BY <1>6, <2>1, <2>3, <2>4 DEF SpendInvite, Begin, TableTypes, RequestTypes, HistoryTypes
<1>7. ASSUME NEW r \in Requests, NEW t \in Tokens, NEW w \in Worlds, NEW n \in Names,
             ConsumeToken(r, t, w, n)
      PROVE  Types'
  <2>1. [op |-> "admit", token |-> t, name |-> n] \in Pending
    BY DEF Pending
  <2>2. sessions[t] \in SessionRow
    BY <1>7 DEF ConsumeToken, Accepts, TableTypes
  <2>3. [sessions[t] EXCEPT !.consumed = now] \in SessionRow
    BY <2>2 DEF SessionRow, RequestTypes
  <2>4. sessions' = [sessions EXCEPT ![t] = [sessions[t] EXCEPT !.consumed = now]]
    BY <1>7 DEF ConsumeToken
  <2> QED
    BY <1>7, <2>1, <2>3, <2>4 DEF ConsumeToken, Begin, TableTypes, RequestTypes, HistoryTypes
<1>8. ASSUME NEW r \in Requests, InsertIdentity(r)
      PROVE  Types'
  <2>1. request[r].identity \in Identities /\ request[r].name \in Names
    BY <1>8, PendingFields DEF InsertIdentity, Has, RequestTypes
  <2> QED
    BY <1>8, <2>1 DEF InsertIdentity, Finish, TableTypes, RequestTypes, HistoryTypes
<1>9. ASSUME NEW r \in Requests, Archive(r)
      PROVE  Types'
  <2> DEFINE w == request[r].world
  <2>1. w \in Worlds /\ worlds[w] \in WorldRow
    BY <1>9, PendingFields DEF Archive, Has, RequestTypes, TableTypes, ReadsExist, RowReads
  <2>2. [worlds[w] EXCEPT !.archived = TRUE] \in WorldRow
    BY <2>1 DEF WorldRow
  <2>3. worlds' = [worlds EXCEPT ![w] = [worlds[w] EXCEPT !.archived = TRUE]]
    BY <1>9 DEF Archive
  <2>4. /\ UNCHANGED <<username, memberships, invites, sessions, now, joined, broken, admitted>>
        /\ request' = [request EXCEPT ![r] = None]
    BY <1>9 DEF Archive, Finish
  <2> HIDE DEF w
  <2> QED
    BY <2>1, <2>2, <2>3, <2>4 DEF TableTypes, RequestTypes, HistoryTypes
<1>10. ASSUME NEW r \in Requests, LookupWorld(r)
       PROVE  Types'
  <2>1. [request[r] EXCEPT !.op = "join"] \in Pending
    <3>1. request[r] \in Pending /\ request[r].op = "spent"
      BY <1>10 DEF LookupWorld, Has, RequestTypes
    <3>2. request[r] \in [op : {"spent", "join"}, identity : Identities, invite : Invites]
      BY <3>1 DEF Pending
    <3>3. [request[r] EXCEPT !.op = "join"]
             \in [op : {"spent", "join"}, identity : Identities, invite : Invites]
      BY <3>2
    <3> QED
      BY <3>3 DEF Pending
  <2>2. request' \in {[request EXCEPT ![r] = [request[r] EXCEPT !.op = "join"]],
                      [request EXCEPT ![r] = None]}
    BY <1>10 DEF LookupWorld
  <2> QED
    BY <1>10, <2>1, <2>2 DEF LookupWorld, TableTypes, RequestTypes, HistoryTypes
<1>11. ASSUME NEW r \in Requests, Join(r)
       PROVE  Types'
  <2> DEFINE i == request[r].identity
             v == request[r].invite
  <2>1. i \in Identities /\ v \in Invites
    BY <1>11, PendingFields DEF Join, Has, RequestTypes
  <2>2. invites[v].world \in Worlds
    BY <1>11, <2>1 DEF Join, ReadsExist, RowReads, TableTypes, InviteRow
  <2>3. /\ memberships' = memberships \cup {<<invites[v].world, i>>}
        /\ joined' = [joined EXCEPT ![v] = joined[v] \cup {i}]
    BY <1>11 DEF Join
  <2>4. /\ UNCHANGED <<username, worlds, invites, sessions, now, broken, admitted>>
        /\ request' = [request EXCEPT ![r] = None]
    BY <1>11 DEF Join, Finish
  <2> HIDE DEF i, v
  <2> QED
    BY <2>1, <2>2, <2>3, <2>4 DEF TableTypes, RequestTypes, HistoryTypes
<1>12. ASSUME NEW r \in Requests, Admit(r)
       PROVE  Types'
  <2> DEFINE t == request[r].token
  <2>1. t \in Tokens /\ request[r].name \in Names
    BY <1>12, PendingFields DEF Admit, Has, RequestTypes
  <2>2. admitted' \in {admitted,
                       [admitted EXCEPT ![t] = Append(admitted[t], request[r].name)]}
    BY <1>12 DEF Admit
  <2>3. /\ UNCHANGED <<username, worlds, memberships, invites, sessions, now, joined, broken>>
        /\ request' = [request EXCEPT ![r] = None]
    BY <1>12 DEF Admit, Finish
  <2> DEFINE s == Append(admitted[t], request[r].name)
  <2>4. s \in Seq(Names)
    BY <2>1, AppendProperties DEF HistoryTypes
  <2> HIDE DEF t, s
  <2>5. admitted' \in [Tokens -> Seq(Names)]
    BY <2>1, <2>2, <2>4 DEF HistoryTypes, s
  <2> QED
    BY <2>3, <2>5 DEF TableTypes, RequestTypes, HistoryTypes
<1>13. ASSUME NEW r \in Requests, Fail(r)
       PROVE  Types'
  <2>1. request[r] \in Pending
    BY <1>13 DEF Fail, RequestTypes
  <2>2. \/ broken' = broken
        \/ request[r].op \in {"spent", "join"} /\ broken' = broken \cup {request[r].invite}
        \/ request[r].op = "admit" /\ broken' = broken \cup {request[r].token}
    BY <1>13 DEF Fail
  <2>3. broken' \subseteq Invites \cup Tokens
    BY <2>1, <2>2, PendingFields DEF HistoryTypes
  <2> QED
    BY <1>13, <2>3 DEF Fail, Finish, TableTypes, RequestTypes, HistoryTypes
<1>14. ASSUME Tick
       PROVE  Types'
  BY <1>14, TimesAssumption DEF Tick, Time, TableTypes, RequestTypes, HistoryTypes
<1>15. ASSUME UNCHANGED vars
       PROVE  Types'
  BY <1>15 DEF vars, TableTypes, RequestTypes, HistoryTypes
<1> QED
  BY <1>1, <1>2, <1>3, <1>4, <1>5, <1>6, <1>7, <1>8, <1>9, <1>10, <1>11, <1>12, <1>13,
     <1>14, <1>15 DEF Next

-----------------------------------------------------------------------------
(* Rows are never deleted, and of their columns only archived, uses and    *)
(* consumed change.                                                        *)
RowsStay ==
    /\ \A i \in Identities : username[i] # None => username'[i] = username[i]
    /\ \A w \in Worlds : worlds[w] # None =>
          worlds'[w] # None /\ worlds'[w].owner = worlds[w].owner
    /\ \A w \in Worlds : worlds[w] # None /\ worlds[w].archived => worlds'[w].archived
    /\ \A v \in Invites : invites[v] # None =>
          invites'[v] # None /\ invites'[v].world = invites[v].world
    /\ \A t \in Tokens : sessions[t] # None =>
          /\ sessions'[t] # None /\ sessions'[t].world = sessions[t].world
          /\ sessions'[t].identity = sessions[t].identity
          /\ sessions'[t].name = sessions[t].name
          /\ sessions[t].consumed # None => sessions'[t].consumed # None

(* What an invite has done: it let in one player at most, and a request    *)
(* that redeems it is the only one and the first.                          *)
UseOf(v) ==
    /\ invites[v] # None => invites[v].uses \in {0, 1}
    /\ joined[v] # {} =>
          /\ invites[v] # None /\ invites[v].uses = 1
          /\ \E i \in Identities : joined[v] = {i}
    /\ \A r \in Requests : Redeems(r, v) =>
          /\ invites[v] # None /\ invites[v].uses = 1 /\ joined[v] = {}
          /\ \A q \in Requests : Redeems(q, v) => q = r

InviteUse == \A v \in Invites : UseOf(v)

(* What a token has done, likewise.                                        *)
TokenUseOf(t) ==
    /\ admitted[t] # <<>> =>
          /\ sessions[t] # None /\ sessions[t].consumed # None
          /\ admitted[t] = <<username[sessions[t].identity]>>
    /\ \A r \in Requests : Consumes(r, t) =>
          /\ sessions[t] # None /\ sessions[t].consumed # None /\ admitted[t] = <<>>
          /\ \A q \in Requests : Consumes(q, t) => q = r

TokenUse == \A t \in Tokens : TokenUseOf(t)

(* Only members launch, and a session is a member's.                       *)
MembersOnly ==
    /\ \A r \in Requests : Has(r, "launch") =>
          <<request[r].world, request[r].identity>> \in memberships
    /\ \A t \in Tokens : sessions[t] # None =>
          <<sessions[t].world, sessions[t].identity>> \in memberships

LEMMA RowsDoStay ==
    ASSUME Types, ReadsExist, [Next]_vars
    PROVE  RowsStay
<1> USE DEF Types
<1>1. ASSUME UNCHANGED <<username, worlds, invites, sessions>>
      PROVE  RowsStay
  BY <1>1 DEF RowsStay
<1>2. ASSUME NEW i \in Identities, NEW w \in Worlds, CreateWorld(i, w)
      PROVE  RowsStay
  BY <1>2 DEF CreateWorld, RowsStay, TableTypes
<1>3. ASSUME NEW r \in Requests, NEW v \in Invites, InsertInvite(r, v)
      PROVE  RowsStay
  BY <1>3 DEF InsertInvite, RowsStay, TableTypes
<1>4. ASSUME NEW r \in Requests, NEW t \in Tokens, InsertSession(r, t)
      PROVE  RowsStay
  BY <1>4 DEF InsertSession, RowsStay, TableTypes
<1>5. ASSUME NEW r \in Requests, NEW i \in Identities, NEW v \in Invites, SpendInvite(r, i, v)
      PROVE  RowsStay
  <2>1. invites[v] \in InviteRow
    BY <1>5 DEF SpendInvite, Redeemable, TableTypes
  <2> DEFINE row == [invites[v] EXCEPT !.uses = invites[v].uses + 1]
  <2>2. row \in InviteRow /\ row.world = invites[v].world
    BY <2>1 DEF InviteRow
  <2>3. row # None
    BY <2>2, NoneAssumption
  <2>4. invites' = [invites EXCEPT ![v] = row] /\ UNCHANGED <<username, worlds, sessions>>
    BY <1>5 DEF SpendInvite
  <2> HIDE DEF row
  <2> QED
    BY <2>2, <2>3, <2>4 DEF RowsStay, TableTypes
<1>6. ASSUME NEW r \in Requests, NEW t \in Tokens, NEW w \in Worlds, NEW n \in Names,
             ConsumeToken(r, t, w, n)
      PROVE  RowsStay
  <2>1. sessions[t] \in SessionRow /\ sessions[t].consumed = None
    BY <1>6 DEF ConsumeToken, Accepts, TableTypes
  <2> DEFINE row == [sessions[t] EXCEPT !.consumed = now]
  <2>2. /\ row \in SessionRow /\ row.world = sessions[t].world
        /\ row.identity = sessions[t].identity /\ row.name = sessions[t].name
    BY <2>1 DEF SessionRow, RequestTypes
  <2>3. row # None
    BY <2>2, NoneAssumption
  <2>4. sessions' = [sessions EXCEPT ![t] = row] /\ UNCHANGED <<username, worlds, invites>>
    BY <1>6 DEF ConsumeToken
  <2> HIDE DEF row
  <2> QED
    BY <2>1, <2>2, <2>3, <2>4 DEF RowsStay, TableTypes
<1>7. ASSUME NEW r \in Requests, InsertIdentity(r)
      PROVE  RowsStay
  <2>1. request[r].identity \in Identities /\ Registers(r, request[r].identity)
    BY <1>7, PendingFields DEF InsertIdentity, Registers, Has, RequestTypes
  <2>2. username[request[r].identity] = None
    BY <2>1 DEF ReadsExist
  <2> QED
    BY <1>7, <2>1, <2>2 DEF InsertIdentity, RowsStay, TableTypes
<1>8. ASSUME NEW r \in Requests, Archive(r)
      PROVE  RowsStay
  <2> DEFINE w == request[r].world
             row == [worlds[w] EXCEPT !.archived = TRUE]
  <2>1. w \in Worlds /\ worlds[w] \in WorldRow
    BY <1>8, PendingFields DEF Archive, Has, RequestTypes, TableTypes, ReadsExist, RowReads
  <2>2. row \in WorldRow /\ row.owner = worlds[w].owner /\ row.archived
    BY <2>1 DEF WorldRow
  <2>3. row # None
    BY <2>2, NoneAssumption
  <2>4. worlds' = [worlds EXCEPT ![w] = row] /\ UNCHANGED <<username, invites, sessions>>
    BY <1>8 DEF Archive
  <2> HIDE DEF w, row
  <2> QED
    BY <2>1, <2>2, <2>3, <2>4 DEF RowsStay, TableTypes
<1> QED
  BY <1>1, <1>2, <1>3, <1>4, <1>5, <1>6, <1>7, <1>8
     DEF Next, vars, ProposeName, Authorized, LookupWorld, Join, Admit, Fail, Tick

-----------------------------------------------------------------------------
\* A request in progress stays as it is, ends, begins or goes on.
LEMMA HowRequestsChange ==
    ASSUME RequestTypes, [Next]_vars, NEW q \in Requests
    PROVE  \/ request'[q] = request[q] \/ request'[q] = None
           \/ \E i \in Identities, n \in Names : ProposeName(q, i, n)
           \/ \E i \in Identities, w \in Worlds :
                 \E op \in {"launch", "archive", "invite"} : Authorized(q, op, i, w)
           \/ \E i \in Identities, v \in Invites : SpendInvite(q, i, v)
           \/ \E t \in Tokens, w \in Worlds, n \in Names : ConsumeToken(q, t, w, n)
           \/ LookupWorld(q)
<1>1. ASSUME NEW r \in Requests, Finish(r)
      PROVE  request'[q] = request[q] \/ request'[q] = None
  BY <1>1 DEF Finish, RequestTypes
<1>2. ASSUME NEW r \in Requests, NEW p, Begin(r, p), r # q
      PROVE  request'[q] = request[q]
  BY <1>2 DEF Begin, RequestTypes
<1>3. ASSUME NEW r \in Requests, NEW i \in Identities, NEW n \in Names,
             ProposeName(r, i, n), r # q
      PROVE  request'[q] = request[q]
  BY <1>2, <1>3 DEF ProposeName
<1>4. ASSUME NEW r \in Requests, NEW i \in Identities, NEW w \in Worlds,
             NEW op \in {"launch", "archive", "invite"}, Authorized(r, op, i, w), r # q
      PROVE  request'[q] = request[q]
  BY <1>2, <1>4 DEF Authorized
<1>5. ASSUME NEW r \in Requests, NEW i \in Identities, NEW v \in Invites,
             SpendInvite(r, i, v), r # q
      PROVE  request'[q] = request[q]
  BY <1>2, <1>5 DEF SpendInvite
<1>6. ASSUME NEW r \in Requests, NEW t \in Tokens, NEW w \in Worlds, NEW n \in Names,
             ConsumeToken(r, t, w, n), r # q
      PROVE  request'[q] = request[q]
  BY <1>2, <1>6 DEF ConsumeToken
<1>7. ASSUME NEW r \in Requests, LookupWorld(r), r # q
      PROVE  request'[q] = request[q]
  BY <1>7 DEF LookupWorld, RequestTypes
<1>8. \/ UNCHANGED request \/ \E r \in Requests : Finish(r)
      \/ \E r \in Requests, i \in Identities, n \in Names : ProposeName(r, i, n)
      \/ \E r \in Requests, i \in Identities, w \in Worlds :
            \E op \in {"launch", "archive", "invite"} : Authorized(r, op, i, w)
      \/ \E r \in Requests, i \in Identities, v \in Invites : SpendInvite(r, i, v)
      \/ \E r \in Requests, t \in Tokens, w \in Worlds, n \in Names :
            ConsumeToken(r, t, w, n)
      \/ \E r \in Requests : LookupWorld(r)
  BY DEF Next, vars, CreateWorld, InsertInvite, InsertSession, InsertIdentity, Archive, Join,
     Admit, Fail, Tick
<1> QED
  BY <1>1, <1>3, <1>4, <1>5, <1>6, <1>7, <1>8

LEMMA RowsExistKept ==
    ASSUME Tables, Types', RowsStay, [Next]_vars
    PROVE  RowsExist'
<1> USE DEF Tables, Types
<1>1. ASSUME NEW m \in memberships'
      PROVE  worlds'[m[1]] # None /\ username'[m[2]] # None
  <2>1. m \in Worlds \X Identities
    BY DEF TableTypes
  <2>2. CASE m \in memberships
    BY <2>1, <2>2 DEF RowsExist, RowsStay
  <2>3. CASE \E i \in Identities, w \in Worlds : CreateWorld(i, w) /\ m = <<w, i>>
    <3>1. PICK i \in Identities, w \in Worlds : CreateWorld(i, w) /\ m = <<w, i>>
      BY <2>3
    <3>2. worlds'[w] \in WorldRow /\ username'[i] = username[i] /\ username[i] # None
      BY <3>1 DEF CreateWorld, TableTypes, WorldRow
    <3> QED
      BY <3>1, <3>2, NoneAssumption
  <2>4. CASE \E r \in Requests : Join(r) /\ m \notin memberships
    <3>1. PICK r \in Requests : Join(r) /\ m \notin memberships
      BY <2>4
    <3> DEFINE i == request[r].identity
               v == request[r].invite
    <3>2. v \in Invites /\ i \in Identities
      BY <3>1, PendingFields DEF Join, Has, RequestTypes
    <3>3. invites[v] # None /\ username[i] # None
      BY <3>1 DEF Join, ReadsExist, RowReads
    <3>4. m = <<invites[v].world, i>>
      BY <3>1 DEF Join
    <3>5. invites[v].world \in Worlds /\ worlds[invites[v].world] # None
      BY <3>2, <3>3 DEF RowsExist, TableTypes, InviteRow
    <3> HIDE DEF i, v
    <3> QED
      BY <3>2, <3>3, <3>4, <3>5 DEF RowsStay
  <2>5. \/ memberships' = memberships \/ \E r \in Requests : Join(r)
        \/ \E i \in Identities, w \in Worlds : CreateWorld(i, w)
    BY DEF Next, vars, ProposeName, Authorized, InsertInvite, InsertSession, SpendInvite,
       ConsumeToken, InsertIdentity, Archive, LookupWorld, Admit, Fail, Tick
  <2> QED
    BY <2>2, <2>3, <2>4, <2>5 DEF CreateWorld
<1>2. ASSUME NEW v \in Invites, invites'[v] # None
      PROVE  worlds'[invites'[v].world] # None /\ invites'[v].world \in Shared
  <2>1. CASE invites[v] # None
    <3>1. invites[v].world \in Worlds
      BY <2>1 DEF TableTypes, InviteRow
    <3> QED
      BY <2>1, <3>1 DEF RowsExist, RowsStay
  <2>2. CASE invites[v] = None
    <3>1. PICK r \in Requests : InsertInvite(r, v)
      BY <1>2, <2>2 DEF Next, vars, ProposeName, CreateWorld, Authorized, InsertInvite,
         InsertSession, SpendInvite, Redeemable, ConsumeToken, InsertIdentity, Archive,
         LookupWorld, Join, Admit, Fail, Tick, TableTypes
    <3>2. request[r].world \in Worlds
      BY <3>1, PendingFields DEF InsertInvite, Has, RequestTypes
    <3>3. invites'[v].world = request[r].world
      BY <3>1 DEF InsertInvite, TableTypes
    <3>4. worlds[request[r].world] # None /\ request[r].world \in Shared
      BY <3>1 DEF InsertInvite, ReadsExist, RowReads
    <3> QED
      BY <3>2, <3>3, <3>4 DEF RowsStay
  <2> QED
    BY <2>1, <2>2
<1>3. ASSUME NEW t \in Tokens, sessions'[t] # None
      PROVE  /\ worlds'[sessions'[t].world] # None
             /\ username'[sessions'[t].identity] = sessions'[t].name
  <2>1. CASE sessions[t] # None
    <3>1. /\ sessions[t].world \in Worlds /\ sessions[t].identity \in Identities
          /\ sessions[t].name \in Names
      BY <2>1 DEF TableTypes, SessionRow
    <3>2. worlds[sessions[t].world] # None /\ username[sessions[t].identity] = sessions[t].name
      BY <2>1 DEF RowsExist
    <3>3. username[sessions[t].identity] # None
      BY <3>1, <3>2, NoneAssumption
    <3> QED
      BY <2>1, <3>1, <3>2, <3>3 DEF RowsStay
  <2>2. CASE sessions[t] = None
    <3>1. PICK r \in Requests : InsertSession(r, t)
      BY <1>3, <2>2 DEF Next, vars, ProposeName, CreateWorld, Authorized, InsertInvite,
         InsertSession, SpendInvite, Accepts, ConsumeToken, InsertIdentity, Archive,
         LookupWorld, Join, Admit, Fail, Tick, TableTypes
    <3>2. request[r].world \in Worlds /\ request[r].identity \in Identities
      BY <3>1, PendingFields DEF InsertSession, Has, RequestTypes
    <3>3. /\ sessions'[t].world = request[r].world
          /\ sessions'[t].identity = request[r].identity
          /\ sessions'[t].name = username[request[r].identity]
      BY <3>1 DEF InsertSession, TableTypes
    <3>4. worlds[request[r].world] # None /\ username[request[r].identity] # None
      BY <3>1 DEF InsertSession, ReadsExist, RowReads
    <3> QED
      BY <3>2, <3>3, <3>4 DEF RowsStay
  <2> QED
    BY <2>1, <2>2
<1> QED
  BY <1>1, <1>2, <1>3 DEF RowsExist

\* Two registrations of one name: the second insert fails.
LEMMA NamesStayDistinct ==
    ASSUME Tables, [Next]_vars
    PROVE  NamesDistinct'
<1> USE DEF Tables, Types
<1>1. CASE UNCHANGED username
  BY <1>1 DEF NamesDistinct
<1>2. ASSUME NEW r \in Requests, InsertIdentity(r)
      PROVE  NamesDistinct'
  <2>1. request[r].identity \in Identities
    BY <1>2, PendingFields DEF InsertIdentity, Has, RequestTypes
  <2> QED
    BY <1>2, <2>1 DEF InsertIdentity, NamesDistinct, TableTypes
<1> QED
  BY <1>1, <1>2 DEF Next, vars, ProposeName, CreateWorld, Authorized, InsertInvite,
     InsertSession, SpendInvite, ConsumeToken, InsertIdentity, Archive, LookupWorld, Join,
     Admit, Fail, Tick

-----------------------------------------------------------------------------
\* What requests have read stays true.
LEMMA ReadsExistKept ==
    ASSUME Tables, Types', RowsStay, [Next]_vars
    PROVE  ReadsExist'
<1> USE DEF Tables, Types
<1>1. ASSUME NEW q \in Requests, request'[q] = request[q]
      PROVE  RowReads(q)'
  <2>1. RowReads(q)
    BY DEF ReadsExist
  <2>2. CASE request[q] = None
    BY <1>1, <2>2 DEF RowReads, Has
  <2>3. CASE request[q] \in Pending
    BY <1>1, <2>1, <2>3, PendingFields DEF RowReads, Has, RowsStay
  <2> QED
    BY <2>2, <2>3 DEF RequestTypes
<1>2. ASSUME NEW q \in Requests, request'[q] = None
      PROVE  RowReads(q)'
  BY <1>2 DEF RowReads, Has
<1>3. ASSUME NEW r \in Requests, NEW i \in Identities, NEW n \in Names, ProposeName(r, i, n)
      PROVE  RowReads(r)'
  BY <1>3 DEF ProposeName, Begin, RowReads, Has, RequestTypes
<1>4. ASSUME NEW r \in Requests, NEW i \in Identities, NEW w \in Worlds,
             NEW op \in {"launch", "archive", "invite"}, Authorized(r, op, i, w)
      PROVE  RowReads(r)'
  <2>1. request'[r] = [op |-> op, identity |-> i, world |-> w]
    BY <1>4 DEF Authorized, Begin, RequestTypes
  <2>2. worlds[w] # None /\ <<w, i>> \in memberships /\ (op = "invite" => w \in Shared)
    BY <1>4 DEF Authorized, IsMember, IsOwner, Open
  <2>3. username[i] # None
    BY <2>2 DEF RowsExist
  <2>4. worlds' = worlds /\ username' = username
    BY <1>4 DEF Authorized
  <2> QED
    BY <2>1, <2>2, <2>3, <2>4 DEF RowReads, Has
<1>5. ASSUME NEW r \in Requests, NEW i \in Identities, NEW v \in Invites, SpendInvite(r, i, v)
      PROVE  RowReads(r)'
  <2>1. request'[r] = [op |-> "spent", identity |-> i, invite |-> v]
    BY <1>5 DEF SpendInvite, Begin, RequestTypes
  <2>2. invites[v] # None /\ username[i] # None
    BY <1>5 DEF SpendInvite, Redeemable
  <2> QED
    BY <2>1, <2>2 DEF RowReads, Has, RowsStay
<1>6. ASSUME NEW r \in Requests, NEW t \in Tokens, NEW w \in Worlds, NEW n \in Names,
             ConsumeToken(r, t, w, n)
      PROVE  RowReads(r)'
  <2>1. request'[r] = [op |-> "admit", token |-> t, name |-> n]
    BY <1>6 DEF ConsumeToken, Begin, RequestTypes
  <2>2. sessions[t] # None /\ sessions[t].name = n
    BY <1>6 DEF ConsumeToken, Accepts
  <2> QED
    BY <2>1, <2>2 DEF RowReads, Has, RowsStay
<1>7. ASSUME NEW r \in Requests, LookupWorld(r), request'[r] # None
      PROVE  RowReads(r)'
  <2>1. Has(r, "spent") /\ request'[r] = [request[r] EXCEPT !.op = "join"]
    BY <1>7 DEF LookupWorld, RequestTypes
  <2>2. request[r] \in [op : {"spent", "join"}, identity : Identities, invite : Invites]
    BY <2>1 DEF Has, RequestTypes, Pending
  <2>3. /\ request'[r].op = "join" /\ request'[r].identity = request[r].identity
        /\ request'[r].invite = request[r].invite
    BY <2>1, <2>2
  <2>4. invites[request[r].invite] # None /\ username[request[r].identity] # None
    BY <2>1 DEF ReadsExist, RowReads
  <2> QED
    BY <2>2, <2>3, <2>4 DEF RowReads, Has, RowsStay
<1>8. \A r \in Requests : RowReads(r)'
  <2> SUFFICES ASSUME NEW q \in Requests, request'[q] # request[q], request'[q] # None
               PROVE  RowReads(q)'
    BY <1>1, <1>2
  <2> QED
    BY <1>3, <1>4, <1>5, <1>6, <1>7, HowRequestsChange
<1>9. ASSUME NEW r \in Requests, NEW i \in Identities, Registers(r, i)'
      PROVE  username'[i] = None /\ \A q \in Requests : Registers(q, i)' => q = r
  <2>1. CASE \A q \in Requests : Registers(q, i)' => Registers(q, i)
    <3>1. username[i] = None /\ \A q \in Requests : Registers(q, i) => q = r
      BY <1>9, <2>1 DEF ReadsExist
    <3>2. username'[i] = None
      <4> SUFFICES ASSUME username'[i] # None PROVE FALSE
        OBVIOUS
      <4>1. PICK q \in Requests : InsertIdentity(q)
        BY <3>1 DEF Next, vars, ProposeName, CreateWorld, Authorized, InsertInvite,
           InsertSession, SpendInvite, ConsumeToken, Archive, LookupWorld, Join, Admit, Fail,
           Tick
      <4>2. Registers(q, i) /\ request'[q] = None
        BY <3>1, <4>1 DEF InsertIdentity, Finish, Registers, TableTypes, RequestTypes
      <4> QED
        BY <1>9, <3>1, <4>2 DEF Registers, Has
    <3> QED
      BY <2>1, <3>1, <3>2
  <2>2. CASE \E q \in Requests : Registers(q, i)' /\ ~Registers(q, i)
    <3>1. PICK q \in Requests : Registers(q, i)' /\ ~Registers(q, i)
      BY <2>2
    <3>2. request'[q] # None /\ request'[q].op = "register" /\ request'[q].identity = i
      BY <3>1 DEF Registers, Has
    <3>3. request'[q] # request[q]
      BY <3>1, <3>2 DEF Registers, Has
    <3>4. /\ \A j \in Identities, v \in Invites : ~SpendInvite(q, j, v)
          /\ \A t \in Tokens, w \in Worlds, n \in Names : ~ConsumeToken(q, t, w, n)
      BY <3>2 DEF SpendInvite, ConsumeToken, Begin, RequestTypes
    <3>5. \A j \in Identities, w \in Worlds, op \in {"launch", "archive", "invite"} :
             ~Authorized(q, op, j, w)
      <4> SUFFICES ASSUME NEW j \in Identities, NEW w \in Worlds,
                          NEW op \in {"launch", "archive", "invite"}, Authorized(q, op, j, w)
                   PROVE  FALSE
        OBVIOUS
      <4>1. request'[q] = [op |-> op, identity |-> j, world |-> w]
        BY DEF Authorized, Begin, RequestTypes
      <4> QED
        BY <3>2, <4>1
    <3>6. ~LookupWorld(q)
      <4> SUFFICES ASSUME LookupWorld(q) PROVE FALSE
        OBVIOUS
      <4>1. Has(q, "spent") /\ request'[q] = [request[q] EXCEPT !.op = "join"]
        BY <3>2 DEF LookupWorld, RequestTypes
      <4>2. request[q] \in [op : {"spent", "join"}, identity : Identities, invite : Invites]
        BY <4>1 DEF Has, RequestTypes, Pending
      <4> QED
        BY <3>2, <4>1, <4>2
    <3>7. PICK n \in Names : ProposeName(q, i, n)
      <4>1. PICK j \in Identities, n \in Names : ProposeName(q, j, n)
        BY <3>2, <3>3, <3>4, <3>5, <3>6, HowRequestsChange
      <4>2. j = i
        BY <3>2, <4>1 DEF ProposeName, Begin, RequestTypes
      <4> QED
        BY <4>1, <4>2
    <3>8. username'[i] = None /\ \A p \in Requests : p # q => ~Registers(p, i)'
      BY <3>7 DEF ProposeName, Begin, RequestTypes, Registers, Has
    <3> QED
      BY <1>9, <3>1, <3>8
  <2> QED
    BY <2>1, <2>2
<1> QED
  BY <1>8, <1>9 DEF ReadsExist

LEMMA TablesKept ==
    ASSUME Tables, [Next]_vars
    PROVE  Tables'
<1>1. Types'
  BY TypesKept DEF Tables
<1>2. RowsStay
  BY RowsDoStay DEF Tables
<1> QED
  BY <1>1, <1>2, RowsExistKept, ReadsExistKept, NamesStayDistinct DEF Tables

LEMMA TablesAlways == Spec => []Tables
<1>1. Init => Tables
  BY InitialTables
<1>2. Tables /\ [Next]_vars => Tables'
  BY TablesKept
<1> QED
  BY <1>1, <1>2, PTL DEF Spec

(* Whatever requests overlap or fail between two statements: every row has *)
(* the columns of its table, its foreign keys exist, no two players share  *)
(* a Minecraft username, and requests in progress hold what they read.     *)
THEOREM HubTypeCorrect == Spec => []TypeOK
<1>1. Tables => TypeOK
  BY TablesImplyTypes
<1> QED
  BY <1>1, TablesAlways, PTL

-----------------------------------------------------------------------------
\* Who begins to redeem an invite or to consume a token ...
LEMMA OnlySpendingRedeems ==
    ASSUME RequestTypes, [Next]_vars, NEW q \in Requests, NEW v \in Invites,
           Redeems(q, v)', ~Redeems(q, v)
    PROVE  \E i \in Identities : SpendInvite(q, i, v)
<1>1. request'[q] # None /\ request'[q].op \in {"spent", "join"} /\ request'[q].invite = v
  BY DEF Redeems, Has
<1>2. request'[q] # request[q]
  BY <1>1 DEF Redeems, Has
<1>3. ASSUME NEW i \in Identities, NEW n \in Names, ProposeName(q, i, n)
      PROVE  FALSE
  BY <1>1, <1>3 DEF ProposeName, Begin, RequestTypes
<1>4. ASSUME NEW i \in Identities, NEW w \in Worlds,
             NEW op \in {"launch", "archive", "invite"}, Authorized(q, op, i, w)
      PROVE  FALSE
  <2>1. request'[q] = [op |-> op, identity |-> i, world |-> w]
    BY <1>4 DEF Authorized, Begin, RequestTypes
  <2> QED
    BY <1>1, <2>1
<1>5. ASSUME NEW t \in Tokens, NEW w \in Worlds, NEW n \in Names, ConsumeToken(q, t, w, n)
      PROVE  FALSE
  BY <1>1, <1>5 DEF ConsumeToken, Begin, RequestTypes
<1>6. ASSUME LookupWorld(q)
      PROVE  FALSE
  <2>1. Has(q, "spent") /\ request'[q] = [request[q] EXCEPT !.op = "join"]
    BY <1>1, <1>6 DEF LookupWorld, RequestTypes
  <2>2. request[q] \in [op : {"spent", "join"}, identity : Identities, invite : Invites]
    BY <2>1 DEF Has, RequestTypes, Pending
  <2> QED
    BY <1>1, <2>1, <2>2 DEF Redeems
<1>7. PICK i \in Identities, u \in Invites : SpendInvite(q, i, u)
  BY <1>1, <1>2, <1>3, <1>4, <1>5, <1>6, HowRequestsChange
<1>8. u = v
  BY <1>1, <1>7 DEF SpendInvite, Begin, RequestTypes
<1> QED
  BY <1>7, <1>8

LEMMA OnlyConsumingConsumes ==
    ASSUME RequestTypes, [Next]_vars, NEW q \in Requests, NEW t \in Tokens,
           Consumes(q, t)', ~Consumes(q, t)
    PROVE  \E w \in Worlds, n \in Names : ConsumeToken(q, t, w, n)
<1>1. request'[q] # None /\ request'[q].op = "admit" /\ request'[q].token = t
  BY DEF Consumes, Has
<1>2. request'[q] # request[q]
  BY <1>1 DEF Consumes, Has
<1>3. ASSUME NEW i \in Identities, NEW n \in Names, ProposeName(q, i, n)
      PROVE  FALSE
  BY <1>1, <1>3 DEF ProposeName, Begin, RequestTypes
<1>4. ASSUME NEW i \in Identities, NEW w \in Worlds,
             NEW op \in {"launch", "archive", "invite"}, Authorized(q, op, i, w)
      PROVE  FALSE
  <2>1. request'[q] = [op |-> op, identity |-> i, world |-> w]
    BY <1>4 DEF Authorized, Begin, RequestTypes
  <2> QED
    BY <1>1, <2>1
<1>5. ASSUME NEW i \in Identities, NEW v \in Invites, SpendInvite(q, i, v)
      PROVE  FALSE
  BY <1>1, <1>5 DEF SpendInvite, Begin, RequestTypes
<1>6. ASSUME LookupWorld(q)
      PROVE  FALSE
  <2>1. Has(q, "spent") /\ request'[q] = [request[q] EXCEPT !.op = "join"]
    BY <1>1, <1>6 DEF LookupWorld, RequestTypes
  <2>2. request[q] \in [op : {"spent", "join"}, identity : Identities, invite : Invites]
    BY <2>1 DEF Has, RequestTypes, Pending
  <2> QED
    BY <1>1, <2>1, <2>2
<1>7. PICK u \in Tokens, w \in Worlds, n \in Names : ConsumeToken(q, u, w, n)
  BY <1>1, <1>2, <1>3, <1>4, <1>5, <1>6, HowRequestsChange
<1>8. u = t
  BY <1>1, <1>7 DEF ConsumeToken, Begin, RequestTypes
<1> QED
  BY <1>7, <1>8

\* ... and how a request ends.
LEMMA HowRequestsEnd ==
    ASSUME RequestTypes, [Next]_vars, NEW r \in Requests, request[r] # None, request'[r] = None
    PROVE  \/ InsertIdentity(r) \/ Archive(r) \/ LookupWorld(r) \/ Join(r) \/ Admit(r)
           \/ Fail(r) \/ (\E v \in Invites : InsertInvite(r, v))
           \/ \E t \in Tokens : InsertSession(r, t)
<1>1. ASSUME NEW q \in Requests, Finish(q)
      PROVE  q = r
  BY <1>1 DEF Finish, RequestTypes
<1>2. ASSUME NEW q \in Requests, NEW p, Begin(q, p)
      PROVE  FALSE
  <2>1. q # r
    BY <1>2 DEF Begin
  <2> QED
    BY <1>2, <2>1 DEF Begin, RequestTypes
<1>3. ASSUME NEW q \in Requests, LookupWorld(q)
      PROVE  q = r
  BY <1>3 DEF LookupWorld, RequestTypes
<1>4. ~UNCHANGED request
  OBVIOUS
<1>5. /\ \A q \in Requests, i \in Identities, n \in Names : ~ProposeName(q, i, n)
      /\ \A q \in Requests, i \in Identities, v \in Invites : ~SpendInvite(q, i, v)
      /\ \A q \in Requests, t \in Tokens, w \in Worlds, n \in Names : ~ConsumeToken(q, t, w, n)
      /\ \A q \in Requests, i \in Identities, w \in Worlds :
            \A op \in {"launch", "archive", "invite"} : ~Authorized(q, op, i, w)
      /\ \A i \in Identities, w \in Worlds : ~CreateWorld(i, w)
      /\ ~Tick /\ ~UNCHANGED vars
  BY <1>2, <1>4 DEF ProposeName, SpendInvite, ConsumeToken, Authorized, CreateWorld, Tick, vars
<1>6. /\ \A q \in Requests : InsertIdentity(q) => q = r
      /\ \A q \in Requests : Archive(q) => q = r
      /\ \A q \in Requests : Join(q) => q = r
      /\ \A q \in Requests : Admit(q) => q = r
      /\ \A q \in Requests : Fail(q) => q = r
      /\ \A q \in Requests, v \in Invites : InsertInvite(q, v) => q = r
      /\ \A q \in Requests, t \in Tokens : InsertSession(q, t) => q = r
  BY <1>1 DEF InsertIdentity, Archive, Join, Admit, Fail, InsertInvite, InsertSession
<1> QED
  BY <1>3, <1>5, <1>6 DEF Next

LEMMA HowRedeemingEnds ==
    ASSUME RequestTypes, [Next]_vars, NEW r \in Requests, NEW v \in Invites,
           Redeems(r, v), ~Redeems(r, v)'
    PROVE  Join(r) \/ Fail(r) \/ (LookupWorld(r) /\ request'[r] = None)
<1>1. /\ request[r] \in [op : {"spent", "join"}, identity : Identities, invite : Invites]
      /\ request[r] # None /\ request[r].op \in {"spent", "join"} /\ request[r].invite = v
  BY DEF Redeems, Has, RequestTypes, Pending
<1>2. request'[r] # request[r]
  BY DEF Redeems, Has
<1>3. ASSUME LookupWorld(r)
      PROVE  request'[r] = None
  <2> SUFFICES ASSUME request'[r] = [request[r] EXCEPT !.op = "join"] PROVE FALSE
    BY <1>3 DEF LookupWorld, RequestTypes
  <2>1. /\ request'[r] \in [op : {"spent", "join"}, identity : Identities, invite : Invites]
        /\ request'[r].op = "join" /\ request'[r].invite = v
    BY <1>1
  <2>2. request'[r] # None
    BY <2>1, NoneAssumption DEF Pending
  <2> QED
    BY <2>1, <2>2 DEF Redeems, Has
<1>4. request'[r] = None
  BY <1>1, <1>2, <1>3, HowRequestsChange
     DEF ProposeName, Authorized, SpendInvite, ConsumeToken, Begin
<1> QED
  BY <1>1, <1>3, <1>4, HowRequestsEnd
     DEF InsertIdentity, Archive, Admit, InsertInvite, InsertSession, Has

LEMMA HowConsumingEnds ==
    ASSUME RequestTypes, [Next]_vars, NEW r \in Requests, NEW t \in Tokens,
           Consumes(r, t), ~Consumes(r, t)'
    PROVE  Admit(r) \/ Fail(r)
<1>1. request[r] # None /\ request[r].op = "admit" /\ request[r].token = t
  BY DEF Consumes, Has
<1>2. request'[r] # request[r]
  BY DEF Consumes, Has
<1>3. ~LookupWorld(r)
  BY <1>1 DEF LookupWorld, Has
<1>4. request'[r] = None
  BY <1>1, <1>2, <1>3, HowRequestsChange
     DEF ProposeName, Authorized, SpendInvite, ConsumeToken, Begin
<1> QED
  BY <1>1, <1>3, <1>4, HowRequestsEnd
     DEF InsertIdentity, Archive, Join, InsertInvite, InsertSession, Has

-----------------------------------------------------------------------------
\* Who changes an invite, who joins with it.
LEMMA HowInvitesChange ==
    ASSUME TableTypes, HistoryTypes, [Next]_vars, NEW v \in Invites
    PROVE  /\ \/ invites'[v] = invites[v]
              \/ \E r \in Requests : InsertInvite(r, v)
              \/ \E r \in Requests, i \in Identities : SpendInvite(r, i, v)
           /\ joined'[v] = joined[v] \/ \E r \in Requests : Join(r) /\ request[r].invite = v
<1>1. \/ invites' = invites
      \/ \E r \in Requests, u \in Invites : InsertInvite(r, u)
      \/ \E r \in Requests, i \in Identities, u \in Invites : SpendInvite(r, i, u)
  BY DEF Next, vars, ProposeName, CreateWorld, Authorized, InsertSession, ConsumeToken,
     InsertIdentity, Archive, LookupWorld, Join, Admit, Fail, Tick
<1>2. ASSUME NEW r \in Requests, NEW u \in Invites, InsertInvite(r, u), u # v
      PROVE  invites'[v] = invites[v]
  BY <1>2 DEF InsertInvite, TableTypes
<1>3. ASSUME NEW r \in Requests, NEW i \in Identities, NEW u \in Invites,
             SpendInvite(r, i, u), u # v
      PROVE  invites'[v] = invites[v]
  BY <1>3 DEF SpendInvite, TableTypes
<1>4. joined' = joined \/ \E r \in Requests : Join(r)
  BY DEF Next, vars, ProposeName, CreateWorld, Authorized, InsertInvite, InsertSession,
     SpendInvite, ConsumeToken, InsertIdentity, Archive, LookupWorld, Admit, Fail, Tick
<1>5. ASSUME NEW r \in Requests, Join(r), request[r].invite # v
      PROVE  joined'[v] = joined[v]
  BY <1>5 DEF Join, HistoryTypes
<1> QED
  BY <1>1, <1>2, <1>3, <1>4, <1>5

LEMMA InviteUseKept ==
    ASSUME Tables, InviteUse, [Next]_vars
    PROVE  InviteUse'
<1> USE DEF Tables, Types
<1> SUFFICES ASSUME NEW v \in Invites
             PROVE  UseOf(v)'
  BY DEF InviteUse
<1>u. UseOf(v)
  BY DEF InviteUse
<1>1. CASE invites'[v] = invites[v] /\ joined'[v] = joined[v]
  <2>1. ASSUME NEW q \in Requests, Redeems(q, v)'
        PROVE  Redeems(q, v)
    <3> SUFFICES ASSUME NEW i \in Identities, SpendInvite(q, i, v)
                 PROVE  FALSE
      BY <2>1, OnlySpendingRedeems
    <3>1. invites[v] \in InviteRow /\ invites' = [invites EXCEPT ![v].uses = @ + 1]
      BY DEF SpendInvite, Redeemable, TableTypes
    <3>2. invites'[v].uses = invites[v].uses + 1
      BY <3>1 DEF TableTypes, InviteRow
    <3> QED
      BY <1>1, <3>1, <3>2 DEF InviteRow
  <2> QED
    BY <1>u, <1>1, <2>1 DEF UseOf
<1>2. ASSUME NEW r \in Requests, Join(r), request[r].invite = v
      PROVE  UseOf(v)'
  <2>1. Redeems(r, v) /\ request[r].identity \in Identities
    BY <1>2, PendingFields DEF Redeems, Join, Has, RequestTypes
  <2>2. /\ joined[v] = {} /\ invites[v] # None /\ invites[v].uses = 1
        /\ \A q \in Requests : Redeems(q, v) => q = r
    BY <1>u, <2>1 DEF UseOf
  <2>3. joined'[v] = {request[r].identity} /\ invites' = invites
    BY <1>2, <2>2 DEF Join, HistoryTypes
  <2>4. request'[r] = None
    BY <1>2 DEF Join, Finish, RequestTypes
  <2>5. ASSUME NEW q \in Requests, Redeems(q, v)'
        PROVE  FALSE
    <3>1. q # r
      BY <2>4, <2>5 DEF Redeems, Has
    <3>2. request'[q] = request[q]
      BY <1>2, <3>1 DEF Join, Finish, RequestTypes
    <3> QED
      BY <2>2, <2>5, <3>1, <3>2 DEF Redeems, Has
  <2> QED
    BY <2>1, <2>2, <2>3, <2>5 DEF UseOf
<1>3. ASSUME NEW r \in Requests, InsertInvite(r, v)
      PROVE  UseOf(v)'
  <2>1. invites[v] = None /\ invites'[v].uses = 0 /\ joined' = joined
    BY <1>3 DEF InsertInvite, TableTypes
  <2>2. joined[v] = {} /\ \A q \in Requests : ~Redeems(q, v)
    BY <1>u, <2>1 DEF UseOf
  <2>3. ASSUME NEW q \in Requests, Redeems(q, v)'
        PROVE  FALSE
    BY <1>3, <2>2, <2>3 DEF InsertInvite, Finish, RequestTypes, Redeems, Has
  <2> QED
    BY <2>1, <2>2, <2>3 DEF UseOf
<1>4. ASSUME NEW r \in Requests, NEW i \in Identities, SpendInvite(r, i, v)
      PROVE  UseOf(v)'
  <2>1. invites[v] \in InviteRow /\ invites[v] # None /\ invites[v].uses < 1
    BY <1>4 DEF SpendInvite, Redeemable, MaxUses, TableTypes
  <2>2. invites[v].uses = 0 /\ joined[v] = {} /\ \A q \in Requests : ~Redeems(q, v)
    BY <1>u, <2>1 DEF UseOf, InviteRow
  <2>3. invites'[v] = [invites[v] EXCEPT !.uses = 1] /\ joined' = joined
    BY <1>4, <2>2 DEF SpendInvite, TableTypes
  <2>4. invites'[v] \in InviteRow /\ invites'[v].uses = 1
    BY <2>1, <2>3 DEF InviteRow
  <2>5. ASSUME NEW q \in Requests, Redeems(q, v)', q # r
        PROVE  FALSE
    BY <1>4, <2>2, <2>5 DEF SpendInvite, Begin, RequestTypes, Redeems, Has
  <2> QED
    BY <2>2, <2>3, <2>4, <2>5, NoneAssumption DEF UseOf
<1> QED
  BY <1>1, <1>2, <1>3, <1>4, HowInvitesChange

-----------------------------------------------------------------------------
\* Nothing that happened is forgotten.
LEMMA HistoryGrows ==
    ASSUME Types, [Next]_vars
    PROVE  /\ \A v \in Invites : joined[v] \subseteq joined'[v]
           /\ broken \subseteq broken'
<1> USE DEF Types
<1>1. joined' = joined \/ \E r \in Requests : Join(r)
  BY DEF Next, vars, ProposeName, CreateWorld, Authorized, InsertInvite, InsertSession,
     SpendInvite, ConsumeToken, InsertIdentity, Archive, LookupWorld, Admit, Fail, Tick
<1>2. ASSUME NEW r \in Requests, Join(r), NEW v \in Invites
      PROVE  joined[v] \subseteq joined'[v]
  BY <1>2 DEF Join, HistoryTypes
<1>3. broken' = broken \/ \E r \in Requests : Fail(r)
  BY DEF Next, vars, ProposeName, CreateWorld, Authorized, InsertInvite, InsertSession,
     SpendInvite, ConsumeToken, InsertIdentity, Archive, LookupWorld, Join, Admit, Tick
<1>4. ASSUME NEW r \in Requests, Fail(r)
      PROVE  broken \subseteq broken'
  BY <1>4 DEF Fail
<1> QED
  BY <1>1, <1>2, <1>3, <1>4

(* What the members are owed to: an owner, or the use of an invite.        *)
LEMMA MembersInvitedKept ==
    ASSUME Tables, InviteUse, MembersInvited, Tables', [Next]_vars
    PROVE  MembersInvited'
<1> USE DEF Tables, Types
<1>s. RowsStay
  BY RowsDoStay
<1>1. ASSUME NEW m \in memberships'
      PROVE  \/ worlds'[m[1]].owner = m[2]
             \/ \E v \in Invites : m[2] \in joined'[v] /\ invites'[v].world = m[1]
  <2>1. m \in Worlds \X Identities
    BY DEF TableTypes
  <2>2. CASE m \in memberships
    <3>1. worlds[m[1]] # None
      BY <2>2 DEF RowsExist
    <3>2. CASE worlds[m[1]].owner = m[2]
      BY <1>s, <2>1, <3>1, <3>2 DEF RowsStay
    <3>3. CASE \E v \in Invites : m[2] \in joined[v] /\ invites[v].world = m[1]
      <4>1. PICK v \in Invites : m[2] \in joined[v] /\ invites[v].world = m[1]
        BY <3>3
      <4>2. invites[v] # None
        BY <4>1 DEF InviteUse, UseOf
      <4> QED
        BY <1>s, <4>1, <4>2, HistoryGrows DEF RowsStay
    <3> QED
      BY <2>2, <3>2, <3>3 DEF MembersInvited
  <2>3. ASSUME NEW i \in Identities, NEW w \in Worlds, CreateWorld(i, w), m = <<w, i>>
        PROVE  worlds'[m[1]].owner = m[2]
    BY <2>3 DEF CreateWorld, TableTypes
  <2>4. ASSUME NEW r \in Requests, Join(r), m \notin memberships
        PROVE  \E v \in Invites : m[2] \in joined'[v] /\ invites'[v].world = m[1]
    <3>1. request[r].invite \in Invites /\ request[r].identity \in Identities
      BY <2>4, PendingFields DEF Join, Has, RequestTypes
    <3>2. /\ m = <<invites[request[r].invite].world, request[r].identity>>
          /\ request[r].identity \in joined'[request[r].invite] /\ invites' = invites
      BY <2>4, <3>1 DEF Join, HistoryTypes
    <3> QED
      BY <3>1, <3>2
  <2>5. \/ memberships' = memberships \/ \E r \in Requests : Join(r)
        \/ \E i \in Identities, w \in Worlds : CreateWorld(i, w)
    BY DEF Next, vars, ProposeName, Authorized, InsertInvite, InsertSession, SpendInvite,
       ConsumeToken, InsertIdentity, Archive, LookupWorld, Admit, Fail, Tick
  <2> QED
    BY <2>2, <2>3, <2>4, <2>5 DEF CreateWorld
<1>2. \A v \in Invites : invites'[v] # None => invites'[v].world \in Shared
  BY DEF RowsExist
<1> QED
  BY <1>1, <1>2 DEF MembersInvited

\* What a counted use led to; a world that closed stays closed.
LEMMA SpentInviteStaysExplained ==
    ASSUME Tables, InviteUse, SpentInviteExplained, [Next]_vars
    PROVE  SpentInviteExplained'
<1> USE DEF Tables, Types
<1>s. RowsStay
  BY RowsDoStay
<1> SUFFICES ASSUME NEW v \in Invites, invites'[v] # None, invites'[v].uses > 0
             PROVE  \/ joined'[v] # {} \/ v \in broken' \/ ~Open(invites[v].world)'
                    \/ \E r \in Requests : Redeems(r, v)'
  BY DEF SpentInviteExplained, Redeems
<1>1. ASSUME NEW r \in Requests, NEW i \in Identities, SpendInvite(r, i, v)
      PROVE  Redeems(r, v)'
  <2>1. [op |-> "spent", identity |-> i, invite |-> v] \in Pending
    BY DEF Pending
  <2> QED
    BY <1>1, <2>1, NoneAssumption DEF SpendInvite, Begin, RequestTypes, Redeems, Has
<1>2. ASSUME NEW r \in Requests, InsertInvite(r, v)
      PROVE  FALSE
  BY <1>2 DEF InsertInvite, TableTypes
<1>3. CASE invites'[v] = invites[v]
  <2>1. CASE joined[v] # {} \/ v \in broken
    BY <2>1, HistoryGrows
  <2>2. CASE ~Open(invites[v].world)
    <3>1. invites[v].world \in Worlds /\ worlds[invites[v].world] # None
      BY <1>3 DEF RowsExist, TableTypes, InviteRow
    <3>2. worlds[invites[v].world].archived
      BY <2>2, <3>1 DEF Open
    <3> QED
      BY <1>s, <1>3, <3>1, <3>2 DEF RowsStay, Open
  <2>3. ASSUME NEW r \in Requests, Redeems(r, v)
        PROVE  \/ joined'[v] # {} \/ v \in broken' \/ ~Open(invites[v].world)'
               \/ Redeems(r, v)'
    <3>0. request[r].invite = v /\ request[r].op \in {"spent", "join"} /\ request[r] # None
      BY <2>3 DEF Redeems, Has
    <3>1. CASE Join(r)
      BY <3>0, <3>1 DEF Join, HistoryTypes
    <3>2. CASE Fail(r)
      <4>1. broken' = broken \cup {v}
        BY <3>0, <3>2 DEF Fail
      <4> QED
        BY <4>1
    <3>3. CASE LookupWorld(r) /\ request'[r] = None
      <4>1. [request[r] EXCEPT !.op = "join"] # None
        <5>1. request[r] \in [op : {"spent", "join"}, identity : Identities, invite : Invites]
          BY <3>0 DEF RequestTypes, Pending
        <5>2. [request[r] EXCEPT !.op = "join"]
                 \in [op : {"spent", "join"}, identity : Identities, invite : Invites]
          BY <5>1
        <5> QED
          BY <5>2, NoneAssumption DEF Pending
      <4>2. ~(Open(invites[v].world) /\ invites[v].world \in Shared)
        BY <3>0, <3>3, <4>1 DEF LookupWorld, RequestTypes
      <4>3. invites[v].world \in Shared
        BY <1>3 DEF RowsExist
      <4> QED
        BY <1>3, <3>3, <4>2, <4>3 DEF LookupWorld, Open
    <3> QED
      BY <2>3, <3>1, <3>2, <3>3, HowRedeemingEnds
  <2> QED
    BY <1>3, <2>1, <2>2, <2>3 DEF SpentInviteExplained, Redeems
<1> QED
  BY <1>1, <1>2, <1>3, HowInvitesChange

(* Whatever requests overlap or fail between two statements, an invite     *)
(* lets in one player at most, into its own world, members are owners or   *)
(* were invited, and a use that was counted is explained.                  *)
THEOREM HubInvitesAccounted == Spec => []InvitesAccounted
<1> DEFINE Inv == InviteUse /\ MembersInvited /\ SpentInviteExplained
<1>1. Init => Inv
  <2> SUFFICES ASSUME Init PROVE Inv
    OBVIOUS
  <2>1. InviteUse
    BY DEF Init, InviteUse, UseOf, Redeems, Has
  <2>2. MembersInvited /\ SpentInviteExplained
    BY DEF Init, MembersInvited, SpentInviteExplained
  <2> QED
    BY <2>1, <2>2
<1>2. Inv /\ Tables /\ Tables' /\ [Next]_vars => Inv'
  BY InviteUseKept, MembersInvitedKept, SpentInviteStaysExplained
<1>3. Inv => InvitesAccounted
  <2> SUFFICES ASSUME InviteUse
               PROVE  InviteBudget
    BY DEF InvitesAccounted
  <2> SUFFICES ASSUME NEW v \in Invites
               PROVE  Cardinality(joined[v]) <= 1
    BY DEF InviteBudget, MaxUses
  <2>1. joined[v] = {} \/ \E i \in Identities : joined[v] = {i}
    BY DEF InviteUse, UseOf
  <2>2. Cardinality(joined[v]) \in {0, 1}
    BY <2>1, FS_EmptySet, FS_Singleton
  <2> QED
    BY <2>2
<1> QED
  BY <1>1, <1>2, <1>3, TablesAlways, PTL DEF Spec

-----------------------------------------------------------------------------
\* Who changes a session, who is admitted with it.
LEMMA HowSessionsChange ==
    ASSUME TableTypes, HistoryTypes, [Next]_vars, NEW t \in Tokens
    PROVE  /\ \/ sessions'[t] = sessions[t]
              \/ \E r \in Requests : InsertSession(r, t)
              \/ \E r \in Requests, w \in Worlds, n \in Names : ConsumeToken(r, t, w, n)
           /\ admitted'[t] = admitted[t] \/ \E r \in Requests : Admit(r) /\ request[r].token = t
<1>1. \/ sessions' = sessions
      \/ \E r \in Requests, u \in Tokens : InsertSession(r, u)
      \/ \E r \in Requests, u \in Tokens, w \in Worlds, n \in Names : ConsumeToken(r, u, w, n)
  BY DEF Next, vars, ProposeName, CreateWorld, Authorized, InsertInvite, SpendInvite,
     InsertIdentity, Archive, LookupWorld, Join, Admit, Fail, Tick
<1>2. ASSUME NEW r \in Requests, NEW u \in Tokens, InsertSession(r, u), u # t
      PROVE  sessions'[t] = sessions[t]
  BY <1>2 DEF InsertSession, TableTypes
<1>3. ASSUME NEW r \in Requests, NEW u \in Tokens, NEW w \in Worlds, NEW n \in Names,
             ConsumeToken(r, u, w, n), u # t
      PROVE  sessions'[t] = sessions[t]
  BY <1>3 DEF ConsumeToken, TableTypes
<1>4. admitted' = admitted \/ \E r \in Requests : Admit(r)
  BY DEF Next, vars, ProposeName, CreateWorld, Authorized, InsertInvite, InsertSession,
     SpendInvite, ConsumeToken, InsertIdentity, Archive, LookupWorld, Join, Fail, Tick
<1>5. ASSUME NEW r \in Requests, Admit(r), request[r].token # t
      PROVE  admitted'[t] = admitted[t]
  BY <1>5 DEF Admit, HistoryTypes
<1> QED
  BY <1>1, <1>2, <1>3, <1>4, <1>5

\* What Admit writes: nothing, or the name of the request.
LEMMA AdmitWrites ==
    ASSUME Tables, TokenUse, NEW r \in Requests, Admit(r)
    PROVE  LET t == request[r].token IN
           /\ t \in Tokens /\ Consumes(r, t) /\ admitted[t] = <<>>
           /\ IF Open(sessions[t].world)
                 /\ <<sessions[t].world, sessions[t].identity>> \in memberships
              THEN admitted'[t] = <<request[r].name>>
              ELSE admitted'[t] = <<>>
<1> USE DEF Tables, Types
<1> DEFINE t == request[r].token
<1>1. t \in Tokens /\ Consumes(r, t)
  BY PendingFields DEF Admit, Consumes, Has, RequestTypes
<1>2. admitted[t] = <<>>
  BY <1>1 DEF TokenUse, TokenUseOf
<1>3. \A x : Append(<<>>, x) = <<x>>
  OBVIOUS
<1>4. admitted' = IF IsMember(sessions[t].identity, sessions[t].world)
                  THEN [admitted EXCEPT ![t] = Append(admitted[t], request[r].name)]
                  ELSE admitted
  BY DEF Admit
<1>5. CASE IsMember(sessions[t].identity, sessions[t].world)
  <2>1. admitted'[t] = Append(admitted[t], request[r].name)
    BY <1>1, <1>4, <1>5 DEF HistoryTypes
  <2> QED
    BY <1>1, <1>2, <1>3, <1>5, <2>1 DEF IsMember
<1>6. CASE ~IsMember(sessions[t].identity, sessions[t].world)
  <2>1. admitted' = admitted
    BY <1>4, <1>6
  <2> QED
    BY <1>1, <1>2, <1>6, <2>1 DEF IsMember
<1> QED
  BY <1>5, <1>6

LEMMA TokenUseKept ==
    ASSUME Tables, TokenUse, [Next]_vars
    PROVE  TokenUse'
<1> USE DEF Tables, Types
<1>s. RowsStay
  BY RowsDoStay
<1> SUFFICES ASSUME NEW t \in Tokens
             PROVE  TokenUseOf(t)'
  BY DEF TokenUse
<1>u. TokenUseOf(t)
  BY DEF TokenUse
<1>1. CASE sessions'[t] = sessions[t] /\ admitted'[t] = admitted[t]
  <2>1. ASSUME NEW q \in Requests, Consumes(q, t)'
        PROVE  Consumes(q, t)
    <3> SUFFICES ASSUME NEW w \in Worlds, NEW n \in Names, ConsumeToken(q, t, w, n)
                 PROVE  FALSE
      BY <2>1, OnlyConsumingConsumes
    <3>1. /\ sessions[t] \in SessionRow /\ sessions[t].consumed = None
          /\ sessions' = [sessions EXCEPT ![t].consumed = now]
      BY DEF ConsumeToken, Accepts, TableTypes
    <3>2. sessions'[t].consumed = now
      BY <3>1 DEF TableTypes, SessionRow
    <3>3. now # None
      BY NoneAssumption DEF RequestTypes, Time
    <3> QED
      BY <1>1, <3>1, <3>2, <3>3
  <2>2. admitted[t] # <<>> => username'[sessions[t].identity] = username[sessions[t].identity]
    <3> SUFFICES ASSUME admitted[t] # <<>>
                 PROVE  username'[sessions[t].identity] = username[sessions[t].identity]
      OBVIOUS
    <3>1. sessions[t] \in SessionRow
      BY <1>u DEF TokenUseOf, TableTypes
    <3>2. username[sessions[t].identity] = sessions[t].name /\ sessions[t].name # None
      BY <1>u, <3>1, NoneAssumption DEF TokenUseOf, RowsExist, SessionRow
    <3> QED
      BY <1>s, <3>1, <3>2 DEF RowsStay, SessionRow
  <2> QED
    BY <1>u, <1>1, <2>1, <2>2 DEF TokenUseOf
<1>2. ASSUME NEW r \in Requests, Admit(r), request[r].token = t
      PROVE  TokenUseOf(t)'
  <2>1. /\ Consumes(r, t) /\ admitted[t] = <<>>
        /\ admitted'[t] = <<>> \/ admitted'[t] = <<request[r].name>>
    BY <1>2, AdmitWrites
  <2>2. /\ sessions[t] # None /\ sessions[t].consumed # None
        /\ \A q \in Requests : Consumes(q, t) => q = r
    BY <1>u, <2>1 DEF TokenUseOf
  <2>3. request[r].name = username[sessions[t].identity]
    BY <1>2, <2>2 DEF Admit, ReadsExist, RowReads, RowsExist
  <2>4. sessions' = sessions /\ username' = username /\ request'[r] = None
    BY <1>2 DEF Admit, Finish, RequestTypes
  <2>5. ASSUME NEW q \in Requests, Consumes(q, t)'
        PROVE  FALSE
    <3>1. q # r
      BY <2>4, <2>5 DEF Consumes, Has
    <3>2. request'[q] = request[q]
      BY <1>2, <3>1 DEF Admit, Finish, RequestTypes
    <3> QED
      BY <2>2, <2>5, <3>1, <3>2 DEF Consumes, Has
  <2> QED
    BY <2>1, <2>2, <2>3, <2>4, <2>5 DEF TokenUseOf
<1>3. ASSUME NEW r \in Requests, InsertSession(r, t)
      PROVE  TokenUseOf(t)'
  <2>1. sessions[t] = None /\ admitted' = admitted
    BY <1>3 DEF InsertSession
  <2>2. admitted[t] = <<>> /\ \A q \in Requests : ~Consumes(q, t)
    BY <1>u, <2>1 DEF TokenUseOf
  <2>3. ASSUME NEW q \in Requests, Consumes(q, t)'
        PROVE  FALSE
    BY <1>3, <2>2, <2>3 DEF InsertSession, Finish, RequestTypes, Consumes, Has
  <2> QED
    BY <2>1, <2>2, <2>3 DEF TokenUseOf
<1>4. ASSUME NEW r \in Requests, NEW w \in Worlds, NEW n \in Names, ConsumeToken(r, t, w, n)
      PROVE  TokenUseOf(t)'
  <2>1. sessions[t] \in SessionRow /\ sessions[t] # None /\ sessions[t].consumed = None
    BY <1>4 DEF ConsumeToken, Accepts, TableTypes
  <2>2. admitted[t] = <<>> /\ \A q \in Requests : ~Consumes(q, t)
    BY <1>u, <2>1 DEF TokenUseOf
  <2>3. sessions'[t] = [sessions[t] EXCEPT !.consumed = now] /\ admitted' = admitted
    BY <1>4 DEF ConsumeToken, TableTypes
  <2>4. sessions'[t] \in SessionRow /\ sessions'[t].consumed = now
    BY <2>1, <2>3 DEF SessionRow, RequestTypes
  <2>5. sessions'[t] # None /\ now # None
    BY <2>4, NoneAssumption DEF RequestTypes, Time
  <2>6. ASSUME NEW q \in Requests, Consumes(q, t)', q # r
        PROVE  FALSE
    BY <1>4, <2>2, <2>6 DEF ConsumeToken, Begin, RequestTypes, Consumes, Has
  <2> QED
    BY <2>2, <2>3, <2>4, <2>5, <2>6 DEF TokenUseOf
<1> QED
  BY <1>1, <1>2, <1>3, <1>4, HowSessionsChange

\* A member stays one, so whoever holds a launch or a session is one.
LEMMA MembersOnlyKept ==
    ASSUME Tables, MembersOnly, [Next]_vars
    PROVE  MembersOnly'
<1> USE DEF Tables, Types
<1>s. RowsStay
  BY RowsDoStay
<1>m. memberships \subseteq memberships'
  BY DEF Next, vars, ProposeName, CreateWorld, Authorized, InsertInvite, InsertSession,
     SpendInvite, ConsumeToken, InsertIdentity, Archive, LookupWorld, Join, Admit, Fail, Tick
<1>1. ASSUME NEW q \in Requests, Has(q, "launch")'
      PROVE  <<request'[q].world, request'[q].identity>> \in memberships'
  <2>1. CASE request'[q] = request[q]
    BY <1>1, <1>m, <2>1 DEF MembersOnly, Has
  <2>2. ASSUME NEW i \in Identities, NEW n \in Names, ProposeName(q, i, n)
        PROVE  FALSE
    BY <1>1, <2>2 DEF ProposeName, Begin, RequestTypes, Has
  <2>3. ASSUME NEW i \in Identities, NEW w \in Worlds,
               NEW op \in {"launch", "archive", "invite"}, Authorized(q, op, i, w)
        PROVE  <<request'[q].world, request'[q].identity>> \in memberships'
    <3>1. request'[q] = [op |-> op, identity |-> i, world |-> w]
      BY <2>3 DEF Authorized, Begin, RequestTypes
    <3>2. <<w, i>> \in memberships
      BY <2>3 DEF Authorized, IsMember, IsOwner
    <3> QED
      BY <1>m, <3>1, <3>2
  <2>4. ASSUME NEW i \in Identities, NEW v \in Invites, SpendInvite(q, i, v)
        PROVE  FALSE
    BY <1>1, <2>4 DEF SpendInvite, Begin, RequestTypes, Has
  <2>5. ASSUME NEW t \in Tokens, NEW w \in Worlds, NEW n \in Names, ConsumeToken(q, t, w, n)
        PROVE  FALSE
    BY <1>1, <2>5 DEF ConsumeToken, Begin, RequestTypes, Has
  <2>6. ASSUME LookupWorld(q)
        PROVE  FALSE
    <3>1. Has(q, "spent") /\ request'[q] = [request[q] EXCEPT !.op = "join"]
      BY <1>1, <2>6 DEF LookupWorld, RequestTypes, Has
    <3>2. request[q] \in [op : {"spent", "join"}, identity : Identities, invite : Invites]
      BY <3>1 DEF Has, RequestTypes, Pending
    <3> QED
      BY <1>1, <3>1, <3>2 DEF Has
  <2>7. request'[q] # None
    BY <1>1 DEF Has
  <2> QED
    BY <2>1, <2>2, <2>3, <2>4, <2>5, <2>6, <2>7, HowRequestsChange
<1>2. ASSUME NEW t \in Tokens, sessions'[t] # None
      PROVE  <<sessions'[t].world, sessions'[t].identity>> \in memberships'
  <2>1. CASE sessions[t] # None
    BY <1>m, <1>s, <2>1 DEF MembersOnly, RowsStay
  <2>2. CASE sessions[t] = None
    <3>1. PICK r \in Requests : InsertSession(r, t)
      BY <1>2, <2>2, HowSessionsChange DEF ConsumeToken, Accepts
    <3>2. <<request[r].world, request[r].identity>> \in memberships
      BY <3>1 DEF InsertSession, MembersOnly
    <3>3. /\ sessions'[t].world = request[r].world
          /\ sessions'[t].identity = request[r].identity
      BY <3>1 DEF InsertSession, TableTypes
    <3> QED
      BY <1>m, <3>2, <3>3
  <2> QED
    BY <2>1, <2>2
<1> QED
  BY <1>1, <1>2 DEF MembersOnly

\* What a consumed token led to.
LEMMA SpentTokenStaysExplained ==
    ASSUME Tables, TokenUse, MembersOnly, SpentTokenExplained, [Next]_vars
    PROVE  SpentTokenExplained'
<1> USE DEF Tables, Types
<1>s. RowsStay
  BY RowsDoStay
<1> SUFFICES ASSUME NEW t \in Tokens, sessions'[t] # None, sessions'[t].consumed # None
             PROVE  \/ admitted'[t] # <<>> \/ t \in broken' \/ ~Open(sessions[t].world)'
                    \/ \E r \in Requests : Consumes(r, t)'
  BY DEF SpentTokenExplained, Consumes
<1>1. ASSUME NEW r \in Requests, NEW w \in Worlds, NEW n \in Names, ConsumeToken(r, t, w, n)
      PROVE  Consumes(r, t)'
  <2>1. [op |-> "admit", token |-> t, name |-> n] \in Pending
    BY DEF Pending
  <2> QED
    BY <1>1, <2>1, NoneAssumption DEF ConsumeToken, Begin, RequestTypes, Consumes, Has
<1>2. ASSUME NEW r \in Requests, InsertSession(r, t)
      PROVE  FALSE
  BY <1>2 DEF InsertSession, TableTypes
<1>3. CASE sessions'[t] = sessions[t]
  <2>0. /\ sessions[t].world \in Worlds /\ worlds[sessions[t].world] # None
        /\ sessions[t].identity \in Identities
    BY <1>3 DEF RowsExist, TableTypes, SessionRow
  <2>1. CASE admitted[t] # <<>>
    <3>1. \A r \in Requests : ~(Admit(r) /\ request[r].token = t)
      BY <2>1, AdmitWrites
    <3> QED
      BY <2>1, <3>1, HowSessionsChange
  <2>2. CASE t \in broken
    BY <2>2, HistoryGrows
  <2>3. CASE ~Open(sessions[t].world)
    <3>1. worlds[sessions[t].world].archived
      BY <2>0, <2>3 DEF Open
    <3> QED
      BY <1>s, <1>3, <2>0, <3>1 DEF RowsStay, Open
  <2>4. ASSUME NEW r \in Requests, Consumes(r, t)
        PROVE  \/ admitted'[t] # <<>> \/ t \in broken' \/ ~Open(sessions[t].world)'
               \/ Consumes(r, t)'
    <3>0. request[r].token = t /\ request[r].op = "admit" /\ request[r] # None
      BY <2>4 DEF Consumes, Has
    <3>1. CASE Fail(r)
      <4>1. broken' = broken \cup {t}
        BY <3>0, <3>1 DEF Fail
      <4> QED
        BY <4>1
    <3>2. CASE Admit(r)
      <4>1. CASE admitted'[t] = <<request[r].name>>
        BY <4>1
      <4>2. CASE ~(Open(sessions[t].world)
                   /\ <<sessions[t].world, sessions[t].identity>> \in memberships)
        <5>1. <<sessions[t].world, sessions[t].identity>> \in memberships
          BY <1>3, <2>0 DEF MembersOnly
        <5> QED
          BY <1>3, <3>2, <4>2, <5>1 DEF Admit, Open
      <4> QED
        BY <3>0, <3>2, <4>1, <4>2, AdmitWrites
    <3> QED
      BY <2>4, <3>1, <3>2, HowConsumingEnds
  <2> QED
    BY <1>3, <2>1, <2>2, <2>3, <2>4 DEF SpentTokenExplained, Consumes
<1> QED
  BY <1>1, <1>2, <1>3, HowSessionsChange

(* Whatever requests overlap or fail between two statements, a launch      *)
(* token admits the player it was made for, nobody else and once, and a    *)
(* token that was used up is explained.                                    *)
THEOREM HubTokensAccounted == Spec => []TokensAccounted
<1> DEFINE Inv == TokenUse /\ MembersOnly /\ SpentTokenExplained
<1>1. Init => Inv
  BY DEF Init, TokenUse, TokenUseOf, MembersOnly, SpentTokenExplained, Consumes, Has
<1>2. Inv /\ Tables /\ [Next]_vars => Inv'
  BY TokenUseKept, MembersOnlyKept, SpentTokenStaysExplained
<1>3. Inv => TokensAccounted
  BY DEF TokensAccounted, AdmittedOnce, TokenUse, TokenUseOf
<1> QED
  BY <1>1, <1>2, <1>3, TablesAlways, PTL DEF Spec

(* Nobody is admitted to an archived world, however long its launch waited *)
(* for the orchestrator and however late the token is consumed: consume    *)
(* reads the world again before it answers.                                *)
THEOREM HubArchiveIsFinal == Spec => ArchiveIsFinal
<1>1. ASSUME Tables, TokenUse, [Next]_vars,
             NEW t \in Tokens, sessions[t] # None, worlds[sessions[t].world].archived
      PROVE  admitted'[t] = admitted[t]
  <2> SUFFICES ASSUME NEW r \in Requests, Admit(r), request[r].token = t
               PROVE  admitted'[t] = admitted[t]
    BY <1>1, HowSessionsChange DEF Tables, Types
  <2> QED
    BY <1>1, AdmitWrites DEF Open
<1>2. Init => TokenUse
  BY DEF Init, TokenUse, TokenUseOf, Consumes, Has
<1>3. TokenUse /\ Tables /\ [Next]_vars => TokenUse'
  BY TokenUseKept
<1>4. TokenUse /\ Tables /\ [Next]_vars =>
        [\A t \in Tokens : sessions[t] # None /\ worlds[sessions[t].world].archived =>
             admitted'[t] = admitted[t]]_vars
  BY <1>1
<1> QED
  BY <1>2, <1>3, <1>4, TablesAlways, PTL DEF Spec, ArchiveIsFinal
====
