---------------------------- MODULE Generations ----------------------------
(***************************************************************************)
(* The bridge script in a browser tab: it gives every physical client a    *)
(* generation, authorizes each with the launch token of the URL or with    *)
(* the lease kept in sessionStorage, and publishes what it knows of the    *)
(* active one (__HEM_PARITY__).  A reload starts the script afresh.        *)
(*                                                                         *)
(* Clients are numbered as they appear and launches as they are made; a    *)
(* token and the leases that follow from it are known by their launch.  A  *)
(* lease packet reaches several listeners, of which all but the first see  *)
(* lastResumeToken and do nothing.  The timer that asks for a lease is in  *)
(* Gate; the list of the last eight generations and the counters of the    *)
(* transport are left out.                                                 *)
(***************************************************************************)
EXTENDS Naturals, Sequences

CONSTANTS
    MaxClients,   \* bound: clients of the tab
    MaxLaunches,  \* bound: launches of the tab
    MaxPages      \* bound: pages of the tab

ASSUME BoundsAssumption ==
    MaxClients \in Nat /\ MaxLaunches \in Nat /\ MaxPages \in Nat

Client == 1 .. MaxClients
Launch == 1 .. MaxLaunches

VARIABLES
    launches, pages, \* how many there were
    hash,         \* the launch whose token is in the URL, 0 for none
    token,        \* the same when the page was loaded
    consumed,     \* launchTokenConsumed
    ticking,      \* the 100 ms timer
    storage,      \* sessionStorage: the lease's launch (0 for none), generation id
    born, base,   \* clients so far, and before this page
    entity,       \* the newest client's bot has an entity
    tunnel,       \* whether each client's tunnel has a close reason
    down,         \* the clients whose `end' was heard
    nextId, active, \* connection: the active generation by its client
    generation,   \* generationByClient
    parity,       \* __HEM_PARITY__
    command,      \* history: the commands sent on each client
    ids           \* history: each client's generation id

url == <<launches, pages, hash>>
script == <<token, consumed, ticking>>
world == <<born, base, entity, tunnel, down>>
connection == <<nextId, active, generation>>
vars == <<url, script, storage, world, connection, parity, command, ids>>

Bot == IF born > base THEN born ELSE 0   \* globalThis.bot
None == 0

Unauthorized == [mode |-> "", attempted |-> FALSE, authenticated |-> FALSE, failed |-> FALSE]

Authorization == [mode : {"", "launch", "resume"}, attempted : BOOLEAN,
                  authenticated : BOOLEAN, failed : BOOLEAN]

Generation == [connected : BOOLEAN, ended : BOOLEAN, syncing : BOOLEAN,
               authorization : Authorization]

FreshParity == [connected |-> FALSE, stored |-> FALSE, authorization |-> Unauthorized]

Attached == {c \in Client : generation[c] # <<>>}

(* Generation ids grow with the clients, across reloads of the tab.        *)
IdsGrow ==
    \A c, d \in Client : c < d /\ ids[c] # 0 /\ ids[d] # 0 => ids[c] < ids[d]

(* What the page publishes is the active generation's connection and       *)
(* authorization: late events of an earlier client never show in it.       *)
ParityIsActive ==
    active # None =>
        /\ parity.connected = generation[active].connected
        /\ parity.authorization = generation[active].authorization

\* Every variable keeps to its range, the attached clients are known ones and have
\* growing ids, a failed generation has ended, and parity shows the active one.
TypeOK ==
    /\ launches \in 0 .. MaxLaunches /\ pages \in 0 .. MaxPages
    /\ hash \in 0 .. launches /\ token \in 0 .. launches
    /\ consumed \in BOOLEAN /\ ticking \in BOOLEAN /\ entity \in BOOLEAN
    /\ storage \in [lease : 0 .. launches, id : Nat]
    /\ born \in 0 .. MaxClients /\ base \in 0 .. born
    /\ tunnel \in [Client -> {"open", "closed"}]
    /\ down \subseteq Client
    /\ nextId \in Nat \ {0} /\ active \in Attached \cup {None}
    /\ generation \in [Client -> Generation \cup {<<>>}]
    /\ Attached \subseteq base + 1 .. born
    /\ parity \in [connected : BOOLEAN, stored : BOOLEAN, authorization : Authorization]
    /\ command \in [Client -> Seq({"launch", "resume"} \X Launch)]
    /\ ids \in [Client -> Nat]
    /\ \A c \in Attached : generation[c].authorization.failed =>
          generation[c].authorization.attempted /\ generation[c].ended
    /\ IdsGrow /\ ParityIsActive

Init ==
    /\ launches = 0 /\ pages = 0 /\ hash = 0
    /\ token = 0 /\ consumed = FALSE /\ ticking = FALSE
    /\ storage = [lease |-> 0, id |-> 0]
    /\ born = 0 /\ base = 0 /\ entity = FALSE
    /\ tunnel = [c \in Client |-> "open"] /\ down = {}
    /\ nextId = 1 /\ active = None /\ generation = [c \in Client |-> <<>>]
    /\ parity = FreshParity
    /\ command = [c \in Client |-> <<>>] /\ ids = [c \in Client |-> 0]

-----------------------------------------------------------------------------
\* The tab loads a page: a reload, or a launch whose URL carries a new token.
Load(h) ==
    /\ pages < MaxPages /\ pages' = pages + 1
    /\ h \in {hash, launches + 1} /\ h <= MaxLaunches
    /\ launches' = IF h > launches THEN h ELSE launches
    /\ hash' = h /\ token' = h
    /\ consumed' = FALSE /\ ticking' = TRUE
    /\ base' = born /\ entity' = FALSE
    /\ tunnel' = [c \in Client |-> "open"] /\ down' = {}
    /\ nextId' = storage.id + 1 /\ active' = None
    /\ generation' = [c \in Client |-> <<>>]
    /\ parity' = FreshParity
    /\ UNCHANGED <<storage, born, command, ids>>

\* The game client connects (again) and later has an entity.
NewBot ==
    /\ pages > 0 /\ born < MaxClients
    /\ born' = born + 1 /\ entity' = FALSE
    /\ UNCHANGED <<url, script, storage, base, tunnel, down, connection, parity,
                   command, ids>>

Login ==
    /\ Bot # None /\ ~entity /\ Bot \notin down
    /\ entity' = TRUE
    /\ UNCHANGED <<url, script, storage, born, base, tunnel, down, connection, parity,
                   command, ids>>

Hears(c) == c \in Attached /\ c \notin down /\ tunnel[c] = "open"

EndGeneration(g) == [g EXCEPT !.connected = FALSE, !.ended = TRUE, !.syncing = FALSE]

\* What parity shows when c's generation has become g.
MirrorAny(c, g) ==
    [parity EXCEPT !.connected = g.connected, !.authorization = g.authorization]

Mirror(c, g) ==
    IF c = active
    THEN [parity EXCEPT !.connected = g.connected, !.authorization = g.authorization]
    ELSE parity

Becomes(c, g) == generation' = [generation EXCEPT ![c] = g] /\ parity' = Mirror(c, g)

-----------------------------------------------------------------------------
\* beginGeneration and the first pass of attachDiagnostics; the tunnel may be closed
\* already, and the lease's channel may fail to register: then no packet comes.
Begin ==
    [connected |-> tunnel[Bot] = "open", ended |-> tunnel[Bot] = "closed",
     syncing |-> TRUE, authorization |-> Unauthorized]

EndPrior ==
    IF active # None /\ ~generation[active].ended
    THEN [generation EXCEPT ![active] = EndGeneration(@)] ELSE generation

\* What authorizeGeneration does for generation g.
Command(g) ==
    IF g.authorization.attempted THEN ""
    ELSE IF token # 0 /\ ~consumed THEN "launch"
    ELSE IF storage.lease # 0 THEN "resume" ELSE ""

Attempt(g, how) ==
    IF how = "" THEN g
    ELSE [g EXCEPT !.authorization = [Unauthorized EXCEPT !.mode = how, !.attempted = TRUE]]

LeaseAfter(how) == IF how = "launch" THEN 0 ELSE storage.lease

\* The URL keeps its fragment.
HashKept(how) == hash

HashAfter(how) == IF how = "launch" THEN 0 ELSE hash

\* The timer goes on for a lease only.
NeededForLease(lease) == lease # 0

Needed(lease) == token # 0 \/ lease # 0

\* beginGeneration forgets to store the id.
IdKept(new) == storage.id

IdAfter(new) == IF new THEN nextId ELSE storage.id

\* The 100 ms timer: attachDiagnostics, then authorizeGeneration.
Tick ==
    /\ ticking /\ Bot # None /\ entity
    /\ LET new == Bot \notin Attached
           g == IF new THEN Begin ELSE [generation[Bot] EXCEPT !.connected = TRUE]
           how == Command(g)
           lease == LeaseAfter(how) IN
       /\ generation' = [IF new THEN EndPrior ELSE generation EXCEPT ![Bot] = Attempt(g, how)]
       /\ parity' = MirrorAny(Bot, Attempt(g, how))
       /\ active' = Bot
       /\ nextId' = IF new THEN nextId + 1 ELSE nextId
       /\ ids' = IF new THEN [ids EXCEPT ![Bot] = nextId] ELSE ids
       /\ storage' = [lease |-> lease, id |-> IdAfter(new)]
       /\ consumed' = (consumed \/ how = "launch")
       /\ hash' = HashAfter(how)
       /\ command' = IF how = "" THEN command ELSE
             [command EXCEPT ![Bot] =
                 Append(@, <<how, IF how = "launch" THEN token ELSE storage.lease>>)]
       /\ ticking' = Needed(lease)
    /\ UNCHANGED <<launches, pages, token, world>>

-----------------------------------------------------------------------------
Spawn(c) ==
    /\ Hears(c)
    /\ Becomes(c, [generation[c] EXCEPT !.connected = TRUE])
    /\ UNCHANGED <<url, script, storage, world, nextId, active, command, ids>>

Authenticated(g) ==
    [g EXCEPT !.authorization.authenticated = TRUE, !.authorization.failed = FALSE]

\* `HEM: connected to': and a lease is requested, if none came with it.
Connected(c) ==
    /\ Hears(c)
    /\ command[c] # <<>> /\ command[c][1][1] = "launch"
    /\ Becomes(c, Authenticated(generation[c]))
    /\ UNCHANGED <<url, script, storage, world, nextId, active, command, ids>>

\* `HEM: resumed to' keeps the lease there is.
Resumed(c) ==
    /\ Hears(c)
    /\ command[c] # <<>> /\ command[c][1][1] = "resume"
    /\ LET g == Authenticated(generation[c]) IN
       /\ generation' = [generation EXCEPT ![c] = g]
       /\ parity' = [Mirror(c, g) EXCEPT !.stored = storage.lease # 0]
    /\ UNCHANGED <<url, script, storage, world, nextId, active, command, ids>>

\* The lease of a launch arrives on the registered channel.
LeasePacket(c) ==
    /\ Hears(c)
    /\ command[c] # <<>> /\ command[c][1][1] = "launch"
    /\ storage' = [storage EXCEPT !.lease = command[c][1][2]]
    /\ LET g == Authenticated(generation[c]) IN
       /\ generation' = [generation EXCEPT ![c] = g]
       /\ parity' = [Mirror(c, g) EXCEPT !.stored = TRUE]
    /\ UNCHANGED <<url, script, world, nextId, active, command, ids>>

\* What `kicked' and `end' make of a generation.
Over(g) ==
    IF g.authorization.attempted /\ ~g.authorization.authenticated
    THEN [EndGeneration(g) EXCEPT !.authorization.failed = TRUE] ELSE EndGeneration(g)

Kicked(c) ==
    /\ Hears(c)
    /\ Becomes(c, Over(generation[c]))
    /\ UNCHANGED <<url, script, storage, world, nextId, active, command, ids>>

\* The client's end and, with it, the bot's; the entity may go with it.
ClientEnd(c) ==
    /\ c \in base + 1 .. born /\ c \notin down
    /\ down' = down \cup {c}
    /\ entity' \in IF c = Bot THEN {entity, FALSE} ELSE {entity}
    /\ IF c \in Attached
       THEN Becomes(c, Over(generation[c]))
       ELSE UNCHANGED <<generation, parity>>
    /\ UNCHANGED <<url, script, storage, born, base, tunnel, nextId, active, command, ids>>

\* The tunnel closes, and syncRawTransport finds it closed within 250 ms: the
\* client's own end may be late or never come.
TunnelCloses(c) ==
    /\ c \in base + 1 .. born /\ tunnel[c] = "open"
    /\ tunnel' = [tunnel EXCEPT ![c] = "closed"]
    /\ UNCHANGED <<url, script, storage, born, base, entity, down, connection, parity,
                   command, ids>>

\* Only copying the transport's state.
SyncOnly(c) ==
    /\ c \in Attached /\ generation[c].syncing /\ tunnel[c] = "closed"
    /\ parity' = Mirror(c, generation[c])
    /\ UNCHANGED <<url, script, storage, world, connection, command, ids>>

SyncRawTransport(c) ==
    /\ c \in Attached /\ generation[c].syncing /\ tunnel[c] = "closed"
    /\ Becomes(c, EndGeneration(generation[c]))
    /\ UNCHANGED <<url, script, storage, world, nextId, active, command, ids>>

Next ==
    \/ \E h \in 0 .. MaxLaunches : Load(h)
    \/ NewBot \/ Login \/ Tick
    \/ \E c \in Client :
          \/ Spawn(c) \/ Connected(c) \/ Resumed(c) \/ LeasePacket(c)
          \/ Kicked(c) \/ ClientEnd(c) \/ TunnelCloses(c) \/ SyncRawTransport(c)

Spec == Init /\ [][Next]_vars

\* Timers fire.
Fairness ==
    /\ WF_vars(Tick)
    /\ \A c \in Client : WF_vars(SyncRawTransport(c))

FairSpec == Spec /\ Fairness

-----------------------------------------------------------------------------
(* A physical connection is authorized once, by the token or by a lease,   *)
(* however often the timer fires and whatever was answered.                *)
AttemptedOnce == \A c \in Client : Len(command[c]) <= 1

(* A launch token is sent once, though the player may reload the page at   *)
(* any time: the first command erases it from the URL.                     *)
TokenSentOnce ==
    \A c, d \in Client : \A k \in Launch :
        c # d => ~(<<"launch", k>> \in {command[c][n] : n \in DOMAIN command[c]}
                   /\ <<"launch", k>> \in {command[d][n] : n \in DOMAIN command[d]})

(* No connection is resumed with a lease from before the latest launch:    *)
(* the launch removes that lease, and a packet that is still on its way    *)
(* belongs to the page that is gone.                                       *)
ResumeFollowsLaunch ==
    \A c, d \in Client :
        c < d /\ command[c] # <<>> /\ command[d] # <<>> /\ command[c][1][1] = "launch" =>
            command[d][1][2] >= command[c][1][2]

(* Neither a reload, nor a reconnect, nor a late event makes the bridge    *)
(* present a token twice, authorize a connection twice, or resume with a   *)
(* lease that a later launch made worthless.                               *)
LaunchIsUsedOnce == AttemptedOnce /\ TokenSentOnce /\ ResumeFollowsLaunch

\* The generations of this page that have not ended.
Lasting == {c \in Attached : ~generation[c].ended}

(* A closed tunnel ends its generation, though the client may never say    *)
(* so, unless the page is reloaded first.                                  *)
ClosedTunnelNoticed ==
    \A c \in Client : c \in Lasting /\ tunnel[c] = "closed" ~> c \notin Lasting

(* Whoever has a lease uses it: a connection that comes up is authorized   *)
(* unless it is replaced, since the timer never stops as long as a lease   *)
(* may still arrive.                                                       *)
LeaseIsUsed ==
    \A c \in Client :
        Bot = c /\ entity /\ storage.lease # 0 ~>
            Bot # c \/ ~entity \/ storage.lease = 0 \/ command[c] # <<>>
=============================================================================
