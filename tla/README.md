# HEM in TLA+

HEM lets a family play Minecraft worlds from the browser.  A hub (a Cloudflare
worker with a D1 database) knows the players and the worlds; an orchestrator
starts one Paper server per world and stops it when nobody plays; a gateway
joins the browser's WebSocket to Paper's TCP port; a Paper plugin, HEMGate,
keeps a player locked until the hub has accepted a launch token.  This directory
holds TLA+ models of the parts with state and concurrency, the TLC instances
that check them, and theorems about them proved with TLAPS.

`tlc -config <name>.cfg <module>` reproduces a run and `tlapm <module>` a proof.
`PROJECT.json` maps every definition to the lines it was translated from.

## 1. The system

| Component | State | Operations | Talks to | What is hard | What makes it correct |
|---|---|---|---|---|---|
| Presence tracking (`orchestrator/presence.mjs`, the presence route of `server.mjs`, `postPresence` in `HEMGatePlugin.java`) | generation per player, `presenceClock`, `state.players` | join, authorize, quit; a post; its delivery | HEMGate posts to the orchestrator over HTTP | posts are independent and asynchronous: reordered, lost, later than a restart | the count is that of the authorized players as soon as nothing is on its way |
| Orchestrator (`orchestrator/server.mjs`) | the map of worlds, each with a status, port, child process | ensure, stop, presence, idle sweep, the child's events, shutdown | the hub calls it; it owns the Paper processes | state objects outlive their map entry: an asynchronous preparation, timers, event handlers | one process per world directory, bounded processes and ports, launches settle, nothing is abandoned unsaved |
| HEMGate (`HEMGatePlugin.java`) | unlocked connections, sessions, resume tokens, lease requests | join, quit, `/hem auth`, `/hem resume`, `/hem lease`, scheduled tasks | the hub, the browser bridge | the hub answers on another thread and the answer looks the player up anew; two connections of one player may overlap | an authorization belongs to its connection; one lease per player, which a launch revokes, usable until it expires |
| Gateway (`proxy/server.cjs`) | a queue towards Paper, flow control, what is known of keepalives | the socket events | browser and Paper | backpressure, chunks that cut packets, two parties that answer one keepalive, teardown in any order | two FIFO byte streams that end together; every keepalive answered once |
| Browser transport (`client/hem-net-socket.cjs`, `hem-keepalive-guard.cjs`) | one pending write, stream flags, timers, a WebSocket | connect, write, flush poll, end, destroy, socket events | the stream library above it, the gateway | end, error and destruction while connecting; `ws.send` and the callbacks of writes may throw inside a flush | a write is called back once and truly; an ended or destroyed socket releases its WebSocket |
| Browser bridge (`client/hem-bridge.js`) | connection generations, the launch token, the stored lease | a 100 ms timer: attach, authorize; the client's events; a reload | HEMGate, the transport, `sessionStorage` | a tab outlives its pages, a page its connections; events of one come after the next began | a token is presented once, a connection authorized once, a lease is used and never older than the last launch |
| Hub worker (`hub/src/worker.mjs`, `lib.mjs`, D1) | identities, worlds, memberships, invites, launch sessions | register, create, archive, invite, redeem, launch, consume | orchestrator, HEMGate | requests interleave at every `await`; what takes several statements has no transaction | an invite lets one player in, a launch token admits its player once, nobody enters an archived world |
| Hub interface (`hub/public/app.js`) | the launch loop | poll until ready | hub | its retries race the orchestrator's timeout | - |
| World preparation (`world-config.mjs`, `world-version.mjs`) | - | pure functions | orchestrator | - | normal forms; a world is never opened by an older game |
| Backup and restore (`infra/*.sh`) | the volume, the services, the remote backups, the scripts' flags | stop, archive, upload, check; download, verify, image, replace, look; the EXIT trap; the drill | Docker, object storage | any command may fail and any script be interrupted | a verified backup is the stopped world; a restore is all or nothing; services run again, on a whole world |
| Client build (`client/build-client.mjs`, `patch-*.mjs`) | the checkout, `dist`, `hem-build.json` | clean, clone, install, three patches, bundle, publish, attest; deploy | git, pnpm, wrangler | a build that fails is run again over what it left; several copies of one package | the manifest is true of the client beside it; the patched decoder reads in step with its writers |
| Release tooling | files | sequential | - | - | - |

## 2. The modules

| Module | What it is |
|---|---|
| `Presence` | HEMGate's posts, the network between, the orchestrator's reducer, restarts of the Paper process |
| `Orchestrator` | the life of worlds and their Paper processes |
| `Gate` | authorization and reconnect leases in one Paper process |
| `Gateway` | one tunnel: browser, gateway, Paper's socket |
| `Pipe` | what one direction of a tunnel promises; `Gateway` implements it twice |
| `NetSocket` | the browser's socket: a Duplex stream over a WebSocket |
| `Generations` | the bridge in a browser tab, over reloads, launches and reconnects |
| `Hub` | the hub's requests, statement by statement, over its tables |
| `Recovery` | backup, restore and the recovery drill, command by command |
| `Palette` | the paletted containers of a chunk as the patched decoder reads, changes and writes them |
| `ClientBuild` | the client's build and deployment, and a deployed client's chunk columns |
| `MC...` | instances for TLC |
| `...Proofs` | theorems and their proofs; `BrowserProofs` has those about `Generations` and about `NetSocket`, whose `SocketSpec` and `SocketTypeOK` are named so that both can be extended |

In all of them an action is a whole handler: JavaScript runs a callback to its
end, and Paper runs commands, events and scheduled tasks one at a time on its
main thread.  Where a handler awaits or hands work to another thread, the rest
is an action of its own.  An operator that stands before another one with the same parameters, and that
no specification uses (`StopUnnoted` before `Stop`, `RehashOnly` before `Rehash`,
...), is that operator with a plausible mistake in it: substituting it makes a
property fail, as `mutants` of `PROJECT.json` lists.

### Presence

A connection is a player and a generation, and is `none`, `locked` or
`authenticated`.  `Join` is `onJoin`
(it takes the next generation; with `Overlap` also while the connection it replaces
is online), `Authorize` is `completeAuthorization`, `Quit` and
`QuitLocked` the two cases of `onQuit`; `Authorize` and `Quit` put a notification
`(player, generation, connected, at)` in flight.  `Deliver` is the route
`/internal/presence`: it keeps the entry with the larger `(generation, at)` and
recounts; while no world is registered it answers 404, that is, drops the post.
`Lose` is the post's swallowed failure.  `ProcessExit` and `Relaunch` are the end
and the new start of the Paper process, which resets the generations and the
clock.  Times are per connection and start anywhere, since `Newer` compares those of
one connection only.

### Orchestrator

`Objects` are the state objects `spawnWorld` creates, numbered per world; `worlds`
is the map and says which of them, if any, is registered.  `paper[o]` follows an
object from `preparing` (jar, directory, version check) to `booting`, `serving`,
`dead` (ended, exit event not handled) and `gone`, or to `aborted`; `absent` is
the handle of a process that never started.  `ensure` is `EnsureStart` and
`EnsureTimeout`, its other answers change nothing.  `SpawnPaper`,
`PreparationFails` and `SpawnFails` are the ends of the asynchronous half of
`spawnWorld`; `ReadDone` and `ExitEvent` its event handlers; `StopTimer` the second
half of `stopWorld`; `IdleSweep` the interval; `ShutdownBegins` and `ShutdownEnds`
are `gracefulShutdown`.  Durations are left open: an action that needs some time
to have passed is enabled as soon as its other conditions hold.

What the surroundings may do is chosen by constants, because the code is only
right under some of them: `StopsUnspawned` (a stop may arrive during preparation),
`SlowPreparation` (the startup timeout may pass during preparation), `SpawnErrors`
(`spawn()` may fail), `LateOutput` (the child's output may be read after its exit
event).

### Gate

A connection is a player and a number.  `current` is what `Bukkit.getPlayer(uuid)`
returns, `online` the set of `Player` objects that have not quit.  A launch is named
after the connection that redeemed it; `profile` names the launch whose profile and
permissions are applied.  `SendAuth`, `HubAnswers`, `ApplyGrant` and `ApplyRefusal`
are `/hem auth` in its four steps: command, hub, and the scheduled task that looks
the player up again.  `Resume` is `/hem resume`; `RequestLease`, `IssueLease` and
`GiveUpLease` are `/hem lease` and its polls for the client's plugin channel.
`held` is the lease in the browser's `sessionStorage`, one browser per player; the
bridge sends one command per connection (`authorizeGeneration`).  `Overlap` lets a
replacement join before the old connection has quit, which `VERIFICATION.md:108`
reports of Paper; `LateAnswers` lets an answer of the hub find the player on
another connection than the one that asked.  The module is one Paper process; its
restart is in `Presence`.

### Gateway and Pipe

The actions are the handlers of `bridgeHemConnection`.  `clientQueue`, `tcpBlocked`
and `tcpConnected` are its flow control, and `flushClientQueue` returns every way in
which the loop can end: everything written, a pause asked for after the n-th frame,
or a write that throws.  Paper's packets are two units long, so that a chunk may end
inside one; `serverInspectBuffer` keeps the incomplete packet.  A chunk is one or
two units: a longer one acts like several in a row.  `terminated` stands for
`wsClosed` and `tcpClosed` as well, which the same handlers set; that no
socket is closed twice can therefore not be observed.  The reset of the inspection on a frame above 16 MiB is left
out: a Minecraft packet has less than 2 MiB.

`Pipe` says that what is received is a prefix of what was sent, and stays so after
the end.  `Uplink` (the browser's packets, the keepalive answers left aside) and
`Downlink` (Paper's bytes) are two instances of it under a refinement mapping.

`Gateway` has the far end of the tunnel with the keepalive guard of the browser;
`NetSocket` has its near end.  They meet in the WebSocket: `NetSocket` gives it
writes in order and each once (the `OkMeansSent` of `CallbacksAreTrue`), which is what
`Gateway` takes its frames to be.

### NetSocket

The stream library (readable-stream) is external: it hands `_write` one write at a
time, calls `_final` after the last, runs `_destroy` once, and with `AutoDestroy`
destroys the socket in the next tick after an error or after the end of a socket
that cannot be read.  `Flush` is `_flushWrite` with its four ways out: postponed
until the connection or the buffer allows it, sent, `ws.send` throws, the
WebSocket is found closed.  It is reached from `WriteNext`, from the poll timer and
from the open event.  `ws` is `closing` from the call of `close()`, or the peer's,
until the close event is heard.

From the poll timer and the open event, `pending.cb()` and what it runs (the next write,
the `drain` listeners) are called on the spot, inside the `try` of `_flushWrite`.
`calling` is the write whose callback runs: meanwhile the socket's user may write, end,
destroy, connect; then `CallbackReturns`, or `CallbackThrows` into the `catch`, which
calls back once more (`threw`).  `opening` is the same for the `connect` listeners of
the open event.  Within `_write` the library defers the callback by a tick.  `connect()`
and `setTimeout()` do not ask whether the socket is destroyed, and a callback that throws
prevents what follows it in `_destroy` and in the `catch`: `abandoned` notes these, and
they are the exceptions of `DestroyReleases` and `EndReleases`.  A library that throws
when a callback is called twice (readable-stream 3 does) is not modelled: there the
second call of a write's callback throws on, out of the `catch`.

### Generations

Clients are numbered as the game client makes them, launches as the tab is given
tokens; a lease is named after the launch that it descends from.  `Load` is a page
load: everything but `sessionStorage` and the URL starts afresh.  `Tick` is the
100 ms timer, `attachDiagnostics` and then `authorizeGeneration`; `SyncRawTransport`
is the 250 ms timer that copies the transport's state; the other actions are the
client's events, which each generation hears from its own client only.
`ParityIsActive`, a part of the type invariant, says that what the page publishes is
the active generation's, whichever client's event came last.

### Hub

A statement of D1 is atomic and a request is not: each action is one statement,
`request[r]` what the request has read so far and has still to do, and `Fail` ends
a request between two statements, as an error of D1 or of the orchestrator does.
`ProposeName`/`InsertIdentity` are `register`, `Authorized` the membership check
that `archiveWorld`, `createInvite` and `launchWorld` begin with,
`SpendInvite`/`LookupWorld`/`Join` are `redeemInvite`, and `ConsumeToken`/`Admit`
`consumeLaunch`.  What was answered to whom is in history variables (`joined`,
`admitted`), and `broken` holds the invites and tokens of requests that failed
after they were counted: without it nobody could tell a wasted one from a lost one.

### Recovery

The three scripts are one program counter, `at`, which every command moves on and
`Fail` moves to the trap: a command fails, or the script is interrupted, having had
some effect or none.  `CleanUp`, `Unpack` and `Restart` are the trap of
`restore-r2.sh` (in `backup-r2.sh` the first two do nothing).  The drill calls both
scripts and does steps of its own between.  A world is known by its number of saves,
and a volume may also be empty, hold the drill's spoiled archive, or a world in part;
while the orchestrator runs, `Save` changes it at any moment.  One script runs at a
time.  `Up` and `Finish` are apart, as `docker compose up` and the clearing of the flags
are: bash takes a signal when the command that runs has ended, so that an interrupt may
find the services up and `MUTATED` still 1.  Three constants choose the surroundings:
`UpIsAtomic` (`docker compose up` starts all its services or none), `LateInterrupt` (a
script may be interrupted there) and `TrapWorks` (the trap's own commands succeed).
`Refuse` is the one way in which a restore rejects what it has unpacked; `happened`
holds what really happened in a drill, for its evidence to be compared with.

### Palette and ClientBuild

`phase` is the build's next command; `Fail` ends the build at any of them, and the
next one starts with what is left.  `Install` may find any copies of
`prismarine-chunk` patched in pnpm's store, resolve them in any way, rewrite the
lockfile or take other data; the checks after it refuse what they can see.
`PatchPackageRoot` patches one copy at a time, so that the build may stop between
two.  What nothing checks is a constant: `Matching` says which of the patch's
replacements match a copy's source where the patch does not require it, `BodyTag`
whether the bundle's `index.html` has the `</body>` that `AddScripts` inserts the scripts
before, `RmIsAtomic` whether a build that is killed while it removes the former `dist`
leaves all of it or none.  `Deploy` takes `dist` as it is, after a failed build as well.  `Consumers` are
the packages that require the decoder, `TopLevel` those in `node_modules` itself,
which are the ones the patch looks at.

A deployed client then receives, loads, changes, dumps and reloads columns.
A container is its width and its `noSizePrefix` flag; what is sent is the width,
whether a count of longs is there, and how many longs follow.  The flag comes from the
column and is passed from hand to hand (`Hands`: the reader, the section of a single value,
`fromLocalPalette`, the two conversions); a decoder is known by those of them that pass it on,
which in a copy that is not patched is none.  A decoder that takes
another number of longs, or expects a count that is not there, is out of step for the
rest of the column (`Garbled`).  What a server sends is modelled from the protocol,
with the widths of its registries as constants.

## 3. The runs

| Run | Expected | Shows |
|---|---|---|
| `presence_lossy` | pass | `CountExplained`: with posts reordered and lost, and a restart, the orchestrator is wrong about a player only while the correcting post is on its way or was lost, although connections overlap, and with every post heard the count is the number of authorized players, unless a connection outlives its successor; `DepartureNoticed`: whoever left stops counting, unless a post was lost |
| `orch_household` | pass | `OneProcessPerWorld`, `ExitAccountsForAll`, with spawn errors and late output, when no launch is stopped or timed out during its preparation; `PortAlwaysFree`, when three worlds contend for two ports |
| `orch_liveness` | pass | `LaunchSettles` (and a failed launch can be tried again), `StopCompletes`, `IdleWorldStops`, with stops and timeouts during preparation; `ReadyHasProcess` |
| `orch_two_papers` | violation | a launch that timed out in preparation is retried: two Papers on one directory (`README.md:11`) |
| `gate_overlap` | pass | with overlapping connections and late answers: `OneLease`; `LaunchRevokes`: a lease of another launch can only be the late answer to an older request; `HeldLeaseLasts`: only a launch takes a browser's lease away before it expires; `AuthorizationLasts`, `LockedSettles`, `LeaseRequestEnds` |
| `gateway` | pass | `UplinkIsAPipe`, `DownlinkIsAPipe` (refinements), `NoStall`, `SeenIsAnswered`, `AnsweredOnce`, `AnswersReachPaper`, `EndsTogether` |
| `net_socket` | pass | `CallbacksAreTrue`: every write is called back once, and truly, unless its callback throws; `WriteSettles`; `EndReleases`: a socket that was ended while connecting leaves no WebSocket open; `SocketTypeOK` with `DestroyReleases`; both but for what `abandoned` notes |
| `bridge` | pass | `LaunchIsUsedOnce`: no token is sent twice, no connection authorized twice, no lease older than the last launch; `ClosedTunnelNoticed`, `LeaseIsUsed`; `TypeOK` with `IdsGrow` and `ParityIsActive` |
| `hub` | pass | `InvitesAccounted`, `TokensAccounted`: an invite lets in one player and a token admits its own player once, and each is wasted only by a failure or the archive; `ArchiveIsFinal`; `TypeOK` with `NamesDistinct` |
| `recovery` | pass | `RecoveriesAreReal`: a backup reported as verified is the stopped world in full, and the evidence of an empty restore and of a rollback is so; `RestoreIsAtomic`: a restore starts the services on the backup or puts back what was there; `RunsOnWholeWorld`; `ServicesReturn`; on a host where `up` and the trap work and no interrupt falls between `up` and the flags |
| `recovery_late` | violation | `RestoreIsAtomic`: a restore interrupted between `up` and `MUTATED=0` is rolled back under a running Paper (`docs/DEPLOY.md:110`) |
| `client_build` | pass | `Attested`: all that `hem-build.json` says is true of the client beside it; `InStep`: an attested client reads every container in step; for a page with a `</body>` and sources that every replacement matches |

Every type invariant is proved; those of `Presence`, `Orchestrator`, `Gate`, `Gateway`,
`Recovery` and `ClientBuild`, which say no more than ranges, are therefore in no run.

**Bounds.**  *Presence*: one player with three connections, so that the posts
of one meet both an earlier and a later one (players meet only in the count, of which the
theorems speak for any number); two time stamps within a connection, two processes.
*Orchestrator*: three worlds for two places and two ports, so that a launch is let
through beside a world that holds a port, or refused for the third; three launches in
all, two of them possibly of one world (an object that outlives its entry meets its
successor, beside another world); the
liveness run has one world, as worlds only meet in the limits.  *Gate*: one player, two
connections that overlap or follow one another (what is left of one meets the launch or
the resume of the next), three tokens, a clock that can pass an expiry.  *Gateway*:
three frames against a queue of two, so that it overflows; three packets, two of
them keepalives, cut and coalesced in all ways; a WebSocket buffer of two units.
*NetSocket*: three writes (one pending, one before and one after it), two messages.
*Generations*: three clients, two launches and two pages, so that a client of a
reloaded page follows one of either launch.  *Hub*: two players contend for one
invite and two tokens, in a shared and an unshared world, with two requests at a
time: no property relates three.  *Recovery*: three saves and four scripts: the
drill needs three (a backup, a restore, the rejected restore) and another backup or
restore may come before it or after (in `recovery_late` two, which the violation takes).
*ClientBuild*: two copies and two
consumers, so that one may be patched without the other; two builds, so that one
finds what the other left; every width of a container.
Deadlock is not checked: players may stop playing and the bounds end every
behaviour.

**Fairness.**  *Presence*: every request ends, delivered or failed (3 second
timeout).  *Orchestrator*: timers fire, events are delivered, a preparation ends
(its steps are file operations and one download), a booting Paper reports Done or
exits, and one that read `stop` exits.  *Gate*: scheduled tasks run, and a kicked
connection quits; the hub need not answer and nobody need speak.  *Gateway*: frames
in transit arrive, the TCP connection comes up, Paper goes on reading, a close is
heard; each unless the connection breaks, which it may at any time.  *NetSocket*:
timers and ticks come, a callback returns or throws, a connection comes up or fails, a
close is heard; and a WebSocket that is polled again and again has an empty buffer at some poll (strong
fairness: its buffer drains while it is open).  *Generations*: the two timers fire;
no client and no player need do anything.  *Recovery*: a script that was started
goes on to its end.  `Hub` and `ClientBuild` state safety only and assume none.

## 4. The proofs

Each theorem holds for all values of the constants that satisfy the module's
assumptions and the theorem's.  Every type invariant, every safety invariant, every
action property of the passing runs and both refinements are proved.  The proofs have one shape: an
inductive invariant that says what the property leaves out, one step for each action,
one below it for each conjunct that the action can disturb.  What follows says for each
module which invariant that is and why it is needed.

*Presence.*  `PresenceTypeCorrect`, for any clock and any late posts.
`PresenceAccurate`: `CountExplained`, whether connections overlap or not, if stamps of
one connection grow (`ForwardClock`) and posts of a
previous process are settled before the relaunch.  It is not
inductive: it says nothing of what is in flight.  `PresenceInv` adds that every
entry and every notification is of a connection that has joined and no newer than its
latest post, that a locked connection has no post, that an
authorized one has its arrival unheard or applied, unless a later connection was heard
of, and that whatever calls a closed one connected is superseded by something newer.
The part of the property about the number, `QuiescentExact`, follows from the other two: with nothing unheard
an entry that calls its player connected is right, and where the latest connection is the
only one online, no other could be missed.

*Orchestrator.*  `OrchestratorTypeCorrect` rests on `PortSearch`: the wrapped search
finds a port in range.  `RegistryFitsPorts` (`RegistryBounded` and
`PortAlwaysFree`) holds in every environment: the busy ports are no more than the
registered worlds, and when a launch is let through those are fewer than the ports.
`OneProcessHousehold` and `LiveProcessesBounded` assume `~StopsUnspawned` and
`~SlowPreparation`; without these `orch_two_papers` shows them false.
`OwnershipInv` says that every object that has, or will have, a process is the
registered one of its world: this is what neither property says and every handler
has to preserve, above all `ExitEvent`, which deletes the entry by the world's name.
`ShutdownTellsEveryone` (`ExitAccountsForAll`) assumes the same (it is `Household`):
a process that the shutdown has to reach is a registered one, so `ShutdownEnds`, which
goes through the map, misses none.  `ReadyIsBacked` assumes `~LateOutput`;
`ReadinessInv` ties the unread Done line to a process that came up.

*Gate.*  `GateTypeCorrect`.  `TokensAreUnique`: `OneLease` in every environment; the
two maps of leases agree through issue, revocation and clean-up.
`AuthorizationEndsWithQuit`: an action property from the type invariant.
`LeasesAreRevoked` (`LaunchRevokes`), in every environment, from `OneLease`: a grant
revokes the only lease there is, a resume applies the only one, so that one of another
launch can come from nothing but a request that was waiting (`ExplainedStep`).
`LeasesLast` (`HeldLeaseLasts`), in every environment: whatever else happens, the clean-up
keeps a lease that is good, and a request is answered with it (`LeaseWorksStep`).
`HeldLeaseIsGood` says more of connections that neither overlap nor are answered
late: there not even a grant takes a lease away (`HeldLeaseWorks`, which is in no run).  `HeldInv` adds that the one connection online is the current one, that later
connections have left no trace, and that a player whose launch is being redeemed
holds no lease: so the grant that revokes it revokes nothing a browser counts on.

*Gateway.*  `GatewayTypeCorrect`, `QueueNeverStalls` (`NoStall`) and
`KeepAlivesAreAnswered` (`SeenIsAnswered`), for streams and queues of any length.
`Sound` says once what every write must do: end the bridge, or keep the queue within
its limit, leave nothing that no event would flush, and lose nothing; the three ways
to write are shown sound and each handler is a use of that.  `BufferIsCurrent`, that
the inspection buffer holds exactly the header of a packet whose body is to come, is
what `SeenIsAnswered` lacks to be inductive.  `DownlinkImplementsPipe`: Paper's bytes
reach the browser as `Pipe` promises; `DownlinkInv` says that what is on its way
continues what the browser has.  `UplinkImplementsPipe`: so do the browser's packets
reach Paper.  `UplinkInv` cuts them in three: Paper was written the first `a` of them, the
queue holds the next ones, the rest are in the WebSocket (`Carries`); every way to write
moves the first cut (`Splits`), and the gateway's own answers, which come between,
move none.  `PacketsAreNumbered` turns that into `Pipe`'s sequences.
`PaperHearsOneAnswer` (`AnsweredOnce`) assumes `~SlowBrowser`, that no answer comes after
`KEEPALIVE_DEDUPE_MS`.  The property compares what was written; `OnceInv` adds that
no answer is both written and queued, that there is none to a keepalive not yet read,
and that every answer which the browser has sent or may still send is remembered as
given (`DuplicatesAreKnown`): that is why the second one is dropped.

*Browser bridge.*  `BridgeTypeCorrect` (with `IdsGrow` and `ParityIsActive`) and
`LaunchesAreUsedOnce` (`LaunchIsUsedOnce`), for any number of pages, clients and
launches.  The two have one invariant, `BridgeInv`: a command is only ever sent by an
attached generation that is marked as having tried (`AttemptsAreKnown`), or by one of an
earlier page, which is gone; a launch token that was sent is no longer in the URL, the
page that read it knows so, and a lease that is stored is not older than it
(`LaunchesAreOver`), so that neither a reload nor the next connection finds it again;
`TokensAreNew` and `LaunchesDiffer` keep two launches apart.

*Browser transport.*  `SocketTypeCorrect` (with `DestroyReleases`) and
`WritersHearTheTruth` (`CallbacksAreTrue`), in any number of writes and with or without
`AutoDestroy`.  `SocketInv` rests on `Right`, a relation between the
number of writes, the pending one, the callbacks and what the WebSocket got: a write
that is pending has not been sent and is the last; it becomes `ok` and sent together,
or an error, and a second call comes only to a write that threw.  `CallIsRight` says that
the callback which runs belongs to a write that was sent and told so, for a throw to find.
Both are shown to survive each way in which a flush, a throw, an `end` or a `destroy`
can go, and the handlers are made of those.  The theorems have the exceptions of the
properties: `threw` in `CallbacksAreTrue`, `abandoned` in `DestroyReleases`.

*Hub.*  `HubTypeCorrect` (with `NamesDistinct`), `HubInvitesAccounted`,
`HubTokensAccounted` and `HubArchiveIsFinal`, for any number of players, worlds,
invites, tokens and requests in progress.  `Tables` says that rows refer to rows, and
that a request in progress still finds what it has read: that holds because no row is
deleted and no other request writes the columns it relies on (`RowsStay`).  `InviteUse`
says of each invite, and `TokenUse` of each token, that at most one request is between
counting it and using it, and that it has done nothing yet: the conditional `UPDATE`
lets one through, and what that one then does is the first.  `MembersOnly` lets `Admit`
find its membership row, so that a consumed token is refused only in an archived world.

*Recovery.*  `RecoveryTypeCorrect` and `VerifiedRecoveriesAreReal` (`RecoveriesAreReal`)
assume nothing of the host.  `Recovers` says for each command of the scripts what was
done before it: `Flags`, which of `STOPPED`, `MUTATED` and the rollback line are set;
`BackupHolds` and `RestoreHolds`, what the archive, the last upload and the volume have
in common; `Drills`, that each step of the drill has what the earlier ones left.
`RecoveryRestoreIsAtomic` and `RecoveryRunsOnWholeWorld` assume `UpIsAtomic`,
`TrapWorks` and `~LateInterrupt`, without each of which section 5 shows them false;
`RolledBackTo` says that the trap,
once past the unpacking, has the image on the volume, and `Whole` that the volume holds
a world except while a restore changes it.  That the bad archive was rejected
(`RejectionHappened`) is no theorem: it does not hold.

*ClientBuild.*  `BuildTypeCorrect`; its parts also say in which phases there is a
bundle or a `dist`, and that nothing is attested before the patch, without which
`Publish`, `AddScripts` and `Install` do not keep the types.  `AttestedIsTrue`
(`Attested`) assumes `TopLevel = Consumers`, `BodyTag` and `RmIsAtomic`, without each of which
section 5 shows it false.  `Witnessed` is what holds in any case; `LockInv`, `PatchInv` and `OutputInv` say what
each command has established and the later ones must leave alone, up to the
manifest, and that there is no manifest in between; a failure only ever makes the
phase `idle`, of which they claim nothing.  `AttestedReadsInStep` (`InStep`) assumes a
server whose registries take the client's bits, `TopLevel = Consumers`, and that every
replacement matches the sources of every copy (`AllMatch`).  The count of longs the server sends,
the least with room for every value, is what `PackedLongCount` computes
(`CeilingIsLeast`, `SentIsPacked`); whatever is read, changed or reloaded keeps the flag
and one of the client's widths (`Fits`), and every consumer of an attested client has all
the `Hands` (`PlayInv`).

Only model-checked is what rests on fairness, as liveness and `ENABLED` are beyond the
prover: `DepartureNoticed`, `LaunchSettles`, `StopCompletes`, `IdleWorldStops`,
`LockedSettles`, `LeaseRequestEnds`, `AnswersReachPaper`, `EndsTogether`, `WriteSettles`,
`EndReleases`, `ClosedTunnelNoticed`, `LeaseIsUsed` and `ServicesReturn`.

## 5. Where the code and its documents disagree

Two disagreements are runs, and findings of `PROJECT.json` that quote the documents:

- `orch_two_papers`: a launch that timed out while it was prepared is retried, and two
  Papers run on one directory;
- `recovery_late`: an interrupt after `docker compose up` and before `MUTATED=0` rolls the
  volume back under a Paper that runs, although the restore had succeeded.

The others have no run of their own.  Where a property is named it fails, and TLC
shows how, once it is checked in the run of its module with the constants given here.

- *Two worlds that are launched together are given one port.*  A world in preparation has
  no child, and `activePorts` counts only worlds that have one (`server.mjs:66`), while
  `docs/ARCHITECTURE.md:45` has the orchestrator select a port and start Paper:
  `PortsDistinct` fails in `orch_household`.
- *The lease of an older launch.*  A lease request captures its source
  (`HEMGatePlugin.java:225`) and may wait 4 seconds for the channel.  If the player launches
  again on a new connection while the old one is online, the overlap of
  `VERIFICATION.md:108`, the old request then mints a token of the old launch, with its
  profile and operator flag, and it becomes the account's only one; the comment at
  lines 186-187 and `docs/PARITY_1_21_5.md:177` have a fresh launch revoke the prior lease.
  With `Overlap = TRUE` `LeaseIsFresh` fails, also with `LateAnswers = FALSE`; no lease of
  another launch comes any other way (`LaunchRevokes`).
- *A write whose callback throws* is called back again, with an error after its bytes were
  sent: the callback runs inside the `try` that guards `ws.send`
  (`hem-net-socket.cjs:192-199`), while
  `docs/superpowers/plans/2026-09-12-rc39-dedicated-transport.md:85` has an error answer what
  could not be sent: `ErrorMeansUnsent` fails in `net_socket`.
- *The drill's evidence of a rejected archive* (`invalidArchiveRejectedAfterMutation`,
  `production-r2-drill.sh:109`) does not tell a rejection from any other failure of that
  restore: the drill checks that it failed, that it logged the rollback and that the data
  is as before (lines 91-94), and a failure in unpacking does all three.
  `RejectionHappened` fails in `recovery`.
- *A page without `</body>`* gets neither the keepalive guard nor the bridge
  (`build-client.mjs:301` is a replace, and no check follows), and `hem-build.json` attests
  the guard (line 335), which `tests/system/browser-1215.mjs:444` takes as the proof of it:
  with `BodyTag = FALSE` `Attested` fails.
- *Replacements of the chunk patch that match nothing* go unnoticed
  (`patch-prismarine-chunk-1215.mjs:134-142`, `165-177`, `223-231`, `270-280`), against the
  comment at line 134.  The two of the conversions want a line break after the brace of the
  constructor call; the source that `tests/chunk-1215-patch.test.mjs:287` and `306` have the
  patch accept has none, the flag is lost where a container changes its representation, and
  the client writes a count that its readers do not expect.  With
  `Matching[c] = {"read", "single", "local"}` `InStep` fails.
- *A lost departure* is counted until the process ends, as `DepartureNoticed` has to
  allow: `postPresence` (`HEMGatePlugin.java:331`) neither retries nor repeats, while
  `docs/ARCHITECTURE.md:52` has the idle stop follow the players.
- *A post of the previous process* that arrives after a relaunch is counted for its
  successor: with `PromptRelaunch = TRUE` `CountExplained` fails (`README.md:111`).
- *A connection that outlives its successor* is not counted, although every post was
  heard: the orchestrator keeps the player's newest connection only.  `QuiescentExact` fails
  without its condition `OnlyNewest`, and the idle timer that
  `docs/ARCHITECTURE.md:51` starts when the final player leaves may start before.
- *A Java process that cannot be spawned* leaves its handle in `state.child` for ever, so
  the launch is never retryable: with `SpawnErrors = TRUE` `LaunchSettles` fails
  (`server.mjs:139`).
- *A stop during the preparation* forgets the world, and the preparation spawns its Paper
  all the same: with `StopsUnspawned = TRUE` `OneProcessPerWorld` fails.
- *A late grant* of the hub revokes the lease of the newer launch, as
  `completeAuthorization` (`HEMGatePlugin.java:184`) asks for the player, not for the
  connection: with `LateAnswers = TRUE` `HeldLeaseWorks` fails (`HeldLeaseLasts` allows it).
- *A restore whose restart fails half way* rolls the volume back under a Paper that
  runs: with `UpIsAtomic = FALSE` `RestoreIsAtomic` and `RunsOnWholeWorld` fail, against
  `docs/DEPLOY.md:110`.
- *A rollback that fails* is hidden by `|| true` and its image deleted with the
  temporary directory: with `TrapWorks = FALSE` `RestoreIsAtomic` fails.
- *A build that is killed while it removes the former `dist`* may leave `hem-build.json`
  beside a part of what it speaks for: with `RmIsAtomic = FALSE` `Attested` fails
  (`build-client.mjs:39`).
- *A consumer nested in another package* is not among the roots the patch walks: with
  `TopLevel # Consumers` `Attested` fails, and the manifest speaks for a decoder that
  nobody patched.
- *A server with more than 256 biomes* takes nine bits for each where the client
  allocates seven, and a column is read out of step: with `ServerBiomeBits = 9`
  `InStep` fails (`patch-prismarine-chunk-1215.mjs:91`).  Eight bits take as many longs
  as seven, by accident: such a column is read in step and its biomes are still
  wrong, which `InStep` does not say.
- *A stream library without autoDestroy* would leave the WebSocket of a socket that
  ended while connecting open for ever: with `AutoDestroy = FALSE` `EndReleases` fails.
- *A WebSocket that nothing closes* is left where `connect()` is called on a socket that was
  destroyed (its open handler returns at `hem-net-socket.cjs:296`), and where the callback
  of a write throws inside `_destroy` (line 250) or out of the `catch` (line 198):
  `DestroyReleases` and `EndReleases` fail without their exception, `abandoned`.

Seen while modelling, and not asserted by any property:

- of an arrival and a departure in one millisecond the one delivered last wins,
  as the comparison of `presence.mjs` is strict;
- a Done line that is read after a stop was requested makes the world `ready` again
  until its process exits, and one read after the exit event leaves it ready
  without a process (hence `LateOutput`);
- failed launches keep their places under `MAX_ACTIVE_WORLDS` until their own world is
  asked for again;
- a Paper spawned while the shutdown drains gets SIGTERM but neither `save-all` nor
  `stop`;
- a refusal by the hub, or its timeout, kicks whichever connection the player has by
  then;
- the timer of `hem-bridge.js:277` calls an ended generation connected again as long
  as its bot keeps its entity, against the comment at lines 383-386;
- an interrupt while `docker compose stop` runs comes before `STOPPED=1`, and leaves
  the services down; so does a drill that has stopped them itself
  (`production-r2-drill.sh:68`) and fails to wipe the volume (its trap starts nothing);
- a backup and a restore may be started at the same time: there is no lock;
- a player who was admitted before may resume with a lease after the world was archived,
  while its Paper runs: the plugin does not ask the hub for a resume;
- `setTimeout()` on a socket that was destroyed starts a timer that nothing clears;
- `app.js:184-196` forgets the stored credential when the first request fails for any
  reason.

## 6. Not modelled

- World preparation: pure functions of property files and NBT; that a preparation
  fails is `PreparationFails`.
- Hub interface: rendering, and a loop that asks `launchWorld` again until it
  answers; to `Hub` it is a caller like any other.
- Hub: `renameWorld` and `updateProfile` (one UPDATE of a column that no other request
  reads), the listings, the spelling of names.
- Orchestrator: the 409 answer for a changed configuration, `/internal/command`, the
  log routes: they change no state of these models.
- HEMGate: the listeners that cancel what a locked player does (a predicate on
  foreign events), skins (named by their launch).
- Gateway and browser transport: the upgrade request (port range, Origin), the
  diagnostic counters, the guard's own tickets (in `Gateway` the browser answers a
  keepalive once).
- Browser bridge: the counters of packets, audio and windows, the list of the last
  eight generations; the lease request is in `Gate`.
- Backup and restore: `preflight.sh`, which only reads; two scripts at a time; the
  removal of a volume's files file by file (in part, or whole).
- Client build: `patch-net-browserify-ordering.mjs`, which nothing calls, and
  `worker.mjs`, which serves files.
- Release tooling, the 3D preview: sequential, no shared state.

## 7. Plan

Every safety property of the runs has its theorem.  What is left:

1. The safety half of the liveness properties, as invariants: that a pending lease
   request always has a poll to come, that a script that failed is always at a command of
   its trap, that a pending write of `NetSocket` always has a poll, an open event or a
   close to wait for.  With those, fairness is all that the runs would add.
2. `NetSocket` as a `Pipe` of its own (`writes` to `sent`), so that the near end of the
   tunnel and the far one share their abstract specification.
3. `Gate`: whether `HeldLeaseWorks` survives overlapping connections if answers are not
   late, or the other way round; `HeldLeaseIsGood` assumes both at present.
4. The patch of `prismarine-chunk` by its replacements: `Matching` takes each hand as one
   place, where the section and the biome have replacements of their own.
