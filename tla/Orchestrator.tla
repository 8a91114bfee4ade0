---------------------------- MODULE Orchestrator ----------------------------
(***************************************************************************)
(* The world orchestrator: one Paper process per world, started on demand, *)
(* stopped when idle, on request or at shutdown.                           *)
(*                                                                         *)
(* Every launch of a world creates a state object; the map `worlds' holds  *)
(* at most one object per world, but an object outlives its map entry: the *)
(* asynchronous preparation, the event handlers and the timers keep it.    *)
(* Requests read their body first and then run to the end without yielding,*)
(* so each handler is one action; everything else interleaves.  How long   *)
(* things take is left open: a step that needs a deadline to have passed   *)
(* (15 seconds since failedAt, the startup timeout, the idle timeout) may  *)
(* happen, or not, as soon as its other conditions hold.                   *)
(***************************************************************************)
EXTENDS Integers, FiniteSets

CONSTANTS
    Worlds,          \* world ids
    MaxStarts,       \* bound: launches of one world ...
    MaxLaunches,     \* ... and of all worlds together
    MaxPlayers,      \* bound: players counted in one world
    Span,            \* ports in WORLD_PORT_START .. WORLD_PORT_END
    Home,            \* hash(id) % Span, where the port search begins
    MaxActive,       \* MAX_ACTIVE_WORLDS
    \* What the surroundings may do:
    StopsUnspawned,  \* /internal/stop may name a world still being prepared
    SlowPreparation, \* the startup timeout may pass before Java is spawned
    SpawnErrors,     \* spawn() may fail and report it by an 'error' event
    LateOutput       \* output may be read after the 'exit' event

ASSUME BoundsAssumption == {MaxStarts, MaxLaunches, MaxPlayers} \subseteq Nat
ASSUME PortsAssumption ==
    Span \in Nat \ {0} /\ Home \in [Worlds -> 0 .. Span - 1]
\* runtimeConfigErrors refuses to start otherwise.
ASSUME ActiveAssumption == MaxActive \in Nat \ {0} /\ MaxActive <= Span
ASSUME SwitchAssumption ==
    {StopsUnspawned, SlowPreparation, SpawnErrors, LateOutput} \subseteq BOOLEAN

Starts == 1 .. MaxStarts
Objects == Worlds \X Starts   \* the n-th state object of a world

VARIABLES
    worlds,   \* the Map: world -> number of its registered object, 0 if absent
    launches, \* state objects created for a world so far
    port,     \* state.port
    status,   \* state.status
    players,  \* state.players
    paper,    \* what became of the object's Java process
    doneLine, \* Paper printed its Done line and it was not read yet
    told,     \* what was written to Paper's console or signalled to it
    phase     \* the orchestrator process: serving, draining or exited

vars == <<worlds, launches, port, status, players, paper, doneLine, told,
          phase>>

\* Every variable keeps to its range: ports, statuses, console commands.
TypeOK ==
    /\ worlds \in [Worlds -> 0 .. MaxStarts]
    /\ launches \in [Worlds -> 0 .. MaxStarts]
    /\ port \in [Objects -> 0 .. Span - 1]
    /\ status \in [Objects ->
                      {"starting", "ready", "stopping", "error", "stopped"}]
    /\ players \in [Objects -> 0 .. MaxPlayers]
    /\ paper \in [Objects -> {"unused", "preparing", "aborted", "absent",
                              "booting", "serving", "dead", "gone"}]
    /\ doneLine \in [Objects -> BOOLEAN]
    /\ told \in [Objects -> {"nothing", "save", "stop", "term"}]
    /\ phase \in {"serving", "draining", "exited"}

Init ==
    /\ worlds = [w \in Worlds |-> 0]
    /\ launches = [w \in Worlds |-> 0]
    /\ port = [o \in Objects |-> 0]
    /\ status = [o \in Objects |-> "stopped"]
    /\ players = [o \in Objects |-> 0]
    /\ paper = [o \in Objects |-> "unused"]
    /\ doneLine = [o \in Objects |-> FALSE]
    /\ told = [o \in Objects |-> "nothing"]
    /\ phase = "serving"

-----------------------------------------------------------------------------
\* state.child is set from spawn() to the 'exit' event; `absent' is the handle
\* of a process that could not be started and will never exit.
HasChild(o) == paper[o] \in {"absent", "booting", "serving", "dead"}
Alive(o) == paper[o] \in {"booting", "serving"}

IsRegistered(w) == worlds[w] # 0
Current(w) == <<w, worlds[w]>>
Registered == {o \in Objects : worlds[o[1]] = o[2]}

\* Ports that are not given back when a world ends.
activePortsEver == {port[o] : o \in {r \in Objects : paper[r] # "unused"}}

activePorts == {port[o] : o \in {r \in Registered : HasChild(r)}}

\* The state objects created so far.
Launched == {o \in Objects : o[2] <= launches[o[1]]}

Ports == 0 .. Span - 1

\* How far the search from the world's home goes, around the range, to reach p.
Distance(w, p) ==
    IF p >= Home[w] THEN p - Home[w] ELSE p - Home[w] + Span

\* The first free port of the search.
portFor(w) ==
    CHOOSE p \in Ports \ activePorts :
        \A q \in Ports \ activePorts : Distance(w, p) <= Distance(w, q)

\* A failed launch may be retried 15 seconds later, if it left no process.
Retryable(o) ==
    /\ status[o] = "error"
    /\ ~HasChild(o)

\* Launching a world again while its process still saves.
MaySpawnWhileStopping(w) ==
    /\ IsRegistered(w) =>
          Retryable(Current(w)) \/ status[Current(w)] = "stopping"
    /\ Cardinality({v \in Worlds \ {w} : IsRegistered(v)}) < MaxActive

\* ensure and the head of spawnWorld let a launch through: ensure deletes a
\* retryable failure, then the map must have room.
MaySpawn(w) ==
    /\ IsRegistered(w) => Retryable(Current(w))
    /\ Cardinality({v \in Worlds \ {w} : IsRegistered(v)}) < MaxActive

\* lastError is set with it.
Fail(o) == status' = [status EXCEPT ![o] = "error"]

\* stopWorld, for every object of a set that has a process.
stopWorld(S) ==
    LET stopped == {o \in S : HasChild(o)} IN
    /\ status' = [o \in Objects |->
                    IF o \in stopped THEN "stopping" ELSE status[o]]
    /\ told' = [o \in Objects |->
                    IF o \in stopped /\ told[o] = "nothing"
                    THEN "save" ELSE told[o]]

-----------------------------------------------------------------------------
(* Requests.                                                               *)

\* ensure: start a world that is not registered or whose launch failed.
EnsureStart(w) ==
    /\ phase # "exited"
    /\ launches[w] < MaxStarts
    /\ Cardinality(Launched) < MaxLaunches
    /\ MaySpawn(w)
    /\ LET o == <<w, launches[w] + 1>> IN
       /\ launches' = [launches EXCEPT ![w] = @ + 1]
       /\ worlds' = [worlds EXCEPT ![w] = launches[w] + 1]
       /\ port' = [port EXCEPT ![o] = portFor(w)]
       /\ status' = [status EXCEPT ![o] = "starting"]
       /\ paper' = [paper EXCEPT ![o] = "preparing"]
    /\ UNCHANGED <<players, doneLine, told, phase>>

\* ensure, of a world that has been starting for too long.
EnsureTimeout(w) ==
    /\ phase # "exited"
    /\ IsRegistered(w)
    /\ LET o == Current(w) IN
       /\ status[o] = "starting"
       /\ paper[o] = "preparing" => SlowPreparation
       /\ IF HasChild(o)
          THEN stopWorld({o})
          ELSE Fail(o) /\ UNCHANGED told
    /\ UNCHANGED <<worlds, launches, port, players, paper, doneLine, phase>>

\* /internal/presence: n players are connected now (see module Presence).
PresenceUpdate(w, n) ==
    /\ phase # "exited"
    /\ IsRegistered(w)
    /\ players' = [players EXCEPT ![Current(w)] = n]
    /\ UNCHANGED <<worlds, launches, port, status, paper, doneLine, told, phase>>

\* /internal/stop: stop the process; without one, forget the world.
StopRequest(w) ==
    /\ phase # "exited"
    /\ IsRegistered(w)
    /\ LET o == Current(w) IN
       /\ paper[o] = "preparing" => StopsUnspawned
       /\ IF HasChild(o)
          THEN stopWorld({o}) /\ UNCHANGED worlds
          ELSE /\ worlds' = [worlds EXCEPT ![w] = 0]
               /\ UNCHANGED <<status, told>>
    /\ UNCHANGED <<launches, port, players, paper, doneLine, phase>>

-----------------------------------------------------------------------------
(* The asynchronous half of spawnWorld.                                    *)

\* The jar and the world directory are ready and Java is spawned, whatever
\* happened to the object meanwhile.
SpawnPaper(o) ==
    /\ phase # "exited"
    /\ paper[o] = "preparing"
    /\ paper' = [paper EXCEPT ![o] = "booting"]
    /\ UNCHANGED <<worlds, launches, port, status, players, doneLine, told, phase>>

\* A preparation whose rejection nobody catches.
PreparationFailsUnseen(o) ==
    /\ phase # "exited"
    /\ paper[o] = "preparing"
    /\ paper' = [paper EXCEPT ![o] = "aborted"]
    /\ UNCHANGED <<worlds, launches, port, status, players, doneLine, told, phase>>

\* The download, the version check or a file operation throws.
PreparationFails(o) ==
    /\ phase # "exited"
    /\ paper[o] = "preparing"
    /\ paper' = [paper EXCEPT ![o] = "aborted"]
    /\ Fail(o)
    /\ UNCHANGED <<worlds, launches, port, players, doneLine, told, phase>>

\* spawn() returns a handle whose 'error' event follows at once.
SpawnFails(o) ==
    /\ phase # "exited"
    /\ SpawnErrors
    /\ paper[o] = "preparing"
    /\ paper' = [paper EXCEPT ![o] = "absent"]
    /\ Fail(o)
    /\ UNCHANGED <<worlds, launches, port, players, doneLine, told, phase>>

\* onData: the Done line makes the object ready, whatever it was.
ReadDone(o) ==
    /\ phase # "exited"
    /\ doneLine[o]
    /\ doneLine' = [doneLine EXCEPT ![o] = FALSE]
    /\ status' = [status EXCEPT ![o] = "ready"]
    /\ UNCHANGED <<worlds, launches, port, players, paper, told, phase>>

\* An exit handler that only expects processes it stopped.
ExitEventOnlyIfStopping(o) ==
    /\ phase # "exited"
    /\ paper[o] = "dead"
    /\ doneLine[o] => LateOutput
    /\ paper' = [paper EXCEPT ![o] = "gone"]
    /\ IF status[o] = "stopping"
       THEN /\ status' = [status EXCEPT ![o] = "stopped"]
            /\ worlds' = [worlds EXCEPT ![o[1]] = 0]
       ELSE UNCHANGED <<status, worlds>>
    /\ UNCHANGED <<launches, port, players, doneLine, told, phase>>

\* The 'exit' event.  A process that never became ready leaves its error in
\* the map; any other frees the world's entry, whichever object is there.
ExitEvent(o) ==
    /\ phase # "exited"
    /\ paper[o] = "dead"
    /\ doneLine[o] => LateOutput
    /\ paper' = [paper EXCEPT ![o] = "gone"]
    /\ IF status[o] \in {"starting", "error"}
       THEN Fail(o) /\ UNCHANGED worlds
       ELSE /\ status' = [status EXCEPT ![o] = "stopped"]
            /\ worlds' = [worlds EXCEPT ![o[1]] = 0]
    /\ UNCHANGED <<launches, port, players, doneLine, told, phase>>

-----------------------------------------------------------------------------
(* Timers.                                                                 *)

\* A stopWorld without its timer.
StopTimerForgotten(o) == HasChild(o) /\ told[o] = "save" /\ UNCHANGED vars

\* 1.5 seconds after stopWorld, `stop' follows `save-all flush'.
StopTimer(o) ==
    /\ phase # "exited"
    /\ HasChild(o)
    /\ told[o] = "save"
    /\ told' = [told EXCEPT ![o] = "stop"]
    /\ UNCHANGED <<worlds, launches, port, status, players, paper, doneLine, phase>>

\* A sweep that looks for a status no world has.
IsIdleRunning(o) == status[o] = "running" /\ players[o] = 0

\* The sweep's condition, apart from the time since lastEmptyAt.
IsIdle(o) == status[o] = "ready" /\ players[o] = 0

\* Every 30 seconds: stop all the worlds that were idle for long enough.
IdleSweep ==
    /\ phase # "exited"
    /\ \E S \in SUBSET {o \in Registered : IsIdle(o) /\ HasChild(o)} :
          S # {} /\ stopWorld(S)
    /\ UNCHANGED <<worlds, launches, port, players, paper, doneLine, phase>>

-----------------------------------------------------------------------------
(* The Paper process.                                                      *)

PaperBoots(o) ==
    /\ phase # "exited"
    /\ paper[o] = "booting"
    /\ paper' = [paper EXCEPT ![o] = "serving"]
    /\ doneLine' = [doneLine EXCEPT ![o] = TRUE]
    /\ UNCHANGED <<worlds, launches, port, status, players, told, phase>>

\* It obeys `stop', crashes, or is killed (/internal/test/kill-world).
PaperEnds(o) ==
    /\ phase # "exited"
    /\ Alive(o)
    /\ paper' = [paper EXCEPT ![o] = "dead"]
    /\ UNCHANGED <<worlds, launches, port, status, players, doneLine, told, phase>>

-----------------------------------------------------------------------------
(* gracefulShutdown.                                                       *)

\* SIGTERM: stop every registered world, and exit at once if none has a
\* process.  Otherwise requests already accepted are still answered, and
\* preparations go on, while the worlds stop.
ShutdownBegins ==
    /\ phase = "serving"
    /\ phase' = IF \E o \in Registered : HasChild(o)
                THEN "draining" ELSE "exited"
    /\ stopWorld(Registered)
    /\ UNCHANGED <<worlds, launches, port, players, paper, doneLine>>

\* A deadline that exits without a signal.
ShutdownEndsSilently ==
    /\ phase = "draining"
    /\ phase' = "exited"
    /\ UNCHANGED <<worlds, launches, port, status, players, paper, doneLine, told>>

\* No registered world has a process left, or 45 seconds are over: whatever
\* is still registered gets SIGTERM, and the orchestrator exits.
ShutdownEnds ==
    /\ phase = "draining"
    /\ phase' = "exited"
    /\ told' = [o \in Objects |->
                  IF o \in Registered /\ HasChild(o) /\ told[o] = "nothing"
                  THEN "term" ELSE told[o]]
    /\ UNCHANGED <<worlds, launches, port, status, players, paper, doneLine>>

-----------------------------------------------------------------------------
Request(w) ==
    \/ EnsureStart(w)
    \/ EnsureTimeout(w)
    \/ \E n \in 0 .. MaxPlayers : PresenceUpdate(w, n)
    \/ StopRequest(w)

Launching(o) == SpawnPaper(o) \/ PreparationFails(o) \/ SpawnFails(o)

Event(o) ==
    \/ Launching(o)
    \/ ReadDone(o)
    \/ ExitEvent(o)
    \/ StopTimer(o)
    \/ PaperBoots(o)
    \/ PaperEnds(o)

Next ==
    \/ \E w \in Worlds : Request(w)
    \/ \E o \in Objects : Event(o)
    \/ IdleSweep
    \/ ShutdownBegins
    \/ ShutdownEnds

Spec == Init /\ [][Next]_vars

(* Timers fire and events are delivered; a preparation ends (it downloads  *)
(* and copies files); a starting Paper either reports Done or exits; one   *)
(* that read `stop' exits.  Nobody is obliged to ask for anything.       *)
FairSpec ==
    /\ Spec
    /\ WF_vars(IdleSweep)
    /\ \A o \in Objects :
          /\ WF_vars(Launching(o))
          /\ WF_vars(paper[o] = "booting" /\ (PaperBoots(o) \/ PaperEnds(o)))
          /\ WF_vars(ReadDone(o))
          /\ WF_vars(ExitEvent(o))
          /\ WF_vars(StopTimer(o))
          /\ WF_vars(told[o] = "stop" /\ PaperEnds(o))

-----------------------------------------------------------------------------
(* One Paper process per world: two on the same directory corrupt it.      *)
OneProcessPerWorld ==
    \A o1, o2 \in Objects :
        Alive(o1) /\ Alive(o2) /\ o1[1] = o2[1] => o1 = o2

(* The machine never runs more Paper processes than MAX_ACTIVE_WORLDS, its *)
(* memory budget, counting those that are still stopping.                  *)
LiveBounded == Cardinality({o \in Objects : Alive(o)}) <= MaxActive

(* When the orchestrator exits and its container dies with it, no process  *)
(* is running that was told neither over its console nor by a signal.      *)
ExitAccountsForAll ==
    phase = "exited" => \A o \in Objects : Alive(o) => told[o] # "nothing"

(* The check at the head of spawnWorld keeps worlds.size within bounds ... *)
RegistryBounded == Cardinality({w \in Worlds : IsRegistered(w)}) <= MaxActive

(* ... so a launch it lets through always finds a port: portFor's `No free *)
(* HEM world ports' cannot be thrown in a configuration that started up.   *)
PortAlwaysFree ==
    \A w \in Worlds : MaySpawn(w) => Ports \ activePorts # {}

(* Two Papers that run have a port each.  The code does not see to it: a   *)
(* world in preparation has been given a port and has no child yet, so the *)
(* search of the next launch finds that port free.                         *)
PortsDistinct ==
    \A o1, o2 \in Objects :
        Alive(o1) /\ Alive(o2) /\ o1 # o2 => port[o1] # port[o2]

(* A world that ensure reports as ready has a Paper process that came up,  *)
(* and whose exit, if it died, is still to be noticed.                     *)
ReadyHasProcess ==
    \A o \in Registered :
        status[o] = "ready" => paper[o] \in {"serving", "dead"}

Exited == phase = "exited"

(* A launch never blocks its world: it does not stay in `starting' forever *)
(* but becomes ready, fails or is stopped, and a failed one may be retried *)
(* in the end.                                                             *)
LaunchSettles ==
    \A o \in Objects :
        /\ (o \in Registered /\ status[o] = "starting")
              ~> (o \notin Registered \/ status[o] # "starting" \/ Exited)
        /\ (o \in Registered /\ status[o] = "error")
              ~> (o \notin Registered \/ status[o] # "error" \/ Retryable(o) \/ Exited)

(* A process that was asked to stop ends and its object hears of it.       *)
StopCompletes ==
    \A o \in Objects :
        (status[o] = "stopping" /\ Alive(o)) ~> (paper[o] = "gone" \/ Exited)

(* A ready world without players is stopped, unless players come.          *)
IdleWorldStops ==
    \A o \in Objects :
        (o \in Registered /\ status[o] = "ready" /\ players[o] = 0)
            ~> (o \notin Registered \/ players[o] > 0 \/ Exited)
=============================================================================
