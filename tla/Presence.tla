------------------------------ MODULE Presence ------------------------------
(***************************************************************************)
(* Who the orchestrator believes is playing in one world.                  *)
(*                                                                         *)
(* HEMGate, inside the world's Paper process, numbers the physical         *)
(* connections of every player and posts a notification to the            *)
(* orchestrator when a connection is authorized and when an authorized one *)
(* quits.  Each post is an independent asynchronous HTTP request whose     *)
(* failure is swallowed, so notifications overtake one another and may be  *)
(* lost; the orchestrator orders them by (generation, at).                 *)
(***************************************************************************)
EXTENDS Integers, FiniteSets

CONSTANTS
    Players,        \* the HEM usernames that may join this world
    MaxGeneration,  \* bound: connections of one player to one Paper process
    MaxStamp,       \* bound: the largest reading of the system clock
    MaxRuns,        \* bound: Paper processes started for the world
    ClockSteps,     \* by how much currentTimeMillis may move between two posts
                    \* about one connection
    Lossy,          \* TRUE iff a post may fail
    Overlap,        \* TRUE iff a connection may join before the one it replaces has
                    \* quit, as VERIFICATION.md:108 reports of Paper
    PromptRelaunch  \* TRUE iff a world may be launched again while posts of its
                    \* previous process are unanswered

ASSUME BoundsAssumption ==
    MaxGeneration \in Nat /\ MaxStamp \in Nat /\ MaxRuns \in Nat \ {0}
ASSUME ClockAssumption == ClockSteps \subseteq Int
ASSUME SwitchAssumption ==
    Lossy \in BOOLEAN /\ Overlap \in BOOLEAN /\ PromptRelaunch \in BOOLEAN

Generation == 1 .. MaxGeneration

\* A physical connection: a Player object.
Connections == Players \X Generation

Notification == [player : Players, generation : Generation,
                 connected : BOOLEAN, at : Nat]
Entry == [generation : Nat, connected : BOOLEAN, at : Nat]

\* An absent map entry: older than every notification the handler accepts.
NoEntry == [generation |-> 0, connected |-> FALSE, at |-> 0]

VARIABLES
    conn,           \* HEMGate: which connections are online, and locked or not
    lastGeneration, \* HEMGate: lastGenerationByPlayer
    stamp,          \* the clock's reading at the connection's latest post, counted
                    \* from its join: only stamps of one connection are compared
    inFlight,       \* posts sent and not yet answered
    lost,           \* history: posts of this process that failed
    running,        \* the Paper process runs and the world is registered
    runs,           \* how many Paper processes were started
    presenceClock,  \* orchestrator: presenceClock.get(worldId)
    players         \* orchestrator: state.players

vars == <<conn, lastGeneration, stamp, inFlight, lost, running, runs,
          presenceClock, players>>

\* Every variable keeps to its range; the count never exceeds the players.
TypeOK ==
    /\ conn \in [Connections -> {"none", "locked", "authenticated"}]
    /\ lastGeneration \in [Players -> 0 .. MaxGeneration]
    /\ stamp \in [Connections -> Nat]
    /\ inFlight \subseteq Notification
    /\ lost \subseteq Notification
    /\ running \in BOOLEAN
    /\ runs \in 1 .. MaxRuns
    /\ presenceClock \in [Players -> Entry]
    /\ players \in 0 .. Cardinality(Players)

Init ==
    /\ conn = [c \in Connections |-> "none"]
    /\ lastGeneration = [p \in Players |-> 0]
    /\ stamp = [c \in Connections |-> 0]
    /\ inFlight = {}
    /\ lost = {}
    /\ running = TRUE
    /\ runs = 1
    /\ presenceClock = [p \in Players |-> NoEntry]
    /\ players = 0

-----------------------------------------------------------------------------
(* HEMGate: the plugin in the Paper process.                               *)

\* postPresence: stamp the event with the clock and the connection's generation
\* and send it on its own.
PostPresence(c, connected) ==
    \E step \in ClockSteps :
        LET at == stamp[c] + step IN
        /\ at \in 1 .. MaxStamp
        /\ stamp' = [stamp EXCEPT ![c] = at]
        /\ inFlight' = inFlight \cup
              {[player |-> c[1], generation |-> c[2],
                connected |-> connected, at |-> at]}

Online(p) == {c \in Connections : c[1] = p /\ conn[c] # "none"}

\* onJoin: a new physical connection gets the player's next generation.
Join(p) ==
    LET c == <<p, lastGeneration[p] + 1>> IN
    /\ running
    /\ c \in Connections
    /\ Overlap \/ Online(p) = {}
    /\ conn' = [conn EXCEPT ![c] = "locked"]
    /\ lastGeneration' = [lastGeneration EXCEPT ![p] = c[2]]
    /\ UNCHANGED <<stamp, inFlight, lost, running, runs, presenceClock, players>>

\* completeAuthorization: runs once per accepted token, so a player who sent
\* two /hem commands while locked is announced twice.
Authorize(c) ==
    /\ conn[c] # "none"
    /\ conn' = [conn EXCEPT ![c] = "authenticated"]
    /\ PostPresence(c, TRUE)
    /\ UNCHANGED <<lastGeneration, lost, running, runs, presenceClock, players>>

\* A Quit that posts nothing.
QuitSilently(c) ==
    /\ conn[c] = "authenticated"
    /\ conn' = [conn EXCEPT ![c] = "none"]
    /\ UNCHANGED <<lastGeneration, stamp, inFlight, lost, running, runs,
                   presenceClock, players>>

\* onQuit of an authorized connection announces its departure ...
Quit(c) ==
    /\ conn[c] = "authenticated"
    /\ conn' = [conn EXCEPT ![c] = "none"]
    /\ PostPresence(c, FALSE)
    /\ UNCHANGED <<lastGeneration, lost, running, runs, presenceClock, players>>

\* ... onQuit (or the authorization kick) of a locked one does not.
QuitLocked(c) ==
    /\ conn[c] = "locked"
    /\ conn' = [conn EXCEPT ![c] = "none"]
    /\ UNCHANGED <<lastGeneration, stamp, inFlight, lost, running, runs,
                   presenceClock, players>>

-----------------------------------------------------------------------------
(* The orchestrator.                                                       *)

\* The comparison by time alone, as before generations were introduced.
NewerByTime(a, b) == a.at > b.at

\* The comparison by connection alone.
NewerByGeneration(a, b) == a.generation > b.generation

\* The comparison of presence.mjs, by connection first, by time within one.
Newer(a, b) ==
    \/ a.generation > b.generation
    \/ a.generation = b.generation /\ a.at > b.at

\* applyPresenceUpdate: what the player's entry becomes.
Updated(previous, m) ==
    IF Newer(previous, m)
    THEN previous
    ELSE [generation |-> m.generation, connected |-> m.connected, at |-> m.at]

countConnected(clock) == Cardinality({p \in Players : clock[p].connected})

\* POST /internal/presence: 404 (the post is dropped) while no state is
\* registered for the world.
Deliver(m) ==
    /\ m \in inFlight
    /\ inFlight' = inFlight \ {m}
    /\ IF running
       THEN /\ presenceClock' =
                  [presenceClock EXCEPT ![m.player] = Updated(@, m)]
            /\ players' = countConnected(presenceClock')
       ELSE UNCHANGED <<presenceClock, players>>
    /\ UNCHANGED <<conn, lastGeneration, stamp, lost, running, runs>>

\* sendAsync fails or times out; exceptionally(ex -> null) forgets it.
Lose(m) ==
    /\ Lossy
    /\ m \in inFlight
    /\ inFlight' = inFlight \ {m}
    /\ lost' = lost \cup {m}
    /\ UNCHANGED <<conn, lastGeneration, stamp, running, runs, presenceClock,
                   players>>

\* The Paper process ends (stop or crash): the plugin's maps die with it and
\* the exit handler drops the world's clock and state.
ProcessExit ==
    /\ running
    /\ running' = FALSE
    /\ conn' = [c \in Connections |-> "none"]
    /\ lastGeneration' = [p \in Players |-> 0]
    /\ presenceClock' = [p \in Players |-> NoEntry]
    /\ players' = 0
    /\ stamp' = [c \in Connections |-> 0]
    /\ UNCHANGED <<inFlight, lost, runs>>

\* The next launch registers a fresh state and starts a fresh process.
Relaunch ==
    /\ ~running
    /\ runs < MaxRuns
    /\ PromptRelaunch \/ inFlight = {}
    /\ running' = TRUE
    /\ runs' = runs + 1
    /\ lost' = {}
    /\ UNCHANGED <<conn, lastGeneration, stamp, inFlight, presenceClock, players>>

-----------------------------------------------------------------------------
GateStep(c) == Authorize(c) \/ Quit(c) \/ QuitLocked(c)

Next ==
    \/ \E p \in Players : Join(p)
    \/ \E c \in Connections : GateStep(c)
    \/ \E m \in inFlight : Deliver(m)
    \/ \E m \in inFlight : Lose(m)
    \/ ProcessExit
    \/ Relaunch

Spec == Init /\ [][Next]_vars

\* Every request ends within its 3 second timeout: delivered or failed.
FairSpec ==
    /\ Spec
    /\ \A m \in [player : Players, generation : Generation,
                 connected : BOOLEAN, at : 1 .. MaxStamp] :
          WF_vars(Deliver(m) \/ Lose(m))

-----------------------------------------------------------------------------
Announced(c) == conn[c] = "authenticated"
Authenticated == {p \in Players : \E c \in Connections : c[1] = p /\ Announced(c)}
Counted == {p \in Players : presenceClock[p].connected}
Unheard == inFlight \cup lost

\* No connection of the player after c has been announced, as far as anybody can
\* still tell.
IsNewest(c) ==
    /\ presenceClock[c[1]].generation <= c[2]
    /\ \A m \in Unheard : m.player = c[1] => m.generation <= c[2]

(* The orchestrator's picture is wrong about a player only while the post  *)
(* that would correct it is on its way or was lost, although connections   *)
(* of one player overlap.  A player who is counted for a connection that   *)
(* has quit has a newer, unheard departure: no late or early post of       *)
(* another connection leaves a ghost.                                      *)
NoGhost ==
    \A p \in Players :
        p \in Counted /\ ~Announced(<<p, presenceClock[p].generation>>) =>
            \E m \in Unheard :
                /\ m.player = p
                /\ ~m.connected
                /\ Newer(m, presenceClock[p])

(* And a player whose newest announced connection is there, but who is not *)
(* counted, has a newer, unheard arrival: the departure of the connection  *)
(* it replaced does not erase it.                                          *)
NoMissed ==
    \A c \in Connections :
        Announced(c) /\ IsNewest(c) /\ c[1] \notin Counted =>
            \E m \in Unheard :
                /\ m.player = c[1]
                /\ m.connected
                /\ Newer(m, presenceClock[c[1]])

\* No connection has outlived the one that replaced it.
OnlyNewest ==
    \A c \in Connections : conn[c] # "none" => c[2] = lastGeneration[c[1]]

(* Once every notification arrived, in whatever order, state.players is    *)
(* the number of players HEMGate has authorized: the number the idle       *)
(* timer, and so the life of the Paper process, depends on.  A connection  *)
(* that outlives the one that replaced it is the exception: its player is  *)
(* not counted, although every post was heard.                             *)
QuiescentExact ==
    Unheard = {} /\ OnlyNewest => players = Cardinality(Authenticated)

(* The orchestrator is wrong about a player only while the notification    *)
(* that will correct it is still to come, however many reordered ones came *)
(* before, and right about their number when none is.  This is what the    *)
(* comparison of generations and times is for.                             *)
CountExplained == NoGhost /\ NoMissed /\ QuiescentExact

(* A player who left stops counting as present, unless they come back or   *)
(* the post of their departure was lost: a world nobody is in becomes      *)
(* idle.  A lost departure is not repeated and counts until the player     *)
(* comes back or the process ends (docs/ARCHITECTURE.md:52).               *)
DepartureNoticed ==
    \A p \in Players :
        (p \in Counted /\ p \notin Authenticated)
            ~> \/ p \notin Counted \/ p \in Authenticated
               \/ \E m \in lost : m.player = p /\ ~m.connected
=============================================================================
