---------------------------- MODULE BrowserProofs ----------------------------
(***************************************************************************)
(* What a browser tab guarantees, for any number of clients, launches and  *)
(* reloads.  The bridge script: a connection is authorized once, a launch  *)
(* token is presented once, and no lease outlives the launch that replaced *)
(* it.  The sockets of its tunnels: a write is called back once and truly, *)
(* and a destroyed socket holds nothing, but for what the socket's user    *)
(* does after the destruction and for callbacks that throw.                *)
(***************************************************************************)
EXTENDS Generations, NetSocket, SequenceTheorems, TLAPS

(* The type invariant, in the parts that different steps disturb.          *)

Counted ==
    /\ launches \in 0 .. MaxLaunches /\ pages \in 0 .. MaxPages
    /\ hash \in 0 .. launches /\ token \in 0 .. launches
    /\ consumed \in BOOLEAN /\ ticking \in BOOLEAN /\ entity \in BOOLEAN
    /\ storage \in [lease : 0 .. launches, id : Nat]
    /\ born \in 0 .. MaxClients /\ base \in 0 .. born
    /\ tunnel \in [Client -> {"open", "closed"}]
    /\ down \subseteq Client

\* A generation that failed had been authorized, and it is over.
Sound(g) ==
    /\ g \in Generation
    /\ g.authorization.failed => g.authorization.attempted /\ g.ended

Attachments ==
    /\ nextId \in Nat \ {0}
    /\ active \in Attached \cup {None}
    /\ generation \in [Client -> Generation \cup {<<>>}]
    /\ Attached \subseteq base + 1 .. born
    /\ \A c \in Attached : Sound(generation[c])

Published ==
    /\ parity \in [connected : BOOLEAN, stored : BOOLEAN, authorization : Authorization]
    /\ ParityIsActive

Remembered ==
    /\ command \in [Client -> Seq({"launch", "resume"} \X Launch)]
    /\ ids \in [Client -> Nat]
    /\ IdsGrow

(* What the type invariant and the properties rest on.                     *)

\* A token comes from the latest launch.
TokensAreNew == hash \in {0, launches} /\ token \in {0, launches}

\* The id in sessionStorage is the latest one given away; a client that has yet
\* to appear has none.
IdsAreStored ==
    /\ nextId = storage.id + 1
    /\ \A c \in Client : ids[c] <= storage.id /\ (ids[c] # 0 => c <= born)

\* A connection that was sent a command is attached and marked, or belongs to an
\* earlier page.
AttemptsAreKnown ==
    \A c \in Client :
        command[c] # <<>> =>
            /\ Len(command[c]) = 1
            /\ c <= born
            /\ c > base => c \in Attached /\ generation[c].authorization.attempted

\* A launch token that was sent is in the URL no more, and the page that had it
\* knows; a lease of an earlier launch is gone from sessionStorage.
Launched(c) == command[c] # <<>> /\ command[c][1][1] = "launch"

LaunchesAreOver ==
    \A c \in Client :
        Launched(c) =>
            /\ command[c][1][2] <= launches
            /\ hash # command[c][1][2]
            /\ token = command[c][1][2] => consumed
            /\ c \in Attached => command[c][1][2] = launches
            /\ storage.lease # 0 => storage.lease >= command[c][1][2]

LaunchesDiffer ==
    \A c, d \in Client :
        Launched(c) /\ Launched(d) /\ command[c][1][2] = command[d][1][2] => c = d

BridgeInv ==
    /\ Counted /\ Attachments /\ Published /\ Remembered
    /\ TokensAreNew /\ IdsAreStored /\ AttemptsAreKnown
    /\ LaunchesAreOver /\ LaunchesDiffer /\ ResumeFollowsLaunch

-----------------------------------------------------------------------------
(* Generations.                                                            *)

LEMMA GenerationIsNotEmpty == \A g \in Generation : g # <<>>
BY DEF Generation

LEMMA SoundEnd ==
    ASSUME NEW g, Sound(g)
    PROVE  /\ Sound(EndGeneration(g))
           /\ EndGeneration(g).authorization = g.authorization
BY DEF Sound, EndGeneration, Generation, Authorization

LEMMA SoundOver ==
    ASSUME NEW g, Sound(g)
    PROVE  /\ Sound(Over(g))
           /\ Over(g).authorization.attempted = g.authorization.attempted
BY DEF Sound, Over, EndGeneration, Generation, Authorization

LEMMA SoundAuthenticated ==
    ASSUME NEW g, Sound(g)
    PROVE  /\ Sound(Authenticated(g))
           /\ Authenticated(g).authorization.attempted = g.authorization.attempted
BY DEF Sound, Authenticated, Generation, Authorization

LEMMA SoundConnected ==
    ASSUME NEW g, Sound(g)
    PROVE  /\ Sound([g EXCEPT !.connected = TRUE])
           /\ [g EXCEPT !.connected = TRUE].authorization = g.authorization
BY DEF Sound, Generation, Authorization

LEMMA SoundBegin == Sound(Begin) /\ ~Begin.authorization.attempted
BY DEF Sound, Begin, Unauthorized, Generation, Authorization

LEMMA SoundAttempt ==
    ASSUME NEW g, Sound(g), NEW how \in {"", "launch", "resume"}
    PROVE  /\ Sound(Attempt(g, how))
           /\ how = "" => Attempt(g, how) = g
           /\ how # "" => Attempt(g, how).authorization.attempted
BY DEF Sound, Attempt, Unauthorized, Generation, Authorization

LEMMA BridgeInit == Init => BridgeInv
<1> SUFFICES ASSUME Init PROVE BridgeInv
  OBVIOUS
<1>1. Counted
  <2>1. 0 \in 0 .. MaxLaunches /\ 0 \in 0 .. MaxPages /\ 0 \in 0 .. MaxClients /\ 0 \in 0 .. 0
    BY BoundsAssumption
  <2>2. /\ [lease |-> 0, id |-> 0] \in [lease : 0 .. 0, id : Nat]
        /\ [c \in Client |-> "open"] \in [Client -> {"open", "closed"}]
    BY <2>1
  <2>3. /\ launches \in 0 .. MaxLaunches /\ pages \in 0 .. MaxPages
        /\ hash \in 0 .. launches /\ token \in 0 .. launches
        /\ born \in 0 .. MaxClients /\ base \in 0 .. born
    BY <2>1 DEF Init
  <2>4. /\ storage \in [lease : 0 .. launches, id : Nat]
        /\ tunnel \in [Client -> {"open", "closed"}]
    BY <2>2 DEF Init
  <2> QED
    BY <2>3, <2>4 DEF Init, Counted
<1>2. /\ generation = [c \in Client |-> <<>>]
      /\ Attached = {}
  BY DEF Init, Attached
<1>3. Attachments
  <2>1. generation \in [Client -> Generation \cup {<<>>}]
    BY <1>2
  <2> QED
    BY <1>2, <2>1 DEF Init, Attachments
<1>4. Published
  <2>1. Unauthorized \in Authorization
    BY DEF Unauthorized, Authorization
  <2>2. FreshParity \in [connected : BOOLEAN, stored : BOOLEAN,
                         authorization : Authorization]
    BY <2>1 DEF FreshParity
  <2> QED
    BY <2>2 DEF Init, Published, ParityIsActive
<1>5. \A c \in Client : command[c] = <<>> /\ ids[c] = 0
  BY DEF Init
<1>6. Remembered
  <2>1. <<>> \in Seq({"launch", "resume"} \X Launch)
    OBVIOUS
  <2> QED
    BY <1>5, <2>1 DEF Init, Remembered, IdsGrow
<1>7. TokensAreNew /\ IdsAreStored
  BY <1>5 DEF Init, TokensAreNew, IdsAreStored
<1> QED
  BY <1>1, <1>3, <1>4, <1>5, <1>6, <1>7
     DEF BridgeInv, AttemptsAreKnown, LaunchesAreOver, LaunchesDiffer, Launched,
         ResumeFollowsLaunch

-----------------------------------------------------------------------------
(* Events of the page.                                                     *)

\* An event that leaves the script alone: a new client, an entity, a closing.
LEMMA OutsideStep ==
    ASSUME BridgeInv, Counted', born <= born',
           UNCHANGED <<url, token, consumed, base, storage, connection, parity,
                       command, ids>>
    PROVE  BridgeInv'
<1> USE DEF BridgeInv
<1>1. /\ born \in Nat /\ born' \in Nat /\ base \in Nat
      /\ base + 1 .. born \subseteq base + 1 .. born'
      /\ \A c \in Client : c <= born => c <= born'
  BY BoundsAssumption DEF Counted, Client
<1>2. Attached' = Attached
  BY DEF Attached, connection
<1>3. Attachments'
  BY <1>1, <1>2 DEF Attachments, connection
<1>4. Published' /\ Remembered'
  BY DEF Published, ParityIsActive, Remembered, IdsGrow, connection
<1>5. TokensAreNew' /\ IdsAreStored'
  BY <1>1 DEF TokensAreNew, IdsAreStored, url, connection
<1>6. AttemptsAreKnown'
  BY <1>1, <1>2 DEF AttemptsAreKnown, connection
<1>7. LaunchesAreOver' /\ LaunchesDiffer' /\ ResumeFollowsLaunch'
  BY <1>2 DEF LaunchesAreOver, LaunchesDiffer, Launched, ResumeFollowsLaunch, url,
              connection
<1> QED
  BY <1>3, <1>4, <1>5, <1>6, <1>7

\* An event of one client: its generation becomes g, which is mirrored if it is
\* the active one; a lease that arrives is the latest launch's.
LEMMA GenerationStep ==
    ASSUME BridgeInv, Counted', NEW c \in Attached, NEW g, Sound(g),
           g.authorization.attempted = generation[c].authorization.attempted,
           generation' = [generation EXCEPT ![c] = g],
           parity' \in [connected : BOOLEAN, stored : BOOLEAN,
                        authorization : Authorization],
           parity'.connected = Mirror(c, g).connected,
           parity'.authorization = Mirror(c, g).authorization,
           storage'.id = storage.id,
           storage'.lease \in {storage.lease, launches},
           UNCHANGED <<url, token, consumed, base, born, nextId, active, command, ids>>
    PROVE  BridgeInv'
<1> USE DEF BridgeInv
<1>1. /\ c \in Client /\ g \in Generation /\ g # <<>>
      /\ parity \in [connected : BOOLEAN, stored : BOOLEAN,
                     authorization : Authorization]
  BY GenerationIsNotEmpty DEF Attached, Sound, Published
<1>2. /\ generation'[c] = g
      /\ \A d \in Client : d # c => generation'[d] = generation[d]
      /\ generation' \in [Client -> Generation \cup {<<>>}]
  BY <1>1 DEF Attachments
<1>3. Attached' = Attached
  BY <1>1, <1>2 DEF Attached
<1>4. Attachments'
  BY <1>2, <1>3 DEF Attachments, Attached
<1>5. Published'
  <2>1. CASE c = active
    <3>1. Mirror(c, g).connected = g.connected
          /\ Mirror(c, g).authorization = g.authorization
      BY <1>1, <2>1 DEF Mirror
    <3> QED
      BY <1>2, <2>1, <3>1 DEF Published, ParityIsActive
  <2>2. CASE c # active
    <3>1. Mirror(c, g) = parity
      BY <2>2 DEF Mirror
    <3>2. active # None => active \in Client
      BY DEF Attachments, Attached
    <3> QED
      BY <1>2, <2>2, <3>1, <3>2 DEF Published, ParityIsActive
  <2> QED
    BY <2>1, <2>2
<1>6. Remembered'
  BY DEF Remembered, IdsGrow
<1>7. TokensAreNew' /\ IdsAreStored'
  BY DEF TokensAreNew, IdsAreStored, url
<1>8. AttemptsAreKnown'
  BY <1>2, <1>3 DEF AttemptsAreKnown
<1>9. LaunchesAreOver'
  <2>1. ASSUME NEW d \in Client, Launched(d)
        PROVE  /\ command[d][1][2] <= launches
               /\ hash # command[d][1][2]
               /\ token = command[d][1][2] => consumed
               /\ d \in Attached => command[d][1][2] = launches
               /\ storage'.lease # 0 => storage'.lease >= command[d][1][2]
    BY <2>1 DEF LaunchesAreOver
  <2> QED
    BY <1>3, <2>1 DEF LaunchesAreOver, Launched, url
<1>10. LaunchesDiffer' /\ ResumeFollowsLaunch'
  BY DEF LaunchesDiffer, Launched, ResumeFollowsLaunch
<1> QED
  BY <1>4, <1>5, <1>6, <1>7, <1>8, <1>9, <1>10

\* The lease a client may be sent is that of the launch it was authorized with.
LEMMA ClientStep ==
    ASSUME BridgeInv, NEW c \in Client,
           \/ Spawn(c) \/ Connected(c) \/ Resumed(c) \/ LeasePacket(c)
           \/ Kicked(c) \/ SyncRawTransport(c)
    PROVE  BridgeInv'
<1>1. c \in Attached
  BY DEF Spawn, Connected, Resumed, LeasePacket, Kicked, SyncRawTransport, Hears
<1>2. Sound(generation[c]) /\ Counted /\ LaunchesAreOver
  BY <1>1 DEF BridgeInv, Attachments
<1>3. /\ parity \in [connected : BOOLEAN, stored : BOOLEAN,
                     authorization : Authorization]
  BY DEF BridgeInv, Published
<1>4. ASSUME NEW g, Sound(g)
      PROVE  /\ Mirror(c, g) \in [connected : BOOLEAN, stored : BOOLEAN,
                                  authorization : Authorization]
             /\ \A b \in BOOLEAN :
                   LET m == [Mirror(c, g) EXCEPT !.stored = b] IN
                   /\ m \in [connected : BOOLEAN, stored : BOOLEAN,
                             authorization : Authorization]
                   /\ m.connected = Mirror(c, g).connected
                   /\ m.authorization = Mirror(c, g).authorization
  <2>1. g.connected \in BOOLEAN /\ g.authorization \in Authorization
    BY <1>4 DEF Sound, Generation
  <2>2. Mirror(c, g) \in [connected : BOOLEAN, stored : BOOLEAN,
                          authorization : Authorization]
    BY <1>3, <2>1 DEF Mirror
  <2> QED
    BY <2>2
<1>5. ASSUME NEW g, Sound(g),
             g.authorization.attempted = generation[c].authorization.attempted,
             Becomes(c, g),
             UNCHANGED <<url, script, storage, world, nextId, active, command, ids>>
      PROVE  BridgeInv'
  <2>1. Counted'
    BY <1>2, <1>5 DEF Counted, url, script, world
  <2>2. /\ generation' = [generation EXCEPT ![c] = g]
        /\ parity' = Mirror(c, g)
        /\ UNCHANGED <<url, token, consumed, base, born, nextId, active, command, ids,
                       storage>>
    BY <1>5 DEF Becomes, script, world
  <2> QED
    BY <1>1, <1>4, <1>5, <2>1, <2>2, GenerationStep
<1>6. CASE Spawn(c)
  BY <1>2, <1>5, <1>6, SoundConnected DEF Spawn
<1>7. CASE Connected(c)
  BY <1>2, <1>5, <1>7, SoundAuthenticated DEF Connected
<1>8. CASE Kicked(c)
  BY <1>2, <1>5, <1>8, SoundOver DEF Kicked
<1>9. CASE SyncRawTransport(c)
  BY <1>2, <1>5, <1>9, SoundEnd DEF SyncRawTransport
<1>10. CASE Resumed(c) \/ LeasePacket(c)
  <2> DEFINE g == Authenticated(generation[c])
  <2>1. /\ Sound(g)
        /\ g.authorization.attempted = generation[c].authorization.attempted
    BY <1>2, SoundAuthenticated
  <2>2. PICK b \in BOOLEAN : parity' = [Mirror(c, g) EXCEPT !.stored = b]
    BY <1>10 DEF Resumed, LeasePacket
  <2>3. /\ generation' = [generation EXCEPT ![c] = g]
        /\ UNCHANGED <<url, script, world, nextId, active, command, ids>>
    BY <1>10 DEF Resumed, LeasePacket
  <2> HIDE DEF g
  <2>4. /\ storage'.id = storage.id
        /\ storage'.lease \in {storage.lease, launches}
        /\ storage' \in [lease : 0 .. launches, id : Nat]
    <3>1. CASE Resumed(c)
      BY <1>2, <3>1 DEF Resumed, Counted
    <3>2. CASE LeasePacket(c)
      <4>1. command[c][1][2] = launches
        BY <1>1, <1>2, <3>2 DEF LeasePacket, LaunchesAreOver, Launched
      <4>2. storage' = [storage EXCEPT !.lease = launches]
        BY <3>2, <4>1 DEF LeasePacket
      <4>3. launches \in 0 .. launches
        BY <1>2 DEF Counted
      <4> QED
        BY <1>2, <4>2, <4>3 DEF Counted
    <3> QED
      BY <1>10, <3>1, <3>2
  <2>5. Counted'
    BY <1>2, <2>3, <2>4 DEF Counted, url, script, world
  <2>6. UNCHANGED <<url, token, consumed, base, born, nextId, active, command, ids>>
    BY <2>3 DEF script, world
  <2> QED
    BY <1>1, <1>4, <2>1, <2>2, <2>3, <2>4, <2>5, <2>6, GenerationStep
<1> QED
  BY <1>6, <1>7, <1>8, <1>9, <1>10

LEMMA ClientEndStep ==
    ASSUME BridgeInv, NEW c \in Client, ClientEnd(c)
    PROVE  BridgeInv'
<1>1. Counted
  BY DEF BridgeInv
<1>2. /\ down' = down \cup {c} /\ entity' \in {entity, FALSE}
      /\ UNCHANGED <<url, script, storage, born, base, tunnel, nextId, active,
                     command, ids>>
  BY DEF ClientEnd
<1>3. Counted'
  BY <1>1, <1>2 DEF Counted, url, script
<1>4. CASE c \in Attached
  <2> DEFINE g == Over(generation[c])
  <2>1. Sound(generation[c])
    BY <1>4 DEF BridgeInv, Attachments
  <2>2. /\ Sound(g)
        /\ g.authorization.attempted = generation[c].authorization.attempted
    BY <2>1, SoundOver
  <2>3. generation' = [generation EXCEPT ![c] = g] /\ parity' = Mirror(c, g)
    BY <1>4 DEF ClientEnd, Becomes
  <2> HIDE DEF g
  <2>4. parity' \in [connected : BOOLEAN, stored : BOOLEAN,
                     authorization : Authorization]
    BY <2>2, <2>3 DEF BridgeInv, Published, Mirror, Sound, Generation
  <2>5. UNCHANGED <<url, token, consumed, base, born, nextId, active, command, ids,
                    storage>>
    BY <1>2 DEF script
  <2> QED
    BY <1>3, <1>4, <2>2, <2>3, <2>4, <2>5, GenerationStep
<1>5. CASE c \notin Attached
  <2>1. UNCHANGED <<generation, parity>>
    BY <1>5 DEF ClientEnd
  <2>2. born <= born'
    BY <1>1, <1>2, BoundsAssumption DEF Counted
  <2> QED
    BY <1>2, <1>3, <2>1, <2>2, OutsideStep DEF connection, script
<1> QED
  BY <1>4, <1>5

\* A page that is loaded knows no client; it has the URL's token, which is a new
\* launch's or one that no connection was sent.
LEMMA LoadStep ==
    ASSUME BridgeInv, NEW h \in 0 .. MaxLaunches, Load(h)
    PROVE  BridgeInv'
<1> USE DEF BridgeInv
<1>1. /\ born \in Nat /\ base \in Nat /\ launches \in Nat /\ hash \in Nat
      /\ hash <= launches /\ pages \in Nat /\ h \in Nat
      /\ storage.id \in Nat /\ storage.lease \in 0 .. launches
      /\ launches <= MaxLaunches /\ born <= MaxClients
  BY BoundsAssumption DEF Counted
<1>2. /\ \/ h = hash /\ launches' = launches
         \/ h = launches + 1 /\ launches' = launches + 1
      /\ hash' = h /\ token' = h /\ h <= MaxLaunches
  BY <1>1 DEF Load
<1>3. Attached' = {} /\ active' = None /\ base' = born /\ nextId' = storage.id + 1
  BY DEF Load, Attached
<1>4. UNCHANGED <<storage, born, command, ids>>
  BY DEF Load
<1>5. Counted'
  <2>1. /\ launches' \in 0 .. MaxLaunches /\ launches <= launches'
        /\ hash' \in 0 .. launches' /\ token' \in 0 .. launches'
    BY <1>1, <1>2
  <2>2. pages' \in 0 .. MaxPages
    BY <1>1, BoundsAssumption DEF Load, Counted
  <2>3. storage' \in [lease : 0 .. launches', id : Nat]
    <3>1. 0 .. launches \subseteq 0 .. launches'
      BY <1>1, <2>1
    <3> QED
      BY <1>4, <3>1 DEF Counted
  <2>4. born' \in 0 .. MaxClients /\ base' \in 0 .. born'
    BY <1>1, <1>3, <1>4 DEF Counted
  <2>5. tunnel' \in [Client -> {"open", "closed"}] /\ down' \subseteq Client
    BY DEF Load
  <2>6. consumed' \in BOOLEAN /\ ticking' \in BOOLEAN /\ entity' \in BOOLEAN
    BY DEF Load
  <2> QED
    BY <2>1, <2>2, <2>3, <2>4, <2>5, <2>6 DEF Counted
<1>6. Attachments'
  <2>1. generation' \in [Client -> Generation \cup {<<>>}]
    BY DEF Load
  <2> QED
    BY <1>1, <1>3, <2>1 DEF Attachments
<1>7. Published'
  <2>1. Unauthorized \in Authorization
    BY DEF Unauthorized, Authorization
  <2>2. FreshParity \in [connected : BOOLEAN, stored : BOOLEAN,
                         authorization : Authorization]
    BY <2>1 DEF FreshParity
  <2> QED
    BY <1>3, <2>2 DEF Load, Published, ParityIsActive
<1>8. Remembered'
  BY <1>4 DEF Remembered, IdsGrow
<1>9. TokensAreNew' /\ IdsAreStored'
  BY <1>2, <1>3, <1>4 DEF TokensAreNew, IdsAreStored
<1>10. AttemptsAreKnown'
  <2>1. ASSUME NEW c \in Client, command[c] # <<>>
        PROVE  Len(command[c]) = 1 /\ c <= born /\ ~(c > born)
    BY <1>1, <2>1 DEF AttemptsAreKnown, Client
  <2> QED
    BY <1>3, <1>4, <2>1 DEF AttemptsAreKnown
<1>11. LaunchesAreOver'
  <2>1. ASSUME NEW c \in Client, Launched(c)
        PROVE  /\ command[c][1][2] <= launches'
               /\ h # command[c][1][2]
               /\ storage.lease # 0 => storage.lease >= command[c][1][2]
    <3>1. command[c] \in Seq({"launch", "resume"} \X Launch) /\ command[c] # <<>>
      BY <2>1 DEF Remembered, Launched
    <3>2. command[c][1] \in {"launch", "resume"} \X Launch
      BY <3>1
    <3>3. command[c][1][2] \in Nat
      BY <3>2, BoundsAssumption DEF Launch
    <3> DEFINE k == command[c][1][2]
    <3>4. k <= launches /\ hash # k /\ (storage.lease # 0 => storage.lease >= k)
      BY <2>1 DEF LaunchesAreOver
    <3> HIDE DEF k
    <3>5. k <= launches' /\ h # k
      BY <1>1, <1>2, <3>3, <3>4 DEF k
    <3> QED
      BY <3>4, <3>5 DEF k
  <2> QED
    BY <1>2, <1>3, <1>4, <2>1 DEF LaunchesAreOver, Launched
<1>12. LaunchesDiffer' /\ ResumeFollowsLaunch'
  BY <1>4 DEF LaunchesDiffer, Launched, ResumeFollowsLaunch
<1> QED
  BY <1>5, <1>6, <1>7, <1>8, <1>9, <1>10, <1>11, <1>12

-----------------------------------------------------------------------------
(* The 100 ms timer.                                                       *)

\* The command a connection is sent: the URL's token or the lease of sessionStorage.
Sent(how) == <<how, IF how = "launch" THEN token ELSE storage.lease>>

LEMMA FirstOfMany ==
    \A x : Append(<<>>, x) = <<x>> /\ Len(<<x>>) = 1 /\ <<x>>[1] = x
<1> TAKE x
<1>1. <<>> \in Seq({x}) /\ Append(<<>>, x) \in Seq({x}) /\ <<x>> \in Seq({x})
  OBVIOUS
<1>2. /\ Len(Append(<<>>, x)) = 1 /\ Append(<<>>, x)[1] = x
      /\ Len(<<x>>) = 1 /\ <<x>>[1] = x
  OBVIOUS
<1> QED
  BY <1>1, <1>2

\* The step of the timer that sends how and leaves the bot with generation g.
\* A connection that is sent a command has been sent none.
Ticked(how, g) ==
    /\ how \in {"", "launch", "resume"}
    /\ g \in Generation
    /\ Bot = born /\ born > base /\ Bot \in Client /\ Sound(g)
    /\ generation'[Bot] = g
    /\ generation' \in [Client -> Generation \cup {<<>>}]
    /\ \A c \in Client \ {Bot} :
          /\ c \in Attached' <=> c \in Attached
          /\ c \in Attached =>
                /\ Sound(generation'[c])
                /\ generation'[c].authorization.attempted =
                      generation[c].authorization.attempted
    /\ how # "" => command[Bot] = <<>> /\ g.authorization.attempted
    /\ how = "" /\ Bot \in Attached =>
          g.authorization.attempted = generation[Bot].authorization.attempted
    /\ how = "launch" => token # 0 /\ ~consumed
    /\ how = "resume" => storage.lease # 0
    /\ parity' = MirrorAny(Bot, g)
    /\ active' = Bot
    /\ storage'.lease = LeaseAfter(how)
    /\ consumed' = (consumed \/ how = "launch")
    /\ hash' = HashAfter(how)
    /\ command' = IF how = "" THEN command
                  ELSE [command EXCEPT ![Bot] = <<Sent(how)>>]

LEMMA TickFacts ==
    ASSUME BridgeInv, Tick
    PROVE  \E how, g : Ticked(how, g)
<1>1. /\ Bot = born /\ born > base /\ Bot \in Client /\ ticking
  <2>1. born \in 0 .. MaxClients /\ base \in 0 .. born
    BY DEF BridgeInv, Counted
  <2>2. Bot # None
    BY DEF Tick
  <2>3. born > base /\ Bot = born
    BY <2>2 DEF Bot, None
  <2>4. born \in Client
    BY <2>1, <2>3, BoundsAssumption DEF Client
  <2> QED
    BY <2>3, <2>4 DEF Tick
<1> DEFINE new == Bot \notin Attached
           g0 == IF new THEN Begin ELSE [generation[Bot] EXCEPT !.connected = TRUE]
           how == Command(g0)
           g == Attempt(g0, how)
           prior == IF new THEN EndPrior ELSE generation
<1>2. /\ Sound(g0)
      /\ g0.authorization.attempted <=>
            Bot \in Attached /\ generation[Bot].authorization.attempted
  <2>1. CASE new
    BY <2>1, SoundBegin
  <2>2. CASE ~new
    <3>1. Sound(generation[Bot])
      BY <2>2 DEF BridgeInv, Attachments
    <3> QED
      BY <2>2, <3>1, SoundConnected DEF Sound
  <2> QED
    BY <2>1, <2>2
<1>3. /\ generation' = [prior EXCEPT ![Bot] = g]
      /\ parity' = MirrorAny(Bot, g)
      /\ active' = Bot
      /\ storage' = [lease |-> LeaseAfter(how), id |-> IdAfter(new)]
      /\ consumed' = (consumed \/ how = "launch")
      /\ hash' = HashAfter(how)
      /\ command' = IF how = "" THEN command
                    ELSE [command EXCEPT ![Bot] = Append(command[Bot], Sent(how))]
  BY DEF Tick, Sent
<1>4. /\ prior \in [Client -> Generation \cup {<<>>}]
      /\ \A c \in Client :
            /\ prior[c] # <<>> <=> c \in Attached
            /\ c \in Attached =>
                  /\ Sound(prior[c])
                  /\ prior[c].authorization.attempted =
                        generation[c].authorization.attempted
  <2>1. /\ generation \in [Client -> Generation \cup {<<>>}]
        /\ \A c \in Client : c \in Attached <=> generation[c] # <<>>
        /\ \A c \in Attached : Sound(generation[c])
    BY DEF BridgeInv, Attachments, Attached
  <2>2. CASE prior = generation
    BY <2>1, <2>2
  <2>3. CASE prior # generation
    <3>1. /\ active # None
          /\ prior = [generation EXCEPT ![active] = EndGeneration(generation[active])]
      BY <2>3 DEF EndPrior
    <3>2. active \in Attached /\ active \in Client
      BY <3>1 DEF BridgeInv, Attachments, Attached
    <3> DEFINE e == EndGeneration(generation[active])
    <3>3. /\ Sound(e) /\ e \in Generation /\ e # <<>>
          /\ e.authorization = generation[active].authorization
      BY <2>1, <3>2, SoundEnd, GenerationIsNotEmpty DEF Sound
    <3> HIDE DEF e, prior
    <3>4. /\ prior \in [Client -> Generation \cup {<<>>}]
          /\ prior[active] = e
          /\ \A c \in Client \ {active} : prior[c] = generation[c]
      BY <2>1, <3>1, <3>2, <3>3 DEF e
    <3> QED
      BY <2>1, <3>2, <3>3, <3>4
  <2> QED
    BY <2>2, <2>3
<1>5. /\ how \in {"", "launch", "resume"}
      /\ how # "" => ~g0.authorization.attempted
      /\ how = "launch" => token # 0 /\ ~consumed
      /\ how = "resume" => storage.lease # 0
  BY DEF Command
<1> HIDE DEF g0, how, prior
<1>6. /\ Sound(g) /\ g \in Generation /\ g # <<>>
      /\ how = "" => g = g0
      /\ how # "" => g.authorization.attempted
  BY <1>2, <1>5, SoundAttempt, GenerationIsNotEmpty DEF Sound
<1> HIDE DEF g
<1>7. /\ generation'[Bot] = g
      /\ generation' \in [Client -> Generation \cup {<<>>}]
      /\ \A c \in Client \ {Bot} : generation'[c] = prior[c]
  BY <1>1, <1>3, <1>4, <1>6
<1>8. \A c \in Client \ {Bot} :
         /\ c \in Attached' <=> c \in Attached
         /\ c \in Attached =>
               /\ Sound(generation'[c])
               /\ generation'[c].authorization.attempted =
                     generation[c].authorization.attempted
  BY <1>4, <1>7 DEF Attached
<1>9. ASSUME how # "" PROVE command[Bot] = <<>>
  <2>1. ~(Bot \in Attached /\ generation[Bot].authorization.attempted)
    BY <1>2, <1>5, <1>9
  <2> QED
    BY <1>1, <2>1 DEF BridgeInv, AttemptsAreKnown
<1>10. command' = IF how = "" THEN command
                  ELSE [command EXCEPT ![Bot] = <<Sent(how)>>]
  <2>1. CASE how = ""
    BY <1>3, <2>1
  <2>2. CASE how # ""
    <3>1. Append(command[Bot], Sent(how)) = <<Sent(how)>>
      BY <1>9, <2>2, FirstOfMany
    <3> QED
      BY <1>3, <2>2, <3>1
  <2> QED
    BY <2>1, <2>2
<1>11. how = "" /\ Bot \in Attached =>
          g.authorization.attempted = generation[Bot].authorization.attempted
  <2> SUFFICES ASSUME how = "", Bot \in Attached
               PROVE  g.authorization.attempted = generation[Bot].authorization.attempted
    OBVIOUS
  <2>1. /\ g0.authorization.attempted \in BOOLEAN
        /\ generation[Bot].authorization.attempted \in BOOLEAN
    BY <1>2 DEF BridgeInv, Attachments, Sound, Generation, Authorization
  <2> QED
    BY <1>2, <1>6, <2>1
<1>12. storage'.lease = LeaseAfter(how)
  BY <1>3
<1>13. Ticked(how, g)
  BY <1>1, <1>3, <1>5, <1>6, <1>7, <1>8, <1>9, <1>10, <1>11, <1>12 DEF Ticked
<1> QED
  BY <1>13

\* The client gets its generation, and at most the one command.
LEMMA TickStep ==
    ASSUME BridgeInv, Tick
    PROVE  BridgeInv'
<1> USE DEF BridgeInv
<1>1. PICK how, g : Ticked(how, g)
  BY TickFacts
<1>2. Bot = born /\ born > base /\ Bot \in Client
  BY <1>1 DEF Ticked
<1>3. /\ Sound(g) /\ g \in Generation /\ generation'[Bot] = g
      /\ generation' \in [Client -> Generation \cup {<<>>}]
      /\ \A c \in Client \ {Bot} :
            /\ c \in Attached' <=> c \in Attached
            /\ c \in Attached =>
                  /\ Sound(generation'[c])
                  /\ generation'[c].authorization.attempted =
                        generation[c].authorization.attempted
  BY <1>1 DEF Sound, Ticked
<1>4. /\ how # "" => command[Bot] = <<>> /\ g.authorization.attempted
      /\ how = "" /\ Bot \in Attached =>
            g.authorization.attempted = generation[Bot].authorization.attempted
  BY <1>1 DEF Ticked
<1>5. /\ how \in {"", "launch", "resume"}
      /\ how = "launch" => token # 0
      /\ how = "resume" => storage.lease # 0
  BY <1>1 DEF Ticked
<1>6. how = "launch" => ~consumed
  BY <1>1 DEF Ticked
<1>7. parity' = MirrorAny(Bot, g) /\ active' = Bot
  BY <1>1 DEF Ticked
<1>8. consumed' = (consumed \/ how = "launch")
  BY <1>1 DEF Ticked
<1> DEFINE new == Bot \notin Attached
<1>9. /\ storage' = [lease |-> storage'.lease, id |-> IF new THEN nextId ELSE storage.id]
      /\ nextId' = IF new THEN nextId + 1 ELSE nextId
      /\ ids' = IF new THEN [ids EXCEPT ![Bot] = nextId] ELSE ids
      /\ ticking' \in BOOLEAN
      /\ UNCHANGED <<launches, pages, token, born, base, entity, tunnel, down>>
  BY DEF Tick, IdAfter, Needed, world
<1>10. /\ born \in Nat /\ base \in Nat /\ launches \in Nat /\ hash \in 0 .. launches
       /\ token \in 0 .. launches /\ storage.id \in Nat /\ storage.lease \in 0 .. launches
       /\ nextId \in Nat \ {0} /\ born \in 0 .. MaxClients /\ launches <= MaxLaunches
       /\ \A c \in Client : c \in Nat \ {0}
  <2>1. \A c \in Client : c \in Nat \ {0}
    BY BoundsAssumption DEF Client
  <2> QED
    BY <2>1, BoundsAssumption DEF Counted, Attachments
<1>11. Bot <= born /\ \A d \in Client : d > Bot => d > born /\ d # Bot
  BY <1>2, <1>10
<1>12. /\ g # <<>>
       /\ Bot \in Attached'
       /\ Attached' = Attached \cup {Bot}
  <2>1. g # <<>>
    BY <1>3, GenerationIsNotEmpty
  <2>2. Bot \in Attached'
    BY <1>2, <1>3, <2>1 DEF Attached
  <2>3. Attached \subseteq Client /\ Attached' \subseteq Client
    BY DEF Attached
  <2> QED
    BY <1>2, <1>3, <2>1, <2>2, <2>3
<1>13. /\ storage'.lease \in {storage.lease, 0} /\ hash' \in {hash, 0}
       /\ how = "launch" => storage'.lease = 0 /\ hash' = 0
  BY <1>1 DEF LeaseAfter, HashAfter, Ticked
<1>14. Counted'
  <2>1. storage' \in [lease : 0 .. launches, id : Nat]
    <3>1. storage'.lease \in 0 .. launches
      BY <1>10, <1>13
    <3> QED
      BY <1>9, <1>10, <3>1
  <2>2. hash' \in 0 .. launches
    BY <1>10, <1>13
  <2>3. consumed' \in BOOLEAN
    BY <1>8
  <2> QED
    BY <1>9, <2>1, <2>2, <2>3 DEF Counted
<1>15. Attachments'
  <2>1. nextId' \in Nat \ {0}
    BY <1>9, <1>10
  <2>2. Attached' \subseteq base' + 1 .. born'
    BY <1>2, <1>9, <1>10, <1>12 DEF Attachments
  <2>3. \A c \in Attached' : Sound(generation'[c])
    BY <1>2, <1>12, <1>3 DEF Attached
  <2> QED
    BY <1>12, <1>3, <1>7, <2>1, <2>2, <2>3 DEF Attachments
<1>16. Published'
  <2>1. parity' \in [connected : BOOLEAN, stored : BOOLEAN, authorization : Authorization]
    BY <1>3, <1>7 DEF Published, MirrorAny, Generation
  <2>2. parity'.connected = g.connected /\ parity'.authorization = g.authorization
    BY <1>7 DEF Published, MirrorAny
  <2> QED
    BY <1>3, <1>7, <2>1, <2>2 DEF Published, ParityIsActive
<1>17. /\ nextId = storage.id + 1
       /\ \A c \in Client : ids[c] \in Nat /\ ids[c] < nextId /\ (ids[c] # 0 => c <= born)
  BY <1>10 DEF IdsAreStored, Remembered
<1>18. /\ \A c \in Client \ {Bot} : ids'[c] = ids[c]
       /\ ids'[Bot] = IF new THEN nextId ELSE ids[Bot]
       /\ ids' \in [Client -> Nat]
  BY <1>2, <1>9, <1>10 DEF Remembered
<1>19. IdsGrow'
  <2> SUFFICES ASSUME NEW c \in Client, NEW d \in Client, c < d, ids'[c] # 0, ids'[d] # 0
               PROVE  ids'[c] < ids'[d]
    BY DEF IdsGrow
  <2>1. CASE c # Bot /\ d # Bot
    BY <1>18, <2>1 DEF Remembered, IdsGrow
  <2>2. CASE d = Bot
    BY <1>2, <1>10, <1>17, <1>18, <2>2 DEF Remembered, IdsGrow
  <2>3. CASE c = Bot
    <3>1. d <= born /\ d # Bot
      BY <1>10, <1>17, <1>18, <2>3
    <3> QED
      BY <1>2, <1>10, <2>3, <3>1
  <2> QED
    BY <2>1, <2>2, <2>3
<1>20. IdsAreStored'
  <2>1. nextId' = storage'.id + 1 /\ nextId <= nextId'
    BY <1>9, <1>10, <1>17
  <2>2. ASSUME NEW c \in Client
        PROVE  ids'[c] <= storage'.id /\ (ids'[c] # 0 => c <= born)
    <3>1. CASE c # Bot
      BY <1>9, <1>10, <1>17, <1>18, <3>1
    <3>2. CASE c = Bot
      BY <1>2, <1>9, <1>10, <1>17, <1>18, <3>2
    <3> QED
      BY <3>1, <3>2
  <2> QED
    BY <1>9, <2>1, <2>2 DEF IdsAreStored
<1>21. TokensAreNew'
  BY <1>9, <1>13 DEF TokensAreNew

\* The command, if one is sent.
<1>22. /\ \A c \in Client \ {Bot} : command'[c] = command[c]
       /\ how = "" => command' = command
       /\ how # "" => command'[Bot] = <<Sent(how)>> /\ command[Bot] = <<>>
  BY <1>1 DEF Remembered, Ticked
<1>23. how # "" => Len(command'[Bot]) = 1 /\ command'[Bot][1] = Sent(how)
  BY <1>22, FirstOfMany
<1>24. how # "" => /\ Sent(how)[1] = how
                   /\ Sent(how)[2] \in Launch
                   /\ how = "launch" => Sent(how)[2] = launches /\ token = launches
                   /\ how = "resume" => Sent(how)[2] = storage.lease
  <2>1. /\ Sent(how)[1] = how
        /\ how = "launch" => Sent(how)[2] = token
        /\ how = "resume" => Sent(how)[2] = storage.lease
    BY DEF Sent
  <2>2. how = "launch" => token = launches
    BY <1>5 DEF TokensAreNew
  <2>3. /\ token # 0 => token \in Launch
        /\ storage.lease # 0 => storage.lease \in Launch
    BY <1>10, BoundsAssumption DEF Launch
  <2> QED
    BY <1>5, <2>1, <2>2, <2>3
<1>25. Remembered'
  <2>1. command' \in [Client -> Seq({"launch", "resume"} \X Launch)]
    <3>1. CASE how = ""
      BY <1>22, <3>1 DEF Remembered
    <3>2. CASE how # ""
      <4>1. Sent(how) \in {"launch", "resume"} \X Launch
        BY <1>24, <1>5, <3>2 DEF Sent
      <4>2. <<Sent(how)>> \in Seq({"launch", "resume"} \X Launch)
        BY <4>1
      <4> QED
        BY <1>1, <3>2, <4>2 DEF Remembered, Ticked
    <3> QED
      BY <3>1, <3>2
  <2> QED
    BY <1>18, <1>19, <2>1 DEF Remembered
<1>26. AttemptsAreKnown'
  <2> SUFFICES ASSUME NEW c \in Client, command'[c] # <<>>
               PROVE  /\ Len(command'[c]) = 1
                      /\ c <= born
                      /\ c > base => c \in Attached' /\ generation'[c].authorization.attempted
    BY <1>9 DEF AttemptsAreKnown
  <2>1. CASE c # Bot
    BY <1>12, <1>22, <1>3, <2>1 DEF AttemptsAreKnown
  <2>2. CASE c = Bot /\ how # ""
    <3>1. c \in Attached' /\ c <= born /\ generation'[c].authorization.attempted
      <4>1. c <= born
        BY <1>11, <2>2
      <4>2. c \in Attached'
        BY <1>12, <2>2
      <4>3. generation'[c].authorization.attempted
        BY <1>3, <1>4, <2>2
      <4> QED
        BY <4>1, <4>2, <4>3
    <3> QED
      BY <1>23, <2>2, <3>1
  <2>3. CASE c = Bot /\ how = ""
    <3>1. /\ Len(command[c]) = 1
          /\ c \in Attached /\ generation[c].authorization.attempted
      BY <1>2, <1>22, <2>3 DEF AttemptsAreKnown
    <3> QED
      <4>1. c \in Attached' /\ c <= born /\ generation'[c].authorization.attempted
        <5>1. c <= born
          BY <1>11, <2>3
        <5>2. c \in Attached'
          BY <1>12, <2>3
        <5>3. generation'[c].authorization.attempted
          BY <1>3, <1>4, <2>3, <3>1
        <5> QED
          BY <5>1, <5>2, <5>3
      <4> QED
        BY <1>22, <2>3, <3>1, <4>1
  <2> QED
    BY <2>1, <2>2, <2>3
<1>27. ASSUME NEW c \in Client, Launched(c)
       PROVE  /\ command[c][1][2] \in Nat \ {0} /\ command[c][1][2] <= launches
              /\ c <= born
              /\ how # "" => c # Bot
  <2>1. command[c] \in Seq({"launch", "resume"} \X Launch) /\ command[c] # <<>>
    BY <1>27 DEF Remembered, Launched
  <2>2. command[c][1] \in {"launch", "resume"} \X Launch
    BY <2>1
  <2>3. command[c][1][2] \in Nat \ {0}
    BY <2>2, BoundsAssumption DEF Launch
  <2> QED
    BY <1>4, <1>27, <2>1, <2>3 DEF LaunchesAreOver, AttemptsAreKnown
\* Who was launched before, and who is now.
<1>28. ASSUME NEW c \in Client, Launched(c)'
       PROVE  \/ Launched(c) /\ command'[c] = command[c]
              \/ c = Bot /\ how = "launch" /\ command'[c][1][2] = launches
  <2>1. CASE c # Bot \/ how = ""
    BY <1>22, <1>28, <2>1 DEF Launched
  <2>2. CASE c = Bot /\ how # ""
    <3>1. command'[c][1] = Sent(how)
      BY <1>23, <2>2
    <3> QED
      BY <1>24, <1>28, <2>2, <3>1 DEF Launched
  <2> QED
    BY <2>1, <2>2
<1>29. LaunchesAreOver'
  <2> SUFFICES ASSUME NEW c \in Client, Launched(c)'
               PROVE  /\ command'[c][1][2] <= launches
                      /\ hash' # command'[c][1][2]
                      /\ token = command'[c][1][2] => consumed'
                      /\ c \in Attached' => command'[c][1][2] = launches
                      /\ storage'.lease # 0 => storage'.lease >= command'[c][1][2]
    BY <1>9 DEF LaunchesAreOver
  <2>1. CASE Launched(c) /\ command'[c] = command[c]
    <3>1. c \in Attached' => c \in Attached
      <4>1. CASE c # Bot
        BY <1>12, <4>1
      <4>2. CASE c = Bot
        BY <1>2, <2>1, <4>2 DEF AttemptsAreKnown, Launched
      <4> QED
        BY <4>1, <4>2
    <3>2. /\ hash # command[c][1][2]
          /\ token = command[c][1][2] => consumed
          /\ c \in Attached => command[c][1][2] = launches
          /\ storage.lease # 0 => storage.lease >= command[c][1][2]
      BY <2>1 DEF LaunchesAreOver
    <3>3. command[c][1][2] \in Nat \ {0} /\ command[c][1][2] <= launches
      BY <1>27, <2>1
    <3> DEFINE k == command[c][1][2]
    <3> HIDE DEF k
    <3>4. /\ k <= launches /\ hash' # k
          /\ storage'.lease # 0 => storage'.lease >= k
      BY <1>13, <3>2, <3>3 DEF k
    <3> QED
      BY <1>8, <2>1, <3>1, <3>2, <3>4 DEF k
  <2>2. CASE c = Bot /\ how = "launch" /\ command'[c][1][2] = launches
    <3>1. launches # 0
      BY <1>24, <1>5, <2>2
    <3>2. consumed'
      BY <1>8, <2>2
    <3> QED
      BY <1>10, <1>13, <2>2, <3>1, <3>2
  <2> QED
    BY <1>28, <2>1, <2>2
<1>30. LaunchesDiffer'
  <2> SUFFICES ASSUME NEW c \in Client, NEW d \in Client, Launched(c)', Launched(d)',
                      command'[c][1][2] = command'[d][1][2]
               PROVE  c = d
    BY DEF LaunchesDiffer
  <2>1. ASSUME NEW e \in Client, Launched(e), command[e][1][2] = launches,
               how = "launch"
        PROVE  FALSE
    BY <1>24, <1>5, <1>6, <2>1 DEF LaunchesAreOver
  <2>2. CASE Launched(c) /\ Launched(d) /\ command'[c] = command[c]
                                        /\ command'[d] = command[d]
    BY <2>2 DEF LaunchesDiffer
  <2> QED
    BY <1>28, <2>1, <2>2
<1>31. ResumeFollowsLaunch'
  <2>1. SUFFICES ASSUME NEW c \in Client, NEW d \in Client, c < d,
                      command'[c] # <<>>, command'[d] # <<>>, command'[c][1][1] = "launch"
               PROVE  command'[d][1][2] >= command'[c][1][2]
    BY DEF ResumeFollowsLaunch
  <2>2. Launched(c)'
    BY <2>1 DEF Launched
  <2>3. c # Bot \/ how = ""
    <3>1. SUFFICES ASSUME c = Bot, how # "" PROVE FALSE
      OBVIOUS
    <3>2. d > c
      BY <1>10, <2>1
    <3>3. d # Bot /\ d > born
      BY <1>11, <3>1, <3>2
    <3>4. command[d] # <<>>
      BY <1>22, <2>1, <3>3
    <3>5. d <= born
      BY <3>4 DEF AttemptsAreKnown
    <3> QED
      BY <1>10, <3>3, <3>5
  <2>4. Launched(c) /\ command'[c] = command[c]
    BY <1>22, <1>28, <2>2, <2>3 DEF Launched
  <2>5. CASE d # Bot \/ how = ""
    <3>1. command'[d] = command[d]
      BY <1>22, <2>5
    <3> QED
      BY <2>1, <2>4, <3>1 DEF ResumeFollowsLaunch, Launched
  <2>6. CASE d = Bot /\ how # ""
    <3>1. command'[d][1][2] = Sent(how)[2]
      BY <1>23, <2>6
    <3>2. command[c][1][2] \in Nat /\ command[c][1][2] <= launches
      BY <1>27, <2>4
    <3>3. CASE how = "launch"
      BY <1>10, <1>24, <2>4, <2>6, <3>1, <3>2, <3>3
    <3>4. CASE how = "resume"
      <4>1. storage.lease # 0 /\ storage.lease >= command[c][1][2]
        BY <1>5, <2>4, <3>4 DEF LaunchesAreOver
      <4> QED
        BY <1>24, <2>4, <2>6, <3>1, <3>4, <4>1
    <3> QED
      BY <1>5, <2>6, <3>3, <3>4
  <2> QED
    BY <2>5, <2>6
<1> QED
  BY <1>14, <1>15, <1>16, <1>20, <1>21, <1>25, <1>26, <1>29, <1>30, <1>31

-----------------------------------------------------------------------------
LEMMA BridgeStep == BridgeInv /\ [Next]_vars => BridgeInv'
<1> SUFFICES ASSUME BridgeInv, [Next]_vars
             PROVE  BridgeInv'
  OBVIOUS
<1>1. Counted /\ born \in Nat
  BY BoundsAssumption DEF BridgeInv, Counted
<1>2. CASE \E h \in 0 .. MaxLaunches : Load(h)
  BY <1>2, LoadStep
<1>3. CASE NewBot
  <2>1. Counted'
    <3>1. born' \in 0 .. MaxClients /\ base' \in 0 .. born'
      BY <1>1, <1>3, BoundsAssumption DEF NewBot, Counted
    <3> QED
      BY <1>1, <1>3, <3>1 DEF NewBot, Counted, url, script
  <2>2. born <= born'
    BY <1>1, <1>3 DEF NewBot
  <2> QED
    BY <1>3, <2>1, <2>2, OutsideStep DEF NewBot, script
<1>4. CASE Login
  <2>1. Counted'
    BY <1>1, <1>4 DEF Login, Counted, url, script
  <2>2. born <= born'
    BY <1>1, <1>4 DEF Login
  <2> QED
    BY <1>4, <2>1, <2>2, OutsideStep DEF Login, script
<1>5. CASE Tick
  BY <1>5, TickStep
<1>6. CASE \E c \in Client :
              \/ Spawn(c) \/ Connected(c) \/ Resumed(c) \/ LeasePacket(c)
              \/ Kicked(c) \/ SyncRawTransport(c)
  BY <1>6, ClientStep
<1>7. CASE \E c \in Client : ClientEnd(c)
  BY <1>7, ClientEndStep
<1>8. CASE \E c \in Client : TunnelCloses(c)
  <2>1. PICK c \in Client : TunnelCloses(c)
    BY <1>8
  <2>2. Counted'
    BY <1>1, <2>1 DEF TunnelCloses, Counted, url, script
  <2>3. born <= born'
    BY <1>1, <2>1 DEF TunnelCloses
  <2> QED
    BY <2>1, <2>2, <2>3, OutsideStep DEF TunnelCloses, script
<1>9. CASE UNCHANGED vars
  <2>1. Counted'
    BY <1>1, <1>9 DEF vars, Counted, url, script, world
  <2>2. born <= born'
    BY <1>1, <1>9 DEF vars, world
  <2> QED
    BY <1>9, <2>1, <2>2, OutsideStep DEF vars, script, world
<1> QED
  BY <1>2, <1>3, <1>4, <1>5, <1>6, <1>7, <1>8, <1>9 DEF Next

LEMMA BridgeInvariant == Spec => []BridgeInv
BY BridgeInit, BridgeStep, PTL DEF Spec

(* The tab keeps to its types, the active generation is what the page      *)
(* publishes, and generation ids grow across reloads.                      *)
THEOREM BridgeTypeCorrect == Spec => []TypeOK
<1>1. BridgeInv => TypeOK
  <2> SUFFICES ASSUME BridgeInv PROVE TypeOK
    OBVIOUS
  <2>1. \A c \in Attached : generation[c].authorization.failed =>
           generation[c].authorization.attempted /\ generation[c].ended
    BY DEF BridgeInv, Attachments, Sound
  <2> QED
    BY <2>1 DEF BridgeInv, Counted, Attachments, Published, Remembered, TypeOK
<1> QED
  BY <1>1, BridgeInvariant, PTL

(* However often the player reloads, reconnects or is launched again, and  *)
(* whatever arrives late: a connection is authorized once, a launch token  *)
(* is presented once, and no lease outlives a later launch.                *)
THEOREM LaunchesAreUsedOnce == Spec => []LaunchIsUsedOnce
<1>1. BridgeInv => LaunchIsUsedOnce
  <2> SUFFICES ASSUME BridgeInv PROVE LaunchIsUsedOnce
    OBVIOUS
  <2>1. \A c \in Client : command[c] = <<>> \/ Len(command[c]) = 1
    BY DEF BridgeInv, AttemptsAreKnown
  <2>2. \A c \in Client : command[c] \in Seq({"launch", "resume"} \X Launch)
    BY DEF BridgeInv, Remembered
  <2>3. AttemptedOnce
    <3>1. Len(<<>>) = 0
      OBVIOUS
    <3>2. \A c \in Client : Len(command[c]) \in {0, 1}
      BY <2>1, <3>1
    <3> SUFFICES ASSUME NEW c \in Client PROVE Len(command[c]) <= 1
      BY DEF AttemptedOnce
    <3> DEFINE n == Len(command[c])
    <3>3. n \in {0, 1}
      BY <3>2
    <3> HIDE DEF n
    <3>4. n <= 1
      BY <3>3
    <3> QED
      BY <3>4 DEF n
  <2>4. TokenSentOnce
    <3> SUFFICES ASSUME NEW c \in Client, NEW d \in Client, NEW k \in Launch, c # d,
                        <<"launch", k>> \in {command[c][n] : n \in DOMAIN command[c]},
                        <<"launch", k>> \in {command[d][n] : n \in DOMAIN command[d]}
                 PROVE  FALSE
      BY DEF TokenSentOnce
    <3>1. ASSUME NEW e \in Client,
                 <<"launch", k>> \in {command[e][n] : n \in DOMAIN command[e]}
          PROVE  Launched(e) /\ command[e][1][2] = k
      <4>1. PICK n \in DOMAIN command[e] : command[e][n] = <<"launch", k>>
        BY <3>1
      <4>2. n \in 1 .. Len(command[e]) /\ Len(command[e]) \in Nat
        BY <2>2, <4>1
      <4>3. command[e] # <<>> /\ n = 1
        BY <2>1, <4>2
      <4> QED
        BY <4>1, <4>3 DEF Launched
    <3> QED
      BY <3>1 DEF BridgeInv, LaunchesDiffer
  <2> QED
    BY <2>3, <2>4 DEF BridgeInv, LaunchIsUsedOnce
<1> QED
  BY <1>1, BridgeInvariant, PTL

-----------------------------------------------------------------------------
(* The socket of a tunnel.                                                 *)

-----------------------------------------------------------------------------
(* The callbacks of the writes.                                            *)

Results == {"ok", "error"}

\* What a write was called back with, if at all: a second time only if it threw.
Answers(w, thrown) ==
    {<<"ok">>, <<"error">>} \cup (IF w \in thrown THEN {<<"ok", "error">>} ELSE {})
Successes == {<<"ok">>, <<"ok", "error">>}

\* n writes were made, of which p is pending if it is not 0, the callbacks got
\* these calls, the WebSocket got these writes and these callbacks threw.
Right(n, p, calls, got, thrown) ==
    /\ n \in 0 .. MaxWrites /\ p \in {0, n}
    /\ calls \in [Write -> Seq(Results)]
    /\ got \in Seq(Write)
    /\ thrown \subseteq Write
    /\ \A w \in Write :
          calls[w] \in IF w > n \/ w = p THEN {<<>>} ELSE Answers(w, thrown)
    /\ \A w \in Write : calls[w] \in Successes <=> \E k \in DOMAIN got : got[k] = w
    /\ \A k \in 1 .. Len(got) - 1 : got[k] < got[k + 1]

\* The write whose callback is running was sent and told so.
CallIsRight ==
    /\ opening \in BOOLEAN /\ abandoned \in BOOLEAN
    /\ calling \in 0 .. written
    /\ calling # 0 => calling # pending /\ callbacks[calling] = <<"ok">>

WritesAreRight == Right(written, pending, callbacks, sent, threw) /\ CallIsRight

\* The calls a write can have got, told apart.
LEMMA Calls ==
    /\ <<>> \in Seq(Results) /\ <<"ok">> \in Seq(Results)
    /\ <<"error">> \in Seq(Results) /\ <<"ok", "error">> \in Seq(Results)
    /\ Append(<<>>, "ok") = <<"ok">> /\ Append(<<>>, "error") = <<"error">>
    /\ Append(<<"ok">>, "error") = <<"ok", "error">>
    /\ <<>> # <<"ok">> /\ <<>> # <<"error">> /\ <<>> # <<"ok", "error">>
    /\ <<"ok">> # <<"error">> /\ <<"ok">> # <<"ok", "error">>
    /\ <<"error">> # <<"ok", "error">>
<1>1. /\ Len(<<>>) = 0 /\ Len(<<"ok">>) = 1 /\ Len(<<"error">>) = 1
      /\ Len(<<"ok", "error">>) = 2
  OBVIOUS
<1>2. <<"ok">>[1] = "ok" /\ <<"error">>[1] = "error"
  OBVIOUS
<1>3. /\ <<>> # <<"ok">> /\ <<>> # <<"error">> /\ <<>> # <<"ok", "error">>
      /\ <<"ok">> # <<"ok", "error">> /\ <<"error">> # <<"ok", "error">>
  BY <1>1
<1>4. <<"ok">> # <<"error">>
  BY <1>2
<1>5. /\ <<>> \in Seq(Results) /\ <<"ok">> \in Seq(Results)
      /\ <<"error">> \in Seq(Results) /\ <<"ok", "error">> \in Seq(Results)
  BY DEF Results
<1>6. Append(<<>>, "ok") = <<"ok">> /\ Append(<<>>, "error") = <<"error">>
  BY SMTT(30)
<1>7. Append(<<"ok">>, "error") = <<"ok", "error">>
  <2> DEFINE s == Append(<<"ok">>, "error")
  <2>1. /\ <<"ok", "error">>[1] = "ok" /\ <<"ok", "error">>[2] = "error"
        /\ "error" \in Results
    BY DEF Results
  <2>2. s \in Seq(Results) /\ Len(s) = 2 /\ s[1] = "ok" /\ s[2] = "error"
    BY <1>1, <1>2, <1>5, <2>1, AppendProperties
  <2> HIDE DEF s
  <2>3. s = <<"ok", "error">>
    BY <1>1, <1>5, <2>1, <2>2, SeqEqual
  <2> QED
    BY <2>3 DEF s
<1> QED
  BY <1>3, <1>4, <1>5, <1>6, <1>7

LEMMA NextIsRight ==
    ASSUME MaxWrites \in Nat, NEW n, n < MaxWrites,
           NEW calls, NEW got, NEW thrown, Right(n, 0, calls, got, thrown)
    PROVE  n + 1 \in Write /\ Right(n + 1, n + 1, calls, got, thrown)
<1>1. n \in Nat /\ n + 1 \in 0 .. MaxWrites /\ n + 1 \in Write
  BY DEF Right, Write
<1>2. ASSUME NEW w \in Write
      PROVE  calls[w] \in IF w > n + 1 \/ w = n + 1 THEN {<<>>} ELSE Answers(w, thrown)
  <2>1. w \in Nat \ {0}
    BY DEF Write
  <2>2. calls[w] \in IF w > n \/ w = 0 THEN {<<>>} ELSE Answers(w, thrown)
    BY DEF Right
  <2>3. (w > n \/ w = 0) <=> (w > n + 1 \/ w = n + 1)
    BY <1>1, <2>1
  <2> QED
    BY <2>2, <2>3
<1> QED
  BY <1>1, <1>2 DEF Right

\* A write whose callback was not called was not sent.
LEMMA PendingIsLast ==
    ASSUME MaxWrites \in Nat, NEW n \in Write, NEW calls, NEW got, NEW thrown,
           Right(n, n, calls, got, thrown)
    PROVE  /\ calls[n] = <<>>
           /\ \A k \in DOMAIN got : got[k] \in Nat /\ got[k] < n
<1>1. n \in Nat \ {0}
  BY DEF Write
<1>2. calls[n] = <<>>
  BY DEF Right
<1>3. ASSUME NEW k \in DOMAIN got
      PROVE  got[k] \in Nat /\ got[k] < n
  <2>1. got[k] \in Write
    BY ElementOfSeq, LenProperties DEF Right
  <2>2. calls[got[k]] \in Successes
    BY <2>1 DEF Right
  <2>3. calls[got[k]] # <<>>
    BY <2>2, Calls DEF Successes
  <2>4. ~(got[k] > n \/ got[k] = n)
    BY <2>1, <2>3 DEF Right
  <2>5. got[k] \in Nat
    BY <2>1 DEF Write
  <2> QED
    BY <1>1, <2>4, <2>5
<1> QED
  BY <1>2, <1>3

\* The pending write gets its one call.
LEMMA AnswerIsRight ==
    ASSUME MaxWrites \in Nat, NEW n \in Write, NEW calls, NEW got, NEW thrown,
           Right(n, n, calls, got, thrown),
           NEW c \in [Write -> Seq(Results)], c[n] \in {<<"ok">>, <<"error">>},
           \A w \in Write : w # n => c[w] = calls[w]
    PROVE  \A w \in Write :
              c[w] \in IF w > n \/ w = 0 THEN {<<>>} ELSE Answers(w, thrown)
<1> SUFFICES ASSUME NEW w \in Write
             PROVE  c[w] \in IF w > n \/ w = 0 THEN {<<>>} ELSE Answers(w, thrown)
  OBVIOUS
<1>1. n \in Nat \ {0} /\ w \in Nat \ {0}
  BY DEF Write
<1>2. CASE w = n
  <2>1. ~(w > n \/ w = 0)
    BY <1>1, <1>2
  <2> QED
    BY <1>2, <2>1 DEF Answers
<1>3. CASE w # n
  <2>1. c[w] = calls[w]
    BY <1>3
  <2>2. calls[w] \in IF w > n \/ w = n THEN {<<>>} ELSE Answers(w, thrown)
    BY DEF Right
  <2> QED
    BY <1>1, <1>3, <2>1, <2>2
<1> QED
  BY <1>2, <1>3

LEMMA OkIsRight ==
    ASSUME MaxWrites \in Nat, NEW n \in Write, NEW calls, NEW got, NEW thrown,
           Right(n, n, calls, got, thrown)
    PROVE  Right(n, 0, [calls EXCEPT ![n] = Append(calls[n], "ok")], Append(got, n),
                 thrown)
<1> DEFINE c == [calls EXCEPT ![n] = Append(calls[n], "ok")]
           g == Append(got, n)
<1>1. n \in Nat \ {0} /\ n \in 0 .. MaxWrites
  BY DEF Write
<1>2. /\ calls \in [Write -> Seq(Results)] /\ calls[n] = <<>>
      /\ \A k \in DOMAIN got : got[k] \in Nat /\ got[k] < n
  <2>1. calls \in [Write -> Seq(Results)]
    BY DEF Right
  <2> QED
    BY <2>1, PendingIsLast
<1>3. /\ c \in [Write -> Seq(Results)] /\ c[n] = <<"ok">>
      /\ \A w \in Write : w # n => c[w] = calls[w]
  BY <1>2, Calls
<1>4. got \in Seq(Write) /\ DOMAIN got = 1 .. Len(got) /\ Len(got) \in Nat
  BY LenProperties DEF Right
<1>5. /\ g \in Seq(Write) /\ Len(g) = Len(got) + 1 /\ DOMAIN g = 1 .. Len(got) + 1
      /\ g[Len(got) + 1] = n
      /\ \A k \in 1 .. Len(got) : g[k] = got[k]
  BY <1>4, AppendProperties, LenProperties
<1> HIDE DEF c, g
<1>6. \A w \in Write : c[w] \in IF w > n \/ w = 0 THEN {<<>>} ELSE Answers(w, thrown)
  BY <1>3, AnswerIsRight
<1>7. ASSUME NEW w \in Write
      PROVE  c[w] \in Successes <=> \E k \in DOMAIN g : g[k] = w
  <2>1. CASE w = n
    <3>1. Len(got) + 1 \in DOMAIN g
      BY <1>4, <1>5
    <3> QED
      BY <1>3, <1>5, <2>1, <3>1 DEF Successes
  <2>2. CASE w # n
    <3>1. calls[w] \in Successes <=> \E k \in DOMAIN got : got[k] = w
      BY DEF Right
    <3>2. (\E k \in DOMAIN got : got[k] = w) <=> (\E k \in DOMAIN g : g[k] = w)
      BY <1>4, <1>5, <2>2
    <3> QED
      BY <1>3, <2>2, <3>1, <3>2
  <2> QED
    BY <2>1, <2>2
<1>8. ASSUME NEW k \in 1 .. Len(g) - 1
      PROVE  g[k] < g[k + 1]
  <2>1. k \in Nat /\ k \in 1 .. Len(got)
    BY <1>4, <1>5
  <2>2. g[k] = got[k] /\ got[k] < n
    BY <1>2, <1>4, <1>5, <2>1
  <2>3. CASE k = Len(got)
    BY <1>5, <2>2, <2>3
  <2>4. CASE k # Len(got)
    <3>1. k \in 1 .. Len(got) - 1 /\ k + 1 \in 1 .. Len(got)
      <4>1. Len(got) \in Nat
        BY <1>4
      <4> QED
        BY <2>1, <2>4, <4>1
    <3>2. got[k] < got[k + 1]
      BY <3>1 DEF Right
    <3> QED
      BY <1>5, <2>2, <3>1, <3>2
  <2> QED
    BY <2>3, <2>4
<1>9. thrown \subseteq Write
  BY DEF Right
<1> QED
  BY <1>1, <1>3, <1>5, <1>6, <1>7, <1>8, <1>9 DEF Right, c, g

LEMMA ErrorIsRight ==
    ASSUME MaxWrites \in Nat, NEW n \in Write, NEW calls, NEW got, NEW thrown,
           Right(n, n, calls, got, thrown)
    PROVE  Right(n, 0, [calls EXCEPT ![n] = Append(calls[n], "error")], got, thrown)
<1> DEFINE c == [calls EXCEPT ![n] = Append(calls[n], "error")]
<1>1. n \in Nat \ {0} /\ n \in 0 .. MaxWrites
  BY DEF Write
<1>2. /\ calls \in [Write -> Seq(Results)] /\ calls[n] = <<>>
      /\ \A k \in DOMAIN got : got[k] \in Nat /\ got[k] < n
  <2>1. calls \in [Write -> Seq(Results)]
    BY DEF Right
  <2> QED
    BY <2>1, PendingIsLast
<1>3. /\ c \in [Write -> Seq(Results)] /\ c[n] = <<"error">>
      /\ \A w \in Write : w # n => c[w] = calls[w]
  BY <1>2, Calls
<1> HIDE DEF c
<1>4. \A w \in Write : c[w] \in IF w > n \/ w = 0 THEN {<<>>} ELSE Answers(w, thrown)
  BY <1>3, AnswerIsRight
<1>5. ASSUME NEW w \in Write
      PROVE  c[w] \in Successes <=> \E k \in DOMAIN got : got[k] = w
  <2>1. CASE w = n
    <3>1. c[w] \notin Successes
      BY <1>3, <2>1, Calls DEF Successes
    <3>2. ~ \E k \in DOMAIN got : got[k] = w
      BY <1>1, <1>2, <2>1
    <3> QED
      BY <3>1, <3>2
  <2>2. CASE w # n
    BY <1>3, <2>2 DEF Right
  <2> QED
    BY <2>1, <2>2
<1>6. /\ got \in Seq(Write) /\ thrown \subseteq Write
      /\ \A k \in 1 .. Len(got) - 1 : got[k] < got[k + 1]
  BY DEF Right
<1> QED
  BY <1>1, <1>3, <1>4, <1>5, <1>6 DEF Right, c

\* A write that was sent and told so is told of an error, as its callback threw.
LEMMA SecondCallIsRight ==
    ASSUME MaxWrites \in Nat, NEW n, NEW p, NEW calls, NEW got, NEW thrown,
           Right(n, p, calls, got, thrown),
           NEW w \in Write, w \in 0 .. n, w # p, calls[w] = <<"ok">>
    PROVE  Right(n, p, [calls EXCEPT ![w] = Append(calls[w], "error")], got,
                 thrown \cup {w})
<1> DEFINE c == [calls EXCEPT ![w] = Append(calls[w], "error")]
<1>1. calls \in [Write -> Seq(Results)] /\ n \in Nat /\ w \in Nat \ {0}
  BY DEF Right, Write
<1>2. /\ c \in [Write -> Seq(Results)] /\ c[w] = <<"ok", "error">>
      /\ \A v \in Write : v # w => c[v] = calls[v]
  BY <1>1, Calls
<1> HIDE DEF c
<1>3. ASSUME NEW v \in Write
      PROVE  c[v] \in IF v > n \/ v = p THEN {<<>>} ELSE Answers(v, thrown \cup {w})
  <2>1. calls[v] \in IF v > n \/ v = p THEN {<<>>} ELSE Answers(v, thrown)
    BY DEF Right
  <2>2. CASE v = w
    <3>1. ~(v > n \/ v = p)
      BY <1>1, <2>2
    <3> QED
      BY <1>2, <2>2, <3>1 DEF Answers
  <2>3. CASE v # w
    BY <1>2, <2>1, <2>3 DEF Answers
  <2> QED
    BY <2>2, <2>3
<1>4. ASSUME NEW v \in Write
      PROVE  c[v] \in Successes <=> \E k \in DOMAIN got : got[k] = v
  <2>1. calls[v] \in Successes <=> \E k \in DOMAIN got : got[k] = v
    BY DEF Right
  <2>2. c[v] \in Successes <=> calls[v] \in Successes
    BY <1>2 DEF Successes
  <2> QED
    BY <2>1, <2>2
<1>5. /\ n \in 0 .. MaxWrites /\ p \in {0, n}
      /\ got \in Seq(Write) /\ thrown \cup {w} \subseteq Write
      /\ \A k \in 1 .. Len(got) - 1 : got[k] < got[k + 1]
  BY DEF Right
<1> QED
  BY <1>2, <1>3, <1>4, <1>5 DEF Right, c

\* The callback that is running keeps its one answer when others are called back.
LEMMA CallStays ==
    ASSUME CallIsRight, NEW n, n \in 0 .. MaxWrites, MaxWrites \in Nat,
           written' \in {written, written + 1}, pending' \in {0, n},
           calling # 0 => calling # n /\ callbacks'[calling] = callbacks[calling],
           opening' \in BOOLEAN, abandoned' \in BOOLEAN, calling' \in {0, calling},
           written \in 0 .. MaxWrites
    PROVE  CallIsRight'
<1>1. calling \in 0 .. written /\ written \in Nat
  BY DEF CallIsRight
<1>2. calling' \in 0 .. written'
  BY <1>1
<1>3. ASSUME calling' # 0
      PROVE  calling' # pending' /\ callbacks'[calling'] = <<"ok">>
  BY <1>3 DEF CallIsRight
<1> QED
  BY <1>2, <1>3 DEF CallIsRight

\* A destroy calls back the pending write.
LEMMA DestroyIsRight ==
    ASSUME MaxWrites \in Nat, NEW n, NEW p, NEW calls, NEW got, NEW thrown,
           Right(n, p, calls, got, thrown), Destroy(p, calls)
    PROVE  Right(n, pending', callbacks', got, thrown)
<1>1. CASE p = 0
  BY <1>1 DEF Destroy
<1>2. CASE p # 0
  <2>1. p = n /\ n \in Write
    BY <1>2 DEF Right, Write
  <2>2. callbacks' = [calls EXCEPT ![n] = Append(calls[n], "error")] /\ pending' = 0
    BY <1>2, <2>1 DEF Destroy
  <2> QED
    BY <2>1, <2>2, ErrorIsRight
<1> QED
  BY <1>1, <1>2

\* Whether the callback of an error throws or not, it was called.
LEMMA FailCallsBack ==
    ASSUME NEW w, NEW armed, NEW onTheSpot, abandoned \in BOOLEAN,
           Fail(w, armed, onTheSpot) \/ Reject(w)
    PROVE  /\ callbacks' = [callbacks EXCEPT ![w] = Append(callbacks[w], "error")]
           /\ pending' = 0 /\ sent' = sent /\ abandoned' \in BOOLEAN
<1>1. CASE Fail(w, armed, onTheSpot)
  BY <1>1 DEF Fail, Destroy, Called
<1>2. CASE Reject(w)
  BY <1>2 DEF Reject, Called
<1> QED
  BY <1>1, <1>2

\* A flush of write w leaves the callbacks right, and the one that is running.
LEMMA FlushIsRight ==
    ASSUME MaxWrites \in Nat, NEW w \in Write, NEW armed, NEW caller \in {calling, w},
           Right(w, w, callbacks, sent, threw), CallIsRight, calling # w,
           written \in 0 .. MaxWrites, written' = w, written' \in {written, written + 1},
           opening' \in BOOLEAN,
           Flush(w, armed, caller) \/ Reject(w)
    PROVE  WritesAreRight'
<1>1. /\ abandoned \in BOOLEAN /\ callbacks \in [Write -> Seq(Results)]
      /\ calling \in 0 .. written
      /\ callbacks[w] = <<>> /\ w \in 0 .. MaxWrites /\ w \in Nat \ {0}
  BY PendingIsLast DEF CallIsRight, Right, Write
<1>2. calling # 0 => calling \in Write /\ calling # w
  BY <1>1 DEF Write
<1>3. CASE Postpone(w, armed)
  <2>1. /\ pending' = w /\ abandoned' \in BOOLEAN
        /\ UNCHANGED <<callbacks, sent, threw, calling>>
    BY <1>1, <1>3 DEF Postpone, faults
  <2>2. CallIsRight'
    BY <1>1, <2>1, CallStays
  <2> QED
    BY <2>1, <2>2 DEF WritesAreRight
<1>4. CASE Send(w, armed, caller)
  <2>1. /\ callbacks' = [callbacks EXCEPT ![w] = Append(callbacks[w], "ok")]
        /\ pending' = 0 /\ sent' = Append(sent, w) /\ calling' = caller
        /\ threw' = threw /\ abandoned' \in BOOLEAN
    BY <1>1, <1>4 DEF Send, Called, faults
  <2>2. Right(written', pending', callbacks', sent', threw')
    BY <2>1, OkIsRight
  <2>3. CallIsRight'
    <3>1. CASE caller = calling
      <4>1. calling # 0 => callbacks'[calling] = callbacks[calling]
        BY <1>1, <1>2, <2>1
      <4> QED
        BY <1>1, <2>1, <3>1, <4>1, CallStays
    <3>2. CASE caller = w
      <4>1. callbacks'[w] = <<"ok">>
        BY <1>1, <2>1, Calls
      <4> QED
        BY <1>1, <2>1, <3>2, <4>1 DEF CallIsRight
    <3> QED
      BY <3>1, <3>2
  <2> QED
    BY <2>2, <2>3 DEF WritesAreRight
<1>5. CASE SendThrows(w, armed, caller) \/ FindClosed(w, armed) \/ Reject(w)
  <2>1. calling' = calling /\ threw' = threw
    BY <1>5 DEF SendThrows, FindClosed, Reject
  <2>2. Fail(w, armed, caller = w) \/ Reject(w)
    BY <1>5 DEF SendThrows, FindClosed
  <2>3. /\ callbacks' = [callbacks EXCEPT ![w] = Append(callbacks[w], "error")]
        /\ pending' = 0 /\ sent' = sent /\ abandoned' \in BOOLEAN
    BY <1>1, <2>2, FailCallsBack
  <2>4. Right(written', pending', callbacks', sent', threw')
    BY <2>1, <2>3, ErrorIsRight
  <2>5. calling # 0 => callbacks'[calling] = callbacks[calling]
    BY <1>1, <1>2, <2>3
  <2>6. CallIsRight'
    BY <1>1, <2>1, <2>3, <2>5, CallStays
  <2> QED
    BY <2>4, <2>6 DEF WritesAreRight
<1> QED
  BY <1>3, <1>4, <1>5 DEF Flush

\* The callback of a flush throws: the write itself or one made meanwhile is called
\* back with an error.
LEMMA ThrowIsRight ==
    ASSUME MaxWrites \in Nat, WritesAreRight, DestroyReleases, CallbackThrows
    PROVE  WritesAreRight'
<1>1. /\ Right(written, pending, callbacks, sent, threw)
      /\ calling \in 0 .. written /\ calling # 0 /\ calling # pending
      /\ callbacks[calling] = <<"ok">> /\ abandoned \in BOOLEAN /\ opening \in BOOLEAN
      /\ written \in 0 .. MaxWrites /\ pending \in {0, written}
  BY DEF WritesAreRight, CallIsRight, CallbackThrows, Right
<1>2. calling \in Write
  BY <1>1 DEF Write
<1>3. /\ calling' = 0 /\ written' = written /\ opening' = opening
  BY DEF CallbackThrows
<1>4. CASE pending = 0
  <2>1. /\ callbacks' = [callbacks EXCEPT ![calling] = Append(callbacks[calling], "error")]
        /\ pending' = 0 /\ sent' = sent /\ abandoned' \in BOOLEAN
    <3>1. CASE destroyed
      BY <1>1, <1>4, <3>1 DEF CallbackThrows, Called
    <3>2. CASE ~destroyed
      <4>1. Fail(calling, flushTimer, pending # 0)
        BY <1>4, <3>2 DEF CallbackThrows
      <4> QED
        BY <1>1, <4>1, FailCallsBack
    <3> QED
      BY <3>1, <3>2
  <2>2. threw' = threw \cup {calling}
    BY <1>4 DEF CallbackThrows
  <2>3. Right(written', pending', callbacks', sent', threw')
    BY <1>1, <1>2, <1>3, <1>4, <2>1, <2>2, SecondCallIsRight
  <2> QED
    BY <1>1, <1>3, <2>1, <2>3 DEF WritesAreRight, CallIsRight
<1>5. CASE pending # 0
  <2>1. pending = written /\ written \in Write /\ ~destroyed
    BY <1>1, <1>5 DEF DestroyReleases, Write
  <2>2. Fail(written, flushTimer, pending # 0) /\ threw' = threw
    BY <1>5, <2>1 DEF CallbackThrows
  <2>3. /\ callbacks' = [callbacks EXCEPT ![written] = Append(callbacks[written], "error")]
        /\ pending' = 0 /\ sent' = sent /\ abandoned' \in BOOLEAN
    BY <1>1, <2>2, FailCallsBack
  <2>4. Right(written', pending', callbacks', sent', threw')
    BY <1>1, <1>3, <2>1, <2>2, <2>3, ErrorIsRight
  <2> QED
    BY <1>1, <1>3, <2>3, <2>4 DEF WritesAreRight, CallIsRight
<1> QED
  BY <1>4, <1>5

LEMMA WritesStep ==
    ASSUME MaxWrites \in Nat, WritesAreRight, DestroyReleases, [SocketNext]_socketVars
    PROVE  WritesAreRight'
<1>1. /\ written \in 0 .. MaxWrites /\ pending \in {0, written}
      /\ CallIsRight /\ opening \in BOOLEAN /\ abandoned \in BOOLEAN
      /\ calling \in 0 .. written
      /\ callbacks \in [Write -> Seq(Results)]
      /\ Right(written, pending, callbacks, sent, threw)
  BY DEF WritesAreRight, Right, CallIsRight
<1>2. CASE WriteNext
  <2>1. pending = 0
    <3>1. CASE written > 0
      <4>1. callbacks[written] = <<"ok">> /\ written \in Write
        BY <1>1, <1>2, <3>1 DEF WriteNext, Write
      <4>2. callbacks[written] # <<>>
        BY <4>1, Calls
      <4>3. pending # written
        BY <1>1, <4>1, <4>2 DEF Right
      <4> QED
        BY <1>1, <4>3
    <3>2. CASE ~(written > 0)
      BY <1>1, <3>2
    <3> QED
      BY <3>1, <3>2
  <2>2. written' = written + 1 /\ written < MaxWrites /\ opening' = opening
    BY <1>2 DEF WriteNext
  <2>3. written' \in Write /\ Right(written', written', callbacks, sent, threw)
    BY <1>1, <2>1, <2>2, NextIsRight
  <2>4. Flush(written', flushTimer, calling) \/ Reject(written')
    BY <1>2 DEF WriteNext
  <2>5. calling # written'
    BY <1>1, <2>2
  <2> QED
    BY <1>1, <2>2, <2>3, <2>4, <2>5, FlushIsRight
<1>3. CASE Poll \/ OpenFlush
  <2>1. written' = written /\ opening' \in BOOLEAN
    BY <1>1, <1>3 DEF Poll, OpenFlush
  <2>2. CASE UNCHANGED <<pending, callbacks, sent, calling, faults>>
    BY <1>1, <2>1, <2>2 DEF WritesAreRight, CallIsRight, faults
  <2>3. CASE pending # 0 /\ \E armed : Flush(pending, armed, pending)
    <3>1. pending = written /\ written \in Write /\ calling # written
      BY <1>1, <2>3 DEF Write, CallIsRight
    <3>2. PICK armed : Flush(written, armed, written)
      BY <2>3, <3>1
    <3> QED
      BY <1>1, <2>1, <3>1, <3>2, FlushIsRight
  <2> QED
    BY <1>3, <2>2, <2>3 DEF Poll, OpenFlush
<1>4. CASE DestroyNow \/ Error \/ Closed
  <2>1. /\ written' = written /\ sent' = sent /\ threw' = threw
        /\ UNCHANGED turn /\ abandoned' \in BOOLEAN
    BY <1>1, <1>4 DEF DestroyNow, Release, Error, Closed, faults
  <2>2. \/ Destroy(pending, callbacks)
        \/ UNCHANGED <<pending, callbacks>>
    BY <1>4 DEF DestroyNow, Error, Closed
  <2>3. Right(written', pending', callbacks', sent', threw')
    BY <1>1, <2>1, <2>2, DestroyIsRight
  <2>4. calling # 0 => calling # pending /\ calling \in Write
    BY <1>1 DEF CallIsRight, Write
  <2>5. calling # 0 => callbacks'[calling] = callbacks[calling]
    BY <1>1, <2>2, <2>4 DEF Destroy
  <2>6. pending' \in {0, pending}
    BY <2>2 DEF Destroy
  <2>7. CallIsRight'
    BY <1>1, <2>1, <2>4, <2>5, <2>6 DEF CallIsRight, turn
  <2> QED
    BY <2>3, <2>7 DEF WritesAreRight
<1>5. CASE CallbackReturns
  <2>1. calling' = 0 /\ UNCHANGED <<writes, opening, faults>>
    BY <1>5 DEF CallbackReturns
  <2> QED
    BY <1>1, <2>1 DEF writes, faults, WritesAreRight, CallIsRight
<1>6. CASE \/ ConnectInvalid \/ Connect \/ SetTimeout \/ Timeout \/ End \/ Final
           \/ Opened \/ Message \/ PeerCloses \/ UNCHANGED socketVars
  <2>1. /\ UNCHANGED <<writes, calling, threw>>
        /\ opening' \in BOOLEAN /\ abandoned' \in BOOLEAN
    <3>1. CASE Connect \/ SetTimeout
      BY <1>1, <3>1 DEF Connect, SetTimeout, turn
    <3>2. CASE Opened
      BY <1>1, <3>2 DEF Opened, faults
    <3>3. CASE \/ ConnectInvalid \/ Timeout \/ End \/ Final
               \/ Message \/ PeerCloses \/ UNCHANGED socketVars
      BY <1>1, <3>3 DEF ConnectInvalid, Timeout, End, Final, Message, PeerCloses,
                        socketVars, turn, faults
    <3> QED
      BY <1>6, <3>1, <3>2, <3>3
  <2> QED
    BY <1>1, <2>1 DEF writes, WritesAreRight, CallIsRight
<1>7. CASE CallbackThrows
  BY <1>7, ThrowIsRight
<1> QED
  BY <1>2, <1>3, <1>4, <1>5, <1>6, <1>7 DEF SocketNext, EndTurn

-----------------------------------------------------------------------------
(* The state of the socket.                                                *)

Connection ==
    /\ ws \in {"none", "connecting", "open", "closing", "closed"}
    /\ connecting \in BOOLEAN /\ readable \in BOOLEAN
    /\ writable \in BOOLEAN /\ destroyed \in BOOLEAN

Ticks ==
    /\ flushTimer \in BOOLEAN /\ timeoutTimer \in BOOLEAN /\ timeoutSet \in BOOLEAN
    /\ ended \in BOOLEAN /\ finished \in BOOLEAN /\ doomed \in BOOLEAN
    /\ timeoutTimer => timeoutSet

Deliveries == pushed \in 0 .. MaxReads /\ ends \in Nat

SocketInv ==
    WritesAreRight /\ Connection /\ Ticks /\ Deliveries /\ DestroyReleases

LEMMA SocketInvImplies ==
    ASSUME SocketInv
    PROVE  SocketTypeOK /\ CallbacksAreTrue
<1>1. stream \in [1 .. 4 -> BOOLEAN]
  BY DEF SocketInv, Connection, stream
<1>2. timers \in [1 .. 3 -> BOOLEAN] /\ life \in [1 .. 3 -> BOOLEAN]
  BY DEF SocketInv, Ticks, timers, life
<1>3. /\ ws \in {"none", "connecting", "open", "closing", "closed"}
      /\ pushed \in 0 .. MaxReads /\ ends \in Nat
      /\ timeoutTimer => timeoutSet
      /\ DestroyReleases
  BY DEF SocketInv, Connection, Ticks, Deliveries
<1>4. /\ written \in 0 .. MaxWrites /\ pending \in {0, written}
      /\ opening \in BOOLEAN /\ calling \in 0 .. written
      /\ threw \subseteq Write /\ abandoned \in BOOLEAN
      /\ callbacks \in [Write -> Seq({"ok", "error"})]
      /\ sent \in Seq(Write)
  BY DEF SocketInv, WritesAreRight, Right, CallIsRight, Results
<1>5. CalledBackOnce
  BY DEF SocketInv, WritesAreRight, Right, Answers, CalledBackOnce
<1>6. OkMeansSent
  BY DEF SocketInv, WritesAreRight, Right, Successes, OkMeansSent
<1> QED
  BY <1>1, <1>2, <1>3, <1>4, <1>5, <1>6 DEF SocketTypeOK, CallbacksAreTrue

LEMMA SocketBegins ==
    ASSUME MaxWrites \in Nat, MaxReads \in Nat, SocketInit
    PROVE  SocketInv
<1>1. Connection /\ Ticks /\ Deliveries /\ DestroyReleases
  <2>1. Connection
    BY DEF SocketInit, Connection
  <2>2. Ticks
    BY DEF SocketInit, Ticks
  <2>3. Deliveries
    BY DEF SocketInit, Deliveries
  <2>4. DestroyReleases
    BY DEF SocketInit, DestroyReleases
  <2> QED
    BY <2>1, <2>2, <2>3, <2>4
<1>2. WritesAreRight
  <2>1. <<>> \in Seq(Results) /\ <<>> \in Seq(Write) /\ Len(<<>>) = 0
        /\ DOMAIN <<>> = {} /\ <<>> \notin Successes
    BY EmptySeq, Calls DEF Results, Successes
  <2>2. \A w \in Write : w > 0
    BY DEF Write
  <2>3. Right(written, pending, callbacks, sent, threw)
    <3>1. /\ written = 0 /\ pending = 0 /\ sent = <<>> /\ threw = {}
          /\ callbacks = [w \in Write |-> <<>>]
      BY DEF SocketInit
    <3>2. callbacks \in [Write -> Seq(Results)] /\ 0 \in 0 .. MaxWrites
      BY <2>1, <3>1
    <3> QED
      BY <2>1, <2>2, <3>1, <3>2 DEF Right
  <2>4. CallIsRight
    <3>1. opening = FALSE /\ abandoned = FALSE /\ calling = 0 /\ written = 0
      BY DEF SocketInit
    <3> QED
      BY <3>1, 0 \in 0 .. 0, FALSE \in BOOLEAN DEF CallIsRight
  <2> QED
    BY <2>3, <2>4 DEF WritesAreRight
<1> QED
  BY <1>1, <1>2 DEF SocketInv

\* A destroy releases all the socket holds, unless the pending write's callback
\* throws.
LEMMA DestroyedSocket ==
    ASSUME NEW p, NEW calls, Connection, Ticks, abandoned \in BOOLEAN, Destroy(p, calls),
           \/ (CloseWebSocket \/ ws' \in {"closing", "closed"}) /\ abandoned' = abandoned
           \/ UNCHANGED ws /\ abandoned' = TRUE,
           UNCHANGED <<timeoutSet, ended, finished>>
    PROVE  Connection' /\ Ticks' /\ DestroyReleases'
<1>1. Connection'
  BY DEF Connection, Destroy, CloseWebSocket
<1>2. Ticks'
  BY DEF Ticks, Destroy
<1>3. DestroyReleases'
  BY DEF DestroyReleases, Connection, Destroy, CloseWebSocket
<1> QED
  BY <1>1, <1>2, <1>3

\* A socket that is not destroyed may have timers and a WebSocket.
LEMMA NotDestroyed ==
    ASSUME ~destroyed, destroyed' = destroyed
    PROVE  DestroyReleases'
BY DEF DestroyReleases

\* A callback that gets an error destroys the socket, at once or in the next tick,
\* or it throws.
LEMMA FailedSocket ==
    ASSUME AutoDestroy \in BOOLEAN, NEW w, NEW armed \in BOOLEAN, NEW onTheSpot,
           ~destroyed, Connection, Ticks, abandoned \in BOOLEAN,
           Fail(w, armed, onTheSpot) \/ (Reject(w) /\ flushTimer' = armed),
           UNCHANGED <<timeoutSet, ended, finished>>
    PROVE  Connection' /\ Ticks' /\ DestroyReleases'
<1>1. CASE Destroy(0, Called(w, "error")) /\ CloseWebSocket /\ UNCHANGED abandoned
  BY <1>1, DestroyedSocket
<1>2. CASE /\ UNCHANGED <<ws, stream, timeoutTimer>>
           /\ flushTimer' = armed /\ doomed' \in {doomed, doomed \/ AutoDestroy}
  <2>1. Connection' /\ destroyed' = destroyed
    BY <1>2 DEF Connection, stream
  <2>2. Ticks'
    BY <1>2 DEF Ticks
  <2> QED
    BY <2>1, <2>2, NotDestroyed
<1> QED
  BY <1>1, <1>2 DEF Fail, Reject

LEMMA FlushedSocket ==
    ASSUME AutoDestroy \in BOOLEAN, NEW w, NEW armed \in BOOLEAN, NEW caller, ~destroyed,
           Connection, Ticks, abandoned \in BOOLEAN, Flush(w, armed, caller),
           UNCHANGED <<timeoutSet, ended, finished>>
    PROVE  Connection' /\ Ticks' /\ DestroyReleases'
<1>1. CASE SendThrows(w, armed, caller) \/ FindClosed(w, armed)
  <2>1. Fail(w, armed, caller = w) \/ (Reject(w) /\ flushTimer' = armed)
    BY <1>1 DEF SendThrows, FindClosed
  <2> QED
    BY <2>1, FailedSocket
<1>2. CASE Postpone(w, armed) \/ Send(w, armed, caller)
  <2>1. UNCHANGED <<ws, stream>>
    BY <1>2 DEF Postpone, Send
  <2>2. Connection' /\ destroyed' = destroyed
    BY <2>1 DEF Connection, stream
  <2>3. Ticks'
    <3>1. CASE Postpone(w, armed)
      BY <3>1 DEF Postpone, Ticks
    <3>2. CASE Send(w, armed, caller)
      BY <3>2 DEF Send, Touch, Ticks
    <3> QED
      BY <1>2, <3>1, <3>2
  <2> QED
    BY <2>2, <2>3, NotDestroyed
<1> QED
  BY <1>1, <1>2 DEF Flush

LEMMA SocketStep ==
    ASSUME MaxWrites \in Nat, MaxReads \in Nat, AutoDestroy \in BOOLEAN,
           SocketInv, [SocketNext]_socketVars
    PROVE  SocketInv'
<1>1. /\ Connection /\ Ticks /\ DestroyReleases
      /\ pushed \in 0 .. MaxReads /\ ends \in Nat /\ abandoned \in BOOLEAN
  BY DEF SocketInv, Deliveries, WritesAreRight, CallIsRight
<1>2. WritesAreRight'
  BY WritesStep DEF SocketInv
<1>3. Deliveries'
  <2>1. CASE Message
    BY <1>1, <2>1 DEF Message, Deliveries
  <2>2. CASE Closed
    BY <1>1, <2>2 DEF Closed, Deliveries
  <2>3. CASE ~Message /\ ~Closed
    <3>1. UNCHANGED reader
      BY <2>3 DEF SocketNext, ConnectInvalid, Connect, WriteNext, Poll, EndTurn,
                  CallbackReturns, CallbackThrows, OpenFlush,
                  SetTimeout, Timeout, End, Final,
                  DestroyNow, Opened, PeerCloses, Error, socketVars
    <3> QED
      BY <1>1, <3>1 DEF reader, Deliveries
  <2> QED
    BY <2>1, <2>2, <2>3
<1>4. Connection' /\ Ticks' /\ DestroyReleases'
  <2>1. CASE ConnectInvalid \/ Connect
    <3>1. /\ UNCHANGED <<readable, destroyed, timers, ended, finished, pending>>
          /\ doomed' \in BOOLEAN
      BY <1>1, <2>1 DEF ConnectInvalid, Connect, stream, writes, Ticks
    <3>2. Ticks'
      BY <1>1, <3>1 DEF Ticks, timers
    <3>3. CASE ConnectInvalid
      <4>1. UNCHANGED <<ws, stream, abandoned>>
        BY <3>3 DEF ConnectInvalid, faults
      <4>2. Connection'
        BY <1>1, <4>1 DEF Connection, stream
      <4>3. DestroyReleases'
        BY <1>1, <3>1, <4>1 DEF DestroyReleases, timers
      <4> QED
        BY <3>2, <4>2, <4>3
    <3>4. CASE Connect
      <4>1. Connection'
        BY <1>1, <3>1, <3>4 DEF Connect, Connection
      <4>2. destroyed => abandoned'
        BY <3>4 DEF Connect
      <4>3. DestroyReleases'
        BY <1>1, <3>1, <4>2 DEF DestroyReleases, timers
      <4> QED
        BY <3>2, <4>1, <4>3
    <3> QED
      BY <2>1, <3>3, <3>4
  <2>2. CASE WriteNext
    <3>1. ~destroyed /\ UNCHANGED <<timeoutSet, ended, finished>>
      BY <2>2 DEF WriteNext
    <3>2. CASE Flush(written', flushTimer, calling)
      BY <1>1, <3>1, <3>2, FlushedSocket DEF Ticks
    <3>3. CASE Reject(written') /\ UNCHANGED flushTimer
      BY <1>1, <3>1, <3>3, FailedSocket DEF Ticks
    <3> QED
      BY <2>2, <3>2, <3>3 DEF WriteNext
  <2>3. CASE Poll \/ OpenFlush
    <3>1. UNCHANGED <<timeoutSet, ended, finished>>
      BY <2>3 DEF Poll, OpenFlush
    <3>2. CASE /\ flushTimer' \in {flushTimer, FALSE}
               /\ UNCHANGED <<ws, stream, timeoutTimer, pending, doomed, faults>>
      <4>1. Connection'
        BY <1>1, <3>2 DEF Connection, stream
      <4>2. Ticks'
        BY <1>1, <3>1, <3>2 DEF Ticks
      <4>3. DestroyReleases'
        BY <1>1, <3>2 DEF DestroyReleases, stream, faults
      <4> QED
        BY <4>1, <4>2, <4>3
    <3>3. CASE pending # 0 /\ \E armed \in BOOLEAN : Flush(pending, armed, pending)
      <4>1. ~destroyed
        BY <1>1, <3>3 DEF DestroyReleases
      <4> QED
        BY <1>1, <3>1, <3>3, <4>1, FlushedSocket
    <3>4. flushTimer \in BOOLEAN
      BY <1>1 DEF Ticks
    <3> QED
      BY <2>3, <3>2, <3>3, <3>4 DEF Poll, OpenFlush
  <2>4. CASE DestroyNow \/ Error \/ Closed
    <3>1. UNCHANGED <<timeoutSet, ended, finished>>
      BY <2>4 DEF DestroyNow, Error, Closed
    <3>2. CASE Destroy(pending, callbacks)
      <4>1. \/ (CloseWebSocket \/ ws' \in {"closing", "closed"}) /\ abandoned' = abandoned
            \/ UNCHANGED ws /\ abandoned' = TRUE
        BY <2>4 DEF DestroyNow, Release, Error, Closed, faults
      <4> QED
        BY <1>1, <3>1, <3>2, <4>1, DestroyedSocket
    <3>3. CASE ~Destroy(pending, callbacks)
      <4>1. /\ destroyed /\ ws' \in {"closing", "closed"}
            /\ connecting' \in {connecting, FALSE} /\ readable' \in {readable, FALSE}
            /\ writable' \in {writable, FALSE}
            /\ UNCHANGED <<destroyed, flushTimer, timeoutTimer, doomed, pending, abandoned>>
        BY <2>4, <3>3 DEF DestroyNow, Error, Closed, stream, faults
      <4>2. Connection'
        BY <1>1, <4>1 DEF Connection
      <4>3. Ticks'
        BY <1>1, <3>1, <4>1 DEF Ticks
      <4>4. DestroyReleases'
        BY <1>1, <4>1 DEF DestroyReleases
      <4> QED
        BY <4>2, <4>3, <4>4
    <3> QED
      BY <3>2, <3>3
  <2>5. CASE CallbackThrows
    <3>1. UNCHANGED <<timeoutSet, ended, finished>>
      BY <2>5 DEF CallbackThrows
    <3>2. CASE destroyed
      <4>1. UNCHANGED <<ws, stream, flushTimer, timeoutTimer, pending, doomed, abandoned>>
        BY <2>5, <3>2 DEF CallbackThrows
      <4>2. Connection' /\ Ticks'
        BY <1>1, <3>1, <4>1 DEF Connection, stream, Ticks
      <4>3. DestroyReleases'
        BY <1>1, <4>1 DEF DestroyReleases, stream
      <4> QED
        BY <4>2, <4>3
    <3>3. CASE ~destroyed
      <4>1. PICK w : Fail(w, flushTimer, pending # 0)
        BY <2>5, <3>3 DEF CallbackThrows
      <4>2. flushTimer \in BOOLEAN
        BY <1>1 DEF Ticks
      <4> QED
        BY <1>1, <3>1, <3>3, <4>1, <4>2, FailedSocket
    <3> QED
      BY <3>2, <3>3
  <2>6. CASE Opened
    <3>1. destroyed' = destroyed /\ UNCHANGED <<timeoutSet, flushTimer, pending, abandoned, life>>
      BY <2>6 DEF Opened, writes, faults
    <3>2. Connection'
      BY <1>1, <2>6 DEF Opened, Connection
    <3>3. Ticks'
      BY <1>1, <2>6, <3>1 DEF Opened, Ticks, Touch, life
    <3>4. DestroyReleases'
      <4>1. CASE ~destroyed
        BY <3>1, <4>1, NotDestroyed
      <4>2. CASE destroyed
        <5>1. abandoned
          BY <1>1, <2>6, <4>2 DEF Opened, DestroyReleases
        <5> QED
          BY <1>1, <3>1, <4>2, <5>1 DEF DestroyReleases
      <4> QED
        BY <4>1, <4>2
    <3> QED
      BY <3>2, <3>3, <3>4
  <2>7. CASE SetTimeout \/ Timeout \/ Message
    <3>1. UNCHANGED <<ws, stream, flushTimer, pending>>
      BY <2>7 DEF SetTimeout, Timeout, Message, writes
    <3>2. Connection' /\ destroyed' = destroyed
      BY <1>1, <3>1 DEF Connection, stream
    <3>3. Ticks'
      <4>1. CASE SetTimeout
        BY <1>1, <4>1 DEF SetTimeout, Ticks, life
      <4>2. CASE Timeout
        BY <1>1, <4>2 DEF Timeout, Ticks, life
      <4>3. CASE Message
        BY <1>1, <4>3 DEF Message, Touch, Ticks, life
      <4> QED
        BY <2>7, <4>1, <4>2, <4>3
    <3>4. DestroyReleases'
      <4>1. CASE SetTimeout
        BY <1>1, <3>1, <3>2, <4>1 DEF SetTimeout, DestroyReleases
      <4>2. CASE Timeout \/ Message
        BY <1>1, <3>1, <3>2, <4>2 DEF Timeout, Message, faults, DestroyReleases
      <4> QED
        BY <2>7, <4>1, <4>2
    <3> QED
      BY <3>2, <3>3, <3>4
  <2>8. CASE CallbackReturns \/ End \/ Final \/ PeerCloses \/ UNCHANGED socketVars
    <3>1. UNCHANGED <<stream, timers, pending, abandoned>>
      BY <2>8 DEF CallbackReturns, End, Final, PeerCloses, socketVars, writes, faults
    <3>2. ws' \in {ws, "closing"}
      BY <2>8 DEF CallbackReturns, End, Final, PeerCloses, socketVars
    <3>3. Connection'
      BY <1>1, <3>1, <3>2 DEF Connection, stream
    <3>4. Ticks'
      <4>1. ended' \in BOOLEAN /\ finished' \in BOOLEAN /\ doomed' \in BOOLEAN
        BY <1>1, <2>8 DEF CallbackReturns, End, Final, PeerCloses, socketVars,
                          life, Ticks
      <4> QED
        BY <1>1, <3>1, <4>1 DEF timers, Ticks
    <3>5. DestroyReleases'
      BY <1>1, <3>1, <3>2 DEF stream, timers, DestroyReleases
    <3> QED
      BY <3>3, <3>4, <3>5
  <2> QED
    BY <2>1, <2>2, <2>3, <2>4, <2>5, <2>6, <2>7, <2>8 DEF SocketNext, EndTurn
<1> QED
  BY <1>2, <1>3, <1>4 DEF SocketInv

\* The socket of a tunnel keeps its types, has no timer without a reason, and
\* keeps no flush timer and no pending write once it is destroyed, whatever the
\* order in which the stream library, the timers and the WebSocket call it.  Nor
\* does it keep its WebSocket or timeout, but for the exceptions `abandoned' names:
\* connect() or setTimeout() after destroy(), and a callback that throws into
\* _destroy or into a catch.
THEOREM SocketTypeCorrect == SocketSpec => []SocketTypeOK
<1>1. SocketInit => SocketInv
  BY SocketBegins, SocketAssumption
<1>2. SocketInv /\ [SocketNext]_socketVars => SocketInv'
  BY SocketStep, SocketAssumption
<1>3. SocketInv => SocketTypeOK
  BY SocketInvImplies
<1> QED
  BY <1>1, <1>2, <1>3, PTL DEF SocketSpec

\* Every write is called back once, though ws.send may throw and a destroy may
\* find it pending, unless its own callback throws: then it may be called again,
\* with an error.  The first call says what happened: the writes that succeeded
\* are those the WebSocket got, once each and in order.
THEOREM WritersHearTheTruth == SocketSpec => []CallbacksAreTrue
<1>1. SocketInit => SocketInv
  BY SocketBegins, SocketAssumption
<1>2. SocketInv /\ [SocketNext]_socketVars => SocketInv'
  BY SocketStep, SocketAssumption
<1>3. SocketInv => CallbacksAreTrue
  BY SocketInvImplies
<1> QED
  BY <1>1, <1>2, <1>3, PTL DEF SocketSpec
=============================================================================
