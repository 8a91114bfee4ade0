------------------------- MODULE OrchestratorProofs -------------------------
(***************************************************************************)
(* What the orchestrator guarantees for any number of worlds, launches and *)
(* ports: the bounds on its map in every environment, one process per      *)
(* world when no preparation is abandoned, and a process behind every      *)
(* `ready' when output is read before the exit is handled.                 *)
(***************************************************************************)
EXTENDS Orchestrator, TLAPS, FiniteSetTheorems, WellFoundedInduction

RegisteredWorlds == {w \in Worlds : IsRegistered(w)}

\* Every set of naturals that is not empty has a least element.
LEMMA LeastNatural ==
    ASSUME NEW T, T \subseteq Nat, T # {}
    PROVE  \E x \in T : \A y \in T : x <= y
<1>1. PICK x \in T : \A y \in T : ~(<<y, x>> \in OpToRel(<, Nat))
  BY NatLessThanWellFounded, WFMin
<1>2. \A y \in T : <<y, x>> \in Nat \X Nat
  OBVIOUS
<1>3. \A y \in T : ~(y < x)
  BY <1>1, <1>2 DEF OpToRel
<1> QED
  BY <1>3

-----------------------------------------------------------------------------
(* The map never outgrows the ports.                                       *)

\* In every environment.
RegistryInv == TypeOK /\ RegistryBounded

\* The search of portFor succeeds whenever the launch is let through: were
\* every port taken, each would belong to another registered world.
LEMMA PortSearch ==
    ASSUME IsFiniteSet(Worlds), TypeOK, NEW w \in Worlds, MaySpawn(w)
    PROVE  Ports \ activePorts # {} /\ portFor(w) \in Ports
<1> DEFINE R == {v \in Worlds \ {w} : IsRegistered(v)}
<1>1. IsFiniteSet(R) /\ Cardinality(R) \in Nat /\ Cardinality(R) < MaxActive
  <2>1. R \subseteq Worlds
    OBVIOUS
  <2>2. IsFiniteSet(R)
    BY <2>1, FS_Subset
  <2> QED
    BY <2>2, FS_CardinalityType DEF MaySpawn
<1>2. IsFiniteSet(Ports) /\ Cardinality(Ports) = Span
  BY FS_Interval, PortsAssumption DEF Ports
<1>3. \A p \in activePorts : \E v \in R : port[Current(v)] = p
  <2> SUFFICES ASSUME NEW o \in Registered, HasChild(o)
               PROVE  \E v \in R : port[Current(v)] = port[o]
    BY DEF activePorts
  <2>1. o \in Objects /\ worlds[o[1]] = o[2] /\ o[1] \in Worlds /\ o[2] # 0
    BY DEF Registered, Objects, Starts
  <2>2. Current(o[1]) = o
    BY <2>1 DEF Current, Objects
  <2>3. o[1] # w
    BY <2>1, <2>2 DEF MaySpawn, IsRegistered, Retryable
  <2> QED
    BY <2>1, <2>2, <2>3 DEF IsRegistered
<1>4. Ports \ activePorts # {}
  <2> SUFFICES ASSUME Ports \subseteq activePorts PROVE FALSE
    OBVIOUS
  <2> DEFINE owner == [p \in Ports |-> CHOOSE v \in R : port[Current(v)] = p]
  <2>1. \A p \in Ports : owner[p] \in R /\ port[Current(owner[p])] = p
    BY <1>3
  <2>2. owner \in Injection(Ports, R)
    BY <2>1 DEF Injection, IsInjective
  <2>3. Cardinality(Ports) <= Cardinality(R)
    BY <1>1, <2>2, FS_Injection
  <2> QED
    BY <1>1, <1>2, <2>3, ActiveAssumption, PortsAssumption
<1>5. portFor(w) \in Ports
  <2> DEFINE F == Ports \ activePorts
  <2> DEFINE D == {Distance(w, p) : p \in F}
  <2>1. \A p \in F : Distance(w, p) \in Nat
    BY PortsAssumption DEF Distance, Ports
  <2>2. D \subseteq Nat /\ D # {}
    BY <1>4, <2>1
  <2>3. PICK d \in D : \A y \in D : d <= y
    BY <2>2, LeastNatural
  <2>4. PICK p \in F : \A q \in F : Distance(w, p) <= Distance(w, q)
    BY <2>3
  <2> QED
    BY <2>4 DEF portFor
<1> QED
  BY <1>4, <1>5

LEMMA StopWorldType ==
    ASSUME TypeOK, NEW S, stopWorld(S)
    PROVE  /\ status' \in [Objects -> {"starting", "ready", "stopping",
                                       "error", "stopped"}]
           /\ told' \in [Objects -> {"nothing", "save", "stop", "term"}]
BY DEF stopWorld, TypeOK

\* Only a launch adds to the map, and its guard leaves room for it.
LEMMA RegistryStep ==
    ASSUME IsFiniteSet(Worlds), RegistryInv, [Next]_vars
    PROVE  RegistryInv'
<1> USE DEF RegistryInv
<1>1. ASSUME RegisteredWorlds' \subseteq RegisteredWorlds
      PROVE  RegistryBounded'
  <2>1. IsFiniteSet(RegisteredWorlds)
    BY FS_Subset DEF RegisteredWorlds
  <2>2. Cardinality(RegisteredWorlds') <= Cardinality(RegisteredWorlds)
    BY <1>1, <2>1, FS_Subset
  <2>3. /\ Cardinality(RegisteredWorlds) \in Nat
        /\ Cardinality(RegisteredWorlds') \in Nat
    BY <1>1, <2>1, FS_Subset, FS_CardinalityType
  <2> QED
    BY <2>2, <2>3, ActiveAssumption DEF RegistryBounded, RegisteredWorlds
<1>2. ASSUME UNCHANGED worlds
      PROVE  RegistryBounded'
  BY <1>2 DEF RegistryBounded, IsRegistered
<1>3. ASSUME NEW w \in Worlds, EnsureStart(w)
      PROVE  RegistryInv'
  <2> DEFINE o == <<w, launches[w] + 1>>
  <2>1. launches[w] + 1 \in Starts /\ o \in Objects
    BY <1>3, BoundsAssumption DEF EnsureStart, TypeOK, Starts, Objects
  <2>2. portFor(w) \in Ports
    BY <1>3, PortSearch DEF EnsureStart
  <2>3. TypeOK'
    <3>1. launches[w] + 1 \in 0 .. MaxStarts
      BY <2>1, BoundsAssumption DEF Starts
    <3>2. /\ launches' = [launches EXCEPT ![w] = launches[w] + 1]
          /\ worlds' = [worlds EXCEPT ![w] = launches[w] + 1]
          /\ port' = [port EXCEPT ![o] = portFor(w)]
          /\ status' = [status EXCEPT ![o] = "starting"]
          /\ paper' = [paper EXCEPT ![o] = "preparing"]
          /\ UNCHANGED <<players, doneLine, told, phase>>
      BY <1>3 DEF EnsureStart
    <3> HIDE DEF o
    <3>3. /\ launches' \in [Worlds -> 0 .. MaxStarts]
          /\ worlds' \in [Worlds -> 0 .. MaxStarts]
      BY <3>1, <3>2 DEF TypeOK
    <3>4. port' \in [Objects -> 0 .. Span - 1]
      BY <2>2, <3>2 DEF TypeOK, Ports
    <3> QED
      BY <3>2, <3>3, <3>4 DEF TypeOK
  <2> DEFINE R == {v \in Worlds \ {w} : IsRegistered(v)}
  <2>4. RegisteredWorlds' \subseteq R \cup {w}
    BY <1>3 DEF EnsureStart, RegisteredWorlds, IsRegistered, TypeOK
  <2>5. IsFiniteSet(R) /\ Cardinality(R) \in Nat /\ Cardinality(R) < MaxActive
    <3>1. R \subseteq Worlds
      OBVIOUS
    <3>2. IsFiniteSet(R)
      BY <3>1, FS_Subset
    <3> QED
      BY <1>3, <3>2, FS_CardinalityType DEF EnsureStart, MaySpawn
  <2>6. IsFiniteSet(R \cup {w}) /\ Cardinality(R \cup {w}) <= MaxActive
    <3>1. w \notin R
      OBVIOUS
    <3> HIDE DEF R
    <3>2. IsFiniteSet(R \cup {w}) /\ Cardinality(R \cup {w}) = Cardinality(R) + 1
      BY <2>5, <3>1, FS_AddElement
    <3> QED
      BY <2>5, <3>2, ActiveAssumption
  <2>7. /\ Cardinality(RegisteredWorlds') <= Cardinality(R \cup {w})
        /\ Cardinality(RegisteredWorlds') \in Nat
        /\ Cardinality(R \cup {w}) \in Nat
    BY <2>4, <2>6, FS_Subset, FS_CardinalityType
  <2>8. RegistryBounded'
    BY <2>6, <2>7, ActiveAssumption DEF RegistryBounded, RegisteredWorlds
  <2> QED
    BY <2>3, <2>8
<1>4. ASSUME NEW w \in Worlds, EnsureTimeout(w)
      PROVE  RegistryInv'
  <2>1. TypeOK'
    BY <1>4, StopWorldType DEF EnsureTimeout, Fail, TypeOK
  <2> QED
    BY <1>2, <1>4, <2>1 DEF EnsureTimeout
<1>5. ASSUME NEW w \in Worlds, NEW n \in 0 .. MaxPlayers, PresenceUpdate(w, n)
      PROVE  RegistryInv'
  <2>1. TypeOK'
    BY <1>5 DEF PresenceUpdate, TypeOK
  <2> QED
    BY <1>2, <1>5, <2>1 DEF PresenceUpdate
<1>6. ASSUME NEW w \in Worlds, StopRequest(w)
      PROVE  RegistryInv'
  <2>1. TypeOK'
    BY <1>6, StopWorldType, BoundsAssumption DEF StopRequest, TypeOK
  <2>2. RegisteredWorlds' \subseteq RegisteredWorlds
    BY <1>6 DEF StopRequest, RegisteredWorlds, IsRegistered, TypeOK
  <2> QED
    BY <1>1, <2>1, <2>2
<1>7. ASSUME NEW o \in Objects, Launching(o)
      PROVE  RegistryInv'
  <2>1. TypeOK'
    BY <1>7 DEF Launching, SpawnPaper, PreparationFails, SpawnFails, Fail, TypeOK
  <2>2. UNCHANGED worlds
    BY <1>7 DEF Launching, SpawnPaper, PreparationFails, SpawnFails
  <2> QED
    BY <1>2, <2>1, <2>2
<1>8. ASSUME NEW o \in Objects, ExitEvent(o)
      PROVE  RegistryInv'
  <2>1. TypeOK'
    BY <1>8, BoundsAssumption DEF ExitEvent, Fail, TypeOK, Objects
  <2>2. RegisteredWorlds' \subseteq RegisteredWorlds
    BY <1>8 DEF ExitEvent, RegisteredWorlds, IsRegistered, TypeOK, Objects
  <2> QED
    BY <1>1, <2>1, <2>2
<1>9. ASSUME NEW o \in Objects,
             ReadDone(o) \/ StopTimer(o) \/ PaperBoots(o) \/ PaperEnds(o)
      PROVE  RegistryInv'
  <2>1. TypeOK'
    BY <1>9 DEF ReadDone, StopTimer, PaperBoots, PaperEnds, TypeOK
  <2>2. UNCHANGED worlds
    BY <1>9 DEF ReadDone, StopTimer, PaperBoots, PaperEnds
  <2> QED
    BY <1>2, <2>1, <2>2
<1>10. ASSUME IdleSweep \/ ShutdownBegins \/ ShutdownEnds
       PROVE  RegistryInv'
  <2>1. TypeOK'
    <3>1. CASE IdleSweep
      BY <3>1, StopWorldType DEF IdleSweep, TypeOK
    <3>2. CASE ShutdownBegins
      BY <3>2, StopWorldType DEF ShutdownBegins, TypeOK
    <3>3. CASE ShutdownEnds
      BY <3>3 DEF ShutdownEnds, TypeOK
    <3> QED
      BY <1>10, <3>1, <3>2, <3>3
  <2>2. UNCHANGED worlds
    BY <1>10 DEF IdleSweep, ShutdownBegins, ShutdownEnds
  <2> QED
    BY <1>2, <2>1, <2>2
<1>11. ASSUME UNCHANGED vars
       PROVE  RegistryInv'
  BY <1>2, <1>11 DEF vars, TypeOK
<1> QED
  BY <1>3, <1>4, <1>5, <1>6, <1>7, <1>8, <1>9, <1>10, <1>11
     DEF Next, Request, Event

LEMMA RegistryInit ==
    ASSUME IsFiniteSet(Worlds), Init
    PROVE  RegistryInv
<1>1. TypeOK
  BY BoundsAssumption, PortsAssumption DEF Init, TypeOK
<1>2. RegisteredWorlds = {}
  BY DEF Init, RegisteredWorlds, IsRegistered
<1>3. RegistryBounded
  BY <1>2, FS_EmptySet, ActiveAssumption DEF RegistryBounded, RegisteredWorlds
<1> QED
  BY <1>1, <1>3 DEF RegistryInv

(* Every object keeps its types; in particular portFor only hands out ports *)
(* of the configured range.                                                *)
THEOREM OrchestratorTypeCorrect ==
    ASSUME IsFiniteSet(Worlds)
    PROVE  Spec => []TypeOK
<1>1. Init => RegistryInv
  BY RegistryInit
<1>2. RegistryInv /\ [Next]_vars => RegistryInv'
  BY RegistryStep
<1>3. RegistryInv => TypeOK
  BY DEF RegistryInv
<1> QED
  BY <1>1, <1>2, <1>3, PTL DEF Spec

(* worlds.size never exceeds MAX_ACTIVE_WORLDS and, because the start-up   *)
(* check keeps that within the port range, a launch that is let through    *)
(* finds a free port, in every environment.                                *)
THEOREM RegistryFitsPorts ==
    ASSUME IsFiniteSet(Worlds)
    PROVE  Spec => [](RegistryBounded /\ PortAlwaysFree)
<1>1. Init => RegistryInv
  BY RegistryInit
<1>2. RegistryInv /\ [Next]_vars => RegistryInv'
  BY RegistryStep
<1>3. RegistryInv => RegistryBounded /\ PortAlwaysFree
  BY PortSearch DEF RegistryInv, PortAlwaysFree
<1> QED
  BY <1>1, <1>2, <1>3, PTL DEF Spec

-----------------------------------------------------------------------------
(* One process per world, in a household where preparations are quick and  *)
(* nobody forgets a world that is still being prepared.                    *)

Household == ~StopsUnspawned /\ ~SlowPreparation

\* A launch whose last event is still to come.
Unfinished(o) == paper[o] \in {"preparing", "absent", "booting", "serving", "dead"}

\* The map knows the object of every unfinished launch.
Owned == \A o \in Objects : Unfinished(o) => worlds[o[1]] = o[2]
PreparingIsStarting ==
    \A o \in Objects : paper[o] = "preparing" => status[o] = "starting"
\* Until a process serves, no Done line is in its pipe.
DoneComesFromPaper ==
    \A o \in Objects : doneLine[o] => paper[o] \in {"serving", "dead", "gone"}

\* Objects not created yet have done nothing.
FutureIsUnused ==
    \A o \in Objects : o[2] > launches[o[1]] => paper[o] = "unused"

OwnershipInv ==
    /\ RegistryInv
    /\ Owned
    /\ PreparingIsStarting
    /\ DoneComesFromPaper
    /\ FutureIsUnused

LEMMA SameWorld ==
    ASSUME NEW o1 \in Objects, NEW o2 \in Objects, o1[1] = o2[1], o1[2] = o2[2]
    PROVE  o1 = o2
BY DEF Objects

LEMMA OwnershipStep ==
    ASSUME Household, OwnershipInv, TypeOK', [Next]_vars
    PROVE  Owned' /\ PreparingIsStarting' /\ DoneComesFromPaper' /\ FutureIsUnused'
<1> USE DEF OwnershipInv
<1> DEFINE Goal == Owned' /\ PreparingIsStarting' /\ DoneComesFromPaper'
                   /\ FutureIsUnused'
<1>1. ASSUME NEW S, UNCHANGED <<worlds, launches, paper, doneLine>>,
             stopWorld(S) \/ UNCHANGED status
      PROVE  Goal
  <2>1. \A o \in Objects : paper[o] = "preparing" => status'[o] = status[o]
    BY <1>1 DEF stopWorld, HasChild
  <2> QED
    BY <1>1, <2>1
       DEF Owned, Unfinished, PreparingIsStarting, DoneComesFromPaper,
           FutureIsUnused
<1>2. ASSUME NEW w \in Worlds, EnsureStart(w)
      PROVE  Goal
  <2> DEFINE n == <<w, launches[w] + 1>>
  <2>1. n \in Objects
    BY <1>2, BoundsAssumption
       DEF EnsureStart, RegistryInv, TypeOK, Objects, Starts
  <2>2. \A o \in Objects : o[1] = w => ~Unfinished(o)
    <3> SUFFICES ASSUME NEW o \in Objects, o[1] = w, Unfinished(o)
                 PROVE  FALSE
      OBVIOUS
    <3>1. worlds[w] = o[2] /\ o[2] # 0
      BY DEF Owned, Objects, Starts
    <3>2. Current(w) = o
      BY <3>1 DEF Current, Objects
    <3>3. status[o] = "error" /\ ~HasChild(o)
      BY <1>2, <3>1, <3>2 DEF EnsureStart, MaySpawn, IsRegistered, Retryable
    <3>4. paper[o] # "preparing"
      BY <3>3 DEF PreparingIsStarting
    <3> QED
      BY <3>3, <3>4 DEF Unfinished, HasChild
  <2>3. /\ worlds' = [worlds EXCEPT ![w] = launches[w] + 1]
        /\ status' = [status EXCEPT ![n] = "starting"]
        /\ paper' = [paper EXCEPT ![n] = "preparing"]
        /\ doneLine' = doneLine
    BY <1>2 DEF EnsureStart
  <2>4. /\ worlds'[w] = n[2]
        /\ \A v \in Worlds : v # w => worlds'[v] = worlds[v]
        /\ paper'[n] = "preparing" /\ status'[n] = "starting"
        /\ \A o \in Objects : o # n => paper'[o] = paper[o] /\ status'[o] = status[o]
    BY <2>1, <2>3 DEF RegistryInv, TypeOK
  <2>5. n[1] = w
    OBVIOUS
  <2> HIDE DEF n
  <2>6. Owned'
    <3> SUFFICES ASSUME NEW o \in Objects, Unfinished(o)'
                 PROVE  worlds'[o[1]] = o[2]
      BY DEF Owned
    <3>1. CASE o = n
      BY <2>4, <2>5, <3>1
    <3>2. CASE o # n
      <4>1. Unfinished(o)
        BY <2>4, <3>2 DEF Unfinished
      <4>2. o[1] # w /\ o[1] \in Worlds
        BY <2>2, <4>1 DEF Objects
      <4> QED
        BY <2>4, <4>1, <4>2 DEF Owned
    <3> QED
      BY <3>1, <3>2
  <2>7. ~doneLine[n]
    <3>1. launches[w] \in Nat
      BY DEF RegistryInv, TypeOK
    <3>2. paper[n] = "unused"
      BY <2>1, <3>1 DEF FutureIsUnused, n
    <3> QED
      BY <2>1, <3>2 DEF DoneComesFromPaper
  <2>8. PreparingIsStarting' /\ DoneComesFromPaper'
    BY <2>3, <2>4, <2>7 DEF PreparingIsStarting, DoneComesFromPaper
  <2>9. FutureIsUnused'
    <3>1. launches' = [launches EXCEPT ![w] = launches[w] + 1]
      BY <1>2 DEF EnsureStart
    <3>2. launches \in [Worlds -> Nat] /\ n[2] = launches[w] + 1
      BY DEF RegistryInv, TypeOK, n
    <3> SUFFICES ASSUME NEW o \in Objects, o[2] > launches'[o[1]]
                 PROVE  paper'[o] = "unused"
      BY DEF FutureIsUnused
    <3>3. o[1] \in Worlds /\ o[2] \in Nat
      BY DEF Objects, Starts
    <3>4. o[2] > launches[o[1]] /\ o # n
      BY <2>5, <3>1, <3>2, <3>3
    <3> QED
      BY <2>4, <3>4 DEF FutureIsUnused
  <2> QED
    BY <2>6, <2>8, <2>9
<1>3. ASSUME NEW w \in Worlds, EnsureTimeout(w)
      PROVE  Goal
  <2>1. Current(w) \in Objects /\ worlds[w] # 0
    BY <1>3
       DEF EnsureTimeout, Current, IsRegistered, Objects, Starts, RegistryInv, TypeOK
  <2>2. paper[Current(w)] # "preparing"
    BY <1>3 DEF EnsureTimeout, Household
  <2>3. CASE HasChild(Current(w))
    BY <1>1, <1>3, <2>3 DEF EnsureTimeout
  <2>4. CASE ~HasChild(Current(w))
    <3>1. status' = [status EXCEPT ![Current(w)] = "error"]
      BY <1>3, <2>4 DEF EnsureTimeout, Fail
    <3>2. \A o \in Objects : paper[o] = "preparing" => status'[o] = status[o]
      BY <2>2, <3>1 DEF RegistryInv, TypeOK
    <3> QED
      BY <1>3, <3>2
         DEF EnsureTimeout, Owned, Unfinished, PreparingIsStarting,
             DoneComesFromPaper, FutureIsUnused
  <2> QED
    BY <2>3, <2>4
<1>4. ASSUME NEW w \in Worlds, NEW k, PresenceUpdate(w, k)
      PROVE  Goal
  BY <1>1, <1>4 DEF PresenceUpdate
<1>5. ASSUME NEW w \in Worlds, StopRequest(w)
      PROVE  Goal
  <2>1. CASE HasChild(Current(w))
    BY <1>1, <1>5, <2>1 DEF StopRequest
  <2>2. CASE ~HasChild(Current(w))
    <3>1. /\ worlds' = [worlds EXCEPT ![w] = 0]
          /\ UNCHANGED <<status, paper, doneLine, launches>>
      BY <1>5, <2>2 DEF StopRequest
    <3>2. ~Unfinished(Current(w))
      BY <1>5, <2>2 DEF StopRequest, Household, Unfinished, HasChild
    <3>3. ASSUME NEW o \in Objects, Unfinished(o)
          PROVE  worlds'[o[1]] = o[2]
      <4>1. worlds[o[1]] = o[2] /\ o[1] \in Worlds
        BY <3>3 DEF Owned, Objects
      <4>2. o[1] # w
        BY <3>2, <3>3, <4>1 DEF Current, Objects
      <4> QED
        BY <3>1, <4>1, <4>2 DEF RegistryInv, TypeOK
    <3> QED
      BY <3>1, <3>3
         DEF Owned, Unfinished, PreparingIsStarting, DoneComesFromPaper,
             FutureIsUnused
  <2> QED
    BY <2>1, <2>2
<1>6. ASSUME NEW o \in Objects, Launching(o) \/ PaperBoots(o) \/ PaperEnds(o)
      PROVE  Goal
  <2>1. /\ Unfinished(o)
        /\ UNCHANGED <<worlds, launches>>
        /\ \A x \in Objects : x # o =>
              /\ paper'[x] = paper[x]
              /\ status'[x] = status[x]
              /\ doneLine'[x] = doneLine[x]
        /\ paper'[o] \in {"aborted", "absent", "booting", "serving", "dead"}
        /\ doneLine'[o] = doneLine[o] \/ paper'[o] = "serving"
        /\ paper[o] \in {"preparing", "booting", "serving"}
        /\ paper[o] = "serving" => paper'[o] = "dead"
    BY <1>6
       DEF Launching, SpawnPaper, PreparationFails, SpawnFails, Fail, PaperBoots,
           PaperEnds, Alive, Unfinished, RegistryInv, TypeOK
  <2>2. Owned'
    BY <2>1 DEF Owned, Unfinished
  <2>3. PreparingIsStarting' /\ FutureIsUnused'
    BY <2>1 DEF PreparingIsStarting, FutureIsUnused
  <2>4. DoneComesFromPaper'
    BY <2>1 DEF DoneComesFromPaper
  <2> QED
    BY <2>2, <2>3, <2>4
<1>7. ASSUME NEW o \in Objects, ReadDone(o)
      PROVE  Goal
  <2>1. /\ paper[o] # "preparing"
        /\ UNCHANGED <<worlds, launches, paper>>
        /\ \A x \in Objects : x # o => status'[x] = status[x]
        /\ \A x \in Objects : doneLine'[x] => doneLine[x]
    BY <1>7 DEF ReadDone, DoneComesFromPaper, RegistryInv, TypeOK
  <2> QED
    BY <2>1
       DEF Owned, Unfinished, PreparingIsStarting, DoneComesFromPaper,
           FutureIsUnused
<1>8. ASSUME NEW o \in Objects, ExitEvent(o)
      PROVE  Goal
  <2>1. /\ paper[o] = "dead" /\ paper'[o] = "gone"
        /\ UNCHANGED <<launches, doneLine>>
        /\ \A x \in Objects : x # o =>
              paper'[x] = paper[x] /\ status'[x] = status[x]
        /\ \A v \in Worlds : v # o[1] => worlds'[v] = worlds[v]
    BY <1>8 DEF ExitEvent, Fail, RegistryInv, TypeOK, Objects
  <2>2. ASSUME NEW x \in Objects, Unfinished(x)'
        PROVE  worlds'[x[1]] = x[2]
    <3>1. x # o /\ Unfinished(x)
      BY <2>1, <2>2 DEF Unfinished
    <3>2. worlds[x[1]] = x[2] /\ worlds[o[1]] = o[2] /\ x[1] \in Worlds
      BY <2>1, <3>1 DEF Owned, Unfinished, Objects
    <3>3. x[1] # o[1]
      BY <3>1, <3>2, SameWorld
    <3> QED
      BY <2>1, <3>2, <3>3
  <2>3. Owned'
    BY <2>2 DEF Owned
  <2> QED
    BY <2>1, <2>3
       DEF PreparingIsStarting, DoneComesFromPaper, FutureIsUnused
<1>9. ASSUME NEW o \in Objects, StopTimer(o)
      PROVE  Goal
  BY <1>1, <1>9 DEF StopTimer
<1>10. ASSUME IdleSweep \/ ShutdownBegins \/ ShutdownEnds \/ UNCHANGED vars
       PROVE  Goal
  BY <1>1, <1>10 DEF IdleSweep, ShutdownBegins, ShutdownEnds, vars
<1> QED
  BY <1>2, <1>3, <1>4, <1>5, <1>6, <1>7, <1>8, <1>9, <1>10
     DEF Next, Request, Event

LEMMA OwnershipInit ==
    ASSUME IsFiniteSet(Worlds), Init
    PROVE  OwnershipInv
<1>1. \A o \in Objects : paper[o] = "unused" /\ doneLine[o] = FALSE
  BY DEF Init
<1> QED
  BY <1>1, RegistryInit
     DEF OwnershipInv, Owned, Unfinished, PreparingIsStarting,
         DoneComesFromPaper, FutureIsUnused

LEMMA OwnershipInvariant ==
    ASSUME IsFiniteSet(Worlds), Household
    PROVE  Spec => []OwnershipInv
<1>1. Init => OwnershipInv
  BY OwnershipInit
<1>2. OwnershipInv /\ [Next]_vars => OwnershipInv'
  <2> SUFFICES ASSUME OwnershipInv, [Next]_vars
               PROVE  OwnershipInv'
    OBVIOUS
  <2>1. RegistryInv'
    BY RegistryStep DEF OwnershipInv
  <2>2. TypeOK'
    BY <2>1 DEF RegistryInv
  <2> QED
    BY <2>1, <2>2, OwnershipStep DEF OwnershipInv
<1> QED
  BY <1>1, <1>2, PTL DEF Spec

\* A living process belongs to the object the map holds for its world.
LEMMA AliveIsCurrent ==
    ASSUME OwnershipInv, NEW o \in Objects, Alive(o)
    PROVE  /\ o[1] \in RegisteredWorlds
           /\ worlds[o[1]] = o[2]
<1>1. worlds[o[1]] = o[2]
  BY DEF OwnershipInv, Owned, Unfinished, Alive
<1> QED
  BY <1>1 DEF RegisteredWorlds, IsRegistered, Objects, Starts

LEMMA OneProcess ==
    ASSUME OwnershipInv
    PROVE  OneProcessPerWorld
<1> SUFFICES ASSUME NEW o1 \in Objects, NEW o2 \in Objects,
                    Alive(o1), Alive(o2), o1[1] = o2[1]
             PROVE  o1 = o2
  BY DEF OneProcessPerWorld
<1>1. worlds[o1[1]] = o1[2] /\ worlds[o2[1]] = o2[2]
  BY AliveIsCurrent
<1> QED
  BY <1>1, SameWorld

(* While no world is stopped or timed out before its Java process exists,  *)
(* two Paper processes never run on the same world's directory.            *)
THEOREM OneProcessHousehold ==
    ASSUME IsFiniteSet(Worlds), Household
    PROVE  Spec => []OneProcessPerWorld
<1>1. Spec => []OwnershipInv
  BY OwnershipInvariant
<1>2. OwnershipInv => OneProcessPerWorld
  BY OneProcess
<1> QED
  BY <1>1, <1>2, PTL

(* Under the same condition the Paper processes alive, those that are      *)
(* still stopping included, never exceed MAX_ACTIVE_WORLDS.                *)
THEOREM LiveProcessesBounded ==
    ASSUME IsFiniteSet(Worlds), Household
    PROVE  Spec => []LiveBounded
<1>1. Spec => []OwnershipInv
  BY OwnershipInvariant
<1>2. OwnershipInv => LiveBounded
  <2> SUFFICES ASSUME OwnershipInv
               PROVE  LiveBounded
    OBVIOUS
  <2> DEFINE L == {o \in Objects : Alive(o)}
             W == [o \in L |-> o[1]]
  <2>1. IsFiniteSet(RegisteredWorlds)
    BY FS_Subset DEF RegisteredWorlds
  <2>2. W \in Injection(L, RegisteredWorlds)
    <3>1. \A o \in L : W[o] \in RegisteredWorlds
      BY AliveIsCurrent
    <3>2. \A o1, o2 \in L : W[o1] = W[o2] => o1 = o2
      BY OneProcess DEF OneProcessPerWorld
    <3> QED
      BY <3>1, <3>2 DEF Injection, IsInjective
  <2>3. Cardinality(L) <= Cardinality(RegisteredWorlds) /\ IsFiniteSet(L)
    BY <2>1, <2>2, FS_Injection
  <2>4. Cardinality(RegisteredWorlds) <= MaxActive
    BY DEF OwnershipInv, RegistryInv, RegistryBounded, RegisteredWorlds
  <2>5. Cardinality(L) \in Nat /\ Cardinality(RegisteredWorlds) \in Nat
    BY <2>1, <2>3, FS_CardinalityType
  <2> QED
    BY <2>3, <2>4, <2>5, ActiveAssumption DEF LiveBounded
<1> QED
  BY <1>1, <1>2, PTL

\* Once the orchestrator has exited nothing happens any more, so its last step
\* decides: it tells every object of the map, and every process alive has one.
LEMMA ExitStep ==
    ASSUME OwnershipInv, ExitAccountsForAll, [Next]_vars
    PROVE  ExitAccountsForAll'
<1>1. \A o \in Objects : Alive(o) => o \in Registered /\ HasChild(o)
  BY AliveIsCurrent DEF Registered, Alive, HasChild
<1>2. CASE phase' # "exited"
  BY <1>2 DEF ExitAccountsForAll
<1>3. CASE UNCHANGED vars
  BY <1>3 DEF vars, ExitAccountsForAll, Alive
<1>4. CASE ShutdownBegins /\ phase' = "exited"
  <2>1. ~ \E o \in Registered : HasChild(o)
    BY <1>4 DEF ShutdownBegins
  <2>2. paper' = paper
    BY <1>4 DEF ShutdownBegins
  <2> QED
    BY <1>1, <2>1, <2>2 DEF ExitAccountsForAll, Alive
<1>5. CASE ShutdownEnds
  <2>1. /\ paper' = paper
        /\ told' = [o \in Objects |->
                      IF o \in Registered /\ HasChild(o) /\ told[o] = "nothing"
                      THEN "term" ELSE told[o]]
    BY <1>5 DEF ShutdownEnds
  <2>2. \A o \in Objects : Alive(o)' => told'[o] # "nothing"
    BY <1>1, <2>1 DEF Alive
  <2> QED
    BY <2>2 DEF ExitAccountsForAll
<1>6. ASSUME NEW w \in Worlds, Request(w)
      PROVE  phase' # "exited"
  BY <1>6 DEF Request, EnsureStart, EnsureTimeout, PresenceUpdate, StopRequest
<1>7. ASSUME NEW o \in Objects, Event(o)
      PROVE  phase' # "exited"
  BY <1>7 DEF Event, Launching, SpawnPaper, PreparationFails, SpawnFails, ReadDone,
              ExitEvent, StopTimer, PaperBoots, PaperEnds
<1>8. IdleSweep => phase' # "exited"
  BY DEF IdleSweep
<1> QED
  BY <1>2, <1>3, <1>4, <1>5, <1>6, <1>7, <1>8 DEF Next

(* Under the same condition the orchestrator leaves no Paper process       *)
(* behind that it has told nothing: every one has been asked to save, or   *)
(* gets SIGTERM when the 45 seconds of gracefulShutdown are over.          *)
THEOREM ShutdownTellsEveryone ==
    ASSUME IsFiniteSet(Worlds), Household
    PROVE  Spec => []ExitAccountsForAll
<1>1. Spec => []OwnershipInv
  BY OwnershipInvariant
<1>2. Init => ExitAccountsForAll
  BY DEF Init, ExitAccountsForAll
<1>3. OwnershipInv /\ ExitAccountsForAll /\ [Next]_vars => ExitAccountsForAll'
  BY ExitStep
<1> QED
  BY <1>1, <1>2, <1>3, PTL DEF Spec

-----------------------------------------------------------------------------
(* A process behind every `ready', when output is read before the exit.    *)

\* A Done line waits in the pipe of a process that came up, and an object
\* that says `ready' has such a process.
ReadinessInv ==
    /\ RegistryInv
    /\ FutureIsUnused
    /\ \A o \in Objects :
          doneLine[o] \/ status[o] = "ready" => paper[o] \in {"serving", "dead"}

LEMMA ReadinessStep ==
    ASSUME IsFiniteSet(Worlds), ~LateOutput, ReadinessInv, [Next]_vars
    PROVE  ReadinessInv'
<1> USE DEF ReadinessInv
<1> DEFINE Fits(o) ==
      doneLine[o] \/ status[o] = "ready" => paper[o] \in {"serving", "dead"}
<1> DEFINE Goal == FutureIsUnused' /\ \A o \in Objects : Fits(o)'
<1>1. RegistryInv'
  BY RegistryStep
<1>2. ASSUME NEW S, UNCHANGED <<launches, paper, doneLine>>,
             stopWorld(S) \/ UNCHANGED status
      PROVE  Goal
  <2>1. \A o \in Objects : status'[o] = "ready" => status[o] = "ready"
    BY <1>2 DEF stopWorld
  <2> QED
    BY <1>2, <2>1 DEF FutureIsUnused
<1>3. ASSUME NEW w \in Worlds, EnsureStart(w)
      PROVE  Goal
  <2> DEFINE n == <<w, launches[w] + 1>>
  <2>1. n \in Objects /\ launches \in [Worlds -> Nat]
    BY <1>3, BoundsAssumption
       DEF EnsureStart, RegistryInv, TypeOK, Objects, Starts
  <2>2. /\ launches' = [launches EXCEPT ![w] = launches[w] + 1]
        /\ status' = [status EXCEPT ![n] = "starting"]
        /\ paper' = [paper EXCEPT ![n] = "preparing"]
        /\ doneLine' = doneLine
    BY <1>3 DEF EnsureStart
  <2>3. n[1] = w /\ n[2] = launches[w] + 1
    OBVIOUS
  <2> HIDE DEF n
  <2>4. paper[n] = "unused"
    BY <2>1, <2>3 DEF FutureIsUnused
  <2>5. /\ status'[n] = "starting" /\ ~doneLine'[n]
        /\ \A o \in Objects : o # n => paper'[o] = paper[o] /\ status'[o] = status[o]
    BY <2>1, <2>2, <2>4 DEF RegistryInv, TypeOK
  <2>6. \A o \in Objects : Fits(o)'
    BY <2>2, <2>5
  <2>7. FutureIsUnused'
    <3> SUFFICES ASSUME NEW o \in Objects, o[2] > launches'[o[1]]
                 PROVE  paper'[o] = "unused"
      BY DEF FutureIsUnused
    <3>1. o[1] \in Worlds /\ o[2] \in Nat
      BY DEF Objects, Starts
    <3>2. o[2] > launches[o[1]] /\ o # n
      BY <2>1, <2>2, <2>3, <3>1
    <3> QED
      BY <2>5, <3>2 DEF FutureIsUnused
  <2> QED
    BY <2>6, <2>7
<1>4. ASSUME NEW w \in Worlds,
             \/ EnsureTimeout(w)
             \/ \E k \in 0 .. MaxPlayers : PresenceUpdate(w, k)
             \/ StopRequest(w)
      PROVE  Goal
  <2>1. CASE EnsureTimeout(w) /\ ~HasChild(Current(w))
    <3>1. /\ status' = [status EXCEPT ![Current(w)] = "error"]
          /\ UNCHANGED <<launches, paper, doneLine>>
      BY <2>1 DEF EnsureTimeout, Fail
    <3> QED
      BY <3>1 DEF FutureIsUnused, RegistryInv, TypeOK
  <2>2. CASE EnsureTimeout(w) /\ HasChild(Current(w))
    BY <1>2, <2>2 DEF EnsureTimeout
  <2>3. CASE StopRequest(w)
    BY <1>2, <2>3 DEF StopRequest
  <2>4. CASE \E k \in 0 .. MaxPlayers : PresenceUpdate(w, k)
    BY <1>2, <2>4 DEF PresenceUpdate
  <2> QED
    BY <1>4, <2>1, <2>2, <2>3, <2>4
<1>5. ASSUME NEW o \in Objects, Event(o)
      PROVE  Goal
  <2>1. /\ launches' = launches
        /\ paper[o] # "unused"
        /\ \A x \in Objects : x # o =>
              /\ paper'[x] = paper[x]
              /\ status'[x] = status[x]
              /\ doneLine'[x] = doneLine[x]
    BY <1>5
       DEF Event, Launching, SpawnPaper, PreparationFails, SpawnFails, Fail,
           ReadDone, ExitEvent, StopTimer, HasChild, PaperBoots, PaperEnds, Alive,
           RegistryInv, TypeOK
  <2>2. Fits(o)'
    <3>1. CASE Launching(o)
      BY <3>1 DEF Launching, SpawnPaper, PreparationFails, SpawnFails, Fail,
                  RegistryInv, TypeOK
    <3>2. CASE ReadDone(o)
      BY <3>2 DEF ReadDone
    <3>3. CASE ExitEvent(o)
      <4>1. ~doneLine'[o]
        BY <3>3 DEF ExitEvent
      <4>2. status'[o] # "ready"
        BY <3>3 DEF ExitEvent, Fail, RegistryInv, TypeOK
      <4> QED
        BY <4>1, <4>2
    <3>4. CASE StopTimer(o)
      BY <3>4 DEF StopTimer
    <3>5. CASE PaperBoots(o) \/ PaperEnds(o)
      BY <3>5 DEF PaperBoots, PaperEnds, Alive, RegistryInv, TypeOK
    <3> QED
      BY <1>5, <3>1, <3>2, <3>3, <3>4, <3>5 DEF Event
  <2>3. \A x \in Objects : Fits(x)'
    BY <2>1, <2>2
  <2>4. FutureIsUnused'
    BY <2>1 DEF FutureIsUnused
  <2> QED
    BY <2>3, <2>4
<1>6. ASSUME IdleSweep \/ ShutdownBegins \/ ShutdownEnds \/ UNCHANGED vars
      PROVE  Goal
  BY <1>2, <1>6 DEF IdleSweep, ShutdownBegins, ShutdownEnds, vars
<1>7. Goal
  BY <1>3, <1>4, <1>5, <1>6 DEF Next, Request
<1> QED
  BY <1>1, <1>7

(* Whenever stdout is read before the exit event, a world that ensure      *)
(* answers for with `ready' has a Paper process that came up and whose     *)
(* exit, if any, was not handled yet; every other fault is allowed.        *)
THEOREM ReadyIsBacked ==
    ASSUME IsFiniteSet(Worlds), ~LateOutput
    PROVE  Spec => []ReadyHasProcess
<1>1. Init => ReadinessInv
  <2> SUFFICES ASSUME Init PROVE ReadinessInv
    OBVIOUS
  <2>1. \A o \in Objects :
          paper[o] = "unused" /\ doneLine[o] = FALSE /\ status[o] = "stopped"
    BY DEF Init
  <2> QED
    BY <2>1, RegistryInit DEF ReadinessInv, FutureIsUnused
<1>2. ReadinessInv /\ [Next]_vars => ReadinessInv'
  BY ReadinessStep
<1>3. ReadinessInv => ReadyHasProcess
  BY DEF ReadinessInv, ReadyHasProcess, Registered
<1> QED
  BY <1>1, <1>2, <1>3, PTL DEF Spec
=============================================================================
