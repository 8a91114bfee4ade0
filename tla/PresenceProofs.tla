--------------------------- MODULE PresenceProofs ---------------------------
(***************************************************************************)
(* What applyPresenceUpdate guarantees for any number of players,          *)
(* connections, overlapping or not, processes and lost or reordered        *)
(* notifications, as long as the clock moves forward during a connection   *)
(* and no post outlives its process into the next one.                     *)
(***************************************************************************)
EXTENDS Presence, TLAPS, FiniteSetTheorems

ForwardClock == ClockSteps \subseteq Nat \ {0}

-----------------------------------------------------------------------------
(* The inductive invariants.                                               *)

TypeInv == TypeOK /\ players = Cardinality(Counted)

\* A record about player p is of a connection that has joined, and no newer than
\* that connection's latest post.
NotAhead(x, p) ==
    \/ x.generation = 0 /\ ~x.connected
    \/ /\ x.generation \in 1 .. lastGeneration[p]
       /\ x.at <= stamp[<<p, x.generation>>]
AboutThePast ==
    /\ \A m \in Unheard : NotAhead(m, m.player)
    /\ \A p \in Players : NotAhead(presenceClock[p], p)
    /\ \A c \in Connections : conn[c] # "none" => c[2] <= lastGeneration[c[1]]

IsOf(m, c) == m.player = c[1] /\ m.generation = c[2]

\* Nothing has been said yet about a locked connection ...
LockedIsUnannounced ==
    \A c \in Connections : conn[c] = "locked" =>
        /\ \A m \in Unheard : ~IsOf(m, c)
        /\ presenceClock[c[1]].generation # c[2]

\* ... nobody has said that an authorized one is over ...
AuthorizedIsOpen ==
    \A c \in Connections : Announced(c) =>
        /\ \A m \in Unheard : IsOf(m, c) => m.connected
        /\ presenceClock[c[1]].generation = c[2] => presenceClock[c[1]].connected

\* ... and its arrival was heard, is on its way or was lost, unless a later
\* connection was heard of.
ArrivalPosted ==
    \A c \in Connections : Announced(c) =>
        \/ presenceClock[c[1]].generation >= c[2]
        \/ \E m \in Unheard : IsOf(m, c)

Over(x, p) == ~Announced(<<p, x.generation>>)
Superseded(x, p) ==
    \/ Newer(presenceClock[p], x)
    \/ \E d \in Unheard : d.player = p /\ ~d.connected /\ Newer(d, x)

\* An arrival whose connection is over is superseded by something newer.
DeparturePosted ==
    /\ \A m \in Unheard :
          m.connected /\ Over(m, m.player) => Superseded(m, m.player)
    /\ \A p \in Players :
          presenceClock[p].connected /\ Over(presenceClock[p], p) =>
              Superseded(presenceClock[p], p)

\* Between two processes there is nothing to be wrong about.
DownIsEmpty ==
    /\ conn = [c \in Connections |-> "none"]
    /\ presenceClock = [p \in Players |-> NoEntry]

RunningInv ==
    /\ AboutThePast
    /\ LockedIsUnannounced
    /\ AuthorizedIsOpen
    /\ ArrivalPosted
    /\ DeparturePosted

PresenceInv ==
    /\ TypeInv
    /\ running => RunningInv
    /\ ~running => DownIsEmpty

-----------------------------------------------------------------------------
(* Connections, and the order of records.                                  *)

LEMMA ConnectionParts ==
    /\ \A c \in Connections :
          /\ c[1] \in Players /\ c[2] \in Generation /\ c[2] \in Nat
          /\ c = <<c[1], c[2]>>
    /\ \A p \in Players, g \in Generation :
          <<p, g>> \in Connections /\ <<p, g>>[1] = p /\ <<p, g>>[2] = g
BY BoundsAssumption DEF Connections, Generation

Stamped(x) == x.generation \in Nat /\ x.at \in Nat

LEMMA NewerTransitive ==
    ASSUME NEW a, NEW b, NEW c, Stamped(a), Stamped(b), Stamped(c),
           Newer(b, a), ~Newer(b, c)
    PROVE  Newer(c, a)
BY DEF Newer, Stamped

\* Everything on record has the parts that Newer compares.
LEMMA RecordsAreStamped ==
    ASSUME TypeOK
    PROVE  /\ \A m \in Unheard : /\ m \in Notification
                                 /\ m.player \in Players
                                 /\ m.generation \in Generation
                                 /\ Stamped(m)
           /\ \A p \in Players : Stamped(presenceClock[p])
           /\ \A p \in Players : lastGeneration[p] \in 0 .. MaxGeneration
           /\ \A c \in Connections : stamp[c] \in Nat
<1>1. \A m \in Notification : /\ m.player \in Players
                              /\ m.generation \in Generation
                              /\ Stamped(m)
  BY BoundsAssumption DEF Notification, Generation, Stamped
<1>2. \A e \in Entry : Stamped(e)
  BY DEF Entry, Stamped
<1>3. Unheard \subseteq Notification /\ presenceClock \in [Players -> Entry]
  BY DEF TypeOK, Unheard
<1> QED
  BY <1>1, <1>2, <1>3 DEF TypeOK

LEMMA RecordsAreOfConnections ==
    ASSUME TypeOK, NEW p \in Players, NEW x, NotAhead(x, p),
           x.connected \/ x.generation # 0
    PROVE  /\ x.generation \in Generation
           /\ x.generation <= lastGeneration[p]
           /\ x.at <= stamp[<<p, x.generation>>]
<1>1. /\ x.generation \in 1 .. lastGeneration[p]
      /\ x.at <= stamp[<<p, x.generation>>]
  BY DEF NotAhead
<1>2. lastGeneration[p] \in 0 .. MaxGeneration
  BY DEF TypeOK
<1> QED
  BY <1>1, <1>2, BoundsAssumption DEF Generation

\* An entry is never moved back.
LEMMA UpdatedEntry ==
    ASSUME NEW e \in Entry, NEW m \in Notification
    PROVE  /\ Updated(e, m) \in Entry
           /\ ~Newer(e, Updated(e, m))
           /\ ~Newer(m, Updated(e, m))
           /\ \/ Updated(e, m) = e /\ Newer(e, m)
              \/ /\ Updated(e, m).generation = m.generation
                 /\ Updated(e, m).connected = m.connected
                 /\ Updated(e, m).at = m.at
                 /\ ~Newer(e, m)
BY DEF Updated, Newer, Entry, Notification, Generation

\* What a post adds: one notification of the connection, stamped after every
\* earlier one if the clock moves forward.
LEMMA PostedNotification ==
    ASSUME TypeOK, NEW c \in Connections, NEW b \in BOOLEAN, PostPresence(c, b)
    PROVE  \E m \in Notification :
              /\ m.player = c[1]
              /\ m.generation = c[2]
              /\ m.connected = b
              /\ ForwardClock => m.at > stamp[c]
              /\ inFlight' = inFlight \cup {m}
              /\ stamp' = [stamp EXCEPT ![c] = m.at]
<1>1. PICK step \in ClockSteps :
        /\ stamp[c] + step \in 1 .. MaxStamp
        /\ stamp' = [stamp EXCEPT ![c] = stamp[c] + step]
        /\ inFlight' = inFlight \cup
             {[player |-> c[1], generation |-> c[2],
               connected |-> b, at |-> stamp[c] + step]}
  BY DEF PostPresence
<1> DEFINE m == [player |-> c[1], generation |-> c[2],
                 connected |-> b, at |-> stamp[c] + step]
<1>2. stamp[c] \in Nat
  BY DEF TypeOK
<1>3. stamp[c] + step \in Nat
  BY <1>1, BoundsAssumption
<1>4. m \in Notification
  BY <1>3, ConnectionParts DEF Notification
<1>5. ASSUME ForwardClock
      PROVE  m.at > stamp[c]
  <2>1. step \in Nat \ {0}
    BY <1>5 DEF ForwardClock
  <2> QED
    BY <1>2, <2>1
<1>6. /\ m.player = c[1]
      /\ m.generation = c[2]
      /\ m.connected = b
      /\ inFlight' = inFlight \cup {m}
      /\ stamp' = [stamp EXCEPT ![c] = m.at]
  BY <1>1
<1> HIDE DEF m
<1> QED
  BY <1>4, <1>5, <1>6

-----------------------------------------------------------------------------
(* The type invariant and the count.                                       *)

LEMMA CountedIsBounded ==
    ASSUME IsFiniteSet(Players), NEW clock
    PROVE  countConnected(clock) \in 0 .. Cardinality(Players)
<1>1. {p \in Players : clock[p].connected} \subseteq Players
  OBVIOUS
<1> QED
  BY <1>1, FS_Subset, FS_CardinalityType DEF countConnected

LEMMA TypeInit ==
    ASSUME IsFiniteSet(Players), Init
    PROVE  TypeInv
<1>1. Counted = {}
  BY DEF Init, Counted, NoEntry
<1>2. Cardinality(Players) \in Nat /\ Cardinality(Counted) = 0
  BY <1>1, FS_EmptySet, FS_CardinalityType
<1>3. NoEntry \in Entry
  BY DEF NoEntry, Entry
<1> QED
  BY <1>2, <1>3, BoundsAssumption DEF Init, TypeInv, TypeOK

LEMMA TypeStep ==
    ASSUME IsFiniteSet(Players), TypeInv, [Next]_vars
    PROVE  TypeInv'
<1> USE DEF TypeInv
<1>1. ASSUME NEW p \in Players, Join(p)
      PROVE  TypeInv'
  <2> DEFINE c == <<p, lastGeneration[p] + 1>>
  <2>1. c \in Connections
    BY <1>1 DEF Join
  <2>2. c[2] = lastGeneration[p] + 1 /\ c[2] \in 0 .. MaxGeneration
    BY <2>1, ConnectionParts DEF Generation
  <2>3. lastGeneration' = [lastGeneration EXCEPT ![p] = c[2]]
    BY <1>1 DEF Join
  <2>4. lastGeneration' \in [Players -> 0 .. MaxGeneration]
    BY <2>2, <2>3 DEF TypeOK
  <2>5. conn' \in [Connections -> {"none", "locked", "authenticated"}]
    BY <1>1, <2>1 DEF Join, TypeOK
  <2> QED
    BY <1>1, <2>4, <2>5 DEF Join, TypeOK, Counted
<1>2. ASSUME NEW c \in Connections, Authorize(c) \/ Quit(c)
      PROVE  TypeInv'
  <2>1. PICK b \in BOOLEAN : PostPresence(c, b)
    BY <1>2 DEF Authorize, Quit
  <2>2. PICK m \in Notification :
           /\ inFlight' = inFlight \cup {m}
           /\ stamp' = [stamp EXCEPT ![c] = m.at]
    BY <2>1, PostedNotification
  <2>3. m.at \in Nat
    BY DEF Notification
  <2>4. conn' \in [Connections -> {"none", "locked", "authenticated"}]
    BY <1>2 DEF Authorize, Quit, TypeOK
  <2>5. UNCHANGED <<lastGeneration, lost, running, runs, presenceClock, players>>
    BY <1>2 DEF Authorize, Quit
  <2>6. inFlight' \subseteq Notification /\ stamp' \in [Connections -> Nat]
    BY <2>2, <2>3 DEF TypeOK
  <2> QED
    BY <2>4, <2>5, <2>6 DEF TypeOK, Counted
<1>3. ASSUME NEW c \in Connections, QuitLocked(c)
      PROVE  TypeInv'
  BY <1>3 DEF QuitLocked, TypeOK, Counted
<1>4. ASSUME NEW m \in inFlight, Deliver(m)
      PROVE  TypeInv'
  <2>1. m \in Notification /\ m.player \in Players
    BY DEF TypeOK, Notification
  <2>2. CASE running
    <3>1. presenceClock' \in [Players -> Entry]
      BY <1>4, <2>1, <2>2, UpdatedEntry DEF Deliver, TypeOK
    <3>2. players' = countConnected(presenceClock')
      BY <1>4, <2>2 DEF Deliver
    <3> QED
      BY <1>4, <2>2, <3>1, <3>2, CountedIsBounded
         DEF Deliver, TypeOK, countConnected, Counted
  <2>3. CASE ~running
    BY <1>4, <2>3 DEF Deliver, TypeOK, Counted
  <2> QED
    BY <2>2, <2>3
<1>5. ASSUME NEW m \in inFlight, Lose(m)
      PROVE  TypeInv'
  BY <1>5 DEF Lose, TypeOK, Counted
<1>6. ASSUME ProcessExit
      PROVE  TypeInv'
  <2>1. Counted' = {}
    BY <1>6 DEF ProcessExit, Counted, NoEntry
  <2>2. NoEntry \in Entry
    BY DEF NoEntry, Entry
  <2>3. Cardinality(Players) \in Nat
    BY FS_CardinalityType
  <2>4. Cardinality(Counted') = 0
    BY <2>1, FS_EmptySet
  <2>5. /\ conn' \in [Connections -> {"none", "locked", "authenticated"}]
        /\ lastGeneration' \in [Players -> 0 .. MaxGeneration]
        /\ stamp' \in [Connections -> Nat]
    BY <1>6, BoundsAssumption DEF ProcessExit
  <2>6. presenceClock' \in [Players -> Entry]
    BY <1>6, <2>2 DEF ProcessExit
  <2>7. players' = 0 /\ players' \in 0 .. Cardinality(Players)
    BY <1>6, <2>3 DEF ProcessExit
  <2>8. running' \in BOOLEAN /\ UNCHANGED <<inFlight, lost, runs>>
    BY <1>6 DEF ProcessExit
  <2> QED
    BY <2>4, <2>5, <2>6, <2>7, <2>8 DEF TypeOK
<1>7. ASSUME Relaunch
      PROVE  TypeInv'
  BY <1>7, BoundsAssumption DEF Relaunch, TypeOK, Counted
<1>8. ASSUME UNCHANGED vars
      PROVE  TypeInv'
  BY <1>8 DEF vars, TypeOK, Counted
<1> QED
  BY <1>1, <1>2, <1>3, <1>4, <1>5, <1>6, <1>7, <1>8 DEF Next, GateStep

-----------------------------------------------------------------------------
(* One lemma per action: the state-dependent part of the invariant.        *)

\* Only a running process has connections.
LEMMA OnlineIsRunning ==
    ASSUME PresenceInv, NEW c \in Connections, conn[c] # "none"
    PROVE  running /\ RunningInv /\ c[2] <= lastGeneration[c[1]]
<1>1. running
  BY DEF PresenceInv, DownIsEmpty
<1> QED
  BY <1>1 DEF PresenceInv, RunningInv, AboutThePast

LEMMA JoinStep ==
    ASSUME PresenceInv, NEW p \in Players, Join(p)
    PROVE  RunningInv'
<1> DEFINE c == <<p, lastGeneration[p] + 1>>
<1>1. running /\ RunningInv /\ TypeOK
  BY DEF Join, PresenceInv, TypeInv
<1>2. /\ c \in Connections
      /\ conn' = [conn EXCEPT ![c] = "locked"]
      /\ lastGeneration' = [lastGeneration EXCEPT ![p] = c[2]]
      /\ UNCHANGED <<stamp, presenceClock, Unheard>>
  BY DEF Join, Unheard
<1>3. c[1] = p /\ c[2] = lastGeneration[p] + 1 /\ lastGeneration[p] \in Nat
  BY <1>1 DEF TypeOK
<1>4. /\ conn'[c] = "locked"
      /\ \A d \in Connections : d # c => conn'[d] = conn[d]
  BY <1>1, <1>2 DEF TypeOK
<1>5. /\ lastGeneration'[p] = c[2]
      /\ \A q \in Players : lastGeneration[q] <= lastGeneration'[q]
      /\ \A q \in Players : lastGeneration'[q] \in Nat
  BY <1>1, <1>2, <1>3 DEF TypeOK
<1> HIDE DEF c
<1>6. conn[c] = "none"
  BY <1>1, <1>2, <1>3 DEF RunningInv, AboutThePast
<1>7. \A d \in Connections : conn'[d] = "authenticated" <=> conn[d] = "authenticated"
  BY <1>4, <1>6
<1>8. \A x, q : q \in Players /\ NotAhead(x, q) => NotAhead(x, q)'
  <2> SUFFICES ASSUME NEW x, NEW q \in Players, NotAhead(x, q),
                      x.generation \in 1 .. lastGeneration[q]
               PROVE  x.generation \in 1 .. lastGeneration'[q]
    BY <1>2 DEF NotAhead
  <2> QED
    BY <1>1, <1>5 DEF TypeOK
<1>9. AboutThePast'
  <2>1. ASSUME NEW d \in Connections, conn'[d] # "none"
        PROVE  d[2] <= lastGeneration'[d[1]]
    <3>1. CASE d = c
      BY <1>2, <1>3, <1>5, <3>1, ConnectionParts
    <3>2. CASE d # c
      <4>1. d[2] <= lastGeneration[d[1]] /\ d[1] \in Players /\ d[2] \in Nat
        BY <1>1, <1>4, <2>1, <3>2, ConnectionParts DEF RunningInv, AboutThePast
      <4> QED
        BY <1>1, <1>5, <4>1 DEF TypeOK
    <3> QED
      BY <3>1, <3>2
  <2>2. \A m \in Unheard : NotAhead(m, m.player)'
    BY <1>1, <1>8, RecordsAreStamped DEF RunningInv, AboutThePast
  <2>3. \A q \in Players : NotAhead(presenceClock[q], q)'
    BY <1>1, <1>2, <1>8 DEF RunningInv, AboutThePast, NotAhead
  <2> QED
    BY <1>2, <2>1, <2>2, <2>3 DEF AboutThePast, NotAhead
<1>10. LockedIsUnannounced'
  <2> SUFFICES ASSUME NEW d \in Connections, conn'[d] = "locked"
               PROVE  /\ \A m \in Unheard : ~IsOf(m, d)
                      /\ presenceClock[d[1]].generation # d[2]
    BY <1>2 DEF LockedIsUnannounced, IsOf
  <2>1. CASE d # c
    BY <1>1, <1>4, <2>1 DEF RunningInv, LockedIsUnannounced
  <2>2. CASE d = c
    <3>1. \A x : NotAhead(x, p) => x.generation # c[2]
      BY <1>3 DEF NotAhead
    <3> QED
      BY <1>1, <1>3, <2>2, <3>1 DEF RunningInv, AboutThePast, IsOf
  <2> QED
    BY <2>1, <2>2
<1>11. AuthorizedIsOpen' /\ ArrivalPosted'
  BY <1>1, <1>2, <1>7
     DEF RunningInv, AuthorizedIsOpen, ArrivalPosted, Announced, IsOf
<1>12. \A q \in Players, g \in Generation :
          Announced(<<q, g>>)' <=> Announced(<<q, g>>)
  BY <1>7, ConnectionParts DEF Announced
<1>13. \A x, q : Superseded(x, q)' <=> Superseded(x, q)
  BY <1>2 DEF Superseded
<1>14. \A q \in Players : presenceClock[q].connected =>
          presenceClock[q].generation \in Generation
  BY <1>1, RecordsAreOfConnections DEF RunningInv, AboutThePast
<1>15. DeparturePosted'
  BY <1>1, <1>2, <1>12, <1>13, <1>14, RecordsAreStamped
     DEF RunningInv, DeparturePosted, Over
<1> QED
  BY <1>9, <1>10, <1>11, <1>15 DEF RunningInv

LEMMA PostStep ==
    ASSUME ForwardClock, PresenceInv, NEW c \in Connections,
           Authorize(c) \/ Quit(c)
    PROVE  RunningInv'
<1>1. running /\ RunningInv /\ TypeOK /\ c[2] <= lastGeneration[c[1]]
  BY OnlineIsRunning DEF Authorize, Quit, PresenceInv, TypeInv
<1>2. c[1] \in Players /\ c[2] \in Generation /\ c[2] \in Nat /\ c = <<c[1], c[2]>>
  BY ConnectionParts
<1>3. /\ \A d \in Connections : d # c => conn'[d] = conn[d]
      /\ conn'[c] \in {"none", "authenticated"}
      /\ UNCHANGED <<lastGeneration, presenceClock, lost>>
  BY <1>1 DEF Authorize, Quit, TypeOK
<1>4. PICK m \in Notification :
         /\ m.player = c[1]
         /\ m.generation = c[2]
         /\ m.connected = (conn'[c] = "authenticated")
         /\ m.at > stamp[c]
         /\ inFlight' = inFlight \cup {m}
         /\ stamp' = [stamp EXCEPT ![c] = m.at]
  <2>1. CASE Authorize(c)
    <3>1. PostPresence(c, TRUE) /\ conn'[c] = "authenticated"
      BY <1>1, <2>1 DEF Authorize, TypeOK
    <3> QED
      BY <1>1, <3>1, PostedNotification
  <2>2. CASE Quit(c)
    <3>1. PostPresence(c, FALSE) /\ conn'[c] = "none"
      BY <1>1, <2>2 DEF Quit, TypeOK
    <3>2. PICK m \in Notification :
             /\ m.player = c[1]
             /\ m.generation = c[2]
             /\ m.connected = FALSE
             /\ m.at > stamp[c]
             /\ inFlight' = inFlight \cup {m}
             /\ stamp' = [stamp EXCEPT ![c] = m.at]
      BY <1>1, <3>1, PostedNotification
    <3> QED
      BY <3>1, <3>2
  <2> QED
    BY <2>1, <2>2
<1>5. Unheard' = Unheard \cup {m}
  BY <1>3, <1>4 DEF Unheard
<1>6. /\ Stamped(m)
      /\ stamp'[c] = m.at
      /\ \A d \in Connections : stamp[d] \in Nat /\ stamp[d] <= stamp'[d]
  BY <1>1, <1>4, BoundsAssumption
     DEF TypeOK, Stamped, Notification, Generation
<1>7. \A x, q : q \in Players /\ Stamped(x) /\ NotAhead(x, q) => NotAhead(x, q)'
  <2> SUFFICES ASSUME NEW x, NEW q \in Players, Stamped(x),
                      x.generation \in 1 .. lastGeneration[q],
                      x.at <= stamp[<<q, x.generation>>]
               PROVE  x.at <= stamp'[<<q, x.generation>>]
    BY <1>3 DEF NotAhead
  <2>1. x.generation \in Generation
    BY <1>1, RecordsAreStamped, BoundsAssumption DEF Generation
  <2>2. <<q, x.generation>> \in Connections
    BY <2>1, ConnectionParts
  <2>3. stamp'[<<q, x.generation>>] \in Nat
    BY <1>1, <1>4, <1>6, <2>2 DEF TypeOK, Stamped
  <2> QED
    BY <1>6, <2>2, <2>3 DEF Stamped
<1>8. AboutThePast'
  <2>1. NotAhead(m, c[1])'
    BY <1>1, <1>2, <1>3, <1>4, <1>6, RecordsAreStamped
       DEF NotAhead, Stamped, Generation
  <2>2. \A x \in Unheard : NotAhead(x, x.player)'
    BY <1>1, <1>7, RecordsAreStamped DEF RunningInv, AboutThePast
  <2>3. \A q \in Players : NotAhead(presenceClock[q], q)'
    <3> SUFFICES ASSUME NEW q \in Players
                 PROVE  NotAhead(presenceClock[q], q)'
      OBVIOUS
    <3>1. Stamped(presenceClock[q]) /\ NotAhead(presenceClock[q], q)
      BY <1>1, RecordsAreStamped DEF RunningInv, AboutThePast
    <3> DEFINE e == presenceClock[q]
    <3>2. presenceClock'[q] = e
      BY <1>3
    <3>3. \/ e.generation = 0 /\ ~e.connected
          \/ /\ e.generation \in 1 .. lastGeneration'[q]
             /\ e.at <= stamp'[<<q, e.generation>>]
      BY <1>7, <3>1 DEF NotAhead
    <3> QED
      BY <3>2, <3>3 DEF NotAhead
  <2>4. ASSUME NEW d \in Connections, conn'[d] # "none"
        PROVE  d[2] <= lastGeneration'[d[1]]
    BY <1>1, <1>3, <2>4 DEF RunningInv, AboutThePast
  <2>5. \A x \in Unheard' : NotAhead(x, x.player)'
    BY <1>4, <1>5, <2>1, <2>2
  <2> QED
    BY <2>3, <2>4, <2>5 DEF AboutThePast
<1>9. LockedIsUnannounced'
  <2> SUFFICES ASSUME NEW d \in Connections, conn'[d] = "locked"
               PROVE  /\ \A x \in Unheard' : ~IsOf(x, d)
                      /\ presenceClock[d[1]].generation # d[2]
    BY <1>3 DEF LockedIsUnannounced, IsOf
  <2>1. d # c /\ conn[d] = "locked"
    BY <1>3
  <2>2. ~IsOf(m, d)
    BY <1>2, <1>4, <2>1, ConnectionParts DEF IsOf
  <2> QED
    BY <1>1, <1>5, <2>1, <2>2 DEF RunningInv, LockedIsUnannounced
<1>10. ASSUME NEW d \in Connections, Announced(d)'
       PROVE  /\ Announced(d) \/ (d = c /\ conn[c] = "locked")
              /\ \A x \in Unheard : IsOf(x, d) => x.connected
              /\ presenceClock[d[1]].generation = d[2] =>
                    presenceClock[d[1]].connected
  <2>1. Announced(d) \/ (d = c /\ conn[c] = "locked")
    <3>1. conn[c] # "none"
      BY DEF Authorize, Quit
    <3>2. conn[c] = "locked" \/ conn[c] = "authenticated"
      BY <1>1, <3>1 DEF TypeOK
    <3> QED
      BY <1>3, <1>10, <3>2 DEF Announced
  <2>2. CASE Announced(d)
    <3>1. AuthorizedIsOpen
      BY <1>1 DEF RunningInv
    <3> QED
      BY <2>2, <3>1 DEF AuthorizedIsOpen
  <2>3. CASE d = c /\ conn[c] = "locked"
    BY <1>1, <2>3 DEF RunningInv, LockedIsUnannounced
  <2> QED
    BY <2>1, <2>2, <2>3
<1>11. AuthorizedIsOpen'
  <2>1. ASSUME NEW d \in Connections, Announced(d)', IsOf(m, d)
        PROVE  m.connected
    <3>1. d = c
      BY <1>2, <1>4, <2>1, ConnectionParts DEF IsOf
    <3> QED
      BY <1>4, <2>1, <3>1 DEF Announced
  <2>2. \A d \in Connections : Announced(d)' =>
           /\ \A x \in Unheard' : IsOf(x, d) => x.connected
           /\ presenceClock[d[1]].generation = d[2] => presenceClock[d[1]].connected
    BY <1>5, <1>10, <2>1
  <2> QED
    BY <1>3, <2>2 DEF AuthorizedIsOpen, IsOf
<1>12. ArrivalPosted'
  <2> SUFFICES ASSUME NEW d \in Connections, Announced(d)'
               PROVE  \/ presenceClock[d[1]].generation >= d[2]
                      \/ \E x \in Unheard' : IsOf(x, d)
    BY <1>3 DEF ArrivalPosted, IsOf
  <2>1. CASE d = c
    BY <1>4, <1>5, <2>1 DEF IsOf
  <2>2. CASE Announced(d)
    BY <1>1, <1>5, <2>2 DEF RunningInv, ArrivalPosted
  <2> QED
    BY <1>10, <2>1, <2>2
<1>13. \A x, q : Superseded(x, q) => Superseded(x, q)'
  BY <1>3, <1>5 DEF Superseded
<1>14. ASSUME NEW x, NEW q \in Players, Stamped(x), NotAhead(x, q), x.connected,
              Over(x, q)', ~Over(x, q)
       PROVE  Superseded(x, q)'
  <2>1. x.generation \in Generation /\ x.at <= stamp[<<q, x.generation>>]
    BY <1>1, <1>14, RecordsAreOfConnections
  <2>2. <<q, x.generation>> = c /\ ~Announced(c)'
    BY <1>3, <1>14, <2>1, ConnectionParts DEF Over, Announced
  <2>3. q = c[1] /\ x.generation = c[2]
    BY <1>2, <2>1, <2>2, ConnectionParts
  <2>4. ~m.connected
    BY <1>4, <2>2 DEF Announced
  <2>5. Newer(m, x)
    BY <1>4, <1>6, <1>14, <2>1, <2>2, <2>3 DEF Newer, Stamped
  <2> QED
    BY <1>4, <1>5, <2>3, <2>4, <2>5 DEF Superseded
<1>15. m.connected => ~Over(m, c[1])'
  BY <1>2, <1>4 DEF Over, Announced
<1>16. ASSUME NEW x \in Unheard', x.connected, Over(x, x.player)'
       PROVE  Superseded(x, x.player)'
  <2>1. x \in Unheard
    BY <1>4, <1>5, <1>15, <1>16
  <2>2. NotAhead(x, x.player) /\ Stamped(x) /\ x.player \in Players
    BY <1>1, <2>1, RecordsAreStamped DEF RunningInv, AboutThePast
  <2>3. CASE Over(x, x.player)
    BY <1>1, <1>13, <1>16, <2>1, <2>3 DEF RunningInv, DeparturePosted
  <2>4. CASE ~Over(x, x.player)
    BY <1>14, <1>16, <2>2, <2>4
  <2> QED
    BY <2>3, <2>4
<1>17. ASSUME NEW q \in Players, NEW x, x = presenceClock[q], x.connected,
              Over(x, q)'
       PROVE  Superseded(x, q)'
  <2>1. NotAhead(x, q) /\ Stamped(x)
    BY <1>1, <1>17, RecordsAreStamped DEF RunningInv, AboutThePast
  <2>2. CASE Over(x, q)
    BY <1>1, <1>13, <1>17, <2>2 DEF RunningInv, DeparturePosted
  <2>3. CASE ~Over(x, q)
    BY <1>14, <1>17, <2>1, <2>3
  <2> QED
    BY <2>2, <2>3
<1>18. DeparturePosted'
  BY <1>3, <1>16, <1>17 DEF DeparturePosted, Over, Superseded
<1> QED
  BY <1>8, <1>9, <1>11, <1>12, <1>18 DEF RunningInv

LEMMA QuitLockedStep ==
    ASSUME PresenceInv, NEW c \in Connections, QuitLocked(c)
    PROVE  RunningInv'
<1>1. running /\ RunningInv /\ TypeOK
  BY OnlineIsRunning DEF QuitLocked, PresenceInv, TypeInv
<1>2. /\ conn' = [conn EXCEPT ![c] = "none"]
      /\ UNCHANGED <<lastGeneration, stamp, presenceClock, Unheard>>
  BY DEF QuitLocked, Unheard
<1>3. \A d \in Connections :
         /\ conn'[d] = "authenticated" <=> conn[d] = "authenticated"
         /\ conn'[d] = "locked" => conn[d] = "locked"
         /\ conn'[d] # "none" => conn[d] # "none"
  BY <1>1, <1>2 DEF QuitLocked, TypeOK
<1>4. AboutThePast' /\ LockedIsUnannounced'
  BY <1>1, <1>2, <1>3
     DEF RunningInv, AboutThePast, NotAhead, LockedIsUnannounced, IsOf
<1>5. AuthorizedIsOpen' /\ ArrivalPosted'
  BY <1>1, <1>2, <1>3
     DEF RunningInv, AuthorizedIsOpen, ArrivalPosted, Announced, IsOf
<1>6. \A q \in Players, g \in Generation :
         Announced(<<q, g>>)' <=> Announced(<<q, g>>)
  BY <1>3, ConnectionParts DEF Announced
<1>7. \A q \in Players : presenceClock[q].connected =>
         presenceClock[q].generation \in Generation
  BY <1>1, RecordsAreOfConnections DEF RunningInv, AboutThePast
<1>8. \A x, q : Superseded(x, q)' <=> Superseded(x, q)
  BY <1>2 DEF Superseded
<1>9. DeparturePosted'
  BY <1>1, <1>2, <1>6, <1>7, <1>8, RecordsAreStamped
     DEF RunningInv, DeparturePosted, Over
<1> QED
  BY <1>4, <1>5, <1>9 DEF RunningInv

LEMMA DeliverStep ==
    ASSUME PresenceInv, NEW m \in inFlight, Deliver(m), running, TypeOK'
    PROVE  RunningInv'
<1> DEFINE q == m.player
<1> DEFINE e == presenceClock[q]
<1> DEFINE u == presenceClock'[q]
<1>1. /\ RunningInv /\ TypeOK
      /\ m \in Unheard /\ m \in Notification /\ q \in Players
  BY DEF PresenceInv, TypeInv, TypeOK, Unheard, Notification
<1>2. /\ UNCHANGED <<conn, lastGeneration, stamp>>
      /\ Unheard' \subseteq Unheard
      /\ \A x \in Unheard : x # m => x \in Unheard'
  BY DEF Deliver, Unheard
<1>3. \A p \in Players : p # q => presenceClock'[p] = presenceClock[p]
  BY <1>1 DEF Deliver, TypeOK
<1>4. u = Updated(e, m)
  BY <1>1 DEF Deliver, TypeOK
<1>5. e \in Entry /\ u \in Entry
  BY <1>1 DEF TypeOK
<1>6. /\ ~Newer(e, u)
      /\ ~Newer(m, u)
      /\ \/ u = e /\ Newer(e, m)
         \/ /\ u.generation = m.generation
            /\ u.connected = m.connected
            /\ u.at = m.at
            /\ ~Newer(e, m)
  BY <1>1, <1>4, <1>5, UpdatedEntry
<1>7. /\ Stamped(m) /\ Stamped(e) /\ Stamped(u)
      /\ \A x \in Unheard : Stamped(x) /\ x.player \in Players
      /\ \A p \in Players : Stamped(presenceClock[p])
  BY <1>1, <1>5, RecordsAreStamped DEF Entry, Stamped
<1>8. NotAhead(m, q) /\ NotAhead(e, q)
  BY <1>1 DEF RunningInv, AboutThePast
<1>9. NotAhead(u, q)
  BY <1>6, <1>8 DEF NotAhead
<1>10. u.generation >= e.generation /\ u.generation >= m.generation
  BY <1>6, <1>7 DEF Newer, Stamped
<1> HIDE DEF e, u
<1>11. AboutThePast'
  <2>1. \A x \in Unheard' : NotAhead(x, x.player)'
    BY <1>1, <1>2 DEF RunningInv, AboutThePast, NotAhead
  <2>2. ASSUME NEW p \in Players PROVE NotAhead(presenceClock[p], p)'
    <3>1. CASE p = q
      BY <1>2, <1>9, <3>1 DEF NotAhead, u
    <3>2. CASE p # q
      BY <1>1, <1>2, <1>3, <3>2 DEF RunningInv, AboutThePast, NotAhead
    <3> QED
      BY <3>1, <3>2
  <2> QED
    BY <1>1, <1>2, <2>1, <2>2 DEF RunningInv, AboutThePast
<1>12. LockedIsUnannounced'
  <2>1. ASSUME NEW c \in Connections, conn[c] = "locked"
        PROVE  presenceClock'[c[1]].generation # c[2]
    <3>1. presenceClock[c[1]].generation # c[2] /\ ~IsOf(m, c)
      BY <1>1, <2>1 DEF RunningInv, LockedIsUnannounced
    <3>2. CASE c[1] = q
      BY <1>6, <3>1, <3>2 DEF e, u, IsOf
    <3>3. CASE c[1] # q
      BY <1>3, <3>1, <3>3, ConnectionParts
    <3> QED
      BY <3>2, <3>3
  <2> QED
    BY <1>1, <1>2, <2>1 DEF RunningInv, LockedIsUnannounced, IsOf
<1>13. AuthorizedIsOpen'
  <2>1. ASSUME NEW c \in Connections, Announced(c),
               presenceClock'[c[1]].generation = c[2]
        PROVE  presenceClock'[c[1]].connected
    <3>1. /\ IsOf(m, c) => m.connected
          /\ presenceClock[c[1]].generation = c[2] => presenceClock[c[1]].connected
      BY <1>1, <2>1 DEF RunningInv, AuthorizedIsOpen
    <3>2. CASE c[1] = q
      BY <1>6, <2>1, <3>1, <3>2 DEF e, u, IsOf
    <3>3. CASE c[1] # q
      BY <1>3, <2>1, <3>1, <3>3, ConnectionParts
    <3> QED
      BY <3>2, <3>3
  <2> QED
    BY <1>1, <1>2, <2>1 DEF RunningInv, AuthorizedIsOpen, Announced, IsOf
<1>14. ArrivalPosted'
  <2> SUFFICES ASSUME NEW c \in Connections, Announced(c)
               PROVE  \/ presenceClock'[c[1]].generation >= c[2]
                      \/ \E x \in Unheard' : IsOf(x, c)
    BY <1>2 DEF ArrivalPosted, Announced, IsOf
  <2>1. c[1] \in Players /\ c[2] \in Nat
    BY ConnectionParts
  <2>2. CASE presenceClock[c[1]].generation >= c[2]
    <3>1. CASE c[1] = q
      BY <1>7, <1>10, <2>1, <2>2, <3>1 DEF e, u, Stamped
    <3>2. CASE c[1] # q
      BY <1>3, <2>1, <2>2, <3>2
    <3> QED
      BY <3>1, <3>2
  <2>3. ASSUME NEW x \in Unheard, IsOf(x, c)
        PROVE  \/ presenceClock'[c[1]].generation >= c[2]
               \/ x \in Unheard'
    <3>1. CASE x # m
      BY <1>2, <3>1
    <3>2. CASE x = m
      BY <1>10, <2>3, <3>2 DEF u, IsOf
    <3> QED
      BY <3>1, <3>2
  <2> QED
    BY <1>1, <2>2, <2>3 DEF RunningInv, ArrivalPosted
\* Whatever was superseded stays so: the delivered departure, if it was the
\* witness, is now behind or in the entry.
<1>15. ASSUME NEW x, Stamped(x), NEW p \in Players, Superseded(x, p)
       PROVE  Superseded(x, p)'
  <2>1. CASE Newer(presenceClock[p], x)
    <3>1. CASE p = q
      <4>1. Newer(u, x)
        BY <1>6, <1>7, <1>15, <2>1, <3>1, NewerTransitive DEF e
      <4> QED
        BY <3>1, <4>1 DEF Superseded, u
    <3>2. CASE p # q
      BY <1>3, <2>1, <3>2 DEF Superseded
    <3> QED
      BY <3>1, <3>2
  <2>2. ASSUME NEW d \in Unheard, d.player = p, ~d.connected, Newer(d, x)
        PROVE  Superseded(x, p)'
    <3>1. CASE d # m
      BY <1>2, <2>2, <3>1 DEF Superseded
    <3>2. CASE d = m
      <4>1. Newer(u, x)
        BY <1>6, <1>7, <1>15, <2>2, <3>2, NewerTransitive
      <4> QED
        BY <2>2, <3>2, <4>1 DEF Superseded, u
    <3> QED
      BY <3>1, <3>2
  <2> QED
    BY <1>15, <2>1, <2>2 DEF Superseded
<1>16. ASSUME NEW x \in Unheard', x.connected, Over(x, x.player)'
       PROVE  Superseded(x, x.player)'
  <2>1. x \in Unheard /\ Over(x, x.player)
    BY <1>2, <1>16 DEF Over, Announced
  <2>2. Superseded(x, x.player)
    BY <1>1, <1>16, <2>1 DEF RunningInv, DeparturePosted
  <2> QED
    BY <1>7, <1>15, <2>1, <2>2
<1>17. ASSUME NEW p \in Players, NEW x, x = presenceClock'[p], x.connected,
              Over(x, p)'
       PROVE  Superseded(x, p)'
  <2>1. Over(x, p)
    BY <1>2, <1>17 DEF Over, Announced
  <2>2. CASE p # q \/ u = e
    <3>1. x = presenceClock[p]
      BY <1>3, <1>17, <2>2 DEF e, u
    <3>2. Superseded(x, p)
      BY <1>1, <1>17, <2>1, <3>1 DEF RunningInv, DeparturePosted
    <3> QED
      BY <1>7, <1>15, <3>1, <3>2
  <2>3. CASE p = q /\ u # e
    <3>1. /\ x.generation = m.generation
          /\ x.at = m.at
          /\ m.connected
          /\ ~Newer(e, m)
      BY <1>6, <1>17, <2>3 DEF u
    <3>2. Over(m, p)
      BY <2>1, <3>1 DEF Over
    <3>3. Superseded(m, p)
      BY <1>1, <2>3, <3>1, <3>2 DEF RunningInv, DeparturePosted
    <3>4. PICK d \in Unheard : d.player = p /\ ~d.connected /\ Newer(d, m)
      BY <2>3, <3>1, <3>3 DEF Superseded, e
    <3>5. d # m
      BY <3>1, <3>4
    <3>6. Newer(d, x)
      BY <3>1, <3>4 DEF Newer
    <3> QED
      BY <1>2, <3>4, <3>5, <3>6 DEF Superseded
  <2> QED
    BY <2>2, <2>3
<1>18. DeparturePosted'
  BY <1>16, <1>17 DEF DeparturePosted, Over, Superseded
<1> QED
  BY <1>11, <1>12, <1>13, <1>14, <1>18 DEF RunningInv

-----------------------------------------------------------------------------
LEMMA InvInit ==
    ASSUME IsFiniteSet(Players), Init
    PROVE  PresenceInv
<1>1. Unheard = {}
  BY DEF Init, Unheard
<1>2. \A c \in Connections : c[1] \in Players /\ ~Announced(c) /\ conn[c] = "none"
  BY ConnectionParts DEF Init, Announced
<1>3. \A p \in Players : presenceClock[p] = NoEntry
  BY DEF Init
<1>4. RunningInv
  BY <1>1, <1>2, <1>3
     DEF RunningInv, AboutThePast, NotAhead, LockedIsUnannounced,
         AuthorizedIsOpen, ArrivalPosted, DeparturePosted, NoEntry
<1>5. running
  BY DEF Init
<1> QED
  BY <1>4, <1>5, TypeInit DEF PresenceInv

LEMMA InvStep ==
    ASSUME IsFiniteSet(Players), ForwardClock, PromptRelaunch = FALSE,
           PresenceInv, [Next]_vars
    PROVE  PresenceInv'
<1>1. TypeInv' /\ TypeOK'
  BY TypeStep DEF PresenceInv, TypeInv
<1>2. ASSUME NEW p \in Players, Join(p)
      PROVE  running' /\ RunningInv'
  BY <1>2, JoinStep DEF Join
<1>3. ASSUME NEW c \in Connections, GateStep(c)
      PROVE  running' /\ RunningInv'
  <2>1. conn[c] # "none" /\ running' = running
    BY <1>3 DEF GateStep, Authorize, Quit, QuitLocked
  <2>2. running'
    BY <2>1, OnlineIsRunning
  <2> QED
    BY <1>3, <2>2, PostStep, QuitLockedStep DEF GateStep
<1>4. ASSUME NEW m \in inFlight, Deliver(m)
      PROVE  (running => RunningInv)' /\ (~running => DownIsEmpty)'
  <2>1. CASE running
    BY <1>1, <1>4, <2>1, DeliverStep DEF Deliver
  <2>2. CASE ~running
    BY <1>4, <2>2 DEF Deliver, PresenceInv, DownIsEmpty
  <2> QED
    BY <2>1, <2>2
<1>5. ASSUME NEW m \in inFlight, Lose(m)
      PROVE  (running => RunningInv)' /\ (~running => DownIsEmpty)'
  <2>1. Unheard' = Unheard
    BY <1>5 DEF Lose, Unheard
  <2> QED
    BY <1>5, <2>1
       DEF Lose, PresenceInv, RunningInv, AboutThePast, NotAhead,
           LockedIsUnannounced, AuthorizedIsOpen, ArrivalPosted,
           DeparturePosted, Over, Superseded, Announced, DownIsEmpty
<1>6. ASSUME ProcessExit
      PROVE  ~running' /\ DownIsEmpty'
  BY <1>6 DEF ProcessExit, DownIsEmpty
<1>7. ASSUME Relaunch
      PROVE  running' /\ RunningInv'
  <2>1. running' /\ Unheard' = {}
    BY <1>7 DEF Relaunch, Unheard
  <2>2. /\ conn' = [c \in Connections |-> "none"]
        /\ presenceClock' = [p \in Players |-> NoEntry]
    BY <1>7 DEF Relaunch, PresenceInv, DownIsEmpty
  <2>3. \A c \in Connections : ~Announced(c)' /\ conn'[c] = "none"
    BY <2>2 DEF Announced
  <2>4. \A p \in Players : presenceClock'[p] = NoEntry
    BY <2>2
  <2> QED
    BY <2>1, <2>3, <2>4
       DEF RunningInv, AboutThePast, NotAhead, LockedIsUnannounced,
           AuthorizedIsOpen, ArrivalPosted, DeparturePosted, NoEntry
<1>8. ASSUME UNCHANGED vars
      PROVE  (running => RunningInv)' /\ (~running => DownIsEmpty)'
  BY <1>8
     DEF vars, PresenceInv, RunningInv, AboutThePast, NotAhead,
         LockedIsUnannounced, AuthorizedIsOpen, ArrivalPosted,
         DeparturePosted, Over, Superseded, DownIsEmpty, Announced, Unheard
<1>9. (running => RunningInv)' /\ (~running => DownIsEmpty)'
  BY <1>2, <1>3, <1>4, <1>5, <1>6, <1>7, <1>8 DEF Next
<1> QED
  BY <1>1, <1>9 DEF PresenceInv

LEMMA InvImpliesRight ==
    ASSUME PresenceInv
    PROVE  NoGhost /\ NoMissed
<1>1. TypeOK
  BY DEF PresenceInv, TypeInv
<1>2. NoGhost
  <2> SUFFICES ASSUME NEW p \in Players, p \in Counted,
                      ~Announced(<<p, presenceClock[p].generation>>)
               PROVE  \E m \in Unheard :
                         /\ m.player = p
                         /\ ~m.connected
                         /\ Newer(m, presenceClock[p])
    BY DEF NoGhost
  <2>1. RunningInv
    BY DEF PresenceInv, DownIsEmpty, Counted, NoEntry
  <2>2. Superseded(presenceClock[p], p)
    BY <2>1 DEF RunningInv, DeparturePosted, Over, Counted
  <2>3. ~Newer(presenceClock[p], presenceClock[p])
    BY <1>1, RecordsAreStamped DEF Newer, Stamped
  <2> QED
    BY <2>2, <2>3 DEF Superseded
<1>3. NoMissed
  <2> SUFFICES ASSUME NEW c \in Connections, Announced(c), IsNewest(c),
                      c[1] \notin Counted
               PROVE  \E m \in Unheard :
                         /\ m.player = c[1]
                         /\ m.connected
                         /\ Newer(m, presenceClock[c[1]])
    BY DEF NoMissed
  <2>1. RunningInv
    BY DEF PresenceInv, DownIsEmpty, Announced
  <2>2. c[1] \in Players /\ c[2] \in Nat
    BY ConnectionParts
  <2>3. presenceClock[c[1]].generation # c[2]
    BY <2>1, <2>2 DEF RunningInv, AuthorizedIsOpen, Counted
  <2>4. presenceClock[c[1]].generation < c[2]
    BY <1>1, <2>2, <2>3, RecordsAreStamped DEF IsNewest, Stamped
  <2>5. PICK m \in Unheard : IsOf(m, c)
    BY <1>1, <2>1, <2>2, <2>4, RecordsAreStamped
       DEF RunningInv, ArrivalPosted, Stamped
  <2>6. m.connected
    BY <2>1, <2>5 DEF RunningInv, AuthorizedIsOpen
  <2>7. m.player = c[1] /\ Newer(m, presenceClock[c[1]])
    BY <1>1, <2>2, <2>4, <2>5, RecordsAreStamped DEF Newer, IsOf, Stamped
  <2> QED
    BY <2>6, <2>7
<1> QED
  BY <1>2, <1>3

-----------------------------------------------------------------------------
(* Once every post was heard.                                              *)

LEMMA InvImpliesExact ==
    ASSUME PresenceInv
    PROVE  QuiescentExact
<1> SUFFICES ASSUME Unheard = {}, OnlyNewest
             PROVE  players = Cardinality(Authenticated)
  BY DEF QuiescentExact
<1>1. TypeOK /\ NoGhost /\ NoMissed
  BY InvImpliesRight DEF PresenceInv, TypeInv
<1>2. ASSUME NEW p \in Counted
      PROVE  p \in Authenticated
  <2>1. p \in Players /\ presenceClock[p].connected
    BY DEF Counted
  <2>2. RunningInv
    BY <2>1 DEF PresenceInv, DownIsEmpty, NoEntry
  <2>3. NotAhead(presenceClock[p], p)
    BY <2>1, <2>2 DEF RunningInv, AboutThePast
  <2>4. presenceClock[p].generation \in Generation
    BY <1>1, <2>1, <2>3, RecordsAreOfConnections
  <2>5. Announced(<<p, presenceClock[p].generation>>)
    BY <1>1, <2>1 DEF NoGhost
  <2> QED
    BY <2>1, <2>4, <2>5, ConnectionParts DEF Authenticated
<1>3. ASSUME NEW p \in Authenticated
      PROVE  p \in Counted
  <2>1. PICK c \in Connections : c[1] = p /\ Announced(c)
    BY DEF Authenticated
  <2>2. RunningInv /\ p \in Players /\ c[2] = lastGeneration[p]
    BY <2>1, ConnectionParts
       DEF PresenceInv, DownIsEmpty, Announced, OnlyNewest
  <2>3. NotAhead(presenceClock[p], p) /\ c[2] \in Nat
    BY <2>2, ConnectionParts DEF RunningInv, AboutThePast
  <2>4. presenceClock[p].generation <= c[2]
    BY <2>2, <2>3 DEF NotAhead
  <2> QED
    BY <1>1, <2>1, <2>4 DEF NoMissed, IsNewest
<1>4. Counted = Authenticated
  BY <1>2, <1>3
<1> QED
  BY <1>4 DEF PresenceInv, TypeInv

-----------------------------------------------------------------------------
(* The variables of HEMGate and of the orchestrator keep their types, and  *)
(* state.players never leaves 0 .. the number of players, whatever arrives *)
(* and whatever the clock does.                                            *)
THEOREM PresenceTypeCorrect ==
    ASSUME IsFiniteSet(Players)
    PROVE  Spec => []TypeOK
<1>1. Init => TypeInv
  BY TypeInit
<1>2. TypeInv /\ [Next]_vars => TypeInv'
  BY TypeStep
<1>3. TypeInv => TypeOK
  BY DEF TypeInv
<1> QED
  BY <1>1, <1>2, <1>3, PTL DEF Spec

(* The orchestrator is wrong about a player only while a newer post about  *)
(* that player is unheard: for every interleaving of presence              *)
(* notifications, of connections that overlap as well.  When none is       *)
(* unheard state.players is the number of players HEMGate has authorized,  *)
(* unless a connection outlives the one that replaced it.                  *)
THEOREM PresenceAccurate ==
    ASSUME IsFiniteSet(Players), ForwardClock, PromptRelaunch = FALSE
    PROVE  Spec => []CountExplained
<1>1. Init => PresenceInv
  BY InvInit
<1>2. PresenceInv /\ [Next]_vars => PresenceInv'
  BY InvStep
<1>3. PresenceInv => CountExplained
  BY InvImpliesRight, InvImpliesExact DEF CountExplained
<1> QED
  BY <1>1, <1>2, <1>3, PTL DEF Spec
=============================================================================
