---------------------------- MODULE GatewayProofs ----------------------------
(***************************************************************************)
(* What the gateway guarantees for streams of any length, queues of any    *)
(* size and every way of cutting Paper's stream into chunks: nothing is    *)
(* left in the queue without an event to flush it, every keepalive that    *)
(* was read is answered, what the browser receives is Paper's stream, what *)
(* Paper is written is the browser's, and Paper is answered once.          *)
(***************************************************************************)
EXTENDS Gateway, SequenceTheorems, FiniteSetTheorems, TLAPS

\* The inspection buffer holds the header of a packet whose body is to come.
BufferIsCurrent ==
    \E k \in Nat :
        \/ read = 2 * k /\ serverInspectBuffer = <<>>
        \/ read = 2 * k + 1 /\ serverInspectBuffer = <<2 * k + 1>>

GatewayInv == TypeOK /\ BufferIsCurrent /\ NoStall /\ SeenIsAnswered

\* What a write may do to the queue.
WriteOutcome ==
    [out : Seq(Frames), left : Seq(Frames), blocked : BOOLEAN, failed : BOOLEAN]

\* A write of `queue' that terminates the bridge or keeps the queue within its
\* limit, leaves nothing without an event to flush it, and loses nothing.
Sound(w, queue, connected) ==
    /\ w \in WriteOutcome
    /\ ~w.failed =>
          /\ Len(w.left) <= MaxQueue
          /\ w.left = <<>> \/ w.blocked \/ ~connected
          /\ \A g : In(g, queue) => In(g, w.out) \/ In(g, w.left)

-----------------------------------------------------------------------------
(* The parts of a sequence.                                                *)

LEMMA SubSeqType ==
    ASSUME NEW S, NEW q \in Seq(S), NEW m \in Nat \ {0}, NEW n \in Nat, n <= Len(q)
    PROVE  /\ SubSeq(q, m, n) \in Seq(S)
           /\ Len(SubSeq(q, m, n)) = IF m <= n THEN n - m + 1 ELSE 0
           /\ \A i \in 1 .. n - m + 1 : SubSeq(q, m, n)[i] = q[m + i - 1]
<1>1. \A i \in m .. n : q[i] \in S
  BY ElementOfSeq
<1> QED
  BY <1>1, SubSeqProperties

LEMMA InAppend ==
    ASSUME NEW S, NEW q \in Seq(S), NEW f \in S
    PROVE  \A g : In(g, Append(q, f)) <=> In(g, q) \/ g = f
<1>1. /\ DOMAIN q = 1 .. Len(q)
      /\ DOMAIN Append(q, f) = 1 .. Len(q) + 1
      /\ Len(q) \in Nat
  BY AppendProperties, LenProperties
<1> QED
  BY <1>1, AppendProperties DEF In

LEMMA InConcat ==
    ASSUME NEW S, NEW q \in Seq(S), NEW r \in Seq(S)
    PROVE  \A g : In(g, q \o r) <=> In(g, q) \/ In(g, r)
<1> TAKE g
<1>1. /\ DOMAIN q = 1 .. Len(q) /\ DOMAIN r = 1 .. Len(r)
      /\ DOMAIN (q \o r) = 1 .. Len(q) + Len(r)
      /\ Len(q) \in Nat /\ Len(r) \in Nat
  BY ConcatProperties, LenProperties
<1>2. \A i \in 1 .. Len(q) + Len(r) :
         (q \o r)[i] = IF i <= Len(q) THEN q[i] ELSE r[i - Len(q)]
  BY ConcatProperties
<1>3. In(g, q) => In(g, q \o r)
  BY <1>1, <1>2 DEF In
<1>4. In(g, r) => In(g, q \o r)
  <2>1. SUFFICES ASSUME NEW i \in 1 .. Len(r), r[i] = g
                 PROVE  In(g, q \o r)
    BY <1>1 DEF In
  <2>2. Len(q) + i \in 1 .. Len(q) + Len(r) /\ (q \o r)[Len(q) + i] = r[i]
    BY <1>1, <1>2
  <2> QED
    BY <1>1, <2>1, <2>2 DEF In
<1>5. In(g, q \o r) => In(g, q) \/ In(g, r)
  <2>1. SUFFICES ASSUME NEW i \in 1 .. Len(q) + Len(r), (q \o r)[i] = g
                 PROVE  In(g, q) \/ In(g, r)
    BY <1>1 DEF In
  <2>2. CASE i <= Len(q)
    BY <1>1, <1>2, <2>1, <2>2 DEF In
  <2>3. CASE ~(i <= Len(q))
    <3>1. i - Len(q) \in 1 .. Len(r) /\ r[i - Len(q)] = g
      BY <1>1, <1>2, <2>1, <2>3
    <3> QED
      BY <1>1, <3>1 DEF In
  <2> QED
    BY <2>2, <2>3
<1> QED
  BY <1>3, <1>4, <1>5

\* A queue cut in two loses nothing.
LEMMA InCut ==
    ASSUME NEW S, NEW q \in Seq(S), NEW n \in 1 .. Len(q), NEW g, In(g, q)
    PROVE  In(g, SubSeq(q, 1, n)) \/ In(g, SubSeq(q, n + 1, Len(q)))
<1>1. Len(q) \in Nat /\ DOMAIN q = 1 .. Len(q)
  BY LenProperties
<1>2. PICK i \in 1 .. Len(q) : q[i] = g
  BY <1>1 DEF In
<1>3. CASE i <= n
  <2> DEFINE left == SubSeq(q, 1, n)
  <2>1. /\ left \in Seq(S) /\ Len(left) = n
        /\ \A j \in 1 .. n : left[j] = q[j]
    BY <1>1, SubSeqType
  <2>2. DOMAIN left = 1 .. n
    BY <2>1, LenProperties
  <2>3. In(g, left)
    <3> HIDE DEF left
    <3> QED
      BY <1>1, <1>2, <1>3, <2>1, <2>2 DEF In
  <2> QED
    BY <2>3
<1>4. CASE i > n
  <2> DEFINE right == SubSeq(q, n + 1, Len(q))
  <2>1. /\ right \in Seq(S) /\ Len(right) = Len(q) - n
        /\ \A j \in 1 .. Len(q) - n : right[j] = q[n + j]
    <3>1. n + 1 \in Nat \ {0} /\ Len(q) <= Len(q) /\ n + 1 <= Len(q)
      BY <1>1, <1>4
    <3>2. /\ right \in Seq(S)
          /\ Len(right) = IF n + 1 <= Len(q) THEN Len(q) - (n + 1) + 1 ELSE 0
          /\ \A j \in 1 .. Len(q) - (n + 1) + 1 : right[j] = q[(n + 1) + j - 1]
      BY <1>1, <3>1, SubSeqType
    <3> HIDE DEF right
    <3> QED
      BY <1>1, <3>1, <3>2
  <2>2. DOMAIN right = 1 .. Len(q) - n
    BY <2>1, LenProperties
  <2>3. i - n \in 1 .. Len(q) - n /\ right[i - n] = g
    <3> HIDE DEF right
    <3> QED
      BY <1>1, <1>2, <1>4, <2>1
  <2>4. In(g, right)
    <3> HIDE DEF right
    <3> QED
      BY <2>2, <2>3 DEF In
  <2> QED
    BY <2>4
<1> QED
  BY <1>1, <1>3, <1>4

-----------------------------------------------------------------------------
(* Every way to write is sound.                                            *)

LEMMA EmptyType == <<>> \in Seq(Frames) /\ Len(<<>>) = 0
BY EmptySeq

LEMMA FlushIsSound ==
    ASSUME NEW q \in Seq(Frames), NEW c \in BOOLEAN, NEW b \in BOOLEAN,
           Len(q) <= MaxQueue, NEW w \in flushClientQueue(q, c, b)
    PROVE  Sound(w, q, c)
<1>1. Len(q) \in Nat /\ MaxQueue \in Nat
  BY LenProperties, BoundsAssumption
<1>2. CASE ~c \/ b \/ q = <<>>
  <2>1. w = [out |-> <<>>, left |-> q, blocked |-> b, failed |-> FALSE]
    BY <1>2 DEF flushClientQueue
  <2> QED
    BY <1>2, <2>1, EmptyType DEF Sound, WriteOutcome
<1>3. CASE ~(~c \/ b \/ q = <<>>)
  <2>1. \/ w = [out |-> q, left |-> <<>>, blocked |-> FALSE, failed |-> FALSE]
        \/ \E n \in 1 .. Len(q) :
              w = [out |-> SubSeq(q, 1, n), left |-> SubSeq(q, n + 1, Len(q)),
                   blocked |-> TRUE, failed |-> FALSE]
        \/ \E n \in 1 .. Len(q) :
              w = [out |-> SubSeq(q, 1, n - 1), left |-> SubSeq(q, n + 1, Len(q)),
                   blocked |-> FALSE, failed |-> TRUE]
    BY <1>3 DEF flushClientQueue
  <2>2. CASE w = [out |-> q, left |-> <<>>, blocked |-> FALSE, failed |-> FALSE]
    BY <1>1, <2>2, EmptyType DEF Sound, WriteOutcome
  <2>3. ASSUME NEW n \in 1 .. Len(q),
               w = [out |-> SubSeq(q, 1, n), left |-> SubSeq(q, n + 1, Len(q)),
                    blocked |-> TRUE, failed |-> FALSE]
        PROVE  Sound(w, q, c)
    <3>1. SubSeq(q, 1, n) \in Seq(Frames)
      BY <1>1, SubSeqType
    <3>2. /\ SubSeq(q, n + 1, Len(q)) \in Seq(Frames)
          /\ Len(SubSeq(q, n + 1, Len(q))) <= Len(q)
      <4>1. n + 1 \in Nat \ {0} /\ Len(q) <= Len(q)
        BY <1>1
      <4> QED
        BY <1>1, <4>1, SubSeqType
    <3>3. \A g : In(g, q) =>
             In(g, SubSeq(q, 1, n)) \/ In(g, SubSeq(q, n + 1, Len(q)))
      BY InCut
    <3> DEFINE l == SubSeq(q, 1, n)
               r == SubSeq(q, n + 1, Len(q))
    <3>4. /\ l \in Seq(Frames) /\ r \in Seq(Frames) /\ Len(r) <= Len(q)
          /\ Len(r) \in Nat
          /\ w = [out |-> l, left |-> r, blocked |-> TRUE, failed |-> FALSE]
          /\ \A g : In(g, q) => In(g, l) \/ In(g, r)
      BY <2>3, <3>1, <3>2, <3>3, LenProperties
    <3> HIDE DEF l, r
    <3> QED
      BY <1>1, <3>4 DEF Sound, WriteOutcome
  <2>4. ASSUME NEW n \in 1 .. Len(q),
               w = [out |-> SubSeq(q, 1, n - 1),
                    left |-> SubSeq(q, n + 1, Len(q)),
                    blocked |-> FALSE, failed |-> TRUE]
        PROVE  Sound(w, q, c)
    <3>1. SubSeq(q, 1, n - 1) \in Seq(Frames)
      <4>1. n - 1 \in Nat /\ n - 1 <= Len(q)
        BY <1>1
      <4> QED
        BY <4>1, SubSeqType
    <3>2. SubSeq(q, n + 1, Len(q)) \in Seq(Frames)
      <4>1. n + 1 \in Nat \ {0} /\ Len(q) <= Len(q)
        BY <1>1
      <4> QED
        BY <1>1, <4>1, SubSeqType
    <3> QED
      BY <2>4, <3>1, <3>2 DEF Sound, WriteOutcome
  <2> QED
    BY <2>1, <2>2, <2>3, <2>4
<1> QED
  BY <1>2, <1>3

LEMMA QueueTcpWriteIsSound ==
    ASSUME TypeOK, NEW f \in Frames, NEW w \in queueTcpWrite(f)
    PROVE  Sound(w, Append(clientQueue, f), tcpConnected)
<1> DEFINE queue == Append(clientQueue, f)
<1>1. queue \in Seq(Frames) /\ Len(queue) \in Nat /\ MaxQueue \in Nat
  BY AppendProperties, LenProperties, BoundsAssumption DEF TypeOK
<1>2. w \in IF Len(queue) > MaxQueue
            THEN {[out |-> <<>>, left |-> queue, blocked |-> tcpBlocked,
                   failed |-> TRUE]}
            ELSE flushClientQueue(queue, tcpConnected, tcpBlocked)
  BY DEF queueTcpWrite
<1> SUFFICES Sound(w, queue, tcpConnected)
  OBVIOUS
<1> HIDE DEF queue
<1>3. CASE Len(queue) > MaxQueue
  <2>1. w = [out |-> <<>>, left |-> queue, blocked |-> tcpBlocked, failed |-> TRUE]
    BY <1>2, <1>3
  <2>2. tcpBlocked \in BOOLEAN
    BY DEF TypeOK
  <2> QED
    BY <1>1, <2>1, <2>2, EmptyType DEF Sound, WriteOutcome
<1>4. CASE ~(Len(queue) > MaxQueue)
  BY <1>1, <1>2, <1>4, FlushIsSound, SMTT(30) DEF TypeOK
<1> QED
  BY <1>3, <1>4

LEMMA NoWriteIsSound ==
    ASSUME TypeOK, NoStall, ~terminated
    PROVE  Sound(NoWrite, clientQueue, tcpConnected)
<1>1. Len(clientQueue) \in Nat /\ MaxQueue \in Nat
  BY LenProperties, BoundsAssumption DEF TypeOK
<1> QED
  BY <1>1, EmptyType DEF NoWrite, Sound, WriteOutcome, TypeOK, NoStall

\* What a sound write makes of the queue and of what has been written.
LEMMA SoundStep ==
    ASSUME TypeOK, NEW queue, NEW w, Sound(w, queue, tcpConnected'), Written(w),
           ~terminated' => ~w.failed
    PROVE  /\ clientQueue' \in Seq(Frames)
           /\ written' \in Seq(Frames)
           /\ tcpBlocked' \in BOOLEAN
           /\ Len(clientQueue') > MaxQueue => terminated'
           /\ NoStall'
           /\ ~terminated' =>
                 \A g : In(g, written) \/ In(g, queue) =>
                           In(g, written') \/ In(g, clientQueue')
<1>1. /\ w.out \in Seq(Frames) /\ w.left \in Seq(Frames)
      /\ w.blocked \in BOOLEAN /\ written \in Seq(Frames)
      /\ Len(w.left) \in Nat /\ MaxQueue \in Nat
  BY LenProperties, BoundsAssumption DEF Sound, WriteOutcome, TypeOK
<1>2. /\ clientQueue' = w.left /\ written' = written \o w.out
      /\ tcpBlocked' = w.blocked
  BY DEF Written
<1>3. written' \in Seq(Frames)
  BY <1>1, <1>2, ConcatProperties
<1>4. \A g : In(g, written') <=> In(g, written) \/ In(g, w.out)
  BY <1>1, <1>2, InConcat
<1> QED
  BY <1>1, <1>2, <1>3, <1>4 DEF Sound, NoStall

-----------------------------------------------------------------------------
(* Reading Paper's stream.                                                 *)

Chunks == {<<read + 1>>, <<read + 1, read + 2>>}

\* What short sequences are made of.
LEMMA Short ==
    ASSUME NEW x, NEW y
    PROVE  /\ Len(<<>>) = 0 /\ Len(<<x>>) = 1 /\ Len(<<x, y>>) = 2
           /\ <<>> \o <<x>> = <<x>> /\ <<>> \o <<x, y>> = <<x, y>>
           /\ SubSeq(<<x, y>>, 3, Len(<<x, y>>)) = <<>>
<1>1. <<x>> \in Seq({x, y}) /\ <<x, y>> \in Seq({x, y})
  OBVIOUS
<1>2. Len(<<>>) = 0 /\ Len(<<x>>) = 1 /\ Len(<<x, y>>) = 2
  OBVIOUS
<1>3. <<>> \o <<x>> = <<x>> /\ <<>> \o <<x, y>> = <<x, y>>
  BY <1>1, ConcatEmptySeq
<1>4. SubSeq(<<x, y>>, 3, Len(<<x, y>>)) = <<>>
  BY <1>2, SubSeqEmpty
<1> QED
  BY <1>2, <1>3, <1>4

LEMMA Pair ==
    ASSUME NEW x, NEW y
    PROVE  <<x>> \o <<y>> = <<x, y>>
<1> DEFINE S == {x, y}
           s == <<x>> \o <<y>>
           t == <<x, y>>
<1>1. /\ <<x>> \in Seq(S) /\ <<y>> \in Seq(S) /\ t \in Seq(S)
      /\ Len(<<x>>) = 1 /\ Len(<<y>>) = 1 /\ Len(t) = 2
  OBVIOUS
<1> HIDE DEF S
<1>2. s \in Seq(S) /\ Len(s) = 2
  BY <1>1, ConcatProperties
<1>3. \A i \in 1 .. 2 : s[i] = t[i]
  BY <1>1, ConcatProperties
<1> HIDE DEF s, t
<1>4. s = t
  BY <1>1, <1>2, <1>3, SeqEqual
<1> QED
  BY <1>4 DEF s, t

LEMMA Triple ==
    ASSUME NEW x, NEW y, NEW z
    PROVE  /\ <<x>> \o <<y, z>> = <<x, y, z>>
           /\ Len(<<x, y, z>>) = 3
           /\ SubSeq(<<x, y, z>>, 3, Len(<<x, y, z>>)) = <<z>>
<1> DEFINE S == {x, y, z}
           s == <<x>> \o <<y, z>>
           t == <<x, y, z>>
           u == SubSeq(t, 3, 3)
           v == <<z>>
<1>1. /\ <<x>> \in Seq(S) /\ <<y, z>> \in Seq(S) /\ t \in Seq(S) /\ v \in Seq(S)
      /\ Len(<<x>>) = 1 /\ Len(<<y, z>>) = 2 /\ Len(t) = 3 /\ Len(v) = 1
  OBVIOUS
<1> HIDE DEF S
<1>2. s \in Seq(S) /\ Len(s) = 3
  BY <1>1, ConcatProperties
<1>3. \A i \in 1 .. 3 : s[i] = t[i]
  BY <1>1, ConcatProperties
<1>4. u \in Seq(S) /\ Len(u) = 1
  BY <1>1, SubSeqType
<1>5. \A i \in 1 .. 1 : u[i] = v[i]
  BY <1>1, SubSeqType
<1> HIDE DEF s, t, u, v
<1>6. s = t
  BY <1>1, <1>2, <1>3, SeqEqual
<1>7. u = v
  BY <1>1, <1>4, <1>5, SeqEqual
<1>8. SubSeq(t, 3, Len(t)) = v
  BY <1>1, <1>7 DEF u
<1>9. s = t /\ Len(t) = 3 /\ SubSeq(t, 3, Len(t)) = v
  BY <1>1, <1>6, <1>8
<1> QED
  BY <1>9, Zenon DEF s, t, v

\* A chunk keeps the buffer current, and completes every packet whose last
\* unit it holds.
LEMMA InspectedChunk ==
    ASSUME TypeOK, BufferIsCurrent, NEW chunk \in Chunks,
           read + Len(chunk) <= 2 * MaxPackets,
           read' = read + Len(chunk),
           serverInspectBuffer' = Inspected(chunk).rest
    PROVE  /\ read' \in 0 .. 2 * MaxPackets
           /\ chunk \in Seq(Units)
           /\ serverInspectBuffer' \in Seq(Units)
           /\ BufferIsCurrent'
           /\ \A p \in KeepAlives :
                 2 * p <= read' => 2 * p <= read \/ p = Inspected(chunk).complete
           /\ \A p \in KeepAlives :
                 p = Inspected(chunk).complete => 2 * p <= read' /\ ~(2 * p <= read)
<1>1. read \in Nat /\ MaxPackets \in Nat /\ KeepAlives \subseteq Nat
  BY BoundsAssumption, KeepAliveAssumption DEF TypeOK
<1>2. PICK k \in Nat :
         \/ read = 2 * k /\ serverInspectBuffer = <<>>
         \/ read = 2 * k + 1 /\ serverInspectBuffer = <<2 * k + 1>>
  BY DEF BufferIsCurrent
<1>3. (2 * k + 2) \div 2 = k + 1
  OBVIOUS
<1>4. \/ /\ read = 2 * k /\ read' = 2 * k + 1 /\ chunk = <<read + 1>>
         /\ Inspected(chunk) = [complete |-> 0, rest |-> <<2 * k + 1>>]
      \/ /\ read = 2 * k /\ read' = 2 * k + 2 /\ chunk = <<read + 1, read + 2>>
         /\ Inspected(chunk) = [complete |-> k + 1, rest |-> <<>>]
      \/ /\ read = 2 * k + 1 /\ read' = 2 * k + 2 /\ chunk = <<read + 1>>
         /\ Inspected(chunk) = [complete |-> k + 1, rest |-> <<>>]
      \/ /\ read = 2 * k + 1 /\ read' = 2 * k + 3
         /\ chunk = <<read + 1, read + 2>>
         /\ Inspected(chunk) = [complete |-> k + 1, rest |-> <<2 * k + 3>>]
  <2> DEFINE buffer == serverInspectBuffer \o chunk
  <2>1. CASE read = 2 * k /\ serverInspectBuffer = <<>> /\ chunk = <<read + 1>>
    <3>1. buffer = <<2 * k + 1>> /\ Len(buffer) = 1 /\ Len(chunk) = 1
      BY <2>1, Short
    <3> QED
      BY <2>1, <3>1 DEF Inspected
  <2>2. CASE read = 2 * k /\ serverInspectBuffer = <<>>
             /\ chunk = <<read + 1, read + 2>>
    <3>1. buffer = <<2 * k + 1, 2 * k + 2>> /\ Len(buffer) = 2
          /\ Len(chunk) = 2 /\ SubSeq(buffer, 3, Len(buffer)) = <<>>
      BY <2>2, Short
    <3>2. buffer[2] \div 2 = k + 1
      BY <1>3, <3>1
    <3> QED
      BY <2>2, <3>1, <3>2 DEF Inspected
  <2>3. CASE read = 2 * k + 1 /\ serverInspectBuffer = <<2 * k + 1>>
             /\ chunk = <<read + 1>>
    <3>0. read + 1 = 2 * k + 2
      BY <2>3
    <3>1. buffer = <<2 * k + 1, 2 * k + 2>> /\ Len(buffer) = 2
          /\ Len(chunk) = 1 /\ SubSeq(buffer, 3, Len(buffer)) = <<>>
      <4>1. chunk = <<2 * k + 2>> /\ buffer = <<2 * k + 1>> \o <<2 * k + 2>>
        BY <2>3, <3>0
      <4> HIDE DEF buffer
      <4>2. buffer = <<2 * k + 1, 2 * k + 2>>
        BY <4>1, Pair, Zenon
      <4>3. Len(buffer) = 2 /\ SubSeq(buffer, 3, Len(buffer)) = <<>>
        BY <4>2, Short, Zenon
      <4> QED
        BY <4>1, <4>2, <4>3, Short
    <3>2. buffer[2] \div 2 = k + 1
      BY <1>3, <3>1
    <3> QED
      BY <2>3, <3>1, <3>2 DEF Inspected
  <2>4. CASE read = 2 * k + 1 /\ serverInspectBuffer = <<2 * k + 1>>
             /\ chunk = <<read + 1, read + 2>>
    <3>1. read + 1 = 2 * k + 2 /\ read + 2 = 2 * k + 3
      BY <2>4
    <3>2. buffer = <<2 * k + 1, 2 * k + 2, 2 * k + 3>> /\ Len(buffer) = 3
          /\ Len(chunk) = 2 /\ SubSeq(buffer, 3, Len(buffer)) = <<2 * k + 3>>
      <4>1. /\ chunk = <<2 * k + 2, 2 * k + 3>>
            /\ buffer = <<2 * k + 1>> \o <<2 * k + 2, 2 * k + 3>>
        BY <2>4, <3>1
      <4> HIDE DEF buffer
      <4>2. buffer = <<2 * k + 1, 2 * k + 2, 2 * k + 3>>
        BY <4>1, Triple, Zenon
      <4>3. Len(buffer) = 3 /\ SubSeq(buffer, 3, Len(buffer)) = <<2 * k + 3>>
        BY <4>2, Triple, Zenon
      <4> QED
        BY <4>1, <4>2, <4>3, Short
    <3>3. buffer[2] \div 2 = k + 1
      BY <1>3, <3>2
    <3> QED
      BY <2>4, <3>2, <3>3 DEF Inspected
  <2> QED
    BY <1>2, <2>1, <2>2, <2>3, <2>4 DEF Chunks
<1>5. read' \in 0 .. 2 * MaxPackets
  BY <1>1, <1>4
<1>6. /\ \A x \in Units : <<x>> \in Seq(Units)
      /\ \A x, y \in Units : <<x, y>> \in Seq(Units)
      /\ <<>> \in Seq(Units)
  OBVIOUS
<1>7. chunk \in Seq(Units)
  <2>1. CASE chunk = <<read + 1>>
    <3>1. read + 1 \in Units
      BY <1>1, <1>4, <1>5, <2>1 DEF Units
    <3> QED
      BY <1>6, <2>1, <3>1
  <2>2. CASE chunk = <<read + 1, read + 2>>
    <3>1. Len(chunk) = 2
      BY <2>2, Short
    <3>2. read + 1 \in Units /\ read + 2 \in Units
      BY <1>1, <1>5, <3>1 DEF Units
    <3> QED
      BY <1>6, <2>2, <3>2
  <2> QED
    BY <2>1, <2>2 DEF Chunks
<1>8. BufferIsCurrent'
  <2>1. \E m \in Nat : \/ read' = 2 * m /\ serverInspectBuffer' = <<>>
                       \/ read' = 2 * m + 1
                          /\ serverInspectBuffer' = <<2 * m + 1>>
    <3>1. k + 1 \in Nat /\ 2 * (k + 1) = 2 * k + 2
          /\ 2 * (k + 1) + 1 = 2 * k + 3
      OBVIOUS
    <3> QED
      BY <1>4, <3>1, SMTT(30)
  <2> QED
    BY <2>1 DEF BufferIsCurrent
<1>9. serverInspectBuffer' \in Seq(Units)
  <2>1. serverInspectBuffer' \in {<<>>, <<read'>>}
    BY <1>4
  <2>2. read' \in Units \/ serverInspectBuffer' = <<>>
    BY <1>1, <1>4, <1>5 DEF Units
  <2> QED
    BY <1>6, <2>1, <2>2
<1>10. \A p \in KeepAlives :
          2 * p <= read' => 2 * p <= read \/ p = Inspected(chunk).complete
  <2>1. \A p \in Nat : 2 * p <= 2 * k + 3 => p <= k \/ p = k + 1
    OBVIOUS
  <2>2. \A p \in Nat : /\ p <= k => 2 * p <= 2 * k /\ 2 * p <= 2 * k + 1
                       /\ 2 * p <= 2 * k + 1 => p <= k
    OBVIOUS
  <2>3. read' = 2 * k + 1 \/ Inspected(chunk).complete = k + 1
    BY <1>4
  <2> QED
    BY <1>1, <1>4, <2>1, <2>2, <2>3
<1>11. \A p \in KeepAlives :
          p = Inspected(chunk).complete => 2 * p <= read' /\ ~(2 * p <= read)
  <2>1. ASSUME NEW p \in KeepAlives, p = Inspected(chunk).complete
        PROVE  p = k + 1 /\ read' >= 2 * k + 2 /\ read <= 2 * k + 1
    <3>1. p # 0
      BY <1>1, KeepAliveAssumption
    <3> QED
      BY <1>4, <2>1, <3>1
  <2>2. \A p \in KeepAlives : p = k + 1 => 2 * p = 2 * k + 2
    OBVIOUS
  <2> QED
    BY <1>1, <1>5, <2>1, <2>2
<1> QED
  BY <1>5, <1>7, <1>8, <1>9, <1>10, <1>11

-----------------------------------------------------------------------------
(* The invariant.                                                          *)

LEMMA GatewayInit == Init => GatewayInv
<1> SUFFICES ASSUME Init PROVE GatewayInv
  OBVIOUS
<1>1. TypeOK
  <2>1. MaxFrames \in Nat /\ MaxPackets \in Nat /\ MaxQueue \in Nat
    BY BoundsAssumption
  <2>2. <<>> \in Seq(Frames) /\ <<>> \in Seq(Units) /\ Len(<<>>) = 0
    BY EmptySeq
  <2>3. /\ 0 \in 0 .. MaxFrames /\ 0 \in 0 .. 2 * MaxPackets
        /\ ~(Len(<<>>) > MaxQueue)
    BY <2>1, <2>2
  <2>4. Len(clientQueue) > MaxQueue => terminated
    BY <2>3 DEF Init
  <2> QED
    BY <2>2, <2>3, <2>4 DEF Init, TypeOK
<1>2. BufferIsCurrent
  <2>1. read = 2 * 0 /\ serverInspectBuffer = <<>>
    BY DEF Init
  <2> QED
    BY <2>1 DEF BufferIsCurrent
<1>3. NoStall
  BY DEF Init, NoStall
<1>4. SeenIsAnswered
  <2>1. MaxPackets \in Nat
    BY BoundsAssumption
  <2>2. \A p \in KeepAlives : p \in Nat /\ p >= 1
    BY <2>1, KeepAliveAssumption
  <2> QED
    BY <2>2 DEF Init, SeenIsAnswered
<1> QED
  BY <1>1, <1>2, <1>3, <1>4 DEF GatewayInv

\* An event that leaves the gateway's streams alone keeps the invariant.
LEMMA Elsewhere ==
    ASSUME GatewayInv, TypeOK', terminated' \in {terminated, TRUE},
           UNCHANGED <<tcpVars, read, serverInspectBuffer, tcpConnected>>
    PROVE  GatewayInv'
<1>1. BufferIsCurrent'
  BY DEF GatewayInv, BufferIsCurrent
<1>2. NoStall'
  BY DEF GatewayInv, NoStall, tcpVars, TypeOK
<1>3. SeenIsAnswered'
  BY DEF GatewayInv, SeenIsAnswered, tcpVars, TypeOK
<1> QED
  BY <1>1, <1>2, <1>3 DEF GatewayInv

LEMMA BrowserStep ==
    ASSUME GatewayInv, Browser
    PROVE  GatewayInv'
<1>1. UNCHANGED <<tcpVars, read, serverInspectBuffer, tcpConnected, terminated,
                  fastAnsweredKeepAlives>>
  BY DEF Browser, BrowserSends, BrowserAnswers, BrowserReceives, BrowserEnds,
         BrowserHearsClose, serverVars
<1>2. TypeOK
  BY DEF GatewayInv
<1>3. /\ browser' \in {"open", "closed", "gone"} /\ sent' \in 0 .. MaxFrames
      /\ owed' \subseteq KeepAlives /\ received' \in Seq(Units)
      /\ toGateway' \in Seq(Frames) /\ toBrowser' \in Seq(Units)
  <2>1. CASE BrowserSends
    <3>1. sent + 1 \in 1 .. MaxFrames
      BY <1>2, <2>1, BoundsAssumption DEF TypeOK, BrowserSends
    <3>2. Append(toGateway, Packet(sent + 1)) \in Seq(Frames)
      <4>1. Packet(sent + 1) \in Frames
        BY <3>1 DEF Frames
      <4> QED
        BY <1>2, <4>1, AppendProperties DEF TypeOK
    <3> QED
      BY <1>2, <2>1, <3>1, <3>2 DEF TypeOK, BrowserSends, serverVars
  <2>2. ASSUME NEW p \in KeepAlives, BrowserAnswers(p)
        PROVE  /\ browser' \in {"open", "closed", "gone"} /\ sent' \in 0 .. MaxFrames
               /\ owed' \subseteq KeepAlives /\ received' \in Seq(Units)
               /\ toGateway' \in Seq(Frames) /\ toBrowser' \in Seq(Units)
    <3>1. Append(toGateway, Answer(p)) \in Seq(Frames)
      <4>1. Answer(p) \in Frames
        BY DEF Frames
      <4> QED
        BY <1>2, <4>1, AppendProperties DEF TypeOK
    <3> QED
      BY <1>2, <2>2, <3>1 DEF TypeOK, BrowserAnswers, serverVars
  <2>3. CASE BrowserReceives
    <3>1. /\ Tail(toBrowser) \in Seq(Units)
          /\ Append(received, Head(toBrowser)) \in Seq(Units)
      BY <1>2, <2>3, HeadTailProperties, AppendProperties
         DEF TypeOK, BrowserReceives
    <3> QED
      BY <1>2, <2>3, <3>1 DEF TypeOK, BrowserReceives
  <2>4. CASE BrowserEnds
    BY <1>2, <2>4 DEF TypeOK, BrowserEnds, serverVars
  <2>5. CASE BrowserHearsClose
    BY <1>2, <2>5 DEF TypeOK, BrowserHearsClose, serverVars
  <2> QED
    BY <2>1, <2>2, <2>3, <2>4, <2>5 DEF Browser
<1>4. TypeOK'
  BY <1>1, <1>2, <1>3 DEF TypeOK, tcpVars
<1> QED
  BY <1>1, <1>4, Elsewhere

\* A handler that writes soundly what it took, and reads nothing from Paper.
LEMMA WriteStep ==
    ASSUME GatewayInv, ~terminated,
           NEW queue, NEW w, Sound(w, queue, tcpConnected'), Written(w),
           terminated' = w.failed,
           \A g : In(g, clientQueue) => In(g, queue),
           toGateway' \in Seq(Frames), tcpConnected' \in BOOLEAN,
           UNCHANGED <<browserVars, serverVars>>
    PROVE  GatewayInv'
<1>1. TypeOK /\ BufferIsCurrent /\ SeenIsAnswered
  BY DEF GatewayInv
<1>2. terminated' \in BOOLEAN
  BY DEF Sound, WriteOutcome
<1>3. /\ clientQueue' \in Seq(Frames) /\ written' \in Seq(Frames)
      /\ tcpBlocked' \in BOOLEAN /\ NoStall'
      /\ Len(clientQueue') > MaxQueue => terminated'
      /\ ~terminated' =>
            \A g : In(g, written) \/ In(g, queue) =>
                      In(g, written') \/ In(g, clientQueue')
  BY <1>1, SoundStep
<1>4. TypeOK'
  BY <1>1, <1>2, <1>3 DEF TypeOK, browserVars, serverVars
<1>5. BufferIsCurrent'
  BY <1>1 DEF BufferIsCurrent, serverVars
<1>6. SeenIsAnswered'
  BY <1>1, <1>3 DEF SeenIsAnswered, serverVars
<1> QED
  BY <1>3, <1>4, <1>5, <1>6 DEF GatewayInv

LEMMA WsMessageStep ==
    ASSUME GatewayInv, WsMessage
    PROVE  GatewayInv'
<1>1. TypeOK /\ NoStall /\ ~terminated
  BY DEF GatewayInv, WsMessage
<1>2. Head(toGateway) \in Frames /\ toGateway' \in Seq(Frames)
  BY <1>1, HeadTailProperties DEF WsMessage, TypeOK
<1>3. tcpConnected' = tcpConnected /\ tcpConnected \in BOOLEAN
  BY <1>1 DEF WsMessage, TypeOK
<1>4. UNCHANGED <<browserVars, serverVars>>
  BY DEF WsMessage
<1>5. CASE \E p \in fastAnsweredKeepAlives : Head(toGateway) = Answer(p)
  <2>1. Written(NoWrite) /\ terminated' = NoWrite.failed
    BY <1>5 DEF WsMessage
  <2>2. Sound(NoWrite, clientQueue, tcpConnected')
    BY <1>1, <1>3, NoWriteIsSound
  <2> QED
    BY <1>1, <1>2, <1>3, <1>4, <2>1, <2>2, WriteStep
<1>6. CASE ~ \E p \in fastAnsweredKeepAlives : Head(toGateway) = Answer(p)
  <2>1. PICK w \in queueTcpWrite(Head(toGateway)) :
           Written(w) /\ terminated' = w.failed
    BY <1>6 DEF WsMessage
  <2>2. Sound(w, Append(clientQueue, Head(toGateway)), tcpConnected')
    BY <1>1, <1>2, <1>3, QueueTcpWriteIsSound
  <2>3. \A g : In(g, clientQueue) => In(g, Append(clientQueue, Head(toGateway)))
    BY <1>1, <1>2, InAppend DEF TypeOK
  <2> QED
    BY <1>1, <1>2, <1>3, <1>4, <2>1, <2>2, <2>3, WriteStep
<1> QED
  BY <1>5, <1>6

LEMMA FlushStep ==
    ASSUME GatewayInv, TcpConnect \/ TcpDrain
    PROVE  GatewayInv'
<1>1. TypeOK /\ ~terminated
  BY DEF GatewayInv, TcpConnect, TcpDrain
<1>2. Len(clientQueue) <= MaxQueue
  BY <1>1, LenProperties, BoundsAssumption DEF TypeOK
<1>3. PICK b \in BOOLEAN :
         \E w \in flushClientQueue(clientQueue, tcpConnected', b) :
            Written(w) /\ terminated' = w.failed
  <2>1. tcpBlocked \in BOOLEAN
    BY <1>1 DEF TypeOK
  <2> QED
    BY <2>1 DEF TcpConnect, TcpDrain
<1>4. tcpConnected' \in BOOLEAN /\ toGateway' \in Seq(Frames)
  BY <1>1 DEF TcpConnect, TcpDrain, TypeOK
<1>5. UNCHANGED <<browserVars, serverVars>>
  BY DEF TcpConnect, TcpDrain
<1>6. PICK w \in flushClientQueue(clientQueue, tcpConnected', b) :
         Written(w) /\ terminated' = w.failed
  BY <1>3
<1>7. Sound(w, clientQueue, tcpConnected')
  BY <1>1, <1>2, <1>4, FlushIsSound DEF TypeOK
<1> QED
  BY <1>1, <1>4, <1>5, <1>6, <1>7, WriteStep

LEMMA TcpDataStep ==
    ASSUME GatewayInv, TcpData
    PROVE  GatewayInv'
<1>1. TypeOK /\ BufferIsCurrent /\ NoStall /\ SeenIsAnswered /\ ~terminated
  BY DEF GatewayInv, TcpData
<1> DEFINE seen(c) == KeepAlives \cap {Inspected(c).complete}
           answers(c) == UNION {queueTcpWrite(Answer(p)) : p \in seen(c)}
           silence(c) == IF seen(c) = {} THEN {NoWrite} ELSE {}
<1>2. PICK chunk \in Chunks :
         /\ read + Len(chunk) <= 2 * MaxPackets
         /\ read' = read + Len(chunk)
         /\ serverInspectBuffer' = Inspected(chunk).rest
         /\ fastAnsweredKeepAlives' = fastAnsweredKeepAlives \cup seen(chunk)
         /\ \E w \in answers(chunk) \cup silence(chunk) :
               /\ Written(w)
               /\ terminated' = (w.failed \/ Len(toBrowser) > MaxBuffered)
               /\ toBrowser' = IF terminated' THEN toBrowser
                               ELSE toBrowser \o chunk
  BY DEF TcpData, Chunks
<1>3. PICK w \in answers(chunk) \cup silence(chunk) :
         /\ Written(w)
         /\ terminated' = (w.failed \/ Len(toBrowser) > MaxBuffered)
         /\ toBrowser' = IF terminated' THEN toBrowser ELSE toBrowser \o chunk
  BY <1>2
<1>4. UNCHANGED <<browserVars, toGateway, tcpConnected>>
  BY DEF TcpData
<1>5. /\ read' \in 0 .. 2 * MaxPackets
      /\ chunk \in Seq(Units)
      /\ serverInspectBuffer' \in Seq(Units)
      /\ BufferIsCurrent'
      /\ \A p \in KeepAlives :
            2 * p <= read' => 2 * p <= read \/ p = Inspected(chunk).complete
  BY <1>1, <1>2, InspectedChunk
\* The chunk's keepalive, if it completes one, is in the queue that is written.
<1>6. PICK queue : /\ Sound(w, queue, tcpConnected')
                   /\ \A g : In(g, clientQueue) => In(g, queue)
                   /\ \A p \in seen(chunk) : In(Answer(p), queue)
  <2>1. ASSUME NEW p \in seen(chunk), w \in queueTcpWrite(Answer(p))
        PROVE  \E queue : /\ Sound(w, queue, tcpConnected')
                          /\ \A g : In(g, clientQueue) => In(g, queue)
                          /\ \A q \in seen(chunk) : In(Answer(q), queue)
    <3>1. Answer(p) \in Frames
      BY DEF Frames
    <3>2. Sound(w, Append(clientQueue, Answer(p)), tcpConnected')
      BY <1>1, <1>4, <2>1, <3>1, QueueTcpWriteIsSound
    <3>3. \A g : In(g, Append(clientQueue, Answer(p))) <=>
                    In(g, clientQueue) \/ g = Answer(p)
      BY <1>1, <3>1, InAppend DEF TypeOK
    <3>4. \A q \in seen(chunk) : q = p
      OBVIOUS
    <3> QED
      BY <3>2, <3>3, <3>4
  <2>2. CASE seen(chunk) = {} /\ w = NoWrite
    <3>1. Sound(w, clientQueue, tcpConnected')
      BY <1>1, <1>4, <2>2, NoWriteIsSound
    <3> QED
      BY <2>2, <3>1
  <2>3. \/ seen(chunk) = {} /\ w = NoWrite
        \/ \E p \in seen(chunk) : w \in queueTcpWrite(Answer(p))
    <3>1. w \in answers(chunk) \/ w \in silence(chunk)
      <4>1. w \in answers(chunk) \cup silence(chunk)
        BY <1>3
      <4> HIDE DEF answers, silence
      <4> QED
        BY <4>1
    <3> HIDE DEF seen
    <3>2. CASE w \in answers(chunk)
      BY <3>2
    <3>3. CASE w \in silence(chunk)
      BY <3>3
    <3> QED
      BY <3>1, <3>2, <3>3
  <2> QED
    BY <2>1, <2>2, <2>3
<1>7. /\ clientQueue' \in Seq(Frames) /\ written' \in Seq(Frames)
      /\ tcpBlocked' \in BOOLEAN /\ NoStall'
      /\ Len(clientQueue') > MaxQueue => terminated'
      /\ ~terminated' =>
            \A g : In(g, written) \/ In(g, queue) =>
                      In(g, written') \/ In(g, clientQueue')
  <2>1. ~terminated' => ~w.failed
    BY <1>3
  <2> QED
    BY <1>1, <1>3, <1>6, <2>1, SoundStep
<1>8. TypeOK'
  <2>1. terminated' \in BOOLEAN
    BY <1>3, <1>6 DEF Sound, WriteOutcome
  <2>2. toBrowser' \in Seq(Units)
    BY <1>1, <1>3, <1>5, ConcatProperties DEF TypeOK
  <2>3. fastAnsweredKeepAlives' \subseteq KeepAlives
    BY <1>1, <1>2 DEF TypeOK
  <2>4. tcpConnected' \in BOOLEAN
    BY <1>1, <1>4 DEF TypeOK
  <2> QED
    BY <1>1, <1>4, <1>5, <1>7, <2>1, <2>2, <2>3, <2>4 DEF TypeOK, browserVars
<1>9. SeenIsAnswered'
  <2>1. SUFFICES ASSUME NEW p \in KeepAlives, 2 * p <= read', ~terminated'
                 PROVE  In(Answer(p), written') \/ In(Answer(p), clientQueue')
    BY DEF SeenIsAnswered
  <2>2. CASE 2 * p <= read
    <3>1. In(Answer(p), written) \/ In(Answer(p), clientQueue)
      BY <1>1, <2>2 DEF SeenIsAnswered
    <3> QED
      BY <1>6, <1>7, <2>1, <3>1
  <2>3. CASE p = Inspected(chunk).complete
    <3>1. In(Answer(p), queue)
      BY <1>6, <2>3
    <3> QED
      BY <1>7, <2>1, <3>1
  <2> QED
    BY <1>5, <2>1, <2>2, <2>3
<1> QED
  BY <1>5, <1>7, <1>8, <1>9 DEF GatewayInv

LEMMA GatewayStep == GatewayInv /\ [Next]_vars => GatewayInv'
<1> SUFFICES ASSUME GatewayInv, [Next]_vars PROVE GatewayInv'
  OBVIOUS
<1>1. TypeOK
  BY DEF GatewayInv
<1>2. CASE Browser
  BY <1>2, BrowserStep
<1>3. CASE WsMessage
  BY <1>3, WsMessageStep
<1>4. CASE TcpConnect \/ TcpDrain
  BY <1>4, FlushStep
<1>5. CASE TcpData
  BY <1>5, TcpDataStep
<1>6. ASSUME NEW p \in KeepAlives, Expire(p)
      PROVE  GatewayInv'
  <2>1. TypeOK'
    BY <1>1, <1>6 DEF TypeOK, Expire, browserVars, tcpVars
  <2> QED
    BY <1>6, <2>1, Elsewhere DEF Expire
<1>7. CASE WsClose \/ Fails
  <2>1. TypeOK'
    BY <1>1, <1>7 DEF TypeOK, WsClose, Fails, browserVars, tcpVars, serverVars
  <2> QED
    BY <1>7, <2>1, Elsewhere DEF WsClose, Fails, serverVars
<1>8. CASE UNCHANGED vars
  <2>1. TypeOK'
    BY <1>1, <1>8 DEF TypeOK, vars, browserVars, tcpVars, serverVars
  <2> QED
    BY <1>8, <2>1, Elsewhere DEF vars, serverVars
<1> QED
  BY <1>2, <1>3, <1>4, <1>5, <1>6, <1>7, <1>8 DEF Next

THEOREM GatewayInvariant == Spec => []GatewayInv
BY GatewayInit, GatewayStep, PTL DEF Spec

-----------------------------------------------------------------------------
\* Every variable keeps to its range; in particular no bridge that goes on
\* holds more than MAX_CLIENT_QUEUE_BYTES for its TCP socket.
THEOREM GatewayTypeCorrect == Spec => []TypeOK
<1>1. GatewayInv => TypeOK
  BY DEF GatewayInv
<1> QED
  BY <1>1, GatewayInvariant, PTL

\* Frames from the browser wait in the queue only while the TCP socket has
\* asked for a pause or is not connected yet: bridgeHemConnection never leaves
\* one behind that no event would flush.
THEOREM QueueNeverStalls == Spec => []NoStall
<1>1. GatewayInv => NoStall
  BY DEF GatewayInv
<1> QED
  BY <1>1, GatewayInvariant, PTL

\* The gateway answers every keepalive it has read, wherever Paper's stream
\* was cut into chunks.
THEOREM KeepAlivesAreAnswered == Spec => []SeenIsAnswered
<1>1. GatewayInv => SeenIsAnswered
  BY DEF GatewayInv
<1> QED
  BY <1>1, GatewayInvariant, PTL

-----------------------------------------------------------------------------
(* The way down is a pipe.                                                 *)

UpTo(n) == [i \in 1 .. n |-> i]

\* What is on its way to the browser continues what the browser has; nothing
\* is missing before the end of the bridge.
DownlinkInv ==
    /\ received = UpTo(Len(received))
    /\ \A i \in 1 .. Len(toBrowser) : toBrowser[i] = Len(received) + i
    /\ Len(received) + Len(toBrowser) <= read
    /\ ~terminated => Len(received) + Len(toBrowser) = read

LEMMA UpToType ==
    ASSUME NEW n \in Nat
    PROVE  UpTo(n) \in Seq(Nat) /\ Len(UpTo(n)) = n
<1>1. UpTo(n) \in [1 .. n -> Nat]
  BY DEF UpTo
<1> QED
  BY <1>1

LEMMA UpToPrefix ==
    ASSUME NEW m \in Nat, NEW n \in Nat, m <= n
    PROVE  SubSeq(UpTo(n), 1, m) = UpTo(m)
<1> DEFINE s == SubSeq(UpTo(n), 1, m)
           t == UpTo(m)
<1>1. UpTo(n) \in Seq(Nat) /\ Len(UpTo(n)) = n
  BY UpToType
<1>2. /\ s \in Seq(Nat) /\ Len(s) = IF 1 <= m THEN m - 1 + 1 ELSE 0
      /\ \A i \in 1 .. m - 1 + 1 : s[i] = UpTo(n)[1 + i - 1]
  BY <1>1, SubSeqType
<1>3. t \in Seq(Nat) /\ Len(t) = m
  BY UpToType
<1>4. \A i \in 1 .. m : UpTo(n)[i] = t[i]
  BY DEF UpTo
<1> HIDE DEF s, t
<1>5. Len(s) = m /\ \A i \in 1 .. m : s[i] = t[i]
  BY <1>2, <1>4
<1>6. s = t
  BY <1>2, <1>3, <1>5, SeqEqual
<1> QED
  BY <1>6 DEF s, t

LEMMA UnitsAreNumbers ==
    ASSUME NEW q \in Seq(Units)
    PROVE  q \in Seq(Nat) /\ Len(q) \in Nat
<1>1. Units \subseteq Nat
  BY BoundsAssumption DEF Units
<1>2. Len(q) \in Nat /\ q \in [1 .. Len(q) -> Units]
  BY LenProperties
<1>3. q \in [1 .. Len(q) -> Nat]
  BY <1>1, <1>2
<1> QED
  BY <1>2, <1>3

LEMMA DownlinkInit == Init => DownlinkInv
<1> SUFFICES ASSUME Init PROVE DownlinkInv
  OBVIOUS
<1>1. Len(<<>>) = 0
  BY EmptySeq
<1>2. UpTo(0) = <<>>
  <2>1. UpTo(0) \in Seq(Nat) /\ Len(UpTo(0)) = 0
    BY UpToType
  <2> QED
    BY <2>1, EmptySeq
<1> QED
  BY <1>1, <1>2 DEF Init, DownlinkInv

\* A step that neither reads from Paper nor delivers to the browser.
LEMMA DownlinkElsewhere ==
    ASSUME DownlinkInv, terminated => terminated',
           UNCHANGED <<received, toBrowser, read>>
    PROVE  DownlinkInv'
BY DEF DownlinkInv

LEMMA DownlinkData ==
    ASSUME TypeOK, DownlinkInv, TcpData
    PROVE  DownlinkInv' /\ read' >= read
<1>1. PICK chunk \in Chunks :
         /\ read' = read + Len(chunk)
         /\ toBrowser' = IF terminated' THEN toBrowser ELSE toBrowser \o chunk
  BY DEF TcpData, Chunks
<1>2. /\ Len(toBrowser) \in Nat /\ Len(received) \in Nat /\ read \in Nat
      /\ toBrowser \in Seq(Nat)
  <2>1. read \in Nat
    BY BoundsAssumption DEF TypeOK
  <2> QED
    BY <2>1, UnitsAreNumbers DEF TypeOK
<1>3. /\ chunk \in Seq(Nat) /\ Len(chunk) \in Nat
      /\ \A i \in 1 .. Len(chunk) : chunk[i] = read + i
  <2>1. CASE chunk = <<read + 1>>
    BY <1>2, <2>1
  <2>2. CASE chunk = <<read + 1, read + 2>>
    BY <1>2, <2>2
  <2> QED
    BY <2>1, <2>2 DEF Chunks
<1>4. received' = received /\ ~terminated
  BY DEF TcpData, browserVars
<1>5. CASE terminated'
  BY <1>1, <1>2, <1>3, <1>4, <1>5 DEF DownlinkInv
<1>6. CASE ~terminated'
  <2> DEFINE t == toBrowser \o chunk
  <2>1. /\ Len(t) = Len(toBrowser) + Len(chunk)
        /\ \A i \in 1 .. Len(toBrowser) + Len(chunk) :
              t[i] = IF i <= Len(toBrowser) THEN toBrowser[i]
                     ELSE chunk[i - Len(toBrowser)]
    BY <1>2, <1>3, ConcatProperties
  <2>2. toBrowser' = t
    BY <1>1, <1>6
  <2> HIDE DEF t
  <2>3. Len(received) + Len(toBrowser) = read
    BY <1>4 DEF DownlinkInv
  <2>4. ASSUME NEW i \in 1 .. Len(t)
        PROVE  t[i] = Len(received) + i
    <3>1. CASE i <= Len(toBrowser)
      <4>1. i \in 1 .. Len(toBrowser) /\ t[i] = toBrowser[i]
        BY <1>2, <1>3, <2>1, <3>1
      <4> QED
        BY <4>1 DEF DownlinkInv
    <3>2. CASE ~(i <= Len(toBrowser))
      <4>1. i - Len(toBrowser) \in 1 .. Len(chunk)
        BY <1>2, <1>3, <2>1, <3>2
      <4>2. t[i] = read + (i - Len(toBrowser))
        BY <1>2, <1>3, <2>1, <3>2, <4>1
      <4> QED
        BY <1>2, <2>3, <4>2
    <3> QED
      BY <3>1, <3>2
  <2>5. Len(received) + Len(t) = read' /\ read' >= read
    <3>1. read' = read + Len(chunk) /\ Len(chunk) \in Nat
      BY <1>1, <1>3
    <3>2. Len(t) = Len(toBrowser) + Len(chunk)
      BY <2>1
    <3> QED
      BY <1>2, <2>3, <3>1, <3>2
  <2>6. received = UpTo(Len(received)) /\ Len(received) + Len(t) <= read'
    BY <1>2, <1>3, <2>1, <2>5 DEF DownlinkInv
  <2> QED
    BY <1>4, <2>2, <2>4, <2>5, <2>6 DEF DownlinkInv
<1> QED
  BY <1>5, <1>6

LEMMA DownlinkReceives ==
    ASSUME TypeOK, DownlinkInv, BrowserReceives
    PROVE  /\ DownlinkInv'
           /\ Len(received') \in Nat /\ Len(received) <= Len(received')
           /\ Len(received') <= read
<1>1. /\ Len(toBrowser) \in Nat /\ Len(received) \in Nat /\ read \in Nat
      /\ toBrowser \in Seq(Nat) /\ received \in Seq(Nat) /\ toBrowser # <<>>
      /\ toBrowser' = Tail(toBrowser)
      /\ received' = Append(received, Head(toBrowser))
      /\ read' = read /\ terminated' = terminated
  <2>1. read \in Nat
    BY BoundsAssumption DEF TypeOK
  <2> QED
    BY <2>1, UnitsAreNumbers DEF TypeOK, BrowserReceives
<1>2. /\ Head(toBrowser) \in Nat /\ Head(toBrowser) = toBrowser[1]
      /\ Len(toBrowser) >= 1 /\ Len(toBrowser') = Len(toBrowser) - 1
      /\ \A i \in 1 .. Len(toBrowser') : toBrowser'[i] = toBrowser[i + 1]
  <2>1. Len(toBrowser) >= 1
    BY <1>1, EmptySeq
  <2> QED
    BY <1>1, <2>1, HeadTailProperties
<1>3. Head(toBrowser) = Len(received) + 1
  BY <1>1, <1>2 DEF DownlinkInv
<1> DEFINE n == Len(received) + 1
           s == Append(received, Head(toBrowser))
<1>4. /\ s \in Seq(Nat) /\ Len(s) = n /\ s[n] = n
      /\ \A i \in 1 .. Len(received) : s[i] = received[i]
  BY <1>1, <1>2, <1>3, AppendProperties
<1>5. s = UpTo(n)
  <2>1. n \in Nat /\ UpTo(n) \in Seq(Nat) /\ Len(UpTo(n)) = n
    BY <1>1, UpToType
  <2>2. \A i \in 1 .. Len(received) : received[i] = i
    BY <1>1 DEF DownlinkInv, UpTo
  <2>3. ASSUME NEW i \in 1 .. n
        PROVE  s[i] = UpTo(n)[i]
    <3>1. UpTo(n)[i] = i
      BY DEF UpTo
    <3>2. i \in 1 .. Len(received) \/ i = n
      BY <1>1
    <3> HIDE DEF s, n
    <3> QED
      BY <1>4, <2>2, <3>1, <3>2
  <2> HIDE DEF s, n
  <2> QED
    BY <1>4, <2>1, <2>3, SeqEqual
<1>6. received' = UpTo(Len(received')) /\ Len(received') = Len(received) + 1
  <2> HIDE DEF s
  <2>1. received' = s
    BY <1>1 DEF s
  <2> QED
    BY <1>4, <1>5, <2>1
<1>7. \A i \in 1 .. Len(toBrowser') : toBrowser'[i] = Len(received') + i
  BY <1>1, <1>2, <1>6 DEF DownlinkInv
<1> QED
  BY <1>1, <1>2, <1>6, <1>7 DEF DownlinkInv

\* What the browser may see of a step, in the terms of Pipe.
LEMMA DownlinkStep ==
    ASSUME GatewayInv, DownlinkInv, [Next]_vars
    PROVE  /\ DownlinkInv'
           /\ [Downlink!Put \/ Downlink!Deliver]_<<UpTo(read), received,
                                                   browser = "open">>
<1>1. TypeOK /\ read \in Nat /\ Len(received) \in Nat /\ Len(toBrowser) \in Nat
  <2>1. TypeOK
    BY DEF GatewayInv
  <2> QED
    BY <2>1, LenProperties, BoundsAssumption DEF TypeOK
<1>2. CASE TcpData
  <2>1. DownlinkInv' /\ read' >= read
    BY <1>1, <1>2, DownlinkData
  <2>2. TypeOK'
    BY GatewayStep, <1>2 DEF GatewayInv, Next
  <2>3. read' \in Nat
    BY <2>2, BoundsAssumption DEF TypeOK
  <2>4. Downlink!Extended(UpTo(read), UpTo(read'))
    BY <1>1, <2>1, <2>3, UpToType, UpToPrefix DEF Downlink!Extended
  <2>5. UNCHANGED <<received, browser>>
    BY <1>2 DEF TcpData, browserVars
  <2>6. Downlink!Put
    BY <2>4, <2>5 DEF Downlink!Put, UpTo
  <2> QED
    BY <2>1, <2>6
<1>3. CASE BrowserReceives
  <2>1. /\ DownlinkInv'
        /\ Len(received') \in Nat /\ Len(received) <= Len(received')
        /\ Len(received') <= read
    BY <1>1, <1>3, DownlinkReceives
  <2>2. received' = SubSeq(UpTo(read), 1, Len(received'))
    BY <1>1, <2>1, UpToPrefix DEF DownlinkInv
  <2>3. Len(UpTo(read)) = read
    BY <1>1, UpToType
  <2>4. browser = "open" /\ UNCHANGED <<browser, read>>
    BY <1>3 DEF BrowserReceives
  <2>5. \E n \in Len(received) .. Len(UpTo(read)) :
           received' = SubSeq(UpTo(read), 1, n)
    <3>1. Len(received') \in Len(received) .. Len(UpTo(read))
      BY <1>1, <2>1, <2>3
    <3> QED
      BY <2>2, <3>1
  <2>6. Downlink!Deliver
    BY <2>4, <2>5 DEF Downlink!Deliver, UpTo
  <2> QED
    BY <2>1, <2>6
<1>4. CASE BrowserEnds \/ BrowserHearsClose
  <2>1. /\ browser = "open"
        /\ UNCHANGED <<received, toBrowser, read, terminated>>
    BY <1>4 DEF BrowserEnds, BrowserHearsClose, serverVars
  <2>2. DownlinkInv'
    BY <2>1, DownlinkElsewhere
  <2>3. received = SubSeq(UpTo(read), 1, Len(received)) /\ Len(received) <= read
    BY <1>1, UpToPrefix, SMTT(30) DEF DownlinkInv
  <2>4. Len(UpTo(read)) = read
    BY <1>1, UpToType
  <2>5. \E n \in Len(received) .. Len(UpTo(read)) :
           received' = SubSeq(UpTo(read), 1, n)
    <3>1. Len(received) \in Len(received) .. Len(UpTo(read))
      BY <1>1, <2>3, <2>4
    <3>2. received' = SubSeq(UpTo(read), 1, Len(received))
      BY <2>1, <2>3
    <3> QED
      BY <3>1, <3>2
  <2>6. Downlink!Deliver
    BY <2>1, <2>5 DEF Downlink!Deliver, UpTo
  <2> QED
    BY <2>2, <2>6
<1>5. CASE \/ BrowserSends \/ \E p \in KeepAlives : BrowserAnswers(p)
           \/ WsMessage \/ TcpConnect \/ TcpDrain
           \/ \E p \in KeepAlives : Expire(p)
           \/ WsClose \/ Fails \/ UNCHANGED vars
  <2>1. /\ UNCHANGED <<received, toBrowser, read, browser>>
        /\ terminated => terminated'
    <3>1. CASE BrowserSends \/ \E p \in KeepAlives : BrowserAnswers(p)
      BY <3>1 DEF BrowserSends, BrowserAnswers, serverVars
    <3>2. CASE WsMessage \/ TcpConnect \/ TcpDrain
      BY <3>2 DEF WsMessage, TcpConnect, TcpDrain, browserVars, serverVars
    <3>3. CASE \E p \in KeepAlives : Expire(p)
      BY <3>3 DEF Expire, browserVars
    <3>4. CASE WsClose \/ Fails \/ UNCHANGED vars
      BY <3>4 DEF WsClose, Fails, vars, browserVars, serverVars
    <3> QED
      BY <1>5, <3>1, <3>2, <3>3, <3>4
  <2>2. DownlinkInv'
    BY <2>1, DownlinkElsewhere
  <2> QED
    BY <2>1, <2>2
<1> QED
  BY <1>2, <1>3, <1>4, <1>5 DEF Next, Browser

\* The browser receives Paper's bytes unchanged, in order and without a gap,
\* whatever chunks they come in, however slowly it reads, up to the end of the
\* connection: the handlers of bridgeHemConnection implement Pipe.
THEOREM DownlinkImplementsPipe == Spec => DownlinkIsAPipe
<1>1. Init => Downlink!Init
  <2> SUFFICES ASSUME Init PROVE Downlink!Init
    OBVIOUS
  <2>1. UpTo(0) = <<>>
    BY UpToType, EmptySeq
  <2> QED
    BY <2>1 DEF Init, Downlink!Init, UpTo
<1>2. GatewayInv /\ DownlinkInv /\ [Next]_vars =>
         /\ DownlinkInv'
         /\ [Downlink!Put \/ Downlink!Deliver]_<<UpTo(read), received,
                                                 browser = "open">>
  BY DownlinkStep
<1> QED
  BY <1>1, <1>2, DownlinkInit, GatewayInvariant, PTL
     DEF Spec, DownlinkIsAPipe, Downlink!Spec, UpTo

-----------------------------------------------------------------------------
(* Keepalives are answered once, if a browser answers within               *)
(* KEEPALIVE_DEDUPE_MS.                                                    *)

Once(frames) ==
    \A i, j \in DOMAIN frames :
        frames[i] = frames[j] /\ frames[i].type = "answer" => i = j

Apart(s, t) == \A p \in KeepAlives : ~(In(Answer(p), s) /\ In(Answer(p), t))

\* No answer is written twice or waits to be written again; every one of them
\* is the gateway's own, given when it read the keepalive.
AnswersAreOnce == Once(written) /\ Once(clientQueue) /\ Apart(written, clientQueue)
AnswersAreSeen ==
    \A p \in KeepAlives :
        In(Answer(p), written) \/ In(Answer(p), clientQueue) => 2 * p <= read

\* An answer that the browser has sent or has still to send is remembered as
\* given, and so is one to a keepalive that the browser has not yet received.
DuplicatesAreKnown ==
    /\ \A p \in KeepAlives :
          \/ In(Answer(p), toGateway)
          \/ browser = "open" /\ p \in owed
          => p \in fastAnsweredKeepAlives
    /\ browser = "open" =>
          \A p \in KeepAlives :
              2 * p <= read /\ 2 * p > Len(received) => p \in fastAnsweredKeepAlives

OnceInv == AnswersAreOnce /\ AnswersAreSeen /\ DuplicatesAreKnown

LEMMA AnswerOf ==
    \A f \in Frames :
        f.type = "answer" => \E p \in KeepAlives : f = Answer(p)
BY DEF Frames, Packet, Answer

LEMMA AnswersDiffer ==
    /\ \A p, q \in KeepAlives : Answer(p) = Answer(q) => p = q
    /\ \A p \in KeepAlives : Answer(p) \in Frames /\ Answer(p).type = "answer"
    /\ \A n, p : Packet(n) # Answer(p)
BY DEF Frames, Packet, Answer

\* Two sequences without a common answer.
LEMMA OnceConcat ==
    ASSUME NEW s \in Seq(Frames), NEW t \in Seq(Frames),
           Once(s), Once(t), Apart(s, t)
    PROVE  Once(s \o t)
<1>1. /\ DOMAIN s = 1 .. Len(s) /\ DOMAIN t = 1 .. Len(t)
      /\ DOMAIN (s \o t) = 1 .. Len(s) + Len(t)
      /\ Len(s) \in Nat /\ Len(t) \in Nat
  BY ConcatProperties, LenProperties
<1>2. \A i \in 1 .. Len(s) + Len(t) :
         (s \o t)[i] = IF i <= Len(s) THEN s[i] ELSE t[i - Len(s)]
  BY ConcatProperties
<1> DEFINE r == s \o t
<1>3. /\ \A i \in 1 .. Len(s) : r[i] = s[i]
      /\ \A i \in 1 .. Len(s) + Len(t) :
            i > Len(s) => i - Len(s) \in 1 .. Len(t) /\ r[i] = t[i - Len(s)]
  BY <1>1, <1>2
<1> HIDE DEF r
<1>4. ASSUME NEW i \in 1 .. Len(s), NEW j \in 1 .. Len(t), s[i] = t[j],
             s[i].type = "answer"
      PROVE  FALSE
  <2>1. s[i] \in Frames
    BY <1>1, ElementOfSeq
  <2>2. PICK p \in KeepAlives : s[i] = Answer(p)
    BY <1>4, <2>1, AnswerOf
  <2>3. In(Answer(p), s) /\ In(Answer(p), t)
    BY <1>1, <1>4, <2>2 DEF In
  <2> QED
    BY <2>3 DEF Apart
<1>5. ASSUME NEW i \in 1 .. Len(s) + Len(t), NEW j \in 1 .. Len(s) + Len(t),
             r[i] = r[j], r[i].type = "answer"
      PROVE  i = j
  <2>1. CASE i <= Len(s) /\ j <= Len(s)
    <3>1. i \in 1 .. Len(s) /\ j \in 1 .. Len(s)
      BY <1>1, <2>1
    <3> QED
      BY <1>1, <1>3, <1>5, <3>1 DEF Once
  <2>2. CASE i <= Len(s) /\ j > Len(s)
    <3>1. i \in 1 .. Len(s) /\ j - Len(s) \in 1 .. Len(t)
      BY <1>1, <1>3, <2>2
    <3> QED
      BY <1>3, <1>4, <1>5, <2>2, <3>1
  <2>3. CASE i > Len(s) /\ j <= Len(s)
    <3>1. j \in 1 .. Len(s) /\ i - Len(s) \in 1 .. Len(t)
      BY <1>1, <1>3, <2>3
    <3> QED
      BY <1>3, <1>4, <1>5, <2>3, <3>1
  <2>4. CASE i > Len(s) /\ j > Len(s)
    <3>1. i - Len(s) \in 1 .. Len(t) /\ j - Len(s) \in 1 .. Len(t)
      BY <1>3, <2>4
    <3>2. r[i] = t[i - Len(s)] /\ r[j] = t[j - Len(s)]
      BY <1>3, <2>4
    <3>3. t[i - Len(s)] = t[j - Len(s)] /\ t[i - Len(s)].type = "answer"
      BY <1>5, <3>2
    <3>4. i - Len(s) = j - Len(s)
      BY <1>1, <3>1, <3>3 DEF Once
    <3> QED
      BY <1>1, <3>4
  <2> QED
    BY <1>1, <2>1, <2>2, <2>3, <2>4
<1> QED
  BY <1>1, <1>5 DEF Once, r

LEMMA OnceAppend ==
    ASSUME NEW s \in Seq(Frames), NEW f \in Frames, Once(s),
           f.type = "answer" => ~In(f, s)
    PROVE  Once(Append(s, f))
<1> DEFINE r == Append(s, f)
<1>1. /\ DOMAIN s = 1 .. Len(s) /\ DOMAIN r = 1 .. Len(s) + 1 /\ Len(s) \in Nat
      /\ r[Len(s) + 1] = f
      /\ \A i \in 1 .. Len(s) : r[i] = s[i]
  BY AppendProperties, LenProperties
<1> HIDE DEF r
<1>2. ASSUME NEW i \in 1 .. Len(s) + 1, NEW j \in 1 .. Len(s) + 1,
             r[i] = r[j], r[i].type = "answer"
      PROVE  i = j
  <2>1. /\ i \in 1 .. Len(s) \/ i = Len(s) + 1
        /\ j \in 1 .. Len(s) \/ j = Len(s) + 1
    BY <1>1
  <2> QED
    BY <1>1, <1>2, <2>1 DEF Once, In
<1> QED
  BY <1>1, <1>2 DEF Once, r

\* What two parts of a sequence that do not overlap contain.
LEMMA OnceCut ==
    ASSUME NEW q \in Seq(Frames), Once(q),
           NEW m \in Nat, NEW n \in Nat, m < n, m <= Len(q)
    PROVE  /\ Once(SubSeq(q, 1, m)) /\ Once(SubSeq(q, n, Len(q)))
           /\ Apart(SubSeq(q, 1, m), SubSeq(q, n, Len(q)))
           /\ \A g : In(g, SubSeq(q, 1, m)) \/ In(g, SubSeq(q, n, Len(q)))
                        => In(g, q)
<1>1. /\ Len(q) \in Nat /\ DOMAIN q = 1 .. Len(q)
      /\ n \in Nat \ {0} /\ Len(q) <= Len(q)
  BY LenProperties
<1> DEFINE left == SubSeq(q, 1, m)
           right == SubSeq(q, n, Len(q))
<1>2. /\ DOMAIN left = 1 .. m
      /\ \A i \in 1 .. m : i \in DOMAIN q /\ left[i] = q[i]
  <2>1. /\ left \in Seq(Frames)
        /\ Len(left) = IF 1 <= m THEN m - 1 + 1 ELSE 0
        /\ \A i \in 1 .. m - 1 + 1 : left[i] = q[1 + i - 1]
    BY <1>1, SubSeqType
  <2> HIDE DEF left
  <2>2. Len(left) = m /\ \A i \in 1 .. m : left[i] = q[i]
    BY <2>1
  <2> QED
    BY <1>1, <2>1, <2>2, LenProperties
<1>3. /\ DOMAIN right \subseteq Nat \ {0}
      /\ \A i \in DOMAIN right :
            n + i - 1 \in DOMAIN q /\ right[i] = q[n + i - 1]
  <2>1. /\ right \in Seq(Frames)
        /\ Len(right) = IF n <= Len(q) THEN Len(q) - n + 1 ELSE 0
        /\ \A i \in 1 .. Len(q) - n + 1 : right[i] = q[n + i - 1]
    BY <1>1, SubSeqType
  <2> HIDE DEF right
  <2>2. DOMAIN right = 1 .. Len(right) /\ Len(right) \in Nat
    BY <2>1, LenProperties
  <2> QED
    BY <1>1, <2>1, <2>2, SMTT(30)
<1> HIDE DEF left, right
<1>4. Once(left)
  BY <1>2 DEF Once
<1>5. Once(right)
  <2>1. ASSUME NEW i \in DOMAIN right, NEW j \in DOMAIN right,
               right[i] = right[j], right[i].type = "answer"
        PROVE  i = j
    <3>1. n + i - 1 = n + j - 1
      BY <1>3, <2>1 DEF Once
    <3> QED
      BY <1>3, <3>1
  <2> QED
    BY <2>1 DEF Once
<1>6. Apart(left, right)
  <2>1. SUFFICES ASSUME NEW p \in KeepAlives, NEW i \in DOMAIN left,
                        NEW j \in DOMAIN right,
                        left[i] = Answer(p), right[j] = Answer(p)
                 PROVE  FALSE
    BY DEF Apart, In
  <2>2. i = n + j - 1
    BY <1>2, <1>3, <2>1, AnswersDiffer, ZenonT(30) DEF Once
  <2> QED
    BY <1>2, <1>3, <2>2
<1>7. \A g : In(g, left) \/ In(g, right) => In(g, q)
  BY <1>2, <1>3 DEF In
<1> QED
  BY <1>4, <1>5, <1>6, <1>7 DEF left, right

\* A write that repeats no answer of the queue, and adds none.
Careful(w, queue) ==
    /\ w.out \in Seq(Frames) /\ w.left \in Seq(Frames)
    /\ Once(w.out) /\ Once(w.left) /\ Apart(w.out, w.left)
    /\ \A g : In(g, w.out) \/ In(g, w.left) => In(g, queue)

LEMMA EmptyIsCareful ==
    /\ <<>> \in Seq(Frames) /\ Once(<<>>)
    /\ \A g : ~In(g, <<>>)
    /\ \A s : Apart(<<>>, s) /\ Apart(s, <<>>)
<1>1. DOMAIN <<>> = {} /\ <<>> \in Seq(Frames)
  BY EmptySeq
<1> QED
  BY <1>1 DEF Once, In, Apart

LEMMA FlushIsCareful ==
    ASSUME NEW q \in Seq(Frames), NEW c, NEW b, Once(q),
           NEW w \in flushClientQueue(q, c, b)
    PROVE  Careful(w, q)
<1>1. Len(q) \in Nat
  BY LenProperties
<1>2. \/ w.out = <<>> /\ w.left = q
      \/ w.out = q /\ w.left = <<>>
      \/ \E n \in 1 .. Len(q) :
            /\ w.out \in {SubSeq(q, 1, n), SubSeq(q, 1, n - 1)}
            /\ w.left = SubSeq(q, n + 1, Len(q))
  <2>1. CASE ~c \/ b \/ q = <<>>
    BY <2>1 DEF flushClientQueue
  <2>2. CASE ~(~c \/ b \/ q = <<>>)
    <3>1. \/ w = [out |-> q, left |-> <<>>, blocked |-> FALSE, failed |-> FALSE]
          \/ \E n \in 1 .. Len(q) :
                w = [out |-> SubSeq(q, 1, n), left |-> SubSeq(q, n + 1, Len(q)),
                     blocked |-> TRUE, failed |-> FALSE]
          \/ \E n \in 1 .. Len(q) :
                w = [out |-> SubSeq(q, 1, n - 1),
                     left |-> SubSeq(q, n + 1, Len(q)),
                     blocked |-> FALSE, failed |-> TRUE]
      BY <2>2 DEF flushClientQueue
    <3>2. CASE w = [out |-> q, left |-> <<>>, blocked |-> FALSE, failed |-> FALSE]
      BY <3>2
    <3>3. ASSUME NEW n \in 1 .. Len(q),
                 \/ w = [out |-> SubSeq(q, 1, n),
                         left |-> SubSeq(q, n + 1, Len(q)),
                         blocked |-> TRUE, failed |-> FALSE]
                 \/ w = [out |-> SubSeq(q, 1, n - 1),
                         left |-> SubSeq(q, n + 1, Len(q)),
                         blocked |-> FALSE, failed |-> TRUE]
          PROVE  /\ w.out \in {SubSeq(q, 1, n), SubSeq(q, 1, n - 1)}
                 /\ w.left = SubSeq(q, n + 1, Len(q))
      <4> DEFINE l == SubSeq(q, 1, n)
                 m == SubSeq(q, 1, n - 1)
                 r == SubSeq(q, n + 1, Len(q))
      <4>1. \/ w = [out |-> l, left |-> r, blocked |-> TRUE, failed |-> FALSE]
            \/ w = [out |-> m, left |-> r, blocked |-> FALSE, failed |-> TRUE]
        BY <3>3
      <4> HIDE DEF l, m, r
      <4>2. w.out \in {l, m} /\ w.left = r
        BY <4>1
      <4> QED
        BY <4>2 DEF l, m, r
    <3> QED
      BY <3>1, <3>2, <3>3
  <2> QED
    BY <2>1, <2>2
<1>3. CASE w.out = <<>> /\ w.left = q
  BY <1>3, EmptyIsCareful DEF Careful
<1>4. CASE w.out = q /\ w.left = <<>>
  BY <1>4, EmptyIsCareful DEF Careful
<1>5. ASSUME NEW n \in 1 .. Len(q), NEW m \in {n, n - 1},
             w.out = SubSeq(q, 1, m), w.left = SubSeq(q, n + 1, Len(q))
      PROVE  Careful(w, q)
  <2>1. /\ m \in Nat /\ m <= Len(q) /\ m < n + 1
        /\ n + 1 \in Nat \ {0} /\ n + 1 \in Nat /\ Len(q) <= Len(q)
    BY <1>1
  <2>2. SubSeq(q, 1, m) \in Seq(Frames) /\ SubSeq(q, n + 1, Len(q)) \in Seq(Frames)
    BY <1>1, <2>1, SubSeqType
  <2> QED
    BY <1>5, <2>1, <2>2, OnceCut DEF Careful
<1> QED
  BY <1>2, <1>3, <1>4, <1>5

LEMMA QueueTcpWriteIsCareful ==
    ASSUME TypeOK, NEW f \in Frames, NEW w \in queueTcpWrite(f),
           Once(Append(clientQueue, f))
    PROVE  Careful(w, Append(clientQueue, f))
<1> DEFINE queue == Append(clientQueue, f)
<1>1. queue \in Seq(Frames)
  BY AppendProperties DEF TypeOK
<1>2. w \in IF Len(queue) > MaxQueue
            THEN {[out |-> <<>>, left |-> queue, blocked |-> tcpBlocked,
                   failed |-> TRUE]}
            ELSE flushClientQueue(queue, tcpConnected, tcpBlocked)
  BY DEF queueTcpWrite
<1>3. CASE w.out = <<>> /\ w.left = queue
  BY <1>1, <1>3, EmptyIsCareful DEF Careful
<1>4. CASE w \in flushClientQueue(queue, tcpConnected, tcpBlocked)
  <2> HIDE DEF queue
  <2> QED
    BY <1>1, <1>4, FlushIsCareful DEF queue
<1> QED
  BY <1>2, <1>3, <1>4

\* What a careful write makes of the answers.
LEMMA CarefulStep ==
    ASSUME TypeOK, AnswersAreOnce, NEW queue, NEW w,
           Apart(written, queue), Careful(w, queue), Written(w)
    PROVE  /\ AnswersAreOnce'
           /\ \A g : In(g, written') \/ In(g, clientQueue')
                        => In(g, written) \/ In(g, queue)
<1>1. /\ written' = written \o w.out /\ clientQueue' = w.left
      /\ written \in Seq(Frames) /\ w.out \in Seq(Frames)
  BY DEF Written, Careful, TypeOK
<1>2. \A g : In(g, written') <=> In(g, written) \/ In(g, w.out)
  BY <1>1, InConcat
<1>3. Apart(written, w.out) /\ Apart(written, w.left)
  BY DEF Apart, Careful
<1>4. Once(written')
  BY <1>1, <1>3, OnceConcat DEF AnswersAreOnce, Careful
<1>5. Once(clientQueue')
  BY <1>1 DEF Careful
<1>6. Apart(written', clientQueue')
  BY <1>1, <1>2, <1>3 DEF Apart, Careful
<1> QED
  BY <1>1, <1>2, <1>4, <1>5, <1>6 DEF AnswersAreOnce, Careful

\* A step that writes nothing new: its write, of what is queued, is careful.
LEMMA OnceElsewhere ==
    ASSUME AnswersAreSeen, AnswersAreOnce',
           \A g : In(g, written') \/ In(g, clientQueue')
                    => In(g, written) \/ In(g, clientQueue),
           read' = read, DuplicatesAreKnown'
    PROVE  OnceInv'
BY DEF OnceInv, AnswersAreSeen

LEMMA OnceInit == Init => OnceInv
<1> SUFFICES ASSUME Init PROVE OnceInv
  OBVIOUS
<1>1. \A p \in KeepAlives : ~(2 * p <= 0)
  BY BoundsAssumption, KeepAliveAssumption
<1> QED
  BY <1>1, EmptyIsCareful
     DEF Init, OnceInv, AnswersAreOnce, AnswersAreSeen, DuplicatesAreKnown

LEMMA OnceBrowser ==
    ASSUME TypeOK, TypeOK', DownlinkInv, OnceInv, Browser
    PROVE  OnceInv'
<1>1. UNCHANGED <<tcpVars, read, fastAnsweredKeepAlives>>
  BY DEF Browser, BrowserSends, BrowserAnswers, BrowserReceives, BrowserEnds,
         BrowserHearsClose, serverVars
<1>2. AnswersAreOnce' /\ AnswersAreSeen'
  BY <1>1 DEF OnceInv, AnswersAreOnce, AnswersAreSeen, tcpVars
<1>3. toGateway \in Seq(Frames)
  BY DEF TypeOK
<1>4. CASE BrowserSends
  <2>1. /\ toGateway' = Append(toGateway, Packet(sent + 1))
        /\ UNCHANGED <<browser, owed, received>>
    BY <1>4 DEF BrowserSends
  <2>2. Packet(sent + 1) \in Frames
    BY <1>4, BoundsAssumption DEF BrowserSends, TypeOK, Frames
  <2>3. \A p \in KeepAlives : In(Answer(p), toGateway') => In(Answer(p), toGateway)
    BY <1>3, <2>1, <2>2, InAppend, AnswersDiffer
  <2> QED
    BY <1>1, <1>2, <2>1, <2>3 DEF OnceInv, DuplicatesAreKnown
<1>5. ASSUME NEW p \in KeepAlives, BrowserAnswers(p)
      PROVE  OnceInv'
  <2>1. /\ toGateway' = Append(toGateway, Answer(p))
        /\ browser = "open" /\ p \in owed /\ owed' \subseteq owed
        /\ UNCHANGED <<browser, received>>
    BY <1>5 DEF BrowserAnswers
  <2>2. \A q \in KeepAlives :
           In(Answer(q), toGateway') => In(Answer(q), toGateway) \/ q = p
    BY <1>3, <2>1, InAppend, AnswersDiffer
  <2> QED
    BY <1>1, <1>2, <2>1, <2>2 DEF OnceInv, DuplicatesAreKnown
<1>6. CASE BrowserReceives
  <2>1. /\ toBrowser # <<>> /\ browser = "open"
        /\ received' = Append(received, Head(toBrowser))
        /\ owed' = owed \cup {p \in KeepAlives : Head(toBrowser) = 2 * p}
        /\ UNCHANGED <<browser, toGateway>>
    BY <1>6 DEF BrowserReceives
  <2>2. /\ toBrowser \in Seq(Nat) /\ received \in Seq(Nat)
        /\ Len(toBrowser) \in Nat /\ Len(received) \in Nat /\ read \in Nat
    <3>1. read \in Nat
      BY BoundsAssumption DEF TypeOK
    <3> QED
      BY <3>1, UnitsAreNumbers DEF TypeOK
  <2>3. Head(toBrowser) = Len(received) + 1 /\ Len(received) + 1 <= read
    <3>1. Len(toBrowser) >= 1 /\ Head(toBrowser) = toBrowser[1]
      BY <2>1, <2>2, EmptySeq, HeadTailProperties
    <3>2. 1 \in 1 .. Len(toBrowser)
      BY <2>2, <3>1
    <3> QED
      BY <2>2, <3>1, <3>2 DEF DownlinkInv
  <2>4. Len(received') = Len(received) + 1
    BY <2>1, <2>2, AppendProperties, HeadTailProperties
  <2>5. KeepAlives \subseteq Nat
    BY BoundsAssumption, KeepAliveAssumption
  <2>6. ASSUME NEW p \in KeepAlives, p \in owed'
        PROVE  p \in fastAnsweredKeepAlives
    <3>1. p \in owed \/ 2 * p = Len(received) + 1
      BY <2>1, <2>3, <2>6
    <3>2. p \in owed \/ (2 * p <= read /\ 2 * p > Len(received))
      BY <2>2, <2>3, <2>5, <3>1
    <3> QED
      BY <2>1, <3>2 DEF OnceInv, DuplicatesAreKnown
  <2>7. ASSUME NEW p \in KeepAlives, 2 * p <= read, 2 * p > Len(received')
        PROVE  p \in fastAnsweredKeepAlives
    <3>1. 2 * p > Len(received)
      BY <2>2, <2>4, <2>5, <2>7
    <3> QED
      BY <2>1, <2>7, <3>1 DEF OnceInv, DuplicatesAreKnown
  <2> QED
    BY <1>1, <1>2, <2>1, <2>6, <2>7 DEF OnceInv, DuplicatesAreKnown
<1>7. CASE BrowserEnds \/ BrowserHearsClose
  <2>1. browser' # "open" /\ toGateway' = toGateway
    BY <1>7 DEF BrowserEnds, BrowserHearsClose
  <2> QED
    BY <1>1, <1>2, <2>1 DEF OnceInv, DuplicatesAreKnown
<1> QED
  BY <1>4, <1>5, <1>6, <1>7 DEF Browser

LEMMA OnceWsMessage ==
    ASSUME TypeOK, OnceInv, WsMessage
    PROVE  OnceInv'
<1> DEFINE frame == Head(toGateway)
<1>1. /\ toGateway # <<>> /\ toGateway' = Tail(toGateway)
      /\ UNCHANGED <<browser, owed, received, read, fastAnsweredKeepAlives>>
  BY DEF WsMessage, browserVars, serverVars
<1>2. /\ frame \in Frames /\ In(frame, toGateway)
      /\ \A g : In(g, toGateway') => In(g, toGateway)
  <2>1. /\ toGateway \in Seq(Frames) /\ Len(toGateway) \in Nat
        /\ Len(toGateway) >= 1
        /\ DOMAIN toGateway = 1 .. Len(toGateway)
    BY <1>1, EmptySeq, LenProperties DEF TypeOK
  <2>2. /\ frame \in Frames /\ frame = toGateway[1]
        /\ Tail(toGateway) \in Seq(Frames)
        /\ Len(Tail(toGateway)) = Len(toGateway) - 1
        /\ \A i \in 1 .. Len(Tail(toGateway)) :
              Tail(toGateway)[i] = toGateway[i + 1]
    BY <1>1, <2>1, HeadTailProperties
  <2> DEFINE rest == Tail(toGateway)
  <2>3. DOMAIN rest = 1 .. Len(rest)
    BY <2>2, LenProperties
  <2> HIDE DEF rest
  <2>4. /\ 1 \in DOMAIN toGateway
        /\ \A i \in DOMAIN rest : i + 1 \in DOMAIN toGateway
                                  /\ rest[i] = toGateway[i + 1]
    BY <2>1, <2>2, <2>3 DEF rest
  <2> QED
    BY <1>1, <2>2, <2>4 DEF In, rest
<1>3. DuplicatesAreKnown'
  BY <1>1, <1>2 DEF OnceInv, DuplicatesAreKnown
<1> HIDE DEF frame
<1>4. CASE \E p \in fastAnsweredKeepAlives : frame = Answer(p)
  <2>1. Written(NoWrite)
    BY <1>4 DEF WsMessage, frame
  <2>2. Careful(NoWrite, clientQueue)
    BY EmptyIsCareful DEF NoWrite, Careful, OnceInv, AnswersAreOnce, TypeOK
  <2> QED
    BY <1>1, <1>3, <2>1, <2>2, CarefulStep, OnceElsewhere
       DEF OnceInv, AnswersAreOnce
<1>5. CASE ~ \E p \in fastAnsweredKeepAlives : frame = Answer(p)
  <2>1. PICK w \in queueTcpWrite(frame) : Written(w)
    BY <1>5 DEF WsMessage, frame
  <2>2. frame.type # "answer"
    BY <1>2, <1>5, AnswerOf DEF OnceInv, DuplicatesAreKnown
  <2> DEFINE queue == Append(clientQueue, frame)
  <2>3. Once(queue)
    BY <1>2, <2>2, OnceAppend DEF OnceInv, AnswersAreOnce, TypeOK
  <2>4. \A p \in KeepAlives : In(Answer(p), queue) => In(Answer(p), clientQueue)
    BY <1>2, <2>2, InAppend, AnswersDiffer DEF TypeOK
  <2>5. Careful(w, queue)
    BY <1>2, <2>1, <2>3, QueueTcpWriteIsCareful
  <2> HIDE DEF queue
  <2>6. Apart(written, queue)
    BY <2>4 DEF Apart, OnceInv, AnswersAreOnce
  <2>7. /\ AnswersAreOnce'
        /\ \A g : In(g, written') \/ In(g, clientQueue')
                     => In(g, written) \/ In(g, queue)
    BY <2>1, <2>5, <2>6, CarefulStep DEF OnceInv
  <2>8. AnswersAreSeen'
    BY <1>1, <2>4, <2>7 DEF OnceInv, AnswersAreSeen
  <2> QED
    BY <1>3, <2>7, <2>8 DEF OnceInv
<1> QED
  BY <1>4, <1>5

LEMMA OnceFlush ==
    ASSUME TypeOK, OnceInv, TcpConnect \/ TcpDrain
    PROVE  OnceInv'
<1>1. UNCHANGED <<browserVars, serverVars, toGateway>>
  BY DEF TcpConnect, TcpDrain
<1>2. DuplicatesAreKnown' /\ read' = read
  BY <1>1 DEF OnceInv, DuplicatesAreKnown, browserVars, serverVars
<1>3. PICK c, b : \E w \in flushClientQueue(clientQueue, c, b) : Written(w)
  BY DEF TcpConnect, TcpDrain
<1>4. PICK w \in flushClientQueue(clientQueue, c, b) : Written(w)
  BY <1>3
<1>5. Careful(w, clientQueue)
  BY <1>4, FlushIsCareful DEF OnceInv, AnswersAreOnce, TypeOK
<1> QED
  BY <1>2, <1>4, <1>5, CarefulStep, OnceElsewhere DEF OnceInv, AnswersAreOnce

LEMMA OnceTcpData ==
    ASSUME GatewayInv, OnceInv, TcpData
    PROVE  OnceInv'
<1>1. TypeOK /\ BufferIsCurrent
  BY DEF GatewayInv
<1> DEFINE seen(c) == KeepAlives \cap {Inspected(c).complete}
<1>2. PICK chunk \in Chunks :
         /\ read + Len(chunk) <= 2 * MaxPackets
         /\ read' = read + Len(chunk)
         /\ serverInspectBuffer' = Inspected(chunk).rest
         /\ fastAnsweredKeepAlives' = fastAnsweredKeepAlives \cup seen(chunk)
         /\ \E w \in (UNION {queueTcpWrite(Answer(p)) : p \in seen(chunk)})
                     \cup (IF seen(chunk) = {} THEN {NoWrite} ELSE {}) :
               Written(w)
  BY DEF TcpData, Chunks
<1>3. /\ read' \in 0 .. 2 * MaxPackets
      /\ \A p \in KeepAlives :
            2 * p <= read' => 2 * p <= read \/ p = Inspected(chunk).complete
      /\ \A p \in KeepAlives :
            p = Inspected(chunk).complete => 2 * p <= read' /\ ~(2 * p <= read)
  BY <1>1, <1>2, InspectedChunk
<1>4. /\ read \in Nat /\ read' \in Nat /\ read <= read'
      /\ KeepAlives \subseteq Nat
  <2>1. chunk \in Seq(Units)
    BY <1>1, <1>2, InspectedChunk
  <2>2. Len(chunk) \in Nat
    BY <2>1, LenProperties
  <2>3. read \in Nat /\ read' \in Nat /\ KeepAlives \subseteq Nat
    BY <1>1, <1>3, BoundsAssumption, KeepAliveAssumption DEF TypeOK
  <2> QED
    BY <1>2, <2>2, <2>3
<1>5. UNCHANGED <<browser, owed, received, toGateway>>
  BY DEF TcpData, browserVars
<1>6. DuplicatesAreKnown'
  <2>1. ASSUME NEW p \in KeepAlives, browser = "open",
               2 * p <= read', 2 * p > Len(received)
        PROVE  p \in fastAnsweredKeepAlives'
    BY <1>2, <1>3, <2>1 DEF OnceInv, DuplicatesAreKnown
  <2> QED
    BY <1>2, <1>5, <2>1 DEF OnceInv, DuplicatesAreKnown
<1>7. CASE seen(chunk) = {}
  <2>1. Written(NoWrite)
    BY <1>2, <1>7
  <2>2. Careful(NoWrite, clientQueue)
    BY <1>1, EmptyIsCareful DEF NoWrite, Careful, OnceInv, AnswersAreOnce, TypeOK
  <2>3. /\ AnswersAreOnce'
        /\ \A g : In(g, written') \/ In(g, clientQueue')
                     => In(g, written) \/ In(g, clientQueue)
    BY <1>1, <2>1, <2>2, CarefulStep DEF OnceInv, AnswersAreOnce
  <2>4. \A p \in KeepAlives : 2 * p <= read => 2 * p <= read'
    BY <1>4
  <2>5. AnswersAreSeen'
    BY <2>3, <2>4 DEF OnceInv, AnswersAreSeen
  <2> QED
    BY <1>6, <2>3, <2>5 DEF OnceInv
<1>8. ASSUME NEW p \in seen(chunk)
      PROVE  OnceInv'
  <2>1. seen(chunk) = {p} /\ p \in KeepAlives /\ p = Inspected(chunk).complete
    OBVIOUS
  <2> DEFINE queue == Append(clientQueue, Answer(p))
  <2>2. PICK w \in queueTcpWrite(Answer(p)) : Written(w)
    <3> HIDE DEF seen
    <3> QED
      BY <1>2, <2>1
  <2>3. ~In(Answer(p), written) /\ ~In(Answer(p), clientQueue)
    BY <1>3, <2>1 DEF OnceInv, AnswersAreSeen
  <2>4. Answer(p) \in Frames
    BY <2>1, AnswersDiffer
  <2>5. Once(queue)
    BY <1>1, <2>3, <2>4, OnceAppend DEF OnceInv, AnswersAreOnce, TypeOK
  <2>6. \A q \in KeepAlives :
           In(Answer(q), queue) => In(Answer(q), clientQueue) \/ q = p
    BY <1>1, <2>1, <2>4, InAppend, AnswersDiffer DEF TypeOK
  <2>7. Careful(w, queue)
    BY <1>1, <2>2, <2>4, <2>5, QueueTcpWriteIsCareful
  <2> HIDE DEF queue, seen
  <2>8. Apart(written, queue)
    BY <2>3, <2>6 DEF Apart, OnceInv, AnswersAreOnce
  <2>9. /\ AnswersAreOnce'
        /\ \A g : In(g, written') \/ In(g, clientQueue')
                     => In(g, written) \/ In(g, queue)
    BY <1>1, <2>2, <2>7, <2>8, CarefulStep DEF OnceInv
  <2>10. \A q \in KeepAlives : 2 * q <= read => 2 * q <= read'
    BY <1>4
  <2>11. AnswersAreSeen'
    BY <1>3, <2>1, <2>6, <2>9, <2>10 DEF OnceInv, AnswersAreSeen
  <2> QED
    BY <1>6, <2>9, <2>11 DEF OnceInv
<1> QED
  BY <1>7, <1>8

\* A map entry that expires is of no more use, unless the browser is slow.
LEMMA OnceExpire ==
    ASSUME ~SlowBrowser, TypeOK, DownlinkInv, OnceInv,
           NEW p \in KeepAlives, Expire(p)
    PROVE  OnceInv'
<1>1. /\ fastAnsweredKeepAlives' = fastAnsweredKeepAlives \ {p}
      /\ ~Outstanding(p)
      /\ UNCHANGED <<browserVars, tcpVars, read, toGateway>>
  BY DEF Expire
<1>2. AnswersAreOnce' /\ AnswersAreSeen'
  BY <1>1 DEF OnceInv, AnswersAreOnce, AnswersAreSeen, tcpVars
<1>3. ~In(Answer(p), toGateway) /\ ~(browser = "open" /\ p \in owed)
  BY <1>1, EmptyIsCareful DEF Outstanding, In
<1>4. browser = "open" => ~(2 * p > Len(received))
  <2> SUFFICES ASSUME browser = "open"
               PROVE  ~(2 * p > Len(received))
    OBVIOUS
  <2>1. PICK i \in DOMAIN received : received[i] = 2 * p
    BY <1>1 DEF Outstanding
  <2>2. /\ Len(received) \in Nat /\ DOMAIN received = 1 .. Len(received)
        /\ p \in Nat
    BY LenProperties, BoundsAssumption, KeepAliveAssumption DEF TypeOK
  <2>3. received[i] = i
    BY <2>1, <2>2 DEF DownlinkInv, UpTo
  <2> QED
    BY <2>1, <2>2, <2>3
<1>5. DuplicatesAreKnown'
  BY <1>1, <1>3, <1>4 DEF OnceInv, DuplicatesAreKnown, browserVars
<1> QED
  BY <1>2, <1>5 DEF OnceInv

LEMMA OnceStep ==
    ASSUME ~SlowBrowser, GatewayInv, GatewayInv', DownlinkInv, OnceInv, [Next]_vars
    PROVE  OnceInv'
<1>1. TypeOK /\ TypeOK'
  BY DEF GatewayInv
<1>2. CASE Browser
  BY <1>1, <1>2, OnceBrowser
<1>3. CASE WsMessage
  BY <1>1, <1>3, OnceWsMessage
<1>4. CASE TcpConnect \/ TcpDrain
  BY <1>1, <1>4, OnceFlush
<1>5. CASE TcpData
  BY <1>5, OnceTcpData
<1>6. CASE \E p \in KeepAlives : Expire(p)
  BY <1>1, <1>6, OnceExpire
<1>7. CASE WsClose \/ Fails \/ UNCHANGED vars
  <2>1. UNCHANGED <<browserVars, tcpVars, serverVars, toGateway>>
    BY <1>7 DEF WsClose, Fails, vars
  <2> QED
    BY <2>1 DEF OnceInv, AnswersAreOnce, AnswersAreSeen, DuplicatesAreKnown,
                browserVars, tcpVars, serverVars
<1> QED
  BY <1>2, <1>3, <1>4, <1>5, <1>6, <1>7 DEF Next

(* Paper receives one response to a challenge, although the gateway and    *)
(* the browser both give one: unless the browser takes longer than         *)
(* KEEPALIVE_DEDUPE_MS.                                                    *)
THEOREM PaperHearsOneAnswer ==
    ASSUME ~SlowBrowser
    PROVE  Spec => []AnsweredOnce
<1>1. Init => GatewayInv /\ DownlinkInv /\ OnceInv
  BY GatewayInit, DownlinkInit, OnceInit
<1>2. GatewayInv /\ DownlinkInv /\ OnceInv /\ [Next]_vars
        => GatewayInv' /\ DownlinkInv' /\ OnceInv'
  BY GatewayStep, DownlinkStep, OnceStep
<1>3. OnceInv => AnsweredOnce
  BY DEF OnceInv, AnswersAreOnce, Once, AnsweredOnce
<1> QED
  BY <1>1, <1>2, <1>3, PTL DEF Spec

-----------------------------------------------------------------------------
(* The way up is a pipe, for everything but answers.                       *)

Ordered(frames) ==
    \A i, j \in DOMAIN frames :
        i < j /\ frames[i].type = "packet" /\ frames[j].type = "packet" =>
            frames[i].n < frames[j].n

\* The packets among the frames are those after a up to b, in order.
Carries(frames, a, b) ==
    /\ Ordered(frames)
    /\ \A n \in Nat : In(Packet(n), frames) <=> n \in a + 1 .. b

LEMMA PacketOf ==
    /\ \A f \in Frames : f.type = "packet" => f.n \in Nat /\ f = Packet(f.n)
    /\ \A f \in Frames : f.type # "packet" => \A n : f # Packet(n)
    /\ \A n : Packet(n).type = "packet" /\ Packet(n).n = n
    /\ \A n \in 1 .. MaxFrames : Packet(n) \in Frames
BY BoundsAssumption DEF Frames, Packet, Answer

\* Numbers without a gap are counted by the last of them.
LEMMA GaplessNumbers ==
    ASSUME NEW b \in Nat, NEW W, W \subseteq 1 .. b, \A n \in W : 1 .. n \subseteq W
    PROVE  Cardinality(W) \in 0 .. b /\ W = 1 .. Cardinality(W)
<1> DEFINE k == Cardinality(W)
<1>1. /\ IsFiniteSet(1 .. b) /\ Cardinality(1 .. b) = b
      /\ \A n \in Nat : IsFiniteSet(1 .. n) /\ Cardinality(1 .. n) = n
  BY FS_Interval
<1>2. IsFiniteSet(W) /\ k \in Nat /\ k <= b
  <2>1. W \in SUBSET (1 .. b)
    OBVIOUS
  <2>2. IsFiniteSet(W) /\ Cardinality(W) <= Cardinality(1 .. b)
    BY <1>1, <2>1, FS_Subset
  <2>3. Cardinality(W) \in Nat
    BY <2>2, FS_CardinalityType
  <2> QED
    BY <1>1, <2>2, <2>3
<1>3. ASSUME NEW n \in W
      PROVE  n \in 1 .. k
  <2>1. n \in Nat \ {0} /\ 1 .. n \in SUBSET W
    OBVIOUS
  <2>2. Cardinality(1 .. n) <= k
    BY <1>2, <2>1, FS_Subset
  <2>3. n <= k
    BY <1>1, <2>1, <2>2
  <2> HIDE DEF k
  <2> QED
    BY <1>2, <2>1, <2>3
<1>4. W = 1 .. k
  <2>1. W \in SUBSET (1 .. k)
    BY <1>3
  <2>2. Cardinality(1 .. k) = Cardinality(W) /\ IsFiniteSet(1 .. k)
    BY <1>1, <1>2
  <2> QED
    BY <2>1, <2>2, FS_Subset
<1> HIDE DEF k
<1>5. k \in 0 .. b
  BY <1>2
<1> QED
  BY <1>4, <1>5 DEF k

\* A set that is numbered by 1 to k has k members.
LEMMA Numbered ==
    ASSUME NEW P, IsFiniteSet(P), NEW k \in Nat, NEW f \in [P -> 1 .. k],
           \A i, j \in P : f[i] = f[j] => i = j,
           \A m \in 1 .. k : \E i \in P : f[i] = m
    PROVE  Cardinality(P) = k
<1>1. f \in Bijection(P, 1 .. k)
  <2>1. IsInjective(f)
    BY DEF IsInjective
  <2> QED
    BY <2>1 DEF Bijection, Injection, Surjection
<1>2. ExistsBijection(P, 1 .. k)
  BY <1>1 DEF ExistsBijection
<1>3. Cardinality(1 .. k) = Cardinality(P)
  BY <1>2, FS_Bijection
<1> QED
  BY <1>3, FS_Interval

LEMMA PacketsAreNumbered ==
    ASSUME NEW s \in Seq(Frames), NEW k \in Nat, Carries(s, 0, k)
    PROVE  PacketsOf(s) = UpTo(k)
<1> DEFINE P == {i \in DOMAIN s : s[i].type = "packet"}
           num == [i \in P |-> s[i].n]
<1>1. /\ DOMAIN s = 1 .. Len(s) /\ Len(s) \in Nat
      /\ \A i \in DOMAIN s : s[i] \in Frames
  BY LenProperties, ElementOfSeq
<1>2. P \subseteq Nat /\ IsFiniteSet(P)
  <2>1. IsFiniteSet(1 .. Len(s)) /\ P \in SUBSET (1 .. Len(s))
    BY <1>1, FS_Interval
  <2>2. IsFiniteSet(P)
    BY <2>1, FS_Subset
  <2> QED
    BY <1>1, <2>2
<1>3. ASSUME NEW i \in P
      PROVE  num[i] = s[i].n /\ num[i] \in 1 .. k
  <2>1. s[i] \in Frames /\ s[i].type = "packet"
    BY <1>1
  <2>2. s[i].n \in Nat /\ s[i] = Packet(s[i].n)
    BY <2>1, PacketOf
  <2>3. In(Packet(s[i].n), s)
    BY <2>2 DEF In
  <2>4. s[i].n \in 0 + 1 .. k
    BY <2>2, <2>3 DEF Carries
  <2> QED
    BY <2>4
<1>4. \A i, j \in P : i < j => num[i] < num[j]
  BY <1>3 DEF Carries, Ordered
<1>5. ASSUME NEW m \in 1 .. k
      PROVE  \E i \in P : num[i] = m
  <2>1. In(Packet(m), s)
    BY DEF Carries
  <2>2. PICK i \in DOMAIN s : s[i] = Packet(m)
    BY <2>1 DEF In
  <2>3. s[i].type = "packet" /\ s[i].n = m
    BY <2>2, PacketOf
  <2> QED
    BY <2>3
<1>6. num \in [P -> 1 .. k]
  BY <1>3
<1> HIDE DEF num
<1>7. Cardinality(P) = k
  <2>1. \A i, j \in P : num[i] = num[j] => i = j
    BY <1>2, <1>3, <1>4
  <2>2. IsFiniteSet(P) /\ \A m \in 1 .. k : \E i \in P : num[i] = m
    BY <1>2, <1>5
  <2> HIDE DEF P
  <2> QED
    BY <1>6, <2>1, <2>2, Numbered
<1>8. ASSUME NEW i \in P
      PROVE  Cardinality({j \in P : j <= i}) = num[i]
  <2> DEFINE Q == {j \in P : j <= i}
             f == [j \in Q |-> num[j]]
  <2>1. Q \in SUBSET P
    OBVIOUS
  <2>2. IsFiniteSet(Q) /\ num[i] \in Nat
    BY <1>2, <1>3, <2>1, FS_Subset
  <2>3. \A j \in Q : f[j] = num[j] /\ num[j] \in 1 .. num[i]
    <3> SUFFICES ASSUME NEW j \in Q PROVE num[j] \in 1 .. num[i]
      OBVIOUS
    <3>1. j \in P /\ j <= i /\ j \in Nat /\ i \in Nat
      BY <1>2
    <3>2. j = i \/ j < i
      BY <3>1
    <3>3. num[j] \in 1 .. k /\ num[i] \in 1 .. k /\ (j = i \/ num[j] < num[i])
      BY <1>3, <1>4, <3>1, <3>2
    <3> QED
      BY <3>3
  <2>4. \A j, l \in Q : f[j] = f[l] => j = l
    BY <1>2, <1>3, <1>4, <2>1, <2>3, SMTT(30)
  <2>5. ASSUME NEW m \in 1 .. num[i]
        PROVE  \E j \in Q : f[j] = m
    <3>1. m \in 1 .. k
      BY <1>3
    <3>2. PICK j \in P : num[j] = m
      BY <1>5, <3>1
    <3>3. j <= i
      BY <1>2, <1>3, <1>4, <3>2
    <3> QED
      BY <2>3, <3>2, <3>3
  <2>6. f \in [Q -> 1 .. num[i]]
    BY <2>3
  <2> HIDE DEF f, Q
  <2>7. Cardinality(Q) = num[i]
    BY <2>2, <2>4, <2>5, <2>6, Numbered, SMTT(30)
  <2> QED
    BY <2>7 DEF Q
<1> DEFINE place(m) == CHOOSE i \in P : Cardinality({j \in P : j <= i}) = m
<1>9. ASSUME NEW m \in 1 .. k
      PROVE  s[place(m)].n = m
  <2>1. \E i \in P : Cardinality({j \in P : j <= i}) = m
    BY <1>5, <1>8
  <2>2. place(m) \in P /\ Cardinality({j \in P : j <= place(m)}) = m
    BY <2>1
  <2> HIDE DEF place
  <2>3. num[place(m)] = m
    BY <1>8, <2>2
  <2> QED
    BY <1>3, <2>2, <2>3
<1>10. PacketsOf(s) = [m \in 1 .. Cardinality(P) |-> s[place(m)].n]
  BY DEF PacketsOf
<1> HIDE DEF P, place
<1>11. PacketsOf(s) = [m \in 1 .. k |-> s[place(m)].n]
  BY <1>7, <1>10
<1> QED
  BY <1>9, <1>11 DEF UpTo

-----------------------------------------------------------------------------
(* How the frames that carry packets are put together and taken apart.     *)

LEMMA CarriedRange ==
    ASSUME NEW s \in Seq(Frames), NEW a \in Nat, NEW b \in Nat, Carries(s, a, b),
           NEW i \in DOMAIN s, s[i].type = "packet"
    PROVE  s[i].n \in a + 1 .. b /\ s[i] = Packet(s[i].n)
<1>1. s[i] \in Frames
  BY LenProperties, ElementOfSeq
<1>2. s[i].n \in Nat /\ s[i] = Packet(s[i].n)
  BY <1>1, PacketOf
<1>3. In(Packet(s[i].n), s)
  BY <1>2 DEF In
<1> QED
  BY <1>2, <1>3 DEF Carries

LEMMA EmptyCarries ==
    ASSUME NEW a \in Nat
    PROVE  Carries(<<>>, a, a)
BY EmptySeq DEF Carries, Ordered, In

LEMMA CarriesAppend ==
    ASSUME NEW s \in Seq(Frames), NEW a \in Nat, NEW b \in Nat, a <= b, Carries(s, a, b),
           NEW f \in Frames
    PROVE  /\ f.type # "packet" => Carries(Append(s, f), a, b)
           /\ f = Packet(b + 1) => Carries(Append(s, f), a, b + 1)
<1> DEFINE r == Append(s, f)
<1>1. /\ DOMAIN s = 1 .. Len(s) /\ DOMAIN r = 1 .. Len(s) + 1 /\ Len(s) \in Nat
      /\ r[Len(s) + 1] = f
      /\ \A i \in 1 .. Len(s) : r[i] = s[i]
      /\ \A g : In(g, r) <=> In(g, s) \/ g = f
  BY AppendProperties, LenProperties, InAppend
<1> HIDE DEF r
<1>2. CASE f.type # "packet"
  <2>1. Ordered(r)
    <3> SUFFICES ASSUME NEW i \in DOMAIN r, NEW j \in DOMAIN r, i < j,
                        r[i].type = "packet", r[j].type = "packet"
                 PROVE  r[i].n < r[j].n
      BY DEF Ordered
    <3>1. i \in 1 .. Len(s) /\ j \in 1 .. Len(s)
      BY <1>1, <1>2
    <3> QED
      BY <1>1, <3>1 DEF Carries, Ordered
  <2>2. \A n \in Nat : Packet(n) # f
    BY <1>2, PacketOf
  <2>3. f # Packet(b + 1)
    BY <1>2, PacketOf
  <2> QED
    BY <1>1, <1>2, <2>1, <2>2, <2>3 DEF Carries, r
<1>3. CASE f = Packet(b + 1)
  <2>1. f.type = "packet" /\ f.n = b + 1
    BY <1>3, PacketOf
  <2>2. Ordered(r)
    <3> SUFFICES ASSUME NEW i \in DOMAIN r, NEW j \in DOMAIN r, i < j,
                        r[i].type = "packet", r[j].type = "packet"
                 PROVE  r[i].n < r[j].n
      BY DEF Ordered
    <3>1. i \in 1 .. Len(s) /\ (j \in 1 .. Len(s) \/ j = Len(s) + 1)
      BY <1>1
    <3>2. CASE j \in 1 .. Len(s)
      BY <1>1, <3>1, <3>2 DEF Carries, Ordered
    <3>3. CASE j = Len(s) + 1
      <4>1. s[i].n \in a + 1 .. b
        BY <1>1, <3>1, CarriedRange
      <4> QED
        BY <1>1, <2>1, <3>1, <3>3, <4>1
    <3> QED
      BY <3>1, <3>2, <3>3
  <2>3. ASSUME NEW n \in Nat
        PROVE  In(Packet(n), r) <=> n \in a + 1 .. b + 1
    <3>1. Packet(n) = f <=> n = b + 1
      BY <1>3, PacketOf
    <3>2. In(Packet(n), s) <=> n \in a + 1 .. b
      BY DEF Carries
    <3>3. n \in a + 1 .. b + 1 <=> n \in a + 1 .. b \/ n = b + 1
      OBVIOUS
    <3> QED
      BY <1>1, <3>1, <3>2, <3>3
  <2> QED
    BY <2>1, <2>2, <2>3 DEF Carries, r
<1> QED
  BY <1>2, <1>3

LEMMA CarriesTail ==
    ASSUME NEW s \in Seq(Frames), NEW a \in Nat, NEW b \in Nat, Carries(s, a, b),
           s # <<>>
    PROVE  /\ Head(s).type # "packet" => Carries(Tail(s), a, b)
           /\ Head(s).type = "packet" => /\ Head(s) = Packet(a + 1)
                                         /\ a + 1 <= b
                                         /\ Carries(Tail(s), a + 1, b)
<1> DEFINE t == Tail(s)
<1>1. /\ DOMAIN s = 1 .. Len(s) /\ Len(s) \in Nat \ {0}
      /\ DOMAIN t = 1 .. Len(s) - 1
      /\ \A i \in 1 .. Len(s) - 1 : t[i] = s[i + 1]
      /\ Head(s) = s[1]
  <2>1. Len(s) \in Nat /\ Len(s) # 0
    BY LenProperties, EmptySeq
  <2>2. t \in Seq(Frames) /\ Len(t) = Len(s) - 1
    BY HeadTailProperties
  <2> QED
    BY <2>1, <2>2, LenProperties, HeadTailProperties
<1> HIDE DEF t
<1>2. Ordered(t)
  <2> SUFFICES ASSUME NEW i \in DOMAIN t, NEW j \in DOMAIN t, i < j,
                      t[i].type = "packet", t[j].type = "packet"
               PROVE  t[i].n < t[j].n
    BY DEF Ordered
  <2>1. i + 1 \in 1 .. Len(s) /\ j + 1 \in 1 .. Len(s) /\ i + 1 < j + 1
    BY <1>1
  <2>2. t[i] = s[i + 1] /\ t[j] = s[j + 1]
    BY <1>1
  <2> QED
    BY <1>1, <2>1, <2>2 DEF Carries, Ordered
<1>3. ASSUME NEW g
      PROVE  In(g, s) <=> g = Head(s) \/ In(g, t)
  <2>1. ASSUME In(g, s) PROVE g = Head(s) \/ In(g, t)
    <3>1. PICK i \in 1 .. Len(s) : s[i] = g
      BY <1>1, <2>1 DEF In
    <3>2. CASE i = 1
      BY <1>1, <3>1, <3>2
    <3>3. CASE i # 1
      <4>1. i - 1 \in 1 .. Len(s) - 1 /\ (i - 1) + 1 = i
        BY <1>1, <3>3
      <4>2. t[i - 1] = g
        BY <1>1, <3>1, <4>1
      <4> QED
        BY <1>1, <4>1, <4>2 DEF In
    <3> QED
      BY <3>2, <3>3
  <2>2. ASSUME In(g, t) PROVE In(g, s)
    <3>1. PICK i \in 1 .. Len(s) - 1 : t[i] = g
      BY <1>1, <2>2 DEF In
    <3>2. i + 1 \in 1 .. Len(s) /\ s[i + 1] = g
      BY <1>1, <3>1
    <3> QED
      BY <1>1, <3>2 DEF In
  <2>3. In(Head(s), s)
    <3>1. 1 \in 1 .. Len(s)
      BY <1>1
    <3> QED
      BY <1>1, <3>1 DEF In
  <2> QED
    BY <2>1, <2>2, <2>3
<1>4. CASE Head(s).type # "packet"
  <2>1. \A n \in Nat : Packet(n) # Head(s)
    BY <1>4, PacketOf
  <2> QED
    BY <1>2, <1>3, <1>4, <2>1 DEF Carries, t
<1>5. CASE Head(s).type = "packet"
  <2>1. 1 \in DOMAIN s
    BY <1>1
  <2>2. s[1].n \in a + 1 .. b /\ s[1] = Packet(s[1].n)
    BY <1>1, <1>5, <2>1, CarriedRange, ZenonT(30)
  <2>3. ASSUME NEW n \in Nat, In(Packet(n), t)
        PROVE  n > s[1].n
    <3>1. PICK i \in 1 .. Len(s) - 1 : t[i] = Packet(n)
      BY <1>1, <2>3 DEF In
    <3>2. /\ i + 1 \in DOMAIN s /\ 1 < i + 1 /\ s[i + 1] = Packet(n)
          /\ Packet(n).type = "packet" /\ Packet(n).n = n
      BY <1>1, <3>1, PacketOf
    <3>3. s[1].n < s[i + 1].n
      BY <1>1, <1>5, <2>1, <3>2 DEF Carries, Ordered
    <3> QED
      BY <2>2, <3>2, <3>3
  <2>4. s[1].n = a + 1
    <3>1. a + 1 \in Nat /\ a + 1 \in a + 1 .. b
      BY <2>2
    <3>2. In(Packet(a + 1), s)
      BY <3>1 DEF Carries
    <3>3. CASE Packet(a + 1) = Head(s)
      BY <1>1, <3>3, PacketOf
    <3>4. CASE In(Packet(a + 1), t)
      <4>1. a + 1 > s[1].n
        BY <2>3, <3>1, <3>4
      <4> QED
        BY <2>2, <4>1
    <3> QED
      BY <1>3, <3>2, <3>3, <3>4
  <2>5. ASSUME NEW n \in Nat
        PROVE  In(Packet(n), t) <=> n \in (a + 1) + 1 .. b
    <3>1. In(Packet(n), s) <=> n \in a + 1 .. b
      BY DEF Carries
    <3>2. Packet(n) = Head(s) <=> n = a + 1
      BY <1>1, <2>2, <2>4, PacketOf
    <3>3. In(Packet(n), t) => n > a + 1
      BY <2>3, <2>4
    <3>4. In(Packet(n), s) <=> n = a + 1 \/ In(Packet(n), t)
      BY <1>3, <3>2
    <3> QED
      BY <3>1, <3>3, <3>4
  <2>6. a + 1 <= b /\ Head(s) = Packet(a + 1)
    BY <1>1, <2>2, <2>4
  <2> QED
    BY <1>2, <1>5, <2>5, <2>6 DEF Carries, t
<1> QED
  BY <1>4, <1>5

LEMMA CarriesConcat ==
    ASSUME NEW s \in Seq(Frames), NEW t \in Seq(Frames),
           NEW a \in Nat, NEW b \in Nat, NEW c \in Nat, a <= b, b <= c,
           Carries(s, a, b), Carries(t, b, c)
    PROVE  Carries(s \o t, a, c)
<1>1. /\ DOMAIN s = 1 .. Len(s) /\ DOMAIN t = 1 .. Len(t)
      /\ DOMAIN (s \o t) = 1 .. Len(s) + Len(t)
      /\ Len(s) \in Nat /\ Len(t) \in Nat
  BY ConcatProperties, LenProperties
<1>2. \A i \in 1 .. Len(s) + Len(t) :
         (s \o t)[i] = IF i <= Len(s) THEN s[i] ELSE t[i - Len(s)]
  BY ConcatProperties
<1>3. \A g : In(g, s \o t) <=> In(g, s) \/ In(g, t)
  BY InConcat
<1> DEFINE r == s \o t
<1>4. /\ \A i \in 1 .. Len(s) : r[i] = s[i]
      /\ \A i \in 1 .. Len(s) + Len(t) :
            i > Len(s) => i - Len(s) \in 1 .. Len(t) /\ r[i] = t[i - Len(s)]
      /\ DOMAIN r = 1 .. Len(s) + Len(t)
      /\ \A g : In(g, r) <=> In(g, s) \/ In(g, t)
  BY <1>1, <1>2, <1>3
<1> HIDE DEF r
<1>5. Ordered(r)
  <2> SUFFICES ASSUME NEW i \in DOMAIN r, NEW j \in DOMAIN r, i < j,
                      r[i].type = "packet", r[j].type = "packet"
               PROVE  r[i].n < r[j].n
    BY DEF Ordered
  <2>0. i \in 1 .. Len(s) + Len(t) /\ j \in 1 .. Len(s) + Len(t) /\ i < j
    BY <1>4
  <2>1. CASE j <= Len(s)
    <3>1. i \in 1 .. Len(s) /\ j \in 1 .. Len(s)
      BY <1>1, <2>0, <2>1
    <3> QED
      BY <1>1, <1>4, <3>1 DEF Carries, Ordered
  <2>2. CASE i > Len(s)
    <3>1. /\ i - Len(s) \in 1 .. Len(t) /\ j - Len(s) \in 1 .. Len(t)
          /\ i - Len(s) < j - Len(s)
          /\ r[i] = t[i - Len(s)] /\ r[j] = t[j - Len(s)]
      BY <1>1, <1>4, <2>0, <2>2, SMTT(30)
    <3> QED
      BY <1>1, <3>1 DEF Carries, Ordered
  <2>3. CASE i <= Len(s) /\ j > Len(s)
    <3>1. /\ i \in 1 .. Len(s) /\ j - Len(s) \in 1 .. Len(t)
          /\ r[i] = s[i] /\ r[j] = t[j - Len(s)]
      BY <1>1, <1>4, <2>0, <2>3
    <3>2. s[i].n \in a + 1 .. b
      BY <1>1, <3>1, CarriedRange
    <3>3. t[j - Len(s)].n \in b + 1 .. c
      BY <1>1, <3>1, CarriedRange
    <3> QED
      BY <3>1, <3>2, <3>3, SMTT(30)
  <2> QED
    BY <1>1, <2>0, <2>1, <2>2, <2>3
<1>6. ASSUME NEW n \in Nat
      PROVE  In(Packet(n), r) <=> n \in a + 1 .. c
  <2>1. /\ In(Packet(n), s) <=> n \in a + 1 .. b
        /\ In(Packet(n), t) <=> n \in b + 1 .. c
    BY DEF Carries
  <2>2. n \in a + 1 .. c <=> n \in a + 1 .. b \/ n \in b + 1 .. c
    OBVIOUS
  <2> QED
    BY <1>4, <2>1, <2>2
<1> QED
  BY <1>5, <1>6 DEF Carries, r

LEMMA CarriesCut ==
    ASSUME NEW q \in Seq(Frames), NEW a \in Nat, NEW b \in Nat, a <= b,
           Carries(q, a, b), NEW m \in 0 .. Len(q)
    PROVE  \E c \in a .. b : /\ Carries(SubSeq(q, 1, m), a, c)
                             /\ Carries(SubSeq(q, m + 1, Len(q)), c, b)
<1>1. /\ Len(q) \in Nat /\ DOMAIN q = 1 .. Len(q) /\ m \in Nat /\ m <= Len(q)
      /\ m + 1 \in Nat \ {0} /\ Len(q) <= Len(q)
  BY LenProperties
<1> DEFINE left == SubSeq(q, 1, m)
           right == SubSeq(q, m + 1, Len(q))
<1>2. /\ left \in Seq(Frames) /\ DOMAIN left = 1 .. m
      /\ \A i \in 1 .. m : i \in DOMAIN q /\ left[i] = q[i]
  <2>1. /\ left \in Seq(Frames)
        /\ Len(left) = IF 1 <= m THEN m - 1 + 1 ELSE 0
        /\ \A i \in 1 .. m - 1 + 1 : left[i] = q[1 + i - 1]
    BY <1>1, SubSeqType
  <2> HIDE DEF left
  <2>2. Len(left) = m /\ \A i \in 1 .. m : left[i] = q[i]
    BY <1>1, <2>1
  <2> QED
    BY <1>1, <2>1, <2>2, LenProperties
<1>3. /\ right \in Seq(Frames) /\ DOMAIN right = 1 .. Len(q) - m
      /\ \A i \in 1 .. Len(q) - m : m + i \in DOMAIN q /\ right[i] = q[m + i]
  <2>1. /\ right \in Seq(Frames)
        /\ Len(right) = IF m + 1 <= Len(q) THEN Len(q) - (m + 1) + 1 ELSE 0
        /\ \A i \in 1 .. Len(q) - (m + 1) + 1 : right[i] = q[(m + 1) + i - 1]
    <3>1. right \in Seq(Frames)
      <4>1. CASE m + 1 <= Len(q)
        BY <1>1, <4>1, SubSeqType
      <4>2. CASE ~(m + 1 <= Len(q))
        BY <1>1, <4>2, SubSeqType
      <4> QED
        BY <4>1, <4>2
    <3> QED
      BY <1>1, <3>1, SubSeqType
  <2> HIDE DEF right
  <2>2. DOMAIN right = 1 .. Len(right) /\ Len(right) = Len(q) - m
    BY <1>1, <2>1, LenProperties
  <2>3. ASSUME NEW i \in 1 .. Len(q) - m
        PROVE  m + i \in DOMAIN q /\ right[i] = q[m + i]
    <3>1. /\ i \in 1 .. Len(q) - (m + 1) + 1 /\ (m + 1) + i - 1 = m + i
          /\ m + i \in 1 .. Len(q)
      BY <1>1
    <3> QED
      BY <1>1, <2>1, <3>1
  <2> QED
    BY <2>1, <2>2, <2>3
<1> HIDE DEF left, right
<1>4. Ordered(left)
  <2> SUFFICES ASSUME NEW i \in 1 .. m, NEW j \in 1 .. m, i < j,
                      left[i].type = "packet", left[j].type = "packet"
               PROVE  left[i].n < left[j].n
    BY <1>2 DEF Ordered
  <2> QED
    BY <1>2 DEF Carries, Ordered
<1>5. Ordered(right)
  <2> SUFFICES ASSUME NEW i \in 1 .. Len(q) - m, NEW j \in 1 .. Len(q) - m, i < j,
                      right[i].type = "packet", right[j].type = "packet"
               PROVE  right[i].n < right[j].n
    BY <1>3 DEF Ordered
  <2>1. m + i < m + j /\ m + i \in DOMAIN q /\ m + j \in DOMAIN q
    BY <1>1, <1>3
  <2> QED
    BY <1>3, <2>1 DEF Carries, Ordered
<1>6. \A g : In(g, q) <=> In(g, left) \/ In(g, right)
  <2> TAKE g
  <2>1. In(g, left) \/ In(g, right) => In(g, q)
    BY <1>2, <1>3 DEF In
  <2>2. ASSUME In(g, q)
        PROVE  In(g, left) \/ In(g, right)
    <3>1. PICK i \in 1 .. Len(q) : q[i] = g
      BY <1>1, <2>2 DEF In
    <3>2. CASE i <= m
      <4>1. i \in 1 .. m
        BY <1>1, <3>2
      <4> QED
        BY <1>2, <3>1, <4>1 DEF In
    <3>3. CASE ~(i <= m)
      <4>1. i - m \in 1 .. Len(q) - m /\ m + (i - m) = i
        BY <1>1, <3>3
      <4> QED
        BY <1>3, <3>1, <4>1 DEF In
    <3> QED
      BY <3>2, <3>3
  <2> QED
    BY <2>1, <2>2
<1> DEFINE onLeft(n) == In(Packet(n), left)
           onRight(n) == In(Packet(n), right)
           W == {n \in 1 .. b : n <= a \/ onLeft(n)}
<1>7. \A n \in Nat : onLeft(n) \/ onRight(n) <=> n \in a + 1 .. b
  BY <1>6 DEF Carries
<1>8. \A l, r \in Nat : onLeft(l) /\ onRight(r) => l < r
  <2> SUFFICES ASSUME NEW l \in Nat, NEW r \in Nat, onLeft(l), onRight(r)
               PROVE  l < r
    OBVIOUS
  <2>1. PICK i \in 1 .. m : left[i] = Packet(l)
    BY <1>2 DEF In
  <2>2. PICK j \in 1 .. Len(q) - m : right[j] = Packet(r)
    BY <1>3 DEF In
  <2>3. /\ i \in DOMAIN q /\ m + j \in DOMAIN q /\ i < m + j
        /\ q[i] = Packet(l) /\ q[m + j] = Packet(r)
    BY <1>1, <1>2, <1>3, <2>1, <2>2
  <2>4. /\ q[i].type = "packet" /\ q[m + j].type = "packet"
        /\ q[i].n = l /\ q[m + j].n = r
    BY <2>3, PacketOf
  <2> QED
    BY <2>3, <2>4 DEF Carries, Ordered
<1> HIDE DEF onLeft, onRight
<1>9. \A n \in W : 1 .. n \subseteq W
  <2> SUFFICES ASSUME NEW n \in W, NEW l \in 1 .. n PROVE l \in W
    OBVIOUS
  <2>1. n \in 1 .. b /\ l \in 1 .. b /\ l \in Nat /\ n \in Nat /\ l <= n
    OBVIOUS
  <2>2. CASE n <= a
    BY <2>1, <2>2
  <2>3. CASE l > a /\ onLeft(n)
    <3>1. onLeft(l) \/ onRight(l)
      BY <1>7, <2>1, <2>3
    <3>2. ~onRight(l)
      BY <1>8, <2>1, <2>3
    <3> QED
      BY <2>1, <3>1, <3>2
  <2> QED
    BY <2>1, <2>2, <2>3
<1> DEFINE c == Cardinality(W)
<1>10. c \in 0 .. b /\ W = 1 .. c
  <2>1. W \subseteq 1 .. b
    OBVIOUS
  <2> HIDE DEF W
  <2> QED
    BY <1>9, <2>1, GaplessNumbers
<1> HIDE DEF c
<1>11. c \in a .. b
  <2>1. a = 0 \/ a \in W
    OBVIOUS
  <2> HIDE DEF W
  <2> QED
    BY <1>10, <2>1
<1>12. \A n \in Nat : onLeft(n) <=> n \in a + 1 .. c
  <2> SUFFICES ASSUME NEW n \in Nat PROVE onLeft(n) <=> n \in a + 1 .. c
    OBVIOUS
  <2>1. n \in W <=> n \in 1 .. c
    BY <1>10
  <2>2. onLeft(n) => n \in a + 1 .. b
    BY <1>7
  <2>3. n \in a + 1 .. b => (n \in W <=> onLeft(n))
    OBVIOUS
  <2> HIDE DEF W
  <2> QED
    BY <1>11, <2>1, <2>2, <2>3
<1>13. \A n \in Nat : onRight(n) <=> n \in c + 1 .. b
  <2> SUFFICES ASSUME NEW n \in Nat PROVE onRight(n) <=> n \in c + 1 .. b
    OBVIOUS
  <2>1. onLeft(n) <=> n \in a + 1 .. c
    BY <1>12
  <2>2. onLeft(n) \/ onRight(n) <=> n \in a + 1 .. b
    BY <1>7
  <2>3. ~(onLeft(n) /\ onRight(n))
    BY <1>8
  <2> HIDE DEF W
  <2> QED
    BY <1>11, <2>1, <2>2, <2>3
<1> HIDE DEF W
<1>14. Carries(left, a, c) /\ Carries(right, c, b)
  BY <1>4, <1>5, <1>12, <1>13 DEF Carries, onLeft, onRight
<1> QED
  BY <1>11, <1>14 DEF left, right

-----------------------------------------------------------------------------
(* Writing takes packets from the front of the queue.                      *)

\* A write that takes the first packets and leaves the others, unless it fails.
Splits(w, queue) ==
    /\ w.out \in Seq(Frames)
    /\ \A a, b \in Nat :
          a <= b /\ Carries(queue, a, b) =>
              \E c \in a .. b : /\ Carries(w.out, a, c)
                                /\ ~w.failed => Carries(w.left, c, b)

\* A write of nothing.
LEMMA NothingSplits ==
    ASSUME NEW queue, NEW w, w.out = <<>>, w.failed \/ w.left = queue
    PROVE  Splits(w, queue)
<1>1. <<>> \in Seq(Frames)
  BY EmptySeq
<1>2. ASSUME NEW a \in Nat, NEW b \in Nat, a <= b, Carries(queue, a, b)
      PROVE  \E c \in a .. b : /\ Carries(w.out, a, c)
                               /\ ~w.failed => Carries(w.left, c, b)
  <2>1. a \in a .. b /\ Carries(w.out, a, a)
    BY <1>2, EmptyCarries
  <2> QED
    BY <1>2, <2>1
<1> QED
  BY <1>1, <1>2 DEF Splits

LEMMA FlushSplits ==
    ASSUME NEW q \in Seq(Frames), NEW connected, NEW blocked,
           NEW w \in flushClientQueue(q, connected, blocked)
    PROVE  Splits(w, q)
<1>1. Len(q) \in Nat
  BY LenProperties
<1>2. \/ w.out = <<>> /\ w.left = q
      \/ w.out = q /\ w.left = <<>>
      \/ \E n \in 1 .. Len(q) :
            \/ w.out = SubSeq(q, 1, n) /\ w.left = SubSeq(q, n + 1, Len(q))
            \/ w.out = SubSeq(q, 1, n - 1) /\ w.failed
  <2>1. CASE ~connected \/ blocked \/ q = <<>>
    BY <2>1 DEF flushClientQueue
  <2>2. CASE ~(~connected \/ blocked \/ q = <<>>)
    <3>1. \/ w = [out |-> q, left |-> <<>>, blocked |-> FALSE, failed |-> FALSE]
          \/ \E n \in 1 .. Len(q) :
                w = [out |-> SubSeq(q, 1, n), left |-> SubSeq(q, n + 1, Len(q)),
                     blocked |-> TRUE, failed |-> FALSE]
          \/ \E n \in 1 .. Len(q) :
                w = [out |-> SubSeq(q, 1, n - 1),
                     left |-> SubSeq(q, n + 1, Len(q)),
                     blocked |-> FALSE, failed |-> TRUE]
      BY <2>2 DEF flushClientQueue
    <3>2. CASE w = [out |-> q, left |-> <<>>, blocked |-> FALSE, failed |-> FALSE]
      BY <3>2
    <3>3. ASSUME NEW n \in 1 .. Len(q),
                 \/ w = [out |-> SubSeq(q, 1, n),
                         left |-> SubSeq(q, n + 1, Len(q)),
                         blocked |-> TRUE, failed |-> FALSE]
                 \/ w = [out |-> SubSeq(q, 1, n - 1),
                         left |-> SubSeq(q, n + 1, Len(q)),
                         blocked |-> FALSE, failed |-> TRUE]
          PROVE  \/ w.out = SubSeq(q, 1, n) /\ w.left = SubSeq(q, n + 1, Len(q))
                 \/ w.out = SubSeq(q, 1, n - 1) /\ w.failed
      <4> DEFINE l == SubSeq(q, 1, n)
                 m == SubSeq(q, 1, n - 1)
                 r == SubSeq(q, n + 1, Len(q))
      <4>1. \/ w = [out |-> l, left |-> r, blocked |-> TRUE, failed |-> FALSE]
            \/ w = [out |-> m, left |-> r, blocked |-> FALSE, failed |-> TRUE]
        BY <3>3
      <4> HIDE DEF l, m, r
      <4>2. \/ w.out = l /\ w.left = r
            \/ w.out = m /\ w.failed
        BY <4>1
      <4> QED
        BY <4>2 DEF l, m, r
    <3> QED
      BY <3>1, <3>2, <3>3
  <2> QED
    BY <2>1, <2>2
<1>3. CASE w.out = <<>> /\ w.left = q
  BY <1>3, NothingSplits
<1>4. CASE w.out = q /\ w.left = <<>>
  <2>1. ASSUME NEW a \in Nat, NEW b \in Nat, a <= b, Carries(q, a, b)
        PROVE  \E c \in a .. b : /\ Carries(w.out, a, c)
                                 /\ ~w.failed => Carries(w.left, c, b)
    <3>1. b \in a .. b /\ Carries(w.out, a, b) /\ Carries(w.left, b, b)
      BY <1>4, <2>1, EmptyCarries
    <3> QED
      BY <3>1
  <2> QED
    BY <1>4, <2>1 DEF Splits
<1>5. ASSUME NEW m \in 0 .. Len(q), w.out = SubSeq(q, 1, m),
             w.failed \/ w.left = SubSeq(q, m + 1, Len(q))
      PROVE  Splits(w, q)
  <2>1. w.out \in Seq(Frames)
    <3>1. m \in Nat /\ m <= Len(q)
      BY <1>1
    <3> QED
      BY <1>5, <3>1, SubSeqType
  <2>2. ASSUME NEW a \in Nat, NEW b \in Nat, a <= b, Carries(q, a, b)
        PROVE  \E c \in a .. b : /\ Carries(w.out, a, c)
                                 /\ ~w.failed => Carries(w.left, c, b)
    <3>1. \E c \in a .. b : /\ Carries(SubSeq(q, 1, m), a, c)
                            /\ Carries(SubSeq(q, m + 1, Len(q)), c, b)
      BY <2>2, CarriesCut
    <3> QED
      BY <1>5, <3>1
  <2> QED
    BY <2>1, <2>2 DEF Splits
<1>6. ASSUME NEW n \in 1 .. Len(q)
      PROVE  n \in 0 .. Len(q) /\ n - 1 \in 0 .. Len(q)
  BY <1>1
<1> QED
  BY <1>2, <1>3, <1>4, <1>5, <1>6

LEMMA QueueTcpWriteSplits ==
    ASSUME TypeOK, NEW f \in Frames, NEW w \in queueTcpWrite(f)
    PROVE  Splits(w, Append(clientQueue, f))
<1> DEFINE queue == Append(clientQueue, f)
<1>1. queue \in Seq(Frames)
  BY AppendProperties DEF TypeOK
<1>2. w \in IF Len(queue) > MaxQueue
            THEN {[out |-> <<>>, left |-> queue, blocked |-> tcpBlocked,
                   failed |-> TRUE]}
            ELSE flushClientQueue(queue, tcpConnected, tcpBlocked)
  BY DEF queueTcpWrite
<1>3. CASE w.out = <<>> /\ w.failed
  BY <1>3, NothingSplits
<1>4. CASE w \in flushClientQueue(queue, tcpConnected, tcpBlocked)
  <2> HIDE DEF queue
  <2> QED
    BY <1>1, <1>4, FlushSplits DEF queue
<1> QED
  BY <1>2, <1>3, <1>4

-----------------------------------------------------------------------------
(* The packets travel in order, from the browser to the queue to Paper.    *)

\* Paper was written the first a of the packets; unless the bridge has ended,
\* the queue holds the next ones and those after it are on their way.
UplinkAt(a) ==
    /\ Carries(written, 0, a)
    /\ ~terminated => \E b \in a .. sent : /\ Carries(clientQueue, a, b)
                                           /\ Carries(toGateway, b, sent)

UplinkInv == \E a \in 0 .. sent : UplinkAt(a)

LEMMA UplinkInit == Init => UplinkInv
<1> SUFFICES ASSUME Init PROVE UplinkInv
  OBVIOUS
<1>1. 0 \in 0 .. sent /\ Carries(<<>>, 0, 0)
  BY EmptyCarries DEF Init
<1> QED
  BY <1>1 DEF Init, UplinkInv, UplinkAt

\* A write that splits what is queued, after the frame it is called with.
LEMMA UplinkWrite ==
    ASSUME TypeOK, NEW a \in Nat, NEW b \in Nat, a <= b, b <= sent,
           Carries(written, 0, a), NEW queue, Carries(queue, a, b),
           NEW w, Splits(w, queue), Written(w), ~terminated' => ~w.failed,
           Carries(toGateway', b, sent), sent' = sent
    PROVE  \E c \in a .. sent : UplinkAt(c)'
<1>1. sent \in Nat
  BY BoundsAssumption DEF TypeOK
<1>2. PICK c \in a .. b : /\ Carries(w.out, a, c)
                          /\ ~w.failed => Carries(w.left, c, b)
  BY DEF Splits
<1>3. c \in Nat /\ a <= c /\ c \in a .. sent /\ b \in c .. sent
  BY <1>1
<1>4. written' = written \o w.out /\ clientQueue' = w.left
  BY DEF Written
<1>5. Carries(written', 0, c)
  <2>1. written \in Seq(Frames) /\ w.out \in Seq(Frames)
    BY DEF TypeOK, Splits
  <2>2. Carries(written \o w.out, 0, c)
    BY <1>2, <1>3, <2>1, CarriesConcat
  <2> QED
    BY <1>4, <2>2
<1>6. ~terminated' => Carries(clientQueue', c, b)
  BY <1>2, <1>4
<1>7. UplinkAt(c)'
  BY <1>3, <1>5, <1>6 DEF UplinkAt
<1> QED
  BY <1>3, <1>7

\* A step that leaves what is queued and written alone.
LEMMA UplinkElsewhere ==
    ASSUME NEW a \in Nat, UplinkAt(a),
           UNCHANGED <<written, clientQueue, toGateway, sent>>,
           terminated => terminated'
    PROVE  UplinkAt(a)'
BY DEF UplinkAt

LEMMA UplinkSends ==
    ASSUME TypeOK, NEW a \in Nat, UplinkAt(a), BrowserSends
    PROVE  UplinkAt(a)'
<1>1. /\ toGateway' = Append(toGateway, Packet(sent + 1)) /\ sent' = sent + 1
      /\ UNCHANGED <<written, clientQueue, terminated>>
  BY DEF BrowserSends, tcpVars
<1>2. /\ sent \in Nat /\ Packet(sent + 1) \in Frames /\ toGateway \in Seq(Frames)
  <2>1. sent + 1 \in 1 .. MaxFrames
    BY BoundsAssumption DEF BrowserSends, TypeOK
  <2>2. Packet(sent + 1) \in Frames
    BY <2>1, PacketOf
  <2> QED
    BY <2>2, BoundsAssumption DEF TypeOK
<1>3. ASSUME ~terminated
      PROVE  \E b \in a .. sent' : /\ Carries(clientQueue, a, b)
                                   /\ Carries(toGateway', b, sent')
  <2>1. PICK b \in a .. sent : /\ Carries(clientQueue, a, b)
                               /\ Carries(toGateway, b, sent)
    BY <1>3 DEF UplinkAt
  <2>2. b \in Nat /\ b <= sent /\ b \in a .. sent'
    BY <1>1, <1>2
  <2>3. Carries(toGateway', b, sent')
    BY <1>1, <1>2, <2>1, <2>2, CarriesAppend
  <2> QED
    BY <2>1, <2>2, <2>3
<1> QED
  BY <1>1, <1>3 DEF UplinkAt

LEMMA UplinkAnswers ==
    ASSUME TypeOK, NEW a \in Nat, UplinkAt(a),
           NEW p \in KeepAlives, BrowserAnswers(p)
    PROVE  UplinkAt(a)'
<1>1. /\ toGateway' = Append(toGateway, Answer(p))
      /\ UNCHANGED <<written, clientQueue, terminated, sent>>
  BY DEF BrowserAnswers, tcpVars
<1>2. /\ sent \in Nat /\ toGateway \in Seq(Frames)
      /\ Answer(p) \in Frames /\ Answer(p).type # "packet"
  BY BoundsAssumption DEF TypeOK, Frames, Answer
<1>3. ASSUME ~terminated
      PROVE  \E b \in a .. sent : /\ Carries(clientQueue, a, b)
                                  /\ Carries(toGateway', b, sent)
  <2>1. PICK b \in a .. sent : /\ Carries(clientQueue, a, b)
                               /\ Carries(toGateway, b, sent)
    BY <1>3 DEF UplinkAt
  <2>2. b \in Nat /\ b <= sent
    BY <1>2
  <2>3. Carries(toGateway', b, sent)
    BY <1>1, <1>2, <2>1, <2>2, CarriesAppend
  <2> QED
    BY <2>1, <2>3
<1> QED
  BY <1>1, <1>3 DEF UplinkAt

LEMMA UplinkWsMessage ==
    ASSUME TypeOK, NEW a \in Nat, UplinkAt(a), WsMessage
    PROVE  \E c \in a .. sent : UplinkAt(c)'
<1> DEFINE frame == Head(toGateway)
<1>1. /\ ~terminated /\ toGateway # <<>> /\ toGateway' = Tail(toGateway)
      /\ sent' = sent /\ sent \in Nat
  BY BoundsAssumption DEF WsMessage, browserVars, TypeOK
<1>2. /\ toGateway \in Seq(Frames) /\ clientQueue \in Seq(Frames)
      /\ frame \in Frames
  BY <1>1, HeadTailProperties DEF TypeOK
<1>3. PICK b \in a .. sent : /\ Carries(clientQueue, a, b)
                             /\ Carries(toGateway, b, sent)
  BY <1>1 DEF UplinkAt
<1>4. b \in Nat /\ a <= b /\ b <= sent /\ Carries(written, 0, a)
  BY <1>1 DEF UplinkAt
<1>5. PICK w \in IF \E p \in fastAnsweredKeepAlives : frame = Answer(p)
                 THEN {NoWrite} ELSE queueTcpWrite(frame) :
         Written(w) /\ terminated' = w.failed
  BY DEF WsMessage
<1> HIDE DEF frame
<1>6. CASE frame.type = "packet"
  <2>1. ~ \E p \in fastAnsweredKeepAlives : frame = Answer(p)
    BY <1>6 DEF Answer
  <2>2. Splits(w, Append(clientQueue, frame))
    BY <1>2, <1>5, <2>1, QueueTcpWriteSplits
  <2>3. frame = Packet(b + 1) /\ b + 1 <= sent /\ Carries(toGateway', b + 1, sent)
    BY <1>1, <1>2, <1>3, <1>4, <1>6, CarriesTail DEF frame
  <2>4. Carries(Append(clientQueue, frame), a, b + 1)
    BY <1>2, <1>3, <1>4, <2>3, CarriesAppend
  <2>5. b + 1 \in Nat /\ a <= b + 1
    BY <1>4
  <2> QED
    BY <1>1, <1>4, <1>5, <2>2, <2>3, <2>4, <2>5, UplinkWrite
<1>7. CASE frame.type # "packet"
  <2>1. Carries(toGateway', b, sent)
    BY <1>1, <1>2, <1>3, <1>4, <1>7, CarriesTail DEF frame
  <2>2. CASE w = NoWrite
    <3>1. Splits(w, clientQueue)
      BY <2>2, NothingSplits DEF NoWrite
    <3> QED
      BY <1>1, <1>3, <1>4, <1>5, <2>1, <3>1, UplinkWrite
  <2>3. CASE w \in queueTcpWrite(frame)
    <3>1. Splits(w, Append(clientQueue, frame))
      BY <1>2, <2>3, QueueTcpWriteSplits
    <3>2. Carries(Append(clientQueue, frame), a, b)
      BY <1>2, <1>3, <1>4, <1>7, CarriesAppend
    <3> QED
      BY <1>1, <1>4, <1>5, <2>1, <3>1, <3>2, UplinkWrite
  <2> QED
    BY <1>5, <2>2, <2>3
<1> QED
  BY <1>6, <1>7

LEMMA UplinkFlush ==
    ASSUME TypeOK, NEW a \in Nat, UplinkAt(a), TcpConnect \/ TcpDrain
    PROVE  \E c \in a .. sent : UplinkAt(c)'
<1>1. /\ ~terminated /\ toGateway' = toGateway /\ sent' = sent
      /\ sent \in Nat /\ clientQueue \in Seq(Frames)
  <2>1. ~terminated /\ toGateway' = toGateway /\ sent' = sent
    BY DEF TcpConnect, TcpDrain, browserVars
  <2> QED
    BY <2>1, BoundsAssumption DEF TypeOK
<1>2. PICK connected, blocked :
         \E w \in flushClientQueue(clientQueue, connected, blocked) :
            Written(w) /\ terminated' = w.failed
  BY DEF TcpConnect, TcpDrain
<1>3. PICK w \in flushClientQueue(clientQueue, connected, blocked) :
         Written(w) /\ terminated' = w.failed
  BY <1>2
<1>4. PICK b \in a .. sent : /\ Carries(clientQueue, a, b)
                             /\ Carries(toGateway, b, sent)
  BY <1>1 DEF UplinkAt
<1>5. b \in Nat /\ a <= b /\ b <= sent /\ Carries(written, 0, a)
  BY <1>1 DEF UplinkAt
<1>6. Splits(w, clientQueue)
  BY <1>1, <1>3, FlushSplits
<1> QED
  BY <1>1, <1>3, <1>4, <1>5, <1>6, UplinkWrite

LEMMA UplinkTcpData ==
    ASSUME TypeOK, NEW a \in Nat, UplinkAt(a), TcpData
    PROVE  \E c \in a .. sent : UplinkAt(c)'
<1>1. /\ ~terminated /\ toGateway' = toGateway /\ sent' = sent
      /\ sent \in Nat /\ clientQueue \in Seq(Frames)
  BY BoundsAssumption DEF TcpData, browserVars, TypeOK
<1>2. PICK seen \in SUBSET KeepAlives :
         \E w \in (UNION {queueTcpWrite(Answer(p)) : p \in seen})
                  \cup (IF seen = {} THEN {NoWrite} ELSE {}) :
            Written(w) /\ (~terminated' => ~w.failed)
  <2>1. PICK chunk \in {<<read + 1>>, <<read + 1, read + 2>>} :
           \E w \in (UNION {queueTcpWrite(Answer(p)) :
                               p \in KeepAlives \cap {Inspected(chunk).complete}})
                    \cup (IF KeepAlives \cap {Inspected(chunk).complete} = {}
                          THEN {NoWrite} ELSE {}) :
              Written(w) /\ (~terminated' => ~w.failed)
    BY DEF TcpData
  <2>2. KeepAlives \cap {Inspected(chunk).complete} \in SUBSET KeepAlives
    OBVIOUS
  <2> QED
    BY <2>1, <2>2
<1>3. PICK w \in (UNION {queueTcpWrite(Answer(p)) : p \in seen})
                 \cup (IF seen = {} THEN {NoWrite} ELSE {}) :
         Written(w) /\ (~terminated' => ~w.failed)
  BY <1>2
<1>4. PICK b \in a .. sent : /\ Carries(clientQueue, a, b)
                             /\ Carries(toGateway, b, sent)
  BY <1>1 DEF UplinkAt
<1>5. b \in Nat /\ a <= b /\ b <= sent /\ Carries(written, 0, a)
  BY <1>1 DEF UplinkAt
<1>6. CASE w = NoWrite
  <2>1. Splits(w, clientQueue)
    BY <1>6, NothingSplits DEF NoWrite
  <2> QED
    BY <1>1, <1>3, <1>4, <1>5, <2>1, UplinkWrite
<1>7. ASSUME NEW p \in KeepAlives, w \in queueTcpWrite(Answer(p))
      PROVE  \E c \in a .. sent : UplinkAt(c)'
  <2>1. Answer(p) \in Frames /\ Answer(p).type # "packet"
    BY DEF Frames, Answer
  <2>2. Splits(w, Append(clientQueue, Answer(p)))
    BY <1>7, <2>1, QueueTcpWriteSplits
  <2>3. Carries(Append(clientQueue, Answer(p)), a, b)
    BY <1>1, <1>4, <1>5, <2>1, CarriesAppend
  <2> QED
    BY <1>1, <1>3, <1>4, <1>5, <2>2, <2>3, UplinkWrite
<1> QED
  BY <1>3, <1>6, <1>7

-----------------------------------------------------------------------------
(* What Paper may see of a step, in the terms of Pipe.                     *)

LEMMA UplinkDelivers ==
    ASSUME TypeOK, TypeOK', NEW a \in Nat, Carries(written, 0, a),
           NEW c \in a .. sent, Carries(written', 0, c),
           ~terminated, sent' = sent
    PROVE  Uplink!Deliver
<1>1. sent \in Nat /\ c \in Nat /\ c <= sent /\ a <= c
  BY BoundsAssumption DEF TypeOK
<1>2. PacketsOf(written) = UpTo(a) /\ PacketsOf(written') = UpTo(c)
  <2>1. written \in Seq(Frames) /\ written' \in Seq(Frames)
    BY DEF TypeOK
  <2> QED
    BY <1>1, <2>1, PacketsAreNumbered
<1>3. /\ Len(UpTo(a)) = a /\ Len(UpTo(sent)) = sent
      /\ UpTo(c) = SubSeq(UpTo(sent), 1, c)
  BY <1>1, UpToType, UpToPrefix
<1>4. \E n \in Len(PacketsOf(written)) .. Len(UpTo(sent)) :
         PacketsOf(written') = SubSeq(UpTo(sent), 1, n)
  BY <1>1, <1>2, <1>3
<1>5. UpTo(sent') = UpTo(sent) /\ (~terminated') \in BOOLEAN
  OBVIOUS
<1> QED
  BY <1>4, <1>5 DEF Uplink!Deliver, UpTo

LEMMA UplinkStep ==
    ASSUME GatewayInv, GatewayInv', UplinkInv, [Next]_vars
    PROVE  /\ UplinkInv'
           /\ [Uplink!Put \/ Uplink!Deliver]_<<UpTo(sent), PacketsOf(written),
                                               ~terminated>>
<1>1. TypeOK /\ TypeOK' /\ sent \in Nat
  <2>1. TypeOK
    BY DEF GatewayInv
  <2>2. TypeOK'
    BY DEF GatewayInv
  <2>3. sent \in Nat
    BY <2>1, BoundsAssumption DEF TypeOK
  <2> QED
    BY <2>1, <2>2, <2>3
<1>2. PICK a \in 0 .. sent : UplinkAt(a)
  BY DEF UplinkInv
<1>3. a \in Nat /\ Carries(written, 0, a)
  BY <1>2 DEF UplinkAt
<1>4. CASE BrowserSends
  <2>1. sent' = sent + 1 /\ UNCHANGED <<written, terminated>>
    BY <1>4 DEF BrowserSends, tcpVars
  <2>2. UplinkInv'
    <3>1. a \in 0 .. sent' /\ UplinkAt(a)'
      BY <1>1, <1>2, <1>3, <1>4, <2>1, UplinkSends
    <3> QED
      BY <3>1 DEF UplinkInv
  <2>3. Uplink!Extended(UpTo(sent), UpTo(sent'))
    BY <1>1, <2>1, UpToType, UpToPrefix DEF Uplink!Extended
  <2>4. Uplink!Put
    BY <2>1, <2>3 DEF Uplink!Put, UpTo
  <2> QED
    BY <2>2, <2>4
<1>5. CASE WsMessage \/ TcpConnect \/ TcpDrain \/ TcpData
  <2>1. ~terminated /\ sent' = sent
    BY <1>5 DEF WsMessage, TcpConnect, TcpDrain, TcpData, browserVars
  <2>2. PICK c \in a .. sent : UplinkAt(c)'
    BY <1>1, <1>2, <1>3, <1>5, UplinkWsMessage, UplinkFlush, UplinkTcpData
  <2>3. UplinkInv'
    <3>1. c \in 0 .. sent'
      BY <1>1, <1>3, <2>1
    <3> QED
      BY <2>2, <3>1 DEF UplinkInv
  <2>4. Carries(written', 0, c)
    BY <2>2 DEF UplinkAt
  <2>5. Uplink!Deliver
    BY <1>1, <1>3, <2>1, <2>4, UplinkDelivers
  <2> QED
    BY <2>3, <2>5
<1>6. CASE \/ \E p \in KeepAlives : BrowserAnswers(p)
           \/ BrowserReceives \/ BrowserEnds \/ BrowserHearsClose
           \/ \E p \in KeepAlives : Expire(p)
           \/ WsClose \/ Fails \/ UNCHANGED vars
  <2>1. /\ UNCHANGED <<written, sent>>
        /\ terminated' = terminated \/ (~terminated /\ terminated')
    <3>1. CASE \/ \E p \in KeepAlives : BrowserAnswers(p)
               \/ BrowserReceives \/ BrowserEnds \/ BrowserHearsClose
      BY <3>1 DEF BrowserAnswers, BrowserReceives, BrowserEnds,
                  BrowserHearsClose, tcpVars
    <3>2. CASE \E p \in KeepAlives : Expire(p)
      BY <3>2 DEF Expire, browserVars, tcpVars
    <3>3. CASE WsClose \/ Fails \/ UNCHANGED vars
      BY <3>3 DEF WsClose, Fails, vars, browserVars, tcpVars
    <3> QED
      BY <1>6, <3>1, <3>2, <3>3
  <2>2. UplinkAt(a)'
    <3>1. CASE \E p \in KeepAlives : BrowserAnswers(p)
      BY <1>1, <1>2, <1>3, <3>1, UplinkAnswers
    <3>2. CASE ~ \E p \in KeepAlives : BrowserAnswers(p)
      <4>1. UNCHANGED <<clientQueue, toGateway>>
        <5>1. CASE BrowserReceives \/ BrowserEnds \/ BrowserHearsClose
          BY <5>1 DEF BrowserReceives, BrowserEnds, BrowserHearsClose, tcpVars
        <5>2. CASE \E p \in KeepAlives : Expire(p)
          BY <5>2 DEF Expire, tcpVars
        <5>3. CASE WsClose \/ Fails \/ UNCHANGED vars
          BY <5>3 DEF WsClose, Fails, vars, tcpVars
        <5> QED
          BY <1>6, <3>2, <5>1, <5>2, <5>3
      <4> QED
        BY <1>2, <1>3, <2>1, <4>1, UplinkElsewhere
    <3> QED
      BY <3>1, <3>2
  <2>3. UplinkInv'
    BY <1>2, <2>1, <2>2 DEF UplinkInv
  <2>4. CASE terminated' = terminated
    BY <2>1, <2>3, <2>4
  <2>5. CASE ~terminated /\ terminated'
    <3>1. Carries(written', 0, a) /\ a \in a .. sent
      BY <1>1, <1>2, <1>3, <2>1
    <3>2. Uplink!Deliver
      BY <1>1, <1>3, <2>1, <2>5, <3>1, UplinkDelivers
    <3> QED
      BY <2>3, <3>2
  <2> QED
    BY <2>1, <2>4, <2>5
<1> QED
  BY <1>4, <1>5, <1>6 DEF Next, Browser

\* Apart from keepalives, Paper is written what the browser sent: in order and
\* without a gap, whatever the socket's pauses, up to the end of the
\* connection: the handlers of bridgeHemConnection implement Pipe.
THEOREM UplinkImplementsPipe == Spec => UplinkIsAPipe
<1>1. Init => Uplink!Init
  <2> SUFFICES ASSUME Init PROVE Uplink!Init
    OBVIOUS
  <2>1. UpTo(0) = <<>>
    BY UpToType, EmptySeq
  <2>2. PacketsOf(written) = <<>>
    <3>1. written \in Seq(Frames) /\ Carries(written, 0, 0)
      BY EmptySeq, EmptyCarries DEF Init
    <3> QED
      BY <2>1, <3>1, PacketsAreNumbered
  <2> QED
    BY <2>1, <2>2 DEF Init, Uplink!Init, UpTo
<1>2. GatewayInv /\ GatewayInv' /\ UplinkInv /\ [Next]_vars =>
         /\ UplinkInv'
         /\ [Uplink!Put \/ Uplink!Deliver]_<<UpTo(sent), PacketsOf(written),
                                             ~terminated>>
  BY UplinkStep
<1> QED
  BY <1>1, <1>2, UplinkInit, GatewayInvariant, PTL
     DEF Spec, UplinkIsAPipe, Uplink!Spec, UpTo
=============================================================================
