------------------------------- MODULE Gateway -------------------------------
(***************************************************************************)
(* bridgeHemConnection: one browser's WebSocket joined to one TCP socket   *)
(* of a Paper process.  Frames from the browser queue until the TCP socket *)
(* takes them; Paper's bytes pass through to the browser, and the gateway  *)
(* looks into them on the way: it answers a keepalive itself, at once, and *)
(* drops the answer the browser sends later.                               *)
(*                                                                         *)
(* Every handler runs to its end before the next event, so it is one       *)
(* action.  Frames from the browser count 1 towards the queue's limit.     *)
(* Paper's packets are two units long, a header and a body, so that a      *)
(* chunk may end within a packet; a chunk is at most two units, a longer   *)
(* one being as good as two in a row.                                      *)
(***************************************************************************)
EXTENDS Integers, Sequences, FiniteSets

CONSTANTS
    MaxFrames,     \* bound: packets the browser sends
    MaxPackets,    \* bound: packets Paper sends
    KeepAlives,    \* which of Paper's packets are keepalives
    MaxQueue,      \* MAX_CLIENT_QUEUE_BYTES
    MaxBuffered,   \* MAX_WS_BUFFERED_BYTES
    SlowBrowser    \* TRUE iff a browser's answer may take longer than
                   \* KEEPALIVE_DEDUPE_MS

ASSUME BoundsAssumption ==
    {MaxFrames, MaxPackets, MaxQueue, MaxBuffered} \subseteq Nat
ASSUME KeepAliveAssumption == KeepAlives \subseteq 1 .. MaxPackets
ASSUME SwitchAssumption == SlowBrowser \in BOOLEAN

\* A frame from the browser's side: its n-th packet, or the answer to Paper's
\* n-th packet.
Packet(n) == [type |-> "packet", n |-> n]
Answer(n) == [type |-> "answer", n |-> n]
Frames == {Packet(n) : n \in 1 .. MaxFrames} \cup {Answer(n) : n \in KeepAlives}
Units == 1 .. 2 * MaxPackets

VARIABLES
    browser,         \* the browser's WebSocket: open, closed, or gone without
                     \* a closing handshake
    sent,            \* packets the browser has sent
    owed,            \* keepalives the browser has still to answer
    received,        \* units the browser has received
    toGateway,       \* frames on their way from the browser
    toBrowser,       \* units sent to the browser: ws.bufferedAmount
    clientQueue,
    tcpConnected,
    tcpBlocked,
    terminated,      \* and both sockets are closed: wsClosed and tcpClosed are
                     \* set by the same handlers
    read,            \* units of Paper's stream read so far
    serverInspectBuffer,
    fastAnsweredKeepAlives,
    written          \* frames handed to tcp.write

browserVars == <<browser, sent, owed, received>>
tcpVars == <<clientQueue, tcpBlocked, written>>
serverVars == <<read, serverInspectBuffer, fastAnsweredKeepAlives, toBrowser>>
vars == <<browserVars, tcpVars, serverVars, toGateway, tcpConnected, terminated>>

\* Every variable keeps to its range; a queue past its limit ends the bridge.
TypeOK ==
    /\ browser \in {"open", "closed", "gone"}
    /\ sent \in 0 .. MaxFrames
    /\ owed \subseteq KeepAlives
    /\ received \in Seq(Units)
    /\ toGateway \in Seq(Frames)
    /\ toBrowser \in Seq(Units)
    /\ clientQueue \in Seq(Frames)
    /\ {tcpConnected, tcpBlocked, terminated} \subseteq BOOLEAN
    /\ read \in 0 .. 2 * MaxPackets
    /\ serverInspectBuffer \in Seq(Units)
    /\ fastAnsweredKeepAlives \subseteq KeepAlives
    /\ written \in Seq(Frames)
    /\ Len(clientQueue) > MaxQueue => terminated

Init ==
    /\ browser = "open"
    /\ sent = 0
    /\ owed = {}
    /\ received = <<>>
    /\ toGateway = <<>>
    /\ toBrowser = <<>>
    /\ clientQueue = <<>>
    /\ tcpConnected = FALSE
    /\ tcpBlocked = FALSE
    /\ terminated = FALSE
    /\ read = 0
    /\ serverInspectBuffer = <<>>
    /\ fastAnsweredKeepAlives = {}
    /\ written = <<>>

-----------------------------------------------------------------------------
(* Writing to Paper: what may become of a queue.  `out' is taken by the    *)
(* socket, `left' stays; a `failed' write or queue terminates the bridge.  *)

\* One frame per call, whether or not the socket asks for a pause.
flushOne(queue, connected, blocked) ==
    IF ~connected \/ blocked \/ queue = <<>>
    THEN {[out |-> <<>>, left |-> queue, blocked |-> blocked, failed |-> FALSE]}
    ELSE {[out |-> <<queue[1]>>, left |-> Tail(queue), blocked |-> b,
           failed |-> FALSE] : b \in BOOLEAN}

\* flushClientQueue: write frames until one makes the socket ask for a pause;
\* a write that throws loses its frame.
flushClientQueue(queue, connected, blocked) ==
    IF ~connected \/ blocked \/ queue = <<>>
    THEN {[out |-> <<>>, left |-> queue, blocked |-> blocked, failed |-> FALSE]}
    ELSE {[out |-> queue, left |-> <<>>, blocked |-> FALSE, failed |-> FALSE]}
         \cup
         {[out |-> SubSeq(queue, 1, n), left |-> SubSeq(queue, n + 1, Len(queue)),
           blocked |-> TRUE, failed |-> FALSE] : n \in 1 .. Len(queue)}
         \cup
         {[out |-> SubSeq(queue, 1, n - 1),
           left |-> SubSeq(queue, n + 1, Len(queue)),
           blocked |-> FALSE, failed |-> TRUE] : n \in 1 .. Len(queue)}

\* A write past the queue whenever the socket is connected.
writeDirectly(frame) ==
    IF tcpConnected
    THEN {[out |-> <<frame>>, left |-> clientQueue, blocked |-> b,
           failed |-> FALSE] : b \in BOOLEAN}
    ELSE {[out |-> <<>>, left |-> Append(clientQueue, frame),
           blocked |-> tcpBlocked, failed |-> FALSE]}

\* queueTcpWrite, and the flush that follows it.
queueTcpWrite(frame) ==
    LET queue == Append(clientQueue, frame) IN
    IF Len(queue) > MaxQueue
    THEN {[out |-> <<>>, left |-> queue, blocked |-> tcpBlocked, failed |-> TRUE]}
    ELSE flushClientQueue(queue, tcpConnected, tcpBlocked)

NoWrite == [out |-> <<>>, left |-> clientQueue, blocked |-> tcpBlocked,
            failed |-> FALSE]

Written(w) ==
    /\ clientQueue' = w.left
    /\ written' = written \o w.out
    /\ tcpBlocked' = w.blocked

-----------------------------------------------------------------------------
(* The browser.                                                            *)

BrowserSends ==
    /\ browser = "open"
    /\ sent < MaxFrames
    /\ sent' = sent + 1
    /\ toGateway' = Append(toGateway, Packet(sent + 1))
    /\ UNCHANGED <<browser, owed, received, tcpVars, serverVars, tcpConnected,
                   terminated>>

\* The keepalive guard answers a challenge once.
BrowserAnswers(p) ==
    /\ browser = "open"
    /\ p \in owed
    /\ owed' = owed \ {p}
    /\ toGateway' = Append(toGateway, Answer(p))
    /\ UNCHANGED <<browser, sent, received, tcpVars, serverVars, tcpConnected,
                   terminated>>

BrowserReceives ==
    /\ browser = "open"
    /\ toBrowser # <<>>
    /\ toBrowser' = Tail(toBrowser)
    /\ received' = Append(received, Head(toBrowser))
    /\ owed' = owed \cup {p \in KeepAlives : Head(toBrowser) = 2 * p}
    /\ UNCHANGED <<browser, sent, tcpVars, read, serverInspectBuffer,
                   fastAnsweredKeepAlives, toGateway, tcpConnected, terminated>>

\* It closes the WebSocket, hears the gateway's closing it, or disappears.
BrowserEnds ==
    /\ browser = "open"
    /\ browser' \in {"closed", "gone"}
    /\ UNCHANGED <<sent, owed, received, tcpVars, serverVars, toGateway,
                   tcpConnected, terminated>>

BrowserHearsClose ==
    /\ browser = "open"
    /\ terminated
    /\ toBrowser = <<>>
    /\ browser' = "closed"
    /\ UNCHANGED <<sent, owed, received, tcpVars, serverVars, toGateway,
                   tcpConnected, terminated>>

-----------------------------------------------------------------------------
(* The gateway's handlers.  All of them do nothing once `terminated'.      *)

\* A handler that does not look for duplicates.
WsMessageUnseen ==
    /\ ~terminated
    /\ toGateway # <<>>
    /\ toGateway' = Tail(toGateway)
    /\ \E w \in queueTcpWrite(Head(toGateway)) :
          Written(w) /\ terminated' = w.failed
    /\ UNCHANGED <<browserVars, serverVars, tcpConnected>>

\* ws 'message': one frame, from a browser in order.
WsMessage ==
    /\ ~terminated
    /\ toGateway # <<>>
    /\ toGateway' = Tail(toGateway)
    /\ LET frame == Head(toGateway)
           duplicate == \E p \in fastAnsweredKeepAlives : frame = Answer(p) IN
       \E w \in IF duplicate THEN {NoWrite} ELSE queueTcpWrite(frame) :
          Written(w) /\ terminated' = w.failed
    /\ UNCHANGED <<browserVars, serverVars, tcpConnected>>

TcpConnect ==
    /\ ~terminated
    /\ ~tcpConnected
    /\ tcpConnected' = TRUE
    /\ \E w \in flushClientQueue(clientQueue, TRUE, tcpBlocked) :
          Written(w) /\ terminated' = w.failed
    /\ UNCHANGED <<browserVars, serverVars, toGateway>>

\* A drain that waits for the next frame to flush the queue.
TcpDrainOnly ==
    /\ ~terminated
    /\ tcpBlocked
    /\ tcpBlocked' = FALSE
    /\ UNCHANGED <<browserVars, serverVars, toGateway, tcpConnected, terminated,
                   clientQueue, written>>

TcpDrain ==
    /\ ~terminated
    /\ tcpBlocked
    /\ UNCHANGED tcpConnected
    /\ \E w \in flushClientQueue(clientQueue, tcpConnected, FALSE) :
          Written(w) /\ terminated' = w.failed
    /\ UNCHANGED <<browserVars, serverVars, toGateway>>

\* An inspection of every chunk for itself.
InspectedAlone(chunk) ==
    IF Len(chunk) = 2 /\ chunk[2] % 2 = 0
    THEN [complete |-> chunk[2] \div 2, rest |-> <<>>]
    ELSE [complete |-> 0, rest |-> <<>>]

\* inspectServerFrames: the packets that are complete with this chunk, and
\* what is kept of the next.
Inspected(chunk) ==
    LET buffer == serverInspectBuffer \o chunk IN
    IF Len(buffer) < 2
    THEN [complete |-> 0, rest |-> buffer]
    ELSE [complete |-> buffer[2] \div 2, rest |-> SubSeq(buffer, 3, Len(buffer))]

\* Skipping a chunk for which the WebSocket has no room.
TcpDataSkipping ==
    /\ ~terminated
    /\ tcpConnected
    /\ \E chunk \in {<<read + 1>>, <<read + 1, read + 2>>} :
          LET inspected == Inspected(chunk)
              seen == KeepAlives \cap {inspected.complete} IN
          /\ read + Len(chunk) <= 2 * MaxPackets
          /\ read' = read + Len(chunk)
          /\ serverInspectBuffer' = inspected.rest
          /\ fastAnsweredKeepAlives' = fastAnsweredKeepAlives \cup seen
          /\ \E w \in (UNION {queueTcpWrite(Answer(p)) : p \in seen})
                      \cup (IF seen = {} THEN {NoWrite} ELSE {}) :
                /\ Written(w)
                /\ terminated' = w.failed
                /\ toBrowser' = IF terminated' \/ Len(toBrowser) > MaxBuffered THEN toBrowser
                                ELSE toBrowser \o chunk
    /\ UNCHANGED <<browserVars, toGateway, tcpConnected>>

\* tcp 'data': answer the keepalive if there is one, then pass the chunk on.
TcpData ==
    /\ ~terminated
    /\ tcpConnected
    /\ \E chunk \in {<<read + 1>>, <<read + 1, read + 2>>} :
          LET inspected == Inspected(chunk)
              seen == KeepAlives \cap {inspected.complete} IN
          /\ read + Len(chunk) <= 2 * MaxPackets
          /\ read' = read + Len(chunk)
          /\ serverInspectBuffer' = inspected.rest
          /\ fastAnsweredKeepAlives' = fastAnsweredKeepAlives \cup seen
          /\ \E w \in (UNION {queueTcpWrite(Answer(p)) : p \in seen})
                      \cup (IF seen = {} THEN {NoWrite} ELSE {}) :
                /\ Written(w)
                /\ terminated' = (w.failed \/ Len(toBrowser) > MaxBuffered)
                /\ toBrowser' = IF terminated' THEN toBrowser
                                ELSE toBrowser \o chunk
    /\ UNCHANGED <<browserVars, toGateway, tcpConnected>>

\* A keepalive whose answer from the browser is still to come.
Outstanding(p) ==
    /\ browser = "open" \/ toGateway # <<>>
    /\ \/ p \in owed
       \/ \E i \in DOMAIN toGateway : toGateway[i] = Answer(p)
       \/ \A i \in DOMAIN received : received[i] # 2 * p

\* cleanupFastAnsweredKeepAlives: KEEPALIVE_DEDUPE_MS have passed.  Only the
\* look-ups see the map, and they clean it first.
Expire(p) ==
    /\ p \in fastAnsweredKeepAlives
    /\ SlowBrowser \/ ~Outstanding(p)
    /\ fastAnsweredKeepAlives' = fastAnsweredKeepAlives \ {p}
    /\ UNCHANGED <<browserVars, tcpVars, read, serverInspectBuffer, toBrowser,
                   toGateway, tcpConnected, terminated>>

\* A close handler that records the reason and leaves the TCP socket open.
WsCloseRecorded ==
    browser = "closed" /\ toGateway = <<>> /\ ~terminated /\ UNCHANGED vars

\* ws 'close', after everything the browser had sent.
WsClose ==
    /\ browser = "closed"
    /\ toGateway = <<>>
    /\ ~terminated
    /\ terminated' = TRUE
    /\ UNCHANGED <<browserVars, tcpVars, serverVars, toGateway, tcpConnected>>

\* Paper ends the connection or it breaks, on either side: tcp 'end', 'error'
\* and 'close', ws 'error', a failed ws.send, a WebSocket that is not open or
\* speaks text.
Fails ==
    /\ ~terminated
    /\ terminated' = TRUE
    /\ UNCHANGED <<browserVars, tcpVars, serverVars, toGateway, tcpConnected>>

-----------------------------------------------------------------------------
Browser ==
    \/ BrowserSends
    \/ \E p \in KeepAlives : BrowserAnswers(p)
    \/ BrowserReceives
    \/ BrowserEnds
    \/ BrowserHearsClose

Next ==
    \/ Browser
    \/ WsMessage
    \/ TcpConnect
    \/ TcpDrain
    \/ TcpData
    \/ \E p \in KeepAlives : Expire(p)
    \/ WsClose
    \/ Fails

Spec == Init /\ [][Next]_vars

(* Frames that were sent arrive and a closing handshake is heard, unless   *)
(* the connection breaks; Paper accepts the connection and goes on reading *)
(* from it.  Nobody has to send anything.                                  *)
FairSpec ==
    /\ Spec
    /\ WF_vars(WsMessage)
    /\ WF_vars(TcpConnect)
    /\ WF_vars(TcpDrain)
    /\ WF_vars(WsClose)
    /\ WF_vars(BrowserReceives)
    /\ WF_vars(BrowserHearsClose)

-----------------------------------------------------------------------------
In(frame, queue) == \E i \in DOMAIN queue : queue[i] = frame

\* The packets among some frames, in order: the k-th is the one up to which there
\* are k.
PacketsOf(frames) ==
    LET places == {i \in DOMAIN frames : frames[i].type = "packet"}
        place(k) == CHOOSE i \in places : Cardinality({j \in places : j <= i}) = k IN
    [k \in 1 .. Cardinality(places) |-> frames[place(k)].n]

Uplink == INSTANCE Pipe WITH
    sent <- [i \in 1 .. sent |-> i],
    received <- PacketsOf(written),
    open <- ~terminated
Downlink == INSTANCE Pipe WITH
    sent <- [i \in 1 .. read |-> i],
    received <- received,
    open <- browser = "open"

(* Apart from keepalives, Paper is written what the browser sent: in order,*)
(* nothing missing, nothing twice, whatever the socket's pauses.           *)
UplinkIsAPipe == Uplink!Spec

(* The browser receives Paper's bytes, all of them unchanged, in order, up *)
(* to the end of the connection: a chunk too many ends it.                 *)
DownlinkIsAPipe == Downlink!Spec

(* Nothing waits in the queue unless an event that flushes it is to come.  *)
NoStall ==
    clientQueue # <<>> /\ ~terminated => tcpBlocked \/ ~tcpConnected

(* A keepalive that was read is answered by the gateway however the stream *)
(* was cut into chunks: the answer is written or queued, or was lost when  *)
(* the bridge ended.                                                       *)
SeenIsAnswered ==
    \A p \in KeepAlives :
        2 * p <= read /\ ~terminated =>
            In(Answer(p), written) \/ In(Answer(p), clientQueue)

(* Paper receives exactly one response to a challenge, although the        *)
(* gateway and the browser both give one.                                  *)
AnsweredOnce ==
    \A i, j \in DOMAIN written :
        written[i] = written[j] /\ written[i].type = "answer" => i = j

(* The answer to a keepalive reaches Paper, even if the browser has        *)
(* stopped running, unless the connection ends.                            *)
AnswersReachPaper ==
    \A p \in KeepAlives :
        2 * p <= read ~> (In(Answer(p), written) \/ terminated)

(* A connection that ends on one side ends on the other: the player does   *)
(* not stay in the world, nor the page in front of a dead socket.          *)
EndsTogether ==
    /\ browser = "closed" ~> terminated
    /\ terminated ~> browser # "open"
=============================================================================
