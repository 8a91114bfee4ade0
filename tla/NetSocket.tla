----------------------------- MODULE NetSocket -----------------------------
(***************************************************************************)
(* The browser's end of a tunnel: a Duplex stream over one WebSocket.      *)
(*                                                                         *)
(* The stream library hands _write one write at a time and calls _final    *)
(* after the last; destroy() runs _destroy once.  An error given to a      *)
(* callback, and `finish' of a socket that cannot be read, destroy the     *)
(* socket in the next tick if the library has autoDestroy.                 *)
(*                                                                         *)
(* Handlers run one at a time, but call back: a flush from a timer or from *)
(* the open event runs the write's callback and the `drain' listeners on   *)
(* the spot.  These may write, end and destroy, and they may throw; such a *)
(* handler is several actions, between which nothing else happens (Idle).  *)
(* A _write's own flush is called back in a later tick.                    *)
(*                                                                         *)
(* The names every specification has are prefixed, so that a module can    *)
(* extend this one and Generations, the other half of the browser.         *)
(***************************************************************************)
EXTENDS Naturals, Sequences

CONSTANTS
    MaxWrites,   \* bound: writes of one socket
    MaxReads,    \* bound: messages of one socket
    AutoDestroy  \* the stream library destroys after an error and after finish

ASSUME SocketAssumption ==
    MaxWrites \in Nat /\ MaxReads \in Nat /\ AutoDestroy \in BOOLEAN

VARIABLES
    ws,           \* the WebSocket; `closing' until its close event is heard
    connecting, readable, writable, destroyed,
    written,      \* how many writes _write was given
    pending,      \* _pendingWrite: the number of a write, 0 for none
    flushTimer, timeoutTimer, timeoutSet,
    ended,        \* end() was called
    finished,     \* _final was called
    doomed,       \* a destroy() waits for the next tick
    opening,      \* the open event runs the `connect' listeners
    calling,      \* the write whose callback a flush is running, 0 for none
    threw,        \* the writes whose callback threw into the flush that sent them
    abandoned,    \* the socket was used after its destruction, or a callback
                  \* threw where a destruction was to go on
    callbacks,    \* the calls of each write's callback, in order
    sent,         \* the writes given to the WebSocket, in order
    pushed,       \* how many chunks were pushed to the reader
    ends          \* how often push(null) ended the reader's stream

stream == <<connecting, readable, writable, destroyed>>
timers == <<flushTimer, timeoutTimer, timeoutSet>>
writes == <<written, pending, callbacks, sent>>
life == <<ended, finished, doomed>>
turn == <<opening, calling>>
faults == <<threw, abandoned>>
reader == <<pushed, ends>>
socketVars == <<ws, stream, timers, writes, life, turn, faults, reader>>

Write == 1 .. MaxWrites

(* A destroyed socket leaves no WebSocket behind, not even one that was    *)
(* still connecting, and no timer, unless connect() or setTimeout() is     *)
(* called once more or a callback throws.                                  *)
DestroyReleases ==
    destroyed =>
        /\ ~flushTimer /\ pending = 0
        /\ ~abandoned => ws \notin {"connecting", "open"} /\ ~timeoutTimer

\* Every variable keeps to its range, a timer implies a reason to have it, and a
\* destroyed socket holds nothing.
SocketTypeOK ==
    /\ ws \in {"none", "connecting", "open", "closing", "closed"}
    /\ stream \in [1 .. 4 -> BOOLEAN]
    /\ timers \in [1 .. 3 -> BOOLEAN]
    /\ life \in [1 .. 3 -> BOOLEAN]
    /\ written \in 0 .. MaxWrites /\ pending \in {0, written}
    /\ opening \in BOOLEAN /\ calling \in 0 .. written
    /\ threw \subseteq Write /\ abandoned \in BOOLEAN
    /\ callbacks \in [Write -> Seq({"ok", "error"})]
    /\ sent \in Seq(Write)
    /\ pushed \in 0 .. MaxReads /\ ends \in Nat
    /\ timeoutTimer => timeoutSet
    /\ DestroyReleases

SocketInit ==
    /\ ws = "none"
    /\ connecting = FALSE /\ readable = FALSE /\ writable = FALSE /\ destroyed = FALSE
    /\ written = 0 /\ pending = 0
    /\ callbacks = [w \in Write |-> <<>>] /\ sent = <<>>
    /\ flushTimer = FALSE /\ timeoutTimer = FALSE /\ timeoutSet = FALSE
    /\ ended = FALSE /\ finished = FALSE /\ doomed = FALSE
    /\ opening = FALSE /\ calling = 0 /\ threw = {} /\ abandoned = FALSE
    /\ pushed = 0 /\ ends = 0

\* No handler is in the middle of its calls.
Idle == ~opening /\ calling = 0

Called(w, result) == [callbacks EXCEPT ![w] = Append(@, result)]

\* destroy() and _destroy up to the WebSocket, when p is the pending write and
\* `calls' were made.
Destroy(p, calls) ==
    /\ destroyed' = TRUE /\ doomed' = FALSE
    /\ connecting' = FALSE /\ readable' = FALSE /\ writable' = FALSE
    /\ flushTimer' = FALSE /\ timeoutTimer' = FALSE
    /\ pending' = 0
    /\ callbacks' = IF p = 0 THEN calls ELSE [calls EXCEPT ![p] = Append(@, "error")]

CloseIfOpen == ws' = IF ws = "open" THEN "closing" ELSE ws

CloseWebSocket == ws' = IF ws \in {"connecting", "open"} THEN "closing" ELSE ws

\* The rest of _destroy, which the pending write's callback prevents if it throws.
Release ==
    \/ CloseWebSocket /\ UNCHANGED abandoned
    \/ pending # 0 /\ abandoned' = TRUE /\ UNCHANGED ws

\* _touchTimeout: the timeout starts again, if one was set.
Touch == timeoutTimer' = timeoutSet

\* The write's callback gets an error, which autoDestroy follows up, unless the
\* callback throws.
Reject(w) ==
    /\ pending' = 0
    /\ callbacks' = Called(w, "error")
    /\ \/ doomed' = (doomed \/ AutoDestroy) /\ UNCHANGED abandoned
       \/ abandoned' = TRUE /\ UNCHANGED doomed
    /\ UNCHANGED <<ws, stream, timeoutTimer, sent, calling, threw>>

\* The catch of _flushWrite calls write w back with an error and destroys the
\* socket, unless that callback throws on the spot.
Fail(w, armed, onTheSpot) ==
    /\ \/ Destroy(0, Called(w, "error")) /\ CloseWebSocket /\ UNCHANGED abandoned
       \/ /\ onTheSpot
          /\ pending' = 0 /\ callbacks' = Called(w, "error")
          /\ flushTimer' = armed /\ abandoned' = TRUE
          /\ UNCHANGED <<ws, stream, timeoutTimer, doomed>>
    /\ UNCHANGED sent

\* The four ways through _flushWrite with write w, when the poll timer is armed or
\* not: wait for the connection or for the WebSocket's buffer, send, throw in
\* ws.send, find the WebSocket closed.  `caller' is w if w is called back on the
\* spot.
PostponeUnpolled(w, armed) ==
    /\ connecting \/ ws = "open"
    /\ pending' = w /\ flushTimer' = armed
    /\ UNCHANGED <<ws, stream, timeoutTimer, callbacks, sent, doomed, calling, faults>>

Postpone(w, armed) ==
    /\ connecting \/ ws = "open"
    /\ pending' = w /\ flushTimer' = TRUE
    /\ UNCHANGED <<ws, stream, timeoutTimer, callbacks, sent, doomed, calling, faults>>

Send(w, armed, caller) ==
    /\ ws = "open"
    /\ sent' = Append(sent, w) /\ callbacks' = Called(w, "ok")
    /\ pending' = 0 /\ flushTimer' = armed /\ Touch
    /\ calling' = caller
    /\ UNCHANGED <<ws, stream, doomed, faults>>

\* Calling back before the pending write is forgotten.
SendThrowsPending(w, armed, caller) ==
    /\ ws = "open" /\ Destroy(w, Called(w, "error")) /\ CloseWebSocket
    /\ UNCHANGED <<sent, calling, faults>>

SendThrows(w, armed, caller) ==
    /\ ws = "open"
    /\ Fail(w, armed, caller = w)
    /\ UNCHANGED <<calling, threw>>

FindClosed(w, armed) ==
    /\ ws # "open" /\ ~connecting
    /\ flushTimer' = armed
    /\ Reject(w)

Flush(w, armed, caller) ==
    \/ Postpone(w, armed)
    \/ Send(w, armed, caller)
    \/ SendThrows(w, armed, caller)
    \/ FindClosed(w, armed)

-----------------------------------------------------------------------------
\* connect() with an invalid port, whatever the socket's state.
ConnectInvalid ==
    /\ doomed' = (doomed \/ ~destroyed)
    /\ UNCHANGED <<ws, stream, timers, writes, ended, finished, turn, faults, reader>>

\* connect(), also on a destroyed socket: it opens a WebSocket, or the constructor
\* throws; a second call returns at once.
Connect ==
    /\ ws = "none" /\ ~connecting
    /\ connecting' = TRUE /\ writable' = TRUE
    /\ \/ ws' = "connecting" /\ UNCHANGED doomed
       \/ doomed' = (doomed \/ ~destroyed) /\ UNCHANGED ws
    /\ abandoned' = (abandoned \/ destroyed)
    /\ UNCHANGED <<readable, destroyed, timers, writes, ended, finished, turn,
                   threw, reader>>

\* _write, called by the stream once the previous write was called back; a write
\* over 8 MiB is refused at once.
WriteNext ==
    /\ written < MaxWrites /\ ~finished /\ ~destroyed
    /\ written > 0 => callbacks[written] = <<"ok">>
    /\ written' = written + 1
    /\ \/ /\ connecting \/ readable \/ writable
          /\ Flush(written', flushTimer, calling)
       \/ Reject(written') /\ UNCHANGED flushTimer
    /\ UNCHANGED <<timeoutSet, ended, finished, opening, reader>>

\* The poll timer, which _scheduleFlush armed.
Poll ==
    /\ Idle /\ flushTimer
    /\ IF pending = 0
       THEN /\ flushTimer' = FALSE
            /\ UNCHANGED <<ws, stream, timeoutTimer, pending, callbacks, sent, doomed,
                           calling, faults>>
       ELSE Flush(pending, FALSE, pending)
    /\ UNCHANGED <<written, timeoutSet, ended, finished, opening, reader>>

\* The callback that a flush ran returns, and the flush with it ...
CallbackReturns ==
    /\ calling # 0 /\ calling' = 0
    /\ UNCHANGED <<ws, stream, timers, writes, life, opening, faults, reader>>

\* ... or it throws, after the bytes were sent, into the catch that is there for
\* ws.send.  The library has one callback for all writes: it takes the error for
\* one that was made meanwhile and is pending, else for the write itself.
CallbackThrows ==
    /\ calling # 0 /\ calling' = 0
    /\ LET w == IF pending = 0 THEN calling ELSE pending IN
       IF destroyed
       THEN /\ callbacks' = Called(w, "error")
            /\ UNCHANGED <<ws, stream, flushTimer, timeoutTimer, pending, sent, doomed,
                           abandoned>>
       ELSE Fail(w, flushTimer, pending # 0)
    /\ threw' = IF pending = 0 THEN threw \cup {calling} ELSE threw
    /\ UNCHANGED <<written, timeoutSet, ended, finished, opening, reader>>

\* setTimeout(), also on a destroyed socket.
SetTimeout ==
    /\ \E on \in BOOLEAN :
          /\ timeoutSet' = on /\ timeoutTimer' = on
          /\ abandoned' = (abandoned \/ (destroyed /\ on))
    /\ UNCHANGED <<ws, stream, flushTimer, writes, life, turn, threw, reader>>

\* The 'timeout' event, on which the socket's user may do as it likes.
Timeout ==
    /\ Idle /\ timeoutTimer
    /\ timeoutTimer' = FALSE
    /\ UNCHANGED <<ws, stream, flushTimer, timeoutSet, writes, life, turn, faults, reader>>

End ==
    /\ ~ended
    /\ ended' = TRUE
    /\ UNCHANGED <<ws, stream, timers, writes, finished, doomed, turn, faults, reader>>

\* Leaving the WebSocket to whoever destroys the socket.
FinalLeavesOpen ==
    /\ ended /\ ~finished /\ ~destroyed
    /\ written > 0 => callbacks[written] = <<"ok">>
    /\ finished' = TRUE
    /\ doomed' = (doomed \/ (AutoDestroy /\ ~readable))
    /\ UNCHANGED <<ws, stream, timers, writes, ended, turn, faults, reader>>

\* _final: only an open WebSocket is closed.
Final ==
    /\ ended /\ ~finished /\ ~destroyed
    /\ written > 0 => callbacks[written] = <<"ok">>
    /\ finished' = TRUE
    /\ ws' = IF ws = "open" THEN "closing" ELSE ws
    /\ doomed' = (doomed \/ (AutoDestroy /\ ~readable))
    /\ UNCHANGED <<stream, timers, writes, ended, turn, faults, reader>>

\* destroy() by the user, by destroySoon(), by a message that is text, or in the
\* next tick.
DestroyNow ==
    /\ ~destroyed
    /\ Destroy(pending, callbacks) /\ Release
    /\ UNCHANGED <<written, sent, timeoutSet, ended, finished, turn, threw, reader>>

NextTick == Idle /\ doomed /\ DestroyNow

-----------------------------------------------------------------------------
(* The WebSocket's events.                                                 *)
\* The open event runs the `connect' listeners; of a destroyed socket it does
\* nothing, and nobody closes the WebSocket.
Opened ==
    /\ Idle /\ ws = "connecting"
    /\ ws' = "open"
    /\ IF destroyed
       THEN UNCHANGED <<connecting, readable, writable, timeoutTimer, opening>>
       ELSE /\ connecting' = FALSE /\ readable' = TRUE /\ writable' = TRUE
            /\ Touch /\ opening' = TRUE
    /\ UNCHANGED <<destroyed, flushTimer, timeoutSet, writes, life, calling, faults,
                   reader>>

\* Then it flushes a write that waited; a listener that throws leaves that to the
\* poll timer.
OpenFlush ==
    /\ opening /\ opening' = FALSE
    /\ \/ UNCHANGED <<ws, stream, flushTimer, timeoutTimer, pending, callbacks, sent,
                      doomed, calling, faults>>
       \/ pending # 0 /\ Flush(pending, flushTimer, pending)
    /\ UNCHANGED <<written, timeoutSet, ended, finished, reader>>

Message ==
    /\ Idle /\ ws = "open" /\ ~destroyed /\ pushed < MaxReads
    /\ pushed' = pushed + 1 /\ Touch
    /\ UNCHANGED <<ws, stream, flushTimer, timeoutSet, writes, life, turn, faults, ends>>

\* The gateway starts to close; the close event is still to come.
PeerCloses ==
    /\ Idle /\ ws = "open"
    /\ ws' = "closing"
    /\ UNCHANGED <<stream, timers, writes, life, turn, faults, reader>>

\* The WebSocket fails, which destroys the socket; its close event follows.
Error ==
    /\ Idle /\ ws \in {"connecting", "open", "closing"} /\ ws' = "closing"
    /\ IF destroyed THEN UNCHANGED <<stream, flushTimer, timeoutTimer, pending, callbacks, doomed>>
                    ELSE Destroy(pending, callbacks)
    /\ UNCHANGED <<written, sent, timeoutSet, ended, finished, turn, faults, reader>>

\* The close event ends the reader's stream, then destroys the socket; after a
\* destroy there is nothing left to do.
Closed ==
    /\ Idle /\ ws = "closing" /\ ws' = "closed"
    /\ ends' = ends + (IF readable THEN 1 ELSE 0)
    /\ IF destroyed
       THEN /\ connecting' = FALSE /\ readable' = FALSE /\ writable' = FALSE
            /\ UNCHANGED <<destroyed, flushTimer, timeoutTimer, pending, callbacks, doomed>>
       ELSE Destroy(pending, callbacks)
    /\ UNCHANGED <<written, sent, timeoutSet, ended, finished, turn, faults, pushed>>

EndTurn == CallbackReturns \/ CallbackThrows \/ OpenFlush

SocketNext ==
    \/ ConnectInvalid \/ Connect \/ WriteNext \/ Poll \/ EndTurn
    \/ SetTimeout \/ Timeout \/ End \/ Final \/ DestroyNow
    \/ Opened \/ Message \/ PeerCloses \/ Error \/ Closed

SocketSpec == SocketInit /\ [][SocketNext]_socketVars

\* Timers and ticks come, a handler returns, a connection comes up or fails, a
\* close is heard, and a WebSocket that stays open drains its buffer.
SocketFairness ==
    /\ WF_socketVars(NextTick) /\ WF_socketVars(Poll) /\ WF_socketVars(EndTurn)
    /\ WF_socketVars(Final) /\ WF_socketVars(Closed)
    /\ WF_socketVars(ws = "connecting" /\ (Opened \/ Error))
    /\ SF_socketVars(Poll /\ pending' = 0)

SocketFairSpec == SocketSpec /\ SocketFairness

-----------------------------------------------------------------------------
(* Every write is called back exactly once: by the flush, by a destroy     *)
(* that finds it pending, or at once; never twice, though ws.send may      *)
(* throw, which both calls back and destroys.  Only the write whose own    *)
(* callback threw may be called back again, with an error.                 *)
CalledBackOnce ==
    \A w \in Write :
        callbacks[w] \in
            IF w > written \/ w = pending THEN {<<>>}
            ELSE {<<"ok">>, <<"error">>}
                 \cup (IF w \in threw THEN {<<"ok", "error">>} ELSE {})

(* The first call says what happened: the writes that succeeded are those  *)
(* the WebSocket got, each once and in the order they were made.           *)
OkMeansSent ==
    /\ \A w \in Write :
          callbacks[w] \in {<<"ok">>, <<"ok", "error">>} <=> \E k \in DOMAIN sent : sent[k] = w
    /\ \A k \in 1 .. Len(sent) - 1 : sent[k] < sent[k + 1]

(* The callbacks a writer gets are one each, and true, unless it throws.   *)
CallbacksAreTrue == CalledBackOnce /\ OkMeansSent

(* What the plan of the transport says of an error: it is the answer to a  *)
(* write that was not sent.  The code calls a write that was sent back with*)
(* one.                                                                    *)
ErrorMeansUnsent ==
    \A k \in DOMAIN sent : callbacks[sent[k]] = <<"ok">>

(* A write does not stay pending, whatever the WebSocket does.             *)
WriteSettles == pending # 0 ~> pending = 0

(* A socket that was ended closes its WebSocket, even if end() came while  *)
(* it was connecting: _final leaves that WebSocket alone, and it is        *)
(* closed only because autoDestroy follows.                                *)
EndReleases == ended /\ ws \in {"connecting", "open"} ~> ws = "closed" \/ abandoned
=============================================================================
