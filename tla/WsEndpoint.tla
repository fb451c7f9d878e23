----------------------------- MODULE WsEndpoint -----------------------------
(***************************************************************************)
(* The WebSocket frame endpoint of a service (src/src/ducknng_ws_frame.c): *)
(* an accept thread, one thread per connection, and the stop that joins    *)
(* them all.  HttpServer.tla composes it with the HTTP server, which owns  *)
(* it, and answers the frames its connections dispatch.                    *)
(*                                                                         *)
(* Each step is one critical section of ep->mu or one blocking call.  The  *)
(* listener and the streams are NNG's.                                     *)
(***************************************************************************)
EXTENDS Naturals, Sequences, FiniteSets, SequencesExt

CONSTANTS
    WsConns,    \* connections that WebSocket clients may open
    WsFrames    \* how many frames each of them may send

ASSUME WsAssumption == WsFrames \in Nat

VARIABLES
    ep,     \* [state, stopping, listener, aio, conns]: the endpoint
    acc,    \* [pc, w, dead]: the accept thread, its stream, what it reaps
    wc,     \* [WsConns -> [pc, stream, started, finished, frames]]
    wstop   \* [pc, left]: ws_frame_endpoint_stop, and the list it took

wsVars == <<ep, acc, wc, wstop>>

NoConn == "none"

WsInit ==
    /\ ep = [state |-> "none", stopping |-> FALSE, listener |-> "closed",
             aio |-> FALSE, conns |-> <<>>]
    /\ acc = [pc |-> "none", w |-> NoConn, dead |-> <<>>]
    /\ wc = [w \in WsConns |-> [pc |-> "none", stream |-> "none",
                started |-> FALSE, finished |-> FALSE, frames |-> 0]]
    /\ wstop = [pc |-> "no", left |-> <<>>]

-----------------------------------------------------------------------------
(* ws_frame_endpoint_start: run by the thread that starts the HTTP server. *)

WsStart ==
    /\ ep.state = "none"
    /\ ep' = [ep EXCEPT !.state = "up", !.listener = "open", !.aio = TRUE]
    /\ acc' = [acc EXCEPT !.pc = "check"]
    /\ UNCHANGED <<wc, wstop>>

-----------------------------------------------------------------------------
(* ws_accept_thread.                                                       *)

AccCheck ==
    /\ acc.pc = "check"
    /\ acc' = [acc EXCEPT !.pc = IF ep.stopping THEN "returned" ELSE "reap"]
    /\ UNCHANGED <<ep, wc, wstop>>

\* ws_reap_finished: unlink what has finished under the lock, then free it.
WsReapFinished ==
    /\ acc.pc = "reap"
    /\ acc' = [acc EXCEPT !.pc = "free",
                          !.dead = SelectSeq(ep.conns, LAMBDA w : wc[w].finished)]
    /\ ep' = [ep EXCEPT !.conns = SelectSeq(@, LAMBDA w : ~wc[w].finished)]
    /\ UNCHANGED <<wc, wstop>>

\* The thread of w can be joined.
Joined(w) == wc[w].started => wc[w].pc = "returned"

\* ws_conn_free: join the thread if one was started, free the stream.
WsConnFree(w) == [wc EXCEPT ![w].stream = "freed", ![w].pc = "freed"]

AccFreeDead ==
    /\ acc.pc = "free"
    /\ IF acc.dead = <<>>
         THEN acc' = [acc EXCEPT !.pc = "accept"] /\ UNCHANGED wc
         ELSE /\ Joined(Head(acc.dead))
              /\ wc' = WsConnFree(Head(acc.dead))
              /\ acc' = [acc EXCEPT !.dead = Tail(@)]
    /\ UNCHANGED <<ep, wstop>>

\* A client connected.
AccAccepts(w) ==
    /\ acc.pc = "accept" /\ ep.listener = "open" /\ ep.aio
    /\ wc[w].stream = "none"
    /\ wc' = [wc EXCEPT ![w].stream = "open"]
    /\ acc' = [acc EXCEPT !.pc = "recheck", !.w = w]
    /\ UNCHANGED <<ep, wstop>>

\* The accept was stopped.
AccStopped ==
    /\ acc.pc = "accept" /\ ~ep.aio
    /\ acc' = [acc EXCEPT !.pc = "returned"]
    /\ UNCHANGED <<ep, wc, wstop>>

\* Any other error also ends the thread, and with it the endpoint's
\* accepting: the code has no way back into the loop.
AccAcceptFails ==
    /\ acc.pc = "accept" /\ ep.aio
    /\ acc' = [acc EXCEPT !.pc = "returned"]
    /\ UNCHANGED <<ep, wc, wstop>>

\* Stopping was seen after the accept: the stream is dropped here.
AccRecheck ==
    /\ acc.pc = "recheck"
    /\ IF ep.stopping
         THEN /\ wc' = WsConnFree(acc.w)
              /\ acc' = [acc EXCEPT !.pc = "returned", !.w = NoConn]
         ELSE acc' = [acc EXCEPT !.pc = "publish"] /\ UNCHANGED wc
    /\ UNCHANGED <<ep, wstop>>

\* malloc fails: the connection is dropped and the thread goes on.
AccDrops ==
    /\ acc.pc = "publish"
    /\ wc' = WsConnFree(acc.w)
    /\ acc' = [acc EXCEPT !.pc = "check", !.w = NoConn]
    /\ UNCHANGED <<ep, wstop>>

AccPublish ==
    /\ acc.pc = "publish"
    /\ ep' = [ep EXCEPT !.conns = <<acc.w>> \o @]
    /\ acc' = [acc EXCEPT !.pc = "create"]
    /\ UNCHANGED <<wc, wstop>>

AccCreate ==
    /\ acc.pc = "create"
    /\ wc' = [wc EXCEPT ![acc.w].pc = "check"]
    /\ acc' = [acc EXCEPT !.pc = "mark"]
    /\ UNCHANGED <<ep, wstop>>

AccCreateFails ==
    /\ acc.pc = "create"
    /\ ep' = [ep EXCEPT !.conns = SelectSeq(@, LAMBDA w : w # acc.w)]
    /\ wc' = WsConnFree(acc.w)
    /\ acc' = [acc EXCEPT !.pc = "check", !.w = NoConn]
    /\ UNCHANGED wstop

\* conn->thread_started = 1, outside the lock.
AccMark ==
    /\ acc.pc = "mark"
    /\ wc' = [wc EXCEPT ![acc.w].started = TRUE]
    /\ acc' = [acc EXCEPT !.pc = "check", !.w = NoConn]
    /\ UNCHANGED <<ep, wstop>>

\* What the accept thread does by itself, whatever clients do.
AcceptThread ==
    \/ AccCheck \/ WsReapFinished \/ AccFreeDead \/ AccStopped
    \/ AccRecheck \/ AccDrops \/ AccPublish \/ AccCreate \/ AccCreateFails
    \/ AccMark

-----------------------------------------------------------------------------
(* ws_conn_thread.                                                         *)

Goto(w, pc) == wc' = [wc EXCEPT ![w].pc = pc]

ConnCheck(w) ==
    /\ wc[w].pc = "check"
    /\ Goto(w, IF ep.stopping THEN "close" ELSE "recv")
    /\ UNCHANGED <<ep, acc, wstop>>

\* A frame arrived; HttpServer takes it through the service.
ConnReceives(w) ==
    /\ wc[w].pc = "recv" /\ wc[w].stream = "open" /\ wc[w].frames < WsFrames
    /\ wc' = [wc EXCEPT ![w].pc = "dispatch", ![w].frames = @ + 1]
    /\ UNCHANGED <<ep, acc, wstop>>

\* The stop closed the stream.
ConnClosed(w) ==
    /\ wc[w].pc \in {"recv", "send"} /\ wc[w].stream = "closed"
    /\ Goto(w, "close")
    /\ UNCHANGED <<ep, acc, wstop>>

\* The peer went away.
ConnEnds(w) ==
    /\ wc[w].pc \in {"recv", "send"} /\ wc[w].stream = "open"
    /\ Goto(w, "close")
    /\ UNCHANGED <<ep, acc, wstop>>

\* The reply was sent, or, when the service gave none, an error frame.
ConnSends(w) ==
    /\ wc[w].pc = "send" /\ wc[w].stream = "open"
    /\ Goto(w, "check")
    /\ UNCHANGED <<ep, acc, wstop>>

ConnClose(w) ==
    /\ wc[w].pc = "close"
    /\ wc' = [wc EXCEPT ![w].pc = "finish", ![w].stream = "closed"]
    /\ UNCHANGED <<ep, acc, wstop>>

ConnFinish(w) ==
    /\ wc[w].pc = "finish"
    /\ wc' = [wc EXCEPT ![w].pc = "returned", ![w].finished = TRUE]
    /\ UNCHANGED <<ep, acc, wstop>>

\* What the thread does by itself, and what its peer makes it do.
ConnThread(w) ==
    ConnCheck(w) \/ ConnClosed(w) \/ ConnClose(w) \/ ConnFinish(w)
ConnPeer(w) == ConnReceives(w) \/ ConnEnds(w) \/ ConnSends(w)

-----------------------------------------------------------------------------
(* ws_frame_endpoint_stop: run by the thread that stops the HTTP server.   *)

StopWs(pc) == wstop' = [wstop EXCEPT !.pc = pc]

\* Without an endpoint there is nothing to stop.
WsStopBegin ==
    /\ wstop.pc = "no"
    /\ IF ep.state = "none"
         THEN StopWs("done") /\ UNCHANGED ep
         ELSE StopWs("listener") /\ ep' = [ep EXCEPT !.stopping = TRUE]
    /\ UNCHANGED <<acc, wc>>

\* Mutant: only the listener is closed, which leaves a queued accept waiting.
WsStopListenerOnly ==
    /\ wstop.pc = "listener"
    /\ ep' = [ep EXCEPT !.listener = "closed"]
    /\ StopWs("join")
    /\ UNCHANGED <<acc, wc>>

WsStopListener ==
    /\ wstop.pc = "listener"
    /\ ep' = [ep EXCEPT !.listener = "closed", !.aio = FALSE]
    /\ StopWs("join")
    /\ UNCHANGED <<acc, wc>>

\* Join the accept thread, then take the list.
WsStopJoin ==
    /\ wstop.pc = "join" /\ acc.pc = "returned"
    /\ wstop' = [pc |-> "close", left |-> ep.conns]
    /\ ep' = [ep EXCEPT !.conns = <<>>]
    /\ UNCHANGED <<acc, wc>>

\* Unblock the connection's thread ...
WsStopClose ==
    /\ wstop.pc = "close" /\ wstop.left # <<>>
    /\ LET w == Head(wstop.left)
       IN  wc' = [wc EXCEPT ![w].stream = IF @ = "open" THEN "closed" ELSE @]
    /\ StopWs("free")
    /\ UNCHANGED <<ep, acc>>

\* ... then join it and free the connection.
WsStopFree ==
    /\ wstop.pc = "free" /\ Joined(Head(wstop.left))
    /\ wc' = WsConnFree(Head(wstop.left))
    /\ wstop' = [pc |-> "close", left |-> Tail(wstop.left)]
    /\ UNCHANGED <<ep, acc>>

WsStopEnd ==
    /\ wstop.pc = "close" /\ wstop.left = <<>>
    /\ StopWs("done")
    /\ ep' = [ep EXCEPT !.state = "freed"]
    /\ UNCHANGED <<acc, wc>>

WsStop ==
    \/ WsStopListener \/ WsStopJoin \/ WsStopClose \/ WsStopFree \/ WsStopEnd

-----------------------------------------------------------------------------
\* A thread of the endpoint that has not returned.
WsRunning(w) == wc[w].pc \notin {"none", "returned", "freed"}

\* Threads of the endpoint run only while the endpoint is allocated, a running
\* connection's stream has not been freed, and once the endpoint is gone every
\* stream it accepted has been freed (ws_frame_endpoint_stop).
WsOwned ==
    /\ ep.state = "freed" =>
         /\ acc.pc = "returned"
         /\ \A w \in WsConns : wc[w].stream \in {"none", "freed"}
    /\ \A w \in WsConns : WsRunning(w) => wc[w].stream # "freed"
    /\ \A w \in WsConns : wc[w].stream = "freed" => wc[w].pc = "freed"

=============================================================================
