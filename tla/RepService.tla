----------------------------- MODULE RepService ------------------------------
(***************************************************************************)
(* The NNG side of a service (ducknng_service.c): the REP contexts with    *)
(* their worker threads and aio callbacks, the request gate (admission,    *)
(* in-flight and reply-byte accounting, authorization), start with its     *)
(* failure path, and the ordered teardown of stop.                         *)
(*                                                                         *)
(* The transport is external.  A client's REQ socket resends a request     *)
(* whose connection broke, so the server may receive several copies of it; *)
(* a context answers the copy it received last; an operation ends with a   *)
(* message, with the 30 s timeout of the context's aio, or by cancellation.*)
(* Closing the listener closes its connections.                            *)
(*                                                                         *)
(* Abstracted: payloads, what a method does (SessionTable, ExecutionPool), *)
(* and the size of a reply, which is one unit.                             *)
(***************************************************************************)
EXTENDS Naturals, FiniteSets

CONSTANTS
    NContexts,      \* svc->ncontexts
    Reqs,           \* calls of clients
    Peers,          \* verified identities
    Peer,           \* the identity behind a call, None without mTLS
    MaxSends,       \* bound on the copies of each call
    LimitSettings,  \* settings of ducknng_set_service_limits; 0 is no limit
    None

Ctxs == 1 .. NContexts
Copies == UNION {{r} \X (1 .. MaxSends[r]) : r \in Reqs}
MaxOf(S) == CHOOSE n \in S : \A m \in S : m <= n

ASSUME RepAssumption ==
    /\ NContexts \in Nat \ {0} /\ MaxSends \in [Reqs -> Nat]
    /\ Peer \in [Reqs -> Peers \cup {None}] /\ None \notin Peers \cup Copies
    /\ LimitSettings # {}
    /\ LimitSettings \subseteq [inflight : Nat, perPeer : Nat, bytes : Nat]
    /\ \E l \in LimitSettings : \A m \in LimitSettings : m.bytes <= l.bytes
    /\ \E l \in LimitSettings : \A m \in LimitSettings : m.perPeer <= l.perPeer

VARIABLES
    pc,             \* worker thread of a context
    aio,            \* "none", "idle", "recv", "send" or "done" (callback due)
    err,            \* nng_aio_result, then rc->last_nng_err
    aioMsg,         \* message owned by the aio: "req" or "rep" and its copy
    phase, event, stopping,     \* fields of ducknng_rep_ctx
    requestMsg,     \* rc->request_msg
    req,            \* the request in the worker's frame
    resp,           \* the reply in the worker's frame
    route,          \* the copy a context's next send answers (NNG)
    stage, next,    \* the thread that starts and stops the service; its loop
    listening, sock,            \* listener and REP socket are open
    shuttingDown, inflight, peerInflight, replyBytes, limits,   \* under svc->mu
    call,           \* of a call: "new", "waiting", "done"
    sent, runs,     \* copies sent, times dispatched
    queue           \* copies that arrived at the server

ctxVars == <<pc, aio, err, aioMsg, phase, event, stopping, requestMsg, req, resp, route>>
svcVars == <<stage, next, listening, sock, shuttingDown>>
gateVars == <<inflight, peerInflight, replyBytes, limits>>
netVars == <<call, sent, runs, queue>>
vars == <<ctxVars, svcVars, gateVars, netVars>>

Init ==
    /\ pc = [c \in Ctxs |-> "none"] /\ aio = [c \in Ctxs |-> "none"]
    /\ err = [c \in Ctxs |-> "ok"] /\ aioMsg = [c \in Ctxs |-> None]
    /\ phase = [c \in Ctxs |-> "recv"] /\ event = [c \in Ctxs |-> "none"]
    /\ stopping = [c \in Ctxs |-> FALSE]
    /\ requestMsg = [c \in Ctxs |-> None] /\ req = [c \in Ctxs |-> None]
    /\ resp = [c \in Ctxs |-> "none"] /\ route = [c \in Ctxs |-> None]
    /\ stage = "starting" /\ next = 1
    /\ listening = TRUE /\ sock = TRUE /\ shuttingDown = FALSE
    /\ inflight = 0 /\ peerInflight = [p \in Peers |-> 0]
    /\ replyBytes = [p \in Peers |-> 0] /\ limits \in LimitSettings
    /\ call = [r \in Reqs |-> "new"] /\ sent = [r \in Reqs |-> 0]
    /\ runs = [r \in Reqs |-> 0] /\ queue = {}

Goto(c, l) == pc' = [pc EXCEPT ![c] = l]

-----------------------------------------------------------------------------
(* Clients and the transport                                                 *)

Send(r) ==
    /\ listening /\ sent[r] < MaxSends[r]
    /\ call[r] \in {"new", "waiting"}
    /\ call' = [call EXCEPT ![r] = "waiting"]
    /\ sent' = [sent EXCEPT ![r] = @ + 1]
    /\ queue' = queue \cup {<<r, sent[r] + 1>>}
    /\ UNCHANGED <<ctxVars, svcVars, gateVars, runs>>

RecvDone(c) ==
    /\ aio[c] = "recv"
    /\ \E m \in queue :
        /\ queue' = queue \ {m}
        /\ aioMsg' = [aioMsg EXCEPT ![c] = <<"req", m>>]
        /\ route' = [route EXCEPT ![c] = m]
    /\ aio' = [aio EXCEPT ![c] = "done"]
    /\ err' = [err EXCEPT ![c] = "ok"]
    /\ UNCHANGED <<pc, phase, event, stopping, requestMsg, req, resp, svcVars, gateVars,
                   call, sent, runs>>

\* NNG takes the reply; it reaches the client unless its connection is gone.
SendDone(c) ==
    /\ aio[c] = "send"
    /\ \E ok \in {TRUE, FALSE} :
        LET r == aioMsg[c][2][1] IN
        /\ ok => listening
        /\ call' = IF ok /\ call[r] = "waiting" THEN [call EXCEPT ![r] = "done"] ELSE call
    /\ aioMsg' = [aioMsg EXCEPT ![c] = None]
    /\ aio' = [aio EXCEPT ![c] = "done"]
    /\ err' = [err EXCEPT ![c] = "ok"]
    /\ UNCHANGED <<pc, phase, event, stopping, requestMsg, req, resp, route, svcVars, gateVars,
                   sent, runs, queue>>

\* The aio's timeout expires.  A failed send leaves its message in the aio.
Timeout(c) ==
    /\ aio[c] \in {"recv", "send"}
    /\ aio' = [aio EXCEPT ![c] = "done"]
    /\ err' = [err EXCEPT ![c] = "failed"]
    /\ UNCHANGED <<pc, aioMsg, phase, event, stopping, requestMsg, req, resp, route, svcVars,
                   gateVars, netVars>>

-----------------------------------------------------------------------------
(* ducknng_rep_aio_cb, on a thread of NNG                                    *)

\* Mutant: a failed send does not become an event.
CallbackDropsSendError(c) ==
    /\ aio[c] = "done"
    /\ aio' = [aio EXCEPT ![c] = "idle"]
    /\ IF stopping[c] \/ (err[c] # "ok" /\ phase[c] = "send") THEN UNCHANGED <<event, aioMsg, requestMsg>>
       ELSE /\ aioMsg' = [aioMsg EXCEPT ![c] = None]
            /\ event' = [event EXCEPT ![c] = IF err[c] # "ok" THEN "error"
                                             ELSE IF phase[c] = "recv" THEN "ready" ELSE "sent"]
            /\ requestMsg' = IF err[c] = "ok" /\ phase[c] = "recv"
                             THEN [requestMsg EXCEPT ![c] = aioMsg[c][2]] ELSE requestMsg
    /\ UNCHANGED <<pc, err, phase, stopping, req, resp, route, svcVars, gateVars, netVars>>

\* With stopping set the callback leaves everything to the teardown.
Callback(c) ==
    /\ aio[c] = "done"
    /\ aio' = [aio EXCEPT ![c] = "idle"]
    /\ IF stopping[c] THEN UNCHANGED <<event, aioMsg, requestMsg>>
       ELSE /\ aioMsg' = [aioMsg EXCEPT ![c] = None]
            /\ event' = [event EXCEPT ![c] = IF err[c] # "ok" THEN "error"
                                             ELSE IF phase[c] = "recv" THEN "ready" ELSE "sent"]
            /\ requestMsg' = IF err[c] = "ok" /\ phase[c] = "recv"
                             THEN [requestMsg EXCEPT ![c] = aioMsg[c][2]] ELSE requestMsg
    /\ UNCHANGED <<pc, err, phase, stopping, req, resp, route, svcVars, gateVars, netVars>>

-----------------------------------------------------------------------------
(* ducknng_rep_worker_main and ducknng_handle_request                        *)

Rearm(c) ==
    /\ pc[c] = "rearm"
    /\ phase' = [phase EXCEPT ![c] = "recv"]
    /\ aio' = [aio EXCEPT ![c] = IF sock THEN "recv" ELSE "done"]
    /\ err' = [err EXCEPT ![c] = IF sock THEN @ ELSE "closed"]
    /\ Goto(c, "wait")
    /\ UNCHANGED <<aioMsg, event, stopping, requestMsg, req, resp, route, svcVars, gateVars, netVars>>

\* Mutant: the worker starts its next operation before it looks at stopping.
WakeIgnoresStop(c) ==
    /\ pc[c] = "wait"
    /\ event[c] # "none" \/ stopping[c]
    /\ Goto(c, CASE event[c] = "ready" -> "begin" [] OTHER -> "rearm")
    /\ event' = [event EXCEPT ![c] = "none"]
    /\ err' = [err EXCEPT ![c] = "ok"]
    /\ req' = [req EXCEPT ![c] = requestMsg[c]]
    /\ requestMsg' = [requestMsg EXCEPT ![c] = None]
    /\ UNCHANGED <<aio, aioMsg, phase, stopping, resp, route, svcVars, gateVars, netVars>>

\* The worker takes event and request.  A request it takes while stopping
\* is set stays in its frame.
Wake(c) ==
    /\ pc[c] = "wait"
    /\ event[c] # "none" \/ stopping[c]
    /\ Goto(c, CASE stopping[c] -> "exited"
                 [] ~stopping[c] /\ event[c] = "error" ->
                        IF err[c] = "closed" THEN "exited" ELSE "rearm"
                 [] ~stopping[c] /\ event[c] = "ready" -> "begin"
                 [] OTHER -> "rearm")
    /\ event' = [event EXCEPT ![c] = "none"]
    /\ err' = [err EXCEPT ![c] = "ok"]
    /\ req' = [req EXCEPT ![c] = requestMsg[c]]
    /\ requestMsg' = [requestMsg EXCEPT ![c] = None]
    /\ UNCHANGED <<aio, aioMsg, phase, stopping, resp, route, svcVars, gateVars, netVars>>

PeerOf(c) == Peer[req[c][1]]

\* Mutant: the in-flight limits are compared with > instead of >=.
BusyOff(c) ==
    LET p == PeerOf(c) IN
    \/ shuttingDown
    \/ limits.inflight > 0 /\ inflight > limits.inflight
    \/ /\ p # None
       /\ \/ limits.perPeer > 0 /\ peerInflight[p] > limits.perPeer
          \/ limits.bytes > 0 /\ replyBytes[p] >= limits.bytes

\* The reasons of ducknng_service_begin_request to refuse.
Busy(c) ==
    LET p == PeerOf(c) IN
    \/ shuttingDown
    \/ limits.inflight > 0 /\ inflight >= limits.inflight
    \/ /\ p # None
       /\ \/ limits.perPeer > 0 /\ peerInflight[p] >= limits.perPeer
          \/ limits.bytes > 0 /\ replyBytes[p] >= limits.bytes

\* A malformed envelope, a peer or address that is not admitted and a busy
\* service are answered at once.
Begin(c) ==
    /\ pc[c] = "begin"
    /\ \/ /\ Goto(c, "send")
          /\ resp' = [resp EXCEPT ![c] = "error"]
          /\ UNCHANGED <<inflight, peerInflight>>
       \/ /\ ~Busy(c)
          /\ Goto(c, "authorize")
          /\ inflight' = inflight + 1
          /\ peerInflight' = [p \in Peers |-> peerInflight[p] + IF p = PeerOf(c) THEN 1 ELSE 0]
          /\ UNCHANGED resp
    /\ UNCHANGED <<aio, err, aioMsg, phase, event, stopping, requestMsg, req, route, svcVars,
                   replyBytes, limits, netVars>>

\* The authorizer refuses, or the method runs; a reply that cannot be
\* allocated is null.
Dispatch(c) ==
    /\ pc[c] = "authorize"
    /\ \/ resp' = [resp EXCEPT ![c] = "error"] /\ UNCHANGED runs
       \/ /\ \E x \in {"reply", "null"} : resp' = [resp EXCEPT ![c] = x]
          /\ runs' = [runs EXCEPT ![req[c][1]] = @ + 1]
    /\ Goto(c, "end")
    /\ UNCHANGED <<aio, err, aioMsg, phase, event, stopping, requestMsg, req, route, svcVars,
                   gateVars, call, sent, queue>>

\* Mutant: a refused request is not taken out of the counters.
EndSkipsRefused(c) ==
    LET p == PeerOf(c)
        size == IF resp[c] = "reply" THEN 1 ELSE 0
    IN
    /\ pc[c] = "end"
    /\ inflight' = IF resp[c] # "error" THEN inflight - 1 ELSE inflight
    /\ peerInflight' = [q \in Peers |-> peerInflight[q] - IF q = p THEN 1 ELSE 0]
    /\ replyBytes' = [q \in Peers |-> replyBytes[q] + IF q = p THEN size ELSE 0]
    /\ Goto(c, "send")
    /\ UNCHANGED <<aio, err, aioMsg, phase, event, stopping, requestMsg, req, resp, route,
                   svcVars, limits, netVars>>

\* ducknng_service_end_request; counters stop at zero.
End(c) ==
    LET p == PeerOf(c)
        size == IF resp[c] = "reply" THEN 1 ELSE 0
        Less(n) == IF n > 0 THEN n - 1 ELSE 0
    IN
    /\ pc[c] = "end"
    /\ inflight' = Less(inflight)
    /\ peerInflight' = [q \in Peers |-> IF q = p THEN Less(peerInflight[q]) ELSE peerInflight[q]]
    /\ replyBytes' = [q \in Peers |-> replyBytes[q] + IF q = p THEN size ELSE 0]
    /\ Goto(c, "send")
    /\ UNCHANGED <<aio, err, aioMsg, phase, event, stopping, requestMsg, req, resp, route,
                   svcVars, limits, netVars>>

\* The request is freed and the reply sent.  NNG fails a null message, and a
\* send on a context that received nothing.
Reply(c) ==
    LET fails == IF ~sock THEN "closed"
                 ELSE IF resp[c] = "null" \/ route[c] = None THEN "failed" ELSE "ok"
    IN
    /\ pc[c] = "send"
    /\ phase' = [phase EXCEPT ![c] = "send"]
    /\ aioMsg' = [aioMsg EXCEPT ![c] = IF resp[c] = "null" THEN None ELSE <<"rep", route[c]>>]
    /\ aio' = [aio EXCEPT ![c] = IF fails = "ok" THEN "send" ELSE "done"]
    /\ err' = [err EXCEPT ![c] = fails]
    /\ route' = [route EXCEPT ![c] = None]
    /\ req' = [req EXCEPT ![c] = None]
    /\ resp' = [resp EXCEPT ![c] = "none"]
    /\ Goto(c, "wait")
    /\ UNCHANGED <<event, stopping, requestMsg, svcVars, gateVars, netVars>>

SetLimits(l) ==
    /\ ~shuttingDown /\ limits # l
    /\ limits' = l
    /\ UNCHANGED <<ctxVars, svcVars, inflight, peerInflight, replyBytes, netVars>>

-----------------------------------------------------------------------------
(* ducknng_service_start, ducknng_service_stop, ducknng_rep_ctx_teardown     *)

\* Mutant: the loop runs one context too far.
StartContextOverruns ==
    /\ stage = "starting"
    /\ pc' = [pc EXCEPT ![next] = "rearm"]
    /\ aio' = [aio EXCEPT ![next] = "idle"]
    /\ next' = next + 1
    /\ stage' = IF next > NContexts THEN "running" ELSE "starting"
    /\ UNCHANGED <<err, aioMsg, phase, event, stopping, requestMsg, req, resp, route, listening,
                   sock, shuttingDown, gateVars, netVars>>

\* Context, aio and worker of the next context; running after the last.
StartContext ==
    /\ stage = "starting"
    /\ pc' = [pc EXCEPT ![next] = "rearm"]
    /\ aio' = [aio EXCEPT ![next] = "idle"]
    /\ next' = IF next = NContexts THEN 1 ELSE next + 1
    /\ stage' = IF next = NContexts THEN "running" ELSE "starting"
    /\ UNCHANGED <<err, aioMsg, phase, event, stopping, requestMsg, req, resp, route, listening,
                   sock, shuttingDown, gateVars, netVars>>

\* One of the steps for the next context fails: "goto fail" tears all down.
StartFails ==
    /\ stage = "starting"
    /\ \E s \in {"none", "idle"} : aio' = [aio EXCEPT ![next] = s]
    /\ stage' = "flag" /\ next' = 1
    /\ UNCHANGED <<pc, err, aioMsg, phase, event, stopping, requestMsg, req, resp, route, listening,
                   sock, shuttingDown, gateVars, netVars>>

Stop ==
    /\ stage = "running"
    /\ shuttingDown' = TRUE
    /\ stage' = "unlisten"
    /\ UNCHANGED <<ctxVars, next, listening, sock, gateVars, netVars>>

Unlisten ==
    /\ stage = "unlisten"
    /\ listening' = FALSE /\ queue' = {}
    /\ stage' = "flag"
    /\ UNCHANGED <<ctxVars, next, sock, shuttingDown, gateVars, call, sent, runs>>

\* Mutant: the worker is only woken, by the cancellation.
TeardownFlagForgets ==
    /\ stage = "flag"
    /\ stopping' = stopping
    /\ stage' = "cancel"
    /\ UNCHANGED <<pc, aio, err, aioMsg, phase, event, requestMsg, req, resp, route, next,
                   listening, sock, shuttingDown, gateVars, netVars>>

TeardownFlag ==
    /\ stage = "flag"
    /\ stopping' = [stopping EXCEPT ![next] = TRUE]
    /\ stage' = "cancel"
    /\ UNCHANGED <<pc, aio, err, aioMsg, phase, event, requestMsg, req, resp, route, next,
                   listening, sock, shuttingDown, gateVars, netVars>>

\* nng_aio_cancel ends a pending operation and does nothing otherwise.
TeardownCancel ==
    LET pending == aio[next] \in {"recv", "send"} IN
    /\ stage = "cancel"
    /\ aio' = IF pending THEN [aio EXCEPT ![next] = "done"] ELSE aio
    /\ err' = IF pending THEN [err EXCEPT ![next] = "failed"] ELSE err
    /\ stage' = "join"
    /\ UNCHANGED <<pc, aioMsg, phase, event, stopping, requestMsg, req, resp, route, next,
                   listening, sock, shuttingDown, gateVars, netVars>>

TeardownJoin ==
    /\ stage = "join" /\ pc[next] \in {"none", "exited"}
    /\ stage' = "wait"
    /\ UNCHANGED <<ctxVars, next, listening, sock, shuttingDown, gateVars, netVars>>

\* Mutant: the aio is freed without waiting for its last operation.
TeardownFreeEarly ==
    /\ stage = "wait"
    /\ aio' = [aio EXCEPT ![next] = "none"]
    /\ aioMsg' = [aioMsg EXCEPT ![next] = None]
    /\ requestMsg' = [requestMsg EXCEPT ![next] = None]
    /\ next' = IF next = NContexts THEN 1 ELSE next + 1
    /\ stage' = IF next = NContexts THEN "close" ELSE "flag"
    /\ UNCHANGED <<pc, err, phase, event, stopping, req, resp, route, listening, sock,
                   shuttingDown, gateVars, netVars>>

\* nng_aio_wait, then messages, aio and context are freed.
TeardownFree ==
    /\ stage = "wait" /\ aio[next] \in {"idle", "none"}
    /\ aio' = [aio EXCEPT ![next] = "none"]
    /\ aioMsg' = [aioMsg EXCEPT ![next] = None]
    /\ requestMsg' = [requestMsg EXCEPT ![next] = None]
    /\ next' = IF next = NContexts THEN 1 ELSE next + 1
    /\ stage' = IF next = NContexts THEN "close" ELSE "flag"
    /\ UNCHANGED <<pc, err, phase, event, stopping, req, resp, route, listening, sock,
                   shuttingDown, gateVars, netVars>>

\* The REP socket goes last (after a failed start the listener goes with it).
CloseSocket ==
    /\ stage = "close"
    /\ listening' = FALSE /\ sock' = FALSE /\ queue' = {}
    /\ stage' = "stopped"
    /\ UNCHANGED <<ctxVars, next, shuttingDown, gateVars, call, sent, runs>>

-----------------------------------------------------------------------------
Worker(c) == Rearm(c) \/ Wake(c) \/ Begin(c) \/ Dispatch(c) \/ End(c) \/ Reply(c)
Nng(c) == RecvDone(c) \/ SendDone(c) \/ Timeout(c) \/ Callback(c)
Owner ==
    \/ StartContext \/ StartFails \/ Unlisten
    \/ TeardownFlag \/ TeardownCancel \/ TeardownJoin \/ TeardownFree \/ CloseSocket

Next ==
    \/ \E r \in Reqs : Send(r)
    \/ \E c \in Ctxs : Nng(c) \/ Worker(c)
    \/ \E l \in LimitSettings : SetLimits(l)
    \/ Stop \/ Owner

Spec == Init /\ [][Next]_vars

\* Threads are scheduled, callbacks run, and the clock reaches the timeout of
\* a pending operation.  Nobody has to call stop.
Fairness ==
    /\ \A c \in Ctxs : WF_vars(Worker(c)) /\ WF_vars(Callback(c)) /\ WF_vars(Timeout(c))
    /\ WF_vars(Owner)

FairSpec == Spec /\ Fairness

-----------------------------------------------------------------------------
Messages == ({"req", "rep"} \X Copies) \cup {None}

\* Types of the context, service, gate and network variables.
TypeOK ==
    /\ pc \in [Ctxs -> {"none", "rearm", "wait", "begin", "authorize", "end", "send",
                        "exited"}]
    /\ aio \in [Ctxs -> {"none", "idle", "recv", "send", "done"}]
    /\ err \in [Ctxs -> {"ok", "failed", "closed"}]
    /\ aioMsg \in [Ctxs -> Messages]
    /\ phase \in [Ctxs -> {"recv", "send"}]
    /\ event \in [Ctxs -> {"none", "error", "ready", "sent"}]
    /\ stopping \in [Ctxs -> BOOLEAN]
    /\ requestMsg \in [Ctxs -> Copies \cup {None}] /\ req \in [Ctxs -> Copies \cup {None}]
    /\ resp \in [Ctxs -> {"none", "error", "reply", "null"}]
    /\ route \in [Ctxs -> Copies \cup {None}]
    /\ stage \in {"starting", "running", "unlisten", "flag", "cancel", "join", "wait", "close",
                  "stopped"}
    /\ next \in Ctxs
    /\ listening \in BOOLEAN /\ sock \in BOOLEAN /\ shuttingDown \in BOOLEAN
    /\ inflight \in Nat /\ peerInflight \in [Peers -> Nat] /\ replyBytes \in [Peers -> Nat]
    /\ limits \in LimitSettings
    /\ call \in [Reqs -> {"new", "waiting", "done"}]
    /\ sent \in [Reqs -> Nat] /\ runs \in [Reqs -> Nat]
    /\ queue \subseteq Copies

\* Between begin_request and end_request, on every path.
Counted == {c \in Ctxs : pc[c] \in {"authorize", "end"}}

\* The in-flight counters are exactly the requests being served, of the
\* service and of each identity: no refusal, denial, failed reply or stop
\* leaves one behind, and the clamp at zero in end_request never acts.
InflightExact ==
    /\ inflight = Cardinality(Counted)
    /\ \A p \in Peers : peerInflight[p] = Cardinality({c \in Counted : PeerOf(c) = p})

HighBytes == MaxOf({l.bytes : l \in LimitSettings})
HighPerPeer == MaxOf({l.perPeer : l \in LimitSettings})

\* Reply bytes are charged when a request ends and tested when one begins, so
\* an identity can exceed its quota, but only by what the in-flight limit lets
\* it have under way: no resend, concurrency or change of limits adds to that.
QuotaOvershootBounded ==
    (\A l \in LimitSettings : l.bytes > 0 /\ l.perPeer > 0) =>
        \A p \in Peers : replyBytes[p] + peerInflight[p] <= HighBytes - 1 + HighPerPeer

\* A worker about to start an operation finds its aio allocated and idle and
\* the socket open, and holds the request its context is going to answer: the
\* aio never carries two operations and a reply goes to the call it is for.
OneOperation ==
    \A c \in Ctxs :
        /\ pc[c] \in {"rearm", "send"} => aio[c] = "idle" /\ sock
        /\ pc[c] \in {"begin", "authorize", "end", "send"} => route[c] = req[c]

\* The comment in ducknng_service_stop: when a context or the socket is freed
\* no worker runs and no operation or callback is outstanding on what goes.
TeardownQuiet ==
    [][/\ \A c \in Ctxs : aio[c] # "none" /\ aio'[c] = "none" =>
            aio[c] = "idle" /\ pc[c] \in {"none", "exited"}
       /\ sock /\ ~sock' => \A c \in Ctxs : aio[c] = "none"]_vars

\* A worker that runs keeps listening: after a reply, a failed send, a timeout
\* or a null reply its context is receiving again, until it is told to stop.
KeepsReceiving == \A c \in Ctxs : (pc[c] # "none") ~> (aio[c] = "recv" \/ stopping[c])

\* Stop and a failed start end, even when the cancellation of a context comes
\* just before its worker starts another receive.
StopReturns == (stage \notin {"starting", "running"}) ~> (stage = "stopped")

\* The README on writes: "after a lost reply, retry policy belongs to the
\* application", so one call runs its method at most once.
RunsAtMostOnce == \A r \in Reqs : runs[r] <= 1

\* The gate's counters say what runs, the reply quota overshoots by a bounded amount,
\* and a context has one asynchronous operation at a time.
GateExact == TypeOK /\ InflightExact /\ QuotaOvershootBounded /\ OneOperation

\* The service neither stops listening to a context nor hangs in its stop.
KeepsServing == KeepsReceiving /\ StopReturns
=============================================================================
