----------------------------- MODULE HttpServer -----------------------------
(***************************************************************************)
(* An HTTP service of ducknng: its start and stop, the two request         *)
(* handlers NNG calls (the framed RPC mount and the SQL routes), the       *)
(* stream routes and event relays that outlive the handler's answer, the   *)
(* periodic HTTP workers, the WebSocket endpoint (WsEndpoint.tla), and the *)
(* SQL functions that change the route table (HttpRoutes.tla), the         *)
(* admission lists and the workers while requests run.                     *)
(* Source: src/src/ducknng_http_compat.c, ducknng_service.c,               *)
(* ducknng_sql_http.c, ducknng_sql_rpc.c, ducknng_ws_frame.c.              *)
(*                                                                         *)
(* Each step is one critical section (svc->mu, state->mu or ep->mu) or one *)
(* blocking call.  NNG's server is external: a handler has one reference   *)
(* of its owner and one per running callback, which the handler's answer   *)
(* gives back; its destructor runs when the last one goes.                 *)
(***************************************************************************)
EXTENDS HttpRoutes, WsEndpoint

CONSTANTS
    Conns,         \* HTTP connections; each carries one request
    Workers,       \* names of HTTP workers
    MaxInflight,   \* svc->max_inflight
    Chunks,        \* chunks of a stream route's result, messages of a topic
    Turns,         \* how often a worker's SQL runs
    Plans          \* what clients send and what SQL administers: see plan

Callers == Conns \cup WsConns

VARIABLES
    plan,   \* [req, ws, admin]: chosen once; requests, WebSocket clients, SQL
    svc,    \* the service: its admission state, routes, workers, and counters
    srv,    \* ducknng_http_server_state and the NNG handlers it owns
    req,    \* [Callers -> the request being handled]
    rly,    \* [Conns -> the event relay of that connection]
    wk,     \* [Workers -> [pc, stopping, turns]]
    boss,   \* [pc, left]: the thread that starts and stops the service
    adm     \* [pc, i, w]: the SQL session that administers the service

httpVars == <<plan, svc, srv, req, rly, wk, boss, adm>>
vars == <<plan, svc, srv, req, rly, wk, boss, adm, ep, acc, wc, wstop>>

Anyone == {"anyone"}         \* an allowlist that is not active

NoRoute == NewRoute("exact", "", <<"">>, 0)

Idle == [pc |-> "idle", route |-> NoRoute, chunks |-> 0, answers |-> 0,
         status |-> "", ran |-> FALSE]

NoRelay == [pc |-> "none", linked |-> FALSE, starting |-> FALSE,
            started |-> FALSE, aio |-> FALSE, detached |-> FALSE,
            finished |-> FALSE, cancelled |-> FALSE, chunks |-> 0]

Init ==
    /\ plan \in Plans
    /\ svc = [state |-> "none", listed |-> FALSE, shutting |-> FALSE,
              inflight |-> 0, routes |-> <<>>, peers |-> Anyone,
              ips |-> Anyone, authorizer |-> FALSE, workers |-> {}]
    /\ srv = [state |-> "none", stopping |-> FALSE, streams |-> 0,
              listening |-> FALSE, handlers |-> {}, installed |-> {},
              refs |-> [rpc |-> 0, route |-> 0], finalized |-> {}]
    /\ req = [c \in Callers |-> Idle]
    /\ rly = [c \in Conns |-> NoRelay]
    /\ wk = [k \in Workers |-> [pc |-> "none", stopping |-> FALSE, turns |-> 0]]
    /\ boss = [pc |-> "start", left |-> {}]
    /\ adm = [pc |-> "next", i |-> 1, w |-> NoConn]
    /\ WsInit

Goes(c, pc) == req' = [req EXCEPT ![c].pc = pc]

-----------------------------------------------------------------------------
(* NNG: handler references, and answers.                                   *)

\* The handler of c's request: POST to the mount goes to the RPC handler.
HandlerOf(c) ==
    IF plan.req[c].method = "POST" /\ plan.req[c].path = Mount
      THEN "rpc" ELSE "route"

\* A request arrives: NNG finds its handler and holds it during the callback.
Arrive(c) ==
    /\ req[c].pc = "idle" /\ c \in DOMAIN plan.req
    /\ srv.listening /\ HandlerOf(c) \in srv.handlers
    /\ srv' = [srv EXCEPT !.refs[HandlerOf(c)] = @ + 1]
    /\ Goes(c, HandlerOf(c))
    /\ UNCHANGED <<plan, svc, rly, wk, boss, adm>> /\ UNCHANGED wsVars

\* http_server_state_handler_dtor, on whichever thread dropped the last
\* reference.
HandlerDtor(h) ==
    /\ h \in srv.installed /\ h \notin srv.finalized /\ srv.refs[h] = 0
    /\ srv' = [srv EXCEPT !.finalized = @ \cup {h}]
    /\ UNCHANGED <<plan, svc, req, rly, wk, boss, adm>> /\ UNCHANGED wsVars

\* nng_aio_finish of the handler's aio: the client is answered, or its
\* connection handed over, and the callback's reference goes.
AioFinish(c, pc) ==
    /\ req' = [req EXCEPT ![c] = [Idle EXCEPT !.pc = pc,
                                             !.answers = req[c].answers + 1]]
    /\ srv' = [srv EXCEPT !.refs[HandlerOf(c)] = @ - 1]

\* http_finish_response, for a WebSocket frame the reply to its thread.
FinishResponse(c) ==
    IF c \in Conns
      THEN AioFinish(c, "done") /\ UNCHANGED wc
      ELSE /\ req' = [req EXCEPT ![c] = Idle]
           /\ wc' = [wc EXCEPT ![c].pc = "send"]
           /\ UNCHANGED srv

Answer(c) ==
    /\ FinishResponse(c)
    /\ UNCHANGED <<plan, svc, rly, wk, boss, adm, ep, acc, wstop>>

Refuse(c) == Answer(c)      \* before any handler has run

\* The request ends with this status once its slot is given back.
Ends(c, status, ran) ==
    /\ req' = [req EXCEPT ![c].pc = "end", ![c].status = status, ![c].ran = ran]
    /\ UNCHANGED <<plan, svc, srv, rly, wk, boss, adm>> /\ UNCHANGED wsVars

\* A step of c's handler that changes only where it is.
Local(c, pc) ==
    Goes(c, pc) /\ UNCHANGED <<plan, svc, srv, rly, wk, boss, adm>>
                /\ UNCHANGED wsVars

Stopping == srv.stopping \/ svc.shutting

-----------------------------------------------------------------------------
(* http_rpc_handler and the frames of WebSocket connections.               *)

\* Stopping: 503.  Not a frame: 415.  An envelope that does not decode: 400.
RpcHandler(c) ==
    /\ req[c].pc = "rpc"
    /\ IF Stopping \/ ~plan.req[c].frame THEN Refuse(c) ELSE Local(c, "admit")

\* A WebSocket thread calls the service itself; it has no verified identity.
WsDispatch(w) ==
    /\ wc[w].pc = "dispatch" /\ req[w].pc = "idle"
    /\ Local(w, "admit")

-----------------------------------------------------------------------------
(* http_route_handler up to the gate.                                      *)

\* Stopping: 503.  The mount itself: 405, it takes only POST.
RouteHandler(c) ==
    /\ req[c].pc = "route"
    /\ IF Stopping \/ plan.req[c].path = Mount
         THEN Refuse(c) ELSE Local(c, "lookup")

\* No route: 404.  A body above the route's limit: 413.
RouteLookup(c) ==
    /\ req[c].pc = "lookup"
    /\ LET q == plan.req[c]
           i == LookupHttpRoute(svc.routes, q.method, q.path)
       IN  IF \/ i = 0
              \/ svc.routes[i].max > 0 /\ q.size > svc.routes[i].max
             THEN Refuse(c)
             ELSE /\ req' = [req EXCEPT ![c].pc = "admit",
                                        ![c].route = svc.routes[i]]
                  /\ UNCHANGED <<plan, svc, srv, rly, wk, boss, adm>>
                  /\ UNCHANGED wsVars

-----------------------------------------------------------------------------
(* The gate: admission, the request's slot, the authorizer.                *)

Identity(c) == IF c \in Conns THEN plan.req[c].id ELSE "nobody"
Address(c) == IF c \in Conns THEN plan.req[c].addr ELSE "local"

PeerAdmission(c) == svc.peers = Anyone \/ Identity(c) \in svc.peers

NetworkAdmissionCheck(c) ==
    PeerAdmission(c) /\ (svc.ips = Anyone \/ Address(c) \in svc.ips)

Admit(c) ==
    /\ req[c].pc = "admit"
    /\ IF NetworkAdmissionCheck(c) THEN Local(c, "begin") ELSE Refuse(c)

\* service_begin_request: 503 when shutting down and at the limit.
BeginRequest(c) ==
    /\ req[c].pc = "begin"
    /\ IF svc.shutting \/ svc.inflight >= MaxInflight
         THEN Refuse(c)
         ELSE /\ svc' = [svc EXCEPT !.inflight = @ + 1]
              /\ Goes(c, "authorize")
              /\ UNCHANGED <<plan, srv, rly, wk, boss, adm>>
              /\ UNCHANGED wsVars

\* service_end_request, then on to pc.
EndRequest(c, pc) ==
    /\ svc' = [svc EXCEPT !.inflight = @ - 1]
    /\ Goes(c, pc)
    /\ UNCHANGED <<plan, srv, rly, wk, boss, adm>> /\ UNCHANGED wsVars

AfterAuthorize(c) ==
    IF c \in WsConns \/ HandlerOf(c) = "rpc" THEN "dispatch" ELSE "routeauth"

\* What SQL gives back: an error, no row, one usable row, one row without the
\* expected columns, or several rows.
SqlOutcomes == {"error", "none", "row", "bad", "several"}

\* parse_authorizer_result: exactly one row whose allow column is true.
ParseAuthorizerResult(outcome, allow) == outcome = "row" /\ allow

\* parse_http_route_result: exactly one row with usable columns.
ParseHttpRouteResult(outcome) == IF outcome = "row" THEN "reply" ELSE "failed"

\* service_authorize_request: the lists once more, then the SQL authorizer.
AuthorizeRequest(c) ==
    /\ req[c].pc = "authorize"
    /\ IF NetworkAdmissionCheck(c)
         THEN Local(c, IF svc.authorizer THEN "authorizer" ELSE AfterAuthorize(c))
         ELSE Ends(c, "refused", FALSE)

\* run_sql_authorizer: anything but a clear yes refuses the request.
RunSqlAuthorizer(c) ==
    /\ req[c].pc = "authorizer"
    /\ \E outcome \in SqlOutcomes, allow \in BOOLEAN :
         IF ParseAuthorizerResult(outcome, allow)
           THEN Local(c, AfterAuthorize(c))
           ELSE Ends(c, "refused", FALSE)

\* handle_decoded_request: RepService.tla has what a method does.
DispatchFrame(c) ==
    /\ req[c].pc = "dispatch"
    /\ \E status \in {"reply", "failed"} : Ends(c, status, TRUE)

EndAndAnswer(c) ==
    /\ req[c].pc = "end"
    /\ EndRequest(c, "answer")

SendAnswer(c) ==
    /\ req[c].pc = "answer"
    /\ Answer(c)

-----------------------------------------------------------------------------
(* http_route_handler behind the gate: one branch per response mode.       *)

\* The route's own rules: 401 without a required identity; 403 when there is
\* an identity and an allow list without it.
RouteAuthRefuses(r, id) ==
    \/ r.require /\ id = "nobody"
    \/ r.allow # {} /\ id # "nobody" /\ id \notin r.allow

RouteAuth(c) ==
    /\ req[c].pc = "routeauth"
    /\ LET r == req[c].route
       IN  IF RouteAuthRefuses(r, Identity(c))
             THEN Ends(c, "refused", FALSE)
             ELSE Local(c, CASE r.mode = "body" -> "sql"
                             [] r.mode = "events" -> "resolve"
                             [] r.mode = "stream" -> "stream")

\* service_handle_http_route: the reply the handler's SQL makes, or 500.
HandleHttpRoute(c) ==
    /\ req[c].pc = "sql" /\ ~req[c].route.static
    /\ \E outcome \in SqlOutcomes : Ends(c, ParseHttpRouteResult(outcome), TRUE)

\* serve_static_file: a file, or an error reply of its own; no SQL runs.
ServeStaticFile(c) ==
    /\ req[c].pc = "sql" /\ req[c].route.static
    /\ \E status \in {"reply", "failed"} : Ends(c, status, TRUE)

\* Stream routes ------------------------------------------------------------


\* http_server_stream_begin: 503 when the server is stopping.
StreamBegin(c) ==
    /\ req[c].pc = "stream"
    /\ IF srv.stopping
         THEN Ends(c, "refused", FALSE)
         ELSE /\ srv' = [srv EXCEPT !.streams = @ + 1]
              /\ Goes(c, "hijack")
              /\ UNCHANGED <<plan, svc, rly, wk, boss, adm>>
              /\ UNCHANGED wsVars

\* http_serve_stream_route: the connection is taken over, which gives the
\* handler's reference back, and then the headers are written.
ServeStreamRoute(c) ==
    /\ req[c].pc = "hijack"
    /\ \E pc \in {"streamsql", "streamed"} : AioFinish(c, pc)
    /\ UNCHANGED <<plan, svc, rly, wk, boss, adm>> /\ UNCHANGED wsVars

\* service_execute_stream_route: an error or a chunk column of another type
\* ends the stream at once; otherwise its rows are written.
ExecuteStreamRoute(c) ==
    /\ req[c].pc = "streamsql"
    /\ \E outcome \in SqlOutcomes :
         Local(c, IF outcome \in {"error", "bad"} THEN "streamed" ELSE "chunks")

\* stream_on_chunk: another chunk is written.
StreamOnChunk(c) ==
    /\ req[c].pc = "chunks" /\ req[c].chunks < Chunks
    /\ req' = [req EXCEPT ![c].chunks = @ + 1]
    /\ UNCHANGED <<plan, svc, srv, rly, wk, boss, adm>> /\ UNCHANGED wsVars

\* The result is exhausted or a write fails; the terminator is written in
\* either case and the connection closed.
StreamOver(c) ==
    /\ req[c].pc = "chunks"
    /\ Local(c, "streamed")

StreamEndsRequest(c) ==
    /\ req[c].pc = "streamed"
    /\ EndRequest(c, "streamend")

\* http_server_stream_end.
StreamEnd(c) ==
    /\ req[c].pc = "streamend"
    /\ srv' = [srv EXCEPT !.streams = IF @ > 0 THEN @ - 1 ELSE 0]
    /\ req' = [req EXCEPT ![c].pc = "done", ![c].chunks = 0]
    /\ UNCHANGED <<plan, svc, rly, wk, boss, adm>> /\ UNCHANGED wsVars

\* Event routes: start_event_relay -------------------------------------------

\* service_resolve_event_route: a topic, no subscription (404), or an error
\* (500).  The request ends here, before the relay exists.
ResolveEventRoute(c) ==
    /\ req[c].pc = "resolve"
    /\ svc' = [svc EXCEPT !.inflight = @ - 1]
    /\ \E outcome \in SqlOutcomes :
         req' = [req EXCEPT ![c].ran = TRUE, ![c].status = "failed",
                   ![c].pc = IF outcome = "row" THEN "reap" ELSE "answer"]
    /\ UNCHANGED <<plan, srv, rly, wk, boss, adm>> /\ UNCHANGED wsVars

Reapable(d) == rly[d].linked /\ rly[d].finished /\ ~rly[d].starting

\* http_event_relays_reap unlinks what has finished; the join outside the
\* lock waits for threads that have nothing left to do but return.
EventRelaysReap(c) ==
    /\ req[c].pc = "reap"
    /\ rly' = [d \in Conns |->
                 IF Reapable(d)
                   THEN [rly[d] EXCEPT !.linked = FALSE, !.pc = "freed"]
                   ELSE rly[d]]
    /\ Goes(c, "link")
    /\ UNCHANGED <<plan, svc, srv, wk, boss, adm>> /\ UNCHANGED wsVars

\* 503 when the server is stopping (or out of memory).
RelayLink(c) ==
    /\ req[c].pc = "link"
    /\ \/ Local(c, "answer")
       \/ /\ ~srv.stopping
          /\ rly' = [rly EXCEPT ![c].linked = TRUE, ![c].starting = TRUE,
                                ![c].aio = TRUE]
          /\ Goes(c, "takeover")
          /\ UNCHANGED <<plan, svc, srv, wk, boss, adm>> /\ UNCHANGED wsVars

\* The connection is taken over; the handler's reference is given back.
RelayTakeover(c) ==
    /\ req[c].pc = "takeover"
    /\ AioFinish(c, "thread")
    /\ UNCHANGED <<plan, svc, rly, wk, boss, adm>> /\ UNCHANGED wsVars

\* nng_http_hijack fails: detach, ...
RelayTakeoverFails(c) ==
    /\ req[c].pc = "takeover"
    /\ rly' = [rly EXCEPT ![c].detached = TRUE]
    /\ Goes(c, "undo")
    /\ UNCHANGED <<plan, svc, srv, wk, boss, adm>> /\ UNCHANGED wsVars

\* ... free the aio outside the lock, and finish; the caller answers 503.
RelayUndo(c) ==
    /\ req[c].pc = "undo"
    /\ rly' = [rly EXCEPT ![c].aio = FALSE]
    /\ Goes(c, "undone")
    /\ UNCHANGED <<plan, svc, srv, wk, boss, adm>> /\ UNCHANGED wsVars

RelayUndone(c) ==
    /\ req[c].pc = "undone"
    /\ rly' = [rly EXCEPT ![c].finished = TRUE, ![c].starting = FALSE]
    /\ Goes(c, "answer")
    /\ UNCHANGED <<plan, svc, srv, wk, boss, adm>> /\ UNCHANGED wsVars

\* The thread is created under the lock, or the relay detached there.
RelayThreadCreate(c) ==
    /\ req[c].pc = "thread"
    /\ \/ /\ rly' = [rly EXCEPT ![c].started = TRUE, ![c].pc = "subscribe"]
          /\ Goes(c, "started")
       \/ /\ rly' = [rly EXCEPT ![c].detached = TRUE]
          /\ Goes(c, "unthreaded")
    /\ UNCHANGED <<plan, svc, srv, wk, boss, adm>> /\ UNCHANGED wsVars

\* No thread: the aio is freed and the connection closed here.
RelayUnthreaded(c) ==
    /\ req[c].pc = "unthreaded"
    /\ rly' = [rly EXCEPT ![c].aio = FALSE]
    /\ Goes(c, "failed")
    /\ UNCHANGED <<plan, svc, srv, wk, boss, adm>> /\ UNCHANGED wsVars

\* Mutant: a relay without a thread is reported to the caller, who answers.
RelayStartedReports(c) ==
    /\ req[c].pc \in {"started", "failed"}
    /\ rly' = [rly EXCEPT ![c].starting = FALSE,
                          ![c].finished = @ \/ req[c].pc = "failed"]
    /\ Goes(c, IF req[c].pc = "failed" THEN "answer" ELSE "done")
    /\ UNCHANGED <<plan, svc, srv, wk, boss, adm>> /\ UNCHANGED wsVars

\* The handler lets go of the relay.  The request was answered either way.
RelayStarted(c) ==
    /\ req[c].pc \in {"started", "failed"}
    /\ rly' = [rly EXCEPT ![c].starting = FALSE,
                          ![c].finished = @ \/ req[c].pc = "failed"]
    /\ Goes(c, "done")
    /\ UNCHANGED <<plan, svc, srv, wk, boss, adm>> /\ UNCHANGED wsVars

-----------------------------------------------------------------------------
(* http_event_relay_thread.                                                *)

RelaySays(c, pc) ==
    /\ rly' = [rly EXCEPT ![c].pc = pc, ![c].cancelled = FALSE]
    /\ UNCHANGED <<plan, svc, srv, req, wk, boss, adm>> /\ UNCHANGED wsVars

\* http_event_relay_subscribe, then the headers (200), or a refusal (503)
\* unless the server is stopping; a failed subscription ends the relay.
RelaySubscribe(c) ==
    /\ rly[c].pc = "subscribe"
    /\ \/ ~srv.stopping /\ RelaySays(c, "headers")
       \/ RelaySays(c, IF srv.stopping THEN "detach" ELSE "refuse")

RelayRefuse(c) ==
    /\ rly[c].pc = "refuse"
    /\ RelaySays(c, "detach")

\* A write completes, or fails: the client left, the 30 s are over, or the
\* stop cancelled it.
RelayWritten(c) ==
    /\ rly[c].pc \in {"headers", "write"}
    /\ \/ ~rly[c].cancelled /\ RelaySays(c, "loop")
       \/ RelaySays(c, "detach")

\* http_event_relay_stopping between slices; a stop ends the body cleanly.
RelayLoop(c) ==
    /\ rly[c].pc = "loop"
    /\ RelaySays(c, IF srv.stopping THEN "terminator" ELSE "slice")

\* A message, or a heartbeat that is due, is written (http_event_relay_send).
RelaySend(c) ==
    /\ rly[c].pc = "slice" /\ rly[c].chunks < Chunks
    /\ rly' = [rly EXCEPT ![c].pc = "write", ![c].chunks = @ + 1]
    /\ UNCHANGED <<plan, svc, srv, req, wk, boss, adm>> /\ UNCHANGED wsVars

\* The slice times out with nothing due, or the socket fails.
RelaySlice(c) ==
    /\ rly[c].pc = "slice"
    /\ \E pc \in {"loop", "detach"} : RelaySays(c, pc)

RelayTerminator(c) ==
    /\ rly[c].pc = "terminator"
    /\ RelaySays(c, "detach")

RelayDetach(c) ==
    /\ rly[c].pc = "detach"
    /\ rly' = [rly EXCEPT ![c].pc = "close", ![c].detached = TRUE]
    /\ UNCHANGED <<plan, svc, srv, req, wk, boss, adm>> /\ UNCHANGED wsVars

\* The socket is closed, the aio freed, the connection closed.
RelayClose(c) ==
    /\ rly[c].pc = "close"
    /\ rly' = [rly EXCEPT ![c].pc = "finish", ![c].aio = FALSE]
    /\ UNCHANGED <<plan, svc, srv, req, wk, boss, adm>> /\ UNCHANGED wsVars

RelayFinish(c) ==
    /\ rly[c].pc = "finish"
    /\ rly' = [rly EXCEPT ![c].pc = "returned", ![c].finished = TRUE]
    /\ UNCHANGED <<plan, svc, srv, req, wk, boss, adm>> /\ UNCHANGED wsVars

RelayThread(c) ==
    \/ RelaySubscribe(c) \/ RelayRefuse(c) \/ RelayWritten(c) \/ RelayLoop(c)
    \/ RelaySend(c) \/ RelaySlice(c) \/ RelayTerminator(c) \/ RelayDetach(c)
    \/ RelayClose(c) \/ RelayFinish(c)

-----------------------------------------------------------------------------
(* HTTP workers: SQL on a timer.                                           *)

\* http_worker_thread_main: wait for the interval, or for the stop.
WorkerWait(k) ==
    /\ wk[k].pc = "wait"
    /\ \/ /\ wk[k].stopping
          /\ wk' = [wk EXCEPT ![k].pc = "returned"]
       \/ /\ ~wk[k].stopping /\ wk[k].turns < Turns
          /\ wk' = [wk EXCEPT ![k].pc = "sql", ![k].turns = @ + 1]
    /\ UNCHANGED <<plan, svc, srv, req, rly, boss, adm>> /\ UNCHANGED wsVars

WorkerSql(k) ==
    /\ wk[k].pc = "sql"
    /\ wk' = [wk EXCEPT ![k].pc = "wait"]
    /\ UNCHANGED <<plan, svc, srv, req, rly, boss, adm>> /\ UNCHANGED wsVars

-----------------------------------------------------------------------------
(* The SQL session that administers the service.  Every function looks the *)
(* service up in the runtime first.                                        *)

Operation == plan.admin[adm.i]
AdminNext == adm' = [adm EXCEPT !.pc = "next", !.i = @ + 1, !.w = NoConn]
AdminAt(pc) == adm' = [adm EXCEPT !.pc = pc]
AdminFrame == UNCHANGED <<plan, srv, req, rly, boss>> /\ UNCHANGED wsVars

AdminTurn(op) ==
    /\ adm.pc = "next" /\ adm.i <= Len(plan.admin) /\ Operation.op = op
    /\ svc.listed /\ boss.pc = "up"

SqlRunning ==
    \/ \E c \in Callers : req[c].pc \in {"authorizer", "dispatch", "sql",
                                        "resolve", "streamsql"}
    \/ \E k \in Workers : wk[k].pc = "sql"

\* reject_inside_request_handler: refused while the runtime's request pointer
\* is set.  SQL of several requests shares that pointer, so it may be clear
\* while one of them still runs (ExecutionPool.tla).
AdminRefused ==
    /\ adm.pc = "next" /\ adm.i <= Len(plan.admin) /\ boss.pc = "up"
    /\ SqlRunning /\ Operation.op \notin {"peers", "ips", "authorizer"}
    /\ AdminNext
    /\ UNCHANGED <<svc, wk>> /\ AdminFrame

\* One critical section on the routes, then on to pc.
ChangeRoutes(new) == svc' = [svc EXCEPT !.routes = new]

RegisterRoute(op, kind) ==
    /\ AdminTurn(op)
    /\ ChangeRoutes(RegisterHttpRouteInner(svc.routes, kind, Operation.method,
                                           Operation.path, Operation.max))
    /\ AdminNext
    /\ UNCHANGED wk /\ AdminFrame

RegisterHttpRoute == RegisterRoute("route", "exact")
RegisterHttpRoutePattern == RegisterRoute("pattern", Operation.kind)

UnregisterRoute(op, kind) ==
    /\ AdminTurn(op)
    /\ ChangeRoutes(UnregisterHttpRouteInner(svc.routes, kind, Operation.method,
                                             Operation.path))
    /\ AdminNext
    /\ UNCHANGED wk /\ AdminFrame

UnregisterHttpRoute == UnregisterRoute("unroute", "exact")
UnregisterHttpRoutePattern == UnregisterRoute("unpattern", Operation.kind)

SetHttpRouteAuthScalar ==
    /\ AdminTurn("auth")
    /\ LET o == Operation
       IN  ChangeRoutes(SetHttpRouteAuth(svc.routes, o.method, o.path,
                                         o.require, o.allow))
    /\ AdminNext
    /\ UNCHANGED wk /\ AdminFrame

\* Stream, event and static routes: insert a plain route first; the second
\* lock section gives it its mode.
RegisterSpecialRoute(op, kind, m, max) ==
    /\ AdminTurn(op)
    /\ IF CanRegister(svc.routes, kind, m, Operation.path, max)
         THEN /\ ChangeRoutes(RegisterHttpRouteInner(svc.routes, kind, m,
                                                     Operation.path, max))
              /\ AdminAt(op)
         ELSE AdminNext /\ UNCHANGED svc
    /\ UNCHANGED wk /\ AdminFrame

RegisterHttpStreamRoute ==
    RegisterSpecialRoute("stream", "exact", Operation.method, Operation.max)
RegisterHttpEventRoute == RegisterSpecialRoute("event", "exact", "GET", 0)
RegisterHttpStatic == RegisterSpecialRoute("static", "prefix", "GET", 0)

FinishStreamRoute ==
    /\ adm.pc = "stream"
    /\ ChangeRoutes(MarkStreamRoute(svc.routes, Operation.method, Operation.path))
    /\ AdminNext
    /\ UNCHANGED wk /\ AdminFrame

FinishEventRoute ==
    /\ adm.pc = "event"
    /\ ChangeRoutes(MarkEventRoute(svc.routes, Operation.path))
    /\ AdminNext
    /\ UNCHANGED wk /\ AdminFrame

\* register_http_static: clear the auth of the route, then set its directory.
FinishStaticAuth ==
    /\ adm.pc = "static"
    /\ ChangeRoutes(SetHttpRouteAuth(svc.routes, "GET", Operation.path, FALSE, {}))
    /\ AdminAt("directory")
    /\ UNCHANGED wk /\ AdminFrame

FinishStaticDirectory ==
    /\ adm.pc = "directory"
    /\ ChangeRoutes(SetStaticDirectory(svc.routes, Operation.path))
    /\ AdminNext
    /\ UNCHANGED wk /\ AdminFrame

\* set_service_peer_allowlist, set_service_ip_allowlist, set_authorizer.
SetPeerAllowlist ==
    /\ AdminTurn("peers")
    /\ svc' = [svc EXCEPT !.peers = Operation.allow]
    /\ AdminNext
    /\ UNCHANGED wk /\ AdminFrame

SetIpAllowlist ==
    /\ AdminTurn("ips")
    /\ svc' = [svc EXCEPT !.ips = Operation.allow]
    /\ AdminNext
    /\ UNCHANGED wk /\ AdminFrame

SetAuthorizer ==
    /\ AdminTurn("authorizer")
    /\ svc' = [svc EXCEPT !.authorizer = Operation.require]
    /\ AdminNext
    /\ UNCHANGED wk /\ AdminFrame

\* service_register_http_worker, thread creation included, under svc->mu; a
\* name that exists is refused.
RegisterHttpWorker ==
    /\ AdminTurn("worker")
    /\ LET k == Operation.worker
       IN  IF k \in svc.workers \/ wk[k].pc # "none"
             THEN UNCHANGED <<svc, wk>>
             ELSE /\ svc' = [svc EXCEPT !.workers = @ \cup {k}]
                  /\ wk' = [wk EXCEPT ![k].pc = "wait"]
    /\ AdminNext
    /\ AdminFrame

\* service_unregister_http_worker: unlink under svc->mu, ...
UnregisterHttpWorker ==
    /\ AdminTurn("unworker")
    /\ IF Operation.worker \in svc.workers
         THEN /\ svc' = [svc EXCEPT !.workers = @ \ {Operation.worker}]
              /\ wk' = [wk EXCEPT ![Operation.worker].stopping = TRUE]
              /\ AdminAt("join")
         ELSE AdminNext /\ UNCHANGED <<svc, wk>>
    /\ AdminFrame

\* ... then http_worker_destroy joins its thread.
HttpWorkerDestroy ==
    /\ adm.pc = "join" /\ wk[Operation.worker].pc = "returned"
    /\ wk' = [wk EXCEPT ![Operation.worker].pc = "freed"]
    /\ AdminNext
    /\ UNCHANGED svc /\ AdminFrame

Admin ==
    \/ AdminRefused \/ RegisterHttpRoute \/ RegisterHttpRoutePattern
    \/ UnregisterHttpRoute \/ UnregisterHttpRoutePattern
    \/ SetHttpRouteAuthScalar \/ RegisterHttpStreamRoute
    \/ RegisterHttpEventRoute \/ RegisterHttpStatic \/ FinishStreamRoute
    \/ FinishEventRoute \/ FinishStaticAuth \/ FinishStaticDirectory
    \/ SetPeerAllowlist \/ SetIpAllowlist \/ SetAuthorizer
    \/ RegisterHttpWorker \/ UnregisterHttpWorker \/ HttpWorkerDestroy

-----------------------------------------------------------------------------
(* ducknng_server_start: service_create, add_service, service_start and    *)
(* http_server_start.                                                      *)

BossAt(pc) == boss' = [boss EXCEPT !.pc = pc]
BossFrame == UNCHANGED <<plan, req, wk, adm>>

\* The service is published before it is started.
ServiceCreate ==
    /\ boss.pc = "start"
    /\ svc' = [svc EXCEPT !.state = "live", !.listed = TRUE]
    /\ srv' = [srv EXCEPT !.state = "live"]
    /\ BossAt("rpc")
    /\ BossFrame /\ UNCHANGED rly /\ UNCHANGED wsVars

\* Allocate the handler h, install its data, add it to the server.
AddHandler(h, pc) ==
    /\ boss.pc = h
    /\ srv' = [srv EXCEPT !.refs[h] = 1, !.installed = @ \cup {h},
                          !.handlers = @ \cup {h}]
    /\ BossAt(pc)
    /\ BossFrame /\ UNCHANGED <<svc, rly>> /\ UNCHANGED wsVars

HttpServerListen ==
    /\ boss.pc = "listen"
    /\ srv' = [srv EXCEPT !.listening = TRUE]
    /\ BossAt("endpoint")
    /\ BossFrame /\ UNCHANGED <<svc, rly>> /\ UNCHANGED wsVars

HttpServerStartWs ==
    /\ boss.pc = "endpoint"
    /\ WsStart
    /\ BossAt("up")
    /\ BossFrame /\ UNCHANGED <<svc, srv, rly>>

\* Any of these fails: the handlers are deleted and given back, ...
HttpServerStartFails ==
    /\ boss.pc \in {"rpc", "route", "listen", "endpoint"}
    /\ srv' = [srv EXCEPT !.handlers = {},
                          !.refs = [h \in {"rpc", "route"} |->
                              IF h \in srv.installed THEN @[h] - 1 ELSE @[h]]]
    /\ BossAt("failing")
    /\ BossFrame /\ UNCHANGED <<svc, rly>> /\ UNCHANGED wsVars

\* ... their callbacks waited for, the server stopped and the state freed; the
\* service is removed and destroyed (start_service_with_tls_opts).
HttpServerStartFailed ==
    /\ boss.pc = "failing" /\ srv.installed \subseteq srv.finalized
    /\ srv' = [srv EXCEPT !.listening = FALSE, !.state = "freed"]
    /\ svc' = [svc EXCEPT !.listed = FALSE]
    /\ BossAt("destroy")
    /\ BossFrame /\ UNCHANGED rly /\ UNCHANGED wsVars

-----------------------------------------------------------------------------
(* ducknng_server_stop, service_stop and http_server_stop.  Administration *)
(* of a service is assumed not to overlap its stop: the functions use the  *)
(* service without holding anything that keeps it alive.                   *)

\* The stop is refused while a request is in flight; SQL asks again.
ServerStop ==
    /\ boss.pc = "up" /\ adm.pc = "next"
    /\ svc.inflight = 0
    /\ svc' = [svc EXCEPT !.listed = FALSE]
    /\ BossAt("shut")
    /\ BossFrame /\ UNCHANGED <<srv, rly>> /\ UNCHANGED wsVars

ServiceStop ==
    /\ boss.pc = "shut"
    /\ svc' = [svc EXCEPT !.shutting = TRUE]
    /\ BossAt("workers")
    /\ BossFrame /\ UNCHANGED <<srv, rly>> /\ UNCHANGED wsVars

\* service_stop_http_workers takes the array, ...
StopHttpWorkers ==
    /\ boss.pc = "workers"
    /\ boss' = [pc |-> "joinworkers", left |-> svc.workers]
    /\ svc' = [svc EXCEPT !.workers = {}]
    /\ BossFrame /\ UNCHANGED <<srv, rly>> /\ UNCHANGED wsVars

\* ... tells each worker to stop and joins it.
StopWorker(k) ==
    /\ boss.pc = "joinworkers" /\ k \in boss.left
    /\ \/ /\ ~wk[k].stopping
          /\ wk' = [wk EXCEPT ![k].stopping = TRUE]
          /\ UNCHANGED boss
       \/ /\ wk[k].pc = "returned"
          /\ wk' = [wk EXCEPT ![k].pc = "freed"]
          /\ boss' = [boss EXCEPT !.left = @ \ {k}]
    /\ UNCHANGED <<plan, svc, srv, req, rly, adm>> /\ UNCHANGED wsVars

\* http_server_stop.
HttpServerStop ==
    /\ boss.pc = "joinworkers" /\ boss.left = {}
    /\ srv' = [srv EXCEPT !.stopping = TRUE]
    /\ BossAt("relays")
    /\ BossFrame /\ UNCHANGED <<svc, rly>> /\ UNCHANGED wsVars

Linked == {c \in Conns : rly[c].linked}

\* http_event_relays_stop, one turn of its loop: cancel the writes of relays
\* that are not detached; take the list unless a handler is still starting one.
EventRelaysStop ==
    /\ boss.pc = "relays"
    /\ LET starting == \E c \in Linked : rly[c].starting
       IN  /\ rly' = [c \in Conns |->
                  [rly[c] EXCEPT
                     !.cancelled = @ \/ (rly[c].linked /\ ~rly[c].detached
                                         /\ rly[c].pc \in {"headers", "write"}),
                     !.linked = @ /\ starting]]
           /\ boss' = IF starting THEN [boss EXCEPT !.pc = "relaywait"]
                      ELSE [pc |-> "joinrelays", left |-> Linked]
    /\ BossFrame /\ UNCHANGED <<svc, srv>> /\ UNCHANGED wsVars

\* A broadcast: a handler is done starting its relay.
EventRelaysWake ==
    /\ boss.pc = "relaywait" /\ \A c \in Linked : ~rly[c].starting
    /\ BossAt("relays")
    /\ BossFrame /\ UNCHANGED <<svc, srv, rly>> /\ UNCHANGED wsVars

\* http_event_relay_free joins the relay's thread if it has one.
EventRelayFree(c) ==
    /\ boss.pc = "joinrelays" /\ c \in boss.left
    /\ rly[c].started => rly[c].pc = "returned"
    /\ rly' = [rly EXCEPT ![c].pc = "freed"]
    /\ boss' = [boss EXCEPT !.left = @ \ {c}]
    /\ BossFrame /\ UNCHANGED <<svc, srv>> /\ UNCHANGED wsVars

HttpServerStopWs ==
    /\ boss.pc = "joinrelays" /\ boss.left = {}
    /\ WsStopBegin
    /\ BossAt("ws")
    /\ BossFrame /\ UNCHANGED <<svc, srv, rly>>

\* ws_frame_endpoint_stop runs on this thread.
BossWsStop ==
    /\ boss.pc = "ws"
    /\ WsStop
    /\ UNCHANGED httpVars

DelHandlers ==
    /\ boss.pc = "ws" /\ wstop.pc = "done"
    /\ srv' = [srv EXCEPT !.handlers = {}]
    /\ BossAt("nng")
    /\ BossFrame /\ UNCHANGED <<svc, rly>> /\ UNCHANGED wsVars

\* nng_http_server_stop, then the owner's references go.
FreeHandlers ==
    /\ boss.pc = "nng"
    /\ srv' = [srv EXCEPT !.listening = FALSE,
                          !.refs = [h \in {"rpc", "route"} |-> @[h] - 1]]
    /\ BossAt("drain")
    /\ BossFrame /\ UNCHANGED <<svc, rly>> /\ UNCHANGED wsVars

\* Wait for both destructors and for the last stream, then free the state.
HttpServerStopped ==
    /\ boss.pc = "drain"
    /\ srv.finalized = {"rpc", "route"} /\ srv.streams = 0
    /\ srv' = [srv EXCEPT !.state = "freed"]
    /\ BossAt("destroy")
    /\ BossFrame /\ UNCHANGED <<svc, rly>> /\ UNCHANGED wsVars

ServiceDestroy ==
    /\ boss.pc = "destroy"
    /\ svc' = [svc EXCEPT !.state = "freed", !.routes = <<>>]
    /\ BossAt("down")
    /\ BossFrame /\ UNCHANGED <<srv, rly>> /\ UNCHANGED wsVars

-----------------------------------------------------------------------------
(* The next-state relation.                                                *)

Gate(c) ==
    \/ Admit(c) \/ BeginRequest(c) \/ AuthorizeRequest(c)
    \/ RunSqlAuthorizer(c) \/ DispatchFrame(c) \/ EndAndAnswer(c)
    \/ SendAnswer(c)

Handler(c) ==
    \/ RpcHandler(c) \/ RouteHandler(c) \/ RouteLookup(c) \/ Gate(c)
    \/ RouteAuth(c) \/ HandleHttpRoute(c) \/ ServeStaticFile(c)
    \/ StreamBegin(c) \/ ServeStreamRoute(c) \/ ExecuteStreamRoute(c)
    \/ StreamOnChunk(c) \/ StreamOver(c) \/ StreamEndsRequest(c) \/ StreamEnd(c)
    \/ ResolveEventRoute(c) \/ EventRelaysReap(c) \/ RelayLink(c)
    \/ RelayTakeover(c) \/ RelayTakeoverFails(c) \/ RelayUndo(c)
    \/ RelayUndone(c) \/ RelayThreadCreate(c) \/ RelayUnthreaded(c)
    \/ RelayStarted(c)

Boss ==
    \/ ServiceCreate \/ AddHandler("rpc", "route")
    \/ AddHandler("route", "listen") \/ HttpServerListen \/ HttpServerStartWs
    \/ HttpServerStartFailed
    \/ ServerStop \/ ServiceStop \/ StopHttpWorkers
    \/ (\E k \in Workers : StopWorker(k))
    \/ HttpServerStop \/ EventRelaysStop \/ EventRelaysWake
    \/ (\E c \in Conns : EventRelayFree(c))
    \/ HttpServerStopWs \/ BossWsStop \/ DelHandlers \/ FreeHandlers
    \/ HttpServerStopped \/ ServiceDestroy

Frames(w) == WsDispatch(w) \/ Gate(w)

WsThreads ==
    /\ \/ AcceptThread \/ AccAcceptFails
       \/ \E w \in plan.ws : AccAccepts(w)
       \/ \E w \in WsConns : ConnThread(w) \/ ConnPeer(w)
    /\ UNCHANGED httpVars

\* Everything has ended; without this the end would be a deadlock.
Down ==
    /\ boss.pc = "down"
    /\ UNCHANGED vars

Next ==
    \/ Boss \/ HttpServerStartFails \/ Admin \/ WsThreads \/ Down
    \/ \E h \in {"rpc", "route"} : HandlerDtor(h)
    \/ \E c \in Conns : Arrive(c) \/ Handler(c) \/ RelayThread(c)
    \/ \E w \in WsConns : Frames(w)
    \/ \E k \in Workers : WorkerWait(k) \/ WorkerSql(k)

\* Every thread keeps running.  A handler's SQL ends, a write ends within its
\* 30 s, a receive slice within 200 ms, and SQL asks for the stop until it is
\* granted.  Clients need not send, read or connect.
Fairness ==
    /\ WF_vars(Boss)
    /\ WF_vars(Admin)
    /\ \A h \in {"rpc", "route"} : WF_vars(HandlerDtor(h))
    /\ \A c \in Conns : WF_vars(Handler(c)) /\ WF_vars(RelayThread(c))
    /\ \A w \in WsConns : WF_vars(Frames(w))
    /\ \A w \in WsConns : WF_vars(ConnThread(w) /\ UNCHANGED httpVars)
    /\ WF_vars(AcceptThread /\ UNCHANGED httpVars)
    /\ \A k \in Workers : WF_vars(WorkerWait(k) \/ WorkerSql(k))

Spec == Init /\ [][Next]_vars /\ Fairness

-----------------------------------------------------------------------------
(* Properties.                                                             *)

InHandler(c) == req[c].pc \notin {"idle", "done"}

\* Nothing is used after it is freed.  Once http_server_stop (or the failure
\* path of the start) frees the server state, no handler, stream, relay or
\* WebSocket thread of it is left; once the service is destroyed, no worker
\* either.  A relay the stop may cancel still has its write aio, and one a
\* handler is still starting is not freed under it.
NoUseAfterFree ==
    /\ srv.state = "freed" =>
         /\ \A c \in Conns : ~InHandler(c) /\ rly[c].pc \in {"none", "freed"}
         /\ srv.installed \subseteq srv.finalized
         /\ ep.state # "up"
    /\ svc.state = "freed" =>
         /\ srv.state = "freed"
         /\ \A c \in Callers : ~InHandler(c)
         /\ \A k \in Workers : wk[k].pc \in {"none", "freed"}
    /\ \A c \in Conns :
         /\ rly[c].linked /\ ~rly[c].detached => rly[c].aio
         /\ rly[c].starting => rly[c].pc # "freed"
    /\ WsOwned

\* Where a request holds its slot of svc->inflight_request_count.
Counted == {"authorize", "authorizer", "dispatch", "routeauth", "sql", "end",
            "resolve", "stream", "hijack", "streamsql", "chunks", "streamed"}

\* Every request that takes an in-flight slot gives it back exactly once and
\* is answered (or its connection handed over) exactly once, on every one of
\* the handlers' exits; one that the gate refused has run no handler, so that
\* a client may safely repeat it; the stream count follows the streams.
RequestLedger ==
    /\ svc.inflight = Cardinality({c \in Callers : req[c].pc \in Counted})
    /\ \A c \in Conns :
         /\ req[c].answers <= 1
         /\ req[c].pc = "done" => req[c].answers = 1
         /\ req[c].status = "refused" => ~req[c].ran
         /\ req[c].status = "reply" => req[c].ran
    /\ srv.streams = Cardinality({c \in Conns : req[c].pc \in
         {"hijack", "streamsql", "chunks", "streamed", "streamend"}})

\* The route that answers is the most specific one registered when the request
\* was looked up: it matches, an exact match is never passed over, a template
\* never for a prefix, nor a longer pattern for a shorter of its kind.
MoreSpecific(r, s) ==
    \/ r.kind = "exact" /\ s.kind # "exact"
    \/ r.kind = "template" /\ s.kind = "prefix"
    \/ r.kind = s.kind /\ PathLength(r.path) > PathLength(s.path)

ServedBySpecificRoute ==
    [][\A c \in Conns :
         req[c].pc = "lookup" /\ req'[c].pc = "admit" =>
           LET matching == {i \in 1..Len(svc.routes) :
                   RouteMatches(svc.routes[i], plan.req[c].method, plan.req[c].path)}
               chosen == req'[c].route
           IN  /\ \E i \in matching : svc.routes[i] = chosen
               /\ \A i \in matching : ~MoreSpecific(svc.routes[i], chosen)]_vars

\* A service that is asked to stop stops, and one whose start fails is taken
\* down: no handler, relay, stream, WebSocket or worker thread can keep the
\* stopping thread waiting for ever.
StopReturns == <>(boss.pc = "down")

=============================================================================
