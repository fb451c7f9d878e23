------------------------------ MODULE ClientAio ------------------------------
(***************************************************************************)
(* The client side of ducknng: aio handles (ducknng_sql_aio.c), client     *)
(* sockets (ducknng_sql_socket.c, ducknng_runtime.c) and HTTP response     *)
(* streams (ducknng_http_client_stream.c).                                 *)
(*                                                                         *)
(* SQL threads launch operations, wait, collect, cancel and drop handles   *)
(* and close sockets and streams; NNG completes operations and runs their  *)
(* callbacks on its own threads.  rt->mu guards the tables and the handles *)
(* and is held between two steps only while its holder waits for the mutex *)
(* of a socket, which a synchronous dial, send or receive keeps.           *)
(*                                                                         *)
(* NNG is external: an operation ends with a result, by its timeout when   *)
(* it has one, or by cancellation; cancelling an aio that is between two   *)
(* submissions has no effect.  An id reaches SQL when its launch returns.  *)
(* Abstracted: payloads, error texts, URLs and TLS options, and the body   *)
(* bytes of a stream (HttpClientStream decodes those).                     *)
(***************************************************************************)
EXTENDS Naturals, FiniteSets

CONSTANTS
    Threads,        \* threads that run SQL
    MaxHandles, MaxStreams,     \* bounds on the ids handed out
    Sockets,        \* client sockets
    Protocols,      \* their protocols; "req" and "sub" have calls of their own
    Workloads,      \* records [calls, ids]: the calls each thread makes, and a
                    \* bound on the handles of a behaviour
    Timed,          \* whether launches may have a timeout, subset of BOOLEAN
    Free            \* no holder

Handles == 1 .. MaxHandles
Streams == 1 .. MaxStreams
Reserved == MaxHandles + 1      \* recv_aio_id UINT64_MAX, no handle's id
LaunchKinds == {"request", "send", "recv", "url", "http", "ncurl", "open", "body"}
SocketKinds == {"request", "send", "recv"}
SyncCalls == {"dial", "listen", "sendnow", "recvnow", "asknow", "subscribe"}
Calls == LaunchKinds \cup SyncCalls \cup {"close", "shut", "collect", "drop"}
Terminal == {"ready", "error", "cancelled"}

ASSUME ClientAssumption ==
    /\ MaxHandles \in Nat /\ MaxStreams \in Nat
    /\ Workloads \subseteq [calls : [Threads -> SUBSET Calls], ids : Nat]
    \* a receive that loses its stream while it is launched uses up two ids
    /\ \A w \in Workloads : w.ids + MaxStreams <= MaxHandles
    /\ Timed # {} /\ Timed \subseteq BOOLEAN
    /\ Free \notin Threads \cup Handles /\ Threads \cap Handles = {}

VARIABLES
    load,           \* the workload of this behaviour
    thr,            \* a thread: where, for what, its socket or stream, its
                    \* handle, the handles to filter and to collect
    rtMu,           \* holder of rt->mu while it waits for a socket's mutex
    aios,           \* ids in rt->client_aios
    nextId,         \* rt->next_client_aio_id
    slot,           \* ducknng_client_aio
    op, res,        \* its nng_aio: where, and nng_aio_result
    sock,           \* ducknng_client_socket
    sockMu,         \* holder of sock->mu between steps
    strm,           \* ducknng_http_client_stream
    nextStream,
    frames,         \* reply frames handed to SQL, per handle
    deadUse         \* a connection was used after its stream gave it up

aioVars == <<aios, nextId, slot, op, res, frames>>
sockVars == <<sock, sockMu>>
strmVars == <<strm, nextStream, deadUse>>
vars == <<load, thr, rtMu, aioVars, sockVars, strmVars>>

IdleThread == [at |-> "idle", goal |-> "none", obj |-> 0, hd |-> 0, todo |-> {}, pass |-> {}]
NewSlot == [kind |-> "none", state |-> "none", phase |-> "none", sock |-> Free,
            strm |-> 0, ref |-> 0, reply |-> "none", claimed |-> FALSE, timed |-> TRUE]
NewSock == [listed |-> FALSE, open |-> FALSE, proto |-> "none", connected |-> FALSE,
            listener |-> FALSE, closing |-> FALSE, refs |-> 0, freed |-> FALSE]
NewStrm == [listed |-> FALSE, refs |-> 0, recv |-> 0, open |-> FALSE,
            closing |-> FALSE, failed |-> FALSE, eof |-> FALSE, conn |-> FALSE,
            live |-> FALSE, freed |-> FALSE]

Init ==
    /\ load \in Workloads
    /\ thr = [t \in Threads |-> IdleThread]
    /\ rtMu = Free /\ aios = {} /\ nextId = 1
    /\ slot = [h \in Handles |-> NewSlot]
    /\ op = [h \in Handles |-> "idle"] /\ res = [h \in Handles |-> "ok"]
    /\ sock = [s \in Sockets |-> NewSock] /\ sockMu = [s \in Sockets |-> Free]
    /\ strm = [d \in Streams |-> NewStrm] /\ nextStream = 1
    /\ frames = [h \in Handles |-> 0] /\ deadUse = FALSE

-----------------------------------------------------------------------------
(* Helpers                                                                   *)

\* Thread t goes on at l; a call that returns forgets its locals.
Move(f, t, l) == [f EXCEPT ![t] = IF l = "idle" THEN IdleThread ELSE [@ EXCEPT !.at = l]]
Goto(t, l) == thr' = Move(thr, t, l)
Enter(t, l, g, o) ==
    thr' = [thr EXCEPT ![t] = [IdleThread EXCEPT !.at = l, !.goal = g, !.obj = o]]

Launching == {"acq", "prep", "giveup", "errno", "reserved", "unreserve", "published",
              "submit", "use"}

\* Ids that a launch has returned to SQL.
Known == {h \in aios : \A t \in Threads : ~(thr[t].at \in Launching /\ thr[t].hd = h)}

\* Bound: ids are left for every launch under way and one more.
IdsLeft == nextId + Cardinality({t \in Threads : thr[t].at \in Launching}) <= load.ids

\* Mutant: the end of an operation wakes nobody.
BroadcastAioMissing(a) == a

\* pthread_cond_broadcast(&rt->aio_cv).
BroadcastAio(a) ==
    [t \in Threads |-> IF a[t].at = "asleep" THEN [a[t] EXCEPT !.at = "wait"] ELSE a[t]]

\* Mutant: the last release does not wake the closer.
UnrefSilently(sk, a, s) == <<[sk EXCEPT ![s].refs = IF @ > 0 THEN @ - 1 ELSE 0], a>>

\* ducknng_runtime_release_client_socket: <<sock, thr>> afterwards.
Unref(sk, a, s) ==
    LET left == IF sk[s].refs > 0 THEN sk[s].refs - 1 ELSE 0 IN
    <<[sk EXCEPT ![s].refs = left],
      IF sk[s].closing /\ left = 0
      THEN [t \in Threads |-> IF a[t].at = "waitrefs" /\ a[t].obj = s
                            THEN [a[t] EXCEPT !.at = "closing"] ELSE a[t]]
      ELSE a>>

\* ducknng_runtime_release_http_client_stream; the last reference destroys it.
Release(st, d) ==
    LET left == IF st[d].refs > 0 THEN st[d].refs - 1 ELSE 0 IN
    [st EXCEPT ![d].refs = left,
               ![d].freed = @ \/ left = 0,
               ![d].live = @ /\ ~(left = 0 /\ st[d].conn)]

\* ducknng_runtime_add_client_aio, with the slot the launch filled in.
Publish(h, rec) ==
    /\ h \in Handles           \* bound: an id is left
    /\ aios' = aios \cup {h} /\ nextId' = nextId + 1
    /\ slot' = [slot EXCEPT ![h] = rec]

\* ducknng_client_aio_destroy, as far as the handle goes.
DestroyedSlot(r) ==
    [NewSlot EXCEPT !.kind = r.kind, !.state = "destroyed", !.strm = r.strm, !.claimed = r.claimed]

\* ducknng_client_add_terminal_error_aio.
TerminalError(kind) ==
    /\ Publish(nextId, [NewSlot EXCEPT !.kind = kind, !.state = "error"])
    /\ UNCHANGED <<op, res, frames>>

-----------------------------------------------------------------------------
(* Sockets: open, acquire, the synchronous calls, close                      *)

\* ducknng_open_scalar and ducknng_runtime_add_client_socket; ids never recur.
OpenSocket(s) ==
    /\ rtMu = Free /\ ~sock[s].open
    /\ \E p \in Protocols :
          sock' = [sock EXCEPT ![s].listed = TRUE, ![s].open = TRUE, ![s].proto = p]
    /\ UNCHANGED <<load, thr, rtMu, aioVars, sockMu, strmVars>>

\* The part of ducknng_runtime_acquire_client_socket under sock->mu.
Grab(t, g, s) ==
    /\ sockMu[s] = Free
    /\ IF sock[s].closing
       THEN /\ Enter(t, IF g \in SocketKinds THEN "errno" ELSE "idle", g, s)
            /\ UNCHANGED sock
       ELSE /\ sock' = [sock EXCEPT ![s].refs = @ + 1]
            /\ Enter(t, IF g \in SocketKinds THEN "prep" ELSE "enter", g, s)

\* A call that names a socket looks it up.  rt->mu stays locked while the call
\* waits for sock->mu.
Acquire(t, g, s) ==
    /\ thr[t].at = "idle" /\ rtMu = Free /\ sock[s].open
    /\ g \in load.calls[t] /\ (g \in SocketKinds => IdsLeft)
    /\ \/ /\ ~sock[s].listed /\ g \in SocketKinds /\ Enter(t, "errno", g, s)
          /\ UNCHANGED <<rtMu, sock>>
       \/ sock[s].listed /\ Grab(t, g, s) /\ UNCHANGED rtMu
       \/ /\ sock[s].listed /\ sockMu[s] # Free /\ rtMu' = t
          /\ Enter(t, "acq", g, s) /\ UNCHANGED sock
    /\ UNCHANGED <<load, aioVars, sockMu, strmVars>>

AcquireBlocked(t) ==
    /\ thr[t].at = "acq" /\ Grab(t, thr[t].goal, thr[t].obj) /\ rtMu' = Free
    /\ UNCHANGED <<load, aioVars, sockMu, strmVars>>

\* ducknng_socket_is_active.
Active(s) == sock[s].open /\ (sock[s].connected \/ sock[s].listener)

\* A synchronous call checks before it locks the socket, or (a dial, a listen)
\* after; it keeps the mutex for the whole NNG call.
CheckThenLock(t, ok) ==
    LET s == thr[t].obj IN
    /\ thr[t].at = "enter"
    /\ \/ ~ok /\ Goto(t, "rel") /\ UNCHANGED sockMu
       \/ ok /\ sockMu[s] = Free /\ Goto(t, "io") /\ sockMu' = [sockMu EXCEPT ![s] = t]
    /\ UNCHANGED <<load, rtMu, aioVars, sock, strmVars>>

LockThenCheck(t, ok) == sockMu[thr[t].obj] = Free /\ CheckThenLock(t, ok)

SyncDial(t) == thr[t].goal = "dial" /\ LockThenCheck(t, ~sock[thr[t].obj].connected)
SyncListen(t) == thr[t].goal = "listen" /\ LockThenCheck(t, ~sock[thr[t].obj].listener)
SyncSend(t) == thr[t].goal = "sendnow" /\ CheckThenLock(t, Active(thr[t].obj))
SyncRecv(t) == thr[t].goal = "recvnow" /\ CheckThenLock(t, Active(thr[t].obj))
SyncRequest(t) == /\ thr[t].goal = "asknow"
                  /\ CheckThenLock(t, LET k == sock[thr[t].obj] IN k.connected /\ k.proto = "req")
SyncSubscribe(t) == /\ thr[t].goal = "subscribe"
                    /\ CheckThenLock(t, sock[thr[t].obj].proto = "sub")

\* The NNG call returns; a dial or a listen that succeeded leaves its mark.
SyncReturn(t) ==
    LET s == thr[t].obj IN
    /\ thr[t].at = "io" /\ Goto(t, "rel") /\ sockMu' = [sockMu EXCEPT ![s] = Free]
    /\ \E rv \in BOOLEAN :
          sock' = [sock EXCEPT ![s].connected = @ \/ (rv /\ thr[t].goal = "dial"),
                               ![s].listener = @ \/ (rv /\ thr[t].goal = "listen")]
    /\ UNCHANGED <<load, rtMu, aioVars, strmVars>>

\* The reference goes back; a launch that gave up still owes its error handle.
ReleaseRef(t) ==
    /\ thr[t].at \in {"rel", "giveup"} /\ sockMu[thr[t].obj] = Free
    /\ LET u == Unref(sock, Move(thr, t, IF thr[t].at = "rel" THEN "idle" ELSE "errno"), thr[t].obj)
       IN  sock' = u[1] /\ thr' = u[2]
    /\ UNCHANGED <<load, rtMu, aioVars, sockMu, strmVars>>

\* ducknng_close_scalar: out of the table first.
CloseSocket(t, s) ==
    /\ "close" \in load.calls[t] /\ thr[t].at = "idle" /\ rtMu = Free /\ sock[s].listed
    /\ sock' = [sock EXCEPT ![s].listed = FALSE]
    /\ Enter(t, "close", "close", s)
    /\ UNCHANGED <<load, rtMu, aioVars, sockMu, strmVars>>

\* Mutant: the socket is freed while references are out.
CloseFreeEarly(t) ==
    LET s == thr[t].obj IN
    /\ thr[t].at \in {"close", "closing"} /\ sockMu[s] = Free
    /\ sock' = [sock EXCEPT ![s].closing = TRUE, ![s].freed = TRUE]
    /\ Goto(t, "idle")
    /\ UNCHANGED <<load, rtMu, aioVars, sockMu, strmVars>>

\* ducknng_client_socket_destroy: mark it closing and sleep until the last
\* reference is gone, then free it.
CloseFree(t) ==
    LET s == thr[t].obj IN
    /\ thr[t].at \in {"close", "closing"} /\ sockMu[s] = Free
    /\ sock' = [sock EXCEPT ![s].closing = TRUE, ![s].freed = (sock[s].refs = 0)]
    /\ Goto(t, IF sock[s].refs = 0 THEN "idle" ELSE "waitrefs")
    /\ UNCHANGED <<load, rtMu, aioVars, sockMu, strmVars>>

-----------------------------------------------------------------------------
(* Launches                                                                  *)

\* A launch that failed returns a handle in the error state.
GiveErrorHandle(t) ==
    /\ thr[t].at = "errno" /\ rtMu = Free /\ TerminalError(thr[t].goal) /\ Goto(t, "idle")
    /\ UNCHANGED <<load, rtMu, sockVars, strmVars>>

\* prepare_socket_request_aio, prepare_socket_raw_aio: an unusable socket, or
\* no memory, gives the reference back.
LaunchFails(t) ==
    /\ thr[t].at = "prep" /\ Goto(t, "giveup")
    /\ UNCHANGED <<load, rtMu, aioVars, sockVars, strmVars>>

\* A handle of kind k on the socket, published and then submitted.
LaunchOnSocket(t, k, phase) ==
    /\ thr[t].at = "prep" /\ thr[t].goal = k /\ rtMu = Free
    /\ \E b \in Timed :
          Publish(nextId, [NewSlot EXCEPT !.kind = k, !.state = "pending", !.timed = b,
                           !.phase = phase, !.sock = thr[t].obj])
    /\ op' = [op EXCEPT ![nextId] = "busy"] /\ Goto(t, "idle")
    /\ UNCHANGED <<load, rtMu, res, frames, sockVars, strmVars>>

LaunchSocketRequest(t) ==
    LET k == sock[thr[t].obj] IN
    LaunchOnSocket(t, "request", "send") /\ k.open /\ k.connected /\ k.proto = "req"
LaunchSocketSend(t) == LaunchOnSocket(t, "send", "send") /\ Active(thr[t].obj)
LaunchSocketRecv(t) == LaunchOnSocket(t, "recv", "recv") /\ Active(thr[t].obj)

\* A handle that needs no client socket.
LaunchDirect(t, k, phase) ==
    /\ thr[t].at = "idle" /\ rtMu = Free /\ IdsLeft /\ k \in load.calls[t]
    /\ \/ TerminalError(k)
       \/ /\ \E b \in Timed :
                Publish(nextId, [NewSlot EXCEPT !.kind = k, !.state = "pending", !.timed = b,
                                 !.phase = phase])
          /\ op' = [op EXCEPT ![nextId] = "busy"] /\ UNCHANGED <<res, frames>>
    /\ UNCHANGED <<load, thr, rtMu, sockVars, strmVars>>

\* launch_url_request_aio goes over NNG ("url") or HTTP, by the URL's scheme.
LaunchUrl(t) == LaunchDirect(t, "url", "send") \/ LaunchDirect(t, "http", "http")
LaunchNcurl(t) == LaunchDirect(t, "ncurl", "http")

\* launch_ncurl_stream_open_aio: the stream is registered, then the handle.
LaunchOpen(t) ==
    /\ thr[t].at = "idle" /\ rtMu = Free /\ IdsLeft /\ "open" \in load.calls[t]
    /\ \/ TerminalError("open") /\ UNCHANGED strmVars
       \/ /\ nextStream \in Streams /\ nextStream' = nextStream + 1
          /\ strm' = [strm EXCEPT ![nextStream].listed = TRUE, ![nextStream].refs = 1]
          /\ \E b \in Timed :
                Publish(nextId, [NewSlot EXCEPT !.kind = "open", !.state = "pending",
                                 !.phase = "connect", !.timed = b, !.strm = nextStream])
          /\ op' = [op EXCEPT ![nextId] = "busy"] /\ UNCHANGED <<res, frames, deadUse>>
    /\ UNCHANGED <<load, thr, rtMu, sockVars>>

\* Streams SQL has been told of.
Claimed == {d \in Streams : \E h \in Handles : slot[h].kind = "open" /\ slot[h].claimed
                                               /\ slot[h].strm = d}

\* Mutant: a receive is started on a stream that has one.
ReserveTwice(t, d) ==
    /\ thr[t].at = "idle" /\ rtMu = Free /\ IdsLeft /\ "body" \in load.calls[t] /\ d \in Claimed
    /\ strm[d].listed /\ strm[d].open /\ ~strm[d].closing /\ ~strm[d].failed
    /\ strm' = [strm EXCEPT ![d].recv = Reserved, ![d].refs = @ + 1]
    /\ Enter(t, "reserved", "body", d)
    /\ UNCHANGED <<load, rtMu, aioVars, sockVars, nextStream, deadUse>>

\* launch_ncurl_stream_recv_aio, first critical section: one receive a stream.
ReserveReceive(t, d) ==
    /\ thr[t].at = "idle" /\ rtMu = Free /\ IdsLeft /\ "body" \in load.calls[t] /\ d \in Claimed
    /\ IF /\ strm[d].listed /\ strm[d].open /\ ~strm[d].closing /\ ~strm[d].failed
          /\ strm[d].recv = 0
       THEN /\ strm' = [strm EXCEPT ![d].recv = Reserved, ![d].refs = @ + 1]
            /\ Enter(t, "reserved", "body", d)
       ELSE Enter(t, "errno", "body", d) /\ UNCHANGED strm
    /\ UNCHANGED <<load, rtMu, aioVars, sockVars, nextStream, deadUse>>

\* It allocates the handle, or not, and adds it to the table.
RegisterReceive(t) ==
    LET d == thr[t].obj IN
    /\ thr[t].at = "reserved"
    /\ \/ Goto(t, "unreserve") /\ UNCHANGED aioVars
       \/ /\ rtMu = Free /\ thr' = [thr EXCEPT ![t].at = "published", ![t].hd = nextId]
          /\ \E b \in Timed :
                Publish(nextId, [NewSlot EXCEPT !.kind = "body", !.state = "pending",
                                 !.phase = "read", !.timed = b, !.strm = d, !.ref = d])
          /\ UNCHANGED <<op, res, frames>>
    /\ UNCHANGED <<load, rtMu, sockVars, strmVars>>

\* Mutant: the reference of the receive is not given back.
EndReceiveLeaks(st, d, h) == [st EXCEPT ![d].recv = IF @ = h THEN 0 ELSE @]

\* The end of a receive: the stream is free for another one, and the reference
\* of the handle goes back.
EndReceive(st, d, h) ==
    Release([st EXCEPT ![d].recv = IF @ = h THEN 0 ELSE @], d)

\* What ducknng_http_stream_process makes of the bytes at hand.
BodyOutcomes == {"more", "data", "eof", "bad"}

\* A receive handle that ends in state s.
Ended(h, s, out) ==
    slot' = [slot EXCEPT ![h].state = s, ![h].ref = 0,
                         ![h].reply = IF out = "data" THEN "held" ELSE @]

\* Second critical section: the stream must still be there; buffered bytes may
\* already answer (recv_begin).
BeginReceive(t) ==
    LET d == thr[t].obj  h == thr[t].hd IN
    /\ thr[t].at = "published" /\ rtMu = Free
    /\ \/ /\ ~(strm[d].listed /\ strm[d].recv = Reserved)
          /\ aios' = aios \ {h} /\ slot' = [slot EXCEPT ![h] = DestroyedSlot(@)]
          /\ Goto(t, "unreserve") /\ UNCHANGED strm
       \/ /\ strm[d].listed /\ strm[d].recv = Reserved /\ UNCHANGED aios
          /\ \E out \in IF strm[d].failed \/ strm[d].closing THEN {"refused"}
                        ELSE IF strm[d].eof THEN {"eof"} ELSE BodyOutcomes :
             IF out = "more"
             THEN /\ strm' = [strm EXCEPT ![d].recv = h]
                  /\ Goto(t, "submit") /\ UNCHANGED slot
             ELSE /\ strm' = Release([strm EXCEPT ![d].recv = 0, ![d].eof = @ \/ out = "eof",
                                                  ![d].failed = @ \/ out = "bad"], d)
                  /\ Ended(h, IF out \in {"data", "eof"} THEN "ready" ELSE "error", out)
                  /\ thr' = BroadcastAio(Move(thr, t, "idle"))
    /\ UNCHANGED <<load, rtMu, nextId, op, res, frames, sockVars, nextStream, deadUse>>

\* ducknng_http_client_stream_submit reads stream->conn without a lock...
SubmitReceive(t) ==
    LET d == thr[t].obj  h == thr[t].hd IN
    /\ thr[t].at = "submit"
    /\ IF strm[d].conn
       THEN Goto(t, "use") /\ UNCHANGED <<slot, strm>>
       ELSE /\ rtMu = Free /\ strm' = EndReceive(strm, d, h) /\ Ended(h, "error", "bad")
            /\ thr' = BroadcastAio(Move(thr, t, "idle"))
    /\ UNCHANGED <<load, rtMu, aios, nextId, op, res, frames, sockVars, nextStream,
                   deadUse>>

\* ...and then uses it.  A connection that was taken away in between may be
\* closed, or not yet.
StartRead(h, d) ==
    \/ /\ strm[d].conn \/ strm[d].live
       /\ op' = [op EXCEPT ![h] = "busy"] /\ UNCHANGED <<res, deadUse>>
    \/ /\ ~strm[d].conn /\ deadUse' = TRUE
       /\ op' = [op EXCEPT ![h] = "done"] /\ res' = [res EXCEPT ![h] = "fail"]

UseConnection(t) ==
    /\ thr[t].at = "use" /\ StartRead(thr[t].hd, thr[t].obj) /\ Goto(t, "idle")
    /\ UNCHANGED <<load, rtMu, aios, nextId, slot, frames, sockVars, strm, nextStream>>

\* fail_reservation.
CancelReservation(t) ==
    LET d == thr[t].obj IN
    /\ thr[t].at = "unreserve" /\ rtMu = Free /\ Goto(t, "errno")
    /\ strm' = Release([strm EXCEPT ![d].recv = IF @ = Reserved THEN 0 ELSE @], d)
    /\ UNCHANGED <<load, rtMu, aioVars, sockVars, nextStream, deadUse>>

-----------------------------------------------------------------------------
(* Completions and ducknng_client_aio_cb                                     *)

Complete(h, rv) ==
    /\ op[h] = "busy" /\ op' = [op EXCEPT ![h] = "done"] /\ res' = [res EXCEPT ![h] = rv]
    /\ UNCHANGED <<load, thr, rtMu, aios, nextId, slot, frames, sockVars, strmVars>>

NngCompletes(h) == \E rv \in {"ok", "fail"} : Complete(h, rv)

NngExpires(h) == slot[h].timed /\ Complete(h, "timeout")

StateOf(rv) == CASE rv = "ok" -> "ready" [] rv = "cancel" -> "cancelled" [] OTHER -> "error"

OpRests(h) == op' = [op EXCEPT ![h] = "idle"] /\ res' = [res EXCEPT ![h] = "ok"]

\* The terminal state of an operation: its reply is kept, its socket reference
\* goes back, waiters are woken.
Finish(h, st) ==
    LET s == slot[h].sock
        u == IF s = Free THEN <<sock, thr>> ELSE Unref(sock, thr, s) IN
    /\ s # Free => sockMu[s] = Free
    /\ slot' = [slot EXCEPT ![h].state = st, ![h].sock = Free,
                            ![h].reply = IF st = "ready" /\ slot[h].kind # "send"
                                         THEN "held" ELSE @]
    /\ sock' = u[1] /\ thr' = BroadcastAio(u[2])

\* Requests, sends, receives and HTTP transactions.  A request that was sent
\* goes on to its reply; an HTTP answer may not be usable.
CallbackEnds(h) ==
    /\ \/ op[h] = "done" /\ rtMu = Free
       \/ op[h] = "unref" /\ rtMu = h
    /\ slot[h].kind \in LaunchKinds \ {"open", "body"}
    /\ ~(res[h] = "ok" /\ slot[h].kind \in {"request", "url"} /\ slot[h].phase = "send")
    /\ \/ Finish(h, StateOf(res[h]))
       \/ res[h] = "ok" /\ slot[h].phase = "http" /\ Finish(h, "error")
    /\ OpRests(h) /\ rtMu' = Free
    /\ UNCHANGED <<load, aios, nextId, frames, sockMu, strmVars>>

\* It holds rt->mu while it waits to give the socket reference back.
CallbackBlocked(h) ==
    /\ op[h] = "done" /\ rtMu = Free /\ slot[h].sock # Free /\ sockMu[slot[h].sock] # Free
    /\ ~(res[h] = "ok" /\ slot[h].kind = "request" /\ slot[h].phase = "send")
    /\ op' = [op EXCEPT ![h] = "unref"] /\ rtMu' = h
    /\ UNCHANGED <<load, thr, aios, nextId, slot, res, frames, sockVars, strmVars>>

\* The request is sent: rt->mu is released, then the receive is submitted.
CallbackSent(h) ==
    /\ op[h] = "done" /\ rtMu = Free /\ res[h] = "ok"
    /\ slot[h].kind \in {"request", "url"} /\ slot[h].phase = "send"
    /\ slot' = [slot EXCEPT ![h].phase = "recv"] /\ op' = [op EXCEPT ![h] = "rearm"]
    /\ UNCHANGED <<load, thr, rtMu, aios, nextId, res, frames, sockVars, strmVars>>

\* ducknng_http_client_stream_open_advance: connect, write, read the headers.
CallbackOpen(h) ==
    LET d == slot[h].strm  next == [connect |-> "write", write |-> "headers"] IN
    /\ op[h] = "done" /\ rtMu = Free /\ slot[h].kind = "open"
    /\ \/ /\ res[h] = "ok" /\ slot[h].phase # "headers"
          /\ slot' = [slot EXCEPT ![h].phase = next[@]] /\ op' = [op EXCEPT ![h] = "rearm"]
          /\ strm' = [strm EXCEPT ![d].conn = TRUE, ![d].live = TRUE] /\ UNCHANGED <<thr, res>>
       \/ /\ res[h] = "ok" /\ slot[h].phase = "headers"
          /\ slot' = [slot EXCEPT ![h].state = "ready"]
          /\ \E bodyless \in BOOLEAN :
                strm' = [strm EXCEPT ![d].open = TRUE, ![d].eof = bodyless]
          /\ OpRests(h) /\ thr' = BroadcastAio(thr)
       \/ /\ slot' = [slot EXCEPT ![h].state = IF res[h] = "cancel" THEN "cancelled" ELSE "error"]
          /\ strm' = [strm EXCEPT ![d].failed = TRUE]
          /\ OpRests(h) /\ thr' = BroadcastAio(thr)
    /\ UNCHANGED <<load, rtMu, aios, nextId, frames, sockVars, nextStream, deadUse>>

\* ducknng_http_client_stream_recv_advance.
CallbackBody(h) ==
    LET d == slot[h].ref IN
    /\ op[h] = "done" /\ rtMu = Free /\ slot[h].kind = "body"
    /\ \E out \in IF res[h] = "ok" THEN BodyOutcomes
                  ELSE {"bad"} \cup IF res[h] = "fail" /\ ~strm[d].closing THEN {"eof"} ELSE {} :
       IF out = "more"
       THEN op' = [op EXCEPT ![h] = "rearm"] /\ UNCHANGED <<thr, slot, strm, res>>
       ELSE /\ Ended(h, IF out # "bad" THEN "ready"
                        ELSE IF res[h] = "cancel" \/ strm[d].closing THEN "cancelled"
                        ELSE "error", out)
            /\ strm' = EndReceive([strm EXCEPT ![d].eof = @ \/ out = "eof",
                                               ![d].failed = @ \/ out = "bad"], d, h)
            /\ OpRests(h) /\ thr' = BroadcastAio(thr)
    /\ UNCHANGED <<load, rtMu, aios, nextId, frames, sockVars, nextStream, deadUse>>

\* The next submission, outside rt->mu.
Resubmit(h) ==
    /\ op[h] = "rearm" /\ slot[h].kind # "body" /\ op' = [op EXCEPT ![h] = "busy"]
    /\ UNCHANGED <<load, thr, rtMu, aios, nextId, slot, res, frames, sockVars, strmVars>>

ResubmitBody(h) ==
    /\ slot[h].kind = "body"
    /\ \/ /\ op[h] = "rearm" /\ strm[slot[h].ref].conn /\ op' = [op EXCEPT ![h] = "use"]
          /\ UNCHANGED <<res, deadUse>>
       \/ op[h] = "use" /\ StartRead(h, slot[h].ref)
    /\ UNCHANGED <<load, thr, rtMu, aios, nextId, slot, frames, sockVars, strm, nextStream>>

\* Mutant: the handle of a stream step that cannot be resubmitted stays pending.
ResubmitFailsSilently(h) ==
    /\ op[h] = "rearm" /\ rtMu = Free /\ slot[h].kind \in {"open", "body"}
    /\ slot[h].timed \/ (slot[h].kind = "body" /\ ~strm[slot[h].strm].conn)
    /\ OpRests(h)
    /\ UNCHANGED <<load, thr, rtMu, aios, nextId, slot, frames, sockVars, strmVars>>

\* A stream step cannot be resubmitted: ducknng_client_aio_refresh_timeout finds
\* the time used up, or the connection is gone.
ResubmitFails(h) ==
    LET d == slot[h].strm IN
    /\ op[h] = "rearm" /\ rtMu = Free /\ slot[h].kind \in {"open", "body"}
    /\ slot[h].timed \/ (slot[h].kind = "body" /\ ~strm[d].conn)
    /\ Ended(h, "error", "bad") /\ OpRests(h) /\ thr' = BroadcastAio(thr)
    /\ LET st == [strm EXCEPT ![d].failed = TRUE] IN
       strm' = IF slot[h].kind = "body" THEN EndReceive(st, d, h) ELSE st
    /\ UNCHANGED <<load, rtMu, aios, nextId, frames, sockVars, nextStream, deadUse>>

-----------------------------------------------------------------------------
(* SQL calls on handles and streams                                          *)

\* Mutant: a cancellation decides the outcome before NNG has answered.
CancelMarks(h) ==
    /\ rtMu = Free /\ h \in Known /\ slot[h].state = "pending" /\ op[h] \in {"busy", "done"}
    /\ slot' = [slot EXCEPT ![h].state = "cancelled"]
    /\ UNCHANGED <<load, thr, rtMu, aios, nextId, op, res, frames, sockVars, strmVars>>

\* ducknng_aio_cancel_scalar.  NNG ends an operation it has; one that has just
\* ended may still be turned into a cancellation; a pause between two
\* submissions forgets the request.
CancelAio(h) ==
    /\ rtMu = Free /\ h \in Known /\ slot[h].state = "pending"
    /\ \/ op[h] = "busy" /\ op' = [op EXCEPT ![h] = "done"] /\ res' = [res EXCEPT ![h] = "cancel"]
       \/ op[h] = "done" /\ res' = [res EXCEPT ![h] = "cancel"] /\ UNCHANGED op
    /\ UNCHANGED <<load, thr, rtMu, aios, nextId, slot, frames, sockVars, strmVars>>

\* Mutant: a pending handle can be dropped.
DropCheckAny(t, h) ==
    /\ "drop" \in load.calls[t] /\ thr[t].at = "idle" /\ rtMu = Free /\ h \in Known
    /\ thr' = [thr EXCEPT ![t].at = "drop", ![t].hd = h]
    /\ UNCHANGED <<load, rtMu, aioVars, sockVars, strmVars>>

\* ducknng_aio_drop_scalar looks at the state, unlocks,...
DropCheck(t, h) ==
    /\ "drop" \in load.calls[t] /\ thr[t].at = "idle" /\ rtMu = Free
    /\ h \in Known /\ slot[h].state # "pending"
    /\ thr' = [thr EXCEPT ![t].at = "drop", ![t].hd = h]
    /\ UNCHANGED <<load, rtMu, aioVars, sockVars, strmVars>>

\* Mutant: an unclaimed stream stays behind.
DropRemoveKeepsStream(t) ==
    LET h == thr[t].hd IN
    /\ thr[t].at = "drop" /\ rtMu = Free /\ Goto(t, "idle")
    /\ aios' = aios \ {h}
    /\ slot' = [slot EXCEPT ![h] = DestroyedSlot(@)]
    /\ UNCHANGED <<load, rtMu, nextId, op, res, frames, sockVars, strmVars>>

\* ...and removes and destroys the handle, with the stream of an open nobody
\* collected.
DropRemove(t) ==
    LET h == thr[t].hd  d == slot[h].strm IN
    /\ thr[t].at = "drop" /\ rtMu = Free /\ Goto(t, "idle")
    /\ IF h \in aios
       THEN /\ aios' = aios \ {h}
            /\ slot' = [slot EXCEPT ![h] = DestroyedSlot(@)]
            /\ strm' = IF slot[h].kind = "open" /\ ~slot[h].claimed /\ d # 0
                       THEN Release([strm EXCEPT ![d].listed = FALSE], d) ELSE strm
       ELSE UNCHANGED <<aios, slot, strm>>
    /\ UNCHANGED <<load, rtMu, nextId, op, res, frames, sockVars, nextStream, deadUse>>

Family(k) == IF k \in {"ncurl", "open", "body"} THEN k ELSE "frame"

\* A collect macro over the ids in S: wait, filter, collect each.
CollectStart(t, S, f) ==
    /\ "collect" \in load.calls[t] /\ thr[t].at = "idle"
    /\ thr' = [thr EXCEPT ![t] = [IdleThread EXCEPT !.at = "wait", !.goal = f, !.todo = S]]
    /\ UNCHANGED <<load, rtMu, aioVars, sockVars, strmVars>>

Collectable(S) == {h \in S \cap aios : slot[h].state \in Terminal}

\* ducknng_wait_any_for_ids: one collectable handle is enough; otherwise it
\* sleeps on aio_cv or gives up.
WaitAny(t) ==
    /\ thr[t].at = "wait" /\ rtMu = Free
    /\ IF Collectable(thr[t].todo) # {} THEN Goto(t, "filter")
       ELSE \E l \in {"asleep", "idle"} : Goto(t, l)
    /\ UNCHANGED <<load, rtMu, aioVars, sockVars, strmVars>>

WaitTimesOut(t) ==
    /\ thr[t].at = "asleep" /\ rtMu = Free /\ Goto(t, "idle")
    /\ UNCHANGED <<load, rtMu, aioVars, sockVars, strmVars>>

\* The collectable scalars, handle by handle.
FilterCollectable(t) ==
    /\ thr[t].at = "filter" /\ rtMu = Free
    /\ IF thr[t].todo = {} THEN Goto(t, "rows")
       ELSE LET h == CHOOSE x \in thr[t].todo : \A y \in thr[t].todo : x <= y IN
            thr' = [thr EXCEPT ![t].todo = @ \ {h}, ![t].pass =
                  IF h \in Collectable({h}) /\ Family(slot[h].kind) = thr[t].goal
                  THEN @ \cup {h} ELSE @]
    /\ UNCHANGED <<load, rtMu, aioVars, sockVars, strmVars>>

\* A collect_row scalar takes the next handle of its macro; states says what it
\* still accepts, rec what becomes of the handle.
NextRow(t) == CHOOSE x \in thr[t].pass : \A y \in thr[t].pass : x <= y

CollectRow(t, f, states, rec) ==
    /\ thr[t].at = "rows" /\ thr[t].goal = f /\ thr[t].pass # {} /\ rtMu = Free
    /\ LET h == NextRow(t) IN
       /\ thr' = [thr EXCEPT ![t].pass = @ \ {h}]
       /\ IF h \in aios /\ slot[h].state \in states
          THEN /\ slot' = [slot EXCEPT ![h] = [rec EXCEPT !.state = "collected"]]
               /\ frames' = [frames EXCEPT ![h] = @ + IF slot[h].reply = "held" THEN 1 ELSE 0]
          ELSE UNCHANGED <<slot, frames>>
    /\ UNCHANGED <<load, rtMu, aios, nextId, op, res, sockVars, strmVars>>

\* Mutant: the frame stays with the handle.
CollectFrameAgain(t) ==
    CollectRow(t, "frame", Terminal \cup {"collected"}, slot[NextRow(t)])

\* The frame goes out with the first row; a handle that another thread has
\* collected meanwhile gives a row without one.
CollectFrame(t) ==
    CollectRow(t, "frame", Terminal \cup {"collected"},
               [slot[NextRow(t)] EXCEPT !.reply = "none"])
\* The answer of an HTTP transaction stays with the handle.
CollectNcurl(t) ==
    CollectRow(t, "ncurl", Terminal \cup {"collected"}, slot[NextRow(t)])
\* SQL learns the stream's id: the stream outlives the handle.
CollectOpen(t) ==
    LET r == slot[NextRow(t)] IN
    CollectRow(t, "open", Terminal,
               [r EXCEPT !.claimed = (r.state = "ready" /\ strm[r.strm].listed)])
CollectBody(t) ==
    CollectRow(t, "body", Terminal, [slot[NextRow(t)] EXCEPT !.reply = "none"])

CollectDone(t) ==
    /\ thr[t].at = "rows" /\ thr[t].pass = {} /\ Goto(t, "idle")
    /\ UNCHANGED <<load, rtMu, aioVars, sockVars, strmVars>>

\* ducknng_ncurl_stream_close_scalar takes the connection under the lock,...
CloseStream(t, d) ==
    /\ "shut" \in load.calls[t] /\ thr[t].at = "idle" /\ rtMu = Free
    /\ d \in Claimed /\ strm[d].listed /\ ~strm[d].closing
    /\ strm' = [strm EXCEPT ![d].closing = TRUE, ![d].conn = FALSE]
    /\ Enter(t, "shut", "shut", d)
    /\ UNCHANGED <<load, rtMu, aioVars, sockVars, nextStream, deadUse>>

\* ...closes it, which ends a read NNG has, without the lock,...
CloseConnection(t) ==
    LET d == thr[t].obj
        reading == {h \in Handles : slot[h].kind = "body" /\ slot[h].ref = d /\ op[h] = "busy"} IN
    /\ thr[t].at = "shut" /\ strm' = [strm EXCEPT ![d].live = FALSE] /\ Goto(t, "unlist")
    /\ op' = [h \in Handles |-> IF h \in reading THEN "done" ELSE op[h]]
    /\ res' = [h \in Handles |-> IF h \in reading THEN "fail" ELSE res[h]]
    /\ UNCHANGED <<load, rtMu, aios, nextId, slot, frames, sockVars, nextStream, deadUse>>

\* ...and takes the stream out of the registry.
UnlistStream(t) ==
    LET d == thr[t].obj IN
    /\ thr[t].at = "unlist" /\ rtMu = Free /\ Goto(t, "idle")
    /\ strm' = Release([strm EXCEPT ![d].listed = FALSE], d)
    /\ UNCHANGED <<load, rtMu, aioVars, sockVars, nextStream, deadUse>>

-----------------------------------------------------------------------------
(* Specification                                                             *)

ThreadStep(t) ==
    \/ AcquireBlocked(t) \/ SyncDial(t) \/ SyncListen(t) \/ SyncSend(t) \/ SyncRecv(t)
    \/ SyncRequest(t) \/ SyncSubscribe(t) \/ SyncReturn(t) \/ ReleaseRef(t)
    \/ CloseFree(t) \/ GiveErrorHandle(t) \/ LaunchFails(t)
    \/ LaunchSocketRequest(t) \/ LaunchSocketSend(t) \/ LaunchSocketRecv(t)
    \/ RegisterReceive(t) \/ BeginReceive(t) \/ SubmitReceive(t) \/ UseConnection(t)
    \/ CancelReservation(t) \/ DropRemove(t) \/ WaitAny(t) \/ WaitTimesOut(t)
    \/ FilterCollectable(t) \/ CollectFrame(t) \/ CollectNcurl(t) \/ CollectOpen(t)
    \/ CollectBody(t) \/ CollectDone(t) \/ CloseConnection(t) \/ UnlistStream(t)

Callback(h) ==
    \/ CallbackEnds(h) \/ CallbackBlocked(h) \/ CallbackSent(h) \/ CallbackOpen(h)
    \/ CallbackBody(h) \/ Resubmit(h) \/ ResubmitBody(h) \/ ResubmitFails(h)

SqlCall(t) ==
    \/ \E s \in Sockets :
          CloseSocket(t, s) \/ \E g \in SocketKinds \cup SyncCalls : Acquire(t, g, s)
    \/ LaunchOpen(t) \/ LaunchUrl(t) \/ LaunchNcurl(t)
    \/ \E d \in Streams : ReserveReceive(t, d) \/ CloseStream(t, d)
    \/ \E h \in Known : DropCheck(t, h)
    \/ \E S \in SUBSET Known \ {{}} : \E f \in {Family(slot[h].kind) : h \in S} :
          CollectStart(t, S, f)

Next ==
    \/ \E t \in Threads : ThreadStep(t) \/ SqlCall(t)
    \/ \E h \in Handles : Callback(h) \/ NngCompletes(h) \/ NngExpires(h) \/ CancelAio(h)
    \/ \E s \in Sockets : OpenSocket(s)

Spec == Init /\ [][Next]_vars

\* Threads and NNG's callbacks keep running, a mutex is granted to a waiter in
\* the end, and a timeout that is set expires.
Fairness ==
    /\ \A t \in Threads : SF_vars(ThreadStep(t))
    /\ \A h \in Handles : /\ SF_vars(Callback(h))
                          /\ SF_vars(NngExpires(h))

FairSpec == Spec /\ Fairness

-----------------------------------------------------------------------------
(* Properties                                                                *)

Labels == {"idle", "acq", "prep", "giveup", "errno", "reserved", "published", "submit", "use",
           "unreserve", "enter", "io", "rel", "close", "closing", "waitrefs", "drop", "wait",
           "asleep", "filter", "rows", "shut", "unlist"}

\* Every variable has its type.
TypeOK ==
    /\ \A t \in Threads : /\ thr[t].at \in Labels /\ thr[t].hd \in 0 .. MaxHandles
                          /\ thr[t].todo \cup thr[t].pass \subseteq Handles
    /\ rtMu \in {Free} \cup Threads \cup Handles
    /\ aios \subseteq Handles /\ nextId \in 1 .. MaxHandles + 1
    /\ \A h \in Handles :
          /\ slot[h].state \in {"none", "pending", "collected", "destroyed"} \cup Terminal
          /\ op[h] \in {"idle", "busy", "done", "unref", "rearm", "use"}
          /\ res[h] \in {"ok", "fail", "timeout", "cancel"}
          /\ op[h] # "idle" => slot[h].state = "pending"
    /\ \A s \in Sockets : sock[s].refs \in Nat /\ sockMu[s] \in {Free} \cup Threads
    /\ \A d \in Streams : strm[d].refs \in Nat
    /\ frames \in [Handles -> Nat] /\ deadUse \in BOOLEAN

\* Holders of a reference to socket s: calls under way and unfinished handles.
SockUsers(s) ==
    {t \in Threads : thr[t].obj = s /\ thr[t].at \in {"prep", "giveup", "enter", "io", "rel"}}
    \cup {h \in Handles : slot[h].sock = s}

\* A socket's refcount is the number of calls and handles that use it, and the
\* socket is freed only when there are none: acquire and release are paired on
\* every path, the callback's included.
SocketRefsExact ==
    \A s \in Sockets : /\ sock[s].refs = Cardinality(SockUsers(s))
                       /\ sock[s].freed => SockUsers(s) = {} /\ sockMu[s] = Free

\* The registry, the launch that reserved and the pending receive each own one
\* reference of a stream; a stream is destroyed exactly when nobody does.
StreamRefsExact ==
    \A d \in Streams :
       LET users == (IF strm[d].listed THEN {Free} ELSE {})
                    \cup {h \in Handles : slot[h].ref = d}
                    \cup {t \in Threads : thr[t].goal = "body" /\ thr[t].obj = d
                                          /\ thr[t].at \in {"reserved", "unreserve"}}
       IN  /\ strm[d].refs = Cardinality(users)
           /\ d < nextStream => (strm[d].freed <=> users = {})

\* Receives under way on stream d, from the reservation on.
Receiving(d) ==
    {t \in Threads : thr[t].goal = "body" /\ thr[t].obj = d /\ thr[t].at = "reserved"}
    \cup {h \in Handles : slot[h].kind = "body" /\ slot[h].ref = d /\ slot[h].state = "pending"}

\* At most one receive reads a stream at a time: two would share raw_buf.
OneReceive == \A d \in Streams : Cardinality(Receiving(d)) <= 1

\* A reply frame or a stretch of a body reaches SQL at most once, however many
\* threads collect, cancel and drop the handle.
DeliveredOnce ==
    \A h \in Handles : slot[h].kind # "ncurl" => frames[h] <= 1

\* No lost wakeup: a thread asleep in a wait has nothing to collect.
NoMissedWakeup ==
    \A t \in Threads : thr[t].at = "asleep" => Collectable(thr[t].todo) = {}

\* A stream that SQL was never told of is owned by its open handle: no stream
\* is left in the registry that nobody can close.
StreamsReachable ==
    \A d \in Streams : strm[d].listed =>
       d \in Claimed \/ \E h \in aios : slot[h].kind = "open" /\ slot[h].strm = d

\* What a step may do to a handle that has ended.
OutcomeKept ==
    \A h \in Handles : slot[h].state # "pending" =>
        /\ slot[h].state # "none" => slot'[h].state \in {slot[h].state, "collected", "destroyed"}
        /\ slot[h].state = "collected" => slot'[h].state \in {"collected", "destroyed"}
        /\ slot[h].state = "destroyed" => slot'[h] = slot[h]

\* An operation that has ended keeps its outcome: a late callback, a
\* cancellation or a second collection never revives or rewrites it.
OutcomeFinal == [][OutcomeKept]_vars

\* With a timeout every operation ends.
TimedEnd ==
    \A h \in Handles : slot[h].state = "pending" /\ slot[h].timed ~> slot[h].state # "pending"

\* Closing a socket returns: the references it waits for come back, although
\* callbacks give them back under two mutexes.
CloseReturns == \A t \in Threads : thr[t].at \in {"close", "waitrefs"} ~> thr[t].at = "idle"

\* What the comment in ducknng_ncurl_stream_close_scalar says: the receive of a
\* stream has finished when the stream leaves the registry.
CloseDrainsReceive ==
    \A d \in Streams : d < nextStream /\ ~strm[d].listed => Receiving(d) = {}

\* Sockets and streams live exactly as long as something refers to them, and
\* something that SQL can name refers to every stream in the registry.
ReferencesExact == TypeOK /\ SocketRefsExact /\ StreamRefsExact /\ StreamsReachable

\* One receive reads a stream at a time and one caller gets what it read.
ReceivedOnce == OneReceive /\ DeliveredOnce

\* Nothing SQL waits for lasts for ever: an operation with a timeout, a socket's close.
WaitsEnd == TimedEnd /\ CloseReturns
=============================================================================
