---------------------------- MODULE SessionTable ----------------------------
(***************************************************************************)
(* The session table of one ducknng service (ducknng_session.c) under the  *)
(* query and upload method handlers (ducknng_methods.c) that REP workers   *)
(* and HTTP handlers run concurrently, and under ducknng_service_stop.     *)
(*                                                                         *)
(* Kept: every lock (svc->mu, session->mu) that is held while another lock *)
(* is waited for or while SQL runs, the reference count with its condition *)
(* variable, the idle pruner that releases svc->mu around a destroy, the   *)
(* pinned pool connection and the upload transaction on it, every early    *)
(* return that leaves state behind.                                        *)
(*                                                                         *)
(* Abstracted: payload formats and reply texts; rows are counted; the idle *)
(* clock is the Boolean "untouched for more than session_idle_ms"; a token *)
(* either is the session's or is not; allocation, SQL and rate failures    *)
(* are nondeterministic; the pending/streaming result pair is one state.   *)
(***************************************************************************)
EXTENDS Naturals, FiniteSets

CONSTANTS
    Workers,          \* REP worker threads and HTTP handler threads
    Stopper,          \* the thread that calls ducknng_stop_server
    MaxSessionId,     \* bound on session ids handed out
    Clients,          \* caller identities
    Anonymous,        \* the identity of a caller the transport cannot verify
    Conns,            \* the execution pool at its ceiling
    Requests,         \* the requests clients send
    MaxOpen,          \* max_open_sessions, 0 when unlimited
    MaxPerIdentity,   \* max_sessions_per_peer_identity, 0 when unlimited
    MaxRows,          \* bound on the rows one transaction holds
    PruneEnabled,     \* session_idle_ms # 0
    SqlUsesService,   \* session SQL may call a scalar that locks svc->mu
    SqlLeavesTxn,     \* leading statements may leave a transaction open
    None

SessionIds == 1 .. MaxSessionId
Procs == Workers \cup {Stopper}

QueryControls == {"close", "cancel"}
UploadControls == {"upload_commit", "upload_abort"}
OpenOps == {"query_open", "upload_open"}
Ops == OpenOps \cup QueryControls \cup UploadControls \cup {"fetch", "upload_append"}

ASSUME ConstantsAssumption ==
    /\ MaxSessionId \in Nat /\ MaxRows \in Nat
    /\ MaxOpen \in Nat /\ MaxPerIdentity \in Nat
    /\ PruneEnabled \in BOOLEAN /\ SqlUsesService \in BOOLEAN /\ SqlLeavesTxn \in BOOLEAN
    /\ IsFiniteSet(Workers) /\ Stopper \notin Workers
    /\ None \notin Procs \cup Conns \cup SessionIds \cup Requests
    /\ Requests \subseteq [op : Ops, id : SessionIds, caller : Clients, token : BOOLEAN]

VARIABLES
    svcMu,          \* holder of svc->mu
    sessions,       \* ids in svc->sessions: the array is ordered by id
    nextId,         \* svc->next_session_id
    shutting_down,  \* svc->shutting_down
    phase,          \* "absent", "live" (allocated) or "freed"
    kind, owner,    \* is_upload and owner_identity, written once
    mu,             \* holder of session->mu while it is held across steps
    refcount, closing, cancelled, eos,
    idle,           \* now - last_touch_ms > session_idle_ms
    scon,           \* session_con: the pinned pool connection
    appender, txn,  \* upload_appender_open, upload_txn_open
    acked,          \* upload_rows
    busy,           \* connections marked busy in the pool
    inTxn,          \* connections with an explicit transaction (DuckDB)
    pendingRows,    \* rows appended on a connection and not yet committed
    persisted,      \* rows of a session that reached the table
    pc, req, reply, \* control state, request and reply of each thread
    tid,            \* session id the handler looks up
    cur,            \* session pointer the handler holds
    ocon,           \* connection an open handler holds before the session does
    idx,            \* the pruner's index i
    ret,            \* where a destroy returns to
    doomed,         \* sessions service_stop detached and has still to destroy
    known           \* sessions whose token a client was sent

tableVars == <<svcMu, sessions, nextId, shutting_down>>
lifeVars == <<phase, kind, owner, scon>>
lockVars == <<mu, refcount, closing>>
queryVars == <<cancelled, eos>>
uploadVars == <<appender, txn, acked>>
sessVars == <<lifeVars, lockVars, queryVars, uploadVars, idle>>
dbVars == <<busy, inTxn, pendingRows, persisted>>
frameVars == <<cur, ocon, idx, ret, doomed>>
callVars == <<req, tid, frameVars, known>>
vars == <<tableVars, sessVars, dbVars, callVars, pc, reply>>

Init ==
    /\ svcMu = None /\ sessions = {} /\ nextId = 1 /\ shutting_down = FALSE
    /\ phase = [s \in SessionIds |-> "absent"]
    /\ kind = [s \in SessionIds |-> "query"]
    /\ owner = [s \in SessionIds |-> Anonymous]
    /\ mu = [s \in SessionIds |-> None]
    /\ refcount = [s \in SessionIds |-> 0]
    /\ closing = [s \in SessionIds |-> FALSE]
    /\ cancelled = [s \in SessionIds |-> FALSE]
    /\ eos = [s \in SessionIds |-> FALSE]
    /\ idle = [s \in SessionIds |-> FALSE]
    /\ scon = [s \in SessionIds |-> None]
    /\ appender = [s \in SessionIds |-> FALSE]
    /\ txn = [s \in SessionIds |-> FALSE]
    /\ acked = [s \in SessionIds |-> 0]
    /\ busy = {}
    /\ inTxn = [c \in Conns |-> FALSE]
    /\ pendingRows = [c \in Conns |-> 0]
    /\ persisted = [s \in SessionIds |-> 0]
    /\ pc = [p \in Procs |-> "idle"]
    /\ req = [p \in Procs |-> None]
    /\ reply = [p \in Procs |-> "none"]
    /\ tid = [p \in Procs |-> None]
    /\ cur = [p \in Procs |-> None]
    /\ ocon = [p \in Procs |-> None]
    /\ idx = [p \in Procs |-> 0]
    /\ ret = [p \in Procs |-> "idle"]
    /\ doomed = {}
    /\ known = {}

Goto(p, l) == pc' = [pc EXCEPT ![p] = l]
Answer(p, r) == reply' = [reply EXCEPT ![p] = r]

\* The handler returns; what its frame held is forgotten.
Finish(p) ==
    /\ Goto(p, "idle") /\ Answer(p, "none")
    /\ req' = [req EXCEPT ![p] = None]
    /\ tid' = [tid EXCEPT ![p] = None]

Op(p) == req[p].op

-----------------------------------------------------------------------------
(* Dispatch: a worker takes a request; dispatch first prunes idle sessions.  *)

Entry(r) == IF r.op \in OpenOps THEN "open_con" ELSE "acquire_lock"

Dispatch(w) ==
    /\ pc[w] = "idle" /\ ~shutting_down
    /\ \E r \in Requests :
        /\ r.token /\ r.op \notin OpenOps => r.id \in known
        /\ req' = [req EXCEPT ![w] = r]
        /\ tid' = [tid EXCEPT ![w] = r.id]
        /\ Goto(w, IF PruneEnabled THEN "prune_lock" ELSE Entry(r))
    /\ UNCHANGED <<tableVars, sessVars, dbVars, frameVars, known, reply>>

\* The clock passes a session's idle deadline.
IdleExpires(s) ==
    /\ phase[s] = "live" /\ ~idle[s]
    /\ idle' = [idle EXCEPT ![s] = TRUE]
    /\ UNCHANGED <<tableVars, lifeVars, lockVars, queryVars, uploadVars, dbVars,
                   callVars, pc, reply>>

PruneLock(w) ==
    /\ pc[w] = "prune_lock" /\ svcMu = None
    /\ svcMu' = w
    /\ Goto(w, "prune_scan")
    /\ UNCHANGED <<sessions, nextId, shutting_down, sessVars, dbVars, callVars, reply>>

\* sessions[i]: ids grow and are appended, so position i has i smaller ids.
AtIndex(s, i) == s \in sessions /\ Cardinality({x \in sessions : x < s}) = i

\* Mutant: the idle test is the wrong way round.
ShouldPruneActive(s) ==
    ~closing[s] /\ refcount[s] = 0 /\ ~cancelled[s] /\ ~eos[s] /\ ~idle[s]

ShouldPrune(s) ==
    ~closing[s] /\ refcount[s] = 0 /\ ~cancelled[s] /\ ~eos[s] /\ idle[s]

\* Mutant: the session stays in the array.
DetachKeepsEntry(p, s, label) ==
    /\ mu[s] = None
    /\ sessions' = sessions
    /\ closing' = [closing EXCEPT ![s] = TRUE]
    /\ cur' = [cur EXCEPT ![p] = s]
    /\ svcMu' = None
    /\ Goto(p, label)

\* ducknng_service_detach_session_locked, caller holds svc->mu; mark_closing
\* takes session->mu, so the caller waits for whoever holds it.
Detach(p, s, label) ==
    /\ mu[s] = None
    /\ sessions' = sessions \ {s}
    /\ closing' = [closing EXCEPT ![s] = TRUE]
    /\ cur' = [cur EXCEPT ![p] = s]
    /\ svcMu' = None
    /\ Goto(p, label)

PruneRemove(w) ==
    /\ pc[w] = "prune_scan"
    /\ \E s \in sessions :
        /\ AtIndex(s, idx[w]) /\ ShouldPrune(s)
        /\ Detach(w, s, "destroy")
    /\ ret' = [ret EXCEPT ![w] = "prune_lock"]
    /\ UNCHANGED <<nextId, shutting_down, lifeVars, mu, refcount, queryVars, uploadVars,
                   idle, dbVars, req, tid, ocon, idx, doomed, known, reply>>

PruneKeep(w) ==
    /\ pc[w] = "prune_scan"
    /\ \E s \in sessions :
        AtIndex(s, idx[w]) /\ mu[s] = None /\ ~ShouldPrune(s)
    /\ idx' = [idx EXCEPT ![w] = @ + 1]
    /\ UNCHANGED <<tableVars, sessVars, dbVars, req, tid, cur, ocon, ret, doomed, known, pc, reply>>

PruneDone(w) ==
    /\ pc[w] = "prune_scan" /\ idx[w] >= Cardinality(sessions)
    /\ svcMu' = None
    /\ idx' = [idx EXCEPT ![w] = 0]
    /\ Goto(w, Entry(req[w]))
    /\ UNCHANGED <<sessions, nextId, shutting_down, sessVars, dbVars, req, tid, cur, ocon, ret,
                   doomed, known, reply>>

-----------------------------------------------------------------------------
(* query_open and upload_open                                                *)

\* ducknng_service_acquire_session_connection; at the ceiling the bounded wait
\* ends in an error reply.
OpenAcquire(w) ==
    /\ pc[w] = "open_con"
    /\ \E c \in Conns \ busy :
        /\ busy' = busy \cup {c}
        /\ ocon' = [ocon EXCEPT ![w] = c]
    /\ Goto(w, "open_sql")
    /\ UNCHANGED <<tableVars, sessVars, inTxn, pendingRows, persisted, req, tid, cur, idx,
                   ret, doomed, known, reply>>

OpenExhausted(w) ==
    /\ pc[w] = "open_con" /\ busy = Conns
    /\ Finish(w)
    /\ UNCHANGED <<tableVars, sessVars, dbVars, frameVars, known>>

\* Leading statements, prepare, bind and pending: the statements may leave an
\* explicit transaction open whether or not they succeed.
QueryOpenSql(w) ==
    /\ pc[w] = "open_sql" /\ Op(w) = "query_open"
    /\ \E leaves \in {FALSE, SqlLeavesTxn} :
        inTxn' = [inTxn EXCEPT ![ocon[w]] = @ \/ leaves]
    /\ \E label \in {"add", "open_release"} : Goto(w, label)
    /\ UNCHANGED <<tableVars, sessVars, busy, pendingRows, persisted, callVars, reply>>

\* BEGIN (which fails inside a transaction), appender, column capture.
UploadOpenSql(w) ==
    /\ pc[w] = "open_sql" /\ Op(w) = "upload_open"
    /\ \/ inTxn' = inTxn /\ Goto(w, "open_release")
       \/ /\ ~inTxn[ocon[w]]
          /\ inTxn' = [inTxn EXCEPT ![ocon[w]] = TRUE]
          /\ \E label \in {"add", "open_rollback"} : Goto(w, label)
    /\ UNCHANGED <<tableVars, sessVars, busy, pendingRows, persisted, callVars, reply>>

OwnedBy(client) == {s \in sessions : owner[s] = client}

\* Mutant: limits compared with > where >= is meant.
AddRefusedLate(client) ==
    \/ shutting_down
    \/ MaxOpen > 0 /\ Cardinality(sessions) > MaxOpen
    \/ /\ MaxPerIdentity > 0 /\ client # Anonymous
       /\ Cardinality(OwnedBy(client)) > MaxPerIdentity

AddRefused(client) ==
    \/ shutting_down
    \/ MaxOpen > 0 /\ Cardinality(sessions) >= MaxOpen
    \/ /\ MaxPerIdentity > 0 /\ client # Anonymous
       /\ Cardinality(OwnedBy(client)) >= MaxPerIdentity

\* ducknng_service_add_session_full: one critical section of svc->mu.
AddSession(w) ==
    LET s == nextId
        isUpload == Op(w) = "upload_open"
    IN
    /\ pc[w] = "add" /\ svcMu = None
    /\ ~AddRefused(req[w].caller) /\ s \in SessionIds
    /\ phase' = [phase EXCEPT ![s] = "live"]
    /\ kind' = [kind EXCEPT ![s] = IF isUpload THEN "upload" ELSE "query"]
    /\ owner' = [owner EXCEPT ![s] = req[w].caller]
    /\ scon' = [scon EXCEPT ![s] = ocon[w]]
    /\ appender' = [appender EXCEPT ![s] = isUpload]
    /\ txn' = [txn EXCEPT ![s] = isUpload]
    /\ nextId' = nextId + 1
    /\ sessions' = sessions \cup {s}
    /\ tid' = [tid EXCEPT ![w] = s]
    /\ ocon' = [ocon EXCEPT ![w] = None]
    /\ Goto(w, "open_reply")
    /\ UNCHANGED <<svcMu, shutting_down, lockVars, queryVars, acked, idle, dbVars, req, cur,
                   idx, ret, doomed, known, reply>>

\* Stopping, a limit or the open rate refuses the session, or memory runs out
\* before it is inserted; the handler keeps the connection until it releases it.
AddFails(w) ==
    /\ pc[w] = "add" /\ svcMu = None
    /\ Goto(w, IF Op(w) = "upload_open" THEN "open_rollback" ELSE "open_release")
    /\ UNCHANGED <<tableVars, sessVars, dbVars, callVars, reply>>

\* Mutant: a failure exit forgets ducknng_service_release_session_connection.
OpenFailKeepsConnection(w) ==
    /\ pc[w] \in {"open_rollback", "open_release"}
    /\ inTxn' = [inTxn EXCEPT ![ocon[w]] = @ /\ pc[w] # "open_rollback"]
    /\ ocon' = [ocon EXCEPT ![w] = None]
    /\ Finish(w)
    /\ UNCHANGED <<tableVars, sessVars, busy, pendingRows, persisted, cur, idx, ret, doomed, known>>

\* The failure exits of both handlers.
OpenFail(w) ==
    /\ pc[w] \in {"open_rollback", "open_release"}
    /\ inTxn' = [inTxn EXCEPT ![ocon[w]] = @ /\ pc[w] # "open_rollback"]
    /\ busy' = busy \ {ocon[w]}
    /\ ocon' = [ocon EXCEPT ![w] = None]
    /\ Finish(w)
    /\ UNCHANGED <<tableVars, sessVars, pendingRows, persisted, cur, idx, ret, doomed, known>>

OpenReply(w) ==
    /\ pc[w] = "open_reply"
    /\ \/ Finish(w) /\ known' = known \cup {tid[w]}
       \/ Goto(w, "remove_lock") /\ UNCHANGED <<req, tid, known, reply>>
    /\ UNCHANGED <<tableVars, sessVars, dbVars, frameVars>>

-----------------------------------------------------------------------------
(* acquire, release and remove                                               *)

\* ducknng_session_owner_auth; the opener itself holds the token it was given.
Authorized(p, s) ==
    \/ Op(p) \in OpenOps
    \/ req[p].token /\ (owner[s] = Anonymous \/ req[p].caller = owner[s])

LockService(w, from, to) ==
    /\ pc[w] = from /\ svcMu = None
    /\ svcMu' = w
    /\ Goto(w, to)
    /\ UNCHANGED <<sessions, nextId, shutting_down, sessVars, dbVars, callVars, reply>>

AcquireLock(w) == LockService(w, "acquire_lock", "acquire")
RemoveLock(w) == LockService(w, "remove_lock", "remove")

\* Mutant: the early return does not unlock svc->mu.
LookupFailsKeepsLock(w) ==
    /\ pc[w] \in {"acquire", "remove"}
    /\ tid[w] \notin sessions \/ ~Authorized(w, tid[w])
    /\ Finish(w)
    /\ UNCHANGED <<tableVars, sessVars, dbVars, frameVars, known>>

\* No such session, or not its owner: svc->mu is released and an error sent.
LookupFails(w) ==
    /\ pc[w] \in {"acquire", "remove"}
    /\ tid[w] \notin sessions \/ ~Authorized(w, tid[w])
    /\ svcMu' = None
    /\ Finish(w)
    /\ UNCHANGED <<sessions, nextId, shutting_down, sessVars, dbVars, frameVars, known>>

AfterAcquire(op) ==
    CASE op = "fetch" -> "fetch_lock"
      [] op = "upload_append" -> "append_lock"
      [] OTHER -> "check_kind"

\* try_acquire waits for session->mu while svc->mu is held.
Acquire(w) ==
    LET s == tid[w] IN
    /\ pc[w] = "acquire"
    /\ s \in sessions /\ Authorized(w, s) /\ mu[s] = None
    /\ svcMu' = None
    /\ IF closing[s]
       THEN Finish(w) /\ UNCHANGED <<refcount, cur>>
       ELSE /\ refcount' = [refcount EXCEPT ![s] = @ + 1]
            /\ cur' = [cur EXCEPT ![w] = s]
            /\ Goto(w, AfterAcquire(Op(w)))
            /\ UNCHANGED <<req, tid, reply>>
    /\ UNCHANGED <<sessions, nextId, shutting_down, lifeVars, mu, closing, queryVars, uploadVars,
                   idle, dbVars, ocon, idx, ret, doomed, known>>

\* Mutant: the family is not checked.
CheckKindAccepts(w) ==
    /\ pc[w] = "check_kind" /\ mu[cur[w]] = None
    /\ Answer(w, "none")
    /\ Goto(w, "release")
    /\ UNCHANGED <<tableVars, sessVars, dbVars, callVars>>

\* The end of ducknng_session_check_kind: a control of the other family is
\* refused and leaves the session alone.
CheckKind(w) ==
    LET s == cur[w]
        family == IF Op(w) \in UploadControls THEN "upload" ELSE "query"
    IN
    /\ pc[w] = "check_kind" /\ mu[s] = None
    /\ Answer(w, IF kind[s] = family THEN "none" ELSE "error")
    /\ Goto(w, "release")
    /\ UNCHANGED <<tableVars, sessVars, dbVars, callVars>>

\* Mutant: the count is tested before it is decremented.
WakesEarly(s) == closing[s] /\ refcount[s] = 0

\* The condition under which ducknng_session_release broadcasts.
Wakes(s) == closing[s] /\ refcount[s] <= 1

\* ducknng_session_release: the last reference of a closing session wakes the
\* threads waiting in ducknng_session_destroy.  A control request that passed
\* the kind check goes on to remove the session, any other handler returns.
Release(w) ==
    LET s == cur[w]
        goesOn == Op(w) \in QueryControls \cup UploadControls /\ reply[w] # "error"
    IN
    /\ pc[w] = "release" /\ mu[s] = None
    /\ refcount' = [refcount EXCEPT ![s] = IF @ > 0 THEN @ - 1 ELSE 0]
    /\ pc' = [p \in Procs |->
                IF p = w THEN (IF goesOn THEN "remove_lock" ELSE "idle")
                ELSE IF Wakes(s) /\ pc[p] = "destroy_wait" /\ cur[p] = s THEN "destroy"
                ELSE pc[p]]
    /\ req' = [req EXCEPT ![w] = IF goesOn THEN @ ELSE None]
    /\ tid' = [tid EXCEPT ![w] = IF goesOn THEN @ ELSE None]
    /\ Answer(w, "none")
    /\ cur' = [cur EXCEPT ![w] = None]
    /\ UNCHANGED <<tableVars, lifeVars, mu, closing, queryVars, uploadVars, idle, dbVars,
                   ocon, idx, ret, doomed, known>>

AfterRemove(op) ==
    CASE op = "cancel" -> "cancel_lock"
      [] op = "upload_commit" -> "commit_lock"
      [] OTHER -> "destroy"

Remove(w) ==
    /\ pc[w] = "remove"
    /\ tid[w] \in sessions /\ Authorized(w, tid[w])
    /\ Detach(w, tid[w], AfterRemove(Op(w)))
    /\ UNCHANGED <<nextId, shutting_down, lifeVars, mu, refcount, queryVars, uploadVars, idle,
                   dbVars, req, tid, ocon, idx, ret, doomed, known, reply>>

-----------------------------------------------------------------------------
(* fetch and cancel                                                          *)

\* Mutant: the cancelled exit returns without ducknng_session_release.
FetchLockLeaksReference(w) ==
    LET s == cur[w] IN
    /\ pc[w] = "fetch_lock" /\ mu[s] = None
    /\ idle' = [idle EXCEPT ![s] = FALSE]
    /\ IF cancelled[s]
       THEN Goto(w, "idle") /\ cur' = [cur EXCEPT ![w] = None] /\ UNCHANGED mu
       ELSE Goto(w, "fetch_run") /\ mu' = [mu EXCEPT ![s] = w] /\ UNCHANGED cur
    /\ UNCHANGED <<tableVars, lifeVars, refcount, closing, queryVars, uploadVars, dbVars, req, tid,
                   ocon, idx, ret, doomed, known, reply>>

FetchLock(w) ==
    LET s == cur[w] IN
    /\ pc[w] = "fetch_lock"
    /\ IF kind[s] = "upload"
       THEN /\ Goto(w, "release") /\ Answer(w, "error")
            /\ UNCHANGED <<mu, idle>>
       ELSE /\ mu[s] = None
            /\ idle' = [idle EXCEPT ![s] = FALSE]
            /\ IF cancelled[s]
               THEN Goto(w, "release") /\ Answer(w, "error") /\ UNCHANGED mu
               ELSE /\ mu' = [mu EXCEPT ![s] = w]
                    /\ Goto(w, "fetch_run") /\ UNCHANGED reply
    /\ UNCHANGED <<tableVars, lifeVars, refcount, closing, queryVars, uploadVars, dbVars, callVars>>

\* The query runs with session->mu held; one of its scalars may need svc->mu.
FetchRun(w) ==
    /\ pc[w] = "fetch_run"
    /\ \E label \in {"fetch_result"} \cup (IF SqlUsesService THEN {"sql_call"} ELSE {}) :
        Goto(w, label)
    /\ UNCHANGED <<tableVars, sessVars, dbVars, callVars, reply>>

\* A short critical section of svc->mu inside the running query, as in
\* ducknng_service_set_limits.
SqlCall(w) ==
    /\ pc[w] = "sql_call" /\ svcMu = None
    /\ Goto(w, "fetch_result")
    /\ UNCHANGED <<tableVars, sessVars, dbVars, callVars, reply>>

\* Mutant: an execution error returns with session->mu locked.
FetchResultKeepsMutex(w) ==
    LET s == cur[w] IN
    /\ pc[w] = "fetch_result"
    /\ \/ Answer(w, "error") /\ UNCHANGED <<eos, mu>>
       \/ ~eos[s] /\ Answer(w, "rows") /\ mu' = [mu EXCEPT ![s] = None] /\ UNCHANGED eos
    /\ Goto(w, "release")
    /\ UNCHANGED <<tableVars, lifeVars, refcount, closing, cancelled, uploadVars, idle, dbVars,
                   callVars>>

\* Rows, the end of the stream, or an execution or encoding error.
FetchResult(w) ==
    LET s == cur[w] IN
    /\ pc[w] = "fetch_result"
    /\ \/ Answer(w, "error") /\ UNCHANGED eos
       \/ ~eos[s] /\ Answer(w, "rows") /\ UNCHANGED eos
       \/ Answer(w, "eos") /\ eos' = [eos EXCEPT ![s] = TRUE]
    /\ mu' = [mu EXCEPT ![s] = None]
    /\ Goto(w, "release")
    /\ UNCHANGED <<tableVars, lifeVars, refcount, closing, cancelled, uploadVars, idle, dbVars,
                   callVars>>

\* The detached session is marked, its running statement is interrupted.
CancelLock(w) ==
    /\ pc[w] = "cancel_lock" /\ mu[cur[w]] = None
    /\ cancelled' = [cancelled EXCEPT ![cur[w]] = TRUE]
    /\ Goto(w, "destroy")
    /\ UNCHANGED <<tableVars, lifeVars, lockVars, eos, uploadVars, idle, dbVars, callVars, reply>>

-----------------------------------------------------------------------------
(* upload_append and upload_commit                                           *)

\* Mutant: upload_appender_open is not tested.
AppendLockUnchecked(w) ==
    LET s == cur[w] IN
    /\ pc[w] = "append_lock" /\ mu[s] = None
    /\ idle' = [idle EXCEPT ![s] = FALSE]
    /\ IF kind[s] = "upload"
       THEN mu' = [mu EXCEPT ![s] = w] /\ Goto(w, "append_run") /\ UNCHANGED reply
       ELSE Goto(w, "release") /\ Answer(w, "error") /\ UNCHANGED mu
    /\ UNCHANGED <<tableVars, lifeVars, refcount, closing, queryVars, uploadVars, dbVars, callVars>>

\* Mutant: the refusal returns with session->mu locked.
AppendLockKeepsMutex(w) ==
    LET s == cur[w] IN
    /\ pc[w] = "append_lock" /\ mu[s] = None
    /\ idle' = [idle EXCEPT ![s] = FALSE]
    /\ mu' = [mu EXCEPT ![s] = w]
    /\ IF kind[s] = "upload" /\ appender[s]
       THEN Goto(w, "append_run") /\ UNCHANGED reply
       ELSE Goto(w, "release") /\ Answer(w, "error")
    /\ UNCHANGED <<tableVars, lifeVars, refcount, closing, queryVars, uploadVars, dbVars, callVars>>

AppendLock(w) ==
    LET s == cur[w] IN
    /\ pc[w] = "append_lock" /\ mu[s] = None
    /\ idle' = [idle EXCEPT ![s] = FALSE]
    /\ IF kind[s] = "upload" /\ appender[s]
       THEN mu' = [mu EXCEPT ![s] = w] /\ Goto(w, "append_run") /\ UNCHANGED reply
       ELSE Goto(w, "release") /\ Answer(w, "error") /\ UNCHANGED mu
    /\ UNCHANGED <<tableVars, lifeVars, refcount, closing, queryVars, uploadVars, dbVars, callVars>>

\* A batch goes to the appender chunk by chunk: it is appended and counted, or
\* fails before its first chunk, or fails after some chunks were appended.
AppendRun(w) ==
    LET s == cur[w]
        buffer == pendingRows' = [pendingRows EXCEPT ![scon[s]] = @ + 1]
    IN
    /\ pc[w] = "append_run"
    /\ \/ /\ pendingRows[scon[s]] < MaxRows /\ buffer
          /\ acked' = [acked EXCEPT ![s] = @ + 1] /\ Answer(w, "ok")
       \/ /\ pendingRows[scon[s]] < MaxRows /\ buffer
          /\ UNCHANGED acked /\ Answer(w, "error")
       \/ UNCHANGED <<pendingRows, acked>> /\ Answer(w, "error")
    /\ mu' = [mu EXCEPT ![s] = None]
    /\ Goto(w, "release")
    /\ UNCHANGED <<tableVars, lifeVars, refcount, closing, queryVars, appender, txn, idle, busy,
                   inTxn, persisted, callVars>>

CommitLock(w) ==
    /\ pc[w] = "commit_lock" /\ mu[cur[w]] = None
    /\ mu' = [mu EXCEPT ![cur[w]] = w]
    /\ Goto(w, "commit_flush")
    /\ UNCHANGED <<tableVars, lifeVars, refcount, closing, queryVars, uploadVars, idle, dbVars,
                   callVars, reply>>

\* Flush, close and destroy the appender.  A failed flush or close leaves
\* upload_txn_open set for ducknng_session_destroy.
CommitFlush(w) ==
    LET s == cur[w] IN
    /\ pc[w] = "commit_flush"
    /\ appender' = [appender EXCEPT ![s] = FALSE]
    /\ \/ Goto(w, "commit_txn") /\ UNCHANGED <<mu, reply>>
       \/ /\ Goto(w, "destroy") /\ Answer(w, "error")
          /\ mu' = [mu EXCEPT ![s] = None]
    /\ UNCHANGED <<tableVars, lifeVars, refcount, closing, queryVars, txn, acked, idle, dbVars,
                   callVars>>

\* COMMIT, or ROLLBACK when it fails; either way the transaction is over.
CommitTxn(w) ==
    LET s == cur[w] IN
    /\ pc[w] = "commit_txn"
    /\ \/ /\ persisted' = [persisted EXCEPT ![s] = @ + pendingRows[scon[s]]]
          /\ UNCHANGED reply
       \/ Answer(w, "error") /\ UNCHANGED persisted
    /\ pendingRows' = [pendingRows EXCEPT ![scon[s]] = 0]
    /\ inTxn' = [inTxn EXCEPT ![scon[s]] = FALSE]
    /\ txn' = [txn EXCEPT ![s] = FALSE]
    /\ mu' = [mu EXCEPT ![s] = None]
    /\ Goto(w, "destroy")
    /\ UNCHANGED <<tableVars, lifeVars, refcount, closing, queryVars, appender, acked, idle, busy,
                   callVars>>

-----------------------------------------------------------------------------
(* ducknng_session_destroy                                                   *)

\* Mutant: destroy does not wait for the references.
DestroyWithoutWait(p) ==
    LET s == cur[p] IN
    /\ pc[p] = "destroy" /\ mu[s] = None
    /\ closing' = [closing EXCEPT ![s] = TRUE]
    /\ Goto(p, "destroy_upload")
    /\ UNCHANGED <<tableVars, lifeVars, mu, refcount, queryVars, uploadVars, idle, dbVars,
                   callVars, reply>>

\* Mutant: the wait ends with the session marked open again.
DestroyReopens(p) ==
    LET s == cur[p] IN
    /\ pc[p] = "destroy" /\ mu[s] = None
    /\ closing' = [closing EXCEPT ![s] = refcount[s] > 0]
    /\ Goto(p, IF refcount[s] > 0 THEN "destroy_wait" ELSE "destroy_upload")
    /\ UNCHANGED <<tableVars, lifeVars, mu, refcount, queryVars, uploadVars, idle, dbVars,
                   callVars, reply>>

\* Lock, set closing, and wait on the condition variable while references
\* remain; a woken thread comes back here and tests the count again.
Destroy(p) ==
    LET s == cur[p] IN
    /\ pc[p] = "destroy" /\ mu[s] = None
    /\ closing' = [closing EXCEPT ![s] = TRUE]
    /\ Goto(p, IF refcount[s] > 0 THEN "destroy_wait" ELSE "destroy_upload")
    /\ UNCHANGED <<tableVars, lifeVars, mu, refcount, queryVars, uploadVars, idle, dbVars,
                   callVars, reply>>

\* Mutant: rolls back only while the appender is open, so not after a failed flush.
DestroyUploadByAppender(p) ==
    LET s == cur[p]
        rollback == txn[s] /\ appender[s]
    IN
    /\ pc[p] = "destroy_upload"
    /\ appender' = [appender EXCEPT ![s] = FALSE]
    /\ inTxn' = [c \in Conns |-> inTxn[c] /\ ~(rollback /\ c = scon[s])]
    /\ pendingRows' = [c \in Conns |-> IF rollback /\ c = scon[s] THEN 0 ELSE pendingRows[c]]
    /\ txn' = [txn EXCEPT ![s] = FALSE]
    /\ Goto(p, "destroy_free")
    /\ UNCHANGED <<tableVars, lifeVars, lockVars, queryVars, acked, idle, busy, persisted,
                   callVars, reply>>

\* The appender is destroyed, then an open transaction is rolled back.
DestroyUpload(p) ==
    LET s == cur[p] IN
    /\ pc[p] = "destroy_upload"
    /\ appender' = [appender EXCEPT ![s] = FALSE]
    /\ IF txn[s]
       THEN /\ inTxn' = [inTxn EXCEPT ![scon[s]] = FALSE]
            /\ pendingRows' = [pendingRows EXCEPT ![scon[s]] = 0]
            /\ txn' = [txn EXCEPT ![s] = FALSE]
       ELSE UNCHANGED <<inTxn, pendingRows, txn>>
    /\ Goto(p, "destroy_free")
    /\ UNCHANGED <<tableVars, lifeVars, lockVars, queryVars, acked, idle, busy, persisted,
                   callVars, reply>>

\* The connection goes back to the pool and the session is freed; freed fields
\* mean nothing and are reset.
DestroyFree(p) ==
    LET s == cur[p] IN
    /\ pc[p] = "destroy_free"
    /\ busy' = busy \ {scon[s]}
    /\ scon' = [scon EXCEPT ![s] = None]
    /\ phase' = [phase EXCEPT ![s] = "freed"]
    /\ cancelled' = [cancelled EXCEPT ![s] = FALSE]
    /\ eos' = [eos EXCEPT ![s] = FALSE]
    /\ idle' = [idle EXCEPT ![s] = FALSE]
    /\ cur' = [cur EXCEPT ![p] = None]
    /\ ret' = [ret EXCEPT ![p] = "idle"]
    /\ IF ret[p] = "idle" THEN Finish(p) ELSE Goto(p, ret[p]) /\ UNCHANGED <<req, tid, reply>>
    /\ UNCHANGED <<tableVars, kind, owner, lockVars, uploadVars, inTxn, pendingRows, persisted,
                   ocon, idx, doomed, known>>

-----------------------------------------------------------------------------
(* ducknng_service_stop                                                      *)

\* Mutant: svc->mu is not unlocked after the flag is set.
StopFlagKeepsLock ==
    /\ pc[Stopper] = "idle" /\ svcMu = None
    /\ shutting_down' = TRUE
    /\ svcMu' = Stopper
    /\ Goto(Stopper, "stop_join")
    /\ UNCHANGED <<sessions, nextId, sessVars, dbVars, callVars, reply>>

StopFlag ==
    /\ pc[Stopper] = "idle" /\ svcMu = None
    /\ shutting_down' = TRUE
    /\ Goto(Stopper, "stop_join")
    /\ UNCHANGED <<svcMu, sessions, nextId, sessVars, dbVars, callVars, reply>>

\* Mutant: the sessions are detached before the workers are joined.
StopDetachEarly ==
    /\ pc[Stopper] = "stop_join" /\ svcMu = None
    /\ \A s \in sessions : mu[s] = None
    /\ doomed' = sessions
    /\ sessions' = {}
    /\ closing' = [s \in SessionIds |-> closing[s] \/ s \in sessions]
    /\ Goto(Stopper, "stop_next")
    /\ UNCHANGED <<svcMu, nextId, shutting_down, lifeVars, mu, refcount, queryVars, uploadVars,
                   idle, dbVars, req, tid, cur, ocon, idx, ret, known, reply>>

\* Every worker thread has finished its request and is joined; then
\* ducknng_service_detach_all_sessions empties the table.
StopDetach ==
    /\ pc[Stopper] = "stop_join" /\ svcMu = None
    /\ \A w \in Workers : pc[w] = "idle"
    /\ \A s \in sessions : mu[s] = None
    /\ doomed' = sessions
    /\ sessions' = {}
    /\ closing' = [s \in SessionIds |-> closing[s] \/ s \in sessions]
    /\ Goto(Stopper, "stop_next")
    /\ UNCHANGED <<svcMu, nextId, shutting_down, lifeVars, mu, refcount, queryVars, uploadVars,
                   idle, dbVars, req, tid, cur, ocon, idx, ret, known, reply>>

StopDestroy ==
    /\ pc[Stopper] = "stop_next"
    /\ \E s \in doomed :
        /\ \A x \in doomed : s <= x
        /\ cur' = [cur EXCEPT ![Stopper] = s]
        /\ doomed' = doomed \ {s}
    /\ ret' = [ret EXCEPT ![Stopper] = "stop_next"]
    /\ Goto(Stopper, "destroy")
    /\ UNCHANGED <<tableVars, sessVars, dbVars, req, tid, ocon, idx, known, reply>>

StopDone ==
    /\ pc[Stopper] = "stop_next" /\ doomed = {}
    /\ Goto(Stopper, "stopped")
    /\ UNCHANGED <<tableVars, sessVars, dbVars, callVars, reply>>

Stopped == pc[Stopper] = "stopped" /\ UNCHANGED vars

-----------------------------------------------------------------------------
PruneStep(w) == PruneLock(w) \/ PruneRemove(w) \/ PruneKeep(w) \/ PruneDone(w)
OpenStep(w) ==
    \/ OpenAcquire(w) \/ OpenExhausted(w) \/ QueryOpenSql(w) \/ UploadOpenSql(w)
    \/ AddSession(w) \/ AddFails(w) \/ OpenFail(w) \/ OpenReply(w)
LookupStep(w) ==
    \/ AcquireLock(w) \/ RemoveLock(w) \/ LookupFails(w) \/ Acquire(w)
    \/ CheckKind(w) \/ Release(w) \/ Remove(w)
FetchStep(w) == FetchLock(w) \/ FetchRun(w) \/ SqlCall(w) \/ FetchResult(w) \/ CancelLock(w)
UploadStep(w) ==
    AppendLock(w) \/ AppendRun(w) \/ CommitLock(w) \/ CommitFlush(w) \/ CommitTxn(w)
DestroyStep(p) == Destroy(p) \/ DestroyUpload(p) \/ DestroyFree(p)

WorkerStep(w) ==
    \/ PruneStep(w) \/ OpenStep(w) \/ LookupStep(w)
    \/ FetchStep(w) \/ UploadStep(w) \/ DestroyStep(w)

StopperStep == StopDetach \/ StopDestroy \/ StopDone \/ DestroyStep(Stopper)

Next ==
    \/ \E w \in Workers : Dispatch(w) \/ WorkerStep(w)
    \/ \E s \in SessionIds : IdleExpires(s)
    \/ StopFlag \/ StopperStep \/ Stopped

Spec == Init /\ [][Next]_vars

-----------------------------------------------------------------------------
(* Properties                                                                *)

ServiceLockPcs == {"prune_scan", "acquire", "remove"}
RefPcs == {"check_kind", "release", "fetch_lock", "fetch_run", "sql_call", "fetch_result",
           "append_lock", "append_run"}
TeardownPcs == {"destroy_upload", "destroy_free"}
DetachedPcs == {"cancel_lock", "commit_lock", "commit_flush", "commit_txn", "destroy",
                "destroy_wait"} \cup TeardownPcs
OpenConPcs == {"open_sql", "add", "open_rollback", "open_release"}
SessionLockPcs == {"fetch_run", "sql_call", "fetch_result", "append_run", "commit_flush",
                   "commit_txn"}
PlainPcs == {"idle", "prune_lock", "open_con", "open_reply", "acquire_lock", "remove_lock",
             "stop_join", "stop_next", "stopped"}
Pcs == ServiceLockPcs \cup RefPcs \cup DetachedPcs \cup OpenConPcs \cup PlainPcs

TableType ==
    /\ svcMu \in Workers \cup {None}
    /\ sessions \subseteq SessionIds
    /\ nextId \in 1 .. MaxSessionId + 1
    /\ shutting_down \in BOOLEAN
    /\ doomed \subseteq SessionIds
    /\ known \subseteq SessionIds

SessionType ==
    /\ phase \in [SessionIds -> {"absent", "live", "freed"}]
    /\ kind \in [SessionIds -> {"query", "upload"}]
    /\ owner \in [SessionIds -> Clients \cup {Anonymous}]
    /\ mu \in [SessionIds -> Procs \cup {None}]
    /\ refcount \in [SessionIds -> Nat]
    /\ closing \in [SessionIds -> BOOLEAN]
    /\ cancelled \in [SessionIds -> BOOLEAN]
    /\ eos \in [SessionIds -> BOOLEAN]
    /\ idle \in [SessionIds -> BOOLEAN]
    /\ scon \in [SessionIds -> Conns \cup {None}]

DataType ==
    /\ appender \in [SessionIds -> BOOLEAN]
    /\ txn \in [SessionIds -> BOOLEAN]
    /\ acked \in [SessionIds -> Nat]
    /\ persisted \in [SessionIds -> Nat]
    /\ busy \subseteq Conns
    /\ inTxn \in [Conns -> BOOLEAN]
    /\ pendingRows \in [Conns -> Nat]

ThreadType ==
    /\ pc \in [Procs -> Pcs]
    /\ req \in [Procs -> Requests \cup {None}]
    /\ reply \in [Procs -> {"none", "ok", "rows", "eos", "error"}]
    /\ tid \in [Procs -> SessionIds \cup {None}]
    /\ cur \in [Procs -> SessionIds \cup {None}]
    /\ ocon \in [Procs -> Conns \cup {None}]
    /\ idx \in [Procs -> Nat]
    /\ ret \in [Procs -> {"idle", "prune_lock", "stop_next"}]

\* Every variable has its type.
TypeOK == TableType /\ SessionType /\ DataType /\ ThreadType

\* The threads between ducknng_session_try_acquire and the end of release.
Holders(s) == {p \in Procs : cur[p] = s /\ pc[p] \in RefPcs}

\* session->refcount is the number of threads that hold the pointer through an
\* acquire, whatever the interleaving of acquire, release, detach and destroy.
RefCountExact == \A s \in SessionIds : refcount[s] = Cardinality(Holders(s))

\* No handler, pruner or stop follows a session pointer after the session was
\* freed, and whoever tears one down (after the wait in
\* ducknng_session_destroy) is the only thread that still has the pointer.
NoUseAfterFree ==
    \A p \in Procs : cur[p] # None =>
        /\ phase[cur[p]] = "live"
        /\ pc[p] \in TeardownPcs => \A q \in Procs \ {p} : cur[q] # cur[p]

\* An allocated session is in the table, waits for service_stop, or has exactly
\* one thread responsible for destroying it: none is lost, none is freed twice.
OneResponsible ==
    \A s \in SessionIds : phase[s] = "live" =>
        \/ s \in sessions /\ s \notin doomed /\ \A p \in Procs : cur[p] = s => pc[p] \in RefPcs
        \/ s \in doomed \ sessions /\ \A p \in Procs : cur[p] # s
        \/ /\ s \notin sessions \cup doomed
           /\ \E p \in Procs : /\ cur[p] = s /\ pc[p] \in DetachedPcs
                               /\ \A q \in Procs \ {p} : cur[q] = s => pc[q] \in RefPcs

\* A busy pool connection belongs to exactly one opening handler or live
\* session, and every such owner's connection is marked busy: no connection is
\* shared, released twice or leaked by any exit of the open handlers.
ConnectionsOwnedOnce ==
    /\ \A c \in Conns :
        c \in busy <=> (\E p \in Procs : ocon[p] = c) \/ (\E s \in SessionIds : scon[s] = c)
    /\ \A p, q \in Procs : ocon[p] = ocon[q] /\ ocon[p] # None => p = q
    /\ \A s, x \in SessionIds : scon[s] = scon[x] /\ scon[s] # None => s = x
    /\ \A p \in Procs, s \in SessionIds : ocon[p] = scon[s] => ocon[p] = None

\* A connection in the pool has no transaction and no uncommitted rows: commit,
\* abort, prune, a failed open and service shutdown all end the upload's
\* transaction before the connection can serve another request.
FreeConnectionsClean ==
    \A c \in Conns \ busy : ~inTxn[c] /\ pendingRows[c] = 0

\* Rows of an upload become durable all together: once any did, every row whose
\* append was acknowledged did, so no append slips in behind the commit.
CommitKeepsAcked == \A s \in SessionIds : persisted[s] > 0 => persisted[s] >= acked[s]

\* A control request that passed ducknng_session_check_kind removes a session
\* of its own family although check and removal are two critical sections.
ControlsMatchFamily ==
    \A w \in Workers :
        /\ pc[w] \in {"cancel_lock"} => kind[cur[w]] = "query"
        /\ pc[w] \in {"commit_lock", "commit_flush", "commit_txn"} => kind[cur[w]] = "upload"
        /\ pc[w] \in {"remove_lock", "remove"} /\ Op(w) \notin OpenOps =>
               kind[tid[w]] = IF Op(w) \in UploadControls THEN "upload" ELSE "query"

\* Concurrent opens never exceed max_open_sessions or
\* max_sessions_per_peer_identity.
LimitsHold ==
    /\ MaxOpen > 0 => Cardinality(sessions) <= MaxOpen
    /\ MaxPerIdentity > 0 =>
        \A client \in Clients \ {Anonymous} : Cardinality(OwnedBy(client)) <= MaxPerIdentity

\* When ducknng_service_stop returns, every session is freed and every
\* connection is back in the pool.
StopLeavesNothing ==
    pc[Stopper] = "stopped" => busy = {} /\ \A s \in SessionIds : phase[s] # "live"

\* A session never comes back: freed memory stays freed, a detached session is
\* not inserted again and an id is used for one session only.
NoReanimation ==
    [][\A s \in SessionIds :
        /\ phase[s] = "freed" => phase'[s] = "freed"
        /\ closing[s] => closing'[s] /\ s \notin sessions']_vars

\* The code's scheduling: a thread that is not blocked for ever takes its step (no
\* mutex starves one thread for ever), the SQL of a session terminates, and
\* requests keep arriving.  The clock and ducknng_stop_server are not promised.
FairSpec ==
    /\ Spec
    /\ \A w \in Workers : SF_vars(WorkerStep(w)) /\ WF_vars(Dispatch(w))
    /\ WF_vars(StopperStep)

\* A thread that locks svc->mu unlocks it, although it waits for session->mu
\* of sessions whose queries and appends are running.
ServiceLockReleased == \A w \in Workers : svcMu = w ~> svcMu # w

\* A detached session is freed: the wait for its references ends and no wakeup
\* of the condition variable is lost.
DetachedIsFreed ==
    \A s \in SessionIds : (phase[s] = "live" /\ s \notin sessions) ~> phase[s] = "freed"

\* Once ducknng_service_stop has set shutting_down it returns.
StopCompletes == shutting_down ~> pc[Stopper] = "stopped"

\* A fetch whose query started is answered (docs/protocol.md: "One request
\* produces one reply").
FetchAnswered == \A w \in Workers : pc[w] = "fetch_run" ~> pc[w] = "idle"

\* While requests keep arriving, a session its owner has left alone and no
\* handler refers to does not stay in the table, unless its stream has ended.
IdleReclaimed ==
    \A s \in SessionIds : ~<>[](s \in sessions /\ idle[s] /\ refcount[s] = 0 /\ ~eos[s])

\* docs/security.md, 69: a fetch after the end of the stream is answered with an
\* error.
FetchAfterEndRefused ==
    [][\A w \in Workers :
        pc[w] = "fetch_result" /\ pc'[w] = "release" /\ eos[cur[w]] => reply'[w] = "error"]_vars

\* Who owns what: every session has one thread responsible for it, every busy
\* connection one owner, and no owner has more sessions than the limits allow.
SessionsOwned == OneResponsible /\ ConnectionsOwnedOnce /\ LimitsHold

\* What a request does to an upload or a query session is done to the session it
\* looked up: a commit persists what was acknowledged, and a control never acts on
\* a session of the other family.
UploadsWhole == CommitKeepsAcked /\ ControlsMatchFamily

\* Everything taken is given back in the end: svc->mu, detached sessions and
\* sessions their owners have left alone.
Reclaimed == ServiceLockReleased /\ DetachedIsFreed /\ IdleReclaimed
=============================================================================
