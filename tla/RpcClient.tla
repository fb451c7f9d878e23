------------------------------ MODULE RpcClient ------------------------------
(***************************************************************************)
(* The SQL statements a DuckDB process runs against a remote ducknng        *)
(* service (ducknng_sql_rpc.c, ducknng_sql_session.c), over a transport     *)
(* that may lose a call at any moment, with the service reduced to what     *)
(* its handlers promise (ducknng_methods.c; SessionTable has the detail).   *)
(*                                                                          *)
(* DuckDB plans a statement by calling the table function's bind, possibly  *)
(* more than once, then init once, then scan until it returns an empty      *)
(* chunk or the statement stops early, and finally destroys the bind data.  *)
(* Which of those callbacks talks to the server differs per function, and   *)
(* that is what the properties depend on: ducknng_query_rpc opens its       *)
(* session in bind, ducknng_run_rpc and ducknng_upload_table act in scan,   *)
(* the session control functions act in init, and                           *)
(* ducknng_fetch_query_table fetches in bind behind a thread-local cache.   *)
(*                                                                          *)
(* A call is a request on the wire and a wait for its reply.  The wait may  *)
(* time out at any moment; the request stays on the wire and the server may *)
(* still run it, after the client has gone on.                              *)
(***************************************************************************)
EXTENDS Naturals, Sequences, FiniteSets, TLC, SequencesExt

CONSTANTS
    Clients,        \* DuckDB threads running statements
    Scripts,        \* what the threads run: functions from Clients to lists of statements
    Results,        \* results of the remote query: sequences of chunks of rows
    Sources,        \* upload sources: sequences of encoded chunk sizes
    VectorSize,     \* rows of a DuckDB vector
    FetchChunks,    \* DUCKNNG_DEFAULT_FETCH_BATCH_CHUNKS
    MaxChunks,      \* DUCKNNG_UPLOAD_APPEND_MAX_CHUNKS
    TargetBytes,    \* DUCKNNG_UPLOAD_APPEND_TARGET_BYTES
    AppendMaxBytes, \* DUCKNNG_UPLOAD_APPEND_MAX_BYTES
    RequestMax,     \* the service's max_request_bytes
    PrefixBytes,    \* session id, token length and token of upload_append
    MaxBinds,       \* bound: binds of one statement
    MaxFaults       \* bound: calls that time out, requests refused

ASSUME RpcClientAssumption ==
    /\ VectorSize \in Nat \ {0} /\ FetchChunks \in Nat \ {0}
    /\ MaxChunks \in Nat \ {0} /\ TargetBytes \in Nat \ {0}
    /\ AppendMaxBytes <= RequestMax
    /\ \A q \in Results : \A i \in DOMAIN q : Len(q[i]) \in 1..VectorSize

VARIABLES
    cl,     \* cl[c]: the statement thread c runs and its bind and init data
    wire,   \* requests sent and not yet run by the service
    reply,  \* reply[c]: what the call c waits for came back with, or None
    sess,   \* the service's sessions, indexed by session id
    table,  \* rows committed to the upload target
    ran,    \* ran[c]: exec requests of thread c the service has run
    held,   \* session id the user keeps from ducknng_open_query
    cache,  \* cache[c]: ducknng_fetch_query_table_cache, thread-local
    faults  \* faults so far

vars == <<cl, wire, reply, sess, table, ran, held, cache, faults>>

None == [t |-> "none"]
Failed == [t |-> "failed"]      \* the transport returned an error
Error == [t |-> "error"]       \* an RPC error frame

\* Bind data as bind leaves it: memset to zero.
Unbound == [sid |-> 0, open |-> FALSE, tried |-> FALSE, eos |-> FALSE,
            fmt |-> "arrow", schema |-> FALSE, arrays |-> <<>>, left |-> <<>>,
            started |-> FALSE, off |-> 0, idx |-> 1, executed |-> FALSE,
            src |-> <<>>, next |-> 1, per |-> 1, inBatch |-> 0, sent |-> FALSE,
            rows |-> 0, gen |-> 0]

Idle == [at |-> "idle", kind |-> "none", cont |-> "none", ret |-> "none", n |-> 0, binds |-> 0,
         out |-> <<>>, batch |-> <<>>, status |-> "none", execs |-> 0, got |-> <<>>] @@ Unbound

Init ==
    /\ \E s \in Scripts : cl = [c \in Clients |-> [script |-> s[c]] @@ Idle]
    /\ wire = {} /\ sess = <<>> /\ table = <<>> /\ held = 0 /\ faults = 0
    /\ reply = [c \in Clients |-> None]
    /\ ran = [c \in Clients |-> 0]
    /\ cache = [c \in Clients |-> None]

Set(c, r) == cl' = [cl EXCEPT ![c] = r @@ @]
At(c, kind, at) == cl[c].kind = kind /\ cl[c].at = at
Fault == faults < MaxFaults /\ faults' = faults + 1
-----------------------------------------------------------------------------
(* Calls *)

\* One request on the transport the bind data keeps (query_rpc, prepare_query,
\* upload_table) or on a transport of its own: build the method frame, send it,
\* wait; then says where the statement goes on when the call ends.
Call(c, then, m, args, r) ==
    /\ wire' = wire \union {[c |-> c, n |-> cl[c].n + 1, by |-> cl[c].kind, m |-> m] @@ args}
    /\ reply' = [reply EXCEPT ![c] = None]
    /\ Set(c, [at |-> then, n |-> cl[c].n + 1] @@ r)

MethodRoundtrip(c, then, m, args, r) == Call(c, then, m, args, r)
OneShotRoundtrip(c, then, m, args, r) == Call(c, then, m, args, r)

\* Request payloads, as the service decodes them.  A batch size of zero is
\* sent as NULL.  Parameters are encoded on the runtime's codec connection.
OpenRequest(f, rows) == [fmt |-> f, rows |-> rows, params |-> FALSE]
OpenParamsRequest(f, rows) == [fmt |-> f, rows |-> rows, params |-> TRUE]
ExecRequest(want) == [want |-> want, params |-> FALSE]
ExecParamsRequest == [want |-> FALSE, params |-> TRUE]
SessionRequest(sid) == [sid |-> sid]

Waiting(c) == cl[c].at \in {"w_open", "w_first", "w_fetch", "w_close", "w_append",
                            "w_commit", "w_abort", "w_uopen", "w_bind", "w_table",
                            "w_init", "w_exec", "w_raw"}
Ended(c, at) == cl[c].at = at /\ reply[c] # None

Pending(c) == Waiting(c) /\ reply[c] = None
LoseCall(c) ==
    /\ reply' = [reply EXCEPT ![c] = Failed]
    /\ UNCHANGED <<cl, sess, table, ran, held, cache>>
Unsent(c) == {m \in wire : m.c = c /\ m.n = cl[c].n}

\* The REQ socket's send or receive timeout: the caller gets an error, the
\* request may still reach the service.
ReqTransactFails(c) == Pending(c) /\ Fault /\ LoseCall(c) /\ UNCHANGED wire

\* A socket that cannot be opened, dialled or given its TLS configuration.
OpenReqSocketFails(c) ==
    /\ Pending(c) /\ Unsent(c) # {} /\ Fault
    /\ LoseCall(c) /\ wire' = wire \ Unsent(c)

\* Each HTTP exchange has a connection of its own: it may fail before the
\* request is out, or after, when the answer is late or its status is not 200.
HttpTransactFails(c) ==
    /\ Pending(c) /\ Fault /\ LoseCall(c) /\ wire' \in {wire, wire \ Unsent(c)}

\* The service answers m; only the call its caller still waits for takes it.
Answer(m, r) ==
    /\ wire' = wire \ {m}
    /\ reply' = IF cl[m.c].n = m.n /\ Waiting(m.c) /\ reply[m.c] = None
                THEN [reply EXCEPT ![m.c] = r] ELSE reply
    /\ UNCHANGED <<cl, held, cache>>
-----------------------------------------------------------------------------
(* The service *)

Live(sid, kind) == sid \in DOMAIN sess /\ sess[sid].live /\ sess[sid].kind = kind
Gone(sid) == [sess EXCEPT ![sid].live = FALSE]

\* A service refuses a request: admission, limits, SQL errors, encoding.
ServeError(m) ==
    /\ Fault /\ Answer(m, Error)
    /\ UNCHANGED <<sess, table, ran>>

\* A control reply: session id, and whether the stream has ended.
JsonReply(sid, eos) == [t |-> "json", sid |-> sid, eos |-> eos]

SessionFor(m, kind) ==
    [kind |-> kind, by |-> m.by, live |-> TRUE, left |-> <<>>, all |-> <<>>, no |-> 0,
     fmt |-> "arrow", per |-> FetchChunks, staged |-> <<>>]

\* query_open: batch_rows becomes a number of chunks, rounded up.
ServeQueryOpen(m) ==
    /\ m.m = "query_open"
    /\ \E q \in Results :
          sess' = Append(sess, [SessionFor(m, "query") EXCEPT
                     !.left = q, !.all = q, !.fmt = m.fmt,
                     !.per = IF m.rows > 0 THEN (m.rows + VectorSize - 1) \div VectorSize
                                           ELSE FetchChunks])
    /\ Answer(m, JsonReply(Len(sess) + 1, FALSE))
    /\ UNCHANGED <<table, ran, faults>>

\* Parameters that do not fit the statement, before anything runs.
ServeBindParameters(m) ==
    /\ m.m \in {"query_open", "exec"} /\ m.params
    /\ Answer(m, Error) /\ UNCHANGED <<sess, table, ran, faults>>

\* Up to per chunks of the streaming result, each one record batch of the
\* Arrow stream or one chunk of the quack payload.
NextChunks(s) == SubSeq(s.left, 1, IF s.per < Len(s.left) THEN s.per ELSE Len(s.left))

RowReply(s, arrays, eos) ==
    [t |-> "rows", fmt |-> s.fmt, arrays |-> arrays, eos |-> eos,
     schema |-> s.fmt = "arrow" \/ s.no = 0]

\* fetch: a batch while there are chunks; then, if nothing was ever sent, an
\* empty batch that carries the schema and the end of the stream, else a
\* JSON "exhausted" with the end of the stream.
ServeFetch(m) ==
    /\ m.m = "fetch"
    /\ LET s == sess[m.sid]
           b == NextChunks(s) IN
       \/ ~Live(m.sid, "query") /\ Answer(m, Error) /\ UNCHANGED sess
       \/ /\ Live(m.sid, "query") /\ b # <<>>
          /\ Answer(m, RowReply(s, b, FALSE))
          /\ sess' = [sess EXCEPT ![m.sid].no = @ + 1,
                         ![m.sid].left = SubSeq(@, Len(b) + 1, Len(@))]
       \/ /\ Live(m.sid, "query") /\ b = <<>>
          /\ Answer(m, IF s.no = 0 THEN RowReply(s, <<>>, TRUE)
                       ELSE JsonReply(m.sid, TRUE))
          /\ UNCHANGED sess
    /\ UNCHANGED <<table, ran, faults>>

\* close and cancel detach a live query session, and only once.
ServeClose(m) ==
    /\ m.m \in {"close", "cancel"}
    /\ \/ ~Live(m.sid, "query") /\ Answer(m, Error) /\ UNCHANGED sess
       \/ /\ Live(m.sid, "query") /\ sess' = Gone(m.sid)
          /\ Answer(m, JsonReply(m.sid, FALSE))
    /\ UNCHANGED <<table, ran, faults>>

ServeUploadOpen(m) ==
    /\ m.m = "upload_open"
    /\ sess' = Append(sess, SessionFor(m, "upload"))
    /\ Answer(m, JsonReply(Len(sess) + 1, FALSE))
    /\ UNCHANGED <<table, ran, faults>>

\* upload_append: a request over max_request_bytes is refused; the rows go to
\* the appender of the session's transaction.
ServeUploadAppend(m) ==
    /\ m.m = "upload_append"
    /\ \/ /\ ~Live(m.sid, "upload") \/ m.bytes + PrefixBytes > RequestMax
          /\ Answer(m, Error) /\ UNCHANGED sess
       \/ /\ Live(m.sid, "upload") /\ m.bytes + PrefixBytes <= RequestMax
          /\ sess' = [sess EXCEPT ![m.sid].staged = @ \o m.chunks]
          /\ Answer(m, [t |-> "json", rows |-> Len(sess[m.sid].staged \o m.chunks)])
    /\ UNCHANGED <<table, ran, faults>>

ServeUploadCommit(m) ==
    /\ m.m = "upload_commit"
    /\ \/ ~Live(m.sid, "upload") /\ Answer(m, Error) /\ UNCHANGED <<sess, table>>
       \/ /\ Live(m.sid, "upload") /\ sess' = Gone(m.sid)
          /\ table' = table \o sess[m.sid].staged
          /\ Answer(m, [t |-> "json", rows |-> Len(sess[m.sid].staged)])
    /\ UNCHANGED <<ran, faults>>

ServeUploadAbort(m) ==
    /\ m.m = "upload_abort"
    /\ \/ ~Live(m.sid, "upload") /\ Answer(m, Error) /\ UNCHANGED sess
       \/ /\ Live(m.sid, "upload") /\ sess' = Gone(m.sid)
          /\ Answer(m, [t |-> "json", rows |-> 0])
    /\ UNCHANGED <<table, ran, faults>>

\* exec runs the statement; without want_result one that returns rows is
\* refused afterwards, when its effects are already there, and with it one
\* that returns none.
ExecMetadata == [t |-> "meta"]
ExecRows == [t |-> "rows", fmt |-> "arrow", arrays |-> <<>>, eos |-> FALSE, schema |-> TRUE]

ServeExec(m) ==
    /\ m.m = "exec"
    /\ ran' = [ran EXCEPT ![m.c] = @ + 1]
    /\ \/ Answer(m, IF m.want THEN ExecRows ELSE ExecMetadata)
       \/ Answer(m, Error)
    /\ UNCHANGED <<sess, table, faults>>

\* query_prepare binds the statement and answers its schema, without rows.
ServePrepare(m) ==
    /\ m.m = "query_prepare"
    /\ Answer(m, [t |-> "rows", fmt |-> "arrow", arrays |-> <<>>, eos |-> TRUE,
                  schema |-> TRUE])
    /\ UNCHANGED <<sess, table, ran, faults>>

ServeManifest(m) ==
    /\ m.m = "manifest"
    /\ Answer(m, JsonReply(0, FALSE))
    /\ UNCHANGED <<sess, table, ran, faults>>

\* The service reclaims an idle session at any moment between its calls.
Reap(sid) ==
    /\ sess[sid].live /\ sess' = Gone(sid)
    /\ UNCHANGED <<cl, wire, reply, table, ran, held, cache, faults>>
-----------------------------------------------------------------------------
(* The life of a statement *)

BeginStatement(c) ==
    /\ cl[c].at = "idle" /\ cl[c].script # <<>>
    /\ Set(c, [kind |-> Head(cl[c].script), script |-> Tail(cl[c].script),
               at |-> "bind", binds |-> 1, out |-> <<>>, batch |-> <<>>,
               execs |-> cl[c].execs + IF Head(cl[c].script) = "exec" THEN 1 ELSE 0,
               status |-> "running"] @@ Unbound)
    /\ UNCHANGED <<wire, reply, sess, table, ran, held, cache, faults>>

\* DuckDB throws the bound plan away and binds again, or executes it, or the
\* reader stops (LIMIT, an error elsewhere) before the scan has ended.
Rebind(c) ==
    /\ cl[c].at = "bound" /\ cl[c].binds < MaxBinds
    /\ Set(c, [at |-> "destroy", cont |-> "rebind"])
    /\ UNCHANGED <<wire, reply, sess, table, ran, held, cache, faults>>

StopEarly(c) ==
    /\ cl[c].at = "scan" /\ cl[c].status = "running"
    /\ Set(c, [at |-> "destroy", cont |-> "end", status |-> "stopped"])
    /\ UNCHANGED <<wire, reply, sess, table, ran, held, cache, faults>>

\* ducknng_query_rpc_close_session: one close, tried once, its answer ignored.
CloseSession(c, then) ==
    IF cl[c].tried \/ ~cl[c].open
    THEN /\ Set(c, [at |-> then, tried |-> TRUE, open |-> FALSE])
         /\ UNCHANGED <<wire, reply>>
    ELSE MethodRoundtrip(c, "w_close", "close", SessionRequest(cl[c].sid),
                         [tried |-> TRUE, ret |-> then])

CloseReturns(c) ==
    /\ Ended(c, "w_close")
    /\ Set(c, [at |-> cl[c].ret, open |-> FALSE])
    /\ UNCHANGED <<wire, reply, sess, table, ran, held, cache, faults>>

\* Mutant: the destructor of query_rpc only frees memory.
DestroyLeavesSession(c) ==
    /\ cl[c].at = "destroy"
    /\ Set(c, [at |-> cl[c].cont])
    /\ UNCHANGED <<wire, reply, sess, table, ran, held, cache, faults>>

\* The bind data is destroyed: that of query_rpc closes the session it still
\* owns, the others only free what they hold.
DestroyBindData(c) ==
    /\ cl[c].at = "destroy"
    /\ IF cl[c].kind = "query" THEN CloseSession(c, cl[c].cont)
       ELSE Set(c, [at |-> cl[c].cont]) /\ UNCHANGED <<wire, reply>>
    /\ UNCHANGED <<sess, table, ran, held, cache, faults>>

EndStatement(c) ==
    /\ cl[c].at \in {"rebind", "end"}
    /\ Set(c, IF cl[c].at = "rebind"
              THEN [at |-> "bind", binds |-> cl[c].binds + 1] @@ Unbound
              ELSE [at |-> "idle"])
    /\ UNCHANGED <<wire, reply, sess, table, ran, held, cache, faults>>

\* A callback reports an error: the statement ends and its data is destroyed.
Fail(c) == Set(c, [at |-> "destroy", cont |-> "end", status |-> "error"])
Finish(c) == [at |-> "destroy", cont |-> "end", status |-> "ok"]
-----------------------------------------------------------------------------
(* ducknng_query_rpc: open and first fetch in bind, the rest in scan *)

Quiet == UNCHANGED <<sess, table, ran, held, cache, faults>>

\* Arguments are checked first; the batch size asked for is a number of chunks.
QueryBind(c) ==
    /\ At(c, "query", "bind")
    /\ \E f \in {"arrow", "quack"}, k \in 0..FetchChunks :
          \E req \in {OpenRequest(f, k * VectorSize), OpenParamsRequest(f, k * VectorSize)} :
              MethodRoundtrip(c, "w_open", "query_open", req, << >>)
    /\ Quiet

\* query_open's reply: only a JSON result with id and token opens the session.
OpenSession(c) ==
    /\ Ended(c, "w_open")
    /\ LET r == reply[c] IN
       IF r.t = "json"
       THEN MethodRoundtrip(c, "w_first", "fetch", SessionRequest(r.sid),
                            [sid |-> r.sid, open |-> TRUE, tried |-> FALSE])
       ELSE Fail(c) /\ UNCHANGED <<wire, reply>>
    /\ Quiet

\* A fetch reply replaces the batch: rows of either format, or the JSON that
\* ends the stream; anything else is an error.
ResetResult == [arrays |-> <<>>, left |-> <<>>, started |-> FALSE]
Fetched(r) ==
    [eos |-> r.eos] @@
    IF r.t = "rows" THEN [arrays |-> r.arrays, fmt |-> r.fmt] @@ ResetResult
                    ELSE ResetResult
FetchOk(r) == r.t = "rows" \/ (r.t = "json" /\ r.eos)

\* The first batch also has to say what the columns are.
FirstFetch(c) ==
    /\ Ended(c, "w_first")
    /\ IF FetchOk(reply[c]) /\ reply[c].t = "rows" /\ reply[c].schema
       THEN Set(c, [at |-> "bound"] @@ Fetched(reply[c])) /\ UNCHANGED <<wire, reply>>
       ELSE Fail(c) /\ UNCHANGED <<wire, reply>>
    /\ Quiet

QueryInit(c) ==
    /\ At(c, "query", "bound")
    /\ Set(c, [at |-> "scan", off |-> 0, idx |-> 1])
    /\ UNCHANGED <<wire, reply>> /\ Quiet

RowCount(c) == Len(FlattenSeq(cl[c].arrays))
Emit(c, rows) == [out |-> cl[c].out \o rows]

\* The batch is used up: the stream has ended, or the next batch is fetched.
ScanNext(c) ==
    IF cl[c].eos THEN CloseSession(c, "eof")
    ELSE MethodRoundtrip(c, "w_fetch", "fetch", SessionRequest(cl[c].sid), << >>)

\* One call of ducknng_query_rpc_scan on Arrow batches.  off counts rows of
\* the current array, and is set to the batch's row count after the last one.
\* An empty output chunk ends the scan.
ScanArrow(c) ==
    /\ At(c, "query", "scan") /\ cl[c].fmt = "arrow"
    /\ LET s    == cl[c]
           arr  == s.arrays[s.idx]
           upto == IF s.off + VectorSize < Len(arr) THEN s.off + VectorSize ELSE Len(arr)
           last == s.idx = Len(s.arrays)
           pos  == IF upto < Len(arr) THEN [off |-> upto]
                   ELSE [idx |-> s.idx + 1, off |-> IF last THEN RowCount(c) ELSE 0] IN
       IF s.off >= RowCount(c) THEN ScanNext(c)
       ELSE IF s.idx > Len(s.arrays) \/ upto = s.off
       THEN Set(c, Finish(c)) /\ UNCHANGED <<wire, reply>>
       ELSE IF pos.off >= RowCount(c) /\ s.eos /\ s.open
       THEN MethodRoundtrip(c, "w_close", "close", SessionRequest(s.sid),
               [tried |-> TRUE, ret |-> "scan"] @@ pos @@ Emit(c, SubSeq(arr, s.off + 1, upto)))
       ELSE /\ Set(c, pos @@ Emit(c, SubSeq(arr, s.off + 1, upto)))
            /\ UNCHANGED <<wire, reply>>
    /\ Quiet

\* The same on quack batches: the payload's chunks are counted when its scan
\* begins, and handed out one by one.
ScanBegin(c) == IF cl[c].started THEN cl[c].left ELSE cl[c].arrays

ScanQuack(c) ==
    /\ At(c, "query", "scan") /\ cl[c].fmt = "quack"
    /\ LET chunks == ScanBegin(c) IN
       IF chunks = <<>> THEN ScanNext(c)
       ELSE /\ Set(c, [started |-> TRUE, left |-> Tail(chunks)] @@ Emit(c, Head(chunks)))
            /\ UNCHANGED <<wire, reply>>
    /\ Quiet


ScanFetched(c) ==
    /\ Ended(c, "w_fetch")
    /\ IF FetchOk(reply[c])
       THEN /\ Set(c, [at |-> "scan", off |-> 0, idx |-> 1] @@ Fetched(reply[c]))
            /\ UNCHANGED <<wire, reply>>
       ELSE Fail(c) /\ UNCHANGED <<wire, reply>>
    /\ Quiet

ScanEof(c) ==
    /\ cl[c].at = "eof" /\ Set(c, Finish(c))
    /\ UNCHANGED <<wire, reply>> /\ Quiet
-----------------------------------------------------------------------------
(* ducknng_upload_table: everything happens in the first scan *)

UploadBind(c) ==
    /\ At(c, "upload", "bind")
    /\ Set(c, [at |-> "bound"]) /\ UNCHANGED <<wire, reply>> /\ Quiet

UploadInit(c) ==
    /\ At(c, "upload", "bound")
    /\ Set(c, [at |-> "scan", executed |-> FALSE]) /\ UNCHANGED <<wire, reply>> /\ Quiet

\* The target name is checked, then source_query runs locally, then the
\* session is opened; the mark that the upload ran is set before any of it.
UploadScan(c) ==
    /\ At(c, "upload", "scan")
    /\ IF cl[c].executed
       THEN Set(c, Finish(c)) /\ UNCHANGED <<wire, reply>>
       ELSE \E src \in Sources :
              MethodRoundtrip(c, "w_uopen", "upload_open", << >>,
                              [executed |-> TRUE, src |-> src])
    /\ Quiet

\* The target or source_query is bad: nothing was opened.
UploadRefused(c) ==
    /\ At(c, "upload", "scan") /\ ~cl[c].executed /\ Fault
    /\ Fail(c) /\ UNCHANGED <<wire, reply, sess, table, ran, held, cache>>

UploadOpened(c) ==
    /\ Ended(c, "w_uopen")
    /\ IF reply[c].t = "json"
       THEN Set(c, [at |-> "append", sid |-> reply[c].sid, open |-> TRUE])
       ELSE Fail(c)
    /\ UNCHANGED <<wire, reply>> /\ Quiet

BytesOf(c, k) ==
    FoldLeft(LAMBDA a, b : a + b, 0, SubSeq(cl[c].src, cl[c].next, cl[c].next + k - 1))
ChunksFrom(c, k) ==
    LET left == Len(cl[c].src) - cl[c].next + 1 IN IF left < k THEN left ELSE k

\* The chunks asked of the encoder for the next frame: the wanted number,
\* halved while it is more than one and the frame would exceed the cap.
\* Mutant: the estimate is trusted.
WantedTrusted(c) == cl[c].per

Wanted(c) ==
    LET Fit[want \in 1..MaxChunks] ==
          IF want > 1 /\ BytesOf(c, ChunksFrom(c, want)) + PrefixBytes > AppendMaxBytes
          THEN Fit[want \div 2] ELSE want
    IN Fit[cl[c].per]

AppendBody(c, k) ==
    [sid |-> cl[c].sid, bytes |-> BytesOf(c, k),
     chunks |-> [i \in 1..k |-> <<cl[c].sid, cl[c].next + i - 1>>]]

\* One upload_append; a source without chunks sends one batch with the schema.
UploadAppend(c) ==
    /\ cl[c].at = "append"
    /\ LET want == Wanted(c)
           k    == ChunksFrom(c, want) IN
       \/ /\ k > 0
          /\ MethodRoundtrip(c, "w_append", "upload_append", AppendBody(c, k),
                             [inBatch |-> k, per |-> want])
       \/ /\ k = 0 /\ ~cl[c].sent
          /\ MethodRoundtrip(c, "w_append", "upload_append", AppendBody(c, 0),
                             [inBatch |-> 0])
       \/ /\ k = 0 /\ cl[c].sent
          /\ MethodRoundtrip(c, "w_commit", "upload_commit", SessionRequest(cl[c].sid), << >>)
    /\ Quiet

\* The next frame is sized from the bytes per chunk of this one.
NextPer(c) ==
    LET bytes == BytesOf(c, cl[c].inBatch)
        per   == bytes \div cl[c].inBatch
        want  == IF per > 0 THEN TargetBytes \div per ELSE MaxChunks IN
    IF cl[c].inBatch = 0 \/ bytes = 0 THEN cl[c].per
    ELSE IF want < 1 THEN 1 ELSE IF want > MaxChunks THEN MaxChunks ELSE want

UploadAbort(c) ==
    MethodRoundtrip(c, "w_abort", "upload_abort", SessionRequest(cl[c].sid), << >>)

\* A chunk that cannot be encoded.
UploadEncodeFails(c) ==
    /\ cl[c].at = "append" /\ Fault /\ UploadAbort(c)
    /\ UNCHANGED <<sess, table, ran, held, cache>>


UploadAppended(c) ==
    /\ Ended(c, "w_append")
    /\ IF reply[c].t = "json"
       THEN /\ Set(c, [at |-> "append", sent |-> TRUE, next |-> cl[c].next + cl[c].inBatch,
                       per |-> NextPer(c), rows |-> reply[c].rows])
            /\ UNCHANGED <<wire, reply>>
       ELSE UploadAbort(c)
    /\ Quiet

\* The commit's reply carries the row count that is reported.
UploadCommitted(c) ==
    /\ Ended(c, "w_commit")
    /\ IF reply[c].t = "json"
       THEN /\ Set(c, [at |-> "scan", open |-> FALSE, rows |-> reply[c].rows])
            /\ UNCHANGED <<wire, reply>>
       ELSE UploadAbort(c)
    /\ Quiet

UploadAborted(c) ==
    /\ Ended(c, "w_abort")
    /\ Set(c, [at |-> "destroy", cont |-> "end", status |-> "error", open |-> FALSE])
    /\ UNCHANGED <<wire, reply>> /\ Quiet
-----------------------------------------------------------------------------
(* Statements of one call *)

\* Mutant: the call is made in bind.
RunRpcBindCalls(c) ==
    /\ At(c, "exec", "bind")
    /\ OneShotRoundtrip(c, "w_bind", "exec", ExecRequest(FALSE), [executed |-> TRUE]) /\ Quiet

\* ducknng_run_rpc: bind encodes the request, the first scan sends it.
RunRpcBind(c) ==
    /\ At(c, "exec", "bind")
    /\ Set(c, [at |-> "bound"]) /\ UNCHANGED <<wire, reply>> /\ Quiet

RunRpcScan(c) ==
    /\ At(c, "exec", "scan")
    /\ IF cl[c].executed THEN Set(c, Finish(c)) /\ UNCHANGED <<wire, reply>>
       ELSE \E req \in {ExecRequest(FALSE), ExecParamsRequest} :
              OneShotRoundtrip(c, "w_exec", "exec", req, [executed |-> TRUE])
    /\ Quiet

\* Encoding the request or finding the TLS configuration failed: no call.
RunRpcRefused(c) ==
    /\ At(c, "exec", "scan") /\ ~cl[c].executed /\ Fault
    /\ Set(c, [executed |-> TRUE, out |-> <<"failed">>])
    /\ UNCHANGED <<wire, reply, sess, table, ran, held, cache>>

\* The reply becomes the statement's one row, ok or not.
RunRpcRow(c) ==
    /\ Ended(c, "w_exec")
    /\ Set(c, [at |-> "scan", out |-> <<reply[c].t>>])
    /\ UNCHANGED <<wire, reply>> /\ Quiet

\* ducknng_get_rpc_manifest, ducknng_request and ducknng_prepare_query call
\* in bind.
ManifestBind(c) ==
    /\ At(c, "manifest", "bind")
    /\ OneShotRoundtrip(c, "w_bind", "manifest", << >>, << >>) /\ Quiet

RequestBind(c) ==
    /\ At(c, "request", "bind")
    /\ OneShotRoundtrip(c, "w_bind", "manifest", << >>, << >>) /\ Quiet

PrepareBind(c) ==
    /\ At(c, "prepare", "bind")
    /\ MethodRoundtrip(c, "w_bind", "query_prepare", << >>, << >>) /\ Quiet

\* manifest and request keep the error as a column of their row; prepare fails.
BindReturns(c) ==
    /\ Ended(c, "w_bind")
    /\ IF cl[c].kind = "prepare" /\ reply[c].t # "rows" THEN Fail(c)
       ELSE Set(c, [at |-> "bound", out |-> <<reply[c].t>>])
    /\ UNCHANGED <<wire, reply>> /\ Quiet

SingleRowInit(c) ==
    /\ cl[c].kind \in {"manifest", "request", "prepare", "exec"} /\ cl[c].at = "bound"
    /\ Set(c, [at |-> "scan"]) /\ UNCHANGED <<wire, reply>> /\ Quiet

SingleRowScan(c) ==
    /\ cl[c].kind \in {"manifest", "request", "prepare"} /\ cl[c].at = "scan"
    /\ Set(c, Finish(c)) /\ UNCHANGED <<wire, reply>> /\ Quiet
-----------------------------------------------------------------------------
(* ducknng_open_query, fetch_query, close_query and cancel_query: bind takes   *)
(* the arguments, the first init makes the call, scan shows the outcome       *)

SessionBind(c, kind, sid) ==
    /\ At(c, kind, "bind")
    /\ Set(c, [at |-> "bound", sid |-> sid]) /\ UNCHANGED <<wire, reply>> /\ Quiet

OpenQueryBind(c) == SessionBind(c, "open", 0)
FetchQueryBind(c) == SessionBind(c, "fetch", held)
CloseQueryBind(c) == SessionBind(c, "close", held)
CancelQueryBind(c) == SessionBind(c, "cancel", held)

SessionKinds == {"open", "fetch", "close", "cancel"}

\* Without a session id there is nothing to call: the row says so.
SessionResultInit(c) ==
    /\ cl[c].kind \in SessionKinds /\ cl[c].at = "bound"
    /\ IF cl[c].kind = "open"
       THEN \E k \in 0..FetchChunks :
              OneShotRoundtrip(c, "w_init", "query_open",
                 OpenRequest("arrow", k * VectorSize), [executed |-> TRUE])
       ELSE IF cl[c].sid # 0
       THEN OneShotRoundtrip(c, "w_init", cl[c].kind, SessionRequest(cl[c].sid),
                             [executed |-> TRUE])
       ELSE Set(c, [at |-> "scan", out |-> <<"failed">>]) /\ UNCHANGED <<wire, reply>>
    /\ Quiet

\* The reply's kind decides what the row says; open, close and cancel take
\* JSON only.  The user keeps the id that open returned.
SessionRow(c) ==
    /\ Ended(c, "w_init")
    /\ LET r  == reply[c]
           ok == r.t = "json" \/ (r.t = "rows" /\ r.fmt = "arrow" /\ cl[c].kind = "fetch") IN
       /\ Set(c, [at |-> "scan", out |-> <<IF ok THEN r.t ELSE "failed">>])
       /\ held' = IF ok /\ cl[c].kind = "open" THEN r.sid ELSE held
    /\ UNCHANGED <<wire, reply, sess, table, ran, cache, faults>>

SessionScan(c) ==
    /\ cl[c].kind \in SessionKinds /\ cl[c].at = "scan"
    /\ Set(c, Finish(c)) /\ UNCHANGED <<wire, reply>> /\ Quiet
-----------------------------------------------------------------------------
(* ducknng_fetch_query_table: bind fetches, unless an earlier bind of the same *)
(* thread has just fetched for the same arguments                             *)

CacheMatches(c, sid) == cache[c] # None /\ cache[c].sid = sid
CacheStore(c, sid, r) ==
    [cache EXCEPT ![c] = [t |-> "batch", sid |-> sid, arrays |-> r.arrays,
                          gen |-> cl[c].n]]

\* The payload is an Arrow stream of record batches; the first is the table,
\* an empty one when there is none.
DecodeIpcTable(arrays) == IF arrays = <<>> THEN <<>> ELSE Head(arrays)

ResultSet(sid, arrays, gen) ==
    [at |-> "bound", sid |-> sid, gen |-> gen, off |-> 0, batch |-> FlattenSeq(arrays),
     arrays |-> <<DecodeIpcTable(arrays)>>]

FetchTableBind(c) ==
    /\ At(c, "table", "bind")
    /\ \/ held = 0 /\ Fail(c) /\ UNCHANGED <<wire, reply>>
       \/ /\ held # 0 /\ CacheMatches(c, held)
          /\ Set(c, ResultSet(held, cache[c].arrays, cache[c].gen))
          /\ UNCHANGED <<wire, reply>>
       \/ /\ held # 0 /\ ~CacheMatches(c, held)
          /\ OneShotRoundtrip(c, "w_table", "fetch", SessionRequest(held), [sid |-> held])
    /\ Quiet

FetchTableReply(c) ==
    /\ Ended(c, "w_table")
    /\ IF reply[c].t = "rows" /\ reply[c].fmt = "arrow"
       THEN /\ cache' = CacheStore(c, cl[c].sid, reply[c])
            /\ Set(c, ResultSet(cl[c].sid, reply[c].arrays, cl[c].n))
       ELSE Fail(c) /\ UNCHANGED cache
    /\ UNCHANGED <<wire, reply, sess, table, ran, held, faults>>


\* Execution starts: the batch is this statement's, no later bind may have it.
\* The init callback runs on the thread that bound the statement.
FetchTableInit(c) ==
    /\ At(c, "table", "bound")
    /\ cache' = IF cache[c] # None /\ cache[c].gen = cl[c].gen
                THEN [cache EXCEPT ![c] = None] ELSE cache
    /\ Set(c, [at |-> "scan", off |-> 0])
    /\ UNCHANGED <<wire, reply, sess, table, ran, held, faults>>

FetchTableScan(c) ==
    /\ At(c, "table", "scan")
    /\ LET rows == cl[c].arrays[1]
           upto == IF cl[c].off + VectorSize < Len(rows) THEN cl[c].off + VectorSize
                   ELSE Len(rows)
           next == SubSeq(rows, cl[c].off + 1, upto) IN
       IF cl[c].off >= Len(rows) THEN Set(c, Finish(c))
       ELSE Set(c, [off |-> upto, got |-> cl[c].got \o [i \in DOMAIN next |-> <<cl[c].sid, next[i]>>]]
                   @@ Emit(c, next))
    /\ UNCHANGED <<wire, reply>> /\ Quiet

\* 250 ms have passed since the batch was cached: no bind takes it any more.
ExpireCache(c) ==
    /\ cache[c] # None /\ cache' = [cache EXCEPT ![c] = None]
    /\ UNCHANGED <<cl, wire, reply, sess, table, ran, held, faults>>
-----------------------------------------------------------------------------
(* The raw scalar functions: one call per row, the reply frame or a frame made *)
(* locally for the failure is the value                                        *)

RawCall(c, m, args, r) ==
    /\ At(c, "raw", "bind") /\ OneShotRoundtrip(c, "w_raw", m, args, r) /\ Quiet

ManifestRaw(c) == RawCall(c, "manifest", << >>, << >>)
RunRpcRaw(c) == RawCall(c, "exec", ExecRequest(FALSE), [execs |-> cl[c].execs + 1])
OpenQueryRaw(c) == RawCall(c, "query_open", OpenRequest("arrow", VectorSize), << >>)
FetchQueryRaw(c) == held # 0 /\ RawCall(c, "fetch", SessionRequest(held), << >>)
CloseQueryRaw(c) == held # 0 /\ RawCall(c, "close", SessionRequest(held), << >>)
CancelQueryRaw(c) == held # 0 /\ RawCall(c, "cancel", SessionRequest(held), << >>)

\* ducknng_request_raw sends any frame, such as an exec that wants its rows.
RequestRaw(c) ==
    \/ RawCall(c, "manifest", << >>, << >>)
    \/ RawCall(c, "exec", ExecRequest(TRUE), [execs |-> cl[c].execs + 1])

\* A scalar has no bind data; the user reads the id out of query_open's frame.
RawReturns(c) ==
    /\ Ended(c, "w_raw")
    /\ Set(c, [at |-> "end", status |-> "ok", out |-> <<reply[c].t>>])
    /\ held' = IF reply[c].t = "json" /\ reply[c].sid # 0 THEN reply[c].sid ELSE held
    /\ UNCHANGED <<wire, reply, sess, table, ran, cache, faults>>
-----------------------------------------------------------------------------
(* The specification *)

Serve(m) ==
    \/ ServeQueryOpen(m) \/ ServeBindParameters(m) \/ ServeFetch(m) \/ ServeClose(m)
    \/ ServeUploadOpen(m) \/ ServeUploadAppend(m) \/ ServeUploadCommit(m)
    \/ ServeUploadAbort(m) \/ ServeExec(m) \/ ServePrepare(m) \/ ServeManifest(m)

Step(c) ==
    \/ BeginStatement(c) \/ Rebind(c) \/ StopEarly(c) \/ DestroyBindData(c)
    \/ CloseReturns(c) \/ EndStatement(c)
    \/ QueryBind(c) \/ OpenSession(c) \/ FirstFetch(c) \/ QueryInit(c)
    \/ ScanArrow(c) \/ ScanQuack(c) \/ ScanFetched(c) \/ ScanEof(c)
    \/ UploadBind(c) \/ UploadInit(c) \/ UploadScan(c) \/ UploadRefused(c)
    \/ UploadOpened(c) \/ UploadAppend(c) \/ UploadEncodeFails(c)
    \/ UploadAppended(c) \/ UploadCommitted(c) \/ UploadAborted(c)
    \/ RunRpcBind(c) \/ RunRpcScan(c) \/ RunRpcRefused(c) \/ RunRpcRow(c)
    \/ ManifestBind(c) \/ RequestBind(c) \/ PrepareBind(c) \/ BindReturns(c)
    \/ SingleRowInit(c) \/ SingleRowScan(c)
    \/ OpenQueryBind(c) \/ FetchQueryBind(c) \/ CloseQueryBind(c) \/ CancelQueryBind(c)
    \/ SessionResultInit(c) \/ SessionRow(c) \/ SessionScan(c)
    \/ FetchTableBind(c) \/ FetchTableReply(c) \/ FetchTableInit(c) \/ FetchTableScan(c)
    \/ ManifestRaw(c) \/ RequestRaw(c) \/ RunRpcRaw(c) \/ OpenQueryRaw(c)
    \/ FetchQueryRaw(c) \/ CloseQueryRaw(c) \/ CancelQueryRaw(c) \/ RawReturns(c)

\* Every script has run to its end.
Terminated ==
    /\ \A c \in Clients : cl[c].at = "idle" /\ cl[c].script = <<>>
    /\ UNCHANGED vars

Next ==
    \/ \E c \in Clients : Step(c) \/ ReqTransactFails(c) \/ OpenReqSocketFails(c)
                           \/ HttpTransactFails(c) \/ ExpireCache(c)
    \/ \E m \in wire : Serve(m) \/ ServeError(m)
    \/ \E sid \in DOMAIN sess : Reap(sid)
    \/ Terminated

Spec == Init /\ [][Next]_vars
-----------------------------------------------------------------------------
(* Properties *)

Over(c) == cl[c].at = "idle"


\* A session that query_rpc or upload_table opened is some statement's business
\* while it lives; if it is nobody's, a lost or refused call of its own is the
\* reason.  Rebinding, stopping early (LIMIT) or failing locally leaks nothing.
InUse(sid) ==
    \E c \in Clients :
        \/ cl[c].open /\ cl[c].sid = sid
        \/ cl[c].at \in {"w_open", "w_uopen"} /\ reply[c].t = "json" /\ reply[c].sid = sid
Orphans == {sid \in DOMAIN sess : /\ sess[sid].live /\ ~InUse(sid)
                                  /\ sess[sid].by \in {"query", "upload"}}
SessionsReleased == Cardinality(Orphans) <= faults

\* ducknng_upload_table is all or nothing: of an upload's chunks the target
\* holds none, or each exactly once and in order; when the statement reports
\* success it holds all of them and the count it reports is theirs.
UploadExact ==
    \A c \in Clients : cl[c].kind = "upload" /\ cl[c].sid # 0 =>
        LET whole == [i \in DOMAIN cl[c].src |-> <<cl[c].sid, i>>]
            mine  == SelectSeq(table, LAMBDA e : e[1] = cl[c].sid) IN
        /\ mine \in {<<>>, whole}
        /\ Over(c) /\ cl[c].status = "ok" => mine = whole /\ cl[c].rows = Len(whole)

\* The service never refuses an append for its size when fewer chunks would
\* have fitted: a frame of several chunks stays under the client's cap, however
\* wrong the estimate from the chunks before it was.
FramesFit ==
    \A m \in wire : m.m = "upload_append" /\ Len(m.chunks) > 1 =>
        m.bytes + PrefixBytes <= AppendMaxBytes

\* A ducknng_run_rpc statement runs its SQL on the service at most once, however
\* often DuckDB binds it and whether or not its reply is lost.
ExecOnce == \A c \in Clients : ran[c] <= cl[c].execs

\* A row of a session is returned by at most one execution of
\* ducknng_fetch_query_table: the batch kept for a repeated bind is never
\* handed to a second execution.
TableOnce ==
    \A c, d \in Clients : \A i \in DOMAIN cl[c].got, j \in DOMAIN cl[d].got :
        cl[c].got[i] = cl[d].got[j] => c = d /\ i = j

\* "Fetch one session row batch and decode the returned Arrow IPC payload
\* directly into a DuckDB table": an execution that ends well has returned
\* every row of the batch the service sent it.
FetchTableWhole ==
    \A c \in Clients : cl[c].kind = "table" /\ Over(c) /\ cl[c].status = "ok" =>
        cl[c].out = cl[c].batch


============================================================================
