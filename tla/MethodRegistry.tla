--------------------------- MODULE MethodRegistry ---------------------------
(***************************************************************************)
(* The runtime's method registry (ducknng_registry.c), the SQL functions   *)
(* that administer it (ducknng_sql_registry.c), SQL-defined methods        *)
(* (ducknng_sql_method.c) and the part of the dispatcher that resolves a   *)
(* call to a descriptor.  Every administrative call holds rt->mu from its  *)
(* first look to its last write, so it is one step; a dispatched call      *)
(* copies its descriptor under rt->mu and runs the handler after releasing *)
(* it.  A malloc may fail: an operation is given the number of allocations *)
(* that succeed before one fails ("luck").                                 *)
(***************************************************************************)
EXTENDS Naturals, Sequences, FiniteSets, SequencesExt

CONSTANTS Callers,      \* request threads of the service
          SqlNames,     \* names used for SQL-defined methods
          Scripts,      \* handler SQL texts, each a sequence of statements
          CallNames,    \* the methods the callers call
          MaxAdmin,     \* bound on administrative calls
          MaxLuck       \* bound on the allocations that succeed before a failure

VARIABLES methods,      \* registry->methods with registry->owned
          cap,          \* registry->method_cap
          entries,      \* every SQL-method entry ever allocated
          linked,       \* the entries of rt->sql_methods that are not freed
          sessions,     \* session_count_visible, summed over the services
          call,         \* the dispatched call of each request thread
          tx,           \* writes of the open transaction on a call's connection
          table,        \* committed writes, as <<caller, statement index>>
          answer,       \* outcome of the last administrative call
          admin,        \* administrative calls left
          running       \* the runtime is not torn down

registryVars == <<methods, cap, entries, linked, sessions, call, tx, table, answer, admin, running>>

-----------------------------------------------------------------------------
(* Descriptors.                                                            *)

BuiltinNames == <<"manifest", "handshake", "query_open", "fetch", "close", "cancel", "query_prepare">>

UploadNames == <<"upload_open", "upload_append", "upload_commit", "upload_abort">>

QueryFamily == {"query_open", "fetch", "close", "cancel", "query_prepare"}

Slot(name, auth, entry) == [name |-> name, auth |-> auth, entry |-> entry, owned |-> FALSE]

Static(name) == Slot(name, FALSE, 0)

Family(m) ==
    CASE m.entry # 0 -> "sql_method"
      [] m.name \in {"manifest", "handshake"} -> "control"
      [] m.name \in QueryFamily -> "query"
      [] m.name = "exec" -> "sql"
      [] OTHER -> "upload"

Families == {"control", "query", "sql", "upload", "sql_method"}

\* ducknng_method_descriptor_sessionful: the method opens, needs or ends a session.
MethodDescriptorSessionful(m) == m.entry = 0 /\ m.name \notin {"manifest", "handshake", "exec", "query_prepare"}

\* What ducknng_methods() and the manifest show of a descriptor.
MethodDescriptorProject(m) == [name |-> m.name, family |-> Family(m), requires_auth |-> m.auth]

-----------------------------------------------------------------------------
(* The registry's own operations, on a value r of methods, cap, luck, ok.  *)

Registry(luck) == [methods |-> methods, cap |-> cap, luck |-> luck, ok |-> TRUE]

Failed(r) == [r EXCEPT !.ok = FALSE]

\* One allocation.
Alloc(r) == IF r.luck > 0 THEN [r EXCEPT !.luck = @ - 1] ELSE Failed(r)

Caps == {8, 16, 32}

RegistryReserve(r, want) ==
    IF r.cap >= want THEN r
    ELSE LET s == Alloc(r)
             c == CHOOSE c \in Caps : c >= want /\ \A d \in Caps : d >= want => c <= d
         IN IF s.ok THEN [s EXCEPT !.cap = c] ELSE s

MethodNameExists(r, name) == \E i \in DOMAIN r.methods : r.methods[i].name = name

\* ducknng_method_registry_find, which is also how unregister finds its slot.
MethodRegistryFind(r, name) == SelectInSeq(r.methods, LAMBDA m : m.name = name)

RegistryRemoveAt(r, i) == [r EXCEPT !.methods = RemoveAt(@, i)]

MethodRegistryRegister(r, m) ==
    IF MethodNameExists(r, m.name) THEN Failed(r)
    ELSE LET s == RegistryReserve(r, Len(r.methods) + 1)
         IN IF s.ok THEN [s EXCEPT !.methods = Append(@, m)] ELSE s

\* Nothing is added unless every name is new and appears once in the batch.
MethodRegistryRegisterMany(r, batch) ==
    IF \/ \E i \in DOMAIN batch : MethodNameExists(r, batch[i].name)
       \/ \E i, j \in DOMAIN batch : i < j /\ batch[i].name = batch[j].name
    THEN Failed(r)
    ELSE LET s == RegistryReserve(r, Len(r.methods) + Len(batch))
         IN IF s.ok THEN [s EXCEPT !.methods = @ \o batch] ELSE s

MethodRegistryUnregister(r, name) ==
    LET i == MethodRegistryFind(r, name) IN IF i = 0 THEN Failed(r) ELSE RegistryRemoveAt(r, i)

MethodRegistryUnregisterFamily(r, family) ==
    [r EXCEPT !.methods = SelectSeq(@, LAMBDA m : Family(m) # family)]

\* A different policy is written to a heap copy, which takes the slot.
MethodRegistrySetRequiresAuth(r, name, auth) ==
    LET i == MethodRegistryFind(r, name)
        s == Alloc(r)
    IN CASE i = 0 -> Failed(r)
         [] i # 0 /\ r.methods[i].auth = auth -> r
         [] i # 0 /\ r.methods[i].auth # auth ->
              IF s.ok THEN [s EXCEPT !.methods[i].auth = auth, !.methods[i].owned = TRUE] ELSE s

\* Allocation-free: an owned copy is changed in place, a static slot is left.
MethodRegistryRestoreAuthInplace(r, name, auth) ==
    LET i == MethodRegistryFind(r, name)
    IN IF i # 0 /\ r.methods[i].owned THEN [r EXCEPT !.methods[i].auth = auth] ELSE r

\* ducknng_method_registry_manifest_json: one projection per registered method.
MethodRegistryManifestJson(r) == [i \in DOMAIN r.methods |-> MethodDescriptorProject(r.methods[i])]

\* append_parameter_binding_capability and the handshake: the parameter methods there are now.
ParameterBindingCapability(r) == {n \in {"exec", "query_open", "query_prepare"} : MethodNameExists(r, n)}

WireVersion == 1

\* ducknng_method_handshake_handler: a version range without the wire version is refused.
HandshakeReply(r, min, max) ==
    IF min > WireVersion \/ max < WireVersion THEN {"error"} ELSE ParameterBindingCapability(r)

-----------------------------------------------------------------------------
(* Registration of the built-in families.                                  *)

RegisterBuiltinMethods(r) ==
    MethodRegistryRegisterMany(r, [i \in DOMAIN BuiltinNames |-> Static(BuiltinNames[i])])

RegisterExecMethodWithAuth(r, auth) ==
    LET s == MethodRegistryRegister(r, Static("exec"))
        t == MethodRegistrySetRequiresAuth(s, "exec", TRUE)
    IN CASE ~s.ok -> s
         [] s.ok /\ ~auth -> s
         [] s.ok /\ auth -> IF t.ok THEN t ELSE Failed(MethodRegistryUnregister(s, "exec"))

UploadRollbackForgets(r, before) ==
    LET Undo(s, name) ==
            IF MethodRegistryFind(before, name) = 0
            THEN [s EXCEPT !.methods = SelectSeq(@, LAMBDA m : m.name # name)] ELSE s
    IN Failed(FoldLeft(Undo, r, UploadNames))

\* The rollback of ducknng_register_upload_methods_with_auth: what was absent is
\* removed, what was present gets its original policy back.
UploadRollback(r, before) ==
    LET Undo(s, name) ==
            LET i == MethodRegistryFind(before, name)
            IN IF i = 0
               THEN [s EXCEPT !.methods = SelectSeq(@, LAMBDA m : m.name # name)]
               ELSE MethodRegistryRestoreAuthInplace(s, name, before.methods[i].auth)
    IN Failed(FoldLeft(Undo, r, UploadNames))

RegisterUploadMethodsWithAuth(r, auth) ==
    LET Add(s, name) ==
            IF ~s.ok \/ MethodRegistryFind(r, name) # 0 THEN s ELSE MethodRegistryRegister(s, Static(name))
        SetAuth(s, name) == IF s.ok THEN MethodRegistrySetRequiresAuth(s, name, auth) ELSE s
        added == FoldLeft(Add, r, UploadNames)
        set == FoldLeft(SetAuth, added, UploadNames)
    IN IF set.ok THEN set ELSE UploadRollback(set, r)

-----------------------------------------------------------------------------
(* SQL-defined methods.                                                    *)

\* The replaced method's entry stays in rt->sql_methods: a dispatched call may
\* still hold a copy of its descriptor.  A failed registration puts the previous
\* entry back with the policy it had and releases only the new entry.
RuntimeRegisterSqlMethod(name, sql, auth, luck) ==
    LET r == Registry(luck)
        i == MethodRegistryFind(r, name)
        e == Len(entries) + 1
        a == Alloc(r)
        u == IF i = 0 THEN a ELSE MethodRegistryUnregister(a, name)
        n == MethodRegistryRegister(u, Slot(name, auth, e))
        old == methods[i]
        back == MethodRegistryRegister([u EXCEPT !.ok = TRUE],
                                       Slot(name, entries[old.entry].auth, old.entry))
        again == IF back.ok /\ old.auth # entries[old.entry].auth
                 THEN MethodRegistrySetRequiresAuth(back, name, old.auth) ELSE back
    IN CASE i # 0 /\ methods[i].entry = 0 -> [reg |-> Failed(r), entry |-> 0]
         [] ~a.ok -> [reg |-> a, entry |-> 0]
         [] a.ok /\ n.ok -> [reg |-> n, entry |-> e]
         [] a.ok /\ ~n.ok /\ i = 0 -> [reg |-> n, entry |-> 0]
         [] OTHER -> [reg |-> Failed(again), entry |-> 0]

-----------------------------------------------------------------------------
(* Administration from SQL, each call under rt->mu.                        *)

Apply(r) ==
    /\ methods' = r.methods
    /\ cap' = r.cap
    /\ answer' = IF r.ok THEN "ok" ELSE "error"
    /\ admin' = admin - 1

Administers == running /\ admin > 0

CallsAlone == UNCHANGED <<sessions, call, tx, table, running>>

RegisterExecMethodScalar(auth, luck) ==
    /\ Administers
    /\ Apply(RegisterExecMethodWithAuth(Registry(luck), auth))
    /\ CallsAlone /\ UNCHANGED <<entries, linked>>

RegisterUploadMethodsScalar(auth, luck) ==
    /\ Administers
    /\ Apply(RegisterUploadMethodsWithAuth(Registry(luck), auth))
    /\ CallsAlone /\ UNCHANGED <<entries, linked>>


RegisterSqlMethodScalar(name, sql, auth, luck) ==
    /\ Administers
    /\ LET made == RuntimeRegisterSqlMethod(name, sql, auth, luck)
       IN /\ Apply(made.reg)
          /\ entries' = IF made.entry = 0 THEN entries ELSE Append(entries, [name |-> name, sql |-> sql, auth |-> auth])
          /\ linked' = IF made.entry = 0 THEN linked ELSE linked \cup {made.entry}
    /\ CallsAlone

SetMethodAuthScalar(name, auth, luck) ==
    /\ Administers
    /\ Apply(MethodRegistrySetRequiresAuth(Registry(luck), name, auth))
    /\ CallsAlone /\ UNCHANGED <<entries, linked>>

\* ducknng_runtime_visible_session_count_locked reads the counters of the services.
VisibleSessionCount == sessions

UnregisterMethodScalar(name) ==
    LET r == Registry(0)
        i == MethodRegistryFind(r, name)
    IN /\ Administers
       /\ Apply(IF \/ name = "manifest"
                   \/ i = 0
                   \/ MethodDescriptorSessionful(methods[i]) /\ VisibleSessionCount > 0
                THEN Failed(r) ELSE MethodRegistryUnregister(r, name))
       /\ CallsAlone /\ UNCHANGED <<entries, linked>>

RegistryFamilySessionful(family) ==
    \E i \in DOMAIN methods : Family(methods[i]) = family /\ MethodDescriptorSessionful(methods[i])

UnregisterFamilyScalar(family) ==
    /\ Administers
    /\ Apply(IF \/ family = "control"
                \/ RegistryFamilySessionful(family) /\ VisibleSessionCount > 0
             THEN Failed(Registry(0)) ELSE MethodRegistryUnregisterFamily(Registry(0), family))
    /\ CallsAlone /\ UNCHANGED <<entries, linked>>

-----------------------------------------------------------------------------
(* Calls.  at: idle, handler (descriptor copied), sql (inside the          *)
(* transaction), encode (committed, reply not yet built), done.            *)

NoCall == [at |-> "idle", method |-> Static("none"), next |-> 0, reply |-> "none"]

Answered(c, reply) == call' = [call EXCEPT ![c].at = "done", ![c].next = 0, ![c].reply = reply]

RegistryAlone == UNCHANGED <<methods, cap, entries, linked, answer, admin, running>>

\* The descriptor is copied under rt->mu and policed after the lock is released.
DispatchRequest(c, name, identified) ==
    LET i == MethodRegistryFind(Registry(0), name)
    IN /\ running /\ call[c].at = "idle"
       /\ CASE i = 0 -> Answered(c, "not_found")
            [] i # 0 /\ methods[i].auth /\ ~identified -> Answered(c, "unauthorized")
            [] OTHER -> call' = [call EXCEPT ![c].at = "handler", ![c].method = methods[i]]
       /\ RegistryAlone /\ UNCHANGED <<sessions, tx, table>>

IsSql(c) == call[c].method.entry # 0

\* The payload is not a JSON object, or the request SQL scope cannot be entered.
SqlMethodRefused(c) ==
    /\ call[c].at = "handler" /\ IsSql(c)
    /\ Answered(c, "refused")
    /\ RegistryAlone /\ UNCHANGED <<sessions, tx, table>>

SqlMethodHandler(c) ==
    /\ call[c].at = "handler" /\ IsSql(c)
    /\ call' = [call EXCEPT ![c].at = "sql", ![c].next = 1]
    /\ tx' = [tx EXCEPT ![c] = {}]
    /\ RegistryAlone /\ UNCHANGED <<sessions, table>>

Script(c) == entries[call[c].method.entry].sql

\* One statement of ducknng_sql_method_run: prepared, the payload bound, executed.
SqlMethodStatement(c) ==
    /\ call[c].at = "sql" /\ call[c].next <= Len(Script(c))
    /\ tx' = [tx EXCEPT ![c] = @ \cup (IF Script(c)[call[c].next] = "write" THEN {<<c, call[c].next>>} ELSE {})]
    /\ call' = [call EXCEPT ![c].next = @ + 1]
    /\ RegistryAlone /\ UNCHANGED <<sessions, table>>

SqlMethodFailKeeps(c) ==
    /\ call[c].at = "sql" /\ call[c].next <= Len(Script(c))
    /\ table' = table \cup tx[c]
    /\ tx' = [tx EXCEPT ![c] = {}]
    /\ Answered(c, "sql_error")
    /\ RegistryAlone /\ UNCHANGED sessions

\* Any statement may fail to prepare, bind or execute: the fail label rolls back.
SqlMethodFail(c) ==
    /\ call[c].at = "sql" /\ call[c].next <= Len(Script(c))
    /\ tx' = [tx EXCEPT ![c] = {}]
    /\ Answered(c, "sql_error")
    /\ RegistryAlone /\ UNCHANGED <<sessions, table>>

SqlMethodCommit(c) ==
    /\ call[c].at = "sql" /\ call[c].next > Len(Script(c))
    /\ table' = table \cup tx[c]
    /\ tx' = [tx EXCEPT ![c] = {}]
    /\ call' = [call EXCEPT ![c].at = "encode"]
    /\ RegistryAlone /\ UNCHANGED sessions

SqlMethodCommitFails(c) ==
    /\ call[c].at = "sql" /\ call[c].next > Len(Script(c))
    /\ tx' = [tx EXCEPT ![c] = {}]
    /\ Answered(c, "sql_error")
    /\ RegistryAlone /\ UNCHANGED <<sessions, table>>

\* The reply is encoded after the commit; a last statement without a text column,
\* a failed allocation or a reply over the method's limit is an error reply.
SqlMethodEncodeReply(c) ==
    /\ call[c].at = "encode"
    /\ \E r \in {"encode_error"} \cup (IF Last(Script(c)) = "text" THEN {"result"} ELSE {}) : Answered(c, r)
    /\ RegistryAlone /\ UNCHANGED <<sessions, tx, table>>

\* The built-in handlers as the registry sees them: query_open publishes a
\* session (or fails), close and cancel remove one.
BuiltinHandler(c) ==
    LET name == call[c].method.name
    IN /\ call[c].at = "handler" /\ ~IsSql(c)
       /\ \/ sessions' = sessions /\ Answered(c, "error")
          \/ /\ sessions' = CASE name \in {"query_open", "upload_open"} -> sessions + 1
                              [] name \in {"close", "cancel", "upload_commit", "upload_abort"} /\ sessions > 0 -> sessions - 1
                              [] OTHER -> sessions
             /\ Answered(c, "result")
       /\ RegistryAlone /\ UNCHANGED <<tx, table>>

\* The runtime goes last: services are stopped (no call is left), then the
\* registry and the SQL-method entries are freed.
RuntimeDestroy ==
    /\ running /\ \A c \in Callers : call[c].at \in {"idle", "done"}
    /\ methods' = <<>> /\ cap' = 0 /\ linked' = {} /\ running' = FALSE
    /\ UNCHANGED <<entries, sessions, call, tx, table, answer, admin>>

-----------------------------------------------------------------------------
RegistryInit ==
    /\ LET r == RegisterBuiltinMethods([methods |-> <<>>, cap |-> 0, luck |-> 1, ok |-> TRUE])
       IN methods = r.methods /\ cap = r.cap
    /\ entries = <<>> /\ linked = {}
    /\ sessions = 0
    /\ call = [c \in Callers |-> NoCall]
    /\ tx = [c \in Callers |-> {}]
    /\ table = {}
    /\ answer = "none"
    /\ admin = MaxAdmin
    /\ running = TRUE

RegistryAdminNext ==
    \/ \E auth \in BOOLEAN, luck \in 0..MaxLuck :
          \/ RegisterExecMethodScalar(auth, luck)
          \/ RegisterUploadMethodsScalar(auth, luck)
          \/ \E name \in SqlNames, sql \in Scripts : RegisterSqlMethodScalar(name, sql, auth, luck)
          \/ \E name \in SqlNames \cup {"upload_append"} : SetMethodAuthScalar(name, auth, luck)
    \/ \E name \in SqlNames \cup {"manifest", "fetch", "upload_append"} : UnregisterMethodScalar(name)
    \/ \E family \in Families : UnregisterFamilyScalar(family)

RegistryNext ==
    \/ RegistryAdminNext
    \/ \E c \in Callers :
          \/ \E name \in CallNames, identified \in BOOLEAN : DispatchRequest(c, name, identified)
          \/ SqlMethodRefused(c) \/ SqlMethodHandler(c) \/ SqlMethodStatement(c) \/ SqlMethodFail(c)
          \/ SqlMethodCommit(c) \/ SqlMethodCommitFails(c) \/ SqlMethodEncodeReply(c)
          \/ BuiltinHandler(c)
    \/ RuntimeDestroy

-----------------------------------------------------------------------------
(* Properties.                                                             *)

\* What clients see of the registry: each method and its policy in the manifest and
\* in ducknng_methods(), and the parameter methods a handshake offers.
Visible == <<Range(MethodRegistryManifestJson(Registry(0))), HandshakeReply(Registry(0), 1, 1)>>

\* A registration that reports an error has changed nothing a client can see: not
\* the set of methods, not one method's policy, whichever allocation failed
\* (ducknng_methods.c:2338-2351 promises this for the upload family).
FailedRegistrationLeavesNoTrace ==
    [][admin' # admin /\ answer' = "error" => Visible' = Visible]_registryVars

\* A handler that runs after rt->mu was released still finds its SQL text: the
\* entry behind every dispatched copy is not freed, however often the method was
\* replaced or unregistered since, and names resolve to one live descriptor.
HandlerDataAlive ==
    /\ \A c \in Callers : call[c].at \in {"handler", "sql", "encode"} /\ IsSql(c) => call[c].method.entry \in linked
    /\ \A i \in DOMAIN methods : methods[i].entry # 0 => methods[i].entry \in linked
    /\ \A i, j \in DOMAIN methods : methods[i].name = methods[j].name => i = j
    /\ Len(methods) <= cap

\* A SQL method's writes are kept all or not at all: a result means every write of
\* the script it was dispatched with, an SQL error means none.
SqlMethodWhole ==
    \A c \in Callers :
        LET kept == {w \in table : w[1] = c}
        IN call[c].at = "done" /\ IsSql(c) =>
             /\ tx[c] = {}
             /\ call[c].reply \in {"result", "encode_error"} =>
                    kept = {<<c, i>> : i \in {i \in DOMAIN Script(c) : Script(c)[i] = "write"}}
             /\ call[c].reply \in {"sql_error", "refused"} => kept = {}

=============================================================================
