---------------------------- MODULE ExecutionPool ----------------------------
(***************************************************************************)
(* The DuckDB connections a runtime executes SQL on, and how threads lease *)
(* them (ducknng_service.c, ducknng_runtime.c): the execution pool with    *)
(* its bounded wait, the request scopes of the three execution models, the *)
(* subject bound to a connection while it runs a caller's SQL, connections *)
(* pinned by sessions and by a service, and the operations that take them  *)
(* away: set_execution_model, set_execution_pool_max, stop and destroy.    *)
(*                                                                         *)
(* Request handlers run an authorizer scope, then a method that enters a   *)
(* scope of its own, opens a session or closes one.  HTTP workers enter    *)
(* scopes without being counted as in-flight requests.                     *)
(*                                                                         *)
(* Abstracted: SQL texts and results; the session table (SessionTable);    *)
(* in-flight counters (RepService) are the handlers away from "idle".      *)
(***************************************************************************)
EXTENDS Naturals, FiniteSets

CONSTANTS
    Services,
    Handlers,       \* threads that handle requests
    HttpWorkers,    \* ducknng_http_worker threads
    Home,           \* the service a thread works for
    Admin,          \* a user connection that configures and stops services
    Managed,        \* the services it configures and stops
    Capacity,       \* execution_pool_capacity
    Ceilings,       \* the values set_execution_pool_max is called with
    Warm,           \* connections opened by ducknng_runtime_init
    Subjects,       \* execution subjects
    Models,         \* execution models in use
    Calls,          \* pairs <<s, t>>: SQL of service s calls service t and waits
    CallModels,     \* the models under which that happens
    None

Threads == Handlers \cup HttpWorkers
Procs == Threads \cup {Admin}
Lane == 0                       \* rt->init_con, never part of the pool
Pool == 1 .. Capacity
Conns == Pool \cup {Lane}
AllModels == {"shared", "service", "request"}

ASSUME PoolAssumption ==
    /\ Capacity \in Nat \ {0} /\ Warm \in 1 .. Capacity
    /\ Ceilings \subseteq 1 .. Capacity
    /\ Home \in [Threads -> Services]
    /\ Handlers \cap HttpWorkers = {} /\ Admin \notin Threads
    /\ None \notin Procs \cup Services \cup Subjects \cup Conns
    /\ Models \subseteq AllModels /\ Models # {} /\ CallModels \subseteq AllModels
    /\ Calls \subseteq Services \X Services /\ Managed \subseteq Services

VARIABLES
    model,          \* svc->execution_model
    svcMu,          \* svc->mu, held across steps by set_execution_model only
    execMu,         \* svc->execution_mu
    execCon,        \* svc->execution_con
    status,         \* of a service: "up", "stopping", "destroyed"
    laneMu,         \* rt->init_con_mu
    count, max,     \* execution_pool_count, execution_pool_max
    busy,           \* execution_pool_busy
    binding,        \* rt->subject_bindings: connection to subject
    sess,           \* the service whose session pins a connection
    curReq,         \* rt->current_request_service_ptr
    pc,
    mode,           \* how a thread got or gets its connection
    con,            \* the connection a thread holds in its frame
    subject,        \* the thread's execution subject
    bound,          \* scope->subject_bound
    expired,        \* the acquire deadline has passed
    stage,          \* "auth", "method" or "tick"
    caller,         \* the thread whose nested call a handler serves
    target          \* the service Admin works on, and the model it sets

svcVars == <<model, svcMu, execMu, execCon, status>>
poolVars == <<count, max, busy>>
leaseVars == <<binding, sess, curReq, laneMu>>
threadVars == <<mode, con, subject, bound, expired, stage>>
vars == <<svcVars, poolVars, leaseVars, threadVars, pc, caller, target>>

Init ==
    /\ model \in [Services -> Models]
    /\ svcMu = [s \in Services |-> None]
    /\ execMu = [s \in Services |-> None]
    /\ execCon = [s \in Services |-> None]
    /\ status = [s \in Services |-> "up"]
    /\ laneMu = None
    /\ count = Warm /\ max = Capacity /\ busy = {}
    /\ binding = [c \in Conns |-> None]
    /\ sess = [c \in Pool |-> None]
    /\ curReq = None
    /\ pc = [p \in Procs |-> "idle"]
    /\ mode = [p \in Procs |-> "none"]
    /\ con = [p \in Procs |-> None]
    /\ subject = [p \in Procs |-> None]
    /\ bound = [p \in Procs |-> FALSE]
    /\ expired = [p \in Procs |-> FALSE]
    /\ stage = [p \in Procs |-> "none"]
    /\ caller = [h \in Handlers |-> None]
    /\ target = <<None, "none">>

Goto(p, l) == pc' = [pc EXCEPT ![p] = l]
InFlight(s) == {h \in Handlers : Home[h] = s /\ pc[h] # "idle"}
Sessions(s) == {c \in Pool : sess[c] = s}

\* What follows a scope: the authorizer's verdict, or the end of the request.
After(p) ==
    CASE stage[p] = "auth" -> {"method", "end"}
      [] stage[p] = "tick" -> {"idle"}
      [] OTHER -> {"end"}

-----------------------------------------------------------------------------
(* ducknng_service_acquire_execution_connection and its release              *)

Free == (1 .. count) \ busy

\* Mutant: growth is bounded by the array, not by the ceiling.
ObtainableToCapacity == IF Free # {} THEN Free
                        ELSE IF count < Capacity THEN {count + 1} ELSE {}

\* The pool entry the scan finds, or the one it opens below the ceiling.
Obtainable == IF Free # {} THEN Free
              ELSE IF count < max THEN {count + 1} ELSE {}

\* Mutant: growth forgets to count the connection it opened.
TakeUncounted(p) ==
    \E c \in Obtainable :
        /\ \A d \in Obtainable : c <= d
        /\ busy' = busy \cup {c}
        /\ count' = count
        /\ con' = [con EXCEPT ![p] = c]
        /\ execCon' = IF mode[p] = "service" THEN [execCon EXCEPT ![Home[p]] = c] ELSE execCon

Take(p) ==
    \E c \in Obtainable :
        /\ \A d \in Obtainable : c <= d
        /\ busy' = busy \cup {c}
        /\ count' = IF c > count THEN c ELSE count
        /\ con' = [con EXCEPT ![p] = c]
        /\ execCon' = IF mode[p] = "service" THEN [execCon EXCEPT ![Home[p]] = c] ELSE execCon

Acquire(t) ==
    /\ pc[t] = "acquire"
    /\ Take(t)
    /\ expired' = [expired EXCEPT ![t] = FALSE]
    /\ Goto(t, "bind")
    /\ UNCHANGED <<model, svcMu, execMu, status, max, leaseVars, mode, subject, bound, stage,
                   caller, target>>

\* Nothing free and no growth, because of the ceiling or of duckdb_connect.
AcquireWaits(t) ==
    /\ pc[t] = "acquire" /\ Free = {} /\ ~expired[t]
    /\ Goto(t, "waiting")
    /\ UNCHANGED <<svcVars, poolVars, leaseVars, threadVars, caller, target>>

\* The deadline passes, which also ends the wait; the pool is scanned again
\* before the acquire gives up.
Deadline(t) ==
    /\ pc[t] \in {"acquire", "waiting"} /\ ~expired[t]
    /\ expired' = [expired EXCEPT ![t] = TRUE]
    /\ Goto(t, "acquire")
    /\ UNCHANGED <<svcVars, poolVars, leaseVars, mode, con, subject, bound, stage, caller, target>>


\* "pool exhausted": a service scope gives execution_mu back.
AcquireFails(t) ==
    /\ pc[t] = "acquire" /\ Free = {} /\ expired[t]
    /\ expired' = [expired EXCEPT ![t] = FALSE]
    /\ execMu' = IF mode[t] = "service" THEN [execMu EXCEPT ![Home[t]] = None] ELSE execMu
    /\ mode' = [mode EXCEPT ![t] = "none"]
    /\ Goto(t, IF stage[t] = "tick" THEN "idle" ELSE "end")
    /\ UNCHANGED <<model, svcMu, execCon, status, poolVars, leaseVars, con, subject, bound,
                   stage, caller, target>>

\* The entry becomes free, and cond_signal wakes one waiting thread if any.
Release(p, c, labels) ==
    LET waiting == {t \in Threads : pc[t] = "waiting"} IN
    /\ busy' = busy \ {c}
    /\ con' = [con EXCEPT ![p] = None]
    /\ \E l \in labels :
        IF waiting = {} THEN Goto(p, l)
        ELSE \E t \in waiting : pc' = [pc EXCEPT ![p] = l, ![t] = "acquire"]
    /\ UNCHANGED <<count, max>>

\* ducknng_runtime_set_execution_pool_max
SetMax(n) ==
    /\ max # n
    /\ max' = n
    /\ pc' = [p \in Procs |-> IF pc[p] = "waiting" THEN "acquire" ELSE pc[p]]
    /\ UNCHANGED <<svcVars, count, busy, leaseVars, threadVars, caller, target>>

-----------------------------------------------------------------------------
(* ducknng_service_enter_request_sql and leave_request_sql                   *)

\* The execution model is read without a lock.
Enter(t) ==
    LET m == model[Home[t]] IN
    /\ pc[t] = "enter"
    /\ mode' = [mode EXCEPT ![t] = m]
    /\ Goto(t, CASE m = "shared" -> "enter_shared"
                 [] m = "service" -> "enter_service"
                 [] OTHER -> "acquire")
    /\ UNCHANGED <<svcVars, poolVars, leaseVars, con, subject, bound, expired, stage, caller,
                   target>>

EnterShared(t) ==
    /\ pc[t] = "enter_shared" /\ laneMu = None
    /\ laneMu' = t
    /\ con' = [con EXCEPT ![t] = Lane]
    /\ Goto(t, "bind")
    /\ UNCHANGED <<svcVars, poolVars, binding, sess, curReq, mode, subject, bound, expired,
                   stage, caller, target>>

\* Mutant: a connection is acquired although the service has one.
EnterServiceAlways(t) ==
    LET s == Home[t] IN
    /\ pc[t] = "enter_service" /\ execMu[s] = None
    /\ execMu' = [execMu EXCEPT ![s] = t]
    /\ Goto(t, "acquire") /\ UNCHANGED con
    /\ UNCHANGED <<model, svcMu, execCon, status, poolVars, leaseVars, mode, subject, bound,
                   expired, stage, caller, target>>

EnterService(t) ==
    LET s == Home[t] IN
    /\ pc[t] = "enter_service" /\ execMu[s] = None
    /\ execMu' = [execMu EXCEPT ![s] = t]
    /\ IF execCon[s] = None
       THEN Goto(t, "acquire") /\ UNCHANGED con
       ELSE Goto(t, "bind") /\ con' = [con EXCEPT ![t] = execCon[s]]
    /\ UNCHANGED <<model, svcMu, execCon, status, poolVars, leaseVars, mode, subject, bound,
                   expired, stage, caller, target>>

\* Binding fails when memory runs out; the scope then goes on unbound.
Bind(t) ==
    /\ pc[t] = "bind" /\ mode[t] # "session"
    /\ curReq' = Home[t]
    /\ \E ok \in {TRUE, FALSE} :
        /\ ok => subject[t] # None
        /\ bound' = [bound EXCEPT ![t] = ok]
        /\ binding' = IF ok THEN [binding EXCEPT ![con[t]] = subject[t]] ELSE binding
    /\ Goto(t, "sql")
    /\ UNCHANGED <<svcVars, poolVars, sess, laneMu, mode, con, subject, expired, stage, caller,
                   target>>

\* The first half of leave: the subject goes before the connection does.
Leave(t) ==
    /\ pc[t] = "leave"
    /\ binding' = IF bound[t] THEN [binding EXCEPT ![con[t]] = None] ELSE binding
    /\ bound' = [bound EXCEPT ![t] = FALSE]
    /\ curReq' = None
    /\ Goto(t, "leave_release")
    /\ UNCHANGED <<svcVars, poolVars, sess, laneMu, mode, con, subject, expired, stage, caller,
                   target>>

\* Mutant: the service's mutex stays locked on the way out.
LeaveReleaseKeepsMutex(t) ==
    /\ pc[t] = "leave_release"
    /\ IF mode[t] = "request"
       THEN Release(t, con[t], After(t))
       ELSE /\ con' = [con EXCEPT ![t] = None]
            /\ \E l \in After(t) : Goto(t, l)
            /\ UNCHANGED poolVars
    /\ laneMu' = IF mode[t] = "shared" THEN None ELSE laneMu
    /\ execMu' = execMu
    /\ curReq' = IF mode[t] = "shared" THEN None ELSE curReq
    /\ mode' = [mode EXCEPT ![t] = "none"]
    /\ UNCHANGED <<model, svcMu, execCon, status, binding, sess, subject, bound, expired, stage,
                   caller, target>>

LeaveRelease(t) ==
    /\ pc[t] = "leave_release"
    /\ IF mode[t] = "request"
       THEN Release(t, con[t], After(t))
       ELSE /\ con' = [con EXCEPT ![t] = None]
            /\ \E l \in After(t) : Goto(t, l)
            /\ UNCHANGED poolVars
    /\ laneMu' = IF mode[t] = "shared" THEN None ELSE laneMu
    /\ execMu' = IF mode[t] = "service" THEN [execMu EXCEPT ![Home[t]] = None] ELSE execMu
    /\ curReq' = IF mode[t] = "shared" THEN None ELSE curReq
    /\ mode' = [mode EXCEPT ![t] = "none"]
    /\ UNCHANGED <<model, svcMu, execCon, status, binding, sess, subject, bound, expired, stage,
                   caller, target>>

-----------------------------------------------------------------------------
(* The SQL a scope runs                                                      *)

SqlDone(t) ==
    /\ pc[t] = "sql"
    /\ Goto(t, "leave")
    /\ UNCHANGED <<svcVars, poolVars, leaseVars, threadVars, caller, target>>

\* The SQL sends a request to a sibling service and waits for the reply; it
\* ends with the answer.
SqlCalls(t) ==
    /\ pc[t] = "sql" /\ mode[t] \in CallModels
    /\ \E s \in Services : <<Home[t], s>> \in Calls
    /\ Goto(t, "calling")
    /\ UNCHANGED <<svcVars, poolVars, leaseVars, threadVars, caller, target>>

\* No listener any more: the call fails.
CallFails(t) ==
    /\ pc[t] = "calling"
    /\ \A h \in Handlers : caller[h] # t
    /\ \E s \in Services : <<Home[t], s>> \in Calls /\ status[s] # "up"
    /\ Goto(t, "leave")
    /\ UNCHANGED <<svcVars, poolVars, leaseVars, threadVars, caller, target>>

-----------------------------------------------------------------------------
(* Request handlers and HTTP workers                                         *)

\* begin_request, for a client of the service or for a thread that calls it.
Begin(h) ==
    LET s == Home[h]
        calling == {t \in Threads : /\ pc[t] = "calling" /\ <<Home[t], s>> \in Calls
                                    /\ \A g \in Handlers : caller[g] # t}
    IN
    /\ pc[h] = "idle" /\ status[s] = "up" /\ svcMu[s] = None
    /\ \E c \in calling \cup {None} : caller' = [caller EXCEPT ![h] = c]
    /\ stage' = [stage EXCEPT ![h] = "auth"]
    /\ \E l \in {"enter", "method"} : Goto(h, l)
    /\ UNCHANGED <<svcVars, poolVars, leaseVars, mode, con, subject, bound, expired, target>>

\* Dispatch: the execution subject is set, then the method's handler runs.
Method(h) ==
    /\ pc[h] = "method"
    /\ stage' = [stage EXCEPT ![h] = "method"]
    /\ \E u \in Subjects \cup {None} : subject' = [subject EXCEPT ![h] = u]
    /\ \/ Goto(h, "enter") /\ UNCHANGED <<mode, con, sess>>
       \/ Goto(h, "acquire") /\ mode' = [mode EXCEPT ![h] = "session"] /\ UNCHANGED <<con, sess>>
       \/ \E c \in Sessions(Home[h]) :
            /\ con' = [con EXCEPT ![h] = c]
            /\ sess' = [sess EXCEPT ![c] = None]
            /\ Goto(h, "rel_unbind")
            /\ UNCHANGED mode
    /\ UNCHANGED <<svcVars, poolVars, binding, curReq, laneMu, bound, expired, caller, target>>

\* acquire_session_connection binds the opener; the session takes the
\* connection, or the open fails and gives it back.
OpenSession(h) ==
    /\ pc[h] = "bind" /\ mode[h] = "session"
    /\ \E u \in {subject[h], None} : binding' = [binding EXCEPT ![con[h]] = u]
    /\ mode' = [mode EXCEPT ![h] = "none"]
    /\ \/ /\ sess' = [sess EXCEPT ![con[h]] = Home[h]]
          /\ con' = [con EXCEPT ![h] = None]
          /\ Goto(h, "end")
       \/ Goto(h, "rel_unbind") /\ UNCHANGED <<sess, con>>
    /\ UNCHANGED <<svcVars, poolVars, curReq, laneMu, subject, bound, expired, stage, caller, target>>

\* Mutant: the binding is not looked up when the session's connection goes.
RelUnbindSkipped(p) ==
    /\ pc[p] = "rel_unbind"
    /\ binding' = binding
    /\ Goto(p, "rel_free")
    /\ UNCHANGED <<svcVars, poolVars, sess, curReq, laneMu, threadVars, caller, target>>

\* ducknng_service_release_session_connection: unbind, then release.
RelUnbind(p) ==
    /\ pc[p] = "rel_unbind"
    /\ binding' = [binding EXCEPT ![con[p]] = None]
    /\ Goto(p, "rel_free")
    /\ UNCHANGED <<svcVars, poolVars, sess, curReq, laneMu, threadVars, caller, target>>

RelFree(p) ==
    /\ pc[p] = "rel_free"
    /\ Release(p, con[p], {IF p = Admin THEN "stop_sessions" ELSE "end"})
    /\ UNCHANGED <<svcVars, leaseVars, mode, subject, bound, expired, stage, caller, target>>

End(h) ==
    /\ pc[h] = "end" /\ svcMu[Home[h]] = None
    /\ subject' = [subject EXCEPT ![h] = None]
    /\ stage' = [stage EXCEPT ![h] = "none"]
    /\ caller' = [caller EXCEPT ![h] = None]
    /\ pc' = [p \in Procs |-> IF p = h THEN "idle"
                              ELSE IF p = caller[h] THEN "leave" ELSE pc[p]]
    /\ UNCHANGED <<svcVars, poolVars, leaseVars, mode, con, bound, expired, target>>

\* ducknng_http_worker_thread_main: the interval has passed.
Tick(t) ==
    /\ pc[t] = "idle" /\ status[Home[t]] = "up"
    /\ stage' = [stage EXCEPT ![t] = "tick"]
    /\ Goto(t, "enter")
    /\ UNCHANGED <<svcVars, poolVars, leaseVars, mode, con, subject, bound, expired, caller, target>>

-----------------------------------------------------------------------------
(* Configuration and shutdown                                                *)

\* set_execution_model: svc->mu stays locked while execution_mu is awaited.
SetModel(s, m) ==
    /\ pc[Admin] = "idle" /\ status[s] = "up" /\ svcMu[s] = None
    /\ InFlight(s) = {} /\ Sessions(s) = {} /\ model[s] # m
    /\ svcMu' = [svcMu EXCEPT ![s] = Admin]
    /\ target' = <<s, m>>
    /\ Goto(Admin, "set_model")
    /\ UNCHANGED <<model, execMu, execCon, status, poolVars, leaseVars, threadVars, caller>>

\* Mutant: the switch does not wait for the scope that runs on execution_con.
SetModelSwapUnlocked ==
    LET s == target[1] IN
    /\ pc[Admin] = "set_model"
    /\ con' = [con EXCEPT ![Admin] = execCon[s]]
    /\ execCon' = [execCon EXCEPT ![s] = None]
    /\ model' = [model EXCEPT ![s] = target[2]]
    /\ svcMu' = [svcMu EXCEPT ![s] = None]
    /\ target' = <<None, "none">>
    /\ Goto(Admin, IF execCon[s] = None THEN "idle" ELSE "model_release")
    /\ UNCHANGED <<execMu, status, poolVars, leaseVars, mode, subject, bound, expired, stage, caller>>

SetModelSwap ==
    LET s == target[1] IN
    /\ pc[Admin] = "set_model" /\ execMu[s] = None
    /\ con' = [con EXCEPT ![Admin] = execCon[s]]
    /\ execCon' = [execCon EXCEPT ![s] = None]
    /\ model' = [model EXCEPT ![s] = target[2]]
    /\ svcMu' = [svcMu EXCEPT ![s] = None]
    /\ target' = <<None, "none">>
    /\ Goto(Admin, IF execCon[s] = None THEN "idle" ELSE "model_release")
    /\ UNCHANGED <<execMu, status, poolVars, leaseVars, mode, subject, bound, expired, stage, caller>>

ModelRelease ==
    /\ pc[Admin] = "model_release"
    /\ Release(Admin, con[Admin], {"idle"})
    /\ UNCHANGED <<svcVars, leaseVars, mode, subject, bound, expired, stage, caller, target>>

\* ducknng_stop_server: refused while a request of the service is visible.
StopCheck(s) ==
    /\ pc[Admin] = "idle" /\ status[s] = "up" /\ svcMu[s] = None
    /\ curReq # s /\ InFlight(s) = {}
    /\ target' = <<s, "none">>
    /\ Goto(Admin, "stop_flag")
    /\ UNCHANGED <<svcVars, poolVars, leaseVars, threadVars, caller>>

StopFlag ==
    /\ pc[Admin] = "stop_flag"
    /\ status' = [status EXCEPT ![target[1]] = "stopping"]
    /\ Goto(Admin, "stop_join")
    /\ UNCHANGED <<model, svcMu, execMu, execCon, poolVars, leaseVars, threadVars, caller, target>>

\* HTTP workers and REP workers are joined before the sessions go.
StopJoin ==
    /\ pc[Admin] = "stop_join"
    /\ \A t \in Threads : Home[t] = target[1] => pc[t] = "idle"
    /\ Goto(Admin, "stop_sessions")
    /\ UNCHANGED <<svcVars, poolVars, leaseVars, threadVars, caller, target>>

StopSession ==
    /\ pc[Admin] = "stop_sessions"
    /\ \E c \in Sessions(target[1]) :
        /\ con' = [con EXCEPT ![Admin] = c]
        /\ sess' = [sess EXCEPT ![c] = None]
    /\ Goto(Admin, "rel_unbind")
    /\ UNCHANGED <<svcVars, poolVars, binding, curReq, laneMu, mode, subject, bound, expired,
                   stage, caller, target>>

\* Mutant: the pinned connection is forgotten and stays busy.
DestroyForgets ==
    LET s == target[1] IN
    /\ pc[Admin] = "stop_sessions" /\ Sessions(s) = {}
    /\ execCon' = [execCon EXCEPT ![s] = None]
    /\ status' = [status EXCEPT ![s] = "destroyed"]
    /\ target' = <<None, "none">>
    /\ con' = con
    /\ Goto(Admin, "idle")
    /\ UNCHANGED <<model, svcMu, execMu, poolVars, leaseVars, mode, subject, bound, expired, stage,
                   caller>>

\* ducknng_service_destroy returns the connection the service has pinned.
Destroy ==
    LET s == target[1] IN
    /\ pc[Admin] = "stop_sessions" /\ Sessions(s) = {}
    /\ execCon' = [execCon EXCEPT ![s] = None]
    /\ status' = [status EXCEPT ![s] = "destroyed"]
    /\ target' = <<None, "none">>
    /\ con' = [con EXCEPT ![Admin] = execCon[s]]
    /\ Goto(Admin, IF execCon[s] = None THEN "idle" ELSE "model_release")
    /\ UNCHANGED <<model, svcMu, execMu, poolVars, leaseVars, mode, subject, bound, expired, stage,
                   caller>>

-----------------------------------------------------------------------------
ScopeStep(t) ==
    \/ Acquire(t) \/ AcquireWaits(t) \/ Deadline(t) \/ AcquireFails(t)
    \/ Enter(t) \/ EnterShared(t) \/ EnterService(t) \/ Bind(t)
    \/ SqlDone(t) \/ SqlCalls(t) \/ CallFails(t)
    \/ Leave(t) \/ LeaveRelease(t)

HandlerStep(h) == Method(h) \/ OpenSession(h) \/ RelUnbind(h) \/ RelFree(h) \/ End(h)

AdminStep ==
    \/ SetModelSwap \/ ModelRelease
    \/ StopFlag \/ StopJoin \/ StopSession \/ RelUnbind(Admin) \/ RelFree(Admin) \/ Destroy

Next ==
    \/ \E t \in Threads : ScopeStep(t)
    \/ \E h \in Handlers : Begin(h) \/ HandlerStep(h)
    \/ \E t \in HttpWorkers : Tick(t)
    \/ \E s \in Managed, m \in Models : SetModel(s, m)
    \/ \E s \in Managed : StopCheck(s)
    \/ \E n \in Ceilings : SetMax(n)
    \/ AdminStep

Spec == Init /\ [][Next]_vars

-----------------------------------------------------------------------------
Pcs == {"idle", "enter", "enter_shared", "enter_service", "acquire", "waiting", "bind", "sql",
        "calling", "leave", "leave_release", "method", "rel_unbind", "rel_free", "end",
        "set_model", "model_release", "stop_flag", "stop_join", "stop_sessions"}

\* Types of the service, pool, lease and thread variables.
TypeOK ==
    /\ model \in [Services -> Models]
    /\ svcMu \in [Services -> {Admin, None}]
    /\ execMu \in [Services -> Threads \cup {None}]
    /\ execCon \in [Services -> Pool \cup {None}]
    /\ status \in [Services -> {"up", "stopping", "destroyed"}]
    /\ laneMu \in Threads \cup {None}
    /\ count \in 1 .. Capacity /\ max \in 1 .. Capacity
    /\ busy \subseteq 1 .. count
    /\ binding \in [Conns -> Subjects \cup {None}]
    /\ sess \in [Pool -> Services \cup {None}]
    /\ curReq \in Services \cup {None}
    /\ pc \in [Procs -> Pcs]
    /\ mode \in [Procs -> AllModels \cup {"session", "none"}]
    /\ con \in [Procs -> Conns \cup {None}]
    /\ subject \in [Procs -> Subjects \cup {None}]
    /\ bound \in [Procs -> BOOLEAN] /\ expired \in [Procs -> BOOLEAN]
    /\ stage \in [Procs -> {"none", "auth", "method", "tick"}]
    /\ caller \in [Handlers -> Threads \cup {None}]
    /\ target \in (Services \cup {None}) \X (Models \cup {"none"})

\* Who has a pool connection: a thread's frame, a service or a session.  A
\* scope of the service model borrows the service's.
Holders(c) ==
    {<<"frame", p>> : p \in {q \in Procs : con[q] = c /\ mode[q] # "service"}}
    \cup {<<"service", s>> : s \in {r \in Services : execCon[r] = c}}
    \cup {<<"session", s>> : s \in {r \in Services : sess[c] = r}}

\* Every busy pool entry has exactly one holder and every free one none, so
\* execution_pool_busy neither leaks an entry (on a failed open, a stale model
\* read, a model switch, stop or destroy) nor hands one out twice.
PoolLedger ==
    \A c \in Pool : Cardinality(Holders(c)) = IF c \in busy THEN 1 ELSE 0

\* The pool implements ConnectionLease: leases start free, end in a thread's
\* hands and move only between a thread and a session or service.
HolderOf(c) ==
    IF sess[c] # None THEN <<"session", sess[c]>>
    ELSE IF \E s \in Services : execCon[s] = c
         THEN <<"service", CHOOSE s \in Services : execCon[s] = c>>
    ELSE IF \E p \in Procs : con[p] = c THEN <<"frame", CHOOSE p \in Procs : con[p] = c>>
    ELSE <<"free">>
Lease == INSTANCE ConnectionLease WITH
    Connections <- Pool,
    Frames <- {"frame"} \X Procs,
    Keepers <- {"service", "session"} \X Services,
    Free <- <<"free">>,
    holder <- [c \in Pool |-> HolderOf(c)]
LeaseSpec == Lease!Spec

\* A thread that runs SQL is alone on its connection, and what the connection
\* is bound to is that thread's own subject: profile admission never sees the
\* subject of another request, on pooled, pinned or shared connections.
Running == {t \in Threads : pc[t] \in {"sql", "calling", "leave"}}
SubjectFaithful ==
    \A t \in Running :
        /\ \A u \in Running : u # t => con[u] # con[t]
        /\ binding[con[t]] \in {subject[t], None}

\* A connection nobody runs on is bound to no subject, unless a session pins
\* it: the binding is gone before the pool entry, the lane or the service's
\* mutex is given back.
RestingUnbound ==
    \A c \in Conns :
        binding[c] # None =>
            \/ c \in Pool /\ sess[c] # None
            \/ \E p \in Procs : con[p] = c /\ pc[p] \in Pcs \ {"rel_free", "leave_release"}

\* A lowered ceiling never drops a connection and growth stops at it: a step
\* that opens a connection does so below the ceiling of that moment.
GrowthBelowMax == [][count' # count => count' = count + 1 /\ count' <= max]_vars

\* A comment of ducknng_stop_server: the runtime's request pointer is set
\* while any thread is inside a request scope.
RequestPointerCoversScope ==
    \A t \in Threads : pc[t] \in {"sql", "calling"} => curReq # None

ThreadStep(t) == ScopeStep(t) \/ (t \in Handlers /\ HandlerStep(t))
ServeCall(h) == Begin(h) /\ caller'[h] # None

\* Threads run and mutexes are handed on; the clock reaches every deadline;
\* a handler takes the request of a thread that waits for its service.
Fairness ==
    /\ \A t \in Threads : SF_vars(ThreadStep(t)) /\ WF_vars(Deadline(t))
    /\ \A h \in Handlers : SF_vars(ServeCall(h))
    /\ SF_vars(AdminStep)

FairSpec == Spec /\ Fairness

\* Every request that began ends, also when its SQL calls a sibling service
\* and waits: no execution model used for such calls makes threads wait for
\* each other's connection for ever.
RequestsEnd == \A h \in Handlers : (pc[h] # "idle") ~> (pc[h] = "idle")


\* The pool's bookkeeping adds up in every state: counters, entries, holders and
\* the mutexes they are changed under.
PoolConsistent == TypeOK /\ PoolLedger

\* A connection carries the subject of the request that holds it and of no other,
\* and none while it rests.
SubjectsKept == SubjectFaithful /\ RestingUnbound

\* The pool is the abstract lease, and it opens a new connection only below its maximum.
ImplementsLease == LeaseSpec /\ GrowthBelowMax
=============================================================================
