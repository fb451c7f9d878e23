------------------------ MODULE ExecutionPoolFrames ------------------------
(***************************************************************************)
(* The inductive invariant of ExecutionPool, and the proofs that every     *)
(* step preserves its types and its control part: what a thread holds at   *)
(* each point of a scope, what the administrator has joined and taken, and *)
(* who serves whose call.  That an entry has one holder needs all of it;   *)
(* of a pinned connection also that execution_mu lets one thread at a time *)
(* into it, and of the end of a service that its threads have been joined. *)
(***************************************************************************)
EXTENDS ExecutionPool, TLAPS

USE PoolAssumption DEF svcVars, poolVars, leaseVars, threadVars, Threads, Procs, Goto

\* The control points of threads by what the frame holds there.
Resting == {"idle", "enter", "method", "end"}
Scope == {"bind", "sql", "calling", "leave", "leave_release"}
RelPcs == {"rel_unbind", "rel_free"}
ThreadPcs == Resting \cup Scope \cup RelPcs \cup {"enter_shared", "enter_service", "acquire", "waiting"}
StopPcs == {"stop_flag", "stop_join", "stop_sessions", "rel_unbind", "rel_free"}
AdminPcs == StopPcs \cup {"idle", "set_model", "model_release"}

\* t is inside the mutex of its service, and the connection pinned there is c.
Pins(t, c) == mode[t] = "service" /\ execMu[Home[t]] = t /\ execCon[Home[t]] = c

\* What a thread holds at its control point.
FrameOK(t) ==
    /\ pc[t] \in ThreadPcs
    /\ pc[t] \in Resting => con[t] = None /\ mode[t] = "none"
    /\ pc[t] = "enter_shared" => con[t] = None /\ mode[t] = "shared"
    /\ pc[t] = "enter_service" => con[t] = None /\ mode[t] = "service"
    /\ pc[t] \in {"acquire", "waiting"} =>
          con[t] = None /\ (mode[t] \in {"request", "session"} \/ Pins(t, None))
    /\ pc[t] \in Scope =>
          \/ mode[t] = "request" /\ con[t] \in Pool
          \/ mode[t] = "session" /\ con[t] \in Pool /\ pc[t] = "bind"
          \/ Pins(t, con[t]) /\ con[t] \in Pool
          \/ mode[t] = "shared" /\ con[t] = Lane /\ laneMu = t
    /\ pc[t] \in RelPcs => con[t] \in Pool /\ mode[t] = "none"
FrameInv == \A t \in Threads : FrameOK(t)

\* The administrator: its frame, its target, and the threads it has joined.
AdminInv ==
    /\ mode[Admin] = "none" /\ pc[Admin] \in AdminPcs
    /\ IF pc[Admin] \in RelPcs \cup {"model_release"} THEN con[Admin] \in Pool ELSE con[Admin] = None
    /\ pc[Admin] = "set_model" => target[1] \in Services /\ target[2] \in Models
    /\ pc[Admin] \in StopPcs => target[1] \in Services
    /\ pc[Admin] \in StopPcs \ {"stop_flag"} => status[target[1]] # "up"
    /\ pc[Admin] \in StopPcs \ {"stop_flag", "stop_join"} =>
          \A t \in Threads : Home[t] = target[1] => pc[t] = "idle"

\* A thread whose call is being served waits for it, and one handler serves it.
CallerInv ==
    /\ \A h \in Handlers : caller[h] # None => pc[caller[h]] = "calling"
    /\ \A g, h \in Handlers : caller[g] # None /\ caller[g] = caller[h] => g = h

\* p holds c in its frame, and does not borrow it from its service.
Owns(p, c) == con[p] = c /\ mode[p] # "service"

\* Entry c is busy exactly when a frame, a service or a session has it, and one has.
LedgerOK(c) ==
    /\ \A p \in Procs : Owns(p, c) =>
          /\ c \in busy /\ sess[c] = None
          /\ \A s \in Services : execCon[s] # c
          /\ \A q \in Procs : Owns(q, c) => q = p
    /\ \A s \in Services : execCon[s] = c =>
          c \in busy /\ sess[c] = None /\ \A r \in Services : execCon[r] = c => r = s
    /\ sess[c] # None => c \in busy
    /\ c \in busy =>
          \/ sess[c] # None
          \/ \E s \in Services : execCon[s] = c
          \/ \E p \in Procs : Owns(p, c)
LedgerInv == \A c \in Pool : LedgerOK(c)

\* A connection is bound by the scope that runs on it, or by a session.
Binds(p, c) ==
    /\ con[p] = c
    /\ \/ pc[p] \in {"sql", "calling", "leave"} /\ bound[p] /\ binding[c] = subject[p]
       \/ pc[p] = "rel_unbind"
BindOK(c) == binding[c] = None \/ (c \in Pool /\ sess[c] # None) \/ \E p \in Procs : Binds(p, c)
BindInv == \A c \in Conns : BindOK(c)

\* The inductive invariant.
PoolInv == TypeOK /\ FrameInv /\ AdminInv /\ CallerInv /\ LedgerInv /\ BindInv

-----------------------------------------------------------------------------
\* The initial state satisfies the invariant.
LEMMA InitPoolInv == Init => PoolInv
<1> SUFFICES ASSUME Init PROVE PoolInv
  OBVIOUS
<1> USE DEF Init
<1>1. TypeOK
  BY DEF TypeOK, Pool, Conns, Pcs
<1>2. FrameInv /\ AdminInv /\ CallerInv
  BY DEF FrameInv, FrameOK, AdminInv, CallerInv, Resting, Scope, RelPcs, ThreadPcs, StopPcs, AdminPcs
<1>3. LedgerInv /\ BindInv
  BY DEF LedgerInv, LedgerOK, BindInv, BindOK, Owns, Pool, Conns, Lane
<1> QED
  BY <1>1, <1>2, <1>3 DEF PoolInv

-----------------------------------------------------------------------------
(* Types                                                                     *)

\* The pool's scan finds an entry of the array: a free one or the next.
LEMMA ObtainableType ==
  ASSUME TypeOK, NEW c \in Obtainable
  PROVE  c \in Pool /\ c \notin busy /\ c \in 1 .. count + 1 /\ (c > count => c <= max)
BY DEF TypeOK, Obtainable, Free, Pool

\* A release frees an entry, clears the frame and wakes at most one waiter.
LEMMA ReleaseType ==
  ASSUME TypeOK, NEW p \in Procs, NEW c, NEW L \in SUBSET Pcs, Release(p, c, L)
  PROVE  /\ pc' \in [Procs -> Pcs] /\ con' \in [Procs -> Conns \cup {None}]
         /\ count' = count /\ max' = max /\ busy' \subseteq busy /\ pc'[p] \in L \cup {"acquire"}
         /\ con' = [con EXCEPT ![p] = None]
         /\ \A q \in Procs \ {p} :
                pc'[q] = pc[q] \/ (pc[q] = "waiting" /\ pc'[q] = "acquire" /\ q \in Threads)
         /\ pc[p] # "waiting" => pc'[p] \in L
BY DEF TypeOK, Release, Pcs

\* Where a scope returns to.
LEMMA AfterType ==
  ASSUME TypeOK, NEW p \in Procs
  PROVE  After(p) \subseteq {"idle", "method", "end"}
BY DEF TypeOK, After

\* Steps of a scope keep the types.
LEMMA ScopeTypes ==
  ASSUME PoolInv, NEW t \in Threads, ScopeStep(t)
  PROVE  TypeOK'
<1>t. TypeOK /\ FrameOK(t)
  BY DEF PoolInv, FrameInv
<1>1. CASE Acquire(t)
  <2>1. PICK c \in Obtainable :
            /\ busy' = busy \cup {c} /\ count' = IF c > count THEN c ELSE count
            /\ con' = [con EXCEPT ![t] = c]
            /\ execCon' = IF mode[t] = "service" THEN [execCon EXCEPT ![Home[t]] = c] ELSE execCon
    BY <1>1 DEF Acquire, Take
  <2>2. c \in Pool /\ c \in 1 .. count + 1
    BY <1>t, <2>1, ObtainableType
  <2>3. count' \in 1 .. Capacity /\ busy' \subseteq 1 .. count'
    BY <1>t, <2>1, <2>2 DEF TypeOK, Pool
  <2>4. con' \in [Procs -> Conns \cup {None}] /\ execCon' \in [Services -> Pool \cup {None}]
    BY <1>t, <2>1, <2>2 DEF TypeOK, Conns
  <2> QED BY <1>1, <1>t, <2>3, <2>4 DEF Acquire, TypeOK, Pcs
<1>2. CASE AcquireWaits(t) \/ Deadline(t) \/ AcquireFails(t)
  <2>1. CASE AcquireWaits(t)
    BY <1>t, <2>1 DEF AcquireWaits, TypeOK, Pcs
  <2>2. CASE Deadline(t)
    BY <1>t, <2>2 DEF Deadline, TypeOK, Pcs
  <2>3. CASE AcquireFails(t)
    BY <1>t, <2>3 DEF AcquireFails, TypeOK, Pcs
  <2> QED BY <1>2, <2>1, <2>2, <2>3
<1>3. CASE Enter(t) \/ EnterShared(t) \/ EnterService(t)
  BY <1>3, <1>t DEF Enter, EnterShared, EnterService, TypeOK, Pcs, AllModels, Conns
<1>4. CASE Bind(t)
  <2>1. con[t] \in Conns
    BY <1>4, <1>t DEF Bind, FrameOK, Scope, Conns
  <2>2. PICK ok \in {TRUE, FALSE} :
            /\ bound' = [bound EXCEPT ![t] = ok]
            /\ binding' = IF ok THEN [binding EXCEPT ![con[t]] = subject[t]] ELSE binding
    BY <1>4 DEF Bind
  <2>3. binding' \in [Conns -> Subjects \cup {None}]
    BY <1>t, <2>1, <2>2 DEF TypeOK
  <2>4. bound' \in [Procs -> BOOLEAN]
    BY <1>t, <2>2 DEF TypeOK
  <2> QED BY <1>4, <1>t, <2>3, <2>4 DEF Bind, TypeOK, Pcs
<1>5. CASE SqlDone(t) \/ SqlCalls(t) \/ CallFails(t)
  <2>1. /\ pc' \in [Procs -> Pcs]
        /\ UNCHANGED <<svcVars, poolVars, leaseVars, threadVars, caller, target>>
    BY <1>5, <1>t DEF SqlDone, SqlCalls, CallFails, TypeOK, Pcs
  <2> QED BY <1>t, <2>1 DEF TypeOK
<1>6. CASE Leave(t)
  BY <1>6, <1>t DEF Leave, TypeOK, Pcs
<1>7. CASE LeaveRelease(t)
  <2>1. After(t) \subseteq Pcs
    BY <1>t, AfterType DEF Pcs
  <2>2. /\ pc' \in [Procs -> Pcs] /\ con' \in [Procs -> Conns \cup {None}]
        /\ count' = count /\ max' = max /\ busy' \subseteq busy
    <3>1. CASE mode[t] = "request"
      <4>1. Release(t, con[t], After(t))
        BY <1>7, <3>1 DEF LeaveRelease
      <4>2. After(t) \in SUBSET Pcs /\ t \in Procs
        BY <2>1
      <4> QED BY <1>t, <4>1, <4>2, ReleaseType, Zenon
    <3>2. CASE mode[t] # "request"
      BY <1>7, <1>t, <2>1, <3>2 DEF LeaveRelease, TypeOK
    <3> QED BY <3>1, <3>2
  <2> QED BY <1>7, <1>t, <2>2 DEF LeaveRelease, TypeOK
<1> QED
  BY <1>1, <1>2, <1>3, <1>4, <1>5, <1>6, <1>7 DEF ScopeStep

\* Steps of a request handler keep the types.
LEMMA HandlerTypes ==
  ASSUME PoolInv, NEW h \in Handlers, Begin(h) \/ HandlerStep(h)
  PROVE  TypeOK'
<1>t. TypeOK /\ FrameOK(h)
  BY DEF PoolInv, FrameInv
<1>1. CASE Begin(h)
  BY <1>1, <1>t DEF Begin, TypeOK, Pcs
<1>2. CASE Method(h)
  BY <1>2, <1>t DEF Method, Sessions, TypeOK, Pcs, Conns
<1>3. CASE OpenSession(h)
  <2>1. con[h] \in Pool
    BY <1>3, <1>t DEF OpenSession, FrameOK, Scope, Pins
  <2> QED BY <1>3, <1>t, <2>1 DEF OpenSession, TypeOK, Pcs, Conns
<1>4. CASE RelUnbind(h)
  BY <1>4, <1>t DEF RelUnbind, TypeOK, Pcs
<1>5. CASE RelFree(h)
  <2>1. {IF h = Admin THEN "stop_sessions" ELSE "end"} \in SUBSET Pcs
    BY DEF Pcs
  <2>2. Release(h, con[h], {IF h = Admin THEN "stop_sessions" ELSE "end"})
    BY <1>5 DEF RelFree
  <2>3. /\ pc' \in [Procs -> Pcs] /\ con' \in [Procs -> Conns \cup {None}]
        /\ count' = count /\ max' = max /\ busy' \subseteq busy
    BY <1>t, <2>1, <2>2, ReleaseType, Zenon
  <2> QED BY <1>5, <1>t, <2>3 DEF RelFree, TypeOK
<1>6. CASE End(h)
  BY <1>6, <1>t DEF End, TypeOK, Pcs
<1> QED
  BY <1>1, <1>2, <1>3, <1>4, <1>5, <1>6 DEF HandlerStep

\* Configuration, shutdown and the clock keep the types.
LEMMA AdminTypes ==
  ASSUME PoolInv,
         \/ AdminStep
         \/ \E s \in Managed, m \in Models : SetModel(s, m)
         \/ \E s \in Managed : StopCheck(s)
         \/ \E n \in Ceilings : SetMax(n)
         \/ \E t \in HttpWorkers : Tick(t)
  PROVE  TypeOK'
<1>t. TypeOK /\ AdminInv
  BY DEF PoolInv
<1>1. ASSUME NEW s \in Managed, NEW m \in Models, SetModel(s, m) PROVE TypeOK'
  BY <1>1, <1>t DEF SetModel, TypeOK, Pcs
<1>2. ASSUME NEW s \in Managed, StopCheck(s) PROVE TypeOK'
  BY <1>2, <1>t DEF StopCheck, TypeOK, Pcs
<1>3. ASSUME NEW n \in Ceilings, SetMax(n) PROVE TypeOK'
  BY <1>3, <1>t DEF SetMax, TypeOK, Pcs
<1>4. ASSUME NEW t \in HttpWorkers, Tick(t) PROVE TypeOK'
  BY <1>4, <1>t DEF Tick, TypeOK, Pcs
<1>5. CASE SetModelSwap
  BY <1>5, <1>t DEF SetModelSwap, AdminInv, TypeOK, Pcs, Conns
<1>6. CASE ModelRelease
  <2>1. {"idle"} \in SUBSET Pcs
    BY DEF Pcs
  <2>2. Release(Admin, con[Admin], {"idle"})
    BY <1>6 DEF ModelRelease
  <2>3. /\ pc' \in [Procs -> Pcs] /\ con' \in [Procs -> Conns \cup {None}]
        /\ count' = count /\ max' = max /\ busy' \subseteq busy
    BY <1>t, <2>1, <2>2, ReleaseType, Zenon
  <2> QED BY <1>6, <1>t, <2>3 DEF ModelRelease, TypeOK
<1>7. CASE StopFlag \/ StopJoin \/ StopSession
  <2>1. CASE StopFlag
    BY <1>t, <2>1 DEF StopFlag, TypeOK, Pcs
  <2>2. CASE StopJoin
    BY <1>t, <2>2 DEF StopJoin, TypeOK, Pcs
  <2>3. CASE StopSession
    BY <1>t, <2>3 DEF StopSession, Sessions, TypeOK, Pcs, Conns
  <2> QED BY <1>7, <2>1, <2>2, <2>3
<1>8. CASE RelUnbind(Admin)
  BY <1>8, <1>t DEF RelUnbind, TypeOK, Pcs
<1>9. CASE RelFree(Admin)
  <2>1. {IF Admin = Admin THEN "stop_sessions" ELSE "end"} \in SUBSET Pcs
    BY DEF Pcs
  <2>2. Release(Admin, con[Admin], {IF Admin = Admin THEN "stop_sessions" ELSE "end"})
    BY <1>9 DEF RelFree
  <2>3. /\ pc' \in [Procs -> Pcs] /\ con' \in [Procs -> Conns \cup {None}]
        /\ count' = count /\ max' = max /\ busy' \subseteq busy
    BY <1>t, <2>1, <2>2, ReleaseType, Zenon
  <2> QED BY <1>9, <1>t, <2>3 DEF RelFree, TypeOK
<1>10. CASE Destroy
  BY <1>10, <1>t DEF Destroy, AdminInv, StopPcs, TypeOK, Pcs, Conns
<1> QED
  BY <1>1, <1>2, <1>3, <1>4, <1>5, <1>6, <1>7, <1>8, <1>9, <1>10 DEF AdminStep

-----------------------------------------------------------------------------
(* Control points                                                            *)

\* What the rest of the proofs uses of PoolAssumption.
LEMMA Basics ==
  /\ Handlers \subseteq Threads /\ HttpWorkers \subseteq Threads /\ Admin \notin Threads
  /\ None \notin Procs /\ None \notin Services /\ None \notin Subjects /\ None \notin Conns
  /\ Managed \subseteq Services
  /\ \A t \in Threads : Home[t] \in Services
OBVIOUS

\* Which domains the variables have.
Domains ==
    /\ DOMAIN model = Services /\ DOMAIN svcMu = Services /\ DOMAIN execMu = Services
    /\ DOMAIN execCon = Services /\ DOMAIN status = Services
    /\ DOMAIN binding = Conns /\ DOMAIN sess = Pool
    /\ DOMAIN pc = Procs /\ DOMAIN mode = Procs /\ DOMAIN con = Procs /\ DOMAIN subject = Procs
    /\ DOMAIN bound = Procs /\ DOMAIN caller = Handlers

\* What EXCEPT needs of the types.
LEMMA TypeDomains == TypeOK => Domains
BY DEF TypeOK, Domains

\* The values that name connections, services and threads.
Ranges ==
    /\ \A s \in Services : execCon[s] \in Pool \cup {None}
    /\ \A c \in Pool : sess[c] \in Services \cup {None}
    /\ \A h \in Handlers : caller[h] \in Threads \cup {None}

\* What the pointers need of them.
LEMMA TypeRanges == TypeOK => Ranges
BY DEF TypeOK, Ranges


HIDE PoolAssumption DEF Threads
USE Basics DEF Resting, Scope, RelPcs, ThreadPcs, StopPcs, AdminPcs

ControlInv == FrameInv /\ AdminInv /\ CallerInv

\* What a step leaves to a thread that does not take it: at most it is woken, or
\* the reply to its call arrives.
Kept(u) ==
    /\ \/ pc'[u] = pc[u]
       \/ pc[u] = "waiting" /\ pc'[u] = "acquire"
       \/ pc[u] = "calling" /\ pc'[u] = "leave"
    /\ mode'[u] = mode[u] /\ con'[u] = con[u]
    /\ mode[u] = "service" /\ execMu[Home[u]] = u =>
          execMu'[Home[u]] = u /\ execCon'[Home[u]] = execCon[Home[u]]
    /\ laneMu = u => laneMu' = u

\* A thread left alone keeps what it holds.
LEMMA OtherFrame ==
  ASSUME NEW u \in Threads, FrameOK(u), Kept(u)
  PROVE  FrameOK(u)'
BY DEF FrameOK, Pins, Kept

\* A thread leaves "idle" only for a service that is up, so what has been joined
\* stays joined.
LEMMA AdminKept ==
  ASSUME TypeOK, AdminInv, UNCHANGED <<target, status>>,
         pc'[Admin] = pc[Admin], mode'[Admin] = mode[Admin], con'[Admin] = con[Admin],
         \A u \in Threads : pc[u] = "idle" => pc'[u] = "idle" \/ status[Home[u]] = "up"
  PROVE  AdminInv'
BY DEF AdminInv

\* A call stays served by the handler that took it.
LEMMA CallerKept ==
  ASSUME TypeOK, CallerInv, UNCHANGED caller,
         \A u \in Threads : pc[u] = "calling" =>
             pc'[u] = "calling" \/ \A h \in Handlers : caller[h] # u
  PROVE  CallerInv'
BY TypeRanges DEF Ranges, CallerInv

\* The step of a thread that neither begins nor answers a request.
LEMMA ThreadControl ==
  ASSUME PoolInv, NEW t \in Threads, FrameOK(t)', UNCHANGED <<target, status, caller>>,
         \A u \in Threads \ {t} : Kept(u) /\ (pc[u] = "calling" => pc'[u] = "calling"),
         pc'[Admin] = pc[Admin], mode'[Admin] = mode[Admin], con'[Admin] = con[Admin],
         pc[t] = "idle" => status[Home[t]] = "up",
         pc[t] = "calling" => pc'[t] = "calling" \/ \A h \in Handlers : caller[h] # t
  PROVE  ControlInv'
<1>1. FrameInv'
  BY OtherFrame DEF PoolInv, FrameInv
<1>2. AdminInv'
  <2>1. \A u \in Threads : pc[u] = "idle" => pc'[u] = "idle" \/ status[Home[u]] = "up"
    BY DEF Kept
  <2> QED BY <2>1, AdminKept DEF PoolInv
<1>3. CallerInv'
  BY CallerKept DEF PoolInv
<1> QED
  BY <1>1, <1>2, <1>3 DEF ControlInv

\* Steps of a scope keep the control part.
LEMMA ScopeControl ==
  ASSUME PoolInv, NEW t \in Threads, ScopeStep(t)
  PROVE  ControlInv'
<1>t. TypeOK /\ Domains /\ FrameOK(t) /\ t # Admin
  BY TypeDomains DEF PoolInv, FrameInv
<1>a. ASSUME NEW l \in Pcs, Goto(t, l), UNCHANGED <<target, status, caller>>,
             \A u \in Procs \ {t} : mode'[u] = mode[u] /\ con'[u] = con[u],
             \A u \in Threads \ {t} :
                 /\ mode[u] = "service" /\ execMu[Home[u]] = u =>
                       execMu'[Home[u]] = u /\ execCon'[Home[u]] = execCon[Home[u]]
                 /\ laneMu = u => laneMu' = u,
             FrameOK(t)', pc[t] \notin {"idle", "calling"}
      PROVE  ControlInv'
  BY <1>t, <1>a, ThreadControl DEF Domains, Kept
<1>1. CASE Acquire(t)
  <2>1. PICK c \in Obtainable :
            /\ con' = [con EXCEPT ![t] = c]
            /\ execCon' = IF mode[t] = "service" THEN [execCon EXCEPT ![Home[t]] = c] ELSE execCon
    BY <1>1 DEF Acquire, Take
  <2>2. c \in Pool
    BY <1>t, <2>1, ObtainableType
  <2>3. FrameOK(t)'
    BY <1>1, <1>t, <2>1, <2>2 DEF Acquire, FrameOK, Pins, Domains
  <2>4. \A u \in Threads \ {t} : mode[u] = "service" /\ execMu[Home[u]] = u =>
            execMu'[Home[u]] = u /\ execCon'[Home[u]] = execCon[Home[u]]
    BY <1>1, <1>t, <2>1 DEF Acquire, FrameOK, Pins, Domains
  <2> QED BY <1>1, <1>a, <1>t, <2>1, <2>3, <2>4 DEF Acquire, Domains, Pcs
<1>2. CASE AcquireWaits(t)
  <2>1. FrameOK(t)'
    BY <1>2, <1>t DEF AcquireWaits, FrameOK, Pins, Domains
  <2> QED BY <1>2, <1>a, <1>t, <2>1 DEF AcquireWaits, Domains, Pcs
<1>3. CASE Deadline(t)
  <2>1. FrameOK(t)'
    BY <1>3, <1>t DEF Deadline, FrameOK, Pins, Domains
  <2> QED BY <1>3, <1>a, <1>t, <2>1 DEF Deadline, Domains, Pcs
<1>4. CASE AcquireFails(t)
  <2>1. FrameOK(t)'
    BY <1>4, <1>t DEF AcquireFails, FrameOK, Pins, Domains
  <2>2. \A u \in Threads \ {t} : execMu[Home[u]] = u => execMu'[Home[u]] = u
    BY <1>4, <1>t DEF AcquireFails, FrameOK, Pins, Domains
  <2>3. \E l \in Pcs : Goto(t, l)
    BY <1>4 DEF AcquireFails, Pcs
  <2> QED BY <1>4, <1>a, <1>t, <2>1, <2>2, <2>3 DEF AcquireFails, Domains
<1>5. CASE Enter(t)
  <2>1. FrameOK(t)'
    <3>1. model[Home[t]] \in AllModels
      BY <1>t, PoolAssumption DEF TypeOK
    <3>2. con[t] = None /\ con' = con /\ mode'[t] = model[Home[t]]
      BY <1>5, <1>t DEF Enter, FrameOK, Domains
    <3>3. \/ mode'[t] = "shared" /\ pc'[t] = "enter_shared"
          \/ mode'[t] = "service" /\ pc'[t] = "enter_service"
          \/ mode'[t] = "request" /\ pc'[t] = "acquire"
      BY <1>5, <1>t, <3>1 DEF Enter, Domains, AllModels
    <3> QED BY <3>2, <3>3 DEF FrameOK
  <2>2. \E l \in Pcs : Goto(t, l)
    BY <1>5 DEF Enter, Pcs
  <2> QED BY <1>5, <1>a, <1>t, <2>1, <2>2 DEF Enter, Domains
<1>6. CASE EnterShared(t)
  <2>1. FrameOK(t)'
    BY <1>6, <1>t DEF EnterShared, FrameOK, Pins, Domains
  <2> QED BY <1>6, <1>a, <1>t, <2>1 DEF EnterShared, Domains, Pcs
<1>7. CASE EnterService(t)
  <2>1. FrameOK(t)'
    <3>1. mode'[t] = "service" /\ execMu'[Home[t]] = t /\ execCon' = execCon
      BY <1>7, <1>t DEF EnterService, FrameOK, Domains
    <3>2. CASE execCon[Home[t]] = None
      <4>1. pc'[t] = "acquire" /\ con'[t] = None
        BY <1>7, <1>t, <3>2 DEF EnterService, FrameOK, Domains
      <4> QED BY <3>1, <3>2, <4>1 DEF FrameOK, Pins
    <3>3. CASE execCon[Home[t]] # None
      <4>1. pc'[t] = "bind" /\ con'[t] = execCon[Home[t]]
        BY <1>7, <1>t, <3>3 DEF EnterService, Domains
      <4>2. execCon[Home[t]] \in Pool
        BY <1>t, <3>3, TypeRanges DEF Ranges
      <4> QED BY <3>1, <4>1, <4>2 DEF FrameOK, Pins
    <3> QED BY <3>2, <3>3
  <2>2. \A u \in Threads \ {t} : execMu[Home[u]] = u => execMu'[Home[u]] = u
    BY <1>7, <1>t DEF EnterService, Domains
  <2>3. \E l \in Pcs : Goto(t, l)
    BY <1>7 DEF EnterService, Pcs
  <2>4. \A u \in Procs \ {t} : con'[u] = con[u]
    BY <1>7, <1>t DEF EnterService, Domains
  <2> QED BY <1>7, <1>a, <1>t, <2>1, <2>2, <2>3, <2>4 DEF EnterService
<1>8. CASE Bind(t)
  <2>1. FrameOK(t)'
    BY <1>8, <1>t DEF Bind, FrameOK, Pins, Domains
  <2> QED BY <1>8, <1>a, <1>t, <2>1 DEF Bind, Domains, Pcs
<1>9. CASE SqlDone(t) \/ SqlCalls(t)
  <2>1. FrameOK(t)'
    BY <1>9, <1>t DEF SqlDone, SqlCalls, FrameOK, Pins, Domains
  <2>2. \E l \in Pcs : Goto(t, l)
    BY <1>9 DEF SqlDone, SqlCalls, Pcs
  <2> QED BY <1>9, <1>a, <1>t, <2>1, <2>2 DEF SqlDone, SqlCalls, Domains
<1>10. CASE CallFails(t)
  <2>1. FrameOK(t)'
    BY <1>10, <1>t DEF CallFails, FrameOK, Pins, Domains
  <2>2. \A u \in Threads \ {t} : Kept(u) /\ pc'[u] = pc[u]
    BY <1>10, <1>t DEF CallFails, Kept, Domains
  <2> QED BY <1>10, <1>t, <2>1, <2>2, ThreadControl DEF CallFails, Domains
<1>11. CASE Leave(t)
  <2>1. FrameOK(t)'
    BY <1>11, <1>t DEF Leave, FrameOK, Pins, Domains
  <2> QED BY <1>11, <1>a, <1>t, <2>1 DEF Leave, Domains, Pcs
<1>12. CASE LeaveRelease(t)
  <2>1. After(t) \subseteq Pcs /\ After(t) \subseteq {"idle", "method", "end"}
    BY <1>t, AfterType DEF Pcs
  <2>2. /\ pc'[t] \in {"idle", "method", "end"} /\ con' = [con EXCEPT ![t] = None]
        /\ \A q \in Procs \ {t} :
               pc'[q] = pc[q] \/ (pc[q] = "waiting" /\ pc'[q] = "acquire" /\ q \in Threads)
    <3>1. CASE mode[t] = "request"
      <4>1. Release(t, con[t], After(t))
        BY <1>12, <3>1 DEF LeaveRelease
      <4> QED BY <1>12, <1>t, <2>1, <4>1, ReleaseType DEF LeaveRelease
    <3>2. CASE mode[t] # "request"
      BY <1>12, <1>t, <2>1, <3>2 DEF LeaveRelease, Domains
    <3> QED BY <3>1, <3>2
  <2>3. FrameOK(t)'
    BY <1>12, <1>t, <2>2 DEF LeaveRelease, FrameOK, Pins, Domains
  <2>4. \A u \in Threads \ {t} :
            /\ execMu[Home[u]] = u => execMu'[Home[u]] = u
            /\ laneMu = u => laneMu' = u
    <3>1. mode[t] = "shared" => laneMu = t
      BY <1>12, <1>t DEF LeaveRelease, FrameOK, Pins
    <3>2. mode[t] = "service" => execMu[Home[t]] = t
      BY <1>12, <1>t DEF LeaveRelease, FrameOK, Pins
    <3>3. \A s \in Services : execMu'[s] = execMu[s] \/ execMu[s] = t
      BY <1>12, <1>t, <3>2 DEF LeaveRelease, Domains
    <3>4. laneMu' = laneMu \/ laneMu = t
      BY <1>12, <3>1 DEF LeaveRelease
    <3> QED BY <3>3, <3>4
  <2>5. \A u \in Threads \ {t} : Kept(u) /\ (pc[u] = "calling" => pc'[u] = "calling")
    BY <1>12, <1>t, <2>2, <2>4 DEF LeaveRelease, Kept, Domains
  <2>6. pc'[Admin] = pc[Admin] /\ con'[Admin] = con[Admin] /\ mode'[Admin] = mode[Admin]
    BY <1>12, <1>t, <2>2 DEF LeaveRelease, Domains
  <2> QED BY <1>12, <1>t, <2>3, <2>5, <2>6, ThreadControl DEF LeaveRelease
<1> QED
  BY <1>1, <1>2, <1>3, <1>4, <1>5, <1>6, <1>7, <1>8, <1>9, <1>10, <1>11, <1>12 DEF ScopeStep

\* Steps of a request handler keep the control part.
LEMMA HandlerControl ==
  ASSUME PoolInv, NEW h \in Handlers, Begin(h) \/ HandlerStep(h)
  PROVE  ControlInv'
<1>t. TypeOK /\ Domains /\ FrameOK(h) /\ h \in Threads /\ h # Admin
  BY TypeDomains DEF PoolInv, FrameInv
<1>a. ASSUME UNCHANGED <<svcVars, laneMu, target, caller>>, FrameOK(h)',
             pc[h] \notin {"idle", "calling"},
             \A u \in Procs \ {h} :
                 /\ mode'[u] = mode[u] /\ con'[u] = con[u]
                 /\ pc'[u] = pc[u] \/ (pc[u] = "waiting" /\ pc'[u] = "acquire" /\ u \in Threads)
      PROVE  ControlInv'
  <2>1. pc[Admin] # "waiting"
    BY DEF PoolInv, AdminInv
  <2>2. \A u \in Threads \ {h} : Kept(u) /\ (pc[u] = "calling" => pc'[u] = "calling")
    BY <1>a, <1>t DEF Kept
  <2> QED BY <1>a, <1>t, <2>1, <2>2, ThreadControl
<1>1. CASE Begin(h)
  <2>1. FrameOK(h)'
    BY <1>1, <1>t DEF Begin, FrameOK, Pins, Domains
  <2>2. \A u \in Procs \ {h} : pc'[u] = pc[u] /\ mode'[u] = mode[u] /\ con'[u] = con[u]
    BY <1>1, <1>t DEF Begin, Domains
  <2>3. FrameInv'
    <3>1. \A u \in Threads \ {h} : Kept(u)
      BY <1>1, <1>t, <2>2 DEF Begin, Kept
    <3> QED BY <2>1, <3>1, OtherFrame DEF PoolInv, FrameInv
  <2>4. AdminInv'
    <3>1. status[Home[h]] = "up" /\ UNCHANGED <<target, status>>
      BY <1>1 DEF Begin
    <3> QED BY <1>t, <2>2, <3>1, AdminKept DEF PoolInv
  <2>5. CallerInv'
    <3>1. PICK c \in {t \in Threads : /\ pc[t] = "calling" /\ <<Home[t], Home[h]>> \in Calls
                                      /\ \A g \in Handlers : caller[g] # t} \cup {None} :
              caller' = [caller EXCEPT ![h] = c]
      BY <1>1 DEF Begin
    <3>2. c # None => c \in Threads /\ c # h /\ pc[c] = "calling" /\ \A g \in Handlers : caller[g] # c
      BY <1>1, <3>1 DEF Begin
    <3>3. \A g \in Handlers : caller'[g] = IF g = h THEN c ELSE caller[g]
      BY <1>t, <3>1 DEF Domains
    <3>4. \A g \in Handlers : caller'[g] # None => pc'[caller'[g]] = "calling"
      <4> SUFFICES ASSUME NEW g \in Handlers, caller'[g] # None
                   PROVE  pc'[caller'[g]] = "calling"
        OBVIOUS
      <4>1. caller'[g] \in Threads /\ pc[caller'[g]] = "calling"
        BY <1>t, <3>2, <3>3, TypeRanges DEF PoolInv, CallerInv, Ranges
      <4>2. pc[h] = "idle"
        BY <1>1 DEF Begin
      <4> QED BY <2>2, <4>1, <4>2
    <3>5. \A f, g \in Handlers : caller'[f] # None /\ caller'[f] = caller'[g] => f = g
      BY <3>2, <3>3 DEF PoolInv, CallerInv
    <3> QED BY <3>4, <3>5 DEF CallerInv
  <2> QED BY <2>3, <2>4, <2>5 DEF ControlInv
<1>2. CASE Method(h)
  <2>1. FrameOK(h)'
    <3>1. con[h] = None /\ mode[h] = "none"
      BY <1>2, <1>t DEF Method, FrameOK
    <3>2. \/ pc'[h] = "enter" /\ con'[h] = None /\ mode'[h] = "none"
          \/ pc'[h] = "acquire" /\ con'[h] = None /\ mode'[h] = "session"
          \/ pc'[h] = "rel_unbind" /\ con'[h] \in Pool /\ mode'[h] = "none"
      <4>1. CASE Goto(h, "enter") /\ UNCHANGED <<mode, con>>
        BY <1>t, <3>1, <4>1 DEF Domains
      <4>2. CASE Goto(h, "acquire") /\ mode' = [mode EXCEPT ![h] = "session"] /\ UNCHANGED con
        BY <1>t, <3>1, <4>2 DEF Domains
      <4>3. ASSUME NEW c \in Sessions(Home[h]), con' = [con EXCEPT ![h] = c],
                   Goto(h, "rel_unbind"), UNCHANGED mode
            PROVE  pc'[h] = "rel_unbind" /\ con'[h] \in Pool /\ mode'[h] = "none"
        BY <1>t, <3>1, <4>3 DEF Sessions, Domains
      <4> QED BY <1>2, <4>1, <4>2, <4>3 DEF Method
    <3> QED BY <3>2 DEF FrameOK
  <2>2. \A u \in Procs \ {h} : pc'[u] = pc[u] /\ mode'[u] = mode[u] /\ con'[u] = con[u]
    BY <1>2, <1>t DEF Method, Domains
  <2> QED BY <1>2, <1>a, <2>1, <2>2 DEF Method
<1>3. CASE OpenSession(h)
  <2>1. FrameOK(h)'
    BY <1>3, <1>t DEF OpenSession, FrameOK, Pins, Domains
  <2>2. \A u \in Procs \ {h} : pc'[u] = pc[u] /\ mode'[u] = mode[u] /\ con'[u] = con[u]
    BY <1>3, <1>t DEF OpenSession, Domains
  <2> QED BY <1>3, <1>a, <2>1, <2>2 DEF OpenSession
<1>4. CASE RelUnbind(h)
  <2>1. FrameOK(h)'
    BY <1>4, <1>t DEF RelUnbind, FrameOK, Pins, Domains
  <2>2. \A u \in Procs \ {h} : pc'[u] = pc[u] /\ mode'[u] = mode[u] /\ con'[u] = con[u]
    BY <1>4, <1>t DEF RelUnbind, Domains
  <2> QED BY <1>4, <1>a, <2>1, <2>2 DEF RelUnbind
<1>5. CASE RelFree(h)
  <2>1. Release(h, con[h], {"end"}) /\ pc[h] = "rel_free"
    BY <1>5, <1>t DEF RelFree
  <2>2. {"end"} \in SUBSET Pcs
    BY DEF Pcs
  <2>3. /\ pc'[h] = "end" /\ con' = [con EXCEPT ![h] = None]
        /\ \A q \in Procs \ {h} :
               pc'[q] = pc[q] \/ (pc[q] = "waiting" /\ pc'[q] = "acquire" /\ q \in Threads)
    <3>1. /\ pc[h] # "waiting" => pc'[h] \in {"end"}
          /\ con' = [con EXCEPT ![h] = None]
          /\ \A q \in Procs \ {h} :
                 pc'[q] = pc[q] \/ (pc[q] = "waiting" /\ pc'[q] = "acquire" /\ q \in Threads)
      BY <1>t, <2>1, <2>2, ReleaseType, Zenon
    <3> QED BY <2>1, <3>1
  <2>4. FrameOK(h)'
    BY <1>5, <1>t, <2>1, <2>3 DEF RelFree, FrameOK, Domains
  <2>5. \A u \in Procs \ {h} : mode'[u] = mode[u] /\ con'[u] = con[u]
    BY <1>5, <1>t, <2>3 DEF RelFree, Domains
  <2> QED BY <1>5, <1>a, <2>1, <2>3, <2>4, <2>5 DEF RelFree
<1>6. CASE End(h)
  <2>1. /\ pc[h] = "end" /\ pc'[h] = "idle" /\ caller' = [caller EXCEPT ![h] = None]
        /\ UNCHANGED <<svcVars, laneMu, target, mode, con>>
        /\ \A u \in Procs \ {h} : pc'[u] = IF u = caller[h] THEN "leave" ELSE pc[u]
    BY <1>6, <1>t DEF End
  <2>2. caller[h] # None => pc[caller[h]] = "calling" /\ caller[h] \in Threads
    BY <1>t, TypeRanges DEF PoolInv, CallerInv, Ranges
  <2>3. FrameInv'
    <3>1. \A u \in Threads \ {h} : Kept(u)
      BY <1>t, <2>1, <2>2 DEF Kept
    <3>2. FrameOK(h)'
      BY <1>t, <2>1 DEF FrameOK
    <3> QED BY <3>1, <3>2, OtherFrame DEF PoolInv, FrameInv
  <2>4. AdminInv'
    <3>1. pc'[Admin] = pc[Admin]
      BY <1>t, <2>1, <2>2
    <3>2. \A u \in Threads : pc[u] = "idle" => pc'[u] = "idle"
      BY <1>t, <2>1, <2>2
    <3> QED BY <1>t, <2>1, <3>1, <3>2, AdminKept DEF PoolInv
  <2>5. CallerInv'
    <3>1. \A g \in Handlers : caller'[g] = IF g = h THEN None ELSE caller[g]
      BY <1>t, <2>1 DEF Domains
    <3>2. \A g \in Handlers : caller'[g] # None => pc'[caller'[g]] = "calling"
      <4> SUFFICES ASSUME NEW g \in Handlers, caller'[g] # None
                   PROVE  pc'[caller'[g]] = "calling"
        OBVIOUS
      <4>1. g # h /\ caller'[g] = caller[g] /\ caller[g] \in Threads /\ pc[caller[g]] = "calling"
        BY <1>t, <3>1, TypeRanges DEF PoolInv, CallerInv, Ranges
      <4>2. caller[g] # caller[h]
        BY <4>1 DEF PoolInv, CallerInv
      <4> QED BY <2>1, <4>1, <4>2
    <3>3. \A f, g \in Handlers : caller'[f] # None /\ caller'[f] = caller'[g] => f = g
      BY <3>1 DEF PoolInv, CallerInv
    <3> QED BY <3>2, <3>3 DEF CallerInv
  <2> QED BY <2>3, <2>4, <2>5 DEF ControlInv
<1> QED
  BY <1>1, <1>2, <1>3, <1>4, <1>5, <1>6 DEF HandlerStep

\* Configuration, shutdown and the clock keep the control part.
LEMMA AdminControl ==
  ASSUME PoolInv,
         \/ AdminStep
         \/ \E s \in Managed, m \in Models : SetModel(s, m)
         \/ \E s \in Managed : StopCheck(s)
         \/ \E n \in Ceilings : SetMax(n)
         \/ \E t \in HttpWorkers : Tick(t)
  PROVE  ControlInv'
<1>t. TypeOK /\ Domains /\ AdminInv /\ Admin \notin Threads
  BY TypeDomains DEF PoolInv
\* Steps of the administrator: the threads keep their frames, and what is left is AdminInv'.
<1>a. ASSUME UNCHANGED <<execMu, laneMu, caller>>, AdminInv',
             \A u \in Threads :
                 /\ mode'[u] = mode[u] /\ con'[u] = con[u]
                 /\ pc'[u] = pc[u] \/ (pc[u] = "waiting" /\ pc'[u] = "acquire")
                 /\ mode[u] = "service" /\ execMu[Home[u]] = u =>
                       execCon'[Home[u]] = execCon[Home[u]]
      PROVE  ControlInv'
  <2>1. \A u \in Threads : Kept(u)
    BY <1>a DEF Kept
  <2>2. FrameInv'
    BY <2>1, OtherFrame DEF PoolInv, FrameInv
  <2>3. CallerInv'
    BY <1>a, <1>t, CallerKept DEF PoolInv
  <2> QED BY <1>a, <2>2, <2>3 DEF ControlInv
<1>1. ASSUME NEW s \in Managed, NEW m \in Models, SetModel(s, m) PROVE ControlInv'
  <2>1. AdminInv'
    BY <1>1, <1>t DEF SetModel, AdminInv, Domains
  <2> QED BY <1>1, <1>a, <1>t, <2>1 DEF SetModel, Domains
<1>2. ASSUME NEW s \in Managed, StopCheck(s) PROVE ControlInv'
  <2>1. AdminInv'
    BY <1>2, <1>t DEF StopCheck, AdminInv, Domains
  <2> QED BY <1>2, <1>a, <1>t, <2>1 DEF StopCheck, Domains
<1>3. ASSUME NEW n \in Ceilings, SetMax(n) PROVE ControlInv'
  <2>1. AdminInv'
    BY <1>3, <1>t DEF SetMax, AdminInv
  <2> QED BY <1>3, <1>a, <1>t, <2>1 DEF SetMax
<1>4. ASSUME NEW t \in HttpWorkers, Tick(t) PROVE ControlInv'
  <2>1. FrameOK(t) /\ t \in Threads /\ t # Admin
    BY <1>t DEF PoolInv, FrameInv
  <2>2. FrameOK(t)'
    BY <1>4, <1>t, <2>1 DEF Tick, FrameOK, Domains
  <2>3. \A u \in Threads \ {t} : Kept(u) /\ pc'[u] = pc[u]
    BY <1>4, <1>t DEF Tick, Kept, Domains
  <2> QED BY <1>4, <1>t, <2>1, <2>2, <2>3, ThreadControl DEF Tick, Domains
<1>5. CASE SetModelSwap
  <2> DEFINE s == target[1]
  <2>1. /\ pc[Admin] = "set_model" /\ s \in Services /\ execMu[s] = None
        /\ con' = [con EXCEPT ![Admin] = execCon[s]]
        /\ execCon' = [execCon EXCEPT ![s] = None]
        /\ pc' = [pc EXCEPT ![Admin] = IF execCon[s] = None THEN "idle" ELSE "model_release"]
        /\ UNCHANGED <<execMu, laneMu, caller, mode>>
    BY <1>5, <1>t DEF SetModelSwap, AdminInv
  <2> HIDE DEF s
  <2>2. AdminInv'
    <3>1. execCon[s] \in Pool \cup {None}
      BY <1>t, <2>1, TypeRanges DEF Ranges
    <3>2. /\ con'[Admin] = execCon[s] /\ mode'[Admin] = "none"
          /\ pc'[Admin] = IF execCon[s] = None THEN "idle" ELSE "model_release"
      BY <1>t, <2>1 DEF AdminInv, Domains
    <3> QED BY <3>1, <3>2 DEF AdminInv
  <2> QED BY <1>a, <1>t, <2>1, <2>2 DEF Domains
<1>6. CASE ModelRelease
  <2>1. Release(Admin, con[Admin], {"idle"}) /\ pc[Admin] = "model_release" /\ {"idle"} \in SUBSET Pcs
    BY <1>6 DEF ModelRelease, Pcs
  <2>2. /\ pc'[Admin] = "idle" /\ con' = [con EXCEPT ![Admin] = None]
        /\ \A q \in Procs \ {Admin} :
               pc'[q] = pc[q] \/ (pc[q] = "waiting" /\ pc'[q] = "acquire" /\ q \in Threads)
    <3>1. /\ pc[Admin] # "waiting" => pc'[Admin] \in {"idle"}
          /\ con' = [con EXCEPT ![Admin] = None]
          /\ \A q \in Procs \ {Admin} :
                 pc'[q] = pc[q] \/ (pc[q] = "waiting" /\ pc'[q] = "acquire" /\ q \in Threads)
      BY <1>t, <2>1, ReleaseType, Zenon
    <3> QED BY <2>1, <3>1
  <2>3. AdminInv'
    BY <1>6, <1>t, <2>2 DEF ModelRelease, AdminInv, Domains
  <2> QED BY <1>6, <1>a, <1>t, <2>2, <2>3 DEF ModelRelease, Domains
<1>7. CASE StopFlag
  <2>1. AdminInv'
    BY <1>7, <1>t DEF StopFlag, AdminInv, Domains
  <2> QED BY <1>7, <1>a, <1>t, <2>1 DEF StopFlag, Domains
<1>8. CASE StopJoin
  <2>1. AdminInv'
    BY <1>8, <1>t DEF StopJoin, AdminInv, Domains
  <2> QED BY <1>8, <1>a, <1>t, <2>1 DEF StopJoin, Domains
<1>9. CASE StopSession
  <2>1. PICK c \in Pool : con' = [con EXCEPT ![Admin] = c]
    BY <1>9 DEF StopSession, Sessions
  <2>2. AdminInv'
    BY <1>9, <1>t, <2>1 DEF StopSession, AdminInv, Domains
  <2> QED BY <1>9, <1>a, <1>t, <2>1, <2>2 DEF StopSession, Domains
<1>10. CASE RelUnbind(Admin)
  <2>1. AdminInv'
    BY <1>10, <1>t DEF RelUnbind, AdminInv, Domains
  <2> QED BY <1>10, <1>a, <1>t, <2>1 DEF RelUnbind, Domains
<1>11. CASE RelFree(Admin)
  <2>1. /\ Release(Admin, con[Admin], {"stop_sessions"}) /\ pc[Admin] = "rel_free"
        /\ {"stop_sessions"} \in SUBSET Pcs
    BY <1>11 DEF RelFree, Pcs
  <2>2. /\ pc'[Admin] = "stop_sessions" /\ con' = [con EXCEPT ![Admin] = None]
        /\ \A q \in Procs \ {Admin} :
               pc'[q] = pc[q] \/ (pc[q] = "waiting" /\ pc'[q] = "acquire" /\ q \in Threads)
    <3>1. /\ pc[Admin] # "waiting" => pc'[Admin] \in {"stop_sessions"}
          /\ con' = [con EXCEPT ![Admin] = None]
          /\ \A q \in Procs \ {Admin} :
                 pc'[q] = pc[q] \/ (pc[q] = "waiting" /\ pc'[q] = "acquire" /\ q \in Threads)
      BY <1>t, <2>1, ReleaseType, Zenon
    <3> QED BY <2>1, <3>1
  <2>3. AdminInv'
    BY <1>11, <1>t, <2>1, <2>2 DEF RelFree, AdminInv, Domains
  <2> QED BY <1>11, <1>a, <1>t, <2>2, <2>3 DEF RelFree, Domains
<1>12. CASE Destroy
  <2> DEFINE s == target[1]
  <2>1. /\ pc[Admin] = "stop_sessions" /\ s \in Services
        /\ \A u \in Threads : Home[u] = s => pc[u] = "idle"
        /\ con' = [con EXCEPT ![Admin] = execCon[s]]
        /\ execCon' = [execCon EXCEPT ![s] = None]
        /\ pc' = [pc EXCEPT ![Admin] = IF execCon[s] = None THEN "idle" ELSE "model_release"]
        /\ UNCHANGED <<execMu, laneMu, caller, mode>>
    BY <1>12, <1>t DEF Destroy, AdminInv
  <2> HIDE DEF s
  <2>2. AdminInv'
    <3>1. execCon[s] \in Pool \cup {None}
      BY <1>t, <2>1, TypeRanges DEF Ranges
    <3>2. /\ con'[Admin] = execCon[s] /\ mode'[Admin] = "none"
          /\ pc'[Admin] = IF execCon[s] = None THEN "idle" ELSE "model_release"
      BY <1>t, <2>1 DEF AdminInv, Domains
    <3> QED BY <3>1, <3>2 DEF AdminInv
  <2>3. \A u \in Threads : mode[u] = "service" => Home[u] # s
    BY <2>1 DEF PoolInv, FrameInv, FrameOK
  <2> QED BY <1>a, <1>t, <2>1, <2>2, <2>3 DEF Domains
<1> QED
  BY <1>1, <1>2, <1>3, <1>4, <1>5, <1>6, <1>7, <1>8, <1>9, <1>10, <1>11, <1>12 DEF AdminStep
=============================================================================
