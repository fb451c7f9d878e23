----------------------- MODULE SessionTableInvariant ------------------------
(***************************************************************************)
(* The inductive invariant of SessionTable, the facts about a thread that  *)
(* follow from it, the initial states, and every step's effect on the      *)
(* types and on the frames of the threads.                                 *)
(***************************************************************************)
EXTENDS SessionTable, TLAPS

StopperPcs == {"idle", "stop_join", "stop_next", "stopped", "destroy", "destroy_wait",
               "destroy_upload", "destroy_free"}

\* What a thread's control state says about its frame.
FrameInv ==
    /\ \A w \in Workers :
        /\ pc[w] \notin {"stop_join", "stop_next", "stopped"}
        /\ pc[w] # "idle" => req[w] \in Requests /\ tid[w] \in SessionIds
        /\ ret[w] \in {"idle", "prune_lock"}
    /\ pc[Stopper] \in StopperPcs
    /\ cur[Stopper] # None => ret[Stopper] = "stop_next"
    /\ \A p \in Procs : cur[p] # None <=> pc[p] \in RefPcs \cup DetachedPcs
    /\ \A p \in Procs : ocon[p] # None <=> pc[p] \in OpenConPcs

\* svc->mu is held exactly where the code holds it across a step.
ServiceLockInv == \A p \in Procs : pc[p] \in ServiceLockPcs <=> svcMu = p

\* session->mu likewise, and its holder has the session.
SessionLockInv ==
    /\ \A p \in Procs : pc[p] \in SessionLockPcs => mu[cur[p]] = p
    /\ \A s \in SessionIds : mu[s] # None => cur[mu[s]] = s /\ pc[mu[s]] \in SessionLockPcs

\* Where a session is in its life.
LifeInv ==
    /\ \A s \in SessionIds : s >= nextId <=> phase[s] = "absent"
    /\ \A s \in SessionIds : phase[s] = "absent" => ~closing[s]
    /\ \A s \in SessionIds : scon[s] # None <=> phase[s] = "live"
    /\ \A s \in sessions \cup doomed : phase[s] = "live"
    /\ \A s \in sessions : ~closing[s] /\ s \notin doomed
    /\ \A s \in doomed : closing[s] /\ \A p \in Procs : cur[p] # s
    /\ \A p \in Procs : cur[p] # None => phase[cur[p]] = "live"

\* A detached session has one responsible thread, and once that thread has
\* passed the wait nobody holds a reference.
DetachInv ==
    /\ \A p \in Procs : pc[p] \in DetachedPcs => cur[p] \notin sessions /\ closing[cur[p]]
    /\ \A p, q \in Procs :
        pc[p] \in DetachedPcs /\ pc[q] \in DetachedPcs /\ cur[p] = cur[q] => p = q
    /\ \A p \in Procs : pc[p] \in TeardownPcs => refcount[cur[p]] = 0

\* A count of zero means that nobody holds the session: a consequence of
\* RefCountExact, kept beside it for the proofs that do not count.
ZeroUnheld == \A s \in SessionIds : refcount[s] = 0 => Holders(s) = {}

IInv ==
    /\ TypeOK /\ FrameInv /\ ServiceLockInv /\ SessionLockInv
    /\ LifeInv /\ DetachInv /\ RefCountExact /\ ZeroUnheld

-----------------------------------------------------------------------------
LEMMA Constants ==
    /\ None \notin Procs /\ None \notin Conns /\ None \notin SessionIds /\ None \notin Requests
    /\ Stopper \notin Workers /\ Stopper \in Procs /\ Workers \subseteq Procs
    /\ \A p \in Procs : p \in Workers \/ p = Stopper
    /\ MaxSessionId \in Nat /\ SessionIds \subseteq Nat
BY ConstantsAssumption DEF ConstantsAssumption, Procs, SessionIds

LEMMA RequestTypes ==
    ASSUME NEW r \in Requests
    PROVE  r.id \in SessionIds /\ r.caller \in Clients
BY ConstantsAssumption DEF ConstantsAssumption

USE Constants

\* A thread with a reference or a detached session has a live session.
LEMMA HeldSession ==
    ASSUME IInv, NEW p \in Procs, pc[p] \in RefPcs \cup DetachedPcs
    PROVE  /\ cur[p] \in SessionIds /\ phase[cur[p]] = "live"
           /\ scon[cur[p]] \in Conns /\ refcount[cur[p]] \in Nat
<1>1. cur[p] \in SessionIds
  BY DEF IInv, TypeOK, ThreadType, FrameInv
<1>2. phase[cur[p]] = "live"
  BY <1>1 DEF IInv, LifeInv
<1>3. scon[cur[p]] # None
  BY <1>1, <1>2, ZenonT(30) DEF IInv, LifeInv
<1>4. scon[cur[p]] \in Conns \cup {None} /\ refcount[cur[p]] \in Nat
  BY <1>1, ZenonT(30) DEF IInv, TypeOK, SessionType
<1> QED
  BY <1>1, <1>2, <1>3, <1>4

LEMMA PcType ==
    IInv => /\ pc \in [Procs -> Pcs]
            /\ ret \in [Procs -> {"idle", "prune_lock", "stop_next"}]
BY DEF IInv, TypeOK, ThreadType

\* An open handler that has not handed its connection on yet has one.
LEMMA HeldConnection ==
    ASSUME IInv, NEW p \in Procs, pc[p] \in OpenConPcs
    PROVE  ocon[p] \in Conns
BY DEF IInv, TypeOK, ThreadType, FrameInv

\* The domains of the functions, enough to evaluate an update.
LEMMA Domains ==
    IInv => /\ DOMAIN pc = Procs /\ DOMAIN cur = Procs /\ DOMAIN ocon = Procs
            /\ DOMAIN req = Procs /\ DOMAIN tid = Procs /\ DOMAIN reply = Procs
            /\ DOMAIN ret = Procs /\ DOMAIN idx = Procs
            /\ DOMAIN phase = SessionIds /\ DOMAIN scon = SessionIds /\ DOMAIN owner = SessionIds
            /\ DOMAIN kind = SessionIds /\ DOMAIN closing = SessionIds
            /\ DOMAIN appender = SessionIds /\ DOMAIN txn = SessionIds /\ DOMAIN acked = SessionIds
            /\ DOMAIN persisted = SessionIds /\ DOMAIN inTxn = Conns /\ DOMAIN pendingRows = Conns
BY DEF IInv, TypeOK, SessionType, DataType, ThreadType

\* Whoever tears a session down is alone with it: the wait in
\* ducknng_session_destroy has seen the count at zero, and the count is exact.
LEMMA TeardownAlone ==
    ASSUME IInv, NEW p \in Procs, pc[p] \in TeardownPcs, NEW q \in Procs, q # p
    PROVE  cur[q] # cur[p]
<1> SUFFICES ASSUME cur[q] = cur[p] PROVE FALSE
  OBVIOUS
<1>1. pc[p] \in DetachedPcs /\ cur[p] \in SessionIds
  BY HeldSession DEF DetachedPcs
<1>2. pc[q] \notin DetachedPcs
  BY <1>1 DEF IInv, DetachInv
<1>3. pc[q] \in RefPcs
  BY <1>1, <1>2 DEF IInv, FrameInv
<1>6. Holders(cur[p]) = {}
  BY <1>1, ZenonT(30) DEF IInv, DetachInv, ZeroUnheld
<1> QED
  BY <1>3, <1>6 DEF Holders

\* A step that neither enters nor leaves a critical section of session->mu.
LEMMA SessionLockFrame ==
    ASSUME SessionType, SessionLockInv, UNCHANGED <<mu, cur>>, NEW x \in Procs,
           pc'[x] \in SessionLockPcs <=> pc[x] \in SessionLockPcs,
           \A q \in Procs \ {x} : pc'[q] = pc[q]
    PROVE  SessionLockInv'
<1> USE DEF SessionLockPcs
<1>1. ASSUME NEW q \in Procs PROVE pc'[q] \in SessionLockPcs <=> pc[q] \in SessionLockPcs
  BY <1>1
<1>2. ASSUME NEW q \in Procs, pc'[q] \in SessionLockPcs PROVE mu'[cur'[q]] = q
  BY <1>1, <1>2 DEF SessionLockInv
<1>3. ASSUME NEW s \in SessionIds, mu'[s] # None
      PROVE  cur'[mu'[s]] = s /\ pc'[mu'[s]] \in SessionLockPcs
  <2>1. mu[s] \in Procs /\ cur[mu[s]] = s /\ pc[mu[s]] \in SessionLockPcs
    BY <1>3 DEF SessionType, SessionLockInv
  <2> QED
    BY <1>1, <2>1
<1> QED
  BY <1>2, <1>3 DEF SessionLockInv

\* A thread outside the critical sections of session->mu may change its session.
LEMMA SessionLockMoved ==
    ASSUME SessionType, SessionLockInv, UNCHANGED mu, NEW x \in Procs,
           pc[x] \notin SessionLockPcs, pc'[x] \notin SessionLockPcs,
           \A q \in Procs \ {x} :
                /\ cur'[q] = cur[q]
                /\ pc'[q] \in SessionLockPcs <=> pc[q] \in SessionLockPcs
    PROVE  SessionLockInv'
<1>1. ASSUME NEW q \in Procs, pc'[q] \in SessionLockPcs PROVE mu'[cur'[q]] = q
  BY <1>1 DEF SessionLockInv
<1>2. ASSUME NEW s \in SessionIds, mu'[s] # None
      PROVE  cur'[mu'[s]] = s /\ pc'[mu'[s]] \in SessionLockPcs
  <2>1. mu[s] \in Procs /\ cur[mu[s]] = s /\ pc[mu[s]] \in SessionLockPcs
    BY <1>2 DEF SessionType, SessionLockInv
  <2> QED
    BY <2>1
<1> QED
  BY <1>1, <1>2 DEF SessionLockInv

\* Locking a free session mutex, and unlocking one's own.
LEMMA SessionLockTaken ==
    ASSUME SessionType, SessionLockInv, NEW x \in Procs, cur[x] \in SessionIds,
           mu[cur[x]] = None, mu' = [mu EXCEPT ![cur[x]] = x], UNCHANGED cur,
           pc'[x] \in SessionLockPcs, \A q \in Procs \ {x} : pc'[q] = pc[q]
    PROVE  SessionLockInv'
<1> USE DEF SessionLockPcs, SessionLockInv
<1>1. ASSUME NEW q \in Procs, pc'[q] \in SessionLockPcs PROVE mu'[cur'[q]] = q
  <2>1. CASE q = x
    BY <2>1 DEF SessionType
  <2>2. CASE q # x
    <3>1. mu[cur[q]] = q
      BY <1>1, <2>2
    <3> QED
      BY <2>2, <3>1 DEF SessionType
  <2> QED
    BY <2>1, <2>2
<1>2. ASSUME NEW s \in SessionIds, mu'[s] # None
      PROVE  cur'[mu'[s]] = s /\ pc'[mu'[s]] \in SessionLockPcs
  <2>1. CASE s = cur[x]
    BY <2>1 DEF SessionType
  <2>2. CASE s # cur[x]
    <3>1. mu'[s] = mu[s] /\ mu[s] \in Procs
      BY <1>2, <2>2 DEF SessionType
    <3>2. cur[mu[s]] = s /\ pc[mu[s]] \in SessionLockPcs /\ mu[s] # x
      BY <1>2, <2>2, <3>1
    <3> QED
      BY <3>1, <3>2
  <2> QED
    BY <2>1, <2>2
<1> QED
  BY <1>1, <1>2

LEMMA SessionLockGiven ==
    ASSUME SessionType, SessionLockInv, NEW x \in Procs, cur[x] \in SessionIds,
           pc[x] \in SessionLockPcs, mu' = [mu EXCEPT ![cur[x]] = None], UNCHANGED cur,
           pc'[x] \notin SessionLockPcs, \A q \in Procs \ {x} : pc'[q] = pc[q]
    PROVE  SessionLockInv'
<1> USE DEF SessionLockPcs, SessionLockInv
<1>1. ASSUME NEW q \in Procs, pc'[q] \in SessionLockPcs PROVE mu'[cur'[q]] = q
  <2>1. q # x /\ mu[cur[q]] = q /\ mu[cur[x]] = x
    BY <1>1
  <2> QED
    BY <2>1 DEF SessionType
<1>2. ASSUME NEW s \in SessionIds, mu'[s] # None
      PROVE  cur'[mu'[s]] = s /\ pc'[mu'[s]] \in SessionLockPcs
  <2>1. s # cur[x] /\ mu'[s] = mu[s] /\ mu[s] \in Procs
    BY <1>2 DEF SessionType
  <2>2. cur[mu[s]] = s /\ pc[mu[s]] \in SessionLockPcs /\ mu[s] # x
    BY <1>2, <2>1
  <2> QED
    BY <2>1, <2>2
<1> QED
  BY <1>1, <1>2

LEMMA CountNat ==
    ASSUME TypeOK, NEW s \in SessionIds
    PROVE  refcount[s] \in Nat /\ refcount[s] + 1 \in Nat
BY DEF TypeOK, SessionType

LEMMA ExceptType ==
    ASSUME NEW S, NEW T, NEW f \in [S -> T], NEW x, NEW v \in T
    PROVE  [f EXCEPT ![x] = v] \in [S -> T]
BY ZenonT(30)

\* ducknng_session_try_acquire and ducknng_session_release, pointwise.
LEMMA AcquireCounts ==
    ASSUME TypeOK, NEW w \in Workers, Acquire(w), ~closing[tid[w]]
    PROVE  /\ tid[w] \in SessionIds
           /\ \A s \in SessionIds : refcount'[s] = IF s = tid[w] THEN refcount[s] + 1 ELSE refcount[s]
           /\ \A p \in Procs : cur'[p] = IF p = w THEN tid[w] ELSE cur[p]
<1>1. tid[w] \in SessionIds
  BY ZenonT(30) DEF TypeOK, TableType, Acquire
<1>2. refcount' = [refcount EXCEPT ![tid[w]] = refcount[tid[w]] + 1]
  BY DEF Acquire
<1>3. cur' = [cur EXCEPT ![w] = tid[w]]
  BY DEF Acquire
<1> QED
  BY <1>1, <1>2, <1>3 DEF TypeOK, SessionType, ThreadType

LEMMA ReleaseCounts ==
    ASSUME IInv, NEW w \in Workers, Release(w)
    PROVE  /\ cur[w] \in SessionIds
           /\ \A s \in SessionIds :
                refcount'[s] = IF s = cur[w] /\ refcount[s] > 0 THEN refcount[s] - 1 ELSE refcount[s]
           /\ \A p \in Procs : cur'[p] = IF p = w THEN None ELSE cur[p]
<1>1. cur[w] \in SessionIds /\ refcount[cur[w]] \in Nat
  BY HeldSession DEF Release, RefPcs
<1>2. refcount' = [refcount EXCEPT ![cur[w]] =
                      IF refcount[cur[w]] > 0 THEN refcount[cur[w]] - 1 ELSE 0]
  BY DEF Release
<1>3. cur' = [cur EXCEPT ![w] = None]
  BY DEF Release
<1>4. refcount \in [SessionIds -> Nat] /\ cur \in [Procs -> SessionIds \cup {None}]
  BY DEF IInv, TypeOK, SessionType, ThreadType
<1> QED
  BY <1>1, <1>2, <1>3, <1>4

-----------------------------------------------------------------------------
\* svc->mu, the table, the id counter and the shutdown flag keep their types.
LEMMA TableStep == IInv /\ [Next]_vars => TableType'
<1> SUFFICES ASSUME IInv PROVE [Next]_vars => TableType'
  OBVIOUS
<1> USE DEF Goto, Answer, Finish, Op, tableVars, lifeVars, lockVars, queryVars, uploadVars,
       sessVars, dbVars, frameVars, callVars, vars
<1>0. TableType
  BY DEF IInv, TypeOK
<1>1. ASSUME NEW w \in Workers, Dispatch(w) \/ PruneKeep(w) \/ OpenAcquire(w)
       \/ OpenExhausted(w) \/ QueryOpenSql(w) \/ UploadOpenSql(w) \/ AddFails(w)
       \/ OpenFail(w) \/ CheckKind(w) \/ Release(w) \/ FetchLock(w) \/ FetchRun(w)
       \/ SqlCall(w) \/ FetchResult(w) \/ CancelLock(w) \/ AppendLock(w) \/ AppendRun(w)
       \/ CommitLock(w) \/ CommitFlush(w) \/ CommitTxn(w) PROVE TableType'
  <2>1. UNCHANGED <<svcMu, sessions, nextId, shutting_down, doomed, known>>
    BY <1>1, ZenonT(30) DEF Dispatch, Entry, PruneKeep, OpenAcquire, OpenExhausted, QueryOpenSql,
           UploadOpenSql, AddFails, OpenFail, CheckKind, Release, FetchLock, FetchRun, SqlCall,
           FetchResult, CancelLock, AppendLock, AppendRun, CommitLock, CommitFlush, CommitTxn
  <2> QED
    BY <1>0, <2>1, SMTT(30) DEF TableType
<1>2. ASSUME NEW p \in Procs, Destroy(p) \/ DestroyUpload(p) \/ DestroyFree(p) PROVE TableType'
  <2>1. UNCHANGED <<svcMu, sessions, nextId, shutting_down, doomed, known>>
    BY <1>2 DEF Destroy, DestroyUpload, DestroyFree
  <2> QED
    BY <1>0, <2>1 DEF TableType
<1>3. ASSUME StopDone \/ UNCHANGED vars PROVE TableType'
  <2>1. UNCHANGED <<svcMu, sessions, nextId, shutting_down, doomed, known>>
    BY <1>3 DEF StopDone
  <2> QED
    BY <1>0, <2>1 DEF TableType
<1>4. ASSUME NEW s \in SessionIds, IdleExpires(s) PROVE TableType'
  <2>1. UNCHANGED <<svcMu, sessions, nextId, shutting_down, doomed, known>>
    BY <1>4 DEF IdleExpires
  <2> QED
    BY <1>0, <2>1 DEF TableType
<1> USE DEF TableType
<1>5. ASSUME NEW w \in Workers, PruneLock(w) \/ PruneRemove(w) \/ PruneDone(w) PROVE TableType'
  <2>1. CASE PruneLock(w)
    BY <2>1, <1>0 DEF PruneLock
  <2>2. CASE PruneRemove(w)
    BY <2>2, <1>0 DEF PruneRemove, Detach
  <2>3. CASE PruneDone(w)
    BY <2>3, <1>0 DEF PruneDone, Entry
  <2> QED
    BY <1>5, <2>1, <2>2, <2>3
<1>6. ASSUME NEW w \in Workers, AddSession(w) \/ OpenReply(w) PROVE TableType'
  <2>1. CASE AddSession(w)
    <3>1. nextId' \in 1 .. MaxSessionId + 1
      BY <2>1, <1>0 DEF AddSession, SessionIds
    <3> QED
      BY <2>1, <1>0, <3>1, ZenonT(30) DEF AddSession
  <2>2. CASE OpenReply(w)
    <3>1. tid[w] \in SessionIds
      BY <2>2 DEF OpenReply, IInv, FrameInv
    <3>2. known' = known \/ known' = known \cup {tid[w]}
      BY <2>2 DEF OpenReply
    <3> QED
      BY <2>2, <1>0, <3>1, <3>2, ZenonT(30) DEF OpenReply
  <2> QED
    BY <1>6, <2>1, <2>2
<1>7. ASSUME NEW w \in Workers, AcquireLock(w) \/ RemoveLock(w) \/ LookupFails(w)
       \/ Acquire(w) \/ Remove(w) PROVE TableType'
  <2>1. CASE AcquireLock(w)
    BY <2>1, <1>0 DEF AcquireLock, LockService
  <2>2. CASE RemoveLock(w)
    BY <2>2, <1>0 DEF RemoveLock, LockService
  <2>3. CASE LookupFails(w)
    BY <2>3, <1>0 DEF LookupFails
  <2>4. CASE Acquire(w)
    BY <2>4, <1>0 DEF Acquire, AfterAcquire
  <2>5. CASE Remove(w)
    BY <2>5, <1>0 DEF Remove, Detach, AfterRemove
  <2> QED
    BY <1>7, <2>1, <2>2, <2>3, <2>4, <2>5
<1>8. ASSUME StopFlag \/ StopDetach \/ StopDestroy PROVE TableType'
  <2>1. CASE StopFlag
    BY <2>1, <1>0 DEF StopFlag
  <2>2. CASE StopDetach
    BY <2>2, <1>0 DEF StopDetach
  <2>3. CASE StopDestroy
    BY <2>3, <1>0 DEF StopDestroy
  <2> QED
    BY <1>8, <2>1, <2>2, <2>3
<1> HIDE DEF TableType, Goto, Answer, Finish, Op, tableVars, lifeVars, lockVars, queryVars,
       uploadVars, sessVars, dbVars, frameVars, callVars, vars
<1> QED
  BY <1>1, <1>2, <1>3, <1>4, <1>5, <1>6, <1>7, <1>8
  DEF Next, WorkerStep, PruneStep, OpenStep, LookupStep, FetchStep, UploadStep, DestroyStep,
         StopperStep, Stopped

\* The fields of the sessions keep their types.
LEMMA SessionStep == IInv /\ [Next]_vars => SessionType'
<1> SUFFICES ASSUME IInv PROVE [Next]_vars => SessionType'
  OBVIOUS
<1> USE DEF Goto, Answer, Finish, Op, tableVars, lifeVars, lockVars, queryVars, uploadVars,
       sessVars, dbVars, frameVars, callVars, vars
<1>0. SessionType
  BY DEF IInv, TypeOK
<1>1. ASSUME NEW w \in Workers, Dispatch(w) \/ PruneLock(w) \/ PruneKeep(w) \/ PruneDone(w)
       \/ OpenAcquire(w) \/ OpenExhausted(w) \/ QueryOpenSql(w) \/ UploadOpenSql(w)
       \/ AddFails(w) \/ OpenFail(w) \/ OpenReply(w) \/ AcquireLock(w) \/ RemoveLock(w)
       \/ LookupFails(w) \/ CheckKind(w) \/ FetchRun(w) \/ SqlCall(w) PROVE SessionType'
  <2>1. UNCHANGED <<phase, kind, owner, mu, refcount, closing, cancelled, eos, idle, scon>>
    BY <1>1, ZenonT(30) DEF Dispatch, Entry, PruneLock, PruneKeep, PruneDone, OpenAcquire, OpenExhausted,
           QueryOpenSql, UploadOpenSql, AddFails, OpenFail, OpenReply, AcquireLock,
           LockService, RemoveLock, LookupFails, CheckKind, FetchRun, SqlCall
  <2> QED
    BY <1>0, <2>1, SMTT(30) DEF SessionType
<1>2. ASSUME NEW p \in Procs, DestroyUpload(p) PROVE SessionType'
  <2>1. UNCHANGED <<phase, kind, owner, mu, refcount, closing, cancelled, eos, idle, scon>>
    BY <1>2, ZenonT(30) DEF DestroyUpload
  <2> QED
    BY <1>0, <2>1, SMTT(30) DEF SessionType
<1>3. ASSUME StopFlag \/ StopDestroy \/ StopDone \/ UNCHANGED vars PROVE SessionType'
  <2>1. UNCHANGED <<phase, kind, owner, mu, refcount, closing, cancelled, eos, idle, scon>>
    BY <1>3 DEF StopFlag, StopDestroy, StopDone
  <2> QED
    BY <1>0, <2>1 DEF SessionType
<1> USE DEF SessionType
<1>4. ASSUME NEW w \in Workers, PruneRemove(w) PROVE SessionType'
  BY <1>4, <1>0, ZenonT(30) DEF PruneRemove, Detach
<1>5. ASSUME NEW w \in Workers, AddSession(w) PROVE SessionType'
  <2>1. /\ req[w].caller \in Clients /\ ocon[w] \in Conns \cup {None}
        /\ nextId \in SessionIds
    BY <1>5, RequestTypes DEF AddSession, IInv, TypeOK, ThreadType, FrameInv
  <2> QED
    BY <1>5, <1>0, <2>1 DEF AddSession
<1>6. ASSUME NEW w \in Workers, Acquire(w) \/ Release(w) \/ Remove(w) PROVE SessionType'
  <2>1. CASE Acquire(w)
    <3>1. refcount' = refcount \/ refcount' = [refcount EXCEPT ![tid[w]] = refcount[tid[w]] + 1]
      BY <2>1 DEF Acquire
    <3>2. tid[w] \in SessionIds
      BY <2>1, ZenonT(30) DEF Acquire, IInv, TypeOK, TableType
    <3>3. refcount[tid[w]] + 1 \in Nat
      BY <3>2, CountNat, ZenonT(30) DEF IInv
    <3>4. refcount' \in [SessionIds -> Nat]
      BY <1>0, <3>1, <3>3, ExceptType, SMTT(30)
    <3> QED
      BY <2>1, <1>0, <3>4 DEF Acquire
  <2>2. CASE Release(w)
    <3>1. cur[w] \in SessionIds /\ refcount[cur[w]] \in Nat
      BY <2>2, HeldSession DEF Release, RefPcs
    <3>2. (IF refcount[cur[w]] > 0 THEN refcount[cur[w]] - 1 ELSE 0) \in Nat
      BY <3>1
    <3>3. refcount' \in [SessionIds -> Nat]
      BY <2>2, <1>0, <3>1, <3>2, ExceptType DEF Release
    <3> QED
      BY <2>2, <1>0, <3>3, SMTT(30) DEF Release
  <2>3. CASE Remove(w)
    BY <2>3, <1>0, ZenonT(30) DEF Remove, Detach, AfterRemove
  <2> QED
    BY <1>6, <2>1, <2>2, <2>3
<1>7. ASSUME NEW w \in Workers, FetchLock(w) \/ FetchResult(w)
       \/ CancelLock(w) PROVE SessionType'
  <2>1. CASE FetchLock(w)
    <3>1. mu' = mu \/ mu' = [mu EXCEPT ![cur[w]] = w]
      BY <2>1 DEF FetchLock
    <3>2. idle' = idle \/ idle' = [idle EXCEPT ![cur[w]] = FALSE]
      BY <2>1 DEF FetchLock
    <3>3. mu' \in [SessionIds -> Procs \cup {None}] /\ idle' \in [SessionIds -> BOOLEAN]
      BY <1>0, <3>1, <3>2, ZenonT(30)
    <3> QED
      BY <2>1, <1>0, <3>3 DEF FetchLock
  <2>2. CASE FetchResult(w)
    <3>1. eos' = eos \/ eos' = [eos EXCEPT ![cur[w]] = TRUE]
      BY <2>2 DEF FetchResult
    <3>2. eos' \in [SessionIds -> BOOLEAN]
      BY <1>0, <3>1, ZenonT(30)
    <3> QED
      BY <2>2, <1>0, <3>2, ZenonT(30) DEF FetchResult
  <2>3. CASE CancelLock(w)
    BY <2>3, <1>0, ZenonT(30) DEF CancelLock
  <2> QED
    BY <1>7, <2>1, <2>2, <2>3
<1>8. ASSUME NEW w \in Workers, UploadStep(w) PROVE SessionType'
  <2>1. CASE AppendLock(w)
    <3>1. mu' = mu \/ mu' = [mu EXCEPT ![cur[w]] = w]
      BY <2>1 DEF AppendLock
    <3>2. mu' \in [SessionIds -> Procs \cup {None}]
      BY <1>0, <3>1
    <3> QED
      BY <2>1, <1>0, <3>2, ZenonT(30) DEF AppendLock
  <2>2. CASE AppendRun(w)
    BY <2>2, <1>0, ZenonT(30) DEF AppendRun
  <2>3. CASE CommitLock(w)
    BY <2>3, <1>0, ZenonT(30) DEF CommitLock
  <2>4. CASE CommitFlush(w)
    BY <2>4, <1>0 DEF CommitFlush
  <2>5. CASE CommitTxn(w)
    BY <2>5, <1>0, ZenonT(30) DEF CommitTxn
  <2> QED
    BY <1>8, <2>1, <2>2, <2>3, <2>4, <2>5 DEF UploadStep
<1>9. ASSUME NEW p \in Procs, Destroy(p) \/ DestroyFree(p) PROVE SessionType'
  <2>1. CASE Destroy(p)
    BY <2>1, <1>0, ZenonT(30) DEF Destroy
  <2>2. CASE DestroyFree(p)
    BY <2>2, <1>0, ZenonT(30) DEF DestroyFree
  <2> QED
    BY <1>9, <2>1, <2>2
<1>10. ASSUME StopDetach PROVE SessionType'
  BY <1>10, <1>0 DEF StopDetach
<1>11. ASSUME NEW s \in SessionIds, IdleExpires(s) PROVE SessionType'
  BY <1>11, <1>0 DEF IdleExpires
<1> HIDE DEF SessionType, Goto, Answer, Finish, Op, tableVars, lifeVars, lockVars, queryVars,
       uploadVars, sessVars, dbVars, frameVars, callVars, vars
<1> QED
  BY <1>1, <1>2, <1>3, <1>4, <1>5, <1>6, <1>7, <1>8, <1>9, <1>10, <1>11
  DEF Next, WorkerStep, PruneStep, OpenStep, LookupStep, FetchStep, UploadStep, DestroyStep,
         StopperStep, Stopped

\* The upload fields, the pool and the rows keep their types.
LEMMA DataStep == IInv /\ [Next]_vars => DataType'
<1> SUFFICES ASSUME IInv PROVE [Next]_vars => DataType'
  OBVIOUS
<1> USE DEF Goto, Answer, Finish, Op, tableVars, lifeVars, lockVars, queryVars, uploadVars,
       sessVars, dbVars, frameVars, callVars, vars
<1>0. DataType
  BY DEF IInv, TypeOK
<1>1. ASSUME NEW w \in Workers, Dispatch(w) \/ PruneLock(w) \/ PruneRemove(w)
       \/ PruneKeep(w) \/ PruneDone(w) \/ OpenExhausted(w) \/ AddFails(w) \/ OpenReply(w)
       \/ AcquireLock(w) \/ RemoveLock(w) \/ LookupFails(w) \/ Acquire(w) \/ CheckKind(w)
       \/ Release(w) \/ Remove(w) \/ FetchLock(w) \/ FetchRun(w) \/ SqlCall(w)
       \/ FetchResult(w) \/ CancelLock(w) \/ AppendLock(w) \/ CommitLock(w) PROVE DataType'
  <2>1. UNCHANGED <<appender, txn, acked, persisted, busy, inTxn, pendingRows>>
    BY <1>1, ZenonT(30) DEF Dispatch, Entry, PruneLock, PruneRemove, Detach, PruneKeep, PruneDone,
           OpenExhausted, AddFails, OpenReply, AcquireLock, LockService, RemoveLock,
           LookupFails, Acquire, AfterAcquire, CheckKind, Release, Remove, AfterRemove,
           FetchLock, FetchRun, SqlCall, FetchResult, CancelLock, AppendLock, CommitLock
  <2> QED
    BY <1>0, <2>1, SMTT(30) DEF DataType
<1>2. ASSUME NEW p \in Procs, Destroy(p) PROVE DataType'
  <2>1. UNCHANGED <<appender, txn, acked, persisted, busy, inTxn, pendingRows>>
    BY <1>2, ZenonT(30) DEF Destroy
  <2> QED
    BY <1>0, <2>1, SMTT(30) DEF DataType
<1>3. ASSUME StopFlag \/ StopDetach \/ StopDestroy \/ StopDone \/ UNCHANGED vars PROVE DataType'
  <2>1. UNCHANGED <<appender, txn, acked, persisted, busy, inTxn, pendingRows>>
    BY <1>3 DEF StopFlag, StopDetach, StopDestroy, StopDone
  <2> QED
    BY <1>0, <2>1, SMTT(30) DEF DataType
<1>4. ASSUME NEW s \in SessionIds, IdleExpires(s) PROVE DataType'
  <2>1. UNCHANGED <<appender, txn, acked, persisted, busy, inTxn, pendingRows>>
    BY <1>4 DEF IdleExpires
  <2> QED
    BY <1>0, <2>1 DEF DataType
<1> USE DEF DataType
<1>5. ASSUME NEW w \in Workers, OpenAcquire(w) \/ QueryOpenSql(w) \/ UploadOpenSql(w)
       \/ AddSession(w) \/ OpenFail(w) PROVE DataType'
  <2>1. CASE OpenAcquire(w)
    BY <2>1, <1>0 DEF OpenAcquire
  <2>2. CASE QueryOpenSql(w)
    BY <2>2, <1>0, ZenonT(30) DEF QueryOpenSql
  <2>3. CASE UploadOpenSql(w)
    <3>1. inTxn' = inTxn \/ inTxn' = [inTxn EXCEPT ![ocon[w]] = TRUE]
      BY <2>3 DEF UploadOpenSql
    <3>2. inTxn' \in [Conns -> BOOLEAN]
      BY <1>0, <3>1, ZenonT(30)
    <3> QED
      BY <2>3, <1>0, <3>2 DEF UploadOpenSql
  <2>4. CASE AddSession(w)
    BY <2>4, <1>0 DEF AddSession
  <2>5. CASE OpenFail(w)
    BY <2>5, <1>0, ZenonT(30) DEF OpenFail
  <2> QED
    BY <1>5, <2>1, <2>2, <2>3, <2>4, <2>5
<1>6. ASSUME NEW w \in Workers, AppendRun(w) \/ CommitFlush(w) \/ CommitTxn(w) PROVE DataType'
  <2>1. CASE AppendRun(w)
    <3>1. scon[cur[w]] \in Conns /\ cur[w] \in SessionIds
      BY <2>1, HeldSession DEF AppendRun, RefPcs
    <3> QED
      BY <2>1, <1>0, <3>1 DEF AppendRun
  <2>2. CASE CommitFlush(w)
    BY <2>2, <1>0, ZenonT(30) DEF CommitFlush
  <2>3. CASE CommitTxn(w)
    <3>1. scon[cur[w]] \in Conns /\ cur[w] \in SessionIds
      BY <2>3, HeldSession DEF CommitTxn, DetachedPcs
    <3>2. persisted' \in [SessionIds -> Nat]
      BY <2>3, <1>0, <3>1 DEF CommitTxn
    <3> QED
      BY <2>3, <1>0, <3>1, <3>2 DEF CommitTxn
  <2> QED
    BY <1>6, <2>1, <2>2, <2>3
<1>7. ASSUME NEW p \in Procs, DestroyUpload(p) \/ DestroyFree(p) PROVE DataType'
  <2>1. CASE DestroyUpload(p)
    <3>1. inTxn' = inTxn \/ inTxn' = [inTxn EXCEPT ![scon[cur[p]]] = FALSE]
      BY <2>1 DEF DestroyUpload
    <3>2. pendingRows' = pendingRows \/ pendingRows' = [pendingRows EXCEPT ![scon[cur[p]]] = 0]
      BY <2>1 DEF DestroyUpload
    <3>3. txn' = txn \/ txn' = [txn EXCEPT ![cur[p]] = FALSE]
      BY <2>1 DEF DestroyUpload
    <3>4. inTxn' \in [Conns -> BOOLEAN]
      BY <1>0, <3>1, ZenonT(30)
    <3>5. pendingRows' \in [Conns -> Nat]
      BY <1>0, <3>2
    <3>6. txn' \in [SessionIds -> BOOLEAN]
      BY <1>0, <3>3, ZenonT(30)
    <3> QED
      BY <2>1, <1>0, <3>4, <3>5, <3>6, ZenonT(30) DEF DestroyUpload
  <2>2. CASE DestroyFree(p)
    BY <2>2, <1>0 DEF DestroyFree
  <2> QED
    BY <1>7, <2>1, <2>2
<1> HIDE DEF DataType, Goto, Answer, Finish, Op, tableVars, lifeVars, lockVars, queryVars,
       uploadVars, sessVars, dbVars, frameVars, callVars, vars
<1> QED
  BY <1>1, <1>2, <1>3, <1>4, <1>5, <1>6, <1>7
  DEF Next, WorkerStep, PruneStep, OpenStep, LookupStep, FetchStep, UploadStep, DestroyStep,
         StopperStep, Stopped

-----------------------------------------------------------------------------
\* The frames of the threads keep their types.
LEMMA ThreadStep == IInv /\ [Next]_vars => ThreadType'
<1> SUFFICES ASSUME IInv PROVE [Next]_vars => ThreadType'
  OBVIOUS
<1> USE DEF Goto, Answer, Finish, Op, tableVars, lifeVars, lockVars, queryVars, uploadVars,
       sessVars, dbVars, frameVars, callVars, vars
<1>0. ThreadType
  BY DEF IInv, TypeOK
<1> USE DEF ThreadType, Pcs, ServiceLockPcs, RefPcs, DetachedPcs, TeardownPcs, OpenConPcs,
       PlainPcs
<1>1. ASSUME NEW w \in Workers, Dispatch(w) PROVE ThreadType'
  BY <1>1, <1>0, RequestTypes DEF Dispatch, Entry
<1>2. ASSUME NEW w \in Workers, PruneStep(w) PROVE ThreadType'
  <2>1. CASE PruneLock(w)
    BY <2>1, <1>0 DEF PruneLock
  <2>2. CASE PruneRemove(w)
    BY <2>2, <1>0 DEF PruneRemove, Detach, IInv, TypeOK, TableType
  <2>3. CASE PruneKeep(w)
    BY <2>3, <1>0 DEF PruneKeep
  <2>4. CASE PruneDone(w)
    BY <2>4, <1>0 DEF PruneDone, Entry
  <2> HIDE DEF ThreadType, Pcs, ServiceLockPcs, RefPcs, DetachedPcs, TeardownPcs, OpenConPcs, PlainPcs
  <2> QED
    BY <1>2, <2>1, <2>2, <2>3, <2>4 DEF PruneStep
<1>3. ASSUME NEW w \in Workers, OpenStep(w) PROVE ThreadType'
  <2>1. CASE OpenAcquire(w)
    <3>1. PICK c \in Conns : ocon' = [ocon EXCEPT ![w] = c]
      BY <2>1 DEF OpenAcquire
    <3> QED
      BY <2>1, <1>0, <3>1 DEF OpenAcquire
  <2>2. CASE OpenExhausted(w)
    BY <2>2, <1>0 DEF OpenExhausted
  <2>3. CASE QueryOpenSql(w)
    BY <2>3, <1>0 DEF QueryOpenSql
  <2>4. CASE UploadOpenSql(w)
    BY <2>4, <1>0 DEF UploadOpenSql
  <2>5. CASE AddSession(w)
    BY <2>5, <1>0 DEF AddSession, SessionIds
  <2>6. CASE AddFails(w)
    BY <2>6, <1>0 DEF AddFails
  <2>7. CASE OpenFail(w)
    BY <2>7, <1>0 DEF OpenFail
  <2>8. CASE OpenReply(w)
    BY <2>8, <1>0 DEF OpenReply
  <2> HIDE DEF ThreadType, Pcs, ServiceLockPcs, RefPcs, DetachedPcs, TeardownPcs, OpenConPcs, PlainPcs
  <2> QED
    BY <1>3, <2>1, <2>2, <2>3, <2>4, <2>5, <2>6, <2>7, <2>8 DEF OpenStep
<1>4. ASSUME NEW w \in Workers, LookupStep(w) PROVE ThreadType'
  <2>1. CASE AcquireLock(w)
    BY <2>1, <1>0 DEF AcquireLock, LockService
  <2>2. CASE RemoveLock(w)
    BY <2>2, <1>0 DEF RemoveLock, LockService
  <2>3. CASE LookupFails(w)
    BY <2>3, <1>0 DEF LookupFails
  <2>4. CASE Acquire(w)
    BY <2>4, <1>0 DEF Acquire, AfterAcquire, IInv, TypeOK, TableType
  <2>5. CASE CheckKind(w)
    BY <2>5, <1>0 DEF CheckKind
  <2>6. CASE Release(w)
    BY <2>6, <1>0 DEF Release
  <2>7. CASE Remove(w)
    BY <2>7, <1>0 DEF Remove, Detach, AfterRemove, IInv, TypeOK, TableType
  <2> HIDE DEF ThreadType, Pcs, ServiceLockPcs, RefPcs, DetachedPcs, TeardownPcs, OpenConPcs, PlainPcs
  <2> QED
    BY <1>4, <2>1, <2>2, <2>3, <2>4, <2>5, <2>6, <2>7 DEF LookupStep
<1>5. ASSUME NEW w \in Workers, FetchStep(w) PROVE ThreadType'
  <2>1. CASE FetchLock(w)
    BY <2>1, <1>0 DEF FetchLock
  <2>2. CASE FetchRun(w)
    BY <2>2, <1>0 DEF FetchRun
  <2>3. CASE SqlCall(w)
    BY <2>3, <1>0 DEF SqlCall
  <2>4. CASE FetchResult(w)
    BY <2>4, <1>0 DEF FetchResult
  <2>5. CASE CancelLock(w)
    BY <2>5, <1>0 DEF CancelLock
  <2> HIDE DEF ThreadType, Pcs, ServiceLockPcs, RefPcs, DetachedPcs, TeardownPcs, OpenConPcs, PlainPcs
  <2> QED
    BY <1>5, <2>1, <2>2, <2>3, <2>4, <2>5 DEF FetchStep
<1>6. ASSUME NEW w \in Workers, UploadStep(w) PROVE ThreadType'
  <2>1. CASE AppendLock(w)
    BY <2>1, <1>0 DEF AppendLock
  <2>2. CASE AppendRun(w)
    BY <2>2, <1>0 DEF AppendRun
  <2>3. CASE CommitLock(w)
    BY <2>3, <1>0 DEF CommitLock
  <2>4. CASE CommitFlush(w)
    BY <2>4, <1>0 DEF CommitFlush
  <2>5. CASE CommitTxn(w)
    BY <2>5, <1>0 DEF CommitTxn
  <2> HIDE DEF ThreadType, Pcs, ServiceLockPcs, RefPcs, DetachedPcs, TeardownPcs, OpenConPcs, PlainPcs
  <2> QED
    BY <1>6, <2>1, <2>2, <2>3, <2>4, <2>5 DEF UploadStep
<1>7. ASSUME NEW p \in Procs, DestroyStep(p) PROVE ThreadType'
  <2>1. CASE Destroy(p)
    BY <2>1, <1>0 DEF Destroy
  <2>2. CASE DestroyUpload(p)
    BY <2>2, <1>0 DEF DestroyUpload
  <2>3. CASE DestroyFree(p)
    BY <2>3, <1>0 DEF DestroyFree
  <2> HIDE DEF ThreadType, Pcs, ServiceLockPcs, RefPcs, DetachedPcs, TeardownPcs, OpenConPcs, PlainPcs
  <2> QED
    BY <1>7, <2>1, <2>2, <2>3 DEF DestroyStep
<1>8. ASSUME StopFlag \/ StopDetach \/ StopDestroy \/ StopDone PROVE ThreadType'
  <2>1. CASE StopFlag
    BY <2>1, <1>0 DEF StopFlag
  <2>2. CASE StopDetach
    BY <2>2, <1>0 DEF StopDetach
  <2>3. CASE StopDestroy
    <3>1. PICK s \in doomed : cur' = [cur EXCEPT ![Stopper] = s]
      BY <2>3, ZenonT(30) DEF StopDestroy
    <3>2. s \in SessionIds
      BY <3>1 DEF IInv, TypeOK, TableType
    <3>3. /\ ret' = [ret EXCEPT ![Stopper] = "stop_next"] /\ pc' = [pc EXCEPT ![Stopper] = "destroy"]
          /\ UNCHANGED <<req, reply, tid, ocon, idx>>
      BY <2>3, ZenonT(30) DEF StopDestroy
    <3> QED
      BY <1>0, <3>1, <3>2, <3>3
  <2>4. CASE StopDone
    BY <2>4, <1>0 DEF StopDone
  <2> HIDE DEF ThreadType, Pcs, ServiceLockPcs, RefPcs, DetachedPcs, TeardownPcs, OpenConPcs, PlainPcs
  <2> QED
    BY <1>8, <2>1, <2>2, <2>3, <2>4
<1>9. ASSUME NEW s \in SessionIds, IdleExpires(s) PROVE ThreadType'
  BY <1>9, <1>0 DEF IdleExpires
<1>10. ASSUME UNCHANGED vars PROVE ThreadType'
  BY <1>10, <1>0
<1> HIDE DEF ThreadType, Pcs, ServiceLockPcs, RefPcs, DetachedPcs, TeardownPcs, OpenConPcs,
       PlainPcs, Goto, Answer, Finish, Op, tableVars, lifeVars, lockVars, queryVars,
       uploadVars, sessVars, dbVars, frameVars, callVars, vars
<1> QED
  BY <1>1, <1>2, <1>3, <1>4, <1>5, <1>6, <1>7, <1>8, <1>9, <1>10
  DEF Next, WorkerStep, PruneStep, OpenStep, LookupStep, FetchStep, UploadStep, DestroyStep,
         StopperStep, Stopped

\* A thread's step leaves the frames of the others alone; a release may wake one.
FrameKept(q) ==
    /\ req'[q] = req[q] /\ tid'[q] = tid[q] /\ cur'[q] = cur[q] /\ reply'[q] = reply[q]
    /\ ocon'[q] = ocon[q] /\ ret'[q] = ret[q]
    /\ \/ pc'[q] = pc[q]
       \/ pc[q] = "destroy_wait" /\ pc'[q] = "destroy"

LEMMA DestroyFrames ==
    ASSUME IInv, NEW p \in Procs, DestroyStep(p), NEW q \in Procs, q # p
    PROVE  FrameKept(q)
<1> USE Domains DEF Goto, Answer, Finish, tableVars, lifeVars, lockVars, queryVars, uploadVars,
       sessVars, dbVars, frameVars, callVars
<1>1. CASE Destroy(p) \/ DestroyUpload(p)
  <2>1. UNCHANGED <<req, tid, reply, cur, ocon, ret>> /\ pc'[q] = pc[q]
    BY <1>1 DEF Destroy, DestroyUpload
  <2> QED
    BY <2>1 DEF FrameKept
<1>2. CASE DestroyFree(p)
  <2>1. /\ cur'[q] = cur[q] /\ ocon'[q] = ocon[q] /\ ret'[q] = ret[q]
        /\ pc'[q] = pc[q]
    BY <1>2 DEF DestroyFree
  <2>2. req'[q] = req[q] /\ tid'[q] = tid[q] /\ reply'[q] = reply[q]
    BY <1>2 DEF DestroyFree
  <2> QED
    BY <2>1, <2>2 DEF FrameKept
<1> QED
  BY <1>1, <1>2 DEF DestroyStep

LEMMA WorkerFrames ==
    ASSUME IInv, NEW w \in Workers, Dispatch(w) \/ WorkerStep(w), NEW q \in Procs, q # w
    PROVE  FrameKept(q)
<1> USE Domains DEF Goto, Answer, Finish, tableVars, lifeVars, lockVars, queryVars, uploadVars,
       sessVars, dbVars, frameVars, callVars, FrameKept
<1>1. CASE Dispatch(w)
  BY <1>1 DEF Dispatch
<1>2. CASE PruneStep(w)
  <2>1. CASE PruneRemove(w)
    BY <2>1 DEF PruneRemove, Detach
  <2>2. CASE PruneLock(w) \/ PruneKeep(w) \/ PruneDone(w)
    BY <2>2, ZenonT(30) DEF PruneLock, PruneKeep, PruneDone
  <2> QED
    BY <1>2, <2>1, <2>2 DEF PruneStep
<1>3. CASE OpenStep(w)
  BY <1>3, ZenonT(30) DEF OpenStep, OpenAcquire, OpenExhausted, QueryOpenSql, UploadOpenSql,
       AddSession, AddFails, OpenFail, OpenReply
<1>4. CASE LookupStep(w)
  <2>1. CASE Release(w)
    BY <2>1 DEF Release
  <2>2. CASE Acquire(w)
    <3>1. /\ UNCHANGED <<ocon, idx, ret>>
          /\ UNCHANGED cur \/ cur' = [cur EXCEPT ![w] = tid[w]]
          /\ Finish(w) \/ (Goto(w, AfterAcquire(Op(w))) /\ UNCHANGED <<req, tid, reply>>)
      BY <2>2, ZenonT(30) DEF Acquire
    <3> QED
      BY <3>1
  <2>3. CASE Remove(w)
    BY <2>3 DEF Remove, Detach
  <2>4. CASE AcquireLock(w) \/ RemoveLock(w) \/ LookupFails(w) \/ CheckKind(w)
    BY <2>4, ZenonT(30) DEF AcquireLock, RemoveLock, LockService, LookupFails, CheckKind
  <2> QED
    BY <1>4, <2>1, <2>2, <2>3, <2>4 DEF LookupStep
<1>5. CASE FetchStep(w)
  BY <1>5, ZenonT(30) DEF FetchStep, FetchLock, FetchRun, SqlCall, FetchResult, CancelLock
<1>6. CASE UploadStep(w)
  BY <1>6, ZenonT(30) DEF UploadStep, AppendLock, AppendRun, CommitLock, CommitFlush, CommitTxn
<1>7. CASE DestroyStep(w)
  BY <1>7, DestroyFrames
<1> QED
  BY <1>1, <1>2, <1>3, <1>4, <1>5, <1>6, <1>7 DEF WorkerStep

LEMMA StopperFrames ==
    ASSUME IInv, StopFlag \/ StopperStep, NEW q \in Procs, q # Stopper
    PROVE  FrameKept(q)
<1> USE Domains DEF Goto, Answer, Finish, tableVars, lifeVars, lockVars, queryVars, uploadVars,
       sessVars, dbVars, frameVars, callVars, FrameKept
<1>1. CASE StopFlag \/ StopDetach \/ StopDone
  BY <1>1, ZenonT(30) DEF StopFlag, StopDetach, StopDone
<1>2. CASE StopDestroy
  BY <1>2 DEF StopDestroy
<1>3. CASE DestroyStep(Stopper)
  BY <1>3, DestroyFrames
<1> QED
  BY <1>1, <1>2, <1>3 DEF StopperStep

\* FrameInv, thread by thread.
FrameOK(p) ==
    /\ p \in Workers =>
        /\ pc[p] \notin {"stop_join", "stop_next", "stopped"}
        /\ pc[p] # "idle" => req[p] \in Requests /\ tid[p] \in SessionIds
        /\ ret[p] \in {"idle", "prune_lock"}
    /\ p = Stopper => pc[p] \in StopperPcs /\ (cur[p] # None => ret[p] = "stop_next")
    /\ cur[p] # None <=> pc[p] \in RefPcs \cup DetachedPcs
    /\ ocon[p] # None <=> pc[p] \in OpenConPcs

LEMMA FrameThreads == FrameInv <=> \A p \in Procs : FrameOK(p)
BY DEF FrameInv, FrameOK

LEMMA FrameThreadsNext == (FrameInv <=> \A p \in Procs : FrameOK(p))'
BY FrameThreads, PTL

\* A thread's frame survives the steps of the others.
LEMMA FrameOther == ASSUME NEW q \in Procs, FrameOK(q), FrameKept(q) PROVE FrameOK(q)'
<1>1. CASE pc'[q] = pc[q]
  BY <1>1 DEF FrameOK, FrameKept
<1>2. CASE pc[q] = "destroy_wait" /\ pc'[q] = "destroy"
  BY <1>2 DEF FrameOK, FrameKept, StopperPcs, RefPcs, DetachedPcs, OpenConPcs
<1> QED
  BY <1>1, <1>2 DEF FrameKept

\* A handler goes on with what it has.
LEMMA FrameSame ==
    ASSUME NEW w \in Workers, FrameOK(w), pc[w] # "idle",
           req'[w] = req[w], tid'[w] = tid[w], cur'[w] = cur[w], ocon'[w] = ocon[w],
           ret'[w] = ret[w], pc'[w] \notin {"stop_join", "stop_next", "stopped"},
           pc'[w] \in RefPcs \cup DetachedPcs <=> pc[w] \in RefPcs \cup DetachedPcs,
           pc'[w] \in OpenConPcs <=> pc[w] \in OpenConPcs
    PROVE  FrameOK(w)'
BY DEF FrameOK

\* A handler returns with nothing in its hands.
LEMMA FrameDone ==
    ASSUME NEW w \in Workers, FrameOK(w), pc'[w] = "idle", cur'[w] = None, ocon'[w] = None,
           ret'[w] = ret[w]
    PROVE  FrameOK(w)'
BY DEF FrameOK, RefPcs, DetachedPcs, TeardownPcs, OpenConPcs

\* A handler's own step keeps its frame.
LEMMA FrameOwn ==
    ASSUME IInv, NEW w \in Workers, FrameOK(w), Dispatch(w) \/ WorkerStep(w), ~DestroyStep(w)
    PROVE  FrameOK(w)'
<1> USE Domains DEF Goto, Answer, Finish, Op, tableVars, lifeVars, lockVars, queryVars, uploadVars,
       sessVars, dbVars, frameVars, callVars
<1>0. sessions \subseteq SessionIds
  BY DEF IInv, TypeOK, TableType
<1>a. /\ pc[w] \notin RefPcs \cup DetachedPcs => cur[w] = None
      /\ pc[w] \notin OpenConPcs => ocon[w] = None
      /\ pc[w] # "idle" => req[w] \in Requests /\ tid[w] \in SessionIds
      /\ ret[w] \in {"idle", "prune_lock"}
  BY DEF FrameOK
<1>1. CASE Dispatch(w)
  <2>1. PICK r \in Requests : /\ req'[w] = r /\ tid'[w] = r.id
                              /\ pc'[w] = IF PruneEnabled THEN "prune_lock" ELSE Entry(r)
    BY <1>1 DEF Dispatch
  <2>2. pc[w] = "idle" /\ cur'[w] = cur[w] /\ ocon'[w] = ocon[w] /\ ret'[w] = ret[w]
    BY <1>1 DEF Dispatch
  <2>3. pc'[w] \in {"prune_lock", "open_con", "acquire_lock"} /\ r.id \in SessionIds
    BY <2>1, RequestTypes DEF Entry
  <2> QED
    BY <1>a, <2>1, <2>2, <2>3 DEF FrameOK, RefPcs, DetachedPcs, TeardownPcs, OpenConPcs
<1>2. CASE PruneLock(w) \/ PruneKeep(w) \/ PruneDone(w)
  <2>1. /\ pc[w] \in {"prune_lock", "prune_scan"}
        /\ pc'[w] \in {"prune_scan", "open_con", "acquire_lock"}
    BY <1>2 DEF PruneLock, PruneKeep, PruneDone, Entry
  <2>2. UNCHANGED <<req, tid, cur, ocon, ret>>
    BY <1>2, ZenonT(30) DEF PruneLock, PruneKeep, PruneDone
  <2> QED
    BY <2>1, <2>2, FrameSame DEF RefPcs, DetachedPcs, TeardownPcs, OpenConPcs
<1>3. CASE PruneRemove(w)
  <2>1. PICK s \in sessions : Detach(w, s, "destroy")
    BY <1>3 DEF PruneRemove
  <2>2. /\ pc[w] = "prune_scan" /\ req'[w] = req[w] /\ tid'[w] = tid[w] /\ ocon'[w] = ocon[w]
        /\ ret'[w] = "prune_lock"
    BY <1>3 DEF PruneRemove
  <2>3. cur'[w] = s /\ pc'[w] = "destroy" /\ s # None
    BY <1>0, <2>1 DEF Detach
  <2> QED
    BY <1>a, <2>2, <2>3 DEF FrameOK, RefPcs, DetachedPcs, TeardownPcs, OpenConPcs
<1>4. CASE OpenAcquire(w)
  <2>1. PICK c \in Conns \ busy : ocon' = [ocon EXCEPT ![w] = c]
    BY <1>4 DEF OpenAcquire
  <2>2. /\ pc[w] = "open_con" /\ pc'[w] = "open_sql"
        /\ req'[w] = req[w] /\ tid'[w] = tid[w] /\ cur'[w] = cur[w] /\ ret'[w] = ret[w]
    BY <1>4 DEF OpenAcquire
  <2>3. ocon'[w] = c /\ c # None
    BY <2>1
  <2> QED
    BY <1>a, <2>2, <2>3 DEF FrameOK, RefPcs, DetachedPcs, TeardownPcs, OpenConPcs
<1>5. CASE OpenExhausted(w) \/ LookupFails(w)
  <2>1. /\ pc[w] \in {"open_con", "acquire", "remove"} /\ pc'[w] = "idle"
        /\ cur'[w] = cur[w] /\ ocon'[w] = ocon[w] /\ ret'[w] = ret[w]
    BY <1>5 DEF OpenExhausted, LookupFails
  <2>2. cur[w] = None /\ ocon[w] = None
    BY <1>a, <2>1 DEF RefPcs, DetachedPcs, TeardownPcs, OpenConPcs
  <2> QED
    BY <2>1, <2>2, FrameDone
<1>6. CASE QueryOpenSql(w) \/ UploadOpenSql(w) \/ AddFails(w)
  <2>1. pc[w] \in OpenConPcs /\ pc'[w] \in OpenConPcs
    BY <1>6 DEF QueryOpenSql, UploadOpenSql, AddFails, OpenConPcs
  <2>2. UNCHANGED <<req, tid, cur, ocon, ret>>
    BY <1>6, ZenonT(30) DEF QueryOpenSql, UploadOpenSql, AddFails
  <2> QED
    BY <2>1, <2>2, FrameSame DEF RefPcs, DetachedPcs, TeardownPcs, OpenConPcs
<1>7. CASE AddSession(w)
  <2>1. /\ pc[w] = "add" /\ pc'[w] = "open_reply" /\ tid'[w] = nextId /\ nextId \in SessionIds
        /\ ocon'[w] = None /\ req'[w] = req[w] /\ cur'[w] = cur[w] /\ ret'[w] = ret[w]
    BY <1>7 DEF AddSession
  <2> QED
    BY <1>a, <2>1 DEF FrameOK, RefPcs, DetachedPcs, TeardownPcs, OpenConPcs
<1>8. CASE OpenFail(w)
  <2>1. /\ pc[w] \in OpenConPcs /\ pc'[w] = "idle"
        /\ ocon'[w] = None /\ cur'[w] = cur[w] /\ ret'[w] = ret[w]
    BY <1>8 DEF OpenFail, OpenConPcs
  <2>2. cur[w] = None
    BY <1>a, <2>1 DEF RefPcs, DetachedPcs, TeardownPcs, OpenConPcs
  <2> QED
    BY <2>1, <2>2, FrameDone
<1>9. CASE OpenReply(w)
  <2>1. /\ pc[w] = "open_reply" /\ cur'[w] = cur[w] /\ ocon'[w] = ocon[w] /\ ret'[w] = ret[w]
        /\ \/ pc'[w] = "idle"
           \/ pc'[w] = "remove_lock" /\ req'[w] = req[w] /\ tid'[w] = tid[w]
    BY <1>9 DEF OpenReply
  <2> QED
    BY <1>a, <2>1, FrameDone, FrameSame DEF RefPcs, DetachedPcs, TeardownPcs, OpenConPcs
<1>10. CASE AcquireLock(w) \/ RemoveLock(w)
  <2>1. /\ pc[w] \in {"acquire_lock", "remove_lock"} /\ pc'[w] \in {"acquire", "remove"}
        /\ UNCHANGED <<req, tid, cur, ocon, ret>>
    BY <1>10 DEF AcquireLock, RemoveLock, LockService
  <2> QED
    BY <2>1, FrameSame DEF RefPcs, DetachedPcs, TeardownPcs, OpenConPcs
<1>11. CASE Acquire(w)
  <2> HIDE DEF Op
  <2>0. /\ pc[w] = "acquire" /\ tid[w] \in sessions /\ UNCHANGED <<ocon, ret>>
        /\ IF closing[tid[w]]
           THEN Goto(w, "idle") /\ UNCHANGED cur
           ELSE Goto(w, AfterAcquire(Op(w))) /\ cur' = [cur EXCEPT ![w] = tid[w]]
                   /\ UNCHANGED <<req, tid>>
    BY <1>11, ZenonT(30) DEF Acquire
  <2>1. pc[w] = "acquire" /\ tid[w] \in SessionIds /\ ocon'[w] = ocon[w] /\ ret'[w] = ret[w]
    BY <1>0, <2>0
  <2>2. AfterAcquire(Op(w)) \in {"fetch_lock", "append_lock", "check_kind"}
    BY DEF AfterAcquire
  <2>3. CASE closing[tid[w]]
    <3>1. pc'[w] = "idle" /\ cur'[w] = cur[w]
      BY <2>0, <2>3
    <3> QED
      BY <1>a, <2>1, <3>1 DEF FrameOK, RefPcs, DetachedPcs, TeardownPcs, OpenConPcs
  <2>4. CASE ~closing[tid[w]]
    <3>1. /\ pc'[w] = AfterAcquire(Op(w)) /\ cur'[w] = tid[w]
          /\ req'[w] = req[w] /\ tid'[w] = tid[w]
      BY <2>0, <2>4
    <3> QED
      BY <1>a, <2>1, <2>2, <3>1 DEF FrameOK, RefPcs, DetachedPcs, TeardownPcs, OpenConPcs
  <2> QED
    BY <2>3, <2>4
<1>12. CASE CheckKind(w) \/ FetchLock(w) \/ FetchRun(w) \/ SqlCall(w) \/ FetchResult(w)
              \/ AppendLock(w) \/ AppendRun(w)
  <2>1. pc[w] \in RefPcs /\ pc'[w] \in RefPcs
    BY <1>12 DEF CheckKind, FetchLock, FetchRun, SqlCall, FetchResult, AppendLock, AppendRun, RefPcs
  <2>2. UNCHANGED <<req, tid, cur, ocon, ret>>
    BY <1>12, ZenonT(30) DEF CheckKind, FetchLock, FetchRun, SqlCall, FetchResult, AppendLock, AppendRun
  <2> QED
    BY <2>1, <2>2, FrameSame DEF RefPcs, OpenConPcs
<1>13. CASE CancelLock(w) \/ CommitLock(w) \/ CommitFlush(w) \/ CommitTxn(w)
  <2>1. pc[w] \in DetachedPcs /\ pc'[w] \in DetachedPcs
    BY <1>13 DEF CancelLock, CommitLock, CommitFlush, CommitTxn, DetachedPcs
  <2>2. UNCHANGED <<req, tid, cur, ocon, ret>>
    BY <1>13, ZenonT(30) DEF CancelLock, CommitLock, CommitFlush, CommitTxn
  <2> QED
    BY <2>1, <2>2, FrameSame DEF DetachedPcs, TeardownPcs, OpenConPcs
<1>14. CASE Release(w)
  <2>1. /\ pc[w] = "release" /\ cur'[w] = None /\ ocon'[w] = ocon[w] /\ ret'[w] = ret[w]
        /\ \/ pc'[w] = "idle"
           \/ pc'[w] = "remove_lock" /\ req'[w] = req[w] /\ tid'[w] = tid[w]
    BY <1>14 DEF Release
  <2> QED
    BY <1>a, <2>1 DEF FrameOK, RefPcs, DetachedPcs, TeardownPcs, OpenConPcs
<1>15. CASE Remove(w)
  <2>1. /\ pc[w] = "remove" /\ cur'[w] = tid[w] /\ tid[w] \in SessionIds
        /\ pc'[w] = AfterRemove(Op(w))
        /\ ocon'[w] = ocon[w] /\ ret'[w] = ret[w] /\ req'[w] = req[w] /\ tid'[w] = tid[w]
    BY <1>0, <1>15 DEF Remove, Detach
  <2>2. AfterRemove(Op(w)) \in {"cancel_lock", "commit_lock", "destroy"}
    BY DEF AfterRemove
  <2> HIDE DEF Op
  <2> QED
    BY <1>a, <2>1, <2>2 DEF FrameOK, RefPcs, DetachedPcs, TeardownPcs, OpenConPcs
<1> QED
  BY <1>1, <1>2, <1>3, <1>4, <1>5, <1>6, <1>7, <1>8, <1>9, <1>10, <1>11, <1>12, <1>13, <1>14, <1>15
  DEF WorkerStep, PruneStep, OpenStep, LookupStep, FetchStep, UploadStep

\* ducknng_session_destroy keeps the frame of the thread that calls it.
LEMMA FrameDestroy ==
    ASSUME IInv, NEW p \in Procs, FrameOK(p), DestroyStep(p)
    PROVE  FrameOK(p)'
<1> USE Domains DEF Goto, Answer, Finish, tableVars, lifeVars, lockVars, queryVars, uploadVars,
       sessVars, dbVars, frameVars, callVars
<1>1. CASE Destroy(p) \/ DestroyUpload(p)
  <2>1. /\ pc[p] \in {"destroy", "destroy_upload"}
        /\ pc'[p] \in {"destroy_wait", "destroy_upload", "destroy_free"}
    BY <1>1 DEF Destroy, DestroyUpload
  <2>2. UNCHANGED <<req, tid, cur, ocon, ret>>
    BY <1>1 DEF Destroy, DestroyUpload
  <2> QED
    BY <2>1, <2>2 DEF FrameOK, RefPcs, DetachedPcs, TeardownPcs, OpenConPcs, StopperPcs
<1>2. CASE DestroyFree(p)
  <2>1. /\ pc[p] = "destroy_free" /\ cur'[p] = None /\ ocon'[p] = ocon[p] /\ ret'[p] = "idle"
        /\ pc'[p] = ret[p]
        /\ ret[p] # "idle" => req'[p] = req[p] /\ tid'[p] = tid[p]
    BY <1>2 DEF DestroyFree
  <2>2. cur[p] # None /\ ocon[p] = None
    BY <2>1 DEF FrameOK, DetachedPcs, TeardownPcs, OpenConPcs
  <2> QED
    BY <2>1, <2>2 DEF FrameOK, RefPcs, DetachedPcs, TeardownPcs, OpenConPcs, StopperPcs
<1> QED
  BY <1>1, <1>2 DEF DestroyStep

\* ducknng_service_stop keeps its own frame.
LEMMA FrameStopper ==
    ASSUME IInv, FrameOK(Stopper), StopFlag \/ StopDetach \/ StopDestroy \/ StopDone
    PROVE  FrameOK(Stopper)'
<1> USE Domains DEF Goto, Answer, Finish, tableVars, lifeVars, lockVars, queryVars, uploadVars,
       sessVars, dbVars, frameVars, callVars
<1>1. CASE StopFlag \/ StopDetach \/ StopDone
  <2>1. /\ pc[Stopper] \in {"idle", "stop_join", "stop_next"}
        /\ pc'[Stopper] \in {"stop_join", "stop_next", "stopped"}
        /\ cur' = cur /\ ocon' = ocon /\ ret' = ret
    BY <1>1 DEF StopFlag, StopDetach, StopDone
  <2> QED
    BY <2>1 DEF FrameOK, RefPcs, DetachedPcs, TeardownPcs, OpenConPcs, StopperPcs
<1>2. CASE StopDestroy
  <2>1. PICK s \in doomed : cur' = [cur EXCEPT ![Stopper] = s]
    BY <1>2 DEF StopDestroy
  <2>2. /\ pc[Stopper] = "stop_next" /\ pc'[Stopper] = "destroy" /\ ocon' = ocon
        /\ ret'[Stopper] = "stop_next"
    BY <1>2 DEF StopDestroy
  <2>3. cur'[Stopper] = s /\ s # None
    BY <2>1 DEF IInv, TypeOK, TableType
  <2> QED
    BY <2>2, <2>3 DEF FrameOK, RefPcs, DetachedPcs, TeardownPcs, OpenConPcs, StopperPcs
<1> QED
  BY <1>1, <1>2

\* Control state and frame stay consistent.
LEMMA FrameStep == IInv /\ [Next]_vars => FrameInv'
<1> SUFFICES ASSUME IInv, [Next]_vars, NEW q \in Procs PROVE FrameOK(q)'
  BY FrameThreadsNext
<1>0. FrameOK(q)
  BY FrameThreads DEF IInv
<1>1. ASSUME NEW w \in Workers, Dispatch(w) \/ WorkerStep(w) PROVE FrameOK(q)'
  <2>1. CASE q # w
    BY <1>0, <1>1, <2>1, WorkerFrames, FrameOther
  <2>2. CASE q = w
    BY <1>0, <1>1, <2>2, FrameOwn, FrameDestroy
  <2> QED
    BY <2>1, <2>2
<1>2. CASE StopFlag \/ StopperStep
  <2>1. CASE q # Stopper
    BY <1>0, <1>2, <2>1, StopperFrames, FrameOther
  <2>2. CASE q = Stopper
    BY <1>0, <1>2, <2>2, FrameStopper, FrameDestroy DEF StopperStep
  <2> QED
    BY <2>1, <2>2
<1>3. CASE UNCHANGED vars \/ \E s \in SessionIds : IdleExpires(s)
  <2>1. FrameKept(q)
    BY <1>3 DEF vars, IdleExpires, callVars, frameVars, FrameKept
  <2> QED
    BY <1>0, <2>1, FrameOther
<1> QED
  BY <1>1, <1>2, <1>3 DEF Next, Stopped
=============================================================================
