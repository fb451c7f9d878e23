------------------------- MODULE SessionTableLocks --------------------------
(***************************************************************************)
(* Every step of SessionTable keeps the mutexes with the threads that are  *)
(* inside their critical sections, the sessions to their life cycle and    *)
(* the reference counts exact; so the invariant is inductive.              *)
(***************************************************************************)
EXTENDS SessionTableInvariant

USE Constants

\* The holder of svc->mu stays where the code holds it.
LEMMA ServiceLockStep == IInv /\ [Next]_vars => ServiceLockInv'
<1> SUFFICES ASSUME IInv PROVE [Next]_vars => ServiceLockInv'
  OBVIOUS
<1> USE DEF Goto, Answer, Finish, Op, tableVars, lifeVars, lockVars, queryVars, uploadVars,
       sessVars, dbVars, frameVars, callVars, vars
<1>0. ServiceLockInv
  BY DEF IInv
<1>1. ASSUME NEW w \in Workers, Dispatch(w) \/ OpenAcquire(w) \/ OpenExhausted(w)
       \/ QueryOpenSql(w) \/ UploadOpenSql(w) \/ AddSession(w) \/ AddFails(w) \/ OpenFail(w)
       \/ OpenReply(w) \/ CheckKind(w) \/ FetchLock(w) \/ FetchRun(w) \/ SqlCall(w)
       \/ FetchResult(w) \/ CancelLock(w) \/ AppendLock(w) \/ AppendRun(w) \/ CommitLock(w)
       \/ CommitFlush(w) \/ CommitTxn(w) PROVE ServiceLockInv'
  <2>1. /\ UNCHANGED <<svcMu>>
        /\ pc[w] \notin ServiceLockPcs /\ pc'[w] \notin ServiceLockPcs
        /\ \A q \in Procs \ {w} : pc'[q] = pc[q]
    BY <1>1, PcType, ZenonT(30) DEF Dispatch, Entry, OpenAcquire, OpenExhausted, QueryOpenSql,
           UploadOpenSql, AddSession, AddFails, OpenFail, OpenReply, CheckKind, FetchLock,
           FetchRun, SqlCall, FetchResult, CancelLock, AppendLock, AppendRun, CommitLock,
           CommitFlush, CommitTxn, ServiceLockPcs
  <2> QED
    BY <1>0, <2>1 DEF ServiceLockInv
<1>2. ASSUME NEW p \in Procs, Destroy(p) \/ DestroyUpload(p)
       \/ DestroyFree(p) PROVE ServiceLockInv'
  <2>1. /\ UNCHANGED <<svcMu>>
        /\ pc[p] \notin ServiceLockPcs /\ pc'[p] \notin ServiceLockPcs
        /\ \A q \in Procs \ {p} : pc'[q] = pc[q]
    BY <1>2, PcType DEF Destroy, DestroyUpload, DestroyFree, ServiceLockPcs
  <2> QED
    BY <1>0, <2>1 DEF ServiceLockInv
<1>3. ASSUME StopFlag \/ StopDetach \/ StopDestroy \/ StopDone
       \/ UNCHANGED vars PROVE ServiceLockInv'
  <2>1. /\ UNCHANGED <<svcMu>>
        /\ \/ pc' = pc
           \/ /\ pc[Stopper] \notin ServiceLockPcs /\ pc'[Stopper] \notin ServiceLockPcs
              /\ \A q \in Procs \ {Stopper} : pc'[q] = pc[q]
    BY <1>3, PcType DEF StopFlag, StopDetach, StopDestroy, StopDone, ServiceLockPcs
  <2> QED
    BY <1>0, <2>1 DEF ServiceLockInv
<1>4. ASSUME NEW s \in SessionIds, IdleExpires(s) PROVE ServiceLockInv'
  <2>1. UNCHANGED <<pc, svcMu>>
    BY <1>4, PcType DEF IdleExpires, ServiceLockPcs
  <2> QED
    BY <1>0, <2>1 DEF ServiceLockInv
<1> USE DEF ServiceLockInv, ServiceLockPcs
<1>5. ASSUME NEW w \in Workers, PruneStep(w) PROVE ServiceLockInv'
  <2>1. CASE PruneLock(w)
    BY <2>1, <1>0, PcType DEF PruneLock
  <2>2. CASE PruneRemove(w)
    BY <2>2, <1>0, PcType DEF PruneRemove, Detach
  <2>3. CASE PruneKeep(w)
    BY <2>3, <1>0, PcType DEF PruneKeep
  <2>4. CASE PruneDone(w)
    BY <2>4, <1>0, PcType DEF PruneDone, Entry
  <2> QED
    BY <1>5, <2>1, <2>2, <2>3, <2>4 DEF PruneStep
<1>6. ASSUME NEW w \in Workers, AcquireLock(w) \/ RemoveLock(w) \/ LookupFails(w)
       \/ Acquire(w) \/ Release(w) \/ Remove(w) PROVE ServiceLockInv'
  <2>1. CASE AcquireLock(w)
    BY <2>1, <1>0, PcType DEF AcquireLock, LockService
  <2>2. CASE RemoveLock(w)
    BY <2>2, <1>0, PcType DEF RemoveLock, LockService
  <2>3. CASE LookupFails(w)
    BY <2>3, <1>0, PcType DEF LookupFails
  <2>4. CASE Acquire(w)
    BY <2>4, <1>0, PcType DEF Acquire, AfterAcquire
  <2>5. CASE Release(w)
    BY <2>5, <1>0, PcType DEF Release
  <2>6. CASE Remove(w)
    BY <2>6, <1>0, PcType DEF Remove, Detach, AfterRemove
  <2> QED
    BY <1>6, <2>1, <2>2, <2>3, <2>4, <2>5, <2>6
<1> HIDE DEF ServiceLockInv, ServiceLockPcs, Goto, Answer, Finish, Op, tableVars, lifeVars,
       lockVars, queryVars, uploadVars, sessVars, dbVars, frameVars, callVars, vars
<1> QED
  BY <1>1, <1>2, <1>3, <1>4, <1>5, <1>6
  DEF Next, WorkerStep, PruneStep, OpenStep, LookupStep, FetchStep, UploadStep, DestroyStep,
         StopperStep, Stopped

\* The holder of a session mutex stays where the code holds it.
LEMMA SessionLockStep == IInv /\ [Next]_vars => SessionLockInv'
<1> SUFFICES ASSUME IInv PROVE [Next]_vars => SessionLockInv'
  OBVIOUS
<1> USE DEF Goto, Answer, Finish, Op, tableVars, lifeVars, lockVars, queryVars, uploadVars,
       sessVars, dbVars, frameVars, callVars, vars
<1>0. SessionType /\ ThreadType /\ FrameInv /\ SessionLockInv
  BY DEF IInv, TypeOK
<1>1. ASSUME NEW w \in Workers, Dispatch(w) \/ PruneLock(w) \/ PruneKeep(w) \/ PruneDone(w)
       \/ OpenAcquire(w) \/ OpenExhausted(w) \/ QueryOpenSql(w) \/ UploadOpenSql(w)
       \/ AddSession(w) \/ AddFails(w) \/ OpenFail(w) \/ OpenReply(w) \/ AcquireLock(w)
       \/ RemoveLock(w) \/ LookupFails(w) \/ CheckKind(w) \/ FetchRun(w) \/ SqlCall(w)
       \/ CancelLock(w) PROVE SessionLockInv'
  <2>1. /\ UNCHANGED <<mu, cur>>
        /\ pc'[w] \in SessionLockPcs <=> pc[w] \in SessionLockPcs
        /\ \A q \in Procs \ {w} : pc'[q] = pc[q]
    BY <1>1, PcType, ZenonT(30) DEF Dispatch, Entry, PruneLock, PruneKeep, PruneDone,
           OpenAcquire, OpenExhausted, QueryOpenSql, UploadOpenSql, AddSession, AddFails,
           OpenFail, OpenReply, AcquireLock, LockService, RemoveLock, LookupFails, CheckKind,
           FetchRun, SqlCall, CancelLock, SessionLockPcs
  <2> QED
    BY <1>0, <2>1, SessionLockFrame DEF SessionType, SessionLockInv, SessionLockPcs
<1>2. ASSUME NEW p \in Procs, Destroy(p) \/ DestroyUpload(p) PROVE SessionLockInv'
  <2>1. /\ UNCHANGED <<mu, cur>>
        /\ pc'[p] \in SessionLockPcs <=> pc[p] \in SessionLockPcs
        /\ \A q \in Procs \ {p} : pc'[q] = pc[q]
    BY <1>2, PcType DEF Destroy, DestroyUpload, SessionLockPcs
  <2> QED
    BY <1>0, <2>1, SessionLockFrame DEF SessionType, SessionLockInv, SessionLockPcs
<1>3. ASSUME StopFlag \/ StopDetach \/ StopDone \/ UNCHANGED vars PROVE SessionLockInv'
  <2>1. /\ UNCHANGED <<mu, cur>>
        /\ \/ pc' = pc
           \/ /\ pc'[Stopper] \in SessionLockPcs <=> pc[Stopper] \in SessionLockPcs
              /\ \A q \in Procs \ {Stopper} : pc'[q] = pc[q]
    BY <1>3, PcType DEF StopFlag, StopDetach, StopDone, SessionLockPcs
  <2> QED
    BY <1>0, <2>1, SessionLockFrame, ZenonT(30) DEF SessionType, SessionLockInv, SessionLockPcs
<1>4. ASSUME NEW s \in SessionIds, IdleExpires(s) PROVE SessionLockInv'
  <2>1. UNCHANGED <<pc, mu, cur>>
    BY <1>4, PcType DEF IdleExpires, SessionLockPcs
  <2> QED
    BY <1>0, <2>1, SessionLockFrame DEF SessionType, SessionLockInv, SessionLockPcs
<1> USE Domains DEF RefPcs, DetachedPcs, TeardownPcs, SessionLockPcs
<1>5. ASSUME NEW w \in Workers, PruneRemove(w) PROVE SessionLockInv'
  <2>1. /\ UNCHANGED mu /\ pc[w] \notin SessionLockPcs /\ pc'[w] \notin SessionLockPcs
        /\ \A q \in Procs \ {w} : cur'[q] = cur[q] /\ pc'[q] = pc[q]
    BY <1>5 DEF PruneRemove, Detach
  <2> QED
    BY <1>0, <2>1, SessionLockMoved
<1>6. ASSUME NEW w \in Workers, Acquire(w) \/ Release(w) \/ Remove(w) PROVE SessionLockInv'
  <2>1. CASE Acquire(w)
    <3>1. AfterAcquire(Op(w)) \notin SessionLockPcs
      BY DEF AfterAcquire
    <3>2. /\ UNCHANGED mu /\ pc[w] \notin SessionLockPcs /\ pc'[w] \notin SessionLockPcs
          /\ \A q \in Procs \ {w} : cur'[q] = cur[q] /\ pc'[q] = pc[q]
      BY <2>1, <3>1 DEF Acquire
    <3> QED
      BY <1>0, <3>2, SessionLockMoved
  <2>2. CASE Release(w)
    <3>1. /\ UNCHANGED mu /\ pc[w] \notin SessionLockPcs /\ pc'[w] \notin SessionLockPcs
          /\ \A q \in Procs \ {w} : cur'[q] = cur[q]
      BY <2>2 DEF Release
    <3>2. \A q \in Procs \ {w} : pc'[q] \in SessionLockPcs <=> pc[q] \in SessionLockPcs
      BY <2>2 DEF Release
    <3> QED
      BY <1>0, <3>1, <3>2, SessionLockMoved
  <2>3. CASE Remove(w)
    <3>1. AfterRemove(Op(w)) \notin SessionLockPcs
      BY DEF AfterRemove
    <3>2. /\ UNCHANGED mu /\ pc[w] \notin SessionLockPcs /\ pc'[w] \notin SessionLockPcs
          /\ \A q \in Procs \ {w} : cur'[q] = cur[q] /\ pc'[q] = pc[q]
      BY <2>3, <3>1 DEF Remove, Detach
    <3> QED
      BY <1>0, <3>2, SessionLockMoved
  <2> QED
    BY <1>6, <2>1, <2>2, <2>3
<1>7. ASSUME NEW w \in Workers, FetchLock(w) \/ FetchResult(w) PROVE SessionLockInv'
  <2>1. CASE FetchLock(w)
    <3>1. w \in Procs /\ cur[w] \in SessionIds /\ pc[w] \notin SessionLockPcs
      BY <2>1, HeldSession DEF FetchLock
    <3>2. UNCHANGED cur /\ \A q \in Procs \ {w} : pc'[q] = pc[q]
      BY <2>1, PcType DEF FetchLock
    <3>3. CASE kind[cur[w]] = "upload" \/ cancelled[cur[w]]
      <4>1. UNCHANGED mu /\ pc'[w] \notin SessionLockPcs
        BY <2>1, <3>3, PcType DEF FetchLock
      <4> QED
        BY <1>0, <3>1, <3>2, <4>1, SessionLockFrame, SMTT(30)
    <3>4. CASE ~(kind[cur[w]] = "upload" \/ cancelled[cur[w]])
      <4>1. /\ mu[cur[w]] = None /\ mu' = [mu EXCEPT ![cur[w]] = w]
            /\ pc'[w] \in SessionLockPcs
        BY <2>1, <3>4, PcType DEF FetchLock
      <4> QED
        BY <1>0, <3>1, <3>2, <4>1, SessionLockTaken, ZenonT(30)
    <3> QED
      BY <3>3, <3>4
  <2>2. CASE FetchResult(w)
    <3>1. w \in Procs /\ cur[w] \in SessionIds
      BY <2>2, HeldSession DEF FetchResult
    <3>2. /\ pc[w] \in SessionLockPcs /\ pc'[w] \notin SessionLockPcs
          /\ mu' = [mu EXCEPT ![cur[w]] = None] /\ UNCHANGED cur
          /\ \A q \in Procs \ {w} : pc'[q] = pc[q]
      BY <2>2, PcType DEF FetchResult
    <3> QED
      BY <1>0, <3>1, <3>2, SessionLockGiven, ZenonT(30)
  <2> QED
    BY <1>7, <2>1, <2>2
<1>8. ASSUME NEW w \in Workers, UploadStep(w) PROVE SessionLockInv'
  <2>1. CASE AppendLock(w)
    <3>1. w \in Procs /\ cur[w] \in SessionIds /\ pc[w] \notin SessionLockPcs
      BY <2>1, HeldSession DEF AppendLock
    <3>2. UNCHANGED cur /\ \A q \in Procs \ {w} : pc'[q] = pc[q]
      BY <2>1, PcType DEF AppendLock
    <3>3. CASE kind[cur[w]] # "upload" \/ ~appender[cur[w]]
      <4>1. UNCHANGED mu /\ pc'[w] \notin SessionLockPcs
        BY <2>1, <3>3, PcType DEF AppendLock
      <4> QED
        BY <1>0, <3>1, <3>2, <4>1, SessionLockFrame
    <3>4. CASE ~(kind[cur[w]] # "upload" \/ ~appender[cur[w]])
      <4>1. /\ mu[cur[w]] = None /\ mu' = [mu EXCEPT ![cur[w]] = w]
            /\ pc'[w] \in SessionLockPcs
        BY <2>1, <3>4, PcType DEF AppendLock
      <4> QED
        BY <1>0, <3>1, <3>2, <4>1, SessionLockTaken
    <3> QED
      BY <3>3, <3>4
  <2>2. CASE AppendRun(w)
    <3>1. w \in Procs /\ cur[w] \in SessionIds
      BY <2>2, HeldSession DEF AppendRun
    <3>2. /\ pc[w] \in SessionLockPcs /\ pc'[w] \notin SessionLockPcs
          /\ mu' = [mu EXCEPT ![cur[w]] = None] /\ UNCHANGED cur
          /\ \A q \in Procs \ {w} : pc'[q] = pc[q]
      BY <2>2, PcType DEF AppendRun
    <3> QED
      BY <1>0, <3>1, <3>2, SessionLockGiven
  <2>3. CASE CommitLock(w)
    <3>1. w \in Procs /\ cur[w] \in SessionIds
      BY <2>3, HeldSession DEF CommitLock
    <3>2. /\ mu[cur[w]] = None /\ mu' = [mu EXCEPT ![cur[w]] = w] /\ UNCHANGED cur
          /\ pc'[w] \in SessionLockPcs /\ \A q \in Procs \ {w} : pc'[q] = pc[q]
      BY <2>3, PcType DEF CommitLock
    <3> QED
      BY <1>0, <3>1, <3>2, SessionLockTaken
  <2>4. CASE CommitFlush(w)
    <3>1. w \in Procs /\ cur[w] \in SessionIds
      BY <2>4, HeldSession DEF CommitFlush
    <3>2. /\ pc[w] \in SessionLockPcs /\ UNCHANGED cur /\ \A q \in Procs \ {w} : pc'[q] = pc[q]
          /\ \/ UNCHANGED mu /\ pc'[w] \in SessionLockPcs
             \/ mu' = [mu EXCEPT ![cur[w]] = None] /\ pc'[w] \notin SessionLockPcs
      BY <2>4, PcType DEF CommitFlush
    <3>3. CASE UNCHANGED mu /\ pc'[w] \in SessionLockPcs
      BY <1>0, <3>1, <3>2, <3>3, SessionLockFrame
    <3>4. CASE mu' = [mu EXCEPT ![cur[w]] = None] /\ pc'[w] \notin SessionLockPcs
      BY <1>0, <3>1, <3>2, <3>4, SessionLockGiven
    <3> QED
      BY <3>2, <3>3, <3>4
  <2>5. CASE CommitTxn(w)
    <3>1. w \in Procs /\ cur[w] \in SessionIds
      BY <2>5, HeldSession DEF CommitTxn
    <3>2. /\ pc[w] \in SessionLockPcs /\ pc'[w] \notin SessionLockPcs
          /\ mu' = [mu EXCEPT ![cur[w]] = None] /\ UNCHANGED cur
          /\ \A q \in Procs \ {w} : pc'[q] = pc[q]
      BY <2>5, PcType DEF CommitTxn
    <3> QED
      BY <1>0, <3>1, <3>2, SessionLockGiven
  <2> QED
    BY <1>8, <2>1, <2>2, <2>3, <2>4, <2>5 DEF UploadStep
<1>9. ASSUME NEW p \in Procs, DestroyFree(p) PROVE SessionLockInv'
  <2>1. /\ UNCHANGED mu /\ pc[p] \notin SessionLockPcs
        /\ \A q \in Procs \ {p} : cur'[q] = cur[q] /\ pc'[q] = pc[q]
    BY <1>9 DEF DestroyFree
  <2>2. ret[p] \in {"idle", "prune_lock", "stop_next"}
    BY PcType
  <2>3. pc'[p] \notin SessionLockPcs
    BY <1>9, <2>2 DEF DestroyFree
  <2> QED
    BY <1>0, <2>1, <2>3, SessionLockMoved
<1>10. ASSUME StopDestroy PROVE SessionLockInv'
  <2>1. /\ UNCHANGED mu /\ pc[Stopper] \notin SessionLockPcs /\ pc'[Stopper] \notin SessionLockPcs
        /\ \A q \in Procs \ {Stopper} : cur'[q] = cur[q] /\ pc'[q] = pc[q]
    BY <1>10 DEF StopDestroy
  <2> QED
    BY <1>0, <2>1, SessionLockMoved
<1> HIDE DEF RefPcs, DetachedPcs, TeardownPcs, SessionLockPcs, Goto, Answer, Finish, Op, tableVars, lifeVars, lockVars,
       queryVars, uploadVars, sessVars, dbVars, frameVars, callVars, vars
<1> QED
  BY <1>1, <1>2, <1>3, <1>4, <1>5, <1>6, <1>7, <1>8, <1>9, <1>10
  DEF Next, WorkerStep, PruneStep, OpenStep, LookupStep, FetchStep, UploadStep, DestroyStep,
         StopperStep, Stopped

\* Sessions leave the table and threads take sessions that are in it; no session
\* is created or freed.
LEMMA LifeMoved ==
    ASSUME LifeInv, sessions \cup doomed \subseteq SessionIds,
           UNCHANGED <<nextId, phase, scon, doomed>>, sessions' \subseteq sessions,
           \A s \in SessionIds : closing[s] => closing'[s],
           \A s \in SessionIds : closing'[s] => closing[s] \/ s \in sessions \ sessions',
           \A q \in Procs : cur'[q] \in {cur[q], None} \cup sessions
    PROVE  LifeInv'
<1>1. /\ \A s \in SessionIds : s >= nextId' <=> phase'[s] = "absent"
      /\ \A s \in SessionIds : scon'[s] # None <=> phase'[s] = "live"
      /\ \A s \in sessions' \cup doomed' : phase'[s] = "live"
  BY DEF LifeInv
<1>2. \A s \in SessionIds : phase'[s] = "absent" => ~closing'[s]
  BY DEF LifeInv
<1>3. \A s \in sessions' : ~closing'[s] /\ s \notin doomed'
  BY DEF LifeInv
<1>4. \A s \in doomed' : closing'[s] /\ \A p \in Procs : cur'[p] # s
  <2>1. \A s \in doomed : closing[s] /\ \A p \in Procs : cur[p] # s
    BY DEF LifeInv
  <2>2. \A s \in doomed : s # None /\ s \in SessionIds
    BY Constants
  <2>3. \A s \in doomed : s \notin sessions
    BY DEF LifeInv
  <2> QED
    BY <2>1, <2>2, <2>3
<1>5. \A p \in Procs : cur'[p] # None => phase'[cur'[p]] = "live"
  BY DEF LifeInv
<1> QED
  BY <1>1, <1>2, <1>3, <1>4, <1>5 DEF LifeInv

\* Sessions keep to their life cycle.
LEMMA LifeStep == IInv /\ [Next]_vars => LifeInv'
<1> SUFFICES ASSUME IInv PROVE [Next]_vars => LifeInv'
  OBVIOUS
<1> USE DEF Goto, Answer, Finish, Op, tableVars, lifeVars, lockVars, queryVars, uploadVars,
       sessVars, dbVars, frameVars, callVars, vars
<1>0. TableType /\ SessionType /\ ThreadType /\ LifeInv
  BY DEF IInv, TypeOK
<1>1. ASSUME NEW w \in Workers, Dispatch(w) \/ PruneLock(w) \/ PruneKeep(w) \/ PruneDone(w)
       \/ OpenAcquire(w) \/ OpenExhausted(w) \/ QueryOpenSql(w) \/ UploadOpenSql(w)
       \/ AddFails(w) \/ OpenFail(w) \/ OpenReply(w) \/ AcquireLock(w) \/ RemoveLock(w)
       \/ LookupFails(w) \/ CheckKind(w) \/ FetchLock(w) \/ FetchRun(w) \/ SqlCall(w)
       \/ FetchResult(w) \/ CancelLock(w) \/ AppendLock(w) \/ AppendRun(w) \/ CommitLock(w)
       \/ CommitFlush(w) \/ CommitTxn(w) PROVE LifeInv'
  <2>1. UNCHANGED <<nextId, phase, closing, scon, sessions, doomed, cur>>
    BY <1>1, ZenonT(30) DEF Dispatch, Entry, PruneLock, PruneKeep, PruneDone, OpenAcquire, OpenExhausted,
           QueryOpenSql, UploadOpenSql, AddFails, OpenFail, OpenReply, AcquireLock,
           LockService, RemoveLock, LookupFails, CheckKind, FetchLock, FetchRun, SqlCall,
           FetchResult, CancelLock, AppendLock, AppendRun, CommitLock, CommitFlush, CommitTxn
  <2> QED
    BY <1>0, <2>1, SMTT(30) DEF LifeInv
<1>2. ASSUME NEW p \in Procs, DestroyUpload(p) PROVE LifeInv'
  <2>1. UNCHANGED <<nextId, phase, closing, scon, sessions, doomed, cur>>
    BY <1>2 DEF DestroyUpload
  <2> QED
    BY <1>0, <2>1 DEF LifeInv
<1>3. ASSUME StopFlag \/ StopDone \/ UNCHANGED vars PROVE LifeInv'
  <2>1. UNCHANGED <<nextId, phase, closing, scon, sessions, doomed, cur>>
    BY <1>3 DEF StopFlag, StopDone
  <2> QED
    BY <1>0, <2>1 DEF LifeInv
<1>4. ASSUME NEW s \in SessionIds, IdleExpires(s) PROVE LifeInv'
  <2>1. UNCHANGED <<nextId, phase, closing, scon, sessions, doomed, cur>>
    BY <1>4 DEF IdleExpires
  <2> QED
    BY <1>0, <2>1 DEF LifeInv
<1> USE DEF TableType, SessionType, ThreadType, LifeInv
<1>5. ASSUME NEW w \in Workers, PruneRemove(w) PROVE LifeInv'
  <2>1. PICK s \in sessions : Detach(w, s, "destroy")
    BY <1>5 DEF PruneRemove
  <2>2. UNCHANGED <<nextId, phase, scon, doomed>>
    BY <1>5, SMTT(30) DEF PruneRemove
  <2> QED
    BY <1>0, <2>1, <2>2 DEF Detach
<1>6. ASSUME NEW w \in Workers, AddSession(w) PROVE LifeInv'
  <2>1. nextId \in SessionIds /\ phase[nextId] = "absent"
    BY <1>6, <1>0 DEF AddSession
  <2>2. nextId \notin sessions \cup doomed /\ ~closing[nextId] /\ \A p \in Procs : cur[p] # nextId
    BY <1>0, <2>1, SMTT(30)
  <2>3. \A s \in SessionIds : s >= nextId' <=> phase'[s] = "absent"
    BY <1>6, <1>0, <2>1, SMTT(30) DEF AddSession, SessionIds
  <2>4. ocon[w] \in Conns
    <3>1. pc[w] \in OpenConPcs
      BY <1>6 DEF AddSession, OpenConPcs
    <3> QED
      BY <3>1, HeldConnection, ZenonT(30)
  <2>5. \A s \in SessionIds : scon'[s] # None <=> phase'[s] = "live"
    BY <1>6, <1>0, <2>4 DEF AddSession
  <2> QED
    BY <1>6, <1>0, <2>2, <2>3, <2>5, SMTT(30) DEF AddSession
<1>7. ASSUME NEW w \in Workers, Acquire(w) \/ Release(w) \/ Remove(w) PROVE LifeInv'
  <2> USE Domains
  <2> HIDE DEF TableType, SessionType, ThreadType, LifeInv
  <2>0. LifeInv /\ sessions \cup doomed \subseteq SessionIds
    BY <1>0 DEF TableType
  <2>1. CASE Acquire(w)
    <3>1. /\ UNCHANGED <<nextId, phase, closing, scon, sessions, doomed>>
          /\ tid[w] \in sessions
      BY <2>1 DEF Acquire
    <3>2. cur' = cur \/ cur' = [cur EXCEPT ![w] = tid[w]]
      BY <2>1, ZenonT(30) DEF Acquire
    <3>3. \A q \in Procs : cur'[q] \in {cur[q], None} \cup sessions
      BY <3>1, <3>2
    <3> QED
      BY <2>0, <3>1, <3>3, LifeMoved
  <2>2. CASE Release(w)
    <3>1. UNCHANGED <<nextId, phase, closing, scon, sessions, doomed>>
      BY <2>2 DEF Release
    <3>2. \A q \in Procs : cur'[q] \in {cur[q], None} \cup sessions
      BY <2>2 DEF Release
    <3> QED
      BY <2>0, <3>1, <3>2, LifeMoved
  <2>3. CASE Remove(w)
    <3>1. /\ UNCHANGED <<nextId, phase, scon, doomed>> /\ tid[w] \in sessions
          /\ cur' = [cur EXCEPT ![w] = tid[w]]
          /\ closing' = [closing EXCEPT ![tid[w]] = TRUE]
          /\ sessions' = sessions \ {tid[w]}
      BY <2>3 DEF Remove, Detach
    <3>2. /\ \A q \in Procs : cur'[q] \in {cur[q], None} \cup sessions
          /\ \A s \in SessionIds : closing[s] => closing'[s]
          /\ \A s \in SessionIds : closing'[s] => closing[s] \/ s \in sessions \ sessions'
      BY <3>1
    <3> QED
      BY <2>0, <3>1, <3>2, LifeMoved
  <2> QED
    BY <1>7, <2>1, <2>2, <2>3
<1>8. ASSUME NEW p \in Procs, Destroy(p) \/ DestroyFree(p) PROVE LifeInv'
  <2>1. CASE Destroy(p)
    <3>1. cur[p] \in SessionIds /\ phase[cur[p]] = "live"
      BY <2>1, HeldSession DEF Destroy, DetachedPcs
    <3>2. cur[p] \notin sessions
      BY <2>1, <3>1, SMTT(30) DEF Destroy, IInv, DetachInv, DetachedPcs
    <3> QED
      BY <2>1, <1>0, <3>1, <3>2 DEF Destroy
  <2>2. CASE DestroyFree(p)
    <3>1. pc[p] \in TeardownPcs /\ pc[p] \in DetachedPcs
      BY <2>2 DEF DestroyFree, TeardownPcs, DetachedPcs
    <3>2. cur[p] \in SessionIds /\ phase[cur[p]] = "live"
      BY <3>1, HeldSession
    <3>3. cur[p] \notin sessions \cup doomed
      BY <1>0, <3>1, <3>2, ZenonT(30) DEF IInv, DetachInv
    <3>4. \A q \in Procs : q # p => cur[q] # cur[p]
      BY <3>1, TeardownAlone
    <3>5. ~(cur[p] >= nextId)
      BY <1>0, <3>2, ZenonT(30)
    <3>6. /\ UNCHANGED <<nextId, sessions, doomed, closing>>
          /\ \A s \in SessionIds : phase'[s] = IF s = cur[p] THEN "freed" ELSE phase[s]
          /\ \A s \in SessionIds : scon'[s] = IF s = cur[p] THEN None ELSE scon[s]
          /\ \A q \in Procs : cur'[q] = IF q = p THEN None ELSE cur[q]
      BY <2>2, <1>0 DEF DestroyFree
    <3>7. /\ \A s \in SessionIds : s >= nextId' <=> phase'[s] = "absent"
          /\ \A s \in SessionIds : phase'[s] = "absent" => ~closing'[s]
          /\ \A s \in SessionIds : scon'[s] # None <=> phase'[s] = "live"
      <4>1. ASSUME NEW s \in SessionIds
            PROVE  /\ s >= nextId <=> phase[s] = "absent"
                   /\ phase[s] = "absent" => ~closing[s]
                   /\ scon[s] # None <=> phase[s] = "live"
        BY <1>0
      <4> HIDE DEF TableType, SessionType, ThreadType, LifeInv
      <4> QED
        BY <3>2, <3>5, <3>6, <4>1
    <3>8. /\ \A s \in sessions' \cup doomed' : phase'[s] = "live"
          /\ \A s \in sessions' : ~closing'[s] /\ s \notin doomed'
      BY <1>0, <3>3, <3>6
    <3>9. \A s \in doomed' : closing'[s] /\ \A q \in Procs : cur'[q] # s
      <4>1. \A s \in doomed : s # None
        BY <1>0, Constants
      <4> QED
        BY <1>0, <3>6, <4>1
    <3>10. ASSUME NEW q \in Procs, cur'[q] # None PROVE phase'[cur'[q]] = "live"
      <4>1. q # p /\ cur'[q] = cur[q] /\ cur[q] # cur[p]
        BY <3>4, <3>6, <3>10
      <4>2. cur[q] \in SessionIds /\ phase[cur[q]] = "live"
        BY <1>0, <3>10, <4>1
      <4> QED
        BY <3>6, <4>1, <4>2
    <3> QED
      BY <3>7, <3>8, <3>9, <3>10
  <2> QED
    BY <1>8, <2>1, <2>2
<1>9. ASSUME StopDetach \/ StopDestroy PROVE LifeInv'
  <2>1. CASE StopDetach
    <3>1. \A p \in Procs : pc[p] \notin RefPcs \cup DetachedPcs
      BY <2>1 DEF StopDetach, RefPcs, DetachedPcs, TeardownPcs
    <3>2. \A p \in Procs : cur[p] = None
      BY <3>1 DEF IInv, FrameInv
    <3>3. sessions' = {} /\ doomed' = sessions /\ UNCHANGED <<nextId, phase, scon, cur>>
      BY <2>1 DEF StopDetach
    <3>4. \A s \in SessionIds : closing'[s] = (closing[s] \/ s \in sessions)
      BY <2>1, SMTT(30) DEF StopDetach
    <3>5. \A s \in sessions : closing'[s]
      BY <1>0, <3>4, ZenonT(30)
    <3>6. \A s \in SessionIds : phase[s] = "absent" => ~closing'[s]
      BY <1>0, <3>4
    <3>7. \A s \in doomed' : closing'[s] /\ \A p \in Procs : cur'[p] # s
      <4>1. sessions \subseteq SessionIds
        BY <1>0
      <4> HIDE DEF TableType, SessionType, ThreadType, LifeInv
      <4> QED
        BY <3>2, <3>3, <3>5, <4>1
    <3>8. \A s \in sessions' \cup doomed' : phase'[s] = "live"
      BY <1>0, <3>3, ZenonT(30)
    <3> QED
      BY <1>0, <3>3, <3>6, <3>7, <3>8
  <2>2. CASE StopDestroy
    <3>1. PICK s \in doomed : cur' = [cur EXCEPT ![Stopper] = s] /\ doomed' = doomed \ {s}
      BY <2>2 DEF StopDestroy
    <3>2. UNCHANGED <<nextId, phase, closing, scon, sessions>>
      BY <2>2 DEF StopDestroy
    <3>3. \A q \in Procs : cur'[q] = IF q = Stopper THEN s ELSE cur[q]
      BY <1>0, <3>1
    <3> QED
      BY <1>0, <3>1, <3>2, <3>3
  <2> QED
    BY <1>9, <2>1, <2>2
<1> HIDE DEF TableType, SessionType, ThreadType, LifeInv, Goto, Answer, Finish, Op, tableVars,
       lifeVars, lockVars, queryVars, uploadVars, sessVars, dbVars, frameVars, callVars, vars
<1> QED
  BY <1>1, <1>2, <1>3, <1>4, <1>5, <1>6, <1>7, <1>8, <1>9
  DEF Next, WorkerStep, PruneStep, OpenStep, LookupStep, FetchStep, UploadStep, DestroyStep,
         StopperStep, Stopped

-----------------------------------------------------------------------------
\* No thread gets a detached session and those that have one keep it.
LEMMA DetachKept ==
    ASSUME DetachInv,
           \A p \in Procs : pc'[p] \in DetachedPcs =>
                /\ pc[p] \in DetachedPcs /\ cur'[p] = cur[p]
                /\ cur[p] \notin sessions' /\ closing'[cur[p]],
           \A p \in Procs : pc'[p] \in TeardownPcs => refcount'[cur[p]] = 0
    PROVE  DetachInv'
<1>0. TeardownPcs \subseteq DetachedPcs
  BY DEF DetachedPcs
<1>1. \A p \in Procs : pc'[p] \in DetachedPcs => cur'[p] \notin sessions' /\ closing'[cur'[p]]
  OBVIOUS
<1>2. \A p, q \in Procs :
        pc'[p] \in DetachedPcs /\ pc'[q] \in DetachedPcs /\ cur'[p] = cur'[q] => p = q
  BY DEF DetachInv
<1>3. \A p \in Procs : pc'[p] \in TeardownPcs => refcount'[cur'[p]] = 0
  BY <1>0
<1> QED
  BY <1>1, <1>2, <1>3 DEF DetachInv

\* One thread detaches a session that nobody had detached before.
LEMMA DetachNew ==
    ASSUME DetachInv, NEW x \in Procs, NEW s, UNCHANGED refcount, sessions' \subseteq sessions,
           pc[x] \notin DetachedPcs, pc'[x] \notin TeardownPcs, cur'[x] = s,
           s \notin sessions', closing'[s],
           \A q \in Procs : pc[q] \in DetachedPcs => cur[q] # s /\ closing'[cur[q]],
           \A q \in Procs \ {x} : pc'[q] = pc[q] /\ cur'[q] = cur[q]
    PROVE  DetachInv'
<1>0. TeardownPcs \subseteq DetachedPcs
  BY DEF DetachedPcs
<1>1. \A p \in Procs : pc'[p] \in DetachedPcs => cur'[p] \notin sessions' /\ closing'[cur'[p]]
  BY DEF DetachInv
<1>2. \A p, q \in Procs :
        pc'[p] \in DetachedPcs /\ pc'[q] \in DetachedPcs /\ cur'[p] = cur'[q] => p = q
  BY DEF DetachInv
<1>3. \A p \in Procs : pc'[p] \in TeardownPcs => refcount'[cur'[p]] = 0
  BY <1>0 DEF DetachInv
<1> QED
  BY <1>1, <1>2, <1>3 DEF DetachInv

\* Detached sessions keep their one responsible thread.
LEMMA DetachStep == IInv /\ [Next]_vars => DetachInv'
<1> SUFFICES ASSUME IInv PROVE [Next]_vars => DetachInv'
  OBVIOUS
<1> USE Domains DEF Goto, Answer, Finish, tableVars, lifeVars, lockVars, queryVars, uploadVars,
       sessVars, dbVars, frameVars, callVars, vars
<1>0. DetachInv /\ sessions \subseteq SessionIds
  BY DEF IInv, TypeOK, TableType
<1>a. ASSUME NEW p \in Procs, pc[p] \in DetachedPcs
      PROVE  /\ cur[p] \in SessionIds /\ cur[p] \notin sessions /\ closing[cur[p]]
             /\ pc[p] \in TeardownPcs => refcount[cur[p]] = 0
  BY <1>a, HeldSession DEF IInv, DetachInv
<1>1. ASSUME NEW w \in Workers, Dispatch(w) \/ PruneLock(w) \/ PruneKeep(w) \/ PruneDone(w)
       \/ OpenAcquire(w) \/ OpenExhausted(w) \/ QueryOpenSql(w) \/ UploadOpenSql(w)
       \/ AddFails(w) \/ OpenFail(w) \/ OpenReply(w) \/ AcquireLock(w) \/ RemoveLock(w)
       \/ LookupFails(w) \/ CheckKind(w) \/ FetchLock(w) \/ FetchRun(w) \/ SqlCall(w)
       \/ FetchResult(w) \/ AppendLock(w) \/ AppendRun(w) PROVE DetachInv'
  <2>1. /\ UNCHANGED <<sessions, closing, cur, refcount>>
        /\ pc'[w] \notin DetachedPcs /\ pc'[w] \notin TeardownPcs
        /\ \A q \in Procs \ {w} : pc'[q] = pc[q]
    <3>1. CASE Dispatch(w) \/ PruneLock(w) \/ PruneKeep(w) \/ PruneDone(w) \/ OpenAcquire(w)
               \/ OpenExhausted(w) \/ QueryOpenSql(w) \/ UploadOpenSql(w) \/ AddFails(w)
               \/ OpenFail(w)
      BY <3>1, ZenonT(60) DEF Dispatch, Entry, PruneLock, PruneKeep, PruneDone, OpenAcquire,
             OpenExhausted, QueryOpenSql, UploadOpenSql, AddFails, OpenFail, DetachedPcs,
             TeardownPcs
    <3>2. CASE OpenReply(w) \/ AcquireLock(w) \/ RemoveLock(w) \/ LookupFails(w) \/ CheckKind(w)
               \/ FetchLock(w) \/ FetchRun(w) \/ SqlCall(w) \/ FetchResult(w) \/ AppendLock(w)
               \/ AppendRun(w)
      BY <3>2, ZenonT(60) DEF OpenReply, AcquireLock, LockService, RemoveLock, LookupFails,
             CheckKind, FetchLock, FetchRun, SqlCall, FetchResult, AppendLock, AppendRun,
             DetachedPcs, TeardownPcs
    <3> QED
      BY <1>1, <3>1, <3>2
  <2>2. TeardownPcs \subseteq DetachedPcs
    BY DEF DetachedPcs
  <2> QED
    BY <1>0, <1>a, <2>1, <2>2, DetachKept
<1>2. ASSUME StopFlag \/ StopDone \/ UNCHANGED vars PROVE DetachInv'
  <2>1. UNCHANGED <<sessions, closing, cur, refcount>>
    BY <1>2 DEF StopFlag, StopDone
  <2>2. \A p \in Procs : /\ pc'[p] \in DetachedPcs => pc[p] \in DetachedPcs
                         /\ pc'[p] \in TeardownPcs => pc[p] \in TeardownPcs /\ pc[p] \in DetachedPcs
    BY <1>2 DEF StopFlag, StopDone, DetachedPcs, TeardownPcs
  <2> QED
    BY <1>0, <1>a, <2>1, <2>2, DetachKept
<1>3. ASSUME NEW s \in SessionIds, IdleExpires(s) PROVE DetachInv'
  <2>1. UNCHANGED <<pc, sessions, closing, cur, refcount>>
    BY <1>3 DEF IdleExpires
  <2> QED
    BY <1>0, <2>1 DEF DetachInv
<1>4. ASSUME NEW w \in Workers, PruneRemove(w) PROVE DetachInv'
  <2>1. PICK s \in sessions : Detach(w, s, "destroy")
    BY <1>4 DEF PruneRemove
  <2>2. pc[w] = "prune_scan" /\ UNCHANGED refcount
    BY <1>4 DEF PruneRemove
  <2>3. /\ sessions' = sessions \ {s} /\ cur'[w] = s /\ pc'[w] = "destroy"
        /\ closing'[s] /\ \A x \in SessionIds : closing[x] => closing'[x]
        /\ \A q \in Procs \ {w} : pc'[q] = pc[q] /\ cur'[q] = cur[q]
    BY <1>0, <2>1 DEF Detach
  <2>4. pc[w] \notin DetachedPcs /\ pc'[w] \notin TeardownPcs
    BY <2>2, <2>3 DEF DetachedPcs, TeardownPcs
  <2>5. \A q \in Procs : pc[q] \in DetachedPcs => cur[q] # s /\ closing'[cur[q]]
    BY <1>a, <2>1, <2>3
  <2>6. s \notin sessions' /\ closing'[s] /\ sessions' \subseteq sessions
    BY <1>0, <2>3
  <2> QED
    BY <1>0, <2>2, <2>3, <2>4, <2>5, <2>6, DetachNew
<1>5. ASSUME NEW w \in Workers, AddSession(w) PROVE DetachInv'
  <2>0. nextId \in SessionIds
    BY <1>5, ZenonT(30) DEF AddSession
  <2>1. nextId \in SessionIds /\ phase[nextId] = "absent"
    BY <2>0 DEF IInv, LifeInv
  <2>2. \A p \in Procs : cur[p] # nextId
    BY <2>1 DEF IInv, LifeInv
  <2>5. /\ sessions' = sessions \cup {nextId} /\ UNCHANGED <<closing, refcount, cur>>
        /\ Goto(w, "open_reply")
    BY <1>5, Zenon DEF AddSession
  <2>3. /\ sessions' = sessions \cup {nextId} /\ UNCHANGED <<closing, refcount, cur>>
        /\ pc'[w] = "open_reply" /\ \A q \in Procs \ {w} : pc'[q] = pc[q]
    BY <2>5, PcType
  <2>4. /\ pc'[w] \notin DetachedPcs /\ pc'[w] \notin TeardownPcs
        /\ TeardownPcs \subseteq DetachedPcs
    BY <2>3 DEF DetachedPcs, TeardownPcs
  <2> QED
    BY <1>0, <1>a, <2>2, <2>3, <2>4, DetachKept
<1>6. ASSUME NEW w \in Workers, Acquire(w) PROVE DetachInv'
  <2>1. AfterAcquire(Op(w)) \notin DetachedPcs
    BY DEF AfterAcquire, DetachedPcs, TeardownPcs
  <2>2. /\ pc'[w] \notin DetachedPcs /\ UNCHANGED <<sessions, closing>>
        /\ \A q \in Procs \ {w} : pc'[q] = pc[q] /\ cur'[q] = cur[q]
        /\ pc[w] = "acquire" /\ tid[w] \in sessions
    BY <1>6, <2>1 DEF Acquire, DetachedPcs, TeardownPcs
  <2>3. pc[w] \notin DetachedPcs /\ TeardownPcs \subseteq DetachedPcs
    BY <2>2 DEF DetachedPcs, TeardownPcs
  <2>4. \A p \in Procs : pc[p] \in DetachedPcs => refcount'[cur[p]] = refcount[cur[p]]
    <3>1. CASE closing[tid[w]]
      BY <1>6, <3>1 DEF Acquire
    <3>2. CASE ~closing[tid[w]]
      <4>1. \A s \in SessionIds : s # tid[w] => refcount'[s] = refcount[s]
        BY <1>6, <3>2, AcquireCounts DEF IInv
      <4> QED
        BY <1>a, <2>2, <4>1
    <3> QED
      BY <3>1, <3>2
  <2> QED
    BY <1>0, <1>a, <2>2, <2>3, <2>4, DetachKept
<1>7. ASSUME NEW w \in Workers, Release(w) PROVE DetachInv'
  <2>1. /\ pc'[w] \notin DetachedPcs /\ pc'[w] \notin TeardownPcs
        /\ \A q \in Procs : q # w /\ pc'[q] \in DetachedPcs => pc[q] \in DetachedPcs
    BY <1>7 DEF Release, DetachedPcs, TeardownPcs
  <2>2. \A q \in Procs : q # w /\ pc'[q] \in TeardownPcs => pc[q] \in TeardownPcs
    BY <1>7 DEF Release, TeardownPcs
  <2>3. UNCHANGED <<sessions, closing>> /\ \A q \in Procs : q # w => cur'[q] = cur[q]
    BY <1>7 DEF Release
  <2>4. TeardownPcs \subseteq DetachedPcs
    BY DEF DetachedPcs
  <2>5. ASSUME NEW q \in Procs, pc'[q] \in TeardownPcs PROVE refcount'[cur[q]] = 0
    <3>1. q # w /\ pc[q] \in TeardownPcs
      BY <2>1, <2>2, <2>5
    <3>2. cur[q] # cur[w]
      BY <3>1, TeardownAlone
    <3>3. cur[q] \in SessionIds /\ refcount[cur[q]] = 0
      BY <1>a, <2>4, <3>1
    <3> QED
      BY <1>7, <3>2, <3>3, ReleaseCounts, ZenonT(30)
  <2> QED
    BY <1>0, <1>a, <2>1, <2>3, <2>5, DetachKept
<1>8. ASSUME NEW w \in Workers, Remove(w) PROVE DetachInv'
  <2>1. AfterRemove(Op(w)) \notin TeardownPcs
    BY DEF AfterRemove, TeardownPcs
  <2>2. /\ pc[w] = "remove" /\ UNCHANGED refcount /\ tid[w] \in sessions
        /\ Detach(w, tid[w], AfterRemove(Op(w)))
    BY <1>8 DEF Remove
  <2>3. /\ sessions' = sessions \ {tid[w]} /\ cur'[w] = tid[w] /\ pc'[w] \notin TeardownPcs
        /\ closing'[tid[w]] /\ \A x \in SessionIds : closing[x] => closing'[x]
        /\ \A q \in Procs \ {w} : pc'[q] = pc[q] /\ cur'[q] = cur[q]
    BY <1>0, <2>1, <2>2 DEF Detach
  <2>4. pc[w] \notin DetachedPcs
    BY <2>2 DEF DetachedPcs, TeardownPcs
  <2>5. \A q \in Procs : pc[q] \in DetachedPcs => cur[q] # tid[w] /\ closing'[cur[q]]
    BY <1>a, <2>2, <2>3
  <2>6. tid[w] \notin sessions' /\ closing'[tid[w]] /\ sessions' \subseteq sessions
    BY <1>0, <2>2, <2>3
  <2> QED
    BY <1>0, <2>2, <2>3, <2>4, <2>5, <2>6, DetachNew
<1>9. ASSUME NEW w \in Workers, CancelLock(w) \/ CommitLock(w) \/ CommitFlush(w) \/ CommitTxn(w)
      PROVE DetachInv'
  <2>1. UNCHANGED <<sessions, closing, cur, refcount>>
    BY <1>9 DEF CancelLock, CommitLock, CommitFlush, CommitTxn
  <2>2. /\ pc[w] \in DetachedPcs /\ pc'[w] \notin TeardownPcs
        /\ \A q \in Procs \ {w} : pc'[q] = pc[q]
    BY <1>9 DEF CancelLock, CommitLock, CommitFlush, CommitTxn, DetachedPcs, TeardownPcs
  <2>3. TeardownPcs \subseteq DetachedPcs
    BY DEF DetachedPcs
  <2> QED
    BY <1>0, <1>a, <2>1, <2>2, <2>3, DetachKept
<1>10. ASSUME NEW p \in Procs, DestroyStep(p) PROVE DetachInv'
  <2>0. TeardownPcs \subseteq DetachedPcs
    BY DEF DetachedPcs
  <2>1. CASE Destroy(p)
    <3>1. /\ UNCHANGED <<sessions, cur, refcount>> /\ \A q \in Procs \ {p} : pc'[q] = pc[q]
          /\ \A x \in SessionIds : closing[x] => closing'[x]
      BY <2>1 DEF Destroy
    <3>2. pc[p] \in DetachedPcs
      BY <2>1 DEF Destroy, DetachedPcs
    <3>3. refcount[cur[p]] \in Nat
      BY <3>2, HeldSession
    <3>4. pc'[p] \in TeardownPcs => refcount[cur[p]] = 0
      BY <2>1, <3>3 DEF Destroy, TeardownPcs
    <3> QED
      BY <1>0, <1>a, <2>0, <3>1, <3>2, <3>4, DetachKept
  <2>2. CASE DestroyUpload(p)
    <3>1. UNCHANGED <<sessions, closing, cur, refcount>> /\ \A q \in Procs \ {p} : pc'[q] = pc[q]
      BY <2>2 DEF DestroyUpload
    <3>2. pc[p] \in DetachedPcs /\ pc[p] \in TeardownPcs
      BY <2>2 DEF DestroyUpload, DetachedPcs, TeardownPcs
    <3> QED
      BY <1>0, <1>a, <2>0, <3>1, <3>2, DetachKept
  <2>3. CASE DestroyFree(p)
    <3>1. UNCHANGED <<sessions, closing, refcount>>
      BY <2>3 DEF DestroyFree
    <3>2. \A q \in Procs \ {p} : pc'[q] = pc[q] /\ cur'[q] = cur[q]
      BY <2>3 DEF DestroyFree
    <3>3. pc'[p] \notin DetachedPcs
      BY <2>3, PcType DEF DestroyFree, DetachedPcs, TeardownPcs
    <3> QED
      BY <1>0, <1>a, <2>0, <3>1, <3>2, <3>3, DetachKept
  <2> QED
    BY <1>10, <2>1, <2>2, <2>3 DEF DestroyStep
<1>11. ASSUME StopDetach PROVE DetachInv'
  <2>1. \A p \in Procs : pc'[p] \notin DetachedPcs /\ pc'[p] \notin TeardownPcs
    BY <1>11 DEF StopDetach, DetachedPcs, TeardownPcs
  <2> QED
    BY <2>1 DEF DetachInv
<1>12. ASSUME StopDestroy PROVE DetachInv'
  <2>1. PICK s \in doomed : cur' = [cur EXCEPT ![Stopper] = s] /\ doomed' = doomed \ {s}
    BY <1>12 DEF StopDestroy
  <2>2. UNCHANGED <<sessions, closing, refcount>> /\ pc[Stopper] = "stop_next" /\ Goto(Stopper, "destroy")
    BY <1>12 DEF StopDestroy
  <2>3. s \notin sessions /\ closing[s] /\ \A q \in Procs : cur[q] # s
    BY DEF IInv, LifeInv
  <2>4. cur'[Stopper] = s /\ \A q \in Procs \ {Stopper} : pc'[q] = pc[q] /\ cur'[q] = cur[q]
    BY <2>1, <2>2
  <2>5. pc[Stopper] \notin DetachedPcs /\ pc'[Stopper] \notin TeardownPcs
    BY <2>2 DEF DetachedPcs, TeardownPcs
  <2> QED
    BY <1>0, <1>a, <2>2, <2>3, <2>4, <2>5, DetachNew
<1> HIDE DEF vars
<1> QED
  BY <1>1, <1>2, <1>3, <1>4, <1>5, <1>6, <1>7, <1>8, <1>9, <1>10, <1>11, <1>12
  DEF Next, WorkerStep, PruneStep, OpenStep, LookupStep, FetchStep, UploadStep, DestroyStep,
         StopperStep, Stopped

-----------------------------------------------------------------------------
(* ducknng_service_stop                                                      *)

\* How far ducknng_service_stop has come.
StopInv ==
    /\ pc[Stopper] # "idle" => shutting_down
    /\ pc[Stopper] \notin {"idle", "stop_join"} =>
          sessions = {} /\ \A w \in Workers : pc[w] = "idle"
    /\ pc[Stopper] \in {"idle", "stop_join", "stopped"} => doomed = {}

\* A worker that has work to do knows that service_stop still waits for it.
LEMMA WorkerBeforeStop ==
    ASSUME IInv, StopInv, NEW w \in Workers, Dispatch(w) \/ WorkerStep(w)
    PROVE  /\ pc[Stopper] \in {"idle", "stop_join"} /\ pc'[Stopper] = pc[Stopper]
           /\ UNCHANGED <<shutting_down, doomed>>
<1>a. pc[w] # "idle" => pc[Stopper] \in {"idle", "stop_join"}
  BY DEF StopInv
<1> USE Domains DEF Goto, Answer, Finish, tableVars, lifeVars, lockVars, queryVars, uploadVars,
       sessVars, dbVars, frameVars, callVars
<1>0. Stopper # w
  OBVIOUS
<1>1. CASE Dispatch(w)
  BY <1>0, <1>1 DEF Dispatch, StopInv
<1>2. CASE PruneStep(w)
  <2>1. pc[w] # "idle" /\ pc'[Stopper] = pc[Stopper] /\ UNCHANGED <<shutting_down, doomed>>
    BY <1>0, <1>2, ZenonT(30) DEF PruneStep, PruneLock, PruneRemove, PruneKeep, PruneDone, Detach
  <2> QED
    BY <1>a, <2>1
<1>3. CASE OpenStep(w)
  <2>1. pc[w] # "idle" /\ pc'[Stopper] = pc[Stopper] /\ UNCHANGED <<shutting_down, doomed>>
    BY <1>0, <1>3, ZenonT(30) DEF OpenStep, OpenAcquire, OpenExhausted, QueryOpenSql, UploadOpenSql,
           AddSession, AddFails, OpenFail, OpenReply
  <2> QED
    BY <1>a, <2>1
<1>4. CASE LookupStep(w)
  <2>1. CASE Release(w)
    <3>1. pc[w] # "idle" /\ UNCHANGED <<shutting_down, doomed>>
      BY <2>1 DEF Release
    <3>2. pc[Stopper] \in {"idle", "stop_join"}
      BY <1>a, <3>1
    <3>3. pc'[Stopper] = pc[Stopper]
      BY <1>0, <2>1, <3>2 DEF Release
    <3> QED
      BY <3>1, <3>2, <3>3
  <2>2. CASE ~Release(w)
    <3>1. pc[w] # "idle" /\ pc'[Stopper] = pc[Stopper] /\ UNCHANGED <<shutting_down, doomed>>
      BY <1>0, <1>4, <2>2, ZenonT(30) DEF LookupStep, AcquireLock, RemoveLock, LockService, LookupFails,
             Acquire, CheckKind, Remove, Detach
    <3> QED
      BY <1>a, <3>1
  <2> QED
    BY <2>1, <2>2
<1>5. CASE FetchStep(w)
  <2>1. pc[w] # "idle" /\ pc'[Stopper] = pc[Stopper] /\ UNCHANGED <<shutting_down, doomed>>
    BY <1>0, <1>5, ZenonT(30) DEF FetchStep, FetchLock, FetchRun, SqlCall, FetchResult, CancelLock
  <2> QED
    BY <1>a, <2>1
<1>6. CASE UploadStep(w)
  <2>1. pc[w] # "idle" /\ pc'[Stopper] = pc[Stopper] /\ UNCHANGED <<shutting_down, doomed>>
    BY <1>0, <1>6, ZenonT(30) DEF UploadStep, AppendLock, AppendRun, CommitLock, CommitFlush, CommitTxn
  <2> QED
    BY <1>a, <2>1
<1>7. CASE DestroyStep(w)
  <2>1. pc[w] # "idle" /\ pc'[Stopper] = pc[Stopper] /\ UNCHANGED <<shutting_down, doomed>>
    <3>1. CASE Destroy(w)
      BY <1>0, <3>1 DEF Destroy
    <3>2. CASE DestroyUpload(w)
      BY <1>0, <3>2 DEF DestroyUpload
    <3>3. CASE DestroyFree(w)
      BY <1>0, <3>3 DEF DestroyFree
    <3> QED
      BY <1>7, <3>1, <3>2, <3>3 DEF DestroyStep
  <2> QED
    BY <1>a, <2>1
<1> QED
  BY <1>1, <1>2, <1>3, <1>4, <1>5, <1>6, <1>7 DEF WorkerStep

LEMMA StopStep == IInv /\ StopInv /\ [Next]_vars => StopInv'
<1> SUFFICES ASSUME IInv, StopInv PROVE [Next]_vars => StopInv'
  OBVIOUS
<1> USE Domains DEF Goto, Answer, Finish, tableVars, lifeVars, lockVars, queryVars, uploadVars,
       sessVars, dbVars, frameVars, callVars, vars
<1>1. ASSUME NEW w \in Workers, Dispatch(w) \/ WorkerStep(w) PROVE StopInv'
  BY <1>1, WorkerBeforeStop DEF StopInv
<1>2. ASSUME DestroyStep(Stopper) PROVE StopInv'
  <2>1. /\ pc[Stopper] \in {"destroy", "destroy_upload", "destroy_free"}
        /\ UNCHANGED <<shutting_down, sessions, doomed>>
        /\ \A w \in Workers : pc'[w] = pc[w]
    BY <1>2, ZenonT(60) DEF DestroyStep, Destroy, DestroyUpload, DestroyFree
  <2>2. pc'[Stopper] \in {"destroy_wait", "destroy_upload", "destroy_free", "stop_next"}
    <3>1. CASE Destroy(Stopper) \/ DestroyUpload(Stopper)
      BY <3>1 DEF Destroy, DestroyUpload
    <3>2. CASE DestroyFree(Stopper)
      <4>1. ret[Stopper] = "stop_next"
        BY <3>2 DEF DestroyFree, IInv, FrameInv, DetachedPcs, TeardownPcs
      <4> QED
        BY <3>2, <4>1 DEF DestroyFree
    <3> QED
      BY <1>2, <3>1, <3>2 DEF DestroyStep
  <2> QED
    BY <2>1, <2>2 DEF StopInv
<1>3. ASSUME StopFlag PROVE StopInv'
  BY <1>3 DEF StopFlag, StopInv
<1>4. ASSUME StopDetach PROVE StopInv'
  BY <1>4 DEF StopDetach, StopInv
<1>5. ASSUME StopDestroy PROVE StopInv'
  BY <1>5 DEF StopDestroy, StopInv
<1>6. ASSUME StopDone PROVE StopInv'
  BY <1>6 DEF StopDone, StopInv
<1>7. ASSUME NEW s \in SessionIds, IdleExpires(s) PROVE StopInv'
  BY <1>7 DEF IdleExpires, StopInv
<1>8. ASSUME UNCHANGED vars PROVE StopInv'
  BY <1>8 DEF StopInv
<1> HIDE DEF vars
<1> QED
  BY <1>1, <1>2, <1>3, <1>4, <1>5, <1>6, <1>7, <1>8 DEF Next, StopperStep, Stopped
=============================================================================
