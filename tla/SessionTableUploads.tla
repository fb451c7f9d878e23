------------------------ MODULE SessionTableUploads ------------------------
(***************************************************************************)
(* Invariants of SessionTable about requests and uploads, and the proofs   *)
(* that a step keeps them.  RoleInv ties the label of a handler to its     *)
(* request, UploadInv the appender, the transaction and the row counts of  *)
(* an upload to each other.                                                *)
(***************************************************************************)
EXTENDS SessionTableInvariant

USE Constants

-----------------------------------------------------------------------------
(* Steps that leave sessions and connections with whoever has them           *)

ownVars == <<sessions, doomed, phase, owner, scon, ocon, busy, cur, nextId, kind>>

OwnQuietStep(w) ==
    \/ Dispatch(w) \/ PruneLock(w) \/ PruneKeep(w) \/ PruneDone(w) \/ OpenExhausted(w)
    \/ QueryOpenSql(w) \/ UploadOpenSql(w) \/ AddFails(w) \/ OpenReply(w) \/ AcquireLock(w)
    \/ RemoveLock(w) \/ LookupFails(w) \/ CheckKind(w) \/ FetchLock(w) \/ FetchRun(w)
    \/ SqlCall(w) \/ FetchResult(w) \/ CancelLock(w) \/ AppendLock(w) \/ AppendRun(w)
    \/ CommitLock(w) \/ CommitFlush(w) \/ CommitTxn(w)

OwnQuiet ==
    \/ \E w \in Workers : OwnQuietStep(w)
    \/ \E p \in Procs : Destroy(p) \/ DestroyUpload(p)
    \/ \E s \in SessionIds : IdleExpires(s)
    \/ StopFlag \/ StopDone \/ UNCHANGED vars

\* The steps that change who has a session or a connection, one by one.
OwnMove ==
    \/ \E w \in Workers :
        \/ PruneRemove(w) \/ OpenAcquire(w) \/ AddSession(w) \/ OpenFail(w)
        \/ Acquire(w) \/ Release(w) \/ Remove(w)
    \/ \E p \in Procs : DestroyFree(p)
    \/ StopDetach \/ StopDestroy

LEMMA OwnCases == [Next]_vars => OwnQuiet \/ OwnMove
BY ZenonT(30) DEF Next, WorkerStep, PruneStep, OpenStep, LookupStep, FetchStep, UploadStep, DestroyStep,
       StopperStep, Stopped, OwnQuiet, OwnQuietStep, OwnMove

LEMMA QuietOwns ==
    ASSUME IInv, OwnQuiet
    PROVE  UNCHANGED ownVars /\ \A p \in Procs : pc[p] \in DetachedPcs => pc'[p] \in DetachedPcs
<1> USE DEF Goto, Answer, Finish, tableVars, lifeVars, lockVars, queryVars, uploadVars,
       sessVars, dbVars, frameVars, callVars, vars, ownVars, DetachedPcs, TeardownPcs
<1>0. DOMAIN pc = Procs
  BY PcType
<1>1. ASSUME NEW w \in Workers, OwnQuietStep(w)
      PROVE UNCHANGED ownVars /\ \A p \in Procs : pc[p] \in DetachedPcs => pc'[p] \in DetachedPcs
  <2>1. UNCHANGED ownVars
    BY <1>1, ZenonT(30) DEF OwnQuietStep, Dispatch, PruneLock, PruneKeep, PruneDone,
           OpenExhausted, QueryOpenSql, UploadOpenSql, AddFails, OpenReply,
           AcquireLock, LockService, RemoveLock, LookupFails, CheckKind, FetchLock, FetchRun,
           SqlCall, FetchResult, CancelLock, AppendLock, AppendRun, CommitLock, CommitFlush,
           CommitTxn
  <2>2. /\ \A q \in Procs \ {w} : pc'[q] = pc[q]
        /\ pc[w] \in DetachedPcs => pc'[w] \in DetachedPcs
    <3>1. CASE CancelLock(w) \/ CommitLock(w) \/ CommitFlush(w) \/ CommitTxn(w)
      BY <1>0, <3>1 DEF CancelLock, CommitLock, CommitFlush, CommitTxn
    <3>2. CASE Dispatch(w) \/ PruneLock(w) \/ PruneKeep(w) \/ PruneDone(w) \/ OpenExhausted(w)
                  \/ QueryOpenSql(w) \/ UploadOpenSql(w) \/ AddFails(w) \/ OpenReply(w)
      <4>1. /\ pc[w] \notin DetachedPcs
            /\ \A q \in Procs \ {w} : pc'[q] = pc[q]
        BY <1>0, <3>2, ZenonT(30) DEF Dispatch, PruneLock, PruneKeep, PruneDone,
           OpenExhausted, QueryOpenSql, UploadOpenSql, AddFails, OpenReply
      <4> QED
        BY <4>1
    <3>3. CASE AcquireLock(w)
                  \/ RemoveLock(w) \/ LookupFails(w) \/ CheckKind(w) \/ FetchLock(w) \/ FetchRun(w)
                  \/ SqlCall(w) \/ FetchResult(w) \/ AppendLock(w) \/ AppendRun(w)
      <4>1. /\ pc[w] \notin DetachedPcs
            /\ \A q \in Procs \ {w} : pc'[q] = pc[q]
        BY <1>0, <3>3, ZenonT(30) DEF AcquireLock, LockService, RemoveLock, LookupFails, CheckKind, FetchLock,
             FetchRun, SqlCall, FetchResult, AppendLock, AppendRun
      <4> QED
        BY <4>1
    <3> QED
      BY <1>1, <3>1, <3>2, <3>3 DEF OwnQuietStep
  <2> QED
    BY <2>1, <2>2
<1>2. ASSUME NEW p \in Procs, Destroy(p) \/ DestroyUpload(p)
      PROVE UNCHANGED ownVars /\ \A q \in Procs : pc[q] \in DetachedPcs => pc'[q] \in DetachedPcs
  BY <1>0, <1>2 DEF Destroy, DestroyUpload
<1>3. ASSUME NEW s \in SessionIds, IdleExpires(s)
      PROVE UNCHANGED ownVars /\ \A q \in Procs : pc[q] \in DetachedPcs => pc'[q] \in DetachedPcs
  BY <1>3 DEF IdleExpires
<1>4. ASSUME StopFlag \/ StopDone \/ UNCHANGED vars
      PROVE UNCHANGED ownVars /\ \A q \in Procs : pc[q] \in DetachedPcs => pc'[q] \in DetachedPcs
  BY <1>0, <1>4 DEF StopFlag, StopDone
<1> HIDE DEF ownVars, DetachedPcs, vars
<1> QED
  BY <1>1, <1>2, <1>3, <1>4 DEF OwnQuiet

\* A new session's id was never used.
LEMMA FreshId ==
    ASSUME IInv, NEW w \in Workers, AddSession(w)
    PROVE  /\ nextId \in SessionIds /\ phase[nextId] = "absent" /\ scon[nextId] = None
           /\ nextId \notin sessions \cup doomed /\ \A p \in Procs : cur[p] # nextId
           /\ ~closing[nextId] /\ ocon[w] \in Conns
<1>1. nextId \in SessionIds /\ phase[nextId] = "absent"
  BY DEF AddSession, IInv, LifeInv
<1>2. ocon[w] \in Conns
  BY HeldConnection DEF AddSession, OpenConPcs
<1> QED
  BY <1>1, <1>2, ZenonT(30) DEF IInv, LifeInv

\* What a thread that frees a session has in its hands.
LEMMA FreeFrame ==
    ASSUME IInv, NEW p \in Procs, DestroyFree(p)
    PROVE  /\ cur[p] \in SessionIds /\ phase[cur[p]] = "live" /\ scon[cur[p]] \in Conns
           /\ pc[p] \in TeardownPcs /\ cur[p] \notin sessions \cup doomed
           /\ \A q \in Procs : q # p => cur[q] # cur[p]
<1>1. pc[p] \in TeardownPcs /\ pc[p] \in DetachedPcs
  BY DEF DestroyFree, TeardownPcs, DetachedPcs
<1>2. cur[p] \in SessionIds /\ phase[cur[p]] = "live" /\ scon[cur[p]] \in Conns
  BY <1>1, HeldSession
<1>3. cur[p] \notin sessions \cup doomed
  BY <1>1, <1>2, ZenonT(30) DEF IInv, DetachInv, LifeInv
<1>4. \A q \in Procs : q # p => cur[q] # cur[p]
  BY <1>1, TeardownAlone
<1> QED
  BY <1>1, <1>2, <1>3, <1>4

-----------------------------------------------------------------------------
(* What a request may do to the session it looked up                         *)

Controls == QueryControls \cup UploadControls
Family(op) == IF op \in UploadControls THEN "upload" ELSE "query"
FetchPcs == {"fetch_lock", "fetch_run", "sql_call", "fetch_result"}
AppendPcs == {"append_lock", "append_run"}
CommitPcs == {"commit_lock", "commit_flush", "commit_txn"}

\* Where a handler can be with its request, and what the kind check has told it.
RoleOK(w) ==
    /\ pc[w] \in {"open_con", "open_reply"} \cup OpenConPcs => Op(w) \in OpenOps
    /\ pc[w] \in {"acquire_lock", "acquire"} => Op(w) \notin OpenOps
    /\ pc[w] \in FetchPcs => Op(w) = "fetch"
    /\ pc[w] \in AppendPcs => Op(w) = "upload_append"
    /\ pc[w] = "check_kind" => Op(w) \in Controls
    /\ pc[w] \in RefPcs => cur[w] = tid[w]
    /\ pc[w] = "release" /\ Op(w) \in Controls /\ reply[w] # "error" =>
          kind[cur[w]] = Family(Op(w))
    /\ pc[w] \in {"remove_lock", "remove"} /\ Op(w) \notin OpenOps =>
          Op(w) \in Controls /\ kind[tid[w]] = Family(Op(w)) /\ phase[tid[w]] # "absent"
    /\ pc[w] = "cancel_lock" => kind[cur[w]] = "query"
    /\ pc[w] \in CommitPcs => kind[cur[w]] = "upload"

RoleInv == \A w \in Workers : RoleOK(w)

\* is_upload is written once.
KindKept == \A s \in SessionIds :
                phase[s] # "absent" => kind'[s] = kind[s] /\ phase'[s] # "absent"

LEMMA KindOnce == ASSUME IInv, [Next]_vars PROVE KindKept
<1> USE Domains DEF Goto, Answer, Finish, tableVars, lifeVars, lockVars, queryVars, uploadVars,
       sessVars, dbVars, frameVars, callVars, vars, KindKept
<1>1. CASE OwnQuiet
  BY <1>1, QuietOwns DEF ownVars
<1>2. ASSUME NEW w \in Workers, AddSession(w) PROVE KindKept
  BY <1>2, FreshId DEF AddSession
<1>3. ASSUME NEW p \in Procs, DestroyFree(p) PROVE KindKept
  BY <1>3 DEF DestroyFree
<1>4. ASSUME NEW w \in Workers, PruneRemove(w) \/ OpenAcquire(w) \/ OpenFail(w)
                                    \/ Acquire(w) \/ Release(w) \/ Remove(w)
      PROVE  UNCHANGED <<phase, kind>>
  BY <1>4, ZenonT(30) DEF PruneRemove, OpenAcquire, OpenFail, Acquire, Release, Remove
<1>5. ASSUME StopDetach \/ StopDestroy PROVE UNCHANGED <<phase, kind>>
  BY <1>5 DEF StopDetach, StopDestroy
<1> HIDE DEF vars
<1> QED
  BY <1>1, <1>2, <1>3, <1>4, <1>5, OwnCases DEF OwnMove

\* A handler keeps its role when another thread steps.
LEMMA RoleKept ==
    ASSUME IInv, NEW w \in Workers, RoleOK(w), FrameKept(w), KindKept
    PROVE  RoleOK(w)'
<1> USE DEF FrameKept, KindKept, Op
<1>1. pc[w] \in RefPcs \cup DetachedPcs => cur[w] \in SessionIds /\ phase[cur[w]] = "live"
  BY HeldSession
<1>2. pc[w] # "idle" => tid[w] \in SessionIds
  BY DEF IInv, FrameInv
<1>3. CASE pc'[w] = pc[w]
  <2>1. pc[w] \in RefPcs \cup DetachedPcs => kind'[cur[w]] = kind[cur[w]]
    BY <1>1
  <2>2. pc[w] = "release" => pc[w] \in RefPcs
    BY DEF RefPcs
  <2>3. pc[w] = "cancel_lock" \/ pc[w] \in CommitPcs => pc[w] \in DetachedPcs
    BY DEF CommitPcs, DetachedPcs
  <2> QED
    BY <1>2, <1>3, <2>1, <2>2, <2>3 DEF RoleOK
<1>4. CASE pc'[w] = "destroy"
  BY <1>4 DEF RoleOK, OpenConPcs, FetchPcs, AppendPcs, CommitPcs, RefPcs
<1> QED
  BY <1>3, <1>4

\* Control states that say nothing about the request.
LEMMA RoleFree ==
    ASSUME NEW w \in Workers,
           pc'[w] \in {"idle", "prune_lock", "prune_scan", "destroy"} \/ pc'[w] \in DetachedPcs,
           pc'[w] # "cancel_lock", pc'[w] \notin CommitPcs
    PROVE  RoleOK(w)'
BY DEF RoleOK, OpenConPcs, FetchPcs, AppendPcs, CommitPcs, RefPcs, DetachedPcs, TeardownPcs

LEMMA RequestOp == ASSUME NEW r \in Requests PROVE r.op \in Ops
BY ConstantsAssumption DEF ConstantsAssumption

\* A handler's own step keeps its role.
LEMMA RoleOwn ==
    ASSUME IInv, NEW w \in Workers, RoleOK(w), KindKept, Dispatch(w) \/ WorkerStep(w)
    PROVE  RoleOK(w)'
<1> USE Domains DEF Goto, Answer, Finish, tableVars, lifeVars, lockVars, queryVars, uploadVars,
       sessVars, dbVars, frameVars, callVars, Op
<1>0. /\ pc[w] \in RefPcs \cup DetachedPcs => cur[w] \in SessionIds /\ phase[cur[w]] = "live"
      /\ pc[w] # "idle" => tid[w] \in SessionIds /\ req[w] \in Requests
  BY HeldSession DEF IInv, FrameInv
<1>1. CASE Dispatch(w)
  <2>1. PICK r \in Requests : /\ req'[w] = r
                              /\ pc'[w] = IF PruneEnabled THEN "prune_lock" ELSE Entry(r)
    BY <1>1 DEF Dispatch
  <2> QED
    BY <2>1 DEF Entry, RoleOK, OpenConPcs, FetchPcs, AppendPcs, CommitPcs, RefPcs
<1>2. CASE PruneStep(w)
  <2>1. CASE PruneLock(w) \/ PruneKeep(w)
    <3>1. pc'[w] = "prune_scan"
      BY <2>1 DEF PruneLock, PruneKeep
    <3> QED
      BY <3>1, RoleFree DEF CommitPcs
  <2>2. CASE PruneRemove(w)
    <3>1. pc'[w] = "destroy"
      BY <2>2 DEF PruneRemove, Detach
    <3> QED
      BY <3>1, RoleFree DEF CommitPcs
  <2>3. CASE PruneDone(w)
    <3>1. pc'[w] = Entry(req[w]) /\ req'[w] = req[w]
      BY <2>3 DEF PruneDone
    <3> QED
      BY <3>1 DEF Entry, RoleOK, OpenConPcs, FetchPcs, AppendPcs, CommitPcs, RefPcs
  <2> QED
    BY <1>2, <2>1, <2>2, <2>3 DEF PruneStep
<1>3. CASE OpenStep(w)
  <2>1. pc[w] \in {"open_con", "open_reply"} \cup OpenConPcs
    BY <1>3, ZenonT(30) DEF OpenStep, OpenAcquire, OpenExhausted, QueryOpenSql, UploadOpenSql, AddSession,
           AddFails, OpenFail, OpenReply, OpenConPcs
  <2>2. req[w].op \in OpenOps
    BY <2>1 DEF RoleOK
  <2>3. \/ pc'[w] = "idle"
        \/ req'[w] = req[w] /\ pc'[w] \in {"open_reply", "remove_lock"} \cup OpenConPcs
    BY <1>3 DEF OpenStep, OpenAcquire, OpenExhausted, QueryOpenSql, UploadOpenSql, AddSession,
           AddFails, OpenFail, OpenReply, OpenConPcs
  <2> QED
    BY <2>2, <2>3 DEF RoleOK, OpenConPcs, FetchPcs, AppendPcs, CommitPcs, RefPcs
<1>4. CASE LookupStep(w)
  <2>1. CASE AcquireLock(w)
    <3>1. pc[w] = "acquire_lock" /\ pc'[w] = "acquire" /\ req'[w] = req[w]
      BY <2>1 DEF AcquireLock, LockService
    <3> QED
      BY <3>1 DEF RoleOK, OpenConPcs, FetchPcs, AppendPcs, CommitPcs, RefPcs
  <2>2. CASE RemoveLock(w)
    <3>1. /\ pc[w] = "remove_lock" /\ pc'[w] = "remove" /\ req'[w] = req[w] /\ tid'[w] = tid[w]
          /\ tid[w] \in SessionIds
      BY <1>0, <2>2 DEF RemoveLock, LockService
    <3> QED
      BY <3>1 DEF RoleOK, OpenConPcs, FetchPcs, AppendPcs, CommitPcs, RefPcs, KindKept
  <2>3. CASE LookupFails(w)
    <3>1. pc'[w] = "idle"
      BY <2>3 DEF LookupFails
    <3> QED
      BY <3>1, RoleFree DEF CommitPcs
  <2>4. CASE Acquire(w)
    <3>1. CASE closing[tid[w]]
      <4>1. pc'[w] = "idle"
        BY <2>4, <3>1 DEF Acquire
      <4> QED
        BY <4>1, RoleFree DEF CommitPcs
    <3>2. CASE ~closing[tid[w]]
      <4>1. /\ pc[w] = "acquire" /\ pc'[w] = AfterAcquire(req[w].op) /\ req'[w] = req[w]
            /\ tid'[w] = tid[w] /\ cur'[w] = tid[w]
        BY <2>4, <3>2 DEF Acquire
      <4>2. req[w].op \notin OpenOps /\ req[w].op \in Ops
        BY <1>0, <4>1, RequestOp DEF RoleOK
      <4>3. /\ pc'[w] \in {"fetch_lock", "append_lock", "check_kind"}
            /\ pc'[w] = "fetch_lock" => req[w].op = "fetch"
            /\ pc'[w] = "append_lock" => req[w].op = "upload_append"
            /\ pc'[w] = "check_kind" => req[w].op \in Controls
        BY <4>1, <4>2 DEF AfterAcquire, Controls, Ops
      <4> QED
        BY <4>1, <4>3 DEF RoleOK, OpenConPcs, FetchPcs, AppendPcs, CommitPcs, RefPcs
    <3> QED
      BY <3>1, <3>2
  <2>5. CASE CheckKind(w)
    <3>1. /\ pc[w] = "check_kind" /\ pc'[w] = "release" /\ req'[w] = req[w] /\ cur'[w] = cur[w]
          /\ tid'[w] = tid[w] /\ kind' = kind
          /\ reply'[w] = IF kind[cur[w]] = Family(req[w].op) THEN "none" ELSE "error"
      BY <2>5 DEF CheckKind, Family
    <3> QED
      BY <3>1 DEF RoleOK, OpenConPcs, FetchPcs, AppendPcs, CommitPcs, RefPcs
  <2>6. CASE Release(w)
    <3>1. pc[w] = "release" /\ kind' = kind /\ phase' = phase
      BY <2>6 DEF Release
    <3>2. CASE req[w].op \in Controls /\ reply[w] # "error"
      <4>1. pc'[w] = "remove_lock" /\ req'[w] = req[w] /\ tid'[w] = tid[w]
        BY <2>6, <3>2 DEF Release, Controls
      <4>2. cur[w] = tid[w] /\ kind[cur[w]] = Family(req[w].op) /\ phase[cur[w]] = "live"
        BY <1>0, <3>1, <3>2 DEF RoleOK, RefPcs
      <4> QED
        BY <3>1, <3>2, <4>1, <4>2 DEF RoleOK, OpenConPcs, FetchPcs, AppendPcs, CommitPcs, RefPcs
    <3>3. CASE ~(req[w].op \in Controls /\ reply[w] # "error")
      <4>1. pc'[w] = "idle"
        BY <2>6, <3>3 DEF Release, Controls
      <4> QED
        BY <4>1, RoleFree DEF CommitPcs
    <3> QED
      BY <3>2, <3>3
  <2>7. CASE Remove(w)
    <3>1. /\ pc[w] = "remove" /\ pc'[w] = AfterRemove(req[w].op) /\ cur'[w] = tid[w]
          /\ req'[w] = req[w] /\ kind' = kind
      BY <2>7 DEF Remove, Detach
    <3>2. CASE req[w].op = "cancel" \/ req[w].op = "upload_commit"
      <4>1. kind[tid[w]] = Family(req[w].op)
        BY <3>1, <3>2 DEF RoleOK, OpenOps
      <4> QED
        BY <3>1, <3>2, <4>1 DEF AfterRemove, Family, UploadControls,
             RoleOK, OpenConPcs, FetchPcs, AppendPcs, CommitPcs, RefPcs
    <3>3. CASE req[w].op # "cancel" /\ req[w].op # "upload_commit"
      <4>1. pc'[w] = "destroy"
        BY <3>1, <3>3 DEF AfterRemove
      <4> QED
        BY <4>1, RoleFree DEF CommitPcs
    <3> QED
      BY <3>2, <3>3
  <2> QED
    BY <1>4, <2>1, <2>2, <2>3, <2>4, <2>5, <2>6, <2>7 DEF LookupStep
<1>5. CASE FetchStep(w)
  <2>1. CASE CancelLock(w)
    <3>1. pc'[w] = "destroy"
      BY <2>1 DEF CancelLock
    <3> QED
      BY <3>1, RoleFree DEF CommitPcs
  <2>2. CASE FetchLock(w) \/ FetchRun(w) \/ SqlCall(w) \/ FetchResult(w)
    <3>1. /\ pc[w] \in FetchPcs /\ pc'[w] \in FetchPcs \cup {"release"}
          /\ req'[w] = req[w] /\ cur'[w] = cur[w] /\ tid'[w] = tid[w]
      BY <2>2 DEF FetchLock, FetchRun, SqlCall, FetchResult, FetchPcs
    <3>2. req[w].op = "fetch" /\ cur[w] = tid[w]
      BY <3>1 DEF RoleOK, FetchPcs, RefPcs
    <3> QED
      BY <3>1, <3>2 DEF RoleOK, OpenConPcs, FetchPcs, AppendPcs, CommitPcs, RefPcs, OpenOps,
           Controls, QueryControls, UploadControls
  <2> QED
    BY <1>5, <2>1, <2>2 DEF FetchStep
<1>6. CASE UploadStep(w)
  <2>1. CASE AppendLock(w) \/ AppendRun(w)
    <3>1. /\ pc[w] \in AppendPcs /\ pc'[w] \in {"append_run", "release"}
          /\ req'[w] = req[w] /\ cur'[w] = cur[w] /\ tid'[w] = tid[w]
      BY <2>1 DEF AppendLock, AppendRun, AppendPcs
    <3>2. req[w].op = "upload_append" /\ cur[w] = tid[w]
      BY <3>1 DEF RoleOK, AppendPcs, RefPcs
    <3> QED
      BY <3>1, <3>2 DEF RoleOK, OpenConPcs, FetchPcs, AppendPcs, CommitPcs, RefPcs, OpenOps,
           Controls, QueryControls, UploadControls
  <2>2. CASE CommitLock(w) \/ CommitFlush(w) \/ CommitTxn(w)
    <3>1. /\ pc[w] \in CommitPcs /\ pc'[w] \in CommitPcs \cup {"destroy"}
          /\ cur'[w] = cur[w] /\ kind' = kind
      BY <2>2 DEF CommitLock, CommitFlush, CommitTxn, CommitPcs
    <3> QED
      BY <3>1 DEF RoleOK, OpenConPcs, FetchPcs, AppendPcs, CommitPcs, RefPcs
  <2> QED
    BY <1>6, <2>1, <2>2 DEF UploadStep
<1>7. CASE DestroyStep(w)
  <2>1. pc'[w] \in {"destroy_wait", "destroy_upload", "destroy_free", "idle", "prune_lock"}
    <3>1. CASE Destroy(w) \/ DestroyUpload(w)
      BY <3>1 DEF Destroy, DestroyUpload
    <3>2. CASE DestroyFree(w)
      <4>1. ret[w] \in {"idle", "prune_lock"}
        BY DEF IInv, FrameInv
      <4> QED
        BY <3>2, <4>1 DEF DestroyFree
    <3> QED
      BY <1>7, <3>1, <3>2 DEF DestroyStep
  <2> QED
    BY <2>1, RoleFree DEF CommitPcs, DetachedPcs, TeardownPcs
<1> QED
  BY <1>1, <1>2, <1>3, <1>4, <1>5, <1>6, <1>7 DEF WorkerStep

LEMMA RoleStep == IInv /\ RoleInv /\ [Next]_vars => RoleInv'
<1> SUFFICES ASSUME IInv, RoleInv, [Next]_vars, NEW w \in Workers PROVE RoleOK(w)'
  BY DEF RoleInv
<1>0. RoleOK(w) /\ KindKept /\ w \in Procs /\ w # Stopper
  BY KindOnce DEF RoleInv
<1>1. CASE Dispatch(w) \/ WorkerStep(w)
  BY <1>0, <1>1, RoleOwn
<1>2. ASSUME NEW v \in Workers, v # w, Dispatch(v) \/ WorkerStep(v) PROVE RoleOK(w)'
  <2>1. FrameKept(w)
    BY <1>0, <1>2, WorkerFrames
  <2> QED
    BY <1>0, <2>1, RoleKept
<1>3. CASE StopFlag \/ StopperStep
  <2>1. FrameKept(w)
    BY <1>0, <1>3, StopperFrames
  <2> QED
    BY <1>0, <2>1, RoleKept
<1>4. CASE UNCHANGED vars \/ \E s \in SessionIds : IdleExpires(s)
  <2>1. FrameKept(w)
    BY <1>4 DEF vars, IdleExpires, callVars, frameVars, FrameKept
  <2> QED
    BY <1>0, <2>1, RoleKept
<1> QED
  BY <1>1, <1>2, <1>3, <1>4 DEF Next, Stopped

-----------------------------------------------------------------------------
(* The upload transaction                                                    *)

UpPcs == {"append_run", "destroy_free"} \cup CommitPcs

\* What an upload session holds: as long as its transaction is open nothing of it
\* is durable and its connection buffers every acknowledged row.
SessionUp(s) ==
    /\ phase[s] = "absent" => acked[s] = 0 /\ persisted[s] = 0
    /\ appender[s] => txn[s]
    /\ txn[s] => phase[s] = "live" /\ persisted[s] = 0 /\ acked[s] <= pendingRows[scon[s]]
    /\ persisted[s] > 0 => persisted[s] >= acked[s]
    /\ kind[s] = "upload" /\ s \in sessions \cup doomed => txn[s]

\* What the handlers that work on the transaction rely on.
ThreadUp(p) ==
    /\ pc[p] = "append_run" => appender[cur[p]]
    /\ pc[p] \in CommitPcs => txn[cur[p]]
    /\ pc[p] = "commit_txn" => ~appender[cur[p]]
    /\ pc[p] = "destroy_free" => ~txn[cur[p]]

\* Uncommitted rows belong to an open upload.
ConnectionUp(c) == pendingRows[c] > 0 => \E s \in SessionIds : scon[s] = c /\ txn[s]

UploadInv ==
    /\ \A s \in SessionIds : SessionUp(s)
    /\ \A p \in Procs : ThreadUp(p)
    /\ \A c \in Conns : ConnectionUp(c)

\* A step that leaves the uploads alone, or only hands one to a thread.
LEMMA UploadKept ==
    ASSUME UploadInv,
           UNCHANGED <<phase, kind, scon, appender, txn, acked, persisted, pendingRows>>,
           sessions' \cup doomed' \subseteq sessions \cup doomed,
           \A p \in Procs : pc'[p] \in UpPcs => \/ pc[p] = pc'[p] /\ cur'[p] = cur[p]
                                                \/ ThreadUp(p)'
    PROVE  UploadInv'
<1>1. \A s \in SessionIds : SessionUp(s)'
  <2> TAKE s \in SessionIds
  <2>1. SessionUp(s)
    BY DEF UploadInv
  <2> QED
    BY <2>1 DEF SessionUp
<1>2. \A p \in Procs : ThreadUp(p)'
  <2> TAKE p \in Procs
  <2>1. ThreadUp(p)
    BY DEF UploadInv
  <2>2. CASE pc'[p] \notin UpPcs
    BY <2>2 DEF ThreadUp, UpPcs, CommitPcs
  <2>3. CASE pc[p] = pc'[p] /\ cur'[p] = cur[p]
    BY <2>1, <2>3 DEF ThreadUp
  <2> QED
    BY <2>2, <2>3
<1>3. \A c \in Conns : ConnectionUp(c)'
  BY DEF UploadInv, ConnectionUp
<1> QED
  BY <1>1, <1>2, <1>3 DEF UploadInv

\* A thread's own step, or a step of another thread, seen from the uploads.
LEMMA UpFrame ==
    ASSUME NEW q \in Procs, FrameKept(q), pc'[q] \in UpPcs
    PROVE  pc[q] = pc'[q] /\ cur'[q] = cur[q]
BY DEF FrameKept, UpPcs, CommitPcs

\* The types of one upload's counters.
LEMMA UpTypes ==
    ASSUME IInv, NEW s \in SessionIds
    PROVE  /\ acked[s] \in Nat /\ persisted[s] \in Nat
           /\ appender[s] \in BOOLEAN /\ txn[s] \in BOOLEAN
           /\ scon[s] \in Conns => pendingRows[scon[s]] \in Nat
           /\ phase[s] = "live" => scon[s] \in Conns
<1>1. scon[s] \in Conns \cup {None} /\ (phase[s] = "live" => scon[s] # None)
  BY DEF IInv, TypeOK, SessionType, LifeInv
<1> QED
  BY <1>1 DEF IInv, TypeOK, DataType

UpQuietStep(w) ==
    \/ Dispatch(w) \/ PruneStep(w) \/ OpenAcquire(w) \/ OpenExhausted(w) \/ QueryOpenSql(w)
    \/ UploadOpenSql(w) \/ AddFails(w) \/ OpenFail(w) \/ OpenReply(w) \/ AcquireLock(w)
    \/ RemoveLock(w) \/ LookupFails(w) \/ Acquire(w) \/ CheckKind(w) \/ Release(w) \/ FetchStep(w)

upVars == <<phase, kind, scon, appender, txn, acked, persisted, pendingRows>>

LEMMA UpQuietFrame ==
    ASSUME IInv, NEW w \in Workers, UpQuietStep(w)
    PROVE  /\ UNCHANGED upVars /\ sessions' \cup doomed' \subseteq sessions \cup doomed
           /\ pc'[w] \notin UpPcs
<1> USE Domains DEF Goto, Answer, Finish, tableVars, lifeVars, lockVars, queryVars, uploadVars,
       sessVars, dbVars, frameVars, callVars, upVars
<1>1. CASE Dispatch(w)
  <2>1. PICK r \in Requests : pc'[w] = IF PruneEnabled THEN "prune_lock" ELSE Entry(r)
    BY <1>1 DEF Dispatch
  <2>2. pc'[w] \notin UpPcs
    BY <2>1 DEF Entry, UpPcs, CommitPcs
  <2> QED
    BY <1>1, <2>2, ZenonT(30) DEF Dispatch
<1>2. CASE PruneRemove(w)
  <2>1. UNCHANGED upVars /\ sessions' \subseteq sessions /\ doomed' = doomed
    BY <1>2 DEF PruneRemove, Detach
  <2>2. pc'[w] = "destroy"
    BY <1>2 DEF PruneRemove, Detach
  <2> QED
    BY <2>1, <2>2 DEF UpPcs, CommitPcs
<1>3. CASE PruneLock(w) \/ PruneKeep(w) \/ PruneDone(w)
  <2>1. UNCHANGED <<upVars, sessions, doomed>>
    BY <1>3, ZenonT(30) DEF PruneLock, PruneKeep, PruneDone
  <2>2. pc'[w] \in {"prune_scan", "open_con", "acquire_lock"}
    BY <1>3 DEF PruneLock, PruneKeep, PruneDone, Entry
  <2> QED
    BY <2>1, <2>2 DEF UpPcs, CommitPcs
<1>4. CASE OpenAcquire(w) \/ OpenExhausted(w) \/ QueryOpenSql(w) \/ UploadOpenSql(w)
             \/ AddFails(w) \/ OpenFail(w) \/ OpenReply(w)
  <2>1. UNCHANGED <<upVars, sessions, doomed>>
    BY <1>4, ZenonT(30) DEF OpenAcquire, OpenExhausted, QueryOpenSql, UploadOpenSql, AddFails, OpenFail,
         OpenReply
  <2>2. pc'[w] \in {"idle", "open_sql", "add", "open_release", "open_rollback", "remove_lock"}
    BY <1>4 DEF OpenAcquire, OpenExhausted, QueryOpenSql, UploadOpenSql, AddFails, OpenFail,
         OpenReply
  <2> QED
    BY <2>1, <2>2 DEF UpPcs, CommitPcs
<1>5. CASE AcquireLock(w) \/ RemoveLock(w) \/ LookupFails(w) \/ CheckKind(w) \/ Release(w)
  <2>1. UNCHANGED <<upVars, sessions, doomed>>
    BY <1>5, ZenonT(30) DEF AcquireLock, RemoveLock, LockService, LookupFails, CheckKind, Release
  <2>2. pc'[w] \in {"idle", "acquire", "remove", "release", "remove_lock"}
    BY <1>5 DEF AcquireLock, RemoveLock, LockService, LookupFails, CheckKind, Release
  <2> QED
    BY <2>1, <2>2 DEF UpPcs, CommitPcs
<1>6. CASE Acquire(w)
  <2>1. UNCHANGED <<upVars, sessions, doomed>>
    BY <1>6, ZenonT(30) DEF Acquire
  <2>2. pc'[w] = "idle" \/ pc'[w] = AfterAcquire(Op(w))
    BY <1>6 DEF Acquire
  <2> QED
    BY <2>1, <2>2 DEF AfterAcquire, UpPcs, CommitPcs
<1>7. CASE FetchStep(w)
  <2>1. UNCHANGED <<upVars, sessions, doomed>>
    BY <1>7, ZenonT(30) DEF FetchStep, FetchLock, FetchRun, SqlCall, FetchResult, CancelLock
  <2>2. pc'[w] \in {"release", "fetch_run", "fetch_result", "sql_call", "destroy"}
    BY <1>7 DEF FetchStep, FetchLock, FetchRun, SqlCall, FetchResult, CancelLock
  <2> QED
    BY <2>1, <2>2 DEF UpPcs, CommitPcs
<1> QED
  BY <1>1, <1>2, <1>3, <1>4, <1>5, <1>6, <1>7 DEF UpQuietStep, PruneStep

\* The transaction of cur[p] ends: by COMMIT, by ROLLBACK, or it had ended before.
LEMMA UploadEnds ==
    ASSUME IInv, UploadInv, ConnectionsOwnedOnce, NEW p \in Procs, pc[p] \in DetachedPcs,
           pc[p] \in TeardownPcs \/ ~appender[cur[p]],
           UNCHANGED <<phase, kind, scon, acked, sessions, doomed, cur>>,
           txn' = [txn EXCEPT ![cur[p]] = FALSE],
           appender' = [appender EXCEPT ![cur[p]] = FALSE],
           \A c \in Conns : pendingRows'[c] =
                IF c = scon[cur[p]] /\ txn[cur[p]] THEN 0 ELSE pendingRows[c],
           \A s \in SessionIds \ {cur[p]} : persisted'[s] = persisted[s],
           \/ persisted'[cur[p]] = persisted[cur[p]]
           \/ txn[cur[p]] /\ persisted'[cur[p]] = persisted[cur[p]] + pendingRows[scon[cur[p]]],
           pc'[p] \notin UpPcs \/ pc'[p] = "destroy_free", \A q \in Procs \ {p} : pc'[q] = pc[q]
    PROVE  UploadInv'
<1> DEFINE s == cur[p]
<1>0. /\ s \in SessionIds /\ phase[s] = "live" /\ scon[s] \in Conns
      /\ s \notin sessions \cup doomed
  <2>1. s \in SessionIds /\ phase[s] = "live" /\ scon[s] \in Conns
    BY HeldSession
  <2>2. s \notin sessions /\ s \notin doomed
    BY <2>1, ZenonT(30) DEF IInv, DetachInv, LifeInv
  <2> QED
    BY <2>1, <2>2
<1>a. DOMAIN txn = SessionIds /\ DOMAIN appender = SessionIds
  BY Domains
<1> HIDE DEF s
<1>b. /\ ~txn'[s] /\ ~appender'[s]
      /\ \A x \in SessionIds \ {s} : txn'[x] = txn[x] /\ appender'[x] = appender[x]
  BY <1>0, <1>a DEF s
<1>1. ASSUME NEW x \in SessionIds PROVE SessionUp(x)'
  <2>0. SessionUp(x)
    BY DEF UploadInv
  <2>1. CASE x = s
    <3>1. phase'[x] = "live" /\ x \notin sessions' \cup doomed' /\ ~txn'[x] /\ ~appender'[x]
      BY <1>0, <1>b, <2>1
    <3>2. persisted'[x] > 0 => persisted'[x] >= acked'[x]
      BY <1>0, <2>0, <2>1, UpTypes DEF SessionUp, s
    <3> QED
      BY <3>1, <3>2 DEF SessionUp
  <2>2. CASE x # s
    <3>1. txn[x] => scon[x] \in Conns /\ scon[x] # scon[s]
      <4>1. txn[x] => scon[x] \in Conns
        BY <2>0, UpTypes DEF SessionUp
      <4>2. scon[x] = scon[s] => scon[x] = None
        BY <1>0, <2>2 DEF ConnectionsOwnedOnce
      <4> QED
        BY <4>1, <4>2
    <3>2. txn[x] => pendingRows'[scon[x]] = pendingRows[scon[x]]
      BY <3>1 DEF s
    <3>3. persisted'[x] = persisted[x] /\ txn'[x] = txn[x] /\ appender'[x] = appender[x]
      BY <1>b, <2>2 DEF s
    <3> QED
      BY <2>0, <3>2, <3>3 DEF SessionUp
  <2> QED
    BY <2>1, <2>2
<1>2. ASSUME NEW q \in Procs PROVE ThreadUp(q)'
  <2>0. ThreadUp(q)
    BY DEF UploadInv
  <2>1. CASE q = p
    BY <1>b, <2>1 DEF ThreadUp, UpPcs, CommitPcs, s
  <2>2. CASE q # p
    <3>1. pc'[q] = pc[q] /\ cur'[q] = cur[q]
      BY <2>2
    <3>2. pc[q] \in UpPcs /\ pc[q] # "append_run" => cur[q] # s
      BY <2>2 DEF IInv, DetachInv, s, UpPcs, CommitPcs, DetachedPcs, TeardownPcs
    <3>3. pc[q] = "append_run" => cur[q] # s
      <4>1. pc[p] \in TeardownPcs => cur[q] # s
        BY <2>2, TeardownAlone DEF s
      <4> QED
        BY <2>0, <4>1 DEF ThreadUp, s
    <3>4. pc[q] \in UpPcs => cur[q] \in SessionIds
      BY HeldSession DEF UpPcs, CommitPcs, DetachedPcs, TeardownPcs, RefPcs
    <3>5. pc[q] \in UpPcs => txn'[cur[q]] = txn[cur[q]] /\ appender'[cur[q]] = appender[cur[q]]
      BY <1>b, <3>2, <3>3, <3>4
    <3> QED
      BY <2>0, <3>1, <3>5 DEF ThreadUp, UpPcs, CommitPcs
  <2> QED
    BY <2>1, <2>2
<1>3. ASSUME NEW c \in Conns, pendingRows'[c] > 0
      PROVE \E x \in SessionIds : scon'[x] = c /\ txn'[x]
  <2>1. pendingRows'[c] = pendingRows[c] /\ ~(c = scon[s] /\ txn[s])
    BY <1>3 DEF s
  <2>2. PICK x \in SessionIds : scon[x] = c /\ txn[x]
    BY <1>3, <2>1 DEF UploadInv, ConnectionUp
  <2> QED
    BY <1>b, <2>1, <2>2
<1> QED
  BY <1>1, <1>2, <1>3 DEF UploadInv, ConnectionUp

\* AddSession: a new upload starts with its transaction open and nothing sent.
LEMMA UploadAdd ==
    ASSUME IInv, UploadInv, NEW w \in Workers, AddSession(w)
    PROVE  UploadInv'
<1> USE Domains DEF Goto, lifeVars, lockVars, queryVars, dbVars
<1> DEFINE n == nextId
           up == Op(w) = "upload_open"
<1>0. /\ n \in SessionIds /\ phase[n] = "absent" /\ \A q \in Procs : cur[q] # n
      /\ n \notin sessions \cup doomed /\ ocon[w] \in Conns
  BY FreshId
<1>1. /\ phase' = [phase EXCEPT ![n] = "live"] /\ scon' = [scon EXCEPT ![n] = ocon[w]]
      /\ kind' = [kind EXCEPT ![n] = IF up THEN "upload" ELSE "query"]
      /\ appender' = [appender EXCEPT ![n] = up] /\ txn' = [txn EXCEPT ![n] = up]
      /\ sessions' = sessions \cup {n} /\ UNCHANGED <<doomed, acked, persisted, pendingRows, cur>>
      /\ pc' = [pc EXCEPT ![w] = "open_reply"]
  BY DEF AddSession
<1> HIDE DEF n, up
<1>2. /\ phase'[n] = "live" /\ txn'[n] = up /\ appender'[n] = up /\ scon'[n] = ocon[w]
      /\ kind'[n] = IF up THEN "upload" ELSE "query"
      /\ \A x \in SessionIds \ {n} :
            /\ phase'[x] = phase[x] /\ txn'[x] = txn[x] /\ appender'[x] = appender[x]
            /\ scon'[x] = scon[x] /\ kind'[x] = kind[x]
  BY <1>0, <1>1
<1>3. ASSUME NEW x \in SessionIds PROVE SessionUp(x)'
  <2>0. SessionUp(x)
    BY DEF UploadInv
  <2>1. CASE x = n
    <3>1. acked'[x] = 0 /\ persisted'[x] = 0
      BY <1>0, <1>1, <2>0, <2>1 DEF SessionUp
    <3>2. pendingRows'[ocon[w]] \in Nat
      BY <1>0, <1>1 DEF IInv, TypeOK, DataType
    <3> QED
      BY <1>2, <2>1, <3>1, <3>2 DEF SessionUp
  <2>2. CASE x # n
    <3>1. x \in sessions' \cup doomed' => x \in sessions \cup doomed
      BY <1>1, <2>2
    <3> QED
      BY <1>1, <1>2, <2>0, <2>2, <3>1 DEF SessionUp
  <2> QED
    BY <2>1, <2>2
<1>4. ASSUME NEW q \in Procs PROVE ThreadUp(q)'
  <2>0. ThreadUp(q)
    BY DEF UploadInv
  <2>1. CASE q = w
    BY <1>1, <2>1 DEF ThreadUp, CommitPcs
  <2>2. CASE q # w
    <3>1. pc'[q] = pc[q] /\ cur'[q] = cur[q] /\ cur[q] # n
      BY <1>0, <1>1, <2>2
    <3>2. pc[q] \in UpPcs => cur[q] \in SessionIds
      BY HeldSession DEF UpPcs, CommitPcs, DetachedPcs, TeardownPcs, RefPcs
    <3>3. pc[q] \in UpPcs => txn'[cur[q]] = txn[cur[q]] /\ appender'[cur[q]] = appender[cur[q]]
      BY <1>2, <3>1, <3>2
    <3> QED
      BY <2>0, <3>1, <3>3 DEF ThreadUp, UpPcs, CommitPcs
  <2> QED
    BY <2>1, <2>2
<1>5. ASSUME NEW c \in Conns, pendingRows'[c] > 0
      PROVE \E x \in SessionIds : scon'[x] = c /\ txn'[x]
  <2>1. PICK x \in SessionIds : scon[x] = c /\ txn[x]
    BY <1>1, <1>5 DEF UploadInv, ConnectionUp
  <2>2. x # n
    BY <1>0, <2>1 DEF UploadInv, SessionUp
  <2> QED
    BY <1>2, <2>1, <2>2
<1> QED
  BY <1>3, <1>4, <1>5 DEF UploadInv, ConnectionUp

\* AppendRun: the batch is buffered before it is acknowledged.
LEMMA UploadAppend ==
    ASSUME IInv, UploadInv, NEW w \in Workers, AppendRun(w)
    PROVE  UploadInv'
<1> USE Domains DEF Goto, Answer, tableVars, lifeVars, queryVars, frameVars, callVars
<1> DEFINE s == cur[w]
           c == scon[s]
<1>0. pc[w] = "append_run" /\ s \in SessionIds /\ c \in Conns /\ phase[s] = "live"
  BY HeldSession DEF AppendRun, RefPcs
<1>1. /\ UNCHANGED <<phase, kind, scon, appender, txn, persisted, sessions, doomed, cur>>
      /\ \A q \in Procs \ {w} : pc'[q] = pc[q]
      /\ pc'[w] = "release"
  BY DEF AppendRun
<1>2. txn[s] /\ SessionUp(s) /\ persisted[s] = 0
  BY <1>0 DEF UploadInv, ThreadUp, SessionUp
<1>3. pendingRows[c] \in Nat /\ acked[s] \in Nat
  BY <1>0, UpTypes
<1>4. /\ \A x \in SessionIds \ {s} : acked'[x] = acked[x]
      /\ \A d \in Conns \ {c} : pendingRows'[d] = pendingRows[d]
      /\ \/ acked'[s] = acked[s] + 1 /\ pendingRows'[c] = pendingRows[c] + 1
         \/ acked'[s] = acked[s] /\ pendingRows'[c] \in {pendingRows[c], pendingRows[c] + 1}
  BY <1>0 DEF AppendRun
<1> HIDE Domains DEF s, c
<1>5. ASSUME NEW x \in SessionIds PROVE SessionUp(x)'
  <2>0. SessionUp(x)
    BY DEF UploadInv
  <2>1. CASE x = s
    <3>1. acked'[s] <= pendingRows'[c]
      BY <1>2, <1>3, <1>4 DEF SessionUp, c
    <3> QED
      BY <1>0, <1>1, <1>2, <2>0, <2>1, <3>1 DEF SessionUp, c
  <2>2. CASE x # s
    <3>1. txn[x] => acked[x] <= pendingRows'[scon[x]]
      <4>1. txn[x] => phase[x] = "live" /\ acked[x] <= pendingRows[scon[x]]
        BY <2>0 DEF SessionUp
      <4>2. txn[x] => scon[x] \in Conns /\ pendingRows[scon[x]] \in Nat /\ acked[x] \in Nat
        BY <4>1, UpTypes
      <4> QED
        BY <1>3, <1>4, <4>1, <4>2
    <3> QED
      BY <1>1, <1>4, <2>0, <2>2, <3>1 DEF SessionUp
  <2> QED
    BY <2>1, <2>2
<1>6. ASSUME NEW q \in Procs PROVE ThreadUp(q)'
  <2>0. ThreadUp(q)
    BY DEF UploadInv
  <2> QED
    BY <1>1, <2>0 DEF ThreadUp, CommitPcs
<1>7. ASSUME NEW d \in Conns, pendingRows'[d] > 0
      PROVE \E x \in SessionIds : scon'[x] = d /\ txn'[x]
  <2>1. CASE d = c
    BY <1>0, <1>1, <1>2, <2>1 DEF c
  <2>2. CASE d # c
    BY <1>1, <1>4, <1>7, <2>2 DEF UploadInv, ConnectionUp
  <2> QED
    BY <2>1, <2>2
<1> QED
  BY <1>5, <1>6, <1>7 DEF UploadInv, ConnectionUp

\* CommitFlush: nobody appends while the committing thread has session->mu.
LEMMA UploadFlush ==
    ASSUME IInv, UploadInv, NEW w \in Workers, CommitFlush(w)
    PROVE  UploadInv'
<1> USE Domains DEF Goto, Answer, tableVars, lifeVars, queryVars, dbVars, frameVars, callVars
<1> DEFINE s == cur[w]
<1>0. pc[w] = "commit_flush" /\ s \in SessionIds
  BY HeldSession DEF CommitFlush, DetachedPcs
<1>1. /\ UNCHANGED <<phase, kind, scon, txn, acked, persisted, pendingRows, sessions, doomed, cur>>
      /\ \A q \in Procs \ {w} : pc'[q] = pc[q]
      /\ pc'[w] \in {"commit_txn", "destroy"} /\ appender' = [appender EXCEPT ![s] = FALSE]
  BY DEF CommitFlush
<1>2. \A q \in Procs \ {w} : pc[q] = "append_run" => cur[q] # s
  BY <1>0 DEF IInv, SessionLockInv, SessionLockPcs
<1> HIDE DEF s
<1>3. ~appender'[s] /\ \A x \in SessionIds \ {s} : appender'[x] = appender[x]
  BY <1>0, <1>1
<1>4. ASSUME NEW x \in SessionIds PROVE SessionUp(x)'
  <2>0. SessionUp(x)
    BY DEF UploadInv
  <2>1. appender'[x] => appender[x]
    BY <1>3
  <2> QED
    BY <1>1, <2>0, <2>1 DEF SessionUp
<1>5. ASSUME NEW q \in Procs PROVE ThreadUp(q)'
  <2>0. ThreadUp(q)
    BY DEF UploadInv
  <2>1. CASE q = w
    BY <1>0, <1>1, <1>3, <2>0, <2>1 DEF ThreadUp, CommitPcs, s
  <2>2. CASE q # w
    <3>1. pc'[q] = pc[q] /\ cur'[q] = cur[q]
      BY <1>1, <2>2
    <3>2. pc[q] \in UpPcs => cur[q] \in SessionIds
      BY HeldSession DEF UpPcs, CommitPcs, DetachedPcs, TeardownPcs, RefPcs
    <3>3. pc[q] = "append_run" => appender'[cur[q]] = appender[cur[q]]
      BY <1>2, <1>3, <2>2, <3>2 DEF UpPcs
    <3>4. pc[q] \in UpPcs /\ ~appender[cur[q]] => ~appender'[cur[q]]
      BY <1>3, <3>2
    <3> QED
      BY <1>1, <2>0, <3>1, <3>3, <3>4 DEF ThreadUp, UpPcs, CommitPcs
  <2> QED
    BY <2>1, <2>2
<1> QED
  BY <1>1, <1>4, <1>5 DEF UploadInv, ConnectionUp

\* DestroyFree: the freed session had no transaction any more.
LEMMA UploadFree ==
    ASSUME IInv, UploadInv, NEW p \in Procs, DestroyFree(p)
    PROVE  UploadInv'
<1> USE Domains DEF Goto, Answer, Finish, tableVars, lockVars, uploadVars
<1> DEFINE s == cur[p]
<1>0. /\ s \in SessionIds /\ s \notin sessions \cup doomed /\ pc[p] = "destroy_free"
      /\ \A q \in Procs : q # p => cur[q] # s
  BY FreeFrame DEF DestroyFree
<1>1. /\ UNCHANGED <<kind, txn, appender, acked, persisted, pendingRows, sessions, doomed>>
      /\ \A q \in Procs \ {p} : pc'[q] = pc[q] /\ cur'[q] = cur[q]
      /\ phase' = [phase EXCEPT ![s] = "freed"] /\ scon' = [scon EXCEPT ![s] = None]
  BY DEF DestroyFree
<1>2. pc'[p] \notin UpPcs
  BY PcType DEF DestroyFree, UpPcs, CommitPcs
<1>3. ~txn[s]
  BY <1>0 DEF UploadInv, ThreadUp
<1> HIDE DEF s
<1>4. /\ phase'[s] = "freed"
      /\ \A x \in SessionIds \ {s} : phase'[x] = phase[x] /\ scon'[x] = scon[x]
  BY <1>0, <1>1
<1>5. ASSUME NEW x \in SessionIds PROVE SessionUp(x)'
  <2>0. SessionUp(x)
    BY DEF UploadInv
  <2> QED
    BY <1>0, <1>1, <1>3, <1>4, <2>0 DEF SessionUp
<1>6. ASSUME NEW q \in Procs PROVE ThreadUp(q)'
  <2>0. ThreadUp(q)
    BY DEF UploadInv
  <2> QED
    BY <1>1, <1>2, <2>0 DEF ThreadUp, UpPcs, CommitPcs
<1>7. ASSUME NEW c \in Conns PROVE ConnectionUp(c)'
  <2> HIDE Domains
  <2>1. ConnectionUp(c) /\ pendingRows'[c] = pendingRows[c]
    BY <1>1 DEF UploadInv
  <2>2. \A x \in SessionIds : txn[x] => txn'[x] /\ scon'[x] = scon[x]
    BY <1>1, <1>3, <1>4
  <2> QED
    BY <2>1, <2>2 DEF ConnectionUp
<1> QED
  BY <1>5, <1>6, <1>7 DEF UploadInv

\* Every step keeps the uploads whole.
LEMMA UploadInvStep ==
    IInv /\ ConnectionsOwnedOnce /\ RoleInv /\ UploadInv /\ [Next]_vars => UploadInv'
<1> SUFFICES ASSUME IInv, ConnectionsOwnedOnce, RoleInv, UploadInv PROVE [Next]_vars => UploadInv'
  OBVIOUS
<1> USE Domains DEF Goto, Answer, Finish, tableVars, lifeVars, lockVars, queryVars, uploadVars,
       sessVars, dbVars, frameVars, callVars, vars
<1>1. ASSUME NEW w \in Workers, UpQuietStep(w) PROVE UploadInv'
  <2>1. Dispatch(w) \/ WorkerStep(w)
    BY <1>1 DEF UpQuietStep, WorkerStep, OpenStep, LookupStep
  <2>2. \A q \in Procs \ {w} : pc'[q] \in UpPcs => pc[q] = pc'[q] /\ cur'[q] = cur[q]
    BY <2>1, WorkerFrames, UpFrame
  <2> QED
    BY <1>1, <2>2, UpQuietFrame, UploadKept DEF upVars
<1>2. ASSUME NEW w \in Workers, AddSession(w) \/ AppendRun(w) \/ CommitFlush(w) PROVE UploadInv'
  BY <1>2, UploadAdd, UploadAppend, UploadFlush
<1>3. ASSUME NEW w \in Workers, Remove(w) PROVE UploadInv'
  <2>1. /\ UNCHANGED upVars /\ UNCHANGED doomed /\ tid[w] \in sessions /\ pc[w] = "remove"
        /\ sessions' = sessions \ {tid[w]} /\ cur'[w] = tid[w] /\ pc'[w] = AfterRemove(Op(w))
        /\ \A q \in Procs \ {w} : pc'[q] = pc[q] /\ cur'[q] = cur[q]
    BY <1>3 DEF Remove, Detach, upVars
  <2>2. ThreadUp(w)'
    <3>1. CASE Op(w) = "upload_commit"
      <4>1. kind[tid[w]] = "upload"
        BY <2>1, <3>1 DEF RoleInv, RoleOK, OpenOps, Family, UploadControls
      <4>2. tid[w] \in SessionIds
        BY <2>1 DEF IInv, TypeOK, TableType
      <4>3. txn[tid[w]]
        BY <2>1, <4>1, <4>2 DEF UploadInv, SessionUp
      <4> QED
        BY <2>1, <3>1, <4>3 DEF AfterRemove, ThreadUp, CommitPcs, upVars
    <3>2. CASE Op(w) # "upload_commit"
      BY <2>1, <3>2 DEF AfterRemove, ThreadUp, CommitPcs
    <3> QED
      BY <3>1, <3>2
  <2> QED
    BY <2>1, <2>2, UploadKept DEF upVars
<1>4. ASSUME NEW w \in Workers, AppendLock(w) \/ CommitLock(w) PROVE UploadInv'
  <2>1. /\ UNCHANGED upVars /\ UNCHANGED <<sessions, doomed, cur>>
        /\ \A q \in Procs \ {w} : pc'[q] = pc[q]
    BY <1>4 DEF AppendLock, CommitLock, upVars
  <2>2. ThreadUp(w)'
    <3>1. CASE AppendLock(w)
      <4>1. pc'[w] = "release" \/ (pc'[w] = "append_run" /\ appender[cur[w]])
        BY <3>1 DEF AppendLock
      <4>2. appender' = appender /\ cur' = cur
        BY <2>1 DEF upVars
      <4> QED
        BY <4>1, <4>2 DEF ThreadUp, CommitPcs
    <3>2. CASE CommitLock(w)
      <4>1. pc[w] = "commit_lock" /\ pc'[w] = "commit_flush"
        BY <3>2 DEF CommitLock
      <4> QED
        BY <2>1, <4>1 DEF UploadInv, ThreadUp, CommitPcs, upVars
    <3> QED
      BY <1>4, <3>1, <3>2
  <2> QED
    BY <2>1, <2>2, UploadKept DEF upVars
<1>5. ASSUME NEW w \in Workers, CommitTxn(w) PROVE UploadInv'
  <2>1. /\ pc[w] = "commit_txn" /\ pc'[w] = "destroy" /\ \A q \in Procs \ {w} : pc'[q] = pc[q]
        /\ UNCHANGED <<phase, kind, scon, acked, sessions, doomed, cur, appender>>
        /\ txn' = [txn EXCEPT ![cur[w]] = FALSE]
    BY <1>5 DEF CommitTxn
  <2>2. txn[cur[w]] /\ ~appender[cur[w]]
    BY <2>1 DEF UploadInv, ThreadUp, CommitPcs
  <2>3. cur[w] \in SessionIds
    BY <2>1, HeldSession DEF DetachedPcs
  <2>4. appender' = [appender EXCEPT ![cur[w]] = FALSE]
    <3>1. appender \in [SessionIds -> BOOLEAN]
      BY DEF IInv, TypeOK, DataType
    <3> QED
      BY <2>1, <2>2, <2>3, <3>1
  <2>5. \A c \in Conns : pendingRows'[c] = IF c = scon[cur[w]] /\ txn[cur[w]] THEN 0 ELSE pendingRows[c]
    BY <1>5, <2>2 DEF CommitTxn
  <2>6. /\ \A s \in SessionIds \ {cur[w]} : persisted'[s] = persisted[s]
        /\ \/ persisted'[cur[w]] = persisted[cur[w]]
           \/ persisted'[cur[w]] = persisted[cur[w]] + pendingRows[scon[cur[w]]]
    BY <1>5, <2>3 DEF CommitTxn
  <2>7. pc[w] \in DetachedPcs /\ pc'[w] \notin UpPcs
    BY <2>1 DEF DetachedPcs, UpPcs, CommitPcs
  <2> QED
    BY <2>1, <2>2, <2>4, <2>5, <2>6, <2>7, UploadEnds
<1>6. ASSUME NEW p \in Procs, Destroy(p) PROVE UploadInv'
  <2>1. /\ UNCHANGED upVars /\ UNCHANGED <<sessions, doomed, cur>>
        /\ pc'[p] \in {"destroy_wait", "destroy_upload"}
        /\ \A q \in Procs \ {p} : pc'[q] = pc[q]
    BY <1>6 DEF Destroy, upVars
  <2> QED
    BY <2>1, UploadKept DEF upVars, UpPcs, CommitPcs
<1>7. ASSUME NEW p \in Procs, DestroyUpload(p) PROVE UploadInv'
  <2>1. /\ pc[p] = "destroy_upload" /\ pc'[p] = "destroy_free"
        /\ \A q \in Procs \ {p} : pc'[q] = pc[q]
        /\ UNCHANGED <<phase, kind, scon, acked, sessions, doomed, cur, persisted>>
        /\ appender' = [appender EXCEPT ![cur[p]] = FALSE]
    BY <1>7 DEF DestroyUpload
  <2>2. pc[p] \in DetachedPcs /\ pc[p] \in TeardownPcs
    BY <2>1 DEF DetachedPcs, TeardownPcs
  <2>3. cur[p] \in SessionIds
    BY <2>2, HeldSession
  <2>4. txn' = [txn EXCEPT ![cur[p]] = FALSE]
    <3>1. txn \in [SessionIds -> BOOLEAN]
      BY DEF IInv, TypeOK, DataType
    <3> QED
      BY <1>7, <2>3, <3>1 DEF DestroyUpload
  <2>5. \A c \in Conns : pendingRows'[c] = IF c = scon[cur[p]] /\ txn[cur[p]] THEN 0 ELSE pendingRows[c]
    <3>1. IF txn[cur[p]] THEN pendingRows' = [pendingRows EXCEPT ![scon[cur[p]]] = 0]
                         ELSE pendingRows' = pendingRows
      BY <1>7, ZenonT(30) DEF DestroyUpload
    <3> QED
      BY <3>1
  <2> QED
    BY <2>1, <2>2, <2>4, <2>5, UploadEnds
<1>8. ASSUME NEW p \in Procs, DestroyFree(p) PROVE UploadInv'
  BY <1>8, UploadFree
<1>9. ASSUME NEW s \in SessionIds, IdleExpires(s) PROVE UploadInv'
  <2>1. UNCHANGED <<upVars, sessions, doomed, cur, pc>>
    BY <1>9 DEF IdleExpires, upVars
  <2> QED
    BY <2>1, UploadKept DEF upVars
<1>10. ASSUME StopFlag \/ StopDetach \/ StopDestroy \/ StopDone \/ UNCHANGED vars PROVE UploadInv'
  <2>1. UNCHANGED upVars
    BY <1>10, ZenonT(30) DEF StopFlag, StopDetach, StopDestroy, StopDone, upVars
  <2>2. sessions' \cup doomed' \subseteq sessions \cup doomed
    BY <1>10 DEF StopFlag, StopDetach, StopDestroy, StopDone
  <2>3. \A q \in Procs : pc'[q] \in UpPcs => pc[q] = pc'[q] /\ cur'[q] = cur[q]
    <3>1. CASE StopFlag \/ StopDetach \/ StopDone \/ UNCHANGED vars
      <4>1. /\ cur' = cur
            /\ \/ Goto(Stopper, "stop_join") \/ Goto(Stopper, "stop_next")
               \/ Goto(Stopper, "stopped") \/ pc' = pc
        BY <3>1, ZenonT(30) DEF StopFlag, StopDetach, StopDone
      <4> QED
        BY <4>1 DEF UpPcs, CommitPcs
    <3>2. CASE StopDestroy
      BY <3>2 DEF StopDestroy, UpPcs, CommitPcs
    <3> QED
      BY <1>10, <3>1, <3>2
  <2> QED
    BY <2>1, <2>2, <2>3, UploadKept DEF upVars
<1> HIDE DEF vars
<1> QED
  BY <1>1, <1>2, <1>3, <1>4, <1>5, <1>6, <1>7, <1>8, <1>9, <1>10
  DEF Next, WorkerStep, OpenStep, LookupStep, UploadStep, DestroyStep, StopperStep, Stopped,
      UpQuietStep
=============================================================================
