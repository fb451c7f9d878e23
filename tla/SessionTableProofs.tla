------------------------- MODULE SessionTableProofs -------------------------
(***************************************************************************)
(* Theorems about SessionTable for every number of workers, sessions and   *)
(* connections and every set of requests.  IInv carries the ones about     *)
(* memory; OwnInv those about responsibility, limits and stop; RoleInv,    *)
(* UploadInv and TxnInv those about uploads and transactions.              *)
(***************************************************************************)
EXTENDS SessionTableLocks, SessionTableUploads

USE Constants

\* The initial states satisfy the part of IInv that counts nothing.
LEMMA InitShape ==
    ASSUME Init
    PROVE  TypeOK /\ FrameInv /\ ServiceLockInv /\ SessionLockInv /\ LifeInv /\ DetachInv
<1>1. TypeOK
  <2>1. nextId \in 1 .. MaxSessionId + 1
    BY DEF Init
  <2>5. TableType
    BY <2>1, ZenonT(30) DEF Init, TableType
  <2>2. SessionType
    BY DEF Init, SessionType
  <2>3. DataType
    BY DEF Init, DataType
  <2>4. ThreadType
    BY DEF Init, ThreadType, Pcs, PlainPcs
  <2> QED
    BY <2>2, <2>3, <2>4, <2>5 DEF TypeOK
<1>2. FrameInv
  BY DEF Init, FrameInv, StopperPcs, RefPcs, DetachedPcs, TeardownPcs, OpenConPcs
<1>7. ServiceLockInv
  BY DEF Init, ServiceLockInv, ServiceLockPcs
<1>4. SessionLockInv
  BY DEF Init, SessionLockInv, SessionLockPcs
<1>5. LifeInv
  <2>1. nextId = 1 /\ sessions = {} /\ doomed = {} /\ \A p \in Procs : cur[p] = None
    BY DEF Init
  <2>2. \A s \in SessionIds : phase[s] = "absent" /\ ~closing[s] /\ scon[s] = None
    BY DEF Init
  <2> QED
    BY <2>1, <2>2 DEF LifeInv, SessionIds
<1>6. DetachInv
  BY DEF Init, DetachInv, DetachedPcs, TeardownPcs
<1> QED
  BY <1>1, <1>2, <1>4, <1>5, <1>6, <1>7

-----------------------------------------------------------------------------
(* Who is responsible for a session and who owns a connection                *)

\* A live session that left the table, and that service_stop has not put on its
\* list, has a thread that will destroy it.
Attended ==
    \A s \in SessionIds : phase[s] = "live" /\ s \notin sessions \cup doomed =>
        \E p \in Procs : cur[p] = s /\ pc[p] \in DetachedPcs

LEMMA AttendedKept ==
    ASSUME Attended,
           \A s \in SessionIds : phase'[s] = "live" /\ s \notin sessions' \cup doomed' =>
                \/ phase[s] = "live" /\ s \notin sessions \cup doomed
                \/ \E p \in Procs : cur'[p] = s /\ pc'[p] \in DetachedPcs,
           \A p \in Procs : pc[p] \in DetachedPcs =>
                \/ cur'[p] = cur[p] /\ pc'[p] \in DetachedPcs
                \/ phase'[cur[p]] # "live"
    PROVE  Attended'
BY ZenonT(30) DEF Attended

\* The step keeps every detached session with a thread.
LEMMA AttendedStep == IInv /\ Attended /\ StopInv /\ [Next]_vars => Attended'
<1> SUFFICES ASSUME IInv, Attended, StopInv PROVE OwnQuiet \/ OwnMove => Attended'
  BY OwnCases
<1> USE Domains DEF Goto, Answer, Finish, tableVars, lifeVars, lockVars, queryVars, uploadVars,
       sessVars, dbVars, frameVars, callVars, vars
<1>1. ASSUME OwnQuiet PROVE Attended'
  BY <1>1, QuietOwns, AttendedKept DEF ownVars
<1>2. ASSUME NEW w \in Workers, PruneRemove(w) PROVE Attended'
  <2>1. PICK s \in sessions : Detach(w, s, "destroy")
    BY <1>2 DEF PruneRemove
  <2>2. UNCHANGED <<phase, doomed>> /\ pc[w] = "prune_scan"
    BY <1>2 DEF PruneRemove
  <2> QED
    BY <2>1, <2>2, AttendedKept DEF Detach, DetachedPcs, TeardownPcs
<1>3. ASSUME NEW w \in Workers, OpenAcquire(w) \/ OpenFail(w) PROVE Attended'
  <2>1. UNCHANGED <<phase, sessions, doomed, cur>>
    BY <1>3 DEF OpenAcquire, OpenFail
  <2>2. pc[w] \notin DetachedPcs /\ \A q \in Procs \ {w} : pc'[q] = pc[q]
    BY <1>3 DEF OpenAcquire, OpenFail, DetachedPcs, TeardownPcs
  <2> QED
    BY <2>1, <2>2, AttendedKept
<1>4. ASSUME NEW w \in Workers, AddSession(w) PROVE Attended'
  <2>1. /\ \A s \in SessionIds : s # nextId => phase'[s] = phase[s]
        /\ sessions' = sessions \cup {nextId} /\ UNCHANGED <<doomed, cur>>
    BY <1>4 DEF AddSession
  <2>2. pc[w] \notin DetachedPcs /\ \A q \in Procs \ {w} : pc'[q] = pc[q]
    BY <1>4 DEF AddSession, DetachedPcs, TeardownPcs
  <2> QED
    BY <2>1, <2>2, AttendedKept
<1>5. ASSUME NEW w \in Workers, Acquire(w) PROVE Attended'
  <2>1. UNCHANGED <<phase, sessions, doomed>> /\ \A q \in Procs \ {w} : cur'[q] = cur[q]
    BY <1>5 DEF Acquire
  <2>2. pc[w] \notin DetachedPcs /\ \A q \in Procs \ {w} : pc'[q] = pc[q]
    BY <1>5 DEF Acquire, DetachedPcs, TeardownPcs
  <2> QED
    BY <2>1, <2>2, AttendedKept
<1>6. ASSUME NEW w \in Workers, Release(w) PROVE Attended'
  <2>1. UNCHANGED <<phase, sessions, doomed>> /\ \A q \in Procs \ {w} : cur'[q] = cur[q]
    BY <1>6 DEF Release
  <2>2. pc[w] \notin DetachedPcs
    BY <1>6 DEF Release, DetachedPcs, TeardownPcs
  <2>3. \A q \in Procs \ {w} : pc[q] \in DetachedPcs => pc'[q] \in DetachedPcs
    BY <1>6 DEF Release, DetachedPcs, TeardownPcs
  <2> QED
    BY <2>1, <2>2, <2>3, AttendedKept
<1>7. ASSUME NEW w \in Workers, Remove(w) PROVE Attended'
  <2>1. AfterRemove(Op(w)) \in DetachedPcs
    BY DEF AfterRemove, DetachedPcs
  <2>2. UNCHANGED <<phase, doomed>> /\ pc[w] = "remove" /\ Detach(w, tid[w], AfterRemove(Op(w)))
    BY <1>7 DEF Remove
  <2>3. sessions' = sessions \ {tid[w]} /\ cur'[w] = tid[w] /\ pc'[w] \in DetachedPcs
    BY <2>1, <2>2 DEF Detach
  <2>4. \A q \in Procs \ {w} : pc'[q] = pc[q] /\ cur'[q] = cur[q]
    BY <2>2 DEF Detach
  <2>5. pc[w] \notin DetachedPcs
    BY <2>2 DEF DetachedPcs, TeardownPcs
  <2> QED
    BY <2>2, <2>3, <2>4, <2>5, AttendedKept
<1>8. ASSUME NEW p \in Procs, DestroyFree(p) PROVE Attended'
  <2>1. /\ \A s \in SessionIds : s # cur[p] => phase'[s] = phase[s]
        /\ phase'[cur[p]] = "freed" /\ UNCHANGED <<sessions, doomed>>
    BY <1>8, FreeFrame DEF DestroyFree
  <2>2. \A q \in Procs \ {p} : pc'[q] = pc[q] /\ cur'[q] = cur[q]
    BY <1>8 DEF DestroyFree
  <2> QED
    BY <2>1, <2>2, AttendedKept
<1>9. ASSUME StopDetach PROVE Attended'
  <2>1. UNCHANGED <<phase, cur>> /\ doomed' = sessions
    BY <1>9 DEF StopDetach
  <2>2. \A p \in Procs : pc[p] \notin DetachedPcs
    BY <1>9 DEF StopDetach, DetachedPcs, TeardownPcs
  <2>3. \A s \in SessionIds : phase[s] = "live" => s \in sessions \cup doomed
    BY <2>2 DEF Attended
  <2>4. doomed = {}
    BY <1>9 DEF StopDetach, StopInv
  <2> QED
    BY <2>1, <2>2, <2>3, <2>4 DEF Attended
<1>10. ASSUME StopDestroy PROVE Attended'
  <2>1. PICK s \in doomed : cur' = [cur EXCEPT ![Stopper] = s] /\ doomed' = doomed \ {s}
    BY <1>10 DEF StopDestroy
  <2>2. UNCHANGED <<phase, sessions>> /\ pc[Stopper] = "stop_next" /\ Goto(Stopper, "destroy")
    BY <1>10 DEF StopDestroy
  <2> QED
    BY <2>1, <2>2, AttendedKept DEF DetachedPcs, TeardownPcs
<1> QED
  BY <1>1, <1>2, <1>3, <1>4, <1>5, <1>6, <1>7, <1>8, <1>9, <1>10 DEF OwnMove

LEMMA ConnectionsKept ==
    ASSUME ConnectionsOwnedOnce, UNCHANGED <<busy, ocon, scon>> PROVE ConnectionsOwnedOnce'
BY DEF ConnectionsOwnedOnce

\* The step keeps the pool's books: one owner for every busy connection.
LEMMA ConnectionsStep == IInv /\ ConnectionsOwnedOnce /\ [Next]_vars => ConnectionsOwnedOnce'
<1> SUFFICES ASSUME IInv, ConnectionsOwnedOnce PROVE OwnQuiet \/ OwnMove => ConnectionsOwnedOnce'
  BY OwnCases
<1> USE Domains DEF Goto, Answer, Finish, tableVars, lifeVars, lockVars, queryVars, uploadVars,
       sessVars, dbVars, frameVars, callVars, vars
<1>1. ASSUME OwnQuiet PROVE ConnectionsOwnedOnce'
  BY <1>1, QuietOwns, ConnectionsKept DEF ownVars
<1>2. ASSUME NEW w \in Workers, PruneRemove(w) \/ Acquire(w) \/ Release(w) \/ Remove(w)
      PROVE ConnectionsOwnedOnce'
  <2>1. UNCHANGED <<busy, ocon, scon>>
    BY <1>2, ZenonT(30) DEF PruneRemove, Acquire, Release, Remove
  <2> QED
    BY <2>1, ConnectionsKept
<1>3. ASSUME StopDetach \/ StopDestroy PROVE ConnectionsOwnedOnce'
  <2>1. UNCHANGED <<busy, ocon, scon>>
    BY <1>3 DEF StopDetach, StopDestroy
  <2> QED
    BY <2>1, ConnectionsKept
<1>4. ASSUME NEW w \in Workers, OpenAcquire(w) PROVE ConnectionsOwnedOnce'
  <2>1. PICK c \in Conns \ busy : busy' = busy \cup {c} /\ ocon' = [ocon EXCEPT ![w] = c]
    BY <1>4 DEF OpenAcquire
  <2>2. UNCHANGED scon /\ ocon[w] = None
    BY <1>4 DEF OpenAcquire, IInv, FrameInv, OpenConPcs
  <2>3. \A p \in Procs : ocon'[p] = IF p = w THEN c ELSE ocon[p]
    BY <2>1
  <2>4. (\A p \in Procs : ocon[p] # c) /\ (\A s \in SessionIds : scon[s] # c)
    BY <2>1 DEF ConnectionsOwnedOnce
  <2>5. ASSUME NEW d \in Conns
        PROVE  d \in busy' <=> (\E p \in Procs : ocon'[p] = d) \/ (\E s \in SessionIds : scon'[s] = d)
    <3>1. CASE d = c
      BY <2>1, <2>3, <3>1
    <3>2. CASE d # c
      <4>1. d \in busy <=> (\E p \in Procs : ocon[p] = d) \/ (\E s \in SessionIds : scon[s] = d)
        BY DEF ConnectionsOwnedOnce
      <4>2. (\E p \in Procs : ocon'[p] = d) <=> (\E p \in Procs : ocon[p] = d)
        BY <2>2, <2>3, <3>2
      <4> QED
        BY <2>1, <2>2, <3>2, <4>1, <4>2
    <3> QED
      BY <3>1, <3>2
  <2>6. \A p, q \in Procs : ocon'[p] = ocon'[q] /\ ocon'[p] # None => p = q
    BY <2>3, <2>4 DEF ConnectionsOwnedOnce
  <2>7. \A p \in Procs, s \in SessionIds : ocon'[p] = scon'[s] => ocon'[p] = None
    BY <2>2, <2>3, <2>4 DEF ConnectionsOwnedOnce
  <2> QED
    BY <2>2, <2>5, <2>6, <2>7 DEF ConnectionsOwnedOnce
<1>5. ASSUME NEW w \in Workers, AddSession(w) PROVE ConnectionsOwnedOnce'
  <2>1. /\ \A s \in SessionIds : scon'[s] = IF s = nextId THEN ocon[w] ELSE scon[s]
        /\ \A p \in Procs : ocon'[p] = IF p = w THEN None ELSE ocon[p]
        /\ UNCHANGED busy
    BY <1>5 DEF AddSession
  <2>2. nextId \in SessionIds /\ scon[nextId] = None /\ ocon[w] \in Conns
    BY <1>5, FreshId
  <2> QED
    BY <2>1, <2>2 DEF ConnectionsOwnedOnce
<1>6. ASSUME NEW w \in Workers, OpenFail(w) PROVE ConnectionsOwnedOnce'
  <2>1. /\ \A p \in Procs : ocon'[p] = IF p = w THEN None ELSE ocon[p]
        /\ busy' = busy \ {ocon[w]} /\ UNCHANGED scon
    BY <1>6 DEF OpenFail
  <2>2. ocon[w] \in Conns
    BY <1>6, HeldConnection DEF OpenFail, OpenConPcs
  <2> QED
    BY <2>1, <2>2 DEF ConnectionsOwnedOnce
<1>7. ASSUME NEW p \in Procs, DestroyFree(p) PROVE ConnectionsOwnedOnce'
  <2>1. /\ \A s \in SessionIds : scon'[s] = IF s = cur[p] THEN None ELSE scon[s]
        /\ busy' = busy \ {scon[cur[p]]} /\ UNCHANGED ocon
    BY <1>7 DEF DestroyFree
  <2>2. cur[p] \in SessionIds /\ scon[cur[p]] \in Conns
    BY <1>7, FreeFrame
  <2>3. ASSUME NEW d \in Conns
        PROVE  d \in busy' <=> (\E q \in Procs : ocon'[q] = d) \/ (\E s \in SessionIds : scon'[s] = d)
    <3>1. d \in busy <=> (\E q \in Procs : ocon[q] = d) \/ (\E s \in SessionIds : scon[s] = d)
      BY DEF ConnectionsOwnedOnce
    <3>2. CASE d = scon[cur[p]]
      <4>1. \A q \in Procs : ocon[q] # d
        BY <2>2, <3>2 DEF ConnectionsOwnedOnce
      <4>2. \A s \in SessionIds : s # cur[p] => scon[s] # d
        BY <2>2, <3>2 DEF ConnectionsOwnedOnce
      <4> QED
        BY <2>1, <3>2, <4>1, <4>2
    <3>3. CASE d # scon[cur[p]]
      <4>1. (\E s \in SessionIds : scon'[s] = d) <=> (\E s \in SessionIds : scon[s] = d)
        BY <2>1, <2>2, <3>3
      <4> QED
        BY <2>1, <3>1, <3>3, <4>1
    <3> QED
      BY <3>2, <3>3
  <2>4. \A s, x \in SessionIds : scon'[s] = scon'[x] /\ scon'[s] # None => s = x
    BY <2>1 DEF ConnectionsOwnedOnce
  <2>5. \A q \in Procs, s \in SessionIds : ocon'[q] = scon'[s] => ocon'[q] = None
    BY <2>1 DEF ConnectionsOwnedOnce
  <2> QED
    BY <2>1, <2>3, <2>4, <2>5 DEF ConnectionsOwnedOnce
<1> QED
  BY <1>1, <1>2, <1>3, <1>4, <1>5, <1>6, <1>7 DEF OwnMove

-----------------------------------------------------------------------------
(* Transactions and the pool                                                 *)

\* An upload's open handler between its BEGIN and the hand-over of the connection.
BeginsUpload(w) == pc[w] \in {"add", "open_rollback"} /\ Op(w) = "upload_open"

\* As long as the SQL of a query leaves none open, a transaction belongs to an
\* upload session or to the handler that opens one.
TxnInv ==
    ~SqlLeavesTxn =>
        \A c \in Conns : inTxn[c] =>
            \/ \E s \in SessionIds : scon[s] = c /\ txn[s]
            \/ \E w \in Workers : ocon[w] = c /\ BeginsUpload(w)

LEMMA TxnKept ==
    ASSUME TxnInv, \A c \in Conns : inTxn'[c] => inTxn[c],
           \A s \in SessionIds : txn[s] => \/ txn'[s] /\ scon'[s] = scon[s]
                                           \/ scon[s] \in Conns => ~inTxn'[scon[s]],
           \A w \in Workers : BeginsUpload(w) => \/ BeginsUpload(w)' /\ ocon'[w] = ocon[w]
                                                 \/ ocon[w] \in Conns => ~inTxn'[ocon[w]]
    PROVE  TxnInv'
<1> SUFFICES ASSUME ~SqlLeavesTxn, NEW c \in Conns, inTxn'[c]
             PROVE  \/ \E s \in SessionIds : scon'[s] = c /\ txn'[s]
                    \/ \E w \in Workers : ocon'[w] = c /\ BeginsUpload(w)'
  BY DEF TxnInv
<1>1. \/ \E s \in SessionIds : scon[s] = c /\ txn[s]
      \/ \E w \in Workers : ocon[w] = c /\ BeginsUpload(w)
  BY DEF TxnInv
<1>2. CASE \E s \in SessionIds : scon[s] = c /\ txn[s]
  <2>1. PICK s \in SessionIds : scon[s] = c /\ txn[s]
    BY <1>2
  <2> QED
    BY <2>1
<1>3. CASE \E w \in Workers : ocon[w] = c /\ BeginsUpload(w)
  <2>1. PICK w \in Workers : ocon[w] = c /\ BeginsUpload(w)
    BY <1>3
  <2> QED
    BY <2>1
<1> QED
  BY <1>1, <1>2, <1>3

\* A thread outside the open handler's window, or another thread.
LEMMA BeginsKept ==
    ASSUME NEW w \in Workers, FrameKept(w), BeginsUpload(w)
    PROVE  BeginsUpload(w)' /\ ocon'[w] = ocon[w]
BY DEF FrameKept, BeginsUpload, Op

\* The handlers' steps that touch neither a transaction nor the window.
LEMMA TxnQuiet ==
    ASSUME IInv, TxnInv, NEW w \in Workers,
           UNCHANGED <<inTxn, txn, scon>>, Dispatch(w) \/ WorkerStep(w),
           pc[w] \notin {"add", "open_rollback"}
    PROVE  TxnInv'
<1>1. \A v \in Workers : BeginsUpload(v) => BeginsUpload(v)' /\ ocon'[v] = ocon[v]
  <2> TAKE v \in Workers
  <2>1. CASE v = w
    BY <2>1 DEF BeginsUpload
  <2>2. CASE v # w
    BY <2>2, WorkerFrames, BeginsKept
  <2> QED
    BY <2>1, <2>2
<1> QED
  BY <1>1, TxnKept

LEMMA TxnStep ==
    IInv /\ ConnectionsOwnedOnce /\ UploadInv /\ TxnInv /\ [Next]_vars => TxnInv'
<1> SUFFICES ASSUME IInv, ConnectionsOwnedOnce, UploadInv, TxnInv PROVE [Next]_vars => TxnInv'
  OBVIOUS
<1> USE Domains DEF Goto, Answer, Finish, tableVars, lifeVars, lockVars, queryVars, uploadVars,
       sessVars, dbVars, frameVars, callVars, vars
<1>a. ASSUME NEW w \in Workers, Dispatch(w) \/ WorkerStep(w), NEW v \in Workers, v # w, BeginsUpload(v)
      PROVE  BeginsUpload(v)' /\ ocon'[v] = ocon[v]
  BY <1>a, WorkerFrames, BeginsKept
<1>1. ASSUME NEW w \in Workers, Dispatch(w) \/ PruneStep(w) \/ LookupStep(w) \/ FetchStep(w)
                 \/ OpenAcquire(w) \/ OpenExhausted(w) \/ OpenReply(w)
      PROVE  TxnInv'
  <2>1. UNCHANGED <<inTxn, txn, scon>> /\ pc[w] \notin {"add", "open_rollback"}
    <3>1. CASE Dispatch(w) \/ PruneStep(w) \/ OpenAcquire(w) \/ OpenExhausted(w) \/ OpenReply(w)
      BY <3>1, ZenonT(30) DEF Dispatch, PruneStep, PruneLock, PruneRemove, PruneKeep, PruneDone,
           OpenAcquire, OpenExhausted, OpenReply
    <3>2. CASE LookupStep(w)
      BY <3>2, ZenonT(30) DEF LookupStep, AcquireLock, RemoveLock, LockService, LookupFails, Acquire,
           CheckKind, Release, Remove
    <3>3. CASE FetchStep(w)
      BY <3>3, ZenonT(30) DEF FetchStep, FetchLock, FetchRun, SqlCall, FetchResult, CancelLock
    <3> QED
      BY <1>1, <3>1, <3>2, <3>3
  <2>2. Dispatch(w) \/ WorkerStep(w)
    BY <1>1 DEF WorkerStep, OpenStep
  <2> QED
    BY <2>1, <2>2, TxnQuiet
<1>2. ASSUME NEW w \in Workers, AppendLock(w) \/ AppendRun(w) \/ CommitLock(w) \/ CommitFlush(w)
      PROVE  TxnInv'
  <2>1. UNCHANGED <<inTxn, txn, scon>> /\ pc[w] \notin {"add", "open_rollback"}
    BY <1>2, ZenonT(30) DEF AppendLock, AppendRun, CommitLock, CommitFlush
  <2>2. WorkerStep(w)
    BY <1>2 DEF WorkerStep, UploadStep
  <2> QED
    BY <2>1, <2>2, TxnQuiet
<1>3. ASSUME NEW w \in Workers, QueryOpenSql(w) PROVE TxnInv'
  <2>1. WorkerStep(w) /\ pc[w] = "open_sql" /\ UNCHANGED <<txn, scon>>
    BY <1>3 DEF QueryOpenSql, WorkerStep, OpenStep
  <2>2. ASSUME ~SqlLeavesTxn, NEW c \in Conns, inTxn'[c] PROVE inTxn[c]
    <3>1. PICK leaves \in {FALSE, SqlLeavesTxn} :
              inTxn' = [inTxn EXCEPT ![ocon[w]] = inTxn[ocon[w]] \/ leaves]
      BY <1>3 DEF QueryOpenSql
    <3>2. inTxn'[c] = IF c = ocon[w] THEN inTxn[c] \/ leaves ELSE inTxn[c]
      BY <3>1
    <3>3. ~leaves
      BY <2>2
    <3> QED
      BY <2>2, <3>2, <3>3, Zenon
  <2>3. ~BeginsUpload(w)
    BY <2>1 DEF BeginsUpload
  <2>4. ASSUME ~SqlLeavesTxn PROVE TxnInv'
    <3>1. \A v \in Workers : BeginsUpload(v) => BeginsUpload(v)' /\ ocon'[v] = ocon[v]
      BY <1>a, <2>1, <2>3
    <3> QED
      BY <2>1, <2>2, <2>4, <3>1, TxnKept
  <2> QED
    BY <2>4 DEF TxnInv
<1>4. ASSUME NEW w \in Workers, UploadOpenSql(w) PROVE TxnInv'
  <2>1. WorkerStep(w) /\ pc[w] = "open_sql" /\ Op(w) = "upload_open" /\ UNCHANGED <<txn, scon, req, ocon>>
    BY <1>4 DEF UploadOpenSql, WorkerStep, OpenStep
  <2>2. CASE inTxn' = inTxn
    BY <2>1, <2>2, TxnQuiet
  <2>3. CASE inTxn' # inTxn
    <3>1. inTxn' = [inTxn EXCEPT ![ocon[w]] = TRUE] /\ pc'[w] \in {"add", "open_rollback"}
      BY <1>4, <2>3 DEF UploadOpenSql
    <3>2. BeginsUpload(w)' /\ ocon'[w] = ocon[w]
      BY <2>1, <3>1 DEF BeginsUpload, Op
    <3>3. \A c \in Conns : inTxn'[c] => c = ocon[w] \/ inTxn[c]
      BY <3>1
    <3>4. ~BeginsUpload(w)
      BY <2>1 DEF BeginsUpload
    <3>5. \A v \in Workers : BeginsUpload(v) => BeginsUpload(v)' /\ ocon'[v] = ocon[v]
      BY <1>a, <2>1, <3>4
    <3> HIDE DEF BeginsUpload
    <3> QED
      BY <2>1, <3>2, <3>3, <3>5 DEF TxnInv
  <2> QED
    BY <2>2, <2>3
<1>5. ASSUME NEW w \in Workers, AddSession(w) PROVE TxnInv'
  <2>0. WorkerStep(w)
    BY <1>5 DEF WorkerStep, OpenStep
  <2>1. /\ nextId \in SessionIds /\ scon'[nextId] = ocon[w] /\ txn'[nextId] = (Op(w) = "upload_open")
        /\ \A s \in SessionIds \ {nextId} : scon'[s] = scon[s] /\ txn'[s] = txn[s]
        /\ UNCHANGED inTxn
    BY <1>5 DEF AddSession
  <2>2. ~txn[nextId]
    BY <1>5, FreshId DEF UploadInv, SessionUp
  <2>3. \A s \in SessionIds : txn[s] => scon'[s] = scon[s] /\ txn'[s]
    BY <2>1, <2>2
  <2>4. BeginsUpload(w) => txn'[nextId]
    BY <2>1 DEF BeginsUpload
  <2>5. \A v \in Workers \ {w} : BeginsUpload(v) => BeginsUpload(v)' /\ ocon'[v] = ocon[v]
    BY <1>a, <2>0
  <2> SUFFICES ASSUME ~SqlLeavesTxn, NEW c \in Conns, inTxn'[c]
               PROVE  \/ \E s \in SessionIds : scon'[s] = c /\ txn'[s]
                      \/ \E v \in Workers : ocon'[v] = c /\ BeginsUpload(v)'
    BY DEF TxnInv
  <2>6. \/ \E s \in SessionIds : scon[s] = c /\ txn[s]
        \/ \E v \in Workers : ocon[v] = c /\ BeginsUpload(v)
    BY <2>1 DEF TxnInv
  <2> HIDE DEF BeginsUpload
  <2> QED
    BY <2>1, <2>3, <2>4, <2>5, <2>6
<1>6. ASSUME NEW w \in Workers, AddFails(w) PROVE TxnInv'
  <2>1. WorkerStep(w) /\ UNCHANGED <<inTxn, txn, scon, ocon, req>>
    BY <1>6 DEF AddFails, WorkerStep, OpenStep
  <2>2. BeginsUpload(w) => BeginsUpload(w)'
    BY <1>6 DEF AddFails, BeginsUpload, Op
  <2> QED
    BY <1>a, <2>1, <2>2, TxnKept
<1>7. ASSUME NEW w \in Workers, OpenFail(w) PROVE TxnInv'
  <2>1. WorkerStep(w) /\ UNCHANGED <<txn, scon>>
    BY <1>7 DEF OpenFail, WorkerStep, OpenStep
  <2>2. /\ \A c \in Conns : inTxn'[c] => inTxn[c]
        /\ ocon[w] \in Conns /\ pc[w] = "open_rollback" => ~inTxn'[ocon[w]]
    BY <1>7 DEF OpenFail
  <2>3. BeginsUpload(w) => pc[w] = "open_rollback"
    BY <1>7 DEF OpenFail, BeginsUpload
  <2> QED
    BY <1>a, <2>1, <2>2, <2>3, TxnKept
<1>b. ASSUME NEW p \in Procs, DestroyStep(p), NEW v \in Workers, BeginsUpload(v)
      PROVE  BeginsUpload(v)' /\ ocon'[v] = ocon[v]
  <2>1. v # p
    BY <1>b DEF BeginsUpload, DestroyStep, Destroy, DestroyUpload, DestroyFree
  <2> QED
    BY <1>b, <2>1, DestroyFrames, BeginsKept
<1>8. ASSUME NEW w \in Workers, CommitTxn(w) PROVE TxnInv'
  <2>1. /\ WorkerStep(w) /\ pc[w] = "commit_txn" /\ UNCHANGED scon
        /\ \A s \in SessionIds \ {cur[w]} : txn'[s] = txn[s]
        /\ \A c \in Conns : inTxn'[c] => inTxn[c] /\ c # scon[cur[w]]
    BY <1>8 DEF CommitTxn, WorkerStep, UploadStep
  <2>2. ~BeginsUpload(w)
    BY <2>1 DEF BeginsUpload
  <2> QED
    BY <1>a, <2>1, <2>2, TxnKept
<1>9. ASSUME NEW p \in Procs, Destroy(p) PROVE TxnInv'
  <2>1. DestroyStep(p) /\ UNCHANGED <<inTxn, txn, scon>>
    BY <1>9 DEF Destroy, DestroyStep
  <2> QED
    BY <1>b, <2>1, TxnKept
<1>10. ASSUME NEW p \in Procs, DestroyUpload(p) PROVE TxnInv'
  <2>1. /\ DestroyStep(p) /\ UNCHANGED scon
        /\ \A s \in SessionIds \ {cur[p]} : txn'[s] = txn[s]
        /\ txn[cur[p]] => \A c \in Conns : inTxn'[c] => inTxn[c] /\ c # scon[cur[p]]
        /\ ~txn[cur[p]] => inTxn' = inTxn
    BY <1>10 DEF DestroyUpload, DestroyStep
  <2> QED
    BY <1>b, <2>1, TxnKept
<1>11. ASSUME NEW p \in Procs, DestroyFree(p) PROVE TxnInv'
  <2>1. /\ DestroyStep(p) /\ UNCHANGED <<inTxn, txn>> /\ pc[p] = "destroy_free"
        /\ \A s \in SessionIds \ {cur[p]} : scon'[s] = scon[s]
    BY <1>11 DEF DestroyFree, DestroyStep
  <2>2. ~txn[cur[p]]
    BY <2>1 DEF UploadInv, ThreadUp
  <2> QED
    BY <1>b, <2>1, <2>2, TxnKept
<1>12. ASSUME StopFlag \/ StopDetach \/ StopDestroy \/ StopDone PROVE TxnInv'
  <2>1. UNCHANGED <<inTxn, txn, scon>>
    BY <1>12, ZenonT(30) DEF StopFlag, StopDetach, StopDestroy, StopDone
  <2>2. \A v \in Workers : FrameKept(v)
    BY <1>12, StopperFrames DEF StopperStep
  <2> QED
    BY <2>1, <2>2, BeginsKept, TxnKept
<1>13. ASSUME UNCHANGED vars \/ \E s \in SessionIds : IdleExpires(s) PROVE TxnInv'
  <2>1. UNCHANGED <<inTxn, txn, scon, ocon, pc, req>>
    BY <1>13 DEF IdleExpires
  <2> QED
    BY <2>1, TxnKept DEF BeginsUpload, Op
<1> HIDE DEF vars
<1> QED
  BY <1>1, <1>2, <1>3, <1>4, <1>5, <1>6, <1>7, <1>8, <1>9, <1>10, <1>11, <1>12, <1>13
  DEF Next, WorkerStep, OpenStep, UploadStep, DestroyStep, StopperStep, Stopped

LEMMA InitUploads == Init => RoleInv /\ UploadInv /\ TxnInv
<1> SUFFICES ASSUME Init PROVE RoleInv /\ UploadInv /\ TxnInv
  OBVIOUS
<1>1. RoleInv
  <2>1. \A w \in Workers : pc[w] = "idle"
    BY DEF Init, Procs
  <2> QED
    BY <2>1 DEF RoleInv, RoleOK, OpenConPcs, FetchPcs, AppendPcs, CommitPcs, RefPcs
<1>2. UploadInv
  <2>1. \A s \in SessionIds : SessionUp(s)
    BY DEF Init, SessionUp
  <2>2. \A p \in Procs : ThreadUp(p)
    BY DEF Init, ThreadUp, CommitPcs
  <2>3. \A c \in Conns : ConnectionUp(c)
    BY DEF Init, ConnectionUp
  <2> QED
    BY <2>1, <2>2, <2>3 DEF UploadInv
<1>3. TxnInv
  BY DEF Init, TxnInv
<1> QED
  BY <1>1, <1>2, <1>3

-----------------------------------------------------------------------------
(* The life cycle only moves forward                                         *)

LEMMA OnceStep ==
    ASSUME IInv, IInv', [Next]_vars
    PROVE  \A s \in SessionIds :
            /\ phase[s] = "freed" => phase'[s] = "freed"
            /\ closing[s] => closing'[s] /\ s \notin sessions'
<1> USE Domains DEF Goto, Answer, Finish, tableVars, lifeVars, lockVars, queryVars, uploadVars,
       sessVars, dbVars, frameVars, callVars, vars
<1>1. \A s \in SessionIds : phase[s] = "freed" => phase'[s] = "freed"
  <2>1. CASE OwnQuiet
    BY <2>1, QuietOwns DEF ownVars
  <2>2. ASSUME NEW w \in Workers, AddSession(w)
        PROVE  \A s \in SessionIds : phase[s] = "freed" => phase'[s] = "freed"
    BY <2>2, FreshId DEF AddSession
  <2>3. ASSUME NEW p \in Procs, DestroyFree(p)
        PROVE  \A s \in SessionIds : phase[s] = "freed" => phase'[s] = "freed"
    BY <2>3 DEF DestroyFree
  <2>4. ASSUME NEW w \in Workers, PruneRemove(w) \/ OpenAcquire(w) \/ OpenFail(w)
                                      \/ Acquire(w) \/ Release(w) \/ Remove(w)
        PROVE  UNCHANGED phase
    BY <2>4, ZenonT(30) DEF PruneRemove, OpenAcquire, OpenFail, Acquire, Release, Remove
  <2>5. ASSUME StopDetach \/ StopDestroy PROVE UNCHANGED phase
    BY <2>5 DEF StopDetach, StopDestroy
  <2> HIDE DEF vars
  <2> QED
    BY <2>1, <2>2, <2>3, <2>4, <2>5, OwnCases DEF OwnMove
<1>2. \A s \in SessionIds : closing[s] => closing'[s]
  <2>1. ASSUME NEW w \in Workers, PruneRemove(w) \/ Remove(w)
        PROVE  \A s \in SessionIds : closing[s] => closing'[s]
    BY <2>1 DEF PruneRemove, Remove, Detach
  <2>2. ASSUME NEW p \in Procs, Destroy(p)
        PROVE  \A s \in SessionIds : closing[s] => closing'[s]
    BY <2>2 DEF Destroy
  <2>3. ASSUME StopDetach PROVE \A s \in SessionIds : closing[s] => closing'[s]
    BY <2>3 DEF StopDetach
  <2>4. ASSUME NEW w \in Workers, Dispatch(w) \/ PruneLock(w) \/ PruneKeep(w) \/ PruneDone(w)
               \/ OpenStep(w) \/ FetchStep(w) \/ UploadStep(w)
               \/ AcquireLock(w) \/ RemoveLock(w) \/ LookupFails(w) \/ Acquire(w)
               \/ CheckKind(w) \/ Release(w)
        PROVE  UNCHANGED closing
    <3>1. CASE OpenStep(w)
      BY <3>1, ZenonT(30) DEF OpenStep, OpenAcquire, OpenExhausted, QueryOpenSql, UploadOpenSql,
             AddSession, AddFails, OpenFail, OpenReply
    <3>2. CASE FetchStep(w)
      BY <3>2, ZenonT(30) DEF FetchStep, FetchLock, FetchRun, SqlCall, FetchResult, CancelLock
    <3>3. CASE UploadStep(w)
      BY <3>3, ZenonT(30) DEF UploadStep, AppendLock, AppendRun, CommitLock, CommitFlush, CommitTxn
    <3>4. CASE Dispatch(w) \/ PruneLock(w) \/ PruneKeep(w) \/ PruneDone(w)
               \/ AcquireLock(w) \/ RemoveLock(w) \/ LookupFails(w) \/ Acquire(w)
               \/ CheckKind(w) \/ Release(w)
      BY <3>4, ZenonT(30) DEF Dispatch, PruneLock, PruneKeep, PruneDone, AcquireLock, RemoveLock,
             LockService, LookupFails, Acquire, CheckKind, Release
    <3> QED
      BY <2>4, <3>1, <3>2, <3>3, <3>4
  <2>5. ASSUME NEW p \in Procs, DestroyUpload(p) \/ DestroyFree(p) PROVE UNCHANGED closing
    BY <2>5 DEF DestroyUpload, DestroyFree
  <2>6. ASSUME StopFlag \/ StopDestroy \/ StopDone \/ UNCHANGED vars PROVE UNCHANGED closing
    BY <2>6 DEF StopFlag, StopDestroy, StopDone
  <2>7. ASSUME NEW s \in SessionIds, IdleExpires(s) PROVE UNCHANGED closing
    BY <2>7 DEF IdleExpires
  <2> HIDE DEF vars
  <2> QED
    BY <2>1, <2>2, <2>3, <2>4, <2>5, <2>6, <2>7
    DEF Next, WorkerStep, PruneStep, LookupStep, DestroyStep, StopperStep, Stopped
<1>3. \A s \in SessionIds : closing'[s] => s \notin sessions'
  BY DEF IInv, LifeInv
<1> QED
  BY <1>1, <1>2, <1>3

-----------------------------------------------------------------------------
(* Reference counts and limits                                              *)

INSTANCE FiniteSetTheorems

LEMMA ProcsFinite == IsFiniteSet(Procs)
<1>1. IsFiniteSet({Stopper})
  BY FS_Singleton
<1> QED
  BY <1>1, ConstantsAssumption, FS_Union, ZenonT(30) DEF ConstantsAssumption, Procs

LEMMA HoldersFinite == ASSUME NEW s PROVE IsFiniteSet(Holders(s))
BY ProcsFinite, FS_Subset DEF Holders

LEMMA ExactZero == RefCountExact => ZeroUnheld
BY HoldersFinite, FS_EmptySet DEF RefCountExact, ZeroUnheld

LEMMA CountSame ==
    ASSUME IInv,
           \A s \in SessionIds : Holders(s)' = Holders(s) /\ refcount'[s] = refcount[s]
    PROVE  RefCountExact'
BY DEF IInv, RefCountExact

\* A thread that holds no acquired session before or after a step leaves every
\* count exact.
LEMMA CountMoved ==
    ASSUME IInv, NEW p \in Procs, UNCHANGED refcount,
           pc[p] \notin RefPcs, pc'[p] \notin RefPcs,
           \A q \in Procs \ {p} : pc'[q] = pc[q] /\ cur'[q] = cur[q]
    PROVE  RefCountExact'
<1>1. \A s \in SessionIds : Holders(s)' = Holders(s)
  BY DEF Holders
<1> QED
  BY <1>1, CountSame

\* The reference count stays exact.
LEMMA CountStep == IInv /\ [Next]_vars => RefCountExact'
<1> SUFFICES ASSUME IInv PROVE [Next]_vars => RefCountExact'
  OBVIOUS
<1> USE DEF Goto, Answer, Finish, Op, tableVars, lifeVars, lockVars, queryVars, uploadVars,
       sessVars, dbVars, frameVars, callVars, vars
<1>0. ThreadType /\ FrameInv
  BY DEF IInv, TypeOK
<1>1. ASSUME NEW w \in Workers, Dispatch(w) \/ PruneLock(w) \/ PruneKeep(w) \/ PruneDone(w)
       \/ OpenAcquire(w) \/ OpenExhausted(w) \/ QueryOpenSql(w) \/ UploadOpenSql(w)
       \/ AddSession(w) \/ AddFails(w) \/ OpenFail(w) \/ OpenReply(w) \/ AcquireLock(w)
       \/ RemoveLock(w) \/ LookupFails(w) \/ CheckKind(w) \/ FetchLock(w) \/ FetchRun(w)
       \/ SqlCall(w) \/ FetchResult(w) \/ CancelLock(w) \/ AppendLock(w) \/ AppendRun(w)
       \/ CommitLock(w) \/ CommitFlush(w) \/ CommitTxn(w) PROVE RefCountExact'
  <2>1. /\ UNCHANGED <<refcount, cur>>
        /\ pc'[w] \in RefPcs <=> pc[w] \in RefPcs
        /\ \A q \in Procs \ {w} : pc'[q] = pc[q]
    BY <1>1, PcType, ZenonT(30) DEF Dispatch, Entry, PruneLock, PruneKeep, PruneDone, OpenAcquire,
           OpenExhausted, QueryOpenSql, UploadOpenSql, AddSession, AddFails, OpenFail,
           OpenReply, AcquireLock, LockService, RemoveLock, LookupFails, CheckKind, FetchLock,
           FetchRun, SqlCall, FetchResult, CancelLock, AppendLock, AppendRun, CommitLock,
           CommitFlush, CommitTxn, RefPcs
  <2>2. \A s \in SessionIds : Holders(s)' = Holders(s)
    BY <2>1 DEF Holders
  <2> QED
    BY <2>1, <2>2, CountSame
<1>2. ASSUME NEW p \in Procs, Destroy(p) \/ DestroyUpload(p) PROVE RefCountExact'
  <2>1. /\ UNCHANGED <<refcount, cur>> /\ pc[p] \notin RefPcs /\ pc'[p] \notin RefPcs
        /\ \A q \in Procs \ {p} : pc'[q] = pc[q]
    <3>1. CASE Destroy(p)
      BY <3>1, PcType DEF Destroy, RefPcs
    <3>2. CASE DestroyUpload(p)
      BY <3>2, PcType DEF DestroyUpload, RefPcs
    <3> QED
      BY <1>2, <3>1, <3>2
  <2> QED
    BY <2>1, CountMoved
<1>3. ASSUME StopFlag \/ StopDetach \/ StopDone PROVE RefCountExact'
  <2>1. /\ UNCHANGED <<refcount, cur>> /\ pc[Stopper] \notin RefPcs /\ pc'[Stopper] \notin RefPcs
        /\ \A q \in Procs \ {Stopper} : pc'[q] = pc[q]
    BY <1>3, PcType DEF StopFlag, StopDetach, StopDone, RefPcs
  <2> QED
    BY <2>1, CountMoved
<1>4. ASSUME UNCHANGED <<pc, refcount, cur>> PROVE RefCountExact'
  <2>1. \A s \in SessionIds : Holders(s)' = Holders(s)
    BY <1>4 DEF Holders
  <2> QED
    BY <1>4, <2>1, CountSame
<1>9. ASSUME (\E s \in SessionIds : IdleExpires(s)) \/ UNCHANGED vars PROVE RefCountExact'
  <2>1. UNCHANGED <<pc, refcount, cur>>
    BY <1>9 DEF IdleExpires
  <2> QED
    BY <1>4, <2>1
<1>5. ASSUME NEW w \in Workers, PruneRemove(w) PROVE RefCountExact'
  <2>1. pc[w] = "prune_scan" /\ UNCHANGED refcount /\ \E s \in sessions : Detach(w, s, "destroy")
    BY <1>5, ZenonT(30) DEF PruneRemove
  <2>4. PICK s \in sessions : cur' = [cur EXCEPT ![w] = s] /\ pc' = [pc EXCEPT ![w] = "destroy"]
    BY <2>1 DEF Detach
  <2>2. pc'[w] = "destroy" /\ \A q \in Procs \ {w} : pc'[q] = pc[q] /\ cur'[q] = cur[q]
    BY <1>0, <2>4, PcType
  <2>3. pc[w] \notin RefPcs /\ pc'[w] \notin RefPcs
    BY <2>1, <2>2 DEF RefPcs
  <2> QED
    BY <2>1, <2>2, <2>3, CountMoved
<1>6. ASSUME NEW w \in Workers, Acquire(w) \/ Release(w) \/ Remove(w) PROVE RefCountExact'
  <2>1. CASE Acquire(w)
    <3>1. CASE closing[tid[w]]
      <4>1. /\ UNCHANGED <<refcount, cur>> /\ pc[w] = "acquire" /\ pc'[w] = "idle"
            /\ \A q \in Procs \ {w} : pc'[q] = pc[q]
        BY <2>1, <3>1, PcType DEF Acquire
      <4>2. pc[w] \notin RefPcs /\ pc'[w] \notin RefPcs
        BY <4>1 DEF RefPcs
      <4> QED
        BY <4>1, <4>2, CountMoved
    <3>2. CASE ~closing[tid[w]]
      <4> SUFFICES ASSUME NEW s \in SessionIds PROVE refcount'[s] = Cardinality(Holders(s)')
        BY DEF RefCountExact
      <4>1. AfterAcquire(Op(w)) \in RefPcs
        BY DEF AfterAcquire, RefPcs
      <4>2. pc[w] \notin RefPcs /\ pc'[w] \in RefPcs /\ \A q \in Procs : q # w => pc'[q] = pc[q]
        BY <2>1, <3>2, <4>1, PcType DEF Acquire, RefPcs
      <4>3. TypeOK /\ refcount[s] = Cardinality(Holders(s))
        BY DEF IInv, RefCountExact
      <4>6. \A p \in Procs : cur'[p] = IF p = w THEN tid[w] ELSE cur[p]
        BY <2>1, <3>2, <4>3, AcquireCounts
      <4>4. CASE s = tid[w]
        <5>1. Holders(s)' = Holders(s) \cup {w} /\ w \notin Holders(s)
          BY <4>2, <4>4, <4>6 DEF Holders
        <5>2. Cardinality(Holders(s) \cup {w}) = Cardinality(Holders(s)) + 1
          BY <5>1, HoldersFinite, FS_AddElement, ZenonT(30)
        <5>3. refcount'[s] = refcount[s] + 1
          BY <2>1, <3>2, <4>3, <4>4, AcquireCounts
        <5> QED
          BY <4>3, <5>1, <5>2, <5>3
      <4>5. CASE s # tid[w]
        <5>1. Holders(s)' = Holders(s)
          BY <4>2, <4>5, <4>6 DEF Holders
        <5>2. refcount'[s] = refcount[s]
          BY <2>1, <3>2, <4>3, <4>5, AcquireCounts
        <5> QED
          BY <4>3, <5>1, <5>2
      <4> QED
        BY <4>4, <4>5
    <3> QED
      BY <3>1, <3>2
  <2>2. CASE Release(w)
    <3> SUFFICES ASSUME NEW s \in SessionIds PROVE refcount'[s] = Cardinality(Holders(s)')
      BY DEF RefCountExact
    <3>1. /\ pc[w] \in RefPcs /\ pc'[w] \notin RefPcs
          /\ \A q \in Procs : q # w => (pc'[q] \in RefPcs <=> pc[q] \in RefPcs)
      BY <2>2, PcType DEF Release, RefPcs
    <3>2. refcount[s] = Cardinality(Holders(s))
      BY DEF IInv, RefCountExact
    <3>3. CASE s = cur[w]
      <4>1. Holders(s)' = Holders(s) \ {w} /\ w \in Holders(s)
        BY <2>2, <3>1, <3>3, ReleaseCounts DEF Holders
      <4>2. Cardinality(Holders(s) \ {w}) = Cardinality(Holders(s)) - 1
        BY <4>1, HoldersFinite, FS_RemoveElement, ZenonT(30)
      <4>3. Cardinality(Holders(s)) \in Nat /\ Cardinality(Holders(s)) # 0
        BY <4>1, HoldersFinite, FS_CardinalityType, FS_EmptySet
      <4>4. refcount'[s] = IF refcount[s] > 0 THEN refcount[s] - 1 ELSE refcount[s]
        BY <2>2, <3>3, ReleaseCounts
      <4> QED
        BY <3>2, <4>1, <4>2, <4>3, <4>4
    <3>4. CASE s # cur[w]
      <4>1. Holders(s)' = Holders(s)
        BY <2>2, <3>1, <3>4, ReleaseCounts DEF Holders
      <4>2. refcount'[s] = refcount[s]
        BY <2>2, <3>4, ReleaseCounts
      <4> QED
        BY <3>2, <4>1, <4>2
    <3> QED
      BY <3>3, <3>4
  <2>3. CASE Remove(w)
    <3>1. /\ pc[w] = "remove" /\ UNCHANGED refcount /\ Detach(w, tid[w], AfterRemove(Op(w)))
      BY <2>3, ZenonT(30) DEF Remove
    <3>4. cur' = [cur EXCEPT ![w] = tid[w]] /\ pc' = [pc EXCEPT ![w] = AfterRemove(Op(w))]
      BY <3>1 DEF Detach
    <3>2. /\ pc'[w] = AfterRemove(Op(w))
          /\ \A q \in Procs \ {w} : pc'[q] = pc[q] /\ cur'[q] = cur[q]
      BY <1>0, <3>4, PcType
    <3>3. pc[w] \notin RefPcs /\ pc'[w] \notin RefPcs
      BY <3>1, <3>2 DEF RefPcs, AfterRemove
    <3> QED
      BY <3>1, <3>2, <3>3, CountMoved
  <2> QED
    BY <1>6, <2>1, <2>2, <2>3
<1>7. ASSUME NEW p \in Procs, DestroyFree(p) PROVE RefCountExact'
  <2>1. /\ UNCHANGED refcount /\ pc[p] \notin RefPcs
        /\ \A q \in Procs \ {p} : pc'[q] = pc[q] /\ cur'[q] = cur[q]
    BY <1>7, <1>0, PcType DEF DestroyFree, RefPcs
  <2>2. pc[p] = "destroy_free" /\ (pc'[p] = "idle" \/ pc'[p] = ret[p])
    BY <1>7, PcType DEF DestroyFree
  <2>3. pc'[p] \notin RefPcs
    BY <1>0, <2>2 DEF RefPcs, ThreadType, FrameInv
  <2> QED
    BY <2>1, <2>3, CountMoved
<1>8. ASSUME StopDestroy PROVE RefCountExact'
  <2>1. /\ UNCHANGED refcount /\ pc[Stopper] = "stop_next" /\ pc'[Stopper] = "destroy"
        /\ \A q \in Procs \ {Stopper} : pc'[q] = pc[q]
    BY <1>8, PcType DEF StopDestroy
  <2>2. \A q \in Procs \ {Stopper} : cur'[q] = cur[q]
    BY <1>8, <1>0 DEF StopDestroy
  <2>3. pc[Stopper] \notin RefPcs /\ pc'[Stopper] \notin RefPcs
    BY <2>1 DEF RefPcs
  <2> QED
    BY <2>1, <2>2, <2>3, CountMoved
<1> HIDE DEF Goto, Answer, Finish, Op, tableVars, lifeVars, lockVars, queryVars, uploadVars, sessVars, dbVars,
       frameVars, callVars, vars
<1> QED
  BY <1>1, <1>2, <1>3, <1>4, <1>5, <1>6, <1>7, <1>8, <1>9
  DEF Next, WorkerStep, PruneStep, OpenStep, LookupStep, FetchStep, UploadStep, DestroyStep,
         StopperStep, Stopped

LEMMA LimitTypes == MaxOpen \in Nat /\ MaxPerIdentity \in Nat
BY ConstantsAssumption, Zenon DEF ConstantsAssumption

LEMMA FiniteTable == ASSUME IInv PROVE IsFiniteSet(sessions)
<1>1. IsFiniteSet(SessionIds)
  BY FS_Interval DEF SessionIds
<1> QED
  BY <1>1, FS_Subset DEF IInv, TypeOK, TableType

\* Removing sessions keeps a limit.
LEMMA FewerSessions ==
    ASSUME IInv, LimitsHold, sessions' \subseteq sessions, UNCHANGED owner
    PROVE  LimitsHold'
<1>1. Cardinality(sessions') <= Cardinality(sessions)
  BY FiniteTable, FS_Subset
<1>2. ASSUME NEW client \in Clients
      PROVE  Cardinality(OwnedBy(client)') <= Cardinality(OwnedBy(client))
  <2>1. OwnedBy(client)' \subseteq OwnedBy(client)
    BY DEF OwnedBy
  <2>2. IsFiniteSet(OwnedBy(client))
    BY FiniteTable, FS_Subset DEF OwnedBy
  <2> QED
    BY <2>1, <2>2, FS_Subset
<1>3. Cardinality(sessions) \in Nat /\ Cardinality(sessions') \in Nat
  BY FiniteTable, FS_Subset, FS_CardinalityType
<1>4. ASSUME NEW client \in Clients
      PROVE  Cardinality(OwnedBy(client)) \in Nat /\ Cardinality(OwnedBy(client)') \in Nat
  <2>1. IsFiniteSet(OwnedBy(client)) /\ IsFiniteSet(OwnedBy(client)')
    BY FiniteTable, FS_Subset DEF OwnedBy
  <2> QED
    BY <2>1, FS_CardinalityType
<1> QED
  BY <1>1, <1>2, <1>3, <1>4, LimitTypes DEF LimitsHold

\* The limits are tested in the critical section that inserts.
LEMMA LimitsStep == IInv /\ LimitsHold /\ [Next]_vars => LimitsHold'
<1> SUFFICES ASSUME IInv, LimitsHold PROVE OwnQuiet \/ OwnMove => LimitsHold'
  BY OwnCases
<1> USE Domains DEF Goto, Answer, Finish, tableVars, lifeVars, lockVars, queryVars, uploadVars,
       sessVars, dbVars, frameVars, callVars, vars
<1>1. ASSUME OwnQuiet PROVE LimitsHold'
  BY <1>1, QuietOwns, FewerSessions DEF ownVars
<1>2. ASSUME NEW w \in Workers, PruneRemove(w) \/ OpenAcquire(w) \/ OpenFail(w) \/ Acquire(w)
                                    \/ Release(w) \/ Remove(w) PROVE LimitsHold'
  <2>1. sessions' \subseteq sessions /\ UNCHANGED owner
    BY <1>2, ZenonT(30) DEF PruneRemove, OpenAcquire, OpenFail, Acquire, Release, Remove, Detach
  <2> QED
    BY <2>1, FewerSessions
<1>3. ASSUME NEW p \in Procs, DestroyFree(p) PROVE LimitsHold'
  BY <1>3, FewerSessions DEF DestroyFree
<1>4. ASSUME StopDetach \/ StopDestroy PROVE LimitsHold'
  <2>1. sessions' \subseteq sessions /\ UNCHANGED owner
    BY <1>4 DEF StopDetach, StopDestroy
  <2> QED
    BY <2>1, FewerSessions
<1>5. ASSUME NEW w \in Workers, AddSession(w) PROVE LimitsHold'
  <2>1. nextId \notin sessions /\ nextId \in SessionIds
    BY <1>5, FreshId
  <2>2. sessions' = sessions \cup {nextId} /\ ~AddRefused(req[w].caller)
    BY <1>5 DEF AddSession
  <2>3. \A s \in SessionIds : owner'[s] = IF s = nextId THEN req[w].caller ELSE owner[s]
    BY <1>5 DEF AddSession
  <2>4. IsFiniteSet(sessions) /\ Cardinality(sessions) \in Nat
    BY FiniteTable, FS_CardinalityType
  <2>5. Cardinality(sessions') = Cardinality(sessions) + 1
    BY <2>1, <2>2, <2>4, FS_AddElement
  <2>6. MaxOpen > 0 => Cardinality(sessions') <= MaxOpen
    BY <2>2, <2>4, <2>5, LimitTypes DEF AddRefused
  <2>7. ASSUME NEW client \in Clients \ {Anonymous}, MaxPerIdentity > 0
        PROVE Cardinality(OwnedBy(client)') <= MaxPerIdentity
    <3>1. sessions \subseteq SessionIds
      BY DEF IInv, TypeOK, TableType
    <3>2. CASE client = req[w].caller
      <4>1. OwnedBy(client)' = OwnedBy(client) \cup {nextId} /\ nextId \notin OwnedBy(client)
        BY <2>1, <2>2, <2>3, <3>1, <3>2 DEF OwnedBy
      <4>2. IsFiniteSet(OwnedBy(client))
        BY <2>4, FS_Subset DEF OwnedBy
      <4>a. Cardinality(OwnedBy(client) \cup {nextId}) = Cardinality(OwnedBy(client)) + 1
        BY <4>1, <4>2, FS_AddElement, Zenon
      <4>3. Cardinality(OwnedBy(client)') = Cardinality(OwnedBy(client)) + 1
        BY <4>1, <4>a, Zenon
      <4>4. Cardinality(OwnedBy(client)) \in Nat /\ MaxPerIdentity \in Nat
        BY <4>2, FS_CardinalityType, LimitTypes
      <4>5. ~(Cardinality(OwnedBy(client)) >= MaxPerIdentity)
        BY <2>2, <2>7, <3>2 DEF AddRefused
      <4> QED
        BY <4>3, <4>4, <4>5
    <3>3. CASE client # req[w].caller
      <4>1. OwnedBy(client)' = OwnedBy(client)
        BY <2>1, <2>2, <2>3, <3>1, <3>3 DEF OwnedBy
      <4> QED
        BY <2>7, <4>1 DEF LimitsHold
    <3> QED
      BY <3>2, <3>3
  <2> QED
    BY <2>6, <2>7 DEF LimitsHold
<1> QED
  BY <1>1, <1>2, <1>3, <1>4, <1>5 DEF OwnMove

-----------------------------------------------------------------------------
(* The initial states and the step                                           *)

LEMMA InitIInv == Init => IInv
<1> SUFFICES ASSUME Init PROVE IInv
  OBVIOUS
<1>3. RefCountExact
  <2> SUFFICES ASSUME NEW s \in SessionIds PROVE refcount[s] = Cardinality(Holders(s))
    BY DEF RefCountExact
  <2>1. Holders(s) = {}
    BY DEF Init, Holders, RefPcs
  <2> QED
    BY <2>1, FS_EmptySet DEF Init
<1> QED
  BY <1>3, InitShape, ExactZero DEF IInv

LEMMA NextIInv == IInv /\ [Next]_vars => IInv'
<1> SUFFICES ASSUME IInv, [Next]_vars PROVE IInv'
  OBVIOUS
<1>1. TypeOK'
  BY TableStep, SessionStep, DataStep, ThreadStep DEF TypeOK
<1>2. ZeroUnheld'
  <2>1. \A s \in SessionIds : IsFiniteSet(Holders(s)')
    BY ProcsFinite, FS_Subset DEF Holders
  <2>2. \A s \in SessionIds : refcount'[s] = Cardinality(Holders(s)')
    BY CountStep DEF RefCountExact
  <2> QED
    BY <2>1, <2>2, FS_EmptySet DEF ZeroUnheld
<1> QED
  BY <1>1, <1>2, FrameStep, ServiceLockStep, SessionLockStep, LifeStep, DetachStep, CountStep
  DEF IInv

-----------------------------------------------------------------------------
(* What holds in every reachable state, for every value of the constants.    *)

\* The strengthened invariant holds: ducknng_session.c keeps frames, mutexes,
\* life cycle and reference counts consistent under every interleaving.
THEOREM Inductive == Spec => []IInv
<1>1. Init => IInv
  BY InitIInv
<1>2. IInv /\ [Next]_vars => IInv'
  BY NextIInv
<1> QED
  BY <1>1, <1>2, PTL DEF Spec

\* Every variable keeps its type, so no handler follows a null session or
\* connection pointer where the code does not expect one.
THEOREM TypeCorrect == Spec => []TypeOK
<1>1. IInv => TypeOK
  BY DEF IInv
<1> QED
  BY <1>1, Inductive, PTL

\* The reference count of every session is the number of threads between
\* ducknng_session_try_acquire and ducknng_session_release.
THEOREM RefCountCorrect == Spec => []RefCountExact
<1>1. IInv => RefCountExact
  BY DEF IInv
<1> QED
  BY <1>1, Inductive, PTL

\* No thread follows a pointer to a freed session, and a thread past the wait
\* in ducknng_session_destroy is alone with the session.
THEOREM NeverUsedAfterFree == Spec => []NoUseAfterFree
<1>1. IInv => NoUseAfterFree
  <2> SUFFICES ASSUME IInv, NEW p \in Procs, cur[p] # None
               PROVE  /\ phase[cur[p]] = "live"
                      /\ pc[p] \in TeardownPcs => \A q \in Procs \ {p} : cur[q] # cur[p]
    BY DEF NoUseAfterFree
  <2>1. phase[cur[p]] = "live"
    BY DEF IInv, LifeInv
  <2>2. ASSUME pc[p] \in TeardownPcs, NEW q \in Procs \ {p} PROVE cur[q] # cur[p]
    BY <2>2, TeardownAlone
  <2> QED
    BY <2>1, <2>2
<1> QED
  BY <1>1, Inductive, PTL

-----------------------------------------------------------------------------
(* Responsibility, connections, limits and stop                              *)

OwnInv == Attended /\ ConnectionsOwnedOnce /\ LimitsHold /\ StopInv

LEMMA InitOwn == Init => OwnInv
<1> SUFFICES ASSUME Init PROVE OwnInv
  OBVIOUS
<1>1. Attended /\ StopInv
  BY DEF Init, Attended, StopInv
<1>2. ConnectionsOwnedOnce
  BY DEF Init, ConnectionsOwnedOnce
<1>3. sessions = {} /\ \A client \in Clients : OwnedBy(client) = {}
  BY DEF Init, OwnedBy
<1>4. LimitsHold
  BY <1>3, FS_EmptySet, LimitTypes DEF LimitsHold
<1> QED
  BY <1>1, <1>2, <1>4 DEF OwnInv

LEMMA Owned == Spec => []OwnInv
<1>1. IInv /\ OwnInv /\ [Next]_vars => OwnInv'
  BY AttendedStep, ConnectionsStep, LimitsStep, StopStep DEF OwnInv
<1> QED
  BY <1>1, InitOwn, Inductive, PTL DEF Spec

\* Every live session has exactly one party responsible for it, every busy
\* connection exactly one owner, and the session limits hold, whatever the
\* handlers, the pruner and ducknng_service_stop do to each other.
THEOREM OwnershipExact == Spec => []SessionsOwned
<1>1. IInv /\ OwnInv => SessionsOwned
  <2> SUFFICES ASSUME IInv, OwnInv PROVE OneResponsible
    BY DEF OwnInv, SessionsOwned
  <2> SUFFICES ASSUME NEW s \in SessionIds, phase[s] = "live"
               PROVE  \/ /\ s \in sessions /\ s \notin doomed
                         /\ \A p \in Procs : cur[p] = s => pc[p] \in RefPcs
                      \/ s \in doomed \ sessions /\ \A p \in Procs : cur[p] # s
                      \/ /\ s \notin sessions \cup doomed
                         /\ \E p \in Procs : /\ cur[p] = s /\ pc[p] \in DetachedPcs
                                             /\ \A q \in Procs \ {p} : cur[q] = s => pc[q] \in RefPcs
    BY DEF OneResponsible
  <2>1. \A p \in Procs : cur[p] = s => pc[p] \in RefPcs \/ pc[p] \in DetachedPcs
    BY DEF IInv, FrameInv
  <2>2. CASE s \in sessions
    <3>1. s \notin doomed
      BY <2>2 DEF IInv, LifeInv
    <3>2. \A p \in Procs : cur[p] = s => pc[p] \notin DetachedPcs
      BY <2>2 DEF IInv, DetachInv
    <3> QED
      BY <2>1, <2>2, <3>1, <3>2
  <2>3. CASE s \in doomed
    <3>1. s \notin sessions /\ \A p \in Procs : cur[p] # s
      BY <2>3 DEF IInv, LifeInv
    <3> QED
      BY <2>3, <3>1
  <2>4. CASE s \notin sessions \cup doomed
    <3>1. PICK p \in Procs : cur[p] = s /\ pc[p] \in DetachedPcs
      BY <2>4 DEF OwnInv, Attended
    <3>2. \A q \in Procs \ {p} : cur[q] = s => pc[q] \notin DetachedPcs
      BY <3>1 DEF IInv, DetachInv
    <3> QED
      BY <2>1, <2>4, <3>1, <3>2
  <2> QED
    BY <2>2, <2>3, <2>4
<1> QED
  BY <1>1, Inductive, Owned, PTL

\* When ducknng_service_stop returns no session is left allocated and no
\* connection is left out of the pool.
THEOREM StopReturnsEverything == Spec => []StopLeavesNothing
<1>1. IInv /\ OwnInv => StopLeavesNothing
  <2> SUFFICES ASSUME IInv, OwnInv, pc[Stopper] = "stopped"
               PROVE  busy = {} /\ \A s \in SessionIds : phase[s] # "live"
    BY DEF StopLeavesNothing
  <2>1. sessions = {} /\ doomed = {} /\ \A w \in Workers : pc[w] = "idle"
    BY DEF OwnInv, StopInv
  <2>2. \A p \in Procs : pc[p] \notin DetachedPcs /\ pc[p] \notin OpenConPcs
    BY <2>1 DEF DetachedPcs, TeardownPcs, OpenConPcs
  <2>3. \A s \in SessionIds : phase[s] # "live"
    BY <2>1, <2>2 DEF OwnInv, Attended
  <2>4. \A s \in SessionIds : scon[s] = None
    BY <2>3 DEF IInv, LifeInv
  <2>5. \A p \in Procs : ocon[p] = None
    BY <2>2 DEF IInv, FrameInv
  <2>6. \A c \in Conns : c \notin busy
    BY <2>4, <2>5 DEF OwnInv, ConnectionsOwnedOnce
  <2>7. busy \subseteq Conns
    BY DEF IInv, TypeOK, DataType
  <2> QED
    BY <2>3, <2>6, <2>7
<1> QED
  BY <1>1, Inductive, Owned, PTL

\* A freed session stays freed and a closing one is never put back: the id
\* counter only grows, and nothing clears session->closing.
THEOREM NeverReanimated == Spec => NoReanimation
<1> DEFINE Once ==
        \A s \in SessionIds :
            /\ phase[s] = "freed" => phase'[s] = "freed"
            /\ closing[s] => closing'[s] /\ s \notin sessions'
<1>1. IInv /\ IInv' /\ [Next]_vars => Once
  BY OnceStep
<1> QED
  BY <1>1, NextIInv, Inductive, PTL DEF Spec, NoReanimation

-----------------------------------------------------------------------------
(* Uploads and the pool                                                      *)

LEMMA Uploads == Spec => [](RoleInv /\ UploadInv /\ TxnInv)
<1>1. IInv /\ OwnInv /\ RoleInv /\ UploadInv /\ TxnInv /\ [Next]_vars => RoleInv' /\ UploadInv' /\ TxnInv'
  BY RoleStep, UploadInvStep, TxnStep DEF OwnInv
<1> QED
  BY <1>1, InitUploads, Inductive, Owned, PTL DEF Spec

\* A commit makes every acknowledged row of its upload durable and none is
\* acknowledged behind it; a control removes, cancels or commits a session of its
\* own family only, although its check and its removal are two critical sections.
THEOREM UploadsStayWhole == Spec => []UploadsWhole
<1>1. UploadInv => CommitKeepsAcked
  BY DEF UploadInv, SessionUp, CommitKeepsAcked
<1>2. RoleInv => ControlsMatchFamily
  BY DEF RoleInv, RoleOK, ControlsMatchFamily, CommitPcs, Controls, Family
<1> QED
  BY <1>1, <1>2, Uploads, PTL DEF UploadsWhole

\* Unless the SQL of a query leaves a transaction open, a connection that no
\* handler and no session owns has no transaction and no uncommitted rows: every
\* way out of an upload ends its transaction before the connection is released.
THEOREM PoolStaysClean == ~SqlLeavesTxn => (Spec => []FreeConnectionsClean)
<1> SUFFICES ASSUME ~SqlLeavesTxn PROVE Spec => []FreeConnectionsClean
  OBVIOUS
<1>1. IInv /\ OwnInv /\ UploadInv /\ TxnInv => FreeConnectionsClean
  <2> SUFFICES ASSUME IInv, ConnectionsOwnedOnce, UploadInv, TxnInv, NEW c \in Conns, c \notin busy
               PROVE  ~inTxn[c] /\ pendingRows[c] = 0
    BY DEF OwnInv, FreeConnectionsClean
  <2>1. \A s \in SessionIds : scon[s] # c
    BY DEF ConnectionsOwnedOnce
  <2>2. \A w \in Workers : ocon[w] # c
    BY DEF ConnectionsOwnedOnce, Procs
  <2>3. ~inTxn[c]
    BY <2>1, <2>2 DEF TxnInv
  <2>4. pendingRows[c] \in Nat /\ ~(pendingRows[c] > 0)
    BY <2>1 DEF UploadInv, ConnectionUp, IInv, TypeOK, DataType
  <2> QED
    BY <2>3, <2>4
<1> QED
  BY <1>1, Inductive, Owned, Uploads, PTL
=============================================================================
