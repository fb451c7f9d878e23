-------------------------- MODULE RepServiceProofs --------------------------
(***************************************************************************)
(* Theorems about RepService for every number of contexts, calls, copies   *)
(* and identities and every set of limits.  The counters are exact because *)
(* a context serves what it received last (CtxInv), and teardown is quiet  *)
(* because stop goes through the contexts in order (StageInv).             *)
(***************************************************************************)
EXTENDS RepService, FiniteSetTheorems, TLAPS

Serving == {"begin", "authorize", "end", "send"}
Gone == {"none", "exited"}

\* A worker, its aio and the event between them.  The aio carries an operation
\* only while the worker waits for it or has left, and what the callback hands
\* over is what the context received last.
CtxInv(c) ==
    /\ pc[c] = "none" => aio[c] \in {"none", "idle"} /\ event[c] = "none"
    /\ pc[c] \in {"rearm"} \cup Serving => aio[c] = "idle" /\ event[c] = "none"
    /\ pc[c] = "wait" => aio[c] # "none" /\ (event[c] # "none" => aio[c] = "idle")
    /\ pc[c] \in Serving => req[c] \in Copies /\ route[c] = req[c]
    /\ pc[c] = "wait" /\ event[c] = "ready" =>
          requestMsg[c] \in Copies /\ route[c] = requestMsg[c]
    /\ aio[c] = "done" /\ err[c] = "ok" /\ phase[c] = "recv" /\ ~stopping[c] =>
          route[c] \in Copies /\ aioMsg[c] = <<"req", route[c]>>
    /\ aio[c] = "send" => phase[c] = "send"

\* How far start, its failure path and stop have come.
StageInv ==
    /\ stage # "stopped" => sock
    /\ stage = "starting" => \A c \in Ctxs : c >= next => pc[c] = "none" /\ aio[c] = "none"
    /\ stage \in {"running", "unlisten"} => next = 1
    /\ stage \in {"flag", "cancel", "join", "wait"} => \A c \in Ctxs : c < next => aio[c] = "none"
    /\ stage = "wait" => pc[next] \in Gone
    /\ stage \in {"close", "stopped"} => \A c \in Ctxs : aio[c] = "none"

\* The inductive invariant.
IInv ==
    /\ TypeOK
    /\ \A c \in Ctxs : CtxInv(c)
    /\ StageInv
    /\ InflightExact
    /\ QuotaOvershootBounded


LEMMA Domains ==
    TypeOK => /\ DOMAIN pc = Ctxs /\ DOMAIN aio = Ctxs /\ DOMAIN err = Ctxs /\ DOMAIN aioMsg = Ctxs
              /\ DOMAIN phase = Ctxs /\ DOMAIN event = Ctxs /\ DOMAIN stopping = Ctxs
              /\ DOMAIN requestMsg = Ctxs /\ DOMAIN req = Ctxs /\ DOMAIN resp = Ctxs
              /\ DOMAIN route = Ctxs
BY DEF TypeOK

LEMMA ContextRange == Ctxs \subseteq Nat \ {0} /\ 1 \in Ctxs /\ IsFiniteSet(Ctxs)
<1>1. NContexts \in Nat \ {0}
  BY RepAssumption
<1>2. Ctxs = 1 .. NContexts
  BY DEF Ctxs
<1>3. IsFiniteSet(1 .. NContexts)
  BY <1>1, FS_Interval
<1> QED
  BY <1>1, <1>2, <1>3

-----------------------------------------------------------------------------
(* One context                                                               *)

\* Nothing of a context changes, but that it is told to stop.
CtxKept(c) ==
    /\ pc'[c] = pc[c] /\ aio'[c] = aio[c] /\ err'[c] = err[c] /\ aioMsg'[c] = aioMsg[c]
    /\ phase'[c] = phase[c] /\ event'[c] = event[c] /\ (stopping[c] => stopping'[c])
    /\ requestMsg'[c] = requestMsg[c] /\ req'[c] = req[c] /\ route'[c] = route[c]

LEMMA CtxSame == ASSUME NEW c \in Ctxs, CtxInv(c), CtxKept(c) PROVE CtxInv(c)'
BY DEF CtxKept, CtxInv

\* The steps of a context change no other context.
LEMMA OtherContexts ==
    ASSUME TypeOK, NEW c \in Ctxs, Nng(c) \/ Worker(c), NEW d \in Ctxs, d # c
    PROVE  CtxKept(d)
<1> USE Domains DEF Goto, ctxVars, svcVars, gateVars, netVars
<1>1. CASE RecvDone(c)
  BY <1>1 DEF RecvDone, CtxKept
<1>2. CASE SendDone(c)
  BY <1>2 DEF SendDone, CtxKept
<1>3. CASE Timeout(c)
  BY <1>3 DEF Timeout, CtxKept
<1>4. CASE Callback(c)
  BY <1>4 DEF Callback, CtxKept
<1>5. CASE Rearm(c)
  BY <1>5 DEF Rearm, CtxKept
<1>6. CASE Wake(c)
  BY <1>6 DEF Wake, CtxKept
<1>7. CASE Begin(c)
  BY <1>7 DEF Begin, CtxKept
<1>8. CASE Dispatch(c)
  BY <1>8 DEF Dispatch, CtxKept
<1>9. CASE End(c)
  BY <1>9 DEF End, CtxKept
<1>10. CASE Reply(c)
  BY <1>10 DEF Reply, CtxKept
<1> QED
  BY <1>1, <1>2, <1>3, <1>4, <1>5, <1>6, <1>7, <1>8, <1>9, <1>10 DEF Nng, Worker

\* The steps of a context keep its own invariant.
LEMMA OwnContext ==
    ASSUME IInv, NEW c \in Ctxs, Nng(c) \/ Worker(c)
    PROVE  CtxInv(c)'
<1>0. TypeOK /\ CtxInv(c)
  BY DEF IInv
<1> USE <1>0, Domains DEF Goto, ctxVars, svcVars, gateVars, netVars, Serving
<1>1. CASE RecvDone(c)
  <2>1. queue \subseteq Copies
    BY DEF TypeOK
  <2> QED
    BY <1>1, <2>1 DEF RecvDone, CtxInv
<1>2. CASE SendDone(c)
  BY <1>2 DEF SendDone, CtxInv
<1>3. CASE Timeout(c)
  BY <1>3 DEF Timeout, CtxInv
<1>4. CASE Callback(c)
  <2>1. CASE stopping[c]
    BY <1>4, <2>1 DEF Callback, CtxInv
  <2>2. CASE ~stopping[c]
    BY <1>4, <2>2 DEF Callback, CtxInv
  <2> QED
    BY <2>1, <2>2
<1>5. CASE Rearm(c)
  BY <1>5 DEF Rearm, CtxInv
<1>6. CASE Wake(c)
  <2>1. CASE stopping[c]
    BY <1>6, <2>1 DEF Wake, CtxInv
  <2>2. CASE ~stopping[c]
    BY <1>6, <2>2 DEF Wake, CtxInv
  <2> QED
    BY <2>1, <2>2
<1>7. CASE Begin(c)
  BY <1>7 DEF Begin, CtxInv
<1>8. CASE Dispatch(c)
  BY <1>8 DEF Dispatch, CtxInv
<1>9. CASE End(c)
  BY <1>9 DEF End, CtxInv
<1>10. CASE Reply(c)
  BY <1>10 DEF Reply, CtxInv
<1> QED
  BY <1>1, <1>2, <1>3, <1>4, <1>5, <1>6, <1>7, <1>8, <1>9, <1>10 DEF Nng, Worker

LEMMA ContextStep == IInv /\ [Next]_vars => \A c \in Ctxs : CtxInv(c)'
<1> SUFFICES ASSUME IInv, [Next]_vars, NEW c \in Ctxs PROVE CtxInv(c)'
  OBVIOUS
<1>0. TypeOK /\ CtxInv(c) /\ StageInv /\ next \in Ctxs
  BY DEF IInv, TypeOK
<1>1. ASSUME NEW d \in Ctxs, Nng(d) \/ Worker(d) PROVE CtxInv(c)'
  BY <1>0, <1>1, OwnContext, OtherContexts, CtxSame
<1>2. ASSUME \/ UNCHANGED vars \/ Stop \/ Unlisten \/ TeardownJoin \/ CloseSocket
             \/ (\E r \in Reqs : Send(r)) \/ \E l \in LimitSettings : SetLimits(l)
      PROVE  CtxInv(c)'
  <2>1. UNCHANGED ctxVars
    BY <1>2, Zenon DEF vars, Stop, Unlisten, TeardownJoin, CloseSocket, Send, SetLimits
  <2> QED
    BY <1>0, <2>1, CtxSame DEF ctxVars, CtxKept
<1> USE <1>0, Domains DEF ctxVars, svcVars, gateVars, netVars, Serving
<1>3. CASE StartContext \/ StartFails
  <2>1. CASE c # next
    <3>1. CtxKept(c)
      BY <1>3, <2>1 DEF StartContext, StartFails, CtxKept
    <3> QED
      BY <3>1, CtxSame
  <2>2. CASE c = next
    <3>1. pc[c] = "none" /\ aio[c] = "none" /\ event[c] = "none"
      BY <1>3, <2>2, ContextRange DEF StartContext, StartFails, StageInv, CtxInv
    <3> QED
      BY <1>3, <2>2, <3>1 DEF StartContext, StartFails, CtxInv
  <2> QED
    BY <2>1, <2>2
<1>4. CASE TeardownFlag
  <2>1. CtxKept(c)
    BY <1>4 DEF TeardownFlag, CtxKept
  <2> QED
    BY <2>1, CtxSame
<1>5. CASE TeardownCancel
  <2>1. CASE c = next /\ aio[c] \in {"recv", "send"}
    BY <1>5, <2>1 DEF TeardownCancel, CtxInv
  <2>2. CASE c # next \/ aio[c] \notin {"recv", "send"}
    <3>1. CtxKept(c)
      BY <1>5, <2>2 DEF TeardownCancel, CtxKept
    <3> QED
      BY <3>1, CtxSame
  <2> QED
    BY <2>1, <2>2
<1>6. CASE TeardownFree
  <2>1. CASE c = next
    BY <1>6, <2>1 DEF TeardownFree, CtxInv, StageInv, Gone
  <2>2. CASE c # next
    <3>1. CtxKept(c)
      BY <1>6, <2>2 DEF TeardownFree, CtxKept
    <3> QED
      BY <3>1, CtxSame
  <2> QED
    BY <2>1, <2>2
<1> QED
  BY <1>1, <1>2, <1>3, <1>4, <1>5, <1>6 DEF Next, Owner


-----------------------------------------------------------------------------
(* Start and stop                                                            *)

\* No step of a context allocates or frees its aio, and a worker that has left
\* does not come back.
LEMMA ContextLife ==
    ASSUME IInv, NEW c \in Ctxs, Nng(c) \/ Worker(c), NEW d \in Ctxs
    PROVE  /\ aio[d] = "none" <=> aio'[d] = "none"
           /\ pc[d] = "none" <=> pc'[d] = "none"
           /\ pc[d] \in Gone => pc'[d] \in Gone
<1>0. TypeOK /\ CtxInv(c)
  BY DEF IInv
<1>1. CASE d # c
  BY <1>0, <1>1, OtherContexts DEF CtxKept
<1>2. CASE d = c
  <2> USE <1>0, <1>2, Domains DEF Goto, Gone
  <2>1. CASE Nng(c)
    <3>1. pc' = pc
      BY <2>1 DEF Nng, RecvDone, SendDone, Timeout, Callback
    <3>2. aio[c] # "none" /\ aio'[c] # "none"
      BY <2>1 DEF Nng, RecvDone, SendDone, Timeout, Callback
    <3> QED
      BY <3>1, <3>2
  <2>2. CASE Worker(c)
    <3>1. pc[c] \notin Gone /\ pc'[c] # "none"
      BY <2>2 DEF Worker, Rearm, Wake, Begin, Dispatch, End, Reply
    <3>2. aio[c] # "none"
      BY <2>2 DEF CtxInv, Worker, Rearm, Wake, Begin, Dispatch, End, Reply, Serving
    <3>3. aio'[c] # "none"
      BY <2>2, <3>2 DEF Worker, Rearm, Wake, Begin, Dispatch, End, Reply
    <3> QED
      BY <3>1, <3>2, <3>3
  <2> QED
    BY <2>1, <2>2
<1> QED
  BY <1>1, <1>2

LEMMA StageStep == IInv /\ [Next]_vars => StageInv'
<1> SUFFICES ASSUME IInv, [Next]_vars PROVE StageInv'
  OBVIOUS
<1>0. TypeOK /\ StageInv /\ next \in Ctxs
  BY DEF IInv, TypeOK
<1> USE ContextRange
<1>1. ASSUME NEW c \in Ctxs, Nng(c) \/ Worker(c) PROVE StageInv'
  <2>1. UNCHANGED svcVars
    BY <1>1, Zenon DEF Nng, RecvDone, SendDone, Timeout, Callback,
         Worker, Rearm, Wake, Begin, Dispatch, End, Reply
  <2> QED
    BY <1>0, <1>1, <2>1, ContextLife DEF StageInv, svcVars
<1>2. ASSUME \/ UNCHANGED vars \/ (\E r \in Reqs : Send(r)) \/ \E l \in LimitSettings : SetLimits(l)
      PROVE  StageInv'
  <2>1. UNCHANGED <<ctxVars, svcVars>>
    BY <1>2, Zenon DEF vars, Send, SetLimits
  <2> QED
    BY <1>0, <2>1 DEF StageInv, ctxVars, svcVars
<1> USE <1>0, Domains DEF ctxVars, svcVars, gateVars, netVars
<1>3. CASE StartContext
  <2>1. NContexts \in Nat /\ next <= NContexts
    BY RepAssumption DEF Ctxs
  <2> QED
    BY <1>3, <2>1 DEF StartContext, StageInv
<1>4. CASE StartFails
  BY <1>4 DEF StartFails, StageInv
<1>5. CASE Stop
  BY <1>5 DEF Stop, StageInv
<1>6. CASE Unlisten
  BY <1>6 DEF Unlisten, StageInv
<1>7. CASE TeardownFlag
  BY <1>7 DEF TeardownFlag, StageInv
<1>8. CASE TeardownCancel
  BY <1>8 DEF TeardownCancel, StageInv
<1>9. CASE TeardownJoin
  BY <1>9 DEF TeardownJoin, StageInv, Gone
<1>10. CASE TeardownFree
  <2>1. NContexts \in Nat /\ next <= NContexts /\ \A c \in Ctxs : c <= NContexts
    BY RepAssumption DEF Ctxs
  <2>2. /\ sock' /\ aio'[next] = "none" /\ \A c \in Ctxs \ {next} : aio'[c] = aio[c]
        /\ \A c \in Ctxs : c < next => aio[c] = "none"
    BY <1>10 DEF TeardownFree, StageInv
  <2>3. \A c \in Ctxs : c <= next => aio'[c] = "none"
    BY <2>2
  <2>4. CASE next = NContexts
    <3>1. stage' = "close" /\ \A c \in Ctxs : aio'[c] = "none"
      BY <1>10, <2>1, <2>3, <2>4 DEF TeardownFree
    <3> QED
      BY <2>2, <3>1 DEF StageInv
  <2>5. CASE next # NContexts
    <3>1. stage' = "flag" /\ next' = next + 1
      BY <1>10, <2>5 DEF TeardownFree
    <3>2. \A c \in Ctxs : c < next' => aio'[c] = "none"
      BY <2>3, <3>1
    <3> QED
      BY <2>2, <3>1, <3>2 DEF StageInv
  <2> QED
    BY <2>4, <2>5
<1>11. CASE CloseSocket
  BY <1>11 DEF CloseSocket, StageInv
<1> QED
  BY <1>1, <1>2, <1>3, <1>4, <1>5, <1>6, <1>7, <1>8, <1>9, <1>10, <1>11 DEF Next, Owner

-----------------------------------------------------------------------------
(* The request gate                                                          *)

\* A call's identity.
LEMMA PeerType ==
    ASSUME IInv, NEW c \in Ctxs, pc[c] \in Serving
    PROVE  req[c][1] \in Reqs /\ PeerOf(c) \in Peers \cup {None}
<1>1. req[c] \in Copies
  BY DEF IInv, CtxInv
<1>2. PICK r \in Reqs : req[c] \in {r} \X (1 .. MaxSends[r])
  BY <1>1 DEF Copies
<1> QED
  BY <1>2, RepAssumption DEF PeerOf

ServedFor(p) == {c \in Counted : PeerOf(c) = p}

LEMMA FiniteCounts ==
    /\ IsFiniteSet(Counted) /\ Cardinality(Counted) \in Nat
    /\ \A p \in Peers : IsFiniteSet(ServedFor(p)) /\ Cardinality(ServedFor(p)) \in Nat
<1>1. IsFiniteSet(Counted)
  BY ContextRange, FS_Subset DEF Counted
<1>2. \A p \in Peers : ServedFor(p) \in SUBSET Counted
  BY DEF ServedFor
<1>3. \A p \in Peers : IsFiniteSet(ServedFor(p))
  BY <1>1, <1>2, FS_Subset
<1> QED
  BY <1>1, <1>3, FS_CardinalityType

LEMMA InflightSame ==
    ASSUME InflightExact, UNCHANGED <<inflight, peerInflight>>,
           \A c \in Ctxs : /\ pc[c] \in {"authorize", "end"} <=> pc'[c] \in {"authorize", "end"}
                           /\ pc[c] \in {"authorize", "end"} => req'[c] = req[c]
    PROVE  InflightExact'
<1>1. Counted' = Counted
  BY DEF Counted
<1>2. \A p \in Peers : {c \in Counted : PeerOf(c) = p}' = {c \in Counted : PeerOf(c) = p}
  BY <1>1 DEF Counted, PeerOf
<1> QED
  BY <1>1, <1>2 DEF InflightExact


LEMMA BeginStep == ASSUME IInv, NEW c \in Ctxs, Begin(c) PROVE InflightExact'
<1>0. TypeOK /\ InflightExact /\ pc[c] = "begin"
  BY DEF IInv, Begin
<1> USE <1>0, Domains DEF Goto
<1>1. UNCHANGED req /\ \A d \in Ctxs \ {c} : pc'[d] = pc[d]
  BY DEF Begin
<1>2. CASE pc'[c] = "send"
  <2>1. UNCHANGED <<inflight, peerInflight>>
    BY <1>2 DEF Begin
  <2> QED
    BY <1>1, <1>2, <2>1, InflightSame
<1>3. CASE pc'[c] # "send"
  <2>1. /\ pc'[c] = "authorize" /\ inflight' = inflight + 1
        /\ \A p \in Peers : peerInflight'[p] = peerInflight[p] + IF p = PeerOf(c) THEN 1 ELSE 0
    BY <1>3 DEF Begin
  <2>2. c \notin Counted /\ Counted' = Counted \cup {c}
    BY <1>1, <2>1 DEF Counted
  <2>3. inflight' = Cardinality(Counted)'
    BY <2>1, <2>2, FiniteCounts, FS_AddElement DEF InflightExact
  <2>4. ASSUME NEW p \in Peers PROVE peerInflight'[p] = Cardinality(ServedFor(p)')
    <3>1. peerInflight[p] = Cardinality(ServedFor(p)) /\ IsFiniteSet(ServedFor(p))
      BY FiniteCounts DEF InflightExact, ServedFor
    <3>2. peerInflight[p] \in Nat
      BY DEF TypeOK
    <3>3. CASE p = PeerOf(c)
      <4>1. ServedFor(p)' = ServedFor(p) \cup {c} /\ c \notin ServedFor(p)
        BY <1>1, <2>2, <3>3 DEF ServedFor, PeerOf
      <4>2. Cardinality(ServedFor(p) \cup {c}) = Cardinality(ServedFor(p)) + 1
        BY <3>1, <4>1, FS_AddElement
      <4>3. peerInflight'[p] = peerInflight[p] + 1
        BY <2>1, <3>3
      <4> QED
        BY <3>1, <4>1, <4>2, <4>3
    <3>4. CASE p # PeerOf(c)
      <4>1. ServedFor(p)' = ServedFor(p)
        BY <1>1, <2>2, <3>4 DEF ServedFor, PeerOf
      <4> QED
        BY <2>1, <3>1, <3>2, <3>4, <4>1
    <3> QED
      BY <3>3, <3>4
  <2> QED
    BY <2>3, <2>4 DEF InflightExact, ServedFor
<1> QED
  BY <1>2, <1>3

\* What ducknng_service_end_request does to the counters: the clamp at zero does
\* not act, because the request it ends is counted.
LEMMA EndCounts ==
    ASSUME IInv, NEW c \in Ctxs, End(c)
    PROVE  /\ inflight' = inflight - 1
           /\ \A p \in Peers :
                IF p = PeerOf(c)
                THEN /\ peerInflight[p] > 0 /\ peerInflight'[p] = peerInflight[p] - 1
                     /\ replyBytes'[p] \in {replyBytes[p], replyBytes[p] + 1}
                ELSE peerInflight'[p] = peerInflight[p] /\ replyBytes'[p] = replyBytes[p]
<1>0. TypeOK /\ InflightExact /\ pc[c] = "end"
  BY DEF IInv, End
<1> USE <1>0
<1>1. c \in Counted
  BY DEF Counted
<1>2. inflight > 0 /\ inflight \in Nat
  BY <1>1, FiniteCounts, FS_EmptySet DEF InflightExact, TypeOK
<1>3. ASSUME NEW p \in Peers
      PROVE  IF p = PeerOf(c)
             THEN /\ peerInflight[p] > 0 /\ peerInflight'[p] = peerInflight[p] - 1
                  /\ replyBytes'[p] \in {replyBytes[p], replyBytes[p] + 1}
             ELSE peerInflight'[p] = peerInflight[p] /\ replyBytes'[p] = replyBytes[p]
  <2>1. peerInflight[p] \in Nat /\ replyBytes[p] \in Nat
    BY DEF TypeOK
  <2>2. /\ peerInflight'[p] = IF p = PeerOf(c) THEN (IF peerInflight[p] > 0 THEN peerInflight[p] - 1 ELSE 0)
                              ELSE peerInflight[p]
        /\ replyBytes'[p] = replyBytes[p] + IF p = PeerOf(c) THEN (IF resp[c] = "reply" THEN 1 ELSE 0) ELSE 0
    BY DEF End
  <2>3. p = PeerOf(c) => peerInflight[p] > 0
    <3> SUFFICES ASSUME p = PeerOf(c) PROVE peerInflight[p] > 0
      OBVIOUS
    <3>1. c \in ServedFor(p)
      BY <1>1 DEF ServedFor
    <3>2. peerInflight[p] = Cardinality(ServedFor(p)) /\ IsFiniteSet(ServedFor(p))
      BY FiniteCounts DEF InflightExact, ServedFor
    <3> QED
      BY <2>1, <3>1, <3>2, FS_EmptySet
  <2> QED
    BY <2>1, <2>2, <2>3
<1>4. inflight' = inflight - 1
  BY <1>2 DEF End
<1> QED
  BY <1>3, <1>4

LEMMA EndStep == ASSUME IInv, NEW c \in Ctxs, End(c) PROVE InflightExact'
<1>0. TypeOK /\ InflightExact /\ pc[c] = "end"
  BY DEF IInv, End
<1> USE <1>0, Domains DEF Goto
<1>1. UNCHANGED req /\ pc'[c] = "send" /\ \A d \in Ctxs \ {c} : pc'[d] = pc[d]
  BY DEF End
<1>2. c \in Counted /\ Counted' = Counted \ {c}
  BY <1>1 DEF Counted
<1>3. inflight' = Cardinality(Counted)'
  BY <1>2, EndCounts, FiniteCounts, FS_RemoveElement DEF InflightExact
<1>4. ASSUME NEW p \in Peers PROVE peerInflight'[p] = Cardinality(ServedFor(p)')
  <2>1. peerInflight[p] = Cardinality(ServedFor(p)) /\ IsFiniteSet(ServedFor(p))
    BY FiniteCounts DEF InflightExact, ServedFor
  <2>2. CASE p = PeerOf(c)
    <3>1. ServedFor(p)' = ServedFor(p) \ {c} /\ c \in ServedFor(p)
      BY <1>1, <1>2, <2>2 DEF ServedFor, PeerOf
    <3>2. peerInflight'[p] = peerInflight[p] - 1
      BY <2>2, EndCounts
    <3>3. Cardinality(ServedFor(p) \ {c}) = Cardinality(ServedFor(p)) - 1
      BY <2>1, <3>1, FS_RemoveElement
    <3> QED
      BY <2>1, <3>1, <3>2, <3>3
  <2>3. CASE p # PeerOf(c)
    <3>1. ServedFor(p)' = ServedFor(p)
      BY <1>1, <1>2, <2>3 DEF ServedFor, PeerOf
    <3>2. peerInflight'[p] = peerInflight[p]
      BY <2>3, EndCounts
    <3> QED
      BY <2>1, <3>1, <3>2
  <2> QED
    BY <2>2, <2>3
<1> QED
  BY <1>3, <1>4 DEF InflightExact, ServedFor

\* Every step but begin_request and end_request leaves the counters alone.
GateQuiet(c) == Nng(c) \/ Rearm(c) \/ Wake(c) \/ Dispatch(c) \/ Reply(c)

LEMMA InflightStep == IInv /\ [Next]_vars => InflightExact'
<1> SUFFICES ASSUME IInv, [Next]_vars PROVE InflightExact'
  OBVIOUS
<1>0. TypeOK /\ InflightExact /\ next \in Ctxs
  BY DEF IInv, TypeOK
<1> USE <1>0, Domains DEF Goto, ctxVars, svcVars, gateVars, netVars
<1>1. ASSUME NEW c \in Ctxs, GateQuiet(c) PROVE InflightExact'
  <2>1. UNCHANGED gateVars
    BY <1>1, Zenon DEF GateQuiet, Nng, RecvDone, SendDone, Timeout, Callback, Rearm, Wake, Dispatch, Reply
  <2>2. /\ pc[c] \in {"authorize", "end"} <=> pc'[c] \in {"authorize", "end"}
        /\ pc[c] \in {"authorize", "end"} => req'[c] = req[c]
    BY <1>1 DEF GateQuiet, Nng, RecvDone, SendDone, Timeout, Callback, Rearm, Wake, Dispatch, Reply
  <2>3. \A d \in Ctxs \ {c} : pc'[d] = pc[d] /\ req'[d] = req[d]
    BY <1>1, OtherContexts DEF GateQuiet, Worker, CtxKept
  <2> QED
    BY <2>1, <2>2, <2>3, InflightSame
<1>2. ASSUME \/ UNCHANGED vars \/ Stop \/ (\E r \in Reqs : Send(r))
             \/ (\E l \in LimitSettings : SetLimits(l))
             \/ StartFails \/ Unlisten \/ TeardownFlag \/ TeardownCancel \/ TeardownJoin
             \/ TeardownFree \/ CloseSocket
      PROVE  InflightExact'
  <2>1. UNCHANGED <<pc, req, inflight, peerInflight>>
    BY <1>2, ZenonT(30) DEF vars, Stop, Send, SetLimits, StartFails, Unlisten, TeardownFlag,
         TeardownCancel, TeardownJoin, TeardownFree, CloseSocket
  <2> QED
    BY <2>1, InflightSame
<1>3. CASE StartContext
  <2>1. pc[next] = "none"
    BY <1>3, ContextRange DEF StartContext, IInv, StageInv
  <2>2. /\ UNCHANGED <<req, inflight, peerInflight>>
        /\ pc'[next] = "rearm" /\ \A d \in Ctxs \ {next} : pc'[d] = pc[d]
    BY <1>3 DEF StartContext
  <2> QED
    BY <2>1, <2>2, InflightSame
<1> QED
  BY <1>1, <1>2, <1>3, BeginStep, EndStep DEF Next, Owner, Worker, GateQuiet


\* The highest settings bound every setting.
LEMMA HighSettings ==
    /\ HighBytes \in Nat /\ HighPerPeer \in Nat
    /\ \A l \in LimitSettings : l.bytes <= HighBytes /\ l.perPeer <= HighPerPeer
    /\ \E l \in LimitSettings : l.bytes = HighBytes
<1>1. HighBytes \in {l.bytes : l \in LimitSettings} /\ \A m \in {l.bytes : l \in LimitSettings} : m <= HighBytes
  <2>1. \E n \in {l.bytes : l \in LimitSettings} : \A m \in {l.bytes : l \in LimitSettings} : m <= n
    <3>1. PICK h \in LimitSettings : \A m \in LimitSettings : m.bytes <= h.bytes
      BY RepAssumption
    <3> QED
      BY <3>1
  <2> QED
    BY <2>1, Zenon DEF HighBytes, MaxOf
<1>2. HighPerPeer \in {l.perPeer : l \in LimitSettings}
      /\ \A m \in {l.perPeer : l \in LimitSettings} : m <= HighPerPeer
  <2>1. \E n \in {l.perPeer : l \in LimitSettings} : \A m \in {l.perPeer : l \in LimitSettings} : m <= n
    <3>1. PICK h \in LimitSettings : \A m \in LimitSettings : m.perPeer <= h.perPeer
      BY RepAssumption
    <3> QED
      BY <3>1
  <2> QED
    BY <2>1, Zenon DEF HighPerPeer, MaxOf
<1>3. \A l \in LimitSettings : l.bytes \in Nat /\ l.perPeer \in Nat
  BY RepAssumption
<1> QED
  BY <1>1, <1>2, <1>3

LEMMA QuotaSame ==
    ASSUME QuotaOvershootBounded, UNCHANGED <<peerInflight, replyBytes>>
    PROVE  QuotaOvershootBounded'
BY DEF QuotaOvershootBounded

LEMMA QuotaStep == IInv /\ [Next]_vars => QuotaOvershootBounded'
<1> SUFFICES ASSUME IInv, [Next]_vars PROVE QuotaOvershootBounded'
  OBVIOUS
<1>0. TypeOK /\ QuotaOvershootBounded
  BY DEF IInv
<1> USE <1>0 DEF ctxVars, svcVars, gateVars, netVars
<1>1. ASSUME \/ UNCHANGED vars \/ Stop \/ (\E r \in Reqs : Send(r))
             \/ (\E l \in LimitSettings : SetLimits(l)) \/ Owner \/ \E c \in Ctxs : GateQuiet(c)
      PROVE  QuotaOvershootBounded'
  <2>1. CASE Owner
    BY <2>1, QuotaSame, ZenonT(30) DEF Owner, StartContext, StartFails, Unlisten, TeardownFlag, TeardownCancel,
         TeardownJoin, TeardownFree, CloseSocket
  <2>2. CASE \E c \in Ctxs : GateQuiet(c)
    BY <2>2, QuotaSame, ZenonT(30) DEF GateQuiet, Nng, RecvDone, SendDone, Timeout, Callback, Rearm, Wake,
         Dispatch, Reply
  <2>3. CASE \/ UNCHANGED vars \/ Stop \/ (\E r \in Reqs : Send(r)) \/ \E l \in LimitSettings : SetLimits(l)
    BY <2>3, QuotaSame, Zenon DEF vars, Stop, Send, SetLimits
  <2> QED
    BY <1>1, <2>1, <2>2, <2>3
<1>2. ASSUME NEW c \in Ctxs, Begin(c) \/ End(c) PROVE QuotaOvershootBounded'
  <2> SUFFICES ASSUME \A l \in LimitSettings : l.bytes > 0 /\ l.perPeer > 0, NEW p \in Peers
               PROVE  replyBytes'[p] + peerInflight'[p] <= HighBytes - 1 + HighPerPeer
    BY DEF QuotaOvershootBounded
  <2>1. /\ replyBytes[p] \in Nat /\ peerInflight[p] \in Nat /\ limits \in LimitSettings
        /\ replyBytes[p] + peerInflight[p] <= HighBytes - 1 + HighPerPeer
    BY DEF TypeOK, QuotaOvershootBounded
  <2>2. /\ HighBytes \in Nat /\ HighPerPeer \in Nat
        /\ limits.bytes \in Nat /\ limits.bytes > 0 /\ limits.bytes <= HighBytes
        /\ limits.perPeer \in Nat /\ limits.perPeer > 0 /\ limits.perPeer <= HighPerPeer
    BY <2>1, HighSettings, RepAssumption
  <2>3. CASE End(c)
    <3>1. IF p = PeerOf(c)
          THEN /\ peerInflight[p] > 0 /\ peerInflight'[p] = peerInflight[p] - 1
               /\ replyBytes'[p] \in {replyBytes[p], replyBytes[p] + 1}
          ELSE peerInflight'[p] = peerInflight[p] /\ replyBytes'[p] = replyBytes[p]
      BY <2>3, EndCounts
    <3> QED
      BY <2>1, <2>2, <3>1
  <2>4. CASE Begin(c)
    <3>1. replyBytes' = replyBytes
      BY <2>4 DEF Begin
    <3>2. CASE peerInflight' = peerInflight
      BY <2>1, <3>1, <3>2
    <3>3. CASE peerInflight' # peerInflight
      <4>1. ~Busy(c) /\ peerInflight'[p] = peerInflight[p] + IF p = PeerOf(c) THEN 1 ELSE 0
        BY <2>4, <3>3 DEF Begin
      <4>2. CASE p # PeerOf(c)
        BY <2>1, <3>1, <4>1, <4>2
      <4>3. CASE p = PeerOf(c)
        <5>1. PeerOf(c) # None
          BY <4>3, RepAssumption
        <5>2. peerInflight[p] < limits.perPeer /\ replyBytes[p] < limits.bytes
          BY <2>1, <2>2, <4>1, <4>3, <5>1 DEF Busy
        <5> QED
          BY <2>1, <2>2, <3>1, <4>1, <4>3, <5>2
      <4> QED
        BY <4>2, <4>3
    <3> QED
      BY <3>2, <3>3
  <2> QED
    BY <1>2, <2>3, <2>4
<1> QED
  BY <1>1, <1>2 DEF Next, Worker, GateQuiet

-----------------------------------------------------------------------------
(* Types                                                                     *)

\* TypeOK by group of variables, as the steps change them.
CtxType ==
    /\ pc \in [Ctxs -> {"none", "rearm", "wait", "begin", "authorize", "end", "send", "exited"}]
    /\ aio \in [Ctxs -> {"none", "idle", "recv", "send", "done"}]
    /\ err \in [Ctxs -> {"ok", "failed", "closed"}]
    /\ phase \in [Ctxs -> {"recv", "send"}]
    /\ event \in [Ctxs -> {"none", "error", "ready", "sent"}]
    /\ stopping \in [Ctxs -> BOOLEAN]
    /\ resp \in [Ctxs -> {"none", "error", "reply", "null"}]
MsgType ==
    /\ aioMsg \in [Ctxs -> Messages]
    /\ requestMsg \in [Ctxs -> Copies \cup {None}] /\ req \in [Ctxs -> Copies \cup {None}]
    /\ route \in [Ctxs -> Copies \cup {None}]
SvcType ==
    /\ stage \in {"starting", "running", "unlisten", "flag", "cancel", "join", "wait", "close",
                  "stopped"}
    /\ next \in Ctxs
    /\ listening \in BOOLEAN /\ sock \in BOOLEAN /\ shuttingDown \in BOOLEAN
GateType ==
    /\ inflight \in Nat /\ peerInflight \in [Peers -> Nat] /\ replyBytes \in [Peers -> Nat]
    /\ limits \in LimitSettings
NetType ==
    /\ call \in [Reqs -> {"new", "waiting", "done"}]
    /\ sent \in [Reqs -> Nat] /\ runs \in [Reqs -> Nat]
    /\ queue \subseteq Copies

LEMMA TypeGroups == TypeOK <=> CtxType /\ MsgType /\ SvcType /\ GateType /\ NetType
BY ZenonT(60) DEF TypeOK, CtxType, MsgType, SvcType, GateType, NetType

LEMMA TypeGroupsNext == TypeOK' <=> CtxType' /\ MsgType' /\ SvcType' /\ GateType' /\ NetType'
BY ZenonT(60) DEF TypeOK, CtxType, MsgType, SvcType, GateType, NetType


LEMMA NngTypes == ASSUME IInv, NEW c \in Ctxs, Nng(c) PROVE TypeOK'
<1>0. CtxType /\ MsgType /\ SvcType /\ GateType /\ NetType /\ CtxInv(c)
  BY TypeGroups DEF IInv
<1> USE DEF ctxVars, svcVars, gateVars, netVars
<1>1. SvcType' /\ GateType'
  BY <1>0, ZenonT(30) DEF Nng, RecvDone, SendDone, Timeout, Callback, SvcType, GateType
<1>2. CtxType'
  <2>1. CASE RecvDone(c) \/ SendDone(c) \/ Timeout(c)
    BY <1>0, <2>1 DEF RecvDone, SendDone, Timeout, CtxType
  <2>2. CASE Callback(c)
    BY <1>0, <2>2 DEF Callback, CtxType
  <2> QED
    BY <2>1, <2>2 DEF Nng
<1>3. NetType' /\ MsgType'
  <2>1. CASE RecvDone(c)
    <3>1. PICK m \in queue : /\ queue' = queue \ {m} /\ aioMsg' = [aioMsg EXCEPT ![c] = <<"req", m>>]
                             /\ route' = [route EXCEPT ![c] = m]
      BY <2>1 DEF RecvDone
    <3>2. m \in Copies /\ <<"req", m>> \in Messages
      BY <1>0 DEF NetType, Messages
    <3> QED
      BY <1>0, <2>1, <3>1, <3>2 DEF RecvDone, NetType, MsgType
  <2>2. CASE SendDone(c)
    BY <1>0, <2>2 DEF SendDone, NetType, MsgType, Messages
  <2>3. CASE Timeout(c)
    BY <1>0, <2>3 DEF Timeout, NetType, MsgType
  <2>4. CASE Callback(c)
    <3>1. NetType' /\ UNCHANGED <<req, route>>
      BY <1>0, <2>4 DEF Callback, NetType
    <3>2. CASE UNCHANGED requestMsg
      BY <1>0, <2>4, <3>1, <3>2 DEF Callback, MsgType, Messages
    <3>3. CASE ~UNCHANGED requestMsg
      <4>1. requestMsg' = [requestMsg EXCEPT ![c] = aioMsg[c][2]] /\ err[c] = "ok" /\ phase[c] = "recv"
            /\ ~stopping[c]
        BY <2>4, <3>3 DEF Callback
      <4>2. aioMsg[c][2] \in Copies
        BY <1>0, <2>4, <4>1 DEF Callback, CtxInv
      <4> QED
        BY <1>0, <2>4, <3>1, <4>1, <4>2 DEF Callback, MsgType, Messages
    <3> QED
      BY <3>2, <3>3
  <2> QED
    BY <2>1, <2>2, <2>3, <2>4 DEF Nng
<1> QED
  BY <1>1, <1>2, <1>3, TypeGroupsNext

LEMMA WorkerTypes == ASSUME IInv, NEW c \in Ctxs, Worker(c) PROVE TypeOK'
<1>0. CtxType /\ MsgType /\ SvcType /\ GateType /\ NetType /\ CtxInv(c)
  BY TypeGroups DEF IInv
<1> USE DEF Goto, ctxVars, svcVars, gateVars, netVars
<1>1. SvcType'
  BY <1>0, ZenonT(30) DEF Worker, Rearm, Wake, Begin, Dispatch, End, Reply, SvcType
<1>2. CtxType'
  <2>1. CASE Rearm(c)
    BY <1>0, <2>1 DEF Rearm, CtxType
  <2>2. CASE Wake(c)
    BY <1>0, <2>2 DEF Wake, CtxType
  <2>3. CASE Begin(c) \/ Dispatch(c) \/ End(c)
    BY <1>0, <2>3 DEF Begin, Dispatch, End, CtxType
  <2>4. CASE Reply(c)
    BY <1>0, <2>4 DEF Reply, CtxType
  <2> QED
    BY <2>1, <2>2, <2>3, <2>4 DEF Worker
<1>3. MsgType'
  <2>1. CASE Rearm(c) \/ Begin(c) \/ Dispatch(c) \/ End(c)
    BY <1>0, <2>1, ZenonT(30) DEF Rearm, Begin, Dispatch, End, MsgType
  <2>2. CASE Wake(c)
    BY <1>0, <2>2 DEF Wake, MsgType
  <2>3. CASE Reply(c)
    <3>1. route[c] \in Copies
      BY <1>0, <2>3 DEF Reply, CtxInv, Serving
    <3> QED
      BY <1>0, <2>3, <3>1 DEF Reply, MsgType, Messages
  <2> QED
    BY <2>1, <2>2, <2>3 DEF Worker
<1>4. GateType'
  <2>1. CASE Rearm(c) \/ Wake(c) \/ Dispatch(c) \/ Reply(c)
    BY <1>0, <2>1, ZenonT(30) DEF Rearm, Wake, Dispatch, Reply, GateType
  <2>2. CASE Begin(c)
    BY <1>0, <2>2 DEF Begin, GateType
  <2>3. CASE End(c)
    BY <1>0, <2>3 DEF End, GateType
  <2> QED
    BY <2>1, <2>2, <2>3 DEF Worker
<1>5. NetType'
  <2>1. CASE Rearm(c) \/ Wake(c) \/ Begin(c) \/ End(c) \/ Reply(c)
    BY <1>0, <2>1, ZenonT(30) DEF Rearm, Wake, Begin, End, Reply, NetType
  <2>2. CASE Dispatch(c)
    BY <1>0, <2>2 DEF Dispatch, NetType
  <2> QED
    BY <2>1, <2>2 DEF Worker
<1> QED
  BY <1>1, <1>2, <1>3, <1>4, <1>5, TypeGroupsNext

LEMMA OwnerTypes == ASSUME IInv, Owner \/ Stop PROVE TypeOK'
<1>0. CtxType /\ MsgType /\ SvcType /\ GateType /\ NetType
  BY TypeGroups DEF IInv
<1> USE DEF ctxVars, svcVars, gateVars, netVars
<1>1. GateType'
  BY <1>0, ZenonT(30) DEF Owner, StartContext, StartFails, Unlisten, TeardownFlag, TeardownCancel,
       TeardownJoin, TeardownFree, CloseSocket, Stop, GateType
<1>2. NetType'
  BY <1>0 DEF Owner, StartContext, StartFails, Unlisten, TeardownFlag, TeardownCancel,
       TeardownJoin, TeardownFree, CloseSocket, Stop, NetType
<1>3. SvcType'
  <2>1. NContexts \in Nat \ {0} /\ next \in 1 .. NContexts
    BY <1>0, RepAssumption DEF SvcType, Ctxs
  <2>2. 1 \in Ctxs /\ (next # NContexts => next + 1 \in Ctxs)
    BY <2>1 DEF Ctxs
  <2>3. CASE StartContext \/ StartFails \/ TeardownFree
    BY <1>0, <2>2, <2>3 DEF StartContext, StartFails, TeardownFree, SvcType
  <2>4. CASE Unlisten \/ TeardownFlag \/ TeardownCancel \/ TeardownJoin \/ CloseSocket \/ Stop
    BY <1>0, <2>4 DEF Unlisten, TeardownFlag, TeardownCancel, TeardownJoin, CloseSocket, Stop, SvcType
  <2> QED
    BY <2>3, <2>4 DEF Owner
<1>4. MsgType'
  <2>1. CASE TeardownFree
    BY <1>0, <2>1 DEF TeardownFree, MsgType, Messages
  <2>2. CASE ~TeardownFree
    BY <1>0, <2>2, ZenonT(30) DEF Owner, StartContext, StartFails, Unlisten, TeardownFlag, TeardownCancel,
         TeardownJoin, CloseSocket, Stop, MsgType
  <2> QED
    BY <2>1, <2>2
<1>5. CtxType'
  <2>1. CASE StartContext
    BY <1>0, <2>1 DEF StartContext, CtxType
  <2>5. CASE StartFails
    <3>1. PICK s \in {"none", "idle"} : aio' = [aio EXCEPT ![next] = s]
      BY <2>5 DEF StartFails
    <3>2. UNCHANGED <<pc, err, phase, event, stopping, resp>>
      BY <2>5, Zenon DEF StartFails
    <3> QED
      BY <1>0, <3>1, <3>2 DEF CtxType
  <2>2. CASE TeardownFlag
    BY <1>0, <2>2 DEF TeardownFlag, CtxType
  <2>6. CASE TeardownFree
    BY <1>0, <2>6 DEF TeardownFree, CtxType
  <2>3. CASE TeardownCancel
    BY <1>0, <2>3 DEF TeardownCancel, CtxType
  <2>4. CASE Unlisten \/ TeardownJoin \/ CloseSocket \/ Stop
    BY <1>0, <2>4, Zenon DEF Unlisten, TeardownJoin, CloseSocket, Stop, CtxType
  <2> QED
    BY <2>1, <2>2, <2>3, <2>4, <2>5, <2>6 DEF Owner
<1> QED
  BY <1>1, <1>2, <1>3, <1>4, <1>5, TypeGroupsNext


LEMMA TypeStep == IInv /\ [Next]_vars => TypeOK'
<1> SUFFICES ASSUME IInv, [Next]_vars PROVE TypeOK'
  OBVIOUS
<1>0. CtxType /\ MsgType /\ SvcType /\ GateType /\ NetType
  BY TypeGroups DEF IInv
<1>1. CASE UNCHANGED vars
  <2>1. UNCHANGED <<ctxVars, svcVars, gateVars, netVars>>
    BY <1>1 DEF vars
  <2>2. CtxType' /\ MsgType'
    BY <1>0, <2>1, ZenonT(30) DEF ctxVars, CtxType, MsgType
  <2>3. SvcType' /\ GateType' /\ NetType'
    BY <1>0, <2>1, ZenonT(30) DEF svcVars, gateVars, netVars, SvcType, GateType, NetType
  <2> QED
    BY <2>2, <2>3, TypeGroupsNext
<1>2. ASSUME NEW l \in LimitSettings, SetLimits(l) PROVE TypeOK'
  <2>1. UNCHANGED <<ctxVars, svcVars, inflight, peerInflight, replyBytes, netVars>> /\ limits' = l
    BY <1>2 DEF SetLimits
  <2>2. CtxType' /\ MsgType'
    BY <1>0, <2>1, ZenonT(30) DEF ctxVars, CtxType, MsgType
  <2>3. SvcType' /\ GateType' /\ NetType'
    BY <1>0, <2>1, ZenonT(30) DEF svcVars, netVars, SvcType, GateType, NetType
  <2> QED
    BY <2>2, <2>3, TypeGroupsNext
<1>3. ASSUME NEW r \in Reqs, Send(r) PROVE TypeOK'
  <2>1. UNCHANGED <<ctxVars, svcVars, gateVars>>
    BY <1>3 DEF Send
  <2>2. CtxType' /\ MsgType'
    BY <1>0, <2>1, ZenonT(30) DEF ctxVars, CtxType, MsgType
  <2>3. SvcType' /\ GateType'
    BY <1>0, <2>1, ZenonT(30) DEF svcVars, gateVars, SvcType, GateType
  <2>4. <<r, sent[r] + 1>> \in Copies
    <3>1. sent[r] \in Nat /\ MaxSends[r] \in Nat /\ sent[r] < MaxSends[r]
      BY <1>0, <1>3, RepAssumption DEF Send, NetType
    <3>2. <<r, sent[r] + 1>> \in {r} \X (1 .. MaxSends[r])
      BY <3>1
    <3> QED
      BY <3>2 DEF Copies
  <2>5. NetType'
    BY <1>0, <1>3, <2>4 DEF Send, NetType
  <2> QED
    BY <2>2, <2>3, <2>5, TypeGroupsNext
<1> QED
  BY <1>1, <1>2, <1>3, NngTypes, WorkerTypes, OwnerTypes DEF Next

-----------------------------------------------------------------------------
LEMMA InitIInv == Init => IInv
<1> SUFFICES ASSUME Init PROVE IInv
  OBVIOUS
<1>1. CtxType /\ NetType /\ GateType
  BY DEF Init, CtxType, NetType, GateType
<1>2. MsgType /\ SvcType
  BY ContextRange DEF Init, MsgType, SvcType, Messages
<1>3. \A c \in Ctxs : CtxInv(c)
  BY DEF Init, CtxInv, Serving
<1>4. StageInv
  BY DEF Init, StageInv
<1>5. Counted = {}
  BY DEF Init, Counted
<1>6. InflightExact
  <2>1. \A p \in Peers : {c \in Counted : PeerOf(c) = p} = {}
    BY <1>5
  <2> QED
    BY <1>5, <2>1, FS_EmptySet DEF Init, InflightExact
<1>7. QuotaOvershootBounded
  <2> SUFFICES ASSUME \A l \in LimitSettings : l.bytes > 0 /\ l.perPeer > 0, NEW p \in Peers
               PROVE  replyBytes[p] + peerInflight[p] <= HighBytes - 1 + HighPerPeer
    BY DEF QuotaOvershootBounded
  <2>1. HighBytes \in Nat /\ HighBytes > 0 /\ HighPerPeer \in Nat
    BY HighSettings
  <2>2. replyBytes[p] = 0 /\ peerInflight[p] = 0
    BY DEF Init
  <2> QED
    BY <2>1, <2>2
<1> QED
  BY <1>1, <1>2, <1>3, <1>4, <1>6, <1>7, TypeGroups DEF IInv

LEMMA Inductive == Spec => []IInv
<1>1. IInv /\ [Next]_vars => IInv'
  BY TypeStep, ContextStep, StageStep, InflightStep, QuotaStep DEF IInv
<1> QED
  BY <1>1, InitIInv, PTL DEF Spec

\* The in-flight counters of ducknng_service_begin_request and end_request are
\* exactly the requests being served, the reply quota is exceeded by less than the
\* in-flight limit, and a worker that starts an operation finds its aio idle, the
\* socket open and the route of the request it answers.
THEOREM GateCorrect == Spec => []GateExact
<1>1. IInv => OneOperation
  <2> SUFFICES ASSUME IInv, NEW c \in Ctxs
               PROVE  /\ pc[c] \in {"rearm", "send"} => aio[c] = "idle" /\ sock
                      /\ pc[c] \in {"begin", "authorize", "end", "send"} => route[c] = req[c]
    BY DEF OneOperation
  <2>1. CtxInv(c) /\ StageInv
    BY DEF IInv
  <2> QED
    BY <2>1 DEF CtxInv, StageInv, Serving
<1>2. IInv => GateExact
  BY <1>1 DEF IInv, GateExact
<1> QED
  BY <1>2, Inductive, PTL

\* ducknng_rep_ctx_teardown frees an aio only when its worker has left and no
\* operation or callback is outstanding on it, and ducknng_service_stop closes the
\* socket only after the last aio is gone, on the failure path of start as well.
THEOREM TeardownIsQuiet == Spec => TeardownQuiet
<1> DEFINE Quiet == /\ \A c \in Ctxs : aio[c] # "none" /\ aio'[c] = "none" =>
                          aio[c] = "idle" /\ pc[c] \in {"none", "exited"}
                    /\ sock /\ ~sock' => \A c \in Ctxs : aio[c] = "none"
<1>1. IInv /\ [Next]_vars => Quiet
  <2> SUFFICES ASSUME IInv, [Next]_vars PROVE Quiet
    OBVIOUS
  <2>0. TypeOK /\ StageInv /\ next \in Ctxs
    BY DEF IInv, TypeOK
  <2> USE <2>0, Domains DEF ctxVars, svcVars, gateVars, netVars
  <2>1. ASSUME NEW c \in Ctxs, Nng(c) \/ Worker(c) PROVE Quiet
    <3>1. UNCHANGED sock
      BY <2>1, ZenonT(30) DEF Nng, RecvDone, SendDone, Timeout, Callback,
           Worker, Rearm, Wake, Begin, Dispatch, End, Reply
    <3> QED
      BY <2>1, <3>1, ContextLife
  <2>2. ASSUME \/ UNCHANGED vars \/ Stop \/ Unlisten \/ TeardownFlag \/ TeardownJoin
               \/ (\E r \in Reqs : Send(r)) \/ \E l \in LimitSettings : SetLimits(l)
        PROVE  Quiet
    <3>1. UNCHANGED <<aio, sock>>
      BY <2>2, ZenonT(30) DEF vars, Stop, Unlisten, TeardownFlag, TeardownJoin, Send, SetLimits
    <3> QED
      BY <3>1
  <2>3. CASE StartContext \/ StartFails
    <3>1. aio[next] = "none"
      BY <2>3, ContextRange DEF StartContext, StartFails, StageInv
    <3> QED
      BY <2>3, <3>1 DEF StartContext, StartFails
  <2>4. CASE TeardownCancel
    BY <2>4 DEF TeardownCancel
  <2>5. CASE TeardownFree
    BY <2>5 DEF TeardownFree, StageInv, Gone
  <2>6. CASE CloseSocket
    BY <2>6 DEF CloseSocket, StageInv
  <2> HIDE DEF Quiet
  <2> QED
    BY <2>1, <2>2, <2>3, <2>4, <2>5, <2>6 DEF Next, Owner
<1>2. Spec => [][Quiet]_vars
  BY <1>1, Inductive, PTL DEF Spec
<1> QED
  BY <1>2 DEF TeardownQuiet
=============================================================================
