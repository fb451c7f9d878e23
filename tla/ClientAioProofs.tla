--------------------------- MODULE ClientAioProofs ---------------------------
(***************************************************************************)
(* Proofs about ClientAio for every set of threads and sockets and every   *)
(* number of handles and streams: a finished operation keeps its outcome,  *)
(* and no thread sleeps in a wait while one of its handles has finished.   *)
(*                                                                         *)
(* Neither fact is inductive.  The outcome of a handle is written by NNG's *)
(* callback and, while a receive is launched, by the launching thread; the *)
(* invariant says that only one of them has the handle at a time.  A       *)
(* failed launch publishes a finished handle and wakes nobody; the         *)
(* invariant says that nobody can be waiting for an id before it exists.   *)
(***************************************************************************)
EXTENDS ClientAio, TLAPS

Objects == Sockets \cup Nat
OpStates == {"idle", "busy", "done", "unref", "rearm", "use"}
States == {"none", "pending", "collected", "destroyed"} \cup Terminal
Phases == {"none", "send", "recv", "http", "connect", "write", "headers", "read"}

Goals == Calls \cup {"none", "frame"}

ThreadRecords == [at : Labels, goal : Goals, obj : Objects, hd : Nat,
                  todo : SUBSET Handles, pass : SUBSET Handles]
SlotRecords == [kind : Goals, state : States, phase : Phases, sock : Objects \cup {Free},
                strm : Objects, ref : Objects, reply : {"none", "held"}, claimed : BOOLEAN,
                timed : BOOLEAN]

\* The phases of an open handle that is under way.
OpenPhases == {"connect", "write", "headers"}
PhaseOK(r) == r.kind = "open" /\ r.state = "pending" => r.phase \in OpenPhases

\* The ids handed out so far.
Issued == {h \in Handles : h < nextId}

\* A launching thread in one of these places owns the handle thr[t].hd.
Owning == {"published", "submit", "use"}

TypeInv ==
    /\ thr \in [Threads -> ThreadRecords]
    /\ slot \in [Handles -> SlotRecords]
    /\ op \in [Handles -> OpStates]
    /\ nextId \in Nat /\ aios \subseteq Issued
    /\ \A h \in Handles : PhaseOK(slot[h])

\* A handle is pending while NNG has its operation; one that does not exist yet has
\* no state, and only one that exists and is not destroyed is in the table.
SlotInv ==
    \A h \in Handles :
        /\ h >= nextId => slot[h].state = "none"
        /\ op[h] # "idle" => slot[h].state = "pending"
        /\ h \in aios => slot[h].state \notin {"none", "destroyed"}

\* A launching thread owns a pending handle whose operation NNG does not have; a
\* thread in a drop saw the handle finished; a wait is for ids that exist.
ThreadInv ==
    \A t \in Threads :
        /\ thr[t].at \in Owning =>
              thr[t].hd \in Issued /\ slot[thr[t].hd].state = "pending" /\ op[thr[t].hd] = "idle"
        /\ thr[t].at = "drop" =>
              thr[t].hd \in Issued /\ slot[thr[t].hd].state \notin {"none", "pending"}
        /\ thr[t].todo \subseteq Issued

\* No two launching threads own the same handle.
OwnerInv ==
    \A t, u \in Threads :
        thr[t].at \in Owning /\ thr[u].at \in Owning /\ thr[t].hd = thr[u].hd => t = u

\* The inductive invariant.
AioInv == TypeInv /\ SlotInv /\ ThreadInv /\ OwnerInv /\ NoMissedWakeup

-----------------------------------------------------------------------------

LEMMA InitAioInv == Init => AioInv
<1> SUFFICES ASSUME Init PROVE AioInv
  OBVIOUS
<1>1. IdleThread \in ThreadRecords
  BY DEF IdleThread, ThreadRecords, Labels, Goals, Objects
<1>2. NewSlot \in SlotRecords
  BY DEF NewSlot, SlotRecords, States, Phases, Goals, Objects
<1>3. TypeInv
  BY <1>1, <1>2 DEF Init, NewSlot, TypeInv, OpStates, Issued, PhaseOK
<1> USE DEF Init, IdleThread, NewSlot
<1>4. SlotInv /\ ThreadInv /\ OwnerInv /\ NoMissedWakeup
  BY DEF SlotInv, ThreadInv, OwnerInv, NoMissedWakeup, Owning
<1> QED
  BY <1>3, <1>4 DEF AioInv
-----------------------------------------------------------------------------
(* What the helpers on threads do.                                           *)

LEMMA MoveFacts ==
  ASSUME NEW f \in [Threads -> ThreadRecords], NEW t \in Threads, NEW l \in Labels
  PROVE  /\ Move(f, t, l) \in [Threads -> ThreadRecords]
         /\ \A u \in Threads : u # t => Move(f, t, l)[u] = f[u]
         /\ Move(f, t, l)[t].at = l
         /\ l # "idle" => Move(f, t, l)[t].hd = f[t].hd
         /\ Move(f, t, l)[t].todo \in {{}, f[t].todo}
         /\ l # "idle" => Move(f, t, l)[t].todo = f[t].todo
<1>1. IdleThread \in ThreadRecords /\ IdleThread.todo = {} /\ IdleThread.at = "idle"
  BY DEF IdleThread, ThreadRecords, Labels, Goals, Objects
<1>2. [f[t] EXCEPT !.at = l] \in ThreadRecords
  BY DEF ThreadRecords
<1> QED
  BY <1>1, <1>2 DEF Move, ThreadRecords

LEMMA EnterFacts ==
  ASSUME NEW t \in Threads, NEW l \in Labels, NEW g \in Goals, NEW o \in Objects,
         thr \in [Threads -> ThreadRecords], Enter(t, l, g, o)
  PROVE  /\ thr' \in [Threads -> ThreadRecords]
         /\ \A u \in Threads : u # t => thr'[u] = thr[u]
         /\ thr'[t].at = l /\ thr'[t].todo = {}
<1>1. [IdleThread EXCEPT !.at = l, !.goal = g, !.obj = o] \in ThreadRecords
  BY DEF IdleThread, ThreadRecords
<1> QED
  BY <1>1 DEF Enter, IdleThread

LEMMA BroadcastFacts ==
  ASSUME NEW f \in [Threads -> ThreadRecords]
  PROVE  /\ BroadcastAio(f) \in [Threads -> ThreadRecords]
         /\ \A u \in Threads : /\ f[u].at # "asleep" => BroadcastAio(f)[u] = f[u]
                               /\ f[u].at = "asleep" => BroadcastAio(f)[u].at = "wait"
                               /\ BroadcastAio(f)[u].todo = f[u].todo
<1>1. \A u \in Threads : [f[u] EXCEPT !.at = "wait"] \in ThreadRecords
  BY DEF ThreadRecords, Labels
<1> QED
  BY <1>1 DEF BroadcastAio, ThreadRecords

\* What giving a socket's reference back does to the threads that wait to close it.
WakeClosers(f, s) ==
    [u \in Threads |-> IF f[u].at = "waitrefs" /\ f[u].obj = s
                       THEN [f[u] EXCEPT !.at = "closing"] ELSE f[u]]

LEMMA UnrefFacts ==
  ASSUME NEW f \in [Threads -> ThreadRecords], NEW s, NEW g, g = f \/ g = WakeClosers(f, s)
  PROVE  /\ g \in [Threads -> ThreadRecords]
         /\ \A u \in Threads : \/ g[u] = f[u]
                               \/ f[u].at = "waitrefs" /\ g[u].at = "closing" /\ g[u].todo = f[u].todo
<1>1. \A u \in Threads : [f[u] EXCEPT !.at = "closing"] \in ThreadRecords
  BY DEF ThreadRecords, Labels
<1> QED
  BY <1>1 DEF WakeClosers, ThreadRecords
-----------------------------------------------------------------------------
(* Three kinds of steps preserve the invariant: those that touch no handle,  *)
(* those that touch one existing handle, and those that publish a new one.   *)

\* A thread's part of a step: it stays as it is, or it goes where it neither owns
\* nor drops a handle nor sleeps, and waits for no more than before.
Released(u) ==
    \/ thr'[u] = thr[u]
    \/ /\ thr'[u].at \notin Owning \cup {"drop", "asleep"}
       /\ thr'[u].todo \subseteq thr[u].todo

LEMMA QuietStep ==
  ASSUME AioInv, thr' \in [Threads -> ThreadRecords], op' \in [Handles -> OpStates],
         \A u \in Threads : Released(u),
         UNCHANGED <<slot, aios, nextId>>,
         \A h \in Handles : op'[h] = "idle" <=> op[h] = "idle"
  PROVE  AioInv' /\ OutcomeKept
<1> USE DEF AioInv, Issued
<1>1. TypeInv' /\ SlotInv'
  BY DEF TypeInv, SlotInv
<1>2. ThreadInv'
  BY DEF ThreadInv, Released, Owning, TypeInv
<1>3. OwnerInv'
  BY DEF OwnerInv, Released
<1>4. NoMissedWakeup'
  BY DEF NoMissedWakeup, Released, Collectable
<1>5. OutcomeKept
  BY DEF OutcomeKept, TypeInv
<1> QED
  BY <1>1, <1>2, <1>3, <1>4, <1>5

\* What a step may make of handle h, which exists.
HandleStep(h) ==
    /\ slot[h].state # "none" /\ slot'[h] \in SlotRecords /\ op'[h] \in OpStates
    /\ PhaseOK(slot'[h])
    /\ slot'[h].state # "none"
    /\ op'[h] # "idle" => slot'[h].state = "pending"
    /\ h \in aios' => slot'[h].state # "destroyed"
    /\ slot[h].state # "pending" => slot'[h].state \in {slot[h].state, "collected", "destroyed"}
    /\ slot[h].state = "collected" => slot'[h].state \in {"collected", "destroyed"}
    /\ slot[h].state = "destroyed" => slot'[h] = slot[h]
    /\ slot' = [slot EXCEPT ![h] = slot'[h]] /\ op' = [op EXCEPT ![h] = op'[h]]

\* Nobody sleeps past an end, and no other thread owns the handle.
Seen(u, h) ==
    /\ thr'[u].at = "asleep" => slot'[h].state \notin Terminal \/ slot'[h].state = slot[h].state
    /\ thr'[u].at \in Owning =>
          /\ thr[u].at \in Owning /\ thr'[u].hd = thr[u].hd
          /\ thr'[u].hd = h => slot'[h].state = "pending" /\ op'[h] = "idle"
    /\ thr'[u].at \in {"drop", "asleep"} => thr'[u] = thr[u]
    /\ thr'[u].todo \subseteq thr[u].todo

LEMMA OneHandleStep ==
  ASSUME AioInv, thr' \in [Threads -> ThreadRecords], NEW h \in Handles,
         HandleStep(h), \A u \in Threads : Seen(u, h),
         nextId' = nextId, aios' \in {aios, aios \ {h}}
  PROVE  AioInv' /\ OutcomeKept
<1> USE DEF AioInv, HandleStep
<1>0. h < nextId
  BY DEF SlotInv, TypeInv, Handles
<1>1. \A g \in Handles : g # h => slot'[g] = slot[g] /\ op'[g] = op[g]
  BY DEF TypeInv
<1>2. TypeInv'
  BY DEF TypeInv, Issued
<1>3. SlotInv'
  BY <1>0, <1>1, <1>2 DEF SlotInv, TypeInv, Handles
<1>4. ThreadInv'
  BY <1>1, <1>2 DEF ThreadInv, Seen, Owning, Issued
<1>5. OwnerInv'
  BY DEF OwnerInv, Seen
<1>6. NoMissedWakeup'
  BY <1>1, <1>2 DEF NoMissedWakeup, Seen, Collectable, TypeInv, Issued
<1>7. OutcomeKept
  BY <1>1 DEF OutcomeKept
<1> QED
  BY <1>2, <1>3, <1>4, <1>5, <1>6, <1>7

LEMMA PublishStep ==
  ASSUME AioInv, thr' \in [Threads -> ThreadRecords], op' \in [Handles -> OpStates],
         NEW t \in Threads, NEW rec \in SlotRecords, Publish(nextId, rec),
         rec.state \in {"pending", "error"},
         PhaseOK(rec),
         \A g \in Handles : g # nextId => op'[g] = op[g],
         op'[nextId] # "idle" => rec.state = "pending",
         \A u \in Threads : u # t => thr'[u] = thr[u],
         thr'[t].at \notin {"drop", "asleep"}, thr'[t].todo \subseteq thr[t].todo,
         thr'[t].at \in Owning =>
            thr'[t].hd = nextId /\ rec.state = "pending" /\ op'[nextId] = "idle"
  PROVE  AioInv' /\ OutcomeKept
<1> USE DEF AioInv, Publish
<1>1. /\ \A g \in Handles : g # nextId => slot'[g] = slot[g]
      /\ slot'[nextId] = rec /\ slot[nextId].state = "none"
  BY DEF TypeInv, SlotInv
<1>2. TypeInv'
  <2>1. \A g \in Handles : slot'[g] = rec \/ slot'[g] = slot[g]
    BY <1>1
  <2>2. \A g \in Handles : PhaseOK(slot'[g])
    BY <2>1 DEF TypeInv
  <2>3. slot' \in [Handles -> SlotRecords]
    BY DEF TypeInv
  <2>4. nextId' \in Nat /\ nextId < nextId' /\ \A g \in Issued : g < nextId'
    BY DEF TypeInv, Issued, Handles
  <2>5. aios' \subseteq Issued'
    BY <2>4 DEF TypeInv, Issued
  <2> QED BY <2>2, <2>3, <2>4, <2>5 DEF TypeInv
<1>3. SlotInv'
  BY <1>1, <1>2 DEF SlotInv, TypeInv, Handles, Issued
<1>4. ThreadInv'
  BY <1>1, <1>2 DEF ThreadInv, Owning, TypeInv, Issued, Handles
<1>5. OwnerInv'
  BY <1>1 DEF OwnerInv, ThreadInv, Issued, TypeInv, Handles
<1>6. NoMissedWakeup'
  BY <1>1, <1>2 DEF NoMissedWakeup, Collectable, ThreadInv, TypeInv, Issued, Handles
<1>7. OutcomeKept
  BY <1>1 DEF OutcomeKept
<1> QED
  BY <1>2, <1>3, <1>4, <1>5, <1>6, <1>7
-----------------------------------------------------------------------------
(* The actions, by kind.                                                     *)

LEMMA GotoFacts ==
  ASSUME AioInv, NEW t \in Threads, NEW l \in Labels, Goto(t, l)
  PROVE  /\ thr' \in [Threads -> ThreadRecords]
         /\ \A u \in Threads : u # t => thr'[u] = thr[u]
         /\ thr'[t].at = l
         /\ l # "idle" => thr'[t].hd = thr[t].hd /\ thr'[t].todo = thr[t].todo
         /\ thr'[t].todo \subseteq thr[t].todo
  BY MoveFacts DEF Goto, AioInv, TypeInv

\* Going on to l, where nothing is owned, leaves every other thread alone.
LEMMA GotoReleases ==
  ASSUME AioInv, NEW t \in Threads, NEW l \in Labels \ (Owning \cup {"drop", "asleep"}),
         Goto(t, l)
  PROVE  thr' \in [Threads -> ThreadRecords] /\ \A u \in Threads : Released(u)
  BY GotoFacts DEF Released

LEMMA EnterReleases ==
  ASSUME AioInv, NEW t \in Threads, NEW l \in Labels \ (Owning \cup {"drop", "asleep"}),
         NEW g \in Goals, NEW o \in Objects, Enter(t, l, g, o)
  PROVE  thr' \in [Threads -> ThreadRecords] /\ \A u \in Threads : Released(u)
  BY EnterFacts DEF Released, AioInv, TypeInv

\* The threads' steps on sockets leave the handles alone.
LEMMA SocketSteps ==
  ASSUME AioInv, NEW t \in Threads,
         \/ AcquireBlocked(t) \/ SyncDial(t) \/ SyncListen(t) \/ SyncSend(t) \/ SyncRecv(t)
         \/ SyncRequest(t) \/ SyncSubscribe(t) \/ SyncReturn(t) \/ ReleaseRef(t)
         \/ CloseFree(t) \/ LaunchFails(t)
  PROVE  AioInv' /\ OutcomeKept
<1>a. /\ {"errno", "prep", "enter", "rel", "io", "idle", "waitrefs", "giveup"}
            \subseteq Labels \ (Owning \cup {"drop", "asleep"})
      /\ thr[t].goal \in Goals /\ thr[t].obj \in Objects
      /\ thr \in [Threads -> ThreadRecords] /\ op \in [Handles -> OpStates]
  BY DEF AioInv, TypeInv, Labels, Owning, ThreadRecords
<1>b. SUFFICES /\ UNCHANGED aioVars
               /\ thr' \in [Threads -> ThreadRecords] /\ \A u \in Threads : Released(u)
  BY <1>a, QuietStep DEF aioVars
<1>1. CASE AcquireBlocked(t)
  <2>1. /\ UNCHANGED aioVars
        /\ \E l \in {"errno", "idle", "prep", "enter"} : Enter(t, l, thr[t].goal, thr[t].obj)
    BY <1>1 DEF AcquireBlocked, Grab
  <2> QED BY <1>a, <2>1, EnterReleases
<1>2. CASE \/ SyncDial(t) \/ SyncListen(t) \/ SyncSend(t) \/ SyncRecv(t) \/ SyncRequest(t)
           \/ SyncSubscribe(t)
  <2>1. UNCHANGED aioVars /\ (Goto(t, "rel") \/ Goto(t, "io"))
    BY <1>2 DEF SyncDial, SyncListen, SyncSend, SyncRecv, SyncRequest, SyncSubscribe,
                LockThenCheck, CheckThenLock
  <2> QED BY <1>a, <2>1, GotoReleases
<1>3. CASE SyncReturn(t) \/ CloseFree(t) \/ LaunchFails(t)
  <2>1. UNCHANGED aioVars /\ \E l \in {"rel", "idle", "waitrefs", "giveup"} : Goto(t, l)
    BY <1>3 DEF SyncReturn, CloseFree, LaunchFails
  <2> QED BY <1>a, <2>1, GotoReleases
<1>4. CASE ReleaseRef(t)
  <2> DEFINE l == IF thr[t].at = "rel" THEN "idle" ELSE "errno"
             f == Move(thr, t, l)
  <2>1. UNCHANGED aioVars /\ thr' = Unref(sock, f, thr[t].obj)[2]
    BY <1>4 DEF ReleaseRef
  <2>a. l \in Labels /\ l \in {"idle", "errno"}
    BY DEF Labels
  <2> HIDE DEF l
  <2>2. /\ f \in [Threads -> ThreadRecords]
        /\ \A u \in Threads : u # t => f[u] = thr[u]
        /\ f[t].at \in {"idle", "errno"} /\ f[t].todo \in {{}, thr[t].todo}
    <3>1. thr \in [Threads -> ThreadRecords] /\ t \in Threads /\ l \in Labels
      BY <1>a, <2>a
    <3>2. /\ Move(thr, t, l) \in [Threads -> ThreadRecords]
          /\ \A u \in Threads : u # t => Move(thr, t, l)[u] = thr[u]
          /\ Move(thr, t, l)[t].at = l
          /\ Move(thr, t, l)[t].todo \in {{}, thr[t].todo}
      BY <3>1, MoveFacts, Zenon
    <3> QED BY <2>a, <3>2
  <2> HIDE DEF f
  <2>b. thr' = f \/ thr' = WakeClosers(f, thr[t].obj)
    BY <2>1 DEF Unref, WakeClosers
  <2>c. f \in [Threads -> ThreadRecords]
    BY <2>2
  <2>3. /\ thr' \in [Threads -> ThreadRecords]
        /\ \A u \in Threads : \/ thr'[u] = f[u]
                              \/ /\ f[u].at = "waitrefs" /\ thr'[u].at = "closing"
                                 /\ thr'[u].todo = f[u].todo
    BY <2>b, <2>c, UnrefFacts
  <2> QED BY <2>1, <2>2, <2>3, ZenonT(60) DEF Released, Owning
<1> QED
  BY <1>1, <1>2, <1>3, <1>4

\* Neither does a call that names a socket.
LEMMA SocketCalls ==
  ASSUME AioInv, NEW t \in Threads, NEW s \in Sockets, NEW g \in SocketKinds \cup SyncCalls,
         Acquire(t, g, s) \/ CloseSocket(t, s)
  PROVE  AioInv' /\ OutcomeKept
<1>a. /\ {"acq", "errno", "prep", "enter", "idle", "close"}
            \subseteq Labels \ (Owning \cup {"drop", "asleep"})
      /\ SocketKinds \cup SyncCalls \cup {"close"} \subseteq Goals /\ s \in Objects
      /\ op \in [Handles -> OpStates]
  BY DEF AioInv, TypeInv, Labels, Owning, Goals, Calls, LaunchKinds, SocketKinds, SyncCalls,
         Objects
<1>b. SUFFICES /\ UNCHANGED aioVars
               /\ thr' \in [Threads -> ThreadRecords] /\ \A u \in Threads : Released(u)
  BY <1>a, QuietStep DEF aioVars
<1>1. CASE Acquire(t, g, s)
  <2>1. UNCHANGED aioVars /\ \E l \in {"errno", "acq", "idle", "prep", "enter"} : Enter(t, l, g, s)
    BY <1>1 DEF Acquire, Grab
  <2> QED BY <1>a, <2>1, EnterReleases
<1>2. CASE CloseSocket(t, s)
  <2>1. UNCHANGED aioVars /\ Enter(t, "close", "close", s)
    BY <1>2 DEF CloseSocket
  <2> QED BY <1>a, <2>1, EnterReleases
<1> QED
  BY <1>1, <1>2

\* Calls and steps on streams that touch no handle, and the collect macro's steps
\* between its wait and its rows.
LEMMA StreamSteps ==
  ASSUME AioInv, NEW t \in Threads,
         \/ CancelReservation(t) \/ UnlistStream(t) \/ CloseConnection(t)
         \/ CollectDone(t) \/ WaitTimesOut(t) \/ FilterCollectable(t)
         \/ \E d \in Streams : ReserveReceive(t, d) \/ CloseStream(t, d)
  PROVE  AioInv' /\ OutcomeKept
<1>a. /\ {"errno", "idle", "rows", "filter", "unlist", "reserved", "shut"}
            \subseteq Labels \ (Owning \cup {"drop", "asleep"})
      /\ {"body", "shut"} \subseteq Goals /\ Streams \subseteq Objects
      /\ thr \in [Threads -> ThreadRecords] /\ op \in [Handles -> OpStates]
  BY ClientAssumption DEF AioInv, TypeInv, Labels, Owning, Goals, Calls, LaunchKinds, Objects,
         Streams
<1>b. SUFFICES /\ UNCHANGED <<aios, nextId, slot>> /\ op' \in [Handles -> OpStates]
               /\ \A h \in Handles : op'[h] = "idle" <=> op[h] = "idle"
               /\ thr' \in [Threads -> ThreadRecords] /\ \A u \in Threads : Released(u)
  BY QuietStep
<1>1. CASE CancelReservation(t) \/ UnlistStream(t) \/ CollectDone(t) \/ WaitTimesOut(t)
  <2>1. UNCHANGED aioVars /\ \E l \in {"errno", "idle"} : Goto(t, l)
    BY <1>1 DEF CancelReservation, UnlistStream, CollectDone, WaitTimesOut
  <2> QED BY <1>a, <2>1, GotoReleases DEF aioVars
<1>2. CASE CloseConnection(t)
  <2>1. /\ UNCHANGED <<aios, nextId, slot>> /\ Goto(t, "unlist")
        /\ op' \in [Handles -> OpStates]
        /\ \A h \in Handles : op'[h] = "idle" <=> op[h] = "idle"
    BY <1>a, <1>2 DEF CloseConnection, OpStates
  <2> QED BY <1>a, <2>1, GotoReleases
<1>3. CASE FilterCollectable(t)
  <2>1. CASE thr[t].todo = {}
    BY <1>a, <1>3, <2>1, GotoReleases DEF FilterCollectable, aioVars
  <2>2. CASE thr[t].todo # {}
    <3> DEFINE h == CHOOSE x \in thr[t].todo : \A y \in thr[t].todo : x <= y
               pass == IF h \in Collectable({h}) /\ Family(slot[h].kind) = thr[t].goal
                       THEN thr[t].pass \cup {h} ELSE thr[t].pass
    <3>1. /\ UNCHANGED aioVars /\ thr[t].at = "filter"
          /\ thr' = [thr EXCEPT ![t] = [thr[t] EXCEPT !.todo = @ \ {h}, !.pass = pass]]
      BY <1>3, <2>2 DEF FilterCollectable
    <3>2. pass \subseteq Handles
      BY <1>a DEF Collectable, AioInv, TypeInv, Issued, ThreadRecords
    <3> HIDE DEF h, pass
    <3>3. [thr[t] EXCEPT !.todo = @ \ {h}, !.pass = pass] \in ThreadRecords
      BY <1>a, <3>2 DEF ThreadRecords
    <3> QED BY <1>a, <3>1, <3>3 DEF Released, Owning, aioVars, ThreadRecords
  <2> QED BY <2>1, <2>2
<1>4. ASSUME NEW d \in Streams, ReserveReceive(t, d) \/ CloseStream(t, d)
      PROVE  /\ UNCHANGED aioVars
             /\ thr' \in [Threads -> ThreadRecords] /\ \A u \in Threads : Released(u)
  <2>1. UNCHANGED aioVars /\ \E l \in {"reserved", "errno", "shut"}, g \in {"body", "shut"} : Enter(t, l, g, d)
    BY <1>4 DEF ReserveReceive, CloseStream
  <2> QED BY <1>a, <1>4, <2>1, EnterReleases
<1> QED
  BY <1>a, <1>1, <1>2, <1>3, <1>4 DEF aioVars
\* The steps that begin a wait, a sleep or a drop.
LEMMA WaitSteps ==
  ASSUME AioInv, NEW t \in Threads,
         \/ WaitAny(t)
         \/ \E h \in Known : DropCheck(t, h)
         \/ \E S \in SUBSET Known \ {{}} : \E f \in {Family(slot[h].kind) : h \in S} :
               CollectStart(t, S, f)
  PROVE  AioInv' /\ OutcomeKept
<1>a. /\ {"filter", "idle", "wait"} \subseteq Labels \ (Owning \cup {"drop", "asleep"})
      /\ {"drop", "asleep"} \subseteq Labels \ Owning
      /\ thr \in [Threads -> ThreadRecords] /\ slot \in [Handles -> SlotRecords]
      /\ op \in [Handles -> OpStates] /\ Known \subseteq aios /\ aios \subseteq Issued
      /\ Issued \subseteq Handles /\ Handles \subseteq Nat
  BY DEF AioInv, TypeInv, Labels, Owning, Known, Issued, Handles
<1>b. ASSUME UNCHANGED aioVars, thr' \in [Threads -> ThreadRecords],
             \A u \in Threads : u # t => thr'[u] = thr[u],
             thr'[t].at \notin Owning,
             thr'[t].at = "drop" => thr'[t].hd \in aios /\ slot[thr'[t].hd].state # "pending",
             thr'[t].todo \subseteq Issued,
             thr'[t].at = "asleep" => Collectable(thr'[t].todo) = {}
      PROVE  AioInv' /\ OutcomeKept
  <2> USE <1>a, <1>b DEF AioInv, aioVars
  <2>1. TypeInv' /\ SlotInv'
    BY DEF TypeInv, SlotInv, Issued
  <2>2. ThreadInv'
    <3> SUFFICES ASSUME NEW u \in Threads
                 PROVE  /\ thr'[u].at \in Owning =>
                              /\ thr'[u].hd \in Issued /\ op[thr'[u].hd] = "idle"
                              /\ slot[thr'[u].hd].state = "pending"
                        /\ thr'[u].at = "drop" =>
                              thr'[u].hd \in Issued /\ slot[thr'[u].hd].state \notin {"none", "pending"}
                        /\ thr'[u].todo \subseteq Issued
      BY DEF ThreadInv, Issued
    <3>1. CASE u = t
      BY <3>1 DEF SlotInv
    <3>2. CASE u # t
      BY <3>2 DEF ThreadInv
    <3> QED BY <3>1, <3>2
  <2>3. OwnerInv'
    BY DEF OwnerInv
  <2>4. NoMissedWakeup'
    BY DEF NoMissedWakeup, Collectable
  <2>5. OutcomeKept
    BY DEF OutcomeKept
  <2> QED BY <2>1, <2>2, <2>3, <2>4, <2>5
<1>1. CASE WaitAny(t)
  <2>1. UNCHANGED aioVars /\ thr[t].todo \subseteq Issued
    BY <1>1 DEF WaitAny, AioInv, ThreadInv
  <2>2. CASE \E l \in {"filter", "idle"} : Goto(t, l)
    BY <1>a, <2>1, <2>2, GotoReleases, QuietStep DEF aioVars
  <2>3. CASE Goto(t, "asleep") /\ Collectable(thr[t].todo) = {}
    <3>1. /\ thr' \in [Threads -> ThreadRecords] /\ \A u \in Threads : u # t => thr'[u] = thr[u]
          /\ thr'[t].at = "asleep" /\ thr'[t].todo = thr[t].todo
      BY <1>a, <2>3, GotoFacts
    <3> QED BY <1>a, <1>b, <2>1, <2>3, <3>1
  <2> QED BY <1>1, <2>2, <2>3 DEF WaitAny
<1>2. ASSUME NEW h \in Known, DropCheck(t, h) PROVE AioInv' /\ OutcomeKept
  <2>1. /\ UNCHANGED aioVars /\ slot[h].state # "pending"
        /\ thr' = [thr EXCEPT ![t] = [thr[t] EXCEPT !.at = "drop", !.hd = h]]
    BY <1>2 DEF DropCheck
  <2>2. [thr[t] EXCEPT !.at = "drop", !.hd = h] \in ThreadRecords
    BY <1>a DEF ThreadRecords
  <2>3. /\ thr' \in [Threads -> ThreadRecords] /\ \A u \in Threads : u # t => thr'[u] = thr[u]
        /\ thr'[t].at = "drop" /\ thr'[t].hd = h /\ thr'[t].todo = thr[t].todo
    BY <1>a, <2>1, <2>2 DEF ThreadRecords
  <2>4. thr[t].todo \subseteq Issued
    BY DEF AioInv, ThreadInv
  <2> QED BY <1>a, <1>b, <2>1, <2>3, <2>4
<1>3. ASSUME NEW S \in SUBSET Known, NEW h \in S, CollectStart(t, S, Family(slot[h].kind))
      PROVE  AioInv' /\ OutcomeKept
  <2> DEFINE f == Family(slot[h].kind)
  <2>0. f \in Goals
    BY DEF Family, Goals, Calls, LaunchKinds
  <2>1. /\ UNCHANGED aioVars
        /\ thr' = [thr EXCEPT ![t] = [IdleThread EXCEPT !.at = "wait", !.goal = f, !.todo = S]]
    BY <1>3 DEF CollectStart
  <2> HIDE DEF f
  <2>2. [IdleThread EXCEPT !.at = "wait", !.goal = f, !.todo = S] \in ThreadRecords
    BY <1>a, <2>0 DEF IdleThread, ThreadRecords, Objects
  <2>3. /\ thr' \in [Threads -> ThreadRecords] /\ \A u \in Threads : u # t => thr'[u] = thr[u]
        /\ thr'[t].at = "wait" /\ thr'[t].todo = S
    BY <1>a, <2>1, <2>2 DEF IdleThread
  <2> QED BY <1>a, <1>b, <2>1, <2>3
<1> QED
  BY <1>1, <1>2, <1>3

-----------------------------------------------------------------------------
(* Launches                                                                  *)

\* A failed launch publishes a handle that has ended.
LEMMA ErrorHandle ==
  ASSUME AioInv, NEW t \in Threads, NEW k \in Goals, TerminalError(k),
         thr' \in [Threads -> ThreadRecords], \A u \in Threads : Released(u),
         \A u \in Threads : u # t => thr'[u] = thr[u], thr[t].at \in {"idle", "errno"}
  PROVE  AioInv' /\ OutcomeKept
<1> DEFINE rec == [NewSlot EXCEPT !.kind = k, !.state = "error"]
<1>1. /\ rec \in SlotRecords /\ rec.state = "error" /\ rec.phase = "none"
  BY DEF NewSlot, SlotRecords, Objects, States, Phases, Terminal
<1>2. Publish(nextId, rec) /\ op' = op
  BY DEF TerminalError
<1>3. op \in [Handles -> OpStates] /\ op[nextId] = "idle"
  BY <1>2 DEF AioInv, TypeInv, SlotInv, Publish
<1>4. /\ thr'[t].at \notin Owning \cup {"drop", "asleep"}
      /\ thr'[t].todo \subseteq thr[t].todo
  BY DEF Released, Owning
<1> HIDE DEF rec
<1> QED
  BY <1>1, <1>2, <1>3, <1>4, PublishStep DEF PhaseOK

\* A launch that gets through publishes a pending handle and hands it to NNG.
LEMMA PendingHandle ==
  ASSUME AioInv, NEW t \in Threads, NEW rec \in SlotRecords, Publish(nextId, rec),
         rec.state = "pending",
         PhaseOK(rec),
         op' = [op EXCEPT ![nextId] = "busy"],
         thr' \in [Threads -> ThreadRecords], \A u \in Threads : Released(u),
         \A u \in Threads : u # t => thr'[u] = thr[u], thr[t].at \in {"idle", "prep"}
  PROVE  AioInv' /\ OutcomeKept
<1>1. /\ op' \in [Handles -> OpStates] /\ \A g \in Handles : g # nextId => op'[g] = op[g]
  BY DEF AioInv, TypeInv, OpStates
<1>2. /\ thr'[t].at \notin Owning \cup {"drop", "asleep"}
      /\ thr'[t].todo \subseteq thr[t].todo
  BY DEF Released, Owning
<1> QED
  BY <1>1, <1>2, PublishStep
LEMMA LaunchSteps ==
  ASSUME AioInv, NEW t \in Threads,
         \/ GiveErrorHandle(t) \/ LaunchSocketRequest(t) \/ LaunchSocketSend(t)
         \/ LaunchSocketRecv(t) \/ LaunchUrl(t) \/ LaunchNcurl(t) \/ LaunchOpen(t)
  PROVE  AioInv' /\ OutcomeKept
<1>a. /\ "idle" \in Labels \ (Owning \cup {"drop", "asleep"})
      /\ thr[t].goal \in Goals /\ thr[t].obj \in Objects
      /\ thr \in [Threads -> ThreadRecords] /\ Timed \subseteq BOOLEAN
      /\ LaunchKinds \subseteq Goals
  BY ClientAssumption DEF AioInv, TypeInv, Labels, Owning, ThreadRecords, Goals, Calls
<1>b. ASSUME thr' = thr
      PROVE  /\ thr' \in [Threads -> ThreadRecords] /\ \A u \in Threads : Released(u)
             /\ \A u \in Threads : u # t => thr'[u] = thr[u]
  BY <1>a, <1>b DEF Released
<1>c. ASSUME Goto(t, "idle")
      PROVE  /\ thr' \in [Threads -> ThreadRecords] /\ \A u \in Threads : Released(u)
             /\ \A u \in Threads : u # t => thr'[u] = thr[u]
  BY <1>a, <1>c, GotoReleases, GotoFacts
<1>1. CASE GiveErrorHandle(t)
  BY <1>a, <1>c, <1>1, ErrorHandle DEF GiveErrorHandle
<1>2. ASSUME NEW k \in SocketKinds, NEW ph \in {"send", "recv"}, LaunchOnSocket(t, k, ph)
      PROVE  AioInv' /\ OutcomeKept
  <2>1. PICK b \in Timed :
          Publish(nextId, [NewSlot EXCEPT !.kind = k, !.state = "pending", !.timed = b,
                           !.phase = ph, !.sock = thr[t].obj])
    BY <1>2 DEF LaunchOnSocket
  <2> DEFINE rec == [NewSlot EXCEPT !.kind = k, !.state = "pending", !.timed = b,
                                    !.phase = ph, !.sock = thr[t].obj]
  <2>2. rec \in SlotRecords /\ rec.state = "pending" /\ rec.kind # "open"
    BY <1>a DEF NewSlot, SlotRecords, Objects, States, Phases, LaunchKinds, SocketKinds
  <2>3. op' = [op EXCEPT ![nextId] = "busy"] /\ Goto(t, "idle") /\ thr[t].at = "prep"
    BY <1>2 DEF LaunchOnSocket
  <2> HIDE DEF rec
  <2> QED BY <1>c, <2>1, <2>2, <2>3, PendingHandle DEF rec, PhaseOK
<1>3. ASSUME NEW k \in LaunchKinds \ {"open"}, NEW ph \in {"send", "http"}, LaunchDirect(t, k, ph)
      PROVE  AioInv' /\ OutcomeKept
  <2>1. CASE TerminalError(k)
    BY <1>a, <1>b, <1>3, <2>1, ErrorHandle DEF LaunchDirect
  <2>2. ASSUME NEW b \in Timed,
               Publish(nextId, [NewSlot EXCEPT !.kind = k, !.state = "pending", !.timed = b,
                                !.phase = ph]),
               op' = [op EXCEPT ![nextId] = "busy"]
        PROVE  AioInv' /\ OutcomeKept
    <3> DEFINE rec == [NewSlot EXCEPT !.kind = k, !.state = "pending", !.timed = b, !.phase = ph]
    <3>1. rec \in SlotRecords /\ rec.state = "pending" /\ rec.kind # "open"
      BY <1>a DEF NewSlot, SlotRecords, Objects, States, Phases
    <3>2. thr' = thr /\ thr[t].at = "idle"
      BY <1>3 DEF LaunchDirect
    <3> HIDE DEF rec
    <3> QED BY <1>b, <2>2, <3>1, <3>2, PendingHandle DEF rec, PhaseOK
  <2> QED BY <1>3, <2>1, <2>2 DEF LaunchDirect
<1>4. CASE LaunchOpen(t)
  <2>0. thr' = thr /\ thr[t].at = "idle" /\ "open" \in Goals
    BY <1>a, <1>4 DEF LaunchOpen, LaunchKinds
  <2>1. CASE TerminalError("open")
    BY <1>b, <2>0, <2>1, ErrorHandle
  <2>2. ASSUME NEW b \in Timed, nextStream \in Streams,
               Publish(nextId, [NewSlot EXCEPT !.kind = "open", !.state = "pending",
                                !.phase = "connect", !.timed = b, !.strm = nextStream]),
               op' = [op EXCEPT ![nextId] = "busy"]
        PROVE  AioInv' /\ OutcomeKept
    <3> DEFINE rec == [NewSlot EXCEPT !.kind = "open", !.state = "pending",
                                      !.phase = "connect", !.timed = b, !.strm = nextStream]
    <3>0. nextStream \in Nat
      BY <2>2, ClientAssumption DEF Streams
    <3>1. rec \in SlotRecords /\ rec.state = "pending" /\ rec.phase = "connect"
      BY <1>a, <2>0, <3>0 DEF NewSlot, SlotRecords, Objects, States, Phases
    <3> HIDE DEF rec
    <3> QED BY <1>b, <2>0, <2>2, <3>1, PendingHandle DEF rec, PhaseOK, OpenPhases
  <2> QED BY <1>4, <2>1, <2>2 DEF LaunchOpen
<1>5. CASE LaunchSocketRequest(t) \/ LaunchSocketSend(t) \/ LaunchSocketRecv(t)
  BY <1>2, <1>5 DEF LaunchSocketRequest, LaunchSocketSend, LaunchSocketRecv, SocketKinds
<1>6. CASE LaunchUrl(t) \/ LaunchNcurl(t)
  BY <1>3, <1>6 DEF LaunchUrl, LaunchNcurl, LaunchKinds
<1> QED
  BY <1>1, <1>4, <1>5, <1>6
-----------------------------------------------------------------------------
(* The launch of a receive, whose thread owns the handle it publishes.       *)

\* A step of NNG or of a callback on handle h: no thread owns h, and those that
\* sleep are woken when h ends.
LEMMA CallbackStep ==
  ASSUME AioInv, NEW h \in Handles, op[h] # "idle", HandleStep(h),
         thr' \in [Threads -> ThreadRecords], nextId' = nextId, aios' = aios,
         \A u \in Threads : Released(u),
         slot'[h].state \in Terminal => \A u \in Threads : thr'[u].at # "asleep"
  PROVE  AioInv' /\ OutcomeKept
<1>1. ASSUME NEW u \in Threads PROVE Seen(u, h)
  BY <1>1 DEF Seen, Released, Owning, AioInv, ThreadInv
<1> QED
  BY <1>1, OneHandleStep

\* A step of the thread that owns h and gives it up, or keeps it pending.
LEMMA OwnerStep ==
  ASSUME AioInv, NEW t \in Threads, NEW h \in Handles, HandleStep(h),
         thr[t].at \in Owning, thr[t].hd = h,
         thr' \in [Threads -> ThreadRecords], nextId' = nextId, aios' \in {aios, aios \ {h}},
         \A u \in Threads : u # t => Released(u),
         thr'[t].todo \subseteq thr[t].todo, thr'[t].at \notin {"drop", "asleep"},
         thr'[t].at \in Owning =>
            thr'[t].hd = h /\ slot'[h].state = "pending" /\ op'[h] = "idle",
         slot'[h].state \in Terminal => \A u \in Threads : thr'[u].at # "asleep"
  PROVE  AioInv' /\ OutcomeKept
<1>1. ASSUME NEW u \in Threads PROVE Seen(u, h)
  <2>1. CASE u = t
    BY <2>1 DEF Seen
  <2>2. CASE u # t
    BY <2>2 DEF Seen, Released, Owning, AioInv, OwnerInv
  <2> QED BY <2>1, <2>2
<1> QED
  BY <1>1, OneHandleStep

LEMMA RegisterSteps ==
  ASSUME AioInv, NEW t \in Threads, RegisterReceive(t)
  PROVE  AioInv' /\ OutcomeKept
<1>a. /\ "unreserve" \in Labels \ (Owning \cup {"drop", "asleep"})
      /\ "published" \in Labels /\ thr[t].obj \in Objects /\ Timed \subseteq BOOLEAN
      /\ thr \in [Threads -> ThreadRecords] /\ op \in [Handles -> OpStates] /\ nextId \in Nat
  BY ClientAssumption DEF AioInv, TypeInv, Labels, Owning, ThreadRecords
<1>1. CASE Goto(t, "unreserve") /\ UNCHANGED aioVars
  BY <1>a, <1>1, GotoReleases, QuietStep DEF aioVars
<1>2. ASSUME NEW b \in Timed, UNCHANGED op,
             thr' = [thr EXCEPT ![t].at = "published", ![t].hd = nextId],
             Publish(nextId, [NewSlot EXCEPT !.kind = "body", !.state = "pending",
                              !.phase = "read", !.timed = b, !.strm = thr[t].obj,
                              !.ref = thr[t].obj])
      PROVE  AioInv' /\ OutcomeKept
  <2> DEFINE rec == [NewSlot EXCEPT !.kind = "body", !.state = "pending", !.phase = "read",
                                    !.timed = b, !.strm = thr[t].obj, !.ref = thr[t].obj]
  <2>1. rec \in SlotRecords /\ rec.state = "pending" /\ rec.kind # "open"
    BY <1>a DEF NewSlot, SlotRecords, Objects, States, Phases, Goals, Calls, LaunchKinds
  <2>2. /\ thr' \in [Threads -> ThreadRecords] /\ \A u \in Threads : u # t => thr'[u] = thr[u]
        /\ thr'[t].at = "published" /\ thr'[t].hd = nextId /\ thr'[t].todo = thr[t].todo
    <3>1. [thr[t] EXCEPT !.at = "published", !.hd = nextId] \in ThreadRecords
      BY <1>a DEF ThreadRecords
    <3> QED BY <1>a, <1>2, <3>1 DEF ThreadRecords
  <2>3. op[nextId] = "idle"
    BY <1>2 DEF AioInv, TypeInv, SlotInv, Publish
  <2> HIDE DEF rec
  <2> QED BY <1>a, <1>2, <2>1, <2>2, <2>3, PublishStep DEF rec, PhaseOK
<1> QED
  BY <1>1, <1>2 DEF RegisterReceive
\* A pending handle that a step ends, and whose operation is at rest.
LEMMA EndStep ==
  ASSUME AioInv, NEW h \in Handles, slot[h].state = "pending", NEW s \in Terminal, NEW out,
         Ended(h, s, out), op' = [op EXCEPT ![h] = "idle"], aios' = aios
  PROVE  HandleStep(h) /\ slot'[h].state = s
<1>1. slot \in [Handles -> SlotRecords] /\ op \in [Handles -> OpStates]
  BY DEF AioInv, TypeInv
<1> DEFINE rec == [slot[h] EXCEPT !.state = s, !.ref = 0,
                                  !.reply = IF out = "data" THEN "held" ELSE @]
<1>2. slot' = [slot EXCEPT ![h] = rec]
  BY DEF Ended
<1>3. /\ rec \in SlotRecords /\ rec.state = s
      /\ rec.kind = slot[h].kind /\ rec.phase = slot[h].phase
  BY <1>1 DEF SlotRecords, States, Objects
<1> HIDE DEF rec
<1>4. slot'[h] = rec /\ op'[h] = "idle"
  BY <1>1, <1>2
<1> QED
  BY <1>1, <1>2, <1>3, <1>4 DEF HandleStep, AioInv, TypeInv, OpStates, Terminal, PhaseOK

\* Waking the sleepers after thread t has gone on to l.
LEMMA WakeFacts ==
  ASSUME AioInv, NEW t \in Threads, NEW l \in Labels \ (Owning \cup {"drop", "asleep"}),
         thr' = BroadcastAio(Move(thr, t, l))
  PROVE  /\ thr' \in [Threads -> ThreadRecords]
         /\ \A u \in Threads : Released(u) /\ thr'[u].at # "asleep"
         /\ thr'[t].at \notin Owning \cup {"drop"} /\ thr'[t].todo \subseteq thr[t].todo
<1> DEFINE f == Move(thr, t, l)
<1>1. /\ f \in [Threads -> ThreadRecords] /\ \A u \in Threads : u # t => f[u] = thr[u]
      /\ f[t].at = l /\ f[t].todo \in {{}, thr[t].todo}
  BY MoveFacts DEF AioInv, TypeInv
<1> HIDE DEF f
<1> QED
  BY <1>1, BroadcastFacts DEF f, Released, Owning

LEMMA WakeAllFacts ==
  ASSUME AioInv, thr' = BroadcastAio(thr)
  PROVE  /\ thr' \in [Threads -> ThreadRecords]
         /\ \A u \in Threads : Released(u) /\ thr'[u].at # "asleep"
  BY BroadcastFacts DEF AioInv, TypeInv, Released, Owning

LEMMA DestroyStep ==
  ASSUME AioInv, NEW h \in Handles, slot[h].state \notin {"none", "destroyed"}, op[h] = "idle",
         slot' = [slot EXCEPT ![h] = DestroyedSlot(@)], op' = op, aios' = aios \ {h}
  PROVE  HandleStep(h) /\ slot'[h].state = "destroyed"
<1>1. slot \in [Handles -> SlotRecords] /\ op \in [Handles -> OpStates]
  BY DEF AioInv, TypeInv
<1> DEFINE rec == DestroyedSlot(slot[h])
<1>2. rec \in SlotRecords /\ rec.state = "destroyed" /\ rec.phase = "none"
  BY <1>1 DEF DestroyedSlot, NewSlot, SlotRecords, States, Objects, Phases
<1> HIDE DEF rec
<1>3. slot'[h] = rec /\ slot' = [slot EXCEPT ![h] = rec]
  BY <1>1 DEF rec
<1> QED
  BY <1>1, <1>2, <1>3 DEF HandleStep, PhaseOK

LEMMA BeginSteps ==
  ASSUME AioInv, NEW t \in Threads, BeginReceive(t) \/ SubmitReceive(t) \/ UseConnection(t)
  PROVE  AioInv' /\ OutcomeKept
<1> DEFINE h == thr[t].hd  d == thr[t].obj
<1>a. /\ thr[t].at \in Owning /\ h \in Handles /\ slot[h].state = "pending" /\ op[h] = "idle"
      /\ slot \in [Handles -> SlotRecords] /\ op \in [Handles -> OpStates]
      /\ {"unreserve", "idle"} \subseteq Labels \ (Owning \cup {"drop", "asleep"})
      /\ {"submit", "use"} \subseteq Labels \ {"drop", "asleep"}
      /\ {"ready", "error"} \subseteq Terminal
  BY DEF BeginReceive, SubmitReceive, UseConnection, AioInv, TypeInv, ThreadInv, Owning, Issued,
         Labels, Terminal
<1>b. op = [op EXCEPT ![h] = "idle"]
  BY <1>a
<1>1. CASE /\ aios' = aios \ {h} /\ slot' = [slot EXCEPT ![h] = DestroyedSlot(@)]
           /\ Goto(t, "unreserve") /\ UNCHANGED <<nextId, op>>
  <2>1. HandleStep(h) /\ slot'[h].state = "destroyed"
    BY <1>a, <1>1, DestroyStep
  <2> QED
    BY <1>a, <1>1, <2>1, GotoFacts, OwnerStep, ZenonT(60) DEF Released, Terminal
<1>2. CASE /\ UNCHANGED <<aios, slot, nextId, op>>
           /\ Goto(t, "submit") \/ Goto(t, "use")
  <2>1. HandleStep(h)
    BY <1>a, <1>2 DEF HandleStep, AioInv, TypeInv
  <2> QED
    BY <1>a, <1>2, <2>1, GotoFacts, OwnerStep, ZenonT(60) DEF Released, Terminal, Owning
<1>3. ASSUME NEW s \in {"ready", "error"}, NEW out, Ended(h, s, out),
             thr' = BroadcastAio(Move(thr, t, "idle")), UNCHANGED <<aios, nextId, op>>
      PROVE  AioInv' /\ OutcomeKept
  <2>1. HandleStep(h) /\ slot'[h].state = s
    BY <1>a, <1>b, <1>3, EndStep
  <2> QED
    BY <1>a, <1>3, <2>1, WakeFacts, OwnerStep
<1>4. ASSUME NEW o \in {"busy", "done"}, op' = [op EXCEPT ![h] = o], Goto(t, "idle"),
             UNCHANGED <<aios, nextId, slot>>
      PROVE  AioInv' /\ OutcomeKept
  <2>1. HandleStep(h) /\ slot'[h].state = "pending"
    BY <1>a, <1>4 DEF HandleStep, AioInv, TypeInv, OpStates
  <2> QED
    BY <1>a, <1>4, <2>1, GotoFacts, OwnerStep DEF Released, Terminal, Owning
<1> HIDE DEF h
<1>5. CASE BeginReceive(t)
  BY <1>1, <1>2, <1>3, <1>5 DEF BeginReceive, h
<1>6. CASE SubmitReceive(t)
  BY <1>2, <1>3, <1>6 DEF SubmitReceive, h
<1>7. CASE UseConnection(t)
  BY <1>4, <1>7 DEF UseConnection, StartRead, h
<1> QED
  BY <1>5, <1>6, <1>7
-----------------------------------------------------------------------------
(* Drop and collect                                                          *)

LEMMA DropSteps ==
  ASSUME AioInv, NEW t \in Threads, DropRemove(t)
  PROVE  AioInv' /\ OutcomeKept
<1> DEFINE h == thr[t].hd
<1>a. /\ h \in Handles /\ slot[h].state \notin {"none", "pending"} /\ op[h] = "idle"
      /\ h \in aios => slot[h].state # "destroyed"
      /\ "idle" \in Labels \ (Owning \cup {"drop", "asleep"})
      /\ op \in [Handles -> OpStates]
  BY DEF DropRemove, AioInv, TypeInv, ThreadInv, SlotInv, Issued, Labels, Owning
<1>b. Goto(t, "idle") /\ UNCHANGED <<nextId, op>>
  BY DEF DropRemove
<1>1. CASE h \in aios
  <2>1. aios' = aios \ {h} /\ slot' = [slot EXCEPT ![h] = DestroyedSlot(@)]
    BY <1>1 DEF DropRemove
  <2>2. HandleStep(h) /\ slot'[h].state = "destroyed"
    BY <1>a, <1>b, <1>1, <2>1, DestroyStep
  <2>3. ASSUME NEW u \in Threads PROVE Seen(u, h)
    <3>1. /\ u # t => thr'[u] = thr[u]
          /\ u = t => thr'[u].at = "idle" /\ thr'[u].todo \subseteq thr[u].todo
      BY <1>a, <1>b, GotoFacts
    <3>2. thr[u].at \in Owning => thr[u].hd # h
      BY <1>a DEF AioInv, ThreadInv
    <3> QED BY <2>2, <3>1, <3>2 DEF Seen, Terminal, Owning
  <2> QED BY <1>a, <1>b, <2>1, <2>2, <2>3, GotoFacts, OneHandleStep
<1>2. CASE h \notin aios
  <2>1. UNCHANGED <<aios, slot>>
    BY <1>2 DEF DropRemove
  <2> QED BY <1>a, <1>b, <2>1, GotoReleases, QuietStep
<1> QED
  BY <1>1, <1>2

\* A row takes a finished handle and leaves it collected.
LEMMA RowStep ==
  ASSUME AioInv, NEW t \in Threads, NEW f, NEW states \in SUBSET (Terminal \cup {"collected"}),
         NEW rec, CollectRow(t, f, states, rec),
         NextRow(t) \in Handles =>
            /\ rec \in SlotRecords /\ rec.kind = slot[NextRow(t)].kind
            /\ rec.phase = slot[NextRow(t)].phase
  PROVE  AioInv' /\ OutcomeKept
<1> DEFINE h == NextRow(t)
<1>a. /\ thr \in [Threads -> ThreadRecords] /\ slot \in [Handles -> SlotRecords]
      /\ op \in [Handles -> OpStates] /\ aios \subseteq Handles
  BY DEF AioInv, TypeInv, Issued
<1>b. /\ thr' \in [Threads -> ThreadRecords] /\ thr[t].at = "rows"
      /\ \A u \in Threads : u # t => thr'[u] = thr[u]
      /\ thr'[t].at = "rows" /\ thr'[t].todo = thr[t].todo
  <2>1. thr' = [thr EXCEPT ![t] = [thr[t] EXCEPT !.pass = @ \ {h}]] /\ thr[t].at = "rows"
    BY DEF CollectRow
  <2>2. [thr[t] EXCEPT !.pass = @ \ {h}] \in ThreadRecords
    BY <1>a DEF ThreadRecords
  <2> QED BY <1>a, <2>1, <2>2 DEF ThreadRecords
<1>c. UNCHANGED <<aios, nextId, op>>
  BY DEF CollectRow
<1>1. CASE h \in aios /\ slot[h].state \in states
  <2> DEFINE new == [rec EXCEPT !.state = "collected"]
  <2>1. slot' = [slot EXCEPT ![h] = new]
    BY <1>1 DEF CollectRow
  <2>2. /\ h \in Handles /\ new \in SlotRecords /\ new.state = "collected"
        /\ new.kind = slot[h].kind /\ new.phase = slot[h].phase
    BY <1>a, <1>1 DEF SlotRecords, States
  <2> HIDE DEF new, h
  <2>3. slot'[h] = new /\ op'[h] = "idle" /\ op[h] = "idle" /\ slot[h].state # "pending"
    BY <1>a, <1>c, <1>1, <2>1, <2>2 DEF AioInv, SlotInv, Terminal
  <2>4. HandleStep(h)
    BY <1>a, <1>c, <1>1, <2>1, <2>2, <2>3 DEF HandleStep, AioInv, TypeInv, Terminal, PhaseOK
  <2>5. ASSUME NEW u \in Threads PROVE Seen(u, h)
    BY <1>b, <2>2, <2>3, SMTT(30) DEF Seen, Terminal, Owning, AioInv, ThreadInv
  <2> QED BY <1>b, <1>c, <2>2, <2>4, <2>5, OneHandleStep
<1>2. CASE ~(h \in aios /\ slot[h].state \in states)
  <2>1. UNCHANGED slot
    BY <1>2 DEF CollectRow
  <2> QED BY <1>a, <1>b, <1>c, <2>1, QuietStep DEF Released, Owning
<1> QED
  BY <1>1, <1>2

LEMMA CollectSteps ==
  ASSUME AioInv, NEW t \in Threads,
         CollectFrame(t) \/ CollectNcurl(t) \/ CollectOpen(t) \/ CollectBody(t)
  PROVE  AioInv' /\ OutcomeKept
<1> DEFINE r == slot[NextRow(t)]
<1>a. slot \in [Handles -> SlotRecords]
  BY DEF AioInv, TypeInv
<1>1. NextRow(t) \in Handles =>
        /\ [r EXCEPT !.reply = "none"] \in SlotRecords
        /\ [r EXCEPT !.reply = "none"].kind = r.kind /\ [r EXCEPT !.reply = "none"].phase = r.phase
  BY <1>a DEF SlotRecords
<1>2. NextRow(t) \in Handles => \A b \in BOOLEAN :
        /\ [r EXCEPT !.claimed = b] \in SlotRecords
        /\ [r EXCEPT !.claimed = b].kind = r.kind /\ [r EXCEPT !.claimed = b].phase = r.phase
  BY <1>a DEF SlotRecords
<1>3. NextRow(t) \in Handles => r \in SlotRecords
  BY <1>a
<1>4. (r.state = "ready" /\ strm[r.strm].listed) \in BOOLEAN
  OBVIOUS
<1>5. CASE CollectFrame(t) \/ CollectBody(t)
  BY <1>1, <1>5, RowStep DEF CollectFrame, CollectBody
<1>6. CASE CollectNcurl(t)
  BY <1>3, <1>6, RowStep DEF CollectNcurl
<1>7. CASE CollectOpen(t)
  BY <1>2, <1>4, <1>7, RowStep DEF CollectOpen
<1> QED
  BY <1>5, <1>6, <1>7
-----------------------------------------------------------------------------
(* NNG and the callback                                                      *)

\* A step that moves the operation of h and leaves its slot pending.
LEMMA OperationStep ==
  ASSUME AioInv, NEW h \in Handles, op[h] # "idle", NEW o \in OpStates,
         op' = [op EXCEPT ![h] = o], NEW ph \in Phases,
         slot[h].kind = "open" => ph \in OpenPhases,
         slot' = [slot EXCEPT ![h].phase = ph], UNCHANGED <<thr, aios, nextId>>
  PROVE  AioInv' /\ OutcomeKept
<1>a. /\ slot[h].state = "pending" /\ slot \in [Handles -> SlotRecords]
      /\ op \in [Handles -> OpStates] /\ thr \in [Threads -> ThreadRecords]
  BY DEF AioInv, TypeInv, SlotInv
<1> DEFINE rec == [slot[h] EXCEPT !.phase = ph]
<1>1. rec \in SlotRecords /\ rec.state = "pending" /\ rec.kind = slot[h].kind /\ rec.phase = ph
  BY <1>a DEF SlotRecords
<1>2. slot' = [slot EXCEPT ![h] = rec]
  OBVIOUS
<1> HIDE DEF rec
<1>3. slot'[h] = rec /\ op'[h] = o
  BY <1>a, <1>2
<1>4. HandleStep(h)
  BY <1>a, <1>1, <1>2, <1>3 DEF HandleStep, PhaseOK
<1> QED
  BY <1>a, <1>1, <1>3, <1>4, CallbackStep DEF Released, Terminal

LEMMA SubmitSteps ==
  ASSUME AioInv, NEW h \in Handles,
         \/ NngCompletes(h) \/ NngExpires(h) \/ CancelAio(h) \/ CallbackBlocked(h)
         \/ CallbackSent(h) \/ Resubmit(h) \/ ResubmitBody(h)
  PROVE  AioInv' /\ OutcomeKept
<1>a. /\ slot \in [Handles -> SlotRecords] /\ slot[h].phase \in Phases
      /\ slot = [slot EXCEPT ![h].phase = slot[h].phase] /\ op \in [Handles -> OpStates]
      /\ op[h] # "idle" => (slot[h].kind = "open" => slot[h].phase \in OpenPhases)
  BY DEF AioInv, TypeInv, SlotInv, SlotRecords, PhaseOK
<1>1. CASE CallbackSent(h)
  <2>1. /\ op[h] # "idle" /\ op' = [op EXCEPT ![h] = "rearm"] /\ UNCHANGED <<thr, aios, nextId>>
        /\ slot' = [slot EXCEPT ![h].phase = "recv"] /\ slot[h].kind # "open"
    BY <1>1 DEF CallbackSent
  <2> QED BY <2>1, OperationStep DEF OpStates, Phases
<1>2. CASE \/ NngCompletes(h) \/ NngExpires(h) \/ CancelAio(h) \/ CallbackBlocked(h)
           \/ Resubmit(h) \/ ResubmitBody(h)
  <2>1. /\ op[h] # "idle" /\ UNCHANGED <<thr, aios, nextId, slot>>
        /\ \E o \in OpStates : op' = [op EXCEPT ![h] = o]
    BY <1>a, <1>2 DEF NngCompletes, NngExpires, Complete, CancelAio, CallbackBlocked, Resubmit,
                      ResubmitBody, StartRead, OpStates
  <2> QED BY <1>a, <2>1, OperationStep
<1> QED
  BY <1>1, <1>2

\* The terminal state of an operation on a socket, or on none.
LEMMA FinishStep ==
  ASSUME AioInv, NEW h \in Handles, op[h] # "idle", NEW st \in Terminal, Finish(h, st),
         op' = [op EXCEPT ![h] = "idle"], UNCHANGED <<aios, nextId>>
  PROVE  AioInv' /\ OutcomeKept
<1>a. /\ slot[h].state = "pending" /\ slot \in [Handles -> SlotRecords]
      /\ op \in [Handles -> OpStates] /\ thr \in [Threads -> ThreadRecords]
  BY DEF AioInv, TypeInv, SlotInv
<1> DEFINE rec == [slot[h] EXCEPT !.state = st, !.sock = Free,
                                  !.reply = IF st = "ready" /\ slot[h].kind # "send"
                                            THEN "held" ELSE @]
           f == IF slot[h].sock = Free THEN thr ELSE Unref(sock, thr, slot[h].sock)[2]
<1>1. /\ rec \in SlotRecords /\ rec.state = st
      /\ rec.kind = slot[h].kind /\ rec.phase = slot[h].phase
  BY <1>a, ZenonT(60) DEF SlotRecords, States
<1>2. slot' = [slot EXCEPT ![h] = rec] /\ thr' = BroadcastAio(f)
  BY DEF Finish
<1> HIDE DEF rec
<1>3. slot'[h] = rec /\ op'[h] = "idle"
  BY <1>a, <1>2
<1>4. HandleStep(h)
  BY <1>a, <1>1, <1>2, <1>3 DEF HandleStep, AioInv, TypeInv, OpStates, Terminal, PhaseOK
<1>5. /\ f \in [Threads -> ThreadRecords]
      /\ \A u \in Threads : \/ f[u] = thr[u]
                            \/ f[u].at = "closing" /\ f[u].todo = thr[u].todo
  <2>1. CASE slot[h].sock = Free
    BY <1>a, <2>1
  <2>2. CASE slot[h].sock # Free
    <3>1. f = thr \/ f = WakeClosers(thr, slot[h].sock)
      BY <2>2 DEF Unref, WakeClosers
    <3> HIDE DEF f
    <3> QED BY <1>a, <3>1, UnrefFacts
  <2> QED BY <2>1, <2>2
<1> HIDE DEF f
<1>6. /\ thr' \in [Threads -> ThreadRecords]
      /\ \A u \in Threads : Released(u) /\ thr'[u].at # "asleep"
  BY <1>2, <1>5, BroadcastFacts DEF Released, Owning
<1> QED
  BY <1>4, <1>6, CallbackStep

LEMMA CallbackSteps ==
  ASSUME AioInv, NEW h \in Handles,
         CallbackEnds(h) \/ CallbackOpen(h) \/ CallbackBody(h) \/ ResubmitFails(h)
  PROVE  AioInv' /\ OutcomeKept
<1>a. /\ op[h] # "idle" /\ slot[h].state = "pending" /\ slot \in [Handles -> SlotRecords]
      /\ op \in [Handles -> OpStates] /\ thr \in [Threads -> ThreadRecords]
      /\ UNCHANGED <<aios, nextId>>
  BY DEF CallbackEnds, CallbackOpen, CallbackBody, ResubmitFails, AioInv, TypeInv, SlotInv
<1>1. CASE CallbackEnds(h)
  <2>1. StateOf(res[h]) \in Terminal /\ "error" \in Terminal
    BY DEF StateOf, Terminal
  <2>2. \E st \in Terminal : Finish(h, st) /\ op' = [op EXCEPT ![h] = "idle"]
    BY <1>1, <2>1 DEF CallbackEnds, OpRests
  <2> QED BY <1>a, <2>2, FinishStep
<1>2. ASSUME NEW s \in Terminal, NEW out, Ended(h, s, out), OpRests(h), thr' = BroadcastAio(thr)
      PROVE  AioInv' /\ OutcomeKept
  <2>1. HandleStep(h) /\ slot'[h].state = s
    BY <1>a, <1>2, EndStep DEF OpRests
  <2> QED BY <1>a, <1>2, <2>1, WakeAllFacts, CallbackStep
<1>3. ASSUME NEW s \in Terminal, slot' = [slot EXCEPT ![h].state = s], OpRests(h),
             thr' = BroadcastAio(thr)
      PROVE  AioInv' /\ OutcomeKept
  <2> DEFINE rec == [slot[h] EXCEPT !.state = s]
  <2>1. /\ rec \in SlotRecords /\ rec.state = s
        /\ rec.kind = slot[h].kind /\ rec.phase = slot[h].phase
    BY <1>a DEF SlotRecords, States
  <2>2. slot' = [slot EXCEPT ![h] = rec]
    BY <1>3
  <2> HIDE DEF rec
  <2>3. slot'[h] = rec /\ op'[h] = "idle" /\ op' = [op EXCEPT ![h] = "idle"]
    BY <1>a, <1>3, <2>2 DEF OpRests
  <2>4. HandleStep(h)
    BY <1>a, <2>1, <2>2, <2>3 DEF HandleStep, AioInv, TypeInv, OpStates, Terminal, PhaseOK
  <2> QED BY <1>a, <1>3, <2>1, <2>4, WakeAllFacts, CallbackStep
<1>4. CASE CallbackOpen(h)
  <2>1. CASE /\ slot[h].kind = "open" /\ slot[h].phase # "headers"
             /\ slot' = [slot EXCEPT ![h].phase = [connect |-> "write", write |-> "headers"][@]]
             /\ op' = [op EXCEPT ![h] = "rearm"] /\ UNCHANGED thr
    <3> DEFINE ph == [connect |-> "write", write |-> "headers"][slot[h].phase]
    <3>1. slot[h].phase \in {"connect", "write"}
      BY <1>a, <2>1 DEF AioInv, TypeInv, PhaseOK, OpenPhases
    <3>2. ph \in OpenPhases /\ ph \in Phases
      <4>1. CASE slot[h].phase = "connect"
        BY <4>1 DEF OpenPhases, Phases
      <4>2. CASE slot[h].phase = "write"
        BY <4>2 DEF OpenPhases, Phases
      <4> QED BY <3>1, <4>1, <4>2
    <3>3. slot' = [slot EXCEPT ![h].phase = ph]
      BY <2>1
    <3> HIDE DEF ph
    <3> QED BY <1>a, <2>1, <3>2, <3>3, OperationStep DEF OpStates
  <2>2. CASE slot' = [slot EXCEPT ![h].state = "ready"] /\ OpRests(h) /\ thr' = BroadcastAio(thr)
    BY <1>3, <2>2 DEF Terminal
  <2>3. CASE /\ slot' = [slot EXCEPT ![h].state = IF res[h] = "cancel" THEN "cancelled" ELSE "error"]
             /\ OpRests(h) /\ thr' = BroadcastAio(thr)
    BY <1>3, <2>3 DEF Terminal
  <2> QED BY <1>4, <2>1, <2>2, <2>3 DEF CallbackOpen
<1>5. CASE CallbackBody(h)
  <2>1. CASE op' = [op EXCEPT ![h] = "rearm"] /\ UNCHANGED <<thr, slot>>
    <3>1. /\ slot' = [slot EXCEPT ![h].phase = slot[h].phase] /\ slot[h].phase \in Phases
          /\ slot[h].kind = "open" => slot[h].phase \in OpenPhases
      BY <1>a, <2>1 DEF SlotRecords, AioInv, TypeInv, PhaseOK
    <3> QED BY <1>a, <2>1, <3>1, OperationStep DEF OpStates
  <2>2. CASE \E s \in Terminal, out \in BodyOutcomes :
                Ended(h, s, out) /\ OpRests(h) /\ thr' = BroadcastAio(thr)
    BY <1>2, <2>2
  <2> QED BY <1>5, <2>1, <2>2 DEF CallbackBody, Terminal, BodyOutcomes
<1>6. CASE ResubmitFails(h)
  BY <1>2, <1>6 DEF ResubmitFails, Terminal
<1> QED
  BY <1>1, <1>4, <1>5, <1>6
-----------------------------------------------------------------------------
(* Theorems                                                                  *)

LEMMA NextAioInv ==
  ASSUME AioInv, [Next]_vars
  PROVE  AioInv' /\ (OutcomeKept \/ UNCHANGED vars)
<1>1. CASE UNCHANGED vars
  <2>1. /\ thr' \in [Threads -> ThreadRecords] /\ op' \in [Handles -> OpStates]
        /\ UNCHANGED <<thr, op, slot, aios, nextId>>
    BY <1>1 DEF vars, aioVars, AioInv, TypeInv
  <2> QED BY <1>1, <2>1, QuietStep DEF Released
<1>2. ASSUME NEW t \in Threads, ThreadStep(t) PROVE AioInv' /\ OutcomeKept
  BY <1>2, SocketSteps, StreamSteps, WaitSteps, LaunchSteps, RegisterSteps, BeginSteps, DropSteps,
     CollectSteps DEF ThreadStep
<1>3. ASSUME NEW t \in Threads, SqlCall(t) PROVE AioInv' /\ OutcomeKept
  <2>1. ASSUME NEW s \in Sockets, CloseSocket(t, s) PROVE AioInv' /\ OutcomeKept
    <3>1. "send" \in SocketKinds \cup SyncCalls
      BY DEF SocketKinds
    <3> QED BY <2>1, <3>1, SocketCalls
  <2>2. ASSUME NEW s \in Sockets, NEW g \in SocketKinds \cup SyncCalls, Acquire(t, g, s)
        PROVE  AioInv' /\ OutcomeKept
    BY <2>2, SocketCalls
  <2>3. CASE LaunchOpen(t) \/ LaunchUrl(t) \/ LaunchNcurl(t)
    BY <2>3, LaunchSteps
  <2>4. CASE \E d \in Streams : ReserveReceive(t, d) \/ CloseStream(t, d)
    BY <2>4, StreamSteps
  <2>5. CASE \/ \E h \in Known : DropCheck(t, h)
             \/ \E S \in SUBSET Known \ {{}} : \E f \in {Family(slot[h].kind) : h \in S} :
                   CollectStart(t, S, f)
    BY <2>5, WaitSteps
  <2> QED BY <1>3, <2>1, <2>2, <2>3, <2>4, <2>5 DEF SqlCall
<1>4. ASSUME NEW h \in Handles,
             Callback(h) \/ NngCompletes(h) \/ NngExpires(h) \/ CancelAio(h)
      PROVE  AioInv' /\ OutcomeKept
  BY <1>4, SubmitSteps, CallbackSteps DEF Callback
<1>5. ASSUME NEW s \in Sockets, OpenSocket(s) PROVE AioInv' /\ OutcomeKept
  <2>1. /\ thr' \in [Threads -> ThreadRecords] /\ op' \in [Handles -> OpStates]
        /\ UNCHANGED <<thr, op, slot, aios, nextId>>
    BY <1>5 DEF OpenSocket, aioVars, AioInv, TypeInv
  <2> QED BY <2>1, QuietStep DEF Released
<1> QED
  BY <1>1, <1>2, <1>3, <1>4, <1>5 DEF Next

\* The inductive invariant of the aio handles holds under every interleaving of SQL
\* threads, NNG's completions and ducknng_client_aio_cb.
THEOREM AioInductive == Spec => []AioInv
<1>1. Init => AioInv
  BY InitAioInv
<1>2. AioInv /\ [Next]_vars => AioInv'
  BY NextAioInv
<1> QED
  BY <1>1, <1>2, PTL DEF Spec

\* ducknng_wait_any_for_ids never sleeps through the end of an operation, for any
\* number of threads and handles, although a failed launch broadcasts nothing.
THEOREM NoWakeupMissed == Spec => []NoMissedWakeup
<1>1. AioInv => NoMissedWakeup
  BY DEF AioInv
<1> QED
  BY <1>1, AioInductive, PTL

\* The outcome of an operation is final: no late callback, cancellation, drop or
\* second collection changes the state of a handle that has ended.
THEOREM OutcomesFinal == Spec => OutcomeFinal
<1>1. AioInv /\ [Next]_vars => [OutcomeKept]_vars
  BY NextAioInv
<1> QED
  BY <1>1, AioInductive, PTL DEF Spec, OutcomeFinal
=============================================================================
