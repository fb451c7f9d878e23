------------------------ MODULE ExecutionPoolProofs ------------------------
(***************************************************************************)
(* Proofs about ExecutionPool for every number of services, threads and    *)
(* pool entries and every pattern of calls between services: the pool's    *)
(* ledger is exact, it implements ConnectionLease, and no connection       *)
(* carries the subject of a request that does not hold it.                 *)
(***************************************************************************)
EXTENDS ExecutionPoolFrames

USE Basics DEF svcVars, poolVars, leaseVars, threadVars, Procs, Goto,
               Resting, Scope, RelPcs, ThreadPcs, StopPcs, AdminPcs

-----------------------------------------------------------------------------
(* The ledger                                                                *)

\* What HolderOf makes of the ledger.
HolderFacts ==
    \A c \in Pool :
        /\ \A p \in Procs : Owns(p, c) => HolderOf(c) = <<"frame", p>>
        /\ \A s \in Services : execCon[s] = c => HolderOf(c) = <<"service", s>>
        /\ sess[c] # None => HolderOf(c) = <<"session", sess[c]>>
        /\ c \notin busy => HolderOf(c) = <<"free">>

\* With an exact ledger, HolderOf names the one holder.
LEMMA LedgerHolders == TypeOK /\ ControlInv /\ LedgerInv => HolderFacts
<1> SUFFICES ASSUME TypeOK, ControlInv, LedgerInv, NEW c \in Pool
             PROVE  /\ \A p \in Procs : Owns(p, c) => HolderOf(c) = <<"frame", p>>
                    /\ \A s \in Services : execCon[s] = c => HolderOf(c) = <<"service", s>>
                    /\ sess[c] # None => HolderOf(c) = <<"session", sess[c]>>
                    /\ c \notin busy => HolderOf(c) = <<"free">>
  BY DEF HolderFacts
<1>1. LedgerOK(c)
  BY DEF LedgerInv
<1>2. \A p \in Procs : con[p] = c => Owns(p, c) \/ \E s \in Services : execCon[s] = c
  <2>1. ASSUME NEW p \in Threads, con[p] = c, mode[p] = "service"
        PROVE  execCon[Home[p]] = c /\ Home[p] \in Services
    BY <2>1 DEF ControlInv, FrameInv, FrameOK, Pins, Pool, Conns
  <2>2. mode[Admin] # "service"
    BY DEF ControlInv, AdminInv
  <2> QED BY <2>1, <2>2 DEF Owns
<1>3. ASSUME NEW p \in Procs, Owns(p, c) PROVE HolderOf(c) = <<"frame", p>>
  <2>1. sess[c] = None /\ \A s \in Services : execCon[s] # c
    BY <1>1, <1>3 DEF LedgerOK
  <2>2. \A q \in Procs : con[q] = c => q = p
    BY <1>1, <1>2, <1>3, <2>1 DEF LedgerOK
  <2>3. con[p] = c
    BY <1>3 DEF Owns
  <2>4. (CHOOSE q \in Procs : con[q] = c) = p
    BY <2>2, <2>3
  <2> QED BY <2>1, <2>3, <2>4 DEF HolderOf
<1>4. ASSUME NEW s \in Services, execCon[s] = c PROVE HolderOf(c) = <<"service", s>>
  <2>1. sess[c] = None /\ \A r \in Services : execCon[r] = c => r = s
    BY <1>1, <1>4 DEF LedgerOK
  <2>2. (CHOOSE r \in Services : execCon[r] = c) = s
    BY <1>4, <2>1
  <2> QED BY <1>4, <2>1, <2>2 DEF HolderOf
<1>5. sess[c] # None => HolderOf(c) = <<"session", sess[c]>>
  BY DEF HolderOf
<1>6. c \notin busy => HolderOf(c) = <<"free">>
  BY <1>1, <1>2 DEF HolderOf, LedgerOK
<1> QED
  BY <1>3, <1>4, <1>5, <1>6

\* Nothing about entry c changes.
Same(c) ==
    /\ c \in busy' <=> c \in busy
    /\ \A p \in Procs : Owns(p, c)' <=> Owns(p, c)
    /\ \A s \in Services : execCon'[s] = c <=> execCon[s] = c
    /\ sess'[c] = sess[c]

\* An untouched entry keeps its ledger line.
LEMMA SameLedger ==
  ASSUME NEW c \in Pool, LedgerOK(c), Same(c)
  PROVE  LedgerOK(c)'
BY DEF LedgerOK, Same

\* An untouched entry keeps its holder.
LEMMA SameHolder ==
  ASSUME NEW c \in Pool, LedgerOK(c), Same(c), HolderFacts, HolderFacts'
  PROVE  HolderOf(c)' = HolderOf(c)
<1>1. CASE c \notin busy
  BY <1>1 DEF Same, HolderFacts
<1>2. CASE sess[c] # None
  BY <1>2 DEF Same, HolderFacts
<1>3. ASSUME NEW s \in Services, execCon[s] = c PROVE HolderOf(c)' = HolderOf(c)
  BY <1>3 DEF Same, HolderFacts
<1>4. ASSUME NEW p \in Procs, Owns(p, c) PROVE HolderOf(c)' = HolderOf(c)
  <2>1. Owns(p, c)'
    BY <1>4 DEF Same
  <2> QED BY <1>4, <2>1 DEF HolderFacts
<1> QED
  BY <1>1, <1>2, <1>3, <1>4 DEF LedgerOK

LeaseStep == [Lease!Next]_([c \in Pool |-> HolderOf(c)])

\* A step that changes no holder.
LEMMA QuietLedger ==
  ASSUME PoolInv, TypeOK', ControlInv', \A c \in Pool : Same(c)
  PROVE  LedgerInv' /\ LeaseStep
<1>1. LedgerInv'
  BY SameLedger DEF PoolInv, LedgerInv
<1>2. HolderFacts /\ HolderFacts'
  <2>1. TypeOK /\ ControlInv /\ LedgerInv => HolderFacts
    BY LedgerHolders
  <2>2. (TypeOK /\ ControlInv /\ LedgerInv => HolderFacts)'
    BY LedgerHolders, PTL
  <2> QED BY <1>1, <2>1, <2>2 DEF PoolInv, ControlInv
<1>3. \A c \in Pool : HolderOf(c)' = HolderOf(c)
  BY <1>2, SameHolder DEF PoolInv, LedgerInv
<1> QED
  BY <1>1, <1>3 DEF LeaseStep

\* A step that moves one entry between the pool, a frame and a keeper.
LEMMA MoveLedger ==
  ASSUME PoolInv, TypeOK', ControlInv', NEW c \in Pool, LedgerOK(c)',
         \A d \in Pool \ {c} : Same(d),
         \/ /\ c \notin busy
            /\ (\E p \in Procs : Owns(p, c)') \/ (\E s \in Services : execCon'[s] = c)
         \/ (\E p \in Procs : Owns(p, c)) /\ (c \notin busy' \/ sess'[c] # None)
         \/ /\ sess[c] # None \/ \E s \in Services : execCon[s] = c
            /\ \E p \in Procs : Owns(p, c)'
  PROVE  LedgerInv' /\ LeaseStep
<1>1. LedgerInv'
  BY SameLedger DEF PoolInv, LedgerInv
<1>2. HolderFacts /\ HolderFacts'
  <2>1. TypeOK /\ ControlInv /\ LedgerInv => HolderFacts
    BY LedgerHolders
  <2>2. (TypeOK /\ ControlInv /\ LedgerInv => HolderFacts)'
    BY LedgerHolders, PTL
  <2> QED BY <1>1, <2>1, <2>2 DEF PoolInv, ControlInv
<1>3. \A d \in Pool \ {c} : HolderOf(d)' = HolderOf(d)
  BY <1>2, SameHolder DEF PoolInv, LedgerInv
<1> DEFINE Frames == {"frame"} \X Procs
           Keepers == {"service", "session"} \X Services
<1>4. /\ (\E p \in Procs : Owns(p, c)) => HolderOf(c) \in Frames
      /\ (\E p \in Procs : Owns(p, c)') => HolderOf(c)' \in Frames
      /\ (\E s \in Services : execCon[s] = c) => HolderOf(c) \in Keepers
      /\ (\E s \in Services : execCon'[s] = c) => HolderOf(c)' \in Keepers
      /\ c \notin busy => HolderOf(c) = <<"free">>
      /\ c \notin busy' => HolderOf(c)' = <<"free">>
  BY <1>2 DEF HolderFacts
<1>5. /\ sess[c] # None => HolderOf(c) \in Keepers
      /\ sess'[c] # None => HolderOf(c)' \in Keepers
  <2>1. (TypeOK => Ranges)'
    BY TypeRanges, PTL
  <2>2. sess[c] \in Services \cup {None} /\ sess'[c] \in Services \cup {None}
    BY <2>1, TypeRanges DEF PoolInv, Ranges
  <2> QED BY <1>2, <2>2 DEF HolderFacts
<1> HIDE DEF Frames, Keepers
<1>6. \/ HolderOf(c) \in {<<"free">>} /\ HolderOf(c)' \in Frames \cup Keepers
      \/ HolderOf(c) \in Frames /\ HolderOf(c)' \in {<<"free">>}
      \/ HolderOf(c) \in Frames /\ HolderOf(c)' \in Keepers
      \/ HolderOf(c) \in Keepers /\ HolderOf(c)' \in Frames
  BY <1>4, <1>5, Zenon
<1>7. Lease!Lease(c) \/ Lease!Return(c) \/ Lease!PassToKeeper(c) \/ Lease!TakeFromKeeper(c)
  BY <1>3, <1>6 DEF Lease!Lease, Lease!Return, Lease!PassToKeeper, Lease!TakeFromKeeper, Lease!Moves,
                    Frames, Keepers
<1> QED
  BY <1>1, <1>7 DEF LeaseStep, Lease!Next

\* A frame gives its entry back to the pool.
LEMMA ReturnLedger ==
  ASSUME PoolInv, TypeOK', ControlInv', NEW p \in Procs, Owns(p, con[p]), con[p] \in Pool,
         busy' = busy \ {con[p]}, con' = [con EXCEPT ![p] = None], UNCHANGED <<execCon, sess>>,
         \A q \in Procs \ {p} : mode'[q] = mode[q]
  PROVE  LedgerInv' /\ LeaseStep
<1>c. PICK c \in Pool : c = con[p]
  OBVIOUS
<1>1. LedgerOK(c) /\ Owns(p, c) /\ busy' = busy \ {c}
  BY <1>c DEF PoolInv, LedgerInv
<1>2. \A q \in Procs : con'[q] = IF q = p THEN None ELSE con[q]
  BY TypeDomains DEF PoolInv, Domains
<1>a. None \notin Pool
  BY DEF Conns
<1>3. ASSUME NEW d \in Pool \ {c} PROVE Same(d)
  BY <1>1, <1>2, <1>3, <1>a DEF Same, Owns
<1>4. \A q \in Procs : ~Owns(q, c)'
  BY <1>1, <1>2, <1>a DEF LedgerOK, Owns
<1>5. LedgerOK(c)' /\ c \notin busy'
  BY <1>1, <1>4 DEF LedgerOK
<1> QED
  BY <1>1, <1>3, <1>5, MoveLedger

\* A frame takes over the entry of a session.
LEMMA SessionLedger ==
  ASSUME PoolInv, TypeOK', ControlInv', NEW p \in Procs, NEW c \in Pool, sess[c] # None,
         con[p] \notin Pool, mode[p] # "service", UNCHANGED <<busy, execCon, mode>>,
         con' = [con EXCEPT ![p] = c], sess' = [sess EXCEPT ![c] = None]
  PROVE  LedgerInv' /\ LeaseStep
<1>1. LedgerOK(c)
  BY DEF PoolInv, LedgerInv
<1>2. /\ \A q \in Procs : con'[q] = IF q = p THEN c ELSE con[q]
      /\ \A d \in Pool : sess'[d] = IF d = c THEN None ELSE sess[d]
  BY TypeDomains DEF PoolInv, Domains
<1>3. ASSUME NEW d \in Pool \ {c} PROVE Same(d)
  BY <1>2, <1>3 DEF Same, Owns
<1>4. \A q \in Procs : Owns(q, c)' <=> q = p
  BY <1>1, <1>2 DEF LedgerOK, Owns
<1>5. LedgerOK(c)'
  BY <1>1, <1>2, <1>4 DEF LedgerOK
<1> QED
  BY <1>3, <1>4, <1>5, MoveLedger

\* The administrator takes over the connection a service has pinned, if it has one.
LEMMA PinnedLedger ==
  ASSUME PoolInv, TypeOK', ControlInv', NEW s \in Services, con[Admin] = None,
         UNCHANGED <<busy, sess, mode>>,
         con' = [con EXCEPT ![Admin] = execCon[s]], execCon' = [execCon EXCEPT ![s] = None]
  PROVE  LedgerInv' /\ LeaseStep
<1>c. PICK c : c = execCon[s]
  OBVIOUS
<1>1. /\ \A q \in Procs : con'[q] = IF q = Admin THEN c ELSE con[q]
      /\ \A r \in Services : execCon'[r] = IF r = s THEN None ELSE execCon[r]
      /\ c \in Pool \cup {None} /\ None \notin Pool /\ mode[Admin] # "service"
  <2>1. Domains /\ Ranges /\ AdminInv
    BY TypeDomains, TypeRanges DEF PoolInv
  <2> QED BY <1>c, <2>1 DEF Domains, Ranges, AdminInv, Conns
<1>2. CASE c = None
  <2>1. ASSUME NEW d \in Pool PROVE Same(d)
    BY <1>c, <1>1, <1>2, <2>1 DEF Same, Owns
  <2> QED BY <2>1, QuietLedger
<1>3. CASE c \in Pool
  <2>1. LedgerOK(c)
    BY <1>3 DEF PoolInv, LedgerInv
  <2>2. ASSUME NEW d \in Pool \ {c} PROVE Same(d)
    BY <1>c, <1>1, <2>2 DEF Same, Owns
  <2>3. \A q \in Procs : Owns(q, c)' <=> q = Admin
    BY <1>c, <1>1, <2>1 DEF LedgerOK, Owns
  <2>4. LedgerOK(c)'
    BY <1>c, <1>1, <1>3, <2>1, <2>3 DEF LedgerOK
  <2> QED BY <1>c, <1>3, <2>2, <2>3, <2>4, MoveLedger
<1> QED
  BY <1>1, <1>2, <1>3

\* An acquired entry was free, and goes to the thread or to its service.
LEMMA AcquireLedger ==
  ASSUME PoolInv, TypeOK', ControlInv', NEW t \in Threads, Acquire(t)
  PROVE  LedgerInv' /\ LeaseStep
<1>1. PICK c \in Obtainable :
          /\ busy' = busy \cup {c} /\ con' = [con EXCEPT ![t] = c]
          /\ execCon' = IF mode[t] = "service" THEN [execCon EXCEPT ![Home[t]] = c] ELSE execCon
  BY DEF Acquire, Take
<1>2. c \in Pool /\ c \notin busy /\ None \notin Pool
  BY <1>1, ObtainableType DEF PoolInv, Conns
<1>3. /\ \A q \in Procs : con'[q] = IF q = t THEN c ELSE con[q]
      /\ con[t] = None /\ UNCHANGED <<sess, mode>>
  <2>1. Domains /\ FrameOK(t)
    BY TypeDomains DEF PoolInv, FrameInv
  <2> QED BY <1>1, <2>1 DEF Acquire, Domains, FrameOK
<1>4. /\ LedgerOK(c) /\ sess[c] = None
      /\ \A q \in Procs : ~Owns(q, c)
      /\ \A s \in Services : execCon[s] # c
  BY <1>2 DEF PoolInv, LedgerInv, LedgerOK
<1>5. CASE mode[t] = "service"
  <2>1. \A s \in Services : execCon'[s] = IF s = Home[t] THEN c ELSE execCon[s]
    BY <1>1, <1>5, TypeDomains DEF PoolInv, Domains
  <2>2. execCon[Home[t]] = None /\ Home[t] \in Services
    BY <1>5 DEF PoolInv, FrameInv, FrameOK, Pins, Acquire
  <2>3. ASSUME NEW q \in Procs, NEW d \in Pool PROVE Owns(q, d)' <=> Owns(q, d)
    <3>1. q = t => mode[q] = "service" /\ mode'[q] = "service"
      BY <1>3, <1>5
    <3>2. q # t => con'[q] = con[q] /\ mode'[q] = mode[q]
      BY <1>3
    <3> QED BY <3>1, <3>2 DEF Owns
  <2>4. ASSUME NEW d \in Pool \ {c} PROVE Same(d)
    <3>1. d \in busy' <=> d \in busy
      BY <1>1, <2>4
    <3>2. \A s \in Services : execCon'[s] = d <=> execCon[s] = d
      BY <1>2, <2>1, <2>2, <2>4
    <3> QED BY <1>3, <2>3, <2>4, <3>1, <3>2 DEF Same
  <2>5. LedgerOK(c)'
    <3>1. \A q \in Procs : ~Owns(q, c)'
      BY <1>2, <1>4, <2>3
    <3>2. c \in busy' /\ sess'[c] = None /\ \A s \in Services : execCon'[s] = c <=> s = Home[t]
      BY <1>1, <1>3, <1>4, <2>1
    <3> QED BY <2>2, <3>1, <3>2 DEF LedgerOK
  <2> QED BY <1>2, <2>1, <2>2, <2>4, <2>5, MoveLedger
<1>6. CASE mode[t] # "service"
  <2>1. ASSUME NEW d \in Pool \ {c} PROVE Same(d)
    BY <1>1, <1>2, <1>3, <1>6, <2>1 DEF Same, Owns
  <2>2. \A q \in Procs : Owns(q, c)' <=> q = t
    BY <1>3, <1>4, <1>6 DEF Owns
  <2>3. LedgerOK(c)'
    BY <1>1, <1>3, <1>4, <1>6, <2>2 DEF LedgerOK
  <2> QED BY <1>2, <2>1, <2>2, <2>3, MoveLedger
<1> QED
  BY <1>5, <1>6

\* Steps of a scope keep the ledger and implement the lease.
LEMMA ScopeLedger ==
  ASSUME PoolInv, TypeOK', ControlInv', NEW t \in Threads, ScopeStep(t)
  PROVE  LedgerInv' /\ LeaseStep
<1>t. TypeOK /\ Domains /\ FrameOK(t) /\ None \notin Pool /\ Lane \notin Pool
  BY TypeDomains DEF PoolInv, FrameInv, Conns, Lane, Pool
\* Steps in which t neither gains nor loses an entry of its own.
<1>a. ASSUME UNCHANGED <<busy, execCon, sess>>,
             \A q \in Procs \ {t} : con'[q] = con[q] /\ mode'[q] = mode[q],
             con[t] \notin Pool \/ mode[t] = "service",
             con'[t] \notin Pool \/ mode'[t] = "service"
      PROVE  LedgerInv' /\ LeaseStep
  <2>1. ASSUME NEW c \in Pool PROVE Same(c)
    <3>1. ASSUME NEW q \in Procs PROVE Owns(q, c)' <=> Owns(q, c)
      BY <1>a, <2>1, <3>1 DEF Owns
    <3> QED BY <1>a, <3>1 DEF Same
  <2> QED BY <2>1, QuietLedger
<1>b. ASSUME UNCHANGED <<busy, execCon, sess, con, mode>> PROVE LedgerInv' /\ LeaseStep
  <2>1. ASSUME NEW c \in Pool PROVE Same(c)
    BY <1>b DEF Same, Owns
  <2> QED BY <2>1, QuietLedger
<1>1. CASE Acquire(t)
  BY <1>1, AcquireLedger
<1>2. CASE AcquireWaits(t) \/ Deadline(t) \/ Bind(t) \/ Leave(t)
  BY <1>2, <1>b DEF AcquireWaits, Deadline, Bind, Leave
<1>3. CASE SqlDone(t) \/ SqlCalls(t) \/ CallFails(t)
  BY <1>3, <1>b DEF SqlDone, SqlCalls, CallFails
<1>4. CASE AcquireFails(t)
  <2>1. con[t] = None /\ con' = con /\ UNCHANGED <<busy, execCon, sess>>
    BY <1>4, <1>t DEF AcquireFails, FrameOK
  <2>2. \A q \in Procs \ {t} : mode'[q] = mode[q]
    BY <1>4, <1>t DEF AcquireFails, Domains
  <2> QED BY <1>a, <1>t, <2>1, <2>2
<1>5. CASE Enter(t)
  <2>1. con[t] = None /\ con' = con /\ UNCHANGED <<busy, execCon, sess>>
    BY <1>5, <1>t DEF Enter, FrameOK
  <2>2. \A q \in Procs \ {t} : mode'[q] = mode[q]
    BY <1>5, <1>t DEF Enter, Domains
  <2> QED BY <1>a, <1>t, <2>1, <2>2
<1>6. CASE EnterShared(t)
  <2>1. con[t] = None /\ con'[t] = Lane /\ UNCHANGED <<busy, execCon, sess, mode>>
    BY <1>6, <1>t DEF EnterShared, FrameOK, Domains
  <2>2. \A q \in Procs \ {t} : con'[q] = con[q]
    BY <1>6, <1>t DEF EnterShared, Domains
  <2> QED BY <1>a, <1>t, <2>1, <2>2
<1>7. CASE EnterService(t)
  <2>1. mode[t] = "service" /\ UNCHANGED <<busy, execCon, sess, mode>>
    BY <1>7, <1>t DEF EnterService, FrameOK
  <2>2. \A q \in Procs \ {t} : con'[q] = con[q]
    BY <1>7, <1>t DEF EnterService, Domains
  <2> QED BY <1>a, <1>t, <2>1, <2>2
<1>8. CASE LeaveRelease(t)
  <2>1. /\ pc[t] = "leave_release" /\ UNCHANGED <<execCon, sess>>
        /\ \A q \in Procs \ {t} : mode'[q] = mode[q]
    BY <1>8, <1>t DEF LeaveRelease, Domains
  <2>2. CASE mode[t] = "request"
    <3>1. busy' = busy \ {con[t]} /\ con' = [con EXCEPT ![t] = None]
      BY <1>8, <2>2 DEF LeaveRelease, Release
    <3>2. con[t] \in Pool /\ Owns(t, con[t])
      BY <1>t, <2>1, <2>2 DEF FrameOK, Owns, Pins
    <3> QED BY <2>1, <3>1, <3>2, ReturnLedger
  <2>3. CASE mode[t] # "request"
    <3>1. UNCHANGED busy /\ con' = [con EXCEPT ![t] = None]
      BY <1>8, <2>3 DEF LeaveRelease
    <3>2. con'[t] = None /\ \A q \in Procs \ {t} : con'[q] = con[q]
      BY <1>t, <3>1 DEF Domains
    <3>3. mode[t] = "service" \/ con[t] = Lane
      BY <1>t, <2>1, <2>3 DEF FrameOK, Pins
    <3> QED BY <1>a, <1>t, <2>1, <3>1, <3>2, <3>3
  <2> QED BY <2>2, <2>3
<1> QED
  BY <1>1, <1>2, <1>3, <1>4, <1>5, <1>6, <1>7, <1>8 DEF ScopeStep

\* Steps of a request handler keep the ledger and implement the lease.
LEMMA HandlerLedger ==
  ASSUME PoolInv, TypeOK', ControlInv', NEW h \in Handlers, Begin(h) \/ HandlerStep(h)
  PROVE  LedgerInv' /\ LeaseStep
<1>t. TypeOK /\ Domains /\ FrameOK(h) /\ None \notin Pool /\ h \in Threads /\ h # Admin
  BY TypeDomains DEF PoolInv, FrameInv, Conns
<1>a. ASSUME UNCHANGED <<busy, execCon, sess, con>>, mode'[h] # "service", mode[h] # "service",
             \A q \in Procs \ {h} : mode'[q] = mode[q]
      PROVE  LedgerInv' /\ LeaseStep
  <2>1. ASSUME NEW c \in Pool PROVE Same(c)
    <3>1. ASSUME NEW q \in Procs PROVE Owns(q, c)' <=> Owns(q, c)
      BY <1>a, <3>1 DEF Owns
    <3> QED BY <1>a, <3>1 DEF Same
  <2> QED BY <2>1, QuietLedger
<1>b. ASSUME UNCHANGED <<busy, execCon, sess, con, mode>> PROVE LedgerInv' /\ LeaseStep
  <2>1. ASSUME NEW c \in Pool PROVE Same(c)
    BY <1>b DEF Same, Owns
  <2> QED BY <2>1, QuietLedger
<1>1. CASE Begin(h) \/ RelUnbind(h) \/ End(h)
  BY <1>1, <1>b DEF Begin, RelUnbind, End
<1>2. CASE Method(h)
  <2>1. con[h] = None /\ mode[h] = "none" /\ UNCHANGED <<busy, execCon>>
    BY <1>2, <1>t DEF Method, FrameOK
  <2>2. CASE UNCHANGED <<mode, con, sess>>
    BY <1>b, <2>1, <2>2
  <2>3. CASE mode' = [mode EXCEPT ![h] = "session"] /\ UNCHANGED <<con, sess>>
    <3>1. mode'[h] = "session" /\ \A q \in Procs \ {h} : mode'[q] = mode[q]
      BY <1>t, <2>3 DEF Domains
    <3> QED BY <1>a, <2>1, <2>3, <3>1
  <2>4. ASSUME NEW c \in Sessions(Home[h]), con' = [con EXCEPT ![h] = c],
               sess' = [sess EXCEPT ![c] = None], UNCHANGED mode
        PROVE  LedgerInv' /\ LeaseStep
    <3>1. c \in Pool /\ sess[c] # None
      BY <1>t, <2>4 DEF Sessions
    <3> QED BY <1>t, <2>1, <2>4, <3>1, SessionLedger
  <2> QED BY <1>2, <2>2, <2>3, <2>4 DEF Method
<1>3. CASE OpenSession(h)
  <2>1. PICK c \in Pool : c = con[h]
    BY <1>3, <1>t DEF OpenSession, FrameOK, Pins
  <2>2. /\ mode[h] = "session" /\ mode'[h] = "none" /\ UNCHANGED <<busy, execCon>>
        /\ \A q \in Procs \ {h} : mode'[q] = mode[q]
    BY <1>3, <1>t DEF OpenSession, Domains
  <2>3. CASE UNCHANGED <<sess, con>>
    BY <1>a, <2>2, <2>3
  <2>4. CASE sess' = [sess EXCEPT ![con[h]] = Home[h]] /\ con' = [con EXCEPT ![h] = None]
    <3>1. LedgerOK(c) /\ Owns(h, c)
      BY <2>1, <2>2 DEF PoolInv, LedgerInv, Owns
    <3>2. /\ \A q \in Procs : con'[q] = IF q = h THEN None ELSE con[q]
          /\ \A d \in Pool : sess'[d] = IF d = c THEN Home[h] ELSE sess[d]
          /\ Home[h] # None
      BY <1>t, <2>1, <2>4 DEF Domains
    <3>3. ASSUME NEW d \in Pool \ {c} PROVE Same(d)
      BY <1>t, <2>1, <2>2, <3>2, <3>3 DEF Same, Owns
    <3>4. \A q \in Procs : ~Owns(q, c)'
      BY <1>t, <2>2, <3>1, <3>2 DEF LedgerOK, Owns
    <3>5. LedgerOK(c)' /\ sess'[c] # None
      BY <2>2, <3>1, <3>2, <3>4 DEF LedgerOK
    <3> QED BY <3>1, <3>3, <3>5, MoveLedger
  <2> QED BY <1>3, <2>3, <2>4 DEF OpenSession
<1>4. CASE RelFree(h)
  <2>1. /\ busy' = busy \ {con[h]} /\ con' = [con EXCEPT ![h] = None]
        /\ UNCHANGED <<execCon, sess, mode>>
    BY <1>4 DEF RelFree, Release
  <2>2. con[h] \in Pool /\ Owns(h, con[h])
    BY <1>4, <1>t DEF RelFree, FrameOK, Owns
  <2> QED BY <1>t, <2>1, <2>2, ReturnLedger
<1> QED
  BY <1>1, <1>2, <1>3, <1>4 DEF HandlerStep

\* Configuration, shutdown and the clock keep the ledger and implement the lease.
LEMMA AdminLedger ==
  ASSUME PoolInv, TypeOK', ControlInv',
         \/ AdminStep
         \/ \E s \in Managed, m \in Models : SetModel(s, m)
         \/ \E s \in Managed : StopCheck(s)
         \/ \E n \in Ceilings : SetMax(n)
         \/ \E t \in HttpWorkers : Tick(t)
  PROVE  LedgerInv' /\ LeaseStep
<1>t. TypeOK /\ Domains /\ AdminInv /\ None \notin Pool
  BY TypeDomains DEF PoolInv, Conns
<1>b. ASSUME UNCHANGED <<busy, execCon, sess, con, mode>> PROVE LedgerInv' /\ LeaseStep
  <2>1. ASSUME NEW c \in Pool PROVE Same(c)
    BY <1>b DEF Same, Owns
  <2> QED BY <2>1, QuietLedger
<1>1. ASSUME \/ \E s \in Managed, m \in Models : SetModel(s, m)
             \/ \E s \in Managed : StopCheck(s)
             \/ \E n \in Ceilings : SetMax(n)
             \/ \E t \in HttpWorkers : Tick(t)
      PROVE  LedgerInv' /\ LeaseStep
  BY <1>1, <1>b DEF SetModel, StopCheck, SetMax, Tick
<1>2. CASE StopFlag \/ StopJoin \/ RelUnbind(Admin)
  BY <1>2, <1>b DEF StopFlag, StopJoin, RelUnbind
<1>3. CASE SetModelSwap \/ Destroy
  <2> DEFINE s == target[1]
  <2>1. /\ s \in Services /\ con[Admin] = None /\ UNCHANGED <<busy, sess, mode>>
        /\ con' = [con EXCEPT ![Admin] = execCon[s]] /\ execCon' = [execCon EXCEPT ![s] = None]
    BY <1>3, <1>t DEF SetModelSwap, Destroy, AdminInv
  <2> HIDE DEF s
  <2> QED BY <2>1, PinnedLedger
<1>4. CASE ModelRelease \/ RelFree(Admin)
  <2>1. /\ busy' = busy \ {con[Admin]} /\ con' = [con EXCEPT ![Admin] = None]
        /\ UNCHANGED <<execCon, sess, mode>>
    BY <1>4 DEF ModelRelease, RelFree, Release
  <2>2. con[Admin] \in Pool /\ Owns(Admin, con[Admin])
    BY <1>4, <1>t DEF ModelRelease, RelFree, AdminInv, Owns
  <2> QED BY <2>1, <2>2, ReturnLedger
<1>5. CASE StopSession
  <2>1. PICK c \in Sessions(target[1]) :
            con' = [con EXCEPT ![Admin] = c] /\ sess' = [sess EXCEPT ![c] = None]
    BY <1>5 DEF StopSession
  <2>2. c \in Pool /\ sess[c] # None
    BY <1>5, <1>t, <2>1 DEF StopSession, Sessions, AdminInv
  <2>3. con[Admin] = None /\ mode[Admin] = "none" /\ UNCHANGED <<busy, execCon, mode>>
    BY <1>5, <1>t DEF StopSession, AdminInv
  <2> QED BY <1>t, <2>1, <2>2, <2>3, SessionLedger
<1> QED
  BY <1>1, <1>2, <1>3, <1>4, <1>5 DEF AdminStep

-----------------------------------------------------------------------------
(* Subjects                                                                  *)

BindPcs == {"sql", "calling", "leave"}

\* No two frames use one connection, and a session uses it with none.
LEMMA Alone ==
  ASSUME PoolInv, NEW p \in Procs, NEW q \in Procs, p # q, con[p] = con[q],
         pc[p] \in Scope \cup RelPcs, pc[q] \in Scope \cup RelPcs
  PROVE  FALSE
<1>1. ASSUME NEW r \in Procs, pc[r] \in Scope \cup RelPcs
      PROVE  \/ con[r] \in Pool /\ mode[r] # "service"
             \/ r \in Threads /\ Pins(r, con[r]) /\ con[r] \in Pool
             \/ r \in Threads /\ con[r] = Lane /\ laneMu = r
  <2>1. CASE r \in Threads
    BY <1>1, <2>1 DEF PoolInv, FrameInv, FrameOK
  <2>2. CASE r = Admin
    BY <1>1, <2>2 DEF PoolInv, AdminInv
  <2> QED BY <2>1, <2>2
<1>2. Lane \notin Pool
  BY DEF Lane, Pool
<1>3. ASSUME con[p] \in Pool PROVE FALSE
  <2>1. LedgerOK(con[p])
    BY <1>3 DEF PoolInv, LedgerInv
  <2>2. CASE Owns(p, con[p]) /\ Owns(q, con[p])
    BY <2>1, <2>2 DEF LedgerOK
  <2>3. ASSUME NEW r \in {p, q}, NEW u \in Threads, u \in {p, q}, Owns(r, con[p]), Pins(u, con[p])
        PROVE  FALSE
    BY <2>1, <2>3 DEF LedgerOK, Pins
  <2>4. CASE p \in Threads /\ q \in Threads /\ Pins(p, con[p]) /\ Pins(q, con[p])
    BY <2>1, <2>4 DEF LedgerOK, Pins
  <2>5. /\ Owns(p, con[p]) \/ (p \in Threads /\ Pins(p, con[p]))
        /\ Owns(q, con[p]) \/ (q \in Threads /\ Pins(q, con[p]))
    BY <1>1, <1>2, <1>3 DEF Owns
  <2> QED BY <2>2, <2>3, <2>4, <2>5
<1> QED
  BY <1>1, <1>2, <1>3

\* A connection in a thread's frame is not a session's.
LEMMA NotPinned ==
  ASSUME PoolInv, NEW p \in Procs, pc[p] \in Scope \cup RelPcs, con[p] \in Pool
  PROVE  sess[con[p]] = None
<1>1. LedgerOK(con[p])
  BY DEF PoolInv, LedgerInv
<1>2. CASE mode[p] # "service"
  BY <1>1, <1>2 DEF LedgerOK, Owns
<1>3. CASE mode[p] = "service"
  <2>1. p \in Threads /\ Pins(p, con[p])
    BY <1>3 DEF PoolInv, AdminInv, FrameInv, FrameOK
  <2> QED BY <1>1, <2>1 DEF LedgerOK, Pins
<1> QED
  BY <1>2, <1>3

\* A step leaves to p what it has bound.
Steady(p) ==
    /\ con'[p] = con[p] /\ bound'[p] = bound[p] /\ subject'[p] = subject[p]
    /\ pc[p] \in BindPcs => pc'[p] \in BindPcs
    /\ pc[p] = "rel_unbind" => pc'[p] = "rel_unbind"

\* Only what t has bound, and connection c, may change.
LEMMA OneBind ==
  ASSUME PoolInv, NEW t \in Procs, NEW c \in Conns, BindOK(c)',
         \A q \in Procs \ {t} : Steady(q),
         \A d \in Conns \ {c} :
             /\ binding'[d] = binding[d] /\ ~Binds(t, d)
             /\ d \in Pool /\ sess[d] # None => sess'[d] # None
  PROVE  BindInv'
<1> SUFFICES ASSUME NEW d \in Conns \ {c} PROVE BindOK(d)'
  BY DEF BindInv
<1>1. BindOK(d)
  BY DEF PoolInv, BindInv
<1>2. ASSUME NEW q \in Procs, Binds(q, d) PROVE Binds(q, d)'
  BY <1>2 DEF Binds, Steady, BindPcs
<1> QED
  BY <1>1, <1>2 DEF BindOK

\* A step in which nothing is bound or unbound.
LEMMA QuietBind ==
  ASSUME PoolInv, NEW t \in Procs, UNCHANGED <<binding, sess>>,
         \A q \in Procs \ {t} : Steady(q),
         Steady(t) \/ pc[t] \notin BindPcs \cup {"rel_unbind"}
  PROVE  BindInv'
<1> SUFFICES ASSUME NEW d \in Conns PROVE BindOK(d)'
  BY DEF BindInv
<1>1. BindOK(d)
  BY DEF PoolInv, BindInv
<1>2. ASSUME NEW q \in Procs, Binds(q, d) PROVE Binds(q, d)'
  BY <1>2 DEF Binds, Steady, BindPcs
<1> QED
  BY <1>1, <1>2 DEF BindOK

\* The connection of a thread that has bound nothing is bound to nothing.
LEMMA Unbound ==
  ASSUME PoolInv, NEW t \in Procs, pc[t] \in Scope \cup RelPcs, con[t] \in Conns,
         ~Binds(t, con[t])
  PROVE  binding[con[t]] = None
<1>1. BindOK(con[t])
  BY DEF PoolInv, BindInv
<1>2. ASSUME NEW p \in Procs, Binds(p, con[t]) PROVE FALSE
  BY <1>2, Alone DEF Binds
<1> QED
  BY <1>1, <1>2, NotPinned DEF BindOK

\* Steps of a scope keep the bindings.
LEMMA ScopeBind ==
  ASSUME PoolInv, TypeOK', NEW t \in Threads, ScopeStep(t)
  PROVE  BindInv'
<1>t. TypeOK /\ Domains /\ FrameOK(t)
  BY TypeDomains DEF PoolInv, FrameInv
<1>a. ASSUME UNCHANGED <<binding, sess, bound, subject>>,
             \A q \in Procs \ {t} :
                 con'[q] = con[q] /\ (pc'[q] = pc[q] \/ pc[q] = "waiting"),
             pc[t] \notin BindPcs \cup {"rel_unbind"}
      PROVE  BindInv'
  <2>1. \A q \in Procs \ {t} : Steady(q)
    BY <1>a DEF Steady, BindPcs
  <2> QED BY <1>a, <2>1, QuietBind
<1>1. CASE Acquire(t)
  BY <1>1, <1>a, <1>t DEF Acquire, Take, Domains, BindPcs
<1>2. CASE AcquireWaits(t) \/ Deadline(t) \/ AcquireFails(t)
  BY <1>2, <1>a, <1>t DEF AcquireWaits, Deadline, AcquireFails, Domains, BindPcs
<1>3. CASE Enter(t) \/ EnterShared(t) \/ EnterService(t)
  BY <1>3, <1>a, <1>t DEF Enter, EnterShared, EnterService, Domains, BindPcs
<1>4. CASE Bind(t)
  <2>1. con[t] \in Conns
    BY <1>4, <1>t DEF Bind, FrameOK, Conns
  <2>2. binding[con[t]] = None
    BY <1>4, <2>1, Unbound DEF Bind, Binds
  <2>3. \A q \in Procs \ {t} : Steady(q)
    BY <1>4, <1>t DEF Bind, Steady, Domains
  <2>4. PICK c \in Conns : c = con[t]
    BY <2>1
  <2>5. BindOK(c)'
    <3>1. PICK ok \in {TRUE, FALSE} :
              /\ bound' = [bound EXCEPT ![t] = ok]
              /\ binding' = IF ok THEN [binding EXCEPT ![con[t]] = subject[t]] ELSE binding
      BY <1>4 DEF Bind
    <3>2. CASE ok = FALSE
      BY <2>2, <2>4, <3>1, <3>2 DEF BindOK
    <3>3. CASE ok = TRUE
      <4>1. bound'[t] /\ binding'[c] = subject[t]
        BY <1>t, <2>4, <3>1, <3>3 DEF Domains
      <4>2. Binds(t, c)'
        BY <1>4, <1>t, <2>4, <4>1 DEF Bind, Binds, Domains
      <4> QED BY <4>2 DEF BindOK
    <3> QED BY <3>2, <3>3
  <2>6. \A d \in Conns \ {c} : binding'[d] = binding[d] /\ ~Binds(t, d) /\ (d \in Pool => sess'[d] = sess[d])
    BY <1>4, <1>t, <2>4 DEF Bind, Binds, Domains
  <2> QED BY <2>3, <2>5, <2>6, OneBind
<1>5. CASE SqlDone(t) \/ SqlCalls(t) \/ CallFails(t)
  <2>1. \A q \in Procs : Steady(q)
    BY <1>5, <1>t DEF SqlDone, SqlCalls, CallFails, Steady, BindPcs, Domains
  <2> QED BY <1>5, <2>1, QuietBind DEF SqlDone, SqlCalls, CallFails
<1>6. CASE Leave(t)
  <2>1. PICK c \in Conns : c = con[t]
    BY <1>6, <1>t DEF Leave, FrameOK, Conns
  <2>2. binding'[c] = None
    <3>1. CASE bound[t]
      BY <1>6, <1>t, <2>1, <3>1 DEF Leave, Domains
    <3>2. CASE ~bound[t]
      <4>1. ~Binds(t, con[t]) /\ pc[t] \in Scope
        BY <1>6, <3>2 DEF Leave, Binds
      <4> QED BY <1>6, <2>1, <3>2, <4>1, Unbound DEF Leave
    <3> QED BY <3>1, <3>2
  <2>3. \A q \in Procs \ {t} : Steady(q)
    BY <1>6, <1>t DEF Leave, Steady, Domains
  <2>4. \A d \in Conns \ {c} : binding'[d] = binding[d] /\ ~Binds(t, d) /\ (d \in Pool => sess'[d] = sess[d])
    BY <1>6, <1>t, <2>1 DEF Leave, Binds, Domains
  <2> QED BY <2>2, <2>3, <2>4, OneBind DEF BindOK
<1>7. CASE LeaveRelease(t)
  <2>1. After(t) \subseteq Pcs
    BY <1>t, AfterType DEF Pcs
  <2>2. \A q \in Procs \ {t} : con'[q] = con[q] /\ (pc'[q] = pc[q] \/ pc[q] = "waiting")
    <3>1. CASE mode[t] = "request"
      <4>1. Release(t, con[t], After(t))
        BY <1>7, <3>1 DEF LeaveRelease
      <4>2. /\ con' = [con EXCEPT ![t] = None]
            /\ \A q \in Procs \ {t} : pc'[q] = pc[q] \/ pc[q] = "waiting"
        BY <1>t, <2>1, <4>1, ReleaseType
      <4> QED BY <1>t, <4>2 DEF Domains
    <3>2. CASE mode[t] # "request"
      BY <1>7, <1>t, <3>2 DEF LeaveRelease, Domains
    <3> QED BY <3>1, <3>2
  <2> QED BY <1>7, <1>a, <2>2 DEF LeaveRelease, BindPcs
<1> QED
  BY <1>1, <1>2, <1>3, <1>4, <1>5, <1>6, <1>7 DEF ScopeStep

\* A session's connection passes to a frame that will unbind it.
LEMMA CloseBind ==
  ASSUME PoolInv, NEW p \in Procs, NEW c \in Pool, con' = [con EXCEPT ![p] = c],
         pc' = [pc EXCEPT ![p] = "rel_unbind"], sess' = [sess EXCEPT ![c] = None],
         UNCHANGED <<binding, bound>>, \A q \in Procs \ {p} : subject'[q] = subject[q],
         pc[p] \notin BindPcs \cup {"rel_unbind"}
  PROVE  BindInv'
<1>t. TypeOK /\ Domains /\ c \in Conns
  BY TypeDomains DEF PoolInv, Conns
<1>1. Binds(p, c)'
  BY <1>t DEF Binds, Domains
<1>2. \A q \in Procs \ {p} : Steady(q)
  BY <1>t DEF Steady, Domains
<1>3. \A d \in Conns \ {c} : ~Binds(p, d) /\ (d \in Pool => sess'[d] = sess[d])
  BY <1>t DEF Binds, BindPcs, Domains
<1>4. BindOK(c)'
  BY <1>1 DEF BindOK
<1> QED
  BY <1>t, <1>2, <1>3, <1>4, OneBind

\* Unbinding clears the entry in the frame.
LEMMA RelUnbindBind ==
  ASSUME PoolInv, NEW p \in Procs, RelUnbind(p), con[p] \in Pool
  PROVE  BindInv'
<1>t. TypeOK /\ Domains
  BY TypeDomains DEF PoolInv
<1>1. PICK c \in Conns : c = con[p]
  BY DEF Conns
<1>2. binding'[c] = None
  BY <1>t, <1>1 DEF RelUnbind, Domains
<1>3. \A q \in Procs \ {p} : Steady(q)
  BY <1>t DEF RelUnbind, Steady, Domains
<1>4. \A d \in Conns \ {c} : binding'[d] = binding[d] /\ ~Binds(p, d) /\ (d \in Pool => sess'[d] = sess[d])
  BY <1>t, <1>1 DEF RelUnbind, Binds, Domains
<1> QED
  BY <1>2, <1>3, <1>4, OneBind DEF BindOK

\* A returned connection leaves a frame that has nothing bound.
LEMMA ReturnBind ==
  ASSUME PoolInv, NEW p \in Procs, NEW L \in SUBSET Pcs, Release(p, con[p], L),
         pc[p] \in {"rel_free", "model_release"}, UNCHANGED <<binding, sess, bound, subject>>
  PROVE  BindInv'
<1>t. TypeOK /\ Domains
  BY TypeDomains DEF PoolInv
<1>1. /\ con' = [con EXCEPT ![p] = None]
      /\ \A q \in Procs \ {p} : pc'[q] = pc[q] \/ pc[q] = "waiting"
  BY <1>t, ReleaseType
<1>2. \A q \in Procs \ {p} : Steady(q)
  BY <1>t, <1>1 DEF Steady, BindPcs, Domains
<1> QED
  BY <1>2, QuietBind DEF BindPcs

\* Steps of a request handler keep the bindings.
LEMMA HandlerBind ==
  ASSUME PoolInv, TypeOK', NEW h \in Handlers, Begin(h) \/ HandlerStep(h)
  PROVE  BindInv'
<1>t. TypeOK /\ Domains /\ FrameOK(h) /\ h \in Threads /\ h # Admin
  BY TypeDomains DEF PoolInv, FrameInv
<1>1. CASE Begin(h)
  <2>1. \A q \in Procs \ {h} : Steady(q)
    BY <1>1, <1>t DEF Begin, Steady, Domains
  <2> QED BY <1>1, <1>t, <2>1, QuietBind DEF Begin, BindPcs
<1>2. CASE Method(h)
  <2>1. pc[h] = "method" /\ UNCHANGED <<binding, bound>>
    BY <1>2 DEF Method
  <2>2. \A q \in Procs \ {h} : subject'[q] = subject[q]
    BY <1>2, <1>t DEF Method, Domains
  <2>3. ASSUME NEW l \in {"enter", "acquire"}, Goto(h, l), UNCHANGED <<con, sess>>
        PROVE  BindInv'
    <3>1. \A q \in Procs \ {h} : Steady(q)
      BY <1>t, <2>1, <2>2, <2>3 DEF Steady, Domains
    <3> QED BY <1>t, <2>1, <2>3, <3>1, QuietBind DEF BindPcs
  <2>4. ASSUME NEW c \in Sessions(Home[h]), con' = [con EXCEPT ![h] = c],
               sess' = [sess EXCEPT ![c] = None], Goto(h, "rel_unbind")
        PROVE  BindInv'
    <3>1. c \in Pool
      BY <2>4 DEF Sessions
    <3> QED BY <1>t, <2>1, <2>2, <2>4, <3>1, CloseBind DEF BindPcs
  <2> QED BY <1>2, <2>3, <2>4 DEF Method
<1>3. CASE OpenSession(h)
  <2>1. PICK c \in Pool : c = con[h]
    BY <1>3, <1>t DEF OpenSession, FrameOK, Pins
  <2>2. c \in Conns /\ UNCHANGED <<bound, subject>> /\ pc[h] = "bind"
    BY <1>3 DEF OpenSession, Conns
  <2>3. \A d \in Conns \ {c} : binding'[d] = binding[d] /\ ~Binds(h, d)
    BY <1>3, <1>t, <2>1, <2>2 DEF OpenSession, Binds, Domains
  <2>4. CASE Goto(h, "rel_unbind") /\ UNCHANGED <<sess, con>>
    <3>1. Binds(h, c)'
      BY <1>t, <2>1, <2>4 DEF Binds, Domains
    <3>2. \A q \in Procs \ {h} : Steady(q)
      BY <1>t, <2>2, <2>4 DEF Steady, Domains
    <3> QED BY <1>t, <2>2, <2>3, <2>4, <3>1, <3>2, OneBind DEF BindOK
  <2>5. CASE /\ sess' = [sess EXCEPT ![con[h]] = Home[h]]
             /\ con' = [con EXCEPT ![h] = None] /\ Goto(h, "end")
    <3>1. \A d \in Pool : sess'[d] = IF d = c THEN Home[h] ELSE sess[d]
      BY <1>t, <2>1, <2>5 DEF Domains
    <3>2. sess'[c] # None
      BY <1>t, <3>1
    <3>3. \A q \in Procs \ {h} : Steady(q)
      BY <1>t, <2>2, <2>5 DEF Steady, Domains
    <3> QED BY <1>t, <2>2, <2>3, <3>1, <3>2, <3>3, OneBind DEF BindOK
  <2> QED BY <1>3, <2>4, <2>5 DEF OpenSession
<1>4. CASE RelUnbind(h)
  <2>1. con[h] \in Pool
    BY <1>4, <1>t DEF RelUnbind, FrameOK
  <2> QED BY <1>4, <1>t, <2>1, RelUnbindBind
<1>5. CASE RelFree(h)
  BY <1>5, <1>t, ReturnBind DEF RelFree, Pcs
<1>6. CASE End(h)
  <2>1. caller[h] # None => pc[caller[h]] = "calling"
    BY DEF PoolInv, CallerInv
  <2>2. caller[h] = None \/ caller[h] \in Threads
    BY <1>t, TypeRanges DEF Ranges
  <2>3. \A q \in Procs \ {h} : Steady(q)
    BY <1>6, <1>t, <2>1, <2>2 DEF End, Steady, BindPcs, Domains
  <2> QED BY <1>6, <1>t, <2>3, QuietBind DEF End, BindPcs
<1> QED
  BY <1>1, <1>2, <1>3, <1>4, <1>5, <1>6 DEF HandlerStep

\* Configuration, shutdown and the clock keep the bindings.
LEMMA AdminBind ==
  ASSUME PoolInv, TypeOK',
         \/ AdminStep
         \/ \E s \in Managed, m \in Models : SetModel(s, m)
         \/ \E s \in Managed : StopCheck(s)
         \/ \E n \in Ceilings : SetMax(n)
         \/ \E t \in HttpWorkers : Tick(t)
  PROVE  BindInv'
<1>t. TypeOK /\ Domains /\ AdminInv
  BY TypeDomains DEF PoolInv
<1>a. ASSUME NEW p \in Procs, UNCHANGED <<binding, sess, bound, subject>>,
             \A q \in Procs \ {p} : con'[q] = con[q] /\ (pc'[q] = pc[q] \/ pc[q] = "waiting"),
             pc[p] \notin BindPcs \cup {"rel_unbind"}
      PROVE  BindInv'
  <2>1. \A q \in Procs \ {p} : Steady(q)
    BY <1>a DEF Steady, BindPcs
  <2> QED BY <1>a, <2>1, QuietBind
<1>1. ASSUME NEW s \in Managed, NEW m \in Models, SetModel(s, m) PROVE BindInv'
  BY <1>1, <1>a, <1>t DEF SetModel, Domains, BindPcs
<1>2. ASSUME NEW s \in Managed, StopCheck(s) PROVE BindInv'
  BY <1>2, <1>a, <1>t DEF StopCheck, Domains, BindPcs
<1>3. ASSUME NEW n \in Ceilings, SetMax(n) PROVE BindInv'
  <2>1. \A q \in Procs : Steady(q)
    BY <1>3, <1>t DEF SetMax, Steady, BindPcs, Domains
  <2> QED BY <1>3, <2>1, QuietBind DEF SetMax
<1>4. ASSUME NEW t \in HttpWorkers, Tick(t) PROVE BindInv'
  BY <1>4, <1>a, <1>t DEF Tick, Domains, BindPcs
<1>5. CASE StopFlag \/ StopJoin
  BY <1>5, <1>a, <1>t DEF StopFlag, StopJoin, Domains, BindPcs
<1>6. CASE SetModelSwap \/ Destroy
  BY <1>6, <1>a, <1>t DEF SetModelSwap, Destroy, Domains, BindPcs
<1>7. CASE ModelRelease \/ RelFree(Admin)
  BY <1>7, ReturnBind DEF ModelRelease, RelFree, Pcs
<1>8. CASE RelUnbind(Admin)
  <2>1. con[Admin] \in Pool
    BY <1>8, <1>t DEF RelUnbind, AdminInv
  <2> QED BY <1>8, <2>1, RelUnbindBind
<1>9. CASE StopSession
  <2>1. PICK c \in Pool : con' = [con EXCEPT ![Admin] = c] /\ sess' = [sess EXCEPT ![c] = None]
    BY <1>9 DEF StopSession, Sessions
  <2>2. /\ pc[Admin] = "stop_sessions" /\ Goto(Admin, "rel_unbind")
        /\ UNCHANGED <<binding, bound, subject>>
    BY <1>9 DEF StopSession
  <2> QED BY <2>1, <2>2, CloseBind DEF BindPcs
<1> QED
  BY <1>1, <1>2, <1>3, <1>4, <1>5, <1>6, <1>7, <1>8, <1>9 DEF AdminStep

-----------------------------------------------------------------------------
(* The theorems                                                              *)

\* The pool grows by one connection, below the ceiling of that moment.
Growth == count' # count => count' = count + 1 /\ count' <= max

\* Only acquiring opens a connection, and only below the ceiling.
LEMMA NextGrowth ==
  ASSUME PoolInv, Next
  PROVE  Growth
<1>t. TypeOK /\ Domains
  BY TypeDomains DEF PoolInv
<1>1. ASSUME NEW t \in Threads, Acquire(t) PROVE Growth
  <2>1. PICK c \in Obtainable : count' = IF c > count THEN c ELSE count
    BY <1>1 DEF Acquire, Take
  <2>2. c \in Pool /\ c \in 1 .. count + 1 /\ (c > count => c <= max)
    BY <1>t, ObtainableType
  <2>3. count \in Nat
    BY <1>t, PoolAssumption DEF TypeOK
  <2> QED BY <2>1, <2>2, <2>3 DEF Growth
<1>2. ASSUME NEW t \in Threads, ScopeStep(t), ~Acquire(t) PROVE Growth
  <2>1. CASE AcquireWaits(t) \/ Deadline(t) \/ AcquireFails(t) \/ Enter(t) \/ EnterShared(t) \/ EnterService(t)
    BY <2>1 DEF AcquireWaits, Deadline, AcquireFails, Enter, EnterShared, EnterService, Growth
  <2>2. CASE Bind(t) \/ SqlDone(t) \/ SqlCalls(t) \/ CallFails(t) \/ Leave(t)
    BY <2>2 DEF Bind, SqlDone, SqlCalls, CallFails, Leave, Growth
  <2>3. CASE LeaveRelease(t)
    BY <2>3 DEF LeaveRelease, Release, Growth
  <2> QED BY <1>2, <2>1, <2>2, <2>3 DEF ScopeStep
<1>3. ASSUME NEW h \in Handlers, Begin(h) \/ HandlerStep(h) PROVE Growth
  <2>1. CASE Begin(h) \/ Method(h) \/ OpenSession(h) \/ RelUnbind(h) \/ End(h)
    BY <2>1 DEF Begin, Method, OpenSession, RelUnbind, End, Growth
  <2>2. CASE RelFree(h)
    BY <2>2 DEF RelFree, Release, Growth
  <2> QED BY <1>3, <2>1, <2>2 DEF HandlerStep
<1>4. CASE AdminStep
  <2>1. CASE SetModelSwap \/ StopFlag \/ StopJoin \/ StopSession \/ RelUnbind(Admin) \/ Destroy
    BY <2>1 DEF SetModelSwap, StopFlag, StopJoin, StopSession, RelUnbind, Destroy, Growth
  <2>2. CASE ModelRelease \/ RelFree(Admin)
    BY <2>2 DEF ModelRelease, RelFree, Release, Growth
  <2> QED BY <1>4, <2>1, <2>2 DEF AdminStep
<1>5. ASSUME \/ \E s \in Managed, m \in Models : SetModel(s, m)
             \/ \E s \in Managed : StopCheck(s)
             \/ \E n \in Ceilings : SetMax(n)
             \/ \E t \in HttpWorkers : Tick(t)
      PROVE  Growth
  BY <1>5 DEF SetModel, StopCheck, SetMax, Tick, Growth
<1> QED
  BY <1>1, <1>2, <1>3, <1>4, <1>5 DEF Next

\* Every step keeps the invariant and implements the lease.
LEMMA NextPoolInv ==
  ASSUME PoolInv, Next
  PROVE  PoolInv' /\ LeaseStep
<1>1. ASSUME NEW t \in Threads, ScopeStep(t) PROVE PoolInv' /\ LeaseStep
  BY <1>1, ScopeTypes, ScopeControl, ScopeLedger, ScopeBind DEF PoolInv, ControlInv
<1>2. ASSUME NEW h \in Handlers, Begin(h) \/ HandlerStep(h) PROVE PoolInv' /\ LeaseStep
  BY <1>2, HandlerTypes, HandlerControl, HandlerLedger, HandlerBind DEF PoolInv, ControlInv
<1>3. ASSUME \/ AdminStep
             \/ \E s \in Managed, m \in Models : SetModel(s, m)
             \/ \E s \in Managed : StopCheck(s)
             \/ \E n \in Ceilings : SetMax(n)
             \/ \E t \in HttpWorkers : Tick(t)
      PROVE  PoolInv' /\ LeaseStep
  BY <1>3, AdminTypes, AdminControl, AdminLedger, AdminBind DEF PoolInv, ControlInv
<1> QED
  BY <1>1, <1>2, <1>3 DEF Next

\* So does a stuttering step.
LEMMA StutterPoolInv ==
  ASSUME PoolInv, UNCHANGED vars
  PROVE  PoolInv' /\ LeaseStep
<1> USE DEF vars
<1>1. TypeOK'
  BY DEF PoolInv, TypeOK
<1>2. ControlInv'
  <2>1. FrameInv'
    BY DEF PoolInv, FrameInv, FrameOK, Pins
  <2>2. AdminInv'
    BY DEF PoolInv, AdminInv
  <2>3. CallerInv'
    BY DEF PoolInv, CallerInv
  <2> QED BY <2>1, <2>2, <2>3 DEF ControlInv
<1>3. \A c \in Pool : Same(c)
  BY DEF Same, Owns
<1>4. BindInv'
  BY DEF PoolInv, BindInv, BindOK, Binds
<1> QED
  BY <1>1, <1>2, <1>3, <1>4, QuietLedger DEF PoolInv, ControlInv

\* The inductive invariant holds in every reachable state: what each thread has
\* at each point of a scope, what the administrator has joined and taken, who
\* has each entry, and who has bound each connection.
THEOREM PoolInductive == Spec => []PoolInv
<1>1. PoolInv /\ [Next]_vars => PoolInv'
  BY NextPoolInv, StutterPoolInv
<1> QED
  BY <1>1, InitPoolInv, PTL DEF Spec

\* The bindings, and who is alone on a connection, give the subject properties.
LEMMA BindFaithful == PoolInv => SubjectsKept
<1> SUFFICES ASSUME PoolInv PROVE SubjectsKept
  OBVIOUS
<1>t. TypeOK /\ Domains /\ FrameInv
  BY TypeDomains DEF PoolInv
<1>1. SubjectFaithful
  <2> SUFFICES ASSUME NEW t \in Running
               PROVE  /\ \A u \in Running : u # t => con[u] # con[t]
                      /\ binding[con[t]] \in {subject[t], None}
    BY DEF SubjectFaithful
  <2>1. t \in Threads /\ pc[t] \in Scope
    BY DEF Running
  <2>2. ASSUME NEW u \in Procs, u # t, pc[u] \in Scope \cup RelPcs PROVE con[u] # con[t]
    BY <2>1, <2>2, Alone
  <2>3. con[t] \in Conns
    BY <1>t, <2>1 DEF FrameInv, FrameOK, Conns
  <2>4. CASE Binds(t, con[t])
    BY <2>2, <2>4 DEF Binds, Running
  <2>5. CASE ~Binds(t, con[t])
    BY <2>1, <2>2, <2>3, <2>5, Unbound DEF Running
  <2> QED BY <2>4, <2>5
<1>2. RestingUnbound
  <2> SUFFICES ASSUME NEW c \in Conns, binding[c] # None
               PROVE  \/ c \in Pool /\ sess[c] # None
                      \/ \E p \in Procs : con[p] = c /\ pc[p] \in Pcs \ {"rel_free", "leave_release"}
    BY DEF RestingUnbound
  <2>1. BindOK(c)
    BY DEF PoolInv, BindInv
  <2> QED BY <2>1 DEF BindOK, Binds, Pcs
<1> QED
  BY <1>1, <1>2 DEF SubjectsKept

\* A thread that runs SQL is alone on its connection and the connection carries
\* its subject or none, and a connection nobody runs on carries none: profile
\* admission never sees the subject of another request.
THEOREM SubjectsNeverLeak == Spec => []SubjectsKept
BY PoolInductive, BindFaithful, PTL

\* Every connection starts free.
LEMMA InitLease == Init => Lease!Init
<1> SUFFICES ASSUME Init PROVE Lease!Init
  OBVIOUS
<1>1. ASSUME NEW c \in Pool PROVE HolderOf(c) = <<"free">>
  <2>1. c \in Conns /\ c # None
    BY DEF Conns
  <2>2. /\ sess[c] = None
        /\ \A s \in Services : execCon[s] # c
        /\ \A p \in Procs : con[p] # c
    BY <2>1 DEF Init
  <2> QED BY <2>2 DEF HolderOf
<1> QED
  BY <1>1 DEF Lease!Init

\* The pool implements ConnectionLease (every step leases, returns or passes on
\* at most one connection, and never between two threads), and it opens a
\* connection only below the ceiling of that moment.
THEOREM LeaseImplemented == Spec => ImplementsLease
<1>1. PoolInv /\ [Next]_vars => LeaseStep
  BY NextPoolInv, StutterPoolInv
<1>2. PoolInv /\ [Next]_vars => [Growth]_vars
  BY NextGrowth
<1>3. Spec => LeaseSpec
  BY <1>1, InitLease, PoolInductive, PTL DEF Spec, LeaseSpec, Lease!Spec, LeaseStep
<1>4. Spec => GrowthBelowMax
  BY <1>2, PoolInductive, PTL DEF Spec, GrowthBelowMax, Growth
<1> QED
  BY <1>3, <1>4, PTL DEF ImplementsLease

-----------------------------------------------------------------------------
(* One holder each                                                           *)

INSTANCE FiniteSetTheorems

\* An exact ledger gives each busy entry one holder.
LEMMA LedgerCounts == PoolInv => PoolConsistent
<1> SUFFICES ASSUME PoolInv, NEW c \in Pool
             PROVE  Cardinality(Holders(c)) = IF c \in busy THEN 1 ELSE 0
  BY DEF PoolInv, PoolConsistent, PoolLedger
<1>t. TypeOK /\ Domains /\ LedgerOK(c)
  BY TypeDomains DEF PoolInv, LedgerInv
<1>s. sess[c] \in Services \cup {None} /\ None \notin Services
  BY <1>t, TypeRanges DEF Ranges
<1>1. CASE c \notin busy
  <2>1. Holders(c) = {}
    BY <1>1, <1>t, <1>s DEF Holders, LedgerOK, Owns
  <2> QED BY <1>1, <2>1, FS_EmptySet
<1>2. CASE c \in busy
  <2>1. \E x : Holders(c) = {x}
    <3>1. CASE sess[c] # None
      <4>1. Holders(c) = {<<"session", sess[c]>>}
        BY <3>1, <1>t, <1>s DEF Holders, LedgerOK, Owns
      <4> QED BY <4>1
    <3>2. ASSUME NEW s \in Services, execCon[s] = c PROVE \E x : Holders(c) = {x}
      <4>1. Holders(c) = {<<"service", s>>}
        BY <3>2, <1>t, <1>s DEF Holders, LedgerOK, Owns
      <4> QED BY <4>1
    <3>3. ASSUME NEW p \in Procs, Owns(p, c) PROVE \E x : Holders(c) = {x}
      <4>1. Holders(c) = {<<"frame", p>>}
        BY <3>3, <1>t, <1>s DEF Holders, LedgerOK, Owns
      <4> QED BY <4>1
    <3> QED BY <1>2, <1>t, <3>1, <3>2, <3>3 DEF LedgerOK
  <2> QED BY <1>2, <2>1, FS_Singleton
<1> QED
  BY <1>1, <1>2

\* For every number of services, threads and entries: a busy entry of the pool
\* has exactly one holder (a thread's frame, a service or a session) and a free
\* one has none, on every path of acquire, release, session open and close,
\* set_execution_model, stop and destroy.
THEOREM LedgerExact == Spec => []PoolConsistent
BY PoolInductive, LedgerCounts, PTL
=============================================================================
