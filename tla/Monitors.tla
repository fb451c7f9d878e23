------------------------------ MODULE Monitors ------------------------------
(***************************************************************************)
(* What a service and a client socket remember of their connections: the   *)
(* service's pipe-event ring and active-pipe list (ducknng_service.c), the *)
(* client socket's event ring with its waiters (ducknng_runtime.c), the    *)
(* log ring, and the SQL functions that read them (ducknng_sql_monitor.c). *)
(* The callbacks come from NNG.  Its listener admits one pipe at a time:   *)
(* ADD_PRE, start, ADD_POST.  REM_POST is run by the reaper thread as soon *)
(* as the pipe is closed, also while the listener is still between start   *)
(* and ADD_POST.                                                           *)
(***************************************************************************)
EXTENDS PeerPolicy

CONSTANTS Pipes,            \* connections made to the service
          MaxActivePipes,   \* svc->max_active_pipes
          RingCap,          \* capacity of a ring (1024, 256 and DUCKNNG_LOG_RING_CAP in the code)
          VectorRows,       \* rows a scan emits at once
          MaxSocketEvents,  \* bound on the client socket's events
          MaxLogLines,      \* bound on the log lines
          MaxLost           \* bound on failed allocations in the event callback

VARIABLES ring,      \* svc->pipe_events
          active,    \* svc->pipe_states
          pipe,      \* NNG's view of each connection
          history,   \* every event the callback has appended
          reversed,  \* pipes whose REM_POST ran before their ADD_POST
          lost,      \* events dropped because an allocation failed
          reader,    \* a reader paging through ducknng_read_monitor
          logRing,   \* rt->log_ring
          lines,     \* every line logged while capture was on
          capture,   \* rt->log_capture_enabled
          sock,      \* the client socket and its ring
          waiter     \* a thread in ducknng_socket_monitor_wait

monitorVars == <<ring, active, pipe, history, reversed, lost, reader, logRing, lines, capture, sock, waiter>>

-----------------------------------------------------------------------------
(* Rings.                                                                  *)

NoEvent == [seq |-> 0, event |-> "none", id |-> 0]

EmptyRing == [slots |-> [i \in 0..(RingCap - 1) |-> NoEvent], start |-> 0, count |-> 0, dropped |-> 0, next |-> 0]

\* A full ring gives up its oldest entry and counts it as dropped.
RingAppend(r, event, id) ==
    LET full == r.count = RingCap
        i == IF full THEN r.start ELSE (r.start + r.count) % RingCap
    IN [slots |-> [r.slots EXCEPT ![i] = [seq |-> r.next + 1, event |-> event, id |-> id]],
        start |-> IF full THEN (r.start + 1) % RingCap ELSE r.start,
        count |-> IF full THEN r.count ELSE r.count + 1,
        dropped |-> IF full THEN r.dropped + 1 ELSE r.dropped,
        next |-> r.next + 1]

RingEntries(r) == [i \in 1..r.count |-> r.slots[(r.start + i - 1) % RingCap]]

\* The entries after a cursor, oldest first, at most max of them (0: all).
RingAfter(r, after, max) ==
    LET newer == SelectSeq(RingEntries(r), LAMBDA e : e.seq > after)
    IN IF max > 0 /\ Len(newer) > max THEN SubSeq(newer, 1, max) ELSE newer

-----------------------------------------------------------------------------
(* The service's pipe callback.                                            *)

PipeStateFind(p) == SelectInSeq(active, LAMBDA q : q = p)

PipeStateAdd(p) == IF PipeStateFind(p) # 0 THEN active ELSE Append(active, p)

PipeStateRemove(p) == IF PipeStateFind(p) = 0 THEN active ELSE RemoveAt(active, PipeStateFind(p))

ServiceAlone == UNCHANGED <<logRing, lines, capture, sock, waiter>>

\* Event and list change together under svc->mu.
PipeEventAppend(p, event) ==
    /\ ring' = RingAppend(ring, event, p)
    /\ history' = Append(history, [seq |-> ring.next + 1, event |-> event, id |-> p])
    /\ active' = CASE event = "add_post" -> PipeStateAdd(p)
                   [] event = "rem_post" -> PipeStateRemove(p)
                   [] OTHER -> active
    /\ UNCHANGED lost

\* A failed copy of the event's strings drops the event and the list change with it.
PipeEventLost(p, event) ==
    /\ Cardinality(lost) < MaxLost
    /\ lost' = lost \cup {<<p, event>>}
    /\ UNCHANGED <<ring, history, active>>

\* Without memory for the list's growth the event is kept and the pipe not listed.
PipeStateNotAdded(p) ==
    /\ Cardinality(lost) < MaxLost
    /\ ring' = RingAppend(ring, "add_post", p)
    /\ history' = Append(history, [seq |-> ring.next + 1, event |-> "add_post", id |-> p])
    /\ lost' = lost \cup {<<p, "listing">>}
    /\ UNCHANGED active

Noted(p, event) == PipeEventAppend(p, event) \/ PipeEventLost(p, event)

\* The listener is not in the middle of adding a pipe.
ListenerFree == \A p \in Pipes : pipe[p].at \notin {"peer", "ip", "pre", "allowed", "started"}

ListsAlone == UNCHANGED <<ring, active, history, reversed, lost, reader>> /\ ServiceAlone

\* ADD_PRE looks at the identity, the address and the number of pipes, each under
\* its own hold of svc->mu; a failed look skips the rest.
PeerAdmissionCheck(p) ==
    /\ pipe[p].at = "new" /\ ListenerFree
    /\ pipe' = [pipe EXCEPT ![p].at = IF PeerAdmitted(p) THEN "peer" ELSE "pre"]
    /\ ListsAlone

NetworkAdmissionCheck(p) ==
    /\ pipe[p].at = "peer"
    /\ pipe' = [pipe EXCEPT ![p].at = IF RemoteAddrMatches(Address[p]) THEN "ip" ELSE "pre",
                            ![p].rules = ipRules, ![p].listed = ipActive]
    /\ ListsAlone

ActivePipeLimit(p) ==
    /\ pipe[p].at = "ip"
    /\ pipe' = [pipe EXCEPT ![p].at = "pre", ![p].admitted = Len(active) < MaxActivePipes]
    /\ ListsAlone

\* The end of ADD_PRE: the event is appended and a refused pipe is closed.
PipeEventAddPre(p) ==
    /\ pipe[p].at = "pre"
    /\ Noted(p, "add_pre")
    /\ pipe' = IF pipe[p].admitted THEN [pipe EXCEPT ![p].at = "allowed"]
               ELSE [pipe EXCEPT ![p].at = "refused", ![p].closed = TRUE]
    /\ UNCHANGED <<reversed, reader>> /\ ServiceAlone

\* NNG starts the protocol on the pipe unless it is closed by now.
NngPipeStart(p) ==
    /\ pipe[p].at = "allowed"
    /\ pipe' = [pipe EXCEPT ![p].at = IF pipe[p].closed THEN "refused" ELSE "started"]
    /\ ListsAlone

PipeEventAddPost(p) ==
    /\ pipe[p].at = "started"
    /\ Noted(p, "add_post") \/ PipeStateNotAdded(p)
    /\ pipe' = [pipe EXCEPT ![p].at = "added"]
    /\ reversed' = IF pipe[p].removed THEN reversed \cup {p} ELSE reversed
    /\ UNCHANGED reader /\ ServiceAlone

PeerDisconnect(p) ==
    /\ pipe[p].at \notin {"new", "refused"} /\ ~pipe[p].closed
    /\ pipe' = [pipe EXCEPT ![p].closed = TRUE]
    /\ ListsAlone

\* The reaper's callback.
PipeEventRemPost(p) ==
    /\ pipe[p].closed /\ ~pipe[p].removed
    /\ Noted(p, "rem_post")
    /\ pipe' = [pipe EXCEPT ![p].removed = TRUE]
    /\ UNCHANGED <<reversed, reader>> /\ ServiceAlone

-----------------------------------------------------------------------------
(* Reading from SQL.                                                       *)

PipeEventsSnapshot(after, max) == RingAfter(ring, after, max)

PipeStatesSnapshot == active

ListPipesBind == PipeStatesSnapshot

PipeMonitorStats ==
    [event_count |-> ring.count, dropped_events |-> ring.dropped, active_pipes |-> Len(active),
     oldest_seq |-> IF ring.count > 0 THEN ring.slots[ring.start].seq ELSE 0,
     newest_seq |-> IF ring.count > 0 THEN ring.slots[(ring.start + ring.count - 1) % RingCap].seq ELSE 0]

MonitorStatusBind == PipeMonitorStats

\* bind takes the snapshot, with the reader's cursor and page size.
ReadMonitorBind(max) ==
    /\ reader.rows = <<>> /\ reader.cursor < ring.next
    /\ reader' = [reader EXCEPT !.rows = PipeEventsSnapshot(reader.cursor, max), !.offset = 0]
    /\ UNCHANGED <<ring, active, pipe, history, reversed, lost>> /\ ServiceAlone


\* scan emits one vector; the reader's next cursor is the last sequence number it saw.
ReadMonitorScan ==
    LET n == Len(reader.rows)
        upto == IF reader.offset + VectorRows > n THEN n ELSE reader.offset + VectorRows
    IN /\ reader.offset < n
       /\ reader' = [rows |-> IF upto = n THEN <<>> ELSE reader.rows,
                     offset |-> IF upto = n THEN 0 ELSE upto,
                     cursor |-> reader.rows[upto].seq,
                     got |-> reader.got \o SubSeq(reader.rows, reader.offset + 1, upto)]
       /\ UNCHANGED <<ring, active, pipe, history, reversed, lost>> /\ ServiceAlone

-----------------------------------------------------------------------------
(* The log ring.                                                           *)

LogAlone == UNCHANGED <<ring, active, pipe, history, reversed, lost, reader, sock, waiter>>

EnableLogCapture ==
    /\ capture' \in {capture, TRUE}
    /\ LogAlone /\ UNCHANGED <<logRing, lines>>

LogRingAppend(line) ==
    /\ capture /\ lines < MaxLogLines
    /\ logRing' = RingAppend(logRing, "log", line)
    /\ lines' = lines + 1
    /\ LogAlone /\ UNCHANGED capture

LogRingSnapshot == RingEntries(logRing)

LogEntriesBind == [i \in DOMAIN LogRingSnapshot |-> LogRingSnapshot[i].id]

-----------------------------------------------------------------------------
(* The client socket's monitor.  sock.at: open, closing, freed.            *)

SocketAlone == UNCHANGED <<ring, active, pipe, history, reversed, lost, reader, logRing, lines, capture>>

\* The flag is set first; a failed registration with NNG leaves it set.
SocketMonitorEnable ==
    /\ sock.at = "open"
    /\ \E installed \in BOOLEAN :
          sock' = [sock EXCEPT !.enabled = TRUE, !.installed = @ \/ (~sock.enabled /\ installed)]
    /\ SocketAlone /\ UNCHANGED waiter

Woken(w) == IF w.at = "waiting" THEN [w EXCEPT !.at = "check"] ELSE w

ClientSocketPipeCbSilent ==
    /\ sock.at # "freed" /\ sock.installed /\ sock.ring.next < MaxSocketEvents
    /\ sock' = [sock EXCEPT !.ring = RingAppend(@, "pipe", 0)]
    /\ UNCHANGED waiter
    /\ SocketAlone

\* ADD_POST and REM_POST of the socket's pipes, until the socket is closed.
ClientSocketPipeCb ==
    /\ sock.at # "freed" /\ sock.installed /\ sock.ring.next < MaxSocketEvents
    /\ sock' = [sock EXCEPT !.ring = RingAppend(@, "pipe", 0)]
    /\ waiter' = Woken(waiter)
    /\ SocketAlone

SocketMonitorSnapshot(after, max) == RingAfter(sock.ring, after, max)

ReadSocketMonitorBind(after, max) == [rows |-> SocketMonitorSnapshot(after, max), dropped |-> sock.ring.dropped]

\* The wait takes a reference and a cursor; an unmonitored socket is an error.
SocketMonitorWait(after) ==
    /\ waiter.at = "idle" /\ sock.at = "open" /\ sock.enabled
    /\ waiter' = [at |-> "check", after |-> after, seq |-> 0]
    /\ sock' = [sock EXCEPT !.refs = @ + 1]
    /\ SocketAlone

\* The loop's test under cs->mu: news, a closing socket, or back to sleep.
SocketMonitorWaitCheck ==
    /\ waiter.at = "check"
    /\ IF sock.ring.next > waiter.after \/ sock.at = "closing"
       THEN /\ waiter' = [waiter EXCEPT !.at = "done", !.seq = sock.ring.next]
            /\ sock' = [sock EXCEPT !.refs = @ - 1]
       ELSE waiter' = [waiter EXCEPT !.at = "waiting"] /\ UNCHANGED sock
    /\ SocketAlone

SocketMonitorWaitTimeout ==
    /\ waiter.at = "waiting"
    /\ waiter' = [waiter EXCEPT !.at = "done", !.seq = sock.ring.next]
    /\ sock' = [sock EXCEPT !.refs = @ - 1]
    /\ SocketAlone

\* ducknng_socket_monitor_wait_scalar: the caller reads what is new and may ask again.
SocketMonitorWaitScalar ==
    /\ waiter.at = "done"
    /\ waiter' = [at |-> "idle", after |-> 0, seq |-> 0]
    /\ SocketAlone /\ UNCHANGED sock

ClientSocketDestroy ==
    /\ sock.at = "open"
    /\ sock' = [sock EXCEPT !.at = "closing"]
    /\ waiter' = Woken(waiter)
    /\ SocketAlone

ClientSocketFree ==
    /\ sock.at = "closing" /\ sock.refs = 0
    /\ sock' = [sock EXCEPT !.at = "freed"]
    /\ SocketAlone /\ UNCHANGED waiter

-----------------------------------------------------------------------------
MonitorInit ==
    /\ ring = EmptyRing /\ active = <<>>
    /\ pipe = [p \in Pipes |-> [at |-> "new", rules |-> <<>>, listed |-> FALSE, admitted |-> FALSE, closed |-> FALSE, removed |-> FALSE]]
    /\ history = <<>> /\ reversed = {} /\ lost = {}
    /\ reader = [rows |-> <<>>, offset |-> 0, cursor |-> 0, got |-> <<>>]
    /\ logRing = EmptyRing /\ lines = 0 /\ capture = FALSE
    /\ sock = [at |-> "open", enabled |-> FALSE, installed |-> FALSE, refs |-> 0, ring |-> EmptyRing]
    /\ waiter = [at |-> "idle", after |-> 0, seq |-> 0]

ServiceMonitorNext ==
    \/ \E p \in Pipes :
          \/ PeerAdmissionCheck(p) \/ NetworkAdmissionCheck(p) \/ ActivePipeLimit(p) \/ PipeEventAddPre(p) \/ NngPipeStart(p)
          \/ PipeEventAddPost(p) \/ PeerDisconnect(p) \/ PipeEventRemPost(p)
    \/ \E max \in 0..1 : ReadMonitorBind(max)
    \/ ReadMonitorScan

SocketMonitorNext ==
    \/ EnableLogCapture \/ LogRingAppend(lines + 1)
    \/ SocketMonitorEnable \/ ClientSocketPipeCb
    \/ \E after \in 0..MaxSocketEvents : SocketMonitorWait(after)
    \/ SocketMonitorWaitCheck \/ SocketMonitorWaitTimeout \/ SocketMonitorWaitScalar
    \/ ClientSocketDestroy \/ ClientSocketFree

-----------------------------------------------------------------------------
(* Properties.                                                             *)

\* Events are never lost in silence once the callback has appended them: the ring
\* holds exactly the newest ones in order, the rest are counted as dropped, and a
\* reader paging with its last sequence number misses only dropped ones.
MonitorLedger ==
    /\ RingEntries(ring) = SubSeq(history, ring.dropped + 1, Len(history))
    /\ ring.count + ring.dropped = ring.next
    /\ \A i \in DOMAIN reader.got : reader.got[i] = history[reader.got[i].seq]
    /\ \A i, j \in DOMAIN reader.got : i < j => reader.got[i].seq < reader.got[j].seq
    /\ \A k \in 1..reader.cursor :
          (\E i \in DOMAIN reader.got : reader.got[i].seq = k) \/ k <= MonitorStatusBind.dropped_events
    /\ Len(LogEntriesBind) = (IF lines < RingCap THEN lines ELSE RingCap)
    /\ \A i \in DOMAIN LogEntriesBind : LogEntriesBind[i] = lines - Len(LogEntriesBind) + i

\* ducknng_list_pipes shows each pipe once, only pipes whose address lies bit for bit
\* in a block of the list in force when it was looked at, never more than the limit,
\* and exactly those between ADD_POST and REM_POST; the one exception is a pipe whose
\* REM_POST overtook its ADD_POST, which stays listed.
ActivePipesTrue ==
    LET rows == ListPipesBind
    IN /\ Len(rows) <= MaxActivePipes
       /\ \A i, j \in DOMAIN rows : rows[i] = rows[j] => i = j
       /\ \A i \in DOMAIN rows :
             LET p == pipe[rows[i]]
             IN /\ p.admitted /\ p.at = "added"
                /\ p.listed => \E r \in Range(p.rules) : InBlock(r, Address[rows[i]])
       /\ lost = {} => Range(rows) = {p \in Pipes : pipe[p].at = "added" /\ (~pipe[p].removed \/ p \in reversed)}

\* A thread sleeping in ducknng_socket_monitor_wait has nothing to report, the socket
\* it sleeps on is not being closed, the socket is freed only without waiters, and a
\* thread that returns with news finds them: the next event or a count of dropped ones.
WaiterNotForgotten ==
    /\ waiter.at = "waiting" => sock.ring.next <= waiter.after /\ sock.at = "open"
    /\ sock.refs = (IF waiter.at \in {"check", "waiting"} THEN 1 ELSE 0)
    /\ sock.at = "freed" => waiter.at \notin {"check", "waiting"}
    /\ waiter.at = "done" /\ waiter.seq > waiter.after =>
          LET read == ReadSocketMonitorBind(waiter.after, 1)
          IN read.rows # <<>> /\ (read.rows[1].seq = waiter.after + 1 \/ read.dropped > waiter.after)

=============================================================================
