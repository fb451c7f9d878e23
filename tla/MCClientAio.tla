----------------------------- MODULE MCClientAio -----------------------------
(* Instances of ClientAio for TLC: two SQL threads, one socket, one stream.  *)
EXTENDS ClientAio, TLC

CONSTANTS a, b, s1

MCThreads == {a, b}
MCSockets == {s1}
MCProtocols == {"req", "sub"}
AlwaysTimed == {TRUE}

Load(x, y, n) == [calls |-> a :> x @@ b :> y, ids |-> n]

\* Requests and receives on a socket that another thread dials, uses and closes.
OnSocket == Load({"request", "recv", "collect", "drop"}, {"dial", "asknow", "close"}, 2)
\* Synchronous calls of two threads on a socket, and its close.
Blocking == Load({"dial", "listen", "recvnow", "send"}, SyncCalls \cup {"close"}, 1)
\* Handles without a socket, which two threads collect and drop.
Direct == Load({"http", "collect"}, {"ncurl", "collect", "drop"}, 2)
\* A response stream that two threads read and one closes.
OnStream == Load({"open", "body", "collect", "drop"}, {"body", "shut"}, 3)

AllLoads == {OnSocket, Blocking, Direct, OnStream}
StreamLoad == {OnStream}
LiveLoads == {Load({"url", "collect"}, {}, 1),
              Load({"request", "collect"}, {"dial", "sendnow", "close"}, 1),
              Load({"open", "body", "collect"}, {"shut"}, 2)}
=============================================================================
