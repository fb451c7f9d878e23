---------------------------- MODULE MCHttpServer ----------------------------
EXTENDS HttpServer

MCSegmentLength == "" :> 0 @@ "rpc" :> 3 @@ "a" :> 1 @@ "b" :> 1 @@
                   "{id}" :> 4 @@ "long" :> 4 @@ "{x" :> 2 @@ "b?" :> 2

MCMount == <<"rpc">>

Get(path, id) == [method |-> "GET", path |-> path, size |-> 0, frame |-> FALSE,
                  id |-> id, addr |-> "near"]
Post(frame) == [Get(<<"rpc">>, "ann") EXCEPT !.method = "POST", !.frame = frame]

Op(op, kind, method, path) ==
    [op |-> op, kind |-> kind, method |-> method, path |-> path, max |-> 0,
     require |-> FALSE, allow |-> {}, worker |-> "k1"]
At(path) == Op("route", "exact", "GET", path)

Plan(reqs, ws, admin) == [req |-> reqs, ws |-> ws, admin |-> admin]

EventsTwice == Plan([c \in {"c1", "c2"} |-> Get(<<"a">>, "ann")], {},
                    <<Op("event", "exact", "GET", <<"a">>)>>)

StreamBoth == Plan("c1" :> Get(<<"a">>, "ann") @@ "c2" :> Get(<<"b">>, "nobody"), {},
                   <<Op("stream", "exact", "GET", <<"a">>),
                     [Op("auth", "exact", "GET", <<"a">>) EXCEPT !.require = TRUE,
                                                               !.allow = {"ann"}],
                     Op("stream", "exact", "get", <<"b">>)>>)

RpcAndSocket == Plan([c \in {"c1"} |-> Post(TRUE)], {"w1"},
                     <<[Op("authorizer", "exact", "GET", <<"">>) EXCEPT !.require = TRUE]>>)

TwoSockets == Plan([c \in {} |-> Post(TRUE)], {"w1", "w2"}, <<>>)

Patterns(path) == Plan("c1" :> Get(path, "ann"), {},
                 <<At(<<"a", "b">>),
                   Op("static", "prefix", "GET", <<"a", "long">>),
                   Op("pattern", "template", "GET", <<"a", "{id}">>),
                   Op("pattern", "prefix", "GET", <<"a", "">>),
                   Op("pattern", "template", "get", <<"a", "{id}">>),
                   Op("unpattern", "template", "GET", <<"a", "{id}">>),
                   Op("unroute", "exact", "GET", <<"a", "b">>)>>)

Refusals == Plan("c1" :> [Get(<<"b">>, "bob") EXCEPT !.size = 2] @@ "c2" :> Post(FALSE), {},
                 <<At(<<"rpc">>), At(<<"b?">>),
                   Op("pattern", "template", "GET", <<"a", "{x">>),
                   [At(<<"b">>) EXCEPT !.max = 1],
                   [Op("peers", "exact", "GET", <<"">>) EXCEPT !.allow = {"ann"}],
                   [Op("ips", "exact", "GET", <<"">>) EXCEPT !.allow = {"far"}]>>)

WorkersToo == Plan([c \in {"c1"} |-> Get(<<"rpc">>, "ann")], {},
                   <<Op("worker", "exact", "GET", <<"">>), Op("worker", "exact", "GET", <<"">>),
                     Op("unworker", "exact", "GET", <<"">>),
                     [Op("worker", "exact", "GET", <<"">>) EXCEPT !.worker = "k2"]>>)

MCPlans == {EventsTwice, StreamBoth, RpcAndSocket, TwoSockets,
            Patterns(<<"a", "long">>), Patterns(<<"a", "b">>), Refusals, WorkersToo}
=============================================================================
