----------------------------- MODULE MCControl -----------------------------
(* Instance of Control for TLC: two callers and two SQL methods, one of     *)
(* which has the name of an upload method; two connections, of which one    *)
(* lies in the /3 block of two-bit bytes; two outbound requesters, one on a *)
(* session's connection.                                                    *)
EXTENDS Control

MCScripts == {<<"write", "text">>, <<"write", "write", "none">>}

MCAddress == [p1 |-> <<1, 2>>, p2 |-> <<1, 1>>]
MCCertificate == [p1 |-> [verified |-> TRUE, alt |-> <<>>, cn |-> "alice"], p2 |-> [verified |-> FALSE, alt |-> <<"bob">>, cn |-> ""]]

Given(list) == [given |-> TRUE, entries |-> list]
MCIpLists == {[given |-> FALSE, entries |-> <<>>],
              Given(<<[addr |-> <<1, 3>>, bits |-> 3]>>), Given(<<[addr |-> <<1, 3>>, bits |-> 5]>>)}
MCPeerLists == {Given(<<<<"cn", "alice">>>>), Given(<<<<"san", "bob">>, <<"malformed">>>>)}

Input(scheme, port, path, method, secure, expires, allow) ==
    [scheme |-> scheme, host |-> "H", port |-> port, path |-> path, method |-> method, tls_required |-> secure,
     header |-> "auth", secret |-> scheme, expires |-> expires, allow |-> allow, clean |-> TRUE]
MCProfileInputs == {Input("https", 0, <<"/", "a">>, "*", TRUE, 1, <<"alice">>),
                    Input("http", 80, <<"/">>, "get", FALSE, 0, <<"anyone">>),
                    Input("http", 0, <<"/">>, "*", TRUE, 0, <<>>)}

Target(scheme, port, path, method) ==
    [scheme |-> scheme, host |-> "h", port |-> port, path |-> path, method |-> method]
MCTargets == {Target("HTTPS", 0, <<"/", "a", "b">>, "GET"), Target("https", 443, <<"/", "a", "/", "b">>, "PUT"),
              Target("http", 0, <<>>, "GET")}
MCHeaderSets == {{"Auth", "accept"}, {"accept"}}

MCLower == [x \in {"h", "http", "https", "auth", "accept", "json"} |-> x]
           @@ ("H" :> "h") @@ ("HTTPS" :> "https") @@ ("Auth" :> "auth") @@ ("JSON" :> "json")
MCUpper == [x \in {"*", "GET", "PUT"} |-> x] @@ ("get" :> "GET")

MCInRequest == [u1 |-> TRUE, u2 |-> TRUE, u3 |-> TRUE, u4 |-> FALSE]
MCThreadSubject == [u1 |-> "alice", u2 |-> "alice", u3 |-> "", u4 |-> ""]
MCConnectionSubject == [u1 |-> "bob", u2 |-> "", u3 |-> "", u4 |-> ""]

Response(bodiless, coding, given, text) ==
    [bodiless |-> bodiless, coding |-> coding, length |-> [given |-> given, text |-> text]]
MCResponses == {Response(TRUE, <<"chunked">>, FALSE, <<>>), Response(FALSE, <<"gzip", "chunked">>, FALSE, <<>>),
                Response(FALSE, <<"chunked", "gzip">>, FALSE, <<>>), Response(FALSE, <<>>, FALSE, <<>>),
                Response(FALSE, <<>>, TRUE, <<0>>), Response(FALSE, <<>>, TRUE, <<1, 0>>),
                Response(FALSE, <<>>, TRUE, <<1, 1>>), Response(FALSE, <<>>, TRUE, <<>>)}
MCSent == [chunked |-> (0..Letter) \ {ControlByte}, length |-> {0, 1}, close |-> {0, 1}]
MCMaxArrived == [chunked |-> 11, length |-> 4, close |-> 3]
=============================================================================
