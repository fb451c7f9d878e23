----------------------------- MODULE HttpRoutes -----------------------------
(***************************************************************************)
(* The HTTP route table of a service (src/src/ducknng_service.c): the      *)
(* validation of a registration, the three kinds of pattern, the choice of *)
(* the route that answers a request, and the changes SQL makes to the      *)
(* table.  Everything here is a function of the table; HttpServer.tla      *)
(* takes the steps.                                                        *)
(*                                                                         *)
(* A path is the sequence of its segments: "/a/b" is <<"a", "b">>, "/" is  *)
(* <<"">> and a trailing slash is a last empty segment.  The table is the  *)
(* array svc->http_routes.  The handler's SQL text, its content type and   *)
(* the route id, which is only ever listed, are left out.                  *)
(***************************************************************************)
EXTENDS Naturals, Sequences, SequencesExt

CONSTANTS
    SegmentLength,   \* [segment -> number of characters]; "" has none
    Params,          \* the segments of the form {name}
    Reserved,        \* segments with a '?' or a '#'
    BadParams,       \* segments with a brace that are not of the form {name}
    Mount,           \* the path of the framed RPC endpoint of the service
    RecvMax          \* svc->recv_max_bytes

Segments == DOMAIN SegmentLength

ASSUME SegmentAssumption ==
    /\ SegmentLength \in [Segments -> Nat]
    /\ "" \in Segments /\ SegmentLength[""] = 0
    /\ Params \cup Reserved \cup BadParams \subseteq Segments
    /\ RecvMax \in Nat

MatchKinds == {"exact", "template", "prefix"}
ResponseModes == {"body", "stream", "events"}

\* strlen(path): every segment is preceded by its slash.
PathLength(p) ==
    FoldLeft(LAMBDA n, seg : n + 1 + SegmentLength[seg], 0, p)

-----------------------------------------------------------------------------
(* Validation of what SQL passes to a registration.                        *)

\* Methods are compared in upper case; "" and non-tokens are refused.
HttpRouteMethodNormalize(m) ==
    CASE m = "get" -> "GET" [] m = "post" -> "POST" [] OTHER -> m

HttpRoutePathValid(p) ==
    p # <<>> /\ \A i \in 1..Len(p) : p[i] \notin Reserved

HttpRouteTemplateParamNameValid(seg) == seg \notin BadParams

HttpRouteTemplateValid(p) ==
    /\ \A i \in 1..Len(p) : HttpRouteTemplateParamNameValid(p[i])
    /\ \E i \in 1..Len(p) : p[i] \in Params

HttpRoutePatternValid(kind, p) ==
    /\ HttpRoutePathValid(p)
    /\ kind = "template" => HttpRouteTemplateValid(p)

-----------------------------------------------------------------------------
(* Matching.                                                               *)

\* A prefix that ends in a slash matches what is below it; any other also
\* matches itself, and never the middle of a segment.
HttpRoutePrefixMatches(pat, p) ==
    IF Last(pat) = ""
      THEN Len(p) >= Len(pat) /\ SubSeq(p, 1, Len(pat) - 1) = Front(pat)
      ELSE IsPrefix(pat, p)

\* A parameter stands for one non-empty segment.
SegmentMatches(s, t) == s # "" /\ t # "" /\ (s \in Params \/ s = t)

HttpRouteTemplateMatches(pat, p) ==
    \E n \in 0..Len(pat) :
        /\ n <= Len(p)
        /\ \A i \in 1..n : SegmentMatches(pat[i], p[i])
        /\ \/ n = Len(pat) /\ n = Len(p)
           \/ /\ n < Len(pat) /\ n < Len(p)
              /\ pat[n + 1] = "" /\ p[n + 1] = ""

HttpRoutePatternMatches(kind, pat, p) ==
    CASE kind = "exact" -> pat = p
      [] kind = "template" -> HttpRouteTemplateMatches(pat, p)
      [] kind = "prefix" -> HttpRoutePrefixMatches(pat, p)

RouteMatches(r, m, p) ==
    r.method = m /\ HttpRoutePatternMatches(r.kind, r.path, p)

HttpRouteMatchKindRank(kind) ==
    CASE kind = "exact" -> 3 [] kind = "template" -> 2 [] kind = "prefix" -> 1

MaxPath == 100      \* any bound above the longest path: the code shifts by 32

Score(r) == HttpRouteMatchKindRank(r.kind) * MaxPath + PathLength(r.path)

\* Mutant: ranked by the length of the pattern alone.
ScoreByLength(r) == PathLength(r.path)

\* Mutant: the length of the pattern decides before its kind.
LookupLongest(routes, m, p) ==
    LET better(best, i) ==
            /\ RouteMatches(routes[i], HttpRouteMethodNormalize(m), p)
            /\ best = 0 \/ ScoreByLength(routes[i]) >= ScoreByLength(routes[best])
    IN  FoldLeft(LAMBDA best, i : IF better(best, i) THEN i ELSE best,
                 0, [i \in 1..Len(routes) |-> i])

\* The loop of lookup_http_route: the index of the chosen route, 0 for none.
LookupHttpRoute(routes, m, p) ==
    LET better(best, i) ==
            /\ RouteMatches(routes[i], HttpRouteMethodNormalize(m), p)
            /\ best = 0 \/ Score(routes[i]) >= Score(routes[best])
    IN  FoldLeft(LAMBDA best, i : IF better(best, i) THEN i ELSE best,
                 0, [i \in 1..Len(routes) |-> i])

-----------------------------------------------------------------------------
(* Changes to the table.  Each is one critical section of svc->mu.         *)

RouteKey(r) == <<r.kind, r.method, r.path>>

NewRoute(kind, m, p, max) ==
    [kind |-> kind, method |-> m, path |-> p, max |-> max, mode |-> "body",
     static |-> FALSE, require |-> FALSE, allow |-> {}]

IndexesOf(routes, P(_)) == {i \in 1..Len(routes) : P(routes[i])}
FirstOf(S) == CHOOSE i \in S : \A j \in S : i <= j

\* register_http_route_inner accepts: the pattern is well formed and does not
\* match the RPC mount, the body limit fits the service's, the key is free.
CanRegister(routes, kind, m, p, max) ==
    /\ HttpRoutePatternValid(kind, p)
    /\ ~HttpRoutePatternMatches(kind, p, Mount)
    /\ max <= RecvMax
    /\ \A i \in 1..Len(routes) :
           RouteKey(routes[i]) # <<kind, HttpRouteMethodNormalize(m), p>>

RegisterHttpRouteInner(routes, kind, m, p, max) ==
    IF CanRegister(routes, kind, m, p, max)
      THEN Append(routes, NewRoute(kind, HttpRouteMethodNormalize(m), p, max))
      ELSE routes

\* unregister_http_route_inner: the later entries move down.
UnregisterHttpRouteInner(routes, kind, m, p) ==
    SelectSeq(routes, LAMBDA r :
        RouteKey(r) # <<kind, HttpRouteMethodNormalize(m), p>>)

\* The second lock section of register_http_event_route.
MarkEventRoute(routes, p) ==
    LET here == IndexesOf(routes, LAMBDA r : RouteKey(r) = <<"exact", "GET", p>>)
    IN  IF here = {} THEN routes
        ELSE [routes EXCEPT ![FirstOf(here)].mode = "events"]

\* The second lock section of register_http_stream_route.  It compares with
\* the method as SQL spelled it.
MarkStreamRoute(routes, m, p) ==
    LET here == IndexesOf(routes, LAMBDA r : RouteKey(r) = <<"exact", m, p>>)
    IN  IF here = {} THEN routes
        ELSE [routes EXCEPT ![FirstOf(here)].mode = "stream"]

\* set_http_route_auth changes the first route with this method and path,
\* whatever its kind, and compares the method as SQL spelled it.
SetHttpRouteAuth(routes, m, p, require, allow) ==
    LET here == IndexesOf(routes, LAMBDA r : r.method = m /\ r.path = p)
    IN  IF here = {} THEN routes
        ELSE [routes EXCEPT ![FirstOf(here)].require = require,
                            ![FirstOf(here)].allow = allow]

\* The last step of register_static_route: the directory of the prefix route.
SetStaticDirectory(routes, p) ==
    LET here == IndexesOf(routes, LAMBDA r : RouteKey(r) = <<"prefix", "GET", p>>)
    IN  IF here = {} THEN routes
        ELSE [routes EXCEPT ![FirstOf(here)].static = TRUE]

=============================================================================
