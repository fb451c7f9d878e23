--------------------------- MODULE MCExecutionPool ---------------------------
(* Instances of ExecutionPool for TLC.                                       *)
EXTENDS ExecutionPool, TLC

CONSTANTS gate, back, h1, h2, w1

\* The SQL of the gateway service calls the backend service.
GatewayCalls == {<<gate, back>>}

\* The gateway has an HTTP worker, the backend a request handler.
PairHome == (h1 :> back) @@ (w1 :> gate)

\* Gateway and backend have a request handler each.
SiblingHome == (h1 :> gate) @@ (h2 :> back)

\* One service with two request handlers.
SingleHome == (h1 :> gate) @@ (h2 :> gate)
=============================================================================
