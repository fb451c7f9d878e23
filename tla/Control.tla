------------------------------ MODULE Control ------------------------------
(***************************************************************************)
(* The control plane of one runtime: the method registry with the calls    *)
(* that use it, the peers of a service with the rings that record them,    *)
(* the runtime's catalog of profiles, TLS configurations and codecs, its   *)
(* lists as table functions show them, the bytes of its frames, and those  *)
(* of the response bodies it streams from HTTP servers.  They are kept in  *)
(* disjoint state with critical sections of their own and no step of one   *)
(* reads another's, so a behaviour follows one of them: part says which.   *)
(***************************************************************************)
EXTENDS Monitors, RuntimeLists, Codecs, HttpClientStream

VARIABLE part

Parts == {"registry", "pipes", "socket", "rate", "profiles", "objects", "lists", "frames", "numbers", "body"}

controlVars == <<registryVars, monitorVars, policyVars, catalogVars, listVars, codecVars, streamVars, part>>

Init ==
    /\ part \in Parts
    /\ RegistryInit /\ MonitorInit /\ PolicyInit /\ CatalogInit /\ ListInit /\ CodecInit /\ StreamInit
    /\ part # "rate" => rate = 0
    /\ part # "lists" => listing.kind = "servers"

OnlyRegistry == UNCHANGED <<monitorVars, policyVars, catalogVars, listVars, codecVars, streamVars>>
OnlyMonitors == UNCHANGED <<registryVars, policyVars, catalogVars, listVars, codecVars, streamVars>>
OnlyPolicy == UNCHANGED <<registryVars, monitorVars, catalogVars, listVars, codecVars, streamVars>>
OnlyCatalog == UNCHANGED <<registryVars, monitorVars, policyVars, listVars, codecVars, streamVars>>
OnlyLists == UNCHANGED <<monitorVars, policyVars, codecVars, streamVars>>
OnlyBytes == UNCHANGED <<registryVars, monitorVars, policyVars, catalogVars, listVars, streamVars>>
OnlyBody == UNCHANGED <<registryVars, monitorVars, policyVars, catalogVars, listVars, codecVars>>

Next ==
    /\ UNCHANGED part
    /\ \/ part = "registry" /\ RegistryNext /\ OnlyRegistry
       \/ part = "pipes" /\ ServiceMonitorNext /\ OnlyMonitors
       \/ part = "pipes" /\ AllowlistNext /\ OnlyPolicy
       \/ part = "socket" /\ SocketMonitorNext /\ OnlyMonitors
       \/ part = "rate" /\ RateNext /\ OnlyPolicy
       \/ part = "profiles" /\ ProfileNext /\ OnlyCatalog
       \/ part = "objects" /\ ObjectNext /\ OnlyCatalog
       \/ part = "lists" /\ ListsNext /\ OnlyLists
       \/ part = "frames" /\ FrameNext /\ OnlyBytes
       \/ part = "numbers" /\ NumberNext /\ OnlyBytes
       \/ part = "body" /\ StreamNext /\ OnlyBody

Spec == Init /\ [][Next]_controlVars

-----------------------------------------------------------------------------
(* The properties of the parts, as the run checks them.                    *)





\* A frame's bytes and a batch's integers have different byte values, so each
\* codec is judged in the part that carries its bytes.
CodecsExact ==
    /\ part # "numbers" => FrameCodecExact
    /\ part # "frames" => IntegersExact
=============================================================================
