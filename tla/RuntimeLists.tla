---------------------------- MODULE RuntimeLists ----------------------------
(***************************************************************************)
(* The runtime's lists of services and client sockets, and the table       *)
(* functions that show these and the other lists.  A table function copies *)
(* the list under rt->mu when it is bound and emits the copy a vector at a *)
(* time, while the list goes on changing.  A service is in the list before *)
(* it is started and is taken out before it is stopped; administrators who *)
(* work on one service name do so one after the other.                     *)
(***************************************************************************)
EXTENDS MethodRegistry, RuntimeCatalog

CONSTANTS Admins,          \* SQL threads that start and stop services
          ServiceNames,
          ScanRows,        \* rows a scan emits at once
          MaxServices,     \* bound on the services and sockets ever made
          MaxListings      \* bound on the listings made

VARIABLES services,    \* rt->services, as service ids
          service,     \* every service ever created, by id
          job,         \* what each administrator is doing, and to which service
          sockets,     \* rt->client_sockets, as [id, protocol]
          nextSocket,  \* rt->next_client_socket_id
          listing      \* the table function being read

listVars == <<services, service, job, sockets, nextSocket, listing>>

ListsKept == UNCHANGED <<registryVars, catalogVars>>

-----------------------------------------------------------------------------
(* Services.                                                               *)

FindService(name) == SelectInSeq(services, LAMBDA id : service[id].name = name)

NameFree(name) == name \notin {service[job[a].id].name : a \in {b \in Admins : job[b].at # "idle"}}

\* Ids are handed out under rt->mu when the service is added.
AddService(name, model) ==
    /\ services' = Append(services, Len(service) + 1)
    /\ service' = Append(service, [name |-> name, model |-> model, at |-> "starting"])


RemoveService(name) == services' = RemoveAt(services, FindService(name))

\* ducknng_start_service_with_tls_opts up to ducknng_service_start; a name in use is refused.
StartService(a, name) ==
    /\ job[a].at = "idle" /\ NameFree(name) /\ Len(service) < MaxServices
    /\ FindService(name) = 0
    /\ AddService(name, "request_connection")
    /\ job' = [job EXCEPT ![a] = [at |-> "starting", id |-> Len(service) + 1]]
    /\ ListsKept /\ UNCHANGED <<sockets, nextSocket, listing>>

ServiceStarted(a) ==
    /\ job[a].at = "starting"
    /\ service' = [service EXCEPT ![job[a].id].at = "running"]
    /\ job' = [job EXCEPT ![a] = [at |-> "idle", id |-> 0]]
    /\ ListsKept /\ UNCHANGED <<services, sockets, nextSocket, listing>>

\* A failed start takes the service out by its name and destroys it.
ServiceStartFailed(a) ==
    /\ job[a].at = "starting"
    /\ RemoveService(service[job[a].id].name)
    /\ service' = [service EXCEPT ![job[a].id].at = "destroyed"]
    /\ job' = [job EXCEPT ![a] = [at |-> "idle", id |-> 0]]
    /\ ListsKept /\ UNCHANGED <<sockets, nextSocket, listing>>

\* ducknng_stop_server up to the stop; a service with requests in flight is left alone.
ServerStopScalar(a, name) ==
    LET i == FindService(name)
    IN /\ job[a].at = "idle" /\ NameFree(name) /\ i # 0
       /\ job' = [job EXCEPT ![a] = [at |-> "stopping", id |-> services[i]]]
       /\ RemoveService(name)
       /\ ListsKept /\ UNCHANGED <<service, sockets, nextSocket, listing>>

ServiceDestroyed(a) ==
    /\ job[a].at = "stopping"
    /\ service' = [service EXCEPT ![job[a].id].at = "destroyed"]
    /\ job' = [job EXCEPT ![a] = [at |-> "idle", id |-> 0]]
    /\ ListsKept /\ UNCHANGED <<services, sockets, nextSocket, listing>>

\* Found and changed under one hold of rt->mu; refused while requests or sessions are active.
SetServiceExecutionModelScalar(name, model) ==
    LET i == FindService(name)
    IN /\ i # 0
       /\ service' = [service EXCEPT ![services[i]].model = model]
       /\ ListsKept /\ UNCHANGED <<services, job, sockets, nextSocket, listing>>

-----------------------------------------------------------------------------
(* Client sockets.                                                         *)

SocketAt(id) == SelectInSeq(sockets, LAMBDA s : s.id = id)

AddClientSocket(protocol) ==
    /\ nextSocket <= MaxServices
    /\ sockets' = Append(sockets, [id |-> nextSocket, protocol |-> protocol])
    /\ nextSocket' = nextSocket + 1
    /\ ListsKept /\ UNCHANGED <<services, service, job, listing>>

RemoveClientSocket(id) ==
    /\ SocketAt(id) # 0
    /\ sockets' = RemoveAt(sockets, SocketAt(id))
    /\ ListsKept /\ UNCHANGED <<services, service, job, nextSocket, listing>>

-----------------------------------------------------------------------------
(* Listings.                                                               *)

Kinds == {"methods", "servers", "sockets", "tls", "profiles"}

\* One row per method, copied out of its projection.
MethodRowCopy(m) == MethodDescriptorProject(m)

MethodsRows == [i \in DOMAIN methods |-> MethodRowCopy(methods[i])]

ServersRows == [i \in DOMAIN services |-> [service_id |-> services[i], name |-> service[services[i]].name,
                                           execution_model |-> service[services[i]].model,
                                           running |-> service[services[i]].at = "running"]]

Bound(kind, rows) ==
    /\ listing.kind = kind /\ listing.at = "idle" /\ listing.left > 0
    /\ listing' = [listing EXCEPT !.at = "scan", !.rows = rows, !.offset = 0, !.got = <<>>, !.left = @ - 1]
    /\ ListsKept /\ UNCHANGED <<services, service, job, sockets, nextSocket>>

MethodsBind == Bound("methods", MethodsRows)
ServersBind == Bound("servers", ServersRows)
SocketsBind == Bound("sockets", sockets)

\* One call of a scan: the next vector of the copy, or the empty one that ends it.
Scanned(kind) ==
    LET n == Len(listing.rows)
        upto == IF listing.offset + ScanRows > n THEN n ELSE listing.offset + ScanRows
    IN /\ listing.kind = kind /\ listing.at = "scan"
       /\ listing' = IF listing.offset >= n THEN [listing EXCEPT !.at = "idle"]
                     ELSE [listing EXCEPT !.got = @ \o SubSeq(listing.rows, listing.offset + 1, upto), !.offset = upto]
       /\ ListsKept /\ UNCHANGED <<services, service, job, sockets, nextSocket>>

MethodsScan == Scanned("methods")
ServersScan == Scanned("servers")
SocketsScan == Scanned("sockets")
TlsConfigsScan == Scanned("tls")
ListHttpProfilesScan == Scanned("profiles")

-----------------------------------------------------------------------------
ListInit ==
    /\ services = <<>> /\ service = <<>>
    /\ job = [a \in Admins |-> [at |-> "idle", id |-> 0]]
    /\ sockets = <<>> /\ nextSocket = 1
    /\ listing \in [kind : Kinds, at : {"idle"}, rows : {<<>>}, offset : {0}, got : {<<>>}, left : {MaxListings}]

ServicesNext ==
    \/ \E a \in Admins :
          \/ \E name \in ServiceNames : StartService(a, name) \/ ServerStopScalar(a, name)
          \/ ServiceStarted(a) \/ ServiceStartFailed(a) \/ ServiceDestroyed(a)
    \/ \E name \in ServiceNames : SetServiceExecutionModelScalar(name, "shared_serialized_connection")

SocketsNext ==
    \/ AddClientSocket("req")
    \/ \E id \in 1..MaxServices : RemoveClientSocket(id)

\* The administration that changes the list being read, and the reader.
ListsNext ==
    \/ listing.kind = "servers" /\ ServicesNext
    \/ listing.kind = "sockets" /\ SocketsNext
    \/ listing.kind = "methods" /\ RegistryAdminNext /\ UNCHANGED <<catalogVars, listVars>>
    \/ listing.kind = "tls" /\ TlsNext /\ UNCHANGED <<registryVars, listVars>>
    \/ listing.kind = "profiles" /\ ProfileAdminNext /\ UNCHANGED <<registryVars, listVars>>
    \/ MethodsBind \/ ServersBind \/ SocketsBind
    \/ Bound("tls", TlsConfigsBind)
    \/ \E u \in Users : Bound("profiles", ListHttpProfilesBind(u))
    \/ MethodsScan \/ ServersScan \/ SocketsScan \/ TlsConfigsScan \/ ListHttpProfilesScan

-----------------------------------------------------------------------------
(* Properties.                                                             *)

\* Whatever is added and removed while it is read, a listing is the list of one
\* moment, each row once and in order; the objects of the live lists are usable:
\* no listed service is destroyed, a running one is listed unless an administrator
\* is stopping it, and no id or name stands for two.
ListsTrue ==
    /\ listing.got = SubSeq(listing.rows, 1, listing.offset)
    /\ listing.at = "idle" => listing.got = listing.rows
    /\ \A i \in DOMAIN services : service[services[i]].at # "destroyed"
    /\ \A id \in DOMAIN service :
          service[id].at = "running" =>
              id \in Range(services) \/ \E a \in Admins : job[a] = [at |-> "stopping", id |-> id]
    /\ \A i, j \in DOMAIN services : service[services[i]].name = service[services[j]].name => i = j
    /\ \A i, j \in DOMAIN sockets : i < j => sockets[i].id < sockets[j].id
=============================================================================
