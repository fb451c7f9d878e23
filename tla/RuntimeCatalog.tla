--------------------------- MODULE RuntimeCatalog ---------------------------
(***************************************************************************)
(* The runtime's named objects that requests copy before they use them:    *)
(* outbound HTTP profiles (ducknng_http_profile.c), TLS configurations     *)
(* (ducknng_runtime.c, ducknng_sql_tls.c) and user codecs.  Every change   *)
(* and every copy is made under rt->mu; a request goes on with its copy    *)
(* while the catalog changes.  Paths are sequences of characters; names    *)
(* have a lower-case form.                                                 *)
(***************************************************************************)
EXTENDS Naturals, Sequences, FiniteSets, SequencesExt

CONSTANTS ProfileIds, ProfileInputs,   \* what ducknng_register_http_profile is given
          Targets,                     \* [scheme, host, port, path, method] of outbound requests
          HeaderSets,                  \* header names the caller passes
          Users,                       \* SQL threads that make outbound requests
          InRequest,                   \* whether a thread serves a request
          ThreadSubject,               \* the subject of that request, "" when none
          ConnectionSubject,           \* the subject bound to the thread's connection, "" when none
          Lower, Upper,                \* letter case of the names used
          ContentTypes, CodecNames,    \* arguments of ducknng_register_codec
          MaxChanges, MaxTime          \* bounds

VARIABLES profiles,      \* rt->http_profiles
          nextVersion,   \* rt->next_http_profile_version
          registered,    \* every profile ever stored, by version
          now,           \* the wall clock
          request,       \* the outbound request of each thread
          tls,           \* rt->tls_configs
          nextTls,       \* rt->next_tls_config_id
          issued,        \* every TLS configuration ever added, by id
          handle,        \* a copy ducknng_lookup_tls_config_copy made, with the id asked for
          codecs,        \* rt->user_codecs
          changes

catalogVars == <<profiles, nextVersion, registered, now, request, tls, nextTls, issued, handle, codecs, changes>>

Changed == changes < MaxChanges /\ changes' = changes + 1

-----------------------------------------------------------------------------
(* HTTP profiles.                                                          *)

DefaultPort(scheme) == IF scheme = "https" THEN 443 ELSE 80

PathPrefixOnly(path, prefix) == IsPrefix(prefix, path)

\* ducknng_http_profile_path_in_scope: a prefix ends at a segment boundary.
PathInScope(path, prefix) ==
    \/ prefix = <<"/">>
    \/ /\ IsPrefix(prefix, path)
       /\ \/ Len(path) = Len(prefix)
          \/ Last(prefix) = "/"
          \/ path[Len(prefix) + 1] = "/"

\* The checks of ducknng_runtime_upsert_http_profile, after normalisation; port 0 is
\* NULL, clean says that the strings have no control characters and are tokens
\* where they must be, and an empty list of subjects is refused.
ProfileValid(in) ==
    /\ in.clean
    /\ in.port <= 65535
    /\ in.path # <<>> /\ in.path[1] = "/"
    /\ Lower[in.scheme] \in {"http", "https"}
    /\ in.tls_required => Lower[in.scheme] = "https"
    /\ in.allow # <<>>

Normalised(id, in) ==
    [id |-> id, version |-> nextVersion, created |-> now, scheme |-> Lower[in.scheme], host |-> Lower[in.host],
     port |-> in.port, path |-> in.path, method |-> Upper[in.method], tls_required |-> in.tls_required,
     header |-> in.header, secret |-> in.secret, expires |-> in.expires, allow |-> in.allow]

ProfileIndex(id) == SelectInSeq(profiles, LAMBDA p : p.id = id)

ProfilesAlone == UNCHANGED <<now, request, tls, nextTls, issued, handle, codecs>>

\* A replacement keeps the creation time and its place; both get a new version.
UpsertHttpProfile(id, in) ==
    LET i == ProfileIndex(id)
        new == Normalised(id, in)
        kept == [new EXCEPT !.created = IF i = 0 THEN now ELSE profiles[i].created]
    IN IF ProfileValid(in)
       THEN /\ profiles' = IF i = 0 THEN Append(profiles, new) ELSE [profiles EXCEPT ![i] = kept]
            /\ nextVersion' = nextVersion + 1
            /\ registered' = Append(registered, kept)
       ELSE UNCHANGED <<profiles, nextVersion, registered>>

RegisterHttpProfileScalar(id, in) == Changed /\ UpsertHttpProfile(id, in) /\ ProfilesAlone

DropHttpProfile(id) ==
    profiles' = IF ProfileIndex(id) = 0 THEN profiles ELSE RemoveAt(profiles, ProfileIndex(id))

DropHttpProfileScalar(id) ==
    /\ Changed
    /\ DropHttpProfile(id)
    /\ UNCHANGED <<nextVersion, registered>> /\ ProfilesAlone

-----------------------------------------------------------------------------
(* Outbound requests.  at: idle, copied, sent, refused.                    *)

NoRequest == [at |-> "idle", target |-> 0, headers |-> {}, profile |-> 0, sent |-> {}, secret |-> "none", time |-> 0]

CatalogAlone == UNCHANGED <<profiles, nextVersion, registered, now, tls, nextTls, issued, handle, codecs, changes>>

\* ducknng_http_profile_find_copy.
ProfileFindCopy(u, id, target, headers) ==
    LET i == ProfileIndex(id)
    IN /\ request[u].at = "idle"
       /\ request' = [request EXCEPT ![u] =
             IF i = 0 THEN [NoRequest EXCEPT !.at = "refused"]
             ELSE [NoRequest EXCEPT !.at = "copied", !.target = target, !.headers = headers, !.profile = profiles[i]]]
       /\ CatalogAlone

\* A session's connection carries its opener's subject, which goes before the thread's.
RequestSubject(u) == IF ConnectionSubject[u] # "" THEN ConnectionSubject[u] ELSE ThreadSubject[u]

SubjectAdmitted(p, subject) == p.allow # <<"anyone">> => subject # "" /\ subject \in Range(p.allow)

TargetPort(t) == IF t.port = 0 THEN DefaultPort(Lower[t.scheme]) ELSE t.port

TargetInScope(p, t) ==
    /\ Lower[t.scheme] \in {"http", "https"}
    /\ p.tls_required => Lower[t.scheme] = "https"
    /\ Lower[t.scheme] = p.scheme
    /\ Lower[t.host] = p.host
    /\ p.port # 0 => TargetPort(t) = p.port
    /\ PathInScope(IF t.path = <<>> THEN <<"/">> ELSE t.path, p.path)
    /\ p.method # "*" => Upper[t.method] = p.method

\* ducknng_http_profile_merge_headers.
MergeHeaders(headers, p) == headers \cup {p.header}

\* The rest of ducknng_runtime_resolve_http_profile_headers works on the copy.
ResolveHttpProfileHeaders(u) ==
    LET p == request[u].profile
        refused == \/ p.expires # 0 /\ now > p.expires
                   \/ ~SubjectAdmitted(p, RequestSubject(u))
                   \/ ~TargetInScope(p, request[u].target)
                   \/ \E h \in request[u].headers : Lower[h] = Lower[p.header]
    IN /\ request[u].at = "copied"
       /\ request' = [request EXCEPT ![u] =
             IF refused THEN [NoRequest EXCEPT !.at = "refused"]
             ELSE [@ EXCEPT !.at = "sent", !.sent = MergeHeaders(request[u].headers, p),
                                    !.secret = p.secret, !.time = now]]
       /\ CatalogAlone

RequestDone(u) ==
    /\ request[u].at \in {"sent", "refused"}
    /\ request' = [request EXCEPT ![u] = NoRequest]
    /\ CatalogAlone

Passes ==
    /\ now < MaxTime
    /\ now' = now + 1
    /\ UNCHANGED <<profiles, nextVersion, registered, request, tls, nextTls, issued, handle, codecs, changes>>

\* A row of the listing names the header and leaves out its value.
ProfilePublicCopy(p) == [p EXCEPT !.secret = "hidden"]

HttpProfilesSnapshot == [i \in DOMAIN profiles |-> ProfilePublicCopy(profiles[i])]

\* A request sees the profiles its subject may use, and not the lists of subjects;
\* outside a request all are listed with them.
ProfilesScopeToSubject(rows, u) ==
    IF RequestSubject(u) = "" /\ ~InRequest[u] THEN rows
    ELSE LET mine == SelectSeq(rows, LAMBDA p : SubjectAdmitted(p, RequestSubject(u)))
         IN [i \in DOMAIN mine |-> [mine[i] EXCEPT !.allow = <<>>]]

ListHttpProfilesBind(u) == ProfilesScopeToSubject(HttpProfilesSnapshot, u)

-----------------------------------------------------------------------------
(* TLS configurations and codecs.                                          *)

TlsIndex(id) == SelectInSeq(tls, LAMBDA c : c.id = id)

TlsAlone == UNCHANGED <<profiles, nextVersion, registered, now, request, codecs>>

AddTlsConfigByCount(source) ==
    /\ tls' = Append(tls, [id |-> Len(tls) + 1, source |-> source, allow |-> {}])
    /\ nextTls' = nextTls + 1
    /\ issued' = Append(issued, source)

AddTlsConfig(source) ==
    /\ tls' = Append(tls, [id |-> nextTls, source |-> source, allow |-> {}])
    /\ nextTls' = nextTls + 1
    /\ issued' = Append(issued, source)

\* Bad arguments add nothing.
TlsConfigAdded(source) ==
    /\ Changed
    /\ AddTlsConfig(source) \/ UNCHANGED <<tls, nextTls, issued>>
    /\ UNCHANGED handle /\ TlsAlone

TlsConfigFromFilesScalar == TlsConfigAdded("files")

TlsConfigFromPemScalar == TlsConfigAdded("pem")

\* The key material is generated before the configuration is added, and may fail.
SelfSignedTlsConfigScalar == TlsConfigAdded("self_signed")

RemoveTlsConfig(id) == tls' = IF TlsIndex(id) = 0 THEN tls ELSE RemoveAt(tls, TlsIndex(id))

DropTlsConfigScalar(id) ==
    /\ Changed
    /\ RemoveTlsConfig(id)
    /\ UNCHANGED <<nextTls, issued, handle>> /\ TlsAlone

SetTlsPeerAllowlistScalar(id, list) ==
    /\ Changed
    /\ tls' = IF TlsIndex(id) = 0 THEN tls ELSE [tls EXCEPT ![TlsIndex(id)].allow = list]
    /\ UNCHANGED <<nextTls, issued, handle>> /\ TlsAlone

TlsConfigsBind == [i \in DOMAIN tls |-> [tls_config_id |-> tls[i].id, peer_allowlist |-> tls[i].allow]]

\* The copy a server start, a socket or an HTTP request goes on with.
LookupTlsConfigCopy(id) ==
    /\ TlsIndex(id) # 0
    /\ handle' = [asked |-> id, copy |-> tls[TlsIndex(id)]]
    /\ UNCHANGED <<tls, nextTls, issued, changes>> /\ TlsAlone

CodecIndex(key) == SelectInSeq(codecs, LAMBDA c : c.content_type = key)

CodecsAlone == UNCHANGED <<profiles, nextVersion, registered, now, request, tls, nextTls, issued, handle>>

RegisterUserCodec(type, fn) ==
    LET i == CodecIndex(Lower[type])
    IN /\ Changed
       /\ codecs' = IF i = 0 THEN Append(codecs, [content_type |-> Lower[type], function_name |-> fn])
                    ELSE [codecs EXCEPT ![i].function_name = fn]
       /\ CodecsAlone

UnregisterUserCodec(type) ==
    LET i == CodecIndex(Lower[type])
    IN /\ Changed
       /\ codecs' = IF i = 0 THEN codecs ELSE RemoveAt(codecs, i)
       /\ CodecsAlone

FindUserCodec(type) ==
    LET i == CodecIndex(Lower[type]) IN IF i = 0 THEN "none" ELSE codecs[i].function_name

-----------------------------------------------------------------------------
CatalogInit ==
    /\ profiles = <<>> /\ nextVersion = 1 /\ registered = <<>>
    /\ now = 1
    /\ request = [u \in Users |-> NoRequest]
    /\ tls = <<>> /\ nextTls = 1 /\ issued = <<>>
    /\ handle = [asked |-> 0, copy |-> [id |-> 0, source |-> "none", allow |-> {}]]
    /\ codecs = <<>>
    /\ changes = 0

ProfileAdminNext ==
    \/ \E id \in ProfileIds, in \in ProfileInputs : RegisterHttpProfileScalar(id, in)
    \/ \E id \in ProfileIds : DropHttpProfileScalar(id)

ProfileNext ==
    \/ ProfileAdminNext
    \/ \E u \in Users :
          \/ \E id \in ProfileIds, t \in Targets, h \in HeaderSets : ProfileFindCopy(u, id, t, h)
          \/ ResolveHttpProfileHeaders(u)
          \/ RequestDone(u)
    \/ Passes

TlsNext ==
    \/ TlsConfigFromFilesScalar \/ TlsConfigFromPemScalar \/ SelfSignedTlsConfigScalar
    \/ \E id \in 1..MaxChanges :
          \/ DropTlsConfigScalar(id)
          \/ SetTlsPeerAllowlistScalar(id, {"alice"})
          \/ LookupTlsConfigCopy(id)

ObjectNext ==
    \/ TlsNext
    \/ \E type \in ContentTypes :
          \/ \E fn \in CodecNames : RegisterUserCodec(type, fn)
          \/ UnregisterUserCodec(type)

-----------------------------------------------------------------------------
(* Properties.                                                             *)

\* A path lies under a prefix when the prefix's segments are its first segments.
Under(path, prefix) ==
    LET whole == IF Last(prefix) = "/" THEN prefix ELSE Append(prefix, "/")
    IN path = prefix \/ IsPrefix(whole, path)

\* A request that carries a profile's credential carries one that was registered as
\* a whole: the scope that was checked belongs to the same version, admits the
\* target, had not expired, and lists the subject the SQL runs for (the session
\* opener's before that of the thread); the caller's own headers are all kept and
\* none of them is the credential's.
CredentialInScope ==
    \A u \in Users :
        LET r == request[u]
            p == registered[r.profile.version]
            t == r.target
            subject == IF ConnectionSubject[u] # "" THEN ConnectionSubject[u] ELSE ThreadSubject[u]
        IN r.at = "sent" =>
             /\ r.profile = p /\ r.secret = p.secret
             /\ r.sent = r.headers \cup {p.header} /\ p.header \notin r.headers
             /\ p.expires # 0 => r.time <= p.expires
             /\ p.allow # <<"anyone">> => subject \in Range(p.allow)
             /\ p.tls_required => Lower[t.scheme] = "https"
             /\ <<Lower[t.scheme], Lower[t.host]>> = <<p.scheme, p.host>>
             /\ p.port \in {0, TargetPort(t)}
             /\ Under(IF t.path = <<>> THEN <<"/">> ELSE t.path, p.path)
             /\ p.method \in {"*", Upper[t.method]}

\* Handles and keys name one object for good: a TLS id kept across drops and
\* additions never reaches another configuration, a profile's versions only grow,
\* a listing in a request shows exactly the profiles the subject can use, and a
\* content type has one codec however it is spelled.
NamesStayTrue ==
    /\ handle.asked # 0 => handle.copy.source = issued[handle.asked]
    /\ \A i, j \in DOMAIN TlsConfigsBind :
          TlsConfigsBind[i].tls_config_id = TlsConfigsBind[j].tls_config_id => i = j
    /\ \A i, j \in DOMAIN profiles : i # j => profiles[i].id # profiles[j].id /\ profiles[i].version # profiles[j].version
    /\ \A i \in DOMAIN profiles :
          \A v \in DOMAIN registered : registered[v].id = profiles[i].id => v <= profiles[i].version
    /\ \A u \in DOMAIN InRequest : InRequest[u] =>
          \A i \in DOMAIN profiles :
              SubjectAdmitted(profiles[i], RequestSubject(u)) <=>
                  \E row \in Range(ListHttpProfilesBind(u)) : row.id = profiles[i].id
    /\ \A a, b \in ContentTypes : Lower[a] = Lower[b] => FindUserCodec(a) = FindUserCodec(b)
    /\ \A i, j \in DOMAIN codecs : codecs[i].content_type = codecs[j].content_type => i = j
=============================================================================
