----------------------------- MODULE PeerPolicy -----------------------------
(***************************************************************************)
(* What a service decides about its peers: the identity allowlist, the IP  *)
(* allowlist and the per-identity rate of session opens (ducknng_service.c *)
(* and ducknng_nng_compat.c), and the SQL functions that change them while *)
(* the service runs (ducknng_sql_rpc.c, ducknng_sql_service.c).            *)
(* A byte has ByteBits bits; an address is a sequence of bytes.            *)
(***************************************************************************)
EXTENDS Naturals, Sequences, FiniteSets, SequencesExt

CONSTANTS ByteBits,         \* 8 in the code
          Address,          \* an address, as a function of the pipe
          Certificate,      \* [verified, alt, cn] of the pipe's peer
          RequireIdentity,  \* TLS with auth_mode 2
          IpLists,          \* the values passed to ducknng_set_service_ip_allowlist
          PeerLists,        \* the values passed to ducknng_set_service_peer_allowlist
          Window,           \* 1000 ms in the code
          Rates,            \* values of max_session_open_rate_per_peer_identity
          MaxClock,         \* bound on the clock
          MaxEdits          \* bound on administrative changes

VARIABLES ipRules,    \* svc->ip_allowlist
          ipActive,   \* there is one
          peers,      \* svc->tls_opts.peer_allowlist
          peersActive, \* there is one
          rate,       \* svc->max_session_open_rate_per_peer_identity
          opens,      \* session_open_times of each identity
          clock,
          granted,    \* every recorded open, in order
          edits

policyVars == <<ipRules, ipActive, peers, peersActive, rate, opens, clock, granted, edits>>

-----------------------------------------------------------------------------
(* Allowlists.  A rule is [addr, bits].  What SQL passes is NULL (given is *)
(* FALSE) or an array; the entry <<"malformed">> does not parse.           *)


\* ducknng_ip_rule_matches_bytes: whole bytes, then the remaining bits under a mask.
IpRuleMatches(rule, addr) ==
    LET full == rule.bits \div ByteBits
        rem == rule.bits % ByteBits
        low == 2 ^ (ByteBits - rem)
    IN /\ \A i \in 1..full : rule.addr[i] = addr[i]
       /\ rem # 0 => rule.addr[full + 1] \div low = addr[full + 1] \div low

\* ducknng_parse_ip_rule: the prefix may not be longer than the address.
ParseIpRule(rule) == rule.bits <= ByteBits * Len(rule.addr)

\* ducknng_parse_ip_allowlist_json: one bad entry spoils the list.
ParseIpAllowlist(list) == \A i \in DOMAIN list : ParseIpRule(list[i])

\* ducknng_remote_addr_matches_ip_allowlist; the family is the address's length.
RemoteAddrMatches(addr) ==
    ipActive => \E i \in DOMAIN ipRules : Len(ipRules[i].addr) = Len(addr) /\ IpRuleMatches(ipRules[i], addr)

NoIdentity == <<>>

\* ducknng_pipe_verified_peer_identity: the first alternative name before the common name.
Identity(p) ==
    LET c == Certificate[p]
    IN CASE ~c.verified -> NoIdentity
         [] c.verified /\ c.alt # <<>> -> <<"san", c.alt[1]>>
         [] OTHER -> IF c.cn = "" THEN NoIdentity ELSE <<"cn", c.cn>>

PeerAllowlistParse(list) == <<"malformed">> \notin Range(list)

\* ducknng_tls_opts_peer_allowed.
PeerAllowed(identity) == peersActive => identity # NoIdentity /\ identity \in peers

\* ducknng_service_peer_admission_check.
PeerAdmitted(p) == (RequireIdentity => Identity(p) # NoIdentity) /\ PeerAllowed(Identity(p))

PolicyAlone == UNCHANGED <<rate, opens, clock, granted>>

policy == <<ipRules, ipActive, peers, peersActive, rate>>

\* Only calls that change something count towards the bound.
Edited == edits < MaxEdits /\ edits' = IF policy' = policy THEN edits ELSE edits + 1

\* NULL clears the list and admits every address; an empty array admits none; an
\* array with a bad entry is refused and the old list stays.
ServiceSetIpAllowlist(list) ==
    IF ParseIpAllowlist(list.entries) THEN ipRules' = list.entries /\ ipActive' = list.given
    ELSE UNCHANGED <<ipRules, ipActive>>

TlsOptsSetPeerAllowlist(list) ==
    IF PeerAllowlistParse(list.entries) THEN peers' = Range(list.entries) /\ peersActive' = list.given
    ELSE UNCHANGED <<peers, peersActive>>

SetServiceIpAllowlistScalar(list) ==
    /\ ServiceSetIpAllowlist(list)
    /\ PolicyAlone /\ UNCHANGED <<peers, peersActive>>
    /\ Edited

SetServicePeerAllowlistScalar(list) ==
    /\ TlsOptsSetPeerAllowlist(list)
    /\ PolicyAlone /\ UNCHANGED <<ipRules, ipActive>>
    /\ Edited

-----------------------------------------------------------------------------
(* The rate of session opens, called with svc->mu held.                    *)

ExpiredEarly(times, now) == SelectSeq(times, LAMBDA t : t + Window > now + 1)

\* Opens older than the window are forgotten.
Unexpired(times, now) == SelectSeq(times, LAMBDA t : t + Window > now)

PolicyKept == UNCHANGED <<ipRules, ipActive, peers, peersActive>>

\* Without an identity or with rate 0 nothing is counted.
CheckAndRecordSessionOpen(identity) ==
    LET live == Unexpired(opens[identity], clock)
    IN /\ identity # NoIdentity /\ rate # 0
       /\ opens' = [opens EXCEPT ![identity] = IF Len(live) >= rate THEN live ELSE Append(live, clock)]
       /\ granted' = IF Len(live) >= rate THEN granted
                     ELSE Append(granted, [identity |-> identity, time |-> clock, rate |-> rate])
       /\ PolicyKept /\ UNCHANGED <<rate, clock, edits>>

ServiceSetLimits(r) == rate' = r

SetServiceLimitsScalar(r) ==
    /\ ServiceSetLimits(r)
    /\ PolicyKept /\ UNCHANGED <<opens, clock, granted>>
    /\ Edited

Tick ==
    /\ clock < MaxClock
    /\ clock' = clock + 1
    /\ PolicyKept /\ UNCHANGED <<rate, opens, granted, edits>>

-----------------------------------------------------------------------------
Identities == {Identity(p) : p \in DOMAIN Certificate}

PolicyInit ==
    /\ ipRules = <<>> /\ ipActive = FALSE
    /\ peers = {} /\ peersActive = FALSE
    /\ rate \in Rates
    /\ opens = [i \in Identities |-> <<>>]
    /\ clock = 0 /\ granted = <<>> /\ edits = 0

AllowlistNext ==
    \/ \E list \in IpLists : SetServiceIpAllowlistScalar(list)
    \/ \E list \in PeerLists : SetServicePeerAllowlistScalar(list)

RateNext ==
    \/ \E i \in Identities : CheckAndRecordSessionOpen(i)
    \/ \E r \in Rates : SetServiceLimitsScalar(r)
    \/ Tick

-----------------------------------------------------------------------------
(* Properties.                                                             *)

\* The bits of an address, most significant first: what a CIDR prefix is about.
Bit(addr, i) == (addr[((i - 1) \div ByteBits) + 1] \div (2 ^ (ByteBits - 1 - ((i - 1) % ByteBits)))) % 2

InBlock(rule, addr) ==
    Len(rule.addr) = Len(addr) /\ \A i \in 1..rule.bits : Bit(rule.addr, i) = Bit(addr, i)

\* In no interval as long as the window does one identity get more recorded opens
\* than the rate in force at the last of them, wherever the interval starts, also
\* across changes of the rate.
RateHoldsInEveryWindow ==
    \A k \in DOMAIN granted :
        LET g == granted[k]
        IN Cardinality({j \in 1..k : granted[j].identity = g.identity /\ granted[j].time + Window > g.time}) <= g.rate
=============================================================================
