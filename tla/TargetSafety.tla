---------------------------- MODULE TargetSafety ----------------------------
(***************************************************************************)
(* Which addresses a scan connects to: the Gateway's blocklist and its     *)
(* optional address check, then the resolver and the connector that all    *)
(* requests of a scan's session share.  DNS may answer differently each    *)
(* time it is asked, and any answer may redirect to another host.          *)
(***************************************************************************)
EXTENDS Integers, FiniteSets, Sequences, SequencesExt

CONSTANTS
  Addresses, Public,   \* Public: is none of private, loopback, link-local, reserved...
  HostNames,           \* hosts that are names; an address is a host too
  Labels,              \* [host name -> its labels, in lower case and without a trailing dot]
  BlockedDomains,      \* both lists of blocklist.py, in labels
  DnsAnswers,          \* the sets of addresses DNS may give for a name; {}: it has none
  Fetches,             \* requests of one session that are under way together; 1 is the pre-flight
  MaxRedirects,        \* aiohttp follows so many
  PrivateAllowed       \* BRAVO6_VALIDATION_ALLOW_PRIVATE_TARGETS, set by local benchmarks only

ASSUME TargetAssumption ==
  /\ Public \subseteq Addresses /\ HostNames \cap Addresses = {}
  /\ DnsAnswers \subseteq SUBSET Addresses
  /\ 1 \in Fetches /\ MaxRedirects \in Nat /\ PrivateAllowed \in BOOLEAN

Hosts == HostNames \cup Addresses
Idle == [pc |-> "idle", host |-> CHOOSE h \in Hosts : TRUE, hops |-> 0, answers |-> {}]

VARIABLES target,       \* the host of the submitted url
          stage,        \* "submitted", "403", "preflight", "scanning", "blocked"
          fetch,        \* of each request, where it is
          cached,       \* the connector's DNS cache; {}: nothing
          connections   \* <<host, address>> of every connection of the session
targetVars == <<target, stage, fetch, cached, connections>>

TargetInit ==
  /\ target \in Hosts
  /\ stage = "submitted"
  /\ fetch = [f \in Fetches |-> Idle]
  /\ cached = [n \in HostNames |-> {}]
  /\ connections = {}

-----------------------------------------------------------------------------
(* blocklist.py, is_target_address_safe, handle_scan_request *)

IsIpSafe(a) == PrivateAllowed \/ a \in Public

\* A blocked domain itself or a subdomain of one.
IsBlocklisted(host) ==
  host \in HostNames /\ \E d \in BlockedDomains : IsSuffix(d, Labels[host])

\* What the check may say: a name that does not resolve passes.
TargetAddressVerdicts(host) ==
  IF host \in Addresses THEN {IsIpSafe(host)}
  ELSE {\A a \in answers : IsIpSafe(a) : answers \in DnsAnswers}

\* The check is not active in a Gateway deployed on its own, and its failure passes.
Submits ==
  /\ stage = "submitted"
  /\ \/ IsBlocklisted(target) /\ stage' = "403"
     \/ ~IsBlocklisted(target) /\ FALSE \in TargetAddressVerdicts(target) /\ stage' = "403"
     \/ ~IsBlocklisted(target) /\ stage' = "preflight"
  /\ UNCHANGED <<target, fetch, cached, connections>>

-----------------------------------------------------------------------------
(* Requests of the session *)

\* The pre-flight fetch asks for the target; scouts for whatever they find.
Sends(f) ==
  /\ fetch[f].pc = "idle"
  /\ \E h \in Hosts :
       /\ stage = "scanning" \/ (stage = "preflight" /\ f = 1 /\ h = target)
       /\ fetch' = [fetch EXCEPT ![f] = [@ EXCEPT !.pc = "resolving", !.host = h]]
  /\ UNCHANGED <<target, stage, cached, connections>>

Finishes(f) == fetch' = [fetch EXCEPT ![f] = Idle]

\* SSRFBlockedError: before any scout runs it ends the scan, in a scout the request.
Blocked(f) ==
  /\ Finishes(f)
  /\ stage' = IF stage = "preflight" THEN "blocked" ELSE stage
  /\ UNCHANGED <<target, cached, connections>>

\* Any other error: the pre-flight fetch is repeated or given up, and scouts run.
Fails(f) ==
  /\ fetch[f].pc \in {"resolving", "connecting", "sent"}
  /\ Finishes(f)
  /\ stage' \in {stage, "scanning"}
  /\ UNCHANGED <<target, cached, connections>>

Resolved(f, answers) ==
  /\ fetch' = [fetch EXCEPT ![f] = [@ EXCEPT !.pc = "connecting", !.answers = answers]]
  /\ UNCHANGED <<target, stage, connections>>

\* SSRFSafeResolver.resolve, behind the connector's cache.
ResolvesName(f) ==
  LET h == fetch[f].host IN
  /\ fetch[f].pc = "resolving" /\ h \in HostNames
  /\ \/ cached[h] # {} /\ Resolved(f, cached[h]) /\ UNCHANGED cached
     \/ \E answers \in DnsAnswers \ {{}} :
          IF \A a \in answers : IsIpSafe(a)
            THEN Resolved(f, answers) /\ cached' = [cached EXCEPT ![h] = answers]
            ELSE Blocked(f)

\* As ResolvesLiteral, left to the resolver, which is not asked about addresses.
PassesLiteral(f) ==
  /\ fetch[f].pc = "resolving" /\ fetch[f].host \in Addresses
  /\ Resolved(f, {fetch[f].host}) /\ UNCHANGED cached

\* SSRFSafeConnector._resolve_host.
ResolvesLiteral(f) ==
  LET h == fetch[f].host IN
  /\ fetch[f].pc = "resolving" /\ h \in Addresses
  /\ IF IsIpSafe(h) THEN Resolved(f, {h}) /\ UNCHANGED cached ELSE Blocked(f)

\* To one of the addresses that were checked.
Connects(f) ==
  /\ fetch[f].pc = "connecting"
  /\ \E a \in fetch[f].answers : connections' = connections \cup {<<fetch[f].host, a>>}
  /\ fetch' = [fetch EXCEPT ![f] = [@ EXCEPT !.pc = "sent", !.answers = {}]]
  /\ UNCHANGED <<target, stage, cached>>

\* A connection that is still open is used again without another look.
Reuses(f) ==
  /\ fetch[f].pc = "resolving" /\ \E c \in connections : c[1] = fetch[f].host
  /\ fetch' = [fetch EXCEPT ![f].pc = "sent"]
  /\ UNCHANGED <<target, stage, cached, connections>>

\* An answer, or a redirect, that is resolved as the first host was.
Answers(f) ==
  /\ fetch[f].pc = "sent"
  /\ \/ /\ Finishes(f)
        /\ stage' = "scanning"
     \/ /\ fetch[f].hops < MaxRedirects
        /\ \E h \in Hosts :
             fetch' = [fetch EXCEPT ![f] = [@ EXCEPT !.pc = "resolving", !.host = h, !.hops = fetch[f].hops + 1]]
        /\ UNCHANGED stage
  /\ UNCHANGED <<target, cached, connections>>

TargetNext ==
  \/ Submits
  \/ \E f \in Fetches :
       \/ Sends(f) \/ Fails(f) \/ Answers(f)
       \/ ResolvesName(f) \/ ResolvesLiteral(f) \/ Connects(f) \/ Reuses(f)

TargetSpec == TargetInit /\ [][TargetNext]_targetVars

-----------------------------------------------------------------------------
Fetch == [pc : {"idle", "resolving", "connecting", "sent"}, host : Hosts,
          hops : 0..MaxRedirects, answers : SUBSET Addresses]

TargetTypeOK ==
  /\ target \in Hosts
  /\ stage \in {"submitted", "403", "preflight", "scanning", "blocked"}
  /\ fetch \in [Fetches -> Fetch]
  /\ cached \in [HostNames -> SUBSET Addresses]
  /\ connections \subseteq Hosts \X Addresses

\* However DNS changes between the Gateway's check, the resolver's and the
\* connection, and whatever hosts and addresses redirects lead to, the session
\* connects to public addresses only; a target that was refused is not contacted,
\* a submitted blocked domain least of all, and once the pre-flight fetch was blocked
\* no request is under way (main_scanner.py:153-217, api/function_app.py:104-125).
OnlyPublicIsContacted ==
  /\ PrivateAllowed \/ \A c \in connections : c[2] \in Public
  /\ IsBlocklisted(target) \/ stage = "403" => connections = {}
  /\ stage \in {"403", "blocked"} => \A f \in Fetches : fetch[f] = Idle

\* Why: an address is checked before it is cached or chosen for a connection; only the
\* pre-flight request runs before the scouts, and none before the blocklist was passed.
AddressInv ==
  /\ \A f \in Fetches : \A a \in fetch[f].answers : IsIpSafe(a)
  /\ \A n \in HostNames : \A a \in cached[n] : IsIpSafe(a)
  /\ \A c \in connections : IsIpSafe(c[2])

StageInv ==
  /\ IsBlocklisted(target) => stage \in {"submitted", "403"}
  /\ stage \in {"submitted", "403"} => connections = {}
  /\ stage \in {"submitted", "403", "blocked"} => \A f \in Fetches : fetch[f] = Idle
  /\ stage = "preflight" => \A f \in Fetches \ {1} : fetch[f] = Idle
=============================================================================
