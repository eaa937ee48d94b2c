----------------------------- MODULE Indicators -----------------------------
(***************************************************************************)
(* What the worker asks third parties about (src/src/triage/worker.py,     *)
(* _extract_indicators and its helpers): the alert's two addresses and the *)
(* names in the dns, http and tls events of its flow, except the internal  *)
(* ones.  Pure functions.                                                  *)
(*                                                                         *)
(* A name is a spelling; Canonical lower-cases it and drops the trailing   *)
(* dot.  A dns event has the names it asks for, in order, and answers      *)
(* [owner, ip] for address records (other rdata is ignored by the code).   *)
(***************************************************************************)
EXTENDS Roles, SequencesExt

CONSTANTS Routable,        \* addresses that are not private, reserved, CGNAT, ...
          Literals,        \* names that are addresses ("http://203.0.113.7/")
          Unfit,           \* names without a dot or under .arpa, and the missing name
          InternalSuffix,  \* canonical names under .local, .lan, .corp, ...
          Canonical(_),
          MaxIps,          \* _MAX_IPS
          MaxDomains       \* _MAX_DOMAINS

ASSUME IndicatorsAssumption ==
    /\ MaxIps \in Nat \ {0}
    /\ MaxDomains \in Nat \ {0}

\* _is_public_ip
IsPublicIp(ip) == ip \in Routable /\ ~Internal(ip)

\* The server endpoint of an http or tls event.
server_ip(e) == IF e.to_client THEN e.src ELSE e.dest

\* _dns_answer_ips: an answer counts for its owner and for every name of its event, so
\* that a CNAME chain cannot hide it.
DnsAnswerIps(events, name) ==
    UNION { {ans.ip : ans \in {x \in e.answers :
                        name \in {Canonical(n) : n \in ToSet(e.asked) \cup {x.owner}}}}
            : e \in {x \in ToSet(events) : x.type = "dns"} }

HomeNetName(events, name) ==
    \E ip \in DnsAnswerIps(events, Canonical(name)) : Internal(ip)

DomainOf(e) == e.asked[1]

\* Answers of the events before this one only.
InternalDomain_SoFar(events, i) ==
    LET name == DomainOf(events[i])
    IN \/ Canonical(name) \in InternalSuffix
       \/ HomeNetName(SubSeq(events, 1, i), name)
       \/ events[i].type # "dns" /\ Internal(server_ip(events[i]))

\* The three reasons to leave the name of events[i] out.  A dns event's own dest is the
\* resolver and says nothing.
InternalDomain(events, i) ==
    LET name == DomainOf(events[i])
    IN \/ Canonical(name) \in InternalSuffix
       \/ HomeNetName(events, name)
       \/ events[i].type # "dns" /\ Internal(server_ip(events[i]))

-----------------------------------------------------------------------------
\* if ip and ip not in ips, while there is room.
WithIp(ips, ip) ==
    IF ip = NoIp \/ Contains(ips, ip) \/ Len(ips) >= MaxIps THEN ips ELSE Append(ips, ip)

\* The alert's own addresses.
EndpointIps(a) == WithIp(WithIp(<<>>, a.src), a.dest)

\* One turn of the loop over the events; found is [ips, domains].
Scan_CountsSkipped(events, found, i) ==
    LET name == DomainOf(events[i])
    IN IF i > MaxDomains \/ name \in Unfit \/ Contains(found.domains, name) THEN found
       ELSE IF name \in Literals
            THEN [found EXCEPT !.ips = WithIp(@, name)]
       ELSE IF InternalDomain(events, i) THEN found
       ELSE [found EXCEPT !.domains = Append(@, name)]

Scan(events, found, i) ==
    LET name == DomainOf(events[i])
    IN IF \/ Len(found.domains) >= MaxDomains
          \/ name \in Unfit
          \/ Contains(found.domains, name)
       THEN found
       ELSE IF name \in Literals
            THEN [found EXCEPT !.ips = WithIp(@, name)]
       ELSE IF InternalDomain(events, i) THEN found
       ELSE [found EXCEPT !.domains = Append(@, name)]

AsIndicators(type, values) == [i \in DOMAIN values |-> [type |-> type, value |-> values[i]]]

\* The lists after each turn.
Scanned(a, events) ==
    LET found[n \in 0 .. Len(events)] ==
          IF n = 0 THEN [ips |-> EndpointIps(a), domains |-> <<>>]
          ELSE Scan(events, found[n - 1], n)
    IN found

extract_indicators(a, events) ==
    LET found == Scanned(a, events)[Len(events)]
    IN AsIndicators("ip", found.ips) \o AsIndicators("domain", found.domains)
=============================================================================
