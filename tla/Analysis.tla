------------------------------ MODULE Analysis ------------------------------
(***************************************************************************)
(* What TriageWorker._process_alert (src/src/triage/worker.py) does with   *)
(* an alert that inherits no verdict: read the flow's events, assign       *)
(* roles, extract indicators, look them up concurrently, build the prompt  *)
(* and call the LLM (src/src/llm/ollama_client.py) at most MaxAttempts     *)
(* times.  In Worker this is the stretch from MarkAnalyzing to LlmVerdict  *)
(* or LlmRaises; its store failures and restarts are Worker's.  HOME_NET   *)
(* is read from suricata.yaml once, when the process starts.               *)
(*                                                                         *)
(* A job is the alert, the events of its flow that are indexed when the    *)
(* worker reads them, the clients that are configured, the names of        *)
(* endpoints already in the cache, and the configuration files.            *)
(***************************************************************************)
EXTENDS Indicators, SuricataConfig

CONSTANTS Jobs,          \* the jobs explored
          Private,       \* addresses that are private, loopback, link-local or reserved
          MaxAttempts    \* _MAX_ATTEMPTS

\* What the analysis reads of the alert's EVE event.
IsAlert(a) ==
    a = [src |-> a.src, dest |-> a.dest, target |-> a.target,
         attack_target |-> a.attack_target, category |-> a.category, flow |-> a.flow]

\* The indexed events of one flow: one connection, so it carries dns or it carries http and
\* tls between the same two endpoints.  Other events have no name, and only dns has answers.
IsFlow(events) ==
    /\ events \in Seq(ToSet(events))
    /\ \A e \in ToSet(events) :
         /\ e.type \in {"dns", "http", "tls"} \/ DomainOf(e) \in Unfit
         /\ e.type # "dns" => e.answers = {}
         /\ e.type \in {"http", "tls"} =>
              \A f \in ToSet(events) :
                  f.type # "dns" /\ (f.type \in {"http", "tls"} => server_ip(f) = server_ip(e))

ASSUME AnalysisAssumption ==
    /\ MaxAttempts \in Nat \ {0}
    /\ \A j \in Jobs : IsAlert(j.alert) /\ IsFlow(j.events) /\ IsConfig(j.config)

VARIABLES job,         \* the alert to come and what is known of it
          apc,         \* the next await
          seen,        \* correlated_events
          role,        \* the RoleAssignment, or Null
          names,       \* revdns rows of the cache: address -> name, or "" for none
          identity,    \* src_identity and dst_identity, as far as they are resolved
          indicators,  \* what _extract_indicators returned
          open,        \* lookups in progress: <<index of the indicator, source>>
          ledger,      \* lookups that have ended: <<index, source>> -> status
          sent,        \* history: what left the process, as <<source, indicator>>
          evidence,    \* enrichment_pairs, as gathered
          calls        \* history: the LLM calls, [prompt, outcome]

vars == <<homeNet, job, apc, seen, role, names, identity, indicators, open, ledger, sent, evidence, calls>>

Sources == {"virustotal", "geoip", "rdap"}

\* How a call of the LLM ends, and which failures earn another attempt.
Invalid == {"json_invalid", "schema_invalid"}
Transient == {"connect_error", "http_503", "unclassified"}
Final == {"read_timeout", "http_error", "degenerate"}
CallOutcome == {"valid"} \cup Invalid \cup Transient \cup Final

identityVars == <<names, identity>>
lookupVars == <<open, ledger, sent, evidence>>

Sides == {"src", "dest"}

\* The process is about to start.
Init ==
    /\ homeNet = {}
    /\ job \in Jobs
    /\ apc = "start"
    /\ seen = <<>>
    /\ role = Null
    /\ names = job.names
    /\ identity = [s \in Sides |-> "pending"]
    /\ indicators = <<>>
    /\ open = {}
    /\ ledger = <<>>
    /\ sent = {}
    /\ evidence = <<>>
    /\ calls = <<>>

Goto(from, to) ==
    /\ apc = from
    /\ apc' = to

-----------------------------------------------------------------------------
\* lifespan: without a readable configuration that has a HOME_NET neither the pipeline
\* nor the worker is started; otherwise an alert will be dequeued and marked 'analyzing'.
Startup ==
    /\ apc = "start"
    /\ LET config == read_config(job.config)
       IN /\ apc' = IF config.ok THEN "read" ELSE "blocked"
          /\ homeNet' = IF config.ok THEN config.home_net ELSE {}
    /\ UNCHANGED <<job, seen, role, identityVars, indicators, lookupVars, calls>>

\* get_correlated_events, if the alert has a flow id.
ReadFlow ==
    /\ Goto("read", "assign")
    /\ seen' = IF job.alert.flow THEN job.events ELSE <<>>
    /\ UNCHANGED <<homeNet, job, role, identityVars, indicators, lookupVars, calls>>

Assign ==
    /\ Goto("assign", "identity")
    /\ role' = assign_roles(job.alert)
    /\ UNCHANGED <<homeNet, job, seen, identityVars, indicators, lookupVars, calls>>

-----------------------------------------------------------------------------
Endpoint(side) == IF side = "src" THEN job.alert.src ELSE job.alert.dest

IdentityStep(side, from, to) ==
    /\ apc = "identity"
    /\ identity[side] = from
    /\ identity' = [identity EXCEPT ![side] = to]
    /\ UNCHANGED <<homeNet, job, apc, seen, role, indicators, lookupVars, calls>>

\* resolve_ip of either endpoint: only HOME_NET addresses have an identity, and the cache
\* may know it, or know that there is no name.
ResolveIp(side) ==
    LET ip == Endpoint(side)
    IN /\ IdentityStep(side, "pending",
              IF "revdns" \notin job.configured \/ ~Internal(ip) THEN "none"
              ELSE IF ip \notin DOMAIN names THEN "asking"
              ELSE IF names[ip] = "" THEN "unnamed" ELSE "named")
       /\ UNCHANGED names

\* _do_lookup never raises: no record, a failure and an open circuit all end without a
\* name, and all are cached as the empty name.
LookupName(side, name) ==
    /\ IdentityStep(side, "asking", IF name = "" THEN "unnamed" ELSE "named")
    /\ names' = [ip \in DOMAIN names \cup {Endpoint(side)} |->
                    IF ip = Endpoint(side) THEN name ELSE names[ip]]

\* The cache raises: the gather of _resolve_identities drops this side and no other.
ResolveRaises(side) ==
    /\ "revdns" \in job.configured /\ Internal(Endpoint(side))
    /\ \E at \in {"pending", "asking"} : IdentityStep(side, at, "lost")
    /\ UNCHANGED names

-----------------------------------------------------------------------------
\* The clients an indicator is shown to at first, and what follows a GeoIP answer:
\* VirusTotal never sees an internal address.
FirstLookups(i, ind) ==
    IF ind.type = "ip" THEN {<<i, "geoip">>}
    ELSE {<<i, "virustotal">>, <<i, "rdap">>}

NextLookups(l) ==
    IF l[2] = "geoip" /\ IsPublicIp(indicators[l[1]].value)
    THEN {<<l[1], "virustotal">>} ELSE {}

\* Only VirusTotal and RDAP are remote; an unconfigured client asks nobody.
Leaving(ls, inds) ==
    {<<l[2], inds[l[1]]>> : l \in {x \in ls : x[2] \in job.configured \ {"geoip"}}}

\* Both endpoints are resolved: _extract_indicators, and the tasks of _enrich_all start.
Extract ==
    /\ Goto("identity", "enrich")
    /\ \A s \in Sides : identity[s] \notin {"pending", "asking"}
    /\ indicators' = extract_indicators(job.alert, seen)
    /\ open' = UNION {FirstLookups(i, indicators'[i]) : i \in DOMAIN indicators'}
    /\ sent' = Leaving(open', indicators')
    /\ UNCHANGED <<homeNet, job, seen, role, identityVars, ledger, evidence, calls>>

\* GeoIPClient.lookup never fails: an address it does not know counts as not configured,
\* unless it is one that no database has.
GeoipOutcomes(ip) ==
    IF ip \in Private THEN {"contributed"} ELSE {"contributed", "not_configured"}

Outcomes(l) ==
    IF l[2] \notin job.configured THEN {"not_configured"}
    ELSE IF l[2] = "geoip" THEN GeoipOutcomes(indicators[l[1]].value)
    ELSE {"contributed", "failing"}

Ended(l, st) == [x \in DOMAIN ledger \cup {l} |-> IF x = l THEN st ELSE ledger[x]]

\* A lookup that raises ends the task of its indicator.
LookupEnds_Raises(l, st) ==
    /\ apc = "enrich"
    /\ l \in open
    /\ ledger' = IF st = "failing" THEN ledger ELSE Ended(l, st)
    /\ open' = (open \ {l}) \cup NextLookups(l)
    /\ sent' = sent \cup Leaving(NextLookups(l), indicators)
    /\ UNCHANGED <<homeNet, job, apc, seen, role, identityVars, indicators, evidence, calls>>

\* _lookup turns every exception of a client into 'failing'.
LookupEnds(l, st) ==
    /\ apc = "enrich"
    /\ l \in open
    /\ ledger' = Ended(l, st)
    /\ open' = (open \ {l}) \cup NextLookups(l)
    /\ sent' = sent \cup Leaving(NextLookups(l), indicators)
    /\ UNCHANGED <<homeNet, job, apc, seen, role, identityVars, indicators, evidence, calls>>

\* The entries _enrich_one returns for the indicator, in its order.
Entry(i, source) ==
    IF <<i, source>> \in DOMAIN ledger
    THEN <<[indicator |-> indicators[i], source |-> source, status |-> ledger[<<i, source>>]]>>
    ELSE <<>>

EntriesOf(i) == Entry(i, "virustotal") \o Entry(i, "rdap") \o Entry(i, "geoip")

\* The gather returns: one list per indicator, in the order of the indicators.
Gather ==
    /\ Goto("enrich", "llm")
    /\ open = {}
    /\ evidence' = FlattenSeq([i \in DOMAIN indicators |-> EntriesOf(i)])
    /\ UNCHANGED <<homeNet, job, seen, role, identityVars, indicators, open, ledger, sent, calls>>

-----------------------------------------------------------------------------
\* The prompt shows successful lookups only.
Contributed(e) == e.status = "contributed"
build_enrichment_context == SelectSeq(evidence, Contributed)

\* Every exception is worth another attempt.
Retryable_All(outcome) == outcome \in Invalid \cup Transient \cup {"read_timeout", "http_error"}

\* _classify_request_exception, and the two checks of the response.
Retryable(outcome) == outcome \in Invalid \cup Transient

\* A response that could not be parsed is followed by the original prompt and a
\* correction, any other failure by the original prompt.
NextPrompt ==
    [context |-> build_enrichment_context,
     correction |-> calls # <<>> /\ calls[Len(calls)].outcome \in Invalid]

\* One turn of _call_with_retry.
LlmCall(outcome) ==
    /\ apc = "llm"
    /\ calls' = Append(calls, [prompt |-> NextPrompt, outcome |-> outcome])
    /\ apc' = IF outcome = "valid" THEN "done"
              ELSE IF Retryable(outcome) /\ Len(calls') < MaxAttempts THEN "llm"
              ELSE "failed"
    /\ UNCHANGED <<homeNet, job, seen, role, identityVars, indicators, lookupVars>>

Next ==
    \/ Startup
    \/ ReadFlow
    \/ Assign
    \/ \E side \in Sides :
         \/ ResolveIp(side)
         \/ \E name \in {"", "host"} : LookupName(side, name)
         \/ ResolveRaises(side)
    \/ Extract
    \/ \E l \in open : \E st \in Outcomes(l) : LookupEnds(l, st)
    \/ Gather
    \/ \E o \in CallOutcome : LlmCall(o)

Spec == Init /\ [][Next]_vars

-----------------------------------------------------------------------------
\* The groups HOME_NET refers to without a '!', directly or not.
Reachable(groups) ==
    LET reach[n \in 0 .. Cardinality(DOMAIN groups)] ==
          IF n = 0 THEN {"HOME_NET"} \cap DOMAIN groups
          ELSE reach[n - 1] \cup UNION {groups[g].refs \cap DOMAIN groups : g \in reach[n - 1]}
    IN reach[Cardinality(DOMAIN groups)]

\* What counts as inside for the whole program is what the files say, in whatever order
\* they define the groups and however these refer to each other (the expansion works in
\* place and stops after _MAX_VAR_EXPANSION_PASSES): every network HOME_NET reaches
\* without a '!' and no other; and the process refuses to start only if there is none, or if the
\* includes do not end.
HomeNetComplete ==
    LET loaded == Load(job.config.files)["suricata.yaml"]
        meant == UNION {loaded.groups[g].nets : g \in Reachable(loaded.groups)}
    IN /\ apc = "read" => ~loaded.error /\ homeNet = meant
       /\ apc = "blocked" => loaded.error \/ meant = {}

Mirror(a) == [a EXCEPT !.src = a.dest, !.dest = a.src]

\* "src_ip == initiator does NOT mean src_ip == client" (assigner.py): with exactly one
\* endpoint in HOME_NET, a rule that targets the client, or a command-and-control one,
\* names the inside host as the victim whichever endpoint Suricata recorded as the source.
VictimIgnoresDirection ==
    LET a == job.alert
        hint == classify_attack_target(a.attack_target)
    IN  /\ role # Null
        /\ a.target \notin {"src_ip", "dest_ip"}
        /\ Inbound(a) \/ Outbound(a)
        /\ \/ hint = "client"
           \/ hint = "none" /\ detect_pattern(a.category) = "outbound_cnc"
        => /\ Internal(role.victim)
           /\ assign_roles(Mirror(a)).victim = role.victim

\* Unless the rule's author names the target, an inside host is made the attacker of an
\* outside one only where the alert records it as the source, and with more than low
\* confidence only if the metadata says that a server is the target or the category that
\* it scans: no other category suffices.  The source need not have opened the connection:
\* on a server-to-client packet it is the server, and the rule for servers blames it.
InsideBlameGrounded ==
    /\ role # Null
    /\ job.alert.target \notin {"src_ip", "dest_ip"}
    /\ Internal(role.attacker)
    /\ ~Internal(role.victim)
    => /\ role.attacker = job.alert.src
       /\ \/ role.confidence = "low"
          \/ classify_attack_target(job.alert.attack_target) = "server"
          \/ detect_pattern(job.alert.category) = "scan"

\* "internal addresses are simply never sent out", "Internal names are never returned as
\* domain indicators" (worker.py): an address that leaves the process is routable and not
\* in HOME_NET, and nothing the worker read of the flow, earlier or later than the name,
\* shows the name to be internal: not its suffix, not an answer, not its server.
NothingInternalSent ==
    \A s \in sent :
        LET ind == s[2]
        IN IF ind.type = "ip" THEN IsPublicIp(ind.value)
           ELSE /\ Canonical(ind.value) \notin InternalSuffix
                /\ \A e \in ToSet(seen) :
                     /\ \A ans \in e.answers :
                          Canonical(ind.value) \in {Canonical(n) : n \in ToSet(e.asked) \cup {ans.owner}}
                            => ~Internal(ans.ip)
                     /\ e.type \in {"http", "tls"} /\ Canonical(ind.value) = Canonical(DomainOf(e))
                          => ~Internal(server_ip(e))

\* "Skipped names do not count toward _MAX_DOMAINS": every name of the flow that may be
\* asked about is an indicator, unless the limit is used up by such names that come
\* before it.
NamesNotMissed ==
    apc \in {"enrich", "llm", "done", "failed"} =>
        \A i \in DOMAIN seen :
            LET name == DomainOf(seen[i])
                domains == {ind.value : ind \in {x \in ToSet(indicators) : x.type = "domain"}}
            IN name \in Unfit \cup Literals \cup domains \/ InternalDomain(seen, i)
               \/ /\ Cardinality(domains) = MaxDomains
                  /\ \A d \in domains : \E k \in 1 .. i - 1 : DomainOf(seen[k]) = d

\* One lookup that fails or raises costs nothing but its own entry, and the order in
\* which lookups end does not show: the evidence has, indicator by indicator, exactly the
\* sources that apply to it, and an endpoint in HOME_NET has its identity, with or without
\* a name, unless its own lookup raised.
EvidenceComplete ==
    apc \in {"llm", "done", "failed"} =>
      /\ "revdns" \in job.configured =>
           \A s \in Sides : identity[s] = "none" <=> ~Internal(Endpoint(s))
      /\ LET wanted(ind) == IF ind.type = "domain" THEN <<"virustotal", "rdap">>
                            ELSE IF IsPublicIp(ind.value) THEN <<"virustotal", "geoip">>
                            ELSE <<"geoip">>
             pairs(i) == [n \in DOMAIN wanted(indicators[i]) |->
                            <<indicators[i], wanted(indicators[i])[n]>>]
         IN [n \in DOMAIN evidence |-> <<evidence[n].indicator, evidence[n].source>>]
             = FlattenSeq([i \in DOMAIN indicators |-> pairs(i)])

\* An alert fails only through the LLM, after its attempts or a failure that is never
\* retried ("raises immediately, without retrying, on a read timeout or a degenerate
\* response", ollama_client.py), and each call carries the whole context, with a
\* correction exactly when the call before it could not be parsed.
RetryDiscipline ==
    /\ apc = "failed" =>
         calls # <<>> /\ (Len(calls) = MaxAttempts \/ calls[Len(calls)].outcome \in Final)
    /\ \A n \in DOMAIN calls :
         /\ n <= MaxAttempts
         /\ n < Len(calls) => calls[n].outcome \notin Final \cup {"valid"}
         /\ calls[n].prompt.context = SelectSeq(evidence, Contributed)
         /\ calls[n].prompt.correction <=> n > 1 /\ calls[n - 1].outcome \in Invalid
=============================================================================
