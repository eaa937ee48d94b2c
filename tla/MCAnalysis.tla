----------------------------- MODULE MCAnalysis -----------------------------
(***************************************************************************)
(* Jobs for Analysis: alerts of every kind of rule and direction without a *)
(* flow, one alert per direction with dns or web flows of up to three      *)
(* events, and two inside hosts under every small suricata.yaml.           *)
(***************************************************************************)
EXTENDS Analysis

\* h1, h2 are in HOME_NET, p is a routable HOME_NET address, e1, e2 are outside, r is
\* outside and reserved.
MCPrivate == {"h1", "h2", "r"}
MCRoutable == {"p", "e1", "e2"}
MCLiterals == {"e2", "p"}
MCUnfit == {"none", "host"}

\* "X." and "x" are spellings of one name.
MCCanonical(n) == IF n = "X." THEN "x" ELSE n

Files(main, included) ==
    ("suricata.yaml" :> main) @@ ("local.yaml" :> included)

File(groups, include) == [groups |-> groups, include |-> include]

NoGroups == [g \in {} |-> Value({}, {}, {})]

\* HOME_NET takes in a group and leaves one out, both defined after it.
Usual ==
    [files |-> Files(File(("HOME_NET" :> Value({"A"}, {"B"}, {"h1", "h2"}))
                            @@ ("A" :> Value({}, {}, {"p"})) @@ ("B" :> Value({}, {}, {"e1"})),
                          <<>>),
                     File(NoGroups, <<>>)),
     order |-> <<"HOME_NET", "A", "B">>]

Alert(src, dest, target, metadata, category, flow) ==
    [src |-> src, dest |-> dest, target |-> target, attack_target |-> metadata,
     category |-> category, flow |-> flow]

RoleJobs ==
    {[alert |-> Alert(d[1], d[2], t, m, c, FALSE), events |-> <<>>, configured |-> {},
      names |-> <<>>, config |-> Usual] :
        d \in {<<"h1", "e1">>, <<"e1", "h1">>, <<"h1", "h2">>, <<"e1", "r">>,
               <<"none", "h1">>, <<"h1", "none">>},
        t \in {"absent", "src_ip", "dest_ip"},
        m \in {<<>>, <<"client">>, <<"server">>, <<"other", "client">>, <<"server", "client">>},
        c \in {{}, {"malware"}, {"trojan", "network trojan"}, {"denial of service"},
               {"attack response"}, {"network scan"}, {"policy violation"},
               {"web application attack", "command and control"}}}

-----------------------------------------------------------------------------
Dns(name, answers) ==
    [type |-> "dns", asked |-> <<name>>, answers |-> answers, to_client |-> FALSE,
     src |-> "h1", dest |-> "h2"]

Answer(owner, ip) == [owner |-> owner, ip |-> ip]

\* Queries and answers, a CNAME chain to an inside address, and an unrelated event.
DnsEvents ==
    {Dns("x", {}), Dns("X.", {}), Dns("y", {}), Dns("z", {}), Dns("inner", {}),
     Dns("x", {Answer("x", "e2")}), Dns("x", {Answer("x", "h2")}),
     Dns("y", {Answer("x", "p")}), Dns("none", {})}

\* All of one flow, so with the same two endpoints.
WebEvents(client, server) ==
    {[type |-> w[1], asked |-> <<w[2]>>, answers |-> {}, to_client |-> tc,
      src |-> IF tc THEN server ELSE client, dest |-> IF tc THEN client ELSE server] :
        w \in {<<"http", "x">>, <<"tls", "X.">>, <<"http", "e2">>, <<"tls", "p">>,
               <<"http", "inner">>},
        tc \in BOOLEAN}

UpTo(S, n) == UNION {[1 .. m -> S] : m \in 0 .. n}

FlowJob(src, dest, events, configured) ==
    [alert |-> Alert(src, dest, "absent", <<>>, {}, TRUE), events |-> events,
     configured |-> configured, names |-> <<>>, config |-> Usual]

-----------------------------------------------------------------------------
Orders == {o \in [1 .. 3 -> {"HOME_NET", "A", "B"}] : IsInjective(o)}

Config(home, a, b, include, local, order) ==
    [files |-> Files(File(("HOME_NET" :> home) @@ ("A" :> Value(a, {}, {"p"}))
                            @@ ("B" :> Value(b, {}, {"e1"})), include), local),
     order |-> order]

\* Every way the three groups refer to each other, and what an included file, which may
\* include itself, changes.
Configs ==
    {Config(Value(h, n, {"h1"}), a, b, <<>>, File(NoGroups, <<>>), o) :
        h \in SUBSET {"A", "B"}, n \in SUBSET {"A", "B"},
        a \in {{}, {"A"}, {"B"}, {"B", "Unknown"}}, b \in SUBSET {"A", "HOME_NET"}, o \in Orders}
    \cup
    {Config(Value({}, {}, {"h1"}), a, {}, <<"local.yaml">>, File("HOME_NET" :> over, inc), o) :
        a \in {{}, {"B"}}, over \in {Value({"A"}, {}, {}), Value({}, {"A"}, {})},
        inc \in {<<>>, <<"local.yaml">>}, o \in Orders}

ConfigJobs ==
    {[alert |-> Alert("h1", "p", "absent", <<>>, {}, FALSE), events |-> <<>>, configured |-> {},
      names |-> <<>>, config |-> c] : c \in Configs}

\* Inside, outside and equal endpoints, with and without a cached name.
IdentityJobs ==
    {[alert |-> Alert(d[1], d[2], "absent", <<>>, {}, FALSE), events |-> <<>>,
      configured |-> {"revdns"}, names |-> ns, config |-> Usual] :
        d \in {<<"h1", "h2">>, <<"h1", "h1">>, <<"h1", "e1">>, <<"none", "p">>},
        ns \in {<<>>, "h1" :> "", "h1" :> "host"}}

MCJobs ==
    RoleJobs \cup ConfigJobs \cup IdentityJobs
    \cup {FlowJob("h1", "h2", s, {"rdap"}) : s \in UpTo(DnsEvents, 3)}
    \cup UNION {{FlowJob(d[1], d[2], s, Sources) :
                     s \in UpTo(WebEvents(d[1], d[2]), 2)} :
                    d \in {<<"h1", "e1">>, <<"e1", "p">>, <<"h1", "h1">>}}
=============================================================================
