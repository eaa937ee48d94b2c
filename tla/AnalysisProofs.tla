--------------------------- MODULE AnalysisProofs ---------------------------
(***************************************************************************)
(* Proofs about Analysis, for every set of jobs: what read_config makes of *)
(* the configuration, what _extract_indicators makes of a flow, roles,     *)
(* identities, lookups and retries.                                        *)
(*                                                                         *)
(* The loops of the code are recursive functions of the model.  A fact     *)
(* about one is proved by SetInduction: the set of turns after which it    *)
(* holds has 0 and is closed under + 1.                                    *)
(***************************************************************************)
EXTENDS Analysis, TLAPS, WellFoundedInduction, FiniteSetTheorems

-----------------------------------------------------------------------------
\* Without a usable target field assign_roles goes on to its second signal.
LEMMA NoTarget ==
    ASSUME NEW a, a.target \notin {"src_ip", "dest_ip"}
    PROVE  assign_roles(a) = ByMetadata(a)
<1>1. a.target # "src_ip" /\ a.target # "dest_ip"
  OBVIOUS
<1>2. QED
  BY <1>1, Zenon DEF assign_roles

\* What may be said of an inside source and an outside destination.
Grounded(a, r) ==
    \/ r.confidence = "low"
    \/ classify_attack_target(a.attack_target) = "server"
    \/ detect_pattern(a.category) = "scan"

\* The source attacked the destination, or the other way round if the source is inside
\* and the destination is not, or nobody is named.
Blames(a, r) ==
    \/ r = Assignment(a.src, a.dest, r.confidence) /\ (Outbound(a) => Grounded(a, r))
    \/ Outbound(a) /\ r = Assignment(a.dest, a.src, r.confidence)
    \/ r = ambiguous

\* A command-and-control category is decided by apply_outbound_cnc.
LEMMA CncDecides ==
    ASSUME NEW a, detect_pattern(a.category) = "outbound_cnc"
    PROVE  ByCategory(a) = apply_outbound_cnc(a)
BY Zenon DEF ByCategory

\* Whatever the category, signals 3 and 4 decide in one of the three ways.
LEMMA CategoryBlames ==
    ASSUME NEW a
    PROVE  Blames(a, ByCategory(a))
<1> DEFINE p == detect_pattern(a.category)
           m == Assignment(a.src, a.dest, "medium")
<1>1. \/ ByCategory(a) \in {apply_outbound_cnc(a), apply_inbound_attack(a),
                            apply_attack_response(a), ambiguous}
      \/ p = "scan" /\ ByCategory(a) = m
  BY Zenon DEF ByCategory
<1>2. Blames(a, apply_outbound_cnc(a))
  BY DEF Blames, apply_outbound_cnc, Assignment, Inbound, Outbound
<1>3. Blames(a, apply_inbound_attack(a))
  BY DEF Blames, Grounded, apply_inbound_attack, Assignment, Inbound, Outbound
<1>4. Blames(a, apply_attack_response(a))
  BY DEF Blames, apply_attack_response, Assignment, Inbound, Outbound
<1>5. (p = "scan" => Blames(a, m)) /\ Blames(a, ambiguous)
  BY DEF Blames, Grounded, Assignment
<1>6. QED
  BY <1>1, <1>2, <1>3, <1>4, <1>5, Zenon

\* So does assign_roles, unless the rule has a target field.
LEMMA RolesBlame ==
    ASSUME NEW a, a.target \notin {"src_ip", "dest_ip"}
    PROVE  Blames(a, assign_roles(a))
<1> DEFINE r == ByMetadata(a)
<1>1. CASE r = ByCategory(a)
  BY <1>1, NoTarget, CategoryBlames
<1>2. CASE r # ByCategory(a)
  <2>1. \/ /\ r = Assignment(a.src, a.dest, "medium")
           /\ Inbound(a) \/ classify_attack_target(a.attack_target) = "server"
        \/ Outbound(a) /\ r = Assignment(a.dest, a.src, "medium")
    BY <1>2 DEF ByMetadata
  <2>2. Blames(a, r)
    BY <2>1 DEF Blames, Grounded, Assignment, Inbound, Outbound
  <2>3. QED
    BY <2>2, NoTarget
<1>3. QED
  BY <1>1, <1>2

\* A rule that targets the client, or a command-and-control one, with exactly one
\* endpoint inside.
NamesClient(a) ==
    LET hint == classify_attack_target(a.attack_target)
    IN /\ a.target \notin {"src_ip", "dest_ip"}
       /\ Inbound(a) \/ Outbound(a)
       /\ \/ hint = "client"
          \/ hint = "none" /\ detect_pattern(a.category) = "outbound_cnc"

\* The endpoint in HOME_NET.
InsideEnd(a) == IF Internal(a.src) THEN a.src ELSE a.dest

\* For such a rule assign_roles makes the endpoint in HOME_NET the victim.
LEMMA ClientIsInside ==
    ASSUME NEW a, NamesClient(a)
    PROVE  assign_roles(a).victim = InsideEnd(a)
<1> DEFINE hint == classify_attack_target(a.attack_target)
           r == ByMetadata(a)
<1>1. assign_roles(a) = r
  BY NoTarget DEF NamesClient
<1>2. CASE hint = "client"
  BY <1>1, <1>2 DEF ByMetadata, NamesClient, Assignment, InsideEnd, Inbound, Outbound
<1>3. CASE hint = "none" /\ detect_pattern(a.category) = "outbound_cnc"
  <2>1. r = ByCategory(a)
    BY <1>3 DEF ByMetadata
  <2>2. r = apply_outbound_cnc(a)
    BY <2>1, <1>3, CncDecides
  <2>3. QED
    BY <1>1, <2>2 DEF apply_outbound_cnc, NamesClient, Assignment, InsideEnd, Inbound, Outbound
<1>4. QED
  BY <1>2, <1>3 DEF NamesClient

\* Which is the same endpoint when source and destination change places.
LEMMA MirrorSwaps ==
    ASSUME NEW a, IsAlert(a), NamesClient(a)
    PROVE  NamesClient(Mirror(a)) /\ InsideEnd(Mirror(a)) = InsideEnd(a)
<1>1. /\ Mirror(a).src = a.dest /\ Mirror(a).dest = a.src
      /\ Mirror(a).target = a.target
      /\ Mirror(a).attack_target = a.attack_target
      /\ Mirror(a).category = a.category
  BY DEF IsAlert, Mirror
<1>2. QED
  BY <1>1 DEF NamesClient, InsideEnd, Inbound, Outbound

-----------------------------------------------------------------------------
\* Induction over the naturals, for a set in place of a predicate.
LEMMA Least ==
    ASSUME NEW T \in SUBSET Nat, T # {}
    PROVE  \E x \in T : \A y \in T : x <= y
<1>1. PICK x \in T : \A y \in T : ~(<<y, x>> \in OpToRel(<, Nat))
  BY WFMin, NatLessThanWellFounded
<1>2. ASSUME NEW y \in T, y < x
      PROVE  FALSE
  <2>1. <<y, x>> \in OpToRel(<, Nat)
    BY <1>2 DEF OpToRel
  <2>2. QED
    BY <1>1, <2>1
<1>3. QED
  BY <1>2

LEMMA SetInduction ==
    ASSUME NEW T, 0 \in T, \A n \in Nat : n \in T => n + 1 \in T
    PROVE  Nat \subseteq T
<1>1. SUFFICES ASSUME Nat \ T # {} PROVE FALSE
  OBVIOUS
<1>2. PICK x \in Nat \ T : \A y \in Nat \ T : x <= y
  BY <1>1, Least
<1>3. x # 0 /\ x - 1 \in Nat /\ x = (x - 1) + 1
  BY <1>2
<1>4. x - 1 \in T
  BY <1>2, <1>3
<1>5. QED
  BY <1>2, <1>3, <1>4

-----------------------------------------------------------------------------
\* f is what the loop of _extract_indicators has after each of its first n turns.
IsScan(f, a, events, n) ==
    f = [i \in 0 .. n |-> IF i = 0 THEN [ips |-> EndpointIps(a), domains |-> <<>>]
                          ELSE Scan(events, f[i - 1], i)]

\* One more turn can always be taken.
LEMMA ScanExtends ==
    ASSUME NEW a, NEW events, NEW n \in Nat, NEW f, IsScan(f, a, events, n)
    PROVE  \E g : IsScan(g, a, events, n + 1)
<1> DEFINE g == [i \in 0 .. n + 1 |-> IF i = n + 1 THEN Scan(events, f[n], n + 1) ELSE f[i]]
<1>1. g[n] = f[n]
  OBVIOUS
<1>2. ASSUME NEW i \in 0 .. n + 1
      PROVE  g[i] = IF i = 0 THEN [ips |-> EndpointIps(a), domains |-> <<>>]
                    ELSE Scan(events, g[i - 1], i)
  <2>1. CASE i = n + 1
    <3>1. g[i] = Scan(events, f[n], i) /\ i - 1 = n /\ i # 0
      BY <2>1
    <3>2. QED
      BY <3>1, <1>1
  <2>2. CASE i \in 0 .. n
    <3>1. g[i] = f[i] /\ (i # 0 => i - 1 \in 0 .. n /\ g[i - 1] = f[i - 1])
      BY <2>2
    <3>2. f[i] = IF i = 0 THEN [ips |-> EndpointIps(a), domains |-> <<>>]
                 ELSE Scan(events, f[i - 1], i)
      BY <2>2 DEF IsScan
    <3>3. QED
      BY <3>1, <3>2
  <2>3. QED
    BY <2>1, <2>2
<1>3. IsScan(g, a, events, n + 1)
  BY <1>2 DEF IsScan
<1>4. QED
  BY <1>3

\* Scanned is that function.
LEMMA ScannedDef ==
    ASSUME NEW a, NEW events, Len(events) \in Nat
    PROVE  IsScan(Scanned(a, events), a, events, Len(events))
<1> DEFINE T == {n \in Nat : \E f : IsScan(f, a, events, n)}
<1>1. 0 \in T
  <2>1. IsScan([i \in 0 .. 0 |-> [ips |-> EndpointIps(a), domains |-> <<>>]], a, events, 0)
    BY DEF IsScan
  <2>2. QED
    BY <2>1
<1>2. \A n \in Nat : n \in T => n + 1 \in T
  BY ScanExtends
<1>3. Len(events) \in T
  <2> HIDE DEF T
  <2>1. QED
    BY <1>1, <1>2, SetInduction
<1>4. \E f : f = [i \in 0 .. Len(events) |->
                    IF i = 0 THEN [ips |-> EndpointIps(a), domains |-> <<>>]
                    ELSE Scan(events, f[i - 1], i)]
  BY <1>3 DEF IsScan
<1>5. QED
  BY <1>4 DEF Scanned, IsScan

\* The name of the i-th event is among the domains, or there is a reason why not.
Considered(events, domains, i) ==
    \/ DomainOf(events[i]) \in Unfit \cup Literals
    \/ \E x \in 1 .. Len(domains) : domains[x] = DomainOf(events[i])
    \/ InternalDomain(events, i)
    \/ /\ Len(domains) = MaxDomains
       /\ \A x \in 1 .. Len(domains) : \E k \in 1 .. i - 1 : DomainOf(events[k]) = domains[x]

\* What the loop keeps: the domains are distinct names of the events so far that may be
\* asked about, and none of those events was passed over without a reason.
ScanInv(events, found, n) ==
    /\ found = [ips |-> found.ips, domains |-> found.domains]
    /\ \E V : found.ips \in Seq(V)
    /\ \E V : found.domains \in Seq(V)
    /\ Len(found.domains) <= MaxDomains
    /\ \A x, y \in 1 .. Len(found.domains) : found.domains[x] = found.domains[y] => x = y
    /\ \A x \in 1 .. Len(found.domains) :
         \E m \in 1 .. n : /\ found.domains[x] = DomainOf(events[m])
                           /\ DomainOf(events[m]) \notin Unfit
                           /\ ~InternalDomain(events, m)
    /\ \A i \in 1 .. n : Considered(events, found.domains, i)

\* A turn of the loop keeps it.
LEMMA ScanKeeps ==
    ASSUME NEW events, NEW n \in Nat, NEW f, ScanInv(events, f, n)
    PROVE  ScanInv(events, Scan(events, f, n + 1), n + 1)
<1> DEFINE name == DomainOf(events[n + 1])
           g == Scan(events, f, n + 1)
<1>1. /\ f = [ips |-> f.ips, domains |-> f.domains]
      /\ \E V : f.ips \in Seq(V)
      /\ MaxDomains \in Nat
  BY IndicatorsAssumption DEF ScanInv
<1>2. PICK V : f.domains \in Seq(V)
  BY DEF ScanInv
<1>3. \A x \in 1 .. Len(f.domains) :
         \E m \in 1 .. n + 1 : /\ f.domains[x] = DomainOf(events[m])
                               /\ DomainOf(events[m]) \notin Unfit
                               /\ ~InternalDomain(events, m)
  <2>1. 1 .. n \subseteq 1 .. n + 1
    OBVIOUS
  <2>2. QED
    BY <2>1 DEF ScanInv
<1>4. ASSUME NEW ips, \E W : ips \in Seq(W), g = [ips |-> ips, domains |-> f.domains],
             Considered(events, f.domains, n + 1)
      PROVE  ScanInv(events, g, n + 1)
  <2>1. g.ips = ips /\ g.domains = f.domains
    BY <1>4
  <2>2. \A i \in 1 .. n + 1 : Considered(events, f.domains, i)
    <3>1. \A i \in 1 .. n + 1 : i \in 1 .. n \/ i = n + 1
      OBVIOUS
    <3>2. QED
      BY <1>4, <3>1 DEF ScanInv
  <2>3. QED
    BY <1>2, <1>3, <1>4, <2>1, <2>2 DEF ScanInv
<1>5. CASE Len(f.domains) >= MaxDomains
  <2>1. g = [ips |-> f.ips, domains |-> f.domains]
    BY <1>1, <1>5 DEF Scan
  <2>2. Len(f.domains) = MaxDomains
    BY <1>1, <1>2, <1>5 DEF ScanInv
  <2>3. Considered(events, f.domains, n + 1)
    BY <2>2 DEF Considered, ScanInv
  <2>4. QED
    BY <1>1, <1>4, <2>1, <2>3
<1>6. CASE name \in Unfit \/ Contains(f.domains, name)
  <2>1. g = [ips |-> f.ips, domains |-> f.domains]
    BY <1>1, <1>6 DEF Scan
  <2>2. Considered(events, f.domains, n + 1)
    BY <1>6 DEF Considered, Contains
  <2>3. QED
    BY <1>1, <1>4, <2>1, <2>2
<1>7. CASE ~(Len(f.domains) >= MaxDomains) /\ name \notin Unfit /\ ~Contains(f.domains, name)
  <2>1. CASE name \in Literals
    <3>1. g = [ips |-> WithIp(f.ips, name), domains |-> f.domains]
      BY <1>1, <1>7, <2>1 DEF Scan
    <3>2. \E W : WithIp(f.ips, name) \in Seq(W)
      <4>1. PICK W : f.ips \in Seq(W)
        BY <1>1
      <4>2. f.ips \in Seq(W \cup {name}) /\ Append(f.ips, name) \in Seq(W \cup {name})
        BY <4>1
      <4>3. QED
        BY <4>2 DEF WithIp
    <3>3. Considered(events, f.domains, n + 1)
      BY <2>1 DEF Considered
    <3>4. QED
      BY <1>4, <3>1, <3>2, <3>3
  <2>2. CASE name \notin Literals /\ InternalDomain(events, n + 1)
    <3>1. g = [ips |-> f.ips, domains |-> f.domains]
      BY <1>1, <1>7, <2>2 DEF Scan
    <3>2. Considered(events, f.domains, n + 1)
      BY <2>2 DEF Considered
    <3>3. QED
      BY <1>1, <1>4, <3>1, <3>2
  <2>3. CASE name \notin Literals /\ ~InternalDomain(events, n + 1)
    <3> DEFINE ds == f.domains
               last == Len(ds) + 1
               longer == Append(ds, name)
    <3>1. g = [ips |-> f.ips, domains |-> longer]
      BY <1>1, <1>7, <2>3 DEF Scan
    <3>2. /\ ds \in Seq(V \cup {name}) /\ longer \in Seq(V \cup {name})
          /\ Len(ds) \in Nat /\ Len(longer) = last
          /\ \A x \in 1 .. Len(ds) : longer[x] = ds[x]
          /\ longer[last] = name
          /\ \A x \in 1 .. last : x \in 1 .. Len(ds) \/ x = last
      BY <1>2
    <3>3. Len(longer) <= MaxDomains
      BY <1>1, <1>7, <3>2
    <3>4. \A x \in 1 .. Len(ds) : ds[x] # name
      BY <1>7 DEF Contains
    <3>5. \A x, y \in 1 .. last : longer[x] = longer[y] => x = y
      BY <3>2, <3>4 DEF ScanInv
    <3>6. ASSUME NEW x \in 1 .. last
          PROVE  \E m \in 1 .. n + 1 : /\ longer[x] = DomainOf(events[m])
                                       /\ DomainOf(events[m]) \notin Unfit
                                       /\ ~InternalDomain(events, m)
      <4>1. CASE x = last
        <5>1. n + 1 \in 1 .. n + 1
          OBVIOUS
        <5>2. QED
          BY <1>7, <2>3, <3>2, <4>1, <5>1
      <4>2. CASE x \in 1 .. Len(ds)
        BY <1>3, <3>2, <4>2
      <4>3. QED
        BY <3>2, <4>1, <4>2
    <3>7. ASSUME NEW i \in 1 .. n + 1
          PROVE  Considered(events, longer, i)
      <4>1. CASE i = n + 1
        <5>1. last \in 1 .. Len(longer)
          BY <3>2
        <5>2. QED
          BY <3>2, <4>1, <5>1 DEF Considered
      <4>2. CASE i \in 1 .. n
        <5>1. Considered(events, ds, i)
          BY <4>2 DEF ScanInv
        <5>2. Len(ds) # MaxDomains
          BY <1>1, <1>7, <3>2
        <5>3. \A x \in 1 .. Len(ds) : x \in 1 .. Len(longer) /\ longer[x] = ds[x]
          BY <3>2
        <5>4. QED
          BY <5>1, <5>2, <5>3 DEF Considered
      <4>3. QED
        BY <4>1, <4>2
    <3>8. g.ips = f.ips /\ g.domains = longer
      BY <3>1
    <3>9. /\ g = [ips |-> g.ips, domains |-> g.domains]
          /\ \E W : g.ips \in Seq(W)
          /\ \E W : g.domains \in Seq(W)
      BY <1>1, <3>1, <3>2, <3>8
    <3>10. ScanInv(events, g, n + 1)
      <4> HIDE DEF g, longer, last
      <4>1. QED
        BY <3>2, <3>3, <3>5, <3>6, <3>7, <3>8, <3>9 DEF ScanInv
    <3>11. QED
      BY <3>10
  <2>4. QED
    BY <2>1, <2>2, <2>3
<1>8. QED
  BY <1>5, <1>6, <1>7

\* So the lists _extract_indicators ends with have it for the whole flow.
LEMMA ScannedInv ==
    ASSUME NEW a, NEW events, Len(events) \in Nat
    PROVE  ScanInv(events, Scanned(a, events)[Len(events)], Len(events))
<1> DEFINE f == Scanned(a, events)
           T == {n \in Nat : n <= Len(events) => ScanInv(events, f[n], n)}
<1>1. IsScan(f, a, events, Len(events))
  BY ScannedDef
<1>2. 0 \in T
  <2>1. f[0] = [ips |-> EndpointIps(a), domains |-> <<>>]
    BY <1>1 DEF IsScan
  <2>2. \E V : EndpointIps(a) \in Seq(V)
    <3> DEFINE V == {a.src, a.dest}
    <3>1. <<>> \in Seq(V)
      OBVIOUS
    <3>2. \A s \in Seq(V), ip \in V : WithIp(s, ip) \in Seq(V)
      BY DEF WithIp
    <3>3. EndpointIps(a) \in Seq(V)
      BY <3>1, <3>2 DEF EndpointIps
    <3>4. QED
      BY <3>3
  <2>3. /\ f[0].ips = EndpointIps(a) /\ f[0].domains = <<>> /\ Len(<<>>) = 0
        /\ <<>> \in Seq({})
    BY <2>1
  <2>4. ScanInv(events, f[0], 0)
    BY <2>1, <2>2, <2>3, IndicatorsAssumption DEF ScanInv
  <2>5. QED
    BY <2>4
<1>3. ASSUME NEW n \in Nat, n \in T
      PROVE  n + 1 \in T
  <2>1. SUFFICES ASSUME n + 1 <= Len(events) PROVE ScanInv(events, f[n + 1], n + 1)
    OBVIOUS
  <2>2. f[n + 1] = Scan(events, f[n], n + 1)
    <3>1. n + 1 \in 0 .. Len(events) /\ n + 1 # 0 /\ (n + 1) - 1 = n
      BY <2>1
    <3>2. QED
      BY <1>1, <3>1 DEF IsScan
  <2>3. ScanInv(events, f[n], n)
    BY <1>3, <2>1
  <2>4. QED
    BY <2>2, <2>3, ScanKeeps
<1>4. Len(events) \in T
  <2> HIDE DEF T
  <2>1. QED
    BY <1>2, <1>3, SetInduction
<1>5. QED
  BY <1>4

\* The names among the indicators.
Domains(inds) == {ind.value : ind \in {x \in ToSet(inds) : x.type = "domain"}}

\* A sequence without repetitions has as many elements as it is long.
LEMMA DistinctCount ==
    ASSUME NEW V, NEW s \in Seq(V),
           \A x, y \in 1 .. Len(s) : s[x] = s[y] => x = y
    PROVE  Cardinality({s[x] : x \in 1 .. Len(s)}) = Len(s)
<1> DEFINE T == {s[x] : x \in 1 .. Len(s)}
<1>1. Len(s) \in Nat /\ s \in [1 .. Len(s) -> T]
  OBVIOUS
<1>2. s \in Bijection(1 .. Len(s), T)
  BY <1>1 DEF Bijection, Injection, Surjection, IsInjective
<1>3. ExistsBijection(1 .. Len(s), T)
  BY <1>2 DEF ExistsBijection
<1>4. QED
  BY <1>1, <1>3, FS_CountingElements

\* The list comprehensions that end _extract_indicators.
LEMMA AsIndicatorsList ==
    ASSUME NEW V, NEW s \in Seq(V), NEW type
    PROVE  /\ \E W : AsIndicators(type, s) \in Seq(W)
           /\ Len(AsIndicators(type, s)) = Len(s)
           /\ \A x \in 1 .. Len(s) : /\ AsIndicators(type, s)[x].type = type
                                     /\ AsIndicators(type, s)[x].value = s[x]
<1> DEFINE r(x) == [type |-> type, value |-> s[x]]
           W == {r(x) : x \in 1 .. Len(s)}
           A == AsIndicators(type, s)
<1>1. Len(s) \in Nat /\ A = [x \in 1 .. Len(s) |-> r(x)]
  BY DEF AsIndicators
<1>2. \A x : r(x).type = type /\ r(x).value = s[x]
  OBVIOUS
<1> HIDE DEF r, A
<1>3. A \in Seq(W) /\ Len(A) = Len(s)
  BY <1>1
<1>4. QED
  BY <1>1, <1>2, <1>3 DEF A

\* What _extract_indicators returns, for every flow: addresses and names; a name is one of
\* the flow's, and none of the three reasons to leave it out applies at the event it
\* was taken from; and no other name is missed unless there is a reason or no room.
LEMMA ExtractedNames ==
    ASSUME NEW a, NEW events, NEW E, events \in Seq(E)
    PROVE  LET inds == extract_indicators(a, events)
           IN /\ \E V : inds \in Seq(V)
              /\ \A ind \in ToSet(inds) : ind.type \in {"ip", "domain"}
              /\ \A d \in Domains(inds) : \E m \in DOMAIN events :
                    /\ d = DomainOf(events[m])
                    /\ d \notin Unfit
                    /\ ~InternalDomain(events, m)
              /\ \A i \in DOMAIN events :
                    \/ DomainOf(events[i]) \in Unfit \cup Literals \cup Domains(inds)
                    \/ InternalDomain(events, i)
                    \/ /\ Cardinality(Domains(inds)) = MaxDomains
                       /\ \A d \in Domains(inds) : \E k \in 1 .. i - 1 : DomainOf(events[k]) = d
<1> DEFINE N == Len(events)
           f == Scanned(a, events)[N]
           ds == f.domains
           A == AsIndicators("ip", f.ips)
           B == AsIndicators("domain", ds)
           inds == extract_indicators(a, events)
<1>1. N \in Nat /\ DOMAIN events = 1 .. N
  OBVIOUS
<1>2. ScanInv(events, f, N)
  BY <1>1, ScannedInv
<1>3. inds = A \o B
  BY DEF extract_indicators
<1> HIDE DEF f, inds
<1>4. PICK V : f.ips \in Seq(V)
  BY <1>2 DEF ScanInv
<1>5. PICK W : ds \in Seq(W)
  BY <1>2 DEF ScanInv
<1>6. /\ \E X : A \in Seq(X)
      /\ \A x \in 1 .. Len(A) : A[x].type = "ip"
  BY <1>4, AsIndicatorsList
<1>7. /\ \E Y : B \in Seq(Y)
      /\ Len(B) = Len(ds)
      /\ \A x \in 1 .. Len(B) : B[x].type = "domain" /\ B[x].value = ds[x]
  BY <1>5, AsIndicatorsList
<1> HIDE DEF A, B
<1>8. PICK X, Y : A \in Seq(X) /\ B \in Seq(Y)
  BY <1>6, <1>7
<1>9. /\ Len(A) \in Nat /\ Len(B) \in Nat
      /\ inds \in Seq(X \cup Y)
      /\ DOMAIN inds = 1 .. Len(A) + Len(B)
      /\ \A x \in 1 .. Len(A) : inds[x] = A[x]
      /\ \A x \in 1 .. Len(B) : inds[Len(A) + x] = B[x]
  <2>1. A \in Seq(X \cup Y) /\ B \in Seq(X \cup Y) /\ Len(A) \in Nat /\ Len(B) \in Nat
    BY <1>8
  <2>2. inds \in Seq(X \cup Y) /\ Len(inds) = Len(A) + Len(B)
    BY <1>3, <2>1
  <2>3. \A x \in 1 .. Len(A) : inds[x] = A[x]
    BY <1>3, <2>1
  <2>4. \A x \in 1 .. Len(B) : inds[Len(A) + x] = B[x]
    BY <1>3, <2>1
  <2>5. QED
    BY <2>1, <2>2, <2>3, <2>4
<1>10. \A x \in 1 .. Len(A) + Len(B) :
          x \in 1 .. Len(A) \/ \E y \in 1 .. Len(B) : x = Len(A) + y
  <2>1. SUFFICES ASSUME NEW x \in 1 .. Len(A) + Len(B), x \notin 1 .. Len(A)
                 PROVE  x - Len(A) \in 1 .. Len(B) /\ x = Len(A) + (x - Len(A))
    OBVIOUS
  <2>2. QED
    BY <1>9, <2>1
<1>11. \A ind \in ToSet(inds) :
         \/ ind.type = "ip"
         \/ ind.type = "domain" /\ \E y \in 1 .. Len(ds) : ind.value = ds[y]
  <2>1. SUFFICES ASSUME NEW x \in DOMAIN inds
                 PROVE  \/ inds[x].type = "ip"
                        \/ /\ inds[x].type = "domain"
                           /\ \E y \in 1 .. Len(ds) : inds[x].value = ds[y]
    BY DEF ToSet
  <2>2. CASE x \in 1 .. Len(A)
    BY <1>6, <1>9, <2>2
  <2>3. CASE \E y \in 1 .. Len(B) : x = Len(A) + y
    <3>1. PICK y \in 1 .. Len(B) : x = Len(A) + y
      BY <2>3
    <3>2. inds[x] = B[y]
      BY <1>9, <3>1
    <3>3. QED
      BY <1>7, <3>1, <3>2
  <2>4. x \in 1 .. Len(A) + Len(B)
    BY <1>9
  <2>5. QED
    BY <1>10, <2>2, <2>3, <2>4
<1>12. Domains(inds) = {ds[x] : x \in 1 .. Len(ds)}
  <2>1. \A d \in Domains(inds) : \E y \in 1 .. Len(ds) : d = ds[y]
    BY <1>11 DEF Domains
  <2>2. ASSUME NEW y \in 1 .. Len(ds)
        PROVE  ds[y] \in Domains(inds)
    <3>1. Len(A) + y \in DOMAIN inds
      BY <1>7, <1>9
    <3>2. inds[Len(A) + y].type = "domain" /\ inds[Len(A) + y].value = ds[y]
      BY <1>7, <1>9
    <3>3. QED
      BY <3>1, <3>2 DEF Domains, ToSet
  <2>3. QED
    BY <2>1, <2>2
<1>13. Cardinality(Domains(inds)) = Len(ds)
  BY <1>2, <1>5, <1>12, DistinctCount DEF ScanInv
<1>14. \A d \in Domains(inds) : \E m \in DOMAIN events :
          /\ d = DomainOf(events[m])
          /\ d \notin Unfit
          /\ ~InternalDomain(events, m)
  BY <1>1, <1>2, <1>12 DEF ScanInv
<1>15. ASSUME NEW i \in DOMAIN events
       PROVE  \/ DomainOf(events[i]) \in Unfit \cup Literals \cup Domains(inds)
              \/ InternalDomain(events, i)
              \/ /\ Cardinality(Domains(inds)) = MaxDomains
                 /\ \A d \in Domains(inds) : \E k \in 1 .. i - 1 : DomainOf(events[k]) = d
  <2>1. Considered(events, ds, i)
    BY <1>1, <1>2 DEF ScanInv
  <2>2. QED
    BY <2>1, <1>12, <1>13 DEF Considered
<1>16. QED
  BY <1>9, <1>11, <1>14, <1>15 DEF inds

-----------------------------------------------------------------------------
\* f joins ever more of the lists, as FlattenSeq does.
IsJoin(f, lists, n) ==
    f = [i \in 1 .. n |-> IF i = 1 THEN lists[i] ELSE f[i - 1] \o lists[i]]

LEMMA JoinExists ==
    ASSUME NEW lists, NEW n \in Nat
    PROVE  \E f : IsJoin(f, lists, n)
<1> DEFINE T == {k \in Nat : \E f : IsJoin(f, lists, k)}
<1>1. 0 \in T
  <2>1. IsJoin([i \in 1 .. 0 |-> <<>>], lists, 0)
    BY DEF IsJoin
  <2>2. QED
    BY <2>1
<1>2. ASSUME NEW k \in Nat, k \in T
      PROVE  k + 1 \in T
  <2>1. PICK f : IsJoin(f, lists, k)
    BY <1>2
  <2> DEFINE new == IF k = 0 THEN lists[1] ELSE f[k] \o lists[k + 1]
             g == [i \in 1 .. k + 1 |-> IF i = k + 1 THEN new ELSE f[i]]
  <2>2. ASSUME NEW i \in 1 .. k + 1
        PROVE  g[i] = IF i = 1 THEN lists[i] ELSE g[i - 1] \o lists[i]
    <3>1. CASE i = k + 1
      <4>1. g[i] = new /\ (i # 1 => k # 0 /\ i - 1 = k /\ g[k] = f[k]) /\ (i = 1 => k = 0)
        BY <3>1
      <4>2. QED
        BY <3>1, <4>1
    <3>2. CASE i \in 1 .. k
      <4>1. g[i] = f[i] /\ (i # 1 => i - 1 \in 1 .. k /\ g[i - 1] = f[i - 1])
        BY <3>2
      <4>2. f[i] = IF i = 1 THEN lists[i] ELSE f[i - 1] \o lists[i]
        BY <2>1, <3>2 DEF IsJoin
      <4>3. QED
        BY <4>1, <4>2
    <3>3. QED
      BY <3>1, <3>2
  <2>3. IsJoin(g, lists, k + 1)
    BY <2>2 DEF IsJoin
  <2>4. QED
    BY <2>3
<1>3. n \in T
  <2> HIDE DEF T
  <2>1. QED
    BY <1>1, <1>2, SetInduction
<1>4. QED
  BY <1>3

\* FlattenSeq joins them all.
LEMMA FlattenDef ==
    ASSUME NEW lists, Len(lists) \in Nat \ {0}
    PROVE  \E f : IsJoin(f, lists, Len(lists)) /\ FlattenSeq(lists) = f[Len(lists)]
<1> DEFINE N == Len(lists)
           P(f) == f = [i \in 1 .. N |-> IF i = 1 THEN lists[i] ELSE f[i - 1] \o lists[i]]
           h == CHOOSE f : P(f)
<1>1. \E f : P(f)
  BY JoinExists DEF IsJoin
<1>2. P(h)
  BY <1>1, Zenon
<1>3. FlattenSeq(lists) = h[N]
  BY Zenon DEF FlattenSeq
<1>4. QED
  BY <1>2, <1>3 DEF IsJoin

\* What an entry of the evidence is about.
Labels(entries) == [n \in DOMAIN entries |-> <<entries[n].indicator, entries[n].source>>]

LEMMA LabelsJoin ==
    ASSUME NEW V, NEW s \in Seq(V), NEW t \in Seq(V)
    PROVE  Labels(s \o t) = Labels(s) \o Labels(t)
<1> DEFINE lab(e) == <<e.indicator, e.source>>
           W == {lab(e) : e \in V}
           S == Labels(s)
           T == Labels(t)
           L == Labels(s \o t)
<1> HIDE DEF lab
<1>1. /\ s \o t \in Seq(V) /\ Len(s \o t) = Len(s) + Len(t)
      /\ Len(s) \in Nat /\ Len(t) \in Nat
  OBVIOUS
<1>2. \A u \in Seq(V) : /\ Labels(u) = [n \in 1 .. Len(u) |-> lab(u[n])]
                        /\ Labels(u) \in Seq(W) /\ Len(Labels(u)) = Len(u)
  BY DEF Labels, lab
<1>3. S \in Seq(W) /\ T \in Seq(W) /\ L \in Seq(W)
      /\ Len(S) = Len(s) /\ Len(T) = Len(t) /\ Len(L) = Len(s) + Len(t)
  BY <1>1, <1>2
<1>4. S \o T \in Seq(W) /\ Len(S \o T) = Len(s) + Len(t)
  <2>1. \A X : \A x, y \in Seq(X) : x \o y \in Seq(X) /\ Len(x \o y) = Len(x) + Len(y)
    OBVIOUS
  <2> HIDE DEF S, T, W
  <2>2. S \o T \in Seq(W) /\ Len(S \o T) = Len(S) + Len(T)
    BY <1>3, <2>1, Zenon
  <2>3. QED
    BY <1>3, <2>2
<1>5. ASSUME NEW n \in 1 .. Len(s) + Len(t)
      PROVE  L[n] = (S \o T)[n]
  <2>1. L[n] = lab((s \o t)[n])
    BY <1>1, <1>2
  <2>2. CASE n <= Len(s)
    <3>1. (s \o t)[n] = s[n] /\ (S \o T)[n] = S[n] /\ S[n] = lab(s[n])
      BY <1>1, <1>2, <1>3, <2>2
    <3>2. QED
      BY <2>1, <3>1
  <2>3. CASE ~(n <= Len(s))
    <3>1. n - Len(s) \in 1 .. Len(t)
      BY <1>1, <2>3
    <3>2. (s \o t)[n] = t[n - Len(s)] /\ (S \o T)[n] = T[n - Len(s)]
      BY <1>1, <1>3, <2>3
    <3>3. T[n - Len(s)] = lab(t[n - Len(s)])
      BY <1>2, <3>1
    <3>4. QED
      BY <2>1, <3>2, <3>3
  <2>4. QED
    BY <2>2, <2>3
<1>6. QED
  BY <1>3, <1>4, <1>5

\* Labelling each list and joining, or joining and labelling: the same.
LEMMA LabelsFlatten ==
    ASSUME NEW V, NEW N \in Nat, NEW lists \in [1 .. N -> Seq(V)]
    PROVE  Labels(FlattenSeq(lists)) = FlattenSeq([i \in 1 .. N |-> Labels(lists[i])])
<1> DEFINE labelled == [i \in 1 .. N |-> Labels(lists[i])]
<1>1. Len(lists) = N /\ Len(labelled) = N
  OBVIOUS
<1>2. CASE N = 0
  <2>1. FlattenSeq(lists) = lists /\ FlattenSeq(labelled) = labelled
    BY <1>1, <1>2 DEF FlattenSeq
  <2>2. lists = <<>> /\ labelled = <<>>
    BY <1>2
  <2>3. Labels(<<>>) = <<>>
    BY DEF Labels
  <2>4. QED
    BY <2>1, <2>2, <2>3
<1>3. CASE N # 0
  <2>1. PICK f : IsJoin(f, lists, N) /\ FlattenSeq(lists) = f[N]
    BY <1>1, <1>3, FlattenDef
  <2>2. PICK g : IsJoin(g, labelled, N) /\ FlattenSeq(labelled) = g[N]
    BY <1>1, <1>3, FlattenDef
  <2> DEFINE T == {n \in Nat : n + 1 <= N => f[n + 1] \in Seq(V) /\ g[n + 1] = Labels(f[n + 1])}
  <2>3. 0 \in T
    <3>1. f[1] = lists[1] /\ g[1] = labelled[1]
      BY <1>3, <2>1, <2>2 DEF IsJoin
    <3>2. QED
      BY <1>3, <3>1
  <2>4. ASSUME NEW n \in Nat, n \in T
        PROVE  n + 1 \in T
    <3> DEFINE k == n + 2
    <3>1. SUFFICES ASSUME k <= N PROVE f[k] \in Seq(V) /\ g[k] = Labels(f[k])
      OBVIOUS
    <3>2. k \in 1 .. N /\ k # 1 /\ k - 1 = n + 1 /\ n + 1 <= N
      BY <3>1
    <3>3. f[k] = f[n + 1] \o lists[k] /\ g[k] = g[n + 1] \o labelled[k]
      BY <2>1, <2>2, <3>2 DEF IsJoin
    <3>4. f[n + 1] \in Seq(V) /\ g[n + 1] = Labels(f[n + 1])
      BY <2>4, <3>2
    <3>5. lists[k] \in Seq(V) /\ labelled[k] = Labels(lists[k])
      BY <3>2
    <3>6. f[k] \in Seq(V)
      BY <3>3, <3>4, <3>5
    <3>7. Labels(f[n + 1] \o lists[k]) = Labels(f[n + 1]) \o Labels(lists[k])
      BY <3>4, <3>5, LabelsJoin
    <3>8. QED
      <4> HIDE DEF labelled, k
      <4>1. QED
        BY <3>3, <3>4, <3>5, <3>6, <3>7
  <2>5. N - 1 \in T
    <3>1. N - 1 \in Nat
      BY <1>3
    <3> HIDE DEF T
    <3>2. QED
      BY <2>3, <2>4, <3>1, SetInduction
  <2>6. g[N] = Labels(f[N])
    <3>1. (N - 1) + 1 = N
      OBVIOUS
    <3>2. QED
      BY <2>5, <3>1
  <2>7. QED
    BY <2>1, <2>2, <2>6
<1>4. QED
  BY <1>2, <1>3

-----------------------------------------------------------------------------
(***************************************************************************)
(* HOME_NET.  A path is a chain of references that starts at HOME_NET.     *)
(* Before the first pass a group's text names the group one further along; *)
(* every pass doubles that distance, or the text has taken in the networks *)
(* at the path's end.                                                      *)
(***************************************************************************)

\* f is the texts after each of the first n turns of a pass, after each of the first n
\* passes, the first n doublings of Span, and what Reachable has after each of n steps.
IsDone(f, order, groups, n) ==
    f = [i \in 0 .. n |-> IF i = 0 THEN groups ELSE ExpandIn(f[i - 1], order[i])]

IsAfter(f, order, groups, n) ==
    f = [i \in 0 .. n |-> IF i = 0 THEN groups ELSE Pass(order, f[i - 1])]

IsSpan(f, n) == f = [i \in 0 .. n |-> IF i = 0 THEN 1 ELSE 2 * f[i - 1]]

Start(groups) == {"HOME_NET"} \cap DOMAIN groups

Wider(groups, S) == S \cup UNION {groups[g].refs \cap DOMAIN groups : g \in S}

IsReach(f, groups, n) ==
    f = [i \in 0 .. n |-> IF i = 0 THEN Start(groups) ELSE Wider(groups, f[i - 1])]

\* The four recursive functions exist.
LEMMA DoneExists ==
    ASSUME NEW order, NEW groups, NEW m \in Nat
    PROVE  \E f : IsDone(f, order, groups, m)
<1> DEFINE T == {n \in Nat : \E f : IsDone(f, order, groups, n)}
<1>1. 0 \in T
  <2>1. IsDone([i \in 0 .. 0 |-> groups], order, groups, 0)
    BY DEF IsDone
  <2>2. QED
    BY <2>1
<1>2. ASSUME NEW n \in Nat, NEW f, IsDone(f, order, groups, n)
      PROVE  \E g : IsDone(g, order, groups, n + 1)
  <2> DEFINE g == [i \in 0 .. n + 1 |-> IF i = n + 1 THEN ExpandIn(f[n], order[n + 1]) ELSE f[i]]
  <2>1. ASSUME NEW i \in 0 .. n + 1
        PROVE  g[i] = IF i = 0 THEN groups ELSE ExpandIn(g[i - 1], order[i])
    <3>1. CASE i = n + 1
      BY <3>1
    <3>2. CASE i \in 0 .. n
      BY <1>2, <3>2 DEF IsDone
    <3>3. QED
      BY <3>1, <3>2
  <2>2. IsDone(g, order, groups, n + 1)
    BY <2>1 DEF IsDone
  <2>3. QED
    BY <2>2
<1>3. m \in T
  <2>1. \A n \in Nat : n \in T => n + 1 \in T
    BY <1>2
  <2> HIDE DEF T
  <2>2. QED
    BY <1>1, <2>1, SetInduction
<1>4. QED
  BY <1>3

LEMMA AfterExists ==
    ASSUME NEW order, NEW groups, NEW m \in Nat
    PROVE  \E f : IsAfter(f, order, groups, m)
<1> DEFINE T == {n \in Nat : \E f : IsAfter(f, order, groups, n)}
<1>1. 0 \in T
  <2>1. IsAfter([i \in 0 .. 0 |-> groups], order, groups, 0)
    BY DEF IsAfter
  <2>2. QED
    BY <2>1
<1>2. ASSUME NEW n \in Nat, NEW f, IsAfter(f, order, groups, n)
      PROVE  \E g : IsAfter(g, order, groups, n + 1)
  <2> DEFINE g == [i \in 0 .. n + 1 |-> IF i = n + 1 THEN Pass(order, f[n]) ELSE f[i]]
  <2>1. ASSUME NEW i \in 0 .. n + 1
        PROVE  g[i] = IF i = 0 THEN groups ELSE Pass(order, g[i - 1])
    <3>1. CASE i = n + 1
      BY <3>1
    <3>2. CASE i \in 0 .. n
      BY <1>2, <3>2 DEF IsAfter
    <3>3. QED
      BY <3>1, <3>2
  <2>2. IsAfter(g, order, groups, n + 1)
    BY <2>1 DEF IsAfter
  <2>3. QED
    BY <2>2
<1>3. m \in T
  <2>1. \A n \in Nat : n \in T => n + 1 \in T
    BY <1>2
  <2> HIDE DEF T
  <2>2. QED
    BY <1>1, <2>1, SetInduction
<1>4. QED
  BY <1>3

LEMMA SpanExists ==
    ASSUME NEW m \in Nat
    PROVE  \E f : IsSpan(f, m)
<1> DEFINE T == {n \in Nat : \E f : IsSpan(f, n)}
<1>1. 0 \in T
  <2>1. IsSpan([i \in 0 .. 0 |-> 1], 0)
    BY DEF IsSpan
  <2>2. QED
    BY <2>1
<1>2. ASSUME NEW n \in Nat, NEW f, IsSpan(f, n)
      PROVE  \E g : IsSpan(g, n + 1)
  <2> DEFINE g == [i \in 0 .. n + 1 |-> IF i = n + 1 THEN 2 * f[n] ELSE f[i]]
  <2>1. ASSUME NEW i \in 0 .. n + 1
        PROVE  g[i] = IF i = 0 THEN 1 ELSE 2 * g[i - 1]
    <3>1. CASE i = n + 1
      BY <3>1
    <3>2. CASE i \in 0 .. n
      BY <1>2, <3>2 DEF IsSpan
    <3>3. QED
      BY <3>1, <3>2
  <2>2. IsSpan(g, n + 1)
    BY <2>1 DEF IsSpan
  <2>3. QED
    BY <2>2
<1>3. m \in T
  <2>1. \A n \in Nat : n \in T => n + 1 \in T
    BY <1>2
  <2> HIDE DEF T
  <2>2. QED
    BY <1>1, <2>1, SetInduction
<1>4. QED
  BY <1>3

LEMMA ReachExists ==
    ASSUME NEW groups, NEW m \in Nat
    PROVE  \E f : IsReach(f, groups, m)
<1> DEFINE T == {n \in Nat : \E f : IsReach(f, groups, n)}
<1>1. 0 \in T
  <2>1. IsReach([i \in 0 .. 0 |-> Start(groups)], groups, 0)
    BY DEF IsReach
  <2>2. QED
    BY <2>1
<1>2. ASSUME NEW n \in Nat, NEW f, IsReach(f, groups, n)
      PROVE  \E g : IsReach(g, groups, n + 1)
  <2> DEFINE g == [i \in 0 .. n + 1 |-> IF i = n + 1 THEN Wider(groups, f[n]) ELSE f[i]]
  <2>1. ASSUME NEW i \in 0 .. n + 1
        PROVE  g[i] = IF i = 0 THEN Start(groups) ELSE Wider(groups, g[i - 1])
    <3>1. CASE i = n + 1
      BY <3>1
    <3>2. CASE i \in 0 .. n
      BY <1>2, <3>2 DEF IsReach
    <3>3. QED
      BY <3>1, <3>2
  <2>2. IsReach(g, groups, n + 1)
    BY <2>1 DEF IsReach
  <2>3. QED
    BY <2>2
<1>3. m \in T
  <2>1. \A n \in Nat : n \in T => n + 1 \in T
    BY <1>2
  <2> HIDE DEF T
  <2>2. QED
    BY <1>1, <2>1, SetInduction
<1>4. QED
  BY <1>3

\* Pass, Resolve, Span and Reachable are the last values of these functions.
LEMMA PassDef ==
    ASSUME NEW order, NEW groups, Len(order) \in Nat
    PROVE  \E f : IsDone(f, order, groups, Len(order)) /\ Pass(order, groups) = f[Len(order)]
<1>1. \E f : f = [i \in 0 .. Len(order) |->
                    IF i = 0 THEN groups ELSE ExpandIn(f[i - 1], order[i])]
  <2>1. \E f : IsDone(f, order, groups, Len(order))
    BY DoneExists
  <2>2. QED
    BY <2>1 DEF IsDone
<1>2. QED
  BY <1>1 DEF Pass, IsDone

LEMMA ResolveDef ==
    ASSUME NEW order, NEW groups
    PROVE  \E f : IsAfter(f, order, groups, MaxPasses) /\ Resolve(order, groups) = f[MaxPasses]
<1>1. \E f : f = [i \in 0 .. MaxPasses |-> IF i = 0 THEN groups ELSE Pass(order, f[i - 1])]
  <2>1. \E f : IsAfter(f, order, groups, MaxPasses)
    BY AfterExists, ConfigAssumption
  <2>2. QED
    BY <2>1 DEF IsAfter
<1>2. QED
  BY <1>1 DEF Resolve, IsAfter

LEMMA SpanDef ==
    \E f : IsSpan(f, MaxPasses) /\ Span = f[MaxPasses]
<1>1. \E f : f = [i \in 0 .. MaxPasses |-> IF i = 0 THEN 1 ELSE 2 * f[i - 1]]
  BY SpanExists, ConfigAssumption DEF IsSpan
<1>2. QED
  BY <1>1 DEF Span, IsSpan

LEMMA ReachableDef ==
    ASSUME NEW groups, Cardinality(DOMAIN groups) \in Nat
    PROVE  \E f : /\ IsReach(f, groups, Cardinality(DOMAIN groups))
                 /\ Reachable(groups) = f[Cardinality(DOMAIN groups)]
<1> DEFINE N == Cardinality(DOMAIN groups)
<1>1. \E f : f = [i \in 0 .. N |->
                    IF i = 0 THEN {"HOME_NET"} \cap DOMAIN groups
                    ELSE f[i - 1] \cup UNION {groups[g].refs \cap DOMAIN groups : g \in f[i - 1]}]
  <2>1. \E f : IsReach(f, groups, N)
    BY ReachExists
  <2>2. QED
    BY <2>1 DEF IsReach, Start, Wider
<1>2. QED
  BY <1>1 DEF Reachable, IsReach, Start, Wider

-----------------------------------------------------------------------------
\* What a group's new text has of its old one and of the texts it refers to, and no more.
LEMMA ExpandTakes ==
    ASSUME NEW v, NEW gs
    PROVE  LET e == Expand(v, gs)
           IN /\ v.nets \subseteq e.nets
              /\ \A r \in v.refs \cap DOMAIN gs :
                    gs[r].nets \subseteq e.nets /\ gs[r].refs \subseteq e.refs
              /\ \A x \in e.nets : x \in v.nets
                                  \/ \E r \in v.refs \cap DOMAIN gs : x \in gs[r].nets
              /\ \A x \in e.refs : x \notin DOMAIN gs
                                  \/ \E r \in v.refs \cap DOMAIN gs : x \in gs[r].refs
BY DEF Expand, Value

\* Only the text of g changes.
LEMMA ExpandInDef ==
    ASSUME NEW gs, NEW g
    PROVE  /\ DOMAIN ExpandIn(gs, g) = DOMAIN gs
           /\ \A h \in DOMAIN gs : ExpandIn(gs, g)[h] = IF h = g THEN Expand(gs[h], gs) ELSE gs[h]
BY DEF ExpandIn

\* A chain of references from HOME_NET.
IsPath(p, d, groups) ==
    /\ d \in Nat
    /\ p \in [0 .. d -> DOMAIN groups]
    /\ p[0] = "HOME_NET"
    /\ \A i \in 0 .. d - 1 : p[i + 1] \in groups[p[i]].refs

\* The i-th group of the path has the networks of the last one, or it refers to a group at
\* least s further along.
Sees(gs, groups, p, d, i, s) ==
    \/ groups[p[d]].nets \subseteq gs[p[i]].nets
    \/ \E j \in i + s .. d : p[j] \in gs[p[i]].refs

\* The texts gs, made from groups, lead nowhere but to the groups in S and have no other
\* networks than these.
Within(gs, groups, S) ==
    \A g \in S : /\ gs[g].refs \cap DOMAIN groups \subseteq S
                 /\ gs[g].nets \subseteq UNION {groups[h].nets : h \in S}

\* What the passes keep, s being the distance they have made.
PassInv(gs, groups, S, p, d, s) ==
    /\ DOMAIN gs = DOMAIN groups
    /\ Within(gs, groups, S)
    /\ \A i \in 0 .. d : Sees(gs, groups, p, d, i, s)

\* A larger distance is a smaller one too.
LEMMA SeesLess ==
    ASSUME NEW gs, NEW groups, NEW p, NEW d \in Nat, NEW i \in 0 .. d, NEW s \in Nat,
           Sees(gs, groups, p, d, i, 2 * s)
    PROVE  Sees(gs, groups, p, d, i, s)
<1>1. i + 2 * s .. d \subseteq i + s .. d
  OBVIOUS
<1>2. QED
  BY <1>1 DEF Sees

\* One turn keeps the invariant and doubles the distance of its group.
LEMMA TurnKeeps ==
    ASSUME NEW gs, NEW groups, NEW S \in SUBSET DOMAIN groups, NEW p, NEW d, IsPath(p, d, groups),
           NEW s \in Nat, NEW t \in Nat, t = 2 * s, PassInv(gs, groups, S, p, d, s), NEW g
    PROVE  /\ PassInv(ExpandIn(gs, g), groups, S, p, d, s)
           /\ \A i \in 0 .. d : p[i] = g => Sees(ExpandIn(gs, g), groups, p, d, i, t)
<1> DEFINE new == ExpandIn(gs, g)
           e == Expand(gs[g], gs)
           G == DOMAIN groups
<1>1. /\ DOMAIN new = G /\ DOMAIN gs = G
      /\ \A h \in G : new[h] = IF h = g THEN e ELSE gs[h]
  BY ExpandInDef DEF PassInv
<1>2. d \in Nat /\ \A i \in 0 .. d : p[i] \in G
  BY DEF IsPath
<1> HIDE DEF new, e, G
<1>3. /\ gs[g].nets \subseteq e.nets
      /\ \A r \in gs[g].refs \cap G : gs[r].nets \subseteq e.nets /\ gs[r].refs \subseteq e.refs
      /\ \A x \in e.nets : x \in gs[g].nets \/ \E r \in gs[g].refs \cap G : x \in gs[r].nets
      /\ \A x \in e.refs : x \notin G \/ \E r \in gs[g].refs \cap G : x \in gs[r].refs
  BY <1>1, ExpandTakes DEF e
<1>4. ASSUME NEW i \in 0 .. d, p[i] = g
      PROVE  Sees(new, groups, p, d, i, t)
  <2>1. new[p[i]] = e
    BY <1>1, <1>2, <1>4
  <2>2. CASE groups[p[d]].nets \subseteq gs[p[i]].nets
    BY <1>3, <1>4, <2>1, <2>2 DEF Sees
  <2>3. CASE \E j \in i + s .. d : p[j] \in gs[p[i]].refs
    <3>1. PICK j \in i + s .. d : p[j] \in gs[p[i]].refs
      BY <2>3
    <3>2. j \in 0 .. d /\ p[j] \in gs[g].refs \cap G
      BY <1>2, <1>4, <3>1
    <3>3. Sees(gs, groups, p, d, j, s)
      BY <3>2 DEF PassInv
    <3>4. j + s .. d \subseteq i + 2 * s .. d
      BY <1>2, <3>1
    <3>5. QED
      BY <1>3, <2>1, <3>2, <3>3, <3>4 DEF Sees
  <2>4. Sees(gs, groups, p, d, i, s)
    BY DEF PassInv
  <2>5. QED
    BY <2>2, <2>3, <2>4 DEF Sees
<1>5. ASSUME NEW i \in 0 .. d, p[i] # g
      PROVE  new[p[i]] = gs[p[i]]
  BY <1>1, <1>2, <1>5
<1>6. ASSUME NEW i \in 0 .. d
      PROVE  Sees(new, groups, p, d, i, s)
  <2>1. CASE p[i] = g
    BY <1>2, <1>4, <2>1, SeesLess
  <2>2. CASE p[i] # g
    BY <1>5, <2>2 DEF PassInv, Sees
  <2>3. QED
    BY <2>1, <2>2
<1>7. Within(new, groups, S)
  <2> DEFINE M == UNION {groups[h].nets : h \in S}
  <2>1. \A h \in S : h \in G /\ gs[h].refs \cap G \subseteq S /\ gs[h].nets \subseteq M
    BY DEF PassInv, Within, G
  <2> HIDE DEF M
  <2>2. ASSUME NEW h \in S
        PROVE  new[h].refs \cap G \subseteq S /\ new[h].nets \subseteq M
    <3>1. CASE h # g
      BY <1>1, <2>1, <3>1
    <3>2. CASE h = g
      <4>1. new[h] = e /\ gs[g].refs \cap G \subseteq S /\ gs[g].nets \subseteq M
        BY <1>1, <2>1, <3>2
      <4>2. e.nets \subseteq M
        BY <1>3, <2>1, <4>1
      <4>3. e.refs \cap G \subseteq S
        BY <1>3, <2>1, <4>1
      <4>4. QED
        BY <4>1, <4>2, <4>3
    <3>3. QED
      BY <3>1, <3>2
  <2>3. QED
    BY <2>2 DEF Within, G, M
<1>8. QED
  BY <1>1, <1>4, <1>6, <1>7 DEF PassInv, new, G

\* A pass over all the groups doubles the distance of all of them.
LEMMA PassDoubles ==
    ASSUME NEW gs, NEW groups, NEW S \in SUBSET DOMAIN groups, NEW p, NEW d, IsPath(p, d, groups),
           NEW s \in Nat, NEW t \in Nat, t = 2 * s, PassInv(gs, groups, S, p, d, s),
           NEW order, order \in Seq(ToSet(order)), DOMAIN groups \subseteq ToSet(order)
    PROVE  PassInv(Pass(order, gs), groups, S, p, d, t)
<1> DEFINE L == Len(order)
<1>1. L \in Nat /\ ToSet(order) = {order[k] : k \in 1 .. L}
  BY DEF ToSet
<1>2. PICK f : IsDone(f, order, gs, L) /\ Pass(order, gs) = f[L]
  BY <1>1, PassDef
<1>3. d \in Nat /\ \A i \in 0 .. d : p[i] \in DOMAIN groups
  BY DEF IsPath
<1> DEFINE Doubled(n) == /\ PassInv(f[n], groups, S, p, d, s)
                         /\ \A i \in 0 .. d : (\E k \in 1 .. n : p[i] = order[k])
                                               => Sees(f[n], groups, p, d, i, t)
           T == {n \in Nat : n <= L => Doubled(n)}
<1> HIDE DEF L
<1>4. f[0] = gs /\ \A n \in 0 .. L - 1 : f[n + 1] = ExpandIn(f[n], order[n + 1])
  <2>1. \A i \in 0 .. L : f[i] = IF i = 0 THEN gs ELSE ExpandIn(f[i - 1], order[i])
    BY <1>2 DEF IsDone
  <2>2. QED
    BY <1>1, <2>1
<1>5. Doubled(0)
  BY <1>4
<1>6. ASSUME NEW n \in Nat, n + 1 <= L, Doubled(n)
      PROVE  Doubled(n + 1)
  <2> DEFINE g == order[n + 1]
  <2>1. f[n + 1] = ExpandIn(f[n], g)
    BY <1>1, <1>4, <1>6
  <2>2. /\ PassInv(f[n + 1], groups, S, p, d, s)
        /\ \A i \in 0 .. d : p[i] = g => Sees(f[n + 1], groups, p, d, i, t)
    <3>1. PassInv(f[n], groups, S, p, d, s)
      BY <1>6
    <3>2. PassInv(ExpandIn(f[n], g), groups, S, p, d, s)
      BY <3>1, TurnKeeps
    <3>3. \A i \in 0 .. d : p[i] = g => Sees(ExpandIn(f[n], g), groups, p, d, i, t)
      BY <3>1, TurnKeeps
    <3>4. QED
      BY <2>1, <3>2, <3>3
  <2>3. ASSUME NEW i \in 0 .. d, NEW k \in 1 .. n + 1, p[i] = order[k]
        PROVE  Sees(f[n + 1], groups, p, d, i, t)
    <3>1. CASE p[i] = g
      BY <2>2, <3>1
    <3>2. CASE p[i] # g
      <4>1. k \in 1 .. n
        BY <2>3, <3>2
      <4>2. Sees(f[n], groups, p, d, i, t)
        BY <1>6, <2>3, <4>1
      <4>3. f[n + 1][p[i]] = f[n][p[i]]
        BY <1>3, <1>6, <2>1, <3>2, ExpandInDef DEF PassInv
      <4>4. QED
        BY <4>2, <4>3 DEF Sees
    <3>3. QED
      BY <3>1, <3>2
  <2>4. QED
    BY <2>2, <2>3
<1>7. Doubled(L)
  <2> HIDE DEF Doubled
  <2>1. 0 \in T
    BY <1>5
  <2>2. \A n \in Nat : n \in T => n + 1 \in T
    BY <1>1, <1>6
  <2>3. L \in T
    <3> HIDE DEF T
    <3>1. QED
      BY <1>1, <2>1, <2>2, SetInduction
  <2>4. QED
    BY <1>1, <2>3
<1>8. \A i \in 0 .. d : \E k \in 1 .. L : p[i] = order[k]
  BY <1>1, <1>3
<1>9. QED
  BY <1>2, <1>7, <1>8 DEF PassInv

\* After all of them the texts look Span further along.
LEMMA PassesReachSpan ==
    ASSUME NEW groups, NEW S \in SUBSET DOMAIN groups, NEW p, NEW d, IsPath(p, d, groups),
           PassInv(groups, groups, S, p, d, 1),
           NEW order, order \in Seq(ToSet(order)), DOMAIN groups \subseteq ToSet(order)
    PROVE  /\ Span \in Nat
           /\ PassInv(Resolve(order, groups), groups, S, p, d, Span)
<1>1. MaxPasses \in Nat
  BY ConfigAssumption
<1>2. PICK f : IsAfter(f, order, groups, MaxPasses) /\ Resolve(order, groups) = f[MaxPasses]
  BY ResolveDef
<1>3. PICK h : IsSpan(h, MaxPasses) /\ Span = h[MaxPasses]
  BY SpanDef
<1> DEFINE Good(n) == h[n] \in Nat /\ PassInv(f[n], groups, S, p, d, h[n])
           T == {n \in Nat : n <= MaxPasses => Good(n)}
<1>4. f[0] = groups /\ \A n \in 0 .. MaxPasses - 1 : f[n + 1] = Pass(order, f[n])
  <2>1. \A i \in 0 .. MaxPasses : f[i] = IF i = 0 THEN groups ELSE Pass(order, f[i - 1])
    BY <1>2 DEF IsAfter
  <2>2. QED
    BY <1>1, <2>1
<1>5. h[0] = 1 /\ \A n \in 0 .. MaxPasses - 1 : h[n + 1] = 2 * h[n]
  <2>1. \A i \in 0 .. MaxPasses : h[i] = IF i = 0 THEN 1 ELSE 2 * h[i - 1]
    BY <1>3 DEF IsSpan
  <2>2. QED
    BY <1>1, <2>1
<1>6. Good(0)
  BY <1>4, <1>5
<1>7. ASSUME NEW n \in Nat, n + 1 <= MaxPasses, Good(n)
      PROVE  Good(n + 1)
  <2>1. n \in 0 .. MaxPasses - 1
    BY <1>1, <1>7
  <2>2. f[n + 1] = Pass(order, f[n]) /\ h[n + 1] = 2 * h[n]
    BY <1>4, <1>5, <2>1
  <2>3. PassInv(Pass(order, f[n]), groups, S, p, d, 2 * h[n])
    BY <1>7, PassDoubles
  <2>4. QED
    BY <1>7, <2>2, <2>3
<1>8. Good(MaxPasses)
  <2> HIDE DEF Good
  <2>1. 0 \in T
    BY <1>6
  <2>2. \A n \in Nat : n \in T => n + 1 \in T
    BY <1>1, <1>7
  <2>3. MaxPasses \in T
    <3> HIDE DEF T
    <3>1. QED
      BY <1>1, <2>1, <2>2, SetInduction
  <2>4. QED
    BY <1>1, <2>3
<1>9. QED
  BY <1>2, <1>3, <1>8

-----------------------------------------------------------------------------
\* No group of S refers to one outside it.
Closed(groups, S) == \A g \in S : groups[g].refs \cap DOMAIN groups \subseteq S

\* The steps of Reachable's function.
LEMMA ReachSteps ==
    ASSUME NEW groups, NEW N \in Nat, NEW f, IsReach(f, groups, N)
    PROVE  /\ f[0] = Start(groups)
           /\ \A n \in 0 .. N - 1 : f[n + 1] = Wider(groups, f[n])
<1>1. \A i \in 0 .. N : f[i] = IF i = 0 THEN Start(groups) ELSE Wider(groups, f[i - 1])
  BY DEF IsReach
<1>2. QED
  BY <1>1

\* Every group it has after n steps is at the end of a path of at most n references.
LEMMA ReachByPath ==
    ASSUME NEW groups, NEW N \in Nat, NEW f, IsReach(f, groups, N)
    PROVE  \A h \in f[N] : \E d \in 0 .. N : \E p : IsPath(p, d, groups) /\ p[d] = h
<1> DEFINE Paths(n) == \A h \in f[n] : \E d \in 0 .. n : \E p : IsPath(p, d, groups) /\ p[d] = h
           T == {n \in Nat : n <= N => Paths(n)}
<1>1. f[0] = Start(groups) /\ \A n \in 0 .. N - 1 : f[n + 1] = Wider(groups, f[n])
  BY ReachSteps
<1>2. Paths(0)
  <2>1. SUFFICES ASSUME NEW h \in f[0]
                 PROVE  \E d \in 0 .. 0 : \E p : IsPath(p, d, groups) /\ p[d] = h
    OBVIOUS
  <2>2. h = "HOME_NET" /\ h \in DOMAIN groups
    BY <1>1, <2>1 DEF Start
  <2>3. IsPath([i \in 0 .. 0 |-> h], 0, groups)
    BY <2>2 DEF IsPath
  <2>4. QED
    BY <2>3
<1>3. ASSUME NEW n \in Nat, n + 1 <= N, Paths(n)
      PROVE  Paths(n + 1)
  <2>1. SUFFICES ASSUME NEW h \in f[n + 1]
                 PROVE  \E d \in 0 .. n + 1 : \E p : IsPath(p, d, groups) /\ p[d] = h
    OBVIOUS
  <2>2. f[n + 1] = Wider(groups, f[n])
    BY <1>1, <1>3
  <2>3. CASE h \in f[n]
    BY <1>3, <2>3
  <2>4. CASE h \notin f[n]
    <3>1. PICK g \in f[n] : h \in groups[g].refs \cap DOMAIN groups
      BY <2>1, <2>2, <2>4 DEF Wider
    <3>2. PICK d \in 0 .. n : \E p : IsPath(p, d, groups) /\ p[d] = g
      BY <1>3, <3>1
    <3>3. PICK p : IsPath(p, d, groups) /\ p[d] = g
      BY <3>2
    <3> DEFINE q == [i \in 0 .. d + 1 |-> IF i = d + 1 THEN h ELSE p[i]]
    <3>4. /\ d \in Nat /\ p \in [0 .. d -> DOMAIN groups] /\ p[0] = "HOME_NET"
          /\ \A i \in 0 .. d - 1 : p[i + 1] \in groups[p[i]].refs
      BY <3>3 DEF IsPath
    <3>5. q \in [0 .. d + 1 -> DOMAIN groups] /\ q[0] = "HOME_NET" /\ q[d + 1] = h
      BY <3>1, <3>4
    <3>6. ASSUME NEW i \in 0 .. (d + 1) - 1
          PROVE  q[i + 1] \in groups[q[i]].refs
      <4>1. CASE i = d
        BY <3>1, <3>3, <3>4, <4>1
      <4>2. CASE i # d
        <5>1. i \in 0 .. d - 1 /\ q[i] = p[i] /\ q[i + 1] = p[i + 1]
          BY <3>4, <4>2
        <5>2. QED
          BY <3>4, <5>1
      <4>3. QED
        BY <4>1, <4>2
    <3>7. IsPath(q, d + 1, groups)
      BY <3>4, <3>5, <3>6 DEF IsPath
    <3>8. QED
      BY <3>2, <3>5, <3>7
  <2>5. QED
    BY <2>3, <2>4
<1>4. Paths(N)
  <2> HIDE DEF Paths
  <2>1. 0 \in T
    BY <1>2
  <2>2. \A n \in Nat : n \in T => n + 1 \in T
    BY <1>3
  <2>3. N \in T
    <3> HIDE DEF T
    <3>1. QED
      BY <2>1, <2>2, SetInduction
  <2>4. QED
    BY <2>3
<1>5. QED
  BY <1>4

\* It stops growing before it has taken more steps than there are groups.
LEMMA ReachCloses ==
    ASSUME NEW groups, IsFiniteSet(DOMAIN groups), "HOME_NET" \in DOMAIN groups,
           NEW f, IsReach(f, groups, Cardinality(DOMAIN groups))
    PROVE  LET S == f[Cardinality(DOMAIN groups)]
           IN "HOME_NET" \in S /\ S \subseteq DOMAIN groups /\ Closed(groups, S)
<1> DEFINE G == DOMAIN groups
           N == Cardinality(G)
           Grown(n) == /\ "HOME_NET" \in f[n] /\ f[n] \subseteq G
                       /\ Closed(groups, f[n]) \/ Cardinality(f[n]) >= n + 1
           T == {n \in Nat : n <= N => Grown(n)}
<1>1. N \in Nat /\ \A S \in SUBSET G : IsFiniteSet(S) /\ Cardinality(S) \in Nat /\ Cardinality(S) <= N
  BY FS_CardinalityType, FS_Subset
<1>2. f[0] = Start(groups) /\ \A n \in 0 .. N - 1 : f[n + 1] = Wider(groups, f[n])
  BY <1>1, ReachSteps
<1>3. Grown(0)
  <2>1. f[0] = {"HOME_NET"}
    BY <1>2 DEF Start
  <2>2. Cardinality(f[0]) = 1
    BY <2>1, FS_Singleton
  <2>3. QED
    BY <2>1, <2>2
<1>4. ASSUME NEW n \in Nat, n + 1 <= N, Grown(n)
      PROVE  Grown(n + 1)
  <2>1. f[n + 1] = Wider(groups, f[n])
    BY <1>1, <1>2, <1>4
  <2>2. f[n] \subseteq f[n + 1] /\ f[n + 1] \subseteq G
    BY <1>4, <2>1 DEF Wider
  <2>3. CASE Closed(groups, f[n])
    <3>1. f[n + 1] = f[n]
      BY <2>1, <2>3 DEF Wider, Closed
    <3>2. QED
      BY <1>4, <2>3, <3>1
  <2>4. CASE ~Closed(groups, f[n])
    <3>1. f[n] # f[n + 1]
      BY <2>1, <2>4 DEF Wider, Closed
    <3>2. /\ IsFiniteSet(f[n + 1])
          /\ Cardinality(f[n]) \in Nat /\ Cardinality(f[n + 1]) \in Nat
      BY <1>1, <1>4, <2>2
    <3>3. Cardinality(f[n]) < Cardinality(f[n + 1])
      BY <2>2, <3>1, <3>2, FS_Subset
    <3>4. QED
      BY <1>4, <2>2, <2>4, <3>2, <3>3
  <2>5. QED
    BY <2>3, <2>4
<1>5. Grown(N)
  <2> HIDE DEF Grown, N
  <2>1. 0 \in T
    BY <1>3
  <2>2. \A n \in Nat : n \in T => n + 1 \in T
    BY <1>1, <1>4
  <2>3. N \in T
    <3> HIDE DEF T
    <3>1. QED
      BY <1>1, <2>1, <2>2, SetInduction
  <2>4. QED
    BY <1>1, <2>3
<1>6. QED
  BY <1>1, <1>5

\* What Resolve gives HOME_NET is what the groups it reaches have, all of it and no more.
LEMMA ResolveComplete ==
    ASSUME NEW groups, IsFiniteSet(DOMAIN groups), Cardinality(DOMAIN groups) < Span,
           "HOME_NET" \in DOMAIN groups,
           NEW order, order \in Seq(ToSet(order)), DOMAIN groups \subseteq ToSet(order)
    PROVE  Resolve(order, groups)["HOME_NET"].nets
             = UNION {groups[g].nets : g \in Reachable(groups)}
<1> DEFINE N == Cardinality(DOMAIN groups)
           S == Reachable(groups)
           home == Resolve(order, groups)["HOME_NET"].nets
<1>1. N \in Nat
  BY FS_CardinalityType
<1>2. PICK f : IsReach(f, groups, N) /\ S = f[N]
  BY <1>1, ReachableDef
<1>3. "HOME_NET" \in S /\ S \subseteq DOMAIN groups /\ Closed(groups, S)
  BY <1>2, ReachCloses
<1> HIDE DEF S
<1>4. Within(groups, groups, S)
  BY <1>3 DEF Within, Closed
<1>5. ASSUME NEW p, NEW d, IsPath(p, d, groups)
      PROVE  /\ Span \in Nat
             /\ PassInv(Resolve(order, groups), groups, S, p, d, Span)
  <2>1. ASSUME NEW i \in 0 .. d
        PROVE  Sees(groups, groups, p, d, i, 1)
    <3>1. d \in Nat /\ \A k \in 0 .. d - 1 : p[k + 1] \in groups[p[k]].refs
      BY <1>5 DEF IsPath
    <3>2. CASE i = d
      BY <3>2 DEF Sees
    <3>3. CASE i # d
      <4>1. i \in 0 .. d - 1 /\ i + 1 \in i + 1 .. d
        BY <3>1, <3>3
      <4>2. QED
        BY <3>1, <4>1 DEF Sees
    <3>4. QED
      BY <3>2, <3>3
  <2>2. PassInv(groups, groups, S, p, d, 1)
    BY <1>4, <2>1 DEF PassInv
  <2>3. QED
    BY <1>3, <1>5, <2>2, PassesReachSpan
<1>6. home \subseteq UNION {groups[g].nets : g \in S}
  <2>1. IsPath([i \in 0 .. 0 |-> "HOME_NET"], 0, groups)
    BY DEF IsPath
  <2>2. Within(Resolve(order, groups), groups, S)
    BY <1>5, <2>1 DEF PassInv
  <2>3. QED
    BY <1>3, <2>2 DEF Within
<1>7. ASSUME NEW g \in S
      PROVE  groups[g].nets \subseteq home
  <2>1. PICK d \in 0 .. N : \E p : IsPath(p, d, groups) /\ p[d] = g
    BY <1>1, <1>2, ReachByPath
  <2>2. PICK p : IsPath(p, d, groups) /\ p[d] = g
    BY <2>1
  <2>3. d \in Nat /\ p[0] = "HOME_NET" /\ 0 \in 0 .. d
    BY <2>2 DEF IsPath
  <2>4. Span \in Nat /\ Sees(Resolve(order, groups), groups, p, d, 0, Span)
    BY <1>5, <2>2, <2>3 DEF PassInv
  <2>5. 0 + Span .. d = {}
    BY <1>1, <2>1, <2>4
  <2>6. QED
    BY <2>2, <2>3, <2>4, <2>5 DEF Sees
<1>8. QED
  BY <1>6, <1>7 DEF S

\* Without a HOME_NET nothing is reached.
LEMMA NothingReached ==
    ASSUME NEW groups, IsFiniteSet(DOMAIN groups), "HOME_NET" \notin DOMAIN groups
    PROVE  Reachable(groups) = {}
<1> DEFINE N == Cardinality(DOMAIN groups)
<1>1. N \in Nat
  BY FS_CardinalityType
<1>2. PICK f : IsReach(f, groups, N) /\ Reachable(groups) = f[N]
  BY <1>1, ReachableDef
<1> DEFINE T == {n \in Nat : n <= N => f[n] = {}}
<1>3. f[0] = Start(groups) /\ \A n \in 0 .. N - 1 : f[n + 1] = Wider(groups, f[n])
  BY <1>1, <1>2, ReachSteps
<1> HIDE DEF N
<1>4. 0 \in T
  BY <1>3 DEF Start
<1>5. \A n \in Nat : n \in T => n + 1 \in T
  BY <1>1, <1>3 DEF Wider
<1>6. N \in T
  <2> HIDE DEF T
  <2>1. QED
    BY <1>1, <1>4, <1>5, SetInduction
<1>7. QED
  BY <1>1, <1>2, <1>6

\* The merged file of a configuration, and the networks it means by HOME_NET.
Loaded(config) == Load(config.files)["suricata.yaml"]

Meant(config) ==
    UNION {Loaded(config).groups[g].nets : g \in Reachable(Loaded(config).groups)}

\* read_config returns these networks, and refuses only if there are none.
LEMMA ReadsMeant ==
    ASSUME NEW config, IsConfig(config)
    PROVE  LET r == read_config(config)
           IN /\ r.ok => ~Loaded(config).error /\ r.home_net = Meant(config)
              /\ ~r.ok => Loaded(config).error \/ Meant(config) = {}
<1> DEFINE loaded == Loaded(config)
           G == DOMAIN loaded.groups
           nets == Resolve(config.order, loaded.groups)["HOME_NET"].nets
           r == read_config(config)
<1>1. r = IF loaded.error THEN Refused
          ELSE IF "HOME_NET" \notin G THEN Refused
          ELSE IF nets = {} THEN Refused
          ELSE [ok |-> TRUE, home_net |-> nets]
  BY DEF read_config, Loaded
<1>2. ~loaded.error => /\ config.order \in Seq(ToSet(config.order))
                       /\ G \subseteq ToSet(config.order)
                       /\ IsFiniteSet(G)
                       /\ Cardinality(G) < Span
  BY DEF IsConfig, Loaded
<1> HIDE DEF r, loaded
<1>3. CASE loaded.error
  BY <1>1, <1>3 DEF Refused, r, loaded
<1>4. CASE ~loaded.error /\ "HOME_NET" \notin G
  <2>1. Reachable(loaded.groups) = {}
    BY <1>2, <1>4, NothingReached
  <2>2. Meant(config) = {}
    BY <2>1 DEF Meant, loaded
  <2>3. ~r.ok
    BY <1>1, <1>4 DEF Refused
  <2>4. QED
    BY <2>2, <2>3 DEF r
<1>5. CASE ~loaded.error /\ "HOME_NET" \in G
  <2>1. nets = Meant(config)
    BY <1>2, <1>5, ResolveComplete DEF Meant, loaded
  <2>2. IF nets = {} THEN ~r.ok ELSE r.ok /\ r.home_net = nets
    BY <1>1, <1>5 DEF Refused
  <2>3. QED
    BY <1>5, <2>1, <2>2 DEF r, loaded
<1>6. QED
  BY <1>3, <1>4, <1>5

-----------------------------------------------------------------------------
\* Roles that have been assigned are such roles, under the HOME_NET of the process.
RoleInv ==
    role # Null =>
        /\ job.alert.target \notin {"src_ip", "dest_ip"} => Blames(job.alert, role)
        /\ NamesClient(job.alert) => role.victim = InsideEnd(job.alert)

\* The stages before the lookups start.
Before == {"start", "blocked", "read", "assign", "identity"}

\* A call of the LLM that carried the whole context.
CallRecord == [prompt : [context : {build_enrichment_context}, correction : BOOLEAN],
               outcome : CallOutcome]

\* RetryDiscipline, and what it rests on: the calls so far all failed in a way that is
\* retried while another is to come, and there is room for that one.
CallsInv ==
    /\ apc \in Before \cup {"enrich"} => calls = <<>>
    /\ calls \in Seq(CallRecord)
    /\ Len(calls) <= MaxAttempts
    /\ apc = "llm" => Len(calls) < MaxAttempts
    /\ \A n \in 1 .. Len(calls) :
         n < Len(calls) \/ apc = "llm" => calls[n].outcome \in Invalid \cup Transient
    /\ \A n \in 1 .. Len(calls) :
         calls[n].prompt.correction <=> n > 1 /\ calls[n - 1].outcome \in Invalid
    /\ apc = "failed" =>
         calls # <<>> /\ (Len(calls) = MaxAttempts \/ calls[Len(calls)].outcome \in Final)

\* Both identities are settled before the lookups start, and an identity is left out
\* exactly for an endpoint outside HOME_NET.
IdentityInv ==
    /\ identity \in [Sides -> {"pending", "asking", "none", "named", "unnamed", "lost"}]
    /\ apc \in {"start", "blocked", "read", "assign"} => \A s \in Sides : identity[s] = "pending"
    /\ apc \notin Before => \A s \in Sides : identity[s] \notin {"pending", "asking"}
    /\ "revdns" \in job.configured =>
         \A s \in Sides :
            /\ identity[s] = "none" => ~Internal(Endpoint(s))
            /\ ~Internal(Endpoint(s)) => identity[s] \in {"pending", "none"}

\* The sources _enrich_one asks about the i-th indicator.
Applies(i, s) ==
    /\ i \in DOMAIN indicators
    /\ IF indicators[i].type = "ip"
       THEN s = "geoip" \/ (s = "virustotal" /\ IsPublicIp(indicators[i].value))
       ELSE s \in {"virustotal", "rdap"}

\* VirusTotal is asked about an address after GeoIP has answered.
Awaits(i, s) ==
    s = "virustotal" /\ indicators[i].type = "ip" /\ <<i, "geoip">> \in open

\* Every lookup that applies has ended, is open, or waits for GeoIP, and is one of the
\* three only: none is forgotten and none is made twice.
LookupsInv ==
    /\ apc \in Before => open = {} /\ DOMAIN ledger = {} /\ sent = {}
    /\ apc \notin Before \cup {"enrich"} => open = {}
    /\ \A l \in open \cup DOMAIN ledger : l = <<l[1], l[2]>> /\ Applies(l[1], l[2])
    /\ \A l \in open : l \notin DOMAIN ledger
    /\ apc \notin Before =>
         \A i \in DOMAIN indicators : \A s \in Sources :
            Applies(i, s) => (<<i, s>> \in open \cup DOMAIN ledger <=> ~Awaits(i, s))

\* What has left the process is among the indicators, and an address only if it is
\* routable and not in HOME_NET.
AddressesOutside ==
    \A s \in sent : /\ s[2] \in ToSet(indicators)
                    /\ s[2].type = "ip" => IsPublicIp(s[2].value)

\* The name of the i-th event that was read is an indicator, or there is a reason why not.
Accounted(i) ==
    \/ DomainOf(seen[i]) \in Unfit \cup Literals \cup Domains(indicators)
    \/ InternalDomain(seen, i)
    \/ /\ Cardinality(Domains(indicators)) = MaxDomains
       /\ \A d \in Domains(indicators) : \E k \in 1 .. i - 1 : DomainOf(seen[k]) = d

\* The indicators are what the events that were read give: ExtractedNames, kept.
NamesInv ==
    /\ seen \in {<<>>, job.events}
    /\ apc \notin Before =>
         /\ \E V : indicators \in Seq(V)
         /\ \A ind \in ToSet(indicators) : ind.type \in {"ip", "domain"}
         /\ \A d \in Domains(indicators) : \E m \in DOMAIN seen :
               /\ d = DomainOf(seen[m])
               /\ d \notin Unfit
               /\ ~InternalDomain(seen, m)
         /\ \A i \in DOMAIN seen : Accounted(i)

\* The evidence is what the ledger gives, indicator by indicator.
EvidenceInv ==
    apc \in {"llm", "done", "failed"} =>
        evidence = FlattenSeq([i \in DOMAIN indicators |-> EntriesOf(i)])

\* From its start on the process works with the HOME_NET that the files mean, or it has
\* refused to start.
HomeNetInv ==
    /\ apc \notin {"start", "blocked"} =>
         ~Loaded(job.config).error /\ homeNet = Meant(job.config)
    /\ apc = "blocked" => Loaded(job.config).error \/ Meant(job.config) = {}

\* The inductive invariant.
AnalysisInv ==
    /\ job \in Jobs
    /\ apc \in Before \cup {"enrich", "llm", "done", "failed"}
    /\ apc = "start" => role = Null
    /\ RoleInv
    /\ CallsInv
    /\ IdentityInv
    /\ LookupsInv
    /\ AddressesOutside
    /\ NamesInv
    /\ EvidenceInv
    /\ HomeNetInv

-----------------------------------------------------------------------------
\* Once the process has started, HOME_NET and the job stand still, and only Assign sets
\* the roles.
LEMMA Settled ==
    ASSUME [Next]_vars, ~Startup
    PROVE  /\ homeNet' = homeNet /\ job' = job
           /\ Assign \/ role' = role
           /\ apc' # "start" \/ apc' = apc
<1>1. CASE ReadFlow \/ Assign \/ Extract \/ Gather
  BY <1>1 DEF ReadFlow, Assign, Extract, Gather, Goto
<1>2. CASE \E side \in Sides : \/ ResolveIp(side)
                               \/ \E name \in {"", "host"} : LookupName(side, name)
                               \/ ResolveRaises(side)
  BY <1>2 DEF ResolveIp, LookupName, ResolveRaises, IdentityStep
<1>3. CASE \E l \in open : \E st \in Outcomes(l) : LookupEnds(l, st)
  BY <1>3 DEF LookupEnds
<1>4. CASE \E o \in CallOutcome : LlmCall(o)
  <2>1. PICK o \in CallOutcome : LlmCall(o)
    BY <1>4
  <2>2. /\ homeNet' = homeNet /\ job' = job /\ role' = role
        /\ apc' \in {"done", "llm", "failed"}
    BY <2>1, Zenon DEF LlmCall
  <2>3. QED
    BY <2>2
<1>5. CASE UNCHANGED vars
  BY <1>5 DEF vars
<1>6. QED
  BY <1>1, <1>2, <1>3, <1>4, <1>5 DEF Next

\* Assign is the one step that sets the roles, and HOME_NET is fixed by then.
LEMMA RolesKept ==
    ASSUME AnalysisInv, [Next]_vars
    PROVE  (apc' = "start" => role' = Null) /\ RoleInv'
<1> DEFINE a == job.alert
<1>1. CASE Startup
  <2>1. role' = Null /\ apc' # "start"
    BY <1>1 DEF Startup, AnalysisInv
  <2>2. QED
    BY <2>1 DEF RoleInv
<1>2. CASE Assign
  <2>1. /\ a.target \notin {"src_ip", "dest_ip"} => Blames(a, assign_roles(a))
        /\ NamesClient(a) => assign_roles(a).victim = InsideEnd(a)
    BY RolesBlame, ClientIsInside
  <2>2. /\ homeNet' = homeNet /\ job' = job
        /\ role' = assign_roles(a) /\ apc' # "start"
    BY <1>2 DEF Assign, Goto
  <2>3. /\ a.target \notin {"src_ip", "dest_ip"} => Blames(a, role')
        /\ NamesClient(a) => role'.victim = InsideEnd(a)
    BY <2>1, <2>2
  <2>4. QED
    BY <2>2, <2>3 DEF RoleInv, Blames, Grounded, NamesClient, InsideEnd, Inbound, Outbound, Internal
<1>3. CASE ~Startup /\ ~Assign
  <2>1. /\ homeNet' = homeNet /\ job' = job /\ role' = role
        /\ apc' # "start" \/ apc' = apc
    BY <1>3, Settled
  <2>2. RoleInv'
    BY <2>1 DEF AnalysisInv, RoleInv, Blames, Grounded, NamesClient, InsideEnd, Inbound,
                Outbound, Internal
  <2>3. QED
    BY <2>1, <2>2 DEF AnalysisInv
<1>4. QED
  BY <1>1, <1>2, <1>3

-----------------------------------------------------------------------------
\* A turn of _call_with_retry keeps the discipline; no other step makes a call.
LEMMA CallsKept ==
    ASSUME AnalysisInv, [Next]_vars
    PROVE  CallsInv'
<1> USE DEF Before
<1>1. ASSUME NEW o \in CallOutcome, LlmCall(o)
      PROVE  CallsInv'
  <2> DEFINE call == [prompt |-> NextPrompt, outcome |-> o]
             last == Len(calls) + 1
  <2>1. /\ apc = "llm" /\ calls' = Append(calls, call)
        /\ evidence' = evidence
        /\ apc' \in {"done", "llm", "failed"}
    BY <1>1, Zenon DEF LlmCall, lookupVars
  <2>2. /\ apc' = "llm" => o \in Invalid \cup Transient /\ Len(calls') < MaxAttempts
        /\ apc' = "failed" => o \in Final \/ ~(Len(calls') < MaxAttempts)
    BY <1>1 DEF LlmCall, Retryable, CallOutcome
  <2>3. CallRecord' = CallRecord
    BY <2>1 DEF CallRecord, build_enrichment_context
  <2>4. calls \in Seq(CallRecord) /\ call \in CallRecord
    BY DEF AnalysisInv, CallsInv, CallRecord, NextPrompt
  <2>5. /\ calls' \in Seq(CallRecord) /\ Len(calls') = last
        /\ \A n \in 1 .. Len(calls) : calls'[n] = calls[n]
        /\ calls'[last] = call
    BY <2>1, <2>4
  <2>6. call.prompt.correction <=> last > 1 /\ calls[last - 1].outcome \in Invalid
    <3>1. call.prompt.correction <=> calls # <<>> /\ calls[Len(calls)].outcome \in Invalid
      BY Zenon DEF NextPrompt
    <3>2. (calls # <<>> <=> last > 1) /\ last - 1 = Len(calls)
      BY <2>4
    <3>3. QED
      BY <3>1, <3>2
  <2>7. Len(calls) < MaxAttempts /\ MaxAttempts \in Nat
    BY <2>1, AnalysisAssumption DEF AnalysisInv, CallsInv
  <2>8. \A n \in 1 .. last :
          n < last \/ apc' = "llm" => calls'[n].outcome \in Invalid \cup Transient
    BY <2>1, <2>2, <2>4, <2>5 DEF AnalysisInv, CallsInv
  <2>9. ASSUME NEW n \in 1 .. last
        PROVE  calls'[n].prompt.correction <=> n > 1 /\ calls'[n - 1].outcome \in Invalid
    <3>1. CASE n = last
      <4>1. last - 1 \in 1 .. Len(calls) \/ ~(last > 1)
        BY <2>4
      <4>2. QED
        BY <3>1, <4>1, <2>5, <2>6
    <3>2. CASE n # last
      <4>1. n \in 1 .. Len(calls) /\ (n > 1 => n - 1 \in 1 .. Len(calls))
        BY <3>2, <2>4
      <4>2. QED
        BY <4>1, <2>5 DEF AnalysisInv, CallsInv
    <3>3. QED
      BY <3>1, <3>2
  <2>10. apc' = "failed" => Len(calls') = MaxAttempts \/ calls'[last].outcome \in Final
    BY <2>2, <2>4, <2>5, <2>7
  <2>11. calls' # <<>>
    BY <2>4, <2>5
  <2>12. QED
    BY <2>1, <2>2, <2>3, <2>4, <2>5, <2>7, <2>8, <2>9, <2>10, <2>11 DEF CallsInv
<1>2. ASSUME apc \in Before \cup {"enrich"}, calls' = calls,
             apc' \in Before \cup {"enrich", "llm"}
      PROVE  CallsInv'
  <2>1. calls' = <<>> /\ Len(<<>>) = 0
    BY <1>2 DEF AnalysisInv, CallsInv
  <2>2. QED
    BY <1>2, <2>1, AnalysisAssumption DEF CallsInv
<1>3. CASE UNCHANGED vars
  BY <1>3 DEF AnalysisInv, CallsInv, vars, CallRecord, build_enrichment_context
<1>4. CASE Startup \/ ReadFlow \/ Assign \/ Extract \/ Gather
  BY <1>4, <1>2 DEF Startup, ReadFlow, Assign, Extract, Gather, Goto
<1>5. CASE \E side \in Sides : \/ ResolveIp(side)
                               \/ \E name \in {"", "host"} : LookupName(side, name)
                               \/ ResolveRaises(side)
  BY <1>5, <1>2 DEF ResolveIp, LookupName, ResolveRaises, IdentityStep
<1>6. CASE \E l \in open : \E st \in Outcomes(l) : LookupEnds(l, st)
  BY <1>6, <1>2 DEF LookupEnds
<1>7. QED
  BY <1>1, <1>3, <1>4, <1>5, <1>6 DEF Next

-----------------------------------------------------------------------------
\* The two sides are resolved in any order, and one that raises leaves the other alone.
LEMMA IdentityKept ==
    ASSUME AnalysisInv, [Next]_vars
    PROVE  IdentityInv'
<1> USE DEF Before
<1> DEFINE Stages == {"pending", "asking", "none", "named", "unnamed", "lost"}
<1>1. ASSUME homeNet' = homeNet, job' = job, identity' = identity,
             \/ apc \notin Before /\ apc' \notin Before
             \/ apc \in {"read", "assign"} /\ apc' \in {"assign", "identity"}
             \/ apc = "identity" /\ apc' = "enrich"
                /\ \A s \in Sides : identity[s] \notin {"pending", "asking"}
             \/ apc' = apc
      PROVE  IdentityInv'
  BY <1>1 DEF AnalysisInv, IdentityInv, Internal, Endpoint
<1>2. ASSUME NEW side \in Sides, NEW from \in {"pending", "asking"}, NEW to \in Stages,
             IdentityStep(side, from, to),
             "revdns" \in job.configured => (to = "none" <=> ~Internal(Endpoint(side)))
      PROVE  IdentityInv'
  <2>1. /\ apc = "identity" /\ apc' = "identity" /\ homeNet' = homeNet /\ job' = job
        /\ identity' = [identity EXCEPT ![side] = to]
    BY <1>2 DEF IdentityStep
  <2>2. identity \in [Sides -> Stages]
    BY DEF AnalysisInv, IdentityInv
  <2>3. /\ identity' \in [Sides -> Stages]
        /\ \A s \in Sides : identity'[s] = IF s = side THEN to ELSE identity[s]
    BY <2>1, <2>2
  <2>4. \A s \in Sides : Internal(Endpoint(s))' <=> Internal(Endpoint(s))
    BY <2>1 DEF Internal, Endpoint
  <2>5. QED
    BY <1>2, <2>1, <2>3, <2>4 DEF AnalysisInv, IdentityInv
<1>3. CASE Startup
  <2>1. /\ apc = "start" /\ apc' \in {"read", "blocked"} /\ identity' = identity
    BY <1>3, Zenon DEF Startup, identityVars
  <2>2. QED
    BY <2>1 DEF AnalysisInv, IdentityInv
<1>4. CASE ReadFlow \/ Assign \/ Extract \/ Gather
  BY <1>4, <1>1 DEF ReadFlow, Assign, Extract, Gather, Goto, identityVars
<1>5. CASE \E side \in Sides : \/ ResolveIp(side)
                               \/ \E name \in {"", "host"} : LookupName(side, name)
                               \/ ResolveRaises(side)
  <2>1. PICK side \in Sides : \/ ResolveIp(side)
                              \/ \E name \in {"", "host"} : LookupName(side, name)
                              \/ ResolveRaises(side)
    BY <1>5
  <2>2. CASE ResolveIp(side)
    BY <2>2, <1>2 DEF ResolveIp
  <2>3. CASE \E name \in {"", "host"} : LookupName(side, name)
    <3>1. PICK name \in {"", "host"} : LookupName(side, name)
      BY <2>3
    <3>2. "revdns" \in job.configured => Internal(Endpoint(side))
      BY <3>1 DEF AnalysisInv, IdentityInv, LookupName, IdentityStep
    <3>3. QED
      BY <3>1, <3>2, <1>2 DEF LookupName
  <2>4. CASE ResolveRaises(side)
    BY <2>4, <1>2 DEF ResolveRaises
  <2>5. QED
    BY <2>1, <2>2, <2>3, <2>4
<1>6. CASE \E l \in open : \E st \in Outcomes(l) : LookupEnds(l, st)
  BY <1>6, <1>1 DEF LookupEnds, identityVars
<1>7. CASE \E o \in CallOutcome : LlmCall(o)
  <2>1. PICK o \in CallOutcome : LlmCall(o)
    BY <1>7
  <2>2. /\ homeNet' = homeNet /\ job' = job /\ identity' = identity
        /\ apc = "llm" /\ apc' \in {"done", "llm", "failed"}
    BY <2>1, Zenon DEF LlmCall, identityVars
  <2>3. QED
    BY <2>2, <1>1
<1>8. CASE UNCHANGED vars
  BY <1>8, <1>1 DEF vars, identityVars
<1>9. QED
  BY <1>3, <1>4, <1>5, <1>6, <1>7, <1>8 DEF Next

-----------------------------------------------------------------------------
\* The tasks of _enrich_all start with what FirstLookups gives each indicator.
LEMMA ExtractStarts ==
    ASSUME AnalysisInv, Extract
    PROVE  LookupsInv' /\ AddressesOutside'
<1> USE DEF Before
<1>1. /\ apc = "identity" /\ apc' = "enrich" /\ DOMAIN ledger' = {}
      /\ sent' = Leaving(open', indicators')
  BY DEF Extract, Goto, AnalysisInv, LookupsInv
<1>2. \A l : l \in open' <=>
             \E i \in DOMAIN indicators' : l \in FirstLookups(i, indicators'[i])
  BY DEF Extract
<1>3. \A i, s : <<i, s>> \in open' <=>
             /\ i \in DOMAIN indicators'
             /\ IF indicators'[i].type = "ip" THEN s = "geoip" ELSE s \in {"virustotal", "rdap"}
  BY <1>2 DEF FirstLookups
<1>4. \A l \in open' : l = <<l[1], l[2]>>
  BY <1>2 DEF FirstLookups
<1>5. LookupsInv'
  <2>1. \A l \in open' : Applies(l[1], l[2])'
    BY <1>3, <1>4 DEF Applies
  <2>2. ASSUME NEW i \in DOMAIN indicators', NEW s \in Sources, Applies(i, s)'
        PROVE  <<i, s>> \in open' <=> ~Awaits(i, s)'
    BY <1>3, <2>2 DEF Applies, Awaits, Sources
  <2>3. QED
    BY <1>1, <1>4, <2>1, <2>2 DEF LookupsInv
<1>6. AddressesOutside'
  <2>1. SUFFICES ASSUME NEW s \in sent'
                 PROVE  s[2] \in ToSet(indicators') /\ s[2].type # "ip"
    BY DEF AddressesOutside
  <2>2. PICK l \in open' : l[2] # "geoip" /\ s = <<l[2], indicators'[l[1]]>>
    BY <1>1 DEF Leaving
  <2>3. l[1] \in DOMAIN indicators' /\ indicators'[l[1]].type # "ip"
    BY <1>3, <1>4, <2>2
  <2>4. QED
    BY <2>2, <2>3 DEF ToSet
<1>7. QED
  BY <1>5, <1>6

\* A lookup that ends, well or not, makes way for VirusTotal if it was GeoIP's for a
\* public address, and changes nothing else.
LEMMA LookupEndKeeps ==
    ASSUME AnalysisInv, NEW l \in open, NEW st, LookupEnds(l, st)
    PROVE  LookupsInv' /\ AddressesOutside'
<1> USE DEF Before
<1> DEFINE k == l[1]
           more == NextLookups(l)
<1>1. /\ apc = "enrich" /\ apc' = "enrich"
      /\ homeNet' = homeNet /\ indicators' = indicators
      /\ open' = (open \ {l}) \cup more
      /\ sent' = sent \cup Leaving(more, indicators)
      /\ DOMAIN ledger' = DOMAIN ledger \cup {l}
  BY DEF LookupEnds, Ended
<1>2. /\ l = <<k, l[2]>> /\ Applies(k, l[2])
      /\ l \notin DOMAIN ledger
  BY DEF AnalysisInv, LookupsInv
<1>3. \A i, s : Applies(i, s)' <=> Applies(i, s)
  BY <1>1 DEF Applies, IsPublicIp, Internal
<1>4. \A x \in more : /\ x = <<k, "virustotal">> /\ l[2] = "geoip"
                      /\ indicators[k].type = "ip" /\ IsPublicIp(indicators[k].value)
                      /\ Applies(k, "virustotal") /\ Awaits(k, "virustotal")
                      /\ x \notin open \cup DOMAIN ledger
  <2>1. SUFFICES ASSUME NEW x \in more
                 PROVE  /\ x = <<k, "virustotal">> /\ l[2] = "geoip"
                        /\ indicators[k].type = "ip" /\ IsPublicIp(indicators[k].value)
                        /\ Applies(k, "virustotal") /\ Awaits(k, "virustotal")
                        /\ x \notin open \cup DOMAIN ledger
    OBVIOUS
  <2>2. x = <<k, "virustotal">> /\ l[2] = "geoip" /\ IsPublicIp(indicators[k].value)
    BY <2>1 DEF NextLookups
  <2>3. k \in DOMAIN indicators /\ indicators[k].type = "ip"
    BY <1>2, <2>2 DEF Applies
  <2>4. Applies(k, "virustotal") /\ Awaits(k, "virustotal")
    BY <1>2, <2>2, <2>3 DEF Applies, Awaits
  <2>5. "virustotal" \in Sources
    BY DEF Sources
  <2>6. QED
    BY <1>1, <2>2, <2>3, <2>4, <2>5 DEF AnalysisInv, LookupsInv
<1>5. \A x \in open' \cup DOMAIN ledger' : x = <<x[1], x[2]>> /\ Applies(x[1], x[2])'
  BY <1>1, <1>2, <1>3, <1>4 DEF AnalysisInv, LookupsInv
<1>6. \A x \in open' : x \notin DOMAIN ledger'
  BY <1>1, <1>2, <1>4 DEF AnalysisInv, LookupsInv
<1>7. ASSUME NEW i \in DOMAIN indicators, NEW s \in Sources, Applies(i, s)
      PROVE  <<i, s>> \in open' \cup DOMAIN ledger' <=> ~Awaits(i, s)'
  <2>1. <<i, s>> \in open \cup DOMAIN ledger <=> ~Awaits(i, s)
    BY <1>1, <1>7 DEF AnalysisInv, LookupsInv
  <2>2. Awaits(i, s)' <=> Awaits(i, s) /\ ~(i = k /\ l[2] = "geoip")
    BY <1>1, <1>2, <1>4 DEF Awaits
  <2>3. CASE Awaits(i, s) /\ i = k /\ l[2] = "geoip"
    <3>1. more = {<<k, "virustotal">>} /\ s = "virustotal"
      BY <1>7, <2>3 DEF NextLookups, Applies, Awaits
    <3>2. QED
      BY <1>1, <2>2, <2>3, <3>1
  <2>4. CASE ~(Awaits(i, s) /\ i = k /\ l[2] = "geoip")
    <3>1. <<i, s>> \in more => Awaits(i, s) /\ i = k /\ l[2] = "geoip"
      BY <1>4
    <3>2. <<i, s>> \in open' \cup DOMAIN ledger' <=> <<i, s>> \in open \cup DOMAIN ledger
      BY <1>1, <2>4, <3>1
    <3>3. QED
      BY <2>1, <2>2, <2>4, <3>2
  <2>5. QED
    BY <2>3, <2>4
<1>8. AddressesOutside'
  <2>1. SUFFICES ASSUME NEW s \in sent'
                 PROVE  /\ s[2] \in ToSet(indicators)
                        /\ s[2].type = "ip" => IsPublicIp(s[2].value)
    BY <1>1 DEF AddressesOutside, IsPublicIp, Internal
  <2>2. CASE s \in sent
    BY <2>2 DEF AnalysisInv, AddressesOutside
  <2>3. CASE s \in Leaving(more, indicators)
    <3>1. PICK x \in more : s = <<x[2], indicators[x[1]]>>
      BY <2>3 DEF Leaving
    <3>2. s[2] = indicators[k] /\ k \in DOMAIN indicators /\ IsPublicIp(indicators[k].value)
      BY <3>1, <1>4 DEF Applies
    <3>3. QED
      BY <3>2 DEF ToSet
  <2>4. QED
    BY <1>1, <2>2, <2>3
<1>9. QED
  BY <1>1, <1>3, <1>5, <1>6, <1>7, <1>8 DEF LookupsInv

\* No other step touches the lookups, or what decides which of them apply.
LEMMA LookupsKept ==
    ASSUME AnalysisInv, [Next]_vars
    PROVE  LookupsInv' /\ AddressesOutside'
<1> USE DEF Before
<1>1. ASSUME apc \in Before, apc' \in Before,
             open' = open, ledger' = ledger, sent' = sent
      PROVE  LookupsInv' /\ AddressesOutside'
  BY <1>1 DEF AnalysisInv, LookupsInv, AddressesOutside
<1>2. ASSUME homeNet' = homeNet, indicators' = indicators,
             open' = open, ledger' = ledger, sent' = sent,
             \/ apc' = apc
             \/ apc = "enrich" /\ open = {} /\ apc' = "llm"
             \/ apc = "llm" /\ apc' \in {"done", "llm", "failed"}
      PROVE  LookupsInv' /\ AddressesOutside'
  <2>1. \A i, s : (Applies(i, s)' <=> Applies(i, s)) /\ (Awaits(i, s)' <=> Awaits(i, s))
    BY <1>2 DEF Applies, Awaits, IsPublicIp, Internal
  <2>2. LookupsInv'
    BY <1>2, <2>1 DEF AnalysisInv, LookupsInv
  <2>3. AddressesOutside'
    BY <1>2 DEF AnalysisInv, AddressesOutside, IsPublicIp, Internal
  <2>4. QED
    BY <2>2, <2>3
<1>3. CASE Startup \/ ReadFlow \/ Assign
  BY <1>3, <1>1 DEF Startup, ReadFlow, Assign, Goto, lookupVars
<1>4. CASE \E side \in Sides : \/ ResolveIp(side)
                               \/ \E name \in {"", "host"} : LookupName(side, name)
                               \/ ResolveRaises(side)
  BY <1>4, <1>1 DEF ResolveIp, LookupName, ResolveRaises, IdentityStep, lookupVars
<1>5. CASE Extract
  BY <1>5, ExtractStarts
<1>6. CASE \E l \in open : \E st \in Outcomes(l) : LookupEnds(l, st)
  BY <1>6, LookupEndKeeps
<1>7. CASE Gather
  BY <1>7, <1>2 DEF Gather, Goto
<1>8. CASE \E o \in CallOutcome : LlmCall(o)
  <2>1. PICK o \in CallOutcome : LlmCall(o)
    BY <1>8
  <2>2. /\ homeNet' = homeNet /\ indicators' = indicators
        /\ open' = open /\ ledger' = ledger /\ sent' = sent
        /\ apc = "llm" /\ apc' \in {"done", "llm", "failed"}
    BY <2>1, Zenon DEF LlmCall, lookupVars
  <2>3. QED
    BY <2>2, <1>2
<1>9. CASE UNCHANGED vars
  BY <1>9, <1>2 DEF vars
<1>10. QED
  BY <1>3, <1>4, <1>5, <1>6, <1>7, <1>8, <1>9 DEF Next

-----------------------------------------------------------------------------
\* What was read of a flow is a flow.
LEMMA SeenIsFlow ==
    ASSUME job \in Jobs, seen \in {<<>>, job.events}
    PROVE  IsFlow(seen)
<1>1. IsFlow(job.events)
  BY AnalysisAssumption
<1>2. IsFlow(<<>>)
  BY DEF IsFlow, ToSet
<1>3. QED
  BY <1>1, <1>2

\* Extract sets the indicators from the events that were read; afterwards neither they nor
\* HOME_NET change.
LEMMA NamesKept ==
    ASSUME AnalysisInv, [Next]_vars
    PROVE  NamesInv'
<1> USE DEF Before
<1>1. ASSUME homeNet' = homeNet, seen' = seen
      PROVE  \A i : InternalDomain(seen, i)' <=> InternalDomain(seen, i)
  BY <1>1 DEF InternalDomain, HomeNetName, Internal
<1>2. ASSUME seen' \in {<<>>, job'.events}, apc' \in Before
      PROVE  NamesInv'
  BY <1>2 DEF NamesInv
<1>3. ASSUME homeNet' = homeNet, job' = job, seen' = seen, indicators' = indicators,
             apc \notin Before
      PROVE  NamesInv'
  <2>1. \A i : InternalDomain(seen, i)' <=> InternalDomain(seen, i)
    BY <1>1, <1>3
  <2>2. NamesInv /\ apc \in {"enrich", "llm", "done", "failed"}
    BY <1>3 DEF AnalysisInv
  <2>3. \A i : Accounted(i)' <=> Accounted(i)
    BY <1>3, <2>1 DEF Accounted
  <2>4. QED
    BY <1>3, <2>1, <2>2, <2>3 DEF NamesInv
<1>4. CASE Extract
  <2>1. /\ homeNet' = homeNet /\ job' = job /\ seen' = seen
        /\ indicators' = extract_indicators(job.alert, seen)
    BY <1>4 DEF Extract
  <2>2. IsFlow(seen) /\ seen \in {<<>>, job.events}
    BY SeenIsFlow DEF AnalysisInv, NamesInv
  <2>3. \A i : InternalDomain(seen, i)' <=> InternalDomain(seen, i)
    BY <1>1, <2>1
  <2>4. /\ \E V : indicators' \in Seq(V)
        /\ \A ind \in ToSet(indicators') : ind.type \in {"ip", "domain"}
        /\ \A d \in Domains(indicators') : \E m \in DOMAIN seen :
              /\ d = DomainOf(seen[m])
              /\ d \notin Unfit
              /\ ~InternalDomain(seen, m)
        /\ \A i \in DOMAIN seen :
              \/ DomainOf(seen[i]) \in Unfit \cup Literals \cup Domains(indicators')
              \/ InternalDomain(seen, i)
              \/ /\ Cardinality(Domains(indicators')) = MaxDomains
                 /\ \A d \in Domains(indicators') :
                       \E k \in 1 .. i - 1 : DomainOf(seen[k]) = d
    BY <2>1, <2>2, ExtractedNames DEF IsFlow
  <2>5. \A i \in DOMAIN seen : Accounted(i)'
    BY <2>1, <2>3, <2>4 DEF Accounted
  <2>6. QED
    BY <2>1, <2>2, <2>3, <2>4, <2>5 DEF NamesInv
<1>5. CASE Startup \/ ReadFlow \/ Assign
  BY <1>5, <1>2 DEF Startup, ReadFlow, Assign, Goto, AnalysisInv, NamesInv
<1>6. CASE \E side \in Sides : \/ ResolveIp(side)
                               \/ \E name \in {"", "host"} : LookupName(side, name)
                               \/ ResolveRaises(side)
  BY <1>6, <1>2 DEF ResolveIp, LookupName, ResolveRaises, IdentityStep, AnalysisInv, NamesInv
<1>7. CASE (\E l \in open : \E st \in Outcomes(l) : LookupEnds(l, st)) \/ Gather
  BY <1>7, <1>3 DEF LookupEnds, Gather, Goto
<1>8. CASE \E o \in CallOutcome : LlmCall(o)
  BY <1>8, <1>3 DEF LlmCall
<1>9. CASE UNCHANGED vars
  BY <1>9, <1>2, <1>3 DEF vars, AnalysisInv, NamesInv
<1>10. QED
  BY <1>4, <1>5, <1>6, <1>7, <1>8, <1>9 DEF Next

\* Gather is the one step that sets the evidence, and the ledger is closed by then.
LEMMA EvidenceKept ==
    ASSUME AnalysisInv, [Next]_vars
    PROVE  EvidenceInv'
<1> DEFINE Gathered == FlattenSeq([i \in DOMAIN indicators |-> EntriesOf(i)])
<1>1. ASSUME indicators' = indicators, ledger' = ledger
      PROVE  Gathered' = Gathered
  BY <1>1 DEF EntriesOf, Entry
<1>2. ASSUME apc \in {"llm", "done", "failed"}, indicators' = indicators, ledger' = ledger,
             evidence' = evidence
      PROVE  EvidenceInv'
  BY <1>1, <1>2 DEF AnalysisInv, EvidenceInv
<1>3. ASSUME apc' \in Before \cup {"enrich"}
      PROVE  EvidenceInv'
  BY <1>3 DEF EvidenceInv, Before
<1>4. CASE Gather
  <2>1. evidence' = Gathered /\ Gathered' = Gathered
    BY <1>1, <1>4 DEF Gather
  <2>2. QED
    BY <2>1 DEF EvidenceInv
<1>5. CASE Startup \/ ReadFlow \/ Assign \/ Extract
  BY <1>5, <1>3 DEF Startup, ReadFlow, Assign, Extract, Goto, Before
<1>6. CASE \E side \in Sides : \/ ResolveIp(side)
                               \/ \E name \in {"", "host"} : LookupName(side, name)
                               \/ ResolveRaises(side)
  BY <1>6, <1>3 DEF ResolveIp, LookupName, ResolveRaises, IdentityStep, Before
<1>7. CASE \E l \in open : \E st \in Outcomes(l) : LookupEnds(l, st)
  BY <1>7, <1>3 DEF LookupEnds
<1>8. CASE \E o \in CallOutcome : LlmCall(o)
  BY <1>8, <1>2 DEF LlmCall, lookupVars
<1>9. CASE UNCHANGED vars
  BY <1>9, <1>2, <1>3 DEF vars, AnalysisInv
<1>10. QED
  BY <1>4, <1>5, <1>6, <1>7, <1>8, <1>9 DEF Next

-----------------------------------------------------------------------------
\* The job stays, and the stages are the ones named above.
LEMMA StageKept ==
    ASSUME AnalysisInv, [Next]_vars
    PROVE  job' \in Jobs /\ apc' \in Before \cup {"enrich", "llm", "done", "failed"}
<1> USE DEF Before
<1>1. job' = job
  BY Settled DEF Startup
<1>2. CASE Startup
  BY <1>1, <1>2 DEF AnalysisInv, Startup
<1>3. CASE ReadFlow \/ Assign \/ Extract \/ Gather
  BY <1>1, <1>3 DEF AnalysisInv, ReadFlow, Assign, Extract, Gather, Goto
<1>4. CASE \E side \in Sides : \/ ResolveIp(side)
                               \/ \E name \in {"", "host"} : LookupName(side, name)
                               \/ ResolveRaises(side)
  BY <1>1, <1>4 DEF AnalysisInv, ResolveIp, LookupName, ResolveRaises, IdentityStep
<1>5. CASE \E l \in open : \E st \in Outcomes(l) : LookupEnds(l, st)
  BY <1>1, <1>5 DEF AnalysisInv, LookupEnds
<1>6. CASE \E o \in CallOutcome : LlmCall(o)
  BY <1>1, <1>6 DEF AnalysisInv, LlmCall
<1>7. CASE UNCHANGED vars
  BY <1>1, <1>7 DEF AnalysisInv, vars
<1>8. QED
  BY <1>2, <1>3, <1>4, <1>5, <1>6, <1>7 DEF Next

\* Startup sets HOME_NET, and nothing does after it.
LEMMA HomeNetKept ==
    ASSUME AnalysisInv, [Next]_vars
    PROVE  HomeNetInv'
<1>1. job' = job
  BY Settled DEF Startup
<1>2. CASE Startup
  <2> DEFINE r == read_config(job.config)
  <2>1. /\ r.ok => ~Loaded(job.config).error /\ r.home_net = Meant(job.config)
        /\ ~r.ok => Loaded(job.config).error \/ Meant(job.config) = {}
    BY AnalysisAssumption, ReadsMeant DEF AnalysisInv
  <2>2. /\ r.ok => apc' = "read" /\ homeNet' = r.home_net
        /\ ~r.ok => apc' = "blocked"
    BY <1>2 DEF Startup
  <2> HIDE DEF r
  <2>3. QED
    BY <1>1, <2>1, <2>2 DEF HomeNetInv
<1>3. CASE ~Startup
  <2>1. homeNet' = homeNet
    BY <1>3, Settled
  <2>2. \/ apc' = apc
        \/ apc \notin {"start", "blocked"} /\ apc' \notin {"start", "blocked"}
    <3>1. CASE ReadFlow \/ Assign \/ Extract \/ Gather
      BY <3>1 DEF ReadFlow, Assign, Extract, Gather, Goto
    <3>2. CASE \E side \in Sides : \/ ResolveIp(side)
                                   \/ \E name \in {"", "host"} : LookupName(side, name)
                                   \/ ResolveRaises(side)
      BY <3>2 DEF ResolveIp, LookupName, ResolveRaises, IdentityStep
    <3>3. CASE \E l \in open : \E st \in Outcomes(l) : LookupEnds(l, st)
      BY <3>3 DEF LookupEnds
    <3>4. CASE \E o \in CallOutcome : LlmCall(o)
      <4>1. apc = "llm" /\ apc' \in {"done", "llm", "failed"}
        BY <3>4, Zenon DEF LlmCall
      <4>2. QED
        BY <4>1
    <3>5. CASE UNCHANGED vars
      BY <3>5 DEF vars
    <3>6. QED
      BY <1>3, <3>1, <3>2, <3>3, <3>4, <3>5 DEF Next
  <2>3. QED
    BY <1>1, <2>1, <2>2 DEF AnalysisInv, HomeNetInv
<1>4. QED
  BY <1>2, <1>3

\* The analysis of an alert (_process_alert up to the verdict) keeps the invariant.
THEOREM AnalysisInductive == Spec => []AnalysisInv
<1>1. Init => AnalysisInv
  <2>1. SUFFICES ASSUME Init PROVE AnalysisInv
    OBVIOUS
  <2>2. RoleInv /\ AddressesOutside
    BY <2>1 DEF Init, RoleInv, AddressesOutside
  <2>3. CallsInv
    <3>1. calls = <<>> /\ Len(<<>>) = 0 /\ <<>> \in Seq(CallRecord) /\ apc = "start"
      BY <2>1 DEF Init
    <3>2. QED
      BY <3>1, AnalysisAssumption DEF CallsInv
  <2>4. IdentityInv
    BY <2>1 DEF Init, IdentityInv, Before
  <2>5. LookupsInv
    BY <2>1 DEF Init, LookupsInv, Before
  <2>6. NamesInv /\ EvidenceInv /\ HomeNetInv
    BY <2>1 DEF Init, NamesInv, EvidenceInv, HomeNetInv, Before
  <2>7. QED
    BY <2>1, <2>2, <2>3, <2>4, <2>5, <2>6 DEF Init, AnalysisInv, Before
<1>2. AnalysisInv /\ [Next]_vars => AnalysisInv'
  <2>1. SUFFICES ASSUME AnalysisInv, [Next]_vars PROVE AnalysisInv'
    OBVIOUS
  <2>2. QED
    BY <2>1, StageKept, RolesKept, CallsKept, IdentityKept, LookupsKept, NamesKept,
       EvidenceKept, HomeNetKept DEF AnalysisInv
<1>3. QED
  BY <1>1, <1>2, PTL DEF Spec

\* For every configuration with fewer address groups than 2^_MAX_VAR_EXPANSION_PASSES,
\* whatever their order and references: after read_config HOME_NET is every network the
\* files reach from HOME_NET without a '!' and no other, and the process refuses to start
\* only if there is none or the includes do not end.
THEOREM HomeNetCorrect == Spec => []HomeNetComplete
<1>1. AnalysisInv => HomeNetComplete
  BY DEF AnalysisInv, HomeNetInv, HomeNetComplete, Loaded, Meant
<1>2. QED
  BY <1>1, AnalysisInductive, PTL

\* For every alert and every HOME_NET: a rule that targets the client, or a
\* command-and-control one, has the one inside host as its victim, and assign_roles names
\* the same host when source and destination are exchanged.
THEOREM VictimCorrect == Spec => []VictimIgnoresDirection
<1>1. AnalysisInv => VictimIgnoresDirection
  <2> DEFINE a == job.alert
  <2>1. SUFFICES ASSUME AnalysisInv, role # Null, NamesClient(a)
                 PROVE  /\ Internal(role.victim)
                        /\ assign_roles(Mirror(a)).victim = role.victim
    BY DEF VictimIgnoresDirection, NamesClient
  <2>2. role.victim = InsideEnd(a) /\ Internal(InsideEnd(a))
    BY <2>1 DEF AnalysisInv, RoleInv, InsideEnd, NamesClient, Inbound, Outbound
  <2>3. IsAlert(a)
    BY <2>1, AnalysisAssumption DEF AnalysisInv
  <2>4. NamesClient(Mirror(a)) /\ InsideEnd(Mirror(a)) = InsideEnd(a)
    BY <2>1, <2>3, MirrorSwaps
  <2>5. QED
    BY <2>2, <2>4, ClientIsInside
<1>2. QED
  BY <1>1, AnalysisInductive, PTL

\* For every alert and every HOME_NET: without a target field, assign_roles makes an inside
\* host the attacker of an outside one only if it is the source of the alert, and with more
\* than low confidence only on the word of the metadata or for a scan.
THEOREM BlameCorrect == Spec => []InsideBlameGrounded
<1>1. AnalysisInv => InsideBlameGrounded
  BY DEF AnalysisInv, RoleInv, InsideBlameGrounded, Blames, Grounded, Assignment, ambiguous,
         Outbound
<1>2. QED
  BY <1>1, AnalysisInductive, PTL

\* For every MaxAttempts: _call_with_retry fails only after its last attempt or on a
\* failure that is never retried, makes no call after a verdict or such a failure, sends
\* the whole context each time, and the correction exactly after a response that did not
\* parse.
THEOREM RetryCorrect == Spec => []RetryDiscipline
<1>1. AnalysisInv => RetryDiscipline
  <2>1. SUFFICES ASSUME AnalysisInv PROVE RetryDiscipline
    OBVIOUS
  <2>2. calls \in Seq(CallRecord) /\ DOMAIN calls = 1 .. Len(calls)
    BY <2>1 DEF AnalysisInv, CallsInv
  <2>3. ASSUME NEW n \in DOMAIN calls
        PROVE  /\ n <= MaxAttempts
               /\ n < Len(calls) => calls[n].outcome \notin Final \cup {"valid"}
               /\ calls[n].prompt.context = SelectSeq(evidence, Contributed)
               /\ calls[n].prompt.correction <=> n > 1 /\ calls[n - 1].outcome \in Invalid
    <3>1. n <= MaxAttempts
      <4>1. n \in 1 .. Len(calls) /\ Len(calls) \in Nat
        BY <2>2, <2>3
      <4>2. Len(calls) <= MaxAttempts /\ MaxAttempts \in Nat
        BY <2>1, AnalysisAssumption DEF AnalysisInv, CallsInv
      <4>3. QED
        BY <4>1, <4>2
    <3>2. n < Len(calls) => calls[n].outcome \notin Final \cup {"valid"}
      BY <2>1, <2>2 DEF AnalysisInv, CallsInv, Invalid, Transient, Final
    <3>3. calls[n].prompt.context = SelectSeq(evidence, Contributed)
      <4>1. calls[n] \in CallRecord
        BY <2>2, <2>3
      <4>2. calls[n].prompt.context = build_enrichment_context
        BY <4>1 DEF CallRecord
      <4>3. QED
        BY <4>2 DEF build_enrichment_context
    <3>4. calls[n].prompt.correction <=> n > 1 /\ calls[n - 1].outcome \in Invalid
      BY <2>1, <2>2 DEF AnalysisInv, CallsInv
    <3>5. QED
      BY <3>1, <3>2, <3>3, <3>4
  <2>4. QED
    BY <2>1, <2>3 DEF RetryDiscipline, AnalysisInv, CallsInv
<1>2. QED
  BY <1>1, AnalysisInductive, PTL

\* For every flow, every HOME_NET and every limit: _extract_indicators passes over a name
\* that may be asked about only when the limit is used up by earlier ones.
THEOREM NamesCorrect == Spec => []NamesNotMissed
<1>1. AnalysisInv => NamesNotMissed
  <2>1. SUFFICES ASSUME AnalysisInv, apc \in {"enrich", "llm", "done", "failed"},
                        NEW i \in DOMAIN seen
                 PROVE  LET name == DomainOf(seen[i])
                            domains == {ind.value : ind \in {x \in ToSet(indicators) :
                                                                x.type = "domain"}}
                        IN \/ name \in Unfit \cup Literals \cup domains
                           \/ InternalDomain(seen, i)
                           \/ /\ Cardinality(domains) = MaxDomains
                              /\ \A d \in domains : \E k \in 1 .. i - 1 : DomainOf(seen[k]) = d
    BY DEF NamesNotMissed
  <2>2. Accounted(i)
    BY <2>1 DEF AnalysisInv, NamesInv, Before
  <2>3. QED
    BY <2>2 DEF Accounted, Domains
<1>2. QED
  BY <1>1, AnalysisInductive, PTL

\* Nothing in a flow shows a name that was taken from it to be internal: the events of a
\* flow with http or tls have one server.
LEMMA NameOutside ==
    ASSUME IsFlow(seen), NEW m \in DOMAIN seen, ~InternalDomain(seen, m),
           DomainOf(seen[m]) \notin Unfit, NEW e \in ToSet(seen)
    PROVE  LET d == DomainOf(seen[m])
           IN /\ Canonical(d) \notin InternalSuffix
              /\ \A ans \in e.answers :
                    Canonical(d) \in {Canonical(n) : n \in ToSet(e.asked) \cup {ans.owner}}
                        => ~Internal(ans.ip)
              /\ e.type \in {"http", "tls"} => ~Internal(server_ip(e))
<1> DEFINE d == DomainOf(seen[m])
<1>1. /\ Canonical(d) \notin InternalSuffix
      /\ ~HomeNetName(seen, d)
      /\ seen[m].type # "dns" => ~Internal(server_ip(seen[m]))
  BY DEF InternalDomain
<1>2. ASSUME NEW ans \in e.answers,
             Canonical(d) \in {Canonical(n) : n \in ToSet(e.asked) \cup {ans.owner}}
      PROVE  ~Internal(ans.ip)
  <2>1. e.type = "dns"
    BY <1>2 DEF IsFlow
  <2>2. ans.ip \in DnsAnswerIps(seen, Canonical(d))
    BY <1>2, <2>1 DEF DnsAnswerIps
  <2>3. QED
    BY <1>1, <2>2 DEF HomeNetName
<1>3. ASSUME e.type \in {"http", "tls"}
      PROVE  ~Internal(server_ip(e))
  <2>1. seen[m] \in ToSet(seen)
    BY DEF ToSet
  <2>2. seen[m].type \in {"http", "tls"} /\ server_ip(seen[m]) = server_ip(e)
    BY <1>3, <2>1 DEF IsFlow
  <2>3. QED
    BY <1>1, <2>2
<1>4. QED
  BY <1>1, <1>2, <1>3

\* For every flow and every HOME_NET: no lookup client is ever shown an address that is in
\* HOME_NET or not routable, or a name that any event of the flow shows to be internal
\* (_extract_indicators, _enrich_one).
THEOREM SentCorrect == Spec => []NothingInternalSent
<1>1. AnalysisInv => NothingInternalSent
  <2>1. SUFFICES ASSUME AnalysisInv, NEW s \in sent
                 PROVE  IF s[2].type = "ip" THEN IsPublicIp(s[2].value)
                        ELSE /\ Canonical(s[2].value) \notin InternalSuffix
                             /\ \A e \in ToSet(seen) :
                                  /\ \A ans \in e.answers :
                                       Canonical(s[2].value) \in
                                            {Canonical(n) : n \in ToSet(e.asked) \cup {ans.owner}}
                                         => ~Internal(ans.ip)
                                  /\ /\ e.type \in {"http", "tls"}
                                     /\ Canonical(s[2].value) = Canonical(DomainOf(e))
                                     => ~Internal(server_ip(e))
    BY DEF NothingInternalSent
  <2>2. s[2] \in ToSet(indicators) /\ (s[2].type = "ip" => IsPublicIp(s[2].value))
    BY <2>1 DEF AnalysisInv, AddressesOutside
  <2>3. apc \notin Before
    BY <2>1 DEF AnalysisInv, LookupsInv
  <2>4. CASE s[2].type # "ip"
    <3>1. s[2].value \in Domains(indicators)
      BY <2>1, <2>2, <2>3, <2>4 DEF AnalysisInv, NamesInv, Domains
    <3>2. PICK m \in DOMAIN seen : /\ s[2].value = DomainOf(seen[m])
                                   /\ s[2].value \notin Unfit
                                   /\ ~InternalDomain(seen, m)
      BY <2>1, <2>3, <3>1 DEF AnalysisInv, NamesInv
    <3>3. IsFlow(seen)
      BY <2>1, SeenIsFlow DEF AnalysisInv, NamesInv
    <3>4. Canonical(s[2].value) \notin InternalSuffix
      BY <3>2 DEF InternalDomain
    <3>5. QED
      BY <2>4, <3>2, <3>3, <3>4, NameOutside
  <2>5. QED
    BY <2>2, <2>4
<1>2. QED
  BY <1>1, AnalysisInductive, PTL

\* When the LLM is called, exactly the lookups that apply have ended.
LEMMA AllLookedUp ==
    ASSUME AnalysisInv, apc \in {"llm", "done", "failed"}, NEW i \in DOMAIN indicators
    PROVE  \A s \in Sources : <<i, s>> \in DOMAIN ledger <=> Applies(i, s)
<1>1. apc \notin Before /\ open = {}
  BY DEF AnalysisInv, LookupsInv, Before
<1>2. \A s : <<i, s>> \in DOMAIN ledger => Applies(i, s)
  BY DEF AnalysisInv, LookupsInv
<1>3. \A s \in Sources : Applies(i, s) => <<i, s>> \in DOMAIN ledger
  BY <1>1 DEF AnalysisInv, LookupsInv, Awaits
<1>4. QED
  BY <1>2, <1>3

\* The sources of an indicator in the order of its entries, as EvidenceComplete has them.
Wanted(ind) == IF ind.type = "domain" THEN <<"virustotal", "rdap">>
               ELSE IF IsPublicIp(ind.value) THEN <<"virustotal", "geoip">>
               ELSE <<"geoip">>

WantedPairs(i) == [n \in DOMAIN Wanted(indicators[i]) |->
                     <<indicators[i], Wanted(indicators[i])[n]>>]

\* A status of the ledger.
Logged(i, s) == [indicator |-> indicators[i], source |-> s, status |-> ledger[<<i, s>>]]

\* The entries of an indicator are about the sources that apply to it, in that order.
LEMMA EntriesWanted ==
    ASSUME NEW i, indicators[i].type \in {"ip", "domain"}, i \in DOMAIN indicators,
           \A s \in Sources : <<i, s>> \in DOMAIN ledger <=> Applies(i, s)
    PROVE  /\ EntriesOf(i) \in Seq({Logged(i, s) : s \in Sources})
           /\ Labels(EntriesOf(i)) = WantedPairs(i)
<1> DEFINE V == {Logged(i, s) : s \in Sources}
           vt == Logged(i, "virustotal")
           rdap == Logged(i, "rdap")
           geoip == Logged(i, "geoip")
<1>1. \A s : Logged(i, s).indicator = indicators[i] /\ Logged(i, s).source = s
  BY DEF Logged
<1>2. \A s \in Sources : Entry(i, s) = IF Applies(i, s) THEN <<Logged(i, s)>> ELSE <<>>
  BY DEF Entry, Logged
<1>3. /\ vt \in V /\ vt.indicator = indicators[i] /\ vt.source = "virustotal"
      /\ rdap \in V /\ rdap.indicator = indicators[i] /\ rdap.source = "rdap"
      /\ geoip \in V /\ geoip.indicator = indicators[i] /\ geoip.source = "geoip"
  BY <1>1 DEF Sources
<1>4. EntriesOf(i) = Entry(i, "virustotal") \o Entry(i, "rdap") \o Entry(i, "geoip")
  BY DEF EntriesOf
<1>5. {"virustotal", "rdap", "geoip"} = Sources
  BY DEF Sources
<1> HIDE DEF V, vt, rdap, geoip
<1>6. ASSUME NEW x, NEW y
      PROVE  /\ <<x>> \o <<y>> \o <<>> = <<x, y>>
             /\ <<x>> \o <<>> \o <<y>> = <<x, y>>
             /\ <<>> \o <<>> \o <<x>> = <<x>>
  <2>1. <<x>> \o <<y>> = <<x, y>>
    <3> DEFINE t == <<x>> \o <<y>>
    <3>1. t \in Seq({x, y}) /\ Len(t) = 2 /\ t[1] = x /\ t[2] = y
      OBVIOUS
    <3>2. \A n \in 1 .. 2 : n = 1 \/ n = 2
      OBVIOUS
    <3> HIDE DEF t
    <3>3. t = <<x, y>>
      BY <3>1, <3>2
    <3>4. QED
      BY <3>3 DEF t
  <2>2. \A t \in Seq({x, y}) : t \o <<>> = t /\ <<>> \o t = t
    OBVIOUS
  <2>3. <<>> \in Seq({x, y}) /\ <<x>> \in Seq({x, y}) /\ <<x, y>> \in Seq({x, y})
    OBVIOUS
  <2>4. QED
    BY <2>1, <2>2, <2>3
<1>7. /\ \A x, y : Labels(<<x, y>>) = << <<x.indicator, x.source>>, <<y.indicator, y.source>> >>
      /\ \A x : Labels(<<x>>) = << <<x.indicator, x.source>> >>
  BY DEF Labels
<1>8. CASE indicators[i].type = "domain"
  <2>1. Applies(i, "virustotal") /\ Applies(i, "rdap") /\ ~Applies(i, "geoip")
    BY <1>8 DEF Applies
  <2>2. EntriesOf(i) = <<vt, rdap>>
    BY <1>2, <1>4, <1>5, <1>6, <2>1 DEF vt, rdap
  <2>3. WantedPairs(i) = << <<indicators[i], "virustotal">>, <<indicators[i], "rdap">> >>
    BY <1>8 DEF WantedPairs, Wanted
  <2>4. EntriesOf(i) \in Seq(V)
    BY <1>3, <2>2
  <2>5. Labels(EntriesOf(i)) = WantedPairs(i)
    BY <1>3, <1>7, <2>2, <2>3
  <2>6. QED
    BY <2>4, <2>5 DEF V
<1>9. CASE indicators[i].type = "ip" /\ IsPublicIp(indicators[i].value)
  <2>1. Applies(i, "virustotal") /\ ~Applies(i, "rdap") /\ Applies(i, "geoip")
    BY <1>9 DEF Applies
  <2>2. EntriesOf(i) = <<vt, geoip>>
    BY <1>2, <1>4, <1>5, <1>6, <2>1 DEF vt, geoip
  <2>3. WantedPairs(i) = << <<indicators[i], "virustotal">>, <<indicators[i], "geoip">> >>
    BY <1>9 DEF WantedPairs, Wanted
  <2>4. EntriesOf(i) \in Seq(V)
    BY <1>3, <2>2
  <2>5. Labels(EntriesOf(i)) = WantedPairs(i)
    BY <1>3, <1>7, <2>2, <2>3
  <2>6. QED
    BY <2>4, <2>5 DEF V
<1>10. CASE indicators[i].type = "ip" /\ ~IsPublicIp(indicators[i].value)
  <2>1. ~Applies(i, "virustotal") /\ ~Applies(i, "rdap") /\ Applies(i, "geoip")
    BY <1>10 DEF Applies
  <2>2. EntriesOf(i) = <<geoip>>
    BY <1>2, <1>4, <1>5, <1>6, <2>1 DEF geoip
  <2>3. WantedPairs(i) = << <<indicators[i], "geoip">> >>
    BY <1>10 DEF WantedPairs, Wanted
  <2>4. EntriesOf(i) \in Seq(V)
    BY <1>3, <2>2
  <2>5. Labels(EntriesOf(i)) = WantedPairs(i)
    BY <1>3, <1>7, <2>2, <2>3
  <2>6. QED
    BY <2>4, <2>5 DEF V
<1>11. QED
  BY <1>8, <1>9, <1>10

\* For every flow and every HOME_NET: a lookup that fails or raises, and the order in
\* which lookups end, show nowhere but in the status of its own entry (_enrich_all,
\* _resolve_identities).
THEOREM EvidenceCorrect == Spec => []EvidenceComplete
<1>1. AnalysisInv => EvidenceComplete
  <2> DEFINE N == Len(indicators)
             lists == [i \in DOMAIN indicators |-> EntriesOf(i)]
             V == UNION {{Logged(i, s) : s \in Sources} : i \in DOMAIN indicators}
  <2>1. SUFFICES ASSUME AnalysisInv, apc \in {"llm", "done", "failed"}
                 PROVE  /\ "revdns" \in job.configured =>
                             \A s \in Sides : identity[s] = "none" <=> ~Internal(Endpoint(s))
                        /\ Labels(evidence)
                             = FlattenSeq([i \in DOMAIN indicators |-> WantedPairs(i)])
    BY Zenon DEF EvidenceComplete, Labels, WantedPairs, Wanted
  <2>2. apc \notin Before
    BY <2>1 DEF Before
  <2>3. "revdns" \in job.configured =>
          \A s \in Sides : identity[s] = "none" <=> ~Internal(Endpoint(s))
    BY <2>1, <2>2 DEF AnalysisInv, IdentityInv
  <2>4. evidence = FlattenSeq(lists)
    BY <2>1 DEF AnalysisInv, EvidenceInv
  <2>5. DOMAIN indicators = 1 .. N /\ N \in Nat
    BY <2>1, <2>2 DEF AnalysisInv, NamesInv
  <2>6. ASSUME NEW i \in DOMAIN indicators
        PROVE  EntriesOf(i) \in Seq(V) /\ Labels(EntriesOf(i)) = WantedPairs(i)
    <3>1. indicators[i].type \in {"ip", "domain"}
      BY <2>1, <2>2 DEF AnalysisInv, NamesInv, ToSet
    <3>2. \A s \in Sources : <<i, s>> \in DOMAIN ledger <=> Applies(i, s)
      BY <2>1, AllLookedUp
    <3> DEFINE Own == {Logged(i, s) : s \in Sources}
    <3>3. EntriesOf(i) \in Seq(Own) /\ Labels(EntriesOf(i)) = WantedPairs(i)
      BY <3>1, <3>2, EntriesWanted
    <3>4. Own \subseteq V
      OBVIOUS
    <3>5. QED
      <4> HIDE DEF Own, V
      <4>1. QED
        BY <3>3, <3>4
  <2>7. lists \in [1 .. N -> Seq(V)]
    BY <2>5, <2>6
  <2>8. Labels(FlattenSeq(lists)) = FlattenSeq([i \in 1 .. N |-> Labels(lists[i])])
    <3> HIDE DEF lists, V
    <3>1. QED
      BY <2>5, <2>7, LabelsFlatten
  <2>9. [i \in 1 .. N |-> Labels(lists[i])] = [i \in DOMAIN indicators |-> WantedPairs(i)]
    BY <2>5, <2>6
  <2>10. QED
    BY <2>3, <2>4, <2>8, <2>9
<1>2. QED
  BY <1>1, AnalysisInductive, PTL
=============================================================================
