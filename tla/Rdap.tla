-------------------------------- MODULE Rdap --------------------------------
(***************************************************************************)
(* RDAPClient.lookup (src/src/enrichment/rdap/client.py) over the SQLite   *)
(* cache, a circuit breaker, and RDAPBootstrap (bootstrap.py): the map     *)
(* from TLDs to registries, loaded under an asyncio.Lock by whichever      *)
(* lookup needs it first, from the cache or from IANA, or replaced by a    *)
(* small built-in map when the download fails.                             *)
(*                                                                         *)
(* Several lookups run at once, and two indicators may have one            *)
(* registrable domain, hence one cache row.  The map is "iana" or          *)
(* "fallback".  A row has its content and the time left until it expires,  *)
(* -1 once it has; a 404 is stored like registration data ("answer").      *)
(* Every domain has a TLD: extraction drops names without a dot, and what  *)
(* normalisation leaves of "www.com" is not modelled (get_base_url answers *)
(* None before it looks at the map).                                       *)
(***************************************************************************)
EXTENDS CircuitBreaker, Integers, Sequences

CONSTANTS Lookups,       \* the lookups that may run at once
          Domains,
          DomainOf,      \* _normalise_domain of the indicator of each lookup
          Covered,       \* Covered[m]: the domains whose TLD map m knows
          Ttl,           \* _CACHE_TTL of either kind of row, in ticks
          MaxFaults,     \* bound on the bootstraps that raise, per process
          None           \* no map, no row

ASSUME RdapAssumption ==
    /\ DomainOf \in [Lookups -> Domains]
    /\ Covered \in [{"iana", "fallback"} -> SUBSET Domains]
    /\ Ttl \in Nat \ {0}
    /\ MaxFaults \in Nat
    /\ None \notin {"iana", "fallback"}

VARIABLES rpc,        \* the next await of each lookup
          got,        \* the map a lookup has downloaded
          result,     \* the last EnrichmentResult: [domain, status], or None
          rows,       \* the cache rows rdap:<domain>
          bootRow,    \* the cache row rdap:bootstrap
          tldMap,     \* _tld_map
          lockq,      \* _lock: its holder, then those who wait, in order
          downloads,  \* history: downloads of the registry in this process
          faults,     \* history: bootstraps that raised in this process
          since       \* history: ticks since a registry last answered for the domain

bootVars == <<bootRow, tldMap, lockq, downloads, faults>>
vars == <<breakerVars, rpc, got, result, rows, bootVars, since>>

Maps == {"iana", "fallback"}
Never == Ttl + 1
InLock == {"bootget", "download", "bootset", "bootmap"}
RdapPC == {"idle", "expired", "missed", "map", "wait", "url", "fetch", "store"} \cup InLock
Row(body) == [body : body, left : -1 .. Ttl]

BootTypeOK ==
    /\ rpc \in [Lookups -> RdapPC]
    /\ got \in [Lookups -> Maps \cup {None}]
    /\ bootRow \in Row(Maps) \cup {None}
    /\ tldMap \in Maps \cup {None}
    /\ lockq \in Seq(Lookups)
    /\ downloads \in Nat
    /\ faults \in 0 .. MaxFaults

Init ==
    /\ BreakerInit
    /\ rpc = [l \in Lookups |-> "idle"]
    /\ got = [l \in Lookups |-> None]
    /\ result = None
    /\ rows = [d \in Domains |-> None]
    /\ bootRow = None
    /\ tldMap = None
    /\ lockq = <<>>
    /\ downloads = 0
    /\ faults = 0
    /\ since = [d \in Domains |-> Never]

-----------------------------------------------------------------------------
Live(row) == row # None /\ row.left >= 0

Older(row) == IF Live(row) THEN [row EXCEPT !.left = @ - 1] ELSE row

Move(l, from, to) ==
    /\ rpc[l] = from
    /\ rpc' = [rpc EXCEPT ![l] = to]

Finish(l, status) == result' = [domain |-> DomainOf[l], status |-> status]

\* A tick is long (the TTL is seven days) and does not fall between an answer and its
\* row.
Tick ==
    /\ \A l \in Lookups : rpc[l] # "store"
    /\ BreakerTick
    /\ rows' = [d \in Domains |-> Older(rows[d])]
    /\ bootRow' = Older(bootRow)
    /\ since' = [d \in Domains |-> IF since[d] < Never THEN since[d] + 1 ELSE Never]
    /\ UNCHANGED <<rpc, got, result, tldMap, lockq, downloads, faults>>

\* A new process: the rows of the cache survive, and nothing else.
Restart ==
    /\ state' = "closed" /\ failures' = 0 /\ openFor' = 0
    /\ rpc' = [l \in Lookups |-> "idle"]
    /\ got' = [l \in Lookups |-> None]
    /\ result' = None
    /\ tldMap' = None
    /\ lockq' = <<>>
    /\ downloads' = 0
    /\ faults' = 0
    /\ UNCHANGED <<rows, bootRow, since>>

-----------------------------------------------------------------------------
\* lookup: the cache.  get() deletes an expired row in a second statement.
CacheHit_Renews(l) ==
    /\ rpc[l] = "idle"
    /\ Live(rows[DomainOf[l]])
    /\ Finish(l, "contributed")
    /\ rows' = [rows EXCEPT ![DomainOf[l]].left = Ttl]
    /\ UNCHANGED <<breakerVars, rpc, got, bootVars, since>>

CacheHit(l) ==
    /\ rpc[l] = "idle"
    /\ Live(rows[DomainOf[l]])
    /\ Finish(l, "contributed")
    /\ UNCHANGED <<breakerVars, rpc, got, rows, bootVars, since>>

CacheMiss(l) ==
    /\ ~Live(rows[DomainOf[l]])
    /\ Move(l, "idle", IF rows[DomainOf[l]] = None THEN "missed" ELSE "expired")
    /\ UNCHANGED <<breakerVars, got, result, rows, bootVars, since>>

DeleteExpired(l) ==
    /\ Move(l, "expired", "missed")
    /\ rows' = [rows EXCEPT ![DomainOf[l]] = None]
    /\ UNCHANGED <<breakerVars, got, result, bootVars, since>>

Admit(l) ==
    /\ Move(l, "missed", "map")
    /\ BreakerAdmit
    /\ UNCHANGED <<got, result, rows, bootVars, since>>

Reject(l) ==
    /\ Move(l, "missed", "idle")
    /\ BreakerReject
    /\ Finish(l, "failing")
    /\ UNCHANGED <<got, rows, bootVars, since>>

-----------------------------------------------------------------------------
\* _get_tld_map: the fast path, or the lock.
MapKnown(l) ==
    /\ Move(l, "map", "url")
    /\ tldMap # None
    /\ UNCHANGED <<breakerVars, got, result, rows, bootVars, since>>

MapMissing(l) ==
    /\ Move(l, "map", "wait")
    /\ tldMap = None
    /\ lockq' = Append(lockq, l)
    /\ UNCHANGED <<breakerVars, got, result, rows, bootRow, tldMap, downloads, faults, since>>

HoldsLock_Anyone(l) == lockq # <<>>

HoldsLock(l) == lockq # <<>> /\ lockq[1] = l

\* The lock is acquired and the map looked at again.
Recheck(l) ==
    /\ HoldsLock(l)
    /\ IF tldMap # None
       THEN Move(l, "wait", "url") /\ lockq' = Tail(lockq)
       ELSE Move(l, "wait", "bootget") /\ UNCHANGED lockq
    /\ UNCHANGED <<breakerVars, got, result, rows, bootRow, tldMap, downloads, faults, since>>

BootRead(l) ==
    /\ IF Live(bootRow)
       THEN /\ Move(l, "bootget", "url")
            /\ tldMap' = bootRow.body
            /\ lockq' = Tail(lockq)
            /\ UNCHANGED bootRow
       ELSE /\ Move(l, "bootget", "download")
            /\ bootRow' = None
            /\ UNCHANGED <<tldMap, lockq>>
    /\ UNCHANGED <<breakerVars, got, result, rows, downloads, faults, since>>

\* IANA's registry, or the fallback on any network or HTTP error.
Download(l, m) ==
    /\ Move(l, "download", "bootset")
    /\ got' = [got EXCEPT ![l] = m]
    /\ downloads' = downloads + 1
    /\ UNCHANGED <<breakerVars, result, rows, bootRow, tldMap, lockq, faults, since>>

\* Either map is cached for the whole TTL and, after the await, kept for the life of the
\* process.
BootCache(l) ==
    /\ Move(l, "bootset", "bootmap")
    /\ bootRow' = [body |-> got[l], left |-> Ttl]
    /\ UNCHANGED <<breakerVars, got, result, rows, tldMap, lockq, downloads, faults, since>>

BootKeep(l) ==
    /\ Move(l, "bootmap", "url")
    /\ tldMap' = got[l]
    /\ lockq' = Tail(lockq)
    /\ got' = [got EXCEPT ![l] = None]
    /\ UNCHANGED <<breakerVars, result, rows, bootRow, downloads, faults, since>>

BootRaises_KeepsLock(l) ==
    /\ faults < MaxFaults
    /\ rpc[l] \in InLock \ {"bootmap"}
    /\ rpc' = [rpc EXCEPT ![l] = "idle"]
    /\ BreakerFailure
    /\ Finish(l, "failing")
    /\ faults' = faults + 1
    /\ got' = [got EXCEPT ![l] = None]
    /\ UNCHANGED <<rows, bootRow, tldMap, lockq, downloads, since>>

\* A cache call raises, or the downloaded registry has the wrong shape: the lock is
\* released by its context manager and the exception passes through the breaker.
BootRaises(l) ==
    /\ faults < MaxFaults
    /\ rpc[l] \in InLock \ {"bootmap"}
    /\ rpc' = [rpc EXCEPT ![l] = "idle"]
    /\ BreakerFailure
    /\ Finish(l, "failing")
    /\ faults' = faults + 1
    /\ lockq' = Tail(lockq)
    /\ got' = [got EXCEPT ![l] = None]
    /\ UNCHANGED <<rows, bootRow, tldMap, downloads, since>>

-----------------------------------------------------------------------------
\* _fetch with the map at hand.
RegistryKnown(l) ==
    /\ Move(l, "url", "fetch")
    /\ DomainOf[l] \in Covered[tldMap]
    /\ UNCHANGED <<breakerVars, got, result, rows, bootVars, since>>

\* "No RDAP registry known" counts as a failure of the service.
RegistryUnknown(l) ==
    /\ Move(l, "url", "idle")
    /\ DomainOf[l] \notin Covered[tldMap]
    /\ BreakerFailure
    /\ Finish(l, "failing")
    /\ UNCHANGED <<got, rows, bootVars, since>>

\* A parsed 200 is a success for the breaker, a 404 (_RDAPNotFound) a failure, although
\* both are answers and both are stored.
Respond(l, found) ==
    /\ Move(l, "fetch", "store")
    /\ IF found THEN BreakerSuccess ELSE BreakerFailure
    /\ since' = [since EXCEPT ![DomainOf[l]] = 0]
    /\ UNCHANGED <<got, result, rows, bootVars>>

\* Timeout, transport error, any other status, a body that is no JSON.
FetchFails(l) ==
    /\ Move(l, "fetch", "idle")
    /\ BreakerFailure
    /\ Finish(l, "failing")
    /\ UNCHANGED <<got, rows, bootVars, since>>

Store(l) ==
    /\ Move(l, "store", "idle")
    /\ rows' = [rows EXCEPT ![DomainOf[l]] = [body |-> "answer", left |-> Ttl]]
    /\ Finish(l, "contributed")
    /\ UNCHANGED <<breakerVars, got, bootVars, since>>

\* A cache call of lookup is outside its try: the exception passes to the worker, whose
\* _lookup reports a failure; the breaker has been told already.
CacheRaises(l) ==
    /\ rpc[l] \in {"expired", "store"}
    /\ rpc' = [rpc EXCEPT ![l] = "idle"]
    /\ Finish(l, "failing")
    /\ UNCHANGED <<breakerVars, got, rows, bootVars, since>>

\* So may the first SELECT.
SelectRaises(l) ==
    /\ rpc[l] = "idle"
    /\ Finish(l, "failing")
    /\ UNCHANGED <<breakerVars, rpc, got, rows, bootVars, since>>

Begin(l) == CacheHit(l) \/ CacheMiss(l) \/ SelectRaises(l)

Continue(l) ==
    \/ DeleteExpired(l)
    \/ Admit(l)
    \/ Reject(l)
    \/ MapKnown(l)
    \/ MapMissing(l)
    \/ Recheck(l)
    \/ BootRead(l)
    \/ \E m \in Maps : Download(l, m)
    \/ BootCache(l)
    \/ BootKeep(l)
    \/ BootRaises(l)
    \/ RegistryKnown(l)
    \/ RegistryUnknown(l)
    \/ \E found \in BOOLEAN : Respond(l, found)
    \/ FetchFails(l)
    \/ Store(l)
    \/ CacheRaises(l)

Next == Tick \/ Restart \/ \E l \in Lookups : Begin(l) \/ Continue(l)

Spec == Init /\ [][Next]_vars

\* Every request has a timeout and the lock is handed on in order.
FairSpec == Spec /\ \A l \in Lookups : WF_vars(Continue(l))

-----------------------------------------------------------------------------
\* "concurrent domain lookups on the same alert don't each trigger a separate bootstrap
\* download" (bootstrap.py): however many lookups need the map at once, a process
\* downloads it once, and once more for each bootstrap that raised.
OneDownload == downloads <= 1 + faults

\* The map a process works with is the one the cache would give to a process started
\* now, however lookups, expiry and restarts fall between the two assignments.
MapAgreesWithCache ==
    tldMap # None /\ Live(bootRow) => tldMap = bootRow.body

\* No registration data is shown, fresh or cached, unless a registry answered for the
\* domain within the lifetime of a row.
AnswersFresh ==
    [][ result' # result /\ result' # None /\ result'.status = "contributed"
          => since[result'.domain] <= Ttl ]_vars

\* The inductive invariant behind OneDownload and MapAgreesWithCache: only the holder of
\* the lock is in its section, and only while there is no map (LockInv); every download
\* is accounted for by the map, by the lookup about to keep it, or by a bootstrap that
\* raised (DownloadInv); the row is the map about to be kept (RowInv).
LockInv ==
    \A l \in Lookups : rpc[l] \in InLock => lockq # <<>> /\ lockq[1] = l /\ tldMap = None

DownloadInv ==
    \/ downloads <= faults
    \/ /\ downloads <= faults + 1
       /\ \/ tldMap # None
          \/ \E l \in Lookups : rpc[l] \in {"bootset", "bootmap"}

RowInv ==
    /\ \A l \in Lookups : rpc[l] \in {"bootset", "bootmap"} => got[l] \in Maps
    /\ \A l \in Lookups : rpc[l] = "bootmap" /\ Live(bootRow) => bootRow.body = got[l]

BootInv == BootTypeOK /\ LockInv /\ DownloadInv /\ RowInv /\ MapAgreesWithCache

\* A lookup that has begun ends, by an answer, a failure or a restart: nobody waits for
\* the lock of a bootstrap that failed.
LookupEnds ==
    \A l \in Lookups : (rpc[l] # "idle") ~> (rpc[l] = "idle")
=============================================================================
