------------------------------ MODULE VTClient ------------------------------
(***************************************************************************)
(* VirusTotalClient.lookup (src/src/enrichment/virustotal/client.py) over  *)
(* the SQLite cache (src/src/infra/cache/sqlite.py) and one circuit        *)
(* breaker: primary cache entry, live query through the breaker, a stale   *)
(* backup that outlives the primary StaleFactor times for when the query   *)
(* fails.  Lookups of different indicators run concurrently (the worker's  *)
(* asyncio.gather); one indicator is looked up once at a time.             *)
(*                                                                         *)
(* The cache is a file: its rows outlive a stop of the process, which may  *)
(* come at any await, and each of its calls may raise, out of lookup().    *)
(* A response is "readable" (a report, or the sentinel of a 404),          *)
(* "malformed" (_parse_vt_response misses a key and answers 'failing') or  *)
(* "broken" (not even the shape it catches: a list, or stats that are no   *)
(* dict, raise AttributeError out of lookup()).  The rate limiter is a     *)
(* delay inside the call, modelled in VTQueries.                           *)
(***************************************************************************)
EXTENDS CircuitBreaker, Integers

CONSTANTS Indicators,   \* indicators, hence cache keys
          Ttl,          \* _CACHE_TTL, in ticks
          StaleFactor,  \* the 7 of _CACHE_TTL * 7
          MaxTime,      \* bound on the clock
          NoEntry       \* no cache row

Body    == {"readable", "malformed", "broken"}
Entries == [body : Body, at : Nat, expires : Nat]

ASSUME ClientAssumption ==
    /\ Ttl \in Nat \ {0}
    /\ StaleFactor \in Nat \ {0}
    /\ MaxTime \in Nat
    /\ NoEntry \notin Entries

VARIABLES now,        \* time.time()
          primary,    \* the row vt:<indicator>
          stale,      \* the row vt:<indicator>:stale
          lpc,        \* where the lookup of each indicator is
          body,       \* what the live query returned
          result,     \* how the last lookup of each indicator ended
          goodAt      \* history: when the last response whose lookup got through both
                      \* writes was fetched, or -1 if it was not readable or there was none

clientVars == <<now, primary, stale, lpc, body, result, goodAt>>
vars == <<breakerVars, clientVars>>

\* The end of a lookup that serves no cached data.
Ended(a) == [answer |-> a, age |-> 0]

Init ==
    /\ BreakerInit
    /\ now = 0
    /\ primary = [i \in Indicators |-> NoEntry]
    /\ stale = [i \in Indicators |-> NoEntry]
    /\ lpc = [i \in Indicators |-> "idle"]
    /\ body = [i \in Indicators |-> "readable"]
    /\ result = [i \in Indicators |-> Ended("none")]
    /\ goodAt = [i \in Indicators |-> -1]

-----------------------------------------------------------------------------
\* The cache: get() ignores an expired row (and deletes it), set() upserts.
Live(e) == e # NoEntry /\ now <= e.expires

MkEntry(b, t, ttl) == [body |-> b, at |-> t, expires |-> now + ttl]

\* _parse_vt_response of a body that is not readable.
Unread(b) == Ended(IF b = "malformed" THEN "failing" ELSE "raised")

\* _parse_vt_response of a cached entry, or of a fresh body.
FromCache(e) ==
    IF e.body = "readable" THEN [answer |-> "cached", age |-> now - e.at] ELSE Unread(e.body)

FromLive(b) == IF b = "readable" THEN Ended("live") ELSE Unread(b)

Move(i, from, to) ==
    /\ lpc[i] = from
    /\ lpc' = [lpc EXCEPT ![i] = to]

-----------------------------------------------------------------------------
\* One tick for cache ages and breaker alike; it does not fall between the two
\* writes of one response.
Tick ==
    /\ now < MaxTime
    /\ \A i \in Indicators : lpc[i] \notin {"store", "store_stale"}
    /\ now' = now + 1
    /\ BreakerTick
    /\ UNCHANGED <<primary, stale, lpc, body, result, goodAt>>

LookupHit(i) ==
    /\ lpc[i] = "idle"
    /\ Live(primary[i])
    /\ result' = [result EXCEPT ![i] = FromCache(primary[i])]
    /\ UNCHANGED <<breakerVars, now, primary, stale, lpc, body, goodAt>>

LookupMiss(i) ==
    /\ Move(i, "idle", "missed")
    /\ ~Live(primary[i])
    /\ primary' = [primary EXCEPT ![i] = NoEntry]
    /\ UNCHANGED <<breakerVars, now, stale, body, result, goodAt>>

Query(i) ==
    /\ Move(i, "missed", "running")
    /\ BreakerAdmit
    /\ UNCHANGED <<now, primary, stale, body, result, goodAt>>

ShortCircuit(i) ==
    /\ Move(i, "missed", "fallback")
    /\ BreakerReject
    /\ UNCHANGED <<now, primary, stale, body, result, goodAt>>

\* 200 or 404: a success for the breaker.
Respond(i, b) ==
    /\ Move(i, "running", "store")
    /\ BreakerSuccess
    /\ body' = [body EXCEPT ![i] = b]
    /\ UNCHANGED <<now, primary, stale, result, goodAt>>

\* 429, timeout, transport error, any other exception.
QueryRaises(i) ==
    /\ Move(i, "running", "fallback")
    /\ BreakerFailure
    /\ UNCHANGED <<now, primary, stale, body, result, goodAt>>

\* 401: reported as such, without looking at the backup.
AuthFails(i) ==
    /\ Move(i, "running", "idle")
    /\ BreakerFailure
    /\ result' = [result EXCEPT ![i] = Ended("auth_failed")]
    /\ UNCHANGED <<now, primary, stale, body, goodAt>>

StorePrimary(i) ==
    /\ Move(i, "store", "store_stale")
    /\ primary' = [primary EXCEPT ![i] = MkEntry(body[i], now, Ttl)]
    /\ UNCHANGED <<breakerVars, now, stale, body, result, goodAt>>

StoreStale_PrimaryTtl(i) ==
    /\ Move(i, "store_stale", "idle")
    /\ stale' = [stale EXCEPT ![i] = MkEntry(body[i], now, Ttl)]
    /\ goodAt' = [goodAt EXCEPT ![i] = IF body[i] = "readable" THEN now ELSE -1]
    /\ result' = [result EXCEPT ![i] = FromLive(body[i])]
    /\ UNCHANGED <<breakerVars, now, primary, body>>

\* The backup is written whatever the body is, and the body parsed only then.
StoreStale(i) ==
    /\ Move(i, "store_stale", "idle")
    /\ stale' = [stale EXCEPT ![i] = MkEntry(body[i], now, Ttl * StaleFactor)]
    /\ goodAt' = [goodAt EXCEPT ![i] = IF body[i] = "readable" THEN now ELSE -1]
    /\ result' = [result EXCEPT ![i] = FromLive(body[i])]
    /\ UNCHANGED <<breakerVars, now, primary, body>>

Fallback_NoExpiry(i) ==
    /\ Move(i, "fallback", "idle")
    /\ result' = [result EXCEPT ![i] =
           IF stale[i] # NoEntry THEN FromCache(stale[i])
           ELSE Ended("failing")]
    /\ UNCHANGED <<breakerVars, now, primary, stale, body, goodAt>>

\* _serve_stale_or_failing_async
Fallback(i) ==
    /\ Move(i, "fallback", "idle")
    /\ IF Live(stale[i])
       THEN /\ result' = [result EXCEPT ![i] = FromCache(stale[i])]
            /\ UNCHANGED stale
       ELSE /\ result' = [result EXCEPT ![i] = Ended("failing")]
            /\ stale' = [stale EXCEPT ![i] = NoEntry]
    /\ UNCHANGED <<breakerVars, now, primary, body, goodAt>>

\* get() or set() raises, and lookup() with it: what was written before stays.
CacheRaises(i) ==
    /\ lpc[i] \in {"idle", "store", "store_stale", "fallback"}
    /\ lpc' = [lpc EXCEPT ![i] = "idle"]
    /\ result' = [result EXCEPT ![i] = Ended("raised")]
    /\ UNCHANGED <<breakerVars, now, primary, stale, body, goodAt>>

\* The process stops and starts again: the rows stay, the rest is lost.
Restart ==
    /\ state' = "closed" /\ failures' = 0 /\ openFor' = 0
    /\ lpc' = [i \in Indicators |-> "idle"]
    /\ result' = [i \in Indicators |-> Ended("none")]
    /\ UNCHANGED <<now, primary, stale, body, goodAt>>

Next ==
    \/ Tick
    \/ Restart
    \/ \E i \in Indicators :
         \/ LookupHit(i)
         \/ LookupMiss(i)
         \/ Query(i)
         \/ ShortCircuit(i)
         \/ \E b \in Body : Respond(i, b)
         \/ QueryRaises(i)
         \/ AuthFails(i)
         \/ StorePrimary(i)
         \/ StoreStale(i)
         \/ Fallback(i)
         \/ CacheRaises(i)

Spec == Init /\ [][Next]_vars

-----------------------------------------------------------------------------

\* An analyst is never shown VirusTotal data older than the backup's lifetime, by
\* whichever of the two cache rows it was served.
CachedAgeBounded ==
    \A i \in Indicators : result[i].answer = "cached" => result[i].age <= Ttl * StaleFactor

\* "Stale backup survives 7x primary TTL for degraded-mode fallback" (client.py): a
\* failed or short-circuited query answers 'failing' only if the last response that
\* lookup() got through both writes was fetched longer ago than the backup lives, or was
\* not readable (lookup() stores a body before it parses it, so such a one replaces the
\* backup), whatever raised and however often the process was started since.  A response
\* cut off between the writes does not count: the primary row serves it, and no backup.
BackupSurvives ==
    [][ \A i \in Indicators :
          lpc[i] = "fallback" /\ lpc'[i] = "idle" /\ result'[i].answer = "failing" =>
              goodAt[i] = -1 \/ now > goodAt[i] + Ttl * StaleFactor ]_vars
=============================================================================
