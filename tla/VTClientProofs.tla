--------------------------- MODULE VTClientProofs ---------------------------
(***************************************************************************)
(* The two cache rows of the VirusTotal client, for any number of          *)
(* indicators, any TTL and any factor between the lives of the rows,       *)
(* whatever the circuit breaker answers, whichever call of the cache       *)
(* raises and wherever the process stops.                                  *)
(***************************************************************************)
EXTENDS VTClient, TLAPS

\* The inductive invariant behind CachedAgeBounded and BackupSurvives: a row expires a
\* fixed time after its response (RowsInv), and the backup holds the last response that
\* got through both writes for as long as it should (BackupInv): the next one takes its
\* place in the step that counts it, so neither a raise nor a stop between the writes
\* takes the older one away.
Lifetime == Ttl * StaleFactor
Storing  == {"store", "store_stale"}
Pcs      == {"idle", "missed", "running", "fallback"} \cup Storing

TypeOK ==
    /\ now \in Nat
    /\ primary \in [Indicators -> Entries \cup {NoEntry}]
    /\ stale \in [Indicators -> Entries \cup {NoEntry}]
    /\ lpc \in [Indicators -> Pcs]
    /\ body \in [Indicators -> Body]
    /\ result \in [Indicators -> [answer : {"none", "live", "cached", "failing",
                                            "auth_failed", "raised"}, age : Int]]
    /\ goodAt \in [Indicators -> Nat \cup {-1}]

RowsInv ==
    \A i \in Indicators :
        /\ primary[i] # NoEntry => primary[i].expires = primary[i].at + Ttl
        /\ stale[i] # NoEntry => stale[i].expires = stale[i].at + Lifetime

BackupInv ==
    \A i \in Indicators :
        goodAt[i] # -1 =>
            \/ now > goodAt[i] + Lifetime
            \/ /\ stale[i] # NoEntry
               /\ stale[i].body = "readable"
               /\ stale[i].at = goodAt[i]

ClientInv == TypeOK /\ RowsInv /\ BackupInv /\ CachedAgeBounded

-----------------------------------------------------------------------------
\* The backup lives at least as long as the primary row.
LEMMA LifetimeCovers == Lifetime \in Nat /\ Ttl \in Nat /\ Ttl <= Lifetime
<1>1. Ttl \in Nat /\ StaleFactor \in Nat /\ StaleFactor >= 1
  BY ClientAssumption
<1> QED BY <1>1 DEF Lifetime

\* What is served from a row that has not expired is not older than the row may be.
LEMMA ServedAge ==
    ASSUME now \in Nat, NEW e \in Entries, NEW life \in Nat, life <= Lifetime,
           e.expires = e.at + life, Live(e)
    PROVE  /\ FromCache(e) \in [answer : {"cached", "failing", "raised"}, age : Int]
           /\ FromCache(e).answer = "cached" => FromCache(e).age <= Lifetime
<1>1. now <= e.at + life /\ e.at \in Nat
  BY DEF Live, Entries
<1> QED BY <1>1, LifetimeCovers DEF FromCache, Unread, Ended

\* A new row is a row.
LEMMA NewEntry ==
    ASSUME now \in Nat, NEW b \in Body, NEW life \in Nat
    PROVE  /\ MkEntry(b, now, life) \in Entries
           /\ MkEntry(b, now, life) # NoEntry
           /\ MkEntry(b, now, life).body = b
           /\ MkEntry(b, now, life).at = now
           /\ MkEntry(b, now, life).expires = now + life
<1>1. MkEntry(b, now, life) \in Entries
  BY DEF MkEntry, Entries
<1> QED BY <1>1, ClientAssumption DEF MkEntry

\* ClientInv is inductive, one step per operation of the client and of time.
THEOREM ClientInductive == Spec => []ClientInv
<1> USE ClientAssumption, LifetimeCovers
<1>1. Init => ClientInv
  <2> SUFFICES ASSUME Init PROVE ClientInv
    OBVIOUS
  <2>1. TypeOK
    BY DEF Init, TypeOK, Body, Pcs, Ended
  <2> QED BY <2>1 DEF Init, ClientInv, RowsInv, BackupInv, CachedAgeBounded, Ended
<1>2. ASSUME ClientInv, [Next]_vars PROVE ClientInv'
  <2> USE <1>2
  <2>0. TypeOK /\ RowsInv /\ BackupInv /\ CachedAgeBounded
    BY DEF ClientInv
  <2>1. CASE Tick
    <3>1. now' = now + 1 /\ UNCHANGED <<primary, stale, lpc, body, result, goodAt>>
      BY <2>1 DEF Tick
    <3>2. TypeOK' /\ RowsInv' /\ CachedAgeBounded'
      BY <2>0, <3>1 DEF TypeOK, RowsInv, CachedAgeBounded
    <3>3. BackupInv'
      BY <2>0, <3>1 DEF TypeOK, BackupInv
    <3> QED BY <3>2, <3>3 DEF ClientInv
  <2>2. ASSUME NEW i \in Indicators, LookupHit(i) PROVE ClientInv'
    <3>1. /\ Live(primary[i]) /\ result' = [result EXCEPT ![i] = FromCache(primary[i])]
          /\ UNCHANGED <<now, primary, stale, lpc, body, goodAt>>
      BY <2>2 DEF LookupHit
    <3>2. primary[i] \in Entries /\ primary[i].expires = primary[i].at + Ttl
      BY <2>0, <3>1 DEF Live, TypeOK, RowsInv
    <3>3. /\ FromCache(primary[i]) \in [answer : {"cached", "failing", "raised"}, age : Int]
          /\ FromCache(primary[i]).answer = "cached" => FromCache(primary[i]).age <= Lifetime
      BY <2>0, <3>1, <3>2, ServedAge DEF TypeOK
    <3>4. TypeOK' /\ CachedAgeBounded'
      BY <2>0, <3>1, <3>3 DEF TypeOK, CachedAgeBounded, Lifetime
    <3> QED BY <2>0, <3>1, <3>4 DEF ClientInv, RowsInv, BackupInv
  <2>3. ASSUME NEW i \in Indicators, LookupMiss(i) PROVE ClientInv'
    <3>1. /\ lpc' = [lpc EXCEPT ![i] = "missed"]
          /\ primary' = [primary EXCEPT ![i] = NoEntry]
          /\ UNCHANGED <<now, stale, body, result, goodAt>>
      BY <2>3 DEF LookupMiss, Move
    <3> QED BY <2>0, <3>1
            DEF ClientInv, TypeOK, RowsInv, BackupInv, CachedAgeBounded, Pcs
  <2>4. ASSUME NEW i \in Indicators, Query(i) \/ ShortCircuit(i) \/ QueryRaises(i)
        PROVE  ClientInv'
    <3>1. /\ \E p \in Pcs : lpc' = [lpc EXCEPT ![i] = p]
          /\ UNCHANGED <<now, primary, stale, body, result, goodAt>>
      BY <2>4 DEF Query, ShortCircuit, QueryRaises, Move, Pcs
    <3> QED BY <2>0, <3>1 DEF ClientInv, TypeOK, RowsInv, BackupInv, CachedAgeBounded
  <2>5. ASSUME NEW i \in Indicators, AuthFails(i) \/ CacheRaises(i) PROVE ClientInv'
    <3>1. /\ lpc' = [lpc EXCEPT ![i] = "idle"]
          /\ \E a \in {"auth_failed", "raised"} :
                result' = [result EXCEPT ![i] = [answer |-> a, age |-> 0]]
          /\ UNCHANGED <<now, primary, stale, body, goodAt>>
      BY <2>5 DEF AuthFails, CacheRaises, Move, Ended
    <3> QED BY <2>0, <3>1
            DEF ClientInv, TypeOK, RowsInv, BackupInv, CachedAgeBounded, Pcs
  <2>6. ASSUME NEW i \in Indicators, NEW b \in Body, Respond(i, b) PROVE ClientInv'
    <3>1. /\ lpc' = [lpc EXCEPT ![i] = "store"]
          /\ body' = [body EXCEPT ![i] = b]
          /\ UNCHANGED <<now, primary, stale, result, goodAt>>
      BY <2>6 DEF Respond, Move
    <3> QED BY <2>0, <3>1
            DEF ClientInv, TypeOK, RowsInv, BackupInv, CachedAgeBounded, Pcs, Storing
  <2>7. ASSUME NEW i \in Indicators, StorePrimary(i) PROVE ClientInv'
    <3> DEFINE e == MkEntry(body[i], now, Ttl)
    <3>1. /\ lpc' = [lpc EXCEPT ![i] = "store_stale"]
          /\ primary' = [primary EXCEPT ![i] = e]
          /\ UNCHANGED <<now, stale, body, result, goodAt>>
      BY <2>7 DEF StorePrimary, Move
    <3>2. e \in Entries /\ e.expires = e.at + Ttl
      BY <2>0, NewEntry DEF TypeOK
    <3> HIDE DEF e
    <3>3. TypeOK' /\ RowsInv'
      BY <2>0, <3>1, <3>2 DEF TypeOK, RowsInv, Pcs, Storing
    <3> QED BY <2>0, <3>1, <3>3 DEF ClientInv, BackupInv, CachedAgeBounded
  <2>8. ASSUME NEW i \in Indicators, StoreStale(i) PROVE ClientInv'
    <3> DEFINE e == MkEntry(body[i], now, Lifetime)
    <3>1. /\ lpc' = [lpc EXCEPT ![i] = "idle"]
          /\ stale' = [stale EXCEPT ![i] = e]
          /\ goodAt' = [goodAt EXCEPT ![i] = IF body[i] = "readable" THEN now ELSE -1]
          /\ result' = [result EXCEPT ![i] = FromLive(body[i])]
          /\ UNCHANGED <<now, primary, body>>
      BY <2>8 DEF StoreStale, Move, Lifetime
    <3>2. /\ e \in Entries /\ e # NoEntry /\ e.body = body[i] /\ e.at = now
          /\ e.expires = e.at + Lifetime
      BY <2>0, NewEntry DEF TypeOK
    <3> HIDE DEF e
    <3>3. FromLive(body[i]) \in [answer : {"live", "failing", "raised"}, age : Int]
      BY DEF FromLive, Unread, Ended
    <3>4. TypeOK' /\ RowsInv' /\ CachedAgeBounded'
      BY <2>0, <3>1, <3>2, <3>3 DEF TypeOK, RowsInv, CachedAgeBounded, Pcs
    <3>5. BackupInv'
      BY <2>0, <3>1, <3>2 DEF TypeOK, BackupInv
    <3> QED BY <3>4, <3>5 DEF ClientInv
  <2>9. ASSUME NEW i \in Indicators, Fallback(i) PROVE ClientInv'
    <3>1. /\ lpc' = [lpc EXCEPT ![i] = "idle"]
          /\ UNCHANGED <<now, primary, body, goodAt>>
      BY <2>9 DEF Fallback, Move
    <3>2. CASE Live(stale[i])
      <4>1. result' = [result EXCEPT ![i] = FromCache(stale[i])] /\ stale' = stale
        BY <2>9, <3>2 DEF Fallback
      <4>2. stale[i] \in Entries /\ stale[i].expires = stale[i].at + Lifetime
        BY <2>0, <3>2 DEF Live, TypeOK, RowsInv
      <4>3. /\ FromCache(stale[i]) \in [answer : {"cached", "failing", "raised"}, age : Int]
            /\ FromCache(stale[i]).answer = "cached" => FromCache(stale[i]).age <= Lifetime
        BY <2>0, <3>2, <4>2, ServedAge DEF TypeOK
      <4>4. TypeOK' /\ CachedAgeBounded'
        BY <2>0, <3>1, <4>1, <4>3 DEF TypeOK, CachedAgeBounded, Lifetime, Pcs
      <4> QED BY <2>0, <3>1, <4>1, <4>4 DEF ClientInv, RowsInv, BackupInv
    <3>3. CASE ~Live(stale[i])
      <4>1. /\ result' = [result EXCEPT ![i] = [answer |-> "failing", age |-> 0]]
            /\ stale' = [stale EXCEPT ![i] = NoEntry]
        BY <2>9, <3>3 DEF Fallback, Ended
      <4>2. TypeOK' /\ RowsInv' /\ CachedAgeBounded'
        BY <2>0, <3>1, <4>1 DEF TypeOK, RowsInv, CachedAgeBounded, Pcs
      <4>3. goodAt[i] # -1 => now > goodAt[i] + Lifetime
        BY <2>0, <3>3 DEF TypeOK, RowsInv, BackupInv, Live, Entries
      <4>4. BackupInv'
        BY <2>0, <3>1, <4>1, <4>3 DEF TypeOK, BackupInv
      <4> QED BY <4>2, <4>4 DEF ClientInv
    <3> QED BY <3>2, <3>3
  <2>10. CASE Restart
    <3>1. /\ lpc' = [i \in Indicators |-> "idle"]
          /\ result' = [i \in Indicators |-> [answer |-> "none", age |-> 0]]
          /\ UNCHANGED <<now, primary, stale, body, goodAt>>
      BY <2>10 DEF Restart, Ended
    <3> QED BY <2>0, <3>1
            DEF ClientInv, TypeOK, RowsInv, BackupInv, CachedAgeBounded, Pcs
  <2>11. CASE UNCHANGED vars
    BY <2>0, <2>11 DEF ClientInv, TypeOK, RowsInv, BackupInv, CachedAgeBounded,
                      vars, clientVars
  <2> QED BY <2>1, <2>2, <2>3, <2>4, <2>5, <2>6, <2>7, <2>8, <2>9, <2>10, <2>11 DEF Next
<1> QED BY <1>1, <1>2, PTL DEF Spec

\* No analyst is shown VirusTotal data older than the backup lives, from whichever row it
\* comes (lookup and _serve_stale_or_failing_async in virustotal/client.py).
THEOREM CachedAgeCorrect == Spec => []CachedAgeBounded
<1>1. ClientInv => CachedAgeBounded
  BY DEF ClientInv
<1> QED BY <1>1, ClientInductive, PTL

\* The backup is there when it is needed: a lookup whose query failed or was
\* short-circuited answers 'failing' only if the last response that got through both
\* writes is older than the backup lives or was not readable, also after raising writes
\* and restarts.
THEOREM BackupSurvivesCorrect == Spec => BackupSurvives
<1>1. ASSUME ClientInv, [Next]_vars
      PROVE  [\A i \in Indicators :
                 lpc[i] = "fallback" /\ lpc'[i] = "idle" /\ result'[i].answer = "failing" =>
                     goodAt[i] = -1 \/ now > goodAt[i] + Ttl * StaleFactor]_vars
  <2> SUFFICES ASSUME Next, NEW i \in Indicators, lpc[i] = "fallback", lpc'[i] = "idle",
                      result'[i].answer = "failing", goodAt[i] # -1
               PROVE  now > goodAt[i] + Lifetime
    BY <1>1 DEF Lifetime
  <2>0. TypeOK /\ RowsInv /\ BackupInv
    BY <1>1 DEF ClientInv
  <2>1. Fallback(i)
    <3>1. ~Restart
      BY DEF Restart, Ended
    <3>2. ASSUME NEW j \in Indicators, CacheRaises(j) PROVE FALSE
      <4>1. CASE j = i
        BY <2>0, <3>2, <4>1 DEF CacheRaises, Ended, TypeOK
      <4>2. CASE j # i
        BY <2>0, <3>2, <4>2 DEF CacheRaises, TypeOK
      <4> QED BY <4>1, <4>2
    <3> QED BY <2>0, <3>1, <3>2
            DEF Next, Tick, LookupHit, LookupMiss, Query, ShortCircuit, Respond,
                QueryRaises, AuthFails, StorePrimary, StoreStale, Fallback, Move, TypeOK
  <2> SUFFICES ASSUME /\ stale[i] # NoEntry
                      /\ stale[i].body = "readable"
                      /\ stale[i].at = goodAt[i]
               PROVE  now > goodAt[i] + Lifetime
    BY <2>0 DEF BackupInv
  <2>2. CASE Live(stale[i])
    <3>1. result'[i] = [answer |-> "cached", age |-> now - stale[i].at]
      BY <2>0, <2>1, <2>2 DEF Fallback, FromCache, TypeOK
    <3> QED BY <3>1
  <2>3. CASE ~Live(stale[i])
    BY <2>0, <2>3, LifetimeCovers DEF Live, RowsInv, TypeOK, Entries
  <2> QED BY <2>2, <2>3
<1> QED BY <1>1, ClientInductive, PTL DEF Spec, BackupSurvives
=============================================================================
