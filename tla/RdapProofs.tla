----------------------------- MODULE RdapProofs -----------------------------
(***************************************************************************)
(* The bootstrap of the RDAP client for any number of concurrent lookups,  *)
(* any TTL, and any interleaving with expiry, failures and restarts.       *)
(***************************************************************************)
EXTENDS Rdap, TLAPS

\* A step of a lookup outside the lock's section that leaves the bootstrap alone.
LEMMA OutsideSection ==
    ASSUME BootInv, NEW l \in Lookups, NEW p \in RdapPC \ InLock,
           rpc[l] \notin InLock,
           rpc' = [rpc EXCEPT ![l] = p],
           UNCHANGED <<got, bootVars>>
    PROVE  BootInv'
<1>1. BootTypeOK'
  BY DEF BootInv, BootTypeOK, bootVars
<1>2. \A k \in Lookups : rpc'[k] \in InLock => rpc'[k] = rpc[k]
  BY DEF BootInv, BootTypeOK
<1>3. LockInv'
  BY <1>2 DEF BootInv, LockInv, bootVars
<1>4. \A k \in Lookups : rpc[k] \in InLock => rpc'[k] = rpc[k]
  BY DEF BootInv, BootTypeOK
<1>5. DownloadInv'
  BY <1>4 DEF BootInv, DownloadInv, bootVars, InLock
<1>6. RowInv' /\ MapAgreesWithCache'
  BY <1>2 DEF BootInv, RowInv, MapAgreesWithCache, bootVars, InLock, Live
<1> QED BY <1>1, <1>3, <1>5, <1>6 DEF BootInv

\* A lookup joins the line for the lock: whoever holds it stays in front.
LEMMA Joining ==
    ASSUME BootInv, NEW l \in Lookups, MapMissing(l)
    PROVE  BootInv'
<1>1. BootTypeOK'
  BY DEF BootInv, BootTypeOK, MapMissing, Move, RdapPC
<1>2. \A k \in Lookups : rpc'[k] \in InLock => rpc'[k] = rpc[k]
  BY DEF BootInv, BootTypeOK, MapMissing, Move, InLock
<1>3. lockq # <<>> => lockq' # <<>> /\ lockq'[1] = lockq[1]
  BY DEF BootInv, BootTypeOK, MapMissing
<1>4. LockInv'
  BY <1>2, <1>3 DEF BootInv, LockInv, MapMissing
<1>5. DownloadInv'
  <2>1. \A k \in Lookups : rpc[k] \in InLock => rpc'[k] = rpc[k]
    BY DEF BootInv, BootTypeOK, MapMissing, Move, InLock
  <2> QED BY <2>1 DEF BootInv, DownloadInv, MapMissing, InLock
<1>6. RowInv' /\ MapAgreesWithCache'
  BY <1>2 DEF BootInv, RowInv, MapAgreesWithCache, MapMissing, InLock, Live
<1> QED BY <1>1, <1>4, <1>5, <1>6 DEF BootInv

\* The holder of the lock is alone in the section.
LEMMA Alone ==
    ASSUME BootInv, NEW l \in Lookups, lockq # <<>>, lockq[1] = l
    PROVE  \A k \in Lookups : rpc[k] \in InLock => k = l
BY DEF BootInv, LockInv

\* The lock is acquired: whatever happened while waiting, the map is looked at again.
LEMMA Acquiring ==
    ASSUME BootInv, NEW l \in Lookups, Recheck(l)
    PROVE  BootInv'
<1> USE DEF HoldsLock
<1>1. rpc[l] = "wait" /\ \A k \in Lookups : rpc[k] \notin InLock
  BY Alone DEF Recheck, Move, InLock
<1>2. BootTypeOK'
  <2>1. lockq' \in Seq(Lookups)
    BY DEF BootInv, BootTypeOK, Recheck
  <2>2. rpc' \in [Lookups -> RdapPC]
    BY DEF BootInv, BootTypeOK, Recheck, Move, RdapPC, InLock
  <2> QED BY <2>1, <2>2 DEF BootInv, BootTypeOK, Recheck
<1>3. \A k \in Lookups : rpc'[k] \in InLock => k = l /\ rpc'[k] = "bootget" /\ tldMap = None
  BY <1>1 DEF BootInv, BootTypeOK, Recheck, Move, InLock
<1>4. LockInv'
  BY <1>1, <1>3 DEF BootInv, BootTypeOK, LockInv, Recheck, Move, InLock
<1>5. DownloadInv'
  BY <1>1 DEF BootInv, DownloadInv, Recheck, InLock
<1>6. RowInv' /\ MapAgreesWithCache'
  BY <1>3 DEF BootInv, RowInv, MapAgreesWithCache, Recheck, InLock, Live
<1> QED BY <1>2, <1>4, <1>5, <1>6 DEF BootInv

\* The section itself: row, download, write, assignment, or an exception at any of them.
LEMMA InsideSection ==
    ASSUME BootInv, NEW l \in Lookups, rpc[l] \in InLock,
           \/ BootRead(l)
           \/ \E m \in Maps : Download(l, m)
           \/ BootCache(l)
           \/ BootKeep(l)
           \/ BootRaises(l)
    PROVE  BootInv'
<1>1. lockq # <<>> /\ lockq[1] = l /\ tldMap = None
  BY DEF BootInv, LockInv
<1>2. \A k \in Lookups \ {l} : rpc[k] \notin InLock
  BY <1>1, Alone
<1>3. Tail(lockq) \in Seq(Lookups)
  BY <1>1 DEF BootInv, BootTypeOK
<1>4. Ttl \in Nat /\ None \notin Maps
  BY RdapAssumption DEF Maps
<1>5. CASE BootRead(l)
  <2>1. rpc[l] = "bootget" /\ \A k \in Lookups \ {l} : rpc'[k] = rpc[k]
    BY <1>5 DEF BootRead, Move, BootInv, BootTypeOK
  <2>2. downloads <= faults
    BY <1>1, <1>2, <2>1 DEF BootInv, DownloadInv, InLock
  <2>3. CASE Live(bootRow)
    <3>1. rpc'[l] = "url" /\ bootRow' = bootRow /\ tldMap' = bootRow.body
      BY <1>5, <2>3 DEF BootRead, Move, BootInv, BootTypeOK
    <3>2. bootRow.body \in Maps
      BY <2>3 DEF Live, BootInv, BootTypeOK, Row
    <3>3. BootTypeOK'
      BY <1>5, <2>3, <3>2, <1>3 DEF BootRead, Move, BootInv, BootTypeOK, RdapPC
    <3>4. \A k \in Lookups : rpc'[k] \notin InLock
      BY <1>2, <2>1, <3>1 DEF InLock
    <3>5. DownloadInv'
      BY <1>5, <2>2 DEF BootRead, DownloadInv
    <3> QED BY <3>1, <3>3, <3>4, <3>5
            DEF BootInv, LockInv, RowInv, MapAgreesWithCache, InLock, Live
  <2>4. CASE ~Live(bootRow)
    <3>1. rpc'[l] = "download" /\ bootRow' = None /\ tldMap' = None /\ lockq' = lockq
      BY <1>1, <1>5, <2>4 DEF BootRead, Move, BootInv, BootTypeOK
    <3>2. BootTypeOK'
      BY <1>5, <2>4 DEF BootRead, Move, BootInv, BootTypeOK, RdapPC, InLock
    <3>3. DownloadInv'
      BY <1>5, <2>2 DEF BootRead, DownloadInv
    <3> QED BY <1>1, <1>2, <2>1, <3>1, <3>2, <3>3
            DEF BootInv, LockInv, RowInv, MapAgreesWithCache, InLock, Live
  <2> QED BY <2>3, <2>4
<1>6. ASSUME NEW m \in Maps, Download(l, m) PROVE BootInv'
  <2>1. rpc[l] = "download" /\ rpc'[l] = "bootset" /\ \A k \in Lookups \ {l} : rpc'[k] = rpc[k]
    BY <1>6 DEF Download, Move, BootInv, BootTypeOK
  <2>2. downloads <= faults
    BY <1>1, <1>2, <2>1 DEF BootInv, DownloadInv, InLock
  <2>3. BootTypeOK'
    BY <1>6 DEF Download, Move, BootInv, BootTypeOK, RdapPC, InLock
  <2>4. DownloadInv'
    BY <1>6, <2>1, <2>2 DEF Download, DownloadInv, BootInv, BootTypeOK
  <2>5. got'[l] = m
    BY <1>6 DEF Download, BootInv, BootTypeOK
  <2>6. tldMap' = None /\ lockq' = lockq
    BY <1>1, <1>6 DEF Download
  <2> QED BY <1>1, <1>2, <2>1, <2>3, <2>4, <2>5, <2>6
          DEF BootInv, LockInv, RowInv, MapAgreesWithCache, InLock
<1>7. CASE BootCache(l)
  <2>1. rpc[l] = "bootset" /\ rpc'[l] = "bootmap" /\ \A k \in Lookups \ {l} : rpc'[k] = rpc[k]
    BY <1>7 DEF BootCache, Move, BootInv, BootTypeOK
  <2>2. got[l] \in Maps
    BY <2>1 DEF BootInv, RowInv
  <2>3. BootTypeOK'
    <3>1. bootRow' \in Row(Maps)
      BY <1>4, <1>7, <2>2 DEF BootCache, Row
    <3> QED BY <1>7, <3>1 DEF BootCache, Move, BootInv, BootTypeOK, RdapPC, InLock
  <2>4. DownloadInv'
    BY <1>7, <2>1 DEF BootCache, BootInv, DownloadInv
  <2>5. tldMap' = None /\ lockq' = lockq /\ got' = got /\ bootRow'.body = got[l]
    BY <1>1, <1>7 DEF BootCache
  <2> QED BY <1>1, <1>2, <2>1, <2>2, <2>3, <2>4, <2>5
          DEF BootInv, LockInv, RowInv, MapAgreesWithCache, InLock
<1>8. CASE BootKeep(l)
  <2>1. rpc[l] = "bootmap" /\ rpc'[l] = "url" /\ \A k \in Lookups \ {l} : rpc'[k] = rpc[k]
    BY <1>8 DEF BootKeep, Move, BootInv, BootTypeOK
  <2>2. got[l] \in Maps /\ (Live(bootRow) => bootRow.body = got[l])
    BY <2>1 DEF BootInv, RowInv
  <2>3. BootTypeOK'
    BY <1>3, <1>8, <2>2 DEF BootKeep, Move, BootInv, BootTypeOK, RdapPC
  <2>4. tldMap' = got[l] /\ bootRow' = bootRow
    BY <1>8 DEF BootKeep
  <2>5. DownloadInv'
    BY <1>4, <1>8, <2>2, <2>4 DEF BootKeep, BootInv, BootTypeOK, DownloadInv
  <2>6. \A k \in Lookups : rpc'[k] \notin InLock
    BY <1>2, <2>1 DEF InLock
  <2> QED BY <2>2, <2>3, <2>4, <2>5, <2>6
          DEF BootInv, LockInv, RowInv, MapAgreesWithCache, InLock, Live
<1>9. CASE BootRaises(l)
  <2>1. rpc'[l] = "idle" /\ \A k \in Lookups \ {l} : rpc'[k] = rpc[k]
    BY <1>9 DEF BootRaises, BootInv, BootTypeOK
  <2>2. BootTypeOK'
    BY <1>3, <1>9, RdapAssumption DEF BootRaises, BootInv, BootTypeOK, RdapPC
  <2>3. tldMap' = None /\ downloads' = downloads /\ faults' = faults + 1
    BY <1>1, <1>9 DEF BootRaises
  <2>4. DownloadInv'
    BY <2>3 DEF BootInv, BootTypeOK, DownloadInv
  <2>5. \A k \in Lookups : rpc'[k] \notin InLock
    BY <1>2, <2>1 DEF InLock
  <2> QED BY <2>2, <2>3, <2>4, <2>5
          DEF BootInv, LockInv, RowInv, MapAgreesWithCache, InLock
<1> QED BY <1>5, <1>6, <1>7, <1>8, <1>9

\* A tick ages the row of the map, it does not change it.
LEMMA Aging ==
    ASSUME BootInv, Tick
    PROVE  BootInv'
<1>1. bootRow' \in Row(Maps) \cup {None}
  BY RdapAssumption DEF BootInv, BootTypeOK, Tick, Older, Live, Row
<1>2. Live(bootRow)' => Live(bootRow) /\ bootRow'.body = bootRow.body
  BY DEF BootInv, BootTypeOK, Tick, Older, Live, Row
<1> QED BY <1>1, <1>2
        DEF BootInv, BootTypeOK, LockInv, DownloadInv, RowInv, MapAgreesWithCache, Tick

\* A new process has no map, no download and nobody in the section, whatever row it finds.
LEMMA Restarting ==
    ASSUME BootInv, Restart
    PROVE  BootInv'
<1>1. BootTypeOK'
  BY RdapAssumption DEF BootInv, BootTypeOK, Restart, RdapPC
<1> QED BY <1>1
        DEF BootInv, LockInv, DownloadInv, RowInv, MapAgreesWithCache, Restart, InLock

\* BootInv is inductive: one case per step of a lookup, of time and of the process.
THEOREM BootInductive == Spec => []BootInv
<1>1. Init => BootInv
  BY RdapAssumption
     DEF Init, BootInv, BootTypeOK, LockInv, DownloadInv, RowInv, MapAgreesWithCache,
         RdapPC, InLock
<1>2. ASSUME BootInv, [Next]_vars PROVE BootInv'
  <2>1. CASE UNCHANGED vars
    BY <1>2, <2>1
       DEF BootInv, BootTypeOK, LockInv, DownloadInv, RowInv, MapAgreesWithCache, Live,
           vars, bootVars
  <2>2. CASE Tick
    BY <1>2, <2>2, Aging
  <2>3. CASE Restart
    BY <1>2, <2>3, Restarting
  <2>4. ASSUME NEW l \in Lookups, Begin(l) PROVE BootInv'
    <3>1. CASE CacheHit(l)
      BY <1>2, <3>1
         DEF CacheHit, BootInv, BootTypeOK, LockInv, DownloadInv, RowInv,
             MapAgreesWithCache, Live, bootVars
    <3>2. CASE CacheMiss(l)
      <4>1. PICK p \in {"missed", "expired"} : Move(l, "idle", p)
        BY <3>2 DEF CacheMiss
      <4>2. p \in RdapPC \ InLock /\ rpc[l] \notin InLock /\ rpc' = [rpc EXCEPT ![l] = p]
        BY <4>1 DEF Move, RdapPC, InLock
      <4> QED BY <1>2, <3>2, <4>2, OutsideSection DEF CacheMiss
    <3>3. CASE SelectRaises(l)
      BY <1>2, <3>3
         DEF SelectRaises, BootInv, BootTypeOK, LockInv, DownloadInv, RowInv,
             MapAgreesWithCache, Live, bootVars
    <3> QED BY <2>4, <3>1, <3>2, <3>3 DEF Begin
  <2>5. ASSUME NEW l \in Lookups, Continue(l) PROVE BootInv'
    <3> DEFINE Ordinary(a, b) == rpc[l] = a /\ rpc' = [rpc EXCEPT ![l] = b]
                                 /\ UNCHANGED <<got, bootVars>>
    <3>1. ASSUME NEW a \in RdapPC \ InLock, NEW b \in RdapPC \ InLock, Ordinary(a, b)
          PROVE  BootInv'
      BY <1>2, <3>1, OutsideSection
    <3>2. CASE DeleteExpired(l)
      BY <3>1, <3>2 DEF DeleteExpired, Move, RdapPC, InLock
    <3>3. CASE Admit(l)
      BY <3>1, <3>3 DEF Admit, Move, RdapPC, InLock
    <3>4. CASE Reject(l)
      BY <3>1, <3>4 DEF Reject, Move, RdapPC, InLock
    <3>5. CASE MapKnown(l)
      BY <3>1, <3>5 DEF MapKnown, Move, RdapPC, InLock
    <3>6. CASE MapMissing(l)
      BY <1>2, <3>6, Joining
    <3>7. CASE Recheck(l)
      BY <1>2, <3>7, Acquiring
    <3>8. CASE \/ BootRead(l)
               \/ \E m \in Maps : Download(l, m)
               \/ BootCache(l)
               \/ BootKeep(l)
               \/ BootRaises(l)
      <4>1. rpc[l] \in InLock
        BY <3>8 DEF BootRead, Download, BootCache, BootKeep, BootRaises, Move, InLock
      <4> QED BY <1>2, <3>8, <4>1, InsideSection
    <3>9. CASE RegistryKnown(l)
      BY <3>1, <3>9 DEF RegistryKnown, Move, RdapPC, InLock
    <3>10. CASE RegistryUnknown(l)
      BY <3>1, <3>10 DEF RegistryUnknown, Move, RdapPC, InLock
    <3>11. CASE \E found \in BOOLEAN : Respond(l, found)
      BY <3>1, <3>11 DEF Respond, Move, RdapPC, InLock
    <3>12. CASE FetchFails(l)
      BY <3>1, <3>12 DEF FetchFails, Move, RdapPC, InLock
    <3>13. CASE Store(l)
      BY <3>1, <3>13 DEF Store, Move, RdapPC, InLock
    <3>14. CASE CacheRaises(l)
      BY <3>1, <3>14 DEF CacheRaises, RdapPC, InLock
    <3> QED BY <2>5, <3>2, <3>3, <3>4, <3>5, <3>6, <3>7, <3>8, <3>9, <3>10, <3>11, <3>12,
               <3>13, <3>14 DEF Continue
  <2> QED BY <1>2, <2>1, <2>2, <2>3, <2>4, <2>5 DEF Next
<1> QED BY <1>1, <1>2, PTL DEF Spec

\* However many lookups need the map at once, a process downloads it once, and once more
\* per bootstrap that raised (_get_tld_map in bootstrap.py).
THEOREM OneDownloadCorrect == Spec => []OneDownload
<1>1. BootInv => OneDownload
  BY RdapAssumption DEF BootInv, BootTypeOK, DownloadInv, OneDownload
<1> QED BY <1>1, BootInductive, PTL

\* The map in memory and the live row in the cache are the same map.
THEOREM MapAgreesCorrect == Spec => []MapAgreesWithCache
<1>1. BootInv => MapAgreesWithCache
  BY DEF BootInv
<1> QED BY <1>1, BootInductive, PTL

-----------------------------------------------------------------------------
\* What a live row and an answer about to be stored know of the last answer for their
\* domain: the row has not longer to live than a row stored at that answer would have,
\* and no tick passes between an answer and its row.
FreshInv ==
    /\ rows \in [Domains -> Row({"answer"}) \cup {None}]
    /\ since \in [Domains -> 0 .. Never]
    /\ \A d \in Domains : Live(rows[d]) => since[d] + rows[d].left <= Ttl
    /\ \A l \in Lookups : rpc[l] = "store" => since[DomainOf[l]] = 0

\* A step that touches neither a row nor an answer, and sends no lookup to store one.
LEMMA FreshKept ==
    ASSUME FreshInv, BootTypeOK, NEW l \in Lookups, NEW p \in RdapPC \ {"store"},
           rpc' = [rpc EXCEPT ![l] = p], UNCHANGED <<rows, since>>
    PROVE  FreshInv'
BY DEF FreshInv, BootTypeOK, Live

\* FreshInv is inductive: only Tick, Restart, DeleteExpired, Respond and Store move what
\* it speaks of.
LEMMA FreshInductive == Spec => []FreshInv
<1> USE RdapAssumption
<1>1. Init => FreshInv
  BY DEF Init, FreshInv, Row, Never, Live
<1>2. ASSUME BootInv, FreshInv, [Next]_vars PROVE FreshInv'
  <2>0. BootTypeOK
    BY <1>2 DEF BootInv
  <2>1. CASE UNCHANGED vars
    BY <1>2, <2>1 DEF FreshInv, Live, vars
  <2>2. CASE Tick
    <3>1. /\ rows' = [d \in Domains |-> Older(rows[d])]
          /\ since' = [d \in Domains |-> IF since[d] < Never THEN since[d] + 1 ELSE Never]
          /\ rpc' = rpc /\ \A l \in Lookups : rpc[l] # "store"
      BY <2>2 DEF Tick
    <3>2. since' \in [Domains -> 0 .. Never]
      BY <1>2, <3>1 DEF FreshInv, Never
    <3>3. ASSUME NEW d \in Domains
          PROVE  /\ rows'[d] \in Row({"answer"}) \cup {None}
                 /\ Live(rows'[d]) => since'[d] + rows'[d].left <= Ttl
      <4>1. rows[d] \in Row({"answer"}) \cup {None} /\ since[d] \in 0 .. Never
        BY <1>2 DEF FreshInv
      <4>2. CASE Live(rows[d])
        <5>1. rows'[d] = [rows[d] EXCEPT !.left = rows[d].left - 1]
          BY <3>1, <4>2 DEF Older
        <5>2. since[d] + rows[d].left <= Ttl
          BY <1>2, <4>2 DEF FreshInv
        <5> QED BY <3>1, <4>1, <4>2, <5>1, <5>2 DEF Live, Row, Never
      <4>3. CASE ~Live(rows[d])
        BY <3>1, <4>1, <4>3 DEF Older
      <4> QED BY <4>2, <4>3
    <3>4. rows' \in [Domains -> Row({"answer"}) \cup {None}]
      BY <3>1, <3>3
    <3> QED BY <3>1, <3>2, <3>3, <3>4 DEF FreshInv, Live
  <2>3. CASE Restart
    BY <1>2, <2>3 DEF Restart, FreshInv, Live
  <2>4. ASSUME NEW l \in Lookups, DeleteExpired(l) PROVE FreshInv'
    <3>1. rows' = [rows EXCEPT ![DomainOf[l]] = None] /\ since' = since
      BY <2>4 DEF DeleteExpired
    <3>2. \A k \in Lookups : rpc'[k] = "store" => rpc[k] = "store"
      BY <2>0, <2>4 DEF DeleteExpired, Move, BootTypeOK
    <3> QED BY <1>2, <3>1, <3>2 DEF FreshInv, Live
  <2>5. ASSUME NEW l \in Lookups, NEW found \in BOOLEAN, Respond(l, found) PROVE FreshInv'
    <3>1. since' = [since EXCEPT ![DomainOf[l]] = 0] /\ rows' = rows
      BY <2>5 DEF Respond
    <3>2. \A k \in Lookups : rpc'[k] = "store" => k = l \/ rpc[k] = "store"
      BY <2>0, <2>5 DEF Respond, Move, BootTypeOK
    <3>3. DomainOf[l] \in Domains /\ \A d \in Domains : since[d] \in 0 .. Never
      BY <1>2 DEF FreshInv
    <3>4. \A d \in Domains : Live(rows[d]) => 0 + rows[d].left <= Ttl
      BY <1>2 DEF FreshInv, Live, Row
    <3>5. \A k \in Lookups : rpc'[k] = "store" => since'[DomainOf[k]] = 0
      BY <1>2, <3>1, <3>2, <3>3 DEF FreshInv
    <3>6. since' \in [Domains -> 0 .. Never]
      BY <1>2, <3>1 DEF FreshInv, Never
    <3>7. \A d \in Domains : Live(rows'[d]) => since'[d] + rows'[d].left <= Ttl
      BY <1>2, <3>1, <3>4 DEF FreshInv
    <3> QED BY <1>2, <3>1, <3>5, <3>6, <3>7 DEF FreshInv
  <2>6. ASSUME NEW l \in Lookups, Store(l) PROVE FreshInv'
    <3>1. /\ rows' = [rows EXCEPT ![DomainOf[l]] = [body |-> "answer", left |-> Ttl]]
          /\ since' = since /\ rpc[l] = "store"
      BY <2>6 DEF Store, Move
    <3>2. \A k \in Lookups : rpc'[k] = "store" => rpc[k] = "store"
      BY <2>0, <2>6 DEF Store, Move, BootTypeOK
    <3>3. since[DomainOf[l]] = 0 /\ DomainOf[l] \in Domains
      BY <1>2, <3>1 DEF FreshInv
    <3>4. [body |-> "answer", left |-> Ttl] \in Row({"answer"})
      BY DEF Row
    <3>5. rows' \in [Domains -> Row({"answer"}) \cup {None}]
      BY <1>2, <3>1, <3>4 DEF FreshInv
    <3>6. \A d \in Domains : Live(rows'[d]) => since'[d] + rows'[d].left <= Ttl
      BY <1>2, <3>1, <3>3 DEF FreshInv, Live
    <3> QED BY <1>2, <3>1, <3>2, <3>5, <3>6 DEF FreshInv
  <2>7. ASSUME NEW l \in Lookups, CacheHit(l) \/ SelectRaises(l) PROVE FreshInv'
    BY <1>2, <2>7 DEF CacheHit, SelectRaises, FreshInv, Live
  <2>8. ASSUME NEW l \in Lookups,
               \/ CacheMiss(l) \/ Admit(l) \/ Reject(l) \/ MapKnown(l) \/ MapMissing(l)
               \/ Recheck(l) \/ BootRead(l) \/ (\E m \in Maps : Download(l, m))
               \/ BootCache(l) \/ BootKeep(l) \/ BootRaises(l) \/ RegistryKnown(l)
               \/ RegistryUnknown(l) \/ FetchFails(l) \/ CacheRaises(l)
        PROVE  FreshInv'
    <3>1. UNCHANGED <<rows, since>>
      BY <2>8 DEF CacheMiss, Admit, Reject, MapKnown, MapMissing, Recheck, BootRead,
                  Download, BootCache, BootKeep, BootRaises, RegistryKnown,
                  RegistryUnknown, FetchFails, CacheRaises
    <3>2. \E p \in RdapPC \ {"store"} : rpc' = [rpc EXCEPT ![l] = p]
      BY <2>8 DEF CacheMiss, Admit, Reject, MapKnown, MapMissing, Recheck, BootRead,
                  Download, BootCache, BootKeep, BootRaises, RegistryKnown,
                  RegistryUnknown, FetchFails, CacheRaises, Move, RdapPC, InLock
    <3> QED BY <1>2, <2>0, <3>1, <3>2, FreshKept
  <2> QED BY <1>2, <2>1, <2>2, <2>3, <2>4, <2>5, <2>6, <2>7, <2>8 DEF Next, Begin, Continue
<1> QED BY <1>1, <1>2, BootInductive, PTL DEF Spec

\* No registration data is reported, from the cache or from a registry, unless a registry
\* answered for the domain within the lifetime of a row (lookup in rdap/client.py), for
\* any TTL, any number of lookups that share a row, and across restarts.
THEOREM AnswersFreshCorrect == Spec => AnswersFresh
<1> USE RdapAssumption
<1>1. ASSUME BootInv, FreshInv, [Next]_vars
      PROVE  [result' # result /\ result' # None /\ result'.status = "contributed"
                => since[result'.domain] <= Ttl]_vars
  <2> SUFFICES ASSUME Next, result' # result, result' # None,
                      result'.status = "contributed"
               PROVE  since[result'.domain] <= Ttl
    BY <1>1
  <2>1. ASSUME NEW l \in Lookups, CacheHit(l)
        PROVE  since[result'.domain] <= Ttl
    <3>1. Live(rows[DomainOf[l]]) /\ result'.domain = DomainOf[l]
      BY <2>1 DEF CacheHit, Finish
    <3>2. DomainOf[l] \in Domains
      OBVIOUS
    <3>3. since[DomainOf[l]] + rows[DomainOf[l]].left <= Ttl
      BY <1>1, <3>1, <3>2 DEF FreshInv
    <3> QED BY <1>1, <3>1, <3>2, <3>3 DEF FreshInv, Live, Row, Never
  <2>2. ASSUME NEW l \in Lookups, Store(l)
        PROVE  since[result'.domain] <= Ttl
    BY <1>1, <2>2 DEF Store, Move, Finish, FreshInv
  <2>3. ASSUME NEW l \in Lookups,
               \/ Reject(l) \/ BootRaises(l) \/ RegistryUnknown(l) \/ FetchFails(l)
               \/ CacheRaises(l) \/ SelectRaises(l)
        PROVE  FALSE
    <3>1. result' = [domain |-> DomainOf[l], status |-> "failing"]
      BY <2>3 DEF Reject, BootRaises, RegistryUnknown, FetchFails, CacheRaises,
                  SelectRaises, Finish
    <3> QED BY <3>1
  <2>4. ASSUME NEW l \in Lookups,
               \/ CacheMiss(l) \/ DeleteExpired(l) \/ Admit(l) \/ MapKnown(l)
               \/ MapMissing(l) \/ Recheck(l) \/ BootRead(l)
               \/ (\E m \in Maps : Download(l, m)) \/ BootCache(l) \/ BootKeep(l)
               \/ RegistryKnown(l) \/ (\E found \in BOOLEAN : Respond(l, found))
        PROVE  FALSE
    BY <2>4 DEF CacheMiss, DeleteExpired, Admit, MapKnown, MapMissing, Recheck, BootRead,
                Download, BootCache, BootKeep, RegistryKnown, Respond
  <2>5. CASE Tick \/ Restart
    BY <2>5 DEF Tick, Restart
  <2> QED BY <2>1, <2>2, <2>3, <2>4, <2>5 DEF Next, Begin, Continue
<1> QED BY <1>1, BootInductive, FreshInductive, PTL DEF Spec, AnswersFresh
=============================================================================
