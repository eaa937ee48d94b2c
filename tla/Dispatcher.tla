----------------------------- MODULE Dispatcher -----------------------------
(***************************************************************************)
(* AlertDispatcher (src/src/ingestion/dispatcher.py).  Every alert event   *)
(* gets an asyncio task of its own that sleeps through the flow-context    *)
(* delay and then, holding _cap_lock, counts today's alerts, decides       *)
(* between 'queued' and 'deferred' and inserts the row.  The count, the    *)
(* timestamp taken inside insert_alert and the commit are separated by     *)
(* awaits, so other tasks run between them.                                *)
(*                                                                         *)
(* The wake-up order of the sleeping tasks is left open: it includes the   *)
(* order of arrival, which equal delays normally produce.                  *)
(***************************************************************************)
EXTENDS AlertStore

VARIABLES hpc,        \* where the _handle task of each alert event is
          hStatus,    \* its local variable status
          hTs,        \* the value of _now() inside its insert_alert
          capLock     \* the task holding _cap_lock, or NoAlert

dispVars == <<hpc, hStatus, hTs, capLock>>

\* "unread": not yet read from the queue; "pending": sleeping, or waiting for the
\* lock; "counted", "stamped": inside the lock; "lost": ended without a row.
HandlerPC == {"unread", "pending", "counted", "stamped", "done", "lost"}

DispTypeOK ==
    /\ hpc \in [Alerts -> HandlerPC]
    /\ hStatus \in [Alerts -> {"queued", "deferred"}]
    /\ hTs \in [Alerts -> Nat]
    /\ capLock \in Alerts \cup {NoAlert}

DispInit ==
    /\ hpc = [a \in Alerts |-> "unread"]
    /\ hStatus = [a \in Alerts |-> "deferred"]
    /\ hTs = [a \in Alerts |-> 0]
    /\ capLock = NoAlert

\* run(): an alert event is read and its task created.
Dispatch(a) ==
    /\ hpc[a] = "unread"
    /\ hpc' = [hpc EXCEPT ![a] = "pending"]
    /\ UNCHANGED <<hStatus, hTs, capLock, storeVars>>

HandleCount_NoLock(a) ==
    /\ hpc[a] = "pending"
    /\ capLock' = a
    /\ hStatus' = [hStatus EXCEPT
           ![a] = IF count_analyzed_today < DailyCap THEN "queued" ELSE "deferred"]
    /\ hpc' = [hpc EXCEPT ![a] = "counted"]
    /\ UNCHANGED <<hTs, storeVars>>

HandleCount_OffByOne(a) ==
    /\ hpc[a] = "pending"
    /\ capLock = NoAlert
    /\ capLock' = a
    /\ hStatus' = [hStatus EXCEPT
           ![a] = IF count_analyzed_today <= DailyCap THEN "queued" ELSE "deferred"]
    /\ hpc' = [hpc EXCEPT ![a] = "counted"]
    /\ UNCHANGED <<hTs, storeVars>>

\* The delay is over: take the lock, read the count, choose the status.
HandleCount(a) ==
    /\ hpc[a] = "pending"
    /\ capLock = NoAlert
    /\ capLock' = a
    /\ hStatus' = [hStatus EXCEPT
           ![a] = IF count_analyzed_today < DailyCap THEN "queued" ELSE "deferred"]
    /\ hpc' = [hpc EXCEPT ![a] = "counted"]
    /\ UNCHANGED <<hTs, storeVars>>

\* count_analyzed_today raises outside the try: the task dies, the lock is
\* released by the async with, and the alert is never stored.
HandleCountRaises(a) ==
    /\ DbFaults
    /\ hpc[a] = "pending"
    /\ capLock = NoAlert
    /\ hpc' = [hpc EXCEPT ![a] = "lost"]
    /\ UNCHANGED <<hStatus, hTs, capLock, storeVars>>

\* insert_alert evaluates _now() when it builds the row ...
HandleStamp(a) ==
    /\ hpc[a] = "counted"
    /\ hTs' = [hTs EXCEPT ![a] = now]
    /\ hpc' = [hpc EXCEPT ![a] = "stamped"]
    /\ UNCHANGED <<hStatus, capLock, storeVars>>

\* ... and the row is visible once the session commits; the lock is released.
HandleInsert(a) ==
    /\ hpc[a] = "stamped"
    /\ insert_alert(a, hStatus[a], hTs[a])
    /\ hpc' = [hpc EXCEPT ![a] = "done"]
    /\ capLock' = NoAlert
    /\ UNCHANGED <<hStatus, hTs>>

HandleInsertRaises_KeepsLock(a) ==
    /\ DbFaults
    /\ hpc[a] = "stamped"
    /\ hpc' = [hpc EXCEPT ![a] = "lost"]
    /\ UNCHANGED <<hStatus, hTs, capLock, storeVars>>

\* insert_alert raises: logged, the lock released, the alert never stored.
HandleInsertRaises(a) ==
    /\ DbFaults
    /\ hpc[a] = "stamped"
    /\ hpc' = [hpc EXCEPT ![a] = "lost"]
    /\ capLock' = NoAlert
    /\ UNCHANGED <<hStatus, hTs, storeVars>>

HandlerStep(a) ==
    \/ HandleCount(a)
    \/ HandleCountRaises(a)
    \/ HandleStamp(a)
    \/ HandleInsert(a)
    \/ HandleInsertRaises(a)

DispStep == \E a \in Alerts : Dispatch(a) \/ HandlerStep(a)

\* What a stop of the process leaves of the dispatcher: the queued events and
\* the tasks are gone, and the tailer restarts at the end of the file.
DispRestart ==
    /\ hpc' = [a \in Alerts |->
           IF hpc[a] \in {"pending", "counted", "stamped"} THEN "lost" ELSE hpc[a]]
    /\ capLock' = NoAlert
    /\ UNCHANGED <<hStatus, hTs>>
=============================================================================
