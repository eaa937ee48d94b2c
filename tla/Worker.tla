------------------------------- MODULE Worker -------------------------------
(***************************************************************************)
(* TriageWorker (src/src/triage/worker.py): one task that repeatedly takes *)
(* the oldest queued alert and turns it into a verdict, inherited from a   *)
(* recent alert of the same group or produced by the LLM.  Every await on  *)
(* a store is a step of its own; the reads that change nothing (correlated *)
(* events, identity, enrichment, prompt) are folded into the step that     *)
(* follows them.                                                           *)
(***************************************************************************)
EXTENDS AlertStore

VARIABLES wpc,        \* the next await of the worker
          wAlert,     \* the alert in hand
          wFrom,      \* Produced, or the verdict it inherits
          wVerdict    \* the uuid4 of the recorded verdict

workerVars == <<wpc, wAlert, wFrom, wVerdict>>

\* The steps at which _process_alert holds an alert inside its try block.
InTry == {"dequeued", "analyzing", "dedup", "llm",
          "superseding", "recording", "linking"}
WorkerPC == {"idle", "open", "failing"} \cup InTry

WorkerTypeOK ==
    /\ wpc \in WorkerPC
    /\ wAlert \in Alerts \cup {NoAlert}
    /\ wFrom \in Verdicts \cup {Produced}
    /\ wVerdict \in Verdicts \cup {NoVerdict}

WorkerInit ==
    /\ wpc = "idle"
    /\ wAlert = NoAlert
    /\ wFrom = Produced
    /\ wVerdict = NoVerdict

\* Back to the top of the loop; the locals of _process_alert are gone.
ToIdle ==
    /\ wpc' = "idle"
    /\ wAlert' = NoAlert
    /\ wFrom' = Produced
    /\ wVerdict' = NoVerdict

Goto(from, to) ==
    /\ wpc = from
    /\ wpc' = to

-----------------------------------------------------------------------------
DequeueCheckCap_NeverResets ==
    /\ Goto("idle", "open")
    /\ Cardinality(CountsSince(0)) < DailyCap
    /\ UNCHANGED <<wAlert, wFrom, wVerdict, storeVars>>

\* _dequeue_next: the cap check and the query are two transactions.
DequeueCheckCap ==
    /\ Goto("idle", "open")
    /\ count_analyzed_today < DailyCap
    /\ UNCHANGED <<wAlert, wFrom, wVerdict, storeVars>>

DequeueSelect_Newest(a) ==
    /\ Goto("open", "dequeued")
    /\ status[a] = "queued"
    /\ \A b \in Alerts : status[b] = "queued" => ts[b] <= ts[a]
    /\ wAlert' = a
    /\ UNCHANGED <<wFrom, wVerdict, storeVars>>

DequeueSelect(a) ==
    /\ Goto("open", "dequeued")
    /\ OldestQueued(a)
    /\ wAlert' = a
    /\ UNCHANGED <<wFrom, wVerdict, storeVars>>

\* Nothing queued: sleep and poll again.
DequeueEmpty ==
    /\ Goto("open", "idle")
    /\ \A a \in Alerts : status[a] # "queued"
    /\ UNCHANGED <<wAlert, wFrom, wVerdict, storeVars>>

\* A read of _dequeue_next raises: logged by run(), which sleeps and goes on.
DequeueRaises ==
    /\ DbFaults
    /\ Goto("open", "idle")
    /\ UNCHANGED <<wAlert, wFrom, wVerdict, storeVars>>

-----------------------------------------------------------------------------
\* _process_alert
MarkAnalyzing ==
    /\ Goto("dequeued", "analyzing")
    /\ update_alert_status(wAlert, "analyzing")
    /\ UNCHANGED <<wAlert, wFrom, wVerdict>>

\* Correlated events are read, roles assigned and stored.
AssignRoles ==
    /\ Goto("analyzing", "dedup")
    /\ update_alert_role_assignment(wAlert)
    /\ UNCHANGED <<wAlert, wFrom, wVerdict>>

\* A recent produced verdict of the group exists: inherit it.
DedupHit(b) ==
    /\ Goto("dedup", "superseding")
    /\ NewestSource(wAlert, b)
    /\ wFrom' = link[b]
    /\ UNCHANGED <<wAlert, wVerdict, storeVars>>

DedupMiss ==
    /\ Goto("dedup", "llm")
    /\ EligibleSources(wAlert) = {}
    /\ UNCHANGED <<wAlert, wFrom, wVerdict, storeVars>>

\* Identity, enrichment, prompt and the LLM call succeed.
LlmVerdict ==
    /\ Goto("llm", "superseding")
    /\ wFrom' = Produced
    /\ UNCHANGED <<wAlert, wVerdict, storeVars>>

\* Prompt building or the LLM call raises.
LlmRaises ==
    /\ Goto("llm", "failing")
    /\ UNCHANGED <<wAlert, wFrom, wVerdict, storeVars>>

Supersede ==
    /\ Goto("superseding", "recording")
    /\ mark_previous_verdicts_superseded(wAlert)
    /\ UNCHANGED <<wAlert, wFrom, wVerdict>>

Record(v) ==
    /\ Goto("recording", "linking")
    /\ vAlert[v] = NoAlert
    /\ record_verdict(v, wAlert, wFrom)
    /\ wVerdict' = v
    /\ UNCHANGED <<wAlert, wFrom>>

Link_BeforeRecord ==
    /\ wpc \in {"recording", "linking"}
    /\ \E v \in Verdicts :
           /\ IF wpc = "recording" THEN vAlert[v] = NoAlert ELSE v = wVerdict
           /\ link_verdict_to_alert(wAlert, v)
    /\ ToIdle

Link ==
    /\ wpc = "linking"
    /\ link_verdict_to_alert(wAlert, wVerdict)
    /\ ToIdle

\* A store call of the try block raises; the except clause takes over.
StoreRaises ==
    /\ DbFaults
    /\ wpc \in InTry \ {"llm"}
    /\ wpc' = "failing"
    /\ UNCHANGED <<wAlert, wFrom, wVerdict, storeVars>>

MarkFailed_WrongStatus ==
    /\ wpc = "failing"
    /\ update_alert_status(wAlert, "error")
    /\ ToIdle

MarkFailed ==
    /\ wpc = "failing"
    /\ update_alert_status(wAlert, "failed")
    /\ ToIdle

\* The except clause swallows an error of its own update.
MarkFailedRaises ==
    /\ DbFaults
    /\ wpc = "failing"
    /\ ToIdle
    /\ UNCHANGED storeVars

WorkerStep ==
    \/ DequeueCheckCap
    \/ \E a \in Alerts : DequeueSelect(a)
    \/ DequeueEmpty
    \/ DequeueRaises
    \/ MarkAnalyzing
    \/ AssignRoles
    \/ \E b \in Alerts : DedupHit(b)
    \/ DedupMiss
    \/ LlmVerdict
    \/ LlmRaises
    \/ Supersede
    \/ \E v \in Verdicts : Record(v)
    \/ Link
    \/ StoreRaises
    \/ MarkFailed
    \/ MarkFailedRaises
=============================================================================
