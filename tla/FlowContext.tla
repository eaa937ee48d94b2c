----------------------------- MODULE FlowContext ----------------------------
(***************************************************************************)
(* What the worker can know of an alert's flow: the pipeline that stores   *)
(* events (Indexer), the dispatcher's context delay before an alert enters *)
(* the table (src/src/ingestion/dispatcher.py), the worker's one read of   *)
(* the flow (src/src/triage/worker.py) and the nightly deletion of old     *)
(* events (src/src/triage/cleanup.py), on one clock.                       *)
(*                                                                         *)
(* All events stand for events of one flow; events of other flows only     *)
(* fill batches.  The cap and the queue in front of the worker are         *)
(* Triage's: here an alert in the table may be read at any later time.     *)
(***************************************************************************)
EXTENDS Indexer, FiniteSets

CONSTANTS Delay,       \* VX_FLOW_CONTEXT_DELAY_SECONDS, in ticks
          Retention,   \* VX_EVE_CONTEXT_RETENTION_DAYS, in ticks
          MaxReplayed  \* bound on the events that are past retention when read

ASSUME ContextAssumption == {Delay, Retention, MaxReplayed} \subseteq Nat

VARIABLES age,       \* age[n]: ticks since the tailer read event n, at most Oldest
          old,       \* events whose own timestamp was past retention when read (a replay)
          sleeping,  \* sleeping[n]: what is left of the sleep of alert n's task
          inTable,   \* alerts in the alerts table whose flow the worker has still to read
          expired    \* indexes of stored whose rows the cleanup has deleted

contextVars == <<age, old, sleeping, inTable, expired>>
vars == <<indexerVars, contextVars>>

Oldest == Retention + 1

Running == ipc \in {"wait", "flush"}

Without(f, n) == [m \in DOMAIN f \ {n} |-> f[m]]
With(f, n, v) == [m \in DOMAIN f \cup {n} |-> IF m = n THEN v ELSE f[m]]

Init ==
    /\ IndexerInit
    /\ age = <<>>
    /\ old = {}
    /\ sleeping = [n \in {} |-> 0]
    /\ inTable = {}
    /\ expired = {}

-----------------------------------------------------------------------------
\* The tailer reads an event, alert or not, new or replayed.
EventRead(a, replayed) ==
    /\ Arrive(a)
    /\ replayed => Cardinality(old) < MaxReplayed
    /\ age' = Append(age, 0)
    /\ old' = IF replayed THEN old \cup {arrived'} ELSE old
    /\ UNCHANGED <<sleeping, inTable, expired>>

\* A step of the pipeline.  An alert put on the dispatcher's queue starts its task; a
\* cancellation ends all of them.
PipelineStep ==
    /\ IndexerStep
    /\ sleeping' = IF ipc' \notin {"wait", "flush"} THEN [n \in {} |-> 0]
                   ELSE IF dispatched' = dispatched THEN sleeping
                   ELSE With(sleeping, dispatched'[Len(dispatched')], Delay)
    /\ UNCHANGED <<age, old, inTable, expired>>

\* Time passes for all at once, and after the end of the pipeline too.
Older ==
    /\ \A n \in DOMAIN sleeping : sleeping[n] > 0
    /\ age' = [n \in DOMAIN age |-> IF age[n] < Oldest THEN age[n] + 1 ELSE Oldest]
    /\ sleeping' = [n \in DOMAIN sleeping |-> sleeping[n] - 1]
    /\ UNCHANGED <<old, inTable, expired>>

TimePasses ==
    \/ Tick /\ Older
    \/ ipc = "stopped" /\ Older /\ UNCHANGED indexerVars

\* _handle: the sleep is over and the alert is inserted.
HandleInsert(n) ==
    /\ Running
    /\ n \in DOMAIN sleeping /\ sleeping[n] = 0
    /\ sleeping' = Without(sleeping, n)
    /\ inTable' = inTable \cup {n}
    /\ UNCHANGED <<indexerVars, age, old, expired>>

-----------------------------------------------------------------------------
Rows == {stored[i] : i \in DOMAIN stored \ expired}

\* The worker takes the alert up and calls get_correlated_events: it sees Rows.
ReadFlow(n) ==
    /\ n \in inTable
    /\ inTable' = inTable \ {n}
    /\ UNCHANGED <<indexerVars, age, old, sleeping, expired>>

PastRetention(n) == n \in old \/ age[n] > Retention

Cleanup_OffByOne ==
    /\ expired' = expired \cup {i \in DOMAIN stored :
                                  stored[i] \in old \/ age[stored[i]] >= Retention}
    /\ expired' # expired
    /\ UNCHANGED <<indexerVars, age, old, sleeping, inTable>>

\* run_once: delete_expired_eve_events by the events' own timestamps.  The time of the
\* nightly pass is left open; a pass that raises deletes nothing and is logged.
Cleanup ==
    /\ expired' = expired \cup {i \in DOMAIN stored : PastRetention(stored[i])}
    /\ expired' # expired
    /\ UNCHANGED <<indexerVars, age, old, sleeping, inTable>>

Next ==
    \/ \E a, r \in BOOLEAN : EventRead(a, r)
    \/ PipelineStep
    \/ TimePasses
    \/ \E n \in DOMAIN sleeping : HandleInsert(n)
    \/ \E n \in inTable : ReadFlow(n)
    \/ Cleanup

Spec == Init /\ [][Next]_vars

\* The event loop serves its tasks and time passes.  Nothing is assumed of the tailer,
\* of a cancellation, of the worker or of the cleanup; MaxFaults bounds the failures.
FairSpec ==
    /\ Spec
    /\ WF_vars(Broadcast /\ PipelineStep)
    /\ WF_vars(Step /\ PipelineStep)
    /\ WF_vars(TimePasses)
    /\ WF_vars(\E n \in DOMAIN sleeping : HandleInsert(n))

-----------------------------------------------------------------------------
\* The dispatcher waits "so that correlated flow/http/dns records have time to land in
\* the EventStore" (dispatcher.py), but nothing makes it wait for them: a batch that keeps
\* being joined, or a slow flush, outlasts the delay.  What the worker then misses is
\* always the end of the flow: whatever flush failed, was cancelled or was written twice
\* and whatever the cleanup deleted, it never sees an event without those before it,
\* unless they are past retention.
ContextNoGaps ==
    [][ \A n \in inTable \ inTable' : \A m \in Rows : \A k \in 1 .. m :
            k \in Rows \/ PastRetention(k) ]_vars

\* A transient failure only delays: unless cancelled, the indexer stores every event.
EventuallyStored ==
    []Running =>
        \A n \in 1 .. MaxEvents :
            (arrived >= n) ~> \E i \in DOMAIN stored : stored[i] = n
=============================================================================
