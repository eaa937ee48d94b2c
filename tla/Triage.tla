------------------------------- MODULE Triage -------------------------------
(***************************************************************************)
(* The dispatcher's tasks, the worker and the clock, interleaved on one    *)
(* alert store: what main.py's lifespan starts.  Restart is a stop of the  *)
(* process at any await, by crash or by cancellation, and a new start: the *)
(* tables survive, every task and local variable is lost, and nothing in   *)
(* the start-up code looks at alerts left behind.                          *)
(***************************************************************************)
EXTENDS Dispatcher, Worker

CONSTANT Crashes      \* may the process stop and start again?

ASSUME CrashesAssumption == Crashes \in BOOLEAN

vars == <<storeVars, dispVars, workerVars>>

TypeOK == StoreTypeOK /\ DispTypeOK /\ WorkerTypeOK

Init == StoreInit /\ DispInit /\ WorkerInit

Restart_Requeues ==
    /\ Crashes
    /\ DispRestart
    /\ ToIdle
    /\ status' = [a \in Alerts |-> IF status[a] = "analyzing" THEN "queued" ELSE status[a]]
    /\ UNCHANGED <<now, ts, link, hasRole, verdictVars>>

Restart ==
    /\ Crashes
    /\ DispRestart
    /\ ToIdle
    /\ UNCHANGED storeVars

\* What happens while the process runs.
Run ==
    \/ Tick /\ UNCHANGED <<dispVars, workerVars>>
    \/ DispStep /\ UNCHANGED workerVars
    \/ WorkerStep /\ UNCHANGED dispVars

Next == Run \/ Restart

Spec == Init /\ [][Next]_vars

(***************************************************************************)
(* Fairness.  The event loop runs every ready task, so an enabled step of  *)
(* the worker and of each handler is eventually taken.  Arrivals and ticks *)
(* are the environment's and are not fair; of a call that may raise,       *)
(* neither outcome is promised.  Progress is a matter of one run of the    *)
(* process: a stop leaves the alert in hand 'analyzing' for good.          *)
(***************************************************************************)
Fairness ==
    /\ WF_vars(WorkerStep /\ UNCHANGED dispVars)
    /\ \A a \in Alerts : WF_vars(HandlerStep(a) /\ UNCHANGED workerVars)

FairSpec == Init /\ [][Run]_vars /\ Fairness

-----------------------------------------------------------------------------
(***************************************************************************)
(* Safety.                                                                 *)
(***************************************************************************)

\* The queue is FIFO end to end: whatever the worker has taken was ingested no
\* later than whatever still waits, although handlers count, stamp and commit in
\* separate steps (_cap_lock, query_alerts' ORDER BY).
FifoOrder ==
    \A a, b \in Alerts :
        status[a] \in TakenStatus /\ status[b] = "queued" => ts[a] <= ts[b]

\* The claim of find_recent_verdict_for_group's docstring: when the worker looks
\* for a source, no analyzed alert is newer than the candidate, so the upper bound
\* of the dedup window rejects nothing.
UpperBoundRejectsNothing ==
    wpc = "dedup" =>
        \A b \in Alerts : status[b] = "analyzed" => ts[b] <= ts[wAlert]

\* An alert shown as analyzed has its roles, and the verdict it links to is its
\* own and the current one, whatever failed or stopped between the three
\* transactions that persist a verdict.
AnalyzedHasVerdict ==
    \A a \in Alerts :
        status[a] = "analyzed" =>
            /\ hasRole[a]
            /\ link[a] \in Verdicts
            /\ vAlert[link[a]] = a
            /\ vCurrent[link[a]]

\* A verdict is recorded at most once per alert: no failure or restart makes the
\* worker triage an alert again once it has a verdict row.
OneVerdictPerAlert ==
    \A u, v \in Verdicts :
        vAlert[u] = vAlert[v] /\ vAlert[u] # NoAlert => u = v

\* Verdict u is fit to be inherited by alert a: produced by the LLM for an
\* analyzed alert of a's group that arrived at most Window before a.
FitSource(u, a) ==
    /\ vAlert[u] \in Alerts
    /\ vFrom[u] = Produced
    /\ status[vAlert[u]] = "analyzed"
    /\ GroupOf[vAlert[u]] = GroupOf[a]
    /\ GroupOf[a] # NoGroup
    /\ ts[a] - Window <= ts[vAlert[u]]
    /\ ts[vAlert[u]] <= ts[a]

\* Inheritance is one hop: the source of every inherited verdict on record is, and
\* stays, fit to be inherited (find_recent_verdict_for_group, ADR-022).
InheritanceOneHop ==
    \A v \in Verdicts :
        vAlert[v] # NoAlert /\ vFrom[v] # Produced => FitSource(vFrom[v], vAlert[v])

\* The daily cap: in no period from one reset instant to the next are more than
\* DailyCap alerts admitted, with any number of handlers racing for the last place.
Period(k) == {a \in CountsSince(k * DayLength + ResetTick) :
                 ts[a] < (k + 1) * DayLength + ResetTick}

CapRespected ==
    \A k \in 0 .. (now \div DayLength) : Cardinality(Period(k)) <= DailyCap

\* The cap lock is never stranded: whoever holds it is a running handler that will
\* release it, whatever call raised and wherever the process stopped.
LockHeldByRunner ==
    capLock # NoAlert => hpc[capLock] \in {"counted", "stamped"}

\* The whole of it implements the atomic FIFO work queue: every step of every
\* task is one operation of the queue on the columns a reader of the alerts table
\* sees, or changes none of them.
WQ == INSTANCE WorkQueue WITH phase <- status, at <- ts, published <- link

ImplementsWorkQueue == WQ!Spec

-----------------------------------------------------------------------------
(***************************************************************************)
(* Liveness.                                                               *)
(***************************************************************************)

\* The worker's gate (_dequeue_next) counts the alerts that wait as well as the ones
\* it has taken, so admitted alerts close it on themselves.  They are only delayed: if
\* from some time on fewer alerts than the cap are admitted in a period, every alert
\* ever queued, in this period or an earlier one, is analyzed or marked failed (no store
\* failure and no stop assumed).
QueuedIsSettled ==
    <>[](count_analyzed_today < DailyCap)
      => \A a \in Alerts : status[a] = "queued" ~> status[a] \in {"analyzed", "failed"}

-----------------------------------------------------------------------------
(***************************************************************************)
(* The inductive invariant behind FifoOrder, AnalyzedHasVerdict,           *)
(* OneVerdictPerAlert and InheritanceOneHop.                               *)
(***************************************************************************)

\* At most one handler is between its count and its commit, and it has the lock.
\* A handler is done exactly when its row exists, and the timestamp a handler is
\* about to commit is not older than any row.
HandlerInv ==
    \A a \in Alerts :
        /\ hpc[a] \in {"counted", "stamped"} => capLock = a
        /\ status[a] # "absent" <=> hpc[a] = "done"
        /\ status[a] # "absent" => ts[a] <= now
        /\ hpc[a] = "stamped" =>
               /\ hTs[a] <= now
               /\ \A b \in Alerts : status[b] # "absent" => ts[b] <= hTs[a]

\* What the worker knows of the alert in its hand: it is the newest one taken.
HoldInv ==
    /\ wpc \in InTry \cup {"failing"} => wAlert \in Alerts
    /\ wpc \in InTry =>
           \A b \in Alerts : status[b] \in TakenStatus => ts[b] <= ts[wAlert]
    /\ wpc = "dequeued" => OldestQueued(wAlert)
    /\ wpc \in InTry \ {"dequeued"} => status[wAlert] = "analyzing"
    /\ wpc = "failing" => OldestQueued(wAlert) \/ status[wAlert] = "analyzing"

\* The verdict rows and the alerts they belong to: only taken alerts have one, the
\* alert in hand has none before Record and its own after, and a linked alert is
\* an analyzed one.
RowInv ==
    /\ \A v \in Verdicts : vAlert[v] # NoAlert => status[vAlert[v]] \in TakenStatus
    /\ wpc \in InTry \ {"linking"} => \A v \in Verdicts : vAlert[v] # wAlert
    /\ wpc \in {"dedup", "llm", "superseding", "recording", "linking"} => hasRole[wAlert]
    /\ wpc = "linking" =>
           wVerdict \in Verdicts /\ vAlert[wVerdict] = wAlert /\ vCurrent[wVerdict]
    /\ \A a \in Alerts : link[a] # NoVerdict => status[a] = "analyzed"

\* The source the worker has chosen stays fit until the verdict is recorded.
SourceInv ==
    wpc \in {"superseding", "recording"} /\ wFrom # Produced => FitSource(wFrom, wAlert)

FifoInv    == HandlerInv /\ HoldInv /\ FifoOrder
VerdictInv == RowInv /\ AnalyzedHasVerdict /\ OneVerdictPerAlert
HopInv     == SourceInv /\ InheritanceOneHop

IInv == FifoInv /\ VerdictInv /\ HopInv
=============================================================================
