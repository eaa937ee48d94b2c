---------------------------- MODULE TriageProofs ----------------------------
(***************************************************************************)
(* Proofs about Triage for every set of alerts and verdict ids, every cap, *)
(* window and reset hour, with store failures and restarts; and, in the    *)
(* second half, about Review: analysts against the running worker, for any *)
(* number of analysts and verdict categories.                              *)
(***************************************************************************)
EXTENDS Review, TLAPS, FiniteSetTheorems

\* Every step of the system, one disjunct per action.
Steps ==
    \/ Tick /\ UNCHANGED <<dispVars, workerVars>>
    \/ (\E a \in Alerts : Dispatch(a)) /\ UNCHANGED workerVars
    \/ (\E a \in Alerts : HandleCount(a)) /\ UNCHANGED workerVars
    \/ (\E a \in Alerts : HandleCountRaises(a)) /\ UNCHANGED workerVars
    \/ (\E a \in Alerts : HandleStamp(a)) /\ UNCHANGED workerVars
    \/ (\E a \in Alerts : HandleInsert(a)) /\ UNCHANGED workerVars
    \/ (\E a \in Alerts : HandleInsertRaises(a)) /\ UNCHANGED workerVars
    \/ DequeueCheckCap /\ UNCHANGED dispVars
    \/ (\E a \in Alerts : DequeueSelect(a)) /\ UNCHANGED dispVars
    \/ DequeueEmpty /\ UNCHANGED dispVars
    \/ DequeueRaises /\ UNCHANGED dispVars
    \/ MarkAnalyzing /\ UNCHANGED dispVars
    \/ AssignRoles /\ UNCHANGED dispVars
    \/ (\E b \in Alerts : DedupHit(b)) /\ UNCHANGED dispVars
    \/ DedupMiss /\ UNCHANGED dispVars
    \/ LlmVerdict /\ UNCHANGED dispVars
    \/ LlmRaises /\ UNCHANGED dispVars
    \/ Supersede /\ UNCHANGED dispVars
    \/ (\E v \in Verdicts : Record(v)) /\ UNCHANGED dispVars
    \/ Link /\ UNCHANGED dispVars
    \/ StoreRaises /\ UNCHANGED dispVars
    \/ MarkFailed /\ UNCHANGED dispVars
    \/ MarkFailedRaises /\ UNCHANGED dispVars
    \/ Restart

\* Next is the disjunction of the actions (HandlerStep and WorkerStep unfolded).
LEMMA NextSteps == Next <=> Steps
  BY Zenon DEF Next, Run, Steps, DispStep, HandlerStep, WorkerStep

\* Every variable keeps its type in every reachable state: the statuses are the five
\* of models.py, and links and sources name verdicts.
THEOREM TypeCorrect == Spec => []TypeOK
<1> USE StoreAssumption DEF TypeOK, StoreTypeOK, DispTypeOK, WorkerTypeOK,
        Status, HandlerPC, WorkerPC, InTry
<1>1. Init => TypeOK
  BY DEF Init, StoreInit, DispInit, WorkerInit
<1>2. TypeOK /\ [Next]_vars => TypeOK'
  <2> SUFFICES ASSUME TypeOK, [Next]_vars PROVE TypeOK'
    OBVIOUS
  <2> USE DEF storeVars, alertVars, verdictVars, dispVars, workerVars, Goto, ToIdle,
        insert_alert, update_alert_status
  <2>1. CASE Tick /\ UNCHANGED <<dispVars, workerVars>>
    BY <2>1 DEF Tick
  <2>2. CASE (\E a \in Alerts : Dispatch(a)) /\ UNCHANGED workerVars
    BY <2>2 DEF Dispatch
  <2>3. CASE (\E a \in Alerts : HandleCount(a)) /\ UNCHANGED workerVars
    BY <2>3 DEF HandleCount
  <2>4. CASE (\E a \in Alerts : HandleCountRaises(a)) /\ UNCHANGED workerVars
    BY <2>4 DEF HandleCountRaises
  <2>5. CASE (\E a \in Alerts : HandleStamp(a)) /\ UNCHANGED workerVars
    BY <2>5 DEF HandleStamp
  <2>6. CASE (\E a \in Alerts : HandleInsert(a)) /\ UNCHANGED workerVars
    BY <2>6 DEF HandleInsert
  <2>7. CASE (\E a \in Alerts : HandleInsertRaises(a)) /\ UNCHANGED workerVars
    BY <2>7 DEF HandleInsertRaises
  <2>8. CASE DequeueCheckCap /\ UNCHANGED dispVars
    BY <2>8 DEF DequeueCheckCap
  <2>9. CASE (\E a \in Alerts : DequeueSelect(a)) /\ UNCHANGED dispVars
    BY <2>9 DEF DequeueSelect
  <2>10. CASE DequeueEmpty /\ UNCHANGED dispVars
    BY <2>10 DEF DequeueEmpty
  <2>11. CASE DequeueRaises /\ UNCHANGED dispVars
    BY <2>11 DEF DequeueRaises
  <2>12. CASE MarkAnalyzing /\ UNCHANGED dispVars
    BY <2>12 DEF MarkAnalyzing
  <2>13. CASE AssignRoles /\ UNCHANGED dispVars
    BY <2>13 DEF AssignRoles, update_alert_role_assignment
  <2>14. CASE (\E b \in Alerts : DedupHit(b)) /\ UNCHANGED dispVars
    BY <2>14 DEF DedupHit, NewestSource, EligibleSources
  <2>15. CASE DedupMiss /\ UNCHANGED dispVars
    BY <2>15 DEF DedupMiss
  <2>16. CASE LlmVerdict /\ UNCHANGED dispVars
    BY <2>16 DEF LlmVerdict
  <2>17. CASE LlmRaises /\ UNCHANGED dispVars
    BY <2>17 DEF LlmRaises
  <2>18. CASE Supersede /\ UNCHANGED dispVars
    BY <2>18 DEF Supersede, mark_previous_verdicts_superseded
  <2>19. CASE (\E v \in Verdicts : Record(v)) /\ UNCHANGED dispVars
    BY <2>19 DEF Record, record_verdict
  <2>20. CASE Link /\ UNCHANGED dispVars
    BY <2>20 DEF Link, link_verdict_to_alert
  <2>21. CASE StoreRaises /\ UNCHANGED dispVars
    BY <2>21 DEF StoreRaises
  <2>22. CASE MarkFailed /\ UNCHANGED dispVars
    BY <2>22 DEF MarkFailed
  <2>23. CASE MarkFailedRaises /\ UNCHANGED dispVars
    BY <2>23 DEF MarkFailedRaises
  <2>24. CASE Restart
    BY <2>24 DEF Restart, DispRestart
  <2>25. CASE UNCHANGED vars
    BY <2>25 DEF vars
  <2> QED
    BY <2>1, <2>2, <2>3, <2>4, <2>5, <2>6, <2>7, <2>8, <2>9, <2>10, <2>11, <2>12,
       <2>13, <2>14, <2>15, <2>16, <2>17, <2>18, <2>19, <2>20, <2>21, <2>22, <2>23,
       <2>24, <2>25, NextSteps, Zenon DEF Steps
<1> QED
  BY <1>1, <1>2, PTL DEF Spec

\* The cap lock has always a running handler for its holder, with every store call
\* raising and the process stopping wherever they may (the async with of _handle).
THEOREM LockCorrect == Spec => []LockHeldByRunner
<1> USE StoreAssumption DEF LockHeldByRunner
<1>1. Init => LockHeldByRunner
  BY DEF Init, DispInit
<1>2. TypeOK /\ LockHeldByRunner /\ [Next]_vars => LockHeldByRunner'
  <2> SUFFICES ASSUME TypeOK, LockHeldByRunner, [Next]_vars PROVE LockHeldByRunner'
    OBVIOUS
  <2> USE DEF TypeOK, DispTypeOK, HandlerPC
  <2>1. ASSUME NEW a \in Alerts, Dispatch(a) \/ HandleCountRaises(a)
        PROVE  LockHeldByRunner'
    BY <2>1 DEF Dispatch, HandleCountRaises
  <2>2. ASSUME NEW a \in Alerts, HandleCount(a) \/ HandleStamp(a)
        PROVE  LockHeldByRunner'
    BY <2>2 DEF HandleCount, HandleStamp
  <2>3. ASSUME NEW a \in Alerts, HandleInsert(a) \/ HandleInsertRaises(a)
        PROVE  LockHeldByRunner'
    BY <2>3 DEF HandleInsert, HandleInsertRaises
  <2>4. CASE Restart
    BY <2>4 DEF Restart, DispRestart
  <2>5. CASE UNCHANGED dispVars
    BY <2>5 DEF dispVars
  <2> QED
    BY <2>1, <2>2, <2>3, <2>4, <2>5 DEF Next, Run, DispStep, HandlerStep, vars
<1> QED
  BY <1>1, <1>2, TypeCorrect, PTL DEF Spec

\* The invariant that carries the FIFO argument is inductive: the lock makes the order
\* of the timestamps the order of the commits.
LEMMA FifoInductive == Spec => []FifoInv
<1> USE StoreAssumption DEF FifoInv
<1>1. Init => FifoInv
  BY DEF Init, StoreInit, DispInit, WorkerInit, HandlerInv, HoldInv, FifoOrder, InTry,
         TakenStatus
<1>2. TypeOK /\ FifoInv /\ [Next]_vars => FifoInv'
  <2> SUFFICES ASSUME TypeOK, FifoInv, [Next]_vars PROVE FifoInv'
    OBVIOUS
  <2> USE DEF TypeOK, StoreTypeOK, DispTypeOK, WorkerTypeOK, Status, HandlerPC, WorkerPC,
        InTry, TakenStatus, HandlerInv, HoldInv, FifoOrder, OldestQueued,
        storeVars, alertVars, verdictVars, dispVars, workerVars, Goto, ToIdle
  <2>1. CASE Tick /\ UNCHANGED <<dispVars, workerVars>>
    BY <2>1 DEF Tick
  <2>2. CASE (\E a \in Alerts : Dispatch(a)) /\ UNCHANGED workerVars
    BY <2>2 DEF Dispatch
  <2>3. CASE (\E a \in Alerts : HandleCount(a)) /\ UNCHANGED workerVars
    BY <2>3 DEF HandleCount
  <2>4. CASE (\E a \in Alerts : HandleCountRaises(a)) /\ UNCHANGED workerVars
    BY <2>4 DEF HandleCountRaises
  <2>5. CASE (\E a \in Alerts : HandleStamp(a)) /\ UNCHANGED workerVars
    BY <2>5 DEF HandleStamp
  <2>6. CASE (\E a \in Alerts : HandleInsert(a)) /\ UNCHANGED workerVars
    BY <2>6 DEF HandleInsert, insert_alert
  <2>7. CASE (\E a \in Alerts : HandleInsertRaises(a)) /\ UNCHANGED workerVars
    BY <2>7 DEF HandleInsertRaises
  <2>8. CASE DequeueCheckCap /\ UNCHANGED dispVars
    BY <2>8 DEF DequeueCheckCap
  <2>9. CASE (\E a \in Alerts : DequeueSelect(a)) /\ UNCHANGED dispVars
    BY <2>9 DEF DequeueSelect
  <2>10. CASE DequeueEmpty /\ UNCHANGED dispVars
    BY <2>10 DEF DequeueEmpty
  <2>11. CASE DequeueRaises /\ UNCHANGED dispVars
    BY <2>11 DEF DequeueRaises
  <2>12. CASE MarkAnalyzing /\ UNCHANGED dispVars
    BY <2>12 DEF MarkAnalyzing, update_alert_status
  <2>13. CASE AssignRoles /\ UNCHANGED dispVars
    BY <2>13 DEF AssignRoles, update_alert_role_assignment
  <2>14. CASE (\E b \in Alerts : DedupHit(b)) /\ UNCHANGED dispVars
    BY <2>14 DEF DedupHit
  <2>15. CASE DedupMiss /\ UNCHANGED dispVars
    BY <2>15 DEF DedupMiss
  <2>16. CASE LlmVerdict /\ UNCHANGED dispVars
    BY <2>16 DEF LlmVerdict
  <2>17. CASE LlmRaises /\ UNCHANGED dispVars
    BY <2>17 DEF LlmRaises
  <2>18. CASE Supersede /\ UNCHANGED dispVars
    BY <2>18 DEF Supersede, mark_previous_verdicts_superseded
  <2>19. CASE (\E v \in Verdicts : Record(v)) /\ UNCHANGED dispVars
    BY <2>19 DEF Record, record_verdict
  <2>20. CASE Link /\ UNCHANGED dispVars
    BY <2>20 DEF Link, link_verdict_to_alert
  <2>21. CASE StoreRaises /\ UNCHANGED dispVars
    BY <2>21 DEF StoreRaises
  <2>22. CASE MarkFailed /\ UNCHANGED dispVars
    BY <2>22 DEF MarkFailed, update_alert_status
  <2>23. CASE MarkFailedRaises /\ UNCHANGED dispVars
    BY <2>23 DEF MarkFailedRaises
  <2>24. CASE Restart
    BY <2>24 DEF Restart, DispRestart
  <2>25. CASE UNCHANGED vars
    BY <2>25 DEF vars
  <2> QED
    BY <2>1, <2>2, <2>3, <2>4, <2>5, <2>6, <2>7, <2>8, <2>9, <2>10, <2>11, <2>12,
       <2>13, <2>14, <2>15, <2>16, <2>17, <2>18, <2>19, <2>20, <2>21, <2>22, <2>23,
       <2>24, <2>25, NextSteps, Zenon DEF Steps
<1> QED
  BY <1>1, <1>2, TypeCorrect, PTL DEF Spec

\* The queue is FIFO for any number of racing handlers: an alert the worker has taken
\* was never ingested after one that still waits.
THEOREM FifoCorrect == Spec => []FifoOrder
<1>1. FifoInv => FifoOrder
  BY DEF FifoInv
<1> QED
  BY <1>1, FifoInductive, PTL

\* The docstring of find_recent_verdict_for_group is right: under FIFO the upper bound
\* of its window never rejects an analyzed alert.
THEOREM UpperBoundCorrect == Spec => []UpperBoundRejectsNothing
<1>1. FifoInv => UpperBoundRejectsNothing
  BY DEF FifoInv, HoldInv, UpperBoundRejectsNothing, InTry, TakenStatus
<1> QED
  BY <1>1, FifoInductive, PTL

\* The invariant on verdict rows is inductive.
LEMMA VerdictInductive == Spec => []VerdictInv
<1> USE StoreAssumption DEF VerdictInv
<1>1. Init => VerdictInv
  BY DEF Init, StoreInit, DispInit, WorkerInit, RowInv, AnalyzedHasVerdict,
         OneVerdictPerAlert, InTry, TakenStatus
<1>2. TypeOK /\ FifoInv /\ VerdictInv /\ [Next]_vars => VerdictInv'
  <2> SUFFICES ASSUME TypeOK, FifoInv, VerdictInv, [Next]_vars PROVE VerdictInv'
    OBVIOUS
  <2> USE DEF TypeOK, StoreTypeOK, DispTypeOK, WorkerTypeOK, Status, HandlerPC, WorkerPC,
        InTry, TakenStatus, FifoInv, HoldInv, OldestQueued, RowInv,
        AnalyzedHasVerdict, OneVerdictPerAlert,
        storeVars, alertVars, verdictVars, dispVars, workerVars, Goto, ToIdle
  <2>1. CASE Tick /\ UNCHANGED <<dispVars, workerVars>>
    BY <2>1 DEF Tick
  <2>2. CASE (\E a \in Alerts : Dispatch(a)) /\ UNCHANGED workerVars
    BY <2>2 DEF Dispatch
  <2>3. CASE (\E a \in Alerts : HandleCount(a)) /\ UNCHANGED workerVars
    BY <2>3 DEF HandleCount
  <2>4. CASE (\E a \in Alerts : HandleCountRaises(a)) /\ UNCHANGED workerVars
    BY <2>4 DEF HandleCountRaises
  <2>5. CASE (\E a \in Alerts : HandleStamp(a)) /\ UNCHANGED workerVars
    BY <2>5 DEF HandleStamp
  <2>6. CASE (\E a \in Alerts : HandleInsert(a)) /\ UNCHANGED workerVars
    BY <2>6 DEF HandleInsert, insert_alert, HandlerInv
  <2>7. CASE (\E a \in Alerts : HandleInsertRaises(a)) /\ UNCHANGED workerVars
    BY <2>7 DEF HandleInsertRaises
  <2>8. CASE DequeueCheckCap /\ UNCHANGED dispVars
    BY <2>8 DEF DequeueCheckCap
  <2>9. CASE (\E a \in Alerts : DequeueSelect(a)) /\ UNCHANGED dispVars
    BY <2>9 DEF DequeueSelect
  <2>10. CASE DequeueEmpty /\ UNCHANGED dispVars
    BY <2>10 DEF DequeueEmpty
  <2>11. CASE DequeueRaises /\ UNCHANGED dispVars
    BY <2>11 DEF DequeueRaises
  <2>12. CASE MarkAnalyzing /\ UNCHANGED dispVars
    BY <2>12 DEF MarkAnalyzing, update_alert_status
  <2>13. CASE AssignRoles /\ UNCHANGED dispVars
    BY <2>13 DEF AssignRoles, update_alert_role_assignment
  <2>14. CASE (\E b \in Alerts : DedupHit(b)) /\ UNCHANGED dispVars
    BY <2>14 DEF DedupHit
  <2>15. CASE DedupMiss /\ UNCHANGED dispVars
    BY <2>15 DEF DedupMiss
  <2>16. CASE LlmVerdict /\ UNCHANGED dispVars
    BY <2>16 DEF LlmVerdict
  <2>17. CASE LlmRaises /\ UNCHANGED dispVars
    BY <2>17 DEF LlmRaises
  <2>18. CASE Supersede /\ UNCHANGED dispVars
    BY <2>18 DEF Supersede, mark_previous_verdicts_superseded
  <2>19. CASE (\E v \in Verdicts : Record(v)) /\ UNCHANGED dispVars
    BY <2>19 DEF Record, record_verdict
  <2>20. CASE Link /\ UNCHANGED dispVars
    BY <2>20 DEF Link, link_verdict_to_alert
  <2>21. CASE StoreRaises /\ UNCHANGED dispVars
    BY <2>21 DEF StoreRaises
  <2>22. CASE MarkFailed /\ UNCHANGED dispVars
    BY <2>22 DEF MarkFailed, update_alert_status
  <2>23. CASE MarkFailedRaises /\ UNCHANGED dispVars
    BY <2>23 DEF MarkFailedRaises
  <2>24. CASE Restart
    BY <2>24 DEF Restart, DispRestart
  <2>25. CASE UNCHANGED vars
    BY <2>25 DEF vars
  <2> QED
    BY <2>1, <2>2, <2>3, <2>4, <2>5, <2>6, <2>7, <2>8, <2>9, <2>10, <2>11, <2>12,
       <2>13, <2>14, <2>15, <2>16, <2>17, <2>18, <2>19, <2>20, <2>21, <2>22, <2>23,
       <2>24, <2>25, NextSteps, Zenon DEF Steps
<1> QED
  BY <1>1, <1>2, TypeCorrect, FifoInductive, PTL DEF Spec

\* Whatever fails or stops between the transactions that persist a verdict, an alert
\* marked analyzed links to its own, current verdict.
THEOREM AnalyzedCorrect == Spec => []AnalyzedHasVerdict
<1>1. VerdictInv => AnalyzedHasVerdict
  BY DEF VerdictInv
<1> QED
  BY <1>1, VerdictInductive, PTL

\* No alert ever gets a second verdict row.
THEOREM OneVerdictCorrect == Spec => []OneVerdictPerAlert
<1>1. VerdictInv => OneVerdictPerAlert
  BY DEF VerdictInv
<1> QED
  BY <1>1, VerdictInductive, PTL

\* The invariant on inheritance is inductive.
LEMMA HopInductive == Spec => []HopInv
<1> USE StoreAssumption DEF HopInv
<1>1. Init => HopInv
  BY DEF Init, StoreInit, DispInit, WorkerInit, SourceInv, InheritanceOneHop
<1>2. TypeOK /\ FifoInv /\ VerdictInv /\ HopInv /\ [Next]_vars => HopInv'
  <2> SUFFICES ASSUME TypeOK, FifoInv, VerdictInv, HopInv, [Next]_vars PROVE HopInv'
    OBVIOUS
  <2> USE DEF TypeOK, StoreTypeOK, DispTypeOK, WorkerTypeOK, Status, HandlerPC, WorkerPC,
        InTry, TakenStatus, FifoInv, HoldInv, VerdictInv, RowInv, SourceInv,
        InheritanceOneHop, FitSource,
        storeVars, alertVars, verdictVars, dispVars, workerVars, Goto, ToIdle
  <2>1. CASE Tick /\ UNCHANGED <<dispVars, workerVars>>
    BY <2>1 DEF Tick
  <2>2. CASE (\E a \in Alerts : Dispatch(a)) /\ UNCHANGED workerVars
    BY <2>2 DEF Dispatch
  <2>3. CASE (\E a \in Alerts : HandleCount(a)) /\ UNCHANGED workerVars
    BY <2>3 DEF HandleCount
  <2>4. CASE (\E a \in Alerts : HandleCountRaises(a)) /\ UNCHANGED workerVars
    BY <2>4 DEF HandleCountRaises
  <2>5. CASE (\E a \in Alerts : HandleStamp(a)) /\ UNCHANGED workerVars
    BY <2>5 DEF HandleStamp
  <2>6. CASE (\E a \in Alerts : HandleInsert(a)) /\ UNCHANGED workerVars
    BY <2>6 DEF HandleInsert, insert_alert, HandlerInv
  <2>7. CASE (\E a \in Alerts : HandleInsertRaises(a)) /\ UNCHANGED workerVars
    BY <2>7 DEF HandleInsertRaises
  <2>8. CASE DequeueCheckCap /\ UNCHANGED dispVars
    BY <2>8 DEF DequeueCheckCap
  <2>9. CASE (\E a \in Alerts : DequeueSelect(a)) /\ UNCHANGED dispVars
    BY <2>9 DEF DequeueSelect
  <2>10. CASE DequeueEmpty /\ UNCHANGED dispVars
    BY <2>10 DEF DequeueEmpty
  <2>11. CASE DequeueRaises /\ UNCHANGED dispVars
    BY <2>11 DEF DequeueRaises
  <2>12. CASE MarkAnalyzing /\ UNCHANGED dispVars
    BY <2>12 DEF MarkAnalyzing, OldestQueued, update_alert_status
  <2>13. CASE AssignRoles /\ UNCHANGED dispVars
    BY <2>13 DEF AssignRoles, update_alert_role_assignment
  <2>14. CASE (\E b \in Alerts : DedupHit(b)) /\ UNCHANGED dispVars
    BY <2>14 DEF DedupHit, NewestSource, EligibleSources, AnalyzedHasVerdict
  <2>15. CASE DedupMiss /\ UNCHANGED dispVars
    BY <2>15 DEF DedupMiss
  <2>16. CASE LlmVerdict /\ UNCHANGED dispVars
    BY <2>16 DEF LlmVerdict
  <2>17. CASE LlmRaises /\ UNCHANGED dispVars
    BY <2>17 DEF LlmRaises
  <2>18. CASE Supersede /\ UNCHANGED dispVars
    BY <2>18 DEF Supersede, mark_previous_verdicts_superseded
  <2>19. CASE (\E v \in Verdicts : Record(v)) /\ UNCHANGED dispVars
    BY <2>19 DEF Record, record_verdict
  <2>20. CASE Link /\ UNCHANGED dispVars
    BY <2>20 DEF Link, link_verdict_to_alert
  <2>21. CASE StoreRaises /\ UNCHANGED dispVars
    BY <2>21 DEF StoreRaises
  <2>22. CASE MarkFailed /\ UNCHANGED dispVars
    BY <2>22 DEF MarkFailed, OldestQueued, update_alert_status
  <2>23. CASE MarkFailedRaises /\ UNCHANGED dispVars
    BY <2>23 DEF MarkFailedRaises
  <2>24. CASE Restart
    BY <2>24 DEF Restart, DispRestart
  <2>25. CASE UNCHANGED vars
    BY <2>25 DEF vars
  <2> QED
    BY <2>1, <2>2, <2>3, <2>4, <2>5, <2>6, <2>7, <2>8, <2>9, <2>10, <2>11, <2>12,
       <2>13, <2>14, <2>15, <2>16, <2>17, <2>18, <2>19, <2>20, <2>21, <2>22, <2>23,
       <2>24, <2>25, NextSteps, Zenon DEF Steps
<1> QED
  BY <1>1, <1>2, TypeCorrect, FifoInductive, VerdictInductive, PTL DEF Spec

\* A verdict is inherited over one hop only, inside the group and the window.
THEOREM OneHopCorrect == Spec => []InheritanceOneHop
<1>1. HopInv => InheritanceOneHop
  BY DEF HopInv
<1> QED
  BY <1>1, HopInductive, PTL

\* Dispatcher, worker, clock, failures and restarts together implement the atomic FIFO
\* work queue on the columns an analyst sees.
THEOREM RefinesWorkQueue == Spec => ImplementsWorkQueue
<1> USE StoreAssumption DEF WQ!vars
<1>1. Init => WQ!Init
  BY DEF Init, StoreInit, WQ!Init
<1>2. TypeOK /\ FifoInv /\ VerdictInv /\ [Next]_vars => [WQ!Next]_(WQ!vars)
  <2> SUFFICES ASSUME TypeOK, FifoInv, VerdictInv, [Next]_vars
               PROVE  [WQ!Next]_(WQ!vars)
    OBVIOUS
  <2> USE DEF storeVars, alertVars, verdictVars
  <2>1. CASE Tick /\ UNCHANGED <<dispVars, workerVars>>
    BY <2>1 DEF Tick
  <2>2. CASE (\E a \in Alerts : Dispatch(a)) /\ UNCHANGED workerVars
    BY <2>2 DEF Dispatch
  <2>3. CASE (\E a \in Alerts : HandleCount(a)) /\ UNCHANGED workerVars
    BY <2>3 DEF HandleCount
  <2>4. CASE (\E a \in Alerts : HandleCountRaises(a)) /\ UNCHANGED workerVars
    BY <2>4 DEF HandleCountRaises
  <2>5. CASE (\E a \in Alerts : HandleStamp(a)) /\ UNCHANGED workerVars
    BY <2>5 DEF HandleStamp
  <2>6. CASE (\E a \in Alerts : HandleInsert(a)) /\ UNCHANGED workerVars
    <3>1. PICK a \in Alerts : HandleInsert(a)
      BY <2>6
    <3>2. WQ!Admit(a)
      BY <3>1 DEF HandleInsert, insert_alert, FifoInv, HandlerInv, WQ!Admit,
                  TypeOK, StoreTypeOK, DispTypeOK, Status
    <3> QED
      BY <3>2 DEF WQ!Next
  <2>7. CASE (\E a \in Alerts : HandleInsertRaises(a)) /\ UNCHANGED workerVars
    BY <2>7 DEF HandleInsertRaises
  <2>8. CASE DequeueCheckCap /\ UNCHANGED dispVars
    BY <2>8 DEF DequeueCheckCap
  <2>9. CASE (\E a \in Alerts : DequeueSelect(a)) /\ UNCHANGED dispVars
    BY <2>9 DEF DequeueSelect
  <2>10. CASE DequeueEmpty /\ UNCHANGED dispVars
    BY <2>10 DEF DequeueEmpty
  <2>11. CASE DequeueRaises /\ UNCHANGED dispVars
    BY <2>11 DEF DequeueRaises
  <2>12. CASE MarkAnalyzing /\ UNCHANGED dispVars
    <3>1. WQ!Take(wAlert) /\ wAlert \in Alerts
      BY <2>12 DEF MarkAnalyzing, Goto, update_alert_status, FifoInv, HoldInv, InTry,
                   OldestQueued, WQ!Take, WQ!Oldest
    <3> QED
      BY <3>1 DEF WQ!Next
  <2>13. CASE AssignRoles /\ UNCHANGED dispVars
    BY <2>13 DEF AssignRoles, update_alert_role_assignment
  <2>14. CASE (\E b \in Alerts : DedupHit(b)) /\ UNCHANGED dispVars
    BY <2>14 DEF DedupHit
  <2>15. CASE DedupMiss /\ UNCHANGED dispVars
    BY <2>15 DEF DedupMiss
  <2>16. CASE LlmVerdict /\ UNCHANGED dispVars
    BY <2>16 DEF LlmVerdict
  <2>17. CASE LlmRaises /\ UNCHANGED dispVars
    BY <2>17 DEF LlmRaises
  <2>18. CASE Supersede /\ UNCHANGED dispVars
    BY <2>18 DEF Supersede, mark_previous_verdicts_superseded
  <2>19. CASE (\E v \in Verdicts : Record(v)) /\ UNCHANGED dispVars
    BY <2>19 DEF Record, record_verdict
  <2>20. CASE Link /\ UNCHANGED dispVars
    <3>1. wAlert \in Alerts /\ status[wAlert] = "analyzing" /\ wVerdict \in Verdicts
      BY <2>20 DEF Link, FifoInv, HoldInv, VerdictInv, RowInv, InTry
    <3>2. \A b \in Alerts : link[b] # wVerdict
      BY <2>20, <3>1 DEF Link, VerdictInv, RowInv, AnalyzedHasVerdict
    <3>3. WQ!Publish(wAlert)
      BY <2>20, <3>1, <3>2 DEF Link, link_verdict_to_alert, WQ!Publish
    <3> QED
      BY <3>1, <3>3 DEF WQ!Next
  <2>21. CASE StoreRaises /\ UNCHANGED dispVars
    BY <2>21 DEF StoreRaises
  <2>22. CASE MarkFailed /\ UNCHANGED dispVars
    <3>1. WQ!GiveUp(wAlert) /\ wAlert \in Alerts
      BY <2>22 DEF MarkFailed, update_alert_status, FifoInv, HoldInv,
                   OldestQueued, WQ!GiveUp, WQ!Oldest
    <3> QED
      BY <3>1 DEF WQ!Next
  <2>23. CASE MarkFailedRaises /\ UNCHANGED dispVars
    BY <2>23 DEF MarkFailedRaises
  <2>24. CASE Restart
    BY <2>24 DEF Restart, DispRestart
  <2>25. CASE UNCHANGED vars
    BY <2>25 DEF vars
  <2> QED
    BY <2>1, <2>2, <2>3, <2>4, <2>5, <2>6, <2>7, <2>8, <2>9, <2>10, <2>11, <2>12,
       <2>13, <2>14, <2>15, <2>16, <2>17, <2>18, <2>19, <2>20, <2>21, <2>22, <2>23,
       <2>24, <2>25, NextSteps, Zenon DEF Steps
<1> QED
  BY <1>1, <1>2, TypeCorrect, FifoInductive, VerdictInductive, PTL
     DEF Spec, ImplementsWorkQueue, WQ!Spec
-----------------------------------------------------------------------------
(***************************************************************************)
(* The daily cap, for every cap, day length and number of racing handlers, *)
(* when the reset hour is 0 (its default).  With a later reset hour the    *)
(* theorem is false: run triage_reset_hour shows it.                       *)
(***************************************************************************)
\* Room for one more in every period that has not ended at time t.
RoomFrom(t) ==
    \A k \in Nat :
        t < (k + 1) * DayLength + ResetTick => Cardinality(Period(k)) < DailyCap

\* No period is over the cap, and while a handler that chose 'queued' is between its
\* count and its commit there is room for its row in whichever period it lands.
CapInv ==
    /\ \A k \in Nat : Cardinality(Period(k)) <= DailyCap
    /\ \A a \in Alerts : hStatus[a] = "queued" =>
           /\ hpc[a] = "counted" => RoomFrom(now)
           /\ hpc[a] = "stamped" => RoomFrom(hTs[a])

\* A period that has not ended begins no earlier than today's reset instant.
LEMMA OpenPeriod ==
    ASSUME NEW n \in Nat, NEW k \in Nat, NEW d \in Nat \ {0}, n < (k + 1) * d
    PROVE  (n \div d) * d <= k * d
<1> DEFINE q == n \div d
<1>1. q \in Nat /\ q * d <= n
  BY SMT
<1>2. q < k + 1
  <2> SUFFICES ASSUME q >= k + 1 PROVE FALSE
    BY <1>1
  <2>1. PICK e \in Nat : q = k + 1 + e
    BY <1>1
  <2> QED
    BY <1>1, <2>1, SMT
<1>3. PICK e \in Nat : k = q + e
  BY <1>1, <1>2
<1> HIDE DEF q
<1>4. k * d = q * d + e * d /\ e * d \in Nat
  BY <1>1, <1>3, SMT
<1> QED
  BY <1>1, <1>4 DEF q

\* Sets of rows are finite.
LEMMA PeriodFinite ==
    \A k \in Nat : /\ IsFiniteSet(Period(k))
                   /\ Cardinality(Period(k)) \in Nat
<1> SUFFICES ASSUME NEW k \in Nat
             PROVE  IsFiniteSet(Period(k)) /\ Cardinality(Period(k)) \in Nat
  OBVIOUS
<1>1. Period(k) \subseteq Alerts
  BY DEF Period, CountsSince
<1> QED
  BY <1>1, FS_Subset, FS_CardinalityType, StoreAssumption

\* The rows that count towards the cap are the same after the step.
SameRows ==
    /\ ts' = ts
    /\ \A a \in Alerts :
           status'[a] \in {"absent", "deferred"} <=> status[a] \in {"absent", "deferred"}

\* No handler inside the lock has changed what it knows.
SameHandlers ==
    \A a \in Alerts : hpc'[a] \in {"counted", "stamped"} =>
        hpc'[a] = hpc[a] /\ hStatus'[a] = hStatus[a] /\ hTs'[a] = hTs[a]

\* Periods depend only on the rows that count.
LEMMA SamePeriods ==
    ASSUME SameRows
    PROVE  \A k \in Nat : Period(k)' = Period(k)
  BY DEF SameRows, Period, CountsSince

\* A step that moves no row in or out of the count and no handler into the lock
\* preserves CapInv, whatever else it does.
LEMMA CapFrame ==
    ASSUME TypeOK, CapInv, SameRows, SameHandlers, now' \in Nat, now <= now'
    PROVE  CapInv'
<1> USE StoreAssumption
<1>1. \A k \in Nat : Period(k)' = Period(k)
  BY SamePeriods
<1>2. RoomFrom(now) => RoomFrom(now)'
  <2> SUFFICES ASSUME RoomFrom(now), NEW k \in Nat,
                      now' < (k + 1) * DayLength + ResetTick
               PROVE  Cardinality(Period(k)') < DailyCap
    BY DEF RoomFrom
  <2>1. (k + 1) * DayLength + ResetTick \in Nat
    OBVIOUS
  <2>2. now < (k + 1) * DayLength + ResetTick
    BY <2>1 DEF TypeOK, StoreTypeOK
  <2> QED
    BY <1>1, <2>2 DEF RoomFrom
<1>3. ASSUME NEW a \in Alerts, hTs'[a] = hTs[a], RoomFrom(hTs[a])
      PROVE  RoomFrom(hTs[a])'
  BY <1>1, <1>3 DEF RoomFrom
<1>4. \A k \in Nat : Cardinality(Period(k)') <= DailyCap
  BY <1>1 DEF CapInv
<1>5. ASSUME NEW a \in Alerts, hStatus'[a] = "queued"
      PROVE  /\ hpc'[a] = "counted" => RoomFrom(now)'
             /\ hpc'[a] = "stamped" => RoomFrom(hTs[a])'
  BY <1>2, <1>3, <1>5 DEF CapInv, SameHandlers
<1> QED
  BY <1>4, <1>5 DEF CapInv

\* The count finds room: every period still open lies within the rows counted.
LEMMA CountFindsRoom ==
    ASSUME TypeOK, ResetTick = 0, count_analyzed_today < DailyCap
    PROVE  RoomFrom(now)
<1> USE StoreAssumption DEF TypeOK, StoreTypeOK
<1> SUFFICES ASSUME NEW k \in Nat, now < (k + 1) * DayLength + ResetTick
             PROVE  Cardinality(Period(k)) < DailyCap
  BY DEF RoomFrom
<1>1. ResetTime <= k * DayLength + ResetTick
  <2>1. now < (k + 1) * DayLength
    OBVIOUS
  <2>2. (now \div DayLength) * DayLength <= k * DayLength
    BY <2>1, OpenPeriod, Zenon
  <2>3. k * DayLength \in Nat /\ (now \div DayLength) * DayLength \in Int
    OBVIOUS
  <2> QED
    BY <2>2, <2>3 DEF ResetTime
<1>2. ResetTime \in Int /\ k * DayLength + ResetTick \in Int
  BY DEF ResetTime
<1>3. Period(k) \subseteq CountsSince(ResetTime)
  BY <1>1, <1>2 DEF Period, CountsSince
<1>4. IsFiniteSet(CountsSince(ResetTime))
  BY FS_Subset DEF CountsSince
<1>5. /\ Cardinality(Period(k)) <= Cardinality(CountsSince(ResetTime))
      /\ Cardinality(Period(k)) \in Nat
      /\ Cardinality(CountsSince(ResetTime)) \in Nat
  BY <1>3, <1>4, PeriodFinite, FS_Subset, FS_CardinalityType
<1> QED
  BY <1>5 DEF count_analyzed_today

\* One more element, at most one more to count.
LEMMA AddOne ==
    ASSUME NEW S, NEW x, IsFiniteSet(S), NEW n \in Nat, Cardinality(S) < n
    PROVE  Cardinality(S \cup {x}) <= n
<1>1. Cardinality(S) \in Nat
  BY FS_CardinalityType
<1>2. CASE x \in S
  <2>1. S \cup {x} = S
    BY <1>2
  <2> QED
    BY <1>1, <2>1
<1>3. CASE x \notin S
  <2>1. Cardinality(S \cup {x}) = Cardinality(S) + 1
    BY <1>3, FS_AddElement, Zenon
  <2> QED
    BY <1>1, <2>1
<1> QED
  BY <1>2, <1>3

\* The commit of a handler preserves CapInv: its row enters the one period in which
\* it was stamped, and there was room in that one.
LEMMA CapInsert ==
    ASSUME TypeOK, FifoInv, CapInv, NEW a \in Alerts, HandleInsert(a)
    PROVE  CapInv'
<1> USE StoreAssumption DEF TypeOK, StoreTypeOK, DispTypeOK, HandleInsert, insert_alert
<1>1. status[a] = "absent" /\ \A b \in Alerts : hpc'[b] \notin {"counted", "stamped"}
  BY DEF FifoInv, HandlerInv
<1>2. ASSUME NEW k \in Nat PROVE Cardinality(Period(k)') <= DailyCap
  <2>1. CASE Period(k)' = Period(k)
    BY <2>1 DEF CapInv
  <2>2. CASE Period(k)' # Period(k)
    <3>1. /\ hStatus[a] = "queued"
          /\ hTs[a] < (k + 1) * DayLength + ResetTick
          /\ Period(k)' = Period(k) \cup {a}
      BY <1>1, <2>2 DEF Period, CountsSince
    <3>2. Cardinality(Period(k)) < DailyCap
      BY <3>1 DEF CapInv, RoomFrom
    <3>3. IsFiniteSet(Period(k)) /\ Cardinality(Period(k)) \in Nat
      BY PeriodFinite
    <3> QED
      BY <3>1, <3>2, <3>3, AddOne
  <2> QED
    BY <2>1, <2>2
<1> QED
  BY <1>1, <1>2 DEF CapInv

\* With the default reset hour, no period between two resets ever admits more than
\* DailyCap alerts: the lock closes the race on the last place, across midnight too.
THEOREM CapCorrect ==
    ASSUME ResetTick = 0
    PROVE  Spec => []CapRespected
<1> USE StoreAssumption
<1>1. Init => CapInv
  <2> SUFFICES ASSUME Init PROVE CapInv
    OBVIOUS
  <2>1. \A k \in Nat : Period(k) = {}
    BY DEF Init, StoreInit, Period, CountsSince
  <2>2. Cardinality({}) = 0
    BY FS_EmptySet
  <2>3. \A k \in Nat : Cardinality(Period(k)) <= DailyCap
    BY <2>1, <2>2
  <2>4. \A a \in Alerts : hpc[a] = "unread"
    BY DEF Init, DispInit
  <2> QED
    BY <2>3, <2>4 DEF CapInv
<1>2. TypeOK /\ FifoInv /\ CapInv /\ [Next]_vars => CapInv'
  <2> SUFFICES ASSUME TypeOK, FifoInv, CapInv, [Next]_vars PROVE CapInv'
    OBVIOUS
  <2> USE DEF SameRows, SameHandlers, TypeOK, StoreTypeOK, DispTypeOK, storeVars, alertVars,
        verdictVars, dispVars, workerVars, Goto, ToIdle, FifoInv, HoldInv, InTry
  <2>1. CASE Tick /\ UNCHANGED <<dispVars, workerVars>>
    BY <2>1, CapFrame DEF Tick
  <2>2. CASE (\E a \in Alerts : Dispatch(a)) /\ UNCHANGED workerVars
    BY <2>2, CapFrame DEF Dispatch
  <2>3. CASE (\E a \in Alerts : HandleCount(a)) /\ UNCHANGED workerVars
    <3>1. PICK a \in Alerts : HandleCount(a)
      BY <2>3
    <3>2. SameRows /\ now' = now
      BY <3>1 DEF HandleCount
    <3>3. hStatus'[a] = "queued" => RoomFrom(now)
      BY <3>1, CountFindsRoom DEF HandleCount
    <3>4. \A k \in Nat : Period(k)' = Period(k)
      BY <3>2, SamePeriods
    <3>5. RoomFrom(now) => RoomFrom(now)'
      BY <3>2, <3>4 DEF RoomFrom
    <3>6. \A b \in Alerts : b # a => hpc'[b] \notin {"counted", "stamped"}
      BY <3>1 DEF HandleCount, HandlerInv
    <3> QED
      BY <3>1, <3>3, <3>4, <3>5, <3>6 DEF CapInv, HandleCount
  <2>4. CASE (\E a \in Alerts : HandleCountRaises(a)) /\ UNCHANGED workerVars
    BY <2>4, CapFrame DEF HandleCountRaises
  <2>5. CASE (\E a \in Alerts : HandleStamp(a)) /\ UNCHANGED workerVars
    <3>1. PICK a \in Alerts : HandleStamp(a)
      BY <2>5
    <3>2. \A k \in Nat : Period(k)' = Period(k)
      BY <3>1, SamePeriods DEF HandleStamp
    <3>3. hTs'[a] = now /\ (RoomFrom(now) => RoomFrom(hTs[a])')
      BY <3>1, <3>2 DEF HandleStamp, RoomFrom
    <3>4. \A b \in Alerts : b # a => hpc'[b] \notin {"counted", "stamped"}
      BY <3>1 DEF HandleStamp, HandlerInv
    <3> QED
      BY <3>1, <3>2, <3>3, <3>4 DEF CapInv, HandleStamp
  <2>6. CASE (\E a \in Alerts : HandleInsert(a)) /\ UNCHANGED workerVars
    BY <2>6, CapInsert
  <2>7. CASE (\E a \in Alerts : HandleInsertRaises(a)) /\ UNCHANGED workerVars
    BY <2>7, CapFrame DEF HandleInsertRaises
  <2>8. CASE DequeueCheckCap /\ UNCHANGED dispVars
    BY <2>8, CapFrame DEF DequeueCheckCap
  <2>9. CASE (\E a \in Alerts : DequeueSelect(a)) /\ UNCHANGED dispVars
    BY <2>9, CapFrame DEF DequeueSelect
  <2>10. CASE DequeueEmpty /\ UNCHANGED dispVars
    BY <2>10, CapFrame DEF DequeueEmpty
  <2>11. CASE DequeueRaises /\ UNCHANGED dispVars
    BY <2>11, CapFrame DEF DequeueRaises
  <2>12. CASE MarkAnalyzing /\ UNCHANGED dispVars
    BY <2>12, CapFrame DEF MarkAnalyzing, OldestQueued, update_alert_status
  <2>13. CASE AssignRoles /\ UNCHANGED dispVars
    BY <2>13, CapFrame DEF AssignRoles, update_alert_role_assignment
  <2>14. CASE (\E b \in Alerts : DedupHit(b)) /\ UNCHANGED dispVars
    BY <2>14, CapFrame DEF DedupHit
  <2>15. CASE DedupMiss /\ UNCHANGED dispVars
    BY <2>15, CapFrame DEF DedupMiss
  <2>16. CASE LlmVerdict /\ UNCHANGED dispVars
    BY <2>16, CapFrame DEF LlmVerdict
  <2>17. CASE LlmRaises /\ UNCHANGED dispVars
    BY <2>17, CapFrame DEF LlmRaises
  <2>18. CASE Supersede /\ UNCHANGED dispVars
    BY <2>18, CapFrame DEF Supersede, mark_previous_verdicts_superseded
  <2>19. CASE (\E v \in Verdicts : Record(v)) /\ UNCHANGED dispVars
    BY <2>19, CapFrame DEF Record, record_verdict
  <2>20. CASE Link /\ UNCHANGED dispVars
    BY <2>20, CapFrame DEF Link, link_verdict_to_alert
  <2>21. CASE StoreRaises /\ UNCHANGED dispVars
    BY <2>21, CapFrame DEF StoreRaises
  <2>22. CASE MarkFailed /\ UNCHANGED dispVars
    BY <2>22, CapFrame DEF MarkFailed, OldestQueued, update_alert_status
  <2>23. CASE MarkFailedRaises /\ UNCHANGED dispVars
    BY <2>23, CapFrame DEF MarkFailedRaises
  <2>24. CASE Restart
    BY <2>24, CapFrame DEF Restart, DispRestart
  <2>25. CASE UNCHANGED vars
    BY <2>25, CapFrame DEF vars
  <2> QED
    BY <2>1, <2>2, <2>3, <2>4, <2>5, <2>6, <2>7, <2>8, <2>9, <2>10, <2>11, <2>12,
       <2>13, <2>14, <2>15, <2>16, <2>17, <2>18, <2>19, <2>20, <2>21, <2>22, <2>23,
       <2>24, <2>25, NextSteps, Zenon DEF Steps
<1>3. TypeOK /\ CapInv => CapRespected
  BY DEF CapInv, CapRespected, TypeOK, StoreTypeOK
<1> QED
  BY <1>1, <1>2, <1>3, TypeCorrect, FifoInductive, PTL DEF Spec

-----------------------------------------------------------------------------
(***************************************************************************)
(* Review.  The tables alone behave as Triage says, so the theorems above  *)
(* hold here; what a page has shown stays true because a link, a verdict   *)
(* row and its category are never changed once they are set.               *)
(***************************************************************************)
\* Every verdict row has a category, the LLM's or that of the row it inherits from.
CategoryInv ==
    /\ category \in [Verdicts -> Categories \cup {NoCategory}]
    /\ \A v \in Verdicts : vAlert[v] # NoAlert => category[v] \in Categories

\* What an analyst has before them is still what the tables say: the members the badge
\* speaks of have a verdict, and a verdict that was shown or read is the alert's own.
SessionInv ==
    /\ DOMAIN session = Sessions
    /\ \A p \in Sessions :
         LET s == session[p]
         IN /\ s.pc \in {"queue", "row", "form", "read", "recorded", "done", "raised"}
            /\ s.pc \in {"row", "form", "read", "recorded"} => s.alert \in Alerts
            /\ s.pc = "row" =>
                 /\ s.judged \subseteq Alerts
                 /\ \A a \in s.judged : link[a] # NoVerdict
                 /\ s.badge \in Categories =>
                        link[s.alert] # NoVerdict /\ category[link[s.alert]] = s.badge
            /\ s.pc \in {"form", "read", "recorded"} /\ s.shown # NoVerdict =>
                 s.shown \in Verdicts /\ s.shown = link[s.alert]
            /\ s.pc = "read" =>
                 /\ s.shown # NoVerdict => s.verdict = s.shown
                 /\ s.verdict # NoVerdict =>
                        s.verdict \in Verdicts /\ vAlert[s.verdict] = s.alert

\* A submission has its row from its second await on, for the alert it is about, and a
\* finished one has left a mark on that alert.
DispositionInv ==
    /\ disp \in [Sessions -> [alert : Alerts \cup {NoAlert},
                              verdict : Verdicts \cup {NoVerdict}]]
    /\ dLink \in [Alerts -> Sessions \cup {NoSession}]
    /\ \A p \in Sessions :
         /\ session[p].pc \in {"queue", "row", "form", "read"} => disp[p] = NoDisposition
         /\ session[p].pc \in {"recorded", "done", "raised"} => disp[p].alert \in Alerts
         /\ session[p].pc = "recorded" => disp[p].alert = session[p].alert
         /\ session[p].pc = "done" => dLink[disp[p].alert] # NoSession

ReviewInv ==
    /\ CategoryInv /\ SessionInv /\ DispositionInv
    /\ BadgeTruthful /\ SeenIsRecorded /\ MarkedIsDisposed

-----------------------------------------------------------------------------
\* To the dispatcher and the worker, analysts are invisible: every behaviour of
\* ReviewSpec is one of Triage, and what is proved of Triage holds here.
LEMMA ReviewIsTriage == ReviewSpec => Spec
<1>1. ReviewInit => Init
  BY DEF ReviewInit
<1>2. [ReviewNext]_allVars => [Next]_vars
  BY DEF ReviewNext, StopAndStart, allVars, Next, Run, vars
<1> QED BY <1>1, <1>2, PTL DEF ReviewSpec, Spec

\* What the proofs below use of Triage.
TablesInv == TypeOK /\ FifoInv /\ VerdictInv /\ HopInv

LEMMA TablesInductive == ReviewSpec => []TablesInv
BY ReviewIsTriage, TypeCorrect, FifoInductive, VerdictInductive, HopInductive, PTL
   DEF TablesInv

\* A link names the current verdict of its own alert.
LEMMA LinkFacts ==
    ASSUME TablesInv, NEW a \in Alerts, link[a] # NoVerdict
    PROVE  /\ link[a] \in Verdicts
           /\ vAlert[link[a]] = a
           /\ vCurrent[link[a]]
           /\ \A v \in Verdicts : vAlert[v] = a => v = link[a]
<1>1. link[a] \in Verdicts /\ vAlert[link[a]] = a /\ vCurrent[link[a]]
  BY DEF TablesInv, VerdictInv, RowInv, AnalyzedHasVerdict
<1> QED BY <1>1, StoreAssumption DEF TablesInv, VerdictInv, OneVerdictPerAlert

\* What is never changed: a link, the alert of a verdict row, and with it its category.
Frozen ==
    /\ \A a \in Alerts : link[a] # NoVerdict => link'[a] = link[a]
    /\ \A v \in Verdicts : vAlert[v] # NoAlert =>
           vAlert'[v] = vAlert[v] /\ category'[v] = category[v]

\* A step of the worker other than Record leaves the verdict rows' alerts alone.
LEMMA WorkerRows ==
    ASSUME TypeOK, WorkerStep, \A v \in Verdicts : ~Record(v)
    PROVE  vAlert' = vAlert
BY DEF WorkerStep, DequeueCheckCap, DequeueSelect, DequeueEmpty, DequeueRaises,
       MarkAnalyzing, AssignRoles, DedupHit, DedupMiss, LlmVerdict, LlmRaises, Supersede,
       Link, StoreRaises, MarkFailed, MarkFailedRaises, update_alert_status,
       update_alert_role_assignment, mark_previous_verdicts_superseded,
       link_verdict_to_alert, storeVars, verdictVars

\* A step of the worker other than Link leaves the links alone.
LEMMA WorkerLinks ==
    ASSUME WorkerStep, ~Link
    PROVE  link' = link
BY DEF WorkerStep, DequeueCheckCap, DequeueSelect, DequeueEmpty, DequeueRaises,
       MarkAnalyzing, AssignRoles, DedupHit, DedupMiss, LlmVerdict, LlmRaises, Supersede,
       Record, StoreRaises, MarkFailed, MarkFailedRaises, update_alert_status,
       update_alert_role_assignment, mark_previous_verdicts_superseded,
       record_verdict, storeVars, alertVars

\* The worker freezes what it sets, and gives every row it records a category.
LEMMA WorkerFreezes ==
    ASSUME TablesInv, CategoryInv, WorkerStep, SetsCategory
    PROVE  Frozen /\ CategoryInv'
<1>0. /\ vAlert \in [Verdicts -> Alerts \cup {NoAlert}]
      /\ vFrom \in [Verdicts -> Verdicts \cup {Produced}]
      /\ link \in [Alerts -> Verdicts \cup {NoVerdict}]
  BY DEF TablesInv, TypeOK, StoreTypeOK
<1>1. PICK c \in Categories :
        category' = [v \in Verdicts |->
            IF vAlert'[v] = vAlert[v] THEN category[v]
            ELSE IF vFrom'[v] = Produced THEN c ELSE category[vFrom'[v]]]
  BY DEF SetsCategory
<1>2. \A a \in Alerts : link[a] # NoVerdict => link'[a] = link[a]
  <2>1. CASE Link
    <3>1. link' = [link EXCEPT ![wAlert] = wVerdict] /\ wpc = "linking"
      BY <2>1 DEF Link, link_verdict_to_alert
    <3>2. status[wAlert] = "analyzing" /\ wAlert \in Alerts
      BY <3>1 DEF TablesInv, FifoInv, HoldInv, InTry
    <3>3. link[wAlert] = NoVerdict
      BY <3>2 DEF TablesInv, VerdictInv, RowInv
    <3> QED BY <1>0, <3>1, <3>3
  <2> QED BY <2>1, WorkerLinks
<1>3. CASE \A v \in Verdicts : ~Record(v)
  <2>1. vAlert' = vAlert
    BY <1>3, WorkerRows DEF TablesInv
  <2>2. category' = category
    BY <1>1, <2>1 DEF CategoryInv
  <2> QED BY <1>2, <2>1, <2>2 DEF Frozen, CategoryInv
<1>4. ASSUME NEW u \in Verdicts, Record(u) PROVE Frozen /\ CategoryInv'
  <2>1. /\ vAlert[u] = NoAlert /\ wpc = "recording"
        /\ vAlert' = [vAlert EXCEPT ![u] = wAlert]
        /\ vFrom' = [vFrom EXCEPT ![u] = wFrom]
    BY <1>4 DEF Record, record_verdict, Goto
  <2>2. wAlert \in Alerts /\ wAlert # NoAlert
    BY <2>1, StoreAssumption DEF TablesInv, FifoInv, HoldInv, InTry
  <2>3. \A v \in Verdicts : v # u => vAlert'[v] = vAlert[v] /\ category'[v] = category[v]
    BY <1>0, <1>1, <2>1
  <2>4. category'[u] \in Categories
    <3>1. category'[u] = IF wFrom = Produced THEN c ELSE category[wFrom]
      BY <1>0, <1>1, <2>1, <2>2
    <3>2. wFrom # Produced => wFrom \in Verdicts /\ vAlert[wFrom] # NoAlert
      BY <2>1, StoreAssumption
         DEF TablesInv, HopInv, SourceInv, FitSource, TypeOK, WorkerTypeOK
    <3> QED BY <3>1, <3>2 DEF CategoryInv
  <2>5. DOMAIN category' = Verdicts /\ category' = [v \in Verdicts |-> category'[v]]
    BY <1>1
  <2>6. \A v \in Verdicts : category'[v] \in Categories \cup {NoCategory}
    BY <2>3, <2>4 DEF CategoryInv
  <2>7. category' \in [Verdicts -> Categories \cup {NoCategory}]
    BY <2>5, <2>6
  <2> QED BY <1>2, <2>1, <2>3, <2>4, <2>7 DEF Frozen, CategoryInv
<1> QED BY <1>3, <1>4

-----------------------------------------------------------------------------
\* What _build_queue_rows puts on a row is true when it is put there: a single category
\* only where all that were judged agree with the member the row links to.
LEMMA BadgeRight ==
    ASSUME TablesInv, CategoryInv, NEW members \in SUBSET Alerts,
           NEW linked \in LinkOf(members)
    PROVE  LET badge == Badge(members, linked)
               received == {category[link[a]] : a \in Judged(members)}
           IN /\ badge = "mixed" => Cardinality(received) > 1
              /\ badge = NoCategory => received = {}
              /\ badge \notin {"mixed", NoCategory} => received = {badge}
              /\ badge \in Categories =>
                     link[linked] # NoVerdict /\ category[link[linked]] = badge
<1> DEFINE judged == Judged(members)
           received == {category[link[a]] : a \in judged}
           badge == Badge(members, linked)
<1>1. judged \subseteq Alerts /\ \A a \in judged : link[a] # NoVerdict
  BY DEF Judged
<1>2. \A a \in judged : category[link[a]] \in Categories
  BY <1>1, LinkFacts, StoreAssumption DEF CategoryInv
<1>3. CategoriesOf(judged) = received
  BY <1>2, ReviewAssumption DEF CategoriesOf
<1>4. badge = IF Cardinality(received) > 1 THEN "mixed"
              ELSE IF link[linked] = NoVerdict THEN NoCategory
              ELSE category[link[linked]]
  BY <1>3 DEF Badge
<1>5. linked \in Alerts /\ (judged # {} => linked \in judged)
      /\ (link[linked] # NoVerdict => linked \in judged)
  BY DEF LinkOf, Newest, Judged
<1>6. IsFiniteSet(received)
  <2> DEFINE f == [a \in judged |-> category[link[a]]]
  <2>1. f \in Surjection(judged, received)
    BY DEF Surjection
  <2>2. IsFiniteSet(judged)
    BY <1>1, FS_Subset, StoreAssumption
  <2> QED BY <2>1, <2>2, FS_Surjection
<1> HIDE DEF judged, received, badge
<1>7. CASE Cardinality(received) > 1
  BY <1>4, <1>7, ReviewAssumption DEF received, judged, badge
<1>8. CASE ~(Cardinality(received) > 1) /\ link[linked] = NoVerdict
  <2>1. judged = {}
    BY <1>1, <1>5, <1>8
  <2>2. received = {}
    BY <2>1 DEF received
  <2> QED BY <1>4, <1>8, <2>2, ReviewAssumption DEF received, judged, badge
<1>9. CASE ~(Cardinality(received) > 1) /\ link[linked] # NoVerdict
  <2>1. badge = category[link[linked]] /\ badge \in received /\ badge \in Categories
    BY <1>2, <1>4, <1>5, <1>9 DEF received
  <2>2. Cardinality(received) = 1
    BY <1>6, <1>9, <2>1, FS_CardinalityType, FS_EmptySet
  <2>3. received = {badge}
    BY <1>6, <2>1, <2>2, FS_Singleton
  <2> QED BY <1>9, <2>1, <2>3, ReviewAssumption DEF received, judged, badge
<1> QED BY <1>7, <1>8, <1>9

\* Whatever the tables do, what the analysts have before them stays as true as it was.
LEMMA SessionsUndisturbed ==
    ASSUME TablesInv, ReviewInv, Frozen, UNCHANGED reviewVars
    PROVE  /\ SessionInv' /\ DispositionInv'
           /\ BadgeTruthful' /\ SeenIsRecorded' /\ MarkedIsDisposed'
<1>0. UNCHANGED <<session, disp, dLink>>
  BY DEF reviewVars
<1>1. \A a \in Alerts : link[a] # NoVerdict =>
          link'[a] = link[a] /\ category'[link[a]] = category[link[a]]
  BY LinkFacts, StoreAssumption DEF Frozen
<1>2. SessionInv'
  BY <1>0, <1>1, StoreAssumption DEF ReviewInv, SessionInv, Frozen
<1>3. DispositionInv' /\ MarkedIsDisposed'
  BY <1>0 DEF ReviewInv, DispositionInv, MarkedIsDisposed, NoDisposition
<1>4. BadgeTruthful'
  <2> SUFFICES ASSUME NEW p \in Sessions, session[p].pc = "row"
               PROVE  {category'[link'[a]] : a \in session[p].judged} =
                      {category[link[a]] : a \in session[p].judged}
    BY <1>0 DEF ReviewInv, BadgeTruthful
  <2>1. session[p].judged \subseteq Alerts
        /\ \A a \in session[p].judged : link[a] # NoVerdict
    BY DEF ReviewInv, SessionInv
  <2> QED BY <1>1, <2>1
<1>5. SeenIsRecorded'
  <2> SUFFICES ASSUME NEW p \in Sessions
               PROVE  /\ session[p].pc = "form" /\ session[p].badge \in Categories =>
                            /\ session[p].shown # NoVerdict
                            /\ category'[session[p].shown] = session[p].badge
                      /\ Submitted(p) =>
                            /\ session[p].shown # NoVerdict =>
                                   disp[p].verdict = session[p].shown
                            /\ disp[p].verdict # NoVerdict =>
                                   vAlert'[disp[p].verdict] = disp[p].alert
    BY <1>0 DEF SeenIsRecorded, Submitted, NoDisposition
  <2>1. /\ session[p].pc = "form" /\ session[p].badge \in Categories =>
             session[p].shown # NoVerdict /\ category[session[p].shown] = session[p].badge
        /\ Submitted(p) =>
             /\ session[p].shown # NoVerdict => disp[p].verdict = session[p].shown
             /\ disp[p].verdict # NoVerdict => vAlert[disp[p].verdict] = disp[p].alert
    BY DEF ReviewInv, SeenIsRecorded
  <2>2. session[p].pc = "form" /\ session[p].shown # NoVerdict =>
            /\ session[p].alert \in Alerts
            /\ session[p].shown = link[session[p].alert]
    BY DEF ReviewInv, SessionInv
  <2>3. Submitted(p) => /\ disp[p].alert \in Alerts
                        /\ disp[p].verdict \in Verdicts \cup {NoVerdict}
    BY DEF ReviewInv, SessionInv, DispositionInv, Submitted
  <2> QED BY <1>1, <2>1, <2>2, <2>3, StoreAssumption DEF Frozen
<1> QED BY <1>2, <1>3, <1>4, <1>5

-----------------------------------------------------------------------------
\* The session steps that touch neither the corpus nor a mark.
LEMMA ReadingKeeps ==
    ASSUME TablesInv, ReviewInv, NEW p \in Sessions,
           UNCHANGED <<vars, category, disp, dLink>>,
           NEW s, session' = [session EXCEPT ![p] = s],
           s.pc \in {"queue", "row", "form", "read"},
           session[p].pc \in {"queue", "row", "form", "read"}
    PROVE  DispositionInv' /\ MarkedIsDisposed'
<1>1. /\ session'[p] = s /\ disp[p] = NoDisposition
      /\ \A q \in Sessions : q # p => session'[q] = session[q]
  BY DEF ReviewInv, SessionInv, DispositionInv
<1>2. DispositionInv'
  BY <1>1 DEF ReviewInv, DispositionInv, NoDisposition
<1>3. \A a \in Alerts : disp[p].alert # a
  BY <1>1, StoreAssumption DEF NoDisposition
<1> QED BY <1>1, <1>2, <1>3 DEF ReviewInv, MarkedIsDisposed

\* What BadgeTruthful says of one row.
TrueBadge(s) ==
    /\ s.badge = "mixed" => Cardinality({category[link[a]] : a \in s.judged}) > 1
    /\ s.badge = NoCategory => {category[link[a]] : a \in s.judged} = {}
    /\ s.badge \notin {"mixed", NoCategory} =>
           {category[link[a]] : a \in s.judged} = {s.badge}

\* The session step of p leaves every badge true if it leaves that of p true.
LEMMA BadgesKept ==
    ASSUME BadgeTruthful, NEW p \in Sessions, UNCHANGED <<link, category>>,
           \A q \in Sessions : q # p => session'[q] = session[q],
           session'[p].pc = "row" => TrueBadge(session'[p])
    PROVE  BadgeTruthful'
<1> SUFFICES ASSUME NEW q \in Sessions, session'[q].pc = "row"
             PROVE  LET received == {category'[link'[a]] : a \in session'[q].judged}
                    IN /\ session'[q].badge = "mixed" => Cardinality(received) > 1
                       /\ session'[q].badge = NoCategory => received = {}
                       /\ session'[q].badge \notin {"mixed", NoCategory} =>
                              received = {session'[q].badge}
  BY DEF BadgeTruthful
<1>1. {category'[link'[a]] : a \in session'[q].judged} =
      {category[link[a]] : a \in session'[q].judged}
  OBVIOUS
<1>2. TrueBadge(session'[q])
  <2>1. CASE q = p
    BY <2>1
  <2>2. CASE q # p
    <3>1. TrueBadge(session[q])
      BY <2>2, Zenon DEF BadgeTruthful, TrueBadge
    <3> QED BY <2>2, <3>1
  <2> QED BY <2>1, <2>2
<1> QED BY <1>1, <1>2 DEF TrueBadge

\* GET /queue.
LEMMA FollowRowKeeps ==
    ASSUME TablesInv, ReviewInv, NEW p \in Sessions, FollowRow(p), UNCHANGED <<vars, category>>
    PROVE  ReviewInv'
<1>0. /\ UNCHANGED <<link, vAlert, vCurrent>>
      /\ UNCHANGED <<category, disp, dLink>>
  BY DEF FollowRow, vars, storeVars, alertVars, verdictVars
<1>1. PICK f \in StatusFilters : \E alerts \in query_alerts(f) :
           \E members \in RowsOf(alerts) : \E a \in LinkOf(members) :
               session' = [session EXCEPT ![p] =
                   [pc |-> "row", alert |-> a, badge |-> Badge(members, a),
                    judged |-> Judged(members)]]
  BY DEF FollowRow
<1>a. PICK alerts \in query_alerts(f) :
           \E members \in RowsOf(alerts) : \E a \in LinkOf(members) :
               session' = [session EXCEPT ![p] =
                   [pc |-> "row", alert |-> a, badge |-> Badge(members, a),
                    judged |-> Judged(members)]]
  BY <1>1
<1>b. PICK members \in RowsOf(alerts) : \E a \in LinkOf(members) :
           session' = [session EXCEPT ![p] =
               [pc |-> "row", alert |-> a, badge |-> Badge(members, a),
                judged |-> Judged(members)]]
  BY <1>a
<1>c. PICK a \in LinkOf(members) :
           session' = [session EXCEPT ![p] =
               [pc |-> "row", alert |-> a, badge |-> Badge(members, a),
                judged |-> Judged(members)]]
  BY <1>b
<1> DEFINE s == [pc |-> "row", alert |-> a, badge |-> Badge(members, a),
                 judged |-> Judged(members)]
<1>2. alerts \subseteq Alerts
  BY DEF query_alerts
<1>3. members \in SUBSET Alerts /\ Judged(members) \subseteq Alerts /\ a \in Alerts
  BY <1>2 DEF RowsOf, LinkOf, Newest, Judged
<1>4. /\ TrueBadge(s)
      /\ s.badge \in Categories => link[a] # NoVerdict /\ category[link[a]] = s.badge
  BY <1>3, BadgeRight DEF ReviewInv, TrueBadge
<1>5. s.pc = "row" /\ s.alert = a /\ s.judged \subseteq Alerts
      /\ \A b \in s.judged : link[b] # NoVerdict
  BY <1>3 DEF Judged
<1>6. session[p].pc = "queue" /\ session' = [session EXCEPT ![p] = s]
  BY <1>c DEF FollowRow
<1> HIDE DEF s
<1>7. session'[p] = s /\ \A q \in Sessions : q # p => session'[q] = session[q]
  BY <1>6 DEF ReviewInv, SessionInv
<1>8. DispositionInv' /\ MarkedIsDisposed'
  BY <1>0, <1>5, <1>6, ReadingKeeps
<1>9. SessionInv'
  BY <1>0, <1>3, <1>4, <1>5, <1>6, <1>7 DEF ReviewInv, SessionInv
<1>10. BadgeTruthful'
  BY <1>0, <1>4, <1>7, BadgesKept DEF ReviewInv
<1>11. SeenIsRecorded'
  <2>1. disp[p] = NoDisposition
    BY <1>6 DEF ReviewInv, DispositionInv
  <2> QED BY <1>0, <1>5, <1>7, <2>1
          DEF ReviewInv, SeenIsRecorded, Submitted, NoDisposition
<1> QED BY <1>0, <1>8, <1>9, <1>10, <1>11 DEF ReviewInv, CategoryInv

\* GET /alert/{alert_id}.
LEMMA OpenAlertKeeps ==
    ASSUME TablesInv, ReviewInv, NEW p \in Sessions, OpenAlert(p), UNCHANGED <<vars, category>>
    PROVE  ReviewInv'
<1>0. UNCHANGED <<link, vAlert, vCurrent, category, disp, dLink>>
  BY DEF OpenAlert, vars, storeVars, alertVars, verdictVars
<1> DEFINE old == session[p]
           s == [pc |-> "form", alert |-> old.alert, badge |-> old.badge,
                 shown |-> link[old.alert]]
<1>1. old.pc = "row" /\ session' = [session EXCEPT ![p] = s]
  BY DEF OpenAlert
<1>2. /\ old.alert \in Alerts /\ disp[p] = NoDisposition
      /\ old.badge \in Categories =>
             link[old.alert] # NoVerdict /\ category[link[old.alert]] = old.badge
  BY <1>1 DEF ReviewInv, SessionInv, DispositionInv
<1>3. s.pc = "form" /\ s.alert = old.alert /\ s.badge = old.badge
      /\ s.shown = link[old.alert] /\ s.shown \in Verdicts \cup {NoVerdict}
  BY <1>2 DEF TablesInv, TypeOK, StoreTypeOK
<1> HIDE DEF s
<1>4. session'[p] = s /\ \A q \in Sessions : q # p => session'[q] = session[q]
  BY <1>1 DEF ReviewInv, SessionInv
<1>5. DispositionInv' /\ MarkedIsDisposed'
  BY <1>0, <1>1, <1>3, ReadingKeeps
<1>6. SessionInv'
  BY <1>0, <1>1, <1>2, <1>3, <1>4 DEF ReviewInv, SessionInv
<1>7. BadgeTruthful'
  BY <1>0, <1>3, <1>4, BadgesKept DEF ReviewInv
<1>8. SeenIsRecorded'
  BY <1>0, <1>2, <1>3, <1>4 DEF ReviewInv, SeenIsRecorded, Submitted, NoDisposition
<1> QED BY <1>0, <1>5, <1>6, <1>7, <1>8 DEF ReviewInv, CategoryInv

\* POST: the verdict is read in the other table, and is the one that was shown.
LEMMA SubmitReadsKeeps ==
    ASSUME TablesInv, ReviewInv, NEW p \in Sessions, SubmitReads(p), UNCHANGED <<vars, category>>
    PROVE  ReviewInv'
<1>0. UNCHANGED <<link, vAlert, vCurrent, category, disp, dLink>>
  BY DEF SubmitReads, vars, storeVars, alertVars, verdictVars
<1> DEFINE old == session[p]
<1>1. PICK v \in IF Current(old.alert) = {} THEN {NoVerdict} ELSE Current(old.alert) :
           session' = [session EXCEPT ![p] =
               [pc |-> "read", alert |-> old.alert, shown |-> old.shown, verdict |-> v]]
  BY DEF SubmitReads
<1> DEFINE s == [pc |-> "read", alert |-> old.alert, shown |-> old.shown, verdict |-> v]
<1>2. /\ old.pc = "form" /\ old.alert \in Alerts /\ disp[p] = NoDisposition
      /\ old.shown # NoVerdict => old.shown \in Verdicts /\ old.shown = link[old.alert]
  BY DEF SubmitReads, ReviewInv, SessionInv, DispositionInv
<1>3. v # NoVerdict => v \in Verdicts /\ vAlert[v] = old.alert
  BY <1>1 DEF Current
<1>4. old.shown # NoVerdict => v = old.shown
  <2> SUFFICES ASSUME old.shown # NoVerdict PROVE v = old.shown
    OBVIOUS
  <2>1. old.shown \in Current(old.alert)
    BY <1>2, LinkFacts DEF Current
  <2>2. v \in Verdicts /\ vAlert[v] = old.alert
    BY <1>1, <2>1 DEF Current
  <2> QED BY <1>2, <2>2, LinkFacts
<1>5. /\ s.pc = "read" /\ s.alert = old.alert /\ s.shown = old.shown /\ s.verdict = v
      /\ session' = [session EXCEPT ![p] = s]
  BY <1>1
<1> HIDE DEF s
<1>6. session'[p] = s /\ \A q \in Sessions : q # p => session'[q] = session[q]
  BY <1>5 DEF ReviewInv, SessionInv
<1>7. DispositionInv' /\ MarkedIsDisposed'
  BY <1>0, <1>2, <1>5, ReadingKeeps
<1>8. SessionInv'
  BY <1>0, <1>2, <1>3, <1>4, <1>5, <1>6 DEF ReviewInv, SessionInv
<1>9. BadgeTruthful'
  BY <1>0, <1>5, <1>6, BadgesKept DEF ReviewInv
<1>10. SeenIsRecorded'
  BY <1>0, <1>2, <1>5, <1>6 DEF ReviewInv, SeenIsRecorded, Submitted, NoDisposition
<1> QED BY <1>0, <1>7, <1>8, <1>9, <1>10 DEF ReviewInv, CategoryInv

\* record_disposition.
LEMMA SubmitRecordsKeeps ==
    ASSUME TablesInv, ReviewInv, NEW p \in Sessions, SubmitRecords(p),
           UNCHANGED <<vars, category>>
    PROVE  ReviewInv'
<1>0. UNCHANGED <<link, vAlert, vCurrent, category, dLink>>
  BY DEF SubmitRecords, vars, storeVars, alertVars, verdictVars
<1> DEFINE old == session[p]
           s == [pc |-> "recorded", alert |-> old.alert, shown |-> old.shown]
           d == [alert |-> old.alert, verdict |-> old.verdict]
<1>1. /\ old.pc = "read"
      /\ session' = [session EXCEPT ![p] = s]
      /\ disp' = [disp EXCEPT ![p] = d]
  BY DEF SubmitRecords
<1>2. /\ old.alert \in Alerts /\ disp[p] = NoDisposition
      /\ old.shown # NoVerdict =>
             old.shown \in Verdicts /\ old.shown = link[old.alert] /\ old.verdict = old.shown
      /\ old.verdict # NoVerdict => old.verdict \in Verdicts /\ vAlert[old.verdict] = old.alert
  BY <1>1 DEF ReviewInv, SessionInv, DispositionInv
<1>3. /\ s.pc = "recorded" /\ s.alert = old.alert /\ s.shown = old.shown
      /\ d.alert = old.alert /\ d.verdict = old.verdict
      /\ d \in [alert : Alerts \cup {NoAlert}, verdict : Verdicts \cup {NoVerdict}]
  BY <1>2
<1> HIDE DEF s, d
<1>4. /\ session'[p] = s /\ disp'[p] = d
      /\ \A q \in Sessions : q # p => session'[q] = session[q] /\ disp'[q] = disp[q]
  BY <1>1 DEF ReviewInv, SessionInv, DispositionInv
<1>5. SessionInv'
  BY <1>0, <1>1, <1>2, <1>3, <1>4 DEF ReviewInv, SessionInv
<1>6. DispositionInv'
  BY <1>0, <1>1, <1>2, <1>3, <1>4 DEF ReviewInv, DispositionInv, NoDisposition
<1>7. BadgeTruthful'
  BY <1>0, <1>3, <1>4, BadgesKept DEF ReviewInv
<1>8. SeenIsRecorded'
  BY <1>0, <1>2, <1>3, <1>4 DEF ReviewInv, SeenIsRecorded, Submitted, NoDisposition
<1>9. MarkedIsDisposed'
  <2> SUFFICES ASSUME NEW a \in Alerts
               PROVE  /\ dLink[a] # NoSession =>
                            dLink[a] \in {q \in Sessions : disp'[q].alert = a}
                      /\ /\ {q \in Sessions : disp'[q].alert = a} # {}
                         /\ \A q \in {q \in Sessions : disp'[q].alert = a} :
                                session'[q].pc = "done"
                         => dLink[a] # NoSession
    BY <1>0 DEF MarkedIsDisposed
  <2>1. disp[p].alert # a
    BY <1>2, StoreAssumption DEF NoDisposition
  <2>2. dLink[a] # NoSession => dLink[a] \in Sessions /\ disp[dLink[a]].alert = a
    BY DEF ReviewInv, MarkedIsDisposed
  <2>3. ASSUME \A q \in Sessions : disp'[q].alert = a => session'[q].pc = "done",
               NEW r \in Sessions, disp'[r].alert = a
        PROVE  dLink[a] # NoSession
    <3>1. r # p /\ session[r].pc = "done" /\ disp[r].alert = a
      BY <1>3, <1>4, <2>3
    <3> QED BY <3>1 DEF ReviewInv, DispositionInv
  <2> QED BY <1>4, <2>1, <2>2, <2>3
<1> QED BY <1>0, <1>5, <1>6, <1>7, <1>8, <1>9 DEF ReviewInv, CategoryInv

\* link_disposition_to_alert.
LEMMA SubmitLinksKeeps ==
    ASSUME TablesInv, ReviewInv, NEW p \in Sessions, SubmitLinks(p),
           UNCHANGED <<vars, category>>
    PROVE  ReviewInv'
<1>0. UNCHANGED <<link, vAlert, vCurrent, category, disp>>
  BY DEF SubmitLinks, vars, storeVars, alertVars, verdictVars
<1> DEFINE old == session[p]
           s == [pc |-> "done", shown |-> old.shown]
<1>1. /\ old.pc = "recorded"
      /\ session' = [session EXCEPT ![p] = s]
      /\ dLink' = [dLink EXCEPT ![old.alert] = p]
  BY DEF SubmitLinks
<1>2. old.alert \in Alerts /\ disp[p].alert = old.alert
  BY <1>1 DEF ReviewInv, SessionInv, DispositionInv
<1>3. s.pc = "done" /\ s.shown = old.shown
  OBVIOUS
<1> HIDE DEF s
<1>4. /\ session'[p] = s
      /\ \A q \in Sessions : q # p => session'[q] = session[q]
  BY <1>1 DEF ReviewInv, SessionInv
<1>5. /\ dLink'[old.alert] = p /\ p # NoSession
      /\ \A a \in Alerts : a # old.alert => dLink'[a] = dLink[a]
      /\ \A a \in Alerts : dLink[a] # NoSession => dLink'[a] # NoSession
  BY <1>1, <1>2, ReviewAssumption DEF ReviewInv, DispositionInv
<1>6. SessionInv'
  BY <1>0, <1>1, <1>3, <1>4 DEF ReviewInv, SessionInv
<1>7. DispositionInv'
  BY <1>0, <1>1, <1>2, <1>3, <1>4, <1>5 DEF ReviewInv, DispositionInv, NoDisposition
<1>8. BadgeTruthful'
  BY <1>0, <1>3, <1>4, BadgesKept DEF ReviewInv
<1>9. SeenIsRecorded'
  BY <1>0, <1>3, <1>4 DEF ReviewInv, SeenIsRecorded, Submitted, NoDisposition
<1>10. MarkedIsDisposed'
  <2> SUFFICES ASSUME NEW a \in Alerts
               PROVE  /\ dLink'[a] # NoSession => dLink'[a] \in Sessions
                                                  /\ disp[dLink'[a]].alert = a
                      /\ /\ \E r \in Sessions : disp[r].alert = a
                         /\ \A q \in Sessions : disp[q].alert = a => session'[q].pc = "done"
                         => dLink'[a] # NoSession
    BY <1>0 DEF MarkedIsDisposed
  <2>1. CASE a = old.alert
    BY <1>2, <1>5, <2>1
  <2>2. CASE a # old.alert
    <3>1. disp[p].alert # a /\ dLink'[a] = dLink[a]
      BY <1>2, <1>5, <2>2
    <3>2. \A q \in Sessions : disp[q].alert = a => session'[q] = session[q]
      BY <1>4, <3>1
    <3> QED BY <3>1, <3>2 DEF ReviewInv, MarkedIsDisposed
  <2> QED BY <2>1, <2>2
<1> QED BY <1>0, <1>6, <1>7, <1>8, <1>9, <1>10 DEF ReviewInv, CategoryInv

\* A submission ends without a row, refused or raised before the commit.
LEMMA SubmitDropsKeeps ==
    ASSUME TablesInv, ReviewInv, NEW p \in Sessions, UNCHANGED <<vars, category, disp, dLink>>,
           session[p].pc \in {"form", "read"},
           session' = [session EXCEPT ![p] = [pc |-> "queue"]]
    PROVE  ReviewInv'
<1> DEFINE s == [pc |-> "queue"]
<1>0. UNCHANGED <<link, vAlert, vCurrent, category, disp, dLink>>
  BY DEF vars, storeVars, alertVars, verdictVars
<1>1. s.pc = "queue" /\ session' = [session EXCEPT ![p] = s] /\ disp[p] = NoDisposition
  BY DEF ReviewInv, DispositionInv
<1> HIDE DEF s
<1>2. session'[p] = s /\ \A q \in Sessions : q # p => session'[q] = session[q]
  BY <1>1 DEF ReviewInv, SessionInv
<1>3. DispositionInv' /\ MarkedIsDisposed'
  BY <1>1, ReadingKeeps
<1>4. SessionInv'
  BY <1>0, <1>1, <1>2 DEF ReviewInv, SessionInv
<1>5. BadgeTruthful'
  BY <1>0, <1>1, <1>2, BadgesKept DEF ReviewInv
<1>6. SeenIsRecorded'
  BY <1>0, <1>1, <1>2 DEF ReviewInv, SeenIsRecorded, Submitted, NoDisposition
<1> QED BY <1>0, <1>3, <1>4, <1>5, <1>6 DEF ReviewInv, CategoryInv

\* A submission raises after its row is committed: the row stays, without a mark.
LEMMA SubmitStrandedKeeps ==
    ASSUME TablesInv, ReviewInv, NEW p \in Sessions, UNCHANGED <<vars, category, disp, dLink>>,
           session[p].pc = "recorded",
           session' = [session EXCEPT ![p] = [pc |-> "raised", shown |-> session[p].shown]]
    PROVE  ReviewInv'
<1> DEFINE s == [pc |-> "raised", shown |-> session[p].shown]
<1>0. UNCHANGED <<link, vAlert, vCurrent, category, disp, dLink>>
  BY DEF vars, storeVars, alertVars, verdictVars
<1>1. s.pc = "raised" /\ s.shown = session[p].shown /\ session' = [session EXCEPT ![p] = s]
  OBVIOUS
<1> HIDE DEF s
<1>2. session'[p] = s /\ \A q \in Sessions : q # p => session'[q] = session[q]
  BY <1>1 DEF ReviewInv, SessionInv
<1>3. DispositionInv' /\ MarkedIsDisposed'
  BY <1>0, <1>1, <1>2 DEF ReviewInv, DispositionInv, MarkedIsDisposed, NoDisposition
<1>4. SessionInv'
  BY <1>0, <1>1, <1>2 DEF ReviewInv, SessionInv
<1>5. BadgeTruthful'
  BY <1>0, <1>1, <1>2, BadgesKept DEF ReviewInv
<1>6. SeenIsRecorded'
  BY <1>0, <1>1, <1>2 DEF ReviewInv, SeenIsRecorded, Submitted, NoDisposition
<1> QED BY <1>0, <1>3, <1>4, <1>5, <1>6 DEF ReviewInv, CategoryInv

\* A stop cuts every submission off at once: those with a row stay, without a mark, and
\* the others never were.
LEMMA StopKeeps ==
    ASSUME TablesInv, ReviewInv, StopAndStart
    PROVE  ReviewInv'
<1>0. UNCHANGED <<link, vAlert, vCurrent, category, disp, dLink>>
  BY DEF StopAndStart, Restart, storeVars, alertVars, verdictVars
<1>1. session' = [p \in Sessions |-> CutOff(session[p])]
  BY DEF StopAndStart
<1>2. ASSUME NEW p \in Sessions
      PROVE  \/ session'[p] = session[p] /\ session[p].pc \notin {"read", "recorded"}
             \/ session[p].pc = "read" /\ session'[p] = [pc |-> "queue"]
             \/ /\ session[p].pc = "recorded"
                /\ session'[p] = [pc |-> "raised", shown |-> session[p].shown]
  BY <1>1, <1>2 DEF CutOff
<1>3. ASSUME NEW p \in Sessions
      PROVE  \/ session'[p] = session[p] /\ session[p].pc \notin {"read", "recorded"}
             \/ session[p].pc = "read" /\ session'[p].pc = "queue"
             \/ /\ session[p].pc = "recorded" /\ session'[p].pc = "raised"
                /\ session'[p].shown = session[p].shown
  <2>1. CASE session[p].pc = "read" /\ session'[p] = [pc |-> "queue"]
    BY <2>1
  <2>2. CASE /\ session[p].pc = "recorded"
             /\ session'[p] = [pc |-> "raised", shown |-> session[p].shown]
    BY <2>2
  <2> QED BY <1>2, <1>3, <2>1, <2>2
<1>4. DOMAIN session' = Sessions
  BY <1>1
<1>5. SessionInv'
  BY <1>0, <1>3, <1>4 DEF ReviewInv, SessionInv
<1>6. DispositionInv'
  BY <1>0, <1>3 DEF ReviewInv, DispositionInv, NoDisposition
<1>7. MarkedIsDisposed'
  <2>1. \A p \in Sessions : session'[p].pc = "done" => session[p].pc = "done"
    BY <1>3
  <2> QED BY <1>0, <2>1 DEF ReviewInv, MarkedIsDisposed
<1>8. BadgeTruthful'
  <2>1. \A p \in Sessions : session'[p].pc = "row" => session'[p] = session[p]
    BY <1>3
  <2>2. \A p \in Sessions : session'[p].pc = "row" => TrueBadge(session'[p])
    BY <2>1, Zenon DEF ReviewInv, BadgeTruthful, TrueBadge
  <2> QED BY <1>0, <2>2 DEF BadgeTruthful, TrueBadge
<1>9. SeenIsRecorded'
  <2>1. \A p \in Sessions : session[p].pc = "read" => disp[p] = NoDisposition
    BY DEF ReviewInv, DispositionInv
  <2> QED BY <1>0, <1>3, <2>1 DEF ReviewInv, SeenIsRecorded, Submitted, NoDisposition
<1> QED BY <1>0, <1>5, <1>6, <1>7, <1>8, <1>9 DEF ReviewInv, CategoryInv

-----------------------------------------------------------------------------
\* ReviewInv is inductive relative to the invariants of Triage: one step per kind of step
\* of ReviewNext, the analyst's through the lemma of the request.
THEOREM ReviewInductive == ReviewSpec => []ReviewInv
<1>1. ReviewInit => ReviewInv
  <2> SUFFICES ASSUME ReviewInit PROVE ReviewInv
    OBVIOUS
  <2>1. /\ \A p \in Sessions : session[p] = [pc |-> "queue"] /\ disp[p] = NoDisposition
        /\ \A a \in Alerts : dLink[a] = NoSession
        /\ \A v \in Verdicts : vAlert[v] = NoAlert
    BY DEF ReviewInit, Init, StoreInit
  <2>2. CategoryInv /\ SessionInv
    BY <2>1 DEF ReviewInit, CategoryInv, SessionInv
  <2>3. DispositionInv
    BY <2>1 DEF ReviewInit, DispositionInv, NoDisposition
  <2>4. BadgeTruthful /\ SeenIsRecorded
    BY <2>1 DEF BadgeTruthful, SeenIsRecorded, Submitted
  <2>5. MarkedIsDisposed
    BY <2>1, StoreAssumption DEF MarkedIsDisposed, NoDisposition
  <2> QED BY <2>2, <2>3, <2>4, <2>5 DEF ReviewInv
<1>2. ASSUME TablesInv, ReviewInv, [ReviewNext]_allVars PROVE ReviewInv'
  <2>1. CASE UNCHANGED <<category, reviewVars, link, vAlert>>
    <3>1. Frozen /\ CategoryInv'
      BY <1>2, <2>1 DEF Frozen, ReviewInv, CategoryInv
    <3> QED BY <1>2, <2>1, <3>1, SessionsUndisturbed DEF ReviewInv
  <2>2. CASE WorkerStep /\ SetsCategory /\ UNCHANGED <<dispVars, reviewVars>>
    <3>1. Frozen /\ CategoryInv'
      BY <1>2, <2>2, WorkerFreezes DEF ReviewInv
    <3> QED BY <1>2, <2>2, <3>1, SessionsUndisturbed DEF ReviewInv
  <2>3. ASSUME NEW p \in Sessions, SessionStep(p), UNCHANGED <<vars, category>>
        PROVE  ReviewInv'
    <3>1. CASE SubmitRefused(p)
      BY <1>2, <2>3, <3>1, SubmitDropsKeeps DEF SubmitRefused
    <3>2. CASE SubmitRaises(p) /\ session[p].pc = "read"
      BY <1>2, <2>3, <3>2, SubmitDropsKeeps DEF SubmitRaises, CutOff
    <3>3. CASE SubmitRaises(p) /\ session[p].pc = "recorded"
      BY <1>2, <2>3, <3>3, SubmitStrandedKeeps DEF SubmitRaises, CutOff
    <3>4. SubmitRaises(p) => session[p].pc \in {"read", "recorded"}
      BY DEF SubmitRaises
    <3> QED BY <1>2, <2>3, <3>1, <3>2, <3>3, <3>4, FollowRowKeeps, OpenAlertKeeps,
               SubmitReadsKeeps, SubmitRecordsKeeps, SubmitLinksKeeps DEF SessionStep
  <2>4. CASE Tick /\ UNCHANGED <<dispVars, workerVars, category, reviewVars>>
    BY <2>1, <2>4 DEF Tick, alertVars, verdictVars
  <2>5. CASE DispStep /\ UNCHANGED <<workerVars, category, reviewVars>>
    <3>1. UNCHANGED <<link, vAlert>>
      BY <2>5 DEF DispStep, HandlerStep, Dispatch, HandleCount, HandleCountRaises,
                  HandleStamp, HandleInsert, HandleInsertRaises, insert_alert, storeVars,
                  alertVars, verdictVars
    <3> QED BY <2>1, <2>5, <3>1
  <2>6. CASE UNCHANGED allVars
    BY <2>1, <2>6 DEF allVars, vars, storeVars, alertVars, verdictVars
  <2> QED BY <1>2, <2>2, <2>3, <2>4, <2>5, <2>6, StopKeeps DEF ReviewNext
<1> QED BY <1>1, <1>2, TablesInductive, PTL DEF ReviewSpec

\* "the badge never asserts a judgement one member didn't actually receive"
\* (_build_queue_rows), and still does not when it is followed, for any number of members,
\* categories and analysts.
THEOREM BadgeCorrect == ReviewSpec => []BadgeTruthful
<1>1. ReviewInv => BadgeTruthful
  BY DEF ReviewInv
<1> QED BY <1>1, ReviewInductive, PTL

\* The verdict an analyst disposes of is the one on the badge and on the page, although
\* queue, page and submission read it in two tables while the worker writes both
\* (post_disposition, get_current_verdict_for_alert).
THEOREM SeenIsRecordedCorrect == ReviewSpec => []SeenIsRecorded
<1>1. ReviewInv => SeenIsRecorded
  BY DEF ReviewInv
<1> QED BY <1>1, ReviewInductive, PTL

\* An alert's mark in the queue names a disposition of that alert, and a submission that
\* was answered has left one (record_disposition, link_disposition_to_alert).
THEOREM MarkedIsDisposedCorrect == ReviewSpec => []MarkedIsDisposed
<1>1. ReviewInv => MarkedIsDisposed
  BY DEF ReviewInv
<1> QED BY <1>1, ReviewInductive, PTL
=============================================================================
