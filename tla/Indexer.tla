------------------------------ MODULE Indexer -------------------------------
(***************************************************************************)
(* The broadcaster (_broadcast, src/src/ingestion/pipeline.py) and         *)
(* EveIndexer (src/src/ingestion/indexer.py): events leave the tailer      *)
(* queue for the dispatcher and for batches that are inserted in one       *)
(* transaction, when full or when no event has come for FlushInterval.     *)
(* Events are numbered in the order of the tailer.  A flush is two steps,  *)
(* with arrivals, time and a cancellation between them, and so is the last *)
(* one, on a cancellation: EvePipeline.run cancels its tasks once when one *)
(* of them fails, but twice when it is cancelled itself, since gather()    *)
(* passes the cancellation on and raises as soon as the first task is done.*)
(***************************************************************************)
EXTENDS Naturals, Sequences

CONSTANTS BatchSize,      \* batch_size
          FlushInterval,  \* flush_interval_ms, in ticks
          MaxEvents,      \* bound on the events
          MaxFaults       \* bound on the failed flushes

ASSUME IndexerAssumption ==
    /\ BatchSize \in Nat \ {0}
    /\ FlushInterval \in Nat \ {0}
    /\ {MaxEvents, MaxFaults} \subseteq Nat

VARIABLES source,      \* tailer_queue: records [n, alert]
          arrived,     \* number of events read by the tailer so far
          alerts,      \* the numbers of the alert events among them, in order
          queue,       \* indexer_queue
          dispatched,  \* all that was put on dispatcher_queue
          batch,       \* the local variable batch
          stored,      \* rows of eve_events, in insertion order
          ipc,         \* "wait", "flush", "final" (flush on cancellation), "stopped"
          timer,       \* what is left of the wait_for timeout
          faults,      \* failed flushes so far
          shutdown     \* has the pipeline itself been cancelled?

eventVars == <<source, arrived, alerts, dispatched>>
pipeVars == <<eventVars, shutdown>>
indexerVars == <<pipeVars, queue, batch, stored, ipc, timer, faults>>

IndexerInit ==
    /\ source = <<>>
    /\ arrived = 0
    /\ alerts = <<>>
    /\ queue = <<>>
    /\ dispatched = <<>>
    /\ batch = <<>>
    /\ stored = <<>>
    /\ ipc = "wait"
    /\ timer = FlushInterval
    /\ faults = 0
    /\ shutdown = FALSE

-----------------------------------------------------------------------------
\* EveTailer puts an event on its queue.
Arrive(a) ==
    /\ arrived < MaxEvents
    /\ ipc \in {"wait", "flush"}
    /\ arrived' = arrived + 1
    /\ source' = Append(source, [n |-> arrived', alert |-> a])
    /\ alerts' = IF a THEN Append(alerts, arrived') ELSE alerts
    /\ UNCHANGED <<queue, dispatched, batch, stored, ipc, timer, faults, shutdown>>

\* The queues are unbounded, so neither put() suspends.
Broadcast ==
    /\ source # <<>>
    /\ ipc \in {"wait", "flush"}
    /\ queue' = Append(queue, Head(source).n)
    /\ dispatched' = IF Head(source).alert THEN Append(dispatched, Head(source).n)
                                           ELSE dispatched
    /\ source' = Tail(source)
    /\ UNCHANGED <<arrived, alerts, batch, stored, ipc, timer, faults, shutdown>>

\* Time passes while nothing is ready to run: in wait_for, or in an awaited flush.
Tick ==
    /\ \/ /\ ipc = "wait" /\ timer > 0
          /\ source = <<>> /\ queue = <<>>
          /\ timer' = timer - 1
       \/ /\ (ipc = "flush" /\ source = <<>>) \/ ipc = "final"
          /\ UNCHANGED timer
    /\ UNCHANGED <<pipeVars, queue, batch, stored, ipc, faults>>

-----------------------------------------------------------------------------
\* A new turn of the loop: wait_for starts a new timeout.
WaitAgain == ipc' = "wait" /\ timer' = FlushInterval

\* get() returns in time: the event joins the batch, a full batch is flushed.
GetEvent ==
    /\ ipc = "wait"
    /\ queue # <<>>
    /\ batch' = Append(batch, Head(queue))
    /\ queue' = Tail(queue)
    /\ IF Len(batch') >= BatchSize
       THEN ipc' = "flush" /\ UNCHANGED timer
       ELSE WaitAgain
    /\ UNCHANGED <<pipeVars, stored, faults>>

\* Only full batches are written.
TimeoutFires_NoFlush ==
    /\ ipc = "wait"
    /\ queue = <<>> /\ timer = 0
    /\ WaitAgain
    /\ UNCHANGED <<pipeVars, queue, batch, stored, faults>>

TimeoutFires ==
    /\ ipc = "wait"
    /\ queue = <<>> /\ timer = 0
    /\ IF batch # <<>> THEN ipc' = "flush" /\ UNCHANGED timer ELSE WaitAgain
    /\ UNCHANGED <<pipeVars, queue, batch, stored, faults>>

\* insert_eve_events_batch commits.
FlushCommits ==
    /\ ipc = "flush"
    /\ stored' = stored \o batch
    /\ batch' = <<>>
    /\ WaitAgain
    /\ UNCHANGED <<pipeVars, queue, faults>>

FlushFails_DropsBatch ==
    /\ ipc = "flush"
    /\ faults < MaxFaults
    /\ faults' = faults + 1
    /\ batch' = <<>>
    /\ WaitAgain
    /\ UNCHANGED <<pipeVars, queue, stored>>

\* The transaction is rolled back and the batch kept.
FlushFails ==
    /\ ipc = "flush"
    /\ faults < MaxFaults
    /\ faults' = faults + 1
    /\ WaitAgain
    /\ UNCHANGED <<pipeVars, queue, batch, stored>>

-----------------------------------------------------------------------------
CancelWaiting_NoFlush ==
    /\ ipc = "wait"
    /\ ipc' = "stopped"
    /\ shutdown' \in BOOLEAN
    /\ UNCHANGED <<eventVars, queue, batch, stored, timer, faults>>

\* Shutdown, or another component of the pipeline failed.
CancelWaiting ==
    /\ ipc = "wait"
    /\ ipc' = IF batch # <<>> THEN "final" ELSE "stopped"
    /\ shutdown' \in BOOLEAN
    /\ UNCHANGED <<eventVars, queue, batch, stored, timer, faults>>

\* The cancellation arrives while the flush is awaited: CancelledError is no
\* Exception, so _flush does not catch it.  The database may or may not have
\* committed, and run() flushes the same batch again.
CancelFlushing(committed) ==
    /\ ipc = "flush"
    /\ ipc' = "final"
    /\ shutdown' \in BOOLEAN
    /\ stored' = IF committed THEN stored \o batch ELSE stored
    /\ UNCHANGED <<eventVars, queue, batch, timer, faults>>

\* The second cancellation of a shutdown, or a shutdown after a failure, arrives while
\* the last flush is awaited: nothing flushes again.
CancelFinal(committed) ==
    /\ ipc = "final"
    /\ ipc' = "stopped"
    /\ shutdown' = TRUE
    /\ stored' = IF committed THEN stored \o batch ELSE stored
    /\ batch' = <<>>
    /\ UNCHANGED <<eventVars, queue, timer, faults>>

FinalCommits ==
    /\ ipc = "final"
    /\ stored' = stored \o batch
    /\ batch' = <<>>
    /\ ipc' = "stopped"
    /\ UNCHANGED <<pipeVars, queue, timer, faults>>

\* The result of the last flush is not looked at.
FinalFails ==
    /\ ipc = "final"
    /\ faults < MaxFaults
    /\ faults' = faults + 1
    /\ batch' = <<>>
    /\ ipc' = "stopped"
    /\ UNCHANGED <<pipeVars, queue, stored, timer>>

Cancel == CancelWaiting \/ \E c \in BOOLEAN : CancelFlushing(c) \/ CancelFinal(c)

Step == GetEvent \/ TimeoutFires \/ FlushCommits \/ FlushFails \/ FinalCommits \/ FinalFails

IndexerStep == Broadcast \/ Step \/ Cancel

-----------------------------------------------------------------------------
UpTo(n) == [i \in 1 .. n |-> i]

Pending == [i \in 1 .. Len(source) |-> source[i].n]

\* Until the indexer is cancelled, every event the tailer read is in exactly one place
\* and in order - stored, in the batch, or in a queue - whatever flushes failed, and the
\* dispatcher has been given the alerts that have left the tailer queue, each once, in
\* order, and nothing else.
NothingLostOrRepeated ==
    ipc \in {"wait", "flush"} =>
        /\ stored \o batch \o queue \o Pending = UpTo(arrived)
        /\ \E k \in 0 .. Len(alerts) :
             /\ dispatched = SubSeq(alerts, 1, k)
             /\ \A i \in 1 .. Len(alerts) :
                  i > k <=> \E j \in 1 .. Len(Pending) : Pending[j] = alerts[i]

\* The events that are nowhere once the indexer has stopped.
Lost == {n \in 1 .. arrived :
            \A q \in {stored, queue, Pending} : \A i \in 1 .. Len(q) : q[i] # n}

\* "Flushes any partial batch on cancellation" (run): unless a flush failed, a stop
\* because another component failed leaves nothing behind that is not on a queue.  A
\* shutdown, whose second cancellation meets the last flush, loses one batch at most.
StopLosesOneBatch ==
    ipc = "stopped" /\ faults = 0 =>
        /\ ~shutdown => Lost = {}
        /\ \A m, n \in Lost : m < n + BatchSize
=============================================================================
