------------------------- MODULE FlowContextProofs --------------------------
(***************************************************************************)
(* Proofs about FlowContext and Indexer, for every batch size, flush       *)
(* interval, context delay, retention and number of events and failures:   *)
(* nothing is lost or repeated between the tailer and the table while the  *)
(* indexer runs, a stop loses at most the batch a second cancellation meets*)
(* in its last flush, and the worker never reads a flow with a gap in it.  *)
(*                                                                         *)
(* ContextInv counts the places an event passes while the indexer runs     *)
(* (Placed).  Once it is cancelled a batch may have been written twice or  *)
(* not at all; that the table still holds a first part of the events is    *)
(* what Ending keeps, for which the batch has to stay the run of events    *)
(* just before the queue.                                                  *)
(***************************************************************************)
EXTENDS FlowContext, TLAPS, SequenceTheorems

\* An entry of the tailer queue.
Event == [n : Nat, alert : BOOLEAN]

\* Types of what the pipeline keeps.
TypeOK ==
    /\ arrived \in Nat
    /\ source \in Seq(Event)
    /\ alerts \in Seq(Nat)
    /\ dispatched \in Seq(Nat)
    /\ queue \in Seq(Nat)
    /\ batch \in Seq(Nat)
    /\ stored \in Seq(Nat)
    /\ ipc \in {"wait", "flush", "final", "stopped"}
    /\ timer \in 0 .. FlushInterval
    /\ faults \in Nat
    /\ shutdown \in BOOLEAN
    /\ age \in Seq(Nat)

\* Where event n is.
IsIn(n, q) == \E i \in 1 .. Len(q) : q[i] = n

\* Reading stored, batch, queue and tailer queue in turn counts the events 1, 2, 3, ...
Placed ==
    /\ arrived = Len(stored) + Len(batch) + Len(queue) + Len(source)
    /\ \A i \in 1 .. Len(stored) : stored[i] = i
    /\ \A i \in 1 .. Len(batch) : batch[i] = Len(stored) + i
    /\ \A i \in 1 .. Len(queue) : queue[i] = Len(stored) + Len(batch) + i
    /\ \A i \in 1 .. Len(source) : source[i].n = Len(stored) + Len(batch) + Len(queue) + i

\* How many events the indexer has taken from its queue.
Taken == arrived - Len(source) - Len(queue)

\* Of those, the table holds the first e.
Holds(e) == \A n \in 1 .. Taken : IsIn(n, stored) <=> n <= e

\* The table and the queues, once a flush may have been written twice or not at all.
Around ==
    /\ Taken \in Nat
    /\ \A i \in 1 .. Len(stored) : stored[i] \in 1 .. Taken
    /\ \A i \in 1 .. Len(queue) : queue[i] = Taken + i
    /\ \A i \in 1 .. Len(source) : source[i].n = Taken + Len(queue) + i

\* The batch is the last of the events taken, written or not.
LastBatch ==
    /\ Len(batch) <= Taken
    /\ \A i \in 1 .. Len(batch) : batch[i] = (Taken - Len(batch)) + i
    /\ Holds(Taken - Len(batch)) \/ Holds(Taken)

\* What is left of Placed once the indexer is cancelled.
Ending ==
    /\ Around
    /\ ipc = "final" => LastBatch /\ (faults = 0 => Len(batch) <= BatchSize)
    /\ ipc = "stopped" =>
         \E e \in 0 .. Taken :
            /\ Holds(e)
            /\ faults = 0 => Taken <= e + BatchSize /\ (~shutdown => e = Taken)

\* The order holds while the indexer runs; afterwards the table is short of one batch at
\* most, unless a flush failed.
PlacesInv ==
    /\ Len(age) = arrived
    /\ \A i \in 1 .. Len(stored) : stored[i] \in 1 .. arrived
    /\ Running => Placed
    /\ ~Running => Ending

\* Until a flush fails, a batch is flushed when it is full.
BatchInv ==
    Running /\ faults = 0 =>
        Len(batch) <= BatchSize /\ (ipc = "wait" => Len(batch) < BatchSize)

\* The dispatcher has the first of the alerts; the others are those on the tailer queue.
AlertsInv ==
    Running =>
      /\ \A i \in 1 .. Len(alerts) : alerts[i] \in 1 .. arrived
      /\ \A i, j \in 1 .. Len(alerts) : i < j => alerts[i] < alerts[j]
      /\ Len(dispatched) <= Len(alerts)
      /\ \A i \in 1 .. Len(dispatched) : dispatched[i] = alerts[i]
      /\ \A i \in 1 .. Len(alerts) : i > Len(dispatched) <=> alerts[i] > arrived - Len(source)
      /\ \A j \in 1 .. Len(source) : source[j].alert <=> IsIn(source[j].n, alerts)

\* The cleanup deleted only rows past retention.
Deleted == \A i \in expired : i \in 1 .. Len(stored) /\ PastRetention(stored[i])

\* The part of the invariant that is about the pipeline.
PipeInv == TypeOK /\ PlacesInv /\ AlertsInv /\ BatchInv

\* The inductive invariant.
ContextInv == PipeInv /\ Deleted

-----------------------------------------------------------------------------
\* The steps that leave the pipeline and the ages alone.
Aside ==
    /\ UNCHANGED <<indexerVars, age, old>>
    /\ \/ \E n \in DOMAIN sleeping : HandleInsert(n)
       \/ \E n \in inTable : ReadFlow(n)
       \/ Cleanup
       \/ UNCHANGED vars

\* A step reads an event, moves the pipeline, lets time pass, or leaves both alone.
LEMMA StepKinds ==
    ASSUME [Next]_vars
    PROVE  \/ \E a, r \in BOOLEAN : EventRead(a, r)
           \/ PipelineStep
           \/ TimePasses
           \/ Aside
<1>1. CASE \E n \in DOMAIN sleeping : HandleInsert(n)
  BY <1>1 DEF HandleInsert, Aside
<1>2. CASE \E n \in inTable : ReadFlow(n)
  BY <1>2 DEF ReadFlow, Aside
<1>3. CASE Cleanup
  BY <1>3 DEF Cleanup, Aside
<1>4. CASE UNCHANGED vars
  BY <1>4 DEF vars, contextVars, Aside
<1>5. QED
  BY <1>1, <1>2, <1>3, <1>4 DEF Next

\* What put() on a queue leaves.
LEMMA AppendFacts ==
    ASSUME NEW S, NEW s \in Seq(S), NEW e \in S
    PROVE  /\ Append(s, e) \in Seq(S) /\ Len(Append(s, e)) = Len(s) + 1
           /\ \A i \in 1 .. Len(s) : Append(s, e)[i] = s[i]
           /\ Append(s, e)[Len(s) + 1] = e
OBVIOUS

\* What get() from a queue takes and leaves.
LEMMA TailFacts ==
    ASSUME NEW S, NEW s \in Seq(S), s # <<>>
    PROVE  /\ Head(s) \in S /\ Head(s) = s[1] /\ Len(s) >= 1
           /\ Tail(s) \in Seq(S) /\ Len(Tail(s)) = Len(s) - 1
           /\ \A i \in 1 .. Len(s) - 1 : Tail(s)[i] = s[i + 1]
OBVIOUS

\* What a committed transaction adds to the table.
LEMMA ConcatFacts ==
    ASSUME NEW S, NEW s \in Seq(S), NEW t \in Seq(S)
    PROVE  /\ s \o t \in Seq(S) /\ Len(s \o t) = Len(s) + Len(t)
           /\ \A i \in 1 .. Len(s) : (s \o t)[i] = s[i]
           /\ \A i \in 1 .. Len(t) : (s \o t)[Len(s) + i] = t[i]
OBVIOUS

\* A run of event numbers continued by the next ones is a run of event numbers.
LEMMA CountsOn ==
    ASSUME NEW s \in Seq(Nat), NEW t \in Seq(Nat),
           \A i \in 1 .. Len(s) : s[i] = i,
           \A i \in 1 .. Len(t) : t[i] = Len(s) + i
    PROVE  /\ s \o t \in Seq(Nat) /\ Len(s \o t) = Len(s) + Len(t)
           /\ \A i \in 1 .. Len(s \o t) : (s \o t)[i] = i
<1>1. Len(s) \in Nat /\ Len(t) \in Nat
  OBVIOUS
<1>2. /\ s \o t \in Seq(Nat) /\ Len(s \o t) = Len(s) + Len(t)
      /\ \A i \in 1 .. Len(s) : (s \o t)[i] = s[i]
      /\ \A i \in 1 .. Len(t) : (s \o t)[Len(s) + i] = t[i]
  BY ConcatFacts
<1>3. ASSUME NEW i \in 1 .. Len(s) + Len(t)
      PROVE  (s \o t)[i] = i
  <2>1. CASE i \in 1 .. Len(s)
    BY <1>2, <2>1
  <2>2. CASE i - Len(s) \in 1 .. Len(t)
    <3>1. Len(s) + (i - Len(s)) = i
      BY <1>1, <1>3
    <3>2. QED
      BY <1>2, <2>2, <3>1
  <2>3. QED
    BY <1>1, <1>3, <2>1, <2>2
<1>4. QED
  BY <1>2, <1>3

\* The empty sequence, of any type.
LEMMA EmptyFacts ==
    ASSUME NEW S
    PROVE  <<>> \in Seq(S) /\ Len(<<>>) = 0
OBVIOUS

\* The counts the arithmetic below is about.
LEMMA Lengths ==
    ASSUME TypeOK
    PROVE  {Len(source), Len(alerts), Len(dispatched), Len(queue), Len(batch),
            Len(stored), Len(age), arrived} \subseteq Nat
BY DEF TypeOK

-----------------------------------------------------------------------------
\* EveTailer: the event read last is the youngest, and last on the tailer queue.
LEMMA ArrivalKeeps ==
    ASSUME PipeInv, NEW a \in BOOLEAN, NEW r \in BOOLEAN, EventRead(a, r)
    PROVE  PipeInv'
<1> DEFINE e == [n |-> arrived + 1, alert |-> a]
<1>1. TypeOK /\ PlacesInv /\ AlertsInv /\ BatchInv
  BY DEF PipeInv
<1>2. /\ Len(source) \in Nat /\ Len(queue) \in Nat /\ Len(batch) \in Nat
      /\ Len(stored) \in Nat /\ Len(alerts) \in Nat /\ Len(dispatched) \in Nat
      /\ arrived \in Nat /\ Len(age) = arrived
  BY <1>1, Lengths DEF PlacesInv
<1>3. e \in Event /\ e.n = arrived + 1 /\ (e.alert <=> a) /\ arrived + 1 \in Nat
  BY <1>2 DEF Event
<1>4. /\ arrived' = arrived + 1
      /\ source' = Append(source, e)
      /\ a => alerts' = Append(alerts, arrived + 1)
      /\ ~a => alerts' = alerts
      /\ age' = Append(age, 0)
      /\ ipc \in {"wait", "flush"} /\ ipc' = ipc
      /\ UNCHANGED <<queue, dispatched, batch, stored, timer, faults, shutdown>>
  BY DEF EventRead, Arrive
<1> HIDE DEF e
<1>5. /\ source' \in Seq(Event) /\ Len(source') = Len(source) + 1
      /\ \A i \in 1 .. Len(source) : source'[i] = source[i]
      /\ source'[Len(source) + 1] = e
  BY <1>1, <1>3, <1>4, AppendFacts DEF TypeOK
<1>6. /\ age' \in Seq(Nat) /\ Len(age') = Len(age) + 1
      /\ \A i \in 1 .. Len(age) : age'[i] = age[i]
      /\ age'[Len(age) + 1] = 0
  <2>1. 0 \in Nat
    OBVIOUS
  <2>2. QED
    BY <1>1, <1>4, <2>1, AppendFacts DEF TypeOK
<1>7. ASSUME a
      PROVE  /\ alerts' \in Seq(Nat) /\ Len(alerts') = Len(alerts) + 1
             /\ \A i \in 1 .. Len(alerts) : alerts'[i] = alerts[i]
             /\ alerts'[Len(alerts) + 1] = arrived + 1
  <2>1. alerts' = Append(alerts, arrived + 1) /\ alerts \in Seq(Nat)
    BY <1>1, <1>4, <1>7 DEF TypeOK
  <2>2. QED
    BY <1>3, <2>1, AppendFacts
<1>8. TypeOK'
  BY <1>1, <1>3, <1>4, <1>5, <1>6, <1>7 DEF TypeOK
<1>9. Placed
  BY <1>1, <1>4 DEF PlacesInv, Running
<1>10. \A i \in 1 .. Len(source) + 1 : i \in 1 .. Len(source) \/ i = Len(source) + 1
  BY <1>2
<1>11. PlacesInv'
  <2>1. ASSUME NEW i \in 1 .. Len(source) + 1
        PROVE  source'[i].n = Len(stored) + Len(batch) + Len(queue) + i
    <3>1. CASE i \in 1 .. Len(source)
      <4>1. source'[i] = source[i]
        BY <1>5, <3>1
      <4>2. QED
        BY <1>9, <3>1, <4>1 DEF Placed
    <3>2. CASE i = Len(source) + 1
      BY <1>2, <1>3, <1>5, <1>9, <3>2 DEF Placed
    <3>3. QED
      BY <1>10, <2>1, <3>1, <3>2
  <2>2. Placed'
    BY <1>2, <1>4, <1>5, <1>9, <2>1 DEF Placed
  <2>3. \A i \in 1 .. Len(stored) : stored[i] \in 1 .. arrived + 1
    BY <1>1, <1>2 DEF PlacesInv
  <2>4. QED
    BY <1>1, <1>4, <1>6, <2>2, <2>3 DEF PlacesInv, Running
<1>12. AlertsInv'
  <2>1. /\ \A i \in 1 .. Len(alerts) : alerts[i] \in 1 .. arrived
        /\ \A i, j \in 1 .. Len(alerts) : i < j => alerts[i] < alerts[j]
        /\ Len(dispatched) <= Len(alerts)
        /\ \A i \in 1 .. Len(dispatched) : dispatched[i] = alerts[i]
        /\ \A i \in 1 .. Len(alerts) :
              i > Len(dispatched) <=> alerts[i] > arrived - Len(source)
        /\ \A j \in 1 .. Len(source) : source[j].alert <=> IsIn(source[j].n, alerts)
    BY <1>1, <1>4 DEF AlertsInv, Running
  <2>2. \A j \in 1 .. Len(source) : source[j].n \in 1 .. arrived
    BY <1>2, <1>9 DEF Placed
  <2>3. (arrived + 1) - (Len(source) + 1) = arrived - Len(source) /\ Len(source) <= arrived
    BY <1>2, <1>9 DEF Placed
  <2>4. CASE ~a
    <3>1. alerts' = alerts
      BY <1>4, <2>4
    <3>2. \A i \in 1 .. Len(alerts) : alerts[i] \in 1 .. arrived + 1
      BY <1>2, <2>1
    <3>3. ASSUME NEW j \in 1 .. Len(source) + 1
          PROVE  source'[j].alert <=> IsIn(source'[j].n, alerts)
      <4>1. CASE j \in 1 .. Len(source)
        BY <1>5, <2>1, <4>1
      <4>2. CASE j = Len(source) + 1
        <5>1. ~IsIn(arrived + 1, alerts)
          BY <1>2, <2>1 DEF IsIn
        <5>2. QED
          BY <1>3, <1>5, <2>4, <4>2, <5>1
      <4>3. QED
        BY <1>10, <3>3, <4>1, <4>2
    <3>4. QED
      BY <1>4, <1>5, <2>1, <2>3, <3>1, <3>2, <3>3 DEF AlertsInv
  <2>5. CASE a
    <3>1. /\ Len(alerts') = Len(alerts) + 1
          /\ \A i \in 1 .. Len(alerts) : alerts'[i] = alerts[i]
          /\ alerts'[Len(alerts) + 1] = arrived + 1
      BY <1>7, <2>5
    <3>2. \A i \in 1 .. Len(alerts) + 1 : i \in 1 .. Len(alerts) \/ i = Len(alerts) + 1
      BY <1>2
    <3>3. \A i \in 1 .. Len(alerts) + 1 : alerts'[i] \in 1 .. arrived + 1
      BY <1>2, <2>1, <3>1, <3>2
    <3>4. ASSUME NEW i \in 1 .. Len(alerts) + 1, NEW j \in 1 .. Len(alerts) + 1, i < j
          PROVE  alerts'[i] < alerts'[j]
      <4>1. i \in 1 .. Len(alerts) /\ alerts'[i] = alerts[i] /\ alerts[i] \in 1 .. arrived
        BY <1>2, <2>1, <3>1, <3>4
      <4>2. CASE j \in 1 .. Len(alerts)
        BY <2>1, <3>1, <3>4, <4>1, <4>2
      <4>3. CASE j = Len(alerts) + 1
        BY <1>2, <3>1, <4>1, <4>3
      <4>4. QED
        BY <3>2, <3>4, <4>2, <4>3
    <3>5. \A i \in 1 .. Len(dispatched) : dispatched[i] = alerts'[i]
      BY <1>2, <2>1, <3>1
    <3>6. \A i \in 1 .. Len(alerts) + 1 :
             i > Len(dispatched) <=> alerts'[i] > arrived - Len(source)
      BY <1>2, <2>1, <2>3, <3>1, <3>2
    <3>7. ASSUME NEW n \in 1 .. arrived
          PROVE  IsIn(n, alerts') <=> IsIn(n, alerts)
      BY <1>2, <3>1, <3>2 DEF IsIn
    <3>8. IsIn(arrived + 1, alerts')
      BY <1>2, <3>1 DEF IsIn
    <3>9. ASSUME NEW j \in 1 .. Len(source) + 1
          PROVE  source'[j].alert <=> IsIn(source'[j].n, alerts')
      <4>1. CASE j \in 1 .. Len(source)
        BY <1>5, <2>1, <2>2, <3>7, <4>1
      <4>2. CASE j = Len(source) + 1
        BY <1>3, <1>5, <2>5, <3>8, <4>2
      <4>3. QED
        BY <1>10, <3>9, <4>1, <4>2
    <3>10. Len(dispatched) <= Len(alerts) + 1
      BY <1>2, <2>1
    <3>11. QED
      BY <1>4, <1>5, <2>3, <3>1, <3>3, <3>4, <3>5, <3>6, <3>9, <3>10 DEF AlertsInv
  <2>6. QED
    BY <2>4, <2>5
<1>13. BatchInv'
  BY <1>1, <1>4 DEF BatchInv, Running
<1>14. QED
  BY <1>8, <1>11, <1>12, <1>13 DEF PipeInv

\* _broadcast: the event moves from the end of one run to the end of the next, and an
\* alert becomes the next one dispatched.
LEMMA BroadcastKeeps ==
    ASSUME PipeInv, Broadcast, UNCHANGED age
    PROVE  PipeInv'
<1> DEFINE e == Head(source)
           left == arrived - Len(source)
<1>1. TypeOK /\ PlacesInv /\ AlertsInv /\ BatchInv
  BY DEF PipeInv
<1>2. /\ Len(source) \in Nat /\ Len(queue) \in Nat /\ Len(batch) \in Nat
      /\ Len(stored) \in Nat /\ Len(alerts) \in Nat /\ Len(dispatched) \in Nat
      /\ arrived \in Nat
  BY <1>1, Lengths
<1>3. /\ source # <<>> /\ source' = Tail(source)
      /\ queue' = Append(queue, e.n)
      /\ e.alert => dispatched' = Append(dispatched, e.n)
      /\ ~e.alert => dispatched' = dispatched
      /\ ipc \in {"wait", "flush"} /\ ipc' = ipc
      /\ UNCHANGED <<arrived, alerts, batch, stored, timer, faults, shutdown, age>>
  BY DEF Broadcast
<1>4. /\ e \in Event /\ e = source[1] /\ Len(source) >= 1
      /\ source' \in Seq(Event) /\ Len(source') = Len(source) - 1
      /\ \A i \in 1 .. Len(source) - 1 : source'[i] = source[i + 1]
  BY <1>1, <1>3, TailFacts DEF TypeOK
<1> HIDE DEF e
<1>5. e.n \in Nat /\ e.alert \in BOOLEAN
  BY <1>4 DEF Event
<1>6. /\ queue' \in Seq(Nat) /\ Len(queue') = Len(queue) + 1
      /\ \A i \in 1 .. Len(queue) : queue'[i] = queue[i]
      /\ queue'[Len(queue) + 1] = e.n
  BY <1>1, <1>3, <1>5, AppendFacts DEF TypeOK
<1>7. ASSUME e.alert
      PROVE  /\ dispatched' \in Seq(Nat) /\ Len(dispatched') = Len(dispatched) + 1
             /\ \A i \in 1 .. Len(dispatched) : dispatched'[i] = dispatched[i]
             /\ dispatched'[Len(dispatched) + 1] = e.n
  <2>1. dispatched' = Append(dispatched, e.n) /\ dispatched \in Seq(Nat)
    BY <1>1, <1>3, <1>7 DEF TypeOK
  <2>2. QED
    BY <1>5, <2>1, AppendFacts
<1>8. TypeOK'
  BY <1>1, <1>3, <1>4, <1>5, <1>6, <1>7 DEF TypeOK
<1>9. Placed
  BY <1>1, <1>3 DEF PlacesInv, Running
<1>10. e.n = left + 1 /\ left = Len(stored) + Len(batch) + Len(queue)
  BY <1>2, <1>4, <1>9 DEF Placed
<1>11. PlacesInv'
  <2>1. ASSUME NEW i \in 1 .. Len(queue) + 1
        PROVE  queue'[i] = Len(stored) + Len(batch) + i
    <3>1. CASE i \in 1 .. Len(queue)
      BY <1>6, <1>9, <3>1 DEF Placed
    <3>2. CASE i = Len(queue) + 1
      BY <1>2, <1>6, <1>10, <3>2
    <3>3. QED
      BY <1>2, <2>1, <3>1, <3>2
  <2>2. ASSUME NEW i \in 1 .. Len(source) - 1
        PROVE  source'[i].n = Len(stored) + Len(batch) + (Len(queue) + 1) + i
    <3>1. i + 1 \in 1 .. Len(source) /\ source'[i] = source[i + 1]
      BY <1>2, <1>4, <2>2
    <3>2. source[i + 1].n = Len(stored) + Len(batch) + Len(queue) + (i + 1)
      BY <1>9, <3>1 DEF Placed
    <3>3. QED
      BY <1>2, <3>1, <3>2
  <2>3. arrived' = Len(stored') + Len(batch') + Len(queue') + Len(source')
    BY <1>2, <1>3, <1>4, <1>6, <1>9 DEF Placed
  <2>4. /\ \A i \in 1 .. Len(stored') : stored'[i] = i
        /\ \A i \in 1 .. Len(batch') : batch'[i] = Len(stored') + i
    BY <1>3, <1>9 DEF Placed
  <2>5. \A i \in 1 .. Len(queue') : queue'[i] = Len(stored') + Len(batch') + i
    BY <1>3, <1>6, <2>1
  <2>6. \A i \in 1 .. Len(source') :
            source'[i].n = Len(stored') + Len(batch') + Len(queue') + i
    BY <1>3, <1>4, <1>6, <2>2
  <2>7. Placed'
    BY <2>3, <2>4, <2>5, <2>6 DEF Placed
  <2>8. QED
    BY <1>1, <1>3, <2>7 DEF PlacesInv, Running
<1>12. AlertsInv'
  <2>1. /\ \A i \in 1 .. Len(alerts) : alerts[i] \in 1 .. arrived
        /\ \A i, j \in 1 .. Len(alerts) : i < j => alerts[i] < alerts[j]
        /\ Len(dispatched) <= Len(alerts)
        /\ \A i \in 1 .. Len(dispatched) : dispatched[i] = alerts[i]
        /\ \A i \in 1 .. Len(alerts) : i > Len(dispatched) <=> alerts[i] > left
        /\ \A j \in 1 .. Len(source) : source[j].alert <=> IsIn(source[j].n, alerts)
    BY <1>1, <1>3 DEF AlertsInv, Running
  <2>2. arrived - (Len(source) - 1) = left + 1 /\ left \in Nat
    BY <1>2, <1>9 DEF Placed
  <2>3. e.alert <=> IsIn(e.n, alerts)
    BY <1>2, <1>4, <2>1
  <2>4. ASSUME NEW j \in 1 .. Len(source) - 1
        PROVE  source'[j].alert <=> IsIn(source'[j].n, alerts)
    <3>1. j + 1 \in 1 .. Len(source) /\ source'[j] = source[j + 1]
      BY <1>2, <1>4, <2>4
    <3>2. QED
      BY <2>1, <3>1
  <2>5. CASE ~e.alert
    <3>1. \A i \in 1 .. Len(alerts) : alerts[i] # left + 1
      BY <1>10, <2>3, <2>5 DEF IsIn
    <3>2. \A i \in 1 .. Len(alerts) : i > Len(dispatched) <=> alerts[i] > left + 1
      BY <1>2, <2>1, <2>2, <3>1
    <3>3. dispatched' = dispatched
      BY <1>3, <2>5
    <3>4. QED
      BY <1>3, <1>4, <2>1, <2>2, <2>4, <3>2, <3>3 DEF AlertsInv
  <2>6. CASE e.alert
    <3>1. PICK k \in 1 .. Len(alerts) : alerts[k] = left + 1
      BY <1>10, <2>3, <2>6 DEF IsIn
    <3>2. k = Len(dispatched) + 1
      <4>1. k > Len(dispatched)
        BY <1>2, <2>1, <2>2, <3>1
      <4>2. ASSUME k > Len(dispatched) + 1
            PROVE  FALSE
        <5>1. Len(dispatched) + 1 \in 1 .. Len(alerts)
          BY <1>2, <3>1, <4>2
        <5>2. alerts[Len(dispatched) + 1] > left
          BY <1>2, <2>1, <5>1
        <5>3. alerts[Len(dispatched) + 1] < left + 1
          BY <2>1, <3>1, <4>2, <5>1
        <5>4. alerts[Len(dispatched) + 1] \in Nat
          BY <2>1, <5>1
        <5>5. QED
          BY <2>2, <5>2, <5>3, <5>4
      <4>3. QED
        BY <1>2, <3>1, <4>1, <4>2
    <3>3. /\ Len(dispatched') = Len(dispatched) + 1
          /\ \A i \in 1 .. Len(dispatched) : dispatched'[i] = dispatched[i]
          /\ dispatched'[Len(dispatched) + 1] = left + 1
      BY <1>7, <1>10, <2>6
    <3>4. Len(dispatched) + 1 <= Len(alerts)
      BY <1>2, <3>1, <3>2
    <3>5. ASSUME NEW i \in 1 .. Len(dispatched) + 1
          PROVE  dispatched'[i] = alerts[i]
      <4>1. CASE i \in 1 .. Len(dispatched)
        BY <2>1, <3>3, <4>1
      <4>2. CASE i = Len(dispatched) + 1
        BY <3>1, <3>2, <3>3, <4>2
      <4>3. QED
        BY <1>2, <3>5, <4>1, <4>2
    <3>6. ASSUME NEW i \in 1 .. Len(alerts)
          PROVE  i > Len(dispatched) + 1 <=> alerts[i] > left + 1
      <4>1. /\ alerts[i] \in Nat
            /\ i > k => alerts[i] > left + 1
            /\ i < k => alerts[i] < left + 1
        BY <1>2, <2>1, <3>1, <3>6
      <4>2. CASE i = k
        BY <1>2, <2>2, <3>1, <3>2, <4>2
      <4>3. CASE i < k \/ i > k
        BY <1>2, <2>2, <3>2, <4>1, <4>3
      <4>4. QED
        BY <3>1, <3>6, <4>2, <4>3
    <3>7. QED
      BY <1>3, <1>4, <2>1, <2>2, <2>4, <3>3, <3>4, <3>5, <3>6 DEF AlertsInv
  <2>7. QED
    BY <1>5, <2>5, <2>6
<1>13. BatchInv'
  BY <1>1, <1>3 DEF BatchInv, Running
<1>14. QED
  BY <1>8, <1>11, <1>12, <1>13 DEF PipeInv

-----------------------------------------------------------------------------
\* What the indexer alone does is nothing to the dispatcher.
LEMMA AlertsSame ==
    ASSUME AlertsInv, UNCHANGED <<source, arrived, alerts, dispatched>>, Running' => Running
    PROVE  AlertsInv'
BY DEF AlertsInv, IsIn

\* get() in time: the event joins the batch, and a batch that is full is flushed.
LEMMA GetKeeps ==
    ASSUME PipeInv, GetEvent, UNCHANGED age
    PROVE  PipeInv'
<1> DEFINE n == Head(queue)
           F == FlushInterval
<1>1. TypeOK /\ PlacesInv /\ AlertsInv /\ BatchInv
  BY DEF PipeInv
<1>2. /\ Len(source) \in Nat /\ Len(queue) \in Nat /\ Len(batch) \in Nat
      /\ Len(stored) \in Nat /\ arrived \in Nat
      /\ BatchSize \in Nat \ {0} /\ F \in Nat \ {0} /\ timer \in 0 .. F
  BY <1>1, Lengths, IndexerAssumption DEF TypeOK
<1>3. /\ ipc = "wait" /\ queue # <<>>
      /\ batch' = Append(batch, n) /\ queue' = Tail(queue)
      /\ \/ Len(batch') >= BatchSize /\ ipc' = "flush" /\ timer' = timer
         \/ ~(Len(batch') >= BatchSize) /\ ipc' = "wait" /\ timer' = F
      /\ UNCHANGED <<pipeVars, stored, faults, age>>
  BY DEF GetEvent, WaitAgain
<1>4. /\ n \in Nat /\ n = queue[1] /\ Len(queue) >= 1
      /\ queue' \in Seq(Nat) /\ Len(queue') = Len(queue) - 1
      /\ \A i \in 1 .. Len(queue) - 1 : queue'[i] = queue[i + 1]
  BY <1>1, <1>3, TailFacts DEF TypeOK
<1> HIDE DEF n
<1>5. /\ batch' \in Seq(Nat) /\ Len(batch') = Len(batch) + 1
      /\ \A i \in 1 .. Len(batch) : batch'[i] = batch[i]
      /\ batch'[Len(batch) + 1] = n
  BY <1>1, <1>3, <1>4, AppendFacts DEF TypeOK
<1>6. UNCHANGED <<source, arrived, alerts, dispatched, shutdown>>
  BY <1>3 DEF pipeVars, eventVars
<1>7. TypeOK'
  BY <1>1, <1>2, <1>3, <1>4, <1>5, <1>6 DEF TypeOK
<1>8. Placed
  BY <1>1, <1>3 DEF PlacesInv, Running
<1>9. n = Len(stored) + Len(batch) + 1 /\ n \in 1 .. arrived
  BY <1>2, <1>4, <1>8 DEF Placed
<1>10. \A i \in 1 .. Len(batch) + 1 : i \in 1 .. Len(batch) \/ i = Len(batch) + 1
  BY <1>2
<1>11. PlacesInv'
  <2>1. ASSUME NEW i \in 1 .. Len(batch) + 1
        PROVE  batch'[i] = Len(stored) + i
    <3>1. CASE i \in 1 .. Len(batch)
      BY <1>5, <1>8, <3>1 DEF Placed
    <3>2. CASE i = Len(batch) + 1
      BY <1>2, <1>5, <1>9, <3>2
    <3>3. QED
      BY <1>10, <2>1, <3>1, <3>2
  <2>2. ASSUME NEW i \in 1 .. Len(queue) - 1
        PROVE  queue'[i] = Len(stored) + (Len(batch) + 1) + i
    <3>1. i + 1 \in 1 .. Len(queue) /\ queue'[i] = queue[i + 1]
      BY <1>2, <1>4, <2>2
    <3>2. queue[i + 1] = Len(stored) + Len(batch) + (i + 1)
      BY <1>8, <3>1 DEF Placed
    <3>3. QED
      BY <1>2, <3>1, <3>2
  <2>3. ASSUME NEW i \in 1 .. Len(source)
        PROVE  source[i].n = Len(stored) + (Len(batch) + 1) + (Len(queue) - 1) + i
    BY <1>2, <1>8, <2>3 DEF Placed
  <2>4. arrived = Len(stored) + (Len(batch) + 1) + (Len(queue) - 1) + Len(source)
    BY <1>2, <1>8 DEF Placed
  <2>5. \A i \in 1 .. Len(stored) : stored[i] = i
    BY <1>8 DEF Placed
  <2>6. Placed'
    BY <1>3, <1>4, <1>5, <1>6, <2>1, <2>2, <2>3, <2>4, <2>5 DEF Placed
  <2>7. QED
    BY <1>1, <1>3, <1>5, <1>6, <2>1, <2>6 DEF PlacesInv, Running
<1>12. AlertsInv'
  BY <1>1, <1>3, <1>6, AlertsSame DEF Running
<1>13. BatchInv'
  BY <1>1, <1>2, <1>3, <1>5 DEF BatchInv, Running
<1>14. QED
  BY <1>7, <1>11, <1>12, <1>13 DEF PipeInv

\* wait_for times out: a batch that is not empty is to be flushed.
LEMMA TimeoutKeeps ==
    ASSUME PipeInv, TimeoutFires, UNCHANGED age
    PROVE  PipeInv'
<1> DEFINE F == FlushInterval
<1>1. TypeOK /\ PlacesInv /\ AlertsInv /\ BatchInv
  BY DEF PipeInv
<1>2. /\ Len(batch) \in Nat /\ BatchSize \in Nat \ {0} /\ F \in Nat \ {0}
  BY <1>1, Lengths, IndexerAssumption DEF TypeOK
<1>3. /\ ipc = "wait" /\ timer = 0
      /\ \/ batch # <<>> /\ ipc' = "flush" /\ timer' = timer
         \/ batch = <<>> /\ ipc' = "wait" /\ timer' = F
      /\ UNCHANGED <<pipeVars, queue, batch, stored, faults, age>>
  BY DEF TimeoutFires, WaitAgain
<1>4. UNCHANGED <<source, arrived, alerts, dispatched, shutdown>>
  BY <1>3 DEF pipeVars, eventVars
<1>5. TypeOK'
  BY <1>1, <1>2, <1>3, <1>4 DEF TypeOK
<1>6. PlacesInv'
  BY <1>1, <1>3, <1>4 DEF PlacesInv, Placed, Running
<1>7. AlertsInv'
  BY <1>1, <1>3, <1>4, AlertsSame DEF Running
<1>8. BatchInv'
  BY <1>1, <1>2, <1>3 DEF BatchInv, Running
<1>9. QED
  BY <1>5, <1>6, <1>7, <1>8 DEF PipeInv

\* insert_eve_events_batch adds the batch behind what is stored.
LEMMA CommitFacts ==
    ASSUME TypeOK, stored' = stored \o batch
    PROVE  /\ stored' \in Seq(Nat) /\ Len(stored') = Len(stored) + Len(batch)
           /\ \A i \in 1 .. Len(stored) : stored'[i] = stored[i]
           /\ \A i \in 1 .. Len(batch) : stored'[Len(stored) + i] = batch[i]
           /\ \A i \in 1 .. Len(stored') :
                 \/ i \in 1 .. Len(stored) /\ stored'[i] = stored[i]
                 \/ \E j \in 1 .. Len(batch) : stored'[i] = batch[j]
           /\ \A n : IsIn(n, stored') <=> IsIn(n, stored) \/ IsIn(n, batch)
<1>1. /\ Len(stored) \in Nat /\ Len(batch) \in Nat
  BY Lengths
<1>2. /\ stored' \in Seq(Nat) /\ Len(stored') = Len(stored) + Len(batch)
      /\ \A i \in 1 .. Len(stored) : stored'[i] = stored[i]
      /\ \A i \in 1 .. Len(batch) : stored'[Len(stored) + i] = batch[i]
  BY ConcatFacts DEF TypeOK
<1>3. ASSUME NEW i \in 1 .. Len(stored')
      PROVE  \/ i \in 1 .. Len(stored) /\ stored'[i] = stored[i]
             \/ \E j \in 1 .. Len(batch) : stored'[i] = batch[j]
  <2>1. CASE i \in 1 .. Len(stored)
    BY <1>2, <2>1
  <2>2. CASE i - Len(stored) \in 1 .. Len(batch)
    <3>1. Len(stored) + (i - Len(stored)) = i
      BY <1>1, <1>3
    <3>2. stored'[i] = batch[i - Len(stored)]
      BY <1>2, <2>2, <3>1
    <3>3. QED
      BY <2>2, <3>2
  <2>3. QED
    BY <1>1, <1>2, <1>3, <2>1, <2>2
<1>4. ASSUME NEW n, IsIn(n, stored) \/ IsIn(n, batch)
      PROVE  IsIn(n, stored')
  <2>1. CASE IsIn(n, stored)
    BY <1>1, <1>2, <2>1 DEF IsIn
  <2>2. CASE IsIn(n, batch)
    <3>1. PICK i \in 1 .. Len(batch) : batch[i] = n
      BY <2>2 DEF IsIn
    <3>2. Len(stored) + i \in 1 .. Len(stored')
      BY <1>1, <1>2, <3>1
    <3>3. QED
      BY <1>2, <3>1, <3>2 DEF IsIn
  <2>3. QED
    BY <1>4, <2>1, <2>2
<1>5. ASSUME NEW n, IsIn(n, stored')
      PROVE  IsIn(n, stored) \/ IsIn(n, batch)
  <2>1. PICK i \in 1 .. Len(stored') : stored'[i] = n
    BY <1>5 DEF IsIn
  <2>2. CASE i \in 1 .. Len(stored) /\ stored'[i] = stored[i]
    BY <2>1, <2>2 DEF IsIn
  <2>3. CASE \E j \in 1 .. Len(batch) : stored'[i] = batch[j]
    BY <2>1, <2>3 DEF IsIn
  <2>4. QED
    BY <1>3, <2>1, <2>2, <2>3
<1>6. QED
  BY <1>2, <1>3, <1>4, <1>5

\* _flush while running: the batch is stored as a whole, or kept as a whole.
LEMMA FlushKeeps ==
    ASSUME PipeInv, FlushCommits \/ FlushFails, UNCHANGED age
    PROVE  PipeInv'
<1>1. TypeOK /\ PlacesInv /\ AlertsInv /\ BatchInv
  BY DEF PipeInv
<1>2. /\ Len(source) \in Nat /\ Len(queue) \in Nat /\ Len(batch) \in Nat
      /\ Len(stored) \in Nat /\ arrived \in Nat
      /\ BatchSize \in Nat \ {0} /\ FlushInterval \in Nat \ {0} /\ faults \in Nat
  BY <1>1, Lengths, IndexerAssumption DEF TypeOK
<1>3. /\ ipc = "flush" /\ ipc' = "wait" /\ timer' = FlushInterval
      /\ UNCHANGED <<queue, age>> /\ UNCHANGED pipeVars
      /\ \/ stored' = stored \o batch /\ batch' = <<>> /\ faults' = faults
         \/ stored' = stored /\ batch' = batch /\ faults' = faults + 1
  BY DEF FlushCommits, FlushFails, WaitAgain
<1>4. UNCHANGED <<source, arrived, alerts, dispatched, shutdown>>
  BY <1>3 DEF pipeVars, eventVars
<1>5. AlertsInv'
  BY <1>1, <1>3, <1>4, AlertsSame DEF Running
<1>6. Placed
  BY <1>1, <1>3 DEF PlacesInv, Running
<1>7. CASE stored' = stored \o batch /\ batch' = <<>> /\ faults' = faults
  <2>1. /\ stored' \in Seq(Nat) /\ Len(stored') = Len(stored) + Len(batch)
        /\ \A i \in 1 .. Len(stored) : stored'[i] = stored[i]
        /\ \A i \in 1 .. Len(batch) : stored'[Len(stored) + i] = batch[i]
    BY <1>1, <1>7, CommitFacts
  <2>2. batch' \in Seq(Nat) /\ Len(batch') = 0
    BY <1>7, EmptyFacts
  <2>3. TypeOK'
    BY <1>1, <1>2, <1>3, <1>4, <1>7, <2>1, <2>2 DEF TypeOK
  <2>4. ASSUME NEW i \in 1 .. Len(stored')
        PROVE  stored'[i] = i
    <3>1. CASE i \in 1 .. Len(stored)
      BY <1>6, <2>1, <3>1 DEF Placed
    <3>2. CASE i - Len(stored) \in 1 .. Len(batch)
      <4>1. Len(stored) + (i - Len(stored)) = i
        BY <1>2, <2>4
      <4>2. QED
        BY <1>6, <2>1, <3>2, <4>1 DEF Placed
    <3>3. QED
      BY <1>2, <2>1, <2>4, <3>1, <3>2
  <2>5. /\ arrived = Len(stored') + 0 + Len(queue) + Len(source)
        /\ \A i \in 1 .. Len(queue) : queue[i] = Len(stored') + 0 + i
        /\ \A i \in 1 .. Len(source) : source[i].n = Len(stored') + 0 + Len(queue) + i
    BY <1>2, <1>6, <2>1 DEF Placed
  <2>6. \A i \in 1 .. Len(batch') : FALSE
    BY <2>2
  <2>7. Placed'
    BY <1>3, <1>4, <2>2, <2>4, <2>5, <2>6 DEF Placed
  <2>8. PlacesInv'
    <3>1. \A i \in 1 .. Len(stored') : stored'[i] \in 1 .. arrived
      BY <1>2, <2>1, <2>2, <2>4, <2>5
    <3>2. QED
      BY <1>1, <1>3, <1>4, <2>7, <3>1 DEF PlacesInv, Running
  <2>9. BatchInv'
    BY <1>2, <2>2 DEF BatchInv
  <2>10. QED
    BY <1>5, <2>3, <2>8, <2>9 DEF PipeInv
<1>8. CASE stored' = stored /\ batch' = batch /\ faults' = faults + 1
  <2>1. faults' # 0 /\ faults' \in Nat
    BY <1>2, <1>8
  <2>2. TypeOK'
    BY <1>1, <1>2, <1>3, <1>4, <1>8, <2>1 DEF TypeOK
  <2>3. PlacesInv'
    BY <1>1, <1>3, <1>4, <1>8 DEF PlacesInv, Placed, Running
  <2>4. BatchInv'
    BY <2>1 DEF BatchInv
  <2>5. QED
    BY <1>5, <2>2, <2>3, <2>4 DEF PipeInv
<1>9. QED
  BY <1>3, <1>7, <1>8

\* A cancellation finds the batch just before the queue and nothing of it written.
LEMMA PlacedEnds ==
    ASSUME TypeOK, Placed
    PROVE  Around /\ LastBatch
<1>1. /\ Len(source) \in Nat /\ Len(queue) \in Nat /\ Len(batch) \in Nat
      /\ Len(stored) \in Nat /\ arrived \in Nat
  BY Lengths
<1>2. Taken = Len(stored) + Len(batch) /\ Taken - Len(batch) = Len(stored)
  BY <1>1 DEF Placed, Taken
<1>3. Holds(Len(stored))
  <2>1. ASSUME NEW n \in 1 .. Taken
        PROVE  IsIn(n, stored) <=> n <= Len(stored)
    <3>1. CASE n <= Len(stored)
      <4>1. n \in 1 .. Len(stored) /\ stored[n] = n
        BY <1>1, <2>1, <3>1 DEF Placed
      <4>2. QED
        BY <3>1, <4>1 DEF IsIn
    <3>2. CASE ~(n <= Len(stored))
      BY <1>1, <1>2, <2>1, <3>2 DEF Placed, IsIn
    <3>3. QED
      BY <3>1, <3>2
  <2>2. QED
    BY <2>1 DEF Holds
<1>4. \A i \in 1 .. Len(stored) : stored[i] \in 1 .. Taken
  BY <1>1, <1>2 DEF Placed
<1>5. \A i \in 1 .. Len(source) : source[i].n = Taken + Len(queue) + i
  BY <1>1, <1>2 DEF Placed
<1>6. Around
  BY <1>1, <1>2, <1>4, <1>5 DEF Placed, Around
<1>7. LastBatch
  BY <1>1, <1>2, <1>3 DEF Placed, LastBatch
<1>8. QED
  BY <1>6, <1>7

\* Writing the last batch, for the first or for the second time, completes the table.
LEMMA WriteCompletes ==
    ASSUME TypeOK, Around, LastBatch, stored' = stored \o batch,
           UNCHANGED <<source, arrived, queue>>
    PROVE  Around' /\ Holds(Taken)'
<1>1. Taken' = Taken /\ Taken \in Nat /\ Len(batch) \in Nat /\ Len(batch) <= Taken
  BY Lengths DEF Taken, Around, LastBatch
<1>2. /\ \A i \in 1 .. Len(stored') :
            \/ i \in 1 .. Len(stored) /\ stored'[i] = stored[i]
            \/ \E j \in 1 .. Len(batch) : stored'[i] = batch[j]
      /\ \A n : IsIn(n, stored') <=> IsIn(n, stored) \/ IsIn(n, batch)
  BY CommitFacts
<1>3. \A j \in 1 .. Len(batch) : batch[j] \in 1 .. Taken
  BY <1>1 DEF LastBatch
<1>4. \A i \in 1 .. Len(stored') : stored'[i] \in 1 .. Taken
  BY <1>2, <1>3 DEF Around
<1>5. ASSUME NEW n \in 1 .. Taken
      PROVE  IsIn(n, stored')
  <2>1. CASE Holds(Taken)
    <3>1. n <= Taken
      BY <1>1, <1>5
    <3>2. QED
      BY <1>2, <1>5, <2>1, <3>1 DEF Holds
  <2>2. CASE Holds(Taken - Len(batch))
    <3>1. CASE n <= Taken - Len(batch)
      BY <1>2, <1>5, <2>2, <3>1 DEF Holds
    <3>2. CASE ~(n <= Taken - Len(batch))
      <4> DEFINE j == n - (Taken - Len(batch))
      <4>1. j \in 1 .. Len(batch) /\ (Taken - Len(batch)) + j = n
        BY <1>1, <1>5, <3>2
      <4> HIDE DEF j
      <4>2. batch[j] = n
        BY <4>1 DEF LastBatch
      <4>3. QED
        BY <1>2, <4>1, <4>2 DEF IsIn
    <3>3. QED
      BY <3>1, <3>2
  <2>3. QED
    BY <2>1, <2>2 DEF LastBatch
<1>6. Around'
  BY <1>1, <1>4 DEF Around
<1>7. \A n \in 1 .. Taken' : n <= Taken'
  BY <1>1
<1>8. Holds(Taken)'
  BY <1>1, <1>5, <1>7 DEF Holds
<1>9. QED
  BY <1>6, <1>8

\* Cancellation: the batch is written again, perhaps a second time; the end of the last
\* flush, or the cancellation that meets it, leaves the table with a first part of the
\* events, all but the batch if the batch was not written.
LEMMA StopKeeps ==
    ASSUME PipeInv, Cancel \/ FinalCommits \/ FinalFails, UNCHANGED age
    PROVE  PipeInv' /\ ~Running'
<1>1. TypeOK /\ PlacesInv /\ BatchInv
  BY DEF PipeInv
<1>2. /\ UNCHANGED <<source, arrived, alerts, dispatched, queue, timer, age>>
      /\ ipc' \in {"final", "stopped"} /\ ipc # "stopped"
      /\ stored' = stored \/ stored' = stored \o batch
      /\ batch' = batch \/ batch' = <<>>
      /\ faults' \in {faults, faults + 1}
      /\ shutdown' \in BOOLEAN
      /\ ipc' = "final" => batch' = batch /\ faults' = faults
      /\ ipc' = "stopped" /\ stored' = stored /\ faults' = faults =>
            batch = <<>> \/ shutdown'
  <2>1. CASE CancelWaiting
    BY <1>1, <2>1 DEF CancelWaiting, eventVars
  <2>2. CASE \E c \in BOOLEAN : CancelFlushing(c)
    BY <1>1, <2>2 DEF CancelFlushing, eventVars
  <2>3. CASE \E c \in BOOLEAN : CancelFinal(c)
    BY <1>1, <2>3 DEF CancelFinal, eventVars
  <2>4. CASE FinalCommits
    <3>1. /\ stored' = stored \o batch /\ batch' = <<>> /\ ipc = "final" /\ ipc' = "stopped"
          /\ UNCHANGED <<source, arrived, alerts, dispatched, queue, timer, age, shutdown,
                         faults>>
      BY <2>4 DEF FinalCommits, pipeVars, eventVars
    <3>2. stored' = stored => batch = <<>>
      <4>1. /\ Len(stored') = Len(stored) + Len(batch) /\ batch \in Seq(Nat)
            /\ Len(stored) \in Nat /\ Len(batch) \in Nat
        BY <1>1, <3>1, CommitFacts, Lengths DEF TypeOK
      <4>2. stored' = stored => Len(batch) = 0
        BY <4>1
      <4>3. QED
        BY <4>1, <4>2
    <3>3. QED
      BY <1>1, <3>1, <3>2 DEF TypeOK
  <2>5. CASE FinalFails
    <3>1. faults + 1 # faults
      BY <1>1 DEF TypeOK
    <3>2. QED
      BY <1>1, <2>5, <3>1 DEF FinalFails, pipeVars, eventVars, TypeOK
  <2>6. QED
    BY <2>1, <2>2, <2>3, <2>4, <2>5 DEF Cancel
<1>3. ~Running' /\ AlertsInv' /\ BatchInv'
  BY <1>2 DEF Running, AlertsInv, BatchInv
<1>4. Around /\ LastBatch /\ (faults = 0 => Len(batch) <= BatchSize)
  <2>1. CASE Running
    BY <1>1, <2>1, PlacedEnds DEF PlacesInv, BatchInv
  <2>2. CASE ~Running
    <3>1. ipc = "final"
      BY <1>1, <1>2, <2>2 DEF Running, TypeOK
    <3>2. QED
      BY <1>1, <2>2, <3>1 DEF PlacesInv, Ending
  <2>3. QED
    BY <2>1, <2>2
<1>5. /\ Taken' = Taken /\ Taken \in Nat /\ Len(batch) \in Nat /\ Len(batch) <= Taken
      /\ BatchSize \in Nat /\ faults \in Nat /\ Len(source) \in Nat /\ Len(queue) \in Nat
      /\ arrived \in Nat
  BY <1>1, <1>2, <1>4, Lengths, IndexerAssumption DEF Taken, Around, LastBatch, TypeOK
<1>6. PICK e \in {Taken, Taken - Len(batch)} :
          /\ \A n \in 1 .. Taken : IsIn(n, stored') <=> n <= e
          /\ stored' = stored \o batch => e = Taken
  <2>1. CASE stored' = stored \o batch
    <3>1. Holds(Taken)'
      BY <1>1, <1>2, <1>4, <2>1, WriteCompletes
    <3>2. \A n \in 1 .. Taken : IsIn(n, stored') <=> n <= Taken
      BY <1>5, <3>1 DEF Holds
    <3>3. QED
      BY <3>2
  <2>2. CASE stored' = stored /\ stored' # stored \o batch
    <3>1. CASE Holds(Taken)
      BY <2>2, <3>1 DEF Holds
    <3>2. CASE Holds(Taken - Len(batch))
      BY <2>2, <3>2 DEF Holds
    <3>3. QED
      BY <1>4, <3>1, <3>2 DEF LastBatch
  <2>3. QED
    BY <1>2, <2>1, <2>2
<1>7. Around'
  <2>1. CASE stored' = stored \o batch
    BY <1>1, <1>2, <1>4, <2>1, WriteCompletes
  <2>2. CASE stored' = stored
    BY <1>2, <1>4, <1>5, <2>2 DEF Around
  <2>3. QED
    BY <1>2, <2>1, <2>2
<1>8. TypeOK'
  <2>1. stored' \in Seq(Nat)
    BY <1>1, <1>2, CommitFacts DEF TypeOK
  <2>2. batch' \in Seq(Nat)
    BY <1>1, <1>2, EmptyFacts DEF TypeOK
  <2>3. faults' \in Nat
    BY <1>2, <1>5
  <2>4. QED
    BY <1>1, <1>2, <2>1, <2>2, <2>3 DEF TypeOK
<1>9. ASSUME ipc' = "final"
      PROVE  LastBatch' /\ (faults' = 0 => Len(batch') <= BatchSize)
  <2>1. batch' = batch /\ faults' = faults
    BY <1>2, <1>9
  <2>2. Holds(Taken - Len(batch))' \/ Holds(Taken)'
    BY <1>5, <1>6, <2>1 DEF Holds
  <2>3. QED
    BY <1>4, <1>5, <2>1, <2>2 DEF LastBatch
<1>10. ASSUME ipc' = "stopped"
       PROVE  \E x \in 0 .. Taken' :
                 /\ Holds(x)'
                 /\ faults' = 0 => Taken' <= x + BatchSize /\ (~shutdown' => x = Taken')
  <2>1. e \in 0 .. Taken' /\ e \in Nat
    BY <1>5, <1>6
  <2>2. Holds(e)'
    BY <1>5, <1>6 DEF Holds
  <2>3. ASSUME faults' = 0
        PROVE  Taken' <= e + BatchSize /\ (~shutdown' => e = Taken')
    <3>1. faults' = faults /\ Len(batch) <= BatchSize
      BY <1>2, <1>4, <1>5, <2>3
    <3>2. Taken' <= e + BatchSize
      BY <1>5, <1>6, <3>1
    <3>3. batch = <<>> => e = Taken
      BY <1>5, <1>6, EmptyFacts
    <3>4. ~shutdown' => e = Taken
      BY <1>2, <1>6, <1>10, <3>1, <3>3
    <3>5. QED
      BY <1>5, <3>2, <3>4
  <2>4. QED
    BY <2>1, <2>2, <2>3
<1>11. PlacesInv'
  <2>1. Ending'
    BY <1>7, <1>9, <1>10 DEF Ending
  <2>2. \A i \in 1 .. Len(stored') : stored'[i] \in 1 .. arrived'
    <3>1. Taken' <= arrived'
      BY <1>2, <1>5 DEF Taken
    <3>2. QED
      BY <1>2, <1>5, <1>7, <3>1 DEF Around
  <2>3. QED
    BY <1>1, <1>2, <1>3, <2>1, <2>2 DEF PlacesInv
<1>12. QED
  BY <1>3, <1>8, <1>11 DEF PipeInv

-----------------------------------------------------------------------------
\* A tick makes no event younger.
LEMMA OlderFacts ==
    ASSUME TypeOK, Older
    PROVE  /\ age' \in Seq(Nat) /\ Len(age') = Len(age)
           /\ \A n \in 1 .. Len(age) : age[n] > Retention => age'[n] > Retention
<1>1. Retention \in Nat /\ Oldest = Retention + 1 /\ Oldest \in Nat
  BY ContextAssumption DEF Oldest
<1>2. age \in Seq(Nat) /\ DOMAIN age = 1 .. Len(age) /\ Len(age) \in Nat
  BY DEF TypeOK
<1>3. age' = [n \in 1 .. Len(age) |-> IF age[n] < Oldest THEN age[n] + 1 ELSE Oldest]
  BY <1>2 DEF Older
<1>4. \A n \in 1 .. Len(age) : age[n] \in Nat /\ age'[n] \in Nat
  BY <1>1, <1>2, <1>3
<1>5. age' \in Seq(Nat) /\ Len(age') = Len(age)
  BY <1>2, <1>3, <1>4
<1>6. \A n \in 1 .. Len(age) : age[n] > Retention => age'[n] > Retention
  BY <1>1, <1>3, <1>4
<1>7. QED
  BY <1>5, <1>6

\* What does not touch the table and the queues keeps the end of the indexer.
LEMMA EndingSame ==
    ASSUME Ending, UNCHANGED <<source, arrived, queue, batch, stored, ipc, faults, shutdown>>
    PROVE  Ending'
<1>1. Taken' = Taken
  BY DEF Taken
<1>2. \A e : (\A n \in 1 .. Taken : IsIn(n, stored) <=> n <= e)
              <=> \A n \in 1 .. Taken' : IsIn(n, stored') <=> n <= e
  BY <1>1
<1>3. Around'
  BY <1>1 DEF Ending, Around
<1>4. LastBatch => LastBatch'
  BY <1>1 DEF LastBatch, Holds
<1>5. ASSUME ipc = "stopped"
      PROVE  \E e \in 0 .. Taken' :
                /\ Holds(e)'
                /\ faults' = 0 => Taken' <= e + BatchSize /\ (~shutdown' => e = Taken')
  <2>1. PICK e \in 0 .. Taken :
            Holds(e) /\ (faults = 0 => Taken <= e + BatchSize /\ (~shutdown => e = Taken))
    BY <1>5 DEF Ending
  <2>2. Holds(e)'
    BY <1>1, <2>1 DEF Holds
  <2>3. QED
    BY <1>1, <2>1, <2>2
<1>6. QED
  BY <1>3, <1>4, <1>5 DEF Ending

\* The passing of time moves no event.
LEMMA TimeKeepsPipe ==
    ASSUME PipeInv, TimePasses
    PROVE  PipeInv'
<1>1. TypeOK /\ PlacesInv /\ AlertsInv /\ BatchInv
  BY DEF PipeInv
<1>2. Older
  BY DEF TimePasses
<1>3. /\ UNCHANGED <<source, arrived, alerts, dispatched, shutdown>>
      /\ UNCHANGED <<queue, batch, stored, ipc, faults>>
      /\ (timer > 0 /\ timer' = timer - 1) \/ timer' = timer
  BY DEF TimePasses, Tick, indexerVars, pipeVars, eventVars
<1>4. age' \in Seq(Nat) /\ Len(age') = Len(age)
  BY <1>1, <1>2, OlderFacts
<1>5. timer' \in 0 .. FlushInterval
  BY <1>1, <1>3, IndexerAssumption DEF TypeOK
<1>6. TypeOK'
  BY <1>1, <1>3, <1>4, <1>5 DEF TypeOK
<1>7. PlacesInv'
  <2>1. Running => Placed'
    BY <1>1, <1>3 DEF PlacesInv, Placed
  <2>2. ~Running => Ending'
    BY <1>1, <1>3, EndingSame DEF PlacesInv
  <2>3. QED
    BY <1>1, <1>3, <1>4, <2>1, <2>2 DEF PlacesInv, Running
<1>8. AlertsInv'
  BY <1>1, <1>3, AlertsSame DEF Running
<1>9. BatchInv'
  BY <1>1, <1>3 DEF BatchInv, Running
<1>10. QED
  BY <1>6, <1>7, <1>8, <1>9 DEF PipeInv

-----------------------------------------------------------------------------
\* A step of the pipeline keeps its invariant and only adds to the table.
LEMMA PipelineKeeps ==
    ASSUME PipeInv, PipelineStep
    PROVE  /\ PipeInv'
           /\ UNCHANGED <<age, old, expired, arrived>>
           /\ Len(stored) <= Len(stored')
           /\ \A i \in 1 .. Len(stored) : stored'[i] = stored[i]
<1>1. TypeOK
  BY DEF PipeInv
<1>2. UNCHANGED <<age, old, expired>> /\ IndexerStep
  BY DEF PipelineStep
<1>3. PipeInv'
  BY <1>2, BroadcastKeeps, GetKeeps, TimeoutKeeps, FlushKeeps, StopKeeps
     DEF IndexerStep, Step
<1>4. arrived' = arrived /\ (stored' = stored \/ stored' = stored \o batch)
  BY <1>2 DEF IndexerStep, Broadcast, Step, Cancel, GetEvent, TimeoutFires, FlushCommits,
              FlushFails, FinalCommits, FinalFails, CancelWaiting, CancelFlushing, CancelFinal,
              pipeVars, eventVars
<1>5. Len(stored) <= Len(stored') /\ \A i \in 1 .. Len(stored) : stored'[i] = stored[i]
  <2>1. Len(stored) \in Nat /\ Len(batch) \in Nat
    BY <1>1, Lengths
  <2>2. CASE stored' = stored
    BY <2>1, <2>2
  <2>3. CASE stored' = stored \o batch
    BY <1>1, <2>1, <2>3, CommitFacts
  <2>4. QED
    BY <1>4, <2>2, <2>3
<1>6. QED
  BY <1>2, <1>3, <1>4, <1>5

-----------------------------------------------------------------------------
\* Rows stay where they are and what is past retention stays so.
LEMMA DeletedFrom ==
    ASSUME Deleted, TypeOK, PlacesInv,
           Len(stored') \in Nat, Len(stored) <= Len(stored'),
           \A i \in 1 .. Len(stored) : stored'[i] = stored[i],
           \A n \in 1 .. arrived : PastRetention(n) => PastRetention(n)',
           UNCHANGED expired
    PROVE  Deleted'
<1>1. Len(stored) \in Nat
  BY Lengths
<1>2. ASSUME NEW i \in expired
      PROVE  i \in 1 .. Len(stored') /\ (stored'[i] \in old' \/ age'[stored'[i]] > Retention)
  <2>1. i \in 1 .. Len(stored) /\ PastRetention(stored[i])
    BY <1>2 DEF Deleted
  <2>2. stored[i] \in 1 .. arrived /\ stored'[i] = stored[i]
    BY <2>1 DEF PlacesInv
  <2>3. PastRetention(stored[i])'
    BY <2>1, <2>2 DEF PastRetention
  <2>4. QED
    BY <1>1, <2>1, <2>2, <2>3 DEF PastRetention
<1>3. QED
  BY <1>2 DEF Deleted, PastRetention

\* Only run_once deletes, and only what is past retention.
LEMMA DeletedKept ==
    ASSUME ContextInv, [Next]_vars
    PROVE  Deleted'
<1>1. TypeOK /\ PlacesInv /\ Deleted /\ PipeInv /\ Len(age) = arrived
  BY DEF ContextInv, PipeInv, PlacesInv
<1>2. Len(stored) \in Nat /\ arrived \in Nat
  BY <1>1, Lengths
<1>3. ASSUME NEW a \in BOOLEAN, NEW r \in BOOLEAN, EventRead(a, r)
      PROVE  Deleted'
  <2>1. age' = Append(age, 0) /\ UNCHANGED <<stored, expired>> /\ old \subseteq old'
    BY <1>3 DEF EventRead, Arrive
  <2>2. 0 \in Nat /\ age \in Seq(Nat)
    BY <1>1 DEF TypeOK
  <2>3. \A n \in 1 .. arrived : age'[n] = age[n]
    BY <1>1, <2>1, <2>2, AppendFacts
  <2>4. \A n \in 1 .. arrived : PastRetention(n) => PastRetention(n)'
    BY <2>1, <2>3 DEF PastRetention
  <2>5. Len(stored') \in Nat /\ Len(stored) <= Len(stored')
    BY <1>2, <2>1
  <2>6. QED
    BY <1>1, <2>1, <2>4, <2>5, DeletedFrom
<1>4. CASE PipelineStep
  <2>1. /\ PipeInv' /\ UNCHANGED <<age, old, expired>>
        /\ Len(stored) <= Len(stored')
        /\ \A i \in 1 .. Len(stored) : stored'[i] = stored[i]
    BY <1>1, <1>4, PipelineKeeps
  <2>2. Len(stored') \in Nat
    BY <2>1 DEF PipeInv, TypeOK
  <2>3. \A n \in 1 .. arrived : PastRetention(n) => PastRetention(n)'
    BY <2>1 DEF PastRetention
  <2>4. QED
    BY <1>1, <2>1, <2>2, <2>3, DeletedFrom
<1>5. CASE TimePasses
  <2>1. Older /\ stored' = stored
    BY <1>5 DEF TimePasses, Tick, indexerVars
  <2>2. UNCHANGED <<old, expired>>
    BY <2>1 DEF Older
  <2>3. \A n \in 1 .. arrived : age[n] > Retention => age'[n] > Retention
    BY <1>1, <2>1, OlderFacts
  <2>4. \A n \in 1 .. arrived : PastRetention(n) => PastRetention(n)'
    BY <2>2, <2>3 DEF PastRetention
  <2>5. Len(stored') \in Nat /\ Len(stored) <= Len(stored')
    BY <1>2, <2>1
  <2>6. QED
    BY <1>1, <2>1, <2>2, <2>4, <2>5, DeletedFrom
<1>6. CASE Aside
  <2>1. UNCHANGED <<stored, age, old>>
    BY <1>6 DEF Aside, indexerVars
  <2>2. \/ expired' = expired
        \/ expired' = expired \cup {i \in DOMAIN stored : PastRetention(stored[i])}
    BY <1>6 DEF Aside, HandleInsert, ReadFlow, Cleanup, vars, contextVars
  <2>3. DOMAIN stored = 1 .. Len(stored)
    BY <1>1 DEF TypeOK
  <2>4. \A i \in expired' : i \in 1 .. Len(stored) /\ PastRetention(stored[i])
    BY <1>1, <2>2, <2>3 DEF Deleted
  <2>5. QED
    BY <2>1, <2>4 DEF Deleted, PastRetention
<1>7. QED
  BY <1>3, <1>4, <1>5, <1>6, StepKinds

-----------------------------------------------------------------------------
\* An insert, a read or a cleanup is nothing to the pipeline.
LEMMA AsideKeepsPipe ==
    ASSUME PipeInv, UNCHANGED <<indexerVars, age>>
    PROVE  PipeInv'
<1>1. UNCHANGED <<source, arrived, alerts, dispatched, queue, batch, stored, ipc, timer,
                  faults, shutdown, age>>
  BY DEF indexerVars, pipeVars, eventVars
<1>2. TypeOK /\ PlacesInv /\ AlertsInv /\ BatchInv
  BY DEF PipeInv
<1>3. TypeOK'
  BY <1>1, <1>2 DEF TypeOK
<1>4. PlacesInv'
  <2>1. Running => Placed'
    BY <1>1, <1>2 DEF PlacesInv, Placed
  <2>2. ~Running => Ending'
    BY <1>1, <1>2, EndingSame DEF PlacesInv
  <2>3. QED
    BY <1>1, <1>2, <2>1, <2>2 DEF PlacesInv, Running
<1>5. AlertsInv'
  BY <1>1, <1>2, AlertsSame DEF Running
<1>6. BatchInv'
  BY <1>1, <1>2 DEF BatchInv, Running
<1>7. QED
  BY <1>3, <1>4, <1>5, <1>6 DEF PipeInv

\* The pipeline starts with everything empty.
LEMMA InitContext ==
    ASSUME Init
    PROVE  ContextInv
<1>1. /\ source = <<>> /\ arrived = 0 /\ alerts = <<>> /\ queue = <<>> /\ dispatched = <<>>
      /\ batch = <<>> /\ stored = <<>> /\ ipc = "wait" /\ timer = FlushInterval /\ faults = 0
      /\ age = <<>> /\ expired = {} /\ shutdown = FALSE
  BY DEF Init, IndexerInit
<1>2. /\ Len(source) = 0 /\ Len(alerts) = 0 /\ Len(queue) = 0 /\ Len(dispatched) = 0
      /\ Len(batch) = 0 /\ Len(stored) = 0 /\ Len(age) = 0
  BY <1>1, EmptyFacts
<1>3. /\ BatchSize \in Nat /\ BatchSize > 0 /\ FlushInterval \in Nat
  BY IndexerAssumption
<1>4. TypeOK
  <2>1. /\ source \in Seq(Event) /\ alerts \in Seq(Nat) /\ queue \in Seq(Nat)
        /\ dispatched \in Seq(Nat) /\ batch \in Seq(Nat) /\ stored \in Seq(Nat)
        /\ age \in Seq(Nat)
    BY <1>1, EmptyFacts
  <2>2. shutdown \in BOOLEAN
    BY <1>1
  <2>3. /\ arrived \in Nat /\ faults \in Nat /\ timer \in 0 .. FlushInterval
        /\ ipc \in {"wait", "flush", "final", "stopped"}
    BY <1>1, <1>3
  <2>4. QED
    BY <2>1, <2>2, <2>3 DEF TypeOK
<1>5. \A i \in 1 .. 0 : FALSE
  OBVIOUS
<1>6. PlacesInv /\ AlertsInv /\ BatchInv
  BY <1>1, <1>2, <1>3, <1>5 DEF PlacesInv, Placed, AlertsInv, BatchInv, Running
<1>7. Deleted
  BY <1>1 DEF Deleted
<1>8. QED
  BY <1>4, <1>6, <1>7 DEF ContextInv, PipeInv

\* The strengthened invariant holds: every event is in its one place in order while the
\* pipeline runs; once it is cancelled, whatever flush failed, was written twice or was cut
\* off by a second cancellation, the table holds a first part of the events, short of one
\* batch at most unless a flush failed; and the cleanup deletes only old rows.
THEOREM ContextInductive == Spec => []ContextInv
<1>1. Init => ContextInv
  BY InitContext
<1>2. ContextInv /\ [Next]_vars => ContextInv'
  <2>1. SUFFICES ASSUME ContextInv, [Next]_vars
                 PROVE  ContextInv'
    OBVIOUS
  <2>2. PipeInv
    BY <2>1 DEF ContextInv
  <2>3. PipeInv'
    <3>1. CASE Aside
      BY <2>2, <3>1, AsideKeepsPipe DEF Aside
    <3>2. QED
      BY <2>1, <2>2, <3>1, StepKinds, ArrivalKeeps, PipelineKeeps, TimeKeepsPipe
  <2>4. QED
    BY <2>1, <2>3, DeletedKept DEF ContextInv
<1>3. QED
  BY <1>1, <1>2, PTL DEF Spec

\* Until the indexer is cancelled no event read by the tailer is lost, repeated or
\* reordered by the broadcaster and the batches, whatever flushes fail, and the dispatcher
\* gets each alert once, in order: for every batch size and number of events.
THEOREM NothingLostCorrect == Spec => []NothingLostOrRepeated
<1>1. ContextInv => NothingLostOrRepeated
  <2>1. SUFFICES ASSUME ContextInv, Running
                 PROVE  /\ stored \o batch \o queue \o Pending = UpTo(arrived)
                        /\ \E k \in 0 .. Len(alerts) :
                             /\ dispatched = SubSeq(alerts, 1, k)
                             /\ \A i \in 1 .. Len(alerts) :
                                  i > k <=> \E j \in 1 .. Len(Pending) : Pending[j] = alerts[i]
    BY DEF NothingLostOrRepeated, Running
  <2> DEFINE a == Len(stored)
             b == Len(batch)
             c == Len(queue)
             d == Len(source)
  <2>2. TypeOK /\ Placed /\ AlertsInv
    BY <2>1 DEF ContextInv, PipeInv, PlacesInv
  <2>3. a \in Nat /\ b \in Nat /\ c \in Nat /\ d \in Nat /\ arrived = a + b + c + d
    BY <2>2, Lengths DEF Placed
  <2>4. Pending \in Seq(Nat) /\ Len(Pending) = d /\ \A i \in 1 .. d : Pending[i] = source[i].n
    <3>1. \A i \in 1 .. d : source[i].n \in Nat
      BY <2>2, <2>3 DEF Placed
    <3>2. Pending = [i \in 1 .. d |-> source[i].n]
      BY DEF Pending
    <3>3. QED
      BY <2>3, <3>1, <3>2
  <2>5. stored \o batch \o queue \o Pending = UpTo(arrived)
    <3> DEFINE s1 == stored \o batch
               s2 == s1 \o queue
               s3 == s2 \o Pending
    <3>1. s1 \in Seq(Nat) /\ Len(s1) = a + b /\ \A i \in 1 .. Len(s1) : s1[i] = i
      BY <2>2, CountsOn DEF TypeOK, Placed
    <3> HIDE DEF s1
    <3>2. s2 \in Seq(Nat) /\ Len(s2) = Len(s1) + c /\ \A i \in 1 .. Len(s2) : s2[i] = i
      <4>1. queue \in Seq(Nat) /\ \A i \in 1 .. Len(queue) : queue[i] = Len(s1) + i
        BY <2>2, <3>1 DEF TypeOK, Placed
      <4>2. QED
        BY <3>1, <4>1, CountsOn
    <3> HIDE DEF s2
    <3>3. s3 \in Seq(Nat) /\ Len(s3) = Len(s2) + d /\ \A i \in 1 .. Len(s3) : s3[i] = i
      <4>1. \A i \in 1 .. Len(Pending) : Pending[i] = Len(s2) + i
        BY <2>2, <2>4, <3>1, <3>2 DEF Placed
      <4>2. /\ s3 \in Seq(Nat) /\ Len(s3) = Len(s2) + Len(Pending)
            /\ \A i \in 1 .. Len(s3) : s3[i] = i
        BY <2>4, <3>2, <4>1, CountsOn
      <4>3. QED
        BY <2>4, <4>2
    <3> HIDE DEF s3
    <3>4. Len(s3) = arrived
      BY <2>3, <3>1, <3>2, <3>3
    <3>5. s3 = [i \in 1 .. arrived |-> i]
      BY <3>3, <3>4
    <3>6. QED
      BY <3>5 DEF UpTo, s1, s2, s3
  <2>6. \E k \in 0 .. Len(alerts) :
          /\ dispatched = SubSeq(alerts, 1, k)
          /\ \A i \in 1 .. Len(alerts) :
               i > k <=> \E j \in 1 .. Len(Pending) : Pending[j] = alerts[i]
    <3> DEFINE k == Len(dispatched)
    <3>1. /\ \A i \in 1 .. Len(alerts) : alerts[i] \in 1 .. arrived
          /\ k <= Len(alerts)
          /\ \A i \in 1 .. k : dispatched[i] = alerts[i]
          /\ \A i \in 1 .. Len(alerts) : i > k <=> alerts[i] > arrived - d
      BY <2>1, <2>2 DEF AlertsInv
    <3>2. k \in 0 .. Len(alerts) /\ k \in Nat /\ Len(alerts) \in Nat
      BY <2>2, <3>1, Lengths
    <3>3. dispatched = SubSeq(alerts, 1, k)
      BY <2>2, <3>1, <3>2 DEF TypeOK
    <3>4. ASSUME NEW i \in 1 .. Len(alerts)
          PROVE  i > k <=> \E j \in 1 .. Len(Pending) : Pending[j] = alerts[i]
      <4>1. CASE i > k
        <5>1. alerts[i] - (a + b + c) \in 1 .. d
          BY <2>3, <3>1, <3>4, <4>1
        <5>2. Pending[alerts[i] - (a + b + c)] = a + b + c + (alerts[i] - (a + b + c))
          BY <2>2, <2>4, <5>1 DEF Placed
        <5>3. alerts[i] \in Nat /\ a + b + c + (alerts[i] - (a + b + c)) = alerts[i]
          BY <2>3, <3>1, <3>4
        <5>4. QED
          BY <2>4, <4>1, <5>1, <5>2, <5>3
      <4>2. CASE ~(i > k)
        <5>1. alerts[i] \in 1 .. arrived /\ ~(alerts[i] > arrived - d)
          BY <3>1, <3>4, <4>2
        <5>2. \A j \in 1 .. d : Pending[j] = a + b + c + j
          BY <2>2, <2>4 DEF Placed
        <5>3. \A j \in 1 .. d : Pending[j] > arrived - d
          BY <2>3, <5>2
        <5>4. QED
          BY <2>4, <4>2, <5>1, <5>3
      <4>3. QED
        BY <4>1, <4>2
    <3> HIDE DEF k
    <3>5. QED
      BY <3>2, <3>3, <3>4
  <2>7. QED
    BY <2>5, <2>6
<1>2. QED
  BY <1>1, ContextInductive, PTL

\* EveIndexer.run "flushes any partial batch on cancellation": unless a flush failed, a
\* stop because another component failed leaves no event behind that is not stored or on
\* a queue, and a shutdown, which cancels twice, loses one batch at most.
THEOREM StopLosesOneBatchCorrect == Spec => []StopLosesOneBatch
<1>1. ContextInv => StopLosesOneBatch
  <2>1. SUFFICES ASSUME ContextInv, ipc = "stopped", faults = 0
                 PROVE  /\ ~shutdown => Lost = {}
                        /\ \A m, n \in Lost : m < n + BatchSize
    BY DEF StopLosesOneBatch
  <2>2. TypeOK /\ Ending /\ Around
    BY <2>1 DEF ContextInv, PipeInv, PlacesInv, Running, Ending
  <2>3. PICK e \in 0 .. Taken : Holds(e) /\ Taken <= e + BatchSize /\ (~shutdown => e = Taken)
    BY <2>1, <2>2 DEF Ending
  <2>4. /\ Len(source) \in Nat /\ Len(queue) \in Nat /\ arrived \in Nat /\ Taken \in Nat
        /\ arrived = Taken + Len(queue) + Len(source) /\ BatchSize \in Nat
    BY <2>2, Lengths, IndexerAssumption DEF Taken, Around
  <2>5. ASSUME NEW n \in Lost
        PROVE  n \in Nat /\ n > e /\ n <= Taken
    <3>1. /\ n \in 1 .. arrived
          /\ \A i \in 1 .. Len(stored) : stored[i] # n
          /\ \A i \in 1 .. Len(queue) : queue[i] # n
          /\ \A i \in 1 .. Len(Pending) : Pending[i] # n
      BY <2>5 DEF Lost
    <3>2. ASSUME n > Taken
          PROVE  FALSE
      <4>1. CASE n - Taken \in 1 .. Len(queue)
        <5>1. queue[n - Taken] = Taken + (n - Taken)
          BY <2>2, <4>1 DEF Around
        <5>2. QED
          BY <2>4, <3>1, <4>1, <5>1
      <4>2. CASE n - (Taken + Len(queue)) \in 1 .. Len(source)
        <5> DEFINE j == n - (Taken + Len(queue))
        <5>1. source[j].n = Taken + Len(queue) + j
          BY <2>2, <4>2 DEF Around
        <5>2. Taken + Len(queue) + j = n
          BY <2>4, <3>1
        <5>3. Len(Pending) = Len(source) /\ Pending[j] = source[j].n
          BY <2>4, <4>2 DEF Pending
        <5> HIDE DEF j
        <5>4. QED
          BY <3>1, <4>2, <5>1, <5>2, <5>3 DEF j
      <4>3. QED
        BY <2>4, <3>1, <3>2, <4>1, <4>2
    <3>3. n \in 1 .. Taken /\ ~IsIn(n, stored)
      BY <2>4, <3>1, <3>2 DEF IsIn
    <3>4. QED
      BY <2>3, <2>4, <3>3 DEF Holds
  <2>6. ~shutdown => Lost = {}
    BY <2>3, <2>4, <2>5
  <2>7. ASSUME NEW m \in Lost, NEW n \in Lost
        PROVE  m < n + BatchSize
    <3>1. m \in Nat /\ n \in Nat /\ m <= Taken /\ n > e /\ e \in Nat
      BY <2>3, <2>5, <2>7
    <3>2. QED
      BY <2>3, <2>4, <3>1
  <2>8. QED
    BY <2>6, <2>7
<1>2. QED
  BY <1>1, ContextInductive, PTL

\* An event in the table has those before it in the table with it.
LEMMA FirstPart ==
    ASSUME PipeInv, NEW m, IsIn(m, stored), NEW k \in 1 .. m
    PROVE  IsIn(k, stored)
<1>1. TypeOK /\ PlacesInv /\ Len(stored) \in Nat
  BY Lengths DEF PipeInv
<1>2. PICK i \in 1 .. Len(stored) : stored[i] = m
  BY DEF IsIn
<1>3. CASE Running
  <2>1. m = i /\ k \in 1 .. Len(stored) /\ stored[k] = k
    BY <1>1, <1>2, <1>3 DEF PlacesInv, Placed
  <2>2. QED
    BY <2>1 DEF IsIn
<1>4. CASE ~Running
  <2>1. Ending /\ Around /\ (ipc = "final" \/ ipc = "stopped")
    BY <1>1, <1>4 DEF PlacesInv, Ending, Running, TypeOK
  <2>2. \E e \in Int : Holds(e)
    <3>1. Taken \in Nat /\ Len(batch) \in Nat
      BY <1>1, <2>1, Lengths DEF Around
    <3>2. Taken \in Int /\ Taken - Len(batch) \in Int
      BY <3>1
    <3>3. CASE ipc = "final"
      BY <2>1, <3>2, <3>3 DEF Ending, LastBatch
    <3>4. CASE ipc = "stopped"
      BY <2>1, <3>1, <3>4 DEF Ending
    <3>5. QED
      BY <2>1, <3>3, <3>4
  <2>3. PICK e \in Int : Holds(e)
    BY <2>2
  <2>4. m \in 1 .. Taken /\ Taken \in Nat
    BY <1>2, <2>1 DEF Around
  <2>5. m <= e
    BY <2>3, <2>4 DEF Holds
  <2>6. k \in 1 .. Taken /\ k <= e
    BY <2>4, <2>5
  <2>7. QED
    BY <2>3, <2>6 DEF Holds
<1>5. QED
  BY <1>3, <1>4

\* What the worker reads of a flow has no gap: unless it is past retention, an event
\* before one that is read is read with it, whatever flush failed, was written twice or
\* was cut off, and whenever the alert is taken up: for every value of the settings.
THEOREM ContextNoGapsCorrect == Spec => ContextNoGaps
<1>1. ContextInv /\ [Next]_vars =>
        [ \A n \in inTable \ inTable' : \A m \in Rows : \A k \in 1 .. m :
            k \in Rows \/ PastRetention(k) ]_vars
  <2>1. SUFFICES ASSUME ContextInv, NEW m \in Rows, NEW k \in 1 .. m, ~PastRetention(k)
                 PROVE  k \in Rows
    OBVIOUS
  <2>2. PipeInv /\ Deleted /\ TypeOK
    BY <2>1 DEF ContextInv, PipeInv
  <2>3. DOMAIN stored = 1 .. Len(stored)
    BY <2>2 DEF TypeOK
  <2>4. IsIn(m, stored)
    BY <2>1, <2>3 DEF Rows, IsIn
  <2>5. PICK j \in 1 .. Len(stored) : stored[j] = k
    BY <2>1, <2>2, <2>4, FirstPart DEF IsIn
  <2>6. j \notin expired
    BY <2>1, <2>2, <2>5 DEF Deleted
  <2>7. QED
    BY <2>3, <2>5, <2>6 DEF Rows
<1>2. QED
  BY <1>1, ContextInductive, PTL DEF Spec, ContextNoGaps
=============================================================================
