----------------------------- MODULE AlertStore -----------------------------
(***************************************************************************)
(* The alerts and verdicts tables (src/src/infra/db/models.py) and the     *)
(* queries and updates that SqliteEventStore and SqliteOperationalStore    *)
(* offer on them.  Each store method is one transaction of get_session(),  *)
(* so each is one state change here; the callers (Dispatcher, Worker)      *)
(* compose several of them and may be interrupted between any two.         *)
(*                                                                         *)
(* A table is a set of columns, each a function of the primary key.  An    *)
(* alert is identified with the EVE alert event that caused it; a row      *)
(* whose status is "absent" has not been inserted.                         *)
(***************************************************************************)
EXTENDS Integers, FiniteSets

CONSTANTS Alerts,     \* EVE alert events, and the rows made from them
          Groups,     \* dedup groups: (signature_id, src_ip, dst_ip)
          NoGroup,    \* a group key with a NULL component
          GroupOf,    \* the group of each alert
          Verdicts,   \* verdict_id values (uuid4)
          NoVerdict,  \* a NULL verdict_id
          Produced,   \* llm_inputs of a verdict the LLM produced
          NoAlert,    \* NULL, or no row
          DailyCap,   \* VX_TRIAGE_DAILY_CAP
          DayLength,  \* clock ticks in a day
          ResetTick,  \* VX_DAILY_RESET_HOUR, as a tick of the day
          Window,     \* window_hours of the dedup query, in ticks
          DbFaults,   \* may a store call raise?
          MaxTime     \* bound on the clock

ASSUME StoreAssumption ==
    /\ IsFiniteSet(Alerts)
    /\ GroupOf \in [Alerts -> Groups \cup {NoGroup}]
    /\ NoGroup \notin Groups
    /\ NoVerdict \notin Verdicts
    /\ Produced \notin Verdicts
    /\ NoAlert \notin Alerts
    /\ DailyCap \in Nat
    /\ DayLength \in Nat \ {0}
    /\ ResetTick \in 0 .. (DayLength - 1)
    /\ Window \in Nat
    /\ DbFaults \in BOOLEAN
    /\ MaxTime \in Nat

VARIABLES now,       \* datetime.now(UTC), in ticks since an epoch midnight
          status,    \* alerts.status
          ts,        \* alerts.ingest_timestamp
          link,      \* alerts.verdict_id
          hasRole,   \* alerts.*_role and role_assignment_* are filled in
          vAlert,    \* verdicts.alert_id
          vFrom,     \* verdicts.llm_inputs: Produced, or inherited_from a verdict
          vCurrent   \* verdicts.is_current

alertVars   == <<status, ts, link, hasRole>>
verdictVars == <<vAlert, vFrom, vCurrent>>
storeVars   == <<now, alertVars, verdictVars>>

Status == {"absent", "queued", "deferred", "analyzing", "analyzed", "failed"}

\* The alerts the worker has taken off the queue.
TakenStatus == {"analyzing", "analyzed", "failed"}

StoreTypeOK ==
    /\ now \in Nat
    /\ status \in [Alerts -> Status]
    /\ ts \in [Alerts -> Nat]
    /\ link \in [Alerts -> Verdicts \cup {NoVerdict}]
    /\ hasRole \in [Alerts -> BOOLEAN]
    /\ vAlert \in [Verdicts -> Alerts \cup {NoAlert}]
    /\ vFrom \in [Verdicts -> Verdicts \cup {Produced}]
    /\ vCurrent \in [Verdicts -> BOOLEAN]

StoreInit ==
    /\ now = ResetTick
    /\ status = [a \in Alerts |-> "absent"]
    /\ ts = [a \in Alerts |-> 0]
    /\ link = [a \in Alerts |-> NoVerdict]
    /\ hasRole = [a \in Alerts |-> FALSE]
    /\ vAlert = [v \in Verdicts |-> NoAlert]
    /\ vFrom = [v \in Verdicts |-> Produced]
    /\ vCurrent = [v \in Verdicts |-> FALSE]

\* The wall clock; the code assumes, as the model does, that it is never set back.
Tick ==
    /\ now < MaxTime
    /\ now' = now + 1
    /\ UNCHANGED <<alertVars, verdictVars>>

-----------------------------------------------------------------------------
\* EventStore queries

\* datetime.now(UTC).replace(hour=reset_hour): the reset instant of the current
\* calendar day, which still lies ahead while the clock is before that hour.
ResetTime == (now \div DayLength) * DayLength + ResetTick

\* Rows counted by count_analyzed_today: ingested at or after the reset instant
\* with any status but 'deferred', the still-queued ones included.
CountsSince(t) ==
    {a \in Alerts : status[a] \notin {"absent", "deferred"} /\ ts[a] >= t}

count_analyzed_today == Cardinality(CountsSince(ResetTime))

\* A row ORDER BY ingest_timestamp LIMIT 1 may return; ties are left open.
OldestQueued(a) ==
    /\ status[a] = "queued"
    /\ \A b \in Alerts : status[b] = "queued" => ts[a] <= ts[b]

\* The rows the WHERE clause of find_recent_verdict_for_group selects for a.
EligibleSources_AnyHop(a) ==
    {b \in Alerts :
        /\ GroupOf[a] # NoGroup
        /\ GroupOf[b] = GroupOf[a]
        /\ status[b] = "analyzed"
        /\ link[b] # NoVerdict
        /\ ts[b] >= ts[a] - Window
        /\ ts[b] <= ts[a]}

EligibleSources(a) ==
    {b \in Alerts :
        /\ GroupOf[a] # NoGroup
        /\ GroupOf[b] = GroupOf[a]
        /\ status[b] = "analyzed"
        /\ link[b] # NoVerdict
        /\ ts[b] >= ts[a] - Window
        /\ ts[b] <= ts[a]
        /\ vFrom[link[b]] = Produced}

\* ORDER BY ingest_timestamp DESC LIMIT 1.
NewestSource(a, b) ==
    /\ b \in EligibleSources(a)
    /\ \A c \in EligibleSources(a) : ts[c] <= ts[b]

-----------------------------------------------------------------------------
\* Updates.  Each says how one transaction changes the tables.

insert_alert(a, s, t) ==
    /\ status' = [status EXCEPT ![a] = s]
    /\ ts' = [ts EXCEPT ![a] = t]
    /\ UNCHANGED <<now, link, hasRole, verdictVars>>

update_alert_status(a, s) ==
    /\ status' = [status EXCEPT ![a] = s]
    /\ UNCHANGED <<now, ts, link, hasRole, verdictVars>>

update_alert_role_assignment(a) ==
    /\ hasRole' = [hasRole EXCEPT ![a] = TRUE]
    /\ UNCHANGED <<now, status, ts, link, verdictVars>>

mark_previous_verdicts_superseded(a) ==
    /\ vCurrent' = [v \in Verdicts |-> vCurrent[v] /\ vAlert[v] # a]
    /\ UNCHANGED <<now, alertVars, vAlert, vFrom>>

\* v is the fresh uuid4 of the new row.
record_verdict(v, a, from) ==
    /\ vAlert' = [vAlert EXCEPT ![v] = a]
    /\ vFrom' = [vFrom EXCEPT ![v] = from]
    /\ vCurrent' = [vCurrent EXCEPT ![v] = TRUE]
    /\ UNCHANGED <<now, alertVars>>

\* Sets verdict_id, status and auto_analyzed in one UPDATE.
link_verdict_to_alert(a, v) ==
    /\ link' = [link EXCEPT ![a] = v]
    /\ status' = [status EXCEPT ![a] = "analyzed"]
    /\ UNCHANGED <<now, ts, hasRole, verdictVars>>
=============================================================================
