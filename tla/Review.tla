------------------------------- MODULE Review -------------------------------
(***************************************************************************)
(* The analysts at work on the tables that the dispatcher and the worker   *)
(* are changing (src/src/web/routes/queue_routes.py, alert_routes.py,      *)
(* src/src/infra/db/disposition_store.py): an analyst loads the queue,     *)
(* follows one of its rows to the alert's page and submits a disposition.  *)
(* These are three requests, and the last one is three awaits.             *)
(*                                                                         *)
(* Loading a page changes nothing, and verdict rows do not change once     *)
(* linked, so a page's reads are one; of a queue page only the row that is *)
(* followed is kept, with the members whose verdicts it summarises; the    *)
(* background refresh is another load.  A disposition is identified with   *)
(* the session that submits it.  A stop of the process ends the requests   *)
(* under way; pages stay in the browsers.                                  *)
(***************************************************************************)
EXTENDS Triage

CONSTANTS Sessions,      \* an analyst's way from a queue page to a disposition
          NoSession,     \* a NULL disposition_id
          Categories,    \* verdict_category values
          NoCategory,    \* no category: no verdict row, or nothing on a row's badge
          QueueWindow,   \* the window of the page (24h, 7d or 30d), in ticks
          Bucket,        \* _GROUP_WINDOW_HOURS, in ticks
          Phase,         \* how far into a bucket the clock starts
          Limit          \* the LIMIT of the page's query

ASSUME ReviewAssumption ==
    /\ IsFiniteSet(Sessions)
    /\ NoSession \notin Sessions
    /\ NoCategory \notin Categories
    /\ "mixed" \notin Categories \cup {NoCategory}
    /\ {QueueWindow, Limit, Phase} \subseteq Nat
    /\ Bucket \in Nat \ {0}

VARIABLES category,  \* verdicts.verdict_category
          session,   \* what each analyst has before them, or is waiting for
          disp,      \* the dispositions table
          dLink      \* alerts.disposition_id

reviewVars == <<session, disp, dLink>>
allVars == <<vars, category, reviewVars>>

NoDisposition == [alert |-> NoAlert, verdict |-> NoVerdict]

ReviewInit ==
    /\ Init
    /\ category = [v \in Verdicts |-> NoCategory]
    /\ session = [p \in Sessions |-> [pc |-> "queue"]]
    /\ disp = [p \in Sessions |-> NoDisposition]
    /\ dLink = [a \in Alerts |-> NoSession]

-----------------------------------------------------------------------------
\* A recorded verdict has the category the LLM gave it, or that of its source.
SetsCategory ==
    \E c \in Categories :
        category' = [v \in Verdicts |->
            IF vAlert'[v] = vAlert[v] THEN category[v]
            ELSE IF vFrom'[v] = Produced THEN c ELSE category[vFrom'[v]]]

\* _build_queue_rows

\* query_alerts: the oldest Limit rows of the window; which of equally old ones is open.
query_alerts(filter) ==
    LET found == {a \in Alerts : /\ status[a] # "absent"
                                 /\ ts[a] + QueueWindow >= now
                                 /\ filter = "all" \/ status[a] = filter}
    IN {rows \in SUBSET found :
           /\ Cardinality(rows) <= Limit
           /\ rows = found \/ Cardinality(rows) = Limit
           /\ \A a \in rows, b \in found \ rows : ts[a] <= ts[b]}

StatusFilters == {"all", "analyzed", "deferred", "queued"}

\* Alerts with a NULL in their key are put together as well.
RowKey(a) == <<GroupOf[a], (ts[a] + Phase) \div Bucket>>

RowsOf(alerts) == {{b \in alerts : RowKey(b) = RowKey(a)} : a \in alerts}

Newest(as) == {a \in as : \A b \in as : ts[b] <= ts[a]}

Judged(members) == {a \in members : link[a] # NoVerdict}

CategoriesOf(as) == {category[link[a]] : a \in as} \ {NoCategory}

\* The member a row links to: the newest with a verdict, else the newest.
LinkOf(members) ==
    Newest(IF Judged(members) # {} THEN Judged(members) ELSE members)

Badge_Bubbles(members, linked) ==
    IF link[linked] = NoVerdict THEN NoCategory ELSE category[link[linked]]

\* No category stands for members that disagree.
Badge(members, linked) ==
    IF Cardinality(CategoriesOf(Judged(members))) > 1 THEN "mixed"
    ELSE IF link[linked] = NoVerdict THEN NoCategory
    ELSE category[link[linked]]

-----------------------------------------------------------------------------
\* GET /queue, and the analyst follows one of the rows.
FollowRow(p) ==
    /\ session[p].pc = "queue"
    /\ \E f \in StatusFilters : \E alerts \in query_alerts(f) :
         \E members \in RowsOf(alerts) : \E a \in LinkOf(members) :
           session' = [session EXCEPT ![p] =
               [pc |-> "row", alert |-> a, badge |-> Badge(members, a),
                judged |-> Judged(members)]]
    /\ UNCHANGED <<disp, dLink>>

\* GET /alert/{alert_id}: the verdict the alert links to, if any.
OpenAlert(p) ==
    /\ session[p].pc = "row"
    /\ session' = [session EXCEPT ![p] =
           [pc |-> "form", alert |-> @.alert, badge |-> @.badge,
            shown |-> link[@.alert]]]
    /\ UNCHANGED <<disp, dLink>>

Current(a) == {v \in Verdicts : vAlert[v] = a /\ vCurrent[v]}

SubmitReads_AnyCurrent(p) ==
    /\ session[p].pc = "form"
    /\ \E v \in IF \E u \in Verdicts : vCurrent[u] THEN {u \in Verdicts : vCurrent[u]} ELSE {NoVerdict} :
           session' = [session EXCEPT ![p] =
               [pc |-> "read", alert |-> @.alert, shown |-> @.shown, verdict |-> v]]
    /\ UNCHANGED <<disp, dLink>>

\* POST: get_current_verdict_for_alert, of the verdicts table and not of the alert's link.
SubmitReads(p) ==
    /\ session[p].pc = "form"
    /\ \E v \in IF Current(session[p].alert) = {} THEN {NoVerdict} ELSE Current(session[p].alert) :
           session' = [session EXCEPT ![p] =
               [pc |-> "read", alert |-> @.alert, shown |-> @.shown, verdict |-> v]]
    /\ UNCHANGED <<disp, dLink>>

SubmitRecords_NoCommit(p) ==
    /\ session[p].pc = "read"
    /\ session' = [session EXCEPT ![p] =
           [pc |-> "recorded", alert |-> @.alert, shown |-> @.shown]]
    /\ UNCHANGED <<disp, dLink>>

\* record_disposition commits a row that is never changed again; its created_at orders
\* an alert's dispositions and is left out.
SubmitRecords(p) ==
    /\ session[p].pc = "read"
    /\ disp' = [disp EXCEPT ![p] = [alert |-> session[p].alert, verdict |-> session[p].verdict]]
    /\ session' = [session EXCEPT ![p] =
           [pc |-> "recorded", alert |-> @.alert, shown |-> @.shown]]
    /\ UNCHANGED dLink

\* link_disposition_to_alert; the answer sends the analyst back to the queue.
SubmitLinks(p) ==
    /\ session[p].pc = "recorded"
    /\ dLink' = [dLink EXCEPT ![session[p].alert] = p]
    /\ session' = [session EXCEPT ![p] = [pc |-> "done", shown |-> @.shown]]
    /\ UNCHANGED disp

\* A submission that is not authenticated or not valid changes nothing.
SubmitRefused(p) ==
    /\ session[p].pc = "form"
    /\ session' = [session EXCEPT ![p] = [pc |-> "queue"]]
    /\ UNCHANGED <<disp, dLink>>

\* Of a submission that is cut off, what is committed stays.
CutOff(s) ==
    IF s.pc = "read" THEN [pc |-> "queue"]
    ELSE IF s.pc = "recorded" THEN [pc |-> "raised", shown |-> s.shown]
    ELSE s

\* A store call of the submission raises.
SubmitRaises(p) ==
    /\ session[p].pc \in {"read", "recorded"}
    /\ session' = [session EXCEPT ![p] = CutOff(session[p])]
    /\ UNCHANGED <<disp, dLink>>

\* The process stops and is started again.
StopAndStart ==
    /\ Restart
    /\ session' = [p \in Sessions |-> CutOff(session[p])]
    /\ UNCHANGED <<category, disp, dLink>>

SessionStep(p) ==
    \/ FollowRow(p)
    \/ OpenAlert(p)
    \/ SubmitReads(p)
    \/ SubmitRecords(p)
    \/ SubmitLinks(p)
    \/ SubmitRefused(p)
    \/ SubmitRaises(p)

ReviewNext ==
    \/ Tick /\ UNCHANGED <<dispVars, workerVars, category, reviewVars>>
    \/ DispStep /\ UNCHANGED <<workerVars, category, reviewVars>>
    \/ WorkerStep /\ SetsCategory /\ UNCHANGED <<dispVars, reviewVars>>
    \/ StopAndStart
    \/ \E p \in Sessions : SessionStep(p) /\ UNCHANGED <<vars, category>>

ReviewSpec == ReviewInit /\ [][ReviewNext]_allVars

-----------------------------------------------------------------------------
Submitted(p) == disp[p] # NoDisposition

\* "the badge never asserts a judgement one member didn't actually receive"
\* (_build_queue_rows), and still does not when the analyst follows it: a badge with one
\* category is the verdict of every member that had one, a mixed one is not, whatever
\* the worker has recorded and linked since the page was loaded.
BadgeTruthful ==
    \A p \in Sessions : session[p].pc = "row" =>
        LET badge == session[p].badge
            received == {category[link[a]] : a \in session[p].judged}
        IN /\ badge = "mixed" => Cardinality(received) > 1
           /\ badge = NoCategory => received = {}
           /\ badge \notin {"mixed", NoCategory} => received = {badge}

\* What is disposed of is what was seen: the verdict on the alert's page has the category
\* on the badge that led to it, and the row in the corpus names that verdict, although
\* three requests read it in two tables while the worker supersedes, records and links.
SeenIsRecorded ==
    \A p \in Sessions :
        LET s == session[p]
        IN /\ s.pc = "form" /\ s.badge \in Categories =>
                 s.shown # NoVerdict /\ category[s.shown] = s.badge
           /\ Submitted(p) => /\ s.shown # NoVerdict => disp[p].verdict = s.shown
                              /\ disp[p].verdict # NoVerdict =>
                                     vAlert[disp[p].verdict] = disp[p].alert

\* The mark in the queue and the alert's page agree: an alert has a disposition_id only
\* if get_latest_disposition finds something for it, and once no submission for it is
\* under way, none having raised, also the other way round.
MarkedIsDisposed ==
    \A a \in Alerts :
        LET own == {p \in Sessions : disp[p].alert = a}
        IN /\ dLink[a] # NoSession => dLink[a] \in own
           /\ own # {} /\ (\A p \in own : session[p].pc = "done") => dLink[a] # NoSession
=============================================================================
