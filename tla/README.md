# Verdix: TLA+ specifications

Verdix reads Suricata's EVE log, stores its events, triages every alert with
enrichment lookups and an LLM, and shows the verdicts on a web page. It is one
Python process with one asyncio event loop over an SQLite database. This
directory specifies the parts whose correctness depends on the order of things:
tasks that interleave at every `await`, transactions that a failure or a stop
separates, files that another process rotates, caches and counters with limits.

    tlc -config TriageReview.cfg MCReview      # model-check
    tlapm TriageProofs.tla                     # check the proofs

`PROJECT.json` lists components, runs, mutants (a plausible bug for every
property, under which TLC finds the property violated), the source lines behind
every definition, findings, hazards and theorems.

## 1. The system

All paths are below `src/src/`.

| Component | State | Operations | Talks to |
|---|---|---|---|
| Tailer (`ingestion/tailer.py`, `status.py`) | position, inode; red/green status, failure count | poll = stat, open, read, put | the file (shared with Suricata and logrotate); tailer queue |
| Broadcaster, pipeline (`ingestion/pipeline.py`) | three queues, three tasks | copy events; one failure ends all | tailer, indexer, dispatcher |
| Indexer (`ingestion/indexer.py`) | batch, timeout | get, flush, flush on cancel | `eve_events` |
| Dispatcher (`ingestion/dispatcher.py`) | a task per alert, `_cap_lock` | count, choose status, insert | `alerts` |
| Worker (`triage/worker.py`) | the alert in hand | dequeue, mark, roles, dedup, enrich, LLM, three writes | `alerts`, `verdicts`, lookups, LLM |
| Stores (`infra/db/*`) | tables | one transaction per method | everyone |
| Circuit breaker (`infra/circuit_breaker.py`) | state, failures, opening time | call, on_success, on_failure | VirusTotal, RDAP, reverse DNS |
| VirusTotal client (`enrichment/virustotal/client.py`), cache (`infra/cache/sqlite.py`) | primary and backup row per indicator | lookup | breaker, limiter, HTTP |
| Rate limiter (`enrichment/virustotal/rate_limiter.py`) | tokens, FIFO lock | acquire | lookups |
| First-run gate (`web/app.py`, `web/deps.py`, `web/routes/setup.py`, `auth_routes.py`) | license flag in memory and in the database, block reason, sessions | dispatch, accept, log in and out | browsers, startup |
| Lifespan (`main.py`) | the tasks | start, cancel, restart | all |
| Analysis of one alert (`triage/worker.py`, `domain/role_assignment/*`, `llm/ollama_client.py`) | roles, indicators, results of lookups, attempts | assign, extract, look up concurrently, prompt, call the LLM | all lookup clients, LLM |
| RDAP client and bootstrap (`enrichment/rdap/*`) | a row per domain, the TLD map in memory and in the cache, a lock | lookup, load or download the map | breaker, cache, registries, IANA |
| Suricata config (`infra/suricata_config/*`) | HOME_NET, fixed at startup | load with includes, expand groups, refuse | lifespan; roles, extraction, reverse DNS |
| Reverse DNS (`identity/reverse_dns/provider.py`) | a row per address, possibly the empty name | resolve both endpoints | cache, breaker, resolver |
| Queue and alert pages, dispositions (`web/routes/queue_routes.py`, `alert_routes.py`, `infra/db/disposition_store.py`) | `dispositions`, `alerts.disposition_id`; the pages in the browsers | list, group and summarise; show; record and link | `alerts`, `verdicts`, shared with dispatcher and worker |
| Retention cleanup (`triage/cleanup.py`) | none | delete old events nightly | `eve_events`, shared with indexer and worker |

Event flow: file → tailer queue → broadcaster → indexer queue (all events) and
dispatcher queue (alerts) → `alerts` rows `queued` or `deferred` → worker → `verdicts`
rows, `analyzed` or `failed` → queue page → alert page → `dispositions`. Dispatcher,
worker and pages share only the tables; the tailer shares the file with processes that
do not wait for it.

What is hard: handlers racing for the last place under the daily cap; timestamps
taken before the commit that publishes them; a verdict written in three
transactions; error paths that themselves fail; restarts that find half-done
work; an inherited verdict becoming a source itself; breaker calls that come
back after the breaker has changed; a response cached before it is parsed; a
file renamed or re-created between `stat` and `open`; a cancellation during a flush,
and a second one during the flush the first one started; a flag
assigned after an `await` from a value read before it; lookups that end in any
order, or raise, inside a gather; a name that only a later event shows to be
internal; a map that every lookup needs at once; a page that is followed after the
tables behind it have changed; a flow that is read while its events are still in
the indexer's batch; groups that refer to groups defined later.

What makes each part correct:

- triage: first in first out, at most one verdict per alert, `analyzed` only with
  a current verdict of its own, one-hop inheritance within group and window, cap
  respected, every admitted alert settled;
- tailer: in order, nothing twice but for three named causes, nothing lost by its own
  fault, status honest;
- indexer: nothing lost or repeated while it runs, one batch at most on a shutdown,
  nothing held for ever, and the worker sees a flow without gaps;
- pages: a badge contradicts no member's verdict, a disposition names the verdict
  the analyst saw, marks in the queue and dispositions agree;
- configuration: HOME_NET is what the files say, in whatever order;
- queries: the breaker protects and recovers, the limiter bounds and serves;
- client: no answer older than the backup's lifetime, and a backup of every response
  whose lookup got through both writes;
- analysis: the inside host is the victim whichever side was recorded as source and
  the attacker only on grounds the decision table has,
  nothing internal is sent out, no name is missed, the evidence is complete
  whatever fails, retries only where they help;
- RDAP: one download per process, memory and cache agree on the map, no answer
  older than a row's lifetime, every lookup ends;
- gate: no redirect loop, closed until an acceptance is stored.

## 2. Modules

| Module | Models | Composed by |
|---|---|---|
| `AlertStore` | the two tables, one operator per store method | `Dispatcher`, `Worker` |
| `Dispatcher` | `_handle` tasks and the lock: count, stamp, commit are separate steps | `Triage` |
| `Worker` | the loop and `_process_alert`, one action per await | `Triage` |
| `Triage` | both, a clock, restarts | `MCTriage` (progress, reset hour), `Review` |
| `Review` | analysts: queue rows, alert page, disposition in three awaits, on `Triage`'s tables | `MCReview` |
| `WorkQueue` | abstract: an atomic FIFO queue with published verdicts | refined by `Triage` |
| `SuricataConfig` | `read_config`: includes, merge, expansion, refusal, as operators | `Analysis` |
| `Roles` | `assign_roles` and its tables, as operators | `Indicators` |
| `Indicators` | `_extract_indicators` and its helpers, as operators | `Analysis` |
| `Analysis` | startup, then `_process_alert` up to persistence: flow, roles, identities, indicators, concurrent lookups, LLM attempts | `MCAnalysis` |
| `CircuitBreaker`, `RateLimiter` | operations of the two classes | `VTQueries`; `VTClient`, `Rdap` (breaker) |
| `VTQueries` | concurrent queries: breaker → limiter's line → request → breaker | |
| `VTClient` | `lookup` with both cache rows and all failure classes | |
| `Rdap` | concurrent RDAP lookups over cache, breaker and the locked bootstrap | `MCRdap` |
| `Tailer` | tailer and status against writer, logrotate and mount | |
| `Indexer` | broadcaster and indexer | `FlowContext` |
| `FlowContext` | indexer, the dispatcher's context delay, the worker's read of a flow, retention cleanup | |
| `WebGate` | middleware, license cache, license and login routes, browsers | |
| `*Proofs` | theorems (section 5); `TriageProofs` is about `Triage` and `Review`, `AnalysisProofs` about `Analysis` and the operators below it | |

How the state corresponds to the code:

- **Columns are functions** of the primary key; an alert row is identified with
  the event that caused it. `link` is `alerts.verdict_id`, `vFrom` is
  `llm_inputs` (produced by the LLM, or inherited from a verdict), `hasRole`
  stands for the role columns.
- **Program counters** (`hpc`, `wpc`, `tpc`, `ipc`, `lpc`, `apc`, `rpc`, `at`) name the awaits
  of a coroutine; the steps between two awaits are one action.
- **Failures.** A store call may raise wherever the constant `DbFaults` is TRUE,
  and each exception path is an action: `HandleCountRaises` (outside the `try`:
  the alert is lost), `HandleInsertRaises`, `StoreRaises`, `MarkFailed`,
  `MarkFailedRaises`, `SubmitRaises`, `FlushFails`, `FinalFails`, `AcceptRaises`,
  `BootRaises`, `SelectRaises`, `CacheRaises` (of `Rdap` and of `VTClient`: any get or
  set raises out of `lookup`, and what was written before stays).
- **Restart** keeps tables and cookies and drops every task and local variable:
  a crash and an orderly cancellation leave the same rows, since the worker
  re-raises `CancelledError` without writing. `Review` does the same to submissions
  under way (`StopAndStart`), `Rdap` and `VTClient` keep their cache rows.
- **Cancellation** of the indexer comes in any step. When another component fails,
  `EvePipeline.run` cancels it once. When the pipeline itself is cancelled
  (`shutdown`), `gather` passes the cancellation on, raises as soon as the first task is done,
  and the `except` branch cancels the indexer again, possibly in its last flush
  (`CancelFinal`). Whether a cancelled flush had committed is left open.
- **Time.** `now` is a number of ticks; the day and the reset hour are ticks too.
  `openFor` counts from the opening of the breaker and stops at the timeout. A
  token is `Period` units, so that the bucket is an integer although the code
  refills a float.
- **An alert's analysis** starts from a job: the alert (addresses, the rule's
  target, metadata and category), the events of its flow that are indexed when the
  worker reads them, and the clients that are configured. A category is the set of
  table substrings it contains; a name is a spelling that `Canonical` folds. A
  lookup is a pair of an indicator's place and a source; `sent` is what the clients have
  been shown. The loop over the events is the recursive function `Scanned`, one turn
  of it `Scan`.
- **A configuration file** is its groups (references, negated references, the
  addresses of its networks) and its includes; `homeNet` is a set of addresses. `Pass`
  is one round of the expansion, in the order of the dictionary and in place.
- **An analyst** is a session with the page before it: the row that is followed,
  the alert's page, the submission between its awaits. A page's reads are one
  step, because nothing they read changes once it is linked.
- **Ages** in `FlowContext` count from the moment the tailer read an event;
  replayed events (`old`) are past retention by their own timestamp at once. Time
  passes in the indexer's wait, in an awaited flush and after a stop.
- **The bootstrap's lock** is a queue whose head holds it. The map is IANA's or
  the built-in fallback; a row carries the time it has left.
- **The file** is a sequence of half lines, so that a poll can see a line that is half
  written. The line's kind says what `json.loads` and `from_dict` make of it.
  `EventsRead` is what the loop over the lines has put on the queue at each half line.
  With `StaleSizes` `st_size` is any number up to the position (a larger one makes no
  difference), as `tailer.py:93` says of SMB and NFS. The file may be re-created at any
  time, also between `stat` and `open`.
- **A response of VirusTotal** is readable, malformed (`_parse_vt_response` answers
  'failing') or broken (it raises `AttributeError` out of `lookup`).

Abstractions that a reader should know: in `Worker` enrichment and LLM are one step that
yields a verdict or raises, and `Analysis` is that step in detail for one alert, without
store failures; `FlowContext` leaves out the cap and the queue, so an alert in the table
may be read at any later time; the string comparison of timestamps in SQL is the
comparison of times; a tick does not fall between a registry's answer and its row; the
wake-up order of the sleeping `_handle` tasks is left open; VirusTotal is asked about
one indicator once at a time (RDAP is not); the tick does not fall between the two cache
writes of one response; the tailer's back-off is a delay and is left out; history
variables (`goodAt`, `recent`, `disturbed`, `alerts`, `sent`, `downloads`, `since`) are
read by properties only, or by named bounds; a list inside a list of `suricata.yaml`,
and group names outside `[A-Z0-9_]+`, which the code does not expand, are outside
`SuricataConfig`; `Rdap` asks only for domains with a TLD (extraction drops names
without a dot, so that only what normalisation leaves of a name such as `www.com` has
none; `get_base_url` then answers None without the map); `WebGate` leaves out POST
`/alert/…`, which answers a missing session with 401 instead of a redirect.

## 3. Runs

| Run | Config | What it shows | Distinct states |
|---|---|---|---|
| `triage_review` | 3 alerts of one group, cap 2, days of 2 ticks with one reset, one analyst, 2 categories, failures and restarts | all triage invariants, badges, seen and recorded verdicts, marks, and the refinement of `WorkQueue` | 954 k |
| `triage_progress` | 3 alerts, one outside the group, cap 2, two days, no failures | alerts that close the gate on themselves are settled after the reset | 88 k |
| `vt_queries` | 3 callers, fail_max 2, 2 tokens per 3 ticks | breaker and limiter, safety and liveness | 14 k |
| `vt_client` | 2 indicators, TTL 1, backup 2, raising cache calls, restarts, three kinds of body | age and survival of the backup | 2.1 M |
| `tailer` | 3 lines, whole, half and fatal, all disturbances, stale sizes | order, loss, status | 290 k |
| `flow_context` | 3 events, one of them replayed, batch 2, 1 failed flush, one or two cancellations, delay 2, retention 2 | nothing lost or repeated, a stop loses at most one batch, everything stored, no gaps in what the worker reads | 566 k |
| `analysis` | 6 directions, 3 targets, 5 metadata values, 8 categories; flows of up to 3 dns or 2 web events; every reference graph of 3 groups in every order, and includes; 2 attempts | HOME_NET, roles, privacy, completeness, retries | 480 k |
| `rdap` | 3 lookups of one domain, TTL 1, fail_max 1, one raising bootstrap, restarts | one download, one map, fresh answers, no lookup stuck | 145 k |
| `web_gate` | 2 browsers, failures, restarts, blocked or not | every redirect leads closer to a page, gate over stored acceptance | 171 k |
| `triage_reset_hour` | violation | finding 1 | |
| `tailer_death` | violation | finding 2 | |
| `vt_rate` | violation | finding 3 | |

**Why the bounds are enough.** Three alerts give a source, an heir and an heir's
would-be heir (inheritance), and three handlers for two places (cap); two days
put a count and its commit on both sides of a reset. Three callers put two calls
behind an opening while a third probes. Two tokens per three ticks do not divide
evenly, so a token straddles ticks. Three lines fill a truncated file past the
old position. Two events fill a batch and the third starts another, so that a
cancellation meets a full batch, a part of one and a batch behind a failed flush; a
delay of two ticks outlasts the flush interval of one and is outlasted by a slow flush. Three
alerts of one group are two that disagree and one in between, or a judged and an unjudged one
in one row and one beyond the bucket (`Phase` puts a boundary of the buckets between the
ticks). With the analyst, three alerts and all failures together, one session and two
ticks are what TLC finishes in time; the theorems (section 5) hold for any number of
sessions and any clock, so nothing rests on these two bounds. Three
groups form every chain, diamond and cycle of references, negated or not, that an
expansion in file order can meet. Three dns
events put the answer that unmasks a name before, between and after two queries,
and skipped names in front of a limit of two. Three lookups are one that holds
the bootstrap's lock, one that waits and one that finds the map; two of them share
an expired row. Two browsers
are one who reads the license and one who accepts it. `MaxRedirects` (6) is above
the ranking that is checked (2). A line that is invalid JSON reads like half a line and is
left to the proof (`Kinds` is any subset there). `MaxTime`, `MaxLines`, `MaxRepeated`,
`MaxEvents`, `MaxReplayed` and `MaxFaults` only bound the exploration. `Symmetry` of
`triage_review` permutes alerts of the one group, verdict ids and sessions, and no liveness
is checked with it.

**Deadlock** is not checked in the triage, flow_context and analysis runs:
with every event consumed, the clock at its bound, the gate closed, the indexer
stopped or the alert settled, these systems rest.

**Fairness.** The event loop runs every ready task: weak fairness of the worker, of each
handler, of the poll loop, of the broadcaster and of the indexer. Time passes: weak
fairness of the ticks where a timeout is waited for. A request ends, since the HTTP
client has a timeout: weak fairness of each RDAP lookup, which is enough for its lock
because an asyncio lock is handed on in order. A lookup is tried again and again (strong
fairness of `Begin`), because alerts keep coming; the breaker closes only through a
call, so without calls there is nothing to recover. A renamed log is re-created. Nothing
is assumed of Suricata, of permissions, of the VirusTotal service, of arrivals, restarts
or cancellations, nor that a call which may raise does not. `QueuedIsSettled` is checked
without store failures and of one run of the process (`FairSpec` is about `Run`): with a
failure or a stop an alert can stay `analyzing` (section 4). Its premise, that the count is below the cap from some time on, is what the code needs: in a
period in which as many alerts as the cap are admitted the gate stays closed, and no
fairness of the worker opens it.

## 4. Findings

With a run that exhibits them:

1. `count_analyzed_today` (`infra/db/event_store.py:168`) uses today's reset hour
   even while it lies ahead: from midnight to that hour the count is zero and the
   cap is not enforced. With the default hour 0 the cap holds (proved).
2. A JSON line that is not an object ends the tailer and with it the pipeline;
   `main.py` never looks at the task, so nothing surfaces and the status stays green.

3. The rate limiter (`enrichment/virustotal/rate_limiter.py:38`) starts with a full bucket
   and refills it while it drains: up to 2·rate − 1 requests go out within one period,
   where `:20` says "Max requests allowed in the period" and `:3` "4 requests per minute".
   `BurstBounded` is the bound that holds, and is proved.

Documented behaviour that the code does not have, where a run checks what is left of it:

4. On a shutdown the indexer is cancelled twice (`ingestion/pipeline.py:114`), the second time
   possibly in the flush that the first one started (`ingestion/indexer.py:74`). The batch is
   then rolled back and lost without any failure, although `ingestion/indexer.py:53` says
   "Flushes any partial batch on cancellation". `StopLosesOneBatch`: the failure of another
   component loses nothing, a shutdown one batch at most.
5. `EveIndexer.run` (`ingestion/indexer.py:59`) restarts the flush timeout with every
   event, so a trickle holds an event for up to (100 − 1) · 0.5 s = 49.5 s with the
   default values, which `main.py:219` does not change, and an awaited flush for longer.
   The dispatcher's default delay of 30 s, there "so that correlated flow/http/dns records
   have time to land in the EventStore" (`ingestion/dispatcher.py:6`), is shorter, and
   nothing waits for the records themselves. `ContextNoGaps`: what the worker misses is the end
   of a flow, never its middle.

Seen while modelling, part of the models, without a run of their own:

- when the update to `failed` fails as well, or the process stops, an alert stays
  `analyzing` and nothing picks it up again (`MarkFailedRaises`, `Restart`);
- `HALF_OPEN` admits every caller until the first one returns, not one probe;
- `VirusTotalClient.lookup` caches a body before parsing it, so a malformed 200 replaces
  a good backup, and a response cut off between the two writes, by a raising `set` or a
  stop, leaves a primary row without a backup (`BackupSurvives` states both exceptions).
  Its docstring (`client.py:100`) says "Never raises", but a cache call or an unexpected
  shape of the body does raise out of it; the worker's `_lookup` catches that;
- a poll that meets half a line loses that event. Three things make the tailer repeat
  lines (`Repeating`): a read that raises half-way; a file put in place between `stat`
  and `open`, which is read from the old position and, when its inode is noticed, again
  from the start; and, on SMB or NFS, a stale `st_size` below the position, which is
  taken for a truncation. `tailer.py:93` knows the last and does not skip a read for it,
  but the rotation test two lines above relies on the size;
- on a server-to-client packet an inside server is the source of the alert, and a rule
  for servers (`assigner.py:129`) then makes it the attacker of the outside client,
  although `assigner.py:94` says that the source is not the initiator there.
  `InsideBlameGrounded` states the grounds the table has, which is all that holds;
- `check_license_accepted` (`web/deps.py:65`) assigns the flag from a value read
  before an `await`: a request that read the database before an acceptance sets the
  flag back to False after it, although `web/deps.py:25` says that it "never reverts".
  As False is cached too, only a new acceptance or a restart repairs it. The gate
  never opens wrongly (`OpenOnlyIfStored`, proved);
- `count_analyzed_today` counts every alert that is not deferred, the waiting ones
  included, although `interfaces/event_store.py:122` says "the number of alerts
  auto-analyzed": once the cap is reached by *admission*, `_dequeue_next`
  (`triage/worker.py:136`) stops the worker, and alerts that were admitted under the
  cap wait for the next reset. A burst of 300 alerts at once gets next to none of them
  analyzed that day, while `docs/DEPLOYMENT.md:23` says that 300 are. They are settled
  on the first day with fewer arrivals than the cap (`QueuedIsSettled`);
- `query_alerts` returns the *oldest* 2000 alerts of the window, so that on a busy
  installation the queue page misses the newest ones, although its docstring
  (`infra/db/event_store.py:143`) says that the page does not depend on the order;
- a row of the queue takes its disposition mark from its newest member and its link
  from the newest member with a verdict, so that a disposition made by following the
  row need not show on it (`queue_routes.py:252`);
- a disposition submitted from a page that showed no verdict names the verdict
  recorded in the meantime, which the analyst has not seen; with two analysts the
  disposition an alert links to need not be the latest;
- `override_category` is never written, although `infra/db/models.py:200` says that it
  "holds their verdict";
- a failed reverse lookup and an open circuit are cached as the empty name, which
  `identity/reverse_dns/provider.py:107` calls "attempted but no PTR record" and the
  alert's page reports as "No PTR record found";
- `_parse_address_value` splits at every comma: of a list inside a list the first and
  the last entry, which a bracket touches, are dropped and those in between are kept, of
  a negated list too (not modelled); a negated network excludes nothing from the
  networks listed beside it;
- for the RDAP breaker an unknown TLD and a 404 are failures (`RegistryUnknown`,
  `Respond`), so that lookups of unregistered names open it and the ledger then
  says "RDAP registries temporarily unreachable";
- the fallback map of one failed download is cached for seven days, and the map in
  memory is never refreshed while the process lives, whatever the row does;
- the age stored with a cached RDAP answer is always 0;
- the rule "network trojan" can never match, because "trojan" stands before it,
  although the table's docstring puts specific strings before generic ones.

## 5. Proofs

Every invariant of the passing runs and the refinement are proved for every value of
the constants; of the temporal properties, those that need no fairness.

Several proofs are about loops, which are recursive functions of the model (`f[n \in 0
.. N] == IF n = 0 THEN … ELSE … f[n - 1] …`). They go by induction, without the
library's theorems that take an operator: `SetInduction` says that a set that has 0, and
*n* + 1 with every *n*, has all numbers (from the least-element principle), and is used
with the set of turns after which a fact holds. That each recursive definition has a
function that satisfies it (`ScannedDef`, `FlattenDef`, `EventsReadDef`, `PassDef`,
`ResolveDef`, `SpanDef`, `ReachableDef`) is proved in the same way.

**`TriageProofs`.** `TypeCorrect`; `LockCorrect` (the cap lock's holder is a
running handler); `FifoCorrect` and `UpperBoundCorrect`; `AnalyzedCorrect` and
`OneVerdictCorrect`; `OneHopCorrect`; `RefinesWorkQueue`. The inductive invariant
`IInv` comes in three layers. *FifoInv*: only the handler with the lock is between
count and commit, the timestamp it is about to commit is not older than any row
(`HandlerInv`), and the alert in the worker's hand is the newest one taken
(`HoldInv`); `FifoOrder` alone is not inductive because the timestamp is chosen
before the row is visible. *VerdictInv*: the alert in hand has no row before
`Record` and exactly its own after it, and a linked alert is analyzed (`RowInv`).
*HopInv*: the chosen source stays fit between the dedup query and the write
(`SourceInv`), which rests on FIFO order for the window's upper bound. The
refinement maps `phase` to `status`, `at` to the timestamp and `published` to the
link; each store write is one step of the queue and every other step a stutter.
Assumed: `StoreAssumption` (finite alerts, distinct null values, a reset tick
within the day) and `CrashesAssumption`. Proved with failures and restarts allowed.

`CapCorrect` has the hypothesis `ResetTick = 0`: with room for its row reserved at the
count (`RoomFrom`), a handler that chose `queued` keeps every period within the cap in
whichever period it commits, since the lock keeps others out. Finding 1 shows that the
hypothesis is needed.

The second half of the module is about `Review`. `ReviewIsTriage`: with the analysts'
variables left out, every behaviour of `Review` is one of `Triage`, so `IInv` holds
there and is used, not proved again. On it stands `ReviewInv`: every verdict row has a
category (`CategoryInv`), what an analyst has before them is still what the tables say
(`SessionInv`), and a disposition is of the alert and the verdict of its session
(`DispositionInv`). `BadgeCorrect`, `SeenIsRecordedCorrect` and
`MarkedIsDisposedCorrect` follow. `SeenIsRecorded` needs the invariant of the worker:
page and submission read the current verdict in `verdicts`, the queue reads the link in
`alerts`, and only `OneVerdictPerAlert` makes the two the same row. Assumed:
`ReviewAssumption`, in particular that no category is called "mixed".

**`VTQueriesProofs`.** `QueryTypeCorrect` and `ClosedBelowMaxCorrect` from
`QueryInv` (the two support each other: a failure counts up from a value below
`FailMax`); `BurstCorrect` from `BurstInv`: for every age *a*,
Period · recent[a] + tokens ≤ Capacity + Rate · a: what was given out and what is
left never exceed a full bucket plus the inflow.

**`FlowContextProofs`.** `ContextInductive` is the invariant `ContextInv`. While the
pipeline runs, the table, the batch, the indexer queue and the tailer queue, read in
turn, count the events 1, 2, 3, … (`Placed`), and the dispatcher has the first of the
alerts while the others are on the tailer queue (`AlertsInv`): `NothingLostCorrect`.
After a cancellation `Placed` no longer holds, since a cancelled flush may have been
written and is written again. What is left is `Ending`: of the events the indexer took
the table holds a first part (`Holds`), possibly with a batch twice, and the batch is
the run of events just before the queue (`LastBatch`), so that a flush at whatever
moment either completes the table or leaves it one batch short. `BatchInv` bounds that
batch where no flush failed: `StopLosesOneBatchCorrect`. `ContextNoGapsCorrect` adds
that only rows past retention were deleted (`Deleted`): the table is a first part of the
events at all times, whatever the delay, the batch size and the duration of a flush are.
Assumed: `IndexerAssumption`, `ContextAssumption` (a positive batch size and interval,
nothing of the delay).

**`AnalysisProofs`.** `AnalysisInductive` is the invariant `AnalysisInv`, one part per
stage, for every set of jobs; the theorems follow from it.

- `HomeNetCorrect` (`HomeNetInv`): HOME_NET is what the files mean. `Resolve` gives it
  nothing but what it reaches, because a text never refers outside the groups reached so far
  (`Within`). It gives it all of that, because along every chain of references a pass
  doubles the distance (`PassInv`, `Sees`): a group that refers to the one *s* further
  along refers after the pass to one at least 2*s* further along, or has taken in the
  networks at the chain's end. A group that has its new text already is only further
  ahead, so the order does not matter, and neither do cycles. Every group reached is at the
  end of a chain no longer than the number of groups (`ReachByPath`, `ReachCloses`). So
  ten passes are enough for fewer than 2^10 groups, and that is what `IsConfig` assumes.
  `Load`, the merge of the files, is the same operator in code model and property; what
  it computes is checked by the run.
- `NamesCorrect` and `SentCorrect` (`NamesInv`, `AddressesOutside`): `ScanInv` says what
  the loop of `_extract_indicators` keeps: the domains are distinct, each may be asked
  about, and every name so far is among them or there is a reason why not. The names
  that were sent are shown to be outside by `NameOutside`, over all events of the flow.
- `EvidenceCorrect` (`LookupsInv`, `EvidenceInv`, `IdentityInv`): which lookups have been
  started by the time each of their predecessors has ended, so that when none is
  open none is missing (`AllLookedUp`); and that the concatenation of the entries is in
  the order of the indicators (`EntriesWanted`, `LabelsFlatten`).
- `VictimCorrect`, `BlameCorrect` (`RoleInv`, `Grounded`) from the lemmas about the decision
  table of `assign_roles`; `RetryCorrect` (`CallsInv`) from the outcome of every call
  so far.

Assumed: `AnalysisAssumption` (at least one attempt; an alert has its fields; `IsFlow`;
`IsConfig`), `IndicatorsAssumption` and `ConfigAssumption`. `IsFlow` says that the events
of a flow are those of one connection: dns, or http and tls between the same two
endpoints, which is what Suricata's flow id stands for. The code relies on it, because it
compares a name with the server of its own event only: if one name had an outside server
in one event and an inside server in another, it would be sent, and
`NothingInternalSent` would not hold.

**`TailerProofs`.** `OrderCorrect` and `RedCorrect` from `TailerInductive`, for any
number of lines, polls and disturbances. The lines of a file are in the order they were
written (`CellsInv`). Unless one of the three causes of `Repeating` has occurred
(`Calm`), a read is of the file that `stat` saw, or of none (`PollInv`), and what lies
beyond the place where the next poll will start is newer than everything on the queue,
and so is a line whose second half is still to come (`UnreadInv`); `InOrderOnce` alone
is not inductive, since it says nothing of what is still in the file. `ReadInOrder`: a
read emits the lines it passes in order. `StatusInv` ties the count of failures to the
colour. TLC checked the invariant before it was proved. Assumed: `TailerAssumption`.

**`VTClientProofs`.** `CachedAgeCorrect` and `BackupSurvivesCorrect` from `ClientInv`,
for every `Ttl` and `StaleFactor`: a row expires its lifetime after it was fetched
(`RowsInv`), and the backup is the last response whose lookup got through both writes,
if it was readable and as long as it is within its lifetime (`BackupInv`), with cache
calls that raise and stops of the process between any two steps. Assumed:
`ClientAssumption`, with the absent row distinct from every row.

**`WebGateProofs`.** `OpenOnlyIfStoredCorrect` from `GateInv`: a "true" that some
request has read was stored, and a request past the first write has stored it.
`RedirectsEndCorrect` by a ranking: `Left` is the number of redirects a page is away, at
most two, and every redirect lowers it under the license answer it leaves in the cache,
that of `get_license`, which asks for the answer a second time, included (`LicensePage`,
for which `StoringInv` knows the path). The proof attempt refuted the bound on the
number of hops that the run used to check: with four browsers, requests that read the
database before and after an acceptance can leave "false" and "true" in the cache in
turn and send one browser back and forth, so only the descent between two such changes
can be claimed.

**`RdapProofs`.** `OneDownloadCorrect` and `MapAgreesCorrect` from `BootInductive`:
only the holder of the lock is in its section, and only while there is no map
(`LockInv`); every download is accounted for by the map, by the lookup about to
keep it, or by a bootstrap that raised (`DownloadInv`); the row just written is the
map about to be kept (`RowInv`). `OneDownload` alone is not inductive: it needs that
whoever is about to download finds no download unaccounted for, which is what the
second look at the map inside the lock is for. `AnswersFreshCorrect` from `FreshInv`: the
time since its domain's last answer and what is left of a live row are together at most
`Ttl`. Assumed:
`RdapAssumption`.

Only model-checked: every liveness property (`QueuedIsSettled`, `Recovers`, `Protects`,
`Served`, `OutageTurnsRed`, `EverythingEmitted`, `EventuallyStored`, `LookupEnds`), which
needs fairness, and what `Load` makes of the included files. That the provers are given a
module without RECURSIVE operators is why the loops are recursive functions throughout.

## 6. Not modelled, and why

The health page and the JSON API probe and report on request; the ingestion status
they repeat is `Tailer`'s `color` and `WebGate`'s `blocked`. GeoIP's databases are
read through a library: `Analysis` has its answers only. Templates, summaries of
events, prompt texts and evidence chains are formatting. Telemetry and feedback are
fire-and-forget HTTP. The Gemini client serves the evaluation harness (`src/eval`),
which is a script without state of its own. Logging, the HTTP factory and the error
classes keep no state others depend on. EXTERNAL_NET, server and port groups only
enter prompts. The failure counter and lockout of `web/auth.py` are a dictionary that
one request at a time reads and writes between two awaits.

## 7. Plan

1. *(done)* Triage with its abstract queue and proofs; breaker, limiter and client;
   tailer; indexer; first-run gate; roles, extraction, lookups and LLM attempts of
   one alert; RDAP with its bootstrap.
2. *(done)* `FlowContext`: indexer, context delay, worker's read and cleanup composed;
   `Review`: the pages and dispositions on the tables of `Triage`; the configuration
   reader and reverse DNS in `Analysis`; progress with the cap within reach.
3. *(done)* Proofs of the safety properties of `Review`, `FlowContext`, `VTClient`,
   `Rdap` and `WebGate`, and of the roles, the lookups and the attempts in `Analysis`.
4. *(done)* Proofs of the loops: HOME_NET, extraction and evidence in `Analysis`, and
   the order and the status of `Tailer`.
5. Left: that `WorkQueue` itself is FIFO and publishes no verdict twice; what `Load` makes
   of nested includes; the labels of VirusTotal results in the prompt; the login lockout.
