------------------------------ MODULE WebGate -------------------------------
(***************************************************************************)
(* The first-run gate of the web layer: _FirstRunGateMiddleware            *)
(* (src/src/web/app.py), the cached license state (src/src/web/deps.py),   *)
(* the license and login routes, and the startup check that may block      *)
(* ingestion (src/src/main.py).  Browsers send requests concurrently and   *)
(* follow redirects; every await of a database call lets others run.       *)
(*                                                                         *)
(* Page contents are left out.  "/api/x" stands for the API paths other    *)
(* than /api/health, "/queue" for the dashboard pages.  POST /alert/...,   *)
(* the one page path that answers a missing session with a 401, is left    *)
(* out.                                                                    *)
(***************************************************************************)
EXTENDS Naturals

CONSTANTS Browsers,
          DbFaults,      \* may a database call raise?
          Restarts,      \* may the process restart?
          MaxRedirects   \* redirects in a row after which a browser gives up

ASSUME GateAssumption ==
    /\ {DbFaults, Restarts} \subseteq BOOLEAN
    /\ MaxRedirects \in Nat \ {0}

VARIABLES accepted,   \* the stored eula_accepted = "true"
          license,    \* _license_accepted: "none" until the first read
          blocked,    \* ingestion_status.blocked_reason is set
          session,    \* which browsers hold a logged-in session cookie
          at,         \* where each browser's request is in the server
          path,       \* its path
          post,       \* is it a POST?
          seen,       \* what get_config returned to it
          hops        \* redirects followed since the user last acted

vars == <<accepted, license, blocked, session, at, path, post, seen, hops>>

Paths == {"/", "/queue", "/login", "/logout", "/setup/license", "/setup/health",
          "/health", "/api/health", "/api/x"}
Api   == {"/api/health", "/api/x"}
Setup == {"/setup/license", "/setup/health"}

TypeOK ==
    /\ accepted \in BOOLEAN
    /\ license \in {"none", "true", "false"}
    /\ blocked \in BOOLEAN
    /\ session \subseteq Browsers
    /\ at \in [Browsers -> {"idle", "gate", "reading", "read", "page", "store",
                            "store_at", "install_id"}]
    /\ path \in [Browsers -> Paths]
    /\ post \in [Browsers -> BOOLEAN]
    /\ seen \in [Browsers -> BOOLEAN]
    /\ hops \in [Browsers -> 0 .. MaxRedirects]

\* lifespan: a suricata.yaml or eve.json that cannot be read blocks ingestion for
\* this run of the process.
Startup ==
    /\ license' = "none"
    /\ blocked' \in BOOLEAN
    /\ at' = [b \in Browsers |-> "idle"]
    /\ hops' = [b \in Browsers |-> 0]

Init ==
    /\ accepted = FALSE
    /\ license = "none"
    /\ blocked \in BOOLEAN
    /\ session = {}
    /\ at = [b \in Browsers |-> "idle"]
    /\ path = [b \in Browsers |-> "/"]
    /\ post = [b \in Browsers |-> FALSE]
    /\ seen = [b \in Browsers |-> FALSE]
    /\ hops = [b \in Browsers |-> 0]

-----------------------------------------------------------------------------
\* The middleware's answer: "call" hands the request to its route.
PostLicenseOpen == {"/setup/health", "/login", "/logout", "/api/health"}
BlockedOpen     == {"/setup/health", "/health", "/api/health", "/login", "/logout"}

Dispatch_BouncesHealth(p, ok, auth) ==
    IF p = "/health" THEN "call"
    ELSE IF ~ok
    THEN IF p \in {"/setup/license", "/api/health"} THEN "call" ELSE "/setup/license"
    ELSE IF blocked /\ p \notin BlockedOpen
    THEN IF p \in Api THEN "json" ELSE "/setup/health"
    ELSE IF auth /\ p \in {"/setup/license", "/setup/health", "/login"} THEN "/queue"
    ELSE IF ~auth /\ p \notin PostLicenseOpen \cup Setup
    THEN IF p \in Api THEN "json" ELSE "/login"
    ELSE "call"

Dispatch(p, ok, auth) ==
    IF p = "/health" THEN "call"
    ELSE IF ~ok
    THEN IF p \in {"/setup/license", "/api/health"} THEN "call" ELSE "/setup/license"
    ELSE IF blocked /\ p \notin BlockedOpen
    THEN IF p \in Api THEN "json" ELSE "/setup/health"
    ELSE IF auth /\ p \in {"/setup/license", "/login"} THEN "/queue"
    ELSE IF ~auth /\ p \notin PostLicenseOpen \cup Setup
    THEN IF p \in Api THEN "json" ELSE "/login"
    ELSE "call"

\* A page, an error or JSON: the user decides what comes next.
Answer(b) ==
    /\ at' = [at EXCEPT ![b] = "idle"]
    /\ hops' = [hops EXCEPT ![b] = 0]
    /\ UNCHANGED <<path, post>>

\* A 303: the browser follows with a GET until it gives up.
Redirect(b, p) ==
    IF hops[b] = MaxRedirects THEN Answer(b)
    ELSE /\ at' = [at EXCEPT ![b] = "gate"]
         /\ path' = [path EXCEPT ![b] = p]
         /\ post' = [post EXCEPT ![b] = FALSE]
         /\ hops' = [hops EXCEPT ![b] = @ + 1]

\* The routes.  Declining the license, a wrong password and a locked-out address all
\* answer with a page.
Route(b) ==
    \/ /\ path[b] = "/"
       /\ Redirect(b, "/queue") /\ UNCHANGED session
    \/ /\ path[b] = "/setup/license" /\ ~post[b]
       /\ at' = [at EXCEPT ![b] = "page"]
       /\ UNCHANGED <<path, post, hops, session>>
    \/ /\ path[b] = "/setup/license" /\ post[b]
       /\ at' = [at EXCEPT ![b] = "store"]
       /\ UNCHANGED <<path, post, hops, session>>
    \/ /\ path[b] = "/login" /\ post[b]
       /\ session' = session \cup {b}
       /\ Redirect(b, "/queue")
    \/ /\ path[b] = "/logout"
       /\ session' = session \ {b}
       /\ Redirect(b, "/login")
    \/ /\ path[b] \notin {"/", "/logout"}
       /\ path[b] = "/setup/license" => post[b]
       /\ Answer(b) /\ UNCHANGED session

\* The middleware and, when it lets the request through, the route.
Handle(b, ok) ==
    LET answer == Dispatch(path[b], ok, b \in session)
    IN  CASE answer = "call" -> Route(b)
          [] answer = "json" -> Answer(b) /\ UNCHANGED session
          [] OTHER           -> Redirect(b, answer) /\ UNCHANGED session

-----------------------------------------------------------------------------
\* A user opens a page or submits a form.
Send(b, p, f) ==
    /\ at[b] = "idle"
    /\ f => p \in {"/setup/license", "/login", "/logout"}
    /\ at' = [at EXCEPT ![b] = "gate"]
    /\ path' = [path EXCEPT ![b] = p]
    /\ post' = [post EXCEPT ![b] = f]
    /\ UNCHANGED <<accepted, license, blocked, session, seen, hops>>

\* check_license_accepted() knows the answer, or the path needs none.
GateCached(b) ==
    /\ at[b] = "gate"
    /\ license # "none" \/ path[b] = "/health"
    /\ Handle(b, license = "true")
    /\ UNCHANGED <<accepted, license, blocked, seen>>

\* check_license_accepted() asks the database.
GateAsks(b) ==
    /\ at[b] = "gate"
    /\ license = "none" /\ path[b] # "/health"
    /\ at' = [at EXCEPT ![b] = "reading"]
    /\ UNCHANGED <<accepted, license, blocked, session, path, post, seen, hops>>

\* get_config returns what is stored; an exception counts as "not accepted".
ConfigRead(b) ==
    /\ at[b] = "reading"
    /\ at' = [at EXCEPT ![b] = "read"]
    /\ \E v \in {accepted} \cup (IF DbFaults THEN {FALSE} ELSE {}) :
           seen' = [seen EXCEPT ![b] = v]
    /\ UNCHANGED <<accepted, license, blocked, session, path, post, hops>>

\* The coroutine resumes and caches what it had read.
GateCaches(b) ==
    /\ at[b] = "read"
    /\ license' = IF seen[b] THEN "true" ELSE "false"
    /\ Handle(b, seen[b])
    /\ UNCHANGED <<accepted, blocked, seen>>

\* get_license asks check_license_accepted() again, which by now has an answer, and one
\* that may have changed since the middleware asked.
LicensePage(b) ==
    /\ at[b] = "page"
    /\ IF license = "true" THEN Redirect(b, "/setup/health") ELSE Answer(b)
    /\ UNCHANGED <<accepted, license, blocked, session, seen>>

StoreAccepted_MarksFirst(b) ==
    /\ at[b] = "store"
    /\ license' = "true"
    /\ at' = [at EXCEPT ![b] = "store_at"]
    /\ UNCHANGED <<accepted, blocked, session, path, post, seen, hops>>

\* post_license: three database calls, then the cache.
StoreAccepted(b) ==
    /\ at[b] = "store"
    /\ accepted' = TRUE
    /\ at' = [at EXCEPT ![b] = "store_at"]
    /\ UNCHANGED <<license, blocked, session, path, post, seen, hops>>

StoreAcceptedAt(b) ==
    /\ at[b] = "store_at"
    /\ at' = [at EXCEPT ![b] = "install_id"]
    /\ UNCHANGED <<accepted, license, blocked, session, path, post, seen, hops>>

\* The startup has created the id: ensure_install_id only reads it.
MarkAccepted(b) ==
    /\ at[b] = "install_id"
    /\ license' = "true"
    /\ Redirect(b, "/setup/health")
    /\ UNCHANGED <<accepted, blocked, session, seen>>

\* Any of the three calls raises: a 500, and what is stored stays.
AcceptRaises(b) ==
    /\ DbFaults
    /\ at[b] \in {"store", "store_at", "install_id"}
    /\ Answer(b)
    /\ UNCHANGED <<accepted, license, blocked, session, seen>>

\* Session cookies survive a restart, requests do not.
Restart ==
    /\ Restarts
    /\ Startup
    /\ UNCHANGED <<accepted, session, path, post, seen>>

ServerStep(b) ==
    \/ GateCached(b)
    \/ GateAsks(b)
    \/ ConfigRead(b)
    \/ GateCaches(b)
    \/ LicensePage(b)
    \/ StoreAccepted(b)
    \/ StoreAcceptedAt(b)
    \/ MarkAccepted(b)
    \/ AcceptRaises(b)

Next ==
    \/ \E b \in Browsers :
          \/ \E p \in Paths, f \in BOOLEAN : Send(b, p, f)
          \/ ServerStep(b)
    \/ Restart

Spec == Init /\ [][Next]_vars

-----------------------------------------------------------------------------

\* The redirects that the matrix still holds for a request to p (f: a POST) while the
\* cached answer is ok and the browser's session is auth.
Left(p, f, ok, auth) ==
    IF ~ok THEN IF p \in {"/health", "/setup/license", "/api/health"} THEN 0 ELSE 1
    ELSE IF p \in Api \cup {"/health", "/setup/health"} THEN 0
    ELSE IF p = "/login" THEN IF ~auth /\ ~f THEN 0 ELSE IF blocked THEN 2 ELSE 1
    ELSE IF p = "/queue" /\ auth /\ ~blocked THEN 0
    ELSE 1

\* The redirect matrix has no loops: whatever the license, the block, the session and
\* the requests of other browsers, a redirect leads closer to a page under the cached
\* answer it leaves behind, and no page is more than two redirects away.  (Only while
\* that answer stands: concurrent first reads may leave one answer after the other.)
RedirectsEnd ==
    [][\A b \in Browsers :
           hops'[b] > hops[b] =>
               Left(path'[b], post'[b], license' = "true", b \in session') <
               Left(path[b], post[b], license' = "true", b \in session)]_vars

\* Nobody gets past the gate before an acceptance is in the database, so no crash or
\* failed write can leave an open gate over an installation that did not accept.
OpenOnlyIfStored == license = "true" => accepted
=============================================================================
