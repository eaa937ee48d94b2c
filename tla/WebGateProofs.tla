--------------------------- MODULE WebGateProofs ----------------------------
(***************************************************************************)
(* The gate opens only over a stored acceptance, for any number of         *)
(* browsers, with failing database calls and restarts.                     *)
(***************************************************************************)
EXTENDS WebGate, TLAPS

\* What makes OpenOnlyIfStored inductive: a "true" that a request has read was stored
\* (an acceptance is never withdrawn), and a request past the first write has stored it.
GateInv ==
    /\ TypeOK
    /\ OpenOnlyIfStored
    /\ \A b \in Browsers : seen[b] => accepted
    /\ \A b \in Browsers : at[b] \in {"store_at", "install_id"} => accepted

\* What a redirect does to the request.
LEMMA RedirectMoves ==
    ASSUME TypeOK, NEW b \in Browsers, NEW p \in Paths, Redirect(b, p)
    PROVE  /\ \E pc \in {"idle", "gate", "page", "store"} : at' = [at EXCEPT ![b] = pc]
           /\ path' \in [Browsers -> Paths]
           /\ post' \in [Browsers -> BOOLEAN]
           /\ hops' \in [Browsers -> 0 .. MaxRedirects]
<1> USE DEF TypeOK
<1>1. CASE hops[b] = MaxRedirects
  BY <1>1, GateAssumption DEF Redirect, Answer
<1>2. CASE hops[b] # MaxRedirects
  <2>1. /\ at' = [at EXCEPT ![b] = "gate"]
        /\ path' = [path EXCEPT ![b] = p]
        /\ post' = [post EXCEPT ![b] = FALSE]
        /\ hops' = [hops EXCEPT ![b] = hops[b] + 1]
    BY <1>2 DEF Redirect
  <2>2. hops' \in [Browsers -> 0 .. MaxRedirects]
    BY <1>2, <2>1, GateAssumption
  <2>3. post' \in [Browsers -> BOOLEAN] /\ path' \in [Browsers -> Paths]
    BY <2>1, Zenon
  <2> QED BY <2>1, <2>2, <2>3
<1> QED BY <1>1, <1>2

\* How a request is answered does not touch the license, and no answer puts a request
\* past the first write of post_license.
LEMMA HandleMoves ==
    ASSUME TypeOK, NEW b \in Browsers, NEW ok \in BOOLEAN, Handle(b, ok)
    PROVE  /\ session' \subseteq Browsers
           /\ \E pc \in {"idle", "gate", "page", "store"} : at' = [at EXCEPT ![b] = pc]
           /\ path' \in [Browsers -> Paths]
           /\ post' \in [Browsers -> BOOLEAN]
           /\ hops' \in [Browsers -> 0 .. MaxRedirects]
<1> USE DEF TypeOK
<1>1. ASSUME NEW p \in Paths, Redirect(b, p)
      PROVE  /\ \E pc \in {"idle", "gate", "page", "store"} : at' = [at EXCEPT ![b] = pc]
             /\ path' \in [Browsers -> Paths]
             /\ post' \in [Browsers -> BOOLEAN]
             /\ hops' \in [Browsers -> 0 .. MaxRedirects]
  BY <1>1, RedirectMoves
<1>2. ASSUME Answer(b)
      PROVE  /\ \E pc \in {"idle", "gate", "page", "store"} : at' = [at EXCEPT ![b] = pc]
             /\ path' \in [Browsers -> Paths]
             /\ post' \in [Browsers -> BOOLEAN]
             /\ hops' \in [Browsers -> 0 .. MaxRedirects]
  BY <1>2, GateAssumption DEF Answer
<1>3. {"/queue", "/login", "/setup/license", "/setup/health"} \subseteq Paths
  BY DEF Paths
<1>4. CASE Route(b)
  BY <1>1, <1>2, <1>3, <1>4 DEF Route
<1>5. CASE Answer(b) /\ UNCHANGED session
  BY <1>2, <1>5
<1>6. ASSUME Dispatch(path[b], ok, b \in session) \notin {"call", "json"},
             Redirect(b, Dispatch(path[b], ok, b \in session)), UNCHANGED session
      PROVE  /\ session' \subseteq Browsers
             /\ \E pc \in {"idle", "gate", "page", "store"} : at' = [at EXCEPT ![b] = pc]
             /\ path' \in [Browsers -> Paths]
             /\ post' \in [Browsers -> BOOLEAN]
             /\ hops' \in [Browsers -> 0 .. MaxRedirects]
  <2>1. Dispatch(path[b], ok, b \in session) \in
            {"/queue", "/login", "/setup/license", "/setup/health"}
    BY <1>6 DEF Dispatch
  <2> QED BY <2>1, <1>1, <1>3, <1>6
<1> QED BY <1>4, <1>5, <1>6 DEF Handle

\* Every step of Spec keeps the inductive invariant, one step per operation.
THEOREM GateInductive == Spec => []GateInv
<1>1. Init => GateInv
  <2> SUFFICES ASSUME Init PROVE GateInv
    OBVIOUS
  <2>1. TypeOK
    <3>1. hops \in [Browsers -> 0 .. MaxRedirects]
      BY GateAssumption DEF Init
    <3>2. at \in [Browsers -> {"idle", "gate", "reading", "read", "page", "store",
                               "store_at", "install_id"}]
      BY DEF Init
    <3>3. post \in [Browsers -> BOOLEAN] /\ seen \in [Browsers -> BOOLEAN]
      BY Zenon DEF Init
    <3>4. path \in [Browsers -> Paths]
      BY DEF Init, Paths
    <3> QED BY <3>1, <3>2, <3>3, <3>4 DEF Init, TypeOK
  <2>2. OpenOnlyIfStored
    BY DEF Init, OpenOnlyIfStored
  <2>3. \A b \in Browsers : ~seen[b] /\ at[b] = "idle"
    BY DEF Init
  <2> QED BY <2>1, <2>2, <2>3 DEF GateInv
<1>2. GateInv /\ [Next]_vars => GateInv'
  <2> SUFFICES ASSUME GateInv, [Next]_vars
               PROVE  GateInv'
    OBVIOUS
  <2> USE GateAssumption DEF GateInv, OpenOnlyIfStored
  <2>1. ASSUME NEW b \in Browsers, NEW p \in Paths, NEW f \in BOOLEAN, Send(b, p, f)
        PROVE  GateInv'
    BY <2>1 DEF Send, TypeOK
  <2>2. ASSUME NEW b \in Browsers, GateCached(b)
        PROVE  GateInv'
    BY <2>2, HandleMoves DEF GateCached, TypeOK
  <2>3. ASSUME NEW b \in Browsers, GateAsks(b)
        PROVE  GateInv'
    BY <2>3 DEF GateAsks, TypeOK
  <2>4. ASSUME NEW b \in Browsers, ConfigRead(b)
        PROVE  GateInv'
    BY <2>4 DEF ConfigRead, TypeOK
  <2>5. ASSUME NEW b \in Browsers, GateCaches(b)
        PROVE  GateInv'
    <3>1. seen[b] \in BOOLEAN
      BY DEF TypeOK
    <3> QED BY <2>5, <3>1, HandleMoves DEF GateCaches, TypeOK
  <2>6. ASSUME NEW b \in Browsers, StoreAccepted(b)
        PROVE  GateInv'
    BY <2>6 DEF StoreAccepted, TypeOK
  <2>7. ASSUME NEW b \in Browsers, StoreAcceptedAt(b)
        PROVE  GateInv'
    BY <2>7 DEF StoreAcceptedAt, TypeOK
  <2>8. ASSUME NEW b \in Browsers, MarkAccepted(b)
        PROVE  GateInv'
    <3>1. "/setup/health" \in Paths
      BY DEF Paths
    <3> QED BY <2>8, <3>1, RedirectMoves DEF MarkAccepted, TypeOK
  <2>9. ASSUME NEW b \in Browsers, AcceptRaises(b)
        PROVE  GateInv'
    BY <2>9 DEF AcceptRaises, Answer, TypeOK
  <2>10. ASSUME NEW b \in Browsers, LicensePage(b)
        PROVE  GateInv'
    <3>1. "/setup/health" \in Paths
      BY DEF Paths
    <3>2. CASE Redirect(b, "/setup/health")
      BY <2>10, <3>1, <3>2, RedirectMoves DEF LicensePage, TypeOK
    <3>3. CASE Answer(b)
      BY <2>10, <3>3 DEF LicensePage, Answer, TypeOK
    <3> QED BY <2>10, <3>2, <3>3 DEF LicensePage
  <2>11. CASE Restart
    BY <2>11 DEF Restart, Startup, TypeOK
  <2>12. CASE UNCHANGED vars
    BY <2>12 DEF vars, TypeOK
  <2> QED BY <2>1, <2>2, <2>3, <2>4, <2>5, <2>6, <2>7, <2>8, <2>9, <2>10, <2>11, <2>12
          DEF Next, ServerStep
<1> QED BY <1>1, <1>2, PTL DEF Spec

\* Nobody passes the gate before an acceptance is in the database
\* (check_license_accepted and mark_license_accepted in deps.py, post_license in setup.py).
THEOREM OpenOnlyIfStoredCorrect == Spec => []OpenOnlyIfStored
<1>1. GateInv => OpenOnlyIfStored
  BY DEF GateInv
<1> QED BY <1>1, GateInductive, PTL

-----------------------------------------------------------------------------
\* The counter of followed redirects moves only with a redirect that is followed.
LEMMA RedirectFollowed ==
    ASSUME TypeOK, NEW b \in Browsers, NEW p \in Paths, Redirect(b, p),
           NEW c \in Browsers, hops'[c] > hops[c]
    PROVE  c = b /\ path'[b] = p /\ post'[b] = FALSE
<1> USE GateAssumption DEF TypeOK
<1>1. hops[b] # MaxRedirects
  BY DEF Redirect, Answer
<1> QED BY <1>1 DEF Redirect

\* An answer leaves it at zero for the one request and alone for the others.
LEMMA AnswerStops ==
    ASSUME TypeOK, NEW b \in Browsers, Answer(b), NEW c \in Browsers
    PROVE  ~(hops'[c] > hops[c])
BY GateAssumption DEF Answer, TypeOK

\* The redirects of the middleware and of the routes descend, case by case over the
\* matrix of Dispatch.
LEMMA HandleDescends ==
    ASSUME TypeOK, NEW b \in Browsers, NEW ok \in BOOLEAN, Handle(b, ok),
           NEW c \in Browsers, hops'[c] > hops[c]
    PROVE  /\ c = b
           /\ Left(path'[b], post'[b], ok, b \in session') <
              Left(path[b], post[b], ok, b \in session)
<1> DEFINE answer == Dispatch(path[b], ok, b \in session)
           Goal == /\ c = b
                   /\ Left(path'[b], post'[b], ok, b \in session') <
                      Left(path[b], post[b], ok, b \in session)
<1>0. path[b] \in Paths /\ post[b] \in BOOLEAN /\ blocked \in BOOLEAN
  BY DEF TypeOK
<1>1. CASE answer \notin {"call", "json"}
  <2>1. answer \in {"/queue", "/login", "/setup/license", "/setup/health"}
    BY <1>1 DEF Dispatch
  <2>2. answer \in Paths
    BY <2>1 DEF Paths
  <2>3. Redirect(b, answer) /\ session' = session
    BY <1>1 DEF Handle
  <2>4. c = b /\ path'[b] = answer /\ post'[b] = FALSE
    BY <2>2, <2>3, RedirectFollowed
  <2>5. Left(answer, FALSE, ok, b \in session) < Left(path[b], post[b], ok, b \in session)
    BY <1>0, <1>1 DEF Dispatch, Left, Paths, Api, Setup, BlockedOpen, PostLicenseOpen
  <2> QED BY <2>3, <2>4, <2>5
<1>2. CASE answer = "json"
  BY <1>2, AnswerStops DEF Handle
<1>3. CASE answer = "call"
  <2>1. Route(b)
    BY <1>3 DEF Handle
  <2>2. {"/queue", "/login", "/setup/health"} \subseteq Paths
    BY DEF Paths
  <2>3. CASE path[b] = "/" /\ Redirect(b, "/queue") /\ session' = session
    <3>1. c = b /\ path'[b] = "/queue" /\ post'[b] = FALSE
      BY <2>2, <2>3, RedirectFollowed
    <3> QED BY <1>0, <1>3, <2>3, <3>1
            DEF Dispatch, Left, Api, Setup, BlockedOpen, PostLicenseOpen
  <2>5. CASE /\ path[b] = "/login" /\ post[b]
             /\ session' = session \cup {b} /\ Redirect(b, "/queue")
    <3>1. c = b /\ path'[b] = "/queue" /\ post'[b] = FALSE
      BY <2>2, <2>5, RedirectFollowed
    <3> QED BY <1>0, <1>3, <2>5, <3>1
            DEF Dispatch, Left, Api, Setup, BlockedOpen, PostLicenseOpen
  <2>6. CASE /\ path[b] = "/logout"
             /\ session' = session \ {b} /\ Redirect(b, "/login")
    <3>1. c = b /\ path'[b] = "/login" /\ post'[b] = FALSE
      BY <2>2, <2>6, RedirectFollowed
    <3> QED BY <1>0, <1>3, <2>6, <3>1
            DEF Dispatch, Left, Api, Setup, BlockedOpen, PostLicenseOpen
  <2>7. CASE Answer(b)
    BY <2>7, AnswerStops
  <2>8. CASE UNCHANGED hops
    BY <2>8 DEF TypeOK
  <2> QED BY <2>1, <2>3, <2>5, <2>6, <2>7, <2>8 DEF Route
<1> QED BY <1>1, <1>2, <1>3

\* A request that shows the license or stores its acceptance is one to /setup/license.
StoringInv ==
    \A b \in Browsers :
        at[b] \in {"page", "store", "store_at", "install_id"} => path[b] = "/setup/license"

\* Only such a request gets there, and a request moves nobody else's.
LEMMA HandleStores ==
    ASSUME TypeOK, NEW b \in Browsers, NEW ok \in BOOLEAN, Handle(b, ok), StoringInv
    PROVE  StoringInv'
<1> USE GateAssumption DEF TypeOK
<1>1. ASSUME NEW p, Redirect(b, p) PROVE StoringInv'
  BY <1>1 DEF Redirect, Answer, StoringInv
<1>2. ASSUME Answer(b) PROVE StoringInv'
  BY <1>2 DEF Answer, StoringInv
<1>3. ASSUME Route(b) PROVE StoringInv'
  <2>1. ASSUME NEW pc, path[b] = "/setup/license", at' = [at EXCEPT ![b] = pc],
               UNCHANGED path
        PROVE  StoringInv'
    BY <2>1 DEF StoringInv
  <2> QED BY <1>1, <1>2, <1>3, <2>1 DEF Route
<1> QED BY <1>1, <1>2, <1>3 DEF Handle

\* Every step of Spec keeps StoringInv.
LEMMA StoringInductive == Spec => []StoringInv
<1>1. Init => StoringInv
  BY DEF Init, StoringInv
<1>2. GateInv /\ StoringInv /\ [Next]_vars => StoringInv'
  <2> SUFFICES ASSUME TypeOK, StoringInv, [Next]_vars PROVE StoringInv'
    BY DEF GateInv
  <2>1. ASSUME NEW b \in Browsers, GateCached(b) \/ GateCaches(b)
        PROVE  StoringInv'
    <3>1. seen[b] \in BOOLEAN
      BY DEF TypeOK
    <3> QED BY <2>1, <3>1, HandleStores DEF GateCached, GateCaches
  <2>2. ASSUME NEW b \in Browsers,
               \/ \E p \in Paths, f \in BOOLEAN : Send(b, p, f)
               \/ GateAsks(b) \/ ConfigRead(b) \/ AcceptRaises(b)
               \/ StoreAccepted(b) \/ StoreAcceptedAt(b) \/ MarkAccepted(b)
               \/ LicensePage(b)
        PROVE  StoringInv'
    BY <2>2 DEF Send, GateAsks, ConfigRead, AcceptRaises, StoreAccepted, StoreAcceptedAt,
               MarkAccepted, LicensePage, Redirect, Answer, StoringInv, TypeOK
  <2>3. CASE Restart
    BY <2>3 DEF Restart, Startup, StoringInv
  <2>4. CASE UNCHANGED vars
    BY <2>4 DEF vars, StoringInv
  <2> QED BY <2>1, <2>2, <2>3, <2>4 DEF Next, ServerStep
<1> QED BY <1>1, <1>2, GateInductive, PTL DEF Spec

\* The redirect matrix has no loops, for any number of browsers: while the cached answer
\* stands, a redirect of _FirstRunGateMiddleware.dispatch or of a route leads closer to a
\* page, which is at most two redirects away.
THEOREM RedirectsEndCorrect == Spec => RedirectsEnd
<1> DEFINE Descends ==
        \A b \in Browsers :
            hops'[b] > hops[b] =>
                Left(path'[b], post'[b], license' = "true", b \in session') <
                Left(path[b], post[b], license' = "true", b \in session)
<1>1. GateInv /\ StoringInv /\ [Next]_vars => [Descends]_vars
  <2> SUFFICES ASSUME TypeOK, StoringInv, Next, NEW c \in Browsers, hops'[c] > hops[c]
               PROVE  Left(path'[c], post'[c], license' = "true", c \in session') <
                      Left(path[c], post[c], license' = "true", c \in session)
    BY DEF GateInv
  <2>0. hops[c] \in 0 .. MaxRedirects
    BY DEF TypeOK
  <2>1. ASSUME NEW b \in Browsers, GateCached(b)
        PROVE  Left(path'[c], post'[c], license' = "true", c \in session') <
               Left(path[c], post[c], license' = "true", c \in session)
    BY <2>1, HandleDescends DEF GateCached
  <2>2. ASSUME NEW b \in Browsers, GateCaches(b)
        PROVE  Left(path'[c], post'[c], license' = "true", c \in session') <
               Left(path[c], post[c], license' = "true", c \in session)
    <3>1. seen[b] \in BOOLEAN /\ (license' = "true") = seen[b]
      BY <2>2 DEF GateCaches, TypeOK
    <3>2. Handle(b, seen[b])
      BY <2>2 DEF GateCaches
    <3> QED BY <3>1, <3>2, HandleDescends
  <2>3. ASSUME NEW b \in Browsers, MarkAccepted(b)
        PROVE  Left(path'[c], post'[c], license' = "true", c \in session') <
               Left(path[c], post[c], license' = "true", c \in session)
    <3>1. "/setup/health" \in Paths
      BY DEF Paths
    <3>2. c = b /\ path'[b] = "/setup/health"
      BY <2>3, <3>1, RedirectFollowed DEF MarkAccepted
    <3>3. path[b] = "/setup/license" /\ license' = "true"
      BY <2>3 DEF MarkAccepted, StoringInv
    <3> QED BY <3>2, <3>3 DEF Left, Api
  <2>7. ASSUME NEW b \in Browsers, LicensePage(b)
        PROVE  Left(path'[c], post'[c], license' = "true", c \in session') <
               Left(path[c], post[c], license' = "true", c \in session)
    <3>1. "/setup/health" \in Paths
      BY DEF Paths
    <3>2. Redirect(b, "/setup/health") /\ license' = "true"
      BY <2>7, AnswerStops DEF LicensePage
    <3>3. c = b /\ path'[b] = "/setup/health"
      BY <3>1, <3>2, RedirectFollowed
    <3>4. path[b] = "/setup/license"
      BY <2>7 DEF LicensePage, StoringInv
    <3> QED BY <3>2, <3>3, <3>4 DEF Left, Api
  <2>4. ASSUME NEW b \in Browsers,
               \/ \E p \in Paths, f \in BOOLEAN : Send(b, p, f)
               \/ GateAsks(b) \/ ConfigRead(b) \/ StoreAccepted(b) \/ StoreAcceptedAt(b)
        PROVE  FALSE
    <3>1. hops' = hops
      BY <2>4 DEF Send, GateAsks, ConfigRead, StoreAccepted, StoreAcceptedAt
    <3> QED BY <2>0, <3>1, GateAssumption
  <2>5. ASSUME NEW b \in Browsers, AcceptRaises(b) PROVE FALSE
    BY <2>5, AnswerStops DEF AcceptRaises
  <2>6. CASE Restart
    BY <2>0, <2>6, GateAssumption DEF Restart, Startup
  <2> QED BY <2>1, <2>2, <2>3, <2>4, <2>5, <2>6, <2>7 DEF Next, ServerStep
<1> QED BY <1>1, GateInductive, StoringInductive, PTL DEF Spec, RedirectsEnd
=============================================================================
