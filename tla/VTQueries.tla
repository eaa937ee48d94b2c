----------------------------- MODULE VTQueries ------------------------------
(***************************************************************************)
(* The path of live VirusTotal queries: the circuit breaker's call() around*)
(* _fetch(), which first waits in the rate limiter's line and then sends   *)
(* the request (src/src/enrichment/virustotal/client.py).  The worker's    *)
(* lookups run in asyncio.gather, so several are under way at once.  The   *)
(* breaker is asked before the wait and told the outcome after the answer: *)
(* any number of openings, closings and other answers fall in between.     *)
(***************************************************************************)
EXTENDS CircuitBreaker, RateLimiter, SequencesExt

CONSTANT Callers   \* concurrent lookups

VARIABLES up,       \* does the service answer?
          sent,     \* the callers whose request is out
          recent    \* history: recent[a] requests were sent at most a ticks ago

vars == <<breakerVars, limiterVars, up, sent, recent>>

Ages == 0 .. (Period - 1)

TypeOK ==
    /\ BreakerTypeOK
    /\ tokens \in 0 .. Capacity
    /\ line \in Seq(Callers)
    /\ up \in BOOLEAN
    /\ sent \subseteq Callers
    /\ recent \in [Ages -> Nat]

Init ==
    /\ BreakerInit
    /\ LimiterInit
    /\ up \in BOOLEAN
    /\ sent = {}
    /\ recent = [a \in Ages |-> 0]

Waiting(c) == Contains(line, c)

\* call() lets the lookup through and _fetch() enters acquire().
Begin(c) ==
    /\ ~Waiting(c) /\ c \notin sent
    /\ BreakerAdmit
    /\ Join(c)
    /\ UNCHANGED <<up, sent, recent>>

\* The first in line leaves acquire() and sends its request, whatever the breaker's
\* state is by now.
Grant ==
    /\ TakeToken
    /\ sent' = sent \cup {Head(line)}
    /\ recent' = [a \in Ages |-> recent[a] + 1]
    /\ UNCHANGED <<breakerVars, up>>

Succeed(c) ==
    /\ c \in sent /\ up
    /\ BreakerSuccess
    /\ sent' = sent \ {c}
    /\ UNCHANGED <<limiterVars, up, recent>>

Fail(c) ==
    /\ c \in sent /\ ~up
    /\ BreakerFailure
    /\ sent' = sent \ {c}
    /\ UNCHANGED <<limiterVars, up, recent>>

End(c) == Succeed(c) \/ Fail(c)

\* One clock for the bucket and the breaker.
Tick ==
    /\ LimiterTick
    /\ BreakerTick
    /\ recent' = [a \in Ages |-> IF a = 0 THEN 0 ELSE recent[a - 1]]
    /\ UNCHANGED <<up, sent>>

Flip ==
    /\ up' = ~up
    /\ UNCHANGED <<breakerVars, limiterVars, sent, recent>>

Next ==
    \/ Tick
    \/ Flip
    \/ Grant
    \/ \E c \in Callers : Begin(c) \/ End(c)

Spec == Init /\ [][Next]_vars

\* Time passes, the sleeper in acquire() wakes up, requests end (they have timeouts),
\* and each caller has always more work to do: alerts keep coming.  Nothing is assumed
\* of the service.
Fairness ==
    /\ WF_vars(Tick)
    /\ WF_vars(Grant)
    /\ \A c \in Callers : WF_vars(End(c)) /\ SF_vars(Begin(c))

FairSpec == Spec /\ Fairness

-----------------------------------------------------------------------------

\* A closed breaker has seen fewer than FailMax failures since the last success, in
\* whatever order calls from before and after an opening come back.
ClosedBelowMax == state = "closed" => failures < FailMax

\* Recovery: once the service stays up the breaker closes and stays closed, however
\* many calls were waiting or sent and however often it had reopened.
Recovers == <>[]up => <>[](state = "closed")

\* Protection: while the service stays down the breaker keeps opening; it never stays
\* closed for good.
Protects == <>[](~up) => []<>(state = "open")

\* "Max requests allowed in the period" (rate_limiter.py): no Period sees more than Rate
\* requests.  A full bucket and what flows in while it drains exceed it.
RateRespected == recent[Period - 1] <= Rate

\* What the bucket does keep to: over any Period fewer than twice Rate requests go out.
BurstBounded == recent[Period - 1] < 2 * Rate

\* Nobody waits in the limiter for ever, however many lookups join behind and whatever
\* the breaker does.
Served == \A c \in Callers : Waiting(c) ~> ~Waiting(c)
=============================================================================
