-------------------------- MODULE VTQueriesProofs ---------------------------
(***************************************************************************)
(* What holds of the VirusTotal query path for any number of callers, any  *)
(* fail_max and reset_timeout of the breaker, any rate and period of the   *)
(* limiter.                                                                *)
(***************************************************************************)
EXTENDS VTQueries, TLAPS

\* The breaker's types and the bound on a closed breaker's count support each other: a
\* failure counts up from a value below FailMax.  The limiter's types and the set of
\* requests sent come along for the composition.
QueryInv == TypeOK /\ ClosedBelowMax

\* The state machine alone keeps its types and the bound, whatever the callers are:
\* each operation of circuit_breaker.py, taken by itself.
LEMMA OperationsPreserve ==
    ASSUME BreakerTypeOK, ClosedBelowMax,
           BreakerTick \/ BreakerAdmit \/ BreakerSuccess \/ BreakerFailure
    PROVE  BreakerTypeOK' /\ ClosedBelowMax'
<1>1. CASE BreakerTick
  BY <1>1, BreakerAssumption DEF BreakerTick, BreakerTypeOK, ClosedBelowMax
<1>2. CASE BreakerAdmit
  BY <1>2 DEF BreakerAdmit, CheckedState, BreakerTypeOK, ClosedBelowMax
<1>3. CASE BreakerSuccess
  BY <1>3, BreakerAssumption DEF BreakerSuccess, BreakerTypeOK, ClosedBelowMax
<1>4. CASE BreakerFailure
  <2>1. failures' \in 0 .. FailMax
    BY <1>4, BreakerAssumption DEF BreakerFailure, BreakerTypeOK
  <2>2. state' \in {"closed", "open", "half_open"} /\ openFor' \in 0 .. ResetTimeout
    BY <1>4, BreakerAssumption DEF BreakerFailure, BreakerTypeOK
  <2>3. ClosedBelowMax'
    BY <1>4, <2>1, BreakerAssumption DEF BreakerFailure, BreakerTypeOK, ClosedBelowMax
  <2> QED BY <2>1, <2>2, <2>3 DEF BreakerTypeOK
<1> QED BY <1>1, <1>2, <1>3, <1>4

\* What the query path keeps beside the breaker: the bucket within its capacity, the
\* line a sequence of callers, and the requests sent.
PathTypeOK ==
    /\ tokens \in 0 .. Capacity
    /\ line \in Seq(Callers)
    /\ up \in BOOLEAN
    /\ sent \subseteq Callers
    /\ recent \in [Ages -> Nat]

\* A full bucket holds a natural number of units (RateLimiter.__init__).
LEMMA CapacityNat == Capacity \in Nat
BY LimiterAssumption DEF Capacity

\* acquire() keeps the bucket between empty and full, also for a rate and a period that
\* do not divide each other: the refill is capped and a grant takes no more than there is.
LEMMA BucketPreserved ==
    ASSUME tokens \in 0 .. Capacity, line \in Seq(Callers),
           LimiterTick \/ TakeToken
    PROVE  tokens' \in 0 .. Capacity /\ line' \in Seq(Callers)
<1>1. CASE LimiterTick
  BY <1>1, CapacityNat, LimiterAssumption DEF LimiterTick, Refilled
<1>2. CASE TakeToken
  <2>1. tokens' \in 0 .. Capacity
    BY <1>2, CapacityNat, LimiterAssumption DEF TakeToken
  <2>2. line' \in Seq(Callers)
    BY <1>2 DEF TakeToken
  <2> QED BY <2>1, <2>2
<1> QED BY <1>1, <1>2

\* Every step of Spec keeps the inductive invariant, with calls from before and after
\* an opening coming back in any order.
THEOREM QueryInductive == Spec => []QueryInv
<1>1. Init => QueryInv
  BY BreakerAssumption, CapacityNat
     DEF Init, BreakerInit, LimiterInit, QueryInv, TypeOK, BreakerTypeOK, ClosedBelowMax
<1>2. QueryInv /\ [Next]_vars => QueryInv'
  <2> SUFFICES ASSUME QueryInv, [Next]_vars
               PROVE  QueryInv'
    OBVIOUS
  <2>0. BreakerTypeOK /\ ClosedBelowMax /\ PathTypeOK
    BY DEF QueryInv, TypeOK, PathTypeOK
  <2>a. SUFFICES (BreakerTypeOK' /\ ClosedBelowMax') /\ PathTypeOK'
    BY DEF QueryInv, TypeOK, PathTypeOK
  <2>1. ASSUME NEW c \in Callers, Begin(c)
        PROVE  (BreakerTypeOK' /\ ClosedBelowMax') /\ PathTypeOK'
    <3>1. BreakerTypeOK' /\ ClosedBelowMax'
      BY <2>0, <2>1, OperationsPreserve DEF Begin
    <3>2. PathTypeOK'
      BY <2>0, <2>1 DEF Begin, Join, PathTypeOK
    <3> QED BY <3>1, <3>2
  <2>2. ASSUME NEW c \in Callers, End(c)
        PROVE  (BreakerTypeOK' /\ ClosedBelowMax') /\ PathTypeOK'
    <3>1. BreakerTypeOK' /\ ClosedBelowMax'
      BY <2>0, <2>2, OperationsPreserve DEF End, Succeed, Fail
    <3>2. PathTypeOK'
      BY <2>0, <2>2 DEF End, Succeed, Fail, PathTypeOK, limiterVars
    <3> QED BY <3>1, <3>2
  <2>3. CASE Grant
    <3>1. BreakerTypeOK' /\ ClosedBelowMax'
      BY <2>0, <2>3 DEF Grant, breakerVars, BreakerTypeOK, ClosedBelowMax
    <3>2. tokens' \in 0 .. Capacity /\ line' \in Seq(Callers)
      BY <2>0, <2>3, BucketPreserved DEF Grant, PathTypeOK
    <3>3. Head(line) \in Callers
      BY <2>0, <2>3 DEF Grant, TakeToken, PathTypeOK
    <3>4. sent' \subseteq Callers /\ up' \in BOOLEAN
      BY <2>0, <2>3, <3>3 DEF Grant, PathTypeOK
    <3>5. recent' \in [Ages -> Nat]
      BY <2>0, <2>3 DEF Grant, PathTypeOK
    <3> QED BY <3>1, <3>2, <3>4, <3>5 DEF PathTypeOK
  <2>4. CASE Tick
    <3>1. BreakerTypeOK' /\ ClosedBelowMax'
      BY <2>0, <2>4, OperationsPreserve DEF Tick
    <3>2. tokens' \in 0 .. Capacity /\ line' \in Seq(Callers)
      BY <2>0, <2>4, BucketPreserved DEF Tick, PathTypeOK
    <3>3. recent' \in [Ages -> Nat]
      BY <2>0, <2>4, LimiterAssumption DEF Tick, PathTypeOK, Ages
    <3> QED BY <2>0, <2>4, <3>1, <3>2, <3>3 DEF Tick, PathTypeOK
  <2>5. CASE Flip
    BY <2>0, <2>5
       DEF Flip, PathTypeOK, BreakerTypeOK, ClosedBelowMax, breakerVars, limiterVars
  <2>6. CASE UNCHANGED vars
    BY <2>0, <2>6
       DEF vars, PathTypeOK, BreakerTypeOK, ClosedBelowMax, breakerVars, limiterVars
  <2> QED BY <2>1, <2>2, <2>3, <2>4, <2>5, <2>6 DEF Next
<1> QED BY <1>1, <1>2, PTL DEF Spec

\* A closed breaker has fewer than fail_max failures on its count: it never lets calls
\* through on a full one (_on_success, _on_failure and _check_reset in circuit_breaker.py).
THEOREM ClosedBelowMaxCorrect == Spec => []ClosedBelowMax
<1>1. QueryInv => ClosedBelowMax
  BY DEF QueryInv
<1> QED BY <1>1, QueryInductive, PTL

\* The bucket never holds less than nothing or more than rate tokens, and everyone in
\* its line or with a request out is a caller (client.py, rate_limiter.py).
THEOREM QueryTypeCorrect == Spec => []TypeOK
<1>1. QueryInv => TypeOK
  BY DEF QueryInv
<1> QED BY <1>1, QueryInductive, PTL

-----------------------------------------------------------------------------

\* The argument for the burst: what the bucket holds and what it gave out in the last
\* a ticks never exceed a full bucket and the inflow of a ticks.
BurstInv ==
    \A a \in Ages : Period * recent[a] + tokens <= Capacity + Rate * a

\* A request is paid for with a whole token, and a tick adds at most Rate units
\* (acquire in rate_limiter.py): BurstInv is inductive.
THEOREM BurstInductive == Spec => []BurstInv
<1>1. Init => BurstInv
  BY CapacityNat, LimiterAssumption DEF Init, LimiterInit, BurstInv, Ages
<1>2. TypeOK /\ BurstInv /\ [Next]_vars => BurstInv'
  <2> SUFFICES ASSUME TypeOK, BurstInv, [Next]_vars,
                      NEW a \in Ages
               PROVE  Period * recent'[a] + tokens' <= Capacity + Rate * a
    BY DEF BurstInv, Ages, Capacity
  <2>0. /\ a \in Nat /\ recent[a] \in Nat /\ tokens \in Nat /\ Capacity \in Nat
        /\ Rate \in Nat /\ Period \in Nat /\ tokens <= Capacity
        /\ Period * recent[a] + tokens <= Capacity + Rate * a
    BY CapacityNat, LimiterAssumption DEF TypeOK, BurstInv, Ages
  <2>1. CASE Grant
    <3>1. recent'[a] = recent[a] + 1 /\ tokens' = tokens - Period
      BY <2>1 DEF Grant, TakeToken
    <3>2. Period * recent'[a] = Period * recent[a] + Period
      BY <2>0, <3>1
    <3>3. Period * recent[a] \in Nat /\ Rate * a \in Nat
      BY <2>0
    <3> QED BY <2>0, <3>1, <3>2, <3>3
  <2>2. CASE Tick
    <3>1. tokens' = Refilled
      BY <2>2 DEF Tick, LimiterTick
    <3>2. tokens' \in Nat /\ tokens' <= Capacity /\ tokens' <= tokens + Rate
      BY <2>0, <3>1 DEF Refilled
    <3>3. CASE a = 0
      <4>1. recent'[a] = 0
        BY <2>2, <3>3 DEF Tick
      <4>2. Period * recent'[a] = 0 /\ Rate * a = 0
        BY <2>0, <3>3, <4>1
      <4> QED BY <2>0, <3>2, <4>2
    <3>4. CASE a # 0
      <4>1. a - 1 \in Ages
        BY <3>4, LimiterAssumption DEF Ages
      <4>2. recent'[a] = recent[a - 1]
        BY <2>2, <3>4 DEF Tick
      <4>3. /\ recent[a - 1] \in Nat
            /\ Period * recent[a - 1] + tokens <= Capacity + Rate * (a - 1)
        BY <4>1 DEF TypeOK, BurstInv
      <4>4. Rate * (a - 1) + Rate = Rate * a
        BY <2>0
      <4>5. Period * recent[a - 1] \in Nat /\ Rate * (a - 1) \in Int /\ Rate * a \in Int
        BY <2>0, <4>3
      <4> QED BY <2>0, <3>2, <4>2, <4>3, <4>4, <4>5
    <3> QED BY <3>3, <3>4
  <2>3. ASSUME NEW c \in Callers, Begin(c) \/ End(c)
        PROVE  UNCHANGED <<recent, tokens>>
    BY <2>3 DEF Begin, Join, End, Succeed, Fail, limiterVars
  <2>4. CASE Flip \/ UNCHANGED vars
    BY <2>0, <2>4 DEF Flip, vars, limiterVars
  <2> QED BY <2>0, <2>1, <2>2, <2>3, <2>4 DEF Next
<1> QED BY <1>1, <1>2, QueryTypeCorrect, PTL DEF Spec

\* For every rate and period, fewer than twice rate requests go out within a period.
THEOREM BurstCorrect == Spec => []BurstBounded
<1>1. TypeOK /\ BurstInv => BurstBounded
  <2> SUFFICES ASSUME TypeOK, BurstInv
               PROVE  BurstBounded
    OBVIOUS
  <2> DEFINE r == recent[Period - 1]
  <2>1. Period - 1 \in Ages /\ Rate \in Nat /\ Period \in Nat /\ Rate >= 1 /\ Period >= 1
    BY LimiterAssumption DEF Ages
  <2>2. /\ r \in Nat /\ tokens \in Nat
        /\ Period * r + tokens <= Rate * Period + Rate * (Period - 1)
    BY <2>1, CapacityNat DEF TypeOK, BurstInv, Capacity
  <2>3. Period * r < 2 * (Rate * Period)
    <3>1. Rate * (Period - 1) = Rate * Period - Rate
      BY <2>1
    <3>2. Period * r \in Nat /\ Rate * Period \in Nat
      BY <2>1, <2>2
    <3> QED BY <2>1, <2>2, <3>1, <3>2
  <2>4. ASSUME r >= 2 * Rate PROVE FALSE
    <3>1. PICK d \in Nat : r = 2 * Rate + d
      <4>1. r - 2 * Rate \in Nat
        BY <2>1, <2>2, <2>4
      <4> QED BY <2>1, <2>2, <4>1
    <3>2. Period * r = 2 * (Rate * Period) + Period * d
      BY <2>1, <3>1
    <3>3. Period * d \in Nat /\ Rate * Period \in Nat
      BY <2>1, <3>1
    <3> QED BY <2>3, <3>2, <3>3
  <2> QED BY <2>1, <2>2, <2>4 DEF BurstBounded
<1> QED BY <1>1, QueryTypeCorrect, BurstInductive, PTL
=============================================================================
