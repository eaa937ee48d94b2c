--------------------------- MODULE CircuitBreaker ---------------------------
(***************************************************************************)
(* AsyncCircuitBreaker (src/src/infra/circuit_breaker.py).  The lock is    *)
(* held around each read or write of the state machine and not during the  *)
(* guarded call, so the machine is the three operations below, atomic,     *)
(* interleaved with any number of calls in progress.  Clients (VTQueries   *)
(* and VTClient) conjoin them with their own steps.                        *)
(*                                                                         *)
(* time.monotonic() - _opened_at is the variable openFor, which stops at   *)
(* ResetTimeout, and _failures stops at FailMax: the code compares them    *)
(* with those bounds and nothing else.                                     *)
(***************************************************************************)
EXTENDS Naturals

CONSTANTS FailMax,       \* fail_max
          ResetTimeout   \* reset_timeout, in ticks

ASSUME BreakerAssumption ==
    /\ FailMax \in Nat \ {0}
    /\ ResetTimeout \in Nat \ {0}

VARIABLES state,         \* _state
          failures,      \* _failures, up to FailMax
          openFor        \* time since _opened_at, up to ResetTimeout

breakerVars == <<state, failures, openFor>>

BreakerTypeOK ==
    /\ state \in {"closed", "open", "half_open"}
    /\ failures \in 0 .. FailMax
    /\ openFor \in 0 .. ResetTimeout

BreakerInit ==
    /\ state = "closed"
    /\ failures = 0
    /\ openFor = 0

\* A tick of the clock; openFor means something in the open state only.
BreakerTick ==
    /\ openFor' = IF state = "open" /\ openFor < ResetTimeout THEN openFor + 1 ELSE openFor
    /\ UNCHANGED <<state, failures>>

\* The state after _check_reset().
CheckedState ==
    IF state = "open" /\ openFor >= ResetTimeout THEN "half_open" ELSE state

\* call() lets the caller through.
BreakerAdmit ==
    /\ CheckedState # "open"
    /\ state' = CheckedState
    /\ UNCHANGED <<failures, openFor>>

\* call() raises CircuitBreakerOpen.
BreakerReject ==
    /\ CheckedState = "open"
    /\ UNCHANGED breakerVars

BreakerSuccess_KeepsState ==
    /\ failures' = 0
    /\ UNCHANGED <<state, openFor>>

\* _on_success(), whatever the state has become since the call was admitted.
BreakerSuccess ==
    /\ state' = "closed"
    /\ failures' = 0
    /\ UNCHANGED openFor

BreakerFailure_ForgetsCount ==
    /\ IF failures + 1 >= FailMax \/ state = "half_open"
       THEN state' = "open" /\ openFor' = 0
       ELSE UNCHANGED <<state, openFor>>
    /\ UNCHANGED failures

\* _on_failure()
BreakerFailure ==
    /\ failures' = IF failures < FailMax THEN failures + 1 ELSE FailMax
    /\ IF failures' >= FailMax \/ state = "half_open"
       THEN state' = "open" /\ openFor' = 0
       ELSE UNCHANGED <<state, openFor>>
=============================================================================
