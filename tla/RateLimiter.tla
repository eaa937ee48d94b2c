---------------------------- MODULE RateLimiter -----------------------------
(***************************************************************************)
(* RateLimiter (src/src/enrichment/virustotal/rate_limiter.py), the token  *)
(* bucket every VirusTotal query passes.  A token is Period units, so that *)
(* the bucket gains exactly Rate units per tick and stays an integer; the  *)
(* code refills lazily from the elapsed time, which comes to the same.     *)
(* The lock is first come first served and its holder keeps it while it    *)
(* sleeps: the head of the line is the only caller that can be granted.    *)
(* VTQueries conjoins these operations with its own steps.                 *)
(***************************************************************************)
EXTENDS Naturals, Sequences

CONSTANTS Rate,      \* rate
          Period     \* period, in ticks

ASSUME LimiterAssumption == Rate \in Nat \ {0} /\ Period \in Nat \ {0}

VARIABLES tokens,    \* _tokens, in units
          line       \* the callers in acquire(), in the order of the lock

limiterVars == <<tokens, line>>

Capacity == Rate * Period

LimiterInit ==
    /\ tokens = Capacity
    /\ line = <<>>

Refilled_NoCap == tokens + Rate

Refilled_WholeTokens == tokens + (Rate \div Period) * Period

Refilled == IF tokens + Rate > Capacity THEN Capacity ELSE tokens + Rate

LimiterTick ==
    /\ tokens' = Refilled
    /\ UNCHANGED line

\* acquire() waits for the lock.
Join(c) ==
    /\ line' = Append(line, c)
    /\ UNCHANGED tokens

\* The holder of the lock finds a whole token and returns.
TakeToken ==
    /\ line # <<>>
    /\ tokens >= Period
    /\ tokens' = tokens - Period
    /\ line' = Tail(line)
=============================================================================
