----------------------------- MODULE WorkQueue ------------------------------
(***************************************************************************)
(* What triage promises about an alert, without dispatcher tasks, worker   *)
(* steps or transactions: alerts are admitted or deferred in the order of  *)
(* their timestamps, taken oldest first, and each one taken ends, if at    *)
(* all, by publishing in one step a verdict that no other alert publishes, *)
(* or by failing.  Nothing leaves 'deferred', 'analyzed' or 'failed'.      *)
(***************************************************************************)
EXTENDS Naturals

CONSTANTS Alerts, Verdicts, NoVerdict

VARIABLES phase,      \* where each alert is
          at,         \* when it was admitted
          published   \* the verdict an analyst sees for it

vars == <<phase, at, published>>

Init ==
    /\ phase = [a \in Alerts |-> "absent"]
    /\ at = [a \in Alerts |-> 0]
    /\ published = [a \in Alerts |-> NoVerdict]

Oldest(a) ==
    /\ phase[a] = "queued"
    /\ \A b \in Alerts : phase[b] = "queued" => at[a] <= at[b]

\* a enters behind everything already there.
Admit(a) ==
    /\ phase[a] = "absent"
    /\ \E p \in {"queued", "deferred"} : phase' = [phase EXCEPT ![a] = p]
    /\ at' \in [Alerts -> Nat]
    /\ \A b \in Alerts \ {a} :
           /\ at'[b] = at[b]
           /\ phase[b] # "absent" => at[b] <= at'[a]
    /\ UNCHANGED published

Take(a) ==
    /\ Oldest(a)
    /\ phase' = [phase EXCEPT ![a] = "analyzing"]
    /\ UNCHANGED <<at, published>>

Publish(a) ==
    /\ phase[a] = "analyzing"
    /\ phase' = [phase EXCEPT ![a] = "analyzed"]
    /\ \E v \in Verdicts :
           /\ \A b \in Alerts : published[b] # v
           /\ published' = [published EXCEPT ![a] = v]
    /\ UNCHANGED at

GiveUp(a) ==
    /\ phase[a] = "analyzing" \/ Oldest(a)
    /\ phase' = [phase EXCEPT ![a] = "failed"]
    /\ UNCHANGED <<at, published>>

Next == \E a \in Alerts : Admit(a) \/ Take(a) \/ Publish(a) \/ GiveUp(a)

Spec == Init /\ [][Next]_vars
=============================================================================
