----------------------------- MODULE RunLifecycle -----------------------------
(***************************************************************************)
(* What the baseline stage promises of a repair run: a bounded number of    *)
(* attempts one after another, at most one of which is decided; no attempt  *)
(* is claimed after that, and the run ends as the decided one says.         *)
(***************************************************************************)
EXTENDS Naturals

CONSTANT MaxAttempts    \* REPAIR_JOB_MAX_ATTEMPTS

VARIABLES
    state,    \* repair_run.state
    claimed,  \* number of attempts
    verdict   \* what the decided attempt says

Verdict == {"passed", "customer_failed", "exhausted"}

Init == state = "created" /\ claimed = 0 /\ verdict = "none"

Claim ==
    /\ state \in {"created", "baseline_running"}
    /\ claimed < MaxAttempts
    /\ verdict = "none"
    /\ state' = "baseline_running"
    /\ claimed' = claimed + 1
    /\ UNCHANGED verdict

Decide(v) ==
    /\ state = "baseline_running"
    /\ claimed > 0
    /\ verdict = "none"
    /\ verdict' = v
    /\ UNCHANGED <<state, claimed>>

(* A run without a verdict can only fail: fenced, or out of attempts.        *)
Finish ==
    /\ state \in {"created", "baseline_running"}
    /\ state = "created" => verdict = "none"
    /\ state' = IF verdict \in {"passed", "customer_failed"}
                THEN "ready_for_investigation" ELSE "infrastructure_failed"
    /\ UNCHANGED <<claimed, verdict>>

Cancel == state = "created" /\ state' = "cancelled" /\ UNCHANGED <<claimed, verdict>>

Next == Claim \/ (\E v \in Verdict : Decide(v)) \/ Finish \/ Cancel

Spec == Init /\ [][Next]_<<state, claimed, verdict>>
=============================================================================
