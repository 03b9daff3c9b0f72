----------------------------- MODULE BoundedLoop -----------------------------
(***************************************************************************)
(* What a repair loop promises: a bounded number of decisions, made one     *)
(* after another and never revised; only a repairable failure before the    *)
(* last round lets it go on, and any other decision ends it accordingly.     *)
(***************************************************************************)
EXTENDS Naturals, Sequences

CONSTANT MaxIterations

VARIABLES
    state,    \* repair_loop.state
    decided   \* the decisions, in the order of the iterations

Outcome ==
    [verified |-> "verified", abstained |-> "abstained",
     verification_non_repairable |-> "review_required",
     repairable_failure |-> "limit_reached",
     generation_failed |-> "failed", infrastructure_failed |-> "failed",
     evidence_invalid |-> "failed"]

Round == Len(decided) + 1

Init == state = "queued" /\ decided = << >>

Start == state = "queued" /\ state' = "running" /\ UNCHANGED decided

GoOn ==
    /\ state = "running"
    /\ Round < MaxIterations
    /\ decided' = Append(decided, "repairable_failure")
    /\ UNCHANGED state

(* A loop that has not started can only fail.                                *)
End(d) ==
    /\ state = "running" \/ (state = "queued" /\ d \in {"infrastructure_failed", "evidence_invalid"})
    /\ d = "repairable_failure" => Round = MaxIterations
    /\ decided' = Append(decided, d)
    /\ state' = Outcome[d]

Next == Start \/ GoOn \/ \E d \in DOMAIN Outcome : End(d)

Spec == Init /\ [][Next]_<<state, decided>>
=============================================================================
