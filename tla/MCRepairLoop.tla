----------------------------- MODULE MCRepairLoop -----------------------------
(* Instances of RepairLoop for TLC, and the loop's objective over all reports. *)
EXTENDS RepairLoop, TLC

CONSTANTS h1, h2, w1, w2, w3

Interchangeable == Permutations(Handler) \cup Permutations(Wake)

Objective == INSTANCE BaselineRecovery

Fate == [{"typecheck", "build", "test"} -> {"completed", "failed", "timed_out"}]
Declared == {d \in SUBSET {"typecheck", "build", "test"} : "test" \in d}
\* Every fact holds, or all but one.
Held == LET facts == Objective!Range(Objective!Facts) IN {facts} \cup {facts \ {f} : f \in facts}
ReportsOf(d) == {Objective!Report(d, fate, held) : fate \in Fate, held \in Held}

ASSUME ObjectiveIsTheFailure ==
    \A d \in Declared : \A baseline \in ReportsOf(d) :
        /\ Objective!ContractNamesTheFailure(baseline)
        /\ \A evidence \in ReportsOf(d) : Objective!VerdictsAgree(baseline, evidence)
\* A loop may be verified and yet not be reviewable.
ASSUME SomeAreNotReviewable ==
    \E d \in Declared : \E baseline, evidence \in ReportsOf(d) :
        /\ Objective!DecideRepairLoopOutcome(baseline, evidence) = "verified"
        /\ ~Objective!Reviewable(baseline, evidence)
=============================================================================
