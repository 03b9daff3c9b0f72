--------------------------- MODULE BaselineRecovery ---------------------------
(***************************************************************************)
(* The objective of a repair loop: the checks the baseline failed.  It is  *)
(* derived once from the baseline's evidence, frozen with the iteration,   *)
(* and compared with the evidence of every verification.  Beside it stands *)
(* the comparison of all checks with the baseline; the loop decides by the *)
(* first, the human review asks for both.                                  *)
(***************************************************************************)
EXTENDS Naturals, FiniteSets, SequencesExt

\* The phases of both runners in the order they are tried; "test" is always declared.
Checks == <<"typecheck", "build", "test">>

\* What a report must say beside its phases, in the order it is established.
Facts == <<"installed", "deny_all", "credentials_absent", "source_unchanged", "cleaned">>
Isolated == {"installed", "deny_all", "credentials_absent"}
----------------------------------------------------------------------------
\* Both runners: a report of the scripts a profile declares, of what each of them
\* would come to, and of the facts that hold.  The first that does not complete is
\* the last that runs.  A timeout leaves a baseline's source unmeasured; a verification
\* measures it all the same, but a timed out verification has no verdict either way.

Earlier(check) == {Checks[i] : i \in 1..(SelectInSeq(Checks, LAMBDA c : c = check) - 1)}

Phases(declared, fate, holds) ==
    [c \in Range(Checks) |->
        IF c \notin declared THEN "absent"
        ELSE IF ~(Isolated \subseteq holds) THEN "not_started"
        ELSE IF \E e \in Earlier(c) \cap declared : fate[e] # "completed" THEN "not_started"
        ELSE fate[c]]

Report(declared, fate, holds) ==
    LET phases == Phases(declared, fate, holds)
        Ended(status) == {c \in declared : phases[c] = status}
        \* a failed check, else what the runner says of a run that failed none
        execution == IF ~(Isolated \subseteq holds) THEN "infrastructure_failed"
                     ELSE IF Ended("timed_out") # {} THEN "timed_out"
                     ELSE IF "source_unchanged" \notin holds THEN "source_mutated"
                     ELSE IF Ended("failed") # {} THEN CHOOSE c \in Ended("failed") : TRUE
                     ELSE "passed"
    IN  [declared |-> declared, phases |-> phases, execution |-> execution,
         holds |-> IF Ended("timed_out") # {} THEN holds \ {"source_unchanged"} ELSE holds]

\* overallOutcome of a baseline: "source_mutated" is its baseline_failed.
OverallOutcome(report) == IF "cleaned" \in report.holds THEN report.execution ELSE "cleanup_failed"

CustomerFailures == Range(Checks) \cup {"source_mutated"}

\* The install, the isolation and the cleanup of a baseline are what they should be.
TrustworthyComparableBaseline(baseline) ==
    /\ OverallOutcome(baseline) \in CustomerFailures \cup {"passed"}
    /\ Isolated \cup {"cleaned"} \subseteq baseline.holds
----------------------------------------------------------------------------
\* deriveBaselineRecoveryContract and its two readers.

FailedPhase(report, check) == report.phases[check] = "failed"

BaselineIsTrustworthy(baseline) ==
    /\ OverallOutcome(baseline) \in CustomerFailures
    /\ baseline.execution = OverallOutcome(baseline)
    /\ baseline.holds = Range(Facts)

DeriveBaselineRecoveryContract(baseline) ==
    LET required == IF BaselineIsTrustworthy(baseline)
                    THEN SelectSeq(Checks, LAMBDA c : c \in baseline.declared /\ FailedPhase(baseline, c))
                    ELSE <<>>
    IN  [requiredChecks |-> required, measurable |-> required # <<>>,
         baselineFailures |-> [c \in Range(required) |-> baseline.phases[c]]]

\* validateStoredBaselineRecoveryContract does not throw.
ValidateStoredBaselineRecoveryContract(contract) ==
    LET index == [i \in DOMAIN contract.requiredChecks |->
                    SelectInSeq(Checks, LAMBDA c : c = contract.requiredChecks[i])]
    IN  /\ contract.measurable = (contract.requiredChecks # <<>>)
        /\ \A i \in DOMAIN index : index[i] # 0 /\ (i > 1 => index[i] > index[i - 1])
        /\ DOMAIN contract.baselineFailures = Range(contract.requiredChecks)
        /\ \A c \in DOMAIN contract.baselineFailures : contract.baselineFailures[c] = "failed"

\* The verification's contract: the loop reads it, the review asks for it.
VerificationContractFor(evidence) ==
    CASE evidence.execution = "passed" -> "checks_passed"
      [] evidence.execution \in Range(Checks) -> "checks_failed"
      [] OTHER -> "infrastructure_failed"

IsTrustworthyEvidence(evidence) ==
    /\ VerificationContractFor(evidence) \in {"checks_passed", "checks_failed"}
    /\ evidence.holds = Range(Facts)

EvaluateBaselineRecovery(contract, evidence) ==
    LET Status(c) == evidence.phases[c]
        required == Range(contract.requiredChecks)
    IN  IF ~contract.measurable \/ ~IsTrustworthyEvidence(evidence) THEN "not_measured"
        ELSE IF \E c \in required : Status(c) \notin {"completed", "failed"} THEN "not_measured"
        ELSE IF \E c \in required : Status(c) = "failed" THEN "failed"
        ELSE "satisfied"

CompareWithBaseline(baseline, evidence) ==
    LET passed == VerificationContractFor(evidence) = "checks_passed"
    IN  IF \/ ~TrustworthyComparableBaseline(baseline)
           \/ VerificationContractFor(evidence) = "infrastructure_failed" THEN "not_comparable"
        ELSE IF OverallOutcome(baseline) = "passed"
             THEN IF passed THEN "no_regression_detected" ELSE "regression_detected"
             ELSE IF passed THEN "previous_baseline_failure_resolved"
                  ELSE "previous_baseline_failure_still_present"

\* What decideCompletedVerification makes of one completed verification: the
\* loop's state, "again" where it has a round left.
DecideRepairLoopOutcome(baseline, evidence) ==
    LET objective == EvaluateBaselineRecovery(DeriveBaselineRecoveryContract(baseline), evidence)
        regression == CompareWithBaseline(baseline, evidence) = "regression_detected"
    IN  IF ~IsTrustworthyEvidence(evidence) THEN "failed"
        ELSE IF objective = "not_measured" THEN "review_required"
        ELSE IF objective = "satisfied" /\ ~regression THEN "verified"
        ELSE "again"

\* loadEligibleSubject: what the review asks of a verified loop's evidence.
Reviewable(baseline, evidence) ==
    /\ DecideRepairLoopOutcome(baseline, evidence) = "verified"
    /\ VerificationContractFor(evidence) = "checks_passed"
    /\ CompareWithBaseline(baseline, evidence) = "previous_baseline_failure_resolved"
----------------------------------------------------------------------------
\* What is derived can be stored, and requires the one check the baseline stopped at.
ContractNamesTheFailure(baseline) ==
    LET contract == DeriveBaselineRecoveryContract(baseline)
    IN  /\ ValidateStoredBaselineRecoveryContract(contract)
        /\ contract.measurable <=>
             baseline.execution \in Range(Checks) /\ baseline.holds = Range(Facts)
        /\ contract.measurable => contract.requiredChecks = <<baseline.execution>>

\* The loop is verified only if the failed check now completes; a regression is
\* never what decides, since an objective presumes a baseline that failed; and a
\* verified loop cannot be reviewed exactly if a check fails the baseline never ran.
VerdictsAgree(baseline, evidence) ==
    LET contract == DeriveBaselineRecoveryContract(baseline)
        comparison == CompareWithBaseline(baseline, evidence)
    IN  /\ contract.measurable => comparison # "regression_detected"
        /\ DecideRepairLoopOutcome(baseline, evidence) = "verified" =>
             /\ evidence.phases[baseline.execution] = "completed"
             /\ Reviewable(baseline, evidence) <=>
                  \A c \in evidence.declared : evidence.phases[c] = "completed"
             /\ ~Reviewable(baseline, evidence) => baseline.phases[evidence.execution] = "not_started"
===============================================================================
