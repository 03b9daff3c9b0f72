----------------------- MODULE CandidateVerification -----------------------
(***************************************************************************)
(* The verifications of one frozen repair candidate: rebuilt in a fresh    *)
(* Sandbox, checked by the customer's own scripts, and compared with the   *)
(* baseline.  The owner asks for a verification; a repair loop that is     *)
(* running asks for the one of its own candidate and keeps the owner out.  *)
(*                                                                         *)
(* A database transaction and a provider call are one action each.  A      *)
(* report is persisted as evidence first and concluded afterwards, in two  *)
(* more transactions; a process that stops between them is reconciled from *)
(* the evidence, and the customer's code is not run again.                 *)
(***************************************************************************)
EXTENDS Integers, Sequences, FiniteSets, SequencesExt

CONSTANTS
    Handler,           \* worker processes a delivery may land on
    MaxVerifications,  \* bound on the verifications of the candidate
    MaxAttempts,       \* REPAIR_JOB_MAX_ATTEMPTS
    RetryLimit,        \* redeliveries pg-boss grants a job
    Allowance,         \* maxVerificationAttempts of the run's grants
    MaxFaults          \* bound on crashes, stalls, errors and changes of visibility

ASSUME ConstantsAssumption ==
    /\ {MaxVerifications, MaxAttempts, RetryLimit, Allowance, MaxFaults} \subseteq Nat
    /\ MaxVerifications > 0
    /\ "free" \notin Handler

VARIABLES candidate, baseline, loop, bound, asking, granted, public,
          rows, attempts, job, handler, faults,
          slot  \* the handler whose reservation is live: accounts are reviewed with a
                \* concurrency of one

scene == <<candidate, baseline, loop, bound, asking, granted, public>>
vars == <<scene, rows, attempts, job, handler, faults, slot>>
----------------------------------------------------------------------------
\* The phases of a verification in its Sandbox, in order; the last one reads the source
\* again after the customer's checks have run.
Phases == <<"sandbox", "runtime", "pristine_source", "install", "network_policy",
            "candidate_application", "checks", "source_integrity">>

Check == {"passed", "failed", "timed_out"}
Contract == {"checks_passed", "checks_failed", "infrastructure_failed"}
Comparison == {"no_regression_detected", "regression_detected", "not_comparable",
               "previous_baseline_failure_resolved",
               "previous_baseline_failure_still_present"}

CompareWithBaseline(contract, outcome) ==
    CASE contract = "infrastructure_failed" -> "not_comparable"
      [] contract = "checks_passed" /\ outcome = "passed" -> "no_regression_detected"
      [] contract = "checks_failed" /\ outcome = "passed" -> "regression_detected"
      [] contract = "checks_passed" /\ outcome = "failed" ->
            "previous_baseline_failure_resolved"
      [] contract = "checks_failed" /\ outcome = "failed" ->
            "previous_baseline_failure_still_present"

\* What the database asks of evidence that carries a verdict.
Trusted(done, clean) == done = Len(Phases) /\ clean

\* (mutant) A failing check is reported before the source is read again.
ReportBeforeIntegrity(done, check, clean, final) ==
    LET contract == IF ~clean \/ done < Len(Phases) - 1 \/ check = "timed_out"
                    THEN "infrastructure_failed"
                    ELSE IF check = "failed" THEN "checks_failed"
                    ELSE IF done = Len(Phases) THEN "checks_passed"
                    ELSE "infrastructure_failed"
    IN  [contract |-> contract, comparison |-> CompareWithBaseline(contract, baseline),
         trusted |-> Trusted(done, clean), final |-> final]

\* The report of a run that completed `done' phases.  A check that fails is thrown only
\* after the source was found unchanged; one that times out is no verdict, and neither is
\* anything after a cleanup that was not confirmed.
Report(done, check, clean, final) ==
    LET contract == IF ~Trusted(done, clean) \/ check = "timed_out"
                    THEN "infrastructure_failed"
                    ELSE IF check = "failed" THEN "checks_failed" ELSE "checks_passed"
    IN  [contract |-> contract, comparison |-> CompareWithBaseline(contract, baseline),
         trusted |-> Trusted(done, clean), final |-> final]

Evidence == [contract : Contract, comparison : Comparison, trusted : BOOLEAN,
             final : BOOLEAN]
NoEvidence == [contract |-> "none"]

Ended == {"completed", "infrastructure_failed"}
Row == [state : {"queued", "verifying"} \cup Ended, by : {"owner", "loop"},
        contract : Contract \cup {"none"}, comparison : Comparison \cup {"none"},
        from : 0..MaxAttempts]

Attempt == [state : {"active", "succeeded", "checks_failed", "retryable_failed",
                     "exhausted", "abandoned"},
            owner : Handler, live : BOOLEAN, named : BOOLEAN, boxes : 0..2, up : BOOLEAN,
            evidence : Evidence \cup {NoEvidence}, cited : BOOLEAN]

Job == [state : {"created", "active", "retry", "completed", "failed"},
        retries : 0..RetryLimit, holder : Handler \cup {"nobody"}]

\* `reports' is what the handler's own run found, `held' whether its attempt was active
\* when it was read.
Local == [at : {"idle", "claim", "recover", "abandon", "prepare", "request", "create",
                "run", "persist", "finalize", "record", "failing"},
          v : 0..MaxVerifications, n : 0..MaxAttempts, reports : Evidence \cup {NoEvidence},
          held : BOOLEAN, final : BOOLEAN, stalled : BOOLEAN]

Idle == [at |-> "idle", v |-> 0, n |-> 0, reports |-> NoEvidence, held |-> FALSE,
         final |-> FALSE, stalled |-> FALSE]

Verification == DOMAIN rows

TypeOK ==
    /\ candidate \in {"none", "owner", "loop"}
    /\ baseline \in {"passed", "failed", "unusable"}
    /\ loop \in {"none", "active", "ended"}
    /\ bound \in 0..MaxVerifications
    /\ {asking, granted, public} \subseteq BOOLEAN
    /\ rows \in Seq(Row) /\ Len(rows) <= MaxVerifications
    /\ attempts \in [Verification -> Seq(Attempt)]
    /\ \A v \in Verification : Len(attempts[v]) <= MaxAttempts
    /\ job \in [Verification -> Job]
    /\ handler \in [Handler -> Local]
    /\ faults \in 0..MaxFaults
    /\ slot \in Handler \cup {"free"}

Init ==
    /\ candidate = "none" /\ loop = "none" /\ bound = 0 /\ asking = FALSE
    /\ baseline \in {"passed", "failed", "unusable"}
    /\ granted \in BOOLEAN /\ public = TRUE
    /\ rows = <<>> /\ attempts = <<>> /\ job = <<>>
    /\ handler = [h \in Handler |-> Idle]
    /\ faults = 0 /\ slot = "free"
----------------------------------------------------------------------------
Fault == faults < MaxFaults /\ faults' = faults + 1

Running(h, phase) == handler[h].at = phase /\ ~handler[h].stalled

Goto(h, phase) == handler' = [handler EXCEPT ![h].at = phase]

V(h) == handler[h].v
Mine(h) == attempts[V(h)][handler[h].n]

\* The attempt still carries the handler's ownership token.
HasToken(h) == Mine(h).state = "active" /\ Mine(h).owner = h

\* (mutant) Ownership is asked of the lease alone.
OwnsLease(h) == Mine(h).state = "active" /\ Mine(h).live

Owns(h) == HasToken(h) /\ Mine(h).live

SetMine(h, a) == attempts' = [attempts EXCEPT ![V(h)][handler[h].n] = a]

Finished(h, state, cites) ==
    SetMine(h, [Mine(h) EXCEPT !.state = state, !.live = FALSE, !.cited = cites])

\* (mutant) Whatever the worker answers, the job is not delivered again.
SettledForGood(v, status) ==
    job' = IF job[v].state # "active" THEN job ELSE [job EXCEPT ![v].state = "completed"]

\* pg-boss settles the job by its identity; a dead letter is not retried.
Settled(v, status) ==
    job' = IF job[v].state # "active" THEN job
           ELSE IF status = "completed" THEN [job EXCEPT ![v].state = "completed"]
           ELSE IF status = "failed" /\ job[v].retries < RetryLimit
                THEN [job EXCEPT ![v].state = "retry", ![v].retries = @ + 1]
                ELSE [job EXCEPT ![v].state = "failed"]

Reply(h, status) == handler' = [handler EXCEPT ![h] = Idle] /\ Settled(V(h), status)
----------------------------------------------------------------------------
\* Where verifications come from.

OwnerFreezes ==
    /\ candidate = "none" /\ candidate' = "owner"
    /\ UNCHANGED <<baseline, loop, bound, asking, granted, public, rows, attempts, job,
                   handler, faults>>

\* Starting a loop does not ask for verifications that are under way.
StartLoop ==
    /\ loop = "none" /\ loop' = "active"
    /\ UNCHANGED <<candidate, baseline, bound, asking, granted, public, rows, attempts,
                   job, handler, faults>>

LoopFreezes ==
    /\ loop = "active" /\ candidate = "none" /\ candidate' = "loop"
    /\ UNCHANGED <<baseline, loop, bound, asking, granted, public, rows, attempts, job,
                   handler, faults>>

Added(by) ==
    /\ rows' = Append(rows, [state |-> "queued", by |-> by, contract |-> "none",
                             comparison |-> "none", from |-> 0])
    /\ attempts' = Append(attempts, <<>>)
    /\ job' = Append(job, [state |-> "created", retries |-> 0, holder |-> "nobody"])

\* A candidate that already has a verification has no unambiguous provenance.
LoopVerifies ==
    /\ loop = "active" /\ candidate = "loop" /\ bound = 0
    /\ IF rows = <<>> THEN Added("loop") /\ bound' = 1 /\ UNCHANGED loop
       ELSE loop' = "ended" /\ UNCHANGED <<rows, attempts, job, bound>>
    /\ UNCHANGED <<candidate, baseline, asking, granted, public, handler, faults>>

\* The loop decides on the result, or ends for a reason of its own; then the owner may
\* verify the candidate of a loop that ended.
EndLoop ==
    /\ loop = "active" /\ loop' = "ended"
    /\ UNCHANGED <<candidate, baseline, bound, asking, granted, public, rows, attempts,
                   job, handler, faults>>

Startable == candidate # "none" /\ public /\ baseline # "unusable" /\ loop # "active"

\* The owner's request is checked first outside the transaction that serves it.
Ask ==
    /\ ~asking /\ Len(rows) < MaxVerifications
    /\ Startable /\ asking' = TRUE
    /\ UNCHANGED <<candidate, baseline, loop, bound, granted, public, rows, attempts, job,
                   handler, faults>>

Under(state) == \E v \in Verification : rows[v].state \in state

\* (mutant) The transaction trusts the check made before it.
StartUnchecked(reverify) ==
    /\ asking /\ asking' = FALSE
    /\ IF Under(IF reverify THEN {"queued", "verifying"} ELSE {"queued", "verifying"} \cup Ended)
       THEN UNCHANGED <<rows, attempts, job>>
       ELSE Len(rows) < MaxVerifications /\ Added("owner")
    /\ UNCHANGED <<candidate, baseline, loop, bound, granted, public, handler, faults>>

\* In the transaction: a loop that took over refuses the request, an existing
\* verification answers it (for a re-verification, only one that is still active).  So may
\* a decision of the owner, the reviewed plan or the source checkpoint.
Start(reverify) ==
    /\ asking /\ asking' = FALSE
    /\ IF \/ loop = "active" \/ ~public
          \/ Under({"queued", "verifying"} \cup IF reverify THEN {} ELSE Ended)
       THEN UNCHANGED <<rows, attempts, job>>
       ELSE \/ Len(rows) < MaxVerifications /\ Added("owner")
            \/ UNCHANGED <<rows, attempts, job>>
    /\ UNCHANGED <<candidate, baseline, loop, bound, granted, public, handler, faults>>

GoPrivate ==
    /\ public /\ public' = FALSE /\ Fault
    /\ UNCHANGED <<candidate, baseline, loop, bound, asking, granted, rows, attempts, job,
                   handler>>
----------------------------------------------------------------------------
\* Claiming a delivery.

Deliver(h) ==
    /\ handler[h].at = "idle"
    /\ \E v \in Verification :
          /\ job[v].state \in {"created", "retry"}
          /\ job' = [job EXCEPT ![v].state = "active", ![v].holder = h]
          /\ handler' = [handler EXCEPT ![h].at = "claim", ![h].v = v]
    /\ UNCHANGED <<scene, rows, attempts, faults>>

Active(v) == {n \in DOMAIN attempts[v] : attempts[v][n].state = "active"}
HasEvidence(a) == a.evidence # NoEvidence

\* Every claim the run has made, of whatever verification.
PriorClaims == FoldLeft(LAMBDA sum, s : sum + Len(s), 0, attempts)

\* Without any grant one claim is still made, for the transport to refuse it.
ClaimAllowed == PriorClaims < IF granted THEN Allowance ELSE 1

Concluded(v) ==
    attempts[v] # <<>> /\ Last(attempts[v]).cited
        /\ Last(attempts[v]).state \in {"succeeded", "checks_failed", "exhausted"}

Spent(v) == Len(attempts[v]) >= MaxAttempts

Failed(v, n) ==
    rows' = [rows EXCEPT ![v].state = "infrastructure_failed", ![v].from = n,
                         ![v].contract = "infrastructure_failed",
                         ![v].comparison = "not_comparable"]

ClaimTerminal(h) ==
    /\ rows[V(h)].state \in Ended
    /\ Reply(h, "completed") /\ UNCHANGED <<rows, attempts>>

ClaimBusy(h) ==
    /\ rows[V(h)].state \notin Ended
    /\ \E n \in Active(V(h)) : attempts[V(h)][n].live
    /\ Reply(h, "failed") /\ UNCHANGED <<rows, attempts>>

\* The attempt whose lease lapsed is taken over under a new token: from its evidence if
\* it left any, from its Sandbox if it named one, and from the start otherwise, unless
\* the authority no longer lets this run do business.
TakeOver(h) ==
    \E n \in Active(V(h)) :
        LET a == attempts[V(h)][n]
        IN  /\ ~a.live
            /\ \/ /\ attempts' = [attempts EXCEPT ![V(h)][n] = [a EXCEPT !.owner = h, !.live = TRUE]]
                  /\ handler' = [handler EXCEPT ![h].n = n, ![h].held = TRUE,
                        ![h].at = IF HasEvidence(a) THEN "finalize"
                                  ELSE IF a.named THEN "recover" ELSE "prepare"]
                  /\ UNCHANGED <<rows, job>>
               \/ /\ ~HasEvidence(a) /\ ~a.named
                  /\ attempts' = [attempts EXCEPT ![V(h)][n] =
                                    [a EXCEPT !.state = "exhausted"]]
                  /\ Failed(V(h), 0)
                  /\ Reply(h, "completed")

Unclaimed(h) == rows[V(h)].state \notin Ended /\ Active(V(h)) = {}

ClaimConcluded(h) ==
    /\ Unclaimed(h) /\ Concluded(V(h))
    /\ handler' = [handler EXCEPT ![h].at = "finalize", ![h].n = Len(attempts[V(h)]),
                                  ![h].held = FALSE]
    /\ UNCHANGED <<rows, attempts, job>>

ClaimSpent(h) ==
    /\ Unclaimed(h) /\ ~Concluded(V(h)) /\ Spent(V(h))
    /\ handler' = [handler EXCEPT ![h].at = "record", ![h].n = 0]
    /\ UNCHANGED <<rows, attempts, job>>

\* The authority may refuse a run for reasons outside its verifications.
ClaimRefused(h) ==
    /\ Unclaimed(h) /\ ~Concluded(V(h)) /\ ~Spent(V(h))
    /\ Failed(V(h), 0)
    /\ Reply(h, "completed") /\ UNCHANGED attempts

ClaimAttempt(h) ==
    /\ Unclaimed(h) /\ ~Concluded(V(h)) /\ ~Spent(V(h))
    /\ ClaimAllowed
    /\ rows' = [rows EXCEPT ![V(h)].state = "verifying"]
    /\ attempts' = [attempts EXCEPT ![V(h)] = Append(@,
            [state |-> "active", owner |-> h, live |-> TRUE, named |-> FALSE, boxes |-> 0,
             up |-> FALSE, evidence |-> NoEvidence, cited |-> FALSE])]
    /\ handler' = [handler EXCEPT ![h].at = "prepare", ![h].held = TRUE,
                                  ![h].n = Len(attempts[V(h)]) + 1]
    /\ UNCHANGED job

\* Any error in the claim is answered as a verification that does not exist.
Claim(h) ==
    /\ Running(h, "claim")
    /\ \/ /\ \/ ClaimTerminal(h) \/ ClaimBusy(h) \/ TakeOver(h) \/ ClaimConcluded(h)
             \/ ClaimSpent(h) \/ ClaimRefused(h) \/ ClaimAttempt(h)
          /\ UNCHANGED faults
       \/ Fault /\ Reply(h, "deadletter") /\ UNCHANGED <<rows, attempts>>
    /\ UNCHANGED scene
----------------------------------------------------------------------------
\* A Sandbox that outlived its worker.

\* Cleanup is asked of the provider under a reservation of its own; until it is confirmed
\* the attempt stays active.
Recover(h) ==
    /\ Running(h, "recover")
    /\ \/ ~public /\ Reply(h, "deadletter") /\ UNCHANGED attempts
       \/ public /\ Reply(h, "failed") /\ UNCHANGED attempts
       \/ /\ public /\ slot = "free"
          /\ SetMine(h, [Mine(h) EXCEPT !.up = FALSE])
          /\ Goto(h, "abandon") /\ UNCHANGED job
    /\ UNCHANGED <<scene, rows, faults>>

Abandon(h) ==
    /\ Running(h, "abandon")
    /\ IF Owns(h) THEN Finished(h, "abandoned", FALSE) ELSE UNCHANGED attempts
    /\ Reply(h, "failed")
    /\ UNCHANGED <<scene, rows, faults>>
----------------------------------------------------------------------------
\* An attempt.

Throw(h, final) ==
    handler' = [handler EXCEPT ![h].at = "failing", ![h].final = final,
                               ![h].reports = NoEvidence]

\* Authority, baseline, artifact and source are read before a Sandbox is asked for; only
\* an invalid artifact is final.
Prepare(h) ==
    /\ Running(h, "prepare")
    /\ \/ ~public /\ Reply(h, "deadletter")
       \/ UNCHANGED job /\ (Throw(h, TRUE) \/ Throw(h, FALSE))
       \/ baseline # "unusable" /\ Goto(h, "request") /\ UNCHANGED job
    /\ UNCHANGED <<scene, rows, attempts, faults>>

Reports(h, report) ==
    handler' = [handler EXCEPT ![h].at = "persist", ![h].reports = report]

\* A reservation is taken of the authority, and the name stored by the owner of a live
\* lease, before the Sandbox is created.  A run refused by the authority, or by its own
\* row, ends here with a report.
Request(h) ==
    /\ Running(h, "request")
    /\ \/ /\ Owns(h) /\ slot = "free"
          /\ SetMine(h, [Mine(h) EXCEPT !.named = TRUE])
          /\ slot' = h /\ Goto(h, "create")
       \/ /\ UNCHANGED <<attempts, slot>>
          /\ \E final \in BOOLEAN : Reports(h, Report(0, "passed", FALSE, final))
    /\ UNCHANGED <<scene, rows, job, faults>>

Released(h) == slot' = IF slot = h THEN "free" ELSE slot

\* The request goes out under a live reservation only.  A creation whose answer was lost
\* may leave a Sandbox behind.
Create(h) ==
    /\ Running(h, "create")
    /\ \/ /\ slot = h
          /\ SetMine(h, [Mine(h) EXCEPT !.boxes = @ + 1, !.up = TRUE])
          /\ Goto(h, "run") /\ UNCHANGED slot
       \/ /\ \/ UNCHANGED attempts
             \/ slot = h /\ SetMine(h, [Mine(h) EXCEPT !.boxes = @ + 1, !.up = TRUE])
          /\ \E final \in BOOLEAN : Reports(h, Report(0, "passed", FALSE, final))
          /\ Released(h)
    /\ UNCHANGED <<scene, rows, job, faults>>

\* The phases run until one fails; then the Sandbox is cleaned up, and an owner that
\* cannot record the cleanup has no verdict.
Run(h) ==
    /\ Running(h, "run")
    /\ \E done \in 1..Len(Phases), check \in Check, clean \in BOOLEAN, final \in BOOLEAN :
          /\ done < Len(Phases) - 1 => check = "passed"
          /\ final => done < Len(Phases)
          /\ (Owns(h) /\ slot = h) \/ done = 1
          /\ SetMine(h, [Mine(h) EXCEPT !.up = ~clean])
          /\ Reports(h, Report(done, check, clean, final))
    /\ Released(h)
    /\ UNCHANGED <<scene, rows, job, faults>>

\* The database refuses a verdict whose evidence is not trusted.
Admissible(e) == e.contract = "infrastructure_failed" \/ e.trusted

\* Evidence is inserted for the token, whether or not the lease still lives.
Persist(h) ==
    /\ Running(h, "persist")
    /\ \/ /\ HasToken(h) /\ Admissible(handler[h].reports)
          /\ SetMine(h, [Mine(h) EXCEPT !.evidence = handler[h].reports])
          /\ handler' = [handler EXCEPT ![h].at = "finalize", ![h].reports = NoEvidence]
          /\ UNCHANGED faults
       \/ /\ ~HasToken(h) \/ ~Admissible(handler[h].reports)
          /\ Throw(h, FALSE) /\ UNCHANGED <<attempts, faults>>
       \/ Fault /\ Throw(h, FALSE) /\ UNCHANGED attempts
    /\ UNCHANGED <<scene, rows, job>>

Exhausted(h, final) == final \/ handler[h].n >= MaxAttempts

\* The attempt is concluded as its evidence says, unless it already was.
Conclude(h) ==
    LET e == Mine(h).evidence
        verdict == e.contract # "infrastructure_failed"
    IN  \/ ~handler[h].held /\ Goto(h, "record") /\ UNCHANGED <<attempts, job>>
        \/ /\ handler[h].held /\ Owns(h)
           /\ Finished(h, IF e.contract = "checks_passed" THEN "succeeded"
                          ELSE IF verdict THEN "checks_failed"
                          ELSE IF Exhausted(h, e.final) THEN "exhausted"
                          ELSE "retryable_failed", TRUE)
           /\ IF verdict \/ Exhausted(h, e.final) THEN Goto(h, "record") /\ UNCHANGED job
              ELSE Reply(h, "failed")
        \/ handler[h].held /\ ~Owns(h) /\ Reply(h, "failed") /\ UNCHANGED attempts

Finalize(h) ==
    /\ Running(h, "finalize")
    /\ \/ Conclude(h) /\ UNCHANGED faults
       \/ Fault /\ Reply(h, "failed") /\ UNCHANGED attempts
    /\ UNCHANGED <<scene, rows>>

\* (mutant) A second conclusion overwrites the first.
RecordAgain(v, n) ==
    LET e == IF n = 0 THEN NoEvidence ELSE attempts[v][n].evidence
    IN  IF n # 0 /\ HasEvidence(attempts[v][n]) /\ e.contract # "infrastructure_failed"
        THEN rows' = [rows EXCEPT ![v].state = "completed", ![v].from = n,
                        ![v].contract = "checks_passed", ![v].comparison = e.comparison]
        ELSE Failed(v, n)

\* The row follows in a transaction of its own, once.
RecordRow(v, n) ==
    LET e == IF n = 0 THEN NoEvidence ELSE attempts[v][n].evidence
    IN  IF rows[v].state # "verifying" THEN UNCHANGED rows
        ELSE IF e # NoEvidence /\ e.contract # "infrastructure_failed"
        THEN rows' = [rows EXCEPT ![v].state = "completed", ![v].from = n,
                        ![v].contract = e.contract, ![v].comparison = e.comparison]
        ELSE Failed(v, n)

Record(h) ==
    /\ Running(h, "record")
    /\ \/ /\ RecordRow(V(h), handler[h].n)
          /\ Reply(h, "completed") /\ UNCHANGED faults
       \/ Fault /\ Reply(h, "failed") /\ UNCHANGED rows
    /\ UNCHANGED <<scene, attempts>>

\* An error before there is evidence ends the attempt; after it, the lease runs out and
\* the next delivery reconciles.
Fail(h) ==
    /\ Running(h, "failing")
    /\ \/ /\ ~HasEvidence(Mine(h)) /\ Owns(h) /\ UNCHANGED faults
          /\ Finished(h, IF Exhausted(h, handler[h].final) THEN "exhausted"
                         ELSE "retryable_failed", FALSE)
          /\ IF Exhausted(h, handler[h].final) THEN Goto(h, "record") /\ UNCHANGED job
             ELSE Reply(h, "failed")
       \/ /\ HasEvidence(Mine(h)) \/ ~Owns(h)
          /\ Reply(h, "failed") /\ UNCHANGED <<attempts, faults>>
       \/ Fault /\ Reply(h, "failed") /\ UNCHANGED attempts
    /\ UNCHANGED <<scene, rows>>
----------------------------------------------------------------------------
\* Time, loss and the queue.

Stall(h) ==
    /\ handler[h].at # "idle" /\ ~handler[h].stalled
    /\ Fault
    /\ handler' = [handler EXCEPT ![h].stalled = TRUE]
    /\ UNCHANGED <<scene, rows, attempts, job>>

Resume(h) ==
    /\ handler[h].stalled
    /\ handler' = [handler EXCEPT ![h].stalled = FALSE]
    /\ UNCHANGED <<scene, rows, attempts, job, faults>>

Crash(h) ==
    /\ handler[h].at # "idle"
    /\ Fault
    /\ handler' = [handler EXCEPT ![h] = Idle]
    /\ UNCHANGED <<scene, rows, attempts, job>>

\* Only an attempt that is being executed has a heartbeat.
Renewed(v, n) ==
    \E h \in Handler :
        /\ handler[h].v = v /\ handler[h].n = n /\ ~handler[h].stalled
        /\ handler[h].at \in {"prepare", "request", "create", "run", "persist"}
        /\ attempts[v][n].owner = h

Lapse ==
    /\ \E v \in Verification : \E n \in Active(v) :
          /\ attempts[v][n].live /\ ~Renewed(v, n)
          /\ attempts' = [attempts EXCEPT ![v][n].live = FALSE]
    /\ UNCHANGED <<scene, rows, job, handler, faults>>

\* A reservation that is not renewed lapses like an attempt.
ReservationLapses ==
    /\ slot # "free"
    /\ handler[slot].at \notin {"create", "run"} \/ handler[slot].stalled
    /\ slot' = "free"
    /\ UNCHANGED <<scene, rows, attempts, job, handler, faults>>

\* pg-boss misses the heartbeats of the holder and redelivers.
Expire ==
    /\ \E v \in Verification :
          /\ job[v].state = "active"
          /\ LET k == handler[job[v].holder] IN k.at = "idle" \/ k.stalled \/ k.v # v
          /\ Settled(v, "failed")
    /\ UNCHANGED <<scene, rows, attempts, handler, faults>>
----------------------------------------------------------------------------
Step(h) ==
    \/ Request(h) \/ Create(h) \/ Run(h)
    \/ /\ \/ Claim(h) \/ Recover(h) \/ Abandon(h) \/ Prepare(h) \/ Persist(h)
          \/ Finalize(h) \/ Record(h) \/ Fail(h)
       /\ UNCHANGED slot

Around ==
    \/ OwnerFreezes \/ StartLoop \/ LoopFreezes \/ LoopVerifies \/ EndLoop
    \/ Ask \/ GoPrivate \/ Lapse \/ Expire
    \/ \E reverify \in BOOLEAN : Start(reverify)
    \/ \E h \in Handler : Deliver(h) \/ Stall(h) \/ Resume(h) \/ Crash(h)

Next == (Around /\ UNCHANGED slot) \/ ReservationLapses \/ \E h \in Handler : Step(h)

Spec == Init /\ [][Next]_vars

\* The database clock passes a lease, the queue polls and expires, a process that is not
\* stalled goes on, and a stalled one resumes.
Fairness ==
    /\ WF_vars(Lapse /\ UNCHANGED slot) /\ WF_vars(Expire /\ UNCHANGED slot)
    /\ WF_vars(ReservationLapses)
    /\ WF_vars(\E h \in Handler : Deliver(h) /\ UNCHANGED slot)
    /\ \A h \in Handler : WF_vars(Step(h)) /\ WF_vars(Resume(h) /\ UNCHANGED slot)

FairSpec == Spec /\ Fairness
----------------------------------------------------------------------------
\* A completed verification says what the evidence of one of its attempts says, compared
\* with the baseline; that attempt succeeded or failed its checks as its owner, its
\* Sandbox is gone, and no other attempt of the verification reached a verdict.
VerdictIsEvidenced ==
    \A v \in Verification : rows[v].state = "completed" =>
        LET a == attempts[v][rows[v].from]
        IN  /\ a.evidence.contract = rows[v].contract /\ a.evidence.trusted /\ ~a.up
            /\ a.state = IF rows[v].contract = "checks_passed" THEN "succeeded"
                         ELSE "checks_failed"
            /\ rows[v].comparison = CompareWithBaseline(rows[v].contract, baseline)
            /\ \A n \in DOMAIN attempts[v] :
                  n = rows[v].from \/ attempts[v][n].evidence.contract
                                        \in {"none", "infrastructure_failed"}

\* The customer's code runs in one Sandbox per attempt, however often the attempt is
\* taken over; and once evidence with a verdict exists, no Sandbox of that verification
\* is created again.
CodeRunsOnce ==
    [][\A v \in Verification : \A n \in DOMAIN attempts[v] :
          attempts'[v][n].boxes # attempts[v][n].boxes =>
             /\ attempts[v][n].boxes = 0
             /\ \A k \in DOMAIN attempts[v] :
                   attempts[v][k].evidence.contract \in {"none", "infrastructure_failed"}]_vars

\* Whatever way a run ends, its report is one the database accepts as evidence: no verdict
\* is reached that cannot be persisted.
ReportIsAdmissible ==
    \A h \in Handler : handler[h].reports # NoEvidence => Admissible(handler[h].reports)

\* The rows have their types, and what a handler reports can become one.
Consistent == TypeOK /\ ReportIsAdmissible

\* While a loop is active nothing but its own verification is added, and that one is the
\* first of its candidate: the owner's request, checked before the loop took over, is
\* refused in its transaction.
LoopHoldsVerification ==
    [][loop = "active" /\ Len(rows') > Len(rows) => bound' = 1 /\ rows = <<>>]_vars

\* A verification that was asked for ends, or its deliveries are used up.
EndsOrSpent ==
    \A v \in 1..MaxVerifications :
        (v \in Verification) ~>
            (v \in Verification /\ (rows[v].state \in Ended \/ job[v].state = "failed"))
============================================================================
