------------------------------ MODULE RepairRun ------------------------------
(***************************************************************************)
(* The baseline stage of one repair run: its PgBoss job, the handlers that  *)
(* PgBoss starts for it, the attempts they claim and the Sandboxes they     *)
(* create.  A handler is one invocation of processRepairJob; PgBoss may      *)
(* start a second one while the first still runs, because the first one's   *)
(* heartbeat stopped or its time was up.                                    *)
(*                                                                         *)
(* One action is one transaction, or one exchange with the Sandbox provider *)
(* through the permit of ExternalExecution.  Between two of them everything *)
(* may happen: the lease of the attempt lapses, another handler recovers    *)
(* the attempt, the process stops.                                          *)
(***************************************************************************)
EXTENDS Naturals, Sequences, FiniteSets

CONSTANTS
    Handler,      \* handlers that may run at once
    MaxAttempts,  \* REPAIR_JOB_MAX_ATTEMPTS
    RetryLimit,   \* REPAIR_QUEUE_OPTIONS.retryLimit
    MaxLosses,    \* bound on handlers that die or end in a database error
    MaxStalls,    \* bound on leases and jobs taken from living handlers
    MaxRestarts   \* bound on worker starts that retry the failed job

ASSUME RunAssumption ==
    /\ MaxAttempts \in Nat \ {0}
    /\ RetryLimit \in Nat
    /\ MaxLosses \in Nat /\ MaxStalls \in Nat /\ MaxRestarts \in Nat

VARIABLES
    run,       \* the repair_run row
    attempt,   \* the repair_run_attempt rows, by attempt number
    evidence,  \* repository_baseline rows, by the attempt that expects them
    sandbox,   \* attempts whose Sandbox exists at the provider
    fenced,    \* assertRunBusinessAllowed refuses the run
    job,       \* the PgBoss job
    handler,   \* local state of each handler
    faults     \* crashes, stalls, restarts and database errors so far

vars == <<run, attempt, evidence, sandbox, fenced, job, handler, faults>>

(* What an execution can come to, the retryable and the terminal being       *)
(* infrastructure failures (TERMINAL_EXECUTION_CODES).                       *)
Outcome == {"passed", "customer_failed", "retryable", "terminal"}
Infrastructure == {"retryable", "terminal"}
Answer == {"completed", "failed", "deadletter"}

RunState == {"created", "baseline_running", "ready_for_investigation",
             "infrastructure_failed", "cancelled"}
DecidedState == {"succeeded", "customer_failed", "exhausted"}
AttemptState == DecidedState \cup {"active", "retryable_failed", "abandoned"}
Phase == {"idle", "received", "checking", "starting", "requested", "created", "cleaning",
          "reporting", "inserting", "finishing", "recovering", "abandoning",
          "transition", "reply"}

Run == [state : RunState,
        baseline : Nat,
        classification : {"none", "customer_baseline_failure",
                          "infrastructure_failure", "cancelled"}]
Attempt == [state : AttemptState, token : Nat, live : BOOLEAN, named : BOOLEAN]
Job == [state : {"queued", "active", "failed", "completed"},
        holder : Handler \cup {"none"},
        retries : Nat,
        reviewed : BOOLEAN]
Local == [phase : Phase, attempt : Nat, token : Nat,
          result : Outcome \cup Answer \cup {"none"}]
Idle == [phase |-> "idle", attempt |-> 0, token |-> 0, result |-> "none"]

(* The run is reviewed: the one-shot service handles its job.               *)
OneShot == job.reviewed

Open == run.state \in {"created", "baseline_running"}
Latest == Len(attempt)
Active == {n \in DOMAIN attempt : attempt[n].state = "active"}
Decided(n) == n \in DOMAIN attempt /\ attempt[n].state \in DecidedState

-----------------------------------------------------------------------------
Init ==
    /\ run = [state |-> "created", baseline |-> 0, classification |-> "none"]
    /\ attempt = << >>
    /\ evidence = [n \in 1 .. MaxAttempts |-> "none"]
    /\ sandbox = {}
    /\ fenced = FALSE
    /\ job \in [state : {"queued"}, holder : {"none"}, retries : {RetryLimit},
                reviewed : BOOLEAN]
    /\ handler = [h \in Handler |-> Idle]
    /\ faults = [crashes |-> 0, stalls |-> 0, restarts |-> 0, errors |-> 0]

-----------------------------------------------------------------------------
(* Steps of a handler                                                      *)

In(h, phase) == handler[h].phase = phase
Number(h) == handler[h].attempt
Result(h) == handler[h].result

Goto(h, phase, result) ==
    handler' = [handler EXCEPT ![h].phase = phase, ![h].result = result]
Reply(h, answer) == Goto(h, "reply", answer)
Hold(h, n, token, phase) ==
    handler' = [handler EXCEPT ![h] =
                  [phase |-> phase, attempt |-> n, token |-> token, result |-> "none"]]

(* The condition of renewAttempt, updateSandboxFacts and finishAttempt.     *)
Owns(h) ==
    LET a == attempt[Number(h)]
    IN  a.state = "active" /\ a.token = handler[h].token /\ a.live

Spare == faults.crashes + faults.errors < MaxLosses
Error == Spare /\ faults' = [faults EXCEPT !.errors = @ + 1]

(* A reviewed job is claimed for a run that nobody has touched.              *)
Deliver(h) ==
    /\ job.state = "queued"
    /\ In(h, "idle")
    /\ OneShot => run.state = "created" /\ attempt = << >>
    /\ job' = [job EXCEPT !.state = "active", !.holder = h]
    /\ Goto(h, "received", "none")
    /\ UNCHANGED <<run, attempt, evidence, sandbox, fenced, faults>>

(* processRepairJob before the claim: the repository is private by now, or   *)
(* the job is not for this service.                                         *)
Refuse(h) ==
    /\ In(h, "received")
    /\ Reply(h, "deadletter")
    /\ UNCHANGED <<run, attempt, evidence, sandbox, fenced, job, faults>>

-----------------------------------------------------------------------------
(* claimAttempt                                                            *)

ClaimTerminal(h) ==
    /\ ~Open
    /\ Reply(h, "completed")
    /\ UNCHANGED <<run, attempt>>

(* Mutant of ClaimBusy: nothing to do is taken for done.                    *)
ClaimBusyDone(h) ==
    /\ Open
    /\ \E n \in Active : attempt[n].live
    /\ Reply(h, "completed")
    /\ UNCHANGED <<run, attempt>>
ClaimBusy(h) ==
    /\ Open
    /\ \E n \in Active : attempt[n].live
    /\ Reply(h, "failed")
    /\ UNCHANGED <<run, attempt>>

ClaimStale(h) ==
    /\ Open
    /\ \E n \in Active :
        /\ ~attempt[n].live
        /\ attempt' = [attempt EXCEPT ![n].token = @ + 1, ![n].live = TRUE]
        /\ Hold(h, n, attempt[n].token + 1, "recovering")
    /\ UNCHANGED run

(* reconcileCompletedAttempt: the evidence must say what the attempt says.  *)
Verdict(n) ==
    CASE attempt[n].state = "succeeded" -> "passed"
      [] attempt[n].state = "customer_failed" -> "customer_failed"
      [] OTHER -> "terminal"
Reconciled(n) == IF evidence[n] = Verdict(n) THEN Verdict(n) ELSE "terminal"

(* Mutant of Settled: an exhausted attempt is like any other failed one.    *)
SettledUnlessExhausted == Decided(Latest) /\ attempt[Latest].state # "exhausted"
Settled == Decided(Latest)

(* The latest attempt is decided, or there may be no other: the run can only *)
(* be transitioned.                                                         *)
ClaimSpent(h) ==
    /\ Open /\ Active = {}
    /\ Settled \/ Latest >= MaxAttempts
    /\ handler' = [handler EXCEPT ![h] =
                     [phase |-> "transition", attempt |-> Latest, token |-> 0,
                      result |-> Reconciled(Latest)]]
    /\ UNCHANGED <<run, attempt>>

(* Mutant of Claimable: the latest attempt is not looked at.                *)
ClaimableUndecided == Open /\ Active = {}
Claimable == Open /\ Active = {} /\ ~Settled /\ Latest < MaxAttempts

(* The fence is asserted in the same transaction; its refusal writes the     *)
(* run directly, without transitionRepairRun.                               *)
ClaimFenced(h) ==
    /\ Claimable /\ fenced
    /\ run' = [run EXCEPT !.state = "infrastructure_failed"]
    /\ Reply(h, "completed")
    /\ UNCHANGED attempt

ClaimNew(h) ==
    /\ Claimable /\ ~fenced
    /\ run' = [run EXCEPT !.state = "baseline_running"]
    /\ attempt' = Append(attempt, [state |-> "active", token |-> 1,
                                   live |-> TRUE, named |-> FALSE])
    /\ Hold(h, Latest + 1, 1, "checking")

Claim(h) ==
    /\ In(h, "received")
    /\ \/ ClaimTerminal(h)
       \/ ClaimBusy(h)
       \/ ClaimStale(h)
       \/ ClaimSpent(h)
       \/ ClaimFenced(h)
       \/ ClaimNew(h)
    /\ UNCHANGED <<evidence, sandbox, fenced, job, faults>>

-----------------------------------------------------------------------------
(* finishAttempt, and what the caller does with its answer                  *)

(* Mutant of FinalState: a customer failure is taken for a pass.             *)
FinalStatePassing(n, result) ==
    CASE result \in {"passed", "customer_failed"} -> "succeeded"
      [] OTHER -> IF OneShot \/ n >= MaxAttempts \/ result = "terminal"
                  THEN "exhausted" ELSE "retryable_failed"
(* The new attempt state for a result, as finalizeFromEvidence and the      *)
(* catch of executeAttempt choose it.                                       *)
FinalState(n, result) ==
    CASE result = "passed" -> "succeeded"
      [] result = "customer_failed" -> "customer_failed"
      [] OTHER -> IF OneShot \/ n >= MaxAttempts \/ result = "terminal"
                  THEN "exhausted" ELSE "retryable_failed"

FinishAs(h, state, result) ==
    IF Owns(h)
    THEN /\ attempt' = [attempt EXCEPT ![Number(h)].state = state,
                                       ![Number(h)].live = FALSE]
         /\ IF state \in DecidedState THEN Goto(h, "transition", result)
                                      ELSE Reply(h, "failed")
    ELSE Reply(h, "failed") /\ UNCHANGED attempt

Finish(h) ==
    /\ In(h, "finishing")
    /\ FinishAs(h, FinalState(Number(h), Result(h)), Result(h))
    /\ UNCHANGED <<run, evidence, sandbox, fenced, job, faults>>

(* transitionRepairRun                                                     *)
Transition(h) ==
    /\ In(h, "transition")
    /\ IF run.state = "baseline_running"
       THEN /\ run' = IF Result(h) \in Infrastructure
                      THEN [run EXCEPT !.state = "infrastructure_failed",
                                       !.classification = "infrastructure_failure"]
                      ELSE [state |-> "ready_for_investigation",
                            baseline |-> Number(h),
                            classification |-> IF Result(h) = "passed" THEN "none"
                                               ELSE "customer_baseline_failure"]
            /\ Reply(h, "completed")
       ELSE Reply(h, "failed") /\ UNCHANGED run
    /\ UNCHANGED <<attempt, evidence, sandbox, fenced, job, faults>>

-----------------------------------------------------------------------------
(* executeAttempt                                                          *)

(* workerContext, resolveBaselineAuthority, assertReviewedPlanIntegrity     *)
Check(h) ==
    /\ In(h, "checking")
    /\ \/ Goto(h, "starting", "none") /\ UNCHANGED attempt
       \/ FinishAs(h, "exhausted", "terminal")
    /\ UNCHANGED <<run, evidence, sandbox, fenced, job, faults>>

(* The archive, or the reservation, cannot be had: an exception of the      *)
(* first goes to the catch, the runner reports the second as evidence.      *)
StartFails(h) ==
    /\ In(h, "starting")
    /\ \E phase \in {"finishing", "reporting"}, result \in Infrastructure :
          Goto(h, phase, result)
    /\ UNCHANGED <<run, attempt, evidence, sandbox, fenced, job, faults>>

(* Mutant of RequestSandbox: the name is recorded with the session, later.  *)
RequestSandboxUnnamed(h) ==
    /\ In(h, "starting")
    /\ IF Owns(h) THEN Goto(h, "requested", "none") ELSE Goto(h, "reporting", "retryable")
    /\ UNCHANGED <<run, attempt, evidence, sandbox, fenced, job, faults>>
(* observer.requested: the name is recorded before the Sandbox exists.      *)
RequestSandbox(h) ==
    /\ In(h, "starting")
    /\ IF Owns(h)
       THEN attempt' = [attempt EXCEPT ![Number(h)].named = TRUE] /\ Goto(h, "requested", "none")
       ELSE Goto(h, "reporting", "retryable") /\ UNCHANGED attempt
    /\ UNCHANGED <<run, evidence, sandbox, fenced, job, faults>>

(* Sandbox.create: the permit asks for the external lease, not for the      *)
(* attempt.  Every failure is terminal; one whose outcome is unknown fences  *)
(* the run, and the Sandbox may exist.                                      *)
CreateSandbox(h) ==
    /\ In(h, "requested")
    /\ \/ /\ sandbox' = sandbox \cup {Number(h)}
          /\ Goto(h, "created", "none")
          /\ UNCHANGED fenced
       \/ /\ sandbox' \in {sandbox, sandbox \cup {Number(h)}}
          /\ fenced' \in {fenced, TRUE}
          /\ Goto(h, "cleaning", "terminal")
    /\ UNCHANGED <<run, attempt, evidence, job, faults>>

(* observer.created, then the commands of the frozen repository.            *)
Work(h) ==
    /\ In(h, "created")
    /\ \E result \in IF Owns(h) THEN Outcome ELSE Infrastructure :
          Goto(h, "cleaning", result)
    /\ UNCHANGED <<run, attempt, evidence, sandbox, fenced, job, faults>>

(* What is left of a result when the cleanup was not confirmed.             *)
CleanupFailed(result) == IF result = "terminal" THEN "terminal" ELSE "retryable"

(* SandboxBoundary.close and permit.complete, which may itself be refused.  *)
Cleanup(h) ==
    /\ In(h, "cleaning")
    /\ \/ /\ Number(h) \in sandbox
          /\ sandbox' = sandbox \ {Number(h)}
          /\ \E result \in {Result(h), "terminal"} : Goto(h, "reporting", result)
          /\ UNCHANGED fenced
       \/ /\ sandbox' \in {sandbox, sandbox \ {Number(h)}}
          /\ fenced' \in {fenced, TRUE}
          /\ Goto(h, "reporting", CleanupFailed(Result(h)))
    /\ UNCHANGED <<run, attempt, evidence, job, faults>>

(* observer.cleaned and authorizePersistence; whoever lost the attempt       *)
(* fails there, and again in finishAttempt.                                 *)
Report(h) ==
    /\ In(h, "reporting")
    /\ IF Owns(h) THEN Goto(h, "inserting", Result(h)) ELSE Reply(h, "failed")
    /\ UNCHANGED <<run, attempt, evidence, sandbox, fenced, job, faults>>

(* persistBaseline, a statement of its own, and the evidence read back: the  *)
(* row may be stored although the handler is told of an error.              *)
InsertEvidence(h) ==
    /\ In(h, "inserting")
    /\ \/ /\ evidence' = [evidence EXCEPT ![Number(h)] = Result(h)]
          /\ \/ Goto(h, "finishing", Result(h)) /\ UNCHANGED faults
             \/ Goto(h, "finishing", "retryable") /\ Error
       \/ Goto(h, "finishing", "retryable") /\ UNCHANGED <<evidence, faults>>
    /\ UNCHANGED <<run, attempt, sandbox, fenced, job>>

-----------------------------------------------------------------------------
(* recoverStaleAttempt                                                     *)

RecoverEvidence(h) ==
    /\ evidence[Number(h)] # "none"
    /\ Goto(h, "finishing", evidence[Number(h)])
    /\ UNCHANGED <<sandbox, fenced>>

RecoverNothing(h) ==
    /\ evidence[Number(h)] = "none"
    /\ ~attempt[Number(h)].named
    /\ Goto(h, "abandoning", "none")
    /\ UNCHANGED <<sandbox, fenced>>

(* recoverSandbox: absence confirmed, or not (the lease is renewed and the  *)
(* attempt stays active), or refused by the authority.                      *)
RecoverSandbox(h) ==
    /\ evidence[Number(h)] = "none"
    /\ attempt[Number(h)].named
    /\ \/ /\ sandbox' = sandbox \ {Number(h)}
          /\ Goto(h, "abandoning", "none")
          /\ UNCHANGED fenced
       \/ /\ sandbox' \in {sandbox, sandbox \ {Number(h)}}
          /\ fenced' \in {fenced, TRUE}
          /\ Reply(h, "failed")

Recover(h) ==
    /\ In(h, "recovering")
    /\ RecoverEvidence(h) \/ RecoverNothing(h) \/ RecoverSandbox(h)
    /\ UNCHANGED <<run, attempt, evidence, job, faults>>

Abandon(h) ==
    /\ In(h, "abandoning")
    /\ FinishAs(h, IF Number(h) >= MaxAttempts THEN "exhausted" ELSE "abandoned", "terminal")
    /\ UNCHANGED <<run, evidence, sandbox, fenced, job, faults>>

-----------------------------------------------------------------------------
(* PgBoss, the clock and the operators                                     *)

(* The exact claim of a reviewed job sets its retry limit to zero.          *)
Retried(j) == IF j.retries > 0 /\ ~j.reviewed
              THEN [j EXCEPT !.state = "queued", !.holder = "none", !.retries = @ - 1]
              ELSE [j EXCEPT !.state = "failed", !.holder = "none"]
Answered(j, answer) ==
    CASE answer = "completed" -> [j EXCEPT !.state = "completed", !.holder = "none"]
      [] answer = "failed" -> Retried(j)
      [] OTHER -> [j EXCEPT !.state = "failed", !.holder = "none"]

(* The one-shot service completes the job of a successful run only.         *)
Settlement(h) == IF OneShot /\ run.state # "ready_for_investigation" THEN "failed" ELSE Result(h)

(* The answer of a handler that PgBoss has given up may still be applied to *)
(* the delivery that replaced it, or be ignored.                            *)
ReplyJob(h) ==
    /\ In(h, "reply")
    /\ handler' = [handler EXCEPT ![h] = Idle]
    /\ \/ job.state = "active" /\ job' = Answered(job, Settlement(h))
       \/ ~(job.state = "active" /\ job.holder = h) /\ UNCHANGED job
    /\ UNCHANGED <<run, attempt, evidence, sandbox, fenced, faults>>

(* A database error where nothing catches it: a read, a claim, finishAttempt *)
(* or transitionRepairRun throws out of processRepairJob.  PgBoss fails the  *)
(* ordinary job; the one-shot service catches the error and fails the job    *)
(* itself.  If the transaction had committed and only its answer was lost,   *)
(* the handler stands at its next phase, or at its reply, when it throws.    *)
Unguarded == {"received", "checking", "finishing", "recovering", "abandoning", "transition"}
DatabaseFails(h) ==
    /\ handler[h].phase \in Unguarded \/ (In(h, "reply") /\ Result(h) = "completed")
    /\ Error
    /\ Reply(h, "failed")
    /\ UNCHANGED <<run, attempt, evidence, sandbox, fenced, job>>

(* A handler of the provider that dies leaves a start without an outcome.   *)
Crash(h) ==
    /\ ~In(h, "idle")
    /\ Spare
    /\ faults' = [faults EXCEPT !.crashes = @ + 1]
    /\ handler' = [handler EXCEPT ![h] = Idle]
    /\ job' = IF job.holder = h THEN [job EXCEPT !.holder = "none"] ELSE job
    /\ IF handler[h].phase \in {"requested", "created", "cleaning", "recovering"}
       THEN fenced' \in {fenced, TRUE} ELSE UNCHANGED fenced
    /\ UNCHANGED <<run, attempt, evidence, sandbox>>

(* The job's own heartbeat stops with its handler; only the canonical queues *)
(* are supervised.                                                          *)
TimeOut ==
    /\ ~OneShot
    /\ job.state = "active" /\ job.holder = "none"
    /\ job' = Retried(job)
    /\ UNCHANGED <<run, attempt, evidence, sandbox, fenced, handler, faults>>

Stall == faults.stalls < MaxStalls /\ faults' = [faults EXCEPT !.stalls = @ + 1]

(* The handler runs on, but too slowly for PgBoss.                          *)
TimeOutAlive ==
    /\ ~OneShot
    /\ Stall
    /\ job.state = "active" /\ job.holder # "none"
    /\ job' = Retried(job)
    /\ UNCHANGED <<run, attempt, evidence, sandbox, fenced, handler>>

Owner(n) == {h \in Handler : Number(h) = n /\ handler[h].token = attempt[n].token
                             /\ handler[h].phase \notin {"idle", "reply"}}
Lapse(n) ==
    /\ attempt[n].state = "active" /\ attempt[n].live
    /\ attempt' = [attempt EXCEPT ![n].live = FALSE]
    /\ UNCHANGED <<run, evidence, sandbox, fenced, job, handler>>
LapseDead == \E n \in DOMAIN attempt : Owner(n) = {} /\ Lapse(n) /\ UNCHANGED faults
LapseAlive == \E n \in DOMAIN attempt : Owner(n) # {} /\ Lapse(n) /\ Stall

(* A starting worker retries the failed job of an active run.               *)
Restart ==
    /\ ~OneShot
    /\ faults.restarts < MaxRestarts
    /\ job.state = "failed" /\ Open
    /\ job' = [job EXCEPT !.state = "queued"]
    /\ faults' = [faults EXCEPT !.restarts = @ + 1]
    /\ UNCHANGED <<run, attempt, evidence, sandbox, fenced, handler>>

(* cancelCreatedRepairRun                                                  *)
Cancel ==
    /\ run.state = "created"
    /\ run' = [run EXCEPT !.state = "cancelled", !.classification = "cancelled"]
    /\ UNCHANGED <<attempt, evidence, sandbox, fenced, job, handler, faults>>

-----------------------------------------------------------------------------
HandlerStep(h) ==
    \/ Refuse(h) \/ Claim(h) \/ Check(h)
    \/ StartFails(h) \/ RequestSandbox(h) \/ CreateSandbox(h) \/ Work(h) \/ Cleanup(h)
    \/ Report(h) \/ InsertEvidence(h) \/ Finish(h)
    \/ Recover(h) \/ Abandon(h)
    \/ Transition(h) \/ ReplyJob(h)

Next ==
    \/ \E h \in Handler : Deliver(h) \/ HandlerStep(h) \/ DatabaseFails(h) \/ Crash(h)
    \/ TimeOut \/ TimeOutAlive \/ LapseDead \/ LapseAlive \/ Restart \/ Cancel

Spec == Init /\ [][Next]_vars

(* A living handler goes on, PgBoss delivers and times out, time passes.    *)
Fairness ==
    /\ \A h \in Handler : WF_vars(HandlerStep(h))
    /\ WF_vars(\E h \in Handler : Deliver(h))
    /\ WF_vars(TimeOut)
    /\ WF_vars(LapseDead)

FairSpec == Spec /\ Fairness

-----------------------------------------------------------------------------
(* The rows, the job and the handlers hold values of their types.           *)
TypeOK ==
    /\ run \in Run
    /\ attempt \in Seq(Attempt) /\ Latest <= MaxAttempts
    /\ evidence \in [1 .. MaxAttempts -> Outcome \cup {"none"}]
    /\ sandbox \subseteq 1 .. MaxAttempts
    /\ fenced \in BOOLEAN
    /\ job \in Job
    /\ handler \in [Handler -> Local]
    /\ faults \in [crashes : Nat, stalls : Nat, restarts : Nat, errors : Nat]

(* A run that has ended has no attempt anybody could still be working on:   *)
(* the transaction that ends the run and the one that ends the attempt are  *)
(* two, and a claim may come between them.                                  *)
TerminalIsQuiet == ~Open => Active = {}

(* A run is ready for investigation only on the evidence of an attempt that *)
(* was itself finished so, and with the classification that evidence has.   *)
VerdictIsEvidenced ==
    run.state = "ready_for_investigation" =>
        /\ Decided(run.baseline)
        /\ evidence[run.baseline] = Verdict(run.baseline)
        /\ evidence[run.baseline] \in {"passed", "customer_failed"}
        /\ (run.classification = "none") <=> (evidence[run.baseline] = "passed")

(* When a process is lost but none is merely slow, an abandoned attempt has *)
(* neither a Sandbox nor evidence: its name was on record before it existed. *)
AbandonedIsClean ==
    faults.stalls = 0 =>
    \A n \in DOMAIN attempt : attempt[n].state = "abandoned" =>
        n \notin sandbox /\ evidence[n] = "none"

(* A reviewed job is handled once and nobody supervises its queue, so it     *)
(* must not be settled while its run still waits for a retry.  Two things    *)
(* excuse it: a lease that lapsed under the living handler, and a database   *)
(* error that escaped processRepairJob, which one-shot-service.ts:63-73       *)
(* answers by failing the job whatever the run's state is.                   *)
ReviewedRunEnds ==
    /\ OneShot /\ job.state \in {"completed", "failed"}
    /\ faults.stalls = 0 /\ faults.errors = 0
    => run.state # "baseline_running"

(* The rows, the job and the handlers agree.                               *)
Consistent == TypeOK /\ TerminalIsQuiet /\ ReviewedRunEnds

(* The run obeys the abstract lifecycle; in particular a decided attempt is *)
(* never followed by another and never lost, whatever fence comes down.     *)
Lifecycle == INSTANCE RunLifecycle WITH
    state <- run.state,
    claimed <- Latest,
    verdict <- IF ~Decided(Latest) THEN "none"
               ELSE IF attempt[Latest].state = "succeeded" THEN "passed"
               ELSE attempt[Latest].state
LifecycleSpec == Lifecycle!Spec

(* Whatever is lost or slow, an ordinary run ends, or its job has failed and *)
(* waits for the next worker start: no run is left behind a completed job.   *)
EndsOrWaits == Open /\ ~OneShot ~> (~Open \/ job.state = "failed")

(* README.md:63: leases, ownership tokens and heartbeats fence concurrent or *)
(* lost workers.  A worker whose attempt has been recovered and given up     *)
(* meanwhile creates no Sandbox for it.                                     *)
LostWorkerCreatesNothing ==
    [][\A h \in Handler : In(h, "requested") /\ attempt[Number(h)].state # "active"
            => sandbox' \subseteq sandbox]_vars
=============================================================================
