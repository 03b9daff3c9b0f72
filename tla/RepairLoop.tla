------------------------------ MODULE RepairLoop ------------------------------
(***************************************************************************)
(* The repair loop of one run: at most MaxIterations rounds of generating a *)
(* candidate and verifying it.  The loop never waits: it polls.  Each wake  *)
(* job looks at the loop once, does at most one thing and, while the loop   *)
(* goes on, puts the next wake job on the queue in the transaction that     *)
(* makes it the current one.                                                *)
(*                                                                         *)
(* A handler is one invocation of processRepairLoopJob.  PgBoss may deliver *)
(* a wake job again while the first handler still runs, so the handlers of  *)
(* the current wake and of former ones interleave.  One action is one       *)
(* transaction, or the reads between two of them.                           *)
(***************************************************************************)
EXTENDS Naturals, Sequences, FiniteSets

CONSTANTS
    Handler,        \* handlers that may run at once
    Wake,           \* identities of wake jobs; one is used again when nothing refers to it
    MaxIterations,  \* REPAIR_LOOP_MAX_ITERATIONS
    Ceiling,        \* maxRepairLoopIterations of the grant
    RetryLimit,     \* REPAIR_QUEUE_OPTIONS.retryLimit
    Reviewed,       \* the run has a reviewed plan, whose grants every step looks at
    MaxCrashes,     \* bound on handlers that die
    MaxStalls,      \* bound on jobs and leases taken from living handlers
    MaxErrors,      \* bound on failing database operations
    MaxRestarts     \* bound on worker starts that retry the failed wake

ASSUME LoopAssumption ==
    /\ Wake # {}
    /\ MaxIterations \in {1, 2}     \* repair_loop_protocol_check
    /\ Ceiling \in Nat /\ RetryLimit \in Nat /\ Reviewed \in BOOLEAN
    /\ MaxCrashes \in Nat /\ MaxStalls \in Nat /\ MaxErrors \in Nat /\ MaxRestarts \in Nat

VARIABLES
    loop,       \* the repair_loop row
    iteration,  \* the repair_loop_iteration rows with their generation and verification
    lease,      \* the reservation of an iteration, by its ordinal
    fenced,     \* assertRunBusinessAllowed refuses the run
    granted,    \* both grants are live: neither revoked nor expired
    job,        \* the PgBoss jobs of the wakes
    handler,    \* local state of each handler
    faults      \* crashes, stalls, errors and restarts so far

vars == <<loop, iteration, lease, fenced, granted, job, handler, faults>>

ActiveState == {"queued", "running"}
EndState == {"verified", "abstained", "review_required", "failed", "limit_reached"}
Decision == {"verified", "repairable_failure", "abstained", "generation_failed",
             "verification_non_repairable", "infrastructure_failed", "evidence_invalid"}

(* What a verification that has ended says: it did not come to evidence, its *)
(* evidence cannot be trusted, or the objective measured against the         *)
(* baseline ("regressed": satisfied, but something else broke).             *)
Evidence == {"satisfied", "regressed", "failed", "not_measured"}
Verification == Evidence \cup {"none", "working", "infrastructure_failed", "invalid"}
Generation == {"working", "frozen", "abstained", "failed"}

(* Failure codes, the authority's refusals that nobody tells apart in one.   *)
AuthorityCode == {"refused", "execution_budget_exhausted", "external_concurrency_unavailable"}
Code == AuthorityCode \cup {"integrity", "reconciliation_exhausted"}

Phase == {"idle", "received", "fencing", "starting", "reading", "selecting", "authorizing",
          "reserving", "completing", "acting", "judging", "succeeding", "failing", "reply"}

Loop == [state : ActiveState \cup EndState, wake : Wake, selected : 0 .. MaxIterations,
         code : Code \cup {"none", "generation_failed", "verification_failed"}]
Iteration == [generation : Generation, verification : Verification,
              decision : Decision \cup {"none"}]
Job == [state : {"queued", "active", "failed", "completed"},
        holder : Handler \cup {"none"}, retries : 0 .. RetryLimit]
Local == [phase : Phase, wake : Wake \cup {"none"}, last : BOOLEAN,
          ordinal : 0 .. MaxIterations, generation : Generation, verification : Verification,
          key : 0 .. MaxIterations, error : Code \cup {"none"},
          answer : {"none", "completed", "failed", "deadletter"}]

Idle == [phase |-> "idle", wake |-> "none", last |-> FALSE,
         ordinal |-> 0, generation |-> "working", verification |-> "none",
         key |-> 0, error |-> "none", answer |-> "none"]
NewIteration == [generation |-> "working", verification |-> "none", decision |-> "none"]
NewJob == [state |-> "queued", holder |-> "none", retries |-> RetryLimit]

Active == loop.state \in ActiveState
Undecided == {n \in DOMAIN iteration : iteration[n].decision = "none"}

-----------------------------------------------------------------------------
(* startRepairLoop                                                         *)
Init ==
    /\ \E w \in Wake :
        /\ loop = [state |-> "queued", wake |-> w, selected |-> 0, code |-> "none"]
        /\ job = [v \in Wake |-> IF v = w THEN NewJob ELSE [NewJob EXCEPT !.state = "completed"]]
    /\ iteration = <<NewIteration>>
    /\ lease = [n \in 1 .. MaxIterations |-> "none"]
    /\ fenced = FALSE
    /\ granted = TRUE
    /\ handler = [h \in Handler |-> Idle]
    /\ faults = [crashes |-> 0, stalls |-> 0, errors |-> 0, restarts |-> 0]

-----------------------------------------------------------------------------
In(h, phase) == handler[h].phase = phase
Seen(h) == handler[h].ordinal
Goto(h, phase) == handler' = [handler EXCEPT ![h].phase = phase]

(* What the handler has read is of no use any more.                          *)
Reply(h, answer) ==
    handler' = [handler EXCEPT ![h] = [Idle EXCEPT !.phase = "reply", !.wake = handler[h].wake,
                                                   !.answer = answer]]
Raise(h, code) ==
    handler' = [handler EXCEPT ![h] = [Idle EXCEPT !.phase = "failing", !.wake = handler[h].wake,
                                                   !.error = code]]

OwnsWake(h) == Active /\ loop.wake = handler[h].wake
Owns(h) == OwnsWake(h) /\ loop.state = "running"

(* assertRunBusinessAllowed, and assertReviewedPlanIntegrity where it follows. *)
Barred == fenced \/ (Reviewed /\ ~granted)

Rows == <<loop, iteration, lease, job>>
World == <<fenced, granted, faults>>

Deliver(h, w) ==
    /\ In(h, "idle") /\ job[w].state = "queued"
    /\ job' = [job EXCEPT ![w].state = "active", ![w].holder = h]
    /\ handler' = [handler EXCEPT ![h].phase = "received", ![h].wake = w,
                                  ![h].last = (job[w].retries = 0)]
    /\ UNCHANGED <<loop, iteration, lease, World>>

(* The worker is stopping, the repository is private by now, or the wake is  *)
(* not the current one.                                                     *)
Validate(h) ==
    /\ In(h, "received")
    /\ \/ Reply(h, "failed")
       \/ Reply(h, "deadletter")
       \/ IF OwnsWake(h) THEN Goto(h, "fencing") ELSE Reply(h, "completed")
    /\ UNCHANGED <<Rows, World>>

(* reconcile                                                               *)
Fence(h) ==
    /\ In(h, "fencing")
    /\ IF fenced THEN Raise(h, "refused") ELSE Goto(h, "starting")
    /\ UNCHANGED <<Rows, World>>

Start(h) ==
    /\ In(h, "starting")
    /\ IF ~OwnsWake(h) \/ loop.state # "queued"
       THEN Goto(h, "reading") /\ UNCHANGED loop
       ELSE IF fenced THEN Raise(h, "refused") /\ UNCHANGED loop
       ELSE Goto(h, "reading") /\ loop' = [loop EXCEPT !.state = "running"]
    /\ UNCHANGED <<iteration, lease, job, World>>

ReadLoop(h) ==
    /\ In(h, "reading")
    /\ IF Owns(h) THEN Goto(h, "selecting") ELSE Reply(h, "completed")
    /\ UNCHANGED <<Rows, World>>

ReadIteration(h) ==
    /\ In(h, "selecting")
    /\ \/ Undecided = {} /\ Raise(h, "integrity")
       \/ \E n \in Undecided :
            handler' = [handler EXCEPT ![h].phase = "authorizing",
                                       ![h].ordinal = n, ![h].key = n,
                                       ![h].generation = iteration[n].generation,
                                       ![h].verification = iteration[n].verification]
    /\ UNCHANGED <<Rows, World>>

-----------------------------------------------------------------------------
(* authorizeIteration: an existing reservation of the key is good as long as *)
(* its grants are live and its lease has been completed or is still running. *)
(* It is looked for before reserving, and again when that was refused.       *)

Authorized(h) ==
    handler' = [handler EXCEPT ![h].phase = IF handler[h].key = Seen(h) THEN "acting" ELSE "succeeding",
                               ![h].key = 0, ![h].error = "none"]

ExistingAuthority(h) ==
    /\ In(h, "authorizing")
    /\ LET l == lease[handler[h].key]
           refusal == handler[h].error
       IN  IF fenced THEN Raise(h, "refused")
           ELSE IF l = "none"
                THEN IF refusal = "none" THEN Goto(h, "reserving") ELSE Raise(h, refusal)
           ELSE IF ~granted \/ l = "lapsed" THEN Raise(h, "refused")
           ELSE Authorized(h)
    /\ UNCHANGED <<Rows, World>>

(* Every iteration reserves one of the grant's iterations and, until it is   *)
(* completed, one of the account's slots: the candidate generation, which    *)
(* was put on its queue together with the wake, may hold the last one.       *)
Reserved == {n \in DOMAIN lease : lease[n] # "none"}
Exhausted == Cardinality(Reserved) >= Ceiling

Reserve(h) ==
    /\ In(h, "reserving")
    /\ LET key == handler[h].key
           Refused(code) ==
               /\ handler' = [handler EXCEPT ![h].phase = "authorizing", ![h].error = code]
               /\ UNCHANGED lease
       IN  IF fenced \/ ~granted THEN Refused("refused")
           ELSE IF Exhausted THEN Refused("execution_budget_exhausted")
           ELSE \/ Refused("external_concurrency_unavailable")
                \/ lease[key] # "none" /\ Refused("refused")
                \/ /\ lease[key] = "none"
                   /\ lease' = [lease EXCEPT ![key] = "active"]
                   /\ Goto(h, "completing")
    /\ UNCHANGED <<loop, iteration, job, World>>

(* permit.complete('succeeded')                                             *)
Complete(h) ==
    /\ In(h, "completing")
    /\ IF fenced \/ ~granted \/ lease[handler[h].key] # "active"
       THEN Raise(h, "refused") /\ UNCHANGED lease
       ELSE /\ lease' = [lease EXCEPT ![handler[h].key] = "succeeded"]
            /\ Authorized(h)
    /\ UNCHANGED <<loop, iteration, job, World>>

-----------------------------------------------------------------------------
(* What the handler does with the iteration it has read                    *)

(* An identity that is neither current nor in a handler's hands is as good as *)
(* new: one more delivery of a former wake would find it is not current.     *)
Fresh == {w \in Wake : w # loop.wake /\ \A h \in Handler : handler[h].wake # w}

HandOver(h) ==
    /\ \E w \in Fresh :
        /\ loop' = [loop EXCEPT !.wake = w]
        /\ job' = [job EXCEPT ![w] = NewJob]
    /\ Reply(h, "completed")

(* A transaction of a handler that has lost the wake changes nothing.        *)
Lost(h) == Reply(h, "completed") /\ UNCHANGED <<loop, iteration, job>>
Barrier(h) == Raise(h, "refused") /\ UNCHANGED <<loop, iteration, job>>

(* scheduleWake                                                            *)
Poll(h) ==
    IF ~Owns(h) THEN Lost(h)
    ELSE IF Barred THEN Barrier(h)
    ELSE HandOver(h) /\ UNCHANGED iteration

(* The decision of the iteration and the end of the loop are one transaction. *)
End(h, decision, state, code) ==
    /\ iteration' = [iteration EXCEPT ![Seen(h)].decision = decision]
    /\ loop' = [loop EXCEPT !.state = state, !.code = code,
                            !.selected = IF state = "verified" THEN Seen(h) ELSE 0]
    /\ Reply(h, "completed")
    /\ UNCHANGED job

StillOpen(h) == Owns(h) /\ iteration[Seen(h)].decision = "none"

(* terminalWithoutVerification.                                             *)
EndUnverified(h) ==
    IF ~StillOpen(h) THEN Lost(h)
    ELSE IF handler[h].generation = "abstained" THEN End(h, "abstained", "abstained", "none")
    ELSE End(h, "generation_failed", "failed", "generation_failed")

(* bindOrCreateVerification.  The candidate may not pass its self-check, or   *)
(* have a verification of another origin.  The mutant leaves the current     *)
(* wake to be completed.                                                    *)
BindSilently(h) ==
    \/ Raise(h, "integrity") /\ UNCHANGED <<loop, iteration, job>>
    \/ IF ~StillOpen(h) \/ iteration[Seen(h)].verification # "none" THEN Lost(h)
       ELSE IF Barred THEN Barrier(h)
       ELSE /\ iteration' = [iteration EXCEPT ![Seen(h)].verification = "working"]
            /\ Reply(h, "completed") /\ UNCHANGED <<loop, job>>
Bind(h) ==
    \/ Raise(h, "integrity") /\ UNCHANGED <<loop, iteration, job>>
    \/ IF ~StillOpen(h) \/ iteration[Seen(h)].verification # "none" THEN Lost(h)
       ELSE IF Barred THEN Barrier(h)
       ELSE /\ iteration' = [iteration EXCEPT ![Seen(h)].verification = "working"]
            /\ HandOver(h)

ReadVerification(h) ==
    /\ handler' = [handler EXCEPT ![h].phase = "judging", ![h].generation = "working",
                                  ![h].verification = iteration[Seen(h)].verification]
    /\ UNCHANGED <<loop, iteration, job>>

Act(h) ==
    /\ In(h, "acting")
    /\ CASE handler[h].generation = "working" -> Poll(h)
         [] handler[h].generation \in {"abstained", "failed"} -> EndUnverified(h)
         [] handler[h].generation = "frozen" ->
               IF handler[h].verification = "none" THEN Bind(h) ELSE ReadVerification(h)
    /\ UNCHANGED <<lease, World>>

(* decideRepairLoopOutcome for trustworthy evidence.  The mutants let a       *)
(* regression pass once the objective is satisfied, and stop a round early.  *)
RepairableObjective(v) == v = "failed"
Repairable(v) == v \in {"failed", "regressed"}
ContinuesShort(n, v) == Repairable(v) /\ n + 1 < MaxIterations
Continues(n, v) == Repairable(v) /\ n < MaxIterations

Conclude(h, v) ==
    IF ~StillOpen(h) THEN Lost(h)
    ELSE IF Barred THEN Barrier(h)
    ELSE CASE v = "not_measured" ->
                End(h, "verification_non_repairable", "review_required", "none")
           [] Repairable(v) -> End(h, "repairable_failure", "limit_reached", "none")
           [] OTHER -> End(h, "verified", "verified", "none")

(* stopAfterVerification                                                   *)
Stop(h, decision) ==
    IF ~StillOpen(h) THEN Lost(h) ELSE End(h, decision, "failed", "verification_failed")

(* The feedback may be larger than it may be; the next iteration needs a      *)
(* reservation of its own.  The mutant does without.                        *)
FeedbackUnreserved(h) ==
    /\ Goto(h, "succeeding")
    /\ UNCHANGED <<loop, iteration, job>>
Feedback(h) ==
    /\ \/ Raise(h, "integrity")
       \/ handler' = [handler EXCEPT ![h].phase = "authorizing", ![h].key = Seen(h) + 1,
                                     ![h].verification = "none"]
    /\ UNCHANGED <<loop, iteration, job>>

Judge(h) ==
    /\ In(h, "judging")
    /\ LET v == handler[h].verification
       IN  CASE v = "working" -> Poll(h)
             [] v = "infrastructure_failed" -> Stop(h, "infrastructure_failed")
             [] v = "invalid" -> Stop(h, "evidence_invalid")
             [] Continues(Seen(h), v) -> Feedback(h)
             [] OTHER -> Conclude(h, v)
    /\ UNCHANGED <<lease, World>>

(* The iteration is decided and its successor created in one transaction.     *)
Successor(h) ==
    IF ~StillOpen(h) \/ Seen(h) # 1 THEN Lost(h)
    ELSE IF Barred THEN Barrier(h)
    ELSE /\ iteration' = Append([iteration EXCEPT ![Seen(h)].decision = "repairable_failure"],
                                NewIteration)
         /\ HandOver(h)

Succeed(h) == In(h, "succeeding") /\ Successor(h) /\ UNCHANGED <<lease, World>>

-----------------------------------------------------------------------------
(* Failing                                                                 *)

Verdict(code) == IF code = "integrity" THEN "evidence_invalid" ELSE "infrastructure_failed"

(* failIntegrity and failInfrastructure.  The mutant does not ask whether the *)
(* wake is still the handler's own.                                         *)
SettleStale(h) ==
    IF ~Active \/ Undecided = {} THEN Lost(h)
    ELSE \E n \in Undecided :
           /\ iteration' = [iteration EXCEPT ![n].decision = Verdict(handler[h].error)]
           /\ loop' = [loop EXCEPT !.state = "failed", !.code = handler[h].error]
           /\ Reply(h, "completed")
           /\ UNCHANGED job
Settle(h) ==
    IF ~OwnsWake(h) \/ Undecided = {} THEN Lost(h)
    ELSE \E n \in Undecided :
           /\ iteration' = [iteration EXCEPT ![n].decision = Verdict(handler[h].error)]
           /\ loop' = [loop EXCEPT !.state = "failed", !.code = handler[h].error]
           /\ Reply(h, "completed")
           /\ UNCHANGED job

Fail(h) == In(h, "failing") /\ Settle(h) /\ UNCHANGED <<lease, World>>

(* The database fails.  The authority calls that a refusal; elsewhere the     *)
(* delivery fails, and the last one fails the loop.  The mutant takes every   *)
(* delivery for answered.                                                   *)
FailedDeliveryDone(h) == Reply(h, "completed")
FailedDelivery(h) == IF handler[h].last THEN Raise(h, "reconciliation_exhausted")
                     ELSE Reply(h, "failed")

DatabaseError(h) ==
    /\ ~In(h, "idle") /\ ~In(h, "reply")
    /\ faults.errors < MaxErrors
    /\ faults' = [faults EXCEPT !.errors = @ + 1]
    /\ CASE In(h, "reserving") ->
               handler' = [handler EXCEPT ![h].phase = "authorizing", ![h].error = "refused"]
         [] In(h, "completing") -> Raise(h, "refused")
         [] In(h, "received") \/ In(h, "failing") -> Reply(h, "failed")
         [] OTHER -> FailedDelivery(h)
    /\ UNCHANGED <<Rows, fenced, granted>>

-----------------------------------------------------------------------------
(* PgBoss, the clock, the other workers and the operators                   *)

Retried(j) == IF j.retries > 0
              THEN [state |-> "queued", holder |-> "none", retries |-> j.retries - 1]
              ELSE [j EXCEPT !.state = "failed", !.holder = "none"]
Answered(j, answer) ==
    CASE answer = "completed" -> [j EXCEPT !.state = "completed", !.holder = "none"]
      [] answer = "failed" -> Retried(j)
      [] OTHER -> [j EXCEPT !.state = "failed", !.holder = "none"]

(* The answer of a handler that PgBoss has given up may still be applied to  *)
(* the delivery that replaced it, or be ignored.                            *)
ReplyJob(h) ==
    /\ In(h, "reply")
    /\ LET w == handler[h].wake
       IN  \/ /\ job[w].state = "active"
              /\ job' = [job EXCEPT ![w] = Answered(@, handler[h].answer)]
           \/ ~(job[w].state = "active" /\ job[w].holder = h) /\ UNCHANGED job
    /\ handler' = [handler EXCEPT ![h] = Idle]
    /\ UNCHANGED <<loop, iteration, lease, World>>

Crash(h) ==
    /\ ~In(h, "idle")
    /\ faults.crashes < MaxCrashes
    /\ faults' = [faults EXCEPT !.crashes = @ + 1]
    /\ LET w == handler[h].wake
       IN  job' = IF job[w].holder = h THEN [job EXCEPT ![w].holder = "none"] ELSE job
    /\ handler' = [handler EXCEPT ![h] = Idle]
    /\ UNCHANGED <<loop, iteration, lease, fenced, granted>>

Stall == faults.stalls < MaxStalls /\ faults' = [faults EXCEPT !.stalls = @ + 1]

(* The heartbeat of the job stops with its handler, or its time is up.       *)
TimeOut(w) ==
    /\ job[w].state = "active"
    /\ IF job[w].holder = "none" THEN UNCHANGED faults ELSE Stall
    /\ job' = [job EXCEPT ![w] = Retried(@)]
    /\ UNCHANGED <<loop, iteration, lease, fenced, granted, handler>>

(* The lease of an iteration nobody completes runs out.                      *)
Lapse(n) ==
    /\ lease[n] = "active"
    /\ IF \E h \in Handler : In(h, "completing") /\ handler[h].key = n
       THEN Stall ELSE UNCHANGED faults
    /\ lease' = [lease EXCEPT ![n] = "lapsed"]
    /\ UNCHANGED <<loop, iteration, fenced, granted, job, handler>>

(* A starting worker retries the failed wake of an active loop.              *)
Restart ==
    /\ Active /\ job[loop.wake].state = "failed"
    /\ faults.restarts < MaxRestarts
    /\ faults' = [faults EXCEPT !.restarts = @ + 1]
    /\ job' = [job EXCEPT ![loop.wake].state = "queued"]
    /\ UNCHANGED <<loop, iteration, lease, fenced, granted, handler>>

(* The workers of the other stages.                                         *)
GenerationEnds(n) ==
    /\ iteration[n].generation = "working"
    /\ \E g \in Generation \ {"working"} :
         iteration' = [iteration EXCEPT ![n].generation = g]
    /\ UNCHANGED <<loop, lease, job, handler, World>>
VerificationEnds(n) ==
    /\ iteration[n].verification = "working"
    /\ \E v \in Verification \ {"none", "working"} :
         iteration' = [iteration EXCEPT ![n].verification = v]
    /\ UNCHANGED <<loop, lease, job, handler, World>>

(* Another operation of the run becomes ambiguous or exhausts its budget; a   *)
(* grant expires or is revoked.                                             *)
FenceFalls == ~fenced /\ fenced' = TRUE /\ UNCHANGED <<Rows, granted, handler, faults>>
GrantEnds == granted /\ granted' = FALSE /\ UNCHANGED <<Rows, fenced, handler, faults>>

-----------------------------------------------------------------------------
HandlerStep(h) ==
    \/ Validate(h) \/ Fence(h) \/ Start(h) \/ ReadLoop(h) \/ ReadIteration(h)
    \/ ExistingAuthority(h) \/ Reserve(h) \/ Complete(h)
    \/ Act(h) \/ Judge(h) \/ Succeed(h) \/ Fail(h) \/ ReplyJob(h)

Next ==
    \/ \E h \in Handler :
        \/ \E w \in Wake : Deliver(h, w)
        \/ HandlerStep(h)
        \/ DatabaseError(h)
        \/ Crash(h)
    \/ \E w \in Wake : TimeOut(w)
    \/ \E n \in DOMAIN lease : Lapse(n)
    \/ \E n \in DOMAIN iteration : GenerationEnds(n) \/ VerificationEnds(n)
    \/ Restart \/ FenceFalls \/ GrantEnds

Spec == Init /\ [][Next]_vars

(* A living handler goes on, PgBoss delivers and times out, and the workers   *)
(* of the other stages end what they were given.                            *)
Fairness ==
    /\ \A h \in Handler : WF_vars(HandlerStep(h))
    /\ WF_vars(\E h \in Handler, w \in Wake : Deliver(h, w))
    /\ \A w \in Wake : WF_vars(job[w].holder = "none" /\ TimeOut(w))
    /\ \A n \in 1 .. MaxIterations :
        WF_vars(n \in DOMAIN iteration /\ (GenerationEnds(n) \/ VerificationEnds(n)))

FairSpec == Spec /\ Fairness

-----------------------------------------------------------------------------
(* The rows, the jobs and the handlers hold values of their types, and the    *)
(* loop's terminal facts agree with its state (repair_loop_terminal_facts). *)
TypeOK ==
    /\ loop \in Loop
    /\ iteration \in Seq(Iteration) /\ Len(iteration) \in 1 .. MaxIterations
    /\ lease \in [1 .. MaxIterations -> {"none", "active", "succeeded", "lapsed"}]
    /\ fenced \in BOOLEAN /\ granted \in BOOLEAN
    /\ job \in [Wake -> Job]
    /\ handler \in [Handler -> Local]
    /\ faults \in [crashes : Nat, stalls : Nat, errors : Nat, restarts : Nat]
    /\ (loop.state = "failed") <=> (loop.code # "none")
    /\ (loop.state = "verified") <=> (loop.selected # 0)

(* No lost wake: whatever is delivered twice, late or never answered, the     *)
(* current wake of an active loop has not been completed, so somebody will   *)
(* look at the loop again.                                                  *)
WakeAlive == Active => job[loop.wake].state # "completed"

(* An active loop has exactly one open iteration, its last, and a loop that   *)
(* has ended has none: no round is worked upon that nobody will decide.      *)
OneOpenIteration == Undecided = IF Active THEN {Len(iteration)} ELSE {}

(* What is selected was generated in the loop's last round, verified there    *)
(* by the loop's own verification, satisfies the objective and breaks        *)
(* nothing; every earlier round was a measured failure.                     *)
SelectionIsMeasured ==
    /\ loop.state = "verified" =>
        /\ loop.selected = Len(iteration)
        /\ iteration[loop.selected].generation = "frozen"
        /\ iteration[loop.selected].verification = "satisfied"
    /\ \A n \in 1 .. Len(iteration) - 1 :
        iteration[n].verification \in {"failed", "regressed"}

(* Every round whose candidate is verified, and every further round, has a    *)
(* reservation of its own, and there are no more of them than were granted.  *)
RoundsArePaid ==
    /\ \A n \in DOMAIN iteration :
        n > 1 \/ iteration[n].verification # "none" => n \in Reserved
    /\ Cardinality(Reserved) <= Ceiling

(* The loop obeys the abstract one: decisions are made one after another,     *)
(* never revised, and the state follows from the last one.                  *)
Bounded == INSTANCE BoundedLoop WITH
    state <- loop.state,
    decided <- [n \in 1 .. Cardinality(DOMAIN iteration \ Undecided) |-> iteration[n].decision]
LoopSpec == Bounded!Spec

(* Only the handler of the current wake touches the loop or decides a round:  *)
(* a delivery that became stale after its reads is inert, even in failing.   *)
StaleIsInert ==
    [][loop' # loop \/ Undecided' # Undecided =>
        \E h \in Handler : handler[h].wake = loop.wake /\ handler'[h] # handler[h]]_vars

(* Provided that the other stages end, the loop ends, or its wake job has     *)
(* failed and waits for the next worker start.                              *)
EndsOrWaits == Active ~> (~Active \/ job[loop.wake].state = "failed")

=============================================================================
