---------------------------- MODULE ReviewedStaging ----------------------------
(***************************************************************************)
(* A reviewed plan from its staging to the context of its investigation,   *)
(* over the repository access it must agree with: the run, its grants and  *)
(* its inert job are staged together; a one-shot process claims exactly    *)
(* that job, or the owner retires it; the context job is claimed by        *)
(* another one-shot or fetched by the general worker.  What a plan has     *)
(* unfinished is what makes a change of the selection, or of the profile,  *)
(* a conflict.                                                             *)
(*                                                                         *)
(* All of a plan's grants expire together and are revoked together.  The   *)
(* attempts, leases and cleanup of the baseline are RepairRun's: here its  *)
(* attempt and its run end in one step.  So is one answer left out: a       *)
(* database error in the claim of a context is taken for a missing row and  *)
(* fails its job for good (investigations/worker.ts:138).                   *)
(***************************************************************************)
EXTENDS Integers, Sequences, FiniteSets

CONSTANTS
    Workspace, Repo, Commit, None, Content, FirstCommit, Flow, MaxDepth, MaxScripts,
    Plan,          \* the approved plans
    PlanRepo, PlanCommit, Expiry,   \* what each is for, and when its grants expire
    Shot,          \* the one-shot processes an operator may start
    Worker,        \* the general worker
    MaxTries,      \* MAX_ATTEMPTS of a context
    RetryLimit,    \* the queue's retry limit
    MaxAttempts, MaxClock, MaxChanges, MaxFaults

ASSUME AccessAssumption ==
    /\ None \notin Workspace \cup Repo \cup Commit /\ FirstCommit \in Commit
    /\ Flow \subseteq {"install", "list", "select"}
    /\ MaxAttempts \in Nat /\ MaxClock \in Nat /\ MaxChanges \in Nat /\ MaxFaults \in Nat
ASSUME PlansAssumption ==
    PlanRepo \in [Plan -> Repo] /\ PlanCommit \in [Plan -> Commit] /\ Expiry \in [Plan -> Int]
ASSUME ProcessesAssumption == Worker \notin Shot /\ None \notin Plan \cup Shot \cup {Worker}
ASSUME TriesAssumption == MaxTries \in Nat \ {0} /\ RetryLimit \in Nat

VARIABLES
    hub, clock, attempts, binding, told, selected, profile, detection, changes, faults,
    plan,      \* run, checkpoint, revocations, attempt, reservation and job of each plan
    context,   \* the investigation row of each plan and its job
    proc,      \* the processes
    fresh      \* whose heartbeat row is younger than 45 seconds

Proc == Shot \cup {Worker}
stagingVars == <<plan, context, proc, fresh>>
----------------------------------------------------------------------------
NoPlan == [run |-> "none", source |-> "pending", revoked |-> FALSE, attempt |-> "none",
           slot |-> "none", job |-> "none"]
NoContext == [state |-> "none", tries |-> 0, owner |-> None, live |-> FALSE, job |-> "none", left |-> 0]
Quiet(at) == [at |-> at, kind |-> "none", plan |-> None, done |-> FALSE]

Staged(p) == plan[p].run # "none"
Granted(p, t) == Staged(p) /\ ~plan[p].revoked /\ Expiry[p] > t
Preparing(p) == context[p].state \in {"created", "preparing"}

\* What of a plan is not finished, besides its grants.
HeldUp(p) ==
    \/ plan[p].run \in {"created", "running"} \/ plan[p].attempt = "active"
    \/ plan[p].slot \in {"held", "ambiguous"} \/ Preparing(p)

\* hasRepositorySwitchConflict at time t.
LiveWork(t) == \E p \in Plan : HeldUp(p) \/ Granted(p, t)

Access == INSTANCE RepositoryAccess WITH busy <- [t \in 0..MaxClock |-> LiveWork(t)]
ASSUME ContentAssumption ==
    MaxDepth \in Nat /\ MaxScripts \in Nat /\ \A c \in Commit : Access!IsManifest(Content[c])

accessVars == <<hub, clock, attempts, binding, told, selected, profile, detection, changes, faults>>
vars == <<accessVars, stagingVars>>

PlanRows ==
    [run : {"none", "created", "running", "ready", "baseline_failed", "failed", "cancelled"},
     source : {"pending", "matched", "mismatched"}, revoked : BOOLEAN, attempt : {"none", "active", "ended"},
     slot : {"none", "held", "closed", "ambiguous"},
     job : {"none", "created", "active", "completed", "failed", "cancelled"}]

ContextRows ==
    [state : {"none", "created", "preparing", "ready", "failed"}, tries : 0..MaxTries, owner : Proc \cup {None},
     live : BOOLEAN, left : 0..RetryLimit, job : {"none", "created", "active", "retry", "completed", "failed"}]

Processes ==
    [at : {"unused", "up", "claim", "take", "authority", "reserve", "sandbox", "read", "persist", "fail",
           "settle", "off"},
     kind : {"none", "baseline", "context"}, plan : Plan \cup {None}, done : BOOLEAN]

TypeOK ==
    /\ Access!TypeOK
    /\ plan \in [Plan -> PlanRows] /\ context \in [Plan -> ContextRows]
    /\ proc \in [Proc -> Processes] /\ fresh \subseteq Proc

Init ==
    /\ Access!InitAccess /\ selected.repo # None
    /\ plan = [p \in Plan |-> NoPlan] /\ context = [p \in Plan |-> NoContext]
    /\ proc = [x \in Proc |-> Quiet(IF x = Worker THEN "off" ELSE "unused")]
    /\ fresh = {}
----------------------------------------------------------------------------
\* Shorthands.

Calm == UNCHANGED accessVars
Fault == Access!Fault /\ UNCHANGED <<hub, clock, attempts, binding, told, selected, profile, detection, changes>>
At(x, at, kind) == proc[x].at = at /\ proc[x].kind = kind
P(x) == proc[x].plan
Goto(x, at) == proc' = [proc EXCEPT ![x].at = at]
Conclude(x, done) == proc' = [proc EXCEPT ![x].at = "settle", ![x].done = done]
Alive(x) == proc[x].at \notin {"unused", "off"}
Works(x) == Alive(x) /\ proc[x].at # "up"
Handled(p, kind) == \E x \in Proc : Works(x) /\ P(x) = p /\ proc[x].kind = kind
SetPlan(p, changed) == plan' = [plan EXCEPT ![p] = changed]
SetContext(p, changed) == context' = [context EXCEPT ![p] = changed]

\* The process ends; a one-shot is not started again, the worker takes its next job.
Ends(x) ==
    /\ proc' = [proc EXCEPT ![x] = Quiet(IF x = Worker THEN "up" ELSE "off")]
    /\ fresh' = IF x = Worker THEN fresh ELSE fresh \ {x}
----------------------------------------------------------------------------
\* Staging and retirement.

\* What the selection, the profile and the installation must still be.
AuthorityOf(p) ==
    /\ selected.repo = PlanRepo[p]
    /\ profile[PlanRepo[p]] = [status |-> "ready", commit |-> PlanCommit[p]]

AccountTaken(p) == \E q \in Plan \ {p} : Granted(q, clock)

\* assertReviewedPlanIntegrity: the whole set of grants, and only it.
Integrity(p) ==
    /\ Granted(p, clock) /\ ~AccountTaken(p) /\ AuthorityOf(p)
    /\ plan[p].run \in {"created", "running", "ready"} /\ plan[p].source \in {"pending", "matched"}

Stageable(p) == ~LiveWork(clock) /\ ~AccountTaken(p) /\ AuthorityOf(p) /\ Expiry[p] > clock

\* A replay of a staged plan only gets its receipt again.
Stage(p) ==
    /\ ~Staged(p) /\ Stageable(p)
    /\ SetPlan(p, [NoPlan EXCEPT !.run = "created", !.job = "created"])
    /\ Calm /\ UNCHANGED <<context, proc, fresh>>

\* (mutant) The job is not looked at.
UntouchedRun(p) == plan[p].run = "created" /\ ~plan[p].revoked /\ plan[p].attempt = "none"

Untouched(p) ==
    /\ plan[p].run = "created" /\ plan[p].job = "created" /\ plan[p].source = "pending" /\ ~plan[p].revoked
    /\ plan[p].attempt = "none" /\ plan[p].slot = "none" /\ context[p].state = "none"

\* Works after the plan has expired; a replay finds it already retired.
Retire(p) ==
    /\ Untouched(p)
    /\ SetPlan(p, [plan[p] EXCEPT !.run = "cancelled", !.job = "cancelled", !.revoked = TRUE])
    /\ Calm /\ UNCHANGED <<context, proc, fresh>>
----------------------------------------------------------------------------
\* One-shot processes: the heartbeat, then one claim.

Launch(s, kind, p) ==
    /\ proc[s].at = "unused" /\ Staged(p)
    /\ proc' = [proc EXCEPT ![s] = [Quiet("claim") EXCEPT !.kind = kind, !.plan = p]]
    /\ fresh' = fresh \cup {s}
    /\ Calm /\ UNCHANGED <<plan, context>>

Claimable(p) ==
    /\ plan[p].run = "created" /\ plan[p].source = "pending" /\ plan[p].attempt = "none" /\ plan[p].slot = "none"
    /\ Worker \notin fresh /\ Integrity(p) /\ plan[p].job = "created"

ClaimBaseline(s) ==
    /\ At(s, "claim", "baseline")
    /\ IF Claimable(P(s))
       THEN SetPlan(P(s), [plan[P(s)] EXCEPT !.job = "active"]) /\ Goto(s, "take") /\ UNCHANGED fresh
       ELSE Ends(s) /\ UNCHANGED plan
    /\ Calm /\ UNCHANGED context

\* The run is still created: its job can no longer be retired.
TakeBaseline(s) ==
    /\ At(s, "take", "baseline") /\ Goto(s, "authority")
    /\ SetPlan(P(s), [plan[P(s)] EXCEPT !.run = "running", !.attempt = "active"])
    /\ Calm /\ UNCHANGED <<context, fresh>>

EndRun(s, run, source, slot) ==
    /\ SetPlan(P(s), [plan[P(s)] EXCEPT !.run = run, !.source = source, !.slot = slot, !.attempt = "ended"])
    /\ Conclude(s, TRUE)

\* (mutant) Left for a retry, which a one-shot's job does not have.
FailRetryable(s, slot) == EndRun(s, "running", plan[P(s)].source, slot)

\* A one-shot's run gets no second attempt: whatever went wrong is final.
FailRun(s, slot) == EndRun(s, "failed", plan[P(s)].source, slot)

CheckBaseline(s) ==
    /\ At(s, "authority", "baseline")
    /\ IF Integrity(P(s)) THEN Goto(s, "reserve") /\ UNCHANGED plan ELSE FailRun(s, "none")
    /\ Calm /\ UNCHANGED <<context, fresh>>

Reserve(s) ==
    /\ At(s, "reserve", "baseline")
    /\ IF Granted(P(s), clock)
       THEN SetPlan(P(s), [plan[P(s)] EXCEPT !.slot = "held"]) /\ Goto(s, "sandbox")
       ELSE FailRun(s, "none")
    /\ Calm /\ UNCHANGED <<context, fresh>>

\* The baseline ran: its evidence ends the run and settles the source checkpoint.
Sandbox(s) ==
    /\ At(s, "sandbox", "baseline")
    /\ \/ /\ \/ \E run \in {"ready", "baseline_failed"}, source \in {"matched", "mismatched"} :
                    EndRun(s, run, source, "closed")
             \/ FailRun(s, "closed")
          /\ Calm
       \/ FailRun(s, "ambiguous") /\ Fault    \* the answer to the creation is lost
    /\ UNCHANGED <<context, fresh>>

\* (mutant) A run that did not come to a verdict leaves its job as it is.
SettleDecided(s) ==
    /\ At(s, "settle", "baseline") /\ Ends(s)
    /\ IF plan[P(s)].run \in {"ready", "baseline_failed"}
       THEN SetPlan(P(s), [plan[P(s)] EXCEPT !.job = "completed"])
       ELSE UNCHANGED plan
    /\ Calm /\ UNCHANGED context

SettleBaseline(s) ==
    LET settled == proc[s].done /\ plan[P(s)].run \in {"ready", "baseline_failed"}
    IN  /\ At(s, "settle", "baseline") /\ Ends(s)
        /\ SetPlan(P(s), [plan[P(s)] EXCEPT !.job = IF settled THEN "completed" ELSE "failed"])
        /\ Calm /\ UNCHANGED context
----------------------------------------------------------------------------
\* The context of the investigation.

CreateInvestigation(p) ==
    /\ context[p].state = "none" /\ Integrity(p)
    /\ plan[p].run = "ready" /\ plan[p].source = "matched"
    /\ SetContext(p, [NoContext EXCEPT !.state = "created", !.job = "created", !.left = RetryLimit])
    /\ Calm /\ UNCHANGED <<plan, proc, fresh>>

\* No other process that could do the same work has been heard of for 45 seconds.
Alone(s) == \A x \in fresh \ {s} : x # Worker /\ proc[x].kind # "context"

SourceAuthority(p) == Integrity(p) /\ plan[p].source = "matched" /\ plan[p].slot # "ambiguous"

PhaseClaimable(s) ==
    /\ plan[P(s)].run = "ready" /\ SourceAuthority(P(s)) /\ Alone(s)
    /\ context[P(s)].state = "created" /\ context[P(s)].job = "created"

\* The claim leaves the job no retries.
ClaimContext(s) ==
    /\ At(s, "claim", "context")
    /\ IF PhaseClaimable(s)
       THEN SetContext(P(s), [context[P(s)] EXCEPT !.job = "active", !.left = 0]) /\ Goto(s, "take") /\ UNCHANGED fresh
       ELSE Ends(s) /\ UNCHANGED context
    /\ Calm /\ UNCHANGED plan

Busy(c) == c.state = "preparing" /\ c.live
Spent(c) == c.state = "preparing" /\ ~c.live /\ c.tries >= MaxTries

\* processInvestigationJob's claim of the row; a one-shot rechecks its authority.
TakeContext(x) ==
    LET c == context[P(x)]
    IN  /\ At(x, "take", "context")
        /\ IF ~Preparing(P(x)) THEN Conclude(x, TRUE) /\ UNCHANGED context
           ELSE IF Busy(c) THEN Conclude(x, FALSE) /\ UNCHANGED context
           ELSE IF Spent(c)
           THEN Conclude(x, TRUE) /\ SetContext(P(x), [c EXCEPT !.state = "failed", !.owner = None])
           ELSE /\ Goto(x, IF x = Worker THEN "read" ELSE "authority")
                /\ SetContext(P(x), [c EXCEPT !.state = "preparing", !.tries = @ + 1, !.owner = x, !.live = TRUE])
        /\ Calm /\ UNCHANGED <<plan, fresh>>

CheckContext(s) ==
    /\ At(s, "authority", "context")
    /\ Goto(s, IF SourceAuthority(P(s)) THEN "read" ELSE "fail")
    /\ Calm /\ UNCHANGED <<plan, context, fresh>>

\* The tree is read at the run's commit with a token of the installation.
Read(x) ==
    /\ At(x, "read", "context")
    /\ \/ Goto(x, IF Access!Readable(PlanRepo[P(x)]) THEN "persist" ELSE "fail") /\ Calm
       \/ Goto(x, "fail") /\ Fault
    /\ UNCHANGED <<plan, context, fresh>>

Owns(x) == context[P(x)].state = "preparing" /\ context[P(x)].owner = x
Release(c, state) == [c EXCEPT !.state = state, !.owner = None, !.live = FALSE]

\* The token decides, not the lease.
Persist(x) ==
    /\ At(x, "persist", "context") /\ Conclude(x, Owns(x))
    /\ IF Owns(x) THEN SetContext(P(x), Release(context[P(x)], "ready")) ELSE UNCHANGED context
    /\ Calm /\ UNCHANGED <<plan, fresh>>

RecordFailure(x) ==
    LET last == context[P(x)].tries >= MaxTries
    IN  /\ At(x, "fail", "context") /\ Conclude(x, Owns(x) /\ last)
        /\ IF Owns(x) THEN SetContext(P(x), Release(context[P(x)], IF last THEN "failed" ELSE "created"))
           ELSE UNCHANGED context
        /\ Calm /\ UNCHANGED <<plan, fresh>>

FailJob(c) == IF c.left > 0 THEN [c EXCEPT !.job = "retry", !.left = @ - 1] ELSE [c EXCEPT !.job = "failed"]

\* The queue settles by the job's id, whoever has it; a one-shot also looks at the row.
SettleContext(x) ==
    LET c == context[P(x)]
        settled == proc[x].done /\ (x \in Shot => ~Preparing(P(x)))
    IN  /\ At(x, "settle", "context") /\ Ends(x)
        /\ IF c.job = "active"
           THEN SetContext(P(x), IF settled THEN [c EXCEPT !.job = "completed"] ELSE FailJob(c))
           ELSE UNCHANGED context
        /\ Calm /\ UNCHANGED plan
----------------------------------------------------------------------------
\* The general worker: it starts beside anything, and never sees the reviewed queue.

Revived(p) == Preparing(p) /\ context[p].job = "failed"

WorkerStarts ==
    /\ proc[Worker].at = "off" /\ Goto(Worker, "up") /\ fresh' = fresh \cup {Worker}
    /\ context' = [p \in Plan |-> IF Revived(p) THEN [context[p] EXCEPT !.job = "retry"] ELSE context[p]]
    /\ Calm /\ UNCHANGED plan

WorkerStops ==
    /\ proc[Worker].at = "up" /\ Goto(Worker, "off") /\ fresh' = fresh \ {Worker}
    /\ Calm /\ UNCHANGED <<plan, context>>

Fetch(p) ==
    /\ proc[Worker].at = "up" /\ context[p].job \in {"created", "retry"}
    /\ SetContext(p, [context[p] EXCEPT !.job = "active"])
    /\ proc' = [proc EXCEPT ![Worker] = [Quiet("take") EXCEPT !.kind = "context", !.plan = p]]
    /\ Calm /\ UNCHANGED <<plan, fresh>>

\* Supervision fails a job whose process is silent.
Supervise(p) ==
    /\ Alive(Worker) /\ context[p].job = "active"
    /\ IF Handled(p, "context") THEN Fault ELSE Calm   \* silent while it works
    /\ SetContext(p, FailJob(context[p])) /\ UNCHANGED <<plan, proc, fresh>>

Renewed(p) == \E x \in Proc : Works(x) /\ context[p].owner = x /\ P(x) = p

LeaseLapses(p) ==
    /\ Busy(context[p])
    /\ IF Renewed(p) THEN Fault ELSE Calm
    /\ SetContext(p, [context[p] EXCEPT !.live = FALSE]) /\ UNCHANGED <<plan, proc, fresh>>

\* A process dies, or a one-shot is told to stop right after its claim; its row stays.
Dies(x) ==
    /\ Works(x) /\ Fault /\ Goto(x, "off") /\ UNCHANGED <<plan, context, fresh>>

Stale(x) ==
    /\ x \in fresh /\ ~Alive(x) /\ fresh' = fresh \ {x}
    /\ Calm /\ UNCHANGED <<plan, context, proc>>
----------------------------------------------------------------------------
Handle(x) ==
    \/ ClaimBaseline(x) \/ TakeBaseline(x) \/ CheckBaseline(x) \/ Reserve(x) \/ Sandbox(x) \/ SettleBaseline(x)
    \/ ClaimContext(x) \/ TakeContext(x) \/ CheckContext(x) \/ Read(x) \/ Persist(x) \/ RecordFailure(x)
    \/ SettleContext(x)

Environment ==
    \/ \E p \in Plan :
        \/ Stage(p) \/ Retire(p) \/ CreateInvestigation(p) \/ Fetch(p) \/ Supervise(p) \/ LeaseLapses(p)
        \/ \E s \in Shot, kind \in {"baseline", "context"} : Launch(s, kind, p)
    \/ WorkerStarts \/ WorkerStops
    \/ \E x \in Proc : Dies(x) \/ Stale(x)

Next ==
    \/ Access!Step /\ UNCHANGED stagingVars
    \/ \E x \in Proc : Handle(x)
    \/ Environment

Spec == Init /\ [][Next]_vars

\* Processes go on, the worker polls and supervises, an unrenewed lease lapses.
Fairness ==
    /\ \A x \in Proc : WF_vars(Handle(x))
    /\ \A p \in Plan :
        /\ WF_vars(Fetch(p))
        /\ WF_vars(~Handled(p, "context") /\ Supervise(p))
        /\ WF_vars(~Renewed(p) /\ LeaseLapses(p))

FairSpec == Spec /\ Fairness
----------------------------------------------------------------------------
\* Nothing moves the selection or the profile away from under unfinished work,
\* whatever listing, selection or detection was under way when it began.
AuthorityStands ==
    \A p \in Plan : HeldUp(p) \/ Granted(p, clock) => AuthorityOf(p)

\* A retired plan never was and never is worked on, however late a claim of
\* its job arrives, and nothing of it holds up a switch.
RetiredIsUntouched ==
    \A p \in Plan : plan[p].run = "cancelled" =>
        /\ plan[p].job = "cancelled" /\ plan[p].slot = "none" /\ plan[p].attempt = "none"
        /\ context[p].state = "none" /\ \A x \in Proc : Works(x) /\ P(x) = p => proc[x].at = "claim"

\* A retry, a revival or a fetch is left for a context that is not decided:
\* its job is not completed under a delivery that found the row held.
ContextKeepsJob == \A p \in Plan : Preparing(p) => context[p].job # "completed"

\* Somebody is at it, or it can still be claimed or retired.
WayOut(p) ==
    \/ ~HeldUp(p) \/ Preparing(p)
    \/ plan[p].job = "created" \/ Handled(p, "baseline")

\* Without a crash or a lost answer (or the database error in a context's claim that is
\* not modelled) no plan blocks the repository for ever.
DeadEndOnlyByFault == \A p \in Plan : WayOut(p) \/ faults > 0

\* The rows have their types, no undecided context lost its job, and no plan its way out.
Consistent == TypeOK /\ ContextKeepsJob /\ DeadEndOnlyByFault

\* A one-shot's job does not stay active unless its process died; a running
\* worker decides every context, unless a one-shot left its job no retry.
Settles ==
    \A p \in Plan :
        /\ []<>(plan[p].job # "active" \/ faults > 0)
        /\ []<>(~Preparing(p) \/ context[p].job = "failed" \/ proc[Worker].at = "off")
=============================================================================
