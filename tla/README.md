# Verification of Vigilo

Vigilo repairs a GitHub repository under the eyes of its owner: it runs the
tests of a frozen revision in a Vercel Sandbox (the baseline), lets Gemini
investigate a failure and propose a candidate, verifies the candidate in a
second Sandbox, and publishes it as a pull request once a human has approved
it. Everything durable is in PostgreSQL; work is handed to worker processes by
PgBoss jobs. This directory holds TLA+ models of that machinery, TLC
configurations that check them, and proofs that TLAPS checks. `PROJECT.json`
lists the components with what is and is not modelled of each, the runs, the
hazards with the properties that cover them, and for every definition the lines
of the source it stands for.

## The system

| Part | Source | State it keeps | What makes it correct |
|---|---|---|---|
| External-execution authority | `lib/external-execution/{authority,business-fence,sandbox-transport}.ts`, triggers in `drizzle/0022`, `0024` | grants, revocations, reservations, leases, events, semaphore row; the permit in memory | no ceiling exceeded, no stale owner acts, an unknown outcome fences the run |
| Reviewed plan, staging, retirement | `lib/external-execution/reviewed-*.ts`, `local-*.ts`, `source-checkpoint.ts` | six grants per run, the inert baseline job, the source checkpoint | staging is all or nothing; retirement only of what never ran |
| Repair run | `lib/repair-runs/*` | run state, attempts, baseline job | one attempt at a time, the run ends as its evidence says |
| Investigation | `lib/investigations/*` | context entries, access attempts | context only from the frozen revision |
| AI investigation, candidate generation | `lib/ai-investigations/*`, `lib/ai-candidate-generations/*` | operation rows, attempts with tokens and leases | one active attempt, at most one paid request per key |
| Repair candidate | `lib/repair-candidates/*` | immutable candidate, files | a frozen candidate never changes |
| Candidate verification | `lib/candidate-verifications/*` | verification rows, attempts, evidence | verdict follows the evidence |
| Repair loop | `lib/repair-loops/*` | loop row with its wake job, iterations | one wake at a time, bounded iterations |
| Human review | `lib/human-reviews/*` | append-only decisions | the decision names exactly what was shown |
| Publication | `lib/repair-publications/*`, `lib/release-acceptance/*` | publication rows, attempts, stages | one branch and one draft pull request |
| GitHub access | `lib/github-app/*`, `lib/github-repositories/*` | installation, selected repository | no switch while work is unresolved |
| Baseline and profiles | `lib/repository-baselines/*`, `lib/execution-profiles/*` | evidence, detected profile | evidence is immutable |
| Sandbox boundary | `src/sandbox-boundary.ts` | one Sandbox per permit | stop, delete and absence are confirmed |
| Workers and operations | `worker/*`, `operations/*`, `lib/operations/*` | heartbeats, queues, rate-limit buckets | drained shutdown, bounded rates |
| Web, sign-in, presentation | `app/*`, `lib/auth/*`, `lib/presentation/*` | sessions | (rendering and a library; not modelled) |

How they interact: the web and the CLIs write rows and enqueue jobs in one
transaction; a worker claims a row by a conditional update with a random
ownership token, keeps a lease alive with a heartbeat, does the external work
through a permit of the authority, and finishes with an update that is
conditional on its token. PgBoss redelivers a job whose handler failed or
whose heartbeat stopped, so every handler must survive being run twice, late,
and while another copy of itself still runs. What is hard is everything
between two transactions: lapses, crashes, late answers and revocations.

## The modules

Nine modules are state machines: a transaction, or an exchange with a provider,
is one action, and a handler is a record of how far it has come and what it has
read. The others are pure: operators over the inputs of a parser, a derivation or
an audit, compared with a reference definition. A pure module has no run of its
own; it is instantiated by an `MC` module and its claims are ASSUMEs there, which
TLC evaluates over every small input before the run begins.

| Module | Models | Abstract specification | Checked in |
|---|---|---|---|
| `ExternalExecution`, `ExecutionAvailability` | the authority; the availability hint | `AuthorityLedger` | `mixed`, `sandbox`; proofs |
| `RepairRun` | baseline stage of a run | `RunLifecycle` | `run_faults`, `run_lost`; proofs |
| `RepairLoop` | rounds of generation and verification | `BoundedLoop` | `loop_stalls`, `loop_faults`; proofs |
| `AiAttempt` | AI investigation, AI candidate generation | `PaidRequest` | `ai`; proofs |
| `CandidateVerification` | verifications of one candidate | | `verification`; proofs |
| `Publication` | human review, release gate, publication worker | `OneDraft` | `publication`; proofs |
| `RepositoryAccess` | installation, listing, selection, profile detection | | `access`, `listing`; proofs |
| `ReviewedStaging` | reviewed plans over `RepositoryAccess`, one-shots, context job | | `workspace`; proofs |
| `LocalOperator` | the pages that stage and retire (explored by `Reached`) | | `workspace` |
| `ReviewedPlan` | plan, grants, budgets, pinned identity | | `workspace` |
| `Readiness` | when the service calls itself ready | | `workspace` |
| `ProfileDetector`, `ShellScript` | the detector; how it reads scripts | | `access`, `workspace`; proofs |
| `GitHubClient` | bodies, listings, tokens, parsed commits and pull requests | | `access` |
| `RateLimit` | request limits | | `access` |
| `FrozenCandidate` | a candidate frozen, rebuilt, written to GitHub | | `publication` |
| `AcceptanceAudit` | release acceptance and its audit | | `publication` |
| `BaselineRecovery` | the objective of a loop, and the reviewer's comparison | | `loop_*` |
| `ContextReads` | lists, files and searches of the frozen source | | `ai` |
| `ArchiveExtraction` | unpacking the source archive chunk by chunk | | `run_*` |

The `MC` modules give TLC its small instances, symmetry sets and state
constraints. An operator whose comment says *mutant* is a faulty variant of a
definition below it, used to see that each property can fail.

### The authority

* `ExternalExecution`: the authority. Its state is the rows (`reservation`,
  `lease`, `attempt` for the attempt events, `revoked`), the clock, and the
  permit objects in memory (`permit`, `session`). Every transaction of
  `authority.ts` takes the semaphore row first, so each is one action:
  `Reserve`, `Begin`, `Authorize` (assertOwnership), `Settle`, `ConfirmCreation`
  and `AbandonCreation` (resolveSandboxCreation), `Renew`, `Complete`.
  `meteredFetch` is the chain `Begin`, `Authorize`, `Send`, `Settle`, any number
  of which run at once; `RefuseLocally` and `SettleRefused` are its error paths.
  `Crash` loses the permit, `Revoke`, `Exhaust` and `Tick` are the environment.
* `AuthorityLedger`: what the authority promises about money; `LedgerSpec` in
  `ExternalExecution` is the refinement.
* `ExecutionAvailability`: `resolveExecutionAvailability`, the hint the workspace
  page shows, computed over the same state; `HintIsRight` compares it with what
  `Reserve` would answer.
* `ExternalExecutionProofs`: the theorems, of one reservation and its budget, and of
  several at once.

Abstractions. Tokens and runtime are further dimensions handled like the five
kept; two of them (tokens) reappear as `SettleRefused` of a Gemini success, which
the event trigger refuses when usage exceeds the allowance. Identity digests,
the reviewed-plan and the source-checkpoint checks only ever refuse: they are
in `ReviewedPlan` and `ReviewedStaging` and left out here, as is the fence number: it is compared for equality with the value
read from the same row, which a trigger makes immutable, so it decides nothing
beyond the ownership token. A grant's `version`, provider and model are part of
what makes two operation grants of the same scope (`SameScope`).

### The repair run

* `RepairRun`: the baseline stage of one run. State: the `repair_run` row
  (`run`), its attempts (`attempt`, with the ownership token and whether the
  lease is live), the stored evidence, the Sandboxes that exist, the PgBoss
  `job`, and for each handler where it is in `processRepairJob` and what it
  read (`handler`). `Claim` is `claimAttempt` with its six outcomes; `Check` to
  `Finish` is `executeAttempt` with the Sandbox calls of `sandbox-boundary.ts`;
  `Recover` and `Abandon` are `recoverStaleAttempt`; `Transition` is
  `transitionRepairRun`. `Deliver`, `ReplyJob`, `TimeOut`, `Restart` are PgBoss
  and the worker's start; `Lapse*` the clock. A reviewed run (`OneShot`) has
  the one-shot service, which handles its job exactly once. Of the authority only
  two things are kept: any call may be refused, and an unknown outcome may
  fence the run (`fenced`).
* `RunLifecycle`: the abstract run: attempts one after another, at most one
  decided, none after that; `LifecycleSpec` is the refinement.
* `RepairRunProofs`: the theorems.

### The repair loop

* `RepairLoop`: the rounds of generation and verification, which no process
  waits for: a wake job looks at the loop, does one thing and puts the next
  wake on the queue. State: the loop row with its current wake, the iterations
  with what their generation and verification have come to, the `lease` of each
  iteration's reservation, the wake jobs, and each handler's reads. The phases
  of a handler follow `reconcile`: `Fence`, `Start`, `ReadLoop`,
  `ReadIteration`, `authorizeIteration` (`ExistingAuthority`, `Reserve`,
  `Complete`), then `Act` on what was read: `Poll`, `EndUnverified`, `Bind`, or
  `Judge` a verification (`Stop`, `Conclude`, `Feedback` and `Succeed`). `Fail`
  is `failIntegrity` and `failInfrastructure`; `DatabaseError` breaks any step.
  The other stages are `GenerationEnds` and `VerificationEnds`.
* `BoundedLoop`: the abstract loop: decisions in order, never revised, and the
  state that follows from the last; `LoopSpec` is the refinement.
* `RepairLoopProofs`: the theorems.

Wake jobs have random identities in the code. Here they come from the finite set
`Wake`, and one is used again when it is neither current nor in a handler's
hands: another delivery of such a job would find that it is not current and
change nothing. With two handlers three identities are enough.

### The AI jobs

* `AiAttempt`: one job of either kind (`kind`); the two workers share the
  leased-attempt protocol, and differ in what success stores and in the adoption
  of a candidate an earlier attempt froze. State: the operation row, its
  `attempts`, the audited context operations (`events`), what was sent to the
  provider (`wire`), the PgBoss `job`, the `handler` records. `Step(h)` is one
  transaction or call of the worker and the runner's session: claim, takeover of
  a lapsed attempt, turn, tool call, conclusion, failure. `AssertOwnership` and
  `Send` are two steps, as the answer of the last assertion
  (`gemini-provider.ts:185`) and the call (`:197`) are: between them a process may
  stall, lose its lease, and see its job decided by another delivery. `Resume` is
  what such a process meets when it goes on. The heartbeat is asynchronous and aborts
  only when its refusal arrives (`ai-investigations/worker.ts:126`); the session's own
  limit of three minutes is a timer that is overdue whenever the lease of four minutes
  has lapsed, and aborts before anything asked of the database from then on is
  answered. An answer that was already there is acted on first, so an asserted call
  still goes out; and before a session begins there is only the heartbeat.
  `Retire` is the owner's retirement of work that was never claimed.
* `PaidRequest`: one attempt at most sends, one call at a time, none twice, each
  put on record while the job is undecided. A decision may overtake the one call on
  record; after that nothing is left to send.
* `AiAttemptProofs`: the theorems.

### Verification

* `CandidateVerification`: rows, attempts with their evidence and Sandboxes, jobs,
  handlers, the `loop` beside the owner, and the `slot` of the authority that a
  recovery may find taken. A report is persisted in one transaction and concluded
  in two later ones; a crash between them is reconciled from the evidence.
* `CandidateVerificationProofs`: the theorems.

### Publication

* `Publication`: the decision, the release gate in its bootstrap and complete
  modes (`harness` is the local test harness), the publication row with its
  attempts, and GitHub, which is external: a call is applied or not and its answer
  may be lost (`AnswerLost`), and others change the repository
  (`RepositoryChanges`). GitHub here is the gateway the worker's interface
  promises: what was written is read back as it is. `GitHubClient` has what the
  production client makes of those answers, which is not the same (see
  *Observations*).
* `PublicationProofs`: the theorems.
* `OneDraft`: approved first, the branch before the draft, one draft, one outcome.

### Access and staging

* `RepositoryAccess`: attempts of three flows (install, list, select), each a
  callback, calls to GitHub, and one transaction; the binding, the selected
  repository, the detected profile. `busy` says when the workspace's work forbids
  a change; here the environment changes it.
* `ReviewedStaging` instantiates it with `busy` replaced by what its plans have
  unfinished (`LiveWork`): the switch guard and the work it guards against run
  against each other. Staging, replay, retirement, two one-shot processes, the
  general worker, the context job with its lease and supervision are actions. The
  baseline attempt ends in one step; its interior is `RepairRun`.
* `AccessProofs` and `WorkspaceProofs`: the theorems, of the one (and of the detector), and
  of both; the latter shows that `ReviewedStaging` implements `RepositoryAccess`.

### The pure modules

* `ReviewedPlan`: `BudgetsAgree` (the repair's protocol fits its grants, and leaves
  nothing for a recovery), `PlansStand`, `PlansArePinned` (every exchange of one
  or two reviewed facts is noticed).
* `LocalOperator`: `StagedOnce`, `RetiredTruly`, `PreviewsAreRight`: two posts of a
  form, a lost answer, an expiring plan; the page never claims what is not so.
* `Readiness`: `ReadinessIsTrue` over ledgers, tables, queues and three workers.
* `ProfileDetector`: `WalkIsReachability`, the bounded depth-first walk against a
  reference without walk, order or bounds, on 32,000 script graphs; `AccessProofs`
  proves it of all (`DetectorAgrees`). `ShellScript`: `ScriptsAreRead`, the two
  scanners against one, on every script of five characters.
* `GitHubClient`: `ListingsAreRead` (whole if nothing changes between pages; what a
  removal hides), `BodiesAreRead`, `TokensAreChecked`, `OwnObjectsAreRefused`.
* `RateLimit`: `RequestsAreLimited`, `ClientsCannotChoose`, `ReadingIsCharged`.
* `FrozenCandidate`: `WhatIsVerifiedIsPublished` (freezing, reconstruction and
  publication agree on every small tree and proposal, up to the named
  differences), `ObjectsNameTheirLeaves`, `SomeAreFrozen`.
* `AcceptanceAudit`: `AuditTellsSettledExecutions` (against every log the authority
  can write), `OneClockOrNone`, `LoopsAreAcceptedWhole`, `SubjectsAgree`.
* `BaselineRecovery`: `ObjectiveIsTheFailure`, `SomeAreNotReviewable`.
* `ContextReads`: `ReadersAreHonest`, `FilesAreFrozen`, `SomeSearchesAreCut`.
* `ArchiveExtraction`: `TreesAreUnpacked`, `StreamsMayBeCut` (any chunking).

## The runs

| Run | Shows | Bounds |
|---|---|---|
| `mixed` | slots, stale owners, dead grants, the hint, refinement of the ledger | 3 keys, a model grant and the one-shot bootstrap, 2 accounts with concurrency 1 and 2; ceilings 1 and 2, so that each denies somewhere; clock 2; 1 revocation or crash, 1 exhausted counter |
| `sandbox` | what reaches the provider, certainty, the fence of an ambiguous run | 2 keys, 2 requests per permit, 1 at a time, clock 2, 1 crash; two identities, so the budget alone would allow a replacement |
| `run_faults` | quiet end, evidenced verdict, clean abandonment, reviewed runs, the lifecycle, every run ends or waits for a worker start | ordinary and reviewed job, 2 handlers, 2 attempts, retry limit 3, 1 crash or database error, 1 stall, 1 restart |
| `run_lost` | a finding (violation) | 2 handlers, 3 attempts, 2 stalls |
| `loop_stalls` | no lost wake, measured selection, paid rounds, inert stale deliveries, the bounded loop | 2 handlers, 3 wakes, 2 rounds, 1 stall |
| `loop_faults` | the loop ends or waits for a worker start | 1 handler, 2 wakes, 2 rounds, 1 crash, 1 database error, 1 restart; reviewed, but with a ceiling of 2, so that the second round is reached |
| `ai` | one payer, backed verdicts, nothing stranded but by a fault, an end | both kinds, 2 handlers, 2 attempts, retry limit 2, 2 tool turns, calls, operations and bytes, 1 fault |
| `verification` | evidenced verdicts, the customer's code runs once, the loop holds the candidate, an end | 2 handlers, 1 verification, 2 attempts, retry limit 1, an allowance of 3 reservations, 1 fault |
| `publication` | one draft, one writer, a spent complete gate, an end | 2 handlers, 2 attempts, retry limit 1, 2 faults, 1 change by others |
| `access` | who is told "connected" is bound; a ready profile runs | 2 workspaces, 1 repository, 2 commits, 2 attempts, clock 1, 1 change, 1 fault |
| `listing` | a finding (violation) | 1 workspace, 1 repository, 2 attempts, clock 2 |
| `workspace` | authority stands under work, retirement and claim exclude each other, what is claimed is settled | 2 plans (of r1; r2 is what may be switched to), 2 one-shots, 1 worker, 1 attempt of a flow, clock 1, 1 fault, the constraint `Bounds` |

Why these bounds. In the authority, leases last one tick of a clock of two and
grants expire at different ticks, so every order of lapse, expiry, answer and
reservation occurs; two keys relate a reservation to a later one, a third makes a
count differ from its limit by more than one step. Its named bounds are
`MaxTime`, `MaxRevoked`, `MaxFaults`, `MaxExhausted`, and `MaxInFlight` (a state
constraint). The other modules but `RepositoryAccess` and `ReviewedStaging` have
no clock: a lease is live or it has lapsed. There the bounds are on faults:
`MaxCrashes` (handlers that die), `MaxStalls` (leases and jobs taken from a
handler that lives: the only way two handlers work at once), `MaxErrors`
(failing database operations), `MaxLosses` (in `RepairRun`, both: handlers that die or
end in a database error), `MaxRestarts` (worker starts that retry a failed
job), or `MaxFaults` for all of these together, and `MaxChanges` for what others
do. `MaxAttempts`, `RetryLimit`, `MaxIterations`, `MaxToolTurns` and the like are
the code's own limits, made small but large enough to be reached. Two handlers
suffice where a hazard is between an old owner and a new one; a third would need
a second stall and be refused by the same token. Without a stall one handler at
a time works, so `loop_faults` has one. `publication` needs two faults: an
answer that is lost and the death of the handler that was waiting for it.

`Bounds` of the `workspace` run keeps three situations and leaves out their
combination, for its size: GitHub is consulted beside one one-shot at most and no
fault; one-shots meet a fault; the two plans meet.

`AbandonedIsClean` speaks of behaviours without a stall, and `ReviewedRunEnds` of those
with neither a stall nor a database error that escapes `processRepairJob`; both say so.
With a stall, `run_lost` shows what may be left behind, and a reviewed handler that
lost its lease leaves its run open. With such an error (`DatabaseFails`: the claim,
`finishAttempt` and `transitionRepairRun` are not guarded) the one-shot service
fails the job whatever the run has come to (`one-shot-service.ts:63`, `73`). These two
are the only ways, whatever crashes and fences come between.

Deadlock is not checked: clock and faults are bounded, and a run, loop, job or
publication that has ended stops.

### Fairness

No liveness is claimed of the authority or of `RepositoryAccess`: nothing in them
is scheduled, they only answer calls. Elsewhere weak fairness is assumed of

* each handler's steps (`HandlerStep`, `Step`, `Handle`: the event loop runs on; a
  handler that dies is `Crash`), and `Resume` of a stalled one;
* `Deliver`, `Fetch` (PgBoss polls its queues), `TimeOut`, `Expire`, `Supervise` of
  a job without a living holder (`queue-supervision.ts:62`);
* `Lapse`, `LapseDead`, `ReservationLapses`, and `LeaseLapses` of what nobody
  renews (time passes);
* `Start` in `AiAttempt` (the stage before hands on);
* `GenerationEnds` and `VerificationEnds` in the loop: the loop polls for ever
  while the other stages do not end; `ai` and `verification` check, on their own
  instances, that those do end or leave a spent job.

Nothing is assumed of `Restart`, of the user, or of faults. That is why the
liveness properties say that the work ends *or* its job has failed: a failed job
is picked up only by the next worker start (`worker/main.ts:78`). A reviewed run
(`OneShot`) is excluded from `EndsOrWaits`: nobody supervises its queue, by design.

## Proofs

`ExternalExecutionProofs` proves, for every set of grants, keys, ceilings and
every lease time:

* `TypeCorrect`: `Spec => []TypeOK`.
* `Certainty`: `Spec => []SucceededIsCertain`. It is inductive only together
  with `OpenIsStarted` (an attempt that its process has not finished with has
  no outcome), because a late step of an attempt must not overwrite one.
* `StaleOwner`, `DeadGrant`: the action properties, from one lemma
  (`GainsOwned`): whatever a step lets a reservation do, its permit holder owns
  at that instant a live lease under two live grants.
* `BudgetSafe`: `Spec => []BudgetNeverExceeded`, which the `mixed` run checks as part
  of the ledger (`LedgerSpec`). The sum of the reserved amounts
  is the cardinality of a set of units, so that a reservation adds a product
  set and the ceiling check bounds the union.

It goes on with what several reservations do together:

* `SlotsBounded`: `Spec => []ConcurrencyBound`.
* `AmbiguityFences`: `Spec => AmbiguityFencesRun`. A fenced run has an uncertain
  reservation, and no step is allowed business under one; the fence is kept because
  rows and outcomes are never undone and a lost permit learns nothing any more.
* `WireSafe`: `Spec => []WireWithinBudget`. The ordinal of an attempt is not
  checked against the grant, only against its reservation. The strengthening `PaidFor`
  says that every attempt is one of the units its reservation paid for, so that the
  requests on the wire are a subset of the reserved units, which `BudgetSafe` bounds.
* `LedgerRefines`: `Spec => LedgerSpec`. A reservation is the ledger's `Spend`, a
  request that leaves is its `Send`, and every other step leaves the money alone.
* `HintAgrees`: `Spec => []HintIsRight`. The hint and the authority count the same
  live leases; of the dimensions the hint compares with zero only those that an
  operation takes at least one unit of, so what fits is useful, and what is useful and
  does not fit is the remnant the property allows. Of the behaviour it needs the types.

The assumptions are those of the module (`GrantAssumption`: scopes are disjoint
and grants have their columns; `FiniteAssumption`: finitely many reservation keys and
accounts; `BoundAssumption`).

`RepairLoopProofs` proves, for any number of handlers and wake identities, any
ceiling and retry limit, and without a bound on crashes, stalls, errors and
restarts, from `LoopAssumption` (of which it needs that a loop has one or two
rounds, as the table's check says):

* `TypeCorrect`, `NoLostWake`, `OneRound`, `SelectionMeasured`, `RoundsPaidFor`:
  the invariants of the runs, and two they rest on.
* `StaleDelivery`: the action property `StaleIsInert`.
* `LoopRefines`: `Spec => LoopSpec`. Every step of the loop is a step of
  `BoundedLoop` or decides nothing.

They follow from `Invariance: Spec => []Inv`. A property of the rows alone is not
inductive: a handler acts in one transaction on what it read in earlier ones.
`HandlersOK` says, for each phase, what a handler may still rely on: what it has
read of the final kind still holds (`Known`); what may change holds as long as
its wake is the current one; a handler that acts has a reservation. The argument
that the other handlers' records survive a step is made once (`RecordKept`): a
step undoes nothing final (`Monotone`), and it either leaves the open round as
it is or gives the loop a wake no handler holds (`Kept`). Each action then only
has to show those two, the rows, and its own new record. Retries, stalls and
crashes only touch the jobs, the reservations and records that are given up, so
any number of them is covered.

`RepairRunProofs` proves, for any number of handlers, attempts and retries, and
without a bound on crashes, errors, stalls and restarts, from `RunAssumption` (at least one
attempt is allowed):

* `RowsAgree`: `Spec => []Consistent`; `VerdictEvidenced`:
  `Spec => []VerdictIsEvidenced`; `NothingLeftBehind`: `Spec => []AbandonedIsClean`.
* `LifecycleRefines`: `Spec => LifecycleSpec`.

None of them is inductive. `Inv` adds what the rows say of each other (`RowsOK`: only
the last attempt may be active, and only while the run is being worked on; a verdict
has its evidence; a Sandbox on record was named first) and what each handler may rely
on in its phase (`RecordOK`). Two of these carry the argument. A handler about to
transition the run has seen the last attempt settled (`Settling`), after which no
claim can follow, so that ending the attempt and ending the run may be two
transactions. And two handlers never execute the same attempt (`Apart`): a recovery
takes the ownership token but not the execution, so evidence, which is inserted
without asking for ownership, is still written at most once. Where no lease was taken
from a living handler (`Calm`) whoever works on an attempt owns it, alone; that is what
`AbandonedIsClean` needs, and, where no database error ended a handler either (`Smooth`),
`ReviewedRunEnds`. As in the loop, that the other
handlers' records survive a step is shown once (`RecordKept`), for every step that
keeps what a phase relies on (`Kept`).

`AiAttemptProofs` proves, for any number of workers, attempts, turns, calls and
faults, and for both kinds of job, from `ConstantsAssumption` (the bounds are natural
numbers, and the attempts are no more than the deliveries, as `queue.ts:9` and
`queue.ts:31` have them):

* `PaidOnce`: `Spec => PaidSpec`; `VerdictBacked`: `Spec => []VerdictIsBacked`;
  `BudgetsKept`: `Spec => []Consistent`; `QueueOutlastsAttempts`:
  `Spec => []StrandedOnlyByFault`.

The heart of `Inv` is `Alone`: while a handler is `Entitled`, no other attempt of the job
has sent anything. Entitled is who may still send a call: a handler in its session that
holds its attempt (the row is active and its lease live: `Holds`), or one whose asserted
call is neither sent nor aborted (`Pending`), whatever has become of its attempt. The claim establishes it, since it refuses to go on after a request that is
not recorded as failed locally (`RowsOK`: such a one was never sent), unless a candidate
is there to adopt, and then `Begin` opens no session. It lasts because only the latest
attempt is ever active, so that two handlers never both hold (`OneHolds`), and because
a call is put on record before it is asserted: a later attempt finds it there as a bare
start and gives the job up, so whoever is pending stays alone. A process that was stalled
anywhere else learns that it lost its lease before it is answered again (`Resume`). A
session that was aborted may still record outcomes of its own request, which changes
nothing about who has sent. For the verdict, what a session has seen is completed in
the log under its own attempt, and nothing ever takes a completed operation back
(`Grows`). The sizes in the log do not matter here, so it is typed by its attempts and
statuses only (`Logged`).

The budgets rest on `Inv` and three more invariants. `LogWithin`: the bytes of the log
are the number of its blocks (a set, so that an operation reserved adds a column and one
completed removes a part of it), and each admission bounds it. `TurnsWithin`: what a
session has asked is no more than it has counted, before or after the request depending
on the kind of job (`Counted`), and it counts no further than the reserved final turn.
`QueueOK`: a job nobody has taken is untouched. `QueueOutlastsAttempts` adds `Smooth`:
while nothing has gone wrong the one handler that is busy has the delivery and the latest
attempt, whose number is one more than the redeliveries spent, and it holds that attempt.
So no lease lapses, no delivery expires, and an attempt that may be retried is not the
queue's last delivery; this is where the attempts must not outnumber the deliveries.

`CandidateVerificationProofs` proves, for any number of workers, verifications,
attempts, retries and faults, from `ConstantsAssumption` (one verification at least is
allowed; `"free"` is no handler):

* `VerificationConsistent`: `Spec => []Consistent`; `CompletedIsEvidenced`:
  `Spec => []VerdictIsEvidenced`.
* `CustomerCodeRunsOnce`, `LoopAddsFirst`: the action properties `CodeRunsOnce` and
  `LoopHoldsVerification`.

Ownership alone does not give them: a handler whose attempt was taken over may still
create a Sandbox, run and insert evidence, so it is the rows that must exclude two of
them. `RecordOK` keeps apart what a handler knows by its token (`Token`, which a recovery
takes away) from what stays true without it: an attempt is named before its Sandbox is
created, by one handler only, so two handlers never have the Sandbox of the same attempt
(`Apart`), and evidence with a verdict is inserted by a handler that had it. That no
Sandbox is created once there is a verdict needs the authority: creation holds the one
slot of the account, and while it does, no other handler is about to persist a verdict as
the owner (`Alone`). `AttemptOK` and `RowOK` say what the attempts and rows keep of this:
a verdict belongs to the last attempt, its Sandbox is gone, and the attempt ended so.

`PublicationProofs` proves, for any number of workers, attempts, redeliveries, faults and
changes by others, from `ConstantsAssumption` (at least one attempt is allowed):

* `PublicationConsistent`: `Spec => []Consistent`; `ReservationHasOneWriter`:
  `Spec => []OneWriter`; `GateIsSpentWhenComplete`: `Spec => []CompleteGateIsSpent`.
* `PublicationImplementsOneDraft`: `Spec => DraftSpec`.

A handler's checkpoint is what it read or saved last, and another handler may have
published meanwhile. The invariant says what each phase may rely on: the phase fits the
checkpoint (`InStep`); a checkpoint that says something was written is right (`Evidenced`),
also in the hands of a handler that lost its attempt; only the first attempt ever comes to
the call that opens the pull request, and while it may still come there nobody has
(`BeforeAsk`); and what is written in production is written by the attempt that made the
reservation, since a reservation once made keeps its attempt. A handler that found the
attempts exhausted has no attempt, and still may conclude: it relies on there being no
active one (`Quiet`), which no later claim can change. As elsewhere, a step shows that it
undoes nothing the others rely on (`Grows`), and its own new record. For the refinement
each write is `OneDraft`'s write, and all other steps leave what was written alone.

`WorkspaceProofs` proves, for any number of workspaces, repositories, plans, one-shots,
attempts, tries, moments, changes and faults:

* `AuthorityOutlastsWork`: `Spec => []AuthorityStands`; `RetirementIsFinal`:
  `Spec => []RetiredIsUntouched`; `StagingConsistent`: `Spec => []Consistent`.

The assumptions are `AccessAssumption` and `TriesAssumption` (the bounds are numbers, and
no row is mistaken for none), `PlansAssumption` (a plan names one repository, one commit
and one expiry) and `ProcessesAssumption` (the general worker is not a one-shot); the last
part also uses `ContentAssumption`, that commits hold manifests.
`AuthorityStands` speaks of the selection, the profile and the plan's rows, and they are
changed by transactions that looked at a conflict earlier. What carries it over is
`TimesOK`: a flow's time is never after the clock, and `ConflictSeen`: a plan's grants only
expire, so a plan that forbids the change now also forbade it at the time the flow asks
for. `StagingOK` says how the columns of a plan, of a context and of a process agree, that
a job is claimed once, so no two processes carry the same baseline (`OneCarrier`), and
that without a fault a claimed baseline is carried by a living process
(`CarriedUnlessFault`): that one is why a dead end takes a fault, since the queue never
hands the job out again. Each step is first shown to be a move of a baseline, of a plan or
of a context (`BaselineMove`, `PlanMove`, `ContextMove`), which say what a move leaves
alone, and the invariant is proved once for each of the three.

The last part of `WorkspaceProofs` relates the composition to its component:

* `StagingImplementsAccess`: `Spec => Access!Spec`. `RepositoryAccess` by itself lets any
  work come and go, as long as it only expires; here that is shown of what plans really
  have unfinished (`WorkExpires`), and no step of staging, of a one-shot or of the worker
  touches what the flows read, but for the faults that are counted together.
* `FlowsKeepTheirPromises`: so what `AccessProofs` proves holds beside the plans. The
  module is instantiated with the work (`Flows`), and the assumptions it makes follow from
  the ones made here (`SameAssumptions`).
* `LivePlansRun`: put together with `AuthorityStands`, a plan that is unfinished or in
  force is, for as long as it is, of a commit whose `npm test` ends with one known runner.

`AccessProofs` proves, of `RepositoryAccess` by itself, whatever work comes and goes in the
workspaces, for any number of workspaces, repositories, commits and attempts:

* `ConnectionIsKept`: `Spec => []ConnectedIsBound`, from `NamesAssumption`: only `Bind`
  touches the binding, and it answers by what it left.
* `DetectorAgrees`: for every manifest and all bounds (`LimitsAssumption`), the walk says
  ready only of what the reference calls runnable, and within generous bounds of all of it.
* `ReadyProfilesRun`: `Spec => []ReadyIsRunnable`, from the two and `ContentAssumption`:
  every commit holds a manifest. That is what `package.json` may hold after it was read:
  finitely many scripts, each a sequence of commands that call a script, or a runner, or
  neither.

The detector is recursive twice, over the commands of a script and over the depth of the
calls, and the theorems are proved by induction. `LeastNumber` takes from the library that
every set of numbers has a least member; `Induction` and `Recursion` (the function that a
recursion describes exists) follow for sets and functions, with no operator for a
parameter. `FollowAllDef` and `VisitDef` apply them to the detector. What a call of the walk
has found is then described by `Sound`: the scripts that are read to the end call only one
another and none is in a loop, while those of the chain (`active`) are still being read; a
call that ends well adds its script to the former (`EnterSound`), for it refuses the ones
of the chain. For the converse, a rank of the scripts falls from each to those it calls, so
the chain is never met again and the depth outlasts the rank (`Within`, `EnterAccepts`).
`ReadyProfilesRun` adds that a profile's commit is one the detector called ready
(`Profiles`), which the request carries from its reading to its saving.

The bounds on faults (`MaxCrashes` and the others) are guards of the environment's
actions, so the theorems hold for every value of them.

## What is only model-checked

Every liveness property (`EndsOrWaits`, `EndsOrSpent`, `Settles`): liveness and ENABLED
are beyond the proof system. So, but for the detector's, are the claims of the pure
modules: each says what a recursive definition computes, and TLC evaluates them over every
small input. Every safety property of a passing run is a theorem.

## Findings

* `run_lost`: `README.md:63` says ownership tokens fence lost workers. A worker
  that only stalled between its last look at the attempt and the Sandbox call
  still creates a Sandbox for an attempt that was abandoned meanwhile. What
  limits it is the concurrency of one in the account grant (`authority.ts:230`). The
  sentence is a general one, and the trace needs more than a reviewed plan gives: a
  concurrency above 1, and a second logical request for the recovery.
* `listing`: the comment at `github-repositories/flow.ts:262` says that a listing
  begun before the latest selection cannot overwrite it. `updatedAt` is the time
  the selection's request started, not the time it was committed, so a listing
  that began in between passes the guard.

## Observations

What modelling the code showed, where no document says otherwise, or where the
property is of one computation and not of a behaviour. Each was read in the source
and, where a name is given, is what an operator exhibits.

*Publication and GitHub.*

* A publication can never succeed through the production client
  (`OwnObjectsAreRefused`): `nonemptyString` (`client.ts:132`) refuses control
  characters, in a commit message and in a pull request's body
  (`client.ts:334`, `351`), and Vigilo's own end with, or are joined by, line feeds
  (`git-objects.ts:193`, `identity.ts:69`). The worker compares them exactly
  (`repair-publications/worker.ts:165`, `260`). The tests use a fake gateway and a body of
  one line. `README.md:83` calls publication implemented, not live-accepted.
* An exhausted or withdrawn publication is reported `failed` though its branch or
  draft may exist (`docs/operations.md:160` says it remains in review).
* A listing hides a repository when another one is removed between two pages
  (`RemovalHides`); the hidden one is then deselected. A listing of exactly the
  maximum is an error; only the first 100 installations of a user are ever seen.
* Freezing accepts `.github/workflows/` and ancestors that differ in case, which
  publication refuses; candidates that delete a file never verify, as the runner's
  manifest holds the pristine paths; files under generated roots are a mismatch.
* A repair may be verified and yet not reviewable (`SomeAreNotReviewable`): the
  loop decides by the objective, the review asks for the whole comparison.

*The authority.*

* A reviewed plan leaves nothing for a recovery (`NothingIsLeft`): its one logical
  request is spent by the work, so `recoverSandbox` ends in
  `execution_budget_exhausted`.
* Ambiguity is not permanent (`README.md:65`) while a lapsed lease is unswept: its
  owner may still record `failed` (`authority.ts:385`). What is permanent is a
  recorded ambiguity and a lapsed request whose owner is gone.
* A clock of the worker ahead of, or behind, the database's makes the acceptance
  resolver refuse a genuine execution for good (`OneClockOrNone`); one failed
  reservation makes `repair_loop_live` acceptance impossible for good.
* One expired, unrevoked account grant makes the hint say invalid or expired where
  `reserve` would grant (the exact cases are in `HintIsRight`); one duplicate scope
  hides the others.
* A transient database failure in `reserve` or `complete` is reported as
  `execution_authority_mismatch` (`authority.ts:48`).
* An ambiguous reservation blocks a repository switch for good
  (`switch-guard.ts:79`).

*Workers.*

* The loop fails for good on `external_concurrency_unavailable`
  (`repair-loops/worker.ts:486`), while `presentation/policy.ts:69` says to refresh;
  a crash between `reserve` and `complete` of an iteration dooms the loop after
  15 minutes (`repair-loops/worker.ts:164`).
* A database error that escapes `processRepairJob` fails the job of a reviewed run and
  leaves the run `baseline_running` (`one-shot-service.ts:63`, `73`); nothing retries it.
  When the service's own reading or settlement fails, the job stays active, as after a
  crash.
* One AI request may leave after its job was decided by another delivery: the one whose
  assertion had been answered when the process stalled (`gemini-provider.ts:185`, `197`,
  `ai-investigations/worker.ts:126`).
* A transient database error in the resolution of a publication's authority is taken for
  a closed gate and ends the publication (`human-reviews/flow.ts:510`); one in the claim
  of a context is answered as a dead letter, `investigation_not_found`
  (`investigations/worker.ts:138`), which `ReviewedStaging` leaves out.
* `infrastructure_failed` with no classification (`repair-runs/worker.ts:188`): the
  table's check lets NULL pass.
* A transient error in a verification's claim is answered as
  `verification_not_found` (`candidate-verifications/worker.ts:290`); an exhausted attempt
  without evidence leads to another one on redelivery; `startRepairLoop` does not look
  at active manual verifications.
* A one-shot that dies after its baseline claim leaves the run active; grants that
  expire between the exact context claim and `assertSourceReadAuthority` leave the
  investigation active; two exact one-shots started together refuse each other;
  the general worker processes a reviewed run's context job without that
  assertion; `baseline_failed` in `createInvestigation` and `candidate_artifact_invalid` in
  the runner are never reached.
* `persistProfile` sets `updatedAt` to the start of its request; of concurrent
  detections the last writer wins.
* Replaying a staging answers `sourceCheckpointState: pending` and "No worker was
  started" even if the run has begun. An unmigrated database is reported as
  `database_unavailable`.

*Parsers.* `splitCommands` trims an escaped trailing blank and leaves a dangling
escape, so the script is refused; a command of empty quotes only is refused. The
detector compares `visited.size` even on a revisit. The descriptor of an empty
file is never closed (`archive.ts:181`). A search ends at the first file that does
not fit and a full answer is reported as truncated (`context.ts:342`).

## Correctness, component by component

What each component must guarantee; **bold** is checked or proved here.

* Authority: **budget ceilings, concurrency, stale owners and dead grants gain
  nothing, success is certain, ambiguity fences the run, the hint is right**.
* Reviewed plan: **pins everything reviewed, and its grants suffice**. Staging and
  retirement: **all or nothing; retirement only of what nobody touched, and for
  good; nothing moves the selection from under unfinished work; a page never
  claims what is not so**.
* Repair run: **one decided attempt, a quiet end, an evidenced verdict, a clean
  abandonment, an end or a failed job; the archive is unpacked as it was made**.
* Repair loop: **no lost wake, one open round, decisions in order and never
  revised, a measured selection, paid rounds, inert stale deliveries, an end or a
  failed wake; the objective is the failure**.
* AI investigation and candidate generation: **one active attempt, no paid request
  repeated after an unknown outcome, a frozen candidate at most once; what is read
  is what was frozen**.
* Candidate verification: **the verdict is that of the stored evidence; the
  customer's code runs once; none by hand while a loop owns the run**.
* Human review and publication: **nothing before approval; one branch and one draft
  per approval; a retry recognises what the lost call did; an orphan only behind a
  living handler; what was verified is what is published**.
* Release acceptance: **the audit tells a settled execution from every other log;
  the complete gate is spent**.
* GitHub access: **the installation is its workspace's; ready profiles run; no
  switch while work is unresolved**; concurrent detections are not modelled.
* Operations: **at most the limit of requests per window; ready means served**;
  the deadlines of a drain are not modelled.

## Plan

Done, in this order because everything external goes through the first: the
authority, the run and the loop; then the workers of the other stages, which share
one leased-attempt protocol but for what they pay and persist; access and staging,
composed; and the pure modules. What is left:

1. The exact one-shots of the later phases composed with their workers. They go
   through the claim that `ReviewedStaging` models, but the wakes of a loop are
   looked up by their own identity (`exact-phase-service.ts:119`).
2. `CandidateVerification` in place of `VerificationEnds` of `RepairLoop`, and
   `RepairRun` with the slot of `ExternalExecution`, at sizes TLC can still explore.

## Not modelled

`PROJECT.json` lists every component with its reason. In short:

* rendering, routing, a page's polling, sign-in and landing pages: a library or no
  protocol of their own;
* request handlers and wiring: parsing and construction; every transaction behind
  them is modelled with its component;
* the hackathon command line: scripts run by hand, over the boundary of `RepairRun`;
* integration-test harnesses and fixtures: they drive the program, they are not it;
* operational reports, logs: read-only;
* further parsers of the GitHub client (one shape each), the signing of the app's
  token; canonical JSON and digests: a record stands for its hash;
* the deadlines of a drain and the connection pool: real time.
