----------------------------- MODULE ReviewedPlan -----------------------------
(***************************************************************************)
(* What a reviewer authorises: the five operation grants and the account   *)
(* grant a plan is built of, whether the repair's own protocol fits them,  *)
(* and whether the plan's identity, rebuilt from the rows it was staged    *)
(* as, pins all of what was reviewed.  A hash is the record hashed.        *)
(***************************************************************************)
EXTENDS Naturals, FiniteSets, FiniteSetsExt, SequencesExt

Dimension == {"logicalRequests", "providerAttempts", "inputTokens", "outputTokens", "sandboxIdentities",
              "sandboxRuntimeMs", "verificationAttempts", "repairLoopIterations"}
Zero == [d \in Dimension |-> 0]
With(amounts) == [d \in Dimension |-> IF d \in DOMAIN amounts THEN amounts[d] ELSE 0]
----------------------------------------------------------------------------
\* What the reviewed grants allow.

Category == {"gemini_investigation", "gemini_candidate_generation", "sandbox_baseline", "sandbox_verification",
             "repair_loop_iteration"}
RequestBytes == 256 * 1024

SandboxGrant == [logicalRequests |-> 1, providerAttempts |-> 96, sandboxIdentities |-> 1, sandboxRuntimeMs |-> 600000]
OperationLimits == [c \in Category |-> With(
    CASE c = "gemini_investigation" ->
            [logicalRequests |-> 7, providerAttempts |-> 7, inputTokens |-> 7 * RequestBytes, outputTokens |-> 17500]
      [] c = "gemini_candidate_generation" ->
            [logicalRequests |-> 6, providerAttempts |-> 6, inputTokens |-> 6 * RequestBytes, outputTokens |-> 36000]
      [] c = "sandbox_baseline" -> SandboxGrant
      [] c = "sandbox_verification" -> SandboxGrant @@ ("verificationAttempts" :> 1)
      [] c = "repair_loop_iteration" -> [logicalRequests |-> 1, repairLoopIterations |-> 1])]

AccountLimits == With([logicalRequests |-> 16, providerAttempts |-> 205, inputTokens |-> 13 * RequestBytes,
                       outputTokens |-> 53500, sandboxIdentities |-> 2, sandboxRuntimeMs |-> 1200000,
                       verificationAttempts |-> 1, repairLoopIterations |-> 1])
----------------------------------------------------------------------------
\* What the protocol reserves: one reservation for each request to a model, for
\* each Sandbox and for each iteration, every one at the most it may ask for.

AiLimits == [maxToolBearingTurns |-> 6, reservedFinalizationTurns |-> 1, maxOutputTokens |-> 2500]
AiGenerationLimits == [maxToolBearingTurns |-> 5, reservedFinalizationTurns |-> 1, maxOutputTokens |-> 6000]

Turns(limits) == limits.maxToolBearingTurns + limits.reservedFinalizationTurns
ModelRequest(limits) == With([logicalRequests |-> 1, providerAttempts |-> 1, inputTokens |-> RequestBytes,
                              outputTokens |-> limits.maxOutputTokens])
SandboxRun(attempts) == With([logicalRequests |-> 1, providerAttempts |-> 96, sandboxIdentities |-> 1,
                              sandboxRuntimeMs |-> 600000, verificationAttempts |-> attempts])
SandboxRecovery == With([logicalRequests |-> 1, providerAttempts |-> 96, sandboxRuntimeMs |-> 60000])
Iteration == With([logicalRequests |-> 1, repairLoopIterations |-> 1])

Draws == [c \in Category |->
    CASE c = "gemini_investigation" -> [i \in 1..Turns(AiLimits) |-> ModelRequest(AiLimits)]
      [] c = "gemini_candidate_generation" -> [i \in 1..Turns(AiGenerationLimits) |-> ModelRequest(AiGenerationLimits)]
      [] c = "sandbox_baseline" -> <<SandboxRun(0)>>
      [] c = "sandbox_verification" -> <<SandboxRun(1)>>
      [] c = "repair_loop_iteration" -> <<Iteration>>]

Plus(a, b) == [d \in Dimension |-> a[d] + b[d]]
Total(draws) == FoldLeft(Plus, Zero, draws)
Fits(used, amounts, limits) == \A d \in Dimension : used[d] + amounts[d] <= limits[d]

\* assertReviewedBudgetCompatibility: the protocol's limits are the grants', and the account is their sum.
AssertReviewedBudgetCompatibility ==
    /\ \A c \in {"gemini_investigation", "gemini_candidate_generation"} : Total(Draws[c]) = OperationLimits[c]
    /\ AccountLimits = [d \in Dimension |-> MapThenSumSet(LAMBDA c : OperationLimits[c][d], Category)]
----------------------------------------------------------------------------
\* The plan of an input: a record of the reviewed facts, the actor's among them.

CONSTANT MaxExpiry   \* MAX_EXPIRY_MS

ProviderOf(c) ==
    IF c \in {"gemini_investigation", "gemini_candidate_generation"} THEN "google"
    ELSE IF c = "repair_loop_iteration" THEN "vigilo" ELSE "vercel"

Account(c, input) ==
    CASE ProviderOf(c) = "google" -> <<input.googleProjectId>>
      [] ProviderOf(c) = "vercel" -> <<input.vercelTeamId, input.vercelProjectId>>
      [] OTHER -> <<>>

Sealed(grant) == [row |-> grant, grantIdentity |-> grant]

AccountGrant(input) == Sealed([scope |-> "account", limits |-> AccountLimits, expiresAt |-> input.expiresAt,
                               authorizedBy |-> input.reviewerUserId])
OperationGrant(c, input) == Sealed(
    [scope |-> "operation", workspaceId |-> input.workspaceId, repairRunId |-> input.repairRunId,
     githubRepositoryId |-> input.githubRepositoryId, baseCommitSha |-> input.baseCommitSha,
     operationCategory |-> c, account |-> Account(c, input), limits |-> OperationLimits[c],
     authorizedReleaseSha |-> input.authorizedReleaseSha, expiresAt |-> input.expiresAt,
     authorizedBy |-> input.reviewerUserId])

\* normalizeRepairObjective: line ends, composition and outer space do not count.
NormalizeRepairObjective(objective) == [objective EXCEPT !.spelling = "lf"]

Pinned == {"workspaceId", "reviewerUserId", "repairRunId", "idempotencyKey", "githubRepositoryId", "installationId",
           "profileIdentity", "baseCommitSha", "authorizedReleaseSha", "expectedSourceIdentity", "expiresAt"}

ComputeReviewedPlanIdentity(input) ==
    [facts |-> [f \in Pinned |-> input[f]], objectiveHash |-> NormalizeRepairObjective(input.objective),
     account |-> AccountGrant(input).grantIdentity,
     operations |-> {OperationGrant(c, input).grantIdentity : c \in Category}]

ValidInput(input, now) ==
    /\ input.expiresAt > now /\ input.expiresAt - now <= MaxExpiry
    /\ input.objective.text # ""

\* buildReviewedStagingPlan and what stageReviewedPlan stores of it.
StagedRows(input) ==
    [run |-> [f \in {"workspaceId", "repairRunId", "idempotencyKey", "githubRepositoryId", "installationId",
                     "profileIdentity", "baseCommitSha"} |-> input[f]],
     intent |-> [repairRunId |-> input.repairRunId, workspaceId |-> input.workspaceId,
                 objective |-> NormalizeRepairObjective(input.objective),
                 objectiveHash |-> NormalizeRepairObjective(input.objective)],
     checkpoint |-> [repairRunId |-> input.repairRunId, reviewedBy |-> input.reviewerUserId,
                     expectedSourceIdentity |-> input.expectedSourceIdentity,
                     planIdentity |-> ComputeReviewedPlanIdentity(input)],
     operations |-> {OperationGrant(c, input) : c \in Category},
     accounts |-> {AccountGrant(input)}]
----------------------------------------------------------------------------
\* verifyReviewedAuthoritySet: the rows are a plan staged for `release`, in force at `now`.
\* The run is at a phase of a repair and no grant is revoked.

GrantFor(rows, c) == CHOOSE g \in rows.operations : g.row.operationCategory = c

Rebuilt(rows, release) ==
    LET google == GrantFor(rows, "gemini_investigation").row.account
        vercel == GrantFor(rows, "sandbox_baseline").row.account
    IN  rows.run @@ [reviewerUserId |-> rows.checkpoint.reviewedBy, authorizedReleaseSha |-> release,
                     expiresAt |-> GrantFor(rows, "gemini_investigation").row.expiresAt,
                     expectedSourceIdentity |-> rows.checkpoint.expectedSourceIdentity,
                     objective |-> rows.intent.objective, googleProjectId |-> google[1],
                     vercelTeamId |-> vercel[1], vercelProjectId |-> vercel[2]]

OperationStands(g, rows, release, now) ==
    /\ g.row = g.grantIdentity
    /\ \A f \in {"workspaceId", "repairRunId", "githubRepositoryId", "baseCommitSha"} : g.row[f] = rows.run[f]
    /\ g.row.authorizedReleaseSha = release /\ g.row.authorizedBy = rows.checkpoint.reviewedBy /\ g.row.expiresAt > now

\* An account of another plan that still runs would be drawn on as well.
Applicable(rows, now, expiry) ==
    {a \in rows.accounts :
        \/ a.row.expiresAt > now
        \/ (a.row.authorizedBy = rows.checkpoint.reviewedBy /\ a.row.expiresAt = expiry)}

VerifyReviewedAuthoritySet(rows, release, now) ==
    /\ rows.checkpoint.repairRunId = rows.run.repairRunId /\ rows.intent.repairRunId = rows.run.repairRunId
    /\ rows.intent.workspaceId = rows.run.workspaceId
    /\ Cardinality(rows.operations) = 5 /\ {g.row.operationCategory : g \in rows.operations} = Category
    /\ \A g \in rows.operations : OperationStands(g, rows, release, now)
    /\ \A g, h \in rows.operations : g.row.expiresAt = h.row.expiresAt
    /\ LET input == Rebuilt(rows, release)
           accounts == Applicable(rows, now, input.expiresAt)
       IN  /\ Cardinality(accounts) = 1
           /\ \A a \in accounts : a.row = a.grantIdentity /\ a.row.expiresAt > now /\ a = AccountGrant(input)
           /\ ValidInput(input, now)
           /\ ComputeReviewedPlanIdentity(input) = rows.checkpoint.planIdentity
           /\ rows.intent.objectiveHash = rows.intent.objective
           /\ NormalizeRepairObjective(rows.intent.objective) = rows.intent.objective
           /\ rows.operations = {OperationGrant(c, input) : c \in Category}
----------------------------------------------------------------------------
\* The whole repair, every phase at its limits and after any others, is never
\* out of budget: not the operation's, and not the account's.
RepairFits ==
    \A before \in SUBSET Category : \A c \in Category \ before :
        LET spent == FoldSet(LAMBDA b, sum : Plus(Total(Draws[b]), sum), Zero, before)
        IN  \A i \in DOMAIN Draws[c] :
                LET drawn == Total(SubSeq(Draws[c], 1, i - 1))
                IN  Fits(drawn, Draws[c][i], OperationLimits[c]) /\ Fits(Plus(spent, drawn), Draws[c][i], AccountLimits)

\* Nothing is left over for a second one of anything: not another iteration, and
\* not the recovery of a Sandbox whose process died.
NothingIsLeft ==
    \A c \in Category : \A more \in {Draws[c][1]} \cup (IF ProviderOf(c) = "vercel" THEN {SandboxRecovery} ELSE {}) :
        ~Fits(Total(Draws[c]), more, OperationLimits[c])

\* A staged plan stands until it expires, for its release, and is then refused for good.
StandsWhileInForce(input, now) ==
    VerifyReviewedAuthoritySet(StagedRows(input), input.authorizedReleaseSha, now) = (now < input.expiresAt)

\* Rows of two plans never pass for a plan: whatever row or grant of a plan is
\* exchanged for another plan's, what stands is one of the two as it was staged;
\* and no other plan's account may be in force beside it.
ExchangesAreFound(input, other, now) ==
    LET rows == StagedRows(input)
        foreign == StagedRows(other)
        stands(changed) == VerifyReviewedAuthoritySet(changed, input.authorizedReleaseSha, now)
    IN  /\ \A r \in DOMAIN rows :
              LET changed == [rows EXCEPT ![r] = foreign[r]] IN stands(changed) => changed \in {rows, foreign}
        /\ \A g \in rows.operations, h \in foreign.operations :
              stands([rows EXCEPT !.operations = (@ \ {g}) \cup {h}]) => h = g
        /\ stands([rows EXCEPT !.accounts = @ \cup foreign.accounts]) =>
              \A a \in foreign.accounts : a \in rows.accounts \/ a.row.expiresAt <= now
        /\ foreign.checkpoint.planIdentity = rows.checkpoint.planIdentity => foreign = rows
=============================================================================
