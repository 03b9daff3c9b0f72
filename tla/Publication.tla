---------------------------- MODULE Publication ----------------------------
(***************************************************************************)
(* From a verified repair to a draft pull request: the human decision, the *)
(* release gate, and the publication worker against a GitHub whose answers *)
(* may be lost and whose repository others may change at any time.         *)
(*                                                                         *)
(* A database transaction or a call to GitHub is one action.  The worker   *)
(* checks its authority before each write and cannot do so atomically with *)
(* it: the phases "branchSend" and "prSend" lie between the two.           *)
(*                                                                         *)
(* GitHub is the gateway the worker's interface promises: what was written *)
(* is read back as it is.  GitHubClient has what the client makes of it.   *)
(***************************************************************************)
EXTENDS Integers, Sequences, FiniteSets

CONSTANTS
    Handler,       \* worker processes a delivery may land on
    MaxAttempts,   \* REPAIR_JOB_MAX_ATTEMPTS
    RetryLimit,    \* redeliveries pg-boss grants the job
    MaxFaults,     \* bound on crashes, stalls, restarts and failing calls
    MaxChanges     \* bound on what others do to the repository and the gate

ASSUME ConstantsAssumption ==
    {MaxAttempts, RetryLimit, MaxFaults, MaxChanges} \subseteq Nat /\ MaxAttempts > 0

VARIABLES
    harness,    \* the gate is the test-local one, open without acceptances
    acceptance, \* the release's acceptances, by kind
    permit,     \* the one-shot bootstrap reservation and the attempt that made it
    decision, conflict, privacy,
    pub, attempts, github, wrote, handler, job, busy, faults, changes

gateVars == <<harness, acceptance, decision, conflict, privacy>>
vars == <<gateVars, permit, pub, attempts, github, wrote, handler, job, busy, faults, changes>>
----------------------------------------------------------------------------
AcceptanceKind == {"repair", "human", "security", "draft"}

\* "other" passed the release for another subject than the decision's.
Acceptance == {"absent", "exact", "other", "revoked"}

Permit == [state : {"none", "active", "succeeded", "ambiguous"}, by : Nat, live : BOOLEAN]

Terminal == {"published", "failed", "review_required"}
PublicationState == {"none", "queued", "preparing", "publishing"} \cup Terminal

Order == <<"reserved", "authority_prepared", "objects_verified", "branch_create_requested",
           "branch_verified", "pr_create_requested", "pr_verified", "completed">>
Checkpoint == {Order[i] : i \in DOMAIN Order}
After(cp) == Order[(CHOOSE i \in DOMAIN Order : Order[i] = cp) + 1]

Attempt == [state : {"active", "abandoned", "failed", "succeeded"}, live : BOOLEAN]

\* The default branch's head, the target branch, the exact open pull requests, and
\* whether some other pull request of the same head and base is open.
GitHub == [head : {"base", "advanced"}, branch : {"none", "ours", "other"},
           prs : Nat, foreign : BOOLEAN]

Disposition == {"none", "failed", "review_required", "retryable"}

Phase == {"idle", "claim", "exhausted", "authorize", "prepare", "save", "objects",
          "branchLook", "branchSend", "branchReread", "branchCheck", "prAsk", "prLook",
          "prSend", "prRelist", "prConfirm", "prCheck", "verify", "closing", "final",
          "settle", "failing"}

Local == [at : Phase, attempt : Nat, cp : Checkpoint, end : Disposition, stalled : BOOLEAN]

Idle == [at |-> "idle", attempt |-> 0, cp |-> "reserved", end |-> "none", stalled |-> FALSE]

Job == [state : {"absent", "created", "active", "retry", "completed", "failed"},
        retries : Nat, holder : Handler \cup {"nobody"}]

TypeOK ==
    /\ {harness, conflict, busy} \subseteq BOOLEAN
    /\ acceptance \in [AcceptanceKind -> Acceptance] /\ permit \in Permit
    /\ decision \in {"none", "approved", "rejected"}
    /\ privacy \in {"public", "remote", "known"}
    /\ pub \in [state : PublicationState, cp : Checkpoint]
    /\ attempts \in Seq(Attempt) /\ Len(attempts) <= MaxAttempts
    /\ github \in GitHub
    /\ wrote \in [branch : SUBSET Nat, pr : SUBSET Nat]
    /\ handler \in [Handler -> Local] /\ job \in Job
    /\ faults \in 0..MaxFaults /\ changes \in 0..MaxChanges

Init ==
    /\ harness \in BOOLEAN
    /\ acceptance \in {a \in [AcceptanceKind -> {"absent", "exact", "other"}] :
                          a["draft"] = "absent" /\ (harness => \A k \in AcceptanceKind : a[k] = "absent")}
    /\ permit = [state |-> "none", by |-> 0, live |-> FALSE]
    /\ decision = "none" /\ conflict = FALSE /\ privacy = "public"
    /\ pub = [state |-> "none", cp |-> "reserved"]
    /\ attempts = <<>>
    /\ github = [head |-> "base", branch |-> "none", prs |-> 0, foreign |-> FALSE]
    /\ wrote = [branch |-> {}, pr |-> {}]
    /\ handler = [h \in Handler |-> Idle]
    /\ job = [state |-> "absent", retries |-> 0, holder |-> "nobody"]
    /\ busy = FALSE /\ faults = 0 /\ changes = 0
----------------------------------------------------------------------------
\* The review subject and the release gate.

\* Everything else the subject is made of is immutable once the loop is verified.
Eligible == ~conflict /\ privacy # "known"

Approved == decision = "approved" /\ Eligible

Accepted(kind) == acceptance[kind] = "exact"

\* No reservation yet, or the single one, of this publication, still leased.
BootstrapOpen == permit.state = "none" \/ (permit.state = "active" /\ permit.live)

GateMode ==
    IF harness THEN "normal"
    ELSE IF \E k \in AcceptanceKind \ {"draft"} : ~Accepted(k) THEN "closed"
    ELSE IF Accepted("draft") THEN "normal"
    ELSE IF acceptance["draft"] = "absent" /\ BootstrapOpen THEN "bootstrap"
    ELSE "closed"

\* Whether the worker's resolver returns an authority, and one equal to the row's.
Authorised == Approved /\ GateMode # "closed"

\* One decision per loop, of the subject the reviewer was shown, while it is eligible.
Decide ==
    /\ decision = "none" /\ Eligible
    /\ decision' \in {"approved", "rejected"}
    /\ UNCHANGED <<harness, acceptance, permit, conflict, privacy, pub, attempts, github,
                   wrote, handler, job, busy, faults, changes>>

\* (mutant) Eligibility is enough, whatever was decided.
ReserveUndecided ==
    /\ pub.state = "none" /\ decision # "none"
    /\ Eligible /\ GateMode # "closed"
    /\ pub' = [pub EXCEPT !.state = "queued"]
    /\ job' = [job EXCEPT !.state = "created"]
    /\ UNCHANGED <<gateVars, permit, attempts, github, wrote, handler, busy, faults, changes>>

\* The row and its job, once per decision.  The owner's request needs the complete gate;
\* under the bootstrap the operator reserves.
Reserve ==
    /\ pub.state = "none"
    /\ Authorised
    /\ pub' = [pub EXCEPT !.state = "queued"]
    /\ job' = [job EXCEPT !.state = "created"]
    /\ UNCHANGED <<gateVars, permit, attempts, github, wrote, handler, busy, faults, changes>>

\* (mutant) The draft acceptance is taken without its publication being looked up.
RecordUnpublished ==
    /\ ~harness /\ permit.state # "none"
    /\ acceptance["draft"] = "absent"
    /\ acceptance' = [acceptance EXCEPT !["draft"] = "exact"]
    /\ UNCHANGED <<harness, permit, decision, conflict, privacy, pub, attempts, github,
                   wrote, handler, job, busy, faults, changes>>

\* The operator's draft acceptance resolves only for a publication that is published and
\* whose reservation succeeded; until then it is as good as not recorded.
RecordDraft ==
    /\ ~harness /\ pub.state = "published" /\ permit.state = "succeeded"
    /\ acceptance["draft"] = "absent"
    /\ acceptance' = [acceptance EXCEPT !["draft"] = "exact"]
    /\ UNCHANGED <<harness, permit, decision, conflict, privacy, pub, attempts, github,
                   wrote, handler, job, busy, faults, changes>>
----------------------------------------------------------------------------
\* Helpers over the local state of a handler.

Running(h, phase) == handler[h].at = phase /\ ~handler[h].stalled

Goto(h, phase) == handler' = [handler EXCEPT ![h].at = phase]

\* An error inside execute leaves through the revocation of the token.
Leave(h, end) == handler' = [handler EXCEPT ![h].at = "closing", ![h].end = end]

Throw(h, end) == handler' = [handler EXCEPT ![h].at = "failing", ![h].end = end]

Owns(h) ==
    LET a == handler[h].attempt
    IN  a \in DOMAIN attempts /\ attempts[a].state = "active" /\ attempts[a].live

OwnsPermit(h) ==
    harness \/ (permit.state = "active" /\ permit.live /\ permit.by = handler[h].attempt)

\* Authority, permit and ownership before a step, each refused in its own way.
MutationAuthority(h, step) ==
    \/ ~Authorised /\ Leave(h, "failed")
    \/ Authorised /\ ~(OwnsPermit(h) /\ Owns(h)) /\ Leave(h, "retryable")
    \/ Authorised /\ OwnsPermit(h) /\ Owns(h) /\ step

Revalidate(h, step) ==
    \/ privacy # "public" /\ Leave(h, "review_required")
    \/ privacy = "public" /\ MutationAuthority(h, step)

\* A refused condition ends the execution so; else the step is taken.
Check(h, condition, end, step) ==
    \/ ~condition /\ Leave(h, end)
    \/ condition /\ step

AtBase == github.head = "base"
OursExact == github.prs = 1 /\ ~github.foreign

BranchMayExist(cp) ==
    cp \in {"branch_create_requested", "branch_verified", "pr_create_requested", "pr_verified"}

\* Where execute goes on from a checkpoint.
PhaseOf(cp) ==
    CASE cp = "reserved" -> "save"
      [] cp = "authority_prepared" -> "objects"
      [] cp = "objects_verified" -> "save"
      [] cp = "branch_create_requested" -> "branchLook"
      [] cp = "branch_verified" -> "prAsk"
      [] cp = "pr_create_requested" -> "prLook"
      [] cp = "pr_verified" -> "verify"

\* pg-boss settles the job by its identity: it does not ask whose delivery answers.
Settled(status) ==
    job' = IF job.state # "active" THEN job
           ELSE IF status = "completed" THEN [job EXCEPT !.state = "completed"]
           ELSE IF job.retries < RetryLimit
                THEN [job EXCEPT !.state = "retry", !.retries = @ + 1]
                ELSE [job EXCEPT !.state = "failed"]

Reply(h, status) == handler' = [handler EXCEPT ![h] = Idle] /\ Settled(status)

Fault == faults < MaxFaults /\ faults' = faults + 1
----------------------------------------------------------------------------
\* Claiming a delivery.

Deliver(h) ==
    /\ handler[h].at = "idle" /\ job.state \in {"created", "retry"}
    /\ job' = [job EXCEPT !.state = "active", !.holder = h]
    /\ Goto(h, "claim")
    /\ UNCHANGED <<gateVars, permit, pub, attempts, github, wrote, busy, faults, changes>>

Active == {a \in DOMAIN attempts : attempts[a].state = "active"}

LiveActive == {a \in Active : attempts[a].live}

Abandoned ==
    [a \in DOMAIN attempts |->
        IF a \in Active THEN [state |-> "abandoned", live |-> FALSE] ELSE attempts[a]]

\* A terminal row and a row whose attempt is alive both complete the delivery.
ClaimNothing(h) ==
    /\ pub.state \in Terminal \/ LiveActive # {}
    /\ busy' = (busy \/ pub.state \notin Terminal)
    /\ Reply(h, "completed")
    /\ UNCHANGED <<pub, attempts>>

ClaimExhausted(h) ==
    /\ pub.state \notin Terminal /\ LiveActive = {}
    /\ Len(attempts) >= MaxAttempts
    /\ attempts' = Abandoned
    /\ handler' = [handler EXCEPT ![h].at = "exhausted", ![h].cp = pub.cp]
    /\ UNCHANGED <<pub, job, busy>>

ClaimAttempt(h) ==
    /\ pub.state \notin Terminal /\ LiveActive = {}
    /\ Len(attempts) < MaxAttempts
    /\ attempts' = Append(Abandoned, [state |-> "active", live |-> TRUE])
    /\ pub' = [pub EXCEPT !.state = IF @ = "queued" THEN "preparing" ELSE @]
    /\ handler' = [handler EXCEPT ![h] = [@ EXCEPT !.at = "authorize", !.cp = pub.cp,
                                                  !.attempt = Len(attempts) + 1]]
    /\ UNCHANGED <<job, busy>>

Claim(h) ==
    /\ Running(h, "claim")
    /\ ClaimNothing(h) \/ ClaimExhausted(h) \/ ClaimAttempt(h)
    /\ UNCHANGED <<gateVars, permit, github, wrote, faults, changes>>

\* The row as this handler last read or wrote it.
Unmoved(h) ==
    /\ pub.cp = handler[h].cp
    /\ pub.state = IF pub.cp = "reserved" THEN "preparing" ELSE "publishing"

Exhaust(h) ==
    /\ Running(h, "exhausted")
    /\ pub' = IF Unmoved(h) THEN [pub EXCEPT !.state = "failed"] ELSE pub
    /\ Reply(h, "completed")
    /\ UNCHANGED <<gateVars, permit, attempts, github, wrote, busy, faults, changes>>

\* (mutant) A later attempt takes the permit over.
AuthorizeAgain(h) ==
    /\ Running(h, "authorize")
    /\ \/ ~Authorised /\ Throw(h, "failed") /\ UNCHANGED permit
       \/ /\ Authorised /\ GateMode = "bootstrap"
          /\ permit' = [state |-> "active", by |-> handler[h].attempt, live |-> TRUE]
          /\ Goto(h, "prepare")
       \/ /\ Authorised /\ GateMode = "normal"
          /\ Goto(h, "prepare") /\ UNCHANGED permit
    /\ UNCHANGED <<gateVars, pub, attempts, github, wrote, job, busy, faults, changes>>

\* Under the bootstrap the attempt reserves the grant's single logical request; a second
\* reservation is refused as exhausted, even to a retry of the same publication.
Authorize(h) ==
    /\ Running(h, "authorize")
    /\ \/ ~Authorised /\ Throw(h, "failed") /\ UNCHANGED permit
       \/ /\ Authorised /\ GateMode = "bootstrap" /\ permit.state = "none"
          /\ permit' = [state |-> "active", by |-> handler[h].attempt, live |-> TRUE]
          /\ Goto(h, "prepare")
       \/ /\ Authorised /\ GateMode = "bootstrap" /\ permit.state # "none"
          /\ Throw(h, "retryable") /\ UNCHANGED permit
       \/ /\ Authorised /\ GateMode = "normal"
          /\ Goto(h, "prepare") /\ UNCHANGED permit
    /\ UNCHANGED <<gateVars, pub, attempts, github, wrote, job, busy, faults, changes>>
----------------------------------------------------------------------------
\* Executing: every step either goes on or leaves with an error.

\* The repository, its base commit and the frozen candidate give the exact Git objects;
\* a candidate GitHub's tree cannot take is refused the first time it is prepared.
Prepare(h) ==
    /\ Running(h, "prepare")
    /\ LET cp == handler[h].cp IN
       MutationAuthority(h,
           Check(h, privacy = "public" /\ (AtBase \/ BranchMayExist(cp)), "failed",
                 Goto(h, PhaseOf(cp)) \/ (cp = "reserved" /\ Leave(h, "failed"))))
    /\ UNCHANGED <<pub, github, wrote>>

\* checkpoint(): the lease, then a compare-and-set on the row as last seen.
Save(h) ==
    /\ Running(h, "save")
    /\ IF Owns(h) /\ Unmoved(h)
       THEN LET cp == After(pub.cp) IN
            /\ pub' = [state |-> "publishing", cp |-> cp]
            /\ handler' = [handler EXCEPT ![h].cp = cp, ![h].at = PhaseOf(cp)]
       ELSE Leave(h, "retryable") /\ UNCHANGED pub
    /\ UNCHANGED <<github, wrote>>

\* Blobs, tree and commit are addressed by their content: creating them again is nothing.
Objects(h) ==
    /\ Running(h, "objects")
    /\ Check(h, AtBase, "failed", Revalidate(h, Goto(h, "save")))
    /\ UNCHANGED <<pub, github, wrote>>

BranchLook(h) ==
    /\ Running(h, "branchLook")
    /\ Revalidate(h,
          \/ github.branch = "none" /\ Check(h, AtBase, "failed", Goto(h, "branchSend"))
          \/ github.branch = "ours" /\ Goto(h, "save")
          \/ github.branch = "other" /\ Leave(h, "review_required"))
    /\ UNCHANGED <<pub, github, wrote>>

\* GitHub refuses a branch that exists.
BranchSend(h) ==
    /\ Running(h, "branchSend")
    /\ wrote' = [wrote EXCEPT !.branch = @ \cup {handler[h].attempt}]
    /\ github' = [github EXCEPT !.branch = IF @ = "none" THEN "ours" ELSE @]
    /\ Goto(h, IF github.branch = "none" THEN "branchCheck" ELSE "branchReread")
    /\ UNCHANGED pub

BranchReread(h) ==
    /\ Running(h, "branchReread")
    /\ Check(h, github.branch # "none", "retryable", Goto(h, "branchCheck"))
    /\ UNCHANGED <<pub, github, wrote>>

BranchCheck(h) ==
    /\ Running(h, "branchCheck")
    /\ Revalidate(h, Check(h, github.branch = "ours", "review_required", Goto(h, "save")))
    /\ UNCHANGED <<pub, github, wrote>>

TargetAndBase == github.branch = "ours" /\ AtBase

PrAsk(h) ==
    /\ Running(h, "prAsk")
    /\ Check(h, TargetAndBase, "review_required", Goto(h, "save"))
    /\ UNCHANGED <<pub, github, wrote>>

\* Only the first attempt asks: a later one cannot tell a request that was never sent
\* from one whose pull request has since been closed.
PrLook(h) ==
    /\ Running(h, "prLook")
    /\ MutationAuthority(h, Check(h, github.branch = "ours" /\ ~github.foreign, "review_required",
          \/ github.prs = 1 /\ Goto(h, "prCheck")
          \/ github.prs > 1 /\ Leave(h, "review_required")
          \/ /\ github.prs = 0
             /\ Check(h, handler[h].attempt = 1 /\ AtBase, "review_required",
                      Revalidate(h, Goto(h, "prSend")))))
    /\ UNCHANGED <<pub, github, wrote>>

\* The pull request GitHub opens is the exact one unless the base has moved on.
Opened ==
    CASE github.branch = "none" -> github
      [] github.branch # "none" /\ TargetAndBase -> [github EXCEPT !.prs = @ + 1]
      [] github.branch # "none" /\ ~TargetAndBase -> [github EXCEPT !.foreign = TRUE]

PrSend(h) ==
    /\ Running(h, "prSend")
    /\ wrote' = [wrote EXCEPT !.pr = @ \cup {handler[h].attempt}]
    /\ github' = Opened
    /\ Goto(h, IF github.branch = "none" THEN "prRelist" ELSE "prConfirm")
    /\ UNCHANGED pub

PrRelist(h) ==
    /\ Running(h, "prRelist")
    /\ Check(h, ~github.foreign, "review_required", Goto(h, "prConfirm"))
    /\ UNCHANGED <<pub, github, wrote>>

PrConfirm(h) ==
    /\ Running(h, "prConfirm")
    /\ Revalidate(h, Check(h, OursExact, "review_required", Goto(h, "prCheck")))
    /\ UNCHANGED <<pub, github, wrote>>

PrCheck(h) ==
    /\ Running(h, "prCheck")
    /\ Check(h, OursExact, "review_required", Goto(h, "save"))
    /\ UNCHANGED <<pub, github, wrote>>

Verify(h) ==
    /\ Running(h, "verify")
    /\ Revalidate(h, Check(h, TargetAndBase /\ OursExact, "review_required", Leave(h, "none")))
    /\ UNCHANGED <<pub, github, wrote>>

\* The request may arrive and its answer be lost, or it may never arrive.
AnswerLost(h) ==
    /\ \/ /\ Running(h, "branchSend") /\ Goto(h, "branchReread")
          /\ \/ /\ github' = [github EXCEPT !.branch = IF @ = "none" THEN "ours" ELSE @]
                /\ wrote' = [wrote EXCEPT !.branch = @ \cup {handler[h].attempt}]
             \/ UNCHANGED <<github, wrote>>
       \/ /\ Running(h, "prSend") /\ Goto(h, "prRelist")
          /\ \/ /\ github' = Opened
                /\ wrote' = [wrote EXCEPT !.pr = @ \cup {handler[h].attempt}]
             \/ UNCHANGED <<github, wrote>>
    /\ Fault
    /\ UNCHANGED <<gateVars, permit, pub, attempts, job, busy, changes>>

Reading == {"prepare", "save", "objects", "branchLook", "branchReread", "branchCheck",
            "prAsk", "prLook", "prRelist", "prConfirm", "prCheck", "verify"}

\* Where the worker resolves its authority again.
Resolving == {"prepare", "objects", "branchLook", "branchCheck", "prLook", "prConfirm", "verify"}

\* Any other call of GitHub or the database may fail.  No such error is classified, but
\* that the resolver takes any of its own for a gate that is closed.
CallFails(h) ==
    /\ \/ (\E phase \in Reading : Running(h, phase)) /\ Leave(h, "retryable")
       \/ (\E phase \in Resolving : Running(h, phase)) /\ Leave(h, "failed")
       \/ Running(h, "authorize") /\ (Throw(h, "failed") \/ Throw(h, "retryable"))
    /\ Fault
    /\ UNCHANGED <<gateVars, permit, pub, attempts, github, wrote, job, busy, changes>>

Execute(h) ==
    /\ \/ Prepare(h) \/ Save(h) \/ Objects(h)
       \/ BranchLook(h) \/ BranchSend(h) \/ BranchReread(h) \/ BranchCheck(h)
       \/ PrAsk(h) \/ PrLook(h) \/ PrSend(h) \/ PrRelist(h) \/ PrConfirm(h) \/ PrCheck(h)
       \/ Verify(h)
    /\ UNCHANGED <<gateVars, permit, attempts, job, busy, faults, changes>>

\* A token whose revocation is not confirmed overrides the outcome.
Close(h) ==
    /\ Running(h, "closing")
    /\ \/ /\ UNCHANGED faults
          /\ Goto(h, IF handler[h].end = "none" THEN "final" ELSE "failing")
       \/ Fault /\ Throw(h, IF handler[h].cp = "reserved" THEN "failed" ELSE "review_required")
    /\ UNCHANGED <<gateVars, permit, pub, attempts, github, wrote, job, busy, changes>>
----------------------------------------------------------------------------
\* Ending an attempt.

Closed(a, state) == [attempts EXCEPT ![a] = [state |-> state, live |-> FALSE]]

\* The last transaction locks the acceptances, the grants and the row, resolves the
\* authority again and publishes as the live owner.
Final(h) ==
    /\ Running(h, "final")
    /\ \/ /\ Authorised /\ OwnsPermit(h) /\ Owns(h) /\ Unmoved(h) /\ UNCHANGED faults
          /\ pub' = [state |-> "published", cp |-> "completed"]
          /\ attempts' = Closed(handler[h].attempt, "succeeded")
          /\ Goto(h, "settle")
       \/ /\ ~Authorised /\ UNCHANGED faults
          /\ Throw(h, "failed") /\ UNCHANGED <<pub, attempts>>
       \/ /\ Authorised /\ ~(OwnsPermit(h) /\ Owns(h) /\ Unmoved(h)) /\ UNCHANGED faults
          /\ Throw(h, "retryable") /\ UNCHANGED <<pub, attempts>>
       \/ /\ Fault /\ UNCHANGED <<pub, attempts>>
          /\ Throw(h, "failed") \/ Throw(h, "retryable")
    /\ UNCHANGED <<gateVars, permit, github, wrote, job, busy, changes>>

\* The permit is completed after the publication has committed.
Settle(h) ==
    /\ Running(h, "settle")
    /\ permit' = IF ~harness /\ OwnsPermit(h)
                 THEN [permit EXCEPT !.state = "succeeded", !.live = FALSE] ELSE permit
    /\ Reply(h, IF OwnsPermit(h) THEN "completed" ELSE "failed")
    /\ UNCHANGED <<gateVars, pub, attempts, github, wrote, busy, faults, changes>>

\* (mutant) A retryable failure answers as the other failures do.
FailCompleted(h) ==
    /\ Running(h, "failing")
    /\ permit' = IF ~harness /\ OwnsPermit(h)
                 THEN [permit EXCEPT !.state = "ambiguous", !.live = FALSE] ELSE permit
    /\ attempts' = IF Owns(h) THEN Closed(handler[h].attempt, "failed") ELSE attempts
    /\ pub' = IF Owns(h) /\ handler[h].end # "retryable"
              THEN [pub EXCEPT !.state = handler[h].end] ELSE pub
    /\ Reply(h, "completed")
    /\ UNCHANGED <<gateVars, github, wrote, busy, faults, changes>>

\* The error path: whatever went wrong, a bootstrap permit is spent as ambiguous.
Fail(h) ==
    /\ Running(h, "failing")
    /\ permit' = IF ~harness /\ OwnsPermit(h)
                 THEN [permit EXCEPT !.state = "ambiguous", !.live = FALSE] ELSE permit
    /\ attempts' = IF Owns(h) THEN Closed(handler[h].attempt, "failed") ELSE attempts
    /\ pub' = IF Owns(h) /\ handler[h].end # "retryable"
              THEN [pub EXCEPT !.state = handler[h].end] ELSE pub
    /\ Reply(h, IF Owns(h) /\ handler[h].end # "retryable" THEN "completed" ELSE "failed")
    /\ UNCHANGED <<gateVars, github, wrote, busy, faults, changes>>
----------------------------------------------------------------------------
\* Time, loss and the queue.

Stall(h) ==
    /\ handler[h].at # "idle" /\ ~handler[h].stalled
    /\ Fault
    /\ handler' = [handler EXCEPT ![h].stalled = TRUE]
    /\ UNCHANGED <<gateVars, permit, pub, attempts, github, wrote, job, busy, changes>>

Resume(h) ==
    /\ handler[h].stalled
    /\ handler' = [handler EXCEPT ![h].stalled = FALSE]
    /\ UNCHANGED <<gateVars, permit, pub, attempts, github, wrote, job, busy, faults, changes>>

Crash(h) ==
    /\ handler[h].at # "idle"
    /\ Fault
    /\ handler' = [handler EXCEPT ![h] = Idle]
    /\ UNCHANGED <<gateVars, permit, pub, attempts, github, wrote, job, busy, changes>>

Renewed(a) == \E h \in Handler : handler[h].attempt = a /\ ~handler[h].stalled

\* A lease that nobody renews lapses, the attempt's after 90 s and the permit's later.
Lapse ==
    /\ \/ /\ \E a \in LiveActive : ~Renewed(a) /\ attempts' = [attempts EXCEPT ![a].live = FALSE]
          /\ UNCHANGED permit
       \/ /\ permit.state = "active" /\ permit.live /\ ~Renewed(permit.by)
          /\ permit' = [permit EXCEPT !.live = FALSE]
          /\ UNCHANGED attempts
    /\ UNCHANGED <<gateVars, pub, github, wrote, handler, job, busy, faults, changes>>

\* (mutant) Only a holder that stalls is missed, never one that died.
ExpireStalled ==
    /\ job.state = "active" /\ handler[job.holder].stalled
    /\ Settled("failed")
    /\ UNCHANGED <<gateVars, permit, pub, attempts, github, wrote, handler, busy, faults, changes>>

\* pg-boss misses the holder's heartbeats and redelivers.
Expire ==
    /\ job.state = "active"
    /\ handler[job.holder].at = "idle" \/ handler[job.holder].stalled
    /\ Settled("failed")
    /\ UNCHANGED <<gateVars, permit, pub, attempts, github, wrote, handler, busy, faults, changes>>

\* A starting worker retries the failed jobs of unfinished publications.
Restart ==
    /\ job.state = "failed" /\ pub.state \notin Terminal
    /\ Fault
    /\ job' = [job EXCEPT !.state = "retry", !.retries = RetryLimit]
    /\ UNCHANGED <<gateVars, permit, pub, attempts, github, wrote, handler, busy, changes>>
----------------------------------------------------------------------------
\* What others do meanwhile.

Change == changes < MaxChanges /\ changes' = changes + 1

\* Another verification of the run begins or ends; an acceptance or the grant is revoked;
\* the repository turns private, and the next synchronisation learns it.
GateChanges ==
    /\ Change
    /\ \/ (decision = "none" \/ conflict) /\ conflict' = ~conflict
          /\ UNCHANGED <<acceptance, privacy>>
       \/ /\ \E k \in AcceptanceKind :
                Accepted(k) /\ acceptance' = [acceptance EXCEPT ![k] = "revoked"]
          /\ UNCHANGED <<conflict, privacy>>
       \/ /\ privacy = "public" /\ privacy' \in {"remote", "known"}
          /\ UNCHANGED <<acceptance, conflict>>
    /\ UNCHANGED <<harness, decision, permit, pub, attempts, github, wrote, handler, job,
                   busy, faults>>

RepositoryChanges ==
    /\ Change
    /\ \/ github.head = "base" /\ github' = [github EXCEPT !.head = "advanced"]
       \/ github.branch # "other" /\ github' = [github EXCEPT !.branch = "other"]
       \/ /\ github.branch # "none"
          /\ github' = [github EXCEPT !.branch = "none", !.prs = 0, !.foreign = FALSE]
       \/ github.prs > 0 /\ \E b \in BOOLEAN : github' = [github EXCEPT !.prs = @ - 1, !.foreign = b]
    /\ UNCHANGED <<gateVars, permit, pub, attempts, wrote, handler, job, busy, faults>>
----------------------------------------------------------------------------
Step(h) ==
    \/ Claim(h) \/ Exhaust(h) \/ Authorize(h) \/ Execute(h) \/ Close(h)
    \/ Final(h) \/ Settle(h) \/ Fail(h)

Next ==
    \/ Decide \/ Reserve \/ RecordDraft \/ Lapse \/ Expire \/ Restart
    \/ GateChanges \/ RepositoryChanges
    \/ \E h \in Handler : \/ Deliver(h) \/ Step(h) \/ AnswerLost(h) \/ CallFails(h)
                          \/ Stall(h) \/ Resume(h) \/ Crash(h)

Spec == Init /\ [][Next]_vars

\* Leases lapse, the queue polls and expires, a process that is not stalled goes on and a
\* stalled one resumes.
Fairness ==
    /\ WF_vars(Lapse) /\ WF_vars(Expire)
    /\ WF_vars(\E h \in Handler : Deliver(h))
    /\ \A h \in Handler : WF_vars(Step(h)) /\ WF_vars(Resume(h))

FairSpec == Spec /\ Fairness
----------------------------------------------------------------------------
Draft == INSTANCE OneDraft
            WITH approved <- decision = "approved",
                 branch <- wrote.branch # {}, draft <- wrote.pr # {},
                 outcome <- IF pub.state \in Terminal THEN pub.state ELSE "open"

\* Whatever is lost, stalls or is withdrawn meanwhile, the worker's writes and verdicts are
\* those of OneDraft: approved first, the branch before the draft, one final outcome.
DraftSpec == Draft!Spec

\* Several attempts never ask for the pull request, so that no retry can open a second.
AskedOnce == Cardinality(wrote.pr) <= 1 /\ github.prs <= 1

\* A bootstrap reservation pays for one attempt: all that is ever written under it,
\* retries and stalled handlers included, is written by the attempt that reserved.
OneWriter == ~harness => wrote.branch \cup wrote.pr \subseteq {permit.by}

\* The complete gate resolves only for the decision that the bootstrap has published: in
\* production it never admits a publication that does not exist yet.
CompleteGateIsSpent == ~harness /\ GateMode = "normal" => pub.state = "published"

\* A delivery is completed under an unfinished publication only by a redelivery that
\* found the first handler's attempt alive.
OrphanedOnlyByBusy ==
    job.state = "completed" /\ pub.state \notin Terminal => busy

\* The rows have their types, one pull request is asked for, and no delivery is completed
\* too early but by a redelivery.
Consistent == TypeOK /\ AskedOnce /\ OrphanedOnlyByBusy

\* A reserved publication ends, or its deliveries are used up.
EndsOrSpent ==
    pub.state = "queued" ~> (pub.state \in Terminal \/ job.state \in {"failed", "completed"})
============================================================================
