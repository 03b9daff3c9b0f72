----------------------------- MODULE AiAttempt -----------------------------
(***************************************************************************)
(* One AI job, from its request to its verdict: an AI investigation or an  *)
(* AI candidate generation.  Both workers run the same leased-attempt      *)
(* protocol around a Gemini session whose calls cost money and cannot be   *)
(* repeated; `kind' says which of the two this job is.                     *)
(*                                                                         *)
(* A database transaction is one action.  Between two of them a process    *)
(* may crash, or stall for as long as its lease lasts; a process that      *)
(* runs renews its lease every 30 s, so a lease lapses only under a dead   *)
(* or a stalled handler.                                                   *)
(***************************************************************************)
EXTENDS Integers, Sequences, FiniteSets, SequencesExt

CONSTANTS
    Kinds,         \* the kinds of job this instance has
    Handler,       \* worker processes a delivery may land on
    MaxAttempts,   \* REPAIR_JOB_MAX_ATTEMPTS
    RetryLimit,    \* redeliveries pg-boss grants the job, as many as there are retries
    MaxToolTurns,  \* maxToolBearingTurns; one more turn is the reserved one
    MaxToolCalls,  \* maxToolCalls
    MaxOperations, \* investigation.maxOperations
    MaxBytes,      \* maxContextResultBytes, in blocks
    ResultBytes,   \* the sizes, in blocks, a context result may have
    MaxFaults      \* bound on crashes, stalls and errors together

Kind == {"investigation", "candidate"}

ASSUME ConstantsAssumption ==
    /\ Kinds \subseteq Kind
    /\ {MaxAttempts, RetryLimit, MaxToolTurns, MaxToolCalls} \subseteq Nat
    /\ {MaxOperations, MaxBytes} \cup ResultBytes \subseteq Nat
    /\ MaxFaults \in Nat
    /\ MaxAttempts <= RetryLimit + 1

VARIABLES kind, row, artifact, attempts, wire, events, handler, job, faults

vars == <<kind, row, artifact, attempts, wire, events, handler, job, faults>>
----------------------------------------------------------------------------
Decided == {"done", "abstained", "failed", "cancelled"}
RowState == {"none", "queued", "working"} \cup Decided
Outcome == {"started", "failed", "succeeded", "ambiguous"}

\* The row's conclusion: the attempt it came from and what it cites.
Row == [state : RowState, turns : Nat, calls : Nat, by : Nat, cites : SUBSET Nat]

Artifact == {"absent", "freezing", "frozen", "rejected"}

\* A dead attempt's failure may be of the kind no retry is granted for.
Attempt == [state : {"active", "abandoned", "retryable_failed", "exhausted", "succeeded"},
            live : BOOLEAN, final : BOOLEAN]

Request == [outcome : Outcome, sent : BOOLEAN]

Event == [attempt : Nat, bytes : Nat,
          status : {"started", "completed", "failed", "rejected"}]

Job == [state : {"absent", "created", "active", "retry", "completed", "failed", "cancelled"},
        retries : Nat, holder : Handler \cup {"nobody"}]

Phase == {"idle", "claim", "begin", "loop", "owned", "begun", "asserted", "sent",
          "tool", "tooling", "concluded", "propose", "freezing", "complete", "failing"}

Local == [at : Phase, attempt : Nat, turns : Nat, calls : Nat, seen : SUBSET Nat,
          op : Nat, cites : SUBSET Nat, abstains : BOOLEAN, final : BOOLEAN,
          aborted : BOOLEAN, stalled : BOOLEAN, retryable : BOOLEAN]

Idle == [at |-> "idle", attempt |-> 0, turns |-> 0, calls |-> 0, seen |-> {}, op |-> 0,
         cites |-> {}, abstains |-> FALSE, final |-> FALSE, aborted |-> FALSE,
         stalled |-> FALSE, retryable |-> FALSE]

TypeOK ==
    /\ kind \in Kinds
    /\ row \in Row
    /\ artifact \in Artifact
    /\ attempts \in Seq(Attempt) /\ Len(attempts) <= MaxAttempts
    /\ wire \in Seq(Seq(Request)) /\ Len(wire) = Len(attempts)
    /\ events \in Seq(Event)
    /\ handler \in [Handler -> Local]
    /\ job \in Job
    /\ faults \in 0..MaxFaults

Init ==
    /\ kind \in Kinds
    /\ row = [state |-> "none", turns |-> 0, calls |-> 0, by |-> 0, cites |-> {}]
    /\ artifact = "absent"
    /\ attempts = <<>> /\ wire = <<>> /\ events = <<>>
    /\ handler = [h \in Handler |-> Idle]
    /\ job = [state |-> "absent", retries |-> 0, holder |-> "nobody"]
    /\ faults = 0
----------------------------------------------------------------------------
\* Helpers over the local state of a handler.

Running(h, phase) == handler[h].at = phase /\ ~handler[h].stalled

Goto(h, phase) == handler' = [handler EXCEPT ![h].at = phase]

\* The exception path: the error is classified retryable or not.
Throw(h, retryable) ==
    handler' = [handler EXCEPT ![h].at = "failing", ![h].retryable = retryable]

\* The attempt's row is active, carries this token and its lease is live.
Owns(h) ==
    LET a == handler[h].attempt
    IN  a \in DOMAIN attempts /\ attempts[a].state = "active" /\ attempts[a].live

OwnsJob(h) == row.state = "working" /\ Owns(h)

Closed(seq, a, state, final) ==
    [seq EXCEPT ![a] = [state |-> state, live |-> FALSE, final |-> final]]

\* (mutant) Every answer completes the job, a failed one too.
SettledAlways(status) ==
    job' = IF job.state # "active" THEN job ELSE [job EXCEPT !.state = "completed"]

\* pg-boss settles the job by its identity: it does not ask whose delivery answers.
Settled(status) ==
    job' = IF job.state # "active" THEN job
           ELSE IF status = "completed" THEN [job EXCEPT !.state = "completed"]
           ELSE IF job.retries < RetryLimit
                THEN [job EXCEPT !.state = "retry", !.retries = @ + 1]
                ELSE [job EXCEPT !.state = "failed"]

Reply(h, status) == handler' = [handler EXCEPT ![h] = Idle] /\ Settled(status)

\* A crash, a stall or a failing call, charged to the bound.
Fault == faults < MaxFaults /\ faults' = faults + 1
----------------------------------------------------------------------------
\* The owner's side.

\* The row, its event and its job are one transaction; a repeated request finds the
\* row and changes nothing.
Start ==
    /\ row.state = "none"
    /\ row' = [row EXCEPT !.state = "queued"]
    /\ job' = [job EXCEPT !.state = "created"]
    /\ UNCHANGED <<kind, artifact, attempts, wire, events, handler, faults>>

\* (mutant) Retirement does not ask whether the job is still in the queue, untouched.
RetireDelivered ==
    /\ kind = "investigation"
    /\ row.state = "queued" /\ attempts = <<>>
    /\ row' = [row EXCEPT !.state = "cancelled"]
    /\ job' = [job EXCEPT !.state = "cancelled"]
    /\ UNCHANGED <<kind, artifact, attempts, wire, events, handler, faults>>

\* Once every grant has expired the owner retires an investigation nobody has begun.
Retire ==
    /\ kind = "investigation"
    /\ row.state = "queued" /\ attempts = <<>>
    /\ job.state = "created" /\ job.retries = 0
    /\ row' = [row EXCEPT !.state = "cancelled"]
    /\ job' = [job EXCEPT !.state = "cancelled"]
    /\ UNCHANGED <<kind, artifact, attempts, wire, events, handler, faults>>
----------------------------------------------------------------------------
\* Claiming a delivery.

Deliver(h) ==
    /\ handler[h].at = "idle"
    /\ job.state \in {"created", "retry"}
    /\ job' = [job EXCEPT !.state = "active", !.holder = h]
    /\ Goto(h, "claim")
    /\ UNCHANGED <<kind, row, artifact, attempts, wire, events, faults>>

Active == {a \in DOMAIN attempts : attempts[a].state = "active"}

\* The claim closes the attempt whose lease lapsed.
Abandoned ==
    [a \in DOMAIN attempts |->
        IF a \in Active THEN [state |-> "abandoned", live |-> FALSE, final |-> FALSE]
        ELSE attempts[a]]

\* (mutant) The claim looks only for outcomes that were recorded, and overlooks a bare start.
UnresolvedByOutcomeOnly ==
    \E a \in DOMAIN wire : \E t \in DOMAIN wire[a] :
        wire[a][t].outcome \in {"succeeded", "ambiguous"}

\* A request that was started and not recorded as failed locally may have been paid for.
PriorTransportUnresolved ==
    \E a \in DOMAIN wire : \E t \in DOMAIN wire[a] : wire[a][t].outcome # "failed"

RecordedAmbiguity ==
    \E a \in DOMAIN wire : \E t \in DOMAIN wire[a] : wire[a][t].outcome = "ambiguous"

LocallyReconcilable == artifact \in {"frozen", "rejected"}

\* A later attempt has no way to repeat what an earlier one may have bought.
GivenUp ==
    \/ attempts # <<>> /\ Last(attempts).final
    \/ artifact = "freezing"
    \/ PriorTransportUnresolved /\ ~LocallyReconcilable

Spent == Len(attempts) + 1 > MaxAttempts

ClaimTerminal(h) ==
    /\ row.state \in Decided
    /\ Reply(h, "completed")
    /\ UNCHANGED <<kind, row, artifact, attempts, wire, events, faults>>

ClaimBusy(h) ==
    /\ row.state \notin Decided
    /\ \E a \in Active : attempts[a].live
    /\ Reply(h, "failed")
    /\ UNCHANGED <<kind, row, artifact, attempts, wire, events, faults>>

Claimable == row.state \in {"queued", "working"} /\ \A a \in Active : ~attempts[a].live

\* The job cannot go on: given up, out of attempts, or its run fenced by the authority.
ClaimFails(h) ==
    /\ Claimable
    /\ attempts' = Abandoned
    /\ row' = [row EXCEPT !.state = "failed"]
    /\ Reply(h, "completed")
    /\ UNCHANGED <<kind, artifact, wire, events, faults>>

ClaimAttempt(h) ==
    /\ Claimable
    /\ ~GivenUp /\ ~Spent /\ ~RecordedAmbiguity
    /\ row' = [row EXCEPT !.state = "working"]
    /\ attempts' = Append(Abandoned, [state |-> "active", live |-> TRUE, final |-> FALSE])
    /\ wire' = Append(wire, <<>>)
    /\ handler' = [handler EXCEPT ![h].at = "begin", ![h].attempt = Len(attempts) + 1]
    /\ UNCHANGED <<kind, artifact, events, job, faults>>

ClaimError(h) ==
    /\ Fault
    /\ Reply(h, "failed")
    /\ UNCHANGED <<kind, row, artifact, attempts, wire, events>>

\* The authority may refuse business for reasons outside this job, so ClaimFails is
\* allowed wherever the job is claimable.
Claim(h) ==
    /\ Running(h, "claim")
    /\ ClaimTerminal(h) \/ ClaimBusy(h) \/ ClaimFails(h) \/ ClaimAttempt(h) \/ ClaimError(h)
----------------------------------------------------------------------------
\* The session.

\* A candidate generation first looks for what an earlier attempt left behind, and
\* continues the usage its row has recorded; an investigation starts from zero.
Begin(h) ==
    /\ Running(h, "begin")
    /\ \/ artifact = "frozen" /\ Goto(h, "complete") /\ UNCHANGED faults
       \/ artifact = "rejected" /\ Throw(h, FALSE) /\ UNCHANGED faults
       \/ artifact \notin {"frozen", "rejected"} /\ UNCHANGED faults
          /\ handler' = [handler EXCEPT ![h].at = "loop", ![h].turns = row.turns,
                                        ![h].calls = row.calls]
       \/ Throw(h, FALSE) /\ Fault
    /\ UNCHANGED <<kind, row, artifact, attempts, wire, events, job>>

\* The turn after the tool-bearing ones is the reserved, final one.
Final(h) == handler[h].final \/ handler[h].turns >= MaxToolTurns

\* A candidate generation counts the turn, durably, before it is sent.
Ask(h) ==
    /\ Running(h, "loop")
    /\ LET counted == IF kind = "candidate" THEN handler[h].turns + 1 ELSE handler[h].turns
       IN  \/ /\ handler[h].turns + 1 > MaxToolTurns + 1
              /\ Throw(h, FALSE) /\ UNCHANGED row
           \/ /\ handler[h].turns <= MaxToolTurns /\ handler[h].aborted
              /\ Throw(h, TRUE) /\ UNCHANGED row
           \/ /\ handler[h].turns <= MaxToolTurns /\ ~handler[h].aborted /\ ~OwnsJob(h)
              /\ Throw(h, FALSE) /\ UNCHANGED row
           \/ /\ handler[h].turns <= MaxToolTurns /\ ~handler[h].aborted /\ OwnsJob(h)
              /\ handler' = [handler EXCEPT ![h].at = "owned", ![h].final = Final(h),
                                            ![h].turns = counted]
              /\ row' = [row EXCEPT !.turns = IF kind = "candidate" THEN counted ELSE @]
    /\ UNCHANGED <<kind, artifact, attempts, wire, events, job, faults>>

Mine(h) == wire[handler[h].attempt]

\* The outcome of the handler's latest request, as the event log has it.
Recorded(h, outcome, sent) ==
    wire' = [wire EXCEPT ![handler[h].attempt][Len(Mine(h))] =
                [outcome |-> outcome, sent |-> sent]]

\* The authority admits the request and records that it starts, or refuses for good.
Reserve(h) ==
    /\ Running(h, "owned")
    /\ \/ /\ ~RecordedAmbiguity
          /\ wire' = [wire EXCEPT ![handler[h].attempt] =
                        Append(@, [outcome |-> "started", sent |-> FALSE])]
          /\ Goto(h, "begun")
       \/ Throw(h, FALSE) /\ UNCHANGED wire
    /\ UNCHANGED <<kind, row, artifact, attempts, events, job, faults>>

\* Ownership of the reservation is asserted a last time; refused there, the request is
\* recorded as a local failure, or, when even that fails, stays a bare start.
AssertOwnership(h) ==
    /\ Running(h, "begun")
    /\ \/ Goto(h, "asserted") /\ UNCHANGED wire
       \/ Throw(h, FALSE) /\ (Recorded(h, "failed", FALSE) \/ UNCHANGED wire)
    /\ UNCHANGED <<kind, row, artifact, attempts, events, job, faults>>

\* The answer of that assertion is followed by the call.  A session that was aborted
\* sends nothing, and what it records is an ambiguity or, again, the bare start.
Send(h) ==
    /\ Running(h, "asserted")
    /\ \/ ~handler[h].aborted /\ Recorded(h, "started", TRUE) /\ Goto(h, "sent")
       \/ /\ handler[h].aborted /\ Throw(h, FALSE)
          /\ Recorded(h, "ambiguous", FALSE) \/ UNCHANGED wire
    /\ UNCHANGED <<kind, row, artifact, attempts, events, job, faults>>

\* No answer, or one whose outcome could not be recorded: neither is ever retried.
AnswerLost(h) ==
    /\ Throw(h, FALSE)
    /\ Recorded(h, "ambiguous", TRUE) \/ UNCHANGED wire
    /\ UNCHANGED <<row, faults>>

Answered(h) == IF kind = "investigation" THEN handler[h].turns + 1 ELSE handler[h].turns

\* A result that breaks the protocol, asks for a tool in the final turn, or cites what
\* this session has not observed ends the attempt for good.
AnswerRejected(h) ==
    /\ Recorded(h, "succeeded", TRUE) /\ Throw(h, FALSE)
    /\ UNCHANGED <<row, faults>>

\* (mutant) Observations of an earlier attempt are taken for this session's.
GroundedInAnyAttempt(h, cites) == cites \subseteq {e \in DOMAIN events : events[e].bytes >= 0}

\* Citations are context operations; 0 stands for a reference the model made up.
Grounded(h, cites) == cites \subseteq handler[h].seen

AnswerConcludes(h) ==
    \E cites \in SUBSET (0..Len(events)), abstains \in BOOLEAN :
        /\ Grounded(h, cites)
        /\ abstains => kind = "candidate" /\ cites = {}
        /\ Recorded(h, "succeeded", TRUE)
        /\ handler' = [handler EXCEPT ![h].at = "concluded", ![h].cites = cites,
                                      ![h].abstains = abstains, ![h].turns = Answered(h)]
        /\ UNCHANGED <<row, faults>>

\* A tool call beyond a budget is answered with an error and forces the final turn.
AnswerCallsTool(h) ==
    /\ ~handler[h].final
    /\ Recorded(h, "succeeded", TRUE)
    /\ \/ /\ handler[h].calls < MaxToolCalls
          /\ \/ kind = "investigation" /\ UNCHANGED row
             \/ kind = "candidate" /\ OwnsJob(h) /\ row' = [row EXCEPT !.calls = @ + 1]
          /\ handler' = [handler EXCEPT ![h].at = "tool", ![h].turns = Answered(h),
                                        ![h].calls = @ + 1]
       \/ /\ handler' = [handler EXCEPT ![h].at = "loop", ![h].turns = Answered(h),
                                        ![h].final = TRUE]
          /\ UNCHANGED row
       \/ kind = "candidate" /\ ~OwnsJob(h) /\ Throw(h, FALSE) /\ UNCHANGED row
    /\ UNCHANGED faults

Answer(h) ==
    /\ Running(h, "sent")
    /\ \/ AnswerLost(h) \/ AnswerRejected(h) \/ AnswerConcludes(h)
       \/ AnswerCallsTool(h)
    /\ UNCHANGED <<kind, artifact, attempts, events, job>>
----------------------------------------------------------------------------
\* The audited context operations a tool call performs.

\* One element per block: the sum of the sizes is the number of blocks.
Blocks(log) == UNION {{e} \X (1..log[e].bytes) : e \in DOMAIN log}
BytesOf(log) == Cardinality(Blocks(log))

\* A search may be truncated to what is left; a read that does not fit is refused.
Granted(bytes, truncatable) ==
    LET left == MaxBytes - BytesOf(events)
    IN  IF truncatable /\ bytes > left THEN left ELSE bytes

OperationFits(bytes, truncatable) ==
    /\ Len(events) < MaxOperations
    /\ BytesOf(events) + Granted(bytes, truncatable) <= MaxBytes
    /\ bytes > 0 => Granted(bytes, truncatable) > 0

\* The budget is reserved, with the audit event, before anything is read.
ReserveOperation(h) ==
    /\ Running(h, "tool")
    /\ \E bytes \in ResultBytes, truncatable \in BOOLEAN :
          \/ /\ ~OwnsJob(h)
             /\ Throw(h, FALSE) /\ UNCHANGED events
          \/ /\ OwnsJob(h) /\ OperationFits(bytes, truncatable)
             /\ events' = Append(events, [attempt |-> handler[h].attempt, status |-> "started",
                                          bytes |-> Granted(bytes, truncatable)])
             /\ handler' = [handler EXCEPT ![h].at = "tooling", ![h].op = Len(events) + 1]
          \/ /\ OwnsJob(h) /\ ~OperationFits(bytes, truncatable)
             /\ handler' = [handler EXCEPT ![h].at = "loop", ![h].final = TRUE]
             /\ UNCHANGED events
          \/ /\ OwnsJob(h) /\ Len(events) < MaxOperations   \* a path or query refused
             /\ events' = Append(events, [attempt |-> handler[h].attempt,
                                          status |-> "rejected", bytes |-> 0])
             /\ Goto(h, "loop")
    /\ UNCHANGED <<kind, row, artifact, attempts, wire, job, faults>>

\* What was read is charged, and only then observed by the session; a failed read is
\* charged nothing, and only a candidate generation gives up when the source is gone.
CompleteOperation(h) ==
    /\ Running(h, "tooling")
    /\ LET e == handler[h].op
       IN  \/ ~OwnsJob(h) /\ Throw(h, FALSE) /\ UNCHANGED events
           \/ /\ OwnsJob(h)
              /\ \E bytes \in ResultBytes : /\ bytes <= events[e].bytes
                    /\ events' = [events EXCEPT ![e].status = "completed", ![e].bytes = bytes]
              /\ IF handler[h].aborted /\ kind = "investigation" THEN Throw(h, TRUE)
                 ELSE handler' = [handler EXCEPT ![h].at = "loop", ![h].seen = @ \cup {e}]
           \/ /\ OwnsJob(h)
              /\ events' = [events EXCEPT ![e].status = "failed", ![e].bytes = 0]
              /\ IF handler[h].aborted /\ kind = "investigation" THEN Throw(h, TRUE)
                 ELSE \/ Goto(h, "loop")
                      \/ kind = "candidate" /\ Throw(h, FALSE)
    /\ UNCHANGED <<kind, row, artifact, attempts, wire, job, faults>>
----------------------------------------------------------------------------
\* From a conclusion to a verdict.

Concluded(h) ==
    /\ Running(h, "concluded")
    /\ IF kind = "investigation" \/ handler[h].abstains THEN Goto(h, "complete")
       ELSE Goto(h, "propose") \/ Throw(h, FALSE)
    /\ UNCHANGED <<kind, row, artifact, attempts, wire, events, job, faults>>

\* Proposing inserts the candidate row, then reads the base files, then freezes it.
Propose(h) ==
    /\ Running(h, "propose")
    /\ artifact = "absent" /\ artifact' = "freezing"
    /\ Goto(h, "freezing")
    /\ UNCHANGED <<kind, row, attempts, wire, events, job, faults>>

Freeze(h) ==
    /\ Running(h, "freezing")
    /\ \/ artifact' = "frozen" /\ Goto(h, "complete")
       \/ artifact' = "rejected" /\ Throw(h, FALSE)
    /\ UNCHANGED <<kind, row, attempts, wire, events, job, faults>>

\* The verdict and the end of the attempt are one transaction of the live owner.
Complete(h) ==
    /\ Running(h, "complete")
    /\ \/ /\ OwnsJob(h)
          /\ row' = [row EXCEPT !.state = IF handler[h].abstains THEN "abstained" ELSE "done",
                                !.by = handler[h].attempt, !.cites = handler[h].cites]
          /\ attempts' = Closed(attempts, handler[h].attempt, "succeeded", FALSE)
          /\ Reply(h, "completed") /\ UNCHANGED faults
       \/ /\ ~OwnsJob(h)
          /\ Reply(h, "failed") /\ UNCHANGED <<row, attempts, faults>>
       \/ /\ Fault
          /\ Throw(h, artifact = "frozen") /\ UNCHANGED <<row, attempts, job>>
    /\ UNCHANGED <<kind, artifact, wire, events>>

Exhausted(h) == ~handler[h].retryable \/ handler[h].attempt >= MaxAttempts

Fail(h) ==
    /\ Running(h, "failing")
    /\ \/ /\ OwnsJob(h) /\ UNCHANGED faults
          /\ attempts' = Closed(attempts, handler[h].attempt,
                                IF Exhausted(h) THEN "exhausted" ELSE "retryable_failed",
                                ~handler[h].retryable)
          /\ IF Exhausted(h)
             THEN row' = [row EXCEPT !.state = "failed"] /\ Reply(h, "completed")
             ELSE UNCHANGED row /\ Reply(h, "failed")
       \/ ~OwnsJob(h) /\ Reply(h, "failed") /\ UNCHANGED <<row, attempts, faults>>
       \/ Fault /\ Reply(h, "failed") /\ UNCHANGED <<row, attempts>>
    /\ UNCHANGED <<kind, artifact, wire, events>>
----------------------------------------------------------------------------
\* Time, loss and the queue.

\* The three-minute timer of the session, or the worker's shutdown.
Abort(h) ==
    /\ handler[h].at \in {"begin", "loop", "owned", "begun", "asserted", "sent",
                         "tool", "tooling"}
    /\ ~handler[h].stalled /\ ~handler[h].aborted
    /\ handler' = [handler EXCEPT ![h].aborted = TRUE]
    /\ UNCHANGED <<kind, row, artifact, attempts, wire, events, job, faults>>

Stall(h) ==
    /\ handler[h].at # "idle" /\ ~handler[h].stalled
    /\ Fault
    /\ handler' = [handler EXCEPT ![h].stalled = TRUE]
    /\ UNCHANGED <<kind, row, artifact, attempts, wire, events, job>>

\* The timer of a session whose lease has lapsed is long overdue, and aborts it before
\* anything asked of the database from now on is answered.  But an answer that was
\* already there is acted on first: a call whose assertion has been answered still goes
\* out.  And before there is a session only the heartbeat aborts, some time later.
Resume(h) ==
    /\ handler[h].stalled
    /\ \/ handler' = [handler EXCEPT ![h].stalled = FALSE,
                                     ![h].aborted = @ \/ (handler[h].attempt # 0 /\ ~Owns(h))]
       \/ /\ handler[h].at \in {"begin", "asserted"}
          /\ handler' = [handler EXCEPT ![h].stalled = FALSE]
    /\ UNCHANGED <<kind, row, artifact, attempts, wire, events, job, faults>>

Crash(h) ==
    /\ handler[h].at # "idle"
    /\ Fault
    /\ handler' = [handler EXCEPT ![h] = Idle]
    /\ UNCHANGED <<kind, row, artifact, attempts, wire, events, job>>

Renewed(a) == \E h \in Handler : handler[h].attempt = a /\ ~handler[h].stalled

Lapse ==
    /\ \E a \in Active : /\ attempts[a].live /\ ~Renewed(a)
                         /\ attempts' = [attempts EXCEPT ![a].live = FALSE]
    /\ UNCHANGED <<kind, row, artifact, wire, events, handler, job, faults>>

\* (mutant) Only a holder that stalls is missed, never one that died.
ExpireStalled ==
    /\ job.state = "active"
    /\ handler[job.holder].stalled
    /\ Settled("failed")
    /\ UNCHANGED <<kind, row, artifact, attempts, wire, events, handler, faults>>

\* pg-boss misses the holder's heartbeats and redelivers.
Expire ==
    /\ job.state = "active"
    /\ handler[job.holder].at = "idle" \/ handler[job.holder].stalled
    /\ Settled("failed")
    /\ UNCHANGED <<kind, row, artifact, attempts, wire, events, handler, faults>>
----------------------------------------------------------------------------
Step(h) ==
    \/ Claim(h) \/ Begin(h) \/ Ask(h) \/ Reserve(h) \/ AssertOwnership(h) \/ Send(h)
    \/ Answer(h) \/ ReserveOperation(h) \/ CompleteOperation(h)
    \/ Concluded(h) \/ Propose(h) \/ Freeze(h) \/ Complete(h) \/ Fail(h)

Next ==
    \/ Start \/ Retire \/ Lapse \/ Expire
    \/ \E h \in Handler : \/ Deliver(h) \/ Step(h)
                          \/ Abort(h) \/ Stall(h) \/ Resume(h) \/ Crash(h)

Spec == Init /\ [][Next]_vars

\* The database clock passes a lease, the queue polls and expires, a process that is
\* not stalled goes on, and a stalled one resumes.
Fairness ==
    /\ WF_vars(Start) /\ WF_vars(Lapse) /\ WF_vars(Expire)
    /\ WF_vars(\E h \in Handler : Deliver(h))
    /\ \A h \in Handler : WF_vars(Step(h)) /\ WF_vars(Resume(h))

FairSpec == Spec /\ Fairness
----------------------------------------------------------------------------
Sends(a) == Cardinality({t \in DOMAIN wire[a] : wire[a][t].sent})

\* A request is on record and what is left to do to send it needs no further consent.
MaySend(h) ==
    /\ ~handler[h].aborted
    /\ \/ handler[h].at = "begun" /\ Owns(h)
       \/ handler[h].at = "asserted"

Latest(h) == <<handler[h].attempt, Len(Mine(h))>>

Paid == INSTANCE PaidRequest
            WITH Attempt <- 1..MaxAttempts, Turn <- 1..(MaxToolTurns + 1),
                 ready <- {Latest(h) : h \in {g \in Handler : MaySend(g)}},
                 sent <- UNION {{<<a, t>> : t \in {u \in DOMAIN wire[a] : wire[a][u].sent}} :
                                a \in DOMAIN wire},
                 closed <- row.state \in Decided

\* However deliveries, stalls and lapses interleave, one attempt at most sends paid
\* requests, one request at a time and each put on record while the job is undecided;
\* a decision may overtake the one on record, and nothing else is sent after it:
\* priorModelTransportUnresolved, the ownership check before each turn, the assertion
\* before each call and the abort of a resumed session together.
PaidSpec == Paid!Spec

\* A completed job was concluded by an attempt that succeeded as its owner, cites only
\* context operations that this attempt completed, and, when it is a candidate
\* generation, points at a candidate that is frozen.
VerdictIsBacked ==
    row.state = "done" =>
        /\ attempts[row.by].state = "succeeded"
        /\ \A e \in row.cites : events[e].status = "completed" /\ events[e].attempt = row.by
        /\ kind = "candidate" => artifact = "frozen"

\* All attempts together stay within the bytes and operations of the context and within
\* the turns of one session, reserved final turn included.
BudgetsHold ==
    /\ BytesOf(events) <= MaxBytes /\ Len(events) <= MaxOperations
    /\ \A a \in DOMAIN wire : Sends(a) <= MaxToolTurns + 1
    /\ row.turns <= MaxToolTurns + 1

\* A decided job has no attempt that still owns anything; one retired by its owner was
\* never claimed and no worker is holding its delivery.
DecidedIsQuiet ==
    /\ row.state \in Decided => Active = {}
    /\ row.state = "cancelled" =>
          attempts = <<>> /\ \A h \in Handler : handler[h].at = "idle"

\* The rows have their types, keep to the budgets, and are quiet once decided.
Consistent == TypeOK /\ BudgetsHold /\ DecidedIsQuiet

\* The queue's redeliveries outlast the attempts: a job is left undecided with no
\* delivery to come only when a process crashed or stalled or a step met an error.
StrandedOnlyByFault ==
    job.state \in {"failed", "completed"} /\ row.state \notin Decided =>
        faults > 0

\* A requested job is decided, or its deliveries are used up.
EndsOrSpent == <>(row.state \in Decided \/ job.state \in {"failed", "completed"})
============================================================================
