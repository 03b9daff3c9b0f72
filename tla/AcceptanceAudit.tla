--------------------------- MODULE AcceptanceAudit ---------------------------
(***************************************************************************)
(* What a release acceptance rests on: the audit that recomputes, from     *)
(* rows nobody can change, what the provider was asked and answered        *)
(* (verifyAcceptanceExecutionAudit), and the resolver that accepts a row.  *)
(* The audit is compared with every log the authority can write for one    *)
(* reservation.  Token counts and digests are left out.                    *)
(***************************************************************************)
EXTENDS Integers, FiniteSets, SequencesExt

CONSTANTS
    Attempts,   \* reservedProviderAttempts
    LeaseEnd,   \* lease.leaseExpiresAt, by the clock of the database
    GrantEnd    \* the earlier expiry of the two grants

Outcomes == {"attempt_succeeded", "attempt_failed", "attempt_ambiguous"}
Terminals == {"completed", "failed", "expired"}
Event(type, ordinal, at) == [type |-> type, ordinal |-> ordinal, at |-> at]
----------------------------------------------------------------------------
\* The log of one reservation: the events, the lease, and the database's clock.
Reserved == [now |-> 0, events |-> <<Event("reserved", 0, 0)>>, state |-> "active", completedAt |-> 0]

Ordinals(log, types) ==
    {log.events[i].ordinal : i \in {j \in DOMAIN log.events : log.events[j].type \in types}}
Starts(log) == Ordinals(log, {"attempt_started"})
Written(log, event) == [log EXCEPT !.events = Append(@, event)]
Fresh(log) == log.now < LeaseEnd /\ log.now < GrantEnd

Started(log) ==
    IF log.state = "active" /\ Fresh(log) /\ Cardinality(Starts(log)) < Attempts
    THEN {Written(log, Event("attempt_started", Cardinality(Starts(log)) + 1, log.now))} ELSE {}

Finished(log) ==
    {Written(log, Event(outcome, o, log.now)) :
        o \in IF log.state = "active" THEN Starts(log) \ Ordinals(log, Outcomes) ELSE {},
        outcome \in IF Fresh(log) THEN Outcomes ELSE Outcomes \ {"attempt_succeeded"}}

\* complete: the outcome asked for, or "ambiguous" when one is.  The row and the
\* event carry the time of the worker's own clock, skew ahead of the database's.
Completed(log, skew) ==
    LET uncertain == \/ Starts(log) # Ordinals(log, Outcomes)
                     \/ Ordinals(log, {"attempt_ambiguous"}) # {}
        asked == IF log.state # "active" THEN {}
                 ELSE IF uncertain THEN {"ambiguous"}
                 ELSE IF Fresh(log) THEN {"succeeded", "failed", "ambiguous"}
                 ELSE {"failed", "ambiguous"}
        End(state) == IF state = "succeeded" THEN "completed" ELSE "failed"
    IN  {[Written(log, Event(End(state), 0, log.now + skew))
            EXCEPT !.state = state, !.completedAt = log.now + skew] : state \in asked}

\* Another reservation sweeps the lapsed lease.
Swept(log) ==
    IF log.state = "active" /\ log.now >= LeaseEnd
    THEN {[Written(log, Event("expired", 0, log.now)) EXCEPT !.state = "expired", !.completedAt = log.now]}
    ELSE {}

Steps(log, skew) ==
    Started(log) \cup Finished(log) \cup Completed(log, skew) \cup Swept(log)
        \cup {[log EXCEPT !.now = @ + 1]}

\* Every log after n steps.
Logs(skew, n) ==
    LET After[k \in 0..n] ==
            IF k = 0 THEN {Reserved} ELSE UNION {Steps(log, skew) : log \in After[k - 1]}
    IN  UNION {After[k] : k \in 0..n}
----------------------------------------------------------------------------
Among(log, types) == SelectSeq(log.events, LAMBDA event : event.type \in types)

Audit(log) ==
    LET terminal == Among(log, Terminals)
        started == Among(log, {"attempt_started"})
        outcomes == Among(log, Outcomes)
        Count(o) == Len(SelectSeq(outcomes, LAMBDA event : event.ordinal = o))
    IN  /\ log.state \in {"succeeded", "failed"}
        /\ log.completedAt >= log.events[1].at
        /\ log.completedAt < LeaseEnd /\ log.completedAt < GrantEnd
        /\ Len(Among(log, {"reserved"})) = 1 /\ Len(terminal) = 1
        /\ terminal[1].type = (IF log.state = "succeeded" THEN "completed" ELSE "failed")
        /\ terminal[1].at = log.completedAt
        /\ Len(started) <= Attempts /\ Len(started) = Len(outcomes)
        /\ Attempts > 0 => started # << >>
        /\ log.state = "succeeded" /\ started # << >> =>
              \E i \in DOMAIN outcomes : outcomes[i].type = "attempt_succeeded"
        /\ \A i \in DOMAIN started : started[i].ordinal = i /\ Count(i) = 1
        /\ \A i \in DOMAIN outcomes :
              /\ outcomes[i].type # "attempt_ambiguous"
              /\ outcomes[i].at \in log.events[1].at..log.completedAt

\* What the audit is to find out: the lease was settled in time by the database's
\* clock, with every answer known, for an operation that did ask the provider.
SettledInTime(log, skew) ==
    /\ log.state \in {"succeeded", "failed"}
    /\ log.completedAt - skew < LeaseEnd /\ log.completedAt - skew < GrantEnd
    /\ Attempts > 0 => Starts(log) # {}
    /\ log.state = "succeeded" /\ Starts(log) # {} => Ordinals(log, {"attempt_succeeded"}) # {}

\* By one clock, the audit accepts exactly those: no order of starts, answers and
\* completion hides an unknown outcome, or loses one that was settled.
AuditIsExact(n) == \A log \in Logs(0, n) : Audit(log) <=> SettledInTime(log, 0)

\* A worker whose clock differs from the database's, ahead or behind, makes the audit
\* refuse, for good, an execution that succeeded in time.
SkewLosesTheGenuine(skew, n) ==
    \E log \in Logs(skew, n) : log.state = "succeeded" /\ SettledInTime(log, skew) /\ ~Audit(log)
----------------------------------------------------------------------------
(* Acceptances.  A reservation of the run is [id, shot, state, audited].    *)

\* verifyRepairLoopEvidence, what it says of the run's reservations.
LoopEvidence(row, reservations) ==
    LET bound == {r \in reservations : r.id \in row.bound}
        allOfRun == {r.id : r \in {s \in reservations : ~s.shot}}
    IN  /\ row.matched
        /\ \E r \in bound : r.category = "gemini_candidate_generation"
        /\ \E r \in bound : r.category = "sandbox_verification"
        /\ \A r \in bound : r.audited /\ r.state = "succeeded"
        /\ {r.id : r \in bound} = row.bound /\ allOfRun = row.bound

\* verifySecurityCostEvidence
CostEvidence(row, reservations) ==
    LET bound == {r \in reservations : r.id \in row.bound}
    IN  {r.id : r \in bound} = row.bound /\ \A r \in bound : r.audited /\ r.state # "active"

\* verifyHumanReviewEvidence, verifyDraftPublicationEvidence: the decision or the
\* publication that is named; the row must repeat some links of its chain and may
\* leave the others out.
ChainEvidence(row, facts, ended, repeated) ==
    \E fact \in facts :
        /\ fact.id = row.fact /\ fact.state = ended
        /\ \A link \in DOMAIN row.chain :
              \/ row.chain[link] = fact.chain[link]
              \/ row.chain[link] = "null" /\ link \notin repeated

Evidence(row, reservations, facts) ==
    CASE row.kind = "repair_loop_live"       -> LoopEvidence(row, reservations)
      [] row.kind = "security_cost_control"  -> CostEvidence(row, reservations)
      [] row.kind = "human_review_live"      ->
            ChainEvidence(row, facts, "approved", {"run", "candidate", "verification"})
      [] row.kind = "draft_publication_live" ->
            ChainEvidence(row, facts, "published", {"decision"})

\* resolveReleaseAcceptance, for a boundary: a kind and a release.
Resolve(rows, kind, release, revoked, reservations, facts) ==
    LET passed == {row \in rows : row.kind = kind /\ row.release = release /\ row.state = "passed"}
    IN  IF passed = {} THEN "acceptance_missing"
        ELSE IF Cardinality(passed) # 1 THEN "acceptance_boundary_mismatch"
        ELSE IF \E row \in passed : row.id \in revoked THEN "acceptance_revoked"
        ELSE IF \E row \in passed : ~Evidence(row, reservations, facts)
        THEN "acceptance_boundary_mismatch"
        ELSE "accepted"

\* A loop is not accepted by leaving out what went wrong: if it is, every provider
\* operation of its run succeeded and was audited, and both kinds are among them.
NothingIsLeftOut(row, reservations) ==
    Resolve({row}, row.kind, row.release, {}, reservations, {}) = "accepted" =>
        \A r \in reservations : ~r.shot => r.audited /\ r.state = "succeeded" /\ r.id \in row.bound

\* A run with one operation that failed, was ambiguous or lapsed is never accepted,
\* whatever is bound: its reservations are immutable.
OneFailureIsForGood(row, reservations) ==
    (\E r \in reservations : ~r.shot /\ r.state # "succeeded") =>
        Resolve({row}, row.kind, row.release, {}, reservations, {}) # "accepted"

\* An accepted decision and an accepted publication of it are about one candidate,
\* though each row may leave links out.
OneSubject(human, draft, facts) ==
    /\ Resolve({human}, human.kind, human.release, {}, {}, facts) = "accepted"
    /\ Resolve({draft}, draft.kind, draft.release, {}, {}, facts) = "accepted"
    /\ draft.chain.decision = human.fact
    => draft.chain.candidate \in {"null", human.chain.candidate}
=============================================================================
