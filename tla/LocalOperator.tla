---------------------------- MODULE LocalOperator ----------------------------
(***************************************************************************)
(* The two pages with which an operator stages a reviewed run, and retires *)
(* one that never began.  A submission passes the page's checks, awaits    *)
(* what the service does, and is answered; several may be under way, the   *)
(* plan may expire, and a worker may begin the run.  States are reached    *)
(* from First by Steps.                                                    *)
(***************************************************************************)
EXTENDS Naturals, FiniteSets

CONSTANTS Post      \* the submissions

\* What is durable of the run, for a page: its state, its job's, and its traces.
Run == [run : {"absent", "created", "running", "cancelled"}, job : {"none", "created", "active", "cancelled"},
        started : BOOLEAN, attempt : BOOLEAN, reservation : BOOLEAN, child : BOOLEAN, revoked : {0, 1, 6}]
Unstaged == [run |-> "absent", job |-> "none", started |-> FALSE, attempt |-> FALSE,
             reservation |-> FALSE, child |-> FALSE, revoked |-> 0]
Inert == [Unstaged EXCEPT !.run = "created", !.job = "created"]
Retired == [Inert EXCEPT !.run = "cancelled", !.job = "cancelled", !.revoked = 6]
Begun == [Inert EXCEPT !.run = "running", !.job = "active", !.started = TRUE, !.attempt = TRUE]
----------------------------------------------------------------------------
\* What admits a request: it is local, its method, its origin, the session, the owner.
Request == [local : BOOLEAN, method : {"GET", "POST", "PUT"}, sameOrigin : BOOLEAN,
            context : {"error", "none", "other", "owner"}]
Admit(request) ==
    IF ~request.local THEN "unavailable"
    ELSE IF request.method = "PUT" THEN "method unavailable"
    ELSE IF request.method = "POST" /\ ~request.sameOrigin THEN "forbidden"
    ELSE IF request.context = "error" THEN "authentication unavailable"
    ELSE IF request.context = "none" THEN "sign in"
    ELSE IF request.context = "other" THEN "forbidden" ELSE "admitted"

\* readHistoricalRetirement: a conflict, or the preview with its eligibility.
Conflict(run) == run.run \notin {"created", "cancelled"} \/ run.job = "none"
Eligible(run) ==
    run.run = "created" /\ run.job = "created" /\ ~run.started /\ ~run.attempt /\ ~run.reservation /\ run.revoked = 0

\* retireReviewedStagedRun: the result and the run it leaves.
Retire(run) ==
    IF Conflict(run) THEN [result |-> "denied", run |-> run]
    ELSE IF run.run = "cancelled"
    THEN [result |-> IF run.job = "cancelled" /\ run.revoked = 6 THEN "already_retired" ELSE "denied", run |-> run]
    ELSE IF \/ run.job # "created" \/ run.started \/ run.revoked # 0
            \/ run.attempt \/ run.reservation \/ run.child
    THEN [result |-> "denied", run |-> run]
    ELSE [result |-> "retired", run |-> Retired]

\* stageReviewedRepairRun: the same plan once more is told that it stands, while it does.
Stage(run, expired) ==
    IF expired \/ run.revoked # 0 THEN [result |-> "denied", run |-> run]
    ELSE [result |-> "staged", run |-> IF run.run = "absent" THEN Inert ELSE run]
----------------------------------------------------------------------------
\* The handler's process and its submissions.
First(run) ==
    [run |-> run, expired |-> FALSE, attempted |-> FALSE,
     at |-> [p \in Post |-> "arrived"], page |-> [p \in Post |-> "none"],
     called |-> {}, wrote |-> {}]

Answer(x, p, page) == [x EXCEPT !.at[p] = "answered", !.page[p] = page]

\* The request is admitted or not; staging then builds the plan again, by the clock.
Admitted(page, x, p) ==
    IF x.at[p] # "arrived" THEN {}
    ELSE {Answer(x, p, Admit(request)) : request \in {r \in Request : Admit(r) # "admitted"}} \cup
         {IF page = "stage" /\ x.expired THEN Answer(x, p, "expired, no action")
          ELSE [x EXCEPT !.at[p] = "admitted"]}

\* The form is read.  Staging is attempted once in the life of the process.
Submitted(page, x, p) ==
    IF x.at[p] # "admitted" THEN {}
    ELSE {Answer(x, p, "invalid, no action")} \cup
         {IF page = "stage" /\ x.attempted THEN Answer(x, p, "already attempted")
          ELSE [x EXCEPT !.attempted = TRUE, !.at[p] = "called", !.called = @ \cup {p}]}

\* The service's transaction: it commits, is refused, or fails before it commits.
Serviced(page, x, p) ==
    LET done == IF page = "stage" THEN Stage(x.run, x.expired) ELSE Retire(x.run)
    IN  IF x.at[p] # "called" THEN {}
        ELSE {[x EXCEPT !.at[p] = done.result, !.run = done.run,
                        !.wrote = IF done.run # x.run THEN @ \cup {p} ELSE @],
              [x EXCEPT !.at[p] = "denied"]}

\* The queue's client is stopped, within a deadline; then the answer.
Stopped(x, p) ==
    CASE x.at[p] \in {"staged", "retired", "already_retired"} ->
            {Answer(x, p, x.at[p]), Answer(x, p, "uncertain")}
      [] x.at[p] = "denied" -> {Answer(x, p, "uncertain")}
      [] OTHER -> {}

\* Around the pages: the plan expires, a worker claims the inert run's job.
Around(x) ==
    {[x EXCEPT !.expired = TRUE]} \cup (IF x.run = Inert /\ ~x.expired THEN {[x EXCEPT !.run = Begun]} ELSE {})

Steps(page, x) ==
    Around(x) \cup UNION {Admitted(page, x, p) \cup Submitted(page, x, p) \cup Serviced(page, x, p)
                            \cup Stopped(x, p) : p \in Post}

Reached(page, run) ==
    LET n == 4 * Cardinality(Post) + 2
        Within[k \in 0..n] ==
            IF k = 0 THEN {First(run)}
            ELSE LET before == Within[k - 1] IN before \cup UNION {Steps(page, x) : x \in before}
    IN  Within[n]
----------------------------------------------------------------------------
\* However submissions overlap, staging is called once; and a page that says an action
\* was taken, or that none was, is right of that submission.
OneSubmission(x) == Cardinality(x.called) <= 1 /\ Cardinality(x.wrote) <= 1
StagingPagesAreTrue(x) ==
    \A p \in Post :
        /\ x.page[p] = "staged" => x.run.run # "absent"
        /\ x.page[p] \notin {"none", "staged", "uncertain"} => p \notin x.called \cup x.wrote

\* A run is retired by one submission at most, never once a worker has begun it; the
\* others are told so, or that the outcome is uncertain.
RetirementPagesAreTrue(x) ==
    /\ Cardinality(x.wrote) <= 1
    /\ \A p \in Post :
          /\ x.page[p] = "retired" => p \in x.wrote
          /\ x.page[p] = "already_retired" => x.wrote \ {p} # {}
          /\ x.page[p] \in {"retired", "already_retired"} => x.run = Retired
          /\ x.page[p] \notin {"none", "retired", "already_retired", "uncertain"} => p \notin x.called

\* The preview offers the button exactly when the service would retire the run as it
\* is, of every run whose phases were begun by attempts of its worker.
PreviewIsRight(run) ==
    (run.child => run.attempt) => (~Conflict(run) /\ Eligible(run) <=> Retire(run).result = "retired")

\* An uncertain answer tells nothing: the run may have been changed, or not.
UncertainMeansEither(reached) ==
    \A changed \in BOOLEAN : \E x \in reached : \E p \in Post :
        x.page[p] = "uncertain" /\ (p \in x.wrote) = changed
=============================================================================
