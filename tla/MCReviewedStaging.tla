-------------------------- MODULE MCReviewedStaging --------------------------
(* ReviewedStaging for TLC: two plans of one repository, and the commits;  *)
(* what a plan authorises, what the operator's pages say, and when the     *)
(* service calls itself ready.                                             *)
EXTENDS ReviewedStaging, TLC

CONSTANTS r1, r2, p1, p2, good, cyclic

MCPlanRepo == p1 :> r1 @@ p2 :> r1
MCPlanCommit == p1 :> good @@ p2 :> good
MCExpiry == p1 :> 1 @@ p2 :> 2

\* Either GitHub is consulted, beside one one-shot and without a fault, or the
\* one-shots and a fault meet, or the two plans do.
Launched == {s \in Shot : proc[s].at # "unused"}
Bounds ==
    /\ attempts # <<>> => faults = 0 /\ Cardinality(Launched) <= 1 /\ ~Staged(p2)
    /\ detection.at # "idle" => faults = 0 /\ Cardinality(Launched) <= 1
    /\ Staged(p2) => faults = 0 /\ detection.at = "idle"

Call(s) == [run |-> s]
Vitest == [runner |-> "vitest"]
MCContent ==
    good   :> [flaws |-> {}, scripts |-> "test" :> <<Call("unit")>> @@ "unit" :> <<Vitest>>]
 @@ cyclic :> [flaws |-> {}, scripts |-> "test" :> <<Call("unit")>> @@ "unit" :> <<Vitest, Call("test")>>]

\* The plan: two values of every fact, and inputs that differ in at most two of them.
Reviewed == INSTANCE ReviewedPlan WITH MaxExpiry <- 3
First == [f \in Reviewed!Pinned \cup {"googleProjectId", "vercelTeamId", "vercelProjectId"} |->
             IF f = "expiresAt" THEN 2 ELSE <<f, 1>>]
         @@ [objective |-> [text |-> "repair", spelling |-> "crlf"]]
Other(f) == CASE f = "expiresAt" -> 3
              [] f = "objective" -> [text |-> "break", spelling |-> "lf"]
              [] OTHER -> <<f, 2>>
Changed(facts) == [f \in DOMAIN First |-> IF f \in facts THEN Other(f) ELSE First[f]]
Inputs == {Changed({f, g}) : f, g \in DOMAIN First} \cup {First}

ASSUME BudgetsAgree == Reviewed!AssertReviewedBudgetCompatibility /\ Reviewed!RepairFits /\ Reviewed!NothingIsLeft
ASSUME PlansStand == \A input \in Inputs, now \in 0..4 : Reviewed!StandsWhileInForce(input, now)
ASSUME PlansArePinned == \A other \in Inputs, now \in 0..2 : Reviewed!ExchangesAreFound(First, other, now)

\* The operator's two forms: two posts, in any order with what else befalls the run.
Operator == INSTANCE LocalOperator WITH Post <- {"post1", "post2"}
ASSUME StagedOnce ==
    LET reached == Operator!Reached("stage", Operator!Unstaged)
    IN  /\ \A s \in reached : Operator!OneSubmission(s) /\ Operator!StagingPagesAreTrue(s)
        /\ Operator!UncertainMeansEither(reached)
ASSUME RetiredTruly ==
    LET reached == Operator!Reached("retire", Operator!Inert)
    IN  (\A s \in reached : Operator!RetirementPagesAreTrue(s)) /\ Operator!UncertainMeansEither(reached)
ASSUME PreviewsAreRight == \A run \in Operator!Run : Operator!PreviewIsRight(run)

\* Any ledger, a table or a guard missing, any queues; and up to three workers.
Ready == INSTANCE Readiness WITH
    WebRelease <- "new", ExpectedSchema <- "s2", Manifest <- <<"m1", "m2">>, Queues <- <<"qa", "qb">>
Reporter == [release : {"old", "new"}, schema : {"s1", "s2"},
           state : {"ready", "draining", "stopped"}, age : {0, 45, 46}]
Serving == [release |-> "new", schema |-> "s2", state |-> "ready", age |-> 0]
Database(ledger, tables, guards, queues, workers, answers) ==
    [answers |-> answers, ledger |-> ledger, tables |-> tables, guards |-> guards,
     queues |-> queues, workers |-> workers]
Databases ==
    {Database(l, Ready!Tables \ t, Ready!Guards \ g, q, {w}, a) :
        l \in UNION {[1..n -> {"m1", "m2"}] : n \in 0..3},
        t \in {{}} \cup {{x} : x \in Ready!Tables}, g \in {{}} \cup {{x} : x \in Ready!Guards},
        q \in {<<"qa">>, <<"qa", "qb">>, <<"qa", "qb", "qc">>},
        w \in {Serving, [Serving EXCEPT !.age = 46]}, a \in BOOLEAN}
    \cup {Database(<<"m1", "m2">>, Ready!Tables, Ready!Guards, <<"qa", "qb">>, ws, TRUE) :
            ws \in {{a, b, c} : a, b, c \in Reporter} \cup {{}}}
ASSUME ReadinessIsTrue ==
    \A db \in Databases : Ready!ReadyMeansServed(db) /\ Ready!ReasonsHold(db) /\ Ready!NeverBoth(db)
===========================================================================
