--------------------------- MODULE MCPublication ---------------------------
(* Publication on a small instance: two workers, two attempts of a job.  What  *)
(* is frozen, verified and published is compared on small trees.               *)
EXTENDS Publication, TLC

CONSTANTS h1, h2

Names == {"a", "A", "b", "w", "x", "g"}
Candidate == INSTANCE FrozenCandidate WITH
    Fold <- [n \in Names |-> IF n = "A" THEN "a" ELSE n],
    Denied <- {"x"}, Protected <- {}, Workflows <- <<"w">>, Generated <- {"g"},
    MaxPathDepth <- 2, MaxChangedFiles <- 2, MaxFileBytes <- 2, MaxTotalResultBytes <- 3

\* Trees of up to two leaves, one of them the other's variant in case; a plain file,
\* one too large to change, a link and a submodule.
Path == {<<"a">>, <<"A">>, <<"b">>, <<"a", "b">>, <<"A", "b">>, <<"w", "b">>, <<"g">>}
Leaf == {Candidate!Plain(n) : n \in {1, 3}}
            \cup {[mode |-> m, content |-> 1] : m \in {"120000", "160000"}}
Tree == UNION {[paths -> Leaf] : paths \in
            {s \in SUBSET Path : Cardinality(s) <= 2 /\ \A p, q \in s : ~Candidate!PathsConflict(p, q)}}

\* Proposals of one or two changes; the base a change expects may be wrong.
Edit == [path : Path \cup {<<"x">>}, operation : {"add"}, base : {Candidate!Absent}, result : {1, 2}]
    \cup [path : Path, operation : {"modify"}, base : {1}, result : {1, 2}]
    \cup [path : Path, operation : {"delete"}, base : {1, 3}, result : {Candidate!Absent}]
Proposal == {p \in UNION {[1..n -> Edit] : n \in 1..2} : Candidate!NormalizeCandidateProposal(p)}

ASSUME WhatIsVerifiedIsPublished == \A tree \in Tree, proposal \in Proposal : Candidate!ReadingsAgree(tree, proposal)
ASSUME ObjectsNameTheirLeaves == Candidate!ObjectsDiffer(Tree)
\* Neither holds of nothing: some are frozen, and some of them refused by publication.
ASSUME SomeAreFrozen ==
    /\ \E tree \in Tree, p \in Proposal :
          Candidate!Freezes(tree, p) /\ Candidate!Preparable(Candidate!CalculateTree(tree), tree, p)
    /\ \E tree \in Tree, p \in Proposal :
          Candidate!Freezes(tree, p) /\ ~Candidate!Preparable(Candidate!CalculateTree(tree), tree, p)
----------------------------------------------------------------------------
\* The audit behind an acceptance: an operation of zero, one or two attempts, its lease
\* and its grant ending in either order; every log of up to seven steps.
Log(n, lease, grant) ==
    INSTANCE AcceptanceAudit WITH Attempts <- n, LeaseEnd <- lease, GrantEnd <- grant

ASSUME AuditTellsSettledExecutions ==
    \A n \in 0..2 : Log(n, 3, 2)!AuditIsExact(7) /\ Log(n, 2, 3)!AuditIsExact(7)
ASSUME OneClockOrNone == \A skew \in {-1, 1} : Log(2, 2, 3)!SkewLosesTheGenuine(skew, 6)

\* A run's four operations, each in any state; any of them bound by the acceptance.
Operation(id, category, shot) ==
    {[id |-> id, category |-> category, shot |-> shot, state |-> s, audited |-> a] :
        s \in {"active", "succeeded", "failed", "ambiguous"}, a \in BOOLEAN}
Row(kind) == [id |-> "acceptance", kind |-> kind, release |-> "release", state |-> "passed"]
LoopRow(bound) == Row("repair_loop_live") @@ [matched |-> TRUE, bound |-> bound]
ASSUME LoopsAreAcceptedWhole ==
    \A bound \in SUBSET (1..4),
       a \in Operation(1, "gemini_candidate_generation", FALSE),
       b \in Operation(2, "sandbox_verification", FALSE),
       c \in Operation(3, "release_acceptance_one_shot", TRUE),
       d \in Operation(4, "sandbox_baseline", FALSE) :
          /\ Log(2, 2, 3)!NothingIsLeftOut(LoopRow(bound), {a, b, c, d})
          /\ Log(2, 2, 3)!OneFailureIsForGood(LoopRow(bound), {a, b, c, d})

\* Two decisions about two candidates of one run, and the publication of each.
Chain(n) == [run |-> "r", candidate |-> <<"c1", "c2">>[n], verification |-> <<"v1", "v2">>[n]]
Decision == <<"d1", "d2">>
Facts == {[id |-> Decision[n], state |-> "approved", chain |-> Chain(n)] : n \in 1..2}
    \cup {[id |-> <<"p1", "p2">>[n], state |-> "published",
           chain |-> Chain(n) @@ [decision |-> Decision[n]]] : n \in 1..2}
HumanRow == {Row("human_review_live") @@ [fact |-> f, chain |-> c] : f \in {"d1", "d2"},
    c \in [run : {"null", "r"}, candidate : {"null", "c1", "c2"}, verification : {"null", "v1", "v2"}]}
DraftRow == {Row("draft_publication_live") @@ [fact |-> f, chain |-> c] : f \in {"p1", "p2"},
    c \in [run : {"null", "r"}, candidate : {"null", "c1", "c2"}, verification : {"null", "v1", "v2"},
           decision : {"null", "d1", "d2"}]}
ASSUME SubjectsAgree ==
    \A human \in HumanRow, draft \in DraftRow : Log(2, 2, 3)!OneSubject(human, draft, Facts)
============================================================================
