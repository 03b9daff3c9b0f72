------------------------------ MODULE OneDraft ------------------------------
(***************************************************************************)
(* What publication promises to the owner of a repository: nothing is      *)
(* written before a human approved it; one draft pull request at most is   *)
(* ever asked for, after the branch it comes from; and the outcome, once   *)
(* reported, is not revised, whatever a delayed worker still does.         *)
(***************************************************************************)
VARIABLES approved, branch, draft, outcome

vars == <<approved, branch, draft, outcome>>

Init == ~approved /\ ~branch /\ ~draft /\ outcome = "open"

Approve == outcome = "open" /\ approved' = TRUE /\ UNCHANGED <<branch, draft, outcome>>

WriteBranch == approved /\ branch' = TRUE /\ UNCHANGED <<approved, draft, outcome>>

AskDraft == branch /\ ~draft /\ draft' = TRUE /\ UNCHANGED <<approved, branch, outcome>>

Report ==
    /\ outcome = "open" /\ approved
    /\ \/ outcome' = "published" /\ draft
       \/ outcome' \in {"failed", "review_required"}
    /\ UNCHANGED <<approved, branch, draft>>

Next == Approve \/ WriteBranch \/ AskDraft \/ Report

Spec == Init /\ [][Next]_vars
=============================================================================
