------------------------ MODULE ExecutionAvailability ------------------------
(***************************************************************************)
(* The hint the workspace page shows before any provider-backed action     *)
(* (resolveExecutionAvailability): read from the same tables as the        *)
(* authority, without its lock, and never trusted by it.  Tokens and       *)
(* runtimes, which bind like the attempts, are not counted here either.    *)
(***************************************************************************)
EXTENDS ExternalExecution

\* The operation grants a workflow may use: the one-shots are governed apart.
Workflow == {g \in Operation : CategoryOf[g] # "release_acceptance_one_shot"}
Expired(g) == ExpiresAt[g] <= now

UsefulDimensions(category) == {"logicalRequests"} \cup
    CASE category \in GeminiCategory        -> {"providerAttempts"}
      [] category = "sandbox_baseline"      -> {"providerAttempts", "sandboxIdentities"}
      [] category = "sandbox_verification"  ->
            {"providerAttempts", "sandboxIdentities", "verificationAttempts"}
      [] category = "repair_loop_iteration" -> {"repairLoopIterations"}

HasUsefulCapacity(g, category) ==
    \A d \in UsefulDimensions(category) : Used(g, d) < Budget[g][d]

DuplicateScope(grants) ==
    \E g, h \in grants : g # h /\ h \in SameScope(g)

\* Mutant of Busy: as if one more operation could run beside the others.
BusyOffByOne(a) == LiveLeases > MaxConcurrent[a]
Busy(a) == LiveLeases >= MaxConcurrent[a]

\* ready: what the readiness check said, TRUE, FALSE or not asked.
Availability(ready) ==
    LET candidates == Workflow \ revoked
        accounts == Account \ revoked
        live == {g \in candidates : ~Expired(g)}
        useful == {g \in live : \A a \in accounts :
                      HasUsefulCapacity(g, CategoryOf[g]) /\ HasUsefulCapacity(a, CategoryOf[g])}
    IN  IF accounts = {} \/ candidates = {} THEN "no_authority"
        ELSE IF (\E a \in accounts : Expired(a)) \/ live = {} THEN "invalid_or_expired"
        ELSE IF Cardinality(accounts) # 1 \/ DuplicateScope(live) THEN "invalid_or_expired"
        ELSE IF useful = {} THEN "exhausted"
        ELSE IF \E a \in accounts : Busy(a) THEN "capacity_unavailable"
        ELSE IF ready = FALSE THEN "operational_unavailable"
        ELSE IF ready # TRUE THEN "unknown"
        ELSE "available"
-----------------------------------------------------------------------------
\* What the authority would say, the fence of the run aside.
WouldReserve(g) ==
    LET amounts == Amounts(CategoryOf[g], "work")
    IN  \E a \in Account : /\ Resolves(a, g)
                           /\ Fits(a, amounts) /\ Fits(g, amounts)
                           /\ SlotFree(a)

\* What is left of a grant is less than one operation takes.
Remnant(g, category) ==
    /\ HasUsefulCapacity(g, category)
    /\ ~Fits(g, Amounts(category, "work"))

\* The hint reads other rows than the authority, without its lock, and still: an
\* action that is offered would be granted, unless all that is left is a remnant;
\* and one that would be granted is hidden only by an expired account grant that
\* nobody revoked, or by two live grants of one scope, be it another scope's.
HintIsRight ==
    LET granted == {g \in Workflow : WouldReserve(g)}
        offered == Availability(TRUE) = "available"
    IN  /\ offered /\ granted = {} =>
              \E g \in Workflow : \E h \in {g} \cup Account : Remnant(h, CategoryOf[g])
        /\ granted # {} /\ ~offered =>
              \/ \E a \in Account \ revoked : Expired(a)
              \/ DuplicateScope({g \in Workflow \ revoked : ~Expired(g)})
=============================================================================
