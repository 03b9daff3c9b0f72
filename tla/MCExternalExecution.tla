------------------------- MODULE MCExternalExecution -------------------------
(* Instances of ExternalExecution, and of the hint about it, for TLC.       *)
EXTENDS ExecutionAvailability, TLC

CONSTANTS run1, acct1, acct2, gen1, box1, shot1, k1, k2, k3

CONSTANTS
    MaxRevoked,   \* bound on revocations
    MaxFaults,    \* bound on revocations and crashed permit holders together
    MaxExhausted, \* bound on exhausted runs
    MaxInFlight   \* bound on the requests of one permit that are not done

Bounds ==
    /\ Cardinality(revoked) <= MaxRevoked
    /\ Cardinality(revoked) + Cardinality({r \in Reservation : permit[r] = "lost"}) <= MaxFaults
    /\ Cardinality(exhausted) <= MaxExhausted
    /\ \A r \in Reservation :
          Cardinality({o \in DOMAIN attempt[r] : attempt[r][o].phase # "done"}) <= MaxInFlight

(* Generous ceilings: the budget never denies.                             *)
Ample == [d \in Dimension |-> 9]

Permutation == Permutations(Reservation)

-----------------------------------------------------------------------------
(* A model request and the one-shot bootstrap of one run.  The bootstrap     *)
(* names its grants, so it may use the second account while the first is    *)
(* live; the model request must wait until one account alone is left.  Each  *)
(* ceiling binds somewhere, the account's before the operations' together.  *)
MixedRunOf == (gen1 :> run1) @@ (shot1 :> run1)
MixedCategoryOf == (gen1 :> "gemini_investigation") @@ (shot1 :> "release_acceptance_one_shot")
MixedExpiresAt == (acct1 :> 1) @@ (acct2 :> 3) @@ (gen1 :> 3) @@ (shot1 :> 2)
MixedBudget == (acct1 :> Ample) @@ (acct2 :> [Ample EXCEPT !["logicalRequests"] = 2])
            @@ (gen1 :> [Ample EXCEPT !["providerAttempts"] = 1])
            @@ (shot1 :> [Ample EXCEPT !["logicalRequests"] = 2])
MixedMaxConcurrent == (acct1 :> 1) @@ (acct2 :> 2)

(* One Sandbox grant: the work and the recovery of one Sandbox.            *)
SandboxRunOf == box1 :> run1
SandboxCategoryOf == box1 :> "sandbox_baseline"
SandboxExpiresAt == (acct1 :> 3) @@ (box1 :> 2)
SandboxBudget == (acct1 :> Ample) @@ (box1 :> [Ample EXCEPT !["sandboxIdentities"] = 2])
SandboxMaxConcurrent == acct1 :> 1
=============================================================================
