SPECIFICATION Spec
CONSTANTS
    run1 = run1
    acct1 = acct1  acct2 = acct2
    gen1 = gen1  box1 = box1   shot1 = shot1
    k1 = k1  k2 = k2  k3 = k3
    Run = {run1}
    Account = {acct1, acct2}
    Operation = {gen1, shot1}
    Reservation = {k1, k2, k3}
    RunOf <- MixedRunOf
    CategoryOf <- MixedCategoryOf
    ExpiresAt <- MixedExpiresAt
    Budget <- MixedBudget
    MaxConcurrent <- MixedMaxConcurrent
    SandboxAttempts = 3
    LeaseTime = 1
    MaxTime = 2
    MaxRevoked = 1
    MaxFaults = 1
    MaxExhausted = 1
    MaxInFlight = 2
CONSTRAINT Bounds
SYMMETRY Permutation
CHECK_DEADLOCK FALSE
INVARIANTS ConcurrencyBound HintIsRight
PROPERTIES LedgerSpec StaleOwnerPowerless DeadGrantPowerless
