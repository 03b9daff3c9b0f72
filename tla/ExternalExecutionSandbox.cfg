SPECIFICATION Spec
CONSTANTS
    run1 = run1
    acct1 = acct1  acct2 = acct2
    gen1 = gen1  box1 = box1   shot1 = shot1
    k1 = k1  k2 = k2  k3 = k3
    Run = {run1}
    Account = {acct1}
    Operation = {box1}
    Reservation = {k1, k2}
    RunOf <- SandboxRunOf
    CategoryOf <- SandboxCategoryOf
    ExpiresAt <- SandboxExpiresAt
    Budget <- SandboxBudget
    MaxConcurrent <- SandboxMaxConcurrent
    SandboxAttempts = 2
    LeaseTime = 1
    MaxTime = 2
    MaxRevoked = 0
    MaxFaults = 1
    MaxExhausted = 0
    MaxInFlight = 1
CONSTRAINT Bounds
SYMMETRY Permutation
CHECK_DEADLOCK FALSE
INVARIANTS WireWithinBudget SucceededIsCertain
PROPERTIES AmbiguityFencesRun
