SPECIFICATION FairSpec
CONSTANTS
    h1 = h1  h2 = h2
    Handler = {h1, h2}
    MaxVerifications = 1
    MaxAttempts = 2
    RetryLimit = 1
    Allowance = 3
    MaxFaults = 1
CHECK_DEADLOCK FALSE
INVARIANTS Consistent VerdictIsEvidenced
PROPERTIES CodeRunsOnce LoopHoldsVerification EndsOrSpent
