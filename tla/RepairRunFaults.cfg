SPECIFICATION FairSpec
CONSTANTS
    h1 = h1  h2 = h2
    Handler = {h1, h2}
    MaxAttempts = 2
    RetryLimit = 3
    MaxLosses = 1
    MaxStalls = 1
    MaxRestarts = 1
CHECK_DEADLOCK FALSE
INVARIANTS Consistent VerdictIsEvidenced AbandonedIsClean
PROPERTIES LifecycleSpec EndsOrWaits
