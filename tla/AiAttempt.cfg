SPECIFICATION FairSpec
CONSTANTS
    h1 = h1  h2 = h2
    Kinds = {"investigation", "candidate"}
    Handler = {h1, h2}
    MaxAttempts = 2
    RetryLimit = 2
    MaxToolTurns = 2
    MaxToolCalls = 2
    MaxOperations = 2
    MaxBytes = 2
    ResultBytes = {1, 2}
    MaxFaults = 1
CHECK_DEADLOCK FALSE
INVARIANTS Consistent VerdictIsBacked StrandedOnlyByFault
PROPERTIES PaidSpec EndsOrSpent
