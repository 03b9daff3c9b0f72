SPECIFICATION FairSpec
CONSTANTS
    h1 = h1  h2 = h2
    Handler = {h1, h2}
    MaxAttempts = 2
    RetryLimit = 1
    MaxFaults = 2
    MaxChanges = 1
CHECK_DEADLOCK FALSE
INVARIANTS Consistent OneWriter CompleteGateIsSpent
PROPERTIES DraftSpec EndsOrSpent
