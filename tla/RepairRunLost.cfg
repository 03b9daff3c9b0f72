SPECIFICATION Spec
CONSTANTS
    h1 = h1  h2 = h2
    Handler = {h1, h2}
    MaxAttempts = 3
    RetryLimit = 4
    MaxLosses = 0
    MaxStalls = 2
    MaxRestarts = 0
CHECK_DEADLOCK FALSE
PROPERTY LostWorkerCreatesNothing
