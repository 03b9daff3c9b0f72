SPECIFICATION FairSpec
CONSTANTS
    h1 = h1  h2 = h2
    w1 = w1  w2 = w2  w3 = w3
    Handler = {h1}
    Wake = {w1, w2}
    MaxIterations = 2
    Ceiling = 2
    RetryLimit = 1
    Reviewed = TRUE
    MaxCrashes = 1
    MaxStalls = 0
    MaxErrors = 1
    MaxRestarts = 1
CHECK_DEADLOCK FALSE
PROPERTY EndsOrWaits
