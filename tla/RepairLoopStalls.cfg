SPECIFICATION Spec
CONSTANTS
    h1 = h1  h2 = h2
    w1 = w1  w2 = w2  w3 = w3
    Handler = {h1, h2}
    Wake = {w1, w2, w3}
    MaxIterations = 2
    Ceiling = 2
    RetryLimit = 1
    Reviewed = FALSE
    MaxCrashes = 0
    MaxStalls = 1
    MaxErrors = 0
    MaxRestarts = 0
CHECK_DEADLOCK FALSE
SYMMETRY Interchangeable
INVARIANTS WakeAlive SelectionIsMeasured RoundsArePaid
PROPERTIES LoopSpec StaleIsInert
