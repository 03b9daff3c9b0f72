\* Staging, retirement, one-shots and the general worker beside the flows that change the selection.
CONSTANTS
    Workspace = {w1}
    r1 = r1
    r2 = r2
    Repo = {r1, r2}
    None = None
    good = good
    cyclic = cyclic
    Commit = {good, cyclic}
    FirstCommit = good
    Flow = {"list", "select"}
    Content <- MCContent
    MaxDepth = 2
    MaxScripts = 4
    p1 = p1
    p2 = p2
    Plan = {p1, p2}
    PlanRepo <- MCPlanRepo
    PlanCommit <- MCPlanCommit
    Expiry <- MCExpiry
    Shot = {s1, s2}
    Worker = worker
    MaxTries = 2
    RetryLimit = 1
    MaxAttempts = 1
    MaxClock = 1
    MaxChanges = 0
    MaxFaults = 1
SPECIFICATION FairSpec
INVARIANTS Consistent AuthorityStands RetiredIsUntouched
PROPERTY Settles
CONSTRAINT Bounds
CHECK_DEADLOCK FALSE
