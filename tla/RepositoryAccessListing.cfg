\* A selection committed after a listing began, with the time it was asked for.
CONSTANTS
    Workspace = {w1}
    Repo = {r1}
    None = None
    good = good
    cyclic = cyclic
    Commit = {good}
    FirstCommit = good
    Flow = {"list", "select"}
    Content <- MCContent
    MaxDepth = 2
    MaxScripts = 4
    MaxAttempts = 2
    MaxClock = 2
    MaxChanges = 0
    MaxFaults = 0
SPECIFICATION Spec
PROPERTY NewerAuthorityStands
CHECK_DEADLOCK FALSE
