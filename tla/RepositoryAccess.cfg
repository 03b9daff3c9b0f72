\* Two workspaces, installing and selecting, beside a detection, while GitHub changes.
CONSTANTS
    Workspace = {w1, w2}
    Repo = {r1}
    None = None
    good = good
    cyclic = cyclic
    Commit = {good, cyclic}
    FirstCommit = good
    Flow = {"install", "list", "select"}
    Content <- MCContent
    MaxDepth = 2
    MaxScripts = 4
    MaxAttempts = 2
    MaxClock = 1
    MaxChanges = 1
    MaxFaults = 1
SPECIFICATION Spec
INVARIANTS ConnectedIsBound ReadyIsRunnable
SYMMETRY Permutation
CHECK_DEADLOCK FALSE
