--------------------------- MODULE RepositoryAccess ---------------------------
(***************************************************************************)
(* GitHub access of a workspace: the installation is bound to the first    *)
(* workspace that proves it, a repository is selected from what the user's *)
(* token lists, and the selected repository's execution profile is         *)
(* detected.  Each flow is an attempt consumed by its callback, some calls *)
(* to GitHub on a revoked-at-once token, and one transaction at the end;   *)
(* GitHub and the workspace's work change in between.                      *)
(*                                                                         *)
(* An attempt that expires is one whose callback is never taken.  There is *)
(* one installation, so the rows it owns are the bound workspace's.  A     *)
(* stored repository is never private: every write of it checked that.     *)
(***************************************************************************)
EXTENDS Integers, ProfileDetector

CONSTANTS
    Workspace, Repo, Commit, None,
    Content,       \* what each commit holds: [Commit -> manifest]
    FirstCommit,   \* the head of every branch at first
    Flow,          \* the flows that are begun: "install", "list", "select"
    MaxAttempts, MaxClock, MaxChanges, MaxFaults     \* the bounds of the model

ASSUME NamesAssumption ==
    None \notin Workspace \cup Repo \cup Commit /\ FirstCommit \in Commit /\ Flow \subseteq {"install", "list", "select"}
ASSUME ContentAssumption == \A c \in Commit : IsManifest(Content[c])
ASSUME ClocksAssumption == MaxAttempts \in Nat /\ MaxClock \in Nat /\ MaxChanges \in Nat /\ MaxFaults \in Nat

VARIABLES
    hub,        \* GitHub: access and head of each repository, the installation, its members
    clock,      \* the application's clock, coarse enough for equal timestamps
    attempts,   \* githubInstallationAttempt and githubRepositoryAccessAttempt rows
    binding,    \* the workspace of the githubInstallation row
    told,       \* what each workspace was last told of its installation
    selected,   \* the selected repository row; `written` is when its last write committed
    profile,    \* the executionProfile row of each repository
    detection,  \* the request that detects a profile
    busy,       \* hasRepositorySwitchConflict, by the time the request began
    changes, faults

accessVars == <<hub, clock, attempts, binding, told, selected, profile, detection, changes, faults>>
vars == <<accessVars, busy>>

Idle == [at |-> "idle", repo |-> None, commit |-> None, began |-> 0]
Unselected == [repo |-> None, updated |-> 0, written |-> 0]
NoProfile == [status |-> "none", commit |-> None]

Attempts ==
    [ws : Workspace \cup {None}, op : {"install", "list", "select", "none"}, repo : Repo \cup {None},
     at : {"installation", "authorization", "consult", "apply", "done"},
     began : 0..MaxClock, now : 0..MaxClock, listed : SUBSET Repo]

TypeOK ==
    /\ hub \in [access : [Repo -> {"public", "private", "none"}], head : [Repo -> Commit],
                suspended : BOOLEAN, members : SUBSET Workspace]
    /\ clock \in 0..MaxClock /\ changes \in 0..MaxChanges /\ faults \in 0..MaxFaults
    /\ attempts \in Seq(Attempts)
    /\ binding \in Workspace \cup {None}
    /\ told \in [Workspace -> {"nothing", "connected", "conflict"}]
    /\ selected \in [repo : Repo \cup {None}, updated : 0..MaxClock, written : 0..MaxClock]
    /\ profile \in [Repo -> [status : {"none", "ready", "unsupported"}, commit : Commit \cup {None}]]
    /\ detection \in [at : {"idle", "read", "confirm", "save"}, repo : Repo \cup {None},
                      commit : Commit \cup {None}, began : 0..MaxClock]
    /\ busy \in [0..MaxClock -> BOOLEAN]

\* (mutant) Any runner found makes it ready, the walk finished or not.
DetectedRunner(commit) ==
    [status |-> IF ClassifyTestRunner(Content[commit].scripts).runners # {} THEN "ready" ELSE "unsupported",
     commit |-> commit]

Detected(commit) ==
    [status |-> IF DetectExecutionProfile(Content[commit]) = "ready" THEN "ready" ELSE "unsupported",
     commit |-> commit]

\* A fresh service, or one with a repository selected and its profile detected.
Start(w, r) ==
    /\ binding = w
    /\ told = [v \in Workspace |-> IF v = w THEN "connected" ELSE "nothing"]
    /\ selected = [Unselected EXCEPT !.repo = r]
    /\ profile = [q \in Repo |-> IF q = r THEN Detected(FirstCommit) ELSE NoProfile]

InitAccess ==
    /\ hub \in [access : [Repo -> {"public", "private"}], head : {[r \in Repo |-> FirstCommit]},
               suspended : {FALSE}, members : {Workspace}]
    /\ clock = 0 /\ attempts = <<>> /\ detection = Idle /\ changes = 0 /\ faults = 0
    /\ \/ Start(None, None)
       \/ \E w \in Workspace, r \in Repo : Start(w, r)

Init == InitAccess /\ busy = [t \in 0..MaxClock |-> FALSE]

Fault == faults < MaxFaults /\ faults' = faults + 1
SwitchConflict(now) == busy[now]
----------------------------------------------------------------------------
\* The world: time, GitHub, and the work that makes a switch a conflict.

Tick ==
    /\ clock < MaxClock /\ clock' = clock + 1
    /\ UNCHANGED <<hub, attempts, binding, told, selected, profile, detection, changes, faults>>

GitHubChanges ==
    /\ changes < MaxChanges /\ changes' = changes + 1
    /\ \/ \E r \in Repo, a \in {"private", "none"} : hub' = [hub EXCEPT !.access[r] = a]
       \/ \E r \in Repo, c \in Commit : hub' = [hub EXCEPT !.head[r] = c]
       \/ hub' = [hub EXCEPT !.suspended = TRUE]
       \/ \E w \in Workspace : hub' = [hub EXCEPT !.members = @ \ {w}]
    /\ hub' # hub
    /\ UNCHANGED <<clock, attempts, binding, told, selected, profile, detection, faults>>

\* Work expires, so a later time never finds more of it; it may meet a fault of its own.
WorkChanges ==
    /\ busy' \in {b \in [0..MaxClock -> BOOLEAN] : \A t \in 1..MaxClock : b[t] => b[t - 1]}
    /\ UNCHANGED faults \/ Fault
    /\ UNCHANGED <<hub, clock, attempts, binding, told, selected, profile, detection, changes>>
----------------------------------------------------------------------------
\* The attempts.

\* Only a listing's creation time is looked at.
Attempt(w, op, r, at) ==
    [ws |-> w, op |-> op, repo |-> r, at |-> at, began |-> IF op = "list" THEN clock ELSE 0, now |-> 0, listed |-> {}]
Done == [ws |-> None, op |-> "none", repo |-> None, at |-> "done", began |-> 0, now |-> 0, listed |-> {}]
OnlyAttempts == UNCHANGED <<hub, clock, binding, told, selected, profile, detection, changes>>
Apply(i, op) ==
    /\ attempts[i].at = "apply" /\ attempts[i].op = op
    /\ attempts' = [attempts EXCEPT ![i] = Done]

BeginInstallation(w) ==
    /\ "install" \in Flow /\ Len(attempts) < MaxAttempts
    /\ attempts' = Append(attempts, Attempt(w, "install", None, "installation"))
    /\ OnlyAttempts /\ UNCHANGED faults

\* GitHub's setup page returned: the state is replaced for the authorization.
ContinueInstallation(i) ==
    /\ attempts[i].at = "installation"
    /\ attempts' = [attempts EXCEPT ![i].at = "authorization"]
    /\ OnlyAttempts /\ UNCHANGED faults

BeginAuthorization(w, op, r) ==
    /\ Len(attempts) < MaxAttempts /\ binding = w
    /\ (r = None) = (op = "list")
    /\ attempts' = Append(attempts, Attempt(w, op, r, "authorization"))
    /\ OnlyAttempts /\ UNCHANGED faults

\* The callback consumes the attempt; its time is the time of all it writes.
Callback(i) ==
    /\ attempts[i].at = "authorization"
    /\ attempts' = [attempts EXCEPT ![i].at = "consult", ![i].now = clock]
    /\ OnlyAttempts /\ UNCHANGED faults

Public == {r \in Repo : hub.access[r] = "public"}
Accepted(a) ==
    /\ a.ws \in hub.members /\ ~hub.suspended
    /\ a.op = "select" => hub.access[a.repo] # "none"

\* One token: the code is exchanged, the user identified, the installation
\* verified or the repositories listed, the token revoked, the verifier forgotten.
Consult(i) ==
    LET a == attempts[i]
    IN  /\ a.at = "consult"
        /\ attempts' = [attempts EXCEPT ![i] =
               IF Accepted(a) THEN [a EXCEPT !.at = "apply", !.listed = IF a.op = "list" THEN Public ELSE {a.repo} \cap Public]
               ELSE Done]
        /\ OnlyAttempts /\ UNCHANGED faults

\* One of the calls fails, the revocation included, or the process dies.
Fails(i) ==
    /\ attempts[i].at \in {"consult", "apply"} /\ Fault
    /\ attempts' = [attempts EXCEPT ![i] = Done] /\ OnlyAttempts

Bound(w) == IF binding = None THEN w ELSE binding
\* (mutant) Whoever verified the installation is told it is connected.
AnswerVerified(w) == "connected"

Answer(w) == IF Bound(w) = w THEN "connected" ELSE "conflict"

\* completeGitHubInstallation: the first insert wins, the others are told so.
Bind(i) ==
    LET w == attempts[i].ws
    IN  /\ Apply(i, "install")
        /\ binding' = Bound(w) /\ told' = [told EXCEPT ![w] = Answer(w)]
        /\ UNCHANGED <<hub, clock, selected, profile, detection, changes, faults>>
----------------------------------------------------------------------------
\* The selection.

OnlySelection == UNCHANGED <<hub, clock, binding, told, profile, detection, changes, faults>>
Write(r, now) == selected' = [repo |-> r, updated |-> now, written |-> clock]

\* A listing begun before the row was last updated says nothing about it.
Outdated(a) == selected.updated >= a.began

\* (mutant) A repository that is no longer listed goes at once.
DeselectsAnyway(a) == selected.repo \notin a.listed

Deselects(a) == selected.repo \notin a.listed /\ ~SwitchConflict(a.now)

\* reconcileSelectedRepository: refused by a conflict, it changes nothing.
Reconcile(i) ==
    LET a == attempts[i]
    IN  /\ Apply(i, "list")
        /\ IF selected.repo = None \/ Outdated(a) THEN UNCHANGED selected
           ELSE IF selected.repo \in a.listed THEN Write(selected.repo, a.now)
           ELSE IF Deselects(a) THEN selected' = Unselected
           ELSE UNCHANGED selected
        /\ OnlySelection

Selectable(a) == a.repo \in a.listed /\ (selected.repo = a.repo \/ ~SwitchConflict(a.now))

\* persistSelectedRepository: the same repository only gets new metadata.
Select(i) ==
    LET a == attempts[i]
    IN  /\ Apply(i, "select")
        /\ IF Selectable(a) THEN Write(a.repo, a.now) ELSE UNCHANGED selected
        /\ OnlySelection
----------------------------------------------------------------------------
\* The detection of the selected repository's profile.

OnlyDetection == UNCHANGED <<hub, clock, attempts, binding, told, changes>>
Readable(r) == ~hub.suspended /\ hub.access[r] = "public"

DetectBegin ==
    /\ detection.at = "idle" /\ selected.repo # None
    /\ detection' = [Idle EXCEPT !.at = "read", !.repo = selected.repo, !.began = clock]
    /\ OnlyDetection /\ UNCHANGED <<selected, profile, faults>>

DetectRead ==
    /\ detection.at = "read"
    /\ detection' = IF Readable(detection.repo)
                    THEN [detection EXCEPT !.at = "confirm", !.commit = hub.head[detection.repo]]
                    ELSE Idle
    /\ OnlyDetection /\ UNCHANGED <<selected, profile, faults>>

Confirmed == Readable(detection.repo) /\ hub.head[detection.repo] = detection.commit

\* The files were read at the commit; the branch and the metadata must not have moved.
DetectConfirm ==
    /\ detection.at = "confirm"
    /\ detection' = IF Confirmed THEN [detection EXCEPT !.at = "save"] ELSE Idle
    /\ OnlyDetection /\ UNCHANGED <<selected, profile, faults>>

\* GitHub fails, the token cannot be revoked, or the process dies.
DetectFails ==
    /\ detection.at # "idle" /\ Fault
    /\ detection' = Idle
    /\ OnlyDetection /\ UNCHANGED <<selected, profile>>

Savable ==
    LET old == profile[detection.repo]
    IN  /\ selected.repo = detection.repo
        /\ old.status # "none" /\ old # Detected(detection.commit) => ~SwitchConflict(detection.began)

\* persistProfile: the row's time becomes the time the request began.
DetectSave ==
    /\ detection.at = "save" /\ detection' = Idle
    /\ IF Savable
       THEN /\ profile' = [profile EXCEPT ![detection.repo] = Detected(detection.commit)]
            /\ Write(selected.repo, detection.began)
       ELSE UNCHANGED <<profile, selected>>
    /\ OnlyDetection /\ UNCHANGED faults
----------------------------------------------------------------------------
Step ==
    \/ Tick \/ GitHubChanges
    \/ \E w \in Workspace :
        \/ BeginInstallation(w)
        \/ \E op \in Flow \ {"install"}, r \in Repo \cup {None} : BeginAuthorization(w, op, r)
    \/ \E i \in DOMAIN attempts :
        \/ ContinueInstallation(i) \/ Callback(i) \/ Consult(i) \/ Fails(i)
        \/ Bind(i) \/ Reconcile(i) \/ Select(i)
    \/ DetectBegin \/ DetectRead \/ DetectConfirm \/ DetectFails \/ DetectSave

Next == (Step /\ UNCHANGED busy) \/ WorkChanges

Spec == Init /\ [][Next]_vars
----------------------------------------------------------------------------
\* A workspace that was told it is connected keeps the installation, however
\* many workspaces prove the same one at the same time.
ConnectedIsBound == \A w \in Workspace : told[w] = "connected" => binding = w

\* A profile stored as ready is of a commit whose "npm test" terminates and
\* runs one known runner; the reference has no walk, order or bound.
ReadyIsRunnable ==
    \A r \in Repo : profile[r].status = "ready" => Runnable(Content[profile[r].commit])

\* The comment at github-repositories/flow.ts:257: "A listing initiated before
\* the latest selection/metadata update cannot revoke or overwrite that newer authority."
NewerAuthorityStands ==
    [][\A i \in DOMAIN attempts :
           Reconcile(i) /\ attempts[i].began < selected.written => UNCHANGED selected]_vars
=============================================================================
