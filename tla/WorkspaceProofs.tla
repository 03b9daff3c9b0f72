---------------------------- MODULE WorkspaceProofs ----------------------------
(***************************************************************************)
(* What a reviewed plan and the repository access beside it guarantee, for *)
(* every number of workspaces, repositories, plans, one-shots, attempts,   *)
(* faults and moments, and whatever GitHub does in between.                *)
(***************************************************************************)
EXTENDS ReviewedStaging, TLAPS

-----------------------------------------------------------------------------
(* The inductive invariant                                                 *)

(* What a flow knows of the time is not after the present: a conflict that  *)
(* is found now was found when the flow's request began.                    *)
TimesOK ==
    /\ \A i \in DOMAIN attempts : attempts[i].now <= clock
    /\ detection.began <= clock /\ (detection.at # "idle" => detection.repo \in Repo)

(* The columns of a plan agree with the state of its run.                   *)
RowOK(r) ==
    /\ r.run = "none" => r.job = "none"
    /\ r.run = "cancelled" => r.job = "cancelled"
    /\ r.run \in {"none", "cancelled", "created"} => r.attempt = "none" /\ r.slot = "none"
    /\ r.run = "created" => r.job \in {"created", "active"}
    /\ r.run = "running" => r.job = "active" /\ r.attempt = "active" /\ r.slot \in {"none", "held"}
    /\ r.run \in {"ready", "baseline_failed", "failed"} =>
          /\ r.job \in {"active", "completed", "failed"} /\ r.attempt = "ended"
          /\ r.slot \in {"none", "closed", "ambiguous"}

ContextRowOK(c) ==
    /\ c.state = "none" => c.job = "none"
    /\ c.state = "created" => c.tries < MaxTries
    /\ c.state \in {"created", "preparing"} => c.job # "completed"

(* Past the claim of a baseline's job, and not settled yet.                 *)
Carrying == {"take", "authority", "reserve", "sandbox", "settle"}
Carries(x, p) == proc[x].kind = "baseline" /\ proc[x].plan = p /\ proc[x].at \in Carrying

(* What a process, of record w, may rely on.                                *)
ProcessOK(w) ==
    /\ w.at \notin {"unused", "up", "off"} => w.kind # "none" /\ w.plan \in Plan
    /\ w.kind = "baseline" =>
        /\ w.at \in Carrying \cup {"claim", "up", "off"}
        /\ w.at \in Carrying => plan[w.plan].job = "active"
        /\ w.at = "take" => plan[w.plan].run = "created"
        /\ w.at \in {"authority", "reserve", "sandbox"} => plan[w.plan].run = "running"
        /\ w.at = "settle" => plan[w.plan].run \in {"ready", "baseline_failed", "failed"}
    /\ w.kind = "context" =>
        /\ w.at \notin {"unused", "up", "off", "claim"} => context[w.plan].state # "none"
        /\ w.at = "settle" /\ w.done => context[w.plan].state \in {"ready", "failed"}

(* A job is claimed once: two processes never carry the same baseline.      *)
OneCarrier == \A x, y \in Proc, p \in Plan : Carries(x, p) /\ Carries(y, p) => x = y

(* Without a fault a claimed baseline is still carried, and none ambiguous. *)
CarriedUnlessFault ==
    \A p \in Plan :
        \/ faults > 0
        \/ /\ plan[p].slot # "ambiguous"
           /\ plan[p].run \in {"created", "running"} /\ plan[p].job = "active" => \E x \in Proc : Carries(x, p)

(* What the plans, the contexts and the processes owe each other.           *)
StagingOK ==
    /\ plan \in [Plan -> PlanRows] /\ context \in [Plan -> ContextRows]
    /\ proc \in [Proc -> Processes] /\ fresh \subseteq Proc
    /\ \A p \in Plan : RowOK(plan[p]) /\ ContextRowOK(context[p])
    /\ \A x \in Proc : ProcessOK(proc[x])
    /\ OneCarrier /\ CarriedUnlessFault /\ RetiredIsUntouched

IInv == Access!TypeOK /\ TimesOK /\ AuthorityStands /\ StagingOK

-----------------------------------------------------------------------------
(* Operators.                                                              *)

(* What is unfinished of a plan, by its rows alone.                         *)
Holds(p) == HeldUp(p) \/ Granted(p, clock)

LEMMA BusyTyped == ([t \in 0..MaxClock |-> LiveWork(t)] \in [0..MaxClock -> BOOLEAN])'
BY DEF LiveWork

(* A conflict found now is found at any earlier time.                       *)
LEMMA ConflictSeen ==
    ASSUME Access!TypeOK, NEW p \in Plan, Holds(p), NEW t \in 0..MaxClock, t <= clock
    PROVE  Access!SwitchConflict(t)
<1>1. HeldUp(p) \/ Granted(p, t)
    BY PlansAssumption, AccessAssumption DEF Holds, Granted, Access!TypeOK
<1>2. LiveWork(t) BY <1>1 DEF LiveWork
<1>. QED BY <1>2 DEF Access!SwitchConflict

(* One row of the attempts changes, or one is added.                        *)
LEMMA SetAttempt ==
    ASSUME Access!TypeOK, TimesOK, NEW i \in DOMAIN attempts, NEW row \in Access!Attempts, row.now <= clock,
           attempts' = [attempts EXCEPT ![i] = row], clock' = clock
    PROVE  attempts' \in Seq(Access!Attempts) /\ (\A j \in DOMAIN attempts : attempts[j].now <= clock)'
<1>1. attempts \in Seq(Access!Attempts) BY DEF Access!TypeOK
<1>2. attempts' \in Seq(Access!Attempts) /\ DOMAIN attempts' = DOMAIN attempts BY <1>1
<1>3. ASSUME NEW j \in DOMAIN attempts PROVE attempts'[j].now <= clock
    BY <1>1, <1>3 DEF TimesOK
<1>. QED BY <1>2, <1>3

LEMMA AddAttempt ==
    ASSUME Access!TypeOK, TimesOK, NEW row \in Access!Attempts, row.now <= clock,
           attempts' = Append(attempts, row), clock' = clock
    PROVE  attempts' \in Seq(Access!Attempts) /\ (\A j \in DOMAIN attempts : attempts[j].now <= clock)'
<1>1. attempts \in Seq(Access!Attempts) BY DEF Access!TypeOK
<1>2. /\ attempts' \in Seq(Access!Attempts)
      /\ \A j \in DOMAIN attempts' : attempts'[j] = row \/ (j \in DOMAIN attempts /\ attempts'[j] = attempts[j])
    BY <1>1
<1>. QED BY <1>2 DEF TimesOK

-----------------------------------------------------------------------------
(* The flows that consult GitHub.                                          *)

LEMMA WorldTyped ==
    ASSUME Access!TypeOK, TimesOK, Access!Tick \/ Access!GitHubChanges
    PROVE  Access!TypeOK' /\ TimesOK'
<1>1. CASE Access!Tick
  <2>1. clock \in 0..MaxClock /\ clock' \in 0..MaxClock /\ clock' = clock + 1
        /\ UNCHANGED <<hub, attempts, binding, told, selected, profile, detection, changes, faults>>
      BY <1>1, AccessAssumption DEF Access!TypeOK, Access!Tick
  <2>2. \A i \in DOMAIN attempts : attempts[i].now \in Int /\ attempts[i].now <= clock
    <3>1. ASSUME NEW i \in DOMAIN attempts PROVE attempts[i] \in Access!Attempts
        BY <3>1 DEF Access!TypeOK
    <3>2. \A row \in Access!Attempts : row.now \in Int BY AccessAssumption DEF Access!Attempts
    <3>. QED BY <3>1, <3>2 DEF TimesOK
  <2>3. detection.began \in Int /\ detection.began <= clock /\ (detection.at # "idle" => detection.repo \in Repo)
      BY AccessAssumption DEF TimesOK, Access!TypeOK
  <2>4. TimesOK'
      BY <2>1, <2>2, <2>3, AccessAssumption DEF TimesOK
  <2>. QED BY <2>1, <2>4, BusyTyped DEF Access!TypeOK
<1>2. CASE Access!GitHubChanges
  <2>1. hub' \in [access : [Repo -> {"public", "private", "none"}], head : [Repo -> Commit],
                  suspended : BOOLEAN, members : SUBSET Workspace]
    <3>1. hub \in [access : [Repo -> {"public", "private", "none"}], head : [Repo -> Commit],
                   suspended : BOOLEAN, members : SUBSET Workspace]
        BY DEF Access!TypeOK
    <3>2. CASE \E r \in Repo, a \in {"private", "none"} : hub' = [hub EXCEPT !.access[r] = a]
        BY <3>1, <3>2
    <3>3. CASE \E r \in Repo, c \in Commit : hub' = [hub EXCEPT !.head[r] = c]
        BY <3>1, <3>3
    <3>4. CASE hub' = [hub EXCEPT !.suspended = TRUE]
        BY <3>1, <3>4
    <3>5. CASE \E w \in Workspace : hub' = [hub EXCEPT !.members = @ \ {w}]
        BY <3>1, <3>5
    <3>. QED BY <1>2, <3>2, <3>3, <3>4, <3>5 DEF Access!GitHubChanges
  <2>. QED BY <1>2, <2>1, BusyTyped, AccessAssumption DEF TimesOK, Access!TypeOK, Access!GitHubChanges
<1>. QED BY <1>1, <1>2

(* Steps that only touch the attempts.                                      *)
LEMMA AttemptsTyped ==
    ASSUME Access!TypeOK, TimesOK,
           \/ \E w \in Workspace :
                \/ Access!BeginInstallation(w)
                \/ \E op \in Flow \ {"install"}, r \in Repo \cup {None} : Access!BeginAuthorization(w, op, r)
           \/ \E i \in DOMAIN attempts :
                Access!ContinueInstallation(i) \/ Access!Callback(i) \/ Access!Consult(i) \/ Access!Fails(i)
    PROVE  /\ Access!TypeOK' /\ TimesOK'
           /\ UNCHANGED <<clock, selected, profile>>
<1>0. /\ UNCHANGED <<hub, clock, binding, told, selected, profile, detection, changes>>
      /\ UNCHANGED faults \/ Access!Fault
    BY DEF Access!BeginInstallation, Access!BeginAuthorization, Access!ContinueInstallation, Access!Callback,
       Access!Consult, Access!Fails, Access!OnlyAttempts
<1>1. /\ UNCHANGED <<hub, clock, binding, told, selected, profile, detection, changes>>
      /\ faults' \in 0..MaxFaults
    BY <1>0, AccessAssumption DEF Access!TypeOK, Access!Fault
<1>2. /\ attempts \in Seq(Access!Attempts) /\ clock \in 0..MaxClock
      /\ \A i \in DOMAIN attempts : attempts[i] \in Access!Attempts /\ attempts[i].now <= clock
    BY DEF TimesOK, Access!TypeOK
<1>3. /\ Access!Done \in Access!Attempts /\ Access!Done.now <= clock
    BY <1>2, AccessAssumption DEF Access!Done, Access!Attempts
<1>4. ASSUME NEW w \in Workspace, Access!BeginInstallation(w)
      PROVE  attempts' \in Seq(Access!Attempts) /\ (\A j \in DOMAIN attempts : attempts[j].now <= clock)'
  <2>1. Access!Attempt(w, "install", None, "installation") \in Access!Attempts
      BY <1>2, AccessAssumption DEF Access!Attempt, Access!Attempts
  <2>2. Access!Attempt(w, "install", None, "installation").now <= clock BY <1>2 DEF Access!Attempt
  <2>. QED BY <1>1, <1>4, <2>1, <2>2, AddAttempt DEF Access!BeginInstallation
<1>5. ASSUME NEW w \in Workspace, NEW op \in Flow \ {"install"}, NEW r \in Repo \cup {None},
             Access!BeginAuthorization(w, op, r)
      PROVE  attempts' \in Seq(Access!Attempts) /\ (\A j \in DOMAIN attempts : attempts[j].now <= clock)'
  <2>1. Access!Attempt(w, op, r, "authorization") \in Access!Attempts
      BY <1>2, AccessAssumption DEF Access!Attempt, Access!Attempts
  <2>2. Access!Attempt(w, op, r, "authorization").now <= clock BY <1>2 DEF Access!Attempt
  <2>. QED BY <1>1, <1>5, <2>1, <2>2, AddAttempt DEF Access!BeginAuthorization
<1>6. ASSUME NEW i \in DOMAIN attempts, Access!ContinueInstallation(i)
      PROVE  attempts' \in Seq(Access!Attempts) /\ (\A j \in DOMAIN attempts : attempts[j].now <= clock)'
  <2>1. /\ [attempts[i] EXCEPT !.at = "authorization"] \in Access!Attempts
        /\ [attempts[i] EXCEPT !.at = "authorization"].now <= clock
        /\ attempts' = [attempts EXCEPT ![i] = [attempts[i] EXCEPT !.at = "authorization"]]
      BY <1>2, <1>6 DEF Access!ContinueInstallation, Access!Attempts
  <2>. QED BY <1>1, <2>1, SetAttempt
<1>7. ASSUME NEW i \in DOMAIN attempts, Access!Callback(i)
      PROVE  attempts' \in Seq(Access!Attempts) /\ (\A j \in DOMAIN attempts : attempts[j].now <= clock)'
  <2>. DEFINE row == [attempts[i] EXCEPT !.at = "consult", !.now = clock]
  <2>1. attempts[i] \in Access!Attempts BY <1>2
  <2>2. row \in Access!Attempts BY <1>2, <2>1 DEF Access!Attempts
  <2>3. row.now <= clock BY <1>2, <2>1 DEF Access!Attempts
  <2>4. attempts' = [attempts EXCEPT ![i] = row] BY <1>2, <1>7 DEF Access!Callback
  <2>. QED BY <1>1, <2>2, <2>3, <2>4, SetAttempt
<1>8. ASSUME NEW i \in DOMAIN attempts, Access!Consult(i)
      PROVE  attempts' \in Seq(Access!Attempts) /\ (\A j \in DOMAIN attempts : attempts[j].now <= clock)'
  <2>. DEFINE a == attempts[i]
              row == [a EXCEPT !.at = "apply",
                               !.listed = IF a.op = "list" THEN Access!Public ELSE {a.repo} \cap Access!Public]
  <2>1. row \in Access!Attempts /\ row.now <= clock BY <1>2 DEF Access!Attempts, Access!Public
  <2>2. attempts' = [attempts EXCEPT ![i] = row] \/ attempts' = [attempts EXCEPT ![i] = Access!Done]
      BY <1>8 DEF Access!Consult
  <2>. QED BY <1>1, <1>3, <2>1, <2>2, SetAttempt
<1>9. ASSUME NEW i \in DOMAIN attempts, Access!Fails(i)
      PROVE  attempts' \in Seq(Access!Attempts) /\ (\A j \in DOMAIN attempts : attempts[j].now <= clock)'
    BY <1>1, <1>3, <1>9, SetAttempt DEF Access!Fails
<1>10. attempts' \in Seq(Access!Attempts) /\ (\A j \in DOMAIN attempts : attempts[j].now <= clock)'
    BY <1>4, <1>5, <1>6, <1>7, <1>8, <1>9
<1>. QED BY <1>1, <1>10, BusyTyped DEF TimesOK, Access!TypeOK

(* Every callback's last transaction finishes its attempt.                  *)
LEMMA ApplyTyped ==
    ASSUME Access!TypeOK, TimesOK, NEW i \in DOMAIN attempts, NEW op, Access!Apply(i, op), clock' = clock
    PROVE  /\ attempts' \in Seq(Access!Attempts) /\ (\A j \in DOMAIN attempts : attempts[j].now <= clock)'
           /\ attempts[i] \in Access!Attempts /\ attempts[i].now <= clock
<1>1. /\ attempts \in Seq(Access!Attempts) /\ clock \in 0..MaxClock
      /\ attempts[i] \in Access!Attempts /\ attempts[i].now <= clock
    BY DEF TimesOK, Access!TypeOK
<1>2. /\ Access!Done \in Access!Attempts /\ Access!Done.now <= clock
    BY <1>1, AccessAssumption DEF Access!Done, Access!Attempts
<1>. QED BY <1>1, <1>2, SetAttempt DEF Access!Apply

LEMMA BindTyped ==
    ASSUME Access!TypeOK, TimesOK, NEW i \in DOMAIN attempts, Access!Bind(i)
    PROVE  Access!TypeOK' /\ TimesOK' /\ UNCHANGED <<clock, selected, profile>>
<1>1. UNCHANGED <<hub, clock, selected, profile, detection, changes, faults>> BY DEF Access!Bind
<1>2. /\ attempts' \in Seq(Access!Attempts) /\ (\A j \in DOMAIN attempts : attempts[j].now <= clock)'
      /\ attempts[i] \in Access!Attempts
    BY <1>1, ApplyTyped DEF Access!Bind
<1>3. /\ binding' \in Workspace \cup {None}
      /\ told' \in [Workspace -> {"nothing", "connected", "conflict"}]
    BY <1>2 DEF Access!Bind, Access!Bound, Access!Answer, Access!Attempts, Access!TypeOK
<1>. QED BY <1>1, <1>2, <1>3, BusyTyped DEF TimesOK, Access!TypeOK

(* A conflict at the time of the callback keeps the selection.              *)
LEMMA SelectionApplied ==
    ASSUME Access!TypeOK, TimesOK, NEW i \in DOMAIN attempts, Access!Reconcile(i) \/ Access!Select(i)
    PROVE  /\ Access!TypeOK' /\ TimesOK' /\ UNCHANGED <<clock, profile>>
           /\ attempts[i].now \in 0..MaxClock /\ attempts[i].now <= clock
           /\ selected'.repo # selected.repo => ~Access!SwitchConflict(attempts[i].now)
<1>. DEFINE a == attempts[i]
<1>1. UNCHANGED <<hub, clock, binding, told, profile, detection, changes, faults>>
    BY DEF Access!Reconcile, Access!Select, Access!OnlySelection
<1>2. /\ attempts' \in Seq(Access!Attempts) /\ (\A j \in DOMAIN attempts : attempts[j].now <= clock)'
      /\ a \in Access!Attempts /\ a.now <= clock
    BY <1>1, ApplyTyped DEF Access!Reconcile, Access!Select
<1>3. /\ selected' \in [repo : Repo \cup {None}, updated : 0..MaxClock, written : 0..MaxClock]
      /\ selected'.repo # selected.repo => ~Access!SwitchConflict(a.now)
  <2>1. CASE Access!Reconcile(i)
      BY <1>2, <2>1, AccessAssumption DEF Access!TypeOK, Access!Attempts, Access!Reconcile, Access!Deselects, Access!Write,
         Access!Unselected
  <2>2. CASE Access!Select(i)
      BY <1>2, <2>2 DEF Access!TypeOK, Access!Attempts, Access!Select, Access!Selectable, Access!Write
  <2>. QED BY <2>1, <2>2
<1>. QED BY <1>1, <1>2, <1>3, BusyTyped DEF TimesOK, Access!TypeOK, Access!Attempts

LEMMA DetectionTyped ==
    ASSUME Access!TypeOK, TimesOK,
           Access!DetectBegin \/ Access!DetectRead \/ Access!DetectConfirm \/ Access!DetectFails
    PROVE  Access!TypeOK' /\ TimesOK' /\ UNCHANGED <<clock, selected, profile>>
<1>1. UNCHANGED <<hub, clock, attempts, binding, told, changes, selected, profile>>
    BY DEF Access!DetectBegin, Access!DetectRead, Access!DetectConfirm, Access!DetectFails, Access!OnlyDetection
<1>2. /\ detection' \in [at : {"idle", "read", "confirm", "save"}, repo : Repo \cup {None},
                         commit : Commit \cup {None}, began : 0..MaxClock]
      /\ detection'.began <= clock /\ (detection'.at # "idle" => detection'.repo \in Repo)
  <2>0. /\ clock \in 0..MaxClock /\ selected.repo \in Repo \cup {None}
        /\ detection \in [at : {"idle", "read", "confirm", "save"}, repo : Repo \cup {None},
                          commit : Commit \cup {None}, began : 0..MaxClock]
        /\ detection.began <= clock /\ (detection.at # "idle" => detection.repo \in Repo)
        /\ \A r \in Repo : hub.head[r] \in Commit
      BY DEF TimesOK, Access!TypeOK
  <2>1. /\ Access!Idle \in [at : {"idle", "read", "confirm", "save"}, repo : Repo \cup {None},
                           commit : Commit \cup {None}, began : 0..MaxClock]
        /\ Access!Idle.at = "idle" /\ Access!Idle.began <= clock
      BY <2>0, AccessAssumption DEF Access!Idle
  <2>2. CASE Access!DetectBegin
    <3>1. detection' = [at |-> "read", repo |-> selected.repo, commit |-> None, began |-> clock]
        BY <2>2 DEF Access!DetectBegin, Access!Idle
    <3>2. selected.repo \in Repo BY <2>0, <2>2 DEF Access!DetectBegin
    <3>. QED BY <2>0, <3>1, <3>2, AccessAssumption
  <2>3. CASE Access!DetectRead
      BY <2>0, <2>1, <2>3 DEF Access!DetectRead
  <2>4. CASE Access!DetectConfirm
      BY <2>0, <2>1, <2>4 DEF Access!DetectConfirm
  <2>5. CASE Access!DetectFails
      BY <2>0, <2>1, <2>5 DEF Access!DetectFails
  <2>. QED BY <2>2, <2>3, <2>4, <2>5
<1>3. faults' \in 0..MaxFaults
    BY AccessAssumption DEF Access!TypeOK, Access!DetectBegin, Access!DetectRead, Access!DetectConfirm, Access!DetectFails,
       Access!Fault
<1>. QED BY <1>1, <1>2, <1>3, BusyTyped DEF TimesOK, Access!TypeOK

(* A profile that is there is only replaced by another without a conflict.  *)
LEMMA DetectionSaved ==
    ASSUME Access!TypeOK, TimesOK, Access!DetectSave
    PROVE  /\ Access!TypeOK' /\ TimesOK' /\ clock' = clock /\ selected'.repo = selected.repo
           /\ detection.began \in 0..MaxClock /\ detection.began <= clock
           /\ \/ UNCHANGED profile
              \/ /\ \A r \in Repo : r # selected.repo => profile'[r] = profile[r]
                 /\ selected.repo \in Repo
                 /\ \/ profile[selected.repo].status = "none"
                    \/ ~Access!SwitchConflict(detection.began)
<1>1. UNCHANGED <<hub, clock, attempts, binding, told, changes, faults>>
    BY DEF Access!DetectSave, Access!OnlyDetection
<1>2. detection' = Access!Idle BY DEF Access!DetectSave
<1>3. /\ detection.at = "save" /\ detection.repo \in Repo /\ detection.commit \in Commit \cup {None}
      /\ detection.began \in 0..MaxClock /\ detection.began <= clock
    BY DEF Access!DetectSave, TimesOK, Access!TypeOK
<1>4. Access!Detected(detection.commit) \in [status : {"ready", "unsupported"}, commit : Commit \cup {None}]
    BY <1>3 DEF Access!Detected
<1>5. /\ selected' \in [repo : Repo \cup {None}, updated : 0..MaxClock, written : 0..MaxClock]
      /\ selected'.repo = selected.repo
    BY <1>3 DEF Access!DetectSave, Access!Write, Access!TypeOK
<1>6. profile' \in [Repo -> [status : {"none", "ready", "unsupported"}, commit : Commit \cup {None}]]
    BY <1>3, <1>4 DEF Access!DetectSave, Access!TypeOK
<1>7. \/ UNCHANGED profile
      \/ /\ \A r \in Repo : r # selected.repo => profile'[r] = profile[r]
         /\ selected.repo \in Repo
         /\ \/ profile[selected.repo].status = "none"
            \/ ~Access!SwitchConflict(detection.began)
    BY <1>3, <1>4 DEF Access!DetectSave, Access!Savable, Access!TypeOK
<1>8. Access!TypeOK' /\ TimesOK'
    BY <1>1, <1>2, <1>3, <1>5, <1>6, BusyTyped, AccessAssumption DEF TimesOK, Access!TypeOK, Access!Idle
<1>. QED BY <1>1, <1>3, <1>5, <1>7, <1>8

(* A fault is counted, and never forgotten.                                 *)
LEMMA AccessCounts ==
    ASSUME Access!Step PROVE UNCHANGED faults \/ Access!Fault
<1>. USE DEF Access!OnlyAttempts, Access!OnlySelection, Access!OnlyDetection
<1>1. CASE Access!Tick \/ Access!GitHubChanges BY <1>1 DEF Access!Tick, Access!GitHubChanges
<1>2. CASE \E w \in Workspace :
             \/ Access!BeginInstallation(w)
             \/ \E op \in Flow \ {"install"}, r \in Repo \cup {None} : Access!BeginAuthorization(w, op, r)
    BY <1>2 DEF Access!BeginInstallation, Access!BeginAuthorization
<1>3. CASE \E i \in DOMAIN attempts :
             \/ Access!ContinueInstallation(i) \/ Access!Callback(i) \/ Access!Consult(i) \/ Access!Fails(i)
             \/ Access!Bind(i) \/ Access!Reconcile(i) \/ Access!Select(i)
    BY <1>3 DEF Access!ContinueInstallation, Access!Callback, Access!Consult, Access!Fails, Access!Bind,
       Access!Reconcile, Access!Select
<1>4. CASE Access!DetectBegin \/ Access!DetectRead \/ Access!DetectConfirm \/ Access!DetectFails \/ Access!DetectSave
    BY <1>4 DEF Access!DetectBegin, Access!DetectRead, Access!DetectConfirm, Access!DetectFails, Access!DetectSave
<1>. QED BY <1>1, <1>2, <1>3, <1>4 DEF Access!Step

(* A plan's authority outlasts every step of the flows while the plan holds. *)
LEMMA AccessStep ==
    ASSUME Access!TypeOK, TimesOK, AuthorityStands, Access!Step
    PROVE  /\ Access!TypeOK' /\ TimesOK' /\ clock' \in {clock, clock + 1}
           /\ \A p \in Plan : Holds(p) => AuthorityOf(p)'
<1>1. ASSUME NEW p \in Plan, Holds(p)
      PROVE  AuthorityOf(p) /\ PlanRepo[p] \in Repo
             /\ \A t \in 0..MaxClock : t <= clock => Access!SwitchConflict(t)
    BY <1>1, ConflictSeen, PlansAssumption DEF AuthorityStands, Holds
<1>2. CASE Access!Tick \/ Access!GitHubChanges
  <2>1. clock' \in {clock, clock + 1} /\ UNCHANGED <<selected, profile>>
      BY <1>2 DEF Access!Tick, Access!GitHubChanges
  <2>. QED BY <1>1, <1>2, <2>1, WorldTyped DEF AuthorityOf
<1>3. CASE \/ \E w \in Workspace :
                \/ Access!BeginInstallation(w)
                \/ \E op \in Flow \ {"install"}, r \in Repo \cup {None} : Access!BeginAuthorization(w, op, r)
           \/ \E i \in DOMAIN attempts :
                Access!ContinueInstallation(i) \/ Access!Callback(i) \/ Access!Consult(i) \/ Access!Fails(i)
    BY <1>1, <1>3, AttemptsTyped DEF AuthorityOf
<1>4. CASE \E i \in DOMAIN attempts : Access!Bind(i)
    BY <1>1, <1>4, BindTyped DEF AuthorityOf
<1>5. CASE \E i \in DOMAIN attempts : Access!Reconcile(i) \/ Access!Select(i)
  <2>1. PICK i \in DOMAIN attempts : Access!Reconcile(i) \/ Access!Select(i) BY <1>5
  <2>. QED BY <1>1, <2>1, SelectionApplied DEF AuthorityOf
<1>6. CASE Access!DetectBegin \/ Access!DetectRead \/ Access!DetectConfirm \/ Access!DetectFails
    BY <1>1, <1>6, DetectionTyped DEF AuthorityOf
<1>7. CASE Access!DetectSave
  <2>1. /\ Access!TypeOK' /\ TimesOK' /\ clock' = clock /\ selected'.repo = selected.repo
        /\ detection.began \in 0..MaxClock /\ detection.began <= clock
        /\ \/ UNCHANGED profile
           \/ /\ \A r \in Repo : r # selected.repo => profile'[r] = profile[r]
              /\ \/ profile[selected.repo].status = "none"
                 \/ ~Access!SwitchConflict(detection.began)
      BY <1>7, DetectionSaved
  <2>. QED BY <1>1, <2>1 DEF AuthorityOf
<1>. QED BY <1>2, <1>3, <1>4, <1>5, <1>6, <1>7 DEF Access!Step

LEMMA AccessKeeps ==
    ASSUME IInv, Access!Step, UNCHANGED stagingVars PROVE IInv'
<1>. USE DEF stagingVars
<1>1. /\ Access!TypeOK' /\ TimesOK' /\ clock' \in {clock, clock + 1}
      /\ \A p \in Plan : Holds(p) => AuthorityOf(p)'
    BY AccessStep DEF IInv
<1>2. clock \in Int BY AccessAssumption DEF IInv, Access!TypeOK
<1>3. ASSUME NEW p \in Plan, HeldUp(p)' \/ Granted(p, clock)' PROVE Holds(p)
    BY <1>1, <1>2, <1>3, PlansAssumption DEF Holds, HeldUp, Granted, Staged, Preparing
<1>4. AuthorityStands' BY <1>1, <1>3 DEF AuthorityStands
<1>5. faults > 0 => faults' > 0
    BY AccessCounts, AccessAssumption DEF IInv, Access!Fault, Access!TypeOK
<1>6. StagingOK'
  <2>1. /\ \A p \in Plan : RowOK(plan[p])' /\ ContextRowOK(context[p])'
        /\ \A x \in Proc : ProcessOK(proc[x])'
      BY DEF IInv, StagingOK, RowOK, ContextRowOK, ProcessOK
  <2>2. OneCarrier' BY DEF IInv, StagingOK, OneCarrier, Carries
  <2>3. CarriedUnlessFault' BY <1>5 DEF IInv, StagingOK, CarriedUnlessFault, Carries
  <2>4. RetiredIsUntouched' BY DEF IInv, StagingOK, RetiredIsUntouched, Works, Alive, P
  <2>. QED BY <2>1, <2>2, <2>3, <2>4 DEF IInv, StagingOK
<1>. QED BY <1>1, <1>4, <1>6 DEF IInv

-----------------------------------------------------------------------------
(* Staging, the one-shots and the worker: what a step changes of the access *)
(* is at most the count of faults.                                          *)

LEMMA StagingFrame ==
    ASSUME IInv, Calm \/ Fault
    PROVE  /\ Access!TypeOK' /\ TimesOK' /\ UNCHANGED <<clock, selected, profile>>
           /\ faults > 0 => faults' > 0
<1>1. UNCHANGED <<hub, clock, attempts, binding, told, selected, profile, detection, changes>>
    BY DEF Calm, Fault, accessVars
<1>2. faults' \in 0..MaxFaults /\ (faults > 0 => faults' > 0)
    BY AccessAssumption DEF Calm, Fault, accessVars, Access!Fault, IInv, Access!TypeOK
<1>3. TimesOK' BY <1>1 DEF IInv, TimesOK
<1>. QED BY <1>1, <1>2, <1>3, BusyTyped DEF IInv, Access!TypeOK

(* What a context's row never loses.                                        *)
KeptRow(c, d) ==
    /\ ContextRowOK(d)
    /\ c.state # "none" => d.state # "none"
    /\ c.state \in {"ready", "failed"} => d.state \in {"ready", "failed"}

(* A step that leaves the plans alone, and no carrier behind but by a fault. *)
ContextMove ==
    /\ UNCHANGED plan /\ context' \in [Plan -> ContextRows] /\ proc' \in [Proc -> Processes] /\ fresh' \subseteq Proc
    /\ \A p \in Plan :
        /\ KeptRow(context[p], context'[p])
        /\ context'[p].state \in {"created", "preparing"} => Preparing(p) \/ AuthorityOf(p)
        /\ context'[p].state # "none" => context[p].state # "none" \/ plan[p].run # "cancelled"
    /\ \A x \in Proc : proc'[x] # proc[x] =>
        /\ ProcessOK(proc[x])'
        /\ proc[x].kind = "baseline" /\ proc[x].at \in Carrying => faults' > 0
        /\ proc'[x].kind = "baseline" => proc'[x].at \notin Carrying


LEMMA ContextMoveKeeps ==
    ASSUME IInv, ContextMove, Calm \/ Fault PROVE IInv'
<1>1. /\ Access!TypeOK' /\ TimesOK' /\ UNCHANGED <<clock, selected, profile>>
      /\ faults > 0 => faults' > 0
    BY StagingFrame
<1>2. AuthorityStands'
  <2>1. ASSUME NEW p \in Plan, HeldUp(p)' \/ Granted(p, clock)' PROVE AuthorityOf(p)
      BY <1>1, <2>1 DEF IInv, AuthorityStands, ContextMove, HeldUp, Granted, Staged, Preparing
  <2>. QED BY <1>1, <2>1 DEF AuthorityStands, AuthorityOf
<1>3. \A p \in Plan : RowOK(plan[p])' /\ ContextRowOK(context[p])'
    BY DEF IInv, StagingOK, ContextMove, KeptRow, RowOK, ContextRowOK
<1>4. \A x \in Proc : ProcessOK(proc[x])'
  <2>1. ASSUME NEW x \in Proc, proc'[x] = proc[x] PROVE ProcessOK(proc[x])'
    <3>1. ProcessOK(proc[x]) BY DEF IInv, StagingOK
    <3>. QED BY <2>1, <3>1 DEF ContextMove, KeptRow, ProcessOK
  <2>. QED BY <2>1 DEF ContextMove
<1>5. OneCarrier' BY DEF IInv, StagingOK, ContextMove, OneCarrier, Carries
<1>6. CarriedUnlessFault' BY <1>1 DEF IInv, StagingOK, ContextMove, CarriedUnlessFault, Carries
<1>7. RetiredIsUntouched'
  <2>1. \A p \in Plan : plan'[p].run = "cancelled" =>
            /\ plan'[p].job = "cancelled" /\ plan'[p].slot = "none" /\ plan'[p].attempt = "none"
            /\ context'[p].state = "none"
      BY DEF IInv, StagingOK, ContextMove, RetiredIsUntouched
  <2>2. ASSUME NEW p \in Plan, plan'[p].run = "cancelled", NEW x \in Proc, Works(x)' /\ P(x)' = p
        PROVE  proc'[x].at = "claim"
    <3>1. ProcessOK(proc[x])' /\ proc'[x].kind \in {"none", "baseline", "context"} BY <1>4 DEF ContextMove, Processes
    <3>. QED BY <2>1, <2>2, <3>1 DEF ProcessOK, Works, Alive, P, Carrying
  <2>. QED BY <2>1, <2>2 DEF RetiredIsUntouched
<1>. QED BY <1>1, <1>2, <1>3, <1>4, <1>5, <1>6, <1>7 DEF IInv, StagingOK, ContextMove

(* A step of a process that carries a baseline, or comes to.                *)
BaselineMove(s, p) ==
    /\ UNCHANGED context /\ plan' \in [Plan -> PlanRows] /\ proc' \in [Proc -> Processes] /\ fresh' \subseteq Proc
    /\ proc[s].plan = p /\ \A q \in Plan \ {p} : plan'[q] = plan[q]
    /\ \A x \in Proc \ {s} : proc'[x] = proc[x]
    /\ Carries(s, p) \/ plan[p].job = "created"
    /\ RowOK(plan'[p]) /\ plan'[p].run # "cancelled"
    /\ ProcessOK(proc[s])' /\ (proc'[s].kind = "baseline" => proc'[s].plan = p)
    /\ Carries(s, p)' \/ plan'[p].run \notin {"created", "running"}
    /\ plan'[p].slot = "ambiguous" => plan[p].slot = "ambiguous" \/ faults' > 0
    /\ HeldUp(p)' => HeldUp(p)
    /\ Granted(p, clock)' => Granted(p, clock)

LEMMA BaselineMoveKeeps ==
    ASSUME IInv, NEW s \in Proc, NEW p \in Plan, BaselineMove(s, p), Calm \/ Fault PROVE IInv'
<1>1. /\ Access!TypeOK' /\ TimesOK' /\ UNCHANGED <<clock, selected, profile>>
      /\ faults > 0 => faults' > 0
    BY StagingFrame
<1>2. AuthorityStands'
  <2>1. ASSUME NEW q \in Plan, HeldUp(q)' \/ Granted(q, clock)' PROVE AuthorityOf(q)
    <3>1. CASE q = p BY <2>1, <3>1 DEF IInv, AuthorityStands, BaselineMove
    <3>2. CASE q # p
        BY <1>1, <2>1, <3>2 DEF IInv, AuthorityStands, BaselineMove, HeldUp, Granted, Staged, Preparing
    <3>. QED BY <3>1, <3>2
  <2>. QED BY <1>1, <2>1 DEF AuthorityStands, AuthorityOf
<1>3. \A q \in Plan : RowOK(plan[q])' /\ ContextRowOK(context[q])'
    BY DEF IInv, StagingOK, BaselineMove, RowOK, ContextRowOK
<1>4. ASSUME NEW x \in Proc, x # s PROVE ~Carries(x, p)
    BY <1>4 DEF IInv, StagingOK, BaselineMove, OneCarrier, ProcessOK, Carries
<1>5. \A x \in Proc : ProcessOK(proc[x])'
  <2>1. ASSUME NEW x \in Proc, x # s PROVE ProcessOK(proc[x])'
    <3>1. ProcessOK(proc[x]) /\ proc'[x] = proc[x] BY <2>1 DEF IInv, StagingOK, BaselineMove
    <3>2. proc[x].kind = "baseline" /\ proc[x].at \in Carrying =>
              proc[x].plan \in Plan \ {p} /\ plan'[proc[x].plan] = plan[proc[x].plan]
        BY <1>4, <2>1, <3>1 DEF BaselineMove, Carries, ProcessOK, Carrying
    <3>. QED BY <3>1, <3>2 DEF BaselineMove, ProcessOK, Carrying
  <2>. QED BY <2>1 DEF BaselineMove
<1>6. OneCarrier'
  <2>1. ASSUME NEW x \in Proc, NEW q \in Plan, Carries(x, q)', x # s PROVE Carries(x, q) /\ q # p
      BY <1>4, <2>1 DEF BaselineMove, Carries
  <2>2. ASSUME NEW q \in Plan, Carries(s, q)' PROVE q = p
      BY <2>2 DEF BaselineMove, Carries
  <2>. QED BY <2>1, <2>2 DEF IInv, StagingOK, OneCarrier
<1>7. CarriedUnlessFault'
  <2>. SUFFICES ASSUME NEW q \in Plan, ~(faults' > 0)
                PROVE  /\ plan'[q].slot # "ambiguous"
                       /\ plan'[q].run \in {"created", "running"} /\ plan'[q].job = "active" =>
                              \E x \in Proc : Carries(x, q)'
      BY DEF CarriedUnlessFault
  <2>1. /\ plan[q].slot # "ambiguous"
        /\ plan[q].run \in {"created", "running"} /\ plan[q].job = "active" => \E x \in Proc : Carries(x, q)
      BY <1>1 DEF IInv, StagingOK, CarriedUnlessFault
  <2>2. CASE q = p BY <2>1, <2>2 DEF BaselineMove
  <2>3. CASE q # p
    <3>1. plan'[q] = plan[q] BY <2>3 DEF BaselineMove
    <3>2. ASSUME NEW x \in Proc, Carries(x, q) PROVE Carries(x, q)'
        BY <2>3, <3>2 DEF BaselineMove, Carries
    <3>. QED BY <2>1, <3>1, <3>2
  <2>. QED BY <2>2, <2>3
<1>8. RetiredIsUntouched'
  <2>1. \A q \in Plan : plan'[q].run = "cancelled" =>
            /\ plan'[q].job = "cancelled" /\ plan'[q].slot = "none" /\ plan'[q].attempt = "none"
            /\ context'[q].state = "none"
      BY DEF IInv, StagingOK, BaselineMove, RetiredIsUntouched
  <2>2. ASSUME NEW q \in Plan, plan'[q].run = "cancelled", NEW x \in Proc, Works(x)' /\ P(x)' = q
        PROVE  proc'[x].at = "claim"
    <3>1. ProcessOK(proc[x])' /\ proc'[x].kind \in {"none", "baseline", "context"} BY <1>5 DEF BaselineMove, Processes
    <3>. QED BY <2>1, <2>2, <3>1 DEF ProcessOK, Works, Alive, P, Carrying
  <2>. QED BY <2>1, <2>2 DEF RetiredIsUntouched
<1>. QED BY <1>1, <1>2, <1>3, <1>5, <1>6, <1>7, <1>8 DEF IInv, StagingOK, BaselineMove

(* The owner's steps: a plan that no process carries.                       *)
PlanMove(p) ==
    /\ UNCHANGED <<context, proc, fresh>> /\ plan' \in [Plan -> PlanRows]
    /\ \A q \in Plan \ {p} : plan'[q] = plan[q]
    /\ plan[p].job # "active" /\ plan'[p].job # "active"
    /\ RowOK(plan'[p]) /\ plan'[p].slot # "ambiguous"
    /\ plan'[p].run = "cancelled" => context[p].state = "none"
    /\ HeldUp(p)' \/ Granted(p, clock)' => AuthorityOf(p)

LEMMA PlanMoveKeeps ==
    ASSUME IInv, NEW p \in Plan, PlanMove(p), Calm PROVE IInv'
<1>1. /\ Access!TypeOK' /\ TimesOK' /\ UNCHANGED <<clock, selected, profile>>
      /\ faults > 0 => faults' > 0
    BY StagingFrame
<1>2. AuthorityStands'
  <2>1. ASSUME NEW q \in Plan, HeldUp(q)' \/ Granted(q, clock)' PROVE AuthorityOf(q)
    <3>1. CASE q = p BY <2>1, <3>1 DEF PlanMove
    <3>2. CASE q # p BY <1>1, <2>1, <3>2 DEF IInv, AuthorityStands, PlanMove, HeldUp, Granted, Staged, Preparing
    <3>. QED BY <3>1, <3>2
  <2>. QED BY <1>1, <2>1 DEF AuthorityStands, AuthorityOf
<1>3. \A q \in Plan : RowOK(plan[q])' /\ ContextRowOK(context[q])'
    BY DEF IInv, StagingOK, PlanMove, RowOK, ContextRowOK
<1>4. ASSUME NEW x \in Proc PROVE ~Carries(x, p)
    BY DEF IInv, StagingOK, PlanMove, ProcessOK, Carries
<1>5. \A x \in Proc : ProcessOK(proc[x])'
  <2>1. ASSUME NEW x \in Proc PROVE ProcessOK(proc[x])'
    <3>1. ProcessOK(proc[x]) /\ proc'[x] = proc[x] BY DEF IInv, StagingOK, PlanMove
    <3>2. proc[x].kind = "baseline" /\ proc[x].at \in Carrying =>
              proc[x].plan \in Plan \ {p} /\ plan'[proc[x].plan] = plan[proc[x].plan]
        BY <1>4, <3>1 DEF PlanMove, Carries, ProcessOK, Carrying
    <3>. QED BY <3>1, <3>2 DEF PlanMove, ProcessOK, Carrying
  <2>. QED BY <2>1
<1>6. OneCarrier' BY DEF IInv, StagingOK, PlanMove, OneCarrier, Carries
<1>7. CarriedUnlessFault' BY <1>1 DEF IInv, StagingOK, PlanMove, CarriedUnlessFault, Carries
<1>8. RetiredIsUntouched'
  <2>1. \A q \in Plan : plan'[q].run = "cancelled" =>
            /\ plan'[q].job = "cancelled" /\ plan'[q].slot = "none" /\ plan'[q].attempt = "none"
            /\ context'[q].state = "none"
      BY DEF IInv, StagingOK, PlanMove, RetiredIsUntouched, RowOK
  <2>2. ASSUME NEW q \in Plan, plan'[q].run = "cancelled", NEW x \in Proc, Works(x)' /\ P(x)' = q
        PROVE  proc'[x].at = "claim"
    <3>1. ProcessOK(proc[x])' /\ proc'[x].kind \in {"none", "baseline", "context"}
        BY <1>5 DEF IInv, StagingOK, PlanMove, Processes
    <3>. QED BY <2>1, <2>2, <3>1 DEF ProcessOK, Works, Alive, P, Carrying
  <2>. QED BY <2>1, <2>2 DEF RetiredIsUntouched
<1>. QED BY <1>1, <1>2, <1>3, <1>5, <1>6, <1>7, <1>8 DEF IInv, StagingOK, PlanMove

LEMMA StageKeeps == ASSUME IInv, NEW p \in Plan, Stage(p) PROVE IInv'
<1>1. Calm /\ UNCHANGED <<context, proc, fresh>> BY DEF Stage
<1>2. /\ plan \in [Plan -> PlanRows] /\ RowOK(plan[p]) BY DEF IInv, StagingOK
<1>3. AuthorityOf(p) /\ plan[p].run = "none" BY DEF Stage, Stageable, Staged
<1>4. /\ [NoPlan EXCEPT !.run = "created", !.job = "created"] \in PlanRows
      /\ plan' = [plan EXCEPT ![p] = [NoPlan EXCEPT !.run = "created", !.job = "created"]]
    BY DEF Stage, SetPlan, NoPlan, PlanRows
<1>5. /\ plan' \in [Plan -> PlanRows] /\ \A q \in Plan \ {p} : plan'[q] = plan[q]
      /\ plan'[p].run = "created" /\ plan'[p].job = "created" /\ plan'[p].attempt = "none" /\ plan'[p].slot = "none"
    BY <1>2, <1>4 DEF NoPlan
<1>6. PlanMove(p) BY <1>1, <1>2, <1>3, <1>5 DEF PlanMove, RowOK
<1>. QED BY <1>1, <1>6, PlanMoveKeeps

LEMMA RetireKeeps == ASSUME IInv, NEW p \in Plan, Retire(p) PROVE IInv'
<1>1. Calm /\ UNCHANGED <<context, proc, fresh>> BY DEF Retire
<1>2. plan \in [Plan -> PlanRows] /\ plan[p] \in PlanRows BY DEF IInv, StagingOK
<1>3. /\ plan[p].attempt = "none" /\ plan[p].slot = "none" /\ plan[p].job = "created" /\ context[p].state = "none"
    BY DEF Retire, Untouched
<1>4. plan' = [plan EXCEPT ![p] = [plan[p] EXCEPT !.run = "cancelled", !.job = "cancelled", !.revoked = TRUE]]
    BY DEF Retire, SetPlan
<1>5. /\ plan' \in [Plan -> PlanRows] /\ \A q \in Plan \ {p} : plan'[q] = plan[q]
      /\ plan'[p].run = "cancelled" /\ plan'[p].job = "cancelled" /\ plan'[p].revoked
      /\ plan'[p].attempt = "none" /\ plan'[p].slot = "none"
    BY <1>2, <1>3, <1>4 DEF PlanRows
<1>6. ~HeldUp(p)' /\ ~Granted(p, clock)'
    BY <1>1, <1>3, <1>5 DEF HeldUp, Granted, Preparing
<1>7. PlanMove(p) BY <1>1, <1>3, <1>5, <1>6 DEF PlanMove, RowOK
<1>. QED BY <1>1, <1>7, PlanMoveKeeps

(* Where a process is that carries a baseline whose run is in this state.   *)
InStep(at, run) ==
    \/ at = "take" /\ run = "created"
    \/ at \in {"authority", "reserve", "sandbox"} /\ run = "running"
    \/ at = "settle" /\ run \in {"ready", "baseline_failed", "failed"}

(* The process s goes on as w, and the plan it carries as r.                *)
LEMMA BaselineStep ==
    ASSUME IInv, Calm \/ Fault, UNCHANGED context, fresh' \subseteq Proc,
           NEW s \in Proc, NEW p \in Plan, proc[s].plan = p, Carries(s, p) \/ plan[p].job = "created",
           NEW r \in PlanRows, plan' = [plan EXCEPT ![p] = r], RowOK(r), r.revoked = plan[p].revoked,
           plan[p].run # "none", r.run # "cancelled",
           r.run \in {"created", "running"} \/ r.attempt = "active" => HeldUp(p),
           r.slot \in {"held", "ambiguous"} => HeldUp(p),
           r.slot = "ambiguous" => plan[p].slot = "ambiguous" \/ faults' > 0,
           NEW w \in Processes, proc' = [proc EXCEPT ![s] = w],
           \/ w.at \in {"up", "off"} /\ w.kind = "none" /\ r.run \notin {"created", "running"}
           \/ w.kind = "baseline" /\ w.plan = p /\ r.job = "active" /\ InStep(w.at, r.run)
    PROVE  IInv'
<1>1. /\ plan \in [Plan -> PlanRows] /\ proc \in [Proc -> Processes] BY DEF IInv, StagingOK
<1>2. /\ plan' \in [Plan -> PlanRows] /\ plan'[p] = r /\ \A q \in Plan \ {p} : plan'[q] = plan[q]
    BY <1>1
<1>3. /\ proc' \in [Proc -> Processes] /\ proc'[s] = w /\ \A x \in Proc \ {s} : proc'[x] = proc[x]
    BY <1>1
<1>4. ProcessOK(proc[s])' BY <1>2, <1>3 DEF ProcessOK, InStep, Carrying
<1>5. Carries(s, p)' \/ plan'[p].run \notin {"created", "running"}
    BY <1>2, <1>3 DEF Carries, InStep, Carrying
<1>6. clock' = clock BY StagingFrame
<1>7. HeldUp(p)' => HeldUp(p) BY <1>2 DEF HeldUp, Preparing
<1>8. Granted(p, clock)' => Granted(p, clock) BY <1>2, <1>6 DEF Granted, Staged
<1>9. BaselineMove(s, p) BY <1>2, <1>3, <1>4, <1>5, <1>7, <1>8 DEF BaselineMove
<1>. QED BY <1>9, BaselineMoveKeeps

(* A process that ends, or that claimed nothing, in a word.                 *)
LEMMA Ending ==
    ASSUME IInv, NEW x \in Proc, Ends(x)
    PROVE  \E w \in Processes : w.at \in {"up", "off"} /\ w.kind = "none" /\ proc' = [proc EXCEPT ![x] = w]
                                /\ fresh' \subseteq Proc
<1>1. Quiet(IF x = Worker THEN "up" ELSE "off") \in Processes BY DEF Quiet, Processes
<1>. QED BY <1>1 DEF Ends, Quiet, IInv, StagingOK

(* What a process that carries a baseline finds.                            *)
LEMMA CarrierSees ==
    ASSUME IInv, NEW s \in Proc, proc[s].kind = "baseline", proc[s].at \in Carrying
    PROVE  /\ proc[s].plan \in Plan /\ Carries(s, proc[s].plan)
           /\ plan[proc[s].plan] \in PlanRows /\ RowOK(plan[proc[s].plan])
           /\ plan[proc[s].plan].job = "active" /\ InStep(proc[s].at, plan[proc[s].plan].run)
           /\ proc[s] \in Processes
<1>1. ProcessOK(proc[s]) /\ proc[s] \in Processes BY DEF IInv, StagingOK
<1>2. proc[s].plan \in Plan BY <1>1 DEF ProcessOK, Carrying
<1>3. plan[proc[s].plan] \in PlanRows /\ RowOK(plan[proc[s].plan]) BY <1>2 DEF IInv, StagingOK
<1>. QED BY <1>1, <1>2, <1>3 DEF ProcessOK, InStep, Carries, Carrying

LEMMA TakeBaselineKeeps == ASSUME IInv, NEW s \in Proc, TakeBaseline(s) PROVE IInv'
<1>. DEFINE p == proc[s].plan
            r == [plan[p] EXCEPT !.run = "running", !.attempt = "active"]
            w == [proc[s] EXCEPT !.at = "authority"]
<1>1. proc[s].kind = "baseline" /\ proc[s].at = "take" /\ Calm /\ UNCHANGED <<context, fresh>>
    BY DEF TakeBaseline, At
<1>2. /\ p \in Plan /\ Carries(s, p) /\ plan[p] \in PlanRows /\ RowOK(plan[p]) /\ plan[p].job = "active"
      /\ plan[p].run = "created" /\ proc[s] \in Processes
    BY <1>1, CarrierSees DEF Carrying, InStep
<1>3. plan' = [plan EXCEPT ![p] = r] BY DEF TakeBaseline, SetPlan, P
<1>4. proc' = [proc EXCEPT ![s] = w] BY <1>2 DEF TakeBaseline, Goto, IInv, StagingOK
<1>5. r \in PlanRows /\ w \in Processes BY <1>2 DEF PlanRows, Processes
<1>6. RowOK(r) /\ HeldUp(p) BY <1>2 DEF RowOK, PlanRows, HeldUp
<1>7. w.kind = "baseline" /\ w.plan = p /\ r.job = "active" /\ InStep(w.at, r.run)
    BY <1>1, <1>2 DEF PlanRows, Processes, InStep
<1>8. r.run = "running" /\ r.attempt = "active" /\ r.slot = plan[p].slot /\ r.revoked = plan[p].revoked
    BY <1>2 DEF PlanRows
<1>9. fresh' \subseteq Proc BY <1>1 DEF IInv, StagingOK
<1>. QED BY <1>1, <1>2, <1>3, <1>4, <1>5, <1>6, <1>7, <1>8, <1>9, BaselineStep DEF RowOK

LEMMA EndRunKeeps ==
    ASSUME IInv, Calm \/ Fault, UNCHANGED <<context, fresh>>, NEW s \in Proc, proc[s].kind = "baseline",
           proc[s].at \in {"authority", "reserve", "sandbox"},
           NEW run \in {"ready", "baseline_failed", "failed"}, NEW source \in {"pending", "matched", "mismatched"},
           NEW slot \in {"none", "closed", "ambiguous"}, slot = "ambiguous" => faults' > 0,
           EndRun(s, run, source, slot)
    PROVE  IInv'
<1>. DEFINE p == proc[s].plan
            r == [plan[p] EXCEPT !.run = run, !.source = source, !.slot = slot, !.attempt = "ended"]
            w == [proc[s] EXCEPT !.at = "settle", !.done = TRUE]
<1>2. /\ p \in Plan /\ Carries(s, p) /\ plan[p] \in PlanRows /\ plan[p].job = "active"
      /\ plan[p].run = "running" /\ proc[s] \in Processes
    BY CarrierSees DEF Carrying, InStep
<1>3. plan' = [plan EXCEPT ![p] = r] BY DEF EndRun, SetPlan, P
<1>4. proc' = [proc EXCEPT ![s] = w] BY <1>2 DEF EndRun, Conclude, IInv, StagingOK
<1>5. r \in PlanRows /\ w \in Processes BY <1>2 DEF PlanRows, Processes
<1>6. HeldUp(p) BY <1>2 DEF HeldUp
<1>7. w.kind = "baseline" /\ w.plan = p /\ r.job = "active" /\ InStep(w.at, r.run)
    BY <1>2 DEF PlanRows, Processes, InStep
<1>8. r.run = run /\ r.attempt = "ended" /\ r.slot = slot /\ r.revoked = plan[p].revoked
    BY <1>2 DEF PlanRows
<1>9. RowOK(r) BY <1>7, <1>8 DEF RowOK
<1>10. fresh' \subseteq Proc BY DEF IInv, StagingOK
<1>. HIDE DEF r, w
<1>. QED BY <1>2, <1>3, <1>4, <1>5, <1>6, <1>7, <1>8, <1>9, <1>10, BaselineStep

LEMMA FailRunKeeps ==
    ASSUME IInv, Calm \/ Fault, UNCHANGED <<context, fresh>>, NEW s \in Proc, proc[s].kind = "baseline",
           proc[s].at \in {"authority", "reserve", "sandbox"},
           NEW slot \in {"none", "closed", "ambiguous"}, slot = "ambiguous" => faults' > 0, FailRun(s, slot)
    PROVE  IInv'
<1>1. plan[proc[s].plan].source \in {"pending", "matched", "mismatched"}
    BY CarrierSees DEF Carrying, PlanRows
<1>. QED BY <1>1, EndRunKeeps DEF FailRun, P

(* The checks before the Sandbox pass: only the reservation is written.     *)
LEMMA PassKeeps ==
    ASSUME IInv, Calm, UNCHANGED <<context, fresh>>, NEW s \in Proc, proc[s].kind = "baseline",
           proc[s].at \in {"authority", "reserve"}, NEW at \in {"reserve", "sandbox"}, Goto(s, at),
           \/ UNCHANGED plan
           \/ SetPlan(P(s), [plan[P(s)] EXCEPT !.slot = "held"])
    PROVE  IInv'
<1>. DEFINE p == proc[s].plan
            w == [proc[s] EXCEPT !.at = at]
<1>1. /\ p \in Plan /\ Carries(s, p) /\ plan[p] \in PlanRows /\ RowOK(plan[p]) /\ plan[p].job = "active"
      /\ plan[p].run = "running" /\ proc[s] \in Processes
    BY CarrierSees DEF Carrying, InStep
<1>2. plan \in [Plan -> PlanRows] BY DEF IInv, StagingOK
<1>3. PICK r \in PlanRows :
          /\ r.run = "running" /\ r.job = "active" /\ r.attempt = plan[p].attempt /\ r.revoked = plan[p].revoked
          /\ r.slot \in {plan[p].slot, "held"} /\ plan' = [plan EXCEPT ![p] = r]
  <2>1. CASE UNCHANGED plan
      BY <1>1, <1>2, <2>1 DEF PlanRows
  <2>2. CASE SetPlan(P(s), [plan[P(s)] EXCEPT !.slot = "held"])
    <3>1. [plan[p] EXCEPT !.slot = "held"] \in PlanRows BY <1>1 DEF PlanRows
    <3>. QED BY <1>1, <2>2, <3>1 DEF SetPlan, P, PlanRows
  <2>. QED BY <2>1, <2>2
<1>4. proc' = [proc EXCEPT ![s] = w] BY <1>1 DEF Goto, IInv, StagingOK
<1>5. w \in Processes /\ w.kind = "baseline" /\ w.plan = p /\ InStep(w.at, r.run)
    BY <1>1, <1>3 DEF Processes, InStep
<1>6. HeldUp(p) BY <1>1 DEF HeldUp
<1>7. RowOK(r) BY <1>1, <1>3 DEF RowOK
<1>8. fresh' \subseteq Proc BY DEF IInv, StagingOK
<1>9. /\ r.slot = "ambiguous" => plan[p].slot = "ambiguous" \/ faults' > 0
      /\ r.run # "cancelled" /\ plan[p].run # "none" /\ UNCHANGED context /\ proc[s].plan = p
    BY <1>1, <1>3
<1>. HIDE DEF p, w
<1>. QED BY <1>1, <1>3, <1>4, <1>5, <1>6, <1>7, <1>8, <1>9, BaselineStep

LEMMA CheckBaselineKeeps == ASSUME IInv, NEW s \in Proc, CheckBaseline(s) PROVE IInv'
<1>1. proc[s].kind = "baseline" /\ proc[s].at = "authority" /\ Calm /\ UNCHANGED <<context, fresh>>
    BY DEF CheckBaseline, At
<1>2. CASE Integrity(P(s)) BY <1>1, <1>2, PassKeeps DEF CheckBaseline
<1>3. CASE ~Integrity(P(s)) BY <1>1, <1>3, FailRunKeeps DEF CheckBaseline
<1>. QED BY <1>2, <1>3

LEMMA ReserveKeeps == ASSUME IInv, NEW s \in Proc, Reserve(s) PROVE IInv'
<1>1. proc[s].kind = "baseline" /\ proc[s].at = "reserve" /\ Calm /\ UNCHANGED <<context, fresh>>
    BY DEF Reserve, At
<1>2. CASE Granted(P(s), clock) BY <1>1, <1>2, PassKeeps DEF Reserve
<1>3. CASE ~Granted(P(s), clock) BY <1>1, <1>3, FailRunKeeps DEF Reserve
<1>. QED BY <1>2, <1>3

LEMMA SandboxKeeps == ASSUME IInv, NEW s \in Proc, Sandbox(s) PROVE IInv'
<1>1. proc[s].kind = "baseline" /\ proc[s].at = "sandbox" /\ UNCHANGED <<context, fresh>>
    BY DEF Sandbox, At
<1>2. CASE \E run \in {"ready", "baseline_failed"}, source \in {"matched", "mismatched"} :
               EndRun(s, run, source, "closed") /\ Calm
    BY <1>1, <1>2, EndRunKeeps
<1>3. CASE FailRun(s, "closed") /\ Calm BY <1>1, <1>3, FailRunKeeps
<1>4. CASE FailRun(s, "ambiguous") /\ Fault
  <2>1. faults' > 0 BY <1>4, AccessAssumption DEF Fault, Access!Fault, IInv, Access!TypeOK
  <2>. QED BY <1>1, <1>4, <2>1, FailRunKeeps
<1>. QED BY <1>2, <1>3, <1>4 DEF Sandbox

LEMMA SettleBaselineKeeps == ASSUME IInv, NEW s \in Proc, SettleBaseline(s) PROVE IInv'
<1>. DEFINE p == proc[s].plan
            r == [plan[p] EXCEPT !.job = IF proc[s].done /\ plan[p].run \in {"ready", "baseline_failed"}
                                         THEN "completed" ELSE "failed"]
<1>1. proc[s].kind = "baseline" /\ proc[s].at = "settle" /\ Calm /\ UNCHANGED context /\ Ends(s)
    BY DEF SettleBaseline, At
<1>2. /\ p \in Plan /\ Carries(s, p) /\ plan[p] \in PlanRows /\ RowOK(plan[p])
      /\ plan[p].run \in {"ready", "baseline_failed", "failed"}
    BY <1>1, CarrierSees DEF Carrying, InStep
<1>3. plan' = [plan EXCEPT ![p] = r] BY DEF SettleBaseline, SetPlan, P
<1>4. /\ r \in PlanRows /\ r.run = plan[p].run /\ r.attempt = plan[p].attempt /\ r.slot = plan[p].slot
      /\ r.revoked = plan[p].revoked /\ r.job \in {"completed", "failed"}
    BY <1>2 DEF PlanRows
<1>5. RowOK(r) BY <1>2, <1>4 DEF RowOK
<1>6. /\ r.run \in {"created", "running"} \/ r.attempt = "active" => HeldUp(p)
      /\ r.slot \in {"held", "ambiguous"} => HeldUp(p)
    BY <1>2, <1>4 DEF HeldUp
<1>7. PICK w \in Processes : /\ w.at \in {"up", "off"} /\ w.kind = "none" /\ proc' = [proc EXCEPT ![s] = w]
                             /\ fresh' \subseteq Proc
    BY <1>1, Ending
<1>. HIDE DEF r
<1>. QED BY <1>1, <1>2, <1>3, <1>4, <1>5, <1>6, <1>7, BaselineStep

-----------------------------------------------------------------------------
(* The contexts, and what ends or dies.                                     *)

(* A process that carries no baseline goes on as w; its context becomes d.  *)
LEMMA ContextStep ==
    ASSUME IInv, Calm \/ Fault, UNCHANGED plan, fresh' \subseteq Proc,
           NEW x \in Proc, NEW w \in Processes, proc' = [proc EXCEPT ![x] = w],
           ~(proc[x].kind = "baseline" /\ proc[x].at \in Carrying) \/ faults' > 0,
           NEW p \in Plan, NEW d \in ContextRows, context' = [context EXCEPT ![p] = d], KeptRow(context[p], d),
           d.state \in {"created", "preparing"} => Preparing(p) \/ AuthorityOf(p),
           d.state # "none" => context[p].state # "none" \/ plan[p].run # "cancelled",
           \/ w.at \in {"up", "off"} /\ (w.kind = "none" \/ w.kind = proc[x].kind)
           \/ w.at = "claim" /\ w.kind # "none" /\ w.plan \in Plan
           \/ /\ w.kind = "context" /\ w.plan = p /\ w.at # "unused" /\ d.state # "none"
              /\ w.at = "settle" /\ w.done => d.state \in {"ready", "failed"}
    PROVE  IInv'
<1>1. context \in [Plan -> ContextRows] /\ proc \in [Proc -> Processes] BY DEF IInv, StagingOK
<1>2. context' \in [Plan -> ContextRows] /\ proc' \in [Proc -> Processes] BY <1>1
<1>3. ASSUME NEW q \in Plan
      PROVE  /\ KeptRow(context[q], context'[q])
             /\ context'[q].state \in {"created", "preparing"} => Preparing(q) \/ AuthorityOf(q)
             /\ context'[q].state # "none" => context[q].state # "none" \/ plan[q].run # "cancelled"
  <2>1. CASE q = p BY <1>1, <2>1
  <2>2. CASE q # p BY <1>1, <2>2 DEF KeptRow, Preparing, IInv, StagingOK
  <2>. QED BY <2>1, <2>2
<1>4. ASSUME NEW y \in Proc, proc'[y] # proc[y]
      PROVE  /\ ProcessOK(proc[y])'
             /\ proc[y].kind = "baseline" /\ proc[y].at \in Carrying => faults' > 0
             /\ proc'[y].kind = "baseline" => proc'[y].at \notin Carrying
  <2>1. y = x /\ proc'[y] = w BY <1>1, <1>4
  <2>2. context'[p] = d BY <1>1
  <2>3. w.kind = "context" \/ w.at \in {"claim", "up", "off"} OBVIOUS
  <2>. QED BY <2>1, <2>2, <2>3 DEF ProcessOK, Carrying
<1>5. ContextMove BY <1>2, <1>3, <1>4 DEF ContextMove
<1>. QED BY <1>5, ContextMoveKeeps

(* One whose context stays as it is.                                        *)
LEMMA ProcessStep ==
    ASSUME IInv, Calm \/ Fault, UNCHANGED <<plan, context>>, fresh' \subseteq Proc,
           NEW x \in Proc, NEW w \in Processes, proc' = [proc EXCEPT ![x] = w],
           ~(proc[x].kind = "baseline" /\ proc[x].at \in Carrying) \/ faults' > 0,
           \/ w.at \in {"up", "off"} /\ (w.kind = "none" \/ w.kind = proc[x].kind)
           \/ w.at = "claim" /\ w.kind # "none" /\ w.plan \in Plan
    PROVE  IInv'
<1>1. proc \in [Proc -> Processes] BY DEF IInv, StagingOK
<1>2. proc' \in [Proc -> Processes] BY <1>1
<1>3. ASSUME NEW q \in Plan PROVE KeptRow(context[q], context[q])
    BY DEF KeptRow, IInv, StagingOK
<1>4. ASSUME NEW y \in Proc, proc'[y] # proc[y]
      PROVE  /\ ProcessOK(proc[y])'
             /\ proc[y].kind = "baseline" /\ proc[y].at \in Carrying => faults' > 0
             /\ proc'[y].kind = "baseline" => proc'[y].at \notin Carrying
  <2>1. y = x /\ proc'[y] = w BY <1>1, <1>4
  <2>. QED BY <2>1 DEF ProcessOK, Carrying
<1>5. ContextMove BY <1>2, <1>3, <1>4 DEF ContextMove, Preparing, IInv, StagingOK
<1>. QED BY <1>5, ContextMoveKeeps

LEMMA LaunchKeeps ==
    ASSUME IInv, NEW s \in Shot, NEW kind \in {"baseline", "context"}, NEW p \in Plan, Launch(s, kind, p)
    PROVE  IInv'
<1>. DEFINE w == [Quiet("claim") EXCEPT !.kind = kind, !.plan = p]
<1>1. w \in Processes /\ w.at = "claim" /\ w.kind = kind /\ w.plan = p BY DEF Quiet, Processes
<1>2. /\ proc[s].at \notin Carrying /\ s \in Proc /\ Calm /\ UNCHANGED <<plan, context>>
      /\ proc' = [proc EXCEPT ![s] = w] /\ fresh' \subseteq Proc
    BY DEF Launch, Carrying, Proc, IInv, StagingOK
<1>. HIDE DEF w
<1>. QED BY <1>1, <1>2, ProcessStep

LEMMA DiesKeeps == ASSUME IInv, NEW x \in Proc, Dies(x) PROVE IInv'
<1>. DEFINE w == [proc[x] EXCEPT !.at = "off"]
<1>1. proc[x] \in Processes /\ fresh \subseteq Proc BY DEF IInv, StagingOK
<1>2. /\ w \in Processes /\ w.at = "off" /\ w.kind = proc[x].kind BY <1>1 DEF Processes
<1>3. /\ Fault /\ UNCHANGED <<plan, context>> /\ fresh' \subseteq Proc /\ proc' = [proc EXCEPT ![x] = w]
    BY <1>1 DEF Dies, Goto
<1>4. faults' > 0 BY <1>3, AccessAssumption DEF Fault, Access!Fault, IInv, Access!TypeOK
<1>. HIDE DEF w
<1>. QED BY <1>2, <1>3, <1>4, ProcessStep

LEMMA StaleKeeps == ASSUME IInv, NEW x \in Proc, Stale(x) PROVE IInv'
<1>1. /\ Calm /\ UNCHANGED <<plan, context, proc>> /\ fresh' \subseteq Proc
    BY DEF Stale, IInv, StagingOK
<1>2. ContextMove BY <1>1 DEF ContextMove, KeptRow, Preparing, IInv, StagingOK
<1>. QED BY <1>1, <1>2, ContextMoveKeeps

LEMMA WorkerStopsKeeps == ASSUME IInv, WorkerStops PROVE IInv'
<1>. DEFINE w == [proc[Worker] EXCEPT !.at = "off"]
<1>1. proc[Worker] \in Processes /\ fresh \subseteq Proc /\ Worker \in Proc BY DEF IInv, StagingOK, Proc
<1>2. w \in Processes /\ w.at = "off" /\ w.kind = proc[Worker].kind BY <1>1 DEF Processes
<1>3. /\ Calm /\ UNCHANGED <<plan, context>> /\ fresh' \subseteq Proc /\ proc' = [proc EXCEPT ![Worker] = w]
      /\ proc[Worker].at \notin Carrying
    BY <1>1 DEF WorkerStops, Goto, Carrying
<1>. HIDE DEF w
<1>. QED BY <1>1, <1>2, <1>3, ProcessStep

LEMMA ClaimBaselineKeeps == ASSUME IInv, NEW s \in Proc, ClaimBaseline(s) PROVE IInv'
<1>. DEFINE p == proc[s].plan
            r == [plan[p] EXCEPT !.job = "active"]
            w == [proc[s] EXCEPT !.at = "take"]
<1>1. proc[s].kind = "baseline" /\ proc[s].at = "claim" /\ Calm /\ UNCHANGED context
    BY DEF ClaimBaseline, At
<1>2. p \in Plan /\ proc[s] \in Processes /\ plan[p] \in PlanRows /\ RowOK(plan[p])
  <2>1. ProcessOK(proc[s]) BY DEF IInv, StagingOK
  <2>2. p \in Plan BY <1>1, <2>1 DEF ProcessOK
  <2>. QED BY <2>2 DEF IInv, StagingOK
<1>3. CASE Claimable(P(s))
  <2>1. plan[p].run = "created" /\ plan[p].job = "created" BY <1>3 DEF Claimable, P
  <2>2. plan' = [plan EXCEPT ![p] = r] BY <1>3 DEF ClaimBaseline, SetPlan, P
  <2>3. /\ proc' = [proc EXCEPT ![s] = w] /\ fresh' \subseteq Proc BY <1>2, <1>3 DEF ClaimBaseline, Goto, IInv, StagingOK
  <2>4. /\ r \in PlanRows /\ w \in Processes BY <1>2 DEF PlanRows, Processes
  <2>5. /\ r.run = "created" /\ r.job = "active" /\ r.attempt = plan[p].attempt /\ r.slot = plan[p].slot
        /\ r.revoked = plan[p].revoked
      BY <1>2, <2>1 DEF PlanRows
  <2>6. RowOK(r) /\ HeldUp(p) BY <1>2, <2>1, <2>5 DEF RowOK, HeldUp
  <2>7. w.kind = "baseline" /\ w.plan = p /\ InStep(w.at, r.run) BY <1>1, <1>2, <2>5 DEF Processes, InStep
  <2>. HIDE DEF r, w
  <2>. QED BY <1>1, <1>2, <2>1, <2>2, <2>3, <2>4, <2>5, <2>6, <2>7, BaselineStep
<1>4. CASE ~Claimable(P(s))
  <2>1. Ends(s) /\ UNCHANGED plan BY <1>4 DEF ClaimBaseline
  <2>2. PICK v \in Processes : /\ v.at \in {"up", "off"} /\ v.kind = "none" /\ proc' = [proc EXCEPT ![s] = v]
                               /\ fresh' \subseteq Proc
      BY <2>1, Ending
  <2>3. proc[s].at \notin Carrying BY <1>1 DEF Carrying
  <2>. QED BY <1>1, <2>1, <2>2, <2>3, ProcessStep
<1>. QED BY <1>3, <1>4

(* What a process that works on a context finds.                            *)
LEMMA ContextSees ==
    ASSUME IInv, NEW x \in Proc, proc[x].kind = "context", proc[x].at \notin {"unused", "up", "off"}
    PROVE  /\ proc[x].plan \in Plan /\ context[proc[x].plan] \in ContextRows
           /\ ContextRowOK(context[proc[x].plan]) /\ proc[x] \in Processes
           /\ proc[x].at # "claim" => context[proc[x].plan].state # "none"
           /\ proc[x].at = "settle" /\ proc[x].done => context[proc[x].plan].state \in {"ready", "failed"}
<1>1. ProcessOK(proc[x]) /\ proc[x] \in Processes BY DEF IInv, StagingOK
<1>2. proc[x].plan \in Plan BY <1>1 DEF ProcessOK
<1>. QED BY <1>1, <1>2 DEF ProcessOK, IInv, StagingOK

(* A process at work on a context goes on at another place of its work.     *)
LEMMA WorkStep ==
    ASSUME IInv, Calm \/ Fault, UNCHANGED <<plan, fresh>>, NEW x \in Proc, NEW p \in Plan, proc[x].plan = p,
           proc[x].kind = "context", proc[x].at \in {"claim", "take", "authority", "read", "persist", "fail"},
           NEW at \in {"take", "authority", "read", "persist", "fail", "settle"}, NEW done \in BOOLEAN,
           proc' = [proc EXCEPT ![x] = [proc[x] EXCEPT !.at = at, !.done = done]],
           NEW d \in ContextRows, context' = [context EXCEPT ![p] = d], KeptRow(context[p], d), d.state # "none",
           d.state \in {"created", "preparing"} => Preparing(p), context[p].state # "none",
           at = "settle" /\ done => d.state \in {"ready", "failed"}
    PROVE  IInv'
<1>. DEFINE w == [proc[x] EXCEPT !.at = at, !.done = done]
<1>1. proc[x] \in Processes /\ fresh' \subseteq Proc BY DEF IInv, StagingOK
<1>2. w \in Processes /\ w.at = at /\ w.done = done /\ w.kind = "context" /\ w.plan = p
    BY <1>1 DEF Processes
<1>3. proc' = [proc EXCEPT ![x] = w] OBVIOUS
<1>. HIDE DEF w
<1>. QED BY <1>1, <1>2, <1>3, ContextStep

(* A change of one context and of nothing else.                             *)
LEMMA RowStep ==
    ASSUME IInv, Calm \/ Fault, UNCHANGED <<plan, proc, fresh>>, NEW p \in Plan,
           NEW d \in ContextRows, context' = [context EXCEPT ![p] = d], KeptRow(context[p], d),
           d.state \in {"created", "preparing"} => Preparing(p) \/ AuthorityOf(p),
           d.state # "none" => context[p].state # "none" \/ plan[p].run # "cancelled"
    PROVE  IInv'
<1>1. context \in [Plan -> ContextRows] BY DEF IInv, StagingOK
<1>2. ASSUME NEW q \in Plan
      PROVE  /\ KeptRow(context[q], context'[q])
             /\ context'[q].state \in {"created", "preparing"} => Preparing(q) \/ AuthorityOf(q)
             /\ context'[q].state # "none" => context[q].state # "none" \/ plan[q].run # "cancelled"
  <2>1. CASE q = p BY <1>1, <2>1
  <2>2. CASE q # p BY <1>1, <2>2 DEF KeptRow, Preparing, IInv, StagingOK
  <2>. QED BY <2>1, <2>2
<1>3. ContextMove BY <1>1, <1>2 DEF ContextMove, IInv, StagingOK
<1>. QED BY <1>3, ContextMoveKeeps

LEMMA CreateInvestigationKeeps == ASSUME IInv, NEW p \in Plan, CreateInvestigation(p) PROVE IInv'
<1>. DEFINE d == [NoContext EXCEPT !.state = "created", !.job = "created", !.left = RetryLimit]
<1>1. /\ d \in ContextRows /\ d.state = "created" /\ d.tries = 0 /\ d.job = "created"
  <2>1. NoContext \in ContextRows /\ NoContext.tries = 0 BY TriesAssumption DEF NoContext, ContextRows
  <2>2. RetryLimit \in 0..RetryLimit BY TriesAssumption
  <2>. QED BY <2>1, <2>2 DEF ContextRows
<1>2. /\ Calm /\ UNCHANGED <<plan, proc, fresh>> /\ context' = [context EXCEPT ![p] = d]
      /\ context[p].state = "none" /\ AuthorityOf(p) /\ plan[p].run = "ready"
    BY DEF CreateInvestigation, SetContext, Integrity
<1>3. KeptRow(context[p], d) BY <1>1, <1>2, TriesAssumption DEF KeptRow, ContextRowOK
<1>. HIDE DEF d
<1>. QED BY <1>1, <1>2, <1>3, RowStep

(* The queue's retries end.                                                 *)
LEMMA FailJobTyped ==
    ASSUME NEW c \in ContextRows
    PROVE  /\ FailJob(c) \in ContextRows /\ FailJob(c).state = c.state /\ FailJob(c).tries = c.tries
           /\ FailJob(c).job \in {"retry", "failed"}
<1>1. CASE c.left > 0
  <2>1. c.left - 1 \in 0..RetryLimit BY <1>1, TriesAssumption DEF ContextRows
  <2>2. FailJob(c) = [c EXCEPT !.job = "retry", !.left = c.left - 1] BY <1>1 DEF FailJob, ContextRows
  <2>. QED BY <2>1, <2>2 DEF ContextRows
<1>2. CASE ~(c.left > 0)
  <2>1. FailJob(c) = [c EXCEPT !.job = "failed"] BY <1>2 DEF FailJob
  <2>. QED BY <2>1 DEF ContextRows
<1>. QED BY <1>1, <1>2

LEMMA SuperviseKeeps == ASSUME IInv, NEW p \in Plan, Supervise(p) PROVE IInv'
<1>1. /\ context[p] \in ContextRows /\ ContextRowOK(context[p]) /\ context[p].job = "active"
    BY DEF Supervise, IInv, StagingOK
<1>2. /\ Calm \/ Fault
      /\ UNCHANGED <<plan, proc, fresh>> /\ context' = [context EXCEPT ![p] = FailJob(context[p])]
    BY DEF Supervise, SetContext
<1>3. /\ KeptRow(context[p], FailJob(context[p])) /\ FailJob(context[p]) \in ContextRows
      /\ FailJob(context[p]).state = context[p].state
    BY <1>1, FailJobTyped DEF KeptRow, ContextRowOK
<1>4. context[p].state # "none" BY <1>1 DEF ContextRowOK
<1>. QED BY <1>2, <1>3, <1>4, RowStep DEF Preparing

LEMMA LeaseLapsesKeeps == ASSUME IInv, NEW p \in Plan, LeaseLapses(p) PROVE IInv'
<1>. DEFINE d == [context[p] EXCEPT !.live = FALSE]
<1>1. /\ context[p] \in ContextRows /\ ContextRowOK(context[p]) /\ context[p].state = "preparing"
    BY DEF LeaseLapses, Busy, IInv, StagingOK
<1>2. /\ Calm \/ Fault
      /\ UNCHANGED <<plan, proc, fresh>> /\ context' = [context EXCEPT ![p] = d]
    BY DEF LeaseLapses, SetContext
<1>3. d \in ContextRows /\ d.state = "preparing" /\ d.job = context[p].job BY <1>1 DEF ContextRows
<1>4. KeptRow(context[p], d) BY <1>1, <1>3 DEF KeptRow, ContextRowOK
<1>. HIDE DEF d
<1>. QED BY <1>1, <1>2, <1>3, <1>4, RowStep DEF Preparing

LEMMA WorkerStartsKeeps == ASSUME IInv, WorkerStarts PROVE IInv'
<1>1. /\ Calm /\ UNCHANGED plan /\ fresh' \subseteq Proc /\ Worker \in Proc
      /\ proc[Worker].at = "off" /\ proc' = [proc EXCEPT ![Worker] = [proc[Worker] EXCEPT !.at = "up"]]
      /\ context' = [p \in Plan |-> IF Revived(p) THEN [context[p] EXCEPT !.job = "retry"] ELSE context[p]]
    BY DEF WorkerStarts, Goto, IInv, StagingOK, Proc
<1>2. ASSUME NEW p \in Plan
      PROVE  /\ context'[p] \in ContextRows /\ KeptRow(context[p], context'[p])
             /\ context'[p].state = context[p].state
  <2>1. context[p] \in ContextRows /\ ContextRowOK(context[p]) BY DEF IInv, StagingOK
  <2>2. CASE Revived(p)
    <3>1. context'[p] = [context[p] EXCEPT !.job = "retry"] BY <1>1, <2>2
    <3>2. context[p].state \in {"created", "preparing"} BY <2>2 DEF Revived, Preparing
    <3>. QED BY <2>1, <3>1, <3>2 DEF ContextRows, KeptRow, ContextRowOK
  <2>3. CASE ~Revived(p)
    <3>1. context'[p] = context[p] BY <1>1, <2>3
    <3>. QED BY <2>1, <3>1 DEF KeptRow
  <2>. QED BY <2>2, <2>3
<1>3. context' \in [Plan -> ContextRows] BY <1>1, <1>2
<1>4. proc \in [Proc -> Processes] /\ proc[Worker] \in Processes /\ ProcessOK(proc[Worker])
    BY <1>1 DEF IInv, StagingOK
<1>5. /\ [proc[Worker] EXCEPT !.at = "up"] \in Processes
      /\ [proc[Worker] EXCEPT !.at = "up"].at = "up"
    BY <1>4 DEF Processes
<1>6. proc' \in [Proc -> Processes] /\ proc'[Worker].at = "up" /\ \A y \in Proc \ {Worker} : proc'[y] = proc[y]
    BY <1>1, <1>4, <1>5
<1>7. ProcessOK(proc[Worker])' BY <1>6 DEF ProcessOK, Carrying
<1>8. ContextMove BY <1>1, <1>2, <1>3, <1>6, <1>7 DEF ContextMove, Carrying, Preparing
<1>. QED BY <1>1, <1>8, ContextMoveKeeps

LEMMA FetchKeeps == ASSUME IInv, NEW p \in Plan, Fetch(p) PROVE IInv'
<1>. DEFINE d == [context[p] EXCEPT !.job = "active"]
            w == [Quiet("take") EXCEPT !.kind = "context", !.plan = p]
<1>1. /\ context[p] \in ContextRows /\ ContextRowOK(context[p]) /\ context[p].job \in {"created", "retry"}
    BY DEF Fetch, IInv, StagingOK
<1>2. w \in Processes /\ w.at = "take" /\ w.kind = "context" /\ w.plan = p BY DEF Quiet, Processes
<1>3. /\ d \in ContextRows /\ d.state = context[p].state /\ d.tries = context[p].tries /\ d.job = "active"
    BY <1>1 DEF ContextRows
<1>4. d.state # "none" BY <1>1, <1>3 DEF ContextRowOK
<1>5. KeptRow(context[p], d) BY <1>1, <1>3, <1>4 DEF KeptRow, ContextRowOK
<1>6. /\ Calm /\ UNCHANGED plan /\ fresh' \subseteq Proc /\ Worker \in Proc /\ proc[Worker].at \notin Carrying
      /\ proc' = [proc EXCEPT ![Worker] = w] /\ context' = [context EXCEPT ![p] = d]
    BY DEF Fetch, SetContext, Carrying, Proc, IInv, StagingOK
<1>7. d.state \in {"created", "preparing"} => Preparing(p) BY <1>3 DEF Preparing
<1>. HIDE DEF d, w
<1>. QED BY <1>2, <1>3, <1>4, <1>5, <1>6, <1>7, ContextStep

LEMMA ClaimContextKeeps == ASSUME IInv, NEW s \in Proc, ClaimContext(s) PROVE IInv'
<1>. DEFINE p == proc[s].plan
            d == [context[p] EXCEPT !.job = "active", !.left = 0]
<1>1. proc[s].kind = "context" /\ proc[s].at = "claim" /\ Calm /\ UNCHANGED plan BY DEF ClaimContext, At
<1>2. /\ p \in Plan /\ context[p] \in ContextRows /\ ContextRowOK(context[p]) /\ proc[s] \in Processes
    BY <1>1, ContextSees
<1>3. CASE PhaseClaimable(s)
  <2>1. /\ context[p].state = "created" /\ context' = [context EXCEPT ![p] = d] /\ UNCHANGED fresh
        /\ proc' = [proc EXCEPT ![s] = [proc[s] EXCEPT !.at = "take", !.done = proc[s].done]]
        /\ proc[s].done \in BOOLEAN
      BY <1>2, <1>3 DEF ClaimContext, PhaseClaimable, SetContext, Goto, P, IInv, StagingOK, Processes
  <2>0. 0 \in 0..RetryLimit BY TriesAssumption
  <2>2. /\ d \in ContextRows /\ d.state = "created" /\ d.tries = context[p].tries /\ d.job = "active"
      BY <1>2, <2>0, <2>1 DEF ContextRows
  <2>3. KeptRow(context[p], d) BY <1>2, <2>1, <2>2 DEF KeptRow, ContextRowOK
  <2>4. Preparing(p) BY <2>1 DEF Preparing
  <2>. HIDE DEF p, d
  <2>. QED BY <1>1, <1>2, <2>1, <2>2, <2>3, <2>4, WorkStep DEF p
<1>4. CASE ~PhaseClaimable(s)
  <2>1. Ends(s) /\ UNCHANGED context BY <1>4 DEF ClaimContext
  <2>2. PICK v \in Processes : /\ v.at \in {"up", "off"} /\ v.kind = "none" /\ proc' = [proc EXCEPT ![s] = v]
                               /\ fresh' \subseteq Proc
      BY <2>1, Ending
  <2>. QED BY <1>1, <2>1, <2>2, ProcessStep
<1>. QED BY <1>3, <1>4

(* A place of its work where a process's context stays as it is.            *)
LEMMA MoveOn ==
    ASSUME IInv, Calm \/ Fault, UNCHANGED <<plan, context, fresh>>, NEW x \in Proc, proc[x].kind = "context",
           proc[x].at \in {"take", "authority", "read", "persist", "fail"},
           NEW at \in {"authority", "read", "persist", "fail", "settle"}, NEW done \in BOOLEAN,
           proc' = [proc EXCEPT ![x] = [proc[x] EXCEPT !.at = at, !.done = done]],
           at = "settle" /\ done => ~Preparing(P(x))
    PROVE  IInv'
<1>. DEFINE p == proc[x].plan
<1>1. /\ p \in Plan /\ context[p] \in ContextRows /\ ContextRowOK(context[p]) /\ context[p].state # "none"
    BY ContextSees
<1>2. context' = [context EXCEPT ![p] = context[p]] BY <1>1 DEF IInv, StagingOK
<1>3. KeptRow(context[p], context[p]) BY <1>1 DEF KeptRow
<1>4. /\ context[p].state \in {"created", "preparing"} => Preparing(p)
      /\ at = "settle" /\ done => context[p].state \in {"ready", "failed"}
    BY <1>1 DEF Preparing, P, ContextRows
<1>. DEFINE d == context[p]
<1>5. /\ UNCHANGED <<plan, fresh>> /\ proc[x].plan = p /\ at \in {"take", "authority", "read", "persist", "fail", "settle"}
      /\ proc[x].at \in {"claim", "take", "authority", "read", "persist", "fail"}
      /\ d \in ContextRows /\ context' = [context EXCEPT ![p] = d] /\ KeptRow(context[p], d) /\ d.state # "none"
      /\ d.state \in {"created", "preparing"} => Preparing(p)
      /\ at = "settle" /\ done => d.state \in {"ready", "failed"}
    BY <1>1, <1>2, <1>3, <1>4
<1>. HIDE DEF p, d
<1>. QED BY <1>1, <1>5, WorkStep

LEMMA CheckContextKeeps == ASSUME IInv, NEW s \in Proc, CheckContext(s) PROVE IInv'
<1>1. /\ proc[s].kind = "context" /\ proc[s].at = "authority" /\ Calm /\ UNCHANGED <<plan, context, fresh>>
    BY DEF CheckContext, At
<1>2. proc[s] \in Processes /\ proc[s].done \in BOOLEAN BY DEF IInv, StagingOK, Processes
<1>3. PICK at \in {"read", "fail"} : proc' = [proc EXCEPT ![s] = [proc[s] EXCEPT !.at = at, !.done = proc[s].done]]
  <2>1. proc[s] \in Processes BY DEF IInv, StagingOK
  <2>2. PICK at \in {"read", "fail"} : Goto(s, at) BY DEF CheckContext
  <2>3. [proc[s] EXCEPT !.at = at] = [proc[s] EXCEPT !.at = at, !.done = proc[s].done] BY <2>1 DEF Processes
  <2>. QED BY <2>2, <2>3 DEF Goto, IInv, StagingOK
<1>. QED BY <1>1, <1>2, <1>3, MoveOn

LEMMA ReadKeeps == ASSUME IInv, NEW x \in Proc, Read(x) PROVE IInv'
<1>1. /\ proc[x].kind = "context" /\ proc[x].at = "read" /\ UNCHANGED <<plan, context, fresh>>
      /\ Calm \/ Fault
    BY DEF Read, At
<1>2. proc[x] \in Processes /\ proc[x].done \in BOOLEAN BY DEF IInv, StagingOK, Processes
<1>3. PICK at \in {"persist", "fail"} : proc' = [proc EXCEPT ![x] = [proc[x] EXCEPT !.at = at, !.done = proc[x].done]]
  <2>1. proc[x] \in Processes BY DEF IInv, StagingOK
  <2>2. PICK at \in {"persist", "fail"} : Goto(x, at) BY DEF Read
  <2>3. [proc[x] EXCEPT !.at = at] = [proc[x] EXCEPT !.at = at, !.done = proc[x].done] BY <2>1 DEF Processes
  <2>. QED BY <2>2, <2>3 DEF Goto, IInv, StagingOK
<1>. QED BY <1>1, <1>2, <1>3, MoveOn

LEMMA ConcludesAs ==
    ASSUME IInv, NEW x \in Proc, NEW done \in BOOLEAN, Conclude(x, done)
    PROVE  proc' = [proc EXCEPT ![x] = [proc[x] EXCEPT !.at = "settle", !.done = done]]
BY DEF Conclude, IInv, StagingOK

LEMMA TakeContextKeeps == ASSUME IInv, NEW x \in Proc, TakeContext(x) PROVE IInv'
<1>. DEFINE p == proc[x].plan
            c == context[p]
<1>1. proc[x].kind = "context" /\ proc[x].at = "take" /\ Calm /\ UNCHANGED <<plan, fresh>> /\ P(x) = p
    BY DEF TakeContext, At, P
<1>2. /\ p \in Plan /\ c \in ContextRows /\ ContextRowOK(c) /\ proc[x] \in Processes /\ c.state # "none"
    BY <1>1, ContextSees
<1>3. CASE ~Preparing(p)
  <2>1. Conclude(x, TRUE) /\ UNCHANGED context BY <1>1, <1>3 DEF TakeContext
  <2>. QED BY <1>1, <1>3, <2>1, ConcludesAs, MoveOn
<1>4. CASE Preparing(p) /\ Busy(c)
  <2>1. Conclude(x, FALSE) /\ UNCHANGED context BY <1>1, <1>4 DEF TakeContext
  <2>. QED BY <1>1, <2>1, ConcludesAs, MoveOn
<1>5. CASE Preparing(p) /\ ~Busy(c) /\ Spent(c)
  <2>. DEFINE d == [c EXCEPT !.state = "failed", !.owner = None]
  <2>1. Conclude(x, TRUE) /\ context' = [context EXCEPT ![p] = d] BY <1>1, <1>5 DEF TakeContext, SetContext
  <2>2. d \in ContextRows /\ d.state = "failed" BY <1>2 DEF ContextRows
  <2>3. KeptRow(c, d) BY <2>2 DEF KeptRow, ContextRowOK
  <2>4. proc' = [proc EXCEPT ![x] = [proc[x] EXCEPT !.at = "settle", !.done = TRUE]] BY <2>1, ConcludesAs
  <2>. HIDE DEF p, d
  <2>. QED BY <1>1, <1>2, <2>1, <2>2, <2>3, <2>4, WorkStep DEF p
<1>6. CASE Preparing(p) /\ ~Busy(c) /\ ~Spent(c)
  <2>. DEFINE d == [c EXCEPT !.state = "preparing", !.tries = c.tries + 1, !.owner = x, !.live = TRUE]
  <2>1. context' = [context EXCEPT ![p] = d]
      BY <1>1, <1>2, <1>6 DEF TakeContext, SetContext
  <2>2. PICK at \in {"read", "authority"} : Goto(x, at) BY <1>1, <1>6 DEF TakeContext
  <2>3. c.tries + 1 \in 0..MaxTries
      BY <1>2, <1>6, TriesAssumption DEF Busy, Spent, Preparing, ContextRowOK, ContextRows
  <2>4. d \in ContextRows /\ d.state = "preparing" /\ d.job = c.job BY <1>2, <2>3 DEF ContextRows
  <2>5. KeptRow(c, d) BY <1>2, <1>6, <2>4 DEF KeptRow, ContextRowOK, Preparing
  <2>6. proc[x].done \in BOOLEAN /\ proc' = [proc EXCEPT ![x] = [proc[x] EXCEPT !.at = at, !.done = proc[x].done]]
    <3>1. [proc[x] EXCEPT !.at = at] = [proc[x] EXCEPT !.at = at, !.done = proc[x].done] BY <1>2 DEF Processes
    <3>. QED BY <1>2, <2>2, <3>1 DEF Goto, Processes, IInv, StagingOK
  <2>. HIDE DEF p, d
  <2>. QED BY <1>1, <1>2, <1>6, <2>1, <2>4, <2>5, <2>6, WorkStep DEF p
<1>. QED BY <1>3, <1>4, <1>5, <1>6

(* A decision, or a return to the queue, by the owner of the row.           *)
LEMMA ReleaseKeeps ==
    ASSUME IInv, Calm, UNCHANGED <<plan, fresh>>, NEW x \in Proc, proc[x].kind = "context",
           proc[x].at \in {"persist", "fail"}, Owns(x), NEW state \in {"created", "ready", "failed"},
           state = "created" => context[P(x)].tries < MaxTries, NEW done \in BOOLEAN, done => state # "created",
           Conclude(x, done), SetContext(P(x), Release(context[P(x)], state))
    PROVE  IInv'
<1>. DEFINE p == proc[x].plan
            c == context[p]
            d == [c EXCEPT !.state = state, !.owner = None, !.live = FALSE]
<1>1. /\ p \in Plan /\ c \in ContextRows /\ ContextRowOK(c) /\ c.state = "preparing"
    BY ContextSees DEF Owns, P
<1>2. context' = [context EXCEPT ![p] = d] BY DEF SetContext, Release, P
<1>3. /\ d \in ContextRows /\ d.state = state /\ d.job = c.job /\ d.tries = c.tries BY <1>1 DEF ContextRows
<1>4. KeptRow(c, d) BY <1>1, <1>3 DEF KeptRow, ContextRowOK, P
<1>5. proc' = [proc EXCEPT ![x] = [proc[x] EXCEPT !.at = "settle", !.done = done]] BY ConcludesAs
<1>6. Preparing(p) BY <1>1 DEF Preparing
<1>. HIDE DEF p, d
<1>. QED BY <1>1, <1>2, <1>3, <1>4, <1>5, <1>6, WorkStep DEF p

LEMMA PersistKeeps == ASSUME IInv, NEW x \in Proc, Persist(x) PROVE IInv'
<1>1. proc[x].kind = "context" /\ proc[x].at = "persist" /\ Calm /\ UNCHANGED <<plan, fresh>>
    BY DEF Persist, At
<1>2. CASE Owns(x)
  <2>1. Conclude(x, TRUE) /\ SetContext(P(x), Release(context[P(x)], "ready")) BY <1>2 DEF Persist, Conclude
  <2>. QED BY <1>1, <1>2, <2>1, ReleaseKeeps
<1>3. CASE ~Owns(x)
  <2>1. Conclude(x, FALSE) /\ UNCHANGED context BY <1>3 DEF Persist, Conclude, Owns
  <2>. QED BY <1>1, <2>1, ConcludesAs, MoveOn
<1>. QED BY <1>2, <1>3

LEMMA RecordFailureKeeps == ASSUME IInv, NEW x \in Proc, RecordFailure(x) PROVE IInv'
<1>. DEFINE last == context[P(x)].tries >= MaxTries
<1>1. proc[x].kind = "context" /\ proc[x].at = "fail" /\ Calm /\ UNCHANGED <<plan, fresh>>
    BY DEF RecordFailure, At
<1>2. CASE Owns(x) /\ last
  <2>1. Conclude(x, TRUE) /\ SetContext(P(x), Release(context[P(x)], "failed"))
      BY <1>2 DEF RecordFailure, Conclude
  <2>. QED BY <1>1, <1>2, <2>1, ReleaseKeeps
<1>3. CASE Owns(x) /\ ~last
  <2>1. Conclude(x, FALSE) /\ SetContext(P(x), Release(context[P(x)], "created"))
      BY <1>3 DEF RecordFailure, Conclude
  <2>2. context[P(x)].tries < MaxTries
    <3>1. context[P(x)] \in ContextRows BY <1>1, ContextSees DEF P
    <3>2. context[P(x)].tries \in Int BY <3>1 DEF ContextRows
    <3>. QED BY <1>3, <3>2, TriesAssumption
  <2>. QED BY <1>1, <1>3, <2>1, <2>2, ReleaseKeeps
<1>4. CASE ~Owns(x)
  <2>1. Conclude(x, FALSE) /\ UNCHANGED context BY <1>4 DEF RecordFailure, Conclude
  <2>. QED BY <1>1, <2>1, ConcludesAs, MoveOn
<1>. QED BY <1>2, <1>3, <1>4

(* The job is only completed under a context that is decided.               *)
LEMMA SettleContextKeeps == ASSUME IInv, NEW x \in Proc, SettleContext(x) PROVE IInv'
<1>. DEFINE p == proc[x].plan
            c == context[p]
            settled == proc[x].done /\ (x \in Shot => ~Preparing(p))
            d == IF c.job # "active" THEN c ELSE IF settled THEN [c EXCEPT !.job = "completed"] ELSE FailJob(c)
<1>1. proc[x].kind = "context" /\ proc[x].at = "settle" /\ Calm /\ UNCHANGED plan /\ Ends(x) /\ P(x) = p
    BY DEF SettleContext, At, P
<1>2. /\ p \in Plan /\ c \in ContextRows /\ ContextRowOK(c) /\ c.state # "none"
      /\ proc[x].done => c.state \in {"ready", "failed"}
    BY <1>1, ContextSees
<1>3. context \in [Plan -> ContextRows] BY DEF IInv, StagingOK
<1>4. context' = [context EXCEPT ![p] = d]
  <2>1. CASE c.job # "active" BY <1>1, <1>3, <2>1 DEF SettleContext
  <2>2. CASE c.job = "active" BY <1>1, <2>2 DEF SettleContext, SetContext
  <2>. QED BY <2>1, <2>2
<1>5. /\ d \in ContextRows /\ KeptRow(c, d) /\ d.state = c.state
  <2>1. CASE d = c BY <1>2, <2>1 DEF KeptRow
  <2>2. CASE settled /\ d = [c EXCEPT !.job = "completed"]
      BY <1>2, <2>2 DEF ContextRows, KeptRow, ContextRowOK
  <2>3. CASE d = FailJob(c) BY <1>2, <2>3, FailJobTyped DEF KeptRow, ContextRowOK
  <2>. QED BY <2>1, <2>2, <2>3
<1>6. PICK w \in Processes : /\ w.at \in {"up", "off"} /\ w.kind = "none" /\ proc' = [proc EXCEPT ![x] = w]
                             /\ fresh' \subseteq Proc
    BY <1>1, Ending
<1>7. d.state \in {"created", "preparing"} => Preparing(p) BY <1>5 DEF Preparing
<1>. HIDE DEF p, d
<1>. QED BY <1>1, <1>2, <1>4, <1>5, <1>6, <1>7, ContextStep

-----------------------------------------------------------------------------
(* The theorems.                                                           *)

LEMMA StagingKeeps == ASSUME IInv, (\E x \in Proc : Handle(x)) \/ Environment PROVE IInv'
<1>1. ASSUME NEW x \in Proc, Handle(x) PROVE IInv'
    BY <1>1, ClaimBaselineKeeps, TakeBaselineKeeps, CheckBaselineKeeps, ReserveKeeps, SandboxKeeps,
       SettleBaselineKeeps, ClaimContextKeeps, TakeContextKeeps, CheckContextKeeps, ReadKeeps, PersistKeeps,
       RecordFailureKeeps, SettleContextKeeps DEF Handle
<1>2. ASSUME NEW p \in Plan, Stage(p) \/ Retire(p) \/ CreateInvestigation(p) PROVE IInv'
    BY <1>2, StageKeeps, RetireKeeps, CreateInvestigationKeeps
<1>3. ASSUME NEW p \in Plan, Fetch(p) \/ Supervise(p) \/ LeaseLapses(p) PROVE IInv'
    BY <1>3, FetchKeeps, SuperviseKeeps, LeaseLapsesKeeps
<1>4. ASSUME NEW p \in Plan, NEW s \in Shot, NEW kind \in {"baseline", "context"}, Launch(s, kind, p) PROVE IInv'
    BY <1>4, LaunchKeeps
<1>5. CASE WorkerStarts \/ WorkerStops BY <1>5, WorkerStartsKeeps, WorkerStopsKeeps
<1>6. ASSUME NEW x \in Proc, Dies(x) \/ Stale(x) PROVE IInv' BY <1>6, DiesKeeps, StaleKeeps
<1>. QED BY <1>1, <1>2, <1>3, <1>4, <1>5, <1>6 DEF Environment

LEMMA StutterKeeps == ASSUME IInv, UNCHANGED vars PROVE IInv'
<1>1. Calm /\ UNCHANGED <<plan, context, proc, fresh>> BY DEF vars, Calm, stagingVars
<1>2. ContextMove BY <1>1 DEF ContextMove, KeptRow, Preparing, IInv, StagingOK
<1>. QED BY <1>1, <1>2, ContextMoveKeeps

LEMMA NextKeeps == ASSUME IInv, [Next]_vars PROVE IInv'
BY AccessKeeps, StagingKeeps, StutterKeeps DEF Next

LEMMA InitHolds == ASSUME Init PROVE IInv
<1>1. Access!TypeOK /\ TimesOK
  <2>1. /\ clock = 0 /\ attempts = <<>> /\ detection = Access!Idle /\ changes = 0 /\ faults = 0
      BY DEF Init, Access!InitAccess
  <2>2. hub \in [access : [Repo -> {"public", "private", "none"}], head : [Repo -> Commit],
                 suspended : BOOLEAN, members : SUBSET Workspace]
    <3>1. [r \in Repo |-> FirstCommit] \in [Repo -> Commit] BY AccessAssumption
    <3>2. [Repo -> {"public", "private"}] \subseteq [Repo -> {"public", "private", "none"}] OBVIOUS
    <3>3. hub \in [access : [Repo -> {"public", "private"}], head : {[r \in Repo |-> FirstCommit]},
                   suspended : {FALSE}, members : {Workspace}]
        BY DEF Init, Access!InitAccess
    <3>. QED BY <3>1, <3>2, <3>3
  <2>3. PICK w \in Workspace \cup {None}, r \in Repo \cup {None} : Access!Start(w, r)
      BY DEF Init, Access!InitAccess
  <2>4. /\ binding \in Workspace \cup {None} /\ told \in [Workspace -> {"nothing", "connected", "conflict"}]
        /\ selected \in [repo : Repo \cup {None}, updated : 0..MaxClock, written : 0..MaxClock]
        /\ profile \in [Repo -> [status : {"none", "ready", "unsupported"}, commit : Commit \cup {None}]]
      BY <2>3, AccessAssumption DEF Access!Start, Access!Unselected, Access!NoProfile, Access!Detected
  <2>5. [t \in 0..MaxClock |-> LiveWork(t)] \in [0..MaxClock -> BOOLEAN] BY DEF LiveWork
  <2>6. Access!Idle \in [at : {"idle", "read", "confirm", "save"}, repo : Repo \cup {None},
                         commit : Commit \cup {None}, began : 0..MaxClock]
      BY AccessAssumption DEF Access!Idle
  <2>7. attempts \in Seq(Access!Attempts) /\ DOMAIN attempts = {} BY <2>1
  <2>8. TimesOK BY <2>1, <2>7 DEF TimesOK, Access!Idle
  <2>. QED BY <2>1, <2>2, <2>4, <2>5, <2>6, <2>7, <2>8, AccessAssumption DEF Access!TypeOK
<1>2. /\ plan = [p \in Plan |-> NoPlan] /\ context = [p \in Plan |-> NoContext]
      /\ proc = [x \in Proc |-> Quiet(IF x = Worker THEN "off" ELSE "unused")] /\ fresh = {}
    BY DEF Init
<1>3. /\ NoPlan \in PlanRows /\ NoContext \in ContextRows /\ RowOK(NoPlan) /\ ContextRowOK(NoContext)
    BY TriesAssumption DEF NoPlan, NoContext, PlanRows, ContextRows, RowOK, ContextRowOK
<1>4. ASSUME NEW at \in {"off", "unused"} PROVE Quiet(at) \in Processes /\ Quiet(at).at = at /\ Quiet(at).kind = "none"
    BY DEF Quiet, Processes
<1>5. \A x \in Proc : proc[x] \in Processes /\ proc[x].at \in {"off", "unused"} /\ proc[x].kind = "none"
    BY <1>2, <1>4
<1>6. \A x \in Proc : ProcessOK(proc[x]) BY <1>5 DEF ProcessOK
<1>7. \A p \in Plan : plan[p] = NoPlan BY <1>2
<1>8. StagingOK
  <2>1. OneCarrier BY <1>5 DEF OneCarrier, Carries
  <2>2. CarriedUnlessFault BY <1>7 DEF CarriedUnlessFault, NoPlan
  <2>3. RetiredIsUntouched BY <1>7 DEF RetiredIsUntouched, NoPlan
  <2>4. /\ plan \in [Plan -> PlanRows] /\ context \in [Plan -> ContextRows] /\ proc \in [Proc -> Processes]
      BY <1>2, <1>3, <1>5
  <2>5. \A p \in Plan : RowOK(plan[p]) /\ ContextRowOK(context[p]) BY <1>2, <1>3
  <2>. QED BY <1>2, <1>6, <2>1, <2>2, <2>3, <2>4, <2>5 DEF StagingOK
<1>9. AuthorityStands
  <2>1. \A p \in Plan : context[p].state = "none" BY <1>2 DEF NoContext
  <2>. QED BY <1>7, <2>1 DEF AuthorityStands, HeldUp, Granted, Staged, Preparing, NoPlan
<1>. QED BY <1>1, <1>8, <1>9 DEF IInv

LEMMA Invariant == Spec => []IInv
BY InitHolds, NextKeeps, PTL DEF Spec

(* Nothing moves the selection, or the profile, away from under a plan that  *)
(* is unfinished or in force (switch-guard.ts), whatever listing, selection *)
(* or detection was under way when it was staged.                           *)
THEOREM AuthorityOutlastsWork == Spec => []AuthorityStands
BY Invariant, PTL DEF IInv

(* A retired plan is never worked on, however late a claim of its job comes. *)
THEOREM RetirementIsFinal == Spec => []RetiredIsUntouched
<1>1. IInv => RetiredIsUntouched BY DEF IInv, StagingOK
<1>. QED BY <1>1, Invariant, PTL

(* The rows have their types, no undecided context lost its job, and without *)
(* a fault every plan can still be finished, claimed or retired.            *)
THEOREM StagingConsistent == Spec => []Consistent
<1>1. ASSUME IInv PROVE TypeOK BY <1>1 DEF IInv, StagingOK, TypeOK
<1>2. ASSUME IInv PROVE ContextKeepsJob
    BY <1>2 DEF IInv, StagingOK, ContextRowOK, ContextKeepsJob, Preparing
<1>3. ASSUME IInv PROVE DeadEndOnlyByFault
  <2>1. ASSUME NEW p \in Plan, ~(faults > 0), HeldUp(p), ~Preparing(p), plan[p].job # "created"
        PROVE  Handled(p, "baseline")
    <3>1. RowOK(plan[p]) /\ plan[p] \in PlanRows /\ plan[p].slot # "ambiguous"
        BY <1>3, <2>1 DEF IInv, StagingOK, CarriedUnlessFault
    <3>2. plan[p].run \in {"created", "running"} /\ plan[p].job = "active"
        BY <2>1, <3>1 DEF HeldUp, RowOK, PlanRows
    <3>3. PICK x \in Proc : Carries(x, p) BY <1>3, <2>1, <3>2 DEF IInv, StagingOK, CarriedUnlessFault
    <3>. QED BY <3>3 DEF Carries, Carrying, Handled, Works, Alive, P
  <2>. QED BY <2>1 DEF DeadEndOnlyByFault, WayOut
<1>. QED BY <1>1, <1>2, <1>3, Invariant, PTL DEF Consistent

-----------------------------------------------------------------------------
(* The composition implements the access model: what is unfinished of the   *)
(* plans is the work that it assumes nothing of but that it expires.        *)

LEMMA WorkExpires ==
    ([t \in 0..MaxClock |-> LiveWork(t)]
        \in {b \in [0..MaxClock -> BOOLEAN] : \A t \in 1..MaxClock : b[t] => b[t - 1]})'
<1>1. ASSUME NEW t \in 1..MaxClock, LiveWork(t)' PROVE LiveWork(t - 1)'
    BY <1>1, AccessAssumption, PlansAssumption DEF LiveWork, Granted, HeldUp
<1>2. \A t \in 1..MaxClock : t \in 0..MaxClock /\ t - 1 \in 0..MaxClock BY AccessAssumption
<1>. QED BY <1>1, <1>2, BusyTyped

(* Staging, the one-shots and the worker leave the flows' state alone, but   *)
(* for the faults that are counted together.                                *)
LEMMA StagingIsWork ==
    ASSUME (\E x \in Proc : Handle(x)) \/ Environment PROVE Access!WorkChanges
<1>1. Calm \/ Fault
  <2>1. ASSUME NEW x \in Proc, Handle(x) PROVE Calm \/ Fault
      BY <2>1 DEF Handle, ClaimBaseline, TakeBaseline, CheckBaseline, Reserve, Sandbox, SettleBaseline,
         ClaimContext, TakeContext, CheckContext, Read, Persist, RecordFailure, SettleContext
  <2>2. ASSUME Environment PROVE Calm \/ Fault
      BY <2>2 DEF Environment, Stage, Retire, CreateInvestigation, Fetch, Supervise, LeaseLapses, Launch,
         WorkerStarts, WorkerStops, Dies, Stale
  <2>. QED BY <2>1, <2>2
<1>. QED BY <1>1, WorkExpires DEF Access!WorkChanges, Calm, accessVars, Fault

(* ReviewedStaging implements RepositoryAccess, with what its plans have     *)
(* unfinished for the work (switch-guard.ts).                               *)
THEOREM StagingImplementsAccess == Spec => Access!Spec
<1>. DEFINE busy == [t \in 0..MaxClock |-> LiveWork(t)]
<1>1. ASSUME Init PROVE Access!Init
  <2>1. \A t \in 0..MaxClock : ~LiveWork(t)
    <3>1. \A p \in Plan : plan[p] = NoPlan /\ context[p].state = "none" BY <1>1 DEF Init, NoContext
    <3>. QED BY <3>1 DEF LiveWork, HeldUp, Granted, Staged, Preparing, NoPlan
  <2>2. busy = [t \in 0..MaxClock |-> FALSE]
    <3>1. \A t \in 0..MaxClock : LiveWork(t) = FALSE BY <2>1 DEF LiveWork
    <3>. QED BY <3>1
  <2>. QED BY <1>1, <2>2 DEF Init, Access!Init
<1>2. ASSUME [Next]_vars PROVE [Access!Next]_(Access!vars)
  <2>1. CASE Access!Step /\ UNCHANGED stagingVars
    <3>1. UNCHANGED busy BY <2>1 DEF stagingVars, LiveWork, HeldUp, Granted, Staged, Preparing
    <3>. QED BY <2>1, <3>1 DEF Access!Next
  <2>2. CASE (\E x \in Proc : Handle(x)) \/ Environment BY <2>2, StagingIsWork DEF Access!Next
  <2>3. CASE UNCHANGED vars
    BY <2>3 DEF vars, stagingVars, accessVars, Access!vars, Access!accessVars, LiveWork, HeldUp, Granted, Staged, Preparing
  <2>. QED BY <1>2, <2>1, <2>2, <2>3 DEF Next
<1>. QED BY <1>1, <1>2, PTL DEF Spec, Access!Spec

-----------------------------------------------------------------------------
(* So what is proved of the access model for every environment holds beside *)
(* the plans.  Flows is the access model with its theorems; its definitions *)
(* are those of Access, and its assumptions follow from the ones made here. *)

Flows == INSTANCE AccessProofs WITH busy <- [t \in 0..MaxClock |-> LiveWork(t)]

LEMMA SameInit == Access!Init <=> Flows!Init
BY DEF Access!Init, Flows!Init, Access!InitAccess, Flows!InitAccess, Access!Start, Flows!Start,
   Access!Unselected, Flows!Unselected, Access!NoProfile, Flows!NoProfile, Access!Idle, Flows!Idle,
   Access!Detected, Flows!Detected, Access!DetectExecutionProfile, Flows!DetectExecutionProfile,
   Access!ClassifyTestRunner, Flows!ClassifyTestRunner, Access!FirstFlaw, Flows!FirstFlaw, Access!Reasons,
   Flows!Reasons, Access!Visit, Flows!Visit, Access!Enter, Flows!Enter, Access!FollowAll, Flows!FollowAll,
   Access!Follow, Flows!Follow, Access!Refused, Flows!Refused, Access!Calls, Flows!Calls, Access!Walks,
   Flows!Walks, Access!Names, Flows!Names, Access!Callees, Flows!Callees, Access!RunnersIn, Flows!RunnersIn,
   Access!Runs, Flows!Runs, Access!Tests, Flows!Tests, Access!Unread, Flows!Unread, Access!Range, Flows!Range,
   Access!Cardinality, Flows!Cardinality, Access!SelectInSeq, Flows!SelectInSeq, Access!Min, Flows!Min

LEMMA SameNext == Access!Next <=> Flows!Next
BY DEF Access!Next, Flows!Next, Access!Step, Flows!Step, Access!Tick, Flows!Tick, Access!GitHubChanges,
   Flows!GitHubChanges, Access!WorkChanges, Flows!WorkChanges, Access!BeginInstallation,
   Flows!BeginInstallation, Access!BeginAuthorization, Flows!BeginAuthorization, Access!ContinueInstallation,
   Flows!ContinueInstallation, Access!Callback, Flows!Callback, Access!Consult, Flows!Consult, Access!Fails,
   Flows!Fails, Access!Bind, Flows!Bind, Access!Reconcile, Flows!Reconcile, Access!Select, Flows!Select,
   Access!DetectBegin, Flows!DetectBegin, Access!DetectRead, Flows!DetectRead, Access!DetectConfirm,
   Flows!DetectConfirm, Access!DetectFails, Flows!DetectFails, Access!DetectSave, Flows!DetectSave,
   Access!Attempt, Flows!Attempt, Access!Done, Flows!Done, Access!OnlyAttempts, Flows!OnlyAttempts,
   Access!OnlySelection, Flows!OnlySelection, Access!OnlyDetection, Flows!OnlyDetection, Access!Apply,
   Flows!Apply, Access!Fault, Flows!Fault, Access!SwitchConflict, Flows!SwitchConflict, Access!Public,
   Flows!Public, Access!Accepted, Flows!Accepted, Access!Bound, Flows!Bound, Access!Answer, Flows!Answer,
   Access!Write, Flows!Write, Access!Outdated, Flows!Outdated, Access!Deselects, Flows!Deselects,
   Access!Selectable, Flows!Selectable, Access!Readable, Flows!Readable, Access!Idle, Flows!Idle,
   Access!Confirmed, Flows!Confirmed, Access!Savable, Flows!Savable, Access!Unselected, Flows!Unselected,
   Access!Detected, Flows!Detected, Access!DetectExecutionProfile, Flows!DetectExecutionProfile,
   Access!ClassifyTestRunner, Flows!ClassifyTestRunner, Access!FirstFlaw, Flows!FirstFlaw, Access!Reasons,
   Flows!Reasons, Access!Visit, Flows!Visit, Access!Enter, Flows!Enter, Access!FollowAll, Flows!FollowAll,
   Access!Follow, Flows!Follow, Access!Refused, Flows!Refused, Access!Calls, Flows!Calls, Access!Walks,
   Flows!Walks, Access!Names, Flows!Names, Access!Callees, Flows!Callees, Access!RunnersIn, Flows!RunnersIn,
   Access!Runs, Flows!Runs, Access!Tests, Flows!Tests, Access!Unread, Flows!Unread, Access!Range, Flows!Range,
   Access!Cardinality, Flows!Cardinality, Access!SelectInSeq, Flows!SelectInSeq, Access!Min, Flows!Min

LEMMA SameReady == Access!ReadyIsRunnable <=> Flows!ReadyIsRunnable
BY DEF Access!ReadyIsRunnable, Flows!ReadyIsRunnable, Access!Runnable, Flows!Runnable, Access!Terminates,
   Flows!Terminates, Access!RunnersOf, Flows!RunnersOf, Access!Reach, Flows!Reach, Access!Closed, Flows!Closed,
   Access!Callees, Flows!Callees, Access!RunnersIn, Flows!RunnersIn, Access!Runs, Flows!Runs, Access!Tests,
   Flows!Tests, Access!Unread, Flows!Unread, Access!Names, Flows!Names, Access!Range, Flows!Range,
   Access!Cardinality, Flows!Cardinality

LEMMA SameFlows == Access!Spec => Flows!Spec
<1>1. Access!vars = Flows!vars /\ (Access!vars)' = (Flows!vars)'
    BY DEF Access!vars, Flows!vars, Access!accessVars, Flows!accessVars
<1>2. ASSUME [Access!Next]_(Access!vars) PROVE [Flows!Next]_(Flows!vars) BY <1>1, <1>2, SameNext
<1>. QED BY <1>2, SameInit, PTL DEF Access!Spec, Flows!Spec

LEMMA SameAssumptions ==
    Flows!NamesAssumption /\ Flows!LimitsAssumption /\ Flows!ContentAssumption /\ Flows!ClocksAssumption
<1>1. \A c \in Commit : Flows!IsManifest(Content[c])
    BY ContentAssumption
       DEF Access!IsManifest, Flows!IsManifest, Access!IsFiniteSet, Flows!IsFiniteSet, Access!Range, Flows!Range,
           Access!Reasons, Flows!Reasons, Access!Runs, Flows!Runs, Access!Tests, Flows!Tests
<1>. QED BY <1>1, AccessAssumption, ContentAssumption
         DEF Flows!NamesAssumption, Flows!LimitsAssumption, Flows!ContentAssumption, Flows!ClocksAssumption

(* Beside the plans too, a workspace that was told it is connected keeps the *)
(* installation, and a profile stored as ready is of a commit that runs.    *)
THEOREM FlowsKeepTheirPromises == Spec => [](Access!ConnectedIsBound /\ Access!ReadyIsRunnable)
<1>1. Flows!Spec => []Flows!ConnectedIsBound BY SameAssumptions, Flows!ConnectionIsKept, Zenon
<1>2. Flows!Spec => []Flows!ReadyIsRunnable BY SameAssumptions, Flows!ReadyProfilesRun, Zenon
<1>3. Flows!ConnectedIsBound => Access!ConnectedIsBound BY DEF Flows!ConnectedIsBound, Access!ConnectedIsBound
<1>4. Flows!ReadyIsRunnable => Access!ReadyIsRunnable BY SameReady
<1>. QED BY StagingImplementsAccess, SameFlows, <1>1, <1>2, <1>3, <1>4, PTL

(* What a plan that is unfinished or in force was reviewed for can be run:   *)
(* its commit's "npm test" ends, with one known runner, as long as any of its *)
(* work lasts (reviewed-plan-store.ts, switch-guard.ts and detector.ts).    *)
PlansRun == \A p \in Plan : HeldUp(p) \/ Granted(p, clock) => Access!Runnable(Content[PlanCommit[p]])

THEOREM LivePlansRun == Spec => []PlansRun
<1>1. ASSUME AuthorityStands, Access!ReadyIsRunnable PROVE PlansRun
  <2>. SUFFICES ASSUME NEW p \in Plan, HeldUp(p) \/ Granted(p, clock)
                PROVE  Access!Runnable(Content[PlanCommit[p]])
      BY DEF PlansRun
  <2>1. profile[PlanRepo[p]] = [status |-> "ready", commit |-> PlanCommit[p]]
      BY <1>1 DEF AuthorityStands, AuthorityOf
  <2>. QED BY <1>1, <2>1, PlansAssumption DEF Access!ReadyIsRunnable
<1>. QED BY <1>1, AuthorityOutlastsWork, FlowsKeepTheirPromises, PTL
=============================================================================
