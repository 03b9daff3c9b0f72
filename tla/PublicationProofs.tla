-------------------------- MODULE PublicationProofs --------------------------
(***************************************************************************)
(* What publication guarantees for every number of workers, attempts,      *)
(* redeliveries, faults and changes by others.                             *)
(***************************************************************************)
EXTENDS Publication, SequenceTheorems, FiniteSetTheorems, TLAPS

-----------------------------------------------------------------------------
(* The inductive invariant                                                 *)

(* A handler that has no attempt.                                           *)
Unclaimed == {"idle", "claim", "exhausted"}

(* Past the branch, and the checkpoints a handler saves from.               *)
BranchKnown == {"branch_verified", "pr_create_requested", "pr_verified"}

SaveFrom == {"reserved", "authority_prepared", "objects_verified",
             "branch_create_requested", "branch_verified", "pr_create_requested"}

(* Where a phase of the execution stands among the checkpoints. *)
InStep(at, cp) ==
    /\ at = "objects" => cp = "authority_prepared"
    /\ at \in {"branchLook", "branchSend", "branchReread", "branchCheck"} =>
          cp = "branch_create_requested"
    /\ at = "prAsk" => cp = "branch_verified"
    /\ at \in {"prLook", "prSend", "prRelist", "prConfirm", "prCheck"} =>
          cp = "pr_create_requested"
    /\ at = "save" => cp \in SaveFrom
    /\ at \in {"verify", "final"} => cp = "pr_verified"

(* The handler may still come to ask for the pull request.                  *)
BeforeAsk(r) ==
    \/ r.at \in {"authorize", "prepare", "objects", "branchLook", "branchSend", "branchReread",
                 "branchCheck", "prAsk", "prLook", "prSend"}
    \/ r.at = "save" /\ r.cp # "pr_create_requested"

(* No attempt is active.                                                    *)
Quiet(rows) == \A a \in 1 .. Len(rows) : rows[a].state # "active"

(* The row is as the record r has it.                                       *)
Stands(r, p) ==
    p.cp = r.cp /\ p.state = IF p.cp = "reserved" THEN "preparing" ELSE "publishing"

(* What a checkpoint says has been written was written.                     *)
Evidenced(cp, w) ==
    /\ cp \in BranchKnown \cup {"completed"} => w.branch # {}
    /\ cp \in {"pr_verified", "completed"} => w.pr # {}

(* What a handler's record r may rely on, given the attempts, the row, what  *)
(* was written, the permit and whether the gate is the test-local one.      *)
RecordOK(r, rows, p, w, permitted, free) ==
    /\ r.cp # "completed" /\ InStep(r.at, r.cp) /\ Evidenced(r.cp, w)
    /\ r.at \in Unclaimed => r.attempt = 0
    /\ r.at \notin Unclaimed => r.attempt \in 1 .. Len(rows)
    /\ r.at # "idle" => p.state # "none"
    /\ r.at = "exhausted" => /\ Len(rows) >= MaxAttempts /\ Quiet(rows)
                             /\ Stands(r, p) \/ p.state \in Terminal
    /\ r.at = "save" /\ r.cp = "branch_create_requested" => w.branch # {}
    /\ r.at = "save" /\ r.cp = "pr_create_requested" => w.pr # {}
    /\ r.at = "prSend" => r.attempt = 1
    /\ r.at \in {"branchSend", "prSend"} /\ ~free =>
          permitted.state # "none" /\ permitted.by = r.attempt
    /\ r.attempt = 1 /\ BeforeAsk(r) => w.pr = {}
    /\ r.at = "closing" /\ r.end = "none" => r.cp = "pr_verified"
    /\ r.at = "failing" => r.end # "none"
    /\ r.at = "settle" => p.state = "published"

(* Two handlers never have the same attempt.                                *)
Distinct(r, q) == r.attempt = q.attempt => r.attempt = 0

HandlersOK ==
    /\ \A h \in Handler : RecordOK(handler[h], attempts, pub, wrote, permit, harness)
    /\ \A h, g \in Handler : h # g => Distinct(handler[h], handler[g])

RowsOK ==
    /\ pub.state # "none" => decision = "approved"
    /\ job.state # "absent" => pub.state # "none"
    /\ pub.state \in {"none", "queued"} => attempts = <<>> /\ pub.cp = "reserved"
    /\ pub.state = "preparing" => pub.cp = "reserved"
    /\ pub.state = "publishing" => pub.cp # "reserved"
    /\ pub.cp = "completed" => pub.state = "published"
    /\ Evidenced(pub.cp, wrote)
    /\ \A a \in 1 .. Len(attempts) : attempts[a].state = "active" =>
          a = Len(attempts) /\ pub.state \notin Terminal
    /\ wrote.pr \subseteq {1} /\ (attempts = <<>> => wrote.pr = {})
    /\ github.branch = "ours" => wrote.branch # {}
    /\ github.prs \in {0, 1} /\ (github.prs = 1 => wrote.pr # {})
    /\ ~harness => wrote.branch \cup wrote.pr \subseteq {permit.by}
    /\ ~harness /\ permit.state = "none" => wrote.branch = {} /\ wrote.pr = {}
    /\ acceptance["draft"] = "exact" => pub.state = "published"

Inv == TypeOK /\ RowsOK /\ HandlersOK /\ OrphanedOnlyByBusy

-----------------------------------------------------------------------------
(* Checkpoints and phases                                                  *)

LEMMA Checkpoints ==
    /\ Checkpoint = {"reserved", "authority_prepared", "objects_verified",
                     "branch_create_requested", "branch_verified", "pr_create_requested",
                     "pr_verified", "completed"}
    /\ After("reserved") = "authority_prepared"
    /\ After("authority_prepared") = "objects_verified"
    /\ After("objects_verified") = "branch_create_requested"
    /\ After("branch_create_requested") = "branch_verified"
    /\ After("branch_verified") = "pr_create_requested"
    /\ After("pr_create_requested") = "pr_verified"
<1>1. DOMAIN Order = 1 .. 8
  BY DEF Order
<1>2. /\ Order[1] = "reserved" /\ Order[2] = "authority_prepared"
      /\ Order[3] = "objects_verified" /\ Order[4] = "branch_create_requested"
      /\ Order[5] = "branch_verified" /\ Order[6] = "pr_create_requested"
      /\ Order[7] = "pr_verified" /\ Order[8] = "completed"
  BY DEF Order
<1>3. \A i \in 1 .. 8 : i \in {1, 2, 3, 4, 5, 6, 7, 8}
  OBVIOUS
<1>4. Checkpoint = {Order[i] : i \in 1 .. 8}
  BY <1>1 DEF Checkpoint
<1>5. Checkpoint = {Order[1], Order[2], Order[3], Order[4], Order[5], Order[6], Order[7], Order[8]}
  BY <1>3, <1>4
<1>6. ASSUME NEW n \in 1 .. 7
      PROVE  After(Order[n]) = Order[n + 1]
  <2>1. \A i \in 1 .. 8 : Order[i] = Order[n] => i = n
    BY <1>2, <1>3
  <2>2. (CHOOSE i \in DOMAIN Order : Order[i] = Order[n]) = n
    BY <1>1, <2>1
  <2>3. QED
    BY <2>2 DEF After
<1>7. After(Order[1]) = Order[2] /\ After(Order[2]) = Order[3] /\ After(Order[3]) = Order[4]
      /\ After(Order[4]) = Order[5] /\ After(Order[5]) = Order[6] /\ After(Order[6]) = Order[7]
  BY <1>6
<1>8. QED
  BY <1>2, <1>5, <1>7

LEMMA Basics ==
    ASSUME TypeOK
    PROVE  /\ Len(attempts) \in Nat /\ DOMAIN attempts = 1 .. Len(attempts)
           /\ \A a \in 1 .. Len(attempts) : attempts[a] \in Attempt
           /\ \A h \in Handler : handler[h] \in Local
           /\ pub.state \in PublicationState /\ pub.cp \in Checkpoint
           /\ pub = [state |-> pub.state, cp |-> pub.cp]
           /\ wrote.branch \in SUBSET Nat /\ wrote.pr \in SUBSET Nat
           /\ MaxAttempts \in Nat /\ MaxAttempts > 0 /\ MaxFaults \in Nat /\ MaxChanges \in Nat
BY ConstantsAssumption DEF TypeOK

LEMMA Ready ==
    ASSUME Inv, NEW h \in Handler
    PROVE  /\ TypeOK /\ RowsOK /\ HandlersOK /\ OrphanedOnlyByBusy
           /\ handler[h] \in Local /\ RecordOK(handler[h], attempts, pub, wrote, permit, harness)
BY Basics DEF Inv, HandlersOK

(* What a step does to the rows leaves the other handlers' facts standing.  *)
Grows ==
    /\ harness' = harness
    /\ Len(attempts') \in Nat /\ Len(attempts') >= Len(attempts)
    /\ pub.state # "none" => pub'.state # "none"
    /\ pub.state \in Terminal => pub' = pub
    /\ wrote.branch \subseteq wrote'.branch /\ wrote.pr \subseteq wrote'.pr
    /\ permit.state # "none" => permit'.state # "none" /\ permit'.by = permit.by
    /\ Len(attempts) >= MaxAttempts /\ Quiet(attempts) =>
          Quiet(attempts') /\ (pub' = pub \/ pub'.state \in Terminal)

RowsUnchanged == UNCHANGED <<harness, attempts, pub, wrote, permit>>

LEMMA UnchangedGrows ==
    ASSUME Inv, RowsUnchanged
    PROVE  Grows
BY Basics DEF Grows, RowsUnchanged, Inv, Quiet

LEMMA RecordKept ==
    ASSUME Inv, Grows, NEW r \in Local, RecordOK(r, attempts, pub, wrote, permit, harness),
           r.attempt = 1 /\ BeforeAsk(r) => wrote'.pr = {}
    PROVE  RecordOK(r, attempts', pub', wrote', permit', harness')
<1>1. Len(attempts) \in Nat /\ MaxAttempts \in Nat
  BY Basics DEF Inv
<1>2. r.attempt \in Nat
  BY DEF Local
<1>3. Evidenced(r.cp, wrote')
  BY DEF Grows, RecordOK, Evidenced
<1>4. r.at \notin Unclaimed => r.attempt \in 1 .. Len(attempts')
  BY <1>1 DEF Grows, RecordOK
<1>5. r.at = "exhausted" => /\ Len(attempts') >= MaxAttempts /\ Quiet(attempts')
                            /\ Stands(r, pub') \/ pub'.state \in Terminal
  BY <1>1 DEF Grows, RecordOK
<1>6. QED
  BY <1>3, <1>4, <1>5 DEF Grows, RecordOK, Terminal

(* One handler moves to the record r, the others stay.                      *)
LEMMA HandlerMoves ==
    ASSUME Inv, Grows, NEW h \in Handler, NEW r \in Local, handler' = [handler EXCEPT ![h] = r],
           RecordOK(r, attempts', pub', wrote', permit', harness'),
           \A g \in Handler \ {h} : Distinct(r, handler[g]),
           \A g \in Handler \ {h} :
              handler[g].attempt = 1 /\ BeforeAsk(handler[g]) => wrote'.pr = {}
    PROVE  HandlersOK' /\ handler' \in [Handler -> Local]
<1>1. handler \in [Handler -> Local] /\ HandlersOK
  BY DEF Inv, TypeOK
<1>2. handler'[h] = r /\ \A g \in Handler \ {h} : handler'[g] = handler[g] /\ handler[g] \in Local
  BY <1>1
<1>3. \A g \in Handler : RecordOK(handler'[g], attempts', pub', wrote', permit', harness')
  <2>1. ASSUME NEW g \in Handler \ {h}
        PROVE  RecordOK(handler[g], attempts', pub', wrote', permit', harness')
    BY <1>1, <1>2, RecordKept DEF HandlersOK
  <2>2. QED
    BY <1>2, <2>1
<1>4. \A g, q \in Handler : g # q => Distinct(handler'[g], handler'[q])
  BY <1>1, <1>2 DEF HandlersOK, Distinct
<1>5. QED
  BY <1>1, <1>3, <1>4 DEF HandlersOK

LEMMA NobodyMoves ==
    ASSUME Inv, Grows, UNCHANGED <<handler, wrote>>
    PROVE  HandlersOK'
<1>1. \A h \in Handler : RecordOK(handler[h], attempts', pub', wrote', permit', harness')
  BY Ready, RecordKept DEF RecordOK
<1>2. QED
  BY <1>1 DEF Inv, HandlersOK

(* A handler that keeps or drops its attempt stays apart from the others.   *)
LEMMA StaysApart ==
    ASSUME Inv, NEW h \in Handler, NEW r, r.attempt = handler[h].attempt \/ r.attempt = 0
    PROVE  \A g \in Handler \ {h} : Distinct(r, handler[g])
BY DEF Inv, HandlersOK, Distinct

(* A step that changes no row, only the handler.                            *)
OnlyHandler ==
    /\ UNCHANGED <<gateVars, permit, pub, attempts, github, wrote, job, busy, changes>>
    /\ faults' \in 0 .. MaxFaults

LEMMA LocalStep ==
    ASSUME Inv, OnlyHandler, NEW h \in Handler, NEW r \in Local,
           handler' = [handler EXCEPT ![h] = r],
           r.attempt = handler[h].attempt \/ r.attempt = 0,
           RecordOK(r, attempts, pub, wrote, permit, harness)
    PROVE  Inv'
<1>1. RowsUnchanged /\ Grows
  BY UnchangedGrows DEF OnlyHandler, gateVars, RowsUnchanged
<1>2. \A g \in Handler \ {h} :
         handler[g].attempt = 1 /\ BeforeAsk(handler[g]) => wrote'.pr = {}
  BY <1>1, Ready DEF RecordOK, RowsUnchanged
<1>3. RecordOK(r, attempts', pub', wrote', permit', harness')
  BY <1>1 DEF RowsUnchanged
<1>4. HandlersOK' /\ handler' \in [Handler -> Local]
  BY <1>1, <1>2, <1>3, StaysApart, HandlerMoves
<1>5. TypeOK'
  BY <1>4 DEF Inv, TypeOK, OnlyHandler, gateVars
<1>6. RowsOK' /\ OrphanedOnlyByBusy'
  BY DEF Inv, RowsOK, OrphanedOnlyByBusy, OnlyHandler, gateVars
<1>7. QED
  BY <1>4, <1>5, <1>6 DEF Inv

(* A handler that goes on with its attempt and checkpoint as they are.      *)
Onward(r, was) ==
    /\ r.attempt = was.attempt /\ r.cp = was.cp
    /\ was.at \notin Unclaimed /\ r.at \notin Unclaimed

LEMMA OnwardStep ==
    ASSUME Inv, OnlyHandler, NEW h \in Handler, NEW r \in Local, Onward(r, handler[h]),
           handler' = [handler EXCEPT ![h] = r], InStep(r.at, r.cp),
           r.at = "save" => r.cp \notin {"branch_create_requested", "pr_create_requested"}
                            \/ (r.cp = "branch_create_requested" /\ wrote.branch # {})
                            \/ (r.cp = "pr_create_requested" /\ wrote.pr # {}),
           r.at \in {"branchSend", "prSend"} => OwnsPermit(h),
           r.at = "prSend" => r.attempt = 1,
           BeforeAsk(r) => BeforeAsk(handler[h]),
           r.at = "closing" /\ r.end = "none" => r.cp = "pr_verified",
           r.at = "failing" => r.end # "none",
           r.at # "settle"
    PROVE  Inv'
<1>1. RecordOK(r, attempts, pub, wrote, permit, harness)
  <2>1. r.at \in {"branchSend", "prSend"} /\ ~harness =>
           permit.state # "none" /\ permit.by = r.attempt
    BY DEF OwnsPermit, Onward
  <2>2. RecordOK(handler[h], attempts, pub, wrote, permit, harness) /\ r.at # "idle"
        /\ r.at # "exhausted" /\ handler[h].at # "idle" /\ handler[h].at \notin Unclaimed
    BY Ready DEF Onward, Unclaimed
  <2>3. QED
    BY <2>1, <2>2 DEF RecordOK, Onward
<1>2. QED
  BY <1>1, LocalStep DEF Onward

-----------------------------------------------------------------------------
(* Going on, leaving with an error, failing                                *)

LEMMA GotoStep ==
    ASSUME Inv, OnlyHandler, NEW h \in Handler, NEW phase \in Phase \ (Unclaimed \cup {"settle", "failing", "closing"}),
           handler[h].at \notin Unclaimed, Goto(h, phase), InStep(phase, handler[h].cp),
           phase = "save" =>
              \/ handler[h].cp \notin {"branch_create_requested", "pr_create_requested"}
              \/ handler[h].cp = "branch_create_requested" /\ wrote.branch # {}
              \/ handler[h].cp = "pr_create_requested" /\ wrote.pr # {},
           phase \in {"branchSend", "prSend"} => OwnsPermit(h),
           phase = "prSend" => handler[h].attempt = 1,
           BeforeAsk([handler[h] EXCEPT !.at = phase]) => BeforeAsk(handler[h])
    PROVE  Inv'
<1> DEFINE r == [handler[h] EXCEPT !.at = phase]
<1>1. r \in Local /\ r.at = phase /\ r.attempt = handler[h].attempt /\ r.cp = handler[h].cp
      /\ r.end = handler[h].end
  BY Ready DEF Local
<1>2. handler' = [handler EXCEPT ![h] = r]
  BY DEF Goto
<1>3. BeforeAsk(r) => BeforeAsk(handler[h])
  OBVIOUS
<1> HIDE DEF r
<1>4. Onward(r, handler[h])
  BY <1>1 DEF Onward
<1>5. QED
  BY <1>1, <1>2, <1>3, <1>4, OnwardStep

LEMMA LeaveStep ==
    ASSUME Inv, OnlyHandler, NEW h \in Handler, NEW end \in Disposition,
           handler[h].at \notin Unclaimed, Leave(h, end),
           end = "none" => handler[h].cp = "pr_verified"
    PROVE  Inv'
<1> DEFINE r == [handler[h] EXCEPT !.at = "closing", !.end = end]
<1>1. r \in Local /\ r.at = "closing" /\ r.attempt = handler[h].attempt /\ r.cp = handler[h].cp
      /\ r.end = end
  BY Ready DEF Local, Phase
<1>2. handler' = [handler EXCEPT ![h] = r]
  BY DEF Leave
<1> HIDE DEF r
<1>3. Onward(r, handler[h])
  BY <1>1 DEF Onward, Unclaimed
<1>4. ~BeforeAsk(r) /\ InStep(r.at, r.cp)
  BY <1>1 DEF BeforeAsk, InStep
<1>5. QED
  BY <1>1, <1>2, <1>3, <1>4, OnwardStep

LEMMA ThrowStep ==
    ASSUME Inv, OnlyHandler, NEW h \in Handler, NEW end \in Disposition \ {"none"},
           handler[h].at \notin Unclaimed, Throw(h, end)
    PROVE  Inv'
<1> DEFINE r == [handler[h] EXCEPT !.at = "failing", !.end = end]
<1>1. r \in Local /\ r.at = "failing" /\ r.attempt = handler[h].attempt /\ r.cp = handler[h].cp
      /\ r.end = end
  BY Ready DEF Local, Phase
<1>2. handler' = [handler EXCEPT ![h] = r]
  BY DEF Throw
<1> HIDE DEF r
<1>3. Onward(r, handler[h])
  BY <1>1 DEF Onward, Unclaimed
<1>4. ~BeforeAsk(r) /\ InStep(r.at, r.cp)
  BY <1>1 DEF BeforeAsk, InStep
<1>5. QED
  BY <1>1, <1>2, <1>3, <1>4, OnwardStep

(* Execute leaves with an error only with one of these.                     *)
Refused(h) == \E end \in Disposition \ {"none"} : Leave(h, end)

LEMMA RefusedStep ==
    ASSUME Inv, OnlyHandler, NEW h \in Handler, handler[h].at \notin Unclaimed, Refused(h)
    PROVE  Inv'
BY LeaveStep DEF Refused

-----------------------------------------------------------------------------
(* Executing, without a write                                              *)

Frame == UNCHANGED <<gateVars, permit, attempts, job, busy, faults, changes>>

LEMMA FrameOnly ==
    ASSUME Inv, Frame, UNCHANGED <<pub, github, wrote>>
    PROVE  OnlyHandler
BY DEF Inv, TypeOK, Frame, OnlyHandler

LEMMA PrepareStep ==
    ASSUME Inv, NEW h \in Handler, Prepare(h), Frame
    PROVE  Inv'
<1> DEFINE cp == handler[h].cp
<1>1. OnlyHandler /\ handler[h].at = "prepare" /\ handler[h].at \notin Unclaimed
  BY FrameOnly DEF Prepare, Running, Unclaimed
<1>2. Refused(h) \/ Goto(h, PhaseOf(cp))
  BY DEF Prepare, MutationAuthority, Check, Refused, Disposition
<1>3. cp \in Checkpoint \ {"completed"}
  BY Ready DEF Local, RecordOK
<1>4. ASSUME Goto(h, PhaseOf(cp))
      PROVE  Inv'
  <2>1. /\ PhaseOf(cp) \in {"save", "objects", "branchLook", "prAsk", "prLook", "verify"}
        /\ InStep(PhaseOf(cp), cp)
        /\ PhaseOf(cp) = "save" => cp \in {"reserved", "objects_verified"}
    BY <1>3, Checkpoints DEF PhaseOf, InStep, SaveFrom
  <2>2. BeforeAsk(handler[h])
    BY <1>1 DEF BeforeAsk
  <2>3. PhaseOf(cp) \in Phase \ (Unclaimed \cup {"settle", "failing", "closing"})
    BY <2>1 DEF Phase, Unclaimed
  <2>4. QED
    BY <1>1, <1>4, <2>1, <2>2, <2>3, GotoStep
<1>5. QED
  BY <1>1, <1>2, <1>4, RefusedStep

LEMMA ObjectsStep ==
    ASSUME Inv, NEW h \in Handler, Objects(h), Frame
    PROVE  Inv'
<1>1. OnlyHandler /\ handler[h].at = "objects" /\ handler[h].at \notin Unclaimed
      /\ handler[h].cp = "authority_prepared"
  BY FrameOnly, Ready DEF Objects, Running, Unclaimed, RecordOK, InStep
<1>2. Refused(h) \/ Goto(h, "save")
  BY DEF Objects, Revalidate, MutationAuthority, Check, Refused, Disposition
<1>3. InStep("save", handler[h].cp) /\ BeforeAsk(handler[h])
      /\ "save" \in Phase \ (Unclaimed \cup {"settle", "failing", "closing"})
  BY <1>1 DEF InStep, SaveFrom, BeforeAsk, Phase, Unclaimed
<1>4. QED
  BY <1>1, <1>2, <1>3, GotoStep, RefusedStep

LEMMA BranchLookStep ==
    ASSUME Inv, NEW h \in Handler, BranchLook(h), Frame
    PROVE  Inv'
<1>1. OnlyHandler /\ handler[h].at = "branchLook" /\ handler[h].at \notin Unclaimed
      /\ handler[h].cp = "branch_create_requested"
  BY FrameOnly, Ready DEF BranchLook, Running, Unclaimed, RecordOK, InStep
<1>2. \/ Refused(h)
      \/ Goto(h, "branchSend") /\ OwnsPermit(h)
      \/ Goto(h, "save") /\ github.branch = "ours"
  BY DEF BranchLook, Revalidate, MutationAuthority, Check, Refused, Disposition
<1>3. /\ InStep("save", handler[h].cp) /\ InStep("branchSend", handler[h].cp)
      /\ BeforeAsk(handler[h])
      /\ {"save", "branchSend"} \subseteq Phase \ (Unclaimed \cup {"settle", "failing", "closing"})
  BY <1>1 DEF InStep, SaveFrom, BeforeAsk, Phase, Unclaimed
<1>4. github.branch = "ours" => wrote.branch # {}
  BY DEF Inv, RowsOK
<1>5. QED
  BY <1>1, <1>2, <1>3, <1>4, GotoStep, RefusedStep

LEMMA BranchRereadStep ==
    ASSUME Inv, NEW h \in Handler, BranchReread(h), Frame
    PROVE  Inv'
<1>1. OnlyHandler /\ handler[h].at = "branchReread" /\ handler[h].at \notin Unclaimed
      /\ handler[h].cp = "branch_create_requested"
  BY FrameOnly, Ready DEF BranchReread, Running, Unclaimed, RecordOK, InStep
<1>2. Refused(h) \/ Goto(h, "branchCheck")
  BY DEF BranchReread, Check, Refused, Disposition
<1>3. InStep("branchCheck", handler[h].cp) /\ BeforeAsk(handler[h])
      /\ "branchCheck" \in Phase \ (Unclaimed \cup {"settle", "failing", "closing"})
  BY <1>1 DEF InStep, BeforeAsk, Phase, Unclaimed
<1>4. QED
  BY <1>1, <1>2, <1>3, GotoStep, RefusedStep

LEMMA BranchCheckStep ==
    ASSUME Inv, NEW h \in Handler, BranchCheck(h), Frame
    PROVE  Inv'
<1>1. OnlyHandler /\ handler[h].at = "branchCheck" /\ handler[h].at \notin Unclaimed
      /\ handler[h].cp = "branch_create_requested"
  BY FrameOnly, Ready DEF BranchCheck, Running, Unclaimed, RecordOK, InStep
<1>2. Refused(h) \/ (Goto(h, "save") /\ github.branch = "ours")
  BY DEF BranchCheck, Revalidate, MutationAuthority, Check, Refused, Disposition
<1>3. InStep("save", handler[h].cp) /\ BeforeAsk(handler[h])
      /\ "save" \in Phase \ (Unclaimed \cup {"settle", "failing", "closing"})
  BY <1>1 DEF InStep, SaveFrom, BeforeAsk, Phase, Unclaimed
<1>4. github.branch = "ours" => wrote.branch # {}
  BY DEF Inv, RowsOK
<1>5. QED
  BY <1>1, <1>2, <1>3, <1>4, GotoStep, RefusedStep

LEMMA PrAskStep ==
    ASSUME Inv, NEW h \in Handler, PrAsk(h), Frame
    PROVE  Inv'
<1>1. OnlyHandler /\ handler[h].at = "prAsk" /\ handler[h].at \notin Unclaimed
      /\ handler[h].cp = "branch_verified"
  BY FrameOnly, Ready DEF PrAsk, Running, Unclaimed, RecordOK, InStep
<1>2. Refused(h) \/ Goto(h, "save")
  BY DEF PrAsk, Check, Refused, Disposition
<1>3. InStep("save", handler[h].cp) /\ BeforeAsk(handler[h])
      /\ "save" \in Phase \ (Unclaimed \cup {"settle", "failing", "closing"})
  BY <1>1 DEF InStep, SaveFrom, BeforeAsk, Phase, Unclaimed
<1>4. QED
  BY <1>1, <1>2, <1>3, GotoStep, RefusedStep

LEMMA PrLookStep ==
    ASSUME Inv, NEW h \in Handler, PrLook(h), Frame
    PROVE  Inv'
<1>1. OnlyHandler /\ handler[h].at = "prLook" /\ handler[h].at \notin Unclaimed
      /\ handler[h].cp = "pr_create_requested"
  BY FrameOnly, Ready DEF PrLook, Running, Unclaimed, RecordOK, InStep
<1>2. \/ Refused(h)
      \/ Goto(h, "prCheck")
      \/ Goto(h, "prSend") /\ OwnsPermit(h) /\ handler[h].attempt = 1
  BY DEF PrLook, Revalidate, MutationAuthority, Check, Refused, Disposition
<1>3. /\ InStep("prCheck", handler[h].cp) /\ InStep("prSend", handler[h].cp)
      /\ BeforeAsk(handler[h])
      /\ {"prCheck", "prSend"} \subseteq Phase \ (Unclaimed \cup {"settle", "failing", "closing"})
  BY <1>1 DEF InStep, BeforeAsk, Phase, Unclaimed
<1>4. QED
  BY <1>1, <1>2, <1>3, GotoStep, RefusedStep

LEMMA PrRelistStep ==
    ASSUME Inv, NEW h \in Handler, PrRelist(h), Frame
    PROVE  Inv'
<1>1. OnlyHandler /\ handler[h].at = "prRelist" /\ handler[h].at \notin Unclaimed
      /\ handler[h].cp = "pr_create_requested"
  BY FrameOnly, Ready DEF PrRelist, Running, Unclaimed, RecordOK, InStep
<1>2. Refused(h) \/ Goto(h, "prConfirm")
  BY DEF PrRelist, Check, Refused, Disposition
<1>3. InStep("prConfirm", handler[h].cp) /\ ~BeforeAsk([handler[h] EXCEPT !.at = "prConfirm"])
      /\ "prConfirm" \in Phase \ (Unclaimed \cup {"settle", "failing", "closing"})
  BY <1>1, Ready DEF InStep, BeforeAsk, Phase, Unclaimed, Local
<1>4. QED
  BY <1>1, <1>2, <1>3, GotoStep, RefusedStep

LEMMA PrConfirmStep ==
    ASSUME Inv, NEW h \in Handler, PrConfirm(h), Frame
    PROVE  Inv'
<1>1. OnlyHandler /\ handler[h].at = "prConfirm" /\ handler[h].at \notin Unclaimed
      /\ handler[h].cp = "pr_create_requested"
  BY FrameOnly, Ready DEF PrConfirm, Running, Unclaimed, RecordOK, InStep
<1>2. Refused(h) \/ Goto(h, "prCheck")
  BY DEF PrConfirm, Revalidate, MutationAuthority, Check, Refused, Disposition
<1>3. InStep("prCheck", handler[h].cp) /\ ~BeforeAsk([handler[h] EXCEPT !.at = "prCheck"])
      /\ "prCheck" \in Phase \ (Unclaimed \cup {"settle", "failing", "closing"})
  BY <1>1, Ready DEF InStep, BeforeAsk, Phase, Unclaimed, Local
<1>4. QED
  BY <1>1, <1>2, <1>3, GotoStep, RefusedStep

LEMMA PrCheckStep ==
    ASSUME Inv, NEW h \in Handler, PrCheck(h), Frame
    PROVE  Inv'
<1>1. OnlyHandler /\ handler[h].at = "prCheck" /\ handler[h].at \notin Unclaimed
      /\ handler[h].cp = "pr_create_requested"
  BY FrameOnly, Ready DEF PrCheck, Running, Unclaimed, RecordOK, InStep
<1>2. Refused(h) \/ (Goto(h, "save") /\ github.prs = 1)
  BY DEF PrCheck, Check, Refused, Disposition, OursExact
<1>3. InStep("save", handler[h].cp) /\ ~BeforeAsk([handler[h] EXCEPT !.at = "save"])
      /\ "save" \in Phase \ (Unclaimed \cup {"settle", "failing", "closing"})
  BY <1>1, Ready DEF InStep, SaveFrom, BeforeAsk, Phase, Unclaimed, Local
<1>4. github.prs = 1 => wrote.pr # {}
  BY DEF Inv, RowsOK
<1>5. QED
  BY <1>1, <1>2, <1>3, <1>4, GotoStep, RefusedStep

LEMMA VerifyStep ==
    ASSUME Inv, NEW h \in Handler, Verify(h), Frame
    PROVE  Inv'
<1>1. OnlyHandler /\ handler[h].at = "verify" /\ handler[h].at \notin Unclaimed
      /\ handler[h].cp = "pr_verified"
  BY FrameOnly, Ready DEF Verify, Running, Unclaimed, RecordOK, InStep
<1>2. Refused(h) \/ Leave(h, "none")
  BY DEF Verify, Revalidate, MutationAuthority, Check, Refused, Disposition
<1>3. "none" \in Disposition
  BY DEF Disposition
<1>4. QED
  BY <1>1, <1>2, <1>3, LeaveStep, RefusedStep

-----------------------------------------------------------------------------
(* Faults and the closing of the token                                     *)

LEMMA FaultOnly ==
    ASSUME Inv, Fault, UNCHANGED <<gateVars, permit, pub, attempts, github, wrote, job, busy, changes>>
    PROVE  OnlyHandler
<1>1. faults \in 0 .. MaxFaults /\ MaxFaults \in Nat
  BY Basics DEF Inv, TypeOK
<1>2. faults' \in 0 .. MaxFaults
  BY <1>1 DEF Fault
<1>3. QED
  BY <1>2 DEF OnlyHandler

LEMMA CallFailsStep ==
    ASSUME Inv, NEW h \in Handler, CallFails(h)
    PROVE  Inv'
<1>1. OnlyHandler /\ handler[h].at \notin Unclaimed
  BY FaultOnly DEF CallFails, Running, Reading, Resolving, Unclaimed
<1>2. Refused(h) \/ \E end \in Disposition \ {"none"} : Throw(h, end)
  BY DEF CallFails, Refused, Disposition
<1>3. QED
  BY <1>1, <1>2, RefusedStep, ThrowStep

LEMMA CloseStep ==
    ASSUME Inv, NEW h \in Handler, Close(h)
    PROVE  Inv'
<1>1. OnlyHandler
  BY FaultOnly DEF Close, Inv, TypeOK, OnlyHandler
<1>2. handler[h].at = "closing" /\ handler[h].at \notin Unclaimed
  BY DEF Close, Running, Unclaimed
<1>3. \/ Goto(h, IF handler[h].end = "none" THEN "final" ELSE "failing")
      \/ \E end \in Disposition \ {"none"} : Throw(h, end)
  BY DEF Close, Disposition
<1>4. ASSUME Goto(h, IF handler[h].end = "none" THEN "final" ELSE "failing")
      PROVE  Inv'
  <2>1. CASE handler[h].end = "none"
    <3>1. Goto(h, "final") /\ handler[h].cp = "pr_verified"
      BY <1>2, <1>4, <2>1, Ready DEF RecordOK
    <3>2. InStep("final", handler[h].cp) /\ ~BeforeAsk([handler[h] EXCEPT !.at = "final"])
          /\ "final" \in Phase \ (Unclaimed \cup {"settle", "failing", "closing"})
      BY <3>1, Ready DEF InStep, BeforeAsk, Phase, Unclaimed, Local
    <3>3. QED
      BY <1>1, <1>2, <3>1, <3>2, GotoStep
  <2>2. CASE handler[h].end # "none"
    <3> DEFINE end == handler[h].end
               r == [handler[h] EXCEPT !.at = "failing"]
    <3>1. r \in Local /\ r.at = "failing" /\ r.attempt = handler[h].attempt
          /\ r.cp = handler[h].cp /\ r.end # "none"
      BY <2>2, Ready DEF Local, Phase
    <3>2. handler' = [handler EXCEPT ![h] = r]
      BY <1>4, <2>2 DEF Goto
    <3> HIDE DEF r
    <3>3. Onward(r, handler[h]) /\ ~BeforeAsk(r) /\ InStep(r.at, r.cp)
      BY <1>2, <3>1 DEF Onward, Unclaimed, BeforeAsk, InStep
    <3>4. QED
      BY <1>1, <3>1, <3>2, <3>3, OnwardStep
  <2>3. QED
    BY <2>1, <2>2
<1>5. QED
  BY <1>1, <1>2, <1>3, <1>4, ThrowStep

LEMMA PauseStep ==
    ASSUME Inv, NEW h \in Handler, NEW paused \in BOOLEAN, OnlyHandler,
           handler' = [handler EXCEPT ![h].stalled = paused]
    PROVE  Inv'
<1> DEFINE r == [handler[h] EXCEPT !.stalled = paused]
<1>1. r \in Local /\ r.at = handler[h].at /\ r.attempt = handler[h].attempt
      /\ r.cp = handler[h].cp /\ r.end = handler[h].end
  BY Ready DEF Local
<1>2. handler' = [handler EXCEPT ![h] = r]
  OBVIOUS
<1> HIDE DEF r
<1>3. BeforeAsk(r) <=> BeforeAsk(handler[h])
  BY <1>1 DEF BeforeAsk
<1>4. RecordOK(r, attempts, pub, wrote, permit, harness)
  BY <1>1, <1>3, Ready DEF RecordOK, Stands
<1>5. QED
  BY <1>1, <1>2, <1>4, LocalStep

LEMMA StallStep ==
    ASSUME Inv, NEW h \in Handler, Stall(h) \/ Resume(h)
    PROVE  Inv'
<1>1. OnlyHandler
  BY FaultOnly DEF Stall, Resume, Inv, TypeOK, OnlyHandler
<1>2. QED
  BY <1>1, PauseStep DEF Stall, Resume

LEMMA IdleOK ==
    /\ Idle \in Local /\ Idle.attempt = 0 /\ ~BeforeAsk(Idle)
    /\ \A rows, p, w, permitted, free : RecordOK(Idle, rows, p, w, permitted, free)
<1>1. Idle \in Local /\ Idle.attempt = 0
  BY Checkpoints DEF Idle, Local, Phase, Disposition
<1>2. ~BeforeAsk(Idle)
  BY DEF Idle, BeforeAsk
<1>3. \A rows, p, w, permitted, free : RecordOK(Idle, rows, p, w, permitted, free)
  BY DEF Idle, RecordOK, InStep, Evidenced, BranchKnown, BeforeAsk, Unclaimed
<1>4. QED
  BY <1>1, <1>2, <1>3

LEMMA CrashStep ==
    ASSUME Inv, NEW h \in Handler, Crash(h)
    PROVE  Inv'
<1>1. OnlyHandler
  BY FaultOnly DEF Crash
<1>2. QED
  BY <1>1, IdleOK, LocalStep DEF Crash

-----------------------------------------------------------------------------
(* The steps that change the rows                                          *)

LEMMA AuthorizeStep ==
    ASSUME Inv, NEW h \in Handler, Authorize(h)
    PROVE  Inv'
<1>1. handler[h].at = "authorize" /\ handler[h].at \notin Unclaimed
  BY DEF Authorize, Running, Unclaimed
<1>2. CASE UNCHANGED permit
  <2>1. OnlyHandler
    BY <1>2 DEF Authorize, Inv, TypeOK, OnlyHandler
  <2>2. Goto(h, "prepare") \/ \E end \in Disposition \ {"none"} : Throw(h, end)
    BY DEF Authorize, Disposition
  <2>3. InStep("prepare", handler[h].cp) /\ BeforeAsk(handler[h])
        /\ "prepare" \in Phase \ (Unclaimed \cup {"settle", "failing", "closing"})
    BY <1>1 DEF InStep, BeforeAsk, Phase, Unclaimed
  <2>4. QED
    BY <1>1, <2>1, <2>2, <2>3, GotoStep, ThrowStep
<1>3. CASE /\ permit.state = "none" /\ Goto(h, "prepare")
           /\ permit' = [state |-> "active", by |-> handler[h].attempt, live |-> TRUE]
  <2> DEFINE r == [handler[h] EXCEPT !.at = "prepare"]
  <2>1. r \in Local /\ r.at = "prepare" /\ r.attempt = handler[h].attempt
        /\ r.cp = handler[h].cp /\ r.end = handler[h].end /\ handler[h].attempt \in Nat
    BY Ready DEF Local, Phase
  <2>2. handler' = [handler EXCEPT ![h] = r]
    BY <1>3 DEF Goto
  <2> HIDE DEF r
  <2>3. UNCHANGED <<harness, pub, attempts, wrote>> /\ permit' \in Permit
    BY <1>3, <2>1 DEF Authorize, gateVars, Permit
  <2>4. Grows
    BY <1>3, <2>3, Basics DEF Grows, Inv
  <2>5. BeforeAsk(handler[h])
    BY <1>1 DEF BeforeAsk
  <2>6. RecordOK(r, attempts', pub', wrote', permit', harness')
    BY <1>1, <2>1, <2>3, <2>5, Ready DEF RecordOK, InStep, Unclaimed
  <2>7. \A g \in Handler \ {h} : handler[g].attempt = 1 /\ BeforeAsk(handler[g]) => wrote'.pr = {}
    BY <2>3, Ready DEF RecordOK
  <2>8. HandlersOK' /\ handler' \in [Handler -> Local]
    BY <2>1, <2>2, <2>4, <2>6, <2>7, StaysApart, HandlerMoves
  <2>9. TypeOK'
    BY <2>3, <2>8 DEF Inv, TypeOK, Authorize, gateVars
  <2>10. RowsOK' /\ OrphanedOnlyByBusy'
    BY <1>3, <2>3 DEF Inv, RowsOK, OrphanedOnlyByBusy, Authorize, gateVars
  <2>11. QED
    BY <2>8, <2>9, <2>10 DEF Inv
<1>4. QED
  BY <1>2, <1>3 DEF Authorize

(* An owner's attempt is the active one, of a publication that is not over.  *)
LEMMA Owner ==
    ASSUME Inv, NEW h \in Handler, Owns(h)
    PROVE  /\ handler[h].attempt \in 1 .. Len(attempts) /\ ~Quiet(attempts)
           /\ handler[h].attempt = Len(attempts)
           /\ pub.state \notin Terminal \cup {"none", "queued"} /\ attempts # <<>>
           /\ attempts[handler[h].attempt].state = "active"
<1>1. handler[h].attempt \in 1 .. Len(attempts) /\ attempts[handler[h].attempt].state = "active"
  BY Basics DEF Owns, Inv
<1>2. Len(attempts) \in Nat /\ pub.state \notin Terminal /\ handler[h].attempt = Len(attempts)
  BY <1>1, Basics DEF Inv, RowsOK
<1>3. attempts # <<>>
  BY <1>1
<1>4. QED
  BY <1>1, <1>2, <1>3 DEF Quiet, Inv, RowsOK

LEMMA SaveStep ==
    ASSUME Inv, NEW h \in Handler, Save(h), Frame
    PROVE  Inv'
<1>1. handler[h].at = "save" /\ handler[h].at \notin Unclaimed
  BY DEF Save, Running, Unclaimed
<1>2. CASE Leave(h, "retryable") /\ UNCHANGED pub
  <2>1. OnlyHandler /\ Refused(h)
    BY <1>2, FrameOnly DEF Save, Refused, Disposition
  <2>2. QED
    BY <1>1, <2>1, RefusedStep
<1>3. CASE /\ Owns(h) /\ Unmoved(h)
           /\ pub' = [state |-> "publishing", cp |-> After(pub.cp)]
           /\ handler' = [handler EXCEPT ![h].cp = After(pub.cp), ![h].at = PhaseOf(After(pub.cp))]
  <2> DEFINE cp == After(pub.cp)
             r == [handler[h] EXCEPT !.cp = cp, !.at = PhaseOf(cp)]
  <2>1. handler[h].cp = pub.cp /\ pub.cp \in SaveFrom
    BY <1>1, <1>3, Ready DEF Unmoved, RecordOK, InStep
  <2>2. /\ cp \in Checkpoint \ {"reserved", "completed"}
        /\ PhaseOf(cp) \in {"save", "objects", "branchLook", "prAsk", "prLook", "verify"}
        /\ InStep(PhaseOf(cp), cp)
        /\ PhaseOf(cp) = "save" => cp = "objects_verified"
    BY <2>1, Checkpoints DEF SaveFrom, PhaseOf, InStep
  <2>3. Evidenced(cp, wrote)
    BY <1>1, <2>1, Checkpoints, Ready DEF SaveFrom, RecordOK, Evidenced, BranchKnown
  <2>4. r \in Local /\ r.at = PhaseOf(cp) /\ r.attempt = handler[h].attempt
        /\ r.cp = cp /\ r.end = handler[h].end
    BY <2>2, Ready DEF Local, Phase
  <2>5. handler' = [handler EXCEPT ![h] = r] /\ pub' = [state |-> "publishing", cp |-> cp]
    BY <1>3
  <2>6. BeforeAsk(r) => BeforeAsk(handler[h])
    BY <1>1, <2>1, <2>2, <2>4, Checkpoints DEF BeforeAsk, PhaseOf
  <2> HIDE DEF r, cp
  <2>7. UNCHANGED <<gateVars, permit, attempts, github, wrote, job, busy, faults, changes>>
    BY DEF Save, Frame
  <2>8. Grows
    BY <1>3, <2>5, <2>7, Owner, Basics DEF Grows, Inv, gateVars
  <2>9. RecordOK(r, attempts', pub', wrote', permit', harness')
    BY <1>1, <2>2, <2>3, <2>4, <2>5, <2>6, <2>7, Ready DEF RecordOK, Unclaimed, gateVars
  <2>10. \A g \in Handler \ {h} : handler[g].attempt = 1 /\ BeforeAsk(handler[g]) => wrote'.pr = {}
    BY <2>7, Ready DEF RecordOK
  <2>11. HandlersOK' /\ handler' \in [Handler -> Local]
    BY <2>4, <2>5, <2>8, <2>9, <2>10, StaysApart, HandlerMoves
  <2>12. TypeOK'
    BY <2>2, <2>5, <2>7, <2>11 DEF Inv, TypeOK, gateVars, PublicationState
  <2>13. OrphanedOnlyByBusy'
    BY <1>3, <2>7, Owner DEF Inv, OrphanedOnlyByBusy
  <2>14. RowsOK'
    BY <1>3, <2>2, <2>3, <2>5, <2>7, Owner DEF Inv, RowsOK, gateVars, Terminal
  <2>15. QED
    BY <2>11, <2>12, <2>13, <2>14 DEF Inv
<1>4. QED
  BY <1>2, <1>3 DEF Save

(* GitHub takes a request of a handler.                                     *)
WriteFrame ==
    /\ UNCHANGED <<gateVars, permit, pub, attempts, job, busy, changes>>
    /\ faults' \in 0 .. MaxFaults

LEMMA BranchWritten ==
    ASSUME Inv, NEW h \in Handler, handler[h].at = "branchSend", WriteFrame,
           wrote' = [wrote EXCEPT !.branch = @ \cup {handler[h].attempt}],
           github' = [github EXCEPT !.branch = IF @ = "none" THEN "ours" ELSE @],
           NEW phase \in {"branchCheck", "branchReread"}, Goto(h, phase)
    PROVE  Inv'
<1> DEFINE a == handler[h].attempt
           r == [handler[h] EXCEPT !.at = phase]
<1>1. r \in Local /\ r.at = phase /\ r.attempt = a /\ r.cp = handler[h].cp
      /\ r.end = handler[h].end /\ a \in Nat
  BY Ready DEF Local, Phase
<1>2. handler' = [handler EXCEPT ![h] = r]
  BY DEF Goto
<1> HIDE DEF r
<1>3. /\ wrote' \in [branch : SUBSET Nat, pr : SUBSET Nat] /\ wrote'.pr = wrote.pr
      /\ wrote'.branch = wrote.branch \cup {a}
  BY <1>1 DEF Inv, TypeOK
<1>4. /\ github' \in GitHub /\ github'.prs = github.prs
      /\ github'.branch \in {"ours", github.branch}
  BY DEF Inv, TypeOK, GitHub
<1>5. UNCHANGED <<gateVars, harness, acceptance, permit, pub, attempts, job, busy, changes>>
  BY DEF WriteFrame, gateVars
<1>6. Grows
  BY <1>3, <1>5, Basics DEF Grows, Inv
<1>7. RecordOK(handler[h], attempts, pub, wrote, permit, harness)
      /\ handler[h].cp = "branch_create_requested"
  BY Ready DEF RecordOK, InStep
<1>8. BeforeAsk(handler[h])
  BY DEF BeforeAsk
<1>9. RecordOK(r, attempts', pub', wrote', permit', harness')
  <2>1. Evidenced(r.cp, wrote')
    BY <1>1, <1>3, <1>7 DEF RecordOK, Evidenced
  <2>2. InStep(r.at, r.cp)
    BY <1>1, <1>7 DEF InStep
  <2>3. r.attempt \in 1 .. Len(attempts')
    BY <1>1, <1>5, <1>7 DEF RecordOK, Unclaimed
  <2>4. QED
    BY <1>1, <1>3, <1>5, <1>7, <1>8, <2>1, <2>2, <2>3 DEF RecordOK, Unclaimed
<1>10. \A g \in Handler \ {h} : handler[g].attempt = 1 /\ BeforeAsk(handler[g]) => wrote'.pr = {}
  BY <1>3, Ready DEF RecordOK
<1>11. HandlersOK' /\ handler' \in [Handler -> Local]
  BY <1>1, <1>2, <1>6, <1>9, <1>10, StaysApart, HandlerMoves
<1>12. TypeOK'
  BY <1>3, <1>4, <1>11 DEF Inv, TypeOK, WriteFrame, gateVars
<1>13. OrphanedOnlyByBusy'
  BY <1>5 DEF Inv, OrphanedOnlyByBusy
<1>14. ~harness => permit.state # "none" /\ permit.by = a
  BY <1>7 DEF RecordOK
<1>15. RowsOK'
  <2>1. Evidenced(pub.cp, wrote')
    BY <1>3 DEF Inv, RowsOK, Evidenced
  <2>2. QED
    BY <1>3, <1>4, <1>5, <1>14, <2>1 DEF Inv, RowsOK, WriteFrame, gateVars
<1>16. QED
  BY <1>11, <1>12, <1>13, <1>15 DEF Inv

LEMMA PullRequestAsked ==
    ASSUME Inv, NEW h \in Handler, handler[h].at = "prSend", WriteFrame,
           wrote' = [wrote EXCEPT !.pr = @ \cup {handler[h].attempt}], github' = Opened,
           NEW phase \in {"prRelist", "prConfirm"}, Goto(h, phase)
    PROVE  Inv' /\ wrote.pr = {} /\ wrote.branch # {}
<1> DEFINE a == handler[h].attempt
           r == [handler[h] EXCEPT !.at = phase]
<1>1. r \in Local /\ r.at = phase /\ r.attempt = a /\ r.cp = handler[h].cp
      /\ r.end = handler[h].end /\ a \in Nat
  BY Ready DEF Local, Phase
<1>2. handler' = [handler EXCEPT ![h] = r]
  BY DEF Goto
<1> HIDE DEF r
<1>3. BeforeAsk(handler[h])
  BY DEF BeforeAsk
<1>4. RecordOK(handler[h], attempts, pub, wrote, permit, harness)
      /\ handler[h].cp = "pr_create_requested" /\ a = 1 /\ wrote.pr = {}
  BY <1>3, Ready DEF RecordOK, InStep
<1>5. /\ wrote' \in [branch : SUBSET Nat, pr : SUBSET Nat] /\ wrote'.pr = {1}
      /\ wrote'.branch = wrote.branch /\ wrote.branch # {}
  BY <1>1, <1>4 DEF Inv, TypeOK, RecordOK, Evidenced, BranchKnown
<1>6. github.prs = 0
  BY <1>4 DEF Inv, RowsOK
<1>7. /\ github' \in GitHub /\ github'.prs \in {0, 1} /\ github'.branch = github.branch
  <2>1. github \in GitHub /\ github' \in {github, [github EXCEPT !.prs = @ + 1], [github EXCEPT !.foreign = TRUE]}
    BY DEF Inv, TypeOK, Opened
  <2>2. github.prs + 1 = 1
    BY <1>6
  <2>3. CASE github' = github
    BY <1>6, <2>1, <2>3
  <2>4. CASE github' = [github EXCEPT !.prs = @ + 1]
    BY <1>6, <2>1, <2>2, <2>4 DEF GitHub
  <2>5. CASE github' = [github EXCEPT !.foreign = TRUE]
    BY <1>6, <2>1, <2>5 DEF GitHub
  <2>6. QED
    BY <2>1, <2>3, <2>4, <2>5
<1>8. UNCHANGED <<gateVars, harness, acceptance, permit, pub, attempts, job, busy, changes>>
  BY DEF WriteFrame, gateVars
<1>9. Grows
  BY <1>4, <1>5, <1>8, Basics DEF Grows, Inv
<1>10. RecordOK(r, attempts', pub', wrote', permit', harness')
  <2>1. Evidenced(r.cp, wrote') /\ InStep(r.at, r.cp) /\ ~BeforeAsk(r)
    BY <1>1, <1>4, <1>5 DEF RecordOK, Evidenced, InStep, BeforeAsk
  <2>2. r.attempt \in 1 .. Len(attempts')
    BY <1>1, <1>4, <1>8 DEF RecordOK, Unclaimed
  <2>3. QED
    BY <1>1, <1>4, <1>8, <2>1, <2>2 DEF RecordOK, Unclaimed
<1>11. \A g \in Handler \ {h} : handler[g].attempt # 1
  BY <1>4 DEF Inv, HandlersOK, Distinct
<1>12. HandlersOK' /\ handler' \in [Handler -> Local]
  BY <1>1, <1>2, <1>9, <1>10, <1>11, StaysApart, HandlerMoves
<1>13. TypeOK'
  BY <1>5, <1>7, <1>12 DEF Inv, TypeOK, WriteFrame, gateVars
<1>14. OrphanedOnlyByBusy'
  BY <1>8 DEF Inv, OrphanedOnlyByBusy
<1>15. ~harness => permit.state # "none" /\ permit.by = 1
  BY <1>4 DEF RecordOK
<1>16. attempts # <<>>
  BY <1>4 DEF RecordOK, Unclaimed
<1>17. RowsOK'
  <2>1. Evidenced(pub.cp, wrote')
    BY <1>5 DEF Inv, RowsOK, Evidenced
  <2>2. wrote'.pr = {1} /\ wrote'.pr \subseteq {1} /\ wrote'.pr # {}
    BY <1>5
  <2>3. ~harness => wrote'.branch \cup wrote'.pr \subseteq {permit.by}
    BY <1>5, <1>15 DEF Inv, RowsOK
  <2>4. ~harness' => wrote'.branch \cup wrote'.pr \subseteq {permit'.by}
    BY <1>8, <2>3
  <2>5. ~(~harness' /\ permit'.state = "none") /\ attempts' # <<>>
    BY <1>8, <1>15, <1>16
  <2>6. github'.branch = "ours" => wrote'.branch # {}
    BY <1>5
  <2>7. QED
    BY <1>7, <1>8, <2>1, <2>2, <2>4, <2>5, <2>6 DEF Inv, RowsOK, gateVars
<1>18. QED
  BY <1>4, <1>5, <1>12, <1>13, <1>14, <1>17 DEF Inv

LEMMA BranchSendStep ==
    ASSUME Inv, NEW h \in Handler, BranchSend(h), Frame
    PROVE  Inv'
<1>1. WriteFrame /\ handler[h].at = "branchSend"
  BY DEF BranchSend, Running, Frame, WriteFrame, Inv, TypeOK
<1>2. \E phase \in {"branchCheck", "branchReread"} : Goto(h, phase)
  BY DEF BranchSend
<1>3. QED
  BY <1>1, <1>2, BranchWritten DEF BranchSend

LEMMA PrSendStep ==
    ASSUME Inv, NEW h \in Handler, PrSend(h), Frame
    PROVE  Inv'
<1>1. WriteFrame /\ handler[h].at = "prSend"
  BY DEF PrSend, Running, Frame, WriteFrame, Inv, TypeOK
<1>2. \E phase \in {"prRelist", "prConfirm"} : Goto(h, phase)
  BY DEF PrSend
<1>3. QED
  BY <1>1, <1>2, PullRequestAsked DEF PrSend

LEMMA AnswerLostFrame ==
    ASSUME Inv, NEW h \in Handler, AnswerLost(h)
    PROVE  /\ WriteFrame
           /\ \/ /\ handler[h].at = "branchSend" /\ Goto(h, "branchReread")
                 /\ \/ /\ github' = [github EXCEPT !.branch = IF @ = "none" THEN "ours" ELSE @]
                       /\ wrote' = [wrote EXCEPT !.branch = @ \cup {handler[h].attempt}]
                    \/ OnlyHandler
              \/ /\ handler[h].at = "prSend" /\ Goto(h, "prRelist")
                 /\ \/ /\ github' = Opened
                       /\ wrote' = [wrote EXCEPT !.pr = @ \cup {handler[h].attempt}]
                    \/ OnlyHandler
<1>1. WriteFrame
  <2>1. faults \in 0 .. MaxFaults /\ MaxFaults \in Nat
    BY Basics DEF Inv, TypeOK
  <2>2. QED
    BY <2>1 DEF AnswerLost, Fault, WriteFrame
<1>2. QED
  BY <1>1 DEF AnswerLost, Running, WriteFrame, OnlyHandler

LEMMA AnswerLostStep ==
    ASSUME Inv, NEW h \in Handler, AnswerLost(h)
    PROVE  Inv'
<1>1. CASE OnlyHandler /\ handler[h].at = "branchSend" /\ Goto(h, "branchReread")
  <2>1. handler[h].at \notin Unclaimed /\ BeforeAsk(handler[h])
        /\ InStep("branchReread", handler[h].cp)
        /\ "branchReread" \in Phase \ (Unclaimed \cup {"settle", "failing", "closing"})
    BY <1>1, Ready DEF RecordOK, InStep, BeforeAsk, Unclaimed, Phase
  <2>2. QED
    BY <1>1, <2>1, GotoStep
<1>2. CASE OnlyHandler /\ handler[h].at = "prSend" /\ Goto(h, "prRelist")
  <2>1. handler[h].at \notin Unclaimed /\ BeforeAsk(handler[h])
        /\ InStep("prRelist", handler[h].cp)
        /\ "prRelist" \in Phase \ (Unclaimed \cup {"settle", "failing", "closing"})
    BY <1>2, Ready DEF RecordOK, InStep, BeforeAsk, Unclaimed, Phase
  <2>2. QED
    BY <1>2, <2>1, GotoStep
<1>3. QED
  BY <1>1, <1>2, AnswerLostFrame, BranchWritten, PullRequestAsked

-----------------------------------------------------------------------------
(* Claiming                                                                *)

LEMMA AbandonedRows ==
    ASSUME TypeOK
    PROVE  /\ Abandoned \in Seq(Attempt) /\ Len(Abandoned) = Len(attempts)
           /\ \A a \in 1 .. Len(attempts) : Abandoned[a].state # "active"
           /\ Quiet(Abandoned)
<1>1. Len(attempts) \in Nat /\ DOMAIN attempts = 1 .. Len(attempts)
      /\ \A a \in 1 .. Len(attempts) : attempts[a] \in Attempt
  BY Basics
<1>2. [state |-> "abandoned", live |-> FALSE] \in Attempt
  BY DEF Attempt
<1>3. Abandoned \in [1 .. Len(attempts) -> Attempt]
  BY <1>1, <1>2 DEF Abandoned
<1>4. Abandoned \in Seq(Attempt) /\ Len(Abandoned) = Len(attempts)
  BY <1>1, <1>3, IsASeq
<1>5. \A a \in 1 .. Len(attempts) : Abandoned[a].state # "active"
  BY <1>1 DEF Abandoned, Active
<1>6. QED
  BY <1>4, <1>5 DEF Quiet

(* A job's answer, and what it does to the deliveries.                      *)
LEMMA SettledJob ==
    ASSUME Inv, NEW status, Settled(status)
    PROVE  /\ job' \in Job
           /\ job'.state # "absent" => job.state # "absent"
           /\ status # "completed" => (job'.state = "completed" <=> job.state = "completed")
<1>1. job \in Job
  BY DEF Inv, TypeOK
<1>2. \/ job' = job
      \/ status = "completed" /\ job.state = "active" /\ job' = [job EXCEPT !.state = "completed"]
      \/ status # "completed" /\ job.state = "active"
         /\ job' \in {[job EXCEPT !.state = "retry", !.retries = @ + 1], [job EXCEPT !.state = "failed"]}
  BY DEF Settled
<1>3. job.retries + 1 \in Nat
  BY <1>1 DEF Job
<1>4. QED
  BY <1>1, <1>2, <1>3 DEF Job

LEMMA ClaimNothingStep ==
    ASSUME Inv, NEW h \in Handler, Claim(h), ClaimNothing(h)
    PROVE  Inv'
<1>1. /\ UNCHANGED <<gateVars, harness, permit, pub, attempts, github, wrote, faults, changes>>
      /\ handler' = [handler EXCEPT ![h] = Idle] /\ Settled("completed")
  BY DEF Claim, ClaimNothing, Reply, gateVars
<1>2. job' \in Job /\ (job'.state # "absent" => job.state # "absent")
  BY <1>1, SettledJob
<1>3. Grows
  BY <1>1, UnchangedGrows DEF RowsUnchanged
<1>4. \A g \in Handler \ {h} : handler[g].attempt = 1 /\ BeforeAsk(handler[g]) => wrote'.pr = {}
  BY <1>1, Ready DEF RecordOK
<1>5. HandlersOK' /\ handler' \in [Handler -> Local]
  BY <1>1, <1>3, <1>4, IdleOK, StaysApart, HandlerMoves
<1>6. busy \in BOOLEAN /\ busy' = (busy \/ pub.state \notin Terminal)
  BY DEF ClaimNothing, Inv, TypeOK
<1>7. TypeOK'
  BY <1>1, <1>2, <1>5, <1>6 DEF Inv, TypeOK, gateVars
<1>8. RowsOK'
  BY <1>1, <1>2 DEF Inv, RowsOK, gateVars
<1>9. OrphanedOnlyByBusy'
  BY <1>1, <1>6 DEF OrphanedOnlyByBusy
<1>10. QED
  BY <1>5, <1>7, <1>8, <1>9 DEF Inv

LEMMA ClaimedRow ==
    ASSUME Inv, NEW h \in Handler, Claim(h)
    PROVE  /\ handler[h].at = "claim" /\ pub.state # "none"
           /\ UNCHANGED <<gateVars, harness, acceptance, permit, github, wrote, faults, changes>>
           /\ \A g \in Handler \ {h} :
                 handler[g].attempt = 1 /\ BeforeAsk(handler[g]) => wrote'.pr = {}
<1>1. handler[h].at = "claim"
      /\ UNCHANGED <<gateVars, harness, acceptance, permit, github, wrote, faults, changes>>
  BY DEF Claim, Running, gateVars
<1>2. pub.state # "none"
  BY <1>1, Ready DEF RecordOK
<1>3. QED
  BY <1>1, <1>2, Ready DEF RecordOK

LEMMA ClaimExhaustedStep ==
    ASSUME Inv, NEW h \in Handler, Claim(h), ClaimExhausted(h)
    PROVE  Inv'
<1> DEFINE r == [handler[h] EXCEPT !.at = "exhausted", !.cp = pub.cp]
<1>1. r \in Local /\ r.at = "exhausted" /\ r.cp = pub.cp /\ r.attempt = handler[h].attempt
  BY Basics, Ready DEF Local, Phase
<1>2. handler' = [handler EXCEPT ![h] = r] /\ UNCHANGED <<pub, job, busy>>
      /\ attempts' = Abandoned /\ Len(attempts) >= MaxAttempts /\ pub.state \notin Terminal
  BY DEF ClaimExhausted
<1> HIDE DEF r
<1>3. /\ attempts' \in Seq(Attempt) /\ Len(attempts') = Len(attempts) /\ Len(attempts) \in Nat
      /\ Quiet(attempts') /\ MaxAttempts \in Nat /\ MaxAttempts > 0
  BY <1>2, AbandonedRows, Basics DEF Inv
<1>4. Grows
  BY <1>2, <1>3, ClaimedRow DEF Grows, Inv
<1>5. attempts # <<>> /\ pub.state \in {"preparing", "publishing"} /\ pub.cp # "completed"
  <2>1. attempts # <<>>
    BY <1>2, <1>3
  <2>2. QED
    BY <1>2, <2>1, Basics, ClaimedRow DEF Inv, RowsOK, PublicationState, Terminal
<1>6. Stands(r, pub)
  BY <1>1, <1>5, Basics DEF Stands, Inv, RowsOK
<1>7. RecordOK(r, attempts', pub', wrote', permit', harness')
  <2>1. Evidenced(r.cp, wrote') /\ InStep(r.at, r.cp) /\ ~BeforeAsk(r)
    BY <1>1, ClaimedRow DEF Inv, RowsOK, InStep, BeforeAsk
  <2>2. r.attempt = 0
    BY <1>1, ClaimedRow, Ready DEF RecordOK, Unclaimed
  <2>3. QED
    BY <1>1, <1>2, <1>3, <1>5, <1>6, <2>1, <2>2 DEF RecordOK, Unclaimed
<1>8. HandlersOK' /\ handler' \in [Handler -> Local]
  BY <1>1, <1>2, <1>4, <1>7, ClaimedRow, StaysApart, HandlerMoves
<1>9. TypeOK'
  BY <1>2, <1>3, <1>8, ClaimedRow DEF Inv, TypeOK, gateVars
<1>10. OrphanedOnlyByBusy'
  BY <1>2 DEF Inv, OrphanedOnlyByBusy
<1>11. RowsOK'
  <2>1. attempts' # <<>>
    BY <1>3, <1>2
  <2>2. QED
    BY <1>2, <1>3, <1>5, <2>1, ClaimedRow DEF Inv, RowsOK, gateVars, Quiet
<1>12. QED
  BY <1>8, <1>9, <1>10, <1>11 DEF Inv

LEMMA ClaimAttemptStep ==
    ASSUME Inv, NEW h \in Handler, Claim(h), ClaimAttempt(h)
    PROVE  Inv'
<1> DEFINE n == Len(attempts)
           x == [state |-> "active", live |-> TRUE]
           r == [handler[h] EXCEPT !.at = "authorize", !.cp = pub.cp, !.attempt = n + 1]
<1>1. n \in Nat /\ n < MaxAttempts /\ MaxAttempts \in Nat /\ pub.state \notin Terminal
      /\ UNCHANGED <<job, busy>>
  BY Basics DEF ClaimAttempt, Inv
<1>2. r \in Local /\ r.at = "authorize" /\ r.cp = pub.cp /\ r.attempt = n + 1
  <2>1. n + 1 \in Nat /\ pub.cp \in Checkpoint /\ "authorize" \in Phase
    BY <1>1, Basics DEF Inv, Phase
  <2> HIDE DEF n
  <2>2. QED
    BY <2>1, Ready DEF Local
<1>3. handler' = [handler EXCEPT ![h] = r] /\ attempts' = Append(Abandoned, x)
      /\ pub' = [pub EXCEPT !.state = IF @ = "queued" THEN "preparing" ELSE @]
  BY DEF ClaimAttempt
<1>4. x \in Attempt /\ x.state = "active"
  BY DEF Attempt
<1> HIDE DEF r, x
<1>5. /\ attempts' \in Seq(Attempt) /\ Len(attempts') = n + 1
      /\ \A a \in 1 .. n : attempts'[a].state # "active"
  BY <1>1, <1>3, <1>4, AbandonedRows DEF Inv
<1>6. /\ pub'.cp = pub.cp /\ pub'.state \in {"preparing", "publishing"}
      /\ pub.state \in {"queued", "preparing", "publishing"}
      /\ pub'.state = IF pub.state = "queued" THEN "preparing" ELSE pub.state
      /\ pub' \in [state : PublicationState, cp : Checkpoint]
  BY <1>1, <1>3, Basics, ClaimedRow DEF Inv, TypeOK, PublicationState, Terminal
<1>7. Grows
  BY <1>1, <1>5, <1>6, ClaimedRow DEF Grows, Terminal
<1>8. RecordOK(r, attempts', pub', wrote', permit', harness')
  <2>1. r.cp # "completed" /\ Evidenced(r.cp, wrote') /\ InStep(r.at, r.cp)
    BY <1>2, <1>6, ClaimedRow DEF Inv, RowsOK, InStep
  <2>2. r.attempt = 1 => wrote'.pr = {}
    <3>1. r.attempt = 1 => attempts = <<>>
      BY <1>1, <1>2 DEF Inv, TypeOK
    <3>2. QED
      BY <3>1, ClaimedRow DEF Inv, RowsOK
  <2>3. r.attempt \in 1 .. Len(attempts')
    BY <1>1, <1>2, <1>5
  <2>4. QED
    BY <1>2, <1>6, <2>1, <2>2, <2>3 DEF RecordOK, Unclaimed
<1>9. \A g \in Handler \ {h} : Distinct(r, handler[g])
  <2>1. \A g \in Handler : handler[g].attempt = 0 \/ handler[g].attempt \in 1 .. n
    BY Ready DEF RecordOK
  <2>2. QED
    BY <1>1, <1>2, <2>1 DEF Distinct
<1>10. HandlersOK' /\ handler' \in [Handler -> Local]
  BY <1>2, <1>3, <1>7, <1>8, <1>9, ClaimedRow, HandlerMoves
<1>11. TypeOK'
  BY <1>1, <1>5, <1>6, <1>10, ClaimedRow DEF Inv, TypeOK, gateVars
<1>12. OrphanedOnlyByBusy'
  BY <1>1, <1>6 DEF Inv, OrphanedOnlyByBusy, Terminal
<1>13. RowsOK'
  <2>1. \A a \in 1 .. Len(attempts') : attempts'[a].state = "active" =>
           a = Len(attempts') /\ pub'.state \notin Terminal
    BY <1>1, <1>5, <1>6 DEF Terminal
  <2>2. attempts' # <<>>
    BY <1>1, <1>5
  <2>3. QED
    BY <1>1, <1>6, <2>1, <2>2, ClaimedRow DEF Inv, RowsOK, gateVars
<1>14. QED
  BY <1>10, <1>11, <1>12, <1>13 DEF Inv

LEMMA ClaimStep ==
    ASSUME Inv, NEW h \in Handler, Claim(h)
    PROVE  Inv'
BY ClaimNothingStep, ClaimExhaustedStep, ClaimAttemptStep DEF Claim

-----------------------------------------------------------------------------
(* Answering a delivery                                                    *)

LEMMA ReplyMoves ==
    ASSUME Inv, Grows, UNCHANGED wrote, NEW h \in Handler, NEW status, Reply(h, status)
    PROVE  /\ HandlersOK' /\ handler' \in [Handler -> Local]
           /\ job' \in Job
           /\ job'.state # "absent" => job.state # "absent"
           /\ status # "completed" => (job'.state = "completed" <=> job.state = "completed")
<1>1. handler' = [handler EXCEPT ![h] = Idle] /\ Settled(status)
  BY DEF Reply
<1>2. \A g \in Handler \ {h} : handler[g].attempt = 1 /\ BeforeAsk(handler[g]) => wrote'.pr = {}
  BY Ready DEF RecordOK
<1>3. HandlersOK' /\ handler' \in [Handler -> Local]
  BY <1>1, <1>2, IdleOK, StaysApart, HandlerMoves
<1>4. QED
  BY <1>1, <1>3, SettledJob

LEMMA ExhaustStep ==
    ASSUME Inv, NEW h \in Handler, Exhaust(h)
    PROVE  Inv' /\ pub'.state \in Terminal /\ (pub' = pub \/ pub.state \notin Terminal)
<1>1. /\ UNCHANGED <<gateVars, harness, acceptance, permit, attempts, github, wrote, busy, faults, changes>>
      /\ pub' = IF Unmoved(h) THEN [pub EXCEPT !.state = "failed"] ELSE pub
      /\ Reply(h, "completed") /\ handler[h].at = "exhausted"
  BY DEF Exhaust, Running, gateVars
<1>2. /\ Quiet(attempts) /\ (Stands(handler[h], pub) \/ pub.state \in Terminal)
      /\ Stands(handler[h], pub) <=> Unmoved(h)
      /\ handler[h].cp # "completed" /\ pub.state # "none"
  BY <1>1, Ready DEF RecordOK, Stands, Unmoved
<1>3. /\ pub' \in [state : PublicationState, cp : Checkpoint] /\ pub'.cp = pub.cp
      /\ pub'.state \in Terminal
      /\ pub.state \in Terminal => pub' = pub
      /\ pub' # pub => pub.cp # "completed" /\ pub'.state = "failed"
  BY <1>1, <1>2, Basics DEF Inv, TypeOK, Stands, Terminal, PublicationState
<1>4. Grows
  BY <1>1, <1>2, <1>3, Basics DEF Grows, Terminal, Inv
<1>5. HandlersOK' /\ handler' \in [Handler -> Local] /\ job' \in Job
      /\ (job'.state # "absent" => job.state # "absent")
  BY <1>1, <1>4, ReplyMoves
<1>6. TypeOK'
  BY <1>1, <1>3, <1>5 DEF Inv, TypeOK, gateVars
<1>7. OrphanedOnlyByBusy'
  BY <1>3 DEF OrphanedOnlyByBusy
<1>8. RowsOK'
  <2>1. \A a \in 1 .. Len(attempts') : attempts'[a].state # "active"
    BY <1>1, <1>2 DEF Quiet
  <2>2. acceptance'["draft"] = "exact" => pub'.state = "published"
    BY <1>1, <1>3 DEF Inv, RowsOK, Terminal
  <2>3. pub'.cp = "completed" => pub'.state = "published"
    BY <1>3 DEF Inv, RowsOK
  <2>4. pub'.state \notin {"none", "queued", "preparing", "publishing"} /\ pub.state # "none"
    BY <1>2, <1>3 DEF Terminal
  <2>5. QED
    BY <1>1, <1>3, <2>1, <2>2, <2>3, <2>4 DEF Inv, RowsOK, gateVars
<1>9. QED
  BY <1>3, <1>5, <1>6, <1>7, <1>8 DEF Inv

LEMMA ClosedRows ==
    ASSUME Inv, NEW h \in Handler, Owns(h), NEW state \in {"failed", "succeeded"}
    PROVE  LET rows == Closed(handler[h].attempt, state)
           IN  rows \in Seq(Attempt) /\ Len(rows) = Len(attempts) /\ rows # <<>> /\ Quiet(rows)
<1> DEFINE n == Len(attempts)
           x == [state |-> state, live |-> FALSE]
           rows == [attempts EXCEPT ![n] = x]
<1>1. n \in Nat /\ n \in 1 .. n /\ attempts \in Seq(Attempt)
  BY Owner, Basics DEF Inv, TypeOK
<1>2. x \in Attempt /\ x.state # "active"
  BY DEF Attempt
<1>3. Closed(handler[h].attempt, state) = rows
  BY Owner DEF Closed
<1> HIDE DEF x
<1>4. rows \in Seq(Attempt) /\ Len(rows) = n /\ \A a \in 1 .. n : rows[a] = IF a = n THEN x ELSE attempts[a]
  BY <1>1, <1>2, ExceptSeq
<1> HIDE DEF rows
<1>5. Quiet(rows)
  BY <1>1, <1>2, <1>4 DEF Quiet, Inv, RowsOK
<1>6. rows # <<>>
  BY <1>1, <1>4
<1>7. QED
  BY <1>3, <1>4, <1>5, <1>6

LEMMA PublishStep ==
    ASSUME Inv, NEW h \in Handler, Final(h), Owns(h), UNCHANGED faults,
           pub' = [state |-> "published", cp |-> "completed"],
           attempts' = Closed(handler[h].attempt, "succeeded"), Goto(h, "settle")
    PROVE  Inv' /\ wrote.pr # {}
<1> DEFINE r == [handler[h] EXCEPT !.at = "settle"]
<1>1. r \in Local /\ r.at = "settle" /\ r.attempt = handler[h].attempt /\ r.cp = handler[h].cp
      /\ r.end = handler[h].end
  BY Ready DEF Local, Phase
<1>2. handler' = [handler EXCEPT ![h] = r]
  BY DEF Goto
<1> HIDE DEF r
<1>3. UNCHANGED <<gateVars, harness, acceptance, permit, github, wrote, job, busy, changes>>
      /\ handler[h].at = "final"
  BY DEF Final, Running, gateVars
<1>4. RecordOK(handler[h], attempts, pub, wrote, permit, harness) /\ handler[h].cp = "pr_verified"
  BY <1>3, Ready DEF RecordOK, InStep
<1>5. wrote.branch # {} /\ wrote.pr # {}
  BY <1>4 DEF RecordOK, Evidenced, BranchKnown
<1>6. attempts' \in Seq(Attempt) /\ Len(attempts') = Len(attempts) /\ attempts' # <<>> /\ Quiet(attempts')
  BY ClosedRows
<1>7. Grows
  BY <1>3, <1>6, Owner, Basics DEF Grows, Inv
<1>8. RecordOK(r, attempts', pub', wrote', permit', harness')
  <2>1. Evidenced(r.cp, wrote') /\ InStep(r.at, r.cp) /\ ~BeforeAsk(r)
    BY <1>1, <1>3, <1>4 DEF RecordOK, InStep, BeforeAsk
  <2>2. r.attempt \in 1 .. Len(attempts')
    BY <1>1, <1>6, Owner
  <2>3. QED
    BY <1>1, <1>4, <2>1, <2>2 DEF RecordOK, Unclaimed
<1>9. \A g \in Handler \ {h} : handler[g].attempt = 1 /\ BeforeAsk(handler[g]) => wrote'.pr = {}
  BY <1>3, Ready DEF RecordOK
<1>10. HandlersOK' /\ handler' \in [Handler -> Local]
  BY <1>1, <1>2, <1>7, <1>8, <1>9, StaysApart, HandlerMoves
<1>11. pub' \in [state : PublicationState, cp : Checkpoint]
  BY Checkpoints DEF PublicationState, Terminal
<1>12. TypeOK'
  BY <1>3, <1>6, <1>10, <1>11 DEF Inv, TypeOK, gateVars
<1>13. OrphanedOnlyByBusy'
  BY DEF OrphanedOnlyByBusy, Terminal
<1>14. RowsOK'
  <2>1. \A a \in 1 .. Len(attempts') : attempts'[a].state # "active"
    BY <1>6 DEF Quiet
  <2>2. Evidenced(pub'.cp, wrote')
    BY <1>3, <1>5 DEF Evidenced
  <2>3. decision = "approved"
    BY Owner DEF Inv, RowsOK
  <2>4. QED
    BY <1>3, <1>6, <2>1, <2>2, <2>3 DEF Inv, RowsOK, gateVars
<1>15. QED
  BY <1>5, <1>10, <1>12, <1>13, <1>14 DEF Inv

LEMMA FinalCases ==
    ASSUME Inv, NEW h \in Handler, Final(h)
    PROVE  \/ /\ Owns(h) /\ UNCHANGED faults
              /\ pub' = [state |-> "published", cp |-> "completed"]
              /\ attempts' = Closed(handler[h].attempt, "succeeded") /\ Goto(h, "settle")
           \/ /\ OnlyHandler /\ \E end \in Disposition \ {"none"} : Throw(h, end)
              /\ handler[h].at \notin Unclaimed
<1>1. handler[h].at \notin Unclaimed
  BY DEF Final, Running, Unclaimed
<1>2. CASE UNCHANGED <<pub, attempts>> /\ (Fault \/ UNCHANGED faults)
           /\ \E end \in Disposition \ {"none"} : Throw(h, end)
  <2>1. OnlyHandler
    BY <1>2, FaultOnly DEF Final, Inv, TypeOK, OnlyHandler
  <2>2. QED
    BY <1>1, <1>2, <2>1
<1>3. QED
  BY <1>2 DEF Final, Disposition

LEMMA FinalStep ==
    ASSUME Inv, NEW h \in Handler, Final(h)
    PROVE  Inv'
BY FinalCases, PublishStep, ThrowStep

(* A permit that is completed stays its attempt's.                          *)
PermitClosed ==
    /\ permit' \in Permit /\ permit'.by = permit.by
    /\ permit.state # "none" <=> permit'.state # "none"

LEMMA PermitEnds ==
    ASSUME Inv, NEW h \in Handler, NEW state \in {"succeeded", "ambiguous"},
           permit' = IF ~harness /\ OwnsPermit(h)
                     THEN [permit EXCEPT !.state = state, !.live = FALSE] ELSE permit
    PROVE  PermitClosed
<1>1. permit \in Permit
  BY DEF Inv, TypeOK
<1>2. CASE ~harness /\ OwnsPermit(h)
  <2>1. permit.state = "active"
    BY <1>2 DEF OwnsPermit
  <2>2. QED
    BY <1>1, <1>2, <2>1 DEF Permit, PermitClosed
<1>3. QED
  BY <1>1, <1>2 DEF PermitClosed

LEMMA SettleStep ==
    ASSUME Inv, NEW h \in Handler, Settle(h)
    PROVE  Inv'
<1>1. /\ UNCHANGED <<gateVars, harness, acceptance, pub, attempts, github, wrote, busy, faults, changes>>
      /\ Reply(h, IF OwnsPermit(h) THEN "completed" ELSE "failed")
      /\ handler[h].at = "settle"
  BY DEF Settle, Running, gateVars
<1>2. PermitClosed
  BY PermitEnds DEF Settle
<1>3. pub.state \in Terminal
  BY <1>1, Ready DEF RecordOK, Terminal
<1>4. Grows
  BY <1>1, <1>2, Basics DEF Grows, Inv, PermitClosed
<1>5. HandlersOK' /\ handler' \in [Handler -> Local] /\ job' \in Job
      /\ (job'.state # "absent" => job.state # "absent")
  BY <1>1, <1>4, ReplyMoves
<1>6. TypeOK'
  BY <1>1, <1>2, <1>5 DEF Inv, TypeOK, gateVars, PermitClosed
<1>7. OrphanedOnlyByBusy' /\ RowsOK'
  BY <1>1, <1>2, <1>3, <1>5 DEF Inv, RowsOK, OrphanedOnlyByBusy, gateVars, PermitClosed
<1>8. QED
  BY <1>5, <1>6, <1>7 DEF Inv

LEMMA FailStep ==
    ASSUME Inv, NEW h \in Handler, Fail(h)
    PROVE  Inv' /\ (pub' = pub \/ (pub.state \notin Terminal \cup {"none"}
                                   /\ pub'.state \in {"failed", "review_required"}))
<1> DEFINE status == IF Owns(h) /\ handler[h].end # "retryable" THEN "completed" ELSE "failed"
<1>1. /\ UNCHANGED <<gateVars, harness, acceptance, github, wrote, busy, faults, changes>>
      /\ Reply(h, status) /\ handler[h].at = "failing"
      /\ attempts' = IF Owns(h) THEN Closed(handler[h].attempt, "failed") ELSE attempts
      /\ pub' = IF Owns(h) /\ handler[h].end # "retryable"
                THEN [pub EXCEPT !.state = handler[h].end] ELSE pub
  BY DEF Fail, Running, gateVars
<1>2. PermitClosed
  BY PermitEnds DEF Fail
<1>3. handler[h].end \in {"failed", "review_required", "retryable"}
  BY <1>1, Ready DEF Local, Disposition, RecordOK
<1>4. /\ attempts' \in Seq(Attempt) /\ Len(attempts') = Len(attempts)
      /\ Quiet(attempts) => Quiet(attempts') /\ pub' = pub
      /\ pub' # pub => Quiet(attempts')
      /\ attempts' = attempts \/ Quiet(attempts')
      /\ attempts' = <<>> <=> attempts = <<>>
  <2>1. CASE Owns(h)
    BY <1>1, <2>1, ClosedRows, Owner
  <2>2. CASE ~Owns(h)
    BY <1>1, <2>2 DEF Inv, TypeOK
  <2>3. QED
    BY <2>1, <2>2
<1>5. /\ pub' \in [state : PublicationState, cp : Checkpoint] /\ pub'.cp = pub.cp
      /\ \/ pub' = pub /\ status # "completed"
         \/ /\ pub.state \notin Terminal \cup {"none", "queued"} /\ attempts # <<>>
            /\ pub'.state \in {"failed", "review_required"}
  <2>1. CASE Owns(h) /\ handler[h].end # "retryable"
    BY <1>1, <1>3, <2>1, Owner, Basics DEF Inv, TypeOK, PublicationState, Terminal
  <2>2. CASE ~(Owns(h) /\ handler[h].end # "retryable")
    BY <1>1, <2>2 DEF Inv, TypeOK
  <2>3. QED
    BY <2>1, <2>2
<1> HIDE DEF status
<1>6. Grows
  BY <1>1, <1>2, <1>4, <1>5, Basics DEF Grows, Inv, PermitClosed, Terminal
<1>7. HandlersOK' /\ handler' \in [Handler -> Local] /\ job' \in Job
      /\ (job'.state # "absent" => job.state # "absent")
      /\ (status # "completed" => (job'.state = "completed" <=> job.state = "completed"))
  BY <1>1, <1>6, ReplyMoves
<1>8. TypeOK'
  BY <1>1, <1>2, <1>4, <1>5, <1>7 DEF Inv, TypeOK, gateVars, PermitClosed
<1>9. OrphanedOnlyByBusy'
  BY <1>1, <1>5, <1>7 DEF Inv, OrphanedOnlyByBusy, Terminal
<1>10. RowsOK'
  <2>1. \A a \in 1 .. Len(attempts') : attempts'[a].state = "active" =>
           a = Len(attempts') /\ pub'.state \notin Terminal
    BY <1>4, <1>5 DEF Inv, RowsOK, Quiet
  <2>2. /\ pub'.state # "none" <=> pub.state # "none"
        /\ pub'.state \in {"none", "queued"} => attempts' = <<>> /\ pub'.cp = "reserved"
        /\ pub'.state = "preparing" => pub'.cp = "reserved"
        /\ pub'.state = "publishing" => pub'.cp # "reserved"
        /\ pub'.cp = "completed" => pub'.state = "published"
    BY <1>4, <1>5 DEF Inv, RowsOK, Terminal
  <2>3. acceptance'["draft"] = "exact" => pub'.state = "published"
    BY <1>1, <1>5 DEF Inv, RowsOK, Terminal
  <2>4. Evidenced(pub'.cp, wrote') /\ (attempts' = <<>> => wrote'.pr = {})
    BY <1>1, <1>4, <1>5 DEF Inv, RowsOK
  <2>5. QED
    BY <1>1, <1>2, <1>7, <2>1, <2>2, <2>3, <2>4 DEF Inv, RowsOK, gateVars, PermitClosed
<1>11. QED
  BY <1>5, <1>7, <1>8, <1>9, <1>10 DEF Inv

-----------------------------------------------------------------------------
(* The queue, the leases and what others do                                *)

LEMMA DeliverStep ==
    ASSUME Inv, NEW h \in Handler, Deliver(h)
    PROVE  Inv'
<1> DEFINE r == [handler[h] EXCEPT !.at = "claim"]
<1>1. r \in Local /\ r.at = "claim" /\ r.attempt = handler[h].attempt /\ r.cp = handler[h].cp
  BY Ready DEF Local, Phase
<1>2. handler' = [handler EXCEPT ![h] = r]
  BY DEF Deliver, Goto
<1> HIDE DEF r
<1>3. UNCHANGED <<gateVars, harness, acceptance, permit, pub, attempts, github, wrote, busy, faults, changes>>
      /\ handler[h].at = "idle" /\ job.state # "absent"
      /\ job' = [job EXCEPT !.state = "active", !.holder = h]
  BY DEF Deliver, gateVars
<1>4. job' \in Job /\ job'.state = "active"
  BY <1>3 DEF Inv, TypeOK, Job
<1>5. Grows
  BY <1>3, UnchangedGrows DEF RowsUnchanged
<1>6. RecordOK(r, attempts', pub', wrote', permit', harness')
  <2>1. ~BeforeAsk(r) /\ InStep(r.at, r.cp)
    BY <1>1 DEF BeforeAsk, InStep
  <2>2. pub.state # "none"
    BY <1>3 DEF Inv, RowsOK
  <2>3. QED
    BY <1>1, <1>3, <2>1, <2>2, Ready DEF RecordOK, Unclaimed
<1>7. \A g \in Handler \ {h} : handler[g].attempt = 1 /\ BeforeAsk(handler[g]) => wrote'.pr = {}
  BY <1>3, Ready DEF RecordOK
<1>8. HandlersOK' /\ handler' \in [Handler -> Local]
  BY <1>1, <1>2, <1>5, <1>6, <1>7, StaysApart, HandlerMoves
<1>9. TypeOK'
  BY <1>3, <1>4, <1>8 DEF Inv, TypeOK, gateVars
<1>10. RowsOK' /\ OrphanedOnlyByBusy'
  BY <1>3, <1>4 DEF Inv, RowsOK, OrphanedOnlyByBusy, gateVars
<1>11. QED
  BY <1>8, <1>9, <1>10 DEF Inv

LEMMA LapseStep ==
    ASSUME Inv, Lapse
    PROVE  Inv'
<1>1. UNCHANGED <<gateVars, harness, acceptance, pub, github, wrote, handler, job, busy, faults, changes>>
  BY DEF Lapse, gateVars
<1>2. PermitClosed
  <2>1. permit \in Permit
    BY DEF Inv, TypeOK
  <2>2. QED
    BY <2>1 DEF Lapse, PermitClosed, Permit
<1>3. /\ attempts' \in Seq(Attempt) /\ Len(attempts') = Len(attempts) /\ Len(attempts) \in Nat
      /\ \A a \in 1 .. Len(attempts) : attempts'[a].state = attempts[a].state
  <2>1. CASE UNCHANGED attempts
    BY <2>1, Basics DEF Inv, TypeOK
  <2>2. ASSUME NEW a \in LiveActive, attempts' = [attempts EXCEPT ![a].live = FALSE]
        PROVE  <1>3!1 /\ <1>3!2
    <3> DEFINE x == [attempts[a] EXCEPT !.live = FALSE]
    <3>1. a \in 1 .. Len(attempts) /\ attempts \in Seq(Attempt) /\ Len(attempts) \in Nat
      BY Basics DEF LiveActive, Active, Inv, TypeOK
    <3>2. x \in Attempt /\ x.state = attempts[a].state
      BY <3>1, Basics DEF Attempt, Inv
    <3>3. attempts' = [attempts EXCEPT ![a] = x]
      BY <2>2
    <3> HIDE DEF x
    <3>4. attempts' \in Seq(Attempt) /\ Len(attempts') = Len(attempts)
          /\ \A b \in 1 .. Len(attempts) : attempts'[b] = IF b = a THEN x ELSE attempts[b]
      BY <3>1, <3>2, <3>3, ExceptSeq
    <3>5. QED
      BY <3>1, <3>2, <3>4
  <2>3. QED
    BY <2>1, <2>2 DEF Lapse
<1>4. Quiet(attempts') <=> Quiet(attempts)
  BY <1>3 DEF Quiet
<1>5. Grows
  BY <1>1, <1>2, <1>3, <1>4 DEF Grows, PermitClosed
<1>6. HandlersOK'
  BY <1>1, <1>5, NobodyMoves
<1>7. TypeOK'
  BY <1>1, <1>2, <1>3 DEF Inv, TypeOK, gateVars, PermitClosed
<1>8. attempts' = <<>> <=> attempts = <<>>
  BY <1>3 DEF Inv, TypeOK
<1>9. RowsOK' /\ OrphanedOnlyByBusy'
  BY <1>1, <1>2, <1>3, <1>8 DEF Inv, RowsOK, OrphanedOnlyByBusy, gateVars, PermitClosed
<1>10. QED
  BY <1>6, <1>7, <1>9 DEF Inv

LEMMA QueueStep ==
    ASSUME Inv, Expire \/ Restart
    PROVE  Inv'
<1>1. UNCHANGED <<gateVars, harness, acceptance, permit, pub, attempts, github, wrote, handler, busy, changes>>
      /\ faults' \in 0 .. MaxFaults
  <2>1. faults \in 0 .. MaxFaults /\ MaxFaults \in Nat
    BY Basics DEF Inv, TypeOK
  <2>2. QED
    BY <2>1 DEF Expire, Restart, Fault, gateVars
<1>2. job' \in Job /\ (job'.state # "absent" => job.state # "absent")
      /\ (job'.state = "completed" => job.state = "completed")
  <2>1. CASE Expire
    BY <2>1, SettledJob DEF Expire
  <2>2. CASE Restart
    <3>1. job \in Job /\ RetryLimit \in Nat
      BY ConstantsAssumption DEF Inv, TypeOK
    <3>2. QED
      BY <2>2, <3>1 DEF Restart, Job
  <2>3. QED
    BY <2>1, <2>2
<1>3. Grows
  BY <1>1, UnchangedGrows DEF RowsUnchanged
<1>4. HandlersOK'
  BY <1>1, <1>3, NobodyMoves
<1>5. TypeOK'
  BY <1>1, <1>2 DEF Inv, TypeOK, gateVars
<1>6. RowsOK' /\ OrphanedOnlyByBusy'
  BY <1>1, <1>2 DEF Inv, RowsOK, OrphanedOnlyByBusy, gateVars
<1>7. QED
  BY <1>4, <1>5, <1>6 DEF Inv

LEMMA ReserveStep ==
    ASSUME Inv, Reserve
    PROVE  Inv'
<1>1. UNCHANGED <<gateVars, harness, acceptance, decision, permit, attempts, github, wrote, handler, busy, faults, changes>>
      /\ pub.state = "none" /\ decision = "approved"
      /\ pub' = [pub EXCEPT !.state = "queued"] /\ job' = [job EXCEPT !.state = "created"]
  BY DEF Reserve, Authorised, Approved, gateVars
<1>2. pub' \in [state : PublicationState, cp : Checkpoint] /\ pub'.state = "queued"
      /\ pub'.cp = pub.cp /\ job' \in Job /\ job'.state = "created"
  BY <1>1 DEF Inv, TypeOK, PublicationState, Job
<1>3. attempts = <<>> /\ pub.cp = "reserved"
  BY <1>1 DEF Inv, RowsOK
<1>4. Grows
  <2>1. ~(Len(attempts) >= MaxAttempts)
    BY <1>3, Basics DEF Inv
  <2>2. QED
    BY <1>1, <1>2, <2>1, Basics DEF Grows, Inv, Terminal
<1>5. HandlersOK'
  BY <1>1, <1>4, NobodyMoves
<1>6. TypeOK'
  BY <1>1, <1>2 DEF Inv, TypeOK, gateVars
<1>7. RowsOK'
  <2>1. \A a \in 1 .. Len(attempts') : FALSE
    BY <1>1, <1>3
  <2>2. acceptance'["draft"] # "exact"
    BY <1>1 DEF Inv, RowsOK
  <2>3. QED
    BY <1>1, <1>2, <1>3, <2>1, <2>2 DEF Inv, RowsOK
<1>8. OrphanedOnlyByBusy'
  BY <1>2 DEF OrphanedOnlyByBusy
<1>9. QED
  BY <1>5, <1>6, <1>7, <1>8 DEF Inv

(* A step of the reviewer, the operator or the repository's others.         *)
LEMMA OutsideStep ==
    ASSUME Inv, Decide \/ RecordDraft \/ GateChanges \/ RepositoryChanges
    PROVE  Inv'
<1>1. UNCHANGED <<harness, permit, pub, attempts, wrote, handler, job, busy, faults>>
  BY DEF Decide, RecordDraft, GateChanges, RepositoryChanges, gateVars
<1>2. Grows /\ HandlersOK'
  BY <1>1, UnchangedGrows, NobodyMoves DEF RowsUnchanged
<1>3. changes' \in 0 .. MaxChanges
  <2>1. changes \in 0 .. MaxChanges /\ MaxChanges \in Nat
    BY Basics DEF Inv, TypeOK
  <2>2. changes' = changes \/ (changes < MaxChanges /\ changes' = changes + 1)
    BY DEF Decide, RecordDraft, GateChanges, RepositoryChanges, Change
  <2>3. QED
    BY <2>1, <2>2
<1>4. /\ decision' \in {"none", "approved", "rejected"}
      /\ conflict' \in BOOLEAN /\ privacy' \in {"public", "remote", "known"}
      /\ pub.state # "none" => decision' = "approved"
  BY DEF Decide, RecordDraft, GateChanges, RepositoryChanges, gateVars, Inv, TypeOK, RowsOK
<1>5. /\ acceptance' \in [AcceptanceKind -> Acceptance]
      /\ acceptance'["draft"] = "exact" => pub.state = "published"
  <2>1. acceptance \in [AcceptanceKind -> Acceptance] /\ "draft" \in AcceptanceKind
        /\ {"exact", "revoked"} \subseteq Acceptance
    BY DEF Inv, TypeOK, AcceptanceKind, Acceptance
  <2>2. CASE UNCHANGED acceptance
    BY <2>1, <2>2 DEF Inv, RowsOK
  <2>3. CASE RecordDraft
    BY <2>1, <2>3 DEF RecordDraft
  <2>4. ASSUME NEW k \in AcceptanceKind, acceptance' = [acceptance EXCEPT ![k] = "revoked"]
        PROVE  <1>5
    BY <2>1, <2>4 DEF Inv, RowsOK
  <2>5. QED
    BY <2>2, <2>3, <2>4 DEF Decide, GateChanges, RepositoryChanges, gateVars
<1>6. /\ github' \in GitHub /\ github'.prs \in {0, 1}
      /\ github'.branch = "ours" => github.branch = "ours"
      /\ github'.prs = 1 => github.prs = 1
  <2>1. github \in GitHub /\ github.prs \in {0, 1}
    BY DEF Inv, TypeOK, RowsOK
  <2>2. CASE UNCHANGED github
    BY <2>1, <2>2
  <2>3. CASE github' = [github EXCEPT !.head = "advanced"]
    BY <2>1, <2>3 DEF GitHub
  <2>4. CASE github' = [github EXCEPT !.branch = "other"]
    BY <2>1, <2>4 DEF GitHub
  <2>5. CASE github' = [github EXCEPT !.branch = "none", !.prs = 0, !.foreign = FALSE]
    BY <2>1, <2>5 DEF GitHub
  <2>6. ASSUME NEW b \in BOOLEAN, github.prs > 0,
               github' = [github EXCEPT !.prs = @ - 1, !.foreign = b]
        PROVE  <1>6
    <3>1. github.prs = 1 /\ github.prs - 1 = 0
      BY <2>1, <2>6
    <3>2. github' = [github EXCEPT !.prs = 0, !.foreign = b]
      BY <2>6, <3>1
    <3>3. QED
      BY <2>1, <3>1, <3>2 DEF GitHub
  <2>7. QED
    BY <2>2, <2>3, <2>4, <2>5, <2>6 DEF Decide, RecordDraft, GateChanges, RepositoryChanges
<1>7. TypeOK'
  BY <1>1, <1>3, <1>4, <1>5, <1>6 DEF Inv, TypeOK
<1>8. RowsOK' /\ OrphanedOnlyByBusy'
  BY <1>1, <1>4, <1>5, <1>6 DEF Inv, RowsOK, OrphanedOnlyByBusy
<1>9. QED
  BY <1>2, <1>7, <1>8 DEF Inv

-----------------------------------------------------------------------------
(* Every step keeps the invariant                                          *)

LEMMA ExecuteStep ==
    ASSUME Inv, NEW h \in Handler, Execute(h)
    PROVE  Inv'
<1>1. Frame
  BY DEF Execute, Frame
<1>2. QED
  BY <1>1, PrepareStep, SaveStep, ObjectsStep, BranchLookStep, BranchSendStep, BranchRereadStep,
     BranchCheckStep, PrAskStep, PrLookStep, PrSendStep, PrRelistStep, PrConfirmStep, PrCheckStep,
     VerifyStep DEF Execute

LEMMA InitInv == Init => Inv
<1> SUFFICES ASSUME Init
             PROVE  Inv
  OBVIOUS
<1>1. TypeOK
  <2>1. /\ attempts \in Seq(Attempt) /\ Len(attempts) = 0
        /\ handler \in [Handler -> Local]
    BY IdleOK DEF Init
  <2>2. {MaxAttempts, MaxFaults, MaxChanges} \subseteq Nat
    BY ConstantsAssumption
  <2>3. acceptance \in [AcceptanceKind -> Acceptance]
    BY DEF Init, Acceptance
  <2>4. permit \in Permit /\ github \in GitHub /\ job \in Job
    BY DEF Init, Permit, GitHub, Job
  <2>5. pub \in [state : PublicationState, cp : Checkpoint]
    BY Checkpoints DEF Init, PublicationState
  <2>6. wrote \in [branch : SUBSET Nat, pr : SUBSET Nat]
    BY DEF Init
  <2>7. faults \in 0 .. MaxFaults /\ changes \in 0 .. MaxChanges
    BY <2>2 DEF Init
  <2>8. {harness, conflict, busy} \subseteq BOOLEAN /\ decision = "none" /\ privacy = "public"
    BY DEF Init
  <2>9. Len(attempts) <= MaxAttempts
    BY <2>1, <2>2
  <2>10. QED
    BY <2>1, <2>3, <2>4, <2>5, <2>6, <2>7, <2>8, <2>9 DEF TypeOK
<1>2. RowsOK
  BY DEF Init, RowsOK, Evidenced, BranchKnown
<1>3. HandlersOK
  BY IdleOK DEF Init, HandlersOK, Distinct
<1>4. OrphanedOnlyByBusy
  BY DEF Init, OrphanedOnlyByBusy
<1>5. QED
  BY <1>1, <1>2, <1>3, <1>4 DEF Inv

LEMMA StutterInv ==
    ASSUME Inv, UNCHANGED vars
    PROVE  Inv'
<1>1. Grows /\ HandlersOK'
  BY UnchangedGrows, NobodyMoves DEF vars, gateVars, RowsUnchanged
<1>2. TypeOK' /\ RowsOK' /\ OrphanedOnlyByBusy'
  BY DEF Inv, TypeOK, RowsOK, OrphanedOnlyByBusy, vars, gateVars
<1>3. QED
  BY <1>1, <1>2 DEF Inv

LEMMA NextInv == Inv /\ [Next]_vars => Inv'
<1> SUFFICES ASSUME Inv, [Next]_vars
             PROVE  Inv'
  OBVIOUS
<1>1. CASE Decide \/ RecordDraft \/ GateChanges \/ RepositoryChanges
  BY <1>1, OutsideStep
<1>2. CASE Reserve
  BY <1>2, ReserveStep
<1>3. CASE Lapse
  BY <1>3, LapseStep
<1>4. CASE Expire \/ Restart
  BY <1>4, QueueStep
<1>5. ASSUME NEW h \in Handler, Step(h)
      PROVE  Inv'
  BY <1>5, ClaimStep, ExhaustStep, AuthorizeStep, ExecuteStep, CloseStep, FinalStep, SettleStep,
     FailStep DEF Step
<1>6. ASSUME NEW h \in Handler, Deliver(h) \/ AnswerLost(h) \/ CallFails(h)
      PROVE  Inv'
  BY <1>6, DeliverStep, AnswerLostStep, CallFailsStep
<1>7. ASSUME NEW h \in Handler, Stall(h) \/ Resume(h) \/ Crash(h)
      PROVE  Inv'
  BY <1>7, StallStep, CrashStep
<1>8. CASE UNCHANGED vars
  BY <1>8, StutterInv
<1>9. QED
  BY <1>1, <1>2, <1>3, <1>4, <1>5, <1>6, <1>7, <1>8 DEF Next

(* In every reachable state the rows, the permit, what was written and what  *)
(* each handler knows agree as Inv says.                                    *)
THEOREM Invariance == Spec => []Inv
<1>1. QED
  BY InitInv, NextInv, PTL DEF Spec

LEMMA InvConsistent == Inv => Consistent
<1> SUFFICES ASSUME Inv
             PROVE  Consistent
  OBVIOUS
<1>1. wrote.pr \subseteq {1} /\ github.prs \in {0, 1}
  BY DEF Inv, RowsOK
<1>2. IsFiniteSet({1}) /\ Cardinality({1}) = 1
  BY FS_Singleton
<1>3. Cardinality(wrote.pr) <= 1
  BY <1>1, <1>2, FS_Subset
<1>4. github.prs <= 1
  BY <1>1
<1>5. QED
  BY <1>3, <1>4 DEF Consistent, AskedOnce, Inv

(* The rows keep their types; whatever attempts are made, one of them at most *)
(* asks for the pull request, and one at most is open (worker.ts's           *)
(* pr_create_requested); and a job is completed under an unfinished          *)
(* publication only where a redelivery found the attempt alive.             *)
THEOREM PublicationConsistent == Spec => []Consistent
BY Invariance, InvConsistent, PTL

(* All that is ever written under a bootstrap reservation is written by the  *)
(* attempt that reserved, whatever is retried, stalled or revoked.           *)
THEOREM ReservationHasOneWriter == Spec => []OneWriter
<1>1. Inv => OneWriter
  BY DEF Inv, RowsOK, OneWriter
<1>2. QED
  BY <1>1, Invariance, PTL

(* In production the complete gate resolves only once the publication that   *)
(* it would admit is already published.                                     *)
THEOREM GateIsSpentWhenComplete == Spec => []CompleteGateIsSpent
<1>1. Inv => CompleteGateIsSpent
  BY DEF Inv, RowsOK, CompleteGateIsSpent, GateMode, Accepted
<1>2. QED
  BY <1>1, Invariance, PTL

-----------------------------------------------------------------------------
(* Publication implements OneDraft                                         *)

LEMMA DraftStutters ==
    ASSUME UNCHANGED <<decision, wrote>>,
           pub' = pub \/ (pub.state \notin Terminal /\ pub'.state \notin Terminal)
    PROVE  UNCHANGED Draft!vars
BY DEF Draft!vars

LEMMA DraftReports ==
    ASSUME Inv, UNCHANGED <<decision, wrote>>, pub.state \notin Terminal \cup {"none"},
           pub'.state \in {"failed", "review_required"} \/ (pub'.state = "published" /\ wrote.pr # {})
    PROVE  Draft!Report
BY DEF Inv, RowsOK, Draft!Report, Terminal

LEMMA DraftDecide ==
    ASSUME Inv, Decide
    PROVE  [Draft!Next]_Draft!vars
<1>1. pub.state = "none" /\ UNCHANGED <<pub, wrote>> /\ decision = "none"
      /\ decision' \in {"approved", "rejected"}
  BY DEF Decide, Inv, RowsOK
<1>2. CASE decision' = "approved"
  BY <1>1, <1>2 DEF Draft!Next, Draft!Approve, Terminal
<1>3. CASE decision' = "rejected"
  BY <1>1, <1>3 DEF Draft!vars
<1>4. QED
  BY <1>1, <1>2, <1>3

LEMMA DraftBranch ==
    ASSUME Inv, NEW h \in Handler, handler[h].at = "branchSend", UNCHANGED <<decision, pub>>,
           wrote' = [wrote EXCEPT !.branch = @ \cup {handler[h].attempt}]
    PROVE  [Draft!Next]_Draft!vars
<1>1. decision = "approved"
  BY Ready DEF Inv, RowsOK, RecordOK
<1>2. wrote'.branch # {} /\ wrote'.pr = wrote.pr
  BY DEF Inv, TypeOK
<1>3. QED
  BY <1>1, <1>2 DEF Draft!Next, Draft!WriteBranch

LEMMA DraftAsk ==
    ASSUME Inv, UNCHANGED <<decision, pub>>, NEW a,
           wrote' = [wrote EXCEPT !.pr = @ \cup {a}], wrote.pr = {}, wrote.branch # {}
    PROVE  [Draft!Next]_Draft!vars
<1>1. wrote'.branch = wrote.branch /\ wrote'.pr # {}
  BY DEF Inv, TypeOK
<1>2. QED
  BY <1>1 DEF Draft!Next, Draft!AskDraft

LEMMA DraftSave ==
    ASSUME Inv, NEW h \in Handler, Save(h), Frame
    PROVE  UNCHANGED Draft!vars
<1>1. UNCHANGED <<decision, wrote>>
  BY DEF Save, Frame, gateVars
<1>2. pub' = pub \/ (pub.state \notin Terminal /\ pub'.state \notin Terminal)
  BY Owner DEF Save, Terminal
<1>3. QED
  BY <1>1, <1>2, DraftStutters

LEMMA DraftExecute ==
    ASSUME Inv, NEW h \in Handler, Execute(h)
    PROVE  [Draft!Next]_Draft!vars
<1>1. Frame /\ UNCHANGED decision
  BY DEF Execute, Frame, gateVars
<1>2. CASE Save(h)
  BY <1>1, <1>2, DraftSave
<1>3. CASE BranchSend(h)
  BY <1>1, <1>3, DraftBranch DEF BranchSend, Running
<1>4. CASE PrSend(h)
  <2>1. WriteFrame /\ handler[h].at = "prSend" /\ UNCHANGED pub
    BY <1>1, <1>4 DEF PrSend, Running, Frame, WriteFrame, Inv, TypeOK
  <2>2. \E phase \in {"prRelist", "prConfirm"} : Goto(h, phase)
    BY <1>4 DEF PrSend
  <2>3. wrote.pr = {} /\ wrote.branch # {}
    BY <1>4, <2>1, <2>2, PullRequestAsked DEF PrSend
  <2>4. QED
    BY <1>1, <1>4, <2>1, <2>3, DraftAsk DEF PrSend
<1>5. CASE UNCHANGED <<pub, github, wrote>>
  BY <1>1, <1>5, DraftStutters
<1>6. QED
  BY <1>2, <1>3, <1>4, <1>5 DEF Execute, Prepare, Objects, BranchLook, BranchReread, BranchCheck,
     PrAsk, PrLook, PrRelist, PrConfirm, PrCheck, Verify

LEMMA DraftAnswerLost ==
    ASSUME Inv, NEW h \in Handler, AnswerLost(h)
    PROVE  [Draft!Next]_Draft!vars
<1>1. UNCHANGED <<decision, pub>>
  BY DEF AnswerLost, gateVars
<1>2. CASE OnlyHandler
  BY <1>1, <1>2, DraftStutters DEF OnlyHandler
<1>3. CASE handler[h].at = "branchSend" /\ wrote' = [wrote EXCEPT !.branch = @ \cup {handler[h].attempt}]
  BY <1>1, <1>3, DraftBranch
<1>4. CASE /\ handler[h].at = "prSend" /\ Goto(h, "prRelist") /\ github' = Opened
           /\ wrote' = [wrote EXCEPT !.pr = @ \cup {handler[h].attempt}]
  BY <1>1, <1>4, AnswerLostFrame, PullRequestAsked, DraftAsk
<1>5. QED
  BY <1>2, <1>3, <1>4, AnswerLostFrame

LEMMA DraftClaim ==
    ASSUME Inv, NEW h \in Handler, Claim(h)
    PROVE  UNCHANGED Draft!vars
<1>1. UNCHANGED <<decision, wrote>>
  BY ClaimedRow DEF gateVars
<1>2. pub' = pub \/ (pub.state \notin Terminal /\ pub'.state \notin Terminal)
  BY DEF Claim, ClaimNothing, ClaimExhausted, ClaimAttempt, Inv, TypeOK, Terminal
<1>3. QED
  BY <1>1, <1>2, DraftStutters

LEMMA DraftExhaust ==
    ASSUME Inv, NEW h \in Handler, Exhaust(h)
    PROVE  [Draft!Next]_Draft!vars
<1>1. UNCHANGED <<decision, wrote>> /\ pub.state # "none"
  BY Ready DEF Exhaust, Running, gateVars, RecordOK
<1>2. CASE pub' = pub
  BY <1>1, <1>2, DraftStutters
<1>3. CASE pub' # pub
  <2>1. pub.state \notin Terminal /\ pub'.state = "failed"
    BY <1>3, ExhaustStep DEF Exhaust, Inv, TypeOK
  <2>2. QED
    BY <1>1, <2>1, DraftReports DEF Draft!Next
<1>4. QED
  BY <1>2, <1>3

LEMMA DraftFinal ==
    ASSUME Inv, NEW h \in Handler, Final(h)
    PROVE  [Draft!Next]_Draft!vars
<1>1. UNCHANGED <<decision, wrote>>
  BY DEF Final, gateVars
<1>2. CASE OnlyHandler
  BY <1>1, <1>2, DraftStutters DEF OnlyHandler
<1>3. CASE /\ Owns(h) /\ UNCHANGED faults
           /\ pub' = [state |-> "published", cp |-> "completed"]
           /\ attempts' = Closed(handler[h].attempt, "succeeded") /\ Goto(h, "settle")
  <2>1. wrote.pr # {} /\ pub.state \notin Terminal \cup {"none"} /\ pub'.state = "published"
    BY <1>3, PublishStep, Owner
  <2>2. QED
    BY <1>1, <2>1, DraftReports DEF Draft!Next
<1>4. QED
  BY <1>2, <1>3, FinalCases

LEMMA DraftFail ==
    ASSUME Inv, NEW h \in Handler, Fail(h)
    PROVE  [Draft!Next]_Draft!vars
<1>1. UNCHANGED <<decision, wrote>>
  BY DEF Fail, gateVars
<1>2. QED
  BY <1>1, FailStep, DraftStutters, DraftReports DEF Draft!Next

LEMMA DraftStep == Inv /\ [Next]_vars => [Draft!Next]_Draft!vars
<1> SUFFICES ASSUME Inv, [Next]_vars
             PROVE  [Draft!Next]_Draft!vars
  OBVIOUS
<1>1. CASE Decide
  BY <1>1, DraftDecide
<1>2. CASE Reserve
  BY <1>2, DraftStutters DEF Reserve, gateVars, Inv, TypeOK, Terminal
<1>3. CASE RecordDraft \/ GateChanges \/ RepositoryChanges \/ Lapse \/ Expire \/ Restart
  <2>1. UNCHANGED <<decision, pub, wrote>>
    BY <1>3 DEF RecordDraft, GateChanges, RepositoryChanges, Lapse, Expire, Restart, gateVars
  <2>2. QED
    BY <2>1, DraftStutters
<1>4. ASSUME NEW h \in Handler, Step(h)
      PROVE  [Draft!Next]_Draft!vars
  <2>1. CASE Authorize(h) \/ Close(h) \/ Settle(h)
    <3>1. UNCHANGED <<decision, pub, wrote>>
      BY <2>1 DEF Authorize, Close, Settle, gateVars
    <3>2. QED
      BY <3>1, DraftStutters
  <2>2. QED
    BY <1>4, <2>1, DraftClaim, DraftExhaust, DraftExecute, DraftFinal, DraftFail DEF Step
<1>5. ASSUME NEW h \in Handler, Deliver(h) \/ CallFails(h) \/ Stall(h) \/ Resume(h) \/ Crash(h)
      PROVE  [Draft!Next]_Draft!vars
  <2>1. UNCHANGED <<decision, pub, wrote>>
    BY <1>5 DEF Deliver, CallFails, Stall, Resume, Crash, gateVars
  <2>2. QED
    BY <2>1, DraftStutters
<1>6. ASSUME NEW h \in Handler, AnswerLost(h)
      PROVE  [Draft!Next]_Draft!vars
  BY <1>6, DraftAnswerLost
<1>7. CASE UNCHANGED vars
  BY <1>7, DraftStutters DEF vars, gateVars
<1>8. QED
  BY <1>1, <1>2, <1>3, <1>4, <1>5, <1>6, <1>7 DEF Next

LEMMA DraftInit == Init => Draft!Init
BY DEF Init, Draft!Init, Terminal

(* Whatever is lost, stalls or is withdrawn meanwhile, the worker's writes   *)
(* and verdicts are those of OneDraft.                                      *)
THEOREM PublicationImplementsOneDraft == Spec => DraftSpec
<1>1. Spec => Draft!Spec
  BY Invariance, DraftInit, DraftStep, PTL DEF Spec, Draft!Spec
<1>2. QED
  BY <1>1 DEF DraftSpec
=============================================================================
