--------------------------- MODULE RepairRunProofs ---------------------------
(***************************************************************************)
(* What the baseline stage guarantees for every number of handlers, every   *)
(* number of attempts and retries, and every number of crashes, stalls,      *)
(* database errors and restarts.                                            *)
(***************************************************************************)
EXTENDS RepairRun, TLAPS

-----------------------------------------------------------------------------
(* The inductive invariant                                                 *)

Creating == {"requested", "created", "cleaning"}
Executing == {"checking", "starting", "reporting", "inserting"} \cup Creating
Working == Executing \cup {"finishing", "recovering", "abandoning"}

(* The row still says that the attempt is this handler's.                   *)
Held(r, rows) ==
    /\ rows[r.attempt].state = "active" /\ rows[r.attempt].live
    /\ rows[r.attempt].token = r.token

(* What a handler about to transition the run has read: nobody can claim the *)
(* run any more, and its result is what the latest attempt says.             *)
Settling(r, rows) ==
    LET last == Len(rows)
    IN  /\ last > 0 /\ r.attempt = last
        /\ rows[last].state # "active"
        /\ rows[last].state \in DecidedState \/ last >= MaxAttempts
        /\ r.result \in Outcome
        /\ (r.result = "passed") <=> (rows[last].state = "succeeded")
        /\ (r.result = "customer_failed") <=> (rows[last].state = "customer_failed")

(* What a handler's record r may rely on, given the attempts, the evidence,  *)
(* the Sandboxes and whether no lease was ever taken from a living handler.  *)
RecordOK(r, rows, stored, boxes, calm) ==
    /\ r.phase \in Working => r.attempt \in 1 .. Len(rows)
    /\ r.phase \in Executing => stored[r.attempt] = "none"
    /\ r.phase \in Creating => rows[r.attempt].named
    /\ r.phase \in {"cleaning", "reporting", "inserting", "finishing"} => r.result \in Outcome
    /\ r.phase = "finishing" /\ r.result \notin Infrastructure => stored[r.attempt] = r.result
    /\ r.phase = "transition" => Settling(r, rows)
    /\ calm /\ r.phase \in Working => Held(r, rows)
    /\ calm /\ r.phase = "abandoning" => r.attempt \notin boxes /\ stored[r.attempt] = "none"

(* No two handlers execute the same attempt; without a stall, no two work    *)
(* on it in any way.                                                        *)
Busy(r, calm) == r.phase \in Executing \/ (calm /\ r.phase \in Working)
Apart(r, q, calm) == Busy(r, calm) /\ Busy(q, calm) => r.attempt # q.attempt

Calm == faults.stalls = 0
Smooth == Calm /\ faults.errors = 0

HandlersOK ==
    /\ \A h \in Handler : RecordOK(handler[h], attempt, evidence, sandbox, Calm)
    /\ \A h, g \in Handler : h # g => Apart(handler[h], handler[g], Calm)

(* A reviewed job has one handler, which finds the run untouched.            *)
ExactOK ==
    OneShot => \A h \in Handler : handler[h].phase # "idle" =>
        /\ job.state = "active" /\ job.holder = h
        /\ handler[h].phase \notin {"recovering", "abandoning"}
        /\ handler[h].phase = "received" => attempt = << >> /\ run.state # "baseline_running"
        /\ Smooth /\ handler[h].phase = "reply" => run.state # "baseline_running"

(* Only the latest attempt may be active, and only while the run is being    *)
(* worked on; a verdict has its evidence; what is on record was named first. *)
RowsOK ==
    /\ run.state = "created" => attempt = << >>
    /\ \A n \in 1 .. Len(attempt) :
          /\ attempt[n].state = "active" => n = Len(attempt) /\ run.state = "baseline_running"
          /\ attempt[n].state = "succeeded" => evidence[n] = "passed"
          /\ attempt[n].state = "customer_failed" => evidence[n] = "customer_failed"
    /\ \A n \in 1 .. MaxAttempts :
          /\ n > Len(attempt) => evidence[n] = "none" /\ n \notin sandbox
          /\ n \in sandbox => attempt[n].named

Inv == /\ TypeOK /\ RowsOK /\ HandlersOK /\ ExactOK
       /\ VerdictIsEvidenced /\ AbandonedIsClean /\ ReviewedRunEnds

-----------------------------------------------------------------------------
(* The rows and the records                                                *)

Results == Outcome \cup Answer \cup {"none"}

LEMMA Rows ==
    ASSUME TypeOK
    PROVE  /\ Len(attempt) \in Nat /\ MaxAttempts \in Nat /\ MaxAttempts > 0
           /\ DOMAIN attempt = 1 .. Len(attempt)
           /\ Len(attempt) <= MaxAttempts
           /\ \A n \in 1 .. Len(attempt) : attempt[n] \in Attempt /\ n \in 1 .. MaxAttempts
           /\ \A h \in Handler : handler[h] \in Local
BY RunAssumption DEF TypeOK, Latest

LEMMA SetAttempt ==
    ASSUME TypeOK, NEW n \in 1 .. Len(attempt), NEW a \in Attempt,
           attempt' = [attempt EXCEPT ![n] = a]
    PROVE  /\ attempt' \in Seq(Attempt)
           /\ Len(attempt') = Len(attempt)
           /\ attempt'[n] = a
           /\ \A m \in 1 .. Len(attempt) : m # n => attempt'[m] = attempt[m]
<1>1. attempt \in Seq(Attempt)
  BY DEF TypeOK
<1>2. QED
  BY <1>1

(* What Goto makes of a record.                                             *)
Moved(h, phase, result) == [handler[h] EXCEPT !.phase = phase, !.result = result]

LEMMA GotoEffect ==
    ASSUME TypeOK, NEW h \in Handler, NEW phase \in Phase, NEW result \in Results,
           Goto(h, phase, result)
    PROVE  \E r \in Local :
              /\ handler' = [handler EXCEPT ![h] = r]
              /\ r.phase = phase /\ r.result = result
              /\ r.attempt = Number(h) /\ r.token = handler[h].token
<1> DEFINE r == Moved(h, phase, result)
<1>1. handler \in [Handler -> Local] /\ handler[h] \in Local
  BY Rows DEF TypeOK
<1>2. /\ r \in Local
      /\ r.phase = phase /\ r.result = result
      /\ r.attempt = Number(h) /\ r.token = handler[h].token
  BY <1>1 DEF Moved, Local, Results, Number
<1>3. handler' = [handler EXCEPT ![h] = r]
  BY <1>1 DEF Goto, Moved, Local
<1>4. QED
  BY <1>2, <1>3

(* What a step leaves of the facts that a record r relies on.               *)
Kept(r) ==
    LET n == r.attempt
    IN  /\ Len(attempt) <= Len(attempt')
        /\ Calm' => Calm
        /\ evidence[n] # "none" \/ r.phase \in Executing => evidence'[n] = evidence[n]
        /\ r.phase \in Creating /\ attempt[n].named => attempt'[n].named
        /\ r.phase = "transition" => attempt' = attempt
        /\ Calm' /\ r.phase \in Working /\ Held(r, attempt) => Held(r, attempt')
        /\ Calm' /\ r.phase = "abandoning" =>
              (n \in sandbox' => n \in sandbox) /\ evidence'[n] = evidence[n]

LEMMA RecordKept ==
    ASSUME TypeOK, NEW r \in Local, Kept(r), Len(attempt') \in Nat,
           RecordOK(r, attempt, evidence, sandbox, Calm)
    PROVE  RecordOK(r, attempt', evidence', sandbox', Calm')
<1>1. r.phase \in Working => r.attempt \in 1 .. Len(attempt')
  BY Rows DEF RecordOK, Kept
<1>2. r.phase \in Executing => evidence'[r.attempt] = "none"
  BY DEF RecordOK, Kept
<1>3. r.phase \in Creating => attempt'[r.attempt].named
  BY DEF RecordOK, Kept
<1>4. r.phase = "finishing" /\ r.result \notin Infrastructure => evidence'[r.attempt] = r.result
  <2>1. SUFFICES ASSUME r.phase = "finishing", r.result \notin Infrastructure
                 PROVE  evidence'[r.attempt] = r.result
    OBVIOUS
  <2>2. r.result \in Outcome /\ evidence[r.attempt] = r.result
    BY <2>1 DEF RecordOK
  <2>3. evidence[r.attempt] # "none"
    BY <2>2 DEF Outcome
  <2>4. QED
    BY <2>2, <2>3 DEF Kept
<1>5. r.phase = "transition" => Settling(r, attempt')
  BY DEF RecordOK, Kept
<1>6. Calm' /\ r.phase \in Working => Held(r, attempt')
  BY DEF RecordOK, Kept
<1>7. Calm' /\ r.phase = "abandoning" => r.attempt \notin sandbox' /\ evidence'[r.attempt] = "none"
  BY DEF RecordOK, Kept
<1>8. QED
  BY <1>1, <1>2, <1>3, <1>4, <1>5, <1>6, <1>7 DEF RecordOK

(* Whoever is busy after a step was busy with the same attempt before it.    *)
Follows(r, q) == Busy(r, Calm') => Busy(q, Calm) /\ r.attempt = q.attempt

RowsTyped ==
    /\ run \in Run
    /\ attempt \in Seq(Attempt) /\ Latest <= MaxAttempts
    /\ evidence \in [1 .. MaxAttempts -> Outcome \cup {"none"}]
    /\ sandbox \subseteq 1 .. MaxAttempts
    /\ fenced \in BOOLEAN

LEMMA Records ==
    ASSUME Inv, NEW h \in Handler, NEW r \in Local, handler' = [handler EXCEPT ![h] = r],
           RowsTyped',
           \A g \in Handler \ {h} : Kept(handler[g]),
           RecordOK(r, attempt', evidence', sandbox', Calm'),
           \A g \in Handler \ {h} : Apart(r, handler[g], Calm'),
           Calm' => Calm
    PROVE  HandlersOK' /\ handler' \in [Handler -> Local]
<1>1. TypeOK /\ HandlersOK
  BY DEF Inv
<1>2. /\ handler' \in [Handler -> Local]
      /\ handler'[h] = r
      /\ \A g \in Handler \ {h} : handler'[g] = handler[g]
  BY <1>1 DEF TypeOK
<1>3. Len(attempt') \in Nat
  BY DEF RowsTyped
<1>4. ASSUME NEW g \in Handler
      PROVE  RecordOK(handler'[g], attempt', evidence', sandbox', Calm')
  <2>1. CASE g = h
    BY <1>2, <2>1
  <2>2. CASE g # h
    <3>1. handler[g] \in Local /\ Kept(handler[g])
      BY <1>1, <2>2, Rows
    <3>2. RecordOK(handler[g], attempt, evidence, sandbox, Calm)
      BY <1>1 DEF HandlersOK
    <3>3. RecordOK(handler[g], attempt', evidence', sandbox', Calm')
      BY <1>1, <1>3, <3>1, <3>2, RecordKept
    <3>4. QED
      BY <1>2, <2>2, <3>3
  <2>3. QED
    BY <2>1, <2>2
<1>5. ASSUME NEW g \in Handler, NEW f \in Handler, g # f
      PROVE  Apart(handler'[g], handler'[f], Calm')
  <2>1. CASE g = h
    BY <1>2, <1>5, <2>1
  <2>2. CASE f = h
    BY <1>2, <1>5, <2>2 DEF Apart
  <2>3. CASE g # h /\ f # h
    <3>1. Apart(handler[g], handler[f], Calm)
      BY <1>1, <1>5 DEF HandlersOK
    <3>2. QED
      BY <1>2, <2>3, <3>1 DEF Apart, Busy
  <2>4. QED
    BY <2>1, <2>2, <2>3
<1>6. QED
  BY <1>2, <1>4, <1>5 DEF HandlersOK

LEMMA FollowsApart ==
    ASSUME Inv, NEW h \in Handler, NEW r \in Local, Follows(r, handler[h]), Calm' => Calm
    PROVE  \A g \in Handler \ {h} : Apart(r, handler[g], Calm')
<1>1. \A g \in Handler \ {h} : Apart(handler[h], handler[g], Calm)
  BY DEF Inv, HandlersOK
<1>2. QED
  BY <1>1 DEF Apart, Follows, Busy

(* The facts that relate several rows or the run to its job.                *)
Facts == RowsOK /\ VerdictIsEvidenced /\ AbandonedIsClean

(* A step of the handler h that leaves the job alone; it may be one that a    *)
(* database error ends.                                                     *)
LEMMA ErrorEffect ==
    ASSUME TypeOK, UNCHANGED faults \/ Error
    PROVE  /\ faults' \in [crashes : Nat, stalls : Nat, restarts : Nat, errors : Nat]
           /\ Calm' <=> Calm
           /\ Smooth' => Smooth /\ UNCHANGED faults
<1>1. CASE UNCHANGED faults
  BY <1>1 DEF TypeOK, Calm, Smooth
<1>2. CASE Error
  <2>1. faults \in [crashes : Nat, stalls : Nat, restarts : Nat, errors : Nat]
    BY DEF TypeOK
  <2>2. faults' = [faults EXCEPT !.errors = faults.errors + 1]
    BY <1>2 DEF Error
  <2>3. faults.errors + 1 \in Nat /\ faults.errors + 1 # 0
    BY <2>1
  <2>4. /\ faults' \in [crashes : Nat, stalls : Nat, restarts : Nat, errors : Nat]
        /\ faults'.stalls = faults.stalls /\ faults'.errors = faults.errors + 1
    BY <2>1, <2>2, <2>3
  <2>5. QED
    BY <2>3, <2>4 DEF Calm, Smooth
<1>3. QED
  BY <1>1, <1>2

LEMMA Step ==
    ASSUME Inv, NEW h \in Handler, NEW r \in Local, handler' = [handler EXCEPT ![h] = r],
           ~In(h, "idle"), UNCHANGED job, UNCHANGED faults \/ Error,
           RowsTyped', Facts',
           \A g \in Handler \ {h} : Kept(handler[g]),
           RecordOK(r, attempt', evidence', sandbox', Calm'),
           \A g \in Handler \ {h} : Apart(r, handler[g], Calm'),
           OneShot => r.phase \notin {"received", "recovering", "abandoning"},
           OneShot /\ Smooth' /\ r.phase = "reply" => run'.state # "baseline_running"
    PROVE  Inv'
<1>1. TypeOK /\ ExactOK /\ job' = job
  BY DEF Inv
<1>2. /\ faults' \in [crashes : Nat, stalls : Nat, restarts : Nat, errors : Nat]
      /\ Calm' <=> Calm
  BY <1>1, ErrorEffect
<1>3. HandlersOK' /\ handler' \in [Handler -> Local]
  BY <1>2, Records
<1>4. TypeOK'
  BY <1>1, <1>2, <1>3 DEF TypeOK, RowsTyped
<1>5. OneShot' <=> OneShot
  BY <1>1 DEF OneShot
<1>6. handler'[h] = r /\ \A g \in Handler \ {h} : handler'[g] = handler[g]
  BY <1>1 DEF TypeOK
<1>7. ASSUME OneShot
      PROVE  /\ job.state = "active" /\ job.holder = h
             /\ \A g \in Handler \ {h} : handler[g].phase = "idle"
  BY <1>1, <1>7 DEF ExactOK, In
<1>8. ExactOK'
  <2>1. SUFFICES ASSUME OneShot, NEW g \in Handler, handler'[g].phase # "idle"
                 PROVE  /\ job.state = "active" /\ job.holder = g
                        /\ handler'[g].phase \notin {"recovering", "abandoning"}
                        /\ handler'[g].phase # "received"
                        /\ Smooth' /\ handler'[g].phase = "reply" => run'.state # "baseline_running"
    BY <1>1, <1>5 DEF ExactOK
  <2>2. g = h
    BY <1>6, <1>7, <2>1
  <2>3. QED
    BY <1>6, <1>7, <2>1, <2>2
<1>9. ReviewedRunEnds'
  BY <1>1, <1>5, <1>7 DEF ReviewedRunEnds
<1>10. QED
  BY <1>3, <1>4, <1>8, <1>9 DEF Inv, Facts

(* A handler that changes no row that others look at.                       *)
LEMMA Reading ==
    ASSUME Inv, NEW h \in Handler, NEW r \in Local, handler' = [handler EXCEPT ![h] = r],
           ~In(h, "idle"), UNCHANGED <<run, attempt, evidence, sandbox, job, faults>>,
           fenced' \in BOOLEAN,
           RecordOK(r, attempt, evidence, sandbox, Calm), Follows(r, handler[h]),
           OneShot => r.phase \notin {"received", "recovering", "abandoning"},
           OneShot /\ Calm /\ r.phase = "reply" => run.state # "baseline_running"
    PROVE  Inv'
<1>1. Calm' <=> Calm
  BY DEF Calm
<1>2. RowsTyped'
  BY DEF Inv, TypeOK, RowsTyped, Latest
<1>3. Facts'
  <2>1. RowsOK /\ VerdictIsEvidenced /\ AbandonedIsClean
    BY DEF Inv
  <2>2. RowsOK'
    BY <2>1 DEF RowsOK
  <2>3. VerdictIsEvidenced'
    BY <2>1 DEF VerdictIsEvidenced, Decided, Verdict
  <2>4. AbandonedIsClean'
    BY <2>1 DEF AbandonedIsClean
  <2>5. QED
    BY <2>2, <2>3, <2>4 DEF Facts
<1>4. \A g \in Handler \ {h} : Kept(handler[g])
  <2>1. Len(attempt) \in Nat
    BY Rows DEF Inv
  <2>2. QED
    BY <1>1, <2>1 DEF Kept, Held
<1>5. RecordOK(r, attempt', evidence', sandbox', Calm')
  BY <1>1 DEF RecordOK, Settling, Held
<1>6. \A g \in Handler \ {h} : Apart(r, handler[g], Calm')
  BY <1>1, FollowsApart
<1>7. OneShot /\ Smooth' /\ r.phase = "reply" => run'.state # "baseline_running"
  BY DEF Smooth, Calm
<1>8. UNCHANGED job /\ (UNCHANGED faults \/ Error)
  OBVIOUS
<1>9. QED
  BY <1>2, <1>3, <1>4, <1>5, <1>6, <1>7, <1>8, Step

(* A handler that takes up its own attempt's row: a is the new row, which    *)
(* only it may have relied on.                                              *)
LEMMA Writing ==
    ASSUME Inv, NEW h \in Handler, NEW r \in Local, handler' = [handler EXCEPT ![h] = r],
           NEW n \in 1 .. Len(attempt), NEW a \in Attempt, attempt' = [attempt EXCEPT ![n] = a],
           ~In(h, "idle"), UNCHANGED <<run, evidence, sandbox, fenced, job, faults>>,
           attempt[n].state = "active",
           attempt[n].named => a.named,
           a.state = "succeeded" => evidence[n] = "passed",
           a.state = "customer_failed" => evidence[n] = "customer_failed",
           Calm /\ a.state = "abandoned" => n \notin sandbox /\ evidence[n] = "none",
           \A g \in Handler \ {h} : Calm /\ handler[g].phase \in Working => Number(g) # n,
           RecordOK(r, attempt', evidence, sandbox, Calm),
           \A g \in Handler \ {h} : Apart(r, handler[g], Calm),
           OneShot => r.phase \notin {"received", "recovering", "abandoning"},
           OneShot /\ Calm /\ r.phase = "reply" => run.state # "baseline_running"
    PROVE  Inv'
<1>1. TypeOK /\ RowsOK /\ VerdictIsEvidenced /\ AbandonedIsClean /\ HandlersOK
  BY DEF Inv
<1>2. Calm' <=> Calm
  BY DEF Calm
<1>3. /\ attempt' \in Seq(Attempt) /\ Len(attempt') = Len(attempt)
      /\ attempt'[n] = a
      /\ \A m \in 1 .. Len(attempt) : m # n => attempt'[m] = attempt[m]
  BY <1>1, SetAttempt
<1>4. RowsTyped'
  BY <1>1, <1>3 DEF TypeOK, RowsTyped, Latest
<1>5. n = Len(attempt) /\ run.state = "baseline_running"
  BY <1>1 DEF RowsOK
<1>6. Facts'
  <2>1. RowsOK'
    <3>1. run'.state # "created"
      BY <1>5
    <3>2. ASSUME NEW m \in 1 .. Len(attempt)
          PROVE  /\ attempt'[m].state = "active" => m = Len(attempt) /\ run.state = "baseline_running"
                 /\ attempt'[m].state = "succeeded" => evidence[m] = "passed"
                 /\ attempt'[m].state = "customer_failed" => evidence[m] = "customer_failed"
      <4>1. CASE m = n
        BY <1>3, <1>5, <4>1
      <4>2. CASE m # n
        BY <1>1, <1>3, <4>2 DEF RowsOK
      <4>3. QED
        BY <4>1, <4>2
    <3>3. ASSUME NEW m \in 1 .. MaxAttempts
          PROVE  /\ m > Len(attempt) => evidence[m] = "none" /\ m \notin sandbox
                 /\ m \in sandbox => attempt'[m].named
      <4>1. m > Len(attempt) \/ m \in 1 .. Len(attempt)
        BY <1>1, Rows
      <4>2. QED
        BY <1>1, <1>3, <4>1 DEF RowsOK
    <3>4. QED
      BY <1>3, <3>1, <3>2, <3>3 DEF RowsOK
  <2>2. VerdictIsEvidenced'
    BY <1>5 DEF VerdictIsEvidenced
  <2>3. AbandonedIsClean'
    <3>1. DOMAIN attempt' = 1 .. Len(attempt) /\ DOMAIN attempt = 1 .. Len(attempt)
      BY <1>1, <1>3, Rows
    <3>2. SUFFICES ASSUME Calm, NEW m \in 1 .. Len(attempt), attempt'[m].state = "abandoned"
                   PROVE  m \notin sandbox /\ evidence[m] = "none"
      BY <3>1 DEF AbandonedIsClean, Calm
    <3>3. CASE m = n
      BY <1>3, <3>2, <3>3
    <3>4. CASE m # n
      BY <1>1, <1>3, <3>1, <3>2, <3>4 DEF AbandonedIsClean, Calm
    <3>5. QED
      BY <3>3, <3>4
  <2>4. QED
    BY <2>1, <2>2, <2>3 DEF Facts
<1>7. ASSUME NEW g \in Handler \ {h}
      PROVE  Kept(handler[g])
  <2>1. handler[g] \in Local /\ RecordOK(handler[g], attempt, evidence, sandbox, Calm)
    BY <1>1, Rows DEF HandlersOK
  <2>2. handler[g].phase \in Working => Number(g) \in 1 .. Len(attempt)
    BY <2>1 DEF RecordOK, Number
  <2>3. handler[g].phase # "transition"
    BY <1>5, <2>1 DEF RecordOK, Settling
  <2>4. handler[g].phase \in Creating /\ attempt[Number(g)].named => attempt'[Number(g)].named
    BY <1>3, <2>2 DEF Working, Executing
  <2>5. Calm /\ handler[g].phase \in Working => attempt'[Number(g)] = attempt[Number(g)]
    BY <1>3, <2>2
  <2>6. Len(attempt) <= Len(attempt')
    BY <1>1, <1>3, Rows
  <2>7. QED
    BY <1>2, <2>3, <2>4, <2>5, <2>6 DEF Kept, Held, Number
<1>8. RecordOK(r, attempt', evidence', sandbox', Calm')
  BY <1>2
<1>9. \A g \in Handler \ {h} : Apart(r, handler[g], Calm')
  BY <1>2
<1>10. OneShot /\ Smooth' /\ r.phase = "reply" => run'.state # "baseline_running"
  BY DEF Smooth, Calm
<1>11. UNCHANGED job /\ (UNCHANGED faults \/ Error)
  OBVIOUS
<1>12. QED
  BY <1>4, <1>6, <1>7, <1>8, <1>9, <1>10, <1>11, Step

(* A handler that makes or removes the Sandbox of the attempt it works on.    *)
LEMMA Boxing ==
    ASSUME Inv, NEW h \in Handler, NEW r \in Local, handler' = [handler EXCEPT ![h] = r],
           handler[h].phase \in Working,
           UNCHANGED <<run, attempt, evidence, job, faults>>, fenced' \in BOOLEAN,
           \/ sandbox' = sandbox
           \/ sandbox' = sandbox \ {Number(h)}
           \/ sandbox' = sandbox \cup {Number(h)} /\ handler[h].phase \in Creating,
           RecordOK(r, attempt, evidence, sandbox', Calm), Follows(r, handler[h]),
           OneShot => r.phase \notin {"received", "recovering", "abandoning"},
           OneShot /\ Calm /\ r.phase = "reply" => run.state # "baseline_running"
    PROVE  Inv'
<1> DEFINE n == Number(h)
<1>1. TypeOK /\ RowsOK /\ VerdictIsEvidenced /\ AbandonedIsClean /\ HandlersOK
  BY DEF Inv
<1>2. Calm' <=> Calm
  BY DEF Calm
<1>3. /\ RecordOK(handler[h], attempt, evidence, sandbox, Calm)
      /\ n \in 1 .. Len(attempt) /\ n \in 1 .. MaxAttempts
      /\ handler[h].phase \in Creating => attempt[n].named
      /\ Calm => attempt[n].state = "active"
  <2>1. RecordOK(handler[h], attempt, evidence, sandbox, Calm)
    BY <1>1 DEF HandlersOK
  <2>2. n \in 1 .. Len(attempt)
    BY <2>1 DEF RecordOK, Number
  <2>3. QED
    BY <1>1, <2>1, <2>2, Rows DEF RecordOK, Number, Held
<1>4. \A m : m # n => (m \in sandbox' <=> m \in sandbox)
  OBVIOUS
<1>5. n \in sandbox' => n \in sandbox \/ attempt[n].named
  BY <1>3
<1>6. RowsTyped'
  BY <1>1, <1>3 DEF TypeOK, RowsTyped, Latest
<1>7. Facts'
  <2>1. RowsOK'
    <3>1. ASSUME NEW m \in 1 .. MaxAttempts
          PROVE  /\ m > Len(attempt) => evidence[m] = "none" /\ m \notin sandbox'
                 /\ m \in sandbox' => attempt[m].named
      <4>1. CASE m = n
        <5>1. ~(n > Len(attempt))
          BY <1>1, <1>3, Rows
        <5>2. n \in sandbox => attempt[n].named
          BY <1>1, <1>3 DEF RowsOK
        <5>3. QED
          BY <1>5, <4>1, <5>1, <5>2
      <4>2. CASE m # n
        BY <1>1, <1>4, <4>2 DEF RowsOK
      <4>3. QED
        BY <4>1, <4>2
    <3>2. QED
      BY <1>1, <3>1 DEF RowsOK
  <2>2. VerdictIsEvidenced'
    BY <1>1 DEF VerdictIsEvidenced, Decided, Verdict
  <2>3. AbandonedIsClean'
    BY <1>1, <1>3, <1>4 DEF AbandonedIsClean, Calm
  <2>4. QED
    BY <2>1, <2>2, <2>3 DEF Facts
<1>8. ASSUME NEW g \in Handler \ {h}
      PROVE  Kept(handler[g])
  <2>1. Calm /\ handler[g].phase = "abandoning" => Number(g) # n
    BY <1>1 DEF HandlersOK, Apart, Busy, Working, Number
  <2>2. Len(attempt) \in Nat
    BY <1>1, Rows
  <2>3. QED
    BY <1>2, <1>4, <2>1, <2>2 DEF Kept, Held, Number
<1>9. RecordOK(r, attempt', evidence', sandbox', Calm')
  BY <1>2 DEF RecordOK, Settling, Held
<1>10. \A g \in Handler \ {h} : Apart(r, handler[g], Calm')
  BY <1>2, FollowsApart
<1>11. ~In(h, "idle")
  BY DEF In, Working, Executing, Creating
<1>12. OneShot /\ Smooth' /\ r.phase = "reply" => run'.state # "baseline_running"
  BY DEF Smooth, Calm
<1>13. UNCHANGED job /\ (UNCHANGED faults \/ Error)
  OBVIOUS
<1>14. QED
  BY <1>6, <1>7, <1>8, <1>9, <1>10, <1>11, <1>12, <1>13, Step

-----------------------------------------------------------------------------
(* The steps of a handler                                                  *)

(* What a handler at work knows of its attempt.                             *)
LEMMA AtWork ==
    ASSUME Inv, NEW h \in Handler, handler[h].phase \in Working
    PROVE  /\ RecordOK(handler[h], attempt, evidence, sandbox, Calm)
           /\ Number(h) \in 1 .. Len(attempt) /\ Number(h) \in 1 .. MaxAttempts
           /\ attempt[Number(h)] \in Attempt
           /\ Calm => Owns(h)
           /\ \A g \in Handler \ {h} : Calm /\ handler[g].phase \in Working => Number(g) # Number(h)
           /\ ~In(h, "idle") /\ ~In(h, "received")
           /\ OneShot => handler[h].phase \notin {"recovering", "abandoning"}
<1>1. RecordOK(handler[h], attempt, evidence, sandbox, Calm) /\ TypeOK
  BY DEF Inv, HandlersOK
<1>2. Number(h) \in 1 .. Len(attempt)
  BY <1>1 DEF RecordOK, Number
<1>3. Number(h) \in 1 .. MaxAttempts /\ attempt[Number(h)] \in Attempt
  BY <1>1, <1>2, Rows
<1>4. Calm => Owns(h)
  BY <1>1 DEF RecordOK, Held, Owns, Number
<1>5. \A g \in Handler \ {h} : Calm /\ handler[g].phase \in Working => Number(g) # Number(h)
  BY DEF Inv, HandlersOK, Apart, Busy, Number
<1>6. ~In(h, "idle") /\ ~In(h, "received")
  BY DEF In, Working, Executing, Creating
<1>7. OneShot => handler[h].phase \notin {"recovering", "abandoning"}
  BY <1>6 DEF Inv, ExactOK, In
<1>8. QED
  BY <1>1, <1>2, <1>3, <1>4, <1>5, <1>6, <1>7

LEMMA FinishStep ==
    ASSUME Inv, NEW h \in Handler, handler[h].phase \in Working,
           NEW state \in DecidedState \cup {"retryable_failed", "abandoned"}, NEW result \in Outcome,
           (result = "passed") <=> (state = "succeeded"),
           (result = "customer_failed") <=> (state = "customer_failed"),
           result \notin Infrastructure => evidence[Number(h)] = result,
           OneShot => state \in DecidedState,
           Calm /\ state = "abandoned" =>
              Number(h) \notin sandbox /\ evidence[Number(h)] = "none",
           FinishAs(h, state, result),
           UNCHANGED <<run, evidence, sandbox, fenced, job, faults>>
    PROVE  Inv'
<1> DEFINE n == Number(h)
           a == [attempt[n] EXCEPT !.state = state, !.live = FALSE]
<1>1. TypeOK /\ RowsOK /\ HandlersOK /\ fenced' \in BOOLEAN
  BY DEF Inv, TypeOK
<1>2. state \in AttemptState /\ result \in Results
  BY DEF AttemptState, Results
<1>3. a \in Attempt /\ a.state = state /\ a.named = attempt[n].named
  BY <1>2, AtWork DEF Attempt
<1>4. CASE ~Owns(h)
  <2>1. Goto(h, "reply", "failed") /\ UNCHANGED attempt
    BY <1>4 DEF FinishAs, Reply
  <2>2. PICK r \in Local : /\ handler' = [handler EXCEPT ![h] = r] /\ r.phase = "reply"
    BY <1>1, <2>1, GotoEffect DEF Phase, Results, Answer
  <2>3. RecordOK(r, attempt, evidence, sandbox, Calm) /\ Follows(r, handler[h])
    BY <2>2 DEF RecordOK, Follows, Busy, Working, Executing, Creating
  <2>4. QED
    BY <1>1, <1>4, <2>1, <2>2, <2>3, AtWork, Reading
<1>5. CASE Owns(h)
  <2>1. attempt[n].state = "active" /\ n = Len(attempt) /\ n \in 1 .. Len(attempt)
    BY <1>1, <1>5, AtWork DEF Owns, RowsOK
  <2>2. attempt' = [attempt EXCEPT ![n] = a]
    BY <1>1, <1>5, <2>1, AtWork DEF FinishAs, TypeOK, Attempt
  <2>3. Len(attempt') = Len(attempt) /\ attempt'[n] = a
    BY <1>1, <1>3, <2>1, <2>2, SetAttempt
  <2>4. CASE state \in DecidedState
    <3>1. Goto(h, "transition", result)
      BY <1>5, <2>4 DEF FinishAs
    <3>2. PICK r \in Local : /\ handler' = [handler EXCEPT ![h] = r] /\ r.phase = "transition"
                             /\ r.result = result /\ r.attempt = n
      BY <1>1, <1>2, <3>1, GotoEffect DEF Phase
    <3>3. Settling(r, attempt')
      BY <1>3, <2>1, <2>3, <2>4, <3>2 DEF Settling, DecidedState
    <3>4. RecordOK(r, attempt', evidence, sandbox, Calm)
      BY <3>2, <3>3 DEF RecordOK, Working, Executing, Creating
    <3>5. \A g \in Handler \ {h} : Apart(r, handler[g], Calm)
      BY <3>2 DEF Apart, Busy, Working, Executing, Creating
    <3>6. /\ a.state = "succeeded" => evidence[n] = "passed"
          /\ a.state = "customer_failed" => evidence[n] = "customer_failed"
          /\ a.state # "abandoned"
      BY <1>3, <2>4 DEF Infrastructure, DecidedState
    <3>7. QED
      BY <1>3, <2>1, <2>2, <3>2, <3>4, <3>5, <3>6, AtWork, Writing
  <2>5. CASE state \notin DecidedState
    <3>1. Goto(h, "reply", "failed")
      BY <1>5, <2>5 DEF FinishAs, Reply
    <3>2. PICK r \in Local : /\ handler' = [handler EXCEPT ![h] = r] /\ r.phase = "reply"
      BY <1>1, <3>1, GotoEffect DEF Phase, Results, Answer
    <3>3. RecordOK(r, attempt', evidence, sandbox, Calm)
      BY <3>2 DEF RecordOK, Working, Executing, Creating
    <3>4. \A g \in Handler \ {h} : Apart(r, handler[g], Calm)
      BY <3>2 DEF Apart, Busy, Working, Executing, Creating
    <3>5. ~OneShot /\ a.state \notin {"succeeded", "customer_failed"}
      BY <1>3, <2>5 DEF DecidedState
    <3>6. Calm /\ a.state = "abandoned" => n \notin sandbox /\ evidence[n] = "none"
      BY <1>3
    <3>7. QED
      BY <1>3, <2>1, <2>2, <3>2, <3>3, <3>4, <3>5, <3>6, AtWork, Writing
  <2>6. QED
    BY <2>4, <2>5
<1>6. QED
  BY <1>4, <1>5

LEMMA ReplyStep ==
    ASSUME Inv, NEW h \in Handler, ~In(h, "idle"), NEW answer \in Answer, Reply(h, answer),
           UNCHANGED <<run, attempt, evidence, sandbox, fenced, job, faults>>,
           OneShot /\ Calm => run.state # "baseline_running"
    PROVE  Inv'
<1>1. TypeOK /\ fenced' \in BOOLEAN
  BY DEF Inv, TypeOK
<1>2. PICK r \in Local : handler' = [handler EXCEPT ![h] = r] /\ r.phase = "reply"
  BY <1>1, GotoEffect DEF Reply, Phase, Results
<1>3. RecordOK(r, attempt, evidence, sandbox, Calm) /\ Follows(r, handler[h])
  BY <1>2 DEF RecordOK, Follows, Busy, Working, Executing, Creating
<1>4. QED
  BY <1>1, <1>2, <1>3, Reading

(* A handler that has not claimed yet: a reviewed run is untouched.          *)
LEMMA Unclaimed ==
    ASSUME Inv, NEW h \in Handler, In(h, "received")
    PROVE  /\ TypeOK /\ RowsOK /\ ~In(h, "idle")
           /\ OneShot => attempt = << >> /\ run.state # "baseline_running" /\ Active = {}
BY DEF Inv, ExactOK, In, Active

LEMMA RefuseStep == ASSUME Inv, NEW h \in Handler, Refuse(h) PROVE Inv'
BY Unclaimed, ReplyStep DEF Refuse, Answer

ClaimRest == UNCHANGED <<evidence, sandbox, fenced, job, faults>>

LEMMA ClaimTerminalStep ==
    ASSUME Inv, NEW h \in Handler, In(h, "received"), ClaimTerminal(h), ClaimRest
    PROVE  Inv'
BY Unclaimed, ReplyStep DEF ClaimTerminal, ClaimRest, Answer

LEMMA ClaimBusyStep ==
    ASSUME Inv, NEW h \in Handler, In(h, "received"), ClaimBusy(h), ClaimRest
    PROVE  Inv'
BY Unclaimed, ReplyStep DEF ClaimBusy, ClaimRest, Answer

LEMMA ActiveIsLast ==
    ASSUME Inv, NEW n \in Active
    PROVE  n \in 1 .. Len(attempt) /\ n = Len(attempt) /\ attempt[n].state = "active"
BY Rows DEF Inv, RowsOK, Active

LEMMA NoneActive ==
    ASSUME Inv, Active = {}
    PROVE  \A n \in 1 .. Len(attempt) : attempt[n].state # "active"
BY Rows DEF Inv, Active

LEMMA ClaimStaleStep ==
    ASSUME Inv, NEW h \in Handler, In(h, "received"), ClaimStale(h), ClaimRest
    PROVE  Inv'
<1>1. TypeOK /\ ~OneShot /\ ~In(h, "idle") /\ UNCHANGED <<run, evidence, sandbox, fenced, job, faults>>
  BY Unclaimed DEF ClaimStale, ClaimRest
<1>2. PICK n \in Active :
        /\ ~attempt[n].live
        /\ attempt' = [attempt EXCEPT ![n].token = @ + 1, ![n].live = TRUE]
        /\ Hold(h, n, attempt[n].token + 1, "recovering")
  BY DEF ClaimStale
<1> DEFINE token == attempt[n].token + 1
           a == [attempt[n] EXCEPT !.token = token, !.live = TRUE]
           r == [phase |-> "recovering", attempt |-> n, token |-> token, result |-> "none"]
<1>3. /\ n \in 1 .. Len(attempt) /\ attempt[n] \in Attempt /\ attempt[n].state = "active"
      /\ n \in Nat /\ Len(attempt) \in Nat
  BY <1>1, ActiveIsLast, Rows
<1>4. token \in Nat
  BY <1>3 DEF Attempt
<1>5. a \in Attempt /\ r \in Local
  BY <1>3, <1>4 DEF Attempt, Local, Phase
<1>6. /\ a.state = "active" /\ a.live /\ a.token = token /\ a.named = attempt[n].named
      /\ r.phase = "recovering" /\ r.attempt = n /\ r.token = token
  BY <1>3 DEF Attempt
<1>7. attempt' = [attempt EXCEPT ![n] = a]
  BY <1>1, <1>2, <1>3 DEF TypeOK, Attempt
<1>8. handler' = [handler EXCEPT ![h] = r]
  BY <1>2 DEF Hold
<1> HIDE DEF a, r, token
<1>9. Len(attempt') = Len(attempt) /\ attempt'[n] = a
  BY <1>1, <1>3, <1>5, <1>7, SetAttempt
<1>10. \A g \in Handler \ {h} : Calm /\ handler[g].phase \in Working => Number(g) # n
  BY <1>2, AtWork DEF Owns
<1>11. RecordOK(r, attempt', evidence, sandbox, Calm)
  BY <1>3, <1>6, <1>9 DEF RecordOK, Held, Executing, Creating
<1>12. \A g \in Handler \ {h} : Apart(r, handler[g], Calm)
  BY <1>6, <1>10 DEF Apart, Busy, Working, Executing, Creating, Number
<1>13. QED
  BY <1>1, <1>3, <1>5, <1>6, <1>7, <1>8, <1>10, <1>11, <1>12, Writing

(* What reconciling a decided attempt, or the last one there may be, yields.  *)
LEMMA ReconciledOutcome ==
    ASSUME Inv, Active = {}, Settled \/ Latest >= MaxAttempts
    PROVE  /\ Len(attempt) \in 1 .. Len(attempt)
           /\ Reconciled(Len(attempt)) \in Outcome
           /\ attempt[Len(attempt)].state # "active"
           /\ attempt[Len(attempt)].state \in DecidedState \/ Len(attempt) >= MaxAttempts
           /\ (Reconciled(Len(attempt)) = "passed") <=> (attempt[Len(attempt)].state = "succeeded")
           /\ (Reconciled(Len(attempt)) = "customer_failed")
                 <=> (attempt[Len(attempt)].state = "customer_failed")
<1> DEFINE last == Len(attempt)
<1>1. TypeOK /\ RowsOK
  BY DEF Inv
<1>2. last \in 1 .. Len(attempt)
  BY <1>1, Rows DEF Settled, Decided, Latest
<1>3. attempt[last].state # "active"
  BY <1>2, NoneActive
<1>4. attempt[last].state \in DecidedState \/ Len(attempt) >= MaxAttempts
  BY DEF Settled, Decided, Latest
<1>5. /\ attempt[last].state = "succeeded" => evidence[last] = "passed"
      /\ attempt[last].state = "customer_failed" => evidence[last] = "customer_failed"
  BY <1>1, <1>2 DEF RowsOK
<1>6. QED
  BY <1>2, <1>3, <1>4, <1>5 DEF Reconciled, Verdict, Outcome

LEMMA ClaimSpentStep ==
    ASSUME Inv, NEW h \in Handler, In(h, "received"), ClaimSpent(h), ClaimRest
    PROVE  Inv'
<1> DEFINE r == [phase |-> "transition", attempt |-> Latest, token |-> 0,
                 result |-> Reconciled(Latest)]
<1>1. /\ TypeOK /\ ~In(h, "idle") /\ fenced' \in BOOLEAN
      /\ UNCHANGED <<run, attempt, evidence, sandbox, job, faults>>
  BY Unclaimed DEF ClaimSpent, ClaimRest, TypeOK
<1>2. /\ Len(attempt) \in 1 .. Len(attempt) /\ Len(attempt) \in Nat
      /\ Reconciled(Latest) \in Outcome
  BY <1>1, ReconciledOutcome, Rows DEF ClaimSpent, Latest
<1>3. r \in Local /\ handler' = [handler EXCEPT ![h] = r]
  BY <1>2 DEF Local, Phase, Latest, ClaimSpent
<1>4. r.phase = "transition" /\ r.attempt = Len(attempt) /\ r.result = Reconciled(Len(attempt))
  BY DEF Latest
<1> HIDE DEF r
<1>5. Settling(r, attempt)
  BY <1>2, <1>4, ReconciledOutcome DEF Settling, ClaimSpent
<1>6. RecordOK(r, attempt, evidence, sandbox, Calm) /\ Follows(r, handler[h])
  BY <1>4, <1>5 DEF RecordOK, Follows, Busy, Working, Executing, Creating
<1>7. QED
  BY <1>1, <1>3, <1>4, <1>6, Reading

(* The run alone changes, and nobody was working on it.                      *)
LEMMA RunStep ==
    ASSUME Inv, NEW h \in Handler, ~In(h, "idle"), NEW answer \in Answer, Reply(h, answer),
           run' \in Run, run'.state \notin {"created", "baseline_running"}, VerdictIsEvidenced',
           \A n \in 1 .. Len(attempt) : attempt[n].state # "active",
           UNCHANGED <<attempt, evidence, sandbox, fenced, job, faults>>
    PROVE  Inv'
<1>1. TypeOK /\ RowsOK /\ AbandonedIsClean /\ HandlersOK
  BY DEF Inv
<1>2. PICK r \in Local : handler' = [handler EXCEPT ![h] = r] /\ r.phase = "reply"
  BY <1>1, GotoEffect DEF Reply, Phase, Results
<1>3. RowsTyped'
  BY <1>1 DEF TypeOK, RowsTyped, Latest
<1>4. Facts'
  BY <1>1 DEF Facts, RowsOK, AbandonedIsClean
<1>5. Calm' <=> Calm
  BY DEF Calm
<1>6. \A g \in Handler \ {h} : Kept(handler[g])
  BY <1>1, <1>5, Rows DEF Kept, Held
<1>7. /\ RecordOK(r, attempt', evidence', sandbox', Calm')
      /\ \A g \in Handler \ {h} : Apart(r, handler[g], Calm')
  BY <1>2 DEF RecordOK, Apart, Busy, Working, Executing, Creating
<1>8. OneShot /\ Smooth' /\ r.phase = "reply" => run'.state # "baseline_running"
  OBVIOUS
<1>9. UNCHANGED job /\ (UNCHANGED faults \/ Error)
  OBVIOUS
<1>10. QED
  BY <1>2, <1>3, <1>4, <1>6, <1>7, <1>8, <1>9, Step

LEMMA ClaimFencedStep ==
    ASSUME Inv, NEW h \in Handler, In(h, "received"), ClaimFenced(h), ClaimRest
    PROVE  Inv'
<1>1. run' \in Run /\ run'.state = "infrastructure_failed"
  BY DEF Inv, TypeOK, ClaimFenced, Run, RunState
<1>2. VerdictIsEvidenced'
  BY <1>1 DEF VerdictIsEvidenced
<1>3. \A n \in 1 .. Len(attempt) : attempt[n].state # "active"
  BY NoneActive DEF ClaimFenced, Claimable
<1>4. QED
  BY <1>1, <1>2, <1>3, Unclaimed, RunStep DEF ClaimFenced, ClaimRest, Answer

LEMMA TransitionStep ==
    ASSUME Inv, NEW h \in Handler, Transition(h)
    PROVE  Inv'
<1>1. /\ TypeOK /\ RowsOK /\ ~In(h, "idle")
      /\ UNCHANGED <<attempt, evidence, sandbox, fenced, job, faults>>
  BY DEF Inv, Transition, In
<1>2. Settling(handler[h], attempt)
  BY DEF Inv, HandlersOK, RecordOK, Transition, In
<1>3. CASE run.state # "baseline_running"
  BY <1>1, <1>3, ReplyStep DEF Transition, Answer
<1>4. CASE run.state = "baseline_running"
  <2> DEFINE last == Len(attempt)
  <2>1. last \in 1 .. Len(attempt) /\ Number(h) = last /\ last \in Nat
    BY <1>1, <1>2, Rows DEF Settling, Number
  <2>2. \A n \in 1 .. Len(attempt) : attempt[n].state # "active"
    BY <1>1, <1>2 DEF Settling, RowsOK
  <2>3. CASE Result(h) \in Infrastructure
    <3>1. run' \in Run /\ run'.state = "infrastructure_failed"
      BY <1>1, <1>4, <2>3 DEF Transition, TypeOK, Run, RunState
    <3>2. VerdictIsEvidenced'
      BY <3>1 DEF VerdictIsEvidenced
    <3>3. QED
      BY <1>1, <1>4, <2>2, <3>1, <3>2, RunStep DEF Transition, Answer
  <2>4. CASE Result(h) \notin Infrastructure
    <3>1. /\ run' \in Run /\ run'.state = "ready_for_investigation" /\ run'.baseline = last
          /\ run'.classification = IF Result(h) = "passed" THEN "none"
                                   ELSE "customer_baseline_failure"
      BY <1>4, <2>1, <2>4 DEF Transition, Run, RunState
    <3>2. Result(h) \in {"passed", "customer_failed"}
      BY <1>2, <2>4 DEF Settling, Result, Infrastructure, Outcome
    <3>3. /\ attempt[last].state = IF Result(h) = "passed" THEN "succeeded" ELSE "customer_failed"
          /\ evidence[last] = Result(h)
      BY <1>1, <1>2, <2>1, <3>2 DEF Settling, Result, RowsOK
    <3>4. Verdict(last) = Result(h) /\ attempt[last].state \in DecidedState
      BY <3>2, <3>3 DEF Verdict, DecidedState
    <3>5. VerdictIsEvidenced'
      BY <1>1, <2>1, <3>1, <3>2, <3>3, <3>4, Rows DEF VerdictIsEvidenced, Decided, Verdict
    <3>6. QED
      BY <1>1, <1>4, <2>2, <3>1, <3>5, RunStep DEF Transition, Answer
  <2>5. QED
    BY <2>3, <2>4
<1>5. QED
  BY <1>3, <1>4

LEMMA ClaimNewStep ==
    ASSUME Inv, NEW h \in Handler, In(h, "received"), ClaimNew(h), ClaimRest
    PROVE  Inv'
<1> DEFINE n == Len(attempt) + 1
           a == [state |-> "active", token |-> 1, live |-> TRUE, named |-> FALSE]
           r == [phase |-> "checking", attempt |-> n, token |-> 1, result |-> "none"]
<1>1. /\ TypeOK /\ RowsOK /\ HandlersOK /\ AbandonedIsClean /\ ~In(h, "idle")
      /\ UNCHANGED <<evidence, sandbox, fenced, job, faults>>
  BY Unclaimed DEF Inv, ClaimRest
<1>2. Calm' <=> Calm
  BY <1>1 DEF Calm
<1>3. /\ attempt \in Seq(Attempt) /\ Len(attempt) \in Nat /\ n \in 1 .. MaxAttempts
      /\ MaxAttempts \in Nat /\ n > Len(attempt)
      /\ DOMAIN attempt = 1 .. Len(attempt)
  BY <1>1, Rows DEF TypeOK, ClaimNew, Claimable, Latest
<1>4. a \in Attempt /\ r \in Local
  BY <1>3 DEF Attempt, AttemptState, Local, Phase
<1>5. attempt' = Append(attempt, a) /\ handler' = [handler EXCEPT ![h] = r]
  BY <1>3 DEF ClaimNew, Hold, Latest
<1>6. /\ a.state = "active" /\ a.token = 1 /\ a.live
      /\ r.phase = "checking" /\ r.attempt = n /\ r.token = 1
  OBVIOUS
<1> HIDE DEF a, r
<1>7. /\ attempt' \in Seq(Attempt) /\ Len(attempt') = n /\ attempt'[n] = a
      /\ \A m \in 1 .. Len(attempt) : attempt'[m] = attempt[m]
      /\ DOMAIN attempt' = 1 .. n
  BY <1>3, <1>4, <1>5
<1>8. run' \in Run /\ run'.state = "baseline_running"
  BY <1>1 DEF ClaimNew, TypeOK, Run, RunState
<1>9. RowsTyped'
  BY <1>1, <1>3, <1>7, <1>8 DEF TypeOK, RowsTyped, Latest
<1>10. \A m \in 1 .. Len(attempt) : attempt[m].state # "active"
  BY NoneActive DEF ClaimNew, Claimable
<1>11. evidence[n] = "none" /\ n \notin sandbox
  BY <1>1, <1>3 DEF RowsOK
<1>12. Facts'
  <2>1. ASSUME NEW m \in 1 .. n
        PROVE  /\ attempt'[m].state = "active" => m = n
               /\ attempt'[m].state = "succeeded" => evidence[m] = "passed"
               /\ attempt'[m].state = "customer_failed" => evidence[m] = "customer_failed"
               /\ Calm /\ attempt'[m].state = "abandoned" => m \notin sandbox /\ evidence[m] = "none"
    <3>1. CASE m = n
      BY <1>6, <1>7, <3>1
    <3>2. CASE m \in 1 .. Len(attempt)
      BY <1>1, <1>3, <1>7, <1>10, <3>2 DEF RowsOK, AbandonedIsClean, Calm
    <3>3. QED
      BY <1>3, <3>1, <3>2
  <2>2. ASSUME NEW m \in 1 .. MaxAttempts
        PROVE  /\ m > n => evidence[m] = "none" /\ m \notin sandbox
               /\ m \in sandbox => attempt'[m].named
    <3>1. m \in sandbox => m \in 1 .. Len(attempt)
      <4>1. ~(m > Len(attempt)) <=> m \in 1 .. Len(attempt)
        BY <1>3
      <4>2. QED
        BY <1>1, <4>1 DEF RowsOK
    <3>2. m > n => m > Len(attempt)
      BY <1>3
    <3>3. QED
      BY <1>1, <1>7, <3>1, <3>2 DEF RowsOK
  <2>3. RowsOK'
    BY <1>1, <1>7, <1>8, <2>1, <2>2 DEF RowsOK
  <2>4. AbandonedIsClean'
    BY <1>1, <1>2, <1>7, <2>1 DEF AbandonedIsClean, Calm
  <2>5. VerdictIsEvidenced'
    BY <1>8 DEF VerdictIsEvidenced
  <2>6. QED
    BY <2>3, <2>4, <2>5 DEF Facts
<1>13. ASSUME NEW g \in Handler \ {h}
       PROVE  /\ Kept(handler[g])
              /\ handler[g].phase \in Working => Number(g) \in 1 .. Len(attempt)
  <2>1. RecordOK(handler[g], attempt, evidence, sandbox, Calm)
    BY <1>1 DEF HandlersOK
  <2>2. handler[g].phase \in Working => Number(g) \in 1 .. Len(attempt)
    BY <2>1 DEF RecordOK, Number
  <2>3. handler[g].phase # "transition"
    <3>1. ~(Len(attempt) > 0 /\ attempt[Len(attempt)].state \in DecidedState) /\ Len(attempt) < MaxAttempts
      BY <1>3 DEF ClaimNew, Claimable, Settled, Decided, Latest
    <3>2. QED
      BY <1>3, <2>1, <3>1, Rows, RunAssumption DEF RecordOK, Settling
  <2>4. handler[g].phase \in Creating => attempt'[Number(g)] = attempt[Number(g)]
    BY <1>7, <2>2 DEF Working, Executing
  <2>5. handler[g].phase \in Working => attempt'[Number(g)] = attempt[Number(g)]
    BY <1>7, <2>2
  <2>6. Len(attempt) <= Len(attempt')
    BY <1>3, <1>7
  <2>7. QED
    BY <1>1, <1>2, <2>2, <2>3, <2>4, <2>5, <2>6 DEF Kept, Held, Number
<1>14. RecordOK(r, attempt', evidence', sandbox', Calm')
  BY <1>1, <1>3, <1>6, <1>7, <1>11 DEF RecordOK, Held, Creating
<1>15. \A g \in Handler \ {h} : Apart(r, handler[g], Calm')
  BY <1>3, <1>6, <1>13 DEF Apart, Busy, Working, Number
<1>16. QED
  BY <1>1, <1>4, <1>5, <1>6, <1>9, <1>12, <1>13, <1>14, <1>15, Step

LEMMA ClaimStep == ASSUME Inv, NEW h \in Handler, Claim(h) PROVE Inv'
<1>1. In(h, "received") /\ ClaimRest
  BY DEF Claim, ClaimRest
<1>2. QED
  BY <1>1, ClaimTerminalStep, ClaimBusyStep, ClaimStaleStep, ClaimSpentStep, ClaimFencedStep,
     ClaimNewStep DEF Claim

(* A handler at work that goes on to another phase of it and changes nothing. *)
LEMMA GoesOn ==
    ASSUME Inv, NEW h \in Handler, handler[h].phase \in Working,
           NEW phase \in Phase, phase \in Working, NEW result \in Results, Goto(h, phase, result),
           UNCHANGED <<run, attempt, evidence, sandbox, fenced, job, faults>>,
           phase \in Executing => handler[h].phase \in Executing,
           phase \in Creating => attempt[Number(h)].named,
           phase \in {"cleaning", "reporting", "inserting", "finishing"} => result \in Outcome,
           phase = "finishing" /\ result \notin Infrastructure => evidence[Number(h)] = result,
           Calm /\ phase = "abandoning" => Number(h) \notin sandbox /\ evidence[Number(h)] = "none",
           OneShot => phase \notin {"recovering", "abandoning"}
    PROVE  Inv'
<1>1. TypeOK /\ fenced' \in BOOLEAN
  BY DEF Inv, TypeOK
<1>2. PICK r \in Local :
        /\ handler' = [handler EXCEPT ![h] = r]
        /\ r.phase = phase /\ r.result = result
        /\ r.attempt = Number(h) /\ r.token = handler[h].token
  BY <1>1, GotoEffect
<1>3. /\ RecordOK(handler[h], attempt, evidence, sandbox, Calm) /\ Number(h) \in 1 .. Len(attempt)
      /\ ~In(h, "idle") /\ (Calm => Owns(h))
  BY AtWork
<1>4. Calm => Held(r, attempt)
  BY <1>2, <1>3 DEF Owns, Held
<1>5. phase \in Executing => evidence[Number(h)] = "none"
  BY <1>3 DEF RecordOK, Number
<1>6. r.phase \notin {"transition", "received", "reply"}
  BY <1>2 DEF Working, Executing, Creating
<1>7. RecordOK(r, attempt, evidence, sandbox, Calm)
  BY <1>2, <1>3, <1>4, <1>5, <1>6 DEF RecordOK
<1>8. Follows(r, handler[h])
  BY <1>1, <1>2 DEF Follows, Busy, Calm, Number
<1>9. QED
  BY <1>1, <1>2, <1>3, <1>6, <1>7, <1>8, Reading

LEMMA InWorking ==
    ASSUME NEW h \in Handler, NEW phase \in Working, In(h, phase)
    PROVE  handler[h].phase \in Working /\ handler[h].phase = phase
BY DEF In

LEMMA CheckStep == ASSUME Inv, NEW h \in Handler, Check(h) PROVE Inv'
<1>1. handler[h].phase = "checking" /\ handler[h].phase \in Working /\ handler[h].phase \in Executing
  BY DEF Check, In, Working, Executing
<1>2. CASE Goto(h, "starting", "none") /\ UNCHANGED attempt
  BY <1>1, <1>2, GoesOn DEF Check, Phase, Results, Working, Executing, Creating
<1>3. CASE FinishAs(h, "exhausted", "terminal")
  BY <1>1, <1>3, FinishStep DEF Check, DecidedState, Outcome, Infrastructure
<1>4. QED
  BY <1>2, <1>3 DEF Check

LEMMA StartFailsStep == ASSUME Inv, NEW h \in Handler, StartFails(h) PROVE Inv'
<1>1. handler[h].phase = "starting" /\ handler[h].phase \in Working /\ handler[h].phase \in Executing
  BY DEF StartFails, In, Working, Executing
<1>2. PICK phase \in {"finishing", "reporting"}, result \in Infrastructure : Goto(h, phase, result)
  BY DEF StartFails
<1>3. phase \in Phase /\ phase \in Working /\ phase \notin Creating /\ result \in Results /\ result \in Outcome
  BY DEF Phase, Working, Executing, Creating, Infrastructure, Outcome, Results
<1>4. QED
  BY <1>1, <1>2, <1>3, GoesOn DEF StartFails

LEMMA RequestSandboxStep == ASSUME Inv, NEW h \in Handler, RequestSandbox(h) PROVE Inv'
<1> DEFINE n == Number(h)
           a == [attempt[n] EXCEPT !.named = TRUE]
<1>1. handler[h].phase = "starting" /\ handler[h].phase \in Working /\ handler[h].phase \in Executing
  BY DEF RequestSandbox, In, Working, Executing
<1>2. CASE ~Owns(h)
  BY <1>1, <1>2, GoesOn DEF RequestSandbox, Phase, Results, Outcome, Working, Executing, Creating
<1>3. CASE Owns(h)
  <2>1. /\ TypeOK /\ HandlersOK /\ n \in 1 .. Len(attempt) /\ attempt[n] \in Attempt
        /\ RecordOK(handler[h], attempt, evidence, sandbox, Calm) /\ ~In(h, "idle")
    BY <1>1, AtWork DEF Inv
  <2>2. /\ attempt' = [attempt EXCEPT ![n].named = TRUE] /\ Goto(h, "requested", "none")
        /\ UNCHANGED <<run, evidence, sandbox, fenced, job, faults>>
    BY <1>3 DEF RequestSandbox
  <2>3. /\ a \in Attempt /\ a.named
        /\ a.state = attempt[n].state /\ a.token = attempt[n].token /\ a.live = attempt[n].live
    BY <2>1 DEF Attempt
  <2>4. attempt' = [attempt EXCEPT ![n] = a]
    BY <2>1, <2>2 DEF TypeOK, Attempt
  <2> HIDE DEF a
  <2>5. Len(attempt') = Len(attempt) /\ attempt'[n] = a
    BY <2>1, <2>3, <2>4, SetAttempt
  <2>6. PICK r \in Local :
          /\ handler' = [handler EXCEPT ![h] = r]
          /\ r.phase = "requested" /\ r.attempt = n /\ r.token = handler[h].token
    BY <2>1, <2>2, GotoEffect DEF Phase, Results
  <2>7. attempt[n].state = "active" /\ Held(r, attempt')
    BY <1>3, <2>3, <2>5, <2>6 DEF Owns, Held
  <2>8. evidence[n] = "none"
    BY <1>1, <2>1 DEF RecordOK, Number
  <2>9. RecordOK(r, attempt', evidence, sandbox, Calm)
    BY <2>1, <2>3, <2>5, <2>6, <2>7, <2>8 DEF RecordOK
  <2>10. \A g \in Handler \ {h} : Apart(r, handler[g], Calm)
    <3>1. \A g \in Handler \ {h} : Apart(handler[h], handler[g], Calm)
      BY <2>1 DEF HandlersOK
    <3>2. QED
      BY <1>1, <2>6, <3>1 DEF Apart, Busy, Number
  <2>11. /\ a.state \notin {"succeeded", "customer_failed", "abandoned"}
         /\ \A g \in Handler \ {h} : Calm /\ handler[g].phase \in Working => Number(g) # n
    BY <1>1, <2>3, <2>7, AtWork
  <2>12. QED
    BY <2>1, <2>2, <2>3, <2>4, <2>6, <2>7, <2>9, <2>10, <2>11, Writing
<1>4. QED
  BY <1>2, <1>3

LEMMA WorkStep == ASSUME Inv, NEW h \in Handler, Work(h) PROVE Inv'
<1>1. handler[h].phase = "created" /\ handler[h].phase \in Working /\ handler[h].phase \in Executing
      /\ handler[h].phase \in Creating
  BY DEF Work, In, Working, Executing, Creating
<1>2. PICK result \in Outcome : Goto(h, "cleaning", result)
  BY DEF Work, Infrastructure, Outcome
<1>3. attempt[Number(h)].named
  BY <1>1, AtWork DEF RecordOK, Number
<1>4. result \in Results /\ "cleaning" \in Phase /\ "cleaning" \in Working
  BY DEF Results, Phase, Working, Executing, Creating
<1>5. QED
  BY <1>1, <1>2, <1>3, <1>4, GoesOn DEF Work

(* A handler that exchanges with the provider and goes on.                   *)
LEMMA Exchange ==
    ASSUME Inv, NEW h \in Handler, handler[h].phase \in Creating,
           NEW phase \in {"created", "cleaning", "reporting"}, NEW result \in Results,
           Goto(h, phase, result), phase \in {"cleaning", "reporting"} => result \in Outcome,
           UNCHANGED <<run, attempt, evidence, job, faults>>, fenced' \in BOOLEAN,
           sandbox' \in {sandbox, sandbox \ {Number(h)}, sandbox \cup {Number(h)}}
    PROVE  Inv'
<1>1. /\ TypeOK /\ handler[h].phase \in Working /\ handler[h].phase \in Executing
      /\ phase \in Phase /\ phase \in Executing
  BY DEF Inv, Phase, Working, Executing, Creating
<1>2. PICK r \in Local :
        /\ handler' = [handler EXCEPT ![h] = r]
        /\ r.phase = phase /\ r.result = result
        /\ r.attempt = Number(h) /\ r.token = handler[h].token
  BY <1>1, GotoEffect
<1>3. /\ RecordOK(handler[h], attempt, evidence, sandbox, Calm) /\ Number(h) \in 1 .. Len(attempt)
      /\ (Calm => Owns(h))
  BY <1>1, AtWork
<1>4. Calm => Held(r, attempt)
  BY <1>2, <1>3 DEF Owns, Held
<1>5. attempt[Number(h)].named /\ evidence[Number(h)] = "none"
  BY <1>1, <1>3 DEF RecordOK, Number
<1>6. RecordOK(r, attempt, evidence, sandbox', Calm)
  BY <1>2, <1>3, <1>4, <1>5 DEF RecordOK
<1>7. Follows(r, handler[h])
  BY <1>1, <1>2 DEF Follows, Busy, Calm, Number
<1>8. QED
  BY <1>1, <1>2, <1>6, <1>7, Boxing

LEMMA CreateSandboxStep == ASSUME Inv, NEW h \in Handler, CreateSandbox(h) PROVE Inv'
<1>1. handler[h].phase \in Creating /\ fenced \in BOOLEAN
  BY DEF CreateSandbox, In, Creating, Inv, TypeOK
<1>2. CASE sandbox' = sandbox \cup {Number(h)} /\ Goto(h, "created", "none") /\ UNCHANGED fenced
  BY <1>1, <1>2, Exchange DEF CreateSandbox, Results
<1>3. CASE /\ sandbox' \in {sandbox, sandbox \cup {Number(h)}}
           /\ fenced' \in {fenced, TRUE}
           /\ Goto(h, "cleaning", "terminal")
  BY <1>1, <1>3, Exchange DEF CreateSandbox, Results, Outcome
<1>4. QED
  BY <1>2, <1>3 DEF CreateSandbox

LEMMA CleanupStep == ASSUME Inv, NEW h \in Handler, Cleanup(h) PROVE Inv'
<1>1. /\ handler[h].phase \in Creating /\ fenced \in BOOLEAN
      /\ handler[h].phase = "cleaning" /\ handler[h].phase \in Working
  BY DEF Cleanup, In, Creating, Executing, Working, Inv, TypeOK
<1>2. Result(h) \in Outcome /\ "terminal" \in Outcome
  BY <1>1, AtWork DEF RecordOK, Result, Outcome
<1>3. CASE /\ sandbox' = sandbox \ {Number(h)}
           /\ \E result \in {Result(h), "terminal"} : Goto(h, "reporting", result)
           /\ UNCHANGED fenced
  <2>1. PICK result \in Outcome : Goto(h, "reporting", result)
    BY <1>2, <1>3
  <2>2. QED
    BY <1>1, <1>3, <2>1, Exchange DEF Cleanup, Results
<1>4. CASE /\ sandbox' \in {sandbox, sandbox \ {Number(h)}}
           /\ fenced' \in {fenced, TRUE}
           /\ Goto(h, "reporting", CleanupFailed(Result(h)))
  <2>1. CleanupFailed(Result(h)) \in Outcome
    BY DEF CleanupFailed, Outcome
  <2>2. QED
    BY <1>1, <1>4, <2>1, Exchange DEF Cleanup, Results
<1>5. QED
  BY <1>3, <1>4 DEF Cleanup

LEMMA ReportStep == ASSUME Inv, NEW h \in Handler, Report(h) PROVE Inv'
<1>1. /\ handler[h].phase = "reporting" /\ handler[h].phase \in Working
      /\ handler[h].phase \in Executing
  BY DEF Report, In, Working, Executing
<1>2. CASE ~Owns(h)
  BY <1>1, <1>2, AtWork, ReplyStep DEF Report, Answer
<1>3. CASE Owns(h)
  <2>1. Result(h) \in Outcome /\ Result(h) \in Results
    BY <1>1, AtWork DEF RecordOK, Result, Results
  <2>2. "inserting" \in Phase /\ "inserting" \in Working /\ "inserting" \notin Creating
    BY DEF Phase, Working, Executing, Creating
  <2>3. QED
    BY <1>1, <1>3, <2>1, <2>2, GoesOn DEF Report
<1>4. QED
  BY <1>2, <1>3

LEMMA InsertStep ==
    ASSUME Inv, NEW h \in Handler, In(h, "inserting"),
           NEW result \in {Result(h), "retryable"}, UNCHANGED faults \/ Error,
           evidence' = [evidence EXCEPT ![Number(h)] = Result(h)],
           Goto(h, "finishing", result),
           UNCHANGED <<run, attempt, sandbox, fenced, job>>
    PROVE  Inv'
<1> DEFINE n == Number(h)
<1>1. /\ handler[h].phase = "inserting" /\ handler[h].phase \in Working
      /\ handler[h].phase \in Executing
  BY DEF In, Working, Executing
<1>2. /\ TypeOK /\ RowsOK /\ HandlersOK /\ VerdictIsEvidenced /\ AbandonedIsClean
      /\ n \in 1 .. Len(attempt) /\ n \in 1 .. MaxAttempts
      /\ RecordOK(handler[h], attempt, evidence, sandbox, Calm)
      /\ (Calm => Owns(h)) /\ ~In(h, "idle")
  BY <1>1, AtWork DEF Inv
<1>3. /\ Result(h) \in Outcome /\ evidence[n] = "none"
      /\ result \in Outcome /\ result \in Results
      /\ result \in Infrastructure \/ result = Result(h)
  BY <1>1, <1>2 DEF RecordOK, Result, Results, Number, Outcome, Infrastructure
<1>4. Calm' <=> Calm
  BY <1>2, ErrorEffect
<1>5. /\ evidence' \in [1 .. MaxAttempts -> Outcome \cup {"none"}]
      /\ evidence'[n] = Result(h)
      /\ \A m : m \in 1 .. MaxAttempts /\ m # n => evidence'[m] = evidence[m]
  BY <1>2, <1>3 DEF TypeOK
<1>6. PICK r \in Local :
        /\ handler' = [handler EXCEPT ![h] = r]
        /\ r.phase = "finishing" /\ r.result = result
        /\ r.attempt = n /\ r.token = handler[h].token
  BY <1>2, <1>3, GotoEffect DEF Phase
<1>7. RowsTyped'
  BY <1>2, <1>5 DEF TypeOK, RowsTyped, Latest
<1>8. attempt[n].state \notin {"succeeded", "customer_failed"}
  BY <1>2, <1>3 DEF RowsOK
<1>9. Calm => attempt[n].state = "active"
  BY <1>2 DEF Owns
<1>10. \A m \in 1 .. Len(attempt) : m \in 1 .. MaxAttempts
  BY <1>2, Rows
<1>11. Facts'
  <2>1. ASSUME NEW m \in 1 .. Len(attempt)
        PROVE  /\ attempt[m].state = "succeeded" => evidence'[m] = "passed"
               /\ attempt[m].state = "customer_failed" => evidence'[m] = "customer_failed"
               /\ Calm /\ attempt[m].state = "abandoned" => m \notin sandbox /\ evidence'[m] = "none"
    <3>1. CASE m = n
      BY <1>8, <1>9, <3>1
    <3>2. CASE m # n
      BY <1>2, <1>5, <1>10, <3>2, Rows DEF RowsOK, AbandonedIsClean, Calm
    <3>3. QED
      BY <3>1, <3>2
  <2>2. \A m \in 1 .. MaxAttempts : m > Len(attempt) => evidence'[m] = "none"
    <3>1. ~(n > Len(attempt))
      BY <1>2, Rows
    <3>2. QED
      BY <1>2, <1>5, <3>1 DEF RowsOK
  <2>3. RowsOK'
    BY <1>2, <2>1, <2>2 DEF RowsOK
  <2>4. AbandonedIsClean'
    BY <1>2, <1>4, <2>1, Rows DEF AbandonedIsClean, Calm
  <2>5. VerdictIsEvidenced'
    <3>1. ASSUME run.state = "ready_for_investigation"
          PROVE  evidence'[run.baseline] = evidence[run.baseline]
      <4>1. run.baseline \in 1 .. Len(attempt) /\ evidence[run.baseline] \in {"passed", "customer_failed"}
        BY <1>2, <3>1, Rows DEF VerdictIsEvidenced, Decided
      <4>2. run.baseline # n
        BY <1>3, <4>1
      <4>3. QED
        BY <1>5, <1>10, <4>1, <4>2
    <3>2. QED
      BY <1>2, <3>1 DEF VerdictIsEvidenced, Decided, Verdict
  <2>6. QED
    BY <2>3, <2>4, <2>5 DEF Facts
<1>12. ASSUME NEW g \in Handler \ {h}
       PROVE  Kept(handler[g])
  <2>1. Apart(handler[h], handler[g], Calm) /\ RecordOK(handler[g], attempt, evidence, sandbox, Calm)
    BY <1>2 DEF HandlersOK
  <2>2. handler[g].phase \in Executing \/ (Calm /\ handler[g].phase = "abandoning") => Number(g) # n
    BY <1>1, <2>1 DEF Apart, Busy, Working, Number
  <2>3. ASSUME Number(g) # n
        PROVE  evidence'[Number(g)] = evidence[Number(g)]
    BY <1>2, <2>3 DEF TypeOK
  <2>4. Len(attempt) \in Nat
    BY <1>2, Rows
  <2>5. evidence[Number(g)] # "none" \/ handler[g].phase \in Executing =>
           evidence'[Number(g)] = evidence[Number(g)]
    <3>1. CASE Number(g) = n
      BY <1>3, <2>2, <3>1
    <3>2. CASE Number(g) # n
      BY <2>3, <3>2
    <3>3. QED
      BY <3>1, <3>2
  <2>6. Calm /\ handler[g].phase = "abandoning" => evidence'[Number(g)] = evidence[Number(g)]
    BY <2>2, <2>3
  <2>7. attempt' = attempt /\ sandbox' = sandbox /\ Len(attempt) <= Len(attempt')
    BY <2>4
  <2>8. QED
    BY <1>4, <2>5, <2>6, <2>7 DEF Kept, Held, Number
<1>13. RecordOK(r, attempt', evidence', sandbox', Calm')
  <2>1. Calm => Held(r, attempt)
    BY <1>2, <1>6 DEF Owns, Held
  <2>2. QED
    BY <1>2, <1>3, <1>4, <1>5, <1>6, <2>1 DEF RecordOK, Held, Executing, Creating
<1>14. Follows(r, handler[h])
  BY <1>1, <1>4, <1>6 DEF Follows, Busy, Executing, Creating, Number
<1>15. \A g \in Handler \ {h} : Apart(r, handler[g], Calm')
  BY <1>4, <1>14, FollowsApart
<1>16. QED
  BY <1>2, <1>6, <1>7, <1>11, <1>12, <1>13, <1>15, Step

LEMMA InsertEvidenceStep == ASSUME Inv, NEW h \in Handler, InsertEvidence(h) PROVE Inv'
<1>1. /\ handler[h].phase = "inserting" /\ handler[h].phase \in Working
      /\ handler[h].phase \in Executing
  BY DEF InsertEvidence, In, Working, Executing
<1>2. CASE Goto(h, "finishing", "retryable") /\ UNCHANGED <<evidence, faults>>
  <2>1. /\ "finishing" \in Phase /\ "finishing" \in Working /\ "finishing" \notin Executing
        /\ "retryable" \in Outcome /\ "retryable" \in Results /\ "retryable" \in Infrastructure
    BY DEF Phase, Working, Executing, Creating, Outcome, Results, Infrastructure
  <2>2. QED
    BY <1>1, <1>2, <2>1, GoesOn DEF InsertEvidence, Executing
<1>3. CASE evidence' = [evidence EXCEPT ![Number(h)] = Result(h)]
  <2>1. PICK result \in {Result(h), "retryable"} :
          Goto(h, "finishing", result) /\ (UNCHANGED faults \/ Error)
    BY <1>3 DEF InsertEvidence
  <2>2. QED
    BY <1>3, <2>1, InsertStep DEF InsertEvidence
<1>4. QED
  BY <1>2, <1>3 DEF InsertEvidence

LEMMA FinishingStep == ASSUME Inv, NEW h \in Handler, Finish(h) PROVE Inv'
<1> DEFINE state == FinalState(Number(h), Result(h))
<1>1. handler[h].phase = "finishing" /\ handler[h].phase \in Working
  BY DEF Finish, In, Working
<1>2. /\ Result(h) \in Outcome
      /\ Result(h) \notin Infrastructure => evidence[Number(h)] = Result(h)
  BY <1>1, AtWork DEF RecordOK, Result, Number
<1>3. /\ state \in DecidedState \cup {"retryable_failed", "abandoned"}
      /\ (Result(h) = "passed") <=> (state = "succeeded")
      /\ (Result(h) = "customer_failed") <=> (state = "customer_failed")
      /\ OneShot => state \in DecidedState
      /\ state # "abandoned"
  BY <1>2 DEF FinalState, DecidedState, Outcome
<1> HIDE DEF state
<1>4. FinishAs(h, state, Result(h)) /\ UNCHANGED <<run, evidence, sandbox, fenced, job, faults>>
  BY DEF Finish, state
<1>5. QED
  BY <1>1, <1>2, <1>3, <1>4, FinishStep

LEMMA RecoverStep == ASSUME Inv, NEW h \in Handler, Recover(h) PROVE Inv'
<1>1. /\ handler[h].phase = "recovering" /\ handler[h].phase \in Working
      /\ UNCHANGED <<run, attempt, evidence, job, faults>>
  BY DEF Recover, In, Working
<1>2. /\ TypeOK /\ RowsOK /\ ~OneShot /\ ~In(h, "idle")
      /\ Number(h) \in 1 .. MaxAttempts
      /\ RecordOK(handler[h], attempt, evidence, sandbox, Calm)
      /\ "abandoning" \in Phase /\ "abandoning" \in Working /\ "abandoning" \notin Executing
      /\ "finishing" \in Phase /\ "finishing" \in Working /\ "finishing" \notin Executing
      /\ "none" \in Results
  BY <1>1, AtWork DEF Inv, Phase, Working, Executing, Creating, Results
<1>3. CASE RecoverEvidence(h)
  <2>1. evidence[Number(h)] \in Outcome /\ evidence[Number(h)] \in Results
    BY <1>2, <1>3 DEF RecoverEvidence, TypeOK, Results
  <2>2. QED
    BY <1>1, <1>2, <1>3, <2>1, GoesOn DEF RecoverEvidence, Executing
<1>4. CASE RecoverNothing(h)
  <2>1. Number(h) \notin sandbox /\ evidence[Number(h)] = "none"
    BY <1>2, <1>4 DEF RecoverNothing, RowsOK
  <2>2. QED
    BY <1>1, <1>2, <1>4, <2>1, GoesOn DEF RecoverNothing, Executing
<1>5. CASE RecoverSandbox(h)
  <2>1. CASE /\ sandbox' = sandbox \ {Number(h)}
             /\ Goto(h, "abandoning", "none")
             /\ UNCHANGED fenced
    <3>1. PICK r \in Local :
            /\ handler' = [handler EXCEPT ![h] = r]
            /\ r.phase = "abandoning"
            /\ r.attempt = Number(h) /\ r.token = handler[h].token
      BY <1>2, <2>1, GotoEffect
    <3>2. RecordOK(r, attempt, evidence, sandbox', Calm)
      BY <1>1, <1>2, <1>5, <2>1, <3>1 DEF RecoverSandbox, RecordOK, Held, Executing, Creating, Number
    <3>3. Follows(r, handler[h])
      BY <1>1, <1>2, <3>1 DEF Follows, Busy, Calm, Number
    <3>4. fenced' \in BOOLEAN
      BY <1>2, <2>1 DEF TypeOK
    <3>5. QED
      BY <1>1, <1>2, <2>1, <3>1, <3>2, <3>3, <3>4, Boxing
  <2>2. CASE /\ sandbox' \in {sandbox, sandbox \ {Number(h)}}
             /\ fenced' \in {fenced, TRUE}
             /\ Reply(h, "failed")
    <3>1. PICK r \in Local : handler' = [handler EXCEPT ![h] = r] /\ r.phase = "reply"
      BY <1>2, <2>2, GotoEffect DEF Reply, Phase, Results, Answer
    <3>2. RecordOK(r, attempt, evidence, sandbox', Calm) /\ Follows(r, handler[h])
      BY <3>1 DEF RecordOK, Follows, Busy, Working, Executing, Creating
    <3>3. fenced' \in BOOLEAN
      BY <1>2, <2>2 DEF TypeOK
    <3>4. QED
      BY <1>1, <1>2, <2>2, <3>1, <3>2, <3>3, Boxing
  <2>3. QED
    BY <1>5, <2>1, <2>2 DEF RecoverSandbox
<1>6. QED
  BY <1>3, <1>4, <1>5 DEF Recover

LEMMA AbandonStep == ASSUME Inv, NEW h \in Handler, Abandon(h) PROVE Inv'
<1>1. handler[h].phase = "abandoning" /\ handler[h].phase \in Working
  BY DEF Abandon, In, Working
<1>2. /\ ~OneShot
      /\ Calm => Number(h) \notin sandbox /\ evidence[Number(h)] = "none"
  BY <1>1, AtWork DEF RecordOK, Number
<1>3. QED
  BY <1>1, <1>2, FinishStep DEF Abandon, DecidedState, Outcome, Infrastructure

LEMMA HandlerStepKeeps ==
    ASSUME Inv, NEW h \in Handler, HandlerStep(h), ~ReplyJob(h)
    PROVE  Inv'
BY RefuseStep, ClaimStep, CheckStep, StartFailsStep, RequestSandboxStep, CreateSandboxStep,
   WorkStep, CleanupStep, ReportStep, InsertEvidenceStep, FinishingStep, RecoverStep,
   AbandonStep, TransitionStep DEF HandlerStep

-----------------------------------------------------------------------------
(* The steps of PgBoss, of the clock and of the operators                   *)

FaultsTyped == faults \in [crashes : Nat, stalls : Nat, restarts : Nat, errors : Nat]

(* Answers and retries settle a reviewed job, and keep it reviewed.          *)
LEMMA RetriedJob ==
    ASSUME job \in Job
    PROVE  /\ Retried(job) \in Job /\ Retried(job).reviewed = job.reviewed
           /\ \A answer : /\ Answered(job, answer) \in Job
                         /\ Answered(job, answer).reviewed = job.reviewed
<1>1. Retried(job) \in Job /\ Retried(job).reviewed = job.reviewed
  <2>1. CASE job.retries > 0 /\ ~job.reviewed
    <3> DEFINE k == job.retries - 1
               j == [job EXCEPT !.state = "queued", !.holder = "none", !.retries = k]
    <3>1. k \in Nat
      BY <2>1 DEF Job
    <3>2. Retried(job) = j
      BY <2>1 DEF Retried
    <3> HIDE DEF k
    <3>3. j \in Job /\ j.reviewed = job.reviewed
      BY <3>1 DEF Job
    <3>4. QED
      BY <3>2, <3>3
  <2>2. CASE ~(job.retries > 0 /\ ~job.reviewed)
    BY <2>2 DEF Job, Retried
  <2>3. QED
    BY <2>1, <2>2
<1>2. ASSUME NEW state \in {"completed", "failed"}
      PROVE  /\ [job EXCEPT !.state = state, !.holder = "none"] \in Job
             /\ [job EXCEPT !.state = state, !.holder = "none"].reviewed = job.reviewed
  BY DEF Job
<1>3. QED
  BY <1>1, <1>2 DEF Answered

(* The rows of the run are as they were.                                    *)
LEMMA SameRows ==
    ASSUME Inv, UNCHANGED <<run, attempt, evidence, sandbox>>, fenced' \in BOOLEAN, Calm' => Calm
    PROVE  RowsTyped' /\ Facts' /\ \A g \in Handler : Kept(handler[g])
<1>1. TypeOK /\ RowsOK /\ VerdictIsEvidenced /\ AbandonedIsClean
  BY DEF Inv
<1>2. RowsTyped'
  BY <1>1 DEF TypeOK, RowsTyped, Latest
<1>3. RowsOK'
  BY <1>1 DEF RowsOK
<1>4. VerdictIsEvidenced'
  BY <1>1 DEF VerdictIsEvidenced, Decided, Verdict
<1>5. AbandonedIsClean'
  BY <1>1 DEF AbandonedIsClean, Calm
<1>6. \A g \in Handler : Kept(handler[g])
  BY <1>1, Rows DEF Kept, Held
<1>7. QED
  BY <1>2, <1>3, <1>4, <1>5, <1>6 DEF Facts

(* An error that ends the handler is told to PgBoss and changes no row.       *)
LEMMA DatabaseFailsStep == ASSUME Inv, NEW h \in Handler, DatabaseFails(h) PROVE Inv'
<1>1. TypeOK /\ fenced' \in BOOLEAN /\ ~In(h, "idle")
  BY DEF Inv, TypeOK, DatabaseFails, Unguarded, In
<1>2. (Calm' <=> Calm) /\ (Smooth' => UNCHANGED faults)
  BY <1>1, ErrorEffect DEF DatabaseFails
<1>3. ~Smooth'
  <2>1. faults.errors + 1 # faults.errors
    BY <1>1 DEF TypeOK
  <2>2. faults' = [faults EXCEPT !.errors = faults.errors + 1]
    BY DEF DatabaseFails, Error
  <2>3. faults'.errors = faults.errors + 1
    BY <1>1, <2>2 DEF TypeOK
  <2>4. QED
    BY <1>2, <2>1, <2>3
<1>4. PICK r \in Local : handler' = [handler EXCEPT ![h] = r] /\ r.phase = "reply"
  BY <1>1, GotoEffect DEF DatabaseFails, Reply, Phase, Results, Answer
<1>5. RowsTyped' /\ Facts' /\ \A g \in Handler : Kept(handler[g])
  BY <1>1, <1>2, SameRows DEF DatabaseFails
<1>6. /\ RecordOK(r, attempt', evidence', sandbox', Calm')
      /\ \A g \in Handler \ {h} : Apart(r, handler[g], Calm')
  BY <1>4 DEF RecordOK, Apart, Busy, Working, Executing, Creating
<1>7. QED
  BY <1>1, <1>3, <1>4, <1>5, <1>6, Step DEF DatabaseFails

(* A handler appears or disappears.                                         *)
LEMMA Arrival ==
    ASSUME Inv, NEW h \in Handler, NEW r \in Local, handler' = [handler EXCEPT ![h] = r],
           r.phase \in {"idle", "received"},
           UNCHANGED <<run, attempt, evidence, sandbox>>, fenced' \in BOOLEAN,
           job' \in Job, FaultsTyped', Calm' <=> Calm, ExactOK', ReviewedRunEnds'
    PROVE  Inv'
<1>1. RowsTyped' /\ Facts' /\ \A g \in Handler : Kept(handler[g])
  BY SameRows
<1>2. /\ RecordOK(r, attempt', evidence', sandbox', Calm')
      /\ \A g \in Handler \ {h} : Apart(r, handler[g], Calm')
  BY DEF RecordOK, Apart, Busy, Working, Executing, Creating
<1>3. HandlersOK' /\ handler' \in [Handler -> Local]
  BY <1>1, <1>2, Records
<1>4. QED
  BY <1>1, <1>3 DEF Inv, Facts, TypeOK, RowsTyped, FaultsTyped

LEMMA Outside ==
    ASSUME Inv, UNCHANGED handler, RowsTyped', Facts', \A g \in Handler : Kept(handler[g]),
           job' \in Job, FaultsTyped', Calm' => Calm, ExactOK', ReviewedRunEnds'
    PROVE  Inv'
<1>1. TypeOK /\ HandlersOK
  BY DEF Inv
<1>2. Len(attempt') \in Nat
  BY DEF RowsTyped
<1>3. ASSUME NEW g \in Handler
      PROVE  RecordOK(handler[g], attempt', evidence', sandbox', Calm')
  BY <1>1, <1>2, RecordKept, Rows DEF HandlersOK
<1>4. ASSUME NEW g \in Handler, NEW f \in Handler, g # f
      PROVE  Apart(handler[g], handler[f], Calm')
  BY <1>1, <1>4 DEF HandlersOK, Apart, Busy
<1>5. HandlersOK'
  BY <1>3, <1>4 DEF HandlersOK
<1>6. TypeOK'
  BY <1>1 DEF TypeOK, RowsTyped, FaultsTyped
<1>7. QED
  BY <1>5, <1>6 DEF Inv, Facts

LEMMA IdleLocal == Idle \in Local /\ Idle.phase = "idle"
BY DEF Idle, Local, Phase

LEMMA ExactOne ==
    ASSUME Inv, OneShot, NEW h \in Handler, handler[h].phase # "idle"
    PROVE  /\ job.state = "active" /\ job.holder = h
           /\ \A g \in Handler \ {h} : handler[g].phase = "idle"
BY DEF Inv, ExactOK

LEMMA DeliverStep == ASSUME Inv, NEW h \in Handler, Deliver(h) PROVE Inv'
<1>1. /\ TypeOK /\ job.state = "queued" /\ UNCHANGED <<run, attempt, evidence, sandbox, fenced, faults>>
      /\ job' = [job EXCEPT !.state = "active", !.holder = h]
  BY DEF Inv, Deliver
<1>2. PICK r \in Local : handler' = [handler EXCEPT ![h] = r] /\ r.phase = "received"
  BY <1>1, GotoEffect DEF Deliver, Phase, Results
<1>3. /\ job' \in Job /\ job'.state = "active" /\ job'.holder = h
      /\ job'.reviewed = job.reviewed /\ FaultsTyped' /\ fenced' \in BOOLEAN
  BY <1>1 DEF TypeOK, Job, FaultsTyped
<1>4. (Calm' <=> Calm) /\ (Smooth' <=> Smooth)
  BY <1>1 DEF Calm, Smooth
<1>5. ExactOK'
  <2>1. handler'[h] = r /\ \A g \in Handler \ {h} : handler'[g] = handler[g]
    BY <1>1, <1>2 DEF TypeOK
  <2>2. OneShot => \A g \in Handler : handler[g].phase = "idle"
    BY <1>1 DEF Inv, ExactOK
  <2>3. OneShot => attempt = << >> /\ run.state = "created"
    BY DEF Deliver
  <2>4. QED
    BY <1>1, <1>2, <1>3, <2>1, <2>2, <2>3 DEF ExactOK, OneShot
<1>6. ReviewedRunEnds'
  BY <1>3 DEF ReviewedRunEnds
<1>7. QED
  BY <1>1, <1>2, <1>3, <1>4, <1>5, <1>6, Arrival

LEMMA ReplyJobStep == ASSUME Inv, NEW h \in Handler, ReplyJob(h) PROVE Inv'
<1>1. /\ TypeOK /\ ExactOK /\ ReviewedRunEnds
      /\ UNCHANGED <<run, attempt, evidence, sandbox, fenced, faults>>
      /\ handler[h].phase = "reply" /\ handler' = [handler EXCEPT ![h] = Idle]
  BY DEF Inv, ReplyJob, In
<1>2. (Calm' <=> Calm) /\ (Smooth' <=> Smooth)
  BY <1>1 DEF Calm, Smooth
<1>3. job' \in Job /\ job'.reviewed = job.reviewed
  BY <1>1, RetriedJob DEF ReplyJob, TypeOK
<1>4. handler'[h].phase = "idle" /\ \A g \in Handler \ {h} : handler'[g] = handler[g]
  BY <1>1, IdleLocal DEF TypeOK
<1>5. ExactOK'
  <2>1. OneShot => \A g \in Handler : handler'[g].phase = "idle"
    BY <1>1, <1>4, ExactOne
  <2>2. QED
    BY <1>3, <2>1 DEF ExactOK, OneShot
<1>6. ReviewedRunEnds'
  <2>1. OneShot /\ Smooth => run.state # "baseline_running"
    BY <1>1 DEF ExactOK
  <2>2. QED
    BY <1>1, <1>3, <2>1 DEF ReviewedRunEnds, OneShot, Calm, Smooth
<1>7. FaultsTyped' /\ fenced' \in BOOLEAN
  BY <1>1 DEF TypeOK, FaultsTyped
<1>8. QED
  BY <1>1, <1>2, <1>3, <1>5, <1>6, <1>7, IdleLocal, Arrival

LEMMA CrashStep == ASSUME Inv, NEW h \in Handler, Crash(h) PROVE Inv'
<1>1. /\ TypeOK /\ ExactOK /\ UNCHANGED <<run, attempt, evidence, sandbox>>
      /\ handler[h].phase # "idle" /\ handler' = [handler EXCEPT ![h] = Idle]
      /\ faults' = [faults EXCEPT !.crashes = @ + 1]
      /\ job' = IF job.holder = h THEN [job EXCEPT !.holder = "none"] ELSE job
  BY DEF Inv, Crash, In
<1>2. (Calm' <=> Calm) /\ FaultsTyped'
  BY <1>1 DEF Calm, TypeOK, FaultsTyped
<1>3. job' \in Job /\ job'.reviewed = job.reviewed /\ job'.state = job.state
  BY <1>1 DEF TypeOK, Job
<1>4. fenced' \in BOOLEAN
  BY <1>1 DEF Crash, TypeOK
<1>5. handler'[h].phase = "idle" /\ \A g \in Handler \ {h} : handler'[g] = handler[g]
  BY <1>1, IdleLocal DEF TypeOK
<1>6. OneShot => job.state = "active" /\ \A g \in Handler : handler'[g].phase = "idle"
  BY <1>1, <1>5, ExactOne
<1>7. ExactOK' /\ ReviewedRunEnds'
  BY <1>3, <1>6 DEF ExactOK, OneShot, ReviewedRunEnds
<1>8. QED
  BY <1>1, <1>2, <1>3, <1>4, <1>7, IdleLocal, Arrival

(* The job alone changes, and it is not a reviewed one.                      *)
LEMMA JobStep ==
    ASSUME Inv, UNCHANGED <<run, attempt, evidence, sandbox, fenced, handler>>, ~OneShot,
           job' \in Job, job'.reviewed = job.reviewed, FaultsTyped', Calm' => Calm
    PROVE  Inv'
<1>1. ExactOK' /\ ReviewedRunEnds'
  BY DEF ExactOK, ReviewedRunEnds, OneShot
<1>2. fenced' \in BOOLEAN
  BY DEF Inv, TypeOK
<1>3. QED
  BY <1>1, <1>2, SameRows, Outside

LEMMA StallEffect == ASSUME TypeOK, Stall PROVE FaultsTyped' /\ ~Calm'
BY DEF TypeOK, Stall, FaultsTyped, Calm

LEMMA TimeOutStep == ASSUME Inv, TimeOut \/ TimeOutAlive \/ Restart PROVE Inv'
<1>1. TypeOK /\ job \in Job
  BY DEF Inv, TypeOK
<1>2. CASE TimeOut
  <2>1. FaultsTyped' /\ (Calm' <=> Calm)
    BY <1>1, <1>2 DEF TimeOut, TypeOK, FaultsTyped, Calm
  <2>2. QED
    BY <1>1, <1>2, <2>1, RetriedJob, JobStep DEF TimeOut
<1>3. CASE TimeOutAlive
  BY <1>1, <1>3, StallEffect, RetriedJob, JobStep DEF TimeOutAlive
<1>4. CASE Restart
  <2>1. FaultsTyped' /\ (Calm' <=> Calm)
    BY <1>1, <1>4 DEF Restart, TypeOK, FaultsTyped, Calm
  <2>2. job' \in Job /\ job'.reviewed = job.reviewed
    BY <1>1, <1>4 DEF Restart, Job
  <2>3. QED
    BY <1>4, <2>1, <2>2, JobStep DEF Restart
<1>5. QED
  BY <1>2, <1>3, <1>4

(* A lease lapses: without a stall, nobody held it.                          *)
LEMMA LapseStep ==
    ASSUME Inv, NEW n \in DOMAIN attempt, Lapse(n), FaultsTyped',
           Calm' => Calm /\ Owner(n) = {}, Smooth' => Smooth
    PROVE  Inv'
<1> DEFINE a == [attempt[n] EXCEPT !.live = FALSE]
<1>1. /\ TypeOK /\ RowsOK /\ HandlersOK /\ AbandonedIsClean /\ ExactOK
      /\ n \in 1 .. Len(attempt) /\ attempt[n] \in Attempt /\ attempt[n].state = "active"
      /\ UNCHANGED <<run, evidence, sandbox, fenced, job, handler>>
      /\ Len(attempt) \in Nat /\ DOMAIN attempt = 1 .. Len(attempt)
  BY Rows DEF Inv, Lapse
<1>2. attempt' = [attempt EXCEPT ![n] = a]
  BY <1>1 DEF Lapse, TypeOK, Attempt
<1>3. /\ a \in Attempt /\ a.state = "active"
      /\ a.named = attempt[n].named
  BY <1>1 DEF Attempt
<1> HIDE DEF a
<1>4. /\ attempt' \in Seq(Attempt) /\ Len(attempt') = Len(attempt)
      /\ attempt'[n] = a /\ DOMAIN attempt' = 1 .. Len(attempt)
      /\ \A m \in 1 .. Len(attempt) : m # n => attempt'[m] = attempt[m]
  BY <1>1, <1>2, <1>3, SetAttempt
<1>5. \A m \in 1 .. Len(attempt) :
         attempt'[m].state = attempt[m].state /\ attempt'[m].named = attempt[m].named
  BY <1>1, <1>3, <1>4
<1>6. n = Len(attempt) /\ run.state = "baseline_running"
  BY <1>1 DEF RowsOK
<1>7. RowsTyped'
  BY <1>1, <1>4 DEF TypeOK, RowsTyped, Latest
<1>8. Facts'
  <2>1. \A m \in 1 .. MaxAttempts : m \in sandbox => attempt'[m].named
    <3>1. \A m \in 1 .. MaxAttempts : m \in 1 .. Len(attempt) \/ m > Len(attempt)
      BY <1>1
    <3>2. QED
      BY <1>1, <1>5, <3>1 DEF RowsOK
  <2>2. RowsOK'
    <3>1. \A m \in 1 .. Len(attempt) :
            /\ attempt'[m].state = "active" => m = Len(attempt') /\ run'.state = "baseline_running"
            /\ attempt'[m].state = "succeeded" => evidence'[m] = "passed"
            /\ attempt'[m].state = "customer_failed" => evidence'[m] = "customer_failed"
      BY <1>1, <1>4, <1>5 DEF RowsOK
    <3>2. \A m \in 1 .. MaxAttempts : m > Len(attempt') => evidence'[m] = "none" /\ m \notin sandbox'
      BY <1>1, <1>4 DEF RowsOK
    <3>3. QED
      BY <1>1, <1>4, <1>6, <2>1, <3>1, <3>2 DEF RowsOK
  <2>3. AbandonedIsClean'
    BY <1>1, <1>4, <1>5 DEF AbandonedIsClean, Calm
  <2>4. VerdictIsEvidenced'
    BY <1>1, <1>6 DEF VerdictIsEvidenced
  <2>5. QED
    BY <2>2, <2>3, <2>4 DEF Facts
<1>9. ASSUME NEW g \in Handler
      PROVE  Kept(handler[g])
  <2>1. handler[g] \in Local /\ RecordOK(handler[g], attempt, evidence, sandbox, Calm)
    BY <1>1, Rows DEF HandlersOK
  <2>2. handler[g].phase # "transition"
    BY <1>1, <1>6, <2>1 DEF RecordOK, Settling
  <2>3. handler[g].phase \in Working => Number(g) \in 1 .. Len(attempt)
    BY <2>1 DEF RecordOK, Number
  <2>4. Calm' /\ handler[g].phase \in Working /\ Held(handler[g], attempt) => Number(g) # n
    BY <1>1 DEF Held, Owner, Number, Working, Executing, Creating
  <2>5. Calm' /\ handler[g].phase \in Working /\ Held(handler[g], attempt)
           => Held(handler[g], attempt')
    BY <1>4, <2>3, <2>4 DEF Held, Number
  <2>6. handler[g].phase \in Creating /\ attempt[Number(g)].named => attempt'[Number(g)].named
    BY <1>5, <2>3 DEF Working, Executing
  <2>7. Len(attempt) <= Len(attempt') /\ evidence' = evidence /\ sandbox' = sandbox
    BY <1>1, <1>4
  <2>8. QED
    BY <2>2, <2>5, <2>6, <2>7 DEF Kept, Number
<1>10. ExactOK'
  <2>1. attempt # << >>
    BY <1>1
  <2>2. OneShot => \A g \in Handler : handler[g].phase # "received"
    BY <1>1, <2>1 DEF ExactOK
  <2>3. QED
    BY <1>1, <2>2 DEF ExactOK, OneShot
<1>11. ReviewedRunEnds'
  BY <1>1 DEF Inv, ReviewedRunEnds, OneShot, Calm, Smooth
<1>12. job' \in Job
  BY <1>1 DEF TypeOK
<1>13. QED
  BY <1>1, <1>7, <1>8, <1>9, <1>10, <1>11, <1>12, Outside

LEMMA LapsesStep == ASSUME Inv, LapseDead \/ LapseAlive PROVE Inv'
<1>1. TypeOK
  BY DEF Inv
<1>2. CASE LapseDead
  <2>1. FaultsTyped' /\ (Calm' <=> Calm) /\ (Smooth' <=> Smooth)
    BY <1>1, <1>2 DEF LapseDead, TypeOK, FaultsTyped, Calm, Smooth
  <2>2. QED
    BY <1>2, <2>1, LapseStep DEF LapseDead
<1>3. CASE LapseAlive
  BY <1>1, <1>3, StallEffect, LapseStep DEF LapseAlive, Smooth
<1>4. QED
  BY <1>2, <1>3

LEMMA CancelStep == ASSUME Inv, Cancel PROVE Inv'
<1>1. /\ TypeOK /\ RowsOK /\ AbandonedIsClean /\ ExactOK /\ run.state = "created"
      /\ UNCHANGED <<attempt, evidence, sandbox, fenced, job, handler, faults>>
  BY DEF Inv, Cancel
<1>2. run' \in Run /\ run'.state = "cancelled"
  BY <1>1 DEF Cancel, TypeOK, Run, RunState
<1>3. (Calm' <=> Calm) /\ (Smooth' <=> Smooth) /\ FaultsTyped' /\ job' \in Job
  BY <1>1 DEF Calm, Smooth, TypeOK, FaultsTyped
<1>4. RowsTyped'
  BY <1>1, <1>2 DEF TypeOK, RowsTyped, Latest
<1>5. attempt = << >>
  BY <1>1 DEF RowsOK
<1>6. Facts'
  <2>1. RowsOK'
    BY <1>1, <1>2, <1>5 DEF RowsOK
  <2>2. AbandonedIsClean' /\ VerdictIsEvidenced'
    BY <1>1, <1>2 DEF AbandonedIsClean, VerdictIsEvidenced
  <2>3. QED
    BY <2>1, <2>2 DEF Facts
<1>7. \A g \in Handler : Kept(handler[g])
  BY <1>1, <1>3, Rows DEF Kept, Held
<1>8. ExactOK' /\ ReviewedRunEnds'
  BY <1>1, <1>2, <1>3 DEF ExactOK, ReviewedRunEnds, OneShot
<1>9. QED
  BY <1>1, <1>3, <1>4, <1>6, <1>7, <1>8, Outside

-----------------------------------------------------------------------------
(* The invariant of every behaviour                                        *)

LEMMA InitInv == Init => Inv
<1>1. SUFFICES ASSUME Init PROVE Inv
  OBVIOUS
<1>2. /\ attempt = << >> /\ Len(attempt) = 0 /\ DOMAIN attempt = {} /\ 1 .. Len(attempt) = {}
      /\ run.state = "created"
  BY <1>1 DEF Init
<1>3. \A h \in Handler : handler[h] = Idle
  BY <1>1 DEF Init
<1>4. TypeOK
  <2>1. run \in Run /\ sandbox \subseteq 1 .. MaxAttempts /\ fenced \in BOOLEAN
    BY <1>1 DEF Init, Run, RunState
  <2>2. attempt \in Seq(Attempt) /\ Latest <= MaxAttempts
    BY <1>2, RunAssumption DEF Latest
  <2>3. evidence \in [1 .. MaxAttempts -> Outcome \cup {"none"}]
    BY <1>1 DEF Init
  <2>4. job \in Job
    BY <1>1, RunAssumption DEF Init, Job
  <2>5. handler \in [Handler -> Local]
    BY <1>1, IdleLocal DEF Init
  <2>6. faults \in [crashes : Nat, stalls : Nat, restarts : Nat, errors : Nat]
    BY <1>1 DEF Init
  <2>7. QED
    BY <2>1, <2>2, <2>3, <2>4, <2>5, <2>6 DEF TypeOK
<1>5. RowsOK
  BY <1>1, <1>2 DEF RowsOK, Init
<1>6. HandlersOK
  BY <1>3, IdleLocal DEF HandlersOK, RecordOK, Apart, Busy, Working, Executing, Creating
<1>7. ExactOK
  BY <1>3, IdleLocal DEF ExactOK
<1>8. VerdictIsEvidenced /\ AbandonedIsClean /\ ReviewedRunEnds
  BY <1>2 DEF VerdictIsEvidenced, AbandonedIsClean, ReviewedRunEnds
<1>9. QED
  BY <1>4, <1>5, <1>6, <1>7, <1>8 DEF Inv

LEMMA StutterInv == ASSUME Inv, UNCHANGED vars PROVE Inv'
<1>1. /\ TypeOK /\ fenced' \in BOOLEAN /\ job' \in Job /\ FaultsTyped' /\ (Calm' <=> Calm)
      /\ UNCHANGED <<run, attempt, evidence, sandbox, handler, job>>
  BY DEF Inv, TypeOK, vars, FaultsTyped, Calm
<1>2. ExactOK' /\ ReviewedRunEnds'
  BY <1>1 DEF Inv, ExactOK, OneShot, ReviewedRunEnds, Calm, Smooth, vars
<1>3. QED
  BY <1>1, <1>2, SameRows, Outside

LEMMA NextInv == ASSUME Inv, [Next]_vars PROVE Inv'
<1>1. CASE Next
  BY <1>1, DeliverStep, HandlerStepKeeps, ReplyJobStep, DatabaseFailsStep, CrashStep, TimeOutStep, LapsesStep,
     CancelStep DEF Next
<1>2. CASE UNCHANGED vars
  BY <1>2, StutterInv
<1>3. QED
  BY <1>1, <1>2

LEMMA Invariance == Spec => []Inv
BY InitInv, NextInv, PTL DEF Spec

(* Every row, the job and the handlers hold values of their types; a run     *)
(* that has ended has no active attempt; and without a stall or a database   *)
(* error a reviewed run is not left behind a settled job.                   *)
THEOREM RowsAgree == Spec => []Consistent
<1>1. Inv => Consistent
  <2>1. SUFFICES ASSUME Inv PROVE Consistent
    OBVIOUS
  <2>2. TerminalIsQuiet
    BY <2>1, Rows DEF Inv, RowsOK, TerminalIsQuiet, Active, Open
  <2>3. QED
    BY <2>1, <2>2 DEF Inv, Consistent
<1>2. QED
  BY <1>1, Invariance, PTL

(* A run becomes ready only on the evidence of the attempt it names, which   *)
(* was itself finished so, whichever handlers were recovered in between.     *)
THEOREM VerdictEvidenced == Spec => []VerdictIsEvidenced
<1>1. Inv => VerdictIsEvidenced
  BY DEF Inv
<1>2. QED
  BY <1>1, Invariance, PTL

(* Any number of lost processes leaves neither a Sandbox nor evidence of an  *)
(* abandoned attempt, as long as no living handler loses its lease.          *)
THEOREM NothingLeftBehind == Spec => []AbandonedIsClean
<1>1. Inv => AbandonedIsClean
  BY DEF Inv
<1>2. QED
  BY <1>1, Invariance, PTL

-----------------------------------------------------------------------------
(* The abstract lifecycle                                                  *)

(* What the latest attempt says.                                            *)
Told == IF ~Decided(Latest) THEN "none"
        ELSE IF attempt[Latest].state = "succeeded" THEN "passed"
        ELSE attempt[Latest].state
AbstractVars == <<run.state, Latest, Told>>

(* It is a matter of the state of the last row.                              *)
Said(rows) ==
    LET last == rows[Len(rows)].state
    IN  IF Len(rows) = 0 \/ last \notin DecidedState THEN "none"
        ELSE IF last = "succeeded" THEN "passed" ELSE last

LEMMA ToldIs ==
    ASSUME TypeOK, TypeOK'
    PROVE  Told = Said(attempt) /\ Told' = Said(attempt')
<1>1. /\ Len(attempt) \in Nat /\ DOMAIN attempt = 1 .. Len(attempt)
      /\ Len(attempt') \in Nat /\ DOMAIN attempt' = 1 .. Len(attempt')
  BY DEF TypeOK
<1>2. /\ Len(attempt) \in DOMAIN attempt <=> Len(attempt) # 0
      /\ Len(attempt') \in DOMAIN attempt' <=> Len(attempt') # 0
  BY <1>1
<1>3. QED
  BY <1>2 DEF Told, Decided, Latest, Said

LEMMA ToldKept ==
    ASSUME TypeOK, TypeOK', Len(attempt') = Len(attempt),
           Len(attempt) # 0 => attempt'[Len(attempt)].state = attempt[Len(attempt)].state
    PROVE  Told' = Told /\ Latest' = Latest
BY ToldIs DEF Said, Latest

(* A step that leaves the run's state and the attempts' states as they are.  *)
LEMMA SayingNothing ==
    ASSUME Inv, Inv', run'.state = run.state,
           \/ UNCHANGED attempt
           \/ \E n \in 1 .. Len(attempt), a \in Attempt :
                 a.state = attempt[n].state /\ attempt' = [attempt EXCEPT ![n] = a]
    PROVE  UNCHANGED AbstractVars
<1>1. TypeOK /\ TypeOK'
  BY DEF Inv
<1>2. CASE UNCHANGED attempt
  BY <1>1, <1>2, ToldKept DEF AbstractVars
<1>3. CASE \E n \in 1 .. Len(attempt), a \in Attempt :
             a.state = attempt[n].state /\ attempt' = [attempt EXCEPT ![n] = a]
  <2>1. PICK n \in 1 .. Len(attempt), a \in Attempt :
          a.state = attempt[n].state /\ attempt' = [attempt EXCEPT ![n] = a]
    BY <1>3
  <2>2. /\ Len(attempt') = Len(attempt) /\ attempt'[n] = a /\ Len(attempt) \in Nat
        /\ \A m \in 1 .. Len(attempt) : m # n => attempt'[m] = attempt[m]
    BY <1>1, <2>1, SetAttempt, Rows
  <2>3. Len(attempt) # 0 => attempt'[Len(attempt)].state = attempt[Len(attempt)].state
    <3>1. Len(attempt) # 0 => Len(attempt) \in 1 .. Len(attempt)
      BY <2>2
    <3>2. QED
      BY <2>1, <2>2, <3>1
  <2>4. QED
    BY <1>1, <2>2, <2>3, ToldKept DEF AbstractVars
<1>4. QED
  BY <1>2, <1>3

AbstractNext == Lifecycle!Next \/ UNCHANGED AbstractVars

LEMMA FinishTells ==
    ASSUME Inv, Inv', NEW h \in Handler, handler[h].phase \in Working,
           NEW state \in DecidedState \cup {"retryable_failed", "abandoned"}, NEW result \in Outcome,
           FinishAs(h, state, result), UNCHANGED run
    PROVE  AbstractNext
<1> DEFINE n == Number(h)
           a == [attempt[n] EXCEPT !.state = state, !.live = FALSE]
<1>1. TypeOK /\ TypeOK' /\ RowsOK
  BY DEF Inv
<1>2. CASE ~Owns(h)
  BY <1>2, SayingNothing DEF FinishAs, AbstractNext
<1>3. CASE Owns(h)
  <2>1. /\ attempt[n].state = "active" /\ n = Len(attempt) /\ n \in 1 .. Len(attempt)
        /\ run.state = "baseline_running" /\ attempt[n] \in Attempt /\ n \in Nat
    BY <1>1, <1>3, AtWork DEF Owns, RowsOK
  <2>2. attempt' = [attempt EXCEPT ![n] = a]
    BY <1>1, <1>3, <2>1 DEF FinishAs, TypeOK, Attempt
  <2>3. a \in Attempt /\ a.state = state
    BY <2>1 DEF Attempt, AttemptState
  <2> HIDE DEF a
  <2>4. Len(attempt') = Len(attempt) /\ attempt'[n] = a
    BY <1>1, <2>1, <2>2, <2>3, SetAttempt
  <2>5. Told = "none" /\ n > 0
    BY <1>1, <2>1, ToldIs DEF Said, DecidedState
  <2>6. Told' = IF state \notin DecidedState THEN "none"
                ELSE IF state = "succeeded" THEN "passed" ELSE state
    BY <1>1, <2>1, <2>3, <2>4, <2>5, ToldIs DEF Said
  <2>7. Latest' = Latest /\ Latest = n /\ run'.state = run.state
    BY <2>1, <2>4 DEF Latest
  <2>8. CASE state \notin DecidedState
    BY <2>5, <2>6, <2>7, <2>8 DEF AbstractNext, AbstractVars
  <2>9. CASE state \in DecidedState
    <3>1. Told' \in Lifecycle!Verdict
      BY <2>6, <2>9 DEF DecidedState, Lifecycle!Verdict
    <3>2. Lifecycle!Decide(Told')
      BY <2>1, <2>5, <2>7 DEF Lifecycle!Decide, Told
    <3>3. QED
      BY <3>1, <3>2 DEF AbstractNext, Lifecycle!Next
  <2>10. QED
    BY <2>8, <2>9
<1>4. QED
  BY <1>2, <1>3

LEMMA ClaimTells ==
    ASSUME Inv, Inv', NEW h \in Handler, Claim(h)
    PROVE  AbstractNext
<1>1. TypeOK /\ TypeOK' /\ RowsOK
  BY DEF Inv
<1>2. CASE ClaimTerminal(h) \/ ClaimBusy(h) \/ ClaimSpent(h)
  BY <1>2, SayingNothing DEF ClaimTerminal, ClaimBusy, ClaimSpent, AbstractNext
<1>3. CASE ClaimStale(h)
  <2>1. PICK n \in Active : attempt' = [attempt EXCEPT ![n].token = @ + 1, ![n].live = TRUE]
    BY <1>3 DEF ClaimStale
  <2> DEFINE token == attempt[n].token + 1
             a == [attempt[n] EXCEPT !.token = token, !.live = TRUE]
  <2>2. n \in 1 .. Len(attempt) /\ attempt[n] \in Attempt /\ token \in Nat
    BY <1>1, ActiveIsLast, Rows DEF Attempt
  <2>3. attempt' = [attempt EXCEPT ![n] = a]
    BY <1>1, <2>1, <2>2 DEF TypeOK, Attempt
  <2> HIDE DEF token
  <2>4. a \in Attempt /\ a.state = attempt[n].state
    BY <2>2 DEF Attempt
  <2>5. run'.state = run.state
    BY <1>3 DEF ClaimStale
  <2>6. QED
    BY <2>2, <2>3, <2>4, <2>5, SayingNothing DEF AbstractNext
<1>4. Claimable => Told = "none"
  BY DEF Claimable, Settled, Told
<1>5. CASE ClaimFenced(h)
  <2>1. run'.state = "infrastructure_failed" /\ UNCHANGED attempt /\ Told = "none"
        /\ run.state \in {"created", "baseline_running"}
    BY <1>1, <1>4, <1>5 DEF ClaimFenced, Claimable, Open, TypeOK, Run
  <2>2. Told' = Told /\ Latest' = Latest
    BY <1>1, <2>1, ToldKept
  <2>3. Lifecycle!Finish
    BY <2>1, <2>2 DEF Lifecycle!Finish, Told
  <2>4. QED
    BY <2>3 DEF AbstractNext, Lifecycle!Next
<1>6. CASE ClaimNew(h)
  <2> DEFINE a == [state |-> "active", token |-> 1, live |-> TRUE, named |-> FALSE]
  <2>1. /\ run'.state = "baseline_running" /\ attempt' = Append(attempt, a) /\ Told = "none"
        /\ run.state \in {"created", "baseline_running"} /\ Latest < MaxAttempts
    BY <1>1, <1>4, <1>6 DEF ClaimNew, Claimable, Open, TypeOK, Run
  <2>2. Len(attempt') = Len(attempt) + 1 /\ attempt'[Len(attempt')].state = "active"
    BY <1>1, <2>1, Rows DEF TypeOK
  <2>3. Told' = "none"
    BY <1>1, <2>2, ToldIs DEF Said, DecidedState
  <2>4. Lifecycle!Claim
    BY <2>1, <2>2, <2>3 DEF Lifecycle!Claim, Told, Latest
  <2>5. QED
    BY <2>4 DEF AbstractNext, Lifecycle!Next
<1>7. QED
  BY <1>2, <1>3, <1>5, <1>6 DEF Claim

LEMMA TransitionTells ==
    ASSUME Inv, Inv', NEW h \in Handler, Transition(h)
    PROVE  AbstractNext
<1>1. TypeOK /\ TypeOK' /\ UNCHANGED attempt
  BY DEF Inv, Transition
<1>2. Told' = Told /\ Latest' = Latest
  BY <1>1, ToldKept
<1>3. CASE run.state # "baseline_running"
  BY <1>1, <1>3, SayingNothing DEF Transition, AbstractNext
<1>4. CASE run.state = "baseline_running"
  <2>1. Settling(handler[h], attempt)
    BY DEF Inv, HandlersOK, RecordOK, Transition, In
  <2>2. Result(h) \in Infrastructure <=> Told \notin {"passed", "customer_failed"}
    BY <1>1, <2>1, ToldIs DEF Said, Settling, Result, Infrastructure, Outcome, DecidedState
  <2>3. run'.state = IF Told \in {"passed", "customer_failed"}
                     THEN "ready_for_investigation" ELSE "infrastructure_failed"
    <3>1. CASE Result(h) \in Infrastructure
      BY <1>1, <1>4, <2>2, <3>1 DEF Transition, TypeOK, Run
    <3>2. CASE Result(h) \notin Infrastructure
      BY <1>4, <2>2, <3>2 DEF Transition
    <3>3. QED
      BY <3>1, <3>2
  <2>4. Lifecycle!Finish
    BY <1>2, <1>4, <2>3 DEF Lifecycle!Finish, Told
  <2>5. QED
    BY <2>4 DEF AbstractNext, Lifecycle!Next
<1>5. QED
  BY <1>3, <1>4

LEMMA HandlerTells ==
    ASSUME Inv, Inv', NEW h \in Handler, HandlerStep(h)
    PROVE  AbstractNext
<1>1. TypeOK /\ TypeOK'
  BY DEF Inv
<1>2. CASE \/ Refuse(h) \/ StartFails(h) \/ CreateSandbox(h) \/ Work(h) \/ Cleanup(h)
           \/ Report(h) \/ InsertEvidence(h) \/ Recover(h) \/ ReplyJob(h)
  <2>1. UNCHANGED <<run, attempt>>
    BY <1>2 DEF Refuse, StartFails, CreateSandbox, Work, Cleanup, Report, InsertEvidence, Recover,
                ReplyJob
  <2>2. QED
    BY <2>1, SayingNothing DEF AbstractNext
<1>3. CASE Check(h)
  <2>1. handler[h].phase \in Working /\ UNCHANGED run
    BY <1>3 DEF Check, In, Working, Executing
  <2>2. CASE UNCHANGED attempt
    BY <2>1, <2>2, SayingNothing DEF AbstractNext
  <2>3. CASE FinishAs(h, "exhausted", "terminal")
    BY <2>1, <2>3, FinishTells DEF DecidedState, Outcome
  <2>4. QED
    BY <1>3, <2>2, <2>3 DEF Check
<1>4. CASE RequestSandbox(h)
  <2>1. handler[h].phase \in Working /\ UNCHANGED run
    BY <1>4 DEF RequestSandbox, In, Working, Executing
  <2>2. CASE UNCHANGED attempt
    BY <2>1, <2>2, SayingNothing DEF AbstractNext
  <2>3. CASE attempt' = [attempt EXCEPT ![Number(h)].named = TRUE]
    <3> DEFINE n == Number(h)
               a == [attempt[n] EXCEPT !.named = TRUE]
    <3>1. n \in 1 .. Len(attempt) /\ attempt[n] \in Attempt
      BY <2>1, AtWork
    <3>2. attempt' = [attempt EXCEPT ![n] = a]
      BY <1>1, <2>3, <3>1 DEF TypeOK, Attempt
    <3>3. a \in Attempt /\ a.state = attempt[n].state
      BY <3>1 DEF Attempt
    <3>4. run'.state = run.state
      BY <2>1
    <3>5. QED
      BY <3>1, <3>2, <3>3, <3>4, SayingNothing DEF AbstractNext
  <2>4. QED
    BY <1>4, <2>2, <2>3 DEF RequestSandbox
<1>5. CASE Finish(h)
  <2>1. handler[h].phase = "finishing" /\ handler[h].phase \in Working /\ UNCHANGED run
    BY <1>5 DEF Finish, In, Working
  <2>2. Result(h) \in Outcome
    BY <2>1, AtWork DEF RecordOK, Result
  <2>3. FinalState(Number(h), Result(h)) \in DecidedState \cup {"retryable_failed", "abandoned"}
    BY DEF FinalState, DecidedState
  <2>4. QED
    BY <1>5, <2>1, <2>2, <2>3, FinishTells DEF Finish
<1>6. CASE Abandon(h)
  <2>1. handler[h].phase \in Working /\ UNCHANGED run
    BY <1>6 DEF Abandon, In, Working
  <2>2. QED
    BY <1>6, <2>1, FinishTells DEF Abandon, DecidedState, Outcome
<1>7. QED
  BY <1>2, <1>3, <1>4, <1>5, <1>6, ClaimTells, TransitionTells DEF HandlerStep

LEMMA NextTells == ASSUME Inv, Inv', [Next]_vars PROVE AbstractNext
<1>1. TypeOK /\ TypeOK' /\ RowsOK
  BY DEF Inv
<1>2. CASE \/ \E h \in Handler : Deliver(h) \/ DatabaseFails(h) \/ Crash(h)
           \/ TimeOut \/ TimeOutAlive \/ Restart \/ UNCHANGED vars
  <2>1. UNCHANGED <<run, attempt>>
    BY <1>2 DEF Deliver, DatabaseFails, Crash, TimeOut, TimeOutAlive, Restart, vars
  <2>2. QED
    BY <2>1, SayingNothing DEF AbstractNext
<1>3. CASE LapseDead \/ LapseAlive
  <2>1. PICK n \in DOMAIN attempt : Lapse(n)
    BY <1>3 DEF LapseDead, LapseAlive
  <2> DEFINE a == [attempt[n] EXCEPT !.live = FALSE]
  <2>2. n \in 1 .. Len(attempt) /\ attempt[n] \in Attempt
    BY <1>1, <2>1, Rows
  <2>3. attempt' = [attempt EXCEPT ![n] = a]
    BY <1>1, <2>1, <2>2 DEF Lapse, TypeOK, Attempt
  <2>4. a \in Attempt /\ a.state = attempt[n].state
    BY <2>2 DEF Attempt
  <2>5. run'.state = run.state
    BY <2>1 DEF Lapse
  <2>6. QED
    BY <2>2, <2>3, <2>4, <2>5, SayingNothing DEF AbstractNext
<1>4. CASE Cancel
  <2>1. run.state = "created" /\ run'.state = "cancelled" /\ UNCHANGED attempt
    BY <1>1, <1>4 DEF Cancel, TypeOK, Run
  <2>2. Told' = Told /\ Latest' = Latest
    BY <1>1, <2>1, ToldKept
  <2>3. Lifecycle!Cancel
    BY <2>1, <2>2 DEF Lifecycle!Cancel, Told
  <2>4. QED
    BY <2>3 DEF AbstractNext, Lifecycle!Next
<1>5. QED
  BY <1>2, <1>3, <1>4, HandlerTells DEF Next

(* The run goes through its lifecycle, whatever its handlers suffer: a       *)
(* bounded number of attempts, of which at most the last is decided, and an  *)
(* end that says what that one says.                                        *)
THEOREM LifecycleRefines == Spec => LifecycleSpec
<1>1. Init => Lifecycle!Init
  <2>1. SUFFICES ASSUME Init PROVE Lifecycle!Init
    OBVIOUS
  <2>2. attempt = << >> /\ Len(attempt) = 0 /\ DOMAIN attempt = {} /\ run.state = "created"
    BY <2>1 DEF Init
  <2>3. QED
    BY <2>2 DEF Lifecycle!Init, Latest, Decided
<1>2. Inv /\ Inv' /\ [Next]_vars => [Lifecycle!Next]_AbstractVars
  BY NextTells DEF AbstractNext
<1>3. QED
  BY <1>1, <1>2, Invariance, PTL DEF Spec, LifecycleSpec, Lifecycle!Spec, AbstractVars, Told
=============================================================================
