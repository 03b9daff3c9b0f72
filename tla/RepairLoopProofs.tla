--------------------------- MODULE RepairLoopProofs ---------------------------
(***************************************************************************)
(* What the repair loop guarantees for every number of handlers and wakes,  *)
(* every ceiling and every number of crashes, stalls, errors and restarts.  *)
(***************************************************************************)
EXTENDS RepairLoop, FiniteSetTheorems, SequenceTheorems, TLAPS

-----------------------------------------------------------------------------
(* The inductive invariant                                                 *)

Keyed == {"authorizing", "reserving", "completing"}
Working == Keyed \cup {"acting", "judging", "succeeding"}

(* What a handler that has read these facts may rely on: a fact that is      *)
(* final still holds, and one that may change still holds while its wake is  *)
(* the current one.                                                         *)
Known(r, rows) ==
    /\ r.ordinal \in 1 .. Len(rows)
    /\ r.generation # "working" => rows[r.ordinal].generation = r.generation
    /\ r.verification \notin {"none", "working"} =>
          rows[r.ordinal].verification = r.verification
    /\ r.verification # "none" => rows[r.ordinal].verification # "none"

Current(r, row) == row.state \in ActiveState /\ row.wake = r.wake

Unbound(r) == r.verification = "none" /\ (r.phase = "acting" \/ (r.phase \in Keyed /\ r.key = r.ordinal))
Succeeding(r) == r.phase = "succeeding" \/ (r.phase \in Keyed /\ r.key = r.ordinal + 1)

RecordOK(r, row, rows, leases) ==
    /\ r.phase # "idle" => r.wake \in Wake
    /\ r.phase = "failing" => r.error # "none"
    /\ r.phase = "reply" /\ r.answer = "completed" => ~Current(r, row)
    /\ r.phase \in {"reading", "selecting"} \cup Working /\ Current(r, row) => row.state = "running"
    /\ r.phase \in Working => Known(r, rows)
    /\ r.phase \in Working /\ Current(r, row) => r.ordinal = Len(rows)
    /\ r.phase \in Keyed => r.key \in {r.ordinal, r.ordinal + 1} /\ r.key \in 1 .. MaxIterations
    /\ r.phase = "judging" => r.verification # "none"
    /\ Unbound(r) /\ Current(r, row) => rows[r.ordinal].verification = "none"
    /\ Succeeding(r) => /\ r.ordinal < MaxIterations
                        /\ rows[r.ordinal].verification \in {"failed", "regressed"}
    /\ r.phase = "completing" => leases[r.key] # "none"
    /\ r.phase = "acting" => leases[r.ordinal] # "none"
    /\ r.phase = "succeeding" => leases[r.ordinal + 1] # "none"

RowsTyped ==
    /\ loop \in Loop
    /\ iteration \in Seq(Iteration) /\ Len(iteration) \in 1 .. MaxIterations
    /\ lease \in [1 .. MaxIterations -> {"none", "active", "succeeded", "lapsed"}]
    /\ fenced \in BOOLEAN /\ granted \in BOOLEAN
    /\ job \in [Wake -> Job]
    /\ faults \in [crashes : Nat, stalls : Nat, errors : Nat, restarts : Nat]
    /\ (loop.state = "failed") <=> (loop.code # "none")
    /\ (loop.state = "verified") <=> (loop.selected # 0)

(* A round is verified only once frozen and paid for, and follows another    *)
(* one only if paid for.                                                    *)
RowsPaid ==
    \A n \in 1 .. Len(iteration) :
        /\ iteration[n].verification # "none" =>
              iteration[n].generation = "frozen" /\ lease[n] # "none"
        /\ n > 1 => lease[n] # "none"

RowsOK ==
    /\ RowsTyped
    /\ RowsPaid
    /\ OneOpenIteration
    /\ SelectionIsMeasured
    /\ WakeAlive
    /\ Cardinality(Reserved) <= Ceiling

HandlersOK == \A h \in Handler : RecordOK(handler[h], loop, iteration, lease)

Inv == RowsOK /\ handler \in [Handler -> Local] /\ HandlersOK

-----------------------------------------------------------------------------
(* How a step preserves it                                                 *)

(* Facts that never change again, and the ones that hold for the handler of  *)
(* the current wake as long as it is.                                       *)
Monotone ==
    /\ Len(iteration) <= Len(iteration')
    /\ \A n \in 1 .. Len(iteration) :
        /\ iteration[n].generation # "working" =>
              iteration'[n].generation = iteration[n].generation
        /\ iteration[n].verification \notin {"none", "working"} =>
              iteration'[n].verification = iteration[n].verification
        /\ iteration[n].verification # "none" => iteration'[n].verification # "none"
    /\ \A n \in 1 .. MaxIterations : lease[n] # "none" => lease'[n] # "none"

Kept(r) ==
    Current(r, loop') =>
        /\ Current(r, loop)
        /\ loop.state = "running" => loop'.state = "running"
        /\ Len(iteration') = Len(iteration)
        /\ \A n \in 1 .. Len(iteration) :
              iteration[n].verification = "none" => iteration'[n].verification = "none"

(* What another handler has read survives a step.                           *)
LEMMA KnownKept ==
    ASSUME RowsTyped, Monotone, NEW r, Known(r, iteration)
    PROVE  Known(r, iteration')
<1>1. r.ordinal \in 1 .. Len(iteration)
  BY DEF Known
<1>2. Len(iteration) \in Nat
  BY DEF RowsTyped
<1>3. Len(iteration') \in Nat => r.ordinal \in 1 .. Len(iteration')
  BY <1>1, <1>2 DEF Monotone
<1>4. QED
  BY <1>1, <1>3 DEF Known, Monotone

LEMMA RecordKept ==
    ASSUME RowsTyped, RowsTyped', Monotone, NEW r \in Local, Kept(r),
           RecordOK(r, loop, iteration, lease)
    PROVE  RecordOK(r, loop', iteration', lease')
<1>1. r.phase \in Working => Known(r, iteration) /\ Known(r, iteration')
  BY KnownKept DEF RecordOK
<1>2. r.ordinal \in Nat /\ r.key \in Nat
  BY LoopAssumption DEF Local
<1>3. MaxIterations \in Nat
  BY LoopAssumption
<1>4. Current(r, loop') => Current(r, loop)
  BY DEF Kept
<1>5. Current(r, loop') /\ r.phase \in {"reading", "selecting"} \cup Working => loop'.state = "running"
  BY <1>4 DEF Kept, RecordOK
<1>6. Current(r, loop') /\ r.phase \in Working => r.ordinal = Len(iteration')
  BY <1>4 DEF Kept, RecordOK
<1>7. Unbound(r) => r.phase \in Working
  BY DEF Unbound, Working, Keyed
<1>8. Current(r, loop') /\ Unbound(r) => iteration'[r.ordinal].verification = "none"
  BY <1>1, <1>4, <1>7 DEF Kept, RecordOK, Known
<1>9. Succeeding(r) => r.phase \in Working
  BY DEF Succeeding, Working, Keyed
<1>10. Succeeding(r) => /\ r.ordinal < MaxIterations
                        /\ iteration'[r.ordinal].verification \in {"failed", "regressed"}
  BY <1>1, <1>9 DEF RecordOK, Known, Monotone
<1>11. r.phase = "completing" => lease'[r.key] # "none"
  BY DEF RecordOK, Keyed, Monotone
<1>12. Len(iteration) \in 1 .. MaxIterations
  BY DEF RowsTyped
<1>13. r.phase = "acting" => lease'[r.ordinal] # "none"
  BY <1>1, <1>3, <1>12 DEF RecordOK, Working, Known, Monotone
<1>14. r.phase = "succeeding" => lease'[r.ordinal + 1] # "none"
  BY <1>2, <1>3 DEF RecordOK, Succeeding, Monotone
<1>15. QED
  BY <1>1, <1>4, <1>5, <1>6, <1>8, <1>10, <1>11, <1>13, <1>14 DEF RecordOK

LEMMA Step ==
    ASSUME Inv, NEW g \in Handler, NEW r \in Local,
           handler' = [handler EXCEPT ![g] = r],
           RowsOK', Monotone, \A h \in Handler : Kept(handler[h]),
           RecordOK(r, loop', iteration', lease')
    PROVE  Inv'
<1>1. handler' \in [Handler -> Local]
  BY DEF Inv
<1>2. ASSUME NEW h \in Handler
      PROVE  RecordOK(handler'[h], loop', iteration', lease')
  <2>1. CASE h = g
    BY <2>1 DEF Inv
  <2>2. CASE h # g
    <3>1. handler'[h] = handler[h] /\ handler[h] \in Local
      BY <2>2 DEF Inv
    <3>2. RecordOK(handler[h], loop, iteration, lease)
      BY DEF Inv, HandlersOK
    <3>3. RecordOK(handler[h], loop', iteration', lease')
      BY <3>1, <3>2, RecordKept DEF Inv, RowsOK
    <3>4. QED
      BY <3>1, <3>3
  <2>3. QED
    BY <2>1, <2>2
<1>3. QED
  BY <1>1, <1>2 DEF Inv, HandlersOK

LEMMA OutsideStep ==
    ASSUME Inv, UNCHANGED handler, RowsOK', Monotone,
           \A h \in Handler : Kept(handler[h])
    PROVE  Inv'
<1>1. ASSUME NEW h \in Handler
      PROVE  RecordOK(handler'[h], loop', iteration', lease')
  <2>1. handler'[h] = handler[h] /\ handler[h] \in Local
    BY DEF Inv
  <2>2. RecordOK(handler[h], loop, iteration, lease)
    BY DEF Inv, HandlersOK
  <2>3. RecordOK(handler[h], loop', iteration', lease')
    BY <2>1, <2>2, RecordKept DEF Inv, RowsOK
  <2>4. QED
    BY <2>1, <2>3
<1>2. QED
  BY <1>1 DEF Inv, HandlersOK

FaultsTyped == faults \in [crashes : Nat, stalls : Nat, errors : Nat, restarts : Nat]

(* The rows are what they were, except for the jobs.                        *)
LEMMA SameRows ==
    ASSUME Inv, UNCHANGED <<loop, iteration, lease>>, job' \in [Wake -> Job],
           fenced' \in BOOLEAN, granted' \in BOOLEAN, FaultsTyped',
           Active => job'[loop.wake].state # "completed"
    PROVE  RowsOK' /\ Monotone /\ \A h \in Handler : Kept(handler[h])
<1>1. RowsTyped'
  BY DEF Inv, RowsOK, RowsTyped, FaultsTyped
<1>2. RowsPaid' /\ OneOpenIteration' /\ SelectionIsMeasured' /\ (Cardinality(Reserved) <= Ceiling)'
  BY DEF Inv, RowsOK, RowsPaid, OneOpenIteration, Undecided, Active, SelectionIsMeasured, Reserved
<1>3. WakeAlive'
  BY DEF WakeAlive, Active
<1>4. Monotone
  BY DEF Monotone, Inv, RowsOK, RowsTyped
<1>5. \A h \in Handler : Kept(handler[h])
  BY DEF Kept, Current
<1>6. QED
  BY <1>1, <1>2, <1>3, <1>4, <1>5 DEF RowsOK

(* A handler that only reads.                                               *)
LEMMA ReadStep ==
    ASSUME Inv, NEW g \in Handler, NEW r \in Local,
           handler' = [handler EXCEPT ![g] = r], UNCHANGED <<Rows, World>>,
           RecordOK(r, loop, iteration, lease)
    PROVE  Inv'
<1>1. /\ UNCHANGED <<loop, iteration, lease, job>>
      /\ fenced' \in BOOLEAN /\ granted' \in BOOLEAN /\ FaultsTyped'
      /\ job' \in [Wake -> Job]
      /\ Active => job'[loop.wake].state # "completed"
  BY DEF Rows, World, Inv, RowsOK, RowsTyped, FaultsTyped, WakeAlive
<1>2. RowsOK' /\ Monotone /\ \A h \in Handler : Kept(handler[h])
  BY <1>1, SameRows
<1>3. RecordOK(r, loop', iteration', lease')
  BY <1>1
<1>4. QED
  BY <1>2, <1>3, Step

-----------------------------------------------------------------------------
(* What a handler becomes                                                  *)

LEMMA PhaseOf ==
    ASSUME Inv, NEW h \in Handler
    PROVE  /\ handler[h] \in Local
           /\ RecordOK(handler[h], loop, iteration, lease)
           /\ loop \in Loop /\ iteration \in Seq(Iteration)
           /\ Len(iteration) \in 1 .. MaxIterations
BY DEF Inv, HandlersOK, RowsOK, RowsTyped

LEMMA GotoRecord ==
    ASSUME Inv, NEW h \in Handler, NEW p \in Phase, Goto(h, p)
    PROVE  /\ [handler[h] EXCEPT !.phase = p] \in Local
           /\ handler' = [handler EXCEPT ![h] = [handler[h] EXCEPT !.phase = p]]
BY DEF Goto, Inv, Local

LEMMA IdleType ==
    Idle \in Local
BY LoopAssumption DEF Idle, Local, Phase, Generation, Verification

LEMMA ReplyRecord ==
    ASSUME Inv, NEW h \in Handler, NEW a \in {"completed", "failed", "deadletter"},
           Reply(h, a), ~In(h, "idle")
    PROVE  \E r \in Local :
              /\ handler' = [handler EXCEPT ![h] = r]
              /\ \A row, rows, leases :
                    (a = "completed" => ~Current(handler[h], row)) => RecordOK(r, row, rows, leases)
<1> DEFINE r == [Idle EXCEPT !.phase = "reply", !.wake = handler[h].wake, !.answer = a]
<1>1. handler[h].wake \in Wake
  BY PhaseOf DEF RecordOK, In
<1>2. r.phase = "reply" /\ r.wake = handler[h].wake /\ r.answer = a
  BY IdleType DEF Local
<1>3. r \in Local
  <2>1. "reply" \in Phase
    BY DEF Phase
  <2>2. QED
    BY <1>1, <2>1, IdleType, Zenon DEF Local
<1>4. handler' = [handler EXCEPT ![h] = r]
  BY DEF Reply
<1> HIDE DEF r
<1>5. ASSUME NEW row, NEW rows, NEW leases, a = "completed" => ~Current(handler[h], row)
      PROVE  RecordOK(r, row, rows, leases)
  BY <1>1, <1>2, <1>5 DEF RecordOK, Current, Working, Keyed, Unbound, Succeeding
<1>6. QED
  BY <1>3, <1>4, <1>5

LEMMA RaiseRecord ==
    ASSUME Inv, NEW h \in Handler, NEW c \in Code, Raise(h, c), ~In(h, "idle")
    PROVE  \E r \in Local :
              /\ handler' = [handler EXCEPT ![h] = r]
              /\ \A row, rows, leases : RecordOK(r, row, rows, leases)
<1> DEFINE r == [Idle EXCEPT !.phase = "failing", !.wake = handler[h].wake, !.error = c]
<1>1. handler[h].wake \in Wake
  BY PhaseOf DEF RecordOK, In
<1>2. r.phase = "failing" /\ r.wake = handler[h].wake /\ r.error = c
  BY IdleType DEF Local
<1>3. r \in Local
  <2>1. "failing" \in Phase
    BY DEF Phase
  <2>2. QED
    BY <1>1, <2>1, IdleType, Zenon DEF Local
<1>4. handler' = [handler EXCEPT ![h] = r]
  BY DEF Raise
<1>5. c # "none"
  BY DEF Code, AuthorityCode
<1> HIDE DEF r
<1>6. ASSUME NEW row, NEW rows, NEW leases
      PROVE  RecordOK(r, row, rows, leases)
  BY <1>1, <1>2, <1>5 DEF RecordOK, Current, Working, Keyed, Unbound, Succeeding
<1>7. QED
  BY <1>3, <1>4, <1>6

(* An answer or a failure changes nothing else.                             *)
LEMMA RaiseStep ==
    ASSUME Inv, NEW h \in Handler, NEW c \in Code, Raise(h, c), ~In(h, "idle"),
           UNCHANGED <<Rows, World>>
    PROVE  Inv'
BY RaiseRecord, ReadStep

LEMMA ReplyStep ==
    ASSUME Inv, NEW h \in Handler, NEW a \in {"completed", "failed", "deadletter"},
           Reply(h, a), ~In(h, "idle"), UNCHANGED <<Rows, World>>,
           a = "completed" => ~OwnsWake(h)
    PROVE  Inv'
<1>1. PICK r \in Local :
         /\ handler' = [handler EXCEPT ![h] = r]
         /\ \A row, rows, leases :
              (a = "completed" => ~Current(handler[h], row)) => RecordOK(r, row, rows, leases)
  BY ReplyRecord
<1>2. a = "completed" => ~Current(handler[h], loop)
  BY DEF OwnsWake, Active, Current
<1>3. QED
  BY <1>1, <1>2, ReadStep

LEMMA GotoStep ==
    ASSUME Inv, NEW h \in Handler, NEW p \in Phase, Goto(h, p), UNCHANGED <<Rows, World>>,
           RecordOK([handler[h] EXCEPT !.phase = p], loop, iteration, lease)
    PROVE  Inv'
BY GotoRecord, ReadStep

-----------------------------------------------------------------------------
(* The steps that only read                                                *)

LEMMA CurrentIsOwned ==
    ASSUME NEW h \in Handler
    PROVE  Current(handler[h], loop) <=> OwnsWake(h)
BY DEF Current, OwnsWake, Active

LEMMA ValidateInv ==
    ASSUME Inv, NEW h \in Handler, Validate(h)
    PROVE  Inv'
<1>1. ~In(h, "idle") /\ UNCHANGED <<Rows, World>>
  BY DEF Validate, In
<1>2. CASE Reply(h, "failed") \/ Reply(h, "deadletter")
  BY <1>1, <1>2, ReplyStep
<1>3. CASE ~OwnsWake(h) /\ Reply(h, "completed")
  BY <1>1, <1>3, ReplyStep
<1>4. CASE Goto(h, "fencing")
  <2>1. RecordOK([handler[h] EXCEPT !.phase = "fencing"], loop, iteration, lease)
    BY <1>1, PhaseOf DEF RecordOK, Local, Working, Keyed, Unbound, Succeeding, In
  <2>2. QED
    BY <1>1, <1>4, <2>1, GotoStep DEF Phase
<1>5. QED
  BY <1>2, <1>3, <1>4 DEF Validate

LEMMA FenceInv ==
    ASSUME Inv, NEW h \in Handler, Fence(h)
    PROVE  Inv'
<1>1. ~In(h, "idle") /\ UNCHANGED <<Rows, World>>
  BY DEF Fence, In
<1>2. CASE Raise(h, "refused")
  BY <1>1, <1>2, RaiseStep DEF Code, AuthorityCode
<1>3. CASE Goto(h, "starting")
  <2>1. RecordOK([handler[h] EXCEPT !.phase = "starting"], loop, iteration, lease)
    BY <1>1, PhaseOf DEF RecordOK, Local, Working, Keyed, Unbound, Succeeding, In
  <2>2. QED
    BY <1>1, <1>3, <2>1, GotoStep DEF Phase
<1>4. QED
  BY <1>2, <1>3 DEF Fence

LEMMA ReadLoopInv ==
    ASSUME Inv, NEW h \in Handler, ReadLoop(h)
    PROVE  Inv'
<1>1. ~In(h, "idle") /\ handler[h].phase = "reading" /\ UNCHANGED <<Rows, World>>
  BY DEF ReadLoop, In
<1>2. OwnsWake(h) => loop.state = "running"
  BY <1>1, PhaseOf, CurrentIsOwned DEF RecordOK
<1>3. CASE ~Owns(h) /\ Reply(h, "completed")
  BY <1>1, <1>2, <1>3, ReplyStep DEF Owns
<1>4. CASE Goto(h, "selecting")
  <2>1. RecordOK([handler[h] EXCEPT !.phase = "selecting"], loop, iteration, lease)
    BY <1>1, PhaseOf DEF RecordOK, Local, Working, Keyed, Unbound, Succeeding, Current
  <2>2. QED
    BY <1>1, <1>4, <2>1, GotoStep DEF Phase
<1>5. QED
  BY <1>3, <1>4 DEF ReadLoop

LEMMA ReadIterationInv ==
    ASSUME Inv, NEW h \in Handler, ReadIteration(h)
    PROVE  Inv'
<1>1. ~In(h, "idle") /\ handler[h].phase = "selecting" /\ UNCHANGED <<Rows, World>>
  BY DEF ReadIteration, In
<1>2. CASE Raise(h, "integrity")
  BY <1>1, <1>2, RaiseStep DEF Code
<1>3. ASSUME NEW n \in Undecided,
             handler' = [handler EXCEPT ![h].phase = "authorizing",
                                        ![h].ordinal = n, ![h].key = n,
                                        ![h].generation = iteration[n].generation,
                                        ![h].verification = iteration[n].verification]
      PROVE  Inv'
  <2> DEFINE r == [handler[h] EXCEPT !.phase = "authorizing", !.ordinal = n, !.key = n,
                                     !.generation = iteration[n].generation,
                                     !.verification = iteration[n].verification]
  <2>1. handler' = [handler EXCEPT ![h] = r]
    BY <1>3 DEF Inv
  <2>2. n \in 1 .. Len(iteration) /\ n \in 1 .. MaxIterations /\ iteration[n] \in Iteration
    BY PhaseOf, LoopAssumption DEF Undecided
  <2>3. r \in Local
    <3>1. "authorizing" \in Phase
      BY DEF Phase
    <3>2. /\ iteration[n].generation \in Generation
          /\ iteration[n].verification \in Verification
          /\ n \in 0 .. MaxIterations
      BY <2>2 DEF Iteration
    <3>3. QED
      BY <3>1, <3>2, PhaseOf, Zenon DEF Local
  <2>4. Active => n = Len(iteration)
    BY DEF Inv, RowsOK, OneOpenIteration
  <2>5. /\ r.phase = "authorizing" /\ r.ordinal = n /\ r.key = n /\ r.wake = handler[h].wake
        /\ r.generation = iteration[n].generation
        /\ r.verification = iteration[n].verification
    BY PhaseOf DEF Local
  <2> HIDE DEF r
  <2>6. Current(r, loop) => Active /\ Current(handler[h], loop)
    BY <2>5 DEF Current, Active
  <2>7. Known(r, iteration)
    BY <2>2, <2>5 DEF Known
  <2>8. RecordOK(r, loop, iteration, lease)
    BY <1>1, <2>2, <2>4, <2>5, <2>6, <2>7, PhaseOf
       DEF RecordOK, Working, Keyed, Unbound, Succeeding
  <2>9. QED
    BY <1>1, <2>1, <2>3, <2>8, ReadStep
<1>4. QED
  BY <1>2, <1>3 DEF ReadIteration

-----------------------------------------------------------------------------
(* Reservations                                                            *)

LEMMA ReservedFinite ==
    ASSUME RowsTyped
    PROVE  IsFiniteSet(Reserved) /\ Reserved \subseteq 1 .. MaxIterations
<1>1. IsFiniteSet(1 .. MaxIterations)
  BY LoopAssumption, FS_Interval
<1>2. Reserved \subseteq 1 .. MaxIterations
  BY DEF Reserved, RowsTyped
<1>3. QED
  BY <1>1, <1>2, FS_Subset

(* A reservation is only ever added where the ceiling leaves room, and never *)
(* given back.                                                              *)
LEMMA LeaseChange ==
    ASSUME Inv, NEW n \in 1 .. MaxIterations, NEW l \in {"active", "succeeded", "lapsed"},
           lease' = [lease EXCEPT ![n] = l], lease[n] # "none" \/ ~Exhausted,
           UNCHANGED <<loop, iteration, job, fenced, granted>>, FaultsTyped'
    PROVE  RowsOK' /\ Monotone /\ \A h \in Handler : Kept(handler[h])
<1>1. lease \in [1 .. MaxIterations -> {"none", "active", "succeeded", "lapsed"}]
  BY DEF Inv, RowsOK, RowsTyped
<1>2. \A m \in 1 .. MaxIterations : lease[m] # "none" => lease'[m] # "none"
  BY <1>1
<1>3. RowsTyped'
  BY <1>1 DEF Inv, RowsOK, RowsTyped, FaultsTyped
<1>4. Monotone
  BY <1>2 DEF Monotone, Inv, RowsOK, RowsTyped
<1>5. RowsPaid'
  <2>1. Len(iteration) \in 1 .. MaxIterations
    BY DEF Inv, RowsOK, RowsTyped
  <2>2. \A m \in 1 .. Len(iteration) : m \in 1 .. MaxIterations
    BY <2>1, LoopAssumption
  <2>3. QED
    BY <1>2, <2>2 DEF Inv, RowsOK, RowsPaid
<1>6. OneOpenIteration' /\ SelectionIsMeasured' /\ WakeAlive'
  BY DEF Inv, RowsOK, OneOpenIteration, Undecided, Active, SelectionIsMeasured, WakeAlive
<1>7. (Cardinality(Reserved) <= Ceiling)'
  <2>1. Reserved' = Reserved \cup {n}
    BY <1>1 DEF Reserved
  <2>2. CASE lease[n] # "none"
    <3>1. Reserved' = Reserved
      BY <1>1, <2>1, <2>2 DEF Reserved
    <3>2. QED
      BY <3>1 DEF Inv, RowsOK
  <2>3. CASE lease[n] = "none" /\ ~Exhausted
    <3>1. n \notin Reserved /\ IsFiniteSet(Reserved)
      BY <2>3, ReservedFinite DEF Reserved, Inv, RowsOK
    <3>2. Cardinality(Reserved') = Cardinality(Reserved) + 1 /\ Cardinality(Reserved) \in Nat
      BY <2>1, <3>1, FS_AddElement, FS_CardinalityType
    <3>3. QED
      BY <2>3, <3>2, LoopAssumption DEF Exhausted
  <2>4. QED
    BY <2>2, <2>3
<1>8. \A h \in Handler : Kept(handler[h])
  BY DEF Kept, Current
<1>9. QED
  BY <1>3, <1>4, <1>5, <1>6, <1>7, <1>8 DEF RowsOK

(* The record of a handler whose reservation is good.                       *)
LEMMA AuthorizedRecord ==
    ASSUME Inv, NEW h \in Handler, handler[h].phase \in Keyed, Authorized(h),
           NEW leases, leases[handler[h].key] # "none"
    PROVE  \E r \in Local : /\ handler' = [handler EXCEPT ![h] = r]
                            /\ RecordOK(r, loop, iteration, leases)
<1> DEFINE o == handler[h]
           p == IF o.key = Seen(h) THEN "acting" ELSE "succeeding"
           r == [o EXCEPT !.phase = p, !.key = 0, !.error = "none"]
<1>1. o \in Local /\ RecordOK(o, loop, iteration, lease)
  BY PhaseOf
<1>2. handler' = [handler EXCEPT ![h] = r]
  BY DEF Authorized, Inv
<1>3. r \in Local
  <2>1. p \in Phase /\ 0 \in 0 .. MaxIterations /\ "none" \in Code \cup {"none"}
    BY LoopAssumption DEF Phase
  <2> HIDE DEF p
  <2>2. QED
    BY <1>1, <2>1, Zenon DEF Local
<1>4. /\ r.phase = p /\ r.ordinal = o.ordinal /\ r.wake = o.wake
      /\ r.generation = o.generation /\ r.verification = o.verification
  <2> HIDE DEF p
  <2>1. QED
    BY <1>1 DEF Local
<1>5. p \in {"acting", "succeeding"}
  OBVIOUS
<1>6. CASE o.key = o.ordinal
  <2>1. p = "acting"
    BY <1>6 DEF Seen
  <2> HIDE DEF r, p
  <2>2. RecordOK(r, loop, iteration, leases)
    BY <1>1, <1>4, <1>6, <2>1 DEF RecordOK, Working, Keyed, Known, Current, Unbound, Succeeding
  <2>3. QED
    BY <1>2, <1>3, <2>2
<1>7. CASE o.key # o.ordinal
  <2>1. p = "succeeding"
    BY <1>7 DEF Seen
  <2> HIDE DEF r, p
  <2>2. o.key = o.ordinal + 1
    BY <1>1, <1>7 DEF RecordOK
  <2>3. RecordOK(r, loop, iteration, leases)
    BY <1>1, <1>4, <2>1, <2>2 DEF RecordOK, Working, Keyed, Known, Current, Unbound, Succeeding
  <2>4. QED
    BY <1>2, <1>3, <2>3
<1>8. QED
  BY <1>6, <1>7

(* The record of a handler between the phases of authorizeIteration.        *)
LEMMA KeyedRecord ==
    ASSUME Inv, NEW h \in Handler, handler[h].phase \in Keyed,
           NEW p \in {"authorizing", "reserving"}, NEW e \in Code \cup {"none"}
    PROVE  /\ [handler[h] EXCEPT !.phase = p, !.error = e] \in Local
           /\ RecordOK([handler[h] EXCEPT !.phase = p, !.error = e], loop, iteration, lease)
<1> DEFINE o == handler[h]
           r == [o EXCEPT !.phase = p, !.error = e]
<1>1. o \in Local /\ RecordOK(o, loop, iteration, lease)
  BY PhaseOf
<1>2. p \in Phase
  BY DEF Phase
<1>3. r \in Local
  BY <1>1, <1>2, Zenon DEF Local
<1>4. /\ r.phase = p /\ r.ordinal = o.ordinal /\ r.wake = o.wake /\ r.key = o.key
      /\ r.generation = o.generation /\ r.verification = o.verification
  BY <1>1 DEF Local
<1> HIDE DEF r
<1>5. RecordOK(r, loop, iteration, lease)
  BY <1>1, <1>4 DEF RecordOK, Working, Keyed, Known, Current, Unbound, Succeeding
<1>6. QED
  BY <1>3, <1>5 DEF r

(* Between the phases of authorizeIteration nothing else changes.           *)
LEMMA KeyedStep ==
    ASSUME Inv, NEW h \in Handler, handler[h].phase \in Keyed,
           NEW p \in {"authorizing", "reserving"}, NEW e \in Code \cup {"none"},
           handler' = [handler EXCEPT ![h] = [handler[h] EXCEPT !.phase = p, !.error = e]],
           UNCHANGED <<Rows, World>>
    PROVE  Inv'
BY KeyedRecord, ReadStep

LEMMA ExistingAuthorityInv ==
    ASSUME Inv, NEW h \in Handler, ExistingAuthority(h)
    PROVE  Inv'
<1>1. ~In(h, "idle") /\ handler[h].phase \in Keyed /\ UNCHANGED <<Rows, World>>
  BY DEF ExistingAuthority, In, Keyed
<1>2. ASSUME NEW c \in Code, Raise(h, c)
      PROVE  Inv'
  BY <1>1, <1>2, RaiseStep
<1>3. CASE Goto(h, "reserving")
  <2>1. handler' = [handler EXCEPT ![h] = [handler[h] EXCEPT !.phase = "reserving",
                                                          !.error = handler[h].error]]
    BY <1>3, PhaseOf DEF Goto, Inv, Local
  <2>2. handler[h].error \in Code \cup {"none"}
    BY PhaseOf DEF Local
  <2>3. QED
    BY <1>1, <2>1, <2>2, KeyedStep
<1>4. CASE Authorized(h) /\ lease[handler[h].key] # "none"
  BY <1>1, <1>4, AuthorizedRecord, ReadStep
<1>5. handler[h].error \in Code \cup {"none"}
  BY PhaseOf DEF Local
<1>6. QED
  BY <1>2, <1>3, <1>4, <1>5 DEF ExistingAuthority, Code, AuthorityCode

LEMMA ReserveInv ==
    ASSUME Inv, NEW h \in Handler, Reserve(h)
    PROVE  Inv'
<1>1. handler[h].phase = "reserving" /\ UNCHANGED <<loop, iteration, job, World>>
  BY DEF Reserve, In
<1>2. ASSUME NEW c \in Code, UNCHANGED lease,
             handler' = [handler EXCEPT ![h].phase = "authorizing", ![h].error = c]
      PROVE  Inv'
  <2>1. handler' = [handler EXCEPT ![h] = [handler[h] EXCEPT !.phase = "authorizing", !.error = c]]
    BY <1>2 DEF Inv
  <2>2. handler[h].phase \in Keyed /\ UNCHANGED <<Rows, World>>
    BY <1>1, <1>2 DEF Keyed, Rows
  <2>3. QED
    BY <2>1, <2>2, KeyedStep
<1>3. ASSUME ~Exhausted, lease' = [lease EXCEPT ![handler[h].key] = "active"],
             Goto(h, "completing")
      PROVE  Inv'
  <2> DEFINE o == handler[h]
             r == [o EXCEPT !.phase = "completing"]
  <2>1. o \in Local /\ RecordOK(o, loop, iteration, lease) /\ o.key \in 1 .. MaxIterations
    BY <1>1, PhaseOf DEF RecordOK, Keyed
  <2>2. r \in Local /\ handler' = [handler EXCEPT ![h] = r]
    BY <1>3, GotoRecord DEF Phase
  <2>3. FaultsTyped' /\ UNCHANGED <<fenced, granted>>
    BY <1>1 DEF World, FaultsTyped, Inv, RowsOK, RowsTyped
  <2>4. RowsOK' /\ Monotone /\ \A g \in Handler : Kept(handler[g])
    BY <1>1, <1>3, <2>1, <2>3, LeaseChange
  <2>5. RecordOK(o, loop', iteration', lease')
    BY <2>1, <2>4, RecordKept DEF Inv, RowsOK
  <2>6. lease'[o.key] # "none"
    BY <1>3, <2>1 DEF Inv, RowsOK, RowsTyped
  <2>7. /\ r.phase = "completing" /\ r.ordinal = o.ordinal /\ r.wake = o.wake /\ r.key = o.key
        /\ r.generation = o.generation /\ r.verification = o.verification
    BY <2>1 DEF Local
  <2> HIDE DEF r
  <2>8. RecordOK(r, loop', iteration', lease')
    BY <1>1, <2>5, <2>6, <2>7 DEF RecordOK, Working, Keyed, Known, Current, Unbound, Succeeding
  <2>9. QED
    BY <2>2, <2>4, <2>8, Step
<1>4. QED
  BY <1>2, <1>3 DEF Reserve, Code, AuthorityCode

LEMMA CompleteInv ==
    ASSUME Inv, NEW h \in Handler, Complete(h)
    PROVE  Inv'
<1>1. /\ ~In(h, "idle") /\ handler[h].phase = "completing"
      /\ UNCHANGED <<loop, iteration, job, World>>
  BY DEF Complete, In
<1>2. CASE Raise(h, "refused") /\ UNCHANGED lease
  BY <1>1, <1>2, RaiseStep DEF Code, AuthorityCode, Rows
<1>3. CASE /\ Authorized(h) /\ lease[handler[h].key] = "active"
           /\ lease' = [lease EXCEPT ![handler[h].key] = "succeeded"]
  <2>1. handler[h].key \in 1 .. MaxIterations /\ handler[h].phase \in Keyed
    BY <1>1, PhaseOf DEF RecordOK, Keyed
  <2>2. FaultsTyped' /\ UNCHANGED <<fenced, granted>>
    BY <1>1 DEF World, FaultsTyped, Inv, RowsOK, RowsTyped
  <2>3. RowsOK' /\ Monotone /\ \A g \in Handler : Kept(handler[g])
    BY <1>1, <1>3, <2>1, <2>2, LeaseChange
  <2>4. lease'[handler[h].key] # "none"
    BY <1>3, <2>1 DEF Inv, RowsOK, RowsTyped
  <2>5. PICK r \in Local : /\ handler' = [handler EXCEPT ![h] = r]
                            /\ RecordOK(r, loop, iteration, lease')
    BY <1>3, <2>1, <2>4, AuthorizedRecord
  <2>6. QED
    BY <1>1, <2>3, <2>5, Step
<1>4. QED
  BY <1>2, <1>3 DEF Complete

-----------------------------------------------------------------------------
(* PgBoss, the clock and the other workers                                 *)

LEMMA JobType ==
    ASSUME NEW j \in Job
    PROVE  /\ Retried(j) \in Job /\ Retried(j).state # "completed"
           /\ \A a : Answered(j, a) \in Job
           /\ \A a : a # "completed" => Answered(j, a).state # "completed"
<1>1. Retried(j) \in Job /\ Retried(j).state # "completed"
  <2>1. CASE j.retries > 0
    <3>1. j.retries - 1 \in 0 .. RetryLimit
      BY <2>1, LoopAssumption DEF Job
    <3>2. QED
      BY <2>1, <3>1 DEF Retried, Job
  <2>2. CASE ~(j.retries > 0)
    BY <2>2 DEF Retried, Job
  <2>3. QED
    BY <2>1, <2>2
<1>2. /\ [j EXCEPT !.state = "completed", !.holder = "none"] \in Job
      /\ [j EXCEPT !.state = "failed", !.holder = "none"] \in Job
      /\ [j EXCEPT !.state = "failed", !.holder = "none"].state = "failed"
  BY DEF Job
<1>3. QED
  BY <1>1, <1>2 DEF Answered

LEMMA IdleRecord ==
    ASSUME NEW row, NEW rows, NEW leases
    PROVE  RecordOK(Idle, row, rows, leases)
BY DEF RecordOK, Idle, Working, Keyed, Unbound, Succeeding

LEMMA DeliverInv ==
    ASSUME Inv, NEW h \in Handler, NEW w \in Wake, Deliver(h, w)
    PROVE  Inv'
<1> DEFINE o == handler[h]
           l == (job[w].retries = 0)
           r == [o EXCEPT !.phase = "received", !.wake = w, !.last = l]
<1>1. o \in Local /\ job[w] \in Job
  BY PhaseOf DEF Inv, RowsOK, RowsTyped
<1>2. handler' = [handler EXCEPT ![h] = r]
  BY DEF Deliver, Inv
<1>3. r \in Local
  <2>1. "received" \in Phase /\ l \in BOOLEAN
    BY DEF Phase
  <2> HIDE DEF l
  <2>2. QED
    BY <1>1, <2>1, Zenon DEF Local
<1>4. r.phase = "received" /\ r.wake = w
  BY <1>1 DEF Local
<1> HIDE DEF r
<1>5. \A row, rows, leases : RecordOK(r, row, rows, leases)
  BY <1>4 DEF RecordOK, Working, Keyed, Unbound, Succeeding
<1>6. job' = [job EXCEPT ![w] = [job[w] EXCEPT !.state = "active", !.holder = h]]
  BY DEF Deliver, Inv, RowsOK, RowsTyped
<1>7. /\ [job[w] EXCEPT !.state = "active", !.holder = h] \in Job
      /\ [job[w] EXCEPT !.state = "active", !.holder = h].state = "active"
  BY <1>1 DEF Job
<1>8. job' \in [Wake -> Job] /\ (Active => job'[loop.wake].state # "completed")
  BY <1>6, <1>7 DEF Inv, RowsOK, RowsTyped, WakeAlive, Loop
<1>9. RowsOK' /\ Monotone /\ \A g \in Handler : Kept(handler[g])
  BY <1>8, SameRows DEF Deliver, World, FaultsTyped, Inv, RowsOK, RowsTyped
<1>10. QED
  BY <1>2, <1>3, <1>5, <1>9, Step

LEMMA ReplyJobInv ==
    ASSUME Inv, NEW h \in Handler, ReplyJob(h)
    PROVE  Inv'
<1> DEFINE w == handler[h].wake
           a == handler[h].answer
<1>1. w \in Wake /\ job[w] \in Job /\ (a = "completed" => ~(Active /\ loop.wake = w))
  BY PhaseOf DEF ReplyJob, In, RecordOK, Current, Active, Inv, RowsOK, RowsTyped
<1>2. Answered(job[w], a) \in Job /\ (a # "completed" => Answered(job[w], a).state # "completed")
  BY <1>1, JobType
<1>3. job' = [job EXCEPT ![w] = Answered(job[w], a)] \/ UNCHANGED job
  BY DEF ReplyJob
<1> HIDE DEF w, a
<1>4. job' \in [Wake -> Job] /\ (Active => job'[loop.wake].state # "completed")
  BY <1>1, <1>2, <1>3 DEF Inv, RowsOK, RowsTyped, WakeAlive, Loop
<1>5. RowsOK' /\ Monotone /\ \A g \in Handler : Kept(handler[g])
  BY <1>4, SameRows DEF ReplyJob, World, FaultsTyped, Inv, RowsOK, RowsTyped
<1>6. QED
  BY <1>5, IdleType, IdleRecord, Step DEF ReplyJob

LEMMA CrashInv ==
    ASSUME Inv, NEW h \in Handler, Crash(h)
    PROVE  Inv'
<1> DEFINE w == handler[h].wake
<1>1. w \in Wake /\ job[w] \in Job
  BY PhaseOf DEF Crash, In, RecordOK, Inv, RowsOK, RowsTyped
<1>2. job' = [job EXCEPT ![w] = [job[w] EXCEPT !.holder = "none"]] \/ UNCHANGED job
  BY DEF Crash
<1>3. /\ [job[w] EXCEPT !.holder = "none"] \in Job
      /\ [job[w] EXCEPT !.holder = "none"].state = job[w].state
  BY <1>1 DEF Job
<1>4. FaultsTyped'
  BY DEF Crash, FaultsTyped, Inv, RowsOK, RowsTyped
<1> HIDE DEF w
<1>5. job' \in [Wake -> Job]
  BY <1>1, <1>2, <1>3 DEF Inv, RowsOK, RowsTyped
<1>6. \A v \in Wake : job'[v].state = job[v].state
  BY <1>1, <1>2, <1>3 DEF Inv, RowsOK, RowsTyped
<1>7. Active => job'[loop.wake].state # "completed"
  BY <1>6 DEF Inv, RowsOK, RowsTyped, WakeAlive, Loop
<1>8. RowsOK' /\ Monotone /\ \A g \in Handler : Kept(handler[g])
  BY <1>4, <1>5, <1>7, SameRows DEF Crash, Inv, RowsOK, RowsTyped
<1>9. QED
  BY <1>8, IdleType, IdleRecord, Step DEF Crash

LEMMA TimeOutInv ==
    ASSUME Inv, NEW w \in Wake, TimeOut(w)
    PROVE  Inv'
<1>1. Retried(job[w]) \in Job /\ Retried(job[w]).state # "completed"
  BY JobType DEF Inv, RowsOK, RowsTyped
<1>2. job' = [job EXCEPT ![w] = Retried(job[w])]
  BY DEF TimeOut
<1>3. FaultsTyped'
  BY DEF TimeOut, Stall, FaultsTyped, Inv, RowsOK, RowsTyped
<1>4. job' \in [Wake -> Job] /\ (Active => job'[loop.wake].state # "completed")
  BY <1>1, <1>2 DEF Inv, RowsOK, RowsTyped, WakeAlive, Loop
<1>5. RowsOK' /\ Monotone /\ \A g \in Handler : Kept(handler[g])
  BY <1>3, <1>4, SameRows DEF TimeOut, Inv, RowsOK, RowsTyped
<1>6. QED
  BY <1>5, OutsideStep DEF TimeOut

LEMMA RestartInv ==
    ASSUME Inv, Restart
    PROVE  Inv'
<1>1. loop.wake \in Wake /\ job[loop.wake] \in Job
  BY DEF Inv, RowsOK, RowsTyped, Loop
<1>2. job' = [job EXCEPT ![loop.wake] = [job[loop.wake] EXCEPT !.state = "queued"]]
  BY <1>1 DEF Restart, Inv, RowsOK, RowsTyped
<1>3. /\ [job[loop.wake] EXCEPT !.state = "queued"] \in Job
      /\ [job[loop.wake] EXCEPT !.state = "queued"].state = "queued"
  BY <1>1 DEF Job
<1>4. FaultsTyped'
  BY DEF Restart, FaultsTyped, Inv, RowsOK, RowsTyped
<1>5. RowsOK' /\ Monotone /\ \A g \in Handler : Kept(handler[g])
  BY <1>1, <1>2, <1>3, <1>4, SameRows DEF Restart, Inv, RowsOK, RowsTyped
<1>6. QED
  BY <1>5, OutsideStep DEF Restart

LEMMA LapseInv ==
    ASSUME Inv, NEW n \in DOMAIN lease, Lapse(n)
    PROVE  Inv'
<1>1. n \in 1 .. MaxIterations
  BY DEF Inv, RowsOK, RowsTyped
<1>2. FaultsTyped'
  BY DEF Lapse, Stall, FaultsTyped, Inv, RowsOK, RowsTyped
<1>3. RowsOK' /\ Monotone /\ \A g \in Handler : Kept(handler[g])
  BY <1>1, <1>2, LeaseChange DEF Lapse
<1>4. QED
  BY <1>3, OutsideStep DEF Lapse

LEMMA FenceFallsInv ==
    ASSUME Inv, FenceFalls
    PROVE  Inv'
<1>1. RowsOK' /\ Monotone /\ \A g \in Handler : Kept(handler[g])
  BY SameRows DEF FenceFalls, Rows, FaultsTyped, Inv, RowsOK, RowsTyped, WakeAlive
<1>2. QED
  BY <1>1, OutsideStep DEF FenceFalls

LEMMA GrantEndsInv ==
    ASSUME Inv, GrantEnds
    PROVE  Inv'
<1>1. RowsOK' /\ Monotone /\ \A g \in Handler : Kept(handler[g])
  BY SameRows DEF GrantEnds, Rows, FaultsTyped, Inv, RowsOK, RowsTyped, WakeAlive
<1>2. QED
  BY <1>1, OutsideStep DEF GrantEnds
(* A database operation fails before it has changed anything.               *)
LEMMA DatabaseErrorInv ==
    ASSUME Inv, NEW h \in Handler, DatabaseError(h)
    PROVE  Inv'
<1>1. ~In(h, "idle") /\ UNCHANGED <<loop, iteration, lease, job, fenced, granted>>
  BY DEF DatabaseError, Rows
<1>2. FaultsTyped'
  BY DEF DatabaseError, FaultsTyped, Inv, RowsOK, RowsTyped
<1>3. RowsOK' /\ Monotone /\ \A g \in Handler : Kept(handler[g])
  BY <1>1, <1>2, SameRows DEF Inv, RowsOK, RowsTyped, WakeAlive
<1>4. ASSUME NEW c \in Code, Raise(h, c)
      PROVE  Inv'
  BY <1>1, <1>3, <1>4, RaiseRecord, Step
<1>5. CASE Reply(h, "failed")
  BY <1>1, <1>3, <1>5, ReplyRecord, Step
<1>6. CASE /\ In(h, "reserving")
           /\ handler' = [handler EXCEPT ![h].phase = "authorizing", ![h].error = "refused"]
  <2>1. handler' = [handler EXCEPT ![h] = [handler[h] EXCEPT !.phase = "authorizing",
                                                             !.error = "refused"]]
    BY <1>6 DEF Inv
  <2>2. handler[h].phase \in Keyed /\ "refused" \in Code
    BY <1>6 DEF In, Keyed, Code, AuthorityCode
  <2>3. QED
    BY <1>1, <1>3, <2>1, <2>2, KeyedRecord, Step
<1>7. {"refused", "reconciliation_exhausted"} \subseteq Code
  BY DEF Code, AuthorityCode
<1>8. QED
  BY <1>4, <1>5, <1>6, <1>7 DEF DatabaseError, FailedDelivery

LEMMA RoundsTyped ==
    ASSUME Inv
    PROVE  /\ iteration \in Seq(Iteration) /\ DOMAIN iteration = 1 .. Len(iteration)
           /\ Len(iteration) \in Nat
           /\ \A n \in 1 .. Len(iteration) : iteration[n] \in Iteration
<1>1. iteration \in Seq(Iteration)
  BY DEF Inv, RowsOK, RowsTyped
<1>2. QED
  BY <1>1, LenProperties, ElementOfSeq

LEMMA RoundReplaced ==
    ASSUME Inv, NEW n \in 1 .. Len(iteration), NEW x \in Iteration,
           iteration' = [iteration EXCEPT ![n] = x]
    PROVE  /\ iteration' \in Seq(Iteration) /\ Len(iteration') = Len(iteration)
           /\ DOMAIN iteration' = DOMAIN iteration /\ DOMAIN iteration = 1 .. Len(iteration)
           /\ Len(iteration) \in Nat
           /\ \A m \in 1 .. Len(iteration) : iteration'[m] = IF m = n THEN x ELSE iteration[m]
<1>1. iteration \in Seq(Iteration) /\ DOMAIN iteration = 1 .. Len(iteration)
  BY RoundsTyped
<1>2. iteration' \in Seq(Iteration) /\ Len(iteration') = Len(iteration)
  BY <1>1, ExceptSeq
<1>3. QED
  BY <1>1, <1>2, RoundsTyped

(* The rounds are what they were, but for what one came to.                  *)
LEMMA RoundChange ==
    ASSUME Inv, NEW n \in 1 .. Len(iteration), NEW x \in Iteration,
           iteration' = [iteration EXCEPT ![n] = x],
           x.decision = iteration[n].decision,
           iteration[n].generation # "working" => x.generation = iteration[n].generation,
           iteration[n].verification # "working" => x.verification = iteration[n].verification,
           x.verification # "none" <=> iteration[n].verification # "none",
           UNCHANGED <<loop, lease, job, handler, World>>
    PROVE  Inv'
<1>1. /\ iteration' \in Seq(Iteration) /\ Len(iteration') = Len(iteration)
      /\ DOMAIN iteration' = DOMAIN iteration /\ DOMAIN iteration = 1 .. Len(iteration)
      /\ Len(iteration) \in Nat
      /\ \A m \in 1 .. Len(iteration) : iteration'[m] = IF m = n THEN x ELSE iteration[m]
  BY RoundReplaced
<1>2. RowsTyped'
  BY <1>1 DEF World, Inv, RowsOK, RowsTyped
<1>3. RowsPaid'
  BY <1>1 DEF Inv, RowsOK, RowsPaid
<1>4. OneOpenIteration'
  <2>1. Undecided' = Undecided
    BY <1>1 DEF Undecided
  <2>2. QED
    BY <1>1, <2>1 DEF Inv, RowsOK, OneOpenIteration, Active
<1>5. SelectionIsMeasured'
  <2>1. loop.state = "verified" => loop.selected \in 1 .. Len(iteration)
    BY <1>1, PhaseOf DEF Inv, RowsOK, SelectionIsMeasured
  <2>2. QED
    BY <1>1, <2>1 DEF Inv, RowsOK, SelectionIsMeasured
<1>6. WakeAlive' /\ (Cardinality(Reserved) <= Ceiling)'
  BY DEF Inv, RowsOK, WakeAlive, Active, Reserved
<1>7. Monotone
  BY <1>1 DEF Monotone
<1>8. \A h \in Handler : Kept(handler[h])
  BY <1>1 DEF Kept, Current
<1>9. QED
  BY <1>2, <1>3, <1>4, <1>5, <1>6, <1>7, <1>8, OutsideStep DEF RowsOK

LEMMA GenerationEndsInv ==
    ASSUME Inv, NEW n \in DOMAIN iteration, GenerationEnds(n)
    PROVE  Inv'
<1>1. PICK g \in Generation : iteration' = [iteration EXCEPT ![n].generation = g]
  BY DEF GenerationEnds
<1>2. n \in 1 .. Len(iteration) /\ iteration[n] \in Iteration
  BY RoundsTyped
<1> DEFINE x == [iteration[n] EXCEPT !.generation = g]
<1>3. iteration' = [iteration EXCEPT ![n] = x]
  BY <1>1, <1>2
<1>4. /\ x \in Iteration /\ x.decision = iteration[n].decision
      /\ x.verification = iteration[n].verification
  BY <1>2 DEF Iteration
<1> HIDE DEF x
<1>5. QED
  BY <1>2, <1>3, <1>4, RoundChange DEF GenerationEnds

LEMMA VerificationEndsInv ==
    ASSUME Inv, NEW n \in DOMAIN iteration, VerificationEnds(n)
    PROVE  Inv'
<1>1. PICK v \in Verification \ {"none", "working"} :
         iteration' = [iteration EXCEPT ![n].verification = v]
  BY DEF VerificationEnds
<1>2. n \in 1 .. Len(iteration) /\ iteration[n] \in Iteration
  BY RoundsTyped
<1> DEFINE x == [iteration[n] EXCEPT !.verification = v]
<1>3. iteration' = [iteration EXCEPT ![n] = x]
  BY <1>1, <1>2
<1>4. /\ x \in Iteration /\ x.decision = iteration[n].decision
      /\ x.generation = iteration[n].generation /\ x.verification = v
  BY <1>2 DEF Iteration
<1> HIDE DEF x
<1>5. iteration[n].verification = "working" /\ UNCHANGED <<loop, lease, job, handler, World>>
  BY DEF VerificationEnds
<1>6. x.verification # "none" <=> iteration[n].verification # "none"
  BY <1>1, <1>4, <1>5
<1>7. QED
  BY <1>2, <1>3, <1>4, <1>5, <1>6, RoundChange

LEMMA StartInv ==
    ASSUME Inv, NEW h \in Handler, Start(h)
    PROVE  Inv'
<1>1. /\ ~In(h, "idle") /\ handler[h].phase = "starting"
      /\ UNCHANGED <<iteration, lease, job, World>>
  BY DEF Start, In
<1> DEFINE o == handler[h]
           r == [o EXCEPT !.phase = "reading"]
<1>2. o \in Local /\ RecordOK(o, loop, iteration, lease)
  BY PhaseOf
<1>3. CASE Raise(h, "refused") /\ UNCHANGED loop
  BY <1>1, <1>3, RaiseStep DEF Code, AuthorityCode, Rows
<1>4. r.phase = "reading" /\ r.wake = o.wake
  BY <1>2 DEF Local
<1>5. CASE Goto(h, "reading") /\ UNCHANGED loop /\ (~OwnsWake(h) \/ loop.state # "queued")
  <2>1. Current(r, loop) => loop.state = "running"
    BY <1>4, <1>5, CurrentIsOwned DEF Current, Active, ActiveState
  <2> HIDE DEF r
  <2>2. RecordOK(r, loop, iteration, lease)
    BY <1>1, <1>2, <1>4, <2>1 DEF RecordOK, Working, Keyed, Unbound, Succeeding
  <2>3. QED
    BY <1>1, <1>5, <2>2, GotoStep DEF r, Phase, Rows
<1>6. CASE /\ Goto(h, "reading") /\ OwnsWake(h) /\ loop.state = "queued"
           /\ loop' = [loop EXCEPT !.state = "running"]
  <2>1. /\ loop' \in Loop /\ loop'.state = "running" /\ loop'.wake = loop.wake
        /\ loop'.selected = loop.selected /\ loop'.code = loop.code
    BY <1>6 DEF Inv, RowsOK, RowsTyped, Loop, ActiveState
  <2>2. Active /\ Active'
    BY <1>6, <2>1 DEF OwnsWake, Active, ActiveState
  <2>3. RowsOK'
    <3>1. RowsTyped'
      BY <1>1, <1>6, <2>1 DEF World, Inv, RowsOK, RowsTyped
    <3>2. RowsPaid' /\ (Cardinality(Reserved) <= Ceiling)'
      BY <1>1 DEF Inv, RowsOK, RowsPaid, Reserved
    <3>3. OneOpenIteration' /\ SelectionIsMeasured' /\ WakeAlive'
      BY <1>1, <2>1, <2>2
         DEF Inv, RowsOK, OneOpenIteration, Undecided, SelectionIsMeasured, WakeAlive
    <3>4. QED
      BY <3>1, <3>2, <3>3 DEF RowsOK
  <2>4. Monotone /\ \A g \in Handler : Kept(handler[g])
    BY <1>1, <2>1, <2>2 DEF Monotone, Inv, RowsOK, RowsTyped, Kept, Current, Active
  <2>5. r \in Local /\ handler' = [handler EXCEPT ![h] = r]
    BY <1>6, GotoRecord DEF Phase
  <2> HIDE DEF r
  <2>6. RecordOK(r, loop', iteration', lease')
    BY <1>1, <1>2, <1>4, <2>1 DEF RecordOK, Working, Keyed, Unbound, Succeeding
  <2>7. QED
    BY <2>3, <2>4, <2>5, <2>6, Step
<1>7. QED
  BY <1>3, <1>5, <1>6 DEF Start

-----------------------------------------------------------------------------
(* The steps that change the loop and its rounds                           *)

(* The handler of the current wake has read the open round.                 *)
LEMMA CurrentWorks ==
    ASSUME Inv, NEW h \in Handler, handler[h].phase \in Working, OwnsWake(h)
    PROVE  StillOpen(h) /\ Seen(h) = Len(iteration)
<1>1. loop.state = "running" /\ Seen(h) = Len(iteration) /\ Active
  BY PhaseOf, CurrentIsOwned DEF RecordOK, Seen, OwnsWake
<1>2. iteration[Len(iteration)].decision = "none"
  BY <1>1 DEF Inv, RowsOK, OneOpenIteration, Undecided
<1>3. QED
  BY <1>1, <1>2 DEF StillOpen, Owns

LEMMA LostInv ==
    ASSUME Inv, NEW h \in Handler, ~In(h, "idle"), ~OwnsWake(h), Lost(h),
           UNCHANGED <<lease, World>>
    PROVE  Inv'
BY ReplyStep DEF Lost, Rows

LEMMA BarrierInv ==
    ASSUME Inv, NEW h \in Handler, ~In(h, "idle"), Barrier(h), UNCHANGED <<lease, World>>
    PROVE  Inv'
BY RaiseStep DEF Barrier, Rows, Code, AuthorityCode

(* A new wake: no handler holds it, so what the handlers have read of the    *)
(* open round binds none of them any more.                                  *)
LEMMA HandOverInv ==
    ASSUME Inv, NEW h \in Handler, ~In(h, "idle"), HandOver(h), Active,
           UNCHANGED <<lease, World>>,
           iteration' \in Seq(Iteration), Len(iteration') \in 1 .. MaxIterations,
           RowsPaid', Undecided' = {Len(iteration')}, Monotone,
           \A n \in 1 .. Len(iteration') - 1 :
              iteration'[n].verification \in {"failed", "regressed"}
    PROVE  Inv'
<1>1. PICK w \in Fresh : /\ loop' = [loop EXCEPT !.wake = w]
                         /\ job' = [job EXCEPT ![w] = NewJob]
  BY DEF HandOver
<1>2. w \in Wake /\ \A g \in Handler : handler[g].wake # w
  BY DEF Fresh
<1>3. /\ loop' \in Loop /\ loop'.wake = w /\ loop'.state = loop.state
      /\ loop'.selected = loop.selected /\ loop'.code = loop.code
  BY <1>1, <1>2 DEF Inv, RowsOK, RowsTyped, Loop
<1>4. job' \in [Wake -> Job] /\ job'[w].state = "queued"
  <2>1. NewJob \in Job /\ NewJob.state = "queued"
    BY LoopAssumption DEF NewJob, Job
  <2>2. QED
    BY <1>1, <1>2, <2>1 DEF Inv, RowsOK, RowsTyped
<1>5. RowsTyped'
  BY <1>3, <1>4 DEF World, Inv, RowsOK, RowsTyped
<1>6. Active' /\ loop.state # "verified"
  BY <1>3 DEF Active, ActiveState
<1>7. OneOpenIteration' /\ SelectionIsMeasured' /\ WakeAlive'
  BY <1>3, <1>4, <1>6 DEF OneOpenIteration, SelectionIsMeasured, WakeAlive
<1>8. (Cardinality(Reserved) <= Ceiling)'
  BY DEF Inv, RowsOK, Reserved
<1>9. RowsOK'
  BY <1>5, <1>7, <1>8 DEF RowsOK
<1>10. \A g \in Handler : Kept(handler[g]) /\ ~Current(handler[g], loop')
  BY <1>2, <1>3 DEF Kept, Current
<1>11. PICK r \in Local : /\ handler' = [handler EXCEPT ![h] = r]
                          /\ RecordOK(r, loop', iteration', lease')
  BY <1>10, ReplyRecord DEF HandOver
<1>12. QED
  BY <1>9, <1>10, <1>11, Step

(* The last round is decided and the loop ended.                            *)
LEMMA CloseInv ==
    ASSUME Inv, NEW h \in Handler, ~In(h, "idle"), Reply(h, "completed"), Active,
           NEW d \in Decision,
           iteration' = [iteration EXCEPT ![Len(iteration)].decision = d],
           loop' \in Loop, loop'.state \in EndState,
           (loop'.state = "failed") <=> (loop'.code # "none"),
           (loop'.state = "verified") <=> (loop'.selected # 0),
           loop'.state = "verified" =>
              /\ loop'.selected = Len(iteration)
              /\ iteration[Len(iteration)].verification = "satisfied",
           UNCHANGED <<lease, job, World>>
    PROVE  Inv'
<1> DEFINE n == Len(iteration)
           x == [iteration[n] EXCEPT !.decision = d]
<1>1. n \in 1 .. Len(iteration) /\ n \in 1 .. MaxIterations
  BY PhaseOf, LoopAssumption
<1>2. iteration[n] \in Iteration
  BY <1>1, RoundsTyped
<1>3. /\ x \in Iteration /\ x.decision = d /\ x.generation = iteration[n].generation
      /\ x.verification = iteration[n].verification
  BY <1>2 DEF Iteration
<1>4. iteration' = [iteration EXCEPT ![n] = x]
  BY <1>1, RoundsTyped
<1> HIDE DEF x
<1>5. /\ iteration' \in Seq(Iteration) /\ Len(iteration') = n
      /\ DOMAIN iteration' = 1 .. n /\ DOMAIN iteration = 1 .. n
      /\ \A m \in 1 .. n : iteration'[m] = IF m = n THEN x ELSE iteration[m]
  BY <1>1, <1>3, <1>4, RoundReplaced
<1>6. RowsTyped'
  BY <1>1, <1>5 DEF World, Inv, RowsOK, RowsTyped
<1>7. RowsPaid'
  BY <1>1, <1>3, <1>5 DEF Inv, RowsOK, RowsPaid
<1>8. ~Active'
  BY DEF Active, ActiveState, EndState
<1>9. OneOpenIteration'
  <2>1. Undecided = {n} /\ d # "none"
    BY DEF Inv, RowsOK, OneOpenIteration, Decision
  <2>2. Undecided' = {}
    BY <1>1, <1>3, <1>5, <2>1 DEF Undecided
  <2>3. QED
    BY <1>8, <2>2 DEF OneOpenIteration
<1>10. SelectionIsMeasured'
  <2>1. \A m \in 1 .. n - 1 : iteration'[m].verification \in {"failed", "regressed"}
    BY <1>1, <1>3, <1>5 DEF Inv, RowsOK, SelectionIsMeasured
  <2>2. loop'.state = "verified" =>
            iteration'[n].generation = "frozen" /\ iteration'[n].verification = "satisfied"
    BY <1>1, <1>3, <1>5 DEF Inv, RowsOK, RowsPaid
  <2>3. QED
    BY <1>5, <2>1, <2>2 DEF SelectionIsMeasured
<1>11. WakeAlive' /\ (Cardinality(Reserved) <= Ceiling)'
  BY <1>8 DEF Inv, RowsOK, WakeAlive, Reserved
<1>12. RowsOK'
  BY <1>6, <1>7, <1>9, <1>10, <1>11 DEF RowsOK
<1>13. Monotone
  BY <1>1, <1>3, <1>5 DEF Monotone
<1>14. \A g \in Handler : Kept(handler[g]) /\ ~Current(handler[g], loop')
  BY <1>8 DEF Kept, Current, Active
<1>15. PICK r \in Local : /\ handler' = [handler EXCEPT ![h] = r]
                          /\ RecordOK(r, loop', iteration', lease')
  BY <1>14, ReplyRecord
<1>16. QED
  BY <1>12, <1>13, <1>14, <1>15, Step

LEMMA PollInv ==
    ASSUME Inv, NEW h \in Handler, handler[h].phase \in Working, Poll(h),
           UNCHANGED <<lease, World>>
    PROVE  Inv'
<1>1. ~In(h, "idle")
  BY DEF Working, Keyed, In
<1>2. CASE ~Owns(h) /\ Lost(h)
  BY <1>1, <1>2, CurrentWorks, LostInv DEF StillOpen
<1>3. CASE Barrier(h)
  BY <1>1, <1>3, BarrierInv
<1>4. CASE Owns(h) /\ HandOver(h) /\ UNCHANGED iteration
  <2>1. Active /\ Len(iteration) \in 1 .. MaxIterations /\ iteration \in Seq(Iteration)
    BY <1>4, PhaseOf DEF Owns, OwnsWake
  <2>2. RowsPaid' /\ Undecided' = {Len(iteration')}
    BY <1>4, <2>1 DEF Inv, RowsOK, RowsPaid, OneOpenIteration, Undecided
  <2>3. Monotone
    BY <1>4, <2>1 DEF Monotone
  <2>4. QED
    BY <1>1, <1>4, <2>1, <2>2, <2>3, HandOverInv DEF Inv, RowsOK, SelectionIsMeasured
<1>5. QED
  BY <1>2, <1>3, <1>4 DEF Poll

LEMMA EndInv ==
    ASSUME Inv, NEW h \in Handler, handler[h].phase \in Working, OwnsWake(h),
           NEW d \in Decision, NEW s \in EndState,
           NEW c \in Code \cup {"none", "generation_failed", "verification_failed"},
           End(h, d, s, c), s = "failed" <=> c # "none",
           s = "verified" => iteration[Len(iteration)].verification = "satisfied",
           UNCHANGED <<lease, World>>
    PROVE  Inv'
<1>1. Seen(h) = Len(iteration) /\ ~In(h, "idle") /\ Active
  BY CurrentWorks DEF Working, Keyed, In, OwnsWake
<1>2. Len(iteration) \in 1 .. MaxIterations /\ loop \in Loop
  BY PhaseOf
<1> DEFINE n == IF s = "verified" THEN Len(iteration) ELSE 0
<1>3. n \in 0 .. MaxIterations /\ ((s = "verified") <=> (n # 0))
  BY <1>2, LoopAssumption
<1>4. loop' = [loop EXCEPT !.state = s, !.code = c, !.selected = n]
  BY <1>1 DEF End
<1> HIDE DEF n
<1>5. loop' \in Loop /\ loop'.state = s /\ loop'.code = c /\ loop'.selected = n
  BY <1>2, <1>3, <1>4 DEF Loop
<1>6. iteration' = [iteration EXCEPT ![Len(iteration)].decision = d]
  BY <1>1 DEF End
<1>7. loop'.state = "verified" => loop'.selected = Len(iteration)
  BY <1>5 DEF n
<1>8. QED
  BY <1>1, <1>3, <1>5, <1>6, <1>7, CloseInv DEF End

LEMMA EndUnverifiedInv ==
    ASSUME Inv, NEW h \in Handler, handler[h].phase \in Working, EndUnverified(h),
           UNCHANGED <<lease, World>>
    PROVE  Inv'
<1>1. ~In(h, "idle") /\ (OwnsWake(h) <=> StillOpen(h))
  BY CurrentWorks DEF Working, Keyed, In, StillOpen, Owns
<1>2. CASE ~StillOpen(h) /\ Lost(h)
  BY <1>1, <1>2, LostInv
<1>3. CASE StillOpen(h) /\ End(h, "abstained", "abstained", "none")
  BY <1>1, <1>3, EndInv DEF Decision, EndState
<1>4. CASE StillOpen(h) /\ End(h, "generation_failed", "failed", "generation_failed")
  BY <1>1, <1>4, EndInv DEF Decision, EndState
<1>5. QED
  BY <1>2, <1>3, <1>4 DEF EndUnverified

LEMMA StopInv ==
    ASSUME Inv, NEW h \in Handler, handler[h].phase \in Working,
           NEW d \in Decision, Stop(h, d), UNCHANGED <<lease, World>>
    PROVE  Inv'
<1>1. ~In(h, "idle") /\ (OwnsWake(h) <=> StillOpen(h))
  BY CurrentWorks DEF Working, Keyed, In, StillOpen, Owns
<1>2. CASE ~StillOpen(h) /\ Lost(h)
  BY <1>1, <1>2, LostInv
<1>3. CASE StillOpen(h) /\ End(h, d, "failed", "verification_failed")
  BY <1>1, <1>3, EndInv DEF EndState
<1>4. QED
  BY <1>2, <1>3 DEF Stop

LEMMA ConcludeInv ==
    ASSUME Inv, NEW h \in Handler, handler[h].phase = "judging",
           handler[h].verification \in Evidence,
           Conclude(h, handler[h].verification), UNCHANGED <<lease, World>>
    PROVE  Inv'
<1> DEFINE v == handler[h].verification
<1>1. /\ ~In(h, "idle") /\ (OwnsWake(h) <=> StillOpen(h)) /\ handler[h].phase \in Working
      /\ OwnsWake(h) => Seen(h) = Len(iteration)
  BY CurrentWorks DEF Working, Keyed, In, StillOpen, Owns
<1>2. CASE ~StillOpen(h) /\ Lost(h)
  BY <1>1, <1>2, LostInv
<1>3. CASE Barrier(h)
  BY <1>1, <1>3, BarrierInv
<1>4. CASE StillOpen(h) /\ End(h, "verification_non_repairable", "review_required", "none")
  BY <1>1, <1>4, EndInv DEF Decision, EndState
<1>5. CASE StillOpen(h) /\ End(h, "repairable_failure", "limit_reached", "none")
  BY <1>1, <1>5, EndInv DEF Decision, EndState
<1>6. CASE StillOpen(h) /\ v = "satisfied" /\ End(h, "verified", "verified", "none")
  <2>1. iteration[Seen(h)].verification = "satisfied"
    BY <1>1, <1>6, PhaseOf DEF RecordOK, Known, Seen
  <2>2. QED
    BY <1>1, <1>6, <2>1, EndInv DEF Decision, EndState
<1>7. QED
  BY <1>2, <1>3, <1>4, <1>5, <1>6 DEF Conclude, Repairable, Evidence

(* The open round with a verification of its own.                           *)
LEMMA BindInv ==
    ASSUME Inv, NEW h \in Handler, handler[h].phase = "acting",
           handler[h].generation = "frozen", handler[h].verification = "none",
           Bind(h), UNCHANGED <<lease, World>>
    PROVE  Inv'
<1>1. /\ ~In(h, "idle") /\ (OwnsWake(h) <=> StillOpen(h)) /\ handler[h].phase \in Working
      /\ OwnsWake(h) => Seen(h) = Len(iteration)
  BY CurrentWorks DEF Working, Keyed, In, StillOpen, Owns
<1>2. OwnsWake(h) => iteration[Seen(h)].verification = "none"
  BY PhaseOf, CurrentIsOwned DEF RecordOK, Unbound, Seen
<1>3. CASE Raise(h, "integrity") /\ UNCHANGED <<loop, iteration, job>>
  BY <1>1, <1>3, RaiseStep DEF Code, Rows
<1>4. CASE (~StillOpen(h) \/ iteration[Seen(h)].verification # "none") /\ Lost(h)
  BY <1>1, <1>2, <1>4, LostInv
<1>5. CASE Barrier(h)
  BY <1>1, <1>5, BarrierInv
<1>6. CASE /\ StillOpen(h) /\ HandOver(h)
           /\ iteration' = [iteration EXCEPT ![Seen(h)].verification = "working"]
  <2> DEFINE n == Len(iteration)
             x == [iteration[n] EXCEPT !.verification = "working"]
  <2>1. Seen(h) = n /\ Active
    BY <1>1, <1>6 DEF StillOpen, Owns, OwnsWake
  <2>2. n \in 1 .. Len(iteration) /\ n \in 1 .. MaxIterations
    BY PhaseOf, LoopAssumption
  <2>3. iteration[n] \in Iteration
    BY <2>2, RoundsTyped
  <2>4. iteration[n].generation = "frozen" /\ lease[n] # "none"
    BY <1>1, <2>1, PhaseOf DEF RecordOK, Known, Seen
  <2>5. /\ x \in Iteration /\ x.decision = iteration[n].decision
        /\ x.generation = "frozen" /\ x.verification = "working"
    BY <2>3, <2>4 DEF Iteration, Verification
  <2>6. iteration' = [iteration EXCEPT ![n] = x]
    BY <1>6, <2>1, <2>2, RoundsTyped
  <2> HIDE DEF x
  <2>7. /\ iteration' \in Seq(Iteration) /\ Len(iteration') = n
        /\ DOMAIN iteration' = 1 .. n /\ DOMAIN iteration = 1 .. n
        /\ \A m \in 1 .. n : iteration'[m] = IF m = n THEN x ELSE iteration[m]
    BY <2>2, <2>5, <2>6, RoundReplaced
  <2>8. RowsPaid'
    BY <2>2, <2>4, <2>5, <2>7 DEF Inv, RowsOK, RowsPaid
  <2>9. Undecided' = {Len(iteration')}
    <3>1. Undecided' = Undecided
      BY <2>5, <2>7 DEF Undecided
    <3>2. QED
      BY <2>1, <2>7, <3>1 DEF Inv, RowsOK, OneOpenIteration
  <2>10. Monotone
    BY <1>1, <1>2, <1>6, <2>1, <2>2, <2>4, <2>5, <2>7 DEF Monotone, StillOpen, Owns
  <2>11. \A m \in 1 .. Len(iteration') - 1 :
            iteration'[m].verification \in {"failed", "regressed"}
    <3>1. ASSUME NEW k \in Nat
          PROVE  \A m \in 1 .. k - 1 : m \in 1 .. k /\ m # k
      OBVIOUS
    <3>2. \A m \in 1 .. n - 1 : iteration'[m] = iteration[m]
      BY <2>7, <3>1, RoundsTyped
    <3>3. QED
      BY <2>7, <3>2 DEF Inv, RowsOK, SelectionIsMeasured
  <2>12. QED
    BY <1>1, <1>6, <2>1, <2>2, <2>7, <2>8, <2>9, <2>10, <2>11, HandOverInv
<1>7. QED
  BY <1>3, <1>4, <1>5, <1>6 DEF Bind

LEMMA ReadVerificationInv ==
    ASSUME Inv, NEW h \in Handler, handler[h].phase = "acting",
           handler[h].verification # "none", ReadVerification(h), UNCHANGED <<lease, World>>
    PROVE  Inv'
<1> DEFINE o == handler[h]
           v == iteration[o.ordinal].verification
           r == [o EXCEPT !.phase = "judging", !.generation = "working", !.verification = v]
<1>1. o \in Local /\ RecordOK(o, loop, iteration, lease) /\ Known(o, iteration)
  BY PhaseOf DEF RecordOK, Working
<1>2. v \in Verification /\ v # "none"
  BY <1>1, RoundsTyped DEF Known, Iteration
<1>3. handler' = [handler EXCEPT ![h] = r]
  BY DEF ReadVerification, Inv, Seen
<1>4. r \in Local
  <2>1. "judging" \in Phase /\ "working" \in Generation
    BY DEF Phase, Generation
  <2> HIDE DEF v
  <2>2. QED
    BY <1>1, <1>2, <2>1, Zenon DEF Local
<1>5. /\ r.phase = "judging" /\ r.ordinal = o.ordinal /\ r.wake = o.wake
      /\ r.generation = "working" /\ r.verification = v
  <2> HIDE DEF v
  <2>1. QED
    BY <1>1 DEF Local
<1> HIDE DEF r
<1>6. RecordOK(r, loop, iteration, lease)
  BY <1>1, <1>2, <1>5 DEF RecordOK, Working, Keyed, Known, Current, Unbound, Succeeding
<1>7. UNCHANGED Rows
  BY DEF ReadVerification, Rows
<1>8. QED
  BY <1>3, <1>4, <1>6, <1>7, ReadStep

LEMMA FeedbackInv ==
    ASSUME Inv, NEW h \in Handler, handler[h].phase = "judging",
           Continues(handler[h].ordinal, handler[h].verification),
           Feedback(h), UNCHANGED <<lease, World>>
    PROVE  Inv'
<1> DEFINE o == handler[h]
           k == o.ordinal + 1
           r == [o EXCEPT !.phase = "authorizing", !.key = k, !.verification = "none"]
<1>1. o \in Local /\ RecordOK(o, loop, iteration, lease) /\ Known(o, iteration)
  BY PhaseOf DEF RecordOK, Working
<1>2. UNCHANGED Rows
  BY DEF Feedback, Rows
<1>3. CASE Raise(h, "integrity")
  BY <1>2, <1>3, RaiseStep DEF Code, In
<1>4. CASE handler' = [handler EXCEPT ![h].phase = "authorizing", ![h].key = Seen(h) + 1,
                                      ![h].verification = "none"]
  <2>1. handler' = [handler EXCEPT ![h] = r]
    BY <1>4 DEF Inv, Seen
  <2>2. o.ordinal < MaxIterations /\ o.verification \in {"failed", "regressed"}
    BY DEF Continues, Repairable
  <2>3. k \in 1 .. MaxIterations /\ k \in 0 .. MaxIterations /\ k # o.ordinal /\ o.ordinal \in Nat
    BY <1>1, <2>2, LoopAssumption DEF Local
  <2>4. r \in Local
    <3>1. "authorizing" \in Phase /\ "none" \in Verification
      BY DEF Phase, Verification
    <3> HIDE DEF k
    <3>2. QED
      BY <1>1, <2>3, <3>1, Zenon DEF Local
  <2>5. /\ r.phase = "authorizing" /\ r.ordinal = o.ordinal /\ r.wake = o.wake
        /\ r.generation = o.generation /\ r.verification = "none" /\ r.key = o.ordinal + 1
    BY <1>1 DEF Local
  <2> HIDE DEF r
  <2>6. RecordOK(r, loop, iteration, lease)
    BY <1>1, <2>2, <2>3, <2>5
       DEF RecordOK, Working, Keyed, Known, Current, Unbound, Succeeding
  <2>7. QED
    BY <1>2, <2>1, <2>4, <2>6, ReadStep
<1>5. QED
  BY <1>3, <1>4 DEF Feedback

LEMMA ActInv ==
    ASSUME Inv, NEW h \in Handler, Act(h)
    PROVE  Inv'
<1> DEFINE o == handler[h]
<1>1. o.phase = "acting" /\ o.phase \in Working /\ UNCHANGED <<lease, World>>
  BY DEF Act, In, Working
<1>2. o.generation \in Generation
  BY PhaseOf DEF Local
<1>3. CASE o.generation = "working"
  <2>1. o.generation \notin {"abstained", "failed"}
    BY <1>3
  <2>2. Poll(h)
    BY <1>3, <2>1, Zenon DEF Act
  <2>3. QED
    BY <1>1, <2>2, PollInv
<1>4. CASE o.generation \in {"abstained", "failed"}
  <2>1. o.generation # "working"
    BY <1>4
  <2>2. EndUnverified(h)
    BY <1>4, <2>1, Zenon DEF Act
  <2>3. QED
    BY <1>1, <2>2, EndUnverifiedInv
<1>5. CASE o.generation = "frozen" /\ o.verification = "none"
  BY <1>1, <1>5, BindInv DEF Act
<1>6. CASE o.generation = "frozen" /\ o.verification # "none"
  BY <1>1, <1>6, ReadVerificationInv DEF Act
<1>7. QED
  BY <1>2, <1>3, <1>4, <1>5, <1>6 DEF Generation

LEMMA JudgeInv ==
    ASSUME Inv, NEW h \in Handler, Judge(h)
    PROVE  Inv'
<1> DEFINE v == handler[h].verification
<1>1. /\ handler[h].phase = "judging" /\ handler[h].phase \in Working
      /\ UNCHANGED <<lease, World>>
  BY DEF Judge, In, Working
<1>2. v \in Verification /\ v # "none"
  BY <1>1, PhaseOf DEF Local, RecordOK
<1>3. CASE v = "working"
  <2>1. Poll(h)
    BY <1>3 DEF Judge, Continues, Repairable
  <2>2. QED
    BY <1>1, <2>1, PollInv
<1>4. CASE v \in {"infrastructure_failed", "invalid"}
  <2>1. Stop(h, "infrastructure_failed") \/ Stop(h, "evidence_invalid")
    BY <1>4 DEF Judge, Continues, Repairable
  <2>2. QED
    BY <1>1, <2>1, StopInv DEF Decision
<1>5. CASE v \in Evidence /\ Continues(Seen(h), v)
  BY <1>1, <1>5, FeedbackInv DEF Judge, Evidence, Seen
<1>6. CASE v \in Evidence /\ ~Continues(Seen(h), v)
  BY <1>1, <1>6, ConcludeInv DEF Judge, Evidence
<1>7. QED
  BY <1>2, <1>3, <1>4, <1>5, <1>6 DEF Verification

LEMMA SecondRound ==
    ASSUME NEW S, NEW s \in Seq(S), Len(s) = 1, NEW x \in S, NEW y \in S
    PROVE  LET t == Append([s EXCEPT ![1] = x], y)
           IN  t \in Seq(S) /\ Len(t) = 2 /\ t[1] = x /\ t[2] = y
<1> DEFINE e == [s EXCEPT ![1] = x]
<1>1. 1 \in 1 .. Len(s)
  OBVIOUS
<1>2. e \in Seq(S) /\ Len(e) = Len(s) /\ e[1] = x
  <2>1. e \in Seq(S) /\ Len(e) = Len(s)
    BY <1>1, ExceptSeq
  <2>2. s \in [1 .. Len(s) -> S]
    BY LenProperties
  <2>3. QED
    BY <1>1, <2>1, <2>2
<1> HIDE DEF e
<1>3. 1 \in 1 .. Len(e) /\ Len(e) + 1 = 2
  BY <1>2
<1>4. /\ Append(e, y) \in Seq(S) /\ Len(Append(e, y)) = Len(e) + 1
      /\ Append(e, y)[Len(e) + 1] = y /\ Append(e, y)[1] = e[1]
  <2>1. e \in Seq(S)
    BY <1>2
  <2>2. /\ Append(e, y) \in Seq(S) /\ Len(Append(e, y)) = Len(e) + 1
        /\ Append(e, y)[Len(e) + 1] = y
        /\ \A i \in 1 .. Len(e) : Append(e, y)[i] = e[i]
    BY <2>1, AppendProperties
  <2>3. QED
    BY <1>3, <2>2
<1>5. QED
  BY <1>2, <1>3, <1>4 DEF e

(* The first round decided, and a second one open and paid for.              *)
LEMMA SucceedInv ==
    ASSUME Inv, NEW h \in Handler, Succeed(h)
    PROVE  Inv'
<1>1. /\ handler[h].phase = "succeeding" /\ handler[h].phase \in Working
      /\ ~In(h, "idle") /\ UNCHANGED <<lease, World>>
  BY DEF Succeed, In, Working
<1>2. /\ OwnsWake(h) => StillOpen(h) /\ Seen(h) = Len(iteration)
      /\ StillOpen(h) => OwnsWake(h) /\ Active
  BY <1>1, CurrentWorks DEF StillOpen, Owns, OwnsWake
<1>3. /\ Seen(h) = 1 /\ 2 \in 1 .. MaxIterations /\ lease[2] # "none"
      /\ iteration[1].verification \in {"failed", "regressed"}
  BY <1>1, LoopAssumption, PhaseOf, RoundsTyped DEF RecordOK, Succeeding, Working, Known, Seen
<1>4. CASE (~StillOpen(h) \/ Seen(h) # 1) /\ Lost(h)
  BY <1>1, <1>2, <1>3, <1>4, LostInv
<1>5. CASE Barrier(h)
  BY <1>1, <1>5, BarrierInv
<1>6. CASE /\ StillOpen(h) /\ HandOver(h)
           /\ iteration' = Append([iteration EXCEPT ![Seen(h)].decision = "repairable_failure"],
                                  NewIteration)
  <2> DEFINE x == [iteration[1] EXCEPT !.decision = "repairable_failure"]
  <2>1. Len(iteration) = 1 /\ 1 \in 1 .. Len(iteration) /\ iteration \in Seq(Iteration)
    BY <1>2, <1>3, <1>6, RoundsTyped
  <2>2. iteration[1] \in Iteration
    BY <2>1, RoundsTyped
  <2>3. /\ x \in Iteration /\ x.decision = "repairable_failure"
        /\ x.generation = iteration[1].generation /\ x.verification = iteration[1].verification
    BY <2>2 DEF Iteration, Decision
  <2>4. iteration' = Append([iteration EXCEPT ![1] = x], NewIteration)
    BY <1>3, <1>6, <2>1, RoundsTyped
  <2> HIDE DEF x
  <2>6. /\ NewIteration \in Iteration /\ NewIteration.decision = "none"
        /\ NewIteration.verification = "none"
    BY DEF NewIteration, Iteration, Generation, Verification
  <2>7. /\ iteration' \in Seq(Iteration) /\ Len(iteration') = 2
        /\ iteration'[1] = x /\ iteration'[2] = NewIteration
    BY <2>1, <2>3, <2>4, <2>6, SecondRound
  <2>8. DOMAIN iteration' = {1, 2} /\ \A m \in 1 .. 2 : m = 1 \/ m = 2
    BY <2>7, LenProperties
  <2>9. RowsPaid'
    <3>1. /\ x.verification # "none" => x.generation = "frozen" /\ lease[1] # "none"
          /\ UNCHANGED lease
      BY <1>1, <2>1, <2>3 DEF Inv, RowsOK, RowsPaid
    <3>2. QED
      BY <1>3, <2>6, <2>7, <2>8, <3>1 DEF RowsPaid
  <2>10. Undecided' = {Len(iteration')}
    BY <2>3, <2>6, <2>7, <2>8 DEF Undecided
  <2>11. Monotone
    <3>1. \A m \in 1 .. Len(iteration) : m = 1
      BY <2>1
    <3>2. QED
      BY <1>1, <2>1, <2>3, <2>7, <3>1 DEF Monotone
  <2>12. \A m \in 1 .. Len(iteration') - 1 :
            iteration'[m].verification \in {"failed", "regressed"}
    <3>1. \A m \in 1 .. Len(iteration') - 1 : m = 1
      BY <2>7
    <3>2. QED
      BY <1>3, <2>3, <2>7, <3>1
  <2>13. QED
    BY <1>1, <1>2, <1>3, <1>6, <2>7, <2>9, <2>10, <2>11, <2>12, HandOverInv
<1>7. QED
  BY <1>4, <1>5, <1>6 DEF Succeed, Successor

LEMMA FailInv ==
    ASSUME Inv, NEW h \in Handler, Fail(h)
    PROVE  Inv'
<1>1. /\ handler[h].phase = "failing" /\ ~In(h, "idle") /\ UNCHANGED <<lease, World>>
      /\ handler[h].error \in Code
  BY PhaseOf DEF Fail, In, RecordOK, Local
<1>2. OwnsWake(h) => Active /\ Undecided = {Len(iteration)}
  BY DEF OwnsWake, Inv, RowsOK, OneOpenIteration
<1>3. CASE (~OwnsWake(h) \/ Undecided = {}) /\ Lost(h)
  BY <1>1, <1>2, <1>3, LostInv
<1>4. ASSUME OwnsWake(h), NEW n \in Undecided,
             iteration' = [iteration EXCEPT ![n].decision = Verdict(handler[h].error)],
             loop' = [loop EXCEPT !.state = "failed", !.code = handler[h].error],
             Reply(h, "completed"), UNCHANGED job
      PROVE  Inv'
  <2>1. n = Len(iteration) /\ Active
    BY <1>2, <1>4
  <2>2. Verdict(handler[h].error) \in Decision
    BY DEF Verdict, Decision
  <2>3. /\ loop' \in Loop /\ loop'.state = "failed" /\ loop'.code = handler[h].error
        /\ loop'.selected = loop.selected /\ loop.selected = 0 /\ loop'.code # "none"
    BY <1>1, <1>4, <2>1
       DEF Inv, RowsOK, RowsTyped, Loop, Active, ActiveState, EndState, Code, AuthorityCode
  <2>4. QED
    BY <1>1, <1>4, <2>1, <2>2, <2>3, CloseInv DEF EndState
<1>5. QED
  BY <1>3, <1>4 DEF Fail, Settle

-----------------------------------------------------------------------------
(* The theorems                                                            *)

LEMMA InitInv ==
    ASSUME Init
    PROVE  Inv
<1>1. PICK w \in Wake :
         /\ loop = [state |-> "queued", wake |-> w, selected |-> 0, code |-> "none"]
         /\ job = [v \in Wake |-> IF v = w THEN NewJob ELSE [NewJob EXCEPT !.state = "completed"]]
  BY DEF Init
<1>2. NewJob \in Job /\ [NewJob EXCEPT !.state = "completed"] \in Job
  BY LoopAssumption DEF NewJob, Job
<1>3. /\ iteration = <<NewIteration>> /\ NewIteration \in Iteration
      /\ NewIteration.decision = "none" /\ NewIteration.verification = "none"
  BY DEF Init, NewIteration, Iteration, Generation, Verification
<1>4. /\ iteration \in Seq(Iteration) /\ Len(iteration) = 1 /\ DOMAIN iteration = {1}
      /\ iteration[1] = NewIteration
  BY <1>3
<1>5. RowsTyped
  <2>1. loop \in Loop
    BY <1>1, LoopAssumption DEF Loop, ActiveState
  <2>2. job \in [Wake -> Job]
    BY <1>1, <1>2
  <2>3. Len(iteration) \in 1 .. MaxIterations
    BY <1>4, LoopAssumption
  <2>4. QED
    BY <1>1, <1>4, <2>1, <2>2, <2>3 DEF Init, RowsTyped
<1>6. RowsPaid /\ SelectionIsMeasured
  BY <1>1, <1>3, <1>4 DEF RowsPaid, SelectionIsMeasured
<1>7. OneOpenIteration
  BY <1>1, <1>3, <1>4 DEF OneOpenIteration, Undecided, Active, ActiveState
<1>8. WakeAlive
  BY <1>1 DEF WakeAlive, NewJob
<1>9. Cardinality(Reserved) <= Ceiling
  <2>1. Reserved = {}
    BY DEF Init, Reserved
  <2>2. QED
    BY <2>1, FS_EmptySet, LoopAssumption
<1>10. handler \in [Handler -> Local] /\ HandlersOK
  BY IdleType, IdleRecord DEF Init, HandlersOK
<1>11. QED
  BY <1>5, <1>6, <1>7, <1>8, <1>9, <1>10 DEF Inv, RowsOK

LEMMA HandlerInv ==
    ASSUME Inv, NEW h \in Handler, HandlerStep(h)
    PROVE  Inv'
BY ValidateInv, FenceInv, StartInv, ReadLoopInv, ReadIterationInv, ExistingAuthorityInv,
   ReserveInv, CompleteInv, ActInv, JudgeInv, SucceedInv, FailInv, ReplyJobInv
   DEF HandlerStep

LEMMA NextInv ==
    ASSUME Inv, [Next]_vars
    PROVE  Inv'
<1>1. CASE \E h \in Handler, w \in Wake : Deliver(h, w)
  BY <1>1, DeliverInv
<1>2. CASE \E h \in Handler : HandlerStep(h) \/ DatabaseError(h) \/ Crash(h)
  BY <1>2, HandlerInv, DatabaseErrorInv, CrashInv
<1>3. CASE \E w \in Wake : TimeOut(w)
  BY <1>3, TimeOutInv
<1>4. CASE \E n \in DOMAIN lease : Lapse(n)
  BY <1>4, LapseInv
<1>5. CASE \E n \in DOMAIN iteration : GenerationEnds(n) \/ VerificationEnds(n)
  BY <1>5, GenerationEndsInv, VerificationEndsInv
<1>6. CASE Restart \/ FenceFalls \/ GrantEnds
  BY <1>6, RestartInv, FenceFallsInv, GrantEndsInv
<1>7. CASE UNCHANGED vars
  <2>1. RowsOK' /\ Monotone /\ \A g \in Handler : Kept(handler[g])
    BY <1>7, SameRows DEF vars, FaultsTyped, Inv, RowsOK, RowsTyped, WakeAlive
  <2>2. QED
    BY <1>7, <2>1, OutsideStep DEF vars
<1>8. QED
  BY <1>1, <1>2, <1>3, <1>4, <1>5, <1>6, <1>7 DEF Next

(* The inductive invariant holds whatever the handlers, the queue and the     *)
(* other workers do.                                                        *)
THEOREM Invariance == Spec => []Inv
<1>1. Init => Inv
  BY InitInv
<1>2. Inv /\ [Next]_vars => Inv'
  BY NextInv
<1>3. QED
  BY <1>1, <1>2, PTL DEF Spec

(* Types: the rows, the jobs and what the handlers hold keep their types, and *)
(* the terminal facts of the loop agree with its state.                     *)
THEOREM TypeCorrect == Spec => []TypeOK
<1>1. Inv => TypeOK
  BY DEF Inv, RowsOK, RowsTyped, TypeOK
<1>2. QED
  BY <1>1, Invariance, PTL

(* No lost wake: however often deliveries are repeated, given up or crash, the *)
(* current wake of an active loop has not been completed.                   *)
THEOREM NoLostWake == Spec => []WakeAlive
<1>1. Inv => WakeAlive
  BY DEF Inv, RowsOK
<1>2. QED
  BY <1>1, Invariance, PTL

(* One round at a time: an active loop has one undecided round, its last, and *)
(* an ended loop none.                                                      *)
THEOREM OneRound == Spec => []OneOpenIteration
<1>1. Inv => OneOpenIteration
  BY DEF Inv, RowsOK
<1>2. QED
  BY <1>1, Invariance, PTL

(* The candidate a verified loop selects is the one its last round froze and  *)
(* its own verification found satisfying, after rounds measured to fail.    *)
THEOREM SelectionMeasured == Spec => []SelectionIsMeasured
<1>1. Inv => SelectionIsMeasured
  BY DEF Inv, RowsOK
<1>2. QED
  BY <1>1, Invariance, PTL

(* Every verified or further round has a reservation of its own, and there    *)
(* are never more of them than the grant allows.                            *)
THEOREM RoundsPaidFor == Spec => []RoundsArePaid
<1>1. ASSUME Inv
      PROVE  RoundsArePaid
  <2>1. /\ DOMAIN iteration = 1 .. Len(iteration)
        /\ \A n \in 1 .. Len(iteration) : n \in 1 .. MaxIterations
        /\ DOMAIN lease = 1 .. MaxIterations
    BY <1>1, RoundsTyped, PhaseOf, LoopAssumption DEF Inv, RowsOK, RowsTyped
  <2>2. QED
    BY <1>1, <2>1 DEF Inv, RowsOK, RowsPaid, RoundsArePaid, Reserved
<1>2. QED
  BY <1>1, Invariance, PTL

-----------------------------------------------------------------------------
(* Stale deliveries                                                        *)

(* The step StaleIsInert allows.                                            *)
Inert == loop' # loop \/ Undecided' # Undecided =>
            \E h \in Handler : handler[h].wake = loop.wake /\ handler'[h] # handler[h]

LEMMA Replied ==
    ASSUME Inv, NEW h \in Handler, NEW a, Reply(h, a), ~In(h, "reply")
    PROVE  handler'[h] # handler[h]
<1>1. handler'[h] = [Idle EXCEPT !.phase = "reply", !.wake = handler[h].wake, !.answer = a]
  BY DEF Reply, Inv
<1>2. handler'[h].phase = "reply"
  BY <1>1 DEF Idle
<1>3. QED
  BY <1>2 DEF In

LEMMA HandlerInert ==
    ASSUME Inv, NEW h \in Handler, HandlerStep(h)
    PROVE  Inert
<1>1. CASE loop' = loop /\ iteration' = iteration
  BY <1>1 DEF Inert, Undecided
<1>2. ASSUME OwnsWake(h), Reply(h, "completed"), ~In(h, "reply")
      PROVE  Inert
  BY <1>2, Replied DEF Inert, OwnsWake
<1>3. CASE Start(h)
  <2>1. ASSUME OwnsWake(h), Goto(h, "reading")
        PROVE  Inert
    <3>1. handler'[h].phase = "reading" /\ handler[h].phase = "starting"
      BY <1>3, <2>1, PhaseOf DEF Start, In, Goto, Inv, Local
    <3>2. QED
      BY <2>1, <3>1 DEF Inert, OwnsWake
  <2>2. QED
    BY <1>1, <1>3, <2>1 DEF Start
<1>4. ASSUME NEW d, NEW s, NEW c, StillOpen(h), End(h, d, s, c), ~In(h, "reply")
      PROVE  Inert
  BY <1>2, <1>4 DEF StillOpen, Owns, End
<1>5. ASSUME Owns(h), HandOver(h), ~In(h, "reply")
      PROVE  Inert
  BY <1>2, <1>5 DEF Owns, HandOver
<1>6. ASSUME Poll(h), ~In(h, "reply")
      PROVE  Inert
  BY <1>1, <1>5, <1>6 DEF Poll, Lost, Barrier
<1>7. CASE Act(h)
  <2>1. ~In(h, "reply") /\ handler[h].generation \in Generation
    BY <1>7, PhaseOf DEF Act, In, Local
  <2>2. CASE Poll(h)
    BY <1>6, <2>1, <2>2
  <2>3. CASE EndUnverified(h)
    BY <1>1, <1>4, <2>1, <2>3 DEF EndUnverified, Lost
  <2>4. CASE Bind(h)
    BY <1>1, <1>5, <2>1, <2>4 DEF Bind, Lost, Barrier, StillOpen
  <2>5. CASE ReadVerification(h)
    BY <1>1, <2>5 DEF ReadVerification
  <2>6. QED
    BY <1>7, <2>1, <2>2, <2>3, <2>4, <2>5, Zenon DEF Act, Generation
<1>8. CASE Judge(h)
  <2>1. ~In(h, "reply")
    BY <1>8 DEF Judge, In
  <2>2. CASE Poll(h)
    BY <1>6, <2>1, <2>2
  <2>3. ASSUME NEW d, Stop(h, d)
        PROVE  Inert
    BY <1>1, <1>4, <2>1, <2>3 DEF Stop, Lost
  <2>4. CASE Feedback(h)
    BY <1>1, <2>4 DEF Feedback
  <2>5. CASE Conclude(h, handler[h].verification)
    BY <1>1, <1>4, <2>1, <2>5, Zenon DEF Conclude, Lost, Barrier
  <2>6. QED
    BY <1>8, <2>2, <2>3, <2>4, <2>5, Zenon DEF Judge
<1>9. CASE Succeed(h)
  <2>1. ~In(h, "reply")
    BY <1>9 DEF Succeed, In
  <2>2. QED
    BY <1>1, <1>5, <1>9, <2>1 DEF Succeed, Successor, Lost, Barrier, StillOpen
<1>10. CASE Fail(h)
  <2>1. ~In(h, "reply")
    BY <1>10 DEF Fail, In
  <2>2. QED
    BY <1>1, <1>2, <1>10, <2>1 DEF Fail, Settle, Lost
<1>11. CASE Validate(h) \/ Fence(h) \/ ReadLoop(h) \/ ReadIteration(h) \/ ExistingAuthority(h)
            \/ Reserve(h) \/ Complete(h) \/ ReplyJob(h)
  BY <1>1, <1>11 DEF Validate, Fence, ReadLoop, ReadIteration, ExistingAuthority, Reserve,
                     Complete, ReplyJob, Rows
<1>12. QED
  BY <1>3, <1>7, <1>8, <1>9, <1>10, <1>11 DEF HandlerStep

(* A delivery that became stale after its reads is inert: only the handler of *)
(* the current wake changes the loop or decides a round, even in failing.   *)
THEOREM StaleDelivery == Spec => StaleIsInert
<1>1. ASSUME Inv, [Next]_vars
      PROVE  Inert
  <2>1. CASE loop' = loop /\ iteration' = iteration
    BY <2>1 DEF Inert, Undecided
  <2>2. ASSUME NEW h \in Handler, HandlerStep(h)
        PROVE  Inert
    BY <1>1, <2>2, HandlerInert
  <2>3. ASSUME NEW n \in DOMAIN iteration, GenerationEnds(n) \/ VerificationEnds(n)
        PROVE  Inert
    <3>1. Undecided' = Undecided
      <4>1. CASE GenerationEnds(n)
        BY <1>1, <2>3, <4>1, RoundsTyped DEF GenerationEnds, Undecided, Iteration
      <4>2. CASE VerificationEnds(n)
        BY <1>1, <2>3, <4>2, RoundsTyped DEF VerificationEnds, Undecided, Iteration
      <4>3. QED
        BY <2>3, <4>1, <4>2
    <3>2. QED
      BY <2>3, <3>1 DEF GenerationEnds, VerificationEnds, Inert
  <2>4. QED
    BY <1>1, <2>1, <2>2, <2>3
       DEF Next, Deliver, DatabaseError, Crash, TimeOut, Lapse, Restart, FenceFalls, GrantEnds,
           Rows, vars
<1>2. QED
  BY <1>1, Invariance, PTL DEF Spec, StaleIsInert, Inert

-----------------------------------------------------------------------------
(* The abstract loop: every step of the loop is one of its steps or none    *)

(* The decisions LoopSpec maps to, the rounds before the open one.            *)
Decided == [n \in 1 .. Cardinality(DOMAIN iteration \ Undecided) |-> iteration[n].decision]

Length == IF Active THEN Len(iteration) - 1 ELSE Len(iteration)

DecidedOK ==
    /\ Len(iteration) \in Nat /\ DOMAIN iteration = 1 .. Len(iteration)
    /\ Length \in Nat /\ Length <= Len(iteration)
    /\ Cardinality(DOMAIN iteration \ Undecided) = Length
    /\ Decided \in Seq(Decision) /\ Len(Decided) = Length
    /\ \A n \in 1 .. Length : Decided[n] = iteration[n].decision

LEMMA DecidedIs ==
    ASSUME Inv
    PROVE  DecidedOK
<1>1. /\ DOMAIN iteration = 1 .. Len(iteration) /\ Len(iteration) \in Nat /\ Len(iteration) >= 1
      /\ \A n \in 1 .. Len(iteration) : iteration[n] \in Iteration
  BY RoundsTyped, PhaseOf DEF Inv, RowsOK, RowsTyped
<1>2. Length \in Nat /\ Length <= Len(iteration)
  BY <1>1 DEF Length
<1>3. DOMAIN iteration \ Undecided = 1 .. Length
  BY <1>1 DEF Length, Inv, RowsOK, OneOpenIteration
<1>4. Cardinality(1 .. Length) = Length
  <2>1. Cardinality(1 .. Length) = IF 1 > Length THEN 0 ELSE Length - 1 + 1
    BY <1>2, FS_Interval
  <2>2. QED
    BY <1>2, <2>1
<1>5. Decided = [n \in 1 .. Length |-> iteration[n].decision]
  BY <1>3, <1>4 DEF Decided
<1>6. \A n \in 1 .. Length : iteration[n].decision \in Decision
  <2>1. ASSUME NEW n \in 1 .. Length
        PROVE  iteration[n].decision \in Decision
    <3>1. n \in DOMAIN iteration /\ n \notin Undecided
      BY <1>3
    <3>2. iteration[n].decision # "none" /\ iteration[n] \in Iteration
      BY <1>1, <3>1 DEF Undecided
    <3>3. QED
      BY <3>2 DEF Iteration
  <2>2. QED
    BY <2>1
<1>7. Decided \in Seq(Decision) /\ Len(Decided) = Length
  BY <1>2, <1>5, <1>6
<1>8. \A n \in 1 .. Length : Decided[n] = iteration[n].decision
  BY <1>5
<1>9. QED
  BY <1>1, <1>2, <1>3, <1>4, <1>7, <1>8 DEF DecidedOK

LEMMA DecidedAlways ==
    Inv => DecidedOK
BY DecidedIs

LEMMA Stuttering ==
    ASSUME Inv, Inv', loop'.state = loop.state, Len(iteration') = Len(iteration),
           \A n \in 1 .. Len(iteration) : iteration'[n].decision = iteration[n].decision
    PROVE  Decided' = Decided
<1>1. Length' = Length
  BY DEF Length, Active
<1>2. DecidedOK /\ DecidedOK'
  BY DecidedAlways, PTL
<1>3. Cardinality(DOMAIN iteration \ Undecided)' = Length
  BY <1>1, <1>2 DEF DecidedOK
<1>4. Cardinality(DOMAIN iteration \ Undecided) = Length
  BY <1>2 DEF DecidedOK
<1>5. \A n \in 1 .. Length : iteration'[n].decision = iteration[n].decision
  BY <1>2 DEF DecidedOK
<1>6. QED
  BY <1>3, <1>4, <1>5 DEF Decided

(* One more decision, of the round that was open.                           *)
LEMMA OneMore ==
    ASSUME Inv, Inv', Active, NEW d \in Decision, Length' = Len(iteration),
           iteration'[Len(iteration)].decision = d,
           \A n \in 1 .. Len(iteration) - 1 : iteration'[n].decision = iteration[n].decision
    PROVE  Decided' = Append(Decided, d)
<1> DEFINE k == Len(iteration) - 1
           t == Decided'
           u == Append(Decided, d)
<1>0. DecidedOK /\ DecidedOK' /\ Len(iteration) >= 1
  <2>1. Len(iteration) >= 1
    BY LoopAssumption DEF Inv, RowsOK, RowsTyped
  <2>2. QED
    BY <2>1, DecidedAlways, PTL
<1>1. k \in Nat /\ Length = k /\ Length' = k + 1
  <2>1. Length = Len(iteration) - 1
    BY DEF Length
  <2>2. QED
    BY <1>0, <2>1 DEF DecidedOK
<1>2. Decided \in Seq(Decision) /\ Len(Decided) = k /\ \A n \in 1 .. k : Decided[n] = iteration[n].decision
  BY <1>0, <1>1 DEF DecidedOK
<1>3. t \in Seq(Decision) /\ Len(t) = k + 1 /\ \A n \in 1 .. k + 1 : t[n] = iteration'[n].decision
  BY <1>0, <1>1 DEF DecidedOK
<1>4. u \in Seq(Decision) /\ Len(u) = k + 1 /\ u[k + 1] = d /\ \A n \in 1 .. k : u[n] = Decided[n]
  BY <1>2, AppendProperties
<1>5. \A n \in 1 .. k + 1 : n \in 1 .. k \/ n = k + 1
  BY <1>1
<1>6. t[k + 1] = d
  BY <1>1, <1>3
<1>7. \A n \in 1 .. k : t[n] = u[n]
  BY <1>1, <1>2, <1>3, <1>4
<1> HIDE DEF t, u
<1>8. \A n \in 1 .. Len(t) : t[n] = u[n]
  BY <1>3, <1>4, <1>5, <1>6, <1>7
<1>9. t = u
  BY <1>3, <1>4, <1>8, SeqEqual
<1>10. QED
  BY <1>9 DEF t, u

LEMMA EndRefines ==
    ASSUME Inv, Inv', Active, NEW d \in Decision,
           iteration' = [iteration EXCEPT ![Len(iteration)].decision = d],
           loop'.state = Bounded!Outcome[d], loop'.state \in EndState,
           loop.state = "running" \/ d \in {"infrastructure_failed", "evidence_invalid"},
           d = "repairable_failure" => Len(iteration) = MaxIterations
    PROVE  Bounded!End(d) /\ d \in DOMAIN Bounded!Outcome
<1>0. DecidedOK /\ DecidedOK' /\ Len(iteration) \in 1 .. MaxIterations
  <2>1. Len(iteration) \in 1 .. MaxIterations
    BY DEF Inv, RowsOK, RowsTyped
  <2>2. QED
    BY <2>1, DecidedAlways, PTL
<1>1. /\ Len(iteration) \in 1 .. Len(iteration) /\ iteration[Len(iteration)] \in Iteration
      /\ DOMAIN iteration = 1 .. Len(iteration) /\ Len(iteration) \in Nat
  BY <1>0, RoundsTyped
<1>2. /\ iteration'[Len(iteration)].decision = d
      /\ \A n \in 1 .. Len(iteration) - 1 : iteration'[n] = iteration[n]
  BY <1>1 DEF Iteration
<1>3. Len(iteration') = Len(iteration)
  BY <1>0, <1>1 DEF DecidedOK
<1>4. Length' = Len(iteration)
  BY <1>3 DEF Length, Active, ActiveState, EndState
<1>5. Decided' = Append(Decided, d)
  BY <1>2, <1>4, OneMore
<1>6. Len(Decided) + 1 = Len(iteration)
  <2>1. Length = Len(iteration) - 1
    BY DEF Length
  <2>2. QED
    BY <1>0, <1>1, <2>1 DEF DecidedOK
<1>7. d \in DOMAIN Bounded!Outcome
  BY DEF Bounded!Outcome, Decision
<1>8. loop.state \in {"running", "queued"}
  BY DEF Active, ActiveState
<1>9. QED
  BY <1>5, <1>6, <1>7, <1>8 DEF Bounded!End, Bounded!Round, Decided

AbstractNext == Bounded!Next \/ UNCHANGED <<loop.state, Decided>>

(* Most steps, a poll and a bound verification included, decide nothing.      *)
LEMMA StutterStep ==
    ASSUME Inv, Inv', UNCHANGED <<loop, iteration>>
    PROVE  AbstractNext
BY Stuttering DEF AbstractNext

LEMMA EndStep ==
    ASSUME Inv, Inv', NEW h \in Handler, handler[h].phase \in Working, StillOpen(h),
           NEW d \in Decision, NEW s \in EndState, NEW c, End(h, d, s, c),
           Bounded!Outcome[d] = s,
           d = "repairable_failure" => Seen(h) = MaxIterations
    PROVE  AbstractNext
<1>1. Seen(h) = Len(iteration) /\ loop.state = "running" /\ Active
  BY CurrentWorks DEF StillOpen, Owns, OwnsWake
<1>2. loop'.state = s
  BY PhaseOf DEF End, Loop
<1>3. iteration' = [iteration EXCEPT ![Len(iteration)].decision = d]
  BY <1>1 DEF End
<1>4. Bounded!End(d) /\ d \in DOMAIN Bounded!Outcome
  BY <1>1, <1>2, <1>3, EndRefines
<1>5. QED
  BY <1>4 DEF AbstractNext, Bounded!Next

(* A wake handed over decides nothing by itself.                            *)
LEMMA HandOverStep ==
    ASSUME Inv, Inv', NEW h \in Handler, HandOver(h), Len(iteration') = Len(iteration),
           \A n \in 1 .. Len(iteration) : iteration'[n].decision = iteration[n].decision
    PROVE  AbstractNext
<1>1. loop'.state = loop.state
  BY PhaseOf DEF HandOver, Loop
<1>2. QED
  BY <1>1, Stuttering DEF AbstractNext

LEMMA PollStep ==
    ASSUME Inv, Inv', NEW h \in Handler, Poll(h)
    PROVE  AbstractNext
BY StutterStep, HandOverStep DEF Poll, Lost, Barrier

LEMMA OutcomeOf ==
    /\ Bounded!Outcome["verified"] = "verified"
    /\ Bounded!Outcome["abstained"] = "abstained"
    /\ Bounded!Outcome["verification_non_repairable"] = "review_required"
    /\ Bounded!Outcome["repairable_failure"] = "limit_reached"
    /\ \A d \in {"generation_failed", "infrastructure_failed", "evidence_invalid"} :
          Bounded!Outcome[d] = "failed"
BY DEF Bounded!Outcome

LEMMA ActStep ==
    ASSUME Inv, Inv', NEW h \in Handler, Act(h)
    PROVE  AbstractNext
<1>1. handler[h].phase = "acting" /\ handler[h].phase \in Working /\ handler[h].generation \in Generation
  BY PhaseOf DEF Act, In, Working, Local
<1>2. CASE Poll(h)
  BY <1>2, PollStep
<1>3. CASE EndUnverified(h)
  <2>1. CASE Lost(h)
    BY <2>1, StutterStep DEF Lost
  <2>2. CASE StillOpen(h) /\ End(h, "abstained", "abstained", "none")
    BY <1>1, <2>2, EndStep, OutcomeOf DEF Decision, EndState
  <2>3. CASE StillOpen(h) /\ End(h, "generation_failed", "failed", "generation_failed")
    BY <1>1, <2>3, EndStep, OutcomeOf DEF Decision, EndState
  <2>4. QED
    BY <1>3, <2>1, <2>2, <2>3 DEF EndUnverified
<1>4. CASE Bind(h)
  <2>1. CASE UNCHANGED <<loop, iteration>>
    BY <2>1, StutterStep
  <2>2. CASE /\ StillOpen(h) /\ HandOver(h)
             /\ iteration' = [iteration EXCEPT ![Seen(h)].verification = "working"]
    <3>1. Seen(h) \in 1 .. Len(iteration) /\ iteration[Seen(h)] \in Iteration
      BY <1>1, PhaseOf, RoundsTyped DEF RecordOK, Known, Seen
    <3> DEFINE x == [iteration[Seen(h)] EXCEPT !.verification = "working"]
    <3>2. x \in Iteration /\ x.decision = iteration[Seen(h)].decision
      BY <3>1 DEF Iteration, Verification
    <3>3. iteration' = [iteration EXCEPT ![Seen(h)] = x]
      BY <2>2
    <3> HIDE DEF x
    <3>4. /\ Len(iteration') = Len(iteration)
          /\ \A m \in 1 .. Len(iteration) : iteration'[m] = IF m = Seen(h) THEN x ELSE iteration[m]
      BY <3>1, <3>2, <3>3, RoundReplaced
    <3>5. QED
      BY <2>2, <3>2, <3>4, HandOverStep
  <2>3. QED
    BY <1>4, <2>1, <2>2 DEF Bind, Lost, Barrier
<1>5. CASE ReadVerification(h)
  BY <1>5, StutterStep DEF ReadVerification
<1>6. QED
  BY <1>1, <1>2, <1>3, <1>4, <1>5, Zenon DEF Act, Generation

LEMMA JudgeStep ==
    ASSUME Inv, Inv', NEW h \in Handler, Judge(h)
    PROVE  AbstractNext
<1> DEFINE v == handler[h].verification
<1>1. handler[h].phase \in Working /\ Seen(h) \in 1 .. MaxIterations
  <2>1. handler[h].phase = "judging" /\ handler[h].phase \in Working
    BY DEF Judge, In, Working
  <2>2. Seen(h) \in 1 .. Len(iteration) /\ Len(iteration) \in 1 .. MaxIterations
    BY <2>1, PhaseOf DEF RecordOK, Known, Seen
  <2>3. QED
    BY <2>1, <2>2, LoopAssumption
<1>2. CASE Poll(h)
  BY <1>2, PollStep
<1>3. ASSUME NEW d \in {"infrastructure_failed", "evidence_invalid"}, Stop(h, d)
      PROVE  AbstractNext
  <2>1. CASE Lost(h)
    BY <2>1, StutterStep DEF Lost
  <2>2. CASE StillOpen(h) /\ End(h, d, "failed", "verification_failed")
    BY <1>1, <2>2, EndStep, OutcomeOf DEF Decision, EndState
  <2>3. QED
    BY <1>3, <2>1, <2>2 DEF Stop
<1>4. CASE Feedback(h)
  BY <1>4, StutterStep DEF Feedback
<1>5. CASE Conclude(h, v) /\ ~Continues(Seen(h), v)
  <2>1. CASE UNCHANGED <<loop, iteration>>
    BY <2>1, StutterStep
  <2>2. CASE StillOpen(h) /\ End(h, "verification_non_repairable", "review_required", "none")
    BY <1>1, <2>2, EndStep, OutcomeOf DEF Decision, EndState
  <2>3. CASE /\ StillOpen(h) /\ Repairable(v)
             /\ End(h, "repairable_failure", "limit_reached", "none")
    <3>1. Seen(h) = MaxIterations
      BY <1>1, <1>5, <2>3, LoopAssumption DEF Continues
    <3>2. QED
      BY <1>1, <2>3, <3>1, EndStep, OutcomeOf DEF Decision, EndState
  <2>4. CASE StillOpen(h) /\ End(h, "verified", "verified", "none")
    BY <1>1, <2>4, EndStep, OutcomeOf DEF Decision, EndState
  <2>5. QED
    BY <1>5, <2>1, <2>2, <2>3, <2>4, Zenon DEF Conclude, Lost, Barrier
<1>6. QED
  BY <1>2, <1>3, <1>4, <1>5, Zenon DEF Judge

LEMMA SucceedStep ==
    ASSUME Inv, Inv', NEW h \in Handler, Succeed(h)
    PROVE  AbstractNext
<1>1. handler[h].phase = "succeeding" /\ handler[h].phase \in Working
  BY DEF Succeed, In, Working
<1>2. CASE UNCHANGED <<loop, iteration>>
  BY <1>2, StutterStep
<1>3. CASE /\ StillOpen(h) /\ Seen(h) = 1 /\ HandOver(h)
           /\ iteration' = Append([iteration EXCEPT ![Seen(h)].decision = "repairable_failure"],
                                  NewIteration)
  <2> DEFINE x == [iteration[1] EXCEPT !.decision = "repairable_failure"]
  <2>1. /\ Len(iteration) = 1 /\ loop.state = "running" /\ Active /\ 1 < MaxIterations
        /\ iteration \in Seq(Iteration) /\ iteration[1] \in Iteration
    BY <1>1, <1>3, CurrentWorks, PhaseOf, RoundsTyped
       DEF StillOpen, Owns, OwnsWake, RecordOK, Succeeding, Seen
  <2>2. x \in Iteration /\ x.decision = "repairable_failure" /\ NewIteration \in Iteration
    BY <2>1 DEF Iteration, Decision, NewIteration, Generation, Verification
  <2>3. iteration' = Append([iteration EXCEPT ![1] = x], NewIteration)
    BY <1>3, <2>1, RoundsTyped
  <2> HIDE DEF x
  <2>4. Len(iteration') = 2 /\ iteration'[1] = x
    BY <2>1, <2>2, <2>3, SecondRound
  <2>5. loop'.state = loop.state
    BY <1>3, PhaseOf DEF HandOver, Loop
  <2>6. Length' = 1 /\ Length = 0
    BY <2>1, <2>4, <2>5 DEF Length, Active
  <2>7. Decided' = Append(Decided, "repairable_failure")
    BY <2>1, <2>2, <2>4, <2>6, OneMore DEF Decision
  <2>8. Len(Decided) = 0
    BY <2>6, DecidedIs DEF DecidedOK
  <2>9. Bounded!GoOn
    <3>1. Bounded!Round = 1
      <4>1. Bounded!Round = Len(Decided) + 1
        BY DEF Bounded!Round, Decided
      <4>2. QED
        BY <2>8, <4>1
    <3>2. UNCHANGED loop.state
      BY <2>5
    <3>3. QED
      BY <2>1, <2>7, <3>1, <3>2 DEF Bounded!GoOn, Decided
  <2>10. QED
    BY <2>9 DEF AbstractNext, Bounded!Next
<1>4. QED
  BY <1>2, <1>3 DEF Succeed, Successor, Lost, Barrier

LEMMA FailStep ==
    ASSUME Inv, Inv', NEW h \in Handler, Fail(h)
    PROVE  AbstractNext
<1>1. CASE Lost(h)
  BY <1>1, StutterStep DEF Lost
<1>2. ASSUME OwnsWake(h), NEW n \in Undecided,
             iteration' = [iteration EXCEPT ![n].decision = Verdict(handler[h].error)],
             loop' = [loop EXCEPT !.state = "failed", !.code = handler[h].error]
      PROVE  AbstractNext
  <2>0. PICK d \in {"infrastructure_failed", "evidence_invalid"} : d = Verdict(handler[h].error)
    BY DEF Verdict
  <2>1. Active /\ n = Len(iteration)
    BY <1>2 DEF OwnsWake, Inv, RowsOK, OneOpenIteration
  <2>2. d \in Decision /\ Bounded!Outcome[d] = "failed" /\ d # "repairable_failure"
    BY OutcomeOf DEF Decision
  <2>3. loop'.state = "failed"
    BY <1>2, PhaseOf DEF Loop
  <2>4. iteration' = [iteration EXCEPT ![Len(iteration)].decision = d]
    BY <1>2, <2>0, <2>1
  <2>5. Bounded!End(d) /\ d \in DOMAIN Bounded!Outcome
    BY <2>1, <2>2, <2>3, <2>4, EndRefines DEF EndState
  <2>6. QED
    BY <2>5 DEF AbstractNext, Bounded!Next
<1>3. QED
  BY <1>1, <1>2 DEF Fail, Settle

LEMMA HandlerAbstract ==
    ASSUME Inv, Inv', NEW h \in Handler, HandlerStep(h)
    PROVE  AbstractNext
<1>1. CASE UNCHANGED <<loop, iteration>>
  BY <1>1, StutterStep
<1>2. CASE Start(h) /\ ~UNCHANGED loop
  <2>1. loop.state = "queued" /\ loop'.state = "running" /\ UNCHANGED iteration
    BY <1>2, PhaseOf DEF Start, Loop
  <2>2. Active /\ Active'
    BY <2>1 DEF Active, ActiveState
  <2>3. UNCHANGED Decided
    BY <2>1 DEF Decided, Undecided
  <2>4. Bounded!Start
    BY <2>1, <2>3 DEF Bounded!Start, Decided
  <2>5. QED
    BY <2>4 DEF AbstractNext, Bounded!Next
<1>3. CASE Start(h) /\ UNCHANGED loop
  BY <1>1, <1>3 DEF Start
<1>4. CASE Validate(h) \/ Fence(h) \/ ReadLoop(h) \/ ReadIteration(h) \/ ExistingAuthority(h)
           \/ Reserve(h) \/ Complete(h) \/ ReplyJob(h)
  BY <1>1, <1>4 DEF Validate, Fence, ReadLoop, ReadIteration, ExistingAuthority, Reserve,
                    Complete, ReplyJob, Rows
<1>5. QED
  BY <1>2, <1>3, <1>4, ActStep, JudgeStep, SucceedStep, FailStep DEF HandlerStep

LEMMA NextAbstract ==
    ASSUME Inv, Inv', [Next]_vars
    PROVE  AbstractNext
<1>1. CASE UNCHANGED <<loop, iteration>>
  BY <1>1, StutterStep
<1>2. ASSUME NEW h \in Handler, HandlerStep(h)
      PROVE  AbstractNext
  BY <1>2, HandlerAbstract
<1>3. ASSUME NEW n \in DOMAIN iteration, NEW x \in Iteration,
             iteration' = [iteration EXCEPT ![n] = x], x.decision = iteration[n].decision,
             UNCHANGED loop
      PROVE  AbstractNext
  <2>1. n \in 1 .. Len(iteration)
    BY RoundsTyped
  <2>2. /\ Len(iteration') = Len(iteration)
        /\ \A m \in 1 .. Len(iteration) : iteration'[m] = IF m = n THEN x ELSE iteration[m]
    BY <1>3, <2>1, RoundReplaced
  <2>3. QED
    BY <1>3, <2>2, Stuttering DEF AbstractNext
<1>4. ASSUME NEW n \in DOMAIN iteration, GenerationEnds(n)
      PROVE  AbstractNext
  <2>1. PICK g \in Generation : iteration' = [iteration EXCEPT ![n].generation = g]
    BY <1>4 DEF GenerationEnds
  <2>2. iteration[n] \in Iteration
    BY RoundsTyped
  <2>3. /\ [iteration[n] EXCEPT !.generation = g] \in Iteration
        /\ [iteration[n] EXCEPT !.generation = g].decision = iteration[n].decision
    BY <2>2 DEF Iteration
  <2>4. iteration' = [iteration EXCEPT ![n] = [iteration[n] EXCEPT !.generation = g]]
    BY <2>1
  <2>5. QED
    BY <1>3, <1>4, <2>3, <2>4 DEF GenerationEnds
<1>5. ASSUME NEW n \in DOMAIN iteration, VerificationEnds(n)
      PROVE  AbstractNext
  <2>1. PICK v \in Verification : iteration' = [iteration EXCEPT ![n].verification = v]
    BY <1>5 DEF VerificationEnds
  <2>2. iteration[n] \in Iteration
    BY RoundsTyped
  <2>3. /\ [iteration[n] EXCEPT !.verification = v] \in Iteration
        /\ [iteration[n] EXCEPT !.verification = v].decision = iteration[n].decision
    BY <2>2 DEF Iteration
  <2>4. iteration' = [iteration EXCEPT ![n] = [iteration[n] EXCEPT !.verification = v]]
    BY <2>1
  <2>5. QED
    BY <1>3, <1>5, <2>3, <2>4 DEF VerificationEnds
<1>6. QED
  BY <1>1, <1>2, <1>4, <1>5
     DEF Next, Deliver, DatabaseError, Crash, TimeOut, Lapse, Restart, FenceFalls, GrantEnds,
         Rows, vars

(* The loop implements the abstract one: whatever happens to its handlers, it *)
(* decides at most MaxIterations rounds, one after another, revises nothing  *)
(* and ends as its last decision says.                                      *)
THEOREM LoopRefines == Spec => LoopSpec
<1>1. Init => Bounded!Init
  <2>1. ASSUME Init
        PROVE  Bounded!Init
    <3>1. Inv /\ loop.state = "queued" /\ iteration = <<NewIteration>>
      <4>1. Inv
        BY <2>1, InitInv
      <4>2. loop.state = "queued"
        BY <2>1 DEF Init
      <4>3. QED
        BY <2>1, <4>1, <4>2 DEF Init
    <3>2. Len(iteration) = 1 /\ Active
      BY <3>1 DEF Active, ActiveState
    <3>3. Decided \in Seq(Decision) /\ Len(Decided) = 0
      BY <3>1, <3>2, DecidedIs DEF DecidedOK, Length
    <3>4. Decided = << >>
      BY <3>3, EmptySeq
    <3>5. QED
      BY <3>1, <3>4 DEF Bounded!Init, Decided
  <2>2. QED
    BY <2>1
<1>2. Inv /\ Inv' /\ [Next]_vars => [Bounded!Next]_<<loop.state, Decided>>
  BY NextAbstract DEF AbstractNext
<1>3. QED
  BY <1>1, <1>2, Invariance, PTL DEF Spec, LoopSpec, Bounded!Spec, Decided
=============================================================================
