----------------------- MODULE ExternalExecutionProofs -----------------------
(***************************************************************************)
(* What the external-execution authority guarantees for every set of        *)
(* grants, operation keys, budgets and concurrency limits.                 *)
(***************************************************************************)
EXTENDS ExternalExecution, ExecutionAvailability, FiniteSetTheorems, SequenceTheorems, TLAPS

-----------------------------------------------------------------------------
(* What the operators return                                               *)

(* The expiry of a lease is the earliest of three instants of the clock.    *)
LEMMA EarliestType ==
    ASSUME NEW x \in Nat, NEW y \in Nat, NEW z \in Nat
    PROVE  Earliest({x, y, z}) \in Nat
<1>1. \E t \in {x, y, z} : \A u \in {x, y, z} : t <= u
  <2>1. CASE x <= y /\ x <= z
    BY <2>1
  <2>2. CASE y <= x /\ y <= z
    BY <2>2
  <2>3. CASE z <= x /\ z <= y
    BY <2>3
  <2>4. QED
    BY <2>1, <2>2, <2>3
<1>2. Earliest({x, y, z}) \in {x, y, z}
  BY <1>1, Zenon DEF Earliest
<1>3. QED
  BY <1>2

LEMMA NewExpiryType ==
    ASSUME TypeOK, NEW a \in Account, NEW g \in Operation
    PROVE  NewExpiry(a, g) \in Nat
<1>1. /\ now + LeaseTime \in Nat
      /\ ExpiresAt[a] \in Nat
      /\ ExpiresAt[g] \in Nat
  BY GrantAssumption, BoundAssumption DEF TypeOK, Grant
<1>2. QED
  BY <1>1, EarliestType DEF NewExpiry

(* An issued reservation names an account grant and an operation grant.     *)
LEMMA IssuedType ==
    ASSUME TypeOK, NEW r \in Issued
    PROVE  /\ r \in Reservation
           /\ reservation[r] \in Request
           /\ lease[r] \in Lease
BY DEF TypeOK, Issued, NoLease, NoRequest

(* Changing one attempt leaves its length and all the others as they were.  *)
LEMMA SetAttemptEffect ==
    ASSUME TypeOK, NEW r \in Reservation, NEW o \in DOMAIN attempt[r],
           NEW a \in Attempt, SetAttempt(r, o, a)
    PROVE  /\ attempt' \in [Reservation -> Seq(Attempt)]
           /\ \A s \in Reservation : DOMAIN attempt'[s] = DOMAIN attempt[s]
           /\ \A s \in Reservation : Len(attempt'[s]) = Len(attempt[s])
           /\ \A s \in Reservation : \A q \in DOMAIN attempt[s] :
                 attempt'[s][q] = IF s = r /\ q = o THEN a ELSE attempt[s][q]
<1> DEFINE changed == [attempt[r] EXCEPT ![o] = a]
<1>1. attempt' = [attempt EXCEPT ![r] = changed]
  BY DEF SetAttempt
<1>2. attempt \in [Reservation -> Seq(Attempt)] /\ attempt[r] \in Seq(Attempt)
  BY DEF TypeOK
<1>3. o \in 1 .. Len(attempt[r])
  BY <1>2
<1>4. /\ changed \in Seq(Attempt)
      /\ Len(changed) = Len(attempt[r])
      /\ DOMAIN changed = DOMAIN attempt[r]
      /\ \A q \in DOMAIN attempt[r] : changed[q] = IF q = o THEN a ELSE attempt[r][q]
  BY <1>2, <1>3, ExceptSeq
<1> HIDE DEF changed
<1>5. \A s \in Reservation : attempt'[s] = IF s = r THEN changed ELSE attempt[s]
  BY <1>1, <1>2
<1>6. attempt' \in [Reservation -> Seq(Attempt)]
  BY <1>1, <1>2, <1>4
<1>7. QED
  BY <1>4, <1>5, <1>6

-----------------------------------------------------------------------------
(* Types                                                                   *)

LEMMA SweptType ==
    ASSUME TypeOK
    PROVE  /\ Swept \in [Reservation -> Lease \cup {NoLease}]
           /\ \A r \in Reservation : Swept[r] = NoLease <=> lease[r] = NoLease
<1>1. \A l \in Lease : [l EXCEPT !.state = "expired"] \in Lease
  BY DEF Lease
<1>2. \A r \in Reservation : lease[r].state = "active" => lease[r] \in Lease
  BY DEF TypeOK, NoLease
<1>3. \A l \in Lease : l # NoLease
  BY DEF Lease, NoLease
<1>4. \A r \in Reservation : Swept[r] \in Lease \cup {NoLease}
  BY <1>1, <1>2 DEF Swept, TypeOK
<1>5. QED
  BY <1>1, <1>2, <1>3, <1>4 DEF Swept

LEMMA ReserveType ==
    ASSUME TypeOK, NEW r \in Reservation, NEW a \in Account, NEW g \in Operation,
           NEW p \in Purpose, Reserve(r, a, g, p)
    PROVE  TypeOK'
<1>1. NewExpiry(a, g) \in Nat
  BY NewExpiryType
<1>2. lease' \in [Reservation -> Lease \cup {NoLease}]
  BY <1>1, SweptType DEF Reserve, Lease
<1>3. reservation' \in [Reservation -> Request \cup {NoRequest}]
  BY DEF Reserve, TypeOK, Request
<1>4. permit' \in [Reservation -> {"none", "held", "lost"}]
  BY DEF Reserve, TypeOK
<1>5. \A s \in Reservation : reservation'[s] = NoRequest <=> lease'[s] = NoLease
  <2>1. reservation'[r] # NoRequest
    BY GrantAssumption DEF Reserve, TypeOK, NoRequest, Purpose
  <2>2. lease'[r] # NoLease
    BY SweptType DEF Reserve, NoLease
  <2>3. ASSUME NEW s \in Reservation, s # r
        PROVE  reservation'[s] = NoRequest <=> lease'[s] = NoLease
    BY <2>3, SweptType DEF Reserve, TypeOK
  <2>4. QED
    BY <2>1, <2>2, <2>3
<1>6. QED
  BY <1>2, <1>3, <1>4, <1>5 DEF Reserve, TypeOK

(* Every step of an attempt but its start is a change of that one attempt.  *)
LEMMA AttemptChangeType ==
    ASSUME TypeOK, NEW r \in Reservation, NEW o \in DOMAIN attempt[r],
           NEW a \in Attempt, SetAttempt(r, o, a), session' \in [Reservation -> BOOLEAN],
           UNCHANGED <<now, revoked, exhausted, reservation, lease, permit>>
    PROVE  TypeOK'
<1>1. attempt' \in [Reservation -> Seq(Attempt)]
  BY SetAttemptEffect
<1>2. QED
  BY <1>1 DEF TypeOK

LEMMA AttemptType ==
    ASSUME TypeOK, NEW r \in Reservation, NEW o \in DOMAIN attempt[r]
    PROVE  attempt[r][o] \in Attempt
<1>1. attempt[r] \in Seq(Attempt)
  BY DEF TypeOK
<1>2. o \in 1 .. Len(attempt[r])
  BY <1>1
<1>3. QED
  BY <1>1, <1>2, ElementOfSeq

(* The updates the steps of an attempt make.                                *)
LEMMA AttemptUpdates ==
    ASSUME NEW b \in Attempt,
           NEW p \in {"admitted", "authorized", "sent", "confirming", "done"},
           NEW out \in {"started", "succeeded", "failed", "ambiguous"}
    PROVE  /\ [b EXCEPT !.phase = p] \in Attempt
           /\ [b EXCEPT !.phase = p, !.onWire = TRUE] \in Attempt
           /\ [b EXCEPT !.phase = p, !.outcome = out] \in Attempt
           /\ b.outcome \in {"started", "succeeded", "failed", "ambiguous"}
BY DEF Attempt

LEMMA BeginType ==
    ASSUME TypeOK, NEW r \in Reservation, NEW kind \in Kind, Begin(r, kind)
    PROVE  TypeOK'
<1> DEFINE a == [kind |-> kind, outcome |-> "started", phase |-> "admitted", onWire |-> FALSE]
<1>1. a \in Attempt
  BY DEF Attempt
<1> HIDE DEF a
<1>2. Append(attempt[r], a) \in Seq(Attempt)
  BY <1>1, AppendProperties DEF TypeOK
<1>3. attempt' = [attempt EXCEPT ![r] = Append(attempt[r], a)]
  BY DEF Begin, a
<1>4. attempt' \in [Reservation -> Seq(Attempt)]
  BY <1>2, <1>3 DEF TypeOK
<1>5. QED
  BY <1>4 DEF Begin, TypeOK

LEMMA SettlementType ==
    ASSUME TypeOK, NEW r \in Reservation, NEW o \in DOMAIN attempt[r],
           \/ Authorize(r, o) \/ RefuseLocally(r, o) \/ Send(r, o) \/ CreateAnswered(r, o)
           \/ \E outcome \in Outcome : Settle(r, o, outcome) \/ SettleRefused(r, o, outcome)
           \/ o = 1 /\ (ConfirmCreation(r) \/ AbandonCreation(r))
    PROVE  TypeOK'
<1> DEFINE b == attempt[r][o]
<1>0. session \in [Reservation -> BOOLEAN] /\ b \in Attempt
  BY AttemptType DEF TypeOK
<1>a. ASSUME NEW c \in Attempt, SetAttempt(r, o, c), session' \in [Reservation -> BOOLEAN],
             UNCHANGED <<now, revoked, exhausted, reservation, lease, permit>>
      PROVE  TypeOK'
  BY <1>a, AttemptChangeType
<1>1. CASE Authorize(r, o)
  <2>1. [b EXCEPT !.phase = "authorized"] \in Attempt
    BY <1>0, AttemptUpdates
  <2>2. QED
    BY <1>0, <1>a, <1>1, <2>1 DEF Authorize, OnlyAttemptChanges
<1>2. CASE RefuseLocally(r, o)
  <2>1. [b EXCEPT !.phase = "done",
                  !.outcome = IF OwnedForFailure(r) THEN "failed" ELSE b.outcome] \in Attempt
    BY <1>0, AttemptUpdates
  <2>2. QED
    BY <1>0, <1>a, <1>2, <2>1 DEF RefuseLocally, OnlyAttemptChanges
<1>3. CASE Send(r, o)
  <2>1. [b EXCEPT !.phase = "sent", !.onWire = TRUE] \in Attempt
    BY <1>0, AttemptUpdates
  <2>2. QED
    BY <1>0, <1>a, <1>3, <2>1 DEF Send, OnlyAttemptChanges
<1>4. CASE CreateAnswered(r, o)
  <2>1. [b EXCEPT !.phase = "confirming"] \in Attempt
    BY <1>0, AttemptUpdates
  <2>2. QED
    BY <1>0, <1>a, <1>4, <2>1 DEF CreateAnswered, OnlyAttemptChanges
<1>5. ASSUME NEW outcome \in Outcome, Settle(r, o, outcome)
      PROVE  TypeOK'
  <2>1. [b EXCEPT !.phase = "done", !.outcome = outcome] \in Attempt
    BY <1>0, AttemptUpdates DEF Outcome
  <2>2. session' \in [Reservation -> BOOLEAN]
    BY <1>0, <1>5 DEF Settle
  <2>3. QED
    BY <1>a, <1>5, <2>1, <2>2 DEF Settle
<1>6. ASSUME NEW outcome \in Outcome, SettleRefused(r, o, outcome)
      PROVE  TypeOK'
  <2>1. [b EXCEPT !.phase = "done"] \in Attempt
    BY <1>0, AttemptUpdates
  <2>2. QED
    BY <1>0, <1>a, <1>6, <2>1 DEF SettleRefused, OnlyAttemptChanges
<1>7. CASE o = 1 /\ ConfirmCreation(r)
  <2>1. [b EXCEPT !.phase = "done",
                  !.outcome = IF BusinessAllowedFor(r) THEN "succeeded" ELSE b.outcome] \in Attempt
    BY <1>0, AttemptUpdates
  <2>2. session' \in [Reservation -> BOOLEAN]
    BY <1>0, <1>7 DEF ConfirmCreation
  <2>3. QED
    BY <1>a, <1>7, <2>1, <2>2 DEF ConfirmCreation
<1>8. CASE o = 1 /\ AbandonCreation(r)
  <2>1. [b EXCEPT !.phase = "done", !.outcome = "ambiguous"] \in Attempt
    BY <1>0, AttemptUpdates
  <2>2. QED
    BY <1>0, <1>a, <1>8, <2>1 DEF AbandonCreation, OnlyAttemptChanges
<1>9. QED
  BY <1>1, <1>2, <1>3, <1>4, <1>5, <1>6, <1>7, <1>8

LEMMA LeaseType ==
    ASSUME TypeOK, NEW r \in Reservation, NEW outcome \in Outcome,
           Renew(r) \/ Complete(r, outcome)
    PROVE  TypeOK'
<1>1. r \in Issued /\ lease[r] \in Lease /\ reservation[r] \in Request
  BY IssuedType DEF Renew, Complete
<1>2. /\ \A l \in Lease, t \in Nat : [l EXCEPT !.expiresAt = t] \in Lease
      /\ \A l \in Lease, out \in Outcome : [l EXCEPT !.state = out] \in Lease
      /\ NoLease \notin Lease
  BY DEF Lease, NoLease, Outcome
<1>3. ASSUME NEW l \in Lease, lease' = [lease EXCEPT ![r] = l],
             UNCHANGED <<now, revoked, exhausted, reservation, attempt, permit, session>>
      PROVE  TypeOK'
  <2>1. reservation[r] # NoRequest /\ l # NoLease
    BY <1>1, <1>2 DEF TypeOK
  <2>2. QED
    BY <1>3, <2>1 DEF TypeOK
<1>4. CASE Renew(r)
  <2>1. NewExpiry(reservation[r].account, reservation[r].grant) \in Nat
    BY <1>1, NewExpiryType DEF Request
  <2>2. QED
    BY <1>1, <1>2, <1>3, <1>4, <2>1 DEF Renew
<1>5. CASE Complete(r, outcome)
  <2>1. lease' = [lease EXCEPT ![r] = [lease[r] EXCEPT !.state =
                     IF Unsettled(r) THEN "ambiguous" ELSE outcome]]
    BY <1>5 DEF Complete
  <2>2. (IF Unsettled(r) THEN "ambiguous" ELSE outcome) \in Outcome
    BY DEF Outcome
  <2>3. QED
    BY <1>1, <1>2, <1>3, <1>5, <2>1, <2>2 DEF Complete
<1>6. QED
  BY <1>4, <1>5

LEMMA TypeStep ==
    ASSUME TypeOK, [Next]_vars
    PROVE  TypeOK'
<1>1. CASE UNCHANGED vars
  BY <1>1 DEF vars, TypeOK
<1>2. ASSUME NEW r \in Reservation, NEW a \in Account, NEW g \in Operation, NEW p \in Purpose,
             Reserve(r, a, g, p)
      PROVE  TypeOK'
  BY <1>2, ReserveType
<1>3. ASSUME NEW r \in Reservation, NEW kind \in Kind, Begin(r, kind)
      PROVE  TypeOK'
  BY <1>3, BeginType
<1>4. ASSUME NEW r \in Reservation, NEW o \in DOMAIN attempt[r],
             \/ Authorize(r, o) \/ RefuseLocally(r, o) \/ Send(r, o) \/ CreateAnswered(r, o)
             \/ \E outcome \in Outcome : Settle(r, o, outcome) \/ SettleRefused(r, o, outcome)
      PROVE  TypeOK'
  BY <1>4, SettlementType
<1>5. ASSUME NEW r \in Reservation, ConfirmCreation(r) \/ AbandonCreation(r)
      PROVE  TypeOK'
  <2>1. 1 \in DOMAIN attempt[r]
    BY <1>5 DEF ConfirmCreation, AbandonCreation, InPhase
  <2>2. QED
    BY <1>5, <2>1, SettlementType
<1>6. ASSUME NEW r \in Reservation, NEW outcome \in Outcome, Renew(r) \/ Complete(r, outcome)
      PROVE  TypeOK'
  BY <1>6, LeaseType
<1>7. ASSUME NEW r \in Reservation, Crash(r)
      PROVE  TypeOK'
  BY <1>7 DEF Crash, TypeOK
<1>8. CASE (\E g \in Grant : Revoke(g)) \/ (\E run \in Run : Exhaust(run)) \/ Tick
  BY <1>8 DEF Revoke, Exhaust, Tick, TypeOK
<1>9. QED
  BY <1>1, <1>2, <1>3, <1>4, <1>5, <1>6, <1>7, <1>8 DEF Next, Outcome

(* The tables, the permits and the clock only ever hold values of their     *)
(* types, for every set of grants and operation keys.                       *)
THEOREM TypeCorrect == Spec => []TypeOK
<1>1. Init => TypeOK
  BY EmptySeq DEF Init, TypeOK
<1>2. TypeOK /\ [Next]_vars => TypeOK'
  BY TypeStep
<1>3. QED
  BY <1>1, <1>2, PTL DEF Spec

-----------------------------------------------------------------------------
(* Certainty                                                               *)

(* An attempt whose process has not finished with it has no outcome yet.    *)
OpenIsStarted ==
    \A r \in Reservation : \A o \in DOMAIN attempt[r] :
        attempt[r][o].phase # "done" => attempt[r][o].outcome = "started"

IInv == TypeOK /\ OpenIsStarted /\ SucceededIsCertain

(* What a step of an attempt may do: an outcome is recorded once, under an  *)
(* active lease, and a success only by the owner.                           *)
Moves(r, o, a) ==
    /\ a \in Attempt
    /\ SetAttempt(r, o, a)
    /\ UNCHANGED <<revoked, reservation, lease, permit>>
    /\ a.phase # "done" => a.outcome = "started"
    /\ a.outcome # attempt[r][o].outcome =>
          /\ attempt[r][o].outcome = "started"
          /\ lease[r].state = "active"
          /\ a.outcome = "succeeded" => Owned(r)

LEMMA SettlementMoves ==
    ASSUME TypeOK, OpenIsStarted, NEW r \in Reservation, NEW o \in DOMAIN attempt[r],
           \/ Authorize(r, o) \/ RefuseLocally(r, o) \/ Send(r, o) \/ CreateAnswered(r, o)
           \/ \E outcome \in Outcome : Settle(r, o, outcome) \/ SettleRefused(r, o, outcome)
           \/ o = 1 /\ (ConfirmCreation(r) \/ AbandonCreation(r))
    PROVE  \E a \in Attempt : Moves(r, o, a)
<1> DEFINE b == attempt[r][o]
<1>0. b \in Attempt
  BY AttemptType
<1>1. b.phase # "done" => b.outcome = "started"
  BY DEF OpenIsStarted
<1>2. ASSUME NEW p \in {"authorized", "sent", "confirming", "done"},
             NEW out \in {"started", "succeeded", "failed", "ambiguous"}
      PROVE  /\ [b EXCEPT !.phase = p].outcome = b.outcome
             /\ [b EXCEPT !.phase = p].phase = p
             /\ [b EXCEPT !.phase = p, !.onWire = TRUE].outcome = b.outcome
             /\ [b EXCEPT !.phase = p, !.outcome = out].outcome = out
             /\ [b EXCEPT !.phase = p, !.outcome = out].phase = p
             /\ [b EXCEPT !.phase = p] \in Attempt
             /\ [b EXCEPT !.phase = p, !.onWire = TRUE] \in Attempt
             /\ [b EXCEPT !.phase = p, !.outcome = out] \in Attempt
  BY <1>0 DEF Attempt
<1>3. CASE Authorize(r, o)
  <2>1. Moves(r, o, [b EXCEPT !.phase = "authorized"])
    BY <1>1, <1>2, <1>3 DEF Authorize, InPhase, OnlyAttemptChanges, Moves
  <2>2. QED
    BY <2>1 DEF Moves
<1>4. CASE RefuseLocally(r, o)
  <2>1. b.phase = "admitted" /\ b.outcome = "started"
    BY <1>1, <1>4 DEF RefuseLocally, InPhase
  <2>2. UNCHANGED <<revoked, reservation, lease, permit>>
    BY <1>4 DEF RefuseLocally, OnlyAttemptChanges
  <2>3. CASE OwnedForFailure(r)
    <3>1. SetAttempt(r, o, [b EXCEPT !.phase = "done", !.outcome = "failed"])
      BY <1>4, <2>3 DEF RefuseLocally, SetAttempt
    <3>2. Moves(r, o, [b EXCEPT !.phase = "done", !.outcome = "failed"])
      BY <1>2, <2>1, <2>2, <2>3, <3>1 DEF OwnedForFailure, Moves
    <3>3. QED
      BY <3>2 DEF Moves
  <2>4. CASE ~OwnedForFailure(r)
    <3>1. SetAttempt(r, o, [b EXCEPT !.phase = "done", !.outcome = b.outcome])
      BY <1>4, <2>4 DEF RefuseLocally, SetAttempt
    <3>2. Moves(r, o, [b EXCEPT !.phase = "done", !.outcome = b.outcome])
      BY <1>2, <2>1, <2>2, <3>1 DEF Moves
    <3>3. QED
      BY <3>2 DEF Moves
  <2>5. QED
    BY <2>3, <2>4
<1>5. CASE Send(r, o)
  <2>1. b.phase = "authorized" /\ b.outcome = "started"
    BY <1>1, <1>5 DEF Send, InPhase
  <2>2. Moves(r, o, [b EXCEPT !.phase = "sent", !.onWire = TRUE])
    BY <1>2, <1>5, <2>1 DEF Send, OnlyAttemptChanges, Moves
  <2>3. QED
    BY <2>2 DEF Moves
<1>6. CASE CreateAnswered(r, o)
  <2>1. Moves(r, o, [b EXCEPT !.phase = "confirming"])
    BY <1>1, <1>2, <1>6 DEF CreateAnswered, InPhase, OnlyAttemptChanges, Moves
  <2>2. QED
    BY <2>1 DEF Moves
<1>7. ASSUME NEW outcome \in Outcome, Settle(r, o, outcome)
      PROVE  \E a \in Attempt : Moves(r, o, a)
  <2>1. b.outcome = "started" /\ lease[r].state = "active" /\ (outcome = "succeeded" => Owned(r))
    BY <1>7 DEF Settle, FinishCommits, Owned, OwnedForFailure, LiveLease
  <2>2. outcome \in {"started", "succeeded", "failed", "ambiguous"}
    BY DEF Outcome
  <2>3. Moves(r, o, [b EXCEPT !.phase = "done", !.outcome = outcome])
    BY <1>2, <1>7, <2>1, <2>2 DEF Settle, Moves
  <2>4. QED
    BY <2>3 DEF Moves
<1>8. ASSUME NEW outcome \in Outcome, SettleRefused(r, o, outcome)
      PROVE  \E a \in Attempt : Moves(r, o, a)
  <2>1. Moves(r, o, [b EXCEPT !.phase = "done"])
    BY <1>2, <1>8 DEF SettleRefused, OnlyAttemptChanges, Moves
  <2>2. QED
    BY <2>1 DEF Moves
<1>9. CASE o = 1 /\ ConfirmCreation(r)
  <2>1. b.outcome = "started" /\ Owned(r) /\ lease[r].state = "active"
    BY <1>1, <1>9 DEF ConfirmCreation, InPhase, Owned, LiveLease
  <2>2. CASE BusinessAllowedFor(r)
    <3>1. SetAttempt(r, o, [b EXCEPT !.phase = "done", !.outcome = "succeeded"])
      BY <1>9, <2>2 DEF ConfirmCreation, SetAttempt
    <3>2. UNCHANGED <<revoked, reservation, lease, permit>>
      BY <1>9 DEF ConfirmCreation
    <3>3. Moves(r, o, [b EXCEPT !.phase = "done", !.outcome = "succeeded"])
      BY <1>2, <2>1, <3>1, <3>2 DEF Moves
    <3>4. QED
      BY <3>3 DEF Moves
  <2>3. CASE ~BusinessAllowedFor(r)
    <3>1. SetAttempt(r, o, [b EXCEPT !.phase = "done", !.outcome = b.outcome])
      BY <1>9, <2>3 DEF ConfirmCreation, SetAttempt
    <3>2. UNCHANGED <<revoked, reservation, lease, permit>>
      BY <1>9 DEF ConfirmCreation
    <3>3. Moves(r, o, [b EXCEPT !.phase = "done", !.outcome = b.outcome])
      BY <1>2, <2>1, <3>1, <3>2 DEF Moves
    <3>4. QED
      BY <3>3 DEF Moves
  <2>4. QED
    BY <2>2, <2>3
<1>10. CASE o = 1 /\ AbandonCreation(r)
  <2>1. Moves(r, o, [b EXCEPT !.phase = "done", !.outcome = "ambiguous"])
    BY <1>2, <1>10 DEF AbandonCreation, OwnedForFailure, OnlyAttemptChanges, Moves
  <2>2. QED
    BY <2>1 DEF Moves
<1>11. QED
  BY <1>3, <1>4, <1>5, <1>6, <1>7, <1>8, <1>9, <1>10

(* An attempt that starts is appended; the earlier ones stay as they are.   *)
LEMMA BeginEffect ==
    ASSUME TypeOK, NEW r \in Reservation, NEW kind \in Kind, Begin(r, kind)
    PROVE  /\ Len(attempt'[r]) = Len(attempt[r]) + 1
           /\ \A s \in Reservation : s # r => attempt'[s] = attempt[s]
           /\ \A s \in Reservation : DOMAIN attempt[s] \subseteq DOMAIN attempt'[s]
           /\ \A s \in Reservation : \A o \in DOMAIN attempt[s] : attempt'[s][o] = attempt[s][o]
           /\ \A s \in Reservation : \A o \in DOMAIN attempt'[s] \ DOMAIN attempt[s] :
                 s = r /\ attempt'[s][o].outcome = "started"
<1> DEFINE a == [kind |-> kind, outcome |-> "started", phase |-> "admitted", onWire |-> FALSE]
<1>1. a \in Attempt /\ a.outcome = "started"
  BY DEF Attempt
<1>2. attempt' = [attempt EXCEPT ![r] = Append(attempt[r], a)]
  BY DEF Begin
<1> HIDE DEF a
<1>3. /\ Append(attempt[r], a) \in Seq(Attempt)
      /\ Len(Append(attempt[r], a)) = Len(attempt[r]) + 1
      /\ \A i \in 1 .. Len(attempt[r]) : Append(attempt[r], a)[i] = attempt[r][i]
      /\ Append(attempt[r], a)[Len(attempt[r]) + 1] = a
  BY <1>1, AppendProperties DEF TypeOK
<1>4. /\ DOMAIN attempt[r] = 1 .. Len(attempt[r])
      /\ DOMAIN Append(attempt[r], a) = 1 .. Len(attempt[r]) + 1
      /\ Len(attempt[r]) \in Nat
  BY <1>3 DEF TypeOK
<1>5. /\ attempt'[r] = Append(attempt[r], a)
      /\ \A s \in Reservation : s # r => attempt'[s] = attempt[s]
  BY <1>2 DEF TypeOK
<1>6. QED
  BY <1>1, <1>3, <1>4, <1>5

(* The case analysis on a step that the proofs below share.                 *)
LEMMA StepCases ==
    ASSUME TypeOK, OpenIsStarted, [Next]_vars
    PROVE  \/ \E r \in Reservation, a \in Account, g \in Operation, p \in Purpose : Reserve(r, a, g, p)
           \/ \E r \in Reservation, kind \in Kind : Begin(r, kind)
           \/ \E r \in Reservation : \E o \in DOMAIN attempt[r] : \E a \in Attempt : Moves(r, o, a)
           \/ \E r \in Reservation : Renew(r) \/ \E outcome \in Outcome : Complete(r, outcome)
           \/ UNCHANGED <<reservation, lease, attempt>>
<1>1. ASSUME NEW r \in Reservation, ConfirmCreation(r) \/ AbandonCreation(r)
      PROVE  \E o \in DOMAIN attempt[r] : \E a \in Attempt : Moves(r, o, a)
  <2>1. 1 \in DOMAIN attempt[r]
    BY <1>1 DEF ConfirmCreation, AbandonCreation, InPhase
  <2>2. QED
    BY <1>1, <2>1, SettlementMoves
<1>2. ASSUME NEW r \in Reservation, NEW o \in DOMAIN attempt[r],
             \/ Authorize(r, o) \/ RefuseLocally(r, o) \/ Send(r, o) \/ CreateAnswered(r, o)
             \/ \E outcome \in Outcome : Settle(r, o, outcome) \/ SettleRefused(r, o, outcome)
      PROVE  \E a \in Attempt : Moves(r, o, a)
  BY <1>2, SettlementMoves
<1>3. CASE UNCHANGED vars
  BY <1>3 DEF vars
<1>4. CASE \/ \E r \in Reservation : Crash(r)
           \/ \E g \in Grant : Revoke(g)
           \/ \E run \in Run : Exhaust(run)
           \/ Tick
  BY <1>4 DEF Crash, Revoke, Exhaust, Tick
<1>5. QED
  BY <1>1, <1>2, <1>3, <1>4 DEF Next

LEMMA OpenStep ==
    ASSUME TypeOK, OpenIsStarted, [Next]_vars
    PROVE  OpenIsStarted'
<1>1. ASSUME NEW r \in Reservation, NEW kind \in Kind, Begin(r, kind)
      PROVE  OpenIsStarted'
  BY <1>1, BeginEffect DEF OpenIsStarted
<1>2. ASSUME NEW r \in Reservation, NEW o \in DOMAIN attempt[r], NEW a \in Attempt, Moves(r, o, a)
      PROVE  OpenIsStarted'
  BY <1>2, SetAttemptEffect DEF OpenIsStarted, Moves
<1>3. CASE UNCHANGED attempt
  BY <1>3 DEF OpenIsStarted
<1>4. QED
  BY <1>1, <1>2, <1>3, StepCases DEF Reserve, Renew, Complete

LEMMA CertainStep ==
    ASSUME IInv, [Next]_vars
    PROVE  SucceededIsCertain'
<1> USE DEF IInv
<1>1. ASSUME NEW r \in Reservation, NEW a \in Account, NEW g \in Operation, NEW p \in Purpose,
             Reserve(r, a, g, p)
      PROVE  SucceededIsCertain'
  <2>1. \A s \in Issued' : lease'[s].state = "succeeded" => s \in Issued /\ lease[s].state = "succeeded"
    <3>1. lease'[r].state = "active"
      BY <1>1, SweptType DEF Reserve
    <3>2. \A s \in Reservation : s # r => lease'[s] = Swept[s]
      BY <1>1, SweptType DEF Reserve
    <3>3. \A s \in Reservation : Swept[s].state = "succeeded" => lease[s].state = "succeeded"
      <4>1. \A l \in Lease : [l EXCEPT !.state = "expired"].state = "expired"
        BY DEF Lease
      <4>2. \A s \in Reservation : lease[s].state = "active" => lease[s] \in Lease
        BY DEF TypeOK, NoLease
      <4>3. QED
        BY <4>1, <4>2 DEF Swept
    <3>4. QED
      BY <3>1, <3>2, <3>3 DEF Issued
  <2>2. attempt' = attempt
    BY <1>1 DEF Reserve
  <2>3. QED
    BY <2>1, <2>2 DEF SucceededIsCertain
<1>2. ASSUME NEW r \in Reservation, NEW kind \in Kind, Begin(r, kind)
      PROVE  SucceededIsCertain'
  <2>1. lease[r].state = "active" /\ lease' = lease
    BY <1>2 DEF Begin, Owned, LiveLease
  <2>2. \A s \in Reservation : s # r => attempt'[s] = attempt[s]
    BY <1>2, BeginEffect
  <2>3. QED
    BY <2>1, <2>2 DEF SucceededIsCertain, Issued
<1>3. ASSUME NEW r \in Reservation, NEW o \in DOMAIN attempt[r], NEW a \in Attempt, Moves(r, o, a)
      PROVE  SucceededIsCertain'
  <2>1. lease' = lease
    BY <1>3 DEF Moves
  <2>2. \A s \in Issued : lease[s].state = "succeeded" =>
           \A q \in DOMAIN attempt'[s] : attempt'[s][q].outcome = attempt[s][q].outcome
    BY <1>3, SetAttemptEffect DEF Moves, Issued
  <2>3. \A s \in Reservation : DOMAIN attempt'[s] = DOMAIN attempt[s]
    BY <1>3, SetAttemptEffect DEF Moves
  <2>4. QED
    BY <2>1, <2>2, <2>3 DEF SucceededIsCertain, Issued
<1>4. ASSUME NEW r \in Reservation, Renew(r)
      PROVE  SucceededIsCertain'
  <2>1. lease[r] \in Lease /\ attempt' = attempt
    BY <1>4, IssuedType DEF Renew
  <2>2. \A s \in Reservation : lease'[s].state = lease[s].state
    <3>1. \A l \in Lease, t \in Nat : [l EXCEPT !.expiresAt = t].state = l.state
      BY DEF Lease
    <3>2. NewExpiry(reservation[r].account, reservation[r].grant) \in Nat
      BY <1>4, IssuedType, NewExpiryType DEF Renew, Request
    <3>3. QED
      BY <1>4, <2>1, <3>1, <3>2 DEF Renew, TypeOK
  <2>3. QED
    BY <2>1, <2>2 DEF SucceededIsCertain, Issued
<1>5. ASSUME NEW r \in Reservation, NEW outcome \in Outcome, Complete(r, outcome)
      PROVE  SucceededIsCertain'
  <2>1. lease[r] \in Lease /\ attempt' = attempt
    BY <1>5, IssuedType DEF Complete
  <2>2. \A s \in Reservation : s # r => lease'[s] = lease[s]
    BY <1>5 DEF Complete, TypeOK
  <2>3. lease'[r].state = "succeeded" => ~Unsettled(r)
    <3>1. \A l \in Lease, out \in Outcome : [l EXCEPT !.state = out].state = out
      BY DEF Lease
    <3>2. QED
      BY <1>5, <2>1, <3>1 DEF Complete, TypeOK, Outcome
  <2>4. \A o \in DOMAIN attempt[r] :
           attempt[r][o].outcome \in {"started", "succeeded", "failed", "ambiguous"}
    BY AttemptType DEF Attempt
  <2>5. QED
    BY <2>1, <2>2, <2>3, <2>4 DEF SucceededIsCertain, Issued, Unsettled
<1>6. CASE UNCHANGED <<reservation, lease, attempt>>
  BY <1>6 DEF SucceededIsCertain, Issued
<1>7. QED
  BY <1>1, <1>2, <1>3, <1>4, <1>5, <1>6, StepCases

LEMMA IInvCorrect == Spec => []IInv
<1>1. Init => IInv
  <2>1. ASSUME Init
        PROVE  OpenIsStarted /\ SucceededIsCertain
    BY <2>1 DEF Init, OpenIsStarted, SucceededIsCertain, Issued, NoLease
  <2>2. Init => TypeOK
    BY EmptySeq DEF Init, TypeOK
  <2>3. QED
    BY <2>1, <2>2 DEF IInv
<1>2. IInv /\ [Next]_vars => IInv'
  BY TypeStep, OpenStep, CertainStep DEF IInv
<1>3. QED
  BY <1>1, <1>2, PTL DEF Spec

(* No lease is ever recorded as succeeded while the outcome of one of its   *)
(* requests is unknown or ambiguous, however answers, lapses, revocations   *)
(* and crashes interleave.                                                  *)
THEOREM Certainty == Spec => []SucceededIsCertain
<1>1. IInv => SucceededIsCertain
  BY DEF IInv
<1>2. QED
  BY <1>1, IInvCorrect, PTL

-----------------------------------------------------------------------------
(* Authority                                                               *)

(* The sweep of a reservation gives nobody anything.                        *)
LEMMA SweptGainsNothing ==
    ASSUME TypeOK, NEW s \in Issued
    PROVE  /\ Swept[s].expiresAt = lease[s].expiresAt
           /\ Swept[s].state = "succeeded" => lease[s].state = "succeeded"
<1>1. /\ \A l \in Lease : [l EXCEPT !.state = "expired"].state = "expired"
      /\ \A l \in Lease : [l EXCEPT !.state = "expired"].expiresAt = l.expiresAt
  BY DEF Lease
<1>2. s \in Reservation /\ lease[s] \in Lease
  BY IssuedType
<1>3. QED
  BY <1>1, <1>2 DEF Swept

(* Whatever a step lets a reservation do, its permit holder owns at the     *)
(* instant of the step a live lease under two live grants.                  *)
LEMMA GainsOwned ==
    ASSUME IInv, [Next]_vars, NEW r \in Issued, Gains(r)
    PROVE  Owned(r)
<1> USE DEF IInv
<1>0. r \in Reservation /\ lease[r] \in Lease
  BY IssuedType
<1>1. ASSUME NEW s \in Reservation, NEW a \in Account, NEW g \in Operation, NEW p \in Purpose,
             Reserve(s, a, g, p)
      PROVE  FALSE
  <2>1. s # r /\ attempt' = attempt
    BY <1>1 DEF Reserve
  <2>2. lease'[r] = Swept[r]
    BY <1>0, <1>1, <2>1, SweptType DEF Reserve
  <2>3. QED
    BY <2>1, <2>2, SweptGainsNothing DEF Gains
<1>2. ASSUME NEW s \in Reservation, NEW kind \in Kind, Begin(s, kind)
      PROVE  Owned(r)
  <2>1. Owned(s) /\ lease' = lease
    BY <1>2 DEF Begin
  <2>2. s # r => attempt'[r] = attempt[r]
    BY <1>0, <1>2, BeginEffect
  <2>3. QED
    BY <2>1, <2>2 DEF Gains
<1>3. ASSUME NEW s \in Reservation, NEW o \in DOMAIN attempt[s], NEW a \in Attempt, Moves(s, o, a)
      PROVE  Owned(r)
  <2>1. lease' = lease /\ Len(attempt'[r]) = Len(attempt[r]) /\ DOMAIN attempt'[r] = DOMAIN attempt[r]
    BY <1>0, <1>3, SetAttemptEffect DEF Moves
  <2>2. Succeeded(attempt'[r]) # Succeeded(attempt[r])
    BY <1>0, <2>1 DEF Gains, TypeOK
  <2>3. PICK q \in DOMAIN attempt[r] :
           ~(attempt'[r][q].outcome = "succeeded" <=> attempt[r][q].outcome = "succeeded")
    BY <2>1, <2>2 DEF Succeeded
  <2>4. r = s /\ q = o /\ attempt'[r][q] = a
    BY <1>0, <1>3, <2>3, SetAttemptEffect DEF Moves
  <2>5. QED
    BY <1>3, <2>3, <2>4 DEF Moves
<1>4. ASSUME NEW s \in Reservation, Renew(s)
      PROVE  Owned(r)
  <2>1. Owned(s) /\ attempt' = attempt /\ (s # r => lease'[r] = lease[r])
    BY <1>0, <1>4 DEF Renew, TypeOK
  <2>2. QED
    BY <2>1 DEF Gains
<1>5. ASSUME NEW s \in Reservation, NEW outcome \in Outcome, Complete(s, outcome)
      PROVE  Owned(r)
  <2>1. attempt' = attempt /\ (s # r => lease'[r] = lease[r])
    BY <1>0, <1>5 DEF Complete, TypeOK
  <2>2. s = r
    BY <2>1 DEF Gains
  <2>3. /\ \A l \in Lease, out \in Outcome : [l EXCEPT !.state = out].state = out
        /\ \A l \in Lease, out \in Outcome : [l EXCEPT !.state = out].expiresAt = l.expiresAt
    BY DEF Lease
  <2>4. lease'[r].expiresAt = lease[r].expiresAt
    BY <1>0, <1>5, <2>2, <2>3 DEF Complete, TypeOK, Outcome
  <2>5. lease'[r].state = "succeeded"
    BY <2>1, <2>4 DEF Gains
  <2>6. ~Unsettled(r) /\ outcome = "succeeded"
    BY <1>0, <1>5, <2>2, <2>3, <2>5 DEF Complete, TypeOK, Outcome
  <2>7. QED
    BY <1>5, <2>2, <2>6 DEF Complete
<1>6. CASE UNCHANGED <<reservation, lease, attempt>>
  BY <1>6 DEF Gains
<1>7. QED
  BY <1>1, <1>2, <1>3, <1>4, <1>5, <1>6, StepCases

(* An owner whose lease lapsed or was taken away starts nothing, records no  *)
(* success and cannot renew, whatever the interleaving.                     *)
THEOREM StaleOwner == Spec => StaleOwnerPowerless
<1>1. IInv /\ [Next]_vars => [\A r \in Issued : ~LiveLease(r) => ~Gains(r)]_vars
  BY GainsOwned DEF Owned
<1>2. QED
  BY <1>1, IInvCorrect, PTL DEF Spec, StaleOwnerPowerless

(* Once one of its two grants is revoked or has expired, nothing starts or   *)
(* succeeds under a reservation, whatever is still in flight.               *)
THEOREM DeadGrant == Spec => DeadGrantPowerless
<1>1. IInv /\ [Next]_vars => [\A r \in Issued : ~LiveGrants(r) => ~Gains(r)]_vars
  BY GainsOwned DEF Owned
<1>2. QED
  BY <1>1, IInvCorrect, PTL DEF Spec, DeadGrantPowerless

-----------------------------------------------------------------------------
(* Money                                                                   *)

LEMMA AmountsType ==
    ASSUME NEW c \in Category, NEW p \in Purpose
    PROVE  /\ Amounts(c, p) \in [Dimension -> Nat]
           /\ \A d \in Dimension : Amounts(c, p)[d] <= SandboxAttempts
<1>1. SandboxAttempts \in Nat /\ 1 <= SandboxAttempts
  BY BoundAssumption
<1>2. \A d \in Dimension : Amounts(c, p)[d] \in Nat /\ Amounts(c, p)[d] <= SandboxAttempts
  BY <1>1 DEF Amounts, Dimension
<1>3. QED
  BY <1>2 DEF Amounts

LEMMA ReservedType ==
    ASSUME TypeOK, NEW r \in Issued, NEW d \in Dimension
    PROVE  /\ Reserved(r)[d] \in Nat
           /\ Reserved(r)[d] <= SandboxAttempts
<1>1. reservation[r] \in Request
  BY IssuedType
<1>2. CategoryOfReservation(r) \in Category /\ reservation[r].purpose \in Purpose
  BY <1>1, GrantAssumption DEF CategoryOfReservation, Request, Purpose
<1>3. QED
  BY <1>2, AmountsType DEF Reserved

(* Only finitely many units can be reserved.                                *)
LEMMA UnitsFinite ==
    ASSUME TypeOK, NEW g \in Grant, NEW d \in Dimension
    PROVE  IsFiniteSet(Units(g, d)) /\ Used(g, d) \in Nat
<1> DEFINE all == Reservation \X (1 .. SandboxAttempts)
<1>1. IsFiniteSet(1 .. SandboxAttempts)
  BY FS_Interval, BoundAssumption
<1>2. IsFiniteSet(all)
  BY <1>1, FiniteAssumption, FS_Product
<1>3. \A r \in Under(g) : {r} \X (1 .. Reserved(r)[d]) \subseteq all
  <2>1. ASSUME NEW r \in Under(g)
        PROVE  {r} \X (1 .. Reserved(r)[d]) \subseteq all
    <3>1. r \in Issued /\ r \in Reservation
      BY DEF Under, Issued
    <3>2. Reserved(r)[d] \in Nat /\ Reserved(r)[d] <= SandboxAttempts /\ SandboxAttempts \in Nat
      BY <3>1, ReservedType, BoundAssumption
    <3>3. 1 .. Reserved(r)[d] \subseteq 1 .. SandboxAttempts
      BY <3>2
    <3>4. QED
      BY <3>1, <3>3
  <2>2. QED
    BY <2>1
<1>4. Units(g, d) \subseteq all
  BY <1>3 DEF Units
<1>5. IsFiniteSet(Units(g, d))
  BY <1>2, <1>4, FS_Subset
<1>6. QED
  BY <1>5, FS_CardinalityType DEF Used

(* A reservation adds its amounts to the two grants it is made under.       *)
LEMMA ReserveUnits ==
    ASSUME TypeOK, NEW r \in Reservation, NEW a \in Account, NEW o \in Operation,
           NEW p \in Purpose, Reserve(r, a, o, p), NEW g \in Grant, NEW d \in Dimension
    PROVE  Units(g, d)' = IF g \in {a, o}
                          THEN Units(g, d) \cup ({r} \X (1 .. Amounts(CategoryOf[o], p)[d]))
                          ELSE Units(g, d)
<1>1. Issued' = Issued \cup {r}
  <2>1. \A l \in Lease : [l EXCEPT !.state = "expired"] \in Lease
    BY DEF Lease
  <2>2. \A l \in Lease \cup {NoLease} : l.state = "none" <=> l = NoLease
    BY DEF Lease, NoLease
  <2>3. \A s \in Reservation : s # r => lease'[s] = Swept[s]
    BY SweptType DEF Reserve
  <2>4. lease'[r].state = "active"
    BY SweptType DEF Reserve
  <2>5. \A s \in Reservation : Swept[s].state = "none" <=> lease[s].state = "none"
    BY <2>2, SweptType DEF TypeOK
  <2>6. QED
    BY <2>3, <2>4, <2>5 DEF Issued
<1>2. r \notin Issued
  BY DEF Reserve
<1>3. /\ reservation'[r] = [account |-> a, grant |-> o, purpose |-> p]
      /\ \A s \in Reservation : s # r => reservation'[s] = reservation[s]
  BY DEF Reserve, TypeOK
<1>4. Under(g)' = Under(g) \cup (IF g \in {a, o} THEN {r} ELSE {})
  BY <1>1, <1>2, <1>3 DEF Under, Issued
<1>5. /\ Reserved(r)' = Amounts(CategoryOf[o], p)
      /\ \A s \in Issued : Reserved(s)' = Reserved(s)
  BY <1>2, <1>3 DEF Reserved, CategoryOfReservation, Issued
<1>6. \A s \in Under(g) : s \in Issued /\ s # r
  BY <1>2 DEF Under
<1>7. QED
  BY <1>4, <1>5, <1>6 DEF Units

(* No other step touches what is reserved.                                  *)
LEMMA OtherUnits ==
    ASSUME TypeOK, reservation' = reservation, Issued' = Issued, NEW g \in Grant, NEW d \in Dimension
    PROVE  Units(g, d)' = Units(g, d)
BY DEF Units, Under, Reserved, CategoryOfReservation

(* What one reservation r of n units adds: n pairs. *)
LEMMA ColumnSize ==
    ASSUME NEW r, NEW n \in Nat
    PROVE  IsFiniteSet({r} \X (1 .. n)) /\ Cardinality({r} \X (1 .. n)) = n
<1> DEFINE S == {r}
           T == 1 .. n
<1>1. IsFiniteSet(T) /\ Cardinality(T) = n
  BY FS_Interval
<1>2. IsFiniteSet(S) /\ Cardinality(S) = 1
  BY FS_Singleton
<1> HIDE DEF S, T
<1>3. IsFiniteSet(S \X T) /\ Cardinality(S \X T) = Cardinality(S) * Cardinality(T)
  BY <1>1, <1>2, FS_Product
<1>4. Cardinality(S \X T) = n
  BY <1>1, <1>2, <1>3
<1>5. QED
  BY <1>3, <1>4 DEF S, T

LEMMA BudgetStep ==
    ASSUME IInv, BudgetNeverExceeded, [Next]_vars
    PROVE  BudgetNeverExceeded'
<1> USE DEF IInv
<1>1. SUFFICES ASSUME NEW g \in Grant, NEW d \in Dimension
               PROVE  (Used(g, d) <= Budget[g][d])'
  BY DEF BudgetNeverExceeded
<1>2. Used(g, d) <= Budget[g][d] /\ Used(g, d) \in Nat
  BY UnitsFinite DEF BudgetNeverExceeded
<1>3. ASSUME NEW r \in Reservation, NEW a \in Account, NEW o \in Operation, NEW p \in Purpose,
             Reserve(r, a, o, p)
      PROVE  (Used(g, d) <= Budget[g][d])'
  <2>1. CASE g \notin {a, o}
    BY <1>2, <1>3, <2>1, ReserveUnits DEF Used
  <2>2. CASE g \in {a, o}
    <3> DEFINE n == Amounts(CategoryOf[o], p)[d]
               new == {r} \X (1 .. n)
    <3>1. n \in Nat
      BY AmountsType, GrantAssumption
    <3>2. Used(g, d) + n <= Budget[g][d]
      BY <1>3, <2>2 DEF Reserve, Fits
    <3>3. IsFiniteSet(new) /\ Cardinality(new) = n
      BY <3>1, ColumnSize
    <3>4. IsFiniteSet(Units(g, d))
      BY UnitsFinite
    <3>5. /\ Cardinality(Units(g, d) \cap new) \in Nat
          /\ Cardinality(Units(g, d) \cup new) =
                Cardinality(Units(g, d)) + Cardinality(new) - Cardinality(Units(g, d) \cap new)
      <4>1. IsFiniteSet(Units(g, d) \cap new)
        BY <3>4, FS_Intersection, <3>3
      <4>2. QED
        BY <3>3, <3>4, <4>1, FS_Union, FS_CardinalityType
    <3>6. Cardinality(Units(g, d) \cup new) <= Used(g, d) + n
      BY <1>2, <3>1, <3>3, <3>5 DEF Used
    <3>7. Budget[g][d] \in Nat
      BY GrantAssumption
    <3>8. Units(g, d)' = Units(g, d) \cup new
      BY <1>3, <2>2, ReserveUnits
    <3>9. IsFiniteSet(Units(g, d) \cup new) /\ Cardinality(Units(g, d) \cup new) \in Nat
      BY <3>3, <3>4, FS_Union, FS_CardinalityType
    <3>10. Used(g, d)' = Cardinality(Units(g, d) \cup new)
      BY <3>8 DEF Used
    <3> HIDE DEF n, new
    <3>11. QED
      BY <1>2, <3>1, <3>2, <3>6, <3>7, <3>9, <3>10
  <2>3. QED
    BY <2>1, <2>2
<1>4. ASSUME reservation' = reservation, Issued' = Issued
      PROVE  (Used(g, d) <= Budget[g][d])'
  BY <1>2, <1>4, OtherUnits DEF Used
<1>5. ASSUME NEW r \in Reservation, NEW kind \in Kind, Begin(r, kind)
      PROVE  (Used(g, d) <= Budget[g][d])'
  BY <1>4, <1>5 DEF Begin, Issued
<1>6. ASSUME NEW r \in Reservation, NEW o \in DOMAIN attempt[r], NEW a \in Attempt, Moves(r, o, a)
      PROVE  (Used(g, d) <= Budget[g][d])'
  BY <1>4, <1>6 DEF Moves, Issued
<1>7. ASSUME NEW r \in Reservation, NEW outcome \in Outcome, Renew(r) \/ Complete(r, outcome)
      PROVE  (Used(g, d) <= Budget[g][d])'
  <2>1. r \in Issued /\ lease[r] \in Lease
    BY <1>7, IssuedType DEF Renew, Complete
  <2>2. /\ \A l \in Lease : \A t : [l EXCEPT !.expiresAt = t].state # "none"
        /\ \A l \in Lease, out \in Outcome : [l EXCEPT !.state = out].state # "none"
    BY DEF Lease, Outcome
  <2>3. lease'[r].state # "none" /\ reservation' = reservation
    <3>1. CASE Renew(r)
      <4>1. lease'[r] = [lease[r] EXCEPT !.expiresAt =
                            NewExpiry(reservation[r].account, reservation[r].grant)]
        BY <2>1, <3>1 DEF Renew, TypeOK, Issued
      <4>2. QED
        BY <2>1, <2>2, <3>1, <4>1 DEF Renew
    <3>2. CASE Complete(r, outcome)
      <4>1. PICK out \in Outcome : lease'[r] = [lease[r] EXCEPT !.state = out]
        BY <2>1, <3>2 DEF Complete, TypeOK, Issued, Outcome
      <4>2. QED
        BY <2>1, <2>2, <3>2, <4>1 DEF Complete
    <3>3. QED
      BY <1>7, <3>1, <3>2
  <2>4. \A s \in Reservation : s # r => lease'[s] = lease[s]
    BY <1>7 DEF Renew, Complete, TypeOK
  <2>5. Issued' = Issued
    BY <2>1, <2>3, <2>4 DEF Issued
  <2>6. QED
    BY <1>4, <2>3, <2>5
<1>8. CASE UNCHANGED <<reservation, lease, attempt>>
  BY <1>4, <1>8 DEF Issued
<1>9. QED
  BY <1>3, <1>5, <1>6, <1>7, <1>8, StepCases DEF Outcome

(* For every set of grants, no grant is ever over-spent in any dimension:    *)
(* not by concurrent reservations, and not by retries after crashes.        *)
THEOREM BudgetSafe == Spec => []BudgetNeverExceeded
<1>1. Init => BudgetNeverExceeded
  <2>1. SUFFICES ASSUME Init, NEW g \in Grant, NEW d \in Dimension
                 PROVE  Used(g, d) <= Budget[g][d]
    BY DEF BudgetNeverExceeded
  <2>2. Issued = {}
    <3>1. \A r \in Reservation : lease[r] = NoLease
      BY <2>1 DEF Init
    <3>2. QED
      BY <3>1 DEF Issued, NoLease
  <2>3. Under(g) = {}
    BY <2>2 DEF Under
  <2>4. Units(g, d) = {}
    <3>1. {{r} \X (1 .. Reserved(r)[d]) : r \in {}} = {}
      OBVIOUS
    <3>2. QED
      BY <2>3, <3>1, Zenon DEF Units
  <2>5. Used(g, d) = 0
    BY <2>4, FS_EmptySet DEF Used
  <2>6. QED
    BY <2>5, GrantAssumption
<1>2. IInv /\ BudgetNeverExceeded /\ [Next]_vars => BudgetNeverExceeded'
  BY BudgetStep
<1>3. QED
  BY <1>1, <1>2, IInvCorrect, PTL DEF Spec

-----------------------------------------------------------------------------
(* From here on, several reservations at once: slots, the fence of an       *)
(* ambiguous run, what reaches the provider, the ledger that the authority  *)
(* implements, and the hint the pages show.                                 *)

-----------------------------------------------------------------------------
(* What a step of an attempt may do, beside what Moves says of its outcome: *)
(* the holder of the permit moves it; business succeeds only for a run that *)
(* is allowed business; and a request reaches the wire once, when it is     *)
(* authorized.                                                              *)
Progress(r, o, a) ==
    LET b == attempt[r][o]
    IN  /\ Moves(r, o, a) /\ UNCHANGED now
        /\ r \in Issued /\ permit[r] = "held"
        /\ a.kind = b.kind
        /\ a.outcome = "succeeded" /\ b.outcome # "succeeded" =>
              a.kind = "cleanup" \/ BusinessAllowedFor(r)
        /\ a.onWire # b.onWire => b.phase = "authorized"
        /\ a.phase \in {"admitted", "authorized"} => b.phase = "admitted" /\ a.onWire = b.onWire

(* Every step of an attempt but its start makes such progress.              *)
LEMMA SettlementProgress ==
    ASSUME TypeOK, OpenIsStarted, NEW r \in Reservation, NEW o \in DOMAIN attempt[r],
           \/ Authorize(r, o) \/ RefuseLocally(r, o) \/ Send(r, o) \/ CreateAnswered(r, o)
           \/ \E outcome \in Outcome : Settle(r, o, outcome) \/ SettleRefused(r, o, outcome)
           \/ o = 1 /\ (ConfirmCreation(r) \/ AbandonCreation(r))
    PROVE  \E a \in Attempt : Progress(r, o, a)
<1> DEFINE b == attempt[r][o]
<1>0. b \in Attempt
  BY AttemptType
<1>1. PICK a \in Attempt : Moves(r, o, a)
  BY SettlementMoves
<1>2. /\ attempt' = [attempt EXCEPT ![r][o] = a]
      /\ attempt'[r][o] = a
  BY <1>1, SetAttemptEffect DEF Moves, SetAttempt
<1>3. ASSUME NEW c \in Attempt, SetAttempt(r, o, c)
      PROVE  a = c
  BY <1>2, <1>3, SetAttemptEffect
<1>4. ASSUME NEW p \in {"authorized", "sent", "confirming", "done"},
             NEW out \in {"started", "succeeded", "failed", "ambiguous"}
      PROVE  /\ [b EXCEPT !.phase = p] \in Attempt
             /\ [b EXCEPT !.phase = p, !.onWire = TRUE] \in Attempt
             /\ [b EXCEPT !.phase = p, !.outcome = out] \in Attempt
             /\ [b EXCEPT !.phase = p].kind = b.kind
             /\ [b EXCEPT !.phase = p, !.onWire = TRUE].kind = b.kind
             /\ [b EXCEPT !.phase = p, !.outcome = out].kind = b.kind
             /\ [b EXCEPT !.phase = p].onWire = b.onWire
             /\ [b EXCEPT !.phase = p, !.outcome = out].onWire = b.onWire
             /\ [b EXCEPT !.phase = p].outcome = b.outcome
             /\ [b EXCEPT !.phase = p, !.onWire = TRUE].outcome = b.outcome
             /\ [b EXCEPT !.phase = p, !.outcome = out].outcome = out
             /\ [b EXCEPT !.phase = p].phase = p
             /\ [b EXCEPT !.phase = p, !.onWire = TRUE].phase = p
             /\ [b EXCEPT !.phase = p, !.outcome = out].phase = p
  BY <1>0 DEF Attempt
<1>5. ASSUME r \in Issued, permit[r] = "held", now' = now, a.kind = b.kind,
             a.outcome = "succeeded" /\ b.outcome # "succeeded" =>
                a.kind = "cleanup" \/ BusinessAllowedFor(r),
             a.onWire # b.onWire => b.phase = "authorized",
             a.phase \in {"admitted", "authorized"} => b.phase = "admitted" /\ a.onWire = b.onWire
      PROVE  \E c \in Attempt : Progress(r, o, c)
  <2>1. Progress(r, o, a)
    BY <1>1, <1>5 DEF Progress
  <2>2. QED
    BY <2>1
<1>6. CASE Authorize(r, o)
  <2>1. a = [b EXCEPT !.phase = "authorized"]
    BY <1>3, <1>4, <1>6 DEF Authorize
  <2>2. a.kind = b.kind /\ a.outcome = b.outcome /\ a.onWire = b.onWire
    BY <1>4, <2>1
  <2>3. r \in Issued /\ permit[r] = "held" /\ now' = now /\ b.phase = "admitted"
    BY <1>6 DEF Authorize, InPhase, OnlyAttemptChanges
  <2>4. QED
    BY <1>5, <2>2, <2>3
<1>7. CASE RefuseLocally(r, o)
  <2>1. PICK out \in {"failed", b.outcome} : a = [b EXCEPT !.phase = "done", !.outcome = out]
    <3>1. CASE OwnedForFailure(r)
      <4>1. SetAttempt(r, o, [b EXCEPT !.phase = "done", !.outcome = "failed"])
        BY <1>7, <3>1 DEF RefuseLocally, SetAttempt
      <4>2. [b EXCEPT !.phase = "done", !.outcome = "failed"] \in Attempt
        BY <1>4
      <4>3. QED
        BY <1>3, <4>1, <4>2
    <3>2. CASE ~OwnedForFailure(r)
      <4>1. SetAttempt(r, o, [b EXCEPT !.phase = "done", !.outcome = b.outcome])
        BY <1>7, <3>2 DEF RefuseLocally, SetAttempt
      <4>2. b.outcome \in {"started", "succeeded", "failed", "ambiguous"}
        BY <1>0 DEF Attempt
      <4>3. [b EXCEPT !.phase = "done", !.outcome = b.outcome] \in Attempt
        BY <1>4, <4>2
      <4>4. QED
        BY <1>3, <4>1, <4>3
    <3>3. QED
      BY <3>1, <3>2
  <2>2. out \in {"started", "succeeded", "failed", "ambiguous"}
    BY <1>0 DEF Attempt
  <2>3. a.kind = b.kind /\ a.outcome = out /\ a.onWire = b.onWire /\ a.phase = "done"
    BY <1>4, <2>1, <2>2
  <2>4. r \in Issued /\ permit[r] = "held" /\ now' = now
    BY <1>7 DEF RefuseLocally, InPhase, OnlyAttemptChanges
  <2>5. QED
    BY <1>5, <2>3, <2>4
<1>8. CASE Send(r, o)
  <2>1. a = [b EXCEPT !.phase = "sent", !.onWire = TRUE]
    BY <1>3, <1>4, <1>8 DEF Send
  <2>2. a.kind = b.kind /\ a.outcome = b.outcome /\ a.phase = "sent"
    BY <1>4, <2>1
  <2>3. r \in Issued /\ permit[r] = "held" /\ now' = now /\ b.phase = "authorized"
    BY <1>8 DEF Send, InPhase, OnlyAttemptChanges
  <2>4. QED
    BY <1>5, <2>2, <2>3
<1>9. CASE CreateAnswered(r, o)
  <2>1. a = [b EXCEPT !.phase = "confirming"]
    BY <1>3, <1>4, <1>9 DEF CreateAnswered
  <2>2. a.kind = b.kind /\ a.outcome = b.outcome /\ a.onWire = b.onWire /\ a.phase = "confirming"
    BY <1>4, <2>1
  <2>3. r \in Issued /\ permit[r] = "held" /\ now' = now
    BY <1>9 DEF CreateAnswered, InPhase, OnlyAttemptChanges
  <2>4. QED
    BY <1>5, <2>2, <2>3
<1>10. ASSUME NEW outcome \in Outcome, Settle(r, o, outcome)
       PROVE  \E c \in Attempt : Progress(r, o, c)
  <2>1. outcome \in {"started", "succeeded", "failed", "ambiguous"}
    BY DEF Outcome
  <2>2. a = [b EXCEPT !.phase = "done", !.outcome = outcome]
    BY <1>3, <1>4, <1>10, <2>1 DEF Settle
  <2>3. a.kind = b.kind /\ a.outcome = outcome /\ a.onWire = b.onWire /\ a.phase = "done"
    BY <1>4, <2>1, <2>2
  <2>4. r \in Issued /\ permit[r] = "held" /\ now' = now
    BY <1>10 DEF Settle, Answered, InPhase
  <2>5. outcome = "succeeded" => b.kind = "cleanup" \/ BusinessAllowedFor(r)
    BY <1>10 DEF Settle, FinishCommits
  <2>6. QED
    BY <1>5, <2>3, <2>4, <2>5
<1>11. ASSUME NEW outcome \in Outcome, SettleRefused(r, o, outcome)
       PROVE  \E c \in Attempt : Progress(r, o, c)
  <2>1. a = [b EXCEPT !.phase = "done"]
    BY <1>3, <1>4, <1>11 DEF SettleRefused
  <2>2. a.kind = b.kind /\ a.outcome = b.outcome /\ a.onWire = b.onWire /\ a.phase = "done"
    BY <1>4, <2>1
  <2>3. r \in Issued /\ permit[r] = "held" /\ now' = now
    BY <1>11 DEF SettleRefused, Answered, InPhase, OnlyAttemptChanges
  <2>4. QED
    BY <1>5, <2>2, <2>3
<1>12. CASE o = 1 /\ ConfirmCreation(r)
  <2>1. r \in Issued /\ permit[r] = "held" /\ now' = now
    BY <1>12 DEF ConfirmCreation, InPhase
  <2>2. CASE BusinessAllowedFor(r)
    <3>1. SetAttempt(r, o, [b EXCEPT !.phase = "done", !.outcome = "succeeded"])
      BY <1>12, <2>2 DEF ConfirmCreation, SetAttempt
    <3>2. a = [b EXCEPT !.phase = "done", !.outcome = "succeeded"]
      BY <1>3, <1>4, <3>1
    <3>3. a.kind = b.kind /\ a.onWire = b.onWire /\ a.phase = "done"
      BY <1>4, <3>2
    <3>4. QED
      BY <1>5, <2>1, <2>2, <3>3
  <2>3. CASE ~BusinessAllowedFor(r)
    <3>1. SetAttempt(r, o, [b EXCEPT !.phase = "done", !.outcome = b.outcome])
      BY <1>12, <2>3 DEF ConfirmCreation, SetAttempt
    <3>2. b.outcome \in {"started", "succeeded", "failed", "ambiguous"}
      BY <1>0 DEF Attempt
    <3>3. a = [b EXCEPT !.phase = "done", !.outcome = b.outcome]
      BY <1>3, <1>4, <3>1, <3>2
    <3>4. a.kind = b.kind /\ a.outcome = b.outcome /\ a.onWire = b.onWire /\ a.phase = "done"
      BY <1>4, <3>2, <3>3
    <3>5. QED
      BY <1>5, <2>1, <3>4
  <2>4. QED
    BY <2>2, <2>3
<1>13. CASE o = 1 /\ AbandonCreation(r)
  <2>1. a = [b EXCEPT !.phase = "done", !.outcome = "ambiguous"]
    BY <1>3, <1>4, <1>13 DEF AbandonCreation
  <2>2. a.kind = b.kind /\ a.outcome = "ambiguous" /\ a.onWire = b.onWire /\ a.phase = "done"
    BY <1>4, <2>1
  <2>3. r \in Issued /\ permit[r] = "held" /\ now' = now
    BY <1>13 DEF AbandonCreation, InPhase, OnlyAttemptChanges
  <2>4. QED
    BY <1>5, <2>2, <2>3
<1>14. QED
  BY <1>6, <1>7, <1>8, <1>9, <1>10, <1>11, <1>12, <1>13

(* A step that touches no row leaves the clock no earlier, and no permit    *)
(* that was lost is found again.                                            *)
Elapses ==
    /\ UNCHANGED <<reservation, lease, attempt>>
    /\ now' \in Nat /\ now <= now'
    /\ \A r \in Reservation : permit[r] = "lost" => permit'[r] = "lost"

(* The case analysis on a step that the proofs below share.                 *)
LEMMA Steps ==
    ASSUME IInv, [Next]_vars
    PROVE  \/ \E r \in Reservation, a \in Account, g \in Operation, p \in Purpose : Reserve(r, a, g, p)
           \/ \E r \in Reservation, kind \in Kind : Begin(r, kind)
           \/ \E r \in Reservation : \E o \in DOMAIN attempt[r] : \E a \in Attempt : Progress(r, o, a)
           \/ \E r \in Reservation : Renew(r) \/ \E outcome \in Outcome : Complete(r, outcome)
           \/ Elapses
<1> USE DEF IInv
<1>0. now \in Nat
  BY DEF TypeOK
<1>1. ASSUME NEW r \in Reservation, ConfirmCreation(r) \/ AbandonCreation(r)
      PROVE  \E o \in DOMAIN attempt[r] : \E a \in Attempt : Progress(r, o, a)
  <2>1. 1 \in DOMAIN attempt[r]
    BY <1>1 DEF ConfirmCreation, AbandonCreation, InPhase
  <2>2. QED
    BY <1>1, <2>1, SettlementProgress
<1>2. ASSUME NEW r \in Reservation, NEW o \in DOMAIN attempt[r],
             \/ Authorize(r, o) \/ RefuseLocally(r, o) \/ Send(r, o) \/ CreateAnswered(r, o)
             \/ \E outcome \in Outcome : Settle(r, o, outcome) \/ SettleRefused(r, o, outcome)
      PROVE  \E a \in Attempt : Progress(r, o, a)
  BY <1>2, SettlementProgress
<1>3. CASE UNCHANGED vars
  BY <1>0, <1>3 DEF vars, Elapses
<1>4. ASSUME NEW r \in Reservation, Crash(r)
      PROVE  Elapses
  BY <1>0, <1>4 DEF Crash, Elapses, TypeOK
<1>5. CASE (\E g \in Grant : Revoke(g)) \/ (\E run \in Run : Exhaust(run)) \/ Tick
  BY <1>0, <1>5 DEF Revoke, Exhaust, Tick, Elapses
<1>6. QED
  BY <1>1, <1>2, <1>3, <1>4, <1>5 DEF Next

-----------------------------------------------------------------------------
(* What a step leaves of the rows                                          *)

LEMMA ReserveRows ==
    ASSUME TypeOK, NEW r \in Reservation, NEW a \in Account, NEW g \in Operation,
           NEW p \in Purpose, Reserve(r, a, g, p)
    PROVE  /\ r \notin Issued /\ Issued' = Issued \cup {r}
           /\ reservation'[r] = [account |-> a, grant |-> g, purpose |-> p]
           /\ lease'[r].state = "active"
           /\ \A s \in Reservation : s # r =>
                 reservation'[s] = reservation[s] /\ permit'[s] = permit[s] /\ lease'[s] = Swept[s]
<1>1. /\ lease'[r].state = "active"
      /\ \A s \in Reservation : s # r => lease'[s] = Swept[s]
  BY SweptType DEF Reserve
<1>2. \A l \in Lease \cup {NoLease} : l.state = "none" <=> l = NoLease
  BY DEF Lease, NoLease
<1>3. \A s \in Reservation : Swept[s].state = "none" <=> lease[s].state = "none"
  BY <1>2, SweptType DEF TypeOK
<1>4. Issued' = Issued \cup {r}
  BY <1>1, <1>3 DEF Issued
<1>5. QED
  BY <1>1, <1>4 DEF Reserve, TypeOK

(* A lease is renewed, or ended, by its owner; no other row changes.        *)
LEMMA LeaseRows ==
    ASSUME TypeOK, NEW r \in Reservation,
           Renew(r) \/ \E outcome \in Outcome : Complete(r, outcome)
    PROVE  /\ r \in Issued /\ lease[r].state = "active" /\ permit[r] = "held"
           /\ UNCHANGED <<now, reservation, attempt, permit>>
           /\ \A s \in Reservation : s # r => lease'[s] = lease[s]
           /\ lease'[r].state # "none"
           /\ lease'[r].state = "active" => LiveLease(r)
           /\ lease'[r].state = "succeeded" => IsRecovery(r) \/ BusinessAllowedFor(r)
<1>1. r \in Issued
  BY DEF Renew, Complete
<1>2. lease[r] \in Lease /\ reservation[r] \in Request
  BY <1>1, IssuedType
<1>3. /\ \A l \in Lease : \A t : [l EXCEPT !.expiresAt = t].state = l.state
      /\ \A l \in Lease, out \in Outcome : [l EXCEPT !.state = out].state = out
      /\ \A l \in Lease : l.state # "none"
  BY DEF Lease, Outcome
<1>4. CASE Renew(r)
  <2>1. lease'[r] = [lease[r] EXCEPT !.expiresAt =
                        NewExpiry(reservation[r].account, reservation[r].grant)]
    BY <1>4 DEF Renew, TypeOK
  <2>2. LiveLease(r) /\ permit[r] = "held" /\ lease[r].state = "active"
    BY <1>4 DEF Renew, Owned, LiveLease
  <2>3. lease'[r].state = "active"
    BY <1>2, <1>3, <2>1, <2>2
  <2>4. UNCHANGED <<now, reservation, attempt, permit>>
    BY <1>4 DEF Renew
  <2>5. \A s \in Reservation : s # r => lease'[s] = lease[s]
    BY <1>4 DEF Renew, TypeOK
  <2>6. QED
    BY <1>1, <2>2, <2>3, <2>4, <2>5
<1>5. ASSUME NEW requested \in Outcome, Complete(r, requested)
      PROVE  /\ lease[r].state = "active" /\ permit[r] = "held"
             /\ UNCHANGED <<now, reservation, attempt, permit>>
             /\ \A s \in Reservation : s # r => lease'[s] = lease[s]
             /\ lease'[r].state \in Outcome
             /\ lease'[r].state = "succeeded" => IsRecovery(r) \/ BusinessAllowedFor(r)
  <2> DEFINE outcome == IF Unsettled(r) THEN "ambiguous" ELSE requested
  <2>1. outcome \in Outcome
    BY DEF Outcome
  <2>2. /\ lease' = [lease EXCEPT ![r].state = outcome]
        /\ UNCHANGED <<now, reservation, attempt, permit>>
        /\ IF outcome = "succeeded" THEN Owned(r) /\ (IsRecovery(r) \/ BusinessAllowedFor(r))
           ELSE OwnedForFailure(r)
    BY <1>5 DEF Complete
  <2> HIDE DEF outcome
  <2>3. lease' = [lease EXCEPT ![r] = [lease[r] EXCEPT !.state = outcome]]
    BY <2>2
  <2>4. lease'[r] = [lease[r] EXCEPT !.state = outcome]
    BY <2>3 DEF TypeOK
  <2>5. lease'[r].state = outcome
    BY <1>2, <1>3, <2>1, <2>4
  <2>6. \A s \in Reservation : s # r => lease'[s] = lease[s]
    BY <2>3 DEF TypeOK
  <2>7. lease[r].state = "active" /\ permit[r] = "held"
    BY <2>2 DEF Owned, OwnedForFailure, LiveLease
  <2>8. QED
    BY <2>1, <2>2, <2>5, <2>6, <2>7
<1>6. QED
  BY <1>1, <1>4, <1>5 DEF Outcome

(* An issued reservation stays what it is, a lease that has lapsed or ended  *)
(* stays so, and so does the loss of a permit.                              *)
LEMMA RowKept ==
    ASSUME IInv, [Next]_vars, NEW s \in Issued
    PROVE  /\ s \in Issued' /\ reservation'[s] = reservation[s]
           /\ LiveLease(s)' => LiveLease(s)
           /\ lease[s].state # "active" => lease'[s].state = lease[s].state
           /\ permit[s] = "lost" => permit'[s] = "lost"
<1> USE DEF IInv
<1>0. s \in Reservation /\ lease[s] \in Lease /\ now \in Nat
  BY IssuedType DEF TypeOK
<1>1. ASSUME UNCHANGED <<reservation, lease>>, now' \in Nat, now <= now'
      PROVE  s \in Issued' /\ reservation'[s] = reservation[s] /\ (LiveLease(s)' => LiveLease(s))
  <2>1. s \in Issued'
    BY <1>1 DEF Issued
  <2>2. lease[s].expiresAt \in Nat
    BY <1>0 DEF Lease
  <2>3. LiveLease(s)' => LiveLease(s)
    BY <1>0, <1>1, <2>2 DEF LiveLease, Fresh
  <2>4. QED
    BY <1>1, <2>1, <2>3
<1>2. ASSUME NEW r \in Reservation, NEW a \in Account, NEW g \in Operation, NEW p \in Purpose,
             Reserve(r, a, g, p)
      PROVE  /\ s \in Issued' /\ reservation'[s] = reservation[s] /\ permit'[s] = permit[s]
             /\ LiveLease(s)' => LiveLease(s)
             /\ lease[s].state # "active" => lease'[s].state = lease[s].state
  <2>0. /\ r \notin Issued /\ Issued' = Issued \cup {r}
        /\ \A q \in Reservation : q # r =>
              reservation'[q] = reservation[q] /\ permit'[q] = permit[q] /\ lease'[q] = Swept[q]
    BY <1>2, ReserveRows
  <2>1. s # r /\ s \in Issued' /\ lease'[s] = Swept[s] /\ now' = now
    BY <1>0, <1>2, <2>0 DEF Reserve
  <2>2. \A l \in Lease : [l EXCEPT !.state = "expired"].state = "expired"
    BY DEF Lease
  <2>3. lease'[s] = IF lease[s].state = "active" /\ ~Fresh(s)
                    THEN [lease[s] EXCEPT !.state = "expired"] ELSE lease[s]
    BY <1>0, <2>1 DEF Swept
  <2>4. LiveLease(s)' => LiveLease(s)
    BY <1>0, <2>1, <2>2, <2>3 DEF LiveLease, Fresh
  <2>5. QED
    BY <1>0, <2>0, <2>1, <2>3, <2>4
<1>3. ASSUME NEW r \in Reservation, NEW kind \in Kind, Begin(r, kind)
      PROVE  UNCHANGED <<now, reservation, lease, permit>>
  BY <1>3 DEF Begin
<1>4. ASSUME NEW r \in Reservation, NEW o \in DOMAIN attempt[r], NEW a \in Attempt, Progress(r, o, a)
      PROVE  UNCHANGED <<now, reservation, lease, permit>>
  BY <1>4 DEF Progress, Moves
<1>5. ASSUME NEW r \in Reservation, Renew(r) \/ \E outcome \in Outcome : Complete(r, outcome)
      PROVE  /\ s \in Issued' /\ reservation'[s] = reservation[s] /\ permit'[s] = permit[s]
             /\ LiveLease(s)' => LiveLease(s)
             /\ lease[s].state # "active" => lease'[s].state = lease[s].state
  <2>1. CASE s = r
    <3>1. s \in Issued'
      BY <1>0, <1>5, <2>1, LeaseRows DEF Issued
    <3>2. QED
      BY <1>5, <2>1, <3>1, LeaseRows DEF LiveLease
  <2>2. CASE s # r
    <3>1. lease'[s] = lease[s] /\ UNCHANGED <<now, reservation, permit>>
      BY <1>0, <1>5, <2>2, LeaseRows
    <3>2. s \in Issued'
      BY <1>0, <3>1 DEF Issued
    <3>3. QED
      BY <3>1, <3>2 DEF LiveLease, Fresh
  <2>3. QED
    BY <2>1, <2>2
<1>6. CASE Elapses
  BY <1>0, <1>1, <1>6 DEF Elapses
<1>7. QED
  BY <1>0, <1>1, <1>2, <1>3, <1>4, <1>5, <1>6, Steps

(* A reservation is issued by reserve alone.                                *)
LEMMA IssuedBy ==
    ASSUME IInv, [Next]_vars
    PROVE  \/ Issued' = Issued
           \/ \E r \in Reservation, a \in Account, g \in Operation, p \in Purpose : Reserve(r, a, g, p)
<1> USE DEF IInv
<1>1. ASSUME NEW r \in Reservation, Renew(r) \/ \E outcome \in Outcome : Complete(r, outcome)
      PROVE  Issued' = Issued
  BY <1>1, LeaseRows DEF Issued
<1>2. ASSUME lease' = lease
      PROVE  Issued' = Issued
  BY <1>2 DEF Issued
<1>3. QED
  BY <1>1, <1>2, Steps DEF Begin, Progress, Moves, Elapses

-----------------------------------------------------------------------------
(* Slots                                                                   *)

Slots(a) == {r \in Under(a) : LiveLease(r)}

LEMMA ConcurrencyStep ==
    ASSUME IInv, ConcurrencyBound, [Next]_vars
    PROVE  ConcurrencyBound'
<1> USE DEF IInv
<1>1. SUFFICES ASSUME NEW a \in Account
               PROVE  Cardinality(Slots(a)') <= MaxConcurrent[a]
  BY DEF ConcurrencyBound, Slots
<1>2. /\ MaxConcurrent[a] \in Nat /\ Cardinality(Slots(a)) <= MaxConcurrent[a]
      /\ Slots(a) \subseteq Reservation /\ Issued \subseteq Reservation
  BY GrantAssumption DEF ConcurrencyBound, Slots, Under, Issued
<1>3. IsFiniteSet(Slots(a)) /\ Cardinality(Slots(a)) \in Nat
  BY <1>2, FiniteAssumption, FS_Subset, FS_CardinalityType
<1>4. ASSUME Slots(a)' \subseteq Slots(a)
      PROVE  Cardinality(Slots(a)') <= MaxConcurrent[a]
  <2>1. Cardinality(Slots(a)') <= Cardinality(Slots(a)) /\ Cardinality(Slots(a)') \in Nat
    BY <1>3, <1>4, FS_Subset, FS_CardinalityType
  <2>2. QED
    BY <1>2, <1>3, <2>1
<1>5. \A s \in Issued : s \in Slots(a)' => s \in Slots(a)
  BY RowKept DEF Slots, Under
<1>6. Slots(a)' \subseteq Issued'
  BY DEF Slots, Under
<1>7. CASE Issued' = Issued
  BY <1>4, <1>5, <1>6, <1>7
<1>8. ASSUME NEW r \in Reservation, NEW b \in Account, NEW g \in Operation, NEW p \in Purpose,
             Reserve(r, b, g, p)
      PROVE  Cardinality(Slots(a)') <= MaxConcurrent[a]
  <2>0. /\ Issued' = Issued \cup {r}
        /\ reservation'[r] = [account |-> b, grant |-> g, purpose |-> p]
    BY <1>8, ReserveRows
  <2>1. Issued' = Issued \cup {r} /\ reservation'[r].account = b /\ reservation'[r].grant = g
    BY <2>0
  <2>2. CASE a # b
    <3>1. a # g
      BY GrantAssumption
    <3>2. r \notin Slots(a)'
      BY <2>1, <2>2, <3>1 DEF Slots, Under
    <3>3. QED
      BY <1>4, <1>5, <1>6, <2>1, <3>2
  <2>3. CASE a = b
    <3> DEFINE live == {s \in Reservation : LiveLease(s)}
    <3>1. IsFiniteSet(live) /\ Cardinality(live) \in Nat
      BY FiniteAssumption, FS_Subset, FS_CardinalityType
    <3>2. Cardinality(live) < MaxConcurrent[a]
      BY <1>8, <2>3 DEF Reserve, SlotFree, LiveLeases
    <3>3. Slots(a)' \subseteq live \cup {r}
      BY <1>2, <1>5, <1>6, <2>1 DEF Slots
    <3> HIDE DEF live
    <3>4. IsFiniteSet(live \cup {r}) /\ Cardinality(live \cup {r}) <= Cardinality(live) + 1
      BY <3>1, FS_AddElement
    <3>5. /\ Cardinality(Slots(a)') <= Cardinality(live \cup {r})
          /\ Cardinality(Slots(a)') \in Nat /\ Cardinality(live \cup {r}) \in Nat
      BY <3>3, <3>4, FS_Subset, FS_CardinalityType
    <3>6. QED
      BY <1>2, <3>1, <3>2, <3>4, <3>5
  <2>4. QED
    BY <2>2, <2>3
<1>9. QED
  BY <1>7, <1>8, IssuedBy

(* The live leases of an account never outnumber its concurrency, whatever  *)
(* lapses, renewals and reservations interleave (authority.ts:230).         *)
THEOREM SlotsBounded == Spec => []ConcurrencyBound
<1>1. Init => ConcurrencyBound
  <2>1. SUFFICES ASSUME Init, NEW a \in Account
                 PROVE  Cardinality(Slots(a)) <= MaxConcurrent[a]
    BY DEF ConcurrencyBound, Slots
  <2>2. Slots(a) = {}
    <3>1. \A r \in Reservation : lease[r].state = "none"
      BY <2>1 DEF Init, NoLease
    <3>2. QED
      BY <3>1 DEF Slots, Under, Issued
  <2>3. QED
    BY <2>2, FS_EmptySet, GrantAssumption
<1>2. IInv /\ ConcurrencyBound /\ [Next]_vars => ConcurrencyBound'
  BY ConcurrencyStep
<1>3. QED
  BY <1>1, <1>2, IInvCorrect, PTL DEF Spec

-----------------------------------------------------------------------------
(* The fence                                                               *)

(* An attempt starts last, of the kind asked for, off the wire.             *)
LEMMA BeginAppends ==
    ASSUME TypeOK, NEW r \in Reservation, NEW kind \in Kind, Begin(r, kind)
    PROVE  \A o \in DOMAIN attempt'[r] \ DOMAIN attempt[r] :
              /\ o = Len(attempt[r]) + 1
              /\ attempt'[r][o].kind = kind /\ ~attempt'[r][o].onWire
<1> DEFINE new == [kind |-> kind, outcome |-> "started", phase |-> "admitted", onWire |-> FALSE]
<1>1. new \in Attempt /\ new.kind = kind /\ ~new.onWire
  BY DEF Attempt
<1>2. attempt'[r] = Append(attempt[r], new) /\ attempt[r] \in Seq(Attempt)
  BY DEF Begin, TypeOK
<1> HIDE DEF new
<1>3. /\ Append(attempt[r], new) \in Seq(Attempt)
      /\ Len(Append(attempt[r], new)) = Len(attempt[r]) + 1
      /\ Append(attempt[r], new)[Len(attempt[r]) + 1] = new
  BY <1>1, <1>2, AppendProperties
<1>4. Len(attempt[r]) \in Nat /\ DOMAIN attempt[r] = 1 .. Len(attempt[r])
  BY <1>2
<1>5. DOMAIN attempt'[r] = 1 .. Len(attempt[r]) + 1
  BY <1>2, <1>3, <1>4
<1>6. \A o \in DOMAIN attempt'[r] \ DOMAIN attempt[r] : o = Len(attempt[r]) + 1
  BY <1>4, <1>5
<1>7. QED
  BY <1>1, <1>2, <1>3, <1>6

(* What an attempt has come to stays; nothing is learnt of one whose owner   *)
(* is gone; and what starts, or succeeds, had the run's permission.         *)
LEMMA AttemptKept ==
    ASSUME IInv, [Next]_vars, NEW s \in Issued, NEW q \in DOMAIN attempt[s]
    PROVE  /\ q \in DOMAIN attempt'[s]
           /\ attempt'[s][q].kind = attempt[s][q].kind
           /\ attempt'[s][q].outcome # attempt[s][q].outcome =>
                 attempt[s][q].outcome = "started" /\ permit[s] = "held"
           /\ attempt'[s][q].outcome = "succeeded" /\ attempt[s][q].outcome # "succeeded" =>
                 attempt[s][q].kind = "cleanup" \/ BusinessAllowedFor(s)
<1> USE DEF IInv
<1>0. s \in Reservation
  BY DEF Issued
<1>1. ASSUME NEW r \in Reservation, NEW kind \in Kind, Begin(r, kind)
      PROVE  q \in DOMAIN attempt'[s] /\ attempt'[s][q] = attempt[s][q]
  BY <1>0, <1>1, BeginEffect
<1>2. ASSUME NEW r \in Reservation, NEW o \in DOMAIN attempt[r], NEW a \in Attempt, Progress(r, o, a)
      PROVE  /\ q \in DOMAIN attempt'[s]
             /\ attempt'[s][q].kind = attempt[s][q].kind
             /\ attempt'[s][q].outcome # attempt[s][q].outcome =>
                   attempt[s][q].outcome = "started" /\ permit[s] = "held"
             /\ attempt'[s][q].outcome = "succeeded" /\ attempt[s][q].outcome # "succeeded" =>
                   attempt[s][q].kind = "cleanup" \/ BusinessAllowedFor(s)
  <2>1. SetAttempt(r, o, a)
    BY <1>2 DEF Progress, Moves
  <2>2. /\ q \in DOMAIN attempt'[s]
        /\ attempt'[s][q] = IF s = r /\ q = o THEN a ELSE attempt[s][q]
    BY <1>0, <2>1, SetAttemptEffect
  <2>3. QED
    BY <1>2, <2>2 DEF Progress, Moves
<1>3. attempt' = attempt => q \in DOMAIN attempt'[s] /\ attempt'[s][q] = attempt[s][q]
  OBVIOUS
<1>4. ASSUME NEW r \in Reservation, Renew(r) \/ \E outcome \in Outcome : Complete(r, outcome)
      PROVE  attempt' = attempt
  BY <1>4, LeaseRows
<1>5. QED
  BY <1>1, <1>2, <1>3, <1>4, Steps DEF Reserve, Elapses

LEMMA FenceKept ==
    ASSUME IInv, [Next]_vars, NEW run \in Run, FencedForGood(run)
    PROVE  FencedForGood(run)'
<1>1. \A r \in OfRun(run) : r \in Issued /\ r \in OfRun(run)'
  BY RowKept DEF OfRun
<1>2. CASE \E r \in OfRun(run) : lease[r].state = "ambiguous"
  <2>1. PICK r \in OfRun(run) : lease[r].state = "ambiguous"
    BY <1>2
  <2>2. lease'[r].state = "ambiguous"
    BY <1>1, <2>1, RowKept
  <2>3. QED
    BY <1>1, <2>1, <2>2 DEF FencedForGood, RecordedAmbiguity
<1>3. ASSUME NEW r \in OfRun(run), NEW o \in DOMAIN attempt[r], attempt[r][o].outcome = "ambiguous"
      PROVE  FencedForGood(run)'
  <2>1. o \in DOMAIN attempt'[r] /\ attempt'[r][o].outcome = "ambiguous"
    BY <1>1, <1>3, AttemptKept
  <2>2. QED
    BY <1>1, <2>1 DEF FencedForGood, RecordedAmbiguity
<1>4. ASSUME NEW r \in OfRun(run), permit[r] = "lost", ~LiveLease(r),
             NEW o \in DOMAIN attempt[r], attempt[r][o].outcome = "started"
      PROVE  FencedForGood(run)'
  <2>1. o \in DOMAIN attempt'[r] /\ attempt'[r][o].outcome = "started"
    BY <1>1, <1>4, AttemptKept
  <2>2. permit'[r] = "lost" /\ ~(LiveLease(r)')
    BY <1>1, <1>4, RowKept
  <2>3. QED
    BY <1>1, <2>1, <2>2 DEF FencedForGood
<1>5. QED
  BY <1>2, <1>3, <1>4 DEF FencedForGood, RecordedAmbiguity

(* No step admits business of a run that is not allowed any.                *)
LEMMA BusinessIsAllowed ==
    ASSUME IInv, [Next]_vars, NEW run \in Run, BusinessStep(run)
    PROVE  BusinessAllowed(run)
<1> USE DEF IInv
<1>1. \A r \in OfRun(run) : /\ r \in Issued /\ r \in Reservation
                            /\ BusinessAllowedFor(r) => BusinessAllowed(run)
  BY DEF OfRun, Issued, BusinessAllowedFor
<1>2. CASE \E r \in OfRun(run)' \ OfRun(run) : reservation'[r].purpose # "recovery"
  <2>1. PICK r \in OfRun(run)' \ OfRun(run) : reservation'[r].purpose # "recovery"
    BY <1>2
  <2>2. r \in Issued' /\ RunOf[reservation'[r].grant] = run
    BY <2>1 DEF OfRun
  <2>3. r \notin Issued
    BY <2>1, <2>2, RowKept DEF OfRun
  <2>4. PICK s \in Reservation, a \in Account, g \in Operation, p \in Purpose : Reserve(s, a, g, p)
    BY <2>2, <2>3, IssuedBy
  <2>5. /\ Issued' = Issued \cup {s}
        /\ reservation'[s] = [account |-> a, grant |-> g, purpose |-> p]
    BY <2>4, ReserveRows
  <2>6. s = r /\ p # "recovery" /\ RunOf[g] = run
    BY <2>1, <2>2, <2>3, <2>5
  <2>7. QED
    BY <2>4, <2>6 DEF Reserve, Admissible, Purpose
<1>3. ASSUME NEW r \in OfRun(run), NEW o \in DOMAIN attempt'[r], attempt'[r][o].kind # "cleanup",
             o \notin DOMAIN attempt[r]
      PROVE  BusinessAllowed(run)
  <2>1. ASSUME NEW s \in Reservation, NEW kind \in Kind, Begin(s, kind)
        PROVE  BusinessAllowed(run)
    <3>1. r = s
      BY <1>1, <1>3, <2>1, BeginEffect
    <3>2. attempt'[r][o].kind = kind
      BY <1>1, <1>3, <2>1, <3>1, BeginAppends
    <3>3. BusinessAllowedFor(r)
      BY <1>3, <2>1, <3>1, <3>2 DEF Begin
    <3>4. QED
      BY <1>1, <3>3
  <2>2. ASSUME NEW s \in Reservation, NEW q \in DOMAIN attempt[s], NEW a \in Attempt, Progress(s, q, a)
        PROVE  FALSE
    <3>1. SetAttempt(s, q, a)
      BY <2>2 DEF Progress, Moves
    <3>2. DOMAIN attempt'[r] = DOMAIN attempt[r]
      BY <1>1, <3>1, SetAttemptEffect
    <3>3. QED
      BY <1>3, <3>2
  <2>3. ASSUME NEW s \in Reservation, Renew(s) \/ \E outcome \in Outcome : Complete(s, outcome)
        PROVE  attempt' = attempt
    BY <2>3, LeaseRows
  <2>4. QED
    BY <1>3, <2>1, <2>2, <2>3, Steps DEF Reserve, Elapses
<1>4. ASSUME NEW r \in OfRun(run), NEW o \in DOMAIN attempt'[r], attempt'[r][o].kind # "cleanup",
             o \in DOMAIN attempt[r], attempt'[r][o].outcome = "succeeded",
             attempt[r][o].outcome # "succeeded"
      PROVE  BusinessAllowed(run)
  BY <1>1, <1>4, AttemptKept
<1>5. ASSUME NEW r \in OfRun(run), ~IsRecovery(r),
             lease'[r].state = "succeeded", lease[r].state # "succeeded"
      PROVE  BusinessAllowed(run)
  <2>1. ASSUME NEW s \in Reservation, Renew(s) \/ \E outcome \in Outcome : Complete(s, outcome)
        PROVE  BusinessAllowed(run)
    <3>1. r = s
      BY <1>1, <1>5, <2>1, LeaseRows
    <3>2. QED
      BY <1>1, <1>5, <2>1, <3>1, LeaseRows
  <2>2. ASSUME NEW s \in Reservation, NEW a \in Account, NEW g \in Operation, NEW p \in Purpose,
               Reserve(s, a, g, p)
        PROVE  FALSE
    <3>1. /\ lease'[s].state = "active"
          /\ \A q \in Reservation : q # s => lease'[q] = Swept[q]
      BY <2>2, ReserveRows
    <3>2. lease'[r] = Swept[r]
      BY <1>1, <1>5, <3>1
    <3>3. QED
      BY <1>1, <1>5, <3>2, SweptGainsNothing
  <2>3. QED
    BY <1>5, <2>1, <2>2, Steps DEF Begin, Progress, Moves, Elapses
<1>6. QED
  BY <1>2, <1>3, <1>4, <1>5 DEF BusinessStep, Succeeded

(* The fence around a run with an unknown outcome comes down for good:       *)
(* README.md's promise, for every interleaving of its reservations.         *)
THEOREM AmbiguityFences == Spec => AmbiguityFencesRun
<1>1. ASSUME IInv, [Next]_vars, NEW run \in Run, FencedForGood(run)
      PROVE  FencedForGood(run)' /\ ~BusinessStep(run)
  <2>1. ~BusinessAllowed(run)
    BY <1>1 DEF FencedForGood, BusinessAllowed, Uncertain, Lapsed
  <2>2. QED
    BY <1>1, <2>1, FenceKept, BusinessIsAllowed
<1>2. IInv /\ [Next]_vars =>
         [\A run \in Run : FencedForGood(run) => FencedForGood(run)' /\ ~BusinessStep(run)]_vars
  BY <1>1
<1>3. QED
  BY <1>2, IInvCorrect, PTL DEF Spec, AmbiguityFencesRun

-----------------------------------------------------------------------------
(* The wire                                                                *)

(* Every attempt was paid for: its ordinal is one of the provider attempts   *)
(* its reservation holds, a create is the first of a reservation with an    *)
(* identity, and before it is authorized no request has been sent.          *)
PaidFor ==
    /\ \A r \in Reservation \ Issued : attempt[r] = << >>
    /\ \A r \in Issued : Len(attempt[r]) <= Reserved(r)["providerAttempts"]
    /\ \A r \in Issued : \A o \in DOMAIN attempt[r] :
          /\ attempt[r][o].kind = "create" => o = 1 /\ HoldsIdentity(r)
          /\ attempt[r][o].phase \in {"admitted", "authorized"} => ~attempt[r][o].onWire

LEMMA ReservedKept ==
    ASSUME IInv, [Next]_vars, NEW r \in Issued
    PROVE  r \in Issued' /\ Reserved(r)' = Reserved(r) /\ (HoldsIdentity(r)' <=> HoldsIdentity(r))
BY RowKept DEF Reserved, CategoryOfReservation, HoldsIdentity

LEMMA PaidForStep ==
    ASSUME IInv, PaidFor, [Next]_vars
    PROVE  PaidFor'
<1> USE DEF IInv
<1>1. ASSUME NEW r \in Reservation, NEW a \in Account, NEW g \in Operation, NEW p \in Purpose,
             Reserve(r, a, g, p)
      PROVE  PaidFor'
  <2>1. r \notin Issued /\ Issued' = Issued \cup {r} /\ attempt' = attempt
    BY <1>1, ReserveRows DEF Reserve
  <2>2. attempt'[r] = << >> /\ Len(attempt'[r]) = 0 /\ DOMAIN attempt'[r] = {}
    BY <2>1 DEF PaidFor
  <2>3. Reserved(r)'["providerAttempts"] \in Nat
    <3>1. r \in Issued' /\ TypeOK' /\ "providerAttempts" \in Dimension
      BY <2>1, TypeStep DEF Dimension
    <3>2. QED
      <4>1. reservation'[r] = [account |-> a, grant |-> g, purpose |-> p]
        BY <1>1, ReserveRows
      <4>2. Reserved(r)' = Amounts(CategoryOf[g], p)
        BY <4>1 DEF Reserved, CategoryOfReservation
      <4>3. CategoryOf[g] \in Category
        BY GrantAssumption
      <4>4. QED
        BY <3>1, <4>2, <4>3, AmountsType
  <2>4. \A s \in Issued : Reserved(s)' = Reserved(s) /\ (HoldsIdentity(s)' <=> HoldsIdentity(s))
    BY ReservedKept
  <2>5. QED
    BY <2>1, <2>2, <2>3, <2>4 DEF PaidFor
<1>2. ASSUME NEW r \in Reservation, NEW kind \in Kind, Begin(r, kind)
      PROVE  PaidFor'
  <2>1. /\ r \in Issued /\ Issued' = Issued
        /\ \A s \in Issued : s \in Reservation /\ Reserved(s)' = Reserved(s)
                                               /\ (HoldsIdentity(s)' <=> HoldsIdentity(s))
    BY <1>2, ReservedKept DEF Begin, Issued
  <2>2. /\ Len(attempt[r]) + 1 <= Reserved(r)["providerAttempts"]
        /\ kind = "create" => HoldsIdentity(r) /\ Len(attempt[r]) + 1 = 1
    BY <1>2 DEF Begin, OrdinalAllowed
  <2>3. /\ Len(attempt'[r]) = Len(attempt[r]) + 1
        /\ \A s \in Reservation : s # r => attempt'[s] = attempt[s]
        /\ \A s \in Reservation : \A o \in DOMAIN attempt[s] : attempt'[s][o] = attempt[s][o]
    BY <1>2, BeginEffect
  <2>4. \A o \in DOMAIN attempt'[r] \ DOMAIN attempt[r] :
           o = Len(attempt[r]) + 1 /\ attempt'[r][o].kind = kind /\ ~attempt'[r][o].onWire
    BY <1>2, BeginAppends
  <2>5. \A o \in DOMAIN attempt'[r] :
           /\ attempt'[r][o].kind = "create" => o = 1 /\ HoldsIdentity(r)
           /\ attempt'[r][o].phase \in {"admitted", "authorized"} => ~attempt'[r][o].onWire
    BY <2>1, <2>2, <2>3, <2>4 DEF PaidFor
  <2>6. \A s \in Issued : Len(attempt'[s]) <= Reserved(s)["providerAttempts"]
    BY <2>1, <2>2, <2>3 DEF PaidFor
  <2>7. QED
    BY <2>1, <2>3, <2>5, <2>6 DEF PaidFor
<1>3. ASSUME NEW r \in Reservation, NEW o \in DOMAIN attempt[r], NEW a \in Attempt, Progress(r, o, a)
      PROVE  PaidFor'
  <2>1. /\ Issued' = Issued
        /\ \A s \in Issued : s \in Reservation /\ Reserved(s)' = Reserved(s)
                                               /\ (HoldsIdentity(s)' <=> HoldsIdentity(s))
    BY <1>3, ReservedKept DEF Progress, Moves, Issued
  <2>2. SetAttempt(r, o, a) /\ r \in Issued
    BY <1>3 DEF Progress, Moves
  <2>3. /\ \A s \in Reservation : DOMAIN attempt'[s] = DOMAIN attempt[s] /\ Len(attempt'[s]) = Len(attempt[s])
        /\ \A s \in Reservation : \A q \in DOMAIN attempt[s] :
              attempt'[s][q] = IF s = r /\ q = o THEN a ELSE attempt[s][q]
    BY <2>2, SetAttemptEffect
  <2>4. \A s \in Reservation : s # r => attempt'[s] = attempt[s]
    BY <2>2 DEF SetAttempt, TypeOK
  <2>5. \A q \in DOMAIN attempt[r] :
           /\ attempt'[r][q].kind = attempt[r][q].kind
           /\ attempt'[r][q].phase \in {"admitted", "authorized"} => ~attempt'[r][q].onWire
    BY <1>3, <2>2, <2>3 DEF Progress, PaidFor
  <2>6. QED
    BY <2>1, <2>2, <2>3, <2>4, <2>5 DEF PaidFor
<1>4. ASSUME attempt' = attempt, Issued' = Issued
      PROVE  PaidFor'
  BY <1>4, ReservedKept DEF PaidFor
<1>5. ASSUME NEW r \in Reservation, Renew(r) \/ \E outcome \in Outcome : Complete(r, outcome)
      PROVE  attempt' = attempt /\ Issued' = Issued
  BY <1>5, LeaseRows DEF Issued
<1>6. CASE Elapses
  BY <1>4, <1>6 DEF Elapses, Issued
<1>7. QED
  BY <1>1, <1>2, <1>3, <1>4, <1>5, <1>6, Steps

LEMMA PaidForCorrect == Spec => []PaidFor
<1>1. Init => PaidFor
  <2>1. SUFFICES ASSUME Init
                 PROVE  PaidFor
    OBVIOUS
  <2>2. Issued = {} /\ \A r \in Reservation : attempt[r] = << >>
    BY <2>1 DEF Init, Issued, NoLease
  <2>3. QED
    BY <2>2 DEF PaidFor
<1>2. IInv /\ PaidFor /\ [Next]_vars => PaidFor'
  BY PaidForStep
<1>3. QED
  BY <1>1, <1>2, IInvCorrect, PTL DEF Spec

(* The requests on the wire are among the units reserved for them.          *)
LEMMA WireIsReserved ==
    ASSUME IInv, PaidFor, NEW g \in Grant
    PROVE  /\ OnWire(g) \subseteq Units(g, "providerAttempts")
           /\ CreatesOnWire(g) \subseteq Units(g, "sandboxIdentities")
<1> USE DEF IInv
<1>1. \A r \in Under(g) : r \in Issued /\ attempt[r] \in Seq(Attempt)
  BY DEF Under, Issued, TypeOK
<1>2. ASSUME NEW r \in Under(g), NEW o \in DOMAIN attempt[r]
      PROVE  /\ o \in 1 .. Reserved(r)["providerAttempts"]
             /\ attempt[r][o].kind = "create" => o \in 1 .. Reserved(r)["sandboxIdentities"]
  <2>1. Reserved(r)["providerAttempts"] \in Nat
    BY <1>1, ReservedType DEF Dimension
  <2>2. o \in 1 .. Len(attempt[r]) /\ Len(attempt[r]) \in Nat
    BY <1>1
  <2>3. Len(attempt[r]) <= Reserved(r)["providerAttempts"]
    BY <1>1 DEF PaidFor
  <2>4. attempt[r][o].kind = "create" => o = 1 /\ Reserved(r)["sandboxIdentities"] = 1
    BY <1>1 DEF PaidFor, HoldsIdentity
  <2>5. QED
    BY <2>1, <2>2, <2>3, <2>4
<1>3. \A w \in OnWire(g) : \E r \in Under(g) : \E o \in DOMAIN attempt[r] : w = <<r, o>>
  BY DEF OnWire
<1>4. QED
  BY <1>2, <1>3 DEF Units, CreatesOnWire

(* The provider never sees more requests, nor more creations, than a grant   *)
(* allows: the count is of requests sent, not of rows written.              *)
THEOREM WireSafe == Spec => []WireWithinBudget
<1>1. IInv /\ PaidFor /\ BudgetNeverExceeded => WireWithinBudget
  <2>1. SUFFICES ASSUME IInv, PaidFor, BudgetNeverExceeded, NEW g \in Grant
                 PROVE  /\ Cardinality(OnWire(g)) <= Budget[g]["providerAttempts"]
                        /\ Cardinality(CreatesOnWire(g)) <= Budget[g]["sandboxIdentities"]
    BY DEF WireWithinBudget
  <2>2. ASSUME NEW d \in Dimension, NEW W \in SUBSET Units(g, d)
        PROVE  Cardinality(W) <= Budget[g][d]
    <3>1. IsFiniteSet(Units(g, d)) /\ Used(g, d) \in Nat
      BY <2>1, UnitsFinite DEF IInv
    <3>2. Cardinality(W) <= Used(g, d) /\ Cardinality(W) \in Nat
      BY <3>1, FS_Subset, FS_CardinalityType DEF Used
    <3>3. Used(g, d) <= Budget[g][d] /\ Budget[g][d] \in Nat
      BY <2>1, GrantAssumption DEF BudgetNeverExceeded
    <3>4. QED
      BY <3>1, <3>2, <3>3
  <2>3. QED
    BY <2>1, <2>2, WireIsReserved DEF Dimension
<1>2. QED
  BY <1>1, IInvCorrect, PaidForCorrect, BudgetSafe, PTL

-----------------------------------------------------------------------------
(* The ledger                                                              *)

(* The state of the ledger, and its steps said of it.                       *)
Spent == [g \in Grant |-> [d \in Dimension |-> Used(g, d)]]
Sent == [g \in Grant |-> Cardinality(OnWire(g))]

LEMMA LedgerSpends ==
    ASSUME NEW a \in Account, NEW g \in Operation,
           \A d \in Dimension :
              /\ Spent'[a][d] - Spent[a][d] >= 0
              /\ Spent'[a][d] - Spent[a][d] = Spent'[g][d] - Spent[g][d]
              /\ Spent'[a][d] <= Budget[a][d] /\ Spent'[g][d] <= Budget[g][d],
           \A h \in Grant \ {a, g} : Spent'[h] = Spent[h],
           Sent' = Sent
    PROVE  Ledger!Spend(a, g)
BY DEF Ledger!Spend, Ledger!Grant, Grant, Spent, Sent

LEMMA LedgerSends ==
    ASSUME NEW a \in Account, NEW g \in Operation,
           \A h \in {a, g} : Sent[h] < Spent[h]["providerAttempts"],
           Sent' = [h \in Grant |-> IF h \in {a, g} THEN Sent[h] + 1 ELSE Sent[h]],
           Spent' = Spent
    PROVE  Ledger!Send(a, g)
BY DEF Ledger!Send, Ledger!Grant, Grant, Spent, Sent

LEMMA LedgerSteps ==
    ASSUME \/ UNCHANGED <<Spent, Sent>>
           \/ UNCHANGED Sent /\ \E a \in Account, g \in Operation : Ledger!Spend(a, g)
           \/ UNCHANGED Spent /\ \E a \in Account, g \in Operation : Ledger!Send(a, g)
    PROVE  [Ledger!Next]_(Ledger!vars)
BY DEF Ledger!Next, Ledger!vars, Spent, Sent

LEMMA WireMember ==
    ASSUME NEW g, NEW r, NEW o
    PROVE  <<r, o>> \in OnWire(g) <=>
              r \in Under(g) /\ o \in DOMAIN attempt[r] /\ attempt[r][o].onWire
BY DEF OnWire

LEMMA WirePairs ==
    ASSUME NEW g
    PROVE  \A w \in OnWire(g) : \E r \in Under(g) : \E o \in DOMAIN attempt[r] : w = <<r, o>>
BY DEF OnWire

(* Two wires with the same pairs are the same.                              *)
LEMMA SameWire ==
    ASSUME NEW g, NEW X,
           \A w \in X : \E r, o : w = <<r, o>>,
           \A r, o : <<r, o>> \in X <=> r \in Under(g)' /\ o \in DOMAIN attempt'[r] /\ attempt'[r][o].onWire
    PROVE  OnWire(g)' = X
<1>1. \A w \in OnWire(g)' : \E r, o : w = <<r, o>>
  BY DEF OnWire
<1>2. \A r, o : <<r, o>> \in OnWire(g)' <=>
                   r \in Under(g)' /\ o \in DOMAIN attempt'[r] /\ attempt'[r][o].onWire
  BY DEF OnWire
<1>3. QED
  BY <1>1, <1>2

LEMMA ReserveUsed ==
    ASSUME IInv, NEW r \in Reservation, NEW a \in Account, NEW o \in Operation,
           NEW p \in Purpose, Reserve(r, a, o, p), NEW g \in Grant, NEW d \in Dimension
    PROVE  Used(g, d)' = IF g \in {a, o} THEN Used(g, d) + Amounts(CategoryOf[o], p)[d]
                         ELSE Used(g, d)
<1> DEFINE n == Amounts(CategoryOf[o], p)[d]
           new == {r} \X (1 .. n)
<1>1. n \in Nat
  BY AmountsType, GrantAssumption
<1>2. IsFiniteSet(new) /\ Cardinality(new) = n
  BY <1>1, ColumnSize
<1>3. IsFiniteSet(Units(g, d)) /\ Used(g, d) \in Nat
  BY UnitsFinite DEF IInv
<1>4. Units(g, d)' = IF g \in {a, o} THEN Units(g, d) \cup new ELSE Units(g, d)
  BY ReserveUnits DEF IInv
<1>5. Units(g, d) \cap new = {}
  <2>1. r \notin Under(g)
    BY DEF Reserve, Under
  <2>2. QED
    BY <2>1 DEF Units
<1> HIDE DEF new
<1>6. Cardinality(Units(g, d) \cup new) = Used(g, d) + n
  <2>1. Cardinality(Units(g, d) \cap new) = 0
    BY <1>5, FS_EmptySet
  <2>2. Cardinality(Units(g, d) \cup new) =
           Cardinality(Units(g, d)) + Cardinality(new) - Cardinality(Units(g, d) \cap new)
    BY <1>2, <1>3, FS_Union
  <2>3. QED
    BY <1>1, <1>2, <1>3, <2>1, <2>2 DEF Used
<1>7. QED
  BY <1>4, <1>6 DEF Used

LEMMA ReserveSpends ==
    ASSUME IInv, PaidFor, BudgetNeverExceeded, BudgetNeverExceeded',
           NEW r \in Reservation, NEW a \in Account, NEW g \in Operation,
           NEW p \in Purpose, Reserve(r, a, g, p)
    PROVE  UNCHANGED Sent /\ Ledger!Spend(a, g)
<1> USE DEF IInv
<1>1. /\ r \notin Issued /\ Issued' = Issued \cup {r} /\ attempt' = attempt
      /\ \A s \in Reservation : s # r => reservation'[s] = reservation[s]
  BY ReserveRows DEF Reserve
<1>2. attempt[r] = << >> /\ DOMAIN attempt[r] = {}
  BY <1>1 DEF PaidFor
<1>3. ASSUME NEW h \in Grant
      PROVE  OnWire(h)' = OnWire(h)
  <2>1. \A s \in Issued : s \in Under(h)' <=> s \in Under(h)
    BY <1>1 DEF Under, Issued
  <2>2. \A s \in Under(h)' : s \in Issued \/ s = r
    BY <1>1 DEF Under
  <2>3. \A s \in Under(h) : s \in Issued
    BY DEF Under
  <2>4. \A s, o : <<s, o>> \in OnWire(h) <=>
           s \in Under(h)' /\ o \in DOMAIN attempt'[s] /\ attempt'[s][o].onWire
    BY <1>1, <1>2, <2>1, <2>2, <2>3, WireMember
  <2>5. \A w \in OnWire(h) : \E s, o : w = <<s, o>>
    BY WirePairs
  <2>6. QED
    BY <2>4, <2>5, SameWire
<1>4. Sent' = Sent
  BY <1>3 DEF Sent
<1>5. ASSUME NEW h \in Grant, NEW d \in Dimension
      PROVE  /\ Spent[h][d] = Used(h, d) /\ Used(h, d) \in Nat
             /\ Spent'[h][d] = IF h \in {a, g} THEN Used(h, d) + Amounts(CategoryOf[g], p)[d]
                               ELSE Used(h, d)
             /\ Spent'[h][d] <= Budget[h][d]
  <2>1. Spent[h][d] = Used(h, d) /\ Spent'[h][d] = Used(h, d)'
    BY DEF Spent
  <2>2. Used(h, d) \in Nat
    BY UnitsFinite
  <2>3. Used(h, d)' <= Budget[h][d]
    BY DEF BudgetNeverExceeded
  <2>4. QED
    BY <2>1, <2>2, <2>3, ReserveUsed
<1>6. a \in Grant /\ g \in Grant
  BY DEF Grant
<1>7. \A d \in Dimension : Amounts(CategoryOf[g], p)[d] \in Nat
  BY AmountsType, GrantAssumption
<1>8. \A h \in Grant \ {a, g} : Spent'[h] = Spent[h]
  <2>1. \A h \in Grant \ {a, g} : \A d \in Dimension : Used(h, d)' = Used(h, d)
    BY ReserveUsed
  <2>2. QED
    BY <2>1 DEF Spent
<1>9. \A d \in Dimension :
         /\ Spent'[a][d] - Spent[a][d] >= 0
         /\ Spent'[a][d] - Spent[a][d] = Spent'[g][d] - Spent[g][d]
         /\ Spent'[a][d] <= Budget[a][d] /\ Spent'[g][d] <= Budget[g][d]
  BY <1>5, <1>6, <1>7
<1>10. QED
  BY <1>4, <1>8, <1>9, LedgerSpends

(* What is reserved, and what is on the wire, is a matter of the rows.      *)
LEMMA SpentKept ==
    ASSUME IInv, reservation' = reservation, Issued' = Issued
    PROVE  /\ Spent' = Spent
           /\ \A g : Under(g)' = Under(g)
<1>1. \A g \in Grant, d \in Dimension : Used(g, d)' = Used(g, d)
  BY OtherUnits DEF Used, IInv
<1>2. QED
  BY <1>1 DEF Spent, Under

LEMMA SentKept ==
    ASSUME \A g \in Grant : Under(g)' = Under(g),
           \A g \in Grant : \A r \in Under(g) : \A o :
              (o \in DOMAIN attempt'[r] /\ attempt'[r][o].onWire) <=>
                 (o \in DOMAIN attempt[r] /\ attempt[r][o].onWire)
    PROVE  Sent' = Sent
<1>1. ASSUME NEW g \in Grant
      PROVE  OnWire(g)' = OnWire(g)
  <2>1. \A r, o : <<r, o>> \in OnWire(g) <=>
           r \in Under(g)' /\ o \in DOMAIN attempt'[r] /\ attempt'[r][o].onWire
    BY WireMember
  <2>2. \A w \in OnWire(g) : \E r, o : w = <<r, o>>
    BY WirePairs
  <2>3. QED
    BY <2>1, <2>2, SameWire
<1>2. QED
  BY <1>1 DEF Sent

LEMMA BeginStutters ==
    ASSUME IInv, NEW r \in Reservation, NEW kind \in Kind, Begin(r, kind)
    PROVE  UNCHANGED <<Spent, Sent>>
<1> USE DEF IInv
<1>1. reservation' = reservation /\ Issued' = Issued
  BY DEF Begin, Issued
<1>2. ASSUME NEW s \in Reservation, NEW o
      PROVE  (o \in DOMAIN attempt'[s] /\ attempt'[s][o].onWire) <=>
                (o \in DOMAIN attempt[s] /\ attempt[s][o].onWire)
  <2>1. /\ DOMAIN attempt[s] \subseteq DOMAIN attempt'[s]
        /\ \A q \in DOMAIN attempt[s] : attempt'[s][q] = attempt[s][q]
        /\ s # r => attempt'[s] = attempt[s]
    BY BeginEffect
  <2>2. \A q \in DOMAIN attempt'[r] \ DOMAIN attempt[r] : ~attempt'[r][q].onWire
    BY BeginAppends
  <2>3. QED
    BY <2>1, <2>2
<1>3. \A g : Under(g) \subseteq Reservation
  BY DEF Under, Issued
<1>4. QED
  BY <1>1, <1>2, <1>3, SpentKept, SentKept

LEMMA ProgressSends ==
    ASSUME IInv, PaidFor, PaidFor', NEW r \in Reservation, NEW o \in DOMAIN attempt[r],
           NEW a \in Attempt, Progress(r, o, a)
    PROVE  /\ UNCHANGED Spent
           /\ \/ UNCHANGED Sent
              \/ Ledger!Send(reservation[r].account, reservation[r].grant)
<1> USE DEF IInv
<1>1. /\ reservation' = reservation /\ Issued' = Issued /\ r \in Issued
      /\ SetAttempt(r, o, a)
  BY DEF Progress, Moves, Issued
<1>2. /\ \A s \in Reservation : DOMAIN attempt'[s] = DOMAIN attempt[s]
      /\ \A s \in Reservation : \A q \in DOMAIN attempt[s] :
            attempt'[s][q] = IF s = r /\ q = o THEN a ELSE attempt[s][q]
  BY <1>1, SetAttemptEffect
<1>3. Spent' = Spent /\ \A g : Under(g)' = Under(g)
  BY <1>1, SpentKept
<1>4. \A g : Under(g) \subseteq Reservation
  BY DEF Under, Issued
<1>5. CASE a.onWire = attempt[r][o].onWire
  BY <1>2, <1>3, <1>4, <1>5, SentKept
<1>6. CASE a.onWire # attempt[r][o].onWire
  <2> DEFINE x == reservation[r].account
             y == reservation[r].grant
  <2>1. x \in Account /\ y \in Operation /\ x \in Grant /\ y \in Grant
    BY <1>1, IssuedType DEF Request, Grant
  <2>2. attempt[r][o].phase = "authorized" /\ ~attempt[r][o].onWire /\ a.onWire
    <3>1. attempt[r][o].phase = "authorized"
      BY <1>6 DEF Progress
    <3>2. ~attempt[r][o].onWire
      BY <1>1, <3>1 DEF PaidFor
    <3>3. a.onWire \in BOOLEAN /\ attempt[r][o].onWire \in BOOLEAN
      BY AttemptType DEF Attempt
    <3>4. QED
      BY <1>6, <3>1, <3>2, <3>3
  <2>3. \A g \in Grant : r \in Under(g) <=> g \in {x, y}
    BY <1>1 DEF Under
  <2>4. ASSUME NEW g \in Grant
        PROVE  /\ OnWire(g)' = IF g \in {x, y} THEN OnWire(g) \cup {<<r, o>>} ELSE OnWire(g)
               /\ <<r, o>> \notin OnWire(g)
    <3> DEFINE X == IF g \in {x, y} THEN OnWire(g) \cup {<<r, o>>} ELSE OnWire(g)
    <3>1. <<r, o>> \notin OnWire(g)
      BY <2>2, WireMember
    <3>2. ASSUME NEW s, NEW q
          PROVE  <<s, q>> \in X <=>
                    s \in Under(g)' /\ q \in DOMAIN attempt'[s] /\ attempt'[s][q].onWire
      <4>1. <<s, q>> \in OnWire(g) <=> s \in Under(g) /\ q \in DOMAIN attempt[s] /\ attempt[s][q].onWire
        BY WireMember
      <4>2. <<s, q>> = <<r, o>> <=> s = r /\ q = o
        OBVIOUS
      <4>3. CASE s = r /\ q = o
        BY <1>2, <1>3, <2>2, <2>3, <3>1, <4>1, <4>2, <4>3
      <4>4. CASE ~(s = r /\ q = o)
        BY <1>2, <1>3, <1>4, <4>1, <4>2, <4>4
      <4>5. QED
        BY <4>3, <4>4
    <3>3. \A w \in X : \E s, q : w = <<s, q>>
      BY WirePairs
    <3> HIDE DEF X
    <3>4. OnWire(g)' = X
      BY <3>2, <3>3, SameWire
    <3>5. QED
      BY <3>1, <3>4 DEF X
  <2>5. ASSUME NEW g \in Grant
        PROVE  /\ IsFiniteSet(OnWire(g)) /\ Cardinality(OnWire(g)) \in Nat
               /\ IsFiniteSet(Units(g, "providerAttempts"))
               /\ Used(g, "providerAttempts") \in Nat
    <3>1. "providerAttempts" \in Dimension
      BY DEF Dimension
    <3>2. IsFiniteSet(Units(g, "providerAttempts")) /\ Used(g, "providerAttempts") \in Nat
      BY <3>1, UnitsFinite
    <3>3. OnWire(g) \subseteq Units(g, "providerAttempts")
      BY WireIsReserved
    <3>4. QED
      BY <3>2, <3>3, FS_Subset, FS_CardinalityType
  <2>6. ASSUME NEW g \in {x, y}
        PROVE  /\ Cardinality(OnWire(g)') = Cardinality(OnWire(g)) + 1
               /\ Cardinality(OnWire(g)) < Used(g, "providerAttempts")
    <3>0. g \in Grant
      BY <2>1
    <3>1. OnWire(g)' = OnWire(g) \cup {<<r, o>>} /\ <<r, o>> \notin OnWire(g)
      BY <2>4, <3>0
    <3>2. Cardinality(OnWire(g) \cup {<<r, o>>}) = Cardinality(OnWire(g)) + 1
      BY <2>5, <3>0, <3>1, FS_AddElement
    <3>3. OnWire(g) \cup {<<r, o>>} \subseteq Units(g, "providerAttempts")
      <4>1. OnWire(g) \subseteq Units(g, "providerAttempts")
        BY <3>0, WireIsReserved
      <4>2. o \in 1 .. Reserved(r)["providerAttempts"]
        <5>1. Reserved(r)["providerAttempts"] \in Nat
          BY <1>1, ReservedType DEF Dimension
        <5>2. attempt[r] \in Seq(Attempt) /\ Len(attempt[r]) <= Reserved(r)["providerAttempts"]
          BY <1>1 DEF PaidFor, TypeOK
        <5>3. o \in 1 .. Len(attempt[r]) /\ Len(attempt[r]) \in Nat
          BY <5>2
        <5>4. QED
          BY <5>1, <5>2, <5>3
      <4>3. r \in Under(g)
        BY <2>3, <3>0
      <4>4. <<r, o>> \in Units(g, "providerAttempts")
        BY <4>2, <4>3 DEF Units
      <4>5. QED
        BY <4>1, <4>4
    <3>4. Cardinality(OnWire(g) \cup {<<r, o>>}) <= Used(g, "providerAttempts")
      BY <2>5, <3>0, <3>3, FS_Subset DEF Used
    <3>5. QED
      BY <2>5, <3>0, <3>1, <3>2, <3>4
  <2>7. Sent' = [h \in Grant |-> IF h \in {x, y} THEN Sent[h] + 1 ELSE Sent[h]]
    BY <2>4, <2>6 DEF Sent
  <2>8. \A h \in {x, y} : Sent[h] < Spent[h]["providerAttempts"]
    BY <2>1, <2>6 DEF Sent, Spent, Dimension
  <2>9. QED
    BY <1>3, <2>1, <2>7, <2>8, LedgerSends
<1>7. QED
  BY <1>5, <1>6, <1>3

LEMMA LedgerStep ==
    ASSUME IInv, PaidFor, PaidFor', BudgetNeverExceeded, BudgetNeverExceeded', [Next]_vars
    PROVE  [Ledger!Next]_(Ledger!vars)
<1>1. ASSUME NEW r \in Reservation, NEW a \in Account, NEW g \in Operation, NEW p \in Purpose,
             Reserve(r, a, g, p)
      PROVE  [Ledger!Next]_(Ledger!vars)
  BY <1>1, ReserveSpends, LedgerSteps
<1>2. ASSUME NEW r \in Reservation, NEW kind \in Kind, Begin(r, kind)
      PROVE  [Ledger!Next]_(Ledger!vars)
  BY <1>2, BeginStutters, LedgerSteps
<1>3. ASSUME NEW r \in Reservation, NEW o \in DOMAIN attempt[r], NEW a \in Attempt, Progress(r, o, a)
      PROVE  [Ledger!Next]_(Ledger!vars)
  <2>1. reservation[r].account \in Account /\ reservation[r].grant \in Operation
    BY <1>3, IssuedType DEF Progress, Request, IInv
  <2>2. QED
    BY <1>3, <2>1, ProgressSends, LedgerSteps
<1>4. ASSUME reservation' = reservation, Issued' = Issued, attempt' = attempt
      PROVE  [Ledger!Next]_(Ledger!vars)
  BY <1>4, SpentKept, SentKept, LedgerSteps
<1>5. ASSUME NEW r \in Reservation, Renew(r) \/ \E outcome \in Outcome : Complete(r, outcome)
      PROVE  reservation' = reservation /\ Issued' = Issued /\ attempt' = attempt
  BY <1>5, LeaseRows DEF Issued, IInv
<1>6. CASE Elapses
  BY <1>4, <1>6 DEF Elapses, Issued
<1>7. QED
  BY <1>1, <1>2, <1>3, <1>4, <1>5, <1>6, Steps

(* The authority implements its ledger: a step spends from one account grant *)
(* and one operation grant that both have it, or sends one request out of    *)
(* what was spent, or leaves the money alone.                               *)
THEOREM LedgerRefines == Spec => LedgerSpec
<1>1. Init => Ledger!Init
  <2>1. SUFFICES ASSUME Init
                 PROVE  Ledger!Init
    OBVIOUS
  <2>2. Issued = {}
    BY <2>1 DEF Init, Issued, NoLease
  <2>3. \A g \in Grant : OnWire(g) = {} /\ \A d \in Dimension : Units(g, d) = {}
    BY <2>2 DEF Under, OnWire, Units
  <2>4. \A g \in Grant : Cardinality(OnWire(g)) = 0 /\ \A d \in Dimension : Used(g, d) = 0
    BY <2>3, FS_EmptySet DEF Used
  <2>5. QED
    BY <2>4 DEF Ledger!Init, Ledger!Grant, Grant
<1>2. /\ IInv /\ PaidFor /\ BudgetNeverExceeded /\ [Next]_vars
      /\ PaidFor' /\ BudgetNeverExceeded'
      => [Ledger!Next]_(Ledger!vars)
  BY LedgerStep
<1>3. QED
  BY <1>1, <1>2, IInvCorrect, PaidForCorrect, BudgetSafe, PTL DEF Spec, LedgerSpec, Ledger!Spec
-----------------------------------------------------------------------------
(* The hint                                                                *)

(* An operation of a workflow takes at least one unit of every dimension    *)
(* the hint looks at.                                                       *)
LEMMA UsefulIsTaken ==
    ASSUME NEW g \in Workflow
    PROVE  /\ CategoryOf[g] \in Category \ {"release_acceptance_one_shot"}
           /\ UsefulDimensions(CategoryOf[g]) \subseteq Dimension
           /\ \A d \in UsefulDimensions(CategoryOf[g]) :
                 /\ Amounts(CategoryOf[g], "work")[d] \in Nat
                 /\ Amounts(CategoryOf[g], "work")[d] >= 1
<1> DEFINE c == CategoryOf[g]
<1>1. c \in Category \ {"release_acceptance_one_shot"}
  BY GrantAssumption DEF Workflow
<1> HIDE DEF c
<1>2. SandboxAttempts \in Nat /\ SandboxAttempts >= 1
  BY BoundAssumption
<1>3. ASSUME NEW d \in UsefulDimensions(c)
      PROVE  d \in Dimension /\ Amounts(c, "work")[d] \in Nat /\ Amounts(c, "work")[d] >= 1
  <2>1. CASE c \in GeminiCategory
    <3>1. d \in {"logicalRequests", "providerAttempts"}
      BY <1>3, <2>1 DEF UsefulDimensions, GeminiCategory
    <3>2. QED
      BY <1>2, <2>1, <3>1 DEF Amounts, Dimension, GeminiCategory, SandboxCategory
  <2>2. CASE c = "sandbox_baseline"
    <3>1. d \in {"logicalRequests", "providerAttempts", "sandboxIdentities"}
      BY <1>3, <2>2 DEF UsefulDimensions, GeminiCategory
    <3>2. QED
      BY <1>2, <2>2, <3>1 DEF Amounts, Dimension, SandboxCategory
  <2>3. CASE c = "sandbox_verification"
    <3>1. d \in {"logicalRequests", "providerAttempts", "sandboxIdentities", "verificationAttempts"}
      BY <1>3, <2>3 DEF UsefulDimensions, GeminiCategory
    <3>2. QED
      BY <1>2, <2>3, <3>1 DEF Amounts, Dimension, SandboxCategory
  <2>4. CASE c = "repair_loop_iteration"
    <3>1. d \in {"logicalRequests", "repairLoopIterations"}
      BY <1>3, <2>4 DEF UsefulDimensions, GeminiCategory
    <3>2. QED
      BY <2>4, <3>1 DEF Amounts, Dimension
  <2>5. QED
    BY <1>1, <2>1, <2>2, <2>3, <2>4 DEF Category, SandboxCategory, VigiloCategory
<1>4. QED
  BY <1>1, <1>3 DEF c

(* Where an operation fits there is useful capacity.                        *)
LEMMA FitsIsUseful ==
    ASSUME TypeOK, NEW g \in Workflow, NEW h \in Grant,
           Fits(h, Amounts(CategoryOf[g], "work"))
    PROVE  HasUsefulCapacity(h, CategoryOf[g])
<1>1. ASSUME NEW d \in UsefulDimensions(CategoryOf[g])
      PROVE  Used(h, d) < Budget[h][d]
  <2>1. /\ d \in Dimension
        /\ Amounts(CategoryOf[g], "work")[d] \in Nat
        /\ Amounts(CategoryOf[g], "work")[d] >= 1
    BY UsefulIsTaken
  <2>2. Used(h, d) \in Nat /\ Budget[h][d] \in Nat
    BY <2>1, UnitsFinite, GrantAssumption
  <2>3. Used(h, d) + Amounts(CategoryOf[g], "work")[d] <= Budget[h][d]
    BY <2>1 DEF Fits
  <2>4. QED
    BY <2>1, <2>2, <2>3
<1>2. QED
  BY <1>1 DEF HasUsefulCapacity

(* The hint's instant and the authority's agree on which grants are live.   *)
LEMMA LiveIsUnexpired ==
    ASSUME TypeOK, NEW g \in Grant
    PROVE  LiveGrant(g) <=> g \notin revoked /\ ~Expired(g)
BY GrantAssumption DEF TypeOK, LiveGrant, Expired

LEMMA FreeIsNotBusy ==
    ASSUME TypeOK, NEW a \in Account
    PROVE  SlotFree(a) <=> ~Busy(a)
<1>1. IsFiniteSet({s \in Reservation : LiveLease(s)})
  BY FiniteAssumption, FS_Subset
<1>2. LiveLeases \in Nat /\ MaxConcurrent[a] \in Nat
  BY <1>1, FS_CardinalityType, GrantAssumption DEF LiveLeases
<1>3. QED
  BY <1>2 DEF SlotFree, Busy

(* What is offered: one account, and a live grant with useful capacity.     *)
LEMMA OfferedMeans ==
    ASSUME TypeOK, Availability(TRUE) = "available"
    PROVE  \E a \in Account, g \in Workflow :
              /\ Account \ revoked = {a} /\ ~Expired(a)
              /\ g \notin revoked /\ ~Expired(g)
              /\ HasUsefulCapacity(g, CategoryOf[g]) /\ HasUsefulCapacity(a, CategoryOf[g])
              /\ ~DuplicateScope({h \in Workflow \ revoked : ~Expired(h)})
              /\ ~Busy(a)
<1> DEFINE accounts == Account \ revoked
           live == {g \in Workflow \ revoked : ~Expired(g)}
           useful == {g \in live : \A a \in accounts :
                        HasUsefulCapacity(g, CategoryOf[g]) /\ HasUsefulCapacity(a, CategoryOf[g])}
<1>1. /\ \A a \in accounts : ~Expired(a)
      /\ Cardinality(accounts) = 1
      /\ ~DuplicateScope(live)
      /\ useful # {}
      /\ \A a \in accounts : ~Busy(a)
  BY DEF Availability
<1>2. IsFiniteSet(accounts)
  BY FiniteAssumption, FS_Subset
<1>3. PICK a : accounts = {a}
  BY <1>1, <1>2, FS_Singleton
<1>4. PICK g : g \in useful
  BY <1>1
<1>5. QED
  BY <1>1, <1>3, <1>4

(* An action that is offered would be granted, unless what is left of one   *)
(* of the two grants is a remnant.                                          *)
LEMMA OfferedIsGranted ==
    ASSUME TypeOK, Availability(TRUE) = "available"
    PROVE  \E g \in Workflow :
              WouldReserve(g) \/ \E h \in {g} \cup Account : Remnant(h, CategoryOf[g])
<1>1. PICK a \in Account, g \in Workflow :
              /\ Account \ revoked = {a} /\ ~Expired(a)
              /\ g \notin revoked /\ ~Expired(g)
              /\ HasUsefulCapacity(g, CategoryOf[g]) /\ HasUsefulCapacity(a, CategoryOf[g])
              /\ ~DuplicateScope({h \in Workflow \ revoked : ~Expired(h)})
              /\ ~Busy(a)
  BY OfferedMeans
<1>2. g \in Operation /\ CategoryOf[g] # "release_acceptance_one_shot"
  BY DEF Workflow
<1>3. {b \in Account : LiveGrant(b)} = {a}
  BY <1>1, LiveIsUnexpired DEF Grant
<1>4. {h \in SameScope(g) : LiveGrant(h)} = {g}
  <2>1. g \in SameScope(g) /\ LiveGrant(g)
    BY <1>1, <1>2, LiveIsUnexpired DEF SameScope, Grant
  <2>2. ASSUME NEW h \in SameScope(g), LiveGrant(h), h # g
        PROVE  FALSE
    <3>1. h \in Workflow \ revoked /\ ~Expired(h)
      BY <1>2, <2>2, LiveIsUnexpired DEF SameScope, Workflow, Grant
    <3>2. DuplicateScope({k \in Workflow \ revoked : ~Expired(k)})
      BY <1>1, <2>2, <3>1 DEF DuplicateScope
    <3>3. QED
      BY <1>1, <3>2
  <2>3. QED
    BY <2>1, <2>2
<1>5. Resolves(a, g) /\ SlotFree(a)
  BY <1>1, <1>2, <1>3, <1>4, FreeIsNotBusy DEF Resolves
<1>6. CASE Fits(a, Amounts(CategoryOf[g], "work")) /\ Fits(g, Amounts(CategoryOf[g], "work"))
  BY <1>5, <1>6 DEF WouldReserve
<1>7. CASE ~Fits(a, Amounts(CategoryOf[g], "work")) \/ ~Fits(g, Amounts(CategoryOf[g], "work"))
  <2>1. \E h \in {g} \cup Account : Remnant(h, CategoryOf[g])
    BY <1>1, <1>7 DEF Remnant
  <2>2. QED
    BY <2>1
<1>8. QED
  BY <1>6, <1>7

(* An action that would be granted is offered, where no unrevoked account   *)
(* has expired and no two live grants share a scope.                        *)
LEMMA GrantedIsOffered ==
    ASSUME TypeOK, NEW g \in Workflow, WouldReserve(g),
           \A a \in Account \ revoked : ~Expired(a),
           ~DuplicateScope({h \in Workflow \ revoked : ~Expired(h)})
    PROVE  Availability(TRUE) = "available"
<1> DEFINE accounts == Account \ revoked
           live == {h \in Workflow \ revoked : ~Expired(h)}
           useful == {h \in live : \A a \in accounts :
                        HasUsefulCapacity(h, CategoryOf[h]) /\ HasUsefulCapacity(a, CategoryOf[h])}
<1>1. PICK a \in Account : /\ Resolves(a, g)
                           /\ Fits(a, Amounts(CategoryOf[g], "work"))
                           /\ Fits(g, Amounts(CategoryOf[g], "work"))
                           /\ SlotFree(a)
  BY DEF WouldReserve
<1>2. g \in Operation /\ CategoryOf[g] # "release_acceptance_one_shot"
  BY DEF Workflow
<1>3. {b \in Account : LiveGrant(b)} = {a} /\ LiveGrant(g)
  BY <1>1, <1>2 DEF Resolves
<1>4. accounts = {a}
  <2>1. \A b \in accounts : LiveGrant(b)
    BY LiveIsUnexpired DEF Grant
  <2>2. a \in accounts
    BY <1>3, LiveIsUnexpired DEF Grant
  <2>3. QED
    BY <1>3, <2>1, <2>2
<1>5. g \in live
  BY <1>2, <1>3, LiveIsUnexpired DEF Grant
<1>6. g \in useful
  BY <1>1, <1>2, <1>4, <1>5, FitsIsUseful DEF Grant
<1>7. Cardinality(accounts) = 1
  BY <1>4, FS_Singleton
<1>8. ~Busy(a)
  BY <1>1, FreeIsNotBusy
<1>9. accounts # {} /\ Workflow \ revoked # {} /\ live # {} /\ useful # {}
  BY <1>4, <1>5, <1>6
<1>10. \A b \in accounts : ~Expired(b) /\ ~Busy(b)
  BY <1>4, <1>8
<1>11. QED
  BY <1>7, <1>9, <1>10 DEF Availability

(* What the page offers and what the authority would grant differ only      *)
(* where HintIsRight says they do.                                          *)
THEOREM HintAgrees == Spec => []HintIsRight
<1>1. TypeOK => HintIsRight
  <2>1. SUFFICES ASSUME TypeOK
                 PROVE  HintIsRight
    OBVIOUS
  <2>2. Availability(TRUE) = "available" /\ {g \in Workflow : WouldReserve(g)} = {} =>
           \E g \in Workflow : \E h \in {g} \cup Account : Remnant(h, CategoryOf[g])
    BY <2>1, OfferedIsGranted
  <2>3. {g \in Workflow : WouldReserve(g)} # {} /\ Availability(TRUE) # "available" =>
           \/ \E a \in Account \ revoked : Expired(a)
           \/ DuplicateScope({g \in Workflow \ revoked : ~Expired(g)})
    BY <2>1, GrantedIsOffered
  <2>4. QED
    BY <2>2, <2>3 DEF HintIsRight
<1>2. QED
  BY <1>1, TypeCorrect, PTL
=============================================================================
