--------------------- MODULE CandidateVerificationProofs ---------------------
(***************************************************************************)
(* What the verifications of a candidate guarantee for every number of      *)
(* workers, verifications, attempts, redeliveries and faults.              *)
(***************************************************************************)
EXTENDS CandidateVerification, SequenceTheorems, TLAPS

-----------------------------------------------------------------------------
(* The inductive invariant                                                 *)

(* Handlers that have no attempt yet, that work on one, and that may still   *)
(* change its Sandbox or report a verdict on it.                            *)
Idling == {"idle", "claim"}

Working == {"recover", "abandon", "prepare", "request", "create", "run", "persist", "failing"}

Verdict(e) == e.contract \in {"checks_passed", "checks_failed"}

Convinced(r) == r.at = "persist" /\ Verdict(r.reports)

Sandboxed(r) == r.at \in {"create", "run"} \/ Convinced(r)

(* The attempt of the record r of handler h carries the handler's token.    *)
Token(r, h, lists) ==
    lists[r.v][r.n].state = "active" /\ lists[r.v][r.n].owner = h

(* Evidence, or a report that may become one, is admissible and compared    *)
(* with this candidate's baseline.                                          *)
Sound(e, base) ==
    e # NoEvidence => Admissible(e) /\ base # "unusable"
                      /\ e.comparison = CompareWithBaseline(e.contract, base)

VerdictFree(list) == \A k \in 1 .. Len(list) : ~Verdict(list[k].evidence)

(* What the record r of handler h may rely on.                              *)
RecordOK(r, h, lists, s, base) ==
    /\ r.at # "idle" => r.v \in 1 .. Len(lists)
    /\ r.at \in Idling => r.n = 0
    /\ r.at \notin Idling \cup {"record"} => r.n \in 1 .. Len(lists[r.v])
    /\ r.at = "record" /\ r.n # 0 =>
          r.n \in 1 .. Len(lists[r.v]) /\ lists[r.v][r.n].state # "active"
    /\ r.at \in {"request", "create", "run", "persist"} => base # "unusable"
    /\ r.at \in Working => r.held
    /\ Sound(r.reports, base) /\ (r.reports # NoEvidence <=> r.at = "persist")
    /\ r.at \in {"prepare", "request"} /\ Token(r, h, lists) => ~lists[r.v][r.n].named
    /\ r.at \in {"create", "run"} => lists[r.v][r.n].named
    /\ r.at = "create" => lists[r.v][r.n].boxes = 0
    /\ r.at = "run" => lists[r.v][r.n].boxes > 0
    /\ Convinced(r) => lists[r.v][r.n].boxes > 0 /\ ~lists[r.v][r.n].up
    /\ r.at \in Working /\ Token(r, h, lists) => lists[r.v][r.n].evidence = NoEvidence
    /\ r.at = "finalize" => /\ lists[r.v][r.n].evidence # NoEvidence
                            /\ ~r.held => lists[r.v][r.n].state # "active"
    /\ r.at = "create" /\ s = h => VerdictFree(lists[r.v])

(* Two handlers never have the Sandbox of the same attempt, and while one is *)
(* about to create a Sandbox no other may persist a verdict.                *)
Apart(r, q) == ~(Sandboxed(r) /\ Sandboxed(q) /\ r.v = q.v /\ r.n = q.n)

Alone(r, h, q, g, lists, s) ==
    r.at = "create" /\ s = h /\ Convinced(q) /\ q.v = r.v => ~Token(q, g, lists)

HandlersOK ==
    /\ \A h \in Handler : RecordOK(handler[h], h, attempts, slot, baseline)
    /\ \A h, g \in Handler : h # g => /\ Apart(handler[h], handler[g])
                                      /\ Alone(handler[h], h, handler[g], g, attempts, slot)

(* An attempt a, the n-th of size.                                          *)
AttemptOK(a, n, size, base) ==
    /\ a.state = "active" => n = size
    /\ ~a.named => a.boxes = 0
    /\ Sound(a.evidence, base)
    /\ a.cited => a.evidence # NoEvidence
    /\ Verdict(a.evidence) =>
          /\ a.boxes > 0 /\ ~a.up /\ n = size
          /\ a.state # "active" =>
                /\ a.cited
                /\ a.state = IF a.evidence.contract = "checks_passed" THEN "succeeded"
                             ELSE "checks_failed"

(* What a row says of its attempts.                                         *)
RowOK(row, list) ==
    row.state = "completed" =>
        /\ row.from \in 1 .. Len(list) /\ list[row.from].state # "active"
        /\ Verdict(list[row.from].evidence)
        /\ row.contract = list[row.from].evidence.contract
        /\ row.comparison = list[row.from].evidence.comparison

AttemptsOK ==
    \A v \in 1 .. Len(attempts) :
        /\ \A n \in 1 .. Len(attempts[v]) :
              /\ AttemptOK(attempts[v][n], n, Len(attempts[v]), baseline)
              /\ Verdict(attempts[v][n].evidence) =>
                    \A h \in Handler : ~(Sandboxed(handler[h]) /\ handler[h].v = v /\ handler[h].n = n)
        /\ RowOK(rows[v], attempts[v])

Inv == TypeOK /\ AttemptsOK /\ HandlersOK

-----------------------------------------------------------------------------
(* Rows, attempts and sequences                                            *)

LEMMA Shape ==
    ASSUME TypeOK
    PROVE  /\ Len(rows) \in Nat /\ Verification = 1 .. Len(rows)
           /\ attempts \in Seq(Seq(Attempt)) /\ Len(attempts) = Len(rows)
           /\ DOMAIN attempts = 1 .. Len(attempts)
           /\ \A v \in 1 .. Len(attempts) :
                 /\ attempts[v] \in Seq(Attempt) /\ Len(attempts[v]) \in Nat
                 /\ DOMAIN attempts[v] = 1 .. Len(attempts[v])
                 /\ Len(attempts[v]) <= MaxAttempts
                 /\ rows[v] \in Row
                 /\ \A n \in 1 .. Len(attempts[v]) : attempts[v][n] \in Attempt
           /\ job \in [1 .. Len(rows) -> Job]
           /\ \A h \in Handler : handler[h] \in Local
           /\ MaxAttempts \in Nat /\ MaxFaults \in Nat /\ MaxVerifications \in Nat
           /\ MaxVerifications > 0 /\ RetryLimit \in Nat /\ "free" \notin Handler
<1>1. Len(rows) \in Nat /\ Verification = 1 .. Len(rows)
  BY DEF TypeOK, Verification
<1>2. attempts \in [1 .. Len(rows) -> Seq(Attempt)]
  BY <1>1 DEF TypeOK
<1>3. attempts \in Seq(Seq(Attempt)) /\ Len(attempts) = Len(rows)
  BY <1>1, <1>2, IsASeq
<1>4. \A v \in 1 .. Len(attempts) :
         /\ attempts[v] \in Seq(Attempt) /\ Len(attempts[v]) \in Nat
         /\ DOMAIN attempts[v] = 1 .. Len(attempts[v])
         /\ Len(attempts[v]) <= MaxAttempts
         /\ rows[v] \in Row
  BY <1>1, <1>2, <1>3 DEF TypeOK
<1>5. \A v \in 1 .. Len(attempts) : \A n \in 1 .. Len(attempts[v]) : attempts[v][n] \in Attempt
  BY <1>4, ElementOfSeq
<1>6. job \in [1 .. Len(rows) -> Job]
  BY <1>1 DEF TypeOK
<1>7. MaxAttempts \in Nat /\ MaxFaults \in Nat /\ MaxVerifications \in Nat
      /\ MaxVerifications > 0 /\ RetryLimit \in Nat /\ "free" \notin Handler
  BY ConstantsAssumption
<1>8. \A h \in Handler : handler[h] \in Local
  BY DEF TypeOK
<1>9. DOMAIN attempts = 1 .. Len(attempts)
  BY <1>2, <1>3
<1>10. QED
  BY <1>1, <1>3, <1>4, <1>5, <1>6, <1>7, <1>8, <1>9

LEMMA Ready ==
    ASSUME Inv, NEW h \in Handler
    PROVE  /\ TypeOK /\ AttemptsOK /\ HandlersOK
           /\ handler[h] \in Local
           /\ RecordOK(handler[h], h, attempts, slot, baseline)
BY Shape DEF Inv, HandlersOK

(* A list of lists with one entry replaced, or one list longer by an entry. *)
LEMMA SetEntry ==
    ASSUME NEW S, NEW lists \in Seq(Seq(S)), NEW v \in 1 .. Len(lists),
           NEW n \in 1 .. Len(lists[v]), NEW x \in S
    PROVE  LET new == [lists EXCEPT ![v][n] = x]
           IN  /\ new \in Seq(Seq(S)) /\ Len(new) = Len(lists)
               /\ \A w \in 1 .. Len(lists) : Len(new[w]) = Len(lists[w])
               /\ new[v][n] = x
               /\ \A w \in 1 .. Len(lists) : \A m \in 1 .. Len(lists[w]) :
                     w # v \/ m # n => new[w][m] = lists[w][m]
<1> DEFINE list == [lists[v] EXCEPT ![n] = x]
           new == [lists EXCEPT ![v] = list]
<1>1. lists[v] \in Seq(S)
  BY ElementOfSeq
<1>2. /\ list \in Seq(S) /\ Len(list) = Len(lists[v])
      /\ \A m \in 1 .. Len(lists[v]) : list[m] = IF m = n THEN x ELSE lists[v][m]
  BY <1>1, ExceptSeq
<1>3. [lists EXCEPT ![v][n] = x] = new
  OBVIOUS
<1> HIDE DEF list
<1>4. /\ new \in Seq(Seq(S)) /\ Len(new) = Len(lists)
      /\ \A w \in 1 .. Len(lists) : new[w] = IF w = v THEN list ELSE lists[w]
  BY <1>2, ExceptSeq
<1> HIDE DEF new
<1>5. QED
  BY <1>2, <1>3, <1>4

LEMMA AddEntry ==
    ASSUME NEW S, NEW lists \in Seq(Seq(S)), NEW v \in 1 .. Len(lists), NEW x \in S
    PROVE  LET new == [lists EXCEPT ![v] = Append(@, x)]
           IN  /\ new \in Seq(Seq(S)) /\ Len(new) = Len(lists)
               /\ Len(lists[v]) \in Nat /\ Len(new[v]) = Len(lists[v]) + 1
               /\ new[v][Len(lists[v]) + 1] = x
               /\ \A w \in 1 .. Len(lists) : w # v => new[w] = lists[w]
               /\ \A m \in 1 .. Len(lists[v]) : new[v][m] = lists[v][m]
<1> DEFINE list == Append(lists[v], x)
           new == [lists EXCEPT ![v] = list]
<1>1. lists[v] \in Seq(S)
  BY ElementOfSeq
<1>2. /\ list \in Seq(S) /\ Len(list) = Len(lists[v]) + 1 /\ list[Len(lists[v]) + 1] = x
      /\ Len(lists[v]) \in Nat
      /\ \A m \in 1 .. Len(lists[v]) : list[m] = lists[v][m]
  BY <1>1
<1>3. [lists EXCEPT ![v] = Append(@, x)] = new
  OBVIOUS
<1> HIDE DEF list
<1>4. /\ new \in Seq(Seq(S)) /\ Len(new) = Len(lists)
      /\ \A w \in 1 .. Len(lists) : new[w] = IF w = v THEN list ELSE lists[w]
  BY <1>2, ExceptSeq
<1> HIDE DEF new
<1>5. QED
  BY <1>2, <1>3, <1>4

-----------------------------------------------------------------------------
(* What a step may do to the attempts                                      *)

(* The attempt a becomes b in a step of a handler whose record is r, where a *)
(* is, or is not, the attempt the record is of.                             *)
Moves(h, r, mine, a, b) ==
    /\ b.state = "active" => a.state = "active" /\ b.owner \in {a.owner, h}
    /\ a.named => b.named
    /\ ~a.named /\ b.named => a.owner = h
    /\ b.boxes \in Nat
    /\ b.boxes = a.boxes \/ (b.boxes > a.boxes /\ Sandboxed(r) /\ mine)
    /\ b.up /\ ~a.up => Sandboxed(r) /\ mine
    /\ b.evidence = a.evidence
       \/ /\ b.evidence # NoEvidence /\ a.state = "active" /\ a.owner = h /\ mine
          /\ Verdict(b.evidence) => Convinced(r)

Fresh(list, from) == \A n \in 1 .. Len(list) : n > from => list[n].evidence = NoEvidence

Evolves(h, lists) ==
    /\ Len(lists) \in Nat /\ Len(lists) >= Len(attempts)
    /\ \A v \in 1 .. Len(lists) : v > Len(attempts) => Len(lists[v]) = 0
    /\ \A v \in 1 .. Len(attempts) :
          /\ Fresh(lists[v], Len(attempts[v]))
          /\ Len(lists[v]) \in Nat /\ Len(lists[v]) >= Len(attempts[v])
          /\ \A n \in 1 .. Len(attempts[v]) :
                Moves(h, handler[h], V(h) = v /\ handler[h].n = n, attempts[v][n], lists[v][n])

(* No verdict reaches the attempts of a verification while another handler    *)
(* holds the reservation and is about to create a Sandbox for it.            *)
LEMMA StillVerdictFree ==
    ASSUME Inv, NEW h \in Handler, Evolves(h, attempts'), slot' \in {slot, "free", h},
           NEW g \in Handler \ {h}, handler[g].at = "create", slot' = g
    PROVE  VerdictFree(attempts'[handler[g].v])
<1> DEFINE v == handler[g].v
<1>1. slot = g
  BY Shape DEF Inv
<1>2. v \in 1 .. Len(attempts) /\ VerdictFree(attempts[v])
  BY <1>1, Ready DEF RecordOK
<1>3. Alone(handler[g], g, handler[h], h, attempts, slot)
  BY DEF Inv, HandlersOK
<1>4. Len(attempts[v]) \in Nat /\ Len(attempts'[v]) \in Nat
  BY <1>2, Shape DEF Inv, Evolves
<1> SUFFICES ASSUME NEW k \in 1 .. Len(attempts'[v]), Verdict(attempts'[v][k].evidence)
             PROVE  FALSE
  BY DEF VerdictFree
<1>5. CASE k > Len(attempts[v])
  BY <1>2, <1>5 DEF Evolves, Fresh, Verdict, NoEvidence
<1>6. CASE ~(k > Len(attempts[v]))
  <2>1. k \in 1 .. Len(attempts[v])
    BY <1>4, <1>6
  <2>2. /\ Moves(h, handler[h], V(h) = v /\ handler[h].n = k, attempts[v][k], attempts'[v][k])
        /\ ~Verdict(attempts[v][k].evidence)
    BY <1>2, <2>1 DEF Evolves, VerdictFree
  <2>3. /\ attempts[v][k].state = "active" /\ attempts[v][k].owner = h
        /\ V(h) = v /\ handler[h].n = k /\ Convinced(handler[h])
    BY <2>2 DEF Moves
  <2>4. QED
    BY <1>1, <1>3, <2>3 DEF Alone, Token, V
<1>7. QED
  BY <1>5, <1>6

(* The record of another handler stays true.                                *)
LEMMA OtherKept ==
    ASSUME Inv, NEW h \in Handler, Evolves(h, attempts'), slot' \in {slot, "free", h},
           NEW g \in Handler \ {h}
    PROVE  RecordOK(handler[g], g, attempts', slot', baseline)
<1> DEFINE r == handler[g]
           a == attempts[r.v][r.n]
           b == attempts'[r.v][r.n]
<1>1. r \in Local /\ RecordOK(r, g, attempts, slot, baseline) /\ Apart(r, handler[h])
  BY Ready DEF HandlersOK
<1>2. r.at # "idle" => r.v \in 1 .. Len(attempts) /\ r.v \in 1 .. Len(attempts')
  BY <1>1, Shape DEF RecordOK, Evolves, Inv
<1> DEFINE posted == r.at # "idle" /\ r.n \in 1 .. Len(attempts[r.v])
           mine == handler[h].v = r.v /\ handler[h].n = r.n
<1>3. ASSUME posted
      PROVE  /\ r.n \in 1 .. Len(attempts'[r.v])
             /\ Moves(h, handler[h], mine, a, b)
             /\ a \in Attempt
  <2>1. r.v \in 1 .. Len(attempts) /\ r.n \in 1 .. Len(attempts[r.v])
    BY <1>2, <1>3
  <2>2. Len(attempts[r.v]) \in Nat /\ a \in Attempt
    BY <2>1, Shape DEF Inv
  <2>3. Len(attempts'[r.v]) \in Nat /\ Len(attempts'[r.v]) >= Len(attempts[r.v])
    BY <2>1 DEF Evolves
  <2>4. Moves(h, handler[h], V(h) = r.v /\ handler[h].n = r.n, a, b)
    BY <2>1 DEF Evolves
  <2>5. QED
    BY <2>1, <2>2, <2>3, <2>4 DEF V
<1>4. r.at \notin Idling \cup {"record"} => posted
  BY <1>1 DEF RecordOK, Idling
<1>5. r.at = "record" /\ r.n # 0 => posted
  BY <1>1 DEF RecordOK
<1>6. ASSUME posted
      PROVE  /\ b.state = "active" => a.state = "active"
             /\ b.state = "active" /\ b.owner = g => a.owner = g
             /\ a.named => b.named
             /\ ~a.named /\ b.named => a.owner # g
             /\ b.evidence = a.evidence \/ (b.evidence # NoEvidence /\ a.owner # g)
             /\ a.boxes > 0 => b.boxes > 0
             /\ a.boxes \in Nat /\ a.named \in BOOLEAN
  <2>1. Moves(h, handler[h], mine, a, b) /\ a \in Attempt
    BY <1>3, <1>6
  <2>2. a.boxes \in Nat /\ a.named \in BOOLEAN
    BY <2>1 DEF Attempt
  <2> HIDE DEF a, b, mine, r
  <2>3. b.boxes \in Nat /\ (b.boxes = a.boxes \/ b.boxes > a.boxes)
    BY <2>1 DEF Moves
  <2>4. a.boxes > 0 => b.boxes > 0
    BY <2>2, <2>3, SMTT(30)
  <2>5. QED
    BY <2>1, <2>2, <2>4 DEF Moves
<1>7. posted /\ Sandboxed(r) => b.boxes = a.boxes /\ (b.up => a.up)
  BY <1>1, <1>3 DEF Moves, Apart
<1>8. Sandboxed(r) <=> (r.at \in {"create", "run"} \/ Convinced(r))
  BY DEF Sandboxed
<1> HIDE DEF r, a, b, posted, mine
<1>9. Token(r, g, attempts) <=> (a.state = "active" /\ a.owner = g)
  BY DEF Token, a
<1>10. Token(r, g, attempts') <=> (b.state = "active" /\ b.owner = g)
  BY DEF Token, b
<1>11. posted /\ Token(r, g, attempts') =>
           Token(r, g, attempts) /\ (b.named <=> a.named) /\ b.evidence = a.evidence
  BY <1>6, <1>9, <1>10
<1>12. attempts[r.v][r.n] = a /\ attempts'[r.v][r.n] = b
  BY DEF a, b
<1>13. /\ r.at # "idle" => r.v \in 1 .. Len(attempts')
       /\ r.at \in Idling => r.n = 0
       /\ r.at \notin Idling \cup {"record"} => r.n \in 1 .. Len(attempts'[r.v])
       /\ r.at = "record" /\ r.n # 0 =>
            r.n \in 1 .. Len(attempts'[r.v]) /\ b.state # "active"
       /\ r.at \in {"request", "create", "run", "persist"} => baseline # "unusable"
       /\ r.at \in Working => r.held
       /\ Sound(r.reports, baseline) /\ (r.reports # NoEvidence <=> r.at = "persist")
  BY <1>1, <1>2, <1>3, <1>4, <1>5, <1>6, <1>12 DEF RecordOK
<1>14. /\ r.at \in {"prepare", "request"} /\ Token(r, g, attempts') => ~b.named
       /\ r.at \in {"create", "run"} => b.named
       /\ r.at \in Working /\ Token(r, g, attempts') => b.evidence = NoEvidence
  BY <1>1, <1>4, <1>6, <1>11, <1>12 DEF RecordOK, Idling, Working
<1>15. /\ r.at = "create" => b.boxes = 0
       /\ r.at = "run" => b.boxes > 0
       /\ Convinced(r) => b.boxes > 0 /\ ~b.up
  BY <1>1, <1>4, <1>7, <1>8, <1>12 DEF RecordOK, Idling, Convinced
<1>16. r.at = "finalize" => b.evidence # NoEvidence /\ (~r.held => b.state # "active")
  BY <1>1, <1>4, <1>6, <1>12 DEF RecordOK, Idling
<1>17. r.at = "create" /\ slot' = g => VerdictFree(attempts'[r.v])
  BY StillVerdictFree DEF r
<1>18. RecordOK(r, g, attempts', slot', baseline)
  BY <1>12, <1>13, <1>14, <1>15, <1>16, <1>17 DEF RecordOK
<1>19. QED
  BY <1>18 DEF r

-----------------------------------------------------------------------------
(* One handler moves                                                       *)

Same(h, r) == r.v = V(h) /\ r.n = handler[h].n

(* How handler h comes to a record r that may have a Sandbox or a verdict:   *)
(* it had it before, or its attempt had none; it holds the reservation.      *)
Entered(h, r, lists) ==
    /\ Sandboxed(r) =>
          /\ r.v \in 1 .. Len(attempts) /\ r.n \in 1 .. Len(attempts[r.v])
          /\ lists[r.v][r.n].evidence = attempts[r.v][r.n].evidence
          /\ \/ Sandboxed(handler[h]) /\ Same(h, r)
             \/ ~attempts[r.v][r.n].named
    /\ Convinced(r) => slot = h \/ (Convinced(handler[h]) /\ Same(h, r) /\ lists = attempts)
    /\ r.at = "create" => \/ Token(r, h, lists)
                          \/ handler[h].at = "create" /\ Same(h, r) /\ slot' = slot

RowsFollow ==
    \A v \in 1 .. Len(attempts') :
        \/ RowOK(rows'[v], attempts'[v])
        \/ v \in 1 .. Len(attempts) /\ rows'[v] = rows[v]

(* An attempt that has ended keeps its evidence, and its row what it says.   *)
LEMMA RowsKept ==
    ASSUME Inv, NEW h, Evolves(h, attempts'), RowsFollow
    PROVE  \A v \in 1 .. Len(attempts') : RowOK(rows'[v], attempts'[v])
<1> SUFFICES ASSUME NEW v \in 1 .. Len(attempts), rows'[v] = rows[v],
                    rows[v].state = "completed"
             PROVE  RowOK(rows'[v], attempts'[v])
  BY DEF RowsFollow, RowOK
<1>1. RowOK(rows[v], attempts[v]) /\ Len(attempts[v]) \in Nat
  BY Shape DEF Inv, AttemptsOK
<1> DEFINE n == rows[v].from
<1>2. n \in 1 .. Len(attempts[v]) /\ attempts[v][n].state # "active"
  BY <1>1 DEF RowOK
<1>3. Len(attempts'[v]) \in Nat /\ Len(attempts'[v]) >= Len(attempts[v])
      /\ Moves(h, handler[h], V(h) = v /\ handler[h].n = n, attempts[v][n], attempts'[v][n])
  BY <1>2 DEF Evolves
<1>4. attempts'[v][n].state # "active" /\ attempts'[v][n].evidence = attempts[v][n].evidence
  BY <1>2, <1>3 DEF Moves
<1>5. QED
  BY <1>1, <1>2, <1>3, <1>4 DEF RowOK

(* A Sandbox in use was named before.                                       *)
LEMMA SandboxedIsNamed ==
    ASSUME Inv, NEW g \in Handler, Sandboxed(handler[g])
    PROVE  LET q == handler[g]
           IN  /\ q.v \in 1 .. Len(attempts) /\ q.n \in 1 .. Len(attempts[q.v])
               /\ attempts[q.v][q.n].named
<1> DEFINE q == handler[g]
           a == attempts[q.v][q.n]
<1>1. RecordOK(q, g, attempts, slot, baseline)
  BY Ready
<1>2. q.at \in {"create", "run", "persist"}
  BY DEF Sandboxed, Convinced
<1>3. q.v \in 1 .. Len(attempts) /\ q.n \in 1 .. Len(attempts[q.v])
  BY <1>1, <1>2 DEF RecordOK, Idling
<1>4. AttemptOK(a, q.n, Len(attempts[q.v]), baseline) /\ a \in Attempt
  BY <1>3, Shape DEF Inv, AttemptsOK
<1>5. q.at \in {"create", "run"} => a.named
  BY <1>1 DEF RecordOK
<1>6. q.at = "persist" => a.boxes > 0
  BY <1>1, <1>2 DEF RecordOK, Sandboxed
<1>7. a.named
  <2>1. ~a.named => a.boxes = 0
    BY <1>4 DEF AttemptOK
  <2> HIDE DEF a, q
  <2>2. QED
    BY <1>2, <1>5, <1>6, <2>1, SMTT(30)
<1>8. QED
  BY <1>3, <1>7

LEMMA HandlerMoves ==
    ASSUME Inv, TypeOK', NEW h \in Handler, NEW r \in Local,
           handler' = [handler EXCEPT ![h] = r],
           Evolves(h, attempts'), slot' \in {slot, "free", h}, baseline' = baseline,
           RecordOK(r, h, attempts', slot', baseline), Entered(h, r, attempts'), RowsFollow,
           \A v \in 1 .. Len(attempts') : \A n \in 1 .. Len(attempts'[v]) :
              AttemptOK(attempts'[v][n], n, Len(attempts'[v]), baseline)
    PROVE  Inv'
<1>1. /\ handler'[h] = r
      /\ \A g \in Handler \ {h} : handler'[g] = handler[g]
  BY DEF Inv, TypeOK
<1>2. "free" \notin Handler
  BY Shape DEF Inv
<1>3. ASSUME NEW g \in Handler \ {h}
      PROVE  RecordOK(handler[g], g, attempts', slot', baseline)
  BY OtherKept
<1>4. ASSUME NEW g \in Handler \ {h}, Sandboxed(handler[g]), Sandboxed(r),
             r.v = handler[g].v, r.n = handler[g].n
      PROVE  FALSE
  <2>1. attempts[r.v][r.n].named
    BY <1>4, SandboxedIsNamed
  <2>2. Sandboxed(handler[h]) /\ Same(h, r)
    BY <1>4, <2>1 DEF Entered
  <2>3. Apart(handler[h], handler[g])
    BY DEF Inv, HandlersOK
  <2>4. QED
    BY <1>4, <2>2, <2>3 DEF Apart, Same, V
<1>5. ASSUME NEW g \in Handler \ {h}
      PROVE  Alone(r, h, handler[g], g, attempts', slot')
  <2> SUFFICES ASSUME r.at = "create", slot' = h, Convinced(handler[g]), handler[g].v = r.v,
                      Token(handler[g], g, attempts')
               PROVE  FALSE
    BY DEF Alone
  <2> DEFINE q == handler[g]
             size == Len(attempts'[q.v])
  <2>1. RecordOK(q, g, attempts', slot', baseline) /\ q.at = "persist"
    BY <1>3 DEF Convinced
  <2>2. q.v \in 1 .. Len(attempts') /\ q.n \in 1 .. size
    BY <2>1 DEF RecordOK, Idling
  <2>3. q.n = size /\ attempts'[q.v][q.n].owner = g
    BY <2>2 DEF AttemptOK, Token
  <2>4. CASE Token(r, h, attempts')
    <3>1. r.n \in 1 .. Len(attempts'[r.v])
      BY DEF RecordOK, Idling
    <3>2. r.n = size
      BY <2>2, <2>4, <3>1, SMTT(30) DEF AttemptOK, Token
    <3>3. QED
      BY <2>3, <2>4, <3>2 DEF Token
  <2>5. CASE handler[h].at = "create" /\ Same(h, r) /\ slot' = slot
    <3>1. Alone(handler[h], h, q, g, attempts, slot)
      BY DEF Inv, HandlersOK
    <3>2. ~Token(q, g, attempts)
      BY <2>5, <3>1, SMTT(30) DEF Alone, Same, V
    <3>3. q.v \in 1 .. Len(attempts) /\ q.n \in 1 .. Len(attempts[q.v])
      BY Ready, <2>1 DEF RecordOK, Idling
    <3>4. Moves(h, handler[h], V(h) = q.v /\ handler[h].n = q.n,
                attempts[q.v][q.n], attempts'[q.v][q.n])
      BY <3>3 DEF Evolves
    <3>5. QED
      BY <3>2, <3>4 DEF Moves, Token
  <2>6. QED
    BY <2>4, <2>5 DEF Entered
<1>6. ASSUME NEW g \in Handler \ {h}
      PROVE  Alone(handler[g], g, r, h, attempts', slot')
  <2> SUFFICES ASSUME handler[g].at = "create", slot' = g, Convinced(r), r.v = handler[g].v,
                      Token(r, h, attempts')
               PROVE  FALSE
    BY DEF Alone
  <2>1. slot = g
    BY <1>2
  <2>2. Convinced(handler[h]) /\ Same(h, r) /\ attempts' = attempts
    BY <2>1 DEF Entered
  <2>3. Alone(handler[g], g, handler[h], h, attempts, slot)
    BY DEF Inv, HandlersOK
  <2>4. QED
    BY <2>1, <2>2, <2>3 DEF Alone, Same, V, Token
<1>7. ASSUME NEW g \in Handler \ {h}, NEW k \in Handler \ {h}, g # k
      PROVE  Apart(handler[g], handler[k]) /\ Alone(handler[g], g, handler[k], k, attempts', slot')
  <2>1. Apart(handler[g], handler[k]) /\ Alone(handler[g], g, handler[k], k, attempts, slot)
    BY <1>7 DEF Inv, HandlersOK
  <2> SUFFICES ASSUME handler[g].at = "create", slot' = g, Convinced(handler[k]),
                      handler[k].v = handler[g].v, Token(handler[k], k, attempts')
               PROVE  FALSE
    BY <2>1 DEF Alone
  <2> DEFINE q == handler[k]
  <2>2. slot = g
    BY <1>2, SMTT(30)
  <2>3. q.v \in 1 .. Len(attempts) /\ q.n \in 1 .. Len(attempts[q.v])
    BY Ready DEF RecordOK, Idling, Convinced
  <2>4. Moves(h, handler[h], V(h) = q.v /\ handler[h].n = q.n,
              attempts[q.v][q.n], attempts'[q.v][q.n])
    BY <2>3, SMTT(30) DEF Evolves
  <2>5. Token(q, k, attempts)
    BY <2>4 DEF Moves, Token
  <2>6. QED
    BY <2>1, <2>2, <2>5 DEF Alone
<1>8. /\ \A g \in Handler : RecordOK(handler'[g], g, attempts', slot', baseline')
      /\ \A g, k \in Handler : g # k => /\ Apart(handler'[g], handler'[k])
                                        /\ Alone(handler'[g], g, handler'[k], k, attempts', slot')
  <2>1. ASSUME NEW g \in Handler
        PROVE  RecordOK(handler'[g], g, attempts', slot', baseline')
    BY <1>1, <1>3
  <2>2. ASSUME NEW g \in Handler, NEW k \in Handler, g # k
        PROVE  Apart(handler'[g], handler'[k])
    BY <1>1, <1>4, <1>7, <2>2 DEF Apart
  <2>3. ASSUME NEW g \in Handler, NEW k \in Handler, g # k
        PROVE  Alone(handler'[g], g, handler'[k], k, attempts', slot')
    BY <1>1, <1>5, <1>6, <1>7, <2>3
  <2>4. QED
    BY <2>1, <2>2, <2>3
<1>9. HandlersOK'
  BY <1>8 DEF HandlersOK
<1>10. ASSUME NEW v \in 1 .. Len(attempts'), NEW n \in 1 .. Len(attempts'[v]),
              Verdict(attempts'[v][n].evidence), NEW g \in Handler,
              Sandboxed(handler'[g]), handler'[g].v = v, handler'[g].n = n
       PROVE  FALSE
  <2> DEFINE a == attempts[v][n]
             b == attempts'[v][n]
  <2>1. CASE g = h
    <3>1. /\ v \in 1 .. Len(attempts) /\ n \in 1 .. Len(attempts[v])
          /\ Verdict(a.evidence)
          /\ (Sandboxed(handler[h]) /\ V(h) = v /\ handler[h].n = n) \/ ~a.named
      BY <1>1, <1>10, <2>1 DEF Entered, Same
    <3>2. a \in Attempt /\ AttemptOK(a, n, Len(attempts[v]), baseline)
      BY <3>1, Shape DEF Inv, AttemptsOK
    <3>3. a.named
      BY <3>1, <3>2 DEF AttemptOK, Attempt
    <3>4. QED
      BY <3>1, <3>3 DEF Inv, AttemptsOK, V
  <2>2. CASE g # h
    <3>1. handler'[g] = handler[g] /\ g \in Handler \ {h}
      BY <1>1, <2>2
    <3>2. v \in 1 .. Len(attempts) /\ n \in 1 .. Len(attempts[v])
      BY <1>10, <3>1, SandboxedIsNamed
    <3>3. Moves(h, handler[h], V(h) = v /\ handler[h].n = n, a, b) /\ ~Verdict(a.evidence)
      BY <1>10, <3>1, <3>2 DEF Evolves, Inv, AttemptsOK
    <3>4. Convinced(handler[h]) /\ V(h) = v /\ handler[h].n = n
      BY <1>10, <3>3 DEF Moves
    <3>5. Apart(handler[h], handler[g])
      BY <3>1 DEF Inv, HandlersOK
    <3>6. QED
      BY <1>10, <3>1, <3>4, <3>5 DEF Apart, Sandboxed, V
  <2>3. QED
    BY <2>1, <2>2
<1>11. \A v \in 1 .. Len(attempts') : RowOK(rows'[v], attempts'[v])
  BY RowsKept
<1>12. AttemptsOK'
  BY <1>10, <1>11 DEF AttemptsOK
<1>13. QED
  BY <1>9, <1>12 DEF Inv

-----------------------------------------------------------------------------
(* The kinds of steps                                                      *)

(* A step of one handler leaves the scene alone and adds no row; where it    *)
(* writes a row, the row is not completed or says what its attempts say.     *)
Keeps ==
    /\ UNCHANGED scene
    /\ rows' \in Seq(Row) /\ Len(rows') = Len(rows)
    /\ \A v \in 1 .. Len(rows) : rows'[v] = rows[v] \/ RowOK(rows'[v], attempts[v])
    /\ job' \in [Verification -> Job]
    /\ faults' \in 0 .. MaxFaults

LEMMA KeptTyped ==
    ASSUME Inv, Keeps, handler' \in [Handler -> Local], slot' \in Handler \cup {"free"},
           attempts' \in Seq(Seq(Attempt)), Len(attempts') = Len(attempts),
           \A v \in 1 .. Len(attempts) : Len(attempts'[v]) <= MaxAttempts
    PROVE  TypeOK'
<1>1. TypeOK /\ Verification = 1 .. Len(rows) /\ Len(attempts) = Len(rows)
      /\ Len(rows) \in Nat
  BY Shape DEF Inv
<1>2. Verification' = 1 .. Len(rows)
  BY <1>1 DEF Verification, Keeps
<1>3. Len(rows') <= MaxVerifications
  BY <1>1 DEF Keeps, TypeOK
<1>4. attempts' \in [1 .. Len(rows) -> Seq(Attempt)]
  <2>1. attempts' \in [1 .. Len(attempts') -> Seq(Attempt)]
    OBVIOUS
  <2>2. QED
    BY <1>1, <2>1
<1>5. candidate' = candidate /\ baseline' = baseline /\ loop' = loop /\ bound' = bound
      /\ asking' = asking /\ granted' = granted /\ public' = public
  BY DEF Keeps, scene
<1>6. job' \in [1 .. Len(rows) -> Job] /\ faults' \in 0 .. MaxFaults /\ rows' \in Seq(Row)
  BY <1>1 DEF Keeps
<1>7. \A v \in 1 .. Len(rows) : Len(attempts'[v]) <= MaxAttempts
  BY <1>1
<1>8. QED
  BY <1>1, <1>2, <1>3, <1>4, <1>5, <1>6, <1>7 DEF TypeOK

LEMMA Stays ==
    ASSUME Inv, NEW h \in Handler
    PROVE  Evolves(h, attempts)
<1>1. \A v \in 1 .. Len(attempts) : \A n \in 1 .. Len(attempts[v]) :
         Moves(h, handler[h], V(h) = v /\ handler[h].n = n, attempts[v][n], attempts[v][n])
  BY Shape DEF Inv, Moves, Attempt
<1>2. \A v \in 1 .. Len(attempts) : Fresh(attempts[v], Len(attempts[v]))
  BY Shape DEF Inv, Fresh
<1>3. QED
  BY <1>1, <1>2, Shape DEF Inv, Evolves

(* A step that leaves the attempts alone.                                   *)
LEMMA PlainMove ==
    ASSUME Inv, Keeps, NEW h \in Handler, NEW r \in Local, attempts' = attempts,
           handler' = [handler EXCEPT ![h] = r], slot' \in {slot, "free"},
           RecordOK(r, h, attempts, slot', baseline),
           Sandboxed(r) => /\ r.at = handler[h].at /\ r.reports = handler[h].reports
                           /\ Same(h, r) /\ slot' = slot
    PROVE  Inv'
<1>1. TypeOK /\ handler' \in [Handler -> Local] /\ slot \in Handler \cup {"free"}
  BY DEF Inv, TypeOK
<1>2. TypeOK'
  BY <1>1, KeptTyped, Shape DEF Inv
<1>3. Evolves(h, attempts')
  BY Stays
<1>4. baseline' = baseline
  BY DEF Keeps, scene
<1>5. Entered(h, r, attempts')
  <2>1. Sandboxed(r) => Sandboxed(handler[h]) /\ Same(h, r)
    BY DEF Sandboxed, Convinced
  <2>2. Sandboxed(r) => r.v \in 1 .. Len(attempts) /\ r.n \in 1 .. Len(attempts[r.v])
    BY <2>1, SandboxedIsNamed DEF Same, V
  <2>3. Convinced(r) => Convinced(handler[h]) /\ Same(h, r)
    BY DEF Sandboxed, Convinced
  <2>4. r.at = "create" => handler[h].at = "create" /\ Same(h, r) /\ slot' = slot
    BY DEF Sandboxed
  <2>5. QED
    BY <2>1, <2>2, <2>3, <2>4 DEF Entered
<1>6. RowsFollow
  BY Shape DEF Keeps, RowsFollow, Inv
<1>7. \A v \in 1 .. Len(attempts') : \A n \in 1 .. Len(attempts'[v]) :
         AttemptOK(attempts'[v][n], n, Len(attempts'[v]), baseline)
  BY DEF Inv, AttemptsOK
<1>8. QED
  BY <1>2, <1>3, <1>4, <1>5, <1>6, <1>7, HandlerMoves

(* A step that changes one attempt of the handler's verification.           *)
LEMMA EntryChanges ==
    ASSUME Inv, NEW h \in Handler, NEW v \in 1 .. Len(attempts), v = V(h),
           NEW n \in 1 .. Len(attempts[v]), NEW b \in Attempt,
           attempts' = [attempts EXCEPT ![v][n] = b],
           Moves(h, handler[h], handler[h].n = n, attempts[v][n], b),
           AttemptOK(b, n, Len(attempts[v]), baseline)
    PROVE  /\ attempts' \in Seq(Seq(Attempt)) /\ Len(attempts') = Len(attempts)
           /\ \A w \in 1 .. Len(attempts) : Len(attempts'[w]) = Len(attempts[w])
           /\ attempts'[v][n] = b
           /\ \A w \in 1 .. Len(attempts) : \A m \in 1 .. Len(attempts[w]) :
                 w # v \/ m # n => attempts'[w][m] = attempts[w][m]
           /\ Evolves(h, attempts')
           /\ \A w \in 1 .. Len(attempts') : \A m \in 1 .. Len(attempts'[w]) :
                 AttemptOK(attempts'[w][m], m, Len(attempts'[w]), baseline)
<1>1. attempts \in Seq(Seq(Attempt)) /\ Len(attempts) \in Nat
  BY Shape DEF Inv
<1>2. /\ attempts' \in Seq(Seq(Attempt)) /\ Len(attempts') = Len(attempts)
      /\ \A w \in 1 .. Len(attempts) : Len(attempts'[w]) = Len(attempts[w])
      /\ attempts'[v][n] = b
      /\ \A w \in 1 .. Len(attempts) : \A m \in 1 .. Len(attempts[w]) :
            w # v \/ m # n => attempts'[w][m] = attempts[w][m]
  BY <1>1, SetEntry
<1>3. ASSUME NEW w \in 1 .. Len(attempts), NEW m \in 1 .. Len(attempts[w])
      PROVE  /\ Moves(h, handler[h], V(h) = w /\ handler[h].n = m, attempts[w][m], attempts'[w][m])
             /\ AttemptOK(attempts'[w][m], m, Len(attempts[w]), baseline)
  <2>1. CASE w = v /\ m = n
    BY <1>2, <2>1
  <2>2. CASE ~(w = v /\ m = n)
    <3>1. attempts'[w][m] = attempts[w][m]
      BY <1>2, <2>2
    <3>2. AttemptOK(attempts[w][m], m, Len(attempts[w]), baseline)
      BY DEF Inv, AttemptsOK
    <3>3. Moves(h, handler[h], V(h) = w /\ handler[h].n = m, attempts[w][m], attempts[w][m])
      BY Stays DEF Evolves
    <3>4. QED
      BY <3>1, <3>2, <3>3
  <2>3. QED
    BY <2>1, <2>2
<1>4. \A w \in 1 .. Len(attempts) : Len(attempts[w]) \in Nat
  BY Shape DEF Inv
<1>5. \A w \in 1 .. Len(attempts) : Fresh(attempts'[w], Len(attempts[w]))
  BY <1>2, <1>4 DEF Fresh
<1>6. Evolves(h, attempts')
  <2>1. /\ Len(attempts') \in Nat /\ Len(attempts') >= Len(attempts)
        /\ \A w \in 1 .. Len(attempts') : w > Len(attempts) => Len(attempts'[w]) = 0
    BY <1>1, <1>2
  <2>2. ASSUME NEW w \in 1 .. Len(attempts)
        PROVE  Len(attempts'[w]) \in Nat /\ Len(attempts'[w]) >= Len(attempts[w])
    <3>1. Len(attempts'[w]) = Len(attempts[w]) /\ Len(attempts[w]) \in Nat
      BY <1>2, <1>4
    <3>2. QED
      BY <3>1
  <2>3. QED
    BY <1>3, <1>5, <2>1, <2>2 DEF Evolves
<1>7. QED
  BY <1>2, <1>3, <1>6

LEMMA MineStep ==
    ASSUME Inv, Keeps, NEW h \in Handler, NEW v \in 1 .. Len(attempts), v = V(h),
           NEW n \in 1 .. Len(attempts[v]), NEW b \in Attempt,
           attempts' = [attempts EXCEPT ![v][n] = b],
           Moves(h, handler[h], handler[h].n = n, attempts[v][n], b),
           AttemptOK(b, n, Len(attempts[v]), baseline),
           NEW r \in Local, handler' = [handler EXCEPT ![h] = r], slot' \in {slot, "free", h},
           RecordOK(r, h, attempts', slot', baseline), Entered(h, r, attempts'),
           \A w \in 1 .. Len(rows) : rows'[w] = rows[w] \/ rows'[w].state # "completed"
    PROVE  Inv'
<1>1. /\ attempts' \in Seq(Seq(Attempt)) /\ Len(attempts') = Len(attempts)
      /\ \A w \in 1 .. Len(attempts) : Len(attempts'[w]) = Len(attempts[w])
      /\ Evolves(h, attempts')
      /\ \A w \in 1 .. Len(attempts') : \A m \in 1 .. Len(attempts'[w]) :
            AttemptOK(attempts'[w][m], m, Len(attempts'[w]), baseline)
  BY EntryChanges
<1>2. handler' \in [Handler -> Local] /\ slot' \in Handler \cup {"free"}
  BY DEF Inv, TypeOK
<1>3. TypeOK'
  BY <1>1, <1>2, KeptTyped, Shape DEF Inv
<1>4. RowsFollow
  BY <1>1, Shape DEF Inv, RowsFollow, RowOK
<1>5. baseline' = baseline
  BY DEF Keeps, scene
<1>6. QED
  BY <1>1, <1>3, <1>4, <1>5, HandlerMoves

-----------------------------------------------------------------------------
(* Steps of the surroundings                                               *)

(* Every attempt keeps everything but its lease; a new verification has none. *)
Steady ==
    /\ Len(attempts') \in Nat /\ Len(attempts') >= Len(attempts)
    /\ \A v \in 1 .. Len(attempts') : v > Len(attempts) =>
          Len(attempts'[v]) = 0 /\ rows'[v].state # "completed"
    /\ \A v \in 1 .. Len(attempts) :
          /\ rows'[v] = rows[v] /\ Len(attempts'[v]) = Len(attempts[v])
          /\ \A n \in 1 .. Len(attempts[v]) :
                LET a == attempts[v][n]
                    b == attempts'[v][n]
                IN  /\ b.state = a.state /\ b.owner = a.owner /\ b.named = a.named
                    /\ b.boxes = a.boxes /\ b.up = a.up /\ b.evidence = a.evidence
                    /\ b.cited = a.cited

LEMMA NobodyMoves ==
    ASSUME Inv, TypeOK', Steady, handler' = handler, baseline' = baseline,
           slot' \in {slot, "free"}
    PROVE  Inv'
<1>1. \A v \in 1 .. Len(attempts) : v \in 1 .. Len(attempts')
  BY Shape DEF Inv, Steady
<1>2. \A v \in 1 .. Len(attempts') : v \in 1 .. Len(attempts) \/ v > Len(attempts)
  BY Shape DEF Inv, Steady
<1>3. ASSUME NEW v \in 1 .. Len(attempts), VerdictFree(attempts[v])
      PROVE  VerdictFree(attempts'[v])
  BY <1>3 DEF VerdictFree, Steady
<1>4. ASSUME NEW h \in Handler
      PROVE  /\ RecordOK(handler[h], h, attempts', slot', baseline)
             /\ slot' = h => slot = h
  <2> DEFINE r == handler[h]
             a == attempts[r.v][r.n]
             b == attempts'[r.v][r.n]
             posted == r.v \in 1 .. Len(attempts) /\ r.n \in 1 .. Len(attempts[r.v])
  <2>1. RecordOK(r, h, attempts, slot, baseline) /\ r \in Local
    BY Ready
  <2>2. posted => /\ r.n \in 1 .. Len(attempts'[r.v])
                  /\ b.state = a.state /\ b.owner = a.owner /\ b.named = a.named
                  /\ b.boxes = a.boxes /\ b.up = a.up /\ b.evidence = a.evidence
    BY DEF Steady
  <2>3. r.at \notin Idling \cup {"record"} \/ (r.at = "record" /\ r.n # 0) => posted
    BY <2>1 DEF RecordOK, Idling
  <2>4. slot' = h => slot = h
    BY Shape DEF Inv
  <2>5. r.at = "create" /\ slot' = h => VerdictFree(attempts'[r.v])
    BY <1>3, <2>1, <2>3, <2>4 DEF RecordOK, Idling
  <2>6. posted => (Token(r, h, attempts') <=> Token(r, h, attempts))
    BY <2>2 DEF Token
  <2>7. r.at # "idle" => r.v \in 1 .. Len(attempts')
    BY <1>1, <2>1 DEF RecordOK
  <2>8. attempts[r.v][r.n] = a /\ attempts'[r.v][r.n] = b
    OBVIOUS
  <2> HIDE DEF r, a, b, posted
  <2>9. /\ r.at \in Idling => r.n = 0
        /\ r.at \notin Idling \cup {"record"} => r.n \in 1 .. Len(attempts'[r.v])
        /\ r.at = "record" /\ r.n # 0 => r.n \in 1 .. Len(attempts'[r.v]) /\ b.state # "active"
        /\ r.at \in {"request", "create", "run", "persist"} => baseline # "unusable"
        /\ r.at \in Working => r.held
        /\ Sound(r.reports, baseline) /\ (r.reports # NoEvidence <=> r.at = "persist")
    BY <2>1, <2>2, <2>3, <2>8 DEF RecordOK
  <2>10. /\ r.at \in {"prepare", "request"} /\ Token(r, h, attempts') => ~b.named
         /\ r.at \in Working /\ Token(r, h, attempts') => b.evidence = NoEvidence
         /\ r.at \in {"create", "run"} => b.named
    BY <2>1, <2>2, <2>3, <2>6, <2>8 DEF RecordOK, Idling, Working
  <2>11. /\ r.at = "create" => b.boxes = 0
         /\ r.at = "run" => b.boxes > 0
         /\ Convinced(r) => b.boxes > 0 /\ ~b.up
         /\ r.at = "finalize" => b.evidence # NoEvidence /\ (~r.held => b.state # "active")
    BY <2>1, <2>2, <2>3, <2>8 DEF RecordOK, Idling, Convinced
  <2>12. RecordOK(r, h, attempts', slot', baseline)
    BY <2>5, <2>7, <2>8, <2>9, <2>10, <2>11 DEF RecordOK
  <2>13. QED
    BY <2>4, <2>12 DEF r
<1>5. ASSUME NEW h \in Handler, NEW g \in Handler, h # g
      PROVE  Apart(handler[h], handler[g]) /\ Alone(handler[h], h, handler[g], g, attempts', slot')
  <2>1. Apart(handler[h], handler[g]) /\ Alone(handler[h], h, handler[g], g, attempts, slot)
    BY <1>5 DEF Inv, HandlersOK
  <2>2. slot' = h => slot = h
    BY <1>4
  <2>3. ASSUME Convinced(handler[g])
        PROVE  /\ handler[g].v \in 1 .. Len(attempts)
               /\ handler[g].n \in 1 .. Len(attempts[handler[g].v])
    BY <2>3, Ready DEF RecordOK, Idling, Convinced
  <2>4. Convinced(handler[g]) =>
           (Token(handler[g], g, attempts') <=> Token(handler[g], g, attempts))
    BY <2>3 DEF Steady, Token
  <2>5. QED
    BY <2>1, <2>2, <2>4 DEF Alone
<1>6. HandlersOK'
  BY <1>4, <1>5 DEF HandlersOK
<1>7. ASSUME NEW v \in 1 .. Len(attempts')
      PROVE  /\ \A n \in 1 .. Len(attempts'[v]) :
                   /\ AttemptOK(attempts'[v][n], n, Len(attempts'[v]), baseline)
                   /\ Verdict(attempts'[v][n].evidence) =>
                         \A h \in Handler : ~(Sandboxed(handler[h]) /\ handler[h].v = v
                                              /\ handler[h].n = n)
             /\ RowOK(rows'[v], attempts'[v])
  <2>1. CASE v > Len(attempts)
    BY <2>1 DEF Steady, RowOK
  <2>2. CASE v \in 1 .. Len(attempts)
    <3>1. ASSUME NEW n \in 1 .. Len(attempts'[v])
          PROVE  /\ AttemptOK(attempts'[v][n], n, Len(attempts'[v]), baseline)
                 /\ Verdict(attempts'[v][n].evidence) =>
                         \A h \in Handler : ~(Sandboxed(handler[h]) /\ handler[h].v = v
                                              /\ handler[h].n = n)
      <4> DEFINE a == attempts[v][n]
                 b == attempts'[v][n]
      <4>1. n \in 1 .. Len(attempts[v]) /\ Len(attempts'[v]) = Len(attempts[v])
        BY <2>2 DEF Steady
      <4>2. /\ b.state = a.state /\ b.owner = a.owner /\ b.named = a.named
            /\ b.boxes = a.boxes /\ b.up = a.up /\ b.evidence = a.evidence
            /\ b.cited = a.cited
        BY <2>2, <4>1 DEF Steady
      <4>3. AttemptOK(a, n, Len(attempts[v]), baseline)
            /\ (Verdict(a.evidence) =>
                  \A h \in Handler : ~(Sandboxed(handler[h]) /\ handler[h].v = v
                                       /\ handler[h].n = n))
        BY <2>2, <4>1 DEF Inv, AttemptsOK
      <4> HIDE DEF a, b
      <4>4. AttemptOK(b, n, Len(attempts'[v]), baseline)
        BY <4>1, <4>2, <4>3 DEF AttemptOK
      <4>5. QED
        BY <4>2, <4>3, <4>4 DEF a, b
    <3>2. RowOK(rows'[v], attempts'[v])
      <4>1. RowOK(rows[v], attempts[v])
        BY <2>2 DEF Inv, AttemptsOK
      <4>2. rows'[v] = rows[v] /\ Len(attempts'[v]) = Len(attempts[v])
        BY <2>2 DEF Steady
      <4>3. CASE rows[v].state # "completed"
        BY <4>2, <4>3 DEF RowOK
      <4>4. CASE rows[v].state = "completed"
        <5> DEFINE n == rows[v].from
        <5>1. n \in 1 .. Len(attempts[v])
          BY <4>1, <4>4 DEF RowOK
        <5>2. attempts'[v][n].state = attempts[v][n].state
              /\ attempts'[v][n].evidence = attempts[v][n].evidence
          BY <2>2, <5>1 DEF Steady
        <5>3. QED
          BY <4>1, <4>2, <4>4, <5>1, <5>2 DEF RowOK
      <4>5. QED
        BY <4>3, <4>4
    <3>3. QED
      BY <3>1, <3>2
  <2>3. QED
    BY <1>2, <2>1, <2>2
<1>8. AttemptsOK'
  BY <1>7 DEF AttemptsOK
<1>9. QED
  BY <1>6, <1>8 DEF Inv

LEMMA InitHolds == Init => Inv
<1> SUFFICES ASSUME Init
             PROVE  Inv
  OBVIOUS
<1>1. rows = <<>> /\ attempts = <<>> /\ job = <<>> /\ Verification = {}
  BY DEF Init, Verification
<1>2. Idle \in Local
  BY ConstantsAssumption DEF Idle, Local
<1>3. handler \in [Handler -> Local]
  BY <1>2 DEF Init
<1>4. attempts \in [Verification -> Seq(Attempt)] /\ job \in [Verification -> Job]
  BY <1>1
<1>5. rows \in Seq(Row) /\ Len(rows) <= MaxVerifications /\ faults \in 0 .. MaxFaults
      /\ bound \in 0 .. MaxVerifications
  BY <1>1, ConstantsAssumption DEF Init
<1>6. TypeOK
  BY <1>1, <1>3, <1>4, <1>5 DEF Init, TypeOK
<1>7. AttemptsOK
  BY <1>1 DEF AttemptsOK
<1>8. \A h \in Handler : handler[h] = Idle
  BY DEF Init
<1>9. HandlersOK
  BY <1>8 DEF HandlersOK, RecordOK, Idle, Apart, Alone, Sandboxed, Convinced, Idling, Working,
              Sound, NoEvidence
<1>10. QED
  BY <1>6, <1>7, <1>9 DEF Inv

Scenery ==
    /\ candidate' \in {"none", "owner", "loop"}
    /\ loop' \in {"none", "active", "ended"}
    /\ bound' \in 0..MaxVerifications
    /\ {asking', granted', public'} \subseteq BOOLEAN
    /\ faults' \in 0 .. MaxFaults
    /\ UNCHANGED <<baseline, handler>>

LEMMA NothingAdded ==
    ASSUME Inv, Scenery, UNCHANGED <<rows, attempts>>, job' \in [Verification -> Job],
           slot' \in {slot, "free"}
    PROVE  Inv'
<1>1. TypeOK
  BY DEF Inv
<1>2. TypeOK'
  BY <1>1 DEF TypeOK, Scenery, Verification
<1>3. Steady
  BY Shape DEF Inv, Steady
<1>4. QED
  BY <1>2, <1>3, NobodyMoves DEF Scenery

LEMMA OneAdded ==
    ASSUME Inv, Scenery, NEW by \in {"owner", "loop"}, Added(by),
           Len(rows) < MaxVerifications, UNCHANGED slot
    PROVE  Inv'
<1> DEFINE row == [state |-> "queued", by |-> by, contract |-> "none",
                   comparison |-> "none", from |-> 0]
           new == [state |-> "created", retries |-> 0, holder |-> "nobody"]
           size == Len(rows)
<1>1. TypeOK /\ size \in Nat /\ Verification = 1 .. size /\ Len(attempts) = size
      /\ attempts \in Seq(Seq(Attempt)) /\ job \in [1 .. size -> Job]
  BY Shape DEF Inv
<1>2. row \in Row /\ new \in Job
  BY ConstantsAssumption DEF Row, Job
<1>3. rows \in Seq(Row)
  BY <1>1 DEF TypeOK
<1>4. job \in Seq(Job) /\ Len(job) = size
  <2> HIDE DEF size
  <2>1. size \in Nat /\ job \in [1 .. size -> Job]
    BY <1>1
  <2>2. QED
    BY <2>1, IsASeq
<1>5. /\ rows' = Append(rows, row) /\ attempts' = Append(attempts, <<>>)
      /\ job' = Append(job, new)
  BY DEF Added
<1> HIDE DEF row, new
<1>6. /\ rows' \in Seq(Row) /\ Len(rows') = size + 1 /\ rows'[size + 1] = row
      /\ \A v \in 1 .. size : rows'[v] = rows[v]
  BY <1>2, <1>3, <1>5
<1>7. /\ attempts' \in Seq(Seq(Attempt)) /\ Len(attempts') = size + 1
      /\ attempts'[size + 1] = <<>>
      /\ \A v \in 1 .. size : attempts'[v] = attempts[v]
  <2>1. <<>> \in Seq(Attempt)
    OBVIOUS
  <2>2. QED
    BY <1>1, <1>5, <2>1
<1>8. job' \in [1 .. size + 1 -> Job]
  <2>1. job' \in Seq(Job) /\ Len(job') = size + 1
    BY <1>2, <1>4, <1>5
  <2>2. job' \in [1 .. Len(job') -> Job]
    BY <2>1
  <2>3. QED
    BY <2>1, <2>2
<1>9. Verification' = 1 .. size + 1
  BY <1>1, <1>6 DEF Verification
<1>10. attempts' \in [1 .. size + 1 -> Seq(Attempt)]
  <2>1. attempts' \in [1 .. Len(attempts') -> Seq(Attempt)]
    BY <1>7
  <2>2. QED
    BY <1>7, <2>1
<1>11. \A v \in 1 .. size + 1 : Len(attempts'[v]) <= MaxAttempts
  <2>1. \A v \in 1 .. size : Len(attempts[v]) <= MaxAttempts
    BY <1>1 DEF TypeOK
  <2>2. \A v \in 1 .. size + 1 : v \in 1 .. size \/ v = size + 1
    BY <1>1
  <2>3. Len(attempts'[size + 1]) = 0 /\ MaxAttempts \in Nat
    BY <1>7, ConstantsAssumption
  <2>4. QED
    BY <1>7, <2>1, <2>2, <2>3
<1>12. size + 1 <= MaxVerifications
  BY <1>1, ConstantsAssumption
<1>13. TypeOK'
  BY <1>1, <1>6, <1>8, <1>9, <1>10, <1>11, <1>12 DEF TypeOK, Scenery
<1>14. Steady
  <2>1. \A v \in 1 .. Len(attempts') : v > Len(attempts) => v = size + 1
    BY <1>1, <1>7
  <2>2. Len(attempts'[size + 1]) = 0 /\ rows'[size + 1].state # "completed"
    BY <1>6, <1>7 DEF row
  <2>3. Len(attempts') \in Nat /\ Len(attempts') >= Len(attempts)
    BY <1>1, <1>7
  <2>4. QED
    BY <1>1, <1>6, <1>7, <2>1, <2>2, <2>3 DEF Steady
<1>15. QED
  BY <1>13, <1>14, NobodyMoves DEF Scenery

LEMMA SettledTyped ==
    ASSUME TypeOK, NEW v \in Verification, NEW status, Settled(v, status)
    PROVE  job' \in [Verification -> Job]
<1>1. job \in [Verification -> Job] /\ job[v] \in Job /\ RetryLimit \in Nat
  BY ConstantsAssumption DEF TypeOK
<1>2. job[v].state = "active" /\ job[v].retries < RetryLimit =>
         [job EXCEPT ![v].state = "retry", ![v].retries = @ + 1] \in [Verification -> Job]
  <2> SUFFICES ASSUME job[v].state = "active", job[v].retries < RetryLimit
               PROVE  [job EXCEPT ![v].state = "retry", ![v].retries = @ + 1]
                         \in [Verification -> Job]
    OBVIOUS
  <2>1. job[v].retries \in 0 .. RetryLimit
    BY <1>1 DEF Job
  <2>2. job[v].retries + 1 \in 0 .. RetryLimit
    BY <1>1, <2>1
  <2> DEFINE k == job[v].retries + 1
  <2>3. [job EXCEPT ![v].state = "retry", ![v].retries = @ + 1] =
           [job EXCEPT ![v] = [job[v] EXCEPT !.state = "retry", !.retries = k]]
    BY <1>1 DEF Job
  <2>4. k \in 0 .. RetryLimit
    BY <2>2
  <2> HIDE DEF k
  <2>5. [job[v] EXCEPT !.state = "retry", !.retries = k] \in Job
    BY <1>1, <2>4 DEF Job
  <2>6. QED
    BY <1>1, <2>3, <2>5
<1>3. \A s \in {"completed", "failed"} : [job EXCEPT ![v].state = s] \in [Verification -> Job]
  BY <1>1 DEF Job
<1>4. QED
  BY <1>1, <1>2, <1>3 DEF Settled

LEMMA FaultTyped ==
    ASSUME TypeOK, Fault
    PROVE  faults' \in 0 .. MaxFaults
BY ConstantsAssumption DEF TypeOK, Fault

LEMMA SceneHolds ==
    ASSUME Inv, UNCHANGED slot,
           \/ OwnerFreezes \/ StartLoop \/ LoopFreezes \/ EndLoop \/ Ask \/ GoPrivate
    PROVE  Inv'
<1>1. TypeOK
  BY DEF Inv
<1>2. Scenery
  BY <1>1, FaultTyped DEF OwnerFreezes, StartLoop, LoopFreezes, EndLoop, Ask, GoPrivate, TypeOK, Scenery
<1>3. UNCHANGED <<rows, attempts, job>>
  BY DEF OwnerFreezes, StartLoop, LoopFreezes, EndLoop, Ask, GoPrivate
<1>4. QED
  BY <1>1, <1>2, <1>3, NothingAdded DEF TypeOK

LEMMA LoopVerifiesHolds ==
    ASSUME Inv, UNCHANGED slot, LoopVerifies
    PROVE  Inv'
<1>1. TypeOK /\ MaxVerifications \in Nat /\ MaxVerifications > 0
  BY ConstantsAssumption DEF Inv
<1>2. Scenery
  BY <1>1 DEF LoopVerifies, TypeOK, Scenery
<1>3. CASE rows = <<>>
  BY <1>1, <1>2, <1>3, OneAdded DEF LoopVerifies
<1>4. CASE rows # <<>>
  BY <1>1, <1>2, <1>4, NothingAdded DEF LoopVerifies, TypeOK
<1>5. QED
  BY <1>3, <1>4

LEMMA StartHolds ==
    ASSUME Inv, UNCHANGED slot, NEW reverify \in BOOLEAN, Start(reverify)
    PROVE  Inv'
<1>1. TypeOK
  BY DEF Inv
<1>2. Scenery
  BY <1>1 DEF Start, TypeOK, Scenery
<1>3. UNCHANGED <<rows, attempts, job>> \/ (Len(rows) < MaxVerifications /\ Added("owner"))
  BY DEF Start
<1>4. QED
  BY <1>1, <1>2, <1>3, OneAdded, NothingAdded DEF TypeOK

LEMMA ExpireHolds ==
    ASSUME Inv, UNCHANGED slot, Expire
    PROVE  Inv'
<1>1. TypeOK
  BY DEF Inv
<1>2. Scenery
  BY <1>1 DEF Expire, TypeOK, Scenery, scene
<1>3. job' \in [Verification -> Job]
  BY <1>1, SettledTyped DEF Expire
<1>4. QED
  BY <1>2, <1>3, NothingAdded DEF Expire

LEMMA ReservationLapsesHolds ==
    ASSUME Inv, ReservationLapses
    PROVE  Inv'
<1>1. TypeOK
  BY DEF Inv
<1>2. Scenery
  BY <1>1 DEF ReservationLapses, TypeOK, Scenery, scene
<1>3. QED
  BY <1>1, <1>2, NothingAdded DEF ReservationLapses, TypeOK

LEMMA LapseHolds ==
    ASSUME Inv, UNCHANGED slot, Lapse
    PROVE  Inv'
<1>1. PICK v \in Verification : \E n \in Active(v) :
         attempts' = [attempts EXCEPT ![v][n].live = FALSE]
  BY DEF Lapse
<1>2. PICK n \in Active(v) : attempts' = [attempts EXCEPT ![v][n].live = FALSE]
  BY <1>1
<1>3. TypeOK /\ Verification = 1 .. Len(rows) /\ Len(attempts) = Len(rows)
      /\ attempts \in Seq(Seq(Attempt)) /\ Len(attempts) \in Nat
  BY Shape DEF Inv
<1>4. v \in 1 .. Len(attempts) /\ n \in 1 .. Len(attempts[v])
  BY <1>2, <1>3, Shape DEF Active
<1>5. attempts[v][n] \in Attempt
  BY <1>3, <1>4, Shape
<1> DEFINE b == [attempts[v][n] EXCEPT !.live = FALSE]
<1>6. b \in Attempt
  BY <1>5 DEF Attempt
<1>7. attempts' = [attempts EXCEPT ![v][n] = b]
  BY <1>2
<1>8. /\ b.state = attempts[v][n].state /\ b.owner = attempts[v][n].owner
      /\ b.named = attempts[v][n].named /\ b.boxes = attempts[v][n].boxes
      /\ b.up = attempts[v][n].up /\ b.evidence = attempts[v][n].evidence
      /\ b.cited = attempts[v][n].cited
  BY <1>5 DEF Attempt
<1> HIDE DEF b
<1>9. /\ attempts' \in Seq(Seq(Attempt)) /\ Len(attempts') = Len(attempts)
      /\ \A w \in 1 .. Len(attempts) : Len(attempts'[w]) = Len(attempts[w])
      /\ attempts'[v][n] = b
      /\ \A w \in 1 .. Len(attempts) : \A m \in 1 .. Len(attempts[w]) :
            w # v \/ m # n => attempts'[w][m] = attempts[w][m]
  BY <1>3, <1>4, <1>6, <1>7, SetEntry
<1>10. rows' = rows /\ handler' = handler /\ baseline' = baseline
  BY DEF Lapse, scene
<1>11. Steady
  <2>1. \A w \in 1 .. Len(attempts') : ~(w > Len(attempts))
    BY <1>3, <1>9
  <2>2. Len(attempts') \in Nat /\ Len(attempts') >= Len(attempts)
    BY <1>3, <1>9
  <2>3. ASSUME NEW w \in 1 .. Len(attempts), NEW m \in 1 .. Len(attempts[w])
        PROVE  LET a == attempts[w][m]
                   c == attempts'[w][m]
               IN  /\ c.state = a.state /\ c.owner = a.owner /\ c.named = a.named
                   /\ c.boxes = a.boxes /\ c.up = a.up /\ c.evidence = a.evidence
                   /\ c.cited = a.cited
    <3>1. CASE w = v /\ m = n
      BY <1>8, <1>9, <3>1
    <3>2. CASE ~(w = v /\ m = n)
      BY <1>9, <3>2
    <3>3. QED
      BY <3>1, <3>2
  <2>4. QED
    BY <1>9, <1>10, <2>1, <2>2, <2>3 DEF Steady
<1>12. TypeOK'
  <2>1. attempts' \in [1 .. Len(rows) -> Seq(Attempt)]
    <3>1. attempts' \in [1 .. Len(attempts') -> Seq(Attempt)]
      BY <1>9
    <3>2. QED
      BY <1>3, <1>9, <3>1
  <2>2. \A w \in 1 .. Len(rows) : Len(attempts'[w]) <= MaxAttempts
    BY <1>3, <1>9 DEF TypeOK
  <2>3. Verification' = Verification
    BY <1>10 DEF Verification
  <2>4. QED
    BY <1>3, <2>1, <2>2, <2>3 DEF TypeOK, Lapse, scene
<1>13. QED
  BY <1>10, <1>11, <1>12, NobodyMoves

-----------------------------------------------------------------------------
(* Records                                                                 *)

LEMMA IdleOK ==
    ASSUME NEW h, NEW lists, NEW s, NEW base
    PROVE  RecordOK(Idle, h, lists, s, base) /\ ~Sandboxed(Idle)
BY DEF RecordOK, Idle, Sandboxed, Convinced, Idling, Working, Sound, NoEvidence

LEMMA IdleTyped == Idle \in Local
BY ConstantsAssumption DEF Idle, Local

(* Where a handler works, its verification exists, and its attempt too.      *)
LEMMA MinePosted ==
    ASSUME Inv, NEW h \in Handler
    PROVE  /\ handler[h].at # "idle" =>
                 /\ V(h) \in 1 .. Len(attempts) /\ V(h) \in Verification
                 /\ Len(attempts[V(h)]) \in Nat
           /\ handler[h].at \notin Idling \cup {"record"} =>
                 /\ handler[h].n \in 1 .. Len(attempts[V(h)])
                 /\ Mine(h) \in Attempt
                 /\ AttemptOK(Mine(h), handler[h].n, Len(attempts[V(h)]), baseline)
<1>1. RecordOK(handler[h], h, attempts, slot, baseline)
  BY Ready
<1>2. handler[h].at # "idle" => V(h) \in 1 .. Len(attempts)
  BY <1>1 DEF RecordOK, V
<1>3. handler[h].at \notin Idling \cup {"record"} => handler[h].n \in 1 .. Len(attempts[V(h)])
  BY <1>1 DEF RecordOK, V
<1>4. handler[h].at \notin Idling \cup {"record"} =>
         /\ Mine(h) \in Attempt
         /\ AttemptOK(Mine(h), handler[h].n, Len(attempts[V(h)]), baseline)
  BY <1>2, <1>3, Shape DEF Inv, AttemptsOK, Mine, Idling
<1>5. QED
  BY <1>2, <1>3, <1>4, Shape DEF Inv

LEMMA StillKeeps ==
    ASSUME Inv, UNCHANGED <<scene, rows, job>>, faults' \in 0 .. MaxFaults
    PROVE  Keeps
BY DEF Inv, TypeOK, Keeps

LEMMA FaultsTyped ==
    ASSUME Inv, Fault \/ UNCHANGED faults
    PROVE  faults' \in 0 .. MaxFaults
BY FaultTyped DEF Inv, TypeOK

(* A row that failed.                                                       *)
LEMMA FailedRow ==
    ASSUME Inv, NEW v \in 1 .. Len(attempts), NEW n \in 0 .. MaxAttempts, Failed(v, n)
    PROVE  /\ rows' \in Seq(Row) /\ Len(rows') = Len(rows)
           /\ \A w \in 1 .. Len(rows) : rows'[w] = rows[w] \/ rows'[w].state # "completed"
<1>1. rows \in Seq(Row) /\ v \in 1 .. Len(rows) /\ rows[v] \in Row
  BY Shape DEF Inv, TypeOK
<1> DEFINE row == [rows[v] EXCEPT !.state = "infrastructure_failed", !.from = n,
                                  !.contract = "infrastructure_failed",
                                  !.comparison = "not_comparable"]
<1>2. row \in Row /\ row.state = "infrastructure_failed"
  BY <1>1 DEF Row, Ended, Contract, Comparison
<1>3. rows' = [rows EXCEPT ![v] = row]
  BY <1>1 DEF Failed
<1> HIDE DEF row
<1>4. /\ rows' \in Seq(Row) /\ Len(rows') = Len(rows)
      /\ \A w \in 1 .. Len(rows) : rows'[w] = IF w = v THEN row ELSE rows[w]
  BY <1>1, <1>2, <1>3, ExceptSeq
<1>5. QED
  BY <1>2, <1>4

(* A handler answers and is idle again; the attempts stay as they are.      *)
LEMMA Answered ==
    ASSUME Inv, NEW h \in Handler, handler[h].at # "idle", NEW status, Reply(h, status),
           UNCHANGED <<scene, attempts>>, faults' \in 0 .. MaxFaults,
           slot' \in {slot, "free"},
           rows' \in Seq(Row), Len(rows') = Len(rows),
           \A w \in 1 .. Len(rows) : rows'[w] = rows[w] \/ RowOK(rows'[w], attempts[w])
    PROVE  Inv'
<1>1. job' \in [Verification -> Job]
  BY MinePosted, SettledTyped DEF Inv, Reply
<1>2. Keeps
  BY <1>1 DEF Keeps
<1>3. handler' = [handler EXCEPT ![h] = Idle]
  BY DEF Reply
<1>4. QED
  BY <1>2, <1>3, IdleOK, IdleTyped, PlainMove

LEMMA JustAnswered ==
    ASSUME Inv, NEW h \in Handler, handler[h].at # "idle", NEW status, Reply(h, status),
           UNCHANGED <<scene, attempts, rows>>, faults' \in 0 .. MaxFaults,
           slot' \in {slot, "free"}
    PROVE  Inv'
BY Answered DEF Inv, TypeOK

(* A handler goes on, without Sandbox; rows, jobs and attempts stay.        *)
LEMMA GoesOn ==
    ASSUME Inv, NEW h \in Handler, NEW r \in Local, UNCHANGED <<scene, rows, attempts, job>>,
           handler' = [handler EXCEPT ![h] = r], slot' \in {slot, "free"},
           faults' \in 0 .. MaxFaults,
           RecordOK(r, h, attempts, slot', baseline), ~Sandboxed(r)
    PROVE  Inv'
BY StillKeeps, PlainMove

LEMMA DeliverHolds ==
    ASSUME Inv, UNCHANGED slot, NEW h \in Handler, Deliver(h)
    PROVE  Inv'
<1>1. PICK v \in Verification :
         /\ job[v].state \in {"created", "retry"}
         /\ job' = [job EXCEPT ![v].state = "active", ![v].holder = h]
         /\ handler' = [handler EXCEPT ![h].at = "claim", ![h].v = v]
  BY DEF Deliver
<1> DEFINE r == [handler[h] EXCEPT !.at = "claim", !.v = v]
<1>2. v \in 1 .. Len(attempts) /\ v \in 0 .. MaxVerifications
  BY Shape, SMTT(30) DEF Inv, TypeOK
<1>3. handler[h] \in Local /\ handler[h].at = "idle" /\ handler[h].n = 0
      /\ handler[h].reports = NoEvidence
  BY Ready DEF Deliver, RecordOK, Idling
<1>4. /\ r \in Local /\ r.at = "claim" /\ r.v = v /\ r.n = 0 /\ r.reports = NoEvidence
      /\ handler' = [handler EXCEPT ![h] = r]
  BY <1>1, <1>2, <1>3 DEF Local
<1> HIDE DEF r
<1>5. RecordOK(r, h, attempts, slot', baseline) /\ ~Sandboxed(r)
  BY <1>2, <1>4 DEF RecordOK, Idling, Working, Sound, Sandboxed, Convinced
<1>6. job' \in [Verification -> Job]
  BY <1>1 DEF Inv, TypeOK, Job
<1>7. Keeps
  BY <1>6 DEF Keeps, Deliver, Inv, TypeOK
<1>8. QED
  BY <1>4, <1>5, <1>7, PlainMove DEF Deliver

LEMMA StallHolds ==
    ASSUME Inv, UNCHANGED slot, NEW h \in Handler, Stall(h) \/ Resume(h)
    PROVE  Inv'
<1>1. PICK stalled \in BOOLEAN : handler' = [handler EXCEPT ![h].stalled = stalled]
  BY DEF Stall, Resume
<1> DEFINE r == [handler[h] EXCEPT !.stalled = stalled]
<1>2. handler[h] \in Local /\ RecordOK(handler[h], h, attempts, slot, baseline)
  BY Ready
<1>3. /\ r \in Local /\ r.at = handler[h].at /\ r.v = handler[h].v /\ r.n = handler[h].n
      /\ r.reports = handler[h].reports /\ r.held = handler[h].held
      /\ handler' = [handler EXCEPT ![h] = r]
  BY <1>1, <1>2 DEF Local
<1> HIDE DEF r
<1>4. RecordOK(r, h, attempts, slot', baseline)
  BY <1>2, <1>3 DEF RecordOK, Token, Convinced
<1>5. Same(h, r)
  BY <1>3 DEF Same, V
<1>6. Keeps
  BY FaultsTyped, StillKeeps DEF Stall, Resume
<1>7. QED
  BY <1>3, <1>4, <1>5, <1>6, PlainMove DEF Stall, Resume

LEMMA CrashHolds ==
    ASSUME Inv, UNCHANGED slot, NEW h \in Handler, Crash(h)
    PROVE  Inv'
<1>1. Keeps
  BY FaultsTyped, StillKeeps DEF Crash
<1>2. QED
  BY <1>1, IdleOK, IdleTyped, PlainMove DEF Crash

-----------------------------------------------------------------------------
(* Handlers that change no attempt                                         *)

LEMMA Throws ==
    ASSUME Inv, NEW h \in Handler, handler[h].at \in Working, NEW final \in BOOLEAN,
           Throw(h, final), UNCHANGED <<scene, rows, attempts, job, slot>>,
           faults' \in 0 .. MaxFaults
    PROVE  Inv'
<1> DEFINE r == [handler[h] EXCEPT !.at = "failing", !.final = final, !.reports = NoEvidence]
<1>1. handler[h] \in Local /\ RecordOK(handler[h], h, attempts, slot, baseline)
  BY Ready
<1>2. /\ r \in Local /\ r.at = "failing" /\ r.v = handler[h].v /\ r.n = handler[h].n
      /\ r.reports = NoEvidence /\ r.held = handler[h].held
      /\ handler' = [handler EXCEPT ![h] = r]
  BY <1>1 DEF Local, Throw
<1> HIDE DEF r
<1>3. RecordOK(r, h, attempts, slot', baseline) /\ ~Sandboxed(r)
  BY <1>1, <1>2 DEF RecordOK, Idling, Working, Sound, Sandboxed, Convinced, Token
<1>4. QED
  BY <1>2, <1>3, GoesOn

LEMMA PrepareHolds ==
    ASSUME Inv, UNCHANGED slot, NEW h \in Handler, Prepare(h)
    PROVE  Inv'
<1>1. handler[h].at = "prepare" /\ faults' \in 0 .. MaxFaults
      /\ UNCHANGED <<scene, rows, attempts>>
  BY FaultsTyped DEF Prepare, Running
<1>2. CASE ~public /\ Reply(h, "deadletter")
  BY <1>1, <1>2, JustAnswered
<1>3. CASE UNCHANGED job /\ (Throw(h, TRUE) \/ Throw(h, FALSE))
  BY <1>1, <1>3, Throws DEF Working
<1>4. CASE baseline # "unusable" /\ Goto(h, "request") /\ UNCHANGED job
  <2> DEFINE r == [handler[h] EXCEPT !.at = "request"]
  <2>1. handler[h] \in Local /\ RecordOK(handler[h], h, attempts, slot, baseline)
    BY Ready
  <2>2. /\ r \in Local /\ r.at = "request" /\ r.v = handler[h].v /\ r.n = handler[h].n
        /\ r.reports = handler[h].reports /\ r.held = handler[h].held
        /\ handler' = [handler EXCEPT ![h] = r]
    BY <1>4, <2>1 DEF Local, Goto
  <2> HIDE DEF r
  <2>3. RecordOK(r, h, attempts, slot', baseline) /\ ~Sandboxed(r)
    BY <1>1, <1>4, <2>1, <2>2 DEF RecordOK, Idling, Working, Sound, Sandboxed, Convinced, Token
  <2>4. QED
    BY <1>1, <1>4, <2>2, <2>3, GoesOn
<1>5. QED
  BY <1>2, <1>3, <1>4 DEF Prepare

(* A row that is completed says what the evidence of an ended attempt says.  *)
LEMMA RecordedRow ==
    ASSUME Inv, NEW v \in 1 .. Len(attempts), NEW n \in 0 .. MaxAttempts, RecordRow(v, n),
           n # 0 => n \in 1 .. Len(attempts[v]) /\ attempts[v][n].state # "active"
    PROVE  /\ rows' \in Seq(Row) /\ Len(rows') = Len(rows)
           /\ \A w \in 1 .. Len(rows) : rows'[w] = rows[w] \/ RowOK(rows'[w], attempts[w])
<1> DEFINE e == IF n = 0 THEN NoEvidence ELSE attempts[v][n].evidence
<1>1. rows \in Seq(Row) /\ v \in 1 .. Len(rows) /\ rows[v] \in Row
  BY Shape DEF Inv, TypeOK
<1>2. CASE UNCHANGED rows
  BY <1>1, <1>2
<1>3. CASE Failed(v, n)
  <2>1. /\ rows' \in Seq(Row) /\ Len(rows') = Len(rows)
        /\ \A w \in 1 .. Len(rows) : rows'[w] = rows[w] \/ rows'[w].state # "completed"
    BY <1>3, FailedRow
  <2>2. QED
    BY <2>1 DEF RowOK
<1>4. CASE /\ e # NoEvidence /\ e.contract # "infrastructure_failed"
           /\ rows' = [rows EXCEPT ![v].state = "completed", ![v].from = n,
                         ![v].contract = e.contract, ![v].comparison = e.comparison]
  <2>1. n \in 1 .. Len(attempts[v]) /\ attempts[v][n].state # "active"
        /\ e = attempts[v][n].evidence /\ attempts[v][n] \in Attempt
    BY <1>4, Shape DEF Inv
  <2>2. e \in Evidence
    BY <1>4, <2>1 DEF Attempt
  <2> HIDE DEF e
  <2>3. Verdict(e) /\ e.contract \in Contract /\ e.comparison \in Comparison
    BY <1>4, <2>2 DEF Evidence, Verdict, Contract
  <2> DEFINE row == [rows[v] EXCEPT !.state = "completed", !.from = n,
                                    !.contract = e.contract, !.comparison = e.comparison]
  <2>4. row \in Row /\ row.from = n /\ row.contract = e.contract /\ row.comparison = e.comparison
    BY <1>1, <2>3 DEF Row, Ended
  <2>5. rows' = [rows EXCEPT ![v] = row]
    BY <1>1, <1>4 DEF Row
  <2> HIDE DEF row
  <2>6. /\ rows' \in Seq(Row) /\ Len(rows') = Len(rows)
        /\ \A w \in 1 .. Len(rows) : rows'[w] = IF w = v THEN row ELSE rows[w]
    BY <1>1, <2>4, <2>5, ExceptSeq
  <2>7. RowOK(row, attempts[v])
    BY <2>1, <2>3, <2>4 DEF RowOK
  <2>8. QED
    BY <2>6, <2>7
<1>5. QED
  BY <1>2, <1>3, <1>4 DEF RecordRow

LEMMA RecordHolds ==
    ASSUME Inv, UNCHANGED slot, NEW h \in Handler, Record(h)
    PROVE  Inv'
<1>1. handler[h].at = "record" /\ UNCHANGED <<scene, attempts>> /\ faults' \in 0 .. MaxFaults
  BY FaultsTyped DEF Record, Running
<1>2. CASE RecordRow(V(h), handler[h].n) /\ Reply(h, "completed")
  <2>1. V(h) \in 1 .. Len(attempts)
    BY <1>1, MinePosted
  <2>2. handler[h].n \in 0 .. MaxAttempts
        /\ RecordOK(handler[h], h, attempts, slot, baseline)
    BY Ready DEF Local
  <2>3. handler[h].n # 0 => handler[h].n \in 1 .. Len(attempts[V(h)])
                            /\ attempts[V(h)][handler[h].n].state # "active"
    BY <1>1, <2>2 DEF RecordOK, V
  <2>4. /\ rows' \in Seq(Row) /\ Len(rows') = Len(rows)
        /\ \A w \in 1 .. Len(rows) : rows'[w] = rows[w] \/ RowOK(rows'[w], attempts[w])
    BY <1>2, <2>1, <2>2, <2>3, RecordedRow
  <2>5. QED
    BY <1>1, <1>2, <2>4, Answered
<1>3. CASE Reply(h, "failed") /\ UNCHANGED rows
  BY <1>1, <1>3, JustAnswered
<1>4. QED
  BY <1>2, <1>3 DEF Record

-----------------------------------------------------------------------------
(* Claiming                                                                *)

(* The record of a handler that claims, and those it goes to.               *)
LEMMA ClaimRecord ==
    ASSUME Inv, NEW h \in Handler, handler[h].at = "claim"
    PROVE  /\ handler[h] \in Local /\ handler[h].n = 0 /\ handler[h].reports = NoEvidence
           /\ ~Sandboxed(handler[h])
BY Ready DEF RecordOK, Idling, Sandboxed, Convinced

Claimed(h, phase, n, held) ==
    [handler[h] EXCEPT !.at = phase, !.n = n, !.held = held]

LEMMA ClaimConcludedHolds ==
    ASSUME Inv, UNCHANGED <<scene, faults, slot>>, NEW h \in Handler, handler[h].at = "claim",
           ClaimConcluded(h)
    PROVE  Inv'
<1> DEFINE n == Len(attempts[V(h)])
           r == Claimed(h, "finalize", n, FALSE)
<1>1. V(h) \in 1 .. Len(attempts) /\ n \in Nat
  BY MinePosted
<1>2. attempts[V(h)] \in Seq(Attempt) /\ n <= MaxAttempts /\ MaxAttempts \in Nat
  BY <1>1, Shape DEF Inv
<1>3. n \in 1 .. n /\ Last(attempts[V(h)]) = attempts[V(h)][n]
  <2>1. attempts[V(h)] # <<>>
    BY DEF ClaimConcluded, Concluded
  <2>2. n > 0
    BY <1>1, <1>2, <2>1, EmptySeq
  <2>3. QED
    BY <1>1, <2>2 DEF Last
<1>4. attempts[V(h)][n].cited /\ attempts[V(h)][n].state # "active"
  BY <1>3 DEF ClaimConcluded, Concluded
<1>5. attempts[V(h)][n].evidence # NoEvidence
  BY <1>1, <1>3, <1>4 DEF Inv, AttemptsOK, AttemptOK
<1>6. n \in 0 .. MaxAttempts
  BY <1>1, <1>2
<1>7. handler' = [handler EXCEPT ![h] = r]
  BY DEF ClaimConcluded, Claimed
<1>8. r \in Local /\ r.at = "finalize" /\ r.v = V(h) /\ r.n = n
      /\ r.reports = NoEvidence
  <2> HIDE DEF n
  <2>1. QED
    BY <1>6, ClaimRecord DEF Local, Claimed, V
<1> HIDE DEF r
<1>9. RecordOK(r, h, attempts, slot', baseline) /\ ~Sandboxed(r)
  BY <1>1, <1>3, <1>4, <1>5, <1>8 DEF RecordOK, Idling, Working, Sound, Convinced, Sandboxed
<1>10. faults' \in 0 .. MaxFaults
  BY FaultsTyped
<1>11. QED
  BY <1>7, <1>8, <1>9, <1>10, GoesOn DEF ClaimConcluded

LEMMA ClaimSpentHolds ==
    ASSUME Inv, UNCHANGED <<scene, faults, slot>>, NEW h \in Handler, handler[h].at = "claim",
           ClaimSpent(h)
    PROVE  Inv'
<1> DEFINE r == [handler[h] EXCEPT !.at = "record", !.n = 0]
<1>1. handler[h] \in Local /\ RecordOK(handler[h], h, attempts, slot, baseline)
  BY Ready
<1>2. V(h) \in 1 .. Len(attempts) /\ handler[h].reports = NoEvidence
  BY <1>1, MinePosted DEF RecordOK
<1>3. /\ r \in Local /\ r.at = "record" /\ r.v = V(h) /\ r.n = 0 /\ r.reports = NoEvidence
      /\ handler' = [handler EXCEPT ![h] = r]
  <2>1. 0 \in 0 .. MaxAttempts
    BY ConstantsAssumption
  <2>2. handler' = [handler EXCEPT ![h] = r]
    BY DEF ClaimSpent
  <2>3. r \in Local /\ r.at = "record" /\ r.v = handler[h].v /\ r.n = 0
        /\ r.reports = handler[h].reports
    BY <1>1, <2>1 DEF Local
  <2>4. QED
    BY <1>2, <2>2, <2>3 DEF V
<1> HIDE DEF r
<1>4. RecordOK(r, h, attempts, slot', baseline) /\ ~Sandboxed(r)
  BY <1>2, <1>3 DEF RecordOK, Idling, Working, Sound, Sandboxed, Convinced
<1>5. faults' \in 0 .. MaxFaults
  BY FaultsTyped
<1>6. QED
  BY <1>3, <1>4, <1>5, GoesOn DEF ClaimSpent

LEMMA ClaimRefusedHolds ==
    ASSUME Inv, UNCHANGED <<scene, faults, slot>>, NEW h \in Handler, handler[h].at = "claim",
           ClaimRefused(h)
    PROVE  Inv'
<1>1. V(h) \in 1 .. Len(attempts) /\ 0 \in 0 .. MaxAttempts
  BY MinePosted, ConstantsAssumption
<1>2. /\ rows' \in Seq(Row) /\ Len(rows') = Len(rows)
      /\ \A w \in 1 .. Len(rows) : rows'[w] = rows[w] \/ rows'[w].state # "completed"
  BY <1>1, FailedRow DEF ClaimRefused
<1>3. \A w \in 1 .. Len(rows) : rows'[w] = rows[w] \/ RowOK(rows'[w], attempts[w])
  BY <1>2 DEF RowOK
<1>4. faults' \in 0 .. MaxFaults
  BY FaultsTyped
<1>5. QED
  BY <1>2, <1>3, <1>4, Answered DEF ClaimRefused

LEMMA TakeOverHolds ==
    ASSUME Inv, UNCHANGED <<scene, faults, slot>>, NEW h \in Handler, handler[h].at = "claim",
           TakeOver(h)
    PROVE  Inv'
<1> DEFINE v == V(h)
<1>1. PICK n \in Active(v) :
         LET a == attempts[v][n]
         IN  \/ /\ attempts' = [attempts EXCEPT ![v][n] = [a EXCEPT !.owner = h, !.live = TRUE]]
                /\ handler' = [handler EXCEPT ![h].n = n, ![h].held = TRUE,
                      ![h].at = IF HasEvidence(a) THEN "finalize"
                                ELSE IF a.named THEN "recover" ELSE "prepare"]
                /\ UNCHANGED <<rows, job>>
             \/ /\ ~HasEvidence(a) /\ ~a.named
                /\ attempts' = [attempts EXCEPT ![v][n] = [a EXCEPT !.state = "exhausted"]]
                /\ Failed(v, 0)
                /\ Reply(h, "completed")
  BY DEF TakeOver
<1> DEFINE a == attempts[v][n]
<1>2. v \in 1 .. Len(attempts) /\ v \in Verification
  BY MinePosted
<1>3. n \in 1 .. Len(attempts[v]) /\ a.state = "active" /\ a \in Attempt
      /\ n <= MaxAttempts /\ Len(attempts[v]) \in Nat /\ MaxAttempts \in Nat
  BY <1>2, Shape DEF Active, Inv
<1>4. AttemptOK(a, n, Len(attempts[v]), baseline)
  BY <1>2, <1>3 DEF Inv, AttemptsOK
<1>5. handler[h].n = 0 /\ ~Sandboxed(handler[h]) /\ n \in 0 .. MaxAttempts /\ handler[h].n # n
  <2>1. n \in 0 .. MaxAttempts /\ n # 0
    BY <1>3
  <2>2. QED
    BY <2>1, ClaimRecord
<1>6. faults' \in 0 .. MaxFaults
  BY FaultsTyped
<1>7. CASE /\ attempts' = [attempts EXCEPT ![v][n] = [a EXCEPT !.owner = h, !.live = TRUE]]
           /\ handler' = [handler EXCEPT ![h].n = n, ![h].held = TRUE,
                 ![h].at = IF HasEvidence(a) THEN "finalize"
                           ELSE IF a.named THEN "recover" ELSE "prepare"]
           /\ UNCHANGED <<rows, job>>
  <2> DEFINE b == [a EXCEPT !.owner = h, !.live = TRUE]
             phase == IF HasEvidence(a) THEN "finalize"
                      ELSE IF a.named THEN "recover" ELSE "prepare"
             r == Claimed(h, phase, n, TRUE)
  <2>1. /\ b \in Attempt /\ b.state = a.state /\ b.owner = h /\ b.named = a.named
        /\ b.boxes = a.boxes /\ b.up = a.up /\ b.evidence = a.evidence /\ b.cited = a.cited
    BY <1>3 DEF Attempt
  <2>2. attempts' = [attempts EXCEPT ![v][n] = b]
    BY <1>7
  <2> HIDE DEF b
  <2>3. Moves(h, handler[h], handler[h].n = n, a, b)
    BY <1>3, <2>1 DEF Moves, Attempt
  <2>4. AttemptOK(b, n, Len(attempts[v]), baseline)
    BY <1>4, <2>1 DEF AttemptOK
  <2>5. phase \in {"prepare", "recover", "finalize", "record"}
    OBVIOUS
  <2>6. /\ r \in Local /\ r.at = phase /\ r.v = v /\ r.n = n /\ r.held
        /\ r.reports = NoEvidence
    <3> HIDE DEF phase
    <3>1. QED
      BY <1>5, <2>5, ClaimRecord DEF Local, Claimed, V
  <2>7. handler' = [handler EXCEPT ![h] = r]
    BY <1>7 DEF Claimed
  <2> HIDE DEF r
  <2>8. Len(attempts') = Len(attempts) /\ Len(attempts'[v]) = Len(attempts[v])
        /\ attempts'[v][n] = b
    BY <1>2, <1>3, <2>1, <2>2, <2>3, <2>4, EntryChanges
  <2>9. /\ phase = "finalize" => b.evidence # NoEvidence
        /\ phase # "finalize" => b.evidence = NoEvidence
        /\ phase = "prepare" => ~b.named
        /\ phase \in {"prepare", "recover", "finalize"}
    BY <2>1 DEF HasEvidence
  <2> HIDE DEF phase, a
  <2>10. RecordOK(r, h, attempts', slot', baseline)
    BY <1>2, <1>3, <2>6, <2>8, <2>9 DEF RecordOK, Idling, Working, Sound, Convinced
  <2>11. Entered(h, r, attempts')
    BY <2>6, <2>9 DEF Entered, Sandboxed, Convinced
  <2>12. Keeps
    BY <1>6, <1>7, StillKeeps
  <2>13. QED
    BY <1>2, <1>3, <1>7, <2>1, <2>2, <2>3, <2>4, <2>6, <2>7, <2>10, <2>11, <2>12, MineStep DEF a
<1>8. CASE /\ ~HasEvidence(a) /\ ~a.named
           /\ attempts' = [attempts EXCEPT ![v][n] = [a EXCEPT !.state = "exhausted"]]
           /\ Failed(v, 0)
           /\ Reply(h, "completed")
  <2> DEFINE b == [a EXCEPT !.state = "exhausted"]
  <2>1. /\ b \in Attempt /\ b.state = "exhausted" /\ b.named = a.named
        /\ b.boxes = a.boxes /\ b.up = a.up /\ b.evidence = a.evidence /\ b.cited = a.cited
    BY <1>3 DEF Attempt
  <2>2. attempts' = [attempts EXCEPT ![v][n] = b]
    BY <1>8
  <2> HIDE DEF b
  <2>3. Moves(h, handler[h], handler[h].n = n, a, b)
    BY <1>3, <2>1 DEF Moves, Attempt
  <2>4. AttemptOK(b, n, Len(attempts[v]), baseline)
    BY <1>4, <1>8, <2>1 DEF AttemptOK, HasEvidence, Verdict, NoEvidence
  <2>5. /\ rows' \in Seq(Row) /\ Len(rows') = Len(rows)
        /\ \A w \in 1 .. Len(rows) : rows'[w] = rows[w] \/ rows'[w].state # "completed"
    BY <1>2, <1>3, <1>8, FailedRow
  <2>6. Keeps
    BY <1>2, <1>6, <1>8, <2>5, SettledTyped DEF Keeps, RowOK, Reply, Inv
  <2>7. RecordOK(Idle, h, attempts', slot', baseline) /\ ~Sandboxed(Idle) /\ Idle \in Local
    BY IdleOK, IdleTyped
  <2>8. Entered(h, Idle, attempts')
    BY <2>7 DEF Entered, Sandboxed, Idle
  <2>9. QED
    BY <1>2, <1>3, <1>8, <2>1, <2>2, <2>3, <2>4, <2>5, <2>6, <2>7, <2>8, MineStep DEF Reply
<1>9. QED
  BY <1>1, <1>7, <1>8, SMTT(30)

(* A new attempt is made only where none is active, none has a verdict: a    *)
(* verdict that was concluded is found by the claim.                        *)
LEMMA ClaimAttemptHolds ==
    ASSUME Inv, UNCHANGED <<scene, faults, slot>>, NEW h \in Handler, handler[h].at = "claim",
           ClaimAttempt(h)
    PROVE  Inv'
<1> DEFINE v == V(h)
           size == Len(attempts[v])
           new == [state |-> "active", owner |-> h, live |-> TRUE, named |-> FALSE, boxes |-> 0,
                   up |-> FALSE, evidence |-> NoEvidence, cited |-> FALSE]
           r == Claimed(h, "prepare", size + 1, TRUE)
<1>1. /\ v \in 1 .. Len(attempts) /\ size \in Nat /\ attempts \in Seq(Seq(Attempt))
      /\ Len(attempts) \in Nat /\ Len(attempts) = Len(rows) /\ MaxAttempts \in Nat
      /\ attempts[v] \in Seq(Attempt)
  BY MinePosted, Shape DEF Inv
<1>2. size + 1 \in 0 .. MaxAttempts
  BY <1>1 DEF ClaimAttempt, Spent
<1>3. new \in Attempt
  BY DEF Attempt
<1>4. /\ attempts' = [attempts EXCEPT ![v] = Append(@, new)]
      /\ handler' = [handler EXCEPT ![h] = r]
      /\ rows' = [rows EXCEPT ![v].state = "verifying"] /\ UNCHANGED job
  BY DEF ClaimAttempt, Claimed
<1>5. /\ r \in Local /\ r.at = "prepare" /\ r.v = v /\ r.n = size + 1 /\ r.held
      /\ r.reports = NoEvidence
  <2> DEFINE n == size + 1
  <2> HIDE DEF size
  <2>1. n \in 0 .. MaxAttempts
    BY <1>2
  <2> HIDE DEF n
  <2>2. /\ Claimed(h, "prepare", n, TRUE) \in Local
        /\ Claimed(h, "prepare", n, TRUE).at = "prepare" /\ Claimed(h, "prepare", n, TRUE).v = v
        /\ Claimed(h, "prepare", n, TRUE).n = n /\ Claimed(h, "prepare", n, TRUE).held
        /\ Claimed(h, "prepare", n, TRUE).reports = NoEvidence
    BY <2>1, ClaimRecord DEF Local, Claimed, V
  <2>3. QED
    BY <2>2 DEF n
<1>6. \A n \in 1 .. size : attempts[v][n].state # "active"
  BY <1>1, Shape DEF ClaimAttempt, Unclaimed, Active, Inv
<1>7. VerdictFree(attempts[v])
  <2> SUFFICES ASSUME NEW n \in 1 .. size, Verdict(attempts[v][n].evidence)
               PROVE  FALSE
    BY DEF VerdictFree
  <2>1. AttemptOK(attempts[v][n], n, size, baseline) /\ attempts[v][n].state # "active"
    BY <1>1, <1>6 DEF Inv, AttemptsOK
  <2>2. n = size /\ attempts[v][n].cited
        /\ attempts[v][n].state \in {"succeeded", "checks_failed"}
    BY <2>1 DEF AttemptOK
  <2>3. Last(attempts[v]) = attempts[v][n] /\ attempts[v] # <<>>
    BY <1>1, <2>2, EmptySeq DEF Last
  <2>4. Concluded(v)
    BY <2>2, <2>3 DEF Concluded
  <2>5. QED
    BY <2>4 DEF ClaimAttempt
<1>8. new.evidence = NoEvidence /\ new.state = "active" /\ ~new.named /\ new.boxes = 0
      /\ ~new.cited
  OBVIOUS
<1> HIDE DEF new, r
<1>9. /\ attempts' \in Seq(Seq(Attempt)) /\ Len(attempts') = Len(attempts)
      /\ Len(attempts'[v]) = size + 1 /\ attempts'[v][size + 1] = new
      /\ \A w \in 1 .. Len(attempts) : w # v => attempts'[w] = attempts[w]
      /\ \A m \in 1 .. size : attempts'[v][m] = attempts[v][m]
  BY <1>1, <1>3, <1>4, AddEntry
<1>10. \A w \in 1 .. Len(attempts) : Len(attempts[w]) \in Nat
  BY Shape DEF Inv
<1>11. \A w \in 1 .. Len(attempts) :
          /\ Len(attempts'[w]) \in Nat /\ Len(attempts'[w]) >= Len(attempts[w])
          /\ \A m \in 1 .. Len(attempts[w]) : attempts'[w][m] = attempts[w][m]
  <2>1. ASSUME NEW w \in 1 .. Len(attempts)
        PROVE  /\ Len(attempts'[w]) \in Nat /\ Len(attempts'[w]) >= Len(attempts[w])
               /\ \A m \in 1 .. Len(attempts[w]) : attempts'[w][m] = attempts[w][m]
    <3>1. CASE w # v
      BY <1>9, <1>10, <3>1
    <3>2. CASE w = v
      BY <1>1, <1>9, <3>2
    <3>3. QED
      BY <3>1, <3>2
  <2>2. QED
    BY <2>1
<1>12. \A w \in 1 .. Len(attempts) : Fresh(attempts'[w], Len(attempts[w]))
  <2>1. ASSUME NEW w \in 1 .. Len(attempts), NEW n \in 1 .. Len(attempts'[w]), n > Len(attempts[w])
        PROVE  attempts'[w][n].evidence = NoEvidence
    <3>1. w = v
      BY <1>9, <1>10, <2>1
    <3>2. n = size + 1
      BY <1>1, <1>9, <2>1, <3>1
    <3>3. QED
      BY <1>8, <1>9, <3>1, <3>2
  <2>2. QED
    BY <2>1 DEF Fresh
<1>13. Evolves(h, attempts')
  <2>1. \A w \in 1 .. Len(attempts) : \A n \in 1 .. Len(attempts[w]) :
           Moves(h, handler[h], V(h) = w /\ handler[h].n = n, attempts[w][n], attempts'[w][n])
    BY <1>11, Stays DEF Evolves
  <2>2. \A w \in 1 .. Len(attempts') : ~(w > Len(attempts))
    BY <1>1, <1>9
  <2>3. QED
    <3>1. Len(attempts') \in Nat /\ Len(attempts') >= Len(attempts)
      BY <1>1, <1>9
    <3>2. QED
      BY <1>11, <1>12, <2>1, <2>2, <3>1 DEF Evolves
<1>14. \A w \in 1 .. Len(attempts') : \A n \in 1 .. Len(attempts'[w]) :
          AttemptOK(attempts'[w][n], n, Len(attempts'[w]), baseline)
  <2> SUFFICES ASSUME NEW w \in 1 .. Len(attempts), NEW n \in 1 .. Len(attempts'[w])
               PROVE  AttemptOK(attempts'[w][n], n, Len(attempts'[w]), baseline)
    BY <1>9
  <2>1. CASE w # v
    BY <1>9, <2>1 DEF Inv, AttemptsOK
  <2>2. CASE w = v /\ n = size + 1
    BY <1>8, <1>9, <2>2 DEF AttemptOK, Sound, Verdict, NoEvidence
  <2>3. CASE w = v /\ n # size + 1
    <3>1. n \in 1 .. size
      BY <1>1, <1>9, <2>3
    <3>2. AttemptOK(attempts[v][n], n, size, baseline) /\ attempts[v][n].state # "active"
          /\ ~Verdict(attempts[v][n].evidence)
      BY <1>1, <1>6, <1>7, <3>1 DEF Inv, AttemptsOK, VerdictFree
    <3>3. QED
      BY <1>9, <2>3, <3>1, <3>2 DEF AttemptOK
  <2>4. QED
    BY <2>1, <2>2, <2>3
<1>15. RecordOK(r, h, attempts', slot', baseline) /\ ~Sandboxed(r)
  <2>1. size + 1 \in 1 .. size + 1
    BY <1>1
  <2>2. QED
    BY <1>1, <1>5, <1>8, <1>9, <2>1 DEF RecordOK, Idling, Working, Sound, Convinced, Sandboxed
<1>16. Entered(h, r, attempts')
  BY <1>15 DEF Entered, Sandboxed
<1>17. /\ rows' \in Seq(Row) /\ Len(rows') = Len(rows)
       /\ \A w \in 1 .. Len(rows) : rows'[w] = rows[w] \/ rows'[w].state # "completed"
  <2> DEFINE row == [rows[v] EXCEPT !.state = "verifying"]
  <2>1. rows \in Seq(Row) /\ v \in 1 .. Len(rows) /\ rows[v] \in Row
    BY <1>1, Shape DEF Inv, TypeOK
  <2>2. row \in Row /\ row.state = "verifying"
    BY <2>1 DEF Row, Ended
  <2>3. rows' = [rows EXCEPT ![v] = row]
    BY <1>4
  <2> HIDE DEF row
  <2>4. /\ rows' \in Seq(Row) /\ Len(rows') = Len(rows)
        /\ \A w \in 1 .. Len(rows) : rows'[w] = IF w = v THEN row ELSE rows[w]
    BY <2>1, <2>2, <2>3, ExceptSeq
  <2>5. QED
    BY <2>2, <2>4
<1>18. Keeps
  <2>1. faults' \in 0 .. MaxFaults /\ job' \in [Verification -> Job]
    BY <1>4, FaultsTyped DEF Inv, TypeOK
  <2>2. QED
    BY <1>17, <2>1 DEF Keeps, RowOK
<1>19. handler' \in [Handler -> Local] /\ slot' \in Handler \cup {"free"}
  BY <1>4, <1>5 DEF Inv, TypeOK
<1>20. \A w \in 1 .. Len(attempts) : Len(attempts'[w]) <= MaxAttempts
  <2>1. \A w \in 1 .. Len(attempts) : Len(attempts[w]) <= MaxAttempts
    BY Shape DEF Inv
  <2>2. size + 1 <= MaxAttempts
    BY <1>1, <1>2
  <2>3. ASSUME NEW w \in 1 .. Len(attempts)
        PROVE  Len(attempts'[w]) <= MaxAttempts
    <3>1. CASE w # v
      BY <1>9, <2>1, <3>1
    <3>2. CASE w = v
      BY <1>9, <2>2, <3>2
    <3>3. QED
      BY <3>1, <3>2
  <2>4. QED
    BY <2>3
<1>21. TypeOK'
  BY <1>9, <1>18, <1>19, <1>20, KeptTyped
<1>22. RowsFollow
  BY <1>1, <1>9, <1>17 DEF RowsFollow, RowOK
<1>23. baseline' = baseline
  BY DEF scene
<1>24. QED
  BY <1>4, <1>5, <1>13, <1>14, <1>15, <1>16, <1>21, <1>22, <1>23, HandlerMoves

LEMMA ClaimHolds ==
    ASSUME Inv, UNCHANGED slot, NEW h \in Handler, Claim(h)
    PROVE  Inv'
<1>1. handler[h].at = "claim" /\ UNCHANGED scene /\ faults' \in 0 .. MaxFaults
  BY FaultsTyped DEF Claim, Running
<1>2. CASE Reply(h, "deadletter") /\ UNCHANGED <<rows, attempts>>
  BY <1>1, <1>2, JustAnswered
<1>3. CASE UNCHANGED faults /\ (ClaimTerminal(h) \/ ClaimBusy(h))
  <2>1. UNCHANGED <<rows, attempts>> /\ (Reply(h, "completed") \/ Reply(h, "failed"))
    BY <1>3 DEF ClaimTerminal, ClaimBusy
  <2>2. QED
    BY <1>1, <2>1, JustAnswered
<1>4. CASE UNCHANGED faults /\ TakeOver(h)
  BY <1>1, <1>4, TakeOverHolds
<1>5. CASE UNCHANGED faults /\ ClaimConcluded(h)
  BY <1>1, <1>5, ClaimConcludedHolds
<1>6. CASE UNCHANGED faults /\ ClaimSpent(h)
  BY <1>1, <1>6, ClaimSpentHolds
<1>7. CASE UNCHANGED faults /\ ClaimRefused(h)
  BY <1>1, <1>7, ClaimRefusedHolds
<1>8. CASE UNCHANGED faults /\ ClaimAttempt(h)
  BY <1>1, <1>8, ClaimAttemptHolds
<1>9. QED
  BY <1>2, <1>3, <1>4, <1>5, <1>6, <1>7, <1>8 DEF Claim

-----------------------------------------------------------------------------
(* Handlers that change their attempt                                      *)

(* The attempt is ended, its evidence kept; the handler records or is idle.  *)
LEMMA EndsAttempt ==
    ASSUME Inv, Keeps, NEW h \in Handler, handler[h].at \in Working \cup {"finalize"},
           NEW b \in Attempt,
           attempts' = [attempts EXCEPT ![V(h)][handler[h].n] = b],
           b.state # "active", b.named = Mine(h).named, b.boxes = Mine(h).boxes,
           b.up = Mine(h).up, b.evidence = Mine(h).evidence,
           AttemptOK(b, handler[h].n, Len(attempts[V(h)]), baseline),
           \/ handler' = [handler EXCEPT ![h] = Idle]
           \/ Goto(h, "record") /\ handler[h].at \in {"finalize", "failing"},
           UNCHANGED <<rows, slot>>
    PROVE  Inv'
<1> DEFINE v == V(h)
           n == handler[h].n
<1>1. /\ v \in 1 .. Len(attempts) /\ n \in 1 .. Len(attempts[v])
      /\ attempts[v][n] = Mine(h) /\ Mine(h) \in Attempt
  BY MinePosted DEF Working, Idling, Mine
<1>2. Moves(h, handler[h], TRUE, Mine(h), b)
  BY DEF Moves, Attempt
<1>3. /\ Len(attempts') = Len(attempts) /\ Len(attempts'[v]) = Len(attempts[v])
      /\ attempts'[v][n] = b
  BY <1>1, <1>2, EntryChanges
<1>4. CASE handler' = [handler EXCEPT ![h] = Idle]
  <2>1. /\ RecordOK(Idle, h, attempts', slot', baseline) /\ Idle \in Local
        /\ Entered(h, Idle, attempts')
    BY IdleOK, IdleTyped DEF Entered, Sandboxed, Idle
  <2>2. QED
    BY <1>1, <1>2, <1>4, <2>1, MineStep
<1>5. CASE Goto(h, "record") /\ handler[h].at \in {"finalize", "failing"}
  <2> DEFINE r == [handler[h] EXCEPT !.at = "record"]
  <2>1. handler[h] \in Local /\ RecordOK(handler[h], h, attempts, slot, baseline)
    BY Ready
  <2>2. /\ r \in Local /\ r.at = "record" /\ r.v = v /\ r.n = n
        /\ r.reports = handler[h].reports
        /\ handler' = [handler EXCEPT ![h] = r]
    BY <1>5, <2>1 DEF Local, Goto, V
  <2>3. r.reports = NoEvidence
    BY <1>5, <2>1, <2>2 DEF RecordOK
  <2> HIDE DEF r
  <2>4. RecordOK(r, h, attempts', slot', baseline) /\ Entered(h, r, attempts')
    BY <1>1, <1>3, <2>2, <2>3 DEF RecordOK, Idling, Working, Sound, Sandboxed, Convinced, Entered
  <2>5. QED
    BY <1>1, <1>2, <2>2, <2>4, MineStep
<1>6. QED
  BY <1>4, <1>5

LEMMA AbandonHolds ==
    ASSUME Inv, UNCHANGED slot, NEW h \in Handler, Abandon(h)
    PROVE  Inv'
<1>1. /\ handler[h].at = "abandon" /\ faults' \in 0 .. MaxFaults
      /\ UNCHANGED <<scene, rows>> /\ Reply(h, "failed")
  BY FaultsTyped DEF Abandon, Running
<1>2. CASE UNCHANGED attempts
  BY <1>1, <1>2, JustAnswered
<1>3. CASE Owns(h) /\ Finished(h, "abandoned", FALSE)
  <2> DEFINE b == [Mine(h) EXCEPT !.state = "abandoned", !.live = FALSE, !.cited = FALSE]
  <2>1. /\ Mine(h) \in Attempt /\ V(h) \in Verification
        /\ AttemptOK(Mine(h), handler[h].n, Len(attempts[V(h)]), baseline)
    BY <1>1, MinePosted, SMTT(30) DEF Idling
  <2>2. Mine(h).evidence = NoEvidence
    BY <1>1, <1>3, Ready DEF RecordOK, Working, Token, Owns, HasToken, Mine, V
  <2>3. /\ b \in Attempt /\ b.state = "abandoned" /\ b.named = Mine(h).named
        /\ b.boxes = Mine(h).boxes /\ b.up = Mine(h).up /\ b.evidence = Mine(h).evidence
        /\ ~b.cited
    BY <2>1 DEF Attempt
  <2>4. attempts' = [attempts EXCEPT ![V(h)][handler[h].n] = b]
    BY <1>3 DEF Finished, SetMine
  <2> HIDE DEF b
  <2>5. AttemptOK(b, handler[h].n, Len(attempts[V(h)]), baseline)
    BY <2>1, <2>2, <2>3 DEF AttemptOK, Verdict, NoEvidence
  <2>6. Keeps
    BY <1>1, <2>1, SettledTyped DEF Keeps, Reply, Inv, TypeOK
  <2>7. QED
    BY <1>1, <2>3, <2>4, <2>5, <2>6, EndsAttempt DEF Working, Reply
<1>4. QED
  BY <1>2, <1>3 DEF Abandon

LEMMA FailHolds ==
    ASSUME Inv, UNCHANGED slot, NEW h \in Handler, Fail(h)
    PROVE  Inv'
<1>1. handler[h].at = "failing" /\ faults' \in 0 .. MaxFaults /\ UNCHANGED <<scene, rows>>
  BY FaultsTyped DEF Fail, Running
<1>2. CASE Reply(h, "failed") /\ UNCHANGED attempts
  BY <1>1, <1>2, JustAnswered
<1>3. ASSUME NEW state \in {"exhausted", "retryable_failed"},
             ~HasEvidence(Mine(h)), Finished(h, state, FALSE),
             \/ Goto(h, "record") /\ UNCHANGED job
             \/ Reply(h, "failed")
      PROVE  Inv'
  <2> DEFINE b == [Mine(h) EXCEPT !.state = state, !.live = FALSE, !.cited = FALSE]
  <2>1. /\ Mine(h) \in Attempt /\ V(h) \in Verification
        /\ AttemptOK(Mine(h), handler[h].n, Len(attempts[V(h)]), baseline)
    BY <1>1, MinePosted DEF Idling
  <2>2. /\ b \in Attempt /\ b.state = state /\ b.named = Mine(h).named
        /\ b.boxes = Mine(h).boxes /\ b.up = Mine(h).up /\ b.evidence = Mine(h).evidence
        /\ ~b.cited
    BY <1>3, <2>1 DEF Attempt
  <2>3. attempts' = [attempts EXCEPT ![V(h)][handler[h].n] = b]
    BY <1>3 DEF Finished, SetMine
  <2> HIDE DEF b
  <2>4. b.state # "active"
    BY <1>3, <2>2
  <2>5. AttemptOK(b, handler[h].n, Len(attempts[V(h)]), baseline)
    BY <1>3, <2>1, <2>2, <2>4 DEF AttemptOK, HasEvidence, Verdict, NoEvidence
  <2>6. Keeps
    BY <1>1, <1>3, <2>1, SettledTyped DEF Keeps, Reply, Inv, TypeOK
  <2>7. handler' = [handler EXCEPT ![h] = Idle] \/ Goto(h, "record")
    BY <1>3 DEF Reply
  <2>8. QED
    BY <1>1, <2>2, <2>3, <2>4, <2>5, <2>6, <2>7, EndsAttempt DEF Working
<1>4. QED
  BY <1>2, <1>3 DEF Fail

LEMMA FinalizeHolds ==
    ASSUME Inv, UNCHANGED slot, NEW h \in Handler, Finalize(h)
    PROVE  Inv'
<1> DEFINE e == Mine(h).evidence
           state == IF e.contract = "checks_passed" THEN "succeeded"
                    ELSE IF e.contract # "infrastructure_failed" THEN "checks_failed"
                    ELSE IF Exhausted(h, e.final) THEN "exhausted"
                    ELSE "retryable_failed"
<1>1. handler[h].at = "finalize" /\ faults' \in 0 .. MaxFaults /\ UNCHANGED <<scene, rows>>
  BY FaultsTyped DEF Finalize, Running
<1>2. /\ handler[h] \in Local /\ RecordOK(handler[h], h, attempts, slot, baseline)
      /\ handler[h].reports = NoEvidence
  BY <1>1, Ready DEF RecordOK
<1>3. /\ V(h) \in 1 .. Len(attempts) /\ V(h) \in Verification
      /\ handler[h].n \in 1 .. Len(attempts[V(h)])
      /\ Mine(h) \in Attempt
      /\ AttemptOK(Mine(h), handler[h].n, Len(attempts[V(h)]), baseline)
  BY <1>1, MinePosted DEF Idling
<1>4. CASE Reply(h, "failed") /\ UNCHANGED attempts
  BY <1>1, <1>4, JustAnswered
<1>5. CASE ~handler[h].held /\ Goto(h, "record") /\ UNCHANGED <<attempts, job>>
  <2> DEFINE r == [handler[h] EXCEPT !.at = "record"]
  <2>1. /\ r \in Local /\ r.at = "record" /\ r.v = V(h) /\ r.n = handler[h].n
        /\ r.reports = NoEvidence
        /\ handler' = [handler EXCEPT ![h] = r]
    BY <1>2, <1>5 DEF Local, Goto, V
  <2> HIDE DEF r
  <2>2. attempts[V(h)][handler[h].n].state # "active"
    BY <1>1, <1>2, <1>5 DEF RecordOK, V
  <2>3. RecordOK(r, h, attempts, slot', baseline) /\ ~Sandboxed(r)
    BY <1>3, <2>1, <2>2 DEF RecordOK, Idling, Working, Sound, Sandboxed, Convinced
  <2>4. QED
    BY <1>1, <1>5, <2>1, <2>3, GoesOn
<1>6. CASE /\ Finished(h, state, TRUE)
           /\ (Goto(h, "record") /\ UNCHANGED job) \/ Reply(h, "failed")
  <2> DEFINE b == [Mine(h) EXCEPT !.state = state, !.live = FALSE, !.cited = TRUE]
  <2>1. e # NoEvidence
    BY <1>1, <1>2 DEF RecordOK, Mine, V
  <2>2. state \in {"succeeded", "checks_failed", "exhausted", "retryable_failed"}
    OBVIOUS
  <2>3. Verdict(e) => state = IF e.contract = "checks_passed" THEN "succeeded" ELSE "checks_failed"
    BY DEF Verdict
  <2>4. attempts' = [attempts EXCEPT ![V(h)][handler[h].n] = b]
    BY <1>6 DEF Finished, SetMine
  <2> HIDE DEF state
  <2>5. /\ b \in Attempt /\ b.state = state /\ b.named = Mine(h).named
        /\ b.boxes = Mine(h).boxes /\ b.up = Mine(h).up /\ b.evidence = e
        /\ b.cited
    BY <1>3, <2>2 DEF Attempt
  <2> HIDE DEF b
  <2>6. b.state # "active"
    BY <2>2, <2>5
  <2>7. AttemptOK(b, handler[h].n, Len(attempts[V(h)]), baseline)
    BY <1>3, <2>1, <2>3, <2>5, <2>6 DEF AttemptOK
  <2>8. Keeps
    BY <1>1, <1>3, <1>6, SettledTyped DEF Keeps, Reply, Inv, TypeOK
  <2>9. handler' = [handler EXCEPT ![h] = Idle] \/ Goto(h, "record")
    BY <1>6 DEF Reply
  <2>10. QED
    BY <1>1, <2>4, <2>5, <2>6, <2>7, <2>8, <2>9, EndsAttempt
<1>7. QED
  BY <1>4, <1>5, <1>6 DEF Finalize, Conclude

LEMMA RecoverHolds ==
    ASSUME Inv, UNCHANGED slot, NEW h \in Handler, Recover(h)
    PROVE  Inv'
<1> DEFINE v == V(h)
           n == handler[h].n
           a == attempts[v][n]
           b == [a EXCEPT !.up = FALSE]
           r == [handler[h] EXCEPT !.at = "abandon"]
<1>1. handler[h].at = "recover" /\ faults' \in 0 .. MaxFaults /\ UNCHANGED <<scene, rows>>
  BY FaultsTyped DEF Recover, Running
<1>2. CASE UNCHANGED attempts /\ (Reply(h, "deadletter") \/ Reply(h, "failed"))
  BY <1>1, <1>2, JustAnswered, SMTT(30)
<1>3. CASE SetMine(h, [Mine(h) EXCEPT !.up = FALSE]) /\ Goto(h, "abandon") /\ UNCHANGED job
  <2>1. /\ v \in 1 .. Len(attempts) /\ n \in 1 .. Len(attempts[v]) /\ a \in Attempt
        /\ AttemptOK(a, n, Len(attempts[v]), baseline)
    BY <1>1, MinePosted DEF Idling, Mine
  <2>2. /\ b \in Attempt /\ b.state = a.state /\ b.owner = a.owner /\ b.named = a.named
        /\ b.boxes = a.boxes /\ ~b.up /\ b.evidence = a.evidence /\ b.cited = a.cited
    BY <2>1 DEF Attempt
  <2>3. attempts' = [attempts EXCEPT ![v][n] = b]
    BY <1>3 DEF SetMine, Mine
  <2>4. handler[h] \in Local /\ RecordOK(handler[h], h, attempts, slot, baseline)
    BY Ready
  <2>5. /\ r \in Local /\ r.at = "abandon" /\ r.v = v /\ r.n = n
        /\ r.reports = handler[h].reports /\ r.held = handler[h].held
        /\ handler' = [handler EXCEPT ![h] = r]
    BY <1>3, <2>4 DEF Local, Goto, V
  <2> HIDE DEF b, r
  <2>6. Moves(h, handler[h], n = n, a, b) /\ AttemptOK(b, n, Len(attempts[v]), baseline)
    <3>1. b.boxes \in Nat
      BY <2>2 DEF Attempt
    <3> HIDE DEF a, n, v
    <3>2. Moves(h, handler[h], n = n, a, b)
      BY <2>2, <3>1 DEF Moves
    <3>3. AttemptOK(b, n, Len(attempts[v]), baseline)
      BY <2>1, <2>2, SMTT(30) DEF AttemptOK
    <3>4. QED
      BY <3>2, <3>3
  <2>7. /\ Len(attempts') = Len(attempts) /\ Len(attempts'[v]) = Len(attempts[v])
        /\ attempts'[v][n] = b
    BY <2>1, <2>2, <2>3, <2>6, EntryChanges
  <2>8. Token(handler[h], h, attempts) <=> (a.state = "active" /\ a.owner = h)
    BY DEF Token, V
  <2>9. Token(r, h, attempts') => Token(handler[h], h, attempts)
    BY <2>2, <2>5, <2>7, <2>8 DEF Token
  <2>10. /\ r.reports = NoEvidence /\ r.held
         /\ Token(handler[h], h, attempts) => a.evidence = NoEvidence
    BY <1>1, <2>4, <2>5 DEF RecordOK, Working, V
  <2>11. RecordOK(r, h, attempts', slot', baseline) /\ Entered(h, r, attempts')
    BY <2>1, <2>2, <2>5, <2>7, <2>9, <2>10
       DEF RecordOK, Idling, Working, Sound, Sandboxed, Convinced, Entered
  <2>12. Keeps
    BY <1>1, <1>3, StillKeeps
  <2>13. QED
    BY <1>1, <2>1, <2>2, <2>3, <2>5, <2>6, <2>11, <2>12, MineStep
<1>4. QED
  BY <1>2, <1>3 DEF Recover

-----------------------------------------------------------------------------
(* Sandboxes and reports                                                   *)

(* What a run reports.                                                      *)
LEMMA ReportFacts ==
    ASSUME TypeOK, baseline # "unusable", NEW done \in 0 .. Len(Phases), NEW check \in Check,
           NEW clean \in BOOLEAN, NEW final \in BOOLEAN
    PROVE  LET e == Report(done, check, clean, final)
           IN  /\ e \in Evidence /\ e # NoEvidence /\ Sound(e, baseline)
               /\ Verdict(e) => done = Len(Phases) /\ clean
<1> DEFINE e == Report(done, check, clean, final)
           trusted == Trusted(done, clean)
           contract == IF ~trusted \/ check = "timed_out" THEN "infrastructure_failed"
                       ELSE IF check = "failed" THEN "checks_failed" ELSE "checks_passed"
           comparison == CompareWithBaseline(contract, baseline)
<1>1. e = [contract |-> contract, comparison |-> comparison, trusted |-> trusted,
           final |-> final]
  BY DEF Report
<1>2. trusted \in BOOLEAN /\ (trusted <=> done = Len(Phases) /\ clean)
  BY DEF Trusted
<1> HIDE DEF trusted
<1>3. contract \in Contract /\ (contract # "infrastructure_failed" => trusted)
  BY DEF Contract
<1> HIDE DEF contract
<1>4. comparison \in Comparison
  <2>1. baseline \in {"passed", "failed"}
    BY DEF TypeOK
  <2>2. QED
    BY <1>3, <2>1 DEF CompareWithBaseline, Contract, Comparison
<1>5. comparison = CompareWithBaseline(contract, baseline)
  OBVIOUS
<1> HIDE DEF comparison, e
<1>6. e \in Evidence /\ e.contract = contract /\ e.comparison = comparison
      /\ (e.trusted <=> trusted)
  BY <1>1, <1>2, <1>3, <1>4 DEF Evidence
<1>7. e # NoEvidence
  BY <1>3, <1>6 DEF NoEvidence, Contract
<1>8. Sound(e, baseline)
  BY <1>3, <1>5, <1>6 DEF Sound, Admissible
<1>9. Verdict(e) => done = Len(Phases) /\ clean
  BY <1>2, <1>3, <1>6 DEF Verdict
<1>10. QED
  BY <1>6, <1>7, <1>8, <1>9 DEF e

(* The record of a handler that reports e.                                  *)
LEMMA Reporting ==
    ASSUME Inv, NEW h \in Handler, NEW e \in Evidence, Reports(h, e)
    PROVE  LET r == [handler[h] EXCEPT !.at = "persist", !.reports = e]
           IN  /\ r \in Local /\ r.at = "persist" /\ r.v = handler[h].v
               /\ r.n = handler[h].n /\ r.reports = e /\ r.held = handler[h].held
               /\ handler' = [handler EXCEPT ![h] = r]
BY Ready DEF Local, Reports

(* A failure is reported, and the attempt stays as it is.                   *)
LEMMA ReportsFailure ==
    ASSUME Inv, NEW h \in Handler, handler[h].at \in {"request", "create"},
           NEW final \in BOOLEAN, Reports(h, Report(0, "passed", FALSE, final)),
           UNCHANGED <<scene, rows, attempts, job, faults>>, slot' \in {slot, "free"}
    PROVE  Inv'
<1> DEFINE e == Report(0, "passed", FALSE, final)
           r == [handler[h] EXCEPT !.at = "persist", !.reports = e]
<1>1. handler[h] \in Local /\ RecordOK(handler[h], h, attempts, slot, baseline) /\ TypeOK
  BY Ready
<1>2. baseline # "unusable"
  BY <1>1 DEF RecordOK
<1>3. 0 \in 0 .. Len(Phases) /\ "passed" \in Check /\ FALSE \in BOOLEAN /\ 0 # Len(Phases)
  BY DEF Phases, Check
<1>4. e \in Evidence /\ e # NoEvidence /\ Sound(e, baseline) /\ ~Verdict(e)
  BY <1>1, <1>2, <1>3, ReportFacts
<1> HIDE DEF e
<1>5. /\ r \in Local /\ r.at = "persist" /\ r.v = handler[h].v
      /\ r.n = handler[h].n /\ r.reports = e /\ r.held = handler[h].held
      /\ handler' = [handler EXCEPT ![h] = r]
  BY <1>4, Reporting DEF e
<1> HIDE DEF r
<1>6. RecordOK(r, h, attempts, slot', baseline) /\ ~Sandboxed(r)
  BY <1>1, <1>2, <1>4, <1>5 DEF RecordOK, Idling, Working, Sandboxed, Convinced, Token
<1>7. faults' \in 0 .. MaxFaults
  BY FaultsTyped
<1>8. QED
  BY <1>5, <1>6, <1>7, GoesOn

(* The attempt a handler with the token works on is the last, and the only   *)
(* active one, of its verification.                                         *)
LEMMA MineIsLast ==
    ASSUME Inv, NEW h \in Handler, handler[h].at \notin Idling \cup {"record"}, HasToken(h),
           ~Verdict(Mine(h).evidence)
    PROVE  handler[h].n = Len(attempts[V(h)]) /\ VerdictFree(attempts[V(h)])
<1>1. /\ V(h) \in 1 .. Len(attempts)
      /\ AttemptOK(Mine(h), handler[h].n, Len(attempts[V(h)]), baseline)
  BY MinePosted DEF Idling
<1>2. handler[h].n = Len(attempts[V(h)])
  BY <1>1 DEF AttemptOK, HasToken
<1>3. ASSUME NEW k \in 1 .. Len(attempts[V(h)]), Verdict(attempts[V(h)][k].evidence)
      PROVE  FALSE
  <2>1. k = Len(attempts[V(h)])
    BY <1>1, <1>3 DEF Inv, AttemptsOK, AttemptOK
  <2>2. QED
    BY <1>2, <1>3, <2>1 DEF Mine
<1>4. QED
  BY <1>2, <1>3 DEF VerdictFree

LEMMA RequestHolds ==
    ASSUME Inv, NEW h \in Handler, Request(h)
    PROVE  Inv'
<1> DEFINE v == V(h)
           n == handler[h].n
           a == attempts[v][n]
           b == [a EXCEPT !.named = TRUE]
           r == [handler[h] EXCEPT !.at = "create"]
<1>1. handler[h].at = "request" /\ faults' \in 0 .. MaxFaults
      /\ UNCHANGED <<scene, rows, job, faults>>
  BY FaultsTyped DEF Request, Running
<1>2. CASE /\ UNCHANGED <<attempts, slot>>
           /\ \E final \in BOOLEAN : Reports(h, Report(0, "passed", FALSE, final))
  BY <1>1, <1>2, ReportsFailure
<1>3. CASE /\ Owns(h) /\ slot = "free"
           /\ SetMine(h, [Mine(h) EXCEPT !.named = TRUE])
           /\ slot' = h /\ Goto(h, "create")
  <2>1. /\ v \in 1 .. Len(attempts) /\ n \in 1 .. Len(attempts[v]) /\ a \in Attempt
        /\ AttemptOK(a, n, Len(attempts[v]), baseline)
    BY <1>1, MinePosted DEF Idling, Mine
  <2>2. handler[h] \in Local /\ RecordOK(handler[h], h, attempts, slot, baseline)
    BY Ready
  <2>3. a.state = "active" /\ a.owner = h
    BY <1>3 DEF Owns, HasToken, Mine
  <2>4. ~a.named /\ a.evidence = NoEvidence /\ baseline # "unusable" /\ handler[h].held
        /\ handler[h].reports = NoEvidence
    BY <1>1, <2>2, <2>3 DEF RecordOK, Working, Token, V
  <2>5. a.boxes = 0
    BY <2>1, <2>4 DEF AttemptOK
  <2>6. VerdictFree(attempts[v])
    <3>1. ~Verdict(Mine(h).evidence)
      BY <2>4 DEF Verdict, NoEvidence, Mine
    <3>2. QED
      BY <1>1, <1>3, <3>1, MineIsLast DEF Idling, Owns
  <2>7. /\ b \in Attempt /\ b.state = a.state /\ b.owner = a.owner /\ b.named
        /\ b.boxes = a.boxes /\ b.up = a.up /\ b.evidence = a.evidence /\ b.cited = a.cited
    BY <2>1 DEF Attempt
  <2>8. attempts' = [attempts EXCEPT ![v][n] = b]
    BY <1>3 DEF SetMine, Mine
  <2>9. /\ r \in Local /\ r.at = "create" /\ r.v = v /\ r.n = n
        /\ r.reports = handler[h].reports /\ r.held = handler[h].held
        /\ handler' = [handler EXCEPT ![h] = r]
    BY <1>3, <2>2 DEF Local, Goto, V
  <2> HIDE DEF b, r
  <2>10. Moves(h, handler[h], n = n, a, b) /\ AttemptOK(b, n, Len(attempts[v]), baseline)
    BY <2>1, <2>3, <2>7, SMTT(30) DEF Moves, Attempt, AttemptOK
  <2>11. /\ Len(attempts') = Len(attempts) /\ Len(attempts'[v]) = Len(attempts[v])
         /\ attempts'[v][n] = b
         /\ \A m \in 1 .. Len(attempts[v]) : m # n => attempts'[v][m] = attempts[v][m]
    BY <2>1, <2>7, <2>8, <2>10, EntryChanges
  <2>12. VerdictFree(attempts'[v])
    BY <2>1, <2>4, <2>6, <2>7, <2>11 DEF VerdictFree
  <2>13. RecordOK(r, h, attempts', slot', baseline)
    BY <2>1, <2>4, <2>5, <2>7, <2>9, <2>11, <2>12
       DEF RecordOK, Idling, Working, Sound, Convinced
  <2>14. Token(r, h, attempts')
    BY <2>3, <2>7, <2>9, <2>11 DEF Token
  <2>15. Entered(h, r, attempts')
    BY <2>1, <2>4, <2>7, <2>9, <2>11, <2>14 DEF Entered, Convinced
  <2>16. Keeps
    BY <1>1, StillKeeps
  <2>17. slot' \in {slot, "free", h}
    BY <1>3
  <2>18. QED
    BY <1>1, <2>1, <2>7, <2>8, <2>9, <2>10, <2>13, <2>15, <2>16, <2>17, MineStep
<1>4. QED
  BY <1>2, <1>3 DEF Request

(* A Sandbox is created for the attempt; the handler goes on or reports.     *)
LEMMA CreateHolds ==
    ASSUME Inv, NEW h \in Handler, Create(h)
    PROVE  Inv'
<1> DEFINE v == V(h)
           n == handler[h].n
           a == attempts[v][n]
           b == [a EXCEPT !.boxes = @ + 1, !.up = TRUE]
<1>1. handler[h].at = "create" /\ faults' \in 0 .. MaxFaults
      /\ UNCHANGED <<scene, rows, job, faults>>
  BY FaultsTyped DEF Create, Running
<1>2. /\ v \in 1 .. Len(attempts) /\ n \in 1 .. Len(attempts[v]) /\ a \in Attempt
      /\ AttemptOK(a, n, Len(attempts[v]), baseline)
  BY <1>1, MinePosted DEF Idling, Mine
<1>3. handler[h] \in Local /\ RecordOK(handler[h], h, attempts, slot, baseline) /\ TypeOK
  BY Ready
<1>4. /\ a.named /\ a.boxes = 0 /\ baseline # "unusable" /\ handler[h].held
      /\ handler[h].reports = NoEvidence
      /\ Token(handler[h], h, attempts) => a.evidence = NoEvidence
  BY <1>1, <1>3 DEF RecordOK, Working, V
<1>5. Sandboxed(handler[h])
  BY <1>1 DEF Sandboxed
<1>6. slot' \in {slot, "free"} => Keeps
  BY <1>1, StillKeeps
<1>7. ASSUME SetMine(h, [Mine(h) EXCEPT !.boxes = @ + 1, !.up = TRUE])
      PROVE  /\ b \in Attempt /\ attempts' = [attempts EXCEPT ![v][n] = b]
             /\ b.state = a.state /\ b.owner = a.owner /\ b.named /\ b.boxes = 1 /\ b.up
             /\ b.evidence = a.evidence /\ b.cited = a.cited
             /\ Moves(h, handler[h], n = n, a, b) /\ AttemptOK(b, n, Len(attempts[v]), baseline)
  <2>1. attempts' = [attempts EXCEPT ![v][n] = b]
    BY <1>7 DEF SetMine, Mine
  <2>2. b = [a EXCEPT !.boxes = 1, !.up = TRUE]
    BY <1>4
  <2>3. 1 \in 0 .. 2
    OBVIOUS
  <2>4. /\ b \in Attempt /\ b.state = a.state /\ b.owner = a.owner /\ b.named = a.named
        /\ b.boxes = 1 /\ b.up /\ b.evidence = a.evidence /\ b.cited = a.cited
    BY <1>2, <2>2, <2>3 DEF Attempt
  <2>5. b.named
    BY <1>4, <2>4
  <2> HIDE DEF b
  <2>6. 1 \in Nat /\ 1 > 0
    OBVIOUS
  <2>7. Moves(h, handler[h], n = n, a, b)
    BY <1>2, <1>4, <1>5, <2>4, <2>5, <2>6 DEF Moves, Attempt
  <2>8. ~Verdict(a.evidence)
    BY <1>2, <1>4, SMTT(30) DEF AttemptOK
  <2>9. AttemptOK(b, n, Len(attempts[v]), baseline)
    BY <1>2, <2>4, <2>5, <2>8 DEF AttemptOK
  <2>10. QED
    BY <2>1, <2>4, <2>5, <2>7, <2>9
<1>8. CASE /\ slot = h
           /\ SetMine(h, [Mine(h) EXCEPT !.boxes = @ + 1, !.up = TRUE])
           /\ Goto(h, "run") /\ UNCHANGED slot
  <2> DEFINE r == [handler[h] EXCEPT !.at = "run"]
  <2>1. /\ r \in Local /\ r.at = "run" /\ r.v = v /\ r.n = n
        /\ r.reports = handler[h].reports /\ r.held = handler[h].held
        /\ handler' = [handler EXCEPT ![h] = r]
    BY <1>3, <1>8 DEF Local, Goto, V
  <2>2. /\ b \in Attempt /\ attempts' = [attempts EXCEPT ![v][n] = b]
        /\ b.state = a.state /\ b.owner = a.owner /\ b.named /\ b.boxes = 1
        /\ b.evidence = a.evidence
        /\ Moves(h, handler[h], n = n, a, b) /\ AttemptOK(b, n, Len(attempts[v]), baseline)
    BY <1>7, <1>8
  <2> HIDE DEF b, r
  <2>3. /\ Len(attempts') = Len(attempts) /\ Len(attempts'[v]) = Len(attempts[v])
        /\ attempts'[v][n] = b
    BY <1>2, <2>2, EntryChanges, SMTT(30)
  <2>4. Token(r, h, attempts') => Token(handler[h], h, attempts)
    BY <2>1, <2>2, <2>3 DEF Token, V
  <2>5. RecordOK(r, h, attempts', slot', baseline)
    BY <1>2, <1>4, <2>1, <2>2, <2>3, <2>4, SMTT(30) DEF RecordOK, Idling, Working, Sound, Convinced
  <2>6. Entered(h, r, attempts')
    BY <1>2, <1>5, <2>1, <2>2, <2>3 DEF Entered, Convinced, Same, V
  <2>7. QED
    BY <1>1, <1>2, <1>6, <1>8, <2>1, <2>2, <2>5, <2>6, MineStep
<1>9. ASSUME NEW final \in BOOLEAN, Reports(h, Report(0, "passed", FALSE, final)), Released(h),
             \/ UNCHANGED attempts
             \/ SetMine(h, [Mine(h) EXCEPT !.boxes = @ + 1, !.up = TRUE])
      PROVE  Inv'
  <2>1. slot' \in {slot, "free"}
    BY <1>9 DEF Released
  <2>2. CASE UNCHANGED attempts
    BY <1>1, <1>9, <2>1, <2>2, ReportsFailure
  <2>3. CASE SetMine(h, [Mine(h) EXCEPT !.boxes = @ + 1, !.up = TRUE])
    <3> DEFINE e == Report(0, "passed", FALSE, final)
               r == [handler[h] EXCEPT !.at = "persist", !.reports = e]
    <3>1. 0 \in 0 .. Len(Phases) /\ "passed" \in Check /\ FALSE \in BOOLEAN /\ 0 # Len(Phases)
      BY DEF Phases, Check
    <3>2. e \in Evidence /\ e # NoEvidence /\ Sound(e, baseline) /\ ~Verdict(e)
      BY <1>3, <1>4, <3>1, ReportFacts
    <3> HIDE DEF e
    <3>3. /\ r \in Local /\ r.at = "persist" /\ r.v = v /\ r.n = n /\ r.reports = e
          /\ r.held = handler[h].held
          /\ handler' = [handler EXCEPT ![h] = r]
      BY <1>9, <3>2, Reporting DEF e, V
    <3>4. /\ b \in Attempt /\ attempts' = [attempts EXCEPT ![v][n] = b]
          /\ b.state = a.state /\ b.owner = a.owner /\ b.named /\ b.evidence = a.evidence
          /\ Moves(h, handler[h], n = n, a, b) /\ AttemptOK(b, n, Len(attempts[v]), baseline)
      BY <1>7, <2>3, SMTT(30)
    <3> HIDE DEF b, r
    <3>5. /\ Len(attempts') = Len(attempts) /\ Len(attempts'[v]) = Len(attempts[v])
          /\ attempts'[v][n] = b
      BY <1>2, <3>4, EntryChanges, SMTT(30)
    <3>6. Token(r, h, attempts') => Token(handler[h], h, attempts)
      BY <3>3, <3>4, <3>5 DEF Token, V
    <3>7. RecordOK(r, h, attempts', slot', baseline)
      BY <1>2, <1>4, <3>2, <3>3, <3>4, <3>5, <3>6 DEF RecordOK, Idling, Working, Convinced
    <3>8. Entered(h, r, attempts')
      BY <3>2, <3>3, SMTT(30) DEF Entered, Sandboxed, Convinced
    <3>9. QED
      BY <1>1, <1>2, <1>6, <2>1, <3>3, <3>4, <3>7, <3>8, MineStep
  <2>4. QED
    BY <1>9, <2>2, <2>3
<1>10. QED
  BY <1>8, <1>9 DEF Create

LEMMA RunHolds ==
    ASSUME Inv, NEW h \in Handler, Run(h)
    PROVE  Inv'
<1> DEFINE v == V(h)
           n == handler[h].n
           a == attempts[v][n]
<1>1. handler[h].at = "run" /\ faults' \in 0 .. MaxFaults
      /\ UNCHANGED <<scene, rows, job, faults>>
  BY FaultsTyped DEF Run, Running
<1>2. PICK done \in 1..Len(Phases), check \in Check, clean \in BOOLEAN, final \in BOOLEAN :
          /\ (Owns(h) /\ slot = h) \/ done = 1
          /\ SetMine(h, [Mine(h) EXCEPT !.up = ~clean])
          /\ Reports(h, Report(done, check, clean, final))
  BY DEF Run
<1> DEFINE e == Report(done, check, clean, final)
           r == [handler[h] EXCEPT !.at = "persist", !.reports = e]
           b == [a EXCEPT !.up = ~clean]
<1>3. /\ v \in 1 .. Len(attempts) /\ n \in 1 .. Len(attempts[v]) /\ a \in Attempt
      /\ AttemptOK(a, n, Len(attempts[v]), baseline)
  BY <1>1, MinePosted DEF Idling, Mine
<1>4. handler[h] \in Local /\ RecordOK(handler[h], h, attempts, slot, baseline) /\ TypeOK
  BY Ready
<1>5. /\ a.boxes > 0 /\ baseline # "unusable" /\ handler[h].held
      /\ Token(handler[h], h, attempts) => a.evidence = NoEvidence
  BY <1>1, <1>4 DEF RecordOK, Working, V
<1>6. Sandboxed(handler[h]) /\ ~Verdict(a.evidence)
  <2>1. Sandboxed(handler[h])
    BY <1>1 DEF Sandboxed
  <2>2. QED
    BY <1>3, <2>1 DEF Inv, AttemptsOK, V
<1>7. done \in 0 .. Len(Phases) /\ 1 # Len(Phases)
  BY DEF Phases
<1>8. /\ e \in Evidence /\ e # NoEvidence /\ Sound(e, baseline)
      /\ Verdict(e) => done = Len(Phases) /\ clean
  BY <1>4, <1>5, <1>7, ReportFacts
<1>9. Verdict(e) => slot = h /\ clean
  BY <1>2, <1>7, <1>8
<1> HIDE DEF e
<1>10. /\ r \in Local /\ r.at = "persist" /\ r.v = v /\ r.n = n /\ r.reports = e
       /\ r.held = handler[h].held
       /\ handler' = [handler EXCEPT ![h] = r]
  BY <1>2, <1>8, Reporting DEF e, V
<1>11. /\ b \in Attempt /\ b.state = a.state /\ b.owner = a.owner /\ b.named = a.named
       /\ b.boxes = a.boxes /\ (b.up <=> ~clean) /\ b.evidence = a.evidence
       /\ b.cited = a.cited
  BY <1>3 DEF Attempt
<1>12. attempts' = [attempts EXCEPT ![v][n] = b]
  BY <1>2 DEF SetMine, Mine
<1> HIDE DEF b, r
<1>13. Moves(h, handler[h], n = n, a, b) /\ AttemptOK(b, n, Len(attempts[v]), baseline)
  <2>1. a.boxes \in Nat
    BY <1>3 DEF Attempt
  <2>2. Moves(h, handler[h], n = n, a, b)
    BY <1>6, <1>11, <2>1 DEF Moves
  <2>3. AttemptOK(b, n, Len(attempts[v]), baseline)
    <3> HIDE DEF a
    <3>1. QED
      BY <1>3, <1>6, <1>11, SMTT(30) DEF AttemptOK
  <2>4. QED
    BY <2>2, <2>3
<1>14. /\ Len(attempts') = Len(attempts) /\ Len(attempts'[v]) = Len(attempts[v])
       /\ attempts'[v][n] = b
  BY <1>3, <1>11, <1>12, <1>13, EntryChanges
<1>15. Token(r, h, attempts') => Token(handler[h], h, attempts)
  BY <1>10, <1>11, <1>14, SMTT(30) DEF Token, V
<1>16. RecordOK(r, h, attempts', slot', baseline)
  BY <1>3, <1>5, <1>8, <1>9, <1>10, <1>11, <1>14, <1>15 DEF RecordOK, Idling, Working, Convinced
<1>17. Entered(h, r, attempts')
  BY <1>3, <1>6, <1>9, <1>10, <1>11, <1>14 DEF Entered, Convinced, Same, V
<1>18. Keeps /\ slot' \in {slot, "free", h}
  BY <1>1, StillKeeps DEF Run, Released
<1>19. QED
  BY <1>1, <1>3, <1>10, <1>11, <1>12, <1>13, <1>16, <1>17, <1>18, MineStep

LEMMA PersistHolds ==
    ASSUME Inv, UNCHANGED slot, NEW h \in Handler, Persist(h)
    PROVE  Inv'
<1> DEFINE v == V(h)
           n == handler[h].n
           a == attempts[v][n]
           e == handler[h].reports
           b == [a EXCEPT !.evidence = e]
           r == [handler[h] EXCEPT !.at = "finalize", !.reports = NoEvidence]
<1>1. handler[h].at = "persist" /\ faults' \in 0 .. MaxFaults /\ UNCHANGED <<scene, rows, job>>
  BY FaultsTyped DEF Persist, Running
<1>2. CASE Throw(h, FALSE) /\ UNCHANGED attempts
  BY <1>1, <1>2, Throws DEF Working
<1>3. CASE /\ HasToken(h) /\ Admissible(e)
           /\ SetMine(h, [Mine(h) EXCEPT !.evidence = e])
           /\ handler' = [handler EXCEPT ![h].at = "finalize", ![h].reports = NoEvidence]
  <2>1. /\ v \in 1 .. Len(attempts) /\ n \in 1 .. Len(attempts[v]) /\ a \in Attempt
        /\ AttemptOK(a, n, Len(attempts[v]), baseline)
    BY <1>1, MinePosted DEF Idling, Mine
  <2>2. handler[h] \in Local /\ RecordOK(handler[h], h, attempts, slot, baseline)
    BY Ready
  <2>3. /\ e # NoEvidence /\ Sound(e, baseline) /\ handler[h].held
        /\ Convinced(handler[h]) => a.boxes > 0 /\ ~a.up
    BY <1>1, <2>2 DEF RecordOK, Working, V
  <2>4. e \in Evidence \cup {NoEvidence}
    BY <2>2 DEF Local
  <2>5. Verdict(e) => Convinced(handler[h])
    BY <1>1 DEF Convinced
  <2>6. a.state = "active" /\ a.owner = h
    BY <1>3 DEF HasToken, Mine
  <2> HIDE DEF e
  <2>7. /\ b \in Attempt /\ b.state = a.state /\ b.owner = a.owner /\ b.named = a.named
        /\ b.boxes = a.boxes /\ b.up = a.up /\ b.evidence = e /\ b.cited = a.cited
    BY <2>1, <2>4 DEF Attempt
  <2>8. attempts' = [attempts EXCEPT ![v][n] = b]
    BY <1>3 DEF SetMine, Mine, e
  <2>9. /\ r \in Local /\ r.at = "finalize" /\ r.v = v /\ r.n = n
        /\ r.reports = NoEvidence /\ r.held
        /\ handler' = [handler EXCEPT ![h] = r]
    BY <1>3, <2>2, <2>3 DEF Local, V
  <2> HIDE DEF b, r
  <2>10. Moves(h, handler[h], n = n, a, b)
    BY <2>1, <2>3, <2>5, <2>6, <2>7, SMTT(30) DEF Moves, Attempt
  <2>11. AttemptOK(b, n, Len(attempts[v]), baseline)
    BY <2>1, <2>3, <2>5, <2>6, <2>7, SMTT(30) DEF AttemptOK
  <2>12. /\ Len(attempts') = Len(attempts) /\ Len(attempts'[v]) = Len(attempts[v])
         /\ attempts'[v][n] = b
    BY <2>1, <2>7, <2>8, <2>10, <2>11, EntryChanges
  <2>13. RecordOK(r, h, attempts', slot', baseline) /\ Entered(h, r, attempts')
    BY <2>1, <2>3, <2>7, <2>9, <2>12
       DEF RecordOK, Idling, Working, Sound, Sandboxed, Convinced, Entered
  <2>14. Keeps
    BY <1>1, StillKeeps
  <2>15. QED
    BY <1>1, <2>1, <2>7, <2>8, <2>9, <2>10, <2>11, <2>13, <2>14, MineStep
<1>4. QED
  BY <1>2, <1>3 DEF Persist

-----------------------------------------------------------------------------
(* The invariant holds                                                     *)

LEMMA StepHolds ==
    ASSUME Inv, NEW h \in Handler, Step(h)
    PROVE  Inv'
BY RequestHolds, CreateHolds, RunHolds, ClaimHolds, RecoverHolds, AbandonHolds, PrepareHolds,
   PersistHolds, FinalizeHolds, RecordHolds, FailHolds DEF Step

LEMMA AroundHolds ==
    ASSUME Inv, Around, UNCHANGED slot
    PROVE  Inv'
BY SceneHolds, LoopVerifiesHolds, StartHolds, LapseHolds, ExpireHolds, DeliverHolds,
   StallHolds, CrashHolds DEF Around

LEMMA StutterHolds ==
    ASSUME Inv, UNCHANGED vars
    PROVE  Inv'
<1>1. Scenery /\ UNCHANGED <<rows, attempts, slot>> /\ job' \in [Verification -> Job]
  BY DEF Inv, TypeOK, Scenery, vars, scene
<1>2. QED
  BY <1>1, NothingAdded

(* The types, what every handler may rely on, and what the rows and attempts *)
(* say of each other.                                                       *)
THEOREM Invariance == Spec => []Inv
<1>1. ASSUME Inv, [Next]_vars
      PROVE  Inv'
  BY <1>1, StepHolds, AroundHolds, ReservationLapsesHolds, StutterHolds DEF Next
<1>2. QED
  BY <1>1, InitHolds, PTL DEF Spec

(* The rows have their types, and whatever way a run ends, what it reports   *)
(* is evidence the database accepts.                                        *)
THEOREM VerificationConsistent == Spec => []Consistent
<1>1. Inv => Consistent
  BY DEF Inv, Consistent, ReportIsAdmissible, HandlersOK, RecordOK, Sound
<1>2. QED
  BY <1>1, Invariance, PTL

(* A completed verification says what the evidence of its one attempt with a *)
(* verdict says.                                                            *)
THEOREM CompletedIsEvidenced == Spec => []VerdictIsEvidenced
<1>1. ASSUME Inv
      PROVE  VerdictIsEvidenced
  <2> SUFFICES ASSUME NEW v \in Verification, rows[v].state = "completed"
               PROVE  LET a == attempts[v][rows[v].from]
                      IN  /\ a.evidence.contract = rows[v].contract /\ a.evidence.trusted
                          /\ ~a.up
                          /\ a.state = IF rows[v].contract = "checks_passed"
                                       THEN "succeeded" ELSE "checks_failed"
                          /\ rows[v].comparison = CompareWithBaseline(rows[v].contract, baseline)
                          /\ \A n \in DOMAIN attempts[v] :
                                n = rows[v].from \/ attempts[v][n].evidence.contract
                                        \in {"none", "infrastructure_failed"}
    BY DEF VerdictIsEvidenced
  <2> DEFINE from == rows[v].from
             a == attempts[v][from]
  <2>1. /\ v \in 1 .. Len(attempts) /\ DOMAIN attempts[v] = 1 .. Len(attempts[v])
        /\ \A n \in 1 .. Len(attempts[v]) : attempts[v][n] \in Attempt
    BY <1>1, Shape DEF Inv
  <2>2. /\ from \in 1 .. Len(attempts[v]) /\ a.state # "active" /\ Verdict(a.evidence)
        /\ rows[v].contract = a.evidence.contract /\ rows[v].comparison = a.evidence.comparison
    BY <1>1, <2>1 DEF Inv, AttemptsOK, RowOK
  <2>3. AttemptOK(a, from, Len(attempts[v]), baseline)
    BY <1>1, <2>1, <2>2 DEF Inv, AttemptsOK
  <2>4. a.evidence # NoEvidence
    BY <2>2 DEF Verdict, NoEvidence
  <2>5. /\ a.evidence.trusted
        /\ a.evidence.comparison = CompareWithBaseline(a.evidence.contract, baseline)
    BY <2>2, <2>3, <2>4, SMTT(30) DEF AttemptOK, Sound, Admissible, Verdict
  <2>6. ~a.up /\ from = Len(attempts[v])
        /\ a.state = IF a.evidence.contract = "checks_passed" THEN "succeeded" ELSE "checks_failed"
    BY <2>2, <2>3 DEF AttemptOK
  <2>7. ASSUME NEW n \in 1 .. Len(attempts[v]), n # from
        PROVE  attempts[v][n].evidence.contract \in {"none", "infrastructure_failed"}
    <3>1. AttemptOK(attempts[v][n], n, Len(attempts[v]), baseline)
      BY <1>1, <2>1 DEF Inv, AttemptsOK
    <3>2. ~Verdict(attempts[v][n].evidence)
      BY <2>6, <2>7, <3>1 DEF AttemptOK
    <3>3. attempts[v][n].evidence \in Evidence \cup {NoEvidence}
      BY <2>1 DEF Attempt
    <3>4. QED
      BY <3>2, <3>3 DEF Verdict, Evidence, Contract, NoEvidence
  <2>8. QED
    BY <2>1, <2>2, <2>5, <2>6, <2>7
<1>2. QED
  BY <1>1, Invariance, PTL

-----------------------------------------------------------------------------
(* What a step may never do                                                *)

BoxesKept ==
    \A v \in 1 .. Len(attempts) : \A n \in 1 .. Len(attempts[v]) :
        attempts'[v][n].boxes = attempts[v][n].boxes

LEMMA EntryKeepsBoxes ==
    ASSUME Inv, NEW v \in 1 .. Len(attempts), NEW n \in 1 .. Len(attempts[v]), NEW b,
           attempts' = [attempts EXCEPT ![v][n] = b], b.boxes = attempts[v][n].boxes
    PROVE  BoxesKept
<1>1. attempts \in Seq(Seq(Attempt)) /\ DOMAIN attempts = 1 .. Len(attempts)
      /\ \A w \in 1 .. Len(attempts) : DOMAIN attempts[w] = 1 .. Len(attempts[w])
  BY Shape DEF Inv
<1> DEFINE list == [attempts[v] EXCEPT ![n] = b]
<1>2. attempts' = [attempts EXCEPT ![v] = list]
  OBVIOUS
<1>3. \A m \in 1 .. Len(attempts[v]) : list[m] = IF m = n THEN b ELSE attempts[v][m]
  BY <1>1
<1> HIDE DEF list
<1>4. \A w \in 1 .. Len(attempts) : attempts'[w] = IF w = v THEN list ELSE attempts[w]
  BY <1>1, <1>2
<1>5. QED
  BY <1>3, <1>4 DEF BoxesKept

LEMMA MineKeepsBoxes ==
    ASSUME Inv, NEW h \in Handler, handler[h].at \notin Idling \cup {"record"}, NEW b,
           SetMine(h, b), b.boxes = Mine(h).boxes
    PROVE  BoxesKept
BY MinePosted, EntryKeepsBoxes DEF SetMine, Mine, Idling

LEMMA FinishedKeepsBoxes ==
    ASSUME Inv, NEW h \in Handler, handler[h].at \notin Idling \cup {"record"},
           NEW state, NEW cites, Finished(h, state, cites)
    PROVE  BoxesKept
<1> DEFINE b == [Mine(h) EXCEPT !.state = state, !.live = FALSE, !.cited = cites]
<1>1. Mine(h) \in Attempt
  BY MinePosted
<1>2. b.boxes = Mine(h).boxes
  BY <1>1 DEF Attempt
<1>3. SetMine(h, b)
  BY DEF Finished
<1> HIDE DEF b
<1>4. QED
  BY <1>2, <1>3, MineKeepsBoxes

LEMMA AddedKeepsBoxes ==
    ASSUME Inv, NEW x, attempts' = Append(attempts, x)
    PROVE  BoxesKept
BY Shape DEF Inv, BoxesKept

LEMMA UnchangedKeepsBoxes ==
    ASSUME UNCHANGED attempts
    PROVE  BoxesKept
BY DEF BoxesKept

LEMMA ClaimKeepsBoxes ==
    ASSUME Inv, NEW h \in Handler, Claim(h)
    PROVE  BoxesKept
<1>1. handler[h].at = "claim"
  BY DEF Claim, Running
<1>2. V(h) \in 1 .. Len(attempts)
  BY <1>1, MinePosted
<1>3. CASE UNCHANGED attempts
  BY <1>3, UnchangedKeepsBoxes
<1>4. CASE TakeOver(h)
  <2>1. PICK n \in Active(V(h)) :
           \/ attempts' = [attempts EXCEPT ![V(h)][n] =
                             [attempts[V(h)][n] EXCEPT !.owner = h, !.live = TRUE]]
           \/ attempts' = [attempts EXCEPT ![V(h)][n] =
                             [attempts[V(h)][n] EXCEPT !.state = "exhausted"]]
    BY <1>4 DEF TakeOver
  <2>2. n \in 1 .. Len(attempts[V(h)]) /\ attempts[V(h)][n] \in Attempt
    BY <1>2, Shape DEF Active, Inv
  <2> DEFINE a == attempts[V(h)][n]
             b == [a EXCEPT !.owner = h, !.live = TRUE]
             c == [a EXCEPT !.state = "exhausted"]
  <2>3. b.boxes = a.boxes /\ c.boxes = a.boxes
    BY <2>2 DEF Attempt
  <2>4. attempts' = [attempts EXCEPT ![V(h)][n] = b] \/ attempts' = [attempts EXCEPT ![V(h)][n] = c]
    BY <2>1
  <2> HIDE DEF b, c
  <2>5. QED
    BY <1>2, <2>2, <2>3, <2>4, EntryKeepsBoxes, SMTT(30)
<1>5. CASE ClaimAttempt(h)
  <2>1. PICK new : attempts' = [attempts EXCEPT ![V(h)] = Append(@, new)]
    BY <1>5 DEF ClaimAttempt
  <2> DEFINE list == Append(attempts[V(h)], new)
  <2>2. /\ DOMAIN attempts = 1 .. Len(attempts) /\ attempts[V(h)] \in Seq(Attempt)
        /\ Len(attempts[V(h)]) \in Nat
    BY <1>2, Shape DEF Inv
  <2>3. \A n \in 1 .. Len(attempts[V(h)]) : list[n] = attempts[V(h)][n]
    BY <2>2
  <2>4. attempts' = [attempts EXCEPT ![V(h)] = list]
    BY <2>1
  <2> HIDE DEF list
  <2>5. \A w \in 1 .. Len(attempts) : attempts'[w] = IF w = V(h) THEN list ELSE attempts[w]
    BY <2>2, <2>4
  <2>6. QED
    BY <2>3, <2>5 DEF BoxesKept
<1>6. QED
  BY <1>3, <1>4, <1>5
     DEF Claim, ClaimTerminal, ClaimBusy, ClaimConcluded, ClaimSpent, ClaimRefused

LEMMA StepKeepsBoxes ==
    ASSUME Inv, NEW h \in Handler, Step(h), ~Create(h)
    PROVE  BoxesKept
<1>1. CASE UNCHANGED attempts
  BY <1>1, UnchangedKeepsBoxes
<1>2. CASE Request(h)
  <2> DEFINE b == [Mine(h) EXCEPT !.named = TRUE]
  <2>1. handler[h].at = "request" /\ (UNCHANGED attempts \/ SetMine(h, b))
    BY <1>2 DEF Request, Running
  <2>2. b.boxes = Mine(h).boxes
    BY <2>1, MinePosted DEF Idling, Attempt
  <2> HIDE DEF b
  <2>3. QED
    BY <1>1, <2>1, <2>2, MineKeepsBoxes DEF Idling
<1>3. CASE Run(h)
  <2>1. PICK clean \in BOOLEAN : SetMine(h, [Mine(h) EXCEPT !.up = ~clean])
    BY <1>3 DEF Run
  <2> DEFINE b == [Mine(h) EXCEPT !.up = ~clean]
  <2>2. handler[h].at = "run"
    BY <1>3 DEF Run, Running
  <2>3. b.boxes = Mine(h).boxes /\ SetMine(h, b)
    BY <2>1, <2>2, MinePosted DEF Idling, Attempt
  <2> HIDE DEF b
  <2>4. QED
    BY <2>2, <2>3, MineKeepsBoxes DEF Idling
<1>4. CASE Recover(h)
  <2> DEFINE b == [Mine(h) EXCEPT !.up = FALSE]
  <2>1. handler[h].at = "recover" /\ (UNCHANGED attempts \/ SetMine(h, b))
    BY <1>4 DEF Recover, Running
  <2>2. b.boxes = Mine(h).boxes
    BY <2>1, MinePosted DEF Idling, Attempt
  <2> HIDE DEF b
  <2>3. QED
    BY <1>1, <2>1, <2>2, MineKeepsBoxes DEF Idling
<1>5. CASE Persist(h)
  <2> DEFINE b == [Mine(h) EXCEPT !.evidence = handler[h].reports]
  <2>1. handler[h].at = "persist" /\ (UNCHANGED attempts \/ SetMine(h, b))
    BY <1>5 DEF Persist, Running
  <2>2. b.boxes = Mine(h).boxes
    BY <2>1, MinePosted DEF Idling, Attempt
  <2> HIDE DEF b
  <2>3. QED
    BY <1>1, <2>1, <2>2, MineKeepsBoxes DEF Idling
<1>6. CASE Abandon(h)
  <2>1. handler[h].at = "abandon" /\ (UNCHANGED attempts \/ Finished(h, "abandoned", FALSE))
    BY <1>6 DEF Abandon, Running
  <2>2. QED
    BY <1>1, <2>1, FinishedKeepsBoxes DEF Idling
<1>7. CASE Finalize(h)
  <2>1. handler[h].at = "finalize"
        /\ (UNCHANGED attempts \/ \E state : Finished(h, state, TRUE))
    BY <1>7 DEF Finalize, Running, Conclude
  <2>2. QED
    BY <1>1, <2>1, FinishedKeepsBoxes DEF Idling
<1>8. CASE Fail(h)
  <2>1. handler[h].at = "failing"
        /\ (UNCHANGED attempts \/ \E state : Finished(h, state, FALSE))
    BY <1>8 DEF Fail, Running
  <2>2. QED
    BY <1>1, <2>1, FinishedKeepsBoxes DEF Idling
<1>9. QED
  BY <1>1, <1>2, <1>3, <1>4, <1>5, <1>6, <1>7, <1>8, ClaimKeepsBoxes DEF Step, Prepare, Record

LEMMA AroundKeepsBoxes ==
    ASSUME Inv, Around \/ ReservationLapses \/ UNCHANGED vars
    PROVE  BoxesKept
<1>1. CASE UNCHANGED attempts
  BY <1>1, UnchangedKeepsBoxes
<1>2. CASE \E by \in {"owner", "loop"} : Added(by)
  BY <1>2, AddedKeepsBoxes DEF Added
<1>3. CASE Lapse
  <2>1. PICK v \in Verification : \E n \in Active(v) :
           attempts' = [attempts EXCEPT ![v][n].live = FALSE]
    BY <1>3 DEF Lapse
  <2>2. PICK n \in Active(v) : attempts' = [attempts EXCEPT ![v][n].live = FALSE]
    BY <2>1
  <2> DEFINE b == [attempts[v][n] EXCEPT !.live = FALSE]
  <2>3. v \in 1 .. Len(attempts)
    BY Shape DEF Inv
  <2>4. n \in 1 .. Len(attempts[v]) /\ attempts[v][n] \in Attempt
    BY <2>2, <2>3, Shape DEF Inv, Active
  <2>5. b.boxes = attempts[v][n].boxes /\ attempts' = [attempts EXCEPT ![v][n] = b]
    BY <2>2, <2>4 DEF Attempt
  <2> HIDE DEF b
  <2>6. QED
    BY <2>3, <2>4, <2>5, EntryKeepsBoxes
<1>4. QED
  BY <1>1, <1>2, <1>3
     DEF Around, ReservationLapses, vars, OwnerFreezes, StartLoop, LoopFreezes, LoopVerifies,
         EndLoop, Ask, GoPrivate, Expire, Start, Deliver, Stall, Resume, Crash

LEMMA CreateMakesFirst ==
    ASSUME Inv, NEW h \in Handler, Create(h)
    PROVE  BoxesKept \/
              /\ VerdictFree(attempts[V(h)])
              /\ \A v \in 1 .. Len(attempts) : \A n \in 1 .. Len(attempts[v]) :
                    attempts'[v][n].boxes # attempts[v][n].boxes =>
                       v = V(h) /\ attempts[v][n].boxes = 0
<1> DEFINE v == V(h)
           n == handler[h].n
           b == [Mine(h) EXCEPT !.boxes = @ + 1, !.up = TRUE]
<1>1. CASE UNCHANGED attempts
  BY <1>1, UnchangedKeepsBoxes
<1>2. CASE slot = h /\ SetMine(h, b)
  <2>1. handler[h].at = "create" /\ RecordOK(handler[h], h, attempts, slot, baseline)
    BY Ready DEF Create, Running
  <2>2. VerdictFree(attempts[v]) /\ attempts[v][n].boxes = 0
    BY <1>2, <2>1 DEF RecordOK, V
  <2>3. v \in 1 .. Len(attempts) /\ n \in 1 .. Len(attempts[v])
    BY <2>1, MinePosted DEF Idling
  <2> HIDE DEF b
  <2>4. attempts' = [attempts EXCEPT ![v][n] = b]
    BY <1>2 DEF SetMine
  <2>5. /\ DOMAIN attempts = 1 .. Len(attempts)
        /\ \A w \in 1 .. Len(attempts) : DOMAIN attempts[w] = 1 .. Len(attempts[w])
    BY Shape DEF Inv
  <2> DEFINE list == [attempts[v] EXCEPT ![n] = b]
  <2>6. attempts' = [attempts EXCEPT ![v] = list]
    BY <2>4
  <2>7. \A m \in 1 .. Len(attempts[v]) : list[m] = IF m = n THEN b ELSE attempts[v][m]
    BY <2>3, <2>5
  <2> HIDE DEF list
  <2>8. \A w \in 1 .. Len(attempts) : attempts'[w] = IF w = v THEN list ELSE attempts[w]
    BY <2>3, <2>5, <2>6
  <2>9. QED
    BY <2>2, <2>7, <2>8
<1>3. QED
  BY <1>1, <1>2 DEF Create

(* The customer's code is never run in a second Sandbox for one attempt, and *)
(* never again once the verification has evidence with a verdict.           *)
THEOREM CustomerCodeRunsOnce == Spec => CodeRunsOnce
<1>1. ASSUME Inv, [Next]_vars
      PROVE  \A v \in Verification : \A n \in DOMAIN attempts[v] :
                attempts'[v][n].boxes # attempts[v][n].boxes =>
                   /\ attempts[v][n].boxes = 0
                   /\ \A k \in DOMAIN attempts[v] :
                         attempts[v][k].evidence.contract \in {"none", "infrastructure_failed"}
  <2>1. /\ Verification = 1 .. Len(attempts)
        /\ \A v \in Verification : DOMAIN attempts[v] = 1 .. Len(attempts[v])
        /\ \A v \in Verification : \A n \in 1 .. Len(attempts[v]) :
              attempts[v][n].evidence \in Evidence \cup {NoEvidence}
    BY <1>1, Shape DEF Inv, Attempt
  <2>2. CASE BoxesKept
    BY <2>1, <2>2 DEF BoxesKept
  <2>3. ASSUME NEW h \in Handler, Create(h)
        PROVE  \A v \in Verification : \A n \in DOMAIN attempts[v] :
                attempts'[v][n].boxes # attempts[v][n].boxes =>
                   /\ attempts[v][n].boxes = 0
                   /\ \A k \in DOMAIN attempts[v] :
                         attempts[v][k].evidence.contract \in {"none", "infrastructure_failed"}
    <3>1. CASE BoxesKept
      BY <2>2, <3>1
    <3>2. CASE /\ VerdictFree(attempts[V(h)])
               /\ \A v \in 1 .. Len(attempts) : \A n \in 1 .. Len(attempts[v]) :
                     attempts'[v][n].boxes # attempts[v][n].boxes =>
                        v = V(h) /\ attempts[v][n].boxes = 0
      <4>1. ASSUME NEW v \in Verification, VerdictFree(attempts[v]), NEW k \in DOMAIN attempts[v]
            PROVE  attempts[v][k].evidence.contract \in {"none", "infrastructure_failed"}
        BY <2>1, <4>1 DEF VerdictFree, Verdict, Evidence, Contract, NoEvidence
      <4>2. QED
        BY <2>1, <3>2, <4>1
    <3>3. QED
      BY <1>1, <2>3, <3>1, <3>2, CreateMakesFirst
  <2>4. QED
    BY <1>1, <2>2, <2>3, StepKeepsBoxes, AroundKeepsBoxes DEF Next
<1>2. QED
  BY <1>1, Invariance, PTL DEF Spec, CodeRunsOnce

-----------------------------------------------------------------------------
(* Verifications are added by a loop, or while none is active               *)

LEMMA RowKeepsLength ==
    ASSUME Inv, NEW v, NEW row, rows' = [rows EXCEPT ![v] = row]
    PROVE  Len(rows') = Len(rows)
<1>1. rows \in Seq(Row) /\ Len(rows) \in Nat /\ DOMAIN rows = 1 .. Len(rows)
  BY DEF Inv, TypeOK
<1>2. rows \in [1 .. Len(rows) -> Row \cup {row}]
  BY <1>1
<1>3. rows \in Seq(Row \cup {row})
  BY <1>1, <1>2, IsASeq
<1>4. CASE v \in 1 .. Len(rows)
  BY <1>3, <1>4, ExceptSeq
<1>5. CASE v \notin 1 .. Len(rows)
  <2>1. rows' = rows
    BY <1>1, <1>5
  <2>2. QED
    BY <2>1
<1>6. QED
  BY <1>4, <1>5

LEMMA FailedKeepsLength ==
    ASSUME Inv, NEW v \in 1 .. Len(rows), NEW n, Failed(v, n)
    PROVE  Len(rows') = Len(rows)
<1> DEFINE row == [rows[v] EXCEPT !.state = "infrastructure_failed", !.from = n,
                                  !.contract = "infrastructure_failed",
                                  !.comparison = "not_comparable"]
<1>1. rows \in Seq(Row)
  BY DEF Inv, TypeOK
<1>2. rows' = [rows EXCEPT ![v] = row]
  BY <1>1 DEF Failed
<1> HIDE DEF row
<1>3. QED
  BY <1>2, RowKeepsLength

LEMMA ClaimAddsNothing ==
    ASSUME Inv, NEW h \in Handler, Claim(h)
    PROVE  Len(rows') = Len(rows)
<1>1. V(h) \in 1 .. Len(rows) /\ rows \in Seq(Row)
  BY MinePosted, Shape DEF Claim, Running, Inv, TypeOK
<1>2. CASE UNCHANGED rows
  BY <1>2
<1>3. CASE Failed(V(h), 0)
  BY <1>1, <1>3, FailedKeepsLength
<1>4. CASE rows' = [rows EXCEPT ![V(h)].state = "verifying"]
  <2> DEFINE row == [rows[V(h)] EXCEPT !.state = "verifying"]
  <2>1. rows' = [rows EXCEPT ![V(h)] = row]
    BY <1>1, <1>4, SMTT(30)
  <2> HIDE DEF row
  <2>2. QED
    BY <2>1, RowKeepsLength
<1>5. QED
  BY <1>2, <1>3, <1>4 DEF Claim, ClaimTerminal, ClaimBusy, TakeOver, ClaimConcluded, ClaimSpent,
                          ClaimRefused, ClaimAttempt

LEMMA RecordAddsNothing ==
    ASSUME Inv, NEW h \in Handler, Record(h)
    PROVE  Len(rows') = Len(rows)
<1> DEFINE v == V(h)
           n == handler[h].n
           e == IF n = 0 THEN NoEvidence ELSE attempts[v][n].evidence
           row == [rows[v] EXCEPT !.state = "completed", !.from = n,
                                  !.contract = e.contract, !.comparison = e.comparison]
<1>1. v \in 1 .. Len(rows) /\ rows \in Seq(Row)
  BY MinePosted, Shape DEF Record, Running, Inv, TypeOK
<1>2. CASE UNCHANGED rows
  BY <1>2
<1>3. CASE Failed(v, n)
  BY <1>1, <1>3, FailedKeepsLength
<1>4. CASE rows' = [rows EXCEPT ![v].state = "completed", ![v].from = n,
                                ![v].contract = e.contract, ![v].comparison = e.comparison]
  <2>1. rows' = [rows EXCEPT ![v] = row]
    BY <1>1, <1>4
  <2> HIDE DEF row
  <2>2. QED
    BY <2>1, RowKeepsLength, SMTT(30)
<1>5. QED
  BY <1>2, <1>3, <1>4 DEF Record, RecordRow

LEMMA StepAddsNothing ==
    ASSUME Inv, NEW h \in Handler, Step(h)
    PROVE  Len(rows') = Len(rows)
<1>1. CASE UNCHANGED rows
  BY <1>1
<1>2. QED
  BY <1>1, ClaimAddsNothing, RecordAddsNothing
     DEF Step, Request, Create, Run, Recover, Abandon, Prepare, Persist, Finalize, Fail

(* While a loop is active only its own verification is added, the first of   *)
(* the candidate.                                                           *)
THEOREM LoopAddsFirst == Spec => LoopHoldsVerification
<1>1. ASSUME Inv, [Next]_vars, loop = "active", Len(rows') > Len(rows)
      PROVE  bound' = 1 /\ rows = <<>>
  <2>1. Len(rows) \in Nat
    BY <1>1 DEF Inv, TypeOK
  <2>2. rows' # rows
    BY <1>1, <2>1
  <2>3. CASE LoopVerifies
    BY <2>2, <2>3 DEF LoopVerifies
  <2>4. CASE \E reverify \in BOOLEAN : Start(reverify)
    BY <1>1, <2>2, <2>4 DEF Start
  <2>5. CASE \E h \in Handler : Step(h)
    BY <1>1, <2>1, <2>5, StepAddsNothing
  <2>6. QED
    BY <1>1, <2>2, <2>3, <2>4, <2>5
       DEF Next, Around, ReservationLapses, vars, OwnerFreezes, StartLoop, LoopFreezes, EndLoop,
           Ask, GoPrivate, Lapse, Expire, Deliver, Stall, Resume, Crash
<1>2. QED
  BY <1>1, Invariance, PTL DEF Spec, LoopHoldsVerification
=============================================================================
