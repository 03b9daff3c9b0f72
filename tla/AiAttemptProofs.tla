--------------------------- MODULE AiAttemptProofs ---------------------------
(***************************************************************************)
(* What an AI job guarantees for every number of workers, attempts, turns   *)
(* and faults: one attempt at most sends its paid calls, each on record     *)
(* while the job is undecided; its verdict is backed by what that attempt   *)
(* has read, it keeps to its budgets, and it is left undecided with no      *)
(* delivery to come by a fault only.                                        *)
(***************************************************************************)
EXTENDS AiAttempt, SequenceTheorems, FiniteSetTheorems, TLAPS

-----------------------------------------------------------------------------
(* The inductive invariant                                                 *)

Session == {"loop", "owned", "begun", "asserted", "sent", "tool", "tooling"}
Unclaimed == {"idle", "claim"}
Finished == {"frozen", "rejected"}

(* The attempt of the record r is still its own.                            *)
Holds(r, rows) ==
    /\ r.attempt \in 1 .. Len(rows)
    /\ rows[r.attempt].state = "active" /\ rows[r.attempt].live

SentIn(requests) == \E t \in 1 .. Len(requests) : requests[t].sent

(* No other attempt has sent anything.                                      *)
Alone(a, calls) == \A b \in 1 .. Len(calls) : b # a => ~SentIn(calls[b])

(* The call on record will be sent, whatever has become of the attempt.     *)
Pending(r) == r.at = "asserted" /\ ~r.aborted

(* A session, or one about to begin because nothing has been frozen yet.    *)
Buying(r, made) == r.at \in Session \/ (r.at = "begin" /\ made \notin Finished)

(* Who may still send a call, now or later.                                 *)
Entitled(r, rows, made) == Pending(r) \/ (Holds(r, rows) /\ Buying(r, made))

(* What a handler's record r may rely on, given the attempts, their calls,   *)
(* the event log, the artifact and the kind of job.                         *)
RecordOK(r, rows, calls, log, made, k) ==
    /\ r.at \in Unclaimed =>
          r.attempt = 0 /\ r.seen = {} /\ r.cites = {} /\ ~r.abstains /\ ~r.aborted
    /\ r.at \notin Unclaimed => r.attempt \in 1 .. Len(rows)
    /\ r.at \in {"owned", "begun"} /\ ~r.stalled /\ ~r.aborted => Holds(r, rows)
    /\ r.at \in {"begun", "asserted", "sent"} =>
          LET requests == calls[r.attempt]
          IN  /\ Len(requests) > 0
              /\ requests[Len(requests)].sent <=> (r.at = "sent")
              /\ r.at # "sent" => requests[Len(requests)].outcome = "started"
    /\ Entitled(r, rows, made) => Alone(r.attempt, calls)
    /\ \A e \in r.seen : /\ e \in 1 .. Len(log)
                         /\ log[e].status = "completed" /\ log[e].attempt = r.attempt
    /\ r.cites \subseteq r.seen
    /\ r.at = "tooling" => /\ r.op \in 1 .. Len(log)
                           /\ log[r.op].status = "started" /\ log[r.op].attempt = r.attempt
    /\ r.at = "freezing" => made = "freezing"
    /\ r.at = "complete" /\ k = "candidate" /\ ~r.abstains => made = "frozen"

(* Two handlers never have the same attempt, nor both freeze.                *)
Distinct(r, q) ==
    /\ r.attempt = q.attempt => r.attempt = 0
    /\ ~(r.at = "freezing" /\ q.at = "freezing")

HandlersOK ==
    /\ \A h \in Handler : RecordOK(handler[h], attempts, wire, events, artifact, kind)
    /\ \A h, g \in Handler : h # g => Distinct(handler[h], handler[g])
    /\ \A h, g \in Handler : h # g =>
          ~(Entitled(handler[h], attempts, artifact) /\ Entitled(handler[g], attempts, artifact))

Status == {"started", "completed", "failed", "rejected"}
(* The log, whatever the sizes in it.                                       *)
Logged(log) == \E sizes : log \in Seq([attempt : Nat, bytes : sizes, status : Status])

Typed ==
    /\ kind \in Kind
    /\ row \in Row
    /\ artifact \in Artifact
    /\ attempts \in Seq(Attempt) /\ Len(attempts) <= MaxAttempts
    /\ wire \in Seq(Seq(Request)) /\ Len(wire) = Len(attempts)
    /\ Logged(events)
    /\ handler \in [Handler -> Local]

RowsOK ==
    /\ \A a \in 1 .. Len(attempts) : attempts[a].state = "active" =>
          a = Len(attempts) /\ row.state = "working"
    /\ \A a \in 1 .. Len(wire) : \A t \in 1 .. Len(wire[a]) :
          wire[a][t].outcome = "failed" => ~wire[a][t].sent
    /\ row.state = "done" =>
          /\ row.by \in 1 .. Len(attempts) /\ attempts[row.by].state = "succeeded"
          /\ \A e \in row.cites : /\ e \in 1 .. Len(events)
                                  /\ events[e].status = "completed" /\ events[e].attempt = row.by
          /\ kind = "candidate" => artifact = "frozen"

Inv == Typed /\ RowsOK /\ HandlersOK

-----------------------------------------------------------------------------
(* Rows, requests and the log                                              *)

LEMMA Basics ==
    ASSUME Typed
    PROVE  /\ Len(attempts) \in Nat /\ DOMAIN attempts = 1 .. Len(attempts)
           /\ Len(wire) = Len(attempts) /\ DOMAIN wire = 1 .. Len(attempts)
           /\ \A a \in 1 .. Len(attempts) : attempts[a] \in Attempt /\ wire[a] \in Seq(Request)
           /\ Len(events) \in Nat /\ DOMAIN events = 1 .. Len(events)
           /\ \A h \in Handler : handler[h] \in Local
BY DEF Typed, Logged

LEMMA SetElement ==
    ASSUME NEW S, NEW seq \in Seq(S), NEW n \in 1 .. Len(seq), NEW x \in S
    PROVE  LET new == [seq EXCEPT ![n] = x]
           IN  /\ new \in Seq(S) /\ Len(new) = Len(seq) /\ new[n] = x
               /\ \A m \in 1 .. Len(seq) : m # n => new[m] = seq[m]
BY ExceptSeq

LEMMA AddElement ==
    ASSUME NEW S, NEW seq \in Seq(S), NEW x \in S
    PROVE  LET new == Append(seq, x)
           IN  /\ new \in Seq(S) /\ Len(new) = Len(seq) + 1 /\ new[Len(seq) + 1] = x
               /\ \A m \in 1 .. Len(seq) : new[m] = seq[m]
OBVIOUS

LEMMA LogAppend ==
    ASSUME Logged(events), NEW a \in Nat, NEW size, NEW status \in Status,
           events' = Append(events, [attempt |-> a, status |-> status, bytes |-> size])
    PROVE  /\ Logged(events') /\ Len(events) \in Nat /\ Len(events') = Len(events) + 1
           /\ events'[Len(events) + 1].attempt = a /\ events'[Len(events) + 1].status = status
           /\ \A e \in 1 .. Len(events) : events'[e] = events[e]
<1>1. PICK sizes : events \in Seq([attempt : Nat, bytes : sizes, status : Status])
  BY DEF Logged
<1> DEFINE E == [attempt : Nat, bytes : sizes \cup {size}, status : Status]
           new == [attempt |-> a, status |-> status, bytes |-> size]
<1>2. events \in Seq(E)
  <2>1. \A x \in [attempt : Nat, bytes : sizes, status : Status] : x \in E
    OBVIOUS
  <2>2. QED
    BY <1>1, <2>1, SeqMonotonic
<1>3. new \in E /\ new.attempt = a /\ new.status = status
  OBVIOUS
<1> HIDE DEF E, new
<1>4. /\ events' = Append(events, new)
      /\ events' \in Seq(E) /\ Len(events) \in Nat /\ Len(events') = Len(events) + 1
      /\ events'[Len(events) + 1] = new
      /\ \A e \in 1 .. Len(events) : events'[e] = events[e]
  BY <1>2, <1>3 DEF new
<1>5. Logged(events')
  BY <1>4 DEF Logged, E
<1>6. QED
  BY <1>3, <1>4, <1>5

LEMMA LogSet ==
    ASSUME Logged(events), NEW n \in 1 .. Len(events), NEW size, NEW status \in Status,
           events' = [events EXCEPT ![n].status = status, ![n].bytes = size]
    PROVE  /\ Logged(events') /\ Len(events) \in Nat /\ Len(events') = Len(events)
           /\ events'[n].attempt = events[n].attempt /\ events'[n].status = status
           /\ \A e \in 1 .. Len(events) : e # n => events'[e] = events[e]
<1>1. PICK sizes : events \in Seq([attempt : Nat, bytes : sizes, status : Status])
  BY DEF Logged
<1> DEFINE E == [attempt : Nat, bytes : sizes \cup {size}, status : Status]
           new == [events[n] EXCEPT !.status = status, !.bytes = size]
<1>2. events \in Seq(E)
  <2>1. \A x \in [attempt : Nat, bytes : sizes, status : Status] : x \in E
    OBVIOUS
  <2>2. QED
    BY <1>1, <2>1, SeqMonotonic
<1>3. /\ new \in E /\ new.attempt = events[n].attempt /\ new.status = status
      /\ events' = [events EXCEPT ![n] = new]
  <2>1. events[n] \in [attempt : Nat, bytes : sizes, status : Status]
    BY <1>1, ElementOfSeq
  <2>2. new \in E /\ new.attempt = events[n].attempt /\ new.status = status
    BY <2>1
  <2>3. events' = [events EXCEPT ![n] = new]
    BY DEF new
  <2>4. QED
    BY <2>2, <2>3
<1> HIDE DEF E, new
<1>4. /\ events' \in Seq(E) /\ Len(events) \in Nat /\ Len(events') = Len(events)
      /\ events'[n] = new
      /\ \A e \in 1 .. Len(events) : e # n => events'[e] = events[e]
  <2>1. [events EXCEPT ![n] = new] \in Seq(E)
        /\ Len([events EXCEPT ![n] = new]) = Len(events)
        /\ \A j \in 1 .. Len(events) : [events EXCEPT ![n] = new][j] = IF j = n THEN new ELSE events[j]
    BY <1>2, <1>3, ExceptSeq
  <2>2. Len(events) \in Nat
    BY <1>2, LenProperties
  <2>3. [events EXCEPT ![n] = new][n] = new
    BY <2>1
  <2>4. QED
    BY <1>3, <2>1, <2>2, <2>3
<1>5. Logged(events')
  BY <1>4 DEF Logged, E
<1>6. QED
  BY <1>3, <1>4, <1>5

(* The claim's closing of lapsed attempts.                                  *)
LEMMA AbandonedRows ==
    ASSUME Typed
    PROVE  /\ Abandoned \in Seq(Attempt) /\ Len(Abandoned) = Len(attempts)
           /\ \A a \in 1 .. Len(attempts) :
                 /\ Abandoned[a].state # "active"
                 /\ attempts[a].state # "active" => Abandoned[a] = attempts[a]
<1>1. Len(attempts) \in Nat /\ DOMAIN attempts = 1 .. Len(attempts)
      /\ \A a \in 1 .. Len(attempts) : attempts[a] \in Attempt
  BY Basics
<1>2. [state |-> "abandoned", live |-> FALSE, final |-> FALSE] \in Attempt
  BY DEF Attempt
<1>3. Abandoned \in [1 .. Len(attempts) -> Attempt]
  BY <1>1, <1>2 DEF Abandoned
<1>4. Abandoned \in Seq(Attempt) /\ Len(Abandoned) = Len(attempts)
  BY <1>1, <1>3, IsASeq
<1>5. \A a \in 1 .. Len(attempts) :
         /\ Abandoned[a].state # "active"
         /\ attempts[a].state # "active" => Abandoned[a] = attempts[a]
  BY <1>1 DEF Abandoned, Active
<1>6. QED
  BY <1>4, <1>5

(* What a step leaves of the facts that a record r relies on.               *)
Grows ==
    /\ Len(attempts) <= Len(attempts') /\ kind' = kind
    /\ Len(events) <= Len(events')
    /\ \A e \in 1 .. Len(events) :
          /\ events'[e].attempt = events[e].attempt
          /\ events[e].status = "completed" => events'[e].status = "completed"
    /\ artifact \in Finished => artifact' = artifact

Kept(r) ==
    /\ r.at \notin Unclaimed =>
          /\ Holds(r, attempts') => Holds(r, attempts)
          /\ Holds(r, attempts) /\ ~r.stalled /\ ~r.aborted => Holds(r, attempts')
          /\ wire'[r.attempt] = wire[r.attempt]
          /\ Entitled(r, attempts', artifact') /\ Alone(r.attempt, wire) => Alone(r.attempt, wire')
    /\ r.at = "tooling" => events'[r.op] = events[r.op]
    /\ r.at = "freezing" => artifact' = artifact

LEMMA EntitledKept ==
    ASSUME Grows, NEW r, Kept(r), Entitled(r, attempts', artifact')
    PROVE  Entitled(r, attempts, artifact) /\ r.at \notin Unclaimed
<1>1. r.at \notin Unclaimed
  BY DEF Entitled, Pending, Buying, Session, Unclaimed
<1>2. Buying(r, artifact') => Buying(r, artifact)
  BY DEF Buying, Grows
<1>3. QED
  BY <1>1, <1>2 DEF Entitled, Kept

LEMMA RecordKept ==
    ASSUME attempts \in Seq(Attempt), attempts' \in Seq(Attempt),
           Logged(events), Logged(events'), Grows, NEW r \in Local, Kept(r),
           RecordOK(r, attempts, wire, events, artifact, kind)
    PROVE  RecordOK(r, attempts', wire', events', artifact', kind')
<1>1. /\ Len(attempts) \in Nat /\ Len(events) \in Nat
      /\ Len(attempts') \in Nat /\ Len(events') \in Nat
  BY DEF Logged
<1>2. r.at \notin Unclaimed => r.attempt \in 1 .. Len(attempts')
  BY <1>1 DEF RecordOK, Grows
<1>3. r.at \in {"owned", "begun"} /\ ~r.stalled /\ ~r.aborted => Holds(r, attempts')
  BY DEF RecordOK, Kept, Unclaimed
<1>4. r.at \in {"begun", "asserted", "sent"} =>
        LET requests == wire'[r.attempt]
        IN  /\ Len(requests) > 0 /\ (requests[Len(requests)].sent <=> (r.at = "sent"))
            /\ r.at # "sent" => requests[Len(requests)].outcome = "started"
  BY DEF RecordOK, Kept, Unclaimed
<1>5. Entitled(r, attempts', artifact') => Alone(r.attempt, wire')
  BY EntitledKept DEF RecordOK, Kept
<1>6. \A e \in r.seen : /\ e \in 1 .. Len(events')
                        /\ events'[e].status = "completed" /\ events'[e].attempt = r.attempt
  BY <1>1 DEF RecordOK, Grows
<1>7. r.at = "tooling" => /\ r.op \in 1 .. Len(events')
                          /\ events'[r.op].status = "started" /\ events'[r.op].attempt = r.attempt
  BY <1>1 DEF RecordOK, Kept, Grows
<1>8. r.at = "freezing" => artifact' = "freezing"
  BY DEF RecordOK, Kept
<1>9. r.at = "complete" /\ kind' = "candidate" /\ ~r.abstains => artifact' = "frozen"
  BY DEF RecordOK, Grows, Finished
<1>10. QED
  BY <1>2, <1>3, <1>4, <1>5, <1>6, <1>7, <1>8, <1>9 DEF RecordOK

(* A step of one handler, and a step of none.                               *)
LEMMA HandlerMoves ==
    ASSUME Inv, NEW h \in Handler, NEW r \in Local, handler' = [handler EXCEPT ![h] = r],
           Typed', RowsOK', Grows, \A g \in Handler \ {h} : Kept(handler[g]),
           RecordOK(r, attempts', wire', events', artifact', kind'),
           \A g \in Handler \ {h} : Distinct(r, handler[g]),
           Entitled(r, attempts', artifact') =>
              \/ Entitled(handler[h], attempts, artifact)
              \/ \A g \in Handler \ {h} : ~Entitled(handler[g], attempts', artifact')
    PROVE  Inv'
<1>1. Typed /\ HandlersOK
  BY DEF Inv
<1>2. handler'[h] = r /\ \A g \in Handler \ {h} : handler'[g] = handler[g]
  BY <1>1 DEF Typed
<1>3. ASSUME NEW g \in Handler
      PROVE  RecordOK(handler'[g], attempts', wire', events', artifact', kind')
  <2>1. CASE g = h
    BY <1>2, <2>1
  <2>2. CASE g # h
    <3>1. handler[g] \in Local /\ Kept(handler[g])
      BY <1>1, <2>2, Basics
    <3>2. RecordOK(handler[g], attempts, wire, events, artifact, kind)
      BY <1>1 DEF HandlersOK
    <3>3. QED
      BY <1>1, <1>2, <2>2, <3>1, <3>2, RecordKept DEF Typed
  <2>3. QED
    BY <2>1, <2>2
<1>4. ASSUME NEW g \in Handler, NEW f \in Handler, g # f
      PROVE  Distinct(handler'[g], handler'[f])
  <2>1. CASE g = h
    BY <1>2, <1>4, <2>1
  <2>2. CASE f = h
    BY <1>2, <1>4, <2>2 DEF Distinct
  <2>3. CASE g # h /\ f # h
    BY <1>1, <1>2, <1>4, <2>3 DEF HandlersOK
  <2>4. QED
    BY <2>1, <2>2, <2>3
<1>5. ASSUME NEW g \in Handler \ {h}, Entitled(handler[g], attempts', artifact')
      PROVE  /\ Entitled(handler[g], attempts, artifact)
             /\ ~Entitled(r, attempts', artifact')
  BY <1>1, <1>5, EntitledKept DEF HandlersOK
<1>6. ASSUME NEW g \in Handler, NEW f \in Handler, g # f
      PROVE  ~(Entitled(handler'[g], attempts', artifact') /\ Entitled(handler'[f], attempts', artifact'))
  BY <1>1, <1>2, <1>5, <1>6 DEF HandlersOK
<1>7. QED
  BY <1>3, <1>4, <1>6 DEF Inv, HandlersOK

LEMMA NobodyMoves ==
    ASSUME Inv, UNCHANGED handler, Typed', RowsOK', Grows, \A g \in Handler : Kept(handler[g])
    PROVE  Inv'
<1>1. Typed /\ HandlersOK
  BY DEF Inv
<1>2. ASSUME NEW g \in Handler
      PROVE  RecordOK(handler[g], attempts', wire', events', artifact', kind')
  BY <1>1, RecordKept, Basics DEF HandlersOK, Typed
<1>3. \A g \in Handler : Entitled(handler[g], attempts', artifact') =>
                           Entitled(handler[g], attempts, artifact)
  BY EntitledKept
<1>4. HandlersOK'
  BY <1>1, <1>2, <1>3 DEF HandlersOK
<1>5. QED
  BY <1>4 DEF Inv

-----------------------------------------------------------------------------
(* Steps that move one handler and leave the shared state alone             *)

(* A record that goes on within its attempt keeps what it relies on, also    *)
(* when the calls of its own attempt have changed.                          *)
LEMMA OnwardCalls ==
    ASSUME NEW rows, NEW calls, NEW calls2, NEW log, NEW made, NEW k,
           NEW q \in Local, NEW r \in Local,
           RecordOK(q, rows, calls, log, made, k),
           Len(calls2) = Len(calls),
           \A b \in 1 .. Len(calls) : b # q.attempt => calls2[b] = calls[b],
           q.at \notin Unclaimed,
           r.at \notin Unclaimed \cup {"begin", "begun", "asserted", "sent", "tooling", "freezing"},
           r.attempt = q.attempt, r.stalled = q.stalled, r.aborted = q.aborted,
           r.seen = q.seen, r.cites \subseteq r.seen,
           r.at \in Session => q.at \in Session, r.at = "owned" => Holds(q, rows),
           r.at = "complete" /\ k = "candidate" /\ ~r.abstains => made = "frozen"
    PROVE  RecordOK(r, rows, calls2, log, made, k)
<1>1. Holds(r, rows) <=> Holds(q, rows)
  BY DEF Holds
<1>2. Entitled(r, rows, made) => Entitled(q, rows, made)
  BY <1>1 DEF Entitled, Pending, Buying
<1>3. Entitled(r, rows, made) => Alone(r.attempt, calls2)
  BY <1>2 DEF Alone, RecordOK
<1>4. QED
  BY <1>1, <1>3 DEF RecordOK, Unclaimed

LEMMA IdleIsOK ==
    /\ Idle \in Local
    /\ \A rows, calls, log, made, k : RecordOK(Idle, rows, calls, log, made, k)
    /\ \A q : Distinct(Idle, q) \/ q.attempt = 0
    /\ \A rows, made : ~Entitled(Idle, rows, made)
    /\ Idle.attempt = 0
<1>1. Idle \in Local
  BY DEF Idle, Local, Phase
<1>2. ASSUME NEW rows, NEW calls, NEW log, NEW made, NEW k
      PROVE  RecordOK(Idle, rows, calls, log, made, k)
  BY DEF Idle, RecordOK, Unclaimed, Entitled, Pending, Buying, Session
<1>3. ASSUME NEW rows, NEW made
      PROVE  ~Entitled(Idle, rows, made)
  BY DEF Idle, Entitled, Pending, Buying, Session
<1>4. QED
  BY <1>1, <1>2, <1>3 DEF Idle, Distinct

(* The rows keep their shape when only the usage in the job's row changes.  *)
UsageOnly ==
    /\ UNCHANGED <<kind, artifact, attempts, events>>
    /\ row' \in Row
    /\ row'.state = row.state /\ row'.by = row.by /\ row'.cites = row.cites

SameButUsage == UsageOnly /\ UNCHANGED wire

LEMMA LocalStep ==
    ASSUME Inv, SameButUsage, NEW h \in Handler, NEW r \in Local,
           handler' = [handler EXCEPT ![h] = r],
           r.attempt \in {0, handler[h].attempt},
           r.at = "freezing" => handler[h].at = "freezing",
           Entitled(r, attempts, artifact) => Entitled(handler[h], attempts, artifact),
           RecordOK(r, attempts, wire, events, artifact, kind)
    PROVE  Inv'
<1>1. Typed /\ RowsOK /\ HandlersOK
  BY DEF Inv
<1>2. Typed'
  BY <1>1 DEF Typed, UsageOnly, SameButUsage, Logged
<1>3. RowsOK'
  BY <1>1 DEF RowsOK, UsageOnly, SameButUsage
<1>4. Grows
  BY <1>1, Basics DEF Grows, UsageOnly, SameButUsage
<1>5. \A g \in Handler \ {h} : Kept(handler[g])
  BY DEF Kept, UsageOnly, SameButUsage
<1>6. RecordOK(r, attempts', wire', events', artifact', kind')
  BY DEF UsageOnly, SameButUsage
<1>7. \A g \in Handler \ {h} : Distinct(r, handler[g])
  BY <1>1 DEF HandlersOK, Distinct
<1>8. Entitled(r, attempts', artifact') => Entitled(handler[h], attempts, artifact)
  BY DEF UsageOnly, SameButUsage
<1>9. QED
  BY <1>2, <1>3, <1>4, <1>5, <1>6, <1>7, <1>8, HandlerMoves

(* Letting go of an attempt, whatever the queue does.                       *)
LEMMA LetGo ==
    ASSUME Inv, SameButUsage, NEW h \in Handler, handler' = [handler EXCEPT ![h] = Idle]
    PROVE  Inv'
BY IdleIsOK, LocalStep DEF Idle

(* Going on within the attempt.                                             *)
LEMMA GoOn ==
    ASSUME Inv, SameButUsage, NEW h \in Handler, NEW r \in Local,
           handler' = [handler EXCEPT ![h] = r],
           handler[h].at \notin Unclaimed,
           r.at \notin Unclaimed \cup {"begin", "begun", "asserted", "sent", "tooling", "freezing"},
           r.attempt = handler[h].attempt, r.stalled = handler[h].stalled,
           r.aborted = handler[h].aborted, r.seen = handler[h].seen, r.cites \subseteq r.seen,
           r.at \in Session => handler[h].at \in Session,
           r.at = "owned" => Holds(handler[h], attempts),
           r.at = "complete" /\ kind = "candidate" /\ ~r.abstains => artifact = "frozen"
    PROVE  Inv'
<1>1. handler[h] \in Local /\ RecordOK(handler[h], attempts, wire, events, artifact, kind)
  BY Basics DEF Inv, HandlersOK
<1>2. RecordOK(r, attempts, wire, events, artifact, kind)
  BY <1>1, OnwardCalls
<1>3. Entitled(r, attempts, artifact) => Entitled(handler[h], attempts, artifact)
  BY DEF Entitled, Pending, Buying, Holds
<1>4. QED
  BY <1>2, <1>3, LocalStep

(* The exception path.                                                      *)
LEMMA ThrowStep ==
    ASSUME Inv, SameButUsage, NEW h \in Handler, NEW b \in BOOLEAN,
           handler[h].at \notin Unclaimed, Throw(h, b)
    PROVE  Inv'
<1> DEFINE r == [handler[h] EXCEPT !.at = "failing", !.retryable = b]
<1>1. handler[h] \in Local /\ RecordOK(handler[h], attempts, wire, events, artifact, kind)
  BY Basics DEF Inv, HandlersOK
<1>2. r \in Local /\ r.at = "failing" /\ r.attempt = handler[h].attempt
      /\ r.stalled = handler[h].stalled /\ r.aborted = handler[h].aborted
      /\ r.seen = handler[h].seen /\ r.cites = handler[h].cites
  BY <1>1 DEF Local, Phase
<1>3. handler' = [handler EXCEPT ![h] = r]
  BY DEF Throw
<1>4. r.cites \subseteq r.seen
  BY <1>1, <1>2 DEF RecordOK
<1> HIDE DEF r
<1>5. QED
  BY <1>2, <1>3, <1>4, GoOn DEF Unclaimed, Session

-----------------------------------------------------------------------------
(* Steps that change the calls of one attempt                               *)

(* Only the latest attempt is active, so no two handlers hold theirs.       *)
LEMMA OneHolds ==
    ASSUME Inv, NEW h \in Handler, NEW g \in Handler, g # h,
           Holds(handler[h], attempts), Holds(handler[g], attempts)
    PROVE  FALSE
<1>1. handler[h].attempt = Len(attempts) /\ handler[g].attempt = Len(attempts)
  BY DEF Inv, RowsOK, Holds
<1>2. handler[h].attempt = 0
  BY <1>1 DEF Inv, HandlersOK, Distinct
<1>3. QED
  BY <1>2 DEF Holds

LEMMA WireStep ==
    ASSUME Inv, UsageOnly, NEW h \in Handler, NEW r \in Local,
           handler' = [handler EXCEPT ![h] = r],
           handler[h].at \notin Unclaimed,
           r.attempt = handler[h].attempt, r.at # "freezing",
           NEW q \in Seq(Request), wire' = [wire EXCEPT ![handler[h].attempt] = q],
           \A t \in 1 .. Len(q) : q[t].outcome = "failed" => ~q[t].sent,
           SentIn(q) => \/ SentIn(wire[handler[h].attempt])
                        \/ Entitled(handler[h], attempts, artifact),
           Entitled(r, attempts, artifact) => Entitled(handler[h], attempts, artifact),
           RecordOK(r, attempts, wire', events, artifact, kind)
    PROVE  Inv'
<1> DEFINE a == handler[h].attempt
<1>1. Typed /\ RowsOK /\ HandlersOK
  BY DEF Inv
<1>2. a \in 1 .. Len(attempts) /\ a # 0
  BY <1>1, Basics DEF HandlersOK, RecordOK
<1>3. /\ wire' \in Seq(Seq(Request)) /\ Len(wire') = Len(wire) /\ wire'[a] = q
      /\ \A b \in 1 .. Len(attempts) : b # a => wire'[b] = wire[b]
  <2>1. wire \in Seq(Seq(Request)) /\ a \in 1 .. Len(wire) /\ Len(wire) = Len(attempts)
    BY <1>1, <1>2 DEF Typed
  <2>2. QED
    BY <2>1, ExceptSeq
<1>4. Typed'
  BY <1>1, <1>3 DEF Typed, UsageOnly, Logged
<1>5. RowsOK'
  <2>1. \A b \in 1 .. Len(wire') : \A t \in 1 .. Len(wire'[b]) :
           wire'[b][t].outcome = "failed" => ~wire'[b][t].sent
    <3>1. SUFFICES ASSUME NEW b \in 1 .. Len(attempts), NEW t \in 1 .. Len(wire'[b])
                   PROVE  wire'[b][t].outcome = "failed" => ~wire'[b][t].sent
      BY <1>1, <1>3 DEF Typed
    <3>2. CASE b = a
      BY <1>3, <3>2, SMTT(30)
    <3>3. CASE b # a
      BY <1>1, <1>3, <3>3, Basics DEF RowsOK
    <3>4. QED
      BY <3>2, <3>3
  <2>2. QED
    BY <1>1, <2>1 DEF RowsOK, UsageOnly
<1>6. Grows
  BY <1>1, Basics DEF Grows, UsageOnly
<1>7. ASSUME NEW g \in Handler \ {h}
      PROVE  Kept(handler[g])
  <2>1. SUFFICES ASSUME handler[g].at \notin Unclaimed
                 PROVE  /\ wire'[handler[g].attempt] = wire[handler[g].attempt]
                        /\ Entitled(handler[g], attempts, artifact) /\ Alone(handler[g].attempt, wire)
                              => Alone(handler[g].attempt, wire')
    BY DEF Kept, UsageOnly
  <2>2. handler[g].attempt \in 1 .. Len(attempts) /\ handler[g].attempt # a
    BY <1>1, <1>2, <2>1 DEF HandlersOK, RecordOK, Distinct
  <2>3. wire'[handler[g].attempt] = wire[handler[g].attempt]
    BY <1>3, <2>2
  <2>4. ASSUME Entitled(handler[g], attempts, artifact), Alone(handler[g].attempt, wire),
               NEW b \in 1 .. Len(wire'), b # handler[g].attempt
        PROVE  ~SentIn(wire'[b])
    <3>1. b \in 1 .. Len(wire) /\ Len(wire) = Len(attempts) /\ ~SentIn(wire[b])
      BY <1>1, <1>3, <2>4 DEF Typed, Alone
    <3>2. CASE b # a
      BY <1>3, <3>1, <3>2
    <3>3. CASE b = a
      <4>1. ~Entitled(handler[h], attempts, artifact)
        BY <1>1, <2>4 DEF HandlersOK
      <4>2. QED
        BY <1>3, <3>1, <3>3, <4>1
    <3>4. QED
      BY <3>2, <3>3
  <2>5. QED
    BY <2>3, <2>4 DEF Alone
<1>8. RecordOK(r, attempts', wire', events', artifact', kind')
  BY DEF UsageOnly
<1>9. \A g \in Handler \ {h} : Distinct(r, handler[g])
  BY <1>1 DEF HandlersOK, Distinct
<1>10. Entitled(r, attempts', artifact') => Entitled(handler[h], attempts, artifact)
  BY DEF UsageOnly
<1>11. QED
  BY <1>4, <1>5, <1>6, <1>7, <1>8, <1>9, <1>10, HandlerMoves

(* What is recorded of the latest request of a handler's attempt.           *)
LEMMA RecordedCall ==
    ASSUME Inv, NEW h \in Handler, handler[h].at \in {"begun", "asserted", "sent"},
           NEW outcome \in Outcome, NEW sent \in BOOLEAN, outcome = "failed" => ~sent,
           Recorded(h, outcome, sent)
    PROVE  \E q \in Seq(Request) :
              /\ wire' = [wire EXCEPT ![handler[h].attempt] = q]
              /\ Len(q) > 0 /\ q[Len(q)].sent = sent
              /\ Len(q) = Len(wire[handler[h].attempt])
              /\ \A t \in 1 .. Len(q) :
                    t # Len(q) => q[t].sent = wire[handler[h].attempt][t].sent
              /\ \A t \in 1 .. Len(q) : q[t].outcome = "failed" => ~q[t].sent
              /\ sent = (handler[h].at = "sent") =>
                    (SentIn(q) <=> SentIn(wire[handler[h].attempt]))
<1> DEFINE a == handler[h].attempt
           n == Len(wire[a])
           x == [outcome |-> outcome, sent |-> sent]
           q == [wire[a] EXCEPT ![n] = x]
<1>1. Typed /\ RowsOK /\ HandlersOK
  BY DEF Inv
<1>2. a \in 1 .. Len(wire) /\ wire[a] \in Seq(Request)
      /\ n > 0 /\ (wire[a][n].sent <=> (handler[h].at = "sent"))
  BY <1>1, Basics DEF HandlersOK, RecordOK, Unclaimed
<1>3. n \in Nat /\ n \in 1 .. n /\ x \in Request /\ x.outcome = outcome /\ x.sent = sent
  <2>1. n \in Nat
    BY <1>2, LenProperties
  <2>2. x \in Request
    BY DEF Request
  <2>3. QED
    BY <1>2, <2>1, <2>2
<1>4. wire' = [wire EXCEPT ![a] = q]
  <2>1. wire' = [wire EXCEPT ![a][n] = x]
    BY DEF Recorded, Mine
  <2>2. QED
    BY <2>1
<1> HIDE DEF x
<1>5. q \in Seq(Request) /\ Len(q) = n /\ \A t \in 1 .. n : q[t] = IF t = n THEN x ELSE wire[a][t]
  BY <1>2, <1>3, ExceptSeq
<1>6. \A t \in 1 .. n : wire[a][t].outcome = "failed" => ~wire[a][t].sent
  BY <1>1, <1>2 DEF RowsOK
<1> HIDE DEF q
<1>7. \A t \in 1 .. Len(q) : q[t].outcome = "failed" => ~q[t].sent
  BY <1>3, <1>5, <1>6
<1>8. sent = (handler[h].at = "sent") => (SentIn(q) <=> SentIn(wire[a]))
  BY <1>2, <1>3, <1>5 DEF SentIn
<1>9. Len(q) > 0 /\ q[Len(q)].sent = sent
  BY <1>2, <1>3, <1>5
<1>10. Len(q) = n /\ \A t \in 1 .. Len(q) : t # Len(q) => q[t].sent = wire[a][t].sent
  BY <1>3, <1>5
<1>11. QED
  BY <1>4, <1>5, <1>7, <1>8, <1>9, <1>10

(* An outcome is recorded, and the handler goes on.                         *)
LEMMA RecordStep ==
    ASSUME Inv, UsageOnly, NEW h \in Handler, handler[h].at \in {"begun", "asserted", "sent"},
           NEW outcome \in Outcome, NEW sent \in BOOLEAN, outcome = "failed" => ~sent,
           Recorded(h, outcome, sent), sent = (handler[h].at = "sent"),
           NEW r \in Local, handler' = [handler EXCEPT ![h] = r],
           r.at \in {"loop", "tool", "concluded", "failing"},
           r.attempt = handler[h].attempt, r.stalled = handler[h].stalled,
           r.aborted = handler[h].aborted, r.seen = handler[h].seen, r.cites \subseteq r.seen
    PROVE  Inv'
<1>1. PICK q \in Seq(Request) :
         /\ wire' = [wire EXCEPT ![handler[h].attempt] = q]
         /\ \A t \in 1 .. Len(q) : q[t].outcome = "failed" => ~q[t].sent
         /\ SentIn(q) => SentIn(wire[handler[h].attempt])
  BY RecordedCall
<1>2. handler[h] \in Local /\ RecordOK(handler[h], attempts, wire, events, artifact, kind)
  BY Basics DEF Inv, HandlersOK
<1>3. handler[h].at \notin Unclaimed /\ handler[h].at \in Session
  BY DEF Unclaimed, Session
<1>4. handler[h].attempt \in 1 .. Len(wire) /\ wire \in Seq(Seq(Request))
  BY <1>2, <1>3 DEF RecordOK, Inv, Typed
<1>5. Len(wire') = Len(wire)
      /\ \A b \in 1 .. Len(wire) : b # handler[h].attempt => wire'[b] = wire[b]
  BY <1>1, <1>4, ExceptSeq
<1>6. /\ r.at \notin Unclaimed \cup {"begin", "begun", "asserted", "sent", "tooling", "freezing"}
      /\ r.at # "complete" /\ r.at # "owned"
  BY DEF Unclaimed
<1>7. RecordOK(r, attempts, wire', events, artifact, kind)
  BY <1>2, <1>3, <1>5, <1>6, OnwardCalls
<1>8. Entitled(r, attempts, artifact) => Entitled(handler[h], attempts, artifact)
  BY <1>3, <1>6 DEF Entitled, Pending, Buying, Holds
<1>9. QED
  BY <1>1, <1>3, <1>6, <1>7, <1>8, WireStep

(* The last of a call that will not be sent.                                *)
LEMMA RecordThrow ==
    ASSUME Inv, UsageOnly, NEW h \in Handler, handler[h].at \in {"begun", "asserted"},
           NEW outcome \in {"failed", "ambiguous"}, Recorded(h, outcome, FALSE), Throw(h, FALSE)
    PROVE  Inv'
<1> DEFINE r == [handler[h] EXCEPT !.at = "failing", !.retryable = FALSE]
<1>1. handler[h] \in Local /\ handler[h].cites \subseteq handler[h].seen
  BY Basics DEF Inv, HandlersOK, RecordOK
<1>2. r \in Local /\ r.at = "failing" /\ r.attempt = handler[h].attempt
      /\ r.stalled = handler[h].stalled /\ r.aborted = handler[h].aborted
      /\ r.seen = handler[h].seen /\ r.cites \subseteq r.seen
  BY <1>1 DEF Local, Phase
<1>3. handler' = [handler EXCEPT ![h] = r]
  BY DEF Throw
<1> HIDE DEF r
<1>4. outcome \in Outcome /\ FALSE = (handler[h].at = "sent")
      /\ handler[h].at \in {"begun", "asserted", "sent"}
  BY DEF Outcome
<1>5. r.at \in {"loop", "tool", "concluded", "failing"}
  BY <1>2
<1>6. QED
  BY <1>2, <1>3, <1>4, <1>5, RecordStep

-----------------------------------------------------------------------------
(* The session                                                             *)

LEMMA Ready ==
    ASSUME Inv, NEW h \in Handler
    PROVE  /\ Typed /\ RowsOK /\ HandlersOK
           /\ handler[h] \in Local /\ RecordOK(handler[h], attempts, wire, events, artifact, kind)
           /\ handler[h].cites \subseteq handler[h].seen
BY Basics DEF Inv, HandlersOK, RecordOK

LEMMA SameRow ==
    ASSUME Inv, UNCHANGED <<kind, row, artifact, attempts, events>>
    PROVE  UsageOnly /\ (UNCHANGED wire => SameButUsage)
BY DEF UsageOnly, SameButUsage, Inv, Typed

LEMMA BeginStep ==
    ASSUME Inv, NEW h \in Handler, Begin(h)
    PROVE  Inv'
<1>1. handler[h].at = "begin" /\ ~handler[h].stalled /\ handler[h].at \notin Unclaimed
  BY DEF Begin, Running, Unclaimed
<1>2. SameButUsage
  BY SameRow DEF Begin
<1>3. CASE artifact = "frozen" /\ Goto(h, "complete")
  <2> DEFINE r == [handler[h] EXCEPT !.at = "complete"]
  <2>1. r \in Local /\ r.at = "complete" /\ r.attempt = handler[h].attempt
        /\ r.stalled = handler[h].stalled /\ r.aborted = handler[h].aborted
        /\ r.seen = handler[h].seen /\ r.cites \subseteq r.seen
    BY Ready DEF Local, Phase
  <2>2. handler' = [handler EXCEPT ![h] = r]
    BY <1>3 DEF Goto
  <2> HIDE DEF r
  <2>3. QED
    BY <1>1, <1>2, <1>3, <2>1, <2>2, GoOn DEF Unclaimed, Session
<1>4. CASE Throw(h, FALSE)
  BY <1>1, <1>2, <1>4, ThrowStep
<1>5. CASE /\ artifact \notin Finished
           /\ handler' = [handler EXCEPT ![h].at = "loop", ![h].turns = row.turns,
                                         ![h].calls = row.calls]
  <2> DEFINE r == [handler[h] EXCEPT !.at = "loop", !.turns = row.turns, !.calls = row.calls]
  <2>1. row.turns \in Nat /\ row.calls \in Nat
    BY DEF Inv, Typed, Row
  <2>2. r \in Local /\ r.at = "loop" /\ r.attempt = handler[h].attempt
        /\ r.stalled = handler[h].stalled /\ r.aborted = handler[h].aborted
        /\ r.seen = handler[h].seen /\ r.cites = handler[h].cites
    BY <2>1, Ready DEF Local, Phase
  <2>3. handler' = [handler EXCEPT ![h] = r]
    BY <1>5
  <2> HIDE DEF r
  <2>4. Holds(r, attempts) <=> Holds(handler[h], attempts)
    BY <2>2 DEF Holds
  <2>5. Entitled(r, attempts, artifact) => Entitled(handler[h], attempts, artifact)
    BY <1>1, <1>5, <2>2, <2>4 DEF Entitled, Pending, Buying
  <2>6. RecordOK(r, attempts, wire, events, artifact, kind)
    BY <1>1, <1>5, <2>2, <2>4, <2>5, Ready DEF RecordOK, Unclaimed
  <2>7. QED
    BY <1>2, <2>2, <2>3, <2>5, <2>6, LocalStep
<1>6. QED
  BY <1>3, <1>4, <1>5 DEF Begin, Finished

LEMMA AskStep ==
    ASSUME Inv, NEW h \in Handler, Ask(h)
    PROVE  Inv'
<1>1. handler[h].at = "loop" /\ handler[h].at \notin Unclaimed /\ handler[h].turns \in Nat
  BY Ready DEF Ask, Running, Unclaimed, Local
<1>2. CASE UNCHANGED row /\ \E b \in BOOLEAN : Throw(h, b)
  <2>1. SameButUsage
    BY <1>2, SameRow DEF Ask
  <2>2. QED
    BY <1>1, <1>2, <2>1, ThrowStep
<1>3. ASSUME NEW counted \in Nat, OwnsJob(h),
             handler' = [handler EXCEPT ![h].at = "owned", ![h].final = Final(h),
                                        ![h].turns = counted],
             row' = [row EXCEPT !.turns = IF kind = "candidate" THEN counted ELSE @]
      PROVE  Inv'
  <2> DEFINE r == [handler[h] EXCEPT !.at = "owned", !.final = Final(h), !.turns = counted]
  <2>1. SameButUsage
    BY <1>3, Ready DEF Ask, SameButUsage, UsageOnly, Typed, Row
  <2>2. Final(h) \in BOOLEAN
    BY Ready DEF Final, Local
  <2>3. r \in Local /\ r.at = "owned" /\ r.attempt = handler[h].attempt
        /\ r.stalled = handler[h].stalled /\ r.aborted = handler[h].aborted
        /\ r.seen = handler[h].seen /\ r.cites \subseteq r.seen
    BY <2>2, Ready DEF Local, Phase
  <2>4. handler' = [handler EXCEPT ![h] = r]
    BY <1>3
  <2> HIDE DEF r
  <2>5. Holds(handler[h], attempts)
    BY <1>3, Ready, Basics DEF OwnsJob, Owns, Holds
  <2>6. QED
    BY <1>1, <2>1, <2>3, <2>4, <2>5, GoOn DEF Unclaimed, Session
<1>4. QED
  <2>1. \A t \in Nat : t + 1 \in Nat
    OBVIOUS
  <2>2. QED
    BY <1>1, <1>2, <1>3, <2>1 DEF Ask

LEMMA ReserveStep ==
    ASSUME Inv, NEW h \in Handler, Reserve(h)
    PROVE  Inv'
<1>1. handler[h].at = "owned" /\ ~handler[h].stalled /\ handler[h].at \notin Unclaimed
  BY DEF Reserve, Running, Unclaimed
<1>2. UsageOnly /\ (UNCHANGED wire => SameButUsage)
  BY SameRow DEF Reserve
<1>3. CASE Throw(h, FALSE) /\ UNCHANGED wire
  BY <1>1, <1>2, <1>3, ThrowStep
<1>4. CASE /\ wire' = [wire EXCEPT ![handler[h].attempt] =
                         Append(@, [outcome |-> "started", sent |-> FALSE])]
           /\ Goto(h, "begun")
  <2> DEFINE a == handler[h].attempt
             x == [outcome |-> "started", sent |-> FALSE]
             q == Append(wire[a], x)
             r == [handler[h] EXCEPT !.at = "begun"]
  <2>1. a \in 1 .. Len(wire) /\ wire \in Seq(Seq(Request)) /\ wire[a] \in Seq(Request)
        /\ Len(wire[a]) \in Nat
    BY <1>1, Ready, Basics DEF Typed, RecordOK
  <2>2. x \in Request /\ x.outcome = "started" /\ x.sent = FALSE
    BY DEF Request, Outcome
  <2>3. r \in Local /\ r.at = "begun" /\ r.attempt = a
        /\ r.stalled = handler[h].stalled /\ r.aborted = handler[h].aborted
        /\ r.seen = handler[h].seen /\ r.cites = handler[h].cites
    BY Ready DEF Local, Phase
  <2>4. handler' = [handler EXCEPT ![h] = r] /\ wire' = [wire EXCEPT ![a] = q]
    BY <1>4 DEF Goto
  <2> HIDE DEF x, r
  <2>5. /\ q \in Seq(Request) /\ Len(q) = Len(wire[a]) + 1 /\ q[Len(wire[a]) + 1] = x
        /\ \A t \in 1 .. Len(wire[a]) : q[t] = wire[a][t]
    BY <2>1, <2>2
  <2> HIDE DEF q
  <2>6. \A t \in 1 .. Len(q) : q[t] = x \/ (t \in 1 .. Len(wire[a]) /\ q[t] = wire[a][t])
    BY <2>1, <2>5, SMTT(30)
  <2>7. \A t \in 1 .. Len(wire[a]) : wire[a][t].outcome = "failed" => ~wire[a][t].sent
    BY <2>1, Ready DEF RowsOK
  <2>8. \A t \in 1 .. Len(q) : q[t].outcome = "failed" => ~q[t].sent
    BY <2>2, <2>6, <2>7
  <2>9. SentIn(q) => SentIn(wire[a])
    BY <2>2, <2>6 DEF SentIn
  <2>10. Len(wire') = Len(wire) /\ wire'[a] = q
        /\ \A b \in 1 .. Len(wire) : b # a => wire'[b] = wire[b]
    BY <2>1, <2>4, <2>5, ExceptSeq
  <2>11. Entitled(r, attempts, artifact) => Entitled(handler[h], attempts, artifact)
    BY <1>1, <2>3 DEF Entitled, Pending, Buying, Session, Holds
  <2>12. RecordOK(r, attempts, wire', events, artifact, kind)
    <3>1. Holds(r, attempts) <=> Holds(handler[h], attempts)
      BY <2>3 DEF Holds
    <3>2. Entitled(r, attempts, artifact) => Alone(a, wire')
      BY <2>10, <2>11, Ready DEF RecordOK, Alone
    <3>3. Len(q) > 0 /\ q[Len(q)].sent = FALSE /\ q[Len(q)].outcome = "started"
      BY <2>1, <2>2, <2>5
    <3>4. QED
      BY <1>1, <2>3, <2>10, <3>1, <3>2, <3>3, Ready DEF RecordOK, Unclaimed
  <2>13. r.at # "freezing"
    BY <2>3
  <2>14. QED
    BY <1>1, <1>2, <2>3, <2>4, <2>5, <2>8, <2>9, <2>12, <2>13, <2>11, WireStep
<1>5. QED
  BY <1>3, <1>4 DEF Reserve

LEMMA AssertOwnershipStep ==
    ASSUME Inv, NEW h \in Handler, AssertOwnership(h)
    PROVE  Inv'
<1>1. handler[h].at = "begun" /\ ~handler[h].stalled /\ handler[h].at \notin Unclaimed
  BY DEF AssertOwnership, Running, Unclaimed
<1>2. UsageOnly /\ (UNCHANGED wire => SameButUsage)
  BY SameRow DEF AssertOwnership
<1>3. CASE Goto(h, "asserted") /\ UNCHANGED wire
  <2> DEFINE r == [handler[h] EXCEPT !.at = "asserted"]
  <2>1. r \in Local /\ r.at = "asserted" /\ r.attempt = handler[h].attempt
        /\ r.stalled = handler[h].stalled /\ r.aborted = handler[h].aborted
        /\ r.seen = handler[h].seen /\ r.cites = handler[h].cites
    BY Ready DEF Local, Phase
  <2>2. handler' = [handler EXCEPT ![h] = r]
    BY <1>3 DEF Goto
  <2> HIDE DEF r
  <2>3. ~r.aborted => Holds(handler[h], attempts)
    BY <1>1, <2>1, Ready DEF RecordOK
  <2>4. Entitled(r, attempts, artifact) => Entitled(handler[h], attempts, artifact)
    BY <1>1, <2>1, <2>3 DEF Entitled, Pending, Buying, Session, Holds
  <2>5. RecordOK(r, attempts, wire, events, artifact, kind)
    BY <1>1, <2>1, <2>4, Ready DEF RecordOK, Unclaimed
  <2>6. QED
    BY <1>2, <1>3, <2>1, <2>2, <2>4, <2>5, LocalStep
<1>4. CASE Throw(h, FALSE) /\ UNCHANGED wire
  BY <1>1, <1>2, <1>4, ThrowStep
<1>5. CASE Throw(h, FALSE) /\ Recorded(h, "failed", FALSE)
  BY <1>1, <1>2, <1>5, RecordThrow
<1>6. QED
  BY <1>3, <1>4, <1>5 DEF AssertOwnership

LEMMA SendStep ==
    ASSUME Inv, NEW h \in Handler, Send(h)
    PROVE  Inv'
<1> DEFINE a == handler[h].attempt
<1>1. handler[h].at = "asserted" /\ ~handler[h].stalled /\ handler[h].at \notin Unclaimed
  BY DEF Send, Running, Unclaimed
<1>2. UsageOnly /\ (UNCHANGED wire => SameButUsage)
  BY SameRow DEF Send
<1>3. CASE ~handler[h].aborted /\ Recorded(h, "started", TRUE) /\ Goto(h, "sent")
  <2> DEFINE r == [handler[h] EXCEPT !.at = "sent"]
  <2>1. r \in Local /\ r.at = "sent" /\ r.attempt = a
        /\ r.stalled = handler[h].stalled /\ r.aborted = handler[h].aborted
        /\ r.seen = handler[h].seen /\ r.cites = handler[h].cites
    BY Ready DEF Local, Phase
  <2>2. handler' = [handler EXCEPT ![h] = r]
    BY <1>3 DEF Goto
  <2> HIDE DEF r
  <2>3. Entitled(handler[h], attempts, artifact)
    BY <1>1, <1>3 DEF Entitled, Pending
  <2>4. "started" \in Outcome
    BY DEF Outcome
  <2>5. PICK q \in Seq(Request) :
           /\ wire' = [wire EXCEPT ![a] = q]
           /\ Len(q) > 0 /\ q[Len(q)].sent = TRUE
           /\ \A t \in 1 .. Len(q) : q[t].outcome = "failed" => ~q[t].sent
    BY <1>1, <1>3, <2>4, RecordedCall
  <2>6. a \in 1 .. Len(wire) /\ wire \in Seq(Seq(Request))
    BY <1>1, Ready DEF Typed, RecordOK
  <2>7. Len(wire') = Len(wire) /\ wire'[a] = q
        /\ \A b \in 1 .. Len(wire) : b # a => wire'[b] = wire[b]
    BY <2>5, <2>6, ExceptSeq
  <2>8. RecordOK(r, attempts, wire', events, artifact, kind)
    <3>1. Alone(a, wire')
      BY <2>3, <2>7, Ready DEF RecordOK, Alone
    <3>2. QED
      BY <1>1, <2>1, <2>5, <2>7, <3>1, Ready DEF RecordOK, Unclaimed
  <2>9. r.at # "freezing"
    BY <2>1
  <2>10. QED
    BY <1>1, <1>2, <2>1, <2>2, <2>3, <2>5, <2>8, <2>9, WireStep
<1>4. CASE Throw(h, FALSE) /\ UNCHANGED wire
  BY <1>1, <1>2, <1>4, ThrowStep
<1>5. CASE Throw(h, FALSE) /\ Recorded(h, "ambiguous", FALSE)
  BY <1>1, <1>2, <1>5, RecordThrow
<1>6. QED
  BY <1>3, <1>4, <1>5 DEF Send

(* An answer that is recorded, and the handler goes on.                     *)
LEMMA AnswerRecorded ==
    ASSUME Inv, UsageOnly, NEW h \in Handler, handler[h].at = "sent",
           NEW outcome \in {"succeeded", "ambiguous"}, Recorded(h, outcome, TRUE),
           NEW r \in Local, handler' = [handler EXCEPT ![h] = r],
           r.at \in {"loop", "tool", "concluded", "failing"},
           r.attempt = handler[h].attempt, r.stalled = handler[h].stalled,
           r.aborted = handler[h].aborted, r.seen = handler[h].seen, r.cites \subseteq r.seen
    PROVE  Inv'
<1>1. outcome \in Outcome /\ outcome # "failed" /\ TRUE = (handler[h].at = "sent")
  BY DEF Outcome
<1>2. QED
  BY <1>1, RecordStep

LEMMA AnswerThrown ==
    ASSUME Inv, UsageOnly, NEW h \in Handler, handler[h].at = "sent",
           NEW outcome \in {"succeeded", "ambiguous"}, Recorded(h, outcome, TRUE), Throw(h, FALSE)
    PROVE  Inv'
<1> DEFINE r == [handler[h] EXCEPT !.at = "failing", !.retryable = FALSE]
<1>1. r \in Local /\ r.at = "failing" /\ r.attempt = handler[h].attempt
      /\ r.stalled = handler[h].stalled /\ r.aborted = handler[h].aborted
      /\ r.seen = handler[h].seen /\ r.cites \subseteq r.seen
  BY Ready DEF Local, Phase
<1>2. handler' = [handler EXCEPT ![h] = r]
  BY DEF Throw
<1> HIDE DEF r
<1>3. r.at \in {"loop", "tool", "concluded", "failing"}
  BY <1>1
<1>4. QED
  BY <1>1, <1>2, <1>3, AnswerRecorded

LEMMA AnswerStep ==
    ASSUME Inv, NEW h \in Handler, Answer(h)
    PROVE  Inv'
<1>1. handler[h].at = "sent" /\ handler[h].at \notin Unclaimed
      /\ UNCHANGED <<kind, artifact, attempts, events>>
  BY DEF Answer, Running, Unclaimed
<1>2. UNCHANGED row => UsageOnly /\ (UNCHANGED wire => SameButUsage)
  BY <1>1, SameRow
<1>3. Answered(h) \in Nat
  <2>1. handler[h].turns \in Nat
    BY Ready DEF Local
  <2>2. QED
    BY <2>1 DEF Answered
<1>4. CASE AnswerLost(h)
  BY <1>1, <1>2, <1>4, AnswerThrown, ThrowStep DEF AnswerLost
<1>6. CASE AnswerRejected(h)
  BY <1>1, <1>2, <1>6, AnswerThrown DEF AnswerRejected
<1>7. CASE AnswerConcludes(h)
  <2>1. PICK cites \in SUBSET (0..Len(events)), abstains \in BOOLEAN :
           /\ cites \subseteq handler[h].seen
           /\ Recorded(h, "succeeded", TRUE)
           /\ handler' = [handler EXCEPT ![h].at = "concluded", ![h].cites = cites,
                                         ![h].abstains = abstains, ![h].turns = Answered(h)]
           /\ UNCHANGED row
    BY <1>7 DEF AnswerConcludes, Grounded
  <2> DEFINE r == [handler[h] EXCEPT !.at = "concluded", !.cites = cites,
                                     !.abstains = abstains, !.turns = Answered(h)]
  <2>2. handler[h] \in Local /\ cites \in SUBSET Nat
    BY <2>1, Ready DEF Local
  <2>3. r \in Local /\ r.at = "concluded" /\ r.attempt = handler[h].attempt
        /\ r.stalled = handler[h].stalled /\ r.aborted = handler[h].aborted
        /\ r.seen = handler[h].seen /\ r.cites = cites
    BY <1>3, <2>2 DEF Local, Phase
  <2>4. handler' = [handler EXCEPT ![h] = r]
    BY <2>1
  <2> HIDE DEF r
  <2>5. r.at \in {"loop", "tool", "concluded", "failing"} /\ r.cites \subseteq r.seen
    BY <2>1, <2>3
  <2>6. QED
    BY <1>1, <1>2, <2>1, <2>3, <2>4, <2>5, AnswerRecorded
<1>8. CASE AnswerCallsTool(h)
  <2>1. CASE Throw(h, FALSE) /\ UNCHANGED row
    BY <1>1, <1>2, <1>8, <2>1, AnswerThrown DEF AnswerCallsTool
  <2>2. CASE /\ UsageOnly
             /\ handler' = [handler EXCEPT ![h].at = "tool", ![h].turns = Answered(h),
                                           ![h].calls = @ + 1]
    <3> DEFINE r == [handler[h] EXCEPT !.at = "tool", !.turns = Answered(h), !.calls = @ + 1]
    <3>1. handler[h] \in Local /\ handler[h].calls + 1 \in Nat
      BY Ready DEF Local
    <3>2. r \in Local /\ r.at = "tool" /\ r.attempt = handler[h].attempt
          /\ r.stalled = handler[h].stalled /\ r.aborted = handler[h].aborted
          /\ r.seen = handler[h].seen /\ r.cites \subseteq r.seen
      BY <1>3, <3>1, Ready DEF Local, Phase
    <3>3. handler' = [handler EXCEPT ![h] = r]
      BY <2>2
    <3> HIDE DEF r
    <3>4. r.at \in {"loop", "tool", "concluded", "failing"}
      BY <3>2
    <3>5. QED
      BY <1>1, <1>8, <2>2, <3>2, <3>3, <3>4, AnswerRecorded DEF AnswerCallsTool
  <2>3. CASE /\ UNCHANGED row
             /\ handler' = [handler EXCEPT ![h].at = "loop", ![h].turns = Answered(h),
                                           ![h].final = TRUE]
    <3> DEFINE r == [handler[h] EXCEPT !.at = "loop", !.turns = Answered(h), !.final = TRUE]
    <3>1. r \in Local /\ r.at = "loop" /\ r.attempt = handler[h].attempt
          /\ r.stalled = handler[h].stalled /\ r.aborted = handler[h].aborted
          /\ r.seen = handler[h].seen /\ r.cites \subseteq r.seen
      BY <1>3, Ready DEF Local, Phase
    <3>2. handler' = [handler EXCEPT ![h] = r]
      BY <2>3
    <3> HIDE DEF r
    <3>3. r.at \in {"loop", "tool", "concluded", "failing"}
      BY <3>1
    <3>4. QED
      BY <1>1, <1>2, <1>8, <2>3, <3>1, <3>2, <3>3, AnswerRecorded DEF AnswerCallsTool
  <2>4. row' = [row EXCEPT !.calls = @ + 1] => UsageOnly
    <3>1. row \in Row /\ row.calls + 1 \in Nat
      BY Ready DEF Typed, Row
    <3>2. QED
      BY <1>1, <3>1 DEF UsageOnly, Row
  <2>5. QED
    BY <1>2, <1>8, <2>1, <2>2, <2>3, <2>4 DEF AnswerCallsTool
<1>9. QED
  BY <1>4, <1>6, <1>7, <1>8 DEF Answer

-----------------------------------------------------------------------------
(* The context operations                                                  *)

(* A step that appends to the log, or settles a handler's own operation.     *)
LogMoves(h) ==
    /\ UNCHANGED <<kind, row, artifact, attempts, wire>>
    /\ Logged(events') /\ Len(events) <= Len(events')
    /\ \A e \in 1 .. Len(events) :
          \/ events'[e] = events[e]
          \/ /\ handler[h].at = "tooling" /\ e = handler[h].op
             /\ events'[e].attempt = events[e].attempt

LEMMA LogGrows ==
    ASSUME Inv, NEW h \in Handler, handler[h].at \in {"tool", "tooling"}, LogMoves(h)
    PROVE  /\ Typed /\ HandlersOK /\ Grows
           /\ \A e \in 1 .. Len(events) : events[e].status = "completed" => events'[e] = events[e]
           /\ \A g \in Handler \ {h} : Kept(handler[g])
<1>1. Typed /\ RowsOK /\ HandlersOK
  BY DEF Inv
<1>2. handler[h].at = "tooling" => /\ handler[h].op \in 1 .. Len(events)
                                   /\ events[handler[h].op].status = "started"
                                   /\ events[handler[h].op].attempt = handler[h].attempt
  BY <1>1 DEF HandlersOK, RecordOK
<1>3. \A e \in 1 .. Len(events) : events[e].status = "completed" => events'[e] = events[e]
  BY <1>2 DEF LogMoves
<1>4. Grows
  BY <1>1, <1>3, Basics DEF Grows, LogMoves
<1>5. ASSUME NEW g \in Handler \ {h}
      PROVE  Kept(handler[g])
  <2>1. handler[g].at = "tooling" => /\ handler[g].op \in 1 .. Len(events)
                                     /\ events[handler[g].op].attempt = handler[g].attempt
                                     /\ handler[g].attempt \in 1 .. Len(attempts)
    BY <1>1 DEF HandlersOK, RecordOK, Unclaimed
  <2>2. handler[g].attempt = handler[h].attempt => handler[g].attempt = 0
    BY <1>1 DEF HandlersOK, Distinct
  <2>3. handler[g].at = "tooling" => handler[g].attempt # handler[h].attempt
    BY <1>1, <2>1, <2>2, Basics
  <2>4. handler[g].at = "tooling" => events'[handler[g].op] = events[handler[g].op]
    BY <1>2, <2>1, <2>3 DEF LogMoves
  <2>5. QED
    BY <2>4 DEF Kept, LogMoves
<1>6. QED
  BY <1>1, <1>3, <1>4, <1>5

LEMMA LogStep ==
    ASSUME Inv, NEW h \in Handler, handler[h].at \in {"tool", "tooling"}, LogMoves(h),
           NEW r \in Local, handler' = [handler EXCEPT ![h] = r],
           r.attempt = handler[h].attempt, r.at \in {"loop", "tooling", "failing"},
           RecordOK(r, attempts, wire, events', artifact, kind)
    PROVE  Inv'
<1>1. /\ Typed /\ HandlersOK /\ Grows
      /\ \A e \in 1 .. Len(events) : events[e].status = "completed" => events'[e] = events[e]
      /\ \A g \in Handler \ {h} : Kept(handler[g])
  BY LogGrows
<1>2. Typed'
  BY <1>1 DEF Typed, LogMoves
<1>3. RowsOK'
  <2>1. row.state = "done" => \A e \in row.cites : /\ e \in 1 .. Len(events')
                                                   /\ events'[e] = events[e]
    <3>1. Len(events) \in Nat /\ Len(events') \in Nat /\ Len(events) <= Len(events')
      BY <1>1, Basics DEF LogMoves, Logged
    <3>2. row.state = "done" => \A e \in row.cites : /\ e \in 1 .. Len(events)
                                                     /\ events[e].status = "completed"
      BY DEF Inv, RowsOK
    <3>3. QED
      BY <1>1, <3>1, <3>2
  <2>2. RowsOK
    BY DEF Inv
  <2>3. QED
    BY <2>1, <2>2 DEF RowsOK, LogMoves
<1>4. RecordOK(r, attempts', wire', events', artifact', kind')
  BY DEF LogMoves
<1>5. \A g \in Handler \ {h} : Distinct(r, handler[g])
  BY <1>1 DEF HandlersOK, Distinct
<1>6. Entitled(r, attempts', artifact') => Entitled(handler[h], attempts, artifact)
  BY DEF Entitled, Pending, Buying, Session, Holds, LogMoves
<1>7. QED
  BY <1>1, <1>2, <1>3, <1>4, <1>5, <1>6, HandlerMoves

(* What the handler relies on after the log has moved, its operation aside.  *)
LEMMA LogOnward ==
    ASSUME Inv, NEW h \in Handler, handler[h].at \in {"tool", "tooling"}, LogMoves(h)
    PROVE  /\ [handler[h] EXCEPT !.at = "loop"] \in Local
           /\ RecordOK([handler[h] EXCEPT !.at = "loop"], attempts, wire, events', artifact, kind)
<1> DEFINE q == [handler[h] EXCEPT !.at = "loop"]
<1>1. q \in Local /\ q.at = "loop" /\ q.attempt = handler[h].attempt
      /\ q.stalled = handler[h].stalled /\ q.aborted = handler[h].aborted
      /\ q.seen = handler[h].seen /\ q.cites \subseteq q.seen
  BY Ready DEF Local, Phase
<1> HIDE DEF q
<1>2. RecordOK(q, attempts, wire, events, artifact, kind)
  BY <1>1, Ready, OnwardCalls DEF Unclaimed, Session
<1>3. /\ attempts \in Seq(Attempt) /\ attempts' \in Seq(Attempt)
      /\ Logged(events) /\ Logged(events') /\ Grows
  BY LogGrows DEF Typed, LogMoves
<1>4. Kept(q)
  BY <1>1 DEF Kept, LogMoves
<1>5. RecordOK(q, attempts', wire', events', artifact', kind')
  BY <1>1, <1>2, <1>3, <1>4, RecordKept
<1>6. RecordOK(q, attempts, wire, events', artifact, kind)
  BY <1>5 DEF LogMoves
<1>7. QED
  BY <1>1, <1>6 DEF q

(* The log moves and the handler goes on.                                   *)
LEMMA LogGoOn ==
    ASSUME Inv, NEW h \in Handler, handler[h].at \in {"tool", "tooling"}, LogMoves(h),
           NEW r \in Local, handler' = [handler EXCEPT ![h] = r], r.at \in {"loop", "failing"},
           r.attempt = handler[h].attempt, r.stalled = handler[h].stalled,
           r.aborted = handler[h].aborted, r.seen = handler[h].seen, r.cites \subseteq r.seen
    PROVE  Inv'
<1> DEFINE q == [handler[h] EXCEPT !.at = "loop"]
<1>1. q \in Local /\ RecordOK(q, attempts, wire, events', artifact, kind)
  BY LogOnward
<1>2. q.at = "loop" /\ q.attempt = handler[h].attempt
      /\ q.stalled = handler[h].stalled /\ q.aborted = handler[h].aborted
      /\ q.seen = handler[h].seen
  BY Ready DEF Local
<1> HIDE DEF q
<1>3. RecordOK(r, attempts, wire, events', artifact, kind)
  BY <1>1, <1>2, OnwardCalls DEF Unclaimed, Session
<1>4. QED
  BY <1>3, LogStep

LEMMA LogGoTo ==
    ASSUME Inv, NEW h \in Handler, handler[h].at \in {"tool", "tooling"}, LogMoves(h),
           Goto(h, "loop") \/ (\E b \in BOOLEAN : Throw(h, b))
    PROVE  Inv'
<1>1. CASE Goto(h, "loop")
  <2> DEFINE r == [handler[h] EXCEPT !.at = "loop"]
  <2>1. r \in Local /\ r.at \in {"loop", "failing"} /\ r.attempt = handler[h].attempt
        /\ r.stalled = handler[h].stalled /\ r.aborted = handler[h].aborted
        /\ r.seen = handler[h].seen /\ r.cites \subseteq r.seen
    BY Ready DEF Local, Phase
  <2>2. handler' = [handler EXCEPT ![h] = r]
    BY <1>1 DEF Goto
  <2> HIDE DEF r
  <2>3. QED
    BY <2>1, <2>2, LogGoOn
<1>2. ASSUME NEW b \in BOOLEAN, Throw(h, b)
      PROVE  Inv'
  <2> DEFINE r == [handler[h] EXCEPT !.at = "failing", !.retryable = b]
  <2>1. r \in Local /\ r.at \in {"loop", "failing"} /\ r.attempt = handler[h].attempt
        /\ r.stalled = handler[h].stalled /\ r.aborted = handler[h].aborted
        /\ r.seen = handler[h].seen /\ r.cites \subseteq r.seen
    BY Ready DEF Local, Phase
  <2>2. handler' = [handler EXCEPT ![h] = r]
    BY <1>2 DEF Throw
  <2> HIDE DEF r
  <2>3. QED
    BY <2>1, <2>2, LogGoOn
<1>3. QED
  BY <1>1, <1>2

LEMMA ReserveOperationStep ==
    ASSUME Inv, NEW h \in Handler, ReserveOperation(h)
    PROVE  Inv'
<1>1. handler[h].at = "tool" /\ ~handler[h].stalled /\ handler[h].at \notin Unclaimed
      /\ UNCHANGED <<kind, row, artifact, attempts, wire>>
  BY DEF ReserveOperation, Running, Unclaimed
<1>2. UNCHANGED events => SameButUsage
  BY <1>1, SameRow
<1>3. CASE Throw(h, FALSE) /\ UNCHANGED events
  BY <1>1, <1>2, <1>3, ThrowStep
<1>4. handler[h].attempt \in Nat /\ Logged(events)
  BY Ready DEF Local, Typed
<1>5. ASSUME NEW size, NEW status \in Status,
             events' = Append(events, [attempt |-> handler[h].attempt, status |-> status,
                                       bytes |-> size])
      PROVE  /\ LogMoves(h) /\ Len(events) \in Nat /\ Len(events') = Len(events) + 1
             /\ events'[Len(events) + 1].attempt = handler[h].attempt
             /\ events'[Len(events) + 1].status = status
  <2>1. /\ Logged(events') /\ Len(events) \in Nat /\ Len(events') = Len(events) + 1
        /\ events'[Len(events) + 1].attempt = handler[h].attempt
        /\ events'[Len(events) + 1].status = status
        /\ \A e \in 1 .. Len(events) : events'[e] = events[e]
    BY <1>4, <1>5, LogAppend
  <2>2. QED
    BY <1>1, <2>1 DEF LogMoves
<1>6. ASSUME NEW size,
             events' = Append(events, [attempt |-> handler[h].attempt, status |-> "started",
                                       bytes |-> size]),
             handler' = [handler EXCEPT ![h].at = "tooling", ![h].op = Len(events) + 1]
      PROVE  Inv'
  <2> DEFINE q == [handler[h] EXCEPT !.at = "loop"]
             r == [handler[h] EXCEPT !.at = "tooling", !.op = Len(events) + 1]
  <2>1. /\ LogMoves(h) /\ Len(events) \in Nat /\ Len(events') = Len(events) + 1
        /\ events'[Len(events) + 1].attempt = handler[h].attempt
        /\ events'[Len(events) + 1].status = "started"
    BY <1>5, <1>6 DEF Status
  <2>2. q \in Local /\ RecordOK(q, attempts, wire, events', artifact, kind)
    BY <1>1, <2>1, LogOnward
  <2>3. q.at = "loop" /\ q.attempt = handler[h].attempt
        /\ q.stalled = handler[h].stalled /\ q.aborted = handler[h].aborted
        /\ q.seen = handler[h].seen /\ q.cites = handler[h].cites
    BY Ready DEF Local
  <2>4. r \in Local /\ r.at = "tooling" /\ r.attempt = handler[h].attempt
        /\ r.stalled = handler[h].stalled /\ r.aborted = handler[h].aborted
        /\ r.seen = handler[h].seen /\ r.cites = handler[h].cites /\ r.op = Len(events) + 1
    <3>1. handler[h] \in Local /\ Len(events) + 1 \in Nat
      BY <2>1, Ready
    <3>2. QED
      BY <3>1 DEF Local, Phase
  <2>5. handler' = [handler EXCEPT ![h] = r]
    BY <1>6
  <2> HIDE DEF q, r
  <2>6. Holds(r, attempts) <=> Holds(q, attempts)
    BY <2>3, <2>4 DEF Holds
  <2>7. r.op \in 1 .. Len(events') /\ events'[r.op].status = "started"
        /\ events'[r.op].attempt = r.attempt
    BY <2>1, <2>4
  <2>8. RecordOK(r, attempts, wire, events', artifact, kind)
    BY <2>2, <2>3, <2>4, <2>6, <2>7 DEF RecordOK, Unclaimed, Entitled, Pending, Buying, Session
  <2>9. r.at \in {"loop", "tooling", "failing"}
    BY <2>4
  <2>10. QED
    BY <1>1, <2>1, <2>4, <2>5, <2>8, <2>9, LogStep
<1>7. CASE UNCHANGED events /\ handler' = [handler EXCEPT ![h].at = "loop", ![h].final = TRUE]
  <2> DEFINE r == [handler[h] EXCEPT !.at = "loop", !.final = TRUE]
  <2>1. r \in Local /\ r.at = "loop" /\ r.attempt = handler[h].attempt
        /\ r.stalled = handler[h].stalled /\ r.aborted = handler[h].aborted
        /\ r.seen = handler[h].seen /\ r.cites \subseteq r.seen
    BY Ready DEF Local, Phase
  <2>2. handler' = [handler EXCEPT ![h] = r]
    BY <1>7
  <2> HIDE DEF r
  <2>3. QED
    BY <1>1, <1>2, <1>7, <2>1, <2>2, GoOn DEF Unclaimed, Session
<1>8. CASE /\ events' = Append(events, [attempt |-> handler[h].attempt, status |-> "rejected",
                                        bytes |-> 0])
           /\ Goto(h, "loop")
  <2>1. LogMoves(h)
    BY <1>5, <1>8 DEF Status
  <2>2. QED
    BY <1>1, <1>8, <2>1, LogGoTo
<1>9. QED
  BY <1>3, <1>6, <1>7, <1>8 DEF ReserveOperation

LEMMA CompleteOperationStep ==
    ASSUME Inv, NEW h \in Handler, CompleteOperation(h)
    PROVE  Inv'
<1> DEFINE e == handler[h].op
<1>1. handler[h].at = "tooling" /\ ~handler[h].stalled /\ handler[h].at \notin Unclaimed
      /\ UNCHANGED <<kind, row, artifact, attempts, wire>>
  BY DEF CompleteOperation, Running, Unclaimed
<1>2. UNCHANGED events => SameButUsage
  BY <1>1, SameRow
<1>3. CASE Throw(h, FALSE) /\ UNCHANGED events
  BY <1>1, <1>2, <1>3, ThrowStep
<1>4. Logged(events) /\ e \in 1 .. Len(events) /\ events[e].attempt = handler[h].attempt
  BY <1>1, Ready DEF Typed, RecordOK
<1>5. ASSUME NEW size, NEW status \in Status,
             events' = [events EXCEPT ![e].status = status, ![e].bytes = size]
      PROVE  /\ LogMoves(h) /\ e \in 1 .. Len(events')
             /\ events'[e].attempt = handler[h].attempt /\ events'[e].status = status
  <2>1. /\ Logged(events') /\ Len(events) \in Nat /\ Len(events') = Len(events)
        /\ events'[e].attempt = events[e].attempt /\ events'[e].status = status
        /\ \A d \in 1 .. Len(events) : d # e => events'[d] = events[d]
    BY <1>4, <1>5, LogSet
  <2>2. QED
    BY <1>1, <1>4, <2>1 DEF LogMoves
<1>6. ASSUME NEW size,
             events' = [events EXCEPT ![e].status = "completed", ![e].bytes = size],
             handler' = [handler EXCEPT ![h].at = "loop", ![h].seen = @ \cup {e}]
      PROVE  Inv'
  <2> DEFINE q == [handler[h] EXCEPT !.at = "loop"]
             r == [handler[h] EXCEPT !.at = "loop", !.seen = @ \cup {e}]
  <2>1. /\ LogMoves(h) /\ e \in 1 .. Len(events')
        /\ events'[e].attempt = handler[h].attempt /\ events'[e].status = "completed"
    BY <1>5, <1>6 DEF Status
  <2>2. q \in Local /\ RecordOK(q, attempts, wire, events', artifact, kind)
    BY <1>1, <2>1, LogOnward
  <2>3. q.at = "loop" /\ q.attempt = handler[h].attempt
        /\ q.stalled = handler[h].stalled /\ q.aborted = handler[h].aborted
        /\ q.seen = handler[h].seen /\ q.cites = handler[h].cites
    BY Ready DEF Local
  <2>4. handler[h] \in Local /\ e \in Nat
    BY Ready DEF Local
  <2>5. r \in Local /\ r.at = "loop" /\ r.attempt = handler[h].attempt
        /\ r.stalled = handler[h].stalled /\ r.aborted = handler[h].aborted
        /\ r.seen = handler[h].seen \cup {e} /\ r.cites = handler[h].cites
    BY <2>4 DEF Local, Phase
  <2>6. handler' = [handler EXCEPT ![h] = r]
    BY <1>6
  <2> HIDE DEF q, r
  <2>7. Holds(r, attempts) <=> Holds(q, attempts)
    BY <2>3, <2>5 DEF Holds
  <2>8. \A d \in r.seen : /\ d \in 1 .. Len(events')
                          /\ events'[d].status = "completed" /\ events'[d].attempt = r.attempt
    BY <2>1, <2>2, <2>3, <2>5 DEF RecordOK
  <2>9. RecordOK(r, attempts, wire, events', artifact, kind)
    BY <2>2, <2>3, <2>5, <2>7, <2>8 DEF RecordOK, Unclaimed, Entitled, Pending, Buying, Session
  <2>10. r.at \in {"loop", "tooling", "failing"}
    BY <2>5
  <2>11. QED
    BY <1>1, <2>1, <2>5, <2>6, <2>9, <2>10, LogStep
<1>7. ASSUME NEW size, NEW status \in Status,
             events' = [events EXCEPT ![e].status = status, ![e].bytes = size],
             Goto(h, "loop") \/ (\E b \in BOOLEAN : Throw(h, b))
      PROVE  Inv'
  <2>1. LogMoves(h)
    BY <1>5, <1>7
  <2>2. QED
    BY <1>1, <1>7, <2>1, LogGoTo
<1>8. "completed" \in Status /\ "failed" \in Status
  BY DEF Status
<1>9. QED
  BY <1>3, <1>6, <1>7, <1>8 DEF CompleteOperation

-----------------------------------------------------------------------------
(* From a conclusion to a verdict                                          *)

LEMMA ConcludedStep ==
    ASSUME Inv, NEW h \in Handler, Concluded(h)
    PROVE  Inv'
<1>1. handler[h].at = "concluded" /\ handler[h].at \notin Unclaimed
  BY DEF Concluded, Running, Unclaimed
<1>2. SameButUsage
  BY SameRow DEF Concluded
<1>3. CASE Throw(h, FALSE)
  BY <1>1, <1>2, <1>3, ThrowStep
<1>4. ASSUME NEW at \in {"complete", "propose"}, Goto(h, at),
             at = "complete" => kind = "investigation" \/ handler[h].abstains
      PROVE  Inv'
  <2> DEFINE r == [handler[h] EXCEPT !.at = at]
  <2>1. r \in Local /\ r.at = at /\ r.attempt = handler[h].attempt
        /\ r.stalled = handler[h].stalled /\ r.aborted = handler[h].aborted
        /\ r.seen = handler[h].seen /\ r.cites \subseteq r.seen
        /\ r.abstains = handler[h].abstains
    BY Ready DEF Local, Phase
  <2>2. handler' = [handler EXCEPT ![h] = r]
    BY <1>4 DEF Goto
  <2> HIDE DEF r
  <2>3. QED
    BY <1>1, <1>2, <1>4, <2>1, <2>2, GoOn DEF Unclaimed, Session
<1>5. QED
  BY <1>3, <1>4 DEF Concluded

(* A step of the candidate's row, by the handler that proposes or freezes.   *)
LEMMA ArtifactStep ==
    ASSUME Inv, NEW h \in Handler, UNCHANGED <<kind, row, attempts, wire, events>>,
           artifact \notin Finished, artifact' \in Artifact,
           handler[h].at = "freezing" \/ artifact # "freezing",
           handler[h].at \in {"propose", "freezing"},
           NEW r \in Local, handler' = [handler EXCEPT ![h] = r],
           r.at \in {"freezing", "complete", "failing"},
           r.attempt = handler[h].attempt, r.stalled = handler[h].stalled,
           r.aborted = handler[h].aborted, r.seen = handler[h].seen, r.cites \subseteq r.seen,
           r.at = "freezing" => artifact' = "freezing",
           r.at = "complete" => artifact' = "frozen"
    PROVE  Inv'
<1>1. Typed /\ RowsOK /\ HandlersOK
  BY DEF Inv
<1>2. Typed'
  BY <1>1 DEF Typed, Logged
<1>3. RowsOK'
  BY <1>1 DEF RowsOK, Finished
<1>4. Grows
  BY <1>1, Basics DEF Grows
<1>5. ASSUME NEW g \in Handler \ {h}
      PROVE  handler[g].at # "freezing"
  BY <1>1 DEF HandlersOK, RecordOK, Distinct
<1>6. \A g \in Handler \ {h} : Kept(handler[g])
  BY <1>5 DEF Kept
<1>7. RecordOK(r, attempts', wire', events', artifact', kind')
  <2>1. Holds(r, attempts) <=> Holds(handler[h], attempts)
    BY DEF Holds
  <2>2. RecordOK(handler[h], attempts, wire, events, artifact, kind)
    BY Ready
  <2>3. QED
    BY <2>1, <2>2 DEF RecordOK, Unclaimed, Entitled, Pending, Buying, Session
<1>8. \A g \in Handler \ {h} : Distinct(r, handler[g])
  BY <1>1, <1>5 DEF HandlersOK, Distinct
<1>9. ~Entitled(r, attempts', artifact')
  BY DEF Entitled, Pending, Buying, Session
<1>10. QED
  BY <1>2, <1>3, <1>4, <1>6, <1>7, <1>8, <1>9, HandlerMoves

LEMMA ProposeStep ==
    ASSUME Inv, NEW h \in Handler, Propose(h)
    PROVE  Inv'
<1> DEFINE r == [handler[h] EXCEPT !.at = "freezing"]
<1>1. r \in Local /\ r.at = "freezing" /\ r.attempt = handler[h].attempt
      /\ r.stalled = handler[h].stalled /\ r.aborted = handler[h].aborted
      /\ r.seen = handler[h].seen /\ r.cites \subseteq r.seen
  BY Ready DEF Local, Phase
<1>2. handler' = [handler EXCEPT ![h] = r] /\ handler[h].at = "propose"
      /\ artifact = "absent" /\ artifact' = "freezing"
      /\ UNCHANGED <<kind, row, attempts, wire, events>>
  BY DEF Propose, Goto, Running
<1> HIDE DEF r
<1>3. QED
  BY <1>1, <1>2, ArtifactStep DEF Finished, Artifact

LEMMA FreezeStep ==
    ASSUME Inv, NEW h \in Handler, Freeze(h)
    PROVE  Inv'
<1>1. handler[h].at = "freezing" /\ UNCHANGED <<kind, row, attempts, wire, events>>
  BY DEF Freeze, Running
<1>2. artifact = "freezing"
  BY <1>1, Ready DEF RecordOK
<1>3. CASE artifact' = "frozen" /\ Goto(h, "complete")
  <2> DEFINE r == [handler[h] EXCEPT !.at = "complete"]
  <2>1. r \in Local /\ r.at = "complete" /\ r.attempt = handler[h].attempt
        /\ r.stalled = handler[h].stalled /\ r.aborted = handler[h].aborted
        /\ r.seen = handler[h].seen /\ r.cites \subseteq r.seen
    BY Ready DEF Local, Phase
  <2>2. handler' = [handler EXCEPT ![h] = r]
    BY <1>3 DEF Goto
  <2> HIDE DEF r
  <2>3. QED
    BY <1>1, <1>2, <1>3, <2>1, <2>2, ArtifactStep DEF Finished, Artifact
<1>4. CASE artifact' = "rejected" /\ Throw(h, FALSE)
  <2> DEFINE r == [handler[h] EXCEPT !.at = "failing", !.retryable = FALSE]
  <2>1. r \in Local /\ r.at = "failing" /\ r.attempt = handler[h].attempt
        /\ r.stalled = handler[h].stalled /\ r.aborted = handler[h].aborted
        /\ r.seen = handler[h].seen /\ r.cites \subseteq r.seen
    BY Ready DEF Local, Phase
  <2>2. handler' = [handler EXCEPT ![h] = r]
    BY <1>4 DEF Throw
  <2> HIDE DEF r
  <2>3. QED
    BY <1>1, <1>2, <1>4, <2>1, <2>2, ArtifactStep DEF Finished, Artifact
<1>5. QED
  BY <1>3, <1>4 DEF Freeze

(* The owner ends its attempt, and with it perhaps the job.                  *)
LEMMA CloseStep ==
    ASSUME Inv, NEW h \in Handler, handler[h].at \notin Unclaimed, OwnsJob(h),
           NEW state \in {"succeeded", "exhausted", "retryable_failed"}, NEW final \in BOOLEAN,
           attempts' = Closed(attempts, handler[h].attempt, state, final),
           handler' = [handler EXCEPT ![h] = Idle],
           UNCHANGED <<kind, artifact, wire, events>>, row' \in Row,
           row'.state = "done" =>
              /\ row'.by = handler[h].attempt /\ state = "succeeded"
              /\ row'.cites \subseteq handler[h].seen
              /\ kind = "candidate" => artifact = "frozen"
    PROVE  Inv'
<1> DEFINE a == handler[h].attempt
           x == [state |-> state, live |-> FALSE, final |-> final]
<1>1. Typed /\ RowsOK /\ HandlersOK
  BY DEF Inv
<1>2. a \in 1 .. Len(attempts) /\ attempts[a].state = "active" /\ a = Len(attempts)
      /\ attempts \in Seq(Attempt) /\ Len(attempts) \in Nat
  BY <1>1, Basics DEF OwnsJob, Owns, RowsOK, Typed
<1>3. x \in Attempt /\ x.state = state
  BY DEF Attempt
<1> HIDE DEF x
<1>4. attempts' = [attempts EXCEPT ![a] = x]
  BY DEF Closed, x
<1>5. /\ attempts' \in Seq(Attempt) /\ Len(attempts') = Len(attempts) /\ attempts'[a] = x
      /\ \A b \in 1 .. Len(attempts) : b # a => attempts'[b] = attempts[b]
  BY <1>2, <1>3, <1>4, ExceptSeq
<1>6. Typed'
  <2>1. handler' \in [Handler -> Local]
    BY <1>1, IdleIsOK DEF Typed
  <2>2. QED
    BY <1>1, <1>5, <2>1 DEF Typed, Logged
<1>7. RowsOK'
  <2>1. \A b \in 1 .. Len(attempts') : attempts'[b].state # "active"
    BY <1>1, <1>2, <1>3, <1>5 DEF RowsOK
  <2>2. \A e \in handler[h].seen : /\ e \in 1 .. Len(events)
                                   /\ events[e].status = "completed" /\ events[e].attempt = a
    BY <1>1 DEF HandlersOK, RecordOK
  <2>3. row'.state = "done" =>
           /\ row'.by \in 1 .. Len(attempts') /\ attempts'[row'.by].state = "succeeded"
           /\ \A e \in row'.cites : /\ e \in 1 .. Len(events)
                                    /\ events[e].status = "completed"
                                    /\ events[e].attempt = row'.by
    BY <1>2, <1>3, <1>5, <2>2
  <2>4. QED
    BY <1>1, <2>1, <2>3 DEF RowsOK
<1>8. Grows
  BY <1>1, <1>5, Basics DEF Grows
<1>9. ASSUME NEW g \in Handler \ {h}
      PROVE  Kept(handler[g])
  <2>1. handler[g].at \notin Unclaimed =>
           /\ handler[g].attempt \in 1 .. Len(attempts) /\ handler[g].attempt # a
    BY <1>1, <1>2 DEF HandlersOK, RecordOK, Distinct
  <2>2. handler[g].at \notin Unclaimed =>
           (Holds(handler[g], attempts') <=> Holds(handler[g], attempts))
    BY <1>5, <2>1 DEF Holds
  <2>3. QED
    BY <2>2 DEF Kept
<1>10. QED
  <2>1. Idle \in Local /\ RecordOK(Idle, attempts', wire', events', artifact', kind')
        /\ ~Entitled(Idle, attempts', artifact')
    BY IdleIsOK
  <2>2. \A g \in Handler \ {h} : Distinct(Idle, handler[g])
    BY DEF Distinct, Idle
  <2>3. QED
    BY <1>1, <1>6, <1>7, <1>8, <1>9, <2>1, <2>2, HandlerMoves

LEMMA CompleteStep ==
    ASSUME Inv, NEW h \in Handler, Complete(h)
    PROVE  Inv'
<1>1. handler[h].at = "complete" /\ handler[h].at \notin Unclaimed
      /\ UNCHANGED <<kind, artifact, wire, events>>
  BY DEF Complete, Running, Unclaimed
<1>2. CASE /\ OwnsJob(h)
           /\ row' = [row EXCEPT !.state = IF handler[h].abstains THEN "abstained" ELSE "done",
                                 !.by = handler[h].attempt, !.cites = handler[h].cites]
           /\ attempts' = Closed(attempts, handler[h].attempt, "succeeded", FALSE)
           /\ Reply(h, "completed")
  <2>1. row \in Row /\ handler[h].attempt \in Nat /\ handler[h].cites \in SUBSET Nat
        /\ handler[h].abstains \in BOOLEAN
    BY Ready DEF Typed, Local
  <2>2. row' \in Row /\ row'.by = handler[h].attempt /\ row'.cites = handler[h].cites
        /\ (row'.state = "done" => ~handler[h].abstains)
    BY <1>2, <2>1 DEF Row, RowState, Decided
  <2>3. kind = "candidate" /\ ~handler[h].abstains => artifact = "frozen"
    BY <1>1, Ready DEF RecordOK
  <2>4. handler[h].cites \subseteq handler[h].seen
    BY Ready
  <2>5. handler' = [handler EXCEPT ![h] = Idle]
    BY <1>2 DEF Reply
  <2>6. QED
    BY <1>1, <1>2, <2>2, <2>3, <2>4, <2>5, CloseStep
<1>3. CASE Reply(h, "failed") /\ UNCHANGED <<row, attempts>>
  BY <1>1, <1>3, SameRow, LetGo DEF Reply
<1>4. CASE Throw(h, artifact = "frozen") /\ UNCHANGED <<row, attempts>>
  <2>1. SameButUsage
    BY <1>1, <1>4, SameRow
  <2>2. (artifact = "frozen") \in BOOLEAN
    OBVIOUS
  <2>3. QED
    BY <1>1, <1>4, <2>1, <2>2, ThrowStep
<1>5. QED
  BY <1>2, <1>3, <1>4 DEF Complete

LEMMA FailStep ==
    ASSUME Inv, NEW h \in Handler, Fail(h)
    PROVE  Inv'
<1>1. handler[h].at = "failing" /\ handler[h].at \notin Unclaimed
      /\ UNCHANGED <<kind, artifact, wire, events>>
  BY DEF Fail, Running, Unclaimed
<1>2. ASSUME OwnsJob(h), NEW state \in {"exhausted", "retryable_failed"},
             attempts' = Closed(attempts, handler[h].attempt, state, ~handler[h].retryable),
             handler' = [handler EXCEPT ![h] = Idle],
             UNCHANGED row \/ row' = [row EXCEPT !.state = "failed"]
      PROVE  Inv'
  <2>1. row' \in Row /\ row'.state # "done"
    BY <1>2, Ready DEF Typed, Row, RowState, Decided, OwnsJob
  <2>2. (~handler[h].retryable) \in BOOLEAN
    OBVIOUS
  <2>3. QED
    BY <1>1, <1>2, <2>1, <2>2, CloseStep
<1>3. CASE Reply(h, "failed") /\ UNCHANGED <<row, attempts>>
  BY <1>1, <1>3, SameRow, LetGo DEF Reply
<1>4. QED
  BY <1>2, <1>3 DEF Fail, Reply

-----------------------------------------------------------------------------
(* Claiming a delivery                                                     *)

(* A job that can be claimed has no attempt that still holds.                *)
LEMMA NoneHolds ==
    ASSUME Inv, Claimable, NEW q
    PROVE  ~Holds(q, attempts)
BY Basics DEF Inv, Claimable, Active, Holds

(* A call that may still be sent is one the claim finds unresolved.          *)
LEMMA PendingUnresolved ==
    ASSUME Inv, NEW g \in Handler, Pending(handler[g])
    PROVE  PriorTransportUnresolved
<1> DEFINE a == handler[g].attempt
<1>1. a \in 1 .. Len(attempts) /\ Len(wire[a]) > 0 /\ wire[a][Len(wire[a])].outcome = "started"
  BY Ready DEF Pending, RecordOK, Unclaimed
<1>2. wire[a] \in Seq(Request) /\ DOMAIN wire = 1 .. Len(attempts)
  BY <1>1, Ready, Basics
<1>3. Len(wire[a]) \in DOMAIN wire[a]
  BY <1>1, <1>2
<1>4. QED
  BY <1>1, <1>2, <1>3 DEF PriorTransportUnresolved

(* What others rely on when the claim closes every lapsed attempt.           *)
LEMMA ClaimKeeps ==
    ASSUME Inv, Claimable, NEW h \in Handler, UNCHANGED <<kind, artifact, events>>,
           Len(attempts) <= Len(attempts'),
           \A a \in 1 .. Len(attempts) : attempts'[a] = Abandoned[a] /\ wire'[a] = wire[a],
           \A a \in 1 .. Len(wire') : a \in 1 .. Len(attempts) \/ ~SentIn(wire'[a])
    PROVE  Grows /\ \A g \in Handler : Kept(handler[g])
<1>1. Typed /\ HandlersOK
  BY DEF Inv
<1>2. Grows
  BY <1>1, Basics DEF Grows
<1>3. ASSUME NEW g \in Handler, handler[g].at \notin Unclaimed
      PROVE  /\ ~Holds(handler[g], attempts) /\ ~Holds(handler[g], attempts')
             /\ wire'[handler[g].attempt] = wire[handler[g].attempt]
  <2>1. handler[g].attempt \in 1 .. Len(attempts)
    BY <1>1, <1>3 DEF HandlersOK, RecordOK
  <2>2. QED
    BY <1>1, <2>1, NoneHolds, AbandonedRows DEF Holds
<1>4. \A a : Alone(a, wire) => Alone(a, wire')
  BY <1>1 DEF Alone, Typed
<1>5. \A g \in Handler : Kept(handler[g])
  BY <1>3, <1>4 DEF Kept
<1>6. QED
  BY <1>2, <1>5

LEMMA ClaimFailsStep ==
    ASSUME Inv, NEW h \in Handler, ClaimFails(h)
    PROVE  Inv'
<1>1. Typed /\ RowsOK /\ HandlersOK /\ Claimable /\ UNCHANGED <<kind, artifact, wire, events>>
      /\ attempts' = Abandoned /\ handler' = [handler EXCEPT ![h] = Idle]
      /\ row' = [row EXCEPT !.state = "failed"]
  BY DEF Inv, ClaimFails, Reply
<1>2. /\ attempts' \in Seq(Attempt) /\ Len(attempts') = Len(attempts) /\ Len(attempts) \in Nat
      /\ \A a \in 1 .. Len(attempts) : attempts'[a].state # "active"
  BY <1>1, Basics, AbandonedRows
<1>3. row' \in Row /\ row'.state = "failed"
  BY <1>1 DEF Typed, Row, RowState, Decided
<1>4. Typed'
  <2>1. handler' \in [Handler -> Local]
    BY <1>1, IdleIsOK DEF Typed
  <2>2. QED
    BY <1>1, <1>2, <1>3, <2>1 DEF Typed, Logged
<1>5. RowsOK'
  BY <1>1, <1>2, <1>3 DEF RowsOK
<1>6. Grows /\ \A g \in Handler : Kept(handler[g])
  <2>1. Len(wire') = Len(attempts)
    BY <1>1 DEF Typed
  <2>2. QED
    BY <1>1, <1>2, <2>1, ClaimKeeps
<1>7. \A g \in Handler \ {h} : Distinct(Idle, handler[g])
  BY DEF Distinct, Idle
<1>8. Idle \in Local /\ RecordOK(Idle, attempts', wire', events', artifact', kind')
      /\ ~Entitled(Idle, attempts', artifact')
  BY IdleIsOK
<1>9. QED
  BY <1>1, <1>4, <1>5, <1>6, <1>7, <1>8, HandlerMoves

LEMMA ClaimAttemptStep ==
    ASSUME Inv, NEW h \in Handler, handler[h].at = "claim", ~handler[h].stalled, ClaimAttempt(h)
    PROVE  Inv'
<1> DEFINE n == Len(attempts) + 1
           x == [state |-> "active", live |-> TRUE, final |-> FALSE]
           r == [handler[h] EXCEPT !.at = "begin", !.attempt = n]
<1>1. Typed /\ RowsOK /\ HandlersOK /\ Claimable /\ UNCHANGED <<kind, artifact, events>>
      /\ ~GivenUp /\ ~Spent /\ row' = [row EXCEPT !.state = "working"]
      /\ attempts' = Append(Abandoned, x) /\ wire' = Append(wire, <<>>)
  BY DEF Inv, ClaimAttempt
<1>2. x \in Attempt /\ x.state = "active" /\ x.live = TRUE
  BY DEF Attempt
<1> HIDE DEF x
<1>3. /\ Len(attempts) \in Nat /\ attempts' \in Seq(Attempt) /\ Len(attempts') = n
      /\ attempts'[n] = x
      /\ \A a \in 1 .. Len(attempts) : attempts'[a] = Abandoned[a] /\ attempts'[a].state # "active"
  <2>1. Len(attempts) \in Nat /\ Abandoned \in Seq(Attempt) /\ Len(Abandoned) = Len(attempts)
    BY <1>1, Basics, AbandonedRows
  <2>2. \A a \in 1 .. Len(attempts) : Abandoned[a].state # "active"
    BY <1>1, AbandonedRows
  <2>3. QED
    BY <1>1, <1>2, <2>1, <2>2, AddElement
<1>4. /\ wire' \in Seq(Seq(Request)) /\ Len(wire') = n /\ wire'[n] = <<>>
      /\ \A a \in 1 .. Len(attempts) : wire'[a] = wire[a]
  <2>1. <<>> \in Seq(Request) /\ wire \in Seq(Seq(Request)) /\ Len(wire) = Len(attempts)
    BY <1>1 DEF Typed
  <2>2. QED
    BY <1>1, <2>1, AddElement
<1>5. n \in Nat /\ n \in 1 .. n /\ n <= MaxAttempts
      /\ \A a \in 1 .. n : a \in 1 .. Len(attempts) \/ a = n
  <2>1. MaxAttempts \in Nat
    BY ConstantsAssumption
  <2>2. QED
    BY <1>1, <1>3, <2>1 DEF Spent
<1>6. r \in Local /\ r.at = "begin" /\ r.attempt = n
      /\ r.stalled = handler[h].stalled /\ r.aborted = handler[h].aborted
      /\ r.seen = handler[h].seen /\ r.cites = handler[h].cites
  BY <1>5, Ready DEF Local, Phase
<1>7. handler' = [handler EXCEPT ![h] = r]
  BY DEF ClaimAttempt
<1> HIDE DEF r, n
<1>8. row' \in Row /\ row'.state = "working"
  BY <1>1 DEF Typed, Row, RowState
<1>9. Typed'
  <2>1. handler' \in [Handler -> Local]
    BY <1>1, <1>6, <1>7 DEF Typed
  <2>2. QED
    BY <1>1, <1>3, <1>4, <1>5, <1>8, <2>1 DEF Typed, Logged
<1>10. RowsOK'
  <2>1. \A a \in 1 .. Len(attempts') : attempts'[a].state = "active" => a = Len(attempts')
    BY <1>3, <1>5
  <2>2. \A a \in 1 .. Len(wire') : \A t \in 1 .. Len(wire'[a]) :
           wire'[a][t].outcome = "failed" => ~wire'[a][t].sent
    <3>1. SUFFICES ASSUME NEW a \in 1 .. n, NEW t \in 1 .. Len(wire'[a])
                   PROVE  wire'[a][t].outcome = "failed" => ~wire'[a][t].sent
      BY <1>4
    <3>2. CASE a = n
      <4>1. Len(wire'[a]) = 0
        BY <1>4, <3>2
      <4>2. QED
        BY <4>1
    <3>3. CASE a \in 1 .. Len(attempts)
      BY <1>1, <1>4, <3>3 DEF RowsOK, Typed
    <3>4. QED
      BY <1>5, <3>2, <3>3
  <2>3. QED
    BY <1>8, <2>1, <2>2 DEF RowsOK
<1>11. Grows /\ \A g \in Handler : Kept(handler[g])
  <2>1. Len(attempts) <= Len(attempts')
    BY <1>3 DEF n
  <2>2. \A a \in 1 .. Len(wire') : a \in 1 .. Len(attempts) \/ ~SentIn(wire'[a])
    BY <1>4, <1>5 DEF SentIn
  <2>3. QED
    BY <1>1, <1>3, <1>4, <2>1, <2>2, ClaimKeeps
<1>12. Alone(n, wire') \/ artifact' \in Finished
  <2>1. SUFFICES ASSUME artifact \notin Finished, NEW b \in 1 .. Len(attempts),
                        NEW t \in 1 .. Len(wire[b])
                 PROVE  ~wire[b][t].sent
    BY <1>1, <1>4, <1>5 DEF Alone, SentIn
  <2>2. DOMAIN wire = 1 .. Len(attempts) /\ DOMAIN wire[b] = 1 .. Len(wire[b])
        /\ Len(wire) = Len(attempts)
    BY <1>1, Basics
  <2>3. wire[b][t].outcome = "failed"
    BY <1>1, <2>1, <2>2 DEF GivenUp, PriorTransportUnresolved, LocallyReconcilable, Finished
  <2>4. QED
    BY <1>1, <2>2, <2>3 DEF RowsOK
<1>13. RecordOK(r, attempts', wire', events', artifact', kind')
  <2>1. Holds(r, attempts') /\ r.attempt \in 1 .. Len(attempts')
    BY <1>2, <1>3, <1>5, <1>6 DEF Holds
  <2>2. handler[h].seen = {} /\ handler[h].cites = {}
    <3>1. handler[h].at \in Unclaimed
      BY DEF Unclaimed
    <3>2. QED
      BY <3>1, Ready DEF RecordOK
  <2>3. QED
    BY <1>6, <1>12, <2>1, <2>2 DEF RecordOK, Unclaimed, Entitled, Pending, Buying, Session
<1>14. \A g \in Handler \ {h} : Distinct(r, handler[g])
  <2>1. \A g \in Handler : handler[g].attempt \in 0 .. Len(attempts)
    BY <1>1, <1>3 DEF HandlersOK, RecordOK
  <2>2. QED
    BY <1>3, <1>6, <2>1 DEF Distinct, n
<1>15. ASSUME Entitled(r, attempts', artifact'), NEW g \in Handler \ {h}
       PROVE  ~Entitled(handler[g], attempts', artifact')
  <2>1. artifact \notin Finished
    BY <1>1, <1>6, <1>15 DEF Entitled, Pending, Buying, Session
  <2>2. SUFFICES ASSUME Entitled(handler[g], attempts', artifact')
                 PROVE  FALSE
    OBVIOUS
  <2>3. Entitled(handler[g], attempts, artifact)
    BY <1>11, <2>2, EntitledKept
  <2>4. Pending(handler[g])
    BY <1>1, <2>3, NoneHolds DEF Entitled
  <2>5. PriorTransportUnresolved
    BY <2>4, PendingUnresolved
  <2>6. QED
    BY <1>1, <2>1, <2>5 DEF GivenUp, LocallyReconcilable, Finished
<1>16. QED
  BY <1>6, <1>7, <1>9, <1>10, <1>11, <1>13, <1>14, <1>15, HandlerMoves

LEMMA ClaimStep ==
    ASSUME Inv, NEW h \in Handler, Claim(h)
    PROVE  Inv'
<1>1. handler[h].at = "claim" /\ ~handler[h].stalled
  BY DEF Claim, Running
<1>2. CASE ClaimTerminal(h)
  BY <1>2, SameRow, LetGo DEF ClaimTerminal, Reply
<1>3. CASE ClaimBusy(h)
  BY <1>3, SameRow, LetGo DEF ClaimBusy, Reply
<1>4. CASE ClaimError(h)
  BY <1>4, SameRow, LetGo DEF ClaimError, Reply
<1>5. QED
  BY <1>1, <1>2, <1>3, <1>4, ClaimFailsStep, ClaimAttemptStep DEF Claim

-----------------------------------------------------------------------------
(* The owner, the queue, and time                                          *)

(* Until the job is claimed it has no attempt that is active.                *)
LEMMA OwnerStep ==
    ASSUME Inv, Start \/ Retire
    PROVE  Inv'
<1>1. Typed /\ RowsOK /\ HandlersOK
      /\ UNCHANGED <<kind, artifact, attempts, wire, events, handler>>
      /\ row.state \in {"none", "queued"}
  BY DEF Inv, Start, Retire
<1>2. row' \in Row /\ row'.state \in {"queued", "cancelled"}
  BY <1>1 DEF Start, Retire, Typed, Row, RowState, Decided
<1>3. Typed'
  BY <1>1, <1>2 DEF Typed, Logged
<1>4. RowsOK'
  BY <1>1, <1>2 DEF RowsOK
<1>5. Grows
  BY <1>1, Basics DEF Grows
<1>6. \A g \in Handler : Kept(handler[g])
  BY <1>1 DEF Kept
<1>7. QED
  BY <1>1, <1>3, <1>4, <1>5, <1>6, NobodyMoves

LEMMA ExpireStep ==
    ASSUME Inv, Expire
    PROVE  Inv'
BY DEF Expire, Inv, Typed, RowsOK, HandlersOK, Logged

LEMMA LapseStep ==
    ASSUME Inv, Lapse
    PROVE  Inv'
<1>1. Typed /\ RowsOK /\ HandlersOK /\ UNCHANGED <<kind, row, artifact, wire, events, handler>>
  BY DEF Inv, Lapse
<1>2. PICK a \in Active : ~Renewed(a) /\ attempts' = [attempts EXCEPT ![a].live = FALSE]
  BY DEF Lapse
<1> DEFINE x == [attempts[a] EXCEPT !.live = FALSE]
<1>3. a \in 1 .. Len(attempts) /\ attempts[a] \in Attempt /\ attempts \in Seq(Attempt)
  BY <1>1, Basics DEF Active, Typed
<1>4. x \in Attempt /\ x.state = attempts[a].state /\ x.live = FALSE
  BY <1>3 DEF Attempt
<1>5. attempts' = [attempts EXCEPT ![a] = x]
  BY <1>2
<1> HIDE DEF x
<1>6. /\ attempts' \in Seq(Attempt) /\ Len(attempts') = Len(attempts) /\ attempts'[a] = x
      /\ \A b \in 1 .. Len(attempts) : b # a => attempts'[b] = attempts[b]
  BY <1>3, <1>4, <1>5, ExceptSeq
<1>7. \A b \in 1 .. Len(attempts) : attempts'[b].state = attempts[b].state
  BY <1>4, <1>6
<1>8. Typed'
  BY <1>1, <1>6 DEF Typed, Logged
<1>9. RowsOK'
  BY <1>1, <1>6, <1>7 DEF RowsOK
<1>10. Grows
  BY <1>1, <1>6, Basics DEF Grows
<1>11. ASSUME NEW g \in Handler
       PROVE  Kept(handler[g])
  <2>1. handler[g].attempt = a => handler[g].stalled
    BY <1>2 DEF Renewed
  <2>2. Holds(handler[g], attempts') => Holds(handler[g], attempts)
    BY <1>4, <1>6 DEF Holds
  <2>3. Holds(handler[g], attempts) /\ ~handler[g].stalled => Holds(handler[g], attempts')
    BY <1>6, <2>1 DEF Holds
  <2>4. QED
    BY <1>1, <2>2, <2>3 DEF Kept
<1>12. QED
  BY <1>1, <1>8, <1>9, <1>10, <1>11, NobodyMoves

LEMMA DeliverStep ==
    ASSUME Inv, NEW h \in Handler, Deliver(h)
    PROVE  Inv'
<1> DEFINE r == [handler[h] EXCEPT !.at = "claim"]
<1>1. handler[h].at = "idle" /\ SameButUsage
  BY SameRow DEF Deliver
<1>2. handler' = [handler EXCEPT ![h] = r]
  BY DEF Deliver, Goto
<1>3. r \in Local /\ r.at = "claim" /\ r.attempt = handler[h].attempt
      /\ r.aborted = handler[h].aborted /\ r.abstains = handler[h].abstains
      /\ r.seen = handler[h].seen /\ r.cites = handler[h].cites
  BY Ready DEF Local, Phase
<1> HIDE DEF r
<1>4. ~Entitled(r, attempts, artifact)
  BY <1>3 DEF Entitled, Pending, Buying, Session
<1>5. RecordOK(r, attempts, wire, events, artifact, kind)
  BY <1>1, <1>3, <1>4, Ready DEF RecordOK, Unclaimed
<1>6. QED
  BY <1>1, <1>2, <1>3, <1>5, <1>4, LocalStep

(* The process is stalled, aborted or resumed; what it has is not touched.   *)
LEMMA FlagStep ==
    ASSUME Inv, SameButUsage, NEW h \in Handler,
           NEW stalled \in BOOLEAN, NEW aborted \in BOOLEAN,
           handler' = [handler EXCEPT ![h].stalled = stalled, ![h].aborted = aborted],
           handler[h].at \in Unclaimed => ~aborted, handler[h].aborted => aborted,
           handler[h].at \in {"owned", "begun"} /\ ~stalled /\ ~aborted =>
              Holds(handler[h], attempts)
    PROVE  Inv'
<1> DEFINE r == [handler[h] EXCEPT !.stalled = stalled, !.aborted = aborted]
<1>1. handler' = [handler EXCEPT ![h] = r]
  OBVIOUS
<1>2. r \in Local /\ r.at = handler[h].at /\ r.attempt = handler[h].attempt
      /\ r.stalled = stalled /\ r.aborted = aborted /\ r.abstains = handler[h].abstains
      /\ r.seen = handler[h].seen /\ r.cites = handler[h].cites /\ r.op = handler[h].op
  BY Ready DEF Local
<1> HIDE DEF r
<1>3. Holds(r, attempts) <=> Holds(handler[h], attempts)
  BY <1>2 DEF Holds
<1>4. Entitled(r, attempts, artifact) => Entitled(handler[h], attempts, artifact)
  BY <1>2, <1>3 DEF Entitled, Pending, Buying
<1>5. RecordOK(r, attempts, wire, events, artifact, kind)
  BY <1>2, <1>3, <1>4, Ready DEF RecordOK
<1>6. QED
  BY <1>1, <1>2, <1>4, <1>5, LocalStep

LEMMA ProcessStep ==
    ASSUME Inv, NEW h \in Handler, Abort(h) \/ Stall(h) \/ Resume(h) \/ Crash(h)
    PROVE  Inv'
<1>1. SameButUsage
  BY SameRow DEF Abort, Stall, Resume, Crash
<1>2. handler[h] \in Local /\ RecordOK(handler[h], attempts, wire, events, artifact, kind)
      /\ handler[h].stalled \in BOOLEAN /\ handler[h].aborted \in BOOLEAN
  BY Ready DEF Local
<1>3. CASE Abort(h)
  <2>1. handler' = [handler EXCEPT ![h].stalled = handler[h].stalled, ![h].aborted = TRUE]
        /\ handler[h].at \notin Unclaimed
    BY <1>2, <1>3, Ready DEF Abort, Unclaimed, Local, Typed
  <2>2. QED
    BY <1>1, <1>2, <2>1, FlagStep
<1>4. CASE Stall(h)
  <2>1. handler' = [handler EXCEPT ![h].stalled = TRUE, ![h].aborted = handler[h].aborted]
    BY <1>2, <1>4, Ready DEF Stall, Local, Typed
  <2>2. handler[h].at \in Unclaimed => ~handler[h].aborted
    BY <1>2 DEF RecordOK
  <2>3. QED
    BY <1>1, <1>2, <2>1, <2>2, FlagStep
<1>5. CASE /\ handler[h].at \in {"begin", "asserted"}
           /\ handler' = [handler EXCEPT ![h].stalled = FALSE]
  <2>1. handler' = [handler EXCEPT ![h].stalled = FALSE, ![h].aborted = handler[h].aborted]
    BY <1>2, <1>5, Ready DEF Local, Typed
  <2>2. QED
    BY <1>1, <1>2, <1>5, <2>1, FlagStep DEF Unclaimed
<1>6. CASE handler' = [handler EXCEPT ![h].stalled = FALSE,
                          ![h].aborted = @ \/ (handler[h].attempt # 0 /\ ~Owns(h))]
  <2> DEFINE aborted == handler[h].aborted \/ (handler[h].attempt # 0 /\ ~Owns(h))
  <2>1. handler' = [handler EXCEPT ![h].stalled = FALSE, ![h].aborted = aborted]
    BY <1>6
  <2>2. handler[h].at \in Unclaimed => ~aborted
    BY <1>2 DEF RecordOK
  <2>3. handler[h].at \notin Unclaimed => handler[h].attempt \in 1 .. Len(attempts)
    BY <1>2 DEF RecordOK
  <2>4. Owns(h) => Holds(handler[h], attempts)
    <3>1. DOMAIN attempts = 1 .. Len(attempts)
      BY Ready, Basics
    <3>2. QED
      BY <3>1 DEF Owns, Holds
  <2>5. handler[h].at \notin Unclaimed /\ ~aborted => Holds(handler[h], attempts)
    BY <2>3, <2>4, Ready, Basics
  <2>6. aborted \in BOOLEAN
    OBVIOUS
  <2>7. handler[h].aborted => aborted
    OBVIOUS
  <2> HIDE DEF aborted
  <2>8. QED
    BY <1>1, <2>1, <2>2, <2>5, <2>6, <2>7, FlagStep DEF Unclaimed
<1>7. CASE Crash(h)
  BY <1>1, <1>7, LetGo DEF Crash
<1>8. QED
  BY <1>3, <1>4, <1>5, <1>6, <1>7 DEF Resume

-----------------------------------------------------------------------------
LEMMA InitInv == Init => Inv
<1> SUFFICES ASSUME Init
             PROVE  Inv
  OBVIOUS
<1>1. Typed
  <2>1. kind \in Kind /\ row \in Row /\ artifact \in Artifact
    BY ConstantsAssumption DEF Init, Row, RowState, Artifact
  <2>2. /\ attempts = <<>> /\ attempts \in Seq(Attempt) /\ Len(attempts) = 0
        /\ wire \in Seq(Seq(Request)) /\ Len(wire) = 0
    BY DEF Init
  <2>3. Logged(events)
    <3>1. events \in Seq([attempt : Nat, bytes : {}, status : Status])
      BY DEF Init
    <3>2. QED
      BY <3>1 DEF Logged
  <2>4. handler \in [Handler -> Local]
    BY IdleIsOK DEF Init
  <2>5. 0 <= MaxAttempts
    BY ConstantsAssumption
  <2>6. QED
    BY <2>1, <2>2, <2>3, <2>4, <2>5 DEF Typed
<1>2. RowsOK
  BY DEF Init, RowsOK
<1>3. HandlersOK
  BY IdleIsOK DEF Init, HandlersOK, Distinct, Idle
<1>4. QED
  BY <1>1, <1>2, <1>3 DEF Inv

LEMMA NextInv == Inv /\ [Next]_vars => Inv'
<1> SUFFICES ASSUME Inv, [Next]_vars
             PROVE  Inv'
  OBVIOUS
<1>1. CASE UNCHANGED vars
  BY <1>1 DEF vars, Inv, Typed, RowsOK, HandlersOK, Logged
<1>2. ASSUME NEW h \in Handler, Step(h)
      PROVE  Inv'
  BY <1>2, ClaimStep, BeginStep, AskStep, ReserveStep, AssertOwnershipStep, SendStep, AnswerStep,
     ReserveOperationStep, CompleteOperationStep, ConcludedStep, ProposeStep, FreezeStep,
     CompleteStep, FailStep DEF Step
<1>3. QED
  BY <1>1, <1>2, OwnerStep, LapseStep, ExpireStep, DeliverStep, ProcessStep DEF Next

LEMMA Invariance == Spec => []Inv
BY InitInv, NextInv, PTL DEF Spec

(* A completed job was concluded by an attempt that succeeded as its owner   *)
(* and cites only what that attempt read, for any number of workers,         *)
(* attempts, turns and faults.                                               *)
THEOREM VerdictBacked == Spec => []VerdictIsBacked
<1>1. Inv => VerdictIsBacked
  BY DEF Inv, RowsOK, VerdictIsBacked
<1>2. QED
  BY <1>1, Invariance, PTL

-----------------------------------------------------------------------------
(* The budgets                                                             *)

(* The log keeps to the operations and the bytes of the context.            *)
LogWithin ==
    /\ events \in Seq(Event) /\ IsFiniteSet(Blocks(events))
    /\ BytesOf(events) <= MaxBytes /\ Len(events) <= MaxOperations

LEMMA ColumnSize ==
    ASSUME NEW e, NEW n \in Nat
    PROVE  IsFiniteSet({e} \X (1 .. n)) /\ Cardinality({e} \X (1 .. n)) = n
<1> DEFINE S == {e}
           T == 1 .. n
<1>1. IsFiniteSet(T) /\ Cardinality(T) = n
  BY FS_Interval
<1>2. IsFiniteSet(S) /\ Cardinality(S) = 1
  BY FS_Singleton
<1> HIDE DEF S, T
<1>3. IsFiniteSet(S \X T) /\ Cardinality(S \X T) = Cardinality(S) * Cardinality(T)
  BY <1>1, <1>2, FS_Product
<1>4. Cardinality(S \X T) = n
  BY <1>1, <1>2, <1>3
<1>5. QED
  BY <1>3, <1>4 DEF S, T

LEMMA BlockOf ==
    ASSUME NEW log \in Seq(Event)
    PROVE  \A w : w \in Blocks(log) <=> \E e \in 1 .. Len(log) : w \in {e} \X (1 .. log[e].bytes)
BY DEF Blocks

LEMMA BlocksAppend ==
    ASSUME NEW log \in Seq(Event), IsFiniteSet(Blocks(log)), NEW x \in Event
    PROVE  /\ Append(log, x) \in Seq(Event) /\ Len(Append(log, x)) = Len(log) + 1
           /\ IsFiniteSet(Blocks(Append(log, x)))
           /\ BytesOf(log) \in Nat
           /\ BytesOf(Append(log, x)) = BytesOf(log) + x.bytes
<1> DEFINE n == Len(log) + 1
           new == Append(log, x)
           more == {n} \X (1 .. x.bytes)
<1>1. /\ n \in Nat /\ x.bytes \in Nat /\ Len(log) \in Nat
      /\ new \in Seq(Event) /\ Len(new) = n
      /\ new[n] = x /\ \A e \in 1 .. Len(log) : new[e] = log[e]
  BY DEF Event
<1>2. 1 .. n = (1 .. Len(log)) \cup {n} /\ n \notin 1 .. Len(log)
  BY <1>1
<1>3. IsFiniteSet(more) /\ Cardinality(more) = x.bytes
  BY <1>1, ColumnSize
<1> HIDE DEF new, n
<1>4. \A w : w \in Blocks(new) <=> w \in Blocks(log) \/ w \in more
  <2> TAKE w
  <2>1. w \in Blocks(new) <=> \E e \in 1 .. n : w \in {e} \X (1 .. new[e].bytes)
    BY <1>1, BlockOf
  <2>2. w \in Blocks(log) <=> \E e \in 1 .. Len(log) : w \in {e} \X (1 .. log[e].bytes)
    BY BlockOf
  <2>3. QED
    BY <1>1, <1>2, <2>1, <2>2
<1>5. Blocks(log) \cap more = {}
  <2>1. \A w \in Blocks(log) : w[1] \in 1 .. Len(log)
    BY BlockOf
  <2>2. \A w \in more : w[1] = n
    OBVIOUS
  <2>3. QED
    BY <1>2, <2>1, <2>2
<1> HIDE DEF more
<1>6. Blocks(new) = Blocks(log) \cup more
  BY <1>4
<1>7. /\ IsFiniteSet(Blocks(new))
      /\ Cardinality(Blocks(new)) =
            Cardinality(Blocks(log)) + Cardinality(more) - Cardinality(Blocks(log) \cap more)
  BY <1>3, <1>6, FS_Union
<1>8. Cardinality(Blocks(log)) \in Nat /\ Cardinality(Blocks(log) \cap more) = 0
  BY <1>5, FS_CardinalityType, FS_EmptySet
<1>9. QED
  BY <1>1, <1>3, <1>7, <1>8 DEF BytesOf, new, n

LEMMA BlocksShrink ==
    ASSUME NEW log \in Seq(Event), NEW log2 \in Seq(Event), Len(log2) = Len(log),
           IsFiniteSet(Blocks(log)), \A e \in 1 .. Len(log) : log2[e].bytes <= log[e].bytes
    PROVE  IsFiniteSet(Blocks(log2)) /\ BytesOf(log2) \in Nat /\ BytesOf(log2) <= BytesOf(log)
           /\ BytesOf(log) \in Nat
<1>1. \A e \in 1 .. Len(log) : log[e] \in Event /\ log2[e] \in Event
  OBVIOUS
<1>2. \A e \in 1 .. Len(log) : log[e].bytes \in Nat /\ log2[e].bytes \in Nat
  BY <1>1 DEF Event
<1>3. \A e \in 1 .. Len(log) : 1 .. log2[e].bytes \subseteq 1 .. log[e].bytes
  BY <1>2
<1>4. Blocks(log2) \subseteq Blocks(log)
  <2>1. SUFFICES ASSUME NEW w \in Blocks(log2)
                 PROVE  w \in Blocks(log)
    OBVIOUS
  <2>2. PICK e \in 1 .. Len(log) : w \in {e} \X (1 .. log2[e].bytes)
    BY <2>1, BlockOf
  <2>3. w \in {e} \X (1 .. log[e].bytes)
    BY <1>3, <2>2
  <2>4. QED
    BY <2>3, BlockOf
<1>5. QED
  BY <1>4, FS_Subset, FS_CardinalityType DEF BytesOf

(* Only the context operations of a session touch the log.                  *)
LEMMA LogUntouched ==
    ASSUME [Next]_vars,
           \A h \in Handler : ~ReserveOperation(h) /\ ~CompleteOperation(h)
    PROVE  UNCHANGED events
<1>1. CASE UNCHANGED vars
  BY <1>1 DEF vars
<1>2. ASSUME NEW h \in Handler, Claim(h)
      PROVE  UNCHANGED events
  BY <1>2 DEF Claim, ClaimTerminal, ClaimBusy, ClaimFails, ClaimAttempt, ClaimError
<1>3. ASSUME NEW h \in Handler, Deliver(h) \/ Step(h) \/ Abort(h) \/ Stall(h) \/ Resume(h) \/ Crash(h)
      PROVE  UNCHANGED events
  BY <1>2, <1>3 DEF Deliver, Step, Begin, Ask, Reserve, AssertOwnership, Send, Answer, Concluded,
         Propose, Freeze, Complete, Fail, Abort, Stall, Resume, Crash
<1>4. CASE Start \/ Retire \/ Lapse \/ Expire
  BY <1>4 DEF Start, Retire, Lapse, Expire
<1>5. QED
  BY <1>1, <1>3, <1>4 DEF Next

(* An operation that fits, and one that is refused.                         *)
LEMMA ReserveWithin ==
    ASSUME Inv, LogWithin, NEW h \in Handler, ReserveOperation(h)
    PROVE  LogWithin'
<1>1. /\ MaxBytes \in Nat /\ MaxOperations \in Nat /\ ResultBytes \subseteq Nat
      /\ BytesOf(events) \in Nat /\ Len(events) \in Nat
  BY ConstantsAssumption, FS_CardinalityType DEF LogWithin, BytesOf
<1>2. handler[h].attempt \in Nat
  BY Ready DEF Local
<1>3. CASE UNCHANGED events
  BY <1>3 DEF LogWithin, BytesOf, Blocks
<1>4. ASSUME NEW status \in {"started", "rejected"}, NEW size \in Nat,
             BytesOf(events) + size <= MaxBytes, Len(events) < MaxOperations,
             events' = Append(events, [attempt |-> handler[h].attempt, status |-> status,
                                       bytes |-> size])
      PROVE  LogWithin'
  <2> DEFINE x == [attempt |-> handler[h].attempt, status |-> status, bytes |-> size]
  <2>1. x \in Event /\ x.bytes = size
    BY <1>2 DEF Event
  <2>2. events' = Append(events, x)
    BY <1>4
  <2> HIDE DEF x
  <2>3. /\ events' \in Seq(Event) /\ Len(events') = Len(events) + 1
        /\ IsFiniteSet(Blocks(events')) /\ BytesOf(events') = BytesOf(events) + size
    BY <2>1, <2>2, BlocksAppend DEF LogWithin
  <2>4. QED
    BY <1>1, <1>4, <2>3 DEF LogWithin
<1>5. ASSUME NEW bytes \in ResultBytes, NEW truncatable \in BOOLEAN,
             OperationFits(bytes, truncatable),
             events' = Append(events, [attempt |-> handler[h].attempt, status |-> "started",
                                       bytes |-> Granted(bytes, truncatable)])
      PROVE  LogWithin'
  <2>1. Granted(bytes, truncatable) \in Nat
    BY <1>1 DEF Granted, LogWithin
  <2>2. BytesOf(events) + Granted(bytes, truncatable) <= MaxBytes /\ Len(events) < MaxOperations
    BY <1>5 DEF OperationFits
  <2>3. QED
    BY <1>4, <1>5, <2>1, <2>2
<1>6. CASE /\ Len(events) < MaxOperations
           /\ events' = Append(events, [attempt |-> handler[h].attempt, status |-> "rejected",
                                        bytes |-> 0])
  <2>1. BytesOf(events) + 0 <= MaxBytes
    BY <1>1 DEF LogWithin
  <2>2. QED
    BY <1>4, <1>6, <2>1
<1>7. QED
  BY <1>3, <1>5, <1>6 DEF ReserveOperation

(* What was read is never more than what was reserved for it.               *)
LEMMA CompleteWithin ==
    ASSUME Inv, LogWithin, NEW h \in Handler, CompleteOperation(h)
    PROVE  LogWithin'
<1> DEFINE n == handler[h].op
<1>1. n \in 1 .. Len(events)
  BY Ready DEF CompleteOperation, Running, RecordOK
<1>2. ResultBytes \subseteq Nat /\ events[n] \in Event /\ Len(events) \in Nat
      /\ MaxBytes \in Nat /\ BytesOf(events) \in Nat
  BY <1>1, ConstantsAssumption, FS_CardinalityType DEF LogWithin, BytesOf
<1>3. CASE UNCHANGED events
  BY <1>3 DEF LogWithin, BytesOf, Blocks
<1>4. ASSUME NEW status \in {"completed", "failed"}, NEW size \in Nat, size <= events[n].bytes,
             events' = [events EXCEPT ![n].status = status, ![n].bytes = size]
      PROVE  LogWithin'
  <2> DEFINE x == [events[n] EXCEPT !.status = status, !.bytes = size]
  <2>1. x \in Event /\ x.bytes = size
    BY <1>2 DEF Event
  <2>2. events' = [events EXCEPT ![n] = x]
    BY <1>4
  <2> HIDE DEF x, n
  <2>3. events \in Seq(Event) /\ \A e \in 1 .. Len(events) : events[e] \in Event
    BY DEF LogWithin
  <2>4. /\ events' \in Seq(Event) /\ Len(events') = Len(events)
        /\ \A e \in 1 .. Len(events) : events'[e] = IF e = n THEN x ELSE events[e]
    BY <1>1, <2>1, <2>2, <2>3, ExceptSeq
  <2>5. \A e \in 1 .. Len(events) : events'[e].bytes <= events[e].bytes
    BY <1>4, <2>1, <2>3, <2>4 DEF Event
  <2>6. IsFiniteSet(Blocks(events')) /\ BytesOf(events') \in Nat /\ BytesOf(events') <= BytesOf(events)
    BY <2>4, <2>5, BlocksShrink DEF LogWithin
  <2>7. QED
    BY <1>2, <2>4, <2>6 DEF LogWithin
<1>5. events[n].bytes \in Nat /\ 0 <= events[n].bytes
  BY <1>2 DEF Event
<1>6. \/ UNCHANGED events
      \/ \E size \in ResultBytes : size <= events[n].bytes
            /\ events' = [events EXCEPT ![n].status = "completed", ![n].bytes = size]
      \/ events' = [events EXCEPT ![n].status = "failed", ![n].bytes = 0]
  BY DEF CompleteOperation
<1>7. ASSUME NEW size \in ResultBytes, size <= events[n].bytes,
             events' = [events EXCEPT ![n].status = "completed", ![n].bytes = size]
      PROVE  LogWithin'
  BY <1>2, <1>4, <1>7
<1>8. CASE events' = [events EXCEPT ![n].status = "failed", ![n].bytes = 0]
  BY <1>4, <1>5, <1>8
<1>9. QED
  BY <1>3, <1>6, <1>7, <1>8

LEMMA LogWithinNext == Inv /\ LogWithin /\ [Next]_vars => LogWithin'
<1> SUFFICES ASSUME Inv, LogWithin, [Next]_vars
             PROVE  LogWithin'
  OBVIOUS
<1>1. CASE UNCHANGED events
  BY <1>1 DEF LogWithin, BytesOf, Blocks
<1>2. QED
  BY <1>1, LogUntouched, ReserveWithin, CompleteWithin

(* The turns a session has used once its latest request is answered: a       *)
(* candidate generation counts them before it asks.                         *)
Counted(r, k) == IF k = "candidate" THEN r.turns ELSE r.turns + 1

(* A session has asked no more than it has counted.                         *)
AskedOK(r, calls, k) ==
    LET asked == Len(calls[r.attempt])
    IN  /\ r.at = "begin" => asked = 0
        /\ r.at \in {"loop", "tool", "tooling"} => asked <= r.turns
        /\ r.at = "owned" => asked < Counted(r, k) /\ Counted(r, k) <= MaxToolTurns + 1
        /\ r.at \in {"begun", "asserted", "sent"} =>
              asked <= Counted(r, k) /\ Counted(r, k) <= MaxToolTurns + 1

TurnsWithin ==
    /\ row.turns <= MaxToolTurns + 1
    /\ \A a \in 1 .. Len(wire) : Len(wire[a]) <= MaxToolTurns + 1
    /\ \A h \in Handler : AskedOK(handler[h], wire, kind)

Asking == {"begin", "loop", "tool", "tooling", "owned", "begun", "asserted", "sent"}

LEMMA NotAsking ==
    ASSUME NEW r, NEW calls, NEW k, r.at \notin Asking
    PROVE  AskedOK(r, calls, k)
BY DEF AskedOK, Asking

(* A step of one handler that changes the calls of its own attempt at most.  *)
LEMMA TurnsMove ==
    ASSUME Inv, TurnsWithin, UNCHANGED kind, NEW h \in Handler,
           \A g \in Handler \ {h} : handler'[g] = handler[g],
           \A g \in Handler \ {h} : handler[g].at \in Asking =>
                wire'[handler[g].attempt] = wire[handler[g].attempt],
           row'.turns <= MaxToolTurns + 1,
           \A a \in 1 .. Len(wire') : Len(wire'[a]) <= MaxToolTurns + 1,
           AskedOK(handler'[h], wire', kind)
    PROVE  TurnsWithin'
<1>1. ASSUME NEW g \in Handler
      PROVE  AskedOK(handler'[g], wire', kind)
  <2>1. CASE g = h
    BY <2>1
  <2>2. CASE g # h
    <3>1. handler'[g] = handler[g] /\ AskedOK(handler[g], wire, kind)
      BY <2>2 DEF TurnsWithin
    <3>2. CASE handler[g].at \in Asking
      BY <2>2, <3>1, <3>2 DEF AskedOK
    <3>3. CASE handler[g].at \notin Asking
      BY <3>1, <3>3, NotAsking
    <3>4. QED
      BY <3>2, <3>3
  <2>3. QED
    BY <2>1, <2>2
<1>2. QED
  BY <1>1 DEF TurnsWithin

(* A step of one handler that asks nothing.                                 *)
LEMMA TurnsKept ==
    ASSUME Inv, TurnsWithin, UNCHANGED <<kind, wire>>, NEW h \in Handler,
           \A g \in Handler \ {h} : handler'[g] = handler[g],
           row'.turns <= MaxToolTurns + 1,
           AskedOK(handler'[h], wire, kind)
    PROVE  TurnsWithin'
<1>1. AskedOK(handler'[h], wire', kind)
  OBVIOUS
<1>2. QED
  BY <1>1, TurnsMove DEF TurnsWithin

(* The end of a session, however it comes.                                  *)
LEMMA Ends ==
    ASSUME Inv, NEW h \in Handler,
           \/ \E b \in BOOLEAN : Throw(h, b)
           \/ \E at \in Phase \ Asking : Goto(h, at)
           \/ handler' = [handler EXCEPT ![h] = Idle]
    PROVE  /\ handler'[h].at \notin Asking
           /\ \A g \in Handler \ {h} : handler'[g] = handler[g]
<1>1. handler \in [Handler -> Local] /\ handler[h] \in Local
  BY Ready DEF Typed
<1>2. ASSUME NEW b \in BOOLEAN, Throw(h, b)
      PROVE  /\ handler'[h].at \notin Asking
             /\ \A g \in Handler \ {h} : handler'[g] = handler[g]
  <2>1. handler'[h].at = "failing" /\ \A g \in Handler \ {h} : handler'[g] = handler[g]
    BY <1>1, <1>2 DEF Throw, Local
  <2>2. QED
    BY <2>1 DEF Asking
<1>3. ASSUME NEW at \in Phase \ Asking, Goto(h, at)
      PROVE  /\ handler'[h].at \notin Asking
             /\ \A g \in Handler \ {h} : handler'[g] = handler[g]
  BY <1>1, <1>3 DEF Goto, Local
<1>4. CASE handler' = [handler EXCEPT ![h] = Idle]
  BY <1>1, <1>4 DEF Idle, Asking
<1>5. QED
  BY <1>2, <1>3, <1>4

LEMMA TurnsEnd ==
    ASSUME Inv, TurnsWithin, UNCHANGED <<kind, wire>>, NEW h \in Handler,
           row'.turns = row.turns,
           \/ \E b \in BOOLEAN : Throw(h, b)
           \/ \E at \in Phase \ Asking : Goto(h, at)
           \/ handler' = [handler EXCEPT ![h] = Idle]
    PROVE  TurnsWithin'
BY Ends, NotAsking, TurnsKept DEF TurnsWithin

LEMMA ClaimTurns ==
    ASSUME Inv, TurnsWithin, NEW h \in Handler, Claim(h)
    PROVE  TurnsWithin'
<1>1. /\ MaxToolTurns \in Nat /\ row \in Row /\ Len(wire) \in Nat
      /\ wire \in Seq(Seq(Request)) /\ Len(wire) = Len(attempts)
  BY Ready, Basics, ConstantsAssumption DEF Typed
<1>2. CASE ClaimTerminal(h) \/ ClaimBusy(h) \/ ClaimFails(h) \/ ClaimError(h)
  <2>1. UNCHANGED <<kind, wire>> /\ handler' = [handler EXCEPT ![h] = Idle]
    BY <1>2 DEF ClaimTerminal, ClaimBusy, ClaimFails, ClaimError, Reply
  <2>2. row'.turns = row.turns
    BY <1>1, <1>2 DEF ClaimTerminal, ClaimBusy, ClaimFails, ClaimError, Row
  <2>3. QED
    BY <2>1, <2>2, TurnsEnd
<1>3. CASE ClaimAttempt(h)
  <2> DEFINE n == Len(attempts) + 1
  <2>1. /\ wire' = Append(wire, <<>>) /\ UNCHANGED kind
        /\ handler' = [handler EXCEPT ![h].at = "begin", ![h].attempt = n]
        /\ row'.turns = row.turns
    BY <1>1, <1>3 DEF ClaimAttempt, Row
  <2>2. <<>> \in Seq(Request)
    OBVIOUS
  <2>3. /\ Len(wire') = n /\ wire'[n] = <<>>
        /\ \A a \in 1 .. Len(wire) : wire'[a] = wire[a]
    BY <1>1, <2>1, <2>2, AddElement
  <2>4. \A a \in 1 .. Len(wire') : Len(wire'[a]) <= MaxToolTurns + 1
    <3>1. SUFFICES ASSUME NEW a \in 1 .. n
                   PROVE  Len(wire'[a]) <= MaxToolTurns + 1
      BY <2>3
    <3>2. CASE a = n
      BY <1>1, <2>3, <3>2
    <3>3. CASE a # n
      BY <1>1, <2>3, <3>3, SMTT(30) DEF TurnsWithin
    <3>4. QED
      BY <3>2, <3>3
  <2>5. /\ handler'[h].at = "begin" /\ handler'[h].attempt = n
        /\ \A g \in Handler \ {h} : handler'[g] = handler[g]
    BY <2>1, Ready DEF Typed, Local
  <2>6. AskedOK(handler'[h], wire', kind)
    BY <2>3, <2>5 DEF AskedOK
  <2>7. \A g \in Handler \ {h} : handler[g].at \in Asking =>
           wire'[handler[g].attempt] = wire[handler[g].attempt]
    <3>1. SUFFICES ASSUME NEW g \in Handler \ {h}, handler[g].at \in Asking
                   PROVE  handler[g].attempt \in 1 .. Len(wire)
      BY <2>3
    <3>2. QED
      BY <1>1, <3>1, Ready DEF RecordOK, Unclaimed, Asking
  <2>8. QED
    BY <2>1, <2>4, <2>5, <2>6, <2>7, TurnsMove DEF TurnsWithin
<1>4. QED
  BY <1>2, <1>3 DEF Claim

LEMMA BeginTurns ==
    ASSUME Inv, TurnsWithin, NEW h \in Handler, Begin(h)
    PROVE  TurnsWithin'
<1>1. UNCHANGED <<kind, wire, row>> /\ handler[h].at = "begin"
  BY DEF Begin, Running
<1>2. CASE Goto(h, "complete") \/ Throw(h, FALSE)
  BY <1>1, <1>2, TurnsEnd DEF Phase, Asking
<1>3. CASE handler' = [handler EXCEPT ![h].at = "loop", ![h].turns = row.turns,
                                      ![h].calls = row.calls]
  <2>1. /\ handler'[h].at = "loop" /\ handler'[h].attempt = handler[h].attempt
        /\ handler'[h].turns = row.turns
        /\ \A g \in Handler \ {h} : handler'[g] = handler[g]
    BY <1>3, Ready DEF Typed, Local
  <2>2. row.turns \in Nat /\ Len(wire[handler[h].attempt]) = 0
    BY <1>1, Ready DEF Typed, Row, TurnsWithin, AskedOK
  <2>3. AskedOK(handler'[h], wire, kind)
    BY <2>1, <2>2 DEF AskedOK
  <2>4. QED
    BY <1>1, <2>1, <2>3, TurnsKept DEF TurnsWithin
<1>4. QED
  BY <1>2, <1>3 DEF Begin

LEMMA AskTurns ==
    ASSUME Inv, TurnsWithin, NEW h \in Handler, Ask(h)
    PROVE  TurnsWithin'
<1> DEFINE counted == IF kind = "candidate" THEN handler[h].turns + 1 ELSE handler[h].turns
<1>1. /\ UNCHANGED <<kind, wire>> /\ handler[h].at = "loop" /\ MaxToolTurns \in Nat
      /\ handler[h].turns \in Nat /\ row \in Row
  BY Ready, ConstantsAssumption DEF Ask, Running, Local, Typed
<1>2. CASE UNCHANGED row /\ \E b \in BOOLEAN : Throw(h, b)
  BY <1>1, <1>2, TurnsEnd
<1>3. CASE /\ handler[h].turns <= MaxToolTurns
           /\ handler' = [handler EXCEPT ![h].at = "owned", ![h].final = Final(h),
                                         ![h].turns = counted]
           /\ row' = [row EXCEPT !.turns = IF kind = "candidate" THEN counted ELSE @]
  <2>1. /\ handler'[h].at = "owned" /\ handler'[h].attempt = handler[h].attempt
        /\ handler'[h].turns = counted
        /\ \A g \in Handler \ {h} : handler'[g] = handler[g]
    BY <1>3, Ready DEF Typed, Local
  <2>2. Len(wire[handler[h].attempt]) <= handler[h].turns
        /\ Len(wire[handler[h].attempt]) \in Nat
    <3>1. handler[h].attempt \in 1 .. Len(attempts)
      BY <1>1, Ready DEF RecordOK, Unclaimed
    <3>2. wire[handler[h].attempt] \in Seq(Request)
      BY <3>1, Ready, Basics
    <3>3. QED
      BY <1>1, <3>2 DEF TurnsWithin, AskedOK
  <2>3. Counted(handler'[h], kind) = handler[h].turns + 1
    BY <1>1, <2>1 DEF Counted
  <2>4. AskedOK(handler'[h], wire, kind)
    BY <1>1, <1>3, <2>1, <2>2, <2>3 DEF AskedOK
  <2>5. row'.turns <= MaxToolTurns + 1
    <3>1. row'.turns = IF kind = "candidate" THEN handler[h].turns + 1 ELSE row.turns
      BY <1>1, <1>3 DEF Row
    <3>2. QED
      BY <1>1, <1>3, <3>1 DEF TurnsWithin
  <2>6. QED
    BY <1>1, <2>1, <2>4, <2>5, TurnsKept
<1>4. QED
  BY <1>2, <1>3 DEF Ask

LEMMA ReserveTurns ==
    ASSUME Inv, TurnsWithin, NEW h \in Handler, Reserve(h)
    PROVE  TurnsWithin'
<1> DEFINE a == handler[h].attempt
           x == [outcome |-> "started", sent |-> FALSE]
<1>1. /\ UNCHANGED <<kind, row>> /\ handler[h].at = "owned" /\ MaxToolTurns \in Nat
      /\ a \in 1 .. Len(wire) /\ wire \in Seq(Seq(Request)) /\ wire[a] \in Seq(Request)
      /\ handler[h].turns \in Nat
  <2>1. a \in 1 .. Len(attempts) /\ handler[h].at = "owned"
    BY Ready DEF Reserve, Running, RecordOK, Unclaimed
  <2>2. QED
    BY <2>1, Ready, Basics, ConstantsAssumption DEF Reserve, Typed, Local
<1>2. CASE UNCHANGED wire /\ Throw(h, FALSE)
  BY <1>1, <1>2, TurnsEnd
<1>3. CASE wire' = [wire EXCEPT ![a] = Append(wire[a], x)] /\ Goto(h, "begun")
  <2>1. /\ handler'[h].at = "begun" /\ handler'[h].attempt = a
        /\ handler'[h].turns = handler[h].turns
        /\ \A g \in Handler \ {h} : handler'[g] = handler[g]
    BY <1>3, Ready DEF Goto, Typed, Local
  <2>2. x \in Request
    BY DEF Request, Outcome
  <2> HIDE DEF x
  <2>3. Append(wire[a], x) \in Seq(Request) /\ Len(Append(wire[a], x)) = Len(wire[a]) + 1
        /\ Len(wire[a]) \in Nat
    BY <1>1, <2>2
  <2>4. Len(wire') = Len(wire) /\ wire'[a] = Append(wire[a], x)
        /\ \A b \in 1 .. Len(wire) : b # a => wire'[b] = wire[b]
    BY <1>1, <1>3, <2>3, ExceptSeq
  <2>5. Len(wire[a]) < Counted(handler[h], kind) /\ Counted(handler[h], kind) <= MaxToolTurns + 1
        /\ Counted(handler[h], kind) \in Nat
    BY <1>1 DEF TurnsWithin, AskedOK, Counted
  <2>6. Counted(handler'[h], kind) = Counted(handler[h], kind)
    BY <2>1 DEF Counted
  <2>7. Len(wire'[a]) = Len(wire[a]) + 1
    BY <2>3, <2>4
  <2>8. AskedOK(handler'[h], wire', kind)
    BY <2>1, <2>3, <2>5, <2>6, <2>7 DEF AskedOK
  <2>9. ASSUME NEW b \in 1 .. Len(wire')
        PROVE  Len(wire'[b]) <= MaxToolTurns + 1
    <3>1. CASE b = a
      BY <1>1, <2>3, <2>5, <2>7, <3>1
    <3>2. CASE b # a
      BY <2>4, <2>9, <3>2 DEF TurnsWithin
    <3>3. QED
      BY <3>1, <3>2
  <2>10. \A g \in Handler \ {h} : handler[g].at \in Asking =>
            wire'[handler[g].attempt] = wire[handler[g].attempt]
    <3>1. SUFFICES ASSUME NEW g \in Handler \ {h}, handler[g].at \in Asking
                   PROVE  handler[g].attempt \in 1 .. Len(wire) /\ handler[g].attempt # a
      BY <2>4
    <3>2. handler[g].attempt \in 1 .. Len(attempts)
      BY <3>1, Ready DEF RecordOK, Unclaimed, Asking
    <3>3. handler[g].attempt # a
      BY <1>1, Ready DEF HandlersOK, Distinct
    <3>4. QED
      BY <3>2, <3>3, Ready DEF Typed
  <2>11. QED
    BY <1>1, <2>1, <2>8, <2>9, <2>10, TurnsMove DEF TurnsWithin
<1>4. QED
  BY <1>2, <1>3 DEF Reserve

(* An outcome that is recorded leaves the number of requests as it was.      *)
LEMMA RecordedLength ==
    ASSUME Inv, NEW h \in Handler, handler[h].at \in {"begun", "asserted", "sent"},
           NEW outcome \in Outcome, NEW sent \in BOOLEAN, Recorded(h, outcome, sent)
    PROVE  /\ Len(wire') = Len(wire)
           /\ \A b \in 1 .. Len(wire) : Len(wire'[b]) = Len(wire[b])
           /\ \A b \in 1 .. Len(wire) : b # handler[h].attempt => wire'[b] = wire[b]
<1> DEFINE a == handler[h].attempt
           n == Len(wire[a])
           x == [outcome |-> outcome, sent |-> sent]
           q == [wire[a] EXCEPT ![n] = x]
<1>1. a \in 1 .. Len(wire) /\ wire \in Seq(Seq(Request)) /\ wire[a] \in Seq(Request) /\ n > 0
  <2>1. a \in 1 .. Len(attempts) /\ n > 0
    BY Ready DEF RecordOK, Unclaimed
  <2>2. QED
    BY <2>1, Ready, Basics DEF Typed
<1>2. n \in Nat /\ n \in 1 .. n /\ x \in Request
  <2>1. n \in Nat
    BY <1>1, LenProperties
  <2>2. QED
    BY <1>1, <2>1 DEF Request
<1>3. wire' = [wire EXCEPT ![a] = q]
  BY DEF Recorded, Mine
<1> HIDE DEF x
<1>4. q \in Seq(Request) /\ Len(q) = n
  BY <1>1, <1>2, ExceptSeq
<1> HIDE DEF q
<1>5. Len(wire') = Len(wire) /\ wire'[a] = q
      /\ \A b \in 1 .. Len(wire) : b # a => wire'[b] = wire[b]
  BY <1>1, <1>3, <1>4, ExceptSeq
<1>6. QED
  BY <1>4, <1>5

(* A step that records an outcome, and what the handler goes on with.        *)
LEMMA TurnsRecorded ==
    ASSUME Inv, TurnsWithin, UNCHANGED kind, NEW h \in Handler,
           handler[h].at \in {"begun", "asserted", "sent"},
           NEW outcome \in Outcome, NEW sent \in BOOLEAN, Recorded(h, outcome, sent),
           row'.turns = row.turns,
           \A g \in Handler \ {h} : handler'[g] = handler[g],
           \/ handler'[h].at \notin Asking
           \/ /\ handler'[h].at \in {"sent", "loop", "tool"}
              /\ handler'[h].attempt = handler[h].attempt
              /\ IF handler'[h].at = "sent" THEN handler'[h].turns = handler[h].turns
                 ELSE handler'[h].turns = Counted(handler[h], kind)
    PROVE  TurnsWithin'
<1> DEFINE a == handler[h].attempt
<1>1. /\ Len(wire') = Len(wire)
      /\ \A b \in 1 .. Len(wire) : Len(wire'[b]) = Len(wire[b])
      /\ \A b \in 1 .. Len(wire) : b # a => wire'[b] = wire[b]
  BY RecordedLength
<1>2. \A g \in Handler : handler[g].at \in Asking => handler[g].attempt \in 1 .. Len(wire)
  BY Ready DEF RecordOK, Unclaimed, Asking, Typed
<1>3. \A g \in Handler \ {h} : handler[g].at \in Asking => handler[g].attempt # a
  BY <1>2, Ready DEF HandlersOK, Distinct
<1>4. \A g \in Handler \ {h} : handler[g].at \in Asking =>
         wire'[handler[g].attempt] = wire[handler[g].attempt]
  BY <1>1, <1>2, <1>3
<1>5. \A b \in 1 .. Len(wire') : Len(wire'[b]) <= MaxToolTurns + 1
  BY <1>1 DEF TurnsWithin
<1>6. AskedOK(handler'[h], wire', kind)
  <2>1. CASE handler'[h].at \notin Asking
    BY <2>1, NotAsking
  <2>2. CASE handler'[h].at \in Asking
    <3>1. a \in 1 .. Len(wire)
      BY <1>2 DEF Asking
    <3>2. Len(wire'[a]) = Len(wire[a])
      BY <1>1, <3>1
    <3>3. Len(wire[a]) <= Counted(handler[h], kind) /\ Counted(handler[h], kind) <= MaxToolTurns + 1
      BY DEF TurnsWithin, AskedOK
    <3>4. CASE handler'[h].at = "sent"
      <4>1. Counted(handler'[h], kind) = Counted(handler[h], kind)
        BY <2>2, <3>4 DEF Counted
      <4>2. QED
        BY <2>2, <3>2, <3>3, <3>4, <4>1 DEF AskedOK
    <3>5. CASE handler'[h].at \in {"loop", "tool"}
      BY <2>2, <3>2, <3>3, <3>5 DEF AskedOK
    <3>6. QED
      BY <2>2, <3>4, <3>5
  <2>3. QED
    BY <2>1, <2>2
<1>7. QED
  BY <1>4, <1>5, <1>6, TurnsMove DEF TurnsWithin

LEMMA SendTurns ==
    ASSUME Inv, TurnsWithin, NEW h \in Handler, AssertOwnership(h) \/ Send(h)
    PROVE  TurnsWithin'
<1>1. UNCHANGED <<kind, row>> /\ handler[h].at \in {"begun", "asserted"}
  BY DEF AssertOwnership, Send, Running
<1>2. CASE UNCHANGED wire /\ Throw(h, FALSE)
  BY <1>1, <1>2, TurnsEnd
<1>3. ASSUME NEW outcome \in Outcome, NEW sent \in BOOLEAN, Recorded(h, outcome, sent),
             Throw(h, FALSE)
      PROVE  TurnsWithin'
  <2>1. handler'[h].at \notin Asking /\ \A g \in Handler \ {h} : handler'[g] = handler[g]
    BY <1>3, Ends
  <2>2. QED
    BY <1>1, <1>3, <2>1, TurnsRecorded
<1>4. ASSUME NEW at \in {"asserted", "sent"}, Goto(h, at)
      PROVE  /\ handler'[h].at = at /\ handler'[h].attempt = handler[h].attempt
             /\ handler'[h].turns = handler[h].turns
             /\ \A g \in Handler \ {h} : handler'[g] = handler[g]
  BY <1>4, Ready DEF Goto, Typed, Local
<1>5. CASE UNCHANGED wire /\ Goto(h, "asserted")
  <2>1. Counted(handler'[h], kind) = Counted(handler[h], kind)
    BY <1>4, <1>5 DEF Counted
  <2>2. AskedOK(handler'[h], wire, kind)
    BY <1>1, <1>4, <1>5, <2>1 DEF TurnsWithin, AskedOK
  <2>3. QED
    BY <1>1, <1>4, <1>5, <2>2, TurnsKept DEF TurnsWithin
<1>6. ASSUME NEW outcome \in Outcome, NEW sent \in BOOLEAN, Recorded(h, outcome, sent),
             Goto(h, "sent")
      PROVE  TurnsWithin'
  BY <1>1, <1>4, <1>6, TurnsRecorded
<1>7. {"started", "failed", "ambiguous"} \subseteq Outcome /\ TRUE \in BOOLEAN /\ FALSE \in BOOLEAN
  BY DEF Outcome
<1>8. QED
  BY <1>2, <1>3, <1>5, <1>6, <1>7 DEF AssertOwnership, Send

LEMMA AnswerTurns ==
    ASSUME Inv, TurnsWithin, NEW h \in Handler, Answer(h)
    PROVE  TurnsWithin'
<1>1. UNCHANGED kind /\ handler[h].at = "sent" /\ row \in Row /\ kind \in Kind
  BY Ready DEF Answer, Running, Typed
<1>2. row'.turns = row.turns
  BY <1>1 DEF Answer, AnswerLost, AnswerRejected, AnswerConcludes, AnswerCallsTool, Row
<1>3. "succeeded" \in Outcome /\ "ambiguous" \in Outcome /\ TRUE \in BOOLEAN
  BY DEF Outcome
<1>4. CASE UNCHANGED wire /\ \E b \in BOOLEAN : Throw(h, b)
  BY <1>1, <1>2, <1>4, TurnsEnd
<1>5. ASSUME NEW outcome \in {"succeeded", "ambiguous"}, Recorded(h, outcome, TRUE), Throw(h, FALSE)
      PROVE  TurnsWithin'
  <2>1. handler'[h].at \notin Asking /\ \A g \in Handler \ {h} : handler'[g] = handler[g]
    BY <1>5, Ends
  <2>2. QED
    BY <1>1, <1>2, <1>3, <1>5, <2>1, TurnsRecorded
<1>6. Answered(h) = Counted(handler[h], kind)
  BY <1>1 DEF Answered, Counted, Kind
<1>7. CASE AnswerConcludes(h)
  <2>1. /\ Recorded(h, "succeeded", TRUE) /\ handler'[h].at = "concluded"
        /\ \A g \in Handler \ {h} : handler'[g] = handler[g]
    <3>1. PICK cites, abstains :
             handler' = [handler EXCEPT ![h].at = "concluded", ![h].cites = cites,
                                        ![h].abstains = abstains, ![h].turns = Answered(h)]
      BY <1>7 DEF AnswerConcludes
    <3>2. handler'[h].at = "concluded" /\ \A g \in Handler \ {h} : handler'[g] = handler[g]
      BY <3>1, Ready DEF Typed, Local
    <3>3. QED
      BY <1>7, <3>2 DEF AnswerConcludes
  <2>2. handler'[h].at \notin Asking
    BY <2>1 DEF Asking
  <2>3. QED
    BY <1>1, <1>2, <1>3, <2>1, <2>2, TurnsRecorded
<1>8. CASE /\ Recorded(h, "succeeded", TRUE)
           /\ \/ handler' = [handler EXCEPT ![h].at = "tool", ![h].turns = Answered(h),
                                            ![h].calls = @ + 1]
              \/ handler' = [handler EXCEPT ![h].at = "loop", ![h].turns = Answered(h),
                                            ![h].final = TRUE]
  <2>1. /\ handler'[h].at \in {"loop", "tool"} /\ handler'[h].attempt = handler[h].attempt
        /\ handler'[h].turns = Counted(handler[h], kind)
        /\ \A g \in Handler \ {h} : handler'[g] = handler[g]
    BY <1>6, <1>8, Ready DEF Typed, Local
  <2>2. handler'[h].at \in {"sent", "loop", "tool"} /\ handler'[h].at # "sent"
    BY <2>1
  <2>3. QED
    BY <1>1, <1>2, <1>3, <1>8, <2>1, <2>2, TurnsRecorded
<1>9. QED
  <2>1. CASE AnswerLost(h)
    BY <1>4, <1>5, <2>1 DEF AnswerLost
  <2>2. CASE AnswerRejected(h)
    BY <1>5, <2>2 DEF AnswerRejected
  <2>3. CASE AnswerCallsTool(h)
    BY <1>5, <1>8, <2>3 DEF AnswerCallsTool
  <2>4. QED
    BY <1>7, <2>1, <2>2, <2>3 DEF Answer

(* A handler that stays in its session, at a point where it has asked what   *)
(* it had asked before.                                                     *)
LEMMA TurnsOnward ==
    ASSUME Inv, TurnsWithin, UNCHANGED <<kind, wire, row>>, NEW h \in Handler,
           handler[h].at \in {"tool", "tooling"},
           handler'[h].at \in {"loop", "tool", "tooling"},
           handler'[h].attempt = handler[h].attempt, handler'[h].turns = handler[h].turns,
           \A g \in Handler \ {h} : handler'[g] = handler[g]
    PROVE  TurnsWithin'
<1>1. Len(wire[handler[h].attempt]) <= handler[h].turns
  BY DEF TurnsWithin, AskedOK
<1>2. AskedOK(handler'[h], wire, kind)
  BY <1>1 DEF AskedOK
<1>3. QED
  BY <1>2, TurnsKept DEF TurnsWithin

LEMMA OperationTurns ==
    ASSUME Inv, TurnsWithin, NEW h \in Handler, ReserveOperation(h) \/ CompleteOperation(h)
    PROVE  TurnsWithin'
<1>1. /\ UNCHANGED <<kind, wire, row>> /\ handler[h].at \in {"tool", "tooling"}
  BY DEF ReserveOperation, CompleteOperation, Running
<1>2. CASE \E b \in BOOLEAN : Throw(h, b)
  BY <1>1, <1>2, TurnsEnd
<1>3. ASSUME NEW at \in {"loop", "tooling"}, NEW op, NEW seen, NEW final,
             \/ Goto(h, at)
             \/ handler' = [handler EXCEPT ![h].at = at, ![h].op = op]
             \/ handler' = [handler EXCEPT ![h].at = at, ![h].seen = seen]
             \/ handler' = [handler EXCEPT ![h].at = at, ![h].final = final]
      PROVE  TurnsWithin'
  <2>1. /\ handler'[h].at = at /\ handler'[h].attempt = handler[h].attempt
        /\ handler'[h].turns = handler[h].turns
        /\ \A g \in Handler \ {h} : handler'[g] = handler[g]
    BY <1>3, Ready DEF Goto, Typed, Local
  <2>2. handler'[h].at \in {"loop", "tool", "tooling"}
    BY <2>1
  <2>3. QED
    BY <1>1, <2>1, <2>2, TurnsOnward
<1>4. CASE ReserveOperation(h)
  BY <1>2, <1>3, <1>4 DEF ReserveOperation
<1>5. CASE CompleteOperation(h)
  <2>1. CASE \E b \in BOOLEAN : Throw(h, b)
    BY <1>2, <2>1
  <2>2. CASE Goto(h, "loop")
    BY <1>3, <2>2
  <2>3. CASE handler' = [handler EXCEPT ![h].at = "loop", ![h].seen = @ \cup {handler[h].op}]
    BY <1>3, <2>3
  <2>4. QED
    BY <1>5, <2>1, <2>2, <2>3 DEF CompleteOperation
<1>6. QED
  BY <1>4, <1>5

(* Flags of a record do not matter.                                         *)
LEMMA FlagTurns ==
    ASSUME Inv, TurnsWithin, UNCHANGED <<kind, wire, row>>, NEW h \in Handler, NEW x, NEW y,
           \/ handler' = [handler EXCEPT ![h].aborted = x]
           \/ handler' = [handler EXCEPT ![h].stalled = x]
           \/ handler' = [handler EXCEPT ![h].stalled = x, ![h].aborted = y]
    PROVE  TurnsWithin'
<1>1. /\ handler'[h].at = handler[h].at /\ handler'[h].attempt = handler[h].attempt
      /\ handler'[h].turns = handler[h].turns
      /\ \A g \in Handler \ {h} : handler'[g] = handler[g]
  BY Ready DEF Typed, Local
<1>2. Counted(handler'[h], kind) = Counted(handler[h], kind)
  BY <1>1 DEF Counted
<1>3. AskedOK(handler'[h], wire, kind)
  BY <1>1, <1>2 DEF TurnsWithin, AskedOK
<1>4. QED
  BY <1>1, <1>3, TurnsKept DEF TurnsWithin

LEMMA TurnsWithinNext == Inv /\ TurnsWithin /\ [Next]_vars => TurnsWithin'
<1> SUFFICES ASSUME Inv, TurnsWithin, [Next]_vars
             PROVE  TurnsWithin'
  OBVIOUS
<1>1. row \in Row
  BY DEF Inv, Typed
<1>2. CASE UNCHANGED <<kind, wire, handler>> /\ row'.turns = row.turns
  BY <1>2 DEF TurnsWithin
<1>3. CASE UNCHANGED vars \/ Start \/ Retire \/ Lapse \/ Expire
  BY <1>1, <1>2, <1>3 DEF vars, Start, Retire, Lapse, Expire, Row
<1>4. ASSUME NEW h \in Handler, Deliver(h)
      PROVE  TurnsWithin'
  BY <1>4, TurnsEnd DEF Deliver, Phase, Asking
<1>5. ASSUME NEW h \in Handler,
             Concluded(h) \/ Propose(h) \/ Freeze(h) \/ Complete(h) \/ Fail(h) \/ Crash(h)
      PROVE  TurnsWithin'
  <2>1. UNCHANGED <<kind, wire>> /\ row'.turns = row.turns
    BY <1>1, <1>5 DEF Concluded, Propose, Freeze, Complete, Fail, Crash, Row
  <2>2. (artifact = "frozen") \in BOOLEAN
    OBVIOUS
  <2>3. \/ \E b \in BOOLEAN : Throw(h, b)
        \/ Goto(h, "complete") \/ Goto(h, "propose") \/ Goto(h, "freezing")
        \/ handler' = [handler EXCEPT ![h] = Idle]
    BY <1>5, <2>2 DEF Concluded, Propose, Freeze, Complete, Fail, Crash, Reply
  <2>4. {"complete", "propose", "freezing"} \subseteq Phase \ Asking
    BY DEF Phase, Asking
  <2>5. QED
    BY <2>1, <2>3, <2>4, TurnsEnd
<1>6. ASSUME NEW h \in Handler, Abort(h) \/ Stall(h) \/ Resume(h)
      PROVE  TurnsWithin'
  BY <1>6, FlagTurns DEF Abort, Stall, Resume
<1>7. QED
  BY <1>3, <1>4, <1>5, <1>6, ClaimTurns, BeginTurns, AskTurns, ReserveTurns, SendTurns,
     AnswerTurns, OperationTurns DEF Next, Step

(* The job and the row agree, and a job nobody has taken is untouched.       *)
QueueOK ==
    /\ kind \in Kinds /\ job \in Job /\ faults \in 0 .. MaxFaults
    /\ job.state = "active" => job.holder \in Handler
    /\ row.state = "none" <=> job.state = "absent"
    /\ row.state = "cancelled" => job.state = "cancelled"
    /\ job.state \in {"absent", "created", "cancelled"} =>
          attempts = <<>> /\ \A h \in Handler : handler[h].at = "idle"

(* The queue never returns a job to the states it has before its delivery.   *)
LEMMA SettledQueue ==
    ASSUME QueueOK, NEW status \in {"completed", "failed"}, Settled(status)
    PROVE  /\ job' \in Job
           /\ job'.state = "active" => job'.holder \in Handler
           /\ job.state \notin {"absent", "created", "cancelled"} =>
                 job'.state \notin {"absent", "created", "cancelled"}
<1>1. CASE job.state # "active"
  BY <1>1 DEF QueueOK, Settled
<1>2. CASE job.state = "active"
  <2>1. job \in Job /\ job.retries \in Nat
    BY DEF QueueOK, Job
  <2>2. CASE status = "completed"
    <3>1. job' = [job EXCEPT !.state = "completed"]
      BY <1>2, <2>2 DEF Settled
    <3>2. job' \in Job /\ job'.state = "completed"
      BY <2>1, <3>1 DEF Job
    <3>3. QED
      BY <3>2
  <2>3. CASE status # "completed" /\ job.retries < RetryLimit
    <3>1. job' = [job EXCEPT !.state = "retry", !.retries = @ + 1]
      BY <1>2, <2>3 DEF Settled
    <3>2. job.retries + 1 \in Nat
      BY <2>1
    <3>3. job' = [[job EXCEPT !.state = "retry"] EXCEPT !.retries = job.retries + 1]
      BY <2>1, <3>1 DEF Job
    <3>4. [job EXCEPT !.state = "retry"] \in Job /\ [job EXCEPT !.state = "retry"].state = "retry"
      BY <2>1 DEF Job
    <3>5. job' \in Job /\ job'.state = "retry"
      BY <3>2, <3>3, <3>4 DEF Job
    <3>6. QED
      BY <3>5
  <2>4. CASE status # "completed" /\ ~(job.retries < RetryLimit)
    <3>1. job' = [job EXCEPT !.state = "failed"]
      BY <1>2, <2>4 DEF Settled
    <3>2. job' \in Job /\ job'.state = "failed"
      BY <2>1, <3>1 DEF Job
    <3>3. QED
      BY <3>2
  <2>5. QED
    BY <2>2, <2>3, <2>4
<1>3. QED
  BY <1>1, <1>2

(* Once the job is delivered, steps have to keep it delivered.              *)
LEMMA QueueMoves ==
    ASSUME Inv, QueueOK, NEW h \in Handler, handler[h].at # "idle",
           UNCHANGED kind, faults' \in 0 .. MaxFaults,
           row'.state \in {row.state, "working", "done", "abstained", "failed"},
           row.state = "cancelled" => row'.state = "cancelled",
           UNCHANGED job \/ Settled("completed") \/ Settled("failed")
    PROVE  QueueOK'
<1>1. job.state \notin {"absent", "created", "cancelled"} /\ row.state # "none" /\ row.state # "cancelled"
  BY DEF QueueOK
<1>2. /\ job' \in Job
      /\ job'.state = "active" => job'.holder \in Handler
      /\ job'.state \notin {"absent", "created", "cancelled"}
  BY <1>1, SettledQueue DEF QueueOK
<1>3. row'.state # "none" /\ row'.state # "cancelled"
  BY <1>1
<1>4. QED
  BY <1>2, <1>3 DEF QueueOK

LEMMA ClaimQueue ==
    ASSUME Inv, QueueOK, NEW h \in Handler, Claim(h)
    PROVE  QueueOK'
<1>1. row \in Row /\ handler[h].at # "idle" /\ faults \in 0 .. MaxFaults /\ MaxFaults \in Nat
  BY Ready, ConstantsAssumption DEF Claim, Running, Typed, QueueOK
<1>2. CASE ClaimTerminal(h) \/ ClaimBusy(h)
  BY <1>1, <1>2, QueueMoves DEF ClaimTerminal, ClaimBusy, Reply
<1>3. CASE ClaimFails(h)
  <2>1. row'.state = "failed" /\ row.state # "cancelled"
    BY <1>1, <1>3 DEF ClaimFails, Claimable, Row
  <2>2. QED
    BY <1>1, <1>3, <2>1, QueueMoves DEF ClaimFails, Reply
<1>4. CASE ClaimAttempt(h)
  <2>1. row'.state = "working" /\ row.state # "cancelled"
    BY <1>1, <1>4 DEF ClaimAttempt, Claimable, Row
  <2>2. QED
    BY <1>1, <1>4, <2>1, QueueMoves DEF ClaimAttempt
<1>5. CASE ClaimError(h)
  <2>1. faults' \in 0 .. MaxFaults
    BY <1>1, <1>5 DEF ClaimError, Fault
  <2>2. QED
    BY <1>1, <1>5, <2>1, QueueMoves DEF ClaimError, Reply
<1>6. QED
  BY <1>2, <1>3, <1>4, <1>5 DEF Claim

LEMMA VerdictQueue ==
    ASSUME Inv, QueueOK, NEW h \in Handler, Complete(h) \/ Fail(h)
    PROVE  QueueOK'
<1>1. row \in Row /\ handler[h].at # "idle" /\ UNCHANGED kind
      /\ faults \in 0 .. MaxFaults /\ MaxFaults \in Nat
  BY Ready, ConstantsAssumption DEF Complete, Fail, Running, Typed, QueueOK
<1>2. faults' \in 0 .. MaxFaults
  <2>1. UNCHANGED faults \/ Fault
    BY DEF Complete, Fail
  <2>2. QED
    BY <1>1, <2>1 DEF Fault
<1>3. UNCHANGED row \/ (OwnsJob(h) /\ row'.state \in {"done", "abstained", "failed"})
  BY <1>1 DEF Complete, Fail, Row
<1>4. OwnsJob(h) => row.state # "cancelled"
  BY DEF OwnsJob
<1>5. UNCHANGED job \/ Settled("completed") \/ Settled("failed")
  BY DEF Complete, Fail, Reply
<1>6. QED
  BY <1>1, <1>2, <1>3, <1>4, <1>5, QueueMoves

LEMMA QueueNext == Inv /\ QueueOK /\ [Next]_vars => QueueOK'
<1> SUFFICES ASSUME Inv, QueueOK, [Next]_vars
             PROVE  QueueOK'
  OBVIOUS
<1>1. row \in Row /\ handler \in [Handler -> Local] /\ MaxFaults \in Nat
      /\ faults \in 0 .. MaxFaults
  BY ConstantsAssumption DEF Inv, Typed, QueueOK
<1>2. CASE UNCHANGED vars
  BY <1>2 DEF vars, QueueOK
<1>3. CASE Start
  BY <1>1, <1>3 DEF Start, QueueOK, Row, Job
<1>4. CASE Retire
  BY <1>1, <1>4 DEF Retire, QueueOK, Row, Job
<1>5. CASE Lapse
  <2>1. Active = {} \/ job.state \notin {"absent", "created", "cancelled"}
    BY DEF Active, QueueOK
  <2>2. QED
    BY <1>5, <2>1 DEF Lapse, QueueOK
<1>6. CASE Expire
  BY <1>1, <1>6, SettledQueue DEF Expire, QueueOK
<1>7. ASSUME NEW h \in Handler, Deliver(h)
      PROVE  QueueOK'
  BY <1>1, <1>7 DEF Deliver, QueueOK, Job
<1>8. ASSUME NEW h \in Handler,
             \/ Begin(h) \/ Ask(h) \/ Reserve(h) \/ AssertOwnership(h) \/ Send(h) \/ Answer(h)
             \/ ReserveOperation(h) \/ CompleteOperation(h) \/ Concluded(h) \/ Propose(h)
             \/ Freeze(h) \/ Crash(h)
      PROVE  QueueOK'
  <2>1. handler[h].at # "idle" /\ UNCHANGED <<kind, job>>
    BY <1>8 DEF Begin, Ask, Reserve, AssertOwnership, Send, Answer, ReserveOperation, CompleteOperation,
       Concluded, Propose, Freeze, Crash, Running
  <2>2. row'.state = row.state
    BY <1>1, <1>8 DEF Begin, Ask, Reserve, AssertOwnership, Send, Answer, AnswerLost, AnswerRejected,
       AnswerConcludes, AnswerCallsTool, ReserveOperation, CompleteOperation, Concluded, Propose,
       Freeze, Crash, Row
  <2>3. faults' \in 0 .. MaxFaults
    <3>1. UNCHANGED faults \/ Fault
      BY <1>8 DEF Begin, Ask, Reserve, AssertOwnership, Send, Answer, AnswerLost, AnswerRejected,
         AnswerConcludes, AnswerCallsTool, ReserveOperation, CompleteOperation, Concluded, Propose,
         Freeze, Crash
    <3>2. QED
      BY <1>1, <3>1, SMTT(30) DEF Fault
  <2>4. QED
    BY <2>1, <2>2, <2>3, QueueMoves
<1>9. ASSUME NEW h \in Handler, Abort(h) \/ Stall(h) \/ Resume(h)
      PROVE  QueueOK'
  <2>1. UNCHANGED <<kind, row, attempts, job>> /\ \A g \in Handler : handler'[g].at = handler[g].at
    BY <1>1, <1>9 DEF Abort, Stall, Resume, Local
  <2>2. faults' \in 0 .. MaxFaults
    BY <1>1, <1>9 DEF Abort, Stall, Resume, Fault
  <2>3. QED
    BY <2>1, <2>2 DEF QueueOK
<1>10. QED
  BY <1>2, <1>3, <1>4, <1>5, <1>6, <1>7, <1>8, <1>9, ClaimQueue, VerdictQueue DEF Next, Step

LEMMA InitBudget == Init => LogWithin /\ TurnsWithin /\ QueueOK
<1> SUFFICES ASSUME Init
             PROVE  LogWithin /\ TurnsWithin /\ QueueOK
  OBVIOUS
<1>1. MaxBytes \in Nat /\ MaxOperations \in Nat /\ MaxToolTurns \in Nat /\ MaxFaults \in Nat
  BY ConstantsAssumption
<1>2. events = <<>> /\ events \in Seq(Event) /\ Len(events) = 0
  BY DEF Init
<1>3. Blocks(events) = {}
  <2>1. DOMAIN events = {}
    BY DEF Init
  <2>2. QED
    BY <2>1 DEF Blocks
<1>4. LogWithin
  BY <1>1, <1>2, <1>3, FS_EmptySet DEF LogWithin, BytesOf
<1>5. \A h \in Handler : handler[h] = Idle /\ handler[h].at = "idle"
  BY DEF Init, Idle
<1>6. TurnsWithin
  <2>1. \A h \in Handler : AskedOK(handler[h], wire, kind)
    BY <1>5, NotAsking DEF Asking
  <2>2. row.turns = 0 /\ Len(wire) = 0
    BY DEF Init
  <2>3. QED
    BY <1>1, <2>1, <2>2 DEF TurnsWithin
<1>7. QueueOK
  BY <1>1, <1>5 DEF Init, QueueOK, Job
<1>8. QED
  BY <1>4, <1>6, <1>7

LEMMA SomeOf ==
    ASSUME NEW n \in Nat, NEW S, S \subseteq 1 .. n
    PROVE  Cardinality(S) \in Nat /\ Cardinality(S) <= n
<1>1. IsFiniteSet(1 .. n) /\ Cardinality(1 .. n) = n
  BY FS_Interval
<1>2. QED
  BY <1>1, FS_Subset, FS_CardinalityType

LEMMA SendsWithin ==
    ASSUME Inv, TurnsWithin, NEW a \in DOMAIN wire
    PROVE  Sends(a) <= MaxToolTurns + 1
<1> DEFINE S == {t \in DOMAIN wire[a] : wire[a][t].sent}
<1>1. a \in 1 .. Len(wire) /\ Len(wire[a]) \in Nat /\ S \subseteq 1 .. Len(wire[a])
  BY Basics DEF Inv
<1>2. MaxToolTurns \in Nat /\ Len(wire[a]) <= MaxToolTurns + 1
  BY <1>1, ConstantsAssumption DEF TurnsWithin
<1>3. Sends(a) = Cardinality(S)
  BY DEF Sends
<1> HIDE DEF S
<1>4. Cardinality(S) \in Nat /\ Cardinality(S) <= Len(wire[a])
  BY <1>1, SomeOf
<1>5. QED
  BY <1>1, <1>2, <1>3, <1>4

(* In every reachable state the rows of a job have their types, all its      *)
(* attempts together stay within the bytes and operations of the context,   *)
(* no session sends more than its turns, and a decided job owns nothing.    *)
THEOREM BudgetsKept == Spec => []Consistent
<1>1. Init => LogWithin /\ TurnsWithin /\ QueueOK
  BY InitBudget
<1>2. /\ Inv /\ LogWithin /\ TurnsWithin /\ QueueOK /\ [Next]_vars
      => (LogWithin /\ TurnsWithin /\ QueueOK)'
  BY LogWithinNext, TurnsWithinNext, QueueNext
<1>3. Inv /\ LogWithin /\ TurnsWithin /\ QueueOK => Consistent
  <2> SUFFICES ASSUME Inv, LogWithin, TurnsWithin, QueueOK
               PROVE  Consistent
    OBVIOUS
  <2>1. TypeOK
    BY DEF TypeOK, Inv, Typed, LogWithin, QueueOK
  <2>2. BudgetsHold
    BY SendsWithin DEF BudgetsHold, LogWithin, TurnsWithin
  <2>3. DecidedIsQuiet
    <3>1. row.state \in Decided => Active = {}
      BY Basics DEF Inv, RowsOK, Active, Decided
    <3>2. row.state = "cancelled" => attempts = <<>> /\ \A h \in Handler : handler[h].at = "idle"
      BY DEF QueueOK
    <3>3. QED
      BY <3>1, <3>2 DEF DecidedIsQuiet
  <2>4. QED
    BY <2>1, <2>2, <2>3 DEF Consistent
<1>4. QED
  BY <1>1, <1>2, <1>3, Invariance, PTL DEF Spec

-----------------------------------------------------------------------------
(* The money                                                               *)

ReadyNow == {Latest(h) : h \in {g \in Handler : MaySend(g)}}
SentNow == UNION {{<<a, t>> : t \in {u \in DOMAIN wire[a] : wire[a][u].sent}} : a \in DOMAIN wire}
ClosedUp == row.state \in Decided
PaidNext == Paid!Next \/ UNCHANGED <<ReadyNow, SentNow, ClosedUp>>

MayOf(r, rows) ==
    ~r.aborted /\ ((r.at = "begun" /\ Holds(r, rows)) \/ r.at = "asserted")

LEMMA MaySendIs ==
    ASSUME Typed, NEW h \in Handler
    PROVE  MaySend(h) <=> MayOf(handler[h], attempts)
<1>1. DOMAIN attempts = 1 .. Len(attempts)
  BY Basics
<1>2. QED
  BY <1>1 DEF MaySend, MayOf, Owns, Holds

LEMMA MaySendNext ==
    ASSUME Typed', NEW h \in Handler
    PROVE  MaySend(h)' <=> MayOf(handler'[h], attempts')
<1>1. DOMAIN attempts' = 1 .. Len(attempts')
  BY DEF Typed
<1>2. QED
  BY <1>1 DEF MaySend, MayOf, Owns, Holds

(* Whoever may send is entitled to, so there is one at most.                 *)
LEMMA MaySendEntitled ==
    ASSUME Inv, NEW h \in Handler, MaySend(h)
    PROVE  /\ Entitled(handler[h], attempts, artifact)
           /\ handler[h].at \in {"begun", "asserted"}
           /\ handler[h].attempt \in 1 .. Len(attempts)
           /\ ReadyNow = {Latest(h)}
<1>1. MayOf(handler[h], attempts) /\ handler[h].at \in {"begun", "asserted"}
  BY Ready, MaySendIs DEF MayOf
<1>2. Entitled(handler[h], attempts, artifact)
  BY <1>1 DEF MayOf, Entitled, Pending, Buying, Session
<1>3. handler[h].attempt \in 1 .. Len(attempts)
  BY <1>1, Ready DEF RecordOK, Unclaimed
<1>4. ASSUME NEW g \in Handler, MaySend(g)
      PROVE  g = h
  <2>1. Entitled(handler[g], attempts, artifact)
    BY <1>4, Ready, MaySendIs DEF MayOf, Entitled, Pending, Buying, Session
  <2>2. QED
    BY <1>2, <2>1, Ready DEF HandlersOK
<1>5. QED
  BY <1>1, <1>2, <1>3, <1>4 DEF ReadyNow

LEMMA SentIs ==
    ASSUME Typed, NEW call
    PROVE  call \in SentNow <=> \E a \in 1 .. Len(attempts) : \E t \in 1 .. Len(wire[a]) :
                                   wire[a][t].sent /\ call = <<a, t>>
<1>1. DOMAIN wire = 1 .. Len(attempts)
      /\ \A a \in 1 .. Len(attempts) : DOMAIN wire[a] = 1 .. Len(wire[a])
  BY Basics
<1>2. QED
  BY <1>1 DEF SentNow

LEMMA SentIsNext ==
    ASSUME Typed', NEW call
    PROVE  call \in SentNow' <=> \E a \in 1 .. Len(attempts') : \E t \in 1 .. Len(wire'[a]) :
                                    wire'[a][t].sent /\ call = <<a, t>>
<1>1. DOMAIN wire' = 1 .. Len(attempts')
      /\ \A a \in 1 .. Len(attempts') : DOMAIN wire'[a] = 1 .. Len(wire'[a])
  BY DEF Typed
<1>2. QED
  BY <1>1 DEF SentNow

(* Nothing is sent: the job may be decided, or the call on record withdrawn. *)
LEMMA NothingSent ==
    ASSUME SentNow' = SentNow, ClosedUp => ClosedUp', ReadyNow' = ReadyNow
    PROVE  PaidNext
<1>1. ClosedUp \in BOOLEAN /\ ClosedUp' \in BOOLEAN
  BY DEF ClosedUp
<1>2. CASE ClosedUp' = ClosedUp
  BY <1>2 DEF PaidNext
<1>3. CASE ~ClosedUp /\ ClosedUp'
  <2>1. Paid!Close
    BY <1>3 DEF Paid!Close, ClosedUp, ReadyNow, SentNow
  <2>2. QED
    BY <2>1 DEF PaidNext, Paid!Next
<1>4. QED
  BY <1>1, <1>2, <1>3

LEMMA ReadySame ==
    ASSUME \A g \in Handler : MaySend(g)' <=> MaySend(g),
           \A g \in Handler : MaySend(g) => Latest(g)' = Latest(g)
    PROVE  ReadyNow' = ReadyNow
BY DEF ReadyNow

LEMMA Withdrawn ==
    ASSUME Inv, SentNow' = SentNow, ClosedUp' = ClosedUp,
           \A g \in Handler : MaySend(g)' => MaySend(g) /\ Latest(g)' = Latest(g)
    PROVE  PaidNext
<1>1. CASE \E g \in Handler : MaySend(g)'
  <2>1. PICK g \in Handler : MaySend(g)'
    BY <1>1
  <2>2. ReadyNow = {Latest(g)} /\ Latest(g)' = Latest(g)
    BY <2>1, MaySendEntitled
  <2>3. \A f \in Handler : MaySend(f)' => Latest(f)' = Latest(g)
    <3>1. SUFFICES ASSUME NEW f \in Handler, MaySend(f)'
                   PROVE  Latest(f) = Latest(g)
      OBVIOUS
    <3>2. ReadyNow = {Latest(f)}
      BY <3>1, MaySendEntitled
    <3>3. QED
      BY <2>2, <3>2
  <2>4. ReadyNow' = {Latest(g)}
    BY <2>1, <2>2, <2>3 DEF ReadyNow
  <2>5. QED
    BY <2>2, <2>4, NothingSent
<1>2. CASE ~\E g \in Handler : MaySend(g)'
  <2>1. ReadyNow' = {}
    BY <1>2 DEF ReadyNow
  <2>2. CASE ReadyNow = {}
    BY <2>1, <2>2, NothingSent
  <2>3. CASE ReadyNow # {}
    <3>1. Paid!Withdraw
      BY <2>1, <2>3 DEF Paid!Withdraw, ReadyNow, SentNow, ClosedUp
    <3>2. QED
      BY <3>1 DEF PaidNext, Paid!Next
  <2>4. QED
    BY <2>2, <2>3
<1>3. QED
  BY <1>1, <1>2

(* A step of one handler on the calls of its own attempt leaves the others'. *)
LEMMA OthersMaySend ==
    ASSUME Inv, Inv', UNCHANGED attempts, NEW h \in Handler, handler[h].at \notin Unclaimed,
           \A b \in 1 .. Len(wire) : b # handler[h].attempt => wire'[b] = wire[b],
           NEW g \in Handler \ {h}, handler'[g] = handler[g]
    PROVE  /\ MaySend(g)' <=> MaySend(g)
           /\ MaySend(g) => Latest(g)' = Latest(g)
<1>1. Typed /\ Typed' /\ HandlersOK
  BY DEF Inv
<1>2. MaySend(g)' <=> MaySend(g)
  BY <1>1, MaySendIs, MaySendNext
<1>3. ASSUME MaySend(g)
      PROVE  Latest(g)' = Latest(g)
  <2>1. handler[g].attempt \in 1 .. Len(attempts) /\ Len(wire) = Len(attempts)
    BY <1>1, <1>3, MaySendEntitled DEF Typed
  <2>2. handler[g].attempt # handler[h].attempt
    BY <1>1, <2>1, Basics DEF HandlersOK, Distinct
  <2>3. QED
    BY <2>1, <2>2 DEF Latest, Mine
<1>4. QED
  BY <1>2, <1>3

(* The calls of one attempt change, and what it has sent does not.           *)
LEMMA SameSent ==
    ASSUME Inv, Inv', NEW a \in 1 .. Len(attempts), NEW q \in Seq(Request),
           wire' = [wire EXCEPT ![a] = q], UNCHANGED attempts,
           \A t : (t \in 1 .. Len(q) /\ q[t].sent) <=> (t \in 1 .. Len(wire[a]) /\ wire[a][t].sent)
    PROVE  SentNow' = SentNow
<1>1. Typed /\ Typed'
  BY DEF Inv
<1>2. /\ wire'[a] = q
      /\ \A b \in 1 .. Len(attempts) : b # a => wire'[b] = wire[b]
  <2>1. wire \in Seq(Seq(Request)) /\ Len(wire) = Len(attempts)
    BY <1>1 DEF Typed
  <2>2. QED
    BY <2>1, ExceptSeq
<1>3. \A b \in 1 .. Len(attempts) : \A t :
         (t \in 1 .. Len(wire'[b]) /\ wire'[b][t].sent) <=> (t \in 1 .. Len(wire[b]) /\ wire[b][t].sent)
  BY <1>2
<1>4. ASSUME NEW call
      PROVE  call \in SentNow' <=> call \in SentNow
  <2>1. call \in SentNow' <=> \E b \in 1 .. Len(attempts) : \E t \in 1 .. Len(wire'[b]) :
                                 wire'[b][t].sent /\ call = <<b, t>>
    BY <1>1, SentIsNext
  <2>2. call \in SentNow <=> \E b \in 1 .. Len(attempts) : \E t \in 1 .. Len(wire[b]) :
                                wire[b][t].sent /\ call = <<b, t>>
    BY <1>1, SentIs
  <2>3. QED
    BY <1>3, <2>1, <2>2
<1>5. QED
  BY <1>4

(* What is recorded of a call says of it what was so before, or that it has   *)
(* just been sent.                                                          *)
LEMMA RecordSent ==
    ASSUME Inv, Inv', NEW h \in Handler, handler[h].at \in {"begun", "asserted", "sent"},
           NEW outcome \in Outcome, NEW sent \in BOOLEAN, outcome = "failed" => ~sent,
           Recorded(h, outcome, sent), UNCHANGED attempts
    PROVE  /\ \A b \in 1 .. Len(wire) : b # handler[h].attempt => wire'[b] = wire[b]
           /\ sent = (handler[h].at = "sent") => SentNow' = SentNow
           /\ sent => SentNow' = SentNow \cup {Latest(h)}
<1> DEFINE a == handler[h].attempt
           n == Len(wire[a])
<1>1. PICK q \in Seq(Request) :
         /\ wire' = [wire EXCEPT ![a] = q] /\ Len(q) > 0 /\ q[Len(q)].sent = sent /\ Len(q) = n
         /\ \A t \in 1 .. Len(q) : t # Len(q) => q[t].sent = wire[a][t].sent
  BY RecordedCall
<1>2. /\ a \in 1 .. Len(attempts) /\ (wire[a][n].sent <=> (handler[h].at = "sent"))
      /\ Typed /\ Typed' /\ Len(wire) = Len(attempts) /\ wire \in Seq(Seq(Request)) /\ n \in Nat
      /\ wire[a] \in Seq(Request)
  <2>1. a \in 1 .. Len(attempts) /\ (wire[a][n].sent <=> (handler[h].at = "sent")) /\ Typed
    BY Ready DEF RecordOK, Unclaimed
  <2>2. wire[a] \in Seq(Request) /\ Len(wire[a]) \in Nat
    BY <2>1, Basics
  <2>3. Typed' /\ Len(wire) = Len(attempts) /\ wire \in Seq(Seq(Request))
    BY DEF Inv, Typed
  <2>4. QED
    BY <2>1, <2>2, <2>3
<1>3. /\ wire'[a] = q
      /\ \A b \in 1 .. Len(wire) : b # a => wire'[b] = wire[b]
  BY <1>1, <1>2, ExceptSeq
<1>4. ASSUME sent = (handler[h].at = "sent")
      PROVE  SentNow' = SentNow
  <2>1. ASSUME NEW t \in 1 .. n
        PROVE  q[t].sent <=> wire[a][t].sent
    <3>1. CASE t = n
      BY <1>1, <1>2, <1>4, <3>1
    <3>2. CASE t # n
      BY <1>1, <3>2
    <3>3. QED
      BY <3>1, <3>2
  <2>2. QED
    BY <1>1, <1>2, <2>1, SameSent
<1>5. ASSUME sent
      PROVE  SentNow' = SentNow \cup {Latest(h)}
  <2>1. n \in 1 .. n /\ Latest(h) = <<a, n>>
    BY <1>1, <1>2 DEF Latest, Mine
  <2>2. \A t \in 1 .. n : q[t].sent <=> (wire[a][t].sent \/ t = n)
    BY <1>1, <1>2, <1>5
  <2>3. ASSUME NEW call
        PROVE  call \in SentNow' <=> call \in SentNow \/ call = <<a, n>>
    <3>1. call \in SentNow' <=> \E b \in 1 .. Len(attempts) : \E t \in 1 .. Len(wire'[b]) :
                                   wire'[b][t].sent /\ call = <<b, t>>
      BY <1>2, SentIsNext
    <3>2. call \in SentNow <=> \E b \in 1 .. Len(attempts) : \E t \in 1 .. Len(wire[b]) :
                                  wire[b][t].sent /\ call = <<b, t>>
      BY <1>2, SentIs
    <3>3. \A b \in 1 .. Len(attempts) : \A t :
             (t \in 1 .. Len(wire'[b]) /\ wire'[b][t].sent)
             <=> ((t \in 1 .. Len(wire[b]) /\ wire[b][t].sent) \/ (b = a /\ t = n))
      BY <1>1, <1>2, <1>3, <2>1, <2>2
    <3>4. QED
      BY <1>2, <3>1, <3>2, <3>3
  <2>4. QED
    BY <2>1, <2>3
<1>6. QED
  BY <1>3, <1>4, <1>5

LEMMA SameWire ==
    ASSUME UNCHANGED wire
    PROVE  SentNow' = SentNow
BY DEF SentNow

LEMMA LeavesTheRest ==
    ASSUME Inv, NEW h \in Handler,
           Throw(h, FALSE) \/ (\E at \in Phase : Goto(h, at))
    PROVE  /\ \A g \in Handler \ {h} : handler'[g] = handler[g]
           /\ handler'[h].attempt = handler[h].attempt /\ handler'[h].aborted = handler[h].aborted
           /\ Throw(h, FALSE) => handler'[h].at = "failing"
           /\ \A at \in Phase : Goto(h, at) => handler'[h].at = at
BY Ready DEF Typed, Local, Throw, Goto

LEMMA ReservePays ==
    ASSUME Inv, Inv', TurnsWithin', NEW h \in Handler, Reserve(h)
    PROVE  PaidNext
<1> DEFINE a == handler[h].attempt
           x == [outcome |-> "started", sent |-> FALSE]
           q == Append(wire[a], x)
<1>1. /\ handler[h].at = "owned" /\ handler[h].at \notin Unclaimed /\ ~handler[h].stalled
      /\ UNCHANGED <<row, attempts>> /\ Typed /\ Typed' /\ ~MaySend(h)
  BY Ready, MaySendIs DEF Reserve, Running, Unclaimed, MayOf, Inv
<1>2. a \in 1 .. Len(attempts) /\ wire[a] \in Seq(Request) /\ Len(wire[a]) \in Nat
      /\ wire \in Seq(Seq(Request)) /\ Len(wire) = Len(attempts)
  <2>1. a \in 1 .. Len(attempts)
    BY <1>1, Ready DEF RecordOK
  <2>2. QED
    BY <1>1, <2>1, Basics DEF Typed
<1>3. ClosedUp' = ClosedUp
  BY <1>1 DEF ClosedUp
<1>4. CASE UNCHANGED wire /\ Throw(h, FALSE)
  <2>1. \A g \in Handler \ {h} : handler'[g] = handler[g]
    BY <1>4, LeavesTheRest
  <2>2. ~MaySend(h)'
    BY <1>1, <1>4, LeavesTheRest, MaySendNext DEF MayOf
  <2>3. QED
    BY <1>1, <1>3, <1>4, <2>1, <2>2, OthersMaySend, ReadySame, SameWire, NothingSent
<1>5. CASE wire' = [wire EXCEPT ![a] = q] /\ Goto(h, "begun")
  <2>1. /\ handler'[h].at = "begun" /\ handler'[h].attempt = a
        /\ handler'[h].aborted = handler[h].aborted
        /\ \A g \in Handler \ {h} : handler'[g] = handler[g]
    BY <1>5, LeavesTheRest DEF Phase
  <2>2. x \in Request /\ x.sent = FALSE
    BY DEF Request, Outcome
  <2> HIDE DEF x
  <2>3. /\ q \in Seq(Request) /\ Len(q) = Len(wire[a]) + 1 /\ q[Len(wire[a]) + 1] = x
        /\ \A t \in 1 .. Len(wire[a]) : q[t] = wire[a][t]
    BY <1>2, <2>2
  <2> HIDE DEF q
  <2>4. wire'[a] = q /\ \A b \in 1 .. Len(wire) : b # a => wire'[b] = wire[b]
    BY <1>2, <1>5, <2>3, ExceptSeq
  <2>5. SentNow' = SentNow
    <3>1. \A t : t \in 1 .. Len(q) => t \in 1 .. Len(wire[a]) \/ t = Len(wire[a]) + 1
      BY <1>2, <2>3
    <3>2. \A t \in 1 .. Len(wire[a]) : t \in 1 .. Len(q)
      BY <1>2, <2>3
    <3>3. QED
      BY <1>1, <1>2, <1>5, <2>2, <2>3, <3>1, <3>2, SameSent
  <2>6. \A g \in Handler \ {h} : /\ MaySend(g)' <=> MaySend(g)
                                 /\ MaySend(g) => Latest(g)' = Latest(g)
    BY <1>1, <2>1, <2>4, OthersMaySend
  <2>7. MaySend(h)' <=> ~handler[h].aborted /\ Holds(handler[h], attempts)
    BY <1>1, <2>1, MaySendNext DEF MayOf, Holds
  <2>8. CASE handler[h].aborted \/ ~Holds(handler[h], attempts)
    BY <1>1, <1>3, <2>5, <2>6, <2>7, <2>8, ReadySame, NothingSent
  <2>9. CASE ~handler[h].aborted /\ Holds(handler[h], attempts)
    <3> DEFINE n == Len(wire[a]) + 1
    <3>1. Entitled(handler[h], attempts, artifact)
      BY <1>1, <2>9 DEF Entitled, Buying, Session
    <3>2. \A g \in Handler \ {h} : ~MaySend(g)
      BY <3>1, Ready, MaySendEntitled DEF HandlersOK
    <3>3. ReadyNow = {} /\ ReadyNow' = {Latest(h)'}
      BY <1>1, <2>6, <2>7, <2>9, <3>2 DEF ReadyNow
    <3>4. Latest(h)' = <<a, n>>
      BY <2>1, <2>3, <2>4 DEF Latest, Mine
    <3>5. ~ClosedUp
      BY <2>9, Ready DEF RowsOK, Holds, ClosedUp, Decided
    <3>6. a \in 1 .. MaxAttempts /\ n \in 1 .. (MaxToolTurns + 1)
      <4>1. a \in 1 .. Len(wire') /\ Len(wire'[a]) = n
        BY <1>1, <1>2, <2>3, <2>4 DEF Typed
      <4>2. n <= MaxToolTurns + 1
        BY <4>1 DEF TurnsWithin
      <4>3. QED
        BY <1>1, <1>2, <4>2, ConstantsAssumption DEF Typed
    <3>7. ASSUME NEW call \in SentNow
          PROVE  call[1] = a /\ call # <<a, n>>
      <4>1. PICK b \in 1 .. Len(attempts), t \in Nat :
               t \in 1 .. Len(wire[b]) /\ wire[b][t].sent /\ call = <<b, t>>
        BY <1>1, <3>7, SentIs
      <4>2. Alone(a, wire)
        BY <3>1, Ready DEF RecordOK
      <4>3. b = a
        BY <1>2, <4>1, <4>2 DEF Alone, SentIn
      <4>4. t # n
        BY <1>2, <4>1, <4>3
      <4>5. QED
        BY <4>1, <4>3, <4>4
    <3> HIDE DEF n
    <3>8. Paid!Record(a, n)
      BY <1>3, <2>5, <3>3, <3>4, <3>5, <3>7 DEF Paid!Record, ReadyNow, SentNow, ClosedUp
    <3>9. QED
      BY <3>6, <3>8 DEF PaidNext, Paid!Next
  <2>10. QED
    BY <2>8, <2>9
<1>6. QED
  BY <1>4, <1>5 DEF Reserve

LEMMA AssertPays ==
    ASSUME Inv, Inv', NEW h \in Handler, AssertOwnership(h)
    PROVE  PaidNext
<1>1. /\ handler[h].at = "begun" /\ handler[h].at \notin Unclaimed /\ ~handler[h].stalled
      /\ UNCHANGED <<row, attempts>> /\ Typed /\ Typed'
  BY DEF AssertOwnership, Running, Unclaimed, Inv
<1>2. ClosedUp' = ClosedUp
  BY <1>1 DEF ClosedUp
<1>3. CASE Goto(h, "asserted") /\ UNCHANGED wire
  <2>1. /\ handler'[h].at = "asserted" /\ handler'[h].attempt = handler[h].attempt
        /\ handler'[h].aborted = handler[h].aborted
        /\ \A g \in Handler \ {h} : handler'[g] = handler[g]
    BY <1>3, LeavesTheRest DEF Phase
  <2>2. ~handler[h].aborted => Holds(handler[h], attempts)
    BY <1>1, Ready DEF RecordOK
  <2>3. MaySend(h)' <=> MaySend(h)
    BY <1>1, <2>1, <2>2, MaySendIs, MaySendNext DEF MayOf
  <2>4. Latest(h)' = Latest(h)
    BY <1>3, <2>1 DEF Latest, Mine
  <2>5. QED
    BY <1>1, <1>2, <1>3, <2>1, <2>3, <2>4, OthersMaySend, ReadySame, SameWire, NothingSent
<1>4. CASE Throw(h, FALSE) /\ (Recorded(h, "failed", FALSE) \/ UNCHANGED wire)
  <2>1. handler'[h].at = "failing" /\ \A g \in Handler \ {h} : handler'[g] = handler[g]
    BY <1>4, LeavesTheRest
  <2>2. ~MaySend(h)'
    BY <1>1, <2>1, MaySendNext DEF MayOf
  <2>3. SentNow' = SentNow /\ \A b \in 1 .. Len(wire) : b # handler[h].attempt => wire'[b] = wire[b]
    BY <1>1, <1>4, RecordSent, SameWire DEF Outcome
  <2>4. QED
    BY <1>1, <1>2, <2>1, <2>2, <2>3, OthersMaySend, Withdrawn
<1>5. QED
  BY <1>3, <1>4 DEF AssertOwnership

LEMMA SendPays ==
    ASSUME Inv, Inv', NEW h \in Handler, Send(h)
    PROVE  PaidNext
<1>1. /\ handler[h].at = "asserted" /\ handler[h].at \notin Unclaimed
      /\ UNCHANGED <<row, attempts>> /\ Typed /\ Typed'
      /\ (MaySend(h) <=> ~handler[h].aborted)
  BY Ready, MaySendIs DEF Send, Running, Unclaimed, MayOf, Inv
<1>2. ClosedUp' = ClosedUp
  BY <1>1 DEF ClosedUp
<1>3. CASE ~handler[h].aborted /\ Recorded(h, "started", TRUE) /\ Goto(h, "sent")
  <2>1. handler'[h].at = "sent" /\ \A g \in Handler \ {h} : handler'[g] = handler[g]
    BY <1>3, LeavesTheRest DEF Phase
  <2>2. /\ SentNow' = SentNow \cup {Latest(h)}
        /\ \A b \in 1 .. Len(wire) : b # handler[h].attempt => wire'[b] = wire[b]
    BY <1>1, <1>3, RecordSent DEF Outcome
  <2>3. ReadyNow = {Latest(h)} /\ Entitled(handler[h], attempts, artifact)
    BY <1>1, <1>3, MaySendEntitled
  <2>4. ASSUME NEW g \in Handler
        PROVE  ~MaySend(g)'
    <3>1. CASE g = h
      BY <1>1, <2>1, <3>1, MaySendNext DEF MayOf
    <3>2. CASE g # h
      BY <1>1, <2>1, <2>2, <2>3, <3>2, OthersMaySend, MaySendEntitled, Ready DEF HandlersOK
    <3>3. QED
      BY <3>1, <3>2
  <2>5. ReadyNow' = {}
    BY <2>4 DEF ReadyNow
  <2>6. Paid!Send
    BY <1>2, <2>2, <2>3, <2>5 DEF Paid!Send, ReadyNow, SentNow, ClosedUp
  <2>7. QED
    BY <2>6 DEF PaidNext, Paid!Next
<1>4. CASE /\ handler[h].aborted /\ Throw(h, FALSE)
           /\ Recorded(h, "ambiguous", FALSE) \/ UNCHANGED wire
  <2>1. handler'[h].at = "failing" /\ \A g \in Handler \ {h} : handler'[g] = handler[g]
    BY <1>4, LeavesTheRest
  <2>2. ~MaySend(h)'
    BY <1>1, <2>1, MaySendNext DEF MayOf
  <2>3. SentNow' = SentNow /\ \A b \in 1 .. Len(wire) : b # handler[h].attempt => wire'[b] = wire[b]
    BY <1>1, <1>4, RecordSent, SameWire DEF Outcome
  <2>4. QED
    BY <1>1, <1>2, <2>1, <2>2, <2>3, OthersMaySend, Withdrawn
<1>5. QED
  BY <1>3, <1>4 DEF Send

(* A handler that was not about to send, and is not afterwards.              *)
LEMMA Aside ==
    ASSUME Inv, Inv', UNCHANGED attempts, NEW h \in Handler, handler[h].at \notin Unclaimed,
           \A b \in 1 .. Len(wire) : b # handler[h].attempt => wire'[b] = wire[b],
           \A g \in Handler \ {h} : handler'[g] = handler[g],
           handler[h].at \notin {"begun", "asserted"}, handler'[h].at \notin {"begun", "asserted"},
           SentNow' = SentNow, ClosedUp => ClosedUp'
    PROVE  PaidNext
<1>1. Typed /\ Typed'
  BY DEF Inv
<1>2. ~MaySend(h) /\ ~MaySend(h)'
  BY <1>1, MaySendIs, MaySendNext DEF MayOf
<1>3. QED
  BY <1>2, OthersMaySend, ReadySame, NothingSent

LEMMA AnswerPays ==
    ASSUME Inv, Inv', NEW h \in Handler, Answer(h)
    PROVE  PaidNext
<1>1. handler[h].at = "sent" /\ handler[h].at \notin Unclaimed /\ UNCHANGED attempts
  BY DEF Answer, Running, Unclaimed
<1>2. Recorded(h, "succeeded", TRUE) \/ Recorded(h, "ambiguous", TRUE) \/ UNCHANGED wire
  BY DEF Answer, AnswerLost, AnswerRejected, AnswerConcludes, AnswerCallsTool
<1>3. UNCHANGED row \/ row' = [row EXCEPT !.calls = @ + 1]
  BY DEF Answer, AnswerLost, AnswerRejected, AnswerConcludes, AnswerCallsTool
<1>4. ClosedUp' = ClosedUp
  BY <1>3, Ready DEF ClosedUp, Typed, Row
<1>5. SentNow' = SentNow /\ \A b \in 1 .. Len(wire) : b # handler[h].attempt => wire'[b] = wire[b]
  BY <1>1, <1>2, RecordSent, SameWire DEF Outcome
<1>6. /\ handler'[h].at \in {"failing", "concluded", "tool", "loop"}
      /\ \A g \in Handler \ {h} : handler'[g] = handler[g]
  <2>1. handler \in [Handler -> Local] /\ handler[h] \in Local
    BY Ready DEF Typed
  <2>2. CASE Throw(h, FALSE)
    BY <2>2, LeavesTheRest
  <2>3. CASE \E c, b : handler' = [handler EXCEPT ![h].at = "concluded", ![h].cites = c,
                                     ![h].abstains = b, ![h].turns = Answered(h)]
    BY <2>1, <2>3 DEF Local
  <2>4. CASE handler' = [handler EXCEPT ![h].at = "tool", ![h].turns = Answered(h),
                                        ![h].calls = @ + 1]
    BY <2>1, <2>4 DEF Local
  <2>5. CASE handler' = [handler EXCEPT ![h].at = "loop", ![h].turns = Answered(h),
                                        ![h].final = TRUE]
    BY <2>1, <2>5 DEF Local
  <2>6. QED
    BY <2>2, <2>3, <2>4, <2>5 DEF Answer, AnswerLost, AnswerRejected, AnswerConcludes, AnswerCallsTool
<1>7. QED
  BY <1>1, <1>4, <1>5, <1>6, Aside

(* Where a claim ends or begins an attempt no other is held, and a call      *)
(* whose assertion has been answered stays as it is.                        *)
LEMMA ClaimPays ==
    ASSUME Inv, Inv', NEW h \in Handler, Claim(h)
    PROVE  PaidNext
<1>1. /\ handler[h].at = "claim" /\ Typed /\ Typed' /\ HandlersOK /\ handler \in [Handler -> Local]
      /\ handler[h] \in Local
  BY Ready DEF Claim, Running, Inv, Typed
<1>2. CASE UNCHANGED <<row, wire, attempts>> /\ handler' = [handler EXCEPT ![h] = Idle]
  <2>1. handler'[h] = Idle /\ \A g \in Handler \ {h} : handler'[g] = handler[g]
    BY <1>1, <1>2
  <2>2. ASSUME NEW g \in Handler
        PROVE  (MaySend(g)' <=> MaySend(g)) /\ (MaySend(g) => Latest(g)' = Latest(g))
    <3>1. CASE g = h
      BY <1>1, <2>1, <3>1, MaySendIs, MaySendNext DEF MayOf, Idle
    <3>2. CASE g # h
      BY <1>1, <1>2, <2>1, <3>2, MaySendIs, MaySendNext DEF Latest, Mine
    <3>3. QED
      BY <3>1, <3>2
  <2>3. QED
    BY <1>2, <2>2, ReadySame, SameWire, NothingSent DEF ClosedUp
<1>3. ASSUME Claimable, Len(attempts) <= Len(attempts'),
             \A a \in 1 .. Len(attempts) : attempts'[a] = Abandoned[a] /\ wire'[a] = wire[a],
             handler'[h].at \in {"idle", "begin"}, SentNow' = SentNow,
             \A g \in Handler \ {h} : handler'[g] = handler[g]
      PROVE  PaidNext
  <2>1. ASSUME NEW g \in Handler
        PROVE  (MaySend(g)' <=> MaySend(g)) /\ (MaySend(g) => Latest(g)' = Latest(g))
    <3>1. CASE g = h
      BY <1>1, <1>3, <3>1, MaySendIs, MaySendNext DEF MayOf
    <3>2. CASE g # h
      <4>1. handler'[g] = handler[g] /\ ~Holds(handler[g], attempts)
        BY <1>3, <3>2, NoneHolds
      <4>2. handler[g].at \in {"begun", "asserted"} =>
               /\ handler[g].attempt \in 1 .. Len(attempts)
               /\ ~Holds(handler[g], attempts')
        BY <1>1, <1>3, AbandonedRows, Ready DEF RecordOK, Unclaimed, Holds
      <4>3. MaySend(g)' <=> MaySend(g)
        BY <1>1, <4>1, <4>2, MaySendIs, MaySendNext DEF MayOf
      <4>4. MaySend(g) => Latest(g)' = Latest(g)
        BY <1>3, <4>1, <4>2, MaySendEntitled DEF Latest, Mine
      <4>5. QED
        BY <4>3, <4>4
    <3>3. QED
      BY <3>1, <3>2
  <2>2. ~ClosedUp
    BY <1>3 DEF Claimable, ClosedUp, Decided
  <2>3. QED
    BY <1>3, <2>1, <2>2, ReadySame, NothingSent
<1>4. CASE ClaimFails(h)
  <2>1. /\ Claimable /\ UNCHANGED wire /\ attempts' = Abandoned
        /\ handler' = [handler EXCEPT ![h] = Idle]
    BY <1>4 DEF ClaimFails, Reply
  <2>2. Len(attempts) <= Len(attempts')
    BY <1>1, <2>1, AbandonedRows, Basics
  <2>3. handler'[h].at \in {"idle", "begin"} /\ \A g \in Handler \ {h} : handler'[g] = handler[g]
    BY <1>1, <2>1 DEF Idle
  <2>4. QED
    BY <1>3, <2>1, <2>2, <2>3, SameWire
<1>5. CASE ClaimAttempt(h)
  <2> DEFINE n == Len(attempts) + 1
             x == [state |-> "active", live |-> TRUE, final |-> FALSE]
  <2>1. /\ Claimable /\ wire' = Append(wire, <<>>) /\ attempts' = Append(Abandoned, x)
        /\ handler' = [handler EXCEPT ![h].at = "begin", ![h].attempt = n]
    BY <1>5 DEF ClaimAttempt
  <2>2. /\ Len(attempts) \in Nat /\ Abandoned \in Seq(Attempt) /\ Len(Abandoned) = Len(attempts)
        /\ x \in Attempt /\ wire \in Seq(Seq(Request)) /\ Len(wire) = Len(attempts)
        /\ <<>> \in Seq(Request)
    BY <1>1, Basics, AbandonedRows DEF Attempt, Typed
  <2> HIDE DEF x
  <2>3. /\ Len(attempts') = n /\ wire'[n] = <<>>
        /\ \A a \in 1 .. Len(attempts) : attempts'[a] = Abandoned[a] /\ wire'[a] = wire[a]
    BY <2>1, <2>2, AddElement
  <2>4. handler'[h].at \in {"idle", "begin"} /\ \A g \in Handler \ {h} : handler'[g] = handler[g]
    BY <1>1, <2>1 DEF Local
  <2>5. SentNow' = SentNow
    <3>1. /\ \A a \in 1 .. n : a \in 1 .. Len(attempts) \/ a = n
          /\ \A a \in 1 .. Len(attempts) : a \in 1 .. n
      BY <2>2
    <3>2. Len(wire'[n]) = 0
      BY <2>3
    <3>3. \A call : call \in SentNow' <=> call \in SentNow
      BY <1>1, <2>3, <3>1, <3>2, SentIs, SentIsNext
    <3>4. QED
      BY <3>3
  <2>6. Len(attempts) <= Len(attempts')
    BY <2>2, <2>3
  <2>7. QED
    BY <1>3, <2>1, <2>3, <2>4, <2>5, <2>6
<1>6. QED
  BY <1>2, <1>4, <1>5 DEF Claim, ClaimTerminal, ClaimBusy, ClaimError, Reply

(* Steps between the calls.                                                 *)
LEMMA SessionPays ==
    ASSUME Inv, Inv', NEW h \in Handler,
           \/ Begin(h) \/ Ask(h) \/ ReserveOperation(h) \/ CompleteOperation(h)
           \/ Concluded(h) \/ Propose(h) \/ Freeze(h)
    PROVE  PaidNext
<1>1. /\ UNCHANGED <<attempts, wire>>
      /\ handler[h].at \notin Unclaimed \cup {"begun", "asserted"}
  BY DEF Begin, Ask, ReserveOperation, CompleteOperation, Concluded, Propose, Freeze, Running, Unclaimed
<1>2. UNCHANGED row \/ ~ClosedUp
  BY DEF Begin, Ask, ReserveOperation, CompleteOperation, Concluded, Propose, Freeze,
         OwnsJob, ClosedUp, Decided
<1>3. handler \in [Handler -> Local] /\ handler[h] \in Local
  BY Ready DEF Typed
<1> DEFINE Moves == /\ handler'[h].at \notin {"begun", "asserted"}
                    /\ \A g \in Handler \ {h} : handler'[g] = handler[g]
<1>4. ASSUME NEW b, Throw(h, b)
      PROVE  Moves
  BY <1>3, <1>4 DEF Throw, Local
<1>5. ASSUME NEW at \in {"loop", "propose", "freezing", "complete"}, Goto(h, at)
      PROVE  Moves
  BY <1>3, <1>5 DEF Goto, Local
<1>6. ASSUME Begin(h)
      PROVE  Moves
  <2>1. CASE handler' = [handler EXCEPT ![h].at = "loop", ![h].turns = row.turns,
                                        ![h].calls = row.calls]
    BY <1>3, <2>1 DEF Local
  <2>2. QED
    BY <1>4, <1>5, <1>6, <2>1 DEF Begin
<1>7. ASSUME Ask(h)
      PROVE  Moves
  <2>1. CASE \E f, n : handler' = [handler EXCEPT ![h].at = "owned", ![h].final = f, ![h].turns = n]
    BY <1>3, <2>1 DEF Local
  <2>2. QED
    BY <1>4, <1>7, <2>1 DEF Ask
<1>8. ASSUME ReserveOperation(h)
      PROVE  Moves
  <2>1. CASE \E n : handler' = [handler EXCEPT ![h].at = "tooling", ![h].op = n]
    BY <1>3, <2>1 DEF Local
  <2>2. CASE handler' = [handler EXCEPT ![h].at = "loop", ![h].final = TRUE]
    BY <1>3, <2>2 DEF Local
  <2>3. QED
    BY <1>4, <1>5, <1>8, <2>1, <2>2 DEF ReserveOperation
<1>9. ASSUME CompleteOperation(h)
      PROVE  Moves
  <2>1. CASE \E e : handler' = [handler EXCEPT ![h].at = "loop", ![h].seen = @ \cup {e}]
    BY <1>3, <2>1 DEF Local
  <2>2. CASE \E b : Throw(h, b)
    BY <1>4, <2>2
  <2>3. QED
    BY <1>5, <1>9, <2>1, <2>2 DEF CompleteOperation
<1>10. ASSUME Concluded(h) \/ Propose(h) \/ Freeze(h)
       PROVE  Moves
  BY <1>4, <1>5, <1>10 DEF Concluded, Propose, Freeze
<1>11. Moves
  BY <1>6, <1>7, <1>8, <1>9, <1>10
<1>12. ClosedUp => ClosedUp'
  BY <1>2 DEF ClosedUp
<1>13. QED
  BY <1>1, <1>11, <1>12, SameWire, Aside

(* An attempt that is closed was its handler's own, and held by no other.    *)
LEMMA VerdictPays ==
    ASSUME Inv, Inv', NEW h \in Handler, Complete(h) \/ Fail(h)
    PROVE  PaidNext
<1>1. /\ UNCHANGED wire /\ handler[h].at \in {"complete", "failing"} /\ handler[h].at \notin Unclaimed
      /\ Typed /\ Typed' /\ handler \in [Handler -> Local] /\ handler[h] \in Local
  BY Ready DEF Complete, Fail, Running, Unclaimed, Inv, Typed
<1>2. handler' = [handler EXCEPT ![h] = Idle] \/ \E b : Throw(h, b)
  BY DEF Complete, Fail, Reply
<1>3. /\ handler'[h].at \in {"idle", "failing"}
      /\ \A g \in Handler \ {h} : handler'[g] = handler[g]
  <2>1. CASE handler' = [handler EXCEPT ![h] = Idle]
    BY <1>1, <2>1 DEF Idle
  <2>2. ASSUME NEW b, Throw(h, b)
        PROVE  /\ handler'[h].at \in {"idle", "failing"}
               /\ \A g \in Handler \ {h} : handler'[g] = handler[g]
    BY <1>1, <2>2 DEF Throw, Local
  <2>3. QED
    BY <1>2, <2>1, <2>2
<1>4. UNCHANGED row \/ ~ClosedUp
  BY DEF Complete, Fail, OwnsJob, ClosedUp, Decided
<1>5. CASE UNCHANGED attempts
  BY <1>1, <1>3, <1>4, <1>5, SameWire, Aside DEF ClosedUp
<1>6. ASSUME Owns(h), NEW state, NEW final, attempts' = Closed(attempts, handler[h].attempt, state, final)
      PROVE  PaidNext
  <2>1. /\ handler[h].attempt \in 1 .. Len(attempts) /\ attempts \in Seq(Attempt)
        /\ Len(attempts') = Len(attempts)
        /\ \A b \in 1 .. Len(attempts) : b # handler[h].attempt => attempts'[b] = attempts[b]
    <3>1. DOMAIN attempts = 1 .. Len(attempts) /\ Len(attempts) \in Nat
      BY <1>1, Basics
    <3>2. DOMAIN attempts' = 1 .. Len(attempts)
      BY <1>6, <3>1 DEF Closed
    <3>3. Len(attempts') = Len(attempts)
      BY <1>1, <3>1, <3>2 DEF Typed
    <3>4. QED
      BY <1>1, <1>6, <3>1, <3>3 DEF Closed, Owns, Typed
  <2>2. ASSUME NEW g \in Handler
        PROVE  (MaySend(g)' <=> MaySend(g)) /\ (MaySend(g) => Latest(g)' = Latest(g))
    <3>1. CASE g = h
      BY <1>1, <1>3, <3>1, MaySendIs, MaySendNext DEF MayOf
    <3>2. CASE g # h
      <4>1. handler[g].at \in {"begun", "asserted"} =>
               /\ handler[g].attempt \in 1 .. Len(attempts)
               /\ handler[g].attempt # handler[h].attempt
        BY <2>1, <3>2, Ready, Basics DEF HandlersOK, RecordOK, Distinct, Unclaimed
      <4>2. handler[g].at \in {"begun", "asserted"} =>
               (Holds(handler[g], attempts') <=> Holds(handler[g], attempts))
        BY <2>1, <4>1 DEF Holds
      <4>3. QED
        BY <1>1, <1>3, <3>2, <4>2, MaySendIs, MaySendNext DEF MayOf, Latest, Mine
    <3>3. QED
      BY <3>1, <3>2
  <2>3. ClosedUp => ClosedUp'
    BY <1>4 DEF ClosedUp
  <2>4. QED
    BY <1>1, <2>2, <2>3, ReadySame, SameWire, NothingSent
<1>7. \/ UNCHANGED attempts
      \/ /\ Owns(h)
         /\ \E state, final :
               attempts' = Closed(attempts, handler[h].attempt, state, final)
  BY DEF Complete, Fail, OwnsJob
<1>8. QED
  BY <1>5, <1>6, <1>7

(* A delivery; a process that is aborted, stalls, resumes or dies; a lease.   *)
LEMMA ProcessPays ==
    ASSUME Inv, Inv', NEW h \in Handler,
           Deliver(h) \/ Abort(h) \/ Stall(h) \/ Resume(h) \/ Crash(h)
    PROVE  PaidNext
<1>1. /\ UNCHANGED <<wire, attempts, row>> /\ Typed /\ Typed'
      /\ handler \in [Handler -> Local] /\ handler[h] \in Local
  BY Ready DEF Deliver, Abort, Stall, Resume, Crash, Inv, Typed
<1>2. /\ \A g \in Handler \ {h} : handler'[g] = handler[g]
      /\ \/ handler'[h].at \in {"idle", "claim"}
         \/ /\ handler'[h].at = handler[h].at /\ handler'[h].attempt = handler[h].attempt
            /\ handler[h].aborted => handler'[h].aborted
  BY <1>1 DEF Deliver, Abort, Stall, Resume, Crash, Goto, Local, Idle
<1>3. ASSUME NEW g \in Handler, MaySend(g)'
      PROVE  MaySend(g) /\ Latest(g)' = Latest(g)
  <2>1. MayOf(handler'[g], attempts)
    BY <1>1, <1>3, MaySendNext
  <2>2. /\ MayOf(handler[g], attempts) /\ handler'[g].attempt = handler[g].attempt
    BY <1>2, <2>1 DEF MayOf, Holds
  <2>3. QED
    BY <1>1, <2>2, MaySendIs DEF Latest, Mine
<1>4. QED
  BY <1>1, <1>3, SameWire, Withdrawn DEF ClosedUp

LEMMA LapsePays ==
    ASSUME Inv, Inv', Lapse
    PROVE  PaidNext
<1>1. UNCHANGED <<wire, row, handler>> /\ Typed /\ Typed'
  BY DEF Lapse, Inv
<1>2. ASSUME NEW r, Holds(r, attempts')
      PROVE  Holds(r, attempts)
  <2>1. PICK a \in DOMAIN attempts : attempts' = [attempts EXCEPT ![a].live = FALSE]
    BY DEF Lapse, Active
  <2>2. DOMAIN attempts = 1 .. Len(attempts) /\ Len(attempts) \in Nat
        /\ \A b \in 1 .. Len(attempts) : attempts[b] \in Attempt
    BY <1>1, Basics
  <2>3. DOMAIN attempts' = 1 .. Len(attempts)
    BY <2>1, <2>2
  <2>4. Len(attempts') = Len(attempts)
    BY <1>1, <2>2, <2>3 DEF Typed
  <2>5. \A b \in 1 .. Len(attempts) : /\ attempts'[b].state = attempts[b].state
                                      /\ attempts'[b].live => attempts[b].live
    BY <2>1, <2>2 DEF Attempt
  <2>6. QED
    BY <1>2, <2>4, <2>5 DEF Holds
<1>3. ASSUME NEW g \in Handler, MaySend(g)'
      PROVE  MaySend(g) /\ Latest(g)' = Latest(g)
  <2>1. MayOf(handler[g], attempts)
    BY <1>1, <1>2, <1>3, MaySendNext DEF MayOf
  <2>2. QED
    BY <1>1, <2>1, MaySendIs DEF Latest, Mine
<1>4. QED
  BY <1>1, <1>3, SameWire, Withdrawn DEF ClosedUp

LEMMA NextPays == Inv /\ Inv' /\ TurnsWithin' /\ [Next]_vars => PaidNext
<1> SUFFICES ASSUME Inv, Inv', TurnsWithin', [Next]_vars
             PROVE  PaidNext
  OBVIOUS
<1>1. CASE UNCHANGED vars \/ Start \/ Retire \/ Expire
  <2>1. UNCHANGED <<wire, attempts, handler>> /\ (UNCHANGED row \/ ~ClosedUp)
    BY <1>1 DEF vars, Start, Retire, Expire, ClosedUp, Decided
  <2>2. ReadyNow' = ReadyNow
    BY <2>1 DEF ReadyNow, MaySend, Owns, Latest, Mine
  <2>3. ClosedUp => ClosedUp'
    BY <2>1 DEF ClosedUp
  <2>4. QED
    BY <2>1, <2>2, <2>3, SameWire, NothingSent
<1>2. QED
  BY <1>1, LapsePays, ProcessPays, ClaimPays, SessionPays, ReservePays, AssertPays, SendPays,
     AnswerPays, VerdictPays DEF Next, Step

(* One attempt at most sends the calls of a job, one call at a time and each *)
(* put on record while the job is undecided; once it is decided the one on   *)
(* record is all that may follow.  For any number of workers, attempts,      *)
(* turns and faults.                                                        *)
THEOREM PaidOnce == Spec => PaidSpec
<1>1. Init => Paid!Init
  <2>1. Init => ReadyNow = {} /\ SentNow = {} /\ ~ClosedUp
    BY DEF Init, ReadyNow, SentNow, ClosedUp, Decided, MaySend, Idle
  <2>2. QED
    BY <2>1 DEF Paid!Init, ReadyNow, SentNow, ClosedUp
<1>2. Inv /\ Inv' /\ TurnsWithin' /\ [Next]_vars => [Paid!Next]_(Paid!vars)
  BY NextPays DEF PaidNext, Paid!vars, ReadyNow, SentNow, ClosedUp
<1>3. Init => TurnsWithin
  BY InitBudget
<1>4. QED
  BY <1>1, <1>2, <1>3, TurnsWithinNext, Invariance, PTL DEF Spec, PaidSpec, Paid!Spec

-----------------------------------------------------------------------------
(* The queue outlasts the attempts                                         *)

NoneActive(rows) == \A a \in 1 .. Len(rows) : rows[a].state # "active"

(* What holds of the record r of handler h while nothing has gone wrong: it   *)
(* has the job's delivery and its own attempt, the latest, whose number is   *)
(* one more than the redeliveries spent.                                    *)
Undisturbed(r, h, j, rows) ==
    /\ ~r.stalled
    /\ r.at # "idle" => j.state = "active" /\ j.holder = h
    /\ r.at = "claim" => j.retries = Len(rows) /\ NoneActive(rows)
    /\ r.at \notin Unclaimed => /\ r.attempt = Len(rows) /\ j.retries + 1 = Len(rows)
                                /\ Holds(r, rows)

Waiting(j, rows) == j.retries = Len(rows) /\ NoneActive(rows)

Smooth ==
    faults = 0 =>
        /\ \A h \in Handler : Undisturbed(handler[h], h, job, attempts)
        /\ job.state = "active" => handler[job.holder].at # "idle"
        /\ job.state \in {"absent", "created", "retry"} => Waiting(job, attempts)
        /\ job.state \in {"completed", "failed"} => row.state \in Decided

(* The holder of the delivery goes on within its attempt.                   *)
LEMMA SmoothOn ==
    ASSUME Inv, QueueOK, Smooth, faults = 0, NEW h \in Handler, UNCHANGED <<attempts, job>>,
           handler[h].at \notin Unclaimed, handler'[h].at \notin Unclaimed,
           handler'[h].attempt = handler[h].attempt, handler'[h].stalled = handler[h].stalled,
           \A g \in Handler \ {h} : handler'[g] = handler[g]
    PROVE  Smooth'
<1>1. job.state = "active" /\ job.holder = h
  BY DEF Smooth, Undisturbed, Unclaimed
<1>2. Undisturbed(handler'[h], h, job, attempts)
  <2>1. Undisturbed(handler[h], h, job, attempts)
    BY DEF Smooth
  <2>2. Holds(handler'[h], attempts) <=> Holds(handler[h], attempts)
    BY DEF Holds
  <2>3. QED
    BY <2>1, <2>2 DEF Undisturbed, Unclaimed
<1>3. \A g \in Handler : Undisturbed(handler'[g], g, job, attempts)
  BY <1>2 DEF Smooth
<1>4. handler'[job.holder].at # "idle"
  BY <1>1 DEF Unclaimed
<1>5. QED
  BY <1>1, <1>3, <1>4 DEF Smooth

(* The holder answers its delivery and is idle again; so is everyone.       *)
LEMMA SmoothOff ==
    ASSUME Inv, QueueOK, Smooth, faults = 0, NEW h \in Handler, handler[h].at # "idle",
           handler' = [handler EXCEPT ![h] = Idle],
           \/ job'.state = "completed" /\ row'.state \in Decided
           \/ job'.state = "retry" /\ Waiting(job', attempts')
    PROVE  Smooth'
<1>1. \A g \in Handler \ {h} : handler[g].at = "idle" /\ ~handler[g].stalled
  BY DEF Smooth, Undisturbed
<1>2. \A g \in Handler : handler'[g].at = "idle" /\ ~handler'[g].stalled
  BY <1>1 DEF Inv, Typed, Idle
<1>3. \A g \in Handler : Undisturbed(handler'[g], g, job', attempts')
  BY <1>2 DEF Undisturbed, Unclaimed
<1>4. QED
  BY <1>3 DEF Smooth

LEMMA SmoothClaim ==
    ASSUME Inv, QueueOK, Smooth, NEW h \in Handler, Claim(h), faults = 0, faults' = 0
    PROVE  Smooth'
<1>1. /\ handler[h].at = "claim" /\ job \in Job /\ job.state = "active" /\ job.holder = h
      /\ Waiting(job, attempts)
  BY DEF Claim, Running, Smooth, Undisturbed, Waiting, QueueOK
<1>2. Settled("completed") => job'.state = "completed"
  BY <1>1 DEF Settled, Job
<1>3. CASE ClaimTerminal(h)
  BY <1>1, <1>2, <1>3, SmoothOff DEF ClaimTerminal, Reply
<1>4. CASE ClaimBusy(h)
  BY <1>1, <1>4, Basics DEF ClaimBusy, Active, Waiting, NoneActive, Inv
<1>5. CASE ClaimFails(h)
  <2>1. row'.state = "failed"
    BY <1>5, Ready DEF ClaimFails, Typed, Row
  <2>2. QED
    BY <1>1, <1>2, <1>5, <2>1, SmoothOff DEF ClaimFails, Reply, Decided
<1>6. CASE ClaimAttempt(h)
  <2> DEFINE n == Len(attempts) + 1
             x == [state |-> "active", live |-> TRUE, final |-> FALSE]
  <2>1. /\ attempts' = Append(Abandoned, x) /\ UNCHANGED job
        /\ handler' = [handler EXCEPT ![h].at = "begin", ![h].attempt = n]
    BY <1>6 DEF ClaimAttempt
  <2>2. /\ Abandoned \in Seq(Attempt) /\ Len(Abandoned) = Len(attempts)
        /\ Len(attempts) \in Nat /\ x \in Attempt
    BY AbandonedRows, Basics DEF Inv, Attempt
  <2>3. Len(attempts') = n /\ attempts'[n] = x
    BY <2>1, <2>2, AddElement
  <2>4. /\ handler'[h].at = "begin" /\ handler'[h].attempt = n
        /\ handler'[h].stalled = handler[h].stalled
        /\ \A g \in Handler \ {h} : handler'[g] = handler[g]
    BY <2>1, Ready DEF Typed, Local
  <2>5. Undisturbed(handler'[h], h, job', attempts')
    <3>1. ~handler'[h].stalled
      BY <2>4 DEF Smooth, Undisturbed
    <3>2. Holds(handler'[h], attempts')
      BY <2>2, <2>3, <2>4 DEF Holds
    <3>3. QED
      BY <1>1, <2>1, <2>3, <2>4, <3>1, <3>2 DEF Undisturbed, Waiting
  <2>6. ASSUME NEW g \in Handler \ {h}
        PROVE  Undisturbed(handler'[g], g, job', attempts')
    <3>1. handler'[g].at = "idle" /\ ~handler'[g].stalled
      BY <1>1, <2>4 DEF Smooth, Undisturbed
    <3>2. QED
      BY <3>1 DEF Undisturbed, Unclaimed
  <2>7. QED
    BY <1>1, <2>1, <2>4, <2>5, <2>6 DEF Smooth
<1>7. CASE ClaimError(h)
  BY <1>7 DEF ClaimError, Fault
<1>8. QED
  BY <1>3, <1>4, <1>5, <1>6, <1>7 DEF Claim

(* A decision completes the job; a retryable failure leaves a redelivery,    *)
(* because an attempt that may be repeated is not the queue's last.         *)
LEMMA SmoothVerdict ==
    ASSUME Inv, QueueOK, Smooth, NEW h \in Handler, Complete(h) \/ Fail(h),
           faults = 0, faults' = 0
    PROVE  Smooth'
<1> DEFINE a == handler[h].attempt
<1>1. /\ handler[h].at \notin Unclaimed /\ handler[h].at # "idle"
      /\ job \in Job /\ job.state = "active" /\ job.retries \in Nat
      /\ a = Len(attempts) /\ job.retries + 1 = Len(attempts) /\ Holds(handler[h], attempts)
  BY DEF Complete, Fail, Running, Smooth, Undisturbed, Unclaimed, QueueOK, Job
<1>2. ~Fault
  BY DEF Fault
<1>3. OwnsJob(h)
  BY <1>1, Basics DEF OwnsJob, Owns, Holds, Inv, RowsOK
<1>4. Settled("completed") => job'.state = "completed"
  BY <1>1 DEF Settled, Job
<1>5. CASE Complete(h)
  <2>1. row'.state \in Decided
    BY <1>2, <1>3, <1>5, Ready DEF Complete, Typed, Row, Decided
  <2>2. handler' = [handler EXCEPT ![h] = Idle] /\ Settled("completed")
    BY <1>2, <1>3, <1>5 DEF Complete, Reply
  <2>3. QED
    BY <1>1, <1>4, <2>1, <2>2, SmoothOff
<1>6. CASE Fail(h) /\ Exhausted(h)
  <2>1. row'.state = "failed"
    BY <1>2, <1>3, <1>6, Ready DEF Fail, Typed, Row
  <2>2. handler' = [handler EXCEPT ![h] = Idle] /\ Settled("completed")
    BY <1>2, <1>3, <1>6 DEF Fail, Reply
  <2>3. QED
    BY <1>1, <1>4, <2>1, <2>2, SmoothOff DEF Decided
<1>7. CASE Fail(h) /\ ~Exhausted(h)
  <2> DEFINE x == [state |-> "retryable_failed", live |-> FALSE, final |-> ~handler[h].retryable]
  <2>1. /\ attempts' = [attempts EXCEPT ![a] = x]
        /\ handler' = [handler EXCEPT ![h] = Idle] /\ Settled("failed")
    BY <1>2, <1>3, <1>7 DEF Fail, Closed, Reply
  <2>2. job.retries < RetryLimit
    <3>1. a < MaxAttempts
      BY <1>1, <1>7, Ready, ConstantsAssumption DEF Exhausted, Local, Typed
    <3>2. QED
      BY <1>1, <3>1, ConstantsAssumption
  <2>3. job'.state = "retry" /\ job'.retries = job.retries + 1
    BY <1>1, <2>1, <2>2 DEF Settled, Job
  <2>4. x \in Attempt /\ x.state # "active" /\ attempts \in Seq(Attempt) /\ a \in 1 .. Len(attempts)
    BY <1>1, Ready DEF Attempt, Typed, Holds, Local
  <2> HIDE DEF x
  <2>5. /\ Len(attempts') = Len(attempts) /\ attempts'[a] = x
        /\ \A b \in 1 .. Len(attempts) : b # a => attempts'[b] = attempts[b]
    BY <2>1, <2>4, SetElement
  <2>6. NoneActive(attempts')
    BY <1>1, <2>4, <2>5 DEF NoneActive, Inv, RowsOK
  <2>7. QED
    BY <1>1, <2>1, <2>3, <2>5, <2>6, SmoothOff DEF Waiting
<1>8. QED
  BY <1>5, <1>6, <1>7

(* While nothing has gone wrong no lease lapses and no delivery expires.     *)
LEMMA SmoothTime ==
    ASSUME Inv, QueueOK, Smooth, Lapse \/ Expire, faults = 0
    PROVE  FALSE
<1>1. CASE Lapse
  <2>1. PICK a \in 1 .. Len(attempts) : attempts[a].state = "active" /\ ~Renewed(a)
    BY <1>1, Basics DEF Lapse, Active, Inv
  <2>2. a = Len(attempts) /\ row.state = "working"
    BY <2>1 DEF Inv, RowsOK
  <2>3. job.state = "active"
    <3>1. job.state \notin {"absent", "created", "retry"}
      BY <2>1 DEF Smooth, Waiting, NoneActive
    <3>2. job.state # "cancelled"
      BY <2>1 DEF QueueOK
    <3>3. job.state \notin {"completed", "failed"}
      BY <2>2 DEF Smooth, Decided
    <3>4. QED
      BY <3>1, <3>2, <3>3 DEF QueueOK, Job
  <2>4. /\ job.holder \in Handler
        /\ Undisturbed(handler[job.holder], job.holder, job, attempts)
        /\ handler[job.holder].at # "idle"
    BY <2>3 DEF Smooth, QueueOK
  <2>5. handler[job.holder].attempt = a /\ ~handler[job.holder].stalled
    BY <2>1, <2>2, <2>4 DEF Undisturbed, NoneActive, Unclaimed
  <2>6. QED
    BY <2>1, <2>4, <2>5 DEF Renewed
<1>2. CASE Expire
  BY <1>2 DEF Expire, QueueOK, Smooth, Undisturbed
<1>3. QED
  BY <1>1, <1>2

(* Nobody but the handler of a delivery has anything to do.                 *)
LEMMA SmoothSession ==
    ASSUME Inv, QueueOK, Smooth, faults = 0, faults' = 0, NEW h \in Handler,
           \/ Begin(h) \/ Ask(h) \/ Reserve(h) \/ AssertOwnership(h) \/ Send(h) \/ Answer(h)
           \/ ReserveOperation(h) \/ CompleteOperation(h) \/ Concluded(h) \/ Propose(h) \/ Freeze(h) \/ Abort(h)
    PROVE  Smooth'
<1>1. handler[h].at \notin Unclaimed /\ UNCHANGED <<attempts, job>>
  BY DEF Begin, Ask, Reserve, AssertOwnership, Send, Answer, ReserveOperation, CompleteOperation,
         Concluded, Propose, Freeze, Abort, Running, Unclaimed
<1>2. handler \in [Handler -> Local] /\ handler[h] \in Local
  BY Ready DEF Typed
<1> DEFINE Onward == /\ handler'[h].at \notin Unclaimed
                     /\ handler'[h].attempt = handler[h].attempt
                     /\ handler'[h].stalled = handler[h].stalled
                     /\ \A g \in Handler \ {h} : handler'[g] = handler[g]
<1> SUFFICES Onward
  BY <1>1, SmoothOn
<1>3. ASSUME NEW b, Throw(h, b)
      PROVE  Onward
  BY <1>2, <1>3 DEF Throw, Local, Unclaimed
<1>4. ASSUME NEW at \in Phase \ Unclaimed, Goto(h, at)
      PROVE  Onward
  BY <1>2, <1>4 DEF Goto, Local
<1>5. Phase \ Unclaimed = {"begin", "loop", "owned", "begun", "asserted", "sent", "tool",
                           "tooling", "concluded", "propose", "freezing", "complete", "failing"}
  BY DEF Phase, Unclaimed
<1>6. CASE Begin(h)
  <2>1. CASE handler' = [handler EXCEPT ![h].at = "loop", ![h].turns = row.turns,
                                        ![h].calls = row.calls]
    BY <1>2, <2>1 DEF Local, Unclaimed
  <2>2. QED
    BY <1>3, <1>4, <1>5, <1>6, <2>1 DEF Begin
<1>7. CASE Ask(h)
  <2>1. CASE \E b \in BOOLEAN : Throw(h, b)
    BY <1>3, <2>1
  <2>2. CASE \E f, n : handler' = [handler EXCEPT ![h].at = "owned", ![h].final = f, ![h].turns = n]
    BY <1>2, <2>2 DEF Local, Unclaimed
  <2>3. QED
    BY <1>7, <2>1, <2>2 DEF Ask
<1>8. CASE Reserve(h)
  BY <1>3, <1>4, <1>5, <1>8 DEF Reserve
<1>9. CASE AssertOwnership(h) \/ Send(h)
  BY <1>3, <1>4, <1>5, <1>9 DEF AssertOwnership, Send
<1>10. CASE Answer(h)
  <2>1. CASE AnswerLost(h) \/ AnswerRejected(h)
    BY <1>3, <2>1 DEF AnswerLost, AnswerRejected
  <2>2. CASE AnswerConcludes(h)
    <3>1. PICK c, b : handler' = [handler EXCEPT ![h].at = "concluded", ![h].cites = c,
                                     ![h].abstains = b, ![h].turns = Answered(h)]
      BY <2>2 DEF AnswerConcludes
    <3>2. QED
      BY <1>2, <3>1 DEF Local, Unclaimed
  <2>3. CASE AnswerCallsTool(h)
    <3>1. CASE handler' = [handler EXCEPT ![h].at = "tool", ![h].turns = Answered(h),
                                          ![h].calls = @ + 1]
      BY <1>2, <3>1 DEF Local, Unclaimed
    <3>2. CASE handler' = [handler EXCEPT ![h].at = "loop", ![h].turns = Answered(h),
                                          ![h].final = TRUE]
      BY <1>2, <3>2 DEF Local, Unclaimed
    <3>3. QED
      BY <1>3, <2>3, <3>1, <3>2 DEF AnswerCallsTool
  <2>4. QED
    BY <1>10, <2>1, <2>2, <2>3 DEF Answer
<1>11. CASE ReserveOperation(h)
  <2>1. CASE \E b : Throw(h, b)
    BY <1>3, <2>1
  <2>2. CASE \E n : handler' = [handler EXCEPT ![h].at = "tooling", ![h].op = n]
    BY <1>2, <2>2 DEF Local, Unclaimed
  <2>3. CASE handler' = [handler EXCEPT ![h].at = "loop", ![h].final = TRUE]
    BY <1>2, <2>3 DEF Local, Unclaimed
  <2>4. QED
    BY <1>4, <1>5, <1>11, <2>1, <2>2, <2>3 DEF ReserveOperation
<1>12. CASE CompleteOperation(h)
  <2>1. CASE \E b : Throw(h, b)
    BY <1>3, <2>1
  <2>2. CASE \E e : handler' = [handler EXCEPT ![h].at = "loop", ![h].seen = @ \cup {e}]
    BY <1>2, <2>2 DEF Local, Unclaimed
  <2>3. QED
    BY <1>4, <1>5, <1>12, <2>1, <2>2 DEF CompleteOperation
<1>13. CASE Concluded(h) \/ Propose(h) \/ Freeze(h)
  BY <1>3, <1>4, <1>5, <1>13 DEF Concluded, Propose, Freeze
<1>14. CASE Abort(h)
  BY <1>1, <1>2, <1>14 DEF Abort, Local
<1>15. QED
  BY <1>6, <1>7, <1>8, <1>9, <1>10, <1>11, <1>12, <1>13, <1>14

LEMMA FaultsGrow ==
    ASSUME QueueOK, [Next]_vars, faults' = 0
    PROVE  faults = 0
<1>1. faults \in Nat
  BY ConstantsAssumption DEF QueueOK
<1>2. ASSUME NEW h \in Handler, Claim(h) \/ Complete(h) \/ Fail(h)
      PROVE  UNCHANGED faults \/ Fault
  BY <1>2 DEF Claim, ClaimTerminal, ClaimBusy, ClaimFails, ClaimAttempt, ClaimError, Complete, Fail
<1>3. ASSUME NEW h \in Handler, Begin(h) \/ Ask(h) \/ Reserve(h) \/ AssertOwnership(h) \/ Send(h) \/ Answer(h)
      PROVE  UNCHANGED faults \/ Fault
  BY <1>3 DEF Begin, Ask, Reserve, AssertOwnership, Send, Answer, AnswerLost, AnswerRejected,
     AnswerConcludes, AnswerCallsTool
<1>4. ASSUME NEW h \in Handler,
             \/ ReserveOperation(h) \/ CompleteOperation(h) \/ Concluded(h) \/ Propose(h)
             \/ Freeze(h) \/ Deliver(h) \/ Abort(h) \/ Stall(h) \/ Resume(h) \/ Crash(h)
      PROVE  UNCHANGED faults \/ Fault
  BY <1>4 DEF ReserveOperation, CompleteOperation, Concluded, Propose, Freeze, Deliver, Abort,
     Stall, Resume, Crash
<1>5. CASE UNCHANGED vars \/ Start \/ Retire \/ Lapse \/ Expire
  BY <1>5 DEF vars, Start, Retire, Lapse, Expire
<1>6. UNCHANGED faults \/ Fault
  BY <1>2, <1>3, <1>4, <1>5 DEF Next, Step
<1>7. QED
  BY <1>1, <1>6 DEF Fault

LEMMA SmoothNext == Inv /\ QueueOK /\ Smooth /\ [Next]_vars => Smooth'
<1> SUFFICES ASSUME Inv, QueueOK, Smooth, [Next]_vars, faults' = 0
             PROVE  Smooth'
  BY DEF Smooth
<1>1. faults = 0 /\ job \in Job
  BY FaultsGrow DEF QueueOK
<1>2. CASE UNCHANGED vars
  BY <1>2 DEF vars, Smooth
<1>3. CASE Start
  <2>1. job.state = "absent" /\ UNCHANGED <<handler, attempts, faults>>
    BY <1>3 DEF Start, QueueOK
  <2>2. job'.state = "created" /\ job'.retries = job.retries
    BY <1>1, <1>3 DEF Start, Job
  <2>3. Waiting(job', attempts')
    BY <1>1, <2>1, <2>2 DEF Smooth, Waiting
  <2>4. \A h \in Handler : handler[h].at = "idle" /\ ~handler[h].stalled
    BY <1>1, <2>1 DEF Smooth, Undisturbed
  <2>5. \A h \in Handler : Undisturbed(handler'[h], h, job', attempts')
    BY <2>1, <2>4 DEF Undisturbed, Unclaimed
  <2>6. QED
    BY <2>2, <2>3, <2>5 DEF Smooth
<1>4. CASE Retire
  <2>1. job.state = "created" /\ UNCHANGED <<handler, attempts, faults>> /\ job'.state = "cancelled"
    BY <1>1, <1>4 DEF Retire, Job
  <2>2. \A h \in Handler : handler[h].at = "idle" /\ ~handler[h].stalled
    BY <1>1, <2>1 DEF Smooth, Undisturbed
  <2>3. \A h \in Handler : Undisturbed(handler'[h], h, job', attempts')
    BY <2>1, <2>2 DEF Undisturbed, Unclaimed
  <2>4. QED
    BY <2>1, <2>3 DEF Smooth
<1>5. ASSUME NEW h \in Handler, Deliver(h)
      PROVE  Smooth'
  <2>1. /\ job.state \in {"created", "retry"} /\ UNCHANGED attempts
        /\ job' = [job EXCEPT !.state = "active", !.holder = h]
        /\ handler' = [handler EXCEPT ![h].at = "claim"]
    BY <1>5 DEF Deliver, Goto
  <2>2. job'.state = "active" /\ job'.holder = h /\ job'.retries = job.retries
    BY <1>1, <2>1 DEF Job
  <2>3. \A g \in Handler : handler[g].at = "idle" /\ ~handler[g].stalled
    BY <1>1, <2>1 DEF Smooth, Undisturbed
  <2>4. /\ handler'[h].at = "claim" /\ ~handler'[h].stalled
        /\ \A g \in Handler \ {h} : handler'[g] = handler[g]
    BY <2>1, <2>3, Ready DEF Typed, Local
  <2>5. Waiting(job', attempts')
    BY <1>1, <2>1, <2>2 DEF Smooth, Waiting
  <2>6. \A g \in Handler : Undisturbed(handler'[g], g, job', attempts')
    BY <2>2, <2>3, <2>4, <2>5 DEF Undisturbed, Waiting, Unclaimed
  <2>7. QED
    BY <2>2, <2>4, <2>6 DEF Smooth
<1>6. ASSUME NEW h \in Handler, Stall(h) \/ Crash(h) \/ Resume(h)
      PROVE  FALSE
  BY <1>1, <1>6 DEF Stall, Crash, Resume, Fault, Smooth, Undisturbed
<1>7. QED
  BY <1>1, <1>2, <1>3, <1>4, <1>5, <1>6, SmoothClaim, SmoothVerdict, SmoothTime, SmoothSession
     DEF Next, Step

LEMMA InitSmooth == Init => Smooth
<1> SUFFICES ASSUME Init
             PROVE  Smooth
  OBVIOUS
<1>1. \A h \in Handler : handler[h].at = "idle" /\ ~handler[h].stalled
  BY DEF Init, Idle
<1>2. job.state = "absent" /\ job.retries = 0 /\ Len(attempts) = 0
  BY DEF Init
<1>3. QED
  BY <1>1, <1>2 DEF Smooth, Undisturbed, Unclaimed, Waiting, NoneActive

(* A job is left undecided with no delivery to come only when a process has  *)
(* crashed or stalled or a step has met an error: the queue's redeliveries   *)
(* outlast the attempts, whatever the numbers of both.                      *)
THEOREM QueueOutlastsAttempts == Spec => []StrandedOnlyByFault
<1>1. Init => QueueOK /\ Smooth
  BY InitBudget, InitSmooth
<1>2. Inv /\ QueueOK /\ Smooth /\ [Next]_vars => (QueueOK /\ Smooth)'
  BY QueueNext, SmoothNext
<1>3. QueueOK /\ Smooth => StrandedOnlyByFault
  BY ConstantsAssumption DEF QueueOK, Smooth, StrandedOnlyByFault
<1>4. QED
  BY <1>1, <1>2, <1>3, Invariance, PTL DEF Spec
=============================================================================
