-------------------------- MODULE ExternalExecution --------------------------
(***************************************************************************)
(* The external-execution authority: the only way the program may spend    *)
(* money at a provider (Gemini, Vercel Sandbox).  An operation asks for a   *)
(* reservation against an account grant and an operation grant, receives a *)
(* permit, and uses the permit for every request it puts on the wire.      *)
(*                                                                         *)
(* One action is one PostgreSQL transaction, or one step of the process    *)
(* that holds the permit between two transactions.  Every transaction      *)
(* takes the semaphore row first (lockExternalExecution), so transactions  *)
(* are serial; what interleaves is what happens between them.              *)
(***************************************************************************)
EXTENDS Integers, Sequences, FiniteSets

CONSTANTS
    Run,            \* repair runs
    Account,        \* grants of scope "account"
    Operation,      \* grants of scope "operation" or "one_shot"
    Reservation,    \* operation keys; a key names at most one reservation
    RunOf,          \* RunOf[g]: the run operation grant g is bound to
    CategoryOf,     \* CategoryOf[g]: the operation category of g
    ExpiresAt,      \* ExpiresAt[g]: the instant at which grant g lapses
    Budget,         \* Budget[g][d]: the ceiling of grant g in dimension d
    MaxConcurrent,  \* MaxConcurrent[a]: leases account a tolerates at once
    SandboxAttempts,\* provider attempts a Sandbox permit reserves (96)
    LeaseTime,      \* leaseMs
    MaxTime         \* bound on the clock: the clock stops there

Grant == Account \cup Operation

GeminiCategory  == {"gemini_investigation", "gemini_candidate_generation"}
SandboxCategory == {"sandbox_baseline", "sandbox_verification"}
VigiloCategory  == {"repair_loop_iteration", "release_acceptance_one_shot"}
Category == GeminiCategory \cup SandboxCategory \cup VigiloCategory

Dimension == {"logicalRequests", "providerAttempts", "sandboxIdentities",
              "verificationAttempts", "repairLoopIterations"}

(* What the callers reserve for: "work" is the operation itself,           *)
(* "recovery" the cleanup of a Sandbox that a durable attempt row names     *)
(* (request.cleanup).                                                      *)
Purpose == {"work", "recovery"}

ASSUME GrantAssumption ==
    /\ Account \cap Operation = {}
    /\ RunOf \in [Operation -> Run]
    /\ CategoryOf \in [Operation -> Category]
    /\ ExpiresAt \in [Grant -> Nat]
    /\ Budget \in [Grant -> [Dimension -> Nat]]
    /\ MaxConcurrent \in [Account -> Nat \ {0}]
ASSUME FiniteAssumption == IsFiniteSet(Reservation) /\ IsFiniteSet(Account)
ASSUME BoundAssumption ==
    /\ SandboxAttempts \in Nat \ {0}
    /\ LeaseTime \in Nat \ {0}
    /\ MaxTime \in Nat

VARIABLES
    now,         \* clock_timestamp()
    revoked,     \* grants with an execution_budget_grant_revocation row
    exhausted,   \* runs whose AI operation failed execution_budget_exhausted
    reservation, \* external_execution_reservation, by operation key
    lease,       \* external_execution_lease, by operation key
    attempt,     \* the attempt_* events, by operation key and ordinal
    permit,      \* the permit object in the memory of the owning process
    session      \* SandboxTransportPolicy.sessionId is known to the permit

vars == <<now, revoked, exhausted, reservation, lease, attempt, permit, session>>

NoRequest == [account |-> "none", grant |-> "none", purpose |-> "none"]
NoLease   == [state |-> "none", expiresAt |-> 0]

Request == [account : Account, grant : Operation, purpose : Purpose]
Lease == [state : {"active", "succeeded", "failed", "ambiguous", "expired"},
          expiresAt : Nat]
Kind == {"create", "business", "cleanup"}
Attempt == [kind : Kind,
            outcome : {"started", "succeeded", "failed", "ambiguous"},
            phase : {"admitted", "authorized", "sent", "confirming", "done"},
            onWire : BOOLEAN]

-----------------------------------------------------------------------------
(* Reservations and what they hold                                         *)

Issued == {r \in Reservation : lease[r].state # "none"}

CategoryOfReservation(r) == CategoryOf[reservation[r].grant]
OfRun(run) == {r \in Issued : RunOf[reservation[r].grant] = run}
Under(g) == {r \in Issued : g \in {reservation[r].account, reservation[r].grant}}

(* The amounts each caller asks for.                                       *)
Amounts(category, purpose) ==
    [d \in Dimension |->
        CASE d = "logicalRequests" -> 1
          [] d = "providerAttempts" ->
                IF category \in SandboxCategory THEN SandboxAttempts
                ELSE IF category \in GeminiCategory THEN 1 ELSE 0
          [] d = "sandboxIdentities" ->
                IF category \in SandboxCategory /\ purpose = "work" THEN 1 ELSE 0
          [] d = "verificationAttempts" ->
                IF category = "sandbox_verification" /\ purpose = "work" THEN 1 ELSE 0
          [] d = "repairLoopIterations" ->
                IF category = "repair_loop_iteration" THEN 1 ELSE 0]

Reserved(r) == Amounts(CategoryOfReservation(r), reservation[r].purpose)

(* One element per reserved unit: the sum of the reserved amounts is the    *)
(* number of units.                                                         *)
Units(g, d) == UNION {{r} \X (1 .. Reserved(r)[d]) : r \in Under(g)}
Used(g, d) == Cardinality(Units(g, d))

Fits(g, amounts) == \A d \in Dimension : Used(g, d) + amounts[d] <= Budget[g][d]

-----------------------------------------------------------------------------
(* Authority at this instant                                               *)

LiveGrant(g) == ExpiresAt[g] > now /\ g \notin revoked
LiveGrants(r) == LiveGrant(reservation[r].account) /\ LiveGrant(reservation[r].grant)

Fresh(r) == lease[r].expiresAt > now
LiveLease(r) == lease[r].state = "active" /\ Fresh(r)

(* Mutant of Owned: the grants are only looked at by reserve.               *)
OwnedWithoutGrants(r) == permit[r] = "held" /\ LiveLease(r)
(* owned() with its defaults, and as a failed or ambiguous outcome needs it *)
Owned(r) == permit[r] = "held" /\ LiveLease(r) /\ LiveGrants(r)
OwnedForFailure(r) == permit[r] = "held" /\ lease[r].state = "active"

Lapsed(run) == \E r \in OfRun(run) : \E o \in DOMAIN attempt[r] :
                  attempt[r][o].outcome = "started" /\ ~LiveLease(r)
RecordedAmbiguity(run) ==
    \E r \in OfRun(run) :
        \/ lease[r].state = "ambiguous"
        \/ \E o \in DOMAIN attempt[r] : attempt[r][o].outcome = "ambiguous"
(* Mutant of Uncertain: a start without an outcome is not looked for.       *)
UncertainByOutcome(run) == RecordedAmbiguity(run)
Uncertain(run) == RecordedAmbiguity(run) \/ Lapsed(run)

(* assertRunBusinessAllowed *)
BusinessAllowed(run) == ~Uncertain(run) /\ run \notin exhausted
BusinessAllowedFor(r) == BusinessAllowed(RunOf[reservation[r].grant])

-----------------------------------------------------------------------------
Init ==
    /\ now = 0
    /\ revoked = {}
    /\ exhausted = {}
    /\ reservation = [r \in Reservation |-> NoRequest]
    /\ lease = [r \in Reservation |-> NoLease]
    /\ attempt = [r \in Reservation |-> << >>]
    /\ permit = [r \in Reservation |-> "none"]
    /\ session = [r \in Reservation |-> FALSE]

-----------------------------------------------------------------------------
(* DurableExternalExecutionAuthorizer.reserve                              *)

(* Exactly one live account grant, and exactly one live operation grant of *)
(* the request's scope; only the one-shot bootstrap names its grants.      *)
SameScope(g) == {h \in Operation : RunOf[h] = RunOf[g] /\ CategoryOf[h] = CategoryOf[g]}
Resolves(a, g) ==
    IF CategoryOf[g] = "release_acceptance_one_shot"
    THEN LiveGrant(a) /\ LiveGrant(g)
    ELSE /\ {b \in Account : LiveGrant(b)} = {a}
         /\ {h \in SameScope(g) : LiveGrant(h)} = {g}

(* A cleanup request needs the durable attempt row of an earlier Sandbox of *)
(* the same run and category; every other request must pass the run fence. *)
Admissible(g, purpose) ==
    CASE purpose = "recovery" ->
            /\ CategoryOf[g] \in SandboxCategory
            /\ \E r \in OfRun(RunOf[g]) : /\ CategoryOfReservation(r) = CategoryOf[g]
                                          /\ reservation[r].purpose = "work"
      [] purpose = "work" -> BusinessAllowed(RunOf[g])

Earliest(S) == CHOOSE t \in S : \A u \in S : t <= u
NewExpiry(a, g) == Earliest({now + LeaseTime, ExpiresAt[a], ExpiresAt[g]})

(* Every active lease whose expiry has passed becomes "expired".           *)
Swept == [r \in Reservation |->
            IF lease[r].state = "active" /\ ~Fresh(r)
            THEN [lease[r] EXCEPT !.state = "expired"] ELSE lease[r]]

(* The live leases of all accounts count against the resolved account.      *)
LiveLeases == Cardinality({s \in Reservation : LiveLease(s)})
(* Mutant of SlotFree: one lease too many.                                  *)
SlotFreeOffByOne(a) == LiveLeases <= MaxConcurrent[a]
SlotFree(a) == LiveLeases < MaxConcurrent[a]

Reserve(r, a, g, purpose) ==
    /\ r \notin Issued
    /\ Admissible(g, purpose)
    /\ Resolves(a, g)
    /\ Fits(a, Amounts(CategoryOf[g], purpose))
    /\ Fits(g, Amounts(CategoryOf[g], purpose))
    /\ SlotFree(a)
    /\ reservation' = [reservation EXCEPT ![r] =
                          [account |-> a, grant |-> g, purpose |-> purpose]]
    /\ lease' = [Swept EXCEPT ![r] = [state |-> "active", expiresAt |-> NewExpiry(a, g)]]
    /\ permit' = [permit EXCEPT ![r] = "held"]
    /\ UNCHANGED <<now, revoked, exhausted, attempt, session>>

-----------------------------------------------------------------------------
(* The provider request: begin, assertOwnership, fetch, finish             *)

IsSandbox(r) == CategoryOfReservation(r) \in SandboxCategory
IsRecovery(r) == reservation[r].purpose = "recovery"
HoldsIdentity(r) == Reserved(r)["sandboxIdentities"] = 1

(* SandboxTransportPolicy.classify: what the permit's transport admits.    *)
Classified(r, kind) ==
    IF ~IsSandbox(r) THEN kind = "business"
    ELSE CASE kind = "create"   -> ~IsRecovery(r)
           [] kind = "business" -> ~IsRecovery(r) /\ session[r]
           [] kind = "cleanup"  -> TRUE

(* Cleanup passes the run fence only as a recovery, or after a recorded    *)
(* dispatch against the identity this permit holds.                        *)
CleanupCapability(r) ==
    IsSandbox(r) /\ (IsRecovery(r) \/ (HoldsIdentity(r) /\ attempt[r] # << >>))

(* Mutant of OrdinalAllowed: the allowance is compared before the start.    *)
OrdinalAllowedBeforeStart(r, kind) ==
    /\ Len(attempt[r]) <= Reserved(r)["providerAttempts"]
    /\ HoldsIdentity(r) /\ attempt[r] = << >> => kind = "create"
    /\ kind = "create" => HoldsIdentity(r) /\ attempt[r] = << >>
(* Mutant of OrdinalAllowed: a create may be repeated.                      *)
OrdinalAllowedAnyCreate(r, kind) ==
    LET ordinal == Len(attempt[r]) + 1
    IN  /\ ordinal <= Reserved(r)["providerAttempts"]
        /\ HoldsIdentity(r) /\ ordinal = 1 => kind = "create"
OrdinalAllowed(r, kind) ==
    LET ordinal == Len(attempt[r]) + 1
    IN  /\ ordinal <= Reserved(r)["providerAttempts"]
        /\ HoldsIdentity(r) /\ ordinal = 1 => kind = "create"
        /\ kind = "create" => HoldsIdentity(r) /\ ordinal = 1

Begin(r, kind) ==
    /\ r \in Issued
    /\ Owned(r)
    /\ Classified(r, kind)
    /\ \/ kind = "cleanup" /\ CleanupCapability(r)
       \/ BusinessAllowedFor(r)
    /\ OrdinalAllowed(r, kind)
    /\ attempt' = [attempt EXCEPT ![r] =
                     Append(@, [kind |-> kind, outcome |-> "started",
                                phase |-> "admitted", onWire |-> FALSE])]
    /\ UNCHANGED <<now, revoked, exhausted, reservation, lease,
                   permit, session>>

InPhase(r, o, phase) ==
    r \in Issued /\ permit[r] = "held" /\ o \in DOMAIN attempt[r] /\ attempt[r][o].phase = phase

SetAttempt(r, o, a) == attempt' = [attempt EXCEPT ![r][o] = a]

OnlyAttemptChanges ==
    UNCHANGED <<now, revoked, exhausted, reservation, lease, permit, session>>

(* assertOwnership between the admission and the request.                  *)
Authorize(r, o) ==
    /\ InPhase(r, o, "admitted")
    /\ Owned(r)
    /\ SetAttempt(r, o, [attempt[r][o] EXCEPT !.phase = "authorized"])
    /\ OnlyAttemptChanges

(* assertOwnership refused, or the caller aborted: nothing was sent.  The  *)
(* local failure is recorded if the lease row is still active.             *)
RefuseLocally(r, o) ==
    /\ InPhase(r, o, "admitted")
    /\ SetAttempt(r, o, [attempt[r][o] EXCEPT
                            !.phase = "done",
                            !.outcome = IF OwnedForFailure(r) THEN "failed" ELSE @])
    /\ OnlyAttemptChanges

(* fetchImplementation: the request leaves the process with no further check. *)
Send(r, o) ==
    /\ InPhase(r, o, "authorized")
    /\ SetAttempt(r, o, [attempt[r][o] EXCEPT !.phase = "sent", !.onWire = TRUE])
    /\ OnlyAttemptChanges

(* When finish(ordinal, outcome) commits.                                  *)
FinishCommits(r, o, outcome) ==
    /\ attempt[r][o].outcome = "started"
    /\ IF outcome = "succeeded"
       THEN /\ Owned(r)
            /\ attempt[r][o].kind = "cleanup" \/ BusinessAllowedFor(r)
       ELSE OwnedForFailure(r)

(* The answers a request can have: a 2xx, another status, or none (also 5xx *)
(* of a create); an abort just before the request counts as none.  To the   *)
(* Gemini caller every answer but a result is none.                        *)
Answered(r, o, outcome) ==
    \/ InPhase(r, o, "sent") /\ (outcome = "failed" => IsSandbox(r))
    \/ InPhase(r, o, "authorized") /\ outcome = "ambiguous"

Settle(r, o, outcome) ==
    /\ Answered(r, o, outcome)
    /\ ~(attempt[r][o].kind = "create" /\ outcome = "succeeded")
    /\ FinishCommits(r, o, outcome)
    /\ SetAttempt(r, o, [attempt[r][o] EXCEPT !.phase = "done", !.outcome = outcome])
    /\ \/ UNCHANGED session
       \/ (* observeLookup: a GET of the exact name tells the session *)
          /\ attempt[r][o].kind = "cleanup" /\ outcome = "succeeded"
          /\ session' = [session EXCEPT ![r] = TRUE]
    /\ UNCHANGED <<now, revoked, exhausted, reservation, lease, permit>>

(* finish is refused; also when the usage exceeds the reserved tokens.     *)
SettleRefused(r, o, outcome) ==
    /\ Answered(r, o, outcome)
    /\ ~(attempt[r][o].kind = "create" /\ outcome = "succeeded")
    /\ \/ ~FinishCommits(r, o, outcome)
       \/ outcome = "succeeded" /\ CategoryOfReservation(r) \in GeminiCategory
    /\ SetAttempt(r, o, [attempt[r][o] EXCEPT !.phase = "done"])
    /\ OnlyAttemptChanges

(* A 2xx create stays unresolved until the SDK has parsed the identity.    *)
CreateAnswered(r, o) ==
    /\ InPhase(r, o, "sent")
    /\ attempt[r][o].kind = "create"
    /\ SetAttempt(r, o, [attempt[r][o] EXCEPT !.phase = "confirming"])
    /\ OnlyAttemptChanges

(* resolveSandboxCreation(identity): the identity is retained for cleanup  *)
(* even when the run fence then refuses to record the success.             *)
ConfirmCreation(r) ==
    /\ InPhase(r, 1, "confirming")
    /\ Owned(r)
    /\ session' = [session EXCEPT ![r] = TRUE]
    /\ SetAttempt(r, 1, [attempt[r][1] EXCEPT
                            !.phase = "done",
                            !.outcome = IF BusinessAllowedFor(r) THEN "succeeded" ELSE @])
    /\ UNCHANGED <<now, revoked, exhausted, reservation, lease, permit>>

(* resolveSandboxCreation(): the result of the create was lost.            *)
AbandonCreation(r) ==
    /\ InPhase(r, 1, "confirming") \/ InPhase(r, 1, "done")
    /\ attempt[r][1].kind = "create" /\ attempt[r][1].outcome = "started"
    /\ ~session[r]
    /\ OwnedForFailure(r)
    /\ SetAttempt(r, 1, [attempt[r][1] EXCEPT !.phase = "done", !.outcome = "ambiguous"])
    /\ OnlyAttemptChanges

-----------------------------------------------------------------------------
(* The lease                                                               *)

(* Mutant of Renew: an active row is enough, however long it has lapsed.    *)
RenewLapsed(r) ==
    /\ r \in Issued
    /\ OwnedForFailure(r) /\ LiveGrants(r)
    /\ lease' = [lease EXCEPT ![r].expiresAt =
                    NewExpiry(reservation[r].account, reservation[r].grant)]
    /\ UNCHANGED <<now, revoked, exhausted, reservation, attempt, permit, session>>
Renew(r) ==
    /\ r \in Issued
    /\ Owned(r)
    /\ lease' = [lease EXCEPT ![r].expiresAt =
                    NewExpiry(reservation[r].account, reservation[r].grant)]
    /\ UNCHANGED <<now, revoked, exhausted, reservation, attempt, permit, session>>

(* Mutant of Unsettled: a start without an outcome is forgotten.            *)
UnsettledByOutcome(r) == \E o \in DOMAIN attempt[r] : attempt[r][o].outcome = "ambiguous"
Unsettled(r) == \E o \in DOMAIN attempt[r] : attempt[r][o].outcome \in {"started", "ambiguous"}

Complete(r, requested) ==
    LET outcome == IF Unsettled(r) THEN "ambiguous" ELSE requested
    IN  /\ r \in Issued
        /\ IF outcome = "succeeded"
           THEN Owned(r) /\ (IsRecovery(r) \/ BusinessAllowedFor(r))
           ELSE OwnedForFailure(r)
        /\ lease' = [lease EXCEPT ![r].state = outcome]
        /\ UNCHANGED <<now, revoked, exhausted, reservation, attempt,
                       permit, session>>

-----------------------------------------------------------------------------
(* The environment                                                         *)

(* The process that holds the permit stops; its calls are never settled.   *)
Crash(r) ==
    /\ permit[r] = "held"
    /\ permit' = [permit EXCEPT ![r] = "lost"]
    /\ UNCHANGED <<now, revoked, exhausted, reservation, lease, attempt, session>>

Revoke(g) ==
    /\ g \notin revoked
    /\ revoked' = revoked \cup {g}
    /\ UNCHANGED <<now, exhausted, reservation, lease, attempt, permit, session>>

(* An AI operation of the run ended with execution_budget_exhausted: it was *)
(* denied a reservation, or its request was larger than a request may be.   *)
Exhaust(run) ==
    /\ run \notin exhausted
    /\ exhausted' = exhausted \cup {run}
    /\ UNCHANGED <<now, revoked, reservation, lease, attempt, permit, session>>

Tick ==
    /\ now < MaxTime
    /\ now' = now + 1
    /\ UNCHANGED <<revoked, exhausted, reservation, lease, attempt, permit, session>>

-----------------------------------------------------------------------------
Outcome == {"succeeded", "failed", "ambiguous"}

Next ==
    \/ \E r \in Reservation, a \in Account, g \in Operation, p \in Purpose : Reserve(r, a, g, p)
    \/ \E r \in Reservation, kind \in Kind : Begin(r, kind)
    \/ \E r \in Reservation : \E o \in DOMAIN attempt[r] :
        \/ Authorize(r, o)
        \/ RefuseLocally(r, o)
        \/ Send(r, o)
        \/ CreateAnswered(r, o)
        \/ \E outcome \in Outcome : Settle(r, o, outcome) \/ SettleRefused(r, o, outcome)
    \/ \E r \in Reservation :
        \/ ConfirmCreation(r)
        \/ AbandonCreation(r)
        \/ Renew(r)
        \/ Crash(r)
        \/ \E outcome \in Outcome : Complete(r, outcome)
    \/ \E g \in Grant : Revoke(g)
    \/ \E run \in Run : Exhaust(run)
    \/ Tick

Spec == Init /\ [][Next]_vars

-----------------------------------------------------------------------------
(* Safety                                                                  *)

(* The tables, the permits and the semaphore hold values of their types.   *)
TypeOK ==
    /\ now \in Nat
    /\ revoked \subseteq Grant
    /\ exhausted \subseteq Run
    /\ reservation \in [Reservation -> Request \cup {NoRequest}]
    /\ lease \in [Reservation -> Lease \cup {NoLease}]
    /\ attempt \in [Reservation -> Seq(Attempt)]
    /\ permit \in [Reservation -> {"none", "held", "lost"}]
    /\ session \in [Reservation -> BOOLEAN]
    /\ \A r \in Reservation : reservation[r] = NoRequest <=> lease[r] = NoLease

(* The requests that were put on the wire under grant g.                   *)
OnWire(g) == UNION {{<<r, o>> : o \in {q \in DOMAIN attempt[r] : attempt[r][q].onWire}}
                       : r \in Under(g)}
CreatesOnWire(g) == {w \in OnWire(g) : attempt[w[1]][w[2]].kind = "create"}

(* Whatever crashes, lapses or is retried, what has been reserved under a   *)
(* grant never exceeds its ceiling in any dimension, because a reservation  *)
(* is consumed for good (README.md:65, docs/operations.md:91).              *)
BudgetNeverExceeded ==
    \A g \in Grant, d \in Dimension : Used(g, d) <= Budget[g][d]

(* The provider itself never sees more requests than an account or an       *)
(* operation grant allows, nor more Sandbox creations than it has           *)
(* identities: the count is of requests sent, not of rows written.          *)
WireWithinBudget ==
    \A g \in Grant :
        /\ Cardinality(OnWire(g)) <= Budget[g]["providerAttempts"]
        /\ Cardinality(CreatesOnWire(g)) <= Budget[g]["sandboxIdentities"]

(* Slots that lapsed leases gave back are never held again by their former  *)
(* owners: an account's live leases never outnumber its concurrency.        *)
ConcurrencyBound ==
    \A a \in Account : Cardinality({r \in Under(a) : LiveLease(r)}) <= MaxConcurrent[a]

(* A lease that succeeded has no attempt whose outcome is unknown or        *)
(* ambiguous: late answers, cleanup or crashes never hide one.              *)
SucceededIsCertain ==
    \A r \in Issued : lease[r].state = "succeeded" =>
        \A o \in DOMAIN attempt[r] : attempt[r][o].outcome \in {"succeeded", "failed"}

-----------------------------------------------------------------------------
(* What a step may never do                                                *)

Succeeded(a) == {o \in DOMAIN a : a[o].outcome = "succeeded"}

(* The step lets r start an attempt, record a success, renew or succeed.    *)
Gains(r) ==
    \/ Len(attempt'[r]) > Len(attempt[r])
    \/ Succeeded(attempt'[r]) # Succeeded(attempt[r])
    \/ lease'[r].expiresAt # lease[r].expiresAt
    \/ lease'[r].state = "succeeded" /\ lease[r].state # "succeeded"

(* An owner whose lease has lapsed, or that another reservation has swept,   *)
(* can start nothing, succeed at nothing and never come back to life.        *)
StaleOwnerPowerless ==
    [][\A r \in Issued : ~LiveLease(r) => ~Gains(r)]_vars

(* From the moment either grant of a reservation is revoked or expires,      *)
(* an answer already in flight included, nothing under it succeeds.          *)
DeadGrantPowerless ==
    [][\A r \in Issued : ~LiveGrants(r) => ~Gains(r)]_vars

(* The step admits business of the run: a reservation that is no recovery,   *)
(* a start other than cleanup, a success of one, or such a lease succeeding. *)
BusinessStep(run) ==
    \/ \E r \in OfRun(run)' \ OfRun(run) : reservation'[r].purpose # "recovery"
    \/ \E r \in OfRun(run) :
        \/ \E o \in DOMAIN attempt'[r] :
              /\ attempt'[r][o].kind # "cleanup"
              /\ \/ o \notin DOMAIN attempt[r]
                 \/ o \in Succeeded(attempt'[r]) \ Succeeded(attempt[r])
        \/ /\ ~IsRecovery(r)
           /\ lease'[r].state = "succeeded" /\ lease[r].state # "succeeded"

(* A run is fenced for good by a recorded ambiguity, and by a request whose  *)
(* owner died before it learned the outcome once its lease has lapsed.       *)
FencedForGood(run) ==
    \/ RecordedAmbiguity(run)
    \/ \E r \in OfRun(run) :
          /\ permit[r] = "lost" /\ ~LiveLease(r)
          /\ \E o \in DOMAIN attempt[r] : attempt[r][o].outcome = "started"

(* README.md: further execution of such a run is fenced, and stays fenced:   *)
(* no step ever admits business of it again or lifts the fence; only the     *)
(* cleanup of its Sandboxes goes on.                                         *)
AmbiguityFencesRun ==
    [][\A run \in Run : FencedForGood(run) => FencedForGood(run)' /\ ~BusinessStep(run)]_vars

-----------------------------------------------------------------------------
(* The ledger the authority implements: every reservation is money spent.    *)
Ledger == INSTANCE AuthorityLedger WITH
    spent <- [g \in Grant |-> [d \in Dimension |-> Used(g, d)]],
    sent  <- [g \in Grant |-> Cardinality(OnWire(g))]
LedgerSpec == Ledger!Spec
=============================================================================
