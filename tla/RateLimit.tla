------------------------------- MODULE RateLimit -------------------------------
(***************************************************************************)
(* The limit on requests: whose budget a request is charged to, which      *)
(* budget of theirs, and whether it still has room.  Budgets are counted   *)
(* per fixed window of the database's clock.                               *)
(***************************************************************************)
EXTENDS Naturals, FiniteSets, SequencesExt

CONSTANTS
    Limit,           \* policies[action].limit
    WindowSeconds    \* policies[action].windowSeconds

NoBucket == [started |-> 0, count |-> 0]
----------------------------------------------------------------------------
\* resolveRateLimitSubject: `forwarded` is the list of addresses a request went through,
\* each proxy appending the one it was called from; `trusted` of them are our own, and
\* zero says none is configured.  "unavailable" is the error it throws.
ResolveRateLimitSubject(forwarded, trusted, production, directAddress) ==
    IF trusted = 0
    THEN IF production THEN "unavailable" ELSE directAddress
    ELSE IF trusted > Len(forwarded) THEN "unavailable"
    ELSE forwarded[Len(forwarded) - trusted + 1]

\* classifyRateLimitAction: the first rule whose part is in the path decides.  A rule
\* has one action for GET and one for everything else; "none" goes on to the next rule.
Rules == <<[part |-> "/api/health/readiness", get |-> "readiness", other |-> "readiness"],
           [part |-> "/api/health", get |-> "health", other |-> "health"],
           [part |-> "/callback", get |-> "oauth_callback", other |-> "oauth_callback"],
           [part |-> "/api/auth/", get |-> "auth", other |-> "auth"],
           [part |-> "/publications", get |-> "poll", other |-> "publication"],
           [part |-> "/human-review", get |-> "poll", other |-> "human_review"],
           [part |-> "", get |-> "poll", other |-> "none"],
           [part |-> "/repositories/selected", get |-> "poll", other |-> "repository_select"],
           [part |-> "/repositories/profile", get |-> "poll", other |-> "profile_detect"],
           [part |-> "/repositories", get |-> "poll", other |-> "repository_connect"],
           [part |-> "/installations", get |-> "poll", other |-> "repository_connect"],
           [part |-> "/api/repair-runs", get |-> "poll", other |-> "repair_start"],
           [part |-> "", get |-> "poll", other |-> "workflow_start"]>>

ClassifyRateLimitAction(parts, method) ==
    LET Action(rule) == IF method = "GET" THEN rule.get ELSE rule.other
    IN  Action(Rules[SelectInSeq(Rules, LAMBDA rule :
                        rule.part \in parts \cup {""} /\ Action(rule) # "none")])

\* consumeRateLimit at one moment: a new window starts a new bucket, a full one is
\* left alone.  Expired buckets are deleted beside it, which no later request sees.
WindowOf(now) == (now \div WindowSeconds) * WindowSeconds

ConsumeRateLimit(bucket, now) ==
    LET current == IF bucket.count > 0 /\ bucket.started = WindowOf(now)
                   THEN bucket ELSE [started |-> WindowOf(now), count |-> 0]
        allowed == current.count < Limit
    IN  [bucket |-> IF allowed THEN [current EXCEPT !.count = @ + 1] ELSE current,
         allowed |-> allowed,
         retryAfterSeconds |-> current.started + WindowSeconds - now]

\* Requests at the given moments, one after the other: the moments that were allowed.
AllowedAt(moments) ==
    FoldLeft(LAMBDA walk, now :
                LET answer == ConsumeRateLimit(walk.bucket, now)
                IN  [bucket |-> answer.bucket,
                     allowed |-> IF answer.allowed THEN Append(walk.allowed, now) ELSE walk.allowed],
             [bucket |-> NoBucket, allowed |-> <<>>], moments).allowed

Within(moments, from, seconds) ==
    Len(SelectSeq(moments, LAMBDA now : from <= now /\ now < from + seconds))
----------------------------------------------------------------------------
\* A window admits the limit and no more, and any span as long as a window twice
\* the limit; who is refused and waits as told is admitted if nobody else comes.
LimitHolds(moments) ==
    LET allowed == AllowedAt(moments)
    IN  \A i \in DOMAIN moments :
            /\ Within(allowed, WindowOf(moments[i]), WindowSeconds)
                 = LET asked == Within(moments, WindowOf(moments[i]), WindowSeconds)
                   IN  IF asked < Limit THEN asked ELSE Limit
            /\ Within(allowed, moments[i], WindowSeconds) <= 2 * Limit
            /\ i = Len(moments) =>
                 LET refused == ConsumeRateLimit([started |-> WindowOf(moments[i]), count |-> Limit], moments[i])
                 IN  ~refused.allowed /\ ConsumeRateLimit(refused.bucket, moments[i] + refused.retryAfterSeconds).allowed

\* What a client writes into the header itself does not change whom it is charged as.
SubjectIsNotWritten(written, appended, trusted) ==
    Len(appended) >= trusted /\ trusted > 0 =>
        ResolveRateLimitSubject(written \o appended, trusted, TRUE, "")
            = ResolveRateLimitSubject(appended, trusted, TRUE, "")

\* Reading is charged apart from changing: no poll takes from the budget of a change.
PollsAreApart(parts) ==
    LET get == ClassifyRateLimitAction(parts, "GET")
        other == ClassifyRateLimitAction(parts, "POST")
    IN  get # other \/ get \in {"readiness", "health", "oauth_callback", "auth"}
================================================================================
