------------------------------ MODULE Readiness ------------------------------
(***************************************************************************)
(* When the web process calls itself ready (evaluateReadiness): the facts  *)
(* it reads from the database one by one, some of them about whichever     *)
(* worker it chose to report, against what being ready is to mean.         *)
(***************************************************************************)
EXTENDS Naturals, FiniteSets, SequencesExt

CONSTANTS
    WebRelease,     \* the web process's own release
    ExpectedSchema, \* EXPECTED_SCHEMA_VERSION
    Manifest,       \* MIGRATION_MANIFEST: the migrations, in order
    Queues          \* configuredRepairQueues, by name

ExecutionTables == {"grant", "acceptance"}
PublicationTables == {"publication", "rate_limit", "heartbeat"}
Tables == {"queue", "job"} \cup ExecutionTables \cup PublicationTables
Guards == {"execution", "publication", "heartbeat"}

\* validateMigrationLedger; "refused" stands for the two errors it throws.
ValidateMigrationLedger(entries) ==
    IF ~IsPrefix(entries, Manifest) THEN "refused"
    ELSE IF Len(entries) = Len(Manifest) THEN "complete" ELSE "pending"
----------------------------------------------------------------------------
\* A worker: [release, schema, state, age], the age of its last heartbeat in seconds.
Live(workers) == {w \in workers : w.state # "stopped"}
Fresh(w) == w.state = "ready" /\ w.age <= 45
Serves(w) == Fresh(w) /\ w.release = WebRelease /\ w.schema = ExpectedSchema
Rank(w) == IF Serves(w) THEN 0 ELSE IF Fresh(w) THEN 1 ELSE 2

\* The workers the query may report: the best rank, then the latest heartbeat.
Reported(workers) ==
    {w \in workers : \A v \in workers : Rank(w) < Rank(v) \/ (Rank(w) = Rank(v) /\ w.age <= v.age)}

\* readDatabaseFacts.  A database is [answers, ledger, tables, guards, queues, workers];
\* the heartbeats are read only if their table is there.
Facts(db, worker) ==
    LET workers == IF "heartbeat" \in db.tables THEN Live(db.workers) ELSE {}
    IN  [database |-> TRUE,
         migrationLedger |-> ValidateMigrationLedger(db.ledger) = "complete",
         queueSchema |-> {"queue", "job"} \subseteq db.tables,
         queueSet |-> (IF "queue" \in db.tables THEN db.queues ELSE << >>) = Queues,
         workerPresent |-> workers # {},
         workerFresh |-> \E w \in workers : Fresh(w),
         executionAuthoritySchema |-> ExecutionTables \subseteq db.tables /\ "execution" \in db.guards,
         publicationSchema |->
            PublicationTables \subseteq db.tables /\ {"publication", "heartbeat"} \subseteq db.guards,
         release |-> worker # {} /\ \A w \in worker : w.release = WebRelease,
         schema |-> worker # {} /\ \A w \in worker : w.schema = ExpectedSchema]

ReadDatabaseFacts(db) ==
    LET workers == IF "heartbeat" \in db.tables THEN Live(db.workers) ELSE {}
    IN  IF workers = {} THEN {Facts(db, {})} ELSE {Facts(db, {w}) : w \in Reported(workers)}

CheckDefinitions == <<
    <<"database", "database_unavailable">>,
    <<"migrationLedger", "migration_history_mismatch">>,
    <<"queueSchema", "queue_schema_missing">>,
    <<"queueSet", "queue_registration_incomplete">>,
    <<"workerPresent", "worker_missing">>,
    <<"workerFresh", "worker_stale">>,
    <<"executionAuthoritySchema", "execution_authority_schema_mismatch">>,
    <<"publicationSchema", "publication_schema_mismatch">>,
    <<"release", "worker_release_mismatch">>,
    <<"schema", "worker_schema_mismatch">> >>

\* The code of the first check that fails; a query that throws fails them all.
EvaluateReadiness(facts) ==
    LET failed == SelectSeq(CheckDefinitions, LAMBDA check : ~facts[check[1]])
    IN  IF failed = << >> THEN "ready" ELSE failed[1][2]

Results(db) ==
    IF ~db.answers THEN {EvaluateReadiness([key \in {c[1] : c \in Range(CheckDefinitions)} |-> FALSE])}
    ELSE {EvaluateReadiness(facts) : facts \in ReadDatabaseFacts(db)}

GetReadinessResult(configured, db) ==
    IF ~configured THEN {"readiness_configuration_invalid"} ELSE Results(db)
----------------------------------------------------------------------------
\* Ready is to mean that one and the same worker is up, of this release and schema,
\* beside a database that is exactly what the release expects.
Served(db) ==
    /\ db.answers /\ db.ledger = Manifest /\ db.tables = Tables /\ db.guards = Guards
    /\ db.queues = Queues /\ \E w \in db.workers : Serves(w)

\* The checks look at their facts apart, two of them at the reported worker only; yet
\* together they pass exactly if the service is served, whichever worker is reported.
ReadyMeansServed(db) == GetReadinessResult(TRUE, db) = {"ready"} <=> Served(db)
NeverBoth(db) == "ready" \in GetReadinessResult(TRUE, db) => GetReadinessResult(TRUE, db) = {"ready"}

\* A reason about workers tells the truth: none up, none fresh, none that serves.
ReasonsHold(db) ==
    \A reason \in GetReadinessResult(TRUE, db) :
        CASE reason = "worker_missing" -> db.tables = Tables => Live(db.workers) = {}
          [] reason = "worker_stale"   -> \A w \in db.workers : ~Fresh(w)
          [] reason \in {"worker_release_mismatch", "worker_schema_mismatch"} ->
                (\E w \in db.workers : Fresh(w)) /\ \A w \in db.workers : ~Serves(w)
          [] OTHER -> TRUE
=============================================================================
