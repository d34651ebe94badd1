# A TLA+ model of the CockroachDB + Airflow PoC

This directory holds TLA+ specifications of this repository, TLC configurations that
check them on small instances, and proofs that TLAPS checks for all instances. Paths
below are relative to `src/`; "the patch" is `docker/patches/airflow-crdb-compat.patch`.

To check a configuration: `tlc -workers 2 -config MCSchedulerHA_safety.cfg MCSchedulerHA`.
To check the proofs of a module: `tlapm SchedulerHAProofs.tla`.

## 1. The system

Apache Airflow with CockroachDB as its metadata database: one CockroachDB node, two
schedulers with a LocalExecutor each, an API server, a triggerer, a dag processor and an
init container, started by `docker/docker-compose.yml`. The Airflow image is the official
one with the patch applied. Scripts validate the running stack. A library written before
the patch, under `src/`, lets DAGs use CockroachDB as a data source.

### Inventory

| Component | Source | State it keeps | Operations |
|---|---|---|---|
| Scheduler critical section | the patch, lines 1-72, 197-216; `docker-compose.yml` 198-224 | rows of `task_instance`, the transaction's advisory lock, the session's transaction; per scheduler the executors' `queued_tasks` and `running`, `queued_keys_before` | skip when full, snapshot, lock, select a batch, buffer workloads, commit, roll back (55P03; 40001 / 40P01 with discard), raise |
| Retry middleware | `src/compatibility/retry_middleware.py` | per call the attempt, its session and transaction, the error at hand | `run_with_retry`, `sync_retry_with_backoff`, `retry_with_backoff`, `is_retryable_error`, `_calculate_delay`, `register_retry_listener` |
| Migration 0042 | the patch, lines 73-175; `scripts/test-migration-0042.py` | columns, keys, indexes and foreign keys of `task_instance`, ids of its rows, the helper function | `upgrade`, `downgrade`; the harness seeds, runs and asserts |
| Compose stack | `docker/docker-compose.yml`, `docker/.env.example` | database and user, isolation default, stub lock functions, schema version, state of each service | create, grant, set isolation, create stubs, migrate with retries, create the admin, start services |
| Stress validation | `scripts/validate-poc.sh`, `examples/dags/example_cockroachdb_stress.py` | counts of runs per state, lock samples, restart counts, `FAIL` | trigger, poll, sample, decide |
| Async URI, upsert dialect | the patch, lines 176-196; `airflow-crdb-upsert-3.3.patch` | none | one more table entry, one more dialect name |
| Hook | `src/provider/hooks/cockroachdb.py` | none between calls, but for the `engine_kwargs` it changes in place | connection configuration, URI, engine, connection |
| SQL dialect | `src/provider/dialects/cockroachdb.py` | none | `generate_replace_sql`, primary keys, column names |
| Asset URIs | `src/provider/assets/cockroachdb.py` | none | `sanitize_uri` |
| Migration audit | `src/compatibility/migration_utils.py`, `scripts/audit-airflow-migrations.sh` | a list of findings | scan, report |
| Version shim | `src/compatibility/pg_version_compat.py`, `src/sitecustomize.py`, `plugins/` | one replaced method | replace at import |
| Example DAGs | `examples/dags/` | a demo table, shared by all runs; task instances | create, insert, query, clean up; check version, nodes, sizes |
| Image build | `docker/Dockerfile.airflow` | which patches the image holds | decided at build time |

### How the components interact

- The two schedulers share nothing but the database. They meet at the rows of
  `task_instance` and at the advisory lock `SCHEDULER_CRITICAL_SECTION`
  (patch 21-28). Each has its own executors; the executors' queue lives in the memory of
  the scheduler process and is filled *before* the transaction that justifies it commits.
- The database answers each scheduler on its own session. It may abort a transaction at
  any time and says so only at the next statement, the commit included.
- A worker is a child of its scheduler's LocalExecutor and reports the end of a task to
  the database through the API server.
- The callers of the retry middleware meet at the rows they update.
- A task that loads data gets its connection from the hook and its statement from the
  dialect, and meets other loads in the table. Airflow runs it again when it fails. The
  dialect asks the hook for its catalogue queries, which opens a session for each. Nothing
  in the repository makes the hook use the dialect: that caller is `insert_rows` of Airflow's
  `DbApiHook`, or the task itself.
- The runs of the demo DAG meet in one table; the health check sees the nodes.
- The services wait for the init container, which changes the schema with the migrations
  and tries `airflow db migrate` again on what a failed attempt has committed.
- The validation script observes the stack from outside, one query at a time.

### What is hard, and what makes each component correct

**Scheduler critical section.** Memory and database are changed by one function but
only the database part is atomic. Correct means: when a round fails, the workloads it
buffered are gone and all others still there; no try of a task is sent twice; the lock
admits one scheduler, even though the database may drop it before the holder knows; a
conflict ends no scheduler; slots are not exceeded; a scheduled task is eventually run
unless its scheduler died.

**Retry middleware.** Attempts of several callers interleave. Correct means: a call
that returns was applied in its last attempt, one that raises was not; retries are
used up before a conflict is reported; a sleeping call holds no transaction; sessions do
not leak; every call ends.

**Migration 0042.** A chain of schema changes that depend on each other, with a batched
backfill in the middle, which CockroachDB commits one by one, run again by the init loop if it
fails. Correct means: no row without an id when the column becomes NOT NULL, foreign keys
always backed by a unique index, upgrade followed by downgrade gives the schema back, and a
retry never builds upon half a migration.

**Hook and dialect.** Neither has much state, but a task that uses them is retried, writes
in batches and meets other tasks. Correct means: a load can be repeated after any failure,
one that reports success has its rows in the table it was configured for, a session has
the isolation level of its own connection, and an upsert touches the loaded columns only.

**Example DAGs.** Tasks that are not idempotent, retried, on a table that several runs
create, fill, read and drop. Correct means: a run that succeeds leaves nothing, what it
counts and the errors it meets are explained by retries and by other runs, and a node
that is down during all tries of the health check is reported.

**Compose stack.** Steps repeated on a volume that survives restarts. Correct means:
what the knobs say is what the stack runs with, and no service starts before the schema
is there.

**Stress validation.** Sampling of a moving system. Correct means: it reports success
only if all runs succeeded and nothing crashed.

`PROJECT.json` lists every hazard with its line and the properties that cover it.

## 2. Plan

In this order; a module marked done is described in section 3.

1. `SchedulerHA` with `MCSchedulerHA`, and the abstract `TaskHandoff` it implements. Done.
   Proofs in `SchedulerHAProofs`: type correctness, all safety invariants, the
   refinement; in `TaskHandoffProofs` what follows from the promise. Done.
2. `RetryMiddleware` with `MCRetryMiddleware`, and the abstract `AtLeastOnce` it implements;
   proofs in `RetryMiddlewareProofs`. Done.
3. `StressValidation` with `MCStressValidation`; proofs in `StressValidationProofs`. Done.
4. `Migration0042` with `MCMigration0042`: the migration under its harness and under the init
   loop; proofs in `Migration0042Proofs`. Done.
5. `CockroachDBHook` and `CockroachDBDialect`, pure operators without variables, and
   `DataLoad` with `MCDataLoad`, which composes them: tasks that copy records from one
   CockroachDB to another. Proofs in `DataLoadProofs`. Done.
6. `ExampleDags` with `MCExampleDags`: both example DAGs over one table and one cluster.
   Proofs in `ExampleDagsProofs`. Done.

Of the compose stack only the migration loop is modelled, in `Migration0042`; section 7 says why.

## 3. What is modelled

### TaskHandoff: the promise

A task is new, waiting, assigned to a scheduler, sent to a worker, done or lost. A
scheduler takes a batch of waiting tasks as a whole (`Assign`), hands some of what it
holds to its workers (`Send`), and may die (`Die`): what it held and had not finished is
lost, nothing else is, and it may die in the middle of taking a batch. There is no action
that takes a task away from a live scheduler or sends it a second time. What follows is
stated in the module, too: `HeldOnceTaken` and `LostWithHolder` relate stage, holder and who is
alive, and `NeverHandedTwice` says that a task never changes hands and enters no stage twice.
No run checks these three; they are proved, for `TaskHandoff` and for what implements it.

### SchedulerHA: the critical section

One action per outcome of a step of `_do_scheduling` (patch 29-72) and of
`_executable_task_instances_to_queued` (patch 14-28):

| Action | Code |
|---|---|
| `SkipCriticalSection` | "All executors are full, skipping critical section"; its `guard.commit()` commits nothing of this section and is outside the `try`: what it raises is `Fail` |
| `EnterRound` | snapshot of `executor.queued_tasks` in `queued_keys_before` |
| `AcquireLock`, `LockBusy` | `pg_try_advisory_xact_lock` returned true or false; without the dialect in the list there is no lock |
| `RowsLocked` | 55P03 from the row locks of the select, which are NOWAIT |
| `SelectBatch`, `BufferWorkload` | tasks become QUEUED in the transaction, then one workload at a time goes into the executor's queue |
| `Commit` | `guard.commit()` as the last statement of the `try` |
| `ServerAbort` | the database aborts the transaction (40001, 40P01) at any point of it |
| `SerializationError` | the client learns of it from a statement or the commit; with the patch rollback and discard, without it the exception ends the scheduler |
| `Fail`, `CommitAnswerLost` | any other exception (`raise`, or one outside the `try`) or a stopped container; a commit applied whose answer is lost |
| `Heartbeat` | the executors send workloads and forget finished ones |
| `Schedule`, `Finish` | a DAG run makes a task ready; a worker completes one |

State: `ti` and `queued_by` are the committed rows, `batch` the uncommitted part of the
scheduler's own transaction, `lock` and `txn` the database side of the session,
`queued_tasks`, `running` and `queued_keys_before` the memory of the process.
`dispatches`, `conflicts` and `failures` are history and budgets.

Decisions a reader may want to question:

- *The isolation level does not appear.* What it changes is when the database aborts a
  transaction; `ServerAbort` may do so at any point at either level, which includes
  everything SERIALIZABLE and READ COMMITTED do. What a good transaction reads is
  the committed state: it runs alone under the lock.
- *The lock of an aborted transaction* may be dropped by the database at once or stay
  until the rollback: `ServerAbort` chooses. This matters because the holder keeps on
  buffering until its next statement.
- *Executors are merged.* A scheduler may have several; their queues hold disjoint keys
  and the patch treats each alike.
- *Heartbeat may leave workloads in the queue*, which is the reason for the snapshot: the
  patch iterates over whatever executors are configured, and Airflow's base executor puts
  off a workload whose key it still has as running. `Send` and its fairness say that
  workloads are not put off for ever.
- *A dead scheduler stays dead* and takes the workers of its LocalExecutor with it: the
  compose file gives the schedulers no restart policy. Airflow's adoption of orphaned
  tasks is code of Airflow the repository does not touch; it is not modelled, and a
  task of a dead scheduler counts as lost.
- *Deployments.* `cockroachdb` with the patch (route A), `postgresql` without it
  (route B), and `postgresql` with it. `cockroachdb` without the patch is not a route of
  the repository's README; `LockDialectsUnpatched` shows why the lock needs the patch.

The properties, each with a definition "mutant" beside the code it changes, in the way
a plausible bug would:

| Property | Says | Broken by |
|---|---|---|
| `TypeOK` | types | `CommitRowsWrongState` |
| `OneInCriticalSection` | of the transactions still good at most one is past the lock | `LockDialectsUnpatched` |
| `NoOrphanWorkload` | when executors may look, a buffered workload is committed as queued by this scheduler | `RoundKeysNone` |
| `NoLostTask` | a task committed by a live scheduler is in its queue or running | `RoundKeysAll` |
| `DispatchedOnce` | a try is sent at most once, by all schedulers together | `RowLockPointsLate` |
| `SurvivesConflicts` | with the patch, conflicts end no scheduler | `SerializationErrorCommitOutside` |
| `SlotsRespected` | queued and running workloads fit the slots | `FreeSlotsQueueIgnored` |
| `LockGivenBack` | the lock is with a scheduler in its critical section, or with nobody: no error, conflict or death leaves it behind | `EndTransactionKeepsLock` |
| `RoundsAdvance` | between snapshot and end of transaction every own step brings a scheduler nearer to that end | `OnLockNotAvailableRetries` |
| `EventuallyRuns` | a scheduled task is run unless its scheduler, or every scheduler, died | `EndTransactionKeepsLock` |
| `ImplementsHandoff` | the refinement of `TaskHandoff` | `OnLockNotAvailableDiscards` |

`RowLockPointsLate` records what the 55P03 branch relies on: it rolls back without
discarding, which is right only as long as a lock timeout cannot be raised once the
first workload is buffered. In Airflow the NOWAIT locks are all taken before.

### AtLeastOnce: what a caller may rely on

A call is pending, applied, returned or raised. An attempt succeeds and is known to (`Succeed`),
or goes wrong with or without having taken effect (`GoWrong`); after a success the call returns,
after at least one failure it may raise, and there are no more than `MaxAttempts` attempts.
Nothing happens once a call is over. It is weaker than "exactly once" on purpose: a commit
whose answer is lost is repeated.

### RetryMiddleware: run_with_retry and the decorators

Callers run one read-modify-write transaction each on the same row. `Begin`, `Work`,
`Commit` are an attempt as the module's docstring writes it; `Conflict` is a commit
whose row changed since it was read. `AttemptFails`, `CommitAnswerLost` and
`RollbackFails` are the faults no other caller is to blame for. `Handler` is the `except`
clause, `Wake` the end of the sleep and the `finally` clause of an attempt that is
retried, `Leave` the `finally` clause of the last one. The sync and the async decorator
differ in nothing but how they sleep and are one wrapper; `run_with_retry` differs in that
it makes, rolls back and closes a session per attempt.

`IsRetryableError` keeps what the function decides: 40001 and the known texts (here
`reset`) are retryable, anything else is not. The length of a backoff decides nothing
but time and is left out. `session_factory()` is not made to fail: a sessionmaker
connects at the first statement.

| Property | Says | Broken by |
|---|---|---|
| `TypeOK` | types | `HandlerCounts` |
| `AppliedAsReported` | returned means applied in the last attempt, raised means not applied, up to commits whose answer was lost | `CanRetryOnceMore` |
| `GivesUpOnlyUnderLoad` | `run_with_retry` reports a conflict only after more interferences than it has retries | `CanRetryOnceLess` |
| `SleepsWithoutTransaction` | `run_with_retry` has rolled back before it sleeps; the decorators have not, and the property is not about them | `HandlerWithoutRollback` |
| `SessionsClosed` | a session per attempt, closed on every path | `CloseSessionNever` |
| `ImplementsAtLeastOnce` | the refinement of `AtLeastOnce`, for both wrappers | `CanRetryOnceMore` |
| `CallsEnd` | every call ends | `HandlerNeverRaises` |

The refinement maps an attempt to a step of its own where its outcome is decided: a commit
whose answer arrives is `Succeed`; an error is `GoWrong` when it is met, also if it is the answer
that gets lost. Handling, sleeping and closing are stutters. `CallAdvances` is the bounded side of
`CallsEnd`, proved and not run: every step, also one that fails, brings exactly the call that
makes it closer to its end.

### StressValidation: the HA stress test of validate-poc.sh

`runs` counts the runs of `cockroachdb_stress` in each state and `alive` is the set of
schedulers still up; `RunProceeds` and `SchedulerCrashes` move them at any time between
two commands of the script. The script is one action per command: `Trigger`,
`CountRunning`, `CountQueued`, `Break` or `Sleep`, `Timeout`, `CheckSuccesses`, `Inspect`
of either scheduler, `Judge`, `Summary`. `Count` says what a query returns: the count, or 0
if the command fails, because of `2>/dev/null | grep -c ... || true`. `LooksLikeEight` is
what `check` does with the expected string `8`: any number with that digit passes.
`TriggerFails` is `set -e`. The literal eight is kept, as the digit check depends on it.
The sampling of locks and the conflict counts decide nothing (their check accepts any
output) and are left out. `missed` and `down` remember how the stack was when the
polling ended.

| Property | Says | Broken by |
|---|---|---|
| `TypeOK` | types, the number of polls among them | `TimeLeftOnceMore` |
| `PassedMeansSucceeded` | a pass means eight runs triggered and eight succeeded, whatever the polling missed | `LooksLikeEightAlways` |
| `FailedHasCause` | a fail is due to a failed run, a failed command, a missed run or the timeout | `LastRunOneLess` |
| `CrashIsMentioned` | a pass after a scheduler went down during the polling comes with the warning | `SchedulerDownBoth` |
| `ScriptEnds` | the script ends even if the runs do not | `SleepUncounted` |

`ScriptAdvances` is the bounded side of `ScriptEnds`, proved and not run: every command brings the
script nearer to its end, whatever it answers and the stack does.

### Migration0042: upgrade, downgrade and who runs them

CockroachDB 26.3, which the repository is written for, commits the open transaction before it
executes a schema change and the schema change by itself (`autocommit_before_ddl`, on by default):
`engine.begin()` around `upgrade()` makes nothing atomic. So `db` is the database as
committed and `work` the same as the session sees it, and the two differ only while batches of
the backfill are open. A program that dies rolls those back and leaves every schema change it has
made.

`driver` is one of two programs. The *harness* (`scripts/test-migration-0042.py`) goes
through everything: `DropDatabase` to `Seed`, `upgrade()`, `AssertUpgrade`, `downgrade()`,
`AssertDowngrade`. The *init* loop (`docker-compose.yml` 154-168) runs `upgrade()` on a stack
whose Airflow is older than the migration, and again, up to three times, when a try fails. `pc`
is the statement about to be executed, one action each, and `todo` the foreign keys that a loop
over `ti_fk_constraints` has yet to visit, one turn of it an action. `BackfillBatch` is one
round of the `while True` loop on any batch of pending rows; whether its UPDATE is committed at
once or with the next schema change depends on the driver of the database and is left open.
`Kill` ends the program before any statement, `Restart` and `Retry` start it on what is
left: the harness from `DROP DATABASE`, the migration from `ADD COLUMN`, because alembic records a
revision only when its `upgrade()` has returned.

A statement is refused if it would break the schema, and what the database demands is
taken from the comments of the patch: a primary key is only swapped, never dropped; a
foreign key needs a unique index on the columns it references; the old key columns stay
backed by an index, an existing one or a new one that `ALTER PRIMARY KEY` makes. Adding
what is there and dropping what is not is refused. An id is the number of ids a row was given,
which is all that matters of a UUID here.

| Property | Says | Broken by |
|---|---|---|
| `TypeOK` | types; a table without the column has no ids | `NullIdsKept` |
| `NeverRefused` | the database accepts every statement, after any batches and on whatever a killed harness has left; only a further try of the loop may be refused | `AfterBatchOnce` |
| `AssertionsHold` | the assertions of the harness hold | `WithCompositeKeyForgotten` |
| `OneIdPerRow` | the backfill gives no row a second id | `PendingAll` |
| `RoundTrip` | a harness that passes leaves what it seeded, also what it does not look at; a loop that passes has the whole migration in the database | `WithoutHelperForgotten` |
| `RetryHarmless` | a try on what a dead one has committed is refused at its first statement and changes nothing, or it is complete | `AddColumnIfMissing` |
| `HarnessEnds` | the program ends, the backfill with it | `AfterBatchNever` |

`AddColumnIfMissing` is the repair one would think of first. It makes things worse: the second
try goes on, and is refused only further down, with more changed. `HarnessAdvances` is the
bounded side of `HarnessEnds`, proved and not run: every statement leads to a later one and
every turn of a loop leaves it less to do; only starting the program again does not.

### CockroachDBHook, CockroachDBDialect and DataLoad: loading a table

`CockroachDBHook` has one operator per method: `GetConnConfig` with its defaults and its
fallback to localhost, `BuildConnectionUri`, `GetConn`, and `get_sqlalchemy_engine` as
`EngineIsolation`, `CallerKwargs` and `EngineConnect`. A connection keeps host, schema, the
kind of password and the keys of Extra; port and user go where the host goes. A password is
absent, plain or has a reserved character, which is all that the URI cares for. What
psycopg2 does with a keyword it does not know, it raises, is the operator
`LibpqKeywords`.

`CockroachDBDialect` has the three methods. A statement is its columns, its conflict
columns and its update columns. The catalogue is a set of constraints whose names are
unique in a table only, because `get_primary_keys` joins by name.

`DataLoad` puts them to use, as a task of a DAG does: `OpenSource` gets an engine for the
source, `OpenTarget` a connection or an engine for the target, `Describe` the fields, keys and
statement, `ExecuteRow` and `CommitBatch` are `insert_rows` of Airflow's `DbApiHook`, which
commits every `commit_every` rows. Any step may fail (`Fault`), a commit may be applied and
its answer lost, the lookup of a connection may raise (`lost`), and Airflow starts the next try
(`TryFails`) in a new process. Each lookup of `Describe` is a `get_records` of the hook, that is, a
`get_conn` session of its own, also for a task that writes through an engine
(`RecordsSession`): its connection is looked up again, may fall back to localhost, where the
catalogue has nothing of the table (`Catalogue`), and is rejected if libpq does not know a key of
Extra. Without fields there are no placeholders and the row is rejected by psycopg2; without keys
the statement is a plain INSERT. `setup` says how connections, table and call look and does not
change; `hit` is history: the tries that met a fault or a lost lookup.

| Property | Says | Broken by |
|---|---|---|
| `TypeOK` | types; conflict columns never name the hidden `rowid` | `GetPrimaryKeysWithRowid` |
| `UpsertIsRetriable` | with connections that are accepted and conflict columns that are a key, a load fails only if every try met a fault, whatever earlier tries and other loads have left | `GenerateReplaceSqlPlain` |
| `SuccessMeansLoaded` | a load that reports success has its records in the configured table, unless that try met the fallback to localhost | `GetConnConfigSchemaFirst` |
| `IsolationAsConfigured` | an engine has the isolation level of its own connection, unless the caller shares its `engine_kwargs` | `CallerKwargsMutableDefault` |
| `UntouchedColumns` | no step removes a row or changes a column that is not loaded | `GenerateReplaceSqlAll` |

The premises are where the code does not keep what one would expect, and are named for
that: `SourceAccepted` and `TargetAccepted` exclude connections that can never work
(`cluster` in Extra; `isolation_level` with `get_conn`, which includes an engine with anything
looked up; a reserved character in the password with an engine), `IndexFits` excludes an index
that is no key, which includes the one `get_primary_keys` returns when another table's key has
the same name. `ReplaceIsUpsert` asks the same where there is no index, as the docstring of
`generate_replace_sql` promises, and is violated (section 6).

### ExampleDags: the demo and the health check

One action per callable of both DAGs; `Upstream` is `t1 >> t2 >> t3 >> t4`. A callable is one
transaction, and its action has the outcomes it can have: it returns, it raises by itself
(the table is not there, a node is not live), or it fails although its commit was
applied. `Fault` is every failure without effect. `Start`, `UpstreamFails` and `AfterFailure`
are what Airflow does with a task instance; a retry waits, which is time and left out.
`NodeStops` and `NodeStarts` move the nodes of the cluster: tables need a majority of them,
a connection one.

`rows` has a pair of run and try for the five rows a try of `insert_data` adds, so that a
second try is seen. `unanswered`, `raised`, `disturbed` and `down` are history: tries that failed
after their commit, callables that raised by themselves, runs under which another run dropped
the table, and nodes down since before a run's first `check_node_status`.

| Property | Says | Broken by |
|---|---|---|
| `TypeOK` | types; no task is tried more often than `retries` says | `AfterFailureOneMore` |
| `SuccessCleansUp` | a run that succeeds leaves none of its rows | `UpstreamEarlyCleanup` |
| `QueryCountsInserts` | `query_data` counts a run's rows once, and once more for each try repeated after its commit, unless another run dropped the table | `UpstreamEarlyQuery` |
| `RaisesWithCause` | only `insert_data` and `query_data` of a run whose table another run dropped raise by themselves | `create_tablePlain` |
| `OutageReported` | a node down from before the first try of `check_node_status` to the last is reported | `AllLiveMajority` |

So the model says exactly how the demo is not idempotent: the rows of `unanswered` are
counted twice. A run that fails leaves its rows, and `SuccessCleansUp` says no more than it
should. `TasksAdvance`, proved and not run, says that runs do not go on for ever: but for nodes that
stop or come back, every step brings one task instance closer to its end and leaves all others
where they are.

## 4. The runs

| Run | Instance | Shows |
|---|---|---|
| `scheduler_safety` | 2 schedulers, 3 tasks, 2 slots, 2 conflicts, 1 failure, all deployments; symmetry | the eight invariants, `RoundsAdvance`; 87,002 states |
| `scheduler_live` | the same with 1 conflict, the two patched deployments, fairness, no symmetry | `EventuallyRuns`, `ImplementsHandoff`, absence of deadlock; 266,904 states |
| `retry_calls` | 3 callers, 2 retries, 2 faults, both wrappers, fairness, no symmetry | the five invariants, `ImplementsAtLeastOnce`, `CallsEnd`; 688,011 states |
| `retry_decorator` | 2 callers, no fault, the decorator | violated, see section 6 |
| `stress_fresh` | 2 schedulers, no earlier runs, 2 polls, 1 failing command, fairness | four invariants, `ScriptEnds`; 1,096,672 states |
| `stress_poll`, `stress_crash` | the same with 3 polls, no failing command | violated, see section 6 |
| `stress_again` | the same, after a validation that left 8 successes | violated, see section 6 |
| `migration_harness` | 7 rows in batches of 3, 3 foreign keys, 3 starts of the harness or the init loop, fairness, no symmetry | five invariants, `RetryHarmless`, `HarnessEnds`; 3,044 states |
| `data_load` | 2 loads, 2 records, one of them in the table, batches of 1, 2 tries; 260 setups: every table and call between plain connections, every pair of connections to a table with a key, fields and keys looked up through connections that work, do not, or fall back to localhost | four invariants and `UntouchedColumns`; 2,767,472 states |
| `replace_is_upsert` | 1 load of 2 records into an empty table with a key, no `replace_index` | violated, see section 6 |
| `example_dags` | 2 runs, of the demo both or one of each DAG, retries as in the code, 3 nodes, 2 node changes; symmetry | five invariants; 2,143,500 states |

Why the bounds are enough. Two schedulers are what the stack runs, and every property relates at
most two. Two slots and three tasks are the least with which a queue holds a workload of an
earlier round while a new round buffers another, which is what tells the exact discard from both
wrong ones, and with which a batch can be a proper part of what is scheduled. Two conflicts let
both schedulers, or the same one twice, be aborted. One failure lets one scheduler die at any
point with the other left. Three callers with two retries are as many callers as attempts: the
most a call can survive; two faults more are enough to make it give up, and for two lost answers
in one call. Two polls are one that finds work left and one after it; 180 of them repeat the
second. Seven rows in batches of three are two full batches and a partial one, like the 2500
rows in batches of 1000 of the harness; three starts are the attempts of the loop, the third on
what two dead ones have left; three foreign keys leave a loop over them at its beginning, in its
middle and at its end. Two loads are one and the other it meets; two records, one of them there
already, in batches of one leave a try between two committed batches, and two tries are one that
fails and one that meets what it left. The proofs lift all of these, the batch size among them.
Two runs of the demo are one that drops the table under the other; three nodes with two changes
allow a majority, a minority and a node that comes back. `CHECK_DEADLOCK FALSE` is set where a
run has an end: both schedulers dead, or all calls, the script, the harness, the loads or the
runs ended. In `scheduler_live` one scheduler always survives, and it loops for ever.

`MaxConflicts`, `MaxFailures` and `MaxFaults` bound the faults in the guards. For safety
the proofs lift the bounds. For liveness they are an assumption: with a conflict in every
round for ever no task would run, in the model as in the code, where "will retry on the
next scheduler loop" promises no more.

Fairness. `WF_vars(SchedulerStep(s))`: the scheduler is a loop that blocks on nothing but
its own database calls, which return. `SF_vars(Send(s))`: the loop comes to the heartbeat
again and again, and an executor that can send does not put everything off each time; it
is strong because a heartbeat is not possible all the time. `WF_vars(Finish(s, t))`:
workers finish.
`WF_vars(CallStep(c))`: a call is sequential code and a sleep ends. `WF_vars(Script)`: the
commands of the script return; the stack owes nothing. `WF_vars(Program)`: the statements
of the migration and of the harness return. Nothing is fair about
`Schedule`, about faults, or about who gets the lock: `pg_try_advisory_xact_lock` does not
queue. None is needed, because a scheduler that keeps finding the lock taken is one whose
peer is making progress. `DataLoad` and `ExampleDags` state no fairness: whether their tasks go
on is up to Airflow's scheduling and not to the code modelled.

## 5. What is proved

For any finite sets of schedulers and tasks, any number of slots and any bounds.

`SchedulerHAProofs`. The inductive invariant is the conjunction of `TypeOK`, the first four
of these and, proved on top of them, the last two:

- `LockInv`: there is a transaction exactly from the snapshot to the end of a round, and
  a good one past the lock holds it (every deployment takes the lock, `LockIsTaken`);
- `RowInv`: a row says who queued it exactly from the commit on;
- `BatchInv`: a batch is nothing this scheduler has committed, and while its transaction is
  good it is still `scheduled` in the database; an aborted one may have lost its batch to
  a scheduler that took the lock since;
- `QueueInv`: `Stable(s)` is the snapshot during a round and the queue outside one. It is
  committed and still in the queue, and everything else in the queue is of the batch.
  This is the heart: it says that `set(executor.queued_tasks) - keys_before` is neither too
  much nor too little, also while the transaction is aborted and nobody knows. The
  properties alone are not inductive, as they say nothing of the middle of a round;
- `DispatchInv`: what waits, in the database or in a stable queue, was not sent;
- `SlotInv`: queue, running workloads and the rest of the batch fit the slots.

Each conjunct is preserved by each action, one proof step per action; the invariants of
the table above follow (`MutualExclusion`, `DiscardIsComplete`, `DiscardIsExact`,
`NoDoubleDispatch`, `SlotsNeverExceeded`, `ConflictsAreSurvived`). `Refinement` is the
theorem `Spec => ImplementsHandoff`: commit is `Assign`, a heartbeat is `Send`, every
way to die is `Die` and everything else that scheduler does is a stutter.

`LockIsGivenBack` needs `LockInv` only. `RoundsAreBounded` gives each scheduler a variant: in a
round it has at most `Parallelism + 3` steps before it (the lock, the selection, a workload
per free slot, the end), and each of its own steps takes one away. The selection does so because
a batch has no more tasks than there are free slots, a buffered workload because it was not in
the queue before. Steps of the others and an abort by the database change nothing of it.

`TaskHandoffProofs`. With `None` no scheduler, `HandoffInv` (type, `HeldOnceTaken`,
`LostWithHolder`) is inductive as it stands, and `HandoffOnce` follows step by step; the one
case with something to see is a death, which cannot lose a task again that was lost with somebody
else. `QueuedOnce` in `SchedulerHAProofs` instantiates the module under the refinement mapping,
so that the rows, the queues in memory and the workers inherit both: a task instance is queued for
one scheduler, stays with it, goes to its workers at most once, and is lost only with it.

`RetryMiddlewareProofs`. `ReportInv` counts the commits of a call by where it is,
`SessionInv` says in which state its session is at each point, `LoadInv` bounds the
attempts by the interference met so far. From them follow `ReportsAreTrue`, `RetriesSuffice`
and `NoSessionLeak`. `CallsAdvance`: going back to the start of an attempt gives four steps
back and costs one retry, which counts five, so that the whole call has at most
`5 * max_retries + 6` steps. `Refinement` maps every action to a step
of `AtLeastOnce` or a stutter. It needs of the invariant that a sleeping call has a retry left
(`ReportInv`); the bound on the attempts of the promise is then that of the type.

`StressValidationProofs`. `CountInv` accounts for every run triggered, `CheckInv` says that
the count of successes taken is not above what it is now and what passed the check looked
like eight; up to eight only eight does, so on a fresh volume a pass is true
(`PassedIsTrue`). `FailInv` says that every failure counted so far is explained; a script
that missed nothing and met no failing command has eight runs that are over
(`FailedIsExplained`). Both assume `PriorSuccesses = 0`: without it the first is false, as
`stress_again` shows. `CrashInv` follows a scheduler that was down at the end of the polling to
the inspection, which cannot find it running, and to the warning (`CrashIsReported`, on
any volume). `ScriptAdvance`: the variant counts the commands left, three per poll and one per
scheduler to inspect; with `SleepUncounted` it would stand still.

`Migration0042Proofs`. `IInv` says for every statement what the schema is when it is about
to be executed (`SetupInv`, `UpgradeInv`, `DowngradeInv`), for the loops over the foreign keys
in terms of `todo`, that no row ever has two ids (`Sound`), and that nothing is open outside the
backfill (`OpenInv`). The one step that needs more than the schema is the backfill: the loop is
left only with an empty batch, an empty batch means that no row is pending (`EmptyBatch`, which
needs a positive batch size), and then every row has one id (`BatchFacts`), which is what
NOT NULL demands later. From it `StatementsAccepted`, `HarnessPasses`, `BackfillOnce` and
`DowngradeUndoesUpgrade`. For the loop of docker-compose.yml `LoopInv` says that the
committed database either has no `id` column, and is then exactly the old schema, or has one:
there is no third state a dead try can leave, since adding the column is the first thing it commits.
So a further try is either a first one or refused at once (`RetryChangesNothing`), and one that
passes began on the old schema. `HarnessAdvance`: the variant is the place of the statement and,
within a loop, the rows without an id or the foreign keys not visited; a batch takes some rows
away because it is not empty unless nothing is pending (`BatchShrinks`).

`DataLoadProofs`. Lemmas about the operators of hook and dialect say what a configuration, a
session, a key lookup and a statement can be (`ConfigFacts`, `ConnectFacts`, `KeyFacts`,
`StatementFacts`), and what a batch does to a row (`WrittenFacts`, `LoadedFacts`). The invariant
says for each load: its statement is one that the setup allows, and in a clean try the one it
determines (`SqlInv`, from `FoundFacts` and `RecordsPlace`: a lookup finds all or nothing, and
nothing only elsewhere), a session
opened in a clean try is in the configured place (`PlaceInv`) with the isolation level of its
connection (`IsolationInv`), what a clean try has committed is loaded (`DoneInv`), and with
accepted connections every try but the present one met a fault (`HitInv`). `DoneInv` must
survive the steps of the other loads, which holds because a batch, of whatever load, keeps
every row and gives a value it writes the name of a load. `HitInv` rests on
`NeverRefused`: a statement whose conflict columns are the primary key, or that has none on a
table without one, is never refused. From the invariant `Retriable`, `Success`, `Isolation`, and with
the row lemmas `Untouched`.

`ExampleDagsProofs`. `Life` is what Airflow guarantees of a task instance: which tries it can
have had in which state, and that its upstream tasks have succeeded if it has begun.
`TableInv` is the heart: as long as a run has not read its table and no other run has
dropped it, the table is there once created and holds, of this run, exactly the tries in
`unanswered` and the successful one. `KnownTries` says that rows carry tries that have been made,
so that a run that has not begun has none. From it `CleansUp`, `Counts`, `Causes`; `Outage`
from a down node never being live. `NoEndlessRetries` gives each task instance a variant of two
steps per try it may still have, and `Life` says that a retry is never granted without a try left.

The assumptions are those stated in the modules: schedulers and tasks are finite sets, rows are
a finite set, `None` is not a scheduler, at least one slot, at least one poll, `max_retries` a
natural number, `None` no connection, session or load, at least one try and one row per batch, a
finite, non-empty set of nodes, bounds natural numbers. Nothing else is assumed.

Only model-checked: `EventuallyRuns`, `CallsEnd`, `ScriptEnds`, `HarnessEnds`, because liveness
under fairness is out of the prover's reach, and the absence of deadlock, which is a statement
about ENABLED. Their bounded side is proved: `CallAdvances`, `ScriptAdvances`, `HarnessAdvances`
and `RoundsAdvance` say that the number of steps to the end is bounded, for any constants. What
is left to TLC is that such a step is always possible before the end, and, for `EventuallyRuns`,
that a scheduled task gets its turn among the rounds.

Only proved: the first three of these, whose side that can fail by a schedule is the liveness
property the run checks; `TasksAdvance`, for which no fairness is stated; and the three properties of
`TaskHandoff`, which are about the promise and reach the code through `ImplementsHandoff`.

## 6. Findings

- `retry_decorator`. A decorator calls the function again with the same arguments, and in
  the usage its docstring shows one of them is the session. After a conflict that session
  has to be rolled back; nobody does, so the second attempt fails with an error that is
  not retryable. A decorator used as documented never recovers from a conflict.

- `stress_poll`. The polling loop of `validate-poc.sh` counts running runs first, queued
  runs second. Runs that start in between are missed and the loop reports "All runs
  completed". The other order would not have the gap.
- `stress_crash`. The script ends with "All checks passed" after it has seen that a scheduler
  crashed, which its header and its own note call a failure.
- `stress_again`. On a volume that an earlier validation has used, the count of successes
  is that of all validations. The new eight runs are missed between the two counts of
  `stress_poll` and still unfinished; the eight old successes make the check pass. A second
  validation that succeeds counts sixteen and fails.
- `replace_is_upsert`. `generate_replace_sql` says "replace: If True, generate upsert" (105) and
  makes a plain INSERT when there is no `replace_index`. A task whose first try has committed
  and not got the answer is refused by its own rows when tried again.

Seen while modelling, not runs of their own:

- The docstring of `CockroachDBHook` (57-62) lists `cluster` and `isolation_level` among the
  keys of Extra, and the connection form suggests `cluster`, but `get_conn` passes both to
  psycopg2, which knows neither. A task that writes through an engine, which handles the
  isolation level, fails in every try when it asks the dialect for fields or keys. This is why
  `UpsertIsRetriable` has the premise `TargetAccepted`.
- The docstring of `run_with_retry` says that `fn` is retried on 40001 errors;
  `is_retryable_error`, with its own docstring, also accepts connection errors by their text. A
  reset on the answer of a commit makes the wrapper apply the work a second time, which
  `AppliedAsReported` counts.
- After a try of migration 0042 that has died half-way, every further attempt of the init loop
  is refused at `ADD COLUMN`: `RetryHarmless` says that it does no harm, and it does no good
  either. The stack does not come up until somebody removes by hand what the first try has
  committed.

Not a matter of a model: the Quick start of `README.md` calls `../scripts/validate-poc.sh`
from `docker/`, and the script looks for `docker/docker-compose.yml` below the current
directory, so from there it stops with "Stack is not running".

## 7. What is not modelled

- The compose stack and its initialisation, but for the loop around `airflow db migrate`, and
  that for migration 0042 only. The other commands are written to be repeated and run one after
  the other in containers that run once, and what the other migrations leave behind is Airflow's
  code. The branches of the migration for other dialects are left out.
- Asset URIs, the audit of migrations and the version shim: sequential text processing that a
  state space adds nothing to.
- The length of a backoff in the retry middleware, which decides nothing but time, and
  `register_retry_listener`, which only logs.
- In the stress validation, the checks before the stress section, which are single queries, and
  the sampling of locks and conflict counts, which decide nothing.
- The image build, which decides once which patches apply: the constant `Knobs`.
- The UI metadata of the hook; schema and predicate clauses of the dialect; what the health
  check prints; logging, metrics and timers.
- What Airflow does outside the patched functions, and what CockroachDB does inside, except as
  the code modelled meets them.
