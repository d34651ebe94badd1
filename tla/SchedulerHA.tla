---------------------------- MODULE SchedulerHA ----------------------------
(***************************************************************************)
(* The critical section of Airflow's scheduler loop as the compatibility   *)
(* patch leaves it (docker/patches/airflow-crdb-compat.patch), run by the  *)
(* two schedulers of docker-compose.yml against one metadata database.     *)
(*                                                                         *)
(* In its critical section a scheduler marks a batch of task instances     *)
(* QUEUED inside a transaction and, in the same breath, buffers one        *)
(* workload per task in the in-memory queue of its executor.  The database *)
(* may abort the transaction at any moment; the buffered workloads then    *)
(* have to go, and nothing else does.                                      *)
(*                                                                         *)
(* The in-memory queues of one scheduler's executors hold disjoint keys    *)
(* and the patch treats each alike, so they are one set here.              *)
(***************************************************************************)
EXTENDS Integers, FiniteSets

CONSTANTS Schedulers,    \* the scheduler containers
          Tasks,         \* task instance keys; the try number is part of a key
          None,          \* no scheduler
          Knobs,         \* the deployments considered
          Parallelism,   \* executor slots of one scheduler
          MaxConflicts,  \* bound: transactions the database aborts, and rows found locked
          MaxFailures    \* bound: schedulers that die of anything else

\* CONN_SCHEME and APPLY_CRDB_PATCH of docker/.env.  README.md has no route with the
\* scheme cockroachdb and without the patch.
Deployments == {k \in [scheme : {"cockroachdb", "postgresql"}, patched : BOOLEAN] :
                   k.scheme = "cockroachdb" => k.patched}

ASSUME NoneAssumption == None \notin Schedulers
ASSUME FinitenessAssumption == IsFiniteSet(Schedulers) /\ IsFiniteSet(Tasks)
ASSUME KnobsAssumption == Knobs \subseteq Deployments
ASSUME BoundsAssumption ==
    /\ Parallelism \in Nat \ {0}
    /\ MaxConflicts \in Nat
    /\ MaxFailures \in Nat

VARIABLES
    knobs,              \* the deployment, chosen when the stack comes up
    \* The database.
    ti,                 \* state of each task instance row, as committed
    queued_by,          \* scheduler that committed it as queued, or None
    lock,               \* holder of the transaction's advisory lock, or None
    txn,                \* transaction of each scheduler's session
    \* Each scheduler process.
    pc,                 \* where it is in its loop
    batch,              \* task instances it set to queued in the open transaction
    queued_tasks,       \* workloads buffered in its executors
    queued_keys_before, \* snapshot of queued_tasks taken at the start of the round
    running,            \* workloads its executors sent and still count as running
    \* History and budgets.
    dispatches,         \* how often the workload of a task was sent to a worker
    conflicts,
    failures

db == <<ti, queued_by>>
session == <<lock, txn>>
executor == <<queued_tasks, running>>
round == <<batch, queued_keys_before>>
budgets == <<conflicts, failures>>
vars == <<knobs, db, session, pc, round, executor, dispatches, budgets>>

PCs == {"loop", "lock", "select", "buffer", "heartbeat", "crashed"}
InTransaction == {"lock", "select", "buffer"}   \* from the snapshot to commit or rollback
InCriticalSection == {"select", "buffer"}       \* past the advisory lock

TypeOK ==
    /\ knobs \in Deployments
    /\ ti \in [Tasks -> {"none", "scheduled", "queued", "done"}]
    /\ queued_by \in [Tasks -> Schedulers \cup {None}]
    /\ lock \in Schedulers \cup {None}
    /\ txn \in [Schedulers -> {"none", "open", "aborted"}]
    /\ pc \in [Schedulers -> PCs]
    /\ batch \in [Schedulers -> SUBSET Tasks]
    /\ queued_tasks \in [Schedulers -> SUBSET Tasks]
    /\ queued_keys_before \in [Schedulers -> SUBSET Tasks]
    /\ running \in [Schedulers -> SUBSET Tasks]
    /\ dispatches \in [Tasks -> Nat]
    /\ conflicts \in 0 .. MaxConflicts
    /\ failures \in 0 .. MaxFailures

Init ==
    /\ knobs \in Knobs
    /\ ti = [t \in Tasks |-> "none"]
    /\ queued_by = [t \in Tasks |-> None]
    /\ lock = None
    /\ txn = [s \in Schedulers |-> "none"]
    /\ pc = [s \in Schedulers |-> "loop"]
    /\ batch = [s \in Schedulers |-> {}]
    /\ queued_tasks = [s \in Schedulers |-> {}]
    /\ queued_keys_before = [s \in Schedulers |-> {}]
    /\ running = [s \in Schedulers |-> {}]
    /\ dispatches = [t \in Tasks |-> 0]
    /\ conflicts = 0
    /\ failures = 0

-----------------------------------------------------------------------------
(* Helpers. *)

Goto(s, label) == pc' = [pc EXCEPT ![s] = label]

Scheduled == {t \in Tasks : ti[t] = "scheduled"}
Finished == {t \in Tasks : ti[t] = "done"}

\* Mutant of FreeSlots: workloads still in the queues are not counted.
FreeSlotsQueueIgnored(s) == Parallelism - Cardinality(running[s])

\* Executor.slots_available, summed over the executors of s.
FreeSlots(s) == Parallelism - Cardinality(queued_tasks[s]) - Cardinality(running[s])

\* Mutant of LockDialects: the list before the patch, under every deployment.
LockDialectsUnpatched == {"postgresql"}

\* The dialects for which the critical section takes the advisory lock.
LockDialects == IF knobs.patched THEN {"postgresql", "cockroachdb"} ELSE {"postgresql"}
TakesLock == knobs.scheme \in LockDialects

\* Mutant of EndTransaction: the lock survives its transaction, as a session-level
\* advisory lock would.
EndTransactionKeepsLock(s) ==
    /\ txn' = [txn EXCEPT ![s] = "none"]
    /\ UNCHANGED lock

\* COMMIT or ROLLBACK, by the client or because its connection is gone: the
\* transaction is over and so is its advisory lock.
EndTransaction(s) ==
    /\ txn' = [txn EXCEPT ![s] = "none"]
    /\ lock' = IF lock = s THEN None ELSE lock

\* The exception reaches the top of the scheduler loop, or the container stops:
\* its memory and the workers of its LocalExecutor are gone.
Crash(s) ==
    /\ Goto(s, "crashed")
    /\ EndTransaction(s)
    /\ batch' = [batch EXCEPT ![s] = {}]
    /\ queued_keys_before' = [queued_keys_before EXCEPT ![s] = {}]
    /\ queued_tasks' = [queued_tasks EXCEPT ![s] = {}]
    /\ running' = [running EXCEPT ![s] = {}]

\* The round is over, with or without success; the loop goes on to the executors.
LeaveRound(s) ==
    /\ Goto(s, "heartbeat")
    /\ EndTransaction(s)
    /\ batch' = [batch EXCEPT ![s] = {}]
    /\ queued_keys_before' = [queued_keys_before EXCEPT ![s] = {}]

-----------------------------------------------------------------------------
(* The scheduler loop up to the commit. *)

\* All executors are full: the critical section is skipped. The guard.commit() of this branch
\* ends a transaction with no work of the critical section in it; that it is outside the try,
\* so that whatever it raises ends the scheduler, is Fail, which is possible here too.
SkipCriticalSection(s) ==
    /\ pc[s] = "loop"
    /\ FreeSlots(s) <= 0
    /\ Goto(s, "heartbeat")
    /\ UNCHANGED <<knobs, db, session, round, executor, dispatches, budgets>>

\* Snapshot the executor queues, then go for the lock.
EnterRound(s) ==
    /\ pc[s] = "loop"
    /\ FreeSlots(s) > 0
    /\ queued_keys_before' = [queued_keys_before EXCEPT ![s] = queued_tasks[s]]
    /\ txn' = [txn EXCEPT ![s] = "open"]
    /\ Goto(s, "lock")
    /\ UNCHANGED <<knobs, db, lock, batch, executor, dispatches, budgets>>

\* pg_try_advisory_xact_lock returns true; other dialects go on without it.
AcquireLock(s) ==
    /\ pc[s] = "lock"
    /\ txn[s] = "open"
    /\ TakesLock => lock = None
    /\ lock' = IF TakesLock THEN s ELSE lock
    /\ Goto(s, "select")
    /\ UNCHANGED <<knobs, db, txn, round, executor, dispatches, budgets>>

\* Mutant of OnLockNotAvailable: the queues are emptied here as well.
OnLockNotAvailableDiscards(s) ==
    /\ LeaveRound(s)
    /\ queued_tasks' = [queued_tasks EXCEPT ![s] = {}]
    /\ UNCHANGED <<knobs, db, running, dispatches, failures>>

\* Mutant of OnLockNotAvailable: try again, in the same transaction.
OnLockNotAvailableRetries(s) ==
    /\ Goto(s, "lock")
    /\ UNCHANGED <<knobs, db, session, round, executor, dispatches, failures>>

\* SQLSTATE 55P03: roll back and return 0.  The executor queues are left alone.
OnLockNotAvailable(s) ==
    /\ LeaveRound(s)
    /\ UNCHANGED <<knobs, db, executor, dispatches, failures>>

\* pg_try_advisory_xact_lock returns false: another scheduler is in there.
LockBusy(s) ==
    /\ pc[s] = "lock"
    /\ txn[s] = "open"
    /\ TakesLock /\ lock # None
    /\ OnLockNotAvailable(s)
    /\ UNCHANGED conflicts

\* Mutant of RowLockPoints: rows may also be found locked once workloads have been
\* buffered, which the branch for 55P03 does not discard.
RowLockPointsLate == {"select", "buffer"}

\* Where a statement of the critical section may find its rows locked (NOWAIT).
RowLockPoints == {"select"}

RowsLocked(s) ==
    /\ pc[s] \in RowLockPoints
    /\ txn[s] = "open"
    /\ conflicts < MaxConflicts
    /\ conflicts' = conflicts + 1
    /\ OnLockNotAvailable(s)

\* As many scheduled task instances as there are free slots, all if they fit.
FillsSlots(s, B) ==
    /\ Cardinality(B) <= FreeSlots(s)
    /\ B = Scheduled \/ Cardinality(B) = FreeSlots(s)

\* Set a batch to queued, in the transaction only.
SelectBatch(s) ==
    /\ pc[s] = "select"
    /\ txn[s] = "open"
    /\ \E B \in SUBSET Scheduled :
          FillsSlots(s, B) /\ batch' = [batch EXCEPT ![s] = B]
    /\ Goto(s, "buffer")
    /\ UNCHANGED <<knobs, db, session, queued_keys_before, executor, dispatches, budgets>>

\* Buffer the workload of one task of the batch.  This is memory only: it goes
\* on while the client has yet to learn that its transaction is aborted.
BufferWorkload(s, t) ==
    /\ pc[s] = "buffer"
    /\ t \in batch[s] \ queued_tasks[s]
    /\ queued_tasks' = [queued_tasks EXCEPT ![s] = @ \cup {t}]
    /\ UNCHANGED <<knobs, db, session, pc, round, running, dispatches, budgets>>

\* Mutant of CommitRows: a state that task instance rows do not take here.
CommitRowsWrongState(s) ==
    /\ ti' = [t \in Tasks |-> IF t \in batch[s] THEN "running" ELSE ti[t]]
    /\ queued_by' = [t \in Tasks |-> IF t \in batch[s] THEN s ELSE queued_by[t]]

\* Rows of the batch as the commit makes them.
CommitRows(s) ==
    /\ ti' = [t \in Tasks |-> IF t \in batch[s] THEN "queued" ELSE ti[t]]
    /\ queued_by' = [t \in Tasks |-> IF t \in batch[s] THEN s ELSE queued_by[t]]

AtCommit(s) == pc[s] = "buffer" /\ batch[s] \subseteq queued_tasks[s]

Commit(s) ==
    /\ AtCommit(s)
    /\ txn[s] = "open"
    /\ CommitRows(s)
    /\ LeaveRound(s)
    /\ UNCHANGED <<knobs, executor, dispatches, budgets>>

-----------------------------------------------------------------------------
(* Errors. *)

\* The database aborts the transaction (40001, or 40P01 for a deadlock).  It may
\* release the transaction's locks at once or keep them until the rollback; the
\* client learns of it from its next statement.
ServerAbort(s) ==
    /\ txn[s] = "open"
    /\ conflicts < MaxConflicts
    /\ conflicts' = conflicts + 1
    /\ txn' = [txn EXCEPT ![s] = "aborted"]
    /\ lock' \in {lock, IF lock = s THEN None ELSE lock}
    /\ UNCHANGED <<knobs, db, pc, round, executor, dispatches, failures>>

\* Mutants of RoundKeys: a rollback without discard, and one that empties the queues.
RoundKeysNone(s) == {}
RoundKeysAll(s) == queued_tasks[s]

\* set(executor.queued_tasks) - keys_before: what this round buffered.
RoundKeys(s) == queued_tasks[s] \ queued_keys_before[s]

\* Where guard.commit() is inside the handler and 40001 is told from other errors.
HandlesConflicts == knobs.patched

ConflictCaught(s) ==
    /\ LeaveRound(s)
    /\ queued_tasks' = [queued_tasks EXCEPT ![s] = @ \ RoundKeys(s)]
    /\ UNCHANGED running

\* Mutant of SerializationError: the commit is outside the handler.
SerializationErrorCommitOutside(s) ==
    /\ pc[s] \in InTransaction
    /\ txn[s] = "aborted"
    /\ IF HandlesConflicts /\ ~AtCommit(s) THEN ConflictCaught(s) ELSE Crash(s)
    /\ UNCHANGED <<knobs, db, dispatches, budgets>>

\* Some statement of the transaction, the commit included, reports the abort.
SerializationError(s) ==
    /\ pc[s] \in InTransaction
    /\ txn[s] = "aborted"
    /\ IF HandlesConflicts THEN ConflictCaught(s) ELSE Crash(s)
    /\ UNCHANGED <<knobs, db, dispatches, budgets>>

\* Any other exception is raised again, one of a commit outside the try is not caught at
\* all, and a container can always be stopped.
Fail(s) ==
    /\ pc[s] # "crashed"
    /\ failures < MaxFailures
    /\ failures' = failures + 1
    /\ Crash(s)
    /\ UNCHANGED <<knobs, db, dispatches, conflicts>>

\* The commit is applied but the connection breaks before the answer: an
\* OperationalError that is neither 55P03 nor 40001, so it is raised again.
CommitAnswerLost(s) ==
    /\ AtCommit(s)
    /\ txn[s] = "open"
    /\ failures < MaxFailures
    /\ failures' = failures + 1
    /\ CommitRows(s)
    /\ Crash(s)
    /\ UNCHANGED <<knobs, dispatches, conflicts>>

-----------------------------------------------------------------------------
(* The rest of the system, as the critical section meets it. *)

\* A DAG run makes a task instance ready to run.
Schedule(t) ==
    /\ ti[t] = "none"
    /\ ti' = [ti EXCEPT ![t] = "scheduled"]
    /\ UNCHANGED <<knobs, queued_by, session, pc, round, executor, dispatches, budgets>>

\* Slots no running workload occupies, which is what the executors fill.
OpenSlots(s) == Parallelism - Cardinality(running[s])

\* The executors send workloads to their workers, never more than they have
\* slots, and forget the ones that have finished.  They may leave some for later.
Heartbeat(s) ==
    /\ pc[s] = "heartbeat"
    /\ \E sent \in SUBSET queued_tasks[s] :
          /\ Cardinality(sent) <= OpenSlots(s)
          /\ queued_tasks' = [queued_tasks EXCEPT ![s] = @ \ sent]
          /\ running' = [running EXCEPT ![s] = (@ \cup sent) \ Finished]
          /\ dispatches' = [t \in Tasks |-> IF t \in sent THEN dispatches[t] + 1
                                                         ELSE dispatches[t]]
    /\ Goto(s, "loop")
    /\ UNCHANGED <<knobs, db, session, round, budgets>>

\* A worker of s completes a task instance.
Finish(s, t) ==
    /\ t \in running[s]
    /\ ti[t] = "queued"
    /\ ti' = [ti EXCEPT ![t] = "done"]
    /\ UNCHANGED <<knobs, queued_by, session, pc, round, executor, dispatches, budgets>>

-----------------------------------------------------------------------------

\* What scheduler s does on its own account, errors it is told of included.
SchedulerStep(s) ==
    \/ SkipCriticalSection(s)
    \/ EnterRound(s)
    \/ AcquireLock(s)
    \/ LockBusy(s)
    \/ SelectBatch(s)
    \/ \E t \in Tasks : BufferWorkload(s, t)
    \/ Commit(s)
    \/ SerializationError(s)
    \/ Heartbeat(s)

Disturbance(s) ==
    \/ RowsLocked(s)
    \/ ServerAbort(s)
    \/ Fail(s)
    \/ CommitAnswerLost(s)

Next ==
    \/ \E t \in Tasks : Schedule(t)
    \/ \E s \in Schedulers : SchedulerStep(s) \/ Disturbance(s)
    \/ \E s \in Schedulers, t \in Tasks : Finish(s, t)

Spec == Init /\ [][Next]_vars

\* A heartbeat that sends something.
Send(s) == Heartbeat(s) /\ queued_tasks' # queued_tasks

\* A scheduler keeps looping, its executors do not leave every workload for later
\* for ever, and its workers finish.  Tasks need not be created and nothing need
\* go wrong.
Fairness ==
    /\ \A s \in Schedulers : WF_vars(SchedulerStep(s)) /\ SF_vars(Send(s))
    /\ \A s \in Schedulers, t \in Tasks : WF_vars(Finish(s, t))

FairSpec == Spec /\ Fairness

-----------------------------------------------------------------------------
(* Safety. *)

Live(s) == pc[s] # "crashed"

\* The task instances the database says s has taken and not finished.
Committed(s) == {t \in Tasks : ti[t] = "queued" /\ queued_by[t] = s}

\* The advisory lock admits one scheduler: of the transactions that are still
\* good at most one is past it, also when the database has dropped the lock of a
\* transaction whose client does not know yet.
OneInCriticalSection ==
    \A r, s \in Schedulers :
        (/\ pc[r] \in InCriticalSection /\ txn[r] = "open"
         /\ pc[s] \in InCriticalSection /\ txn[s] = "open") => r = s

\* What the discard is for: whenever the executors may look at their queues,
\* every workload in them is a task the database has as queued by this scheduler.
NoOrphanWorkload ==
    \A s \in Schedulers :
        pc[s] \in {"loop", "heartbeat"} => queued_tasks[s] \subseteq Committed(s)

\* The converse, which a discard that takes too much would break: a task that a
\* live scheduler has committed as queued is buffered in its executors or running.
NoLostTask ==
    \A s \in Schedulers :
        Live(s) => Committed(s) \subseteq queued_tasks[s] \cup running[s]

\* A try of a task is sent to a worker at most once, by all schedulers together.
DispatchedOnce == \A t \in Tasks : dispatches[t] <= 1

\* With the patch a serialization conflict, at whichever statement it surfaces,
\* stops no scheduler: only what is counted in `failures` does.
SurvivesConflicts ==
    knobs.patched => Cardinality({s \in Schedulers : ~Live(s)}) <= failures

\* A scheduler never holds more workloads than its executors have slots, rolled
\* back rounds included.
SlotsRespected ==
    \A s \in Schedulers :
        Cardinality(queued_tasks[s]) + Cardinality(running[s]) <= Parallelism

\* The advisory lock has a holder that is still at work in its critical section:
\* whatever ends a round, an error or a death included, gives it back.
LockGivenBack == lock # None => pc[lock] \in InCriticalSection

\* How many steps of its own a scheduler has before it in the open round at most: the
\* lock, the selection, a workload per free slot and the end.
RoundLeft(s) ==
    CASE pc[s] = "lock" -> Parallelism + 3
      [] pc[s] = "select" -> Parallelism + 2
      [] pc[s] = "buffer" -> Cardinality(batch[s] \ queued_tasks[s]) + 1
      [] OTHER -> 0

OwnState(s) == <<pc[s], batch[s], queued_tasks[s]>>

\* What s does in a round brings it nearer to the end of it.
RoundAdvance(s) ==
    pc[s] \in InTransaction /\ OwnState(s)' # OwnState(s)
        => RoundLeft(s)' \in 0 .. RoundLeft(s) - 1

Advance == \A s \in Schedulers : RoundAdvance(s)

\* A round is bounded: what a scheduler does between the snapshot and the end of the
\* transaction brings it nearer to that end, whatever the others and the database do,
\* and so nobody waits for the lock of a scheduler that goes in circles.
RoundsAdvance == [][Advance]_vars

-----------------------------------------------------------------------------
(* Liveness. *)

\* A scheduled task is completed unless a scheduler takes it to the grave, or
\* no scheduler is left; a conflict or a lock whose holder died stalls nobody.
EventuallyRuns ==
    \A t \in Tasks :
        ti[t] = "scheduled" ~>
            \/ ti[t] = "done"
            \/ queued_by[t] # None /\ ~Live(queued_by[t])
            \/ \A s \in Schedulers : ~Live(s)

-----------------------------------------------------------------------------
(* The promise it implements. *)

QueuedStage(t) ==
    IF ~Live(queued_by[t]) THEN "lost"
    ELSE IF t \in running[queued_by[t]] THEN "sent"
    ELSE IF t \in queued_tasks[queued_by[t]] THEN "assigned"
    ELSE "lost"

StageOf(t) ==
    CASE ti[t] = "none" -> "new"
      [] ti[t] = "scheduled" -> "waiting"
      [] ti[t] = "queued" -> QueuedStage(t)
      [] OTHER -> "done"

Handoff == INSTANCE TaskHandoff
              WITH alive <- {s \in Schedulers : Live(s)},
                   stage <- [t \in Tasks |-> StageOf(t)],
                   holder <- queued_by

\* The scheduler, its in-memory queue and the database together are one handoff.
ImplementsHandoff == Handoff!HandoffSpec

=============================================================================
