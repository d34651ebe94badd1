------------------------- MODULE SchedulerHAProofs -------------------------
(***************************************************************************)
(* Proofs about SchedulerHA, for every set of schedulers and tasks, every  *)
(* number of executor slots and every bound on conflicts and failures.     *)
(*                                                                         *)
(* The inductive invariant speaks of the stable queue of a scheduler: the  *)
(* workloads that will still be there if the open round is rolled back.    *)
(***************************************************************************)
EXTENDS SchedulerHA, FiniteSetTheorems, TLAPS

\* The queue as it is between rounds, and as the snapshot has it within one.
Stable(s) == IF pc[s] \in InTransaction THEN queued_keys_before[s] ELSE queued_tasks[s]

\* The lock is held from inside the critical section only, and a good
\* transaction in there holds it.
LockInv ==
    /\ \A s \in Schedulers : txn[s] # "none" <=> pc[s] \in InTransaction
    /\ \A s \in Schedulers :
          pc[s] \in InCriticalSection /\ txn[s] = "open" => lock = s

\* Rows have an owner from the commit that queues them.
RowInv == \A t \in Tasks : queued_by[t] = None <=> ti[t] \in {"none", "scheduled"}

\* The batch of a round is not yet anything of this scheduler, and it is still
\* free for the taking while the transaction is good.
BatchInv ==
    \A s \in Schedulers : \A t \in batch[s] :
        /\ pc[s] = "buffer"
        /\ ti[t] # "none" /\ queued_by[t] # s
        /\ txn[s] = "open" => ti[t] = "scheduled"

\* How the in-memory queue, the snapshot and the database are related.
QueueInv ==
    \A s \in Schedulers :
        /\ Stable(s) \subseteq Committed(s)
        /\ Stable(s) \subseteq queued_tasks[s]
        /\ queued_tasks[s] \subseteq Stable(s) \cup batch[s]
        /\ Live(s) => Committed(s) \subseteq Stable(s) \cup running[s]
        /\ Stable(s) \cap running[s] = {}
        /\ \A t \in running[s] : queued_by[t] = s
        /\ ~Live(s) => queued_tasks[s] = {} /\ running[s] = {}

\* Nothing that is waiting, in the database or in a stable queue, has been sent.
DispatchInv ==
    /\ \A t \in Tasks : dispatches[t] \in {0, 1}
    /\ \A t \in Tasks : ti[t] \in {"none", "scheduled"} => dispatches[t] = 0
    /\ \A s \in Schedulers : \A t \in Stable(s) : dispatches[t] = 0

\* The slots suffice for what is queued, running and about to be buffered.
SlotInv ==
    \A s \in Schedulers :
        Cardinality(Stable(s) \cup batch[s]) + Cardinality(running[s]) <= Parallelism

IInv ==
    /\ TypeOK
    /\ LockInv
    /\ RowInv
    /\ BatchInv
    /\ QueueInv

-----------------------------------------------------------------------------
(* Type correctness. *)

\* Every deployment of docker/.env takes the advisory lock.
LEMMA LockIsTaken == ASSUME knobs \in Deployments PROVE TakesLock
BY DEF Deployments, TakesLock, LockDialects

LEMMA TypeInit == Init => TypeOK
BY KnobsAssumption, BoundsAssumption DEF Init, TypeOK, PCs

\* What the end of a round and a crash leave behind is well typed.
LEMMA CrashType ==
    ASSUME TypeOK, NEW s \in Schedulers, Crash(s)
    PROVE  /\ lock' \in Schedulers \cup {None}
           /\ txn' \in [Schedulers -> {"none", "open", "aborted"}]
           /\ pc' \in [Schedulers -> PCs]
           /\ batch' \in [Schedulers -> SUBSET Tasks]
           /\ queued_tasks' \in [Schedulers -> SUBSET Tasks]
           /\ queued_keys_before' \in [Schedulers -> SUBSET Tasks]
           /\ running' \in [Schedulers -> SUBSET Tasks]
BY DEF TypeOK, Crash, Goto, EndTransaction, PCs

LEMMA LeaveRoundType ==
    ASSUME TypeOK, NEW s \in Schedulers, LeaveRound(s)
    PROVE  /\ lock' \in Schedulers \cup {None}
           /\ txn' \in [Schedulers -> {"none", "open", "aborted"}]
           /\ pc' \in [Schedulers -> PCs]
           /\ batch' \in [Schedulers -> SUBSET Tasks]
           /\ queued_keys_before' \in [Schedulers -> SUBSET Tasks]
BY DEF TypeOK, LeaveRound, Goto, EndTransaction, PCs

LEMMA CommitRowsType ==
    ASSUME TypeOK, NEW s \in Schedulers, CommitRows(s)
    PROVE  /\ ti' \in [Tasks -> {"none", "scheduled", "queued", "done"}]
           /\ queued_by' \in [Tasks -> Schedulers \cup {None}]
BY DEF TypeOK, CommitRows

LEMMA TypeStep == TypeOK /\ [Next]_vars => TypeOK'
<1> SUFFICES ASSUME TypeOK, [Next]_vars PROVE TypeOK'
  OBVIOUS
<1> USE BoundsAssumption DEF db, session, executor, round, budgets
<1>1. CASE UNCHANGED vars
  BY <1>1 DEF TypeOK, vars
<1>2. ASSUME NEW t \in Tasks, Schedule(t) PROVE TypeOK'
  BY <1>2 DEF TypeOK, Schedule
<1>3. ASSUME NEW s \in Schedulers, NEW t \in Tasks, Finish(s, t) PROVE TypeOK'
  BY <1>3 DEF TypeOK, Finish
<1>4. ASSUME NEW s \in Schedulers, SchedulerStep(s) PROVE TypeOK'
  <2>1. CASE SkipCriticalSection(s)
    BY <2>1 DEF TypeOK, SkipCriticalSection, Goto, PCs
  <2>2. CASE EnterRound(s)
    BY <2>2 DEF TypeOK, EnterRound, Goto, PCs
  <2>3. CASE AcquireLock(s)
    BY <2>3 DEF TypeOK, AcquireLock, Goto, PCs
  <2>4. CASE LockBusy(s)
    BY <2>4, LeaveRoundType DEF TypeOK, LockBusy, OnLockNotAvailable
  <2>5. CASE SelectBatch(s)
    BY <2>5 DEF TypeOK, SelectBatch, Scheduled, Goto, PCs
  <2>6. ASSUME NEW t \in Tasks, BufferWorkload(s, t) PROVE TypeOK'
    BY <2>6 DEF TypeOK, BufferWorkload
  <2>7. CASE Commit(s)
    BY <2>7, LeaveRoundType, CommitRowsType DEF TypeOK, Commit
  <2>8. CASE SerializationError(s)
    <3>1. CASE HandlesConflicts
      BY <2>8, <3>1, LeaveRoundType DEF TypeOK, SerializationError, ConflictCaught
    <3>2. CASE ~HandlesConflicts
      BY <2>8, <3>2, CrashType DEF TypeOK, SerializationError
    <3> QED BY <3>1, <3>2
  <2>9. CASE Heartbeat(s)
    <3> USE <2>9 DEF Heartbeat
    <3>1. queued_tasks' \in [Schedulers -> SUBSET Tasks]
      BY DEF TypeOK
    <3>2. running' \in [Schedulers -> SUBSET Tasks]
      BY DEF TypeOK
    <3>3. dispatches' \in [Tasks -> Nat]
      BY DEF TypeOK
    <3> QED BY <3>1, <3>2, <3>3 DEF TypeOK, Goto, PCs
  <2> QED BY <1>4, <2>1, <2>2, <2>3, <2>4, <2>5, <2>6, <2>7, <2>8, <2>9 DEF SchedulerStep
<1>5. ASSUME NEW s \in Schedulers, Disturbance(s) PROVE TypeOK'
  <2>1. CASE RowsLocked(s)
    BY <2>1, LeaveRoundType DEF TypeOK, RowsLocked, OnLockNotAvailable
  <2>2. CASE ServerAbort(s)
    BY <2>2 DEF TypeOK, ServerAbort
  <2>3. CASE Fail(s)
    BY <2>3, CrashType DEF TypeOK, Fail
  <2>4. CASE CommitAnswerLost(s)
    BY <2>4, CrashType, CommitRowsType DEF TypeOK, CommitAnswerLost
  <2> QED BY <1>5, <2>1, <2>2, <2>3, <2>4 DEF Disturbance
<1> QED BY <1>1, <1>2, <1>3, <1>4, <1>5 DEF Next

\* The state of the schedulers, their sessions and the database stays in its types.
THEOREM TypeCorrect == Spec => []TypeOK
BY TypeInit, TypeStep, PTL DEF Spec

\* The lock and the transactions keep in step with the program counters.
LEMMA LockStep == TypeOK /\ LockInv /\ [Next]_vars => LockInv'
<1> SUFFICES ASSUME TypeOK, LockInv, [Next]_vars PROVE LockInv'
  OBVIOUS
<1> USE NoneAssumption DEF db, session, executor, round, budgets, TypeOK, LockInv, Goto, EndTransaction, InTransaction, InCriticalSection
<1>1. CASE UNCHANGED vars
  BY <1>1 DEF vars
<1>2. ASSUME NEW t \in Tasks, Schedule(t) PROVE LockInv'
  BY <1>2 DEF Schedule
<1>3. ASSUME NEW s \in Schedulers, NEW t \in Tasks, Finish(s, t) PROVE LockInv'
  BY <1>3 DEF Finish
<1>4. ASSUME NEW s \in Schedulers, SchedulerStep(s) PROVE LockInv'
  <2>1. CASE SkipCriticalSection(s)
    BY <2>1 DEF SkipCriticalSection
  <2>2. CASE EnterRound(s)
    BY <2>2 DEF EnterRound
  <2>3. CASE AcquireLock(s)
    BY <2>3, LockIsTaken DEF AcquireLock
  <2>4. CASE LockBusy(s)
    BY <2>4 DEF LockBusy, OnLockNotAvailable, LeaveRound
  <2>5. CASE SelectBatch(s)
    BY <2>5 DEF SelectBatch
  <2>6. ASSUME NEW t \in Tasks, BufferWorkload(s, t) PROVE LockInv'
    BY <2>6 DEF BufferWorkload
  <2>7. CASE Commit(s)
    BY <2>7 DEF Commit, AtCommit, LeaveRound
  <2>8. CASE SerializationError(s)
    BY <2>8 DEF SerializationError, ConflictCaught, LeaveRound, Crash
  <2>9. CASE Heartbeat(s)
    BY <2>9 DEF Heartbeat
  <2> QED BY <1>4, <2>1, <2>2, <2>3, <2>4, <2>5, <2>6, <2>7, <2>8, <2>9 DEF SchedulerStep
<1>5. ASSUME NEW s \in Schedulers, Disturbance(s) PROVE LockInv'
  <2>1. CASE RowsLocked(s)
    BY <2>1 DEF RowsLocked, OnLockNotAvailable, LeaveRound, RowLockPoints
  <2>2. CASE ServerAbort(s)
    BY <2>2 DEF ServerAbort
  <2>3. CASE Fail(s)
    BY <2>3 DEF Fail, Crash
  <2>4. CASE CommitAnswerLost(s)
    BY <2>4 DEF CommitAnswerLost, AtCommit, Crash
  <2> QED BY <1>5, <2>1, <2>2, <2>3, <2>4 DEF Disturbance
<1> QED BY <1>1, <1>2, <1>3, <1>4, <1>5 DEF Next

\* A row gets its owner in the commit that queues it and keeps it.
LEMMA RowStep == TypeOK /\ RowInv /\ [Next]_vars => RowInv'
<1> SUFFICES ASSUME TypeOK, RowInv, [Next]_vars PROVE RowInv'
  OBVIOUS
<1> USE NoneAssumption DEF db, session, executor, round, budgets, TypeOK, RowInv
<1>1. CASE UNCHANGED vars
  BY <1>1 DEF vars
<1>2. ASSUME NEW t \in Tasks, Schedule(t) PROVE RowInv'
  BY <1>2 DEF Schedule
<1>3. ASSUME NEW s \in Schedulers, NEW t \in Tasks, Finish(s, t) PROVE RowInv'
  BY <1>3 DEF Finish
<1>4. ASSUME NEW s \in Schedulers, SchedulerStep(s) PROVE RowInv'
  <2>1. CASE SkipCriticalSection(s)
    BY <2>1 DEF SkipCriticalSection
  <2>2. CASE EnterRound(s)
    BY <2>2 DEF EnterRound
  <2>3. CASE AcquireLock(s)
    BY <2>3 DEF AcquireLock
  <2>4. CASE LockBusy(s)
    BY <2>4 DEF LockBusy, OnLockNotAvailable
  <2>5. CASE SelectBatch(s)
    BY <2>5 DEF SelectBatch
  <2>6. ASSUME NEW t \in Tasks, BufferWorkload(s, t) PROVE RowInv'
    BY <2>6 DEF BufferWorkload
  <2>7. CASE Commit(s)
    BY <2>7 DEF Commit, CommitRows
  <2>8. CASE SerializationError(s)
    BY <2>8 DEF SerializationError, ConflictCaught, Crash
  <2>9. CASE Heartbeat(s)
    BY <2>9 DEF Heartbeat
  <2> QED BY <1>4, <2>1, <2>2, <2>3, <2>4, <2>5, <2>6, <2>7, <2>8, <2>9 DEF SchedulerStep
<1>5. ASSUME NEW s \in Schedulers, Disturbance(s) PROVE RowInv'
  <2>1. CASE RowsLocked(s)
    BY <2>1 DEF RowsLocked, OnLockNotAvailable
  <2>2. CASE ServerAbort(s)
    BY <2>2 DEF ServerAbort
  <2>3. CASE Fail(s)
    BY <2>3 DEF Fail
  <2>4. CASE CommitAnswerLost(s)
    BY <2>4 DEF CommitAnswerLost, CommitRows
  <2> QED BY <1>5, <2>1, <2>2, <2>3, <2>4 DEF Disturbance
<1> QED BY <1>1, <1>2, <1>3, <1>4, <1>5 DEF Next

\* What a round selected stays free while its transaction is good: nobody else
\* commits, because committing takes the advisory lock.
LEMMA BatchStep == TypeOK /\ LockInv /\ RowInv /\ BatchInv /\ [Next]_vars => BatchInv'
<1> SUFFICES ASSUME TypeOK, LockInv, RowInv, BatchInv, [Next]_vars PROVE BatchInv'
  OBVIOUS
<1> USE NoneAssumption DEF db, session, executor, round, budgets, TypeOK, LockInv, RowInv, BatchInv, Goto, EndTransaction, InTransaction, InCriticalSection
<1>1. CASE UNCHANGED vars
  BY <1>1 DEF vars
<1>2. ASSUME NEW t \in Tasks, Schedule(t) PROVE BatchInv'
  BY <1>2 DEF Schedule
<1>3. ASSUME NEW s \in Schedulers, NEW t \in Tasks, Finish(s, t) PROVE BatchInv'
  BY <1>3 DEF Finish
<1>4. ASSUME NEW s \in Schedulers, SchedulerStep(s) PROVE BatchInv'
  <2>1. CASE SkipCriticalSection(s)
    BY <2>1 DEF SkipCriticalSection
  <2>2. CASE EnterRound(s)
    BY <2>2 DEF EnterRound
  <2>3. CASE AcquireLock(s)
    BY <2>3 DEF AcquireLock
  <2>4. CASE LockBusy(s)
    BY <2>4 DEF LockBusy, OnLockNotAvailable, LeaveRound
  <2>5. CASE SelectBatch(s)
    BY <2>5 DEF SelectBatch, Scheduled
  <2>6. ASSUME NEW t \in Tasks, BufferWorkload(s, t) PROVE BatchInv'
    BY <2>6 DEF BufferWorkload
  <2>7. CASE Commit(s)
    BY <2>7 DEF Commit, AtCommit, LeaveRound, CommitRows
  <2>8. CASE SerializationError(s)
    BY <2>8 DEF SerializationError, ConflictCaught, LeaveRound, Crash
  <2>9. CASE Heartbeat(s)
    BY <2>9 DEF Heartbeat
  <2> QED BY <1>4, <2>1, <2>2, <2>3, <2>4, <2>5, <2>6, <2>7, <2>8, <2>9 DEF SchedulerStep
<1>5. ASSUME NEW s \in Schedulers, Disturbance(s) PROVE BatchInv'
  <2>1. CASE RowsLocked(s)
    BY <2>1 DEF RowsLocked, OnLockNotAvailable, LeaveRound, RowLockPoints
  <2>2. CASE ServerAbort(s)
    BY <2>2 DEF ServerAbort
  <2>3. CASE Fail(s)
    BY <2>3 DEF Fail, Crash
  <2>4. CASE CommitAnswerLost(s)
    BY <2>4 DEF CommitAnswerLost, AtCommit, Crash, CommitRows
  <2> QED BY <1>5, <2>1, <2>2, <2>3, <2>4 DEF Disturbance
<1> QED BY <1>1, <1>2, <1>3, <1>4, <1>5 DEF Next

\* Every step keeps queue, snapshot and database in line; a rollback falls back to
\* the snapshot, a commit turns the batch into stable workloads.
LEMMA QueueStep == TypeOK /\ LockInv /\ RowInv /\ BatchInv /\ QueueInv /\ [Next]_vars => QueueInv'
<1> SUFFICES ASSUME TypeOK, LockInv, RowInv, BatchInv, QueueInv, [Next]_vars PROVE QueueInv'
  OBVIOUS
<1> USE NoneAssumption DEF db, session, executor, round, budgets, TypeOK, LockInv, RowInv, BatchInv, QueueInv, Stable, Committed, Live, Goto, EndTransaction, InTransaction
<1>1. CASE UNCHANGED vars
  BY <1>1 DEF vars
<1>2. ASSUME NEW t \in Tasks, Schedule(t) PROVE QueueInv'
  BY <1>2 DEF Schedule
<1>3. ASSUME NEW s \in Schedulers, NEW t \in Tasks, Finish(s, t) PROVE QueueInv'
  BY <1>3 DEF Finish
<1>4. ASSUME NEW s \in Schedulers, SchedulerStep(s) PROVE QueueInv'
  <2>1. CASE SkipCriticalSection(s)
    BY <2>1 DEF SkipCriticalSection
  <2>2. CASE EnterRound(s)
    BY <2>2 DEF EnterRound
  <2>3. CASE AcquireLock(s)
    BY <2>3 DEF AcquireLock
  <2>4. CASE LockBusy(s)
    BY <2>4 DEF LockBusy, OnLockNotAvailable, LeaveRound
  <2>5. CASE SelectBatch(s)
    BY <2>5 DEF SelectBatch, Scheduled
  <2>6. ASSUME NEW t \in Tasks, BufferWorkload(s, t) PROVE QueueInv'
    BY <2>6 DEF BufferWorkload
  <2>7. CASE Commit(s)
    BY <2>7 DEF Commit, AtCommit, LeaveRound, CommitRows, InCriticalSection
  <2>8. CASE SerializationError(s)
    BY <2>8 DEF SerializationError, ConflictCaught, LeaveRound, Crash, RoundKeys
  <2>9. CASE Heartbeat(s)
    BY <2>9 DEF Heartbeat, Finished
  <2> QED BY <1>4, <2>1, <2>2, <2>3, <2>4, <2>5, <2>6, <2>7, <2>8, <2>9 DEF SchedulerStep
<1>5. ASSUME NEW s \in Schedulers, Disturbance(s) PROVE QueueInv'
  <2>1. CASE RowsLocked(s)
    BY <2>1 DEF RowsLocked, OnLockNotAvailable, LeaveRound, RowLockPoints
  <2>2. CASE ServerAbort(s)
    BY <2>2 DEF ServerAbort
  <2>3. CASE Fail(s)
    BY <2>3 DEF Fail, Crash
  <2>4. CASE CommitAnswerLost(s)
    BY <2>4 DEF CommitAnswerLost, AtCommit, Crash, CommitRows, InCriticalSection
  <2> QED BY <1>5, <2>1, <2>2, <2>3, <2>4 DEF Disturbance
<1> QED BY <1>1, <1>2, <1>3, <1>4, <1>5 DEF Next

-----------------------------------------------------------------------------
(* Dispatches and slots. *)

\* Only what is in a stable queue is sent, and what is sent leaves every such queue.
LEMMA DispatchStep == IInv /\ DispatchInv /\ [Next]_vars => DispatchInv'
<1> SUFFICES ASSUME IInv, DispatchInv, [Next]_vars PROVE DispatchInv'
  OBVIOUS
<1> USE NoneAssumption DEF db, session, executor, round, budgets, IInv, TypeOK, LockInv, RowInv, BatchInv, QueueInv, DispatchInv, Stable, Committed, Live, Goto, EndTransaction, InTransaction
<1>1. CASE UNCHANGED vars
  BY <1>1 DEF vars
<1>2. ASSUME NEW t \in Tasks, Schedule(t) PROVE DispatchInv'
  BY <1>2 DEF Schedule
<1>3. ASSUME NEW s \in Schedulers, NEW t \in Tasks, Finish(s, t) PROVE DispatchInv'
  BY <1>3 DEF Finish
<1>4. ASSUME NEW s \in Schedulers, SchedulerStep(s) PROVE DispatchInv'
  <2>1. CASE SkipCriticalSection(s)
    BY <2>1 DEF SkipCriticalSection
  <2>2. CASE EnterRound(s)
    BY <2>2 DEF EnterRound
  <2>3. CASE AcquireLock(s)
    BY <2>3 DEF AcquireLock
  <2>4. CASE LockBusy(s)
    BY <2>4 DEF LockBusy, OnLockNotAvailable, LeaveRound
  <2>5. CASE SelectBatch(s)
    BY <2>5 DEF SelectBatch, Scheduled
  <2>6. ASSUME NEW t \in Tasks, BufferWorkload(s, t) PROVE DispatchInv'
    BY <2>6 DEF BufferWorkload
  <2>7. CASE Commit(s)
    BY <2>7 DEF Commit, AtCommit, LeaveRound, CommitRows, InCriticalSection
  <2>8. CASE SerializationError(s)
    BY <2>8 DEF SerializationError, ConflictCaught, LeaveRound, Crash, RoundKeys
  <2>9. CASE Heartbeat(s)
    BY <2>9 DEF Heartbeat
  <2> QED BY <1>4, <2>1, <2>2, <2>3, <2>4, <2>5, <2>6, <2>7, <2>8, <2>9 DEF SchedulerStep
<1>5. ASSUME NEW s \in Schedulers, Disturbance(s) PROVE DispatchInv'
  <2>1. CASE RowsLocked(s)
    BY <2>1 DEF RowsLocked, OnLockNotAvailable, LeaveRound, RowLockPoints
  <2>2. CASE ServerAbort(s)
    BY <2>2 DEF ServerAbort
  <2>3. CASE Fail(s)
    BY <2>3 DEF Fail, Crash
  <2>4. CASE CommitAnswerLost(s)
    BY <2>4 DEF CommitAnswerLost, AtCommit, Crash, CommitRows, InCriticalSection
  <2> QED BY <1>5, <2>1, <2>2, <2>3, <2>4 DEF Disturbance
<1> QED BY <1>1, <1>2, <1>3, <1>4, <1>5 DEF Next


\* What a scheduler holds or may come to hold when its open round commits.
Claimed(s) == Stable(s) \cup batch[s]

LEMMA TaskSets ==
    ASSUME NEW A \in SUBSET Tasks, NEW B \in SUBSET Tasks
    PROVE  /\ IsFiniteSet(A)
           /\ Cardinality(A) \in Nat
           /\ A \subseteq B => Cardinality(A) <= Cardinality(B)
           /\ Cardinality(A \cup B) <= Cardinality(A) + Cardinality(B)
           /\ B \subseteq A => Cardinality(A \ B) = Cardinality(A) - Cardinality(B)
<1>1. IsFiniteSet(A) /\ IsFiniteSet(B)
  BY FinitenessAssumption, FS_Subset
<1>2. Cardinality(A) \in Nat /\ Cardinality(B) \in Nat
  BY <1>1, FS_CardinalityType
<1>3. A \subseteq B => Cardinality(A) <= Cardinality(B)
  BY <1>1, FS_Subset
<1>4. Cardinality(A \cup B) = Cardinality(A) + Cardinality(B) - Cardinality(A \cap B)
  BY <1>1, FS_Union
<1>5. Cardinality(A \cap B) \in Nat
  BY <1>1, FS_Intersection, FS_CardinalityType
<1>6. Cardinality(A \ B) = Cardinality(A) - Cardinality(A \cap B)
  BY <1>1, FS_Difference
<1>7. Cardinality(A \cup B) <= Cardinality(A) + Cardinality(B)
  BY <1>2, <1>4, <1>5
<1>8. ASSUME B \subseteq A PROVE Cardinality(A \ B) = Cardinality(A) - Cardinality(B)
  <2>1. A \cap B = B
    BY <1>8
  <2> QED BY <2>1, <1>6
<1> QED BY <1>1, <1>2, <1>3, <1>7, <1>8

\* Workloads sent from a queue Q to the running R do not add up to more than before.
LEMMA MovedClaims ==
    ASSUME NEW Q \in SUBSET Tasks, NEW R \in SUBSET Tasks, NEW S \in SUBSET Q,
           NEW R2 \in SUBSET (R \cup S), Cardinality(Q) + Cardinality(R) <= Parallelism
    PROVE  Cardinality(Q \ S) + Cardinality(R2) <= Parallelism
<1>1. S \in SUBSET Tasks /\ R \cup S \in SUBSET Tasks /\ R2 \in SUBSET Tasks
  OBVIOUS
<1>2. Cardinality(Q \ S) = Cardinality(Q) - Cardinality(S)
  BY <1>1, TaskSets
<1>3. Cardinality(R2) <= Cardinality(R \cup S)
  BY <1>1, TaskSets
<1>4. Cardinality(R \cup S) <= Cardinality(R) + Cardinality(S)
  BY <1>1, TaskSets
<1>5. /\ Cardinality(Q) \in Nat /\ Cardinality(S) \in Nat /\ Cardinality(R) \in Nat
      /\ Cardinality(R2) \in Nat /\ Cardinality(R \cup S) \in Nat
  BY <1>1, TaskSets
<1> QED BY <1>2, <1>3, <1>4, <1>5, BoundsAssumption

LEMMA ClaimedType ==
    ASSUME TypeOK, NEW s \in Schedulers
    PROVE  Claimed(s) \in SUBSET Tasks /\ running[s] \in SUBSET Tasks
BY DEF TypeOK, Claimed, Stable

\* A step that claims and runs nothing new cannot exceed the slots.
LEMMA SlotShrink ==
    ASSUME TypeOK, SlotInv,
           \A s \in Schedulers : Claimed(s)' \subseteq Claimed(s) /\ running'[s] \subseteq running[s]
    PROVE  SlotInv'
<1> SUFFICES ASSUME NEW s \in Schedulers
             PROVE  Cardinality(Claimed(s)') + Cardinality(running'[s]) <= Parallelism
  BY DEF SlotInv, Claimed
<1>1. Claimed(s) \in SUBSET Tasks /\ running[s] \in SUBSET Tasks
  BY ClaimedType
<1>2. Claimed(s)' \in SUBSET Tasks /\ running'[s] \in SUBSET Tasks
  BY <1>1
<1>3. Cardinality(Claimed(s)') <= Cardinality(Claimed(s))
  BY <1>1, <1>2, TaskSets
<1>4. Cardinality(running'[s]) <= Cardinality(running[s])
  BY <1>1, <1>2, TaskSets
<1>5. Cardinality(Claimed(s)) + Cardinality(running[s]) <= Parallelism
  BY DEF SlotInv, Claimed
<1>6. /\ Cardinality(Claimed(s)') \in Nat /\ Cardinality(Claimed(s)) \in Nat
      /\ Cardinality(running'[s]) \in Nat /\ Cardinality(running[s]) \in Nat
  BY <1>1, <1>2, TaskSets
<1> QED BY <1>3, <1>4, <1>5, <1>6, BoundsAssumption

\* Only selecting a batch claims slots, and only as many as are free; a heartbeat
\* moves claims from the queue to the workers.
LEMMA SlotStep == IInv /\ SlotInv /\ [Next]_vars => SlotInv'
<1> SUFFICES ASSUME IInv, SlotInv, [Next]_vars PROVE SlotInv'
  OBVIOUS
<1> USE NoneAssumption DEF db, session, executor, round, budgets, IInv, TypeOK, LockInv, BatchInv, QueueInv, Claimed, Stable, Live, Goto, EndTransaction, InTransaction
<1>1. CASE UNCHANGED vars
  BY <1>1, SlotShrink DEF vars
<1>2. ASSUME NEW t \in Tasks, Schedule(t) PROVE SlotInv'
  BY <1>2, SlotShrink DEF Schedule
<1>3. ASSUME NEW s \in Schedulers, NEW t \in Tasks, Finish(s, t) PROVE SlotInv'
  BY <1>3, SlotShrink DEF Finish
<1>4. ASSUME NEW s \in Schedulers, SchedulerStep(s) PROVE SlotInv'
  <2>1. CASE SkipCriticalSection(s)
    BY <2>1, SlotShrink DEF SkipCriticalSection
  <2>2. CASE EnterRound(s)
    BY <2>2, SlotShrink DEF EnterRound
  <2>3. CASE AcquireLock(s)
    BY <2>3, SlotShrink DEF AcquireLock
  <2>4. CASE LockBusy(s)
    BY <2>4, SlotShrink DEF LockBusy, OnLockNotAvailable, LeaveRound
  <2>5. CASE SelectBatch(s)

    <3>1. PICK B \in SUBSET Scheduled : FillsSlots(s, B) /\ batch' = [batch EXCEPT ![s] = B]
      BY <2>5 DEF SelectBatch
    <3>2. Claimed(s)' = queued_tasks[s] \cup B /\ running'[s] = running[s]
      BY <2>5, <3>1 DEF SelectBatch
    <3>3. ASSUME NEW r \in Schedulers, r # s
          PROVE  Claimed(r)' = Claimed(r) /\ running'[r] = running[r]
      BY <2>5, <3>1, <3>3 DEF SelectBatch
    <3>4. /\ B \in SUBSET Tasks /\ queued_tasks[s] \in SUBSET Tasks
          /\ running[s] \in SUBSET Tasks
      BY DEF Scheduled
    <3>5. Cardinality(queued_tasks[s] \cup B) + Cardinality(running[s]) <= Parallelism
      <4>1. Cardinality(B) <= Parallelism - Cardinality(queued_tasks[s]) - Cardinality(running[s])
        BY <3>1 DEF FillsSlots, FreeSlots
      <4>2. /\ Cardinality(B) \in Nat /\ Cardinality(queued_tasks[s]) \in Nat
            /\ Cardinality(running[s]) \in Nat
            /\ Cardinality(queued_tasks[s] \cup B) \in Nat
            /\ Cardinality(queued_tasks[s] \cup B) <= Cardinality(queued_tasks[s]) + Cardinality(B)
        BY <3>4, TaskSets
      <4> QED BY <4>1, <4>2, BoundsAssumption
    <3> QED BY <3>2, <3>3, <3>5 DEF SlotInv
  <2>6. ASSUME NEW t \in Tasks, BufferWorkload(s, t) PROVE SlotInv'
    BY <2>6, SlotShrink DEF BufferWorkload
  <2>7. CASE Commit(s)
    BY <2>7, SlotShrink DEF Commit, AtCommit, LeaveRound
  <2>8. CASE SerializationError(s)
    BY <2>8, SlotShrink DEF SerializationError, ConflictCaught, LeaveRound, Crash, RoundKeys
  <2>9. CASE Heartbeat(s)

    <3>1. PICK sent \in SUBSET queued_tasks[s] :
             /\ queued_tasks' = [queued_tasks EXCEPT ![s] = @ \ sent]
             /\ running' = [running EXCEPT ![s] = (@ \cup sent) \ Finished]
      BY <2>9 DEF Heartbeat
    <3>2. Claimed(s) = queued_tasks[s] /\ Claimed(s)' = queued_tasks[s] \ sent
      BY <2>9, <3>1 DEF Heartbeat
    <3>3. ASSUME NEW r \in Schedulers, r # s
          PROVE  Claimed(r)' = Claimed(r) /\ running'[r] = running[r]
      BY <2>9, <3>1, <3>3 DEF Heartbeat
    <3>4. running'[s] \subseteq running[s] \cup sent
      BY <3>1
    <3>5. /\ sent \in SUBSET Tasks /\ queued_tasks[s] \in SUBSET Tasks
          /\ running[s] \in SUBSET Tasks /\ running'[s] \in SUBSET Tasks
      BY <3>1, <3>4
    <3>6. Cardinality(queued_tasks[s]) + Cardinality(running[s]) <= Parallelism
      BY <3>2 DEF SlotInv
    <3>7. Cardinality(queued_tasks[s] \ sent) + Cardinality(running'[s]) <= Parallelism
      BY <3>4, <3>5, <3>6, MovedClaims
    <3> QED BY <3>2, <3>3, <3>7 DEF SlotInv
  <2> QED BY <1>4, <2>1, <2>2, <2>3, <2>4, <2>5, <2>6, <2>7, <2>8, <2>9 DEF SchedulerStep
<1>5. ASSUME NEW s \in Schedulers, Disturbance(s) PROVE SlotInv'
  <2>1. CASE RowsLocked(s)
    BY <2>1, SlotShrink DEF RowsLocked, OnLockNotAvailable, LeaveRound, RowLockPoints
  <2>2. CASE ServerAbort(s)
    BY <2>2, SlotShrink DEF ServerAbort
  <2>3. CASE Fail(s)
    BY <2>3, SlotShrink DEF Fail, Crash
  <2>4. CASE CommitAnswerLost(s)
    BY <2>4, SlotShrink DEF CommitAnswerLost, AtCommit, Crash
  <2> QED BY <1>5, <2>1, <2>2, <2>3, <2>4 DEF Disturbance
<1> QED BY <1>1, <1>2, <1>3, <1>4, <1>5 DEF Next

-----------------------------------------------------------------------------
(* Conflicts and the schedulers that are left. *)

Crashed == {s \in Schedulers : ~Live(s)}

\* Only a failure, or a conflict in a deployment without the patch, is fatal.
LEMMA OnlyFailuresCrash ==
    ASSUME TypeOK, [Next]_vars, knobs.patched
    PROVE  \/ Crashed' \subseteq Crashed /\ failures' = failures
           \/ /\ failures' = failures + 1
              /\ \E s \in Schedulers : Crashed' \subseteq Crashed \cup {s}
<1> USE DEF db, session, executor, round, budgets, TypeOK, Crashed, Live, Goto
<1>1. CASE UNCHANGED vars
  BY <1>1 DEF vars
<1>2. CASE \E t \in Tasks : Schedule(t)
  BY <1>2 DEF Schedule
<1>3. CASE \E s \in Schedulers, t \in Tasks : Finish(s, t)
  BY <1>3 DEF Finish
<1>4. ASSUME NEW s \in Schedulers, SchedulerStep(s)
      PROVE  Crashed' \subseteq Crashed /\ failures' = failures
  <2>1. CASE SkipCriticalSection(s)
    BY <2>1 DEF SkipCriticalSection
  <2>2. CASE EnterRound(s)
    BY <2>2 DEF EnterRound
  <2>3. CASE AcquireLock(s)
    BY <2>3 DEF AcquireLock
  <2>4. CASE LockBusy(s)
    BY <2>4 DEF LockBusy, OnLockNotAvailable, LeaveRound
  <2>5. CASE SelectBatch(s)
    BY <2>5 DEF SelectBatch
  <2>6. CASE \E t \in Tasks : BufferWorkload(s, t)
    BY <2>6 DEF BufferWorkload
  <2>7. CASE Commit(s)
    BY <2>7 DEF Commit, LeaveRound
  <2>8. CASE SerializationError(s)
    BY <2>8 DEF SerializationError, HandlesConflicts, ConflictCaught, LeaveRound
  <2>9. CASE Heartbeat(s)
    BY <2>9 DEF Heartbeat
  <2> QED BY <1>4, <2>1, <2>2, <2>3, <2>4, <2>5, <2>6, <2>7, <2>8, <2>9 DEF SchedulerStep
<1>5. ASSUME NEW s \in Schedulers, RowsLocked(s) \/ ServerAbort(s)
      PROVE  Crashed' \subseteq Crashed /\ failures' = failures
  BY <1>5 DEF RowsLocked, ServerAbort, OnLockNotAvailable, LeaveRound
<1>6. ASSUME NEW s \in Schedulers, Fail(s) \/ CommitAnswerLost(s)
      PROVE  failures' = failures + 1 /\ Crashed' \subseteq Crashed \cup {s}
  BY <1>6 DEF Fail, CommitAnswerLost, Crash
<1> QED BY <1>1, <1>2, <1>3, <1>4, <1>5, <1>6 DEF Next, Disturbance

LEMMA SurvivalStep == TypeOK /\ SurvivesConflicts /\ [Next]_vars => SurvivesConflicts'
<1> SUFFICES ASSUME TypeOK, SurvivesConflicts, [Next]_vars, knobs'.patched
             PROVE  Cardinality(Crashed') <= failures'
  BY DEF SurvivesConflicts, Crashed
<1>1. knobs' = knobs
  BY DEF Next, vars, Schedule, Finish, SchedulerStep, Disturbance, SkipCriticalSection,
         EnterRound, AcquireLock, LockBusy, OnLockNotAvailable, SelectBatch,
         BufferWorkload, Commit, SerializationError, Heartbeat, RowsLocked, ServerAbort,
         Fail, CommitAnswerLost
<1>2. Cardinality(Crashed) <= failures
  BY <1>1 DEF SurvivesConflicts, Crashed
<1>3. IsFiniteSet(Crashed) /\ IsFiniteSet(Crashed') /\ failures \in Nat
  BY FinitenessAssumption, BoundsAssumption, FS_Subset DEF Crashed, TypeOK
<1>4. Cardinality(Crashed) \in Nat /\ Cardinality(Crashed') \in Nat
  BY <1>3, FS_CardinalityType
<1>5. CASE Crashed' \subseteq Crashed /\ failures' = failures
  <2>1. Cardinality(Crashed') <= Cardinality(Crashed)
    BY <1>3, <1>5, FS_Subset
  <2> QED BY <1>2, <1>3, <1>4, <1>5, <2>1
<1>6. ASSUME NEW s \in Schedulers, failures' = failures + 1, Crashed' \subseteq Crashed \cup {s}
      PROVE  Cardinality(Crashed') <= failures'
  <2>1. /\ IsFiniteSet(Crashed \cup {s})
        /\ Cardinality(Crashed \cup {s}) \in {Cardinality(Crashed), Cardinality(Crashed) + 1}
    BY <1>3, FS_AddElement
  <2>2. Cardinality(Crashed') <= Cardinality(Crashed \cup {s})
    BY <2>1, <1>6, FS_Subset
  <2> QED BY <1>2, <1>3, <1>4, <1>6, <2>1, <2>2
<1> QED BY <1>1, <1>5, <1>6, OnlyFailuresCrash

-----------------------------------------------------------------------------
(* The theorems. *)

LEMMA InvInit == Init => IInv /\ DispatchInv /\ SlotInv /\ SurvivesConflicts
<1> SUFFICES ASSUME Init PROVE IInv /\ DispatchInv /\ SlotInv /\ SurvivesConflicts
  OBVIOUS
<1>1. LockInv /\ RowInv /\ BatchInv /\ QueueInv /\ DispatchInv
  BY NoneAssumption DEF Init, LockInv, RowInv, BatchInv, QueueInv, DispatchInv, Stable,
     Committed, Live, InTransaction, InCriticalSection
<1>2. \A s \in Schedulers : Stable(s) \cup batch[s] = {} /\ running[s] = {}
  BY DEF Init, Stable, InTransaction
<1>3. SlotInv
  BY <1>2, FS_EmptySet, BoundsAssumption DEF SlotInv
<1>4. {s \in Schedulers : ~Live(s)} = {}
  BY DEF Init, Live
<1>5. SurvivesConflicts
  BY <1>4, FS_EmptySet DEF SurvivesConflicts, Init
<1> QED BY <1>1, <1>3, <1>5, TypeInit DEF IInv

LEMMA InvStep == IInv /\ [Next]_vars => IInv'
BY TypeStep, LockStep, RowStep, BatchStep, QueueStep DEF IInv

THEOREM Invariance == Spec => [](IInv /\ DispatchInv /\ SlotInv /\ SurvivesConflicts)
<1>1. Init => IInv /\ DispatchInv /\ SlotInv /\ SurvivesConflicts
  BY InvInit
<1>2. /\ IInv /\ DispatchInv /\ SlotInv /\ SurvivesConflicts
      /\ [Next]_vars
      => (IInv /\ DispatchInv /\ SlotInv /\ SurvivesConflicts)'
  BY InvStep, DispatchStep, SlotStep, SurvivalStep DEF IInv
<1> QED BY <1>1, <1>2, PTL DEF Spec

\* The critical section excludes: pg_try_advisory_xact_lock under both dialects.
THEOREM MutualExclusion == Spec => []OneInCriticalSection
<1>1. IInv => OneInCriticalSection
  BY DEF IInv, LockInv, OneInCriticalSection
<1> QED BY <1>1, Invariance, PTL

\* The handler's rollback leaves no workload the database does not know of.
THEOREM DiscardIsComplete == Spec => []NoOrphanWorkload
<1>1. IInv => NoOrphanWorkload
  BY DEF IInv, TypeOK, BatchInv, QueueInv, NoOrphanWorkload, Stable, InTransaction
<1> QED BY <1>1, Invariance, PTL

\* And it takes no workload of an earlier round along.
THEOREM DiscardIsExact == Spec => []NoLostTask
<1>1. IInv => NoLostTask
  BY DEF IInv, QueueInv, NoLostTask
<1> QED BY <1>1, Invariance, PTL

\* No try of a task is sent twice, by one scheduler or by two.
THEOREM NoDoubleDispatch == Spec => []DispatchedOnce
<1>1. DispatchInv => DispatchedOnce
  BY DEF DispatchInv, DispatchedOnce
<1> QED BY <1>1, Invariance, PTL

\* Rolled-back rounds give their slots back.
THEOREM SlotsNeverExceeded == Spec => []SlotsRespected
<1>1. IInv /\ SlotInv => SlotsRespected
  <2> SUFFICES ASSUME IInv, SlotInv, NEW s \in Schedulers
               PROVE  Cardinality(queued_tasks[s]) + Cardinality(running[s]) <= Parallelism
    BY DEF SlotsRespected
  <2>1. /\ queued_tasks[s] \in SUBSET Tasks /\ running[s] \in SUBSET Tasks
        /\ Stable(s) \cup batch[s] \in SUBSET Tasks
    BY DEF IInv, TypeOK, Stable
  <2>2. queued_tasks[s] \subseteq Stable(s) \cup batch[s]
    BY DEF IInv, QueueInv
  <2>3. Cardinality(queued_tasks[s]) <= Cardinality(Stable(s) \cup batch[s])
    BY <2>1, <2>2, TaskSets
  <2>4. Cardinality(Stable(s) \cup batch[s]) + Cardinality(running[s]) <= Parallelism
    BY DEF SlotInv
  <2>5. /\ Cardinality(queued_tasks[s]) \in Nat /\ Cardinality(running[s]) \in Nat
        /\ Cardinality(Stable(s) \cup batch[s]) \in Nat
    BY <2>1, TaskSets
  <2> QED BY <2>3, <2>4, <2>5, BoundsAssumption
<1> QED BY <1>1, Invariance, PTL

\* With the patch the number of dead schedulers is bounded by the failures that
\* are not serialization conflicts.
THEOREM ConflictsAreSurvived == Spec => []SurvivesConflicts
BY Invariance, PTL

-----------------------------------------------------------------------------
(* SchedulerHA implements TaskHandoff. *)

\* Under the invariant the stage of a queued task depends on its owner's workers only.
PlainStage(t) ==
    IF ti[t] = "none" THEN "new"
    ELSE IF ti[t] = "scheduled" THEN "waiting"
    ELSE IF ti[t] = "done" THEN "done"
    ELSE IF ~Live(queued_by[t]) THEN "lost"
    ELSE IF t \in running[queued_by[t]] THEN "sent"
    ELSE "assigned"

LEMMA StageIsPlain == IInv => \A t \in Tasks : StageOf(t) = PlainStage(t)
<1> SUFFICES ASSUME IInv, NEW t \in Tasks PROVE StageOf(t) = PlainStage(t)
  OBVIOUS
<1>1. ti[t] \in {"none", "scheduled", "queued", "done"}
  BY DEF IInv, TypeOK
<1>2. CASE ti[t] # "queued"
  BY <1>1, <1>2 DEF StageOf, PlainStage
<1>3. CASE ti[t] = "queued"
  <2>1. queued_by[t] \in Schedulers
    BY <1>3 DEF IInv, TypeOK, RowInv
  <2>2. Live(queued_by[t]) => t \in queued_tasks[queued_by[t]] \cup running[queued_by[t]]
    BY <1>3, <2>1 DEF IInv, QueueInv, Committed
  <2> QED BY <1>3, <2>2 DEF StageOf, QueuedStage, PlainStage
<1> QED BY <1>2, <1>3

\* The plain stage in two consecutive states.
LEMMA StagesArePlain ==
    ASSUME IInv, IInv'
    PROVE  /\ [t \in Tasks |-> StageOf(t)] = [t \in Tasks |-> PlainStage(t)]
           /\ [t \in Tasks |-> StageOf(t)]' = [t \in Tasks |-> PlainStage(t)]'
<1>1. IInv' => (\A t \in Tasks : StageOf(t) = PlainStage(t))'
  BY StageIsPlain, PTL
<1> QED BY <1>1, StageIsPlain

LEMMA HandoffInitOK == Init => Handoff!HandoffInit
BY DEF Init, Handoff!HandoffInit, StageOf, Live

\* Steps that touch neither the rows nor the workers nor anybody's life.
LEMMA Hidden ==
    ASSUME IInv, IInv', UNCHANGED <<ti, queued_by, running>>,
           \A s \in Schedulers : Live(s)' <=> Live(s)
    PROVE  UNCHANGED Handoff!handoffVars
<1>1. {s \in Schedulers : Live(s)}' = {s \in Schedulers : Live(s)}
  OBVIOUS
<1>2. \A t \in Tasks : PlainStage(t)' = PlainStage(t)
  <2> SUFFICES ASSUME NEW t \in Tasks PROVE PlainStage(t)' = PlainStage(t)
    OBVIOUS
  <2>1. ti[t] \in {"none", "scheduled", "queued", "done"}
    BY DEF IInv, TypeOK
  <2>2. ti[t] = "queued" => queued_by[t] \in Schedulers
    BY DEF IInv, TypeOK, RowInv
  <2> QED BY <2>1, <2>2 DEF PlainStage
<1>3. [t \in Tasks |-> PlainStage(t)]' = [t \in Tasks |-> PlainStage(t)]
  BY <1>2
<1> QED BY <1>1, <1>3, StagesArePlain DEF Handoff!handoffVars

\* A crash, with or without a commit that made it to the database.
LEMMA CrashDies ==
    ASSUME IInv, IInv', NEW s \in Schedulers, Live(s), Crash(s),
           \/ UNCHANGED db
           \/ CommitRows(s) /\ txn[s] = "open"
    PROVE  \E B \in SUBSET Tasks : Handoff!Die(s, B)
<1> DEFINE B == IF UNCHANGED db THEN {} ELSE batch[s]
<1>1. /\ B \in SUBSET Tasks
      /\ \A t \in B : ti[t] = "scheduled"
      /\ \A t \in Tasks : ti'[t] = IF t \in B THEN "queued" ELSE ti[t]
      /\ \A t \in Tasks : queued_by'[t] = IF t \in B THEN s ELSE queued_by[t]
  BY DEF IInv, TypeOK, BatchInv, CommitRows, db
<1>2. /\ ~Live(s)'
      /\ \A r \in Schedulers \ {s} : (Live(r)' <=> Live(r)) /\ running'[r] = running[r]
  BY DEF Crash, Goto, Live, IInv, TypeOK
<1>3. \A t \in Tasks : /\ ti[t] \in {"none", "scheduled", "queued", "done"}
                       /\ ti[t] \in {"none", "scheduled"} <=> queued_by[t] = None
                       /\ queued_by[t] \in Schedulers \cup {None}
  BY DEF IInv, TypeOK, RowInv
<1> HIDE DEF B
<1>4. {r \in Schedulers : Live(r)}' = {r \in Schedulers : Live(r)} \ {s}
  BY <1>2
<1>5. \A t \in Tasks : PlainStage(t)' =
          IF t \in B \cup {u \in Tasks : queued_by[u] = s /\ PlainStage(u) # "done"}
          THEN "lost" ELSE PlainStage(t)
  <2> SUFFICES ASSUME NEW t \in Tasks
               PROVE  PlainStage(t)' =
                         IF t \in B \/ (queued_by[t] = s /\ PlainStage(t) # "done")
                         THEN "lost" ELSE PlainStage(t)
    OBVIOUS
  <2>1. CASE t \in B
    BY <1>1, <1>2, <2>1 DEF PlainStage
  <2>2. CASE t \notin B /\ queued_by[t] = s
    BY <1>1, <1>2, <1>3, <2>2, NoneAssumption DEF PlainStage
  <2>3. CASE t \notin B /\ queued_by[t] # s
    BY <1>1, <1>2, <1>3, <2>3 DEF PlainStage
  <2> QED BY <2>1, <2>2, <2>3
<1>6. queued_by' = [t \in Tasks |-> IF t \in B THEN s ELSE queued_by[t]]
  BY <1>1 DEF IInv, TypeOK
<1>7. \A t \in B : PlainStage(t) = "waiting"
  BY <1>1 DEF PlainStage
<1> QED BY <1>1, <1>4, <1>5, <1>6, <1>7, StagesArePlain
        DEF Handoff!Die, Handoff!Move, Handoff!InStage, Handoff!HeldBy

\* A commit hands the batch over, whole.
LEMMA CommitAssigns ==
    ASSUME IInv, IInv', NEW s \in Schedulers, Commit(s)
    PROVE  \E B \in SUBSET Tasks : Handoff!Assign(s, B)
<1> USE DEF db
<1>1. /\ batch[s] \in SUBSET Tasks
      /\ \A t \in batch[s] : ti[t] = "scheduled"
      /\ Live(s) /\ batch[s] \subseteq queued_tasks[s]
      /\ batch[s] \cap running[s] = {}
  BY DEF Commit, AtCommit, IInv, TypeOK, BatchInv, QueueInv, RowInv, Live
<1>2. /\ \A r \in Schedulers : Live(r)' <=> Live(r)
      /\ running' = running
      /\ ti' = [t \in Tasks |-> IF t \in batch[s] THEN "queued" ELSE ti[t]]
      /\ queued_by' = [t \in Tasks |-> IF t \in batch[s] THEN s ELSE queued_by[t]]
  BY DEF Commit, AtCommit, LeaveRound, CommitRows, Goto, Live, IInv, TypeOK, executor
<1>3. \A t \in Tasks : /\ ti[t] \in {"none", "scheduled", "queued", "done"}
                       /\ ti[t] = "queued" => queued_by[t] \in Schedulers
  BY DEF IInv, TypeOK, RowInv
<1>4. \A t \in Tasks : PlainStage(t)' = IF t \in batch[s] THEN "assigned" ELSE PlainStage(t)
  <2> SUFFICES ASSUME NEW t \in Tasks
               PROVE  PlainStage(t)' = IF t \in batch[s] THEN "assigned" ELSE PlainStage(t)
    OBVIOUS
  <2>1. CASE t \in batch[s]
    BY <1>1, <1>2, <2>1 DEF PlainStage
  <2>2. CASE t \notin batch[s]
    BY <1>2, <1>3, <2>2 DEF PlainStage
  <2> QED BY <2>1, <2>2
<1>5. \A t \in batch[s] : PlainStage(t) = "waiting"
  BY <1>1 DEF PlainStage
<1>6. {r \in Schedulers : Live(r)}' = {r \in Schedulers : Live(r)}
  BY <1>2
<1>7. Handoff!Assign(s, batch[s])
  BY <1>1, <1>2, <1>4, <1>5, <1>6, StagesArePlain
     DEF Handoff!Assign, Handoff!Move, Handoff!InStage
<1> QED BY <1>1, <1>7

\* A heartbeat sends tasks this scheduler was assigned.
LEMMA HeartbeatSends ==
    ASSUME IInv, IInv', NEW s \in Schedulers, Heartbeat(s)
    PROVE  \E B \in SUBSET Tasks : Handoff!Send(s, B)
<1> USE DEF db
<1>1. PICK sent \in SUBSET queued_tasks[s] :
         running' = [running EXCEPT ![s] = (@ \cup sent) \ Finished]
  BY DEF Heartbeat
<1>2. /\ sent \in SUBSET Tasks
      /\ \A t \in sent : ti[t] = "queued" /\ queued_by[t] = s /\ t \notin running[s]
      /\ Live(s)
  BY DEF Heartbeat, IInv, TypeOK, BatchInv, QueueInv, Stable, Committed, InTransaction, Live
<1>3. /\ \A r \in Schedulers : Live(r)' <=> Live(r)
      /\ \A r \in Schedulers \ {s} : running'[r] = running[r]
      /\ running'[s] = (running[s] \cup sent) \ Finished
      /\ ti' = ti /\ queued_by' = queued_by
  BY <1>1 DEF Heartbeat, Goto, Live, IInv, TypeOK
<1>4. \A t \in Tasks : /\ ti[t] \in {"none", "scheduled", "queued", "done"}
                       /\ ti[t] = "queued" => queued_by[t] \in Schedulers
  BY DEF IInv, TypeOK, RowInv
<1>5. \A t \in Tasks : PlainStage(t)' = IF t \in sent THEN "sent" ELSE PlainStage(t)
  <2> SUFFICES ASSUME NEW t \in Tasks
               PROVE  PlainStage(t)' = IF t \in sent THEN "sent" ELSE PlainStage(t)
    OBVIOUS
  <2>1. CASE t \in sent
    BY <1>2, <1>3, <2>1 DEF PlainStage, Finished
  <2>2. CASE t \notin sent
    BY <1>3, <1>4, <2>2 DEF PlainStage, Finished
  <2> QED BY <2>1, <2>2
<1>6. \A t \in sent : PlainStage(t) = "assigned"
  BY <1>2 DEF PlainStage
<1>7. {r \in Schedulers : Live(r)}' = {r \in Schedulers : Live(r)}
  BY <1>3
<1>8. Handoff!Send(s, sent)
  BY <1>2, <1>3, <1>5, <1>6, <1>7, StagesArePlain
     DEF Handoff!Send, Handoff!Move, Handoff!InStage, Handoff!HeldBy
<1> QED BY <1>2, <1>8

\* Every step is a step of the handoff or invisible to it.
LEMMA HandoffStep ==
    IInv /\ IInv' /\ [Next]_vars => [Handoff!HandoffNext]_(Handoff!handoffVars)
<1> SUFFICES ASSUME IInv, IInv', [Next]_vars
             PROVE  Handoff!HandoffNext \/ UNCHANGED Handoff!handoffVars
  OBVIOUS
<1> USE DEF db, session, executor, round, budgets
<1>0. \A t \in Tasks : /\ ti[t] \in {"none", "scheduled", "queued", "done"}
                       /\ ti[t] \in {"none", "scheduled"} <=> queued_by[t] = None
                       /\ queued_by[t] \in Schedulers \cup {None}
  BY DEF IInv, TypeOK, RowInv
<1>1. CASE UNCHANGED vars
  BY <1>1, Hidden DEF vars, Live
<1>2. ASSUME NEW t \in Tasks, Schedule(t) PROVE Handoff!Offer(t)
  <2>1. /\ {s \in Schedulers : Live(s)}' = {s \in Schedulers : Live(s)}
        /\ queued_by' = queued_by
    BY <1>2 DEF Schedule, Live
  <2>2. PlainStage(t) = "new"
    BY <1>2 DEF Schedule, PlainStage
  <2>3. \A u \in Tasks : PlainStage(u)' = IF u \in {t} THEN "waiting" ELSE PlainStage(u)
    BY <1>2 DEF Schedule, PlainStage, Live, IInv, TypeOK
  <2> QED BY <2>1, <2>2, <2>3, StagesArePlain DEF Handoff!Offer, Handoff!Move
<1>3. ASSUME NEW s \in Schedulers, NEW t \in Tasks, Finish(s, t) PROVE Handoff!Complete(t)
  <2>1. /\ {r \in Schedulers : Live(r)}' = {r \in Schedulers : Live(r)}
        /\ queued_by' = queued_by
    BY <1>3 DEF Finish, Live
  <2>2. queued_by[t] = s /\ Live(s)
    BY <1>3 DEF Finish, IInv, QueueInv
  <2>3. PlainStage(t) = "sent"
    BY <1>3, <2>2 DEF Finish, PlainStage
  <2>4. \A u \in Tasks : PlainStage(u)' = IF u \in {t} THEN "done" ELSE PlainStage(u)
    BY <1>3 DEF Finish, PlainStage, Live, IInv, TypeOK
  <2> QED BY <2>1, <2>2, <2>3, <2>4, StagesArePlain DEF Handoff!Complete, Handoff!Move
<1>4. ASSUME NEW s \in Schedulers, SchedulerStep(s)
      PROVE  Handoff!HandoffNext \/ UNCHANGED Handoff!handoffVars
  <2> USE DEF IInv, TypeOK, Live, Goto
  <2>1. CASE SkipCriticalSection(s)
    BY <2>1, Hidden DEF SkipCriticalSection
  <2>2. CASE EnterRound(s)
    BY <2>2, Hidden DEF EnterRound
  <2>3. CASE AcquireLock(s)
    BY <2>3, Hidden DEF AcquireLock
  <2>4. CASE LockBusy(s)
    BY <2>4, Hidden DEF LockBusy, OnLockNotAvailable, LeaveRound
  <2>5. CASE SelectBatch(s)
    BY <2>5, Hidden DEF SelectBatch
  <2>6. CASE \E t \in Tasks : BufferWorkload(s, t)
    BY <2>6, Hidden DEF BufferWorkload
  <2>7. CASE Commit(s)
    BY <2>7, CommitAssigns DEF Handoff!HandoffNext
  <2>8. CASE SerializationError(s)
    <3>1. CASE HandlesConflicts
      BY <2>8, <3>1, Hidden DEF SerializationError, ConflictCaught, LeaveRound, InTransaction
    <3>2. CASE ~HandlesConflicts
      <4>1. Live(s) /\ Crash(s) /\ UNCHANGED db
        BY <2>8, <3>2 DEF SerializationError, InTransaction
      <4> QED BY <4>1, CrashDies DEF Handoff!HandoffNext
    <3> QED BY <3>1, <3>2
  <2>9. CASE Heartbeat(s)
    BY <2>9, HeartbeatSends DEF Handoff!HandoffNext
  <2> QED BY <1>4, <2>1, <2>2, <2>3, <2>4, <2>5, <2>6, <2>7, <2>8, <2>9 DEF SchedulerStep
<1>5. ASSUME NEW s \in Schedulers, Disturbance(s)
      PROVE  Handoff!HandoffNext \/ UNCHANGED Handoff!handoffVars
  <2>1. CASE RowsLocked(s)
    BY <2>1, Hidden DEF RowsLocked, RowLockPoints, OnLockNotAvailable, LeaveRound, Live, Goto,
                        IInv, TypeOK
  <2>2. CASE ServerAbort(s)
    BY <2>2, Hidden DEF ServerAbort, Live
  <2>3. CASE Fail(s)
    <3>1. Live(s) /\ Crash(s) /\ UNCHANGED db
      BY <2>3 DEF Fail, Live
    <3> QED BY <3>1, CrashDies DEF Handoff!HandoffNext
  <2>4. CASE CommitAnswerLost(s)
    <3>1. Live(s) /\ Crash(s) /\ CommitRows(s) /\ txn[s] = "open"
      BY <2>4 DEF CommitAnswerLost, AtCommit, Live
    <3> QED BY <3>1, CrashDies DEF Handoff!HandoffNext
  <2> QED BY <1>5, <2>1, <2>2, <2>3, <2>4 DEF Disturbance
<1> QED BY <1>1, <1>2, <1>3, <1>4, <1>5 DEF Next, Handoff!HandoffNext

\* Scheduler, executor queue and database together keep the promise of TaskHandoff.
THEOREM Refinement == Spec => ImplementsHandoff
<1>1. IInv /\ IInv' /\ [Next]_vars => [Handoff!HandoffNext]_(Handoff!handoffVars)
  BY HandoffStep
<1> QED BY <1>1, HandoffInitOK, Invariance, PTL DEF Spec, ImplementsHandoff, Handoff!HandoffSpec

\* What TaskHandoffProofs shows of the hand-off holds of what implements it.
HandoffFacts == INSTANCE TaskHandoffProofs
                   WITH alive <- {s \in Schedulers : Live(s)},
                        stage <- [t \in Tasks |-> StageOf(t)],
                        holder <- queued_by

\* A task instance is queued for at most one scheduler and stays with it, goes to its
\* workers at most once, and is lost only with it: conflicts, aborted transactions, lost
\* answers of a commit and crashes in between notwithstanding.
THEOREM QueuedOnce == Spec => Handoff!NeverHandedTwice /\ []Handoff!LostWithHolder
<1>1. HandoffFacts!HandoffSpec => HandoffFacts!NeverHandedTwice
  BY HandoffFacts!HandoffOnce, NoneAssumption
<1>2. HandoffFacts!HandoffSpec => []HandoffFacts!HandoffInv
  BY HandoffFacts!HandoffInvariance, NoneAssumption
\* The two instances of TaskHandoff are one.
<1>3. Handoff!HandoffInit => HandoffFacts!HandoffInit
  BY DEF Handoff!HandoffInit, HandoffFacts!HandoffInit
<1>4. Handoff!HandoffNext => HandoffFacts!HandoffNext
  BY DEF Handoff!HandoffNext, HandoffFacts!HandoffNext,
         Handoff!Offer, Handoff!Complete, Handoff!Assign, Handoff!Send, Handoff!Die,
         Handoff!Move, Handoff!InStage, Handoff!HeldBy,
         HandoffFacts!Offer, HandoffFacts!Complete, HandoffFacts!Assign, HandoffFacts!Send,
         HandoffFacts!Die, HandoffFacts!Move, HandoffFacts!InStage, HandoffFacts!HeldBy
<1>5. [Handoff!HandoffNext]_(Handoff!handoffVars)
          => [HandoffFacts!HandoffNext]_(HandoffFacts!handoffVars)
  BY <1>4 DEF Handoff!handoffVars, HandoffFacts!handoffVars
<1>6. [HandoffFacts!HandedOnce]_(HandoffFacts!handoffVars)
          => [Handoff!HandedOnce]_(Handoff!handoffVars)
  BY DEF Handoff!HandedOnce, HandoffFacts!HandedOnce, Handoff!After, HandoffFacts!After,
         Handoff!Stages, HandoffFacts!Stages, Handoff!handoffVars, HandoffFacts!handoffVars
<1>7. HandoffFacts!HandoffInv => Handoff!LostWithHolder
  BY DEF HandoffFacts!HandoffInv, HandoffFacts!LostWithHolder, Handoff!LostWithHolder
<1> QED
  BY <1>1, <1>2, <1>3, <1>5, <1>6, <1>7, Refinement, PTL
     DEF ImplementsHandoff, Handoff!HandoffSpec, HandoffFacts!HandoffSpec,
         Handoff!NeverHandedTwice, HandoffFacts!NeverHandedTwice

-----------------------------------------------------------------------------
(* The lock comes back. *)

\* Who leaves the critical section, in whatever way, ends its transaction.
LEMMA HolderStep == TypeOK /\ LockInv /\ LockGivenBack /\ [Next]_vars => LockGivenBack'
<1> SUFFICES ASSUME TypeOK, LockInv, LockGivenBack, [Next]_vars PROVE LockGivenBack'
  OBVIOUS
<1> USE NoneAssumption DEF db, session, executor, round, budgets, TypeOK, LockInv,
        LockGivenBack, Goto, EndTransaction, InTransaction, InCriticalSection
<1>1. CASE UNCHANGED vars
  BY <1>1 DEF vars
<1>2. ASSUME NEW t \in Tasks, Schedule(t) PROVE LockGivenBack'
  BY <1>2 DEF Schedule
<1>3. ASSUME NEW s \in Schedulers, NEW t \in Tasks, Finish(s, t) PROVE LockGivenBack'
  BY <1>3 DEF Finish
<1>4. ASSUME NEW s \in Schedulers, SchedulerStep(s) PROVE LockGivenBack'
  <2>1. CASE SkipCriticalSection(s)
    BY <2>1 DEF SkipCriticalSection
  <2>2. CASE EnterRound(s)
    BY <2>2 DEF EnterRound
  <2>3. CASE AcquireLock(s)
    BY <2>3, LockIsTaken DEF AcquireLock
  <2>4. CASE LockBusy(s)
    BY <2>4 DEF LockBusy, OnLockNotAvailable, LeaveRound
  <2>5. CASE SelectBatch(s)
    BY <2>5 DEF SelectBatch
  <2>6. ASSUME NEW t \in Tasks, BufferWorkload(s, t) PROVE LockGivenBack'
    BY <2>6 DEF BufferWorkload
  <2>7. CASE Commit(s)
    BY <2>7 DEF Commit, AtCommit, LeaveRound
  <2>8. CASE SerializationError(s)
    BY <2>8 DEF SerializationError, ConflictCaught, LeaveRound, Crash
  <2>9. CASE Heartbeat(s)
    BY <2>9 DEF Heartbeat
  <2> QED BY <1>4, <2>1, <2>2, <2>3, <2>4, <2>5, <2>6, <2>7, <2>8, <2>9 DEF SchedulerStep
<1>5. ASSUME NEW s \in Schedulers, Disturbance(s) PROVE LockGivenBack'
  <2>1. CASE RowsLocked(s)
    BY <2>1 DEF RowsLocked, OnLockNotAvailable, LeaveRound, RowLockPoints
  <2>2. CASE ServerAbort(s)
    BY <2>2 DEF ServerAbort
  <2>3. CASE Fail(s)
    BY <2>3 DEF Fail, Crash
  <2>4. CASE CommitAnswerLost(s)
    BY <2>4 DEF CommitAnswerLost, AtCommit, Crash
  <2> QED BY <1>5, <2>1, <2>2, <2>3, <2>4 DEF Disturbance
<1> QED BY <1>1, <1>2, <1>3, <1>4, <1>5 DEF Next

\* No round, however it ends, and no death leaves the advisory lock behind.
THEOREM LockIsGivenBack == Spec => []LockGivenBack
<1>1. Init => LockGivenBack
  BY DEF Init, LockGivenBack
<1>2. IInv /\ LockGivenBack /\ [Next]_vars => LockGivenBack'
  BY HolderStep DEF IInv
<1> QED BY <1>1, <1>2, Invariance, PTL DEF Spec

-----------------------------------------------------------------------------
(* A round is bounded. *)

\* What is left of a batch to buffer is a number.
LEMMA ToBuffer ==
    ASSUME TypeOK, NEW s \in Schedulers
    PROVE  /\ Cardinality(batch[s] \ queued_tasks[s]) \in Nat
           /\ RoundLeft(s) \in Nat
           /\ pc[s] \in InTransaction => RoundLeft(s) > 0
<1>1. batch[s] \ queued_tasks[s] \in SUBSET Tasks
  BY DEF TypeOK
<1>2. Cardinality(batch[s] \ queued_tasks[s]) \in Nat
  BY <1>1, TaskSets
<1> QED BY <1>2, BoundsAssumption DEF RoundLeft, InTransaction

\* A round that is over has nothing left.
LEMMA RoundOver ==
    ASSUME TypeOK, NEW s \in Schedulers, pc'[s] \notin InTransaction
    PROVE  RoundAdvance(s)
<1> SUFFICES ASSUME pc[s] \in InTransaction
             PROVE  RoundLeft(s)' \in 0 .. RoundLeft(s) - 1
  BY DEF RoundAdvance
<1>1. RoundLeft(s)' = 0
  BY DEF RoundLeft, InTransaction
<1>2. RoundLeft(s) \in Nat /\ RoundLeft(s) > 0
  BY ToBuffer
<1> QED BY <1>1, <1>2

\* Who does not move makes no claim.
LEMMA NotMoved ==
    ASSUME NEW s \in Schedulers,
           pc'[s] = pc[s], batch'[s] = batch[s], queued_tasks'[s] = queued_tasks[s]
    PROVE  RoundAdvance(s)
BY DEF RoundAdvance, OwnState

\* Only the scheduler a step is taken by is touched by it.
LEMMA OthersStay ==
    ASSUME TypeOK, NEW s \in Schedulers, NEW r \in Schedulers, r # s,
           SchedulerStep(s) \/ Disturbance(s)
    PROVE  pc'[r] = pc[r] /\ batch'[r] = batch[r] /\ queued_tasks'[r] = queued_tasks[r]
<1> USE DEF db, session, executor, round, budgets, TypeOK, Goto
<1>1. CASE SchedulerStep(s)
  <2>1. CASE SkipCriticalSection(s) \/ EnterRound(s) \/ AcquireLock(s) \/ LockBusy(s)
    BY <2>1 DEF SkipCriticalSection, EnterRound, AcquireLock, LockBusy, OnLockNotAvailable,
                LeaveRound
  <2>2. CASE SelectBatch(s) \/ (\E t \in Tasks : BufferWorkload(s, t)) \/ Commit(s)
    BY <2>2 DEF SelectBatch, BufferWorkload, Commit, LeaveRound
  <2>3. CASE SerializationError(s)
    BY <2>3 DEF SerializationError, ConflictCaught, LeaveRound, Crash
  <2>4. CASE Heartbeat(s)
    BY <2>4 DEF Heartbeat
  <2> QED BY <1>1, <2>1, <2>2, <2>3, <2>4 DEF SchedulerStep
<1>2. CASE Disturbance(s)
  BY <1>2 DEF Disturbance, RowsLocked, OnLockNotAvailable, LeaveRound, ServerAbort, Fail, Crash,
              CommitAnswerLost
<1> QED BY <1>1, <1>2

\* Selecting claims at most the free slots, of which there are not more than Parallelism.
LEMMA SelectAdvances ==
    ASSUME TypeOK, NEW s \in Schedulers, SelectBatch(s)
    PROVE  RoundAdvance(s)
<1> USE BoundsAssumption
<1>1. PICK B \in SUBSET Scheduled : FillsSlots(s, B) /\ batch' = [batch EXCEPT ![s] = B]
  BY DEF SelectBatch
<1>2. /\ pc[s] = "select" /\ pc'[s] = "buffer" /\ batch'[s] = B
      /\ queued_tasks'[s] = queued_tasks[s]
  BY <1>1 DEF SelectBatch, Goto, TypeOK, executor
<1>3. /\ B \in SUBSET Tasks /\ queued_tasks[s] \in SUBSET Tasks /\ running[s] \in SUBSET Tasks
      /\ B \ queued_tasks[s] \in SUBSET Tasks /\ B \ queued_tasks[s] \subseteq B
  BY DEF TypeOK, Scheduled
<1>4. Cardinality(B) <= Parallelism - Cardinality(queued_tasks[s]) - Cardinality(running[s])
  BY <1>1 DEF FillsSlots, FreeSlots
<1>5. /\ Cardinality(B \ queued_tasks[s]) <= Cardinality(B)
      /\ Cardinality(B \ queued_tasks[s]) \in Nat /\ Cardinality(B) \in Nat
      /\ Cardinality(queued_tasks[s]) \in Nat /\ Cardinality(running[s]) \in Nat
  BY <1>3, TaskSets
<1>6. /\ RoundLeft(s) = Parallelism + 2
      /\ RoundLeft(s)' = Cardinality(B \ queued_tasks[s]) + 1
  BY <1>2 DEF RoundLeft
<1> QED BY <1>4, <1>5, <1>6 DEF RoundAdvance

\* Buffering leaves one workload less to buffer.
LEMMA BufferAdvances ==
    ASSUME TypeOK, NEW s \in Schedulers, NEW t \in Tasks, BufferWorkload(s, t)
    PROVE  RoundAdvance(s)
<1> DEFINE D == batch[s] \ queued_tasks[s]
           E == batch'[s] \ queued_tasks'[s]
<1>1. /\ pc[s] = "buffer" /\ pc'[s] = "buffer" /\ batch'[s] = batch[s]
      /\ queued_tasks'[s] = queued_tasks[s] \cup {t} /\ t \in D
  BY DEF BufferWorkload, TypeOK, round
<1>2. E = D \ {t} /\ D \in SUBSET Tasks /\ E \in SUBSET Tasks
  BY <1>1 DEF TypeOK
<1>3. RoundLeft(s) = Cardinality(D) + 1 /\ RoundLeft(s)' = Cardinality(E) + 1
  BY <1>1 DEF RoundLeft
<1> HIDE DEF D, E
<1>4. IsFiniteSet(D) /\ Cardinality(D) \in Nat /\ Cardinality(E) \in Nat
  BY <1>2, TaskSets
<1>5. Cardinality(E) = Cardinality(D) - 1
  BY <1>1, <1>2, <1>4, FS_RemoveElement
<1> QED BY <1>3, <1>4, <1>5 DEF RoundAdvance

\* What scheduler s does brings its own round nearer to its end.
LEMMA OwnStep ==
    ASSUME TypeOK, NEW s \in Schedulers, SchedulerStep(s) \/ Disturbance(s)
    PROVE  RoundAdvance(s)
<1> USE DEF db, session, executor, round, budgets, Goto
<1>1. CASE SchedulerStep(s)
  <2>1. CASE SkipCriticalSection(s) \/ EnterRound(s) \/ Heartbeat(s)
    BY <2>1 DEF SkipCriticalSection, EnterRound, Heartbeat, RoundAdvance, InTransaction
  <2>2. CASE AcquireLock(s)
    BY <2>2, BoundsAssumption DEF AcquireLock, RoundAdvance, RoundLeft, TypeOK
  <2>3. CASE LockBusy(s)
    BY <2>3, RoundOver DEF LockBusy, OnLockNotAvailable, LeaveRound, TypeOK, InTransaction
  <2>4. CASE SelectBatch(s)
    BY <2>4, SelectAdvances
  <2>5. CASE \E t \in Tasks : BufferWorkload(s, t)
    BY <2>5, BufferAdvances
  <2>6. CASE Commit(s)
    BY <2>6, RoundOver DEF Commit, LeaveRound, TypeOK, InTransaction
  <2>7. CASE SerializationError(s)
    BY <2>7, RoundOver DEF SerializationError, ConflictCaught, LeaveRound, Crash, TypeOK,
                           InTransaction
  <2> QED BY <1>1, <2>1, <2>2, <2>3, <2>4, <2>5, <2>6, <2>7 DEF SchedulerStep
<1>2. CASE RowsLocked(s) \/ Fail(s) \/ CommitAnswerLost(s)
  BY <1>2, RoundOver DEF RowsLocked, OnLockNotAvailable, LeaveRound, Fail, CommitAnswerLost, Crash,
                         TypeOK, InTransaction
<1>3. CASE ServerAbort(s)
  BY <1>3, NotMoved DEF ServerAbort
<1> QED BY <1>1, <1>2, <1>3 DEF Disturbance

\* A round is at most Parallelism + 3 steps of its scheduler.
THEOREM RoundsAreBounded == Spec => RoundsAdvance
<1>1. TypeOK /\ [Next]_vars => [Advance]_vars
  <2> SUFFICES ASSUME TypeOK, Next, NEW r \in Schedulers PROVE RoundAdvance(r)
    BY DEF Advance
  <2>1. CASE (\E t \in Tasks : Schedule(t)) \/ \E s \in Schedulers, t \in Tasks : Finish(s, t)
    BY <2>1, NotMoved DEF Schedule, Finish, round, executor
  <2>2. CASE SchedulerStep(r) \/ Disturbance(r)
    BY <2>2, OwnStep
  <2>3. ASSUME NEW s \in Schedulers, s # r, SchedulerStep(s) \/ Disturbance(s)
        PROVE  RoundAdvance(r)
    BY <2>3, OthersStay, NotMoved
  <2> QED BY <2>1, <2>2, <2>3 DEF Next
<1> QED BY <1>1, TypeCorrect, PTL DEF Spec, RoundsAdvance

=============================================================================
