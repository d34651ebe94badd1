--------------------------- MODULE Migration0042 ---------------------------
(***************************************************************************)
(* The cockroachdb branch of Airflow's migration 0042, which gives         *)
(* task_instance a UUID primary key (docker/patches/                       *)
(* airflow-crdb-compat.patch), and the two programs that run it:           *)
(* scripts/test-migration-0042.py on a scratch database (create, seed,     *)
(* upgrade, assert, downgrade, assert), and the loop of docker-compose.yml *)
(* around `airflow db migrate`, which tries upgrade() again when a try     *)
(* fails.  Either may die at any point.                                    *)
(*                                                                         *)
(* CockroachDB commits the open transaction before it executes a schema    *)
(* change, and the schema change by itself (autocommit_before_ddl, on by   *)
(* default in the version of the repository): what a dead try has changed  *)
(* stays.  It refuses a statement that would break the schema; what it     *)
(* demands is taken from the comments of the patch.                        *)
(***************************************************************************)
EXTENDS Integers, FiniteSets

CONSTANTS Rows,         \* the rows of task_instance that the harness seeds
          ForeignKeys,  \* ti_fk_constraints, one per child table
          BatchSize,    \* batch_size of the backfill
          MaxLives      \* bound: how often the program is started; MAX_RETRIES

ASSUME MigrationAssumption ==
    /\ IsFiniteSet(Rows)
    /\ IsFiniteSet(ForeignKeys) /\ ForeignKeys # {}
    /\ BatchSize \in Nat \ {0}
    /\ MaxLives \in Nat \ {0}

VARIABLES
    driver, \* the program that runs the migration
    pc,     \* the statement it is about to execute
    todo,   \* the foreign keys that the loop over ti_fk_constraints has yet to visit
    db,     \* the database, as committed
    work,   \* the database as the open transaction of the program sees it
    lives   \* how often the program has been started

vars == <<driver, pc, todo, db, work, lives>>

\* `indexes` are the secondary ones; `ids` counts the ids a row was given.
Databases ==
    [exists : BOOLEAN, tables : BOOLEAN, rows : SUBSET Rows,
     column : {"absent", "nullable", "notnull"}, pk : {"composite", "id"},
     indexes : SUBSET {"composite_key", "old_composite", "old_id"},
     fks : SUBSET ForeignKeys, helper : BOOLEAN, ids : [Rows -> Nat]]

NoDatabase ==
    [exists |-> FALSE, tables |-> FALSE, rows |-> {}, column |-> "absent", pk |-> "composite",
     indexes |-> {}, fks |-> {}, helper |-> FALSE, ids |-> [r \in Rows |-> 0]]

\* The database before and after the seeding, and with the migration applied.
Unseeded == [NoDatabase EXCEPT !.exists = TRUE, !.tables = TRUE, !.fks = ForeignKeys]
Seeded == [Unseeded EXCEPT !.rows = Rows]
Migrated == [Seeded EXCEPT !.column = "notnull", !.pk = "id", !.indexes = {"composite_key"},
                           !.ids = [r \in Rows |-> 1]]

Steps == {"drop_database", "create_database", "create_tables", "create_children", "seed",
          "add_column", "create_function", "backfill", "drop_function", "drop_fks", "not_null",
          "composite_key", "swap_pk", "create_fks", "commit_upgrade", "assert_upgrade",
          "down_drop_fks", "down_pk", "down_composite_key", "down_column", "down_fks",
          "commit_downgrade", "assert_downgrade"}
Loops == {"create_children", "drop_fks", "create_fks", "down_drop_fks", "down_fks"}
Ends == {"passed", "failed", "refused", "killed"}

\* A database without the column has no ids.
TypeOK ==
    /\ driver \in {"harness", "init"}
    /\ pc \in Steps \cup Ends
    /\ todo \subseteq ForeignKeys /\ todo # {}
    /\ db \in Databases /\ work \in Databases
    /\ db.column = "absent" => \A r \in Rows : db.ids[r] = 0
    /\ lives \in 1 .. MaxLives

\* The harness makes its own database; the loop finds that of a stack whose Airflow
\* is older than the migration.
Init ==
    /\ driver \in {"harness", "init"}
    /\ pc = IF driver = "harness" THEN "drop_database" ELSE "add_column"
    /\ db = IF driver = "harness" THEN NoDatabase ELSE Seeded
    /\ work = db
    /\ todo = ForeignKeys
    /\ lives = 1

-----------------------------------------------------------------------------
(* Statements. *)

\* A schema change, if the database accepts it: what is open is committed first, and
\* the change with it. A transaction that is committed as a whole does the same.
Change(at, accepted, result, next) ==
    /\ pc = at
    /\ IF accepted THEN work' = result /\ db' = result /\ pc' = next
                   ELSE work' = work /\ db' = work /\ pc' = "refused"
    /\ UNCHANGED <<driver, lives>>

Statement(at, accepted, result, next) ==
    /\ Change(at, accepted, result, next)
    /\ UNCHANGED todo

\* One turn of a loop over ti_fk_constraints.
ForEach(at, f, accepted, result, next) ==
    /\ f \in todo
    /\ Change(at, accepted, result, IF todo = {f} THEN next ELSE at)
    /\ todo' = IF todo = {f} THEN ForeignKeys ELSE todo \ {f}

\* The composite columns are unique by some index, as a foreign key needs.
Backed(d) == d.pk = "composite" \/ d.indexes \cap {"composite_key", "old_composite"} # {}

\* ALTER PRIMARY KEY: the columns of the old key stay backed by an index, the one
\* there is on them or a new one.
AfterSwap(d, columns) ==
    [d EXCEPT !.pk = columns,
              !.indexes = @ \cup
                  IF d.pk = columns THEN {}
                  ELSE IF d.pk = "id" THEN {"old_id"}
                  ELSE IF "composite_key" \in d.indexes THEN {}
                  ELSE {"old_composite"}]

-----------------------------------------------------------------------------
(* The harness up to the upgrade. *)

DropDatabase == Statement("drop_database", TRUE, NoDatabase, "create_database")

CreateDatabase ==
    Statement("create_database", ~db.exists, [db EXCEPT !.exists = TRUE], "create_tables")

\* task_instance, with IF NOT EXISTS.
CreateTables ==
    Statement("create_tables", work.exists, [work EXCEPT !.tables = TRUE], "create_children")

\* A child table with its foreign key, with IF NOT EXISTS.
CreateChild(f) ==
    ForEach("create_children", f, work.tables, [work EXCEPT !.fks = @ \cup {f}], "seed")

\* What is missing to SEED_COUNT rows, in one transaction.
Seed == Statement("seed", db.tables, [db EXCEPT !.rows = Rows], "add_column")

-----------------------------------------------------------------------------
(* upgrade(). *)

\* Mutant of AddColumn: ADD COLUMN IF NOT EXISTS.
AddColumnIfMissing ==
    Statement("add_column", TRUE,
              IF work.column = "absent" THEN [work EXCEPT !.column = "nullable"] ELSE work,
              "create_function")

AddColumn ==
    Statement("add_column", work.column = "absent", [work EXCEPT !.column = "nullable"],
              "create_function")

CreateFunction ==
    Statement("create_function", ~work.helper, [work EXCEPT !.helper = TRUE], "backfill")

\* Mutant of Pending: no WHERE clause.
PendingAll == work.rows

\* WHERE id IS NULL.
Pending == {r \in work.rows : work.ids[r] = 0}

\* LIMIT :batch_size.
IsBatch(B) ==
    /\ Cardinality(B) <= BatchSize
    /\ B = Pending \/ Cardinality(B) = BatchSize

\* Mutants of AfterBatch: the loop is left after the first batch, or never.
AfterBatchOnce(B) == "drop_function"
AfterBatchNever(B) == "backfill"

\* if not result.rowcount: break
AfterBatch(B) == IF B = {} THEN "drop_function" ELSE "backfill"

WithIds(d, B) == [d EXCEPT !.ids = [r \in Rows |-> IF r \in B THEN @[r] + 1 ELSE @[r]]]

\* An UPDATE is no schema change. Whether it is committed by itself is the driver's:
\* psycopg2 sends no second BEGIN after the server has ended the transaction,
\* psycopg 3 does.
BackfillBatch ==
    /\ pc = "backfill"
    /\ \E B \in SUBSET Pending :
          /\ IsBatch(B)
          /\ IF work.helper
             THEN work' = WithIds(work, B) /\ db' \in {db, work'} /\ pc' = AfterBatch(B)
             ELSE UNCHANGED <<work, db>> /\ pc' = "refused"
    /\ UNCHANGED <<driver, todo, lives>>

\* Mutant of WithoutHelper: DROP FUNCTION is forgotten.
WithoutHelperForgotten(d) == d

WithoutHelper(d) == [d EXCEPT !.helper = FALSE]

DropFunction ==
    Statement("drop_function", work.helper, WithoutHelper(work), "drop_fks")

DropForeignKey(f) ==
    ForEach("drop_fks", f, f \in work.fks, [work EXCEPT !.fks = @ \ {f}], "not_null")

SetNotNull ==
    Statement("not_null", \A r \in work.rows : work.ids[r] # 0,
              [work EXCEPT !.column = "notnull"], "composite_key")

\* Mutant of WithCompositeKey: the constraint is not created.
WithCompositeKeyForgotten(d) == d

WithCompositeKey(d) == [d EXCEPT !.indexes = @ \cup {"composite_key"}]

CreateCompositeKey ==
    Statement("composite_key", "composite_key" \notin work.indexes, WithCompositeKey(work),
              "swap_pk")

SwapPrimaryKey ==
    Statement("swap_pk", work.column = "notnull", AfterSwap(work, "id"), "create_fks")

CreateForeignKey(f) ==
    ForEach("create_fks", f, f \notin work.fks /\ Backed(work),
            [work EXCEPT !.fks = @ \cup {f}], "commit_upgrade")

\* The end of the transaction; the loop is done when its try is, and Airflow has
\* recorded the revision by then.
CommitUpgrade ==
    Statement("commit_upgrade", TRUE, work,
              IF driver = "harness" THEN "assert_upgrade" ELSE "passed")

-----------------------------------------------------------------------------
(* downgrade(). *)

DownDropForeignKey(f) ==
    ForEach("down_drop_fks", f, f \in work.fks, [work EXCEPT !.fks = @ \ {f}], "down_pk")

DownPrimaryKey ==
    Statement("down_pk", TRUE, AfterSwap(work, "composite"), "down_composite_key")

DownCompositeKey ==
    Statement("down_composite_key",
              /\ "composite_key" \in work.indexes
              /\ work.fks # {} => Backed([work EXCEPT !.indexes = @ \ {"composite_key"}]),
              [work EXCEPT !.indexes = @ \ {"composite_key"}], "down_column")

\* Mutant of NullIds: what is left in the rows is seen by the next ADD COLUMN.
NullIdsKept(d) == d.ids

NullIds(d) == [r \in Rows |-> 0]

\* An index on the column goes with it.
DownColumn ==
    Statement("down_column", work.pk # "id",
              [work EXCEPT !.column = "absent", !.indexes = @ \ {"old_id"},
                           !.ids = NullIds(work)],
              "down_fks")

DownCreateForeignKey(f) ==
    ForEach("down_fks", f, f \notin work.fks /\ Backed(work),
            [work EXCEPT !.fks = @ \cup {f}], "commit_downgrade")

CommitDowngrade == Statement("commit_downgrade", TRUE, work, "assert_downgrade")

-----------------------------------------------------------------------------
(* The assertions of the harness. *)

Assert(at, condition, next) ==
    /\ pc = at
    /\ pc' = IF condition THEN next ELSE "failed"
    /\ UNCHANGED <<driver, todo, db, work, lives>>

\* Of the foreign keys it asks only that there are some.
AssertUpgrade ==
    Assert("assert_upgrade",
           /\ \A r \in db.rows : db.ids[r] # 0
           /\ db.rows = Rows
           /\ db.indexes = {"composite_key"}
           /\ db.pk = "id"
           /\ db.fks # {},
           "down_drop_fks")

AssertDowngrade ==
    Assert("assert_downgrade",
           /\ db.column = "absent"
           /\ db.pk = "composite"
           /\ db.indexes = {}
           /\ db.fks # {},
           "passed")

-----------------------------------------------------------------------------
(* Faults. *)

\* The program dies, of an error of the connection or from outside: what was open is
\* rolled back. (Dying when a statement was applied but not answered is the statement
\* and then this step.)
Kill ==
    /\ pc \in Steps
    /\ pc' = "killed"
    /\ work' = db
    /\ UNCHANGED <<driver, todo, db, lives>>

StartAt(at) ==
    /\ lives < MaxLives
    /\ lives' = lives + 1
    /\ pc' = at
    /\ work' = db
    /\ todo' = ForeignKeys
    /\ UNCHANGED <<driver, db>>

\* The harness is started again, by hand, on whatever is left.
Restart == driver = "harness" /\ pc \in Ends /\ StartAt("drop_database")

\* The next attempt of the loop: the revision was not recorded, so Airflow begins the
\* migration from its first statement.
Retry == driver = "init" /\ pc \in {"refused", "killed"} /\ StartAt("add_column")

-----------------------------------------------------------------------------

Upgrade ==
    \/ AddColumn
    \/ CreateFunction
    \/ BackfillBatch
    \/ DropFunction
    \/ \E f \in ForeignKeys : DropForeignKey(f)
    \/ SetNotNull
    \/ CreateCompositeKey
    \/ SwapPrimaryKey
    \/ \E f \in ForeignKeys : CreateForeignKey(f)
    \/ CommitUpgrade

Downgrade ==
    \/ \E f \in ForeignKeys : DownDropForeignKey(f)
    \/ DownPrimaryKey
    \/ DownCompositeKey
    \/ DownColumn
    \/ \E f \in ForeignKeys : DownCreateForeignKey(f)
    \/ CommitDowngrade

\* The harness runs all of it, the loop upgrade() only.
Program ==
    \/ DropDatabase
    \/ CreateDatabase
    \/ CreateTables
    \/ \E f \in ForeignKeys : CreateChild(f)
    \/ Seed
    \/ Upgrade
    \/ AssertUpgrade
    \/ Downgrade
    \/ AssertDowngrade

Next == Program \/ Kill \/ Restart \/ Retry

Spec == Init /\ [][Next]_vars

\* The statements of the program return.
FairSpec == Spec /\ WF_vars(Program)

-----------------------------------------------------------------------------
(* Properties. *)

\* The statements come in an order in which the database accepts every one of them,
\* for any number of rows, batches and foreign keys, and the harness on whatever a
\* killed run has left. Only another try of the loop may be refused.
NeverRefused == pc = "refused" => driver = "init" /\ lives > 1

\* A try that is refused is refused at its first statement, and leaves the database
\* exactly as the try that died before it did.
RefusedAtOnce ==
    driver = "init" /\ lives > 1 /\ pc' = "refused"
        => pc = "add_column" /\ UNCHANGED <<db, work>>

\* Schema changes are committed one by one, so a try may leave any prefix of the
\* migration behind: the retries of docker-compose.yml never build upon one.
RetryHarmless == [][RefusedAtOnce]_vars

\* And the assertions of the harness hold.
AssertionsHold == pc # "failed"

\* The backfill gives a row one id: a row that has one is not touched again.
OneIdPerRow == \A r \in Rows : work.ids[r] <= 1

\* Upgrade and downgrade give back what was there, also what the harness does not
\* look at: every single foreign key, every row, and no helper function. And a loop
\* that reports success has the whole migration in the database, whatever became of
\* the tries before.
RoundTrip == pc = "passed" => db = IF driver = "harness" THEN Seeded ELSE Migrated

\* How far the program is from its end.
Place(p) ==
    CASE p = "drop_database" -> 23
      [] p = "create_database" -> 22
      [] p = "create_tables" -> 21
      [] p = "create_children" -> 20
      [] p = "seed" -> 19
      [] p = "add_column" -> 18
      [] p = "create_function" -> 17
      [] p = "backfill" -> 16
      [] p = "drop_function" -> 15
      [] p = "drop_fks" -> 14
      [] p = "not_null" -> 13
      [] p = "composite_key" -> 12
      [] p = "swap_pk" -> 11
      [] p = "create_fks" -> 10
      [] p = "commit_upgrade" -> 9
      [] p = "assert_upgrade" -> 8
      [] p = "down_drop_fks" -> 7
      [] p = "down_pk" -> 6
      [] p = "down_composite_key" -> 5
      [] p = "down_column" -> 4
      [] p = "down_fks" -> 3
      [] p = "commit_downgrade" -> 2
      [] p = "assert_downgrade" -> 1
      [] OTHER -> 0

\* And from the end of the loop it is in.
TurnsLeft ==
    IF pc = "backfill" THEN Cardinality(Pending)
    ELSE IF pc \in Loops THEN Cardinality(todo) ELSE 0

\* A step within one life of the program brings it nearer to its end.
Nearer ==
    IF lives' = lives
    THEN Place(pc') < Place(pc) \/ (pc' = pc /\ TurnsLeft' < TurnsLeft)
    ELSE pc \in Ends

\* Every statement leads on to a later one, or is a turn of a loop that leaves it with
\* less to do; only starting the program again does not.
HarnessAdvances == [][Nearer]_vars

\* The program ends; in particular the backfill does.
HarnessEnds == <>[](pc \in Ends)

=============================================================================
