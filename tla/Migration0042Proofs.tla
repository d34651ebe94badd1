------------------------- MODULE Migration0042Proofs -----------------------
(***************************************************************************)
(* Proofs about Migration0042, for every set of rows and foreign keys and  *)
(* every batch size: upgrade and downgrade are accepted statement by       *)
(* statement, pass the assertions of the harness and give the schema back; *)
(* a try on what a dead one has left is refused before it changes anything.*)
(*                                                                         *)
(* The inductive invariant says, for each statement, what the database     *)
(* looks like when it is about to be executed, and what the loops over the *)
(* foreign keys have done so far.                                          *)
(***************************************************************************)
EXTENDS Migration0042, FiniteSetTheorems, TLAPS

IdsAre(d, n) == \A r \in Rows : d.ids[r] = n

\* What holds of the database at all times.
Sound(d) ==
    /\ d \in Databases
    /\ d.column = "absent" => IdsAre(d, 0)
    /\ \A r \in Rows : d.ids[r] <= 1

\* A seeded database with the given schema.
Schema(d, column, helper, fks, indexes, pk) ==
    /\ d.exists /\ d.tables /\ d.rows = Rows
    /\ d.column = column /\ d.helper = helper /\ d.fks = fks
    /\ d.indexes = indexes /\ d.pk = pk

Old(d) == Schema(d, "absent", FALSE, ForeignKeys, {}, "composite")
New(d) == Schema(d, "notnull", FALSE, ForeignKeys, {"composite_key"}, "id") /\ IdsAre(d, 1)

\* Only an UPDATE of the backfill stays open after its statement.
OpenInv ==
    /\ pc \notin {"backfill", "drop_function"} => work = db
    /\ pc \in {"backfill", "drop_function"} => db.column = "nullable"

EmptyDatabase == [NoDatabase EXCEPT !.exists = TRUE]
WithChildren(F) == [NoDatabase EXCEPT !.exists = TRUE, !.tables = TRUE, !.fks = F]

SetupInv ==
    /\ pc = "create_database" => db = NoDatabase
    /\ pc = "create_tables" => db = EmptyDatabase
    /\ pc = "create_children" => db = WithChildren(ForeignKeys \ todo)
    /\ pc = "seed" => db = Unseeded

\* What the statements of upgrade() find; the first one of a retry may find anything.
UpgradeInv ==
    /\ pc = "add_column" => Old(work) \/ (driver = "init" /\ lives > 1)
    /\ pc = "create_function" => Schema(work, "nullable", FALSE, ForeignKeys, {}, "composite")
    /\ pc = "backfill" => Schema(work, "nullable", TRUE, ForeignKeys, {}, "composite")
    /\ pc = "drop_function" =>
          Schema(work, "nullable", TRUE, ForeignKeys, {}, "composite") /\ IdsAre(work, 1)
    /\ pc = "drop_fks" =>
          Schema(work, "nullable", FALSE, todo, {}, "composite") /\ IdsAre(work, 1)
    /\ pc = "not_null" => Schema(work, "nullable", FALSE, {}, {}, "composite") /\ IdsAre(work, 1)
    /\ pc = "composite_key" =>
          Schema(work, "notnull", FALSE, {}, {}, "composite") /\ IdsAre(work, 1)
    /\ pc = "swap_pk" =>
          Schema(work, "notnull", FALSE, {}, {"composite_key"}, "composite") /\ IdsAre(work, 1)
    /\ pc = "create_fks" =>
          /\ Schema(work, "notnull", FALSE, ForeignKeys \ todo, {"composite_key"}, "id")
          /\ IdsAre(work, 1)
    /\ pc \in {"commit_upgrade", "assert_upgrade"} => New(work)

DowngradeInv ==
    /\ pc = "down_drop_fks" => Schema(work, "notnull", FALSE, todo, {"composite_key"}, "id")
    /\ pc = "down_pk" => Schema(work, "notnull", FALSE, {}, {"composite_key"}, "id")
    /\ pc = "down_composite_key" =>
          Schema(work, "notnull", FALSE, {}, {"composite_key", "old_id"}, "composite")
    /\ pc = "down_column" => Schema(work, "notnull", FALSE, {}, {"old_id"}, "composite")
    /\ pc = "down_fks" => Schema(work, "absent", FALSE, ForeignKeys \ todo, {}, "composite")
    /\ pc \in {"commit_downgrade", "assert_downgrade"} => Old(work)

UpgradeSteps == {"add_column", "create_function", "backfill", "drop_function", "drop_fks",
                 "not_null", "composite_key", "swap_pk", "create_fks", "commit_upgrade"}

\* What only the loop of docker-compose.yml does: it runs upgrade() and no more, it is
\* what may be refused, and without the column it is the old schema it has.
LoopInv ==
    /\ driver = "init" => pc \in UpgradeSteps \cup {"passed", "refused", "killed"}
    /\ driver = "init" => (db.column = "absent" => Old(db))
    /\ pc = "refused" => driver = "init" /\ lives > 1

PassedInv == pc = "passed" => IF driver = "harness" THEN Old(db) ELSE New(db)

IInv ==
    /\ driver \in {"harness", "init"}
    /\ pc \in Steps \cup {"passed", "refused", "killed"}
    /\ lives \in 1 .. MaxLives
    /\ todo \subseteq ForeignKeys /\ todo # {}
    /\ pc \in Steps \ Loops => todo = ForeignKeys
    /\ Sound(db) /\ Sound(work)
    /\ OpenInv /\ SetupInv /\ UpgradeInv /\ DowngradeInv /\ LoopInv /\ PassedInv

-----------------------------------------------------------------------------
(* The empty database, the databases of the seeding and the migrated one. *)

LEMMA Empty == NoDatabase \in Databases /\ Sound(NoDatabase)
BY DEF NoDatabase, Databases, Sound, IdsAre

LEMMA SeededFacts == Seeded \in Databases /\ Sound(Seeded) /\ Old(Seeded)
BY Empty DEF Seeded, Unseeded, NoDatabase, Databases, Sound, IdsAre, Old, Schema

\* A database is its fields.
LEMMA SameFields ==
    ASSUME NEW d \in Databases, NEW e \in Databases,
           d.exists = e.exists, d.tables = e.tables, d.rows = e.rows, d.column = e.column,
           d.pk = e.pk, d.indexes = e.indexes, d.fks = e.fks, d.helper = e.helper,
           d.ids = e.ids
    PROVE  d = e
<1>1. \A f \in Databases :
        f = [exists |-> f.exists, tables |-> f.tables, rows |-> f.rows,
             column |-> f.column, pk |-> f.pk, indexes |-> f.indexes, fks |-> f.fks,
             helper |-> f.helper, ids |-> f.ids]
  BY DEF Databases
<1> QED
  BY <1>1

\* There is one database with the schema before the migration and one after it.
LEMMA OldIsSeeded ==
    ASSUME NEW d, Sound(d), Old(d)
    PROVE  d = Seeded
<1>1. d \in Databases /\ d.ids = [r \in Rows |-> 0]
  BY DEF Sound, IdsAre, Databases, Old, Schema
<1>2. Old(Seeded) /\ Seeded \in Databases /\ Seeded.ids = [r \in Rows |-> 0]
  BY SeededFacts, Empty DEF Seeded, Unseeded, NoDatabase, Databases
<1> QED
  BY <1>1, <1>2, SameFields DEF Old, Schema

LEMMA NewIsMigrated ==
    ASSUME NEW d, Sound(d), New(d)
    PROVE  d = Migrated
<1>1. d \in Databases /\ d.ids = [r \in Rows |-> 1]
  BY DEF Sound, IdsAre, Databases, New, Schema
<1>2. [r \in Rows |-> 1] \in [Rows -> Nat]
  OBVIOUS
<1>3. Migrated \in Databases /\ Migrated.ids = [r \in Rows |-> 1]
  BY <1>2, Empty DEF Migrated, Seeded, Unseeded, NoDatabase, Databases
<1>4. Schema(Migrated, "notnull", FALSE, ForeignKeys, {"composite_key"}, "id")
  BY Empty DEF Migrated, Seeded, Unseeded, NoDatabase, Databases, Schema
<1>5. Schema(d, "notnull", FALSE, ForeignKeys, {"composite_key"}, "id")
  BY DEF New
<1>6. /\ d.exists = Migrated.exists /\ d.tables = Migrated.tables /\ d.rows = Migrated.rows
      /\ d.column = Migrated.column /\ d.pk = Migrated.pk /\ d.indexes = Migrated.indexes
      /\ d.fks = Migrated.fks /\ d.helper = Migrated.helper /\ d.ids = Migrated.ids
  BY <1>1, <1>3, <1>4, <1>5 DEF Schema, Databases
<1> QED
  BY <1>1, <1>3, <1>6, SameFields

LEMMA InvInit == Init => IInv
<1> SUFFICES ASSUME Init PROVE IInv
  OBVIOUS
<1>1. Sound(db) /\ work = db /\ todo = ForeignKeys /\ lives = 1 /\ 1 \in 1 .. MaxLives
  BY Empty, SeededFacts, MigrationAssumption DEF Init
<1>2. CASE driver = "harness"
  <2>1. pc = "drop_database"
    BY <1>2 DEF Init
  <2>2. OpenInv /\ SetupInv /\ UpgradeInv /\ DowngradeInv /\ LoopInv /\ PassedInv
    BY <1>1, <1>2, <2>1
       DEF OpenInv, SetupInv, UpgradeInv, DowngradeInv, LoopInv, PassedInv, UpgradeSteps
  <2> QED
    BY <1>1, <1>2, <2>1, <2>2, MigrationAssumption DEF IInv, Steps
<1>3. CASE driver = "init"
  <2>1. pc = "add_column" /\ Old(work) /\ Old(db)
    BY <1>1, <1>3, SeededFacts DEF Init
  <2>2. OpenInv /\ SetupInv /\ UpgradeInv /\ DowngradeInv /\ LoopInv /\ PassedInv
    BY <1>1, <1>3, <2>1
       DEF OpenInv, SetupInv, UpgradeInv, DowngradeInv, LoopInv, PassedInv, UpgradeSteps
  <2> QED
    BY <1>1, <1>3, <2>1, <2>2, MigrationAssumption DEF IInv, Steps
<1> QED
  BY <1>2, <1>3 DEF Init

-----------------------------------------------------------------------------
(* What a batch does to the ids. *)

\* A batch without rows is taken only when no row is pending.
LEMMA EmptyBatch ==
    ASSUME Sound(work), IsBatch({})
    PROVE  Pending = {}
BY MigrationAssumption, FS_EmptySet DEF IsBatch

\* The rows of a batch get their first id.
LEMMA BatchFacts ==
    ASSUME Sound(work), work.rows = Rows, NEW B \in SUBSET Pending, work.column = "nullable",
           NEW d, d = WithIds(work, B)
    PROVE  Sound(d) /\ (Pending = {} => IdsAre(d, 1))
<1>1. \A r \in B : work.ids[r] = 0
  BY DEF Pending
<1>2. work.ids \in [Rows -> Nat]
  BY DEF Sound, Databases
<1>3. d.ids = [r \in Rows |-> IF r \in B THEN work.ids[r] + 1 ELSE work.ids[r]]
  BY DEF Sound, Databases, WithIds
<1>4. d \in Databases
  BY <1>2 DEF Sound, Databases, WithIds
<1>5. d.column = "nullable"
  BY DEF Sound, Databases, WithIds
<1>6. \A r \in Rows : d.ids[r] <= 1
  BY <1>1, <1>2, <1>3 DEF Sound
<1>7. ASSUME Pending = {} PROVE IdsAre(d, 1)
  BY <1>1, <1>2, <1>3, <1>7 DEF Pending, IdsAre, Sound
<1> QED
  BY <1>4, <1>5, <1>6, <1>7 DEF Sound

-----------------------------------------------------------------------------
(* A turn of a loop, and what every statement of the migration has to show. *)

LEMMA Turn ==
    ASSUME IInv, NEW f \in todo,
           todo' = IF todo = {f} THEN ForeignKeys ELSE todo \ {f}
    PROVE  /\ todo' \subseteq ForeignKeys /\ todo' # {} /\ f \in ForeignKeys
           /\ todo = {f} => /\ todo' = ForeignKeys /\ todo \ {f} = {}
                            /\ (ForeignKeys \ todo) \cup {f} = ForeignKeys
           /\ todo # {f} => /\ todo' = todo \ {f}
                            /\ (ForeignKeys \ todo) \cup {f} = ForeignKeys \ todo'
BY DEF IInv

LEMMA ChangeStep ==
    ASSUME IInv, UNCHANGED <<driver, lives>>,
           todo' \subseteq ForeignKeys, todo' # {}, pc' \in Steps,
           pc' \in Steps \ Loops => todo' = ForeignKeys,
           Sound(db'), Sound(work'), OpenInv', SetupInv', UpgradeInv', DowngradeInv',
           driver = "init" => pc' \in UpgradeSteps /\ db'.column # "absent"
    PROVE  IInv'
<1>1. LoopInv' /\ PassedInv'
  BY DEF LoopInv, PassedInv, Steps
<1> QED
  BY <1>1 DEF IInv

-----------------------------------------------------------------------------

LEMMA SetupStep ==
    ASSUME IInv,
           DropDatabase \/ CreateDatabase \/ CreateTables \/ Seed
           \/ \E f \in ForeignKeys : CreateChild(f)
    PROVE  IInv'
<1>0. driver = "harness" \/ pc \notin {"drop_database", "create_database", "create_tables",
                                       "create_children", "seed"}
  BY DEF IInv, LoopInv, UpgradeSteps
<1> USE DEF Statement, Change
<1>1. CASE DropDatabase
  <2>1. /\ pc' = "create_database" /\ UNCHANGED <<driver, lives, todo>> /\ driver = "harness"
        /\ db' = NoDatabase /\ work' = NoDatabase /\ todo = ForeignKeys
    BY <1>0, <1>1 DEF DropDatabase, IInv, Steps, Loops
  <2>2. OpenInv' /\ SetupInv' /\ UpgradeInv' /\ DowngradeInv'
    BY <2>1 DEF OpenInv, SetupInv, UpgradeInv, DowngradeInv
  <2> QED
    BY <2>1, <2>2, Empty, ChangeStep, MigrationAssumption DEF Steps
<1>2. CASE CreateDatabase
  <2>1. pc = "create_database" /\ db = NoDatabase /\ todo = ForeignKeys
    BY <1>2 DEF CreateDatabase, IInv, SetupInv, Steps, Loops
  <2>2. /\ pc' = "create_tables" /\ UNCHANGED <<driver, lives, todo>> /\ driver = "harness"
        /\ db' = EmptyDatabase /\ work' = EmptyDatabase
    BY <1>0, <1>2, <2>1 DEF CreateDatabase, NoDatabase, EmptyDatabase
  <2>3. OpenInv' /\ SetupInv' /\ UpgradeInv' /\ DowngradeInv'
    BY <2>2 DEF OpenInv, SetupInv, UpgradeInv, DowngradeInv
  <2>4. Sound(EmptyDatabase)
    BY Empty DEF EmptyDatabase, NoDatabase, Databases, Sound, IdsAre
  <2> QED
    BY <2>1, <2>2, <2>3, <2>4, ChangeStep, MigrationAssumption DEF Steps
<1>3. CASE CreateTables
  <2>1. pc = "create_tables" /\ work = EmptyDatabase /\ todo = ForeignKeys
    BY <1>3 DEF CreateTables, IInv, OpenInv, SetupInv, Steps, Loops
  <2>2. /\ pc' = "create_children" /\ UNCHANGED <<driver, lives, todo>> /\ driver = "harness"
        /\ db' = WithChildren({}) /\ work' = WithChildren({})
    BY <1>0, <1>3, <2>1 DEF CreateTables, NoDatabase, EmptyDatabase, WithChildren
  <2>3. OpenInv' /\ SetupInv' /\ UpgradeInv' /\ DowngradeInv'
    <3>1. ForeignKeys \ todo' = {}
      BY <2>1, <2>2
    <3> QED
      BY <2>2, <3>1 DEF OpenInv, SetupInv, UpgradeInv, DowngradeInv
  <2>4. Sound(WithChildren({}))
    BY Empty DEF WithChildren, NoDatabase, Databases, Sound, IdsAre
  <2> QED
    BY <2>1, <2>2, <2>3, <2>4, ChangeStep, MigrationAssumption DEF Steps
<1>4. ASSUME NEW f \in ForeignKeys, CreateChild(f) PROVE IInv'
  <2> DEFINE F == (ForeignKeys \ todo) \cup {f}
  <2>1. pc = "create_children" /\ work = WithChildren(ForeignKeys \ todo) /\ f \in todo
    BY <1>4 DEF CreateChild, ForEach, IInv, OpenInv, SetupInv
  <2>2. /\ pc' = (IF todo = {f} THEN "seed" ELSE "create_children")
        /\ UNCHANGED <<driver, lives>> /\ driver = "harness"
        /\ db' = WithChildren(F) /\ work' = WithChildren(F)
        /\ todo' = IF todo = {f} THEN ForeignKeys ELSE todo \ {f}
    BY <1>0, <1>4, <2>1 DEF CreateChild, ForEach, NoDatabase, WithChildren
  <2>3. Sound(WithChildren(F))
    BY Empty DEF WithChildren, NoDatabase, Databases, Sound, IdsAre
  <2>4. todo = {f} => F = ForeignKeys /\ todo' = ForeignKeys
    BY <2>1, <2>2, Turn
  <2>5. todo # {f} => F = ForeignKeys \ todo'
    BY <2>1, <2>2, Turn
  <2>6. todo' \subseteq ForeignKeys /\ todo' # {}
    BY <2>1, <2>2, Turn
  <2> HIDE DEF F
  <2>7. OpenInv' /\ UpgradeInv' /\ DowngradeInv'
    BY <2>2 DEF OpenInv, UpgradeInv, DowngradeInv
  <2>8. SetupInv'
    <3>1. WithChildren(ForeignKeys) = Unseeded
      BY DEF WithChildren, Unseeded
    <3> QED
      BY <2>2, <2>4, <2>5, <3>1 DEF SetupInv
  <2>9. pc' \in Steps /\ (pc' \in Steps \ Loops => todo' = ForeignKeys)
    BY <2>2, <2>4 DEF Steps, Loops
  <2> QED
    BY <2>2, <2>3, <2>6, <2>7, <2>8, <2>9, ChangeStep
<1>5. CASE Seed
  <2>1. pc = "seed" /\ db = Unseeded /\ todo = ForeignKeys
    BY <1>5 DEF Seed, IInv, SetupInv, Steps, Loops
  <2>2. Unseeded.tables
    BY Empty DEF Unseeded, NoDatabase
  <2>3. /\ pc' = "add_column" /\ UNCHANGED <<driver, lives, todo>> /\ driver = "harness"
        /\ db' = Seeded /\ work' = Seeded
    BY <1>0, <1>5, <2>1, <2>2 DEF Seed, Seeded
  <2>4. OpenInv' /\ SetupInv' /\ UpgradeInv' /\ DowngradeInv'
    BY <2>3, SeededFacts DEF OpenInv, SetupInv, UpgradeInv, DowngradeInv
  <2> QED
    BY <2>1, <2>3, <2>4, SeededFacts, ChangeStep, MigrationAssumption DEF Steps
<1> QED
  BY <1>1, <1>2, <1>3, <1>4, <1>5

-----------------------------------------------------------------------------
(* upgrade(). *)

\* A statement of upgrade() that leads to one behind it.
LEMMA Going ==
    ASSUME IInv, UNCHANGED <<driver, lives>>,
           todo' \subseteq ForeignKeys, todo' # {}, pc' \notin Loops => todo' = ForeignKeys,
           pc' \in UpgradeSteps \ {"add_column"}, db'.column # "absent",
           Sound(db'), Sound(work'), OpenInv', UpgradeInv'
    PROVE  IInv'
<1>1. SetupInv' /\ DowngradeInv' /\ pc' \in Steps
  BY DEF SetupInv, DowngradeInv, UpgradeSteps, Steps
<1> QED
  BY <1>1, ChangeStep

LEMMA UpgradeStep ==
    ASSUME IInv, Upgrade
    PROVE  IInv'
<1> USE DEF UpgradeSteps, Loops
<1>0. todo # {} /\ ForeignKeys # {} /\ todo \subseteq ForeignKeys
  BY MigrationAssumption DEF IInv
<1>1. CASE AddColumn
  <2>1. pc = "add_column" /\ todo = ForeignKeys /\ Sound(work) /\ Sound(db) /\ work = db
    BY <1>1 DEF AddColumn, Statement, Change, IInv, OpenInv, Steps
  <2>2. CASE work.column = "absent"
    <3>1. Old(work)
      BY <2>1, <2>2 DEF IInv, UpgradeInv, LoopInv
    <3>2. /\ pc' = "create_function" /\ UNCHANGED <<driver, lives, todo>> /\ db' = work'
          /\ work' = [work EXCEPT !.column = "nullable"]
      BY <1>1, <2>2 DEF AddColumn, Statement, Change
    <3>3. Sound(work') /\ UpgradeInv' /\ OpenInv'
      BY <2>1, <3>1, <3>2 DEF Sound, Databases, IdsAre, Schema, UpgradeInv, OpenInv, Old
    <3>4. work'.column # "absent"
      BY <2>1, <3>2 DEF Sound, Databases
    <3> QED
      BY <1>0, <2>1, <3>2, <3>3, <3>4, Going
  <2>3. CASE work.column # "absent"
    <3>1. driver = "init" /\ lives > 1
      BY <2>1, <2>3 DEF IInv, UpgradeInv, Old, Schema
    <3>2. /\ pc' = "refused" /\ UNCHANGED <<driver, lives, todo>> /\ db' = db /\ work' = work
      BY <1>1, <2>1, <2>3 DEF AddColumn, Statement, Change
    <3>3. OpenInv' /\ SetupInv' /\ UpgradeInv' /\ DowngradeInv' /\ LoopInv' /\ PassedInv'
      BY <2>1, <2>3, <3>1, <3>2
         DEF OpenInv, SetupInv, UpgradeInv, DowngradeInv, LoopInv, PassedInv
    <3> QED
      BY <2>1, <3>2, <3>3 DEF IInv, Steps
  <2> QED
    BY <2>2, <2>3
<1>2. CASE CreateFunction
  <2>1. pc = "create_function" /\ todo = ForeignKeys /\ Sound(work) /\ Schema(work, "nullable", FALSE, ForeignKeys, {}, "composite")
    BY <1>2 DEF CreateFunction, Statement, Change, IInv, UpgradeInv, Steps, Loops
  <2>2. /\ pc' = "backfill" /\ UNCHANGED <<driver, lives, todo>> /\ db' = work'
        /\ work' = [work EXCEPT !.helper = TRUE]
    BY <1>2, <2>1 DEF CreateFunction, Statement, Change, Schema
  <2>3. Sound(work') /\ UpgradeInv' /\ OpenInv'
    BY <2>1, <2>2 DEF Sound, Databases, IdsAre, Schema, UpgradeInv, OpenInv, Old, New
  <2> QED
    BY <1>0, <2>1, <2>2, <2>3, Going DEF Sound, Databases, Schema
<1>3. CASE BackfillBatch
  <2>1. /\ pc = "backfill" /\ todo = ForeignKeys /\ Sound(work) /\ Sound(db)
        /\ db.column = "nullable" /\ Schema(work, "nullable", TRUE, ForeignKeys, {}, "composite")
    BY <1>3 DEF BackfillBatch, IInv, UpgradeInv, OpenInv, Steps
  <2>2. PICK B \in SUBSET Pending :
          /\ IsBatch(B)
          /\ work' = WithIds(work, B) /\ db' \in {db, work'}
          /\ pc' = AfterBatch(B) /\ UNCHANGED <<driver, lives, todo>>
    BY <1>3, <2>1 DEF BackfillBatch, Schema
  <2>3. Sound(work') /\ (Pending = {} => IdsAre(work', 1))
    BY <2>1, <2>2, BatchFacts DEF Schema
  <2>4. Schema(work', "nullable", TRUE, ForeignKeys, {}, "composite")
    BY <2>1, <2>2 DEF Schema, Sound, Databases, WithIds
  <2>5. Sound(db') /\ db'.column = "nullable"
    BY <2>1, <2>2, <2>3, <2>4 DEF Schema
  <2>6. pc' \in {"backfill", "drop_function"} /\ (pc' = "drop_function" => IdsAre(work', 1))
    <3>1. CASE B = {}
      BY <2>1, <2>2, <2>3, <3>1, EmptyBatch DEF AfterBatch
    <3>2. CASE B # {}
      BY <2>2, <3>2 DEF AfterBatch
    <3> QED
      BY <3>1, <3>2
  <2>7. UpgradeInv' /\ OpenInv'
    BY <2>4, <2>5, <2>6 DEF UpgradeInv, OpenInv
  <2> QED
    BY <1>0, <2>1, <2>2, <2>3, <2>5, <2>6, <2>7, Going
<1>4. CASE DropFunction
  <2>1. pc = "drop_function" /\ todo = ForeignKeys /\ Sound(work) /\ Schema(work, "nullable", TRUE, ForeignKeys, {}, "composite") /\ IdsAre(work, 1)
    BY <1>4 DEF DropFunction, Statement, Change, IInv, UpgradeInv, Steps, Loops
  <2>2. /\ pc' = "drop_fks" /\ UNCHANGED <<driver, lives, todo>> /\ db' = work'
        /\ work' = [work EXCEPT !.helper = FALSE]
    BY <1>4, <2>1 DEF DropFunction, Statement, Change, WithoutHelper, Schema
  <2>3. Sound(work') /\ UpgradeInv' /\ OpenInv'
    BY <2>1, <2>2 DEF Sound, Databases, IdsAre, Schema, UpgradeInv, OpenInv, Old, New
  <2> QED
    BY <1>0, <2>1, <2>2, <2>3, Going DEF Sound, Databases, Schema
<1>5. ASSUME NEW f \in ForeignKeys, DropForeignKey(f) PROVE IInv'
  <2>1. pc = "drop_fks" /\ f \in todo /\ todo \subseteq ForeignKeys /\ Sound(work) /\ Schema(work, "nullable", FALSE, todo, {}, "composite") /\ IdsAre(work, 1)
    BY <1>5 DEF DropForeignKey, ForEach, Change, IInv, UpgradeInv
  <2>2. /\ pc' = (IF todo = {f} THEN "not_null" ELSE "drop_fks")
        /\ UNCHANGED <<driver, lives>> /\ db' = work'
        /\ todo' = (IF todo = {f} THEN ForeignKeys ELSE todo \ {f})
        /\ work' = [work EXCEPT !.fks = work.fks \ {f}]
    BY <1>5, <2>1 DEF DropForeignKey, ForEach, Change, Schema
  <2>3. work.fks = todo /\ (todo = {f} => todo \ {f} = {}) /\ (todo # {f} => todo' = todo \ {f})
    BY <2>1, <2>2, Turn DEF Schema
  <2>4. /\ Sound(work') /\ work'.fks = work.fks \ {f}
        /\ Schema(work', "nullable", FALSE, work.fks \ {f}, {}, "composite") /\ IdsAre(work', 1)
    BY <2>1, <2>2 DEF Sound, Databases, IdsAre, Schema
  <2>5. UpgradeInv' /\ OpenInv'
    BY <2>1, <2>2, <2>3, <2>4 DEF UpgradeInv, OpenInv, New, Old, Schema
  <2>6. todo' \subseteq ForeignKeys /\ todo' # {} /\ (pc' \notin Loops => todo' = ForeignKeys)
    BY <2>1, <2>2, Turn DEF Loops
  <2> QED
    BY <2>1, <2>2, <2>4, <2>5, <2>6, Going DEF Schema
<1>6. CASE SetNotNull
  <2>1. pc = "not_null" /\ todo = ForeignKeys /\ Sound(work) /\ Schema(work, "nullable", FALSE, {}, {}, "composite") /\ IdsAre(work, 1)
    BY <1>6 DEF SetNotNull, Statement, Change, IInv, UpgradeInv, Steps, Loops
  <2>2. /\ pc' = "composite_key" /\ UNCHANGED <<driver, lives, todo>> /\ db' = work'
        /\ work' = [work EXCEPT !.column = "notnull"]
    BY <1>6, <2>1 DEF SetNotNull, Statement, Change, Schema, IdsAre, Sound, Databases
  <2>3. Sound(work') /\ UpgradeInv' /\ OpenInv'
    BY <2>1, <2>2 DEF Sound, Databases, IdsAre, Schema, UpgradeInv, OpenInv, Old, New
  <2> QED
    BY <1>0, <2>1, <2>2, <2>3, Going DEF Sound, Databases, Schema
<1>7. CASE CreateCompositeKey
  <2>1. pc = "composite_key" /\ todo = ForeignKeys /\ Sound(work) /\ Schema(work, "notnull", FALSE, {}, {}, "composite") /\ IdsAre(work, 1)
    BY <1>7 DEF CreateCompositeKey, Statement, Change, IInv, UpgradeInv, Steps, Loops
  <2>2. /\ pc' = "swap_pk" /\ UNCHANGED <<driver, lives, todo>> /\ db' = work'
        /\ work' = [work EXCEPT !.indexes = {"composite_key"}]
    BY <1>7, <2>1 DEF CreateCompositeKey, Statement, Change, WithCompositeKey, Schema
  <2>3. Sound(work') /\ UpgradeInv' /\ OpenInv'
    BY <2>1, <2>2 DEF Sound, Databases, IdsAre, Schema, UpgradeInv, OpenInv, Old, New
  <2> QED
    BY <1>0, <2>1, <2>2, <2>3, Going DEF Sound, Databases, Schema
<1>8. CASE SwapPrimaryKey
  <2>1. pc = "swap_pk" /\ todo = ForeignKeys /\ Sound(work) /\ Schema(work, "notnull", FALSE, {}, {"composite_key"}, "composite") /\ IdsAre(work, 1)
    BY <1>8 DEF SwapPrimaryKey, Statement, Change, IInv, UpgradeInv, Steps, Loops
  <2>2. /\ pc' = "create_fks" /\ UNCHANGED <<driver, lives, todo>> /\ db' = work'
        /\ work' = [work EXCEPT !.pk = "id", !.indexes = {"composite_key"}]
    BY <1>8, <2>1 DEF SwapPrimaryKey, Statement, Change, AfterSwap, Schema
  <2>3. Sound(work') /\ UpgradeInv' /\ OpenInv'
    BY <2>1, <2>2 DEF Sound, Databases, IdsAre, Schema, UpgradeInv, OpenInv, Old, New
  <2> QED
    BY <1>0, <2>1, <2>2, <2>3, Going DEF Sound, Databases, Schema
<1>9. ASSUME NEW f \in ForeignKeys, CreateForeignKey(f) PROVE IInv'
  <2>1. pc = "create_fks" /\ f \in todo /\ todo \subseteq ForeignKeys /\ Sound(work) /\ Schema(work, "notnull", FALSE, ForeignKeys \ todo, {"composite_key"}, "id") /\ IdsAre(work, 1)
    BY <1>9 DEF CreateForeignKey, ForEach, Change, IInv, UpgradeInv
  <2>2. /\ pc' = (IF todo = {f} THEN "commit_upgrade" ELSE "create_fks")
        /\ UNCHANGED <<driver, lives>> /\ db' = work'
        /\ todo' = (IF todo = {f} THEN ForeignKeys ELSE todo \ {f})
        /\ work' = [work EXCEPT !.fks = work.fks \cup {f}]
    BY <1>9, <2>1 DEF CreateForeignKey, ForEach, Change, Schema, Backed
  <2>3. work.fks = ForeignKeys \ todo /\ (todo = {f} => (ForeignKeys \ todo) \cup {f} = ForeignKeys)
        /\ (todo # {f} => (ForeignKeys \ todo) \cup {f} = ForeignKeys \ todo')
    BY <2>1, <2>2, Turn DEF Schema
  <2>4. /\ Sound(work') /\ work'.fks = work.fks \cup {f}
        /\ Schema(work', "notnull", FALSE, work.fks \cup {f}, {"composite_key"}, "id") /\ IdsAre(work', 1)
    BY <2>1, <2>2 DEF Sound, Databases, IdsAre, Schema
  <2>5. UpgradeInv' /\ OpenInv'
    BY <2>1, <2>2, <2>3, <2>4 DEF UpgradeInv, OpenInv, New, Old, Schema
  <2>6. todo' \subseteq ForeignKeys /\ todo' # {} /\ (pc' \notin Loops => todo' = ForeignKeys)
    BY <2>1, <2>2, Turn DEF Loops
  <2> QED
    BY <2>1, <2>2, <2>4, <2>5, <2>6, Going DEF Schema
<1>10. CASE CommitUpgrade
  <2>1. pc = "commit_upgrade" /\ todo = ForeignKeys /\ Sound(work) /\ New(work)
    BY <1>10 DEF CommitUpgrade, Statement, Change, IInv, UpgradeInv, Steps
  <2>2. /\ pc' = (IF driver = "harness" THEN "assert_upgrade" ELSE "passed")
        /\ UNCHANGED <<driver, lives, todo>> /\ db' = work /\ work' = work
    BY <1>10 DEF CommitUpgrade, Statement, Change
  <2>3. work.column # "absent"
    BY <2>1 DEF New, Schema
  <2>4. OpenInv' /\ SetupInv' /\ UpgradeInv' /\ DowngradeInv' /\ LoopInv' /\ PassedInv'
    BY <2>1, <2>2, <2>3 DEF IInv, OpenInv, SetupInv, UpgradeInv, DowngradeInv, LoopInv, PassedInv
  <2> QED
    BY <2>1, <2>2, <2>4 DEF IInv, Steps
<1> QED
  BY <1>1, <1>2, <1>3, <1>4, <1>5, <1>6, <1>7, <1>8, <1>9, <1>10 DEF Upgrade

-----------------------------------------------------------------------------
(* downgrade(), which only the harness runs. *)

LEMMA Back ==
    ASSUME IInv, UNCHANGED <<driver, lives>>, driver = "harness",
           todo' \subseteq ForeignKeys, todo' # {}, pc' \notin Loops => todo' = ForeignKeys,
           pc' \in {"down_drop_fks", "down_pk", "down_composite_key", "down_column", "down_fks",
                    "commit_downgrade", "assert_downgrade"},
           Sound(db'), Sound(work'), OpenInv', DowngradeInv'
    PROVE  IInv'
<1>1. SetupInv' /\ UpgradeInv' /\ pc' \in Steps
  BY DEF SetupInv, UpgradeInv, Steps
<1> QED
  BY <1>1, ChangeStep

LEMMA DowngradeStep ==
    ASSUME IInv, Downgrade
    PROVE  IInv'
<1> USE DEF Loops
<1>0. /\ todo # {} /\ ForeignKeys # {} /\ todo \subseteq ForeignKeys
      /\ driver = "harness"
  BY MigrationAssumption
     DEF IInv, LoopInv, UpgradeSteps, Downgrade, DownDropForeignKey, DownPrimaryKey,
         DownCompositeKey, DownColumn, DownCreateForeignKey, CommitDowngrade, Statement, ForEach,
         Change
<1>1. ASSUME NEW f \in ForeignKeys, DownDropForeignKey(f) PROVE IInv'
  <2>1. pc = "down_drop_fks" /\ f \in todo /\ todo \subseteq ForeignKeys /\ Sound(work) /\ Schema(work, "notnull", FALSE, todo, {"composite_key"}, "id")
    BY <1>1 DEF DownDropForeignKey, ForEach, Change, IInv, DowngradeInv
  <2>2. /\ pc' = (IF todo = {f} THEN "down_pk" ELSE "down_drop_fks")
        /\ UNCHANGED <<driver, lives>> /\ db' = work'
        /\ todo' = (IF todo = {f} THEN ForeignKeys ELSE todo \ {f})
        /\ work' = [work EXCEPT !.fks = work.fks \ {f}]
    BY <1>1, <2>1 DEF DownDropForeignKey, ForEach, Change, Schema
  <2>3. work.fks = todo /\ (todo = {f} => todo \ {f} = {}) /\ (todo # {f} => todo' = todo \ {f})
    BY <2>1, <2>2, Turn DEF Schema
  <2>4. /\ Sound(work') /\ work'.fks = work.fks \ {f}
        /\ Schema(work', "notnull", FALSE, work.fks \ {f}, {"composite_key"}, "id")
    BY <2>1, <2>2 DEF Sound, Databases, IdsAre, Schema
  <2>5. DowngradeInv' /\ OpenInv'
    BY <2>1, <2>2, <2>3, <2>4 DEF DowngradeInv, OpenInv, New, Old, Schema
  <2>6. todo' \subseteq ForeignKeys /\ todo' # {} /\ (pc' \notin Loops => todo' = ForeignKeys)
    BY <2>1, <2>2, Turn DEF Loops
  <2> QED
    BY <1>0, <2>1, <2>2, <2>4, <2>5, <2>6, Back DEF Schema
<1>2. CASE DownPrimaryKey
  <2>1. pc = "down_pk" /\ todo = ForeignKeys /\ Sound(work) /\ Schema(work, "notnull", FALSE, {}, {"composite_key"}, "id")
    BY <1>2 DEF DownPrimaryKey, Statement, Change, IInv, DowngradeInv, Steps, Loops
  <2>2. /\ pc' = "down_composite_key" /\ UNCHANGED <<driver, lives, todo>> /\ db' = work'
        /\ work' = [work EXCEPT !.pk = "composite", !.indexes = {"composite_key", "old_id"}]
    BY <1>2, <2>1 DEF DownPrimaryKey, Statement, Change, AfterSwap, Schema
  <2>3. Sound(work') /\ DowngradeInv' /\ OpenInv'
    BY <2>1, <2>2 DEF Sound, Databases, IdsAre, Schema, DowngradeInv, OpenInv, Old, New
  <2> QED
    BY <1>0, <2>1, <2>2, <2>3, Back
<1>3. CASE DownCompositeKey
  <2>1. pc = "down_composite_key" /\ todo = ForeignKeys /\ Sound(work) /\ Schema(work, "notnull", FALSE, {}, {"composite_key", "old_id"}, "composite")
    BY <1>3 DEF DownCompositeKey, Statement, Change, IInv, DowngradeInv, Steps, Loops
  <2>2. /\ pc' = "down_column" /\ UNCHANGED <<driver, lives, todo>> /\ db' = work'
        /\ work' = [work EXCEPT !.indexes = {"old_id"}]
    BY <1>3, <2>1 DEF DownCompositeKey, Statement, Change, Schema
  <2>3. Sound(work') /\ DowngradeInv' /\ OpenInv'
    BY <2>1, <2>2 DEF Sound, Databases, IdsAre, Schema, DowngradeInv, OpenInv, Old, New
  <2> QED
    BY <1>0, <2>1, <2>2, <2>3, Back
<1>4. CASE DownColumn
  <2>1. /\ pc = "down_column" /\ todo = ForeignKeys /\ Sound(work)
        /\ Schema(work, "notnull", FALSE, {}, {"old_id"}, "composite")
    BY <1>4 DEF DownColumn, Statement, Change, IInv, DowngradeInv, Steps
  <2>2. /\ pc' = "down_fks" /\ UNCHANGED <<driver, lives, todo>> /\ db' = work'
        /\ work' = [work EXCEPT !.column = "absent", !.indexes = {},
                                !.ids = [r \in Rows |-> 0]]
    BY <1>4, <2>1 DEF DownColumn, Statement, Change, NullIds, Schema
  <2>3. [r \in Rows |-> 0] \in [Rows -> Nat]
    OBVIOUS
  <2>4. work' \in Databases /\ work'.ids = [r \in Rows |-> 0]
    BY <2>1, <2>2, <2>3 DEF Sound, Databases
  <2>5. Sound(work')
    BY <2>4 DEF Sound, IdsAre
  <2>6. ForeignKeys \ todo' = {}
    BY <2>1, <2>2
  <2>7. Schema(work', "absent", FALSE, {}, {}, "composite")
    BY <2>1, <2>2 DEF Sound, Databases, Schema
  <2>8. DowngradeInv' /\ OpenInv'
    BY <2>2, <2>6, <2>7 DEF DowngradeInv, OpenInv
  <2> QED
    BY <1>0, <2>1, <2>2, <2>5, <2>8, Back
<1>5. ASSUME NEW f \in ForeignKeys, DownCreateForeignKey(f) PROVE IInv'
  <2>1. pc = "down_fks" /\ f \in todo /\ todo \subseteq ForeignKeys /\ Sound(work) /\ Schema(work, "absent", FALSE, ForeignKeys \ todo, {}, "composite")
    BY <1>5 DEF DownCreateForeignKey, ForEach, Change, IInv, DowngradeInv
  <2>2. /\ pc' = (IF todo = {f} THEN "commit_downgrade" ELSE "down_fks")
        /\ UNCHANGED <<driver, lives>> /\ db' = work'
        /\ todo' = (IF todo = {f} THEN ForeignKeys ELSE todo \ {f})
        /\ work' = [work EXCEPT !.fks = work.fks \cup {f}]
    BY <1>5, <2>1 DEF DownCreateForeignKey, ForEach, Change, Schema, Backed
  <2>3. work.fks = ForeignKeys \ todo /\ (todo = {f} => (ForeignKeys \ todo) \cup {f} = ForeignKeys)
        /\ (todo # {f} => (ForeignKeys \ todo) \cup {f} = ForeignKeys \ todo')
    BY <2>1, <2>2, Turn DEF Schema
  <2>4. /\ Sound(work') /\ work'.fks = work.fks \cup {f}
        /\ Schema(work', "absent", FALSE, work.fks \cup {f}, {}, "composite")
    BY <2>1, <2>2 DEF Sound, Databases, IdsAre, Schema
  <2>5. DowngradeInv' /\ OpenInv'
    BY <2>1, <2>2, <2>3, <2>4 DEF DowngradeInv, OpenInv, New, Old, Schema
  <2>6. todo' \subseteq ForeignKeys /\ todo' # {} /\ (pc' \notin Loops => todo' = ForeignKeys)
    BY <2>1, <2>2, Turn DEF Loops
  <2> QED
    BY <1>0, <2>1, <2>2, <2>4, <2>5, <2>6, Back DEF Schema
<1>6. CASE CommitDowngrade
  <2>1. /\ pc' = "assert_downgrade" /\ UNCHANGED <<driver, lives, todo>> /\ todo = ForeignKeys
        /\ db' = work /\ work' = work /\ Old(work) /\ Sound(work)
    BY <1>6 DEF CommitDowngrade, Statement, Change, IInv, DowngradeInv, Steps
  <2>2. DowngradeInv' /\ OpenInv'
    BY <2>1 DEF DowngradeInv, OpenInv, Old, Schema
  <2> QED
    BY <1>0, <2>1, <2>2, Back
<1> QED
  BY <1>1, <1>2, <1>3, <1>4, <1>5, <1>6 DEF Downgrade

-----------------------------------------------------------------------------

LEMMA AssertionStep ==
    ASSUME IInv, AssertUpgrade \/ AssertDowngrade
    PROVE  IInv'
<1>0. driver = "harness" /\ todo = ForeignKeys /\ work = db /\ todo # {}
  BY MigrationAssumption
     DEF IInv, LoopInv, OpenInv, UpgradeSteps, AssertUpgrade, AssertDowngrade, Assert, Steps, Loops
<1>1. CASE AssertUpgrade
  <2>1. New(db) /\ UNCHANGED <<driver, todo, db, work, lives>>
    BY <1>0, <1>1 DEF AssertUpgrade, Assert, IInv, UpgradeInv
  <2>2. pc' = "down_drop_fks"
    BY <1>1, <2>1, MigrationAssumption DEF AssertUpgrade, Assert, New, Schema, IdsAre
  <2>3. DowngradeInv' /\ OpenInv'
    BY <1>0, <2>1, <2>2 DEF DowngradeInv, OpenInv, New
  <2> QED
    BY <1>0, <2>1, <2>2, <2>3, Back DEF IInv
<1>2. CASE AssertDowngrade
  <2>1. Old(db) /\ UNCHANGED <<driver, todo, db, work, lives>>
    BY <1>0, <1>2 DEF AssertDowngrade, Assert, IInv, DowngradeInv
  <2>2. pc' = "passed"
    BY <1>2, <2>1, MigrationAssumption DEF AssertDowngrade, Assert, Old, Schema
  <2>3. OpenInv' /\ SetupInv' /\ UpgradeInv' /\ DowngradeInv' /\ LoopInv' /\ PassedInv'
    BY <1>0, <2>1, <2>2
       DEF OpenInv, SetupInv, UpgradeInv, DowngradeInv, LoopInv, PassedInv
  <2> QED
    BY <2>1, <2>2, <2>3 DEF IInv, Steps
<1> QED
  BY <1>1, <1>2

\* What a dead program leaves has the column or is the old database, for only the loop
\* goes on from it.
LEMMA FaultStep ==
    ASSUME IInv, Kill \/ Restart \/ Retry
    PROVE  IInv'
<1>1. CASE Kill
  <2>1. pc' = "killed" /\ work' = db /\ UNCHANGED <<driver, todo, db, lives>>
    BY <1>1 DEF Kill
  <2>2. OpenInv' /\ SetupInv' /\ UpgradeInv' /\ DowngradeInv' /\ LoopInv' /\ PassedInv'
    BY <2>1 DEF IInv, OpenInv, SetupInv, UpgradeInv, DowngradeInv, LoopInv, PassedInv
  <2> QED
    BY <2>1, <2>2 DEF IInv, Steps
<1>2. CASE Restart
  <2>1. /\ pc' = "drop_database" /\ work' = db /\ todo' = ForeignKeys /\ UNCHANGED <<driver, db>>
        /\ lives' \in 1 .. MaxLives /\ driver = "harness"
    BY <1>2, MigrationAssumption DEF Restart, StartAt, IInv
  <2>2. OpenInv' /\ SetupInv' /\ UpgradeInv' /\ DowngradeInv' /\ LoopInv' /\ PassedInv'
    BY <2>1 DEF OpenInv, SetupInv, UpgradeInv, DowngradeInv, LoopInv, PassedInv
  <2> QED
    BY <2>1, <2>2, MigrationAssumption DEF IInv, Steps
<1>3. CASE Retry
  <2>1. /\ pc' = "add_column" /\ work' = db /\ todo' = ForeignKeys /\ UNCHANGED <<driver, db>>
        /\ lives' \in 1 .. MaxLives /\ driver = "init" /\ lives' > 1
    BY <1>3, MigrationAssumption DEF Retry, StartAt, IInv
  <2>2. OpenInv' /\ SetupInv' /\ UpgradeInv' /\ DowngradeInv' /\ PassedInv'
    BY <2>1 DEF OpenInv, SetupInv, UpgradeInv, DowngradeInv, PassedInv
  <2>3. LoopInv'
    BY <2>1 DEF IInv, LoopInv, UpgradeSteps, Old, Schema
  <2> QED
    BY <2>1, <2>2, <2>3, MigrationAssumption DEF IInv, Steps
<1> QED
  BY <1>1, <1>2, <1>3

-----------------------------------------------------------------------------

\* The schema is, at every statement, the one the statement needs: the induction
\* behind the theorems below.
THEOREM Invariance == Spec => []IInv
<1>1. IInv /\ [Next]_vars => IInv'
  <2> SUFFICES ASSUME IInv, [Next]_vars PROVE IInv'
    OBVIOUS
  <2>1. CASE Program
    BY <2>1, SetupStep, UpgradeStep, DowngradeStep, AssertionStep DEF Program
  <2>2. CASE Kill \/ Restart \/ Retry
    BY <2>2, FaultStep
  <2>3. CASE UNCHANGED vars
    BY <2>3
       DEF vars, IInv, Sound, IdsAre, OpenInv, SetupInv, UpgradeInv, DowngradeInv, LoopInv,
           PassedInv, Old, New, Schema
  <2> QED
    BY <2>1, <2>2, <2>3 DEF Next
<1> QED
  BY InvInit, <1>1, PTL DEF Spec

\* The variables of the program and of the database keep their types.
THEOREM TypeCorrect == Spec => []TypeOK
<1>1. IInv => TypeOK
  BY DEF IInv, TypeOK, Sound, IdsAre, Ends
<1> QED
  BY Invariance, <1>1, PTL

\* However many rows there are and however they fall into batches, the database
\* accepts every statement of upgrade() and downgrade(), one foreign key after the
\* other, except in a try after one that died.
THEOREM StatementsAccepted == Spec => []NeverRefused
<1>1. IInv => NeverRefused
  BY DEF IInv, LoopInv, NeverRefused
<1> QED
  BY Invariance, <1>1, PTL

\* The assertions of the harness, after the upgrade and after the downgrade, hold.
THEOREM HarnessPasses == Spec => []AssertionsHold
<1>1. IInv => AssertionsHold
  BY DEF IInv, AssertionsHold, Steps
<1> QED
  BY Invariance, <1>1, PTL

\* The backfill loop never gives a row a second id.
THEOREM BackfillOnce == Spec => []OneIdPerRow
<1>1. IInv => OneIdPerRow
  BY DEF IInv, OneIdPerRow, Sound
<1> QED
  BY Invariance, <1>1, PTL

\* A run that passes has given back the schema and the rows it started from; a loop
\* that passes has the migrated schema, and an id in every row.
THEOREM DowngradeUndoesUpgrade == Spec => []RoundTrip
<1>1. IInv => RoundTrip
  <2> SUFFICES ASSUME IInv, pc = "passed"
               PROVE  db = IF driver = "harness" THEN Seeded ELSE Migrated
    BY DEF RoundTrip
  <2>1. Sound(db) /\ driver \in {"harness", "init"}
    BY DEF IInv
  <2>2. IF driver = "harness" THEN Old(db) ELSE New(db)
    BY DEF IInv, PassedInv
  <2> QED
    BY <2>1, <2>2, OldIsSeeded, NewIsMigrated
<1> QED
  BY Invariance, <1>1, PTL

-----------------------------------------------------------------------------
(* A retry. *)

\* Whatever prefix of the migration a try has left committed, the next one is refused
\* at its first statement, if at all, and has changed nothing by then.
THEOREM RetryChangesNothing == Spec => RetryHarmless
<1>1. IInv /\ IInv' /\ [Next]_vars => [RefusedAtOnce]_vars
  <2> SUFFICES ASSUME IInv, IInv', Next, driver = "init", pc' = "refused"
               PROVE  pc = "add_column" /\ UNCHANGED <<db, work>>
    BY DEF RefusedAtOnce
  <2>1. Program
    BY DEF Next, Kill, Restart, Retry, StartAt
  <2>2. ~(DropDatabase \/ CreateDatabase \/ CreateTables \/ Seed
          \/ \E f \in ForeignKeys : CreateChild(f))
    BY DEF IInv, LoopInv, UpgradeSteps, DropDatabase, CreateDatabase, CreateTables, Seed,
           CreateChild, Statement, ForEach, Change
  <2>3. ~Downgrade
    BY DEF IInv, LoopInv, UpgradeSteps, Downgrade, DownDropForeignKey, DownPrimaryKey,
           DownCompositeKey, DownColumn, DownCreateForeignKey, CommitDowngrade, Statement,
           ForEach, Change
  <2>4. ~AssertUpgrade /\ ~AssertDowngrade
    BY DEF IInv, LoopInv, UpgradeSteps, AssertUpgrade, AssertDowngrade, Assert
  <2>5. Upgrade
    BY <2>1, <2>2, <2>3, <2>4 DEF Program
  <2>6. CASE AddColumn
    BY <2>6 DEF AddColumn, Statement, Change, IInv, OpenInv
  <2>7. CASE CreateFunction \/ DropFunction \/ SetNotNull
    BY <2>7
       DEF CreateFunction, DropFunction, SetNotNull, Statement, Change, IInv, UpgradeInv, Schema,
           IdsAre
  <2>8. CASE CreateCompositeKey \/ SwapPrimaryKey \/ CommitUpgrade
    BY <2>8
       DEF CreateCompositeKey, SwapPrimaryKey, CommitUpgrade, Statement, Change, IInv,
           UpgradeInv, Schema
  <2>9. CASE BackfillBatch
    BY <2>9 DEF BackfillBatch, AfterBatch, IInv, UpgradeInv, Schema
  <2>10. ASSUME NEW f \in ForeignKeys, DropForeignKey(f) \/ CreateForeignKey(f) PROVE FALSE
    BY <2>10
       DEF DropForeignKey, CreateForeignKey, ForEach, Change, IInv, UpgradeInv, Schema, Backed
  <2> QED
    BY <2>5, <2>6, <2>7, <2>8, <2>9, <2>10 DEF Upgrade
<1> QED
  BY Invariance, <1>1, PTL DEF Spec, RetryHarmless

-----------------------------------------------------------------------------
(* The program comes nearer to its end. *)

LEMMA Places ==
    /\ Place("drop_database") = 23 /\ Place("create_database") = 22
    /\ Place("create_tables") = 21 /\ Place("create_children") = 20 /\ Place("seed") = 19
    /\ Place("add_column") = 18 /\ Place("create_function") = 17
    /\ Place("backfill") = 16 /\ Place("drop_function") = 15
    /\ Place("drop_fks") = 14 /\ Place("not_null") = 13
    /\ Place("composite_key") = 12 /\ Place("swap_pk") = 11
    /\ Place("create_fks") = 10 /\ Place("commit_upgrade") = 9
    /\ Place("assert_upgrade") = 8 /\ Place("down_drop_fks") = 7
    /\ Place("down_pk") = 6 /\ Place("down_composite_key") = 5
    /\ Place("down_column") = 4 /\ Place("down_fks") = 3
    /\ Place("commit_downgrade") = 2 /\ Place("assert_downgrade") = 1
    /\ \A p \in Ends : Place(p) = 0
BY DEF Place, Ends

\* A step that goes on, or a turn of a loop.
Onward == Place(pc') < Place(pc) \/ (pc' = pc /\ TurnsLeft' < TurnsLeft)

LEMMA LoopOnward ==
    ASSUME IInv, NEW f, NEW at \in Loops, NEW accepted, NEW result, NEW next,
           ForEach(at, f, accepted, result, next), Place(next) < Place(at)
    PROVE  Onward /\ lives' = lives
<1>1. /\ pc = at /\ f \in todo /\ lives' = lives
      /\ pc' = "refused" \/ pc' = (IF todo = {f} THEN next ELSE at)
      /\ todo' = (IF todo = {f} THEN ForeignKeys ELSE todo \ {f})
  BY DEF ForEach, Change
<1>2. Place("refused") < Place(at) /\ Place(at) \in Nat
  BY Places DEF Loops, Ends
<1>3. CASE pc' = at
  <2>1. todo' = todo \ {f} /\ at # "backfill"
    <3>1. at # next /\ at # "refused" /\ at # "backfill"
      BY <1>2, Places DEF Loops, Ends
    <3> QED
      BY <1>1, <1>3, <3>1
  <2>2. IsFiniteSet(todo)
    BY MigrationAssumption, FS_Subset DEF IInv
  <2>3. Cardinality(todo') < Cardinality(todo)
    <3>1. Cardinality(todo \ {f}) = Cardinality(todo) - 1 /\ Cardinality(todo) \in Nat
      BY <1>1, <2>2, FS_RemoveElement, FS_CardinalityType
    <3> QED
      BY <2>1, <3>1
  <2>4. TurnsLeft = Cardinality(todo) /\ TurnsLeft' = Cardinality(todo')
    BY <1>1, <1>3, <2>1 DEF TurnsLeft
  <2> QED
    BY <1>1, <1>3, <2>3, <2>4 DEF Onward
<1>4. CASE pc' # at
  BY <1>1, <1>2, <1>4 DEF Onward
<1> QED
  BY <1>3, <1>4

\* A batch with rows in it leaves fewer of them pending.
LEMMA BatchShrinks ==
    ASSUME IInv, IInv', NEW B \in SUBSET Pending, B # {}, work' = WithIds(work, B)
    PROVE  Cardinality(Pending') < Cardinality(Pending)
<1>1. PICK r \in B : TRUE
  OBVIOUS
<1>2. /\ work.ids \in [Rows -> Nat] /\ Pending \subseteq Rows /\ work'.rows = work.rows
      /\ work'.ids = [q \in Rows |-> IF q \in B THEN work.ids[q] + 1 ELSE work.ids[q]]
      /\ work.rows \subseteq Rows
  BY DEF IInv, Sound, Databases, Pending, WithIds
<1>3. Pending' \subseteq Pending \ {r}
  BY <1>1, <1>2 DEF Pending
<1>4. IsFiniteSet(Pending)
  BY <1>2, MigrationAssumption, FS_Subset
<1>5. /\ IsFiniteSet(Pending \ {r})
      /\ Cardinality(Pending \ {r}) = Cardinality(Pending) - 1
  BY <1>1, <1>4, FS_RemoveElement
<1>6. IsFiniteSet(Pending') /\ Cardinality(Pending') <= Cardinality(Pending \ {r})
  BY <1>3, <1>5, FS_Subset
<1>7. Cardinality(Pending') \in Nat /\ Cardinality(Pending) \in Nat
  BY <1>4, <1>6, FS_CardinalityType
<1> QED
  BY <1>5, <1>6, <1>7

LEMMA BackfillOnward ==
    ASSUME IInv, IInv', BackfillBatch
    PROVE  Onward /\ lives' = lives
<1>1. /\ pc = "backfill" /\ Schema(work, "nullable", TRUE, ForeignKeys, {}, "composite")
  BY DEF BackfillBatch, IInv, UpgradeInv
<1>2. PICK B \in SUBSET Pending :
        work' = WithIds(work, B) /\ pc' = AfterBatch(B) /\ lives' = lives
  BY <1>1 DEF BackfillBatch, Schema
<1>3. CASE B = {}
  BY <1>1, <1>2, <1>3, Places DEF AfterBatch, Onward
<1>4. CASE B # {}
  <2>1. pc' = "backfill" /\ Cardinality(Pending') < Cardinality(Pending)
    BY <1>2, <1>4, BatchShrinks DEF AfterBatch
  <2>2. TurnsLeft = Cardinality(Pending) /\ TurnsLeft' = Cardinality(Pending')
    BY <1>1, <2>1 DEF TurnsLeft
  <2> QED
    BY <1>1, <1>2, <2>1, <2>2 DEF Onward
<1> QED
  BY <1>3, <1>4

LEMMA ProgramOnward ==
    ASSUME IInv, IInv', Program
    PROVE  Onward /\ lives' = lives
<1>0. Place("refused") = 0 /\ Place("failed") = 0 /\ Place("passed") = 0
  BY Places DEF Ends
<1> USE DEF Statement, Change, Onward
<1>1. CASE DropDatabase \/ CreateDatabase \/ CreateTables \/ Seed
  BY <1>0, <1>1, Places DEF DropDatabase, CreateDatabase, CreateTables, Seed
<1>2. CASE AddColumn \/ CreateFunction \/ DropFunction \/ SetNotNull \/ CommitUpgrade
  BY <1>0, <1>2, Places DEF AddColumn, CreateFunction, DropFunction, SetNotNull, CommitUpgrade
<1>3. CASE CreateCompositeKey \/ SwapPrimaryKey \/ DownPrimaryKey \/ DownCompositeKey
  BY <1>0, <1>3, Places
     DEF CreateCompositeKey, SwapPrimaryKey, DownPrimaryKey, DownCompositeKey
<1>4. CASE DownColumn \/ CommitDowngrade
  BY <1>0, <1>4, Places DEF DownColumn, CommitDowngrade
<1>5. ASSUME NEW f \in ForeignKeys,
             CreateChild(f) \/ DropForeignKey(f) \/ CreateForeignKey(f)
             \/ DownDropForeignKey(f) \/ DownCreateForeignKey(f)
      PROVE  Onward /\ lives' = lives
  <2> HIDE DEF Change, Onward
  <2>1. CASE CreateChild(f)
    BY <2>1, Places, LoopOnward DEF CreateChild, Loops
  <2>2. CASE DropForeignKey(f)
    BY <2>2, Places, LoopOnward DEF DropForeignKey, Loops
  <2>3. CASE CreateForeignKey(f)
    BY <2>3, Places, LoopOnward DEF CreateForeignKey, Loops
  <2>4. CASE DownDropForeignKey(f)
    BY <2>4, Places, LoopOnward DEF DownDropForeignKey, Loops
  <2>5. CASE DownCreateForeignKey(f)
    BY <2>5, Places, LoopOnward DEF DownCreateForeignKey, Loops
  <2> QED
    BY <1>5, <2>1, <2>2, <2>3, <2>4, <2>5
<1>6. CASE AssertUpgrade \/ AssertDowngrade
  BY <1>0, <1>6, Places DEF AssertUpgrade, AssertDowngrade, Assert, Onward
<1>7. CASE BackfillBatch
  BY <1>7, BackfillOnward
<1> QED
  BY <1>1, <1>2, <1>3, <1>4, <1>5, <1>6, <1>7 DEF Program, Upgrade, Downgrade

\* Every statement leads on to a later one, and a loop, over rows or over foreign keys,
\* has less to do after every turn.
THEOREM HarnessAdvance == Spec => HarnessAdvances
<1>1. IInv /\ IInv' /\ [Next]_vars => [Nearer]_vars
  <2> SUFFICES ASSUME IInv, IInv', Next PROVE Nearer
    OBVIOUS
  <2>1. CASE Program
    BY <2>1, ProgramOnward DEF Onward, Nearer
  <2>2. CASE Kill
    <3>1. pc \in Steps /\ pc' = "killed" /\ lives' = lives
      BY <2>2 DEF Kill
    <3>2. Place(pc') < Place(pc)
      BY <3>1, Places DEF Steps, Ends
    <3> QED
      BY <3>1, <3>2 DEF Nearer
  <2>3. CASE Restart \/ Retry
    BY <2>3 DEF Restart, Retry, StartAt, Nearer, IInv, Ends
  <2> QED
    BY <2>1, <2>2, <2>3 DEF Next
<1> QED
  BY Invariance, <1>1, PTL DEF Spec, HarnessAdvances

=============================================================================
