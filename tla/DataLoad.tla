------------------------------ MODULE DataLoad -----------------------------
(***************************************************************************)
(* Tasks that copy records from one CockroachDB to a table of another with *)
(* the hook and the dialect of src/provider. They read through an engine   *)
(* of the source, write row by row with the statement of the dialect,      *)
(* commit in batches, as DbApiHook.insert_rows does, and are tried again   *)
(* by Airflow when they fail. Several copy to the same table.              *)
(*                                                                         *)
(* A setup says how the connections, the table and the call of insert_rows *)
(* look; it does not change.                                               *)
(***************************************************************************)
EXTENDS CockroachDBHook, CockroachDBDialect, Naturals, FiniteSets

CONSTANTS Loads,      \* the tasks
          Keys,       \* the keys of the records; every task has one record of each
          Seeded,     \* the keys that are in the table already
          Old,        \* what is in the columns of those rows
          MaxTries,   \* 1 + retries of a task
          CommitEvery,\* commit_every of insert_rows
          Setups

ASSUME LoadAssumption ==
    /\ IsFiniteSet(Keys) /\ Seeded \subseteq Keys
    /\ Old \notin Loads /\ None \notin Loads /\ Old # None
    /\ MaxTries \in Nat \ {0}
    /\ CommitEvery \in Nat \ {0}

Columns == {"key", "value", "note"}
Hosts == {"source", "target", "localhost"}
Databases == {"db", "defaultdb", "other"}

Connections ==
    [host : Hosts \cup {None}, schema : Databases \cup {None},
     password : {None, "plain", "reserved"}, extra : SUBSET (EXTRA_KEYS \cup {"keepalives"})]

Sessions == [host : Hosts, database : Databases, isolation : IsolationLevels \cup {None}]

ASSUME NoneAssumption ==
    /\ None \notin Hosts /\ None \notin Databases
    /\ None \notin Connections /\ None \notin Sessions

\* source, target: the connections; database: the hook's argument; via: how it writes;
\* options: whether the task passes the same engine_kwargs for all engines;
\* local: whether something answers on localhost; pk: the primary key of the table, or
\* no columns if it has none; shared: whether the key of another table has its name;
\* fields, index: target_fields and replace_index as the task passes or discovers them.
AllSetups ==
    [source : Connections, target : Connections, database : Databases \cup {None},
     via : {"conn", "engine"}, options : BOOLEAN, local : BOOLEAN,
     pk : {{}, {"key"}}, shared : BOOLEAN,
     fields : {"discovered", "key", "value"}, index : {"discovered", "given", "none"}]

ASSUME SetupAssumption == Setups \subseteq AllSetups

VARIABLES
    setup,
    table,          \* the committed rows of the target table
    pc,             \* [Loads -> where the task is]
    try_number,     \* [Loads -> 1 .. MaxTries]
    engine_kwargs,  \* [Loads -> the isolation level in the task's engine_kwargs, or None]
    session,        \* [Loads -> the session it writes through, or None]
    sql,            \* [Loads -> the statement of the dialect]
    sent,           \* [Loads -> the keys executed in the open transaction]
    done,           \* [Loads -> the keys committed by this try]
    hit             \* history: [Loads -> the tries that met a fault]

vars == <<setup, table, pc, try_number, engine_kwargs, session, sql, sent, done, hit>>

Values == Loads \cup {Old, None}
Rows == [rowid : (Loads \cup {Old}) \X (0 .. MaxTries) \X Keys, key : Keys,
         value : Values, note : Values]
Statements == [columns : SUBSET Columns, conflict : SUBSET {"key", "region"},
               update : SUBSET Columns]
NoStatement == [columns |-> {}, conflict |-> {}, update |-> {}]
Points == {"source", "target", "describe", "write", "success", "failed"}

TypeOK ==
    /\ setup \in Setups
    /\ table \subseteq Rows
    /\ pc \in [Loads -> Points]
    /\ try_number \in [Loads -> 1 .. MaxTries]
    /\ engine_kwargs \in [Loads -> {None, "READ COMMITTED"}]
    /\ session \in [Loads -> Sessions \cup {None}]
    /\ sql \in [Loads -> Statements]
    /\ sent \in [Loads -> SUBSET Keys]
    /\ done \in [Loads -> SUBSET Keys]
    /\ hit \in [Loads -> SUBSET (1 .. MaxTries)]

Init ==
    /\ setup \in Setups
    /\ table = {[rowid |-> <<Old, 0, k>>, key |-> k, value |-> Old, note |-> Old] : k \in Seeded}
    /\ pc = [l \in Loads |-> "source"]
    /\ try_number = [l \in Loads |-> 1]
    /\ engine_kwargs = [l \in Loads |-> None]
    /\ session = [l \in Loads |-> None]
    /\ sql = [l \in Loads |-> NoStatement]
    /\ sent = [l \in Loads |-> {}]
    /\ done = [l \in Loads |-> {}]
    /\ hit = [l \in Loads |-> {}]

-----------------------------------------------------------------------------
(* The target database. *)

TargetConstraints ==
    {[table |-> "target", name |-> "pkey", type |-> "PRIMARY KEY",
      columns |-> IF setup.pk = {} THEN {"rowid"} ELSE setup.pk],
     [table |-> "another", name |-> IF setup.shared THEN "pkey" ELSE "another_pkey",
      type |-> "PRIMARY KEY", columns |-> {"region"}]}

TargetColumns ==
    {[name |-> c, is_hidden |-> FALSE] : c \in Columns}
        \cup IF setup.pk = {} THEN {[name |-> "rowid", is_hidden |-> TRUE]} ELSE {}

\* The session is one with the table: not with another database or host.
InPlace(s) == s.host = "target" /\ s.database = "db"
Here(l) == InPlace(session[l])

Reachable(s) == s # None /\ (s.host = "localhost" => setup.local)

\* A statement needs a unique index for its conflict columns, and one without them
\* must not meet its key.
Refused(l, k) ==
    IF sql[l].conflict # {} THEN sql[l].conflict # setup.pk
    ELSE setup.pk # {} /\ \E row \in table : row.key = k

\* The row after the DO UPDATE of load l.
Updated(row, l) ==
    [rowid |-> row.rowid, key |-> row.key,
     value |-> IF "value" \in sql[l].update THEN l ELSE row.value,
     note |-> IF "note" \in sql[l].update THEN l ELSE row.note]

Inserted(l, k) ==
    [rowid |-> <<l, try_number[l], k>>, key |-> k,
     value |-> IF "value" \in sql[l].columns THEN l ELSE None,
     note |-> IF "note" \in sql[l].columns THEN l ELSE None]

\* The table after a transaction that executed the statement for the keys in S.
Written(l, S) ==
    LET old == {row \in table : row.key \in S}
        met == IF sql[l].conflict = {} THEN {} ELSE {row.key : row \in old}
    IN  {IF row.key \in met THEN Updated(row, l) ELSE row : row \in table}
            \cup {Inserted(l, k) : k \in S \ met}

-----------------------------------------------------------------------------
(* A try. *)

\* The try is over; Airflow starts the next one, in a new process.
TryFails(l, met) ==
    /\ hit' = [hit EXCEPT ![l] = IF met THEN @ \cup {try_number[l]} ELSE @]
    /\ sent' = [sent EXCEPT ![l] = {}]
    /\ IF try_number[l] < MaxTries
       THEN /\ pc' = [pc EXCEPT ![l] = "source"]
            /\ try_number' = [try_number EXCEPT ![l] = @ + 1]
            /\ engine_kwargs' = [engine_kwargs EXCEPT ![l] = None]
            /\ session' = [session EXCEPT ![l] = None]
            /\ sql' = [sql EXCEPT ![l] = NoStatement]
            /\ done' = [done EXCEPT ![l] = {}]
       ELSE /\ pc' = [pc EXCEPT ![l] = "failed"]
            /\ UNCHANGED <<try_number, engine_kwargs, session, sql, done>>
    /\ UNCHANGED setup

\* The connection as Airflow gives it, or None if the lookup fails.
Looked(conn, lost) == IF lost THEN None ELSE conn

\* It reads its records through an engine of the source.
OpenSource(l) ==
    /\ pc[l] = "source"
    /\ \E lost \in BOOLEAN :
         LET config == GetConnConfig(None, Looked(setup.source, lost))
             after == EngineIsolation(config, engine_kwargs[l])
             kwargs == CallerKwargs(setup.options, engine_kwargs[l], after)
         IN  IF Reachable(EngineConnect(config, after))
             THEN /\ pc' = [pc EXCEPT ![l] = "target"]
                  /\ engine_kwargs' = [engine_kwargs EXCEPT ![l] = kwargs]
                  /\ hit' = [hit EXCEPT ![l] = IF lost THEN @ \cup {try_number[l]} ELSE @]
                  /\ UNCHANGED <<setup, table, try_number, session, sql, sent, done>>
             ELSE TryFails(l, lost) /\ UNCHANGED table

\* It opens the session it writes through.
OpenTarget(l) ==
    /\ pc[l] = "target"
    /\ \E lost \in BOOLEAN :
         LET config == GetConnConfig(setup.database, Looked(setup.target, lost))
             isolation == EngineIsolation(config, engine_kwargs[l])
             s == IF setup.via = "conn" THEN GetConn(config)
                  ELSE EngineConnect(config, isolation)
         IN  IF Reachable(s)
             THEN /\ pc' = [pc EXCEPT ![l] = "describe"]
                  /\ session' = [session EXCEPT ![l] = s]
                  /\ hit' = [hit EXCEPT ![l] = IF lost THEN @ \cup {try_number[l]} ELSE @]
                  /\ UNCHANGED <<setup, table, try_number, engine_kwargs, sql, sent, done>>
             ELSE TryFails(l, lost) /\ UNCHANGED table

\* What the caller leaves to the dialect to find.
Asked == {what \in {"fields", "index"} : setup[what] = "discovered"}

\* get_records of the hook: a session of get_conn of its own for each query, however the
\* task writes. The catalogue it reads has nothing of a table that is somewhere else.
RecordsSession(lost) == GetConn(GetConnConfig(setup.database, Looked(setup.target, lost)))
Catalogue(lost, records) == IF InPlace(RecordsSession(lost)) THEN records ELSE {}

TargetFields(lost) ==
    CASE setup.fields = "discovered" -> GetColumnNames(Catalogue(lost, TargetColumns))
      [] setup.fields = "key"        -> {"key"}
      [] setup.fields = "value"      -> {"key", "value"}
ReplaceIndex(lost) ==
    CASE setup.index = "discovered" -> GetPrimaryKeys(Catalogue(lost, TargetConstraints), "target")
      [] setup.index = "given"      -> {"key"}
      [] setup.index = "none"       -> {}

\* It asks for the fields and keys it does not know and makes the statement.
Describe(l) ==
    /\ pc[l] = "describe"
    /\ \E lost \in SUBSET Asked :
         IF \A what \in Asked : Reachable(RecordsSession(what \in lost))
         THEN /\ sql' = [sql EXCEPT ![l] =
                           GenerateReplaceSql(TargetFields("fields" \in lost), TRUE,
                                              ReplaceIndex("index" \in lost))]
              /\ pc' = [pc EXCEPT ![l] = "write"]
              /\ hit' = [hit EXCEPT ![l] = IF lost # {} THEN @ \cup {try_number[l]} ELSE @]
              /\ UNCHANGED <<setup, table, try_number, engine_kwargs, session, sent, done>>
         ELSE TryFails(l, lost # {}) /\ UNCHANGED table

Remaining(l) == Keys \ (done[l] \cup sent[l])

\* A statement without columns has no placeholders for the values of the row: psycopg2
\* raises, wherever the session is.
ExecuteRow(l) ==
    /\ pc[l] = "write"
    /\ Cardinality(sent[l]) < CommitEvery
    /\ \E k \in Remaining(l) :
         \/ /\ sql[l].columns # {} /\ (Here(l) => ~Refused(l, k))
            /\ sent' = [sent EXCEPT ![l] = @ \cup {k}]
            /\ UNCHANGED <<setup, table, pc, try_number, engine_kwargs, session, sql, done, hit>>
         \/ /\ sql[l].columns = {} \/ (Here(l) => Refused(l, k))
            /\ TryFails(l, FALSE)
            /\ UNCHANGED table

\* The end of a batch: the rows are in the table at once, unless one of them is
\* refused by what another task has committed meanwhile.
CommitBatch(l) ==
    /\ pc[l] = "write"
    /\ sent[l] # {}
    /\ Cardinality(sent[l]) = CommitEvery \/ Remaining(l) = {}
    /\ IF Here(l) /\ \E k \in sent[l] : Refused(l, k)
       THEN TryFails(l, FALSE) /\ UNCHANGED table
       ELSE /\ table' = IF Here(l) THEN Written(l, sent[l]) ELSE table
            /\ \/ /\ pc' = [pc EXCEPT ![l] = IF Remaining(l) = {} THEN "success" ELSE @]
                  /\ done' = [done EXCEPT ![l] = @ \cup sent[l]]
                  /\ sent' = [sent EXCEPT ![l] = {}]
                  /\ UNCHANGED <<setup, try_number, engine_kwargs, session, sql, hit>>
               \/ TryFails(l, TRUE)      \* the answer is lost

\* The task, its connection or its transaction dies: a stopped worker, an error of
\* the network, 40001.
Fault(l) ==
    /\ pc[l] \notin {"success", "failed"}
    /\ TryFails(l, TRUE)
    /\ UNCHANGED table

Next ==
    \E l \in Loads :
        \/ OpenSource(l)
        \/ OpenTarget(l)
        \/ Describe(l)
        \/ ExecuteRow(l)
        \/ CommitBatch(l)
        \/ Fault(l)

Spec == Init /\ [][Next]_vars

-----------------------------------------------------------------------------
(* Properties. *)

\* psycopg2 and SQLAlchemy accept what the connections carry, for the lookups as well.
SourceAccepted ==
    /\ setup.source.host = "source"
    /\ setup.source.password # "reserved" /\ "cluster" \notin setup.source.extra
TargetAccepted ==
    /\ "cluster" \notin setup.target.extra
    /\ setup.via = "conn" \/ Asked # {} => "isolation_level" \notin setup.target.extra
    /\ setup.via = "engine" => setup.target.password # "reserved"

\* The hook is told where the table is.
Configured ==
    /\ setup.target.host = "target"
    /\ \/ setup.database = "db"
       \/ setup.database = None /\ setup.target.schema = "db"

\* The conflict columns are a key of the table, or there are none on either side.
IndexFits ==
    IF setup.pk = {}
    THEN \/ setup.index = "none"
         \/ setup.index = "discovered" /\ ~setup.shared
    ELSE \/ setup.index = "given"
         \/ setup.index = "discovered" /\ ~setup.shared

\* A load may be tried again after any failure, between batches or at a lost answer:
\* what an earlier try or another task has left in the table never makes one fail, and
\* a load that fails for good has met a fault in every try.
UpsertIsRetriable ==
    SourceAccepted /\ TargetAccepted /\ Configured /\ IndexFits =>
        \A l \in Loads : pc[l] = "failed" => hit[l] = 1 .. MaxTries

\* "If True, generate upsert" (generate_replace_sql, 105), with or without an index: what
\* is in the table makes no load fail for good. The code does not keep this: without an
\* index the statement is a plain INSERT, which its own first try may have spoilt.
ReplaceIsUpsert ==
    SourceAccepted /\ TargetAccepted /\ Configured /\ (IndexFits \/ setup.index = "none") =>
        \A l \in Loads : pc[l] = "failed" => hit[l] = 1 .. MaxTries

Loaded(k) ==
    \E row \in table : row.key = k /\ (setup.fields # "key" => row.value \in Loads)

\* A load that reports success has its records in the table it was configured for, with
\* a value that was loaded, unless it met the fallback to localhost in that try.
SuccessMeansLoaded ==
    \A l \in Loads :
        pc[l] = "success" /\ Configured /\ try_number[l] \notin hit[l] =>
            \A k \in Keys : Loaded(k)

\* Loads never remove a row or change a column that is not among their target fields.
UntouchedColumns ==
    [][\A row \in table : \E new \in table' :
          /\ new.rowid = row.rowid /\ new.key = row.key
          /\ setup.fields = "key" => new.value = row.value
          /\ setup.fields # "discovered" => new.note = row.note]_vars

\* A session has the isolation level of its own connection, not of one opened before
\* it, unless the task passes one dictionary for both.
IsolationAsConfigured ==
    \A l \in Loads :
        (/\ session[l] # None /\ setup.via = "engine" /\ try_number[l] \notin hit[l]
         /\ setup.options => "isolation_level" \notin setup.source.extra)
        => session[l].isolation = IF "isolation_level" \in setup.target.extra
                                  THEN "READ COMMITTED" ELSE None

=============================================================================
