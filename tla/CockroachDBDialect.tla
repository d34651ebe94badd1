------------------------- MODULE CockroachDBDialect ------------------------
(***************************************************************************)
(* CockroachDBDialect (src/provider/dialects/cockroachdb.py): the keys and *)
(* columns of a table and the statement that loads a record into it.       *)
(*                                                                         *)
(* The catalogue of the database is a set of constraints, each of a table, *)
(* with a name that is unique in its table only, and a set of columns.     *)
(* Column lists are sets: their order is a matter of wording.              *)
(***************************************************************************)

\* The constraints that the join of get_primary_keys finds: by name, whatever their table.
KeyColumnUsage(constraints, table) ==
    {usage \in constraints :
        \E tc \in constraints : /\ tc.type = "PRIMARY KEY" /\ tc.table = table
                                /\ usage.name = tc.name}

\* Mutant of GetPrimaryKeys: hidden columns are not left out.
GetPrimaryKeysWithRowid(constraints, table) ==
    UNION {usage.columns : usage \in KeyColumnUsage(constraints, table)}

\* get_primary_keys
GetPrimaryKeys(constraints, table) ==
    UNION {usage.columns \ {"rowid"} : usage \in KeyColumnUsage(constraints, table)}

\* get_column_names
GetColumnNames(columns) == {c.name : c \in {d \in columns : ~d.is_hidden}}

\* Mutants of GenerateReplaceSql: DO NOTHING always; no ON CONFLICT at all; all columns updated.
GenerateReplaceSqlNothing(target_fields, replace, replace_index) ==
    [columns |-> target_fields, conflict |-> replace_index, update |-> {}]
GenerateReplaceSqlPlain(target_fields, replace, replace_index) ==
    [columns |-> target_fields, conflict |-> {}, update |-> {}]
GenerateReplaceSqlAll(target_fields, replace, replace_index) ==
    [columns |-> target_fields, conflict |-> replace_index, update |-> {"value", "note"}]

\* generate_replace_sql. No conflict columns is a plain INSERT, no update columns beside
\* conflict columns is DO NOTHING. An index of None and one without columns are alike.
GenerateReplaceSql(target_fields, replace, replace_index) ==
    IF replace /\ replace_index # {}
    THEN [columns |-> target_fields, conflict |-> replace_index,
          update |-> target_fields \ replace_index]
    ELSE [columns |-> target_fields, conflict |-> {}, update |-> {}]

=============================================================================
