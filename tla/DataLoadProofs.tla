--------------------------- MODULE DataLoadProofs --------------------------
(***************************************************************************)
(* Proofs about DataLoad, for any loads, keys, tries, batches and setups.  *)
(***************************************************************************)
EXTENDS DataLoad, FiniteSetTheorems, TLAPS

\* Fields and keys as a lookup in the right place finds them, and the statement of them.
Fields ==
    CASE setup.fields = "discovered" -> GetColumnNames(TargetColumns)
      [] setup.fields = "key"        -> {"key"}
      [] setup.fields = "value"      -> {"key", "value"}
Index ==
    CASE setup.index = "discovered" -> GetPrimaryKeys(TargetConstraints, "target")
      [] setup.index = "given"      -> {"key"}
      [] setup.index = "none"       -> {}
Statement == GenerateReplaceSql(Fields, TRUE, Index)

\* A lookup in the wrong place finds nothing.
Possible == {GenerateReplaceSql({}, TRUE, {}), GenerateReplaceSql(Fields, TRUE, {}),
             GenerateReplaceSql({}, TRUE, Index), Statement}

\* No fault and no lost connection in the present try.
Clean(l) == try_number[l] \notin hit[l]

Opened == {"describe", "write", "success"}

\* The engines of the task do not share what one of them asks for.
Separate == setup.options => "isolation_level" \notin setup.source.extra

Accepted == SourceAccepted /\ TargetAccepted /\ Configured /\ IndexFits

SqlInv(l) ==
    /\ sql[l] \in Possible
    /\ pc[l] \in {"write", "success"} /\ Clean(l) /\ Configured => sql[l] = Statement

PlaceInv(l) == pc[l] \in Opened /\ Clean(l) /\ Configured => Here(l)

IsolationInv(l) ==
    Clean(l) /\ Separate =>
        /\ engine_kwargs[l] = None
        /\ session[l] # None /\ setup.via = "engine" =>
             session[l].isolation = IF "isolation_level" \in setup.target.extra
                                    THEN "READ COMMITTED" ELSE None

DoneInv(l) ==
    /\ Clean(l) /\ Configured => \A k \in done[l] : Loaded(k)
    /\ done[l] # {} => pc[l] \in {"write", "success", "failed"}
    /\ pc[l] = "success" => done[l] = Keys

HitInv(l) ==
    Accepted => /\ \A n \in 1 .. MaxTries : n < try_number[l] => n \in hit[l]
                /\ pc[l] = "failed" => try_number[l] = MaxTries /\ MaxTries \in hit[l]

LoadInv(l) == SqlInv(l) /\ PlaceInv(l) /\ IsolationInv(l) /\ DoneInv(l) /\ HitInv(l)

IInv == TypeOK /\ \A l \in Loads : LoadInv(l)

-----------------------------------------------------------------------------
(* The hook and the dialect. *)

LEMMA SameStatement ==
    ASSUME setup' = setup
    PROVE  Statement' = Statement /\ Possible' = Possible
<1>1. TargetColumns' = TargetColumns /\ TargetConstraints' = TargetConstraints
  BY DEF TargetColumns, TargetConstraints
<1>2. Fields' = Fields /\ Index' = Index
  BY <1>1 DEF Fields, Index, GetColumnNames, GetPrimaryKeys, KeyColumnUsage
<1> QED
  BY <1>2 DEF Statement, Possible, GenerateReplaceSql

LEMMA SetupFacts ==
    ASSUME setup \in Setups
    PROVE  /\ setup.source \in Connections /\ setup.target \in Connections
           /\ setup.database \in Databases \cup {None}
           /\ setup.via \in {"conn", "engine"}
           /\ setup.options \in BOOLEAN /\ setup.local \in BOOLEAN /\ setup.shared \in BOOLEAN
           /\ setup.pk \in {{}, {"key"}}
           /\ setup.fields \in {"discovered", "key", "value"}
           /\ setup.index \in {"discovered", "given", "none"}
  BY SetupAssumption DEF AllSetups

LEMMA ConfigFacts ==
    ASSUME NEW database \in Databases \cup {None}, NEW conn \in Connections \cup {None}
    PROVE  LET config == GetConnConfig(database, conn)
           IN  /\ config.host \in Hosts /\ config.database \in Databases
               /\ config.extra_params \subseteq EXTRA_KEYS
  BY DEF GetConnConfig, Or, Connections, Hosts, Databases

LEMMA ConnectFacts ==
    ASSUME NEW config, config.host \in Hosts, config.database \in Databases,
           NEW isolation \in IsolationLevels \cup {None}
    PROVE  /\ GetConn(config) \in Sessions \cup {None}
           /\ EngineConnect(config, isolation) \in Sessions \cup {None}
<1>1. GetConn(config) \in Sessions \cup {None}
  BY DEF GetConn, Sessions, IsolationLevels
<1>2. EngineConnect(config, isolation) \in Sessions \cup {None}
  BY DEF EngineConnect, BuildConnectionUri, Sessions
<1> QED
  BY <1>1, <1>2

LEMMA IsolationFacts ==
    ASSUME NEW config, NEW before \in {None, "READ COMMITTED"}, NEW passed \in BOOLEAN
    PROVE  LET after == EngineIsolation(config, before)
           IN  /\ after \in {None, "READ COMMITTED"}
               /\ CallerKwargs(passed, before, after) \in {None, "READ COMMITTED"}
  BY DEF EngineIsolation, CallerKwargs

\* The primary key of the target is found among the constraints, unless the key of the
\* other table has its name.
LEMMA KeyFacts ==
    ASSUME setup \in Setups
    PROVE  LET keys == GetPrimaryKeys(TargetConstraints, "target")
           IN  /\ keys \subseteq {"key", "region"}
               /\ ~setup.shared => keys = setup.pk
<1> DEFINE mine == [table |-> "target", name |-> "pkey", type |-> "PRIMARY KEY",
                    columns |-> IF setup.pk = {} THEN {"rowid"} ELSE setup.pk]
           other == [table |-> "another",
                     name |-> IF setup.shared THEN "pkey" ELSE "another_pkey",
                     type |-> "PRIMARY KEY", columns |-> {"region"}]
           Found == KeyColumnUsage(TargetConstraints, "target")
<1>1. setup.pk \in {{}, {"key"}} /\ setup.shared \in BOOLEAN
  BY SetupFacts
<1>2. TargetConstraints = {mine, other}
  BY DEF TargetConstraints
<1>3. Found = IF setup.shared THEN {mine, other} ELSE {mine}
  <2>1. /\ mine.type = "PRIMARY KEY" /\ mine.table = "target" /\ mine.name = "pkey"
        /\ other.table = "another"
        /\ other.name = IF setup.shared THEN "pkey" ELSE "another_pkey"
    OBVIOUS
  <2>2. ASSUME NEW c \in TargetConstraints
        PROVE  (\E tc \in TargetConstraints : /\ tc.type = "PRIMARY KEY" /\ tc.table = "target"
                                               /\ c.name = tc.name)
               <=> c.name = "pkey"
    BY <1>2, <2>1
  <2> HIDE DEF mine, other
  <2>3. Found = {c \in TargetConstraints : c.name = "pkey"}
    BY <2>2 DEF KeyColumnUsage
  <2> QED
    BY <1>1, <1>2, <2>1, <2>3
<1>4. mine.columns \in {{"rowid"}, {"key"}} /\ other.columns = {"region"}
  BY <1>1
<1>5. mine.columns \ {"rowid"} = setup.pk
  BY <1>1
<1>6. GetPrimaryKeys(TargetConstraints, "target") = UNION {u.columns \ {"rowid"} : u \in Found}
  BY DEF GetPrimaryKeys
<1> HIDE DEF mine, other, Found
<1> DEFINE keys == GetPrimaryKeys(TargetConstraints, "target")
<1>7. setup.shared => keys \subseteq {"key", "region"}
  <2> SUFFICES ASSUME setup.shared PROVE keys \subseteq {"key", "region"}
    OBVIOUS
  <2>1. {u.columns \ {"rowid"} : u \in Found}
          = {mine.columns \ {"rowid"}, other.columns \ {"rowid"}}
    BY <1>3
  <2>2. keys = UNION {mine.columns \ {"rowid"}, other.columns \ {"rowid"}}
    BY <2>1, <1>6, Zenon
  <2>3. mine.columns \subseteq {"rowid", "key"} /\ other.columns \subseteq {"region"}
    BY <1>4
  <2> HIDE DEF keys
  <2> QED
    BY <2>2, <2>3
<1>8. ~setup.shared => keys = setup.pk
  <2> SUFFICES ASSUME ~setup.shared PROVE keys = setup.pk
    OBVIOUS
  <2>1. {u.columns \ {"rowid"} : u \in Found} = {mine.columns \ {"rowid"}}
    BY <1>3
  <2> QED
    BY <2>1, <1>5, <1>6
<1> HIDE DEF keys
<1>9. keys \subseteq {"key", "region"} /\ (~setup.shared => keys = setup.pk)
  BY <1>1, <1>7, <1>8
<1> QED
  BY <1>9 DEF keys

LEMMA FieldFacts ==
    ASSUME setup \in Setups
    PROVE  /\ Fields \subseteq Columns /\ Fields # {}
           /\ setup.fields # "key" => "value" \in Fields
           /\ setup.fields = "key" => "value" \notin Fields
           /\ setup.fields # "discovered" => "note" \notin Fields
<1>1. setup.fields \in {"discovered", "key", "value"}
  BY SetupFacts
<1>2. GetColumnNames(TargetColumns) = Columns
  <2> DEFINE shown == {[name |-> c, is_hidden |-> FALSE] : c \in Columns}
             hidden == IF setup.pk = {} THEN {[name |-> "rowid", is_hidden |-> TRUE]} ELSE {}
  <2>3. {d \in shown \cup hidden : ~d.is_hidden} = shown
    <3>1. \A d \in hidden : d.is_hidden = TRUE
      OBVIOUS
    <3>2. \A d \in shown : d.is_hidden = FALSE
      OBVIOUS
    <3> HIDE DEF shown, hidden
    <3> QED BY <3>1, <3>2, Zenon
  <2>4. {c.name : c \in shown} = Columns
    <3>1. \A c \in Columns : [name |-> c, is_hidden |-> FALSE] \in shown
      OBVIOUS
    <3>2. \A d \in shown : d.name \in Columns
      OBVIOUS
    <3>3. \A c \in Columns : [name |-> c, is_hidden |-> FALSE].name = c
      OBVIOUS
    <3> HIDE DEF shown
    <3> QED BY <3>1, <3>2, <3>3
  <2>5. TargetColumns = shown \cup hidden
    BY DEF TargetColumns
  <2>6. {d \in TargetColumns : ~d.is_hidden} = shown
    BY <2>3, <2>5
  <2> HIDE DEF shown, hidden
  <2> QED
    BY <2>4, <2>6 DEF GetColumnNames
<1> QED
  BY <1>1, <1>2 DEF Fields, Columns

LEMMA IndexFacts ==
    ASSUME setup \in Setups
    PROVE  /\ Index \subseteq {"key", "region"}
           /\ IndexFits => Index = {} \/ Index = setup.pk
           /\ IndexFits /\ setup.pk # {} => Index = setup.pk
<1>1. setup.index \in {"discovered", "given", "none"} /\ setup.pk \in {{}, {"key"}}
  BY SetupFacts
<1> QED
  BY <1>1, KeyFacts DEF Index, IndexFits

LEMMA StatementFacts ==
    ASSUME setup \in Setups
    PROVE  /\ Statement \in Possible /\ NoStatement \in Possible
           /\ Statement.columns = Fields
           /\ setup.fields # "key" => "value" \in Statement.columns
           /\ setup.fields # "key" /\ Statement.conflict # {} => "value" \in Statement.update
           /\ Statement.conflict = Index
<1>1. Statement = [columns |-> Fields, conflict |-> Index,
                   update |-> IF Index = {} THEN {} ELSE Fields \ Index]
  BY DEF Statement, GenerateReplaceSql
<1>2. Statement \in Possible
  BY DEF Statement, Possible
<1>3. NoStatement \in Possible
  <2>1. NoStatement = GenerateReplaceSql({}, TRUE, {})
    BY DEF NoStatement, GenerateReplaceSql
  <2> QED
    BY <2>1 DEF Possible
<1> QED
  BY <1>1, <1>2, <1>3, FieldFacts, IndexFacts

LEMMA PossibleFacts ==
    ASSUME setup \in Setups, NEW s \in Possible
    PROVE  s \in Statements /\ s.update \subseteq Fields
<1>1. PICK f \in {{}, Fields}, i \in {{}, Index} : s = GenerateReplaceSql(f, TRUE, i)
  BY DEF Possible, Statement
<1>2. s = [columns |-> f, conflict |-> i, update |-> IF i = {} THEN {} ELSE f \ i]
  BY <1>1 DEF GenerateReplaceSql
<1> QED
  BY <1>2, FieldFacts, IndexFacts DEF Statements

LEMMA FoundFacts ==
    ASSUME setup \in Setups, NEW lost \in BOOLEAN
    PROVE  /\ TargetFields(lost) \in {{}, Fields}
           /\ ReplaceIndex(lost) \in {{}, Index}
           /\ (setup.fields = "discovered" => InPlace(RecordsSession(lost)))
                => TargetFields(lost) = Fields
           /\ (setup.index = "discovered" => InPlace(RecordsSession(lost)))
                => ReplaceIndex(lost) = Index
<1>1. GetColumnNames({}) = {}
  BY DEF GetColumnNames
<1>2. GetPrimaryKeys({}, "target") = {}
  BY DEF GetPrimaryKeys, KeyColumnUsage
<1> DEFINE names == GetColumnNames(Catalogue(lost, TargetColumns))
           keys == GetPrimaryKeys(Catalogue(lost, TargetConstraints), "target")
<1>3. /\ names = IF InPlace(RecordsSession(lost)) THEN GetColumnNames(TargetColumns) ELSE {}
      /\ keys = IF InPlace(RecordsSession(lost))
                THEN GetPrimaryKeys(TargetConstraints, "target") ELSE {}
  <2>1. CASE InPlace(RecordsSession(lost))
    BY <2>1, Zenon DEF Catalogue
  <2>2. CASE ~InPlace(RecordsSession(lost))
    <3>1. Catalogue(lost, TargetColumns) = {} /\ Catalogue(lost, TargetConstraints) = {}
      BY <2>2 DEF Catalogue
    <3> QED
      BY <1>1, <1>2, <2>2, <3>1, Zenon
  <2> QED
    BY <2>1, <2>2
<1>4. /\ TargetFields(lost) = CASE setup.fields = "discovered" -> names
                                [] setup.fields = "key"        -> {"key"}
                                [] setup.fields = "value"      -> {"key", "value"}
      /\ ReplaceIndex(lost) = CASE setup.index = "discovered" -> keys
                                [] setup.index = "given"      -> {"key"}
                                [] setup.index = "none"       -> {}
  BY DEF TargetFields, ReplaceIndex
<1> HIDE DEF names, keys
<1>5. /\ setup.fields \in {"discovered", "key", "value"}
      /\ setup.index \in {"discovered", "given", "none"}
  BY SetupFacts
<1>6. /\ TargetFields(lost) \in {{}, Fields}
      /\ (setup.fields = "discovered" => InPlace(RecordsSession(lost)))
            => TargetFields(lost) = Fields
  BY <1>3, <1>4, <1>5 DEF Fields
<1>7. /\ ReplaceIndex(lost) \in {{}, Index}
      /\ (setup.index = "discovered" => InPlace(RecordsSession(lost)))
            => ReplaceIndex(lost) = Index
  BY <1>3, <1>4, <1>5 DEF Index
<1> QED
  BY <1>6, <1>7

-----------------------------------------------------------------------------
(* The database. *)

\* A transaction keeps every row, with its key, and changes the columns it updates.
LEMMA UpdateFacts ==
    ASSUME TypeOK, NEW l \in Loads, NEW row \in table
    PROVE  LET new == Updated(row, l)
           IN  /\ new \in Rows /\ new.rowid = row.rowid /\ new.key = row.key
               /\ new.value = IF "value" \in sql[l].update THEN l ELSE row.value
               /\ new.note = IF "note" \in sql[l].update THEN l ELSE row.note
<1>1. row \in Rows
  BY DEF TypeOK
<1>4. l \in Values /\ row.value \in Values /\ row.note \in Values
  BY <1>1 DEF Rows, Values
<1>5. /\ row.key \in Keys
      /\ row.rowid \in (Loads \cup {Old}) \X (0 .. MaxTries) \X Keys
  BY <1>1 DEF Rows
<1>6. Updated(row, l) \in Rows
  BY <1>4, <1>5 DEF Rows, Updated
<1> QED
  BY <1>6 DEF Updated

LEMMA InsertFacts ==
    ASSUME TypeOK, NEW l \in Loads, NEW k \in Keys
    PROVE  LET new == Inserted(l, k)
           IN  /\ new \in Rows /\ new.key = k
               /\ "value" \in sql[l].columns => new.value \in Loads
<1>1. try_number[l] \in 0 .. MaxTries
  <2>1. MaxTries \in Nat /\ try_number[l] \in 1 .. MaxTries
    BY LoadAssumption DEF LoadAssumption, TypeOK
  <2> QED
    BY <2>1
<1>2. <<l, try_number[l], k>> \in (Loads \cup {Old}) \X (0 .. MaxTries) \X Keys
  BY <1>1
<1>3. l \in Values /\ None \in Values
  BY DEF Values
<1>4. Inserted(l, k) = [rowid |-> <<l, try_number[l], k>>, key |-> k,
                        value |-> IF "value" \in sql[l].columns THEN l ELSE None,
                        note |-> IF "note" \in sql[l].columns THEN l ELSE None]
  BY DEF Inserted
<1> QED
  BY <1>2, <1>3, <1>4 DEF Rows

\* What a transaction does to the rows that are there, and what it adds.
LEMMA WrittenFacts ==
    ASSUME TypeOK, NEW l \in Loads, NEW S \in SUBSET Keys
    PROVE  /\ Written(l, S) \subseteq Rows
           /\ \A row \in table : row \in Written(l, S) \/ Updated(row, l) \in Written(l, S)
           /\ \A k \in S : \/ Inserted(l, k) \in Written(l, S)
                           \/ /\ sql[l].conflict # {}
                              /\ \E row \in table : /\ row.key = k
                                                   /\ Updated(row, l) \in Written(l, S)
<1> DEFINE old == {row \in table : row.key \in S}
           met == IF sql[l].conflict = {} THEN {} ELSE {row.key : row \in old}
           kept == {IF row.key \in met THEN Updated(row, l) ELSE row : row \in table}
           added == {Inserted(l, k) : k \in S \ met}
<1>1. Written(l, S) = kept \cup added
  BY DEF Written
<1>2. kept \subseteq Rows
  BY UpdateFacts DEF TypeOK
<1>3. added \subseteq Rows
  BY InsertFacts
<1>4. \A row \in table : row \in kept \/ Updated(row, l) \in kept
  OBVIOUS
<1>5. ASSUME NEW k \in S
      PROVE  \/ Inserted(l, k) \in added
             \/ /\ sql[l].conflict # {}
                /\ \E row \in table : row.key = k /\ Updated(row, l) \in kept
  <2>1. CASE k \notin met
    BY <2>1
  <2>2. CASE k \in met
    <3>1. sql[l].conflict # {} /\ \E row \in old : row.key = k
      BY <2>2
    <3>2. PICK row \in table : row.key = k
      BY <3>1
    <3>3. Updated(row, l) \in kept
      BY <2>2, <3>2
    <3> QED
      BY <3>1, <3>2, <3>3
  <2> QED
    BY <2>1, <2>2
<1> HIDE DEF kept, added
<1> QED
  BY <1>1, <1>2, <1>3, <1>4, <1>5

\* No record that was loaded is lost, and those of the transaction are loaded.
LEMMA LoadedFacts ==
    ASSUME TypeOK, setup' = setup, NEW l \in Loads, NEW S \in SUBSET Keys,
           table' = Written(l, S)
    PROVE  /\ table' \subseteq Rows
           /\ \A k \in Keys : Loaded(k) => Loaded(k)'
           /\ sql[l] = Statement => \A k \in S : Loaded(k)'
<1>1. setup \in Setups
  BY DEF TypeOK
<1>2. table' \subseteq Rows
  BY WrittenFacts
<1>3. ASSUME NEW k \in Keys, Loaded(k) PROVE Loaded(k)'
  <2>1. PICK row \in table : row.key = k /\ (setup.fields # "key" => row.value \in Loads)
    BY <1>3 DEF Loaded
  <2>2. row \in table' \/ Updated(row, l) \in table'
    BY WrittenFacts
  <2>3. Updated(row, l).key = row.key /\ Updated(row, l).value \in {l, row.value}
    BY UpdateFacts
  <2> QED
    BY <2>1, <2>2, <2>3 DEF Loaded
<1>4. ASSUME sql[l] = Statement, NEW k \in S PROVE Loaded(k)'
  <2>1. CASE Inserted(l, k) \in table'
    <3>1. Inserted(l, k).key = k /\ (setup.fields # "key" => Inserted(l, k).value \in Loads)
      BY <1>1, <1>4, InsertFacts, StatementFacts
    <3> QED
      BY <2>1, <3>1 DEF Loaded
  <2>2. CASE /\ sql[l].conflict # {}
             /\ \E row \in table : row.key = k /\ Updated(row, l) \in table'
    <3>1. PICK row \in table : row.key = k /\ Updated(row, l) \in table'
      BY <2>2
    <3>2. /\ Updated(row, l).key = k
          /\ setup.fields # "key" => Updated(row, l).value \in Loads
      BY <1>1, <1>4, <2>2, <3>1, UpdateFacts, StatementFacts
    <3> QED
      BY <3>1, <3>2 DEF Loaded
  <2> QED
    BY <2>1, <2>2, WrittenFacts
<1> QED
  BY <1>2, <1>3, <1>4

-----------------------------------------------------------------------------
(* The loads. *)

Same(m) ==
    /\ pc'[m] = pc[m] /\ try_number'[m] = try_number[m]
    /\ engine_kwargs'[m] = engine_kwargs[m] /\ session'[m] = session[m]
    /\ sql'[m] = sql[m] /\ done'[m] = done[m] /\ hit'[m] = hit[m]

\* What the step of one load leaves of the invariant of another.
LEMMA OtherLoad ==
    ASSUME TypeOK, NEW m \in Loads, LoadInv(m), Same(m), setup' = setup,
           \A k \in Keys : Loaded(k) => Loaded(k)'
    PROVE  LoadInv(m)'
<1>1. Statement' = Statement /\ Possible' = Possible
  BY SameStatement
<1>2. SqlInv(m)'
  BY <1>1 DEF LoadInv, SqlInv, Same, Clean, Configured
<1>3. PlaceInv(m)' /\ IsolationInv(m)'
  BY DEF LoadInv, PlaceInv, IsolationInv, Same, Clean, Separate, Configured, Here
<1>4. DoneInv(m)'
  <2>1. done[m] \subseteq Keys
    BY DEF TypeOK
  <2> QED
    BY <2>1 DEF LoadInv, DoneInv, Same, Clean, Configured
<1>5. HitInv(m)'
  BY DEF LoadInv, HitInv, Same, Accepted, SourceAccepted, TargetAccepted, Asked, Configured, IndexFits
<1> QED
  BY <1>2, <1>3, <1>4, <1>5 DEF LoadInv

LEMMA OneLoad ==
    ASSUME IInv, TypeOK', NEW l \in Loads, LoadInv(l)', setup' = setup,
           \A m \in Loads \ {l} : Same(m),
           \A k \in Keys : Loaded(k) => Loaded(k)'
    PROVE  IInv'
  BY OtherLoad DEF IInv

\* The end of a try keeps the invariant, if what it met counts or is excluded.
LEMMA FailStep ==
    ASSUME IInv, NEW l \in Loads, NEW met \in BOOLEAN, TryFails(l, met),
           pc[l] \notin {"success", "failed"},
           table' \subseteq Rows, \A k \in Keys : Loaded(k) => Loaded(k)',
           Accepted /\ ~met => ~Clean(l)
    PROVE  IInv'
<1>1. TypeOK /\ LoadInv(l) /\ setup' = setup
  BY DEF IInv, TryFails
<1>2. /\ MaxTries \in Nat /\ try_number[l] \in 1 .. MaxTries
      /\ hit[l] \subseteq 1 .. MaxTries
  BY <1>1, LoadAssumption DEF LoadAssumption, TypeOK
<1>3. /\ hit' = [hit EXCEPT ![l] = IF met THEN @ \cup {try_number[l]} ELSE @]
      /\ sent' = [sent EXCEPT ![l] = {}]
  BY DEF TryFails
<1>4. /\ hit'[l] = IF met THEN hit[l] \cup {try_number[l]} ELSE hit[l]
      /\ hit' \in [Loads -> SUBSET (1 .. MaxTries)]
      /\ \A m \in Loads \ {l} : hit'[m] = hit[m]
  BY <1>1, <1>2, <1>3 DEF TypeOK
<1>5. sent' \in [Loads -> SUBSET Keys]
  BY <1>1, <1>3 DEF TypeOK
<1>6. Accepted => try_number[l] \in hit'[l]
  BY <1>4 DEF Clean
<1>7. Accepted' = Accepted
  BY <1>1 DEF Accepted, SourceAccepted, TargetAccepted, Asked, Configured, IndexFits
<1>8. Accepted => \A n \in 1 .. MaxTries : n <= try_number[l] => n \in hit'[l]
  BY <1>1, <1>2, <1>4, <1>6 DEF LoadInv, HitInv
<1>9. Statement' = Statement /\ Possible' = Possible
  BY <1>1, SameStatement
<1>10. NoStatement \in Statements
  BY DEF NoStatement, Statements
<1>11. NoStatement \in Possible
  BY <1>1, StatementFacts DEF TypeOK
<1>12. CASE try_number[l] < MaxTries
  <2>1. /\ pc' = [pc EXCEPT ![l] = "source"]
        /\ try_number' = [try_number EXCEPT ![l] = @ + 1]
        /\ engine_kwargs' = [engine_kwargs EXCEPT ![l] = None]
        /\ session' = [session EXCEPT ![l] = None]
        /\ sql' = [sql EXCEPT ![l] = NoStatement]
        /\ done' = [done EXCEPT ![l] = {}]
    BY <1>12 DEF TryFails
  <2>2. /\ pc'[l] = "source" /\ try_number'[l] = try_number[l] + 1
        /\ engine_kwargs'[l] = None /\ session'[l] = None
        /\ sql'[l] = NoStatement /\ done'[l] = {}
    BY <1>1, <2>1 DEF TypeOK
  <2>3. try_number' \in [Loads -> 1 .. MaxTries]
    <3>1. try_number \in [Loads -> 1 .. MaxTries]
      BY <1>1 DEF TypeOK
    <3>2. try_number[l] + 1 \in 1 .. MaxTries
      BY <1>2, <1>12
    <3> QED
      BY <2>1, <3>1, <3>2
  <2>4. TypeOK'
    BY <1>1, <1>4, <1>5, <1>10, <2>1, <2>3 DEF TypeOK, Points
  <2>5. \A m \in Loads \ {l} : Same(m)
    BY <1>1, <1>4, <2>1 DEF TypeOK, Same
  <2>6. SqlInv(l)' /\ PlaceInv(l)' /\ DoneInv(l)'
    BY <1>9, <1>11, <2>2 DEF SqlInv, PlaceInv, DoneInv, Opened
  <2>7. IsolationInv(l)'
    BY <2>2 DEF IsolationInv
  <2>8. HitInv(l)'
    BY <1>2, <1>7, <1>8, <2>2 DEF HitInv
  <2> QED
    BY <1>1, <2>4, <2>5, <2>6, <2>7, <2>8, OneLoad DEF LoadInv
<1>13. CASE ~(try_number[l] < MaxTries)
  <2>1. /\ pc' = [pc EXCEPT ![l] = "failed"]
        /\ UNCHANGED <<try_number, engine_kwargs, session, sql, done>>
    BY <1>13 DEF TryFails
  <2>2. pc'[l] = "failed" /\ try_number[l] = MaxTries
    <3>1. pc'[l] = "failed"
      BY <1>1, <2>1 DEF TypeOK
    <3>2. try_number[l] = MaxTries
      BY <1>2, <1>13
    <3> QED
      BY <3>1, <3>2
  <2>3. TypeOK'
    BY <1>1, <1>4, <1>5, <2>1 DEF TypeOK, Points
  <2>4. \A m \in Loads \ {l} : Same(m)
    BY <1>1, <1>4, <2>1 DEF TypeOK, Same
  <2>5. Clean(l)' => Clean(l)
    BY <1>4, <2>1 DEF Clean
  <2>6. SqlInv(l)' /\ PlaceInv(l)'
    BY <1>1, <1>9, <2>1, <2>2 DEF LoadInv, SqlInv, PlaceInv, Opened
  <2>7. IsolationInv(l)'
    BY <1>1, <2>1, <2>5 DEF LoadInv, IsolationInv, Separate
  <2>8. DoneInv(l)'
    <3>1. done[l] \subseteq Keys
      BY <1>1 DEF TypeOK
    <3> QED
      BY <1>1, <2>1, <2>2, <2>5, <3>1 DEF LoadInv, DoneInv, Configured
  <2>9. HitInv(l)'
    BY <1>2, <1>7, <1>8, <2>1, <2>2 DEF HitInv
  <2> QED
    BY <1>1, <2>3, <2>4, <2>6, <2>7, <2>8, <2>9, OneLoad DEF LoadInv
<1> QED
  BY <1>12, <1>13

\* The connection that is looked up is the one configured.
LEMMA LookedFacts ==
    ASSUME setup \in Setups, NEW database \in Databases \cup {None},
           NEW conn \in Connections
    PROVE  LET config == GetConnConfig(database, Looked(conn, FALSE))
           IN  /\ config.host = Or(conn.host, "localhost")
               /\ config.database = Or(database, Or(conn.schema, "defaultdb"))
               /\ config.password = conn.password
               /\ config.extra_params = conn.extra \cap EXTRA_KEYS
  BY NoneAssumption DEF NoneAssumption, Looked, GetConnConfig

LEMMA LookedType ==
    ASSUME NEW conn \in Connections, NEW lost \in BOOLEAN
    PROVE  Looked(conn, lost) \in Connections \cup {None}
  BY DEF Looked

LEMMA SourceOpens ==
    ASSUME setup \in Setups, SourceAccepted, NEW isolation \in IsolationLevels \cup {None}
    PROVE  Reachable(EngineConnect(GetConnConfig(None, Looked(setup.source, FALSE)), isolation))
<1> DEFINE config == GetConnConfig(None, Looked(setup.source, FALSE))
<1>1. setup.source \in Connections
  BY SetupFacts
<1>a. /\ config.host = Or(setup.source.host, "localhost")
      /\ config.password = setup.source.password
      /\ config.extra_params = setup.source.extra \cap EXTRA_KEYS
  BY <1>1, LookedFacts
<1>b. config.database \in Databases
  BY <1>1, ConfigFacts, LookedType
<1> HIDE DEF config
<1>c. "source" # None
  BY NoneAssumption DEF NoneAssumption, Hosts
<1>2. /\ config.host = "source" /\ config.password # "reserved"
      /\ "cluster" \notin config.extra_params /\ config.extra_params \subseteq EXTRA_KEYS
  BY <1>a, <1>c DEF SourceAccepted, Or
<1>3. config.extra_params \cap UriKeys \subseteq LibpqKeywords
  BY <1>2 DEF UriKeys, LibpqKeywords
<1>4. EngineConnect(config, isolation) =
        [host |-> "source", database |-> config.database, isolation |-> isolation]
  BY <1>2, <1>3, <1>c DEF EngineConnect, BuildConnectionUri
<1>5. EngineConnect(config, isolation) \in Sessions
  BY <1>b, <1>4 DEF Sessions, Hosts
<1>6. Reachable(EngineConnect(config, isolation))
  BY <1>4, <1>5, NoneAssumption DEF Reachable, NoneAssumption
<1> QED
  BY <1>6 DEF config

Session(config, isolation) ==
    IF setup.via = "conn" THEN GetConn(config) ELSE EngineConnect(config, isolation)

LEMMA SessionPlace ==
    ASSUME NEW config, NEW isolation
    PROVE  /\ \/ GetConn(config) = None
              \/ /\ GetConn(config).host = config.host
                 /\ GetConn(config).database = config.database
           /\ \/ EngineConnect(config, isolation) = None
              \/ /\ EngineConnect(config, isolation).host = config.host
                 /\ EngineConnect(config, isolation).database = config.database
                 /\ EngineConnect(config, isolation).isolation = isolation
  BY DEF GetConn, EngineConnect, BuildConnectionUri

LEMMA TargetConfig ==
    ASSUME setup \in Setups, Configured
    PROVE  LET config == GetConnConfig(setup.database, Looked(setup.target, FALSE))
           IN  /\ config.host = "target" /\ config.database = "db"
               /\ config.password = setup.target.password
               /\ config.extra_params = setup.target.extra \cap EXTRA_KEYS
<1> DEFINE config == GetConnConfig(setup.database, Looked(setup.target, FALSE))
<1>1. setup.target \in Connections /\ setup.database \in Databases \cup {None}
  BY SetupFacts
<1>2. /\ config.host = Or(setup.target.host, "localhost")
      /\ config.database = Or(setup.database, Or(setup.target.schema, "defaultdb"))
      /\ config.password = setup.target.password
      /\ config.extra_params = setup.target.extra \cap EXTRA_KEYS
  BY <1>1, LookedFacts
<1> HIDE DEF config
<1>3. "target" # None /\ "db" # None
  BY NoneAssumption DEF NoneAssumption, Hosts, Databases
<1>4. config.host = "target" /\ config.database = "db"
  BY <1>2, <1>3 DEF Configured, Or
<1> QED
  BY <1>2, <1>4 DEF config

LEMMA TargetPlace ==
    ASSUME setup \in Setups, Configured, NEW isolation
    PROVE  LET s == Session(GetConnConfig(setup.database, Looked(setup.target, FALSE)), isolation)
           IN  s # None => InPlace(s)
<1> DEFINE config == GetConnConfig(setup.database, Looked(setup.target, FALSE))
<1>1. config.host = "target" /\ config.database = "db"
  BY TargetConfig
<1> HIDE DEF config
<1>2. LET s == Session(config, isolation) IN s # None => InPlace(s)
  BY <1>1, SessionPlace DEF Session, InPlace
<1> QED
  BY <1>2 DEF config

\* A session of get_conn is one with the table if there is one at all, and there is one if
\* libpq knows all of Extra.
LEMMA RecordsPlace ==
    ASSUME setup \in Setups, Configured
    PROVE  /\ RecordsSession(FALSE) # None => InPlace(RecordsSession(FALSE))
           /\ "cluster" \notin setup.target.extra /\ "isolation_level" \notin setup.target.extra
                => Reachable(RecordsSession(FALSE))
<1> DEFINE config == GetConnConfig(setup.database, Looked(setup.target, FALSE))
           here == [host |-> "target", database |-> "db", isolation |-> "default"]
<1>1. /\ config.host = "target" /\ config.database = "db"
      /\ config.extra_params = setup.target.extra \cap EXTRA_KEYS
  BY TargetConfig
<1>2. RecordsSession(FALSE) = GetConn(config)
  BY DEF RecordsSession
<1> HIDE DEF config
<1>3. GetConn(config) = IF config.extra_params \subseteq LibpqKeywords THEN here ELSE None
  BY <1>1 DEF GetConn
<1>4. here \in Sessions /\ here.host # "localhost" /\ InPlace(here)
  BY DEF Sessions, Hosts, Databases, IsolationLevels, InPlace
<1>5. Reachable(here)
  BY <1>4, NoneAssumption DEF Reachable, NoneAssumption
<1>6. "cluster" \notin setup.target.extra /\ "isolation_level" \notin setup.target.extra
        => config.extra_params \subseteq LibpqKeywords
  BY <1>1 DEF LibpqKeywords
<1> HIDE DEF here
<1> QED
  BY <1>2, <1>3, <1>4, <1>5, <1>6

LEMMA TargetOpens ==
    ASSUME setup \in Setups, TargetAccepted, Configured,
           NEW isolation \in IsolationLevels \cup {None}
    PROVE  Reachable(Session(GetConnConfig(setup.database, Looked(setup.target, FALSE)),
                             isolation))
<1> DEFINE config == GetConnConfig(setup.database, Looked(setup.target, FALSE))
<1>1. /\ config.host = "target" /\ config.database = "db"
      /\ config.password = setup.target.password
      /\ config.extra_params = setup.target.extra \cap EXTRA_KEYS
  BY TargetConfig
<1>2. CASE setup.via = "conn"
  <2>1. Session(config, isolation) = RecordsSession(FALSE)
    BY <1>2 DEF Session, RecordsSession
  <2> HIDE DEF config
  <2>2. Reachable(Session(config, isolation))
    BY <1>2, <2>1, RecordsPlace DEF TargetAccepted
  <2> QED
    BY <2>2 DEF config
<1>3. CASE setup.via # "conn"
  <2> HIDE DEF config
  <2>1. config.extra_params \cap UriKeys \subseteq LibpqKeywords
    BY <1>1 DEF TargetAccepted, LibpqKeywords, UriKeys
  <2>2. setup.via = "engine" /\ "target" # None
    BY <1>3, SetupFacts, NoneAssumption DEF NoneAssumption, Hosts
  <2>3. Session(config, isolation) = [host |-> "target", database |-> "db",
                                      isolation |-> isolation]
    BY <1>1, <1>3, <2>1, <2>2
       DEF Session, EngineConnect, BuildConnectionUri, TargetAccepted
  <2>4. [host |-> "target", database |-> "db", isolation |-> isolation] \in Sessions
    BY DEF Sessions, Hosts, Databases
  <2>5. [host |-> "target", database |-> "db", isolation |-> isolation].host # "localhost"
    OBVIOUS
  <2>6. Reachable(Session(config, isolation))
    BY <2>3, <2>4, <2>5, NoneAssumption, Zenon DEF Reachable, NoneAssumption
  <2> QED
    BY <2>6 DEF config
<1> QED
  BY <1>2, <1>3

\* An index that fits is the key of the table or is not used.
LEMMA NeverRefused ==
    ASSUME TypeOK, NEW l \in Loads, NEW k \in Keys, sql[l] = Statement, IndexFits
    PROVE  ~Refused(l, k)
<1>1. setup \in Setups /\ setup.pk \in {{}, {"key"}}
  BY SetupFacts DEF TypeOK
<1>2. sql[l].conflict = Index
  BY <1>1, StatementFacts
<1> QED
  BY <1>1, <1>2, IndexFacts DEF Refused

-----------------------------------------------------------------------------
(* The steps. *)

LEMMA InvInit == Init => IInv
<1> SUFFICES ASSUME Init PROVE IInv
  OBVIOUS
<1>1. 1 \in 1 .. MaxTries /\ 0 \in 0 .. MaxTries /\ MaxTries \in Nat
  BY LoadAssumption DEF LoadAssumption
<1>2. table \subseteq Rows
  <2>1. \A k \in Seeded : /\ k \in Keys
                          /\ <<Old, 0, k>> \in (Loads \cup {Old}) \X (0 .. MaxTries) \X Keys
    BY <1>1, LoadAssumption DEF LoadAssumption
  <2>2. \A k \in Seeded :
          [rowid |-> <<Old, 0, k>>, key |-> k, value |-> Old, note |-> Old] \in Rows
    BY <2>1 DEF Rows, Values
  <2> QED
    BY <2>2 DEF Init
<1>3. NoStatement \in Statements
  BY DEF NoStatement, Statements
<1>4. TypeOK
  BY <1>1, <1>2, <1>3 DEF Init, TypeOK, Points
<1>5. ASSUME NEW l \in Loads PROVE LoadInv(l)
  <2>1. /\ pc[l] = "source" /\ try_number[l] = 1 /\ engine_kwargs[l] = None
        /\ session[l] = None /\ sql[l] = NoStatement /\ done[l] = {}
    BY DEF Init
  <2>2. SqlInv(l) /\ PlaceInv(l) /\ IsolationInv(l) /\ DoneInv(l)
    BY <1>4, <2>1, StatementFacts DEF TypeOK, SqlInv, PlaceInv, IsolationInv, DoneInv, Opened
  <2>3. HitInv(l)
    BY <1>1, <2>1 DEF HitInv
  <2> QED
    BY <2>2, <2>3 DEF LoadInv
<1> QED
  BY <1>4, <1>5 DEF IInv

LEMMA NewHit ==
    ASSUME IInv, NEW l \in Loads, NEW lost \in BOOLEAN,
           hit' = [hit EXCEPT ![l] = IF lost THEN @ \cup {try_number[l]} ELSE @]
    PROVE  /\ hit' \in [Loads -> SUBSET (1 .. MaxTries)]
           /\ hit'[l] = IF lost THEN hit[l] \cup {try_number[l]} ELSE hit[l]
           /\ \A m \in Loads \ {l} : hit'[m] = hit[m]
  BY DEF IInv, TypeOK

LEMMA OpenSourceStep == ASSUME IInv, NEW l \in Loads, OpenSource(l) PROVE IInv'
<1>1. TypeOK /\ LoadInv(l) /\ pc[l] = "source"
  BY DEF IInv, OpenSource
<1> DEFINE Config(lost) == GetConnConfig(None, Looked(setup.source, lost))
           After(lost) == EngineIsolation(Config(lost), engine_kwargs[l])
           Kwargs(lost) == CallerKwargs(setup.options, engine_kwargs[l], After(lost))
<1>2. PICK lost \in BOOLEAN :
        IF Reachable(EngineConnect(Config(lost), After(lost)))
        THEN /\ pc' = [pc EXCEPT ![l] = "target"]
             /\ engine_kwargs' = [engine_kwargs EXCEPT ![l] = Kwargs(lost)]
             /\ hit' = [hit EXCEPT ![l] = IF lost THEN @ \cup {try_number[l]} ELSE @]
             /\ UNCHANGED <<setup, table, try_number, session, sql, sent, done>>
        ELSE TryFails(l, lost) /\ UNCHANGED table
  BY DEF OpenSource
<1>3. setup \in Setups /\ engine_kwargs[l] \in {None, "READ COMMITTED"}
  BY <1>1 DEF TypeOK
<1>4. /\ setup.source \in Connections /\ setup.options \in BOOLEAN
  BY <1>3, SetupFacts
<1>5. /\ After(lost) \in {None, "READ COMMITTED"}
      /\ Kwargs(lost) \in {None, "READ COMMITTED"}
  BY <1>3, <1>4, IsolationFacts
<1>6. ~lost /\ Clean(l) /\ Separate => Kwargs(lost) = None
  <2> SUFFICES ASSUME ~lost, Clean(l), Separate PROVE Kwargs(lost) = None
    OBVIOUS
  <2>1. engine_kwargs[l] = None
    BY <1>1 DEF LoadInv, IsolationInv
  <2>2. Config(lost).extra_params = setup.source.extra \cap EXTRA_KEYS
    <3>1. Config(FALSE).extra_params = setup.source.extra \cap EXTRA_KEYS
      BY <1>3, <1>4, LookedFacts
    <3>2. lost = FALSE
      OBVIOUS
    <3> HIDE DEF Config
    <3> QED BY <3>1, <3>2
  <2> HIDE DEF Config
  <2> QED
    BY <2>1, <2>2, <1>4 DEF Separate, EngineIsolation, CallerKwargs
<1>7. Accepted /\ ~lost => Reachable(EngineConnect(Config(lost), After(lost)))
  BY <1>3, <1>5, SourceOpens DEF Accepted, IsolationLevels
<1> HIDE DEF Config, After, Kwargs
<1>8. CASE Reachable(EngineConnect(Config(lost), After(lost)))
  <2>1. /\ pc' = [pc EXCEPT ![l] = "target"]
        /\ engine_kwargs' = [engine_kwargs EXCEPT ![l] = Kwargs(lost)]
        /\ hit' = [hit EXCEPT ![l] = IF lost THEN @ \cup {try_number[l]} ELSE @]
        /\ UNCHANGED <<setup, table, try_number, session, sql, sent, done>>
    BY <1>2, <1>8
  <2>2. /\ hit' \in [Loads -> SUBSET (1 .. MaxTries)]
        /\ hit'[l] = IF lost THEN hit[l] \cup {try_number[l]} ELSE hit[l]
        /\ \A m \in Loads \ {l} : hit'[m] = hit[m]
    BY <2>1, NewHit
  <2>3. pc'[l] = "target" /\ engine_kwargs'[l] = Kwargs(lost)
    BY <1>1, <2>1 DEF TypeOK
  <2>4. TypeOK'
    BY <1>1, <1>5, <2>1, <2>2 DEF TypeOK, Points
  <2>5. \A m \in Loads \ {l} : Same(m)
    BY <1>1, <2>1, <2>2 DEF TypeOK, Same
  <2>6. Clean(l)' => Clean(l) /\ ~lost
    BY <2>1, <2>2 DEF Clean
  <2>7. SqlInv(l)' /\ PlaceInv(l)'
    <3>1. Statement' = Statement /\ Possible' = Possible
      BY <2>1, SameStatement
    <3> QED
      BY <1>1, <2>1, <2>3, <3>1 DEF LoadInv, SqlInv, PlaceInv, Opened
  <2>8. IsolationInv(l)'
    BY <1>1, <1>6, <2>1, <2>3, <2>6 DEF LoadInv, IsolationInv, Separate
  <2>9. DoneInv(l)'
    BY <1>1, <2>1, <2>3 DEF LoadInv, DoneInv
  <2>10. HitInv(l)'
    BY <1>1, <2>1, <2>2, <2>3
       DEF LoadInv, HitInv, Accepted, SourceAccepted, TargetAccepted, Asked, Configured, IndexFits
  <2>11. \A k \in Keys : Loaded(k) => Loaded(k)'
    BY <2>1 DEF Loaded
  <2> QED
    BY <2>1, <2>4, <2>5, <2>7, <2>8, <2>9, <2>10, <2>11, OneLoad DEF LoadInv
<1>9. CASE ~Reachable(EngineConnect(Config(lost), After(lost)))
  <2>1. TryFails(l, lost) /\ UNCHANGED <<setup, table>>
    BY <1>2, <1>9 DEF TryFails
  <2>2. table' \subseteq Rows /\ \A k \in Keys : Loaded(k) => Loaded(k)'
    BY <1>1, <2>1 DEF TypeOK, Loaded
  <2> QED
    BY <1>1, <1>7, <1>9, <2>1, <2>2, FailStep
<1> QED
  BY <1>8, <1>9

LEMMA OpenTargetStep == ASSUME IInv, NEW l \in Loads, OpenTarget(l) PROVE IInv'
<1>1. TypeOK /\ LoadInv(l) /\ pc[l] = "target"
  BY DEF IInv, OpenTarget
<1> DEFINE Config(lost) == GetConnConfig(setup.database, Looked(setup.target, lost))
           Isolation(lost) == EngineIsolation(Config(lost), engine_kwargs[l])
           S(lost) == Session(Config(lost), Isolation(lost))
<1>2. PICK lost \in BOOLEAN :
        IF Reachable(S(lost))
        THEN /\ pc' = [pc EXCEPT ![l] = "describe"]
             /\ session' = [session EXCEPT ![l] = S(lost)]
             /\ hit' = [hit EXCEPT ![l] = IF lost THEN @ \cup {try_number[l]} ELSE @]
             /\ UNCHANGED <<setup, table, try_number, engine_kwargs, sql, sent, done>>
        ELSE TryFails(l, lost) /\ UNCHANGED table
  BY DEF OpenTarget, Session
<1>3. setup \in Setups /\ engine_kwargs[l] \in {None, "READ COMMITTED"}
  BY <1>1 DEF TypeOK
<1>4. /\ setup.target \in Connections /\ setup.options \in BOOLEAN
      /\ setup.database \in Databases \cup {None} /\ setup.via \in {"conn", "engine"}
  BY <1>3, SetupFacts
<1>5. Isolation(lost) \in IsolationLevels \cup {None}
  BY <1>3, IsolationFacts DEF IsolationLevels
<1>6. S(lost) \in Sessions \cup {None}
  <2>1. Config(lost).host \in Hosts /\ Config(lost).database \in Databases
    BY <1>4, ConfigFacts, LookedType
  <2> HIDE DEF Config, Isolation
  <2> QED
    BY <1>5, <2>1, ConnectFacts DEF Session
<1>7. lost = FALSE => Config(lost).extra_params = setup.target.extra \cap EXTRA_KEYS
  BY <1>3, <1>4, LookedFacts
<1>8. Accepted /\ lost = FALSE => Reachable(S(lost))
  BY <1>3, <1>5, TargetOpens DEF Accepted
<1>9. Configured /\ lost = FALSE /\ S(lost) # None => InPlace(S(lost))
  BY <1>3, TargetPlace
<1>10. /\ lost = FALSE /\ Clean(l) /\ Separate /\ setup.via = "engine" /\ S(lost) # None
       => S(lost).isolation = IF "isolation_level" \in setup.target.extra
                              THEN "READ COMMITTED" ELSE None
  <2> SUFFICES ASSUME lost = FALSE, Clean(l), Separate, setup.via = "engine", S(lost) # None
               PROVE  S(lost).isolation = IF "isolation_level" \in setup.target.extra
                                          THEN "READ COMMITTED" ELSE None
    OBVIOUS
  <2>1. engine_kwargs[l] = None
    BY <1>1 DEF LoadInv, IsolationInv
  <2>2. Isolation(lost) = IF "isolation_level" \in setup.target.extra
                          THEN "READ COMMITTED" ELSE None
    BY <1>7, <2>1 DEF EngineIsolation, EXTRA_KEYS
  <2> HIDE DEF Config, Isolation
  <2>3. S(lost) = EngineConnect(Config(lost), Isolation(lost))
    BY DEF Session
  <2>4. S(lost).isolation = Isolation(lost)
    BY <2>3, SessionPlace
  <2> QED
    BY <2>2, <2>4
<1> HIDE DEF Config, Isolation, S
<1>11. CASE Reachable(S(lost))
  <2>1. /\ pc' = [pc EXCEPT ![l] = "describe"]
        /\ session' = [session EXCEPT ![l] = S(lost)]
        /\ hit' = [hit EXCEPT ![l] = IF lost THEN @ \cup {try_number[l]} ELSE @]
        /\ UNCHANGED <<setup, table, try_number, engine_kwargs, sql, sent, done>>
    BY <1>2, <1>11
  <2>2. /\ hit' \in [Loads -> SUBSET (1 .. MaxTries)]
        /\ hit'[l] = IF lost THEN hit[l] \cup {try_number[l]} ELSE hit[l]
        /\ \A m \in Loads \ {l} : hit'[m] = hit[m]
    BY <2>1, NewHit
  <2>3. pc'[l] = "describe" /\ session'[l] = S(lost) /\ S(lost) # None
    BY <1>1, <1>11, <2>1 DEF TypeOK, Reachable
  <2>4. TypeOK'
    BY <1>1, <1>6, <2>1, <2>2 DEF TypeOK, Points
  <2>5. \A m \in Loads \ {l} : Same(m)
    BY <1>1, <2>1, <2>2 DEF TypeOK, Same
  <2>6. Clean(l)' => Clean(l) /\ lost = FALSE
    BY <2>1, <2>2 DEF Clean
  <2>7. SqlInv(l)'
    <3>1. Statement' = Statement /\ Possible' = Possible
      BY <2>1, SameStatement
    <3> QED
      BY <1>1, <2>1, <2>3, <3>1 DEF LoadInv, SqlInv
  <2>8. PlaceInv(l)'
    BY <1>9, <2>1, <2>3, <2>6 DEF PlaceInv, Here, Configured
  <2>9. IsolationInv(l)'
    BY <1>1, <1>10, <2>1, <2>3, <2>6 DEF LoadInv, IsolationInv, Separate
  <2>10. DoneInv(l)'
    BY <1>1, <2>1, <2>3 DEF LoadInv, DoneInv
  <2>11. HitInv(l)'
    BY <1>1, <2>1, <2>2, <2>3
       DEF LoadInv, HitInv, Accepted, SourceAccepted, TargetAccepted, Asked, Configured, IndexFits
  <2>12. \A k \in Keys : Loaded(k) => Loaded(k)'
    BY <2>1 DEF Loaded
  <2> QED
    BY <2>1, <2>4, <2>5, <2>7, <2>8, <2>9, <2>10, <2>11, <2>12, OneLoad DEF LoadInv
<1>12. CASE ~Reachable(S(lost))
  <2>1. TryFails(l, lost) /\ UNCHANGED <<setup, table>>
    BY <1>2, <1>12 DEF TryFails
  <2>2. table' \subseteq Rows /\ \A k \in Keys : Loaded(k) => Loaded(k)'
    BY <1>1, <2>1 DEF TypeOK, Loaded
  <2> QED
    BY <1>1, <1>8, <1>12, <2>1, <2>2, FailStep
<1> QED
  BY <1>11, <1>12

LEMMA DescribeStep == ASSUME IInv, NEW l \in Loads, Describe(l) PROVE IInv'
<1>1. TypeOK /\ LoadInv(l) /\ pc[l] = "describe" /\ setup \in Setups
  BY DEF IInv, Describe, TypeOK
<1> DEFINE Found(lost) == GenerateReplaceSql(TargetFields("fields" \in lost), TRUE,
                                             ReplaceIndex("index" \in lost))
<1>2. PICK lost \in SUBSET Asked :
        IF \A what \in Asked : Reachable(RecordsSession(what \in lost))
        THEN /\ sql' = [sql EXCEPT ![l] = Found(lost)]
             /\ pc' = [pc EXCEPT ![l] = "write"]
             /\ hit' = [hit EXCEPT ![l] = IF lost # {} THEN @ \cup {try_number[l]} ELSE @]
             /\ UNCHANGED <<setup, table, try_number, engine_kwargs, session, sent, done>>
        ELSE TryFails(l, lost # {}) /\ UNCHANGED table
  BY DEF Describe
<1>3. Found(lost) \in Possible
  <2>1. /\ TargetFields("fields" \in lost) \in {TargetFields(TRUE), TargetFields(FALSE)}
        /\ ReplaceIndex("index" \in lost) \in {ReplaceIndex(TRUE), ReplaceIndex(FALSE)}
    BY DEF RecordsSession, Looked, TargetFields, ReplaceIndex, Catalogue
  <2>2. /\ TargetFields(TRUE) \in {{}, Fields} /\ ReplaceIndex(TRUE) \in {{}, Index}
        /\ TargetFields(FALSE) \in {{}, Fields} /\ ReplaceIndex(FALSE) \in {{}, Index}
    BY <1>1, FoundFacts
  <2>3. PICK f \in {{}, Fields}, i \in {{}, Index} :
          TargetFields("fields" \in lost) = f /\ ReplaceIndex("index" \in lost) = i
    BY <2>1, <2>2
  <2>4. Found(lost) = GenerateReplaceSql(f, TRUE, i)
    BY <2>3
  <2> HIDE DEF Found
  <2> QED
    BY <2>4 DEF Possible, Statement
<1>4. CASE \A what \in Asked : Reachable(RecordsSession(what \in lost))
  <2>1. /\ sql' = [sql EXCEPT ![l] = Found(lost)]
        /\ pc' = [pc EXCEPT ![l] = "write"]
        /\ hit' = [hit EXCEPT ![l] = IF lost # {} THEN @ \cup {try_number[l]} ELSE @]
        /\ UNCHANGED <<setup, table, try_number, engine_kwargs, session, sent, done>>
    BY <1>2, <1>4
  <2>2. lost = {} /\ Configured => Found(lost) = Statement
    <3> SUFFICES ASSUME lost = {}, Configured PROVE Found(lost) = Statement
      OBVIOUS
    <3>1. /\ \A what \in Asked : RecordsSession(what \in lost) = RecordsSession(FALSE)
          /\ TargetFields("fields" \in lost) = TargetFields(FALSE)
          /\ ReplaceIndex("index" \in lost) = ReplaceIndex(FALSE)
      BY DEF RecordsSession, Looked, TargetFields, ReplaceIndex, Catalogue
    <3>2. \A what \in Asked : RecordsSession(FALSE) # None
      BY <1>4, <3>1 DEF Reachable
    <3>3. Asked # {} => InPlace(RecordsSession(FALSE))
      BY <1>1, <3>2, RecordsPlace
    <3>4. (setup.fields = "discovered" \/ setup.index = "discovered") => Asked # {}
      BY DEF Asked
    <3>5. TargetFields(FALSE) = Fields /\ ReplaceIndex(FALSE) = Index
      BY <1>1, <3>3, <3>4, FoundFacts
    <3> QED
      BY <3>5, <3>1 DEF Statement
  <2> HIDE DEF Found
  <2>3. /\ hit' \in [Loads -> SUBSET (1 .. MaxTries)]
        /\ hit'[l] = IF lost # {} THEN hit[l] \cup {try_number[l]} ELSE hit[l]
        /\ \A m \in Loads \ {l} : hit'[m] = hit[m]
    BY <2>1, NewHit
  <2>4. pc'[l] = "write" /\ sql'[l] = Found(lost)
    BY <1>1, <2>1 DEF TypeOK
  <2>5. Found(lost) \in Statements
    BY <1>1, <1>3, PossibleFacts
  <2>6. TypeOK' /\ \A m \in Loads \ {l} : Same(m)
    BY <1>1, <2>1, <2>3, <2>5 DEF TypeOK, Points, Same
  <2>7. Clean(l)' => Clean(l) /\ lost = {}
    BY <2>1, <2>3 DEF Clean
  <2>8. SqlInv(l)'
    BY <1>3, <2>1, <2>2, <2>4, <2>7, SameStatement DEF SqlInv, Configured
  <2>9. PlaceInv(l)'
    BY <1>1, <2>1, <2>7 DEF LoadInv, PlaceInv, Opened, Configured, Here
  <2>10. IsolationInv(l)' /\ DoneInv(l)'
    BY <1>1, <2>1, <2>4, <2>7 DEF LoadInv, IsolationInv, DoneInv, Separate
  <2>11. HitInv(l)'
    BY <1>1, <2>1, <2>3, <2>4
       DEF LoadInv, HitInv, Accepted, SourceAccepted, TargetAccepted, Asked, Configured, IndexFits
  <2>12. \A k \in Keys : Loaded(k) => Loaded(k)'
    BY <2>1 DEF Loaded
  <2> QED
    BY <2>1, <2>6, <2>8, <2>9, <2>10, <2>11, <2>12, OneLoad DEF LoadInv
<1>5. CASE ~\A what \in Asked : Reachable(RecordsSession(what \in lost))
  <2>1. TryFails(l, lost # {}) /\ UNCHANGED <<setup, table>>
    BY <1>2, <1>5 DEF TryFails
  <2>2. table' \subseteq Rows /\ \A k \in Keys : Loaded(k) => Loaded(k)'
    BY <1>1, <2>1 DEF TypeOK, Loaded
  <2>3. Accepted => lost # {}
    <3> SUFFICES ASSUME Accepted, lost = {} PROVE FALSE
      OBVIOUS
    <3>1. \A what \in Asked : RecordsSession(what \in lost) = RecordsSession(FALSE)
      BY DEF RecordsSession, Looked
    <3>2. PICK what \in Asked : ~Reachable(RecordsSession(FALSE))
      BY <1>5, <3>1
    <3> QED
      BY <1>1, <3>2, RecordsPlace DEF Accepted, TargetAccepted
  <2> QED
    BY <1>1, <2>1, <2>2, <2>3, FailStep
<1> QED
  BY <1>4, <1>5

\* A load in its place is not refused where the index fits: what refuses it was met.
LEMMA RefusedIsExcluded ==
    ASSUME IInv, NEW l \in Loads, pc[l] = "write", NEW k \in Keys, Accepted,
           sql[l].columns = {} \/ (Here(l) => Refused(l, k))
    PROVE  ~Clean(l)
<1> SUFFICES ASSUME Clean(l) PROVE FALSE
  OBVIOUS
<1>1. TypeOK /\ LoadInv(l) /\ setup \in Setups
  BY DEF IInv, TypeOK
<1>2. sql[l] = Statement
  BY <1>1 DEF LoadInv, SqlInv, Accepted
<1>3. sql[l].columns # {}
  BY <1>1, <1>2, StatementFacts, FieldFacts
<1>4. ~Refused(l, k)
  BY <1>1, <1>2, NeverRefused DEF Accepted
<1> QED
  BY <1>1, <1>3, <1>4 DEF LoadInv, PlaceInv, Accepted, Opened

LEMMA ExecuteRowStep == ASSUME IInv, NEW l \in Loads, ExecuteRow(l) PROVE IInv'
<1>1. TypeOK /\ LoadInv(l) /\ pc[l] = "write"
  BY DEF IInv, ExecuteRow
<1>2. PICK k \in Remaining(l) :
        \/ /\ sent' = [sent EXCEPT ![l] = @ \cup {k}]
           /\ UNCHANGED <<setup, table, pc, try_number, engine_kwargs, session, sql, done, hit>>
        \/ /\ sql[l].columns = {} \/ (Here(l) => Refused(l, k))
           /\ TryFails(l, FALSE)
           /\ UNCHANGED table
  BY DEF ExecuteRow
<1>3. k \in Keys
  BY DEF Remaining
<1>4. CASE /\ sent' = [sent EXCEPT ![l] = @ \cup {k}]
           /\ UNCHANGED <<setup, table, pc, try_number, engine_kwargs, session, sql, done, hit>>
  <2>1. TypeOK'
    BY <1>1, <1>3, <1>4 DEF TypeOK
  <2>2. \A m \in Loads : Same(m)
    BY <1>4 DEF Same
  <2>3. setup' = setup /\ \A j \in Keys : Loaded(j) => Loaded(j)'
    BY <1>4 DEF Loaded
  <2> QED
    BY <1>1, <2>1, <2>2, <2>3, OtherLoad DEF IInv
<1>5. CASE (sql[l].columns = {} \/ (Here(l) => Refused(l, k))) /\ TryFails(l, FALSE) /\ UNCHANGED table
  <2>1. setup' = setup
    BY <1>5 DEF TryFails
  <2>2. table' \subseteq Rows /\ \A j \in Keys : Loaded(j) => Loaded(j)'
    BY <1>1, <1>5, <2>1 DEF TypeOK, Loaded
  <2>3. Accepted => ~Clean(l)
    BY <1>1, <1>3, <1>5, RefusedIsExcluded
  <2> QED
    BY <1>1, <1>5, <2>2, <2>3, FailStep
<1> QED
  BY <1>2, <1>4, <1>5

LEMMA CommitBatchStep == ASSUME IInv, NEW l \in Loads, CommitBatch(l) PROVE IInv'
<1>1. TypeOK /\ LoadInv(l) /\ pc[l] = "write"
  BY DEF IInv, CommitBatch
<1>2. sent[l] \subseteq Keys /\ done[l] \subseteq Keys
  BY <1>1 DEF TypeOK
<1>3. CASE Here(l) /\ \E k \in sent[l] : Refused(l, k)
  <2>1. TryFails(l, FALSE) /\ UNCHANGED <<setup, table>>
    BY <1>3 DEF CommitBatch, TryFails
  <2>2. table' \subseteq Rows /\ \A j \in Keys : Loaded(j) => Loaded(j)'
    BY <1>1, <2>1 DEF TypeOK, Loaded
  <2>3. Accepted => ~Clean(l)
    BY <1>1, <1>2, <1>3, RefusedIsExcluded
  <2> QED
    BY <1>1, <2>1, <2>2, <2>3, FailStep
<1>4. CASE ~(Here(l) /\ \E k \in sent[l] : Refused(l, k))
  <2>1. table' = IF Here(l) THEN Written(l, sent[l]) ELSE table
    BY <1>4 DEF CommitBatch
  <2>2. \/ /\ pc' = [pc EXCEPT ![l] = IF Remaining(l) = {} THEN "success" ELSE @]
           /\ done' = [done EXCEPT ![l] = @ \cup sent[l]]
           /\ sent' = [sent EXCEPT ![l] = {}]
           /\ UNCHANGED <<setup, try_number, engine_kwargs, session, sql, hit>>
        \/ TryFails(l, TRUE)
    BY <1>4 DEF CommitBatch
  <2>3. setup' = setup
    BY <2>2 DEF TryFails
  <2>4. /\ table' \subseteq Rows
        /\ \A k \in Keys : Loaded(k) => Loaded(k)'
        /\ Here(l) /\ sql[l] = Statement => \A k \in sent[l] : Loaded(k)'
    <3>1. CASE Here(l)
      BY <1>1, <1>2, <2>1, <2>3, <3>1, LoadedFacts
    <3>2. CASE ~Here(l)
      BY <1>1, <2>1, <2>3, <3>2 DEF TypeOK, Loaded
    <3> QED
      BY <3>1, <3>2
  <2>5. CASE TryFails(l, TRUE)
    BY <1>1, <2>4, <2>5, FailStep
  <2>6. CASE /\ pc' = [pc EXCEPT ![l] = IF Remaining(l) = {} THEN "success" ELSE @]
             /\ done' = [done EXCEPT ![l] = @ \cup sent[l]]
             /\ sent' = [sent EXCEPT ![l] = {}]
             /\ UNCHANGED <<setup, try_number, engine_kwargs, session, sql, hit>>
    <3>1. /\ pc'[l] = IF Remaining(l) = {} THEN "success" ELSE "write"
          /\ done'[l] = done[l] \cup sent[l]
      BY <1>1, <2>6 DEF TypeOK
    <3>2. pc' \in [Loads -> Points]
      BY <1>1, <2>6 DEF TypeOK, Points
    <3>3. done' \in [Loads -> SUBSET Keys] /\ sent' \in [Loads -> SUBSET Keys]
      BY <1>1, <1>2, <2>6 DEF TypeOK
    <3>4. TypeOK'
      BY <1>1, <2>4, <2>6, <3>2, <3>3 DEF TypeOK
    <3>5. \A m \in Loads \ {l} : Same(m)
      BY <1>1, <2>6 DEF TypeOK, Same
    <3>6. Statement' = Statement /\ Possible' = Possible
      BY <2>3, SameStatement
    <3>7. SqlInv(l)' /\ PlaceInv(l)'
      BY <1>1, <2>6, <3>1, <3>6 DEF LoadInv, SqlInv, PlaceInv, Opened, Clean, Configured, Here
    <3>8. IsolationInv(l)'
      BY <1>1, <2>6 DEF LoadInv, IsolationInv, Clean, Separate
    <3>9. DoneInv(l)'
      <4>1. Clean(l)' /\ Configured' =>
              Clean(l) /\ Configured /\ Here(l) /\ sql[l] = Statement
        BY <1>1, <2>6 DEF Clean, Configured, LoadInv, PlaceInv, SqlInv, Opened
      <4>2. Clean(l)' /\ Configured' => \A k \in done'[l] : Loaded(k)'
        BY <1>1, <1>2, <2>4, <3>1, <4>1 DEF LoadInv, DoneInv
      <4>3. Remaining(l) = {} => done'[l] = Keys
        BY <1>2, <3>1 DEF Remaining
      <4> QED
        BY <3>1, <4>2, <4>3 DEF DoneInv
    <3>10. HitInv(l)'
      BY <1>1, <2>6, <3>1
         DEF LoadInv, HitInv, Accepted, SourceAccepted, TargetAccepted, Asked, Configured, IndexFits
    <3> QED
      BY <2>3, <2>4, <3>4, <3>5, <3>7, <3>8, <3>9, <3>10, OneLoad DEF LoadInv
  <2> QED
    BY <2>2, <2>5, <2>6
<1> QED
  BY <1>3, <1>4

LEMMA FaultStep == ASSUME IInv, NEW l \in Loads, Fault(l) PROVE IInv'
<1>1. TypeOK /\ TryFails(l, TRUE) /\ UNCHANGED <<setup, table>>
  BY DEF IInv, Fault, TryFails
<1>2. table' \subseteq Rows /\ \A k \in Keys : Loaded(k) => Loaded(k)'
  BY <1>1 DEF TypeOK, Loaded
<1> QED
  BY <1>1, <1>2, FailStep DEF Fault

LEMMA InvNext == IInv /\ [Next]_vars => IInv'
<1> SUFFICES ASSUME IInv, [Next]_vars PROVE IInv'
  OBVIOUS
<1>1. ASSUME NEW l \in Loads, OpenSource(l) PROVE IInv'
  BY <1>1, OpenSourceStep
<1>2. ASSUME NEW l \in Loads, OpenTarget(l) PROVE IInv'
  BY <1>2, OpenTargetStep
<1>3. ASSUME NEW l \in Loads, Describe(l) PROVE IInv'
  BY <1>3, DescribeStep
<1>4. ASSUME NEW l \in Loads, ExecuteRow(l) PROVE IInv'
  BY <1>4, ExecuteRowStep
<1>5. ASSUME NEW l \in Loads, CommitBatch(l) PROVE IInv'
  BY <1>5, CommitBatchStep
<1>6. ASSUME NEW l \in Loads, Fault(l) PROVE IInv'
  BY <1>6, FaultStep
<1>7. CASE UNCHANGED vars
  <2>1. TypeOK' /\ setup' = setup /\ \A m \in Loads : Same(m)
    BY <1>7 DEF vars, IInv, TypeOK, Same
  <2>2. \A k \in Keys : Loaded(k) => Loaded(k)'
    BY <1>7 DEF vars, Loaded
  <2> QED
    BY <2>1, <2>2, OtherLoad DEF IInv
<1> QED
  BY <1>1, <1>2, <1>3, <1>4, <1>5, <1>6, <1>7 DEF Next

LEMMA Invariance == Spec => []IInv
  BY InvInit, InvNext, PTL DEF Spec

-----------------------------------------------------------------------------
(* The properties. *)

\* The state has its type: in particular every statement names columns that exist.
THEOREM TypeCorrect == Spec => []TypeOK
<1>1. IInv => TypeOK
  BY DEF IInv
<1> QED
  BY <1>1, Invariance, PTL

\* The hook and the dialect make a load that can be tried again: with connections they
\* accept and an index that fits, it fails only if every try of it met a fault.
THEOREM Retriable == Spec => []UpsertIsRetriable
<1>1. IInv => UpsertIsRetriable
  <2> SUFFICES ASSUME IInv, SourceAccepted /\ TargetAccepted /\ Configured /\ IndexFits,
                      NEW l \in Loads, pc[l] = "failed"
               PROVE  hit[l] = 1 .. MaxTries
    BY DEF UpsertIsRetriable
  <2>1. /\ try_number[l] = MaxTries /\ MaxTries \in hit[l]
        /\ \A n \in 1 .. MaxTries : n < try_number[l] => n \in hit[l]
        /\ hit[l] \subseteq 1 .. MaxTries
    BY DEF IInv, TypeOK, LoadInv, HitInv, Accepted
  <2>2. MaxTries \in Nat
    BY LoadAssumption DEF LoadAssumption
  <2>3. \A n \in 1 .. MaxTries : n < MaxTries \/ n = MaxTries
    BY <2>2
  <2> QED
    BY <2>1, <2>3
<1> QED
  BY <1>1, Invariance, PTL

\* A load that reports success has put its records where its connection says.
THEOREM Success == Spec => []SuccessMeansLoaded
<1>1. IInv => SuccessMeansLoaded
  BY DEF IInv, LoadInv, DoneInv, SuccessMeansLoaded, Clean
<1> QED
  BY <1>1, Invariance, PTL

\* A session has the isolation level that its own connection asks for.
THEOREM Isolation == Spec => []IsolationAsConfigured
<1>1. IInv => IsolationAsConfigured
  BY DEF IInv, LoadInv, IsolationInv, IsolationAsConfigured, Clean, Separate
<1> QED
  BY <1>1, Invariance, PTL

\* No load removes a row of the table or changes a column it was not told to load.
THEOREM Untouched == Spec => UntouchedColumns
<1> DEFINE Kept == \A row \in table : \E new \in table' :
                     /\ new.rowid = row.rowid /\ new.key = row.key
                     /\ setup.fields = "key" => new.value = row.value
                     /\ setup.fields # "discovered" => new.note = row.note
<1>1. ASSUME IInv, Next PROVE Kept
  <2> SUFFICES ASSUME table' # table PROVE Kept
    OBVIOUS
  <2>1. PICK l \in Loads : CommitBatch(l)
    BY <1>1 DEF Next, OpenSource, OpenTarget, Describe, ExecuteRow, Fault
  <2>2. table' = Written(l, sent[l]) /\ pc[l] = "write"
    BY <2>1 DEF CommitBatch
  <2>3. TypeOK /\ sql[l] \in Possible /\ sent[l] \subseteq Keys /\ setup \in Setups
    BY <1>1, <2>2 DEF IInv, LoadInv, SqlInv, TypeOK
  <2>4. /\ setup.fields = "key" => "value" \notin sql[l].update
        /\ setup.fields # "discovered" => "note" \notin sql[l].update
    BY <2>3, PossibleFacts, FieldFacts
  <2>5. ASSUME NEW row \in table
        PROVE  \E new \in table' :
                 /\ new.rowid = row.rowid /\ new.key = row.key
                 /\ setup.fields = "key" => new.value = row.value
                 /\ setup.fields # "discovered" => new.note = row.note
    <3>1. row \in table' \/ Updated(row, l) \in table'
      BY <2>2, <2>3, WrittenFacts
    <3> QED
      BY <2>3, <2>4, <3>1, UpdateFacts
  <2> QED
    BY <2>5
<1>2. IInv /\ [Next]_vars => [Kept]_vars
  BY <1>1
<1> QED
  BY <1>2, Invariance, PTL DEF Spec, UntouchedColumns

=============================================================================
