-------------------------- MODULE CockroachDBHook --------------------------
(***************************************************************************)
(* CockroachDBHook (src/provider/hooks/cockroachdb.py): from an Airflow    *)
(* connection to a session with a database, by psycopg2 or by a SQLAlchemy *)
(* engine.                                                                 *)
(*                                                                         *)
(* A connection is a record of host, schema, password and the keys of its  *)
(* Extra field. Port and user are defaulted as the host is and go where it *)
(* goes. Of the values in Extra only the isolation level is told apart.    *)
(***************************************************************************)

CONSTANT None    \* Python's None and what the code treats alike

EXTRA_KEYS == {"sslmode", "sslrootcert", "sslcert", "sslkey", "cluster", "options",
               "isolation_level", "application_name"}

UriKeys == EXTRA_KEYS \ {"isolation_level"}

\* What libpq knows of these: the others make psycopg2.connect raise.
LibpqKeywords == EXTRA_KEYS \ {"cluster", "isolation_level"}

IsolationLevels == {"default", "READ COMMITTED"}

\* `x or default`
Or(x, default) == IF x # None THEN x ELSE default

\* Mutant of GetConnConfig: the schema of the connection before the hook's own database.
GetConnConfigSchemaFirst(database, conn) ==
    IF conn = None
    THEN [host |-> "localhost", database |-> Or(database, "defaultdb"), password |-> None,
          extra_params |-> {}]
    ELSE [host |-> Or(conn.host, "localhost"),
          database |-> Or(conn.schema, Or(database, "defaultdb")),
          password |-> conn.password,
          extra_params |-> conn.extra \cap EXTRA_KEYS]

\* _get_conn_config. The connection is None if get_connection raised, for any reason.
GetConnConfig(database, conn) ==
    IF conn = None
    THEN [host |-> "localhost", database |-> Or(database, "defaultdb"), password |-> None,
          extra_params |-> {}]
    ELSE [host |-> Or(conn.host, "localhost"),
          database |-> Or(database, Or(conn.schema, "defaultdb")),
          password |-> conn.password,
          extra_params |-> conn.extra \cap EXTRA_KEYS]

\* _build_connection_uri. The password is put between user and host as it is, and one
\* with a character that means something in a URI makes it name another host.
BuildConnectionUri(config) ==
    [host |-> IF config.password = "reserved" THEN None ELSE config.host,
     database |-> config.database,
     params |-> config.extra_params \cap UriKeys]

\* get_sqlalchemy_engine: what engine_kwargs says of the isolation level afterwards.
EngineIsolation(config, before) ==
    IF "isolation_level" \in config.extra_params THEN "READ COMMITTED" ELSE before

\* Mutant of CallerKwargs: the engine_kwargs of a caller that passes none outlive the call.
CallerKwargsMutableDefault(passed, before, after) == after

\* `engine_kwargs or {}`: what a caller passes is changed in place, unless it is empty.
CallerKwargs(passed, before, after) == IF passed THEN after ELSE before

\* The session that psycopg2 gives, or None.
GetConn(config) ==
    IF config.extra_params \subseteq LibpqKeywords
    THEN [host |-> config.host, database |-> config.database, isolation |-> "default"]
    ELSE None

\* The session of an engine, which passes the parameters of the URI to psycopg2, or None.
EngineConnect(config, isolation) ==
    LET uri == BuildConnectionUri(config)
    IN  IF uri.params \subseteq LibpqKeywords /\ uri.host # None
        THEN [host |-> uri.host, database |-> uri.database, isolation |-> isolation]
        ELSE None

=============================================================================
