---------------------------- MODULE ExampleDags ----------------------------
(***************************************************************************)
(* The two DAGs of src/examples/dags, several runs of them at once on one  *)
(* CockroachDB cluster: cockroachdb_demo, whose runs create, fill, read    *)
(* and drop the same table, and cockroachdb_health_check, which fails when *)
(* a node is not live.                                                     *)
(*                                                                         *)
(* Airflow starts a task when its upstream tasks have succeeded and starts *)
(* it again, up to the retries of its DAG, when it fails. A try runs its   *)
(* callable in one transaction: it returns, it raises, or it is hit by a   *)
(* fault (a dead worker, a dead node) before or after the commit.          *)
(***************************************************************************)
EXTENDS Naturals, FiniteSets

CONSTANTS Runs, Nodes,
          Retries,      \* [Dags -> "retries" of the default_args]
          Mixes,        \* which runs are of which DAG
          MaxChanges    \* bound: how often a node stops or comes back

Dags == {"demo", "health"}

ASSUME DagAssumption ==
    /\ IsFiniteSet(Nodes) /\ Nodes # {}
    /\ Retries \in [Dags -> Nat]
    /\ Mixes \subseteq [Runs -> Dags]
    /\ MaxChanges \in Nat

VARIABLES
    dag,          \* [Runs -> Dags]
    state,        \* [Runs -> [Tasks -> States]], the task instances
    try_number,   \* [Runs -> [Tasks -> Nat]]
    created,      \* whether the table airflow_poc_demo exists
    rows,         \* its rows: <<run, try>> for all the rows a try of insert_data adds
    results,      \* [Runs -> the rows that query_data of the run has counted]
    is_live,      \* the nodes that crdb_internal.gossip_nodes calls live
    changes,
    unanswered,   \* history: the tries of insert_data that failed after their commit
    raised,       \* history: <<run, task>> of callables that raised by themselves
    disturbed,    \* history: the runs under which another run has dropped the table
    down          \* history: [Runs -> the nodes down since before check_node_status]

dagVars == <<dag, state, try_number>>
tableVars == <<created, rows, results>>
nodeVars == <<is_live, changes, down>>
history == <<unanswered, raised, disturbed>>
vars == <<dag, state, try_number, created, rows, results, is_live, changes,
          unanswered, raised, disturbed, down>>

DemoTasks == {"create_table", "insert_data", "query_data", "cleanup"}
HealthTasks == {"check_cluster_version", "check_node_status", "check_database_sizes"}
Tasks == DemoTasks \cup HealthTasks
TasksOf(r) == IF dag[r] = "demo" THEN DemoTasks ELSE HealthTasks
States == {"none", "running", "up_for_retry", "success", "failed", "upstream_failed"}
Final == {"success", "failed", "upstream_failed"}

\* Mutants of Upstream: cleanup does not wait for query_data; query_data not for insert_data.
UpstreamEarlyCleanup(t) ==
    CASE t \in {"insert_data", "cleanup"} -> {"create_table"}
      [] t = "query_data"                 -> {"insert_data"}
      [] OTHER                            -> {}
UpstreamEarlyQuery(t) ==
    CASE t \in {"insert_data", "query_data"} -> {"create_table"}
      [] t = "cleanup"                       -> {"insert_data", "query_data"}
      [] OTHER                               -> {}

\* t1 >> t2 >> t3 >> t4, and [t1, t2, t3].
Upstream(t) ==
    CASE t = "insert_data" -> {"create_table"}
      [] t = "query_data"  -> {"insert_data"}
      [] t = "cleanup"     -> {"query_data"}
      [] OTHER             -> {}

Tries(r) == Retries[dag[r]] + 1
Batches == Runs \X (1 .. Retries["demo"] + 1)

TypeOK ==
    /\ dag \in Mixes
    /\ state \in [Runs -> [Tasks -> States]]
    /\ try_number \in [Runs -> [Tasks -> Nat]]
    /\ \A r \in Runs, t \in Tasks : try_number[r][t] <= Tries(r)
    /\ created \in BOOLEAN
    /\ rows \subseteq Batches
    /\ results \in [Runs -> SUBSET Batches]
    /\ is_live \subseteq Nodes
    /\ changes \in 0 .. MaxChanges
    /\ unanswered \subseteq Batches
    /\ raised \subseteq Runs \X Tasks
    /\ disturbed \subseteq Runs
    /\ down \in [Runs -> SUBSET Nodes]

Init ==
    /\ dag \in Mixes
    /\ state = [r \in Runs |-> [t \in Tasks |-> "none"]]
    /\ try_number = [r \in Runs |-> [t \in Tasks |-> 0]]
    /\ created = FALSE /\ rows = {}
    /\ results = [r \in Runs |-> {}]
    /\ is_live = Nodes /\ changes = 0
    /\ unanswered = {} /\ raised = {} /\ disturbed = {}
    /\ down = [r \in Runs |-> {}]

-----------------------------------------------------------------------------
(* Airflow. *)

Start(r, t) ==
    /\ t \in TasksOf(r)
    /\ \/ state[r][t] = "none" /\ \A u \in Upstream(t) : state[r][u] = "success"
       \/ state[r][t] = "up_for_retry"
    /\ state' = [state EXCEPT ![r][t] = "running"]
    /\ try_number' = [try_number EXCEPT ![r][t] = @ + 1]
    /\ UNCHANGED <<dag, tableVars, nodeVars, history>>

UpstreamFails(r, t) ==
    /\ t \in TasksOf(r)
    /\ state[r][t] = "none"
    /\ \E u \in Upstream(t) : state[r][u] \in {"failed", "upstream_failed"}
    /\ state' = [state EXCEPT ![r][t] = "upstream_failed"]
    /\ UNCHANGED <<dag, try_number, tableVars, nodeVars, history>>

\* Mutant of AfterFailure: one try too many.
AfterFailureOneMore(r, t) == IF try_number[r][t] <= Tries(r) THEN "up_for_retry" ELSE "failed"

AfterFailure(r, t) == IF try_number[r][t] < Tries(r) THEN "up_for_retry" ELSE "failed"

Returns(r, t) ==
    /\ state' = [state EXCEPT ![r][t] = "success"]
    /\ UNCHANGED <<dag, try_number, raised>>

Fails(r, t) ==
    /\ state' = [state EXCEPT ![r][t] = AfterFailure(r, t)]
    /\ UNCHANGED <<dag, try_number, raised>>

Raises(r, t) ==
    /\ state' = [state EXCEPT ![r][t] = AfterFailure(r, t)]
    /\ raised' = raised \cup {<<r, t>>}
    /\ UNCHANGED <<dag, try_number>>

Fault(r, t) ==
    /\ state[r][t] = "running"
    /\ Fails(r, t)
    /\ UNCHANGED <<tableVars, nodeVars, unanswered, disturbed>>

-----------------------------------------------------------------------------
(* The callables. *)

\* Reading and writing tables takes a majority of the nodes, connecting takes one.
Available == 2 * Cardinality(is_live) > Cardinality(Nodes)
Connectable == is_live # {}

\* Mutant of create_table: no IF NOT EXISTS.
create_tablePlain(r) ==
    /\ state[r]["create_table"] = "running"
    /\ Available
    /\ created' = TRUE
    /\ IF created THEN Raises(r, "create_table")
       ELSE Returns(r, "create_table") \/ Fails(r, "create_table")
    /\ UNCHANGED <<rows, results, nodeVars, unanswered, disturbed>>

create_table(r) ==
    /\ state[r]["create_table"] = "running"
    /\ Available
    /\ created' = TRUE
    /\ Returns(r, "create_table") \/ Fails(r, "create_table")
    /\ UNCHANGED <<rows, results, nodeVars, unanswered, disturbed>>

insert_data(r) ==
    LET batch == <<r, try_number[r]["insert_data"]>>
    IN  /\ state[r]["insert_data"] = "running"
        /\ Available
        /\ IF created
           THEN /\ rows' = rows \cup {batch}
                /\ \/ Returns(r, "insert_data") /\ UNCHANGED unanswered
                   \/ Fails(r, "insert_data") /\ unanswered' = unanswered \cup {batch}
           ELSE Raises(r, "insert_data") /\ UNCHANGED <<rows, unanswered>>
        /\ UNCHANGED <<created, results, nodeVars, disturbed>>

query_data(r) ==
    /\ state[r]["query_data"] = "running"
    /\ Available
    /\ IF created
       THEN results' = [results EXCEPT ![r] = rows] /\ Returns(r, "query_data")
       ELSE Raises(r, "query_data") /\ UNCHANGED results
    /\ UNCHANGED <<created, rows, nodeVars, unanswered, disturbed>>

\* The runs that have begun with the table and have not come to their own cleanup.
Using(r) == state[r]["create_table"] # "none" /\ state[r]["query_data"] \notin Final

cleanup(r) ==
    /\ state[r]["cleanup"] = "running"
    /\ Available
    /\ created' = FALSE
    /\ rows' = {}
    /\ disturbed' = disturbed \cup {q \in Runs \ {r} : Using(q)}
    /\ Returns(r, "cleanup") \/ Fails(r, "cleanup")
    /\ UNCHANGED <<results, nodeVars, unanswered>>

\* check_cluster_version and check_database_sizes read and report.
check_cluster_version(r) ==
    /\ state[r]["check_cluster_version"] = "running"
    /\ Connectable
    /\ Returns(r, "check_cluster_version")
    /\ UNCHANGED <<tableVars, nodeVars, unanswered, disturbed>>

check_database_sizes(r) ==
    /\ state[r]["check_database_sizes"] = "running"
    /\ Available
    /\ Returns(r, "check_database_sizes")
    /\ UNCHANGED <<tableVars, nodeVars, unanswered, disturbed>>

\* Mutant of AllLive: an outage is one of a majority.
AllLiveMajority == Available

\* live_count = total_count
AllLive == Cardinality(is_live) = Cardinality(Nodes)

check_node_status(r) ==
    /\ state[r]["check_node_status"] = "running"
    /\ Connectable
    /\ IF AllLive THEN Returns(r, "check_node_status") ELSE Raises(r, "check_node_status")
    /\ UNCHANGED <<tableVars, nodeVars, unanswered, disturbed>>

-----------------------------------------------------------------------------
(* The cluster. *)

NodeStops(n) ==
    /\ changes < MaxChanges
    /\ n \in is_live
    /\ is_live' = is_live \ {n}
    /\ changes' = changes + 1
    /\ down' = [r \in Runs |-> IF state[r]["check_node_status"] = "none"
                               THEN down[r] \cup {n} ELSE down[r]]
    /\ UNCHANGED <<dagVars, tableVars, history>>

NodeStarts(n) ==
    /\ changes < MaxChanges
    /\ n \in Nodes \ is_live
    /\ is_live' = is_live \cup {n}
    /\ changes' = changes + 1
    /\ down' = [r \in Runs |-> down[r] \ {n}]
    /\ UNCHANGED <<dagVars, tableVars, history>>

Callable(r) ==
    \/ create_table(r)
    \/ insert_data(r)
    \/ query_data(r)
    \/ cleanup(r)
    \/ check_cluster_version(r)
    \/ check_node_status(r)
    \/ check_database_sizes(r)

Next ==
    \/ \E r \in Runs :
          \/ Callable(r)
          \/ \E t \in Tasks : Start(r, t) \/ UpstreamFails(r, t) \/ Fault(r, t)
    \/ \E n \in Nodes : NodeStops(n) \/ NodeStarts(n)

Spec == Init /\ [][Next]_vars

-----------------------------------------------------------------------------
(* Properties. *)

\* A run that succeeds leaves none of its rows in the table, whatever was retried in it
\* and whatever other runs did: what a later run counts is not what it has left.
SuccessCleansUp ==
    \A r \in Runs : state[r]["cleanup"] = "success" => \A b \in rows : b[1] # r

\* query_data of a run counts the rows of the run once, and once more for each try of
\* insert_data that was repeated after its commit, unless another run dropped the table.
QueryCountsInserts ==
    \A r \in Runs \ disturbed :
        state[r]["query_data"] = "success" =>
            {b \in results[r] : b[1] = r}
                = {b \in unanswered : b[1] = r} \cup {<<r, try_number[r]["insert_data"]>>}

\* No callable of the demo raises by itself when it is retried or when runs overlap,
\* but for insert_data and query_data of a run whose table another run has dropped.
RaisesWithCause ==
    \A x \in raised :
        \/ x[2] \in {"insert_data", "query_data"} /\ x[1] \in disturbed
        \/ x[2] = "check_node_status"

\* A node that is down from before the first try of check_node_status to the last is
\* reported: the task does not succeed.
OutageReported ==
    \A r \in Runs : state[r]["check_node_status"] = "success" => down[r] = {}

\* Steps that a task instance has left at most: two for every try it may still have.
StepsLeft(r, t) ==
    CASE state[r][t] = "none"         -> 2 * Tries(r)
      [] state[r][t] = "up_for_retry" -> 2 * (Tries(r) - try_number[r][t])
      [] state[r][t] = "running"      -> 2 * (Tries(r) - try_number[r][t]) + 1
      [] OTHER                        -> 0

\* The task instance t of r comes closer to its end, and all others stay where they are.
Nearer(r, t) ==
    /\ state'[r][t] # state[r][t]
    /\ StepsLeft(r, t)' \in 0 .. StepsLeft(r, t) - 1
    /\ state' = [state EXCEPT ![r][t] = state'[r][t]]
    /\ try_number' = [try_number EXCEPT ![r][t] = try_number'[r][t]]

Advance ==
    \/ \E r \in Runs, t \in Tasks : Nearer(r, t)
    \/ UNCHANGED dagVars /\ changes' \in changes + 1 .. MaxChanges

\* Whatever fails, is retried or overlaps, the runs do not go on for ever: but for nodes that
\* stop or come back, every step brings one task instance closer to its end, none further
\* from it, and a task instance that is over stays so.
TasksAdvance == [][Advance]_vars

=============================================================================
