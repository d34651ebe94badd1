------------------------- MODULE ExampleDagsProofs -------------------------
(***************************************************************************)
(* Proofs about ExampleDags, for any runs, retries, nodes and node changes *)
(***************************************************************************)
EXTENDS ExampleDags, FiniteSetTheorems, TLAPS

Begun == {"running", "up_for_retry", "success", "failed"}

\* What Airflow guarantees of a task instance.
LifeInv(r, t) ==
    /\ t \notin TasksOf(r) => state[r][t] = "none"
    /\ state[r][t] = "none" => try_number[r][t] = 0
    /\ state[r][t] = "upstream_failed" => try_number[r][t] = 0
    /\ state[r][t] = "up_for_retry" => try_number[r][t] < Tries(r)
    /\ state[r][t] = "running" => try_number[r][t] >= 1
    /\ state[r][t] \in Begun => \A u \in Upstream(t) : state[r][u] = "success"
    /\ state[r][t] = "upstream_failed" =>
         \E u \in Upstream(t) : state[r][u] \in {"failed", "upstream_failed"}

Life == \A r \in Runs, t \in Tasks : LifeInv(r, t)

Own(S, r) == {b \in S : b[1] = r}
Last(r) == IF state[r]["insert_data"] = "success" THEN {<<r, try_number[r]["insert_data"]>>} ELSE {}

\* As long as a run has not read its table, and no other run has dropped it, the table is
\* there and has the rows of the run.
TableInv(r) ==
    /\ state[r]["cleanup"] = "success" => Own(rows, r) = {}
    /\ r \notin disturbed /\ state[r]["query_data"] \notin Final =>
         /\ state[r]["create_table"] = "success" => created
         /\ Own(rows, r) = Own(unanswered, r) \cup Last(r)
    /\ r \notin disturbed /\ state[r]["query_data"] = "success" =>
         Own(results[r], r) = Own(unanswered, r) \cup Last(r)

KnownTries == \A b \in rows \cup unanswered : b[2] <= try_number[b[1]]["insert_data"]

DownInv ==
    /\ \A r \in Runs : down[r] \cap is_live = {}
    /\ OutageReported

IInv ==
    /\ TypeOK
    /\ Life
    /\ \A r \in Runs : TableInv(r)
    /\ KnownTries
    /\ RaisesWithCause
    /\ DownInv

-----------------------------------------------------------------------------
(* Task instances. *)

LEMMA TaskFacts ==
    /\ \A t \in Tasks : Upstream(t) \subseteq Tasks /\ t \notin Upstream(t)
    /\ Upstream("insert_data") = {"create_table"} /\ Upstream("query_data") = {"insert_data"}
    /\ Upstream("cleanup") = {"query_data"}
    /\ DemoTasks \subseteq Tasks /\ HealthTasks \subseteq Tasks
    /\ DemoTasks \cap HealthTasks = {}
  BY DEF Upstream, Tasks, DemoTasks, HealthTasks

LEMMA RetryFacts ==
    ASSUME TypeOK, NEW r \in Runs
    PROVE  /\ dag[r] \in Dags /\ Retries["demo"] \in Nat
           /\ Tries(r) \in Nat /\ Tries(r) >= 1
           /\ "insert_data" \in TasksOf(r) => Tries(r) = Retries["demo"] + 1
<1>1. dag \in [Runs -> Dags] /\ Retries \in [Dags -> Nat]
  BY DagAssumption DEF TypeOK, DagAssumption
<1>2. dag[r] \in Dags /\ Retries[dag[r]] \in Nat /\ Retries["demo"] \in Nat
  BY <1>1 DEF Dags
<1>3. "insert_data" \in TasksOf(r) => dag[r] = "demo"
  BY DEF TasksOf, HealthTasks
<1> QED
  BY <1>2, <1>3 DEF Tries

\* The type of the rest when a task instance changes its state.
LEMMA TypeStep ==
    ASSUME TypeOK, dag' = dag,
           state' \in [Runs -> [Tasks -> States]], try_number' \in [Runs -> [Tasks -> Nat]],
           \A q \in Runs, v \in Tasks : try_number'[q][v] <= Tries(q)',
           created' \in BOOLEAN, rows' \subseteq Batches,
           results' \in [Runs -> SUBSET Batches], unanswered' \subseteq Batches,
           raised' \subseteq Runs \X Tasks, disturbed' \subseteq Runs,
           UNCHANGED nodeVars
    PROVE  TypeOK'
<1>1. Batches' = Batches
  BY DEF Batches
<1>2. is_live' = is_live /\ changes' = changes /\ down' = down
  BY DEF nodeVars
<1>3. dag' \in Mixes /\ is_live' \subseteq Nodes /\ changes' \in 0 .. MaxChanges
      /\ down' \in [Runs -> SUBSET Nodes]
  BY <1>2 DEF TypeOK
<1> QED
  BY <1>1, <1>3 DEF TypeOK

\* The task t of r, which has not ended, goes to the state s.
Goes(r, t, s) ==
    /\ t \in TasksOf(r) /\ state[r][t] \notin Final
    /\ dag' = dag /\ state' = [state EXCEPT ![r][t] = s]
    /\ try_number' \in [Runs -> [Tasks -> Nat]]
    /\ \A q \in Runs, v \in Tasks :
         <<q, v>> # <<r, t>> => try_number'[q][v] = try_number[q][v]
    /\ try_number'[r][t] <= Tries(r)
    /\ s # "none"
    /\ s = "upstream_failed" => try_number'[r][t] = 0
    /\ s = "up_for_retry" => try_number'[r][t] < Tries(r)
    /\ s = "running" => try_number'[r][t] >= 1
    /\ s \in Begun => \A u \in Upstream(t) : state[r][u] = "success"
    /\ s = "upstream_failed" =>
         \E u \in Upstream(t) : state[r][u] \in {"failed", "upstream_failed"}

\* What that makes of the task instances.
Gone(r, t, s) ==
    /\ state' \in [Runs -> [Tasks -> States]]
    /\ \A q \in Runs, v \in Tasks : try_number'[q][v] <= Tries(q)'
    /\ Life'
    /\ state'[r][t] = s
    /\ \A q \in Runs, v \in Tasks : <<q, v>> # <<r, t>> => state'[q][v] = state[q][v]

LEMMA LifeStep ==
    ASSUME TypeOK, Life, NEW r \in Runs, NEW t \in Tasks, NEW s \in States, Goes(r, t, s)
    PROVE  Gone(r, t, s)
<1> USE DEF Goes
<1>1. /\ state' \in [Runs -> [Tasks -> States]]
      /\ state'[r][t] = s
      /\ \A q \in Runs, v \in Tasks : <<q, v>> # <<r, t>> => state'[q][v] = state[q][v]
  BY DEF TypeOK
<1>2. \A q \in Runs : Tries(q)' = Tries(q) /\ TasksOf(q)' = TasksOf(q)
  BY DEF Tries, TasksOf
<1>3. \A q \in Runs, v \in Tasks : try_number'[q][v] <= Tries(q)'
  BY <1>2 DEF TypeOK
<1>4. ASSUME NEW q \in Runs, NEW v \in Tasks PROVE LifeInv(q, v)'
  <2>1. LifeInv(q, v)
    BY DEF Life
  <2>2. CASE <<q, v>> = <<r, t>>
    <3>1. q = r /\ v = t
      BY <2>2
    <3>2. \A u \in Upstream(t) : state'[r][u] = state[r][u]
      BY <1>1, TaskFacts
    <3> QED
      BY <1>1, <1>2, <3>1, <3>2 DEF LifeInv
  <2>3. CASE <<q, v>> # <<r, t>>
    <3>1. state'[q][v] = state[q][v] /\ try_number'[q][v] = try_number[q][v]
      BY <1>1, <2>3
    <3>2. \A u \in Upstream(v) : \/ state'[q][u] = state[q][u]
                                 \/ state[q][u] \notin Final
      BY <1>1, TaskFacts
    <3>3. state'[q][v] \in Begun => \A u \in Upstream(v) : state'[q][u] = "success"
      BY <2>1, <3>1, <3>2 DEF LifeInv, Final
    <3>4. state'[q][v] = "upstream_failed" =>
             \E u \in Upstream(v) : state'[q][u] \in {"failed", "upstream_failed"}
      BY <2>1, <3>1, <3>2 DEF LifeInv, Final
    <3> QED
      BY <1>2, <2>1, <3>1, <3>3, <3>4 DEF LifeInv
  <2> QED
    BY <2>2, <2>3
<1> QED
  BY <1>1, <1>3, <1>4 DEF Life, Gone

\* A try that ends.
LEMMA EndStep ==
    ASSUME TypeOK, Life, NEW r \in Runs, NEW t \in Tasks, state[r][t] = "running",
           dag' = dag, try_number' = try_number,
           \/ state' = [state EXCEPT ![r][t] = "success"]
           \/ state' = [state EXCEPT ![r][t] = AfterFailure(r, t)]
    PROVE  /\ state' \in [Runs -> [Tasks -> States]]
           /\ \A q \in Runs, v \in Tasks : try_number'[q][v] <= Tries(q)'
           /\ Life'
           /\ state'[r][t] \in {"success", "up_for_retry", "failed"}
           /\ state' = [state EXCEPT ![r][t] = "success"] => state'[r][t] = "success"
           /\ state' = [state EXCEPT ![r][t] = AfterFailure(r, t)] =>
                state'[r][t] \in {"up_for_retry", "failed"}
           /\ \A q \in Runs, v \in Tasks : <<q, v>> # <<r, t>> => state'[q][v] = state[q][v]
<1>1. PICK s \in {"success", AfterFailure(r, t)} : state' = [state EXCEPT ![r][t] = s]
  OBVIOUS
<1>2. s \in {"success", "up_for_retry", "failed"}
  BY DEF AfterFailure
<1>3. LifeInv(r, t)
  BY DEF Life
<1>4. t \in TasksOf(r) /\ \A u \in Upstream(t) : state[r][u] = "success"
  BY <1>3 DEF LifeInv, Begun
<1>5. try_number[r][t] \in Nat /\ try_number[r][t] <= Tries(r) /\ Tries(r) \in Nat
  BY RetryFacts DEF TypeOK
<1>6. s = "up_for_retry" => try_number[r][t] < Tries(r)
  BY DEF AfterFailure
<1>7. s \in States /\ state[r][t] \notin Final /\ try_number' \in [Runs -> [Tasks -> Nat]]
  BY <1>2 DEF States, Final, TypeOK
<1>8. Gone(r, t, s)
  <2>1. Goes(r, t, s)
    BY <1>1, <1>2, <1>4, <1>5, <1>6, <1>7 DEF Goes
  <2> QED
    BY <1>7, <2>1, LifeStep
<1>9. /\ state' = [state EXCEPT ![r][t] = "success"] => state'[r][t] = "success"
      /\ state' = [state EXCEPT ![r][t] = AfterFailure(r, t)] =>
           state'[r][t] \in {"up_for_retry", "failed"}
  BY DEF TypeOK, AfterFailure
<1> QED
  BY <1>2, <1>8, <1>9 DEF Gone

-----------------------------------------------------------------------------
(* The table. *)

\* The order of the tasks of the demo, as far as the table depends on it.
LEMMA OrderFacts ==
    ASSUME Life, NEW r \in Runs
    PROVE  /\ state[r]["insert_data"] \in Begun => state[r]["create_table"] = "success"
           /\ state[r]["query_data"] \in Begun => state[r]["insert_data"] = "success"
           /\ state[r]["cleanup"] \in Begun => state[r]["query_data"] = "success"
           /\ state[r]["query_data"] = "upstream_failed" =>
                state[r]["insert_data"] \in {"failed", "upstream_failed"}
<1>1. /\ LifeInv(r, "insert_data") /\ LifeInv(r, "query_data") /\ LifeInv(r, "cleanup")
  BY TaskFacts DEF Life, DemoTasks
<1> QED
  BY <1>1, TaskFacts DEF LifeInv

LEMMA RunningDemo ==
    ASSUME TypeOK, Life, NEW r \in Runs, state[r]["insert_data"] = "running"
    PROVE  <<r, try_number[r]["insert_data"]>> \in Batches
<1>1. "insert_data" \in Tasks
  BY DEF Tasks, DemoTasks
<1>2. LifeInv(r, "insert_data")
  BY <1>1 DEF Life
<1>3. "insert_data" \in TasksOf(r) /\ try_number[r]["insert_data"] >= 1
  BY <1>2 DEF LifeInv
<1>4. /\ try_number[r]["insert_data"] \in Nat /\ Retries["demo"] \in Nat
      /\ try_number[r]["insert_data"] <= Retries["demo"] + 1
  BY <1>1, <1>3, RetryFacts DEF TypeOK
<1>5. try_number[r]["insert_data"] \in 1 .. Retries["demo"] + 1
  BY <1>3, <1>4
<1> DEFINE n == try_number[r]["insert_data"]
<1> HIDE DEF n
<1>6. n \in 1 .. Retries["demo"] + 1
  BY <1>5 DEF n
<1>7. <<r, n>> \in Batches
  BY <1>6 DEF Batches
<1> QED
  BY <1>7 DEF n

LEMMA BatchFacts ==
    \A b \in Batches : b[1] \in Runs /\ b[2] \in Int /\ b = <<b[1], b[2]>>
  BY DEF Batches

\* A step that neither touches the table nor ends a task that does.
LEMMA QuietStep ==
    ASSUME TypeOK, \A r \in Runs : TableInv(r), KnownTries,
           UNCHANGED <<tableVars, unanswered, disturbed>>,
           \A r \in Runs, t \in DemoTasks :
              /\ state'[r][t] = "success" <=> state[r][t] = "success"
              /\ state[r][t] \in Final => state'[r][t] \in Final
              /\ try_number[r][t] <= try_number'[r][t]
              /\ state[r][t] = "success" => try_number'[r][t] = try_number[r][t],
           try_number' \in [Runs -> [Tasks -> Nat]]
    PROVE  (\A r \in Runs : TableInv(r)') /\ KnownTries'
<1>1. "create_table" \in DemoTasks /\ "insert_data" \in DemoTasks
      /\ "query_data" \in DemoTasks /\ "cleanup" \in DemoTasks
  BY DEF DemoTasks
<1>2. ASSUME NEW r \in Runs PROVE TableInv(r)'
  <2>1. /\ rows' = rows /\ created' = created /\ results' = results
        /\ unanswered' = unanswered /\ disturbed' = disturbed
    BY DEF tableVars
  <2>2. Own(rows, r)' = Own(rows, r) /\ Own(unanswered, r)' = Own(unanswered, r)
        /\ Own(results[r], r)' = Own(results[r], r)
    BY <2>1 DEF Own
  <2>3. Last(r)' = Last(r)
    BY <1>1 DEF Last
  <2>4. TableInv(r)
    OBVIOUS
  <2> QED
    BY <1>1, <2>1, <2>2, <2>3, <2>4 DEF TableInv
<1>3. KnownTries'
  <2>1. rows' = rows /\ unanswered' = unanswered
    BY DEF tableVars
  <2>2. ASSUME NEW b \in rows \cup unanswered
        PROVE  b[2] <= try_number'[b[1]]["insert_data"]
    <3>1. b \in Batches
      BY DEF TypeOK
    <3>2. b[1] \in Runs /\ b[2] \in Int
      BY <3>1, BatchFacts
    <3>3. /\ try_number[b[1]]["insert_data"] \in Nat
          /\ try_number'[b[1]]["insert_data"] \in Nat
      BY <3>2, TaskFacts, <1>1 DEF TypeOK
    <3>4. b[2] <= try_number[b[1]]["insert_data"]
      BY DEF KnownTries
    <3>5. try_number[b[1]]["insert_data"] <= try_number'[b[1]]["insert_data"]
      BY <1>1, <3>2
    <3> DEFINE old == try_number[b[1]]["insert_data"]
               new == try_number'[b[1]]["insert_data"]
               n == b[2]
    <3>6. n \in Int /\ old \in Nat /\ new \in Nat /\ n <= old /\ old <= new
      BY <3>2, <3>3, <3>4, <3>5
    <3> HIDE DEF old, new, n
    <3>7. n <= new
      BY <3>6
    <3> QED
      BY <3>7 DEF n, new
  <2> QED
    BY <2>1, <2>2 DEF KnownTries
<1> QED
  BY <1>2, <1>3

\* The nodes are as they were, and check_node_status of no run has just succeeded.
LEMMA NodesQuiet ==
    ASSUME DownInv, UNCHANGED nodeVars,
           \A r \in Runs : state'[r]["check_node_status"] = "success" =>
                              state[r]["check_node_status"] = "success"
    PROVE  DownInv'
  BY DEF DownInv, OutageReported, nodeVars

-----------------------------------------------------------------------------
(* The steps. *)

LEMMA InvInit == Init => IInv
<1> SUFFICES ASSUME Init PROVE IInv
  OBVIOUS
<1>1. \A r \in Runs, t \in Tasks : state[r][t] = "none" /\ try_number[r][t] = 0
  BY DEF Init
<1>2. \A r \in Runs : dag[r] \in Dags /\ Tries(r) \in Nat
  <2>1. dag \in [Runs -> Dags] /\ Retries \in [Dags -> Nat]
    BY DagAssumption DEF Init, DagAssumption
  <2> QED
    BY <2>1 DEF Tries
<1>3. TypeOK
  <2>1. /\ state \in [Runs -> [Tasks -> States]]
        /\ try_number \in [Runs -> [Tasks -> Nat]]
    BY DEF Init, States
  <2>2. \A r \in Runs, t \in Tasks : try_number[r][t] <= Tries(r)
    BY <1>1, <1>2
  <2>3. dag \in Mixes /\ created \in BOOLEAN /\ rows \subseteq Batches
    BY DEF Init
  <2>4. /\ results \in [Runs -> SUBSET Batches] /\ unanswered \subseteq Batches
        /\ raised \subseteq Runs \X Tasks /\ disturbed \subseteq Runs
    BY DEF Init
  <2>5. /\ is_live \subseteq Nodes /\ changes \in 0 .. MaxChanges
        /\ down \in [Runs -> SUBSET Nodes]
    BY DagAssumption DEF Init, DagAssumption
  <2> QED
    BY <2>1, <2>2, <2>3, <2>4, <2>5 DEF TypeOK
<1>4. Life
  BY <1>1 DEF Life, LifeInv, Begun
<1>5. /\ {"create_table", "insert_data", "query_data", "cleanup", "check_node_status"}
           \subseteq Tasks
  BY DEF Tasks, DemoTasks, HealthTasks
<1>6. ASSUME NEW r \in Runs PROVE TableInv(r)
  <2>1. Own(rows, r) = {} /\ Own(unanswered, r) = {} /\ Last(r) = {}
    BY <1>1, <1>5 DEF Init, Own, Last
  <2> QED
    BY <1>1, <1>5, <2>1 DEF TableInv
<1>7. KnownTries /\ RaisesWithCause
  BY DEF Init, KnownTries, RaisesWithCause
<1>8. DownInv
  BY <1>1, <1>5 DEF Init, DownInv, OutageReported
<1> QED
  BY <1>3, <1>4, <1>6, <1>7, <1>8 DEF IInv

LEMMA StartStep == ASSUME IInv, NEW r \in Runs, NEW t \in Tasks, Start(r, t) PROVE IInv'
<1>1. TypeOK /\ Life /\ LifeInv(r, t) /\ t \in TasksOf(r)
  BY DEF IInv, Life, Start
<1>2. /\ state' = [state EXCEPT ![r][t] = "running"]
      /\ try_number' = [try_number EXCEPT ![r][t] = @ + 1]
      /\ state[r][t] \in {"none", "up_for_retry"}
      /\ UNCHANGED <<dag, tableVars, nodeVars, history>>
  BY DEF Start
<1>3. try_number[r][t] \in Nat /\ Tries(r) \in Nat /\ Tries(r) >= 1
  BY <1>1, RetryFacts DEF TypeOK
<1>4. try_number[r][t] < Tries(r)
  <2>1. state[r][t] = "none" => try_number[r][t] = 0
    BY <1>1 DEF LifeInv
  <2>2. state[r][t] = "up_for_retry" => try_number[r][t] < Tries(r)
    BY <1>1 DEF LifeInv
  <2> QED
    BY <1>2, <1>3, <2>1, <2>2
<1>5. /\ try_number' \in [Runs -> [Tasks -> Nat]]
      /\ try_number'[r][t] = try_number[r][t] + 1
      /\ \A q \in Runs, v \in Tasks :
           <<q, v>> # <<r, t>> => try_number'[q][v] = try_number[q][v]
  BY <1>1, <1>2 DEF TypeOK
<1>6. \A u \in Upstream(t) : state[r][u] = "success"
  BY <1>1 DEF Start, LifeInv, Begun
<1>7. "running" \in States /\ state[r][t] \notin Final
  BY <1>2 DEF States, Final
<1>8. try_number'[r][t] <= Tries(r) /\ try_number'[r][t] >= 1
  BY <1>3, <1>4, <1>5
<1>9. Gone(r, t, "running")
  <2>1. Goes(r, t, "running")
    BY <1>1, <1>2, <1>5, <1>6, <1>7, <1>8 DEF Goes
  <2> QED
    BY <1>1, <1>7, <2>1, LifeStep
<1>10. TypeOK'
  <2>1. /\ created' \in BOOLEAN /\ rows' \subseteq Batches
        /\ results' \in [Runs -> SUBSET Batches] /\ unanswered' \subseteq Batches
        /\ raised' \subseteq Runs \X Tasks /\ disturbed' \subseteq Runs
    BY <1>1, <1>2 DEF TypeOK, tableVars, history
  <2> QED
    BY <1>1, <1>2, <1>5, <1>9, <2>1, TypeStep DEF Gone
<1>11. ASSUME NEW q \in Runs, NEW v \in Tasks
       PROVE  /\ state'[q][v] = "success" <=> state[q][v] = "success"
              /\ state[q][v] \in Final => state'[q][v] \in Final
              /\ try_number[q][v] <= try_number'[q][v]
              /\ state[q][v] = "success" => try_number'[q][v] = try_number[q][v]
  <2>1. CASE q = r /\ v = t
    BY <1>2, <1>3, <1>5, <1>7, <1>9, <2>1 DEF Final, Gone
  <2>2. CASE ~(q = r /\ v = t)
    <3>1. try_number[q][v] \in Nat
      BY <1>1 DEF TypeOK
    <3> QED
      BY <1>5, <1>9, <2>2, <3>1 DEF Gone
  <2> QED
    BY <2>1, <2>2
<1>12. (\A q \in Runs : TableInv(q)') /\ KnownTries' /\ RaisesWithCause'
  <2>1. RaisesWithCause'
    BY <1>2 DEF IInv, RaisesWithCause, history
  <2> QED
    BY <1>1, <1>2, <1>5, <1>11, <2>1, TaskFacts, QuietStep DEF IInv, history
<1>13. DownInv'
  <2>1. "check_node_status" \in Tasks
    BY DEF Tasks, HealthTasks
  <2> QED
    BY <1>2, <1>11, <2>1, NodesQuiet DEF IInv
<1> QED
  BY <1>9, <1>10, <1>12, <1>13 DEF IInv, Gone

LEMMA UpstreamFailsStep ==
    ASSUME IInv, NEW r \in Runs, NEW t \in Tasks, UpstreamFails(r, t) PROVE IInv'
<1>1. TypeOK /\ Life /\ LifeInv(r, t) /\ t \in TasksOf(r)
  BY DEF IInv, Life, UpstreamFails
<1>2. /\ state' = [state EXCEPT ![r][t] = "upstream_failed"] /\ try_number' = try_number
      /\ state[r][t] = "none"
      /\ UNCHANGED <<dag, tableVars, nodeVars, history>>
  BY DEF UpstreamFails
<1>3. /\ try_number[r][t] = 0 /\ try_number' \in [Runs -> [Tasks -> Nat]]
      /\ try_number'[r][t] <= Tries(r)
  BY <1>1, <1>2, RetryFacts DEF LifeInv, TypeOK
<1>4. "upstream_failed" \in States /\ "none" \notin Final
  BY DEF States, Final
<1>5. Gone(r, t, "upstream_failed")
  <2>1. Goes(r, t, "upstream_failed")
    BY <1>1, <1>2, <1>3, <1>4 DEF Goes, UpstreamFails, Begun
  <2> QED
    BY <1>1, <1>4, <2>1, LifeStep
<1>6. TypeOK'
  <2>1. /\ created' \in BOOLEAN /\ rows' \subseteq Batches
        /\ results' \in [Runs -> SUBSET Batches] /\ unanswered' \subseteq Batches
        /\ raised' \subseteq Runs \X Tasks /\ disturbed' \subseteq Runs
    BY <1>1, <1>2 DEF TypeOK, tableVars, history
  <2> QED
    BY <1>1, <1>2, <1>3, <1>5, <2>1, TypeStep DEF Gone
<1>7. ASSUME NEW q \in Runs, NEW v \in Tasks
      PROVE  /\ state'[q][v] = "success" <=> state[q][v] = "success"
             /\ state[q][v] \in Final => state'[q][v] \in Final
             /\ try_number[q][v] <= try_number'[q][v]
             /\ state[q][v] = "success" => try_number'[q][v] = try_number[q][v]
  <2>1. try_number[q][v] \in Nat
    BY <1>1 DEF TypeOK
  <2> QED
    BY <1>2, <1>4, <1>5, <2>1 DEF Gone
<1>8. (\A q \in Runs : TableInv(q)') /\ KnownTries' /\ RaisesWithCause'
  <2>1. RaisesWithCause'
    BY <1>2 DEF IInv, RaisesWithCause, history
  <2> QED
    BY <1>1, <1>2, <1>3, <1>7, <2>1, TaskFacts, QuietStep DEF IInv, history
<1>9. DownInv'
  <2>1. "check_node_status" \in Tasks
    BY DEF Tasks, HealthTasks
  <2> QED
    BY <1>2, <1>7, <2>1, NodesQuiet DEF IInv
<1> QED
  BY <1>5, <1>6, <1>8, <1>9 DEF IInv, Gone

\* A try ends and leaves the table as it is.
LEMMA QuietEnd ==
    ASSUME IInv, NEW r \in Runs, NEW t \in Tasks, state[r][t] = "running",
           dag' = dag, try_number' = try_number,
           UNCHANGED <<tableVars, nodeVars, unanswered, disturbed>>,
           \/ state' = [state EXCEPT ![r][t] = "success"] /\ t \in HealthTasks
           \/ state' = [state EXCEPT ![r][t] = AfterFailure(r, t)],
           raised' \subseteq Runs \X Tasks, RaisesWithCause',
           t = "check_node_status" /\ state'[r][t] = "success" => down[r] = {}
    PROVE  IInv'
<1>1. TypeOK /\ Life
  BY DEF IInv
<1>2. /\ state' \in [Runs -> [Tasks -> States]]
      /\ \A q \in Runs, v \in Tasks : try_number'[q][v] <= Tries(q)'
      /\ Life'
      /\ state'[r][t] \in {"success", "up_for_retry", "failed"}
      /\ state' = [state EXCEPT ![r][t] = "success"] => state'[r][t] = "success"
      /\ state' = [state EXCEPT ![r][t] = AfterFailure(r, t)] =>
           state'[r][t] \in {"up_for_retry", "failed"}
      /\ \A q \in Runs, v \in Tasks : <<q, v>> # <<r, t>> => state'[q][v] = state[q][v]
  BY <1>1, EndStep
<1>3. try_number' \in [Runs -> [Tasks -> Nat]]
  BY <1>1 DEF TypeOK
<1>4. TypeOK'
  <2>1. /\ created' \in BOOLEAN /\ rows' \subseteq Batches
        /\ results' \in [Runs -> SUBSET Batches] /\ unanswered' \subseteq Batches
        /\ disturbed' \subseteq Runs
    BY <1>1 DEF TypeOK, tableVars
  <2> QED
    BY <1>1, <1>2, <1>3, <2>1, TypeStep
<1>5. ASSUME NEW q \in Runs, NEW v \in DemoTasks
      PROVE  /\ state'[q][v] = "success" <=> state[q][v] = "success"
             /\ state[q][v] \in Final => state'[q][v] \in Final
             /\ try_number[q][v] <= try_number'[q][v]
             /\ state[q][v] = "success" => try_number'[q][v] = try_number[q][v]
  <2>1. v \in Tasks /\ v \notin HealthTasks
    BY TaskFacts
  <2>2. try_number[q][v] \in Nat
    BY <1>1, <2>1 DEF TypeOK
  <2>3. CASE q = r /\ v = t
    BY <1>2, <2>1, <2>2, <2>3 DEF Final
  <2>4. CASE ~(q = r /\ v = t)
    BY <1>2, <2>1, <2>2, <2>4
  <2> QED
    BY <2>3, <2>4
<1>6. (\A q \in Runs : TableInv(q)') /\ KnownTries'
  BY <1>1, <1>3, <1>5, QuietStep DEF IInv
<1>7. DownInv'
  <2>1. down' = down /\ is_live' = is_live
    BY DEF nodeVars
  <2>2. ASSUME NEW q \in Runs, state'[q]["check_node_status"] = "success" PROVE down[q] = {}
    <3>1. "check_node_status" \in Tasks
      BY DEF Tasks, HealthTasks
    <3>2. CASE q = r /\ t = "check_node_status"
      BY <2>2, <3>2
    <3>3. CASE ~(q = r /\ t = "check_node_status")
      BY <1>2, <2>2, <3>1, <3>3 DEF IInv, DownInv, OutageReported
    <3> QED
      BY <3>2, <3>3
  <2> QED
    BY <2>1, <2>2 DEF IInv, DownInv, OutageReported
<1> QED
  BY <1>2, <1>4, <1>6, <1>7 DEF IInv

LEMMA FaultStep == ASSUME IInv, NEW r \in Runs, NEW t \in Tasks, Fault(r, t) PROVE IInv'
<1>1. RaisesWithCause' /\ raised' \subseteq Runs \X Tasks
  BY DEF IInv, TypeOK, RaisesWithCause, Fault, Fails
<1>2. t \in Tasks /\ state \in [Runs -> [Tasks -> States]]
  BY DEF IInv, TypeOK
<1>3. AfterFailure(r, t) # "success"
  BY DEF AfterFailure
<1>4. state'[r][t] = AfterFailure(r, t)
  BY <1>2 DEF Fault, Fails
<1> QED
  BY <1>1, <1>3, <1>4, QuietEnd DEF Fault, Fails

\* A try of a task of the demo ends; what the table invariant has to be shown of.
Ended(r, t) ==
    /\ TypeOK /\ Life /\ Life' /\ try_number' = try_number
    /\ state' \in [Runs -> [Tasks -> States]]
    /\ \A q \in Runs, v \in Tasks : try_number'[q][v] <= Tries(q)'
    /\ state[r][t] = "running"
    /\ state'[r][t] \in {"success", "up_for_retry", "failed"}
    /\ \A q \in Runs, v \in Tasks : <<q, v>> # <<r, t>> => state'[q][v] = state[q][v]

LEMMA ReturnsEnds ==
    ASSUME IInv, NEW r \in Runs, NEW t \in Tasks, state[r][t] = "running", Returns(r, t)
    PROVE  Ended(r, t) /\ state'[r][t] = "success" /\ UNCHANGED <<dag, raised>>
  BY EndStep DEF IInv, Returns, Ended

LEMMA FailsEnds ==
    ASSUME IInv, NEW r \in Runs, NEW t \in Tasks, state[r][t] = "running", Fails(r, t)
    PROVE  Ended(r, t) /\ state'[r][t] # "success" /\ UNCHANGED <<dag, raised>>
  BY EndStep DEF IInv, Fails, Ended

\* What is left to show after a step of a callable of the demo.
LEMMA DemoStep ==
    ASSUME IInv, NEW r \in Runs, NEW t \in DemoTasks, Ended(r, t),
           UNCHANGED <<dag, nodeVars>>,
           created' \in BOOLEAN, rows' \subseteq Batches,
           results' \in [Runs -> SUBSET Batches], unanswered' \subseteq Batches,
           raised' \subseteq Runs \X Tasks, disturbed' \subseteq Runs,
           \A q \in Runs : TableInv(q)', KnownTries', RaisesWithCause'
    PROVE  IInv'
<1>1. t \in Tasks /\ t # "check_node_status" /\ "check_node_status" \in Tasks
  BY DEF Tasks, DemoTasks, HealthTasks
<1>2. try_number' \in [Runs -> [Tasks -> Nat]]
  BY DEF Ended, TypeOK
<1>3. TypeOK'
  BY <1>2, TypeStep DEF Ended, IInv
<1>4. DownInv'
  BY <1>1, NodesQuiet DEF IInv, Ended
<1> QED
  BY <1>3, <1>4 DEF IInv, Ended

LEMMA DemoNames ==
    /\ "create_table" \in DemoTasks /\ "insert_data" \in DemoTasks
    /\ "query_data" \in DemoTasks /\ "cleanup" \in DemoTasks
    /\ "create_table" \in Tasks /\ "insert_data" \in Tasks
    /\ "query_data" \in Tasks /\ "cleanup" \in Tasks
  BY DEF Tasks, DemoTasks

LEMMA CreateStep == ASSUME IInv, NEW r \in Runs, create_table(r) PROVE IInv'
<1>1. Ended(r, "create_table") /\ UNCHANGED <<dag, raised>>
  BY DemoNames, ReturnsEnds, FailsEnds DEF create_table
<1>2. /\ created' = TRUE /\ rows' = rows /\ results' = results
      /\ unanswered' = unanswered /\ disturbed' = disturbed /\ UNCHANGED nodeVars
  BY DEF create_table
<1>3. ASSUME NEW q \in Runs PROVE TableInv(q)'
  <2>1. /\ state'[q]["cleanup"] = state[q]["cleanup"]
        /\ state'[q]["query_data"] = state[q]["query_data"]
        /\ state'[q]["insert_data"] = state[q]["insert_data"]
        /\ try_number' = try_number
    BY <1>1, DemoNames DEF Ended
  <2>2. /\ Own(rows, q)' = Own(rows, q) /\ Own(unanswered, q)' = Own(unanswered, q)
        /\ Own(results[q], q)' = Own(results[q], q) /\ Last(q)' = Last(q)
    BY <1>2, <2>1 DEF Own, Last
  <2>3. TableInv(q)
    BY DEF IInv
  <2> QED
    BY <1>2, <2>1, <2>2, <2>3 DEF TableInv
<1>4. KnownTries' /\ RaisesWithCause'
  BY <1>1, <1>2 DEF IInv, KnownTries, RaisesWithCause, Ended
<1> QED
  BY <1>1, <1>2, <1>3, <1>4, DemoNames, DemoStep DEF IInv, TypeOK

LEMMA QueryStep == ASSUME IInv, NEW r \in Runs, query_data(r) PROVE IInv'
<1>1. state[r]["query_data"] = "running" /\ TypeOK /\ Life
  BY DEF query_data, IInv
<1>2. state[r]["insert_data"] = "success" /\ state[r]["create_table"] = "success"
  BY <1>1, OrderFacts DEF Begun
<1>3. r \notin disturbed =>
        /\ created
        /\ Own(rows, r) = Own(unanswered, r) \cup Last(r)
  BY <1>1, <1>2 DEF IInv, TableInv, Final
<1>4. CASE ~created
  <2>1. /\ state' = [state EXCEPT ![r]["query_data"] = AfterFailure(r, "query_data")]
        /\ raised' = raised \cup {<<r, "query_data">>}
        /\ UNCHANGED <<dag, try_number, tableVars, nodeVars, unanswered, disturbed>>
    BY <1>4 DEF query_data, Raises, tableVars
  <2>2. raised' \subseteq Runs \X Tasks /\ RaisesWithCause'
    BY <1>3, <1>4, <2>1, DemoNames DEF IInv, TypeOK, RaisesWithCause
  <2> QED
    BY <1>1, <2>1, <2>2, DemoNames, QuietEnd
<1>5. CASE created
  <2>1. /\ results' = [results EXCEPT ![r] = rows] /\ Returns(r, "query_data")
        /\ UNCHANGED <<created, rows, nodeVars, unanswered, disturbed>>
    BY <1>5 DEF query_data
  <2>2. /\ Ended(r, "query_data") /\ UNCHANGED <<dag, raised>>
        /\ state'[r]["query_data"] = "success"
    BY <1>1, <2>1, DemoNames, ReturnsEnds
  <2>3. /\ results' \in [Runs -> SUBSET Batches] /\ results'[r] = rows
        /\ \A q \in Runs \ {r} : results'[q] = results[q]
    BY <1>1, <2>1 DEF TypeOK
  <2>4. ASSUME NEW q \in Runs PROVE TableInv(q)'
    <3>1. /\ state'[q]["cleanup"] = state[q]["cleanup"]
          /\ state'[q]["create_table"] = state[q]["create_table"]
          /\ state'[q]["insert_data"] = state[q]["insert_data"]
          /\ try_number' = try_number
      BY <2>2, DemoNames DEF Ended
    <3>2. /\ Own(rows, q)' = Own(rows, q) /\ Own(unanswered, q)' = Own(unanswered, q)
          /\ Last(q)' = Last(q)
      BY <2>1, <3>1 DEF Own, Last
    <3>3. TableInv(q)
      BY DEF IInv
    <3>4. CASE q = r
      <4>1. Own(results[r], r)' = Own(rows, r)
        BY <2>3 DEF Own
      <4> QED
        BY <1>3, <2>1, <2>2, <3>1, <3>2, <3>3, <3>4, <4>1 DEF TableInv, Final
    <3>5. CASE q # r
      <4>1. state'[q]["query_data"] = state[q]["query_data"]
        BY <2>2, <3>5, DemoNames DEF Ended
      <4>2. Own(results[q], q)' = Own(results[q], q)
        BY <2>3, <3>5 DEF Own
      <4> QED
        BY <2>1, <3>1, <3>2, <3>3, <4>1, <4>2 DEF TableInv
    <3> QED
      BY <3>4, <3>5
  <2>5. KnownTries' /\ RaisesWithCause'
    BY <2>1, <2>2 DEF IInv, KnownTries, RaisesWithCause, Ended
  <2> QED
    BY <2>1, <2>2, <2>3, <2>4, <2>5, DemoNames, DemoStep DEF IInv, TypeOK
<1> QED
  BY <1>4, <1>5 DEF query_data

LEMMA InsertStep == ASSUME IInv, NEW r \in Runs, insert_data(r) PROVE IInv'
<1> DEFINE batch == <<r, try_number[r]["insert_data"]>>
<1>1. state[r]["insert_data"] = "running" /\ TypeOK /\ Life
  BY DEF insert_data, IInv
<1>2. /\ state[r]["create_table"] = "success" /\ state[r]["query_data"] \notin Final
      /\ state[r]["cleanup"] # "success"
  BY <1>1, OrderFacts DEF Begun, Final
<1>3. r \notin disturbed =>
        /\ created
        /\ Own(rows, r) = Own(unanswered, r) \cup Last(r)
  BY <1>2 DEF IInv, TableInv
<1>4. CASE ~created
  <2>1. /\ state' = [state EXCEPT ![r]["insert_data"] = AfterFailure(r, "insert_data")]
        /\ raised' = raised \cup {<<r, "insert_data">>}
        /\ UNCHANGED <<dag, try_number, tableVars, nodeVars, unanswered, disturbed>>
    BY <1>4 DEF insert_data, Raises, tableVars
  <2>2. raised' \subseteq Runs \X Tasks /\ RaisesWithCause'
    BY <1>3, <1>4, <2>1, DemoNames DEF IInv, TypeOK, RaisesWithCause
  <2> QED
    BY <1>1, <2>1, <2>2, DemoNames, QuietEnd
<1>5. CASE created
  <2>1. /\ rows' = rows \cup {batch}
        /\ created' = created /\ results' = results /\ disturbed' = disturbed
        /\ UNCHANGED nodeVars
        /\ \/ Returns(r, "insert_data") /\ unanswered' = unanswered
           \/ Fails(r, "insert_data") /\ unanswered' = unanswered \cup {batch}
    BY <1>5 DEF insert_data
  <2>2. Ended(r, "insert_data") /\ UNCHANGED <<dag, raised>>
    BY <1>1, <2>1, DemoNames, ReturnsEnds, FailsEnds
  <2>3. \/ state'[r]["insert_data"] = "success" /\ unanswered' = unanswered
        \/ state'[r]["insert_data"] # "success" /\ unanswered' = unanswered \cup {batch}
    BY <1>1, <2>1, DemoNames, ReturnsEnds, FailsEnds
  <2>4. batch \in Batches /\ batch[1] = r /\ batch[2] = try_number[r]["insert_data"]
    BY <1>1, RunningDemo
  <2>5. try_number' = try_number
    BY <2>2 DEF Ended
  <2> HIDE DEF batch
  <2>6. ASSUME NEW q \in Runs PROVE TableInv(q)'
    <3>1. /\ state'[q]["cleanup"] = state[q]["cleanup"]
          /\ state'[q]["create_table"] = state[q]["create_table"]
          /\ state'[q]["query_data"] = state[q]["query_data"]
      BY <2>2, DemoNames DEF Ended
    <3>2. TableInv(q)
      BY DEF IInv
    <3>3. Own(results[q], q)' = Own(results[q], q)
      BY <2>1 DEF Own
    <3>4. CASE q = r
      <4>1. Own(rows, r)' = Own(rows, r) \cup {batch}
        BY <2>1, <2>4 DEF Own
      <4>2. Last(r) = {}
        BY <1>1 DEF Last
      <4>3. Own(unanswered, r)' \cup Last(r)' = Own(unanswered, r) \cup {batch}
        <5>1. CASE state'[r]["insert_data"] = "success" /\ unanswered' = unanswered
          <6>1. Own(unanswered, r)' = Own(unanswered, r)
            BY <5>1 DEF Own
          <6>2. Last(r)' = {batch}
            BY <2>5, <5>1 DEF Last, batch
          <6> QED
            BY <6>1, <6>2
        <5>2. CASE state'[r]["insert_data"] # "success" /\ unanswered' = unanswered \cup {batch}
          <6>1. Own(unanswered, r)' = Own(unanswered, r) \cup {batch}
            BY <2>4, <5>2 DEF Own
          <6>2. Last(r)' = {}
            BY <5>2 DEF Last
          <6> QED
            BY <6>1, <6>2
        <5> QED
          BY <2>3, <5>1, <5>2
      <4>4. r \notin disturbed => Own(rows, r)' = Own(unanswered, r)' \cup Last(r)'
        BY <1>3, <4>1, <4>2, <4>3
      <4>5. state'[r]["cleanup"] # "success" /\ state'[r]["query_data"] \notin Final
        BY <1>2, <3>1, <3>4
      <4>6. "success" \in Final
        BY DEF Final
      <4> QED
        BY <1>5, <2>1, <3>4, <4>4, <4>5, <4>6 DEF TableInv
    <3>5. CASE q # r
      <4>1. Own(rows, q)' = Own(rows, q) /\ Own(unanswered, q)' = Own(unanswered, q)
        BY <2>1, <2>3, <2>4, <3>5 DEF Own
      <4>2. state'[q]["insert_data"] = state[q]["insert_data"]
        BY <2>2, <3>5, DemoNames DEF Ended
      <4>3. Last(q)' = Last(q)
        BY <2>5, <4>2 DEF Last
      <4> QED
        BY <2>1, <3>1, <3>2, <3>3, <4>1, <4>3 DEF TableInv
    <3> QED
      BY <3>4, <3>5
  <2>7. KnownTries'
    <3>1. try_number[r]["insert_data"] \in Nat
      BY <1>1, DemoNames DEF TypeOK
    <3>2. batch[2] <= try_number'[batch[1]]["insert_data"]
      BY <2>4, <2>5, <3>1
    <3>3. rows' \cup unanswered' \subseteq rows \cup unanswered \cup {batch}
      BY <2>1, <2>3
    <3> QED
      BY <2>5, <3>2, <3>3 DEF IInv, KnownTries
  <2>8. RaisesWithCause'
    BY <2>1, <2>2 DEF IInv, RaisesWithCause
  <2>9. rows' \subseteq Batches /\ unanswered' \subseteq Batches
    BY <1>1, <2>1, <2>3, <2>4 DEF TypeOK
  <2> QED
    BY <2>1, <2>2, <2>6, <2>7, <2>8, <2>9, DemoNames, DemoStep DEF IInv, TypeOK
<1> QED
  BY <1>4, <1>5 DEF insert_data

LEMMA CleanupStep == ASSUME IInv, NEW r \in Runs, cleanup(r) PROVE IInv'
<1>1. state[r]["cleanup"] = "running" /\ TypeOK /\ Life
  BY DEF cleanup, IInv
<1>2. Ended(r, "cleanup") /\ UNCHANGED <<dag, raised>>
  BY <1>1, DemoNames, ReturnsEnds, FailsEnds DEF cleanup
<1>3. /\ created' = FALSE /\ rows' = {} /\ results' = results /\ unanswered' = unanswered
      /\ disturbed' = disturbed \cup {q \in Runs \ {r} : Using(q)}
      /\ try_number' = try_number /\ UNCHANGED nodeVars
  BY <1>2 DEF cleanup, Ended
<1>4. state[r]["query_data"] = "success"
  BY <1>1, OrderFacts DEF Begun
<1>5. ASSUME NEW q \in Runs PROVE TableInv(q)'
  <2>1. /\ state'[q]["create_table"] = state[q]["create_table"]
        /\ state'[q]["insert_data"] = state[q]["insert_data"]
        /\ state'[q]["query_data"] = state[q]["query_data"]
    BY <1>2, DemoNames DEF Ended
  <2>2. /\ Own(rows, q)' = {} /\ Own(unanswered, q)' = Own(unanswered, q)
        /\ Own(results[q], q)' = Own(results[q], q) /\ Last(q)' = Last(q)
    BY <1>3, <2>1 DEF Own, Last
  <2>3. TableInv(q)
    BY DEF IInv
  <2>4. q \notin disturbed' => q \notin disturbed
    BY <1>3
  <2>5. CASE state[q]["query_data"] \in Final
    BY <2>1, <2>2, <2>3, <2>4, <2>5 DEF TableInv
  <2>6. CASE state[q]["query_data"] \notin Final /\ state[q]["create_table"] # "none"
    <3>1. q # r /\ Using(q)
      BY <1>4, <2>6 DEF Using, Final
    <3>2. q \in disturbed'
      BY <1>3, <3>1
    <3> QED
      BY <2>2, <3>2 DEF TableInv
  <2>7. CASE state[q]["query_data"] \notin Final /\ state[q]["create_table"] = "none"
    <3>1. /\ LifeInv(q, "insert_data") /\ LifeInv(q, "create_table")
          /\ state[q]["insert_data"] \in States
      BY <1>1, DemoNames DEF Life, TypeOK
    <3>2. state[q]["insert_data"] = "none" \/ state[q]["insert_data"] = "upstream_failed"
      BY <1>1, <2>7, <3>1, OrderFacts DEF States, Begun
    <3>3. try_number[q]["insert_data"] = 0 /\ Last(q) = {}
      BY <3>1, <3>2 DEF LifeInv, Last
    <3>4. Own(unanswered, q) = {}
      <4> SUFFICES ASSUME NEW b \in unanswered, b[1] = q PROVE FALSE
        BY DEF Own
      <4>1. b \in Runs \X (1 .. Retries["demo"] + 1)
        BY <1>1 DEF TypeOK, Batches
      <4>2. b[2] \in Nat /\ b[2] >= 1
        BY <1>1, <4>1, RetryFacts
      <4>3. b[2] <= 0
        BY <3>3 DEF IInv, KnownTries
      <4> QED
        BY <4>2, <4>3
    <3> QED
      BY <2>1, <2>2, <2>7, <3>3, <3>4 DEF TableInv, Final
  <2> QED
    BY <2>5, <2>6, <2>7
<1>6. KnownTries'
  BY <1>3 DEF IInv, KnownTries
<1>7. RaisesWithCause'
  BY <1>2, <1>3 DEF IInv, RaisesWithCause
<1>8. created' \in BOOLEAN /\ rows' \subseteq Batches /\ disturbed' \subseteq Runs
  BY <1>1, <1>3 DEF TypeOK
<1> QED
  BY <1>2, <1>3, <1>5, <1>6, <1>7, <1>8, DemoNames, DemoStep DEF IInv, TypeOK

LEMMA HealthNames ==
    /\ "check_cluster_version" \in HealthTasks /\ "check_node_status" \in HealthTasks
    /\ "check_database_sizes" \in HealthTasks
    /\ "check_cluster_version" \in Tasks /\ "check_node_status" \in Tasks
    /\ "check_database_sizes" \in Tasks
  BY DEF Tasks, HealthTasks

LEMMA VersionStep == ASSUME IInv, NEW r \in Runs, check_cluster_version(r) PROVE IInv'
<1>1. RaisesWithCause' /\ raised' \subseteq Runs \X Tasks
  BY DEF IInv, TypeOK, RaisesWithCause, check_cluster_version, Returns
<1> QED
  BY <1>1, HealthNames, QuietEnd DEF check_cluster_version, Returns

LEMMA SizesStep == ASSUME IInv, NEW r \in Runs, check_database_sizes(r) PROVE IInv'
<1>1. RaisesWithCause' /\ raised' \subseteq Runs \X Tasks
  BY DEF IInv, TypeOK, RaisesWithCause, check_database_sizes, Returns
<1> QED
  BY <1>1, HealthNames, QuietEnd DEF check_database_sizes, Returns

LEMMA NodeStatusStep == ASSUME IInv, NEW r \in Runs, check_node_status(r) PROVE IInv'
<1>1. /\ state[r]["check_node_status"] = "running"
      /\ UNCHANGED <<dag, try_number, tableVars, nodeVars, unanswered, disturbed>>
  BY DEF check_node_status, Returns, Raises
<1>2. CASE AllLive
  <2>1. is_live = Nodes
    <3>1. IsFiniteSet(Nodes) /\ is_live \subseteq Nodes
      BY DagAssumption DEF DagAssumption, IInv, TypeOK
    <3> QED
      BY <1>2, <3>1, FS_Subset DEF AllLive
  <2>2. down[r] = {}
    BY <2>1 DEF IInv, DownInv, TypeOK
  <2>3. state' = [state EXCEPT ![r]["check_node_status"] = "success"] /\ raised' = raised
    BY <1>2 DEF check_node_status, Returns
  <2>4. RaisesWithCause' /\ raised' \subseteq Runs \X Tasks
    BY <1>1, <2>3 DEF IInv, TypeOK, RaisesWithCause
  <2> QED
    BY <1>1, <2>2, <2>3, <2>4, HealthNames, QuietEnd
<1>3. CASE ~AllLive
  <2>1. /\ state' = [state EXCEPT ![r]["check_node_status"] =
                                     AfterFailure(r, "check_node_status")]
        /\ raised' = raised \cup {<<r, "check_node_status">>}
    BY <1>3 DEF check_node_status, Raises
  <2>2. RaisesWithCause' /\ raised' \subseteq Runs \X Tasks
    BY <1>1, <2>1, HealthNames DEF IInv, TypeOK, RaisesWithCause
  <2>3. state'[r]["check_node_status"] # "success"
    <3>1. state'[r]["check_node_status"] = AfterFailure(r, "check_node_status")
      BY <2>1, HealthNames DEF IInv, TypeOK
    <3> QED
      BY <3>1 DEF AfterFailure
  <2> QED
    BY <1>1, <2>1, <2>2, <2>3, HealthNames, QuietEnd
<1> QED
  BY <1>2, <1>3

\* A node stops or comes back: the tasks and the table are as they were.
LEMMA ChangeStep ==
    ASSUME IInv, NEW n \in Nodes, NodeStops(n) \/ NodeStarts(n)
    PROVE  IInv'
<1>1. UNCHANGED <<dag, state, try_number, created, rows, results, unanswered, raised,
                  disturbed>>
  BY DEF NodeStops, NodeStarts, dagVars, tableVars, history
<1>2. TypeOK'
  <2>1. changes' \in 0 .. MaxChanges
    BY DagAssumption DEF IInv, TypeOK, NodeStops, NodeStarts, DagAssumption
  <2>2. is_live' \subseteq Nodes /\ down' \in [Runs -> SUBSET Nodes]
    BY DEF IInv, TypeOK, NodeStops, NodeStarts
  <2>3. Batches' = Batches /\ \A r \in Runs : Tries(r)' = Tries(r)
    BY <1>1 DEF Batches, Tries
  <2> QED
    BY <1>1, <2>1, <2>2, <2>3 DEF IInv, TypeOK
<1>3. Life'
  BY <1>1 DEF IInv, Life, LifeInv, TasksOf, Tries
<1>4. ASSUME NEW r \in Runs PROVE TableInv(r)'
  <2>1. TableInv(r)
    BY DEF IInv
  <2> QED
    BY <1>1, <2>1 DEF TableInv, Own, Last
<1>5. KnownTries' /\ RaisesWithCause'
  BY <1>1 DEF IInv, KnownTries, RaisesWithCause
<1>6. DownInv'
  <2>1. CASE NodeStops(n)
    <3>1. /\ is_live' = is_live \ {n}
          /\ down' = [r \in Runs |-> IF state[r]["check_node_status"] = "none"
                                     THEN down[r] \cup {n} ELSE down[r]]
      BY <2>1 DEF NodeStops
    <3> QED
      BY <1>1, <3>1 DEF IInv, DownInv, OutageReported
  <2>2. CASE NodeStarts(n)
    <3>1. is_live' = is_live \cup {n} /\ down' = [r \in Runs |-> down[r] \ {n}]
      BY <2>2 DEF NodeStarts
    <3> QED
      BY <1>1, <3>1 DEF IInv, DownInv, OutageReported
  <2> QED
    BY <2>1, <2>2
<1> QED
  BY <1>2, <1>3, <1>4, <1>5, <1>6 DEF IInv

LEMMA InvNext == IInv /\ [Next]_vars => IInv'
<1> SUFFICES ASSUME IInv, [Next]_vars PROVE IInv'
  OBVIOUS
<1>1. CASE UNCHANGED vars
  BY <1>1 DEF vars, IInv, TypeOK, Batches, Tries, Life, LifeInv, TasksOf, TableInv, Own, Last,
              KnownTries, RaisesWithCause, DownInv, OutageReported
<1>2. ASSUME NEW r \in Runs, Callable(r) PROVE IInv'
  BY <1>2, CreateStep, InsertStep, QueryStep, CleanupStep, VersionStep, SizesStep,
     NodeStatusStep DEF Callable
<1>3. ASSUME NEW r \in Runs, NEW t \in Tasks, Start(r, t) \/ UpstreamFails(r, t) \/ Fault(r, t)
      PROVE  IInv'
  BY <1>3, StartStep, UpstreamFailsStep, FaultStep
<1>4. ASSUME NEW n \in Nodes, NodeStops(n) \/ NodeStarts(n) PROVE IInv'
  BY <1>4, ChangeStep
<1> QED
  BY <1>1, <1>2, <1>3, <1>4 DEF Next

LEMMA Invariance == Spec => []IInv
  BY InvInit, InvNext, PTL DEF Spec

-----------------------------------------------------------------------------
(* The theorems. *)

\* No task is tried more often than its DAG says, and the rest has its type.
THEOREM TypeCorrect == Spec => []TypeOK
<1>1. IInv => TypeOK
  BY DEF IInv
<1> QED
  BY <1>1, Invariance, PTL

\* Whatever is retried and whatever other runs do, a run that succeeds leaves no rows.
THEOREM CleansUp == Spec => []SuccessCleansUp
<1>1. IInv => SuccessCleansUp
  BY DEF IInv, TableInv, Own, SuccessCleansUp
<1> QED
  BY <1>1, Invariance, PTL

\* query_data counts a batch of rows for each committed try of insert_data.
THEOREM Counts == Spec => []QueryCountsInserts
<1>1. ASSUME IInv, NEW r \in Runs \ disturbed, state[r]["query_data"] = "success"
      PROVE  {b \in results[r] : b[1] = r}
               = {b \in unanswered : b[1] = r} \cup {<<r, try_number[r]["insert_data"]>>}
  <2>1. state[r]["insert_data"] = "success"
    BY <1>1, OrderFacts DEF IInv, Begun
  <2>2. Own(results[r], r) = Own(unanswered, r) \cup Last(r)
    BY <1>1 DEF IInv, TableInv
  <2> QED
    BY <2>1, <2>2 DEF Own, Last
<1>2. IInv => QueryCountsInserts
  BY <1>1 DEF QueryCountsInserts
<1> QED
  BY <1>2, Invariance, PTL

\* Only another run's cleanup makes a callable of the demo raise.
THEOREM Causes == Spec => []RaisesWithCause
<1>1. IInv => RaisesWithCause
  BY DEF IInv
<1> QED
  BY <1>1, Invariance, PTL

\* An outage that lasts is reported, whatever is retried.
THEOREM Outage == Spec => []OutageReported
<1>1. IInv => OutageReported
  BY DEF IInv, DownInv
<1> QED
  BY <1>1, Invariance, PTL

-----------------------------------------------------------------------------
(* No run goes on for ever. *)

\* The number of steps left by state.
LEMMA LeftIs ==
    ASSUME NEW r \in Runs, NEW t \in Tasks
    PROVE  /\ state[r][t] = "none" => StepsLeft(r, t) = 2 * Tries(r)
           /\ state[r][t] = "up_for_retry" =>
                StepsLeft(r, t) = 2 * (Tries(r) - try_number[r][t])
           /\ state[r][t] = "running" =>
                StepsLeft(r, t) = 2 * (Tries(r) - try_number[r][t]) + 1
           /\ state[r][t] \in Final => StepsLeft(r, t) = 0
  BY Zenon DEF StepsLeft, Final

LEMMA LeftIsPrimed ==
    ASSUME NEW r \in Runs, NEW t \in Tasks
    PROVE  /\ state'[r][t] = "up_for_retry" =>
                StepsLeft(r, t)' = 2 * (Tries(r)' - try_number'[r][t])
           /\ state'[r][t] = "running" =>
                StepsLeft(r, t)' = 2 * (Tries(r)' - try_number'[r][t]) + 1
           /\ state'[r][t] \in Final => StepsLeft(r, t)' = 0
  BY Zenon DEF StepsLeft, Final

\* A task instance starts a try it has left, or does not start at all.
LEMMA StartAdvances ==
    ASSUME IInv, NEW r \in Runs, NEW t \in Tasks, Start(r, t) \/ UpstreamFails(r, t)
    PROVE  Nearer(r, t)
<1>1. /\ state \in [Runs -> [Tasks -> States]]
      /\ try_number \in [Runs -> [Tasks -> Nat]] /\ LifeInv(r, t)
  BY DEF IInv, TypeOK, Life
<1>2. Tries(r)' = Tries(r) /\ Tries(r) \in Nat /\ Tries(r) >= 1 /\ try_number[r][t] \in Nat
  BY <1>1, RetryFacts DEF Start, UpstreamFails, Tries, IInv
<1>3. /\ state'[r][t] # state[r][t]
      /\ state' = [state EXCEPT ![r][t] = state'[r][t]]
      /\ try_number' = [try_number EXCEPT ![r][t] = try_number'[r][t]]
  BY <1>1 DEF Start, UpstreamFails
<1>4. StepsLeft(r, t)' \in 0 .. StepsLeft(r, t) - 1
  <2>1. CASE UpstreamFails(r, t)
    <3>1. state[r][t] = "none" /\ state'[r][t] \in Final
      BY <1>1, <2>1 DEF UpstreamFails, Final
    <3> QED BY <1>2, <3>1, LeftIs, LeftIsPrimed
  <2>2. CASE Start(r, t)
    <3>1. state'[r][t] = "running" /\ try_number'[r][t] = try_number[r][t] + 1
      BY <1>1, <2>2 DEF Start
    <3>2. StepsLeft(r, t)' = 2 * (Tries(r) - (try_number[r][t] + 1)) + 1
      BY <1>2, <3>1, LeftIsPrimed
    <3>3. CASE state[r][t] = "none"
      BY <1>1, <1>2, <3>2, <3>3, LeftIs DEF LifeInv
    <3>4. CASE state[r][t] = "up_for_retry"
      BY <1>1, <1>2, <3>2, <3>4, LeftIs DEF LifeInv
    <3> QED BY <2>2, <3>3, <3>4 DEF Start
  <2> QED BY <2>1, <2>2
<1> QED BY <1>3, <1>4 DEF Nearer

\* A try ends: the task instance is over or has a try less.
LEMMA TryAdvances ==
    ASSUME IInv, NEW r \in Runs, NEW t \in Tasks, state[r][t] = "running",
           dag' = dag, try_number' = try_number,
           NEW s \in {"success", AfterFailure(r, t)}, state' = [state EXCEPT ![r][t] = s]
    PROVE  Nearer(r, t)
<1>1. /\ state \in [Runs -> [Tasks -> States]]
      /\ try_number[r][t] \in Nat /\ try_number[r][t] <= Tries(r)
  BY DEF IInv, TypeOK
<1>2. Tries(r)' = Tries(r) /\ Tries(r) \in Nat
  BY RetryFacts DEF Tries, IInv
<1>3. state'[r][t] = s /\ s # "running"
  BY <1>1 DEF AfterFailure
<1>4. /\ state'[r][t] # state[r][t]
      /\ state' = [state EXCEPT ![r][t] = state'[r][t]]
      /\ try_number' = [try_number EXCEPT ![r][t] = try_number'[r][t]]
  <2>1. try_number \in [Runs -> [Tasks -> Nat]]
    BY DEF IInv, TypeOK
  <2>2. try_number = [try_number EXCEPT ![r][t] = try_number[r][t]]
    BY <2>1
  <2> QED BY <1>1, <1>3, <2>2
<1>5. StepsLeft(r, t) = 2 * (Tries(r) - try_number[r][t]) + 1
  BY LeftIs
<1>6. CASE s \in Final
  BY <1>1, <1>2, <1>3, <1>4, <1>5, <1>6, LeftIsPrimed DEF Nearer
<1>7. CASE s = "up_for_retry"
  <2>1. StepsLeft(r, t)' = 2 * (Tries(r) - try_number[r][t])
    BY <1>2, <1>3, <1>7, LeftIsPrimed
  <2> QED BY <1>1, <1>2, <1>4, <1>5, <2>1 DEF Nearer
<1>8. s \in Final \/ s = "up_for_retry"
  BY DEF AfterFailure, Final
<1> QED BY <1>6, <1>7, <1>8

LEMMA RunsAdvance == IInv /\ [Next]_vars => [Advance]_vars
<1> SUFFICES ASSUME IInv, Next PROVE Advance
  OBVIOUS
<1>1. ASSUME NEW r \in Runs, Callable(r) PROVE \E t \in Tasks : Nearer(r, t)
  <2>1. PICK t \in Tasks : /\ state[r][t] = "running"
                           /\ Returns(r, t) \/ Fails(r, t) \/ Raises(r, t)
    <3> USE DEF Tasks, DemoTasks, HealthTasks
    <3>1. CASE create_table(r)
      BY <3>1 DEF create_table
    <3>2. CASE insert_data(r)
      BY <3>2 DEF insert_data
    <3>3. CASE query_data(r)
      BY <3>3 DEF query_data
    <3>4. CASE cleanup(r)
      BY <3>4 DEF cleanup
    <3>5. CASE check_cluster_version(r) \/ check_node_status(r) \/ check_database_sizes(r)
      BY <3>5 DEF check_cluster_version, check_node_status, check_database_sizes
    <3> QED BY <1>1, <3>1, <3>2, <3>3, <3>4, <3>5 DEF Callable
  <2> QED BY <2>1, TryAdvances DEF Returns, Fails, Raises
<1>2. ASSUME NEW r \in Runs, NEW t \in Tasks, Fault(r, t) PROVE Nearer(r, t)
  BY <1>2, TryAdvances DEF Fault, Fails
<1>3. ASSUME NEW n \in Nodes, NodeStops(n) \/ NodeStarts(n)
      PROVE  UNCHANGED dagVars /\ changes' \in changes + 1 .. MaxChanges
  <2>1. changes \in Nat /\ MaxChanges \in Nat
    BY DagAssumption DEF IInv, TypeOK
  <2> QED BY <1>3, <2>1 DEF NodeStops, NodeStarts
<1> QED BY <1>1, <1>2, <1>3, StartAdvances DEF Next, Advance

\* Every step brings a task instance closer to its end, or stops or starts one of the nodes.
THEOREM NoEndlessRetries == Spec => TasksAdvance
<1>1. IInv /\ [Next]_vars => [Advance]_vars
  BY RunsAdvance
<1> QED
  BY <1>1, Invariance, PTL DEF Spec, TasksAdvance

=============================================================================
