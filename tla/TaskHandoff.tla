---------------------------- MODULE TaskHandoff ----------------------------
(***************************************************************************)
(* What a highly available Airflow deployment promises about one task      *)
(* instance, whatever the schedulers, the database and the executors do in *)
(* between: it is handed to at most one scheduler, that scheduler hands it *)
(* to a worker at most once, and it is lost only together with the         *)
(* scheduler that held it.  SchedulerHA is shown to implement this.        *)
(***************************************************************************)

CONSTANTS Schedulers,   \* the scheduler processes
          Tasks,        \* the task instances, one key per try
          None          \* the holder of a task nobody holds

VARIABLES alive,    \* the schedulers that have not died
          stage,    \* where each task is
          holder    \* the scheduler a task was handed to, or None

handoffVars == <<alive, stage, holder>>

Stages == {"new", "waiting", "assigned", "sent", "done", "lost"}

HandoffTypeOK ==
    /\ alive \subseteq Schedulers
    /\ stage \in [Tasks -> Stages]
    /\ holder \in [Tasks -> Schedulers \cup {None}]

HandoffInit ==
    /\ alive = Schedulers
    /\ stage = [t \in Tasks |-> "new"]
    /\ holder = [t \in Tasks |-> None]

\* The tasks of `from` that are in B go to stage `to`.
Move(B, to) == stage' = [t \in Tasks |-> IF t \in B THEN to ELSE stage[t]]

InStage(st) == {t \in Tasks : stage[t] = st}

HeldBy(s) == {t \in Tasks : holder[t] = s}

\* A task becomes ready to run.
Offer(t) ==
    /\ stage[t] = "new"
    /\ Move({t}, "waiting")
    /\ UNCHANGED <<alive, holder>>

\* A scheduler takes a batch of waiting tasks, all of it or none of it.
Assign(s, B) ==
    /\ s \in alive
    /\ B \subseteq InStage("waiting")
    /\ Move(B, "assigned")
    /\ holder' = [t \in Tasks |-> IF t \in B THEN s ELSE holder[t]]
    /\ UNCHANGED alive

\* A scheduler hands tasks it holds to its workers.
Send(s, B) ==
    /\ s \in alive
    /\ B \subseteq InStage("assigned") \cap HeldBy(s)
    /\ Move(B, "sent")
    /\ UNCHANGED <<alive, holder>>

\* A worker of a live scheduler finishes a task.
Complete(t) ==
    /\ stage[t] = "sent"
    /\ holder[t] \in alive
    /\ Move({t}, "done")
    /\ UNCHANGED <<alive, holder>>

\* A scheduler dies, possibly in the middle of taking the batch B.  What it
\* held and had not finished is lost, and nothing else is.
Die(s, B) ==
    /\ s \in alive
    /\ B \subseteq InStage("waiting")
    /\ alive' = alive \ {s}
    /\ Move(B \cup {t \in HeldBy(s) : stage[t] # "done"}, "lost")
    /\ holder' = [t \in Tasks |-> IF t \in B THEN s ELSE holder[t]]

HandoffNext ==
    \/ \E t \in Tasks : Offer(t) \/ Complete(t)
    \/ \E s \in Schedulers, B \in SUBSET Tasks : Assign(s, B) \/ Send(s, B) \/ Die(s, B)

HandoffSpec == HandoffInit /\ [][HandoffNext]_handoffVars

-----------------------------------------------------------------------------
(* What follows from it. *)

\* Exactly the tasks that were handed out have a holder.
HeldOnceTaken ==
    \A t \in Tasks : holder[t] = None <=> stage[t] \in {"new", "waiting"}

\* A task is lost, or on its way and stuck, only with the scheduler that held it: what is
\* in the queue of a scheduler or with its workers belongs to a scheduler that is alive.
LostWithHolder ==
    \A t \in Tasks : /\ stage[t] = "lost" => holder[t] \notin alive
                     /\ stage[t] \in {"assigned", "sent"} => holder[t] \in alive

\* The order in which a task goes through its stages: no stage is ever entered twice.
After(st) ==
    CASE st = "new"      -> Stages \ {"new"}
      [] st = "waiting"  -> Stages \ {"new", "waiting"}
      [] st = "assigned" -> {"sent", "done", "lost"}
      [] st = "sent"     -> {"done", "lost"}
      [] OTHER           -> {}

\* A task once handed to a scheduler stays with that one, and only moves on from there.
\* So it is handed out once, sent to a worker once, and finished once or lost for good.
HandedOnce ==
    \A t \in Tasks : /\ holder[t] # None => holder'[t] = holder[t]
                     /\ stage'[t] # stage[t] => stage'[t] \in After(stage[t])

NeverHandedTwice == [][HandedOnce]_handoffVars

=============================================================================
