------------------------- MODULE StressValidation --------------------------
(***************************************************************************)
(* The HA stress test of scripts/validate-poc.sh: trigger eight DAG runs,  *)
(* poll until they are over, decide whether the PoC works.  The script     *)
(* sees the stack through one command at a time; in between runs start and *)
(* end, and schedulers may crash, which they do not recover from.          *)
(***************************************************************************)
EXTENDS Integers, FiniteSets

CONSTANTS Schedulers,     \* the two scheduler containers
          PriorSuccesses, \* runs that earlier validations left on the volume
          MaxPolls,       \* TIMEOUT / POLL_INTERVAL
          MaxFaults       \* bound: commands of the script that fail

ASSUME StressAssumption ==
    /\ IsFiniteSet(Schedulers)
    /\ PriorSuccesses \in Nat
    /\ MaxPolls \in Nat \ {0}
    /\ MaxFaults \in Nat

RunStates == {"queued", "running", "success", "failed"}
Unfinished == {"queued", "running"}

VARIABLES
    \* The stack.
    runs,           \* how many runs of cockroachdb_stress are in each state
    alive,          \* schedulers whose container runs
    \* The script.
    pc,
    triggered,      \* runs triggered
    running_count,
    queued_count,
    polls,          \* ELAPSED / POLL_INTERVAL
    success_count,
    state,          \* SCHED1_STATE and SCHED2_STATE, or not yet read
    restarts,       \* SCHED1_RESTART and SCHED2_RESTART
    warned,         \* the warning about crashed schedulers was printed
    fail,           \* FAIL
    verdict,        \* what the script ends with
    \* History.
    missed,         \* runs that were not over when the polling declared them so
    down,           \* schedulers that were down by then
    faults

stack == <<runs, alive>>
polling == <<running_count, queued_count, polls>>
inspection == <<state, restarts>>
result == <<warned, fail, verdict>>
atBreak == <<missed, down>>
vars == <<stack, pc, triggered, polling, success_count, inspection, result, atBreak, faults>>

TypeOK ==
    /\ runs \in [RunStates -> Nat]
    /\ alive \subseteq Schedulers
    /\ pc \in {"trigger", "running", "queued", "test", "timeout", "success", "inspect", "judge",
               "summary", "end"}
    /\ triggered \in Nat
    /\ running_count \in Nat
    /\ queued_count \in Nat
    /\ polls \in 0 .. MaxPolls
    /\ success_count \in Nat
    /\ state \in [Schedulers -> {"unread", "running", "exited", "unknown"}]
    /\ restarts \in [Schedulers -> {-1, 0}]
    /\ warned \in BOOLEAN
    /\ fail \in Nat
    /\ verdict \in {"none", "passed", "failed", "aborted"}
    /\ missed \in Nat
    /\ down \subseteq Schedulers
    /\ faults \in 0 .. MaxFaults

Init ==
    /\ runs = [st \in RunStates |-> IF st = "success" THEN PriorSuccesses ELSE 0]
    /\ alive = Schedulers
    /\ pc = "trigger"
    /\ triggered = 0
    /\ running_count = 0
    /\ queued_count = 0
    /\ polls = 0
    /\ success_count = 0
    /\ state = [s \in Schedulers |-> "unread"]
    /\ restarts = [s \in Schedulers |-> 0]
    /\ warned = FALSE
    /\ fail = 0
    /\ verdict = "none"
    /\ missed = 0
    /\ down = {}
    /\ faults = 0

-----------------------------------------------------------------------------
(* The stack, as far as the script can tell. *)

Move(from, to) ==
    /\ runs[from] > 0
    /\ runs' = [runs EXCEPT ![from] = @ - 1, ![to] = @ + 1]

\* A live scheduler starts a queued run, or finds that a running one is over.
RunProceeds ==
    /\ alive # {}
    /\ \/ Move("queued", "running")
       \/ Move("running", "success")
       \/ Move("running", "failed")
    /\ UNCHANGED <<alive, pc, triggered, polling, success_count, inspection, result, atBreak,
                   faults>>

SchedulerCrashes(s) ==
    /\ s \in alive
    /\ alive' = alive \ {s}
    /\ UNCHANGED <<runs, pc, triggered, polling, success_count, inspection, result, atBreak,
                   faults>>

-----------------------------------------------------------------------------
(* The script. *)

Fault == faults < MaxFaults /\ faults' = faults + 1

\* An answer to "how many runs are in state st": with "2>/dev/null | grep -c ... ||
\* true" a command that fails counts as 0.
Count(st, n) ==
    \/ n = runs[st] /\ UNCHANGED faults
    \/ n = 0 /\ Fault

\* Mutant of LastRun: for i in 1 .. 7.
LastRunOneLess == 7

LastRun == 8

Trigger ==
    /\ pc = "trigger"
    /\ triggered' = triggered + 1
    /\ runs' = [runs EXCEPT !["queued"] = @ + 1]
    /\ pc' = IF triggered + 1 = LastRun THEN "running" ELSE pc
    /\ UNCHANGED <<alive, polling, success_count, inspection, result, atBreak, faults>>

\* set -e: the script is over, whether or not the run was made.
TriggerFails ==
    /\ pc = "trigger"
    /\ Fault
    /\ \E made \in {0, 1} :
          /\ triggered' = triggered + made
          /\ runs' = [runs EXCEPT !["queued"] = @ + made]
    /\ verdict' = "aborted"
    /\ pc' = "end"
    /\ UNCHANGED <<alive, polling, success_count, inspection, warned, fail, atBreak>>

CountRunning ==
    /\ pc = "running"
    /\ \E n \in {0, runs["running"]} : Count("running", n) /\ running_count' = n
    /\ pc' = "queued"
    /\ UNCHANGED <<stack, triggered, queued_count, polls, success_count, inspection, result,
                   atBreak>>

CountQueued ==
    /\ pc = "queued"
    /\ \E n \in {0, runs["queued"]} : Count("queued", n) /\ queued_count' = n
    /\ pc' = "test"
    /\ UNCHANGED <<stack, triggered, running_count, polls, success_count, inspection, result,
                   atBreak>>

\* "All runs completed".
Break ==
    /\ pc = "test"
    /\ running_count = 0 /\ queued_count = 0
    /\ missed' = runs["queued"] + runs["running"]
    /\ down' = Schedulers \ alive
    /\ pc' = "success"
    /\ UNCHANGED <<stack, triggered, polling, success_count, inspection, result, faults>>

\* Mutant of TimeLeft: -le for -lt.
TimeLeftOnceMore(n) == n <= MaxPolls

\* [ $ELAPSED -lt $TIMEOUT ]
TimeLeft(n) == n < MaxPolls

\* Mutant of Sleep: ELAPSED is not advanced.
SleepUncounted ==
    /\ pc = "test"
    /\ ~(running_count = 0 /\ queued_count = 0)
    /\ pc' = "running"
    /\ UNCHANGED <<stack, triggered, polling, success_count, inspection, result, atBreak, faults>>

\* Not yet: sleep, and poll again unless the time is up.
Sleep ==
    /\ pc = "test"
    /\ ~(running_count = 0 /\ queued_count = 0)
    /\ polls' = polls + 1
    /\ pc' = IF TimeLeft(polls + 1) THEN "running" ELSE "timeout"
    /\ UNCHANGED <<stack, triggered, running_count, queued_count, success_count, inspection,
                   result, atBreak, faults>>

Timeout ==
    /\ pc = "timeout"
    /\ fail' = fail + 1
    /\ pc' = "summary"
    /\ UNCHANGED <<stack, triggered, polling, success_count, inspection, warned, verdict, atBreak,
                   faults>>

\* Mutant of LooksLikeEight: no expected string, any output will do.
LooksLikeEightAlways(n) == TRUE

\* echo $SUCCESS_COUNT | grep -qi 8: an 8 anywhere in the number (below 1000).
LooksLikeEight(n) == n % 10 = 8 \/ (n \div 10) % 10 = 8 \/ (n \div 100) % 10 = 8

CheckSuccesses ==
    /\ pc = "success"
    /\ \E n \in {0, runs["success"]} :
          /\ Count("success", n)
          /\ success_count' = n
          /\ fail' = IF LooksLikeEight(n) THEN fail ELSE fail + 1
    /\ pc' = "inspect"
    /\ UNCHANGED <<stack, triggered, polling, inspection, warned, verdict, atBreak>>

\* docker inspect of one scheduler: the restart count, which is 0 for containers
\* that are never restarted, then the state; each may fail.
Inspect(s) ==
    /\ pc = "inspect"
    /\ state[s] = "unread"
    /\ \/ /\ state' = [state EXCEPT ![s] = IF s \in alive THEN "running" ELSE "exited"]
          /\ UNCHANGED <<restarts, faults>>
       \/ /\ state' = [state EXCEPT ![s] = IF s \in alive THEN "running" ELSE "exited"]
          /\ restarts' = [restarts EXCEPT ![s] = -1]
          /\ Fault
       \/ /\ state' = [state EXCEPT ![s] = "unknown"]
          /\ Fault
          /\ UNCHANGED restarts
    /\ pc' = IF \A r \in Schedulers \ {s} : state[r] # "unread" THEN "judge" ELSE pc
    /\ UNCHANGED <<stack, triggered, polling, success_count, result, atBreak>>

\* Mutant of SchedulerDown: both must be down.
SchedulerDownBoth == \A s \in Schedulers : state[s] # "running"

SchedulerDown == \E s \in Schedulers : state[s] # "running"

\* A scheduler that is down earns a warning; only if all run are the restart
\* counts checked.
Judge ==
    /\ pc = "judge"
    /\ IF SchedulerDown
       THEN warned' = TRUE /\ UNCHANGED fail
       ELSE /\ fail' = fail + Cardinality({s \in Schedulers : restarts[s] # 0})
            /\ UNCHANGED warned
    /\ pc' = "summary"
    /\ UNCHANGED <<stack, triggered, polling, success_count, inspection, verdict, atBreak, faults>>

Summary ==
    /\ pc = "summary"
    /\ verdict' = IF fail > 0 THEN "failed" ELSE "passed"
    /\ pc' = "end"
    /\ UNCHANGED <<stack, triggered, polling, success_count, inspection, warned, fail, atBreak,
                   faults>>

Script ==
    \/ Trigger
    \/ CountRunning
    \/ CountQueued
    \/ Break
    \/ Sleep
    \/ Timeout
    \/ CheckSuccesses
    \/ \E s \in Schedulers : Inspect(s)
    \/ Judge
    \/ Summary

Next ==
    \/ RunProceeds
    \/ \E s \in Schedulers : SchedulerCrashes(s)
    \/ TriggerFails
    \/ Script

Spec == Init /\ [][Next]_vars

\* The commands of the script return; the stack need not make progress.
FairSpec == Spec /\ WF_vars(Script)

-----------------------------------------------------------------------------
(* Properties. *)

\* "All 8 stress runs succeeded": a script that passes has triggered eight runs
\* and every one of them has succeeded, whatever it missed while polling.
PassedMeansSucceeded ==
    verdict = "passed" => triggered = 8 /\ runs["success"] = PriorSuccesses + triggered

\* A script that fails has a reason: a run that failed, a command that failed, a
\* poll that missed something, or the timeout.
FailedHasCause ==
    verdict = "failed" =>
        runs["failed"] > 0 \/ faults > 0 \/ missed > 0 \/ polls = MaxPolls

\* A scheduler that went down while runs were being polled does not go unmentioned,
\* however the script got past its checks.
CrashIsMentioned == verdict = "passed" /\ down # {} => warned

\* The script ends, whether or not the runs do.
ScriptEnds == <>(pc = "end")

\* How many commands the script has before it at most: the runs to trigger, three for
\* every poll it has time for, and those of the report.
Report == Cardinality(Schedulers) + 3
Loop == 3 * (MaxPolls - polls) + Report

CommandsLeft ==
    CASE pc = "trigger" -> LastRun - triggered + 3 * MaxPolls + Report
      [] pc = "running" -> Loop
      [] pc = "queued" -> Loop - 1
      [] pc = "test" -> Loop - 2
      [] pc = "timeout" -> 2
      [] pc = "success" -> Report
      [] pc = "inspect" -> Cardinality({s \in Schedulers : state[s] = "unread"}) + 2
      [] pc = "judge" -> 2
      [] pc = "summary" -> 1
      [] pc = "end" -> 0

script == <<pc, triggered, polling, success_count, inspection, result>>

\* Every command brings the script nearer to its end, whatever it answers and
\* whatever the stack does meanwhile: no run that never ends, and no command that
\* fails, keeps it polling.
ScriptAdvances == [][CommandsLeft' \in 0 .. CommandsLeft - 1]_script

\* The comment on the polling loop: "Poll until all runs are terminal".
PollsUntilTerminal == pc = "success" => missed = 0

\* The header of the script lists "no scheduler crashes" with the stress test.
PassedMeansNoCrash == verdict = "passed" => \A s \in Schedulers : state[s] # "exited"

=============================================================================
