----------------------- MODULE StressValidationProofs ----------------------
(***************************************************************************)
(* Proofs about StressValidation, for every number of polls and of failing *)
(* commands and every set of schedulers: what the verdict of the script is *)
(* worth on a volume without runs of an earlier validation.                *)
(***************************************************************************)
EXTENDS StressValidation, FiniteSetTheorems, TLAPS

InLoop == {"running", "queued", "test"}
AfterCheck == {"inspect", "judge", "summary"}

Total == runs["queued"] + runs["running"] + runs["success"] + runs["failed"]

\* All runs were triggered, by this script or an earlier one.
CountInv ==
    /\ Total = PriorSuccesses + triggered
    /\ triggered <= 8
    /\ pc = "trigger" => triggered < 8
    /\ pc \notin {"trigger", "end"} => triggered = 8
    /\ pc \in InLoop \cup {"trigger"} => polls < MaxPolls
    /\ pc = "timeout" => polls = MaxPolls

\* A count of successes taken is not above what it is now.
CheckInv ==
    /\ success_count <= runs["success"]
    /\ pc \in AfterCheck /\ fail = 0 => LooksLikeEight(success_count)
    /\ pc \notin AfterCheck \cup {"end"} => fail = 0
    /\ verdict # "none" => pc = "end"
    /\ verdict = "passed" => triggered = 8 /\ LooksLikeEight(success_count)

IInv == TypeOK /\ CountInv /\ CheckInv

LEMMA InvInit == Init => IInv
<1> SUFFICES ASSUME Init PROVE IInv
  OBVIOUS
<1>1. TypeOK
  <2>1. runs \in [RunStates -> Nat]
    BY StressAssumption DEF Init, RunStates
  <2>2. /\ state \in [Schedulers -> {"unread", "running", "exited", "unknown"}]
        /\ restarts \in [Schedulers -> {-1, 0}]
    BY DEF Init
  <2>3. polls \in 0 .. MaxPolls /\ faults \in 0 .. MaxFaults
    BY StressAssumption DEF Init
  <2> QED
    BY <2>1, <2>2, <2>3 DEF Init, TypeOK
<1>2. Total = PriorSuccesses
  BY StressAssumption DEF Init, Total, RunStates
<1>3. runs["success"] \in Nat
  BY <1>1 DEF TypeOK, RunStates
<1>4. CountInv
  BY <1>2, StressAssumption DEF Init, CountInv, InLoop
<1>5. CheckInv
  BY <1>3 DEF Init, CheckInv, AfterCheck
<1> QED
  BY <1>1, <1>4, <1>5 DEF IInv

\* Moving a run keeps the total and takes no success away.
LEMMA MoveFacts ==
    ASSUME TypeOK, NEW from \in {"queued", "running"}, NEW to \in RunStates, from # to,
           Move(from, to)
    PROVE  /\ runs' \in [RunStates -> Nat]
           /\ Total' = Total
           /\ runs["success"] <= runs'["success"]
           /\ runs["failed"] <= runs'["failed"]
BY DEF TypeOK, Move, Total, RunStates

LEMMA RunProceedsFacts ==
    ASSUME TypeOK, RunProceeds
    PROVE  /\ runs' \in [RunStates -> Nat]
           /\ Total' = Total
           /\ runs["success"] <= runs'["success"]
           /\ runs["failed"] <= runs'["failed"]
<1>1. CASE Move("queued", "running")
  BY <1>1, MoveFacts DEF RunStates
<1>2. CASE Move("running", "success")
  BY <1>2, MoveFacts DEF RunStates
<1>3. CASE Move("running", "failed")
  BY <1>3, MoveFacts DEF RunStates
<1> QED
  BY <1>1, <1>2, <1>3 DEF RunProceeds

\* A new queued run adds one to the total and nothing else.
LEMMA OneMore ==
    ASSUME TypeOK, NEW k \in Nat, runs' = [runs EXCEPT !["queued"] = @ + k]
    PROVE  /\ runs' \in [RunStates -> Nat]
           /\ Total' = Total + k
           /\ runs'["success"] = runs["success"]
           /\ runs'["failed"] = runs["failed"]
BY DEF TypeOK, Total, RunStates

\* Every step preserves the types and the inductive invariant.
LEMMA InvStep == IInv /\ [Next]_vars => IInv'
<1> SUFFICES ASSUME IInv, [Next]_vars PROVE IInv'
  OBVIOUS
<1> USE StressAssumption DEF IInv
<1>1. CASE RunProceeds
  <2>1. /\ runs' \in [RunStates -> Nat]
        /\ Total' = Total
        /\ runs["success"] <= runs'["success"]
    BY <1>1, RunProceedsFacts
  <2>2. UNCHANGED <<alive, pc, triggered, polling, success_count, inspection, result, atBreak,
                    faults>>
    BY <1>1 DEF RunProceeds
  <2>3. TypeOK'
    BY <2>1, <2>2 DEF TypeOK, polling, inspection, result, atBreak
  <2>4. CountInv'
    BY <2>1, <2>2 DEF CountInv, polling, InLoop
  <2>5. runs["success"] \in Nat /\ runs'["success"] \in Nat /\ success_count \in Nat
    BY <2>1 DEF TypeOK, RunStates
  <2>6. CheckInv'
    BY <2>1, <2>2, <2>5 DEF CheckInv, result, AfterCheck, LooksLikeEight
  <2> QED
    BY <2>3, <2>4, <2>6
<1>2. CASE \E s \in Schedulers : SchedulerCrashes(s)
  BY <1>2 DEF SchedulerCrashes, TypeOK, CountInv, CheckInv, Total, polling, inspection, result,
              atBreak, InLoop, AfterCheck, LooksLikeEight
<1>3. CASE TriggerFails
  <2>1. PICK made \in {0, 1} : /\ triggered' = triggered + made
                               /\ runs' = [runs EXCEPT !["queued"] = @ + made]
    BY <1>3 DEF TriggerFails
  <2>2. /\ runs' \in [RunStates -> Nat]
        /\ Total' = Total + made
        /\ runs'["success"] = runs["success"]
    BY <2>1, OneMore
  <2>3. /\ pc = "trigger" /\ pc' = "end" /\ verdict' = "aborted"
        /\ faults < MaxFaults /\ faults' = faults + 1
        /\ UNCHANGED <<alive, polling, success_count, inspection, warned, fail, atBreak>>
    BY <1>3 DEF TriggerFails, Fault
  <2>4. TypeOK'
    BY <2>1, <2>2, <2>3 DEF TypeOK, polling, inspection, atBreak
  <2>5. Total \in Nat
    BY DEF TypeOK, Total, RunStates
  <2>6. CountInv'
    BY <2>1, <2>2, <2>3, <2>5 DEF CountInv, TypeOK, InLoop
  <2>7. CheckInv'
    BY <2>2, <2>3 DEF CheckInv, AfterCheck
  <2> QED
    BY <2>4, <2>6, <2>7
<1>4. CASE Trigger
  <2>1. /\ runs' \in [RunStates -> Nat]
        /\ Total' = Total + 1
        /\ runs'["success"] = runs["success"]
    BY <1>4, OneMore DEF Trigger
  <2>2. /\ pc = "trigger" /\ triggered' = triggered + 1
        /\ pc' = IF triggered + 1 = 8 THEN "running" ELSE pc
        /\ UNCHANGED <<alive, polling, success_count, inspection, result, atBreak, faults>>
    BY <1>4 DEF Trigger, LastRun
  <2>3. TypeOK'
    BY <2>1, <2>2 DEF TypeOK, polling, inspection, result, atBreak
  <2>4. Total \in Nat
    BY DEF TypeOK, Total, RunStates
  <2>5. CountInv'
    BY <2>1, <2>2, <2>4 DEF CountInv, TypeOK, InLoop, polling
  <2>6. CheckInv'
    BY <2>1, <2>2 DEF CheckInv, AfterCheck, result
  <2> QED
    BY <2>3, <2>5, <2>6
<1>5. CASE CountRunning
  <2>1. TypeOK'
    BY <1>5 DEF CountRunning, Count, Fault, TypeOK, RunStates, stack, polling, inspection,
                result, atBreak
  <2>2. CountInv'
    BY <1>5 DEF CountRunning, Count, Fault, TypeOK, CountInv, InLoop, Total, stack, polling
  <2>3. CheckInv'
    BY <1>5 DEF CountRunning, Count, Fault, CheckInv, AfterCheck, stack, result
  <2> QED
    BY <2>1, <2>2, <2>3
<1>6. CASE CountQueued
  <2>1. TypeOK'
    BY <1>6 DEF CountQueued, Count, Fault, TypeOK, RunStates, stack, polling, inspection,
                result, atBreak
  <2>2. CountInv'
    BY <1>6 DEF CountQueued, Count, Fault, TypeOK, CountInv, InLoop, Total, stack, polling
  <2>3. CheckInv'
    BY <1>6 DEF CountQueued, Count, Fault, CheckInv, AfterCheck, stack, result
  <2> QED
    BY <2>1, <2>2, <2>3
<1>7. CASE Break
  <2>1. TypeOK'
    BY <1>7 DEF Break, TypeOK, stack, polling, inspection, result, atBreak, RunStates
  <2>2. CountInv'
    BY <1>7 DEF Break, TypeOK, CountInv, InLoop, Total, stack, polling
  <2>3. CheckInv'
    BY <1>7 DEF Break, CheckInv, AfterCheck, stack, result
  <2> QED
    BY <2>1, <2>2, <2>3
<1>8. CASE Sleep
  <2>1. TypeOK'
    BY <1>8 DEF Sleep, TimeLeft, TypeOK, CountInv, InLoop, stack, polling, inspection, result,
                atBreak
  <2>2. CountInv'
    BY <1>8 DEF Sleep, TimeLeft, TypeOK, CountInv, InLoop, Total, stack, polling
  <2>3. CheckInv'
    BY <1>8 DEF Sleep, TimeLeft, CheckInv, AfterCheck, stack, result
  <2> QED
    BY <2>1, <2>2, <2>3
<1>9. CASE Timeout
  <2>1. TypeOK'
    BY <1>9 DEF Timeout, TypeOK, stack, polling, inspection, result, atBreak
  <2>2. CountInv'
    BY <1>9 DEF Timeout, TypeOK, CountInv, InLoop, Total, stack, polling
  <2>3. CheckInv'
    BY <1>9 DEF Timeout, CheckInv, AfterCheck, stack, result
  <2> QED
    BY <2>1, <2>2, <2>3
<1>10. CASE CheckSuccesses
  <2>1. TypeOK'
    BY <1>10 DEF CheckSuccesses, Count, Fault, TypeOK, stack, polling, inspection, result,
                 atBreak, RunStates
  <2>2. CountInv'
    BY <1>10 DEF CheckSuccesses, Count, Fault, TypeOK, CountInv, InLoop, Total, stack, polling
  <2>3. CheckInv'
    BY <1>10 DEF CheckSuccesses, Count, Fault, TypeOK, CheckInv, AfterCheck, stack, RunStates
  <2> QED
    BY <2>1, <2>2, <2>3
<1>11. CASE \E s \in Schedulers : Inspect(s)
  <2>1. PICK s \in Schedulers : Inspect(s)
    BY <1>11
  <2>2. TypeOK'
    BY <2>1 DEF Inspect, Fault, TypeOK, stack, polling, result, atBreak
  <2>3. CountInv'
    BY <2>1 DEF Inspect, TypeOK, CountInv, InLoop, Total, stack, polling
  <2>4. CheckInv'
    BY <2>1 DEF Inspect, CheckInv, AfterCheck, LooksLikeEight, stack, result
  <2> QED
    BY <2>2, <2>3, <2>4
<1>12. CASE Judge
  <2>1. Cardinality({s \in Schedulers : restarts[s] # 0}) \in Nat
    BY FS_Subset, FS_CardinalityType
  <2>2. fail \in Nat /\ fail' \in Nat /\ fail' >= fail /\ warned' \in BOOLEAN
    <3>1. \/ fail' = fail
          \/ fail' = fail + Cardinality({s \in Schedulers : restarts[s] # 0})
      BY <1>12 DEF Judge
    <3>2. warned' \in BOOLEAN
      BY <1>12 DEF Judge, TypeOK
    <3>3. fail \in Nat
      BY DEF TypeOK
    <3> QED
      BY <2>1, <3>1, <3>2, <3>3
  <2>3. TypeOK'
    BY <1>12, <2>2 DEF Judge, TypeOK, stack, polling, inspection, atBreak
  <2>4. CountInv'
    BY <1>12 DEF Judge, TypeOK, CountInv, InLoop, Total, stack, polling
  <2>5. CheckInv'
    BY <1>12, <2>2 DEF Judge, CheckInv, AfterCheck, LooksLikeEight, stack
  <2> QED
    BY <2>3, <2>4, <2>5
<1>13. CASE Summary
  <2>1. TypeOK'
    BY <1>13 DEF Summary, TypeOK, stack, polling, inspection, result, atBreak
  <2>2. CountInv'
    BY <1>13 DEF Summary, TypeOK, CountInv, InLoop, Total, stack, polling
  <2>3. CheckInv'
    BY <1>13 DEF Summary, TypeOK, CountInv, CheckInv, AfterCheck, stack, result, RunStates
  <2> QED
    BY <2>1, <2>2, <2>3
<1>14. CASE UNCHANGED vars
  BY <1>14 DEF vars, TypeOK, CountInv, CheckInv, Total, stack, polling, inspection, result,
               atBreak, InLoop, AfterCheck, LooksLikeEight
<1> QED
  BY <1>1, <1>2, <1>3, <1>4, <1>5, <1>6, <1>7, <1>8, <1>9, <1>10, <1>11, <1>12, <1>13, <1>14
     DEF Next, Script

THEOREM Invariance == Spec => []IInv
BY InvInit, InvStep, PTL DEF Spec

\* What the script and the stack keep stays in its types.
THEOREM TypeCorrect == Spec => []TypeOK
<1>1. IInv => TypeOK
  BY DEF IInv
<1> QED
  BY Invariance, <1>1, PTL

-----------------------------------------------------------------------------
(* A passing verdict. *)

\* Up to eight, only eight looks like eight.
LEMMA OnlyEight == ASSUME NEW n \in 0 .. 8 PROVE LooksLikeEight(n) <=> n = 8
BY DEF LooksLikeEight

\* On a fresh volume a script that passes has seen eight successful runs, all its own.
THEOREM PassedIsTrue ==
    ASSUME PriorSuccesses = 0
    PROVE  Spec => []PassedMeansSucceeded
<1>1. IInv => PassedMeansSucceeded
  <2> SUFFICES ASSUME IInv, verdict = "passed"
               PROVE  triggered = 8 /\ runs["success"] = PriorSuccesses + triggered
    BY DEF PassedMeansSucceeded
  <2>1. triggered = 8 /\ LooksLikeEight(success_count)
    BY DEF IInv, CheckInv
  <2>2. /\ Total = 8
        /\ success_count <= runs["success"]
        /\ success_count \in Nat
    BY <2>1 DEF IInv, TypeOK, CountInv, CheckInv
  <2>3. runs["success"] <= 8 /\ success_count \in 0 .. 8 /\ runs["success"] \in Nat
    BY <2>2 DEF IInv, TypeOK, Total, RunStates
  <2>4. success_count = 8
    BY <2>1, <2>3, OnlyEight
  <2> QED
    BY <2>1, <2>2, <2>3, <2>4
<1> QED
  BY Invariance, <1>1, PTL

-----------------------------------------------------------------------------
(* A failing verdict. *)

\* What can explain a failure.
Cause == runs["failed"] > 0 \/ faults > 0 \/ missed > 0 \/ polls = MaxPolls

\* Every failure counted so far is explained; after polling that missed nothing no
\* run is left to end.
FailInv ==
    /\ fail > 0 => Cause
    /\ verdict = "failed" => fail > 0
    /\ \A s \in Schedulers : restarts[s] # 0 => faults > 0
    /\ pc = "success" /\ missed = 0 => runs["queued"] = 0 /\ runs["running"] = 0

\* Every step preserves it.
LEMMA FailStep ==
    ASSUME PriorSuccesses = 0, IInv, FailInv, [Next]_vars
    PROVE  FailInv'
<1> USE StressAssumption DEF IInv
<1>0. /\ \A st \in RunStates : runs[st] \in Nat
      /\ fail \in Nat /\ faults \in Nat /\ missed \in Nat /\ polls \in Nat
  BY DEF TypeOK
<1>1. CASE RunProceeds
  <2>1. runs["failed"] <= runs'["failed"] /\ runs'["failed"] \in Nat
    BY <1>1, RunProceedsFacts DEF RunStates
  <2>2. UNCHANGED <<pc, polls, fail, verdict, restarts, missed, faults>>
    BY <1>1 DEF RunProceeds, polling, inspection, result, atBreak
  <2>3. ~(runs["queued"] = 0 /\ runs["running"] = 0)
    BY <1>0, <1>1 DEF RunProceeds, Move, RunStates
  <2>4. runs["failed"] > 0 => runs'["failed"] > 0
    BY <1>0, <2>1 DEF RunStates
  <2> QED
    BY <2>2, <2>3, <2>4 DEF FailInv, Cause
<1>2. CASE \E s \in Schedulers : SchedulerCrashes(s)
  BY <1>2 DEF SchedulerCrashes, FailInv, Cause, polling, inspection, result, atBreak
<1>3. CASE TriggerFails
  BY <1>0, <1>3 DEF TriggerFails, Fault, FailInv, Cause, polling, inspection, atBreak
<1>4. CASE Trigger
  <2>1. fail = 0 /\ UNCHANGED <<fail, verdict, restarts, missed, faults>> /\ pc' # "success"
    BY <1>4 DEF Trigger, CheckInv, AfterCheck, inspection, result, atBreak
  <2> QED
    BY <2>1 DEF FailInv, Cause
<1>5. CASE CountRunning \/ CountQueued \/ Sleep
  <2>1. fail = 0 /\ UNCHANGED <<fail, verdict, restarts>> /\ pc' # "success" /\ faults' >= faults
    BY <1>0, <1>5 DEF CountRunning, CountQueued, Sleep, Count, Fault, CheckInv, AfterCheck,
                      inspection, result
  <2>2. faults > 0 => faults' > 0
    BY <1>0, <1>5 DEF CountRunning, CountQueued, Sleep, Count, Fault
  <2> QED
    BY <2>1, <2>2 DEF FailInv
<1>6. CASE Break
  <2>1. fail = 0 /\ UNCHANGED <<runs, fail, verdict, restarts, faults>>
    BY <1>6 DEF Break, CheckInv, AfterCheck, stack, inspection, result
  <2>2. missed' = 0 => runs["queued"] = 0 /\ runs["running"] = 0
    BY <1>0, <1>6 DEF Break, RunStates
  <2> QED
    BY <2>1, <2>2 DEF FailInv
<1>7. CASE Timeout
  <2>1. polls' = MaxPolls /\ fail' > 0 /\ UNCHANGED <<verdict, restarts, faults>>
    BY <1>0, <1>7 DEF Timeout, CountInv, polling, inspection
  <2> QED
    BY <1>7, <2>1 DEF FailInv, Cause, Timeout
<1>8. CASE CheckSuccesses
  <2>1. PICK n \in {0, runs["success"]} :
           Count("success", n) /\ fail' = IF LooksLikeEight(n) THEN fail ELSE fail + 1
    BY <1>8 DEF CheckSuccesses
  <2>2. UNCHANGED <<runs, polls, verdict, restarts, missed>> /\ pc = "success" /\ pc' = "inspect"
    BY <1>8 DEF CheckSuccesses, stack, polling, inspection, atBreak
  <2>3. CASE faults' > 0
    BY <1>8, <2>2, <2>3 DEF FailInv, Cause, CheckInv, AfterCheck
  <2>4. CASE n = runs["success"] /\ UNCHANGED faults
    <3>1. CASE missed = 0 /\ runs["failed"] = 0
      <4>1. runs["success"] = 8
        BY <1>0, <2>2, <3>1 DEF FailInv, CountInv, Total, InLoop, RunStates
      <4>2. LooksLikeEight(8)
        BY OnlyEight
      <4> QED
        BY <2>1, <2>2, <2>4, <4>1, <4>2 DEF FailInv, CheckInv, AfterCheck
    <3>2. CASE missed > 0 \/ runs["failed"] > 0
      BY <2>2, <2>4, <3>2 DEF FailInv, Cause, CheckInv, AfterCheck
    <3> QED
      BY <1>0, <3>1, <3>2 DEF RunStates
  <2> QED
    BY <1>0, <2>1, <2>3, <2>4 DEF Count, Fault
<1>9. CASE \E s \in Schedulers : Inspect(s)
  <2>1. PICK s \in Schedulers : Inspect(s)
    BY <1>9
  <2>2. UNCHANGED <<runs, polls, fail, verdict, missed>> /\ pc' # "success"
    BY <2>1 DEF Inspect, stack, polling, result, atBreak
  <2>3. \/ UNCHANGED <<restarts, faults>>
        \/ faults' > 0
    BY <1>0, <2>1 DEF Inspect, Fault
  <2> QED
    BY <2>2, <2>3 DEF FailInv, Cause
<1>10. CASE Judge
  <2>1. UNCHANGED <<runs, polls, verdict, restarts, missed, faults>> /\ pc' # "success"
    BY <1>10 DEF Judge, stack, polling, inspection, atBreak
  <2>2. CASE \A s \in Schedulers : restarts[s] = 0
    <3>1. {s \in Schedulers : restarts[s] # 0} = {}
      BY <2>2
    <3>2. fail' = fail \/ fail' = fail + Cardinality({s \in Schedulers : restarts[s] # 0})
      BY <1>10 DEF Judge
    <3>3. fail' = fail
      BY <1>0, <3>1, <3>2, FS_EmptySet
    <3> QED
      BY <2>1, <3>3 DEF FailInv, Cause
  <2>3. CASE \E s \in Schedulers : restarts[s] # 0
    <3>1. faults > 0
      BY <2>3 DEF FailInv
    <3>2. verdict # "failed"
      BY <1>10 DEF Judge, CheckInv
    <3> QED
      BY <2>1, <3>1, <3>2 DEF FailInv, Cause
  <2> QED
    BY <2>2, <2>3
<1>11. CASE Summary
  BY <1>11 DEF Summary, FailInv, Cause, stack, polling, inspection, atBreak
<1>12. CASE UNCHANGED vars
  BY <1>12 DEF vars, FailInv, Cause, stack, polling, inspection, result, atBreak
<1> QED
  BY <1>1, <1>2, <1>3, <1>4, <1>5, <1>6, <1>7, <1>8, <1>9, <1>10, <1>11, <1>12 DEF Next, Script

\* On a fresh volume a script that fails has something to show for it.
THEOREM FailedIsExplained ==
    ASSUME PriorSuccesses = 0
    PROVE  Spec => []FailedHasCause
<1>1. Init => FailInv
  BY DEF Init, FailInv
<1>2. IInv /\ FailInv /\ [Next]_vars => FailInv'
  BY FailStep
<1>3. FailInv => FailedHasCause
  BY DEF FailInv, FailedHasCause, Cause
<1> QED
  BY Invariance, <1>1, <1>2, <1>3, PTL DEF Spec

-----------------------------------------------------------------------------
(* A scheduler that went down. *)

BeforeBreak == {"trigger", "running", "queued", "test", "timeout"}

\* A scheduler that was down when the polling ended stays down and is never seen running;
\* nothing was inspected before.
CrashInv ==
    /\ down \subseteq Schedulers \ alive
    /\ \A s \in down : state[s] # "running"
    /\ pc \in BeforeBreak => down = {} /\ \A s \in Schedulers : state[s] = "unread"
    /\ pc \in {"summary", "end"} /\ down # {} => warned

\* Every step preserves it.
LEMMA CrashStep ==
    ASSUME TypeOK, CrashInv, [Next]_vars
    PROVE  CrashInv'
<1>1. CASE RunProceeds
  BY <1>1 DEF RunProceeds, CrashInv, inspection, result, atBreak
<1>2. CASE \E s \in Schedulers : SchedulerCrashes(s)
  BY <1>2 DEF SchedulerCrashes, CrashInv, inspection, result, atBreak
<1>3. CASE TriggerFails \/ Trigger \/ CountRunning \/ CountQueued \/ Sleep \/ Timeout
  <2>1. /\ pc \in BeforeBreak /\ down' = down /\ state' = state
        /\ alive' = alive
    BY <1>3 DEF TriggerFails, Trigger, CountRunning, CountQueued, Sleep, Timeout, BeforeBreak,
                stack, inspection, atBreak
  <2> QED
    BY <2>1 DEF CrashInv
<1>4. CASE Break
  <2>1. /\ pc = "test" /\ pc' = "success" /\ down' = Schedulers \ alive
        /\ alive' = alive /\ state' = state
    BY <1>4 DEF Break, stack, inspection
  <2>2. \A s \in Schedulers : state[s] = "unread"
    BY <2>1 DEF CrashInv, BeforeBreak
  <2> QED
    BY <2>1, <2>2 DEF CrashInv, BeforeBreak
<1>5. CASE CheckSuccesses
  BY <1>5 DEF CheckSuccesses, CrashInv, BeforeBreak, stack, inspection, atBreak
<1>6. CASE \E s \in Schedulers : Inspect(s)
  <2>1. PICK s \in Schedulers : Inspect(s)
    BY <1>6
  <2>2. /\ pc = "inspect" /\ pc' \in {"inspect", "judge"}
        /\ down' = down /\ alive' = alive
    BY <2>1 DEF Inspect, stack, atBreak
  <2>3. /\ \A r \in Schedulers \ {s} : state'[r] = state[r]
        /\ s \notin alive => state'[s] # "running"
    BY <2>1 DEF Inspect, TypeOK
  <2> QED
    BY <2>2, <2>3 DEF CrashInv, BeforeBreak
<1>7. CASE Judge
  <2>1. /\ pc = "judge" /\ pc' = "summary"
        /\ down' = down /\ alive' = alive /\ state' = state
        /\ SchedulerDown => warned'
    BY <1>7 DEF Judge, stack, inspection, atBreak
  <2>2. down # {} => SchedulerDown
    BY DEF CrashInv, SchedulerDown
  <2> QED
    BY <2>1, <2>2 DEF CrashInv, BeforeBreak
<1>8. CASE Summary
  BY <1>8 DEF Summary, CrashInv, BeforeBreak, stack, inspection, atBreak
<1>9. CASE UNCHANGED vars
  BY <1>9 DEF vars, CrashInv, stack, inspection, result, atBreak
<1> QED
  BY <1>1, <1>2, <1>3, <1>4, <1>5, <1>6, <1>7, <1>8, <1>9 DEF Next, Script

\* On any volume, a pass after a scheduler went down during the polling has the warning.
THEOREM CrashIsReported == Spec => []CrashIsMentioned
<1>1. Init => CrashInv
  BY DEF Init, CrashInv
<1>2. TypeOK /\ CrashInv /\ [Next]_vars => CrashInv'
  BY CrashStep
<1>3. IInv /\ CrashInv => CrashIsMentioned
  BY DEF IInv, CheckInv, CrashInv, CrashIsMentioned
<1>4. IInv => TypeOK
  BY DEF IInv
<1> QED
  BY Invariance, <1>1, <1>2, <1>3, <1>4, PTL DEF Spec

-----------------------------------------------------------------------------
(* The script comes nearer to its end. *)

Unread == {s \in Schedulers : state[s] = "unread"}

LEMMA UnreadFacts ==
    /\ IsFiniteSet(Unread) /\ IsFiniteSet(Unread')
    /\ Cardinality(Schedulers) \in Nat
    /\ Cardinality(Unread) \in 0 .. Cardinality(Schedulers)
    /\ Cardinality(Unread') \in 0 .. Cardinality(Schedulers)
<1>1. Unread \subseteq Schedulers /\ Unread' \subseteq Schedulers
  BY DEF Unread
<1> QED
  BY <1>1, StressAssumption, FS_Subset, FS_CardinalityType

\* What is left at each command; nothing else is needed of CommandsLeft.
LEMMA CommandsLeftIs ==
    /\ pc = "trigger" => CommandsLeft = LastRun - triggered + 3 * MaxPolls + Report
    /\ pc = "running" => CommandsLeft = Loop
    /\ pc = "queued" => CommandsLeft = Loop - 1
    /\ pc = "test" => CommandsLeft = Loop - 2
    /\ pc = "timeout" => CommandsLeft = 2
    /\ pc = "success" => CommandsLeft = Report
    /\ pc = "inspect" => CommandsLeft = Cardinality(Unread) + 2
    /\ pc = "judge" => CommandsLeft = 2
    /\ pc = "summary" => CommandsLeft = 1
    /\ pc = "end" => CommandsLeft = 0
BY Zenon DEF CommandsLeft, Unread

LEMMA CommandsLeftIsPrimed ==
    /\ pc' = "trigger" => CommandsLeft' = LastRun - triggered' + 3 * MaxPolls + Report
    /\ pc' = "running" => CommandsLeft' = Loop'
    /\ pc' = "queued" => CommandsLeft' = Loop' - 1
    /\ pc' = "test" => CommandsLeft' = Loop' - 2
    /\ pc' = "timeout" => CommandsLeft' = 2
    /\ pc' = "success" => CommandsLeft' = Report
    /\ pc' = "inspect" => CommandsLeft' = Cardinality(Unread') + 2
    /\ pc' = "judge" => CommandsLeft' = 2
    /\ pc' = "summary" => CommandsLeft' = 1
    /\ pc' = "end" => CommandsLeft' = 0
BY Zenon DEF CommandsLeft, Unread

\* Looking at one scheduler leaves one less unread.
LEMMA InspectReads ==
    ASSUME TypeOK, NEW s \in Schedulers, Inspect(s)
    PROVE  Cardinality(Unread') = Cardinality(Unread) - 1 /\ Cardinality(Unread) >= 1
<1>1. Unread' = Unread \ {s} /\ s \in Unread
  BY DEF Inspect, TypeOK, Unread
<1> QED
  BY <1>1, UnreadFacts, FS_RemoveElement

LEMMA CommandStep ==
    ASSUME IInv, TriggerFails \/ Script
    PROVE  CommandsLeft' \in 0 .. CommandsLeft - 1
<1> USE StressAssumption, CommandsLeftIs, CommandsLeftIsPrimed, UnreadFacts DEF Report, Loop
<1>0. triggered \in Nat /\ triggered <= 8 /\ polls \in 0 .. MaxPolls /\ LastRun = 8
  BY DEF IInv, TypeOK, CountInv, LastRun
<1>1. CASE TriggerFails
  BY <1>0, <1>1 DEF TriggerFails
<1>2. CASE Trigger
  <2>1. pc = "trigger" /\ triggered < 8 /\ triggered' = triggered + 1 /\ polls' = polls
    BY <1>2 DEF Trigger, IInv, CountInv, polling
  <2>2. pc' = "running" \/ pc' = "trigger"
    BY <1>2 DEF Trigger
  <2> QED
    BY <1>0, <2>1, <2>2
<1>3. CASE CountRunning
  BY <1>0, <1>3 DEF CountRunning
<1>4. CASE CountQueued
  BY <1>0, <1>4 DEF CountQueued
<1>5. CASE Break
  BY <1>0, <1>5 DEF Break, IInv, CountInv, InLoop
<1>6. CASE Sleep
  <2>1. /\ pc = "test" /\ polls < MaxPolls /\ polls' = polls + 1
        /\ pc' = "running" \/ pc' = "timeout"
    BY <1>6 DEF Sleep, IInv, CountInv, InLoop
  <2> QED
    BY <1>0, <2>1
<1>7. CASE Timeout
  BY <1>7 DEF Timeout
<1>8. CASE CheckSuccesses
  BY <1>8 DEF CheckSuccesses
<1>9. CASE \E s \in Schedulers : Inspect(s)
  <2>1. PICK s \in Schedulers : Inspect(s)
    BY <1>9
  <2>2. pc = "inspect" /\ (pc' = "inspect" \/ pc' = "judge")
    BY <2>1 DEF Inspect
  <2> QED
    BY <2>1, <2>2, InspectReads DEF IInv
<1>10. CASE Judge
  BY <1>10 DEF Judge
<1>11. CASE Summary
  BY <1>11 DEF Summary
<1> QED
  BY <1>1, <1>2, <1>3, <1>4, <1>5, <1>6, <1>7, <1>8, <1>9, <1>10, <1>11 DEF Script

\* Whatever its commands answer and whatever the runs and schedulers do meanwhile, the
\* script comes nearer to its end with every command.
THEOREM ScriptAdvance == Spec => ScriptAdvances
<1>1. IInv /\ [Next]_vars => [CommandsLeft' \in 0 .. CommandsLeft - 1]_script
  <2>1. ASSUME IInv, TriggerFails \/ Script PROVE CommandsLeft' \in 0 .. CommandsLeft - 1
    BY <2>1, CommandStep
  <2>2. ASSUME RunProceeds \/ \E s \in Schedulers : SchedulerCrashes(s) PROVE UNCHANGED script
    BY <2>2 DEF RunProceeds, SchedulerCrashes, script
  <2>3. UNCHANGED vars => UNCHANGED script
    BY DEF vars, script
  <2> QED
    BY <2>1, <2>2, <2>3 DEF Next
<1> QED
  BY <1>1, Invariance, PTL DEF Spec, ScriptAdvances

=============================================================================
