-------------------------- MODULE TaskHandoffProofs --------------------------
(***************************************************************************)
(* What the hand-off of TaskHandoff promises, for any number of schedulers *)
(* and tasks. SchedulerHA implements it, so it promises this as well.      *)
(***************************************************************************)
EXTENDS TaskHandoff, TLAPS

HandoffInv == HandoffTypeOK /\ HeldOnceTaken /\ LostWithHolder

\* Everything starts untouched.
LEMMA HandoffStarts == None \notin Schedulers /\ HandoffInit => HandoffInv
BY DEF HandoffInit, HandoffInv, HandoffTypeOK, HeldOnceTaken, LostWithHolder, Stages

\* Every step keeps holders and stages in agreement.
LEMMA HandoffKept ==
    ASSUME None \notin Schedulers, HandoffInv, [HandoffNext]_handoffVars
    PROVE  HandoffInv'
<1> USE DEF HandoffInv, HandoffTypeOK, HeldOnceTaken, LostWithHolder, Stages, Move
<1>1. CASE UNCHANGED handoffVars
  BY <1>1 DEF handoffVars
<1>2. ASSUME NEW t \in Tasks, Offer(t) PROVE HandoffInv'
  BY <1>2 DEF Offer
<1>3. ASSUME NEW t \in Tasks, Complete(t) PROVE HandoffInv'
  BY <1>3 DEF Complete
<1>4. ASSUME NEW s \in Schedulers, NEW B \in SUBSET Tasks, Assign(s, B) PROVE HandoffInv'
  BY <1>4 DEF Assign, InStage
<1>5. ASSUME NEW s \in Schedulers, NEW B \in SUBSET Tasks, Send(s, B) PROVE HandoffInv'
  BY <1>5 DEF Send, InStage, HeldBy
<1>6. ASSUME NEW s \in Schedulers, NEW B \in SUBSET Tasks, Die(s, B) PROVE HandoffInv'
  <2>1. /\ HandoffTypeOK'
        /\ HeldOnceTaken'
    BY <1>6 DEF Die, InStage, HeldBy
  <2>2. ASSUME NEW t \in Tasks
        PROVE  /\ stage'[t] = "lost" => holder'[t] \notin alive'
               /\ stage'[t] \in {"assigned", "sent"} => holder'[t] \in alive'
    <3>1. CASE t \in B
      BY <1>6, <3>1 DEF Die, InStage, HeldBy
    <3>2. CASE t \notin B /\ holder[t] = s
      BY <1>6, <3>2 DEF Die, InStage, HeldBy
    <3>3. CASE t \notin B /\ holder[t] # s
      BY <1>6, <3>3 DEF Die, InStage, HeldBy
    <3> QED BY <3>1, <3>2, <3>3
  <2> QED BY <2>1, <2>2
<1> QED BY <1>1, <1>2, <1>3, <1>4, <1>5, <1>6 DEF HandoffNext

\* One step moves a task forward and never takes it from its holder.
LEMMA HandoffForward ==
    ASSUME None \notin Schedulers, HandoffInv, HandoffNext
    PROVE  HandedOnce
<1> USE DEF HandoffInv, HandoffTypeOK, HeldOnceTaken, LostWithHolder, Stages, Move
<1> SUFFICES ASSUME NEW t \in Tasks
             PROVE  /\ holder[t] # None => holder'[t] = holder[t]
                    /\ stage'[t] # stage[t] => stage'[t] \in After(stage[t])
  BY DEF HandedOnce
<1>1. /\ After("new") = Stages \ {"new"}
      /\ After("waiting") = Stages \ {"new", "waiting"}
      /\ After("assigned") = {"sent", "done", "lost"}
      /\ After("sent") = {"done", "lost"}
  BY Zenon DEF After
<1>2. ASSUME NEW u \in Tasks, Offer(u) \/ Complete(u)
      PROVE  /\ holder[t] # None => holder'[t] = holder[t]
             /\ stage'[t] # stage[t] => stage'[t] \in After(stage[t])
  BY <1>1, <1>2 DEF Offer, Complete
<1>3. ASSUME NEW s \in Schedulers, NEW B \in SUBSET Tasks, Assign(s, B) \/ Send(s, B)
      PROVE  /\ holder[t] # None => holder'[t] = holder[t]
             /\ stage'[t] # stage[t] => stage'[t] \in After(stage[t])
  BY <1>1, <1>3 DEF Assign, Send, InStage, HeldBy
<1>4. ASSUME NEW s \in Schedulers, NEW B \in SUBSET Tasks, Die(s, B)
      PROVE  /\ holder[t] # None => holder'[t] = holder[t]
             /\ stage'[t] # stage[t] => stage'[t] \in After(stage[t])
  \* A lost task has lost its holder before, so it is not lost with s.
  <2>1. stage[t] = "lost" => holder[t] # s /\ t \notin B
    BY <1>4 DEF Die, InStage
  <2>2. holder[t] # None => t \notin B
    BY <1>4 DEF Die, InStage
  <2>3. stage[t] \in {"new", "waiting"} => holder[t] # s
    BY <1>4
  <2> QED BY <1>1, <1>4, <2>1, <2>2, <2>3 DEF Die, InStage, HeldBy
<1> QED BY <1>2, <1>3, <1>4 DEF HandoffNext

\* The tasks with a holder are those that were handed out, and a task is with its holder,
\* or lost with it.
THEOREM HandoffInvariance ==
    ASSUME None \notin Schedulers
    PROVE  HandoffSpec => []HandoffInv
<1>1. HandoffInit => HandoffInv
  BY HandoffStarts
<1>2. HandoffInv /\ [HandoffNext]_handoffVars => HandoffInv'
  BY HandoffKept
<1> QED BY <1>1, <1>2, PTL DEF HandoffSpec

\* A task is handed out at most once, sent at most once and lost only for good, and it never
\* changes hands, whoever dies in between.
THEOREM HandoffOnce ==
    ASSUME None \notin Schedulers
    PROVE  HandoffSpec => NeverHandedTwice
<1>1. HandoffInv /\ [HandoffNext]_handoffVars => [HandedOnce]_handoffVars
  BY HandoffForward
<1> QED BY <1>1, HandoffInvariance, PTL DEF HandoffSpec, NeverHandedTwice

=============================================================================
