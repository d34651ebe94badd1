----------------------- MODULE RetryMiddlewareProofs -----------------------
(***************************************************************************)
(* Proofs about RetryMiddleware, for every set of callers, every number of *)
(* retries and every bound on faults.                                      *)
(***************************************************************************)
EXTENDS RetryMiddleware, TLAPS

\* The work of a call is in the database once per answer that was lost, and once
\* more when the call returns; a call only sleeps when it has an attempt left.
ReportInv ==
    /\ AppliedAsReported
    /\ \A c \in Clients : pc[c] = "sleep" => CanRetry(c)

\* The session at each point of run_with_retry.
SessionInv ==
    FreshSessions =>
        \A c \in Clients :
            /\ pc[c] \in {"begin", "returned", "raised"} => session[c] = "none"
            /\ pc[c] \in {"work", "sleep", "return"} => session[c] = "clean"
            /\ pc[c] = "commit" => session[c] = "active"
            /\ pc[c] = "handler" => session[c] = "failed"

\* Every attempt that is over was ended by an interference of its own: a commit
\* of another caller since the attempt's snapshot, or a fault.
LoadInv ==
    FreshSessions =>
        \A c \in Clients :
            /\ pc[c] \in {"begin", "work"} => attempt[c] <= Interference(c)
            /\ pc[c] = "commit" =>
                  /\ snapshot[c] <= version
                  /\ attempt[c] <= snapshot[c] - applied[c] + disturbed[c]
            /\ pc[c] \in {"handler", "sleep", "raise", "raised"} =>
                  IF IsRetryableError(error[c]) THEN attempt[c] < Interference(c)
                                                ELSE disturbed[c] > 0
            /\ pc[c] \in {"raise", "raised"} /\ IsRetryableError(error[c]) =>
                  attempt[c] = MaxRetries

\* The three parts are preserved in this order, each with the help of the ones before.
IInv == TypeOK /\ ReportInv /\ SessionInv /\ LoadInv

LEMMA InvInit == Init => IInv
BY RetryAssumption
   DEF Init, IInv, TypeOK, ReportInv, SessionInv, LoadInv, AppliedAsReported, Interference,
       FreshSessions, Errors, WrapperNames

\* One step of one call keeps the types.
LEMMA TypeStep == TypeOK /\ [Next]_vars => TypeOK'
<1> SUFFICES ASSUME TypeOK, [Next]_vars PROVE TypeOK'
  OBVIOUS
<1> USE RetryAssumption DEF TypeOK, call, history, Goto, SetSession, RaiseIn, Errors
<1>1. CASE UNCHANGED vars
  BY <1>1 DEF vars
<1>2. ASSUME NEW c \in Clients, CallStep(c) PROVE TypeOK'
  <2>1. CASE Begin(c)
    BY <2>1 DEF Begin
  <2>2. CASE Work(c)
    BY <2>2 DEF Work
  <2>3. CASE WorkOnFailedSession(c)
    BY <2>3 DEF WorkOnFailedSession
  <2>4. CASE Commit(c)
    BY <2>4 DEF Commit, Apply
  <2>5. CASE Conflict(c)
    BY <2>5 DEF Conflict
  <2>6. CASE Handler(c)
    BY <2>6 DEF Handler
  <2>7. CASE Wake(c)
    BY <2>7 DEF Wake, CloseSession, AfterLoop
  <2>8. CASE Leave(c)
    BY <2>8 DEF Leave, CloseSession
  <2> QED BY <1>2, <2>1, <2>2, <2>3, <2>4, <2>5, <2>6, <2>7, <2>8 DEF CallStep
<1>3. ASSUME NEW c \in Clients, Fault(c) PROVE TypeOK'
  <2>1. CASE AttemptFails(c)
    BY <2>1 DEF AttemptFails, Disturb
  <2>2. CASE CommitAnswerLost(c)
    BY <2>2 DEF CommitAnswerLost, Disturb, Apply
  <2>3. CASE RollbackFails(c)
    BY <2>3 DEF RollbackFails, Disturb
  <2> QED BY <1>3, <2>1, <2>2, <2>3 DEF Fault
<1> QED BY <1>1, <1>2, <1>3 DEF Next

\* A call's report stays true; the loop never runs out while the call sleeps.
LEMMA ReportStep == TypeOK /\ ReportInv /\ [Next]_vars => ReportInv'
<1> SUFFICES ASSUME TypeOK, ReportInv, [Next]_vars PROVE ReportInv'
  OBVIOUS
<1> USE RetryAssumption DEF TypeOK, call, history, Goto, SetSession, RaiseIn, ReportInv, AppliedAsReported, CanRetry, IsRetryableError
<1>1. CASE UNCHANGED vars
  BY <1>1 DEF vars
<1>2. ASSUME NEW c \in Clients, CallStep(c) PROVE ReportInv'
  <2>1. CASE Begin(c)
    BY <2>1 DEF Begin
  <2>2. CASE Work(c)
    BY <2>2 DEF Work
  <2>3. CASE WorkOnFailedSession(c)
    BY <2>3 DEF WorkOnFailedSession
  <2>4. CASE Commit(c)
    BY <2>4 DEF Commit, Apply
  <2>5. CASE Conflict(c)
    BY <2>5 DEF Conflict
  <2>6. CASE Handler(c)
    BY <2>6 DEF Handler
  <2>7. CASE Wake(c)
    BY <2>7 DEF Wake, CloseSession, AfterLoop
  <2>8. CASE Leave(c)
    BY <2>8 DEF Leave, CloseSession
  <2> QED BY <1>2, <2>1, <2>2, <2>3, <2>4, <2>5, <2>6, <2>7, <2>8 DEF CallStep
<1>3. ASSUME NEW c \in Clients, Fault(c) PROVE ReportInv'
  <2>1. CASE AttemptFails(c)
    BY <2>1 DEF AttemptFails, Disturb
  <2>2. CASE CommitAnswerLost(c)
    BY <2>2 DEF CommitAnswerLost, Apply, Disturb
  <2>3. CASE RollbackFails(c)
    BY <2>3 DEF RollbackFails, Disturb
  <2> QED BY <1>3, <2>1, <2>2, <2>3 DEF Fault
<1> QED BY <1>1, <1>2, <1>3 DEF Next

\* Each attempt gets a session, and it is rolled back and closed on every path.
LEMMA SessionStep == TypeOK /\ ReportInv /\ SessionInv /\ [Next]_vars => SessionInv'
<1> SUFFICES ASSUME TypeOK, ReportInv, SessionInv, [Next]_vars PROVE SessionInv'
  OBVIOUS
<1> USE RetryAssumption DEF TypeOK, call, history, Goto, SetSession, RaiseIn, ReportInv, SessionInv, FreshSessions, CanRetry
<1>1. CASE UNCHANGED vars
  BY <1>1 DEF vars
<1>2. ASSUME NEW c \in Clients, CallStep(c) PROVE SessionInv'
  <2>1. CASE Begin(c)
    BY <2>1 DEF Begin
  <2>2. CASE Work(c)
    BY <2>2 DEF Work
  <2>3. CASE WorkOnFailedSession(c)
    BY <2>3 DEF WorkOnFailedSession
  <2>4. CASE Commit(c)
    BY <2>4 DEF Commit, Apply
  <2>5. CASE Conflict(c)
    BY <2>5 DEF Conflict
  <2>6. CASE Handler(c)
    BY <2>6 DEF Handler
  <2>7. CASE Wake(c)
    BY <2>7 DEF Wake, CloseSession, AfterLoop
  <2>8. CASE Leave(c)
    BY <2>8 DEF Leave, CloseSession
  <2> QED BY <1>2, <2>1, <2>2, <2>3, <2>4, <2>5, <2>6, <2>7, <2>8 DEF CallStep
<1>3. ASSUME NEW c \in Clients, Fault(c) PROVE SessionInv'
  <2>1. CASE AttemptFails(c)
    BY <2>1 DEF AttemptFails, Disturb
  <2>2. CASE CommitAnswerLost(c)
    BY <2>2 DEF CommitAnswerLost, Apply, Disturb
  <2>3. CASE RollbackFails(c)
    BY <2>3 DEF RollbackFails, Disturb
  <2> QED BY <1>3, <2>1, <2>2, <2>3 DEF Fault
<1> QED BY <1>1, <1>2, <1>3 DEF Next

\* An attempt fails because the row moved on since its snapshot, or by a fault.
LEMMA LoadStep == TypeOK /\ ReportInv /\ SessionInv /\ LoadInv /\ [Next]_vars => LoadInv'
<1> SUFFICES ASSUME TypeOK, ReportInv, SessionInv, LoadInv, [Next]_vars PROVE LoadInv'
  OBVIOUS
<1> USE RetryAssumption DEF TypeOK, call, history, Goto, SetSession, RaiseIn, ReportInv, SessionInv, LoadInv, Interference, FreshSessions, CanRetry, IsRetryableError, Errors
<1>1. CASE UNCHANGED vars
  BY <1>1 DEF vars
<1>2. ASSUME NEW c \in Clients, CallStep(c) PROVE LoadInv'
  <2>1. CASE Begin(c)
    BY <2>1 DEF Begin
  <2>2. CASE Work(c)
    BY <2>2 DEF Work
  <2>3. CASE WorkOnFailedSession(c)
    BY <2>3 DEF WorkOnFailedSession
  <2>4. CASE Commit(c)
    BY <2>4 DEF Commit, Apply
  <2>5. CASE Conflict(c)
    BY <2>5 DEF Conflict
  <2>6. CASE Handler(c)
    BY <2>6 DEF Handler
  <2>7. CASE Wake(c)
    BY <2>7 DEF Wake, CloseSession, AfterLoop
  <2>8. CASE Leave(c)
    BY <2>8 DEF Leave, CloseSession
  <2> QED BY <1>2, <2>1, <2>2, <2>3, <2>4, <2>5, <2>6, <2>7, <2>8 DEF CallStep
<1>3. ASSUME NEW c \in Clients, Fault(c) PROVE LoadInv'
  <2>1. CASE AttemptFails(c)
    BY <2>1 DEF AttemptFails, Disturb
  <2>2. CASE CommitAnswerLost(c)
    BY <2>2 DEF CommitAnswerLost, Apply, Disturb
  <2>3. CASE RollbackFails(c)
    BY <2>3 DEF RollbackFails, Disturb
  <2> QED BY <1>3, <2>1, <2>2, <2>3 DEF Fault
<1> QED BY <1>1, <1>2, <1>3 DEF Next

-----------------------------------------------------------------------------
(* Every step takes one call closer to its end. *)

\* A call that goes on to another place of its loop leaves the other calls where they
\* are; its own distance is a natural number.
LEMMA OthersStay ==
    ASSUME TypeOK, NEW c \in Clients, NEW p, NEW n, NEW d \in Clients \ {c},
           pc' = [pc EXCEPT ![c] = p],
           attempt' = [attempt EXCEPT ![c] = n]
    PROVE  StepsLeft(d)' = StepsLeft(d)
BY DEF TypeOK, StepsLeft

\* The distance of a call that is at p in its attempt a.
LEMMA Distance ==
    ASSUME TypeOK, NEW c \in Clients, NEW p, NEW n \in 0 .. MaxRetries,
           pc' = [pc EXCEPT ![c] = p],
           attempt' = [attempt EXCEPT ![c] = n],
           Position(p) \in 0 .. 6,
           5 * (MaxRetries - n) + Position(p) < 5 * (MaxRetries - attempt[c]) + Position(pc[c])
    PROVE  StepsLeft(c)' \in 0 .. StepsLeft(c) - 1
<1>1. StepsLeft(c)' = 5 * (MaxRetries - n) + Position(p)
  BY DEF TypeOK, StepsLeft
<1>2. attempt[c] \in 0 .. MaxRetries /\ Position(pc[c]) \in 0 .. 6
  BY DEF TypeOK, Position
<1> QED
  BY <1>1, <1>2, RetryAssumption DEF StepsLeft

\* One step of one call.
Advance ==
    \E c \in Clients :
        /\ StepsLeft(c)' \in 0 .. StepsLeft(c) - 1
        /\ \A d \in Clients \ {c} : StepsLeft(d)' = StepsLeft(d)

LEMMA AdvanceStep == TypeOK /\ ReportInv /\ Next => Advance
<1> SUFFICES ASSUME TypeOK, ReportInv, NEW c \in Clients, CallStep(c) \/ Fault(c)
             PROVE  Advance
  BY DEF Next
<1>0. attempt[c] \in 0 .. MaxRetries
  BY DEF TypeOK
<1>1. ASSUME NEW p, Goto(c, p), UNCHANGED attempt, Position(p) \in 0 .. 6,
             Position(p) < Position(pc[c])
      PROVE  Advance
  <2>1. pc' = [pc EXCEPT ![c] = p] /\ attempt' = [attempt EXCEPT ![c] = attempt[c]]
    BY <1>1 DEF Goto, TypeOK
  <2>2. Position(pc[c]) \in 0 .. 6
    BY DEF TypeOK, Position
  <2>3. 5 * (MaxRetries - attempt[c]) + Position(p)
            < 5 * (MaxRetries - attempt[c]) + Position(pc[c])
    BY <1>0, <1>1, <2>2, RetryAssumption
  <2>4. StepsLeft(c)' \in 0 .. StepsLeft(c) - 1
    BY <1>0, <1>1, <2>1, <2>3, Distance
  <2> QED
    BY <2>1, <2>4, OthersStay DEF Advance
<1>2. CASE Begin(c)
  BY <1>1, <1>2 DEF Begin, Position
<1>3. CASE Work(c)
  BY <1>1, <1>3 DEF Work, Position
<1>4. CASE WorkOnFailedSession(c) \/ Conflict(c) \/ AttemptFails(c) \/ CommitAnswerLost(c)
  BY <1>1, <1>4 DEF WorkOnFailedSession, Conflict, AttemptFails, CommitAnswerLost, RaiseIn, Position
<1>5. CASE Commit(c)
  BY <1>1, <1>5 DEF Commit, Position
<1>6. CASE Handler(c) \/ RollbackFails(c)
  BY <1>1, <1>6 DEF Handler, RollbackFails, Position
<1>7. CASE Leave(c)
  BY <1>1, <1>7 DEF Leave, Position
<1>8. CASE Wake(c)
  <2>1. pc[c] = "sleep" /\ attempt[c] < MaxRetries
    BY <1>8 DEF Wake, ReportInv, CanRetry
  <2>2. /\ pc' = [pc EXCEPT ![c] = "begin"]
        /\ attempt' = [attempt EXCEPT ![c] = attempt[c] + 1]
    BY <1>8, <2>1 DEF Wake, Goto
  <2>3. Position("begin") = 6 /\ Position(pc[c]) = 2
    BY <2>1 DEF Position
  <2>4. /\ attempt[c] + 1 \in 0 .. MaxRetries
        /\ 5 * (MaxRetries - (attempt[c] + 1)) + Position("begin")
               < 5 * (MaxRetries - attempt[c]) + Position(pc[c])
        /\ Position("begin") \in 0 .. 6
    BY <1>0, <2>1, <2>3, RetryAssumption
  <2>5. StepsLeft(c)' \in 0 .. StepsLeft(c) - 1
    BY <2>2, <2>4, Distance
  <2> QED
    BY <2>2, <2>5, OthersStay DEF Advance
<1> QED
  BY <1>2, <1>3, <1>4, <1>5, <1>6, <1>7, <1>8 DEF CallStep, Fault

-----------------------------------------------------------------------------
(* The refinement of AtLeastOnce. *)

LEMMA OnceInitOK == Init => Promise!OnceInit
BY DEF Init, Promise!OnceInit, OutcomeOf, FailedAttempts

\* A step of c from one place of its loop to another changes c alone in the mapping.
LEMMA MappedStep ==
    ASSUME TypeOK, NEW c \in Clients, NEW p, NEW n,
           pc' = [pc EXCEPT ![c] = p],
           attempt' = [attempt EXCEPT ![c] = n]
    PROVE  /\ [d \in Clients |-> OutcomeOf(d)]'
                 = [[d \in Clients |-> OutcomeOf(d)] EXCEPT ![c] = OutcomeOf(c)']
           /\ [d \in Clients |-> FailedAttempts(d)]'
                 = [[d \in Clients |-> FailedAttempts(d)] EXCEPT ![c] = FailedAttempts(c)']
<1>1. \A d \in Clients \ {c} : OutcomeOf(d)' = OutcomeOf(d) /\ FailedAttempts(d)' = FailedAttempts(d)
  BY DEF TypeOK, OutcomeOf, FailedAttempts
<1> QED
  BY <1>1

\* The same step where it does not concern the promise.
LEMMA HiddenStep ==
    ASSUME TypeOK, NEW c \in Clients, NEW p, NEW n,
           pc' = [pc EXCEPT ![c] = p],
           attempt' = [attempt EXCEPT ![c] = n],
           OutcomeOf(c)' = OutcomeOf(c), FailedAttempts(c)' = FailedAttempts(c),
           UNCHANGED applied
    PROVE  UNCHANGED Promise!onceVars
<1>1. /\ [d \in Clients |-> OutcomeOf(d)]' = [d \in Clients |-> OutcomeOf(d)]
      /\ [d \in Clients |-> FailedAttempts(d)]' = [d \in Clients |-> FailedAttempts(d)]
  BY MappedStep
<1> QED
  BY <1>1 DEF Promise!onceVars

\* Where a call is says what has become of it.
LEMMA PlaceFacts ==
    ASSUME TypeOK, NEW c \in Clients
    PROVE  /\ attempt[c] \in 0 .. MaxRetries
           /\ pc[c] \in {"begin", "work", "commit"} =>
                 OutcomeOf(c) = "pending" /\ FailedAttempts(c) = attempt[c]
           /\ pc[c] \in {"handler", "sleep", "raise"} =>
                 OutcomeOf(c) = "pending" /\ FailedAttempts(c) = attempt[c] + 1
           /\ pc[c] = "return" => OutcomeOf(c) = "applied" /\ FailedAttempts(c) = attempt[c]
           /\ pc[c] = "returned" => OutcomeOf(c) = "returned" /\ FailedAttempts(c) = attempt[c]
           /\ pc[c] = "raised" => OutcomeOf(c) = "raised" /\ FailedAttempts(c) = attempt[c] + 1
BY RetryAssumption DEF TypeOK, OutcomeOf, FailedAttempts

\* An attempt that raises goes wrong, having taken effect or not.
LEMMA RaiseGoesWrong ==
    ASSUME TypeOK, TypeOK', NEW c \in Clients, NEW e, pc[c] \in {"work", "commit"},
           RaiseIn(c, e), UNCHANGED attempt,
           UNCHANGED applied \/ Apply(c)
    PROVE  Promise!GoWrong(c)
<1>1. pc' = [pc EXCEPT ![c] = "handler"] /\ attempt' = [attempt EXCEPT ![c] = attempt[c]]
  BY DEF RaiseIn, Goto, TypeOK
<1>2. pc'[c] = "handler" /\ attempt'[c] = attempt[c]
  BY <1>1 DEF TypeOK
<1>3. /\ OutcomeOf(c) = "pending" /\ FailedAttempts(c) = attempt[c]
      /\ OutcomeOf(c)' = "pending" /\ FailedAttempts(c)' = attempt[c] + 1
      /\ attempt[c] \in 0 .. MaxRetries
  <2>1. OutcomeOf(c)' = "pending" /\ FailedAttempts(c)' = attempt'[c] + 1
    BY <1>2 DEF OutcomeOf, FailedAttempts
  <2> QED
    BY <1>2, <2>1, PlaceFacts
<1>4. FailedAttempts(c) < MaxRetries + 1
  BY <1>3, RetryAssumption
<1>5. /\ [d \in Clients |-> OutcomeOf(d)]' = [d \in Clients |-> OutcomeOf(d)]
      /\ [d \in Clients |-> FailedAttempts(d)]'
            = [[d \in Clients |-> FailedAttempts(d)] EXCEPT ![c] = @ + 1]
  BY <1>1, <1>3, MappedStep
<1>6. \E n \in {0, 1} : applied' = [applied EXCEPT ![c] = @ + n]
  BY DEF TypeOK, Apply
<1> QED
  BY <1>3, <1>4, <1>5, <1>6 DEF Promise!GoWrong, Promise!MayTry

LEMMA OnceStep ==
    TypeOK /\ TypeOK' /\ ReportInv /\ [Next]_vars => [Promise!OnceNext]_(Promise!onceVars)
<1> SUFFICES ASSUME TypeOK, TypeOK', ReportInv, [Next]_vars
             PROVE  Promise!OnceNext \/ UNCHANGED Promise!onceVars
  OBVIOUS
<1>1. CASE UNCHANGED vars
  BY <1>1 DEF vars, call, history, Promise!onceVars, OutcomeOf, FailedAttempts
<1>2. ASSUME NEW c \in Clients, CallStep(c) \/ Fault(c)
      PROVE  Promise!OnceNext \/ UNCHANGED Promise!onceVars
  <2>0. attempt[c] \in 0 .. MaxRetries /\ applied[c] \in Nat
        /\ attempt = [attempt EXCEPT ![c] = attempt[c]]
    BY DEF TypeOK
  <2>1. ASSUME NEW p, Goto(c, p), UNCHANGED <<attempt, applied>>,
               \/ pc[c] \in {"begin", "work", "commit"} /\ p \in {"begin", "work", "commit"}
               \/ pc[c] \in {"handler", "sleep", "raise"} /\ p \in {"handler", "sleep", "raise"}
        PROVE  UNCHANGED Promise!onceVars
    <3>1. pc' = [pc EXCEPT ![c] = p] /\ attempt' = [attempt EXCEPT ![c] = attempt[c]]
      BY <2>0, <2>1 DEF Goto
    <3>2. OutcomeOf(c)' = OutcomeOf(c) /\ FailedAttempts(c)' = FailedAttempts(c)
      BY <2>1, <3>1 DEF TypeOK, OutcomeOf, FailedAttempts
    <3> QED
      BY <2>1, <3>1, <3>2, HiddenStep
  <2>2. CASE Begin(c)
    BY <2>1, <2>2 DEF Begin, history
  <2>3. CASE Work(c)
    BY <2>1, <2>3 DEF Work, history
  <2>4. CASE WorkOnFailedSession(c)
    BY <2>0, <2>4, RaiseGoesWrong DEF WorkOnFailedSession, history, Promise!OnceNext
  <2>5. CASE Conflict(c)
    BY <2>0, <2>5, RaiseGoesWrong DEF Conflict, history, Promise!OnceNext
  <2>6. CASE AttemptFails(c)
    BY <2>0, <2>6, RaiseGoesWrong DEF AttemptFails, Promise!OnceNext
  <2>7. CASE CommitAnswerLost(c)
    BY <2>7, RaiseGoesWrong DEF CommitAnswerLost, Promise!OnceNext
  <2>8. CASE Commit(c)
    <3>1. /\ pc[c] = "commit" /\ pc' = [pc EXCEPT ![c] = "return"] /\ pc'[c] = "return"
          /\ attempt' = [attempt EXCEPT ![c] = attempt[c]] /\ attempt'[c] = attempt[c]
          /\ applied' = [applied EXCEPT ![c] = @ + 1]
      BY <2>0, <2>8 DEF Commit, Goto, Apply, TypeOK
    <3>2. /\ OutcomeOf(c) = "pending" /\ OutcomeOf(c)' = "applied"
          /\ FailedAttempts(c) = attempt[c] /\ FailedAttempts(c)' = attempt[c]
      BY <2>0, <3>1, PlaceFacts DEF OutcomeOf, FailedAttempts
    <3>3. FailedAttempts(c) < MaxRetries + 1
      BY <2>0, <3>2, RetryAssumption
    <3>4. /\ [d \in Clients |-> OutcomeOf(d)]'
                = [[d \in Clients |-> OutcomeOf(d)] EXCEPT ![c] = "applied"]
          /\ [d \in Clients |-> FailedAttempts(d)]' = [d \in Clients |-> FailedAttempts(d)]
      BY <3>1, <3>2, MappedStep
    <3> QED
      BY <3>1, <3>2, <3>3, <3>4 DEF Promise!OnceNext, Promise!Succeed, Promise!MayTry
  <2>9. CASE Handler(c)
    <3>1. Goto(c, "sleep") \/ Goto(c, "raise")
      BY <2>9 DEF Handler
    <3> QED
      BY <2>1, <2>9, <3>1 DEF Handler, history
  <2>10. CASE RollbackFails(c)
    BY <2>1, <2>10 DEF RollbackFails
  <2>11. CASE Wake(c)
    <3>1. pc[c] = "sleep" /\ attempt[c] < MaxRetries /\ UNCHANGED applied
      BY <2>11 DEF Wake, ReportInv, CanRetry, history
    <3>2. /\ pc' = [pc EXCEPT ![c] = "begin"] /\ pc'[c] = "begin"
          /\ attempt' = [attempt EXCEPT ![c] = attempt[c] + 1] /\ attempt'[c] = attempt[c] + 1
      BY <2>11, <3>1 DEF Wake, Goto, TypeOK
    <3>3. OutcomeOf(c)' = OutcomeOf(c) /\ FailedAttempts(c)' = FailedAttempts(c)
      BY <2>0, <3>1, <3>2 DEF OutcomeOf, FailedAttempts
    <3> QED
      BY <3>1, <3>2, <3>3, HiddenStep
  <2>12. CASE Leave(c)
    <3> DEFINE p == IF pc[c] = "return" THEN "returned" ELSE "raised"
    <3>1. /\ pc[c] \in {"return", "raise"}
          /\ pc' = [pc EXCEPT ![c] = p] /\ pc'[c] = p
          /\ attempt' = [attempt EXCEPT ![c] = attempt[c]] /\ attempt'[c] = attempt[c]
          /\ UNCHANGED applied
      BY <2>0, <2>12 DEF Leave, Goto, TypeOK, history
    <3>2. OutcomeOf(c)' = p /\ FailedAttempts(c)' = FailedAttempts(c)
      BY <3>1 DEF OutcomeOf, FailedAttempts
    <3>3. /\ [d \in Clients |-> OutcomeOf(d)]'
                = [[d \in Clients |-> OutcomeOf(d)] EXCEPT ![c] = p]
          /\ [d \in Clients |-> FailedAttempts(d)]' = [d \in Clients |-> FailedAttempts(d)]
      BY <3>1, <3>2, MappedStep
    <3>4. CASE pc[c] = "return"
      BY <3>1, <3>3, <3>4, PlaceFacts DEF Promise!OnceNext, Promise!Return
    <3>5. CASE pc[c] = "raise"
      <4>1. OutcomeOf(c) = "pending" /\ FailedAttempts(c) > 0
        BY <2>0, <3>5, PlaceFacts
      <4> QED
        BY <3>1, <3>3, <3>5, <4>1 DEF Promise!OnceNext, Promise!Raise
    <3> QED
      BY <3>1, <3>4, <3>5
  <2> QED
    BY <1>2, <2>2, <2>3, <2>4, <2>5, <2>6, <2>7, <2>8, <2>9, <2>10, <2>11, <2>12 DEF CallStep, Fault
<1> QED
  BY <1>1, <1>2 DEF Next

-----------------------------------------------------------------------------
(* The theorems. *)

LEMMA Invariance == Spec => []IInv
<1>1. IInv /\ [Next]_vars => IInv'
  BY TypeStep, ReportStep, SessionStep, LoadStep DEF IInv
<1> QED BY <1>1, InvInit, PTL DEF Spec

\* The state of every call and of the row stays in its types.
THEOREM TypeCorrect == Spec => []TypeOK
<1>1. IInv => TypeOK
  BY DEF IInv
<1> QED BY <1>1, Invariance, PTL

\* Returned means committed, raised means not committed, up to lost answers.
THEOREM ReportsAreTrue == Spec => []AppliedAsReported
<1>1. IInv => AppliedAsReported
  BY DEF IInv, ReportInv
<1> QED BY <1>1, Invariance, PTL

\* max_retries retries are enough for max_retries other callers.
THEOREM RetriesSuffice == Spec => []GivesUpOnlyUnderLoad
<1>1. IInv => GivesUpOnlyUnderLoad
  BY DEF IInv, LoadInv, GivesUpOnlyUnderLoad
<1> QED BY <1>1, Invariance, PTL

\* The finally clause is reached on every path.
THEOREM NoSessionLeak == Spec => []SessionsClosed
<1>1. IInv => SessionsClosed
  BY DEF IInv, SessionInv, SessionsClosed
<1> QED BY <1>1, Invariance, PTL

\* A call takes at most 5 * max_retries + 6 steps, however it is disturbed: the bound
\* that CallsEnd rests on beside fairness.
THEOREM CallsAdvance == Spec => CallAdvances
<1>1. IInv /\ [Next]_vars => [Advance]_vars
  BY AdvanceStep DEF IInv
<1> QED
  BY <1>1, Invariance, PTL DEF Spec, CallAdvances, Advance

\* A call is at least one attempt and at most max_retries + 1, and what it reports is
\* final: wrapper, session and row together keep the promise of AtLeastOnce.
THEOREM Refinement == Spec => ImplementsAtLeastOnce
<1>1. IInv /\ IInv' /\ [Next]_vars => [Promise!OnceNext]_(Promise!onceVars)
  BY OnceStep DEF IInv
<1> QED
  BY <1>1, OnceInitOK, Invariance, PTL DEF Spec, ImplementsAtLeastOnce, Promise!OnceSpec

=============================================================================
