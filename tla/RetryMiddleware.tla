-------------------------- MODULE RetryMiddleware --------------------------
(***************************************************************************)
(* src/compatibility/retry_middleware.py: callers run one read-modify-     *)
(* write transaction each on the same row, wrapped either by               *)
(* run_with_retry or by one of the two decorators, sync and async, which   *)
(* differ in nothing but how they sleep.  The wrapped function is the one  *)
(* of the module's docstring: execute, then commit, on the session it is   *)
(* given.  run_with_retry gives it a fresh session per attempt; a          *)
(* decorator calls it again with the caller's session.                     *)
(***************************************************************************)
EXTENDS Integers

CONSTANTS Clients,      \* concurrent callers
          Wrappers,     \* the wrappers considered
          MaxRetries,   \* max_retries
          MaxFaults     \* bound: faults that are not another caller's commit

WrapperNames == {"run_with_retry", "decorator"}

ASSUME RetryAssumption ==
    /\ Wrappers \subseteq WrapperNames
    /\ MaxRetries \in Nat
    /\ MaxFaults \in Nat

VARIABLES
    wrapper,    \* the wrapper the callers use
    version,    \* transactions committed on the row
    \* Each call.
    pc,
    attempt,    \* loop variable
    session,    \* state of the session at hand; "none" when there is none
    snapshot,   \* version the open transaction read
    error,      \* exception being handled or raised
    \* History.
    applied,    \* how often the work of a call was committed
    unacked,    \* commits whose answer the caller never saw
    disturbed,  \* faults that hit a call
    faults      \* faults in total

call == <<pc, attempt, session, snapshot, error>>
history == <<applied, unacked, disturbed, faults>>
vars == <<wrapper, version, call, history>>

\* "other" is any exception whose code and text is_retryable_error does not know;
\* "failed_session" is the one a session raises that was not rolled back.
Errors == {"none", "40001", "reset", "other", "failed_session"}

TypeOK ==
    /\ wrapper \in WrapperNames
    /\ version \in Nat
    /\ pc \in [Clients -> {"begin", "work", "commit", "handler", "sleep", "return", "raise",
                           "returned", "raised"}]
    /\ attempt \in [Clients -> 0 .. MaxRetries]
    /\ session \in [Clients -> {"none", "clean", "active", "failed"}]
    /\ snapshot \in [Clients -> Nat]
    /\ error \in [Clients -> Errors]
    /\ applied \in [Clients -> Nat]
    /\ unacked \in [Clients -> Nat]
    /\ disturbed \in [Clients -> Nat]
    /\ faults \in 0 .. MaxFaults

FreshSessions == wrapper = "run_with_retry"

\* A decorated function comes with the session its caller made.
Init ==
    /\ wrapper \in Wrappers
    /\ version = 0
    /\ pc = [c \in Clients |-> "begin"]
    /\ attempt = [c \in Clients |-> 0]
    /\ session = [c \in Clients |-> IF FreshSessions THEN "none" ELSE "clean"]
    /\ snapshot = [c \in Clients |-> 0]
    /\ error = [c \in Clients |-> "none"]
    /\ applied = [c \in Clients |-> 0]
    /\ unacked = [c \in Clients |-> 0]
    /\ disturbed = [c \in Clients |-> 0]
    /\ faults = 0

-----------------------------------------------------------------------------
(* Helpers. *)

\* SQLSTATE 40001 on the error or its cause, or one of the known texts.
IsRetryableError(e) == e \in {"40001", "reset"}

\* Mutants of CanRetry: one attempt more and one attempt less than the range has.
CanRetryOnceMore(c) == IsRetryableError(error[c]) /\ attempt[c] <= MaxRetries
CanRetryOnceLess(c) == IsRetryableError(error[c]) /\ attempt[c] < MaxRetries - 1

CanRetry(c) == IsRetryableError(error[c]) /\ attempt[c] < MaxRetries

Goto(c, label) == pc' = [pc EXCEPT ![c] = label]

SetSession(c, state) == session' = [session EXCEPT ![c] = state]

\* The wrapped function raises e; its transaction is broken until rolled back.
RaiseIn(c, e) ==
    /\ error' = [error EXCEPT ![c] = e]
    /\ SetSession(c, "failed")
    /\ Goto(c, "handler")

Disturb(c) ==
    /\ faults < MaxFaults
    /\ faults' = faults + 1
    /\ disturbed' = [disturbed EXCEPT ![c] = @ + 1]

\* The transaction of c takes effect.
Apply(c) ==
    /\ version' = version + 1
    /\ applied' = [applied EXCEPT ![c] = @ + 1]

-----------------------------------------------------------------------------
(* One attempt. *)

Begin(c) ==
    /\ pc[c] = "begin"
    /\ SetSession(c, IF FreshSessions THEN "clean" ELSE session[c])
    /\ Goto(c, "work")
    /\ UNCHANGED <<wrapper, version, attempt, snapshot, error, history>>

\* session.execute: the transaction starts here and reads the row.
Work(c) ==
    /\ pc[c] = "work"
    /\ session[c] = "clean"
    /\ snapshot' = [snapshot EXCEPT ![c] = version]
    /\ SetSession(c, "active")
    /\ Goto(c, "commit")
    /\ UNCHANGED <<wrapper, version, attempt, error, history>>

\* On a session that was never rolled back the statement is refused.
WorkOnFailedSession(c) ==
    /\ pc[c] = "work"
    /\ session[c] = "failed"
    /\ RaiseIn(c, "failed_session")
    /\ UNCHANGED <<wrapper, version, attempt, snapshot, history>>

\* session.commit succeeds if the row is as it was read.
Commit(c) ==
    /\ pc[c] = "commit"
    /\ snapshot[c] = version
    /\ Apply(c)
    /\ SetSession(c, "clean")
    /\ Goto(c, "return")
    /\ UNCHANGED <<wrapper, attempt, snapshot, error, unacked, disturbed, faults>>

Conflict(c) ==
    /\ pc[c] = "commit"
    /\ snapshot[c] # version
    /\ RaiseIn(c, "40001")
    /\ UNCHANGED <<wrapper, version, attempt, snapshot, history>>

\* A statement or the commit fails for a reason no other caller is to blame for:
\* a lost connection, a spurious abort, a bug; the transaction has no effect.
AttemptFails(c) ==
    /\ pc[c] \in {"work", "commit"}
    /\ session[c] # "failed"
    /\ Disturb(c)
    /\ \E e \in {"40001", "reset", "other"} : RaiseIn(c, e)
    /\ UNCHANGED <<wrapper, version, attempt, snapshot, applied, unacked>>

\* The commit is applied, the connection breaks before the answer arrives.
CommitAnswerLost(c) ==
    /\ pc[c] = "commit"
    /\ snapshot[c] = version
    /\ Apply(c)
    /\ Disturb(c)
    /\ unacked' = [unacked EXCEPT ![c] = @ + 1]
    /\ \E e \in {"reset", "other"} : RaiseIn(c, e)
    /\ UNCHANGED <<wrapper, attempt, snapshot>>

-----------------------------------------------------------------------------
(* The wrapper. *)

\* Mutants of Handler: no rollback; the failed attempt is counted here too; every
\* exception is retried at once and for ever.
HandlerWithoutRollback(c) ==
    /\ pc[c] = "handler"
    /\ Goto(c, IF CanRetry(c) THEN "sleep" ELSE "raise")
    /\ UNCHANGED <<wrapper, version, attempt, session, snapshot, error, history>>
HandlerCounts(c) ==
    /\ pc[c] = "handler"
    /\ SetSession(c, IF FreshSessions THEN "clean" ELSE session[c])
    /\ attempt' = [attempt EXCEPT ![c] = @ + 1]
    /\ Goto(c, IF CanRetry(c) THEN "sleep" ELSE "raise")
    /\ UNCHANGED <<wrapper, version, snapshot, error, history>>
HandlerNeverRaises(c) ==
    /\ pc[c] = "handler"
    /\ Goto(c, "begin")
    /\ UNCHANGED <<wrapper, version, attempt, session, snapshot, error, history>>

\* except Exception: roll back (run_with_retry only), then sleep or raise again.
Handler(c) ==
    /\ pc[c] = "handler"
    /\ SetSession(c, IF FreshSessions THEN "clean" ELSE session[c])
    /\ Goto(c, IF CanRetry(c) THEN "sleep" ELSE "raise")
    /\ UNCHANGED <<wrapper, version, attempt, snapshot, error, history>>

\* session.rollback() raises in turn, and nothing catches that.
RollbackFails(c) ==
    /\ FreshSessions
    /\ pc[c] = "handler"
    /\ Disturb(c)
    /\ error' = [error EXCEPT ![c] = "other"]
    /\ Goto(c, "raise")
    /\ UNCHANGED <<wrapper, version, attempt, session, snapshot, applied, unacked>>

\* Mutant of CloseSession: no finally clause.
CloseSessionNever(c) == UNCHANGED session

\* finally: session.close().
CloseSession(c) == SetSession(c, IF FreshSessions THEN "none" ELSE session[c])

\* Where the loop leads when its range is exhausted: run_with_retry ends without a
\* result, a decorator raises the last error.
AfterLoop == IF FreshSessions THEN "return" ELSE "raise"

\* The sleep is over; next attempt, if the range has one.
Wake(c) ==
    /\ pc[c] = "sleep"
    /\ CloseSession(c)
    /\ IF attempt[c] < MaxRetries
       THEN attempt' = [attempt EXCEPT ![c] = @ + 1] /\ Goto(c, "begin")
       ELSE Goto(c, AfterLoop) /\ UNCHANGED attempt
    /\ UNCHANGED <<wrapper, version, snapshot, error, history>>

\* The call ends, through the finally clause.
Leave(c) ==
    /\ pc[c] \in {"return", "raise"}
    /\ CloseSession(c)
    /\ Goto(c, IF pc[c] = "return" THEN "returned" ELSE "raised")
    /\ UNCHANGED <<wrapper, version, attempt, snapshot, error, history>>

-----------------------------------------------------------------------------

CallStep(c) ==
    \/ Begin(c)
    \/ Work(c)
    \/ WorkOnFailedSession(c)
    \/ Commit(c)
    \/ Conflict(c)
    \/ Handler(c)
    \/ Wake(c)
    \/ Leave(c)

Fault(c) ==
    \/ AttemptFails(c)
    \/ CommitAnswerLost(c)
    \/ RollbackFails(c)

Next == \E c \in Clients : CallStep(c) \/ Fault(c)

Spec == Init /\ [][Next]_vars

\* Callers run to the end of their calls; no fault is owed to anybody.
FairSpec == Spec /\ \A c \in Clients : WF_vars(CallStep(c))

-----------------------------------------------------------------------------
(* The promise it implements. *)

OutcomeOf(c) ==
    CASE pc[c] = "return"               -> "applied"
      [] pc[c] \in {"returned", "raised"} -> pc[c]
      [] OTHER                          -> "pending"

\* Attempts of c that are over and did not succeed.
FailedAttempts(c) ==
    attempt[c] + IF pc[c] \in {"handler", "sleep", "raise", "raised"} THEN 1 ELSE 0

Promise == INSTANCE AtLeastOnce
              WITH MaxAttempts <- MaxRetries + 1,
                   outcome <- [c \in Clients |-> OutcomeOf(c)],
                   failed <- [c \in Clients |-> FailedAttempts(c)],
                   effects <- applied

\* Whatever the wrapper, a call is tried until it is applied or given up, at most
\* max_retries + 1 times, and has no effect once it is over.
ImplementsAtLeastOnce == Promise!OnceSpec

-----------------------------------------------------------------------------
(* Properties. *)

\* Commits by other callers, and faults of its own: all a call can have met.
Interference(c) == version - applied[c] + disturbed[c]

\* A call reports what happened: it returns when its work was committed in the
\* last attempt, and no attempt that failed left an effect, except for a commit
\* whose answer was lost.
AppliedAsReported ==
    \A c \in Clients :
        applied[c] = unacked[c] + (IF pc[c] \in {"return", "returned"} THEN 1 ELSE 0)

\* run_with_retry gives up on a retryable error only after being interfered with
\* once per attempt: as many callers as there are attempts, one transaction each,
\* all get through, whatever the schedule.  Any other error it raises is a fault's.
GivesUpOnlyUnderLoad ==
    \A c \in Clients :
        FreshSessions /\ pc[c] = "raised" =>
            IF IsRetryableError(error[c]) THEN Interference(c) > MaxRetries
                                          ELSE disturbed[c] > 0

\* run_with_retry has rolled back before it waits out a backoff: its sleeping caller is in
\* no other caller's way. This is not so for the decorators, which sleep with the session
\* of the caller as the error left it.
SleepsWithoutTransaction ==
    \A c \in Clients : FreshSessions /\ pc[c] = "sleep" => session[c] = "clean"

\* run_with_retry closes the session of every attempt, also when it retries, when
\* it gives up and when the rollback itself fails.
SessionsClosed ==
    \A c \in Clients :
        FreshSessions /\ pc[c] \in {"begin", "returned", "raised"} => session[c] = "none"

\* How far the end of an attempt is off.
Position(p) ==
    CASE p = "begin"               -> 6
      [] p = "work"                -> 5
      [] p = "commit"              -> 4
      [] p = "handler"             -> 3
      [] p = "sleep"               -> 2
      [] p \in {"return", "raise"} -> 1
      [] OTHER                     -> 0

\* Steps that a call has left at most: each retry still allowed costs five.
StepsLeft(c) == 5 * (MaxRetries - attempt[c]) + Position(pc[c])

\* Every step, also one that fails, takes the call that makes it closer to its end
\* and no other call further from its own: no schedule makes a call go on for ever.
CallAdvances ==
    [][\E c \in Clients :
          /\ StepsLeft(c)' \in 0 .. StepsLeft(c) - 1
          /\ \A d \in Clients \ {c} : StepsLeft(d)' = StepsLeft(d)]_vars

\* Every call ends.
CallsEnd == \A c \in Clients : <>(pc[c] \in {"returned", "raised"})

\* The docstring of the decorators: they retry on transient errors, so a call that
\* met nothing but conflicts raises only when its retries are used up.
ConflictsAreRetried ==
    \A c \in Clients :
        pc[c] = "raised" /\ disturbed[c] = 0 => attempt[c] = MaxRetries

=============================================================================
