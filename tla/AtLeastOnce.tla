----------------------------- MODULE AtLeastOnce ----------------------------
(***************************************************************************)
(* What a caller of run_with_retry or of a retry decorator may rely on,    *)
(* and no more: a call that returns has taken effect in its last attempt,  *)
(* a call that raises has gone wrong in every attempt it made, there are   *)
(* no more attempts than allowed, and an attempt that goes wrong may still *)
(* have taken effect, unknown to anybody.  Once over, a call has no effect *)
(* any more.  RetryMiddleware is shown to implement this.                  *)
(***************************************************************************)
EXTENDS Naturals

CONSTANTS Clients,       \* concurrent callers
          MaxAttempts    \* attempts a call may make

VARIABLES outcome,       \* what has become of each call
          failed,        \* attempts of it that went wrong
          effects        \* how often its work is in the database

onceVars == <<outcome, failed, effects>>

OnceInit ==
    /\ outcome = [c \in Clients |-> "pending"]
    /\ failed = [c \in Clients |-> 0]
    /\ effects = [c \in Clients |-> 0]

MayTry(c) == outcome[c] = "pending" /\ failed[c] < MaxAttempts

\* An attempt takes effect and is known to have.
Succeed(c) ==
    /\ MayTry(c)
    /\ effects' = [effects EXCEPT ![c] = @ + 1]
    /\ outcome' = [outcome EXCEPT ![c] = "applied"]
    /\ UNCHANGED failed

\* An attempt goes wrong, with or without an effect.
GoWrong(c) ==
    /\ MayTry(c)
    /\ failed' = [failed EXCEPT ![c] = @ + 1]
    /\ \E n \in {0, 1} : effects' = [effects EXCEPT ![c] = @ + n]
    /\ UNCHANGED outcome

Return(c) ==
    /\ outcome[c] = "applied"
    /\ outcome' = [outcome EXCEPT ![c] = "returned"]
    /\ UNCHANGED <<failed, effects>>

Raise(c) ==
    /\ outcome[c] = "pending"
    /\ failed[c] > 0
    /\ outcome' = [outcome EXCEPT ![c] = "raised"]
    /\ UNCHANGED <<failed, effects>>

OnceNext == \E c \in Clients : Succeed(c) \/ GoWrong(c) \/ Return(c) \/ Raise(c)

OnceSpec == OnceInit /\ [][OnceNext]_onceVars

=============================================================================
