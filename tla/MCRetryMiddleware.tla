------------------------- MODULE MCRetryMiddleware -------------------------
(***************************************************************************)
(* Instances of RetryMiddleware for TLC.                                   *)
(***************************************************************************)
EXTENDS RetryMiddleware

Decorator == {"decorator"}
AllWrappers == WrapperNames

=============================================================================
