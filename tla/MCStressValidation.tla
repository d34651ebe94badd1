------------------------ MODULE MCStressValidation -------------------------
(***************************************************************************)
(* Instances of StressValidation for TLC.                                  *)
(***************************************************************************)
EXTENDS StressValidation, TLC

=============================================================================
