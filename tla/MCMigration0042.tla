-------------------------- MODULE MCMigration0042 --------------------------
(***************************************************************************)
(* Instances of Migration0042 for TLC.                                     *)
(***************************************************************************)
EXTENDS Migration0042

=============================================================================
