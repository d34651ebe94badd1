---------------------------- MODULE MCSchedulerHA --------------------------
(***************************************************************************)
(* Instances of SchedulerHA for TLC: the deployments of docker/.env.       *)
(***************************************************************************)
EXTENDS SchedulerHA, TLC

\* Route A and the patch under the Postgres dialect: commits in the handler.
PatchedRoutes == {[scheme |-> "cockroachdb", patched |-> TRUE],
                  [scheme |-> "postgresql", patched |-> TRUE]}

\* Route B as well, the code before the patch.
AllRoutes == Deployments

Symmetry == Permutations(Schedulers) \cup Permutations(Tasks)

=============================================================================
