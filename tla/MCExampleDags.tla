--------------------------- MODULE MCExampleDags ---------------------------
(* Two runs of the demo, and one of the demo beside one of the health check. *)
EXTENDS ExampleDags, TLC

CONSTANTS r1, r2, n1, n2, n3

MCRetries == [d \in Dags |-> IF d = "demo" THEN 1 ELSE 2]
MCMixes == {mix \in [Runs -> Dags] : \E r \in Runs : mix[r] = "demo"}
Symmetry == Permutations(Runs) \cup Permutations(Nodes)
=============================================================================
