---------------------------- MODULE MCPlanLineage ----------------------------
(* One trip with a few runs, feedback events, requests and forks for TLC; all *)
(* are interchangeable.                                                       *)
EXTENDS PlanLineage, TLC

Symmetry == Permutations(Job) \cup Permutations(Feedback) \cup Permutations(Fork)

=============================================================================
