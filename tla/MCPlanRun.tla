------------------------------ MODULE MCPlanRun ------------------------------
(* A small plan for TLC. *)
EXTENDS PlanRun

\* Every step depends on the one before it.
Chain == [s \in Steps |-> {s - 1} \ {0}]

=============================================================================
