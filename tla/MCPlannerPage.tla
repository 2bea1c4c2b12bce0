---------------------------- MODULE MCPlannerPage ----------------------------
(* The planner page on small instances. *)
EXTENDS PlannerPage

FlowSymmetry == Permutations(Flow)
==============================================================================
