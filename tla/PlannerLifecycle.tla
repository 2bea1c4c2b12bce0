-------------------------- MODULE PlannerLifecycle --------------------------
(***************************************************************************)
(* What a planner session promises to those who watch it: once created it  *)
(* is in planning, its revision only grows, and when it has ended, whether *)
(* completed, failed or stopped, neither status nor revision moves again.  *)
(***************************************************************************)
EXTENDS Naturals

VARIABLES status, revision

Ended == {"completed", "failed", "stopped"}

Init == status = "none" /\ revision = 0

Create == status = "none" /\ status' = "planning" /\ UNCHANGED revision

Revise ==
  /\ status = "planning" /\ UNCHANGED status
  /\ revision' \in Nat /\ revision' > revision

(* The last revision and the end may come in one step. *)
End ==
  /\ status = "planning" /\ status' \in Ended
  /\ revision' \in Nat /\ revision' >= revision

Next == Create \/ Revise \/ End

Spec == Init /\ [][Next]_<<status, revision>>
=============================================================================
