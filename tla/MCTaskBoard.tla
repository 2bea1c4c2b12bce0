----------------------------- MODULE MCTaskBoard -----------------------------
(* Instances of TaskBoard for TLC.  A configuration names the flow, the     *)
(* threads and the quotas; symmetry exchanges the threads.                  *)
EXTENDS TaskBoard, TLC

CONSTANTS a, b, c

(* A flow of two nodes, the second of which depends on the first. *)
TwoNodes == {a, b}
ChainDep == (a :> {}) @@ (b :> {a})

(* A flow of three nodes: two of them wait for the first. *)
ThreeNodes == {a, b, c}
FanOutDep == (a :> {}) @@ (b :> {a}) @@ (c :> {a})

(* Quotas: what may happen besides listing, and how often. *)
Once(S) == [k \in Bounded |-> IF k \in S THEN 1 ELSE 0]
SerialQuota == Once(Bounded \ {"rename", "delete_requirement"})
Races ==
  Once({"confirm", "interrupt", "continue", "rename", "delete_requirement", "send_error"})
OneFailure == Once({"confirm", "send_error"})

Threads == Permutations(Req)
==============================================================================
