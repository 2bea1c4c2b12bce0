-------------------------- MODULE MCPlannerSession --------------------------
(* Instances of PlannerSession for TLC.  Two request threads and the bridge *)
(* of one session, two nodes, two keys; what happens how often is the Quota *)
(* of each run.                                                             *)
EXTENDS PlannerSession, TLC

CONSTANTS r1, r2, bridge, nobody, n1, n2, k1, k2, nokey

MCReq == {r1, r2}
MCNode == {n1, n2}
MCKey == {k1, k2}
(* A session is completed with nodes, and n2 may depend on n1. *)
MCValid == {{n1}, {n1, n2}}

Message(k, s) == [kind |-> "message", key |-> k, status |-> s, nodes |-> {}]
Snapshot(k, ns) == [kind |-> "nodes", key |-> k, status |-> "none", nodes |-> ns]

(* What the planner sends: the same keyed text again, nodes with a text,    *)
(* and its end, after which a text may still come.                          *)
MCBatch == {
  <<Message(k1, "none")>>,
  <<Snapshot(nokey, {n1}), Message(k1, "none")>>,
  <<Message(k2, "completed"), Message(nokey, "none")>>}

(* What happens besides one generate, once each; or two of them, as two     *)
(* pages may send.                                                          *)
Once(ops) == [op \in Operation |-> IF op \in ops \cup {"generate"} THEN 1 ELSE 0]
TwoGenerates == [Once(Operation \ {"delete", "crash"}) EXCEPT !["generate"] = 2]
Feeds == [Once({"delete", "crash"}) EXCEPT !["events"] = 2, !["bridge"] = 2]

Threads == Permutations(Req)
=============================================================================
