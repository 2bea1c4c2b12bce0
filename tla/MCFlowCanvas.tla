----------------------------- MODULE MCFlowCanvas -----------------------------
(* The canvas on small instances. *)
EXTENDS FlowCanvas, TLC

CONSTANTS n1, n2, a1, a2, a3

MCNode == {n1, n2}

Chain(s) == n1 :> [deps |-> {}, agent |-> a1, status |-> s]
            @@ n2 :> [deps |-> {n1}, agent |-> a2, status |-> s]

(* A new flow, and one that was stopped before its first node ended.       *)
NewOrStopped == {<<>>, Chain("blocked")}

(* A draft created before the agents were loaded, one created after, and   *)
(* one whose nodes have come without an agent, whose lane map is behind and *)
(* one of whose agents has gone since.                                     *)
Early == [nodes |-> <<>>, lanes |-> << [id |-> None, agent |-> None] >>, laneOf |-> <<>>, executor |-> None]
Created == [nodes |-> <<>>, laneOf |-> <<>>, executor |-> a1,
            lanes |-> << [id |-> a1, agent |-> a1], [id |-> a2, agent |-> a2] >>]
Behindhand == [nodes |-> n1 :> [deps |-> {}, agent |-> None], laneOf |-> <<>>, executor |-> a1,
               lanes |-> << [id |-> a3, agent |-> a3], [id |-> a1, agent |-> a1] >>]
Some == {Early, Created, Behindhand}

Present == {{a1, a2}}
==============================================================================
