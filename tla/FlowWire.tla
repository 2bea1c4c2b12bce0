------------------------------- MODULE FlowWire -------------------------------
(***************************************************************************)
(* What becomes of a flow between the page and the server and back: the    *)
(* page's encoders and decoders (frontend/src/api/taskFlowContract.ts),    *)
(* the server's reading, keeping and answering of a draft (app/services/   *)
(* flow_draft_service.py, app/api/tasks_flow_draft.py) and the page's      *)
(* local store (frontend/src/components/flowDraftStore.ts).                *)
(*                                                                         *)
(* The page speaks snake_case, the wire camelCase; the server reads        *)
(* requests by their camelCase names only and keeps snake_case, and the    *)
(* page reads either.  An object is the function from the names of its     *)
(* fields to their values; collections whose order shows nowhere are sets. *)
(* Texts, positions and times are left out.                                *)
(***************************************************************************)
EXTENDS Integers, Sequences, FiniteSets, SequencesExt

CONSTANT None  \* null, or no value

(* The snake_case name goes first; what is not there has a default.        *)
FieldOr(o, snake, camel, default) ==
  IF snake \in DOMAIN o THEN o[snake] ELSE IF camel \in DOMAIN o THEN o[camel] ELSE default
Has(o, snake, camel) == {snake, camel} \cap DOMAIN o # {}

Each(s, Op(_)) == [k \in DOMAIN s |-> Op(s[k])]

(* The items of s at the positions K, in their order.                      *)
Items(s, K) ==
  [i \in 1 .. Cardinality(K) |-> s[CHOOSE k \in K : Cardinality({j \in K : j < k}) = i - 1]]

(* Items that cannot be decoded are dropped, the others are kept.          *)
DecodeArray(s, Good(_), Decode(_)) == Each(Items(s, {k \in DOMAIN s : Good(s[k])}), Decode)
DecodeSet(S, Good(_), Decode(_)) == {Decode(o) : o \in {x \in S : Good(x)}}

-----------------------------------------------------------------------------
(* What the page sends.                                                    *)

EncodeNode(n, node) == [id |-> n, title |-> n, dependsOn |-> node.deps, agentId |-> node.agent]
EncodeNodes(ns) == {EncodeNode(n, ns[n]) : n \in DOMAIN ns}
EncodeEdge(e) == [source |-> e[1], target |-> e[2]]
EncodeEdges(es) == {EncodeEdge(e) : e \in es}
EncodeLane(l) == [id |-> l.id, name |-> l.id, agentId |-> l.agent, createdAt |-> 0]

EncodeChatMessage(m) ==
  [f \in {"role", "content", "createdAt"} \cup (IF m.kind = None THEN {} ELSE {"kind"}) |->
     CASE f = "role" -> m.role [] f = "content" -> m.content [] f = "createdAt" -> 0 [] f = "kind" -> m.kind]

EncodePlannerRuntime(r) ==
  [plannerSessionStatus |-> r.status, isPlanning |-> r.planning,
   isPlannerStopping |-> r.stopping, isOverlayCloseBlocked |-> r.blocked]

EncodeFlowDraftUpsert(d) ==
  [nodes |-> EncodeNodes(d.nodes), edges |-> EncodeEdges(d.edges),
   plannerMessages |-> Each(d.messages, EncodeChatMessage), lanes |-> Each(d.lanes, EncodeLane),
   nodeLaneById |-> d.laneOf, executorAgentId |-> d.executor,
   plannerRuntime |-> EncodePlannerRuntime(d.runtime)]

EncodeFlowConfirm(ns, es) == [nodes |-> EncodeNodes(ns), edges |-> EncodeEdges(es)]
EncodeFlowSync(ns, es) == [nodes |-> EncodeNodes(ns), edges |-> EncodeEdges(es)]

-----------------------------------------------------------------------------
(* The server.  Edges count only for nodes sent without dependencies.      *)

NodeIds(body) == {o.id : o \in body.nodes}
SentDeps(o, body) ==
  LET raw == IF "dependsOn" \in DOMAIN o THEN o.dependsOn
             ELSE {e.source : e \in {x \in body.edges : x.target = o.id}}
  IN (raw \cap NodeIds(body)) \ {o.id}

(* The canvas of a request, as confirm, sync and the drafts read it.       *)
ReadNodes(body) ==
  [n \in NodeIds(body) |->
     LET o == CHOOSE x \in body.nodes : x.id = n
     IN [deps |-> SentDeps(o, body), agent |-> o.agentId]]

SessionStatus == {"planning", "completed", "stopped", "failed"}
StatusOr(s) == IF s \in SessionStatus THEN s ELSE "idle"

ReadMessage(m) == [role |-> m.role, content |-> m.content, created_at |-> m.createdAt,
                   kind |-> FieldOr(m, "kind", "kind", "message")]
ReadLane(l) == [id |-> l.id, name |-> l.name, agent_id |-> l.agentId, created_at |-> l.createdAt]

(* A lane map only maps nodes there are to lanes there are.                *)
KnownLanes(map, ids, laneIds) ==
  [n \in {m \in DOMAIN map \cap ids : map[m] \in laneIds} |-> map[n]]

UpsertFlowDraft(body) ==
  [nodes |-> {[id |-> o.id, title |-> o.title, depends_on |-> SentDeps(o, body), agent_id |-> o.agentId]
              : o \in body.nodes},
   edges |-> body.edges, planner_messages |-> Each(body.plannerMessages, ReadMessage),
   lanes |-> Each(body.lanes, ReadLane),
   node_lane_by_id |-> KnownLanes(body.nodeLaneById, NodeIds(body), {body.lanes[k].id : k \in DOMAIN body.lanes}),
   executor_agent_id |-> body.executorAgentId,
   planner_runtime |-> [planner_session_status |-> StatusOr(body.plannerRuntime.plannerSessionStatus),
                        is_planning |-> body.plannerRuntime.isPlanning,
                        is_planner_stopping |-> body.plannerRuntime.isPlannerStopping,
                        is_overlay_close_blocked |-> body.plannerRuntime.isOverlayCloseBlocked]]

(* An answer carries camelCase names.                                      *)
AnswerNode(o) == [id |-> o.id, title |-> o.title, dependsOn |-> o.depends_on, agentId |-> o.agent_id]
AnswerMessage(m) == [role |-> m.role, content |-> m.content, createdAt |-> m.created_at, kind |-> m.kind]
AnswerLane(l) == [id |-> l.id, name |-> l.name, agentId |-> l.agent_id, createdAt |-> l.created_at]
ToFlowDraftItem(r) ==
  [nodes |-> {AnswerNode(o) : o \in r.nodes}, edges |-> r.edges,
   plannerMessages |-> Each(r.planner_messages, AnswerMessage), lanes |-> Each(r.lanes, AnswerLane),
   nodeLaneById |-> KnownLanes(r.node_lane_by_id, NodeIds(r), {r.lanes[k].id : k \in DOMAIN r.lanes}),
   executorAgentId |-> r.executor_agent_id,
   plannerRuntime |-> [plannerSessionStatus |-> r.planner_runtime.planner_session_status,
                       isPlanning |-> r.planner_runtime.is_planning,
                       isPlannerStopping |-> r.planner_runtime.is_planner_stopping,
                       isOverlayCloseBlocked |-> r.planner_runtime.is_overlay_close_blocked]]

-----------------------------------------------------------------------------
(* What the page reads.                                                    *)

GoodNode(o) == {"id", "title"} \subseteq DOMAIN o
(* Deaf to camelCase: a mutant.                                            *)
DecodeStoredNode(o) == [id |-> o.id, deps |-> FieldOr(o, "depends_on", "depends_on", {}),
                        agent |-> FieldOr(o, "agent_id", "agent_id", None)]
DecodeNode(o) == [id |-> o.id, deps |-> FieldOr(o, "depends_on", "dependsOn", {}),
                  agent |-> FieldOr(o, "agent_id", "agentId", None)]

GoodEdge(o) == {"source", "target"} \subseteq DOMAIN o
DecodeEdge(o) == <<o.source, o.target>>

GoodLane(o) == {"id", "name"} \subseteq DOMAIN o /\ Has(o, "created_at", "createdAt")
DecodeLane(o) == [id |-> o.id, agent |-> FieldOr(o, "agent_id", "agentId", None)]

Role(r) == IF r \in {"tool", "other"} THEN "system" ELSE r
GoodMessage(o) == /\ "role" \in DOMAIN o /\ Role(o.role) \in {"user", "assistant", "system"}
                  /\ Has(o, "created_at", "createdAt")
DecodeChatMessage(o) == [role |-> Role(o.role), content |-> FieldOr(o, "content", "content", None),
                         kind |-> FieldOr(o, "kind", "kind", None)]

DecodePlannerRuntime(o) ==
  [status |-> StatusOr(FieldOr(o, "planner_session_status", "plannerSessionStatus", "idle")),
   planning |-> FieldOr(o, "is_planning", "isPlanning", FALSE),
   stopping |-> FieldOr(o, "is_planner_stopping", "isPlannerStopping", FALSE),
   blocked |-> FieldOr(o, "is_overlay_close_blocked", "isOverlayCloseBlocked", FALSE)]

(* The nodes of an answer by their ids.                                    *)
DecodeNodes(S) ==
  LET read == DecodeSet(S, GoodNode, DecodeNode)
  IN [n \in {x.id : x \in read} |->
        LET x == CHOOSE y \in read : y.id = n IN [deps |-> x.deps, agent |-> x.agent]]

DecodeFlowDraftItem(o) ==
  [nodes |-> DecodeNodes(FieldOr(o, "nodes", "nodes", {})),
   edges |-> DecodeSet(FieldOr(o, "edges", "edges", {}), GoodEdge, DecodeEdge),
   messages |-> DecodeArray(FieldOr(o, "planner_messages", "plannerMessages", <<>>), GoodMessage, DecodeChatMessage),
   lanes |-> DecodeArray(FieldOr(o, "lanes", "lanes", <<>>), GoodLane, DecodeLane),
   laneOf |-> FieldOr(o, "node_lane_by_id", "nodeLaneById", <<>>),
   executor |-> FieldOr(o, "executor_agent_id", "executorAgentId", None),
   runtime |-> DecodePlannerRuntime(FieldOr(o, "planner_runtime", "plannerRuntime", <<>>))]

AnswerConfirm(ns) == [nodes |-> EncodeNodes(ns)]
DecodeFlowConfirm(o) == DecodeNodes(FieldOr(o, "nodes", "nodes", {}))

(* What listFlowDrafts gives of what has been stored.                      *)
NormalizeDraft(d) ==
  [d EXCEPT !.messages = Items(@, {k \in DOMAIN @ : @[k].role \in {"user", "assistant", "system"}}),
            !.runtime.status = StatusOr(@)]

(* A page's draft, when the page is opened again.                          *)
RoundTrip(d) ==
  NormalizeDraft(DecodeFlowDraftItem(ToFlowDraftItem(UpsertFlowDraft(EncodeFlowDraftUpsert(d)))))
==============================================================================
