------------------------------ MODULE FlowCanvas ------------------------------
(***************************************************************************)
(* The canvas of one flow: nodes with their dependencies, the lanes that   *)
(* give them agents, the gestures that edit both, the planner's changes,   *)
(* the confirmation that turns the canvas into rows, and the automatic     *)
(* synchronisation of the rows of a flow that does not run                 *)
(* (frontend/src/components/flowPageGraphUtils.ts, flowPageStateUtils.ts,  *)
(* flow-page/hooks/useFlowCanvasInteraction.ts, useFlowPlannerActions.ts,  *)
(* hooks/useBlockedFlowAutoSync.ts).                                       *)
(*                                                                         *)
(* Positions, titles and descriptions are left out: an edit of a node's    *)
(* text changes no variable but edited.  All agents belong to one          *)
(* instance.  The model begins when the page has loaded the flow and, once *)
(* for all, the agents.                                                    *)
(***************************************************************************)
EXTENDS Integers, Sequences, FiniteSets, SequencesExt

CONSTANTS
  Node,      \* ids of nodes
  Agent,
  Main,      \* the agent called main
  Lane,      \* ids of lanes the user may add
  None,      \* no agent, no lane, nothing
  Before,    \* the rows the flow may have when the page opens
  Saved,     \* the drafts it may have
  Loaded,    \* what the overview may have loaded: sets of agents
  MaxStep    \* bound: gestures begun, moves of a node, what the planner
             \* does, executors chosen, confirmations, stops,
             \* continuations and faults

INSTANCE FlowWire

Partial(f, S) == DOMAIN f \subseteq Node /\ f \in [DOMAIN f -> S]

CanvasNode == [deps : SUBSET Node, agent : Agent \cup {None}]

(* A lane made for an agent is named after it; None names the lane of the  *)
(* nodes without one.                                                      *)
LaneId == Agent \cup Lane \cup {None}
FlowLane == [id : LaneId, agent : Agent \cup {None}]
Ids(ls) == {ls[k].id : k \in DOMAIN ls}
LaneNamed(ls, i) == ls[CHOOSE k \in DOMAIN ls : ls[k].id = i]

Status == {"queued", "running", "blocked", "ended"}
Row == [deps : SUBSET Node, agent : Agent, status : Status]

(* What the page may open with.                                            *)
ASSUME CanvasAssumption ==
  /\ IsFiniteSet(Node) /\ Main \in Agent /\ MaxStep \in Nat
  /\ None \notin Node \cup Agent \cup Lane /\ Agent \cap Lane = {}
  /\ \A on \in Loaded : on \subseteq Agent /\ IsFiniteSet(on)
  /\ \A t \in Before : Partial(t, Row)
  /\ \A d \in Saved : /\ Partial(d.nodes, CanvasNode) /\ d.lanes \in Seq(FlowLane)
                      /\ Partial(d.laneOf, LaneId) /\ d.executor \in Agent \cup {None}

(* What is sent to be confirmed: the layer is the node's depth plus one.   *)
Prepare == [deps : SUBSET Node, agent : Agent, layer : Nat \ {0}]

(* What the user is at, one thing at a time: an open form and what it was  *)
(* opened on, an edge drawn from a node, or a node that is moved over the  *)
(* lanes there were at the start.                                          *)
Idle == [kind |-> "idle"]
Hand(l) == {Idle}
  \cup [kind : {"pull", "editNode"}, on : Node]
  \cup [kind : {"createNode", "editLane"}, on : LaneId]
  \cup [kind : {"createLane"}, on : {None}]
  \cup [kind : {"move"}, on : Node, lanes : {l}]

VARIABLES
  nodes,      \* flowNodes
  lanes,      \* normalizedLanes, never empty
  laneOf,     \* nodeLaneById
  edited,     \* isDraftCanvas, and not isSubmittedFlow
  used,       \* ghost: ids there have been
  hand,       \* connectionDrag, dragState, nodeModal or laneModal
  online,     \* uniqueAgents
  executor,   \* selectedExecutorAgentId
  planning,   \* isPlannerAutoMode
  rows,       \* the server's rows of the flow
  tasks,      \* the rows as the page knows them
  acting,     \* isFlowActioning: a stop or a continuation and how far it is
  confirming, \* isSubmittingFlow: the payload and how far it is
  timer,      \* blockedSyncTimerRef: the canvas it will send
  inFlight,   \* blockedSyncInFlightSignatureRef
  queued,     \* blockedSyncQueuedRequestRef
  synced,     \* blockedSyncSignatureRef
  calls,      \* synchronisations on their way, and how far each is
  left        \* what is left of the bound

canvas == <<nodes, lanes, laneOf, edited, used>>
server == <<rows, tasks>>
request == <<acting, confirming>>
sync == <<timer, inFlight, queued, synced, calls>>
agents == <<online, executor>>
vars == <<canvas, hand, agents, planning, server, request, sync, left>>

Spend == left > 0 /\ left' = left - 1

-----------------------------------------------------------------------------
(* Graphs.                                                                 *)

Edges(ns) == {e \in (DOMAIN ns) \X (DOMAIN ns) : e[1] # e[2] /\ e[1] \in ns[e[2]].deps}

DepsIn(ns, n) == (ns[n].deps \cap DOMAIN ns) \ {n}

(* Behind(ns)[k]: the nodes at the end of a path of k edges, so that the   *)
(* depth of a node is the greatest such k.                                 *)
Behind(ns) ==
  LET B[k \in 0 .. Cardinality(DOMAIN ns)] ==
        IF k = 0 THEN DOMAIN ns ELSE {n \in B[k - 1] : DepsIn(ns, n) \cap B[k - 1] # {}}
  IN B

HasCycle(ns) == Behind(ns)[Cardinality(DOMAIN ns)] # {}
Depth(ns, n) == CHOOSE k \in DOMAIN Behind(ns) :
                  /\ n \in Behind(ns)[k]
                  /\ \A j \in DOMAIN Behind(ns) : n \in Behind(ns)[j] => j <= k

(* Without the throw: a mutant.                                            *)
CheckedForLoops(ns) == \A n \in DOMAIN ns : n \notin ns[n].deps
Submittable(ns) == CheckedForLoops(ns) /\ ~HasCycle(ns)

-----------------------------------------------------------------------------
(* Lanes.                                                                  *)

AnyOrder(S) == SetToSeq(S)

InitialLanes(on) ==
  IF on = {} THEN << [id |-> None, agent |-> None] >>
  ELSE LET order == AnyOrder(on \cap {Main}) \o AnyOrder(on \ {Main})
       IN [k \in DOMAIN order |-> [id |-> order[k], agent |-> order[k]]]

Or(a, b) == IF a # None THEN a ELSE b

(* One lane per agent of the nodes, or the initial ones.                   *)
LanesOf(ns, fallback, on) ==
  LET owners == AnyOrder({Or(ns[n].agent, fallback) : n \in DOMAIN ns})
  IN IF owners = <<>> THEN InitialLanes(on)
     ELSE [k \in DOMAIN owners |-> [id |-> owners[k], agent |-> owners[k]]]

LaneMapOf(ns, fallback) == [n \in DOMAIN ns |-> Or(ns[n].agent, fallback)]

LanesOfAgent(ls, a) == {k \in DOMAIN ls : a # None /\ ls[k].agent = a}
LastLane(ls, a) == ls[CHOOSE k \in LanesOfAgent(ls, a) : \A j \in LanesOfAgent(ls, a) : j <= k].id
FirstLane(ls, a) == ls[CHOOSE k \in LanesOfAgent(ls, a) : \A j \in LanesOfAgent(ls, a) : k <= j].id

ResolveLane(n, map, ls) ==
  IF n \in DOMAIN map /\ map[n] \in Ids(ls) THEN map[n] ELSE ls[1].id

(* The agent that is selected, or else the one of a lane.                  *)
Executor(selected, ls, on) ==
  LET served == SelectInSeq(ls, LAMBDA l : l.agent \in on)
  IN CASE selected # None -> IF selected \in on THEN selected ELSE None
       [] selected = None /\ served # 0 -> ls[served].agent
       [] selected = None /\ served = 0 /\ Main \in on -> Main
       [] selected = None /\ served = 0 /\ Main \notin on -> IF on = {} THEN None ELSE CHOOSE a \in on : TRUE

Missing(ns, ls, selected, on) ==
  ({ls[k].agent : k \in DOMAIN ls} \cup {ns[n].agent : n \in DOMAIN ns} \cup {selected}) \ (on \cup {None})

(* pick stands for the round of agents of a layer.                         *)
Assigned(n, map, ls, on, pick) ==
  LET own == LaneNamed(ls, ResolveLane(n, map, ls)).agent IN IF own \in on THEN own ELSE pick[n]

(* With the depth for the layer: a mutant.                                 *)
PreparedFromZero(ns, map, ls, on, pick) ==
  [n \in DOMAIN ns |-> [deps |-> DepsIn(ns, n), layer |-> Depth(ns, n),
                        agent |-> Assigned(n, map, ls, on, pick)]]
Prepared(ns, map, ls, on, pick) ==
  [n \in DOMAIN ns |-> [deps |-> DepsIn(ns, n), layer |-> Depth(ns, n) + 1,
                        agent |-> Assigned(n, map, ls, on, pick)]]

-----------------------------------------------------------------------------
(* The planner's canvas and the page's.                                    *)

(* deps: per node of the draft.                                            *)
ReconciledMap(deps) ==
  [n \in DOMAIN deps |->
     LET old == IF n \in DOMAIN nodes THEN nodes[n].agent ELSE None
     IN IF n \in DOMAIN laneOf /\ laneOf[n] \in Ids(lanes) THEN laneOf[n]
        ELSE IF LanesOfAgent(lanes, old) # {} THEN LastLane(lanes, old)
        ELSE IF LanesOfAgent(lanes, executor) # {} THEN LastLane(lanes, executor) ELSE lanes[1].id]

ReconciledNodes(deps, map) ==
  [n \in DOMAIN deps |->
     LET own == LaneNamed(lanes, map[n]).agent
         old == IF n \in DOMAIN nodes THEN nodes[n].agent ELSE None
     IN [deps |-> (deps[n] \cap DOMAIN deps) \ {n}, agent |-> Or(Or(own, old), executor)]]

Upserted(n, ds) == [m \in DOMAIN nodes \cup {n} |-> IF m = n THEN ds ELSE nodes[m].deps]
Removed(n) == [m \in DOMAIN nodes \ {n} |-> nodes[m].deps]

(* The canvas a flow's rows are opened with.                               *)
Snapshot(t) == [n \in DOMAIN t |-> [deps |-> DepsIn(t, n), agent |-> t[n].agent]]

Runtime(t) ==
  IF \E n \in DOMAIN t : t[n].status \in {"running", "queued"} THEN "running"
  ELSE IF \E n \in DOMAIN t : t[n].status = "blocked" THEN "blocked" ELSE "idle"

CanEdit == ~planning /\ acting = None /\ Runtime(tasks) # "running"
CanConfirm == CanEdit /\ nodes # <<>> /\ Runtime(tasks) = "idle"

-----------------------------------------------------------------------------
OpensRows ==
  /\ rows # <<>> /\ nodes = Snapshot(rows)
  /\ lanes = LanesOf(nodes, None, online) /\ laneOf = LaneMapOf(nodes, None)
  /\ executor \in {rows[n].agent : n \in DOMAIN rows} /\ edited = FALSE

(* The lane map of a draft may be older than its nodes and lanes.          *)
DraftLaneMap(d) ==
  [n \in DOMAIN d.nodes |->
     IF n \in DOMAIN d.laneOf /\ d.laneOf[n] \in Ids(d.lanes) THEN d.laneOf[n]
     ELSE IF LanesOfAgent(d.lanes, d.nodes[n].agent) # {} THEN LastLane(d.lanes, d.nodes[n].agent)
     ELSE IF LanesOfAgent(d.lanes, d.executor) # {} THEN FirstLane(d.lanes, d.executor)
     ELSE d.lanes[1].id]

(* With rows, too: the page then shows the draft instead of them.          *)
OpensDraft ==
  \E d \in Saved :
    /\ rows # <<>> => d.nodes # <<>>
    /\ nodes = Snapshot(d.nodes) /\ edited = TRUE
    /\ IF d.lanes # <<>> THEN lanes = d.lanes /\ laneOf = DraftLaneMap(d)
       ELSE lanes = LanesOf(nodes, d.executor, online) /\ laneOf = LaneMapOf(nodes, d.executor)
    /\ executor = Or(d.executor, Executor(None, lanes, online))

(* Agents of the rows or of the draft may have gone since.                 *)
Init ==
  /\ rows \in Before /\ tasks = rows /\ online \in Loaded
  /\ OpensRows \/ OpensDraft
  /\ used = DOMAIN nodes \cup DOMAIN rows
  /\ hand = Idle
  /\ planning = FALSE
  /\ acting = None /\ confirming = None
  /\ timer = None /\ inFlight = None /\ queued = None /\ synced = None /\ calls = {}
  /\ left = MaxStep

(* A gesture that leaves the canvas edited.                                *)
Edits == edited' = TRUE /\ UNCHANGED <<agents, planning, server, request, sync>>

(* A gesture that changes nothing but what the user is at.                 *)
Begins(kind, T) ==
  /\ CanEdit /\ hand = Idle /\ Spend
  /\ \E x \in T : hand' = [kind |-> kind, on |-> x]
  /\ UNCHANGED <<canvas, agents, planning, server, request, sync>>

OpenNodeForm == Begins("createNode", Ids(lanes)) \/ Begins("editNode", DOMAIN nodes)
OpenLaneForm == Begins("createLane", {None}) \/ Begins("editLane", Ids(lanes))
StartPull == Begins("pull", DOMAIN nodes)

Grab ==
  /\ CanEdit /\ hand = Idle /\ Spend
  /\ \E n \in DOMAIN nodes : hand' = [kind |-> "move", on |-> n, lanes |-> lanes]
  /\ UNCHANGED <<canvas, agents, planning, server, request, sync>>

(* A form is closed, an edge dropped beside every node, a node let go.     *)
LetGo ==
  /\ hand # Idle /\ hand' = Idle
  /\ UNCHANGED <<canvas, agents, planning, server, request, sync, left>>

(* None of what ends a gesture looks whether the canvas may be edited.     *)
CreateNode ==
  /\ hand.kind = "createNode" /\ hand.on \in Ids(lanes) /\ hand' = Idle
  /\ \E n \in Node \ used :
       /\ nodes' = [m \in DOMAIN nodes \cup {n} |->
                      IF m = n THEN [deps |-> {}, agent |-> Or(LaneNamed(lanes, hand.on).agent, executor)]
                      ELSE nodes[m]]
       /\ laneOf' = [m \in DOMAIN laneOf \cup {n} |-> IF m = n THEN hand.on ELSE laneOf[m]]
       /\ used' = used \cup {n}
  /\ Edits /\ UNCHANGED <<left, lanes>>

SaveNode ==
  /\ hand.kind = "editNode" /\ hand' = Idle
  /\ Edits /\ UNCHANGED <<left, nodes, lanes, laneOf, used>>

CreateLane ==
  /\ hand.kind = "createLane" /\ hand' = Idle
  /\ \E l \in Lane \ Ids(lanes), a \in online \cup {None} : lanes' = Append(lanes, [id |-> l, agent |-> a])
  /\ Edits /\ UNCHANGED <<left, nodes, laneOf, used>>

SaveLane ==
  /\ hand.kind = "editLane" /\ hand' = Idle
  /\ \E a \in online \cup {None} \cup {lanes[k].agent : k \in {j \in DOMAIN lanes : lanes[j].id = hand.on}} :
       /\ lanes' = [k \in DOMAIN lanes |->
                      IF lanes[k].id = hand.on THEN [lanes[k] EXCEPT !.agent = a] ELSE lanes[k]]
       /\ nodes' = [n \in DOMAIN nodes |->
                      IF a # None /\ ResolveLane(n, laneOf, lanes) = hand.on
                      THEN [nodes[n] EXCEPT !.agent = a] ELSE nodes[n]]
  /\ Edits /\ UNCHANGED <<left, laneOf, used>>

(* The source of the edge may have gone while it was drawn.                *)
Connect ==
  /\ hand.kind = "pull" /\ hand' = Idle
  /\ \E n \in DOMAIN nodes :
       /\ n # hand.on /\ <<hand.on, n>> \notin Edges(nodes)
       /\ nodes' = [nodes EXCEPT ![n].deps = @ \cup {hand.on}]
  /\ Edits /\ UNCHANGED <<left, lanes, laneOf, used>>

(* The lane is written from what the update of the nodes has collected:    *)
(* nothing yet, when that update waits for the next rendering.             *)
MoveTo ==
  /\ hand.kind = "move" /\ hand.on \in DOMAIN nodes
  /\ \E k \in DOMAIN hand.lanes :
       /\ nodes' = [nodes EXCEPT ![hand.on].agent = hand.lanes[k].agent]
       /\ \/ laneOf' = [m \in DOMAIN laneOf \cup {hand.on} |->
                          IF m = hand.on THEN hand.lanes[k].id ELSE laneOf[m]]
          \/ laneOf' = laneOf
  /\ Spend /\ Edits /\ UNCHANGED <<lanes, used, hand>>

Unpulled == hand' = IF hand.kind = "pull" THEN Idle ELSE hand

Without(f, S) == [m \in DOMAIN f \ S |-> f[m]]
KeepLanes(S) == laneOf' = laneOf
ForgetLanes(S) == laneOf' = Without(laneOf, S)

(* The key works whatever is open or held.                                 *)
DeleteNodes ==
  /\ CanEdit
  /\ \E S \in (SUBSET (DOMAIN nodes)) \ {{}} :
       /\ nodes' = [m \in DOMAIN nodes \ S |-> [nodes[m] EXCEPT !.deps = @ \ S]]
       /\ ForgetLanes(S)
  /\ Unpulled /\ Spend /\ Edits /\ UNCHANGED <<lanes, used>>

RemoveEdge ==
  /\ CanEdit
  /\ \E e \in Edges(nodes) : nodes' = [nodes EXCEPT ![e[2]].deps = @ \ {e[1]}]
  /\ Spend /\ Edits /\ UNCHANGED <<lanes, laneOf, used, hand>>

DeleteKey == DeleteNodes \/ RemoveEdge

-----------------------------------------------------------------------------
(* The planner.                                                            *)

PlanStarts ==
  /\ ~planning /\ acting = None /\ Runtime(tasks) # "running" /\ Spend
  /\ planning' = TRUE
  /\ UNCHANGED <<canvas, hand, agents, server, request, sync>>

(* A change by the planner, or one that a new stream repeats after the     *)
(* session has ended.                                                      *)
PlannerDraft ==
  /\ Spend
  /\ \E deps \in {Upserted(n, ds) : n \in Node, ds \in SUBSET (DOMAIN nodes)}
                 \cup {Removed(n) : n \in DOMAIN nodes} :
       LET map == ReconciledMap(deps)
           new == ReconciledNodes(deps, map)
       IN /\ ~HasCycle(new)
          /\ nodes' = new /\ laneOf' = map /\ used' = used \cup DOMAIN deps
  /\ edited' = TRUE
  /\ UNCHANGED <<lanes, hand, agents, planning, server, request, sync>>

PlanEnds ==
  /\ planning /\ planning' = FALSE
  /\ UNCHANGED <<canvas, hand, agents, server, request, sync, left>>

-----------------------------------------------------------------------------
(* The rows, their execution and what the page hears of them.              *)

Dispatch(n) ==
  /\ rows[n].status = "queued" /\ \A d \in DepsIn(rows, n) : rows[d].status = "ended"
  /\ rows' = [rows EXCEPT ![n].status = "running"]
  /\ UNCHANGED <<canvas, hand, agents, planning, tasks, request, sync, left>>

Finish(n) ==
  /\ rows[n].status = "running" /\ rows' = [rows EXCEPT ![n].status = "ended"]
  /\ UNCHANGED <<canvas, hand, agents, planning, tasks, request, sync, left>>

Hear ==
  /\ tasks # rows /\ tasks' = rows
  /\ UNCHANGED <<canvas, hand, agents, planning, rows, request, sync, left>>

(* The canvas of a flow without a draft is filled from its rows.           *)
Refill ==
  /\ ~edited /\ tasks # <<>>
  /\ nodes' = Snapshot(tasks) /\ lanes' = LanesOf(nodes', None, online) /\ laneOf' = LaneMapOf(nodes', None)
  /\ used' = used \cup DOMAIN nodes' /\ Unpulled /\ edited' = FALSE
  /\ UNCHANGED <<agents, planning, server, request, sync, left>>

ChooseExecutor ==
  /\ Spend /\ executor' \in online \ {executor}
  /\ UNCHANGED <<canvas, hand, online, planning, server, request, sync>>

-----------------------------------------------------------------------------
(* Stop and continue.                                                      *)

Act ==
  /\ Spend /\ ~planning /\ acting = None /\ confirming = None
  /\ \/ Runtime(tasks) = "running" /\ acting' = [kind |-> "stop", stage |-> "sent"]
     \/ Runtime(tasks) = "blocked" /\ acting' = [kind |-> "continue", stage |-> "sent"]
  /\ UNCHANGED <<canvas, hand, agents, planning, server, confirming, sync>>

Stopped(t) == [n \in DOMAIN t |-> IF t[n].status \in {"queued", "running"}
                                  THEN [t[n] EXCEPT !.status = "blocked"] ELSE t[n]]
Continued(t) == [n \in DOMAIN t |-> IF t[n].status = "blocked"
                                    THEN [t[n] EXCEPT !.status = "queued"] ELSE t[n]]

ServeAct ==
  /\ acting # None /\ acting.stage = "sent"
  /\ \/ /\ rows # <<>> /\ acting' = [acting EXCEPT !.stage = "served"]
        /\ rows' = IF acting.kind = "stop" THEN Stopped(rows) ELSE Continued(rows)
        /\ UNCHANGED left
     \/ /\ \/ rows = <<>> /\ UNCHANGED left
           \/ Spend
        /\ acting' = [acting EXCEPT !.stage = "failed"] /\ UNCHANGED rows
  /\ UNCHANGED <<canvas, hand, agents, planning, tasks, confirming, sync>>

(* The page asks for the rows before it takes the button's mark away.      *)
ActAnswered ==
  /\ acting # None /\ acting.stage # "sent" /\ acting' = None
  /\ tasks' = IF acting.stage = "served" THEN rows ELSE tasks
  /\ UNCHANGED <<canvas, hand, agents, planning, rows, confirming, sync, left>>

-----------------------------------------------------------------------------
(* Confirmation.                                                           *)

Preflight ==
  /\ CanEdit /\ nodes # <<>> /\ Missing(nodes, lanes, executor, online) = {}
  /\ Executor(executor, lanes, online) # None
  /\ Submittable(nodes)

ConfirmPayload(pick) == [nodes |-> Prepared(nodes, laneOf, lanes, online, pick), stage |-> "sent"]

Confirm ==
  /\ CanConfirm /\ confirming = None /\ Preflight /\ Spend
  /\ \E pick \in [DOMAIN nodes -> online] : confirming' = ConfirmPayload(pick)
  /\ UNCHANGED <<canvas, hand, agents, planning, server, acting, sync>>

ServeConfirm ==
  /\ confirming # None /\ confirming.stage = "sent"
  /\ \/ /\ confirming' = [confirming EXCEPT !.stage = "served"]
        /\ \E got \in {ReadNodes(EncodeFlowConfirm(confirming.nodes, Edges(confirming.nodes)))} :
             rows' = [n \in DOMAIN got |-> [deps |-> got[n].deps, agent |-> got[n].agent, status |-> "queued"]]
        /\ UNCHANGED left
     \/ Spend /\ confirming' = [confirming EXCEPT !.stage = "failed"] /\ UNCHANGED rows
  /\ UNCHANGED <<canvas, hand, agents, planning, tasks, acting, sync>>

(* The canvas of the answer, with lanes made anew.                         *)
ConfirmedCanvas(ns) ==
  /\ nodes' = ns /\ lanes' = LanesOf(ns, None, online) /\ laneOf' = LaneMapOf(ns, None)
Submitted == edited' = FALSE /\ Unpulled

ConfirmAnswered ==
  /\ confirming # None /\ confirming.stage = "served" /\ confirming' = None
  /\ ConfirmedCanvas(DecodeFlowConfirm(AnswerConfirm(confirming.nodes))) /\ Submitted
  /\ tasks' = rows
  /\ UNCHANGED <<used, agents, planning, rows, acting, sync, left>>

ConfirmFails ==
  /\ confirming # None /\ confirming.stage = "failed" /\ confirming' = None
  /\ UNCHANGED <<canvas, hand, agents, planning, server, acting, sync, left>>

-----------------------------------------------------------------------------
(* The synchronisation of the rows with the canvas.                        *)

Wanted ==
  /\ Runtime(tasks) # "running" /\ ~planning /\ acting = None /\ confirming = None
  /\ tasks # <<>>

(* The effect runs after every rendering; its timer sends the canvas it    *)
(* saw.                                                                    *)
SyncEffect ==
  /\ timer' = IF Wanted /\ nodes \notin {synced, inFlight, queued} THEN nodes ELSE None
  /\ queued' = IF Wanted \/ tasks = <<>> THEN queued ELSE None
  /\ <<timer', queued'>> # <<timer, queued>>
  /\ UNCHANGED <<canvas, hand, agents, planning, server, request, inFlight, synced, calls, left>>

Send(ns) == inFlight' = ns /\ calls' = calls \cup {[nodes |-> ns, stage |-> "sent"]}
AtOnce(ns) == Send(ns) /\ queued' = queued
Launch(ns) ==
  \/ inFlight # None /\ queued' = ns /\ UNCHANGED <<inFlight, calls>>
  \/ inFlight = None /\ Send(ns) /\ UNCHANGED queued

SyncTimer ==
  /\ timer # None /\ Launch(timer) /\ timer' = None
  /\ UNCHANGED <<canvas, hand, agents, planning, server, request, synced, left>>

Editable(row) == row.status # "ended"

(* Rows that have ended are left alone, the others follow the canvas.      *)
SyncedRows(t, ns) ==
  LET kept == {n \in DOMAIN t : n \in DOMAIN ns \/ ~Editable(t[n])}
      stopped == \E n \in DOMAIN t : t[n].status = "blocked"
      agent(n) == Or(ns[n].agent, CHOOSE a \in {t[m].agent : m \in DOMAIN t} : TRUE)
  IN [n \in kept \cup DOMAIN ns |->
        IF n \in DOMAIN t /\ ~Editable(t[n]) THEN t[n]
        ELSE [deps |-> DepsIn(ns, n), agent |-> agent(n),
              status |-> IF n \in DOMAIN t THEN t[n].status
                         ELSE IF stopped THEN "blocked" ELSE "queued"]]

Staged(c, s) == (calls \ {c}) \cup {[c EXCEPT !.stage = s]}

ServeSync(c) ==
  /\ c.stage = "sent"
  /\ \/ /\ rows # <<>> /\ calls' = Staged(c, "served") /\ UNCHANGED left
        /\ \E got \in {ReadNodes(EncodeFlowSync(c.nodes, Edges(c.nodes)))} : rows' = SyncedRows(rows, got)
     \/ /\ \/ rows = <<>> /\ UNCHANGED left
           \/ Spend
        /\ UNCHANGED rows /\ calls' = Staged(c, "failed")
  /\ UNCHANGED <<canvas, hand, agents, planning, tasks, request, timer, inFlight, queued, synced>>

SyncAnswered(c) ==
  /\ c.stage = "served" /\ synced' = c.nodes /\ calls' = Staged(c, "refresh")
  /\ UNCHANGED <<canvas, hand, agents, planning, server, request, timer, inFlight, queued, left>>

FreeFlight(c) == IF inFlight = c.nodes THEN None ELSE inFlight
FreeOnSuccess(c) == IF inFlight = c.nodes /\ c.stage = "refresh" THEN None ELSE inFlight
Freed(c) == FreeFlight(c)

(* What waits is sent next, unless it is what has just been accepted.      *)
SyncEnds(c) ==
  /\ c.stage \in {"refresh", "failed"}
  /\ tasks' = IF c.stage = "refresh" THEN rows ELSE tasks
  /\ queued' = IF Freed(c) = None THEN None ELSE queued
  /\ IF queued \in {None, synced} \/ Freed(c) # None
     THEN inFlight' = Freed(c) /\ calls' = calls \ {c}
     ELSE inFlight' = queued /\ calls' = (calls \ {c}) \cup {[nodes |-> queued, stage |-> "sent"]}
  /\ UNCHANGED <<canvas, hand, agents, planning, rows, request, timer, synced, left>>

-----------------------------------------------------------------------------
Gestures ==
  \/ OpenNodeForm \/ CreateNode \/ SaveNode
  \/ OpenLaneForm \/ CreateLane \/ SaveLane
  \/ StartPull \/ Connect \/ Grab \/ MoveTo \/ LetGo
  \/ DeleteKey
Planner == PlanStarts \/ PlannerDraft \/ PlanEnds
Execution == \E n \in DOMAIN rows : Dispatch(n) \/ Finish(n)
Requests == Act \/ ServeAct \/ ActAnswered \/ Confirm \/ ServeConfirm \/ ConfirmAnswered \/ ConfirmFails
Syncs == SyncEffect \/ SyncTimer \/ \E c \in calls : ServeSync(c) \/ SyncAnswered(c) \/ SyncEnds(c)

Next == Gestures \/ Planner \/ Execution \/ Hear \/ Refill \/ ChooseExecutor \/ Requests \/ Syncs

Spec == Init /\ [][Next]_vars

(* Renderings, timers and answers come; the planner ends; the dispatcher   *)
(* and the agents go on; the stream of rows delivers.  Nothing is assumed  *)
(* of the user.                                                            *)
Fairness ==
  /\ WF_vars(PlanEnds) /\ WF_vars(Execution) /\ WF_vars(Hear)
  /\ WF_vars(ServeAct) /\ WF_vars(ActAnswered)
  /\ WF_vars(ServeConfirm) /\ WF_vars(ConfirmAnswered) /\ WF_vars(ConfirmFails)
  /\ WF_vars(SyncEffect) /\ WF_vars(SyncTimer)
  /\ WF_vars(\E c \in calls : ServeSync(c) \/ SyncAnswered(c) \/ SyncEnds(c))

FairSpec == Spec /\ Fairness

-----------------------------------------------------------------------------
(* Types; a gesture holds what it was begun with.                          *)
TypeOK ==
  /\ Partial(nodes, CanvasNode) /\ Partial(laneOf, LaneId) /\ used \subseteq Node
  /\ lanes \in Seq(FlowLane) /\ lanes # <<>> /\ edited \in BOOLEAN
  /\ hand \in Hand(IF hand.kind = "move" THEN hand.lanes ELSE <<>>)
  /\ hand.kind = "move" => hand.lanes \in Seq(FlowLane)
  /\ online \subseteq Agent /\ executor \in Agent \cup {None} /\ planning \in BOOLEAN
  /\ Partial(rows, Row) /\ Partial(tasks, Row)
  /\ acting = None \/ acting \in [kind : {"stop", "continue"}, stage : {"sent", "served", "failed"}]
  /\ confirming = None \/ (Partial(confirming.nodes, Prepare) /\ confirming.stage \in {"sent", "served", "failed"})
  /\ \A x \in {timer, inFlight, queued, synced} : x = None \/ Partial(x, CanvasNode)
  /\ \A c \in calls : /\ Partial(c.nodes, CanvasNode)
                      /\ c.stage \in {"sent", "served", "failed", "refresh"}
  /\ left \in 0 .. MaxStep

(* Nodes and lane map change together whatever changes them: gestures,     *)
(* late moves of the pointer, the planner, a confirmation (the comment at  *)
(* useFlowCanvasInteraction.ts:565 asks for it).                           *)
LanesFollowNodes == DOMAIN laneOf = DOMAIN nodes

(* The draft the page keeps of an edited canvas; a planner that runs has   *)
(* been prompted.                                                          *)
NextDraft ==
  [nodes |-> nodes, edges |-> Edges(nodes), lanes |-> lanes, laneOf |-> laneOf, executor |-> executor,
   messages |-> IF planning THEN << [role |-> "user", content |-> "prompt", kind |-> None] >> ELSE <<>>,
   runtime |-> [status |-> IF planning THEN "planning" ELSE "idle",
                planning |-> planning, stopping |-> FALSE, blocked |-> planning]]

(* An edited canvas whose lanes are all there comes back from the server   *)
(* as it was left: nothing of it gets another name on the way out, on the  *)
(* server or on the way back, or is taken for broken and dropped           *)
(* (encodeFlowDraftUpsertRequest, upsert_flow_draft, decodeFlowDraftItem,  *)
(* normalizeDraft, applyDraftRecord).                                      *)
ReopensAsLeft ==
  edited /\ (\A n \in DOMAIN laneOf : laneOf[n] \in Ids(lanes)) =>
    LET d == RoundTrip(NextDraft) IN
    /\ DOMAIN d.nodes = DOMAIN nodes /\ Edges(Snapshot(d.nodes)) = Edges(nodes)
    /\ \A n \in DOMAIN nodes : d.nodes[n].agent = nodes[n].agent
    /\ d.lanes = lanes /\ DraftLaneMap(d) = laneOf /\ d.executor = executor
    /\ d.runtime = NextDraft.runtime
    /\ Len(d.messages) = Len(NextDraft.messages)
    /\ \A k \in DOMAIN d.messages : d.messages[k].role = NextDraft.messages[k].role

(* What is sent to be confirmed is what the canvas shows, can be executed  *)
(* layer by layer, and names only agents there are (the throws of          *)
(* prepareNodesForSubmission, and resolveFlowConfirmPreflight).            *)
Runnable(p) ==
  /\ {e \in (DOMAIN p) \X (DOMAIN p) : e[1] \in p[e[2]].deps} = Edges(nodes)
  /\ \A n \in DOMAIN p : /\ p[n].agent \in online
                         /\ \A d \in p[n].deps : d \in DOMAIN p /\ p[d].layer < p[n].layer
SentIsRunnable == [][confirming = None /\ confirming' # None => Runnable(confirming'.nodes)]_vars

(* Two synchronisations never race for the rows (launchSyncRequest).       *)
OneSyncAtATime == Cardinality(calls) <= 1

(* The rows of a flow that does not run follow the canvas, whatever was    *)
(* edited, reverted or refused meanwhile: useBlockedFlowAutoSync sends     *)
(* again until the server has what the page shows.                         *)
Agrees ==
  /\ DOMAIN nodes \subseteq DOMAIN rows
  /\ \A n \in DOMAIN rows : Editable(rows[n]) =>
       /\ n \in DOMAIN nodes /\ rows[n].deps = DepsIn(nodes, n)
       /\ nodes[n].agent \in {None, rows[n].agent}
SyncSettles == []<>(Wanted => Agrees)
==============================================================================
