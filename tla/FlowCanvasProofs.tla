--------------------------- MODULE FlowCanvasProofs ---------------------------
(* Proofs about the canvas of a flow, for any nodes, agents and lanes.      *)
EXTENDS FlowCanvas, FiniteSetTheorems, WellFoundedInduction, TLAPS

(* Two synchronisations never race: what is on its way is what the page    *)
(* remembers as in flight.                                                 *)
FlightInv ==
  /\ \A c \in calls : c = [nodes |-> inFlight, stage |-> c.stage]
  /\ \A c, d \in calls : c = d
  /\ inFlight = None => calls = {}

LEMMA FlightInit == Init => FlightInv
  BY DEF Init, FlightInv

LEMMA FlightStep == FlightInv /\ [Next]_vars => FlightInv'
<1> SUFFICES ASSUME FlightInv, [Next]_vars PROVE FlightInv'
  OBVIOUS
<1> USE DEF FlightInv
<1>1. ASSUME UNCHANGED <<calls, inFlight>> PROVE FlightInv'
  BY <1>1
<1>2. CASE Gestures
  BY <1>1, <1>2 DEF Gestures, OpenNodeForm, CreateNode, SaveNode, OpenLaneForm, CreateLane, SaveLane,
     StartPull, Connect, Grab, MoveTo, LetGo, DeleteKey, DeleteNodes, RemoveEdge, Begins, Edits, sync
<1>3. CASE Planner \/ Execution \/ Hear \/ Refill \/ ChooseExecutor
  BY <1>1, <1>3 DEF Planner, PlanStarts, PlannerDraft, PlanEnds, Execution, Dispatch, Finish, Hear, Refill,
     ChooseExecutor, sync
<1>4. CASE Requests
  BY <1>1, <1>4 DEF Requests, Act, ServeAct, ActAnswered, Confirm, ServeConfirm, ConfirmAnswered, ConfirmFails,
     sync
<1>5. CASE SyncEffect
  BY <1>1, <1>5 DEF SyncEffect
<1>6. CASE SyncTimer
  BY <1>6 DEF SyncTimer, Launch, Send
<1>7. ASSUME NEW c \in calls, ServeSync(c) \/ SyncAnswered(c) PROVE FlightInv'
  BY <1>7 DEF ServeSync, SyncAnswered, Staged
<1>8. ASSUME NEW c \in calls, SyncEnds(c) PROVE FlightInv'
  <2>1. Freed(c) = None /\ calls \ {c} = {}
    BY DEF Freed, FreeFlight
  <2>2. CASE queued \in {None, synced}
    BY <1>8, <2>1, <2>2 DEF SyncEnds
  <2>3. CASE queued \notin {None, synced}
    BY <1>8, <2>1, <2>3 DEF SyncEnds
  <2> QED
    BY <2>2, <2>3
<1>9. CASE UNCHANGED vars
  BY <1>1, <1>9 DEF vars, sync
<1> QED
  BY <1>2, <1>3, <1>4, <1>5, <1>6, <1>7, <1>8, <1>9 DEF Next, Syncs

(* At most one synchronisation of the flow is on its way, however late its *)
(* answer, whatever waits behind it (launchSyncRequest).                   *)
THEOREM OneSync == Spec => []OneSyncAtATime
<1>1. FlightInv => OneSyncAtATime
  <2> SUFFICES ASSUME FlightInv PROVE Cardinality(calls) <= 1
    BY DEF OneSyncAtATime
  <2>1. CASE calls = {}
    BY <2>1, FS_EmptySet
  <2>2. CASE calls # {}
    <3>1. PICK c \in calls : calls = {c}
      BY <2>2 DEF FlightInv
    <3>2. Cardinality({c}) = 1
      BY FS_Singleton
    <3> QED
      BY <3>1, <3>2
  <2> QED
    BY <2>1, <2>2
<1> QED
  BY <1>1, FlightInit, FlightStep, PTL DEF Spec

-----------------------------------------------------------------------------
(* The lane map.                                                           *)

LEMMA LanesInit == Init => LanesFollowNodes
  BY DEF Init, OpensRows, OpensDraft, LanesFollowNodes, LaneMapOf, DraftLaneMap, Snapshot

LEMMA LanesStep == LanesFollowNodes /\ [Next]_vars => LanesFollowNodes'
<1> SUFFICES ASSUME LanesFollowNodes, [Next]_vars PROVE LanesFollowNodes'
  OBVIOUS
<1> USE DEF LanesFollowNodes
<1>1. ASSUME UNCHANGED <<nodes, laneOf>> PROVE LanesFollowNodes'
  BY <1>1
<1>2. CASE OpenNodeForm \/ OpenLaneForm \/ StartPull \/ Grab \/ LetGo \/ CreateLane \/ SaveNode
  BY <1>1, <1>2 DEF OpenNodeForm, OpenLaneForm, StartPull, Grab, LetGo, CreateLane, SaveNode, Begins, canvas
<1>3. CASE CreateNode
  BY <1>3 DEF CreateNode
<1>4. CASE SaveLane
  BY <1>4 DEF SaveLane
<1>5. CASE Connect
  BY <1>5 DEF Connect
<1>6. CASE MoveTo
  BY <1>6 DEF MoveTo
<1>7. CASE DeleteNodes
  BY <1>7 DEF DeleteNodes, ForgetLanes, Without
<1>8. CASE RemoveEdge
  BY <1>8 DEF RemoveEdge
<1>9. CASE Planner
  <2>1. CASE PlannerDraft
    BY <2>1 DEF PlannerDraft, ReconciledMap, ReconciledNodes
  <2> QED
    BY <1>1, <1>9, <2>1 DEF Planner, PlanStarts, PlanEnds, canvas
<1>10. CASE Execution \/ Hear \/ ChooseExecutor \/ Syncs
  BY <1>1, <1>10 DEF Execution, Dispatch, Finish, Hear, ChooseExecutor, Syncs, SyncEffect, SyncTimer,
     ServeSync, SyncAnswered, SyncEnds, canvas
<1>11. CASE Refill
  BY <1>11 DEF Refill, LaneMapOf
<1>12. CASE Requests
  <2>1. CASE ConfirmAnswered
    BY <2>1 DEF ConfirmAnswered, ConfirmedCanvas, LaneMapOf
  <2> QED
    BY <1>1, <1>12, <2>1 DEF Requests, Act, ServeAct, ActAnswered, Confirm, ServeConfirm, ConfirmFails, canvas
<1>13. CASE UNCHANGED vars
  BY <1>1, <1>13 DEF vars, canvas
<1> QED
  BY <1>2, <1>3, <1>4, <1>5, <1>6, <1>7, <1>8, <1>9, <1>10, <1>11, <1>12, <1>13 DEF Next, Gestures, DeleteKey

(* The lane map names the nodes of the canvas, no other and none less,     *)
(* whatever edits, plans, confirmations and refills come in what order.    *)
THEOREM LanesFollow == Spec => []LanesFollowNodes
  BY LanesInit, LanesStep, PTL DEF Spec

-----------------------------------------------------------------------------
(* What the server reads of a request, and the page of an answer.          *)

LEMMA EncodedIds ==
  ASSUME NEW ns
  PROVE  {o.id : o \in EncodeNodes(ns)} = DOMAIN ns
<1>1. \A n \in DOMAIN ns : EncodeNode(n, ns[n]).id = n
  BY DEF EncodeNode
<1>2. EncodeNodes(ns) = {EncodeNode(n, ns[n]) : n \in DOMAIN ns}
  BY DEF EncodeNodes
<1> QED
  BY <1>1, <1>2

LEMMA SentDependencies ==
  ASSUME NEW ns, NEW n \in DOMAIN ns, NEW body, NodeIds(body) = DOMAIN ns
  PROVE  SentDeps(EncodeNode(n, ns[n]), body) = DepsIn(ns, n)
<1> DEFINE o == EncodeNode(n, ns[n])
<1>1. "dependsOn" \in DOMAIN o /\ o.dependsOn = ns[n].deps /\ o.id = n
  BY DEF EncodeNode
<1> HIDE DEF o
<1>2. SentDeps(o, body) = (ns[n].deps \cap DOMAIN ns) \ {n}
  BY <1>1 DEF SentDeps
<1> QED
  BY <1>2 DEF DepsIn, o

LEMMA ReadIsSnapshot ==
  ASSUME NEW ns, NEW body, body.nodes = EncodeNodes(ns)
  PROVE  ReadNodes(body) = Snapshot(ns)
<1>1. NodeIds(body) = DOMAIN ns
  BY EncodedIds DEF NodeIds
<1>2. ASSUME NEW n \in DOMAIN ns
      PROVE  (CHOOSE x \in body.nodes : x.id = n) = EncodeNode(n, ns[n])
  BY DEF EncodeNodes, EncodeNode
<1>3. ASSUME NEW n \in DOMAIN ns
      PROVE  EncodeNode(n, ns[n]).agentId = ns[n].agent
  BY DEF EncodeNode
<1> DEFINE read(n) == LET o == CHOOSE x \in body.nodes : x.id = n
                      IN  [deps |-> SentDeps(o, body), agent |-> o.agentId]
<1>4. ASSUME NEW n \in DOMAIN ns
      PROVE  read(n) = [deps |-> DepsIn(ns, n), agent |-> ns[n].agent]
  <2>1. read(n) = [deps |-> SentDeps(EncodeNode(n, ns[n]), body), agent |-> EncodeNode(n, ns[n]).agentId]
    BY <1>2
  <2>2. SentDeps(EncodeNode(n, ns[n]), body) = DepsIn(ns, n)
    BY <1>1, SentDependencies
  <2> QED
    BY <2>1, <2>2, <1>3
<1>5. ReadNodes(body) = [n \in DOMAIN ns |-> read(n)]
  BY <1>1 DEF ReadNodes
<1> HIDE DEF read
<1> QED
  BY <1>4, <1>5 DEF Snapshot

LEMMA DecodedNodes ==
  ASSUME NEW ns
  PROVE  DecodeNodes(EncodeNodes(ns)) = [n \in DOMAIN ns |-> [deps |-> ns[n].deps, agent |-> ns[n].agent]]
<1> DEFINE sent(n) == EncodeNode(n, ns[n])
           got(n) == [id |-> n, deps |-> ns[n].deps, agent |-> ns[n].agent]
           S == EncodeNodes(ns)
           read == DecodeSet(S, GoodNode, DecodeNode)
<1>1. ASSUME NEW n PROVE GoodNode(sent(n)) /\ DecodeNode(sent(n)) = got(n)
  BY DEF GoodNode, DecodeNode, FieldOr, EncodeNode
<1>2. ASSUME NEW n PROVE got(n).id = n /\ got(n).deps = ns[n].deps /\ got(n).agent = ns[n].agent
  OBVIOUS
<1>3. S = {sent(n) : n \in DOMAIN ns}
  BY DEF EncodeNodes
<1> HIDE DEF sent, got, S
<1>4. read = {got(n) : n \in DOMAIN ns}
  <2>1. {x \in S : GoodNode(x)} = S
    BY <1>1, <1>3
  <2>2. read = {DecodeNode(o) : o \in S}
    BY <2>1 DEF DecodeSet
  <2> HIDE DEF read
  <2>3. \A n : DecodeNode(sent(n)) = got(n)
    BY <1>1
  <2> QED
    BY <1>3, <2>2, <2>3
<1> HIDE DEF read
<1>5. {x.id : x \in read} = DOMAIN ns
  BY <1>2, <1>4
<1>6. ASSUME NEW n \in DOMAIN ns PROVE (CHOOSE y \in read : y.id = n) = got(n)
  BY <1>2, <1>4
<1> DEFINE item(n) == LET x == CHOOSE y \in read : y.id = n IN [deps |-> x.deps, agent |-> x.agent]
<1>7. ASSUME NEW n \in DOMAIN ns PROVE item(n) = [deps |-> ns[n].deps, agent |-> ns[n].agent]
  BY <1>2, <1>6
<1>8. DecodeNodes(S) = [n \in DOMAIN ns |-> item(n)]
  BY <1>5 DEF DecodeNodes, read
<1> HIDE DEF item
<1> QED
  BY <1>7, <1>8 DEF S

LEMMA ConfirmedNodes ==
  ASSUME NEW ns
  PROVE  DecodeFlowConfirm(AnswerConfirm(ns)) = [n \in DOMAIN ns |-> [deps |-> ns[n].deps, agent |-> ns[n].agent]]
<1> DEFINE o == AnswerConfirm(ns)
<1>1. FieldOr(o, "nodes", "nodes", {}) = EncodeNodes(ns)
  BY DEF FieldOr, AnswerConfirm
<1> QED
  BY <1>1, DecodedNodes DEF DecodeFlowConfirm

-----------------------------------------------------------------------------
(* Numbers, and the depth of a node.                                       *)

LEMMA LeastNumber ==
  ASSUME NEW T, T \subseteq Nat, T # {}
  PROVE  \E x \in T : \A y \in T : x <= y
<1>1. PICK x \in T : \A y \in T : <<y, x>> \notin OpToRel(<, Nat)
  BY WFMin, NatLessThanWellFounded, Zenon
<1>2. \A y \in Nat : y < x => y \notin T
  BY <1>1, Zenon DEF OpToRel
<1> QED
  BY <1>2

LEMMA GreatestNumber ==
  ASSUME NEW N \in Nat, NEW T, T \subseteq 0 .. N, T # {}
  PROVE  \E x \in T : \A y \in T : y <= x
<1> DEFINE U == {k \in 0 .. N : N - k \in T}
<1>1. U \subseteq Nat /\ U # {}
  <2>1. PICK x \in T : TRUE
    OBVIOUS
  <2>2. x \in 0 .. N /\ N - x \in 0 .. N /\ N - (N - x) = x
    BY <2>1
  <2>3. N - x \in U
    BY <2>1, <2>2
  <2>4. U \subseteq Nat
    OBVIOUS
  <2> HIDE DEF U
  <2> QED
    BY <2>3, <2>4
<1>2. PICK u \in U : \A v \in U : u <= v
  <2> HIDE DEF U
  <2> QED
    BY <1>1, LeastNumber
<1>3. N - u \in T /\ u \in 0 .. N
  BY <1>2
<1>4. ASSUME NEW y \in T PROVE y <= N - u
  <2>1. y \in 0 .. N /\ N - y \in 0 .. N /\ N - (N - y) = y
    OBVIOUS
  <2>2. N - y \in U
    BY <2>1
  <2>3. u <= N - y
    BY <1>2, <2>2
  <2> QED
    BY <1>3, <2>1, <2>3
<1> QED
  BY <1>3, <1>4

Grown(f, m, ns) ==
  /\ f \in [0 .. m -> SUBSET DOMAIN ns] /\ f[0] = DOMAIN ns
  /\ \A k \in 1 .. m : f[k] = {n \in f[k - 1] : DepsIn(ns, n) \cap f[k - 1] # {}}

LEMMA GrownExists ==
  ASSUME NEW ns, NEW N \in Nat
  PROVE  \E f : Grown(f, N, ns)
<1> DEFINE T == {m \in Nat : ~ \E f : Grown(f, m, ns)}
<1>1. SUFFICES ASSUME T # {} PROVE FALSE
  OBVIOUS
<1>2. PICK m \in T : \A y \in T : m <= y
  BY <1>1, LeastNumber
<1>3. m # 0
  <2>1. Grown([k \in 0 .. 0 |-> DOMAIN ns], 0, ns)
    BY DEF Grown
  <2> QED
    BY <2>1
<1>4. m \in Nat /\ m - 1 \in Nat
  BY <1>3
<1>5. PICK f : Grown(f, m - 1, ns)
  BY <1>2, <1>4
<1> DEFINE new == {n \in f[m - 1] : DepsIn(ns, n) \cap f[m - 1] # {}}
           g == [k \in 0 .. m |-> IF k = m THEN new ELSE f[k]]
<1>6. Grown(g, m, ns)
  <2>1. f[m - 1] \subseteq DOMAIN ns /\ new \subseteq DOMAIN ns
    BY <1>4, <1>5 DEF Grown
  <2>2. g \in [0 .. m -> SUBSET DOMAIN ns]
    BY <1>4, <1>5, <2>1 DEF Grown
  <2>3. g[0] = DOMAIN ns
    BY <1>3, <1>4, <1>5 DEF Grown
  <2>4. ASSUME NEW k \in 1 .. m PROVE g[k] = {n \in g[k - 1] : DepsIn(ns, n) \cap g[k - 1] # {}}
    <3>1. g[k - 1] = f[k - 1]
      BY <1>4
    <3>2. CASE k = m
      BY <1>4, <3>1, <3>2
    <3>3. CASE k # m
      <4>1. g[k] = f[k] /\ k \in 1 .. m - 1
        BY <1>4, <3>3
      <4> QED
        BY <4>1, <3>1, <1>5 DEF Grown
    <3> QED
      BY <3>2, <3>3
  <2> QED
    BY <2>2, <2>3, <2>4 DEF Grown
<1> QED
  BY <1>2, <1>4, <1>6

LEMMA BehindGrows ==
  ASSUME NEW ns, IsFiniteSet(DOMAIN ns)
  PROVE  Grown(Behind(ns), Cardinality(DOMAIN ns), ns)
<1> DEFINE N == Cardinality(DOMAIN ns)
           H(B, k) == IF k = 0 THEN DOMAIN ns ELSE {n \in B[k - 1] : DepsIn(ns, n) \cap B[k - 1] # {}}
<1>1. N \in Nat
  BY FS_CardinalityType
<1> HIDE DEF N
<1>2. PICK f : Grown(f, N, ns)
  BY <1>1, GrownExists
<1>3. f = [k \in 0 .. N |-> H(f, k)]
  BY <1>1, <1>2 DEF Grown
<1>4. Behind(ns) = [k \in 0 .. N |-> H(Behind(ns), k)]
  BY <1>3 DEF Behind, N
<1>5. \A k \in 0 .. N : Behind(ns)[k] = H(Behind(ns), k)
  BY <1>4
<1>6. Behind(ns)[0] = DOMAIN ns
  <2>1. 0 \in 0 .. N
    BY <1>1
  <2> QED
    BY <2>1, <1>5
<1>7. ASSUME NEW k \in 1 .. N
      PROVE  Behind(ns)[k] = {n \in Behind(ns)[k - 1] : DepsIn(ns, n) \cap Behind(ns)[k - 1] # {}}
  <2>1. k \in 0 .. N /\ k # 0
    BY <1>1
  <2>2. Behind(ns)[k] = H(Behind(ns), k)
    BY <2>1, <1>5
  <2> QED
    BY <2>1, <2>2
<1> HIDE DEF H
<1> DEFINE T == {k \in 0 .. N : ~ (Behind(ns)[k] \subseteq DOMAIN ns)}
<1>8. T = {}
  <2>1. SUFFICES ASSUME T # {} PROVE FALSE
    OBVIOUS
  <2>2. PICK m \in T : \A y \in T : m <= y
    <3>1. T \subseteq Nat
      BY <1>1
    <3> QED
      BY <2>1, <3>1, LeastNumber
  <2>3. m \in Nat /\ m # 0
    BY <1>1, <1>6
  <2>4. m - 1 \in 0 .. N /\ m - 1 \notin T
    BY <1>1, <2>2, <2>3
  <2> QED
    BY <2>2, <2>3, <2>4, <1>1, <1>7
<1>9. Behind(ns) \in [0 .. N -> SUBSET DOMAIN ns]
  <2>1. \A k \in 0 .. N : Behind(ns)[k] \in SUBSET DOMAIN ns
    BY <1>8
  <2>2. DOMAIN Behind(ns) = 0 .. N /\ Behind(ns) = [k \in 0 .. N |-> Behind(ns)[k]]
    BY <1>4
  <2> QED
    BY <2>1, <2>2
<1> QED
  BY <1>6, <1>7, <1>9 DEF Grown, N

LEMMA DepthIsGreatest ==
  ASSUME NEW ns, IsFiniteSet(DOMAIN ns), NEW n \in DOMAIN ns
  PROVE  /\ Depth(ns, n) \in 0 .. Cardinality(DOMAIN ns)
         /\ n \in Behind(ns)[Depth(ns, n)]
         /\ \A j \in 0 .. Cardinality(DOMAIN ns) : n \in Behind(ns)[j] => j <= Depth(ns, n)
<1> DEFINE N == Cardinality(DOMAIN ns)
<1>1. N \in Nat
  BY FS_CardinalityType
<1>2. DOMAIN Behind(ns) = 0 .. N /\ n \in Behind(ns)[0]
  BY BehindGrows DEF Grown
<1> HIDE DEF N
<1> DEFINE T == {j \in 0 .. N : n \in Behind(ns)[N - j]}
<1>3. T # {} /\ T \subseteq Nat
  <2>1. N \in T
    BY <1>1, <1>2
  <2> QED
    BY <2>1, <1>1
<1>4. PICK j \in T : \A i \in T : j <= i
  <2> HIDE DEF T
  <2> QED
    BY <1>3, LeastNumber
<1>5. \E k \in 0 .. N : n \in Behind(ns)[k] /\ \A i \in 0 .. N : n \in Behind(ns)[i] => i <= k
  <2>1. N - j \in 0 .. N /\ n \in Behind(ns)[N - j]
    BY <1>1
  <2>2. ASSUME NEW i \in 0 .. N, n \in Behind(ns)[i] PROVE i <= N - j
    <3>1. N - i \in 0 .. N /\ N - (N - i) = i
      BY <1>1
    <3>2. N - i \in T
      BY <2>2, <3>1
    <3>3. j <= N - i
      BY <1>4, <3>2
    <3> QED
      BY <1>1, <3>3
  <2> QED
    BY <2>1, <2>2
<1> QED
  BY <1>2, <1>5 DEF Depth, N

LEMMA DepthRises ==
  ASSUME NEW ns, IsFiniteSet(DOMAIN ns), ~HasCycle(ns), NEW n \in DOMAIN ns, NEW d \in DepsIn(ns, n)
  PROVE  /\ Depth(ns, d) \in Nat /\ Depth(ns, n) \in Nat
         /\ Depth(ns, d) < Depth(ns, n)
<1> DEFINE N == Cardinality(DOMAIN ns)
<1>1. N \in Nat
  BY FS_CardinalityType
<1>2. Grown(Behind(ns), N, ns) /\ Behind(ns)[N] = {}
  BY BehindGrows DEF HasCycle
<1>3. d \in DOMAIN ns
  BY DEF DepsIn
<1>4. /\ Depth(ns, d) \in 0 .. N /\ d \in Behind(ns)[Depth(ns, d)]
      /\ Depth(ns, n) \in 0 .. N
      /\ \A j \in 0 .. N : n \in Behind(ns)[j] => j <= Depth(ns, n)
  BY <1>3, DepthIsGreatest
<1> HIDE DEF N
<1>5. \A k \in 0 .. N : d \in Behind(ns)[k] => n \in Behind(ns)[k]
  <2> DEFINE T == {k \in 0 .. N : d \in Behind(ns)[k] /\ n \notin Behind(ns)[k]}
  <2>1. SUFFICES ASSUME T # {} PROVE FALSE
    OBVIOUS
  <2>2. T \subseteq Nat
    BY <1>1
  <2>3. PICK m \in T : \A y \in T : m <= y
    <3> HIDE DEF T
    <3> QED
      BY <2>1, <2>2, LeastNumber
  <2>4. m # 0
    BY <1>2 DEF Grown
  <2>5. m \in 1 .. N /\ m - 1 \in 0 .. N /\ m - 1 \notin T
    BY <1>1, <2>3, <2>4
  <2>6. Behind(ns)[m] = {x \in Behind(ns)[m - 1] : DepsIn(ns, x) \cap Behind(ns)[m - 1] # {}}
    BY <1>2, <2>5 DEF Grown
  <2>7. d \in Behind(ns)[m - 1]
    BY <2>6
  <2>8. n \in Behind(ns)[m - 1]
    BY <2>5, <2>7
  <2> QED
    BY <2>6, <2>7, <2>8
<1> DEFINE e == Depth(ns, d)
<1>6. e # N
  BY <1>2, <1>4
<1>7. e + 1 \in 1 .. N /\ (e + 1) - 1 = e
  BY <1>1, <1>4, <1>6
<1>8. n \in Behind(ns)[e + 1]
  <2>1. Behind(ns)[e + 1] = {x \in Behind(ns)[e] : DepsIn(ns, x) \cap Behind(ns)[e] # {}}
    BY <1>2, <1>7 DEF Grown
  <2> QED
    BY <2>1, <1>4, <1>5
<1>9. e + 1 <= Depth(ns, n)
  BY <1>1, <1>4, <1>7, <1>8
<1> QED
  BY <1>1, <1>4, <1>9

-----------------------------------------------------------------------------
(* Lanes are never none, and the helpers find lanes there are.             *)

LEMMA LanesOfOwners ==
  ASSUME NEW s \in Seq(Agent \cup {None}), s # <<>>
  PROVE  LET ls == [k \in DOMAIN s |-> [id |-> s[k], agent |-> s[k]]] IN
         ls \in Seq(FlowLane) /\ ls # <<>>
<1> DEFINE ls == [k \in DOMAIN s |-> [id |-> s[k], agent |-> s[k]]]
<1>1. DOMAIN s = 1 .. Len(s) /\ Len(s) \in Nat /\ Len(s) # 0
  OBVIOUS
<1>2. \A k \in 1 .. Len(s) : [id |-> s[k], agent |-> s[k]] \in FlowLane
  BY DEF FlowLane, LaneId
<1>3. ls \in [1 .. Len(s) -> FlowLane]
  BY <1>1, <1>2
<1>4. ls \in Seq(FlowLane) /\ Len(ls) = Len(s)
  <2> HIDE DEF ls
  <2> QED
    BY <1>1, <1>3
<1> HIDE DEF ls
<1>5. ls # <<>>
  BY <1>1, <1>4
<1> QED
  BY <1>4, <1>5 DEF ls

LEMMA OrderOfSet ==
  ASSUME NEW T, NEW S \in SUBSET T, IsFiniteSet(S)
  PROVE  AnyOrder(S) \in Seq(T) /\ (S # {} => AnyOrder(S) # <<>>)
<1> DEFINE n == Cardinality(S)
           f == AnyOrder(S)
<1>1. n \in Nat /\ ExistsBijection(1 .. n, S)
  BY FS_CardinalityType
<1>2. \E g \in [1 .. n -> S] : IsInjective(g)
  BY <1>1 DEF ExistsBijection, Bijection, Injection, IsInjective
<1>3. f \in [1 .. n -> S]
  BY <1>2 DEF AnyOrder, SetToSeq
<1>4. S # {} => n # 0
  BY FS_EmptySet
<1> HIDE DEF n, f
<1>5. f \in Seq(S) /\ Len(f) = n
  BY <1>1, <1>3
<1>6. f \in Seq(T)
  BY <1>1, <1>3
<1>7. S # {} => f # <<>>
  BY <1>1, <1>4, <1>5
<1> QED
  BY <1>6, <1>7 DEF f

LEMMA Joined ==
  ASSUME NEW T, NEW s \in Seq(T), NEW t \in Seq(T), s # <<>> \/ t # <<>>
  PROVE  s \o t \in Seq(T) /\ s \o t # <<>>
<1>1. s \o t \in Seq(T) /\ Len(s \o t) = Len(s) + Len(t)
  OBVIOUS
<1>2. Len(s) \in Nat /\ Len(t) \in Nat /\ Len(s) + Len(t) # 0
  OBVIOUS
<1> QED
  BY <1>1, <1>2

LEMMA InitialLanesThere ==
  ASSUME NEW on \in SUBSET Agent, IsFiniteSet(on)
  PROVE  InitialLanes(on) \in Seq(FlowLane) /\ InitialLanes(on) # <<>>
<1>1. CASE on = {}
  <2>1. [id |-> None, agent |-> None] \in FlowLane
    BY DEF FlowLane, LaneId
  <2> QED
    BY <1>1, <2>1 DEF InitialLanes
<1>2. CASE on # {}
  <2> DEFINE A == Agent \cup {None}
             first == AnyOrder(on \cap {Main})
             rest == AnyOrder(on \ {Main})
             order == first \o rest
  <2>1. /\ IsFiniteSet(on \cap {Main}) /\ IsFiniteSet(on \ {Main})
        /\ on \cap {Main} \in SUBSET A /\ on \ {Main} \in SUBSET A
    BY FS_Subset
  <2>2. first \in Seq(A) /\ rest \in Seq(A) /\ (first # <<>> \/ rest # <<>>)
    <3> HIDE DEF A
    <3> QED
      BY <1>2, <2>1, OrderOfSet
  <2> HIDE DEF first, rest
  <2>3. order \in Seq(A) /\ order # <<>>
    BY <2>2, Joined
  <2>4. InitialLanes(on) = [k \in DOMAIN order |-> [id |-> order[k], agent |-> order[k]]]
    BY <1>2 DEF InitialLanes, first, rest
  <2> HIDE DEF order
  <2> QED
    BY <2>3, <2>4, LanesOfOwners
<1> QED
  BY <1>1, <1>2

LEMMA LanesOfThere ==
  ASSUME NEW ns, Partial(ns, CanvasNode), NEW f \in Agent \cup {None},
         NEW on \in SUBSET Agent, IsFiniteSet(on)
  PROVE  LanesOf(ns, f, on) \in Seq(FlowLane) /\ LanesOf(ns, f, on) # <<>>
<1> DEFINE S == {Or(ns[n].agent, f) : n \in DOMAIN ns}
           owners == AnyOrder(S)
<1>1. IsFiniteSet(S)
  <2> DEFINE g == [n \in DOMAIN ns |-> Or(ns[n].agent, f)]
  <2>1. g \in Surjection(DOMAIN ns, S)
    BY DEF Surjection
  <2>2. IsFiniteSet(DOMAIN ns)
    BY CanvasAssumption, FS_Subset DEF Partial
  <2> QED
    BY <2>1, <2>2, FS_Surjection
<1>2. S \in SUBSET (Agent \cup {None})
  BY DEF Or, Partial, CanvasNode
<1>3. owners \in Seq(Agent \cup {None})
  <2> HIDE DEF S
  <2> QED
    BY <1>1, <1>2, OrderOfSet
<1>4. LanesOf(ns, f, on) =
        IF owners = <<>> THEN InitialLanes(on)
        ELSE [k \in DOMAIN owners |-> [id |-> owners[k], agent |-> owners[k]]]
  BY DEF LanesOf
<1> HIDE DEF owners
<1> QED
  BY <1>3, <1>4, LanesOfOwners, InitialLanesThere

LEMMA LaneMapTyped ==
  ASSUME NEW ns, Partial(ns, CanvasNode), NEW f \in Agent \cup {None}
  PROVE  Partial(LaneMapOf(ns, f), LaneId)
  BY DEF LaneMapOf, Partial, CanvasNode, Or, LaneId

LEMMA LanesThere ==
  ASSUME NEW ls \in Seq(FlowLane)
  PROVE  /\ Ids(ls) \subseteq LaneId
         /\ \A k \in DOMAIN ls : ls[k] \in FlowLane /\ ls[k].agent \in Agent \cup {None} /\ ls[k].id \in Ids(ls)
         /\ \A i \in Ids(ls) : LaneNamed(ls, i).agent \in Agent \cup {None}
         /\ ls # <<>> => 1 \in DOMAIN ls
<1>1. DOMAIN ls = 1 .. Len(ls) /\ Len(ls) \in Nat
  OBVIOUS
<1>2. \A k \in DOMAIN ls : ls[k] \in FlowLane
  OBVIOUS
<1>3. \A k \in DOMAIN ls : ls[k].agent \in Agent \cup {None} /\ ls[k].id \in LaneId
  BY <1>2 DEF FlowLane
<1>4. ASSUME NEW i \in Ids(ls) PROVE LaneNamed(ls, i).agent \in Agent \cup {None}
  BY <1>3 DEF Ids, LaneNamed
<1>5. ls # <<>> => 1 \in DOMAIN ls
  BY <1>1
<1> QED
  BY <1>2, <1>3, <1>4, <1>5 DEF Ids

LEMMA LanesOfAgents ==
  ASSUME NEW ls \in Seq(FlowLane), NEW a, LanesOfAgent(ls, a) # {}
  PROVE  LastLane(ls, a) \in Ids(ls) /\ FirstLane(ls, a) \in Ids(ls)
<1> DEFINE T == LanesOfAgent(ls, a)
<1>1. T \subseteq 1 .. Len(ls) /\ Len(ls) \in Nat
  BY DEF LanesOfAgent
<1>2. T \subseteq DOMAIN ls
  BY DEF LanesOfAgent
<1> HIDE DEF T
<1>3. \E k \in T : \A j \in T : k <= j
  BY <1>1, LeastNumber DEF T
<1>4. \E k \in T : \A j \in T : j <= k
  BY <1>1, GreatestNumber, SMTT(30) DEF T
<1>5. (CHOOSE k \in T : \A j \in T : k <= j) \in DOMAIN ls /\ (CHOOSE k \in T : \A j \in T : j <= k) \in DOMAIN ls
  BY <1>2, <1>3, <1>4
<1> QED
  BY <1>5 DEF LastLane, FirstLane, Ids, T
-----------------------------------------------------------------------------
(* Types.                                                                  *)

CanvasOK ==
  /\ Partial(nodes, CanvasNode) /\ Partial(laneOf, LaneId) /\ used \subseteq Node
  /\ lanes \in Seq(FlowLane) /\ lanes # <<>> /\ edited \in BOOLEAN
HandOK ==
  /\ hand \in Hand(IF hand.kind = "move" THEN hand.lanes ELSE <<>>)
  /\ hand.kind = "move" => hand.lanes \in Seq(FlowLane)
AgentsOK ==
  /\ online \subseteq Agent /\ IsFiniteSet(online) /\ executor \in Agent \cup {None}
ServerOK == Partial(rows, Row) /\ Partial(tasks, Row)
RequestOK ==
  /\ acting = None \/ acting \in [kind : {"stop", "continue"}, stage : {"sent", "served", "failed"}]
  /\ confirming = None \/ (Partial(confirming.nodes, Prepare) /\ confirming.stage \in {"sent", "served", "failed"})
  /\ confirming # None => confirming = [nodes |-> confirming.nodes, stage |-> confirming.stage]
SyncOK ==
  /\ \A x \in {timer, inFlight, queued, synced} : x = None \/ Partial(x, CanvasNode)
  /\ \A c \in calls : /\ Partial(c.nodes, CanvasNode)
                      /\ c.stage \in {"sent", "served", "failed", "refresh"}
                      /\ c = [nodes |-> c.nodes, stage |-> c.stage]
TypeInv ==
  /\ CanvasOK /\ HandOK /\ AgentsOK /\ planning \in BOOLEAN
  /\ ServerOK /\ RequestOK /\ SyncOK /\ left \in 0 .. MaxStep

LEMMA SnapshotTyped ==
  ASSUME NEW t, DOMAIN t \subseteq Node, \A n \in DOMAIN t : t[n].agent \in Agent \cup {None}
  PROVE  Partial(Snapshot(t), CanvasNode)
  BY DEF Snapshot, Partial, CanvasNode, DepsIn

LEMMA ExecutorTyped ==
  ASSUME NEW s \in Agent \cup {None}, NEW ls \in Seq(FlowLane), NEW on \in SUBSET Agent
  PROVE  Executor(s, ls, on) \in Agent \cup {None}
<1> DEFINE k == SelectInSeq(ls, LAMBDA l : l.agent \in on)
           I == {i \in 1 .. Len(ls) : ls[i].agent \in on}
<1>1. k # 0 => ls[k].agent \in on
  <2>1. k = IF I # {} THEN Min(I) ELSE 0
    BY DEF SelectInSeq
  <2>2. ASSUME I # {} PROVE Min(I) \in I
    <3>1. I \subseteq Nat
      OBVIOUS
    <3> HIDE DEF I
    <3>2. \E x \in I : \A y \in I : x <= y
      BY <2>2, <3>1, LeastNumber
    <3> QED
      BY <3>2 DEF Min
  <2>3. \A i \in I : ls[i].agent \in on
    OBVIOUS
  <2> HIDE DEF k, I
  <2> QED
    BY <2>1, <2>2, <2>3
<1> HIDE DEF k
<1>2. CASE s # None
  BY <1>2 DEF Executor
<1>3. CASE s = None
  BY <1>1, <1>3 DEF Executor, k
<1> QED
  BY <1>2, <1>3

LEMMA DraftLanesTyped ==
  ASSUME NEW d, Partial(d.nodes, CanvasNode), d.lanes \in Seq(FlowLane), d.lanes # <<>>
  PROVE  Partial(DraftLaneMap(d), LaneId)
<1>1. Ids(d.lanes) \subseteq LaneId /\ d.lanes[1].id \in Ids(d.lanes)
  BY LanesThere
<1>2. ASSUME NEW n \in DOMAIN d.nodes PROVE DraftLaneMap(d)[n] \in Ids(d.lanes)
  BY <1>1, LanesOfAgents DEF DraftLaneMap
<1> QED
  BY <1>1, <1>2 DEF DraftLaneMap, Partial

LEMMA TypesInit == Init => TypeInv
<1> SUFFICES ASSUME Init PROVE TypeInv
  OBVIOUS
<1>1. online \in SUBSET Agent /\ IsFiniteSet(online)
  BY CanvasAssumption DEF Init
<1>2. Partial(rows, Row)
  BY CanvasAssumption DEF Init
<1>3. /\ Partial(nodes, CanvasNode) /\ Partial(laneOf, LaneId) /\ lanes \in Seq(FlowLane) /\ lanes # <<>>
      /\ edited \in BOOLEAN /\ executor \in Agent \cup {None}
  <2>1. CASE OpensRows
    <3>1. Partial(nodes, CanvasNode)
      BY <1>2, <2>1, SnapshotTyped DEF OpensRows, Partial, Row
    <3> QED
      BY <1>1, <1>2, <2>1, <3>1, LanesOfThere, LaneMapTyped DEF OpensRows, Partial, Row
  <2>2. CASE OpensDraft
    <3>1. PICK d \in Saved :
            /\ nodes = Snapshot(d.nodes) /\ edited = TRUE
            /\ IF d.lanes # <<>> THEN lanes = d.lanes /\ laneOf = DraftLaneMap(d)
               ELSE lanes = LanesOf(nodes, d.executor, online) /\ laneOf = LaneMapOf(nodes, d.executor)
            /\ executor = Or(d.executor, Executor(None, lanes, online))
      BY <2>2 DEF OpensDraft
    <3>2. Partial(d.nodes, CanvasNode) /\ d.lanes \in Seq(FlowLane) /\ d.executor \in Agent \cup {None}
      BY CanvasAssumption
    <3>3. Partial(nodes, CanvasNode)
      BY <3>1, <3>2, SnapshotTyped DEF Partial, CanvasNode
    <3>4. Partial(laneOf, LaneId) /\ lanes \in Seq(FlowLane) /\ lanes # <<>>
      BY <1>1, <3>1, <3>2, <3>3, DraftLanesTyped, LanesOfThere, LaneMapTyped
    <3>5. executor \in Agent \cup {None}
      BY <1>1, <3>1, <3>2, <3>4, ExecutorTyped DEF Or
    <3> QED
      BY <3>1, <3>3, <3>4, <3>5
  <2> QED
    BY <2>1, <2>2 DEF Init
<1>4. CanvasOK
  BY <1>2, <1>3 DEF Init, CanvasOK, Partial
<1>5. HandOK
  BY DEF Init, HandOK, Hand, Idle
<1>6. AgentsOK /\ planning \in BOOLEAN
  BY <1>1, <1>3 DEF Init, AgentsOK
<1>7. ServerOK /\ RequestOK /\ SyncOK
  BY <1>2 DEF Init, ServerOK, RequestOK, SyncOK
<1>8. left \in 0 .. MaxStep
  BY CanvasAssumption DEF Init
<1> QED
  BY <1>4, <1>5, <1>6, <1>7, <1>8 DEF TypeInv

LEMMA Spent ==
  ASSUME left \in 0 .. MaxStep, Spend \/ UNCHANGED left
  PROVE  left' \in 0 .. MaxStep
  BY CanvasAssumption DEF Spend

(* What the canvas and the hand are, the rest unchanged.                   *)
LEMMA CanvasOnly ==
  ASSUME TypeInv, CanvasOK', HandOK', UNCHANGED <<agents, planning, server, request, sync>>,
         Spend \/ UNCHANGED left
  PROVE  TypeInv'
<1>1. left' \in 0 .. MaxStep
  BY Spent DEF TypeInv
<1> QED
  BY <1>1 DEF TypeInv, AgentsOK, ServerOK, RequestOK, SyncOK, agents, server, request, sync

LEMMA SameCanvas ==
  ASSUME CanvasOK, UNCHANGED canvas
  PROVE  CanvasOK'
  BY DEF CanvasOK, canvas

LEMMA SameHand ==
  ASSUME HandOK, hand' = hand \/ hand' = Idle
  PROVE  HandOK'
<1>1. CASE hand' = Idle
  BY <1>1 DEF HandOK, Hand, Idle
<1> QED
  BY <1>1 DEF HandOK

LEMMA TypesGestures == TypeInv /\ Gestures => TypeInv'
<1> SUFFICES ASSUME TypeInv, Gestures PROVE TypeInv'
  OBVIOUS
<1> USE SameCanvas, SameHand
<1>0. CanvasOK /\ HandOK /\ AgentsOK
  BY DEF TypeInv
<1>l. /\ lanes \in Seq(FlowLane) /\ 1 \in DOMAIN lanes /\ Ids(lanes) \subseteq LaneId
      /\ \A k \in DOMAIN lanes : lanes[k] \in FlowLane /\ lanes[k].agent \in Agent \cup {None} /\ lanes[k].id \in Ids(lanes)
      /\ \A i \in Ids(lanes) : LaneNamed(lanes, i).agent \in Agent \cup {None}
  BY <1>0, LanesThere DEF CanvasOK
<1>1. CASE OpenNodeForm \/ OpenLaneForm \/ StartPull
  <2>1. HandOK'
    BY <1>0, <1>1, <1>l DEF OpenNodeForm, OpenLaneForm, StartPull, Begins, HandOK, Hand, Idle, CanvasOK, Partial
  <2> QED
    BY <1>0, <1>1, <2>1, CanvasOnly DEF OpenNodeForm, OpenLaneForm, StartPull, Begins
<1>2. CASE Grab
  <2>1. HandOK'
    BY <1>0, <1>2 DEF Grab, HandOK, Hand, CanvasOK, Partial
  <2> QED
    BY <1>0, <1>2, <2>1, CanvasOnly DEF Grab
<1>3. CASE LetGo
  BY <1>0, <1>3, CanvasOnly DEF LetGo
<1>4. CASE CreateNode
  <2>1. CanvasOK'
    BY <1>0, <1>4, <1>l DEF CreateNode, Edits, CanvasOK, AgentsOK, Partial, CanvasNode, Or
  <2> QED
    BY <1>0, <1>4, <2>1, CanvasOnly DEF CreateNode, Edits
<1>5. CASE SaveNode
  BY <1>0, <1>5, CanvasOnly DEF SaveNode, Edits, CanvasOK
<1>6. CASE CreateLane
  <2>1. PICK l \in Lane, a \in online \cup {None} : lanes' = Append(lanes, [id |-> l, agent |-> a])
    BY <1>6 DEF CreateLane
  <2>2. [id |-> l, agent |-> a] \in FlowLane
    BY <1>0, <2>1 DEF AgentsOK, FlowLane, LaneId
  <2>3. lanes' \in Seq(FlowLane) /\ lanes' # <<>>
    <3>1. Len(lanes') = Len(lanes) + 1 /\ lanes' \in Seq(FlowLane) /\ Len(lanes) \in Nat
      BY <1>l, <2>1, <2>2
    <3> QED
      BY <3>1
  <2>4. CanvasOK'
    BY <1>0, <1>6, <2>3 DEF CreateLane, Edits, CanvasOK
  <2> QED
    BY <1>0, <1>6, <2>4, CanvasOnly DEF CreateLane, Edits
<1>7. CASE SaveLane
  <2>1. PICK a \in online \cup {None} \cup {lanes[k].agent : k \in {j \in DOMAIN lanes : lanes[j].id = hand.on}} :
          /\ lanes' = [k \in DOMAIN lanes |->
                         IF lanes[k].id = hand.on THEN [lanes[k] EXCEPT !.agent = a] ELSE lanes[k]]
          /\ nodes' = [n \in DOMAIN nodes |->
                         IF a # None /\ ResolveLane(n, laneOf, lanes) = hand.on
                         THEN [nodes[n] EXCEPT !.agent = a] ELSE nodes[n]]
    BY <1>7 DEF SaveLane
  <2>2. a \in Agent \cup {None}
    BY <1>0, <1>l, <2>1 DEF AgentsOK
  <2>3. Partial(nodes', CanvasNode)
    BY <1>0, <2>1, <2>2 DEF CanvasOK, Partial, CanvasNode
  <2>4. lanes' \in Seq(FlowLane) /\ lanes' # <<>>
    <3>1. \A k \in DOMAIN lanes : lanes'[k] \in FlowLane
      BY <1>l, <2>1, <2>2 DEF FlowLane
    <3>2. DOMAIN lanes' = DOMAIN lanes /\ DOMAIN lanes = 1 .. Len(lanes) /\ Len(lanes) \in Nat
      BY <1>l, <2>1
    <3>3. lanes' \in [1 .. Len(lanes) -> FlowLane]
      BY <2>1, <3>1, <3>2
    <3>4. lanes' \in Seq(FlowLane)
      BY <3>2, <3>3
    <3>5. 1 \in DOMAIN lanes'
      BY <1>l, <3>2
    <3> QED
      BY <3>4, <3>5
  <2>5. CanvasOK'
    BY <1>0, <1>7, <2>3, <2>4 DEF SaveLane, Edits, CanvasOK
  <2> QED
    BY <1>0, <1>7, <2>5, CanvasOnly DEF SaveLane, Edits
<1>8. CASE Connect
  <2>1. hand.on \in Node
    BY <1>0, <1>8 DEF Connect, HandOK, Hand, Idle
  <2>2. CanvasOK'
    BY <1>0, <1>8, <2>1 DEF Connect, Edits, CanvasOK, Partial, CanvasNode
  <2> QED
    BY <1>0, <1>8, <2>2, CanvasOnly DEF Connect, Edits
<1>9. CASE MoveTo
  <2>1. PICK k \in DOMAIN hand.lanes :
          /\ nodes' = [nodes EXCEPT ![hand.on].agent = hand.lanes[k].agent]
          /\ \/ laneOf' = [m \in DOMAIN laneOf \cup {hand.on} |->
                             IF m = hand.on THEN hand.lanes[k].id ELSE laneOf[m]]
             \/ laneOf' = laneOf
    BY <1>9 DEF MoveTo
  <2>2. hand.lanes \in Seq(FlowLane) /\ hand.on \in DOMAIN nodes
    BY <1>0, <1>9 DEF MoveTo, HandOK
  <2>3. hand.lanes[k].agent \in Agent \cup {None} /\ hand.lanes[k].id \in LaneId
    <3> DEFINE hl == hand.lanes
    <3>1. hl \in Seq(FlowLane)
      BY <2>2
    <3> HIDE DEF hl
    <3>2. \A j \in DOMAIN hl : hl[j].agent \in Agent \cup {None} /\ hl[j].id \in LaneId
      BY <3>1, LanesThere
    <3> QED
      BY <2>1, <3>2 DEF hl
  <2>4. CanvasOK'
    BY <1>0, <1>9, <2>1, <2>2, <2>3, SMTT(30) DEF MoveTo, Edits, CanvasOK, Partial, CanvasNode
  <2> QED
    BY <1>0, <1>9, <2>4, CanvasOnly DEF MoveTo, Edits
<1>10. CASE DeleteNodes
  <2>1. CanvasOK'
    BY <1>0, <1>10, SMTT(30) DEF DeleteNodes, ForgetLanes, Without, Edits, CanvasOK, Partial, CanvasNode
  <2> QED
    BY <1>0, <1>10, <2>1, CanvasOnly DEF DeleteNodes, Edits, Unpulled
<1>11. CASE RemoveEdge
  <2>1. CanvasOK'
    <3>1. PICK e \in Edges(nodes) : nodes' = [nodes EXCEPT ![e[2]].deps = @ \ {e[1]}]
      BY <1>11 DEF RemoveEdge
    <3>2. Partial(nodes', CanvasNode)
      BY <1>0, <3>1 DEF Edges, CanvasOK, Partial, CanvasNode
    <3> QED
      BY <1>0, <1>11, <3>2 DEF RemoveEdge, Edits, CanvasOK
  <2> QED
    BY <1>0, <1>11, <2>1, CanvasOnly DEF RemoveEdge, Edits
<1> QED
  BY <1>1, <1>2, <1>3, <1>4, <1>5, <1>6, <1>7, <1>8, <1>9, <1>10, <1>11 DEF Gestures, DeleteKey

LEMMA TypesPlanner == TypeInv /\ (Planner \/ Refill) => TypeInv'
<1> SUFFICES ASSUME TypeInv, Planner \/ Refill PROVE TypeInv'
  OBVIOUS
<1> USE SameCanvas, SameHand
<1>0. CanvasOK /\ HandOK /\ AgentsOK
  BY DEF TypeInv
<1>1. CASE PlanStarts \/ PlanEnds
  <2>1. left' \in 0 .. MaxStep
    BY <1>1, Spent DEF TypeInv, PlanStarts, PlanEnds
  <2> QED
    BY <1>1, <2>1 DEF PlanStarts, PlanEnds, TypeInv, CanvasOK, HandOK, AgentsOK, ServerOK, RequestOK, SyncOK,
       canvas, agents, server, request, sync
<1>2. CASE PlannerDraft
  <2>1. PICK deps \in {Upserted(n, ds) : n \in Node, ds \in SUBSET (DOMAIN nodes)}
                      \cup {Removed(n) : n \in DOMAIN nodes} :
          /\ nodes' = ReconciledNodes(deps, ReconciledMap(deps))
          /\ laneOf' = ReconciledMap(deps) /\ used' = used \cup DOMAIN deps
    BY <1>2 DEF PlannerDraft
  <2>2. DOMAIN deps \subseteq Node
    <3>1. CASE deps \in {Upserted(n, ds) : n \in Node, ds \in SUBSET (DOMAIN nodes)}
      <4>1. PICK n \in Node, ds \in SUBSET (DOMAIN nodes) : deps = Upserted(n, ds)
        BY <3>1
      <4> QED
        BY <1>0, <4>1 DEF Upserted, CanvasOK, Partial
    <3>2. CASE deps \in {Removed(n) : n \in DOMAIN nodes}
      <4>1. PICK n \in DOMAIN nodes : deps = Removed(n)
        BY <3>2
      <4> QED
        BY <1>0, <4>1 DEF Removed, CanvasOK, Partial
    <3> QED
      BY <2>1, <3>1, <3>2
  <2>3. \A n \in DOMAIN deps : ReconciledMap(deps)[n] \in Ids(lanes)
    <3>1. lanes \in Seq(FlowLane) /\ lanes[1].id \in Ids(lanes)
      BY <1>0, LanesThere DEF CanvasOK
    <3> QED
      BY <3>1, LanesOfAgents DEF ReconciledMap
  <2> DEFINE map == ReconciledMap(deps)
  <2>4. DOMAIN map = DOMAIN deps /\ map = [n \in DOMAIN deps |-> map[n]]
    BY DEF ReconciledMap
  <2>5. /\ Ids(lanes) \subseteq LaneId
        /\ \A i \in Ids(lanes) : LaneNamed(lanes, i).agent \in Agent \cup {None}
    BY <1>0, LanesThere DEF CanvasOK
  <2> HIDE DEF map
  <2>6. Partial(laneOf', LaneId)
    BY <2>1, <2>2, <2>3, <2>4, <2>5 DEF Partial, map
  <2>7. Partial(nodes', CanvasNode)
    <3>1. ASSUME NEW n \in DOMAIN deps
          PROVE  ReconciledNodes(deps, map)[n] \in CanvasNode
      <4>1. LaneNamed(lanes, map[n]).agent \in Agent \cup {None}
        BY <2>3, <2>5 DEF map
      <4>2. (IF n \in DOMAIN nodes THEN nodes[n].agent ELSE None) \in Agent \cup {None}
        BY <1>0 DEF CanvasOK, Partial, CanvasNode
      <4>3. executor \in Agent \cup {None}
        BY <1>0 DEF AgentsOK
      <4> QED
        BY <2>2, <4>1, <4>2, <4>3 DEF ReconciledNodes, CanvasNode, Or
    <3> QED
      BY <2>1, <2>2, <3>1 DEF ReconciledNodes, Partial, map
  <2>8. CanvasOK'
    BY <1>0, <1>2, <2>1, <2>2, <2>6, <2>7 DEF PlannerDraft, CanvasOK
  <2> QED
    BY <1>0, <1>2, <2>8, CanvasOnly DEF PlannerDraft
<1>3. CASE Refill
  <2>1. Partial(tasks, Row)
    BY DEF TypeInv, ServerOK
  <2>2. Partial(nodes', CanvasNode)
    BY <1>3, <2>1, SnapshotTyped DEF Refill, Partial, Row
  <2>3. lanes' = LanesOf(nodes', None, online) /\ laneOf' = LaneMapOf(nodes', None)
    BY <1>3 DEF Refill
  <2>4. lanes' \in Seq(FlowLane) /\ lanes' # <<>> /\ Partial(laneOf', LaneId)
    BY <1>0, <2>2, <2>3, LanesOfThere, LaneMapTyped DEF AgentsOK
  <2>5. CanvasOK'
    BY <1>0, <1>3, <2>2, <2>4 DEF Refill, CanvasOK, Partial
  <2> QED
    BY <1>0, <1>3, <2>5, CanvasOnly DEF Refill, Unpulled
<1> QED
  BY <1>1, <1>2, <1>3 DEF Planner

LEMMA SyncedTyped ==
  ASSUME NEW t, Partial(t, Row), t # <<>>, NEW ns, Partial(ns, CanvasNode)
  PROVE  Partial(SyncedRows(t, ns), Row)
<1>1. DOMAIN t # {}
  BY DEF Partial
<1>2. (CHOOSE a \in {t[m].agent : m \in DOMAIN t} : TRUE) \in Agent
  BY <1>1 DEF Partial, Row
<1> DEFINE some == CHOOSE a \in {t[m].agent : m \in DOMAIN t} : TRUE
<1> HIDE DEF some
<1>3. ASSUME NEW n \in DOMAIN SyncedRows(t, ns) PROVE SyncedRows(t, ns)[n] \in Row
  <2>1. CASE n \in DOMAIN t /\ ~Editable(t[n])
    BY <2>1 DEF SyncedRows, Partial
  <2>2. CASE ~(n \in DOMAIN t /\ ~Editable(t[n]))
    <3>1. n \in DOMAIN ns /\ ns[n] \in CanvasNode
      BY <2>2 DEF SyncedRows, Partial
    <3>2. Or(ns[n].agent, some) \in Agent
      BY <1>2, <3>1 DEF CanvasNode, Or, some
    <3>3. DepsIn(ns, n) \subseteq Node
      BY DEF DepsIn, Partial
    <3>4. SyncedRows(t, ns)[n].status \in Status /\ SyncedRows(t, ns)[n] =
            [deps |-> DepsIn(ns, n), agent |-> Or(ns[n].agent, some), status |-> SyncedRows(t, ns)[n].status]
      BY <2>2 DEF SyncedRows, Partial, Row, Status, some
    <3> QED
      BY <3>2, <3>3, <3>4 DEF Row
  <2> QED
    BY <2>1, <2>2
<1>4. DOMAIN SyncedRows(t, ns) \subseteq Node /\ SyncedRows(t, ns) = [n \in DOMAIN SyncedRows(t, ns) |-> SyncedRows(t, ns)[n]]
  BY DEF SyncedRows, Partial
<1> QED
  BY <1>3, <1>4 DEF Partial

LEMMA PreparedTyped ==
  ASSUME NEW ns, Partial(ns, CanvasNode), NEW map, NEW ls, NEW on \in SUBSET Agent,
         NEW pick \in [DOMAIN ns -> on]
  PROVE  Partial(Prepared(ns, map, ls, on, pick), Prepare)
<1>1. IsFiniteSet(DOMAIN ns)
  BY CanvasAssumption, FS_Subset DEF Partial
<1>2. ASSUME NEW n \in DOMAIN ns PROVE Depth(ns, n) + 1 \in Nat \ {0}
  <2>1. Depth(ns, n) \in 0 .. Cardinality(DOMAIN ns) /\ Cardinality(DOMAIN ns) \in Nat
    BY <1>1, DepthIsGreatest, FS_CardinalityType
  <2> QED
    BY <2>1
<1>3. ASSUME NEW n \in DOMAIN ns PROVE Assigned(n, map, ls, on, pick) \in Agent
  BY DEF Assigned
<1>4. \A n \in DOMAIN ns : DepsIn(ns, n) \in SUBSET Node
  BY DEF DepsIn, Partial
<1> QED
  BY <1>2, <1>3, <1>4 DEF Prepared, Prepare, Partial

LEMMA TypesRows == TypeInv /\ (Execution \/ Hear \/ ChooseExecutor) => TypeInv'
<1> SUFFICES ASSUME TypeInv, Execution \/ Hear \/ ChooseExecutor PROVE TypeInv'
  OBVIOUS
<1> USE SameCanvas, SameHand
<1>0. CanvasOK /\ HandOK /\ AgentsOK /\ ServerOK
  BY DEF TypeInv
<1>1. CASE Execution
  <2>1. ServerOK'
    BY <1>0, <1>1 DEF Execution, Dispatch, Finish, ServerOK, Partial, Row, Status
  <2> QED
    BY <1>0, <1>1, <2>1 DEF Execution, Dispatch, Finish, TypeInv, AgentsOK, RequestOK, SyncOK, agents, request, sync
<1>2. CASE Hear
  BY <1>0, <1>2 DEF Hear, TypeInv, AgentsOK, ServerOK, RequestOK, SyncOK, agents, request, sync
<1>3. CASE ChooseExecutor
  <2>1. left' \in 0 .. MaxStep
    BY <1>3, Spent DEF TypeInv, ChooseExecutor
  <2> QED
    BY <1>0, <1>3, <2>1 DEF ChooseExecutor, TypeInv, AgentsOK, ServerOK, RequestOK, SyncOK, server, request, sync
<1> QED
  BY <1>1, <1>2, <1>3

LEMMA TypesRequests == TypeInv /\ Requests => TypeInv'
<1> SUFFICES ASSUME TypeInv, Requests PROVE TypeInv'
  OBVIOUS
<1> USE SameCanvas, SameHand
<1>0. CanvasOK /\ HandOK /\ AgentsOK /\ ServerOK /\ RequestOK /\ left \in 0 .. MaxStep /\ planning \in BOOLEAN
  BY DEF TypeInv
<1>1. ASSUME ServerOK', RequestOK', left' \in 0 .. MaxStep, UNCHANGED <<canvas, hand, agents, planning, sync>>
      PROVE  TypeInv'
  BY <1>0, <1>1 DEF TypeInv, AgentsOK, SyncOK, agents, sync
<1>2. CASE Act
  <2>1. RequestOK' /\ ServerOK'
    BY <1>0, <1>2 DEF Act, RequestOK, ServerOK, server
  <2> QED
    BY <1>0, <1>1, <1>2, <2>1, Spent DEF Act
<1>3. CASE ServeAct
  <2>1. Partial(Stopped(rows), Row) /\ Partial(Continued(rows), Row)
    BY <1>0 DEF ServerOK, Stopped, Continued, Partial, Row, Status
  <2>2. ServerOK'
    BY <1>0, <1>3, <2>1 DEF ServeAct, ServerOK
  <2>3. RequestOK'
    BY <1>0, <1>3 DEF ServeAct, RequestOK
  <2> QED
    BY <1>0, <1>1, <1>3, <2>2, <2>3, Spent DEF ServeAct
<1>4. CASE ActAnswered
  <2>1. RequestOK' /\ ServerOK'
    BY <1>0, <1>4 DEF ActAnswered, RequestOK, ServerOK
  <2> QED
    BY <1>0, <1>1, <1>4, <2>1 DEF ActAnswered
<1>5. CASE Confirm
  <2>1. PICK pick \in [DOMAIN nodes -> online] : confirming' = ConfirmPayload(pick)
    BY <1>5 DEF Confirm
  <2>2. Partial(Prepared(nodes, laneOf, lanes, online, pick), Prepare)
    BY <1>0, PreparedTyped DEF CanvasOK, AgentsOK
  <2>3. RequestOK'
    BY <1>0, <1>5, <2>1, <2>2 DEF Confirm, ConfirmPayload, RequestOK
  <2>4. ServerOK'
    BY <1>0, <1>5 DEF Confirm, ServerOK, server
  <2> QED
    BY <1>0, <1>1, <1>5, <2>3, <2>4, Spent DEF Confirm
<1>6. CASE ServeConfirm
  <2>1. Partial(confirming.nodes, Prepare) /\ confirming = [nodes |-> confirming.nodes, stage |-> confirming.stage]
    BY <1>0, <1>6 DEF ServeConfirm, RequestOK
  <2>2. RequestOK'
    BY <1>0, <1>6, <2>1 DEF ServeConfirm, RequestOK
  <2>3. ServerOK'
    <3> DEFINE got == ReadNodes(EncodeFlowConfirm(confirming.nodes, Edges(confirming.nodes)))
    <3>1. got = Snapshot(confirming.nodes)
      BY ReadIsSnapshot DEF EncodeFlowConfirm
    <3> HIDE DEF got
    <3>2. /\ DOMAIN got = DOMAIN confirming.nodes
          /\ \A n \in DOMAIN got : got[n].deps \subseteq Node /\ got[n].agent \in Agent
      BY <2>1, <3>1 DEF Snapshot, DepsIn, Partial, Prepare
    <3>3. Partial([n \in DOMAIN got |-> [deps |-> got[n].deps, agent |-> got[n].agent, status |-> "queued"]], Row)
      BY <2>1, <3>2 DEF Partial, Row, Status
    <3> QED
      BY <1>0, <1>6, <3>3 DEF ServeConfirm, ServerOK, got
  <2> QED
    BY <1>0, <1>1, <1>6, <2>2, <2>3, Spent DEF ServeConfirm
<1>7. CASE ConfirmAnswered
  <2>1. Partial(confirming.nodes, Prepare)
    BY <1>0, <1>7 DEF ConfirmAnswered, RequestOK
  <2>2. nodes' = DecodeFlowConfirm(AnswerConfirm(confirming.nodes))
    BY <1>7 DEF ConfirmAnswered, ConfirmedCanvas
  <2>3. Partial(nodes', CanvasNode)
    BY <2>1, <2>2, ConfirmedNodes DEF Partial, Prepare, CanvasNode
  <2>4. lanes' = LanesOf(nodes', None, online) /\ laneOf' = LaneMapOf(nodes', None)
    BY <1>7, <2>2 DEF ConfirmAnswered, ConfirmedCanvas
  <2>5. lanes' \in Seq(FlowLane) /\ lanes' # <<>> /\ Partial(laneOf', LaneId)
    BY <1>0, <2>3, <2>4, LanesOfThere, LaneMapTyped DEF AgentsOK
  <2>6. CanvasOK'
    BY <1>0, <1>7, <2>3, <2>5 DEF ConfirmAnswered, Submitted, CanvasOK
  <2>7. HandOK'
    BY <1>0, <1>7 DEF ConfirmAnswered, Submitted, Unpulled
  <2>8. ServerOK' /\ RequestOK'
    BY <1>0, <1>7 DEF ConfirmAnswered, ServerOK, RequestOK
  <2> QED
    BY <1>7, <2>6, <2>7, <2>8 DEF ConfirmAnswered, TypeInv, AgentsOK, SyncOK, agents, sync
<1>8. CASE ConfirmFails
  <2>1. RequestOK' /\ ServerOK'
    BY <1>0, <1>8 DEF ConfirmFails, RequestOK, ServerOK, server
  <2> QED
    BY <1>0, <1>1, <1>8, <2>1 DEF ConfirmFails
<1> QED
  BY <1>2, <1>3, <1>4, <1>5, <1>6, <1>7, <1>8 DEF Requests

LEMMA TypesSyncs == TypeInv /\ Syncs => TypeInv'
<1> SUFFICES ASSUME TypeInv, Syncs PROVE TypeInv'
  OBVIOUS
<1> USE SameCanvas, SameHand
<1>0. CanvasOK /\ HandOK /\ AgentsOK /\ ServerOK /\ SyncOK /\ left \in 0 .. MaxStep /\ planning \in BOOLEAN
  BY DEF TypeInv
<1>1. ASSUME ServerOK', SyncOK', left' \in 0 .. MaxStep, UNCHANGED <<canvas, hand, agents, planning, request>>
      PROVE  TypeInv'
  BY <1>0, <1>1 DEF TypeInv, AgentsOK, RequestOK, agents, request
<1>2. CASE SyncEffect
  <2>1. SyncOK' /\ ServerOK'
    BY <1>0, <1>2 DEF SyncEffect, SyncOK, ServerOK, CanvasOK, server
  <2> QED
    BY <1>0, <1>1, <1>2, <2>1 DEF SyncEffect
<1>3. CASE SyncTimer
  <2>1. SyncOK' /\ ServerOK'
    BY <1>0, <1>3 DEF SyncTimer, Launch, Send, SyncOK, ServerOK, server
  <2> QED
    BY <1>0, <1>1, <1>3, <2>1 DEF SyncTimer
<1>4. ASSUME NEW c \in calls, ServeSync(c) PROVE TypeInv'
  <2>1. Partial(c.nodes, CanvasNode) /\ c = [nodes |-> c.nodes, stage |-> c.stage]
    BY <1>0 DEF SyncOK
  <2>2. SyncOK'
    BY <1>0, <1>4, <2>1 DEF ServeSync, Staged, SyncOK
  <2>3. ServerOK'
    <3> DEFINE got == ReadNodes(EncodeFlowSync(c.nodes, Edges(c.nodes)))
    <3>1. Partial(got, CanvasNode)
      BY <2>1, ReadIsSnapshot, SnapshotTyped, SMTT(30) DEF EncodeFlowSync, Partial, CanvasNode
    <3> HIDE DEF got
    <3>2. rows # <<>> => Partial(SyncedRows(rows, got), Row)
      BY <1>0, <3>1, SyncedTyped DEF ServerOK
    <3> QED
      BY <1>0, <1>4, <3>2 DEF ServeSync, ServerOK, got
  <2> QED
    BY <1>0, <1>1, <1>4, <2>2, <2>3, Spent DEF ServeSync
<1>5. ASSUME NEW c \in calls, SyncAnswered(c) PROVE TypeInv'
  <2>1. Partial(c.nodes, CanvasNode) /\ c = [nodes |-> c.nodes, stage |-> c.stage]
    BY <1>0 DEF SyncOK
  <2>2. SyncOK' /\ ServerOK'
    BY <1>0, <1>5, <2>1 DEF SyncAnswered, Staged, SyncOK, ServerOK, server
  <2> QED
    BY <1>0, <1>1, <1>5, <2>2 DEF SyncAnswered
<1>6. ASSUME NEW c \in calls, SyncEnds(c) PROVE TypeInv'
  <2>1. SyncOK'
    BY <1>0, <1>6 DEF SyncEnds, Freed, FreeFlight, SyncOK
  <2>2. ServerOK'
    BY <1>0, <1>6 DEF SyncEnds, ServerOK
  <2> QED
    BY <1>0, <1>1, <1>6, <2>1, <2>2 DEF SyncEnds
<1> QED
  BY <1>2, <1>3, <1>4, <1>5, <1>6 DEF Syncs

LEMMA TypesStep == TypeInv /\ [Next]_vars => TypeInv'
<1>1. TypeInv /\ UNCHANGED vars => TypeInv'
  BY DEF vars, TypeInv, CanvasOK, HandOK, AgentsOK, ServerOK, RequestOK, SyncOK, canvas, agents, server, request, sync
<1> QED
  BY <1>1, TypesGestures, TypesPlanner, TypesRows, TypesRequests, TypesSyncs DEF Next

(* Whatever is edited, planned, confirmed, executed and synchronised:      *)
(* canvas, lane map, rows and every payload on its way have their types,   *)
(* and there is always a lane.                                             *)
THEOREM CanvasTypes == Spec => []TypeOK
<1>1. TypeInv => TypeOK
  BY DEF TypeInv, TypeOK, CanvasOK, HandOK, AgentsOK, ServerOK, RequestOK, SyncOK
<1> QED
  BY <1>1, TypesInit, TypesStep, PTL DEF Spec

-----------------------------------------------------------------------------
(* What is sent can be executed layer by layer.                            *)

LEMMA PreparedIsRunnable ==
  ASSUME NEW ns, IsFiniteSet(DOMAIN ns), ~HasCycle(ns), NEW map, NEW ls, NEW on,
         NEW pick \in [DOMAIN ns -> on]
  PROVE  LET p == Prepared(ns, map, ls, on, pick) IN
         /\ {e \in (DOMAIN p) \X (DOMAIN p) : e[1] \in p[e[2]].deps} = Edges(ns)
         /\ \A n \in DOMAIN p : /\ p[n].agent \in on
                                /\ \A d \in p[n].deps : d \in DOMAIN p /\ p[d].layer < p[n].layer
<1> DEFINE p == Prepared(ns, map, ls, on, pick)
<1>1. /\ DOMAIN p = DOMAIN ns
      /\ \A n \in DOMAIN ns : /\ p[n].deps = DepsIn(ns, n) /\ p[n].layer = Depth(ns, n) + 1
                              /\ p[n].agent = Assigned(n, map, ls, on, pick)
  BY DEF Prepared
<1> HIDE DEF p
<1>2. {e \in (DOMAIN p) \X (DOMAIN p) : e[1] \in p[e[2]].deps} = Edges(ns)
  BY <1>1 DEF Edges, DepsIn
<1>3. ASSUME NEW n \in DOMAIN p PROVE p[n].agent \in on
  BY <1>1 DEF Assigned
<1>4. ASSUME NEW n \in DOMAIN p, NEW d \in p[n].deps PROVE d \in DOMAIN p /\ p[d].layer < p[n].layer
  <2>1. d \in DepsIn(ns, n) /\ d \in DOMAIN ns
    BY <1>1 DEF DepsIn
  <2>2. Depth(ns, d) \in Nat /\ Depth(ns, n) \in Nat /\ Depth(ns, d) < Depth(ns, n)
    BY <1>1, <2>1, DepthRises
  <2> QED
    BY <1>1, <2>1, <2>2
<1> QED
  BY <1>2, <1>3, <1>4 DEF p

LEMMA OnlyConfirmSends ==
  ASSUME [Next]_vars, confirming = None, confirming' # None
  PROVE  Confirm
<1>1. CASE Gestures \/ Planner \/ Execution \/ Hear \/ Refill \/ ChooseExecutor
  BY <1>1 DEF Gestures, OpenNodeForm, CreateNode, SaveNode, OpenLaneForm, CreateLane, SaveLane,
     StartPull, Connect, Grab, MoveTo, LetGo, DeleteKey, DeleteNodes, RemoveEdge, Begins, Edits,
     Planner, PlanStarts, PlannerDraft, PlanEnds, Execution, Dispatch, Finish, Hear, Refill,
     ChooseExecutor, request
<1>2. CASE Requests
  BY <1>2 DEF Requests, Act, ServeAct, ActAnswered, ServeConfirm, ConfirmAnswered, ConfirmFails
<1>3. CASE Syncs \/ UNCHANGED vars
  BY <1>3 DEF Syncs, SyncEffect, SyncTimer, ServeSync, SyncAnswered, SyncEnds, request, vars
<1> QED
  BY <1>1, <1>2, <1>3 DEF Next

(* Whatever the canvas, the lanes and the agents that are there, and       *)
(* however many: what is sent to be confirmed is the canvas, in layers     *)
(* that rise along every edge, each node with an agent that is online.     *)
THEOREM SentRunnable == Spec => SentIsRunnable
<1>1. TypeInv /\ [Next]_vars => (confirming = None /\ confirming' # None => Runnable(confirming'.nodes))
  <2> SUFFICES ASSUME TypeInv, [Next]_vars, confirming = None, confirming' # None
               PROVE  Runnable(confirming'.nodes)
    OBVIOUS
  <2>1. Confirm
    BY OnlyConfirmSends
  <2>2. PICK pick \in [DOMAIN nodes -> online] : confirming' = ConfirmPayload(pick)
    BY <2>1 DEF Confirm
  <2>3. IsFiniteSet(DOMAIN nodes)
    BY CanvasAssumption, FS_Subset DEF TypeInv, CanvasOK, Partial
  <2>4. ~HasCycle(nodes)
    BY <2>1 DEF Confirm, Preflight, Submittable
  <2>5. confirming'.nodes = Prepared(nodes, laneOf, lanes, online, pick)
    BY <2>2 DEF ConfirmPayload
  <2> QED
    BY <2>3, <2>4, <2>5, PreparedIsRunnable DEF Runnable
<1>2. TypeInv /\ [Next]_vars => [confirming = None /\ confirming' # None => Runnable(confirming'.nodes)]_vars
  BY <1>1
<1> QED
  BY <1>2, TypesInit, TypesStep, PTL DEF Spec, SentIsRunnable

-----------------------------------------------------------------------------
(* A draft on its way to the server and back.                              *)

Kept(d) == UpsertFlowDraft(EncodeFlowDraftUpsert(d))

LEMMA StoredNodes ==
  ASSUME NEW d
  PROVE  ToFlowDraftItem(Kept(d)).nodes = EncodeNodes(Snapshot(d.nodes))
<1> DEFINE body == EncodeFlowDraftUpsert(d)
           ns == d.nodes
<1>1. body.nodes = EncodeNodes(ns)
  BY DEF EncodeFlowDraftUpsert
<1>2. NodeIds(body) = DOMAIN ns
  BY <1>1, EncodedIds DEF NodeIds
<1> HIDE DEF body, ns
<1>3. UpsertFlowDraft(body).nodes =
        {[id |-> o.id, title |-> o.title, depends_on |-> SentDeps(o, body), agent_id |-> o.agentId] : o \in body.nodes}
  BY DEF UpsertFlowDraft
<1>4. ASSUME NEW n \in DOMAIN ns
      PROVE  LET o == EncodeNode(n, ns[n]) IN
             o.id = n /\ o.title = n /\ o.agentId = ns[n].agent /\ SentDeps(o, body) = DepsIn(ns, n)
  BY <1>2, SentDependencies DEF EncodeNode
<1>5. UpsertFlowDraft(body).nodes =
        {[id |-> n, title |-> n, depends_on |-> DepsIn(ns, n), agent_id |-> ns[n].agent] : n \in DOMAIN ns}
  BY <1>1, <1>3, <1>4 DEF EncodeNodes
<1>6. ToFlowDraftItem(UpsertFlowDraft(body)).nodes = {AnswerNode(o) : o \in UpsertFlowDraft(body).nodes}
  BY DEF ToFlowDraftItem
<1> DEFINE old(n) == [id |-> n, title |-> n, depends_on |-> DepsIn(ns, n), agent_id |-> ns[n].agent]
           new(n) == [id |-> n, title |-> n, dependsOn |-> DepsIn(ns, n), agentId |-> ns[n].agent]
<1>7. \A n : AnswerNode(old(n)) = new(n)
  BY DEF AnswerNode
<1>8. UpsertFlowDraft(body).nodes = {old(n) : n \in DOMAIN ns}
  BY <1>5
<1>9. \A n \in DOMAIN ns : new(n) = EncodeNode(n, Snapshot(ns)[n])
  BY DEF EncodeNode, Snapshot
<1>10. DOMAIN Snapshot(ns) = DOMAIN ns
  BY DEF Snapshot
<1> HIDE DEF old, new
<1>11. ToFlowDraftItem(UpsertFlowDraft(body)).nodes = {new(n) : n \in DOMAIN ns}
  BY <1>6, <1>7, <1>8
<1> QED
  BY <1>9, <1>10, <1>11 DEF body, ns, Kept, EncodeNodes

LEMMA SnapshotAgain ==
  ASSUME NEW ns
  PROVE  /\ [n \in DOMAIN Snapshot(ns) |-> [deps |-> Snapshot(ns)[n].deps, agent |-> Snapshot(ns)[n].agent]] = Snapshot(ns)
         /\ DOMAIN Snapshot(ns) = DOMAIN ns
         /\ \A n \in DOMAIN ns : Snapshot(ns)[n].deps = DepsIn(ns, n) /\ Snapshot(ns)[n].agent = ns[n].agent
         /\ Edges(Snapshot(ns)) = Edges(ns)
<1>1. /\ DOMAIN Snapshot(ns) = DOMAIN ns
      /\ \A n \in DOMAIN ns : Snapshot(ns)[n] = [deps |-> DepsIn(ns, n), agent |-> ns[n].agent]
  BY DEF Snapshot
<1>2. Edges(Snapshot(ns)) = Edges(ns)
  BY <1>1 DEF Edges, DepsIn
<1>3. [n \in DOMAIN Snapshot(ns) |-> [deps |-> Snapshot(ns)[n].deps, agent |-> Snapshot(ns)[n].agent]] = Snapshot(ns)
  BY <1>1 DEF Snapshot
<1> QED
  BY <1>1, <1>2, <1>3

(* Whatever the nodes: a draft comes back from the server, and a request   *)
(* is read by it, with every node, its agent and its dependencies among    *)
(* the nodes, and with nothing else.                                       *)
THEOREM NodesSurviveTheWire ==
  ASSUME NEW d
  PROVE  /\ RoundTrip(d).nodes = Snapshot(d.nodes)
         /\ \A es : /\ ReadNodes(EncodeFlowConfirm(d.nodes, es)) = Snapshot(d.nodes)
                    /\ ReadNodes(EncodeFlowSync(d.nodes, es)) = Snapshot(d.nodes)
<1>1. \A es : /\ ReadNodes(EncodeFlowConfirm(d.nodes, es)) = Snapshot(d.nodes)
              /\ ReadNodes(EncodeFlowSync(d.nodes, es)) = Snapshot(d.nodes)
  BY ReadIsSnapshot DEF EncodeFlowConfirm, EncodeFlowSync
<1> DEFINE item == ToFlowDraftItem(Kept(d))
<1>2. DecodeNodes(item.nodes) = Snapshot(d.nodes)
  <2>1. item.nodes = EncodeNodes(Snapshot(d.nodes))
    BY StoredNodes
  <2> HIDE DEF item
  <2> QED
    BY <2>1, DecodedNodes, SnapshotAgain
<1>3. FieldOr(item, "nodes", "nodes", {}) = item.nodes
  BY DEF FieldOr, ToFlowDraftItem
<1> HIDE DEF item
<1>4. DecodeFlowDraftItem(item).nodes = Snapshot(d.nodes)
  BY <1>2, <1>3 DEF DecodeFlowDraftItem
<1>5. "nodes" \in DOMAIN DecodeFlowDraftItem(item)
  BY DEF DecodeFlowDraftItem
<1>6. NormalizeDraft(DecodeFlowDraftItem(item)).nodes = DecodeFlowDraftItem(item).nodes
  BY <1>5 DEF NormalizeDraft
<1> QED
  BY <1>1, <1>4, <1>6 DEF RoundTrip, Kept, item

LEMMA AllItems ==
  ASSUME NEW T, NEW s \in Seq(T)
  PROVE  Items(s, DOMAIN s) = s
<1> DEFINE n == Len(s)
<1>1. n \in Nat /\ DOMAIN s = 1 .. n
  OBVIOUS
<1>2. Cardinality(1 .. n) = n
  BY <1>1, FS_Interval
<1>3. ASSUME NEW k \in 1 .. n PROVE Cardinality({j \in 1 .. n : j < k}) = k - 1
  <2>1. {j \in 1 .. n : j < k} = 1 .. k - 1
    BY <1>1
  <2>2. Cardinality(1 .. k - 1) = k - 1
    BY <1>1, FS_Interval
  <2> QED
    BY <2>1, <2>2
<1> HIDE DEF n
<1>4. ASSUME NEW i \in 1 .. n
      PROVE  (CHOOSE k \in 1 .. n : Cardinality({j \in 1 .. n : j < k}) = i - 1) = i
  <2>1. Cardinality({j \in 1 .. n : j < i}) = i - 1
    BY <1>3
  <2>2. \A k \in 1 .. n : Cardinality({j \in 1 .. n : j < k}) = i - 1 => k = i
    BY <1>1, <1>3
  <2> QED
    BY <2>1, <2>2
<1>5. Items(s, 1 .. n) =
        [i \in 1 .. n |-> s[CHOOSE k \in 1 .. n : Cardinality({j \in 1 .. n : j < k}) = i - 1]]
  BY <1>2 DEF Items
<1>6. Items(s, 1 .. n) = [i \in 1 .. n |-> s[i]]
  BY <1>4, <1>5
<1>7. s = [i \in 1 .. n |-> s[i]]
  BY <1>1
<1> QED
  BY <1>1, <1>6, <1>7

LEMMA StoredLanes ==
  ASSUME NEW d, d.lanes \in Seq(FlowLane)
  PROVE  ToFlowDraftItem(Kept(d)).lanes =
           [k \in DOMAIN d.lanes |-> [id |-> d.lanes[k].id, name |-> d.lanes[k].id,
                                      agentId |-> d.lanes[k].agent, createdAt |-> 0]]
<1> DEFINE ls == d.lanes
           one == EncodeFlowDraftUpsert(d).lanes
           two == Kept(d).lanes
           three == ToFlowDraftItem(Kept(d)).lanes
<1>1. one = [k \in DOMAIN ls |-> EncodeLane(ls[k])]
  BY DEF EncodeFlowDraftUpsert, Each
<1>2. two = [k \in DOMAIN one |-> ReadLane(one[k])]
  BY DEF Kept, UpsertFlowDraft, Each
<1>3. three = [k \in DOMAIN two |-> AnswerLane(two[k])]
  BY DEF ToFlowDraftItem, Each
<1> HIDE DEF ls, one, two, three
<1>4. DOMAIN two = DOMAIN ls /\ \A k \in DOMAIN ls : two[k] = ReadLane(EncodeLane(ls[k]))
  BY <1>1, <1>2
<1>5. three = [k \in DOMAIN ls |-> AnswerLane(ReadLane(EncodeLane(ls[k])))]
  BY <1>3, <1>4
<1>6. \A l : AnswerLane(ReadLane(EncodeLane(l))) = [id |-> l.id, name |-> l.id, agentId |-> l.agent, createdAt |-> 0]
  BY DEF AnswerLane, ReadLane, EncodeLane
<1> QED
  BY <1>5, <1>6 DEF ls, three

(* The lanes of a draft come back, each with its agent, in their order.    *)
LEMMA LanesSurvive ==
  ASSUME NEW d, d.lanes \in Seq(FlowLane)
  PROVE  RoundTrip(d).lanes = d.lanes
<1> DEFINE item == ToFlowDraftItem(Kept(d))
           s == item.lanes
           sent(k) == [id |-> d.lanes[k].id, name |-> d.lanes[k].id, agentId |-> d.lanes[k].agent, createdAt |-> 0]
<1>1. s = [k \in DOMAIN d.lanes |-> sent(k)]
  BY StoredLanes
<1>2. FieldOr(item, "lanes", "lanes", <<>>) = s
  BY DEF FieldOr, ToFlowDraftItem
<1>3. \A k : GoodLane(sent(k)) /\ DecodeLane(sent(k)) = [id |-> d.lanes[k].id, agent |-> d.lanes[k].agent]
  BY DEF GoodLane, Has, DecodeLane, FieldOr
<1> HIDE DEF item, s, sent
<1>4. {k \in DOMAIN s : GoodLane(s[k])} = DOMAIN s
  BY <1>1, <1>3
<1>5. Items(s, DOMAIN s) = s
  <2>1. DOMAIN d.lanes = 1 .. Len(d.lanes) /\ Len(d.lanes) \in Nat
    OBVIOUS
  <2>2. s \in [1 .. Len(d.lanes) -> {sent(k) : k \in DOMAIN d.lanes}]
    BY <1>1, <2>1
  <2>3. s \in Seq({sent(k) : k \in DOMAIN d.lanes})
    BY <2>1, <2>2
  <2> QED
    BY <2>3, AllItems
<1>6. DecodeArray(s, GoodLane, DecodeLane) = [k \in DOMAIN s |-> DecodeLane(s[k])]
  BY <1>4, <1>5 DEF DecodeArray, Each
<1>7. ASSUME NEW k \in DOMAIN d.lanes PROVE DecodeLane(s[k]) = d.lanes[k]
  <2>1. d.lanes[k] \in FlowLane
    OBVIOUS
  <2>2. d.lanes[k] = [id |-> d.lanes[k].id, agent |-> d.lanes[k].agent]
    BY <2>1 DEF FlowLane
  <2> QED
    BY <1>1, <1>3, <2>2
<1>8. DecodeArray(s, GoodLane, DecodeLane) = d.lanes
  BY <1>1, <1>6, <1>7
<1>9. DecodeFlowDraftItem(item).lanes = d.lanes
  BY <1>2, <1>8 DEF DecodeFlowDraftItem
<1>10. "lanes" \in DOMAIN DecodeFlowDraftItem(item)
  BY DEF DecodeFlowDraftItem
<1> QED
  BY <1>9, <1>10 DEF RoundTrip, NormalizeDraft, Kept, item

LEMMA KnownKept ==
  ASSUME NEW map, NEW ids, NEW S, DOMAIN map \subseteq ids, \A n \in DOMAIN map : map[n] \in S,
         map = [n \in DOMAIN map |-> map[n]]
  PROVE  KnownLanes(map, ids, S) = map
<1>1. {m \in DOMAIN map \cap ids : map[m] \in S} = DOMAIN map
  OBVIOUS
<1> QED
  BY <1>1 DEF KnownLanes

LEMMA LaneMapSurvives ==
  ASSUME NEW d, d.lanes \in Seq(FlowLane), DOMAIN d.laneOf \subseteq DOMAIN d.nodes,
         \A n \in DOMAIN d.laneOf : d.laneOf[n] \in Ids(d.lanes),
         d.laneOf = [n \in DOMAIN d.laneOf |-> d.laneOf[n]]
  PROVE  RoundTrip(d).laneOf = d.laneOf
<1> DEFINE body == EncodeFlowDraftUpsert(d)
           item == ToFlowDraftItem(Kept(d))
<1>1. NodeIds(body) = DOMAIN d.nodes
  BY EncodedIds DEF NodeIds, EncodeFlowDraftUpsert
<1>2. {body.lanes[k].id : k \in DOMAIN body.lanes} = Ids(d.lanes)
  <2>1. body.lanes = [k \in DOMAIN d.lanes |-> EncodeLane(d.lanes[k])]
    BY DEF EncodeFlowDraftUpsert, Each
  <2> QED
    BY <2>1 DEF EncodeLane, Ids
<1>3. body.nodeLaneById = d.laneOf
  BY DEF EncodeFlowDraftUpsert
<1>4. Kept(d).node_lane_by_id = d.laneOf
  <2>1. Kept(d).node_lane_by_id =
          KnownLanes(body.nodeLaneById, NodeIds(body), {body.lanes[k].id : k \in DOMAIN body.lanes})
    BY DEF Kept, UpsertFlowDraft
  <2> HIDE DEF body
  <2> QED
    BY <1>1, <1>2, <1>3, <2>1, KnownKept
<1>5. NodeIds(Kept(d)) = DOMAIN d.nodes
  <2> DEFINE kept(o) == [id |-> o.id, title |-> o.title, depends_on |-> SentDeps(o, body), agent_id |-> o.agentId]
  <2>1. Kept(d).nodes = {kept(o) : o \in body.nodes}
    BY DEF Kept, UpsertFlowDraft
  <2>2. \A o : kept(o).id = o.id
    OBVIOUS
  <2> HIDE DEF kept, body
  <2>3. NodeIds(Kept(d)) = NodeIds(body)
    BY <2>1, <2>2 DEF NodeIds
  <2> QED
    BY <1>1, <2>3
<1>6. {Kept(d).lanes[k].id : k \in DOMAIN Kept(d).lanes} = Ids(d.lanes)
  <2>1. Kept(d).lanes = [k \in DOMAIN body.lanes |-> ReadLane(body.lanes[k])]
    BY DEF Kept, UpsertFlowDraft, Each
  <2>2. body.lanes = [k \in DOMAIN d.lanes |-> EncodeLane(d.lanes[k])]
    BY DEF EncodeFlowDraftUpsert, Each
  <2> HIDE DEF body
  <2>3. \A l : ReadLane(EncodeLane(l)).id = l.id
    BY DEF ReadLane, EncodeLane
  <2>4. /\ DOMAIN Kept(d).lanes = DOMAIN d.lanes
        /\ \A k \in DOMAIN d.lanes : Kept(d).lanes[k].id = d.lanes[k].id
    BY <2>1, <2>2, <2>3
  <2> QED
    BY <2>4 DEF Ids
<1>7. item.nodeLaneById = d.laneOf
  <2>1. item.nodeLaneById = KnownLanes(Kept(d).node_lane_by_id, NodeIds(Kept(d)),
                                       {Kept(d).lanes[k].id : k \in DOMAIN Kept(d).lanes})
    BY DEF ToFlowDraftItem
  <2> QED
    BY <1>4, <1>5, <1>6, <2>1, KnownKept
<1>8. FieldOr(item, "node_lane_by_id", "nodeLaneById", <<>>) = item.nodeLaneById
  BY DEF FieldOr, ToFlowDraftItem
<1> HIDE DEF item
<1>9. DecodeFlowDraftItem(item).laneOf = d.laneOf
  BY <1>7, <1>8 DEF DecodeFlowDraftItem
<1>10. "laneOf" \in DOMAIN DecodeFlowDraftItem(item)
  BY DEF DecodeFlowDraftItem
<1> QED
  BY <1>9, <1>10 DEF RoundTrip, NormalizeDraft, Kept, item

LEMMA ExecutorSurvives ==
  ASSUME NEW d
  PROVE  RoundTrip(d).executor = d.executor
<1> DEFINE item == ToFlowDraftItem(Kept(d))
<1>1. item.executorAgentId = d.executor
  BY DEF ToFlowDraftItem, Kept, UpsertFlowDraft, EncodeFlowDraftUpsert
<1>2. FieldOr(item, "executor_agent_id", "executorAgentId", None) = item.executorAgentId
  BY DEF FieldOr, ToFlowDraftItem
<1> HIDE DEF item
<1>3. DecodeFlowDraftItem(item).executor = d.executor /\ "executor" \in DOMAIN DecodeFlowDraftItem(item)
  BY <1>1, <1>2 DEF DecodeFlowDraftItem
<1> QED
  BY <1>3 DEF RoundTrip, NormalizeDraft, Kept, item

Runtimes == [status : {"planning", "idle"}, planning : BOOLEAN, stopping : BOOLEAN, blocked : BOOLEAN]

LEMMA RuntimeSurvives ==
  ASSUME NEW d, d.runtime \in Runtimes
  PROVE  RoundTrip(d).runtime = d.runtime
<1> DEFINE item == ToFlowDraftItem(Kept(d))
           r == item.plannerRuntime
<1>1. r = [plannerSessionStatus |-> StatusOr(d.runtime.status), isPlanning |-> d.runtime.planning,
           isPlannerStopping |-> d.runtime.stopping, isOverlayCloseBlocked |-> d.runtime.blocked]
  BY DEF ToFlowDraftItem, Kept, UpsertFlowDraft, EncodeFlowDraftUpsert, EncodePlannerRuntime
<1>2. StatusOr(d.runtime.status) = d.runtime.status
  BY DEF StatusOr, SessionStatus, Runtimes
<1>3. FieldOr(item, "planner_runtime", "plannerRuntime", <<>>) = r
  BY DEF FieldOr, ToFlowDraftItem
<1> HIDE DEF item, r
<1>4. DecodePlannerRuntime(r) = d.runtime
  <2>1. DecodePlannerRuntime(r) = [status |-> d.runtime.status, planning |-> d.runtime.planning,
                                   stopping |-> d.runtime.stopping, blocked |-> d.runtime.blocked]
    BY <1>1, <1>2 DEF DecodePlannerRuntime, FieldOr
  <2> QED
    BY <2>1 DEF Runtimes
<1>5. DecodeFlowDraftItem(item).runtime = d.runtime
  BY <1>3, <1>4 DEF DecodeFlowDraftItem
<1>6. "runtime" \in DOMAIN DecodeFlowDraftItem(item)
  BY DEF DecodeFlowDraftItem
<1>7. RoundTrip(d).runtime = [d.runtime EXCEPT !.status = StatusOr(d.runtime.status)]
  BY <1>5, <1>6 DEF RoundTrip, NormalizeDraft, Kept, item
<1> QED
  BY <1>2, <1>7 DEF Runtimes

Prompted == [role : {"user"}, content : {"prompt"}, kind : {None}]

LEMMA StoredMessages ==
  ASSUME NEW d, d.messages \in Seq(Prompted)
  PROVE  ToFlowDraftItem(Kept(d)).plannerMessages =
           [k \in DOMAIN d.messages |-> [role |-> "user", content |-> "prompt", createdAt |-> 0, kind |-> "message"]]
<1> DEFINE ms == d.messages
           one == EncodeFlowDraftUpsert(d).plannerMessages
           two == Kept(d).planner_messages
           three == ToFlowDraftItem(Kept(d)).plannerMessages
<1>1. one = [k \in DOMAIN ms |-> EncodeChatMessage(ms[k])]
  BY DEF EncodeFlowDraftUpsert, Each
<1>2. two = [k \in DOMAIN one |-> ReadMessage(one[k])]
  BY DEF Kept, UpsertFlowDraft, Each
<1>3. three = [k \in DOMAIN two |-> AnswerMessage(two[k])]
  BY DEF ToFlowDraftItem, Each
<1>4. \A k \in DOMAIN ms : ms[k] \in Prompted
  OBVIOUS
<1> HIDE DEF ms, one, two, three
<1>5. three = [k \in DOMAIN ms |-> AnswerMessage(ReadMessage(EncodeChatMessage(ms[k])))]
  <2>1. DOMAIN two = DOMAIN ms /\ \A k \in DOMAIN ms : two[k] = ReadMessage(EncodeChatMessage(ms[k]))
    BY <1>1, <1>2
  <2> QED
    BY <1>3, <2>1
<1>6. ASSUME NEW m \in Prompted
      PROVE  AnswerMessage(ReadMessage(EncodeChatMessage(m))) =
               [role |-> "user", content |-> "prompt", createdAt |-> 0, kind |-> "message"]
  <2> DEFINE e == EncodeChatMessage(m)
  <2>1. m.role = "user" /\ m.content = "prompt" /\ m.kind = None
    BY DEF Prompted
  <2>2. DOMAIN e = {"role", "content", "createdAt"} /\ e.role = "user" /\ e.content = "prompt" /\ e.createdAt = 0
    BY <2>1 DEF EncodeChatMessage
  <2> HIDE DEF e
  <2>3. ReadMessage(e) = [role |-> "user", content |-> "prompt", created_at |-> 0, kind |-> "message"]
    BY <2>2 DEF ReadMessage, FieldOr
  <2> QED
    BY <2>3 DEF AnswerMessage, e
<1> QED
  BY <1>4, <1>5, <1>6 DEF ms, three

(* No message of a draft is lost, and each keeps its author.               *)
LEMMA MessagesSurvive ==
  ASSUME NEW d, d.messages \in Seq(Prompted)
  PROVE  /\ Len(RoundTrip(d).messages) = Len(d.messages)
         /\ \A k \in DOMAIN RoundTrip(d).messages : RoundTrip(d).messages[k].role = d.messages[k].role
<1> DEFINE item == ToFlowDraftItem(Kept(d))
           s == item.plannerMessages
           sent == [role |-> "user", content |-> "prompt", createdAt |-> 0, kind |-> "message"]
           got == [role |-> "user", content |-> "prompt", kind |-> "message"]
           dom == DOMAIN d.messages
<1>1. s = [k \in dom |-> sent]
  BY StoredMessages
<1>2. FieldOr(item, "planner_messages", "plannerMessages", <<>>) = s
  BY DEF FieldOr, ToFlowDraftItem
<1>3. GoodMessage(sent) /\ DecodeChatMessage(sent) = got
  BY DEF GoodMessage, Role, Has, DecodeChatMessage, FieldOr
<1>4. dom = 1 .. Len(d.messages) /\ Len(d.messages) \in Nat
  OBVIOUS
<1>5. got.role = "user" /\ \A k \in dom : d.messages[k].role = "user"
  <2>1. \A k \in dom : d.messages[k] \in Prompted
    OBVIOUS
  <2> QED
    BY <2>1 DEF Prompted
<1> HIDE DEF item, s, sent, got, dom
<1>6. {k \in DOMAIN s : GoodMessage(s[k])} = DOMAIN s /\ Items(s, DOMAIN s) = s
  <2>1. s \in [1 .. Len(d.messages) -> {sent}]
    BY <1>1, <1>4
  <2>2. s \in Seq({sent})
    BY <1>4, <2>1
  <2> QED
    BY <1>1, <1>3, <2>2, AllItems
<1>7. DecodeArray(s, GoodMessage, DecodeChatMessage) = [k \in dom |-> got]
  <2>1. DecodeArray(s, GoodMessage, DecodeChatMessage) = [k \in DOMAIN s |-> DecodeChatMessage(s[k])]
    BY <1>6 DEF DecodeArray, Each
  <2> QED
    BY <1>1, <1>3, <2>1
<1> DEFINE t == [k \in dom |-> got]
<1>8. DecodeFlowDraftItem(item).messages = t /\ "messages" \in DOMAIN DecodeFlowDraftItem(item)
  BY <1>2, <1>7 DEF DecodeFlowDraftItem
<1>9. t \in Seq({got}) /\ Len(t) = Len(d.messages) /\ DOMAIN t = dom
  BY <1>4
<1>10. \A k \in DOMAIN t : t[k].role = "user"
  BY <1>5
<1> HIDE DEF t
<1>11. {k \in DOMAIN t : t[k].role \in {"user", "assistant", "system"}} = DOMAIN t
  BY <1>10
<1>12. RoundTrip(d).messages = t
  <2>1. RoundTrip(d).messages = Items(t, {k \in DOMAIN t : t[k].role \in {"user", "assistant", "system"}})
    BY <1>8 DEF RoundTrip, NormalizeDraft, Kept, item
  <2> QED
    BY <1>9, <1>11, <2>1, AllItems
<1> QED
  BY <1>5, <1>9, <1>10, <1>12

(* Whatever an edited canvas holds, if its lanes are all there, it is what *)
(* is shown when the draft is opened again: nodes, edges, lanes, lane map, *)
(* executor, what the planner does and what has been said.                 *)
THEOREM DraftReopens == Spec => []ReopensAsLeft
<1>1. TypeInv /\ LanesFollowNodes => ReopensAsLeft
  <2> SUFFICES ASSUME TypeInv, LanesFollowNodes, \A n \in DOMAIN laneOf : laneOf[n] \in Ids(lanes)
               PROVE  ReopensAsLeft
    BY DEF ReopensAsLeft
  <2> DEFINE n == NextDraft
             d == RoundTrip(n)
  <2>1. /\ n.nodes = nodes /\ n.lanes = lanes /\ n.laneOf = laneOf /\ n.executor = executor
        /\ n.messages \in Seq(Prompted) /\ n.runtime \in Runtimes
    <3>1. planning \in BOOLEAN
      BY DEF TypeInv
    <3>2. [role |-> "user", content |-> "prompt", kind |-> None] \in Prompted
      BY DEF Prompted
    <3>3. n.runtime \in Runtimes
      BY <3>1 DEF NextDraft, Runtimes
    <3>4. n.messages \in Seq(Prompted)
      BY <3>2 DEF NextDraft
    <3> QED
      BY <3>3, <3>4 DEF NextDraft
  <2>2. lanes \in Seq(FlowLane) /\ laneOf = [m \in DOMAIN laneOf |-> laneOf[m]] /\ DOMAIN laneOf = DOMAIN nodes
    BY DEF TypeInv, CanvasOK, Partial, LanesFollowNodes
  <2> HIDE DEF n
  <2>3. d.nodes = Snapshot(nodes)
    BY <2>1, NodesSurviveTheWire
  <2>4. d.lanes = lanes /\ d.laneOf = laneOf /\ d.executor = executor /\ d.runtime = n.runtime
    BY <2>1, <2>2, LanesSurvive, LaneMapSurvives, ExecutorSurvives, RuntimeSurvives
  <2>5. /\ Len(d.messages) = Len(n.messages)
        /\ \A k \in DOMAIN d.messages : d.messages[k].role = n.messages[k].role
    BY <2>1, MessagesSurvive
  <2> HIDE DEF d
  <2>6. /\ DOMAIN d.nodes = DOMAIN nodes /\ Edges(Snapshot(d.nodes)) = Edges(nodes)
        /\ \A m \in DOMAIN nodes : d.nodes[m].agent = nodes[m].agent
    BY <2>3, SnapshotAgain
  <2>7. DraftLaneMap(d) = laneOf
    <3>1. \A m \in DOMAIN d.nodes : m \in DOMAIN d.laneOf /\ d.laneOf[m] \in Ids(d.lanes)
      BY <2>2, <2>4, <2>6
    <3>2. DraftLaneMap(d) = [m \in DOMAIN d.nodes |-> d.laneOf[m]]
      BY <3>1 DEF DraftLaneMap
    <3> QED
      BY <2>2, <2>4, <2>6, <3>2
  <2> QED
    BY <2>4, <2>5, <2>6, <2>7 DEF ReopensAsLeft, d, n
<1> QED
  BY <1>1, TypesInit, TypesStep, LanesInit, LanesStep, PTL DEF Spec
===============================================================================
