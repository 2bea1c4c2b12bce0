--------------------------- MODULE DraftSyncProofs ---------------------------
(* Proofs about the drafts of flows, for any editors, flows and numbers of *)
(* edits, and about the decision of what a page shows.                     *)
EXTENDS DraftSync, TLAPS

-----------------------------------------------------------------------------
(* What the page shows when its route is looked at.                        *)

LEMMA DecisionTyped ==
  ASSUME NEW q
  PROVE  Decide(q).apply \in Applied /\ Decide(q).load \in BOOLEAN
  BY DEF Decide, KeepRoute, LoadNewRoute, LoadPreferred, LoadRoute, Load, Keep, Applied

(* A route is loaded once, and after at most one more decision the page    *)
(* shows what it goes on showing: no two effects of the hydration replace  *)
(* each other for ever (resolveFlowRouteHydrationDecision).                *)
THEOREM RouteSettles ==
  \A q \in Facts :
    /\ ~Decide(After(q)).load
    /\ Decide(After(After(q))).apply \in {"nothing", "snapshot_canvas"}
<1> SUFFICES ASSUME NEW q \in Facts
             PROVE  /\ ~Decide(After(q)).load
                    /\ Decide(After(After(q))).apply \in {"nothing", "snapshot_canvas"}
  OBVIOUS
<1>1. ASSUME NEW p \in Facts
      PROVE  /\ \A k \in Fact : p[k] \in BOOLEAN
             /\ p.changed => Decide(p).load
             /\ ~p.changed => Decide(p) = KeepRoute(p) /\ ~Decide(p).load
  BY DEF Facts, Fact, Decide, KeepRoute, LoadNewRoute, LoadPreferred, LoadRoute, Load, Keep
<1>2. ASSUME NEW p \in Facts
      PROVE  /\ After(p) \in Facts /\ ~After(p).changed
             /\ After(p).here = (p.here \/ Decide(p).apply \notin {"nothing", "snapshot_canvas"})
             /\ After(p).drafting = CASE Decide(p).apply \in {"draft", "seeded", "empty"} -> TRUE
                                      [] Decide(p).apply = "snapshot" -> FALSE
                                      [] OTHER -> p.drafting
             /\ \A k \in Fact \ {"changed", "here", "drafting"} : After(p)[k] = p[k]
  <2> DEFINE d == Decide(p)
             changed == p.changed /\ ~d.load
             here == p.here \/ d.apply \notin {"nothing", "snapshot_canvas"}
             drafting == CASE d.apply \in {"draft", "seeded", "empty"} -> TRUE
                           [] d.apply = "snapshot" -> FALSE
                           [] OTHER -> p.drafting
  <2>1. After(p) = [p EXCEPT !.changed = changed, !.here = here, !.drafting = drafting]
    BY DEF After
  <2>2. changed \in BOOLEAN /\ here \in BOOLEAN /\ drafting \in BOOLEAN /\ ~changed
    BY <1>1 DEF Fact
  <2> HIDE DEF changed, here, drafting
  <2>3. /\ After(p) \in Facts /\ After(p).changed = changed /\ After(p).here = here /\ After(p).drafting = drafting
        /\ \A k \in Fact \ {"changed", "here", "drafting"} : After(p)[k] = p[k]
    <3>1. {"changed", "here", "drafting"} \subseteq Fact /\ p \in [Fact -> BOOLEAN]
      BY DEF Facts, Fact
    <3>2. \A v1, v2, v3 \in BOOLEAN :
            LET a == [p EXCEPT !.changed = v1, !.here = v2, !.drafting = v3] IN
            /\ a \in [Fact -> BOOLEAN] /\ a.changed = v1 /\ a.here = v2 /\ a.drafting = v3
            /\ \A k \in Fact \ {"changed", "here", "drafting"} : a[k] = p[k]
      BY <3>1
    <3>3. LET a == [p EXCEPT !.changed = changed, !.here = here, !.drafting = drafting] IN
          /\ a \in [Fact -> BOOLEAN] /\ a.changed = changed /\ a.here = here /\ a.drafting = drafting
          /\ \A k \in Fact \ {"changed", "here", "drafting"} : a[k] = p[k]
      BY <2>2, <3>2, Zenon
    <3> QED
      BY <2>1, <3>3, Zenon DEF Facts
  <2> QED
    BY <2>2, <2>3 DEF changed, here, drafting
<1> DEFINE r == After(q)
           t == After(r)
<1>3. r \in Facts /\ ~r.changed /\ ~Decide(r).load /\ Decide(r) = KeepRoute(r)
  BY <1>1, <1>2
<1>4. t \in Facts /\ ~t.changed /\ Decide(t) = KeepRoute(t)
  BY <1>1, <1>2, <1>3
<1>5. /\ t.here = (r.here \/ Decide(r).apply \notin {"nothing", "snapshot_canvas"})
      /\ t.drafting = CASE Decide(r).apply \in {"draft", "seeded", "empty"} -> TRUE
                        [] Decide(r).apply = "snapshot" -> FALSE
                        [] OTHER -> r.drafting
      /\ \A k \in {"fresh", "prefer", "draft", "chat", "pending", "snapshot", "newer", "blank"} : t[k] = r[k]
  BY <1>2, <1>3 DEF Fact
<1> HIDE DEF r, t
<1>6. Decide(t).apply \in {"nothing", "snapshot_canvas"}
  <2>1. CASE Decide(r).apply = "snapshot"
    <3>1. ~t.drafting /\ t.here
      BY <1>5, <2>1
    <3> QED
      BY <1>4, <3>1 DEF KeepRoute, Keep, ForcesSnapshot
  <2>2. CASE Decide(r).apply # "snapshot"
    <3>1. Decide(r).apply \in {"nothing", "snapshot_canvas"}
      BY <1>3, <2>2 DEF KeepRoute, Keep
    <3>2. t.here = r.here /\ t.drafting = r.drafting
      <4>1. r.here \in BOOLEAN
        BY <1>1, <1>3 DEF Fact
      <4> QED
        BY <1>5, <3>1, <4>1
    <3>3. KeepRoute(t) = KeepRoute(r)
      BY <1>5, <3>2 DEF KeepRoute, Keep, ForcesSnapshot
    <3> QED
      BY <1>3, <1>4, <3>1, <3>3
  <2> QED
    BY <2>1, <2>2
<1> QED
  BY <1>3, <1>6 DEF r, t

-----------------------------------------------------------------------------
(* The queue.  What OneSaveAtATime says depends on the saves among the     *)
(* requests only.                                                          *)

SavesIn(requests) == {r \in requests : r.kind = "save"}
Of(saves, e, f) == {r \in saves : r.by = e /\ r.flow = f}

QueueOK(saves, busy, waits) ==
  \A e \in Editor, f \in Flow :
    /\ f \in busy[e] <=> Of(saves, e, f) # {}
    /\ \A r, s \in Of(saves, e, f) : r = s
    /\ Has(waits[e][f]) => f \in busy[e]

FlowsNamed(requests) == \A r \in requests : r.kind # "list" => r.flow \in Flow

Queue == QueueOK(SavesIn(net), inFlight, waiting)

LEMMA QueueMeans == Queue <=> OneSaveAtATime
  BY DEF Queue, QueueOK, OneSaveAtATime, Saving, SavesIn, Of

LEMMA DraftTyped == NoDraft \in Draft /\ NoDrafts \in [Flow -> Draft] /\ ~Has(NoDraft)
  BY DEF NoDraft, NoDrafts, Draft, Has

LEMMA NewRequestTyped ==
  ASSUME NEW e \in Editor, NEW kind \in {"save", "delete", "list", "refetch", "drop"},
         NEW f \in Flow \cup {New}, NEW d \in Draft, NEW mount \in Nat
  PROVE  LET r == NewRequest(e, kind, f, d, mount) IN
         /\ r \in Request /\ r.kind = kind /\ r.by = e /\ r.flow = f
  BY DraftTyped DEF NewRequest, Request

(* A flow that nothing saves is saved.                                     *)
LEMMA SaveBegins ==
  ASSUME NEW saves, NEW busy \in [Editor -> SUBSET Flow], NEW waits, QueueOK(saves, busy, waits),
         NEW e \in Editor, NEW f \in Flow, f \notin busy[e],
         NEW r, r.by = e, r.flow = f
  PROVE  QueueOK(saves \cup {r}, [busy EXCEPT ![e] = @ \cup {f}], waits)
<1> SUFFICES ASSUME NEW e1 \in Editor, NEW f1 \in Flow
             PROVE  LET b == [busy EXCEPT ![e] = @ \cup {f}]
                        O == Of(saves \cup {r}, e1, f1) IN
                    /\ f1 \in b[e1] <=> O # {}
                    /\ \A q, s \in O : q = s
                    /\ Has(waits[e1][f1]) => f1 \in b[e1]
  BY DEF QueueOK
<1>1. Of(saves, e, f) = {}
  BY DEF QueueOK
<1>2. CASE e1 = e /\ f1 = f
  <2>1. Of(saves \cup {r}, e1, f1) = {r}
    BY <1>1, <1>2 DEF Of
  <2> QED
    BY <1>2, <2>1
<1>3. CASE ~(e1 = e /\ f1 = f)
  <2>1. Of(saves \cup {r}, e1, f1) = Of(saves, e1, f1)
    BY <1>3 DEF Of
  <2>2. f1 \in [busy EXCEPT ![e] = @ \cup {f}][e1] <=> f1 \in busy[e1]
    BY <1>3
  <2> QED
    BY <2>1, <2>2 DEF QueueOK
<1> QED
  BY <1>2, <1>3

(* The save of a flow is taken away or replaced.                           *)
LEMMA SaveReplaced ==
  ASSUME NEW saves, NEW busy \in [Editor -> SUBSET Flow], NEW waits, QueueOK(saves, busy, waits),
         NEW r \in saves, r.by \in Editor, r.flow \in Flow,
         NEW q, q.by = r.by, q.flow = r.flow,
         NEW left, \A e \in Editor, f \in Flow : Has(left[e][f]) => Has(waits[e][f])
  PROVE  QueueOK((saves \ {r}) \cup {q}, busy, left)
<1> SUFFICES ASSUME NEW e1 \in Editor, NEW f1 \in Flow
             PROVE  LET O == Of((saves \ {r}) \cup {q}, e1, f1) IN
                    /\ f1 \in busy[e1] <=> O # {}
                    /\ \A x, y \in O : x = y
                    /\ Has(left[e1][f1]) => f1 \in busy[e1]
  BY DEF QueueOK
<1>1. CASE e1 = r.by /\ f1 = r.flow
  <2>1. Of(saves, e1, f1) = {r}
    BY <1>1 DEF QueueOK, Of
  <2>2. Of((saves \ {r}) \cup {q}, e1, f1) = {q}
    BY <1>1, <2>1 DEF Of
  <2> QED
    BY <2>1, <2>2 DEF QueueOK
<1>2. CASE ~(e1 = r.by /\ f1 = r.flow)
  <2>1. Of((saves \ {r}) \cup {q}, e1, f1) = Of(saves, e1, f1)
    BY <1>2 DEF Of
  <2> QED
    BY <2>1 DEF QueueOK
<1> QED
  BY <1>1, <1>2

LEMMA SaveEnds ==
  ASSUME NEW saves, NEW busy \in [Editor -> SUBSET Flow], NEW waits, QueueOK(saves, busy, waits),
         NEW r \in saves, r.by \in Editor, r.flow \in Flow, ~Has(waits[r.by][r.flow])
  PROVE  QueueOK(saves \ {r}, [busy EXCEPT ![r.by] = @ \ {r.flow}], waits)
<1> SUFFICES ASSUME NEW e1 \in Editor, NEW f1 \in Flow
             PROVE  LET b == [busy EXCEPT ![r.by] = @ \ {r.flow}]
                        O == Of(saves \ {r}, e1, f1) IN
                    /\ f1 \in b[e1] <=> O # {}
                    /\ \A q, s \in O : q = s
                    /\ Has(waits[e1][f1]) => f1 \in b[e1]
  BY DEF QueueOK
<1>1. CASE e1 = r.by /\ f1 = r.flow
  <2>1. Of(saves \ {r}, e1, f1) = {}
    BY <1>1 DEF QueueOK, Of
  <2> QED
    BY <1>1, <2>1
<1>2. CASE ~(e1 = r.by /\ f1 = r.flow)
  <2>1. Of(saves \ {r}, e1, f1) = Of(saves, e1, f1)
    BY <1>2 DEF Of
  <2>2. f1 \in [busy EXCEPT ![r.by] = @ \ {r.flow}][e1] <=> f1 \in busy[e1]
    BY <1>2
  <2> QED
    BY <2>1, <2>2 DEF QueueOK
<1> QED
  BY <1>1, <1>2

(* Fewer records wait, or more of a flow that is being saved.              *)
LEMMA WaitsChange ==
  ASSUME NEW saves, NEW busy, NEW waits, NEW left, QueueOK(saves, busy, waits),
         \A e \in Editor, f \in Flow : Has(left[e][f]) => Has(waits[e][f]) \/ f \in busy[e]
  PROVE  QueueOK(saves, busy, left)
  BY DEF QueueOK

-----------------------------------------------------------------------------
(* The operations of the queue.                                            *)

StoreTyped ==
  /\ local \in [Editor -> [Flow -> Draft]] /\ waiting \in [Editor -> [Flow -> Draft]]
  /\ inFlight \in [Editor -> SUBSET Flow] /\ removed \in [Editor -> SUBSET Flow]
  /\ api \in [Editor -> {"unknown", "enabled", "disabled"}]
  /\ status \in [Editor -> {"synced", "unsynced", "conflict", "kept"}]
NetTyped(requests) == requests \subseteq Request /\ FlowsNamed(requests)
QueueInv == StoreTyped /\ NetTyped(net) /\ Queue

LEMMA Joins ==
  ASSUME NEW others, NetTyped(others), NEW r \in Request, r.kind # "list" => r.flow \in Flow
  PROVE  /\ NetTyped(others \cup {r})
         /\ r.kind = "save" => SavesIn(others \cup {r}) = SavesIn(others) \cup {r}
         /\ r.kind # "save" => SavesIn(others \cup {r}) = SavesIn(others)
  BY DEF NetTyped, FlowsNamed, SavesIn

LEMMA NewSave ==
  ASSUME NEW others, NetTyped(others), NEW e \in Editor, NEW f \in Flow, NEW d \in Draft,
         NEW r, r = NewRequest(e, "save", f, d, 0)
  PROVE  /\ NetTyped(others \cup {r}) /\ r.by = e /\ r.flow = f
         /\ SavesIn(others \cup {r}) = SavesIn(others) \cup {r}
<1>1. r \in Request /\ r.kind = "save" /\ r.by = e /\ r.flow = f
  BY NewRequestTyped
<1>2. NetTyped(others \cup {r}) /\ SavesIn(others \cup {r}) = SavesIn(others) \cup {r}
  BY <1>1, Joins
<1> QED
  BY <1>1, <1>2

LEMMA PersistKeeps ==
  ASSUME QueueInv, NEW e \in Editor, NEW f \in Flow, NEW d \in Draft,
         NEW others, NetTyped(others), SavesIn(others) = SavesIn(net), Persist(e, f, d, others)
  PROVE  QueueInv'
<1> USE DEF QueueInv
<1>1. local' \in [Editor -> [Flow -> Draft]] /\ UNCHANGED <<api, status>>
  BY DEF Persist, StoreTyped
<1>2. CASE api[e] = "disabled"
  <2>1. net' = others /\ UNCHANGED <<waiting, inFlight, removed>>
    BY <1>2 DEF Persist
  <2> QED
    BY <1>1, <2>1 DEF StoreTyped, Queue
<1>3. CASE api[e] # "disabled"
  <2>1. removed' \in [Editor -> SUBSET Flow]
    BY <1>3 DEF Persist, StoreTyped
  <2>2. CASE f \in inFlight[e]
    <3>1. waiting' = [waiting EXCEPT ![e][f] = d] /\ net' = others /\ UNCHANGED inFlight
      BY <1>3, <2>2 DEF Persist
    <3>2. waiting' \in [Editor -> [Flow -> Draft]]
      BY <3>1 DEF StoreTyped
    <3>3. \A e1 \in Editor, f1 \in Flow :
            Has(waiting'[e1][f1]) => Has(waiting[e1][f1]) \/ f1 \in inFlight[e1]
      BY <2>2, <3>1 DEF StoreTyped
    <3>4. Queue'
      BY <3>1, <3>3, WaitsChange DEF Queue
    <3> QED
      BY <1>1, <2>1, <3>1, <3>2, <3>4 DEF StoreTyped
  <2>3. CASE f \notin inFlight[e]
    <3> DEFINE r == NewRequest(e, "save", f, d, 0)
    <3>1. inFlight' = [inFlight EXCEPT ![e] = @ \cup {f}] /\ net' = others \cup {r} /\ UNCHANGED waiting
      BY <1>3, <2>3 DEF Persist
    <3>6. r = NewRequest(e, "save", f, d, 0)
      OBVIOUS
    <3> HIDE DEF r
    <3>2. /\ NetTyped(others \cup {r}) /\ r.by = e /\ r.flow = f
          /\ SavesIn(others \cup {r}) = SavesIn(others) \cup {r}
      BY <3>6, NewSave
    <3>3. QueueOK(SavesIn(net) \cup {r}, [inFlight EXCEPT ![e] = @ \cup {f}], waiting)
      BY <2>3, <3>2, SaveBegins DEF StoreTyped, Queue
    <3>4. Queue'
      BY <3>1, <3>2, <3>3 DEF Queue
    <3>5. inFlight' \in [Editor -> SUBSET Flow]
      BY <3>1 DEF StoreTyped
    <3> QED
      BY <1>1, <2>1, <3>1, <3>2, <3>4, <3>5 DEF StoreTyped
  <2> QED
    BY <2>2, <2>3
<1> QED
  BY <1>2, <1>3

LEMMA RemoveKeeps ==
  ASSUME QueueInv, NEW e \in Editor, NEW f \in Flow,
         NEW others, NetTyped(others), SavesIn(others) = SavesIn(net), Remove(e, f, others)
  PROVE  QueueInv'
<1> USE DEF QueueInv
<1> DEFINE r == NewRequest(e, "delete", f, NoDraft, 0)
<1>1. /\ waiting' = [waiting EXCEPT ![e][f] = NoDraft] /\ local' = [local EXCEPT ![e][f] = NoDraft]
      /\ removed' = [removed EXCEPT ![e] = @ \cup {f}] /\ net' \in {others, others \cup {r}}
      /\ UNCHANGED <<inFlight, api, status>>
  BY DEF Remove
<1>2. r \in Request /\ r.kind = "delete" /\ r.flow = f
  BY DraftTyped, NewRequestTyped
<1> HIDE DEF r
<1>3. NetTyped(net') /\ SavesIn(net') = SavesIn(net)
  BY <1>1, <1>2, Joins
<1>4. StoreTyped'
  BY <1>1, DraftTyped DEF StoreTyped
<1>5. \A e1 \in Editor, f1 \in Flow : Has(waiting'[e1][f1]) => Has(waiting[e1][f1]) \/ f1 \in inFlight[e1]
  BY <1>1, DraftTyped DEF StoreTyped
<1>6. Queue'
  BY <1>1, <1>3, <1>5, WaitsChange DEF Queue
<1> QED
  BY <1>3, <1>4, <1>6

LEMMA FlushKeeps ==
  ASSUME QueueInv, NEW r \in net, r.kind = "save", NEW stored \in Draft,
         NEW others, NetTyped(others), SavesIn(others) = SavesIn(net) \ {r},
         FlushNext(r, others, stored)
  PROVE  /\ NetTyped(net') /\ Queue'
         /\ waiting' \in [Editor -> [Flow -> Draft]] /\ inFlight' \in [Editor -> SUBSET Flow]
<1> USE DEF QueueInv
<1>1. r \in SavesIn(net) /\ r.by \in Editor /\ r.flow \in Flow
  BY DEF NetTyped, FlowsNamed, SavesIn, Request
<1>4. PICK e \in Editor, f \in Flow : e = r.by /\ f = r.flow
  BY <1>1
<1> DEFINE d == waiting[e][f]
<1>2. CASE Has(d)
  <2>2. PICK x \in Draft : x = Rebased(d, stored)
    <3>1. d \in Draft
      BY DEF StoreTyped
    <3>2. Rebased(d, stored) \in Draft
      BY <3>1 DEF Rebased, Draft
    <3> QED
      BY <3>2
  <2>3. PICK n : n = NewRequest(e, "save", f, x, 0)
    OBVIOUS
  <2>1. waiting' = [waiting EXCEPT ![e][f] = NoDraft] /\ net' = others \cup {n} /\ UNCHANGED inFlight
    BY <1>2, <1>4, <2>2, <2>3 DEF FlushNext
  <2>4. /\ NetTyped(others \cup {n}) /\ n.by = e /\ n.flow = f
        /\ SavesIn(others \cup {n}) = SavesIn(others) \cup {n}
    <3>1. NetTyped(others) /\ e \in Editor /\ f \in Flow /\ x \in Draft
      OBVIOUS
    <3>2. n \in Request /\ n.kind = "save" /\ n.by = e /\ n.flow = f
      BY <2>3, <3>1, NewRequestTyped
    <3> QED
      BY <3>1, <3>2, Joins
  <2>5. /\ waiting' \in [Editor -> [Flow -> Draft]]
        /\ \A e1 \in Editor, f1 \in Flow : Has(waiting'[e1][f1]) => Has(waiting[e1][f1])
    BY <2>1, DraftTyped DEF StoreTyped
  <2>6. QueueOK((SavesIn(net) \ {r}) \cup {n}, inFlight, waiting')
    BY <1>1, <1>4, <2>4, <2>5, SaveReplaced DEF StoreTyped, Queue
  <2>7. Queue'
    BY <2>1, <2>4, <2>6 DEF Queue
  <2> QED
    BY <2>1, <2>4, <2>5, <2>7 DEF StoreTyped
<1>3. CASE ~Has(d)
  <2>1. inFlight' = [inFlight EXCEPT ![e] = @ \ {f}] /\ net' = others /\ UNCHANGED waiting
    BY <1>3, <1>4 DEF FlushNext
  <2>2. QueueOK(SavesIn(net) \ {r}, [inFlight EXCEPT ![e] = @ \ {f}], waiting)
    BY <1>1, <1>3, <1>4, SaveEnds DEF StoreTyped, Queue
  <2> QED
    BY <2>1, <2>2 DEF StoreTyped, Queue
<1> QED
  BY <1>2, <1>3

-----------------------------------------------------------------------------
(* The server's steps.                                                     *)

RestTyped ==
  /\ server \in [Flow -> Draft] /\ board \in [Flow -> Nat] /\ served \in BOOLEAN
  /\ page \in [Editor -> Page] /\ suppressed \in [Editor -> SUBSET Flow]
  /\ captured \in [Editor -> [Flow -> Runtime]] /\ catalog \in [Editor -> [Flow -> Nat]]
  /\ owed \in [Editor -> Nat]
  /\ clock \in Nat /\ nextEdit \in Nat /\ events \in Nat /\ accepted \subseteq Nat
  /\ told \in [Editor -> SUBSET Flow]
SyncInv == QueueInv /\ RestTyped

LEMMA SyncMeans == SyncInv => TypeOK /\ OneSaveAtATime
  BY QueueMeans DEF SyncInv, QueueInv, RestTyped, StoreTyped, NetTyped, TypeOK

(* A request is served, answered with a failure or lost.                   *)
LEMMA PutKeeps ==
  ASSUME QueueInv, NEW r \in net, NEW q \in Request, Put(r, q), UNCHANGED store,
         q.kind = r.kind, q.by = r.by, q.flow = r.flow
  PROVE  QueueInv'
<1> USE DEF QueueInv
<1>1. net' = (net \ {r}) \cup {q} /\ r \in Request /\ (r.kind # "list" => r.flow \in Flow)
  BY DEF Put, NetTyped, FlowsNamed
<1>2. NetTyped(net')
  BY <1>1 DEF NetTyped, FlowsNamed
<1>3. StoreTyped' /\ UNCHANGED <<inFlight, waiting>>
  BY DEF StoreTyped, store
<1>4. CASE r.kind = "save"
  <2>1. SavesIn(net') = (SavesIn(net) \ {r}) \cup {q} /\ r \in SavesIn(net)
    BY <1>1, <1>4 DEF SavesIn
  <2>2. r.by \in Editor /\ r.flow \in Flow
    BY <1>1, <1>4 DEF Request
  <2>3. QueueOK((SavesIn(net) \ {r}) \cup {q}, inFlight, waiting)
    BY <2>1, <2>2, SaveReplaced DEF StoreTyped, Queue
  <2> QED
    BY <1>2, <1>3, <2>1, <2>3 DEF Queue
<1>5. CASE r.kind # "save"
  <2>1. SavesIn(net') = SavesIn(net)
    BY <1>1, <1>5 DEF SavesIn
  <2> QED
    BY <1>2, <1>3, <2>1 DEF Queue
<1> QED
  BY <1>4, <1>5

LEMMA DoneTyped ==
  ASSUME NEW r \in Request, NEW result \in {"none", "ok", "conflict", "missing", "error"}
  PROVE  LET q == Done(r, result) IN
         q \in Request /\ q.kind = r.kind /\ q.by = r.by /\ q.flow = r.flow
  BY DEF Done, Request

LEMMA ServeStep ==
  ASSUME SyncInv, NEW r \in net, Serve(r) \/ Fail(r)
  PROVE  SyncInv'
<1> USE DEF SyncInv
<1>1. r \in Request /\ (r.kind # "list" => r.flow \in Flow) /\ UNCHANGED store
  BY DEF QueueInv, NetTyped, FlowsNamed, Serve, Fail, ReadForSave, WriteSave, ServeDelete, ServeList,
         ServeDrop, NotServed
<1>2. UNCHANGED <<served, page, suppressed, captured, catalog, nextEdit, owed, told>>
  BY DEF Serve, Fail, ReadForSave, WriteSave, ServeDelete, ServeList, ServeDrop, NotServed
<1>3. ASSUME NEW result \in {"none", "ok", "conflict", "missing", "error"}, Put(r, Done(r, result))
      PROVE  QueueInv'
  <2>1. PICK q \in Request : q = Done(r, result) /\ q.kind = r.kind /\ q.by = r.by /\ q.flow = r.flow
    BY <1>1, DoneTyped
  <2> QED
    BY <1>1, <1>3, <2>1, PutKeeps
<1>4. CASE ReadForSave(r)
  <2>1. r.flow \in Flow
    BY <1>1, <1>4 DEF ReadForSave, Sent
  <2> DEFINE q == [r EXCEPT !.stage = "read", !.seen = server[r.flow]]
  <2>2. q \in Request /\ q.kind = r.kind /\ q.by = r.by /\ q.flow = r.flow
    BY <1>1, <2>1 DEF Request, RestTyped
  <2>3. Put(r, q) \/ Put(r, Done(r, "conflict"))
    BY <1>4 DEF ReadForSave
  <2> HIDE DEF q
  <2>4. QueueInv'
    BY <1>1, <1>3, <2>2, <2>3, PutKeeps
  <2> QED
    BY <1>2, <1>4, <2>4 DEF ReadForSave, RestTyped
<1>5. CASE WriteSave(r)
  <2>1. r.flow \in Flow /\ r.draft \in Draft /\ r.seen \in Draft
    BY <1>1, <1>5 DEF WriteSave, Request
  <2> DEFINE row == [r.draft EXCEPT !.rev = NextRevision(r.seen), !.at = Now]
             q == [Done(r, "ok") EXCEPT !.draft = row]
  <2>2. row \in Draft /\ row.edits \subseteq Nat /\ Now \in Nat
    <3>1. Now \in Nat
      BY DEF Now, RestTyped
    <3>2. NextRevision(r.seen) \in Nat
      BY <2>1 DEF NextRevision, Draft
    <3> QED
      BY <2>1, <3>1, <3>2 DEF Draft
  <2>3. \/ Put(r, q) /\ server' = [server EXCEPT ![r.flow] = row] /\ clock' = Now
             /\ accepted' = accepted \cup row.edits
        \/ Put(r, Done(r, "error")) /\ UNCHANGED <<server, clock, accepted>>
    BY <1>5 DEF WriteSave
  <2>4. UNCHANGED <<board, events>>
    BY <1>5 DEF WriteSave
  <2> HIDE DEF row
  <2>5. q \in Request /\ q.kind = r.kind /\ q.by = r.by /\ q.flow = r.flow
    BY <1>1, <2>2 DEF Done, Request
  <2> HIDE DEF q
  <2>6. QueueInv'
    BY <1>1, <1>3, <2>3, <2>5, PutKeeps
  <2>7. server' \in [Flow -> Draft] /\ clock' \in Nat /\ accepted' \subseteq Nat
    <3>1. row.edits \subseteq Nat /\ Now \in Nat
      BY <2>2 DEF Draft, Now, RestTyped
    <3>2. server \in [Flow -> Draft] /\ clock \in Nat /\ accepted \subseteq Nat
      BY DEF RestTyped
    <3> QED
      BY <2>1, <2>2, <2>3, <3>1, <3>2
  <2> QED
    BY <1>2, <2>4, <2>6, <2>7 DEF RestTyped
<1>6. CASE ServeDelete(r)
  <2>1. QueueInv'
    BY <1>3, <1>6 DEF ServeDelete
  <2>2. server' \in [Flow -> Draft]
    BY <1>6, DraftTyped DEF ServeDelete, RestTyped
  <2> QED
    BY <1>2, <1>6, <2>1, <2>2 DEF ServeDelete, RestTyped
<1>7. CASE ServeList(r)
  <2> DEFINE q == [Done(r, "ok") EXCEPT !.remote = server]
  <2>1. q \in Request /\ q.kind = r.kind /\ q.by = r.by /\ q.flow = r.flow
    BY <1>1 DEF Done, Request, RestTyped
  <2>2. Put(r, q)
    BY <1>7 DEF ServeList
  <2> HIDE DEF q
  <2>3. QueueInv'
    BY <1>1, <2>1, <2>2, PutKeeps
  <2> QED
    BY <1>2, <1>7, <2>3 DEF ServeList, RestTyped
<1>8. CASE ServeDrop(r)
  <2>1. QueueInv'
    BY <1>3, <1>8 DEF ServeDrop
  <2>2. board' \in [Flow -> Nat]
    BY <1>8 DEF ServeDrop, RestTyped
  <2> QED
    BY <1>2, <1>8, <2>1, <2>2 DEF ServeDrop, RestTyped
<1>9. CASE NotServed(r)
  <2>1. QueueInv'
    BY <1>3, <1>9 DEF NotServed
  <2> QED
    BY <1>2, <1>9, <2>1 DEF NotServed, RestTyped
<1>10. CASE Fail(r)
  <2>1. QueueInv'
    BY <1>3, <1>10 DEF Fail
  <2> QED
    BY <1>2, <1>10, <2>1 DEF Fail, RestTyped
<1> QED
  BY <1>4, <1>5, <1>6, <1>7, <1>8, <1>9, <1>10 DEF Serve

-----------------------------------------------------------------------------
(* The answers.                                                            *)

LEMMA Leaves ==
  ASSUME NetTyped(net), NEW r \in net
  PROVE  /\ NetTyped(net \ {r}) /\ r \in Request /\ (r.kind # "list" => r.flow \in Flow)
         /\ SavesIn(net \ {r}) = SavesIn(net) \ {r}
         /\ r.kind # "save" => SavesIn(net \ {r}) = SavesIn(net)
  BY DEF NetTyped, FlowsNamed, SavesIn

LEMMA SettleStep ==
  ASSUME SyncInv, NEW r \in net, Settle(r)
  PROVE  SyncInv'
<1> USE DEF SyncInv
<1>1. /\ r \in Request /\ r.kind = "save" /\ r.flow \in Flow /\ r.by \in Editor
      /\ NetTyped(net \ {r}) /\ SavesIn(net \ {r}) = SavesIn(net) \ {r}
  BY Leaves DEF QueueInv, Settle, SaveAccepted, SaveConflicts, SaveFails, Answer, Request
<1>2. UNCHANGED <<removed>> /\ RestTyped'
  <2>1. told' \in [Editor -> SUBSET Flow]
    <3>1. told' \in {told, [told EXCEPT ![r.by] = @ \ {r.flow}], [told EXCEPT ![r.by] = @ \cup {r.flow}]}
      BY DEF Settle, SaveAccepted, SaveConflicts, SaveFails
    <3> QED
      BY <1>1, <3>1 DEF RestTyped
  <2>2. UNCHANGED <<removed, server, board, served, page, suppressed, captured, catalog, clock, nextEdit,
                    events, owed, accepted>>
    BY DEF Settle, SaveAccepted, SaveConflicts, SaveFails
  <2> QED
    BY <2>1, <2>2 DEF RestTyped
<1>3. local[r.by][r.flow] \in Draft /\ r.draft \in Draft
  BY <1>1 DEF QueueInv, StoreTyped, Request
<1>4. /\ local' \in [Editor -> [Flow -> Draft]]
      /\ api' \in [Editor -> {"unknown", "enabled", "disabled"}]
      /\ status' \in [Editor -> {"synced", "unsynced", "conflict", "kept"}]
  <2>1. CASE SaveAccepted(r)
    <3>1. Stored(r) \in Draft
      BY <1>3 DEF Stored
    <3> QED
      BY <1>1, <2>1, <3>1 DEF SaveAccepted, QueueInv, StoreTyped
  <2>2. CASE SaveConflicts(r)
    BY <1>1, <2>2 DEF SaveConflicts, QueueInv, StoreTyped
  <2>3. CASE SaveFails(r)
    BY <1>1, <2>3 DEF SaveFails, QueueInv, StoreTyped
  <2> QED
    BY <2>1, <2>2, <2>3 DEF Settle
<1>5. PICK stored, others :
        /\ stored \in Draft /\ NetTyped(others) /\ SavesIn(others) = SavesIn(net) \ {r} /\ FlushNext(r, others, stored)
  <2>1. CASE SaveAccepted(r)
    <3>1. Stored(r) \in Draft /\ FlushNext(r, net \ {r}, Stored(r))
      BY <1>3, <2>1 DEF SaveAccepted, Stored
    <3> QED
      BY <1>1, <3>1
  <2>2. CASE SaveConflicts(r)
    <3> DEFINE refetch == NewRequest(r.by, "refetch", r.flow, NoDraft, 0)
               others == IF KeepsRuntime(r) THEN net \ {r} ELSE (net \ {r}) \cup {refetch}
    <3>1. FlushNext(r, others, local[r.by][r.flow])
      BY <2>2 DEF SaveConflicts
    <3>2. refetch \in Request /\ refetch.kind = "refetch" /\ refetch.flow = r.flow
      BY <1>1, DraftTyped, NewRequestTyped
    <3> HIDE DEF refetch
    <3>3. NetTyped((net \ {r}) \cup {refetch}) /\ SavesIn((net \ {r}) \cup {refetch}) = SavesIn(net) \ {r}
      BY <1>1, <3>2, Joins
    <3>4. NetTyped(others) /\ SavesIn(others) = SavesIn(net) \ {r}
      BY <1>1, <3>3
    <3> QED
      BY <1>3, <3>1, <3>4
  <2>3. CASE SaveFails(r)
    BY <1>1, <1>3, <2>3 DEF SaveFails
  <2> QED
    BY <2>1, <2>2, <2>3 DEF Settle
<1>6. /\ NetTyped(net') /\ Queue'
      /\ waiting' \in [Editor -> [Flow -> Draft]] /\ inFlight' \in [Editor -> SUBSET Flow]
  BY <1>1, <1>5, FlushKeeps
<1> QED
  BY <1>2, <1>4, <1>6 DEF QueueInv, StoreTyped

LEMMA AskedTyped ==
  ASSUME SyncInv, NEW e \in Editor, NEW route \in Flow \cup {New}, NEW others, NetTyped(others)
  PROVE  NetTyped(others \cup Asked(e, route)) /\ SavesIn(others \cup Asked(e, route)) = SavesIn(others)
<1> DEFINE r == NewRequest(e, "list", route, NoDraft, page[e].mount + 1)
<1>1. page[e].mount + 1 \in Nat
  BY DEF SyncInv, RestTyped, Page
<1>2. r \in Request /\ r.kind = "list"
  BY <1>1, DraftTyped, NewRequestTyped
<1>3. Asked(e, route) \in {{}, {r}}
  BY DEF Asked
<1> HIDE DEF r
<1> QED
  BY <1>2, <1>3, Joins

LEMMA RoutedTyped ==
  ASSUME NEW p \in Page, NEW route \in Flow \cup {New}, NEW prefer \in BOOLEAN
  PROVE  Routed(p, route, prefer) \in Page /\ Emptied(p) \in Page
<1>1. ASSUME NEW to \in Flow \cup {New}, NEW b \in BOOLEAN PROVE Routed(p, to, b) \in Page
  <2> DEFINE loaded == p.loaded /\ p.route = to /\ p.prefer = b
             ready == p.ready /\ p.route = to
             mount == IF p.route = to THEN p.mount ELSE p.mount + 1
             dirty == p.dirty \/ p.route # to
  <2>1. loaded \in BOOLEAN /\ ready \in BOOLEAN /\ dirty \in BOOLEAN /\ mount \in Nat
    BY DEF Page
  <2>2. Routed(p, to, b) = [p EXCEPT !.route = to, !.prefer = b, !.loaded = loaded, !.ready = ready,
                                     !.mount = mount, !.look = TRUE, !.dirty = dirty]
    BY DEF Routed
  <2> HIDE DEF loaded, ready, mount, dirty
  <2> QED
    BY <2>1, <2>2, ZenonT(30) DEF Page
<1>2. Routed(p, New, FALSE) \in Page
  BY <1>1
<1>3. \A q \in Page : [q EXCEPT !.flow = New, !.edits = {}, !.chat = 0, !.planning = FALSE,
                                !.drafting = TRUE, !.dirty = TRUE] \in Page
  BY DEF Page
<1> QED
  BY <1>1, <1>2, <1>3 DEF Emptied

LEMMA FlagsTyped ==
  ASSUME NEW p \in Page, NEW changes \in BOOLEAN
  PROVE  Relisted(p, changes) \in Page
<1>1. ASSUME NEW a \in BOOLEAN, NEW b \in BOOLEAN
      PROVE  [p EXCEPT !.ready = TRUE, !.dirty = TRUE, !.loaded = a, !.look = b] \in Page
  BY DEF Page
<1>2. PICK a \in BOOLEAN, b \in BOOLEAN : a = (p.loaded /\ ~changes) /\ b = (p.look \/ changes)
  BY DEF Page
<1>3. Relisted(p, changes) = [p EXCEPT !.ready = TRUE, !.dirty = TRUE, !.loaded = a, !.look = b]
  BY <1>2 DEF Relisted
<1> QED
  BY <1>1, <1>3

LEMMA ReopenTyped ==
  ASSUME NEW p \in Page
  PROVE  Reopened(p) \in Page
  BY DEF Reopened, Page

LEMMA ReadStep ==
  ASSUME SyncInv, NEW r \in net, DeleteAnswered(r) \/ ListAnswered(r) \/ RefetchAnswered(r)
  PROVE  SyncInv'
<1> USE DEF SyncInv
<1>1. /\ r \in Request /\ r.kind # "save" /\ r.by \in Editor /\ NetTyped(net \ {r})
      /\ SavesIn(net \ {r}) = SavesIn(net) /\ net' = net \ {r}
      /\ r.remote \in [Flow -> Draft] /\ r.flow \in Flow \cup {New}
  BY Leaves DEF QueueInv, DeleteAnswered, ListAnswered, RefetchAnswered, Answer, Request
<1>2. UNCHANGED <<server, board, served, waiting, inFlight, removed, suppressed, captured, catalog, clock,
                  nextEdit, events, owed, accepted, told>>
  BY DEF DeleteAnswered, ListAnswered, RefetchAnswered
<1>3. Queue' /\ NetTyped(net')
  BY <1>1, <1>2 DEF QueueInv, Queue
<1>4. /\ local' \in [Editor -> [Flow -> Draft]]
      /\ api' \in [Editor -> {"unknown", "enabled", "disabled"}]
      /\ status' \in [Editor -> {"synced", "unsynced", "conflict", "kept"}]
      /\ page' \in [Editor -> Page]
  <2>1. CASE DeleteAnswered(r)
    BY <1>1, <2>1 DEF DeleteAnswered, QueueInv, StoreTyped, RestTyped
  <2>2. CASE ListAnswered(r)
    <3>1. Merged(r.by, r) \in [Flow -> Draft] /\ local[r.by] \in [Flow -> Draft]
      BY <1>1 DEF Merged, QueueInv, StoreTyped
    <3> DEFINE merged == IF r.result = "ok" THEN Merged(r.by, r) ELSE local[r.by]
               changes == \E f \in Flow : Has(r.remote[f])
                                          /\ Replaces(local[r.by][f], r.remote[f], f = r.flow)
    <3>2. merged \in [Flow -> Draft]
      BY <3>1
    <3> HIDE DEF merged
    <3>3. CASE r.mount # page[r.by].mount
      <4>1. UNCHANGED <<page, local, api, status>>
        BY <2>2, <3>3 DEF ListAnswered
      <4> QED
        BY <4>1 DEF QueueInv, StoreTyped, RestTyped
    <3>4. CASE r.mount = page[r.by].mount
      <4>1. local' = [local EXCEPT ![r.by] = merged]
        BY <2>2, <3>4 DEF ListAnswered, merged
      <4>2. page' = [page EXCEPT ![r.by] = Relisted(page[r.by], changes)]
        BY <2>2, <3>4 DEF ListAnswered
      <4>3. api' \in [Editor -> {"unknown", "enabled", "disabled"}]
        BY <1>1, <2>2, <3>4, SMTT(30) DEF ListAnswered, QueueInv, StoreTyped
      <4>4. status' \in [Editor -> {"synced", "unsynced", "conflict", "kept"}]
        BY <1>1, <2>2, <3>4, SMTT(30) DEF ListAnswered, QueueInv, StoreTyped
      <4>5. page[r.by] \in Page /\ page \in [Editor -> Page] /\ changes \in BOOLEAN
        BY <1>1 DEF RestTyped
      <4> HIDE DEF changes
      <4>6. Relisted(page[r.by], changes) \in Page
        BY <4>5, FlagsTyped
      <4>9. page' \in [Editor -> Page]
        BY <1>1, <4>2, <4>5, <4>6
      <4>10. local' \in [Editor -> [Flow -> Draft]]
        BY <1>1, <3>2, <4>1 DEF QueueInv, StoreTyped
      <4> QED
        BY <4>3, <4>4, <4>9, <4>10
    <3> QED
      BY <3>3, <3>4
  <2>3. CASE RefetchAnswered(r)
    <3>1. r.flow \in Flow /\ r.remote[r.flow] \in Draft
      BY <1>1, <2>3 DEF RefetchAnswered, Answer, QueueInv, NetTyped, FlowsNamed
    <3>2. local' \in [Editor -> [Flow -> Draft]]
      BY <1>1, <2>3, <3>1 DEF RefetchAnswered, QueueInv, StoreTyped
    <3>3. page' \in [Editor -> Page]
      <4>1. page[r.by] \in Page /\ page \in [Editor -> Page]
        BY <1>1 DEF RestTyped
      <4>2. Reopened(page[r.by]) \in Page
        BY <4>1, ReopenTyped
      <4>3. page' = page \/ page' = [page EXCEPT ![r.by] = Reopened(page[r.by])]
        BY <2>3 DEF RefetchAnswered
      <4> QED
        BY <1>1, <4>1, <4>2, <4>3
    <3> QED
      BY <1>1, <2>3, <3>2, <3>3 DEF RefetchAnswered, QueueInv, StoreTyped
  <2> QED
    BY <2>1, <2>2, <2>3
<1>5. StoreTyped' /\ RestTyped'
  BY <1>2, <1>4 DEF QueueInv, StoreTyped, RestTyped
<1> QED
  BY <1>3, <1>5 DEF QueueInv

LEMMA FinishStep ==
  ASSUME SyncInv, NEW r \in net, FinishDelete(r)
  PROVE  SyncInv'
<1> USE DEF SyncInv
<1>1. /\ r \in Request /\ r.kind # "save" /\ r.by \in Editor /\ r.flow \in Flow /\ NetTyped(net \ {r})
      /\ SavesIn(net \ {r}) = SavesIn(net)
  BY Leaves DEF QueueInv, FinishDelete, Answer, Request
<1>2. UNCHANGED <<server, board, served, captured, clock, nextEdit, events, owed, accepted, told>>
  BY DEF FinishDelete
<1>3. CASE r.result = "ok"
  <2> DEFINE others == (net \ {r}) \cup Asked(r.by, New)
  <2>1. NetTyped(others) /\ SavesIn(others) = SavesIn(net)
    BY <1>1, AskedTyped
  <2>2. Remove(r.by, r.flow, others)
    BY <1>3 DEF FinishDelete
  <2> HIDE DEF others
  <2>3. QueueInv'
    BY <1>1, <2>1, <2>2, RemoveKeeps
  <2>4. Emptied(page[r.by]) \in Page
    BY <1>1, RoutedTyped DEF RestTyped
  <2>5. /\ page' = [page EXCEPT ![r.by] = Emptied(page[r.by])]
        /\ catalog' = [catalog EXCEPT ![r.by][r.flow] = 0] /\ UNCHANGED suppressed
    BY <1>3 DEF FinishDelete
  <2>6. page' \in [Editor -> Page]
    BY <1>1, <2>4, <2>5 DEF RestTyped
  <2>7. catalog' \in [Editor -> [Flow -> Nat]]
    BY <1>1, <2>5 DEF RestTyped
  <2> QED
    BY <1>2, <2>3, <2>5, <2>6, <2>7 DEF RestTyped
<1>4. CASE r.result # "ok"
  <2>1. /\ net' = net \ {r} /\ UNCHANGED <<page, catalog, store>>
        /\ suppressed' = [suppressed EXCEPT ![r.by] = @ \ {r.flow}]
    BY <1>4 DEF FinishDelete
  <2>2. QueueInv'
    BY <1>1, <2>1 DEF QueueInv, Queue, StoreTyped, store
  <2> QED
    BY <1>2, <2>1, <2>2 DEF RestTyped
<1> QED
  BY <1>3, <1>4

-----------------------------------------------------------------------------
(* The steps of the board and of the page's user.                          *)

(* A step that leaves the store alone and asks for nothing but a list.     *)
LEMMA AsksOnly ==
  ASSUME SyncInv, NEW others, NetTyped(others), SavesIn(others) = SavesIn(net),
         net' = others, UNCHANGED store
  PROVE  QueueInv'
<1>1. UNCHANGED <<local, waiting, inFlight, removed, api, status>>
  BY DEF store
<1> QED
  BY <1>1 DEF SyncInv, QueueInv, StoreTyped, Queue

LEMMA BoardStep ==
  ASSUME SyncInv, NEW f \in Flow, TouchBoard(f)
  PROVE  SyncInv'
<1>1. QueueInv'
  BY AsksOnly DEF SyncInv, QueueInv, TouchBoard
<1>2. RestTyped'
  BY DEF SyncInv, RestTyped, TouchBoard, Now
<1> QED
  BY <1>1, <1>2 DEF SyncInv

LEMMA LoadStep ==
  ASSUME SyncInv, NEW e \in Editor, LoadTasks(e)
  PROVE  SyncInv'
<1>1. QueueInv'
  BY AsksOnly DEF SyncInv, QueueInv, LoadTasks
<1> DEFINE seen == [f \in Flow |-> IF f \in suppressed[e] THEN 0 ELSE board[f]]
<1>2. seen \in [Flow -> Nat]
  BY DEF SyncInv, RestTyped
<1>3. /\ catalog' = [catalog EXCEPT ![e] = seen]
      /\ page' = [page EXCEPT ![e] = [page[e] EXCEPT !.look = TRUE]]
      /\ UNCHANGED <<server, board, served, suppressed, captured, clock, nextEdit, events, owed, accepted, told>>
  BY DEF LoadTasks
<1> HIDE DEF seen
<1>4. catalog' \in [Editor -> [Flow -> Nat]]
  BY <1>2, <1>3 DEF SyncInv, RestTyped
<1>5. page' \in [Editor -> Page]
  <2>1. page[e] \in Page /\ page \in [Editor -> Page]
    BY DEF SyncInv, RestTyped
  <2>2. [page[e] EXCEPT !.look = TRUE] \in Page
    BY <2>1 DEF Page
  <2> QED
    BY <1>3, <2>1, <2>2
<1> QED
  BY <1>1, <1>3, <1>4, <1>5 DEF SyncInv, RestTyped

LEMMA NavigateStep ==
  ASSUME SyncInv, NEW e \in Editor, OpenNew(e) \/ \E f \in Flow : OpenFlow(e, f)
  PROVE  SyncInv'
<1>1. PICK route \in Flow \cup {New}, prefer \in BOOLEAN :
        /\ page' = [page EXCEPT ![e] = Routed(page[e], route, prefer)]
        /\ net' = net \cup Asked(e, route)
  <2>1. CASE OpenNew(e)
    BY <2>1 DEF OpenNew
  <2>2. ASSUME NEW f \in Flow, OpenFlow(e, f)
        PROVE  \E route \in Flow \cup {New}, prefer \in BOOLEAN :
                 /\ page' = [page EXCEPT ![e] = Routed(page[e], route, prefer)]
                 /\ net' = net \cup Asked(e, route)
    <3> DEFINE b == catalog[e][f] > 0
    <3>1. b \in BOOLEAN
      OBVIOUS
    <3>2. page' = [page EXCEPT ![e] = Routed(page[e], f, b)] /\ net' = net \cup Asked(e, f)
      BY <2>2 DEF OpenFlow
    <3> HIDE DEF b
    <3> QED
      BY <3>1, <3>2
  <2> QED
    BY <2>1, <2>2
<1>2. /\ events' = events + 1
      /\ UNCHANGED <<server, board, served, store, suppressed, captured, catalog, clock, nextEdit, owed,
                     accepted, told>>
  BY DEF OpenNew, OpenFlow
<1>3. NetTyped(net \cup Asked(e, route)) /\ SavesIn(net \cup Asked(e, route)) = SavesIn(net)
  BY AskedTyped DEF SyncInv, QueueInv
<1>4. QueueInv'
  BY <1>1, <1>2, <1>3, AsksOnly
<1>5. page[e] \in Page /\ page \in [Editor -> Page]
  BY DEF SyncInv, RestTyped
<1>6. Routed(page[e], route, prefer) \in Page
  BY <1>5, RoutedTyped
<1>7. page' \in [Editor -> Page]
  BY <1>1, <1>5, <1>6
<1> QED
  BY <1>2, <1>4, <1>7 DEF SyncInv, RestTyped

LEMMA CreateStep ==
  ASSUME SyncInv, NEW e \in Editor, NEW f \in Flow, CreateBlankFlow(e, f)
  PROVE  SyncInv'
<1> DEFINE d == [NoDraft EXCEPT !.edits = {nextEdit}, !.at = Now]
           others == net \cup Asked(e, f)
<1>1. d \in Draft
  <2>1. Now \in Nat /\ nextEdit \in Nat
    BY DEF SyncInv, RestTyped, Now
  <2>2. ASSUME NEW edits \in SUBSET Nat, NEW at \in Nat
        PROVE  [NoDraft EXCEPT !.edits = edits, !.at = at] \in Draft
    BY DEF NoDraft, Draft
  <2>3. {nextEdit} \in SUBSET Nat
    BY <2>1
  <2> QED
    BY <2>1, <2>2, <2>3
<1>2. NetTyped(others) /\ SavesIn(others) = SavesIn(net)
  BY AskedTyped DEF SyncInv, QueueInv
<1>3. Persist(e, f, d, others) /\ page' = [page EXCEPT ![e] = Routed(page[e], f, FALSE)]
  BY DEF CreateBlankFlow
<1> HIDE DEF d, others
<1>4. QueueInv'
  BY <1>1, <1>2, <1>3, PersistKeeps DEF SyncInv
<1>5. page[e] \in Page /\ page \in [Editor -> Page]
  BY DEF SyncInv, RestTyped
<1>6. Routed(page[e], f, FALSE) \in Page
  BY <1>5, RoutedTyped
<1>7. page' \in [Editor -> Page]
  BY <1>3, <1>5, <1>6
<1>8. /\ clock' = clock + 1 /\ nextEdit' = nextEdit + 1 /\ events' = events + 1
      /\ UNCHANGED <<server, board, served, suppressed, captured, catalog, owed, accepted, told>>
  BY DEF CreateBlankFlow, Now
<1> QED
  BY <1>4, <1>7, <1>8 DEF SyncInv, RestTyped

LEMMA EditedTyped ==
  ASSUME NEW p \in Page, nextEdit \in Nat
  PROVE  Edited(p) \in Page /\ Prompted(p) \in Page
<1>1. PICK n \in Nat : n = p.chat + 1
  BY DEF Page
<1>2. PICK edits \in SUBSET Nat : edits = p.edits \cup {nextEdit}
  BY DEF Page
<1>3. Edited(p) = [p EXCEPT !.edits = edits, !.drafting = TRUE, !.look = TRUE, !.dirty = TRUE]
  BY <1>2 DEF Edited
<1>4. Prompted(p) = [p EXCEPT !.edits = edits, !.chat = n, !.planning = TRUE,
                              !.drafting = TRUE, !.look = TRUE, !.dirty = TRUE, !.click = TRUE]
  BY <1>1, <1>2 DEF Prompted
<1>5. Edited(p) \in Page
  BY <1>3 DEF Page
<1>6. Prompted(p) \in Page
  BY <1>4 DEF Page
<1> QED
  BY <1>5, <1>6

LEMMA RepliedTyped ==
  ASSUME NEW p \in Page
  PROVE  Replied(p) \in Page
<1>1. PICK n \in Nat : n = (IF p.chat < MaxChat THEN p.chat + 1 ELSE p.chat)
  BY DEF Page
<1>2. Replied(p) = [p EXCEPT !.chat = n, !.planning = FALSE, !.drafting = TRUE, !.look = TRUE,
                             !.dirty = TRUE]
  BY <1>1 DEF Replied
<1> QED
  BY <1>2 DEF Page

(* The user's steps that change only what the page shows.                  *)
LEMMA ShowStep ==
  ASSUME SyncInv, NEW e \in Editor, Edit(e) \/ Prompt(e) \/ Reply(e) \/ Rerender(e)
  PROVE  SyncInv'
<1>1. QueueInv'
  BY AsksOnly DEF SyncInv, QueueInv, Edit, Prompt, Reply, Rerender
<1>2. UNCHANGED <<server, board, served, suppressed, catalog, captured, clock, events, accepted, told>>
  BY DEF Edit, Prompt, Reply, Rerender
<1>3. page[e] \in Page /\ page \in [Editor -> Page] /\ nextEdit \in Nat /\ owed \in [Editor -> Nat]
  BY DEF SyncInv, RestTyped
<1>4. Edited(page[e]) \in Page /\ Replied(page[e]) \in Page
  BY <1>3, EditedTyped, RepliedTyped
<1>5. CASE Edit(e)
  <2>1. page' = [page EXCEPT ![e] = Edited(page[e])] /\ nextEdit' = nextEdit + 1 /\ UNCHANGED owed
    BY <1>5 DEF Edit
  <2>2. page' \in [Editor -> Page]
    BY <1>3, <1>4, <2>1
  <2> QED
    BY <1>1, <1>2, <1>3, <2>1, <2>2 DEF SyncInv, RestTyped
<1>6. CASE Prompt(e)
  <2>1. Prompted(page[e]) \in Page
    BY <1>3, EditedTyped
  <2>2. /\ page' = [page EXCEPT ![e] = Prompted(page[e])] /\ nextEdit' = nextEdit + 1
        /\ owed' = [owed EXCEPT ![e] = owed[e] + 1]
    BY <1>6 DEF Prompt
  <2>3. page' \in [Editor -> Page]
    BY <1>3, <2>1, <2>2
  <2>4. owed' \in [Editor -> Nat]
    BY <1>3, <2>2
  <2> QED
    BY <1>1, <1>2, <1>3, <2>2, <2>3, <2>4 DEF SyncInv, RestTyped
<1>7. CASE Reply(e)
  <2>1. /\ owed[e] > 0 /\ owed' = [owed EXCEPT ![e] = owed[e] - 1] /\ UNCHANGED nextEdit
        /\ page' = page \/ page' = [page EXCEPT ![e] = Replied(page[e])]
    BY <1>7 DEF Reply
  <2>2. page' \in [Editor -> Page]
    BY <1>3, <1>4, <2>1
  <2>3. owed' \in [Editor -> Nat]
    BY <1>3, <2>1
  <2> QED
    BY <1>1, <1>2, <1>3, <2>1, <2>2, <2>3 DEF SyncInv, RestTyped
<1>8. CASE Rerender(e)
  <2>1. page' = [page EXCEPT ![e].dirty = TRUE] /\ UNCHANGED <<nextEdit, owed>>
    BY <1>8 DEF Rerender
  <2>2. page' \in [Editor -> Page]
    BY <1>3, <2>1 DEF Page
  <2> QED
    BY <1>1, <1>2, <1>3, <2>1, <2>2 DEF SyncInv, RestTyped
<1> QED
  BY <1>5, <1>6, <1>7, <1>8

LEMMA StartDeleteStep ==
  ASSUME SyncInv, NEW e \in Editor, StartDelete(e)
  PROVE  SyncInv'
<1> DEFINE f == page[e].flow
<1>1. page[e] \in Page /\ page \in [Editor -> Page] /\ suppressed \in [Editor -> SUBSET Flow]
  BY DEF SyncInv, RestTyped
<1>2. f \in Flow
  BY <1>1 DEF StartDelete, Page
<1>3. /\ suppressed' = [suppressed EXCEPT ![e] = @ \cup {f}] /\ events' = events + 1
      /\ UNCHANGED <<server, board, served, captured, catalog, clock, nextEdit, owed, accepted, told>>
  BY DEF StartDelete
<1>4. suppressed' \in [Editor -> SUBSET Flow]
  BY <1>1, <1>2, <1>3
<1>5. CASE catalog[e][f] > 0
  <2> DEFINE r == NewRequest(e, "drop", f, NoDraft, 0)
  <2>1. net' = net \cup {r} /\ UNCHANGED <<page, store>>
    BY <1>5 DEF StartDelete
  <2>2. r \in Request /\ r.kind = "drop" /\ r.flow = f
    BY <1>2, DraftTyped, NewRequestTyped
  <2> HIDE DEF r
  <2>3. NetTyped(net \cup {r}) /\ SavesIn(net \cup {r}) = SavesIn(net)
    BY <1>2, <2>2, Joins DEF SyncInv, QueueInv
  <2>4. QueueInv'
    BY <2>1, <2>3, AsksOnly
  <2> QED
    BY <1>3, <1>4, <2>1, <2>4 DEF SyncInv, RestTyped
<1>6. CASE ~(catalog[e][f] > 0)
  <2> DEFINE others == net \cup Asked(e, New)
  <2>1. NetTyped(others) /\ SavesIn(others) = SavesIn(net)
    BY AskedTyped DEF SyncInv, QueueInv
  <2>2. Remove(e, f, others) /\ page' = [page EXCEPT ![e] = Emptied(page[e])]
    BY <1>6 DEF StartDelete
  <2> HIDE DEF others
  <2>3. QueueInv'
    BY <1>2, <2>1, <2>2, RemoveKeeps DEF SyncInv
  <2>4. Emptied(page[e]) \in Page
    BY <1>1, RoutedTyped
  <2>5. page' \in [Editor -> Page]
    BY <1>1, <2>2, <2>4
  <2> QED
    BY <1>3, <1>4, <2>3, <2>5 DEF SyncInv, RestTyped
<1> QED
  BY <1>5, <1>6

-----------------------------------------------------------------------------
(* The effects of a render, and the specification.                         *)

LEMMA RuntimeTyped ==
  ASSUME SyncInv, NEW e \in Editor, NEW p \in Page
  PROVE  WithRuntime(e, p) \in Page
<1>1. CASE p.flow # New /\ captured[e][p.flow].known
  <2>1. p.flow \in Flow
    BY <1>1 DEF Page
  <2>2. captured[e][p.flow] \in Runtime
    BY <2>1 DEF SyncInv, RestTyped
  <2>3. PICK n \in Nat, b \in BOOLEAN : n = captured[e][p.flow].chat /\ b = captured[e][p.flow].planning
    BY <2>2 DEF Runtime
  <2>4. WithRuntime(e, p) = [p EXCEPT !.chat = n, !.planning = b]
    BY <1>1, <2>3 DEF WithRuntime
  <2> QED
    BY <2>4 DEF Page
<1>2. CASE ~(p.flow # New /\ captured[e][p.flow].known)
  BY <1>2 DEF WithRuntime
<1> QED
  BY <1>1, <1>2

LEMMA FilledTyped ==
  ASSUME SyncInv, NEW e \in Editor, NEW p \in Page, NEW apply \in Applied
  PROVE  Filled(e, p, apply) \in Page
<1>1. RouteDraft(e) \in Draft
  <2>1. page[e].route = New \/ page[e].route \in Flow
    BY DEF SyncInv, RestTyped, Page
  <2> QED
    BY <2>1, DraftTyped DEF RouteDraft, SyncInv, QueueInv, StoreTyped
<1>2. ASSUME NEW to \in Flow \cup {New}, NEW d \in Draft
      PROVE  [p EXCEPT !.flow = to, !.edits = d.edits, !.chat = d.chat, !.planning = d.planning,
                       !.drafting = TRUE, !.hydOf = to, !.hydAt = d.at, !.skip = 2] \in Page
  <2>1. PICK edits \in SUBSET Nat, chat \in Nat, planning \in BOOLEAN, at \in Nat, skip \in 0 .. 2 :
          edits = d.edits /\ chat = d.chat /\ planning = d.planning /\ at = d.at /\ skip = 2
    BY DEF Draft
  <2>2. [p EXCEPT !.flow = to, !.edits = edits, !.chat = chat, !.planning = planning,
                  !.drafting = TRUE, !.hydOf = to, !.hydAt = at, !.skip = skip] \in Page
    BY DEF Page
  <2> QED
    BY <2>1, <2>2
<1>3. \A to \in Flow \cup {New} :
        [p EXCEPT !.flow = to, !.edits = {}, !.chat = 0, !.planning = FALSE, !.drafting = TRUE,
                  !.hydOf = to, !.hydAt = 0] \in Page
  BY DEF Page
<1>4. TasksOnly(p) \in Page
  <2>1. {0} \in SUBSET Nat
    OBVIOUS
  <2>2. PICK edits \in SUBSET Nat, chat \in Nat : edits = {0} /\ chat = 0
    BY <2>1
  <2>3. TasksOnly(p) = [p EXCEPT !.edits = edits, !.chat = chat]
    BY <2>2 DEF TasksOnly
  <2>4. [p EXCEPT !.edits = edits, !.chat = chat] \in Page
    BY DEF Page
  <2> QED
    BY <2>3, <2>4
<1>5. \A q \in Page, to \in Flow \cup {New} :
        [q EXCEPT !.flow = to, !.planning = FALSE, !.drafting = FALSE] \in Page
  BY DEF Page
<1>6. p.route \in Flow \cup {New}
  BY DEF Page
<1>7. FromDraft(e, p, RouteDraft(e)) \in Page
  BY <1>1, <1>2, <1>6, RuntimeTyped DEF FromDraft
<1>8. FromNothing(e, p) \in Page
  BY <1>3, <1>6, RuntimeTyped DEF FromNothing
<1>9. FromTasks(e, p) \in Page
  BY <1>4, <1>5, <1>6, RuntimeTyped DEF FromTasks
<1> QED
  BY <1>4, <1>7, <1>8, <1>9 DEF Filled, Applied

LEMMA CommittedTyped ==
  ASSUME SyncInv, NEW e \in Editor
  PROVE  Committed(e) \in Page
<1> DEFINE p == page[e]
           q == Hydrated(e)
<1>1. p \in Page
  BY DEF SyncInv, RestTyped
<1>2. Chosen(e).apply \in Applied /\ Chosen(e).load \in BOOLEAN
  BY DecisionTyped DEF Chosen, Keep, Applied
<1>3. q \in Page
  <2> DEFINE filled == Filled(e, p, Chosen(e).apply)
  <2>1. filled \in Page
    BY <1>1, <1>2, FilledTyped
  <2>2. q = [filled EXCEPT !.loaded = filled.loaded \/ Chosen(e).load]
    BY DEF Hydrated
  <2> HIDE DEF filled, q
  <2>3. PICK b \in BOOLEAN : b = (filled.loaded \/ Chosen(e).load)
    BY <1>2, <2>1 DEF Page
  <2> QED
    BY <2>1, <2>2, <2>3 DEF Page
<1>4. SkipsLeft(p, q) \in 0 .. 2
  BY <1>1, <1>3 DEF SkipsLeft, Page
<1>5. Now \in Nat
  BY DEF SyncInv, RestTyped, Now
<1> DEFINE loaded == q.loaded /\ ~Reloads(e, q)
           hydOf == IF Saves(e, q) THEN p.flow ELSE q.hydOf
           hydAt == IF Saves(e, q) THEN Now ELSE q.hydAt
           look == \/ <<p.flow, p.edits, p.chat, p.planning, p.drafting>>
                      # <<q.flow, q.edits, q.chat, q.planning, q.drafting>>
                   \/ Reloads(e, q) \/ Chosen(e).load
           dirty == Chosen(e).apply # "nothing"
<1>6. loaded \in BOOLEAN /\ look \in BOOLEAN /\ dirty \in BOOLEAN
  BY <1>2, <1>3 DEF Page
<1>7. hydOf \in Flow \cup {New} /\ hydAt \in Nat
  BY <1>1, <1>3, <1>5 DEF Page
<1>8. Committed(e) = [q EXCEPT !.skip = SkipsLeft(p, q), !.loaded = loaded, !.hydOf = hydOf,
                               !.hydAt = hydAt, !.look = look, !.dirty = dirty, !.click = FALSE]
  BY DEF Committed
<1> HIDE DEF p, q, loaded, hydOf, hydAt, look, dirty
<1> QED
  BY <1>3, <1>4, <1>6, <1>7, <1>8 DEF Page

LEMMA CommitStep ==
  ASSUME SyncInv, NEW e \in Editor, Commit(e)
  PROVE  SyncInv'
<1>1. page[e] \in Page /\ page \in [Editor -> Page]
  BY DEF SyncInv, RestTyped
<1>2. page' \in [Editor -> Page]
  BY <1>1, CommittedTyped DEF Commit
<1>3. captured' \in [Editor -> [Flow -> Runtime]]
  <2>1. captured \in [Editor -> [Flow -> Runtime]]
    BY DEF SyncInv, RestTyped
  <2>2. CASE Chosen(e).apply \notin {"nothing", "snapshot_canvas"} \/ page[e].flow = New
    BY <2>1, <2>2 DEF Commit, Remembered
  <2>3. CASE ~(Chosen(e).apply \notin {"nothing", "snapshot_canvas"} \/ page[e].flow = New)
    <3> DEFINE known == [chat |-> page[e].chat, planning |-> page[e].planning, known |-> TRUE]
    <3>1. known \in Runtime /\ page[e].flow \in Flow
      BY <1>1, <2>3 DEF Runtime, Page
    <3>2. captured' = [captured EXCEPT ![e][page[e].flow] = known]
      BY <2>3 DEF Commit, Remembered
    <3> HIDE DEF known
    <3> QED
      BY <2>1, <3>1, <3>2
  <2> QED
    BY <2>2, <2>3
<1>4. QueueInv' /\ clock' \in Nat
  <2>1. CASE Saves(e, Hydrated(e))
    <3>1. Persist(e, page[e].flow, Shown(e), net) /\ clock' = clock + 1
      BY <2>1 DEF Commit, Now
    <3>2. page[e].flow \in Flow
      BY <1>1, <2>1 DEF Saves, MaySave, Page
    <3>3. Shown(e) \in Draft
      <4>1. local[e][page[e].flow] \in Draft /\ clock + 1 \in Nat
        BY <3>2 DEF SyncInv, QueueInv, StoreTyped, RestTyped
      <4> QED
        BY <1>1, <4>1 DEF Shown, Now, Draft, Page
    <3>4. QueueInv'
      BY <3>1, <3>2, <3>3, PersistKeeps DEF SyncInv, QueueInv
    <3> QED
      BY <3>1, <3>4 DEF SyncInv, RestTyped
  <2>2. CASE ~Saves(e, Hydrated(e))
    BY <2>2, AsksOnly DEF Commit, SyncInv, QueueInv, RestTyped
  <2> QED
    BY <2>1, <2>2
<1>5. UNCHANGED <<server, board, served, suppressed, catalog, nextEdit, events, owed, accepted, told>>
  BY DEF Commit
<1> QED
  BY <1>2, <1>3, <1>4, <1>5 DEF SyncInv, RestTyped

LEMMA FirstAsked ==
  ASSUME NEW e \in Editor, NEW to \in Flow \cup {New}, NEW mount \in Nat
  PROVE  LET r == NewRequest(e, "list", to, NoDraft, mount) IN
         r \in Request /\ r.kind = "list"
  BY DraftTyped DEF NewRequest, Request

LEMMA InitHolds ==
  ASSUME Init
  PROVE  SyncInv
<1>1. PICK route \in [Editor -> Flow \cup {New}] :
        /\ page = [e \in Editor |-> BlankPage(route[e])]
        /\ net = {NewRequest(e, "list", route[e], NoDraft, 1) : e \in Editor}
  BY DEF Init
<1>2. PICK saved \in SUBSET Flow :
        server = [f \in Flow |-> IF f \in saved THEN [NoDraft EXCEPT !.edits = {1}, !.at = 1] ELSE NoDraft]
  BY DEF Init
<1>3. StoreTyped
  BY DraftTyped DEF Init, StoreTyped
<1>4. page \in [Editor -> Page]
  <2>1. \A to \in Flow \cup {New} : BlankPage(to) \in Page
    BY DEF BlankPage, Page
  <2> QED
    BY <1>1, <2>1
<1>5. server \in [Flow -> Draft]
  <2>1. ASSUME NEW edits \in SUBSET Nat, NEW at \in Nat
        PROVE  [NoDraft EXCEPT !.edits = edits, !.at = at] \in Draft
    BY DEF NoDraft, Draft
  <2>2. {1} \in SUBSET Nat /\ 1 \in Nat
    OBVIOUS
  <2>3. [NoDraft EXCEPT !.edits = {1}, !.at = 1] \in Draft
    BY <2>1, <2>2
  <2> HIDE DEF Draft
  <2> QED
    BY <1>2, <2>3, DraftTyped
<1>6. RestTyped
  <2>1. captured \in [Editor -> [Flow -> Runtime]]
    BY DEF Init, Unknown, Runtime
  <2>2. board \in [Flow -> Nat]
    <3>1. board \in [Flow -> 0 .. 1] /\ 0 .. 1 \subseteq Nat
      BY DEF Init
    <3> QED
      BY <3>1
  <2>3. {0, 1} \subseteq Nat
    OBVIOUS
  <2> QED
    BY <1>4, <1>5, <2>1, <2>2, <2>3 DEF Init, RestTyped
<1>7. \A r \in net : r \in Request /\ r.kind = "list"
  <2>1. ASSUME NEW e \in Editor
        PROVE  LET r == NewRequest(e, "list", route[e], NoDraft, 1) IN
               r \in Request /\ r.kind = "list"
    <3>1. PICK to \in Flow \cup {New}, mount \in Nat : to = route[e] /\ mount = 1
      OBVIOUS
    <3>2. LET r == NewRequest(e, "list", to, NoDraft, mount) IN r \in Request /\ r.kind = "list"
      BY FirstAsked
    <3> QED
      BY <3>1, <3>2
  <2> QED
    BY <1>1, <2>1, Zenon
<1>8. NetTyped(net) /\ SavesIn(net) = {}
  BY <1>7 DEF NetTyped, FlowsNamed, SavesIn
<1>9. Queue
  <2>1. \A e \in Editor, f \in Flow : f \notin inFlight[e] /\ ~Has(waiting[e][f])
    BY DraftTyped DEF Init, NoDrafts
  <2> QED
    BY <1>8, <2>1 DEF Queue, QueueOK, Of
<1> QED
  BY <1>3, <1>6, <1>8, <1>9 DEF SyncInv, QueueInv

LEMMA SyncStep == SyncInv /\ [Next]_vars => SyncInv'
<1> SUFFICES ASSUME SyncInv, [Next]_vars
             PROVE  SyncInv'
  OBVIOUS
<1>1. ASSUME NEW r \in net, Receive(r) \/ Serve(r) \/ Fail(r)
      PROVE  SyncInv'
  BY <1>1, SettleStep, ReadStep, FinishStep, ServeStep DEF Receive
<1>2. ASSUME NEW f \in Flow, TouchBoard(f)
      PROVE  SyncInv'
  BY <1>2, BoardStep
<1>3. ASSUME NEW e \in Editor,
             \/ LoadTasks(e) \/ OpenNew(e) \/ Edit(e) \/ Prompt(e) \/ Reply(e)
             \/ StartDelete(e) \/ Rerender(e) \/ Commit(e)
             \/ \E f \in Flow : OpenFlow(e, f) \/ CreateBlankFlow(e, f)
      PROVE  SyncInv'
  BY <1>3, LoadStep, NavigateStep, ShowStep, StartDeleteStep, CommitStep, CreateStep
<1>4. CASE UNCHANGED vars
  BY <1>4 DEF vars, store, SyncInv, QueueInv, StoreTyped, Queue, RestTyped
<1> QED
  BY <1>1, <1>2, <1>3, <1>4 DEF Next

LEMMA SyncHolds == Spec => []SyncInv
  BY InitHolds, SyncStep, PTL DEF Spec

(* Every variable keeps to its type: no revision, time or count of renders *)
(* left to skip leaves its range, and the draft a page sends is a draft.   *)
THEOREM TypeCorrect == Spec => []TypeOK
  BY SyncHolds, SyncMeans, PTL

(* A page never has two saves of one flow on their way, whatever is        *)
(* edited, deleted, refetched or lost meanwhile, and nothing waits behind  *)
(* a save that will not be answered (useFlowDraftSyncQueue).               *)
THEOREM OneSave == Spec => []OneSaveAtATime
  BY SyncHolds, SyncMeans, PTL

-----------------------------------------------------------------------------
(* What becomes of the edits in a store: what the server has sent or taken *)
(* is accepted, an answer tells whether there are drafts at all, and what  *)
(* is not accepted is on its way.                                          *)

SentBy(saves, e, f) == UNION {r.draft.edits : r \in Of(saves, e, f)}
Way(saves, waits, e, f) == SentBy(saves, e, f) \cup waits[e][f].edits

RequestHeld(r) ==
  /\ \A f \in Flow : r.remote[f].edits \subseteq accepted
  /\ r.kind = "save" /\ r.result = "ok" => r.draft.edits \subseteq accepted
  /\ r.kind # "drop" /\ r.result = "ok" => served
  /\ r.result = "missing" => ~served
  /\ r.stage = "read" => served
NetHeld(requests) == \A r \in requests : RequestHeld(r)
ServerHeld == \A f \in Flow : server[f].edits \subseteq accepted
ApiTold == \A e \in Editor : api[e] = "disabled" => ~served
RemovedHeld ==
  \A e \in Editor, f \in Flow :
    f \in removed[e] /\ api[e] # "disabled" => local[e][f].edits \subseteq accepted
Accounted(e, f) ==
  \/ api[e] = "disabled" \/ f \in told[e]
  \/ local[e][f].edits \subseteq accepted \cup Way(SavesIn(net), waiting, e, f)
AccountInv ==
  /\ NetHeld(net) /\ ServerHeld /\ ApiTold /\ RemovedHeld
  /\ \A e \in Editor, f \in Flow : Accounted(e, f)

LEMMA AccountMeans == AccountInv => EditsAccountedFor
<1> SUFFICES ASSUME AccountInv, NEW e \in Editor, NEW f \in Flow
             PROVE  api[e] # "disabled" /\ f \notin told[e]
                      => local[e][f].edits \subseteq accepted \cup OnTheirWay(e, f)
  BY DEF EditsAccountedFor
<1>1. Saving(e, f) = Of(SavesIn(net), e, f)
  BY DEF Saving, Of, SavesIn
<1>2. OnTheirWay(e, f) = Way(SavesIn(net), waiting, e, f)
  BY <1>1 DEF OnTheirWay, Way, SentBy
<1> QED
  BY <1>2 DEF AccountInv, Accounted

LEMMA WayKept ==
  ASSUME NEW saves, NEW later, NEW waits, NEW left, NEW e, NEW f,
         \A r \in Of(saves, e, f) :
           \E q \in Of(later, e, f) : r.draft.edits \subseteq q.draft.edits,
         waits[e][f].edits \subseteq left[e][f].edits
  PROVE  Way(saves, waits, e, f) \subseteq Way(later, left, e, f)
<1>1. SentBy(saves, e, f) \subseteq SentBy(later, e, f)
  BY DEF SentBy
<1> QED
  BY <1>1 DEF Way

LEMMA WayHolds ==
  ASSUME NEW saves, NEW waits, NEW e, NEW f
  PROVE  /\ \A r \in saves : r.by = e /\ r.flow = f => r.draft.edits \subseteq Way(saves, waits, e, f)
         /\ waits[e][f].edits \subseteq Way(saves, waits, e, f)
<1>1. ASSUME NEW r \in saves, r.by = e /\ r.flow = f, NEW x \in r.draft.edits
      PROVE  x \in Way(saves, waits, e, f)
  <2>1. r \in Of(saves, e, f)
    BY <1>1 DEF Of
  <2>2. x \in SentBy(saves, e, f)
    BY <2>1 DEF SentBy
  <2> QED
    BY <2>2 DEF Way
<1>2. waits[e][f].edits \subseteq Way(saves, waits, e, f)
  BY DEF Way
<1> QED
  BY <1>1, <1>2

LEMMA FreshHeld ==
  ASSUME NEW e, NEW kind, NEW f, NEW d, NEW mount
  PROVE  RequestHeld(NewRequest(e, kind, f, d, mount))
  BY DEF RequestHeld, NewRequest, NoDrafts, NoDraft

(* A step that leaves the store alone and takes no save away.              *)
LEMMA StoreKeepsAccount ==
  ASSUME AccountInv, UNCHANGED <<store, server, served, accepted, told>>,
         NetHeld(net'), SavesIn(net) \subseteq SavesIn(net')
  PROVE  AccountInv'
<1>1. UNCHANGED <<local, waiting, inFlight, removed, api, status>>
  BY DEF store
<1>2. NetHeld(net)' /\ ServerHeld' /\ ApiTold' /\ RemovedHeld'
  BY <1>1 DEF AccountInv, NetHeld, RequestHeld, ServerHeld, ApiTold, RemovedHeld
<1>3. ASSUME NEW e \in Editor, NEW f \in Flow
      PROVE  Accounted(e, f)'
  <2>1. Way(SavesIn(net), waiting, e, f) \subseteq Way(SavesIn(net'), waiting, e, f)
    BY WayKept DEF Of
  <2> QED
    BY <1>1, <2>1 DEF AccountInv, Accounted
<1> QED
  BY <1>2, <1>3 DEF AccountInv

(* A request is served, answered with a failure or lost.                   *)
LEMMA PutKeepsAccount ==
  ASSUME AccountInv, NEW r \in net, NEW q, Put(r, q), UNCHANGED <<store, served, told>>,
         q.kind = r.kind /\ q.by = r.by /\ q.flow = r.flow /\ q.draft.edits = r.draft.edits,
         accepted \subseteq accepted', ServerHeld', RequestHeld(q)'
  PROVE  AccountInv'
<1>1. UNCHANGED <<local, waiting, inFlight, removed, api, status>> /\ net' = (net \ {r}) \cup {q}
  BY DEF store, Put
<1>2. NetHeld(net)'
  <2>1. \A x \in net : RequestHeld(x)'
    BY DEF AccountInv, NetHeld, RequestHeld
  <2> QED
    BY <1>1, <2>1 DEF NetHeld
<1>3. ApiTold' /\ RemovedHeld'
  BY <1>1 DEF AccountInv, ApiTold, RemovedHeld
<1>4. ASSUME NEW e \in Editor, NEW f \in Flow
      PROVE  Accounted(e, f)'
  <2>1. \A x \in Of(SavesIn(net), e, f) :
          \E y \in Of(SavesIn(net'), e, f) : x.draft.edits \subseteq y.draft.edits
    BY <1>1 DEF Of, SavesIn
  <2>2. Way(SavesIn(net), waiting, e, f) \subseteq Way(SavesIn(net'), waiting, e, f)
    BY <2>1, WayKept
  <2> QED
    BY <1>1, <2>2 DEF AccountInv, Accounted
<1> QED
  BY <1>2, <1>3, <1>4 DEF AccountInv

LEMMA PersistAccounts ==
  ASSUME AccountInv, SyncInv, NEW e \in Editor, NEW f \in Flow, NEW d,
         NEW others, NetHeld(others), SavesIn(net) = SavesIn(others), Persist(e, f, d, others),
         UNCHANGED <<server, served, accepted, told>>
  PROVE  AccountInv'
<1> DEFINE r == NewRequest(e, "save", f, d, 0)
<1>1. RequestHeld(r) /\ r.kind = "save" /\ r.by = e /\ r.flow = f /\ r.draft = d
  BY FreshHeld DEF NewRequest
<1> HIDE DEF r
<1>2. /\ local \in [Editor -> [Flow -> Draft]] /\ waiting \in [Editor -> [Flow -> Draft]]
      /\ removed \in [Editor -> SUBSET Flow]
  BY DEF SyncInv, QueueInv, StoreTyped
<1>3. local' = [local EXCEPT ![e][f] = d] /\ UNCHANGED <<api, status>>
  BY DEF Persist
<1>4. /\ net' \in {others, others \cup {r}}
      /\ waiting' \in {waiting, [waiting EXCEPT ![e][f] = d]}
      /\ removed' \in {removed, [removed EXCEPT ![e] = @ \ {f}]}
      /\ api[e] = "disabled" => UNCHANGED removed
      /\ api[e] # "disabled" => removed' = [removed EXCEPT ![e] = @ \ {f}]
      /\ api[e] # "disabled" => waiting' = [waiting EXCEPT ![e][f] = d] \/ net' = others \cup {r}
  BY DEF Persist, r
<1>5. NetHeld(net)' /\ ServerHeld' /\ ApiTold'
  <2>1. NetHeld(net')
    BY <1>1, <1>4 DEF NetHeld
  <2> QED
    BY <1>3, <2>1 DEF AccountInv, NetHeld, RequestHeld, ServerHeld, ApiTold
<1>6. RemovedHeld'
  BY <1>2, <1>3, <1>4 DEF AccountInv, RemovedHeld
<1>7. ASSUME NEW e1 \in Editor, NEW f1 \in Flow
      PROVE  Accounted(e1, f1)'
  <2>1. SavesIn(net) \subseteq SavesIn(net') /\ (net' = others \cup {r} => r \in SavesIn(net'))
    BY <1>1, <1>4 DEF SavesIn
  <2>2. CASE e1 = e /\ f1 = f
    <3>1. local'[e][f] = d
      BY <1>2, <1>3
    <3>2. CASE waiting' = [waiting EXCEPT ![e][f] = d]
      <4>1. waiting'[e][f] = d
        BY <1>2, <3>2
      <4> QED
        BY <2>2, <3>1, <4>1, WayHolds DEF Accounted
    <3>3. CASE net' = others \cup {r}
      BY <1>1, <2>1, <2>2, <3>1, <3>3, WayHolds DEF Accounted
    <3> QED
      BY <1>3, <1>4, <2>2, <3>2, <3>3 DEF Accounted
  <2>3. CASE ~(e1 = e /\ f1 = f)
    <3>1. local'[e1][f1] = local[e1][f1] /\ waiting'[e1][f1] = waiting[e1][f1]
      BY <1>2, <1>3, <1>4, <2>3
    <3>2. Way(SavesIn(net), waiting, e1, f1) \subseteq Way(SavesIn(net'), waiting', e1, f1)
      BY <2>1, <3>1, WayKept DEF Of
    <3> QED
      BY <1>3, <3>1, <3>2 DEF AccountInv, Accounted
  <2> QED
    BY <2>2, <2>3
<1> QED
  BY <1>5, <1>6, <1>7 DEF AccountInv

LEMMA RemoveAccounts ==
  ASSUME AccountInv, SyncInv, NEW e \in Editor, NEW f \in Flow,
         NEW others, NetHeld(others), SavesIn(net) = SavesIn(others), Remove(e, f, others),
         UNCHANGED <<server, served, accepted, told>>
  PROVE  AccountInv'
<1> DEFINE r == NewRequest(e, "delete", f, NoDraft, 0)
<1>1. RequestHeld(r) /\ r.kind = "delete"
  BY FreshHeld DEF NewRequest
<1>2. /\ local \in [Editor -> [Flow -> Draft]] /\ waiting \in [Editor -> [Flow -> Draft]]
      /\ removed \in [Editor -> SUBSET Flow]
  BY DEF SyncInv, QueueInv, StoreTyped
<1>3. /\ waiting' = [waiting EXCEPT ![e][f] = NoDraft] /\ local' = [local EXCEPT ![e][f] = NoDraft]
      /\ removed' = [removed EXCEPT ![e] = @ \cup {f}] /\ net' \in {others, others \cup {r}}
      /\ UNCHANGED <<inFlight, api, status>>
  BY DEF Remove
<1> HIDE DEF r
<1>4. NetHeld(net)' /\ ServerHeld' /\ ApiTold'
  <2>1. NetHeld(net')
    BY <1>1, <1>3 DEF NetHeld
  <2> QED
    BY <1>3, <2>1 DEF AccountInv, NetHeld, RequestHeld, ServerHeld, ApiTold
<1>5. NoDraft.edits = {}
  BY DEF NoDraft
<1>6. RemovedHeld'
  BY <1>2, <1>3, <1>5 DEF AccountInv, RemovedHeld
<1>7. ASSUME NEW e1 \in Editor, NEW f1 \in Flow
      PROVE  Accounted(e1, f1)'
  <2>1. SavesIn(net) \subseteq SavesIn(net')
    BY <1>3 DEF SavesIn
  <2>2. CASE e1 = e /\ f1 = f
    <3>1. local'[e][f].edits = {}
      BY <1>2, <1>3, <1>5
    <3> QED
      BY <2>2, <3>1 DEF Accounted
  <2>3. CASE ~(e1 = e /\ f1 = f)
    <3>1. local'[e1][f1] = local[e1][f1] /\ waiting'[e1][f1] = waiting[e1][f1]
      BY <1>2, <1>3, <2>3
    <3>2. Way(SavesIn(net), waiting, e1, f1) \subseteq Way(SavesIn(net'), waiting', e1, f1)
      BY <2>1, <3>1, WayKept DEF Of
    <3> QED
      BY <1>3, <3>1, <3>2 DEF AccountInv, Accounted
  <2> QED
    BY <2>2, <2>3
<1> QED
  BY <1>4, <1>6, <1>7 DEF AccountInv

LEMMA ServeAccounts ==
  ASSUME AccountInv, SyncInv, NEW r \in net, Serve(r) \/ Fail(r)
  PROVE  AccountInv'
<1>1. r \in Request /\ RequestHeld(r) /\ (r.kind # "list" => r.flow \in Flow)
  BY DEF AccountInv, NetHeld, SyncInv, QueueInv, NetTyped, FlowsNamed
<1>2. UNCHANGED <<store, served, told>>
  BY DEF Serve, Fail, ReadForSave, WriteSave, ServeDelete, ServeList, ServeDrop, NotServed
<1>3. ASSUME NEW result \in {"ok", "conflict", "missing", "error"},
             Put(r, Done(r, result)), accepted' = accepted, ServerHeld',
             result = "ok" => r.kind # "save" /\ (r.kind # "drop" => served), result = "missing" => ~served
      PROVE  AccountInv'
  <2>0. PICK q : q = Done(r, result)
    OBVIOUS
  <2>1. /\ q.kind = r.kind /\ q.by = r.by /\ q.flow = r.flow /\ q.draft = r.draft
        /\ q.remote = r.remote /\ q.result = result /\ q.stage = "done"
    BY <1>1, <2>0 DEF Done, Request
  <2>2. Put(r, q)
    BY <1>3, <2>0
  <2>3. RequestHeld(q)'
    BY <1>1, <1>2, <1>3, <2>1 DEF RequestHeld
  <2> QED
    BY <1>2, <1>3, <2>1, <2>2, <2>3, PutKeepsAccount
<1>4. CASE ReadForSave(r)
  <2>0. PICK q : q = [r EXCEPT !.stage = "read", !.seen = server[r.flow]]
    OBVIOUS
  <2>1. ServerHeld' /\ accepted' = accepted
    BY <1>4 DEF ReadForSave, AccountInv, ServerHeld
  <2>2. /\ q.kind = r.kind /\ q.by = r.by /\ q.flow = r.flow /\ q.draft = r.draft
        /\ q.remote = r.remote /\ q.result = r.result
    BY <1>1, <2>0 DEF Request
  <2>3. Put(r, q) \/ Put(r, Done(r, "conflict"))
    BY <1>4, <2>0 DEF ReadForSave
  <2>4. RequestHeld(q)'
    BY <1>1, <1>2, <1>4, <2>1, <2>2 DEF RequestHeld, ReadForSave, Sent
  <2>5. CASE Put(r, q)
    BY <1>2, <2>1, <2>2, <2>4, <2>5, PutKeepsAccount
  <2> QED
    BY <1>3, <2>1, <2>3, <2>5
<1>5. CASE WriteSave(r)
  <2>0. PICK row, q : /\ row = [r.draft EXCEPT !.rev = NextRevision(r.seen), !.at = Now]
                      /\ q = [Done(r, "ok") EXCEPT !.draft = row]
    OBVIOUS
  <2>1. row.edits = r.draft.edits
    BY <1>1, <2>0 DEF Request, Draft
  <2>2. /\ q.kind = r.kind /\ q.by = r.by /\ q.flow = r.flow /\ q.draft = row
        /\ q.remote = r.remote /\ q.result = "ok" /\ q.stage = "done"
    BY <1>1, <2>0 DEF Done, Request
  <2>3. r.kind = "save" /\ r.stage = "read" /\ r.flow \in Flow
    BY <1>1, <1>5 DEF WriteSave
  <2>4. \/ Put(r, q) /\ server' = [server EXCEPT ![r.flow] = row] /\ accepted' = accepted \cup row.edits
        \/ Put(r, Done(r, "error")) /\ UNCHANGED <<server, accepted>>
    BY <1>5, <2>0 DEF WriteSave
  <2>5. CASE Put(r, q) /\ server' = [server EXCEPT ![r.flow] = row] /\ accepted' = accepted \cup row.edits
    <3>1. ServerHeld'
      BY <2>3, <2>5 DEF AccountInv, ServerHeld, SyncInv, RestTyped
    <3>2. served
      BY <2>3 DEF AccountInv, NetHeld, RequestHeld
    <3>3. RequestHeld(q)'
      BY <1>1, <1>2, <2>1, <2>2, <2>5, <3>2 DEF RequestHeld
    <3> QED
      BY <1>2, <2>1, <2>2, <2>5, <3>1, <3>3, PutKeepsAccount
  <2>6. CASE Put(r, Done(r, "error")) /\ UNCHANGED <<server, accepted>>
    BY <1>3, <2>6 DEF AccountInv, ServerHeld
  <2> QED
    BY <2>4, <2>5, <2>6
<1>6. CASE ServeDelete(r)
  <2>1. ServerHeld'
    BY <1>6 DEF ServeDelete, AccountInv, ServerHeld, NoDraft, SyncInv, RestTyped
  <2> QED
    BY <1>3, <1>6, <2>1 DEF ServeDelete, Sent
<1>7. CASE ServeList(r)
  <2>0. PICK q : q = [Done(r, "ok") EXCEPT !.remote = server]
    OBVIOUS
  <2>1. ServerHeld' /\ accepted' = accepted /\ Put(r, q) /\ served /\ r.kind # "save"
    BY <1>7, <2>0 DEF ServeList, Sent, AccountInv, ServerHeld
  <2>2. /\ q.kind = r.kind /\ q.by = r.by /\ q.flow = r.flow /\ q.draft = r.draft
        /\ q.remote = server /\ q.result = "ok" /\ q.stage = "done"
    BY <1>1, <2>0 DEF Done, Request
  <2>3. RequestHeld(q)'
    BY <1>2, <2>1, <2>2 DEF RequestHeld, AccountInv, ServerHeld
  <2> QED
    BY <1>2, <2>1, <2>2, <2>3, PutKeepsAccount
<1>8. CASE ServeDrop(r)
  <2>1. ServerHeld'
    BY <1>8 DEF ServeDrop, AccountInv, ServerHeld
  <2> QED
    BY <1>3, <1>8, <2>1 DEF ServeDrop
<1>9. CASE NotServed(r) \/ Fail(r)
  <2>1. ServerHeld' /\ accepted' = accepted
    BY <1>9 DEF NotServed, Fail, AccountInv, ServerHeld
  <2> QED
    BY <1>3, <1>9, <2>1 DEF NotServed, Fail
<1> QED
  BY <1>4, <1>5, <1>6, <1>7, <1>8, <1>9 DEF Serve

(* A save has settled: its flow is accepted, or reported, or it is known   *)
(* that there are no drafts; the other flows keep what is on its way.      *)
LEMMA SettleAccounts ==
  ASSUME AccountInv, SyncInv, NEW r \in net, Settle(r)
  PROVE  AccountInv'
<1>1. /\ r \in Request /\ RequestHeld(r) /\ r.kind = "save" /\ r.by \in Editor /\ r.flow \in Flow
      /\ r \in SavesIn(net)
  BY DEF AccountInv, NetHeld, SyncInv, QueueInv, NetTyped, FlowsNamed, Settle, SaveAccepted, SaveConflicts,
         SaveFails, Answer, Request, SavesIn
<1>2. PICK e \in Editor, f \in Flow : e = r.by /\ f = r.flow
  BY <1>1
<1>3. /\ local \in [Editor -> [Flow -> Draft]] /\ waiting \in [Editor -> [Flow -> Draft]]
      /\ api \in [Editor -> {"unknown", "enabled", "disabled"}] /\ told \in [Editor -> SUBSET Flow]
  BY DEF SyncInv, QueueInv, StoreTyped, RestTyped
<1>4. UNCHANGED <<server, served, accepted, removed>>
  BY DEF Settle, SaveAccepted, SaveConflicts, SaveFails
<1>5. PICK stored, others : FlushNext(r, others, stored) /\ NetHeld(others) /\ net \ {r} \subseteq others
  <2>1. NetHeld(net \ {r})
    BY DEF AccountInv, NetHeld
  <2>2. CASE SaveAccepted(r)
    BY <2>1, <2>2 DEF SaveAccepted
  <2>3. CASE SaveConflicts(r)
    <3>1. PICK q : q = NewRequest(r.by, "refetch", r.flow, NoDraft, 0)
      OBVIOUS
    <3>2. RequestHeld(q)
      BY <3>1, FreshHeld
    <3>3. NetHeld((net \ {r}) \cup {q})
      BY <2>1, <3>2 DEF NetHeld
    <3>4. \/ FlushNext(r, net \ {r}, local[r.by][r.flow])
          \/ FlushNext(r, (net \ {r}) \cup {q}, local[r.by][r.flow])
      BY <2>3, <3>1 DEF SaveConflicts
    <3> QED
      BY <2>1, <3>3, <3>4
  <2>4. CASE SaveFails(r)
    BY <2>1, <2>4 DEF SaveFails
  <2> QED
    BY <2>2, <2>3, <2>4 DEF Settle
<1>6. /\ waiting' \in {waiting, [waiting EXCEPT ![e][f] = NoDraft]} /\ NetHeld(net')
      /\ SavesIn(net) \ {r} \subseteq SavesIn(net')
  <2>1. PICK q : q = NewRequest(e, "save", f, Rebased(waiting[e][f], stored), 0)
    OBVIOUS
  <2>2. RequestHeld(q)
    BY <2>1, FreshHeld
  <2>3. waiting' \in {waiting, [waiting EXCEPT ![e][f] = NoDraft]} /\ net' \in {others, others \cup {q}}
    BY <1>2, <1>5, <2>1 DEF FlushNext
  <2> QED
    BY <1>5, <2>2, <2>3 DEF NetHeld, SavesIn
<1>7. NetHeld(net)' /\ ServerHeld'
  BY <1>4, <1>6 DEF AccountInv, NetHeld, RequestHeld, ServerHeld
<1>8. ASSUME NEW e1 \in Editor, NEW f1 \in Flow, ~(e1 = e /\ f1 = f)
      PROVE  /\ waiting'[e1][f1] = waiting[e1][f1]
             /\ Way(SavesIn(net), waiting, e1, f1) \subseteq Way(SavesIn(net'), waiting', e1, f1)
  <2>1. waiting'[e1][f1] = waiting[e1][f1]
    BY <1>3, <1>6, <1>8
  <2>2. Of(SavesIn(net), e1, f1) \subseteq Of(SavesIn(net'), e1, f1)
    BY <1>2, <1>6, <1>8 DEF Of
  <2> QED
    BY <2>1, <2>2, WayKept
<1>9. CASE SaveAccepted(r)
  <2>1. /\ served /\ r.draft.edits \subseteq accepted
        /\ local' = [local EXCEPT ![e][f] = Stored(r)] /\ api' = [api EXCEPT ![e] = "enabled"]
        /\ told' = [told EXCEPT ![e] = @ \ {f}]
    BY <1>1, <1>2, <1>9 DEF SaveAccepted, Answer, RequestHeld
  <2>2. \A e1 \in Editor : api[e1] # "disabled" /\ api'[e1] # "disabled"
    BY <1>3, <2>1 DEF AccountInv, ApiTold
  <2>3. Stored(r).edits \subseteq accepted
    BY <1>2, <2>1, <2>2 DEF Stored, AccountInv, RemovedHeld
  <2>4. \A e1 \in Editor, f1 \in Flow :
          /\ e1 = e /\ f1 = f => local'[e1][f1] = Stored(r)
          /\ ~(e1 = e /\ f1 = f) => local'[e1][f1] = local[e1][f1] /\ (f1 \in told[e1] => f1 \in told'[e1])
    BY <1>3, <2>1
  <2>5. ApiTold' /\ RemovedHeld'
    BY <1>4, <2>2, <2>3, <2>4 DEF AccountInv, ApiTold, RemovedHeld
  <2>6. ASSUME NEW e1 \in Editor, NEW f1 \in Flow
        PROVE  Accounted(e1, f1)'
    BY <1>4, <1>8, <2>2, <2>3, <2>4 DEF AccountInv, Accounted
  <2> QED
    BY <1>7, <2>5, <2>6 DEF AccountInv
<1>10. CASE SaveConflicts(r)
  <2>1. UNCHANGED <<local, api>> /\ told' = [told EXCEPT ![e] = @ \cup {f}]
    BY <1>2, <1>10 DEF SaveConflicts
  <2>2. ApiTold' /\ RemovedHeld'
    BY <1>4, <2>1 DEF AccountInv, ApiTold, RemovedHeld
  <2>3. \A e1 \in Editor, f1 \in Flow :
          (f1 \in told[e1] => f1 \in told'[e1]) /\ (e1 = e /\ f1 = f => f1 \in told'[e1])
    BY <1>3, <2>1
  <2>4. ASSUME NEW e1 \in Editor, NEW f1 \in Flow
        PROVE  Accounted(e1, f1)'
    BY <1>4, <1>8, <2>1, <2>3 DEF AccountInv, Accounted
  <2> QED
    BY <1>7, <2>2, <2>4 DEF AccountInv
<1>11. CASE SaveFails(r)
  <2>1. /\ UNCHANGED local /\ r.result \in {"missing", "error"}
        /\ api' = [api EXCEPT ![e] = IF r.result = "missing" THEN "disabled" ELSE @]
        /\ told' = [told EXCEPT ![e] = IF r.result = "error" THEN @ \cup {f} ELSE @]
    BY <1>2, <1>11 DEF SaveFails
  <2>2. \A e1 \in Editor :
          /\ api'[e1] = "disabled" => api[e1] = "disabled" \/ ~served
          /\ api[e1] = "disabled" => api'[e1] = "disabled"
          /\ e1 = e /\ r.result = "missing" => api'[e1] = "disabled"
    BY <1>1, <1>3, <2>1 DEF RequestHeld
  <2>3. ApiTold' /\ RemovedHeld'
    BY <1>4, <2>1, <2>2 DEF AccountInv, ApiTold, RemovedHeld
  <2>4. \A e1 \in Editor, f1 \in Flow :
          /\ f1 \in told[e1] => f1 \in told'[e1]
          /\ e1 = e /\ f1 = f /\ r.result = "error" => f1 \in told'[e1]
    BY <1>3, <2>1
  <2>5. ASSUME NEW e1 \in Editor, NEW f1 \in Flow
        PROVE  Accounted(e1, f1)'
    BY <1>4, <1>8, <2>1, <2>2, <2>4 DEF AccountInv, Accounted
  <2> QED
    BY <1>7, <2>3, <2>5 DEF AccountInv
<1> QED
  BY <1>9, <1>10, <1>11 DEF Settle

(* A list, a refetch or a deletion is answered: what comes into the store  *)
(* is the server's.                                                        *)
LEMMA ReadAccounts ==
  ASSUME AccountInv, SyncInv, NEW r \in net, DeleteAnswered(r) \/ ListAnswered(r) \/ RefetchAnswered(r)
  PROVE  AccountInv'
<1>1. /\ r \in Request /\ RequestHeld(r) /\ r.kind \in {"delete", "list", "refetch"} /\ r.by \in Editor
      /\ net' = net \ {r} /\ (r.kind # "list" => r.flow \in Flow)
  BY DEF AccountInv, NetHeld, SyncInv, QueueInv, NetTyped, FlowsNamed, DeleteAnswered, ListAnswered,
         RefetchAnswered, Answer, Request
<1>2. PICK e \in Editor : e = r.by
  BY <1>1
<1>3. /\ local \in [Editor -> [Flow -> Draft]]
      /\ api \in [Editor -> {"unknown", "enabled", "disabled"}]
  BY DEF SyncInv, QueueInv, StoreTyped
<1>4. UNCHANGED <<server, served, waiting, removed, accepted, told>>
  BY DEF DeleteAnswered, ListAnswered, RefetchAnswered
<1>5. \/ UNCHANGED api
      \/ r.result = "ok" /\ api' = [api EXCEPT ![e] = "enabled"]
      \/ r.result = "missing" /\ api' = [api EXCEPT ![e] = "disabled"]
  <2>1. api = [api EXCEPT ![e] = api[e]]
    BY <1>3
  <2>2. \/ UNCHANGED api
        \/ api' = [api EXCEPT ![e] = CASE r.result = "ok" -> "enabled"
                                       [] r.result = "missing" -> "disabled"
                                       [] OTHER -> @]
    BY <1>2 DEF DeleteAnswered, ListAnswered, RefetchAnswered
  <2> QED
    BY <2>1, <2>2
<1>6. \A e1 \in Editor :
        /\ api'[e1] = "disabled" => ~served
        /\ api[e1] = "disabled" => api'[e1] = "disabled"
  BY <1>1, <1>3, <1>5 DEF AccountInv, ApiTold, RequestHeld
<1>7. ASSUME NEW e1 \in Editor, NEW f1 \in Flow
      PROVE  local'[e1][f1] = local[e1][f1] \/ local'[e1][f1].edits \subseteq accepted
  <2>1. CASE DeleteAnswered(r)
    BY <2>1 DEF DeleteAnswered
  <2>2. CASE ListAnswered(r)
    <3>1. \/ UNCHANGED local
          \/ local' = [local EXCEPT ![e] = Merged(e, r)]
          \/ local' = [local EXCEPT ![e] = local[e]]
      BY <1>2, <2>2 DEF ListAnswered
    <3>2. Merged(e, r)[f1] \in {local[e][f1], r.remote[f1]}
      BY DEF Merged
    <3>3. r.remote[f1].edits \subseteq accepted
      BY <1>1 DEF RequestHeld
    <3> QED
      BY <1>3, <3>1, <3>2, <3>3
  <2>3. CASE RefetchAnswered(r)
    <3>1. PICK f \in Flow : f = r.flow
      BY <1>1, <2>3 DEF RefetchAnswered, Answer
    <3>2. \/ local' = [local EXCEPT ![e][f] = r.remote[f]]
          \/ local' = [local EXCEPT ![e][f] = local[e][f]]
      BY <1>2, <2>3, <3>1 DEF RefetchAnswered
    <3>3. local'[e1][f1] = local[e1][f1] \/ (f1 = f /\ local'[e1][f1] = r.remote[f])
      BY <1>3, <3>1, <3>2
    <3>4. r.remote[f1].edits \subseteq accepted
      BY <1>1 DEF RequestHeld
    <3> QED
      BY <3>3, <3>4
  <2> QED
    BY <2>1, <2>2, <2>3
<1>8. NetHeld(net)' /\ ServerHeld'
  BY <1>1, <1>4 DEF AccountInv, NetHeld, RequestHeld, ServerHeld
<1>9. ApiTold' /\ RemovedHeld'
  BY <1>4, <1>6, <1>7 DEF AccountInv, ApiTold, RemovedHeld
<1>10. ASSUME NEW e1 \in Editor, NEW f1 \in Flow
       PROVE  Accounted(e1, f1)'
  <2>1. SavesIn(net') = SavesIn(net)
    BY <1>1 DEF SavesIn
  <2> QED
    BY <1>4, <1>6, <1>7, <2>1 DEF AccountInv, Accounted
<1> QED
  BY <1>8, <1>9, <1>10 DEF AccountInv

LEMMA AskedHeld ==
  ASSUME NEW e, NEW route, NEW others
  PROVE  /\ NetHeld(others) => NetHeld(others \cup Asked(e, route))
         /\ SavesIn(others \cup Asked(e, route)) = SavesIn(others)
<1>1. PICK q : q = NewRequest(e, "list", route, NoDraft, page[e].mount + 1)
  OBVIOUS
<1>2. RequestHeld(q) /\ q.kind = "list"
  BY <1>1, FreshHeld DEF NewRequest
<1>3. Asked(e, route) \in {{}, {q}}
  BY <1>1 DEF Asked
<1> QED
  BY <1>2, <1>3 DEF NetHeld, SavesIn

LEMMA FinishAccounts ==
  ASSUME AccountInv, SyncInv, NEW r \in net, FinishDelete(r)
  PROVE  AccountInv'
<1>1. r.kind = "drop" /\ r.by \in Editor /\ r.flow \in Flow
  BY DEF SyncInv, QueueInv, NetTyped, FlowsNamed, FinishDelete, Answer, Request
<1>2. UNCHANGED <<server, served, accepted, told>>
  BY DEF FinishDelete
<1>3. NetHeld(net \ {r}) /\ SavesIn(net \ {r}) = SavesIn(net)
  BY <1>1 DEF AccountInv, NetHeld, SavesIn
<1>4. CASE r.result = "ok"
  <2>1. PICK others : others = (net \ {r}) \cup Asked(r.by, New)
    OBVIOUS
  <2>2. NetHeld(others) /\ SavesIn(others) = SavesIn(net)
    BY <1>3, <2>1, AskedHeld
  <2>3. Remove(r.by, r.flow, others)
    BY <1>4, <2>1 DEF FinishDelete
  <2> QED
    BY <1>1, <1>2, <2>2, <2>3, RemoveAccounts
<1>5. CASE r.result # "ok"
  <2>1. net' = net \ {r} /\ UNCHANGED store
    BY <1>5 DEF FinishDelete
  <2>2. NetHeld(net') /\ SavesIn(net) \subseteq SavesIn(net')
    BY <1>3, <2>1
  <2> QED
    BY <1>2, <2>1, <2>2, StoreKeepsAccount
<1> QED
  BY <1>4, <1>5

LEMMA PageAccounts ==
  ASSUME AccountInv, SyncInv, NEW e \in Editor,
         \/ LoadTasks(e) \/ OpenNew(e) \/ Edit(e) \/ Prompt(e) \/ Reply(e)
         \/ StartDelete(e) \/ Rerender(e) \/ Commit(e)
         \/ \E f \in Flow : OpenFlow(e, f) \/ CreateBlankFlow(e, f)
  PROVE  AccountInv'
<1>1. UNCHANGED <<server, served, accepted, told>>
  BY DEF LoadTasks, OpenNew, Edit, Prompt, Reply, StartDelete, Rerender, Commit, OpenFlow, CreateBlankFlow
<1>2. NetHeld(net)
  BY DEF AccountInv
<1>3. ASSUME NEW route, net' = net \cup Asked(e, route), UNCHANGED store
      PROVE  AccountInv'
  <2>1. NetHeld(net') /\ SavesIn(net) \subseteq SavesIn(net')
    BY <1>2, <1>3, AskedHeld
  <2> QED
    BY <1>1, <1>3, <2>1, StoreKeepsAccount
<1>4. CASE UNCHANGED <<net, store>>
  BY <1>1, <1>2, <1>4, StoreKeepsAccount
<1>5. CASE OpenNew(e) \/ \E f \in Flow : OpenFlow(e, f)
  BY <1>3, <1>5 DEF OpenNew, OpenFlow
<1>6. ASSUME NEW f \in Flow, CreateBlankFlow(e, f)
      PROVE  AccountInv'
  <2>1. PICK d, others : /\ d = [NoDraft EXCEPT !.edits = {nextEdit}, !.at = Now]
                         /\ others = net \cup Asked(e, f)
    OBVIOUS
  <2>2. Persist(e, f, d, others)
    BY <1>6, <2>1 DEF CreateBlankFlow
  <2>3. NetHeld(others) /\ SavesIn(net) = SavesIn(others)
    BY <1>2, <2>1, AskedHeld
  <2> QED
    BY <1>1, <2>2, <2>3, PersistAccounts
<1>7. CASE StartDelete(e)
  <2>1. PICK f : f = page[e].flow
    OBVIOUS
  <2>2. f \in Flow
    BY <1>7, <2>1 DEF StartDelete, SyncInv, RestTyped, Page
  <2>3. CASE catalog[e][f] > 0
    <3>1. PICK q : q = NewRequest(e, "drop", f, NoDraft, 0)
      OBVIOUS
    <3>2. RequestHeld(q)
      BY <3>1, FreshHeld
    <3>3. net' = net \cup {q} /\ UNCHANGED store
      BY <1>7, <2>1, <2>3, <3>1 DEF StartDelete
    <3>4. NetHeld(net') /\ SavesIn(net) \subseteq SavesIn(net')
      BY <1>2, <3>2, <3>3 DEF NetHeld, SavesIn
    <3> QED
      BY <1>1, <3>3, <3>4, StoreKeepsAccount
  <2>4. CASE ~(catalog[e][f] > 0)
    <3>1. PICK others : others = net \cup Asked(e, New)
      OBVIOUS
    <3>2. NetHeld(others) /\ SavesIn(net) = SavesIn(others)
      BY <1>2, <3>1, AskedHeld
    <3>3. Remove(e, f, others)
      BY <1>7, <2>1, <2>4, <3>1 DEF StartDelete
    <3> QED
      BY <1>1, <2>2, <3>2, <3>3, RemoveAccounts
  <2> QED
    BY <2>3, <2>4
<1>8. CASE Commit(e)
  <2>1. CASE Saves(e, Hydrated(e))
    <3>1. PICK f, d : f = page[e].flow /\ d = Shown(e)
      OBVIOUS
    <3>2. f \in Flow
      BY <2>1, <3>1 DEF Saves, MaySave, SyncInv, RestTyped, Page
    <3>3. Persist(e, f, d, net)
      BY <1>8, <2>1, <3>1 DEF Commit
    <3> QED
      BY <1>1, <1>2, <3>2, <3>3, PersistAccounts
  <2>2. CASE ~Saves(e, Hydrated(e))
    BY <1>4, <1>8, <2>2 DEF Commit
  <2> QED
    BY <2>1, <2>2
<1> QED
  BY <1>4, <1>5, <1>6, <1>7, <1>8 DEF LoadTasks, Edit, Prompt, Reply, Rerender

LEMMA AccountBegins == Init => AccountInv
<1> SUFFICES ASSUME Init
             PROVE  AccountInv
  OBVIOUS
<1>1. NetHeld(net)
  <2>1. PICK route : net = {NewRequest(e, "list", route[e], NoDraft, 1) : e \in Editor}
    BY DEF Init
  <2> QED
    BY <2>1, FreshHeld DEF NetHeld
<1>2. ServerHeld
  <2>1. PICK saved \in SUBSET Flow :
          server = [f \in Flow |-> IF f \in saved THEN [NoDraft EXCEPT !.edits = {1}, !.at = 1] ELSE NoDraft]
    BY DEF Init
  <2>2. NoDraft.edits = {} /\ [NoDraft EXCEPT !.edits = {1}, !.at = 1].edits = {1}
    BY DEF NoDraft
  <2>3. accepted = {0, 1}
    BY DEF Init
  <2> QED
    BY <2>1, <2>2, <2>3 DEF ServerHeld
<1>3. /\ \A e \in Editor : api[e] = "unknown"
      /\ \A e \in Editor, f \in Flow : local[e][f].edits = {}
  <2>1. local = [e \in Editor |-> NoDrafts] /\ api = [e \in Editor |-> "unknown"]
    BY DEF Init
  <2>2. \A f \in Flow : NoDrafts[f].edits = {}
    BY DEF NoDrafts, NoDraft
  <2> QED
    BY <2>1, <2>2
<1>4. ApiTold /\ RemovedHeld
  BY <1>3 DEF ApiTold, RemovedHeld
<1>5. \A e \in Editor, f \in Flow : Accounted(e, f)
  BY <1>3 DEF Accounted
<1> QED
  BY <1>1, <1>2, <1>4, <1>5 DEF AccountInv

LEMMA AccountStep == SyncInv /\ AccountInv /\ [Next]_vars => AccountInv'
<1> SUFFICES ASSUME SyncInv, AccountInv, [Next]_vars
             PROVE  AccountInv'
  OBVIOUS
<1>1. ASSUME NEW r \in net, Receive(r) \/ Serve(r) \/ Fail(r)
      PROVE  AccountInv'
  BY <1>1, SettleAccounts, ReadAccounts, FinishAccounts, ServeAccounts DEF Receive
<1>2. CASE UNCHANGED vars \/ \E f \in Flow : TouchBoard(f)
  <2>1. UNCHANGED <<store, server, served, accepted, told, net>>
    BY <1>2 DEF vars, store, TouchBoard
  <2> QED
    BY <2>1, StoreKeepsAccount DEF AccountInv
<1>3. ASSUME NEW e \in Editor,
             \/ LoadTasks(e) \/ OpenNew(e) \/ Edit(e) \/ Prompt(e) \/ Reply(e)
             \/ StartDelete(e) \/ Rerender(e) \/ Commit(e)
             \/ \E f \in Flow : OpenFlow(e, f) \/ CreateBlankFlow(e, f)
      PROVE  AccountInv'
  BY <1>3, PageAccounts
<1> QED
  BY <1>1, <1>2, <1>3 DEF Next

(* Whatever is edited, refused, lost, deleted or refetched, and however    *)
(* many flows and pages there are: an edit in a page's store was held by   *)
(* the server, or is on its way, or a failure of its flow was reported.    *)
THEOREM NothingLostSilently == Spec => []EditsAccountedFor
<1>1. Init => AccountInv
  BY AccountBegins
<1>2. SyncInv /\ AccountInv /\ [Next]_vars => AccountInv'
  BY AccountStep
<1> QED
  BY <1>1, <1>2, SyncHolds, AccountMeans, PTL DEF Spec

-----------------------------------------------------------------------------
(* What becomes of a wait for the planner.  A page remembers the wait once *)
(* its effects have run over it; until then the click that asked is still  *)
(* pending, and the page was loaded.                                       *)
Rendered(e) ==
  /\ ~page[e].loaded => page[e].look
  /\ page[e].click => page[e].look /\ page[e].loaded
  /\ page[e].planning => page[e].flow # New
  /\ \A f \in Flow : captured[e][f].planning => captured[e][f].known
RenderInv == \A e \in Editor : Rendered(e)
RemembersWait(e) ==
  page[e].planning /\ (page[e].click \/ captured[e][page[e].flow].planning)

(* Nothing but its effects fills a page.                                   *)
LEMMA OtherSteps ==
  ASSUME SyncInv, [Next]_vars, NEW e \in Editor, ~Commit(e), NEW p, p = page[e], NEW q, q = page'[e]
  PROVE  /\ captured'[e] = captured[e]
         /\ \/ /\ (q.loaded <=> p.loaded) /\ (p.look => q.look)
               /\ q.click => p.click \/ (~p.look /\ q.look)
            \/ q.look /\ (q.click => p.click /\ ~p.look)
            \/ q.look /\ ~q.click
         /\ \/ q.flow = p.flow /\ (q.planning <=> p.planning) /\ (q.click <=> p.click)
            \/ q.flow = p.flow /\ q.flow # New /\ q.planning /\ q.click
            \/ q.flow = p.flow /\ ~q.planning /\ owed'[e] < owed[e]
            \/ q.flow = New /\ ~q.planning
<1>1. p \in Page /\ page \in [Editor -> Page] /\ captured \in [Editor -> [Flow -> Runtime]] /\ owed[e] \in Nat
      /\ owed \in [Editor -> Nat]
  BY DEF SyncInv, RestTyped
<1>2. /\ p.loaded \in BOOLEAN /\ p.look \in BOOLEAN /\ p.click \in BOOLEAN /\ p.planning \in BOOLEAN
      /\ p.ready \in BOOLEAN /\ p.dirty \in BOOLEAN
  BY <1>1 DEF Page
<1>3. ASSUME NEW to, NEW b, NEW s, s = Routed(p, to, b)
      PROVE  s.look /\ s.flow = p.flow /\ (s.planning <=> p.planning) /\ (s.click <=> p.click)
  BY <1>1, <1>3 DEF Routed, Page
<1>4. ASSUME NEW s, s = Emptied(p)
      PROVE  s.look /\ s.flow = New /\ ~s.planning /\ (s.click <=> p.click)
  <2>1. PICK t : t = Routed(p, New, FALSE)
    OBVIOUS
  <2>2. s = [t EXCEPT !.flow = New, !.edits = {}, !.chat = 0, !.planning = FALSE, !.drafting = TRUE, !.dirty = TRUE]
    BY <1>4, <2>1 DEF Emptied
  <2>3. DOMAIN t = DOMAIN p
    BY <2>1 DEF Routed
  <2>4. t.look /\ (t.click <=> p.click)
    BY <1>3, <2>1
  <2> QED
    BY <1>1, <2>2, <2>3, <2>4 DEF Page
<1>5. CASE page'[e] = page[e] /\ captured'[e] = captured[e]
  BY <1>1, <1>2, <1>5
<1>6. ASSUME NEW r \in net, Receive(r)
      PROVE  \/ page'[e] = page[e]
             \/ ~p.click /\ (page'[e] = Emptied(p) \/ page'[e] = Reopened(p) \/ \E changes \in BOOLEAN : page'[e] = Relisted(p, changes))
  <2>1. UNCHANGED page \/ ~page[r.by].click
    BY <1>6 DEF Receive, Settle, SaveAccepted, SaveConflicts, SaveFails, DeleteAnswered, ListAnswered,
                RefetchAnswered, FinishDelete, Answer
  <2>2. \/ UNCHANGED page
        \/ page' = [page EXCEPT ![r.by] = Emptied(page[r.by])]
        \/ page' = [page EXCEPT ![r.by] = Reopened(page[r.by])]
        \/ \E changes \in BOOLEAN : page' = [page EXCEPT ![r.by] = Relisted(page[r.by], changes)]
    <3>1. CASE ListAnswered(r)
      <4>1. PICK changes \in BOOLEAN :
              changes = \E f \in Flow : Has(r.remote[f]) /\ Replaces(local[r.by][f], r.remote[f], f = r.flow)
        OBVIOUS
      <4>2. UNCHANGED page \/ page' = [page EXCEPT ![r.by] = Relisted(page[r.by], changes)]
        BY <3>1, <4>1 DEF ListAnswered
      <4> QED
        BY <4>2
    <3> QED
      BY <1>6, <3>1 DEF Receive, Settle, SaveAccepted, SaveConflicts, SaveFails, DeleteAnswered,
                        RefetchAnswered, FinishDelete
  <2> QED
    BY <1>1, <2>1, <2>2
<1>7. ASSUME ~p.click, NEW changes \in BOOLEAN, page'[e] = Reopened(p) \/ page'[e] = Relisted(p, changes)
      PROVE  /\ q.flow = p.flow /\ (q.planning <=> p.planning) /\ ~q.click
             /\ q.look \/ ((q.loaded <=> p.loaded) /\ (p.look => q.look))
  BY <1>1, <1>2, <1>7 DEF Reopened, Relisted, Page
<1>8. ASSUME NEW r \in net, Receive(r) \/ Serve(r) \/ Fail(r)
      PROVE  captured' = captured
  BY <1>8 DEF Receive, Settle, SaveAccepted, SaveConflicts, SaveFails, DeleteAnswered, ListAnswered,
              RefetchAnswered, FinishDelete, Serve, ReadForSave, WriteSave, ServeDelete, ServeList,
              ServeDrop, NotServed, Fail
<1>9. ASSUME NEW r \in net, Serve(r) \/ Fail(r)
      PROVE  page' = page
  BY <1>9 DEF Serve, ReadForSave, WriteSave, ServeDelete, ServeList, ServeDrop, NotServed, Fail
<1>10. CASE \E r \in net : Receive(r) \/ Serve(r) \/ Fail(r)
  <2>1. captured'[e] = captured[e]
    BY <1>8, <1>10
  <2>2. CASE page'[e] = page[e]
    BY <1>5, <2>1, <2>2
  <2>3. CASE ~p.click /\ page'[e] = Emptied(p)
    BY <1>2, <1>4, <2>1, <2>3
  <2> QED
    BY <1>6, <1>7, <1>9, <1>10, <2>1, <2>2, <2>3
<1>11. ASSUME NEW e1 \in Editor, e1 # e,
              \/ LoadTasks(e1) \/ OpenNew(e1) \/ Edit(e1) \/ Prompt(e1) \/ Reply(e1)
              \/ StartDelete(e1) \/ Rerender(e1) \/ Commit(e1)
              \/ \E f \in Flow : OpenFlow(e1, f) \/ CreateBlankFlow(e1, f)
       PROVE  page'[e] = page[e] /\ captured'[e] = captured[e]
  <2>1. \/ UNCHANGED page
        \/ \E s : page' = [page EXCEPT ![e1] = s]
    BY <1>11 DEF LoadTasks, OpenNew, Edit, Prompt, Reply, StartDelete, Rerender, Commit, OpenFlow, CreateBlankFlow
  <2>2. \/ UNCHANGED captured
        \/ \E f, s : captured' = [captured EXCEPT ![e1][f] = s]
    BY <1>11 DEF LoadTasks, OpenNew, Edit, Prompt, Reply, StartDelete, Rerender, Commit, Remembered, OpenFlow,
                 CreateBlankFlow
  <2> QED
    BY <1>1, <1>11, <2>1, <2>2
<1>12. ASSUME \/ LoadTasks(e) \/ OpenNew(e) \/ Edit(e) \/ Prompt(e) \/ Reply(e)
              \/ StartDelete(e) \/ Rerender(e)
              \/ \E f \in Flow : OpenFlow(e, f) \/ CreateBlankFlow(e, f)
       PROVE  captured'[e] = captured[e]
  BY <1>12 DEF LoadTasks, OpenNew, Edit, Prompt, Reply, StartDelete, Rerender, OpenFlow, CreateBlankFlow
<1>13. CASE LoadTasks(e) \/ Rerender(e)
  <2>1. page' = [page EXCEPT ![e].look = TRUE] \/ page' = [page EXCEPT ![e].dirty = TRUE]
    BY <1>13 DEF LoadTasks, Rerender
  <2>2. q = [p EXCEPT !.look = TRUE] \/ q = [p EXCEPT !.dirty = TRUE]
    BY <1>1, <2>1
  <2>3. /\ q.flow = p.flow /\ (q.planning <=> p.planning) /\ (q.click <=> p.click)
        /\ (q.loaded <=> p.loaded) /\ (p.look => q.look)
    BY <1>1, <1>2, <2>2 DEF Page
  <2> QED
    BY <1>12, <1>13, <2>3
<1>14. CASE OpenNew(e) \/ \E f \in Flow : OpenFlow(e, f) \/ CreateBlankFlow(e, f)
  <2>1. PICK to, b : page' = [page EXCEPT ![e] = Routed(page[e], to, b)]
    BY <1>14 DEF OpenNew, OpenFlow, CreateBlankFlow
  <2>2. q = Routed(p, to, b)
    BY <1>1, <2>1
  <2>3. ~p.look
    BY <1>14 DEF OpenNew, OpenFlow, CreateBlankFlow, Idle
  <2> QED
    BY <1>3, <1>12, <1>14, <2>2, <2>3
<1>15. CASE Edit(e)
  <2>1. q = Edited(p)
    BY <1>1, <1>15 DEF Edit
  <2>2. /\ q.flow = p.flow /\ (q.planning <=> p.planning) /\ (q.click <=> p.click)
        /\ (q.loaded <=> p.loaded) /\ q.look
    BY <1>1, <1>2, <2>1 DEF Edited, Page
  <2> QED
    BY <1>12, <1>15, <2>2
<1>16. CASE Prompt(e)
  <2>1. q = Prompted(p) /\ p.flow # New /\ ~p.look
    BY <1>1, <1>16 DEF Prompt, Idle
  <2>2. /\ q.flow = p.flow /\ q.planning /\ q.click /\ (q.loaded <=> p.loaded) /\ q.look
    BY <1>1, <1>2, <2>1 DEF Prompted, Page
  <2> QED
    BY <1>12, <1>16, <2>1, <2>2
<1>17. CASE Reply(e)
  <2>1. owed'[e] < owed[e] /\ (page' = page \/ q = Replied(p))
    BY <1>1, <1>17 DEF Reply
  <2>2. CASE q = Replied(p)
    <3>1. /\ q.flow = p.flow /\ ~q.planning /\ (q.click <=> p.click)
          /\ (q.loaded <=> p.loaded) /\ q.look
      BY <1>1, <1>2, <2>2 DEF Replied, Page
    <3> QED
      BY <1>12, <1>17, <2>1, <3>1
  <2> QED
    BY <1>5, <1>12, <1>17, <2>1, <2>2
<1>18. CASE StartDelete(e)
  <2>1. page' = page \/ q = Emptied(p)
    BY <1>1, <1>18 DEF StartDelete
  <2>2. ~p.look
    BY <1>18 DEF StartDelete, Idle
  <2> QED
    BY <1>4, <1>5, <1>12, <1>18, <2>1, <2>2
<1>19. CASE UNCHANGED vars \/ \E f \in Flow : TouchBoard(f)
  BY <1>5, <1>19 DEF vars, TouchBoard
<1> QED
  BY <1>5, <1>10, <1>11, <1>13, <1>14, <1>15, <1>16, <1>17, <1>18, <1>19 DEF Next

LEMMA DecisionLoads ==
  ASSUME NEW facts, facts.changed
  PROVE  Decide(facts).load
  BY DEF Decide, LoadNewRoute, LoadPreferred, LoadRoute, Load

(* The effects of a page: what they fill it with, and what they remember.  *)
Effects(e, p, q) ==
  /\ ~q.click /\ (~q.loaded => q.look)
  /\ \/ /\ q.flow = p.flow /\ q.planning = p.planning
        /\ captured' = IF p.flow = New THEN captured
                       ELSE [captured EXCEPT ![e][p.flow] =
                               [chat |-> p.chat, planning |-> p.planning, known |-> TRUE]]
     \/ /\ ~(p.loaded /\ p.planning) /\ captured' = captured /\ q.flow = p.route
        /\ p.route # New /\ captured[e][p.route].known
             => q.planning = captured[e][p.route].planning
        /\ ~(p.route # New /\ captured[e][p.route].known)
             => ~q.planning \/ (p.route # New /\ local[e][p.route].planning)

LEMMA CommitShows ==
  ASSUME SyncInv, NEW e \in Editor, Commit(e), Rendered(e), NEW p, p = page[e], NEW q, q = page'[e]
  PROVE  Effects(e, p, q)
<1>1. p \in Page /\ page \in [Editor -> Page]
  BY DEF SyncInv, RestTyped
<1>2. PICK c : c = Chosen(e)
  OBVIOUS
<1>3. c.apply \in Applied /\ c.load \in BOOLEAN
  BY <1>2, DecisionTyped DEF Chosen, Keep, Applied
<1>0. p.loaded \/ c.load
  <2>1. SUFFICES ASSUME ~p.loaded PROVE c.load
    OBVIOUS
  <2>2. p.look
    BY <2>1 DEF Rendered
  <2>3. c = Decide(PageFacts(e))
    BY <1>2, <2>1, <2>2 DEF Chosen, Hydrates
  <2>4. PageFacts(e).changed
    BY <2>1 DEF PageFacts
  <2> QED
    BY <2>3, <2>4, DecisionLoads
<1>4. PICK h : h = Filled(e, p, c.apply)
  OBVIOUS
<1>5. h \in Page
  BY <1>1, <1>3, <1>4, FilledTyped
<1>6. PICK t : t = Hydrated(e)
  OBVIOUS
<1>7. t = [h EXCEPT !.loaded = h.loaded \/ c.load]
  BY <1>2, <1>4, <1>6 DEF Hydrated
<1>8. /\ q.flow = t.flow /\ q.planning = t.planning /\ ~q.click
      /\ q.loaded <=> (t.loaded /\ ~Reloads(e, t))
      /\ (Reloads(e, t) \/ c.load) => q.look
  <2>1. q = Committed(e)
    BY <1>1 DEF Commit
  <2>2. PICK moved : moved = (<<p.flow, p.edits, p.chat, p.planning, p.drafting>>
                               # <<t.flow, t.edits, t.chat, t.planning, t.drafting>>)
    OBVIOUS
  <2>3. q = [t EXCEPT !.skip = SkipsLeft(p, t), !.loaded = t.loaded /\ ~Reloads(e, t),
                      !.hydOf = IF Saves(e, t) THEN p.flow ELSE t.hydOf,
                      !.hydAt = IF Saves(e, t) THEN Now ELSE t.hydAt,
                      !.look = moved \/ Reloads(e, t) \/ c.load, !.dirty = c.apply # "nothing", !.click = FALSE]
    BY <1>2, <1>6, <2>1, <2>2 DEF Committed
  <2>4. DOMAIN t = DOMAIN p /\ t.loaded \in BOOLEAN
    BY <1>1, <1>5, <1>7 DEF Page
  <2>5. PICK a, b, g, d : /\ a = SkipsLeft(p, t) /\ b = (IF Saves(e, t) THEN p.flow ELSE t.hydOf)
                          /\ g = (IF Saves(e, t) THEN Now ELSE t.hydAt) /\ d = (c.apply # "nothing")
    OBVIOUS
  <2>6. PICK l, k : l = (t.loaded /\ ~Reloads(e, t)) /\ k = (moved \/ Reloads(e, t) \/ c.load)
    OBVIOUS
  <2>7. q = [t EXCEPT !.skip = a, !.loaded = l, !.hydOf = b, !.hydAt = g, !.look = k, !.dirty = d, !.click = FALSE]
    BY <2>3, <2>5, <2>6
  <2>8. q.flow = t.flow /\ q.planning = t.planning /\ ~q.click /\ q.loaded = l /\ q.look = k
    BY ONLY <1>1, <2>4, <2>7 DEF Page
  <2> QED
    BY <2>4, <2>6, <2>8
<1>9. t.flow = h.flow /\ t.planning = h.planning /\ (t.loaded <=> h.loaded \/ c.load)
  BY <1>5, <1>7 DEF Page
<1>10. ASSUME NEW g, DOMAIN g = DOMAIN p, NEW s, s = WithRuntime(e, g)
       PROVE  /\ s.flow = g.flow /\ s.loaded = g.loaded
              /\ g.flow # New /\ captured[e][g.flow].known => s.planning = captured[e][g.flow].planning
              /\ ~(g.flow # New /\ captured[e][g.flow].known) => s.planning = g.planning
  BY <1>1, <1>10 DEF WithRuntime, Page
<1>11. CASE c.apply \in {"nothing", "snapshot_canvas"}
  <2>1. h.flow = p.flow /\ h.planning = p.planning /\ h.loaded = p.loaded
    BY <1>1, <1>4, <1>11 DEF Filled, TasksOnly, Page
  <2>2. captured' = IF p.flow = New THEN captured
                    ELSE [captured EXCEPT ![e][p.flow] =
                            [chat |-> p.chat, planning |-> p.planning, known |-> TRUE]]
    BY <1>2, <1>11 DEF Commit, Remembered
  <2> QED
    BY <1>0, <1>8, <1>9, <2>1, <2>2 DEF Effects
<1>12. CASE c.apply \notin {"nothing", "snapshot_canvas"}
  <2>1. captured' = captured
    BY <1>2, <1>12 DEF Commit, Remembered
  <2>2. ~(p.loaded /\ p.planning)
    BY <1>2, <1>12 DEF Chosen, Hydrates, Keep
  <2>3. PICK g : /\ h = WithRuntime(e, g) /\ DOMAIN g = DOMAIN p /\ g.flow = p.route /\ g.loaded = p.loaded
                 /\ g.planning = FALSE \/ g.planning = RouteDraft(e).planning
    <3>1. CASE c.apply = "draft"
      <4>1. PICK d : d = RouteDraft(e)
        OBVIOUS
      <4>2. PICK g : g = [p EXCEPT !.flow = p.route, !.edits = d.edits, !.chat = d.chat,
                                   !.planning = d.planning, !.drafting = TRUE,
                                   !.hydOf = p.route, !.hydAt = d.at, !.skip = 2]
        OBVIOUS
      <4>3. h = WithRuntime(e, g)
        BY <1>4, <3>1, <4>1, <4>2 DEF Filled, FromDraft
      <4>4. DOMAIN g = DOMAIN p /\ g.flow = p.route /\ g.loaded = p.loaded /\ g.planning = d.planning
        BY ONLY <1>1, <4>2 DEF Page
      <4> QED
        BY <4>1, <4>3, <4>4
    <3>2. CASE c.apply \in {"seeded", "empty"}
      <4>1. PICK g : g = [p EXCEPT !.flow = p.route, !.edits = {}, !.chat = 0, !.planning = FALSE,
                                   !.drafting = TRUE, !.hydOf = p.route, !.hydAt = 0]
        OBVIOUS
      <4>2. h = WithRuntime(e, g)
        BY <1>4, <3>2, <4>1 DEF Filled, FromNothing
      <4>3. DOMAIN g = DOMAIN p /\ g.flow = p.route /\ g.loaded = p.loaded /\ g.planning = FALSE
        BY ONLY <1>1, <4>1 DEF Page
      <4> QED
        BY <4>2, <4>3
    <3>3. CASE c.apply = "snapshot"
      <4>1. PICK g : g = [TasksOnly(p) EXCEPT !.flow = p.route, !.planning = FALSE, !.drafting = FALSE]
        OBVIOUS
      <4>2. h = WithRuntime(e, g)
        BY <1>4, <3>3, <4>1 DEF Filled, FromTasks
      <4>3. DOMAIN g = DOMAIN p /\ g.flow = p.route /\ g.loaded = p.loaded /\ g.planning = FALSE
        BY ONLY <1>1, <4>1 DEF Page, TasksOnly
      <4> QED
        BY <4>2, <4>3
    <3> QED
      BY <1>3, <1>12, <3>1, <3>2, <3>3 DEF Applied
  <2>5. g.planning => p.route # New /\ local[e][p.route].planning
    BY <2>3 DEF RouteDraft, NoDraft
  <2>6. h.flow = g.flow /\ h.loaded = g.loaded
    BY <1>10, <2>3
  <2> QED
    BY <1>0, <1>8, <1>9, <1>10, <2>1, <2>2, <2>3, <2>5, <2>6 DEF Effects
<1> QED
  BY <1>11, <1>12

LEMMA RenderStep == SyncInv /\ RenderInv /\ [Next]_vars => RenderInv'
<1> SUFFICES ASSUME SyncInv, RenderInv, [Next]_vars, NEW e \in Editor
             PROVE  Rendered(e)'
  BY DEF RenderInv
<1>1. PICK p, q : p = page[e] /\ q = page'[e]
  OBVIOUS
<1>2. Rendered(e) /\ captured \in [Editor -> [Flow -> Runtime]] /\ captured[e] \in [Flow -> Runtime]
  BY DEF RenderInv, SyncInv, RestTyped
<1>3. p.flow \in Flow \cup {New} /\ p.loaded \in BOOLEAN /\ p.look \in BOOLEAN /\ p.click \in BOOLEAN
  BY <1>1 DEF SyncInv, RestTyped, Page
<1>4. CASE Commit(e)
  <2>1. Effects(e, p, q)
    BY <1>1, <1>2, <1>4, CommitShows
  <2>2. \A f \in Flow : captured'[e][f].planning => captured'[e][f].known
    BY <1>2, <2>1 DEF Rendered, Effects
  <2>3. q.planning => q.flow # New
    BY <1>1, <1>2, <2>1 DEF Rendered, Effects
  <2> QED
    BY <1>1, <2>1, <2>2, <2>3 DEF Rendered, Effects
<1>5. CASE ~Commit(e)
  BY <1>1, <1>2, <1>3, <1>5, OtherSteps DEF Rendered
<1> QED
  BY <1>4, <1>5

LEMMA RenderHolds == Spec => []RenderInv
<1>1. Init => RenderInv
  <2> SUFFICES ASSUME Init, NEW e \in Editor
               PROVE  Rendered(e)
    BY DEF RenderInv
  <2>1. PICK to : page[e] = BlankPage(to)
    BY DEF Init
  <2>2. page[e].look /\ ~page[e].click /\ ~page[e].planning
    BY <2>1 DEF BlankPage
  <2>3. \A f \in Flow : ~captured[e][f].planning
    BY DEF Init, Unknown
  <2> QED
    BY <2>2, <2>3 DEF Rendered
<1> QED
  BY <1>1, RenderStep, SyncHolds, PTL DEF Spec

(* A wait that is remembered ends with an answer of the planner, or when   *)
(* the page shows another flow or another route.                           *)
LEMMA RememberedWaits ==
  ASSUME SyncInv, RenderInv, [Next]_vars, NEW e \in Editor, RemembersWait(e),
         page'[e].flow = page[e].flow, page'[e].route = page[e].route
  PROVE  page'[e].planning \/ owed'[e] < owed[e]
<1>1. PICK p, q : p = page[e] /\ q = page'[e]
  OBVIOUS
<1>2. Rendered(e) /\ p.flow # New /\ p.planning /\ q.flow = p.flow
  BY <1>1 DEF RenderInv, Rendered, RemembersWait
<1>3. CASE Commit(e)
  <2>1. \/ q.planning = p.planning
        \/ /\ ~(p.loaded /\ p.planning) /\ q.flow = p.route
           /\ p.route # New /\ captured[e][p.route].known
                => q.planning = captured[e][p.route].planning
    <3>1. Effects(e, p, q)
      BY <1>1, <1>2, <1>3, CommitShows
    <3> QED
      BY <3>1 DEF Effects
  <2>2. p.flow \in Flow
    BY <1>1, <1>2 DEF SyncInv, RestTyped, Page
  <2> QED
    BY <1>1, <1>2, <2>1, <2>2 DEF Rendered, RemembersWait
<1>4. CASE ~Commit(e)
  BY <1>1, <1>2, <1>4, OtherSteps
<1> QED
  BY <1>3, <1>4

(* However many pages show a flow: a page that asked the planner, or has   *)
(* rendered the wait once, goes on waiting whatever its store, the server  *)
(* and the board fill it with, until the planner answers or the page shows *)
(* something else (useFlowDraftHydrationRuntime.ts, plannerRuntimeByFlowId). *)
THEOREM RememberedWaitSurvives ==
  Spec => [][\A e \in Editor :
               RemembersWait(e) /\ page'[e].flow = page[e].flow /\ page'[e].route = page[e].route
                 => page'[e].planning \/ owed'[e] < owed[e]]_vars
<1>1. SyncInv /\ RenderInv /\ [Next]_vars =>
        [\A e \in Editor :
           RemembersWait(e) /\ page'[e].flow = page[e].flow /\ page'[e].route = page[e].route
             => page'[e].planning \/ owed'[e] < owed[e]]_vars
  BY RememberedWaits
<1> QED
  BY <1>1, SyncHolds, RenderHolds, PTL DEF Spec

(* A wait that comes from a draft: some page has saved it, and that page    *)
(* remembers the flow; so what a page shows without remembering it is of a  *)
(* flow another page has shown.                                             *)
KnownTo(f, runtimes) == \E e \in Editor : runtimes[e][f].known

RequestKnown(r, runtimes) ==
  /\ r.draft.planning => r.flow \in Flow /\ KnownTo(r.flow, runtimes)
  /\ \A f \in Flow : r.remote[f].planning => KnownTo(f, runtimes)
Known(requests, runtimes) == \A r \in requests : RequestKnown(r, runtimes)
StoreKnown(drafts, waits, rows, runtimes) ==
  \A e \in Editor, f \in Flow :
    drafts[e][f].planning \/ waits[e][f].planning \/ rows[f].planning => KnownTo(f, runtimes)
ShownWait(e) ==
  page[e].planning => \/ page[e].click \/ captured[e][page[e].flow].planning
                      \/ \E d \in Editor \ {e} : captured[d][page[e].flow].known
OwnInv ==
  /\ StoreKnown(local, waiting, server, captured) /\ Known(net, captured)
  /\ \A e \in Editor : ShownWait(e)

LEMMA FreshKnown ==
  ASSUME NEW e, NEW kind, NEW f, NEW d, NEW mount, NEW c,
         d.planning => f \in Flow /\ KnownTo(f, c)
  PROVE  RequestKnown(NewRequest(e, kind, f, d, mount), c)
  BY DEF RequestKnown, NewRequest, NoDrafts, NoDraft

LEMMA AskedKnown ==
  ASSUME NEW e, NEW route, NEW others, NEW c, Known(others, c)
  PROVE  Known(others \cup Asked(e, route), c)
<1>1. PICK q : q = NewRequest(e, "list", route, NoDraft, page[e].mount + 1)
  OBVIOUS
<1>2. RequestKnown(q, c)
  BY <1>1, FreshKnown DEF NoDraft
<1>3. Asked(e, route) \in {{}, {q}}
  BY <1>1 DEF Asked
<1> QED
  BY <1>2, <1>3 DEF Known

LEMMA PersistKnows ==
  ASSUME SyncInv, NEW e \in Editor, NEW f \in Flow, NEW d, NEW others, Persist(e, f, d, others),
         NEW c, Known(others, c), StoreKnown(local, waiting, server, c),
         d.planning => KnownTo(f, c)
  PROVE  StoreKnown(local', waiting', server, c) /\ Known(net', c)
<1>1. PICK q : q = NewRequest(e, "save", f, d, 0)
  OBVIOUS
<1>2. RequestKnown(q, c)
  BY <1>1, FreshKnown
<1>3. /\ local' = [local EXCEPT ![e][f] = d] /\ net' \in {others, others \cup {q}}
      /\ waiting' \in {waiting, [waiting EXCEPT ![e][f] = d]}
  BY <1>1 DEF Persist
<1>4. local \in [Editor -> [Flow -> Draft]] /\ waiting \in [Editor -> [Flow -> Draft]]
  BY DEF SyncInv, QueueInv, StoreTyped
<1>5. \A e1 \in Editor, f1 \in Flow :
        /\ local'[e1][f1] = local[e1][f1] \/ (f1 = f /\ local'[e1][f1] = d)
        /\ waiting'[e1][f1] = waiting[e1][f1] \/ (f1 = f /\ waiting'[e1][f1] = d)
  BY <1>3, <1>4
<1>6. StoreKnown(local', waiting', server, c)
  BY <1>5 DEF StoreKnown
<1>7. Known(net', c)
  BY <1>2, <1>3 DEF Known
<1> QED
  BY <1>6, <1>7

LEMMA RemoveKnows ==
  ASSUME SyncInv, NEW e \in Editor, NEW f \in Flow, NEW others, Remove(e, f, others),
         NEW c, Known(others, c), StoreKnown(local, waiting, server, c)
  PROVE  StoreKnown(local', waiting', server, c) /\ Known(net', c)
<1>1. PICK q : q = NewRequest(e, "delete", f, NoDraft, 0)
  OBVIOUS
<1>2. ~NoDraft.planning
  BY DEF NoDraft
<1>3. RequestKnown(q, c)
  BY <1>1, <1>2, FreshKnown
<1>4. /\ local' = [local EXCEPT ![e][f] = NoDraft] /\ waiting' = [waiting EXCEPT ![e][f] = NoDraft]
      /\ net' \in {others, others \cup {q}}
  BY <1>1 DEF Remove
<1>5. local \in [Editor -> [Flow -> Draft]] /\ waiting \in [Editor -> [Flow -> Draft]]
  BY DEF SyncInv, QueueInv, StoreTyped
<1>6. \A e1 \in Editor, f1 \in Flow :
        /\ local'[e1][f1] \in {local[e1][f1], NoDraft}
        /\ waiting'[e1][f1] \in {waiting[e1][f1], NoDraft}
  BY <1>4, <1>5
<1>7. StoreKnown(local', waiting', server, c)
  BY <1>2, <1>6 DEF StoreKnown
<1>8. Known(net', c)
  BY <1>3, <1>4 DEF Known
<1> QED
  BY <1>7, <1>8

LEMMA ServeKnows ==
  ASSUME SyncInv, NEW r \in net, Serve(r) \/ Fail(r),
         NEW c, Known(net, c), StoreKnown(local, waiting, server, c)
  PROVE  StoreKnown(local', waiting', server', c) /\ Known(net', c)
<1>1. r \in Request /\ RequestKnown(r, c) /\ (r.kind # "list" => r.flow \in Flow) /\ server \in [Flow -> Draft]
  BY DEF Known, SyncInv, QueueInv, RestTyped, NetTyped, FlowsNamed
<1>2. UNCHANGED <<local, waiting>>
  BY DEF Serve, Fail, ReadForSave, WriteSave, ServeDelete, ServeList, ServeDrop, NotServed, store
<1>3. ASSUME NEW q, Put(r, q), RequestKnown(q, c)
      PROVE  Known(net', c)
  BY <1>3 DEF Put, Known
<1>4. ASSUME NEW q, q.draft = r.draft, q.flow = r.flow, q.remote = r.remote
      PROVE  RequestKnown(q, c)
  BY <1>1, <1>4 DEF RequestKnown
<1>5. ASSUME NEW result, Put(r, Done(r, result))
      PROVE  Known(net', c)
  <2>1. PICK q : q = Done(r, result)
    OBVIOUS
  <2>2. q.draft = r.draft /\ q.flow = r.flow /\ q.remote = r.remote
    BY <1>1, <2>1 DEF Done, Request
  <2> QED
    BY <1>3, <1>4, <1>5, <2>1, <2>2
<1>6. CASE UNCHANGED server /\ \E result : Put(r, Done(r, result))
  BY <1>2, <1>5, <1>6
<1>7. CASE ReadForSave(r)
  <2>1. PICK q : q = [r EXCEPT !.stage = "read", !.seen = server[r.flow]]
    OBVIOUS
  <2>2. q.draft = r.draft /\ q.flow = r.flow /\ q.remote = r.remote
    BY <1>1, <2>1 DEF Request
  <2>3. UNCHANGED server /\ (Put(r, q) \/ Put(r, Done(r, "conflict")))
    BY <1>7, <2>1 DEF ReadForSave
  <2> QED
    BY <1>2, <1>3, <1>4, <1>6, <2>2, <2>3
<1>8. CASE WriteSave(r)
  <2>1. PICK row, q : /\ row = [r.draft EXCEPT !.rev = NextRevision(r.seen), !.at = Now]
                      /\ q = [Done(r, "ok") EXCEPT !.draft = row]
    OBVIOUS
  <2>2. row.planning = r.draft.planning
    BY <1>1, <2>1 DEF Request, Draft
  <2>3. q.draft = row /\ q.flow = r.flow /\ q.remote = r.remote
    BY <1>1, <2>1 DEF Done, Request
  <2>4. RequestKnown(q, c)
    BY <1>1, <2>2, <2>3 DEF RequestKnown
  <2>5. \/ UNCHANGED server /\ Put(r, Done(r, "error"))
        \/ Put(r, q) /\ server' = [server EXCEPT ![r.flow] = row]
    BY <1>8, <2>1 DEF WriteSave
  <2>6. CASE Put(r, q) /\ server' = [server EXCEPT ![r.flow] = row]
    <3>1. \A f \in Flow : server'[f] = server[f] \/ (f = r.flow /\ server'[f] = row)
      BY <1>1, <2>6
    <3>2. StoreKnown(local', waiting', server', c)
      BY <1>1, <1>2, <2>2, <3>1 DEF StoreKnown, RequestKnown
    <3> QED
      BY <1>3, <2>4, <2>6, <3>2
  <2> QED
    BY <1>6, <2>5, <2>6
<1>9. CASE ServeDelete(r)
  <2>1. server' = [server EXCEPT ![r.flow] = NoDraft] /\ Put(r, Done(r, "ok")) /\ ~NoDraft.planning
    BY <1>9 DEF ServeDelete, NoDraft
  <2>2. \A f \in Flow : server'[f] \in {server[f], NoDraft}
    BY <1>1, <2>1
  <2>3. StoreKnown(local', waiting', server', c)
    BY <1>2, <2>1, <2>2 DEF StoreKnown
  <2> QED
    BY <1>5, <2>1, <2>3
<1>10. CASE ServeList(r)
  <2>1. PICK q : q = [Done(r, "ok") EXCEPT !.remote = server]
    OBVIOUS
  <2>2. q.draft = r.draft /\ q.flow = r.flow /\ q.remote = server
    BY <1>1, <2>1 DEF Done, Request
  <2>3. RequestKnown(q, c)
    <3>1. r.by \in Editor
      BY <1>1 DEF Request
    <3> QED
      BY <1>1, <2>2, <3>1 DEF RequestKnown, StoreKnown
  <2>4. UNCHANGED server /\ Put(r, q)
    BY <1>10, <2>1 DEF ServeList
  <2> QED
    BY <1>2, <1>3, <2>3, <2>4
<1>11. CASE ServeDrop(r) \/ NotServed(r) \/ Fail(r)
  BY <1>6, <1>11 DEF ServeDrop, NotServed, Fail
<1> QED
  BY <1>7, <1>8, <1>9, <1>10, <1>11 DEF Serve

LEMMA SettleKnows ==
  ASSUME SyncInv, NEW r \in net, Settle(r),
         NEW c, Known(net, c), StoreKnown(local, waiting, server, c)
  PROVE  StoreKnown(local', waiting', server', c) /\ Known(net', c)
<1>1. /\ r \in Request /\ RequestKnown(r, c) /\ r.flow \in Flow /\ r.by \in Editor
      /\ local \in [Editor -> [Flow -> Draft]] /\ waiting \in [Editor -> [Flow -> Draft]]
  BY DEF Known, SyncInv, QueueInv, StoreTyped, NetTyped, FlowsNamed, Settle, SaveAccepted, SaveConflicts,
         SaveFails, Answer, Request
<1>2. PICK e, f, d : e = r.by /\ f = r.flow /\ d = waiting[r.by][r.flow]
  OBVIOUS
<1>3. e \in Editor /\ f \in Flow /\ d \in Draft /\ (d.planning => KnownTo(f, c))
  <2>1. r.draft.planning \in BOOLEAN /\ e \in Editor /\ f \in Flow /\ d \in Draft
    BY <1>1, <1>2 DEF Request, Draft
  <2>2. d.planning => KnownTo(f, c)
    BY <1>2, <2>1 DEF StoreKnown
  <2> QED
    BY <2>1, <2>2
<1>4. PICK stored, others : FlushNext(r, others, stored) /\ Known(others, c)
  <2>1. Known(net \ {r}, c)
    BY DEF Known
  <2>2. CASE SaveAccepted(r)
    BY <2>1, <2>2 DEF SaveAccepted
  <2>3. CASE SaveConflicts(r)
    <3>1. PICK q : q = NewRequest(r.by, "refetch", r.flow, NoDraft, 0)
      OBVIOUS
    <3>2. ~NoDraft.planning
      BY DEF NoDraft
    <3>3. RequestKnown(q, c)
      BY <3>1, <3>2, FreshKnown
    <3>4. Known((net \ {r}) \cup {q}, c)
      BY <2>1, <3>3 DEF Known
    <3>5. \/ FlushNext(r, net \ {r}, local[r.by][r.flow])
          \/ FlushNext(r, (net \ {r}) \cup {q}, local[r.by][r.flow])
      BY <2>3, <3>1 DEF SaveConflicts
    <3> QED
      BY <2>1, <3>4, <3>5
  <2>4. CASE SaveFails(r)
    BY <2>1, <2>4 DEF SaveFails
  <2> QED
    BY <2>2, <2>3, <2>4 DEF Settle
<1>5. /\ waiting' \in {waiting, [waiting EXCEPT ![e][f] = NoDraft]} /\ Known(net', c)
  <2>1. PICK v : v = Rebased(d, stored)
    OBVIOUS
  <2>2. v.planning = d.planning
    BY <1>3, <2>1 DEF Rebased, Draft
  <2>3. PICK q : q = NewRequest(e, "save", f, v, 0)
    OBVIOUS
  <2>4. RequestKnown(q, c)
    BY <1>3, <2>2, <2>3, FreshKnown
  <2>5. waiting' \in {waiting, [waiting EXCEPT ![e][f] = NoDraft]} /\ net' \in {others, others \cup {q}}
    BY <1>2, <1>4, <2>1, <2>3 DEF FlushNext
  <2> QED
    BY <1>4, <2>4, <2>5 DEF Known
<1>6. UNCHANGED server /\ (UNCHANGED local \/ local' = [local EXCEPT ![e][f] = Stored(r)])
  BY <1>2 DEF Settle, SaveAccepted, SaveConflicts, SaveFails
<1>7. Stored(r).planning => KnownTo(f, c)
  BY <1>1, <1>2 DEF Stored, RequestKnown, StoreKnown
<1>8. \A e1 \in Editor, f1 \in Flow :
        /\ local'[e1][f1] = local[e1][f1] \/ (e1 = e /\ f1 = f /\ local'[e1][f1] = Stored(r))
        /\ waiting'[e1][f1] \in {waiting[e1][f1], NoDraft}
  BY <1>1, <1>5, <1>6
<1>9. StoreKnown(local', waiting', server', c)
  <2>1. ~NoDraft.planning
    BY DEF NoDraft
  <2> QED
    BY <1>6, <1>7, <1>8, <2>1 DEF StoreKnown
<1> QED
  BY <1>5, <1>9

LEMMA ReadKnows ==
  ASSUME SyncInv, NEW r \in net, DeleteAnswered(r) \/ ListAnswered(r) \/ RefetchAnswered(r),
         NEW c, Known(net, c), StoreKnown(local, waiting, server, c)
  PROVE  StoreKnown(local', waiting', server', c) /\ Known(net', c)
<1>1. /\ r \in Request /\ RequestKnown(r, c) /\ r.by \in Editor /\ net' = net \ {r}
      /\ r.kind # "list" => r.flow \in Flow
      /\ local \in [Editor -> [Flow -> Draft]] /\ UNCHANGED <<waiting, server>>
  BY DEF Known, SyncInv, QueueInv, StoreTyped, NetTyped, FlowsNamed, DeleteAnswered, ListAnswered,
         RefetchAnswered, Answer, Request
<1>2. PICK e \in Editor : e = r.by
  BY <1>1
<1>3. ASSUME NEW e1 \in Editor, NEW f1 \in Flow
      PROVE  local'[e1][f1] = local[e1][f1] \/ (local'[e1][f1].planning => KnownTo(f1, c))
  <2>1. CASE DeleteAnswered(r)
    BY <2>1 DEF DeleteAnswered
  <2>2. CASE ListAnswered(r)
    <3>1. \/ UNCHANGED local
          \/ local' = [local EXCEPT ![e] = Merged(e, r)]
          \/ local' = [local EXCEPT ![e] = local[e]]
      BY <1>2, <2>2 DEF ListAnswered
    <3>2. Merged(e, r)[f1] \in {local[e][f1], r.remote[f1]}
      BY DEF Merged
    <3>3. r.remote[f1].planning => KnownTo(f1, c)
      BY <1>1 DEF RequestKnown
    <3>4. local'[e1][f1] \in {local[e1][f1], r.remote[f1]}
      BY <1>1, <3>1, <3>2
    <3> QED
      BY <3>3, <3>4
  <2>3. CASE RefetchAnswered(r)
    <3>1. PICK f \in Flow : f = r.flow
      BY <1>1, <2>3 DEF RefetchAnswered, Answer
    <3>2. \/ local' = [local EXCEPT ![e][f] = r.remote[f]]
          \/ local' = [local EXCEPT ![e][f] = local[e][f]]
      BY <1>2, <2>3, <3>1 DEF RefetchAnswered
    <3>3. local'[e1][f1] = local[e1][f1] \/ (f1 = f /\ local'[e1][f1] = r.remote[f])
      BY <1>1, <3>1, <3>2
    <3>4. r.remote[f1].planning => KnownTo(f1, c)
      BY <1>1 DEF RequestKnown
    <3> QED
      BY <3>3, <3>4
  <2> QED
    BY <2>1, <2>2, <2>3
<1>4. StoreKnown(local', waiting', server', c)
  BY <1>1, <1>3 DEF StoreKnown
<1>5. Known(net', c)
  BY <1>1 DEF Known
<1> QED
  BY <1>4, <1>5

LEMMA FinishKnows ==
  ASSUME SyncInv, NEW r \in net, FinishDelete(r),
         NEW c, Known(net, c), StoreKnown(local, waiting, server, c)
  PROVE  StoreKnown(local', waiting', server', c) /\ Known(net', c)
<1>1. r.by \in Editor /\ r.flow \in Flow /\ UNCHANGED server
  BY DEF SyncInv, QueueInv, NetTyped, FlowsNamed, FinishDelete, Answer, Request
<1>2. Known(net \ {r}, c)
  BY DEF Known
<1>3. CASE r.result = "ok"
  <2>1. PICK others : others = (net \ {r}) \cup Asked(r.by, New)
    OBVIOUS
  <2>2. Known(others, c)
    BY <1>2, <2>1, AskedKnown
  <2>3. Remove(r.by, r.flow, others)
    BY <1>3, <2>1 DEF FinishDelete
  <2> QED
    BY <1>1, <2>2, <2>3, RemoveKnows
<1>4. CASE r.result # "ok"
  BY <1>1, <1>2, <1>4 DEF FinishDelete, store
<1> QED
  BY <1>3, <1>4

(* What the page does, its effects aside, brings no wait into its store.   *)
LEMMA PageKnows ==
  ASSUME SyncInv, NEW e \in Editor,
         \/ LoadTasks(e) \/ OpenNew(e) \/ Edit(e) \/ Prompt(e) \/ Reply(e)
         \/ StartDelete(e) \/ Rerender(e)
         \/ \E f \in Flow : OpenFlow(e, f) \/ CreateBlankFlow(e, f),
         NEW c, Known(net, c), StoreKnown(local, waiting, server, c)
  PROVE  StoreKnown(local', waiting', server', c) /\ Known(net', c)
<1>1. UNCHANGED server
  BY DEF LoadTasks, OpenNew, Edit, Prompt, Reply, StartDelete, Rerender, OpenFlow, CreateBlankFlow
<1>2. CASE UNCHANGED <<net, store>>
  BY <1>1, <1>2 DEF store
<1>3. ASSUME NEW route, net' = net \cup Asked(e, route), UNCHANGED store
      PROVE  StoreKnown(local', waiting', server', c) /\ Known(net', c)
  BY <1>1, <1>3, AskedKnown DEF store
<1>4. CASE OpenNew(e) \/ \E f \in Flow : OpenFlow(e, f)
  BY <1>3, <1>4 DEF OpenNew, OpenFlow
<1>5. ASSUME NEW f \in Flow, CreateBlankFlow(e, f)
      PROVE  StoreKnown(local', waiting', server', c) /\ Known(net', c)
  <2>1. PICK d, others : /\ d = [NoDraft EXCEPT !.edits = {nextEdit}, !.at = Now]
                         /\ others = net \cup Asked(e, f)
    OBVIOUS
  <2>2. Persist(e, f, d, others)
    BY <1>5, <2>1 DEF CreateBlankFlow
  <2>3. ~d.planning
    BY <2>1 DEF NoDraft
  <2>4. Known(others, c)
    BY <2>1, AskedKnown
  <2> QED
    BY <1>1, <2>2, <2>3, <2>4, PersistKnows
<1>6. CASE StartDelete(e)
  <2>1. PICK f : f = page[e].flow
    OBVIOUS
  <2>2. f \in Flow
    BY <1>6, <2>1 DEF StartDelete, SyncInv, RestTyped, Page
  <2>3. CASE catalog[e][f] > 0
    <3>1. PICK q : q = NewRequest(e, "drop", f, NoDraft, 0)
      OBVIOUS
    <3>2. ~NoDraft.planning
      BY DEF NoDraft
    <3>3. RequestKnown(q, c)
      BY <3>1, <3>2, FreshKnown
    <3>4. net' = net \cup {q} /\ UNCHANGED store
      BY <1>6, <2>1, <2>3, <3>1 DEF StartDelete
    <3> QED
      BY <1>1, <3>3, <3>4 DEF store, Known
  <2>4. CASE ~(catalog[e][f] > 0)
    <3>1. PICK others : others = net \cup Asked(e, New)
      OBVIOUS
    <3>2. Known(others, c)
      BY <3>1, AskedKnown
    <3>3. Remove(e, f, others)
      BY <1>6, <2>1, <2>4, <3>1 DEF StartDelete
    <3> QED
      BY <1>1, <2>2, <3>2, <3>3, RemoveKnows
  <2> QED
    BY <2>3, <2>4
<1> QED
  BY <1>2, <1>4, <1>5, <1>6 DEF LoadTasks, Edit, Prompt, Reply, Rerender

LEMMA CommitKnows ==
  ASSUME SyncInv, RenderInv, OwnInv, NEW e \in Editor, Commit(e)
  PROVE  OwnInv'
<1>1. PICK p, q, c : p = page[e] /\ q = page'[e] /\ c = captured'
  OBVIOUS
<1>2. /\ Rendered(e) /\ ShownWait(e) /\ UNCHANGED server
      /\ p.flow \in Flow \cup {New} /\ p.route \in Flow \cup {New}
      /\ captured \in [Editor -> [Flow -> Runtime]]
  BY <1>1 DEF RenderInv, OwnInv, SyncInv, RestTyped, Page, Commit
<1>3. Effects(e, p, q)
  BY <1>1, <1>2, CommitShows
<1>4. /\ \A e1 \in Editor, f \in Flow : captured[e1][f].known => c[e1][f].known
      /\ \A f \in Flow : KnownTo(f, captured) => KnownTo(f, c)
  <2>1. \A e1 \in Editor, f \in Flow : captured[e1][f].known => c[e1][f].known
    BY <1>1, <1>2, <1>3 DEF Effects
  <2> QED
    BY <2>1 DEF KnownTo
<1>5. Known(net, c) /\ StoreKnown(local, waiting, server, c)
  <2>1. Known(net, c)
    BY <1>4 DEF OwnInv, Known, RequestKnown
  <2> QED
    BY <1>4, <2>1 DEF OwnInv, StoreKnown
<1>6. p.planning /\ p.flow \in Flow => KnownTo(p.flow, c)
  <2> SUFFICES ASSUME p.planning, p.flow \in Flow
               PROVE  KnownTo(p.flow, c)
    OBVIOUS
  <2>1. CASE captured[e][p.flow].planning
    BY <1>2, <1>4, <2>1 DEF Rendered, KnownTo
  <2>2. CASE p.click
    <3>1. p.loaded /\ p.flow # New
      BY <1>1, <1>2, <2>2 DEF Rendered
    <3>2. c = [captured EXCEPT ![e][p.flow] = [chat |-> p.chat, planning |-> p.planning, known |-> TRUE]]
      BY <1>1, <1>3, <3>1 DEF Effects
    <3>3. c[e][p.flow].known
      BY <1>2, <3>2
    <3> QED
      BY <3>3 DEF KnownTo
  <2>3. CASE \E d \in Editor \ {e} : captured[d][p.flow].known
    BY <1>4, <2>3 DEF KnownTo
  <2> QED
    BY <1>1, <1>2, <2>1, <2>2, <2>3 DEF ShownWait
<1>7. StoreKnown(local', waiting', server', c) /\ Known(net', c)
  <2>1. CASE Saves(e, Hydrated(e))
    <3>1. PICK f, d : f = p.flow /\ d = Shown(e)
      OBVIOUS
    <3>2. f \in Flow
      BY <1>1, <1>2, <2>1, <3>1 DEF Saves, MaySave
    <3>3. d.planning => KnownTo(f, c)
      BY <1>1, <1>6, <3>1, <3>2 DEF Shown
    <3>4. Persist(e, f, d, net)
      BY <1>1, <2>1, <3>1 DEF Commit
    <3> QED
      BY <1>2, <1>5, <3>2, <3>3, <3>4, PersistKnows
  <2>2. CASE ~Saves(e, Hydrated(e))
    BY <1>2, <1>5, <2>2 DEF Commit, store
  <2> QED
    BY <2>1, <2>2
<1>8. ShownWait(e)'
  <2> SUFFICES ASSUME q.planning
               PROVE  \/ c[e][q.flow].planning
                      \/ \E d \in Editor \ {e} : c[d][q.flow].known
    BY <1>1 DEF ShownWait
  <2>1. CASE q.flow = p.flow /\ q.planning = p.planning
             /\ c = IF p.flow = New THEN captured
                    ELSE [captured EXCEPT ![e][p.flow] =
                            [chat |-> p.chat, planning |-> p.planning, known |-> TRUE]]
    <3>1. p.flow # New /\ p.flow \in Flow
      BY <1>1, <1>2, <2>1 DEF Rendered
    <3>2. c[e][p.flow].planning
      BY <1>2, <2>1, <3>1
    <3> QED
      BY <2>1, <3>2
  <2>2. CASE c = captured /\ q.flow = p.route /\ p.route # New /\ captured[e][p.route].known
             /\ q.planning = captured[e][p.route].planning
    BY <2>2
  <2>3. CASE q.flow = p.route /\ ~(p.route # New /\ captured[e][p.route].known)
             /\ (~q.planning \/ (p.route # New /\ local[e][p.route].planning))
    <3>1. p.route \in Flow /\ ~captured[e][p.route].known /\ KnownTo(p.route, captured)
      BY <1>2, <2>3 DEF OwnInv, StoreKnown
    <3>2. PICK d \in Editor \ {e} : captured[d][p.route].known
      BY <3>1 DEF KnownTo
    <3>3. q.flow = p.route
      BY <2>3
    <3> QED
      BY <1>4, <3>1, <3>2, <3>3
  <2> QED
    BY <1>1, <1>3, <2>1, <2>2, <2>3 DEF Effects
<1>9. \A e1 \in Editor : ShownWait(e1)'
  <2> SUFFICES ASSUME NEW e1 \in Editor, e1 # e PROVE ShownWait(e1)'
    BY <1>8
  <2>1. page'[e1] = page[e1] /\ captured'[e1] = captured[e1]
    BY <1>2 DEF Commit, Remembered, SyncInv, RestTyped
  <2>2. SUFFICES ASSUME page[e1].planning
                 PROVE  \/ page[e1].click \/ captured[e1][page[e1].flow].planning
                        \/ \E d \in Editor \ {e1} : c[d][page[e1].flow].known
    BY <1>1, <2>1 DEF ShownWait
  <2>3. ShownWait(e1) /\ page[e1].flow \in Flow
    BY <2>2 DEF OwnInv, SyncInv, RestTyped, Page, RenderInv, Rendered
  <2> QED
    BY <1>4, <2>2, <2>3 DEF ShownWait
<1> QED
  BY <1>1, <1>7, <1>9 DEF OwnInv

LEMMA OwnStep == SyncInv /\ RenderInv /\ OwnInv /\ [Next]_vars => OwnInv'
<1> SUFFICES ASSUME SyncInv, RenderInv, OwnInv, [Next]_vars
             PROVE  OwnInv'
  OBVIOUS
<1>1. ASSUME NEW e \in Editor, Commit(e)
      PROVE  OwnInv'
  BY <1>1, CommitKnows
<1>2. CASE \A e \in Editor : ~Commit(e)
  <2>1. captured' = captured
    <3>1. ASSUME NEW r \in net, Receive(r) \/ Serve(r) \/ Fail(r)
          PROVE  captured' = captured
      BY <3>1 DEF Receive, Settle, SaveAccepted, SaveConflicts, SaveFails, DeleteAnswered, ListAnswered,
                  RefetchAnswered, FinishDelete, Serve, ReadForSave, WriteSave, ServeDelete, ServeList,
                  ServeDrop, NotServed, Fail
    <3>2. CASE UNCHANGED vars \/ \E f \in Flow : TouchBoard(f)
      BY <3>2 DEF vars, TouchBoard
    <3>3. ASSUME NEW e \in Editor,
                 \/ LoadTasks(e) \/ OpenNew(e) \/ Edit(e) \/ Prompt(e) \/ Reply(e)
                 \/ StartDelete(e) \/ Rerender(e)
                 \/ \E f \in Flow : OpenFlow(e, f) \/ CreateBlankFlow(e, f)
          PROVE  captured' = captured
      BY <3>3 DEF LoadTasks, OpenNew, Edit, Prompt, Reply, StartDelete, Rerender, OpenFlow, CreateBlankFlow
    <3> QED
      BY <1>2, <3>1, <3>2, <3>3 DEF Next
  <2>2. \A e \in Editor : ShownWait(e)'
    <3> SUFFICES ASSUME NEW e \in Editor
                 PROVE  ShownWait(e)'
      OBVIOUS
    <3>1. PICK p, q : p = page[e] /\ q = page'[e]
      OBVIOUS
    <3>2. /\ captured'[e] = captured[e]
          /\ \/ q.flow = p.flow /\ (q.planning <=> p.planning) /\ (q.click <=> p.click)
             \/ q.flow = p.flow /\ q.flow # New /\ q.planning /\ q.click
             \/ q.flow = p.flow /\ ~q.planning /\ owed'[e] < owed[e]
             \/ q.flow = New /\ ~q.planning
      BY <1>2, <3>1, OtherSteps
    <3>3. ShownWait(e)
      BY DEF OwnInv
    <3> QED
      BY <2>1, <3>1, <3>2, <3>3 DEF ShownWait
  <2>3. PICK c : c = captured
    OBVIOUS
  <2>4. Known(net, c) /\ StoreKnown(local, waiting, server, c)
    BY <2>3 DEF OwnInv
  <2>5. StoreKnown(local', waiting', server', c) /\ Known(net', c)
    <3>1. ASSUME NEW r \in net, Receive(r) \/ Serve(r) \/ Fail(r)
          PROVE  StoreKnown(local', waiting', server', c) /\ Known(net', c)
      BY <2>4, <3>1, SettleKnows, ReadKnows, FinishKnows, ServeKnows DEF Receive
    <3>2. CASE UNCHANGED vars \/ \E f \in Flow : TouchBoard(f)
      BY <2>4, <3>2 DEF vars, TouchBoard, store
    <3>3. ASSUME NEW e \in Editor,
                 \/ LoadTasks(e) \/ OpenNew(e) \/ Edit(e) \/ Prompt(e) \/ Reply(e)
                 \/ StartDelete(e) \/ Rerender(e)
                 \/ \E f \in Flow : OpenFlow(e, f) \/ CreateBlankFlow(e, f)
          PROVE  StoreKnown(local', waiting', server', c) /\ Known(net', c)
      BY <2>4, <3>3, PageKnows
    <3> QED
      BY <1>2, <3>1, <3>2, <3>3 DEF Next
  <2> QED
    BY <2>1, <2>2, <2>3, <2>5 DEF OwnInv
<1> QED
  BY <1>1, <1>2

(* However many pages there are: a page that waits for the planner goes on  *)
(* waiting until the answer comes or its user leaves the flow, whatever is  *)
(* filled in from store, server or board; only a wait the page has not      *)
(* remembered may be lost, and only when another page has shown the flow.   *)
THEOREM WaitGoesOn == Spec => WaitSurvives
<1>1. Init => OwnInv
  <2> SUFFICES ASSUME Init
               PROVE  OwnInv
    OBVIOUS
  <2>1. \A f \in Flow : ~NoDrafts[f].planning /\ ~server[f].planning
    BY DEF Init, NoDrafts, NoDraft
  <2>2. StoreKnown(local, waiting, server, captured)
    BY <2>1 DEF Init, StoreKnown
  <2>3. Known(net, captured)
    <3>1. ~NoDraft.planning
      BY DEF NoDraft
    <3>2. ASSUME NEW r \in net
          PROVE  RequestKnown(r, captured)
      <4>1. PICK e, to : r = NewRequest(e, "list", to, NoDraft, 1)
        BY DEF Init
      <4> QED
        BY <3>1, <4>1, FreshKnown
    <3> QED
      BY <3>2 DEF Known
  <2>4. \A e \in Editor : ~page[e].planning
    BY DEF Init, BlankPage
  <2> QED
    BY <2>2, <2>3, <2>4 DEF OwnInv, ShownWait
<1>2. SyncInv /\ RenderInv /\ OwnInv /\ [Next]_vars => OwnInv'
  BY OwnStep
<1>3. SyncInv /\ RenderInv /\ OwnInv /\ [Next]_vars =>
        [\A e \in Editor :
           (page[e].planning /\ page'[e].flow = page[e].flow /\ page'[e].route = page[e].route)
             => page'[e].planning \/ owed'[e] < owed[e] \/ BorrowedWait(e)]_page
  <2> SUFFICES ASSUME SyncInv, RenderInv, OwnInv, [Next]_vars, NEW e \in Editor,
                      page[e].planning, ~BorrowedWait(e),
                      page'[e].flow = page[e].flow, page'[e].route = page[e].route
               PROVE  page'[e].planning \/ owed'[e] < owed[e]
    OBVIOUS
  <2>1. RemembersWait(e)
    BY DEF OwnInv, ShownWait, BorrowedWait, RemembersWait
  <2> QED
    BY <2>1, RememberedWaits
<1> QED
  BY <1>1, <1>2, <1>3, SyncHolds, RenderHolds, PTL DEF Spec, WaitSurvives

==============================================================================
