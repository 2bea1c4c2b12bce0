------------------------------ MODULE FlowRoute ------------------------------
(***************************************************************************)
(* What the flow page shows when its route, the stored draft or the tasks  *)
(* of the board change: the decision of                                    *)
(* frontend/src/components/flowRouteHydrationUtils.ts as a function of the *)
(* facts the page looks at.  A fact about a name or a time is a Boolean:   *)
(*   changed   the key of the route is not the one the page has loaded     *)
(*   fresh     the route is /flow/edit/new                                 *)
(*   target    a new route names the id of its draft                       *)
(*   prefer    the sidebar asked for the submitted flow                    *)
(*   draft     the local store has a draft; chat, pending: it has planner  *)
(*             messages, it waits for the planner                          *)
(*   snapshot  the board has tasks of the flow; newer: touched no earlier  *)
(*             than the draft                                              *)
(*   drafting  the canvas is a draft; blank: without a node and a name;    *)
(*   here      the canvas shows the flow of the route                      *)
(***************************************************************************)

Fact == {"changed", "fresh", "target", "prefer", "draft", "chat", "pending",
         "snapshot", "newer", "drafting", "blank", "here"}
Facts == [Fact -> BOOLEAN]

(* What is applied to the page, and whether the route counts as loaded. *)
Applied == {"draft", "seeded", "empty", "snapshot", "snapshot_canvas", "nothing"}

Load(what) == [apply |-> what, load |-> TRUE]
Keep(what) == [apply |-> what, load |-> FALSE]

(* The submitted flow replaces the canvas although the route is loaded. *)
ForcesSnapshot(q) ==
  /\ ~q.pending
  /\ \/ q.prefer /\ (q.drafting \/ ~q.here)
     \/ q.drafting /\ q.blank

LoadNewRoute(q) ==
  Load(IF q.draft THEN "draft" ELSE IF q.target THEN "seeded" ELSE "empty")

(* A submitted flow opened from the sidebar: a draft that has a conversation *)
(* is shown before the tasks.                                                *)
LoadPreferred(q) ==
  Load(CASE q.draft /\ (q.pending \/ q.chat) -> "draft"
         [] q.snapshot /\ ~(q.draft /\ (q.pending \/ q.chat)) -> "snapshot"
         [] OTHER -> "empty")

LoadRoute(q) ==
  Load(CASE q.draft /\ (~q.snapshot \/ q.chat \/ ~q.newer) -> "draft"
         [] q.snapshot /\ ~(q.draft /\ (q.chat \/ ~q.newer)) -> "snapshot"
         [] OTHER -> "empty")

KeepRoute(q) ==
  Keep(CASE q.fresh \/ ~q.snapshot -> "nothing"
         [] OTHER ->
            IF \/ ForcesSnapshot(q)
               \/ q.drafting /\ q.draft /\ ~q.chat /\ q.newer
            THEN "snapshot"
            ELSE IF q.drafting THEN "nothing" ELSE "snapshot_canvas")

Decide(q) ==
  CASE ~q.changed -> KeepRoute(q)
    [] q.changed /\ q.fresh -> LoadNewRoute(q)
    [] q.changed /\ ~q.fresh /\ q.prefer -> LoadPreferred(q)
    [] OTHER -> LoadRoute(q)

(* The facts once a decision was applied to the page. *)
After(q) ==
  [q EXCEPT !.changed = @ /\ ~Decide(q).load,
            !.here = @ \/ Decide(q).apply \notin {"nothing", "snapshot_canvas"},
            !.drafting = CASE Decide(q).apply \in {"draft", "seeded", "empty"} -> TRUE
                           [] Decide(q).apply = "snapshot" -> FALSE
                           [] OTHER -> @]
==============================================================================
