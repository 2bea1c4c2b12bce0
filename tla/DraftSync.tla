------------------------------ MODULE DraftSync ------------------------------
(***************************************************************************)
(* The drafts of flows: the editor pages that show them, the local store   *)
(* of each page, the queue that saves a draft to the server, and the       *)
(* drafts on the server (frontend/src/components/flowDraftStore.ts,        *)
(* flow-page/hooks/useFlowDraftSyncQueue.ts and                            *)
(* useFlowDraftHydrationRuntime.ts; app/services/flow_draft_service.py).   *)
(*                                                                         *)
(* A user edits the page; React then runs the page's effects (Commit): one *)
(* fills the page from the store or from the board's tasks, one hands the  *)
(* page to the queue.  The queue sends one save per flow at a time, keeps  *)
(* only the newest record that waits, and sends it with the newest local   *)
(* revision.  The server compares the revision with the row it has read    *)
(* and writes in a later step.  Requests of a page overlap; they are       *)
(* served, answered or lost in any order.                                  *)
(*                                                                         *)
(* The content of a draft is the set of edits it includes and the length   *)
(* of its conversation; planning stands for a pending reply together with  *)
(* an active planner runtime.  The empty set of edits is the untitled      *)
(* placeholder; edit 0 is what the board's tasks show.  Times are ticks of *)
(* one clock; a draft of time 0 is absent.                                 *)
(***************************************************************************)
EXTENDS Naturals, FiniteSets, FlowRoute

CONSTANTS
  Editor,      \* open editor pages (browser tabs)
  Flow, New,   \* ids of flows, and of the page /flow/edit/new
  MaxEdit,     \* bound: edits of all users
  MaxChat,     \* bound: messages of a conversation
  MaxEvent     \* bound, together: navigations, deletions, lost requests, and
               \* changes of the board's tasks

ASSUME DraftAssumption ==
  /\ New \notin Flow
  /\ MaxEdit \in Nat /\ MaxChat \in Nat /\ MaxEvent \in Nat

Draft == [rev : Nat, edits : SUBSET Nat, chat : Nat, planning : BOOLEAN, at : Nat]
NoDraft == [rev |-> 0, edits |-> {}, chat |-> 0, planning |-> FALSE, at |-> 0]
NoDrafts == [f \in Flow |-> NoDraft]
Has(d) == d.at > 0

Request == [mount : Nat, kind : {"save", "delete", "list", "refetch", "drop"},
            by : Editor, flow : Flow \cup {New}, draft : Draft, seen : Draft,
            stage : {"sent", "read", "done"},
            result : {"none", "ok", "conflict", "missing", "error"},
            remote : [Flow -> Draft]]

(* key: the route whose contents were loaded, or none; hydOf, hydAt: the   *)
(* version of the draft the page was filled with or has saved last.        *)
Page == [route : Flow \cup {New}, prefer : BOOLEAN, loaded : BOOLEAN,
         flow : Flow \cup {New}, edits : SUBSET Nat, chat : Nat, planning : BOOLEAN,
         drafting : BOOLEAN, hydOf : Flow \cup {New}, hydAt : Nat, skip : 0 .. 2,
         ready : BOOLEAN, mount : Nat, look : BOOLEAN, dirty : BOOLEAN,
         click : BOOLEAN]
BlankPage(route) ==
  [route |-> route, prefer |-> FALSE, loaded |-> FALSE, flow |-> New, edits |-> {},
   chat |-> 0, planning |-> FALSE, drafting |-> TRUE, hydOf |-> New, hydAt |-> 0,
   skip |-> 0, ready |-> FALSE, mount |-> 1, look |-> TRUE, dirty |-> TRUE,
   click |-> FALSE]

VARIABLES
  server,     \* the rows of flow_drafts
  board,      \* when the board's tasks of a flow were last touched, 0: none
  served,     \* whether the server has the draft routes at all
  net,        \* requests on their way, being served or answered
  page,       \* what each page shows, with the flags of its effects
  local,      \* flowDraftStoreMemory of each page
  waiting,    \* draftSyncPendingByIdRef
  inFlight,   \* draftSyncInFlightByIdRef
  removed,    \* removedDraftIdsRef
  suppressed, \* suppressedFlowIds
  api,        \* draftApiAvailabilityRef
  status,     \* draftSyncStatusMessage
  captured,   \* plannerRuntimeByFlowIdRef
  catalog,    \* flowCatalog: the tasks a page knows, by their last touch
  owed,       \* answers the planner owes a page
  clock, nextEdit, events,
  accepted,   \* edits a row of the server has ever held, and
  told        \* flows of which a page has reported a save as failed or refused,
              \* and none was accepted since; only the properties read these two

store == <<local, waiting, inFlight, removed, api, status>>
vars == <<server, board, served, net, page, local, waiting, inFlight, removed,
          suppressed, api, status, captured, catalog, owed, clock, nextEdit, events,
          accepted, told>>

Runtime == [chat : Nat, planning : BOOLEAN, known : BOOLEAN]
Unknown == [chat |-> 0, planning |-> FALSE, known |-> FALSE]

(* A list is asked for by one mount of the page's effects. *)
NewRequest(e, kind, f, d, mount) ==
  [mount |-> mount, kind |-> kind, by |-> e, flow |-> f, draft |-> d, seen |-> NoDraft,
   stage |-> "sent", result |-> "none", remote |-> NoDrafts]

Init ==
  /\ \E route \in [Editor -> Flow \cup {New}] :
       /\ page = [e \in Editor |-> BlankPage(route[e])]
       /\ net = {NewRequest(e, "list", route[e], NoDraft, 1) : e \in Editor}
  /\ \E saved \in SUBSET Flow :
       server = [f \in Flow |-> IF f \in saved
                                THEN [NoDraft EXCEPT !.edits = {1}, !.at = 1]
                                ELSE NoDraft]
  /\ board \in [Flow -> 0 .. 1]
  /\ served \in BOOLEAN
  /\ local = [e \in Editor |-> NoDrafts]
  /\ waiting = [e \in Editor |-> NoDrafts]
  /\ inFlight = [e \in Editor |-> {}]
  /\ removed = [e \in Editor |-> {}]
  /\ suppressed = [e \in Editor |-> {}]
  /\ api = [e \in Editor |-> "unknown"]
  /\ status = [e \in Editor |-> "synced"]
  /\ captured = [e \in Editor |-> [f \in Flow |-> Unknown]]
  /\ catalog = [e \in Editor |-> [f \in Flow |-> 0]]
  /\ owed = [e \in Editor |-> 0]
  /\ clock = 1 /\ nextEdit = 2 /\ events = 0
  /\ accepted = {0, 1}
  /\ told = [e \in Editor |-> {}]

-----------------------------------------------------------------------------
(* The queue of one page. *)

Now == clock + 1

(* A record leaves the queue with the revision of the local draft when     *)
(* that is newer.                                                          *)
Rebased(d, stored) == IF stored.rev > d.rev THEN [d EXCEPT !.rev = stored.rev] ELSE d

(* Fault: every record is sent at once. *)
PersistAtOnce(e, f, d, others) ==
  /\ local' = [local EXCEPT ![e][f] = d]
  /\ removed' = [removed EXCEPT ![e] = @ \ {f}]
  /\ inFlight' = [inFlight EXCEPT ![e] = @ \cup {f}]
  /\ net' = others \cup {NewRequest(e, "save", f, d, 0)}
  /\ UNCHANGED <<waiting, api, status>>

(* persistDraftRecord with the flush it ends in: the store first, then the *)
(* queue of the flow.  others: the requests already on their way.          *)
Persist(e, f, d, others) ==
  /\ local' = [local EXCEPT ![e][f] = d]
  /\ IF api[e] = "disabled"
     THEN net' = others /\ UNCHANGED <<waiting, inFlight, removed>>
     ELSE /\ removed' = [removed EXCEPT ![e] = @ \ {f}]
          /\ IF f \in inFlight[e]
             THEN /\ waiting' = [waiting EXCEPT ![e][f] = d]
                  /\ net' = others
                  /\ UNCHANGED inFlight
             ELSE /\ inFlight' = [inFlight EXCEPT ![e] = @ \cup {f}]
                  /\ net' = others \cup {NewRequest(e, "save", f, d, 0)}
                  /\ UNCHANGED waiting
  /\ UNCHANGED <<api, status>>

(* removeDraftRecord: does not wait for a save of the flow in flight. *)
Remove(e, f, others) ==
  /\ removed' = [removed EXCEPT ![e] = @ \cup {f}]
  /\ waiting' = [waiting EXCEPT ![e][f] = NoDraft]
  /\ local' = [local EXCEPT ![e][f] = NoDraft]
  /\ net' = IF api[e] = "disabled" THEN others
            ELSE others \cup {NewRequest(e, "delete", f, NoDraft, 0)}
  /\ UNCHANGED <<inFlight, api, status>>

Stored(r) == IF r.flow \in removed[r.by] THEN local[r.by][r.flow] ELSE r.draft

(* A conflict met while the flow waits for the planner keeps the local draft. *)
KeepsRuntime(r) == captured[r.by][r.flow].planning \/ r.draft.planning

(* Fault: the flow stays busy when nothing waits. *)
FlushStaysBusy(r, others, stored) ==
  /\ waiting' = [waiting EXCEPT ![r.by][r.flow] = NoDraft]
  /\ net' = IF Has(waiting[r.by][r.flow])
            THEN others \cup
                 {NewRequest(r.by, "save", r.flow, waiting[r.by][r.flow], 0)}
            ELSE others
  /\ UNCHANGED inFlight

(* The record that waited leaves once the request has settled. *)
FlushNext(r, others, stored) ==
  LET e == r.by
      f == r.flow
      d == waiting[e][f] IN
  IF Has(d)
  THEN /\ waiting' = [waiting EXCEPT ![e][f] = NoDraft]
       /\ net' = others \cup {NewRequest(e, "save", f, Rebased(d, stored), 0)}
       /\ UNCHANGED inFlight
  ELSE /\ inFlight' = [inFlight EXCEPT ![e] = @ \ {f}]
       /\ net' = others
       /\ UNCHANGED waiting

(* The effects of a click come before any answer. *)
Answer(r, kind) ==
  r \in net /\ r.kind = kind /\ r.stage = "done" /\ ~page[r.by].click

SaveAccepted(r) ==
  /\ Answer(r, "save") /\ r.result = "ok"
  /\ local' = [local EXCEPT ![r.by][r.flow] = Stored(r)]
  /\ api' = [api EXCEPT ![r.by] = "enabled"]
  /\ status' = [status EXCEPT ![r.by] = "synced"]
  /\ told' = [told EXCEPT ![r.by] = @ \ {r.flow}]
  /\ FlushNext(r, net \ {r}, Stored(r))
  /\ UNCHANGED <<server, board, served, page, removed, suppressed, captured,
                 catalog, clock, nextEdit, events, owed, accepted>>

SaveConflicts(r) ==
  /\ Answer(r, "save") /\ r.result = "conflict"
  /\ LET refetch == NewRequest(r.by, "refetch", r.flow, NoDraft, 0)
         others == IF KeepsRuntime(r) THEN net \ {r} ELSE (net \ {r}) \cup {refetch}
     IN FlushNext(r, others, local[r.by][r.flow])
  /\ status' = [status EXCEPT ![r.by] = IF KeepsRuntime(r) THEN "kept" ELSE "conflict"]
  /\ told' = [told EXCEPT ![r.by] = @ \cup {r.flow}]
  /\ UNCHANGED <<server, board, served, page, local, removed, suppressed, api,
                 captured, catalog, clock, nextEdit, events, owed, accepted>>

(* Fault: a save that failed is not reported. *)
SaveFailsSilently(r) ==
  /\ Answer(r, "save") /\ r.result \in {"missing", "error"}
  /\ FlushNext(r, net \ {r}, local[r.by][r.flow])
  /\ UNCHANGED <<server, board, served, page, local, removed, suppressed, api,
                 status, captured, catalog, clock, nextEdit, events, owed,
                 accepted, told>>

SaveFails(r) ==
  /\ Answer(r, "save") /\ r.result \in {"missing", "error"}
  /\ FlushNext(r, net \ {r}, local[r.by][r.flow])
  /\ api' = [api EXCEPT ![r.by] = IF r.result = "missing" THEN "disabled" ELSE @]
  /\ status' = [status EXCEPT ![r.by] = IF r.result = "error" THEN "unsynced" ELSE @]
  /\ told' = [told EXCEPT ![r.by] = IF r.result = "error" THEN @ \cup {r.flow} ELSE @]
  /\ UNCHANGED <<server, board, served, page, local, removed, suppressed,
                 captured, catalog, clock, nextEdit, events, owed, accepted>>

DeleteAnswered(r) ==
  /\ Answer(r, "delete")
  /\ api' = [api EXCEPT ![r.by] = CASE r.result = "ok" -> "enabled"
                                    [] r.result = "missing" -> "disabled"
                                    [] OTHER -> @]
  /\ status' = [status EXCEPT ![r.by] = CASE r.result = "ok" -> "synced"
                                          [] r.result = "missing" -> @
                                          [] OTHER -> "unsynced"]
  /\ net' = net \ {r}
  /\ UNCHANGED <<server, board, served, page, local, waiting, inFlight, removed,
                 suppressed, captured, catalog, clock, nextEdit, events, owed,
                 accepted, told>>

-----------------------------------------------------------------------------
(* Drafts that come from the server. *)

(* Whether the list's draft replaces the local one; target: it is the one  *)
(* the route names.                                                        *)
ProtectsPlanning(mine, theirs) ==
  mine.planning /\ ~theirs.planning /\ (theirs.chat = 0 \/ mine.chat > theirs.chat)
ProtectsChat(mine, theirs) == mine.chat > 0 /\ theirs.chat = 0
Newer(mine, theirs) ==
  theirs.rev > mine.rev \/ (theirs.rev = mine.rev /\ theirs.at >= mine.at)
Replaces(mine, theirs, target) ==
  \/ ~Has(mine)
  \/ /\ ~ProtectsPlanning(mine, theirs) /\ ~ProtectsChat(mine, theirs)
     /\ (target /\ ~mine.planning) \/ Newer(mine, theirs)

Merged(e, r) ==
  [f \in Flow |-> IF Has(r.remote[f]) /\ Replaces(local[e][f], r.remote[f], f = r.flow)
                  THEN r.remote[f] ELSE local[e][f]]

Relisted(p, changes) ==
  [p EXCEPT !.ready = TRUE, !.dirty = TRUE, !.loaded = @ /\ ~changes,
            !.look = @ \/ changes]

(* The list a page asked for when its route was opened; the answer to an   *)
(* earlier route is ignored.                                               *)
ListAnswered(r) ==
  /\ Answer(r, "list")
  /\ LET e == r.by
         merged == IF r.result = "ok" THEN Merged(e, r) ELSE local[e]
         changes == \E f \in Flow : Has(r.remote[f])
                                    /\ Replaces(local[e][f], r.remote[f], f = r.flow)
     IN IF r.mount # page[e].mount
        THEN UNCHANGED <<page, local, api, status>>
        ELSE /\ local' = [local EXCEPT ![e] = merged]
             /\ page' = [page EXCEPT ![e] = Relisted(page[e], changes)]
             /\ api' = [api EXCEPT ![e] = CASE r.result = "ok" -> "enabled"
                                            [] r.result = "missing" -> "disabled"
                                            [] OTHER -> @]
             /\ status' = [status EXCEPT ![e] =
                             IF r.result = "error" THEN "unsynced" ELSE @]
  /\ net' = net \ {r}
  /\ UNCHANGED <<server, board, served, waiting, inFlight, removed, suppressed,
                 captured, catalog, clock, nextEdit, events, owed, accepted, told>>

Reopened(p) == [p EXCEPT !.loaded = FALSE, !.look = TRUE]

(* After a conflict the server's draft replaces the local one, and the page *)
(* is filled again.                                                         *)
RefetchAnswered(r) ==
  /\ Answer(r, "refetch")
  /\ LET e == r.by
         theirs == r.remote[r.flow] IN
     /\ local' = [local EXCEPT ![e][r.flow] = IF Has(theirs) THEN theirs ELSE @]
     /\ page' = IF Has(theirs)
                THEN [page EXCEPT ![e] = Reopened(page[e])] ELSE page
     /\ api' = [api EXCEPT ![e] = CASE r.result = "ok" -> "enabled"
                                    [] r.result = "missing" -> "disabled"
                                    [] OTHER -> @]
     /\ status' = [status EXCEPT ![e] = IF r.result = "error" THEN "unsynced" ELSE @]
  /\ net' = net \ {r}
  /\ UNCHANGED <<server, board, served, waiting, inFlight, removed, suppressed,
                 captured, catalog, clock, nextEdit, events, owed, accepted, told>>

-----------------------------------------------------------------------------
(* The server. *)

Put(r, q) == net' = (net \ {r}) \cup {q}
Done(r, result) == [r EXCEPT !.stage = "done", !.result = result]

Sent(r, kind) == r \in net /\ r.kind = kind /\ r.stage = "sent" /\ served

(* upsert_flow_draft up to the comparison of revisions.  A draft the       *)
(* server does not have is created by revision 0.                          *)
ReadForSave(r) ==
  /\ Sent(r, "save")
  /\ Put(r, IF r.draft.rev = server[r.flow].rev
            THEN [r EXCEPT !.stage = "read", !.seen = server[r.flow]]
            ELSE Done(r, "conflict"))
  /\ UNCHANGED <<server, board, served, page, store, suppressed, captured,
                 catalog, clock, nextEdit, events, owed, accepted, told>>

NextRevision(seen) == IF Has(seen) THEN seen.rev + 1 ELSE 0

(* The write names the row, not its revision: it fails only when the row   *)
(* was deleted, or created, since it was read.                             *)
WriteSave(r) ==
  LET row == [r.draft EXCEPT !.rev = NextRevision(r.seen), !.at = Now] IN
  /\ r \in net /\ r.kind = "save" /\ r.stage = "read"
  /\ IF Has(r.seen) = Has(server[r.flow])
     THEN /\ server' = [server EXCEPT ![r.flow] = row]
          /\ Put(r, [Done(r, "ok") EXCEPT !.draft = row])
          /\ clock' = Now
          /\ accepted' = accepted \cup row.edits
     ELSE Put(r, Done(r, "error")) /\ UNCHANGED <<server, clock, accepted>>
  /\ UNCHANGED <<board, served, page, store, suppressed, captured, catalog,
                 nextEdit, events, owed, told>>

ServeDelete(r) ==
  /\ Sent(r, "delete")
  /\ server' = [server EXCEPT ![r.flow] = NoDraft]
  /\ Put(r, Done(r, "ok"))
  /\ UNCHANGED <<board, served, page, store, suppressed, captured, catalog, clock,
                 nextEdit, events, owed, accepted, told>>

ServeList(r) ==
  /\ Sent(r, r.kind) /\ r.kind \in {"list", "refetch"}
  /\ Put(r, [Done(r, "ok") EXCEPT !.remote = server])
  /\ UNCHANGED <<server, board, served, page, store, suppressed, captured,
                 catalog, clock, nextEdit, events, owed, accepted, told>>

(* delete_requirement_tasks, a route of the board. *)
ServeDrop(r) ==
  /\ r \in net /\ r.kind = "drop" /\ r.stage = "sent"
  /\ board' = [board EXCEPT ![r.flow] = 0]
  /\ Put(r, Done(r, "ok"))
  /\ UNCHANGED <<server, served, page, store, suppressed, captured, catalog,
                 clock, nextEdit, events, owed, accepted, told>>

(* A server without the draft routes answers 404. *)
NotServed(r) ==
  /\ r \in net /\ r.stage = "sent" /\ ~served /\ r.kind # "drop"
  /\ Put(r, Done(r, "missing"))
  /\ UNCHANGED <<server, board, served, page, store, suppressed, captured,
                 catalog, clock, nextEdit, events, owed, accepted, told>>

(* The connection breaks: before the request is served or after. *)
Fail(r) ==
  /\ r \in net /\ events < MaxEvent
  /\ r.stage = "sent" \/ r.result = "ok"
  /\ Put(r, Done(r, "error"))
  /\ events' = events + 1
  /\ UNCHANGED <<server, board, served, page, store, suppressed, captured,
                 catalog, clock, nextEdit, owed, accepted, told>>

-----------------------------------------------------------------------------
(* The board's tasks. *)

TouchBoard(f) ==
  /\ board[f] > 0 /\ events < MaxEvent
  /\ board' = [board EXCEPT ![f] = Now]
  /\ clock' = Now /\ events' = events + 1
  /\ UNCHANGED <<server, served, net, page, store, suppressed, captured, catalog,
                 nextEdit, owed, accepted, told>>

(* refreshFlowTasks and applyBoardRealtimeUpdate. *)
LoadTasks(e) ==
  LET seen == [f \in Flow |-> IF f \in suppressed[e] THEN 0 ELSE board[f]] IN
  /\ catalog[e] # seen
  /\ catalog' = [catalog EXCEPT ![e] = seen]
  /\ page' = [page EXCEPT ![e].look = TRUE]
  /\ UNCHANGED <<server, board, served, net, store, suppressed, captured, clock,
                 nextEdit, events, owed, accepted, told>>

-----------------------------------------------------------------------------
(* The page: what its user does. *)

(* Flows the sidebar lists. *)
Listed(e) ==
  {f \in Flow \ suppressed[e] :
     Has(local[e][f]) \/ catalog[e][f] > 0 \/ page[e].flow = f}

(* Another page remounts the effect that lists the drafts. *)
Routed(p, route, prefer) ==
  [p EXCEPT !.route = route, !.prefer = prefer,
            !.loaded = @ /\ p.route = route /\ p.prefer = prefer,
            !.ready = @ /\ p.route = route,
            !.mount = IF p.route = route THEN @ ELSE @ + 1,
            !.look = TRUE, !.dirty = @ \/ p.route # route]

Asked(e, route) ==
  IF page[e].route = route THEN {}
  ELSE {NewRequest(e, "list", route, NoDraft, page[e].mount + 1)}

(* React runs the effects of a render before it handles the next click. *)
Idle(e) == ~page[e].look /\ ~page[e].dirty

OpenFlow(e, f) ==
  /\ Idle(e) /\ f \in Listed(e) /\ events < MaxEvent
  /\ page' = [page EXCEPT ![e] = Routed(@, f, catalog[e][f] > 0)]
  /\ net' = net \cup Asked(e, f)
  /\ events' = events + 1
  /\ UNCHANGED <<server, board, served, store, suppressed, captured, catalog,
                 clock, nextEdit, owed, accepted, told>>

OpenNew(e) ==
  /\ Idle(e) /\ page[e].route # New /\ events < MaxEvent
  /\ page' = [page EXCEPT ![e] = Routed(@, New, FALSE)]
  /\ net' = net \cup Asked(e, New)
  /\ events' = events + 1
  /\ UNCHANGED <<server, board, served, store, suppressed, captured, catalog,
                 clock, nextEdit, owed, accepted, told>>

(* Ids are random: nobody has used the one of a new flow. *)
Unused(f) ==
  /\ ~Has(server[f]) /\ board[f] = 0
  /\ \A e \in Editor : f \notin removed[e] \cup suppressed[e] /\ ~Has(local[e][f])
                        /\ page[e].route # f
  /\ \A r \in net : r.flow # f

CreateBlankFlow(e, f) ==
  /\ Idle(e) /\ Unused(f) /\ nextEdit <= MaxEdit /\ events < MaxEvent
  /\ Persist(e, f, [NoDraft EXCEPT !.edits = {nextEdit}, !.at = Now],
             net \cup Asked(e, f))
  /\ page' = [page EXCEPT ![e] = Routed(@, f, FALSE)]
  /\ clock' = Now /\ nextEdit' = nextEdit + 1 /\ events' = events + 1
  /\ UNCHANGED <<server, board, served, suppressed, captured, catalog, owed,
                 accepted, told>>

Edited(p) ==
  [p EXCEPT !.edits = @ \cup {nextEdit}, !.drafting = TRUE,
            !.look = TRUE, !.dirty = TRUE]

Edit(e) ==
  /\ Idle(e) /\ page[e].flow # New /\ ~page[e].planning /\ nextEdit <= MaxEdit
  /\ page' = [page EXCEPT ![e] = Edited(@)]
  /\ nextEdit' = nextEdit + 1
  /\ UNCHANGED <<server, board, served, net, store, suppressed, captured, catalog,
                 clock, events, owed, accepted, told>>

(* The planner: a question, and the answer that ends the wait. *)
Prompted(p) ==
  [p EXCEPT !.edits = @ \cup {nextEdit}, !.chat = @ + 1, !.planning = TRUE,
            !.drafting = TRUE, !.look = TRUE, !.dirty = TRUE, !.click = TRUE]

Prompt(e) ==
  /\ Idle(e) /\ page[e].flow # New /\ ~page[e].planning
  /\ page[e].chat < MaxChat /\ nextEdit <= MaxEdit
  /\ page' = [page EXCEPT ![e] = Prompted(page[e])]
  /\ owed' = [owed EXCEPT ![e] = @ + 1]
  /\ nextEdit' = nextEdit + 1
  /\ UNCHANGED <<server, board, served, net, store, suppressed, captured, catalog,
                 clock, events, accepted, told>>

Replied(p) ==
  [p EXCEPT !.chat = IF @ < MaxChat THEN @ + 1 ELSE @, !.planning = FALSE,
            !.drafting = TRUE, !.look = TRUE, !.dirty = TRUE]

Reply(e) ==
  /\ owed[e] > 0
  /\ owed' = [owed EXCEPT ![e] = @ - 1]
  /\ page' = IF page[e].flow = New \/ ~page[e].planning THEN page
             ELSE [page EXCEPT ![e] = Replied(page[e])]
  /\ UNCHANGED <<server, board, served, net, store, suppressed, captured, catalog,
                 clock, nextEdit, events, accepted, told>>

(* The page after its flow was deleted. *)
Emptied(p) ==
  [Routed(p, New, FALSE) EXCEPT
     !.flow = New, !.edits = {}, !.chat = 0, !.planning = FALSE, !.drafting = TRUE,
     !.dirty = TRUE]

(* handleDeleteCurrentFlow: the tasks of a submitted flow go first. *)
StartDelete(e) ==
  LET f == page[e].flow IN
  /\ Idle(e) /\ f # New /\ events < MaxEvent
  /\ suppressed' = [suppressed EXCEPT ![e] = @ \cup {f}]
  /\ IF catalog[e][f] > 0
     THEN /\ net' = net \cup {NewRequest(e, "drop", f, NoDraft, 0)}
          /\ UNCHANGED <<page, store>>
     ELSE /\ Remove(e, f, net \cup Asked(e, New))
          /\ page' = [page EXCEPT ![e] = Emptied(@)]
  /\ events' = events + 1
  /\ UNCHANGED <<server, board, served, captured, catalog, clock, nextEdit, owed,
                 accepted, told>>

FinishDelete(r) ==
  LET e == r.by IN
  /\ Answer(r, "drop")
  /\ IF r.result = "ok"
     THEN /\ Remove(e, r.flow, (net \ {r}) \cup Asked(e, New))
          /\ page' = [page EXCEPT ![e] = Emptied(@)]
          /\ catalog' = [catalog EXCEPT ![e][r.flow] = 0]
          /\ UNCHANGED suppressed
     ELSE /\ suppressed' = [suppressed EXCEPT ![e] = @ \ {r.flow}]
          /\ net' = net \ {r}
          /\ UNCHANGED <<page, catalog, store>>
  /\ UNCHANGED <<server, board, served, captured, clock, nextEdit, events, owed,
                 accepted, told>>

(* The executor and the lanes of an empty canvas settle by effects of their *)
(* own: the auto-save runs once more.                                       *)
Rerender(e) ==
  /\ Idle(e) /\ page[e].skip > 0
  /\ page' = [page EXCEPT ![e].dirty = TRUE]
  /\ UNCHANGED <<server, board, served, net, store, suppressed, captured, catalog,
                 clock, nextEdit, events, owed, accepted, told>>

-----------------------------------------------------------------------------
(* The page: the effects of a render. *)

(* The draft the route names. *)
RouteDraft(e) == IF page[e].route = New THEN NoDraft ELSE local[e][page[e].route]
RouteTasks(e) == IF page[e].route = New THEN 0 ELSE catalog[e][page[e].route]

TasksAreNewer(e) == RouteTasks(e) >= RouteDraft(e).at

PageFacts(e) ==
  LET p == page[e]
      d == RouteDraft(e) IN
  [changed |-> ~p.loaded, fresh |-> p.route = New, target |-> FALSE,
   prefer |-> p.prefer, draft |-> Has(d), chat |-> d.chat > 0, pending |-> d.planning,
   snapshot |-> RouteTasks(e) > 0, newer |-> TasksAreNewer(e),
   drafting |-> p.drafting, blank |-> p.edits = {}, here |-> p.flow = p.route]

(* Fault: the page comes back without it. *)
WithoutRuntime(e, p) == p

(* What the page remembers of a flow's planner comes back with the flow. *)
WithRuntime(e, p) ==
  IF p.flow # New /\ captured[e][p.flow].known
  THEN [p EXCEPT !.chat = captured[e][p.flow].chat,
                 !.planning = captured[e][p.flow].planning]
  ELSE p

(* Fault: the version the page was filled with is not noted. *)
FromDraftUnnoted(e, p, d) ==
  WithRuntime(e, [p EXCEPT !.flow = p.route, !.edits = d.edits, !.chat = d.chat,
                           !.planning = d.planning, !.drafting = TRUE])

FromDraft(e, p, d) ==
  WithRuntime(e, [p EXCEPT !.flow = p.route, !.edits = d.edits, !.chat = d.chat,
                           !.planning = d.planning, !.drafting = TRUE,
                           !.hydOf = p.route, !.hydAt = d.at, !.skip = 2])

FromNothing(e, p) ==
  WithRuntime(e, [p EXCEPT !.flow = p.route, !.edits = {}, !.chat = 0,
                           !.planning = FALSE, !.drafting = TRUE,
                           !.hydOf = p.route, !.hydAt = 0])

TasksOnly(p) == [p EXCEPT !.edits = {0}, !.chat = 0]

FromTasks(e, p) ==
  WithRuntime(e, [TasksOnly(p) EXCEPT !.flow = p.route, !.planning = FALSE,
                                      !.drafting = FALSE])

Filled(e, p, apply) ==
  CASE apply = "draft" -> FromDraft(e, p, RouteDraft(e))
    [] apply \in {"seeded", "empty"} -> FromNothing(e, p)
    [] apply = "snapshot" -> FromTasks(e, p)
    [] apply = "snapshot_canvas" -> TasksOnly(p)
    [] apply = "nothing" -> p

(* The hydration effect: a loaded page that waits for the planner is left alone. *)
Hydrates(e) == page[e].look /\ ~(page[e].loaded /\ page[e].planning)
Chosen(e) == IF Hydrates(e) THEN Decide(PageFacts(e)) ELSE Keep("nothing")
Hydrated(e) ==
  [Filled(e, page[e], Chosen(e).apply) EXCEPT !.loaded = @ \/ Chosen(e).load]

(* The auto-save effect sees the page as rendered (p) and the references    *)
(* the hydration has set (q).                                               *)
ShownIn(p, d) == p.edits = d.edits /\ p.chat = d.chat /\ p.planning = d.planning

MaySave(p, q) ==
  /\ p.dirty /\ p.drafting /\ q.skip = 0 /\ p.flow # New
  /\ p.flow = p.route => p.ready
  /\ ~(p.route # New /\ p.edits = {})

StoreIsNewer(e, p, q) ==
  Has(local[e][p.flow]) /\ q.hydOf = p.flow /\ local[e][p.flow].at > q.hydAt

Reloads(e, q) == MaySave(page[e], q) /\ StoreIsNewer(e, page[e], q)
Saves(e, q) ==
  /\ MaySave(page[e], q) /\ ~StoreIsNewer(e, page[e], q)
  /\ ~(Has(local[e][page[e].flow]) /\ ShownIn(page[e], local[e][page[e].flow]))

Shown(e) ==
  [rev |-> local[e][page[e].flow].rev, edits |-> page[e].edits, chat |-> page[e].chat,
   planning |-> page[e].planning, at |-> Now]

(* The page's planner state is remembered unless the page is being filled. *)
Remembered(e) ==
  LET p == page[e] IN
  IF Chosen(e).apply \notin {"nothing", "snapshot_canvas"} \/ p.flow = New THEN captured
  ELSE [captured EXCEPT ![e][p.flow] =
          [chat |-> p.chat, planning |-> p.planning, known |-> TRUE]]

(* Fault: the count is not checked. *)
SkipsUnchecked(p, q) == IF p.dirty THEN q.skip - 1 ELSE q.skip

(* Renders a filled page goes through are not taken for edits. *)
SkipsLeft(p, q) == IF p.dirty /\ p.drafting /\ q.skip > 0 THEN q.skip - 1 ELSE q.skip

Committed(e) ==
  LET p == page[e]
      q == Hydrated(e)
      moved == <<p.flow, p.edits, p.chat, p.planning, p.drafting>>
               # <<q.flow, q.edits, q.chat, q.planning, q.drafting>> IN
  [q EXCEPT !.skip = SkipsLeft(p, q),
            !.loaded = @ /\ ~Reloads(e, q),
            !.hydOf = IF Saves(e, q) THEN p.flow ELSE @,
            !.hydAt = IF Saves(e, q) THEN Now ELSE @,
            !.look = moved \/ Reloads(e, q) \/ Chosen(e).load,
            !.dirty = Chosen(e).apply # "nothing", !.click = FALSE]

Commit(e) ==
  /\ page[e].look \/ page[e].dirty
  /\ page' = [page EXCEPT ![e] = Committed(e)]
  /\ captured' = Remembered(e)
  /\ IF Saves(e, Hydrated(e))
     THEN Persist(e, page[e].flow, Shown(e), net) /\ clock' = Now
     ELSE UNCHANGED <<store, net, clock>>
  /\ UNCHANGED <<server, board, served, suppressed, catalog, nextEdit, events,
                 owed, accepted, told>>

-----------------------------------------------------------------------------
Settle(r) == SaveAccepted(r) \/ SaveConflicts(r) \/ SaveFails(r)
Receive(r) == Settle(r) \/ DeleteAnswered(r) \/ ListAnswered(r) \/ RefetchAnswered(r)
              \/ FinishDelete(r)
Serve(r) == ReadForSave(r) \/ WriteSave(r) \/ ServeDelete(r) \/ ServeList(r)
            \/ ServeDrop(r) \/ NotServed(r)

Next ==
  \/ \E r \in net : Receive(r) \/ Serve(r) \/ Fail(r)
  \/ \E f \in Flow : TouchBoard(f)
  \/ \E e \in Editor :
       \/ LoadTasks(e) \/ OpenNew(e) \/ Edit(e) \/ Prompt(e) \/ Reply(e)
       \/ StartDelete(e) \/ Rerender(e) \/ Commit(e)
       \/ \E f \in Flow : OpenFlow(e, f) \/ CreateBlankFlow(e, f)

(* Requests are served and answered, and rendered pages run their effects. *)
Fairness ==
  /\ WF_vars(\E r \in net : Serve(r) \/ Receive(r))
  /\ \A e \in Editor : WF_vars(Commit(e))

Spec == Init /\ [][Next]_vars
FairSpec == Spec /\ Fairness

-----------------------------------------------------------------------------
(* Properties. *)

TypeOK ==
  /\ server \in [Flow -> Draft]
  /\ board \in [Flow -> Nat]
  /\ served \in BOOLEAN
  /\ net \subseteq Request
  /\ page \in [Editor -> Page]
  /\ local \in [Editor -> [Flow -> Draft]]
  /\ waiting \in [Editor -> [Flow -> Draft]]
  /\ inFlight \in [Editor -> SUBSET Flow]
  /\ removed \in [Editor -> SUBSET Flow]
  /\ suppressed \in [Editor -> SUBSET Flow]
  /\ api \in [Editor -> {"unknown", "enabled", "disabled"}]
  /\ status \in [Editor -> {"synced", "unsynced", "conflict", "kept"}]
  /\ captured \in [Editor -> [Flow -> Runtime]]
  /\ catalog \in [Editor -> [Flow -> Nat]]
  /\ owed \in [Editor -> Nat]
  /\ clock \in Nat /\ nextEdit \in Nat /\ events \in Nat
  /\ accepted \subseteq Nat /\ told \in [Editor -> SUBSET Flow]

Saving(e, f) == {r \in net : r.kind = "save" /\ r.by = e /\ r.flow = f}

(* A page has at most one save of a flow on its way, and knows it; a record *)
(* that waits has a save before it whose answer will send it.               *)
OneSaveAtATime ==
  \A e \in Editor, f \in Flow :
    /\ f \in inFlight[e] <=> Saving(e, f) # {}
    /\ \A r, s \in Saving(e, f) : r = s
    /\ Has(waiting[e][f]) => f \in inFlight[e]

(* Nothing a user saved is lost without a word: every edit in the store of  *)
(* a page is one the server has held, or is in the save on its way or the   *)
(* record that waits, unless the page has reported a save of the flow as    *)
(* failed or refused and none was accepted since, or the server has no      *)
(* drafts (flushDraftSyncQueue).                                            *)
OnTheirWay(e, f) == (UNION {r.draft.edits : r \in Saving(e, f)}) \cup waiting[e][f].edits
EditsAccountedFor ==
  \A e \in Editor, f \in Flow :
    api[e] # "disabled" /\ f \notin told[e]
      => local[e][f].edits \subseteq accepted \cup OnTheirWay(e, f)

(* A page that waits for the planner goes on waiting until the answer comes *)
(* or its user leaves the flow, whatever is filled in from store or tasks;  *)
(* except for a wait it has not remembered yet, of a flow another page has  *)
(* shown as well: it may be replaced by the answer that page has saved      *)
(* (useFlowDraftHydrationRuntime.ts, plannerRuntimeByFlowIdRef).            *)
BorrowedWait(e) ==
  /\ ~page[e].click /\ ~captured[e][page[e].flow].planning
  /\ \E d \in Editor \ {e} : captured[d][page[e].flow].known
WaitSurvives ==
  [][\A e \in Editor :
       (page[e].planning
        /\ page'[e].flow = page[e].flow /\ page'[e].route = page[e].route)
         => page'[e].planning \/ owed'[e] < owed[e] \/ BorrowedWait(e)]_page

(* The queue never gets stuck: a flow that is being saved becomes idle.    *)
QueueDrains ==
  \A e \in Editor, f \in Flow : f \in inFlight[e] ~> f \notin inFlight[e]

(* The effects of a page do not trigger each other for ever.               *)
EffectsSettle == \A e \in Editor : []<>Idle(e)
==============================================================================
