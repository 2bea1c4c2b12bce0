----------------------------- MODULE PlannerPage -----------------------------
(***************************************************************************)
(* The flow page as a client of planner sessions: what it shows of a       *)
(* session, the event stream it listens to, and the requests by which it   *)
(* prompts and stops the planner (frontend/src/hooks/useFlowPlanner*.ts,   *)
(* usePlannerOperationQueue.ts, components/flowPlannerRealtimeEventUtils.ts,*)
(* flow-page/hooks/useFlowPlannerRuntimeBridge.ts, useFlowPlannerActions.ts;*)
(* the server's side is flow_planner_sse and the generate and stop routes  *)
(* of app/api/tasks_flow_planner.py).                                      *)
(*                                                                         *)
(* One page shows one flow at a time.  A flow's first prompt makes the key *)
(* of its session; the page asks whether the session exists, subscribes,   *)
(* gets the whole session and then its changes.  Operations on nodes are   *)
(* queued and played one at a time; a snapshot that arrives meanwhile      *)
(* waits.  The stream may break and the user may leave the flow, reload    *)
(* the page or stop the planner at any moment.                             *)
(*                                                                         *)
(* A conversation is the sequence of its authors, "u" the user, "a" anyone *)
(* else.  A node is <<session that planned it, number>>; the user's own    *)
(* node is Own.  The sequence numbers of the stream are left out: a stream *)
(* delivers in order, and its first event resets the page's watermark.     *)
(***************************************************************************)
EXTENDS Integers, Sequences, FiniteSets, SequencesExt

CONSTANTS
  Session, Flow, \* keys of planner sessions; flows
  None,          \* no session
  MaxTurn,       \* bound: node changes and messages of a session's planner
  MaxPrompt,     \* bound: prompts and stops
  MaxCut         \* bound, together: broken streams, lost requests, flows
                 \* switched, reloads

ASSUME PageAssumption ==
  /\ None \notin Session \cup Flow /\ IsFiniteSet(Session)
  /\ {MaxTurn, MaxPrompt, MaxCut} \subseteq Nat

Own == <<None, 0>>
Node == {Own} \cup Session \X (1 .. MaxTurn)
Author == {"u", "a"}
Ended == {"completed", "failed", "stopped"}
ServerStatus == {"none", "planning"} \cup Ended
PageStatus == {"idle", "planning"} \cup Ended

ServerSession == [status : ServerStatus, rev : Nat, nodes : SUBSET Node, lines : Seq(Author)]
NoSession == [status |-> "none", rev |-> 0, nodes |-> {}, lines |-> << >>]

Operation == [key : Session, put : BOOLEAN, node : Node]

(* planning, stopping, blocked: isPlanning, isPlannerStopping and          *)
(* isPlannerOverlayCloseBlocked; finish: the timer that unblocks;          *)
(* rev: the revision known of the session, -1 none; ops, snaps,  *)
(* flush: the operation queue, the waiting snapshots, the session whose    *)
(* operations the step timer plays; resync: sessions that wait for an      *)
(* authoritative snapshot.                                                 *)
Page == [flow : Flow, key : Session \cup {None}, status : PageStatus,
         planning : BOOLEAN, stopping : BOOLEAN, blocked : BOOLEAN, finish : BOOLEAN, pending : Nat,
         canvas : SUBSET Node, chat : Seq(Author), rev : Int,
         ops : Seq(Operation), snaps : SUBSET (Session \X SUBSET Node),
         flush : Session \cup {None}, resync : SUBSET Session]

(* What is kept of a flow that is left: its draft and its captured runtime. *)
Kept == [key : Session \cup {None}, status : PageStatus, planning : BOOLEAN,
         stopping : BOOLEAN, blocked : BOOLEAN, pending : Nat,
         canvas : SUBSET Node, chat : Seq(Author)]
NothingKept == [key |-> None, status |-> "idle", planning |-> FALSE,
                stopping |-> FALSE, blocked |-> FALSE,
                pending |-> 0, canvas |-> {}, chat |-> << >>]

(* An event of a session: what changed, with the session as it was then.   *)
(* first: part of the whole session a stream starts with.                  *)
Event == [kind : {"session", "messages", "patch", "snapshot"}, of : ServerSession,
          ops : Seq(Operation), first : BOOLEAN]

(* seen: what the stream has sent last, to send nothing twice; drain: it   *)
(* has sent the end of the session.                                        *)
Link == [stage : {"off", "probe", "absent", "wait", "join", "open"},
         inbox : Seq(Event), seen : ServerSession, sig : ServerSession,
         drain : BOOLEAN]
Linked(stage) == [stage |-> stage, inbox |-> << >>, seen |-> NoSession,
                  sig |-> NoSession, drain |-> FALSE]

Call == [kind : {"generate", "stop"}, id : Nat, key : Session, flow : Flow,
         nodes : SUBSET Node, stage : {"sent", "ensured", "instructed", "done"}, ok : BOOLEAN,
         heard : BOOLEAN]

VARIABLES
  server,  \* the planner sessions
  page,    \* the page
  kept,    \* the flows the page does not show
  link,    \* the event stream of the page's session
  calls,   \* requests on their way, being served or answered
  prompts, cuts,
  owner,   \* the flow whose prompt made a session; read by properties and to find a new key
  dropped  \* a stop threw away nodes not shown yet, and no snapshot came since;
           \* read by properties

vars == <<server, page, kept, link, calls, prompts, cuts, owner, dropped>>

Restored(f, k) ==
  [flow |-> f, key |-> k.key, status |-> k.status, planning |-> k.planning,
   stopping |-> k.stopping, blocked |-> k.blocked,
   finish |-> FALSE, pending |-> k.pending, canvas |-> k.canvas, chat |-> k.chat,
   rev |-> -1, ops |-> << >>, snaps |-> {}, flush |-> None, resync |-> {}]

Init ==
  /\ server = [s \in Session |-> NoSession]
  /\ \E f \in Flow, drawn \in SUBSET {Own} :
       page = Restored(f, [NothingKept EXCEPT !.canvas = drawn])
  /\ kept = [f \in Flow |-> NothingKept]
  /\ link = Linked("off")
  /\ calls = {} /\ prompts = 0 /\ cuts = 0
  /\ owner = [s \in Session |-> None] /\ dropped = FALSE

-----------------------------------------------------------------------------
(* The server publishes changes to the stream that listens. *)

Published(kind, s, ops) == [kind |-> kind, of |-> s, ops |-> ops, first |-> FALSE]

Hears(s) == page.key = s /\ link.stage \in {"join", "open"}
Publish(s, events) ==
  link' = IF Hears(s) THEN [link EXCEPT !.inbox = @ \o events] ELSE link

(* The planner works on a session once the prompt was handed to it. *)
Works(s) == server[s].status = "planning" /\ server[s].lines # << >>
Turns(s) ==
  server[s].rev + Cardinality({i \in DOMAIN server[s].lines : server[s].lines[i] = "a"})

(* One node is added or taken away, with a revision of its own. *)
PlannerPatches(s) ==
  /\ Works(s) /\ Turns(s) < MaxTurn
  /\ \E put \in BOOLEAN :
     \E n \in IF put THEN {<<s, server[s].rev + 1>>} ELSE server[s].nodes :
       LET now == [server[s] EXCEPT !.rev = @ + 1,
                                    !.nodes = IF put THEN @ \cup {n} ELSE @ \ {n}]
           op == [key |-> s, put |-> put, node |-> n]
       IN /\ server' = [server EXCEPT ![s] = now]
          /\ Publish(s, <<Published("patch", now, <<op>>), Published("snapshot", now, << >>),
                          Published("session", now, << >>)>>)
  /\ UNCHANGED <<page, kept, calls, prompts, cuts, owner, dropped>>

Says(now, s) == <<Published("messages", now, << >>), Published("session", now, << >>)>>

PlannerSays(s) ==
  /\ Works(s) /\ Turns(s) < MaxTurn
  /\ LET now == [server[s] EXCEPT !.lines = Append(@, "a")] IN
     /\ server' = [server EXCEPT ![s] = now]
     /\ Publish(s, Says(now, s))
  /\ UNCHANGED <<page, kept, calls, prompts, cuts, owner, dropped>>

(* A terminal state comes with a message of its own. *)
EndAs(s, status) ==
  LET now == [server[s] EXCEPT !.status = status, !.lines = Append(@, "a")] IN
  /\ server' = [server EXCEPT ![s] = now]
  /\ Publish(s, Says(now, s))

(* A planner that gives up ends its session alike. *)
PlannerEnds(s) ==
  /\ Works(s)
  /\ EndAs(s, "completed")
  /\ UNCHANGED <<page, kept, calls, prompts, cuts, owner, dropped>>

-----------------------------------------------------------------------------
(* The routes. *)

Replace(c, d) == (calls \ {c}) \cup {d}

(* ensure_session of the generate route: nothing is published. *)
Ensure(c) ==
  /\ c \in calls /\ c.kind = "generate" /\ c.stage = "sent"
  /\ server' = [server EXCEPT ![c.key] =
                  CASE @.status = "none" ->
                         [NoSession EXCEPT !.status = "planning", !.nodes = c.nodes]
                    [] @.status = "planning" /\ @.rev = 0 /\ c.nodes # {} ->
                         [@ EXCEPT !.nodes = c.nodes]
                    [] OTHER -> @]
  /\ calls' = Replace(c, [c EXCEPT !.stage = "ensured"])
  /\ UNCHANGED <<page, kept, link, prompts, cuts, owner, dropped>>

(* append_message of the generate route. *)
Instruct(c) ==
  /\ c \in calls /\ c.stage = "ensured"
  /\ LET now == [server[c.key] EXCEPT !.lines = Append(@, "u")] IN
     /\ server' = [server EXCEPT ![c.key] = now]
     /\ Publish(c.key, Says(now, c.key))
  /\ calls' = Replace(c, [c EXCEPT !.stage = "instructed"])
  /\ UNCHANGED <<page, kept, prompts, cuts, owner, dropped>>

Done(c, ok) ==
  IF c.heard THEN Replace(c, [c EXCEPT !.stage = "done", !.ok = ok]) ELSE calls \ {c}

(* dispatch_planner; a refusal fails the session. *)
Dispatch(c) ==
  /\ c \in calls /\ c.stage = "instructed"
  /\ \/ calls' = Done(c, TRUE) /\ UNCHANGED <<server, link>>
     \/ /\ calls' = Done(c, FALSE)
        /\ IF server[c.key].status = "planning" THEN EndAs(c.key, "failed")
           ELSE UNCHANGED <<server, link>>
  /\ UNCHANGED <<page, kept, prompts, cuts, owner, dropped>>

(* stop_for_user: an unknown or ended session is an error. *)
ServeStop(c) ==
  /\ c \in calls /\ c.kind = "stop" /\ c.stage = "sent"
  /\ IF server[c.key].status = "planning"
     THEN EndAs(c.key, "stopped") /\ calls' = Done(c, TRUE)
     ELSE calls' = Done(c, FALSE) /\ UNCHANGED <<server, link>>
  /\ UNCHANGED <<page, kept, prompts, cuts, owner, dropped>>

(* The request or its answer is lost: an error for the page. *)
LoseCall(c) ==
  /\ c \in calls /\ c.heard /\ c.stage # "done" /\ cuts < MaxCut
  /\ cuts' = cuts + 1
  /\ \/ c.stage = "sent" /\ calls' = Done(c, FALSE)
     \/ calls' = Done(c, FALSE) \cup {[c EXCEPT !.heard = FALSE]}
  /\ UNCHANGED <<server, page, kept, link, prompts, owner, dropped>>

-----------------------------------------------------------------------------
(* The operation queue of the page. *)

(* The place of the next operation of a session, 0 for none. *)
NextOf(p, s) == SelectInSeq(p.ops, LAMBDA o : o.key = s)

(* The queue without a session's operations. *)
OpsBut(p, s) ==
  LET Left[i \in 0 .. Len(p.ops)] ==
        IF i = 0 THEN << >>
        ELSE IF p.ops[i].key = s THEN Left[i - 1] ELSE Append(Left[i - 1], p.ops[i])
  IN Left[Len(p.ops)]
SnapsBut(p, s) == {w \in p.snaps : w[1] # s}

(* What the step timer plays next. *)
NextFlush(ops, snaps) ==
  IF ops # << >> THEN Head(ops).key
  ELSE IF snaps # {} THEN (CHOOSE w \in snaps : TRUE)[1] ELSE None

Busy(p) == p.ops # << >> \/ p.flush # None

ApplyPendingSnapshot(p, s) ==
  IF \E w \in p.snaps : w[1] = s
  THEN [p EXCEPT !.canvas = (CHOOSE w \in p.snaps : w[1] = s)[2],
                 !.snaps = SnapsBut(p, s)]
  ELSE p

(* clearPlannerOperationQueueRuntime(sessionKey). *)
ClearQueue(p, s) ==
  [p EXCEPT !.ops = OpsBut(p, s), !.snaps = SnapsBut(p, s),
            !.flush = IF @ \in {s, None} THEN NextFlush(OpsBut(p, s), SnapsBut(p, s))
                      ELSE @]
ClearAllQueues(p) == [p EXCEPT !.ops = << >>, !.snaps = {}, !.flush = None]

(* Fault: nobody starts the timer. *)
EnqueueOnly(p, ops) == [p EXCEPT !.ops = @ \o ops]

(* The timer starts even when there is no operation. *)
Enqueue(p, ops) ==
  [p EXCEPT !.ops = @ \o ops, !.flush = IF @ = None THEN p.key ELSE @]

ApplyOrQueueSnapshot(p, s, nodes) ==
  IF Busy(p) THEN [p EXCEPT !.snaps = SnapsBut(p, s) \cup {<<s, nodes>>}]
  ELSE [p EXCEPT !.canvas = nodes]

(* clearSessionQueueRuntime: the end of a session, or a gap.  The snapshot *)
(* that waits is applied before the queue goes.                            *)
ClearSessionRuntime(p, s) ==
  [ClearQueue(ApplyPendingSnapshot(p, s), s) EXCEPT !.pending = 0]

Played(p, i) ==
  IF i = 0 THEN p
  ELSE [p EXCEPT !.canvas = IF p.ops[i].put THEN @ \cup {p.ops[i].node} ELSE @ \ {p.ops[i].node},
                 !.ops = RemoveAt(@, i)]

(* Fault: the snapshot that waits is forgotten. *)
PlayOnly(p) ==
  LET s == p.flush
      played == Played(p, NextOf(p, s))
  IN IF NextOf(played, s) # 0 THEN played
     ELSE [played EXCEPT !.flush = None, !.snaps = {}]

Play(p) ==
  LET s == p.flush
      played == Played(p, NextOf(p, s))
      through == ApplyPendingSnapshot(played, s)
  IN IF NextOf(played, s) # 0 THEN played
     ELSE [through EXCEPT !.flush = NextFlush(through.ops, through.snaps)]

(* The step timer fires. *)
Step ==
  /\ page.flush # None
  /\ page' = Play(page)
  /\ UNCHANGED <<server, kept, link, calls, prompts, cuts, owner, dropped>>

-----------------------------------------------------------------------------
(* Events of the stream: resolvePlannerRealtimeIntent and                  *)
(* resolvePlannerRuntimeTransition, applied by applyPlannerRealtimeUpdate. *)

Terminal(p) == p.status \in Ended
Gap(p, m) == p.rev >= 0 /\ m.of.rev > p.rev + 1
(* Fault: an event of the known revision is old. *)
OldOrKnown(p, m) == m.of.rev <= p.rev
Old(p, m) == m.of.rev < p.rev

(* A gap clears the queue and the stream is started again; a snapshot may  *)
(* close it once one was noticed.                                          *)
NeedsResync(p, m) ==
  /\ m.kind # "messages" /\ Gap(p, m)
  /\ ~(m.kind = "snapshot" /\ p.key \in p.resync)

(* A snapshot that is shown, at once or when the queue has been played.    *)
Takes(p, m) == m.kind = "snapshot" /\ ~NeedsResync(p, m) /\ ~Old(p, m)

Resync(p) ==
  [ClearSessionRuntime(p, p.key) EXCEPT !.resync = @ \cup {p.key}]

Blocks(p) == [p EXCEPT !.blocked = TRUE, !.finish = FALSE]
Unblocks(p) == [p EXCEPT !.blocked = FALSE, !.finish = FALSE]
(* Fault: no timer unblocks. *)
BlocksForGood(p) == [p EXCEPT !.blocked = TRUE]
BlocksForAWhile(p) == [p EXCEPT !.blocked = TRUE, !.finish = TRUE]

Waits(p) == [Blocks(p) EXCEPT !.status = "planning", !.planning = TRUE]

OnSession(p, m) ==
  CASE Old(p, m) -> p
    [] ~Old(p, m) /\ m.of.status = "planning" ->
         IF m.of.rev = p.rev /\ Terminal(p) THEN p
         ELSE [Waits(p) EXCEPT !.stopping = FALSE]
    [] OTHER ->
         ClearSessionRuntime(
           [Unblocks(p) EXCEPT !.status = m.of.status, !.planning = FALSE,
                               !.stopping = FALSE], p.key)

(* An empty list does not take away a prompt that waits for its reply. *)
PendingReply(chat) == chat # << >> /\ chat[Len(chat)] = "u"

(* Fault: any list replaces the conversation. *)
MergedUnguarded(chat, lines) == lines

Merged(chat, lines) == IF lines = << >> /\ PendingReply(chat) THEN chat ELSE lines

OnMessages(p, m) ==
  LET shown == CASE p.status = "stopped" -> Unblocks(p)
                 [] p.status \in Ended \ {"stopped"} -> BlocksForAWhile(p)
                 [] OTHER -> Blocks(p)
  IN [shown EXCEPT !.chat = Merged(p.chat, m.of.lines)]

(* Nodes of a session that has ended for the page show for a while. *)
OnNodes(p, m) ==
  LET shown == IF Terminal(p) THEN BlocksForAWhile(p)
               ELSE Waits(p)
      known == [shown EXCEPT !.rev = m.of.rev]
  IN CASE Old(p, m) \/ (m.kind = "patch" /\ m.of.rev = p.rev) -> p
       [] ~Old(p, m) /\ m.kind = "patch" /\ m.of.rev # p.rev -> Enqueue(known, m.ops)
       [] OTHER -> [ApplyOrQueueSnapshot(known, p.key, m.of.nodes)
                      EXCEPT !.resync = @ \ {p.key}]

Handled(p, m) ==
  CASE NeedsResync(p, m) -> Resync(p)
    [] ~NeedsResync(p, m) /\ m.kind = "session" -> OnSession(p, m)
    [] m.kind = "messages" -> OnMessages(p, m)
    [] OTHER -> OnNodes(p, m)

-----------------------------------------------------------------------------
(* The stream. *)

(* The effect of a new key: the queue of the old session is dropped and    *)
(* the new one is asked for.                                               *)
WithKey(p, key) ==
  IF key = p.key THEN p
  ELSE [(IF p.key = None THEN p ELSE ClearQueue(p, p.key)) EXCEPT !.key = key, !.rev = -1]
LinkFor(key) == Linked(IF key = None THEN "off" ELSE "probe")

(* probeFlowPlannerSession, as the server sees it. *)
ServeProbe ==
  /\ link.stage = "probe"
  /\ link' = Linked(IF server[page.key].status = "none" THEN "absent" ELSE "wait")
  /\ UNCHANGED <<server, page, kept, calls, prompts, cuts, owner, dropped>>

(* clearStalePlannerSession. *)
StaleSession ==
  /\ link.stage = "absent"
  /\ page' = WithKey(page, None)
  /\ link' = LinkFor(None)
  /\ UNCHANGED <<server, kept, calls, prompts, cuts, owner, dropped>>

(* connectRealtime: the server subscribes the stream first ... *)
Subscribe ==
  /\ link.stage = "wait"
  /\ link' = Linked("join")
  /\ UNCHANGED <<server, page, kept, calls, prompts, cuts, owner, dropped>>

(* Sig: of a session event, whatever changes updated_at. *)
SentWhole(s) ==
  LET now == server[s]
      puts == SetToSeq({[key |-> s, put |-> TRUE, node |-> n] : n \in now.nodes})
      Whole(kind, ops) == [kind |-> kind, of |-> now, ops |-> ops, first |-> TRUE]
  IN <<Whole("session", << >>), Whole("messages", << >>), Whole("patch", puts),
       Whole("snapshot", << >>)>>

(* ... and then reads the session. *)
OpenStream ==
  /\ link.stage = "join"
  /\ link' = [link EXCEPT !.stage = "open", !.inbox = SentWhole(page.key) \o @,
                          !.seen = server[page.key], !.sig = server[page.key]]
  /\ UNCHANGED <<server, page, kept, calls, prompts, cuts, owner, dropped>>

(* What the stream forwards: what it has not sent yet. *)
Forwards(m) ==
  \/ m.first
  \/ m.kind = "session" /\ m.of # link.sig
  \/ m.kind = "messages" /\ m.of.lines # link.seen.lines
  \/ m.kind = "patch" /\ m.of.rev > link.seen.rev
  \/ m.kind = "snapshot" /\ m.of.rev >= link.seen.rev /\ m.of.nodes # link.seen.nodes

LinkAfter(m) ==
  LET sent == [link EXCEPT !.inbox = Tail(@)]
      fresh == Forwards(m) /\ ~m.first
  IN CASE m.kind = "session" ->
            IF fresh THEN [sent EXCEPT !.sig = m.of, !.drain = @ \/ m.of.status \in Ended]
            ELSE sent
       [] m.kind = "messages" ->
            IF fresh THEN [sent EXCEPT !.seen.lines = m.of.lines] ELSE sent
       [] m.kind = "patch" ->
            IF fresh THEN [sent EXCEPT !.seen.rev = m.of.rev] ELSE sent
       [] OTHER ->
            IF m.of.rev >= link.seen.rev
            THEN [sent EXCEPT !.seen.rev = m.of.rev, !.seen.nodes = m.of.nodes] ELSE sent

(* After the end of a session the stream closes with the next messages or  *)
(* nodes.                                                                  *)
Drained(m) ==
  link.drain /\ ~m.first
  /\ (m.kind = "messages" \/ (m.kind = "snapshot" /\ m.of.rev >= link.sig.rev))

Deliver ==
  /\ link.stage = "open" /\ link.inbox # << >>
  /\ LET m == Head(link.inbox) IN
     /\ page' = IF Forwards(m) THEN Handled(page, m) ELSE page
     /\ link' = IF (Forwards(m) /\ NeedsResync(page, m)) \/ Drained(m)
                THEN Linked("wait") ELSE LinkAfter(m)
     /\ dropped' = (dropped /\ ~(Forwards(m) /\ Takes(page, m)))
  /\ UNCHANGED <<server, kept, calls, prompts, cuts, owner>>

(* ... or after some seconds. *)
ServerCloses ==
  /\ link.stage = "open" /\ link.drain
  /\ link' = Linked("wait")
  /\ UNCHANGED <<server, page, kept, calls, prompts, cuts, owner, dropped>>

Cut ==
  /\ link.stage \in {"join", "open"} /\ cuts < MaxCut
  /\ cuts' = cuts + 1
  /\ link' = Linked("wait")
  /\ UNCHANGED <<server, page, kept, calls, prompts, owner, dropped>>

-----------------------------------------------------------------------------
(* The user. *)

StopShown(p) ==
  p.planning \/ p.stopping \/ (p.status = "planning" /\ p.key # None)
Awaiting(p) ==
  \/ p.planning \/ p.stopping \/ p.status = "planning"
  \/ p.status = "idle" /\ PendingReply(p.chat)

Request(kind, s, id, nodes) ==
  [kind |-> kind, id |-> id, key |-> s, flow |-> page.flow, nodes |-> nodes,
   stage |-> "sent", ok |-> FALSE, heard |-> TRUE]

Relink(key) == link' = IF key = page.key THEN link ELSE LinkFor(key)

SessionForPrompt(p) ==
  IF p.key # None THEN p.key ELSE CHOOSE new \in Session : owner[new] = None

(* A plan was asked for, or could not be. *)
PlanStarts(p, s) ==
  [Waits(WithKey(p, s)) EXCEPT !.stopping = FALSE, !.pending = prompts + 1,
                               !.chat = Append(@, "u")]
PlanFails(p) ==
  [BlocksForAWhile(p) EXCEPT !.planning = FALSE, !.status = "failed",
                             !.stopping = FALSE, !.pending = 0]

(* handlePlanByInstruction up to its request. *)
Prompt ==
  /\ ~StopShown(page) /\ prompts < MaxPrompt
  /\ page.key # None \/ \E s \in Session : owner[s] = None
  /\ LET s == SessionForPrompt(page) IN
     /\ page' = PlanStarts(page, s)
     /\ Relink(s)
     /\ owner' = [owner EXCEPT ![s] = page.flow]
     /\ calls' = calls \cup {Request("generate", s, prompts + 1, page.canvas)}
  /\ prompts' = prompts + 1
  /\ UNCHANGED <<server, kept, cuts, dropped>>

(* The answer is for the page when it shows the flow and waits for it. *)
StillAwaited(c) == c.flow = page.flow /\ c.id = page.pending

(* The nodes of the answer are not taken: the stream brings them.          *)
PlanAnswered(p, key) == [WithKey(p, key) EXCEPT !.pending = 0]

(* ... and after its answer, unless the page has moved on. *)
AnswerGenerate(c) ==
  /\ c \in calls /\ c.kind = "generate" /\ c.stage = "done"
  /\ page' = CASE StillAwaited(c) /\ c.ok -> PlanAnswered(page, c.key)
                [] StillAwaited(c) /\ ~c.ok -> PlanFails(page)
                [] OTHER -> page
  /\ Relink(page'.key)
  /\ calls' = calls \ {c}
  /\ UNCHANGED <<server, kept, prompts, cuts, owner, dropped>>

(* handleStopPlanning up to its request: the page stops whatever comes. *)
Stop ==
  /\ StopShown(page) /\ ~page.stopping /\ prompts < MaxPrompt
  /\ LET emptied == IF page.key = None THEN ClearAllQueues(page) ELSE ClearQueue(page, page.key)
     IN page' = [Unblocks(emptied) EXCEPT
                   !.pending = 0, !.status = "stopped", !.planning = FALSE,
                   !.stopping = page.key # None]
  /\ calls' = IF page.key = None THEN calls
              ELSE calls \cup {Request("stop", page.key, 0, {})}
  /\ prompts' = prompts + 1
  /\ dropped' = (dropped \/ page.ops # << >> \/ page.snaps # {})
  /\ UNCHANGED <<server, kept, link, cuts, owner>>

(* ... and after its answer, whatever flow the page shows then. *)
AnswerStop(c) ==
  /\ c \in calls /\ c.kind = "stop" /\ c.stage = "done"
  /\ page' = IF c.ok
             THEN [page EXCEPT !.status = "stopped", !.planning = FALSE, !.blocked = FALSE,
                               !.stopping = FALSE]
             ELSE [page EXCEPT !.stopping = FALSE]
  /\ calls' = calls \ {c}
  /\ UNCHANGED <<server, kept, link, prompts, cuts, owner, dropped>>

(* The finish timer fires. *)
Unlock ==
  /\ page.finish
  /\ page' = Unblocks(page)
  /\ UNCHANGED <<server, kept, link, calls, prompts, cuts, owner, dropped>>

(* The flow as capturePlannerRuntimeSnapshot and its draft keep it. *)
Leave(p) ==
  [key |-> p.key, status |-> p.status, planning |-> p.planning, stopping |-> p.stopping,
   blocked |-> p.blocked, pending |-> p.pending,
   canvas |-> p.canvas, chat |-> p.chat]

(* Fault: another flow keeps the operation queue. *)
SwitchKeepsQueue(f) ==
  /\ f # page.flow /\ cuts < MaxCut
  /\ cuts' = cuts + 1
  /\ kept' = [kept EXCEPT ![page.flow] = Leave(page)]
  /\ page' = [Restored(f, kept[f]) EXCEPT !.resync = page.resync, !.ops = page.ops,
                !.snaps = page.snaps, !.flush = page.flush]
  /\ link' = LinkFor(kept[f].key)
  /\ UNCHANGED <<server, calls, prompts, owner, dropped>>

(* resetPlannerRuntimeState, then restorePlannerRuntimeSnapshot. *)
SwitchFlow(f) ==
  /\ f # page.flow /\ cuts < MaxCut
  /\ cuts' = cuts + 1
  /\ kept' = [kept EXCEPT ![page.flow] = Leave(page)]
  /\ page' = [Restored(f, kept[f]) EXCEPT !.resync = page.resync]
  /\ link' = LinkFor(kept[f].key)
  /\ UNCHANGED <<server, calls, prompts, owner, dropped>>

(* The page is loaded anew, from its drafts. *)
Drafted(k) == [k EXCEPT !.pending = 0]
Reload ==
  /\ cuts < MaxCut
  /\ cuts' = cuts + 1
  /\ page' = Restored(page.flow, Drafted(Leave(page)))
  /\ kept' = [f \in Flow |-> Drafted(kept[f])]
  /\ link' = LinkFor(page.key)
  /\ calls' = {[c EXCEPT !.heard = FALSE] : c \in {d \in calls : d.stage # "done"}}
  /\ UNCHANGED <<server, prompts, owner, dropped>>

-----------------------------------------------------------------------------
Planner == \E s \in Session : PlannerPatches(s) \/ PlannerSays(s) \/ PlannerEnds(s)
Serve == \E c \in calls : Ensure(c) \/ Instruct(c) \/ Dispatch(c) \/ ServeStop(c)
Answer == \E c \in calls : AnswerGenerate(c) \/ AnswerStop(c)
Stream == ServeProbe \/ StaleSession \/ Subscribe \/ OpenStream \/ Deliver
Timers == Step \/ Unlock
User == Prompt \/ Stop \/ Reload \/ \E f \in Flow : SwitchFlow(f)
Faults == ServerCloses \/ Cut \/ \E c \in calls : LoseCall(c)

Next == Planner \/ Serve \/ Answer \/ Stream \/ Timers \/ User \/ Faults
Spec == Init /\ [][Next]_vars

-----------------------------------------------------------------------------
(* Types. *)
TypeOK ==
  /\ DOMAIN server = Session
  /\ \A s \in Session :
       server[s].status \in ServerStatus /\ server[s].rev \in 0 .. MaxTurn
       /\ server[s].nodes \subseteq Node
  /\ page.flow \in Flow /\ page.key \in Session \cup {None} /\ page.status \in PageStatus
  /\ page.rev \in -1 .. MaxTurn /\ page.canvas \subseteq Node /\ page.flush \in Session \cup {None}
  /\ page.ops # << >> \/ page.snaps # {} => page.flush # None
  /\ calls \subseteq Call

(* The stream is connected and has nothing to tell. *)
Quiet ==
  /\ link.stage = "open" /\ link.inbox = << >> /\ ~link.drain
  /\ page.ops = << >> /\ page.flush = None /\ calls = {}

(* Once everything has arrived and was played, the page shows the planner's *)
(* nodes: operations, snapshots and reconnections add up to the session,    *)
(* whatever the order of ends, stops and prompts.  Only what a stop threw   *)
(* out of the queue may be missing, until the next snapshot                 *)
(* (usePlannerOperationQueue.ts, useFlowPlannerRuntime.ts).                 *)
CanvasFollows ==
  Quiet /\ ~dropped => page.canvas \ {Own} = server[page.key].nodes \ {Own}

(* A plan that has ended is not waited for: no flag of the page keeps the   *)
(* canvas locked, whatever was stopped, lost, left or restored              *)
(* (flowPlannerRealtimeEventUtils.ts, handleStopPlanning).                  *)
EndIsSeen == Quiet /\ server[page.key].status \in Ended => ~Awaiting(page)

(* The planner's overlay can be closed by the user or will be unblocked by  *)
(* the finish timer once nothing is waited for (usePlannerRuntimeTimers.ts). *)
OverlayOpens == Quiet /\ page.blocked => Awaiting(page) \/ page.finish

(* A flow shows nodes of its own sessions only: what one session has queued *)
(* never reaches another flow (clearPlannerOperationQueueRuntime).          *)
OwnPlanOnly ==
  /\ \A n \in page.canvas \ {Own} : owner[n[1]] = page.flow
  /\ \A f \in Flow \ {page.flow} : \A n \in kept[f].canvas \ {Own} : owner[n[1]] = f

(* A conversation is not emptied while the page shows it, although the      *)
(* stream may start before the first prompt is stored                       *)
(* (mergeFlowChatMessagesFromRealtime).                                     *)
PromptStays ==
  [][page'.flow = page.flow /\ page.chat # << >> => page'.chat # << >>]_vars
==============================================================================
