------------------------------ MODULE TaskBoard ------------------------------
(***************************************************************************)
(* The task board of one requirement: the rows of the table `tasks`, the   *)
(* HTTP handlers that read and write them, and the queue dispatcher every  *)
(* handler ends with (app/services/task_dispatch_service.py,               *)
(* app/services/task_service.py, app/api/tasks_runtime.py and              *)
(* app/api/tasks_flow_task.py).                                            *)
(*                                                                         *)
(* A handler runs in a thread of the server's pool with a database session *)
(* of its own.  Each commit is one action; between two commits any other   *)
(* thread, the agents and a restart of the process may act.  A handler     *)
(* loads a row (Visit), works on its copy, possibly calls the agent        *)
(* gateway, and flushes the copy (Write).  The flush writes the extras as a*)
(* whole, and the status only when it differs from the loaded one: that is *)
(* how the ORM builds the UPDATE.                                          *)
(*                                                                         *)
(* Left out of the data: titles, artifacts, run ids, the timestamps other  *)
(* than the heartbeat, the agent id (every modelled task has one) and the  *)
(* published events.  One user, one board, one instance, one requirement.  *)
(***************************************************************************)
EXTENDS Naturals, FiniteSets

CONSTANTS
  Node,        \* the nodes of the confirmed flow
  Dep,         \* Dep[n]: the nodes n depends on
  MaxTask,     \* bound: rows ever created
  Req,         \* the request threads
  BatchLimit,  \* LINPO_TASK_DISPATCH_BATCH_LIMIT
  Quota        \* bound: how often each command, crash and send failure occurs

Task == 1..MaxTask
Command == {"confirm", "interrupt", "continue", "stop", "resume", "rename",
            "delete_task", "delete_requirement"}
Bounded == Command \cup {"crash", "send_error"}

ASSUME BoardAssumption ==
  /\ MaxTask \in Nat
  /\ IsFiniteSet(Node)
  /\ Dep \in [Node -> SUBSET Node]
  /\ BatchLimit \in Nat \ {0}
  /\ Quota \in [Bounded -> Nat]
  /\ Quota["confirm"] * Cardinality(Node) <= MaxTask

Status == {"queued", "running", "blocked_by_approval", "failed", "completed"}
RowStatus == Status \cup {"absent"}
DispatchStatus == {"pending", "running", "accepted", "failed", "completed",
                   "interrupted", "approved"}
Heartbeat == {"none", "fresh", "old"}
Extras == [dispatch : DispatchStatus, deps : SUBSET Node, heartbeat : Heartbeat]
Row == [node : Node, status : RowStatus, x : Extras]

Op == Command \cup {"none", "list", "rewire"}
Pc == {"idle", "visit", "pause", "write", "drop", "create", "reload",
       "select", "claim", "refresh", "mark", "marked", "send", "ack"}

VARIABLES
  row,      \* row[t] for t \in 1..born: the table `tasks`, in creation order
  born,     \* rows created so far
  file,     \* nodes whose output file exists
  working,  \* rows an agent is working on
  req,      \* req[r]: the state of request thread r
  quota,    \* what is left of Quota
  enq,      \* history: enq[t] = times row t entered the queue
  runs,     \* history: <<t, k>>: a message was sent for the k-th queueing of t
  done      \* history: rows that have been completed

vars == <<row, born, file, working, req, quota, enq, runs, done>>
world == <<file, working>>

Born == 1..born
Rows == {t \in Born : row[t].status # "absent"}
NoExtras == [dispatch |-> "pending", deps |-> {}, heartbeat |-> "none"]
Idle == [op |-> "none", pc |-> "idle", todo |-> {}, nodes |-> {}, task |-> 0,
         seen |-> "absent", to |-> "absent", x |-> NoExtras, budget |-> 0,
         ticket |-> 0]
Request == [op : Op, pc : Pc, todo : SUBSET Task, nodes : SUBSET Node,
            task : Task \cup {0}, seen : RowStatus, to : RowStatus, x : Extras,
            budget : Nat, ticket : Nat]

Init ==
  /\ row = << >> /\ born = 0
  /\ file = {} /\ working = {}
  /\ req = [r \in Req |-> Idle]
  /\ quota = Quota
  /\ enq = [t \in Task |-> 0] /\ runs = {} /\ done = {}

-----------------------------------------------------------------------------
(* Helpers. *)

Spend(c) == quota[c] > 0 /\ quota' = [quota EXCEPT ![c] = @ - 1]

(* The request is done with its copy of the row.                           *)
Settle(q) == [q EXCEPT !.seen = "absent", !.to = "absent", !.x = NoExtras, !.ticket = 0]
Committed(q) == [Settle(q) EXCEPT !.pc = "reload"]

(* The next row of its loop, then the rows it has to create, then the       *)
(* dispatcher, then the response.                                           *)
Advance(q) ==
  LET next == [Settle(q) EXCEPT !.task = 0] IN
  IF q.todo # {} THEN [next EXCEPT !.pc = "visit"]
  ELSE IF q.op = "confirm" /\ q.nodes # {} THEN [next EXCEPT !.pc = "create"]
  ELSE IF q.budget > 0 THEN [next EXCEPT !.pc = "select", !.nodes = {}]
  ELSE Idle

(* An HTTP error, or the end of the handler. *)
Finish(r) == req' = [req EXCEPT ![r] = Idle]

(* Faults for the runs to detect, here and below: the two status fields     *)
(* mixed up; the extras forgotten.                                          *)
FlushedMixedUp(t, seen, to, x) == [row[t] EXCEPT !.status = x.dispatch, !.x = x]
FlushedStatusOnly(t, seen, to, x) ==
  [row[t] EXCEPT !.status = IF to = seen THEN @ ELSE to]

(* Assigning an attribute the value it was loaded with emits no column.     *)
Flushed(t, seen, to, x) ==
  [row[t] EXCEPT !.status = IF to = seen THEN @ ELSE to, !.x = x]

(* Fault: a dependency that failed counts as well. *)
DepEnded(n) ==
  \E t \in Rows : row[t].node = n /\ row[t].status \in {"completed", "failed"}

(* tasks_by_flow_node keeps the last row of a node in creation order.       *)
DepCompleted(n) ==
  \E t \in Rows : /\ row[t].node = n /\ row[t].status = "completed"
                  /\ \A u \in Rows : row[u].node = n => u <= t

IsRunnableQueuedTask(t) ==
  row[t].status = "queued" /\ \A n \in row[t].x.deps : DepCompleted(n)

(* Fault: resuming retries what failed. *)
IsUnfinishedTask(t) == row[t].status \in {"blocked_by_approval", "failed"}

IsFlowInterruptedBlockedTask(t) ==
  row[t].status = "blocked_by_approval" /\ row[t].x.dispatch = "interrupted"

-----------------------------------------------------------------------------
(* The start of a handler: what it reads before its first commit. *)

Start(r, q) ==
  /\ req[r].pc = "idle"
  /\ req' = [req EXCEPT ![r] = q]
  /\ UNCHANGED <<row, born, world, enq, runs, done>>

(* GET tasks: reconcile every row, then dispatch once if anything changed.  *)
ListTasks(r) ==
  /\ Rows # {}
  /\ Start(r, [Idle EXCEPT !.op = "list", !.pc = "visit", !.todo = Rows])
  /\ UNCHANGED quota

ConfirmFlow(r) ==
  /\ Spend("confirm")
  /\ Start(r, Advance([Idle EXCEPT !.op = "confirm", !.todo = Rows, !.nodes = Node,
                                   !.budget = BatchLimit]))

(* Handlers of one requirement: stop, continue, rename, delete all rows.    *)
RequirementCommand(r, op) ==
  /\ Rows # {}
  /\ Spend(op)
  /\ Start(r, [Idle EXCEPT !.op = op, !.pc = "visit", !.todo = Rows,
                           !.budget = IF op \in {"rename", "resume"} THEN 0
                                      ELSE BatchLimit])

(* Handlers of one row: interrupt, continue, delete. *)
TaskCommand(r, op, t) ==
  /\ t \in Rows
  /\ Spend(op)
  /\ Start(r, [Idle EXCEPT !.op = op, !.pc = "visit", !.todo = {t},
                           !.budget = BatchLimit])

-----------------------------------------------------------------------------
(* The loop of a handler: load the next row, then flush what it decided. *)

(* list_tasks returns the newest row first; the reconciler sorts it back.   *)
NextInLoop(r, t) ==
  /\ t \in req[r].todo
  /\ \A u \in req[r].todo : IF req[r].op \in {"list", "rewire"} THEN t <= u ELSE t >= u

(* The row r loads next, with its status and a copy of its extras.          *)
Visiting(r, t) ==
  /\ req[r].pc = "visit" /\ NextInLoop(r, t)
  /\ UNCHANGED <<row, born, world, quota, enq, runs, done>>

Remaining(r, t) == [req[r] EXCEPT !.todo = @ \ {t}]

Skip(r, t) == req' = [req EXCEPT ![r] = Advance(Remaining(r, t))]

Decide(r, t, pc, to, x) ==
  req' = [req EXCEPT ![r] = [Remaining(r, t) EXCEPT !.pc = pc, !.task = t,
                               !.seen = row[t].status, !.to = to, !.x = x]]

(* Loading an expired row that is gone raises: the request ends with a 500. *)
VisitGone(r, t) == Visiting(r, t) /\ row[t].status = "absent" /\ Finish(r)

(* Fault: only the output file ends a run. *)
NeverStale(t) == FALSE

(* LINPO_TASK_RUN_STALE_SECONDS have passed since the last heartbeat. *)
IsStale(t) == row[t].x.heartbeat = "old"

(* reconcile_stale_running_tasks: the output file completes a running row,  *)
(* an old heartbeat fails it.                                               *)
VisitReconcile(r, t) ==
  LET x == row[t].x IN
  /\ Visiting(r, t) /\ req[r].op = "list" /\ row[t].status # "absent"
  /\ \/ /\ row[t].status = "running" /\ row[t].node \in file
        /\ Decide(r, t, "write", "completed",
                  [x EXCEPT !.dispatch = "completed", !.heartbeat = "fresh"])
     \/ /\ row[t].status = "running" /\ row[t].node \notin file /\ IsStale(t)
        /\ Decide(r, t, "write", "failed", [x EXCEPT !.dispatch = "failed"])
     \/ /\ \/ row[t].status # "running"
           \/ row[t].node \notin file /\ ~IsStale(t)
        /\ Skip(r, t)

(* interrupt_task: a row that is not queued or running is left alone and    *)
(* nothing is dispatched.                                                   *)
VisitInterrupt(r, t) ==
  /\ Visiting(r, t) /\ req[r].op = "interrupt" /\ row[t].status # "absent"
  /\ \/ /\ row[t].status \in {"queued", "running"}
        /\ Decide(r, t, IF row[t].status = "running" THEN "pause" ELSE "write",
                  "blocked_by_approval",
                  [row[t].x EXCEPT !.dispatch = "interrupted", !.heartbeat = "fresh"])
     \/ row[t].status \notin {"queued", "running"} /\ Finish(r)

(* continue_task: back to the queue, or completed when the row is blocked   *)
(* for an approval.                                                         *)
VisitContinue(r, t) ==
  LET x == row[t].x IN
  /\ Visiting(r, t) /\ req[r].op = "continue" /\ row[t].status # "absent"
  /\ \/ /\ row[t].status = "blocked_by_approval" /\ x.dispatch = "interrupted"
        /\ Decide(r, t, "write", "queued",
                  [x EXCEPT !.dispatch = "pending", !.heartbeat = "fresh"])
     \/ /\ row[t].status = "blocked_by_approval" /\ x.dispatch # "interrupted"
        /\ Decide(r, t, "write", "completed",
                  [x EXCEPT !.dispatch = "approved", !.heartbeat = "fresh"])
     \/ row[t].status # "blocked_by_approval" /\ Finish(r)

(* stop_requirement: queued and running rows are interrupted; the others    *)
(* keep their status and get their extras rewritten.                        *)
VisitStop(r, t) ==
  LET interrupted == [row[t].x EXCEPT !.dispatch = "interrupted"] IN
  /\ Visiting(r, t) /\ req[r].op = "stop"
  /\ \/ /\ row[t].status = "queued"
        /\ Decide(r, t, "write", "blocked_by_approval", interrupted)
     \/ /\ row[t].status = "running"
        /\ Decide(r, t, "pause", "blocked_by_approval", interrupted)
     \/ /\ row[t].status \in {"blocked_by_approval", "failed", "completed"}
        /\ Decide(r, t, "write", row[t].status, row[t].x)

(* continue_requirement: only rows that were interrupted. *)
VisitResume(r, t) ==
  /\ Visiting(r, t) /\ req[r].op = "resume" /\ row[t].status # "absent"
  /\ \/ /\ IsFlowInterruptedBlockedTask(t)
        /\ Decide(r, t, "write", "queued",
                  [row[t].x EXCEPT !.dispatch = "pending", !.heartbeat = "fresh"])
     \/ ~IsFlowInterruptedBlockedTask(t) /\ Skip(r, t)

(* rename_requirement rewrites the extras and no status. *)
VisitRename(r, t) ==
  /\ Visiting(r, t) /\ req[r].op = "rename" /\ row[t].status # "absent"
  /\ Decide(r, t, "write", row[t].status, row[t].x)

(* _remove_dependency_from_requirement_tasks: req[r].nodes is the node of   *)
(* the deleted row.                                                         *)
VisitRewire(r, t) ==
  LET x == row[t].x IN
  /\ Visiting(r, t) /\ req[r].op = "rewire" /\ row[t].status # "absent"
  /\ \/ /\ x.deps \cap req[r].nodes # {}
        /\ Decide(r, t, "write", row[t].status, [x EXCEPT !.deps = @ \ req[r].nodes])
     \/ x.deps \cap req[r].nodes = {} /\ Skip(r, t)

(* The handlers that delete the row they load. *)
VisitDelete(r, t) ==
  /\ Visiting(r, t) /\ req[r].op \in {"delete_task", "delete_requirement", "confirm"}
  /\ row[t].status # "absent"
  /\ Decide(r, t, "drop", row[t].status, row[t].x)

Visit(r, t) ==
  \/ VisitGone(r, t) \/ VisitReconcile(r, t) \/ VisitInterrupt(r, t)
  \/ VisitContinue(r, t) \/ VisitStop(r, t) \/ VisitResume(r, t)
  \/ VisitRename(r, t) \/ VisitRewire(r, t) \/ VisitDelete(r, t)

(* pause_agent: the gateway stops the agent's session or refuses; either    *)
(* way the handler goes on to its write.                                    *)
PauseAgent(r) ==
  /\ req[r].pc = "pause"
  /\ req' = [req EXCEPT ![r].pc = "write"]
  /\ \/ working' = working \ {req[r].task}
     \/ working' = working
  /\ UNCHANGED <<row, born, file, quota, enq, runs, done>>

(* The flush of an UPDATE, with the histories it feeds. *)
Flush(r) ==
  LET t == req[r].task
      new == Flushed(t, req[r].seen, req[r].to, req[r].x)
  IN  /\ row' = [row EXCEPT ![t] = new]
      /\ enq' = IF new.status = "queued" /\ row[t].status # "queued"
                THEN [enq EXCEPT ![t] = @ + 1] ELSE enq
      /\ done' = IF new.status = "completed" THEN done \cup {t} ELSE done

(* A reconciliation that changed something dispatches once; resuming the    *)
(* requirement dispatches a batch if some row was resumed.                  *)
DispatchDue(q) ==
  CASE q.op = "list"   -> [q EXCEPT !.budget = 1]
    [] q.op = "resume" -> [q EXCEPT !.budget = BatchLimit]
    [] OTHER           -> q

(* update_task_status and update_task_extras: an UPDATE that matches no row *)
(* raises.                                                                  *)
Write(r) ==
  /\ req[r].pc = "write"
  /\ \/ /\ row[req[r].task].status # "absent"
        /\ Flush(r)
        /\ req' = [req EXCEPT ![r] = Committed(DispatchDue(req[r]))]
     \/ /\ row[req[r].task].status = "absent"
        /\ Finish(r)
        /\ UNCHANGED <<row, enq, done>>
  /\ UNCHANGED <<born, world, quota, runs>>

(* Fault: the dependencies of the other rows are left alone. *)
DropWithoutRewire(r) ==
  /\ req[r].pc = "drop"
  /\ row' = [row EXCEPT ![req[r].task].status = "absent"]
  /\ req' = [req EXCEPT ![r] = Advance(@)]
  /\ UNCHANGED <<born, world, quota, enq, runs, done>>

(* The refresh after the commit of an INSERT or an UPDATE: a row deleted in *)
(* between raises.                                                          *)
Reload(r) ==
  /\ req[r].pc = "reload"
  /\ \/ row[req[r].task].status # "absent" /\ req' = [req EXCEPT ![r] = Advance(@)]
     \/ row[req[r].task].status = "absent" /\ Finish(r)
  /\ UNCHANGED <<row, born, world, quota, enq, runs, done>>

(* delete_task: deleting a row that is already gone only warns.  Deleting   *)
(* one task goes on to remove its node from the dependencies of the rows    *)
(* then found; the other handlers go on with their loop.                    *)
Drop(r) ==
  LET t == req[r].task IN
  /\ req[r].pc = "drop"
  /\ row' = [row EXCEPT ![t].status = "absent"]
  /\ req' = [req EXCEPT ![r] =
       Advance(IF req[r].op = "delete_task"
               THEN [req[r] EXCEPT !.op = "rewire", !.todo = Rows \ {t},
                                   !.nodes = {row[t].node}]
               ELSE req[r])]
  /\ UNCHANGED <<born, world, quota, enq, runs, done>>

(* create_task for the next node, in an order that respects the layers.     *)
Create(r) ==
  LET t == born + 1 IN
  /\ req[r].pc = "create" /\ t \in Task
  /\ \E n \in req[r].nodes :
       /\ Dep[n] \cap req[r].nodes = {}
       /\ row' = [u \in 1..t |->
                    IF u = t THEN [node |-> n, status |-> "queued",
                                   x |-> [NoExtras EXCEPT !.deps = Dep[n]]]
                             ELSE row[u]]
       /\ req' = [req EXCEPT ![r] = Committed([req[r] EXCEPT !.task = t, !.nodes = @ \ {n}])]
  /\ born' = t
  /\ enq' = [enq EXCEPT ![t] = 1]
  /\ UNCHANGED <<world, quota, runs, done>>

-----------------------------------------------------------------------------
(* dispatch_next_queued_task, repeated up to the batch limit. *)

(* The first runnable row in creation order; without one the handler ends.  *)
Select(r) ==
  LET runnable == {t \in Rows : IsRunnableQueuedTask(t)} IN
  /\ req[r].pc = "select"
  /\ \/ /\ runnable = {} /\ Finish(r)
     \/ \E t \in runnable :
          /\ \A u \in runnable : t <= u
          /\ req' = [req EXCEPT ![r].pc = "claim", ![r].task = t]
  /\ UNCHANGED <<row, born, world, quota, enq, runs, done>>

(* Fault: the claim does not look at the status. *)
ClaimUnconditionally(r) ==
  /\ req[r].pc = "claim"
  /\ row' = [row EXCEPT ![req[r].task].status = "running"]
  /\ req' = [req EXCEPT ![r].pc = "refresh", ![r].ticket = enq[req[r].task]]
  /\ UNCHANGED <<born, world, quota, enq, runs, done>>

(* UPDATE ... WHERE id = t AND status = 'queued'.  Losing the race ends the *)
(* handler's dispatching.                                                   *)
ClaimTaskForDispatch(r) ==
  LET t == req[r].task IN
  /\ req[r].pc = "claim"
  /\ \/ /\ row[t].status = "queued"
        /\ row' = [row EXCEPT ![t].status = "running"]
        /\ req' = [req EXCEPT ![r].pc = "refresh", ![r].ticket = enq[t]]
     \/ /\ row[t].status # "queued"
        /\ Finish(r)
        /\ UNCHANGED row
  /\ UNCHANGED <<born, world, quota, enq, runs, done>>

(* refresh(candidate), then the local copy of the extras the dispatcher     *)
(* works on to its end.                                                     *)
RefreshCandidate(r) ==
  LET t == req[r].task IN
  /\ req[r].pc = "refresh"
  /\ \/ /\ row[t].status # "absent"
        /\ req' = [req EXCEPT ![r] =
             [req[r] EXCEPT !.pc = "mark", !.seen = row[t].status, !.to = "running",
                       !.x = [row[t].x EXCEPT !.dispatch = "running",
                                              !.heartbeat = "fresh"]]]
     \/ row[t].status = "absent" /\ Finish(r)
  /\ UNCHANGED <<row, born, world, quota, enq, runs, done>>

(* update_task_status(status="running"): the commit, then the refresh. *)
MarkRunning(r) ==
  LET t == req[r].task IN
  /\ req[r].pc = "mark"
  /\ \/ /\ row[t].status # "absent"
        /\ Flush(r)
        /\ req' = [req EXCEPT ![r].pc = "marked"]
     \/ row[t].status = "absent" /\ Finish(r) /\ UNCHANGED <<row, enq, done>>
  /\ UNCHANGED <<born, world, quota, runs>>
ReloadMarked(r) ==
  LET t == req[r].task IN
  /\ req[r].pc = "marked"
  /\ \/ /\ row[t].status # "absent"
        /\ req' = [req EXCEPT ![r].pc = "send", ![r].seen = row[t].status]
     \/ row[t].status = "absent" /\ Finish(r)
  /\ UNCHANGED <<row, born, world, quota, enq, runs, done>>

(* send_chat_message: the gateway accepts the message, or the call raises   *)
(* before or after the agent got it.                                        *)
Send(r) ==
  LET t == req[r].task
      delivered == /\ working' = working \cup {t}
                   /\ runs' = runs \cup {<<t, req[r].ticket>>}
      result(to, d) == req' = [req EXCEPT ![r] =
                         [req[r] EXCEPT !.pc = "ack", !.to = to, !.x.dispatch = d]]
  IN
  /\ req[r].pc = "send"
  /\ \/ delivered /\ result("running", "accepted") /\ UNCHANGED quota
     \/ /\ Spend("send_error")
        /\ result("failed", "failed")
        /\ delivered \/ UNCHANGED <<working, runs>>
  /\ UNCHANGED <<row, born, file, enq, done>>

(* The result of the call goes into the row; then the next round, if any.   *)
Acknowledge(r) ==
  /\ req[r].pc = "ack"
  /\ \/ /\ row[req[r].task].status # "absent"
        /\ Flush(r)
        /\ req' = [req EXCEPT ![r] = Committed([req[r] EXCEPT !.budget = @ - 1])]
     \/ /\ row[req[r].task].status = "absent"
        /\ Finish(r)
        /\ UNCHANGED <<row, enq, done>>
  /\ UNCHANGED <<born, world, quota, runs>>

Dispatch(r) ==
  \/ Select(r) \/ ClaimTaskForDispatch(r) \/ RefreshCandidate(r)
  \/ MarkRunning(r) \/ ReloadMarked(r) \/ Send(r) \/ Acknowledge(r)

-----------------------------------------------------------------------------
(* The environment. *)

(* An agent ends its run with the output file of the node, or without it.   *)
AgentDelivers(t) ==
  /\ t \in working
  /\ working' = working \ {t}
  /\ file' = file \cup {row[t].node}
  /\ UNCHANGED <<row, born, req, quota, enq, runs, done>>

AgentGivesUp(t) ==
  /\ t \in working
  /\ working' = working \ {t}
  /\ UNCHANGED <<row, born, file, req, quota, enq, runs, done>>

(* LINPO_TASK_RUN_STALE_SECONDS pass.  A request ends well within them, so  *)
(* no copy of the row is held meanwhile; a row that never had a heartbeat   *)
(* is judged by updated_at, which the claim sets.                           *)
HeartbeatAges(t) ==
  /\ t \in Rows
  /\ \/ row[t].status = "running" /\ row[t].x.heartbeat # "old"
     \/ row[t].status = "queued" /\ row[t].x.heartbeat = "fresh"
  /\ \A r \in Req : req[r].task # t
  /\ row' = [row EXCEPT ![t].x.heartbeat = "old"]
  /\ UNCHANGED <<born, world, req, quota, enq, runs, done>>

(* The process restarts: every thread is lost, the table and the agents     *)
(* stay.                                                                    *)
Crash ==
  /\ \E r \in Req : req[r] # Idle
  /\ Spend("crash")
  /\ req' = [r \in Req |-> Idle]
  /\ UNCHANGED <<row, born, world, enq, runs, done>>

-----------------------------------------------------------------------------
Handler(r) ==
  \/ \E t \in Born : Visit(r, t)
  \/ PauseAgent(r) \/ Write(r) \/ Reload(r) \/ Drop(r) \/ Create(r) \/ Dispatch(r)

Arrival(r) ==
  \/ ListTasks(r) \/ ConfirmFlow(r)
  \/ \E op \in {"stop", "resume", "rename", "delete_requirement"} :
       RequirementCommand(r, op)
  \/ \E op \in {"interrupt", "continue", "delete_task"}, t \in Born :
       TaskCommand(r, op, t)

Agents == \E t \in Born : AgentDelivers(t) \/ AgentGivesUp(t)
Clock == \E t \in Born : HeartbeatAges(t)

Next ==
  \/ \E r \in Req : Arrival(r) \/ Handler(r)
  \/ Agents \/ Clock \/ Crash

Spec == Init /\ [][Next]_vars

(* Under fairness every request thread goes on (the server's pool), the     *)
(* clock goes on, agents end their runs and somebody keeps the board open,  *)
(* so that the list is fetched again and again.                             *)
FairSpec ==
  /\ Spec
  /\ \A r \in Req : WF_vars(Handler(r)) /\ WF_vars(ListTasks(r))
  /\ WF_vars(Clock) /\ WF_vars(Agents)

-----------------------------------------------------------------------------
(* Properties. *)

(* Types; a request that holds a row holds one that was created, a request *)
(* about to write means a status a row can have, and a request that         *)
(* dispatches has a round left.                                             *)
Dispatching == {"select", "claim", "refresh", "mark", "marked", "send", "ack"}
Holding == {"pause", "write", "drop", "reload"} \cup (Dispatching \ {"select"})
Writing == {"pause", "write", "mark", "marked", "send", "ack"}
RequestOK(q) ==
  /\ q \in Request /\ q.todo \subseteq Born
  /\ q.pc \in Holding => q.task \in Born
  /\ q.pc \in Writing => q.to \in Status
  /\ q.pc \in Dispatching => q.budget > 0
TypeOK ==
  /\ born \in 0..MaxTask
  /\ row \in [Born -> Row]
  /\ file \subseteq Node /\ working \subseteq Born
  /\ req \in [Req -> Request] /\ \A r \in Req : RequestOK(req[r])
  /\ quota \in [Bounded -> Nat]
  /\ enq \in [Task -> Nat] /\ runs \subseteq Born \X Nat /\ done \subseteq Born

(* A row is sent to its agent at most once each time it enters the queue,   *)
(* whatever number of requests dispatch at the same time: no two requests   *)
(* hold the same queueing of a row between the claim and the send, and none *)
(* holds one whose message is already out                                   *)
(* (task_dispatch_service.py, _claim_task_for_dispatch).                    *)
Claimed(r) == req[r].pc \in {"refresh", "mark", "marked", "send"}
Ticket(r) == <<req[r].task, req[r].ticket>>
OneRunPerQueueing ==
  \A r \in Req : Claimed(r) =>
    /\ Ticket(r) \notin runs
    /\ \A s \in Req \ {r} : Claimed(s) => Ticket(s) # Ticket(r)

(* Why: claims and messages belong to queueings that have happened, and the *)
(* current queueing of a row that is still queued is neither claimed nor    *)
(* sent.  With the property itself this is inductive.                       *)
TicketsInThePast ==
  /\ \A r \in Req : Claimed(r) => req[r].ticket <= enq[req[r].task]
  /\ \A p \in runs : p[2] <= enq[p[1]]
QueuedIsUnclaimed ==
  \A t \in Born : row[t].status = "queued" =>
    /\ <<t, enq[t]>> \notin runs
    /\ \A r \in Req : Claimed(r) => Ticket(r) # <<t, enq[t]>>
DispatchInv == TicketsInThePast /\ QueuedIsUnclaimed /\ OneRunPerQueueing

(* A message goes to an agent only after every node the row depends on has  *)
(* been completed once, whatever other requests confirm, rename, interrupt  *)
(* or drop meanwhile (task_dispatch_service.py, _is_runnable_queued_task).  *)
(* Deleting a single task is left out: it rewires the rows that depended on *)
(* it, and a handler that holds an older copy of their extras writes the    *)
(* dependency back (task_service.py, update_task_extras).                   *)
NoneDeleted == quota["delete_task"] = Quota["delete_task"]
DependenciesFirst ==
  NoneDeleted => \A r \in Req : req[r].pc \in {"mark", "marked", "send"} =>
    \A n \in req[r].x.deps : \E t \in done : row[t].node = n

(* A request is late when the row it is about to write is still there, but  *)
(* no longer in the status the handler loaded, or the dispatcher's claim    *)
(* gave it: no version is compared.                                         *)
Expected(r) == IF req[r].pc = "write" THEN req[r].seen ELSE "running"
Late(r) ==
  /\ req[r].pc \in {"write", "mark", "ack"}
  /\ row[req[r].task].status \notin {Expected(r), "absent"}

(* A blocked row is an interrupted one: continue_task requeues a row only   *)
(* then, and takes any other blocked row for approved.  This ends only with *)
(* a late request that writes its copy of the extras; every other handler,  *)
(* however the requests overlap, leaves the two columns of every row and    *)
(* the copies that will be written in agreement.                            *)
BlockedIsInterrupted ==
  /\ \A t \in Rows :
       row[t].status = "blocked_by_approval" => row[t].x.dispatch = "interrupted"
  /\ \A r \in Req :
       req[r].pc \in {"pause", "write"} /\ req[r].to = "blocked_by_approval"
         => req[r].x.dispatch = "interrupted"
BlockedUnlessLate ==
  [][BlockedIsInterrupted =>
       \/ BlockedIsInterrupted'
       \/ \E r \in Req : Late(r) /\ row'[req[r].task].x = req[r].x]_vars

(* Once every request is answered no row depends on a node that has no row: *)
(* deleting a row takes its node out of the dependencies of the others, or  *)
(* they would wait for ever (tasks_runtime.py,                              *)
(* _remove_dependency_from_requirement_tasks).  A restart may cut that short.*)
NoRestart == quota["crash"] = Quota["crash"]
DeletedNodeForgotten ==
  (\A r \in Req : req[r] = Idle) /\ NoRestart =>
    \A t \in Rows : row[t].x.deps \subseteq {row[u].node : u \in Rows}

(* No row stays running for ever, even if the process restarts between the  *)
(* claim and the send, or the agent gives up: the output or the stale       *)
(* timeout ends it (task_dispatch_service.py, reconcile_stale_running_tasks).*)
NoRowRunsForever ==
  \A t \in Task : (t \in Rows /\ row[t].status = "running")
                    ~> ~(t \in Rows /\ row[t].status = "running")

(* What docs/prd.md:36 says, that the system advances the rows along their  *)
(* dependencies: a row whose dependencies stay completed does not stay      *)
(* queued for ever.                                                         *)
QueueAdvances ==
  \A t \in Task : (t \in Rows /\ IsRunnableQueuedTask(t))
                    ~> ~(t \in Rows /\ IsRunnableQueuedTask(t))

(* The rows go through the life cycle the board promises. *)
State == [t \in Task |-> IF t > born THEN "new" ELSE row[t].status]
Lifecycle == INSTANCE TaskLifecycle WITH state <- State
LifecycleSpec == Lifecycle!Spec

(* With requests that overlap, the life cycle is left in two ways only: a   *)
(* late request sets the status it decided on, and a continuation completes *)
(* a blocked row whose extras name no interruption (interrupt_task,         *)
(* continue_task, reconcile_stale_running_tasks, dispatch_next_queued_task).*)
LateWrite(r) == Late(r) /\ State' = [State EXCEPT ![req[r].task] = req[r].to]
Approval(r) ==
  /\ req[r].op = "continue" /\ req[r].pc = "write"
  /\ row[req[r].task].status = "blocked_by_approval"
  /\ State' = [State EXCEPT ![req[r].task] = "completed"]
LifecycleUnlessLate ==
  [][Lifecycle!Next \/ \E r \in Req : LateWrite(r) \/ Approval(r)]_State
==============================================================================
