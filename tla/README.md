# Linpo in TLA+

Linpo turns a requirement into a flow of nodes (the *planner*), confirms the
flow as rows of a *task board*, and sends each row to an AI agent through a
gateway when the rows it depends on are completed. This directory holds TLA+
models of its backend (`src/app`, FastAPI and SQLAlchemy) and of the pages that
are its clients (`src/frontend`, React), the TLC configurations that check them
and TLAPS proofs. The models are read off the code; `PROJECT.json` maps every
definition to the lines it stands for.

## 1. The system

One `uvicorn` process. The endpoints are synchronous functions that run in a
thread pool, each with a database session of its own; a few objects in memory
(the realtime hubs, the observer's buffers) are shared by all threads. The
database is SQLite by default (where `FOR UPDATE` is ignored), PostgreSQL
possibly. There is no background scheduler: whatever happens to the board
happens inside a request. Each browser tab is a page with a single thread, on
which handlers, effects, timers, answers and stream events are interleaved; an
answer finds whatever state the page has by then.

| Component | Source | State | Operations | Interacts with |
|---|---|---|---|---|
| Task board and dispatcher | `services/task_dispatch_service.py`, `services/task_service.py`, `api/tasks_runtime.py`, `api/tasks_flow_task.py` | table `tasks` (status, extras: dispatch status, dependencies, heartbeat), output files | list (reconcile), confirm, interrupt, continue, stop, continue requirement, rename, delete, sync, quick create | gateway (send, pause), board hub |
| Board realtime hub | `services/board_task_realtime.py` | sequence number and subscriber queues per (user, board) | subscribe, publish, unsubscribe | task handlers, SSE streams |
| Realtime streams | `api/realtime.py`, `services/realtime_access_service.py` | one generator per stream | catch up, wait, heartbeat, recheck access | hubs, observer |
| Observer | `services/observer_data.py` | event buffer per channel (bounded), pending control requests with deadlines | append, read since, register, apply, expire | streams, agents |
| Flow drafts | `services/flow_draft_service.py`, `api/tasks_flow_draft.py` | table `flow_drafts` (revision, document) | list, upsert at a revision, delete | frontend sync |
| Planner session | `services/flow_planner_session_service.py` | tables of sessions (status, revision, nodes) and messages (sequence) | start, append events, complete, fail, stop, snapshot | planner routes |
| Planner routes | `api/tasks_flow_planner.py` | write lock and ingest owner per session key | generate, probe, stream, stop, internal events | session, hub, gateway |
| Planner realtime hub | `services/flow_planner_realtime.py` | sequence, subscribers | as the board hub | planner routes |
| Flow layers | `services/flow_canvas_service.py`, `api/tasks_dependencies.py` | none | layering of a graph | confirm |
| Decomposition | `services/flow_decomposition_service.py` | none | prompts, parsing | planner routes |
| Gateway | `services/openclaw_client.py`, `adapters/`, `services/provider_application_service.py` | none of its own | send, pause, history | agents |
| Accounts, instances, agents, views | `services/auth_service.py`, `api/instances.py`, `api/agents.py`, `services/aggregate_service.py`, `services/ops_service.py` | tables | CRUD, read-only views | all |
| Draft sync of the flow page | `frontend/src/components/flow-page/hooks/useFlowDraftSyncQueue.ts`, `useFlowDraftHydrationRuntime.ts`, `flowDraftStore.ts`, `flowRouteHydrationUtils.ts` | local store, saves in flight and waiting, what the page was filled with | edit, fill from store or tasks, queue, save, list, refetch, delete | draft routes |
| Planner in the flow page | `frontend/src/hooks/useFlowPlanner*.ts`, `usePlannerOperationQueue.ts`, `useFlowPlannerActions.ts`, `useFlowPlannerRuntimeBridge.ts` | session key, revision, conversation, operation queue, timers, captured runtimes | prompt, stop, probe, stream, play, switch flow, reload | planner routes and stream |
| Flow canvas | `flow-page/hooks/useFlowCanvasInteraction.ts`, `flowPageGraphUtils.ts`, `hooks/useBlockedFlowAutoSync.ts` | nodes, edges, lanes, executor, sync in flight | gestures, planner's nodes, confirm, sync a stopped flow | task routes |
| Wire contract | `api/taskFlowContract.ts`, `services/flow_draft_service.py`, `api/tasks_flow_draft.py` | none | encode, read, store, answer, decode | drafts, confirm, sync |
| Kanban page | `components/CollabPage.tsx`, `collab-page/`, `hooks/useCollabTaskSessionRuntime.ts` | list of rows, selected task, its output and session | load, events, select, poll, commands | task routes, board stream, session stream |
| Instance files page | `components/InstanceFilesPage.tsx`, `instance-files-page/` | list, selection, preview, editor | search, select, edit, save, create, delete | instance routes |
| Other pages | `SummaryPage.tsx`, `Layout.tsx`, login | none of their own | render | read-only routes |

### What is hard, and what makes each part correct

* **Board.** Requests interleave at every commit, a handler keeps a copy of a
  row across a gateway call of seconds, and the extras of a row are written as
  a whole. Correct means: a row reaches its agent at most once for each time it
  is queued, only after its dependencies; a row that was interrupted can be
  resumed; an ended row stays ended; no row is stuck for ever, a restart or a
  failing gateway notwithstanding; no row depends on a deleted one.
* **Hubs and streams.** A subscriber sees events in the order of their numbers,
  or learns that it has to load a snapshot; nothing published after a
  subscription is missed.
* **Observer.** A bounded buffer never passes off a gap as a complete history;
  a control request ends in one of applied and timed out.
* **Drafts.** A page edits on while a save is in flight, a list or a refetch is
  answered late, the planner answers, and the user deletes the flow or leaves
  it. Correct means: one save of a flow at a time, no edit lost without
  a report, a wait for the planner that nothing forgets, and
  effects that come to rest although each sets state the others read.
* **Planner session.** A terminal session stays terminal, a repeated event is
  idempotent, message numbers have no gaps and no duplicates, revisions grow.
* **Planner in the page.** Stream, snapshot, probe and answers overlap, and
  each of the four flags that lock the page is cleared by another of them.
  Correct means: when nothing is on its way the canvas is the session's, no
  flag waits for a session that has ended, and no flow shows another's plan.
* **Canvas.** Nodes come from gestures, the planner, refills and confirmations,
  each with a lane map. Correct means: the map names the nodes, what is
  confirmed can be executed, what is stored comes back, and the rows of a
  stopped flow end up as the canvas shows them, one request at a time.
* **Kanban page.** One list is written by whole loads and by single events, a
  detail copies a row of it, and a session is read by stream and by poll.
  Correct means: with nothing more to come, list and board agree but for the few
  ways to miss a row that are named, the detail agrees with the list, and the text
  catches up.
* **Files page.** Lists, previews and commands are answered late. Correct means:
  whatever a list lost is no longer selected, awaited or edited, and a file is
  never saved with the text of another.

## 2. The modules

| Module | Of | Composed with | Proofs |
|---|---|---|---|
| `TaskBoard` | the board, its handlers, the dispatcher, agents, clock, restarts | refines `TaskLifecycle` | `TaskBoardProofs`, `TaskBoardOverlapProofs` |
| `PlannerSession` | the session row and its messages, generate, callbacks, bridge, stop | refines `PlannerLifecycle` | `PlannerSessionProofs` |
| `DraftSync` | pages, their stores and queues, the draft routes and rows | extends `FlowRoute`, what a route shows | `DraftSyncProofs` |
| `PlannerPage` | the flow page as a client of sessions, with the server's stream | | `PlannerPageProofs` |
| `FlowCanvas` | the canvas, confirmation, automatic sync, with the server's rows | instantiates `FlowWire`, the contract of drafts | `FlowCanvasProofs` |
| `BoardPage` | the kanban page, with the board and the sessions it reads | | `BoardPageProofs` |
| `InstanceFiles` | the files page, with the shared directory | | `InstanceFilesProofs` |

`MC<Module>` gives the instances their values. Each page's module holds the part
of the server the page talks to, at the granularity of a request that is sent,
served, answered or lost: this is where the order of steps matters, and the
handlers' own interleavings are the matter of the first two modules.

What could follow, in order of importance: the sequence numbers of the hub of
the board (`board_task_realtime.py`) and the catching up of a stream; quick
creation and the incremental sync in `TaskBoard`; the observer's bounded buffer
and its control requests; the layering of `flow_canvas_service.py` against a
reference definition.

## 3. The model of the board

`TaskBoard.tla` has one user, one board, one instance and one requirement: the
queries of the code all filter by these, and rows of different requirements
meet only in the batch limit. Left out of the data are titles, artifacts, run
ids, timestamps other than the heartbeat, and published events.

**State.** `row` is the table, in order of creation; a deleted row keeps its
place with status `absent`. Of the extras the model keeps `dispatch_status`,
the dependencies and the age of `dispatch_last_heartbeat_at` (`none`, `fresh`,
`old` with respect to `LINPO_TASK_RUN_STALE_SECONDS`). `file` are the nodes
whose output file exists: the path is built from the flow and the node, not
from the row (`task_output_service.py:52-66`), so it survives the row.
`working` are the rows an agent works on. `req[r]` is a thread: which handler,
where it is, the rows still to visit, and its copy of the current row. `enq`,
`runs` and `done` are history variables and guard nothing.

**Steps.** A commit, a gateway call and the load that precedes them are one
action each:

| Action | Code |
|---|---|
| `ListTasks`, `ConfirmFlow`, `RequirementCommand`, `TaskCommand` | a request arrives; the query for the rows it will visit |
| `Visit*` | the body of the handler's loop up to its commit: the decision and the local copy of the extras |
| `PauseAgent` | `pause_agent`; failures are caught and the handler writes anyway |
| `Write` | `update_task_status` or `update_task_extras` and its commit |
| `Reload`, `ReloadMarked` | the `refresh` after that commit |
| `Drop` | `delete_task` and its commit; for one task, the query for the rows to rewire |
| `Create` | `create_task` for one node of a confirmed flow |
| `Select` ... `Acknowledge` | one round of `dispatch_queue_for_instance`: candidate, conditional claim, refresh, mark, refresh, send, answer |
| `AgentDelivers`, `AgentGivesUp` | an agent ends with or without the output file |
| `HeartbeatAges` | the stale window passes |
| `Crash` | the process restarts; the table, the files and the agents stay |

Points where the model follows the ORM and not the text of the handler:

* An attribute that is assigned the value it was loaded with emits no column.
  `Flushed` therefore keeps the status of the row in the table when the
  handler's new status equals the status it loaded; the extras are always
  written, as a whole.
* Sessions expire rows on commit. After a commit a handler sees the current
  row: `Visit` reads the table when it gets to the row. Several `Visit`s with
  no other thread in between are the case where the rows still come from the
  one query.
* An UPDATE or a refresh of a row that was deleted raises, and the request ends
  with a 500 in the middle of what it was doing. Deleting a row that is already
  gone only warns.
* The provider layer turns every gateway error into an `HTTPException`, which
  the handlers of pause and send catch.
* The claim is a single conditional UPDATE; everything else is read, compute,
  write.

**Deliberate simplifications.** Every row has an agent and the instance exists
(their absence fails a row before it is sent). A request ends well within the
stale window, so a heartbeat does not age while a request holds the row. The
agent's answer status is always `accepted`. Not in the model yet: quick
creation, incremental sync, previews and downloads.

`TaskLifecycle.tla` is the promise to the user about one row: created queued,
claimed, completed or failed; interrupted out of the queue or out of its run;
only an interrupted row is queued again; deleted at any time.
`TaskBoard!LifecycleSpec` maps each row to it, one abstract step or a stutter
per commit.

## 4. The runs

All of them use `MCTaskBoard.tla`: a flow (`ChainDep`, b depends on a, or
`FanOutDep`, b and c depend on a) and quotas, the number of times each command,
crash and send failure may occur. Listing, the agents and the clock have no bound. Threads are symmetric except
where liveness is checked.

| Run | Threads | Bounds, states | Properties | Shows |
|---|---|---|---|---|
| `serial` | 1 | batch 2, every command but two once, a crash, a send failure; fair; 922,000 | `DeletedNodeForgotten`, `LifecycleSpec`, `NoRowRunsForever` | handlers one at a time keep the board consistent and follow the life cycle; a restart strands no row as running |
| `races` | 2 | batch 2, confirm, interrupt, continue, rename, delete the requirement, a send failure; 2.6 million | `TypeOK`, `OneRunPerQueueing`, `DependenciesFirst`, `BlockedUnlessLate`, `LifecycleUnlessLate` | claims hold at any interleaving and across the rounds of a batch, and so do dependencies while no single task is deleted; only a late request leaves the life cycle |
| `queue` | 1 | three nodes, batch 32 (the default), a confirmation, a send failure; fair; 1,072 until the violation | `QueueAdvances` | **violated**: a runnable row waits for ever |

`QueueAdvances` says what docs/prd.md:36 says of the board, that the system
advances the rows along their dependencies: a row whose dependencies are completed
does not stay queued for ever. TLC refutes it in `queue`, with one request at a
time and nothing failing but one send. Node a ends; the listing that finds its
output completes it, which makes b and c runnable, and dispatches b only
(`list_tasks` calls `dispatch_queue_once`, `tasks_runtime.py:433`, and not
`dispatch_queue_for_instance`). The send of b fails; b is failed. From then on no
listing finds anything to reconcile, and a listing that changes nothing dispatches
nothing: c stays queued until the user gives some command. A restart between a
completion and the dispatch it triggers leaves the queue in the same way.

`DeletedNodeForgotten` and `LifecycleSpec` hold in `serial` and not with two
threads: what is missing is a row lock. For two threads, `races` checks what is
left of the life cycle and of the agreement of status and extras. A request is
*late* (`Late`) when the row it is about to write is no longer in the status the
handler loaded, or the dispatcher's claim gave it. `LifecycleUnlessLate`: every
step of every row is one of `TaskLifecycle`, but for the status a late request
writes, and the approval of a blocked row whose mark of interruption was lost.
`BlockedUnlessLate`: that mark (`BlockedIsInterrupted`: `blocked_by_approval` goes
with `interrupted`, in the table and in what will be written) is lost only by a
late request that writes its copy of the extras. A handler that forgets the guard
of the claim, or writes status and extras that disagree, violates them although
every request by itself is in time. What the model
lets two requests, or a repeated one, do, and the code does nothing against:

* an interruption that commits while the dispatcher awaits the gateway loses
  its mark, because `Acknowledge` writes the extras it copied before
  (`task_dispatch_service.py:165`) and leaves the status alone: the row is
  `blocked_by_approval` with extras `accepted`, and a later continue completes
  it instead of queueing it;
* `interrupt_task` writes its interruption over a row that was completed while
  it awaited the pause, and a request that loaded the extras before a deletion
  rewired them writes the old dependency back;
* the deletion of a single task rewires the rows that depend on it; a rename
  that loaded the extras before writes the deleted dependency back between claim
  and refresh of a dispatcher, and a node confirmed later under the same id is
  then one the row depends on and was not waited for. `DependenciesFirst` is
  therefore about boards where no single task has been deleted (`NoneDeleted`);
  without that condition TLC finds this sequence;
* of two continuations of one row the second queues a row that the first one
  has already sent (`tasks_runtime.py:331`);
* a flow that is confirmed again keeps the output files of its nodes, and the
  reconciler completes the new rows from them (`task_dispatch_service.py:198`).

**Bounds.** Two threads suffice for every race listed, all of them between two
holders of one row. A chain of two has a row that waits and one that does not;
the fan-out of three has two rows that become runnable at once.
Each command once gives every pair of commands in either order. `MaxTask` equals
what the quota of confirmations can create and never blocks an action.

**Fairness** (`FairSpec`). Weak fairness of `Handler(r)`: the thread pool runs
a request to its end and gateway calls have a timeout. Of `ListTasks(r)`: the
board is loaded again and again (the frontend lists on load and whenever its
stream reconnects); that is an assumption about the environment, because no
timer of the backend reconciles. Of `Clock` and `Agents`: time passes, and an
agent's run ends with or without output. No fairness of commands, crashes or
failures.

**Deadlock.** Not checked where the quotas may leave an empty board with no
command left; this end is one of the bounds.

## 5. What is proved

`TaskBoardProofs.tla` proves for every flow (any finite set of nodes and any
dependencies), any number of threads, any batch limit and any quotas, from
`BoardAssumption` alone:

* `TypeCorrect` – `Spec => []TypeOK`, which includes `RequestOK`: a request
  past a load holds a row that was created, one about to write means a real
  status, one that dispatches has a round left.
* `DispatchInvariant` – `Spec => []DispatchInv`, the inductive strengthening
  described below.
* `OneRun` – `Spec => []OneRunPerQueueing`.
* `DependenciesHold` – `Spec => []DependenciesFirst`.

`TaskBoardOverlapProofs.tla` proves, from the same assumption and for the same
generality:

* `OnlyLateRequestsLeave` – `Spec => LifecycleUnlessLate`, the simulation of
  `TaskLifecycle` step by step, whatever requests overlap.
* `OnlyLateRequestsUnmark` – `Spec => BlockedUnlessLate`.

`OneRunPerQueueing` says that no two requests hold the same queueing of a row
between claim and send and none holds one that was already sent. It is not
inductive: a claim could collide with a claim of the same number made before.
The strengthening is that claims and messages belong to queueings that have
happened (`TicketsInThePast`) and that the current queueing of a row *that is
still queued* is neither claimed nor sent (`QueuedIsUnclaimed`). The claim
needs the second part and destroys its premise; a flush that queues a row
starts a new queueing, which by the first part nobody can have claimed. The
proof has a lemma per action; the actions that change no row and claim nothing
share `QuietInv`. Rows may be completed, failed, interrupted, requeued and
deleted by other threads at any point of it: the guarantee rests on the guard
of the claim only.

`DependenciesFirst` speaks of a dispatcher past its claim, whose view of the other
rows may be older than the table. `DepsInv` has what makes an old view safe: a row
seen completed has been completed (`done` only grows), and while no single task
is deleted every row, and every copy of one a request may still write, carries
the dependencies the flow gave its node.

The two properties of overlapping requests rest on `MeansInv`: what a request means
to write is a move of the life cycle from the status *it loaded* (`Moves`), or the
approval of a blocked row. That depends on the request alone, so that no other
request can disturb it, and a write of a row still in that status is a step of the
life cycle. A request that is not late writes the extras it holds together with
the status they belong to (`CopyMarked`), so that it keeps status and extras in
agreement if they were.

Model-checked only: `DeletedNodeForgotten` and `LifecycleSpec`, which hold for one
request at a time, and liveness (out of the prover's reach).

## 6. The model of the planner session

`PlannerSession.tla` follows one session: `generate` creates or restores it,
appends the user's instruction and dispatches the planner; the planner reports
through internal callback routes, or a *bridge* thread of the process reads its
stream and reports on its behalf; the user may stop it at any time.

**State.** `session` is the row (status, revision, nodes) and `log` the
messages in the order of `seq`, of which only the key matters (`event_id`, or
`request_id`, or none). `writer` is the holder of the write lock, an object of
the process which the callbacks and the bridge take; `owner` says who ingests
(`none`, `observer`, `internal`). `rowLock` is the row lock of `SELECT ... FOR
UPDATE`; with `RowLock = FALSE`, which is SQLite, nobody ever has it. `req[r]`
is a thread with its transaction: the row as loaded (`seen`), as changed
(`copy`), the keys it knows, the message number it read (`next`), and the
messages it adds.

| Action | Code |
|---|---|
| `GenerateArrives`, `LoadForEnsure`, `LoadForInstruction`, `DispatchPlanner` | `generate_flow`: `create_or_restore_session`, `append_message`, the dispatch, the start of the bridge or `fail_session` |
| `CallbackArrives`, `EnterCallback` | an internal route up to the write lock and the claim of the ingestion |
| `BridgeReads`, `EnterBridge` | the loop of the bridge: both checks of the owner, outside and inside the write lock |
| `StopArrives` | `stop_flow_planner`, which takes no write lock |
| `LoadForEvents`, `LoadForNodes`, `LoadForComplete`, `LoadForEnd` | select of the row, check of its status, computation of the new one |
| `ReadSeq` | the keys stored so far and `max(seq) + 1` |
| `Apply`, `BatchApplied` | one event of a batch: duplicate, rejected on an ended session, idempotent, or taken |
| `Commit` | the write of the changed columns and the new messages, or the rollback |
| `Crash` | the process restarts: threads, both locks and the owner are gone |

Points where the model follows the database and the ORM:

* A commit writes the columns that differ from those loaded, over the row as it
  is then. Two transactions that changed different columns both survive.
* `UNIQUE (session_key, seq)` makes a commit fail as a whole if another
  transaction took the number; the request answers 500 and nothing is written.
  On SQLite this, with the write lock, is what keeps message numbers unique.
* A completion that changes nodes flushes them before the query for `seq`: from
  there on it is inside the database's write transaction, so load and
  message number are one step (`next = 0`).
* Messages are compared with keys stored in messages. An event without a
  message (`flow.nodes`) is remembered within its batch only.
* On an ended session an event with nodes or a status is accepted if it
  repeats what is there and otherwise rejects its whole batch; a plain message
  is still appended.
* The owner never goes back from `internal` while the process lives.

Left out: texts, `last_error`, `completed_at`, names, the listing of messages
(limited to 400) and what is published after the commit. A completion always
carries a message. The payloads of complete, fail, stop and the instruction
carry no event key. The parsing of the stream into events is outside the model:
`Batch` is any set of batches.

`PlannerLifecycle.tla` is the promise: created in planning, revisions grow, and
once ended neither status nor revision moves.

## 7. The runs of the planner session

All use `MCPlannerSession.tla`: two request threads and the bridge, two nodes,
two keys, three batches (a keyed message; nodes and the same message; a keyed
message with the final status and another message) and a quota per operation.

| Run | Row lock | Quota, states | Properties | Shows |
|---|---|---|---|---|
| `planner_locked` | yes | two generates, every other operation once, no deletion, no restart; 1.2 million | `TypeOK`, `BridgeYields`, `LifecycleSpec`, `RevisionNamesNodes` | status, revision and nodes are consistent, the bridge yields |
| `planner_feeds` | yes | one generate, deletion and restart, two callback and two bridge batches; 190,000 | `EveryEventOnce`, `EveryThreadEnds` | a repeated event is stored once; no circular wait, no lock kept after an error |

What the model lets happen and no property that holds forbids:

* without a row lock (SQLite) a stop and a completion both read `planning`, and
  the second commit changes the status of an ended session, which the comment
  at `flow_planner_session_service.py:1040` means to exclude;
* with the lock, a second `generate` reads the row without it (`:299`), the
  session is completed, and the canvas is written over the final nodes;
* a retried snapshot of nodes without a message is not remembered beyond its
  batch (`:1438`): snapshots k1, k2, k1 leave the nodes of k1.

**Bounds.** Two threads and the bridge give every pair of writers with and
without the write lock. Two generates are what two pages, or a repeated click,
send: `RevisionNamesNodes` says that nodes change only together with a larger
revision, excepting the canvas of a `generate` that read the session before its
first revision (`Seeds`), which is written without the lock over whatever is there
by then, and lost updates (`Overwrites`), of which there are none in these runs. Two deliveries by each feeder with a key in common are
what duplicate detection has to survive. The threads are symmetric; the
symmetry is not used in `planner_feeds`.

**Fairness.** Weak fairness of each thread's own steps: the pool runs a request
on, the gateway calls have timeouts and the bridge a time limit
(`_FLOW_PLANNER_OBSERVER_BRIDGE_MAX_SECONDS`). A thread that waits for a lock is
not enabled: that locks are given back is what the run shows. None for arrivals
or restarts.

**Deadlock.** Not checked as such, because requests are finitely many and the
system stops when the last has been answered; a real circular wait would
violate `EveryThreadEnds`.

## 8. What is proved of the planner session

`PlannerSessionProofs.tla`, from `SessionAssumption` alone, for any nodes,
batches, threads and quotas:

* `TypeCorrect` – `Spec => []TypeOK`, with mutual exclusion of the write lock.
* `BridgeStops` – `Spec => []BridgeYields`. A callback claims the ingestion only
  inside the write lock, so it cannot happen while the bridge is in there.
* `EventLoggedOnce` – `Spec => []EveryEventOnce`, *whatever `RowLock` is*. The
  inductive invariant (`LogInv`): a feeder between `ReadSeq` and `Commit` knows
  every key in the log, and the keys it adds are distinct and not in the log.
  It holds because only feeders add keys, feeders hold the write lock, and all
  other transactions add messages without a key.
* `OnlyLostUpdatesRevive` – `Spec => LifecycleUnlessOverwritten`, *whatever
  `RowLock` is*: step simulation of `PlannerLifecycle`, except for a lost update
  (`Overwrites`): without row locks, a thread that read the session in planning
  commits what it has made of it over a session changed since. With row locks
  there is no such step, and the theorem says what `planner_locked` checks as
  `LifecycleSpec`. The exception is what SQLite, the default, allows: a stop and a
  completion that overlap, as in section 7. What the theorem excludes on every
  database is any other way to revive an ended session: an operation that forgets
  to check the status, or the unlocked reads of `generate` and of the instruction.
  The inductive invariant (`RowInv`): what a transaction holds has evolved
  from what it loaded, and where it holds the row lock that is what is in the table.

* `RevisionCounts` – `Spec => RevisionNamesNodes`, *whatever `RowLock` is*, with the
  same exception for lost updates; from `RowInv` and `NodesInv`: the copy of a
  transaction either has the nodes it loaded or a larger revision.

Model-checked only: `EveryThreadEnds`.

## 9. Drafts: `DraftSync` and `FlowRoute`

**State.** Per page (`Editor`): `page`, what it shows with the flags of its
effects (`look`: the hydration effect is due, `dirty`: the auto-save is), `local`,
the store; `waiting` and `inFlight`, the queue; `removed`, `suppressed`, `api`,
`status`; `captured`, what is remembered of each flow's planner; `catalog`, the
tasks it knows. Shared: `server`, the rows of `flow_drafts`; `board`, when the
tasks of a flow were last touched; `net`, the requests. A draft is its revision,
the set of edits it includes, the length of its conversation, whether it waits
for the planner, and its time. `accepted` (edits a row of the server has held), `owed` (answers the
planner owes a page) and `told` (flows a page has reported as failed and not saved
since) are history variables.

| Action | Code |
|---|---|
| `Edit`, `Prompt`, `Reply`, `OpenFlow`, `OpenNew`, `CreateBlankFlow`, `StartDelete`, `FinishDelete`, `Rerender` | what user and planner do to the page, up to the setting of state |
| `Commit` | the effects of a rendering, in order: hydration (`FlowRoute!Decide`), auto-save (reload the store's draft, save, or skip), remembering of the planner |
| `Persist`, `FlushNext`, `Remove` | `persistDraftRecord` with `flushDraftSync`, `removeDraftRecord` |
| `SaveAccepted`, `SaveConflicts`, `SaveFails`, `DeleteAnswered`, `ListAnswered`, `RefetchAnswered` | the callbacks of the requests |
| `ReadForSave`, `WriteSave`, `ServeDelete`, `ServeList`, `ServeDrop`, `NotServed`, `Fail` | `upsert_flow_draft` up to its comparison, and its write; the other routes; a server without them; a lost request |
| `TouchBoard`, `LoadTasks` | the board changes; the page hears of it |

`FlowRoute` is `resolveFlowRouteHydrationDecision` as a function of twelve facts.

**Simplifications.** A user acts when the effects have run (`Idle`); the effects
of a click come before any answer; refetches of one flow merge; the load of the
tasks is one step; names, and the texts of errors, are left out.

**Runs.** `draft_page` (one page, one flow, two edits, one message, two events;
1.0 million states): `TypeOK`, `OneSaveAtATime`, `EditsAccountedFor`, `WaitSurvives`.
`draft_liveness` (one event; 57,000 states): `QueueDrains`, `EffectsSettle`. An
event is a navigation, a deletion, a lost request or a change of the board: two
of them give a deletion with a failure, a return to a flow, or a board that
changes while a save is lost. Two edits are an edit in flight and one that
waits; a second page would only add writers of the server's row, of which
`TouchBoard`, conflict and deletion leave the same traces on the page.

**Fairness** (`draft_liveness`). Requests are served and answered, since fetches
end; a rendered page runs its effects. None of the user, of lost requests, or of
the planner.

**Proved** (`DraftSyncProofs`, from `DraftAssumption`, any pages and flows):
`RouteSettles` – for every combination of facts a decision loads once and
changes the page's kind at most once more, which is why hydration does not feed
itself; `TypeCorrect`; `OneSave` – `Spec => []OneSaveAtATime`. The invariant
`SyncInv` adds to the types what the property leaves unsaid: a request other
than a list names a flow, and a page has exactly one save of each flow in
`inFlight` and none of the others. Most actions leave the saves alone; `Persist`
adds one only for an idle flow; the answers take one away and `FlushNext` puts
one back exactly when a record waits.

`NothingLostSilently` – `Spec => []EditsAccountedFor`: an edit in a page's store was
held by the server, is in the save on its way or in the record that waits, or a
failure of its flow was reported and none of its saves accepted since. `AccountInv`
adds what the property needs of the rest: whatever a request brings from the
server, or was accepted with, the server has held; a page takes the draft routes
for missing only where they are; and the draft of a flow the page has removed has
only such edits. The lemmas follow `Persist`, `Remove` and `FlushNext`, the only
ways a record moves between store, queue and network.

`RememberedWaitSurvives` – with any number of pages, a page that asked the planner,
or has rendered a wait once, goes on waiting until the answer, or until it shows
another flow or route. `RenderInv`: a page that is not loaded is about to run its
effects, and a click finds it loaded; so an effect that fills a page that waits
has what it remembers of the flow at hand (`WithRuntime`). `WaitGoesOn` –
`Spec => WaitSurvives`, the property for every wait, with any number of pages:
of a flow no other page has shown, a draft that waits, wherever it is (store, queue, network, server), was saved
by the page itself, which remembers its flow (`OwnInv`). The exception
(`BorrowedWait`) is a page that shows a wait it has not remembered, of a flow that
another page has shown as well: before its effects have run again a list may bring
the answer the other page has saved, and the wait is replaced by its end, which
TLC finds on two pages and one flow. With one page there is no exception.

**Not promised.** The page has one status message for all flows: an accepted save,
or an answered deletion, of another flow clears the report of a failure
(`useFlowDraftSyncQueue.ts:213`, `:327`), so that "synced" does not say that every
flow is; `EditsAccountedFor` is per flow, and says that there was a report. The
answer to a save writes the server's time into the local
draft while the page carries its own, so the page may take its own draft for a
newer one and load it over an edit made meanwhile (`useFlowDraftSyncQueue.ts:210`
with `useFlowDraftHydrationRuntime.ts:849`; docs/architecture.md:65 promises
local-first editing). A waiting record leaves with the newest local revision,
past the conflict check (`:192`). A deletion does not wait for the save in
flight, which may be served after it and create the draft again; a list read
before the deletion puts it back into the store. Two saves that read the same
revision both succeed (`ReadForSave`, `WriteSave`). All are reachable in the model.

## 10. The planner in the flow page: `PlannerPage`

**State.** `server` are the sessions, `page` what the page shows of one flow
(key, status, the flags `planning`, `stopping`, `blocked`, the timer `finish`,
the revision it knows, the operation queue `ops` with its waiting snapshots and
its step timer `flush`), `kept` what is remembered of flows that were left,
`link` the stream with its inbox and what it has sent last, `calls` the generate
and stop requests.

| Action | Code |
|---|---|
| `Prompt`, `Stop`, `SwitchFlow`, `Reload` | `handlePlanByInstruction`, `handleStopPlanning`, leaving and entering a flow, reloading the page |
| `Ensure`, `Instruct`, `Dispatch`, `ServeStop`, `AnswerGenerate`, `AnswerStop` | the routes step by step, and their answers |
| `PlannerPatches`, `PlannerSays`, `PlannerEnds` | what a session's planner reports, published to the stream |
| `ServeProbe`, `StaleSession`, `Subscribe`, `OpenStream`, `Deliver` | the probe, the subscription with its whole session, one event |
| `Step`, `Unlock` | the timers of the operation queue and of the overlay |
| `ServerCloses`, `Cut`, `LoseCall` | the stream ends or breaks; a request is lost |

**Simplifications.** One page; the stream delivers in order; the overlay's own
effects are left out; operations are decoded as the server meant them.

**Run.** `page_plans` (one session, two flows, two turns of the planner, two
prompts or stops, one fault; 4.1 million states): `TypeOK`, `CanvasFollows`,
`EndIsSeen`, `OverlayOpens`, `OwnPlanOnly`, `PromptStays`. `CanvasFollows`,
`EndIsSeen` and `OverlayOpens` speak of quiet states, where nothing is on its way:
what the page shows there it goes on showing. `dropped` is a history variable: a
stop threw away operations or a snapshot, and no snapshot was taken since. Two flows are needed for queued operations and
answers to meet another page; two turns for a queue with an operation playing
and one waiting. The flows are symmetric.

**Not promised.** A page that missed two revisions subscribes again for ever:
the new stream sends an event before the snapshot that would close the gap
(`useFlowPlannerRuntime.ts:102`; the comment at `:108` means to exclude it). The
run reaches this; the properties about quiet states say nothing there, and a
property that the gap closes is violated, however fair server and timers are. A stop
discards what is still queued (`useFlowPlannerActions.ts:577`), and nothing brings
it back before the next snapshot: when the stop's request is then lost and the
user prompts again, page and session are both planning, everything has arrived,
and nodes are missing. The proof of `CanvasFollows` found this beyond the bounds of the
run (it takes three prompts or stops), so that the property excepts it by
`dropped` and not by the status. A stop before the generate is served is answered
by an unknown session; a second round on an ended session shows the old end
first; the snapshot of a reconnection replaces manual edits.

**Proved** (`PlannerPageProofs`, any sessions, flows, turns and prompts):
`PageTypes`; `OwnPlans` – `Spec => []OwnPlanOnly`; `PromptsStay` –
`Spec => PromptStays`. `PageInv` says of everything that can bring nodes to a page
(an event in the inbox, an operation in the queue, a snapshot that waits, an
answer on its way, what is kept of a flow) that its session belongs to the flow it
will be shown for, and of the queue that a timer plays it. `ChatInv` follows the
conversation through inbox and answers: of the messages on their way only the first
may bring an empty list, and then the user's prompt was not answered yet. The
queue is written with `NextOf`, `OpsBut` and `Played`, functions on indices,
because the provers know nothing of `SelectSeq`.

`OverlayIsOpened` – `Spec => []OverlayOpens`. `OverlayInv`: an overlay that
nothing on the page will open is that of a restored page, which knows no revision,
and the first event of its stream, which then cannot be old, says how the session is.

`EndsAreSeen` – `Spec => []EndIsSeen`, along three invariants. `StreamInv`: the
page knows no revision the session has not reached, every event on its way shows
a past of the session, and when the session has ended, an event that shows it
otherwise is followed by one that shows the end. `RequestsInv`: an answer that is
kept is heard, and two heard prompts have different numbers. `EndInv`: while a stream is open to a
session that has ended, the page has taken the plan for over, or a request of its
own is still to be served or to fail, or the stream still has the end to tell.

`CanvasCatchesUp` – `Spec => []CanvasFollows`, along two more. `NodesInv`: page,
queue, snapshots, events and requests name nodes of the page's session only, numbered
up to its revision, and at most one snapshot waits. So every revision but
those that take the user's own node away changes the planner's nodes. `CanvasInv`
says that there is a function `H`, the plan by revision, which every event on its way shows;
an operation is followed by its snapshot and, unless it is on the user's own node,
`H` differs between its revision and the one before; every revision after the last one sent is on its way; and the page shows
`H` of the last one sent once its queue is played, or the very next event is
the snapshot that will. `H` is not a part of the model: the invariant says that
one exists, the proof extends it by one revision when the planner changes the plan.
The case that needs it is an operation the page plays on a plan it has not
been shown: the stream leaves out a snapshot whose nodes it sent last, and the
operation before it then was on the user's own node.

## 11. The canvas: `FlowCanvas` and `FlowWire`

**State.** `nodes` with dependencies and agents, `lanes`, `laneOf`, `executor`,
`edited`; `hand`, the form, drag or connection the user is at; `planning`;
`online`, the agents; the server's `rows` and the `tasks` the page knows; a stop
or continuation (`acting`), a confirmation (`confirming`); and the automatic sync:
`timer`, `inFlight`, `queued`, `synced` (the refs of `useBlockedFlowAutoSync`)
with its requests `calls`. `used` is a ghost: the ids there have been.

| Action | Code |
|---|---|
| `OpenNodeForm` ... `DeleteKey` | the gestures of `useFlowCanvasInteraction.ts` |
| `PlanStarts`, `PlannerDraft`, `PlanEnds` | the planner's nodes, reconciled with canvas and lanes |
| `Confirm`, `ServeConfirm`, `ConfirmAnswered`, `ConfirmFails` | preflight, `prepareNodesForSubmission`, the route, and its answer |
| `Act`, `ServeAct`, `ActAnswered` | stop and continue of the flow |
| `SyncEffect`, `SyncTimer`, `ServeSync`, `SyncAnswered`, `SyncEnds` | the effect, its timer, the route and the two stages of its answer |
| `Dispatch`, `Finish`, `Hear`, `Refill`, `ChooseExecutor` | rows run and end, the page hears of them, is filled from them; the executor |

`FlowWire` is the contract of drafts leg by leg: page (snake_case), wire
(camelCase), request models, stored row, answer, page, local store. The server
reads camelCase only, counts edges only for nodes sent without dependencies, and
gives a message without a kind the kind "message"; the page reads either name.

**Simplifications.** Positions, titles and descriptions are left out. One
instance; one gesture at a time, except for the Delete key; the page begins with
flow and agents loaded. `MoveTo` writes the lane of the node that is dragged,
also after the drag ended (`:776`). `isPlanning` and `isPlannerAutoMode` are one.
The server chooses any agent for a node without one (round robin).

**Run.** `canvas` (two nodes, three agents of which two are online, one lane
beside theirs, three steps; a new flow or one stopped before its first node
ended, three drafts; 900,000 states): `TypeOK`, `LanesFollowNodes`,
`OneSyncAtATime`, `ReopensAsLeft`, `SentIsRunnable`, `SyncSettles`. A step is a
gesture begun, a move, a change by the planner, a confirmation, a stop, a
continuation or a fault; answers, timers and renderings are free. Three steps
give an edit while a sync is in flight that then fails, and a loop of two nodes.

**Fairness.** Renderings, timers and answers come; the planner ends; dispatcher
and agents go on; the stream of rows delivers. Nothing is assumed of the user.
`SyncSettles` is `[]<>`: whenever a stopped flow is left alone long enough, rows
that may still be edited have the canvas's nodes, dependencies and agents.

**Proved** (`FlowCanvasProofs`, from `CanvasAssumption`, any nodes, agents, lanes):
`OneSync` (`FlightInv`: whatever is on its way is what the page holds as in
flight); `LanesFollow` (`LanesFollowNodes` is inductive: every way a node comes
or goes, the lane map goes with it); `SentRunnable` – whatever a confirmation
sends has the canvas's edges, agents that are online, and every node in a layer
above its dependencies (`TypeInv` keeps the canvas within the finite set of nodes;
on a finite canvas without a cycle, `DepthRises`: a node is deeper than what it
depends on, by the recursive function that peels the graph layer by layer); `NodesSurviveTheWire` – nodes
come back unchanged from drafts, confirmation and sync; `CanvasTypes` –
`Spec => []TypeOK`; `DraftReopens` – `Spec => []ReopensAsLeft`: the whole draft,
conversation and executor included, through every leg of `FlowWire`, for any draft
the page may hold. `SyncSettles` is model-checked.

**Not promised.** The canvas accepts loops (`useFlowCanvasInteraction.ts:630`) and
the automatic sync sends what the canvas holds without the check confirmation
makes, to a route that has none either (`useBlockedFlowAutoSync.ts:83`,
`tasks_flow_task.py:791`): rows of a stopped flow may come to depend on each
other in a circle, although docs/prd.md:12 speaks of a DAG.

## 12. The kanban page: `BoardPage`

**State.** `board`, `log`, `fresh`: the server's rows, the text of each session,
ids not used yet. `due`: the writes of the server's threads that are committed and
not yet published, with the row that was read back once it was (`read`). `rows`:
the list. `detail`: the selected task, a copy of a row; `text`, `refused`,
`preview`: its session and output. `feed` and `stream`: the two event streams.
`asked`, `read`: loads of the list not yet and already read by the server;
`history`, `outputs`, `sent`: requests; a command that is executed has the rows it
still has to write (`todo`) and to make (`new`). `torn` is a history variable: the
tasks whose row the page may not have been told.

| Action | Code |
|---|---|
| `ReadLoad`, `LoadAnswered`, `LoadFails` | `loadOverview` |
| `BoardEvent`, `FeedBreaks`, `FeedReconnects`, `FeedOpens` | `useBoardTasksRealtime` and `applyBoardRealtimeUpdate` |
| `OpenTaskDetail`, `CloseTaskDetail`, `OutputAnswered` | selection and the output effect |
| `ReadHistory`, `HistoryAnswered`, `HistoryFails`, `Poll`, `SessionEvent`, `StreamOpens`, `StreamBreaks`, `StreamReconnects` | `useCollabTaskSessionRuntime` |
| `InterruptSelectedTask` ... `RunFlow`, `CommandDone`, `CommandFails` | the commands on the page |
| `Accept`, `HandleRow`, `RowGone`, `MakeRow` | their handlers, one row at a time |
| `Claim`, `End`, `Touch`, `Speak` | dispatcher, reconciler, and agents |
| `Refresh`, `Publish` | `db_session.refresh` after a commit, and the hub |

A write is three steps of its thread, and those of two threads mix: the commit
(`Claim`, `End`, `Touch`, `HandleRow`, `MakeRow`), the reading back of the row, which
may find a later one or none (then the request ends with an error), and the
publication of what was read. What is published last may therefore not be what was
committed last. The statement that claims a row publishes nothing; its thread
goes on to read the row, and the write that follows it publishes. A quick-created row
names the session `__new__`, as all of them do (`Shared`): the page reads and
subscribes to that session like any other.

**Simplifications.** The rows at first belong to one flow or are quick-created; a
handler reads a row and writes it in one step (`TaskBoard` has the pause between);
at most one write of a kind and task is under way; an answer is lost before its
request is read or after its end; taking the hub's list of subscribers and
appending to their queues is one step; a restart of the server with a publication
pending is left out, and so are toasts, filters and the agents' column.

**Runs.** `board_list` (two tasks of which one is there, two writes or commands,
one fault, one detail; 2.9 million states): `TypeOK`, `ListFollows`,
`DetailFollows`. `board_panel` (two tasks, one piece of text each session, three
looks, one fault, fair; 215,000 states): `OwnOutput`, `PanelCatchesUp`. Two writes
are the least that can be published in the opposite order, or overlap with a
command; rows of either kind are there from the beginning; three looks leave a task
and come back to it.

**Fairness.** The poll fires, and a request for a history is read and answered:
the interval is set while a session is watched, and a fetch ends. The streams
have no fairness: only the poll is relied upon.

**Proved** (`BoardPageProofs`, from `BoardAssumption`, any tasks and bounds):
`ListIsBoard`, `DetailIsRow`, `OutputIsOwn`, and `BoardTypes` – `Spec => []TypeOK`,
whose invariant adds that only a detail has a stream. `ListFollows` is not
inductive. The invariant `FeedFollows` says of each task that a write under way
will tell the page its row (`Pending`), or that the last event on its way about it
tells its row on the board or is known to be late, and, where no such event is on
its way, that list and loads show the board's row of it unless set apart as torn.
A commit makes its own task pending; the reading back keeps it so; the publication
turns it into an event that tells the row, or is late.

**Not promised.** The page does not load the list again when the stream comes
back (`useBoardTasksRealtime.ts:50`), and neither events nor loads carry a version of
the row that is compared. So a row stays wrong until the next event or load of it
in three cases, which `ListFollows` names and excepts task by task: an event was
missed by a feed that was not open; what was published last was read back before
a later commit; a load shows another row than an event heard while it was on its
way. What `ListFollows` says is that there is no fourth, whatever overlaps.

## 13. The files page: `InstanceFiles`

**State.** `disk`; the search (`keyword`, `due`, `loads`) and the `listing`;
`selected`, `preview`, `asked`; the editor (`editing`, `text`); the form
(`form`, `created`), the one `command` on its way, `folded`. A text is named after
the file or document it was read from or typed for. `fresh` is a ghost: the editor
was opened on the preview of its own file.

| Action | Code |
|---|---|
| `Resolve`, `Search`, `SearchTimer`, `LoadAnswered`, `LoadFails` | the instance, the debounced search, the list with the effects it triggers |
| `Select`, `PreviewAnswered`, `Fold` | selection, preview, tree |
| `StartEdit`, `Type`, `Cancel`, `Save`, `Delete` | the editor and its file |
| `OpenCreate`, `ChooseTarget`, `CloseCreate`, `Create` | the dialog |
| `Serve`, `Answered`, `Failed`, `Reloaded`, `Refreshed` | a command on the server; its answer, reload of the list, refreshed preview |
| `AgentActs` | an agent writes or deletes a file |

**Simplifications.** Lists and previews are read when they are answered; the
effects have run before anything else; a folder is one level deep; messages and
downloads are left out.

**Run.** `files_page` (three files, one no text and one a task's output, one
document, two searches, four steps; 334,000 states): `TypeOK`,
`PageFollowsList`, `EditorKeepsToFile`. Four steps are an edit, its save, a
selection and a search, or a file an agent deletes meanwhile, with the answers in
any order; what the run shows for four the proofs show for any number.

**Proved** (`InstanceFilesProofs`, from `FilesAssumption`, any files, documents,
folders, keywords): `TypeCorrect`, `PageFollows`, `EditorKeeps`. The invariant adds
that no form is open beside the editor, that only a save of the edited file may be
on its way, and that the preview beside a fresh editor is its file's or none.

**Not promised.** After a save the preview of the saved file is painted on
whatever is selected by then (`InstanceFilesPage.tsx:494`), and editing may begin
on it: such an editor is not `fresh`. Creating a file whose name the search hides
empties the existing one (`:567`).

## 14. Hazards

`PROJECT.json` lists the hazards at their lines with the properties that cover
them. Where no property covers one, the code does nothing against it and the
model reaches it; the note says by which actions. One run, `queue`, shows the code
in disagreement with a document (section 4); what else the code lets happen against
a comment or document is described under "Not promised" and in sections 4 and 7. Deadlock is not checked in any run, because every bound may
be used up while nothing is on its way; the liveness properties take its place.

Summary of what rests on what:

| | Proved for all constants | Model-checked |
|---|---|---|
| Board | types, one run per queueing, dependencies first; with any overlap: only late requests leave the life cycle or lose a mark of interruption | with one request at a time: life cycle, deleted node forgotten; no row runs for ever |
| Planner session | types, bridge yields, event once; with or without row locks: life cycle and revisions but for lost updates | every thread ends |
| Drafts | route settles, types, one save, edits accounted for, remembered waits, every wait but a borrowed one | queue drains, effects settle |
| Planner in the page | types, own plan only, prompt stays, canvas follows, end is seen, overlay opens | |
| Canvas | types, one sync, lanes, runnable confirmation, draft reopens, nodes on the wire | sync settles |
| Kanban page | types, list, detail, output | panel catches up |
| Files page | types, page follows list, editor | |

Every invariant and every action property a run checks is stated by a theorem,
except for two of the run with one request at a time, `DeletedNodeForgotten` and the
board's `LifecycleSpec`, of which `LifecycleUnlessLate` is the proved form for
any overlap, and for the planner's `LifecycleSpec`, which with row locks is the
proved `LifecycleUnlessOverwritten`. The liveness properties (`NoRowRunsForever`,
`EveryThreadEnds`, `QueueDrains`, `EffectsSettle`, `SyncSettles`, `PanelCatchesUp`)
are TLC's alone: liveness under fairness is beyond the proof system.

## 15. Not modelled

* Quick creation of a task in `TaskBoard` (`BoardPage` has it), the incremental sync
  there (it is in `FlowCanvas`, as one step), previews and downloads of outputs.
* The realtime hubs' queues, sequence numbers and retention, heartbeats and
  back-off: `PlannerPage` and `BoardPage` have what a client receives, `BoardPage`
  with publications in any order of their commits. The number of a board event is
  taken under a lock and the event queued after it (`board_task_realtime.py:103`);
  the page ignores the number, so that only the order of queueing matters.
* The observer's bounded buffer, and control requests.
* Renaming of flows; the overlay's own effects; filters and the agents' column
  of the kanban page; the titles and positions of the canvas.
* Gateway protocol and adapters, prompts and their parsing, accounts,
  instances and agents, read-only aggregate and operations views, encryption,
  and rendering: I/O and text with little state of their own.
