--------------------------- MODULE PlannerSession ---------------------------
(***************************************************************************)
(* One planner session: its row and its messages in the database, the      *)
(* callback routes of the planner, the thread that bridges the planner's   *)
(* stream into it, and the user who starts and stops it                    *)
(* (app/services/flow_planner_session_service.py and                       *)
(* app/api/tasks_flow_planner.py).                                         *)
(*                                                                         *)
(* Two locks: the write lock, an object of the process that callbacks and  *)
(* bridge take but the user's requests do not; and the row lock of SELECT  *)
(* ... FOR UPDATE, which SQLite ignores (RowLock = FALSE).  A transaction  *)
(* reads (Load, ReadSeq), changes its copy and commits; the commit writes  *)
(* the columns that differ from the loaded ones, and fails as a whole when *)
(* a message number is taken (UNIQUE session_key, seq).                    *)
(*                                                                         *)
(* Left out: the texts of messages, last_error, completed_at, the names,   *)
(* what is published (after the commit, under the write lock).             *)
(***************************************************************************)
EXTENDS Naturals, Sequences

CONSTANTS
  Node,        \* ids of the nodes a planner may propose
  Valid,       \* the sets of nodes a session can be completed with
  Key, NoKey,  \* event_id or request_id of an event, or none
  Batch,       \* the batches of events that may arrive
  Req, Bridge, \* the request threads and the bridge thread
  Nobody,
  RowLock,     \* whether the database honours FOR UPDATE
  Quota        \* bound: how often each operation occurs

Status == {"planning", "completed", "failed", "stopped"}
Callback == {"events", "upsert", "delete", "complete", "fail"}
Operation == Callback \cup {"generate", "stop", "bridge", "crash"}
Thread == Req \cup {Bridge}
Event == [kind : {"message", "nodes"}, key : Key \cup {NoKey},
          status : Status \cup {"none"}, nodes : SUBSET Node]

ASSUME SessionAssumption ==
  /\ Valid \subseteq SUBSET Node
  /\ NoKey \notin Key
  /\ Batch \subseteq Seq(Event)
  /\ Bridge \notin Req /\ Nobody \notin Thread
  /\ RowLock \in BOOLEAN
  /\ Quota \in [Operation -> Nat]

Session == [status : Status \cup {"none"}, revision : Nat, nodes : SUBSET Node]
NoSession == [status |-> "none", revision |-> 0, nodes |-> {}]

Op == Callback \cup {"none", "stop", "bridge", "ensure", "instruct", "dispatch", "give_up"}
Pc == {"idle", "watch", "lock", "load", "seq", "apply", "commit", "dispatch"}
Request == [op : Op, pc : Pc, events : Seq(Event), nodes : SUBSET Node,
            seen : Session, copy : Session, keys : SUBSET Key,
            next : Nat, added : Seq(Key \cup {NoKey}), last : BOOLEAN]
Idle == [op |-> "none", pc |-> "idle", events |-> << >>, nodes |-> {},
         seen |-> NoSession, copy |-> NoSession, keys |-> {},
         next |-> 0, added |-> << >>, last |-> FALSE]

VARIABLES
  session,  \* the row of flow_planner_sessions
  log,      \* flow_planner_messages in the order of seq: the key of each
  writer,   \* the thread in the write lock
  rowLock,  \* the thread that holds the row, if RowLock
  owner,    \* _FLOW_PLANNER_INGEST_OWNER_BY_SESSION
  req,      \* the threads
  quota     \* what is left of Quota

database == <<session, log>>
vars == <<session, log, writer, rowLock, owner, req, quota>>

Init ==
  /\ session = NoSession /\ log = << >>
  /\ writer = Nobody /\ rowLock = Nobody /\ owner = "none"
  /\ req = [r \in Thread |-> Idle]
  /\ quota = Quota

-----------------------------------------------------------------------------
(* Helpers. *)

Spend(op) == quota[op] > 0 /\ quota' = [quota EXCEPT ![op] = @ - 1]

Logged(k) == \E i \in 1..Len(log) : log[i] = k
LoggedKeys == {k \in Key : Logged(k)}

RowFree(r) == rowLock \in {Nobody, r}

(* Fault: a transaction that ends keeps the write lock. *)
KeepingRelease(r) ==
  /\ UNCHANGED writer
  /\ rowLock' = IF rowLock = r THEN Nobody ELSE rowLock

Release(r) ==
  /\ writer' = IF writer = r THEN Nobody ELSE writer
  /\ rowLock' = IF rowLock = r THEN Nobody ELSE rowLock

(* The end of a request, or of the bridge; a transaction is rolled back.    *)
End(r) == Release(r) /\ req' = [req EXCEPT ![r] = Idle]

(* Reading with FOR UPDATE: the row is r's until it commits or ends.        *)
TakeRow(r) == rowLock = Nobody /\ rowLock' = IF RowLock THEN r ELSE rowLock

(* What the transaction of r goes on with after it has read the session.    *)
Read(r, pc, copy, added) ==
  req' = [req EXCEPT ![r] =
    [req[r] EXCEPT !.pc = pc, !.seen = session, !.copy = copy, !.added = added,
                   !.keys = {}, !.next = 0]]

-----------------------------------------------------------------------------
(* Arrivals. *)

Start(r, q) == req[r] = Idle /\ req' = [req EXCEPT ![r] = q]

(* The planner's callbacks.  Its token exists once the session does.        *)
CallbackArrives(r) ==
  /\ session.status # "none"
  /\ \/ /\ Spend("events")
        /\ \E b \in Batch :
             Start(r, [Idle EXCEPT !.op = "events", !.pc = "lock", !.events = b])
     \/ \E op \in {"upsert", "delete"}, n \in Node :
          /\ Spend(op)
          /\ Start(r, [Idle EXCEPT !.op = op, !.pc = "lock", !.nodes = {n}])
     \/ \E ns \in SUBSET Node :
          /\ Spend("complete")
          /\ Start(r, [Idle EXCEPT !.op = "complete", !.pc = "lock", !.nodes = ns])
     \/ Spend("fail") /\ Start(r, [Idle EXCEPT !.op = "fail", !.pc = "lock"])
  /\ UNCHANGED <<database, writer, rowLock, owner>>

(* planner-stop: without the write lock. *)
StopArrives(r) ==
  /\ session.status # "none"
  /\ Spend("stop")
  /\ Start(r, [Idle EXCEPT !.op = "stop", !.pc = "load"])
  /\ UNCHANGED <<database, writer, rowLock, owner>>

(* generate, with the nodes on the user's canvas. *)
GenerateArrives(r) ==
  /\ Spend("generate")
  /\ \E ns \in SUBSET Node :
       Start(r, [Idle EXCEPT !.op = "ensure", !.pc = "load", !.nodes = ns])
  /\ UNCHANGED <<database, writer, rowLock, owner>>

-----------------------------------------------------------------------------
(* The write lock and the owner of the ingestion. *)

(* _run_internal_route_mutation: a callback owns the ingestion from now on. *)
EnterCallback(r) ==
  /\ req[r].pc = "lock" /\ req[r].op \in Callback
  /\ writer = Nobody /\ writer' = r
  /\ owner' = "internal"
  /\ req' = [req EXCEPT ![r].pc = "load"]
  /\ UNCHANGED <<database, rowLock, quota>>

(* Fault: the bridge relies on the check it made before it took the lock.   *)
EnterBridgeUnchecked ==
  /\ req[Bridge].pc = "lock"
  /\ writer = Nobody /\ writer' = Bridge
  /\ req' = [req EXCEPT ![Bridge].pc = "load"]
  /\ UNCHANGED <<database, rowLock, owner, quota>>

(* The bridge checks the owner again inside the lock; a batch of a bridge   *)
(* that lost the ingestion is dropped and the thread ends.                  *)
EnterBridge ==
  /\ req[Bridge].pc = "lock" /\ writer = Nobody
  /\ \/ /\ owner = "internal"
        /\ req' = [req EXCEPT ![Bridge] = Idle]
        /\ UNCHANGED <<writer, owner>>
     \/ /\ owner # "internal"
        /\ writer' = Bridge /\ owner' = "observer"
        /\ req' = [req EXCEPT ![Bridge].pc = "load"]
  /\ UNCHANGED <<database, rowLock, quota>>

(* The loop of the bridge: the next batch of the stream, or its end: the    *)
(* time is over, or the callbacks own the ingestion.                        *)
BridgeReads ==
  /\ req[Bridge].pc = "watch"
  /\ \/ /\ owner # "internal" /\ owner' = "observer"
        /\ Spend("bridge")
        /\ \E b \in Batch :
             req' = [req EXCEPT ![Bridge] =
               [req[Bridge] EXCEPT !.pc = "lock", !.events = b,
                  !.last = \E i \in 1..Len(b) : b[i].status \in Status \ {"planning"}]]
     \/ req' = [req EXCEPT ![Bridge] = Idle] /\ UNCHANGED <<owner, quota>>
  /\ UNCHANGED <<database, writer, rowLock>>

-----------------------------------------------------------------------------
(* Transactions: the load. *)

Loading(r, ops) ==
  /\ req[r].pc = "load" /\ req[r].op \in ops
  /\ UNCHANGED <<database, owner, quota>>

(* _ensure_session_is_mutable, on the row just read. *)
Immutable(r, ops) ==
  /\ Loading(r, ops) /\ rowLock = Nobody
  /\ session.status # "planning"
  /\ End(r)

LoadForEvents(r) ==
  /\ Loading(r, {"events", "bridge"})
  /\ TakeRow(r)
  /\ Read(r, "seq", session, << >>)
  /\ UNCHANGED writer

(* upsert_node and delete_node; what changes nothing is not committed.      *)
LoadForNodes(r) ==
  LET ns == IF req[r].op = "upsert" THEN session.nodes \cup req[r].nodes
            ELSE session.nodes \ req[r].nodes
  IN
  \/ Immutable(r, {"upsert", "delete"})
  \/ /\ Loading(r, {"upsert", "delete"}) /\ session.status = "planning"
     /\ ns = session.nodes /\ rowLock = Nobody /\ End(r)
  \/ /\ Loading(r, {"upsert", "delete"}) /\ session.status = "planning"
     /\ ns # session.nodes
     /\ TakeRow(r)
     /\ Read(r, "commit", [session EXCEPT !.nodes = ns, !.revision = @ + 1], << >>)
     /\ UNCHANGED writer

(* complete_session: nodes that do not validate fail the session.  Changed  *)
(* nodes are flushed by the query for the message number, which therefore   *)
(* runs inside the writing transaction (next = 0).                          *)
LoadForComplete(r) ==
  LET ns == req[r].nodes
      done == [session EXCEPT !.status = IF ns \in Valid THEN "completed" ELSE "failed"]
  IN
  \/ Immutable(r, {"complete"})
  \/ /\ Loading(r, {"complete"}) /\ session.status = "planning"
     /\ TakeRow(r)
     /\ IF ns = session.nodes THEN Read(r, "seq", done, <<NoKey>>)
        ELSE Read(r, "commit", [done EXCEPT !.nodes = ns, !.revision = @ + 1], <<NoKey>>)
     /\ UNCHANGED writer

(* Fault: nobody looks whether the session has ended already. *)
LoadForEndUnchecked(r) ==
  /\ Loading(r, {"fail", "give_up", "stop"})
  /\ TakeRow(r)
  /\ Read(r, "seq", [session EXCEPT !.status =
                       IF req[r].op = "stop" THEN "stopped" ELSE "failed"], <<NoKey>>)
  /\ UNCHANGED writer

(* _set_terminal_state. *)
LoadForEnd(r) ==
  \/ Immutable(r, {"fail", "give_up", "stop"})
  \/ /\ Loading(r, {"fail", "give_up", "stop"}) /\ session.status = "planning"
     /\ TakeRow(r)
     /\ Read(r, "seq", [session EXCEPT !.status =
                          IF req[r].op = "stop" THEN "stopped" ELSE "failed"], <<NoKey>>)
     /\ UNCHANGED writer

(* create_or_restore_session: a new row, or the nodes of the canvas while   *)
(* the session has no revision yet.  No lock.                               *)
LoadForEnsure(r) ==
  LET ns == req[r].nodes
      seeded == [session EXCEPT !.nodes =
                   IF session.status = "planning" /\ session.revision = 0 /\ ns # {}
                   THEN ns ELSE @]
  IN
  /\ Loading(r, {"ensure"})
  /\ IF session.status = "none"
     THEN Read(r, "commit", [status |-> "planning", revision |-> 0, nodes |-> ns], << >>)
     ELSE Read(r, "commit", seeded, << >>)
  /\ UNCHANGED <<writer, rowLock>>

(* append_message: the user's instruction, whatever the status.  No lock.   *)
LoadForInstruction(r) ==
  /\ Loading(r, {"instruct"})
  /\ Read(r, "seq", session, <<NoKey>>)
  /\ UNCHANGED <<writer, rowLock>>

Load(r) ==
  \/ LoadForEvents(r) \/ LoadForNodes(r) \/ LoadForComplete(r)
  \/ LoadForEnd(r) \/ LoadForEnsure(r) \/ LoadForInstruction(r)

(* Fault: keys are only compared within the batch. *)
ForgetfulReadSeq(r) ==
  /\ req[r].pc = "seq"
  /\ req' = [req EXCEPT ![r] =
       [req[r] EXCEPT !.pc = IF req[r].op \in {"events", "bridge"} THEN "apply" ELSE "commit",
                      !.next = Len(log) + 1]]
  /\ UNCHANGED <<database, writer, rowLock, owner, quota>>

(* The keys of the messages so far and the next message number. *)
ReadSeq(r) ==
  /\ req[r].pc = "seq"
  /\ req' = [req EXCEPT ![r] =
       [req[r] EXCEPT !.pc = IF req[r].op \in {"events", "bridge"} THEN "apply" ELSE "commit",
                      !.keys = LoggedKeys, !.next = Len(log) + 1]]
  /\ UNCHANGED <<database, writer, rowLock, owner, quota>>

-----------------------------------------------------------------------------
(* _apply_events_by_token: one event of the batch, on the copy.             *)

(* Nodes or a status: on an ended session they may only repeat what it has. *)
Repeats(copy, e) ==
  /\ e.kind = "nodes" => e.nodes = copy.nodes
  /\ e.status \in {"none", copy.status}
Structural(e) == e.kind = "nodes" \/ e.status # "none"

(* Fault: the snapshot of an event gets no revision of its own.             *)
RevisedInPlace(copy, e) ==
  IF e.kind = "nodes" THEN [copy EXCEPT !.nodes = e.nodes] ELSE copy

Revised(copy, e) ==
  IF e.kind = "nodes" /\ e.nodes # copy.nodes
  THEN [copy EXCEPT !.nodes = e.nodes, !.revision = @ + 1] ELSE copy

Skipped(q) == [q EXCEPT !.events = Tail(q.events)]
Remembered(q, e) == [Skipped(q) EXCEPT !.keys = q.keys \cup ({e.key} \ {NoKey})]

(* Nodes, then a message, then a status, as far as the event has them.      *)
Taken(q, e) ==
  LET revised == Revised(q.copy, e) IN
  [Remembered(q, e) EXCEPT
     !.copy = IF e.status = "none" THEN revised ELSE [revised EXCEPT !.status = e.status],
     !.added = IF e.kind = "message" THEN Append(q.added, e.key) ELSE q.added]

Apply(r) ==
  LET q == req[r]
      e == Head(q.events)
      ended == q.copy.status # "planning"
      Goon(next) == req' = [req EXCEPT ![r] = next] /\ UNCHANGED <<writer, rowLock>>
  IN
  /\ q.pc = "apply" /\ q.events # << >>
  /\ \/ e.key \in q.keys /\ Goon(Skipped(q))
     \/ e.key \notin q.keys /\ ended /\ ~Repeats(q.copy, e) /\ End(r)
     \/ /\ e.key \notin q.keys /\ ended /\ Repeats(q.copy, e) /\ Structural(e)
        /\ Goon(Remembered(q, e))
     \/ /\ e.key \notin q.keys /\ (ended => ~Structural(e))
        /\ Goon(Taken(q, e))
  /\ UNCHANGED <<database, owner, quota>>

BatchApplied(r) ==
  /\ req[r].pc = "apply" /\ req[r].events = << >>
  /\ req' = [req EXCEPT ![r].pc = "commit"]
  /\ UNCHANGED <<database, writer, rowLock, owner, quota>>

-----------------------------------------------------------------------------
(* Transactions: the commit. *)

(* The columns that were changed, over the row as it is now. *)
Written(q) ==
  [status   |-> IF q.copy.status = q.seen.status THEN session.status ELSE q.copy.status,
   revision |-> IF q.copy.revision = q.seen.revision THEN session.revision
                ELSE q.copy.revision,
   nodes    |-> IF q.copy.nodes = q.seen.nodes THEN session.nodes ELSE q.copy.nodes]

(* Neither the session nor one of the message numbers exists already. *)
Unique(q) ==
  /\ q.seen.status = "none" => session.status = "none"
  /\ q.added # << >> => q.next \in {0, Len(log) + 1}

(* generate goes from the session to the instruction to the planner; the    *)
(* bridge stays for the next batch unless the planner has ended.            *)
AfterCommit(q) ==
  CASE q.op = "ensure"               -> [Idle EXCEPT !.op = "instruct", !.pc = "load"]
    [] q.op = "instruct"             -> [Idle EXCEPT !.op = "dispatch", !.pc = "dispatch"]
    [] q.op = "bridge" /\ ~q.last    -> [Idle EXCEPT !.op = "bridge", !.pc = "watch"]
    [] OTHER                         -> Idle

Commit(r) ==
  LET q == req[r] IN
  /\ q.pc = "commit" /\ RowFree(r)
  /\ \/ /\ Unique(q)
        /\ session' = Written(q)
        /\ log' = log \o q.added
        /\ Release(r)
        /\ req' = [req EXCEPT ![r] = AfterCommit(q)]
     \/ ~Unique(q) /\ End(r) /\ UNCHANGED database
  /\ UNCHANGED <<owner, quota>>

(* dispatch_planner: the gateway takes the prompt, and a bridge is started  *)
(* unless one runs or the callbacks own the ingestion; or it refuses, and   *)
(* the session fails.                                                       *)
DispatchPlanner(r) ==
  /\ req[r].pc = "dispatch"
  /\ \/ /\ owner # "internal" /\ req[Bridge] = Idle
        /\ owner' = "observer"
        /\ req' = [req EXCEPT ![r] = Idle,
                              ![Bridge] = [Idle EXCEPT !.op = "bridge", !.pc = "watch"]]
     \/ /\ owner = "internal" \/ req[Bridge] # Idle
        /\ req' = [req EXCEPT ![r] = Idle]
        /\ UNCHANGED owner
     \/ /\ req' = [req EXCEPT ![r] = [Idle EXCEPT !.op = "give_up", !.pc = "load"]]
        /\ UNCHANGED owner
  /\ UNCHANGED <<database, writer, rowLock, quota>>

(* The process restarts: threads, locks and the owner are gone. *)
Crash ==
  /\ Spend("crash")
  /\ req' = [r \in Thread |-> Idle]
  /\ writer' = Nobody /\ rowLock' = Nobody /\ owner' = "none"
  /\ UNCHANGED database

-----------------------------------------------------------------------------
Arrival(r) == CallbackArrives(r) \/ StopArrives(r) \/ GenerateArrives(r)

Transaction(r) == Load(r) \/ ReadSeq(r) \/ Apply(r) \/ BatchApplied(r) \/ Commit(r)

Goes(r) == EnterCallback(r) \/ Transaction(r) \/ DispatchPlanner(r)
BridgeGoes == EnterBridge \/ BridgeReads \/ Transaction(Bridge)

Next ==
  \/ \E r \in Req : Arrival(r) \/ Goes(r)
  \/ BridgeGoes
  \/ Crash

Spec == Init /\ [][Next]_vars

(* The pool runs every request on, the bridge has a time limit. *)
FairSpec == Spec /\ WF_vars(BridgeGoes) /\ \A r \in Req : WF_vars(Goes(r))

-----------------------------------------------------------------------------
(* Properties. *)

InWriteLock(r) ==
  /\ req[r].op \in Callback \cup {"bridge"}
  /\ req[r].pc \in {"load", "seq", "apply", "commit"}

Types ==
  /\ session \in Session
  /\ log \in Seq(Key \cup {NoKey})
  /\ writer \in Thread \cup {Nobody} /\ rowLock \in Thread \cup {Nobody}
  /\ owner \in {"none", "observer", "internal"}
  /\ req \in [Thread -> Request]
  /\ quota \in [Operation -> Nat]
WriterIsInside == \A r \in Thread : InWriteLock(r) <=> writer = r

(* Types; and the write lock is held by whoever is inside it, by nobody     *)
(* else, and by nobody who has left it with an error                        *)
(* (tasks_flow_planner.py, _run_internal_route_mutation and the bridge).    *)
TypeOK == Types /\ WriterIsInside

(* An ended session stays as it ended, and revisions only grow, whoever     *)
(* completes, fails, stops or feeds it at the same time: the status is      *)
(* checked inside the row lock                                              *)
(* (flow_planner_session_service.py, complete_session, _set_terminal_state).*)
Lifecycle == INSTANCE PlannerLifecycle WITH
  status <- session.status, revision <- session.revision
LifecycleSpec == Lifecycle!Spec

(* A thread writes what it has made of a planning session over a session    *)
(* that another one has changed since: FOR UPDATE excludes it, SQLite does  *)
(* not.  Creating the session and appending an instruction are no part of   *)
(* it: they hold no row on any database.                                    *)
Overwrites(r) ==
  /\ ~RowLock
  /\ req[r].pc = "commit" /\ req[r].op \notin {"ensure", "instruct"}
  /\ req[r].seen.status = "planning" /\ req[r].seen # session
  /\ session' = Written(req[r])

(* With or without row locks, nothing but such a lost update takes a        *)
(* session out of its life cycle: no check of the status is missing in any  *)
(* operation, and the unlocked reads of generate harm nobody.               *)
LifecycleUnlessOverwritten ==
  [][Lifecycle!Next \/ \E r \in Thread : Overwrites(r)]_<<session.status, session.revision>>

(* An event that carries a key is recorded once, however often and by       *)
(* whichever way it is delivered (_apply_events_by_token).                  *)
EveryEventOnce ==
  \A i, j \in 1..Len(log) : log[i] = log[j] /\ log[i] # NoKey => i = j

(* From the moment a callback has claimed the ingestion the bridge writes   *)
(* nothing any more, not even a batch it has already read                   *)
(* (tasks_flow_planner.py, _observer_bridge_can_ingest).                    *)
BridgeYields == InWriteLock(Bridge) => owner # "internal"

(* Two snapshots with the same revision show the same nodes, except for the *)
(* canvas of the user: a generate that read the session before its first    *)
(* revision puts it in, even over a revision that was made meanwhile        *)
(* (create_or_restore_session); and for lost updates without row locks.     *)
Seeds(q) ==
  /\ q.op = "ensure" /\ q.pc = "commit"
  /\ q.seen.revision = 0 /\ q.seen.status \in {"none", "planning"}
RevisionNamesNodes ==
  [][session'.nodes # session.nodes =>
       \/ session'.revision > session.revision
       \/ \E r \in Thread : \/ Seeds(req[r]) /\ session'.nodes = req[r].nodes
                            \/ Overwrites(r)]_session

(* Every request is answered and the bridge ends: no lock is kept by a      *)
(* rejected or failed transaction.                                          *)
EveryThreadEnds == \A r \in Thread : req[r] # Idle ~> req[r] = Idle
=============================================================================
