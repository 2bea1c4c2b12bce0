--------------------------- MODULE TaskBoardProofs ---------------------------
(***************************************************************************)
(* Proofs about the task board, for every flow, number of request threads, *)
(* batch limit and quota: type correctness, and that a row is sent to its  *)
(* agent at most once each time it enters the queue.                       *)
(***************************************************************************)
EXTENDS TaskBoard, TLAPS

(* An idle request is a request. *)
LEMMA IdleOK == Idle \in Request /\ RequestOK(Idle)
BY DEF Idle, NoExtras, Request, RequestOK, Op, Command, Pc, Task, RowStatus, Status,
       Extras, DispatchStatus, Heartbeat, Holding, Writing, Dispatching

LEMMA SettleOK ==
  ASSUME NEW q \in Request
  PROVE  /\ Settle(q) \in Request /\ Settle(q).todo = q.todo /\ Settle(q).budget = q.budget
         /\ Settle(q).task = q.task
BY DEF Settle, Request, NoExtras, RowStatus, Extras, DispatchStatus, Heartbeat

(* Where a handler goes on keeps the request well formed. *)
LEMMA AdvanceOK ==
  ASSUME NEW q \in Request, q.todo \subseteq Born
  PROVE  Advance(q) \in Request /\ RequestOK(Advance(q))
<1> DEFINE s == [Settle(q) EXCEPT !.task = 0]
<1>1. s \in Request /\ s.todo = q.todo /\ s.budget = q.budget /\ s.task = 0
  BY SettleOK DEF Request
<1>2. CASE q.todo # {}
  <2>1. Advance(q) = [s EXCEPT !.pc = "visit"]
    BY <1>2 DEF Advance
  <2> HIDE DEF s
  <2> QED BY <1>1, <2>1 DEF Request, RequestOK, Pc, Holding, Writing, Dispatching
<1>3. CASE q.todo = {} /\ q.op = "confirm" /\ q.nodes # {}
  <2>1. Advance(q) = [s EXCEPT !.pc = "create"]
    BY <1>3 DEF Advance
  <2> HIDE DEF s
  <2> QED BY <1>1, <2>1 DEF Request, RequestOK, Pc, Holding, Writing, Dispatching
<1>4. CASE q.todo = {} /\ ~(q.op = "confirm" /\ q.nodes # {}) /\ q.budget > 0
  <2>1. Advance(q) = [s EXCEPT !.pc = "select", !.nodes = {}]
    BY <1>4 DEF Advance
  <2> HIDE DEF s
  <2> QED BY <1>1, <1>4, <2>1 DEF Request, RequestOK, Pc, Holding, Writing, Dispatching
<1>5. CASE q.todo = {} /\ ~(q.op = "confirm" /\ q.nodes # {}) /\ ~(q.budget > 0)
  BY <1>5, IdleOK DEF Advance
<1> QED BY <1>2, <1>3, <1>4, <1>5

(* So does the commit of a row. *)
LEMMA CommittedOK ==
  ASSUME NEW q \in Request, q.todo \subseteq Born, q.task \in Born
  PROVE  Committed(q) \in Request /\ RequestOK(Committed(q))
<1> DEFINE s == Settle(q)
<1>1. s \in Request /\ s.todo = q.todo /\ s.task = q.task
  BY SettleOK
<1>2. Committed(q) = [s EXCEPT !.pc = "reload"]
  BY DEF Committed
<1> HIDE DEF s
<1> QED BY <1>1, <1>2 DEF Request, RequestOK, Pc, Holding, Writing, Dispatching

(* Changing one request to a well-formed one. *)
LEMMA OneRequest ==
  ASSUME req \in [Req -> Request], \A s \in Req : RequestOK(req[s]),
         NEW r \in Req, NEW q \in Request, RequestOK(q),
         req' = [req EXCEPT ![r] = q], born' = born
  PROVE  req' \in [Req -> Request] /\ \A s \in Req : RequestOK(req[s])'
<1>1. \A s \in Req : req'[s] = IF s = r THEN q ELSE req[s]
  OBVIOUS
<1>2. \A s \in Req : RequestOK(req[s])' 
  BY <1>1 DEF RequestOK, Born
<1> QED BY <1>2

(* The part of the type invariant a step of a request leaves to its row. *)
LEMMA RequestStep ==
  ASSUME TypeOK, NEW r \in Req, NEW q \in Request, RequestOK(q),
         req' = [req EXCEPT ![r] = q],
         UNCHANGED <<born, file>>,
         row' \in [Born -> Row], working' \subseteq Born, quota' \in [Bounded -> Nat],
         enq' \in [Task -> Nat], runs' \subseteq Born \X Nat, done' \subseteq Born
  PROVE  TypeOK'
<1>1. req' \in [Req -> Request] /\ \A s \in Req : RequestOK(req[s])'
  BY OneRequest DEF TypeOK
<1> QED BY <1>1 DEF TypeOK, Born

LEMMA SpendOK ==
  ASSUME quota \in [Bounded -> Nat], NEW k \in Bounded, Spend(k)
  PROVE  quota' \in [Bounded -> Nat]
BY DEF Spend

LEMMA BornTask ==
  ASSUME TypeOK
  PROVE  Born \subseteq Task /\ Rows \subseteq Born /\ Rows \subseteq Task
BY BoardAssumption DEF TypeOK, Rows, Born, Task

(* A row that is loaded. *)
LEMMA RowOK ==
  ASSUME TypeOK, NEW t \in Born
  PROVE  /\ row[t] \in Row /\ row[t].node \in Node /\ row[t].status \in RowStatus
         /\ row[t].x \in Extras /\ row[t].x.deps \subseteq Node /\ t \in Task
<1>1. t \in Task
  BY BornTask
<1>2. row[t] \in Row
  BY DEF TypeOK
<1> QED BY <1>1, <1>2 DEF Row, Extras

LEMMA InitType == Init => TypeOK
<1> SUFFICES ASSUME Init PROVE TypeOK
  OBVIOUS
<1>1. /\ born = 0 /\ Born = {}
  BY DEF Init, Born
<1>2. row \in [Born -> Row]
  BY <1>1 DEF Init
<1>3. req \in [Req -> Request] /\ \A r \in Req : RequestOK(req[r])
  BY IdleOK DEF Init
<1>4. quota \in [Bounded -> Nat] /\ enq \in [Task -> Nat] /\ 0 \in 0..MaxTask
  BY BoardAssumption DEF Init
<1> QED BY <1>1, <1>2, <1>3, <1>4 DEF Init, TypeOK

LEMMA StartType ==
  ASSUME TypeOK, NEW r \in Req, NEW q \in Request, RequestOK(q), Start(r, q),
         quota' \in [Bounded -> Nat]
  PROVE  TypeOK'
BY RequestStep DEF Start, world, TypeOK

LEMMA ArrivalType ==
  ASSUME TypeOK, NEW r \in Req, Arrival(r)
  PROVE  TypeOK'
<1> DEFINE Asked(op, todo, n) == [Idle EXCEPT !.op = op, !.pc = "visit", !.todo = todo,
                                              !.budget = n]
<1>1. ASSUME NEW op \in Op, NEW todo \in SUBSET Born, NEW n \in Nat
      PROVE  Asked(op, todo, n) \in Request /\ RequestOK(Asked(op, todo, n))
  BY IdleOK, BornTask DEF Request, RequestOK, Pc, Holding, Writing, Dispatching
<1>2. BatchLimit \in Nat /\ quota \in [Bounded -> Nat]
  BY BoardAssumption DEF TypeOK
<1>3. CASE ListTasks(r)
  <2> DEFINE q == [Idle EXCEPT !.op = "list", !.pc = "visit", !.todo = Rows]
  <2>1. Start(r, q) /\ UNCHANGED quota
    BY <1>3 DEF ListTasks
  <2>2. q \in Request /\ RequestOK(q)
    BY IdleOK, BornTask
       DEF Request, RequestOK, Op, Pc, Holding, Writing, Dispatching
  <2> HIDE DEF q
  <2> QED BY <2>1, <2>2, <1>2, StartType
<1>4. CASE ConfirmFlow(r)
  <2> DEFINE q == [Idle EXCEPT !.op = "confirm", !.todo = Rows, !.nodes = Node,
                               !.budget = BatchLimit]
  <2>1. q \in Request /\ q.todo \subseteq Born
    BY IdleOK, BornTask, <1>2 DEF Request, Op, Command
  <2>2. Advance(q) \in Request /\ RequestOK(Advance(q))
    BY <2>1, AdvanceOK
  <2>3. quota' \in [Bounded -> Nat]
    BY <1>4, <1>2, SpendOK DEF ConfirmFlow, Bounded, Command
  <2>4. Start(r, Advance(q))
    BY <1>4 DEF ConfirmFlow
  <2> HIDE DEF q
  <2> QED BY <2>2, <2>3, <2>4, StartType
<1>5. ASSUME NEW op \in {"stop", "resume", "rename", "delete_requirement"},
             RequirementCommand(r, op)
      PROVE  TypeOK'
  <2> DEFINE n == IF op \in {"rename", "resume"} THEN 0 ELSE BatchLimit
  <2>1. quota' \in [Bounded -> Nat]
    BY <1>5, <1>2, SpendOK DEF RequirementCommand, Bounded, Command
  <2>2. Start(r, Asked(op, Rows, n)) /\ n \in Nat /\ op \in Op
    BY <1>5, <1>2 DEF RequirementCommand, Op, Command
  <2> HIDE DEF n
  <2>3. Asked(op, Rows, n) \in Request /\ RequestOK(Asked(op, Rows, n))
    BY <2>2, <1>1, BornTask
  <2> HIDE DEF Asked
  <2> QED BY <2>1, <2>2, <2>3, StartType
<1>6. ASSUME NEW op \in {"interrupt", "continue", "delete_task"}, NEW t \in Born,
             TaskCommand(r, op, t)
      PROVE  TypeOK'
  <2>1. quota' \in [Bounded -> Nat]
    BY <1>6, <1>2, SpendOK DEF TaskCommand, Bounded, Command
  <2>2. Start(r, Asked(op, {t}, BatchLimit)) /\ op \in Op
    BY <1>6 DEF TaskCommand, Op, Command
  <2>3. Asked(op, {t}, BatchLimit) \in Request /\ RequestOK(Asked(op, {t}, BatchLimit))
    BY <2>2, <1>1, <1>2
  <2> HIDE DEF Asked
  <2> QED BY <2>1, <2>2, <2>3, StartType
<1> QED BY <1>3, <1>4, <1>5, <1>6 DEF Arrival

LEMMA RemainingOK ==
  ASSUME TypeOK, NEW r \in Req, NEW t \in Born
  PROVE  Remaining(r, t) \in Request /\ Remaining(r, t).todo \subseteq Born
<1>1. req[r] \in Request /\ req[r].todo \subseteq Born
  BY DEF TypeOK, RequestOK
<1> QED BY <1>1 DEF Remaining, Request

(* A request that decided what to write into the row it loaded.             *)
LEMMA DecideType ==
  ASSUME TypeOK, NEW r \in Req, NEW t \in Born, Visiting(r, t),
         NEW pc \in {"pause", "write", "drop"}, NEW to \in Status, NEW x \in Extras,
         Decide(r, t, pc, to, x)
  PROVE  TypeOK'
<1> DEFINE q == [Remaining(r, t) EXCEPT !.pc = pc, !.task = t,
                                        !.seen = row[t].status, !.to = to, !.x = x]
<1>1. Remaining(r, t) \in Request /\ Remaining(r, t).todo \subseteq Born
  BY RemainingOK
<1>2. q \in Request
  BY <1>1, RowOK DEF Request, Pc, RowStatus
<1>3. q.todo \subseteq Born /\ q.pc = pc /\ q.task = t /\ q.to = to
  BY <1>1 DEF Request
<1>4. req' = [req EXCEPT ![r] = q]
  BY DEF Decide
<1> HIDE DEF q
<1>5. RequestOK(q)
  BY <1>2, <1>3 DEF RequestOK, Holding, Writing, Dispatching
<1> QED BY <1>2, <1>4, <1>5, RequestStep DEF Visiting, world, TypeOK

LEMMA SkipType ==
  ASSUME TypeOK, NEW r \in Req, NEW t \in Born, Visiting(r, t), Skip(r, t)
  PROVE  TypeOK'
<1>1. Advance(Remaining(r, t)) \in Request /\ RequestOK(Advance(Remaining(r, t)))
  BY RemainingOK, AdvanceOK
<1> QED BY <1>1, RequestStep DEF Skip, Visiting, world, TypeOK

LEMMA FinishType ==
  ASSUME TypeOK, NEW r \in Req, Finish(r),
         UNCHANGED <<row, born, world, quota, enq, runs, done>>
  PROVE  TypeOK'
BY IdleOK, RequestStep DEF Finish, world, TypeOK

(* The extras a handler may write. *)
LEMMA ExtrasOK ==
  ASSUME NEW x \in Extras, NEW d \in DispatchStatus, NEW h \in Heartbeat,
         NEW D \in SUBSET Node
  PROVE  /\ [x EXCEPT !.dispatch = d, !.heartbeat = h] \in Extras
         /\ [x EXCEPT !.dispatch = d] \in Extras
         /\ [x EXCEPT !.deps = @ \ D] \in Extras
BY DEF Extras

LEMMA VisitType ==
  ASSUME TypeOK, NEW r \in Req, NEW t \in Born, Visit(r, t)
  PROVE  TypeOK'
<1> USE DEF Status, DispatchStatus, Heartbeat
<1>1. row[t].x \in Extras /\ row[t].status \in RowStatus
  BY RowOK
<1>2. ASSUME row[t].status # "absent"
      PROVE  row[t].status \in Status
  BY <1>1, <1>2 DEF RowStatus
<1>3. CASE VisitGone(r, t)
  BY <1>3, FinishType DEF VisitGone, Visiting
<1>4. CASE VisitReconcile(r, t)
  BY <1>4, <1>1, ExtrasOK, DecideType, SkipType DEF VisitReconcile
<1>5. CASE VisitInterrupt(r, t)
  BY <1>5, <1>1, ExtrasOK, DecideType, FinishType DEF VisitInterrupt, Visiting
<1>6. CASE VisitContinue(r, t)
  BY <1>6, <1>1, ExtrasOK, DecideType, FinishType DEF VisitContinue, Visiting
<1>7. CASE VisitStop(r, t)
  <2> DEFINE x == [row[t].x EXCEPT !.dispatch = "interrupted"]
  <2>1. x \in Extras
    BY <1>1 DEF Extras
  <2>2. /\ Visiting(r, t)
        /\ \/ \E pc \in {"write", "pause"} : Decide(r, t, pc, "blocked_by_approval", x)
           \/ /\ row[t].status \in Status
              /\ Decide(r, t, "write", row[t].status, row[t].x)
    BY <1>7 DEF VisitStop
  <2> HIDE DEF x
  <2> QED BY <2>1, <2>2, <1>1, DecideType
<1>8. CASE VisitResume(r, t)
  BY <1>8, <1>1, ExtrasOK, DecideType, SkipType DEF VisitResume
<1>9. CASE VisitRename(r, t)
  BY <1>9, <1>1, <1>2, DecideType DEF VisitRename
<1>10. CASE VisitRewire(r, t)
  <2>1. req[r].nodes \in SUBSET Node
    BY DEF TypeOK, Request
  <2> DEFINE x == [row[t].x EXCEPT !.deps = @ \ req[r].nodes]
  <2>2. x \in Extras
    BY <2>1, <1>1, ExtrasOK
  <2>3. /\ Visiting(r, t) /\ row[t].status # "absent"
        /\ Decide(r, t, "write", row[t].status, x) \/ Skip(r, t)
    BY <1>10 DEF VisitRewire
  <2> HIDE DEF x
  <2> QED BY <2>2, <2>3, <1>2, DecideType, SkipType
<1>11. CASE VisitDelete(r, t)
  BY <1>11, <1>1, <1>2, DecideType DEF VisitDelete
<1> QED BY <1>3, <1>4, <1>5, <1>6, <1>7, <1>8, <1>9, <1>10, <1>11 DEF Visit

LEMMA PauseType ==
  ASSUME TypeOK, NEW r \in Req, PauseAgent(r)
  PROVE  TypeOK'
<1> DEFINE q == [req[r] EXCEPT !.pc = "write"]
<1>1. req[r] \in Request /\ RequestOK(req[r]) /\ req[r].pc = "pause"
  BY DEF TypeOK, PauseAgent
<1>2. q \in Request /\ RequestOK(q)
  BY <1>1 DEF Request, RequestOK, Pc, Holding, Writing, Dispatching
<1>3. req' = [req EXCEPT ![r] = q]
  BY DEF PauseAgent
<1> HIDE DEF q
<1> QED BY <1>2, <1>3, RequestStep DEF PauseAgent, TypeOK

(* What a flush leaves in the table and the histories. *)
LEMMA FlushType ==
  ASSUME TypeOK, NEW r \in Req, req[r].pc \in {"write", "mark", "ack"}, Flush(r)
  PROVE  /\ row' \in [Born -> Row] /\ enq' \in [Task -> Nat] /\ done' \subseteq Born
         /\ req[r].task \in Born
         /\ row[req[r].task].status # "absent" => row'[req[r].task].status \in Status
<1> DEFINE t == req[r].task
           new == Flushed(t, req[r].seen, req[r].to, req[r].x)
<1>1. /\ req[r].to \in Status /\ t \in Born /\ req[r].x \in Extras
  BY DEF TypeOK, RequestOK, Request, Holding, Writing, Dispatching
<1>2. row[t] \in Row /\ t \in Task
  BY <1>1, RowOK
<1>3. new \in Row /\ (row[t].status # "absent" => new.status \in Status)
  BY <1>1, <1>2 DEF Flushed, Row, RowStatus
<1>4. /\ row' = [row EXCEPT ![t] = new]
      /\ enq' = enq \/ enq' = [enq EXCEPT ![t] = @ + 1]
      /\ done' = done \/ done' = done \cup {t}
  BY DEF Flush
<1> HIDE DEF t, new
<1>5. row \in [Born -> Row] /\ enq \in [Task -> Nat] /\ done \subseteq Born
  BY DEF TypeOK
<1>6. row' \in [Born -> Row] /\ row'[t] = new
  BY <1>1, <1>3, <1>4, <1>5
<1>7. enq' \in [Task -> Nat] /\ done' \subseteq Born
  BY <1>1, <1>2, <1>4, <1>5
<1> QED BY <1>1, <1>3, <1>6, <1>7 DEF t

LEMMA WriteType ==
  ASSUME TypeOK, NEW r \in Req, Write(r)
  PROVE  TypeOK'
<1>1. CASE row[req[r].task].status = "absent"
  BY <1>1, FinishType DEF Write
<1>2. CASE row[req[r].task].status # "absent"
  <2> DEFINE p == DispatchDue(req[r])
             q == Committed(p)
  <2>1. req[r] \in Request /\ req[r].todo \subseteq Born /\ req[r].task \in Born
    BY DEF TypeOK, RequestOK, Write, Holding
  <2>2. p \in Request /\ p.todo \subseteq Born /\ p.task \in Born
    BY <2>1, BoardAssumption DEF DispatchDue, Request
  <2>3. Flush(r) /\ req' = [req EXCEPT ![r] = q] /\ req[r].pc = "write"
    BY <1>2 DEF Write
  <2> HIDE DEF p
  <2>4. q \in Request /\ RequestOK(q)
    BY <2>2, CommittedOK
  <2> HIDE DEF q
  <2> QED BY <2>3, <2>4, FlushType, RequestStep DEF Write, world, TypeOK
<1> QED BY <1>1, <1>2

LEMMA ReloadType ==
  ASSUME TypeOK, NEW r \in Req, Reload(r)
  PROVE  TypeOK'
<1>1. CASE Finish(r)
  BY <1>1, FinishType DEF Reload
<1>2. CASE req' = [req EXCEPT ![r] = Advance(req[r])]
  <2>1. req[r] \in Request /\ req[r].todo \subseteq Born
    BY DEF TypeOK, RequestOK
  <2>2. Advance(req[r]) \in Request /\ RequestOK(Advance(req[r]))
    BY <2>1, AdvanceOK
  <2> QED BY <1>2, <2>2, RequestStep DEF Reload, world, TypeOK
<1> QED BY <1>1, <1>2 DEF Reload

LEMMA DropType ==
  ASSUME TypeOK, NEW r \in Req, Drop(r)
  PROVE  TypeOK'
<1> DEFINE t == req[r].task
           rewire == [req[r] EXCEPT !.op = "rewire", !.todo = Rows \ {t},
                                    !.nodes = {row[t].node}]
           q == IF req[r].op = "delete_task" THEN rewire ELSE req[r]
<1>1. req[r] \in Request /\ req[r].todo \subseteq Born /\ t \in Born
  BY DEF TypeOK, RequestOK, Drop, Holding
<1>2. row[t] \in Row /\ row[t].node \in Node
  BY <1>1, RowOK
<1>3. rewire \in Request /\ rewire.todo \subseteq Born
  BY <1>1, <1>2, BornTask DEF Request, Op
<1>4. req' = [req EXCEPT ![r] = Advance(q)] /\ row' = [row EXCEPT ![t].status = "absent"]
  BY DEF Drop
<1> HIDE DEF rewire, t
<1>5. q \in Request /\ q.todo \subseteq Born
  BY <1>1, <1>3
<1> HIDE DEF q
<1>6. Advance(q) \in Request /\ RequestOK(Advance(q))
  BY <1>5, AdvanceOK
<1>7. row' \in [Born -> Row]
  BY <1>1, <1>2, <1>4 DEF TypeOK, Row, RowStatus
<1> QED BY <1>4, <1>6, <1>7, RequestStep DEF Drop, world, TypeOK

LEMMA CreateType ==
  ASSUME TypeOK, NEW r \in Req, Create(r)
  PROVE  TypeOK'
<1> DEFINE t == born + 1
<1>1. PICK n \in req[r].nodes :
        /\ row' = [u \in 1..t |->
                     IF u = t THEN [node |-> n, status |-> "queued",
                                    x |-> [NoExtras EXCEPT !.deps = Dep[n]]]
                              ELSE row[u]]
        /\ req' = [req EXCEPT ![r] =
                     Committed([req[r] EXCEPT !.task = t, !.nodes = @ \ {n}])]
  BY DEF Create
<1>2. t \in Task /\ born' = t /\ born \in Nat /\ t \in 0..MaxTask /\ MaxTask \in Nat
  BY BoardAssumption DEF Create, TypeOK, Task
<1>3. Born' = 1..t /\ Born \subseteq Born' /\ \A u \in Born' : u = t \/ u \in Born
  BY <1>2 DEF Born
<1>4. n \in Node /\ Dep[n] \subseteq Node
  BY BoardAssumption DEF TypeOK, Request
<1>5. row' \in [Born' -> Row]
  <2>1. [node |-> n, status |-> "queued", x |-> [NoExtras EXCEPT !.deps = Dep[n]]] \in Row
    BY <1>4 DEF Row, RowStatus, Status, NoExtras, Extras, DispatchStatus, Heartbeat
  <2>2. \A u \in Born : row[u] \in Row
    BY DEF TypeOK
  <2> QED BY <1>1, <1>3, <2>1, <2>2
<1> DEFINE p == [req[r] EXCEPT !.task = t, !.nodes = @ \ {n}]
           q == Committed(p)
<1>6. p \in Request /\ p.todo \subseteq Born /\ p.task = t
  BY <1>2 DEF TypeOK, RequestOK, Request
<1> HIDE DEF p
<1>7. q \in Request /\ q.todo \subseteq Born /\ q.task \in Born' /\ q.pc = "reload"
  <2>1. Settle(p) \in Request /\ Settle(p).todo \subseteq Born /\ Settle(p).task = t
    BY <1>6, SettleOK
  <2>2. q = [Settle(p) EXCEPT !.pc = "reload"] /\ t \in Born'
    BY <1>3, <1>2 DEF Committed
  <2> QED BY <2>1, <2>2 DEF Request, Pc
<1>8. req' = [req EXCEPT ![r] = q]
  BY <1>1 DEF p
<1> HIDE DEF q
<1>9. req' \in [Req -> Request] /\ \A s \in Req : RequestOK(req[s])'
  <2>1. \A s \in Req : req[s] \in Request /\ RequestOK(req[s])
    BY DEF TypeOK
  <2>2. \A s \in Req : req'[s] = IF s = r THEN q ELSE req[s]
    BY <1>8 DEF TypeOK
  <2>3. ASSUME NEW s \in Req, s # r PROVE RequestOK(req[s])'
    BY <2>1, <2>2, <2>3, <1>3 DEF RequestOK
  <2>4. RequestOK(req[r])'
    BY <2>2, <1>7, <1>3 DEF RequestOK, Holding, Writing, Dispatching
  <2>5. req' \in [Req -> Request]
    BY <1>7, <1>8 DEF TypeOK
  <2> QED BY <2>3, <2>4, <2>5
<1>10. enq' \in [Task -> Nat]
  BY <1>2 DEF Create, TypeOK
<1> QED BY <1>2, <1>3, <1>5, <1>9, <1>10 DEF Create, TypeOK, world

LEMMA DispatchType ==
  ASSUME TypeOK, NEW r \in Req, Dispatch(r)
  PROVE  TypeOK'
<1> USE DEF Holding, Writing, Dispatching
<1>1. req[r] \in Request /\ RequestOK(req[r])
  BY DEF TypeOK
<1>2. CASE Select(r)
  <2>1. CASE Finish(r)
    BY <1>2, <2>1, FinishType DEF Select
  <2>2. ASSUME NEW t \in Rows,
               req' = [req EXCEPT ![r].pc = "claim", ![r].task = t]
        PROVE  TypeOK'
    <3> DEFINE q == [req[r] EXCEPT !.pc = "claim", !.task = t]
    <3>1. q \in Request /\ RequestOK(q)
      BY <1>1, <1>2, BornTask DEF Select, Request, RequestOK, Pc
    <3>2. req' = [req EXCEPT ![r] = q]
      BY <2>2
    <3> HIDE DEF q
    <3> QED BY <1>2, <3>1, <3>2, RequestStep DEF Select, world, TypeOK
  <2> QED BY <1>2, <2>1, <2>2 DEF Select
<1>3. CASE ClaimTaskForDispatch(r)
  <2> DEFINE t == req[r].task
             q == [req[r] EXCEPT !.pc = "refresh", !.ticket = enq[t]]
  <2>1. t \in Born /\ t \in Task /\ row[t] \in Row
    BY <1>1, <1>3, RowOK DEF ClaimTaskForDispatch, RequestOK
  <2>2. CASE Finish(r) /\ UNCHANGED row
    BY <1>3, <2>2, FinishType DEF ClaimTaskForDispatch
  <2>3. CASE /\ row' = [row EXCEPT ![t].status = "running"]
             /\ req' = [req EXCEPT ![r].pc = "refresh", ![r].ticket = enq[t]]
    <3>1. q \in Request /\ RequestOK(q)
      BY <1>1, <1>3, <2>1 DEF ClaimTaskForDispatch, Request, RequestOK, Pc, TypeOK
    <3>2. req' = [req EXCEPT ![r] = q]
      BY <2>3
    <3>3. row' \in [Born -> Row]
      BY <2>1, <2>3 DEF TypeOK, Row, RowStatus, Status
    <3> HIDE DEF q, t
    <3> QED BY <1>3, <3>1, <3>2, <3>3, RequestStep DEF ClaimTaskForDispatch, world, TypeOK
  <2> QED BY <1>3, <2>2, <2>3 DEF ClaimTaskForDispatch
<1>4. CASE RefreshCandidate(r)
  <2> DEFINE t == req[r].task
             q == [req[r] EXCEPT !.pc = "mark", !.seen = row[t].status, !.to = "running",
                                 !.x = [row[t].x EXCEPT !.dispatch = "running",
                                                        !.heartbeat = "fresh"]]
  <2>1. t \in Born /\ row[t].status \in RowStatus /\ row[t].x \in Extras
    BY <1>1, <1>4, RowOK DEF RefreshCandidate, RequestOK
  <2>2. CASE Finish(r)
    BY <1>4, <2>2, FinishType DEF RefreshCandidate
  <2>3. CASE req' = [req EXCEPT ![r] = q]
    <3>1. [row[t].x EXCEPT !.dispatch = "running", !.heartbeat = "fresh"] \in Extras
      BY <2>1, ExtrasOK DEF DispatchStatus, Heartbeat
    <3>2. q \in Request /\ RequestOK(q)
      BY <1>1, <1>4, <2>1, <3>1
         DEF RefreshCandidate, Request, RequestOK, Pc, RowStatus, Status
    <3> HIDE DEF q
    <3> QED BY <1>4, <2>3, <3>2, RequestStep DEF RefreshCandidate, world, TypeOK
  <2> QED BY <1>4, <2>2, <2>3 DEF RefreshCandidate
<1>5. CASE MarkRunning(r)
  <2>1. CASE row[req[r].task].status = "absent"
    BY <1>5, <2>1, FinishType DEF MarkRunning
  <2>2. CASE row[req[r].task].status # "absent"
    <3> DEFINE q == [req[r] EXCEPT !.pc = "marked"]
    <3>1. Flush(r) /\ req[r].pc = "mark"
      BY <1>5, <2>2 DEF MarkRunning
    <3>2. row' \in [Born -> Row] /\ enq' \in [Task -> Nat] /\ done' \subseteq Born
      BY <3>1, FlushType
    <3>3. q \in Request /\ RequestOK(q)
      BY <1>1, <3>1 DEF Request, RequestOK, Pc
    <3>4. req' = [req EXCEPT ![r] = q]
      BY <1>5, <2>2 DEF MarkRunning
    <3> HIDE DEF q
    <3> QED BY <1>5, <3>2, <3>3, <3>4, RequestStep DEF MarkRunning, world, TypeOK
  <2> QED BY <2>1, <2>2
<1>8. CASE ReloadMarked(r)
  <2> DEFINE t == req[r].task
             q == [req[r] EXCEPT !.pc = "send", !.seen = row[t].status]
  <2>1. t \in Born /\ row[t].status \in RowStatus
    BY <1>1, <1>8, RowOK DEF ReloadMarked, RequestOK
  <2>2. CASE Finish(r)
    BY <1>8, <2>2, FinishType DEF ReloadMarked
  <2>3. CASE req' = [req EXCEPT ![r].pc = "send", ![r].seen = row[t].status]
    <3>1. q \in Request /\ RequestOK(q)
      BY <1>1, <1>8, <2>1 DEF ReloadMarked, Request, RequestOK, Pc
    <3>2. req' = [req EXCEPT ![r] = q]
      BY <2>3
    <3> HIDE DEF q
    <3> QED BY <1>8, <3>1, <3>2, RequestStep DEF ReloadMarked, world, TypeOK
  <2> QED BY <1>8, <2>2, <2>3 DEF ReloadMarked
<1>6. CASE Send(r)
  <2> DEFINE q(to, d) == [req[r] EXCEPT !.pc = "ack", !.to = to, !.x.dispatch = d]
  <2>1. /\ req[r].task \in Born /\ req[r].ticket \in Nat /\ req[r].x \in Extras
        /\ req[r].pc = "send"
    BY <1>1, <1>6 DEF Send, RequestOK, Request
  <2>2. ASSUME NEW to \in Status, NEW d \in DispatchStatus
        PROVE  q(to, d) \in Request /\ RequestOK(q(to, d))
    <3>1. [req[r].x EXCEPT !.dispatch = d] \in Extras
      BY <2>1 DEF Extras
    <3>2. q(to, d) = [req[r] EXCEPT !.pc = "ack", !.to = to,
                                    !.x = [req[r].x EXCEPT !.dispatch = d]]
      OBVIOUS
    <3> QED BY <1>1, <2>1, <3>1, <3>2 DEF Request, RequestOK, Pc, RowStatus
  <2>3. \E to \in Status, d \in DispatchStatus : req' = [req EXCEPT ![r] = q(to, d)]
    BY <1>6 DEF Send, Status, DispatchStatus
  <2> HIDE DEF q
  <2>4. working' \subseteq Born /\ runs' \subseteq Born \X Nat
    BY <1>6, <2>1 DEF Send, TypeOK
  <2>5. quota' \in [Bounded -> Nat]
    <3>1. quota \in [Bounded -> Nat] /\ (quota' = quota \/ Spend("send_error"))
      BY <1>6 DEF TypeOK, Send
    <3> QED BY <3>1, SpendOK DEF Bounded
  <2> QED BY <1>6, <2>2, <2>3, <2>4, <2>5, RequestStep DEF Send, TypeOK
<1>7. CASE Acknowledge(r)
  <2>1. CASE row[req[r].task].status = "absent"
    BY <1>7, <2>1, FinishType DEF Acknowledge
  <2>2. CASE row[req[r].task].status # "absent"
    <3> DEFINE p == [req[r] EXCEPT !.budget = @ - 1]
               q == Committed(p)
    <3>1. Flush(r) /\ req[r].pc = "ack"
      BY <1>7, <2>2 DEF Acknowledge
    <3>2. /\ row' \in [Born -> Row] /\ enq' \in [Task -> Nat] /\ done' \subseteq Born
      BY <2>2, <3>1, FlushType
    <3>3. p \in Request /\ p.todo \subseteq Born /\ p.task \in Born
      BY <1>1, <3>1 DEF Request, RequestOK
    <3>4. req' = [req EXCEPT ![r] = q]
      BY <1>7, <2>2 DEF Acknowledge
    <3> HIDE DEF p
    <3>5. q \in Request /\ RequestOK(q)
      BY <3>3, CommittedOK
    <3> HIDE DEF q
    <3> QED BY <1>7, <3>2, <3>4, <3>5, RequestStep DEF Acknowledge, world, TypeOK
  <2> QED BY <2>1, <2>2
<1> QED BY <1>2, <1>3, <1>4, <1>5, <1>6, <1>7, <1>8 DEF Dispatch

(* The environment leaves the requests alone, or ends them all. *)
LEMMA EnvironmentType ==
  ASSUME TypeOK, Agents \/ Clock \/ Crash
  PROVE  TypeOK'
<1>1. ASSUME NEW t \in Born, AgentDelivers(t)
      PROVE  TypeOK'
  <2>1. row[t].node \in Node
    BY RowOK
  <2> QED BY <1>1, <2>1 DEF AgentDelivers, TypeOK, RequestOK, Born
<1>2. ASSUME NEW t \in Born, AgentGivesUp(t)
      PROVE  TypeOK'
  BY <1>2 DEF AgentGivesUp, TypeOK, RequestOK, Born
<1>3. ASSUME NEW t \in Born, HeartbeatAges(t)
      PROVE  TypeOK'
  <2>1. row[t] \in Row /\ row[t].x \in Extras
    BY RowOK
  <2>2. [row[t].x EXCEPT !.heartbeat = "old"] \in Extras
    BY <2>1 DEF Extras, Heartbeat
  <2>3. row' = [row EXCEPT ![t] = [row[t] EXCEPT !.x = [row[t].x EXCEPT !.heartbeat = "old"]]]
    BY <1>3 DEF HeartbeatAges
  <2>4. row' \in [Born -> Row]
    BY <2>1, <2>2, <2>3 DEF TypeOK, Row
  <2> QED BY <1>3, <2>4 DEF HeartbeatAges, TypeOK, RequestOK, Born, world
<1>4. CASE Crash
  <2>1. quota' \in [Bounded -> Nat]
    BY <1>4, SpendOK DEF Crash, TypeOK, Bounded
  <2>2. req' \in [Req -> Request] /\ \A r \in Req : RequestOK(req'[r])
    BY <1>4, IdleOK DEF Crash
  <2> QED BY <1>4, <2>1, <2>2 DEF Crash, TypeOK, RequestOK, Born, world
<1> QED BY <1>1, <1>2, <1>3, <1>4 DEF Agents, Clock

LEMMA TypeStep == TypeOK /\ [Next]_vars => TypeOK'
<1> SUFFICES ASSUME TypeOK, [Next]_vars PROVE TypeOK'
  OBVIOUS
<1>1. CASE UNCHANGED vars
  BY <1>1 DEF vars, TypeOK, RequestOK, Born
<1>2. ASSUME NEW r \in Req, Handler(r) PROVE TypeOK'
  BY <1>2, VisitType, PauseType, WriteType, ReloadType, DropType, CreateType, DispatchType DEF Handler
<1> QED BY <1>1, <1>2, ArrivalType, EnvironmentType DEF Next

(* The table, the requests and the histories keep their types, whatever the *)
(* flow, the number of threads and the commands.                            *)
THEOREM TypeCorrect == Spec => []TypeOK
BY InitType, TypeStep, PTL DEF Spec

-----------------------------------------------------------------------------
(* One run per queueing. *)

(* What a step may do to the queue: a row found queued afterwards was       *)
(* queued before, or has entered the queue once more.                       *)
QueueMoves ==
  /\ Born \subseteq Born'
  /\ \A t \in Born : enq'[t] >= enq[t]
  /\ \A t \in Born : row'[t].status = "queued" =>
       (row[t].status = "queued" /\ enq'[t] = enq[t]) \/ enq'[t] > enq[t]

(* A step that sends nothing and claims nothing keeps the invariant.        *)
LEMMA NothingClaimed ==
  ASSUME TypeOK, TypeOK', DispatchInv, QueueMoves, runs' = runs,
         \A s \in Req : Claimed(s)' => Claimed(s) /\ Ticket(s)' = Ticket(s)
  PROVE  DispatchInv'
<1>1. \A s \in Req : Claimed(s) => req[s].task \in Born /\ req[s].ticket \in Nat
  BY DEF TypeOK, RequestOK, Request, Claimed, Holding, Dispatching
<1>2. \A s \in Req : Claimed(s)' => /\ Claimed(s) /\ req'[s].task = req[s].task
                                   /\ req'[s].ticket = req[s].ticket
  BY DEF Ticket
<1>3. \A t \in Born : enq[t] \in Nat /\ enq'[t] \in Nat
  BY BornTask DEF TypeOK
<1>4. \A p \in runs : p[1] \in Born /\ p[2] \in Nat /\ p = <<p[1], p[2]>>
  BY DEF TypeOK
<1>5. TicketsInThePast'
  BY <1>1, <1>2, <1>3, <1>4 DEF DispatchInv, TicketsInThePast, QueueMoves
<1>6. QueuedIsUnclaimed'
  <2> SUFFICES ASSUME NEW t \in Born', row'[t].status = "queued"
               PROVE  /\ <<t, enq'[t]>> \notin runs'
                      /\ \A s \in Req : Claimed(s)' => Ticket(s)' # <<t, enq'[t]>>
    BY DEF QueuedIsUnclaimed
  <2>1. CASE t \notin Born
    BY <2>1, <1>1, <1>2, <1>4 DEF Ticket
  <2>2. CASE t \in Born /\ row[t].status = "queued" /\ enq'[t] = enq[t]
    BY <2>2 DEF DispatchInv, QueuedIsUnclaimed
  <2>3. CASE t \in Born /\ enq'[t] > enq[t]
    <3>1. \A p \in runs : p[1] = t => p[2] # enq'[t]
      BY <2>3, <1>3, <1>4 DEF DispatchInv, TicketsInThePast
    <3>2. \A s \in Req : Claimed(s) /\ req[s].task = t => req[s].ticket # enq'[t]
      BY <2>3, <1>1, <1>3 DEF DispatchInv, TicketsInThePast
    <3> QED BY <3>1, <3>2, <1>2 DEF Ticket
  <2> QED BY <2>1, <2>2, <2>3 DEF QueueMoves
<1>7. OneRunPerQueueing'
  BY DEF DispatchInv, OneRunPerQueueing
<1> QED BY <1>5, <1>6, <1>7 DEF DispatchInv

(* A request that goes on without a claim claims nothing. *)
LEMMA Unclaimed ==
  ASSUME TypeOK, NEW r \in Req, NEW q, req' = [req EXCEPT ![r] = q],
         q.pc \notin {"refresh", "mark", "marked", "send"}
  PROVE  \A s \in Req : Claimed(s)' => Claimed(s) /\ Ticket(s)' = Ticket(s)
<1>1. \A s \in Req : req'[s] = IF s = r THEN q ELSE req[s]
  BY DEF TypeOK
<1> QED BY <1>1 DEF Claimed, Ticket

LEMMA AdvanceUnclaimed ==
  ASSUME NEW q \in Request
  PROVE  /\ Advance(q).pc \notin {"refresh", "mark", "marked", "send"}
         /\ Committed(q).pc \notin {"refresh", "mark", "marked", "send"}
<1> DEFINE s == [Settle(q) EXCEPT !.task = 0]
<1>1. s \in Request /\ Settle(q) \in Request
  BY SettleOK DEF Request
<1>2. \/ Advance(q) = [s EXCEPT !.pc = "visit"]
      \/ Advance(q) = [s EXCEPT !.pc = "create"]
      \/ Advance(q) = [s EXCEPT !.pc = "select", !.nodes = {}]
      \/ Advance(q) = Idle
  BY DEF Advance
<1> HIDE DEF s
<1>3. /\ [s EXCEPT !.pc = "visit"].pc = "visit"
      /\ [s EXCEPT !.pc = "create"].pc = "create"
      /\ [s EXCEPT !.pc = "select", !.nodes = {}].pc = "select"
      /\ Idle.pc = "idle"
  BY <1>1 DEF Request, Idle
<1>4. Committed(q).pc = "reload"
  BY <1>1 DEF Committed, Request
<1> QED BY <1>2, <1>3, <1>4

LEMMA Unmoved ==
  ASSUME TypeOK, UNCHANGED <<row, born, enq>>
  PROVE  QueueMoves
<1>1. \A t \in Born : enq[t] \in Nat
  BY BornTask DEF TypeOK
<1>2. Born' = Born
  BY DEF Born
<1>3. \A t \in Born : enq'[t] >= enq[t]
  BY <1>1
<1> QED BY <1>2, <1>3 DEF QueueMoves

LEMMA FlushMoves ==
  ASSUME TypeOK, NEW r \in Req, req[r].pc \in {"write", "mark", "ack"}, Flush(r),
         born' = born
  PROVE  QueueMoves
<1> DEFINE t == req[r].task
           new == Flushed(t, req[r].seen, req[r].to, req[r].x)
<1>1. t \in Born /\ t \in Task
  BY BornTask DEF TypeOK, RequestOK, Holding, Dispatching
<1>2. /\ row' = [row EXCEPT ![t] = new]
      /\ enq' = IF new.status = "queued" /\ row[t].status # "queued"
                THEN [enq EXCEPT ![t] = @ + 1] ELSE enq
  BY DEF Flush
<1>3. \A u \in Born : u \in Task /\ enq[u] \in Nat
  BY BornTask DEF TypeOK
<1>4. row \in [Born -> Row] /\ enq \in [Task -> Nat]
  BY DEF TypeOK
<1> HIDE DEF t, new
<1>5. \A u \in Born : row'[u] = IF u = t THEN new ELSE row[u]
  BY <1>1, <1>2, <1>4
<1>6. \A u \in Born : enq'[u] = IF u = t /\ new.status = "queued" /\ row[t].status # "queued"
                                THEN enq[u] + 1 ELSE enq[u]
  BY <1>1, <1>2, <1>3, <1>4
<1> QED BY <1>3, <1>5, <1>6 DEF QueueMoves, Born

(* The steps that leave the table alone and claim nothing.                  *)
LEMMA QuietInv ==
  ASSUME TypeOK, TypeOK', DispatchInv, NEW r \in Req, NEW q,
         req' = [req EXCEPT ![r] = q], q.pc \notin {"refresh", "mark", "marked", "send"},
         UNCHANGED <<row, born, enq, runs>>
  PROVE  DispatchInv'
BY NothingClaimed, Unclaimed, Unmoved

LEMMA FinishInv ==
  ASSUME TypeOK, TypeOK', DispatchInv, NEW r \in Req, Finish(r),
         UNCHANGED <<row, born, enq, runs>>
  PROVE  DispatchInv'
<1>1. Idle.pc = "idle"
  BY DEF Idle
<1> QED BY <1>1, QuietInv DEF Finish

LEMMA ArrivalInv ==
  ASSUME TypeOK, TypeOK', DispatchInv, NEW r \in Req, Arrival(r)
  PROVE  DispatchInv'
<1>1. ASSUME NEW q, Start(r, q), q.pc \notin {"refresh", "mark", "marked", "send"}
      PROVE  DispatchInv'
  BY <1>1, QuietInv DEF Start
<1>2. CASE ListTasks(r)
  <2> DEFINE q == [Idle EXCEPT !.op = "list", !.pc = "visit", !.todo = Rows]
  <2>1. Start(r, q) /\ q.pc = "visit"
    BY <1>2 DEF ListTasks, Idle
  <2> QED BY <2>1, <1>1
<1>3. CASE ConfirmFlow(r)
  <2> DEFINE q == [Idle EXCEPT !.op = "confirm", !.todo = Rows, !.nodes = Node,
                               !.budget = BatchLimit]
  <2>1. Start(r, Advance(q))
    BY <1>3 DEF ConfirmFlow
  <2>2. q \in Request
    BY IdleOK, BornTask, BoardAssumption DEF Request, Op, Command
  <2> HIDE DEF q
  <2> QED BY <2>1, <2>2, <1>1, AdvanceUnclaimed
<1>4. ASSUME NEW op, RequirementCommand(r, op)
      PROVE  DispatchInv'
  <2> DEFINE q == [Idle EXCEPT !.op = op, !.pc = "visit", !.todo = Rows,
                               !.budget = IF op \in {"rename", "resume"} THEN 0 ELSE BatchLimit]
  <2>1. Start(r, q) /\ q.pc = "visit"
    BY <1>4 DEF RequirementCommand, Idle
  <2> QED BY <2>1, <1>1
<1>5. ASSUME NEW op, NEW t, TaskCommand(r, op, t)
      PROVE  DispatchInv'
  <2> DEFINE q == [Idle EXCEPT !.op = op, !.pc = "visit", !.todo = {t},
                               !.budget = BatchLimit]
  <2>1. Start(r, q) /\ q.pc = "visit"
    BY <1>5 DEF TaskCommand, Idle
  <2> QED BY <2>1, <1>1
<1> QED BY <1>2, <1>3, <1>4, <1>5 DEF Arrival

LEMMA VisitInv ==
  ASSUME TypeOK, TypeOK', DispatchInv, NEW r \in Req, NEW t \in Born, Visit(r, t)
  PROVE  DispatchInv'
<1>1. Visiting(r, t) /\ UNCHANGED <<row, born, enq, runs>>
  BY DEF Visit, VisitGone, VisitReconcile, VisitInterrupt, VisitContinue, VisitStop,
         VisitResume, VisitRename, VisitRewire, VisitDelete, Visiting
<1>2. Remaining(r, t) \in Request
  BY RemainingOK
<1>3. CASE Finish(r)
  BY <1>1, <1>3, FinishInv
<1>4. CASE Skip(r, t)
  BY <1>1, <1>2, <1>4, AdvanceUnclaimed, QuietInv DEF Skip
<1>5. ASSUME NEW pc \in {"pause", "write", "drop"}, NEW to, NEW x, Decide(r, t, pc, to, x)
      PROVE  DispatchInv'
  <2> DEFINE q == [Remaining(r, t) EXCEPT !.pc = pc, !.task = t,
                                          !.seen = row[t].status, !.to = to, !.x = x]
  <2>1. q.pc = pc
    BY <1>2 DEF Request
  <2>2. req' = [req EXCEPT ![r] = q]
    BY <1>5 DEF Decide
  <2> HIDE DEF q
  <2> QED BY <1>1, <2>1, <2>2, QuietInv
<1>6. \/ Finish(r) \/ Skip(r, t)
      \/ \E pc \in {"pause", "write", "drop"} : \E to, x : Decide(r, t, pc, to, x)
  BY DEF Visit, VisitGone, VisitReconcile, VisitInterrupt, VisitContinue, VisitStop,
         VisitResume, VisitRename, VisitRewire, VisitDelete
<1> QED BY <1>3, <1>4, <1>5, <1>6

LEMMA PauseInv ==
  ASSUME TypeOK, TypeOK', DispatchInv, NEW r \in Req, PauseAgent(r)
  PROVE  DispatchInv'
<1> DEFINE q == [req[r] EXCEPT !.pc = "write"]
<1>1. req' = [req EXCEPT ![r] = q]
  BY DEF PauseAgent
<1>2. q.pc = "write"
  BY DEF TypeOK, Request
<1> HIDE DEF q
<1> QED BY <1>1, <1>2, QuietInv DEF PauseAgent

LEMMA WriteInv ==
  ASSUME TypeOK, TypeOK', DispatchInv, NEW r \in Req, Write(r)
  PROVE  DispatchInv'
<1>1. CASE row[req[r].task].status = "absent"
  BY <1>1, FinishInv DEF Write
<1>2. CASE row[req[r].task].status # "absent"
  <2> DEFINE p == DispatchDue(req[r])
  <2>1. p \in Request
    BY BoardAssumption, SMTT(30) DEF TypeOK, DispatchDue, Request
  <2>2. req' = [req EXCEPT ![r] = Committed(p)]
    BY <1>2 DEF Write
  <2> HIDE DEF p
  <2>3. QueueMoves /\ runs' = runs
    BY <1>2, FlushMoves DEF Write
  <2> QED BY <2>1, <2>2, <2>3, AdvanceUnclaimed, Unclaimed, NothingClaimed
<1> QED BY <1>1, <1>2

LEMMA ReloadInv ==
  ASSUME TypeOK, TypeOK', DispatchInv, NEW r \in Req, Reload(r)
  PROVE  DispatchInv'
<1>1. req[r] \in Request
  BY DEF TypeOK
<1> QED BY <1>1, FinishInv, AdvanceUnclaimed, QuietInv DEF Reload

LEMMA DropInv ==
  ASSUME TypeOK, TypeOK', DispatchInv, NEW r \in Req, Drop(r)
  PROVE  DispatchInv'
<1> DEFINE t == req[r].task
           p == IF req[r].op = "delete_task"
                THEN [req[r] EXCEPT !.op = "rewire", !.todo = Rows \ {t},
                                    !.nodes = {row[t].node}]
                ELSE req[r]
<1>1. t \in Born /\ row[t] \in Row /\ row[t].node \in Node
  BY RowOK DEF TypeOK, RequestOK, Drop, Holding
<1>2. p \in Request
  BY <1>1, BornTask, ZenonT(30) DEF TypeOK, Request, Op
<1>3. req' = [req EXCEPT ![r] = Advance(p)]
  BY DEF Drop
<1>4. /\ row' = [row EXCEPT ![t].status = "absent"]
      /\ UNCHANGED <<born, enq, runs>>
  BY DEF Drop
<1> HIDE DEF p, t
<1>5. \A u \in Born : row'[u].status = "queued" => row[u].status = "queued"
  <2>1. row'[t] = [row[t] EXCEPT !.status = "absent"]
    BY <1>1, <1>4 DEF TypeOK
  <2>2. row'[t].status = "absent"
    BY <2>1, <1>1 DEF Row
  <2>3. \A u \in Born \ {t} : row'[u] = row[u]
    BY <1>4 DEF TypeOK
  <2> QED BY <2>2, <2>3
<1>6. \A u \in Born : enq[u] \in Nat
  BY BornTask DEF TypeOK
<1>7. Born' = Born
  BY <1>4 DEF Born
<1>8. \A u \in Born : enq'[u] >= enq[u] /\ enq'[u] = enq[u]
  BY <1>4, <1>6
<1>9. QueueMoves
  BY <1>5, <1>7, <1>8 DEF QueueMoves
<1> QED BY <1>2, <1>3, <1>4, <1>9, AdvanceUnclaimed, Unclaimed, NothingClaimed

LEMMA CreateInv ==
  ASSUME TypeOK, TypeOK', DispatchInv, NEW r \in Req, Create(r)
  PROVE  DispatchInv'
<1> DEFINE t == born + 1
<1>1. PICK n \in req[r].nodes :
        /\ row' = [u \in 1..t |->
                     IF u = t THEN [node |-> n, status |-> "queued",
                                    x |-> [NoExtras EXCEPT !.deps = Dep[n]]]
                              ELSE row[u]]
        /\ req' = [req EXCEPT ![r] =
                     Committed([req[r] EXCEPT !.task = t, !.nodes = @ \ {n}])]
  BY DEF Create
<1> DEFINE p == [req[r] EXCEPT !.task = t, !.nodes = @ \ {n}]
<1>2. p \in Request
  <2>1. t \in Task /\ req[r] \in Request
    BY DEF TypeOK, Create
  <2> HIDE DEF t
  <2> QED BY <2>1 DEF Request
<1>3. req' = [req EXCEPT ![r] = Committed(p)]
  BY <1>1
<1> HIDE DEF p
<1>4. /\ born' = t /\ born \in Nat /\ Born = 1..born /\ Born' = 1..t /\ t \notin Born
      /\ enq' = [enq EXCEPT ![t] = 1] /\ runs' = runs
  BY BoardAssumption DEF Create, TypeOK, Born
<1>5. \A u \in Born : enq[u] \in Nat /\ enq'[u] = enq[u] /\ row'[u] = row[u]
  BY <1>1, <1>4, BornTask DEF TypeOK
<1>6. Born \subseteq Born' /\ \A u \in Born : enq'[u] >= enq[u]
  BY <1>4, <1>5
<1>7. QueueMoves
  BY <1>5, <1>6 DEF QueueMoves
<1> QED BY <1>2, <1>3, <1>4, <1>7, AdvanceUnclaimed, Unclaimed, NothingClaimed

(* The claim takes the current queueing of a row, which nobody had.         *)
LEMMA ClaimInv ==
  ASSUME TypeOK, TypeOK', DispatchInv, NEW r \in Req, ClaimTaskForDispatch(r)
  PROVE  DispatchInv'
<1> DEFINE t == req[r].task
<1>1. t \in Born /\ t \in Task /\ row[t] \in Row /\ req[r].pc = "claim"
  BY RowOK DEF TypeOK, RequestOK, ClaimTaskForDispatch, Holding, Dispatching
<1>2. CASE Finish(r) /\ UNCHANGED row
  BY <1>2, FinishInv DEF ClaimTaskForDispatch
<1>3. CASE /\ row[t].status = "queued"
           /\ row' = [row EXCEPT ![t].status = "running"]
           /\ req' = [req EXCEPT ![r].pc = "refresh", ![r].ticket = enq[t]]
  <2>1. UNCHANGED <<born, enq, runs>> /\ Born' = Born
    BY DEF ClaimTaskForDispatch, Born
  <2>2. /\ ~Claimed(r) /\ req'[r].task = t /\ req'[r].ticket = enq[t]
        /\ \A s \in Req \ {r} : req'[s] = req[s]
    BY <1>1, <1>3 DEF TypeOK, Request, Claimed
  <2>3. /\ \A u \in Born : row'[u].status = "queued" => row[u].status = "queued" /\ u # t
    <3>1. row'[t] = [row[t] EXCEPT !.status = "running"]
      BY <1>1, <1>3 DEF TypeOK
    <3>2. row'[t].status = "running"
      BY <1>1, <3>1 DEF Row
    <3>3. \A u \in Born \ {t} : row'[u] = row[u]
      BY <1>3 DEF TypeOK
    <3> QED BY <3>2, <3>3
  <2>4. \A s \in Req \ {r} : Claimed(s)' <=> Claimed(s)
    BY <2>2 DEF Claimed
  <2>5. \A s \in Req \ {r} : Ticket(s)' = Ticket(s)
    BY <2>2 DEF Ticket
  <2>6. Ticket(r)' = <<t, enq[t]>>
    BY <2>2 DEF Ticket
  <2> HIDE DEF t
  <2>7. /\ <<t, enq[t]>> \notin runs
        /\ \A s \in Req : Claimed(s) => Ticket(s) # <<t, enq[t]>>
    BY <1>1, <1>3 DEF DispatchInv, QueuedIsUnclaimed
  <2>8. TicketsInThePast'
    <3>1. \A s \in Req \ {r} : Claimed(s) => req'[s].ticket <= enq'[req'[s].task]
      BY <2>1, <2>2 DEF DispatchInv, TicketsInThePast
    <3>2. req'[r].ticket <= enq'[req'[r].task]
      BY <1>1, <2>1, <2>2 DEF TypeOK
    <3> QED BY <3>1, <3>2, <2>1, <2>4 DEF DispatchInv, TicketsInThePast
  <2>9. QueuedIsUnclaimed'
    BY <2>1, <2>3, <2>4, <2>5, <2>6 DEF DispatchInv, QueuedIsUnclaimed
  <2>10. OneRunPerQueueing'
    <3> SUFFICES ASSUME NEW s \in Req, Claimed(s)'
                 PROVE  /\ Ticket(s)' \notin runs
                        /\ \A u \in Req \ {s} : Claimed(u)' => Ticket(u)' # Ticket(s)'
      BY <2>1 DEF OneRunPerQueueing
    <3>1. CASE s = r
      BY <3>1, <2>4, <2>5, <2>6, <2>7
    <3>2. CASE s # r
      BY <3>2, <2>4, <2>5, <2>6, <2>7 DEF DispatchInv, OneRunPerQueueing
    <3> QED BY <3>1, <3>2
  <2> QED BY <2>8, <2>9, <2>10 DEF DispatchInv
<1> QED BY <1>2, <1>3 DEF ClaimTaskForDispatch

LEMMA SelectInv ==
  ASSUME TypeOK, TypeOK', DispatchInv, NEW r \in Req, Select(r)
  PROVE  DispatchInv'
<1>1. CASE Finish(r)
  BY <1>1, FinishInv DEF Select
<1>2. ASSUME NEW t, req' = [req EXCEPT ![r].pc = "claim", ![r].task = t]
      PROVE  DispatchInv'
  <2> DEFINE q == [req[r] EXCEPT !.pc = "claim", !.task = t]
  <2>1. q.pc = "claim"
    BY DEF TypeOK, Request
  <2>2. req' = [req EXCEPT ![r] = q]
    BY <1>2
  <2> HIDE DEF q
  <2> QED BY <2>1, <2>2, QuietInv DEF Select
<1> QED BY <1>1, <1>2 DEF Select

(* A request that keeps its claim keeps its ticket.                         *)
LEMMA StillClaimed ==
  ASSUME TypeOK, NEW r \in Req, NEW q, req' = [req EXCEPT ![r] = q], Claimed(r),
         q.task = req[r].task, q.ticket = req[r].ticket
  PROVE  \A s \in Req : Claimed(s)' => Claimed(s) /\ Ticket(s)' = Ticket(s)
<1>1. \A s \in Req : req'[s] = IF s = r THEN q ELSE req[s]
  BY DEF TypeOK
<1> QED BY <1>1 DEF Claimed, Ticket

LEMMA RefreshInv ==
  ASSUME TypeOK, TypeOK', DispatchInv, NEW r \in Req, RefreshCandidate(r)
  PROVE  DispatchInv'
<1> DEFINE t == req[r].task
           q == [req[r] EXCEPT !.pc = "mark", !.seen = row[t].status, !.to = "running",
                               !.x = [row[t].x EXCEPT !.dispatch = "running",
                                                      !.heartbeat = "fresh"]]
<1>1. CASE Finish(r)
  BY <1>1, FinishInv DEF RefreshCandidate
<1>2. CASE req' = [req EXCEPT ![r] = q]
  <2>1. q.task = req[r].task /\ q.ticket = req[r].ticket
    BY DEF TypeOK, Request
  <2> HIDE DEF q
  <2>2. Claimed(r)
    BY DEF RefreshCandidate, Claimed
  <2>3. QueueMoves /\ runs' = runs
    BY Unmoved DEF RefreshCandidate
  <2> QED BY <1>2, <2>1, <2>2, <2>3, StillClaimed, NothingClaimed
<1> QED BY <1>1, <1>2 DEF RefreshCandidate

LEMMA MarkInv ==
  ASSUME TypeOK, TypeOK', DispatchInv, NEW r \in Req, MarkRunning(r)
  PROVE  DispatchInv'
<1>1. CASE row[req[r].task].status = "absent"
  BY <1>1, FinishInv DEF MarkRunning
<1>2. CASE row[req[r].task].status # "absent"
  <2> DEFINE q == [req[r] EXCEPT !.pc = "marked"]
  <2>1. q.task = req[r].task /\ q.ticket = req[r].ticket
    BY DEF TypeOK, Request
  <2>2. req' = [req EXCEPT ![r] = q]
    BY <1>2 DEF MarkRunning
  <2> HIDE DEF q
  <2>3. Claimed(r)
    BY DEF MarkRunning, Claimed
  <2>4. QueueMoves /\ runs' = runs
    BY <1>2, FlushMoves DEF MarkRunning
  <2> QED BY <2>1, <2>2, <2>3, <2>4, StillClaimed, NothingClaimed
<1> QED BY <1>1, <1>2

LEMMA ReloadMarkedInv ==
  ASSUME TypeOK, TypeOK', DispatchInv, NEW r \in Req, ReloadMarked(r)
  PROVE  DispatchInv'
<1> DEFINE t == req[r].task
           q == [req[r] EXCEPT !.pc = "send", !.seen = row[t].status]
<1>1. CASE Finish(r)
  BY <1>1, FinishInv DEF ReloadMarked
<1>2. CASE req' = [req EXCEPT ![r].pc = "send", ![r].seen = row[t].status]
  <2>1. q.task = req[r].task /\ q.ticket = req[r].ticket
    BY DEF TypeOK, Request
  <2>2. req' = [req EXCEPT ![r] = q]
    BY <1>2
  <2> HIDE DEF q
  <2>3. Claimed(r)
    BY DEF ReloadMarked, Claimed
  <2>4. QueueMoves /\ runs' = runs
    BY Unmoved DEF ReloadMarked
  <2> QED BY <2>1, <2>2, <2>3, <2>4, StillClaimed, NothingClaimed
<1> QED BY <1>1, <1>2 DEF ReloadMarked

LEMMA AcknowledgeInv ==
  ASSUME TypeOK, TypeOK', DispatchInv, NEW r \in Req, Acknowledge(r)
  PROVE  DispatchInv'
<1>1. CASE row[req[r].task].status = "absent"
  BY <1>1, FinishInv DEF Acknowledge
<1>2. CASE row[req[r].task].status # "absent"
  <2> DEFINE p == [req[r] EXCEPT !.budget = @ - 1]
  <2>1. p \in Request
    BY DEF TypeOK, RequestOK, Request, Acknowledge, Dispatching
  <2>2. req' = [req EXCEPT ![r] = Committed(p)]
    BY <1>2 DEF Acknowledge
  <2> HIDE DEF p
  <2>3. QueueMoves /\ runs' = runs
    BY <1>2, FlushMoves DEF Acknowledge
  <2> QED BY <2>1, <2>2, <2>3, AdvanceUnclaimed, Unclaimed, NothingClaimed
<1> QED BY <1>1, <1>2

(* The message uses the claim up: nobody else had it, and the row is not    *)
(* queued under it.                                                         *)
LEMMA SendInv ==
  ASSUME TypeOK, TypeOK', DispatchInv, NEW r \in Req, Send(r)
  PROVE  DispatchInv'
<1>1. /\ Claimed(r) /\ Born' = Born /\ UNCHANGED <<row, born, enq>>
      /\ runs' \subseteq runs \cup {Ticket(r)}
  BY DEF Send, Claimed, Born, Ticket
<1>2. req'[r].pc = "ack" /\ \A s \in Req \ {r} : req'[s] = req[s]
  <2> DEFINE q(to, d) == [req[r] EXCEPT !.pc = "ack", !.to = to, !.x.dispatch = d]
  <2>1. \A to, d : q(to, d).pc = "ack"
    BY DEF TypeOK, Request
  <2>2. PICK to, d : req' = [req EXCEPT ![r] = q(to, d)]
    BY DEF Send
  <2> HIDE DEF q
  <2> QED BY <2>1, <2>2 DEF TypeOK
<1>3. ~Claimed(r)' /\ \A s \in Req \ {r} : Claimed(s)' <=> Claimed(s)
  BY <1>2 DEF Claimed
<1>4. \A s \in Req \ {r} : Ticket(s)' = Ticket(s)
  BY <1>2 DEF Ticket
<1>5. Ticket(r)[1] = req[r].task /\ Ticket(r)[2] = req[r].ticket
  BY DEF Ticket
<1>6. TicketsInThePast'
  <2>1. \A s \in Req : Claimed(s)' => req'[s].ticket <= enq'[req'[s].task]
    BY <1>1, <1>2, <1>3 DEF DispatchInv, TicketsInThePast
  <2>2. \A p \in runs' : p[2] <= enq'[p[1]]
    BY <1>1, <1>5 DEF DispatchInv, TicketsInThePast
  <2> QED BY <2>1, <2>2 DEF TicketsInThePast
<1>7. QueuedIsUnclaimed'
  BY <1>1, <1>3, <1>4 DEF DispatchInv, QueuedIsUnclaimed
<1>8. OneRunPerQueueing'
  BY <1>1, <1>3, <1>4 DEF DispatchInv, OneRunPerQueueing
<1> QED BY <1>6, <1>7, <1>8 DEF DispatchInv

LEMMA EnvironmentInv ==
  ASSUME TypeOK, TypeOK', DispatchInv, Agents \/ Clock \/ Crash
  PROVE  DispatchInv'
<1>1. CASE Agents
  <2>1. UNCHANGED <<row, born, req, enq, runs>>
    BY <1>1 DEF Agents, AgentDelivers, AgentGivesUp
  <2> QED BY <2>1, Unmoved, NothingClaimed DEF Claimed, Ticket
<1>2. ASSUME NEW t \in Born, HeartbeatAges(t)
      PROVE  DispatchInv'
  <2>1. /\ UNCHANGED <<born, req, enq, runs>>
        /\ row' = [row EXCEPT ![t] = [row[t] EXCEPT !.x = [row[t].x EXCEPT !.heartbeat = "old"]]]
    BY <1>2 DEF HeartbeatAges
  <2>2. \A u \in Born : row'[u].status = row[u].status
    BY <2>1, RowOK DEF TypeOK, Row
  <2>3. Born' = Born /\ \A u \in Born : enq[u] \in Nat /\ enq'[u] = enq[u]
    BY <2>1, BornTask DEF TypeOK, Born
  <2>4. QueueMoves
    BY <2>2, <2>3 DEF QueueMoves
  <2> QED BY <2>1, <2>4, NothingClaimed DEF Claimed, Ticket
<1>3. CASE Crash
  <2>1. QueueMoves /\ runs' = runs
    BY <1>3, Unmoved DEF Crash
  <2>2. \A s \in Req : ~Claimed(s)'
    BY <1>3 DEF Crash, Claimed, Idle
  <2> QED BY <2>1, <2>2, NothingClaimed
<1> QED BY <1>1, <1>2, <1>3 DEF Clock

LEMMA InitInv == Init => DispatchInv
BY DEF Init, DispatchInv, TicketsInThePast, QueuedIsUnclaimed, OneRunPerQueueing,
       Claimed, Idle, Born

LEMMA InvStep == TypeOK /\ TypeOK' /\ DispatchInv /\ [Next]_vars => DispatchInv'
<1> SUFFICES ASSUME TypeOK, TypeOK', DispatchInv, [Next]_vars PROVE DispatchInv'
  OBVIOUS
<1>1. CASE UNCHANGED vars
  BY <1>1, Unmoved, NothingClaimed DEF vars, Claimed, Ticket
<1>2. ASSUME NEW r \in Req, Handler(r) PROVE DispatchInv'
  BY <1>2, VisitInv, PauseInv, WriteInv, ReloadInv, DropInv, CreateInv, ClaimInv, RefreshInv,
     MarkInv, ReloadMarkedInv, SendInv, AcknowledgeInv, SelectInv DEF Handler, Dispatch
<1> QED BY <1>1, <1>2, ArrivalInv, EnvironmentInv DEF Next

THEOREM DispatchInvariant == Spec => []DispatchInv
BY InitType, TypeStep, InitInv, InvStep, PTL DEF Spec

(* A row is sent to its agent at most once each time it enters the queue,   *)
(* whatever number of requests dispatch, restart or lose their claim.       *)
THEOREM OneRun == Spec => []OneRunPerQueueing
<1>1. DispatchInv => OneRunPerQueueing
  BY DEF DispatchInv
<1> QED BY <1>1, DispatchInvariant, PTL

-----------------------------------------------------------------------------
(* Dependencies first. *)

(* While no single task is deleted a row keeps the dependencies of its node *)
(* and so does every copy a handler writes back; a row that was found       *)
(* runnable has the nodes it depends on in the history of completions.      *)
Working == Writing \cup {"claim", "refresh"}
DepsDone(t) == \A n \in Dep[row[t].node] : \E u \in done : row[u].node = n
DepsCopied(q) ==
  /\ q.op \notin {"delete_task", "rewire"}
  /\ q.pc \in Writing => q.x.deps = Dep[row[q.task].node]
  /\ q.pc \in {"claim", "refresh", "mark", "marked", "send"} => DepsDone(q.task)
DepsInv ==
  /\ quota["delete_task"] <= Quota["delete_task"]
  /\ \A t \in Born : row[t].status = "completed" => t \in done
  /\ NoneDeleted =>
       /\ \A t \in Born : row[t].x.deps = Dep[row[t].node]
       /\ \A r \in Req : DepsCopied(req[r])

(* What a step may do to the table for the sake of the dependencies.        *)
DepsMove ==
  /\ Born \subseteq Born' /\ done \subseteq done'
  /\ \A t \in Born : row'[t].node = row[t].node
  /\ \A t \in Born' : row'[t].status = "completed" => t \in done'
  /\ quota'["delete_task"] <= quota["delete_task"]
  /\ NoneDeleted' => \A t \in Born' : row'[t].x.deps = Dep[row'[t].node]

LEMMA StillNoneDeleted ==
  ASSUME TypeOK, TypeOK', quota["delete_task"] <= Quota["delete_task"],
         quota'["delete_task"] <= quota["delete_task"]
  PROVE  /\ quota'["delete_task"] <= Quota["delete_task"]
         /\ NoneDeleted' => NoneDeleted
<1>1. "delete_task" \in Bounded
  BY DEF Bounded, Command
<1>2. /\ quota["delete_task"] \in Nat /\ quota'["delete_task"] \in Nat
      /\ Quota["delete_task"] \in Nat
  BY <1>1, BoardAssumption DEF TypeOK
<1> QED BY <1>2 DEF NoneDeleted

(* A copy stays good when the table moves on.                               *)
LEMMA CopyKept ==
  ASSUME TypeOK, NEW q, DepsCopied(q), q.pc \in Working => q.task \in Born,
         done \subseteq done', \A t \in Born : row'[t].node = row[t].node
  PROVE  /\ q.op \notin {"delete_task", "rewire"}
         /\ q.pc \in Writing => q.x.deps = Dep[row'[q.task].node]
         /\ q.pc \in {"claim", "refresh", "mark", "marked", "send"} =>
              \A n \in Dep[row'[q.task].node] : \E u \in done' : row'[u].node = n
<1>1. done \subseteq Born
  BY DEF TypeOK
<1> QED BY <1>1 DEF DepsCopied, DepsDone, Working, Writing

(* One request goes on with a good copy, if it holds one.                   *)
LEMMA DepsStep ==
  ASSUME TypeOK, TypeOK', DepsInv, DepsMove, NEW r \in Req, NEW q,
         req' = [req EXCEPT ![r] = q],
         NoneDeleted' => DepsCopied(q),
         q.pc \in Working => q.task \in Born
  PROVE  DepsInv'
<1>1. /\ quota'["delete_task"] <= Quota["delete_task"]
      /\ NoneDeleted' => NoneDeleted
  BY StillNoneDeleted DEF DepsInv, DepsMove
<1>2. ASSUME NoneDeleted', NEW s \in Req
      PROVE  DepsCopied(req[s])'
  <2>1. \A p : DepsCopied(p) /\ (p.pc \in Working => p.task \in Born) =>
          /\ p.op \notin {"delete_task", "rewire"}
          /\ p.pc \in Writing => p.x.deps = Dep[row'[p.task].node]
          /\ p.pc \in {"claim", "refresh", "mark", "marked", "send"} =>
               \A n \in Dep[row'[p.task].node] : \E u \in done' : row'[u].node = n
    BY CopyKept DEF DepsMove
  <2>2. DepsCopied(req[s]) /\ (req[s].pc \in Working => req[s].task \in Born)
    BY <1>1, <1>2 DEF DepsInv, TypeOK, RequestOK, Working, Writing, Holding, Dispatching
  <2>3. req'[s] = IF s = r THEN q ELSE req[s]
    BY DEF TypeOK
  <2> QED BY <1>2, <2>1, <2>2, <2>3, SMTT(30) DEF DepsCopied, DepsDone
<1> QED BY <1>1, <1>2 DEF DepsInv, DepsMove

(* A request that holds no copy, or that is none of the deleting ones.      *)
LEMMA NoCopy ==
  ASSUME NEW q, q.op \notin {"delete_task", "rewire"}, q.pc \notin Working
  PROVE  DepsCopied(q)
BY DEF DepsCopied, Working, Writing

(* Where the handlers go on: nothing is held, and the operation is the same *)
(* or over.                                                                 *)
LEMMA AdvanceFacts ==
  ASSUME NEW q \in Request
  PROVE  /\ Advance(q).op \in {q.op, "none"}
         /\ Advance(q).pc \in {"idle", "visit", "create", "select"}
         /\ Committed(q).op = q.op /\ Committed(q).pc = "reload"
<1> DEFINE s == [Settle(q) EXCEPT !.task = 0]
<1>1. s \in Request /\ Settle(q) \in Request /\ s.op = q.op /\ Settle(q).op = q.op
  <2>1. Settle(q) \in Request /\ Settle(q).op = q.op
    BY SettleOK DEF Settle, Request
  <2> QED BY <2>1 DEF Request
<1>2. \/ Advance(q) = [s EXCEPT !.pc = "visit"]
      \/ Advance(q) = [s EXCEPT !.pc = "create"]
      \/ Advance(q) = [s EXCEPT !.pc = "select", !.nodes = {}]
      \/ Advance(q) = Idle
  BY DEF Advance
<1> HIDE DEF s
<1>3. Committed(q).op = q.op /\ Committed(q).pc = "reload"
  BY <1>1 DEF Committed, Request
<1>4. Idle.op = "none" /\ Idle.pc = "idle"
  BY DEF Idle
<1> QED BY <1>1, <1>2, <1>3, <1>4 DEF Request

LEMMA DepsQuiet ==
  ASSUME TypeOK, TypeOK', DepsInv, NEW r \in Req, NEW q, req' = [req EXCEPT ![r] = q],
         UNCHANGED <<row, born, done>>, quota'["delete_task"] <= quota["delete_task"],
         NoneDeleted' => DepsCopied(q)
  PROVE  DepsInv'
<1>1. Born' = Born
  BY DEF Born
<1>2. NoneDeleted' => NoneDeleted
  BY StillNoneDeleted DEF DepsInv
<1>3. DepsMove
  BY <1>1, <1>2 DEF DepsInv, DepsMove
<1>4. q.pc \in Working => q.task \in Born
  BY <1>1 DEF TypeOK, RequestOK, Working, Writing, Holding, Dispatching
<1> QED BY <1>3, <1>4, DepsStep

LEMMA SameQuota ==
  ASSUME TypeOK, UNCHANGED quota
  PROVE  quota'["delete_task"] <= quota["delete_task"]
<1>1. quota["delete_task"] \in Nat
  BY DEF TypeOK, Bounded, Command
<1> QED BY <1>1

LEMMA SpentQuota ==
  ASSUME TypeOK, NEW c \in Bounded, Spend(c)
  PROVE  /\ quota'["delete_task"] <= quota["delete_task"]
         /\ c = "delete_task" => quota'["delete_task"] < quota["delete_task"]
<1>1. quota \in [Bounded -> Nat] /\ "delete_task" \in Bounded
  BY DEF TypeOK, Bounded, Command
<1> QED BY <1>1 DEF Spend

LEMMA DepsFinish ==
  ASSUME TypeOK, TypeOK', DepsInv, NEW r \in Req, Finish(r),
         UNCHANGED <<row, born, done, quota>>
  PROVE  DepsInv'
<1>1. DepsCopied(Idle)
  BY NoCopy DEF Idle, Working, Writing
<1> QED BY <1>1, SameQuota, DepsQuiet DEF Finish

LEMMA DepsStart ==
  ASSUME TypeOK, TypeOK', DepsInv, NEW r \in Req, NEW q, Start(r, q),
         quota'["delete_task"] <= quota["delete_task"],
         q.pc \notin Working,
         q.op \in {"delete_task", "rewire"} => quota'["delete_task"] < quota["delete_task"]
  PROVE  DepsInv'
<1>1. q.op \in {"delete_task", "rewire"} => ~NoneDeleted'
  <2>1. "delete_task" \in Bounded
    BY DEF Bounded, Command
  <2>2. quota["delete_task"] \in Nat /\ quota'["delete_task"] \in Nat /\ Quota["delete_task"] \in Nat
    BY <2>1, BoardAssumption DEF TypeOK
  <2> QED BY <2>2 DEF NoneDeleted, DepsInv
<1> QED BY <1>1, NoCopy, DepsQuiet DEF Start

LEMMA DepsArrival ==
  ASSUME TypeOK, TypeOK', DepsInv, NEW r \in Req, Arrival(r)
  PROVE  DepsInv'
<1> USE DEF Working, Writing
<1>1. CASE ListTasks(r)
  <2> DEFINE q == [Idle EXCEPT !.op = "list", !.pc = "visit", !.todo = Rows]
  <2>1. Start(r, q) /\ q.pc = "visit" /\ q.op = "list" /\ UNCHANGED quota
    BY <1>1 DEF ListTasks, Idle
  <2> HIDE DEF q
  <2> QED BY <2>1, SameQuota, DepsStart
<1>2. CASE ConfirmFlow(r)
  <2> DEFINE q == [Idle EXCEPT !.op = "confirm", !.todo = Rows, !.nodes = Node,
                               !.budget = BatchLimit]
  <2>1. Start(r, Advance(q)) /\ Spend("confirm") /\ q.op = "confirm"
    BY <1>2 DEF ConfirmFlow, Idle
  <2>2. q \in Request
    BY IdleOK, BornTask, BoardAssumption DEF Request, Op, Command
  <2> HIDE DEF q
  <2>3. quota'["delete_task"] <= quota["delete_task"]
    BY <2>1, SpentQuota DEF Bounded, Command
  <2>4. Advance(q).op \in {"confirm", "none"}
        /\ Advance(q).pc \in {"idle", "visit", "create", "select"}
    BY <2>1, <2>2, AdvanceFacts
  <2> QED BY <2>1, <2>3, <2>4, DepsStart
<1>3. ASSUME NEW op \in {"stop", "resume", "rename", "delete_requirement"},
             RequirementCommand(r, op)
      PROVE  DepsInv'
  <2> DEFINE q == [Idle EXCEPT !.op = op, !.pc = "visit", !.todo = Rows,
                               !.budget = IF op \in {"rename", "resume"} THEN 0 ELSE BatchLimit]
  <2>1. Start(r, q) /\ q.pc = "visit" /\ q.op = op /\ Spend(op)
    BY <1>3 DEF RequirementCommand, Idle
  <2> HIDE DEF q
  <2>2. quota'["delete_task"] <= quota["delete_task"]
    BY <2>1, SpentQuota DEF Bounded, Command
  <2> QED BY <2>1, <2>2, DepsStart
<1>4. ASSUME NEW op \in {"interrupt", "continue", "delete_task"}, NEW t \in Born,
             TaskCommand(r, op, t)
      PROVE  DepsInv'
  <2> DEFINE q == [Idle EXCEPT !.op = op, !.pc = "visit", !.todo = {t},
                               !.budget = BatchLimit]
  <2>1. Start(r, q) /\ q.pc = "visit" /\ q.op = op /\ Spend(op)
    BY <1>4 DEF TaskCommand, Idle
  <2> HIDE DEF q
  <2>2. op \in Bounded
    BY DEF Bounded, Command
  <2>3. /\ quota'["delete_task"] <= quota["delete_task"]
        /\ op = "delete_task" => quota'["delete_task"] < quota["delete_task"]
    BY <2>1, <2>2, SpentQuota
  <2> QED BY <2>1, <2>3, DepsStart
<1> QED BY <1>1, <1>2, <1>3, <1>4 DEF Arrival

(* A handler decides what to write on a copy of the row it loads.           *)
LEMMA DepsVisit ==
  ASSUME TypeOK, TypeOK', DepsInv, NEW r \in Req, NEW t \in Born, Visit(r, t)
  PROVE  DepsInv'
<1>1. Visiting(r, t) /\ UNCHANGED <<row, born, done, quota>>
  BY DEF Visit, VisitGone, VisitReconcile, VisitInterrupt, VisitContinue, VisitStop,
         VisitResume, VisitRename, VisitRewire, VisitDelete, Visiting
<1>2. /\ Remaining(r, t) \in Request
      /\ Remaining(r, t).op = req[r].op
  <2>1. req[r] \in Request
    BY DEF TypeOK
  <2>2. Remaining(r, t).op = req[r].op
    BY <2>1 DEF Remaining, Request
  <2> QED BY <2>2, RemainingOK
<1>3. NoneDeleted' => NoneDeleted
  BY <1>1 DEF NoneDeleted
<1>4. CASE Finish(r)
  BY <1>1, <1>4, DepsFinish
<1>5. CASE Skip(r, t)
  <2> DEFINE q == Advance(Remaining(r, t))
  <2>1. q.op \in {req[r].op, "none"} /\ q.pc \notin Working
    BY <1>2, AdvanceFacts DEF Working, Writing
  <2>2. req' = [req EXCEPT ![r] = q]
    BY <1>5 DEF Skip
  <2> HIDE DEF q
  <2>3. NoneDeleted' => DepsCopied(q)
    BY <1>3, <2>1, NoCopy DEF DepsInv, DepsCopied
  <2> QED BY <1>1, <2>2, <2>3, SameQuota, DepsQuiet
<1>6. ASSUME NEW pc \in {"pause", "write", "drop"}, NEW to, NEW x,
             Decide(r, t, pc, to, x), req[r].op # "rewire" => x.deps = row[t].x.deps
      PROVE  DepsInv'
  <2> DEFINE q == [Remaining(r, t) EXCEPT !.pc = pc, !.task = t,
                                          !.seen = row[t].status, !.to = to, !.x = x]
  <2>1. q.pc = pc /\ q.task = t /\ q.x = x /\ q.op = req[r].op
    BY <1>2 DEF Request
  <2>2. req' = [req EXCEPT ![r] = q]
    BY <1>6 DEF Decide
  <2> HIDE DEF q
  <2>3. NoneDeleted' => DepsCopied(q)
    BY <1>3, <1>6, <2>1 DEF DepsInv, DepsCopied
  <2> QED BY <1>1, <2>2, <2>3, SameQuota, DepsQuiet
<1>7. \/ Finish(r) \/ Skip(r, t)
      \/ \E pc \in {"pause", "write", "drop"} : \E to, x :
           Decide(r, t, pc, to, x) /\ (req[r].op # "rewire" => x.deps = row[t].x.deps)
  <2> DEFINE Copying(x) == \E pc \in {"pause", "write", "drop"}, to \in RowStatus :
                             Decide(r, t, pc, to, x)
             Both(d, h) == [row[t].x EXCEPT !.dispatch = d, !.heartbeat = h]
             One(d) == [row[t].x EXCEPT !.dispatch = d]
  <2>1. row[t].x \in Extras /\ row[t].status \in RowStatus
    BY RowOK
  <2>2. \A d, h : Both(d, h).deps = row[t].x.deps /\ One(d).deps = row[t].x.deps
    BY <2>1 DEF Extras
  <2>12. ASSUME NEW x, Copying(x), x.deps = row[t].x.deps
         PROVE  \E pc \in {"pause", "write", "drop"} : \E to, y :
                  Decide(r, t, pc, to, y) /\ (req[r].op # "rewire" => y.deps = row[t].x.deps)
    BY <2>12
  <2>3. CASE VisitGone(r, t)
    BY <2>3 DEF VisitGone
  <2>4. CASE VisitReconcile(r, t)
    <3>1. Copying(Both("completed", "fresh")) \/ Copying(One("failed")) \/ Skip(r, t)
      BY <2>4 DEF VisitReconcile, RowStatus, Status
    <3> HIDE DEF Copying, Both, One
    <3> QED BY <2>2, <2>12, <3>1
  <2>5. CASE VisitInterrupt(r, t)
    <3>1. Copying(Both("interrupted", "fresh")) \/ Finish(r)
      BY <2>5 DEF VisitInterrupt, RowStatus, Status
    <3> HIDE DEF Copying, Both, One
    <3> QED BY <2>2, <2>12, <3>1
  <2>6. CASE VisitContinue(r, t)
    <3>1. Copying(Both("pending", "fresh")) \/ Copying(Both("approved", "fresh")) \/ Finish(r)
      BY <2>6 DEF VisitContinue, RowStatus, Status
    <3> HIDE DEF Copying, Both, One
    <3> QED BY <2>2, <2>12, <3>1
  <2>7. CASE VisitStop(r, t)
    <3>1. Copying(One("interrupted")) \/ Copying(row[t].x)
      BY <2>7 DEF VisitStop, RowStatus, Status
    <3> HIDE DEF Copying, Both, One
    <3> QED BY <2>2, <2>12, <3>1
  <2>8. CASE VisitResume(r, t)
    <3>1. Copying(Both("pending", "fresh")) \/ Skip(r, t)
      BY <2>8 DEF VisitResume, RowStatus, Status
    <3> HIDE DEF Copying, Both, One
    <3> QED BY <2>2, <2>12, <3>1
  <2>9. CASE VisitRename(r, t)
    BY <2>9 DEF VisitRename
  <2>10. CASE VisitRewire(r, t)
    <3>1. req[r].op = "rewire"
      BY <2>10 DEF VisitRewire
    <3> QED BY <2>10, <3>1 DEF VisitRewire
  <2>11. CASE VisitDelete(r, t)
    BY <2>11 DEF VisitDelete
  <2> QED BY <2>3, <2>4, <2>5, <2>6, <2>7, <2>8, <2>9, <2>10, <2>11 DEF Visit
<1> QED BY <1>4, <1>5, <1>6, <1>7

LEMMA DepsPause ==
  ASSUME TypeOK, TypeOK', DepsInv, NEW r \in Req, PauseAgent(r)
  PROVE  DepsInv'
<1> DEFINE q == [req[r] EXCEPT !.pc = "write"]
<1>1. /\ req' = [req EXCEPT ![r] = q] /\ req[r].pc = "pause"
      /\ UNCHANGED <<row, born, done, quota>>
  BY DEF PauseAgent
<1>2. q.pc = "write" /\ q.op = req[r].op /\ q.x = req[r].x /\ q.task = req[r].task
  BY DEF TypeOK, Request
<1> HIDE DEF q
<1>3. NoneDeleted' => DepsCopied(q)
  BY <1>1, <1>2 DEF DepsInv, DepsCopied, NoneDeleted, Writing
<1> QED BY <1>1, <1>3, SameQuota, DepsQuiet

(* A flush writes a copy with the dependencies the row has.                 *)
LEMMA DepsFlush ==
  ASSUME TypeOK, TypeOK', DepsInv, NEW r \in Req, req[r].pc \in {"write", "mark", "ack"},
         Flush(r), UNCHANGED <<born, quota>>
  PROVE  DepsMove
<1> DEFINE t == req[r].task
           new == Flushed(t, req[r].seen, req[r].to, req[r].x)
<1>1. t \in Born
  BY DEF TypeOK, RequestOK, Holding, Dispatching
<1>2. /\ row' = [row EXCEPT ![t] = new]
      /\ done' = IF new.status = "completed" THEN done \cup {t} ELSE done
  BY DEF Flush
<1>3. new.node = row[t].node /\ new.x = req[r].x
  BY <1>1, RowOK DEF Flushed, Row
<1>4. NoneDeleted => new.x.deps = Dep[row[t].node]
  BY <1>3 DEF DepsInv, DepsCopied, Writing
<1> HIDE DEF t, new
<1>5. \A u \in Born : row'[u] = IF u = t THEN new ELSE row[u]
  BY <1>1, <1>2 DEF TypeOK
<1>6. Born' = Born /\ (NoneDeleted' => NoneDeleted)
  BY DEF Born, NoneDeleted
<1>7. quota'["delete_task"] <= quota["delete_task"]
  BY SameQuota
<1> QED BY <1>2, <1>3, <1>4, <1>5, <1>6, <1>7 DEF DepsInv, DepsMove

LEMMA DepsCommit ==
  ASSUME TypeOK, TypeOK', DepsInv, DepsMove, NEW r \in Req, NEW p \in Request,
         req' = [req EXCEPT ![r] = Committed(p)],
         NoneDeleted' => p.op \notin {"delete_task", "rewire"}
  PROVE  DepsInv'
<1> DEFINE q == Committed(p)
<1>1. q.op = p.op /\ q.pc = "reload"
  BY AdvanceFacts
<1>2. req' = [req EXCEPT ![r] = q]
  OBVIOUS
<1> HIDE DEF q
<1>3. NoneDeleted' => DepsCopied(q)
  BY <1>1, NoCopy DEF Working, Writing
<1>4. q.pc \notin Working
  BY <1>1 DEF Working, Writing
<1> QED BY <1>2, <1>3, <1>4, DepsStep

LEMMA DepsWrite ==
  ASSUME TypeOK, TypeOK', DepsInv, NEW r \in Req, Write(r)
  PROVE  DepsInv'
<1>1. CASE row[req[r].task].status = "absent"
  BY <1>1, DepsFinish DEF Write
<1>2. CASE row[req[r].task].status # "absent"
  <2> DEFINE p == DispatchDue(req[r])
  <2>1. p \in Request /\ p.op = req[r].op
    BY BoardAssumption, SMTT(30) DEF TypeOK, DispatchDue, Request
  <2>2. req' = [req EXCEPT ![r] = Committed(p)] /\ UNCHANGED <<born, quota>>
    BY <1>2 DEF Write
  <2> HIDE DEF p
  <2>3. DepsMove
    BY <1>2, <2>2, DepsFlush DEF Write
  <2>4. NoneDeleted' => p.op \notin {"delete_task", "rewire"}
    BY <2>1, <2>2 DEF DepsInv, DepsCopied, NoneDeleted
  <2> QED BY <2>1, <2>2, <2>3, <2>4, DepsCommit
<1> QED BY <1>1, <1>2

LEMMA DepsReload ==
  ASSUME TypeOK, TypeOK', DepsInv, NEW r \in Req, Reload(r)
  PROVE  DepsInv'
<1> DEFINE q == Advance(req[r])
<1>1. req[r] \in Request /\ UNCHANGED <<row, born, done, quota>>
  BY DEF TypeOK, Reload
<1>2. q.op \in {req[r].op, "none"} /\ q.pc \notin Working
  BY <1>1, AdvanceFacts DEF Working, Writing
<1>3. Finish(r) \/ req' = [req EXCEPT ![r] = q]
  BY DEF Reload
<1> HIDE DEF q
<1>4. NoneDeleted' => DepsCopied(q)
  BY <1>1, <1>2, NoCopy DEF DepsInv, DepsCopied, NoneDeleted
<1> QED BY <1>1, <1>3, <1>4, DepsFinish, SameQuota, DepsQuiet

LEMMA DepsDrop ==
  ASSUME TypeOK, TypeOK', DepsInv, NEW r \in Req, Drop(r)
  PROVE  DepsInv'
<1> DEFINE t == req[r].task
           p == IF req[r].op = "delete_task"
                THEN [req[r] EXCEPT !.op = "rewire", !.todo = Rows \ {t},
                                    !.nodes = {row[t].node}]
                ELSE req[r]
           q == Advance(p)
<1>1. t \in Born /\ row[t] \in Row /\ row[t].node \in Node
  BY RowOK DEF TypeOK, RequestOK, Drop, Holding
<1>2. p \in Request /\ (req[r].op # "delete_task" => p = req[r])
  BY <1>1, BornTask, ZenonT(30) DEF TypeOK, Request, Op
<1>3. req' = [req EXCEPT ![r] = q]
  BY DEF Drop
<1>4. /\ row' = [row EXCEPT ![t].status = "absent"]
      /\ UNCHANGED <<born, done, quota>>
  BY DEF Drop
<1> HIDE DEF p, t
<1>5. q.op \in {p.op, "none"} /\ q.pc \notin Working
  BY <1>2, AdvanceFacts DEF Working, Writing
<1> HIDE DEF q
<1>6. NoneDeleted' => DepsCopied(q)
  <2>1. NoneDeleted' => req[r].op \notin {"delete_task", "rewire"}
    BY <1>4 DEF DepsInv, DepsCopied, NoneDeleted
  <2> QED BY <2>1, <1>2, <1>5, NoCopy
<1>7. \A u \in Born : /\ row'[u].node = row[u].node /\ row'[u].x = row[u].x
                      /\ row'[u].status \in {row[u].status, "absent"}
  <2>1. row'[t] = [row[t] EXCEPT !.status = "absent"]
    BY <1>1, <1>4 DEF TypeOK
  <2>2. row'[t].status = "absent" /\ row'[t].node = row[t].node /\ row'[t].x = row[t].x
    BY <2>1, <1>1 DEF Row
  <2>3. \A u \in Born \ {t} : row'[u] = row[u]
    BY <1>4 DEF TypeOK
  <2> QED BY <2>2, <2>3
<1>8. Born' = Born /\ (NoneDeleted' => NoneDeleted)
  BY <1>4 DEF Born, NoneDeleted
<1>9. DepsMove
  BY <1>4, <1>7, <1>8, SameQuota DEF DepsInv, DepsMove
<1> QED BY <1>3, <1>5, <1>6, <1>9, DepsStep

LEMMA DepsCreate ==
  ASSUME TypeOK, TypeOK', DepsInv, NEW r \in Req, Create(r)
  PROVE  DepsInv'
<1> DEFINE t == born + 1
<1>1. PICK n \in req[r].nodes :
        /\ row' = [u \in 1..t |->
                     IF u = t THEN [node |-> n, status |-> "queued",
                                    x |-> [NoExtras EXCEPT !.deps = Dep[n]]]
                              ELSE row[u]]
        /\ req' = [req EXCEPT ![r] =
                     Committed([req[r] EXCEPT !.task = t, !.nodes = @ \ {n}])]
  BY DEF Create
<1> DEFINE p == [req[r] EXCEPT !.task = t, !.nodes = @ \ {n}]
<1>2. p \in Request /\ p.op = req[r].op
  <2>1. t \in Task /\ req[r] \in Request
    BY DEF TypeOK, Create
  <2> HIDE DEF t
  <2> QED BY <2>1 DEF Request
<1>3. req' = [req EXCEPT ![r] = Committed(p)]
  BY <1>1
<1> HIDE DEF p
<1>4. /\ born' = t /\ born \in Nat /\ Born = 1..born /\ Born' = 1..t /\ t \notin Born
      /\ UNCHANGED <<quota, done>>
  BY BoardAssumption DEF Create, TypeOK, Born
<1>5. \A u \in Born' : u \in Born \/ u = t
  BY <1>4
<1>6. \A u \in Born : row'[u] = row[u]
  BY <1>1, <1>4
<1>7. row'[t].status = "queued" /\ row'[t].node = n /\ row'[t].x.deps = Dep[n]
  BY <1>1, <1>4 DEF NoExtras
<1>8. Born \subseteq Born' /\ (NoneDeleted' => NoneDeleted)
  BY <1>4 DEF NoneDeleted
<1> HIDE DEF t
<1>9. DepsMove
  BY <1>4, <1>5, <1>6, <1>7, <1>8, SameQuota DEF DepsInv, DepsMove
<1>10. NoneDeleted' => p.op \notin {"delete_task", "rewire"}
  BY <1>2, <1>8 DEF DepsInv, DepsCopied
<1> QED BY <1>2, <1>3, <1>9, <1>10, DepsCommit

(* The row the dispatcher picks is runnable: its dependencies are completed. *)
LEMMA DepsSelect ==
  ASSUME TypeOK, TypeOK', DepsInv, NEW r \in Req, Select(r)
  PROVE  DepsInv'
<1>1. UNCHANGED <<row, born, done, quota>>
  BY DEF Select
<1>2. CASE Finish(r)
  BY <1>1, <1>2, DepsFinish
<1>3. ASSUME NEW t \in Rows, IsRunnableQueuedTask(t),
             req' = [req EXCEPT ![r].pc = "claim", ![r].task = t]
      PROVE  DepsInv'
  <2> DEFINE q == [req[r] EXCEPT !.pc = "claim", !.task = t]
  <2>1. q.pc = "claim" /\ q.task = t /\ q.op = req[r].op
    BY DEF TypeOK, Request
  <2>2. req' = [req EXCEPT ![r] = q]
    BY <1>3
  <2> HIDE DEF q
  <2>3. NoneDeleted' => row[t].x.deps = Dep[row[t].node] /\ req[r].op \notin {"delete_task", "rewire"}
    BY <1>1, BornTask DEF DepsInv, DepsCopied, NoneDeleted
  <2>4. \A n \in row[t].x.deps : \E u \in done : row[u].node = n
    BY <1>3, BornTask DEF IsRunnableQueuedTask, DepCompleted, DepsInv
  <2>5. NoneDeleted' => DepsCopied(q)
    BY <2>1, <2>3, <2>4 DEF DepsCopied, DepsDone, Writing
  <2> QED BY <1>1, <2>2, <2>5, SameQuota, DepsQuiet
<1> QED BY <1>2, <1>3 DEF Select

LEMMA DepsClaim ==
  ASSUME TypeOK, TypeOK', DepsInv, NEW r \in Req, ClaimTaskForDispatch(r)
  PROVE  DepsInv'
<1> DEFINE t == req[r].task
           q == [req[r] EXCEPT !.pc = "refresh", !.ticket = enq[t]]
<1>1. t \in Born /\ row[t] \in Row /\ req[r].pc = "claim" /\ UNCHANGED <<born, done, quota>>
  BY RowOK DEF TypeOK, RequestOK, ClaimTaskForDispatch, Holding, Dispatching
<1>2. CASE Finish(r) /\ UNCHANGED row
  BY <1>1, <1>2, DepsFinish
<1>3. CASE /\ row' = [row EXCEPT ![t].status = "running"]
           /\ req' = [req EXCEPT ![r].pc = "refresh", ![r].ticket = enq[t]]
  <2>1. q.pc = "refresh" /\ q.task = t /\ q.op = req[r].op
    BY DEF TypeOK, Request
  <2>2. req' = [req EXCEPT ![r] = q]
    BY <1>3
  <2> HIDE DEF q
  <2>3. NoneDeleted' => DepsCopied(q)
    BY <1>1, <2>1 DEF DepsInv, DepsCopied, NoneDeleted, Writing
  <2>4. \A u \in Born : /\ row'[u].node = row[u].node /\ row'[u].x = row[u].x
                        /\ row'[u].status \in {row[u].status, "running"}
    <3>1. row'[t] = [row[t] EXCEPT !.status = "running"]
      BY <1>1, <1>3 DEF TypeOK
    <3>2. row'[t].status = "running" /\ row'[t].node = row[t].node /\ row'[t].x = row[t].x
      BY <3>1, <1>1 DEF Row
    <3>3. \A u \in Born \ {t} : row'[u] = row[u]
      BY <1>3 DEF TypeOK
    <3> QED BY <3>2, <3>3
  <2>5. Born' = Born /\ (NoneDeleted' => NoneDeleted)
    BY <1>1 DEF Born, NoneDeleted
  <2>6. DepsMove
    BY <1>1, <2>4, <2>5, SameQuota DEF DepsInv, DepsMove
  <2> QED BY <1>1, <2>1, <2>2, <2>3, <2>6, DepsStep
<1> QED BY <1>2, <1>3 DEF ClaimTaskForDispatch

LEMMA DepsRefresh ==
  ASSUME TypeOK, TypeOK', DepsInv, NEW r \in Req, RefreshCandidate(r)
  PROVE  DepsInv'
<1> DEFINE t == req[r].task
           x == [row[t].x EXCEPT !.dispatch = "running", !.heartbeat = "fresh"]
           q == [req[r] EXCEPT !.pc = "mark", !.seen = row[t].status, !.to = "running",
                               !.x = x]
<1>1. UNCHANGED <<row, born, done, quota>> /\ t \in Born /\ req[r].pc = "refresh"
  BY DEF RefreshCandidate, TypeOK, RequestOK, Holding, Dispatching
<1>2. CASE Finish(r)
  BY <1>1, <1>2, DepsFinish
<1>3. CASE req' = [req EXCEPT ![r] = q]
  <2>1. row[t].x \in Extras /\ x.deps = row[t].x.deps
    BY <1>1, RowOK DEF Extras
  <2> HIDE DEF x
  <2>2. q.pc = "mark" /\ q.task = t /\ q.op = req[r].op /\ q.x = x
    BY DEF TypeOK, Request
  <2> HIDE DEF q
  <2>3. NoneDeleted' => DepsCopied(q)
    BY <1>1, <2>1, <2>2 DEF DepsInv, DepsCopied, NoneDeleted
  <2> QED BY <1>1, <1>3, <2>3, SameQuota, DepsQuiet
<1> QED BY <1>2, <1>3 DEF RefreshCandidate

LEMMA DepsMark ==
  ASSUME TypeOK, TypeOK', DepsInv, NEW r \in Req, MarkRunning(r)
  PROVE  DepsInv'
<1>1. CASE row[req[r].task].status = "absent"
  BY <1>1, DepsFinish DEF MarkRunning
<1>2. CASE row[req[r].task].status # "absent"
  <2> DEFINE q == [req[r] EXCEPT !.pc = "marked"]
  <2>1. /\ q.pc = "marked" /\ q.task = req[r].task /\ q.op = req[r].op /\ q.x = req[r].x
        /\ req[r].task \in Born
    BY DEF TypeOK, Request, RequestOK, MarkRunning, Holding, Dispatching
  <2>2. req' = [req EXCEPT ![r] = q] /\ UNCHANGED <<born, quota>> /\ req[r].pc = "mark"
    BY <1>2 DEF MarkRunning
  <2> HIDE DEF q
  <2>3. DepsMove
    BY <1>2, <2>2, DepsFlush DEF MarkRunning
  <2>4. NoneDeleted' => DepsCopied(q)
    BY <2>1, <2>2 DEF DepsInv, DepsCopied, NoneDeleted, Writing
  <2> QED BY <2>1, <2>2, <2>3, <2>4, DepsStep
<1> QED BY <1>1, <1>2

LEMMA DepsReloadMarked ==
  ASSUME TypeOK, TypeOK', DepsInv, NEW r \in Req, ReloadMarked(r)
  PROVE  DepsInv'
<1> DEFINE t == req[r].task
           q == [req[r] EXCEPT !.pc = "send", !.seen = row[t].status]
<1>1. UNCHANGED <<row, born, done, quota>> /\ req[r].pc = "marked"
  BY DEF ReloadMarked
<1>2. CASE Finish(r)
  BY <1>1, <1>2, DepsFinish
<1>3. CASE req' = [req EXCEPT ![r].pc = "send", ![r].seen = row[t].status]
  <2>1. q.pc = "send" /\ q.task = req[r].task /\ q.op = req[r].op /\ q.x = req[r].x
    BY DEF TypeOK, Request
  <2>2. req' = [req EXCEPT ![r] = q]
    BY <1>3
  <2> HIDE DEF q
  <2>3. NoneDeleted' => DepsCopied(q)
    BY <1>1, <2>1 DEF DepsInv, DepsCopied, NoneDeleted, Writing
  <2> QED BY <1>1, <2>2, <2>3, SameQuota, DepsQuiet
<1> QED BY <1>2, <1>3 DEF ReloadMarked

LEMMA DepsSend ==
  ASSUME TypeOK, TypeOK', DepsInv, NEW r \in Req, Send(r)
  PROVE  DepsInv'
<1> DEFINE q(to, d) == [req[r] EXCEPT !.pc = "ack", !.to = to, !.x.dispatch = d]
<1>1. req[r].pc = "send" /\ UNCHANGED <<row, born, done>>
  BY DEF Send
<1>2. PICK to, d : req' = [req EXCEPT ![r] = q(to, d)]
  BY DEF Send
<1>3. /\ q(to, d).pc = "ack" /\ q(to, d).task = req[r].task /\ q(to, d).op = req[r].op
      /\ q(to, d).x.deps = req[r].x.deps
  <2>1. req[r] \in Request /\ req[r].x \in Extras
    BY DEF TypeOK, Request
  <2> QED BY <2>1 DEF Request, Extras
<1> HIDE DEF q
<1>4. quota'["delete_task"] <= quota["delete_task"]
  <2>1. UNCHANGED quota \/ Spend("send_error")
    BY DEF Send
  <2> QED BY <2>1, SameQuota, SpentQuota DEF Bounded
<1>5. NoneDeleted' => NoneDeleted
  BY <1>4, StillNoneDeleted DEF DepsInv
<1>6. NoneDeleted' => DepsCopied(q(to, d))
  BY <1>1, <1>3, <1>5 DEF DepsInv, DepsCopied, Writing
<1> QED BY <1>1, <1>2, <1>4, <1>6, DepsQuiet

LEMMA DepsAcknowledge ==
  ASSUME TypeOK, TypeOK', DepsInv, NEW r \in Req, Acknowledge(r)
  PROVE  DepsInv'
<1>1. CASE row[req[r].task].status = "absent"
  BY <1>1, DepsFinish DEF Acknowledge
<1>2. CASE row[req[r].task].status # "absent"
  <2> DEFINE p == [req[r] EXCEPT !.budget = @ - 1]
  <2>1. p \in Request /\ p.op = req[r].op
    BY DEF TypeOK, RequestOK, Request, Acknowledge, Dispatching
  <2>2. req' = [req EXCEPT ![r] = Committed(p)] /\ UNCHANGED <<born, quota>>
    BY <1>2 DEF Acknowledge
  <2> HIDE DEF p
  <2>3. DepsMove
    BY <1>2, <2>2, DepsFlush DEF Acknowledge
  <2>4. NoneDeleted' => p.op \notin {"delete_task", "rewire"}
    BY <2>1, <2>2 DEF DepsInv, DepsCopied, NoneDeleted
  <2> QED BY <2>1, <2>2, <2>3, <2>4, DepsCommit
<1> QED BY <1>1, <1>2

(* Steps that leave the requests alone keep every copy.                     *)
LEMMA DepsElsewhere ==
  ASSUME TypeOK, TypeOK', DepsInv, DepsMove, UNCHANGED req
  PROVE  DepsInv'
<1>1. /\ quota'["delete_task"] <= Quota["delete_task"]
      /\ NoneDeleted' => NoneDeleted
  BY StillNoneDeleted DEF DepsInv, DepsMove
<1>2. ASSUME NoneDeleted', NEW s \in Req
      PROVE  DepsCopied(req[s])'
  <2>1. DepsCopied(req[s]) /\ (req[s].pc \in Working => req[s].task \in Born)
    BY <1>1, <1>2 DEF DepsInv, TypeOK, RequestOK, Working, Writing, Holding, Dispatching
  <2> DEFINE q == req[s]
  <2>2. q' = q
    OBVIOUS
  <2>3. /\ q.op \notin {"delete_task", "rewire"}
        /\ q.pc \in Writing => q.x.deps = Dep[row'[q.task].node]
        /\ q.pc \in {"claim", "refresh", "mark", "marked", "send"} =>
             \A n \in Dep[row'[q.task].node] : \E u \in done' : row'[u].node = n
    BY <2>1, CopyKept DEF DepsMove
  <2> QED BY <2>2, <2>3 DEF DepsCopied, DepsDone
<1> QED BY <1>1, <1>2 DEF DepsInv, DepsMove

LEMMA DepsEnvironment ==
  ASSUME TypeOK, TypeOK', DepsInv, Agents \/ Clock \/ Crash \/ UNCHANGED vars
  PROVE  DepsInv'
<1>1. ASSUME UNCHANGED <<row, born, done, quota>>
      PROVE  DepsMove
  <2>1. Born' = Born /\ (NoneDeleted' <=> NoneDeleted)
    BY <1>1 DEF Born, NoneDeleted
  <2> QED BY <1>1, <2>1, SameQuota DEF DepsInv, DepsMove
<1>2. CASE Agents \/ UNCHANGED vars
  <2>1. UNCHANGED <<row, born, req, done, quota>>
    BY <1>2 DEF Agents, AgentDelivers, AgentGivesUp, vars
  <2> QED BY <2>1, <1>1, DepsElsewhere
<1>3. ASSUME NEW t \in Born, HeartbeatAges(t)
      PROVE  DepsInv'
  <2> DEFINE x == [row[t].x EXCEPT !.heartbeat = "old"]
             new == [row[t] EXCEPT !.x = x]
  <2>1. /\ UNCHANGED <<born, req, done, quota>>
        /\ row' = [row EXCEPT ![t] = new]
    BY <1>3 DEF HeartbeatAges
  <2>2. row[t] \in Row /\ row[t].x \in Extras /\ x.deps = row[t].x.deps
    BY RowOK DEF Extras
  <2> HIDE DEF x
  <2>3. new.node = row[t].node /\ new.status = row[t].status /\ new.x = x
    BY <2>2 DEF Row
  <2> HIDE DEF new
  <2>4. \A u \in Born : row'[u] = IF u = t THEN new ELSE row[u]
    BY <2>1 DEF TypeOK
  <2>5. Born' = Born /\ (NoneDeleted' <=> NoneDeleted)
    BY <2>1 DEF Born, NoneDeleted
  <2>6. DepsMove
    BY <2>1, <2>2, <2>3, <2>4, <2>5, SameQuota DEF DepsInv, DepsMove
  <2> QED BY <2>1, <2>6, DepsElsewhere
<1>4. CASE Crash
  <2>1. UNCHANGED <<row, born, done>> /\ Spend("crash")
    BY <1>4 DEF Crash
  <2>2. quota'["delete_task"] <= quota["delete_task"]
    BY <2>1, SpentQuota DEF Bounded
  <2>3. NoneDeleted' => NoneDeleted
    BY <2>2, StillNoneDeleted DEF DepsInv
  <2>4. quota'["delete_task"] <= Quota["delete_task"]
    BY <2>2, StillNoneDeleted DEF DepsInv
  <2>5. \A s \in Req : req'[s].op = "none" /\ req'[s].pc = "idle"
    BY <1>4 DEF Crash, Idle
  <2>6. \A s \in Req : DepsCopied(req[s])'
    BY <2>5 DEF DepsCopied, Writing
  <2> QED BY <2>1, <2>3, <2>4, <2>6 DEF DepsInv, Born
<1> QED BY <1>2, <1>3, <1>4 DEF Clock

LEMMA DepsInit == Init => DepsInv
<1>1. Quota["delete_task"] \in Nat
  BY BoardAssumption DEF Bounded, Command
<1> QED BY <1>1 DEF Init, DepsInv, DepsCopied, Idle, Born, Writing

LEMMA DepsNext == TypeOK /\ TypeOK' /\ DepsInv /\ [Next]_vars => DepsInv'
<1> SUFFICES ASSUME TypeOK, TypeOK', DepsInv, [Next]_vars PROVE DepsInv'
  OBVIOUS
<1>1. ASSUME NEW r \in Req, Handler(r) PROVE DepsInv'
  BY <1>1, DepsVisit, DepsPause, DepsWrite, DepsReload, DepsDrop, DepsCreate, DepsClaim,
     DepsRefresh, DepsMark, DepsReloadMarked, DepsSend, DepsAcknowledge, DepsSelect
     DEF Handler, Dispatch
<1> QED BY <1>1, DepsArrival, DepsEnvironment DEF Next

(* A message goes to an agent only after every node its row depends on has  *)
(* been completed, whatever number of requests act on the board, as long as *)
(* no single task is deleted.                                               *)
THEOREM DependenciesHold == Spec => []DependenciesFirst
<1>1. DepsInv => DependenciesFirst
  BY DEF DepsInv, DependenciesFirst, DepsCopied, DepsDone, Writing
<1> QED BY <1>1, InitType, TypeStep, DepsInit, DepsNext, PTL DEF Spec
====
