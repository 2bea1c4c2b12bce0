------------------------ MODULE TaskBoardOverlapProofs ------------------------
(***************************************************************************)
(* Proofs about overlapping requests, for every flow, number of request    *)
(* threads, batch limit and quota: what a handler decides is a move of the *)
(* life cycle from the status it loaded, whatever the others do meanwhile, *)
(* so that only a late request leaves the promised life cycle, or takes a  *)
(* blocked row's mark of interruption away.                                *)
(***************************************************************************)
EXTENDS TaskBoardProofs

(* The steps of a status a handler means to take. *)
Moves(from, to) ==
  \/ to = from
  \/ from \in {"queued", "running"} /\ to = "blocked_by_approval"
  \/ from = "running" /\ to \in {"completed", "failed"}
  \/ from = "blocked_by_approval" /\ to = "queued"

Approves(q) == q.op = "continue" /\ q.seen = "blocked_by_approval" /\ q.to = "completed"

(* What a request means to write depends on what it loaded only, and no     *)
(* other request disturbs it: with the types this is inductive.             *)
Means(q) ==
  /\ q.pc \in {"pause", "write"} => Moves(q.seen, q.to) \/ Approves(q)
  /\ q.pc \in {"mark", "marked", "send"} => q.to = "running"
  /\ q.pc = "ack" => q.to \in {"running", "failed"}
MeansInv == \A r \in Req : Means(req[r])

(* The two parts of BlockedIsInterrupted. *)
Marked(x) == x.dispatch = "interrupted"
RowsMarked ==
  \A t \in Rows : row[t].status = "blocked_by_approval" => Marked(row[t].x)
CopyMarked(q) ==
  q.pc \in {"pause", "write"} /\ q.to = "blocked_by_approval" => Marked(q.x)

(* What a step does to the status of the rows: one of the moves above, the  *)
(* claim, a deletion or a new row.                                          *)
OneMove(t) ==
  /\ t \in Rows
  /\ \/ Moves(row[t].status, row'[t].status)
     \/ row[t].status = "queued" /\ row'[t].status = "running"
     \/ row'[t].status = "absent"
  /\ \A u \in Born \ {t} : row'[u].status = row[u].status
StatusStep ==
  \/ born' = born /\ \A t \in Born : row'[t].status = row[t].status
  \/ born' = born /\ \E t \in Born : OneMove(t)
  \/ /\ born' = born + 1 /\ born' \in Task /\ row'[born'].status = "queued"
     /\ \A t \in Born : row'[t].status = row[t].status

(* What every step of a request shows: it keeps the meaning of the others,  *)
(* and whatever it breaks it breaks late.                                   *)
Marking == BlockedIsInterrupted => BlockedIsInterrupted'
Overwrites(r) == Late(r) /\ row'[req[r].task].x = req[r].x
Sound(r) ==
  /\ MeansInv'
  /\ StatusStep \/ LateWrite(r) \/ Approval(r)
  /\ Marking \/ Overwrites(r)

LEMMA TwoParts ==
  /\ BlockedIsInterrupted <=> RowsMarked /\ \A r \in Req : CopyMarked(req[r])
  /\ BlockedIsInterrupted' <=> RowsMarked' /\ \A r \in Req : CopyMarked(req[r])'
BY DEF BlockedIsInterrupted, RowsMarked, CopyMarked, Marked

(* A request that means nothing. *)
LEMMA Meaningless ==
  ASSUME NEW q, q.pc \notin {"pause", "write", "mark", "marked", "send", "ack"}
  PROVE  Means(q) /\ CopyMarked(q)
BY DEF Means, CopyMarked

LEMMA Others ==
  ASSUME TypeOK, MeansInv, NEW r \in Req, NEW q, req' = [req EXCEPT ![r] = q], Means(q)
  PROVE  /\ MeansInv'
         /\ (\A s \in Req : CopyMarked(req[s])) /\ CopyMarked(q) => \A s \in Req : CopyMarked(req[s])'
<1>1. \A s \in Req : req'[s] = IF s = r THEN q ELSE req[s]
  BY DEF TypeOK
<1>2. \A s \in Req : Means(req'[s])
  BY <1>1 DEF MeansInv
<1>3. \A s \in Req : Means(req[s])' <=> Means(req'[s])
  BY DEF Means, Approves, Moves
<1>4. \A s \in Req : CopyMarked(req[s])' <=> CopyMarked(req'[s])
  BY DEF CopyMarked, Marked
<1>5. (\A s \in Req : CopyMarked(req[s])) /\ CopyMarked(q) => \A s \in Req : CopyMarked(req'[s])
  BY <1>1
<1> QED BY <1>2, <1>3, <1>4, <1>5 DEF MeansInv

(* The request goes on while the table stays as it is.                      *)
LEMMA Quiet ==
  ASSUME TypeOK, MeansInv, NEW r \in Req, NEW q, req' = [req EXCEPT ![r] = q],
         UNCHANGED <<row, born>>, Means(q), BlockedIsInterrupted => CopyMarked(q)
  PROVE  Sound(r)
<1>1. Born' = Born /\ Rows' = Rows
  BY DEF Born, Rows
<1>2. RowsMarked => RowsMarked'
  BY <1>1 DEF RowsMarked, Marked
<1>3. BlockedIsInterrupted => RowsMarked /\ \A s \in Req : CopyMarked(req[s])
  BY TwoParts
<1>4. RowsMarked' /\ (\A s \in Req : CopyMarked(req[s])') => BlockedIsInterrupted'
  BY TwoParts
<1>5. MeansInv' /\ Marking
  BY <1>2, <1>3, <1>4, Others DEF Marking
<1> QED BY <1>1, <1>5 DEF Sound, StatusStep

(* The request changes the row it holds, and means nothing more with it.    *)
LEMMA Loud ==
  ASSUME TypeOK, MeansInv, NEW r \in Req, NEW q, req' = [req EXCEPT ![r] = q],
         born' = born, NEW t \in Born, \A u \in Born \ {t} : row'[u] = row[u],
         Means(q), CopyMarked(q)
  PROVE  /\ MeansInv'
         /\ (row'[t].status = "blocked_by_approval" /\ BlockedIsInterrupted => Marked(row'[t].x)) => Marking
<1>1. Born' = Born
  BY DEF Born
<1>2. BlockedIsInterrupted => RowsMarked /\ \A s \in Req : CopyMarked(req[s])
  BY TwoParts
<1>3. RowsMarked' /\ (\A s \in Req : CopyMarked(req[s])') => BlockedIsInterrupted'
  BY TwoParts
<1>4. RowsMarked /\ (row'[t].status = "blocked_by_approval" => Marked(row'[t].x)) => RowsMarked'
  BY <1>1 DEF RowsMarked, Marked, Rows
<1> QED BY <1>2, <1>3, <1>4, Others DEF Marking

LEMMA QuietFinish ==
  ASSUME TypeOK, MeansInv, NEW r \in Req, Finish(r), UNCHANGED <<row, born>>
  PROVE  Sound(r)
<1>1. Means(Idle) /\ CopyMarked(Idle)
  BY Meaningless DEF Idle
<1> QED BY <1>1, Quiet DEF Finish

LEMMA QuietAdvance ==
  ASSUME TypeOK, MeansInv, NEW r \in Req, NEW p \in Request, req' = [req EXCEPT ![r] = Advance(p)],
         UNCHANGED <<row, born>>
  PROVE  Sound(r)
<1>1. Means(Advance(p)) /\ CopyMarked(Advance(p))
  BY AdvanceFacts, Meaningless
<1> QED BY <1>1, Quiet

LEMMA SoundArrival ==
  ASSUME TypeOK, MeansInv, NEW r \in Req, Arrival(r)
  PROVE  Sound(r)
<1>1. ASSUME NEW q, Start(r, q), q.pc = "visit"
      PROVE  Sound(r)
  BY <1>1, Meaningless, Quiet DEF Start
<1>2. CASE ListTasks(r)
  <2> DEFINE q == [Idle EXCEPT !.op = "list", !.pc = "visit", !.todo = Rows]
  <2>1. Start(r, q) /\ q.pc = "visit"
    BY <1>2 DEF ListTasks, Idle
  <2> QED BY <2>1, <1>1
<1>3. CASE ConfirmFlow(r)
  <2> DEFINE q == [Idle EXCEPT !.op = "confirm", !.todo = Rows, !.nodes = Node,
                               !.budget = BatchLimit]
  <2>1. Start(r, Advance(q))
    BY <1>3 DEF ConfirmFlow
  <2>2. q \in Request
    BY IdleOK, BornTask, BoardAssumption DEF Request, Op, Command
  <2> HIDE DEF q
  <2> QED BY <2>1, <2>2, QuietAdvance DEF Start
<1>4. ASSUME NEW op, RequirementCommand(r, op)
      PROVE  Sound(r)
  <2> DEFINE q == [Idle EXCEPT !.op = op, !.pc = "visit", !.todo = Rows,
                               !.budget = IF op \in {"rename", "resume"} THEN 0 ELSE BatchLimit]
  <2>1. Start(r, q) /\ q.pc = "visit"
    BY <1>4 DEF RequirementCommand, Idle
  <2> QED BY <2>1, <1>1
<1>5. ASSUME NEW op, NEW t, TaskCommand(r, op, t)
      PROVE  Sound(r)
  <2> DEFINE q == [Idle EXCEPT !.op = op, !.pc = "visit", !.todo = {t},
                               !.budget = BatchLimit]
  <2>1. Start(r, q) /\ q.pc = "visit"
    BY <1>5 DEF TaskCommand, Idle
  <2> QED BY <2>1, <1>1
<1> QED BY <1>2, <1>3, <1>4, <1>5 DEF Arrival

(* The decision of a handler is one of the moves, and it names an           *)
(* interruption where the row it loaded did, or it made one.                *)
LEMMA SoundVisit ==
  ASSUME TypeOK, MeansInv, NEW r \in Req, NEW t \in Born, Visit(r, t)
  PROVE  Sound(r)
<1>1. Visiting(r, t) /\ UNCHANGED <<row, born>>
  BY DEF Visit, VisitGone, VisitReconcile, VisitInterrupt, VisitContinue, VisitStop,
         VisitResume, VisitRename, VisitRewire, VisitDelete, Visiting
<1>2. Remaining(r, t) \in Request /\ Remaining(r, t).op = req[r].op
  <2>1. req[r] \in Request
    BY DEF TypeOK
  <2>2. Remaining(r, t).op = req[r].op
    BY <2>1 DEF Remaining, Request
  <2> QED BY <2>2, RemainingOK
<1>4. CASE Finish(r)
  BY <1>1, <1>4, QuietFinish
<1>5. CASE Skip(r, t)
  BY <1>1, <1>2, <1>5, QuietAdvance DEF Skip
<1> DEFINE Loaded == row[t].status = "blocked_by_approval" /\ BlockedIsInterrupted
                       => Marked(row[t].x)
<1>6. ASSUME NEW pc \in {"pause", "write", "drop"}, NEW to, NEW x,
             Decide(r, t, pc, to, x),
             \/ Moves(row[t].status, to)
             \/ req[r].op = "continue" /\ row[t].status = "blocked_by_approval" /\ to = "completed",
             to = "blocked_by_approval" /\ BlockedIsInterrupted => Marked(x)
      PROVE  Sound(r)
  <2> DEFINE q == [Remaining(r, t) EXCEPT !.pc = pc, !.task = t,
                                          !.seen = row[t].status, !.to = to, !.x = x]
  <2>1. /\ q.pc = pc /\ q.x = x /\ q.to = to /\ q.seen = row[t].status /\ q.op = req[r].op
    BY <1>2 DEF Request
  <2>2. req' = [req EXCEPT ![r] = q]
    BY <1>6 DEF Decide
  <2> HIDE DEF q
  <2>3. Means(q)
    BY <1>6, <2>1 DEF Means, Approves
  <2>4. BlockedIsInterrupted => CopyMarked(q)
    BY <1>6, <2>1 DEF CopyMarked
  <2> QED BY <1>1, <2>2, <2>3, <2>4, Quiet
<1>7. row[t].x \in Extras /\ row[t].status \in RowStatus
  BY RowOK
<1>8. /\ \A d, h : [row[t].x EXCEPT !.dispatch = d, !.heartbeat = h].dispatch = d
      /\ \A d : [row[t].x EXCEPT !.dispatch = d].dispatch = d
      /\ \A D : [row[t].x EXCEPT !.deps = D].dispatch = row[t].x.dispatch
  BY <1>7 DEF Extras
<1>9. Loaded
  <2>1. row[t].status = "blocked_by_approval" => t \in Rows
    BY DEF Rows
  <2> QED BY <2>1, TwoParts DEF RowsMarked
<1> DEFINE Both(d, h) == [row[t].x EXCEPT !.dispatch = d, !.heartbeat = h]
           One(d) == [row[t].x EXCEPT !.dispatch = d]
           Less(D) == [row[t].x EXCEPT !.deps = D]
           Decided(to, x) == \E pc \in {"pause", "write", "drop"} : Decide(r, t, pc, to, x)
<1>10. ASSUME NEW to, NEW x, Decided(to, x), Moves(row[t].status, to),
              to = "blocked_by_approval" /\ BlockedIsInterrupted => Marked(x)
       PROVE  Sound(r)
  BY <1>6, <1>10
<1>20. ASSUME NEW to, NEW x, Decided(to, x), req[r].op = "continue",
              row[t].status = "blocked_by_approval", to = "completed"
       PROVE  Sound(r)
  BY <1>6, <1>20
<1>11. CASE VisitGone(r, t)
  BY <1>4, <1>11 DEF VisitGone
<1>12. CASE VisitReconcile(r, t)
  <2>1. \/ row[t].status = "running" /\ Decided("completed", Both("completed", "fresh"))
        \/ row[t].status = "running" /\ Decided("failed", One("failed"))
        \/ Skip(r, t)
    BY <1>12 DEF VisitReconcile
  <2> HIDE DEF Decided, Both, One
  <2> QED BY <1>5, <1>10, <2>1 DEF Moves
<1>13. CASE VisitInterrupt(r, t)
  <2>1. \/ /\ row[t].status \in {"queued", "running"}
           /\ Decided("blocked_by_approval", Both("interrupted", "fresh"))
        \/ Finish(r)
    BY <1>13 DEF VisitInterrupt
  <2>2. Marked(Both("interrupted", "fresh"))
    BY <1>8 DEF Marked
  <2> HIDE DEF Decided, Both, One
  <2> QED BY <1>4, <1>10, <2>1, <2>2 DEF Moves
<1>14. CASE VisitContinue(r, t)
  <2>1. \/ /\ row[t].status = "blocked_by_approval"
           /\ Decided("queued", Both("pending", "fresh"))
        \/ /\ row[t].status = "blocked_by_approval" /\ req[r].op = "continue"
           /\ Decided("completed", Both("approved", "fresh"))
        \/ Finish(r)
    BY <1>14 DEF VisitContinue
  <2> HIDE DEF Decided, Both, One
  <2> QED BY <1>4, <1>10, <1>20, <2>1 DEF Moves
<1>15. CASE VisitStop(r, t)
  <2>1. \/ /\ row[t].status \in {"queued", "running"}
           /\ Decided("blocked_by_approval", One("interrupted"))
        \/ Decided(row[t].status, row[t].x)
    BY <1>15 DEF VisitStop
  <2>2. Marked(One("interrupted"))
    BY <1>8 DEF Marked
  <2> HIDE DEF Decided, Both, One
  <2> QED BY <1>9, <1>10, <2>1, <2>2 DEF Moves
<1>16. CASE VisitResume(r, t)
  <2>1. \/ /\ row[t].status = "blocked_by_approval"
           /\ Decided("queued", Both("pending", "fresh"))
        \/ Skip(r, t)
    BY <1>16 DEF VisitResume, IsFlowInterruptedBlockedTask
  <2> HIDE DEF Decided, Both, One
  <2> QED BY <1>5, <1>10, <2>1 DEF Moves
<1>17. CASE VisitRename(r, t)
  <2>1. Decided(row[t].status, row[t].x)
    BY <1>17 DEF VisitRename
  <2> HIDE DEF Decided
  <2> QED BY <1>9, <1>10, <2>1 DEF Moves
<1>18. CASE VisitRewire(r, t)
  <2>1. \/ Decided(row[t].status, Less(row[t].x.deps \ req[r].nodes))
        \/ Skip(r, t)
    BY <1>18 DEF VisitRewire
  <2>2. Marked(row[t].x) => Marked(Less(row[t].x.deps \ req[r].nodes))
    BY <1>8 DEF Marked
  <2> HIDE DEF Decided, Less
  <2> QED BY <1>5, <1>9, <1>10, <2>1, <2>2 DEF Moves
<1>19. CASE VisitDelete(r, t)
  <2>1. Decided(row[t].status, row[t].x)
    BY <1>19 DEF VisitDelete
  <2> HIDE DEF Decided
  <2> QED BY <1>9, <1>10, <2>1 DEF Moves
<1> QED BY <1>11, <1>12, <1>13, <1>14, <1>15, <1>16, <1>17, <1>18, <1>19 DEF Visit

LEMMA SoundPause ==
  ASSUME TypeOK, MeansInv, NEW r \in Req, PauseAgent(r)
  PROVE  Sound(r)
<1> DEFINE q == [req[r] EXCEPT !.pc = "write"]
<1>1. /\ req' = [req EXCEPT ![r] = q] /\ req[r].pc = "pause" /\ UNCHANGED <<row, born>>
  BY DEF PauseAgent
<1>2. /\ q.pc = "write" /\ q.x = req[r].x /\ q.to = req[r].to /\ q.seen = req[r].seen
      /\ q.op = req[r].op
  BY DEF TypeOK, Request
<1> HIDE DEF q
<1>3. Means(q)
  BY <1>1, <1>2 DEF MeansInv, Means, Approves
<1>4. BlockedIsInterrupted => CopyMarked(q)
  BY <1>1, <1>2, TwoParts DEF CopyMarked
<1> QED BY <1>1, <1>3, <1>4, Quiet

-----------------------------------------------------------------------------
(* The status of the rows as the life cycle sees it.                        *)

LEMMA StateIs ==
  ASSUME TypeOK
  PROVE  /\ \A t \in Born : t \in Task /\ State[t] = row[t].status
         /\ \A t \in Task \ Born : State[t] = "new"
<1>1. born \in Nat /\ MaxTask \in Nat /\ Born \subseteq Task
  BY BoardAssumption, BornTask DEF TypeOK
<1>2. \A t \in Task : t \in Born <=> ~(t > born)
  BY <1>1 DEF Task, Born
<1> QED BY <1>1, <1>2 DEF State

LEMMA StateMoves ==
  ASSUME TypeOK, TypeOK', born' = born, NEW t \in Born,
         \A u \in Born \ {t} : row'[u].status = row[u].status
  PROVE  State' = [State EXCEPT ![t] = row'[t].status] /\ State[t] = row[t].status
<1>1. /\ \A u \in Born : u \in Task /\ State[u] = row[u].status
      /\ \A u \in Task \ Born : State[u] = "new"
  BY StateIs
<1>2. Born' = Born
  BY DEF Born
<1>3. \A u \in Task : State'[u] = IF u \in Born THEN row'[u].status ELSE "new"
  <2>1. \A u \in Task : State'[u] = IF u > born' THEN "new" ELSE row'[u].status
    BY DEF State
  <2>2. born \in Nat /\ MaxTask \in Nat
    BY BoardAssumption DEF TypeOK
  <2>3. \A u \in Task : u \in Born <=> ~(u > born)
    BY <2>2 DEF Task, Born
  <2> QED BY <2>1, <2>3
<1>4. \A u \in Task : State'[u] = IF u = t THEN row'[t].status ELSE State[u]
  BY <1>1, <1>3
<1> QED BY <1>1, <1>4 DEF State

(* A step of the board is a step of the life cycle of one row, or none.     *)
LEMMA StatusRefines ==
  ASSUME TypeOK, TypeOK', StatusStep
  PROVE  Lifecycle!Next \/ State' = State
<1>0. /\ \A t \in Born : t \in Task /\ State[t] = row[t].status
      /\ \A t \in Task \ Born : State[t] = "new"
      /\ \A t \in Born' : State'[t] = row'[t].status
      /\ \A t \in Task \ Born' : State'[t] = "new"
  <2>1. born' \in Nat /\ MaxTask \in Nat /\ born' <= MaxTask
    BY BoardAssumption DEF TypeOK
  <2>2. Born' \subseteq Task /\ \A t \in Task : t \in Born' <=> ~(t > born')
    BY <2>1 DEF Task, Born
  <2>3. \A t \in Task : State'[t] = IF t > born' THEN "new" ELSE row'[t].status
    BY DEF State
  <2> QED BY <2>2, <2>3, StateIs
<1>1. CASE born' = born /\ \A t \in Born : row'[t].status = row[t].status
  <2>1. Born' = Born
    BY <1>1 DEF Born
  <2>2. \A t \in Task : State'[t] = State[t]
    BY <1>0, <1>1, <2>1
  <2> QED BY <2>2 DEF State
<1>2. ASSUME born' = born, NEW t \in Born, OneMove(t)
      PROVE  Lifecycle!Next \/ State' = State
  <2>1. Born' = Born /\ t \in Task
    BY <1>0, <1>2 DEF Born
  <2>2. State' = [State EXCEPT ![t] = row'[t].status]
    <3>1. \A u \in Task : State'[u] = IF u = t THEN row'[t].status ELSE State[u]
      BY <1>0, <1>2, <2>1 DEF OneMove
    <3> QED BY <2>1, <3>1 DEF State
  <2>3. State[t] = row[t].status /\ row[t].status \in Status /\ row'[t].status \in RowStatus
    BY <1>0, <1>2, <2>1, RowOK DEF OneMove, Rows, RowStatus, TypeOK, Row
  <2>4. CASE row'[t].status = row[t].status
    BY <2>1, <2>2, <2>3, <2>4 DEF State
  <2>5. CASE row'[t].status # row[t].status
    <3> DEFINE s == row'[t].status
    <3>1. \/ State[t] = "queued" /\ s = "running"
          \/ State[t] = "running" /\ s = "completed"
          \/ State[t] = "running" /\ s = "failed"
          \/ State[t] \in {"queued", "running"} /\ s = "blocked_by_approval"
          \/ State[t] = "blocked_by_approval" /\ s = "queued"
          \/ State[t] \in Status /\ s = "absent"
      BY <1>2, <2>3, <2>5 DEF OneMove, Moves
    <3>2. State' = [State EXCEPT ![t] = s]
      BY <2>2
    <3> HIDE DEF s
    <3> QED BY <2>1, <3>1, <3>2
            DEF Lifecycle!Next, Lifecycle!Move, Lifecycle!Claim, Lifecycle!Complete,
                Lifecycle!Fail, Lifecycle!Interrupt, Lifecycle!Resume, Lifecycle!Delete,
                Lifecycle!Live, State, Status
  <2> QED BY <2>4, <2>5
<1>3. CASE /\ born' = born + 1 /\ born' \in Task /\ row'[born'].status = "queued"
           /\ \A t \in Born : row'[t].status = row[t].status
  <2> DEFINE t == born + 1
  <2>1. born \in Nat /\ Born = 1..born /\ Born' = 1..t
    BY <1>3 DEF TypeOK, Born
  <2>2. t \in Task /\ t \notin Born /\ \A u \in Task : u \in Born' <=> u \in Born \/ u = t
    BY <1>3, <2>1 DEF Task
  <2>3. row'[t].status = "queued"
    BY <1>3
  <2> HIDE DEF t
  <2>4. \A u \in Task : State'[u] = IF u = t THEN "queued" ELSE State[u]
    BY <1>0, <1>3, <2>2, <2>3
  <2>5. State' = [State EXCEPT ![t] = "queued"] /\ State[t] = "new"
    BY <1>0, <2>2, <2>4 DEF State
  <2> QED BY <2>2, <2>5 DEF Lifecycle!Next, Lifecycle!Move, Lifecycle!Create, State
<1> QED BY <1>1, <1>2, <1>3 DEF StatusStep

-----------------------------------------------------------------------------
(* A flush. *)

LEMMA FlushLeaves ==
  ASSUME TypeOK, NEW r \in Req, req[r].pc \in {"write", "mark", "ack"}, Flush(r),
         row[req[r].task].status # "absent"
  PROVE  LET t == req[r].task IN
         /\ t \in Rows /\ t \in Born
         /\ \A u \in Born \ {t} : row'[u] = row[u]
         /\ row'[t].x = req[r].x
         /\ row'[t].status = IF req[r].to = req[r].seen THEN row[t].status ELSE req[r].to
<1> DEFINE t == req[r].task
           new == Flushed(t, req[r].seen, req[r].to, req[r].x)
<1>1. t \in Rows /\ t \in Born /\ row[t] \in Row
  BY RowOK DEF Holding, Dispatching, Rows, TypeOK, RequestOK
<1>2. row' = [row EXCEPT ![t] = new]
  BY DEF Flush
<1>3. /\ new.status = IF req[r].to = req[r].seen THEN row[t].status ELSE req[r].to
      /\ new.x = req[r].x
  BY <1>1 DEF Flushed, Row
<1> HIDE DEF new
<1>4. row'[t] = new /\ \A u \in Born \ {t} : row'[u] = row[u]
  BY <1>1, <1>2 DEF TypeOK
<1> QED BY <1>1, <1>3, <1>4

(* A flush in time makes the move the request means, or an approval; a late *)
(* one leaves the status as it is or sets the one the request means.        *)
LEMMA FlushSound ==
  ASSUME TypeOK, TypeOK', MeansInv, NEW r \in Req, req[r].pc \in {"write", "mark", "ack"},
         Flush(r), row[req[r].task].status # "absent", born' = born,
         NEW q, req' = [req EXCEPT ![r] = q], Means(q), CopyMarked(q)
  PROVE  Sound(r)
<1> DEFINE t == req[r].task
           s == row[t].status
           to == req[r].to
<1>1. /\ t \in Rows /\ t \in Born
      /\ \A u \in Born \ {t} : row'[u] = row[u]
      /\ row'[t].x = req[r].x
      /\ row'[t].status = IF to = req[r].seen THEN s ELSE to
  BY FlushLeaves
<1>2. State' = [State EXCEPT ![t] = row'[t].status]
  BY <1>1, StateMoves
<1>3. /\ MeansInv'
      /\ (row'[t].status = "blocked_by_approval" /\ BlockedIsInterrupted => Marked(row'[t].x)) => Marking
  <2> HIDE DEF t
  <2> QED BY <1>1, Loud
<1>4. row'[t].status = s => StatusStep
  BY <1>1 DEF StatusStep, OneMove, Moves
<1>5. CASE Late(r)
  <2>1. Overwrites(r)
    BY <1>1, <1>5 DEF Overwrites
  <2>2. row'[t].status = to => LateWrite(r)
    BY <1>2, <1>5 DEF LateWrite
  <2> QED BY <1>1, <1>3, <1>4, <2>1, <2>2 DEF Sound
<1>6. CASE ~Late(r)
  <2>1. s = Expected(r)
    BY <1>6 DEF Late
  <2>2. Means(req[r])
    BY DEF MeansInv
  <2>3. ASSUME Moves(s, row'[t].status) PROVE StatusStep
    BY <1>1, <2>3 DEF StatusStep, OneMove
  <2>4. CASE req[r].pc = "write"
    <3>1. s = req[r].seen /\ row'[t].status = to
      BY <1>1, <2>1, <2>4 DEF Expected
    <3>2. Moves(s, to) \/ Approves(req[r])
      BY <2>2, <2>4, <3>1 DEF Means
    <3>3. Approves(req[r]) => Approval(r)
      BY <1>2, <2>4, <3>1 DEF Approves, Approval
    <3>4. to = "blocked_by_approval" /\ BlockedIsInterrupted => Marked(req[r].x)
      BY <2>4, TwoParts DEF CopyMarked
    <3> QED BY <1>1, <1>3, <2>3, <3>1, <3>2, <3>3, <3>4 DEF Sound
  <2>5. CASE req[r].pc \in {"mark", "ack"}
    <3>1. s = "running" /\ row'[t].status \in {"running", "failed"}
      BY <1>1, <2>1, <2>2, <2>5 DEF Expected, Means
    <3>2. Moves(s, row'[t].status)
      BY <3>1 DEF Moves
    <3> QED BY <1>3, <2>3, <3>1, <3>2 DEF Sound
  <2> QED BY <2>4, <2>5
<1> QED BY <1>5, <1>6

LEMMA SoundWrite ==
  ASSUME TypeOK, TypeOK', MeansInv, NEW r \in Req, Write(r)
  PROVE  Sound(r)
<1>1. CASE row[req[r].task].status = "absent"
  BY <1>1, QuietFinish DEF Write
<1>2. CASE row[req[r].task].status # "absent"
  <2> DEFINE p == DispatchDue(req[r])
             q == Committed(p)
  <2>1. p \in Request
    BY BoardAssumption DEF TypeOK, DispatchDue, Request
  <2>2. req' = [req EXCEPT ![r] = q] /\ born' = born /\ Flush(r) /\ req[r].pc = "write"
    BY <1>2 DEF Write
  <2> HIDE DEF p
  <2>3. Means(q) /\ CopyMarked(q)
    BY <2>1, AdvanceFacts, Meaningless
  <2> HIDE DEF q
  <2> QED BY <1>2, <2>2, <2>3, FlushSound
<1> QED BY <1>1, <1>2

LEMMA SoundReload ==
  ASSUME TypeOK, MeansInv, NEW r \in Req, Reload(r)
  PROVE  Sound(r)
<1>1. req[r] \in Request /\ UNCHANGED <<row, born>>
  BY DEF TypeOK, Reload
<1> QED BY <1>1, QuietFinish, QuietAdvance DEF Reload

LEMMA SoundDrop ==
  ASSUME TypeOK, MeansInv, NEW r \in Req, Drop(r)
  PROVE  Sound(r)
<1> DEFINE t == req[r].task
           rewire == [req[r] EXCEPT !.op = "rewire", !.todo = Rows \ {t},
                                    !.nodes = {row[t].node}]
           p == IF req[r].op = "delete_task" THEN rewire ELSE req[r]
           q == Advance(p)
<1>1. t \in Born /\ row[t] \in Row /\ row[t].node \in Node
  BY RowOK DEF TypeOK, RequestOK, Drop, Holding
<1>2. req' = [req EXCEPT ![r] = q] /\ born' = born
      /\ row' = [row EXCEPT ![t].status = "absent"]
  BY DEF Drop
<1> HIDE DEF t
<1>3. p \in Request
  BY <1>1, BornTask DEF TypeOK, Request, Op
<1> HIDE DEF p
<1>4. Means(q) /\ CopyMarked(q)
  BY <1>3, AdvanceFacts, Meaningless
<1> HIDE DEF q
<1>5. row'[t].status = "absent" /\ \A u \in Born \ {t} : row'[u] = row[u]
  <2>1. row'[t] = [row[t] EXCEPT !.status = "absent"]
    BY <1>1, <1>2 DEF TypeOK
  <2>2. row'[t].status = "absent"
    BY <1>1, <2>1 DEF Row
  <2> QED BY <2>2, <1>2 DEF TypeOK
<1>6. MeansInv' /\ Marking
  BY <1>1, <1>2, <1>4, <1>5, Loud
<1>7. CASE t \in Rows
  BY <1>1, <1>2, <1>5, <1>6, <1>7 DEF Sound, StatusStep, OneMove
<1>8. CASE t \notin Rows
  <2>1. row[t].status = "absent"
    BY <1>1, <1>8 DEF Rows
  <2> QED BY <1>1, <1>2, <1>5, <1>6, <2>1 DEF Sound, StatusStep
<1> QED BY <1>7, <1>8

LEMMA SoundCreate ==
  ASSUME TypeOK, MeansInv, NEW r \in Req, Create(r)
  PROVE  Sound(r)
<1> DEFINE t == born + 1
<1>1. PICK n \in req[r].nodes :
        /\ row' = [u \in 1..t |->
                     IF u = t THEN [node |-> n, status |-> "queued",
                                    x |-> [NoExtras EXCEPT !.deps = Dep[n]]]
                              ELSE row[u]]
        /\ req' = [req EXCEPT ![r] =
                     Committed([req[r] EXCEPT !.task = t, !.nodes = @ \ {n}])]
  BY DEF Create
<1> DEFINE p == [req[r] EXCEPT !.task = t, !.nodes = @ \ {n}]
           q == Committed(p)
<1>2. p \in Request /\ t \in Task
  <2>1. t \in Task /\ req[r] \in Request
    BY DEF TypeOK, Create
  <2> HIDE DEF t
  <2> QED BY <2>1 DEF Request
<1>3. req' = [req EXCEPT ![r] = q]
  BY <1>1
<1> HIDE DEF p
<1>4. Means(q) /\ CopyMarked(q)
  BY <1>2, AdvanceFacts, Meaningless
<1> HIDE DEF q
<1>5. /\ born' = t /\ born \in Nat /\ Born = 1..born /\ Born' = 1..t /\ t \notin Born
  BY BoardAssumption DEF Create, TypeOK, Born
<1>6. \A u \in Born' : u \in Born \/ u = t
  BY <1>5
<1>7. \A u \in Born : row'[u] = row[u] /\ u \in Born'
  BY <1>1, <1>5
<1>8. row'[t].status = "queued" /\ t \in Born'
  BY <1>1, <1>5
<1>9. StatusStep
  BY <1>2, <1>5, <1>7, <1>8 DEF StatusStep
<1> HIDE DEF t
<1>10. RowsMarked => RowsMarked'
  BY <1>6, <1>7, <1>8 DEF RowsMarked, Marked, Rows
<1> QED BY <1>3, <1>4, <1>9, <1>10, Others, TwoParts DEF Sound, Marking

LEMMA SoundDispatch ==
  ASSUME TypeOK, TypeOK', MeansInv, NEW r \in Req, Dispatch(r)
  PROVE  Sound(r)
<1> DEFINE t == req[r].task
<1>1. req[r] \in Request /\ Means(req[r])
  BY DEF TypeOK, MeansInv
<1>2. CASE Select(r)
  <2>1. UNCHANGED <<row, born>>
    BY <1>2 DEF Select
  <2>2. CASE Finish(r)
    BY <2>1, <2>2, QuietFinish
  <2>3. ASSUME NEW u \in Rows, req' = [req EXCEPT ![r].pc = "claim", ![r].task = u]
        PROVE  Sound(r)
    <3> DEFINE q == [req[r] EXCEPT !.pc = "claim", !.task = u]
    <3>1. q.pc = "claim" /\ req' = [req EXCEPT ![r] = q]
      BY <1>1, <2>3 DEF Request
    <3> HIDE DEF q
    <3> QED BY <2>1, <3>1, Meaningless, Quiet
  <2> QED BY <1>2, <2>2, <2>3 DEF Select
<1>3. CASE ClaimTaskForDispatch(r)
  <2>1. CASE row[t].status # "queued"
    BY <1>3, <2>1, QuietFinish DEF ClaimTaskForDispatch
  <2>2. CASE row[t].status = "queued"
    <3>1. t \in Rows /\ t \in Born /\ row[t] \in Row /\ born' = born
      BY <1>3, <2>2, RowOK DEF ClaimTaskForDispatch, Holding, Dispatching, Rows, TypeOK, RequestOK
    <3> DEFINE q == [req[r] EXCEPT !.pc = "refresh", !.ticket = enq[t]]
    <3>2. /\ q.pc = "refresh" /\ req' = [req EXCEPT ![r] = q]
          /\ row' = [row EXCEPT ![t].status = "running"]
      BY <1>1, <1>3, <2>2 DEF ClaimTaskForDispatch, Request
    <3> HIDE DEF q, t
    <3>3. row'[t].status = "running" /\ \A u \in Born \ {t} : row'[u] = row[u]
      <4>1. row'[t] = [row[t] EXCEPT !.status = "running"]
        BY <3>1, <3>2 DEF TypeOK
      <4>2. row'[t].status = "running"
        BY <3>1, <4>1 DEF Row
      <4> QED BY <4>2, <3>2 DEF TypeOK
    <3>4. MeansInv' /\ Marking
      BY <3>1, <3>2, <3>3, Meaningless, Loud
    <3> QED BY <2>2, <3>1, <3>3, <3>4 DEF Sound, StatusStep, OneMove
  <2> QED BY <2>1, <2>2
<1>4. CASE RefreshCandidate(r)
  <2> DEFINE x == [row[t].x EXCEPT !.dispatch = "running", !.heartbeat = "fresh"]
             q == [req[r] EXCEPT !.pc = "mark", !.seen = row[t].status, !.to = "running",
                                 !.x = x]
  <2>1. UNCHANGED <<row, born>>
    BY <1>4 DEF RefreshCandidate
  <2>2. CASE Finish(r)
    BY <2>1, <2>2, QuietFinish
  <2>3. CASE req' = [req EXCEPT ![r] = q]
    <3>1. q.pc = "mark" /\ q.to = "running"
      BY <1>1 DEF Request
    <3> HIDE DEF q
    <3> QED BY <2>1, <2>3, <3>1, Quiet DEF Means, CopyMarked
  <2> QED BY <1>4, <2>2, <2>3 DEF RefreshCandidate
<1>5. CASE MarkRunning(r)
  <2>1. CASE row[t].status = "absent"
    BY <1>5, <2>1, QuietFinish DEF MarkRunning
  <2>2. CASE row[t].status # "absent"
    <3> DEFINE q == [req[r] EXCEPT !.pc = "marked"]
    <3>1. q.pc = "marked" /\ q.to = req[r].to
      BY <1>1 DEF Request
    <3>2. req' = [req EXCEPT ![r] = q] /\ born' = born /\ req[r].pc = "mark" /\ Flush(r)
      BY <1>5, <2>2 DEF MarkRunning
    <3> HIDE DEF q
    <3>3. Means(q) /\ CopyMarked(q)
      BY <1>1, <3>1, <3>2 DEF Means, CopyMarked
    <3> QED BY <2>2, <3>2, <3>3, FlushSound
  <2> QED BY <2>1, <2>2
<1>6. CASE ReloadMarked(r)
  <2> DEFINE q == [req[r] EXCEPT !.pc = "send", !.seen = row[t].status]
  <2>1. UNCHANGED <<row, born>> /\ req[r].pc = "marked"
    BY <1>6 DEF ReloadMarked
  <2>2. CASE Finish(r)
    BY <2>1, <2>2, QuietFinish
  <2>3. CASE req' = [req EXCEPT ![r].pc = "send", ![r].seen = row[t].status]
    <3>1. q.pc = "send" /\ q.to = req[r].to /\ req' = [req EXCEPT ![r] = q]
      BY <1>1, <2>3 DEF Request
    <3> HIDE DEF q
    <3>2. Means(q) /\ CopyMarked(q)
      BY <1>1, <2>1, <3>1 DEF Means, CopyMarked
    <3> QED BY <2>1, <3>1, <3>2, Quiet
  <2> QED BY <1>6, <2>2, <2>3 DEF ReloadMarked
<1>7. CASE Send(r)
  <2> DEFINE q(to, d) == [req[r] EXCEPT !.pc = "ack", !.to = to, !.x.dispatch = d]
  <2>1. UNCHANGED <<row, born>>
    BY <1>7 DEF Send
  <2>2. PICK to \in {"running", "failed"}, d \in {"accepted", "failed"} :
          req' = [req EXCEPT ![r] = q(to, d)]
    BY <1>7 DEF Send
  <2>3. q(to, d).pc = "ack" /\ q(to, d).to = to
    BY <1>1 DEF Request
  <2> HIDE DEF q
  <2>4. Means(q(to, d)) /\ CopyMarked(q(to, d))
    BY <2>2, <2>3 DEF Means, CopyMarked
  <2> QED BY <2>1, <2>2, <2>4, Quiet
<1>8. CASE Acknowledge(r)
  <2>1. CASE row[t].status = "absent"
    BY <1>8, <2>1, QuietFinish DEF Acknowledge
  <2>2. CASE row[t].status # "absent"
    <3> DEFINE p == [req[r] EXCEPT !.budget = @ - 1]
               q == Committed(p)
    <3>1. p \in Request
      BY <1>8 DEF TypeOK, RequestOK, Request, Acknowledge, Dispatching
    <3>2. req' = [req EXCEPT ![r] = q] /\ born' = born /\ Flush(r) /\ req[r].pc = "ack"
      BY <1>8, <2>2 DEF Acknowledge
    <3> HIDE DEF p
    <3>3. Means(q) /\ CopyMarked(q)
      BY <3>1, AdvanceFacts, Meaningless
    <3> HIDE DEF q
    <3> QED BY <2>2, <3>2, <3>3, FlushSound
  <2> QED BY <2>1, <2>2
<1> QED BY <1>2, <1>3, <1>4, <1>5, <1>6, <1>7, <1>8 DEF Dispatch

LEMMA SoundEnvironment ==
  ASSUME TypeOK, MeansInv, Agents \/ Clock \/ Crash \/ UNCHANGED vars
  PROVE  MeansInv' /\ StatusStep /\ Marking
<1>1. CASE Agents \/ UNCHANGED vars
  <2>1. UNCHANGED <<row, born, req>>
    BY <1>1 DEF Agents, AgentDelivers, AgentGivesUp, vars
  <2>2. Born' = Born /\ Rows' = Rows
    BY <2>1 DEF Born, Rows
  <2> QED BY <2>1, <2>2 DEF MeansInv, Means, Approves, Moves, BlockedIsInterrupted, Marking, StatusStep
<1>2. ASSUME NEW t \in Born, HeartbeatAges(t)
      PROVE  MeansInv' /\ StatusStep /\ Marking
  <2> DEFINE x == [row[t].x EXCEPT !.heartbeat = "old"]
             new == [row[t] EXCEPT !.x = x]
  <2>1. /\ UNCHANGED <<born, req>>
        /\ row' = [row EXCEPT ![t] = new]
    BY <1>2 DEF HeartbeatAges
  <2>2. row[t] \in Row /\ row[t].x \in Extras /\ x.dispatch = row[t].x.dispatch
    BY RowOK DEF Extras
  <2> HIDE DEF x
  <2>3. new.status = row[t].status /\ new.x = x
    BY <2>2 DEF Row
  <2> HIDE DEF new
  <2>4. \A u \in Born : /\ row'[u].status = row[u].status
                        /\ row'[u].x.dispatch = row[u].x.dispatch
    BY <2>1, <2>2, <2>3 DEF TypeOK
  <2>5. Born' = Born /\ Rows' = Rows
    BY <2>1, <2>4 DEF Born, Rows
  <2>6. MeansInv'
    BY <2>1 DEF MeansInv, Means, Approves, Moves
  <2>7. Marking
    BY <2>1, <2>4, <2>5 DEF Marking, BlockedIsInterrupted, Rows
  <2> QED BY <2>1, <2>4, <2>6, <2>7 DEF StatusStep
<1>3. CASE Crash
  <2>1. UNCHANGED <<row, born>> /\ \A s \in Req : req'[s] = Idle
    BY <1>3 DEF Crash
  <2>2. Born' = Born /\ Rows' = Rows
    BY <2>1 DEF Born, Rows
  <2>3. \A s \in Req : req'[s].pc = "idle"
    BY <2>1 DEF Idle
  <2>4. MeansInv' /\ Marking
    BY <2>1, <2>2, <2>3 DEF MeansInv, Means, Marking, BlockedIsInterrupted
  <2> QED BY <2>1, <2>4 DEF StatusStep
<1> QED BY <1>1, <1>2, <1>3 DEF Clock

LEMMA MeansInit == Init => MeansInv
BY DEF Init, MeansInv, Means, Idle

LEMMA SoundNext ==
  ASSUME TypeOK, TypeOK', MeansInv, [Next]_vars
  PROVE  \/ MeansInv' /\ StatusStep /\ Marking
         \/ \E r \in Req : Sound(r)
<1>1. ASSUME NEW r \in Req, Handler(r) PROVE Sound(r)
  BY <1>1, SoundVisit, SoundPause, SoundWrite, SoundReload, SoundDrop, SoundCreate, SoundDispatch
     DEF Handler
<1> QED BY <1>1, SoundArrival, SoundEnvironment DEF Next

LEMMA MeansNext == TypeOK /\ TypeOK' /\ MeansInv /\ [Next]_vars => MeansInv'
BY SoundNext DEF Sound

(* Whatever number of requests overlap, a row leaves the promised life      *)
(* cycle only when a late request sets the status it decided on or when a   *)
(* blocked row that names no interruption is approved.                      *)
THEOREM OnlyLateRequestsLeave == Spec => LifecycleUnlessLate
<1>1. TypeOK /\ TypeOK' /\ MeansInv /\ [Next]_vars
        => [Lifecycle!Next \/ \E r \in Req : LateWrite(r) \/ Approval(r)]_State
  BY SoundNext, StatusRefines DEF Sound
<1> QED BY <1>1, InitType, TypeStep, MeansInit, MeansNext, PTL DEF Spec, LifecycleUnlessLate

(* The same of the marks of interruption: only a late request that writes   *)
(* its copy of the extras leaves a blocked row, or the copy of one, without.*)
THEOREM OnlyLateRequestsUnmark == Spec => BlockedUnlessLate
<1>1. TypeOK /\ TypeOK' /\ MeansInv /\ [Next]_vars
        => [BlockedIsInterrupted =>
              \/ BlockedIsInterrupted'
              \/ \E r \in Req : Late(r) /\ row'[req[r].task].x = req[r].x]_vars
  BY SoundNext DEF Sound, Marking, Overwrites
<1> QED BY <1>1, InitType, TypeStep, MeansInit, MeansNext, PTL DEF Spec, BlockedUnlessLate
=============================================================================
