------------------------ MODULE PlannerSessionProofs ------------------------
(***************************************************************************)
(* Proofs about the planner session, for every set of threads, nodes, keys *)
(* and batches: type correctness; the bridge yields to the callbacks; an   *)
(* event is logged once; and, on a database that honours FOR UPDATE, the   *)
(* session keeps the life cycle of PlannerLifecycle.                       *)
(***************************************************************************)
EXTENDS PlannerSession, TLAPS

Inside(q) == /\ q.op \in Callback \cup {"bridge"}
             /\ q.pc \in {"load", "seq", "apply", "commit"}

LEMMA ThreadFacts ==
  /\ Bridge \in Thread /\ Nobody \notin Thread
  /\ \A r \in Req : r \in Thread /\ r # Bridge
BY SessionAssumption DEF Thread

LEMMA IdleOK == Idle \in Request /\ ~Inside(Idle)
BY DEF Idle, Request, Op, Pc, Session, NoSession, Callback, Inside

LEMMA StatusTypes == "planning" \in Status /\ "completed" \in Status
                       /\ "failed" \in Status /\ "stopped" \in Status
BY DEF Status

(* One thread goes on with a well-formed request. *)
LEMMA ThreadStep ==
  ASSUME TypeOK, NEW r \in Thread, NEW q \in Request, req' = [req EXCEPT ![r] = q],
         session' \in Session, log' \in Seq(Key \cup {NoKey}),
         rowLock' \in Thread \cup {Nobody}, owner' \in {"none", "observer", "internal"},
         quota' \in [Operation -> Nat],
         writer' \in Thread \cup {Nobody},
         Inside(q) <=> writer' = r,
         \A s \in Thread \ {r} : writer' = s <=> writer = s
  PROVE  TypeOK'
<1>1. req' \in [Thread -> Request] /\ \A s \in Thread : req'[s] = IF s = r THEN q ELSE req[s]
  BY DEF TypeOK, Types
<1>2. \A s \in Thread : InWriteLock(s) <=> Inside(req[s])
  BY DEF InWriteLock, Inside
<1>3. \A s \in Thread : InWriteLock(s)' <=> Inside(req'[s])
  BY DEF InWriteLock, Inside
<1>4. WriterIsInside'
  BY <1>1, <1>2, <1>3 DEF TypeOK, WriterIsInside
<1> QED BY <1>1, <1>4 DEF TypeOK, Types

(* The same when the thread stays where it is towards the write lock and    *)
(* the database is left alone.                                              *)
LEMMA QuietStep ==
  ASSUME TypeOK, NEW r \in Thread, NEW q \in Request, req' = [req EXCEPT ![r] = q],
         UNCHANGED <<database, writer>>, Inside(q) <=> Inside(req[r]),
         rowLock' \in Thread \cup {Nobody}, owner' \in {"none", "observer", "internal"},
         quota' \in [Operation -> Nat]
  PROVE  TypeOK'
<1>1. Inside(q) <=> writer' = r
  BY DEF TypeOK, WriterIsInside, InWriteLock, Inside, database
<1> QED BY <1>1, ThreadStep DEF TypeOK, Types, database

(* A thread ends. *)
LEMMA EndType ==
  ASSUME TypeOK, NEW r \in Thread, End(r), UNCHANGED <<database, owner, quota>>
  PROVE  TypeOK'
<1>1. req' = [req EXCEPT ![r] = Idle] /\ Release(r)
  BY DEF End
<1>2. /\ writer' \in Thread \cup {Nobody} /\ rowLock' \in Thread \cup {Nobody}
      /\ writer' # r /\ \A s \in Thread \ {r} : writer' = s <=> writer = s
  BY <1>1, ThreadFacts DEF Release, TypeOK, Types
<1> QED BY <1>1, <1>2, IdleOK, ThreadStep DEF TypeOK, Types, database

LEMMA InitType == Init => TypeOK
<1> SUFFICES ASSUME Init PROVE TypeOK
  OBVIOUS
<1>1. NoSession \in Session /\ << >> \in Seq(Key \cup {NoKey})
  BY DEF NoSession, Session
<1>2. Types
  BY <1>1, IdleOK, SessionAssumption DEF Init, Types
<1>3. WriterIsInside
  BY ThreadFacts, IdleOK DEF Init, WriterIsInside, InWriteLock, Inside
<1> QED BY <1>2, <1>3 DEF TypeOK

LEMMA SpendOK ==
  ASSUME TypeOK, NEW op \in Operation, Spend(op)
  PROVE  quota' \in [Operation -> Nat]
BY DEF TypeOK, Types, Spend

LEMMA StartType ==
  ASSUME TypeOK, NEW r \in Req, NEW q \in Request, Start(r, q), ~Inside(q),
         NEW op \in Operation, Spend(op), UNCHANGED <<database, writer, rowLock, owner>>
  PROVE  TypeOK'
<1>1. req[r] = Idle /\ req' = [req EXCEPT ![r] = q] /\ r \in Thread
  BY ThreadFacts DEF Start
<1> QED BY <1>1, SpendOK, IdleOK, QuietStep DEF TypeOK, Types, database

LEMMA ArrivalType ==
  ASSUME TypeOK, NEW r \in Req, Arrival(r)
  PROVE  TypeOK'
<1>0. Arrival(r) => UNCHANGED <<database, writer, rowLock, owner>>
  BY DEF Arrival, CallbackArrives, StopArrives, GenerateArrives
<1>1. CASE CallbackArrives(r)
  <2>1. CASE Spend("events") /\ \E b \in Batch :
               Start(r, [Idle EXCEPT !.op = "events", !.pc = "lock", !.events = b])
    <3>1. PICK b \in Batch : Start(r, [Idle EXCEPT !.op = "events", !.pc = "lock", !.events = b])
      BY <2>1
    <3> DEFINE q == [Idle EXCEPT !.op = "events", !.pc = "lock", !.events = b]
    <3>2. b \in Seq(Event)
      BY SessionAssumption
    <3>3. q \in Request /\ ~Inside(q)
      BY <3>2, IdleOK DEF Request, Op, Pc, Callback, Inside
    <3>4. Start(r, q) /\ Spend("events") /\ "events" \in Operation
      BY <2>1, <3>1 DEF Operation, Callback
    <3> HIDE DEF q
    <3> QED BY <1>0, <3>3, <3>4, StartType
  <2>2. CASE \E op \in {"upsert", "delete"}, n \in Node :
               Spend(op) /\ Start(r, [Idle EXCEPT !.op = op, !.pc = "lock", !.nodes = {n}])
    <3>1. PICK op \in {"upsert", "delete"}, n \in Node :
            Spend(op) /\ Start(r, [Idle EXCEPT !.op = op, !.pc = "lock", !.nodes = {n}])
      BY <2>2
    <3> DEFINE q == [Idle EXCEPT !.op = op, !.pc = "lock", !.nodes = {n}]
    <3>2. q \in Request /\ ~Inside(q)
      BY IdleOK DEF Request, Op, Pc, Callback, Inside
    <3>3. Start(r, q) /\ Spend(op) /\ op \in Operation
      BY <3>1 DEF Operation, Callback
    <3> HIDE DEF q
    <3> QED BY <1>0, <3>2, <3>3, StartType
  <2>3. CASE \E ns \in SUBSET Node :
               Spend("complete") /\ Start(r, [Idle EXCEPT !.op = "complete", !.pc = "lock", !.nodes = ns])
    <3>1. PICK ns \in SUBSET Node :
            Spend("complete") /\ Start(r, [Idle EXCEPT !.op = "complete", !.pc = "lock", !.nodes = ns])
      BY <2>3
    <3> DEFINE q == [Idle EXCEPT !.op = "complete", !.pc = "lock", !.nodes = ns]
    <3>2. q \in Request /\ ~Inside(q)
      BY IdleOK DEF Request, Op, Pc, Callback, Inside
    <3>3. Start(r, q) /\ Spend("complete") /\ "complete" \in Operation
      BY <3>1 DEF Operation, Callback
    <3> HIDE DEF q
    <3> QED BY <1>0, <3>2, <3>3, StartType
  <2>4. CASE Spend("fail") /\ Start(r, [Idle EXCEPT !.op = "fail", !.pc = "lock"])
    <3> DEFINE q == [Idle EXCEPT !.op = "fail", !.pc = "lock"]
    <3>1. q \in Request /\ ~Inside(q)
      BY IdleOK DEF Request, Op, Pc, Callback, Inside
    <3>2. Start(r, q) /\ Spend("fail") /\ "fail" \in Operation
      BY <2>4 DEF Operation, Callback
    <3> HIDE DEF q
    <3> QED BY <1>0, <3>1, <3>2, StartType
  <2> QED BY <1>1, <2>1, <2>2, <2>3, <2>4 DEF CallbackArrives
<1>2. CASE StopArrives(r)
  <2> DEFINE q == [Idle EXCEPT !.op = "stop", !.pc = "load"]
  <2>1. q \in Request /\ ~Inside(q)
    BY IdleOK DEF Request, Op, Pc, Callback, Inside
  <2>2. Start(r, q) /\ Spend("stop") /\ "stop" \in Operation
    BY <1>2 DEF StopArrives, Operation
  <2> HIDE DEF q
  <2> QED BY <1>0, <2>1, <2>2, StartType
<1>3. CASE GenerateArrives(r)
  <2>1. PICK ns \in SUBSET Node :
          Start(r, [Idle EXCEPT !.op = "ensure", !.pc = "load", !.nodes = ns])
    BY <1>3 DEF GenerateArrives
  <2> DEFINE q == [Idle EXCEPT !.op = "ensure", !.pc = "load", !.nodes = ns]
  <2>2. q \in Request /\ ~Inside(q)
    BY IdleOK DEF Request, Op, Pc, Callback, Inside
  <2>3. Start(r, q) /\ Spend("generate") /\ "generate" \in Operation
    BY <1>3, <2>1 DEF GenerateArrives, Operation
  <2> HIDE DEF q
  <2> QED BY <1>0, <2>2, <2>3, StartType
<1> QED BY <1>1, <1>2, <1>3 DEF Arrival

LEMMA EnterType ==
  ASSUME TypeOK, NEW r \in Thread, req[r].pc = "lock", writer = Nobody,
         req[r].op \in Callback \cup {"bridge"},
         writer' = r, req' = [req EXCEPT ![r].pc = "load"],
         owner' \in {"none", "observer", "internal"}, UNCHANGED <<database, rowLock, quota>>
  PROVE  TypeOK'
<1> DEFINE q == [req[r] EXCEPT !.pc = "load"]
<1>1. q \in Request /\ Inside(q)
  BY DEF TypeOK, Types, Request, Pc, Inside
<1>2. req' = [req EXCEPT ![r] = q]
  BY DEF TypeOK, Types
<1>3. \A s \in Thread \ {r} : writer' = s <=> writer = s
  BY ThreadFacts
<1> HIDE DEF q
<1> QED BY <1>1, <1>2, <1>3, ThreadStep DEF TypeOK, Types, database

(* The loop of the bridge, towards the write lock. *)
LEMMA EnterBridgeType == TypeOK /\ req[Bridge].op = "bridge" /\ EnterBridge => TypeOK'
<1> SUFFICES ASSUME TypeOK, req[Bridge].op = "bridge", EnterBridge PROVE TypeOK'
  OBVIOUS
<1>1. CASE owner = "internal"
  BY <1>1, ThreadFacts, IdleOK, QuietStep DEF EnterBridge, TypeOK, Types, Inside, database
<1>2. CASE owner # "internal"
  BY <1>2, ThreadFacts, EnterType DEF EnterBridge
<1> QED BY <1>1, <1>2

LEMMA BridgeReadsType == TypeOK /\ BridgeReads => TypeOK'
<1> SUFFICES ASSUME TypeOK, BridgeReads PROVE TypeOK'
  OBVIOUS
<1>1. CASE req' = [req EXCEPT ![Bridge] = Idle] /\ UNCHANGED <<owner, quota>>
  BY <1>1, ThreadFacts, IdleOK, QuietStep
     DEF BridgeReads, TypeOK, Types, Inside, database
<1>2. CASE /\ owner' = "observer" /\ Spend("bridge")
           /\ \E b \in Batch :
                req' = [req EXCEPT ![Bridge] =
                  [req[Bridge] EXCEPT !.pc = "lock", !.events = b,
                     !.last = \E i \in 1..Len(b) : b[i].status \in Status \ {"planning"}]]
  <2>1. PICK b \in Batch :
          req' = [req EXCEPT ![Bridge] =
            [req[Bridge] EXCEPT !.pc = "lock", !.events = b,
               !.last = \E i \in 1..Len(b) : b[i].status \in Status \ {"planning"}]]
    BY <1>2
  <2> DEFINE last == \E i \in 1..Len(b) : b[i].status \in Status \ {"planning"}
             q == [req[Bridge] EXCEPT !.pc = "lock", !.events = b, !.last = last]
  <2>2. b \in Seq(Event) /\ last \in BOOLEAN
    BY SessionAssumption
  <2> HIDE DEF last
  <2>3. q \in Request /\ ~Inside(q) /\ ~Inside(req[Bridge])
    BY <2>2, ThreadFacts, ZenonT(30) DEF BridgeReads, TypeOK, Types, Request, Pc, Inside
  <2>4. quota' \in [Operation -> Nat]
    BY <1>2, SpendOK DEF Operation
  <2>5. req' = [req EXCEPT ![Bridge] = q]
    BY <2>1 DEF last
  <2> HIDE DEF q
  <2> QED BY <1>2, <2>3, <2>4, <2>5, ThreadFacts, QuietStep
          DEF BridgeReads, TypeOK, Types, database
<1> QED BY <1>1, <1>2 DEF BridgeReads

-----------------------------------------------------------------------------
(* The load of a transaction. *)

LEMMA ReadType ==
  ASSUME TypeOK, NEW r \in Thread, req[r].pc = "load",
         NEW pc \in {"seq", "commit"}, NEW copy \in Session,
         NEW added \in Seq(Key \cup {NoKey}), Read(r, pc, copy, added),
         UNCHANGED <<database, writer, owner, quota>>, rowLock' \in Thread \cup {Nobody}
  PROVE  TypeOK'
<1> DEFINE q == [req[r] EXCEPT !.pc = pc, !.seen = session, !.copy = copy, !.added = added,
                               !.keys = {}, !.next = 0]
<1>1. q \in Request /\ (Inside(q) <=> Inside(req[r]))
  BY DEF TypeOK, Types, Request, Pc, Inside
<1>2. req' = [req EXCEPT ![r] = q]
  BY DEF Read
<1> HIDE DEF q
<1> QED BY <1>1, <1>2, QuietStep DEF TypeOK, Types

LEMMA OneKey == << >> \in Seq(Key \cup {NoKey}) /\ <<NoKey>> \in Seq(Key \cup {NoKey})
OBVIOUS

LEMMA TakeRowOK ==
  ASSUME TypeOK, NEW r \in Thread, TakeRow(r)
  PROVE  rowLock' \in Thread \cup {Nobody}
BY DEF TakeRow, TypeOK, Types

LEMMA ImmutableType ==
  ASSUME TypeOK, NEW r \in Thread, NEW ops, Immutable(r, ops)
  PROVE  TypeOK'
BY EndType DEF Immutable, Loading

(* New nodes and the next revision. *)
LEMMA NextRevision ==
  ASSUME NEW s \in Session, NEW ns \in SUBSET Node
  PROVE  [s EXCEPT !.nodes = ns, !.revision = @ + 1] \in Session
<1> DEFINE n == s.revision + 1
<1>1. n \in Nat
  BY DEF Session
<1> HIDE DEF n
<1>2. [s EXCEPT !.nodes = ns, !.revision = n] \in Session
  BY <1>1 DEF Session
<1> QED BY <1>2 DEF n

LEMMA LoadType ==
  ASSUME TypeOK, NEW r \in Thread, Load(r)
  PROVE  TypeOK'
<1>0. session \in Session /\ req[r] \in Request
  BY DEF TypeOK, Types
<1>1. CASE LoadForEvents(r)
  BY <1>0, <1>1, OneKey, ReadType, TakeRowOK DEF LoadForEvents, Loading
<1>2. CASE LoadForNodes(r)
  <2> DEFINE ns == IF req[r].op = "upsert" THEN session.nodes \cup req[r].nodes
                   ELSE session.nodes \ req[r].nodes
             copy == [session EXCEPT !.nodes = ns, !.revision = @ + 1]
  <2>1. ns \in SUBSET Node
    BY <1>0 DEF Session, Request
  <2>2. copy \in Session
    BY <1>0, <2>1, NextRevision
  <2>3. CASE Immutable(r, {"upsert", "delete"})
    BY <2>3, ImmutableType
  <2>4. CASE Loading(r, {"upsert", "delete"}) /\ End(r)
    BY <2>4, EndType DEF Loading
  <2>5. CASE /\ Loading(r, {"upsert", "delete"}) /\ TakeRow(r)
             /\ Read(r, "commit", copy, << >>) /\ UNCHANGED writer
    <3> HIDE DEF copy
    <3> QED BY <2>2, <2>5, OneKey, ReadType, TakeRowOK DEF Loading
  <2> QED BY <1>2, <2>3, <2>4, <2>5 DEF LoadForNodes
<1>3. CASE LoadForComplete(r)
  <2> DEFINE ns == req[r].nodes
             done == [session EXCEPT !.status = IF ns \in Valid THEN "completed" ELSE "failed"]
             copy == [done EXCEPT !.nodes = ns, !.revision = @ + 1]
  <2>1. ns \in SUBSET Node
    BY <1>0 DEF Request
  <2>2. done \in Session
    <3> DEFINE st == IF ns \in Valid THEN "completed" ELSE "failed"
    <3>1. st \in Status
      BY StatusTypes
    <3>2. done = [session EXCEPT !.status = st]
      OBVIOUS
    <3> HIDE DEF st, done
    <3> QED BY <1>0, <3>1, <3>2 DEF Session
  <2>3. copy \in Session
    <3> HIDE DEF done
    <3> QED BY <2>1, <2>2, NextRevision
  <2>4. CASE Immutable(r, {"complete"})
    BY <2>4, ImmutableType
  <2>5. CASE /\ Loading(r, {"complete"}) /\ TakeRow(r) /\ UNCHANGED writer
             /\ \/ Read(r, "seq", done, <<NoKey>>)
                \/ Read(r, "commit", copy, <<NoKey>>)
    <3> HIDE DEF done, copy
    <3> QED BY <2>2, <2>3, <2>5, OneKey, ReadType, TakeRowOK DEF Loading
  <2> QED BY <1>3, <2>4, <2>5 DEF LoadForComplete
<1>4. CASE LoadForEnd(r)
  <2> DEFINE copy == [session EXCEPT !.status = IF req[r].op = "stop" THEN "stopped" ELSE "failed"]
  <2>1. copy \in Session
    <3> DEFINE st == IF req[r].op = "stop" THEN "stopped" ELSE "failed"
    <3>1. st \in Status
      BY StatusTypes
    <3>2. copy = [session EXCEPT !.status = st]
      OBVIOUS
    <3> HIDE DEF st, copy
    <3> QED BY <1>0, <3>1, <3>2 DEF Session
  <2>2. CASE Immutable(r, {"fail", "give_up", "stop"})
    BY <2>2, ImmutableType
  <2>3. CASE /\ Loading(r, {"fail", "give_up", "stop"}) /\ TakeRow(r) /\ UNCHANGED writer
             /\ Read(r, "seq", copy, <<NoKey>>)
    <3> HIDE DEF copy
    <3> QED BY <2>1, <2>3, OneKey, ReadType, TakeRowOK DEF Loading
  <2> QED BY <1>4, <2>2, <2>3 DEF LoadForEnd
<1>5. CASE LoadForEnsure(r)
  <2> DEFINE ns == req[r].nodes
             seeded == [session EXCEPT !.nodes =
                          IF session.status = "planning" /\ session.revision = 0 /\ ns # {}
                          THEN ns ELSE @]
             new == [status |-> "planning", revision |-> 0, nodes |-> ns]
  <2>1. ns \in SUBSET Node
    BY <1>0 DEF Request
  <2>2. seeded \in Session /\ new \in Session
    BY <1>0, <2>1, StatusTypes DEF Session
  <2>3. /\ Loading(r, {"ensure"}) /\ UNCHANGED <<writer, rowLock>>
        /\ Read(r, "commit", new, << >>) \/ Read(r, "commit", seeded, << >>)
    BY <1>5 DEF LoadForEnsure
  <2> HIDE DEF new, seeded
  <2> QED BY <2>2, <2>3, OneKey, ReadType DEF Loading, TypeOK, Types
<1>6. CASE LoadForInstruction(r)
  BY <1>0, <1>6, OneKey, ReadType DEF LoadForInstruction, Loading, TypeOK, Types
<1> QED BY <1>1, <1>2, <1>3, <1>4, <1>5, <1>6 DEF Load

-----------------------------------------------------------------------------
(* The rest of a transaction. *)

LEMMA LoggedType == TypeOK => LoggedKeys \in SUBSET Key /\ Len(log) + 1 \in Nat
BY DEF TypeOK, Types, LoggedKeys

LEMMA ReadSeqType ==
  ASSUME TypeOK, NEW r \in Thread, ReadSeq(r)
  PROVE  TypeOK'
<1> DEFINE pc == IF req[r].op \in {"events", "bridge"} THEN "apply" ELSE "commit"
           n == Len(log) + 1
           q == [req[r] EXCEPT !.pc = pc, !.keys = LoggedKeys, !.next = n]
<1>1. LoggedKeys \in SUBSET Key /\ n \in Nat
  BY LoggedType
<1>2. pc \in {"apply", "commit"}
  OBVIOUS
<1>3. req' = [req EXCEPT ![r] = q]
  BY DEF ReadSeq
<1>4. req[r].pc = "seq"
  BY DEF ReadSeq
<1> HIDE DEF pc, n
<1>5. q \in Request /\ (Inside(q) <=> Inside(req[r]))
  BY <1>1, <1>2, <1>4 DEF TypeOK, Types, Request, Pc, Inside
<1> HIDE DEF q
<1> QED BY <1>3, <1>5, QuietStep DEF ReadSeq, TypeOK, Types

LEMMA RevisedType ==
  ASSUME NEW s \in Session, NEW e \in Event
  PROVE  Revised(s, e) \in Session /\ Revised(s, e).status = s.status
<1>1. e.nodes \in SUBSET Node
  BY DEF Event
<1>2. [s EXCEPT !.nodes = e.nodes, !.revision = @ + 1] \in Session
  BY <1>1, NextRevision
<1> QED BY <1>2 DEF Revised, Session

(* What an event makes of a request that is applying its batch. *)
LEMMA TakenType ==
  ASSUME NEW q \in Request, q.events # << >>
  PROVE  LET e == Head(q.events)
         IN  /\ e \in Event
             /\ \A p \in {Skipped(q), Remembered(q, e), Taken(q, e)} :
                  p \in Request /\ p.op = q.op /\ p.pc = q.pc
<1> DEFINE e == Head(q.events)
           keys == q.keys \cup ({e.key} \ {NoKey})
           revised == Revised(q.copy, e)
           copy == IF e.status = "none" THEN revised ELSE [revised EXCEPT !.status = e.status]
           added == IF e.kind = "message" THEN Append(q.added, e.key) ELSE q.added
           rest == Tail(q.events)
<1>1. q.events \in Seq(Event) /\ q.copy \in Session /\ q.added \in Seq(Key \cup {NoKey})
        /\ q.keys \in SUBSET Key
  BY DEF Request
<1>2. e \in Event /\ rest \in Seq(Event)
  BY <1>1
<1>3. e.key \in Key \cup {NoKey} /\ e.status \in Status \cup {"none"}
  BY <1>2 DEF Event
<1> HIDE DEF e, rest
<1>4. keys \in SUBSET Key
  BY <1>1, <1>3
<1>5. added \in Seq(Key \cup {NoKey})
  BY <1>1, <1>3
<1>6. revised \in Session
  BY <1>1, <1>2, RevisedType
<1> HIDE DEF keys, added, revised
<1>7. copy \in Session
  BY <1>3, <1>6 DEF Session
<1>8. /\ Skipped(q) = [q EXCEPT !.events = rest]
      /\ Remembered(q, e) = [q EXCEPT !.events = rest, !.keys = keys]
      /\ Taken(q, e) = [q EXCEPT !.events = rest, !.keys = keys,
                                 !.copy = copy, !.added = added]
  BY DEF Skipped, Remembered, Taken, rest, keys, revised, added
<1> HIDE DEF copy
<1>9. Skipped(q) \in Request /\ Skipped(q).op = q.op /\ Skipped(q).pc = q.pc
  BY <1>2, <1>8 DEF Request
<1>10. Remembered(q, e) \in Request /\ Remembered(q, e).op = q.op /\ Remembered(q, e).pc = q.pc
  BY <1>2, <1>4, <1>8 DEF Request
<1>11. Taken(q, e) \in Request /\ Taken(q, e).op = q.op /\ Taken(q, e).pc = q.pc
  BY <1>2, <1>4, <1>5, <1>7, <1>8 DEF Request
<1> QED BY <1>2, <1>9, <1>10, <1>11 DEF e

(* How Apply goes on. *)
LEMMA ApplyCases ==
  ASSUME NEW r, Apply(r)
  PROVE  LET q == req[r]  e == Head(req[r].events)
         IN  /\ q.pc = "apply" /\ q.events # << >>
             /\ UNCHANGED <<database, owner, quota>>
             /\ \/ End(r)
                \/ /\ UNCHANGED <<writer, rowLock>>
                   /\ \/ req' = [req EXCEPT ![r] = Skipped(q)]
                      \/ req' = [req EXCEPT ![r] = Remembered(q, e)]
                      \/ /\ req' = [req EXCEPT ![r] = Taken(q, e)]
                         /\ e.key \notin q.keys
                         /\ q.copy.status # "planning" => ~Structural(e)
BY DEF Apply

LEMMA ApplyType ==
  ASSUME TypeOK, NEW r \in Thread, Apply(r)
  PROVE  TypeOK'
<1>1. req[r] \in Request
  BY DEF TypeOK, Types
<1>2. CASE End(r)
  BY <1>2, ApplyCases, EndType
<1>3. CASE ~End(r)
  <2>1. PICK p \in {Skipped(req[r]), Remembered(req[r], Head(req[r].events)),
                    Taken(req[r], Head(req[r].events))} : req' = [req EXCEPT ![r] = p]
    BY <1>3, ApplyCases
  <2>2. p \in Request /\ p.op = req[r].op /\ p.pc = req[r].pc
    BY <1>1, <2>1, TakenType, ApplyCases
  <2>3. UNCHANGED <<database, writer, rowLock, owner, quota>>
    BY <1>3, ApplyCases
  <2> QED BY <2>1, <2>2, <2>3, QuietStep DEF TypeOK, Types, Inside
<1> QED BY <1>2, <1>3

LEMMA BatchAppliedType ==
  ASSUME TypeOK, NEW r \in Thread, BatchApplied(r)
  PROVE  TypeOK'
<1> DEFINE q == [req[r] EXCEPT !.pc = "commit"]
<1>1. q \in Request /\ (Inside(q) <=> Inside(req[r]))
  BY DEF BatchApplied, TypeOK, Types, Request, Pc, Inside
<1>2. req' = [req EXCEPT ![r] = q]
  BY DEF BatchApplied, TypeOK, Types
<1> HIDE DEF q
<1> QED BY <1>1, <1>2, QuietStep DEF BatchApplied, TypeOK, Types

LEMMA AfterCommitType ==
  ASSUME NEW q
  PROVE  AfterCommit(q) \in Request /\ ~Inside(AfterCommit(q))
BY IdleOK DEF AfterCommit, Request, Op, Pc, Callback, Inside

LEMMA WrittenType == TypeOK => \A r \in Thread : Written(req[r]) \in Session
<1> SUFFICES ASSUME TypeOK, NEW r \in Thread PROVE Written(req[r]) \in Session
  OBVIOUS
<1>1. req[r].copy \in Session /\ session \in Session
  BY DEF TypeOK, Types, Request
<1> QED BY <1>1 DEF Written, Session

LEMMA CommitType ==
  ASSUME TypeOK, NEW r \in Thread, Commit(r)
  PROVE  TypeOK'
<1>1. CASE End(r) /\ UNCHANGED database
  BY <1>1, EndType DEF Commit
<1>2. CASE /\ session' = Written(req[r]) /\ log' = log \o req[r].added /\ Release(r)
           /\ req' = [req EXCEPT ![r] = AfterCommit(req[r])]
  <2>1. session' \in Session
    BY <1>2, WrittenType
  <2>2. log' \in Seq(Key \cup {NoKey})
    BY <1>2 DEF TypeOK, Types, Request
  <2>4. /\ writer' \in Thread \cup {Nobody} /\ rowLock' \in Thread \cup {Nobody}
        /\ writer' # r /\ \A s \in Thread \ {r} : writer' = s <=> writer = s
    BY <1>2, ThreadFacts DEF Release, TypeOK, Types
  <2>5. UNCHANGED <<owner, quota>>
    BY DEF Commit
  <2> QED BY <1>2, <2>1, <2>2, <2>4, <2>5, AfterCommitType, ThreadStep DEF TypeOK, Types
<1> QED BY <1>1, <1>2 DEF Commit

LEMMA DispatchType ==
  ASSUME TypeOK, NEW r \in Req, DispatchPlanner(r)
  PROVE  TypeOK'
<1>0. r \in Thread /\ ~Inside(req[r]) /\ UNCHANGED <<database, writer, rowLock, quota>>
  BY ThreadFacts DEF DispatchPlanner, Inside
<1>1. CASE /\ req[Bridge] = Idle /\ owner' = "observer"
           /\ req' = [req EXCEPT ![r] = Idle,
                                 ![Bridge] = [Idle EXCEPT !.op = "bridge", !.pc = "watch"]]
  <2> DEFINE watch == [Idle EXCEPT !.op = "bridge", !.pc = "watch"]
  <2>1. watch \in Request /\ ~Inside(watch)
    BY IdleOK DEF Request, Op, Pc, Inside
  <2> HIDE DEF watch
  <2>2. /\ req' \in [Thread -> Request]
        /\ \A s \in Thread : Inside(req'[s]) <=> Inside(req[s])
    BY <1>0, <1>1, <2>1, ThreadFacts, IdleOK DEF TypeOK, Types, watch
  <2>3. WriterIsInside'
    BY <1>0, <2>2 DEF TypeOK, WriterIsInside, InWriteLock, Inside
  <2> QED BY <1>0, <1>1, <2>2, <2>3 DEF TypeOK, Types, database
<1>2. CASE req' = [req EXCEPT ![r] = Idle] /\ UNCHANGED owner
  BY <1>0, <1>2, IdleOK, QuietStep DEF TypeOK, Types
<1>3. CASE req' = [req EXCEPT ![r] = [Idle EXCEPT !.op = "give_up", !.pc = "load"]] /\ UNCHANGED owner
  <2> DEFINE q == [Idle EXCEPT !.op = "give_up", !.pc = "load"]
  <2>1. q \in Request /\ ~Inside(q)
    BY IdleOK DEF Request, Op, Pc, Callback, Inside
  <2> HIDE DEF q
  <2> QED BY <1>0, <1>3, <2>1, QuietStep DEF TypeOK, Types, q
<1> QED BY <1>1, <1>2, <1>3 DEF DispatchPlanner

LEMMA CrashType == TypeOK /\ Crash => TypeOK'
<1> SUFFICES ASSUME TypeOK, Crash PROVE TypeOK'
  OBVIOUS
<1>1. quota' \in [Operation -> Nat]
  BY SpendOK DEF Crash, Operation
<1>2. Types'
  BY <1>1, IdleOK DEF Crash, TypeOK, Types, database
<1>3. WriterIsInside'
  BY IdleOK, ThreadFacts DEF Crash, WriterIsInside, InWriteLock, Inside
<1> QED BY <1>2, <1>3 DEF TypeOK

LEMMA TransactionType ==
  ASSUME TypeOK, NEW r \in Thread, Transaction(r)
  PROVE  TypeOK'
BY LoadType, ReadSeqType, ApplyType, BatchAppliedType, CommitType DEF Transaction

(* What a transaction makes of its thread, and that it leaves the others.   *)
LEMMA TransactionFrame ==
  ASSUME TypeOK, NEW r \in Thread, Transaction(r)
  PROVE  \E q : /\ req' = [req EXCEPT ![r] = q]
                /\ \/ q = Idle
                   \/ Commit(r) /\ q = AfterCommit(req[r])
                   \/ ~Commit(r) /\ UNCHANGED <<database, writer>> /\ q.op = req[r].op
<1>0. req[r] \in Request
  BY DEF TypeOK, Types
<1>1. CASE Load(r)
  <2>1. ASSUME NEW pc, NEW copy, NEW added, Read(r, pc, copy, added)
        PROVE  \E q : req' = [req EXCEPT ![r] = q] /\ q.op = req[r].op
    <3> DEFINE q == [req[r] EXCEPT !.pc = pc, !.seen = session, !.copy = copy,
                       !.added = added, !.keys = {}, !.next = 0]
    <3>1. q.op = req[r].op
      BY <1>0 DEF Request
    <3>2. req' = [req EXCEPT ![r] = q]
      BY <2>1 DEF Read
    <3> QED BY <3>1, <3>2
  <2>2. ASSUME End(r) PROVE \E q : req' = [req EXCEPT ![r] = q] /\ q = Idle
    BY <2>2 DEF End
  <2>3. ~Commit(r) /\ UNCHANGED database
    BY <1>1 DEF Load, LoadForEvents, LoadForNodes, LoadForComplete, LoadForEnd, LoadForEnsure,
                LoadForInstruction, Loading, Immutable, Commit
  <2>4. CASE UNCHANGED writer
    BY <1>1, <2>1, <2>2, <2>3, <2>4
       DEF Load, LoadForEvents, LoadForNodes, LoadForComplete, LoadForEnd, LoadForEnsure,
           LoadForInstruction, Immutable
  <2>5. CASE End(r)
    BY <2>2, <2>5
  <2> QED BY <1>1, <2>4, <2>5
          DEF Load, LoadForEvents, LoadForNodes, LoadForComplete, LoadForEnd, LoadForEnsure,
              LoadForInstruction, Immutable
<1>2. CASE ReadSeq(r)
  <2>1. ~Commit(r) /\ UNCHANGED <<database, writer>>
    BY <1>2 DEF ReadSeq, Commit
  <2> DEFINE q == [req[r] EXCEPT
                     !.pc = IF req[r].op \in {"events", "bridge"} THEN "apply" ELSE "commit",
                     !.keys = LoggedKeys, !.next = Len(log) + 1]
  <2>2. q.op = req[r].op
    BY <1>0 DEF Request
  <2>3. req' = [req EXCEPT ![r] = q]
    BY <1>2 DEF ReadSeq
  <2> QED BY <2>1, <2>2, <2>3
<1>3. CASE Apply(r)
  <2>1. ~Commit(r) /\ req[r] \in Request
    BY <1>3 DEF Apply, Commit, TypeOK, Types
  <2>2. CASE End(r)
    BY <2>2 DEF End
  <2>3. CASE ~End(r)
    <3>1. PICK p \in {Skipped(req[r]), Remembered(req[r], Head(req[r].events)),
                      Taken(req[r], Head(req[r].events))} : req' = [req EXCEPT ![r] = p]
      BY <1>3, <2>3, ApplyCases
    <3>2. p.op = req[r].op
      BY <1>3, <2>1, <3>1, TakenType, ApplyCases
    <3>3. UNCHANGED <<database, writer>>
      BY <1>3, <2>3, ApplyCases
    <3> QED BY <2>1, <3>1, <3>2, <3>3
  <2> QED BY <2>2, <2>3
<1>4. CASE BatchApplied(r)
  <2>1. ~Commit(r) /\ UNCHANGED <<database, writer>>
    BY <1>4 DEF BatchApplied, Commit
  <2>2. req' = [req EXCEPT ![r] = [req[r] EXCEPT !.pc = "commit"]]
    BY <1>4 DEF BatchApplied, TypeOK, Types
  <2>3. [req[r] EXCEPT !.pc = "commit"].op = req[r].op
    BY <1>0 DEF Request
  <2> QED BY <2>1, <2>2, <2>3
<1>5. CASE Commit(r)
  BY <1>5 DEF Commit, End
<1> QED BY <1>1, <1>2, <1>3, <1>4, <1>5 DEF Transaction

(* Only the bridge thread feeds the session for the bridge. *)
BridgeRole == req[Bridge] = Idle \/ req[Bridge].op = "bridge"

LEMMA BridgeRoleStep == TypeOK /\ BridgeRole /\ [Next]_vars => BridgeRole'
<1> SUFFICES ASSUME TypeOK, BridgeRole, [Next]_vars PROVE BridgeRole'
  OBVIOUS
<1> USE ThreadFacts
<1>1. ASSUME NEW r \in Req, NEW q, req' = [req EXCEPT ![r] = q] PROVE BridgeRole'
  BY <1>1 DEF BridgeRole, TypeOK, Types
<1>2. ASSUME NEW q, req' = [req EXCEPT ![Bridge] = q], q = Idle \/ q.op = "bridge"
      PROVE  BridgeRole'
  BY <1>2 DEF BridgeRole, TypeOK, Types
<1>3. ASSUME NEW r \in Req, Arrival(r) PROVE BridgeRole'
  BY <1>1, <1>3 DEF Arrival, CallbackArrives, StopArrives, GenerateArrives, Start
<1>4. ASSUME NEW r \in Req, EnterCallback(r) PROVE BridgeRole'
  BY <1>1, <1>4 DEF EnterCallback
<1>5. ASSUME NEW r \in Req, Transaction(r) PROVE BridgeRole'
  BY <1>1, <1>5, TransactionFrame
<1>6. ASSUME NEW r \in Req, DispatchPlanner(r) PROVE BridgeRole'
  <2>1. CASE \E q : req' = [req EXCEPT ![r] = q]
    BY <1>1, <2>1
  <2>2. CASE req' = [req EXCEPT ![r] = Idle,
                                ![Bridge] = [Idle EXCEPT !.op = "bridge", !.pc = "watch"]]
    BY <2>2 DEF BridgeRole, TypeOK, Types, Idle
  <2> QED BY <1>6, <2>1, <2>2 DEF DispatchPlanner
<1>7. CASE EnterBridge
  <2>1. req[Bridge].op = "bridge"
    BY <1>7 DEF BridgeRole, EnterBridge, Idle
  <2> QED BY <1>7, <2>1 DEF EnterBridge, BridgeRole, TypeOK, Types, Request
<1>8. CASE BridgeReads
  <2>0. req[Bridge].pc = "watch"
    BY <1>8 DEF BridgeReads
  <2>1. req[Bridge].op = "bridge"
    BY <2>0 DEF BridgeRole, Idle
  <2> QED BY <1>8, <2>1, ZenonT(30) DEF BridgeReads, BridgeRole, TypeOK, Types, Request
<1>9. CASE Transaction(Bridge)
  <2>1. PICK q : /\ req' = [req EXCEPT ![Bridge] = q]
                 /\ \/ q = Idle
                    \/ Commit(Bridge) /\ q = AfterCommit(req[Bridge])
                    \/ q.op = req[Bridge].op
    BY <1>9, TransactionFrame
  <2>2. req[Bridge].pc # "idle"
    BY <1>9 DEF Transaction, Load, LoadForEvents, LoadForNodes, LoadForComplete, LoadForEnd,
                LoadForEnsure, LoadForInstruction, Loading, Immutable, ReadSeq, Apply, BatchApplied, Commit
  <2>3. req[Bridge].op = "bridge"
    BY <2>2 DEF BridgeRole, Idle
  <2>4. AfterCommit(req[Bridge]) = Idle \/ AfterCommit(req[Bridge]).op = "bridge"
    BY <2>3 DEF AfterCommit, Idle
  <2> QED BY <1>2, <2>1, <2>3, <2>4
<1>10. CASE Crash
  BY <1>10 DEF Crash, BridgeRole
<1>11. CASE UNCHANGED vars
  BY <1>11 DEF vars, BridgeRole
<1> QED BY <1>3, <1>4, <1>5, <1>6, <1>7, <1>8, <1>9, <1>10, <1>11
        DEF Next, Goes, BridgeGoes

LEMMA TypeStep == TypeOK /\ BridgeRole /\ [Next]_vars => TypeOK'
<1> SUFFICES ASSUME TypeOK, BridgeRole, [Next]_vars PROVE TypeOK'
  OBVIOUS
<1>1. ASSUME NEW r \in Req, EnterCallback(r) PROVE TypeOK'
  BY <1>1, EnterType, ThreadFacts DEF EnterCallback, TypeOK, Types
<1>2. CASE EnterBridge
  <2>1. req[Bridge].op = "bridge"
    BY <1>2 DEF BridgeRole, EnterBridge, Idle
  <2> QED BY <1>2, <2>1, EnterBridgeType
<1>3. CASE UNCHANGED vars
  BY <1>3 DEF vars, TypeOK, Types, WriterIsInside, InWriteLock
<1> QED BY <1>1, <1>2, <1>3, ThreadFacts, ArrivalType, TransactionType, DispatchType, BridgeReadsType,
           CrashType
        DEF Next, Goes, BridgeGoes

(* Every variable keeps its type, and the write lock belongs to whoever is  *)
(* inside it.                                                               *)
THEOREM TypeCorrect == Spec => []TypeOK
<1>1. Init => TypeOK /\ BridgeRole
  BY InitType, ThreadFacts DEF Init, BridgeRole
<1>2. TypeOK /\ BridgeRole /\ [Next]_vars => (TypeOK /\ BridgeRole)'
  BY TypeStep, BridgeRoleStep
<1> QED BY <1>1, <1>2, PTL DEF Spec

-----------------------------------------------------------------------------
(* The bridge yields. *)

LEMMA TransactionOwner ==
  ASSUME NEW r, Transaction(r)
  PROVE  UNCHANGED owner
BY DEF Transaction, Load, LoadForEvents, LoadForNodes, LoadForComplete, LoadForEnd, LoadForEnsure,
       LoadForInstruction, Loading, Immutable, ReadSeq, Apply, BatchApplied, Commit

(* Nobody comes into the write lock by a transaction. *)
LEMMA TransactionWriter ==
  ASSUME TypeOK, TypeOK', NEW r \in Thread, Transaction(r)
  PROVE  \A s \in Thread : writer' = s => writer = s
<1>1. PICK q : /\ req' = [req EXCEPT ![r] = q]
               /\ \/ q = Idle
                  \/ Commit(r) /\ q = AfterCommit(req[r])
                  \/ UNCHANGED writer
  BY TransactionFrame
<1>2. CASE UNCHANGED writer
  BY <1>2
<1>3. CASE q = Idle \/ q = AfterCommit(req[r])
  <2>1. ~Inside(q) /\ req'[r] = q
    BY <1>1, <1>3, IdleOK, AfterCommitType DEF TypeOK, Types
  <2>2. writer' # r
    BY <2>1 DEF TypeOK, WriterIsInside, InWriteLock, Inside
  <2>3. ASSUME NEW s \in Thread \ {r}, writer' = s PROVE writer = s
    <3>1. InWriteLock(s)' /\ req'[s] = req[s]
      BY <1>1, <2>3 DEF TypeOK, Types, WriterIsInside
    <3> QED BY <3>1 DEF TypeOK, WriterIsInside, InWriteLock
  <2> QED BY <2>2, <2>3
<1> QED BY <1>1, <1>2, <1>3

LEMMA YieldStep == TypeOK /\ TypeOK' /\ BridgeYields /\ [Next]_vars => BridgeYields'
<1> SUFFICES ASSUME TypeOK, TypeOK', BridgeYields, [Next]_vars PROVE BridgeYields'
  OBVIOUS
<1> USE ThreadFacts
<1>0. BridgeYields <=> (writer = Bridge => owner # "internal")
  BY DEF BridgeYields, TypeOK, WriterIsInside
<1>1. BridgeYields' <=> (writer' = Bridge => owner' # "internal")
  BY DEF BridgeYields, TypeOK, WriterIsInside
<1>2. ASSUME NEW r \in Req, Arrival(r) PROVE UNCHANGED <<writer, owner>>
  BY <1>2 DEF Arrival, CallbackArrives, StopArrives, GenerateArrives
<1>3. ASSUME NEW r \in Req, EnterCallback(r) PROVE writer' # Bridge
  BY <1>3 DEF EnterCallback
<1>4. ASSUME NEW r \in Req, DispatchPlanner(r)
      PROVE  UNCHANGED writer /\ (owner' = "observer" \/ UNCHANGED owner)
  BY <1>4 DEF DispatchPlanner
<1>5. ASSUME NEW r \in Thread, Transaction(r)
      PROVE  UNCHANGED owner /\ (writer' = Bridge => writer = Bridge)
  BY <1>5, TransactionOwner, TransactionWriter
<1>6. EnterBridge => owner' # "internal" \/ writer' # Bridge
  BY DEF EnterBridge
<1>7. BridgeReads => UNCHANGED writer /\ (owner' = "observer" \/ UNCHANGED owner)
  BY DEF BridgeReads
<1>8. Crash \/ UNCHANGED vars => BridgeYields'
  BY <1>0, <1>1 DEF Crash, vars
<1> QED BY <1>0, <1>1, <1>2, <1>3, <1>4, <1>5, <1>6, <1>7, <1>8 DEF Next, Goes, BridgeGoes

(* However the threads interleave, the bridge is never inside the write     *)
(* lock once a callback has claimed the ingestion.                          *)
THEOREM BridgeStops == Spec => []BridgeYields
<1>1. Init => BridgeYields
  BY ThreadFacts, IdleOK DEF Init, BridgeYields, InWriteLock, Inside
<1> QED BY <1>1, YieldStep, TypeCorrect, PTL DEF Spec

-----------------------------------------------------------------------------
(* An event is logged once. *)

Feeding(q) == q.op \in {"events", "bridge"}

(* Who feeds the session knows every key in the log, and what it is about   *)
(* to log are new keys, each once; nobody else logs a key.                  *)
Fresh(q) ==
  /\ q.pc = "apply" => Feeding(q)
  /\ ~Feeding(q) => \A i \in 1..Len(q.added) : q.added[i] = NoKey
  /\ Feeding(q) /\ q.pc = "seq" => q.added = << >>
  /\ Feeding(q) /\ q.pc \in {"apply", "commit"} =>
       /\ LoggedKeys \subseteq q.keys
       /\ \A i \in 1..Len(q.added) : q.added[i] # NoKey =>
            q.added[i] \in q.keys /\ ~Logged(q.added[i])
       /\ \A i, j \in 1..Len(q.added) :
            q.added[i] = q.added[j] /\ q.added[i] # NoKey => i = j

LogInv == EveryEventOnce /\ \A r \in Thread : Fresh(req[r])

LEMMA FreshIdle == Fresh(Idle)
BY DEF Fresh, Idle, Feeding

(* The log grows at its end. *)
LEMMA Growth ==
  ASSUME TypeOK, NEW added \in Seq(Key \cup {NoKey}), log' = log \o added
  PROVE  /\ \A k : Logged(k)' <=> Logged(k) \/ \E i \in 1..Len(added) : added[i] = k
         /\ EveryEventOnce
              /\ (\A i \in 1..Len(added) : added[i] # NoKey => ~Logged(added[i]))
              /\ (\A i, j \in 1..Len(added) : added[i] = added[j] /\ added[i] # NoKey => i = j)
            => EveryEventOnce'
<1>1. log \in Seq(Key \cup {NoKey})
  BY DEF TypeOK, Types
<1>2. /\ Len(log') = Len(log) + Len(added) /\ Len(log) \in Nat /\ Len(added) \in Nat
      /\ \A i \in 1..Len(log) : log'[i] = log[i]
      /\ \A i \in 1..Len(added) : log'[Len(log) + i] = added[i]
  BY <1>1
<1>3. \A i \in 1..Len(log') :
        i \in 1..Len(log) \/ (i - Len(log) \in 1..Len(added) /\ log'[i] = added[i - Len(log)])
  BY <1>2
<1>4. ASSUME NEW k PROVE Logged(k)' <=> Logged(k) \/ \E i \in 1..Len(added) : added[i] = k
  <2>1. ASSUME Logged(k)' PROVE Logged(k) \/ \E i \in 1..Len(added) : added[i] = k
    BY <1>2, <1>3, <2>1 DEF Logged
  <2>2. ASSUME Logged(k) PROVE Logged(k)'
    BY <1>2, <2>2 DEF Logged
  <2>3. ASSUME NEW i \in 1..Len(added), added[i] = k PROVE Logged(k)'
    <3>1. Len(log) + i \in 1..Len(log') /\ log'[Len(log) + i] = k
      BY <1>2, <2>3
    <3> QED BY <3>1 DEF Logged
  <2> QED BY <2>1, <2>2, <2>3
<1>5. ASSUME EveryEventOnce,
             \A i \in 1..Len(added) : added[i] # NoKey => ~Logged(added[i]),
             \A i, j \in 1..Len(added) : added[i] = added[j] /\ added[i] # NoKey => i = j
      PROVE  EveryEventOnce'
  <2> SUFFICES ASSUME NEW i \in 1..Len(log'), NEW j \in 1..Len(log'),
                      log'[i] = log'[j], log'[i] # NoKey
               PROVE  i = j
    BY DEF EveryEventOnce
  <2>1. CASE i \in 1..Len(log) /\ j \in 1..Len(log)
    BY <1>2, <1>5, <2>1 DEF EveryEventOnce
  <2>2. CASE i \notin 1..Len(log) /\ j \notin 1..Len(log)
    <3>1. i - Len(log) = j - Len(log)
      BY <1>3, <1>5, <2>2
    <3> QED BY <1>2, <3>1
  <2>3. CASE i \in 1..Len(log) /\ j \notin 1..Len(log)
    <3>1. j - Len(log) \in 1..Len(added) /\ added[j - Len(log)] = log[i]
      BY <1>2, <1>3, <2>3
    <3> QED BY <1>2, <1>5, <2>3, <3>1 DEF Logged
  <2>4. CASE i \notin 1..Len(log) /\ j \in 1..Len(log)
    <3>1. i - Len(log) \in 1..Len(added) /\ added[i - Len(log)] = log[j]
      BY <1>2, <1>3, <2>4
    <3> QED BY <1>2, <1>5, <2>4, <3>1 DEF Logged
  <2> QED BY <2>1, <2>2, <2>3, <2>4
<1> QED BY <1>4, <1>5

(* A request that has nothing to log yet. *)
LEMMA FreshStart ==
  ASSUME NEW q, q.added = << >>, q.pc \notin {"apply", "commit"}
  PROVE  Fresh(q) /\ Fresh(q)'
BY DEF Fresh, Feeding

LEMMA FreshAfterCommit ==
  ASSUME NEW q
  PROVE  Fresh(AfterCommit(q))'
<1>1. AfterCommit(q).added = << >> /\ AfterCommit(q).pc \notin {"apply", "commit"}
  BY DEF AfterCommit, Idle
<1> DEFINE p == AfterCommit(q)
<1> QED BY <1>1, FreshStart

(* Messages without a key change nothing for the others. *)
LEMMA FreshStays ==
  ASSUME NEW q, Fresh(q), \A k : k # NoKey => (Logged(k)' <=> Logged(k))
  PROVE  Fresh(q)'
<1>1. LoggedKeys' = LoggedKeys
  BY SessionAssumption DEF LoggedKeys
<1> QED BY <1>1 DEF Fresh, Feeding

LEMMA OneFresh ==
  ASSUME TypeOK, LogInv, NEW r \in Thread, NEW q, req' = [req EXCEPT ![r] = q],
         Fresh(q), UNCHANGED log
  PROVE  LogInv'
<1>1. EveryEventOnce'
  BY DEF LogInv, EveryEventOnce
<1>2. \A k : Logged(k)' <=> Logged(k)
  BY DEF Logged
<1>3. \A s \in Thread : Fresh(req'[s])
  BY DEF LogInv, TypeOK, Types
<1>4. \A s \in Thread : Fresh(req[s])'
  <2> SUFFICES ASSUME NEW s \in Thread PROVE Fresh(req[s])'
    OBVIOUS
  <2>1. LoggedKeys' = LoggedKeys
    BY <1>2 DEF LoggedKeys
  <2> QED BY <1>2, <1>3, <2>1 DEF Fresh, Feeding
<1> QED BY <1>1, <1>4 DEF LogInv

(* What arrives. *)
Arrived(r) ==
  /\ req[r] = Idle /\ UNCHANGED <<database, writer, rowLock, owner>>
  /\ \E q : /\ req' = [req EXCEPT ![r] = q] /\ q.added = << >>
            /\ q.op # "none" /\ q.copy = q.seen
            /\ IF q.op = "ensure" THEN q.pc = "load" ELSE session.status # "none"
            /\ q.pc \in {"lock", "load"}

LEMMA ArrivalShape ==
  ASSUME NEW r, Arrival(r)
  PROVE  Arrived(r)
<1>1. ASSUME NEW op, NEW pc, NEW es
      PROVE  LET q == [Idle EXCEPT !.op = op, !.pc = pc, !.events = es]
             IN  q.added = << >> /\ q.copy = q.seen /\ q.pc = pc /\ q.op = op
  BY DEF Idle
<1>2. ASSUME NEW op, NEW pc, NEW ns
      PROVE  LET q == [Idle EXCEPT !.op = op, !.pc = pc, !.nodes = ns]
             IN  q.added = << >> /\ q.copy = q.seen /\ q.pc = pc /\ q.op = op
  BY DEF Idle
<1>3. ASSUME NEW op, NEW pc
      PROVE  LET q == [Idle EXCEPT !.op = op, !.pc = pc]
             IN  q.added = << >> /\ q.copy = q.seen /\ q.pc = pc /\ q.op = op
  BY DEF Idle
<1>4. ASSUME NEW q, Start(r, q), q.added = << >>, q.pc \in {"lock", "load"},
             q.op # "none", q.copy = q.seen,
             IF q.op = "ensure" THEN q.pc = "load" ELSE session.status # "none",
             UNCHANGED <<database, writer, rowLock, owner>>
      PROVE  Arrived(r)
  BY <1>4 DEF Start, Arrived
<1>5. CASE CallbackArrives(r)
  <2>1. session.status # "none" /\ UNCHANGED <<database, writer, rowLock, owner>>
    BY <1>5 DEF CallbackArrives
  <2>2. ASSUME NEW b, Start(r, [Idle EXCEPT !.op = "events", !.pc = "lock", !.events = b])
        PROVE  Arrived(r)
    <3> DEFINE q == [Idle EXCEPT !.op = "events", !.pc = "lock", !.events = b]
    <3>1. q.added = << >> /\ q.pc = "lock" /\ q.op = "events" /\ q.copy = q.seen
      BY <1>1
    <3>2. Start(r, q)
      BY <2>2
    <3> HIDE DEF q
    <3> QED BY <1>4, <2>1, <3>1, <3>2
  <2>3. ASSUME NEW op \in {"upsert", "delete", "complete"}, NEW ns,
               Start(r, [Idle EXCEPT !.op = op, !.pc = "lock", !.nodes = ns])
        PROVE  Arrived(r)
    <3> DEFINE q == [Idle EXCEPT !.op = op, !.pc = "lock", !.nodes = ns]
    <3>1. q.added = << >> /\ q.pc = "lock" /\ q.op = op /\ q.copy = q.seen
      BY <1>2
    <3>2. Start(r, q)
      BY <2>3
    <3> HIDE DEF q
    <3> QED BY <1>4, <2>1, <3>1, <3>2
  <2>4. ASSUME Start(r, [Idle EXCEPT !.op = "fail", !.pc = "lock"])
        PROVE  Arrived(r)
    <3> DEFINE q == [Idle EXCEPT !.op = "fail", !.pc = "lock"]
    <3>1. q.added = << >> /\ q.pc = "lock" /\ q.op = "fail" /\ q.copy = q.seen
      BY <1>3
    <3>2. Start(r, q)
      BY <2>4
    <3> HIDE DEF q
    <3> QED BY <1>4, <2>1, <3>1, <3>2
  <2> QED BY <1>5, <2>1, <2>2, <2>3, <2>4 DEF CallbackArrives
<1>6. CASE StopArrives(r)
  <2> DEFINE q == [Idle EXCEPT !.op = "stop", !.pc = "load"]
  <2>1. q.added = << >> /\ q.pc = "load" /\ q.op = "stop" /\ q.copy = q.seen
    BY <1>3
  <2>2. Start(r, q) /\ session.status # "none" /\ UNCHANGED <<database, writer, rowLock, owner>>
    BY <1>6 DEF StopArrives
  <2> HIDE DEF q
  <2> QED BY <1>4, <2>1, <2>2
<1>7. CASE GenerateArrives(r)
  <2>1. PICK ns : Start(r, [Idle EXCEPT !.op = "ensure", !.pc = "load", !.nodes = ns])
    BY <1>7 DEF GenerateArrives
  <2> DEFINE q == [Idle EXCEPT !.op = "ensure", !.pc = "load", !.nodes = ns]
  <2>2. q.added = << >> /\ q.pc = "load" /\ q.op = "ensure" /\ q.copy = q.seen
    BY <1>2
  <2>3. Start(r, q) /\ UNCHANGED <<database, writer, rowLock, owner>>
    BY <1>7, <2>1 DEF GenerateArrives
  <2> HIDE DEF q
  <2> QED BY <1>4, <2>2, <2>3
<1> QED BY <1>5, <1>6, <1>7 DEF Arrival

LEMMA ArrivalLog == ASSUME TypeOK, LogInv, NEW r \in Req, Arrival(r) PROVE LogInv'
<1>1. PICK q : req' = [req EXCEPT ![r] = q] /\ q.added = << >> /\ q.pc \in {"lock", "load"}
  BY ArrivalShape DEF Arrived
<1> QED BY <1>1, ArrivalShape, FreshStart, OneFresh, ThreadFacts DEF Arrived, database

LEMMA LoadLog == ASSUME TypeOK, LogInv, NEW r \in Thread, Load(r) PROVE LogInv'
<1>0. req[r] \in Request /\ UNCHANGED log
  BY DEF TypeOK, Types, Load, LoadForEvents, LoadForNodes, LoadForComplete, LoadForEnd,
         LoadForEnsure, LoadForInstruction, Loading, Immutable, database
<1>1. ASSUME End(r) PROVE LogInv'
  BY <1>0, <1>1, FreshIdle, OneFresh DEF End
<1>2. ASSUME NEW pc \in {"seq", "commit"}, NEW copy, NEW added, Read(r, pc, copy, added),
             \/ pc = "seq" /\ added = << >>
             \/ ~Feeding(req[r]) /\ added \in {<< >>, <<NoKey>>}
      PROVE  LogInv'
  <2> DEFINE q == [req[r] EXCEPT !.pc = pc, !.seen = session, !.copy = copy, !.added = added,
                                 !.keys = {}, !.next = 0]
  <2>1. q.pc = pc /\ q.added = added /\ q.op = req[r].op
    BY <1>0 DEF Request
  <2>2. req' = [req EXCEPT ![r] = q]
    BY <1>2 DEF Read
  <2> HIDE DEF q
  <2>3. Fresh(q)
    BY <1>2, <2>1 DEF Fresh, Feeding
  <2> QED BY <1>0, <2>2, <2>3, OneFresh
<1>3. CASE LoadForEvents(r)
  BY <1>2, <1>3 DEF LoadForEvents
<1>4. CASE Immutable(r, {"upsert", "delete"}) \/ Immutable(r, {"complete"})
             \/ Immutable(r, {"fail", "give_up", "stop"}) \/ End(r)
  BY <1>1, <1>4 DEF Immutable
<1>5. CASE ~Feeding(req[r])
  BY <1>1, <1>2, <1>3, <1>4, <1>5
     DEF Load, LoadForNodes, LoadForComplete, LoadForEnd, LoadForEnsure, LoadForInstruction
<1>6. ~LoadForEvents(r) => ~Feeding(req[r])
  BY DEF Load, LoadForNodes, LoadForComplete, LoadForEnd, LoadForEnsure,
         LoadForInstruction, Loading, Immutable, Feeding
<1> QED BY <1>3, <1>5, <1>6

LEMMA ReadSeqLog == ASSUME TypeOK, LogInv, NEW r \in Thread, ReadSeq(r) PROVE LogInv'
<1> DEFINE pc == IF req[r].op \in {"events", "bridge"} THEN "apply" ELSE "commit"
           n == Len(log) + 1
           q == [req[r] EXCEPT !.pc = pc, !.keys = LoggedKeys, !.next = n]
<1>1. req[r] \in Request /\ Fresh(req[r]) /\ req[r].pc = "seq"
  BY DEF TypeOK, Types, LogInv, ReadSeq
<1>2. req' = [req EXCEPT ![r] = q] /\ UNCHANGED log
  BY DEF ReadSeq, database
<1>3. q.op = req[r].op /\ q.added = req[r].added /\ q.keys = LoggedKeys /\ q.pc = pc
  BY <1>1 DEF Request
<1> HIDE DEF q
<1>4. Fresh(q)
  BY <1>1, <1>3 DEF Fresh, Feeding
<1> QED BY <1>2, <1>4, OneFresh

LEMMA ApplyLog == ASSUME TypeOK, LogInv, NEW r \in Thread, Apply(r) PROVE LogInv'
<1> DEFINE q == req[r]  e == Head(req[r].events)
<1>1. q \in Request /\ Fresh(q) /\ q.pc = "apply" /\ UNCHANGED log
  BY ApplyCases DEF TypeOK, Types, LogInv, database
<1>2. q.added \in Seq(Key \cup {NoKey})
  BY <1>1 DEF Request
<1>3. CASE End(r)
  BY <1>1, <1>3, FreshIdle, OneFresh DEF End
<1>4. CASE req' = [req EXCEPT ![r] = Skipped(q)]
  <2>1. Skipped(q).added = q.added /\ Skipped(q).keys = q.keys /\ Skipped(q).op = q.op
          /\ Skipped(q).pc = q.pc
    BY <1>1 DEF Skipped, Request
  <2>2. Fresh(Skipped(q))
    BY <1>1, <2>1 DEF Fresh, Feeding
  <2> QED BY <1>1, <1>4, <2>2, OneFresh
<1>5. Remembered(q, e).added = q.added /\ Remembered(q, e).op = q.op /\ Remembered(q, e).pc = q.pc
        /\ Remembered(q, e).keys = q.keys \cup ({e.key} \ {NoKey})
  BY <1>1 DEF Remembered, Skipped, Request
<1>6. CASE req' = [req EXCEPT ![r] = Remembered(q, e)]
  <2>1. Fresh(Remembered(q, e))
    BY <1>1, <1>5 DEF Fresh, Feeding
  <2> QED BY <1>1, <1>6, <2>1, OneFresh
<1>7. CASE req' = [req EXCEPT ![r] = Taken(q, e)] /\ e.key \notin q.keys
  <2> DEFINE p == Taken(q, e)
             added == IF e.kind = "message" THEN Append(q.added, e.key) ELSE q.added
  <2>1. p.added = added /\ p.op = q.op /\ p.pc = q.pc /\ p.keys = q.keys \cup ({e.key} \ {NoKey})
    BY <1>1 DEF Taken, Remembered, Skipped, Request
  <2>2. e.key \in Key \cup {NoKey}
    BY <1>1, TakenType, ApplyCases DEF Event
  <2> HIDE DEF p, e
  <2>3. Feeding(q)
    BY <1>1 DEF Fresh
  <2>4. LoggedKeys \subseteq q.keys /\ (e.key # NoKey => ~Logged(e.key))
    BY <1>1, <1>7, <2>2, <2>3 DEF Fresh, LoggedKeys
  <2>5. Len(added) \in Nat
          /\ \A i \in 1..Len(added) :
               (i \in 1..Len(q.added) /\ added[i] = q.added[i])
               \/ (i = Len(q.added) + 1 /\ added[i] = e.key)
    BY <1>2
  <2> HIDE DEF added
  <2>6. \A i \in 1..Len(added) : added[i] # NoKey => added[i] \in p.keys /\ ~Logged(added[i])
    BY <1>1, <2>1, <2>3, <2>4, <2>5 DEF Fresh
  <2>7. \A i, j \in 1..Len(added) : added[i] = added[j] /\ added[i] # NoKey => i = j
    BY <1>1, <1>7, <2>3, <2>5 DEF Fresh
  <2>8. LoggedKeys \subseteq p.keys
    BY <2>1, <2>4
  <2> QED BY <1>1, <1>7, <2>1, <2>3, <2>6, <2>7, <2>8, OneFresh DEF Fresh, Feeding, p
<1> QED BY <1>3, <1>4, <1>6, <1>7, ApplyCases

LEMMA BatchAppliedLog == ASSUME TypeOK, LogInv, NEW r \in Thread, BatchApplied(r) PROVE LogInv'
<1> DEFINE q == [req[r] EXCEPT !.pc = "commit"]
<1>1. req[r] \in Request /\ Fresh(req[r]) /\ req[r].pc = "apply" /\ UNCHANGED log
  BY DEF TypeOK, Types, LogInv, BatchApplied, database
<1>2. q.pc = "commit" /\ q.op = req[r].op /\ q.added = req[r].added /\ q.keys = req[r].keys
  BY <1>1 DEF Request
<1>3. req' = [req EXCEPT ![r] = q]
  BY DEF BatchApplied, TypeOK, Types
<1> HIDE DEF q
<1>4. Fresh(q)
  BY <1>1, <1>2 DEF Fresh, Feeding
<1> QED BY <1>1, <1>3, <1>4, OneFresh

LEMMA CommitLog == ASSUME TypeOK, LogInv, NEW r \in Thread, Commit(r) PROVE LogInv'
<1>1. CASE End(r) /\ UNCHANGED database
  BY <1>1, FreshIdle, OneFresh DEF End, database
<1>2. CASE ~(End(r) /\ UNCHANGED database)
  <2> DEFINE added == req[r].added
  <2>1. /\ req[r] \in Request /\ added \in Seq(Key \cup {NoKey}) /\ Fresh(req[r])
        /\ req[r].pc = "commit" /\ log' = log \o added
        /\ req' = [req EXCEPT ![r] = AfterCommit(req[r])]
    BY <1>2 DEF TypeOK, Types, Request, LogInv, Commit
  <2>2. \A s \in Thread \ {r} : req'[s] = req[s] /\ Fresh(req[s])
    BY <2>1 DEF TypeOK, Types, LogInv
  <2>3. req'[r] = AfterCommit(req[r])
    BY <2>1 DEF TypeOK, Types
  <2>4. Fresh(req[r])'
    <3>1. \A q : Fresh(AfterCommit(q))'
      BY FreshAfterCommit
    <3> QED BY <2>3, <3>1 DEF Fresh, Feeding
  <2>5. CASE Feeding(req[r])
    <3>1. EveryEventOnce'
      BY <2>1, <2>5, Growth DEF Fresh, LogInv
    <3>2. ASSUME NEW s \in Thread \ {r} PROVE Fresh(req[s])'
      <4>1. writer = r
        BY <2>1, <2>5 DEF Feeding, Callback, TypeOK, WriterIsInside, InWriteLock
      <4>2. ~(Feeding(req[s]) /\ req[s].pc \in {"apply", "commit"})
        BY <4>1 DEF Feeding, Callback, TypeOK, WriterIsInside, InWriteLock
      <4> QED BY <2>2, <4>2 DEF Fresh, Feeding
    <3> QED BY <2>4, <3>1, <3>2 DEF LogInv
  <2>6. CASE ~Feeding(req[r])
    <3>1. \A i \in 1..Len(added) : added[i] = NoKey
      BY <2>1, <2>6 DEF Fresh
    <3>2. EveryEventOnce'
      BY <2>1, <3>1, Growth DEF LogInv
    <3>3. \A k : k # NoKey => (Logged(k)' <=> Logged(k))
      BY <2>1, <3>1, Growth
    <3>4. \A q : Fresh(q) => Fresh(q)'
      BY <3>3, FreshStays
    <3>5. ASSUME NEW s \in Thread \ {r} PROVE Fresh(req[s])'
      BY <2>2, <3>4 DEF Fresh, Feeding
    <3> QED BY <2>4, <3>2, <3>5 DEF LogInv
  <2> QED BY <2>5, <2>6
<1> QED BY <1>1, <1>2

LEMMA LogStep == TypeOK /\ LogInv /\ [Next]_vars => LogInv'
<1> SUFFICES ASSUME TypeOK, LogInv, [Next]_vars PROVE LogInv'
  OBVIOUS
<1> USE ThreadFacts
<1>1. ASSUME NEW r \in Thread, Transaction(r) PROVE LogInv'
  BY <1>1, LoadLog, ReadSeqLog, ApplyLog, BatchAppliedLog, CommitLog DEF Transaction
<1>2. ASSUME NEW r \in Thread, NEW pc \in {"lock", "load"}, req[r].pc = "lock",
             NEW q, q.pc = pc, q.op = req[r].op, q.added = req[r].added,
             req' = [req EXCEPT ![r] = q], UNCHANGED log
      PROVE  LogInv'
  <2>1. Fresh(req[r])
    BY DEF LogInv
  <2>2. Fresh(q)
    BY <1>2, <2>1 DEF Fresh, Feeding
  <2> QED BY <1>2, <2>2, OneFresh
<1>3. ASSUME NEW r \in Thread, req[r].pc = "lock", UNCHANGED log,
             req' = [req EXCEPT ![r].pc = "load"] PROVE LogInv'
  <2> DEFINE q == [req[r] EXCEPT !.pc = "load"]
  <2>1. q.pc = "load" /\ q.op = req[r].op /\ q.added = req[r].added
    BY DEF TypeOK, Types, Request
  <2>2. req' = [req EXCEPT ![r] = q]
    BY <1>3 DEF TypeOK, Types
  <2> HIDE DEF q
  <2> QED BY <1>2, <1>3, <2>1, <2>2
<1>4. ASSUME NEW r \in Req, EnterCallback(r) PROVE LogInv'
  BY <1>3, <1>4 DEF EnterCallback, database
<1>5. CASE EnterBridge
  BY <1>3, <1>5, FreshIdle, OneFresh DEF EnterBridge, database
<1>6. CASE BridgeReads
  <2>1. CASE req' = [req EXCEPT ![Bridge] = Idle]
    BY <1>6, <2>1, FreshIdle, OneFresh DEF BridgeReads, database
  <2>2. CASE req' # [req EXCEPT ![Bridge] = Idle]
    <3>1. PICK b, last : req' = [req EXCEPT ![Bridge] =
                           [req[Bridge] EXCEPT !.pc = "lock", !.events = b, !.last = last]]
      BY <1>6, <2>2 DEF BridgeReads
    <3> DEFINE q == [req[Bridge] EXCEPT !.pc = "lock", !.events = b, !.last = last]
    <3>2. q.pc = "lock" /\ q.op = req[Bridge].op /\ q.added = req[Bridge].added
      BY DEF TypeOK, Types, Request
    <3>3. Fresh(req[Bridge]) /\ UNCHANGED log
      BY <1>6 DEF LogInv, BridgeReads, database
    <3> HIDE DEF q
    <3>4. Fresh(q)
      BY <3>2, <3>3 DEF Fresh, Feeding
    <3> QED BY <3>1, <3>3, <3>4, OneFresh DEF q
  <2> QED BY <2>1, <2>2
<1>7. ASSUME NEW r \in Req, DispatchPlanner(r) PROVE LogInv'
  <2> DEFINE watch == [Idle EXCEPT !.op = "bridge", !.pc = "watch"]
             give_up == [Idle EXCEPT !.op = "give_up", !.pc = "load"]
  <2>1. UNCHANGED log
    BY <1>7 DEF DispatchPlanner, database
  <2>2. Fresh(watch) /\ Fresh(give_up)
    BY DEF Fresh, Feeding, Idle
  <2>3. CASE req' = [req EXCEPT ![r] = Idle]
    BY <2>1, <2>3, FreshIdle, OneFresh
  <2>4. CASE req' = [req EXCEPT ![r] = give_up]
    <3> HIDE DEF give_up
    <3> QED BY <2>1, <2>2, <2>4, OneFresh
  <2>5. CASE req' = [req EXCEPT ![r] = Idle, ![Bridge] = watch]
    <3> HIDE DEF watch
    <3>1. \A s \in Thread : Fresh(req'[s])
      BY <2>2, <2>5, FreshIdle DEF LogInv, TypeOK, Types
    <3>2. LoggedKeys' = LoggedKeys /\ (\A k : Logged(k)' <=> Logged(k)) /\ EveryEventOnce'
      BY <2>1 DEF LoggedKeys, Logged, LogInv, EveryEventOnce
    <3> QED BY <3>1, <3>2 DEF LogInv, Fresh, Feeding
  <2> QED BY <1>7, <2>3, <2>4, <2>5 DEF DispatchPlanner
<1>8. CASE Crash \/ UNCHANGED vars
  <2>1. /\ \A s \in Thread : req'[s] = Idle \/ req'[s] = req[s]
        /\ UNCHANGED log
    BY <1>8 DEF Crash, vars, database
  <2>2. LoggedKeys' = LoggedKeys /\ (\A k : Logged(k)' <=> Logged(k)) /\ EveryEventOnce'
    BY <2>1 DEF LoggedKeys, Logged, LogInv, EveryEventOnce
  <2>3. \A s \in Thread : Fresh(req'[s])
    BY <2>1, FreshIdle DEF LogInv
  <2> QED BY <2>2, <2>3 DEF LogInv, Fresh, Feeding
<1> QED BY <1>1, <1>4, <1>5, <1>6, <1>7, <1>8, ArrivalLog DEF Next, Goes, BridgeGoes

(* An event with a key is in the log at most once, with or without a        *)
(* database that locks rows: the write lock is enough.                      *)
THEOREM EventLoggedOnce == Spec => []EveryEventOnce
<1>1. Init => LogInv
  <2> SUFFICES ASSUME Init PROVE LogInv
    OBVIOUS
  <2>1. \A s \in Thread : Fresh(req[s])
    BY FreshIdle DEF Init
  <2>2. EveryEventOnce
    BY DEF Init, EveryEventOnce
  <2> QED BY <2>1, <2>2 DEF LogInv
<1>2. LogInv => EveryEventOnce
  BY DEF LogInv
<1> QED BY <1>1, <1>2, LogStep, TypeCorrect, PTL DEF Spec

-----------------------------------------------------------------------------
(* The life cycle, whether or not the database locks rows. *)

Holds(q) == q.op \notin {"none", "ensure", "instruct"} /\ q.pc \in {"seq", "apply", "commit"}

(* What may become of a session that exists. *)
Evolves(a, b) ==
  /\ b.status # "none" /\ b.revision >= a.revision
  /\ a.status # "planning" => b.status = a.status /\ b.revision = a.revision

(* A thread that means to change the session has made of what it read what  *)
(* may become of it, and if the database locks rows it holds the row and    *)
(* the session is as it was read; the others do not change status or        *)
(* revision, except for the one that creates the session.                   *)
RowOK(r, q) ==
  /\ q.op = "none" => q.pc = "idle"
  /\ q.pc = "apply" => Feeding(q)
  /\ q.op \notin {"none", "ensure"} => session.status # "none"
  /\ Holds(q) => Evolves(q.seen, q.copy) /\ (RowLock => rowLock = r /\ q.seen = session)
  /\ q.op = "instruct" => q.copy = q.seen
  /\ q.op = "ensure" => /\ q.pc \in {"load", "commit"}
                        /\ q.copy.revision = q.seen.revision
                        /\ \/ /\ q.copy.status = q.seen.status
                              /\ q.pc = "commit" => session.status # "none"
                           \/ q.seen.status = "none" /\ q.copy.status = "planning"

RowInv == /\ session.status = "none" => session.revision = 0
          /\ \A r \in Thread : RowOK(r, req[r])

(* A step of one thread that leaves the session and the others' row alone.  *)
LEMMA OneRow ==
  ASSUME TypeOK, RowInv, NEW r \in Thread, NEW q, req' = [req EXCEPT ![r] = q],
         UNCHANGED session, \A s \in Thread \ {r} : rowLock = s => rowLock' = s,
         q.op = "none" => q.pc = "idle",
         q.pc = "apply" => Feeding(q),
         q.op \notin {"none", "ensure"} => session.status # "none",
         Holds(q) => /\ Evolves(q.seen, q.copy)
                     /\ RowLock => rowLock' = r /\ q.seen = session,
         q.op = "instruct" => q.copy = q.seen,
         q.op = "ensure" => /\ q.pc \in {"load", "commit"}
                            /\ q.copy.revision = q.seen.revision
                            /\ \/ /\ q.copy.status = q.seen.status
                                  /\ q.pc = "commit" => session.status # "none"
                               \/ q.seen.status = "none" /\ q.copy.status = "planning"
  PROVE  RowInv'
<1>1. req'[r] = q /\ \A s \in Thread \ {r} : req'[s] = req[s]
  BY DEF TypeOK, Types
<1>2. RowOK(r, req[r])'
  BY <1>1 DEF RowOK, Holds, Feeding, Evolves
<1>3. ASSUME NEW s \in Thread \ {r} PROVE RowOK(s, req[s])'
  <2>1. RowOK(s, req[s])
    BY DEF RowInv
  <2> QED BY <1>1, <2>1 DEF RowOK, Holds, Feeding, Evolves
<1> QED BY <1>2, <1>3 DEF RowInv

LEMMA EndRow ==
  ASSUME TypeOK, RowInv, NEW r \in Thread, req' = [req EXCEPT ![r] = Idle],
         UNCHANGED session, \A s \in Thread \ {r} : rowLock = s => rowLock' = s
  PROVE  RowInv'
<1>1. Idle.op = "none" /\ Idle.pc = "idle"
  BY DEF Idle
<1> QED BY <1>1, OneRow DEF Holds

LEMMA ArrivalRow == ASSUME TypeOK, RowInv, NEW r \in Req, Arrival(r) PROVE RowInv'
<1>1. PICK q : /\ req' = [req EXCEPT ![r] = q] /\ q.op # "none" /\ q.copy = q.seen
               /\ IF q.op = "ensure" THEN q.pc = "load" ELSE session.status # "none"
               /\ q.pc \in {"lock", "load"}
  BY ArrivalShape DEF Arrived
<1>2. UNCHANGED <<session, rowLock>>
  BY ArrivalShape DEF Arrived, database
<1> QED BY <1>1, <1>2, OneRow, ThreadFacts DEF Holds

LEMMA ReleaseOthers ==
  ASSUME NEW r \in Thread, Release(r) \/ TakeRow(r) \/ UNCHANGED rowLock
  PROVE  \A s \in Thread \ {r} : rowLock = s => rowLock' = s
BY ThreadFacts DEF Release, TakeRow

LEMMA LoadRow == ASSUME TypeOK, RowInv, NEW r \in Thread, Load(r) PROVE RowInv'
<1>0. /\ req[r] \in Request /\ session \in Session /\ RowOK(r, req[r]) /\ UNCHANGED session
      /\ req[r].pc = "load"
  BY DEF TypeOK, Types, RowInv, Load, LoadForEvents, LoadForNodes, LoadForComplete, LoadForEnd,
         LoadForEnsure, LoadForInstruction, Loading, Immutable, database
<1>1. ASSUME End(r) PROVE RowInv'
  BY <1>0, <1>1, EndRow, ReleaseOthers DEF End
<1>2. ASSUME NEW pc \in {"seq", "commit"}, NEW copy, NEW added, Read(r, pc, copy, added)
      PROVE  \E q : /\ req' = [req EXCEPT ![r] = q]
                    /\ q.op = req[r].op /\ q.pc = pc /\ q.seen = session /\ q.copy = copy
  <2> DEFINE q == [req[r] EXCEPT !.pc = pc, !.seen = session, !.copy = copy, !.added = added,
                                 !.keys = {}, !.next = 0]
  <2>1. q.op = req[r].op /\ q.pc = pc /\ q.seen = session /\ q.copy = copy
    BY <1>0 DEF Request
  <2>2. req' = [req EXCEPT ![r] = q]
    BY <1>2 DEF Read
  <2> HIDE DEF q
  <2> QED BY <2>1, <2>2
<1>3. ASSUME NEW pc \in {"seq", "commit"}, NEW copy, NEW added, Read(r, pc, copy, added),
             req[r].op \notin {"none", "ensure", "instruct"}, TakeRow(r), Evolves(session, copy)
      PROVE  RowInv'
  <2>1. PICK q : /\ req' = [req EXCEPT ![r] = q]
                 /\ q.op = req[r].op /\ q.pc = pc /\ q.seen = session /\ q.copy = copy
    BY <1>2, <1>3
  <2>2. (RowLock => rowLock' = r) /\ session.status # "none"
    BY <1>0, <1>3 DEF TakeRow, RowOK
  <2> QED BY <1>0, <1>3, <2>1, <2>2, OneRow, ReleaseOthers
<1>4. ASSUME session.status = "planning", NEW st \in Status, NEW ns
      PROVE  /\ Evolves(session, [session EXCEPT !.status = st])
             /\ Evolves(session, [session EXCEPT !.nodes = ns, !.revision = @ + 1])
             /\ Evolves(session, [[session EXCEPT !.status = st] EXCEPT
                                    !.nodes = ns, !.revision = @ + 1])
  <2>1. session.revision \in Nat /\ st # "none"
    BY <1>0 DEF Session, Status
  <2> QED BY <1>0, <1>4, <2>1 DEF Evolves, Session
<1>5. CASE LoadForEvents(r)
  <2>1. Evolves(session, session)
    BY <1>0, <1>5 DEF Evolves, LoadForEvents, Loading, RowOK, Session
  <2> QED BY <1>3, <1>5, <2>1 DEF LoadForEvents, Loading
<1>6. CASE LoadForNodes(r)
  BY <1>1, <1>3, <1>4, <1>6, StatusTypes DEF LoadForNodes, Loading, Immutable
<1>7. CASE LoadForComplete(r)
  <2> DEFINE st == IF req[r].nodes \in Valid THEN "completed" ELSE "failed"
  <2>1. st \in Status
    BY StatusTypes
  <2>2. CASE Immutable(r, {"complete"})
    BY <1>1, <2>2 DEF Immutable
  <2>3. CASE ~Immutable(r, {"complete"})
    <3> HIDE DEF st
    <3>1. /\ req[r].op = "complete" /\ session.status = "planning" /\ TakeRow(r)
          /\ \/ Read(r, "seq", [session EXCEPT !.status = st], <<NoKey>>)
             \/ Read(r, "commit", [[session EXCEPT !.status = st] EXCEPT
                                     !.nodes = req[r].nodes, !.revision = @ + 1], <<NoKey>>)
      BY <1>7, <2>3 DEF LoadForComplete, Loading, st
    <3> QED BY <1>3, <1>4, <2>1, <3>1
  <2> QED BY <2>2, <2>3
<1>8. CASE LoadForEnd(r)
  <2> DEFINE st == IF req[r].op = "stop" THEN "stopped" ELSE "failed"
  <2>1. st \in Status
    BY StatusTypes
  <2>2. CASE Immutable(r, {"fail", "give_up", "stop"})
    BY <1>1, <2>2 DEF Immutable
  <2>3. CASE ~Immutable(r, {"fail", "give_up", "stop"})
    <3> HIDE DEF st
    <3>1. /\ req[r].op \in {"fail", "give_up", "stop"} /\ session.status = "planning" /\ TakeRow(r)
          /\ Read(r, "seq", [session EXCEPT !.status = st], <<NoKey>>)
      BY <1>8, <2>3 DEF LoadForEnd, Loading, st
    <3> QED BY <1>3, <1>4, <2>1, <3>1
  <2> QED BY <2>2, <2>3
<1>9. CASE LoadForEnsure(r)
  <2>1. PICK copy : /\ Read(r, "commit", copy, << >>) /\ copy.revision = session.revision
                    /\ \/ copy.status = session.status /\ session.status # "none"
                       \/ session.status = "none" /\ copy.status = "planning"
    <3>1. session.status = "none" => session.revision = 0
      BY DEF RowInv
    <3>2. ASSUME NEW ns PROVE [session EXCEPT !.nodes = ns].revision = session.revision
                                /\ [session EXCEPT !.nodes = ns].status = session.status
      BY <1>0 DEF Session
    <3>3. CASE session.status = "none"
      BY <1>9, <3>1, <3>3 DEF LoadForEnsure
    <3>4. CASE session.status # "none"
      <4>1. PICK ns : Read(r, "commit", [session EXCEPT !.nodes = ns], << >>)
        BY <1>9, <3>4 DEF LoadForEnsure
      <4> QED BY <3>2, <3>4, <4>1
    <3> QED BY <3>3, <3>4
  <2>2. req[r].op = "ensure" /\ UNCHANGED rowLock
    BY <1>9 DEF LoadForEnsure, Loading
  <2>3. PICK q : /\ req' = [req EXCEPT ![r] = q]
                 /\ q.op = req[r].op /\ q.pc = "commit" /\ q.seen = session /\ q.copy = copy
    BY <1>2, <2>1
  <2> QED BY <1>0, <2>1, <2>2, <2>3, OneRow DEF Holds
<1>10. CASE LoadForInstruction(r)
  <2>1. PICK q : /\ req' = [req EXCEPT ![r] = q]
                 /\ q.op = req[r].op /\ q.pc = "seq" /\ q.seen = session /\ q.copy = session
    BY <1>2, <1>10 DEF LoadForInstruction
  <2>2. req[r].op = "instruct" /\ UNCHANGED rowLock
    BY <1>10 DEF LoadForInstruction, Loading
  <2> QED BY <1>0, <2>1, <2>2, OneRow DEF Holds, RowOK
<1> QED BY <1>5, <1>6, <1>7, <1>8, <1>9, <1>10 DEF Load

(* A transaction that goes on with the same session and copy. *)
LEMMA SameRow ==
  ASSUME TypeOK, RowInv, NEW r \in Thread, NEW q, req' = [req EXCEPT ![r] = q],
         UNCHANGED <<session, rowLock>>, req[r].pc \in {"seq", "apply"},
         q.op = req[r].op, q.seen = req[r].seen, q.pc \in {"apply", "commit"},
         q.pc = "apply" => Feeding(q),
         q.copy = req[r].copy \/ (Holds(q) /\ Evolves(q.seen, q.copy))
  PROVE  RowInv'
<1>1. RowOK(r, req[r])
  BY DEF RowInv
<1>2. q.op # "ensure" /\ q.op # "none"
  BY <1>1 DEF RowOK
<1>3. Holds(q) <=> Holds(req[r])
  BY <1>1 DEF Holds
<1>4. q.op = "instruct" => q.copy = q.seen
  BY <1>1 DEF RowOK, Holds
<1>5. Holds(q) => Evolves(q.seen, q.copy) /\ (RowLock => rowLock' = r /\ q.seen = session)
  BY <1>1, <1>3 DEF RowOK
<1> QED BY <1>1, <1>2, <1>4, <1>5, OneRow DEF RowOK

LEMMA ReadSeqRow == ASSUME TypeOK, RowInv, NEW r \in Thread, ReadSeq(r) PROVE RowInv'
<1> DEFINE pc == IF req[r].op \in {"events", "bridge"} THEN "apply" ELSE "commit"
           n == Len(log) + 1
           q == [req[r] EXCEPT !.pc = pc, !.keys = LoggedKeys, !.next = n]
<1>1. req[r] \in Request /\ req[r].pc = "seq" /\ UNCHANGED <<session, rowLock>>
  BY DEF TypeOK, Types, ReadSeq, database
<1>2. req' = [req EXCEPT ![r] = q]
  BY DEF ReadSeq
<1>3. q.op = req[r].op /\ q.seen = req[r].seen /\ q.copy = req[r].copy /\ q.pc = pc
  BY <1>1 DEF Request
<1> HIDE DEF q
<1> QED BY <1>1, <1>2, <1>3, SameRow DEF Feeding

LEMMA TakenEvolves ==
  ASSUME NEW q \in Request, q.events # << >>, Evolves(q.seen, q.copy),
         q.copy.status # "planning" => ~Structural(Head(q.events))
  PROVE  /\ Taken(q, Head(q.events)).seen = q.seen
         /\ Evolves(q.seen, Taken(q, Head(q.events)).copy)
<1> DEFINE e == Head(q.events)
           revised == Revised(q.copy, e)
           copy == IF e.status = "none" THEN revised ELSE [revised EXCEPT !.status = e.status]
<1>1. q.copy \in Session /\ q.seen \in Session /\ e \in Event
  BY DEF Request
<1>2. Taken(q, e).seen = q.seen /\ Taken(q, e).copy = copy
  BY DEF Taken, Remembered, Skipped, Request
<1> HIDE DEF e
<1>3. revised \in Session /\ revised.status = q.copy.status
  BY <1>1, RevisedType
<1>4. revised.revision >= q.copy.revision
  BY <1>1 DEF Revised, Session
<1>5. CASE q.copy.status # "planning"
  <2>1. copy = q.copy
    BY <1>5 DEF Structural, Revised, e
  <2> QED BY <1>2, <2>1 DEF e
<1>6. CASE q.copy.status = "planning"
  <2>1. copy.revision >= q.copy.revision /\ copy.status # "none" /\ copy.revision \in Nat
    <3> HIDE DEF revised
    <3> QED BY <1>3, <1>4, <1>6 DEF Session
  <2>2. q.seen.status = "planning"
    BY <1>6 DEF Evolves
  <2>3. copy.revision >= q.seen.revision
    BY <1>1, <2>1 DEF Evolves, Session
  <2> HIDE DEF copy
  <2> QED BY <1>2, <2>1, <2>2, <2>3 DEF Evolves, e
<1> QED BY <1>5, <1>6

LEMMA ApplyRow == ASSUME TypeOK, RowInv, NEW r \in Thread, Apply(r) PROVE RowInv'
<1> DEFINE q == req[r]  e == Head(req[r].events)
<1>1. /\ q \in Request /\ RowOK(r, q) /\ q.pc = "apply" /\ q.events # << >>
      /\ UNCHANGED session
  BY ApplyCases DEF TypeOK, Types, RowInv, database
<1>2. Feeding(q) /\ Holds(q) /\ Evolves(q.seen, q.copy)
  BY <1>1 DEF RowOK, Feeding, Holds
<1>3. CASE End(r)
  BY <1>1, <1>3, EndRow, ReleaseOthers DEF End
<1>4. CASE ~End(r)
  <2>1. UNCHANGED rowLock
    BY <1>4, ApplyCases
  <2>2. CASE req' = [req EXCEPT ![r] = Skipped(q)]
    <3>1. Skipped(q).op = q.op /\ Skipped(q).pc = q.pc /\ Skipped(q).seen = q.seen
            /\ Skipped(q).copy = q.copy
      BY <1>1 DEF Skipped, Request
    <3> QED BY <1>1, <1>2, <2>1, <2>2, <3>1, SameRow DEF Feeding
  <2>3. CASE req' = [req EXCEPT ![r] = Remembered(q, e)]
    <3>1. Remembered(q, e).op = q.op /\ Remembered(q, e).pc = q.pc
            /\ Remembered(q, e).seen = q.seen /\ Remembered(q, e).copy = q.copy
      BY <1>1 DEF Remembered, Skipped, Request
    <3> QED BY <1>1, <1>2, <2>1, <2>3, <3>1, SameRow DEF Feeding
  <2>4. CASE /\ req' = [req EXCEPT ![r] = Taken(q, e)]
             /\ q.copy.status # "planning" => ~Structural(e)
    <3>1. Taken(q, e).op = q.op /\ Taken(q, e).pc = q.pc
      BY <1>1, TakenType
    <3>2. Taken(q, e).seen = q.seen /\ Evolves(q.seen, Taken(q, e).copy)
      BY <1>1, <1>2, <2>4, TakenEvolves
    <3> DEFINE p == Taken(q, e)
    <3>3. p.op = q.op /\ p.pc = q.pc /\ p.seen = q.seen /\ Evolves(p.seen, p.copy)
      BY <3>1, <3>2
    <3>4. req' = [req EXCEPT ![r] = p]
      BY <2>4
    <3> HIDE DEF p
    <3> QED BY <1>1, <1>2, <2>1, <3>3, <3>4, SameRow DEF Feeding, Holds
  <2> QED BY <1>4, <2>2, <2>3, <2>4, ApplyCases
<1> QED BY <1>3, <1>4

LEMMA BatchAppliedRow == ASSUME TypeOK, RowInv, NEW r \in Thread, BatchApplied(r) PROVE RowInv'
<1> DEFINE q == [req[r] EXCEPT !.pc = "commit"]
<1>1. req[r] \in Request /\ req[r].pc = "apply" /\ UNCHANGED <<session, rowLock>>
  BY DEF TypeOK, Types, BatchApplied, database
<1>2. q.op = req[r].op /\ q.seen = req[r].seen /\ q.copy = req[r].copy /\ q.pc = "commit"
  BY <1>1 DEF Request
<1>3. req' = [req EXCEPT ![r] = q]
  BY DEF BatchApplied, TypeOK, Types
<1> HIDE DEF q
<1> QED BY <1>1, <1>2, <1>3, SameRow

(* What a commit may do to the session, in the terms of PlannerLifecycle,   *)
(* unless it overwrites it.                                                 *)
Moves ==
  \/ session'.status = session.status /\ session'.revision = session.revision
  \/ session.status = "none" /\ session'.status = "planning"
       /\ session'.revision = session.revision
  \/ session.status = "planning" /\ session'.status \in Status
       /\ session'.revision \in Nat /\ session'.revision >= session.revision

LEMMA CommitMoves ==
  ASSUME TypeOK, RowInv, NEW r \in Thread, Commit(r)
  PROVE  Moves \/ Overwrites(r)
<1>1. CASE UNCHANGED session
  BY <1>1 DEF Moves
<1>2. CASE session' # session
  <2> DEFINE q == req[r]
  <2>1. /\ q \in Request /\ RowOK(r, q) /\ q.pc = "commit" /\ session \in Session
        /\ Unique(q) /\ session' = Written(q)
    BY <1>2 DEF TypeOK, Types, RowInv, Commit, database
  <2>2. q.seen \in Session /\ q.copy \in Session
    BY <2>1 DEF Request
  <2>3. /\ session'.status = IF q.copy.status = q.seen.status THEN session.status ELSE q.copy.status
        /\ session'.revision = IF q.copy.revision = q.seen.revision THEN session.revision
                               ELSE q.copy.revision
    BY <2>1 DEF Written
  <2>4. CASE q.op = "instruct"
    BY <2>1, <2>3, <2>4 DEF RowOK, Moves
  <2>5. CASE q.op = "ensure"
    BY <2>1, <2>3, <2>5 DEF RowOK, Moves, Unique
  <2>6. CASE q.op \notin {"instruct", "ensure"}
    <3>1. Evolves(q.seen, q.copy) /\ (RowLock => q.seen = session) /\ session.status # "none"
      BY <2>1, <2>6 DEF RowOK, Holds
    <3>2. CASE q.seen = session
      <4>1. session'.status = q.copy.status /\ session'.revision = q.copy.revision
        BY <2>3, <3>2
      <4> QED BY <2>2, <3>1, <3>2, <4>1 DEF Evolves, Moves, Session
    <3>3. CASE q.seen # session /\ q.seen.status = "planning"
      BY <2>1, <2>6, <3>1, <3>3 DEF Overwrites
    <3>4. CASE q.seen.status # "planning"
      <4>1. q.copy.status = q.seen.status /\ q.copy.revision = q.seen.revision
        BY <3>1, <3>4 DEF Evolves
      <4> QED BY <2>3, <4>1 DEF Moves
    <3> QED BY <3>2, <3>3, <3>4
  <2> QED BY <2>4, <2>5, <2>6
<1> QED BY <1>1, <1>2

LEMMA CommitRow == ASSUME TypeOK, RowInv, NEW r \in Thread, Commit(r) PROVE RowInv'
<1>1. CASE End(r) /\ UNCHANGED database
  BY <1>1, EndRow, ReleaseOthers DEF End, database
<1>2. CASE ~(End(r) /\ UNCHANGED database)
  <2> DEFINE p == AfterCommit(req[r])
  <2>1. /\ req' = [req EXCEPT ![r] = p] /\ Release(r) /\ RowFree(r) /\ RowOK(r, req[r])
        /\ Unique(req[r]) /\ session' = Written(req[r]) /\ req[r].pc = "commit"
    BY <1>2 DEF Commit, RowInv
  <2>2. Moves \/ (Overwrites(r) /\ session'.status # "none")
    <3> SUFFICES ASSUME Overwrites(r) PROVE session'.status # "none"
      BY CommitMoves
    <3>1. Holds(req[r]) /\ req[r].op \notin {"none", "ensure"} /\ req[r].op # "instruct"
      BY <2>1 DEF Overwrites, RowOK, Holds
    <3>2. session.status # "none" /\ req[r].copy.status # "none"
      BY <2>1, <3>1 DEF RowOK, Evolves
    <3> QED BY <2>1, <3>2 DEF Written
  <2>3. session.status # "none" => session'.status # "none"
    BY <2>2, StatusTypes DEF Moves, Status
  <2>4. session'.status = "none" => session'.revision = 0
    BY <2>2, <2>3 DEF Moves, RowInv
  <2>5. req'[r] = p /\ \A s \in Thread \ {r} : req'[s] = req[s]
    BY <2>1 DEF TypeOK, Types
  <2>6. ASSUME NEW s \in Thread \ {r} PROVE RowOK(s, req[s])'
    <3>1. RowOK(s, req[s])
      BY DEF RowInv
    <3>2. RowLock => ~Holds(req[s])
      BY <2>1, <3>1, ThreadFacts DEF RowOK, RowFree
    <3> QED BY <2>3, <2>5, <3>1, <3>2 DEF RowOK, Holds, Feeding, Evolves
  <2>7. RowOK(r, req[r])'
    <3>1. req[r].op = "ensure" => session'.status # "none"
      <4> SUFFICES ASSUME req[r].op = "ensure" PROVE session'.status # "none"
        OBVIOUS
      <4>1. CASE req[r].seen.status = "none" /\ req[r].copy.status = "planning"
        BY <2>1, <4>1 DEF Written
      <4>2. CASE session.status # "none"
        BY <2>3, <4>2
      <4> QED BY <2>1, <4>1, <4>2 DEF RowOK
    <3>2. req[r].op \notin {"none", "ensure"} => session'.status # "none"
      BY <2>1, <2>3 DEF RowOK
    <3>3. /\ p.op \notin {"none", "ensure"} => session'.status # "none"
          /\ p.pc \notin {"seq", "apply", "commit"} /\ p.copy = p.seen
          /\ p.op = "none" => p.pc = "idle"
          /\ p.op # "ensure"
      BY <3>1, <3>2 DEF AfterCommit, Idle
    <3> HIDE DEF p
    <3> QED BY <2>5, <3>3 DEF RowOK, Holds
  <2> QED BY <2>4, <2>6, <2>7 DEF RowInv
<1> QED BY <1>1, <1>2

(* The threads that only move towards a transaction. *)
LEMMA WaitingRow ==
  ASSUME TypeOK, RowInv, NEW r \in Thread, NEW q, req' = [req EXCEPT ![r] = q],
         UNCHANGED <<session, rowLock>>, req[r].pc \in {"lock", "watch"},
         q.op = req[r].op, q.copy = req[r].copy, q.seen = req[r].seen,
         q.pc \in {"lock", "load"}
  PROVE  RowInv'
<1>1. RowOK(r, req[r])
  BY DEF RowInv
<1>2. q.op \notin {"none", "ensure"}
  BY <1>1 DEF RowOK
<1>3. q.op = "instruct" => q.copy = q.seen
  BY <1>1 DEF RowOK
<1> QED BY <1>1, <1>2, <1>3, OneRow DEF Holds, RowOK

LEMMA RowStep == TypeOK /\ RowInv /\ [Next]_vars => RowInv'
<1> SUFFICES ASSUME TypeOK, RowInv, [Next]_vars PROVE RowInv'
  OBVIOUS
<1> USE ThreadFacts
<1>1. ASSUME NEW r \in Thread, Transaction(r) PROVE RowInv'
  BY <1>1, LoadRow, ReadSeqRow, ApplyRow, BatchAppliedRow, CommitRow DEF Transaction
<1>2. ASSUME NEW r \in Thread, req[r].pc = "lock", UNCHANGED <<session, rowLock>>,
             req' = [req EXCEPT ![r].pc = "load"] PROVE RowInv'
  <2> DEFINE q == [req[r] EXCEPT !.pc = "load"]
  <2>1. q.pc = "load" /\ q.op = req[r].op /\ q.copy = req[r].copy /\ q.seen = req[r].seen
    BY DEF TypeOK, Types, Request
  <2>2. req' = [req EXCEPT ![r] = q]
    BY <1>2 DEF TypeOK, Types
  <2> HIDE DEF q
  <2> QED BY <1>2, <2>1, <2>2, WaitingRow
<1>3. ASSUME NEW r \in Req, EnterCallback(r) PROVE RowInv'
  BY <1>2, <1>3 DEF EnterCallback, database
<1>4. CASE EnterBridge
  BY <1>2, <1>4, EndRow DEF EnterBridge, database
<1>5. CASE BridgeReads
  <2>1. CASE req' = [req EXCEPT ![Bridge] = Idle]
    BY <1>5, <2>1, EndRow DEF BridgeReads, database
  <2>2. CASE req' # [req EXCEPT ![Bridge] = Idle]
    <3>1. PICK b, last : req' = [req EXCEPT ![Bridge] =
                           [req[Bridge] EXCEPT !.pc = "lock", !.events = b, !.last = last]]
      BY <1>5, <2>2 DEF BridgeReads
    <3> DEFINE q == [req[Bridge] EXCEPT !.pc = "lock", !.events = b, !.last = last]
    <3>2. q.pc = "lock" /\ q.op = req[Bridge].op /\ q.copy = req[Bridge].copy
            /\ q.seen = req[Bridge].seen
      BY DEF TypeOK, Types, Request
    <3>3. req[Bridge].pc = "watch" /\ UNCHANGED <<session, rowLock>>
      BY <1>5 DEF BridgeReads, database
    <3>4. req' = [req EXCEPT ![Bridge] = q]
      BY <3>1
    <3> HIDE DEF q
    <3> QED BY <3>2, <3>3, <3>4, WaitingRow
  <2> QED BY <2>1, <2>2
<1>6. ASSUME NEW r \in Req, DispatchPlanner(r) PROVE RowInv'
  <2> DEFINE watch == [Idle EXCEPT !.op = "bridge", !.pc = "watch"]
             give_up == [Idle EXCEPT !.op = "give_up", !.pc = "load"]
  <2>1. UNCHANGED <<session, rowLock>> /\ session.status # "none"
    <3>1. RowOK(r, req[r]) /\ req[r].pc = "dispatch"
      BY <1>6 DEF DispatchPlanner, RowInv
    <3>2. UNCHANGED <<session, rowLock>>
      BY <1>6 DEF DispatchPlanner, database
    <3> QED BY <3>1, <3>2 DEF RowOK
  <2>2. watch.op = "bridge" /\ watch.pc = "watch" /\ give_up.op = "give_up" /\ give_up.pc = "load"
    BY DEF Idle
  <2>3. CASE req' = [req EXCEPT ![r] = Idle]
    BY <2>1, <2>3, EndRow
  <2>4. CASE req' = [req EXCEPT ![r] = give_up]
    <3> HIDE DEF give_up
    <3> QED BY <2>1, <2>2, <2>4, OneRow DEF Holds
  <2>5. CASE req' = [req EXCEPT ![r] = Idle, ![Bridge] = watch]
    <3> HIDE DEF watch
    <3>1. \A s \in Thread : req'[s] = Idle \/ req'[s] = watch \/ req'[s] = req[s]
      BY <2>5 DEF TypeOK, Types
    <3>2. Idle.op = "none" /\ Idle.pc = "idle"
      BY DEF Idle
    <3>3. ASSUME NEW s \in Thread PROVE RowOK(s, req[s])'
      <4>1. CASE req'[s] = req[s]
        <5>1. RowOK(s, req[s])
          BY DEF RowInv
        <5> QED BY <2>1, <4>1, <5>1 DEF RowOK, Holds, Feeding, Evolves
      <4>2. CASE req'[s] = Idle
        BY <3>2, <4>2 DEF RowOK, Holds
      <4>3. CASE req'[s] = watch
        BY <2>1, <2>2, <4>3 DEF RowOK, Holds
      <4> QED BY <3>1, <4>1, <4>2, <4>3
    <3> QED BY <2>1, <3>3 DEF RowInv
  <2> QED BY <1>6, <2>3, <2>4, <2>5 DEF DispatchPlanner
<1>7. CASE Crash
  <2>1. Idle.op = "none" /\ Idle.pc = "idle"
    BY DEF Idle
  <2>2. \A s \in Thread : RowOK(s, req[s])'
    BY <1>7, <2>1 DEF Crash, RowOK, Holds
  <2> QED BY <1>7, <2>2 DEF Crash, database, RowInv
<1>8. CASE UNCHANGED vars
  BY <1>8 DEF vars, RowInv, RowOK, Holds, Feeding, Evolves
<1> QED BY <1>1, <1>3, <1>4, <1>5, <1>6, <1>7, <1>8, ArrivalRow DEF Next, Goes, BridgeGoes

(* Only a commit moves the session. *)
LEMMA StepMoves ==
  TypeOK /\ RowInv /\ [Next]_vars => Moves \/ \E r \in Thread : Overwrites(r)
<1> SUFFICES ASSUME TypeOK, RowInv, [Next]_vars
             PROVE  Moves \/ \E r \in Thread : Overwrites(r)
  OBVIOUS
<1>1. CASE UNCHANGED session
  BY <1>1 DEF Moves
<1>2. ASSUME NEW r \in Thread, Transaction(r) PROVE Moves \/ Overwrites(r)
  <2>1. CASE Commit(r)
    BY <2>1, CommitMoves
  <2>2. CASE ~Commit(r)
    <3>1. UNCHANGED session
      BY <1>2, <2>2 DEF Transaction, Load, LoadForEvents, LoadForNodes, LoadForComplete,
         LoadForEnd, LoadForEnsure, LoadForInstruction, Loading, Immutable, ReadSeq, Apply,
         BatchApplied, database
    <3> QED BY <3>1 DEF Moves
  <2> QED BY <2>1, <2>2
<1>3. ASSUME NEW r \in Req, Arrival(r) PROVE UNCHANGED session
  BY <1>3, ArrivalShape DEF Arrived, database
<1>4. ASSUME NEW r \in Req, EnterCallback(r) \/ DispatchPlanner(r) PROVE UNCHANGED session
  BY <1>4 DEF EnterCallback, DispatchPlanner, database
<1>5. EnterBridge \/ BridgeReads \/ Crash \/ UNCHANGED vars => UNCHANGED session
  BY DEF EnterBridge, BridgeReads, Crash, database, vars
<1> QED BY <1>1, <1>2, <1>3, <1>4, <1>5, ThreadFacts DEF Next, Goes, BridgeGoes

(* Whatever threads there are, and whether or not the database honours FOR  *)
(* UPDATE: planning until it ends, growing revisions, nothing after the     *)
(* end, unless a thread overwrites what it has not seen.                    *)
THEOREM OnlyLostUpdatesRevive == Spec => LifecycleUnlessOverwritten
<1> DEFINE A == Lifecycle!Next \/ \E r \in Thread : Overwrites(r)
<1>1. Init => RowInv
  <2>1. NoSession.status = "none" /\ NoSession.revision = 0
    BY DEF NoSession
  <2>2. Idle.op = "none" /\ Idle.pc = "idle"
    BY DEF Idle
  <2> QED BY <2>1, <2>2 DEF Init, RowInv, RowOK, Holds
<1>2. TypeOK /\ RowInv /\ [Next]_vars => RowInv'
  BY RowStep
<1>3. TypeOK /\ RowInv /\ [Next]_vars => [A]_<<session.status, session.revision>>
  <2> SUFFICES ASSUME Moves, TypeOK PROVE [Lifecycle!Next]_<<session.status, session.revision>>
    BY StepMoves
  <2>1. session.revision \in Nat
    BY DEF TypeOK, Types, Session
  <2> QED BY <2>1 DEF Moves, Lifecycle!Next, Lifecycle!Create, Lifecycle!Revise, Lifecycle!End,
                      Lifecycle!Ended, Status
<1> HIDE DEF A
<1>4. Spec => [][A]_<<session.status, session.revision>>
  BY <1>1, <1>2, <1>3, TypeCorrect, PTL DEF Spec
<1> QED BY <1>4 DEF A, LifecycleUnlessOverwritten

-----------------------------------------------------------------------------
(* A revision names its nodes. *)

(* Whoever holds the row has counted the change of the nodes it is about to *)
(* write; a generate writes its canvas into what it read before the first   *)
(* revision.                                                                *)
NodesOK(q) ==
  /\ Holds(q) => q.copy.nodes = q.seen.nodes \/ q.copy.revision > q.seen.revision
  /\ q.op = "ensure" /\ q.pc = "commit" /\ q.copy.nodes # q.seen.nodes =>
       Seeds(q) /\ q.copy.nodes = q.nodes

NodesInv == \A r \in Thread : NodesOK(req[r])

LEMMA OneCount ==
  ASSUME TypeOK, NodesInv, NEW r \in Thread, NEW q, req' = [req EXCEPT ![r] = q], NodesOK(q)
  PROVE  NodesInv'
<1>1. \A s \in Thread : NodesOK(req'[s])
  BY DEF NodesInv, TypeOK, Types
<1> QED BY <1>1 DEF NodesInv, NodesOK, Holds, Seeds

LEMMA NothingHeld ==
  ASSUME NEW q, q.pc \notin {"seq", "apply", "commit"}
  PROVE  NodesOK(q)
BY DEF NodesOK, Holds

LEMMA LoadCount == ASSUME TypeOK, RowInv, NodesInv, NEW r \in Thread, Load(r) PROVE NodesInv'
<1>0. /\ req[r] \in Request /\ session \in Session
      /\ session.revision \in Nat
      /\ session.status = "none" => session.revision = 0
  BY DEF TypeOK, Types, RowInv, Session
<1>1. ASSUME End(r) PROVE NodesInv'
  <2>1. Idle.pc = "idle"
    BY DEF Idle
  <2> QED BY <1>1, <2>1, OneCount, NothingHeld DEF End
<1>2. ASSUME NEW pc \in {"seq", "commit"}, NEW copy, NEW added, Read(r, pc, copy, added),
             \/ copy.nodes = session.nodes
             \/ req[r].op # "ensure" /\ copy.revision > session.revision
             \/ /\ req[r].op = "ensure" /\ copy.nodes = req[r].nodes
                /\ session.revision = 0 /\ session.status \in {"none", "planning"}
      PROVE  NodesInv'
  <2> DEFINE q == [req[r] EXCEPT !.pc = pc, !.seen = session, !.copy = copy, !.added = added,
                                 !.keys = {}, !.next = 0]
  <2>1. /\ q.op = req[r].op /\ q.pc = pc /\ q.seen = session /\ q.copy = copy
        /\ q.nodes = req[r].nodes
    BY <1>0 DEF Request
  <2>2. req' = [req EXCEPT ![r] = q]
    BY <1>2 DEF Read
  <2> HIDE DEF q
  <2>3. NodesOK(q)
    BY <1>2, <2>1 DEF NodesOK, Holds, Seeds
  <2> QED BY <2>2, <2>3, OneCount
<1>3. ASSUME NEW st
      PROVE  [session EXCEPT !.status = st].nodes = session.nodes
  BY <1>0 DEF Session
<1>4. ASSUME NEW st, NEW ns
      PROVE  /\ [session EXCEPT !.nodes = ns, !.revision = @ + 1].revision > session.revision
             /\ [[session EXCEPT !.status = st] EXCEPT
                    !.nodes = ns, !.revision = @ + 1].revision > session.revision
  BY <1>0 DEF Session
<1>5. CASE LoadForEvents(r) \/ LoadForInstruction(r)
  BY <1>2, <1>5 DEF LoadForEvents, LoadForInstruction
<1>6. CASE LoadForNodes(r)
  BY <1>1, <1>2, <1>4, <1>6 DEF LoadForNodes, Loading, Immutable
<1>7. CASE LoadForComplete(r)
  <2> DEFINE st == IF req[r].nodes \in Valid THEN "completed" ELSE "failed"
  <2> HIDE DEF st
  <2>1. \/ End(r)
        \/ req[r].op = "complete" /\ Read(r, "seq", [session EXCEPT !.status = st], <<NoKey>>)
        \/ /\ req[r].op = "complete"
           /\ Read(r, "commit", [[session EXCEPT !.status = st] EXCEPT
                                   !.nodes = req[r].nodes, !.revision = @ + 1], <<NoKey>>)
    BY <1>7 DEF LoadForComplete, Loading, Immutable, st
  <2> QED BY <1>1, <1>2, <1>3, <1>4, <2>1
<1>8. CASE LoadForEnd(r)
  <2>1. End(r) \/ \E st : Read(r, "seq", [session EXCEPT !.status = st], <<NoKey>>)
    BY <1>8 DEF LoadForEnd, Immutable
  <2> QED BY <1>1, <1>2, <1>3, <2>1
<1>9. CASE LoadForEnsure(r)
  <2>1. ASSUME NEW ns PROVE [session EXCEPT !.nodes = ns].nodes = ns
    BY <1>0 DEF Session
  <2>2. PICK copy : /\ Read(r, "commit", copy, << >>) /\ req[r].op = "ensure"
                    /\ \/ copy.nodes = session.nodes
                       \/ /\ copy.nodes = req[r].nodes /\ session.revision = 0
                          /\ session.status \in {"none", "planning"}
    <3>1. CASE session.status = "none"
      <4> DEFINE new == [status |-> "planning", revision |-> 0, nodes |-> req[r].nodes]
      <4>1. Read(r, "commit", new, << >>) /\ req[r].op = "ensure"
        BY <1>9, <3>1 DEF LoadForEnsure, Loading
      <4>2. new.nodes = req[r].nodes
        OBVIOUS
      <4> HIDE DEF new
      <4> QED BY <1>0, <3>1, <4>1, <4>2
    <3>2. CASE session.status # "none"
      <4>1. PICK ns : /\ Read(r, "commit", [session EXCEPT !.nodes = ns], << >>)
                      /\ req[r].op = "ensure"
                      /\ \/ ns = session.nodes
                         \/ ns = req[r].nodes /\ session.revision = 0 /\ session.status = "planning"
        BY <1>9, <3>2 DEF LoadForEnsure, Loading
      <4> QED BY <2>1, <4>1
    <3> QED BY <3>1, <3>2
  <2> QED BY <1>2, <2>2
<1> QED BY <1>5, <1>6, <1>7, <1>8, <1>9 DEF Load

(* The keys and the progress of a batch have no part in it. *)
LEMMA SameCount ==
  ASSUME TypeOK, RowInv, NodesInv, NEW r \in Thread, NEW q, req' = [req EXCEPT ![r] = q],
         req[r].pc \in {"seq", "apply"}, q.op = req[r].op, q.seen = req[r].seen,
         q.copy = req[r].copy \/ q.copy.nodes = q.seen.nodes
           \/ q.copy.revision > q.seen.revision
  PROVE  NodesInv'
<1>1. RowOK(r, req[r]) /\ NodesOK(req[r])
  BY DEF RowInv, NodesInv
<1>2. q.op # "ensure"
  BY <1>1 DEF RowOK
<1>3. NodesOK(q)
  BY <1>1, <1>2 DEF NodesOK, Holds
<1> QED BY <1>3, OneCount

LEMMA TakenCounts ==
  ASSUME NEW q \in Request, q.events # << >>, Evolves(q.seen, q.copy),
         q.copy.nodes = q.seen.nodes \/ q.copy.revision > q.seen.revision
  PROVE  LET p == Taken(q, Head(q.events)) IN
         p.copy.nodes = q.seen.nodes \/ p.copy.revision > q.seen.revision
<1> DEFINE e == Head(q.events)
           revised == Revised(q.copy, e)
           copy == IF e.status = "none" THEN revised ELSE [revised EXCEPT !.status = e.status]
<1>1. q.copy \in Session /\ q.seen \in Session /\ e \in Event
  BY DEF Request
<1>2. Taken(q, e).copy = copy
  BY DEF Taken, Remembered, Skipped, Request
<1> HIDE DEF e
<1>3. revised \in Session
  BY <1>1, RevisedType
<1>4. \/ revised.nodes = q.copy.nodes /\ revised.revision = q.copy.revision
      \/ revised.revision = q.copy.revision + 1
  BY <1>1 DEF Revised, Session
<1>5. copy.nodes = revised.nodes /\ copy.revision = revised.revision
  <2> HIDE DEF revised
  <2> QED BY <1>3 DEF Session
<1>6. q.copy.revision \in Nat /\ q.seen.revision \in Nat /\ q.copy.revision >= q.seen.revision
  BY <1>1 DEF Session, Evolves
<1> HIDE DEF copy, revised
<1>7. copy.nodes = q.seen.nodes \/ copy.revision > q.seen.revision
  BY <1>4, <1>5, <1>6
<1> QED BY <1>2, <1>7 DEF e

LEMMA TransactionCount ==
  ASSUME TypeOK, RowInv, NodesInv, NEW r \in Thread, Transaction(r)
  PROVE  NodesInv'
<1> DEFINE q == req[r]  e == Head(req[r].events)
<1>0. q \in Request /\ RowOK(r, q) /\ NodesOK(q) /\ req \in [Thread -> Request]
  BY DEF TypeOK, Types, RowInv, NodesInv
<1>1. ASSUME req' = [req EXCEPT ![r] = Idle] PROVE NodesInv'
  <2>1. Idle.pc = "idle"
    BY DEF Idle
  <2> QED BY <1>1, <2>1, OneCount, NothingHeld
<1>2. CASE Load(r)
  BY <1>2, LoadCount
<1>3. CASE ReadSeq(r)
  <2> DEFINE pc == IF q.op \in {"events", "bridge"} THEN "apply" ELSE "commit"
             n == Len(log) + 1
             p == [q EXCEPT !.pc = pc, !.keys = LoggedKeys, !.next = n]
  <2>1. p.op = q.op /\ p.seen = q.seen /\ p.copy = q.copy
    BY <1>0 DEF Request
  <2>2. req' = [req EXCEPT ![r] = p] /\ q.pc = "seq"
    BY <1>3 DEF ReadSeq
  <2> HIDE DEF p
  <2> QED BY <2>1, <2>2, SameCount
<1>4. CASE BatchApplied(r)
  <2> DEFINE p == [q EXCEPT !.pc = "commit"]
  <2>1. p.op = q.op /\ p.seen = q.seen /\ p.copy = q.copy
    BY <1>0 DEF Request
  <2>2. req' = [req EXCEPT ![r] = p] /\ q.pc = "apply"
    BY <1>0, <1>4 DEF BatchApplied
  <2> HIDE DEF p
  <2> QED BY <2>1, <2>2, SameCount
<1>5. CASE Apply(r)
  <2>1. q.pc = "apply" /\ q.events # << >>
    BY <1>5, ApplyCases
  <2>2. CASE End(r)
    BY <1>1, <2>2 DEF End
  <2>3. CASE req' = [req EXCEPT ![r] = Skipped(q)] \/ req' = [req EXCEPT ![r] = Remembered(q, e)]
    <3>1. \A p \in {Skipped(q), Remembered(q, e)} :
            p.op = q.op /\ p.seen = q.seen /\ p.copy = q.copy
      BY <1>0 DEF Skipped, Remembered, Request
    <3> QED BY <2>1, <2>3, <3>1, SameCount
  <2>4. CASE req' = [req EXCEPT ![r] = Taken(q, e)]
    <3>1. Holds(q) /\ Evolves(q.seen, q.copy)
      BY <1>0, <2>1 DEF RowOK, Holds, Feeding
    <3>2. Taken(q, e).copy.nodes = q.seen.nodes \/ Taken(q, e).copy.revision > q.seen.revision
      BY <1>0, <2>1, <3>1, TakenCounts DEF NodesOK
    <3>3. Taken(q, e).op = q.op /\ Taken(q, e).seen = q.seen
      <4>1. Taken(q, e).op = q.op
        BY <1>0, <2>1, TakenType
      <4>2. Taken(q, e).seen = q.seen
        BY <1>0 DEF Taken, Remembered, Skipped, Request
      <4> QED BY <4>1, <4>2
    <3> DEFINE p == Taken(q, e)
    <3>4. /\ req' = [req EXCEPT ![r] = p] /\ p.op = q.op /\ p.seen = q.seen
          /\ p.copy.nodes = p.seen.nodes \/ p.copy.revision > p.seen.revision
      BY <2>4, <3>2, <3>3
    <3> HIDE DEF p
    <3> QED BY <2>1, <3>4, SameCount
  <2> QED BY <1>5, <2>2, <2>3, <2>4, ApplyCases
<1>6. CASE Commit(r)
  <2> DEFINE p == AfterCommit(q)
  <2>1. p.pc \notin {"seq", "apply", "commit"}
    BY DEF AfterCommit, Idle
  <2>2. CASE req' = [req EXCEPT ![r] = p]
    <3> HIDE DEF p
    <3> QED BY <2>1, <2>2, OneCount, NothingHeld
  <2> QED BY <1>1, <1>6, <2>2 DEF Commit, End
<1> QED BY <1>2, <1>3, <1>4, <1>5, <1>6 DEF Transaction

LEMMA CountStep == TypeOK /\ RowInv /\ NodesInv /\ [Next]_vars => NodesInv'
<1> SUFFICES ASSUME TypeOK, RowInv, NodesInv, [Next]_vars PROVE NodesInv'
  OBVIOUS
<1> USE ThreadFacts
<1>1. ASSUME NEW r \in Thread, NEW q, req' = [req EXCEPT ![r] = q],
             q.pc \notin {"seq", "apply", "commit"}
      PROVE  NodesInv'
  BY <1>1, OneCount, NothingHeld
<1>2. Idle.pc = "idle" /\ \A r \in Thread : req[r] \in Request
  BY DEF Idle, TypeOK, Types
<1>3. ASSUME NEW r \in Req, Arrival(r) PROVE NodesInv'
  BY <1>1, <1>3, ArrivalShape DEF Arrived
<1>4. ASSUME NEW r \in Thread, req' = [req EXCEPT ![r].pc = "load"] PROVE NodesInv'
  <2> DEFINE q == [req[r] EXCEPT !.pc = "load"]
  <2>1. q.pc = "load"
    BY <1>2 DEF Request
  <2>2. req' = [req EXCEPT ![r] = q]
    BY <1>4 DEF TypeOK, Types
  <2> HIDE DEF q
  <2> QED BY <1>1, <2>1, <2>2
<1>5. CASE EnterBridge \/ \E r \in Req : EnterCallback(r)
  BY <1>1, <1>2, <1>4, <1>5 DEF EnterBridge, EnterCallback
<1>6. CASE BridgeReads
  <2>1. CASE req' = [req EXCEPT ![Bridge] = Idle]
    BY <1>1, <1>2, <2>1
  <2>2. CASE req' # [req EXCEPT ![Bridge] = Idle]
    <3>1. PICK b, last : req' = [req EXCEPT ![Bridge] =
                           [req[Bridge] EXCEPT !.pc = "lock", !.events = b, !.last = last]]
      BY <1>6, <2>2 DEF BridgeReads
    <3> DEFINE q == [req[Bridge] EXCEPT !.pc = "lock", !.events = b, !.last = last]
    <3>2. q.pc = "lock"
      BY <1>2 DEF Request
    <3>3. req' = [req EXCEPT ![Bridge] = q]
      BY <3>1
    <3> HIDE DEF q
    <3> QED BY <1>1, <3>2, <3>3
  <2> QED BY <2>1, <2>2
<1>7. ASSUME NEW r \in Req, DispatchPlanner(r) PROVE NodesInv'
  <2> DEFINE watch == [Idle EXCEPT !.op = "bridge", !.pc = "watch"]
             give_up == [Idle EXCEPT !.op = "give_up", !.pc = "load"]
  <2>1. watch.pc = "watch" /\ give_up.pc = "load"
    BY DEF Idle
  <2>2. \A s \in Thread : req'[s] \in {Idle, watch, give_up, req[s]}
    BY <1>7 DEF DispatchPlanner, TypeOK, Types
  <2> HIDE DEF watch, give_up
  <2>3. \A s \in Thread : NodesOK(req'[s])
    BY <1>2, <2>1, <2>2, NothingHeld DEF NodesInv
  <2> QED BY <2>3 DEF NodesInv, NodesOK, Holds, Seeds
<1>8. CASE Crash
  <2>1. \A s \in Thread : NodesOK(req'[s])
    BY <1>2, <1>8, NothingHeld DEF Crash
  <2> QED BY <2>1 DEF NodesInv, NodesOK, Holds, Seeds
<1>9. CASE UNCHANGED vars
  BY <1>9 DEF vars, NodesInv, NodesOK, Holds, Seeds
<1> QED BY <1>3, <1>5, <1>6, <1>7, <1>8, <1>9, TransactionCount DEF Next, Goes, BridgeGoes

(* What a commit that changes the nodes was. *)
LEMMA NodesChange ==
  ASSUME TypeOK, RowInv, NodesInv, NEW r \in Thread, Commit(r), session'.nodes # session.nodes
  PROVE  \/ session'.revision > session.revision
         \/ Seeds(req[r]) /\ session'.nodes = req[r].nodes
         \/ Overwrites(r)
<1> DEFINE q == req[r]
<1>1. /\ RowOK(r, q) /\ NodesOK(q) /\ q.pc = "commit" /\ session' = Written(q)
  BY DEF RowInv, NodesInv, Commit, database
<1>2. /\ q.copy.nodes # q.seen.nodes /\ session'.nodes = q.copy.nodes
      /\ session'.revision = IF q.copy.revision = q.seen.revision THEN session.revision
                             ELSE q.copy.revision
  BY <1>1 DEF Written
<1>3. CASE q.op = "ensure"
  BY <1>1, <1>2, <1>3 DEF NodesOK
<1>4. CASE q.op # "ensure"
  <2>1. Holds(q) /\ Evolves(q.seen, q.copy) /\ (RowLock => q.seen = session)
    BY <1>1, <1>2, <1>4 DEF RowOK, Holds
  <2>2. /\ q.copy.revision > q.seen.revision
        /\ q.seen.revision \in Nat /\ q.copy.revision \in Nat
    BY <1>1, <1>2, <2>1 DEF NodesOK, TypeOK, Types, Session, Request
  <2>3. CASE q.seen = session
    BY <1>2, <2>2, <2>3
  <2>4. CASE q.seen # session
    <3>1. q.seen.status = "planning"
      BY <2>1, <2>2 DEF Evolves
    <3>2. q.op \notin {"ensure", "instruct"}
      BY <1>4, <2>1 DEF Holds
    <3> QED BY <1>1, <2>1, <2>4, <3>1, <3>2 DEF Overwrites
  <2> QED BY <2>3, <2>4
<1> QED BY <1>3, <1>4

(* Whether or not the database honours FOR UPDATE: nodes that change get a  *)
(* revision of their own, whoever upserts, deletes, completes or feeds      *)
(* them, except for the canvas of a generate that read the session before   *)
(* its first one, and for lost updates.                                     *)
THEOREM RevisionCounts == Spec => RevisionNamesNodes
<1> DEFINE A == session'.nodes # session.nodes =>
                  \/ session'.revision > session.revision
                  \/ \E r \in Thread : \/ Seeds(req[r]) /\ session'.nodes = req[r].nodes
                                       \/ Overwrites(r)
<1>1. Init => RowInv /\ NodesInv
  <2>1. NoSession.status = "none" /\ NoSession.revision = 0
    BY DEF NoSession
  <2>2. Idle.op = "none" /\ Idle.pc = "idle"
    BY DEF Idle
  <2> QED BY <2>1, <2>2, NothingHeld DEF Init, RowInv, RowOK, Holds, NodesInv
<1>2. TypeOK /\ RowInv /\ [Next]_vars => RowInv'
  BY RowStep
<1>3. TypeOK /\ RowInv /\ NodesInv /\ [Next]_vars => [A]_session
  <2> SUFFICES ASSUME TypeOK, RowInv, NodesInv, [Next]_vars, session' # session PROVE A
    OBVIOUS
  <2>1. PICK r \in Thread : Commit(r)
    <3>1. ASSUME NEW r \in Thread, Transaction(r) PROVE Commit(r)
      BY <3>1 DEF Transaction, Load, LoadForEvents, LoadForNodes, LoadForComplete, LoadForEnd,
         LoadForEnsure, LoadForInstruction, Loading, Immutable, ReadSeq, Apply, BatchApplied,
         database
    <3>2. ASSUME NEW r \in Req PROVE ~Arrival(r)
      BY ArrivalShape DEF Arrived, database
    <3>3. ASSUME NEW r \in Req PROVE ~(EnterCallback(r) \/ DispatchPlanner(r))
      BY DEF EnterCallback, DispatchPlanner, database
    <3>4. ~(EnterBridge \/ BridgeReads \/ Crash \/ UNCHANGED vars)
      BY DEF EnterBridge, BridgeReads, Crash, database, vars
    <3> QED BY <3>1, <3>2, <3>3, <3>4, ThreadFacts DEF Next, Goes, BridgeGoes
  <2> QED BY <2>1, NodesChange
<1> QED BY <1>1, <1>2, <1>3, CountStep, TypeCorrect, PTL DEF Spec, RevisionNamesNodes
=============================================================================
