--------------------------- MODULE BoardPageProofs ---------------------------
(* Proofs about the board page, for any finite set of tasks and any number *)
(* of writes, events, loads, commands and faults.                          *)
EXTENDS BoardPage, FiniteSetTheorems, TLAPS

Load == [by : Owner, rows : Rows, over : SUBSET Task]
Sent == [kind : Kind, of : Flows, rows : Nat, state : {"sent", "running", "refused"},
         todo : SUBSET Task, new : SUBSET Task]

Typed ==
  /\ board \in Rows /\ rows \in Rows /\ fresh \subseteq Task
  /\ due \subseteq Writing
  /\ feed \in [state : Link, inbox : Seq(BoardUpdate)]
  /\ read \in Seq(Load) /\ torn \subseteq Task
  /\ detail \in Detail \cup {NoDetail}
  /\ sent \subseteq Sent
  /\ \A c \in sent : c.kind \in OnTask => c.of \in Task

(* A write under way that will tell the page the row the board has then.   *)
Good(d) == IF d.read THEN d.row = board[d.task] ELSE board[d.task].status # "absent"
Pending(t) == \E d \in due : d.task = t /\ Good(d)

(* The last event about a task tells its row or is late; and where no      *)
(* event about it is on its way, the row the page shows is the board's,    *)
(* and so is that of a load, but for the tasks set apart.                  *)
Silent(inbox, t) == \A i \in 1 .. Len(inbox) : inbox[i].task # t
LastTells(inbox, t, now) ==
  \A i \in 1 .. Len(inbox) :
    inbox[i].task = t /\ (\A j \in i + 1 .. Len(inbox) : inbox[j].task # t)
      => inbox[i].late \/ inbox[i].row = now
Told(t) ==
  /\ LastTells(feed.inbox, t, board[t])
  /\ Silent(feed.inbox, t) =>
       /\ t \notin torn => rows[t] = board[t]
       /\ \A i \in 1 .. Len(read) : t \notin read[i].over => read[i].rows[t] = board[t]

FeedFollows ==
  /\ feed.state # "open" => feed.inbox = << >>
  /\ \A t \in Task : Pending(t) \/ Told(t)

PanelFollows ==
  /\ DetailFollows /\ OwnOutput
  /\ outputs \subseteq [task : Task, live : BOOLEAN]
  /\ \A o \in outputs : o.live => o.task = detail.task

BoardInv == Typed /\ FeedFollows /\ PanelFollows

-----------------------------------------------------------------------------
(* Rows and queues of events.                                              *)

LEMMA RowFacts ==
  /\ NoRow \in Row /\ \A r \in Live : r \in Row /\ r.status \in Status /\ r.status # "absent"
  /\ \A r \in Row : r.status # "absent" <=> r \in Live
  /\ \A r \in Row : r.status = "absent" <=> r = NoRow
  /\ \A r \in Live, s \in Status : [r EXCEPT !.status = s] \in Live
  BY DEF Row, Live, NoRow, Status

LEMMA MadeRows ==
  ASSUME NEW t \in Task, NEW s \in Status, NEW x \in Flows
  PROVE  FlowRow(t, x, s) \in Live /\ QuickRow(t, s) \in Live
  BY DEF FlowRow, QuickRow, Live, Session, Flows

LEMMA AppendTells ==
  ASSUME NEW inbox \in Seq(BoardUpdate), NEW e \in BoardUpdate, NEW t \in Task, NEW now
  PROVE  /\ Append(inbox, e) \in Seq(BoardUpdate)
         /\ Silent(Append(inbox, e), t) <=> Silent(inbox, t) /\ e.task # t
         /\ e.task # t /\ LastTells(inbox, t, now) => LastTells(Append(inbox, e), t, now)
         /\ e.task = t /\ (e.late \/ e.row = now) => LastTells(Append(inbox, e), t, now)
<1> DEFINE s == Append(inbox, e)
           n == Len(inbox)
<1>1. /\ s \in Seq(BoardUpdate) /\ n \in Nat /\ Len(s) = n + 1
      /\ s[n + 1] = e /\ \A i \in 1 .. n : s[i] = inbox[i]
  OBVIOUS
<1> HIDE DEF s, n
<1>2. Silent(s, t) <=> Silent(inbox, t) /\ e.task # t
  <2>1. \A i \in 1 .. Len(s) : i \in 1 .. n \/ i = n + 1
    BY <1>1
  <2>2. n + 1 \in 1 .. Len(s) /\ 1 .. n \subseteq 1 .. Len(s)
    BY <1>1
  <2> QED
    BY <1>1, <2>1, <2>2 DEF Silent, n
<1>3. ASSUME e.task # t, LastTells(inbox, t, now) PROVE LastTells(s, t, now)
  <2> SUFFICES ASSUME NEW i \in 1 .. Len(s), s[i].task = t,
                      \A j \in i + 1 .. Len(s) : s[j].task # t
               PROVE  s[i].late \/ s[i].row = now
    BY DEF LastTells
  <2>1. i \in 1 .. n
    BY <1>1, <1>3
  <2>2. \A j \in i + 1 .. n : inbox[j].task # t
    BY <1>1, <2>1
  <2> QED
    BY <1>1, <1>3, <2>1, <2>2 DEF LastTells, n
<1>4. ASSUME e.task = t, e.late \/ e.row = now PROVE LastTells(s, t, now)
  <2> SUFFICES ASSUME NEW i \in 1 .. Len(s), s[i].task = t,
                      \A j \in i + 1 .. Len(s) : s[j].task # t
               PROVE  s[i].late \/ s[i].row = now
    BY DEF LastTells
  <2>1. i = n + 1
    <3> SUFFICES ASSUME i # n + 1 PROVE FALSE
      OBVIOUS
    <3>1. n + 1 \in i + 1 .. Len(s)
      BY <1>1
    <3> QED
      BY <1>1, <1>4, <3>1
  <2> QED
    BY <1>1, <1>4, <2>1
<1> QED
  BY <1>1, <1>2, <1>3, <1>4 DEF s

LEMMA TailTells ==
  ASSUME NEW inbox \in Seq(BoardUpdate), inbox # << >>, NEW t \in Task, NEW now,
         LastTells(inbox, t, now)
  PROVE  /\ Tail(inbox) \in Seq(BoardUpdate) /\ Head(inbox) \in BoardUpdate
         /\ LastTells(Tail(inbox), t, now)
         /\ Silent(Tail(inbox), t) /\ Head(inbox).task # t => Silent(inbox, t)
         /\ Silent(Tail(inbox), t) /\ Head(inbox).task = t =>
              Head(inbox).late \/ Head(inbox).row = now
<1> DEFINE s == Tail(inbox)
           n == Len(inbox)
<1>1. /\ n \in Nat \ {0} /\ s \in Seq(BoardUpdate) /\ Len(s) = n - 1 /\ Head(inbox) = inbox[1]
      /\ \A i \in 1 .. n - 1 : s[i] = inbox[i + 1]
      /\ inbox[1] \in BoardUpdate
  OBVIOUS
<1> HIDE DEF s, n
<1>2. ASSUME NEW j \in 2 .. n PROVE j - 1 \in 1 .. Len(s) /\ s[j - 1] = inbox[j]
  BY <1>1
<1>3. LastTells(s, t, now)
  <2> SUFFICES ASSUME NEW i \in 1 .. Len(s), s[i].task = t,
                      \A j \in i + 1 .. Len(s) : s[j].task # t
               PROVE  s[i].late \/ s[i].row = now
    BY DEF LastTells
  <2>1. i + 1 \in 1 .. n /\ s[i] = inbox[i + 1]
    BY <1>1
  <2>2. \A j \in i + 2 .. n : inbox[j].task # t
    <3> TAKE j \in i + 2 .. n
    <3>1. j \in 2 .. n /\ j - 1 \in i + 1 .. Len(s)
      BY <1>1
    <3> QED
      BY <1>2, <3>1
  <2> QED
    BY <2>1, <2>2 DEF LastTells, n
<1>4. ASSUME Silent(s, t) PROVE \A j \in 2 .. n : inbox[j].task # t
  BY <1>2, <1>4 DEF Silent
<1>5. Silent(s, t) /\ inbox[1].task # t => Silent(inbox, t)
  BY <1>1, <1>4 DEF Silent, n
<1>6. Silent(s, t) /\ inbox[1].task = t => inbox[1].late \/ inbox[1].row = now
  BY <1>1, <1>4 DEF LastTells, n
<1> QED
  BY <1>1, <1>3, <1>5, <1>6 DEF s

-----------------------------------------------------------------------------
(* Writes, and how they become events.                                     *)

(* What is told of a task, and what is pending, only depends on its own    *)
(* row, events, writes and marks.                                          *)
LEMMA StaysTold ==
  ASSUME NEW t \in Task, UNCHANGED <<feed, rows, torn, read>>, board'[t] = board[t], Told(t)
  PROVE  Told(t)'
  BY DEF Told

LEMMA StaysPending ==
  ASSUME NEW t \in Task, board'[t] = board[t], Pending(t), \A d \in due : d.task = t /\ Good(d) => d \in due'
  PROVE  Pending(t)'
<1>1. PICK d \in due : d.task = t /\ Good(d)
  BY DEF Pending
<1>2. d \in due' /\ Good(d)'
  BY <1>1 DEF Good
<1> QED
  BY <1>1, <1>2 DEF Pending

LEMMA CommitKeeps ==
  ASSUME Typed, FeedFollows, NEW by \in Writer, NEW t \in Task, NEW r \in Row, Commit(by, t, r),
         UNCHANGED <<feed, rows, torn, read>>
  PROVE  board' \in Rows /\ due' \subseteq Writing /\ FeedFollows'
<1> DEFINE d == [by |-> by, task |-> t, row |-> r, read |-> r = NoRow]
<1>1. board' = [board EXCEPT ![t] = r] /\ due' = due \cup {d}
  BY DEF Commit
<1>2. d \in Writing /\ d.task = t /\ d.row = r /\ (d.read <=> r = NoRow)
  BY DEF Writing
<1> HIDE DEF d
<1>3. board' \in Rows /\ board'[t] = r /\ \A u \in Task \ {t} : board'[u] = board[u]
  BY <1>1 DEF Typed, Rows
<1>4. Pending(t)'
  <2>1. Good(d)'
    BY <1>2, <1>3, RowFacts DEF Good
  <2> QED
    BY <1>1, <1>2, <2>1 DEF Pending
<1>5. ASSUME NEW u \in Task \ {t} PROVE Pending(u)' \/ Told(u)'
  <2>1. CASE Pending(u)
    BY <1>1, <1>3, <2>1, StaysPending
  <2>2. CASE Told(u)
    BY <1>3, <2>2, StaysTold
  <2> QED
    BY <2>1, <2>2 DEF FeedFollows
<1>6. FeedFollows'
  BY <1>4, <1>5 DEF FeedFollows
<1> QED
  BY <1>1, <1>2, <1>3, <1>6 DEF Typed

(* Reading a row back leaves every good write good.                        *)
LEMMA RefreshKeeps ==
  ASSUME Typed, FeedFollows, NEW d, Refresh(d)
  PROVE  due' \subseteq Writing /\ FeedFollows'
<1>1. /\ d \in due /\ ~d.read /\ UNCHANGED <<board, feed, rows, torn, read>>
  BY DEF Refresh, list
<1>2. d \in Writing /\ d.task \in Task
  BY <1>1 DEF Typed, Writing
<1>3. CASE board[d.task].status # "absent"
  <2> DEFINE e == [d EXCEPT !.row = board[d.task], !.read = TRUE]
  <2>1. due' = (due \ {d}) \cup {e}
    BY <1>3 DEF Refresh
  <2>2. e \in Writing /\ e.task = d.task /\ e.read /\ e.row = board[d.task]
    BY <1>2 DEF Writing, Typed, Rows
  <2> HIDE DEF e
  <2>3. Pending(d.task)'
    BY <1>1, <2>1, <2>2 DEF Pending, Good
  <2>4. ASSUME NEW u \in Task, u # d.task PROVE Pending(u)' \/ Told(u)'
    <3>1. CASE Pending(u)
      BY <1>1, <2>1, <2>4, <3>1, StaysPending
    <3>2. CASE Told(u)
      BY <1>1, <3>2, StaysTold
    <3> QED
      BY <3>1, <3>2 DEF FeedFollows
  <2> QED
    BY <1>1, <2>1, <2>2, <2>3, <2>4 DEF FeedFollows, Typed
<1>4. CASE ~(board[d.task].status # "absent")
  <2>1. due' = due \ {d} /\ ~Good(d)
    BY <1>1, <1>4 DEF Refresh, Good
  <2>2. ASSUME NEW u \in Task PROVE Pending(u)' \/ Told(u)'
    <3>1. CASE Pending(u)
      BY <1>1, <2>1, <3>1, StaysPending
    <3>2. CASE Told(u)
      BY <1>1, <3>2, StaysTold
    <3> QED
      BY <3>1, <3>2 DEF FeedFollows
  <2> QED
    BY <1>1, <2>1, <2>2 DEF FeedFollows, Typed
<1> QED
  BY <1>3, <1>4

(* Marks added to a load keep it a load.                                   *)
Marked(loads, marks) == [i \in DOMAIN loads |-> [loads[i] EXCEPT !.over = marks[i]]]

LEMMA MarkedLoads ==
  ASSUME NEW loads \in Seq(Load), NEW marks \in [1 .. Len(loads) -> SUBSET Task]
  PROVE  /\ Marked(loads, marks) \in Seq(Load) /\ Len(Marked(loads, marks)) = Len(loads)
         /\ \A i \in 1 .. Len(loads) : /\ Marked(loads, marks)[i].over = marks[i]
                                       /\ Marked(loads, marks)[i].rows = loads[i].rows
<1> DEFINE marked == Marked(loads, marks)
<1>1. Len(loads) \in Nat /\ DOMAIN loads = 1 .. Len(loads) /\ \A i \in 1 .. Len(loads) : loads[i] \in Load
  OBVIOUS
<1>2. \A i \in 1 .. Len(loads) :
        /\ [loads[i] EXCEPT !.over = marks[i]] \in Load
        /\ [loads[i] EXCEPT !.over = marks[i]].over = marks[i]
        /\ [loads[i] EXCEPT !.over = marks[i]].rows = loads[i].rows
  BY <1>1 DEF Load
<1>3. marked \in [1 .. Len(loads) -> Load] /\ \A i \in 1 .. Len(loads) : marked[i] = [loads[i] EXCEPT !.over = marks[i]]
  BY <1>1, <1>2 DEF Marked
<1> HIDE DEF marked
<1>4. marked \in Seq(Load) /\ Len(marked) = Len(loads)
  BY <1>1, <1>3
<1>5. \A i \in 1 .. Len(loads) : marked[i].over = marks[i] /\ marked[i].rows = loads[i].rows
  BY <1>2, <1>3
<1> QED
  BY <1>4, <1>5 DEF marked

LEMMA PublishKeeps ==
  ASSUME Typed, FeedFollows, NEW d, Publish(d)
  PROVE  /\ due' \subseteq Writing /\ feed' \in [state : Link, inbox : Seq(BoardUpdate)]
         /\ read' \in Seq(Load) /\ torn' \subseteq Task
         /\ FeedFollows'
<1>1. /\ d \in due /\ d.read /\ due' = due \ {d} /\ UNCHANGED <<board, rows>>
  BY DEF Publish
<1>2. d \in Writing /\ d.task \in Task /\ d.row \in Row
  BY <1>1 DEF Typed, Writing
<1> DEFINE t == d.task
           e == [task |-> t, row |-> d.row, late |-> d.row # board[t]]
<1>3. e \in BoardUpdate /\ e.task = t /\ (e.late \/ e.row = board[t]) /\ (e.late <=> ~Good(d))
  BY <1>1, <1>2 DEF BoardUpdate, Good
<1>4. ASSUME NEW u \in Task, Pending(u), u = t => ~Good(d) PROVE Pending(u)'
  BY <1>1, <1>4, StaysPending
<1>5. CASE feed.state = "open"
  <2>1. feed' = [feed EXCEPT !.inbox = Append(feed.inbox, e)] /\ UNCHANGED <<torn, read>>
    BY <1>5 DEF Publish
  <2> HIDE DEF e, t
  <2>2. feed'.state = "open" /\ feed'.inbox = Append(feed.inbox, e) /\ feed.inbox \in Seq(BoardUpdate)
    BY <1>5, <2>1 DEF Typed
  <2>3. ASSUME NEW u \in Task
        PROVE  /\ Append(feed.inbox, e) \in Seq(BoardUpdate)
               /\ Silent(Append(feed.inbox, e), u) <=> Silent(feed.inbox, u) /\ t # u
               /\ t # u /\ LastTells(feed.inbox, u, board[u]) => LastTells(Append(feed.inbox, e), u, board[u])
               /\ t = u => LastTells(Append(feed.inbox, e), u, board[u])
    BY <1>3, <2>2, AppendTells
  <2>4. feed' \in [state : Link, inbox : Seq(BoardUpdate)]
    BY <1>2, <2>1, <2>2, <2>3 DEF Typed, t
  <2>5. ASSUME NEW u \in Task PROVE Pending(u)' \/ Told(u)'
    <3>1. CASE t = u
      BY <1>1, <2>1, <2>2, <2>3, <3>1 DEF Told
    <3>2. CASE t # u /\ Told(u)
      BY <1>1, <2>1, <2>2, <2>3, <3>2 DEF Told
    <3>3. CASE t # u /\ Pending(u)
      BY <1>4, <3>3
    <3> QED
      BY <3>1, <3>2, <3>3 DEF FeedFollows
  <2> QED
    BY <1>1, <2>1, <2>2, <2>4, <2>5 DEF FeedFollows, Typed
<1>6. CASE feed.state # "open"
  <2> DEFINE marks == [i \in 1 .. Len(read) |-> read[i].over \cup Unheard(read[i].rows, t, d.row)]
  <2>1. /\ UNCHANGED feed /\ feed.inbox = << >>
        /\ torn' = torn \cup Unheard(rows, t, d.row)
        /\ read' = [i \in DOMAIN read |-> [read[i] EXCEPT !.over = @ \cup Unheard(read[i].rows, t, d.row)]]
    BY <1>6 DEF Publish, FeedFollows
  <2>2. read \in Seq(Load) /\ \A i \in 1 .. Len(read) : read[i] \in Load
    BY DEF Typed
  <2>3. \A shown : Unheard(shown, t, d.row) \in SUBSET Task /\ (shown[t] # d.row <=> t \in Unheard(shown, t, d.row))
                   /\ \A u \in Task \ {t} : u \notin Unheard(shown, t, d.row)
    BY <1>2 DEF Unheard
  <2>4. marks \in [1 .. Len(read) -> SUBSET Task]
    BY <2>2, <2>3 DEF Load
  <2>12. t \in Task /\ DOMAIN read = 1 .. Len(read)
    BY <1>2, <2>2
  <2>6. \A i \in 1 .. Len(read) : marks[i] = read[i].over \cup Unheard(read[i].rows, t, d.row)
    OBVIOUS
  <2>5. read' = Marked(read, marks)
    BY <2>1, <2>12 DEF Marked
  <2> HIDE DEF marks, t, e
  <2>7. /\ read' \in Seq(Load) /\ Len(read') = Len(read)
        /\ \A i \in 1 .. Len(read) : read'[i].over = marks[i] /\ read'[i].rows = read[i].rows
    BY <2>2, <2>4, <2>5, MarkedLoads
  <2>8. torn' \subseteq Task
    BY <2>1, <2>3 DEF Typed
  <2>9. ASSUME NEW u \in Task, u # t \/ ~Good(d), Told(u) PROVE Told(u)'
    BY <1>1, <2>1, <2>6, <2>7, <2>9 DEF Told
  <2>10. Good(d) => Told(t)'
    <3> SUFFICES ASSUME Good(d) PROVE Told(t)'
      OBVIOUS
    <3>1. d.row = board[t]
      BY <1>1 DEF Good, t
    <3>2. LastTells(feed'.inbox, t, board'[t])
      BY <2>1 DEF LastTells
    <3>3. t \notin torn' => rows'[t] = board'[t]
      BY <1>1, <2>1, <2>3, <3>1
    <3>4. ASSUME NEW i \in 1 .. Len(read') PROVE t \notin read'[i].over => read'[i].rows[t] = board'[t]
      BY <1>1, <2>3, <2>6, <2>7, <3>1, <3>4
    <3> QED
      BY <3>2, <3>3, <3>4 DEF Told
  <2>11. ASSUME NEW u \in Task PROVE Pending(u)' \/ Told(u)'
    BY <1>4, <2>9, <2>10 DEF FeedFollows
  <2> QED
    BY <1>1, <2>1, <2>7, <2>8, <2>11 DEF FeedFollows, Typed
<1> QED
  BY <1>5, <1>6

LEMMA InitInv == Init => BoardInv
<1> SUFFICES ASSUME Init PROVE BoardInv
  OBVIOUS
<1> USE DEF Init
<1>1. board \in Rows
  <2>1. PICK s \in [Start -> Status], quick \in SUBSET Start :
          board = [t \in Task |-> CASE t \notin Start -> NoRow
                                     [] t \in quick  -> QuickRow(t, s[t])
                                     [] OTHER        -> FlowRow(t, Flow, s[t])]
    OBVIOUS
  <2>2. ASSUME NEW t \in Task PROVE board[t] \in Row
    BY <2>1, <2>2, BoardAssumption, RowFacts, MadeRows DEF Flows
  <2> QED
    BY <2>1, <2>2 DEF Rows
<1>2. rows \in Rows
  BY RowFacts DEF Rows
<1>3. Typed
  BY <1>1, <1>2, BoardAssumption DEF Typed, Link
<1>4. \A t \in Task \ Start : board[t] = NoRow
  OBVIOUS
<1>5. FeedFollows
  BY <1>4 DEF FeedFollows, Told, LastTells
<1>6. PanelFollows
  BY DEF PanelFollows, DetailFollows, OwnOutput, NoDetail
<1> QED
  BY <1>3, <1>5, <1>6 DEF BoardInv

-----------------------------------------------------------------------------
(* The panel.                                                              *)

LEMMA SelectKeeps ==
  ASSUME PanelFollows, NEW d \in Detail \cup {NoDetail}, d.task \in {detail.task, None}, Select(d),
         d.task # None /\ rows'[d.task].status # "absent" => d.row = rows'[d.task]
  PROVE  detail' = d /\ PanelFollows'
<1>1. /\ detail' = d
      /\ outputs' = Cancelled \cup (IF Wants(d) THEN {AskOutput(d.task)} ELSE {})
      /\ preview' = IF Wants(d) THEN preview ELSE None
  BY DEF Select, PreviewEffect
<1>2. DetailFollows'
  BY <1>1 DEF DetailFollows
<1>3. OwnOutput'
  BY <1>1 DEF OwnOutput, PanelFollows, Wants
<1>4. \A o \in Cancelled : o \in [task : Task, live : BOOLEAN] /\ ~o.live
  BY DEF Cancelled, PanelFollows
<1>5. Wants(d) => AskOutput(d.task) \in [task : Task, live : BOOLEAN] /\ AskOutput(d.task).task = d.task
  BY DEF Wants, AskOutput, Detail, NoDetail
<1>6. /\ outputs' \subseteq [task : Task, live : BOOLEAN]
      /\ \A o \in outputs' : o.live => o.task = detail'.task
  BY <1>1, <1>4, <1>5
<1> QED
  BY <1>1, <1>2, <1>3, <1>6 DEF PanelFollows

LEMMA FollowKeeps ==
  ASSUME Typed, PanelFollows, rows' \in Rows, Follow(rows')
  PROVE  detail' \in Detail \cup {NoDetail} /\ PanelFollows'
<1>1. CASE detail.task # None /\ rows'[detail.task].status # "absent"
  <2> DEFINE d == [task |-> detail.task, row |-> rows'[detail.task]]
  <2>1. detail.task \in Task
    BY <1>1 DEF Typed, Detail, NoDetail
  <2>2. d \in Detail /\ d.task = detail.task /\ d.row = rows'[d.task]
    BY <1>1, <2>1, RowFacts DEF Detail, Rows
  <2>3. Select(d)
    BY <1>1 DEF Follow
  <2> HIDE DEF d
  <2> QED
    BY <2>2, <2>3, SelectKeeps
<1>2. CASE ~(detail.task # None /\ rows'[detail.task].status # "absent")
  <2>1. UNCHANGED <<detail, preview, outputs>>
    BY <1>2 DEF Follow, panel
  <2> QED
    BY <1>2, <2>1 DEF Typed, PanelFollows, DetailFollows, OwnOutput
<1> QED
  BY <1>1, <1>2

LEMMA ClosingKeeps ==
  ASSUME PanelFollows, Select(NoDetail)
  PROVE  detail' \in Detail \cup {NoDetail} /\ PanelFollows'
  BY SelectKeeps DEF NoDetail

(* Nothing that the panel is judged by changes.                            *)
LEMMA PanelStays ==
  ASSUME PanelFollows, UNCHANGED <<rows, detail, preview, outputs>>
  PROVE  PanelFollows'
  BY DEF PanelFollows, DetailFollows, OwnOutput

LEMMA FeedStays ==
  ASSUME FeedFollows, UNCHANGED <<board, due, feed, rows, read, torn>>
  PROVE  FeedFollows'
  BY DEF FeedFollows, Pending, Good, Told

-----------------------------------------------------------------------------
(* The steps.                                                              *)

LEMMA SessionStep ==
  ASSUME BoardInv, Panel \/ \E t \in Task : Speak(t)
  PROVE  BoardInv'
<1> USE DEF BoardInv
<1>1. UNCHANGED <<board, fresh, due, list, feed, detail, sent>>
  BY DEF Panel, Speak, ReadHistory, HistoryAnswered, HistoryFails, Poll, SessionEvent, StreamOpens,
         StreamReconnects, StreamBreaks, OutputAnswered, server
<1>2. Typed' /\ FeedFollows'
  BY <1>1, FeedStays DEF Typed, list
<1>3. CASE UNCHANGED <<preview, outputs>>
  BY <1>1, <1>2, <1>3, PanelStays DEF list
<1>4. CASE ~UNCHANGED <<preview, outputs>>
  <2>1. PICK o \in outputs, ok \in BOOLEAN : OutputAnswered(o, ok)
    BY <1>4 DEF Panel, Speak, ReadHistory, HistoryAnswered, HistoryFails, Poll, SessionEvent, StreamOpens,
                StreamReconnects, StreamBreaks
  <2>2. outputs' = outputs \ {o} /\ preview' \in {preview, None} \cup (IF o.live THEN {o.task} ELSE {})
    BY <2>1 DEF OutputAnswered, Accepts
  <2>3. PanelFollows'
    BY <1>1, <2>2 DEF PanelFollows, DetailFollows, OwnOutput, list
  <2> QED
    BY <1>2, <2>3
<1> QED
  BY <1>3, <1>4

(* What an answer makes of a command keeps its kind and what it is about.  *)
LEMMA AnsweredTyped ==
  ASSUME Typed, NEW c \in sent, NEW d \in Sent, d.kind = c.kind, d.of = c.of, Answered(c, d)
  PROVE  sent' \subseteq Sent /\ \A x \in sent' : x.kind \in OnTask => x.of \in Task
<1>1. \A x \in sent' : x \in sent \/ x = d
  BY DEF Answered
<1> QED
  BY <1>1 DEF Typed

LEMMA WriteStep ==
  ASSUME BoardInv, NEW by \in Writer, NEW t \in Task, NEW r \in Row, Commit(by, t, r),
         UNCHANGED <<list, panel, feed, fresh>>,
         sent' \subseteq Sent, \A c \in sent' : c.kind \in OnTask => c.of \in Task
  PROVE  BoardInv'
<1> USE DEF BoardInv
<1>1. UNCHANGED <<feed, rows, torn, read, detail, preview, outputs, fresh>>
  BY DEF list, panel
<1>2. board' \in Rows /\ due' \subseteq Writing /\ FeedFollows'
  BY <1>1, CommitKeeps
<1>3. Typed'
  BY <1>1, <1>2 DEF Typed
<1> QED
  BY <1>1, <1>2, <1>3, PanelStays

LEMMA AgentStep ==
  ASSUME BoardInv, NEW t \in Task, Claim(t) \/ End(t) \/ Touch(t)
  PROVE  BoardInv'
<1>1. PICK by \in {"claim", "end", "touch"} \X Task, r \in {[board[t] EXCEPT !.status = "running"],
                                              [board[t] EXCEPT !.status = "ended"], board[t]} :
        Commit(by, t, r)
  BY DEF Claim, End, Touch, Writes
<1>2. board[t].status # "absent" /\ UNCHANGED <<fresh, list, panel, feed, sent>>
  BY DEF Claim, End, Touch
<1>3. board[t] \in Live /\ "running" \in Status /\ "ended" \in Status
  BY <1>2, RowFacts DEF BoardInv, Typed, Rows, Status
<1>4. r \in Row /\ by \in Writer
  BY <1>1, <1>3, RowFacts DEF Writer
<1>5. sent' \subseteq Sent /\ \A c \in sent' : c.kind \in OnTask => c.of \in Task
  BY <1>2 DEF BoardInv, Typed
<1> QED
  BY <1>1, <1>2, <1>4, <1>5, WriteStep

LEMMA HandlerStep ==
  ASSUME BoardInv, NEW c \in sent, NEW t \in Task, HandleRow(c, t) \/ MakeRow(c, t)
  PROVE  BoardInv'
<1> USE DEF BoardInv
<1>1. c \in Sent /\ c.kind \in Kind /\ c.of \in Flows /\ Named(c) \in Writer
  BY DEF Typed, Sent, Named, Writer
<1>2. UNCHANGED <<list, panel, feed, fresh>>
  BY DEF HandleRow, MakeRow
<1>3. PICK d \in {[c EXCEPT !.todo = @ \ {t}], [c EXCEPT !.new = @ \ {t}]} : Answered(c, d)
  BY DEF HandleRow, MakeRow
<1>4. d \in Sent /\ d.kind = c.kind /\ d.of = c.of
  BY <1>1, <1>3 DEF Sent
<1>5. sent' \subseteq Sent /\ \A x \in sent' : x.kind \in OnTask => x.of \in Task
  BY <1>3, <1>4, AnsweredTyped
<1>6. ASSUME HandleRow(c, t), UNCHANGED <<board, due>> PROVE BoardInv'
  <2>1. UNCHANGED <<rows, read, torn, detail, preview, outputs>>
    BY <1>2 DEF list, panel
  <2> QED
    BY <1>2, <1>5, <1>6, <2>1, FeedStays, PanelStays DEF Typed
<1>7. ASSUME HandleRow(c, t), Commit(Named(c), t, Written(c, t)) PROVE BoardInv'
  <2>1. board[t].status # "absent" \/ c.kind \in {"delete", "runFlow"}
    BY <1>7 DEF HandleRow
  <2>2. board[t] \in Row /\ (board[t].status # "absent" => board[t] \in Live)
    BY RowFacts DEF Typed, Rows
  <2>3. {"queued", "blocked"} \subseteq Status
    BY DEF Status
  <2>4. Written(c, t) \in Row
    <3>1. CASE c.kind \in {"delete", "runFlow"}
      BY <3>1, RowFacts DEF Written
    <3>2. CASE c.kind \notin {"delete", "runFlow"}
      <4>1. Written(c, t) \in {[board[t] EXCEPT !.status = "blocked"], [board[t] EXCEPT !.status = "queued"], board[t]}
        BY <3>2 DEF Written
      <4> QED
        BY <2>1, <2>2, <2>3, <3>2, <4>1, RowFacts
    <3> QED
      BY <3>1, <3>2
  <2> QED
    BY <1>1, <1>2, <1>5, <1>7, <2>4, WriteStep
<1>8. ASSUME MakeRow(c, t) PROVE BoardInv'
  <2>1. Created(c, t) \in Row
    BY <1>1, MadeRows, RowFacts DEF Created, Status
  <2>2. Commit(Named(c), t, Created(c, t))
    BY <1>8 DEF MakeRow
  <2> QED
    BY <1>1, <1>2, <1>5, <2>1, <2>2, WriteStep
<1> QED
  BY <1>6, <1>7, <1>8 DEF HandleRow

LEMMA PublisherStep ==
  ASSUME BoardInv, NEW d \in due, Refresh(d) \/ Publish(d)
  PROVE  BoardInv'
<1> USE DEF BoardInv
<1>1. UNCHANGED <<board, rows, fresh, panel>>
  BY DEF Refresh, Publish, list
<1>2. PanelFollows'
  BY <1>1, PanelStays DEF panel
<1>3. sent' \subseteq Sent /\ \A c \in sent' : c.kind \in OnTask => c.of \in Task
  <2>1. \A c \in sent' : \E e \in sent : c = e \/ c = [e EXCEPT !.state = "refused"]
    BY DEF Refresh, Publish
  <2>2. \A e \in Sent : /\ [e EXCEPT !.state = "refused"] \in Sent
                        /\ [e EXCEPT !.state = "refused"].kind = e.kind
                        /\ [e EXCEPT !.state = "refused"].of = e.of
    BY DEF Sent
  <2> QED
    BY <2>1, <2>2 DEF Typed
<1>4. CASE Refresh(d)
  <2>1. due' \subseteq Writing /\ FeedFollows'
    BY <1>4, RefreshKeeps
  <2>2. UNCHANGED <<feed, read, torn>>
    BY <1>4 DEF Refresh, list
  <2> QED
    BY <1>1, <1>2, <1>3, <2>1, <2>2 DEF Typed, panel
<1>5. CASE Publish(d)
  <2>1. /\ due' \subseteq Writing /\ feed' \in [state : Link, inbox : Seq(BoardUpdate)]
        /\ read' \in Seq(Load) /\ torn' \subseteq Task /\ FeedFollows'
    BY <1>5, PublishKeeps
  <2> QED
    BY <1>1, <1>2, <1>3, <2>1 DEF Typed, panel
<1> QED
  BY <1>4, <1>5

LEMMA FeedStep ==
  ASSUME BoardInv, FeedBreaks \/ FeedReconnects \/ FeedOpens \/ \E w \in Owner : LoadFails(w) \/ ReadLoad(w)
  PROVE  BoardInv'
<1> USE DEF BoardInv
<1>1. UNCHANGED <<board, due, fresh, rows, detail, preview, outputs, sent>>
  BY DEF FeedBreaks, FeedReconnects, FeedOpens, LoadFails, ReadLoad, server, panel, list
<1>2. PanelFollows'
  BY <1>1, PanelStays
<1>0. \A t \in Task : Pending(t)' <=> Pending(t)
  BY <1>1 DEF Pending, Good
<1>3. CASE FeedBreaks
  <2> DEFINE lost == {feed.inbox[i].task : i \in DOMAIN feed.inbox}
             marks == [i \in 1 .. Len(read) |-> read[i].over \cup lost]
  <2>1. /\ feed' = [state |-> "broken", inbox |-> << >>] /\ torn' = torn \cup lost
        /\ read' = [i \in DOMAIN read |-> [read[i] EXCEPT !.over = @ \cup lost]]
    BY <1>3 DEF FeedBreaks
  <2>2. feed.inbox \in Seq(BoardUpdate) /\ read \in Seq(Load) /\ DOMAIN read = 1 .. Len(read)
    BY DEF Typed
  <2>3. lost \subseteq Task /\ \A t \in Task : t \notin lost => Silent(feed.inbox, t)
    <3>1. \A i \in DOMAIN feed.inbox : feed.inbox[i] \in BoardUpdate
      BY <2>2
    <3>2. DOMAIN feed.inbox = 1 .. Len(feed.inbox)
      BY <2>2
    <3> QED
      BY <3>1, <3>2 DEF BoardUpdate, Silent
  <2>4. \A i \in 1 .. Len(read) : read[i] \in Load
    BY <2>2
  <2>5. marks \in [1 .. Len(read) -> SUBSET Task]
    <3> HIDE DEF lost
    <3> QED
      BY <2>3, <2>4 DEF Load
  <2>6. read' = Marked(read, marks)
    BY <2>1, <2>2 DEF Marked
  <2>7. \A i \in 1 .. Len(read) : marks[i] = read[i].over \cup lost
    OBVIOUS
  <2> HIDE DEF marks, lost
  <2>8. /\ read' \in Seq(Load) /\ Len(read') = Len(read)
        /\ \A i \in 1 .. Len(read) : read'[i].over = marks[i] /\ read'[i].rows = read[i].rows
    BY <2>2, <2>5, <2>6, MarkedLoads
  <2>9. ASSUME NEW t \in Task, Told(t) PROVE Told(t)'
    <3>1. LastTells(feed'.inbox, t, board'[t])
      BY <2>1 DEF LastTells
    <3>2. t \notin torn' => rows'[t] = board'[t]
      BY <1>1, <2>1, <2>3, <2>9 DEF Told
    <3>3. ASSUME NEW i \in 1 .. Len(read') PROVE t \notin read'[i].over => read'[i].rows[t] = board'[t]
      BY <1>1, <2>3, <2>7, <2>8, <2>9, <3>3 DEF Told
    <3> QED
      BY <3>1, <3>2, <3>3 DEF Told
  <2>10. FeedFollows'
    BY <1>0, <2>1, <2>9 DEF FeedFollows
  <2>11. Typed'
    BY <1>1, <2>1, <2>3, <2>8 DEF Typed, Link
  <2> QED
    BY <1>2, <2>10, <2>11
<1>4. CASE FeedReconnects \/ FeedOpens \/ \E w \in Owner : LoadFails(w)
  <2>1. UNCHANGED <<torn, read>>
    BY <1>4 DEF FeedReconnects, FeedOpens, LoadFails, list
  <2>2. /\ feed' \in [state : Link, inbox : Seq(BoardUpdate)] /\ feed'.inbox = feed.inbox
        /\ feed.state # "open" => feed.inbox = << >>
        /\ feed'.state # "open" => feed.state # "open"
    BY <1>4 DEF FeedReconnects, FeedOpens, LoadFails, Typed, FeedFollows, Link
  <2>3. \A t \in Task : Told(t)' <=> Told(t)
    BY <1>1, <2>1, <2>2 DEF Told
  <2>4. FeedFollows'
    BY <1>0, <2>2, <2>3 DEF FeedFollows
  <2> QED
    BY <1>1, <1>2, <2>1, <2>2, <2>4 DEF Typed
<1>5. ASSUME NEW w \in Owner, ReadLoad(w) PROVE Typed' /\ FeedFollows'
  <2> DEFINE l == [by |-> w, rows |-> board, over |-> {}]
  <2>1. UNCHANGED <<feed, torn>> /\ read' = Append(read, l)
    BY <1>5 DEF ReadLoad
  <2>2. l \in Load /\ l.rows = board
    BY DEF Typed, Load
  <2> HIDE DEF l
  <2>4. /\ read' \in Seq(Load) /\ Len(read') = Len(read) + 1 /\ Len(read) \in Nat
        /\ \A i \in 1 .. Len(read) : read'[i] = read[i]
        /\ read'[Len(read) + 1] = l
    BY <2>1, <2>2 DEF Typed
  <2>5. \A i \in 1 .. Len(read') : i \in 1 .. Len(read) \/ i = Len(read) + 1
    BY <2>4
  <2>6. ASSUME NEW t \in Task, Told(t) PROVE Told(t)'
    BY <1>1, <2>1, <2>2, <2>4, <2>5, <2>6 DEF Told
  <2>7. FeedFollows'
    BY <1>0, <2>1, <2>6 DEF FeedFollows
  <2> QED
    BY <1>1, <2>1, <2>4, <2>7 DEF Typed
<1> QED
  BY <1>2, <1>3, <1>4, <1>5

LEMMA LoadAnsweredStep ==
  ASSUME BoardInv, NEW n \in DOMAIN read, LoadAnswered(n)
  PROVE  BoardInv'
<1> USE DEF BoardInv
<1>1. /\ UNCHANGED <<board, due, fresh, feed, sent>> /\ rows' = read[n].rows /\ torn' = read[n].over
      /\ read' = RemoveAt(read, n) /\ Follow(rows')
  BY DEF LoadAnswered, server
<1>2. read \in Seq(Load) /\ n \in 1 .. Len(read) /\ Len(read) \in Nat
  BY DEF Typed
<1>3. \A i \in 1 .. Len(read) : read[i] \in Load
  BY <1>2
<1>4. rows' \in Rows /\ torn' \subseteq Task
  BY <1>1, <1>2, <1>3 DEF Load
<1>7. /\ read' \in Seq(Load)
      /\ \A i \in 1 .. Len(read') : \E j \in 1 .. Len(read) : read'[i] = read[j]
  <2> DEFINE s == SubSeq(read, 1, n - 1)
             u == SubSeq(read, n + 1, Len(read))
  <2>1. read' = s \o u
    BY <1>1 DEF RemoveAt
  <2>2. /\ s \in Seq(Load) /\ Len(s) = n - 1 /\ \A i \in 1 .. n - 1 : s[i] = read[i]
    BY <1>2
  <2>3. /\ u \in Seq(Load) /\ Len(u) = Len(read) - n
        /\ \A i \in 1 .. Len(read) - n : u[i] = read[n + i]
    BY <1>2
  <2> HIDE DEF s, u
  <2>4. /\ read' \in Seq(Load) /\ Len(read') = Len(s) + Len(u)
        /\ \A i \in 1 .. Len(s) : read'[i] = s[i]
        /\ \A i \in Len(s) + 1 .. Len(read') : read'[i] = u[i - Len(s)]
    BY <2>1, <2>2, <2>3
  <2>5. ASSUME NEW i \in 1 .. Len(read') PROVE \E j \in 1 .. Len(read) : read'[i] = read[j]
    <3>1. CASE i \in 1 .. n - 1
      <4>1. i \in 1 .. Len(read) /\ read'[i] = read[i]
        BY <1>2, <2>2, <2>4, <3>1
      <4> QED
        BY <4>1
    <3>2. CASE i \in n .. Len(read')
      <4> DEFINE m == Len(read)
      <4>1. n \in Int /\ m \in Int /\ n <= m /\ Len(read') = m - 1 /\ Len(s) = n - 1
        BY <1>2, <2>2, <2>3, <2>4
      <4>2. \A k \in n .. m - 1 : k - (n - 1) \in 1 .. m - n /\ k + 1 \in 1 .. m /\ n + (k - (n - 1)) = k + 1
        <5> HIDE DEF m
        <5> QED
          BY <1>2, <4>1
      <4>3. /\ i - (n - 1) \in 1 .. m - n /\ i + 1 \in 1 .. m /\ n + (i - (n - 1)) = i + 1
            /\ i \in Len(s) + 1 .. Len(read')
        BY <3>2, <4>1, <4>2
      <4>4. read'[i] = u[i - (n - 1)]
        BY <2>4, <4>1, <4>3
      <4>5. u[i - (n - 1)] = read[n + (i - (n - 1))]
        BY <2>3, <4>3
      <4> QED
        BY <4>3, <4>4, <4>5
    <3> QED
      BY <1>2, <3>1, <3>2
  <2> QED
    BY <2>4, <2>5
<1>8. detail' \in Detail \cup {NoDetail} /\ PanelFollows'
  BY <1>1, <1>4, FollowKeeps
<1>9. Typed'
  BY <1>1, <1>4, <1>7, <1>8 DEF Typed
<1>10. ASSUME NEW t \in Task, Told(t) PROVE Told(t)'
  <2>1. Silent(feed.inbox, t) => (t \notin torn' => rows'[t] = board[t])
    BY <1>1, <1>2, <1>10 DEF Told
  <2>2. Silent(feed.inbox, t) =>
          \A i \in 1 .. Len(read') : t \notin read'[i].over => read'[i].rows[t] = board[t]
    BY <1>7, <1>10 DEF Told
  <2> QED
    BY <1>1, <1>10, <2>1, <2>2 DEF Told
<1>11. \A t \in Task : Pending(t)' <=> Pending(t)
  BY <1>1 DEF Pending, Good
<1>12. FeedFollows'
  BY <1>1, <1>10, <1>11 DEF FeedFollows
<1> QED
  BY <1>8, <1>9, <1>12

LEMMA BoardEventStep ==
  ASSUME BoardInv, BoardEvent
  PROVE  BoardInv'
<1> USE DEF BoardInv
<1> DEFINE s == feed.inbox
           e == Head(s)
           u == Tail(s)
           marks == [i \in 1 .. Len(read) |-> Settled(read[i].over, e, read[i].rows)]
<1>1. /\ UNCHANGED <<board, due, fresh, sent>> /\ feed' = [feed EXCEPT !.inbox = u]
      /\ rows' = [rows EXCEPT ![e.task] = e.row] /\ s # << >>
      /\ torn' = IF e.late THEN torn \cup {e.task} ELSE torn \ {e.task}
      /\ read' = [i \in DOMAIN read |-> [read[i] EXCEPT !.over = Settled(@, e, read[i].rows)]]
  BY DEF BoardEvent, server, Upserted
<1>2. s \in Seq(BoardUpdate) /\ read \in Seq(Load) /\ DOMAIN read = 1 .. Len(read)
  BY DEF Typed
<1>3. e \in BoardUpdate /\ e.task \in Task /\ e.row \in Row /\ u \in Seq(BoardUpdate)
  <2>1. e \in BoardUpdate
    BY <1>1, <1>2
  <2> QED
    BY <1>1, <1>2, <2>1 DEF BoardUpdate
<1>4. \A i \in 1 .. Len(read) : read[i] \in Load
  BY <1>2
<1>5. marks \in [1 .. Len(read) -> SUBSET Task]
  <2> HIDE DEF e
  <2> QED
    BY <1>3, <1>4 DEF Load, Settled
<1>6. read' = Marked(read, marks)
  BY <1>1, <1>2 DEF Marked
<1>7. \A i \in 1 .. Len(read) : marks[i] = Settled(read[i].over, e, read[i].rows)
  OBVIOUS
<1>8. ASSUME NEW t \in Task, Told(t)
      PROVE  /\ LastTells(u, t, board[t])
             /\ Silent(u, t) /\ e.task # t => Silent(s, t)
             /\ Silent(u, t) /\ e.task = t => e.late \/ e.row = board[t]
  BY <1>1, <1>2, <1>8, TailTells DEF Told
<1>9. e.task # detail.task => UNCHANGED <<detail, preview, outputs>>
  BY DEF BoardEvent, panel
<1>10. e.task = detail.task => Select(NoDetail) \/ Follow(rows')
  BY DEF BoardEvent
<1> HIDE DEF marks, e, u
<1>11. /\ read' \in Seq(Load) /\ Len(read') = Len(read)
       /\ \A i \in 1 .. Len(read) : read'[i].over = marks[i] /\ read'[i].rows = read[i].rows
  BY <1>2, <1>5, <1>6, MarkedLoads
<1>12. rows' \in Rows /\ \A t \in Task : rows'[t] = IF t = e.task THEN e.row ELSE rows[t]
  BY <1>1, <1>3 DEF Typed, Rows
<1>13. feed'.inbox = u /\ feed'.state = feed.state /\ feed' \in [state : Link, inbox : Seq(BoardUpdate)]
  BY <1>1, <1>3 DEF Typed
<1>14. detail' \in Detail \cup {NoDetail} /\ PanelFollows'
  <2>1. CASE e.task # detail.task
    BY <1>9, <1>12, <2>1 DEF Typed, PanelFollows, DetailFollows, OwnOutput, Detail, NoDetail
  <2>2. CASE e.task = detail.task
    BY <1>10, <1>12, <2>2, FollowKeeps, ClosingKeeps
  <2> QED
    BY <2>1, <2>2
<1>15. torn' \subseteq Task
  BY <1>1, <1>3 DEF Typed
<1>16. Typed'
  BY <1>1, <1>11, <1>12, <1>13, <1>14, <1>15 DEF Typed
<1>17. ASSUME NEW t \in Task, Told(t) PROVE Told(t)'
  <2>1. LastTells(u, t, board[t])
    BY <1>8, <1>17
  <2>2. ASSUME Silent(u, t) PROVE t \notin torn' => rows'[t] = board[t]
    BY <1>1, <1>8, <1>12, <1>17, <2>2 DEF Told
  <2>3. ASSUME Silent(u, t), NEW i \in 1 .. Len(read')
        PROVE  t \notin read'[i].over => read'[i].rows[t] = board[t]
    <3>1. i \in 1 .. Len(read) /\ read'[i].rows = read[i].rows
          /\ read'[i].over = Settled(read[i].over, e, read[i].rows)
      BY <1>7, <1>11, <2>3
    <3>2. CASE t = e.task
      BY <1>8, <1>17, <2>3, <3>1, <3>2 DEF Settled
    <3>3. CASE t # e.task
      <4>1. t \notin read[i].over => read[i].rows[t] = board[t]
        BY <1>8, <1>17, <2>3, <3>1, <3>3 DEF Told
      <4> QED
        BY <3>1, <3>3, <4>1 DEF Settled
    <3> QED
      BY <3>2, <3>3
  <2> QED
    BY <1>1, <1>13, <2>1, <2>2, <2>3 DEF Told
<1>18. \A t \in Task : Pending(t)' <=> Pending(t)
  BY <1>1 DEF Pending, Good
<1>19. feed'.state # "open" => u = << >>
  BY <1>1, <1>13 DEF FeedFollows
<1>20. FeedFollows'
  BY <1>13, <1>17, <1>18, <1>19 DEF FeedFollows
<1> QED
  BY <1>14, <1>16, <1>20

LEMMA GiveStep ==
  ASSUME BoardInv,
         \/ InterruptSelectedTask \/ ContinueSelectedTask \/ DeleteTaskNode \/ CreateTask
         \/ \E x \in Flows : InterruptFlow(x) \/ ContinueFlow(x) \/ RunFlow(x)
  PROVE  BoardInv'
<1> USE DEF BoardInv
<1>0. \A x \in Flows : Cardinality(Members(rows, x)) \in Nat
  <2> TAKE x \in Flows
  <2>1. IsFiniteSet(Members(rows, x))
    BY BoardAssumption, FS_Subset DEF Members
  <2> QED
    BY <2>1, FS_CardinalityType
<1>1. PICK k \in Kind, x \in Flows, n \in Nat : Give(k, x, n) /\ (k \in OnTask => x \in Task)
  <2>1. detail.row.status \in {"running", "blocked"} => detail.task # None
    <3>1. detail.task = None => detail = NoDetail
      BY BoardAssumption DEF Typed, Detail, NoDetail
    <3> QED
      BY <3>1 DEF NoDetail, NoRow
  <2>2. detail.task # None => detail.task \in Task
    BY DEF Typed, Detail, NoDetail
  <2>3. CASE InterruptSelectedTask \/ ContinueSelectedTask \/ DeleteTaskNode
    BY <2>1, <2>2, <2>3 DEF InterruptSelectedTask, ContinueSelectedTask, DeleteTaskNode, Kind, Flows
  <2>4. CASE CreateTask
    BY <2>4 DEF CreateTask, Kind, OnTask, Flows
  <2>5. ASSUME NEW x \in Flows, InterruptFlow(x) \/ ContinueFlow(x) \/ RunFlow(x)
        PROVE  \E k \in Kind, n \in Nat : k \notin OnTask /\ Give(k, x, n)
    BY <1>0, <2>5 DEF InterruptFlow, ContinueFlow, RunFlow, Kind, OnTask
  <2> QED
    BY <2>3, <2>4, <2>5
<1>2. UNCHANGED <<server, list, panel, feed>> /\ sent' = sent \cup {SentNow(k, x, n)}
  BY <1>1 DEF Give
<1>3. SentNow(k, x, n) \in Sent /\ SentNow(k, x, n).kind = k /\ SentNow(k, x, n).of = x
  BY DEF SentNow, Sent
<1>5. Typed'
  <2>1. \A c \in sent' : c \in Sent /\ (c.kind \in OnTask => c.of \in Task)
    BY <1>1, <1>2, <1>3 DEF Typed
  <2> QED
    BY <1>2, <2>1 DEF Typed, server, list, panel
<1> QED
  BY <1>2, <1>5, PanelStays, FeedStays DEF server, list, panel

LEMMA AnswerStep ==
  ASSUME BoardInv, NEW c \in sent,
         Accept(c) \/ (\E t \in Task : RowGone(c, t)) \/ CommandDone(c) \/ CommandFails(c)
  PROVE  BoardInv'
<1> USE DEF BoardInv
<1>1. UNCHANGED <<board, due, rows, read, torn, feed>>
  BY DEF Accept, RowGone, CommandDone, CommandFails, list, server
<1>0. c \in Sent
  BY DEF Typed
<1>2. sent' \subseteq Sent /\ (\A d \in sent' : d.kind \in OnTask => d.of \in Task) /\ fresh' \subseteq Task
  <2>1. CASE CommandDone(c) \/ CommandFails(c)
    BY <2>1 DEF CommandDone, CommandFails, server, Typed
  <2>2. /\ [c EXCEPT !.state = "refused"] \in Sent
        /\ [c EXCEPT !.state = "refused"].kind = c.kind /\ [c EXCEPT !.state = "refused"].of = c.of
    BY <1>0 DEF Sent
  <2>3. ASSUME Answered(c, [c EXCEPT !.state = "refused"]), UNCHANGED fresh
        PROVE  sent' \subseteq Sent /\ (\A d \in sent' : d.kind \in OnTask => d.of \in Task) /\ fresh' \subseteq Task
    BY <2>2, <2>3, AnsweredTyped DEF Typed
  <2>4. ASSUME NEW new \in SUBSET fresh,
               Answered(c, [c EXCEPT !.state = "running", !.todo = Found(c), !.new = new]), fresh' = fresh \ new
        PROVE  sent' \subseteq Sent /\ (\A d \in sent' : d.kind \in OnTask => d.of \in Task) /\ fresh' \subseteq Task
    <3> DEFINE d == [c EXCEPT !.state = "running", !.todo = Found(c), !.new = new]
    <3>1. Found(c) \subseteq Task
      BY DEF Found, Members, Typed, OnTask
    <3>2. d \in Sent /\ d.kind = c.kind /\ d.of = c.of
      BY <1>0, <3>1 DEF Sent, Typed
    <3> HIDE DEF d
    <3>3. sent' \subseteq Sent /\ (\A x \in sent' : x.kind \in OnTask => x.of \in Task)
      BY <2>4, <3>2, AnsweredTyped DEF d
    <3> QED
      BY <2>4, <3>3 DEF Typed
  <2>5. CASE Accept(c)
    BY <2>3, <2>4, <2>5 DEF Accept
  <2>6. CASE \E t \in Task : RowGone(c, t)
    BY <2>3, <2>6 DEF RowGone, server
  <2> QED
    BY <2>1, <2>5, <2>6
<1>3. detail' \in Detail \cup {NoDetail} /\ PanelFollows'
  <2>1. CASE UNCHANGED panel
    BY <1>1, <2>1, PanelStays DEF panel, Typed
  <2>2. CASE Select(NoDetail)
    BY <2>2, ClosingKeeps
  <2> QED
    BY <2>1, <2>2 DEF Accept, RowGone, CommandDone, CommandFails
<1>4. Typed'
  BY <1>1, <1>2, <1>3 DEF Typed
<1> QED
  BY <1>1, <1>3, <1>4, FeedStays

LEMMA LookStep ==
  ASSUME BoardInv, CloseTaskDetail \/ \E t \in Task : OpenTaskDetail(t)
  PROVE  BoardInv'
<1> USE DEF BoardInv
<1>1. UNCHANGED <<server, list, feed, sent>>
  BY DEF CloseTaskDetail, OpenTaskDetail
<1>2. detail' \in Detail \cup {NoDetail} /\ PanelFollows'
  <2>1. CASE CloseTaskDetail
    BY <2>1, ClosingKeeps DEF CloseTaskDetail
  <2>2. ASSUME NEW t \in Task, OpenTaskDetail(t) PROVE detail' \in Detail /\ PanelFollows'
    <3>1. /\ detail' = [task |-> t, row |-> rows[t]] /\ rows' = rows
          /\ PreviewEffect(detail', None)
      BY <2>2 DEF OpenTaskDetail, list
    <3>2. detail' \in Detail /\ detail'.task = t /\ detail'.row = rows'[t]
      BY <2>2, <3>1, RowFacts DEF Typed, Rows, Detail, OpenTaskDetail
    <3>3. \A o \in Cancelled : o \in [task : Task, live : BOOLEAN] /\ ~o.live
      BY DEF Cancelled, PanelFollows
    <3>4. AskOutput(t) \in [task : Task, live : BOOLEAN] /\ AskOutput(t).task = t
      BY DEF AskOutput
    <3>5. preview' = None /\ \A o \in outputs' : o \in Cancelled \/ o = AskOutput(t)
      BY <3>1, <3>2 DEF PreviewEffect
    <3>6. /\ outputs' \subseteq [task : Task, live : BOOLEAN]
          /\ \A o \in outputs' : o.live => o.task = t
      BY <3>3, <3>4, <3>5
    <3> QED
      BY <3>2, <3>5, <3>6 DEF PanelFollows, DetailFollows, OwnOutput
  <2> QED
    BY <2>1, <2>2
<1>3. Typed'
  BY <1>1, <1>2 DEF Typed, server, list
<1> QED
  BY <1>1, <1>2, <1>3, FeedStays DEF server, list

LEMMA BoardStep == BoardInv /\ [Next]_vars => BoardInv'
<1> SUFFICES ASSUME BoardInv, [Next]_vars PROVE BoardInv'
  OBVIOUS
<1>1. CASE UNCHANGED vars
  <2>1. Typed' /\ FeedFollows' /\ PanelFollows'
    BY <1>1, FeedStays, PanelStays DEF BoardInv, Typed, vars
  <2> QED
    BY <2>1 DEF BoardInv
<1>2. CASE Server
  BY <1>2, AgentStep, SessionStep, PublisherStep DEF Server
<1>3. CASE List
  BY <1>3, FeedStep, LoadAnsweredStep, BoardEventStep DEF List
<1>4. CASE Panel
  BY <1>4, SessionStep
<1>5. CASE Commands
  BY <1>5, GiveStep, HandlerStep, AnswerStep DEF Commands
<1>6. CASE CloseTaskDetail \/ \E t \in Task : OpenTaskDetail(t)
  BY <1>6, LookStep
<1> QED
  BY <1>1, <1>2, <1>3, <1>4, <1>5, <1>6 DEF Next

-----------------------------------------------------------------------------
(* The page's row of a task is the board's, unless a write of it is not    *)
(* yet published, an event about it not yet heard, or what the page knows  *)
(* of it torn by one of the three things named at ListFollows: whatever    *)
(* the order in which writes are committed, read back and published, the   *)
(* last event about a task tells its row or is known to be late, so that   *)
(* events and loads together leave no other row behind.                    *)
THEOREM ListIsBoard == Spec => []ListFollows
<1>1. BoardInv => ListFollows
  <2> SUFFICES ASSUME BoardInv, NEW t \in Task, t \notin torn, \A d \in due : d.task # t,
                      \A i \in DOMAIN feed.inbox : feed.inbox[i].task # t
               PROVE  rows[t] = board[t]
    BY DEF ListFollows
  <2>1. Silent(feed.inbox, t)
    <3>1. DOMAIN feed.inbox = 1 .. Len(feed.inbox)
      BY DEF BoardInv, Typed
    <3> QED
      BY <3>1 DEF Silent
  <2>2. Told(t)
    BY DEF BoardInv, FeedFollows, Pending
  <2> QED
    BY <2>1, <2>2 DEF Told
<1> QED
  BY <1>1, InitInv, BoardStep, PTL DEF Spec

(* An open detail shows the row the list shows, for as long as the list    *)
(* has one, whatever loads, events and commands replace it.                *)
THEOREM DetailIsRow == Spec => []DetailFollows
<1>1. BoardInv => DetailFollows
  BY DEF BoardInv, PanelFollows
<1> QED
  BY <1>1, InitInv, BoardStep, PTL DEF Spec

(* The output of another task is never shown: every request that is not    *)
(* cancelled is one of the detail's.                                       *)
THEOREM OutputIsOwn == Spec => []OwnOutput
<1>1. BoardInv => OwnOutput
  BY DEF BoardInv, PanelFollows
<1> QED
  BY <1>1, InitInv, BoardStep, PTL DEF Spec

-----------------------------------------------------------------------------
(* The session of the detail, and what else the page keeps.                *)

Request == [session : Session, read : -1 .. MaxPiece]
SessionTyped ==
  /\ text \in Seq(Piece) /\ stream \in [state : Link, inbox : Seq(Piece)]
  /\ history \subseteq Request
  /\ stream.state = "none" <=> Watched = None
RestTyped ==
  /\ log \in [Session -> 0 .. MaxPiece] /\ refused \in Session \cup {None}
  /\ busy \in [Kind -> Flows \cup {None}] /\ asked \in [Owner -> Nat]

LEMMA NumberRange == -1 \in -1 .. MaxPiece /\ 0 .. MaxPiece \subseteq -1 .. MaxPiece
  BY BoardAssumption

LEMMA HistoryAsked ==
  ASSUME NEW s \in Session
  PROVE  AskHistory(s) \subseteq Request
  BY NumberRange DEF AskHistory, Request

LEMMA WatchedSession ==
  ASSUME Typed
  PROVE  Watched # None => Watched \in Session
  BY DEF Typed, Watched, Detail, NoDetail, NoRow, Live

LEMMA TextTyped ==
  ASSUME NEW s \in Session, NEW n \in 0 .. MaxPiece
  PROVE  Text(s, n) \in Seq(Piece)
<1>1. n \in Nat /\ \A k \in 1 .. n : <<s, k>> \in Piece
  BY BoardAssumption DEF Piece
<1> QED
  BY <1>1 DEF Text

LEMMA MergeTyped ==
  ASSUME NEW a \in Seq(Piece), NEW b \in Seq(Piece)
  PROVE  MergeStreamingAssistantText(a, b) \in Seq(Piece)
  BY DEF MergeStreamingAssistantText

(* Every record the detail takes subscribes its session, or none.          *)
LEMMA SubscribedTyped ==
  ASSUME SessionTyped, NEW d \in Detail \cup {NoDetail}, NEW shown \in Seq(Piece),
         SessionEffect(d, shown), detail' = d
  PROVE  SessionTyped'
<1> DEFINE some == d.task # None
<1>1. /\ stream' = [state |-> IF some THEN "opening" ELSE "none", inbox |-> << >>]
      /\ history' = history \cup (IF some THEN AskHistory(d.row.session) ELSE {})
      /\ text' = shown
  BY DEF SessionEffect
<1>2. some => d.row.session \in Session
  BY DEF Detail, NoDetail, Live
<1>3. some <=> Watched' # None
  BY BoardAssumption DEF Detail, NoDetail, NoRow, Watched, Live, Session
<1> HIDE DEF some
<1>4. /\ stream' \in [state : Link, inbox : Seq(Piece)]
      /\ stream'.state = "none" <=> ~some
  BY <1>1 DEF Link
<1>5. history' \subseteq Request
  BY <1>1, <1>2, HistoryAsked DEF SessionTyped
<1> QED
  BY <1>1, <1>3, <1>4, <1>5 DEF SessionTyped

LEMMA PanelSteps ==
  ASSUME BoardInv, SessionTyped, [Next]_vars, ~Panel, ~\E t \in Task : Speak(t)
  PROVE  SessionTyped'
<1>1. ASSUME NEW d \in Detail \cup {NoDetail}, Select(d) PROVE SessionTyped'
  BY <1>1, SubscribedTyped DEF Select, SessionTyped
<1>2. CASE UNCHANGED panel
  BY <1>2 DEF panel, SessionTyped, Watched
<1>3. ASSUME Follow(rows') PROVE SessionTyped'
  <2>1. rows' \in Rows /\ detail \in Detail \cup {NoDetail}
    BY BoardStep DEF BoardInv, Typed
  <2>2. CASE detail.task # None /\ rows'[detail.task].status # "absent"
    <3>1. [task |-> detail.task, row |-> rows'[detail.task]] \in Detail
      BY <2>1, <2>2, RowFacts DEF Detail, NoDetail, Rows
    <3> QED
      BY <1>1, <1>3, <2>2, <3>1 DEF Follow
  <2>3. CASE ~(detail.task # None /\ rows'[detail.task].status # "absent")
    BY <1>2, <1>3, <2>3 DEF Follow
  <2> QED
    BY <2>2, <2>3
<1>4. CASE Server
  BY <1>2, <1>4 DEF Server, Claim, End, Touch, Refresh, Publish
<1>5. CASE List
  BY <1>1, <1>2, <1>3, <1>5 DEF List, ReadLoad, LoadFails, LoadAnswered, BoardEvent, FeedBreaks,
     FeedReconnects, FeedOpens
<1>6. CASE Commands
  BY <1>1, <1>2, <1>6 DEF Commands, InterruptSelectedTask, ContinueSelectedTask, DeleteTaskNode, CreateTask,
     InterruptFlow, ContinueFlow, RunFlow, Give, Accept, RowGone, HandleRow, MakeRow, CommandDone,
     CommandFails
<1>7. CASE CloseTaskDetail
  BY <1>1, <1>7 DEF CloseTaskDetail
<1>8. ASSUME NEW t \in Task, OpenTaskDetail(t) PROVE SessionTyped'
  <2>1. detail' = [task |-> t, row |-> rows[t]] /\ SessionEffect(detail', << >>)
    BY <1>8 DEF OpenTaskDetail
  <2>2. [task |-> t, row |-> rows[t]] \in Detail /\ << >> \in Seq(Piece)
    BY <1>8, RowFacts DEF BoardInv, Typed, Rows, Detail, OpenTaskDetail
  <2> QED
    BY <2>1, <2>2, SubscribedTyped
<1>9. CASE UNCHANGED vars
  BY <1>2, <1>9 DEF vars, panel
<1> QED
  BY <1>4, <1>5, <1>6, <1>7, <1>8, <1>9 DEF Next

LEMMA TalkSteps ==
  ASSUME Typed, SessionTyped, RestTyped, Panel \/ \E t \in Task : Speak(t)
  PROVE  SessionTyped'
<1> USE DEF SessionTyped
<1>1. detail' = detail /\ Watched' = Watched
  BY DEF Panel, Speak, ReadHistory, HistoryAnswered, HistoryFails, Poll, SessionEvent, StreamOpens,
         StreamReconnects, StreamBreaks, OutputAnswered, Watched
<1>2. Watched # None => AskHistory(Watched) \subseteq Request
  BY HistoryAsked, WatchedSession
<1>3. stream = [state |-> stream.state, inbox |-> stream.inbox] /\ stream.inbox \in Seq(Piece)
  OBVIOUS
<1>4. ASSUME NEW t \in Task, Speak(t) PROVE SessionTyped'
  <2> DEFINE s == board[t].session
  <2>0. s \in Session
    BY <1>4, RowFacts DEF Speak, Typed, Rows, Live
  <2>1. <<s, log[s] + 1>> \in Piece
    BY <1>4, <2>0, BoardAssumption DEF Speak, RestTyped, Piece
  <2>3. stream' = stream \/ stream' = [stream EXCEPT !.inbox = Append(stream.inbox, <<s, log[s] + 1>>)]
    BY <1>4 DEF Speak
  <2>4. UNCHANGED <<text, history>>
    BY <1>4 DEF Speak
  <2> HIDE DEF s
  <2>2. Append(stream.inbox, <<s, log[s] + 1>>) \in Seq(Piece)
    BY <1>3, <2>1
  <2> QED
    BY <1>1, <2>2, <2>3, <2>4
<1>5. ASSUME NEW h \in history, ReadHistory(h) \/ HistoryAnswered(h) \/ HistoryFails(h) PROVE SessionTyped'
  <2>1. h \in Request /\ h.session \in Session /\ stream' = stream
    BY <1>5 DEF Request, ReadHistory, HistoryAnswered, HistoryFails
  <2>2. CASE ReadHistory(h)
    <3>1. [h EXCEPT !.read = log[h.session]] \in Request
      BY <2>1, NumberRange DEF Request, RestTyped
    <3> QED
      BY <1>1, <2>1, <2>2, <3>1 DEF ReadHistory
  <2>3. CASE HistoryAnswered(h)
    <3>1. h.read \in 0 .. MaxPiece
      BY <2>1, <2>3, BoardAssumption DEF HistoryAnswered, Request
    <3>2. Text(h.session, h.read) \in Seq(Piece)
      BY <2>1, <3>1, TextTyped
    <3> QED
      BY <1>1, <2>1, <2>3, <3>2 DEF HistoryAnswered
  <2>4. CASE HistoryFails(h)
    BY <1>1, <2>1, <2>4 DEF HistoryFails
  <2> QED
    BY <1>5, <2>2, <2>3, <2>4
<1>6. CASE Poll
  BY <1>1, <1>2, <1>6 DEF Poll, Polls
<1>7. CASE SessionEvent
  <2>1. << Head(stream.inbox) >> \in Seq(Piece) /\ Tail(stream.inbox) \in Seq(Piece)
    <3>1. Head(stream.inbox) \in Piece
      BY <1>3, <1>7 DEF SessionEvent
    <3> QED
      BY <1>3, <1>7, <3>1 DEF SessionEvent
  <2>2. text' \in Seq(Piece)
    BY <1>7, <2>1, MergeTyped DEF SessionEvent
  <2>3. stream' = [stream EXCEPT !.inbox = Tail(stream.inbox)] /\ history' = history
    BY <1>7 DEF SessionEvent
  <2> QED
    BY <1>1, <2>1, <2>2, <2>3
<1>8. CASE StreamOpens
  BY <1>1, <1>8 DEF StreamOpens, Link
<1>9. CASE StreamReconnects
  BY <1>1, <1>2, <1>9 DEF StreamReconnects, Link
<1>10. ASSUME NEW told \in BOOLEAN, StreamBreaks(told) PROVE SessionTyped'
  BY <1>1, <1>2, <1>10 DEF StreamBreaks, Link
<1>11. ASSUME NEW o \in outputs, NEW ok \in BOOLEAN, OutputAnswered(o, ok) PROVE SessionTyped'
  BY <1>1, <1>11 DEF OutputAnswered
<1> QED
  BY <1>4, <1>5, <1>6, <1>7, <1>8, <1>9, <1>10, <1>11 DEF Panel

LEMMA RestSteps ==
  ASSUME BoardInv, SessionTyped, RestTyped, [Next]_vars
  PROVE  RestTyped'
<1> USE DEF RestTyped
<1>1. ASSUME NEW w \in Owner PROVE Freed(w) \in [Kind -> Flows \cup {None}]
  BY DEF Freed
<1>2. CASE Server
  <2>1. UNCHANGED <<refused, busy, asked>>
    BY <1>2 DEF Server, Claim, End, Touch, Refresh, Publish, Speak, list
  <2>2. ASSUME NEW t \in Task, Speak(t) PROVE log' \in [Session -> 0 .. MaxPiece]
    <3> DEFINE s == board[t].session
    <3>1. log' = [log EXCEPT ![s] = log[s] + 1] /\ log[s] < MaxPiece
      BY <2>2 DEF Speak
    <3>2. MaxPiece \in Nat
      BY BoardAssumption
    <3> HIDE DEF s
    <3>3. s \in Session => log[s] + 1 \in 0 .. MaxPiece
      BY <3>1, <3>2
    <3>4. s \notin Session => log' = log
      BY <3>1
    <3> QED
      BY <3>1, <3>3, <3>4
  <2>3. ~(\E t \in Task : Speak(t)) => log' = log
    BY <1>2 DEF Server, Claim, End, Touch, Refresh, Publish
  <2> QED
    BY <2>1, <2>2, <2>3
<1>3. CASE List
  <2>1. UNCHANGED <<log, refused>>
    BY <1>3 DEF List, ReadLoad, LoadFails, LoadAnswered, BoardEvent, FeedBreaks, FeedReconnects, FeedOpens,
       server
  <2>2. ASSUME NEW w \in Owner, ReadLoad(w) \/ LoadFails(w) PROVE RestTyped'
    <3>1. asked' = [asked EXCEPT ![w] = asked[w] - 1] /\ asked[w] > 0 /\ busy' \in {busy, Freed(w)}
      BY <2>2 DEF ReadLoad, LoadFails
    <3>2. asked' \in [Owner -> Nat]
      BY <3>1
    <3> QED
      BY <1>1, <2>1, <3>1, <3>2
  <2>3. ASSUME NEW i \in DOMAIN read, LoadAnswered(i) PROVE RestTyped'
    <3>1. read[i].by \in Owner
      <4>1. read \in Seq(Load)
        BY DEF BoardInv, Typed
      <4>2. read[i] \in Load
        BY <4>1
      <4> QED
        BY <4>2 DEF Load
    <3> QED
      BY <1>1, <2>1, <2>3, <3>1 DEF LoadAnswered
  <2>4. CASE BoardEvent \/ FeedBreaks \/ FeedReconnects \/ FeedOpens
    <3>1. UNCHANGED <<asked, busy>>
      BY <2>4 DEF BoardEvent, FeedBreaks, FeedReconnects, FeedOpens, list
    <3> QED
      BY <2>1, <3>1
  <2> QED
    BY <1>3, <2>2, <2>3, <2>4 DEF List
<1>4. CASE Panel
  <2>1. UNCHANGED <<log, busy, asked>>
    BY <1>4 DEF Panel, ReadHistory, HistoryAnswered, HistoryFails, Poll, SessionEvent, StreamOpens,
         StreamReconnects, StreamBreaks, OutputAnswered, server, list
  <2>2. refused' \in Session \cup {None}
    BY <1>4 DEF Panel, ReadHistory, HistoryAnswered, HistoryFails, Poll, SessionEvent, StreamOpens,
         StreamReconnects, StreamBreaks, OutputAnswered, SessionTyped, Request
  <2> QED
    BY <2>1, <2>2
<1>5. CASE Commands
  <2>1. UNCHANGED <<log, refused>>
    BY <1>5 DEF Commands, InterruptSelectedTask, ContinueSelectedTask, DeleteTaskNode, CreateTask,
       InterruptFlow, ContinueFlow, RunFlow, Give, Accept, RowGone, HandleRow, MakeRow, CommandDone,
       CommandFails, server
  <2>2. ASSUME NEW k, NEW x, NEW n, Give(k, x, n), x \in Flows PROVE RestTyped'
    BY <2>1, <2>2 DEF Give, list
  <2>3. detail.task # None => detail.task \in Flows
    BY DEF BoardInv, Typed, Detail, NoDetail, Flows
  <2>4. detail.row.status \in {"running", "blocked"} => detail.task # None
    <3>1. detail.task = None => detail = NoDetail
      BY BoardAssumption DEF BoardInv, Typed, Detail, NoDetail
    <3> QED
      BY <3>1 DEF NoDetail, NoRow
  <2>5. CASE InterruptSelectedTask \/ ContinueSelectedTask \/ DeleteTaskNode
    BY <2>2, <2>3, <2>4, <2>5 DEF InterruptSelectedTask, ContinueSelectedTask, DeleteTaskNode
  <2>6. CASE CreateTask \/ \E x \in Flows : InterruptFlow(x) \/ ContinueFlow(x) \/ RunFlow(x)
    BY <2>2, <2>6 DEF CreateTask, InterruptFlow, ContinueFlow, RunFlow, Flows
  <2>7. ASSUME NEW c \in sent,
               \/ Accept(c) \/ CommandDone(c) \/ CommandFails(c)
               \/ \E t \in Task : RowGone(c, t) \/ HandleRow(c, t) \/ MakeRow(c, t)
        PROVE  RestTyped'
    <3>1. c.kind \in Kind /\ Kind \subseteq Owner
      BY DEF BoardInv, Typed, Sent, Owner
    <3>2. asked' \in [Owner -> Nat]
      <4>1. asked' = asked \/ asked' = [asked EXCEPT ![c.kind] = asked[c.kind] + 1]
        BY <2>7 DEF Accept, RowGone, HandleRow, MakeRow, CommandDone, CommandFails, list
      <4> QED
        BY <3>1, <4>1
    <3>3. busy' \in [Kind -> Flows \cup {None}]
      BY <1>1, <2>7, <3>1 DEF Accept, RowGone, HandleRow, MakeRow, CommandDone, CommandFails, Owner
    <3> QED
      BY <2>1, <3>2, <3>3
  <2> QED
    BY <1>5, <2>5, <2>6, <2>7 DEF Commands
<1>6. CASE CloseTaskDetail \/ (\E t \in Task : OpenTaskDetail(t)) \/ UNCHANGED vars
  BY <1>6 DEF CloseTaskDetail, OpenTaskDetail, vars, server, list
<1> QED
  BY <1>2, <1>3, <1>4, <1>5, <1>6 DEF Next

(* Everything has its type, a detail and only a detail has a stream, and   *)
(* only the output of the detail is asked for without being cancelled      *)
(* (useCollabTaskSessionRuntime, the output effect of CollabPage).         *)
THEOREM BoardTypes == Spec => []TypeOK
<1>1. Init => SessionTyped /\ RestTyped
  BY BoardAssumption DEF Init, SessionTyped, RestTyped, Link, Watched, NoDetail, NoRow
<1>2. BoardInv /\ SessionTyped /\ RestTyped /\ [Next]_vars => SessionTyped' /\ RestTyped'
  <2>1. BoardInv => Typed
    BY DEF BoardInv
  <2> QED
    BY <2>1, PanelSteps, TalkSteps, RestSteps
<1>3. BoardInv /\ SessionTyped /\ RestTyped => TypeOK
  <2> SUFFICES ASSUME BoardInv, SessionTyped, RestTyped PROVE TypeOK
    OBVIOUS
  <2>1. preview \in Task \cup {None}
    BY DEF BoardInv, PanelFollows, OwnOutput, Typed, Detail, NoDetail
  <2> QED
    BY <2>1 DEF BoardInv, Typed, PanelFollows, SessionTyped, RestTyped, TypeOK, Request
<1> QED
  BY <1>1, <1>2, <1>3, InitInv, BoardStep, PTL DEF Spec

=============================================================================
