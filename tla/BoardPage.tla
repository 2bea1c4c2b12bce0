------------------------------ MODULE BoardPage ------------------------------
(***************************************************************************)
(* The board page as a client of the task board: the list of rows, which   *)
(* whole loads and single events both write, the detail of one task with   *)
(* the messages of its session and the preview of its output, and the      *)
(* commands the user gives (frontend/src/components/CollabPage.tsx,        *)
(* collab-page/useBoardTasksRealtime.ts,                                   *)
(* hooks/useCollabTaskSessionRuntime.ts, collabTaskPreviewUtils.ts).       *)
(*                                                                         *)
(* The rows at first belong to one flow, a quick-created row is a flow of  *)
(* its own.  The text of a session is a sequence of pieces <<session,      *)
(* number>>, its log the number of pieces there are.  What the page only   *)
(* displays (loading marks, error texts, toasts, the view) is left out,    *)
(* and so is the agents' overview a load asks for as well.                 *)
(***************************************************************************)
EXTENDS Integers, Sequences, FiniteSets, SequencesExt

CONSTANTS
  Task,
  None,        \* no task
  Flow,        \* the flow of the rows at first
  Shared,      \* the session "__new__" all quick-created rows name
  Start,       \* the tasks on the board at first
  MaxWrite,    \* bound: commands, and writes of dispatchers and agents
  MaxPiece,    \* bound: pieces of a session's text
  MaxFault,    \* bound: broken streams and failed requests
  MaxLook      \* bound: details opened and closed

ASSUME BoardAssumption ==
  /\ None \notin Task /\ {Flow, Shared} \cap (Task \cup {None}) = {}
  /\ IsFiniteSet(Task) /\ Start \subseteq Task
  /\ {MaxWrite, MaxPiece, MaxFault, MaxLook} \subseteq Nat

(* blocked: blocked_by_approval by an interruption; ended: completed, with *)
(* an output file.                                                         *)
Status == {"queued", "running", "blocked", "ended"}

Flows == Task \cup {Flow}
Session == Task \cup {Shared}
Live == [status : Status, session : Session, flow : Flows]
NoRow == [status |-> "absent", session |-> None, flow |-> None]
Row == Live \cup {NoRow}
Rows == [Task -> Row]

(* A row of a confirmed flow has a session of its own. *)
FlowRow(t, x, s) == [status |-> s, session |-> t, flow |-> x]
QuickRow(t, s) == [status |-> s, session |-> Shared, flow |-> t]

Kind == {"interrupt", "continue", "delete", "create", "stopFlow", "continueFlow", "runFlow"}
Owner == Kind \cup {"page"}

(* What writes a row: a command, a dispatcher that claims it, the agents'  *)
(* end of it, and a write that changes nothing the page tells apart.       *)
Writer == (Kind \X Flows) \cup ({"claim", "end", "touch"} \X Task)

Piece == Session \X (1 .. MaxPiece)
Text(s, n) == [k \in 1 .. n |-> <<s, k>>]

Link == {"none", "opening", "open", "broken"}

Detail == [task : Task, row : Live]
BoardUpdate == [task : Task, row : Row, late : BOOLEAN]
Writing == [by : Writer, task : Task, row : Row, read : BOOLEAN]
NoDetail == [task |-> None, row |-> NoRow]

VARIABLES
  board,    \* the server's rows
  log,      \* the pieces of each session so far
  fresh,    \* the ids no row has had yet
  due,      \* writes committed and not yet published; read: their row is
  rows,     \* taskRecords
  detail,   \* selectedTask, a copy of a row
  text,     \* taskSessionItems, the text of the agent's message
  refused,  \* unavailableSessionKeyRef: the session whose history is not asked
  preview,  \* the task whose output is shown
  busy,     \* per kind, the task or flow whose command disables its button
  feed,     \* the stream of the board's events
  stream,   \* the stream of the session of the detail
  asked,    \* loads not yet read by the server, per command they follow
  read,     \* loads read and not yet answered, in the order of reading
  history,  \* requests for the text of a session: read is -1 until it is
  outputs,  \* requests for an output; live: not cancelled
  sent,     \* commands on their way or executed
  torn,     \* ghost: the tasks whose row the page may not have been told
  left      \* what is left of each bound

vars == <<board, log, fresh, due, rows, detail, text, refused, preview, busy, feed, stream,
          asked, read, history, outputs, sent, torn, left>>
server == <<board, log, fresh, due>>
panel == <<detail, text, preview, stream, history, outputs>>
list == <<rows, asked, read, torn>>

Spend(b) == left[b] > 0 /\ left' = [left EXCEPT ![b] = @ - 1]

Init ==
  /\ \E s \in [Start -> Status], quick \in SUBSET Start :
       board = [t \in Task |-> CASE t \notin Start -> NoRow
                                  [] t \in quick  -> QuickRow(t, s[t])
                                  [] OTHER        -> FlowRow(t, Flow, s[t])]
  /\ log = [s \in Session |-> 0]
  /\ fresh = Task \ Start
  /\ due = {}
  /\ rows = [t \in Task |-> NoRow]
  /\ detail = NoDetail
  /\ text = << >>
  /\ refused = None
  /\ preview = None
  /\ busy = [k \in Kind |-> None]
  /\ feed = [state |-> "opening", inbox |-> << >>]
  /\ stream = [state |-> "none", inbox |-> << >>]
  /\ asked = [w \in Owner |-> IF w = "page" THEN 1 ELSE 0]
  /\ read = << >>
  /\ history = {}
  /\ outputs = {}
  /\ sent = {}
  /\ torn = Start
  /\ left = [write |-> MaxWrite, fault |-> MaxFault, look |-> MaxLook]

----------------------------------------------------------------------------
(* The server.  A write is committed, then its thread reads the row back,   *)
(* then it publishes what it read: three steps of threads that run at the  *)
(* same time.  What the hub appends to a subscriber's queue is in the      *)
(* order of these appends, whatever the order of the commits; taking the   *)
(* list of subscribers and appending to it is one step, for a page that    *)
(* subscribes in between is told nothing, as if it came later.             *)

Commit(by, t, r) ==
  /\ board' = [board EXCEPT ![t] = r]
  /\ due' = due \cup {[by |-> by, task |-> t, row |-> r, read |-> r = NoRow]}

(* At most one write of a kind and task is under way (a bound). *)
Writes(by, t, r) == (\A d \in due : d.by # by) /\ Commit(by, t, r)

(* The statement that claims a row publishes nothing: the dispatcher's     *)
(* next write of that row does.                                            *)
Claim(t) ==
  /\ board[t].status = "queued"
  /\ Spend("write")
  /\ Writes(<<"claim", t>>, t, [board[t] EXCEPT !.status = "running"])
  /\ UNCHANGED <<log, fresh, list, panel, refused, busy, feed, sent>>

End(t) ==
  /\ board[t].status = "running"
  /\ Spend("write")
  /\ Writes(<<"end", t>>, t, [board[t] EXCEPT !.status = "ended"])
  /\ UNCHANGED <<log, fresh, list, panel, refused, busy, feed, sent>>

(* The answer of the gateway, a rename, a dependency removed: the row is   *)
(* written and published although its status stays.                        *)
Touch(t) ==
  /\ board[t].status # "absent"
  /\ Spend("write")
  /\ Writes(<<"touch", t>>, t, board[t])
  /\ UNCHANGED <<log, fresh, list, panel, refused, busy, feed, sent>>

Named(c) == <<c.kind, c.of>>

(* Reading back a row that is gone raises an error: nothing is published,  *)
(* and the command that wrote it is answered with it.                      *)
Refresh(d) ==
  /\ d \in due /\ ~d.read
  /\ IF board[d.task].status # "absent"
     THEN /\ due' = (due \ {d}) \cup {[d EXCEPT !.row = board[d.task], !.read = TRUE]}
          /\ UNCHANGED sent
     ELSE /\ due' = due \ {d}
          /\ sent' = {IF Named(c) = d.by THEN [c EXCEPT !.state = "refused"] ELSE c : c \in sent}
  /\ UNCHANGED <<board, log, fresh, list, panel, refused, busy, feed, left>>

Unheard(shown, t, r) == IF shown[t] = r THEN {} ELSE {t}

Publish(d) ==
  /\ d \in due /\ d.read
  /\ due' = due \ {d}
  /\ IF feed.state = "open"
     THEN /\ feed' = [feed EXCEPT !.inbox =
                        Append(@, [task |-> d.task, row |-> d.row, late |-> d.row # board[d.task]])]
          /\ UNCHANGED <<torn, read>>
     ELSE /\ torn' = torn \cup Unheard(rows, d.task, d.row)
          /\ read' = [i \in DOMAIN read |->
                        [read[i] EXCEPT !.over = @ \cup Unheard(read[i].rows, d.task, d.row)]]
          /\ UNCHANGED feed
  /\ UNCHANGED <<board, log, fresh, rows, panel, refused, busy, asked, sent, left>>

Watched == detail.row.session

(* The agent says a piece, which goes to whoever is subscribed. *)
Speak(t) ==
  LET s == board[t].session IN
  /\ board[t].status = "running"
  /\ log[s] < MaxPiece
  /\ log' = [log EXCEPT ![s] = @ + 1]
  /\ stream' = IF stream.state = "open" /\ Watched = s
               THEN [stream EXCEPT !.inbox = Append(@, <<s, log[s] + 1>>)] ELSE stream
  /\ UNCHANGED <<board, fresh, due, list, detail, text, refused, preview, busy, feed, history, outputs, sent, left>>

----------------------------------------------------------------------------
(* The effects that run when the record of the selected task changes, also *)
(* when an equal record replaces it: the session is read and subscribed    *)
(* again, and the output is asked for again.                               *)

Wants(d) == d.task # None /\ d.row.status = "ended"

AskHistory(s) == IF s = refused THEN {} ELSE {[session |-> s, read |-> -1]}

AskOutput(t) == [task |-> t, live |-> TRUE]

Cancelled == {[o EXCEPT !.live = FALSE] : o \in outputs}

SessionEffect(d, shown) ==
  /\ stream' = [state |-> IF d.task # None THEN "opening" ELSE "none", inbox |-> << >>]
  /\ history' = history \cup (IF d.task # None THEN AskHistory(d.row.session) ELSE {})
  /\ text' = shown

PreviewEffect(d, shown) ==
  /\ outputs' = Cancelled \cup (IF Wants(d) THEN {AskOutput(d.task)} ELSE {})
  /\ preview' = IF Wants(d) THEN shown ELSE None

SelectWithoutClosing(d) ==
  /\ detail' = d
  /\ PreviewEffect(d, preview)
  /\ IF d.task = None THEN UNCHANGED <<stream, history, text>> ELSE SessionEffect(d, text)

Select(d) ==
  /\ detail' = d
  /\ SessionEffect(d, text)
  /\ PreviewEffect(d, preview)

----------------------------------------------------------------------------
(* The list. *)

FollowNever(now) == UNCHANGED panel

(* The detail follows the row of its task in new records; when there is    *)
(* none the old copy stays open.                                           *)
Follow(now) ==
  IF detail.task # None /\ now[detail.task].status # "absent"
  THEN Select([task |-> detail.task, row |-> now[detail.task]])
  ELSE UNCHANGED panel

ReadLoad(w) ==
  /\ asked[w] > 0
  /\ asked' = [asked EXCEPT ![w] = @ - 1]
  /\ read' = Append(read, [by |-> w, rows |-> board, over |-> {}])
  /\ UNCHANGED <<server, rows, panel, refused, busy, feed, sent, torn, left>>

Freed(w) == IF w \in Kind THEN [busy EXCEPT ![w] = None] ELSE busy

LoadAnswered(i) ==
  /\ rows' = read[i].rows
  /\ torn' = read[i].over
  /\ read' = RemoveAt(read, i)
  /\ busy' = Freed(read[i].by)
  /\ Follow(rows')
  /\ UNCHANGED <<server, refused, feed, asked, sent, left>>

LoadFails(w) ==
  /\ asked[w] > 0
  /\ Spend("fault")
  /\ asked' = [asked EXCEPT ![w] = @ - 1]
  /\ busy' = Freed(w)
  /\ UNCHANGED <<server, rows, read, torn, panel, refused, feed, sent>>

UpsertedIfKnown(e) == IF rows[e.task].status = "absent" THEN rows ELSE [rows EXCEPT ![e.task] = e.row]

(* The row of an event replaces the page's or is added. *)
Upserted(e) == [rows EXCEPT ![e.task] = e.row]

(* Ghost: an event settles what the page knows of its task, unless the row *)
(* had changed again before it was published; a pending load that shows    *)
(* something else will unsettle it.                                        *)
Settled(before, e, shown) ==
  IF e.late \/ shown[e.task] # e.row THEN before \cup {e.task} ELSE before \ {e.task}

BoardEvent ==
  /\ feed.inbox # << >>
  /\ feed' = [feed EXCEPT !.inbox = Tail(@)]
  /\ LET e == Head(feed.inbox) IN
       /\ rows' = Upserted(e)
       /\ torn' = IF e.late THEN torn \cup {e.task} ELSE torn \ {e.task}
       /\ read' = [i \in DOMAIN read |->
                     [read[i] EXCEPT !.over = Settled(@, e, read[i].rows)]]
       /\ IF e.task # detail.task THEN UNCHANGED panel
          ELSE IF e.row.status = "absent" THEN Select(NoDetail)
          ELSE Follow(rows')
  /\ UNCHANGED <<server, refused, busy, asked, sent, left>>

FeedBreaks ==
  /\ feed.state = "open"
  /\ Spend("fault")
  /\ feed' = [state |-> "broken", inbox |-> << >>]
  /\ LET lost == {feed.inbox[i].task : i \in DOMAIN feed.inbox} IN
       /\ torn' = torn \cup lost
       /\ read' = [i \in DOMAIN read |-> [read[i] EXCEPT !.over = @ \cup lost]]
  /\ UNCHANGED <<server, rows, panel, refused, busy, asked, sent>>

(* The page connects again after a pause, without loading the list again. *)
FeedReconnects ==
  /\ feed.state = "broken"
  /\ feed' = [feed EXCEPT !.state = "opening"]
  /\ UNCHANGED <<server, list, panel, refused, busy, sent, left>>

FeedOpens ==
  /\ feed.state = "opening"
  /\ feed' = [feed EXCEPT !.state = "open"]
  /\ UNCHANGED <<server, list, panel, refused, busy, sent, left>>

----------------------------------------------------------------------------
(* The messages of the detail's session. *)

ReadHistory(h) ==
  /\ h \in history /\ h.read = -1
  /\ history' = (history \ {h}) \cup {[h EXCEPT !.read = log[h.session]]}
  /\ UNCHANGED <<server, list, detail, text, refused, preview, busy, feed, stream, outputs, sent, left>>

(* Nothing compares the answer's session with the one the detail shows. *)
HistoryAnswered(h) ==
  /\ h \in history /\ h.read >= 0
  /\ history' = history \ {h}
  /\ text' = Text(h.session, h.read)
  /\ refused' = None
  /\ UNCHANGED <<server, list, detail, preview, busy, feed, stream, outputs, sent, left>>

(* After a 503 the session is not asked for again. *)
HistoryFails(h) ==
  /\ Spend("fault")
  /\ history' = history \ {h}
  /\ refused' \in {refused, h.session}
  /\ UNCHANGED <<server, list, detail, text, preview, busy, feed, stream, outputs, sent>>

PollsWhileBroken == Watched # None /\ stream.state = "broken"

Polls == Watched # None

Poll ==
  /\ Polls
  /\ history' = history \cup AskHistory(Watched)
  /\ UNCHANGED <<server, list, detail, text, refused, preview, busy, feed, stream, outputs, sent, left>>

IsSuffixOf(s, t) == Len(s) <= Len(t) /\ SubSeq(t, Len(t) - Len(s) + 1, Len(t)) = s

MergeStreamingAssistantText(old, new) ==
  IF IsPrefix(old, new) THEN new
  ELSE IF IsPrefix(new, old) \/ IsSuffixOf(new, old) THEN old
  ELSE old \o new

SessionEvent ==
  /\ stream.inbox # << >>
  /\ stream' = [stream EXCEPT !.inbox = Tail(@)]
  /\ text' = MergeStreamingAssistantText(text, << Head(stream.inbox) >>)
  /\ UNCHANGED <<server, list, detail, refused, preview, busy, feed, history, outputs, sent, left>>

StreamOpens ==
  /\ stream.state = "opening"
  /\ stream' = [stream EXCEPT !.state = "open"]
  /\ UNCHANGED <<server, list, detail, text, refused, preview, busy, feed, history, outputs, sent, left>>

(* A server that has fallen too far behind says so before it closes the    *)
(* stream, and the page reads the session again at once.                   *)
StreamBreaks(told) ==
  /\ stream.state = "open"
  /\ Spend("fault")
  /\ stream' = [state |-> "broken", inbox |-> << >>]
  /\ history' = IF told THEN history \cup AskHistory(Watched) ELSE history
  /\ UNCHANGED <<server, list, detail, text, refused, preview, busy, feed, outputs, sent>>

StreamReconnects ==
  /\ stream.state = "broken"
  /\ stream' = [stream EXCEPT !.state = "opening"]
  /\ history' = history \cup AskHistory(Watched)
  /\ UNCHANGED <<server, list, detail, text, refused, preview, busy, feed, outputs, sent, left>>

----------------------------------------------------------------------------
(* The output of the detail's task. *)

AcceptsAny(o) == TRUE

Accepts(o) == o.live

OutputAnswered(o, ok) ==
  /\ IF ok THEN UNCHANGED left ELSE Spend("fault")
  /\ outputs' = outputs \ {o}
  /\ preview' = IF ~Accepts(o) THEN preview ELSE IF ok THEN o.task ELSE None
  /\ UNCHANGED <<server, list, detail, text, refused, busy, feed, stream, history, sent>>

----------------------------------------------------------------------------
(* The commands. *)

Members(r, x) == {t \in Task : r[t].status # "absent" /\ r[t].flow = x}
StatusesOf(r, x) == {r[t].status : t \in Members(r, x)}

FlowState(r, x) ==
  IF {"queued", "running"} \cap StatusesOf(r, x) # {} THEN "running"
  ELSE IF "blocked" \in StatusesOf(r, x) THEN "blocked"
  ELSE "idle"

(* rows: the number of rows the command makes; todo, new: what the server  *)
(* has yet to write and to make.                                           *)
SentNow(k, x, n) ==
  [kind |-> k, of |-> x, rows |-> n, state |-> "sent", todo |-> {}, new |-> {}]

(* A command of a kind disables its button until the list is loaded again; *)
(* the answer to another of that kind enables it early.  Deletions and     *)
(* creations disable nothing.  Of two equal ones one is in flight.         *)
Give(k, x, n) ==
  /\ busy[k] # x
  /\ \A c \in sent : Named(c) # <<k, x>>
  /\ Spend("write")
  /\ busy' = IF k \in {"delete", "create"} THEN busy ELSE [busy EXCEPT ![k] = x]
  /\ sent' = sent \cup {SentNow(k, x, n)}
  /\ UNCHANGED <<server, list, panel, refused, feed>>

(* What the page offers depends on the rows and the detail it shows. *)
InterruptSelectedTask == detail.row.status = "running" /\ Give("interrupt", detail.task, 0)
ContinueSelectedTask == detail.row.status = "blocked" /\ Give("continue", detail.task, 0)
DeleteTaskNode == detail.task # None /\ Give("delete", detail.task, 0)
CreateTask == Give("create", Flow, 1)

FlowIdle(x) == busy["stopFlow"] # x /\ busy["continueFlow"] # x

InterruptFlow(x) == FlowState(rows, x) = "running" /\ FlowIdle(x) /\ Give("stopFlow", x, 0)
ContinueFlow(x) == FlowState(rows, x) = "blocked" /\ FlowIdle(x) /\ Give("continueFlow", x, 0)

(* A run names the nodes of the rows the page shows. *)
RunFlow(x) ==
  /\ Members(rows, x) # {} /\ FlowState(rows, x) = "idle"
  /\ Give("runFlow", x, Cardinality(Members(rows, x)))

Answered(c, d) == sent' = (sent \ {c}) \cup {d}

OnTask == {"interrupt", "continue", "delete"}

(* The rows a handler finds and goes through: the row of a task in one of  *)
(* the statuses the command is for, all rows of a flow.                    *)
Found(c) ==
  CASE c.kind = "interrupt" -> {t \in {c.of} : board[t].status \in {"queued", "running"}}
    [] c.kind = "continue"  -> {t \in {c.of} : board[t].status = "blocked"}
    [] c.kind = "delete"    -> {c.of}
    [] c.kind = "create"    -> {}
    [] OTHER                -> Members(board, c.of)

NotFound(c) ==
  \/ c.kind \in OnTask /\ board[c.of].status = "absent"
  \/ c.kind \in {"stopFlow", "continueFlow"} /\ Members(board, c.of) = {}

(* The new rows take ids no row has had (Task bounds them). *)
Accept(c) ==
  /\ c.state = "sent"
  /\ IF NotFound(c)
     THEN Answered(c, [c EXCEPT !.state = "refused"]) /\ UNCHANGED fresh
     ELSE \E new \in {n \in SUBSET fresh : Cardinality(n) = c.rows} :
            /\ Answered(c, [c EXCEPT !.state = "running", !.todo = Found(c), !.new = new])
            /\ fresh' = fresh \ new
  /\ UNCHANGED <<board, log, due, list, panel, refused, busy, feed, left>>

(* A handler goes on when its last write is published. *)
Ready(c) == c.state = "running" /\ \A d \in due : d.by # Named(c)

Written(c, t) ==
  CASE c.kind \in {"delete", "runFlow"} -> NoRow
    [] c.kind = "interrupt" -> [board[t] EXCEPT !.status = "blocked"]
    [] c.kind = "continue"  -> [board[t] EXCEPT !.status = "queued"]
    [] c.kind = "stopFlow" /\ board[t].status \in {"queued", "running"}
                            -> [board[t] EXCEPT !.status = "blocked"]
    [] c.kind = "continueFlow" /\ board[t].status = "blocked"
                            -> [board[t] EXCEPT !.status = "queued"]
    [] OTHER                -> board[t]

(* A handler meets a row that is gone: writing it raises an error, but a   *)
(* deletion may go on, for one the session had loaded.                     *)
RowGone(c, t) ==
  /\ Ready(c) /\ t \in c.todo
  /\ board[t].status = "absent" /\ c.kind # "delete"
  /\ Answered(c, [c EXCEPT !.state = "refused"])
  /\ UNCHANGED <<server, list, panel, refused, busy, feed, left>>

(* Stopping writes every row of the flow, continuing only blocked ones. *)
HandleRow(c, t) ==
  /\ Ready(c) /\ t \in c.todo
  /\ board[t].status # "absent" \/ c.kind \in {"delete", "runFlow"}
  /\ IF c.kind = "continueFlow" /\ board[t].status # "blocked"
     THEN UNCHANGED <<board, due>> ELSE Commit(Named(c), t, Written(c, t))
  /\ Answered(c, [c EXCEPT !.todo = @ \ {t}])
  /\ UNCHANGED <<log, fresh, list, panel, refused, busy, feed, left>>

Created(c, t) == IF c.kind = "create" THEN QuickRow(t, "queued") ELSE FlowRow(t, c.of, "queued")

MakeRow(c, t) ==
  /\ Ready(c) /\ c.todo = {} /\ t \in c.new
  /\ Commit(Named(c), t, Created(c, t))
  /\ Answered(c, [c EXCEPT !.new = @ \ {t}])
  /\ UNCHANGED <<log, fresh, list, panel, refused, busy, feed, left>>

Executed(c) == Ready(c) /\ c.todo = {} /\ c.new = {}

(* Then the list is loaded again; the button stays disabled until it is. *)
CommandDone(c) ==
  /\ Executed(c)
  /\ sent' = sent \ {c}
  /\ asked' = [asked EXCEPT ![c.kind] = @ + 1]
  /\ IF c.kind = "delete" /\ c.of = detail.task THEN Select(NoDetail) ELSE UNCHANGED panel
  /\ UNCHANGED <<server, rows, read, torn, refused, busy, feed, left>>

(* Refused, or lost before or after the server executed it. *)
CommandFails(c) ==
  /\ \/ c.state = "refused" /\ UNCHANGED left
     \/ (c.state = "sent" \/ Executed(c)) /\ Spend("fault")
  /\ sent' = sent \ {c}
  /\ busy' = Freed(c.kind)
  /\ UNCHANGED <<server, list, panel, refused, feed>>

----------------------------------------------------------------------------
OpenTaskDetail(t) ==
  /\ rows[t].status # "absent" /\ detail.task = None
  /\ Spend("look")
  /\ detail' = [task |-> t, row |-> rows[t]]
  /\ SessionEffect(detail', << >>)
  /\ PreviewEffect(detail', None)
  /\ UNCHANGED <<server, list, refused, busy, feed, sent>>

CloseTaskDetail ==
  /\ detail.task # None
  /\ Spend("look")
  /\ Select(NoDetail)
  /\ UNCHANGED <<server, list, refused, busy, feed, sent>>

Server ==
  \/ \E t \in Task : Claim(t) \/ End(t) \/ Touch(t) \/ Speak(t)
  \/ \E d \in due : Refresh(d) \/ Publish(d)
List ==
  \/ \E w \in Owner : ReadLoad(w) \/ LoadFails(w)
  \/ \E i \in DOMAIN read : LoadAnswered(i)
  \/ BoardEvent \/ FeedBreaks \/ FeedReconnects \/ FeedOpens
Panel ==
  \/ \E h \in history : ReadHistory(h) \/ HistoryAnswered(h) \/ HistoryFails(h)
  \/ Poll \/ SessionEvent \/ StreamOpens \/ StreamReconnects
  \/ \E told \in BOOLEAN : StreamBreaks(told)
  \/ \E o \in outputs, ok \in BOOLEAN : OutputAnswered(o, ok)
Commands ==
  \/ InterruptSelectedTask \/ ContinueSelectedTask \/ DeleteTaskNode \/ CreateTask
  \/ \E x \in Flows : InterruptFlow(x) \/ ContinueFlow(x) \/ RunFlow(x)
  \/ \E c \in sent :
       \/ Accept(c) \/ CommandDone(c) \/ CommandFails(c)
       \/ \E t \in Task : RowGone(c, t) \/ HandleRow(c, t) \/ MakeRow(c, t)

Next == Server \/ List \/ Panel \/ Commands \/ CloseTaskDetail \/ \E t \in Task : OpenTaskDetail(t)

(* The interval of the poll fires, and the server reads and answers a      *)
(* request for the history of a session.                                   *)
Fairness ==
  /\ WF_vars(Poll)
  /\ \A s \in Session :
       /\ WF_vars(ReadHistory([session |-> s, read |-> -1]))
       /\ WF_vars(\E n \in 0 .. MaxPiece :
                    HistoryAnswered([session |-> s, read |-> n]))

Spec == Init /\ [][Next]_vars
FairSpec == Spec /\ Fairness

----------------------------------------------------------------------------
(* Types; a detail and only a detail has a stream; and only the detail's own *)
(* output is asked for without being cancelled.                            *)
TypeOK ==
  /\ board \in Rows /\ rows \in Rows
  /\ log \in [Session -> 0 .. MaxPiece]
  /\ due \subseteq Writing
  /\ detail \in Detail \cup {NoDetail}
  /\ text \in Seq(Piece)
  /\ refused \in Session \cup {None} /\ preview \in Task \cup {None}
  /\ busy \in [Kind -> Flows \cup {None}]
  /\ feed.inbox \in Seq(BoardUpdate)
  /\ feed.state \in Link /\ stream.state \in Link
  /\ asked \in [Owner -> Nat]
  /\ history \subseteq [session : Session, read : -1 .. MaxPiece]
  /\ outputs \subseteq [task : Task, live : BOOLEAN]
  /\ torn \subseteq Task
  /\ stream.state = "none" <=> Watched = None
  /\ \A o \in outputs : o.live => o.task = detail.task

(* The page's row of a task is the board's, unless more is to come of it   *)
(* (a write not yet published, an event not yet heard) or torn names the   *)
(* task.  It does when an event the page needed was missed by a feed that  *)
(* was not open, when the row told last was published after a later write  *)
(* had been committed, or when a load that shows another row than the      *)
(* event before it came last (loadOverview, applyBoardRealtimeUpdate: both *)
(* write taskRecords, one as a whole, the other row by row).  The code     *)
(* prevents none of the three.                                             *)
ListFollows ==
  \A t \in Task :
    \/ rows[t] = board[t]
    \/ t \in torn
    \/ \E d \in due : d.task = t
    \/ \E i \in DOMAIN feed.inbox : feed.inbox[i].task = t

(* No output but the detail's is ever shown, however the answers of        *)
(* earlier details are delayed (the output effect and its cancellation).   *)
OwnOutput == preview \in {None, detail.task}

(* An open detail shows the very row the list shows, for as long as the    *)
(* list has one: the detail is a copy, and loads, events and the answers   *)
(* to commands replace the rows it was taken from (the effect that looks   *)
(* the selected task up again).                                            *)
DetailFollows ==
  detail.task # None /\ rows[detail.task].status # "absent" => detail.row = rows[detail.task]

(* Whatever a session has said appears in its detail, although chunks are  *)
(* lost with a stream and answers of other sessions are painted over it:   *)
(* the poll repairs the text (useCollabTaskSessionRuntime), except after   *)
(* a 503.                                                                  *)
PanelCatchesUp ==
  \A s \in Session, n \in 1 .. MaxPiece :
    Watched = s /\ log[s] >= n ~> Watched # s \/ refused = s \/ IsPrefix(Text(s, n), text)
==============================================================================
