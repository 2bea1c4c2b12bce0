-------------------------- MODULE PlannerPageProofs --------------------------
(* Proofs about the flow page as a client of planner sessions, for any     *)
(* flows, sessions and bounds.                                             *)
EXTENDS PlannerPage, FiniteSetTheorems, WellFoundedInduction, TLAPS

(* The nodes are the user's own or were planned for a flow.                *)
Mine(nodes, f, o) == \A n \in nodes : n # Own => o[n[1]] = f

MyOps(f, o) == {x \in Operation : Mine({x.node}, f, o)}

(* A page that holds nothing of another flow than its own.                 *)
PageOf(p, o) ==
  /\ p \in Page /\ p.rev \in -1 .. MaxTurn
  /\ p.ops # << >> \/ p.snaps # {} => p.flush # None
  /\ Mine(p.canvas, p.flow, o)
  /\ p.ops \in Seq(MyOps(p.flow, o))
  /\ \A w \in p.snaps : Mine(w[2], p.flow, o)

KeyOf(key, f, o) == key # None => o[key] = f

KeptOf(k, f, o) == k \in Kept /\ Mine(k.canvas, f, o) /\ KeyOf(k.key, f, o)

SessionOf(s, v, o) ==
  /\ v \in ServerSession /\ v.rev \in 0 .. MaxTurn
  /\ v.status = "none" => v = NoSession
  /\ v.status # "none" => o[s] \in Flow
  /\ Mine(v.nodes, o[s], o)

EventOf(e, f, o) ==
  /\ e \in Event /\ e.of.rev \in 0 .. MaxTurn /\ e.of.status # "none"
  /\ Mine(e.of.nodes, f, o)
  /\ e.ops \in Seq(MyOps(f, o))

CallOf(c, o, last, sessions) ==
  /\ c \in Call /\ o[c.key] = c.flow /\ Mine(c.nodes, c.flow, o)
  /\ c.kind = "generate" => c.id \in 1 .. last
  /\ c.stage \in {"ensured", "instructed"} => sessions[c.key].status # "none"

(* The inductive invariant of types and owners.                            *)
PageInv ==
  /\ PageOf(page, owner) /\ KeyOf(page.key, page.flow, owner)
  /\ kept \in [Flow -> Kept] /\ \A f \in Flow : KeptOf(kept[f], f, owner)
  /\ server \in [Session -> ServerSession]
  /\ \A s \in Session : SessionOf(s, server[s], owner)
  /\ link \in Link /\ (link.stage = "off" <=> page.key = None)
  /\ link.stage \notin {"join", "open"} => link.inbox = << >>
  /\ link.stage \in {"wait", "join", "open"} => server[page.key].status # "none"
  /\ \A i \in DOMAIN link.inbox : EventOf(link.inbox[i], page.flow, owner)
  /\ \A c \in calls : CallOf(c, owner, prompts, server)
  /\ owner \in [Session -> Flow \cup {None}]
  /\ prompts \in Nat /\ cuts \in Nat
  /\ page.pending <= prompts /\ \A f \in Flow : kept[f].pending <= prompts

(* The user has the last word, or nobody has said anything.                *)
Unanswered(chat) == chat = << >> \/ chat[Len(chat)] = "u"

Heard(key, chat, sessions) ==
  Unanswered(chat) \/ (key # None /\ sessions[key].lines # << >>)

(* The page a plan was asked for still shows the plan's session, or none.  *)
Follows(c, key, pending) == c.kind = "generate" /\ c.id = pending => key \in {None, c.key}

(* What is said stays: of the messages on their way only the first may be  *)
(* empty, and none once the planner was heard.                             *)
Empty(e) == e.kind = "messages" /\ e.of.lines = << >>
Telling(inbox, stage, chat, lines) ==
  /\ \A i \in DOMAIN inbox : inbox[i].of.lines # << >> => lines # << >>
  /\ stage = "join" \/ ~Unanswered(chat) => \A i \in DOMAIN inbox : ~Empty(inbox[i])
  /\ \A i, j \in DOMAIN inbox : i < j /\ inbox[i].kind = "messages" => ~Empty(inbox[j])

AllFollow(asked, p, k) ==
  \A c \in asked : IF c.flow = p.flow THEN Follows(c, p.key, p.pending)
                   ELSE Follows(c, k[c.flow].key, k[c.flow].pending)

AllHeard(p, k, sessions) ==
  /\ Heard(p.key, p.chat, sessions)
  /\ \A f \in Flow : Heard(k[f].key, k[f].chat, sessions)

ChatInv ==
  /\ AllHeard(page, kept, server)
  /\ link.stage = "absent" => Unanswered(page.chat)
  /\ Telling(link.inbox, link.stage, page.chat, server[page.key].lines)
  /\ AllFollow(calls, page, kept)

-----------------------------------------------------------------------------
(* The operation queue.                                                    *)

LEMMA LeastPlace ==
  ASSUME NEW S, S \subseteq Nat, S # {}
  PROVE  \E m \in S : \A n \in S : m <= n
<1>1. IsWellFoundedOn(OpToRel(<, Nat), Nat)
  BY NatLessThanWellFounded
<1>2. PICK m \in S : \A n \in S : ~(<<n, m>> \in OpToRel(<, Nat))
  BY <1>1, WFMin, Zenon
<1>3. \A n \in S : ~(n < m)
  BY <1>2 DEF OpToRel
<1> QED
  BY <1>3

(* What a filter leaves of the queue: every operation left was there.      *)
LEMMA OpsButLeaves ==
  ASSUME NEW T, NEW p, p.ops \in Seq(T), NEW s
  PROVE  OpsBut(p, s) \in Seq({o \in T : o.key # s})
<1> DEFINE q == p.ops
           U == {o \in T : o.key # s}
<1>1. Len(q) \in Nat /\ \A i \in 1 .. Len(q) : q[i] \in T
  OBVIOUS
<1> DEFINE N == 0 .. Len(q)
           body(f, i) == IF i = 0 THEN << >>
                         ELSE IF q[i].key = s THEN f[i - 1] ELSE Append(f[i - 1], q[i])
           Fits(f, n) == f \in [0 .. n -> Seq(U)] /\ \A i \in 0 .. n : f[i] = body(f, i)
           Bad == {n \in N : ~\E f : Fits(f, n)}
<1>2. Bad = {}
  <2> SUFFICES ASSUME Bad # {} PROVE FALSE
    OBVIOUS
  <2>1. PICK m \in Bad : \A n \in Bad : m <= n
    <3>1. Bad \subseteq Nat
      BY <1>1
    <3> HIDE DEF Bad
    <3> QED
      BY <3>1, LeastPlace
  <2>2. CASE m = 0
    <3> DEFINE z == [i \in 0 .. 0 |-> << >>]
    <3>1. z \in [0 .. 0 -> Seq(U)] /\ \A i \in 0 .. 0 : z[i] = body(z, i)
      OBVIOUS
    <3>2. \E f : Fits(f, 0)
      BY <3>1
    <3> HIDE DEF Fits
    <3> QED
      BY <2>1, <2>2, <3>2
  <2>3. CASE m # 0
    <3>0. m \in N
      BY <2>1, Zenon
    <3>1. m \in Nat /\ m - 1 \in N /\ m \in 1 .. Len(q)
      <4> HIDE DEF q, Bad, Fits, body
      <4> QED
        BY <1>1, <2>3, <3>0
    <3>2. m - 1 \notin Bad
      <4> HIDE DEF Bad
      <4> QED
        BY <2>1, <3>1
    <3>3. PICK f : Fits(f, m - 1)
      BY <3>1, <3>2
    <3> DEFINE g == [i \in 0 .. m |-> IF i = m THEN body(f, m) ELSE f[i]]
    <3>4. f[m - 1] \in Seq(U) /\ q[m] \in T
      BY <1>1, <3>1, <3>3
    <3>5. body(f, m) \in Seq(U)
      BY <3>1, <3>4
    <3>6. g \in [0 .. m -> Seq(U)]
      BY <3>1, <3>3, <3>5
    <3>7. ASSUME NEW i \in 0 .. m PROVE g[i] = body(g, i)
      <4>1. CASE i = m
        <5>1. g[m - 1] = f[m - 1]
          BY <3>1
        <5> QED
          BY <3>1, <4>1, <5>1
      <4>2. CASE i # m
        <5>1. i \in 0 .. m - 1 /\ g[i] = f[i] /\ (i # 0 => g[i - 1] = f[i - 1])
          BY <3>1, <4>2
        <5>2. f[i] = body(f, i)
          BY <3>3, <5>1
        <5> QED
          BY <5>1, <5>2
      <4> QED
        BY <4>1, <4>2
    <3>8. Fits(g, m)
      BY <3>6, <3>7
    <3> QED
      BY <3>8
  <2> QED
    BY <2>2, <2>3
<1>3. PICK f : Fits(f, Len(q))
  <2> HIDE DEF q, Fits
  <2>1. Len(q) \in N /\ Len(q) \notin Bad
    BY <1>1, <1>2
  <2> QED
    BY <2>1, Zenon
<1> DEFINE Left == CHOOSE h : h = [i \in 0 .. Len(q) |-> body(h, i)]
<1>4. f = [i \in 0 .. Len(q) |-> body(f, i)]
  BY <1>3
<1>5. Left = [i \in 0 .. Len(q) |-> body(Left, i)]
  BY <1>4
<1> HIDE DEF Left
<1>6. ASSUME NEW i \in N PROVE Left[i] = f[i]
  <2> DEFINE Odd == {n \in N : Left[n] # f[n]}
  <2> SUFFICES ASSUME Odd # {} PROVE FALSE
    OBVIOUS
  <2>1. PICK m \in Odd : \A n \in Odd : m <= n
    <3>1. Odd \subseteq Nat
      BY <1>1
    <3> HIDE DEF Odd
    <3> QED
      BY <3>1, LeastPlace
  <2>2. m \in N /\ Left[m] = body(Left, m) /\ f[m] = body(f, m)
    BY <1>3, <1>5
  <2>3. CASE m = 0
    BY <2>1, <2>2, <2>3
  <2>4. CASE m # 0
    <3>1. m - 1 \in N /\ m - 1 \notin Odd
      BY <1>1, <2>1, <2>4
    <3> QED
      BY <2>1, <2>2, <2>4, <3>1
  <2> QED
    BY <2>3, <2>4
<1>7. OpsBut(p, s) = Left[Len(q)]
  BY DEF OpsBut, Left
<1> QED
  BY <1>1, <1>3, <1>6, <1>7

LEMMA OpsButType ==
  ASSUME NEW T, NEW p, p.ops \in Seq(T), NEW s
  PROVE  OpsBut(p, s) \in Seq(T)
<1>1. OpsBut(p, s) \in Seq({o \in T : o.key # s})
  BY OpsButLeaves
<1> QED
  BY <1>1

LEMMA NextOfType ==
  ASSUME NEW T, NEW p, p.ops \in Seq(T), NEW s
  PROVE  /\ NextOf(p, s) \in 0 .. Len(p.ops)
         /\ NextOf(p, s) # 0 => p.ops[NextOf(p, s)] \in T /\ p.ops[NextOf(p, s)].key = s
         /\ NextOf(p, s) = 0 => \A i \in 1 .. Len(p.ops) : p.ops[i].key # s
<1> DEFINE I == {i \in 1 .. Len(p.ops) : p.ops[i].key = s}
<1>1. CASE I = {}
  BY <1>1 DEF NextOf, SelectInSeq
<1>2. CASE I # {}
  <2>1. I \subseteq Nat
    OBVIOUS
  <2>2. \E m \in I : \A n \in I : m <= n
    BY <1>2, <2>1, LeastPlace
  <2>3. Min(I) \in I
    <3> HIDE DEF I
    <3> QED
      BY <2>2 DEF Min
  <2>4. NextOf(p, s) = Min(I)
    BY <1>2 DEF NextOf, SelectInSeq
  <2>5. NextOf(p, s) \in I
    <3> HIDE DEF I
    <3> QED
      BY <2>3, <2>4
  <2> QED
    BY <2>5
<1> QED
  BY <1>1, <1>2

LEMMA RemoveAtType ==
  ASSUME NEW T, NEW q \in Seq(T), NEW i \in 1 .. Len(q)
  PROVE  RemoveAt(q, i) \in Seq(T)
  BY DEF RemoveAt

-----------------------------------------------------------------------------
(* What is done to a page leaves it a page of its own flow.                *)

(* The same flow, session and conversation, and no new plan.               *)
Same(q, p) ==
  q.flow = p.flow /\ q.key = p.key /\ q.chat = p.chat /\ q.pending \in {p.pending, 0}

LEMMA SnapshotApplies ==
  ASSUME NEW p, NEW o, PageOf(p, o), NEW s
  PROVE  PageOf(ApplyPendingSnapshot(p, s), o) /\ Same(ApplyPendingSnapshot(p, s), p)
<1>1. CASE \E w \in p.snaps : w[1] = s
  <2> DEFINE w == CHOOSE w \in p.snaps : w[1] = s
             q == [p EXCEPT !.canvas = w[2], !.snaps = SnapsBut(p, s)]
  <2>1. ApplyPendingSnapshot(p, s) = q
    BY <1>1 DEF ApplyPendingSnapshot
  <2>2. w \in p.snaps
    BY <1>1
  <2> HIDE DEF w
  <2>3. p \in Page /\ w \in Session \X SUBSET Node
    BY <2>2 DEF PageOf, Page
  <2>4. q \in Page
    BY <2>3 DEF Page, SnapsBut
  <2> QED
    BY <2>1, <2>2, <2>3, <2>4 DEF PageOf, Same, SnapsBut, Page
<1>2. CASE ~\E w \in p.snaps : w[1] = s
  BY <1>2 DEF ApplyPendingSnapshot, Same
<1> QED
  BY <1>1, <1>2

LEMMA NextFlushType ==
  ASSUME NEW ops \in Seq(Operation), NEW snaps \in SUBSET (Session \X SUBSET Node)
  PROVE  /\ NextFlush(ops, snaps) \in Session \cup {None}
         /\ ops # << >> \/ snaps # {} => NextFlush(ops, snaps) # None
<1>1. CASE ops # << >>
  <2>1. Head(ops) \in Operation
    BY <1>1
  <2> QED
    BY <1>1, <2>1, PageAssumption DEF NextFlush, Operation
<1>2. CASE ops = << >> /\ snaps # {}
  <2>1. (CHOOSE w \in snaps : TRUE) \in Session \X SUBSET Node
    BY <1>2
  <2> QED
    BY <1>2, <2>1, PageAssumption DEF NextFlush
<1>3. CASE ops = << >> /\ snaps = {}
  BY <1>3 DEF NextFlush
<1> QED
  BY <1>1, <1>2, <1>3

LEMMA QueueClears ==
  ASSUME NEW p, NEW o, PageOf(p, o), NEW s
  PROVE  PageOf(ClearQueue(p, s), o) /\ Same(ClearQueue(p, s), p)
<1> DEFINE ops == OpsBut(p, s)
           snaps == SnapsBut(p, s)
           next == NextFlush(ops, snaps)
           q == ClearQueue(p, s)
<1>1. ops \in Seq(MyOps(p.flow, o)) /\ ops \in Seq(Operation)
  <2>1. p.ops \in Seq(MyOps(p.flow, o)) /\ p.ops \in Seq(Operation)
    BY DEF PageOf, Page
  <2> QED
    BY <2>1, OpsButType
<1>2. snaps \subseteq p.snaps /\ snaps \in SUBSET (Session \X SUBSET Node)
  BY DEF SnapsBut, PageOf, Page
<1>3. next \in Session \cup {None} /\ (ops # << >> \/ snaps # {} => next # None)
  BY <1>1, <1>2, NextFlushType
<1>4. q = [p EXCEPT !.ops = ops, !.snaps = snaps,
                    !.flush = IF p.flush \in {s, None} THEN next ELSE p.flush]
  BY DEF ClearQueue, PageOf, Page
<1> HIDE DEF ops, snaps, next, q
<1>5. q \in Page
  BY <1>1, <1>2, <1>3, <1>4 DEF PageOf, Page
<1>6. q.ops = ops /\ q.snaps = snaps /\ q.flush = (IF p.flush \in {s, None} THEN next ELSE p.flush)
      /\ q.canvas = p.canvas /\ q.flow = p.flow /\ q.rev = p.rev /\ Same(q, p)
  BY <1>4 DEF PageOf, Page, Same
<1>7. q.ops # << >> \/ q.snaps # {} => q.flush # None
  BY <1>3, <1>6
<1> QED
  BY <1>1, <1>2, <1>5, <1>6, <1>7 DEF PageOf, q

LEMMA AllQueuesClear ==
  ASSUME NEW p, NEW o, PageOf(p, o)
  PROVE  PageOf(ClearAllQueues(p), o) /\ Same(ClearAllQueues(p), p)
<1>1. p \in Page /\ << >> \in Seq(Operation) /\ << >> \in Seq(MyOps(p.flow, o))
  BY DEF PageOf
<1>2. ClearAllQueues(p) \in Page
  BY <1>1 DEF Page, ClearAllQueues
<1>3. /\ ClearAllQueues(p).ops = << >> /\ ClearAllQueues(p).snaps = {}
      /\ ClearAllQueues(p).canvas = p.canvas /\ ClearAllQueues(p).flow = p.flow
      /\ ClearAllQueues(p).rev = p.rev /\ Same(ClearAllQueues(p), p)
  BY <1>1 DEF Page, Same, ClearAllQueues
<1> QED
  BY <1>1, <1>2, <1>3 DEF PageOf

(* Flags do not count.                                                     *)
LEMMA FlagsKeep ==
  ASSUME NEW p, NEW o, PageOf(p, o), NEW q \in Page,
         q.flow = p.flow, q.canvas = p.canvas, q.ops = p.ops, q.snaps = p.snaps, q.flush = p.flush,
         q.rev = p.rev
  PROVE  PageOf(q, o)
  BY DEF PageOf

LEMMA SessionClears ==
  ASSUME NEW p, NEW o, PageOf(p, o), NEW s
  PROVE  PageOf(ClearSessionRuntime(p, s), o) /\ Same(ClearSessionRuntime(p, s), p)
<1> DEFINE through == ApplyPendingSnapshot(p, s)
           clear == ClearQueue(through, s)
<1>1. PageOf(through, o) /\ Same(through, p)
  BY SnapshotApplies
<1>2. PageOf(clear, o) /\ Same(clear, through)
  BY <1>1, QueueClears
<1> DEFINE q == [clear EXCEPT !.pending = 0]
<1>3. ClearSessionRuntime(p, s) = q
  BY DEF ClearSessionRuntime
<1> HIDE DEF clear, through
<1>4. q \in Page /\ PageOf(q, o)
  <2>1. q \in Page
    BY <1>2 DEF PageOf, Page
  <2>2. /\ q.flow = clear.flow /\ q.canvas = clear.canvas /\ q.ops = clear.ops
        /\ q.snaps = clear.snaps /\ q.flush = clear.flush /\ q.rev = clear.rev
    BY <1>2 DEF PageOf, Page
  <2> HIDE DEF q
  <2> QED
    BY <1>2, <2>1, <2>2, FlagsKeep
<1>5. Same(q, p)
  BY <1>1, <1>2 DEF PageOf, Page, Same
<1> QED
  BY <1>3, <1>4, <1>5

LEMMA Blocked ==
  ASSUME NEW p, NEW o, PageOf(p, o)
  PROVE  /\ PageOf(Blocks(p), o) /\ Same(Blocks(p), p)
         /\ PageOf(Unblocks(p), o) /\ Same(Unblocks(p), p)
         /\ PageOf(BlocksForAWhile(p), o) /\ Same(BlocksForAWhile(p), p)
         /\ PageOf(Waits(p), o) /\ Same(Waits(p), p)
<1> USE DEF PageOf
<1>1. PageOf(Blocks(p), o) /\ Same(Blocks(p), p)
  BY DEF Page, Same, Blocks
<1>2. PageOf(Unblocks(p), o) /\ Same(Unblocks(p), p)
  BY DEF Page, Same, Unblocks
<1>3. PageOf(BlocksForAWhile(p), o) /\ Same(BlocksForAWhile(p), p)
  BY DEF Page, Same, BlocksForAWhile
<1>4. PageOf(Waits(p), o) /\ Same(Waits(p), p)
  BY DEF Page, Same, Blocks, Waits, PageStatus
<1> QED
  BY <1>1, <1>2, <1>3, <1>4

LEMMA QueuePlays ==
  ASSUME NEW p, NEW o, PageOf(p, o), p.flush # None
  PROVE  PageOf(Play(p), o) /\ Same(Play(p), p)
<1> DEFINE s == p.flush
           i == NextOf(p, s)
           played == Played(p, i)
           through == ApplyPendingSnapshot(played, s)
           next == NextFlush(through.ops, through.snaps)
<1>1. PageOf(played, o) /\ Same(played, p) /\ played.flush = p.flush
  <2>1. CASE i = 0
    BY <2>1 DEF Played, Same
  <2>2. CASE i # 0
    <3> DEFINE x == p.ops[i]
               canvas == IF x.put THEN p.canvas \cup {x.node} ELSE p.canvas \ {x.node}
               ops == RemoveAt(p.ops, i)
    <3>1. p \in Page /\ p.ops \in Seq(MyOps(p.flow, o)) /\ p.ops \in Seq(Operation)
      BY DEF PageOf, Page
    <3>2. i \in 1 .. Len(p.ops) /\ x \in MyOps(p.flow, o)
      BY <2>2, <3>1, NextOfType
    <3>3. ops \in Seq(MyOps(p.flow, o)) /\ ops \in Seq(Operation)
      BY <3>1, <3>2, RemoveAtType
    <3>4. canvas \subseteq Node /\ Mine(canvas, p.flow, o)
      BY <3>1, <3>2 DEF MyOps, Operation, Mine, PageOf, Page
    <3>5. played = [p EXCEPT !.canvas = canvas, !.ops = ops]
      BY <2>2, <3>1 DEF Played, Page
    <3> HIDE DEF x, canvas, ops, played
    <3>6. played \in Page
      BY <3>1, <3>3, <3>4, <3>5 DEF Page
    <3>7. /\ played.canvas = canvas /\ played.ops = ops /\ played.snaps = p.snaps /\ played.flush = p.flush
          /\ played.flow = p.flow /\ played.rev = p.rev /\ Same(played, p)
      BY <3>1, <3>5 DEF Page, Same
    <3> QED
      BY <3>3, <3>4, <3>6, <3>7 DEF PageOf
  <2> QED
    BY <2>1, <2>2
<1>2. PageOf(through, o) /\ Same(through, played)
  BY <1>1, SnapshotApplies
<1>3. next \in Session \cup {None} /\ (through.ops # << >> \/ through.snaps # {} => next # None)
  <2>1. through.ops \in Seq(Operation) /\ through.snaps \in SUBSET (Session \X SUBSET Node)
    BY <1>2 DEF PageOf, Page
  <2> QED
    BY <2>1, NextFlushType
<1>4. Play(p) = IF NextOf(played, s) # 0 THEN played ELSE [through EXCEPT !.flush = next]
  BY DEF Play
<1> HIDE DEF played, through, next
<1>5. CASE NextOf(played, s) # 0
  BY <1>1, <1>4, <1>5
<1>6. CASE NextOf(played, s) = 0
  <2>1. Play(p) = [through EXCEPT !.flush = next] /\ through \in Page
    BY <1>2, <1>4, <1>6 DEF PageOf
  <2>2. Play(p) \in Page
    BY <1>3, <2>1 DEF Page
  <2>3. /\ Play(p).canvas = through.canvas /\ Play(p).ops = through.ops /\ Play(p).snaps = through.snaps
        /\ Play(p).flush = next /\ Play(p).flow = through.flow /\ Play(p).rev = through.rev
        /\ Same(Play(p), through)
    BY <2>1 DEF Page, Same
  <2>4. Same(Play(p), p)
    BY <1>1, <1>2, <2>3 DEF Same
  <2> QED
    BY <1>2, <1>3, <2>2, <2>3, <2>4 DEF PageOf
<1> QED
  BY <1>5, <1>6

-----------------------------------------------------------------------------
(* What an event does to the page.                                         *)

LEMMA Enqueues ==
  ASSUME NEW p, NEW o, PageOf(p, o), p.key \in Session, NEW ops, ops \in Seq(Operation),
         ops \in Seq(MyOps(p.flow, o))
  PROVE  PageOf(Enqueue(p, ops), o) /\ Same(Enqueue(p, ops), p)
<1> DEFINE flush == IF p.flush = None THEN p.key ELSE p.flush
           both == p.ops \o ops
           q == [p EXCEPT !.ops = both, !.flush = flush]
<1>1. p \in Page /\ p.ops \in Seq(Operation) /\ p.ops \in Seq(MyOps(p.flow, o))
  BY DEF PageOf, Page
<1>2. both \in Seq(Operation) /\ both \in Seq(MyOps(p.flow, o))
  BY <1>1
<1>3. flush \in Session \cup {None} /\ flush # None
  BY <1>1, PageAssumption DEF Page
<1>4. Enqueue(p, ops) = q
  BY <1>1 DEF Enqueue, Page
<1> HIDE DEF both, flush
<1>5. q \in Page
  BY <1>1, <1>2, <1>3 DEF Page
<1>6. /\ q.ops = both /\ q.flush = flush /\ q.canvas = p.canvas /\ q.snaps = p.snaps
      /\ q.flow = p.flow /\ q.rev = p.rev /\ Same(q, p)
  BY <1>1 DEF Page, Same
<1> HIDE DEF q
<1>7. PageOf(q, o)
  BY <1>2, <1>3, <1>5, <1>6 DEF PageOf
<1> QED
  BY <1>4, <1>6, <1>7

LEMMA SnapshotQueues ==
  ASSUME NEW p, NEW o, PageOf(p, o), NEW s \in Session, NEW nodes \in SUBSET Node,
         Mine(nodes, p.flow, o)
  PROVE  /\ PageOf(ApplyOrQueueSnapshot(p, s, nodes), o)
         /\ Same(ApplyOrQueueSnapshot(p, s, nodes), p)
<1>1. CASE Busy(p)
  <2> DEFINE snaps == SnapsBut(p, s) \cup {<<s, nodes>>}
             q == [p EXCEPT !.snaps = snaps]
  <2>1. p \in Page /\ p.flush # None
    BY <1>1 DEF PageOf, Busy
  <2>2. snaps \in SUBSET (Session \X SUBSET Node) /\ \A w \in snaps : Mine(w[2], p.flow, o)
    BY <2>1 DEF SnapsBut, PageOf, Page
  <2>3. ApplyOrQueueSnapshot(p, s, nodes) = q
    BY <1>1 DEF ApplyOrQueueSnapshot
  <2> HIDE DEF snaps
  <2>4. q \in Page
    BY <2>1, <2>2 DEF Page
  <2>5. /\ q.ops = p.ops /\ q.flush = p.flush /\ q.canvas = p.canvas /\ q.snaps = snaps
        /\ q.flow = p.flow /\ q.rev = p.rev /\ Same(q, p)
    BY <2>1 DEF Page, Same
  <2> HIDE DEF q
  <2>6. PageOf(q, o)
    BY <2>1, <2>2, <2>4, <2>5 DEF PageOf
  <2> QED
    BY <2>3, <2>5, <2>6
<1>2. CASE ~Busy(p)
  <2> DEFINE q == [p EXCEPT !.canvas = nodes]
  <2>1. p \in Page
    BY DEF PageOf
  <2>2. ApplyOrQueueSnapshot(p, s, nodes) = q
    BY <1>2 DEF ApplyOrQueueSnapshot
  <2>3. q \in Page
    BY <2>1 DEF Page
  <2>4. /\ q.ops = p.ops /\ q.flush = p.flush /\ q.canvas = nodes /\ q.snaps = p.snaps
        /\ q.flow = p.flow /\ q.rev = p.rev /\ Same(q, p)
    BY <2>1 DEF Page, Same
  <2> HIDE DEF q
  <2>5. PageOf(q, o)
    BY <2>3, <2>4 DEF PageOf
  <2> QED
    BY <2>2, <2>4, <2>5
<1> QED
  BY <1>1, <1>2

LEMMA SessionShown ==
  ASSUME NEW p, NEW o, PageOf(p, o), NEW m, EventOf(m, p.flow, o)
  PROVE  PageOf(OnSession(p, m), o) /\ Same(OnSession(p, m), p)
<1> DEFINE q == [Waits(p) EXCEPT !.stopping = FALSE]
           r == [Unblocks(p) EXCEPT !.status = m.of.status, !.planning = FALSE, !.stopping = FALSE]
<1>1. m.of.status \in PageStatus
  BY DEF EventOf, Event, ServerSession, ServerStatus, PageStatus
<1>2. PageOf(q, o) /\ Same(q, p)
  <2>1. PageOf(Waits(p), o) /\ Same(Waits(p), p)
    BY Blocked
  <2>2. q \in Page
    BY <2>1 DEF PageOf, Page
  <2>3. /\ q.flow = Waits(p).flow /\ q.canvas = Waits(p).canvas /\ q.ops = Waits(p).ops
        /\ q.snaps = Waits(p).snaps /\ q.flush = Waits(p).flush /\ q.rev = Waits(p).rev
        /\ Same(q, Waits(p))
    BY <2>1 DEF PageOf, Page, Same
  <2> HIDE DEF q
  <2> QED
    BY <2>1, <2>2, <2>3, FlagsKeep DEF Same
<1>3. PageOf(r, o) /\ Same(r, p)
  <2>1. PageOf(Unblocks(p), o) /\ Same(Unblocks(p), p)
    BY Blocked
  <2>2. r \in Page
    BY <1>1, <2>1 DEF PageOf, Page
  <2>3. /\ r.flow = Unblocks(p).flow /\ r.canvas = Unblocks(p).canvas /\ r.ops = Unblocks(p).ops
        /\ r.snaps = Unblocks(p).snaps /\ r.flush = Unblocks(p).flush /\ r.rev = Unblocks(p).rev
        /\ Same(r, Unblocks(p))
    BY <2>1 DEF PageOf, Page, Same
  <2> HIDE DEF r
  <2> QED
    BY <2>1, <2>2, <2>3, FlagsKeep DEF Same
<1>4. PageOf(ClearSessionRuntime(r, p.key), o) /\ Same(ClearSessionRuntime(r, p.key), p)
  <2> HIDE DEF r
  <2> QED
    BY <1>3, SessionClears DEF Same
<1>5. OnSession(p, m) \in {p, q, ClearSessionRuntime(r, p.key)}
  BY DEF OnSession
<1>6. Same(p, p)
  BY DEF Same
<1> HIDE DEF q, r
<1> QED
  BY <1>2, <1>4, <1>5, <1>6

LEMMA MessagesShown ==
  ASSUME NEW p, NEW o, PageOf(p, o), NEW m, EventOf(m, p.flow, o)
  PROVE  /\ PageOf(OnMessages(p, m), o)
         /\ OnMessages(p, m).flow = p.flow /\ OnMessages(p, m).key = p.key
         /\ OnMessages(p, m).pending \in {p.pending, 0}
         /\ OnMessages(p, m).chat = Merged(p.chat, m.of.lines)
<1>1. p.chat \in Seq(Author) /\ m.of.lines \in Seq(Author)
  BY DEF PageOf, Page, EventOf, Event, ServerSession
<1>2. Merged(p.chat, m.of.lines) \in Seq(Author)
  BY <1>1 DEF Merged
<1> DEFINE chat == Merged(p.chat, m.of.lines)
<1>3. PICK shown : /\ OnMessages(p, m) = [shown EXCEPT !.chat = chat]
                   /\ PageOf(shown, o) /\ Same(shown, p)
  BY Blocked DEF OnMessages
<1> DEFINE q == [shown EXCEPT !.chat = chat]
<1> HIDE DEF chat
<1>4. q \in Page
  BY <1>2, <1>3 DEF PageOf, Page, chat
<1>5. /\ q.flow = shown.flow /\ q.canvas = shown.canvas /\ q.ops = shown.ops /\ q.chat = chat
      /\ q.snaps = shown.snaps /\ q.flush = shown.flush /\ q.rev = shown.rev /\ q.key = shown.key
      /\ q.pending = shown.pending
  BY <1>3 DEF PageOf, Page
<1> HIDE DEF q
<1>6. PageOf(q, o)
  BY <1>3, <1>4, <1>5, FlagsKeep
<1> QED
  BY <1>3, <1>5, <1>6 DEF Same, q, chat

LEMMA NodesShown ==
  ASSUME NEW p, NEW o, PageOf(p, o), p.key \in Session, NEW m, EventOf(m, p.flow, o)
  PROVE  PageOf(OnNodes(p, m), o) /\ Same(OnNodes(p, m), p)
<1>1. PICK shown : /\ shown = IF Terminal(p) THEN BlocksForAWhile(p) ELSE Waits(p)
                   /\ PageOf(shown, o) /\ Same(shown, p)
  BY Blocked
<1> DEFINE known == [shown EXCEPT !.rev = m.of.rev]
           put == Enqueue(known, m.ops)
           set == ApplyOrQueueSnapshot(known, p.key, m.of.nodes)
           free == [set EXCEPT !.resync = set.resync \ {p.key}]
<1>2. /\ m.of.rev \in 0 .. MaxTurn /\ m.of.nodes \in SUBSET Node /\ m.ops \in Seq(Operation)
      /\ m.ops \in Seq(MyOps(p.flow, o)) /\ Mine(m.of.nodes, p.flow, o)
  BY DEF EventOf, Event, ServerSession
<1>3. PageOf(known, o) /\ Same(known, p)
  <2>0. shown \in Page /\ m.of.rev \in Int
    BY <1>1, <1>2 DEF PageOf
  <2>1. known \in Page
    BY <2>0 DEF Page
  <2>2. /\ known.flow = shown.flow /\ known.canvas = shown.canvas /\ known.ops = shown.ops
        /\ known.snaps = shown.snaps /\ known.flush = shown.flush /\ known.rev = m.of.rev
        /\ Same(known, shown)
    BY <1>1 DEF PageOf, Page, Same
  <2>3. MaxTurn \in Nat /\ m.of.rev \in -1 .. MaxTurn
    BY <1>2, PageAssumption
  <2> HIDE DEF known
  <2> QED
    BY <1>1, <2>1, <2>2, <2>3 DEF PageOf, Same
<1>4. PageOf(put, o) /\ Same(put, p)
  <2> HIDE DEF known
  <2> QED
    BY <1>2, <1>3, Enqueues DEF Same
<1>5. PageOf(set, o) /\ Same(set, p)
  <2> HIDE DEF known
  <2> QED
    BY <1>2, <1>3, SnapshotQueues DEF Same
<1>6. PageOf(free, o) /\ Same(free, p)
  <2> HIDE DEF set
  <2>1. free \in Page
    BY <1>5 DEF PageOf, Page
  <2>2. /\ free.flow = set.flow /\ free.canvas = set.canvas /\ free.ops = set.ops
        /\ free.snaps = set.snaps /\ free.flush = set.flush /\ free.rev = set.rev
        /\ Same(free, set)
    BY <1>5 DEF PageOf, Page, Same
  <2> HIDE DEF free
  <2> QED
    BY <1>5, <2>1, <2>2, FlagsKeep DEF Same
<1>7. OnNodes(p, m) \in {p, put, free}
  <2> DEFINE s == IF Terminal(p) THEN BlocksForAWhile(p) ELSE Waits(p)
             k == [s EXCEPT !.rev = m.of.rev]
  <2>1. OnNodes(p, m) \in {p, Enqueue(k, m.ops),
          [ApplyOrQueueSnapshot(k, p.key, m.of.nodes) EXCEPT !.resync = @ \ {p.key}]}
    BY Zenon DEF OnNodes
  <2>2. s = shown
    BY <1>1
  <2> HIDE DEF s
  <2> QED
    BY <2>1, <2>2
<1>8. Same(p, p)
  BY DEF Same
<1> HIDE DEF put, free
<1> QED
  BY <1>4, <1>6, <1>7, <1>8

LEMMA Resyncs ==
  ASSUME NEW p, NEW o, PageOf(p, o), p.key \in Session
  PROVE  PageOf(Resync(p), o) /\ Same(Resync(p), p)
<1> DEFINE clear == ClearSessionRuntime(p, p.key)
           q == [clear EXCEPT !.resync = @ \cup {p.key}]
<1>1. PageOf(clear, o) /\ Same(clear, p)
  BY SessionClears
<1>2. Resync(p) = q
  BY DEF Resync
<1> HIDE DEF clear
<1>3. q \in Page
  BY <1>1 DEF PageOf, Page
<1>4. /\ q.flow = clear.flow /\ q.canvas = clear.canvas /\ q.ops = clear.ops
      /\ q.snaps = clear.snaps /\ q.flush = clear.flush /\ q.rev = clear.rev /\ Same(q, clear)
  BY <1>1 DEF PageOf, Page, Same
<1> HIDE DEF q
<1>5. PageOf(q, o) /\ Same(q, p)
  BY <1>1, <1>3, <1>4, FlagsKeep DEF Same
<1> QED
  BY <1>2, <1>5

(* An event leaves the page with its flow, its session and nodes of its    *)
(* own; only messages change what was said.                                *)
LEMMA EventShown ==
  ASSUME NEW p, NEW o, PageOf(p, o), p.key \in Session, NEW m, EventOf(m, p.flow, o)
  PROVE  /\ PageOf(Handled(p, m), o)
         /\ Handled(p, m).flow = p.flow /\ Handled(p, m).key = p.key
         /\ Handled(p, m).pending \in {p.pending, 0}
         /\ Handled(p, m).chat = IF m.kind = "messages" THEN Merged(p.chat, m.of.lines) ELSE p.chat
<1>1. CASE m.kind = "messages"
  <2>1. Handled(p, m) = OnMessages(p, m)
    BY <1>1 DEF Handled, NeedsResync
  <2> QED
    BY <1>1, <2>1, MessagesShown
<1>2. CASE m.kind # "messages"
  <2>1. Handled(p, m) \in {Resync(p), OnSession(p, m), OnNodes(p, m)}
    BY <1>2 DEF Handled
  <2> QED
    BY <1>2, <2>1, Resyncs, SessionShown, NodesShown DEF Same
<1> QED
  BY <1>1, <1>2

-----------------------------------------------------------------------------
(* What the user does to the page.                                         *)

LEMMA KeyChanges ==
  ASSUME NEW p, NEW o, PageOf(p, o), NEW key \in Session \cup {None}
  PROVE  /\ PageOf(WithKey(p, key), o)
         /\ WithKey(p, key).flow = p.flow /\ WithKey(p, key).key = key
         /\ WithKey(p, key).pending \in {p.pending, 0} /\ WithKey(p, key).chat = p.chat
<1>1. CASE key = p.key
  BY <1>1 DEF WithKey
<1>2. CASE key # p.key
  <2>1. PICK clear : /\ clear = IF p.key = None THEN p ELSE ClearQueue(p, p.key)
                     /\ PageOf(clear, o) /\ Same(clear, p)
    BY QueueClears DEF Same
  <2> DEFINE q == [clear EXCEPT !.key = key, !.rev = -1]
  <2>2. WithKey(p, key) = q
    BY <1>2, <2>1 DEF WithKey
  <2>3. clear \in Page /\ MaxTurn \in Nat
    BY <2>1, PageAssumption DEF PageOf
  <2>4. q \in Page
    <3> DEFINE r == [clear EXCEPT !.key = key]
    <3>1. r \in Page
      BY <2>3 DEF Page
    <3>2. PICK i \in Int : i = -1
      OBVIOUS
    <3>3. q = [r EXCEPT !.rev = i]
      BY <2>3, <3>2 DEF Page
    <3> HIDE DEF r, q
    <3> QED
      BY <3>1, <3>2, <3>3 DEF Page
  <2>5. /\ q.flow = clear.flow /\ q.canvas = clear.canvas /\ q.ops = clear.ops /\ q.key = key
        /\ q.snaps = clear.snaps /\ q.flush = clear.flush /\ q.rev = -1 /\ q.chat = clear.chat
        /\ q.pending = clear.pending
    BY <2>3 DEF Page
  <2> HIDE DEF q
  <2>6. PageOf(q, o)
    BY <2>1, <2>3, <2>4, <2>5 DEF PageOf
  <2> QED
    BY <2>1, <2>2, <2>5, <2>6 DEF Same
<1> QED
  BY <1>1, <1>2

LEMMA PlanIsStarted ==
  ASSUME NEW p, NEW o, PageOf(p, o), NEW s \in Session, prompts \in Nat
  PROVE  /\ PageOf(PlanStarts(p, s), o)
         /\ PlanStarts(p, s).flow = p.flow /\ PlanStarts(p, s).key = s
         /\ PlanStarts(p, s).pending = prompts + 1 /\ PlanStarts(p, s).chat = Append(p.chat, "u")
<1> DEFINE keyed == WithKey(p, s)
           waits == Waits(keyed)
           q == [waits EXCEPT !.stopping = FALSE, !.pending = prompts + 1, !.chat = Append(@, "u")]
<1>1. /\ PageOf(keyed, o) /\ keyed.flow = p.flow /\ keyed.key = s /\ keyed.chat = p.chat
  BY KeyChanges
<1> HIDE DEF keyed
<1>2. PageOf(waits, o) /\ Same(waits, keyed)
  BY <1>1, Blocked
<1>3. PlanStarts(p, s) = q
  BY DEF PlanStarts, keyed
<1> HIDE DEF waits
<1>4. waits \in Page
  BY <1>2 DEF PageOf
<1>5. q \in Page
  <2>1. prompts + 1 \in Nat /\ Append(waits.chat, "u") \in Seq(Author)
    BY <1>4 DEF Page, Author
  <2> DEFINE r == [waits EXCEPT !.stopping = FALSE, !.pending = prompts + 1]
  <2>2. r \in Page
    BY <1>4, <2>1 DEF Page
  <2>3. q = [r EXCEPT !.chat = Append(waits.chat, "u")]
    BY <1>4 DEF Page
  <2> HIDE DEF r, q
  <2> QED
    BY <2>1, <2>2, <2>3 DEF Page
<1>6. /\ q.flow = waits.flow /\ q.canvas = waits.canvas /\ q.ops = waits.ops /\ q.key = waits.key
      /\ q.snaps = waits.snaps /\ q.flush = waits.flush /\ q.rev = waits.rev
      /\ q.chat = Append(waits.chat, "u") /\ q.pending = prompts + 1
  BY <1>4 DEF Page
<1> HIDE DEF q
<1>7. PageOf(q, o)
  BY <1>2, <1>5, <1>6, FlagsKeep
<1> QED
  BY <1>1, <1>2, <1>3, <1>6, <1>7 DEF Same

LEMMA PlanHasFailed ==
  ASSUME NEW p, NEW o, PageOf(p, o)
  PROVE  PageOf(PlanFails(p), o) /\ Same(PlanFails(p), p)
<1> DEFINE w == BlocksForAWhile(p)
           q == [w EXCEPT !.planning = FALSE, !.status = "failed", !.stopping = FALSE, !.pending = 0]
<1>1. PageOf(w, o) /\ Same(w, p)
  BY Blocked
<1>2. PlanFails(p) = q
  BY DEF PlanFails
<1> HIDE DEF w
<1>3. q \in Page
  BY <1>1 DEF PageOf, Page, PageStatus, Ended
<1>4. /\ q.flow = w.flow /\ q.canvas = w.canvas /\ q.ops = w.ops
      /\ q.snaps = w.snaps /\ q.flush = w.flush /\ q.rev = w.rev /\ Same(q, w)
  BY <1>1 DEF PageOf, Page, Same
<1> HIDE DEF q
<1>5. PageOf(q, o) /\ Same(q, p)
  BY <1>1, <1>3, <1>4, FlagsKeep DEF Same
<1> QED
  BY <1>2, <1>5

LEMMA PlanIsAnswered ==
  ASSUME NEW p, NEW o, PageOf(p, o), NEW key \in Session
  PROVE  /\ PageOf(PlanAnswered(p, key), o)
         /\ PlanAnswered(p, key).flow = p.flow /\ PlanAnswered(p, key).key = key
         /\ PlanAnswered(p, key).pending = 0 /\ PlanAnswered(p, key).chat = p.chat
<1> DEFINE keyed == WithKey(p, key)
           q == [keyed EXCEPT !.pending = 0]
<1>1. /\ PageOf(keyed, o) /\ keyed.flow = p.flow /\ keyed.key = key /\ keyed.chat = p.chat
  BY KeyChanges
<1>2. PlanAnswered(p, key) = q
  BY DEF PlanAnswered
<1> HIDE DEF keyed
<1>3. q \in Page
  BY <1>1 DEF PageOf, Page
<1>4. /\ q.flow = keyed.flow /\ q.canvas = keyed.canvas /\ q.ops = keyed.ops /\ q.key = keyed.key
      /\ q.snaps = keyed.snaps /\ q.flush = keyed.flush /\ q.rev = keyed.rev
      /\ q.chat = keyed.chat /\ q.pending = 0
  BY <1>1 DEF PageOf, Page
<1> HIDE DEF q
<1>5. PageOf(q, o)
  BY <1>1, <1>3, <1>4, FlagsKeep
<1> QED
  BY <1>1, <1>2, <1>4, <1>5

LEMMA FlowIsRestored ==
  ASSUME NEW f \in Flow, NEW o, NEW k, KeptOf(k, f, o)
  PROVE  /\ PageOf(Restored(f, k), o)
         /\ Restored(f, k).flow = f /\ Restored(f, k).key = k.key
         /\ Restored(f, k).pending = k.pending /\ Restored(f, k).chat = k.chat
<1>1. << >> \in Seq(Operation) /\ << >> \in Seq(MyOps(f, o)) /\ -1 \in -1 .. MaxTurn
  BY PageAssumption
<1>2. Restored(f, k) \in Page
  BY <1>1 DEF Restored, KeptOf, Kept, Page
<1> QED
  BY <1>1, <1>2 DEF Restored, PageOf, KeptOf

LEMMA FlowIsLeft ==
  ASSUME NEW p, NEW o, PageOf(p, o), KeyOf(p.key, p.flow, o)
  PROVE  /\ KeptOf(Leave(p), p.flow, o) /\ Leave(p).key = p.key
         /\ Leave(p).pending = p.pending /\ Leave(p).chat = p.chat
  BY DEF Leave, KeptOf, Kept, PageOf, Page

LEMMA DraftIsKept ==
  ASSUME NEW k, NEW f, NEW o, KeptOf(k, f, o)
  PROVE  /\ KeptOf(Drafted(k), f, o) /\ Drafted(k).key = k.key
         /\ Drafted(k).pending = 0 /\ Drafted(k).chat = k.chat
  BY DEF Drafted, KeptOf, Kept

-----------------------------------------------------------------------------
(* A new session has a flow from its first prompt on, and keeps it.        *)

Grows(o, n) ==
  /\ n \in [Session -> Flow \cup {None}]
  /\ \A s \in Session : o[s] # None => n[s] = o[s]

LEMMA MineGrows ==
  ASSUME NEW o, NEW n, Grows(o, n), NEW f \in Flow, NEW N \in SUBSET Node, Mine(N, f, o)
  PROVE  Mine(N, f, n)
  BY PageAssumption DEF Mine, Grows, Node, Own

LEMMA OpsGrow ==
  ASSUME NEW o, NEW n, Grows(o, n), NEW f \in Flow
  PROVE  Seq(MyOps(f, o)) \subseteq Seq(MyOps(f, n))
<1>1. MyOps(f, o) \subseteq MyOps(f, n)
  <2> SUFFICES ASSUME NEW x \in MyOps(f, o) PROVE x \in MyOps(f, n)
    OBVIOUS
  <2>1. x \in Operation /\ {x.node} \in SUBSET Node /\ Mine({x.node}, f, o)
    BY DEF MyOps, Operation
  <2> QED
    BY <2>1, MineGrows DEF MyOps
<1> QED
  BY <1>1

LEMMA PageGrows ==
  ASSUME NEW o, NEW n, Grows(o, n), NEW p, PageOf(p, o)
  PROVE  PageOf(p, n)
<1>1. p.flow \in Flow /\ p.canvas \in SUBSET Node /\ p.snaps \in SUBSET (Session \X SUBSET Node)
  BY DEF PageOf, Page
<1>2. Mine(p.canvas, p.flow, n)
  BY <1>1, MineGrows DEF PageOf
<1>3. ASSUME NEW w \in p.snaps PROVE Mine(w[2], p.flow, n)
  <2>1. w[2] \in SUBSET Node /\ Mine(w[2], p.flow, o)
    BY <1>1 DEF PageOf
  <2> QED
    BY <1>1, <2>1, MineGrows
<1>4. p.ops \in Seq(MyOps(p.flow, n))
  BY <1>1, OpsGrow DEF PageOf
<1> QED
  BY <1>2, <1>3, <1>4 DEF PageOf

LEMMA EventGrows ==
  ASSUME NEW o, NEW n, Grows(o, n), NEW f \in Flow, NEW e, EventOf(e, f, o)
  PROVE  EventOf(e, f, n)
<1>1. e.of.nodes \in SUBSET Node
  BY DEF EventOf, Event, ServerSession
<1>2. Mine(e.of.nodes, f, n)
  BY <1>1, MineGrows DEF EventOf
<1>3. e.ops \in Seq(MyOps(f, n))
  BY OpsGrow DEF EventOf
<1> QED
  BY <1>2, <1>3 DEF EventOf

-----------------------------------------------------------------------------
(* The invariant of types and owners: its steps.                           *)

LEMMA LinksType ==
  ASSUME NEW key \in Session \cup {None}
  PROVE  /\ \A stage \in {"off", "probe", "absent", "wait", "join", "open"} :
              Linked(stage) \in Link /\ Linked(stage).inbox = << >> /\ Linked(stage).stage = stage
         /\ LinkFor(key) \in Link /\ LinkFor(key).inbox = << >>
         /\ LinkFor(key).stage = IF key = None THEN "off" ELSE "probe"
<1>1. NoSession \in ServerSession
  BY DEF NoSession, ServerSession, ServerStatus
<1>2. << >> \in Seq(Event)
  OBVIOUS
<1> QED
  BY <1>1, <1>2 DEF LinkFor, Linked, Link

LEMMA PageInit == Init => PageInv
<1> SUFFICES ASSUME Init PROVE PageInv
  OBVIOUS
<1>1. \A f \in Flow, c \in SUBSET {Own} :
        KeptOf([NothingKept EXCEPT !.canvas = c], f, owner) /\ KeptOf(NothingKept, f, owner)
  <2> SUFFICES ASSUME NEW f \in Flow, NEW c \in SUBSET {Own}
               PROVE  KeptOf([NothingKept EXCEPT !.canvas = c], f, owner) /\ KeptOf(NothingKept, f, owner)
    OBVIOUS
  <2>1. << >> \in Seq(Author) /\ c \in SUBSET Node /\ {} \in SUBSET Node
    BY DEF Node
  <2>2. NothingKept \in Kept
    BY <2>1 DEF NothingKept, Kept, PageStatus
  <2>3. [NothingKept EXCEPT !.canvas = c] \in Kept
    BY <2>1, <2>2 DEF Kept
  <2> QED
    BY <2>2, <2>3 DEF KeptOf, NothingKept, Mine, KeyOf
<1>2. PICK f \in Flow, drawn \in SUBSET {Own} :
        page = Restored(f, [NothingKept EXCEPT !.canvas = drawn])
  BY DEF Init
<1>3. PageOf(page, owner) /\ page.key = None /\ page.pending = 0
  <2> DEFINE k == [NothingKept EXCEPT !.canvas = drawn]
  <2>1. KeptOf(k, f, owner) /\ k.key = None /\ k.pending = 0
    BY <1>1 DEF NothingKept
  <2>2. page = Restored(f, k)
    BY <1>2
  <2> HIDE DEF k
  <2> QED
    BY <2>1, <2>2, FlowIsRestored
<1>4. \A s \in Session : SessionOf(s, NoSession, owner) /\ NoSession \in ServerSession
  BY PageAssumption DEF SessionOf, NoSession, ServerSession, ServerStatus, Mine
<1>5. link \in Link /\ link.stage = "off" /\ link.inbox = << >>
  BY LinksType DEF Init
<1>6. /\ kept \in [Flow -> Kept] /\ \A g \in Flow : KeptOf(kept[g], g, owner)
      /\ \A g \in Flow : kept[g].pending = 0
  BY <1>1 DEF Init, KeptOf, NothingKept
<1> QED
  BY <1>3, <1>4, <1>5, <1>6 DEF Init, PageInv, KeyOf

LEMMA ServerSteps ==
  ASSUME PageInv, NEW s \in Session, NEW v, SessionOf(s, v, owner), v.status # "none",
         server' = [server EXCEPT ![s] = v], UNCHANGED <<page, kept, prompts, cuts, owner>>,
         NEW events \in Seq(Event), \A i \in DOMAIN events : EventOf(events[i], owner[s], owner),
         link' = link \/ Publish(s, events),
         \A c \in calls' : c \in calls \/ CallOf(c, owner, prompts, server')
  PROVE  PageInv'
<1>1. v \in ServerSession
  BY DEF SessionOf
<1>2. server' \in [Session -> ServerSession] /\ \A x \in Session : SessionOf(x, server'[x], owner)
  BY <1>1 DEF PageInv
<1>3. \A x \in Session : server[x].status # "none" => server'[x].status # "none"
  BY DEF PageInv
<1>4. ASSUME NEW c \in calls' PROVE CallOf(c, owner, prompts, server')
  <2>1. CASE c \in calls
    <3>1. CallOf(c, owner, prompts, server) /\ c.key \in Session
      BY <2>1 DEF PageInv, CallOf, Call
    <3> QED
      BY <1>3, <3>1 DEF CallOf
  <2> QED
    BY <2>1
<1>5. /\ link' \in Link /\ link'.stage = link.stage
      /\ link.stage \notin {"join", "open"} => link'.inbox = << >>
      /\ \A i \in DOMAIN link'.inbox : EventOf(link'.inbox[i], page.flow, owner)
  <2>1. CASE link' = link
    BY <2>1 DEF PageInv
  <2>2. CASE link' # link
    <3>1. Hears(s) /\ link' = [link EXCEPT !.inbox = @ \o events]
      BY <2>2 DEF Publish
    <3>2. link \in Link /\ link.inbox \in Seq(Event) /\ owner[s] = page.flow
      BY <3>1, PageAssumption DEF Hears, PageInv, Link, KeyOf
    <3> DEFINE both == link.inbox \o events
    <3>3. both \in Seq(Event) /\ \A i \in DOMAIN both : EventOf(both[i], page.flow, owner)
      BY <3>2 DEF PageInv
    <3>4. link' = [link EXCEPT !.inbox = both]
      BY <3>1, <3>2 DEF Link
    <3> HIDE DEF both
    <3>5. link' \in Link /\ link'.stage = link.stage /\ link'.inbox = both
      BY <3>2, <3>3, <3>4 DEF Link
    <3> QED
      BY <3>1, <3>3, <3>5 DEF Hears
  <2> QED
    BY <2>1, <2>2
<1>6. page.key \in Session \/ page.key = None
  BY DEF PageInv, PageOf, Page
<1>7. link.stage \in {"wait", "join", "open"} => server'[page.key].status # "none"
  BY <1>3, <1>6 DEF PageInv
<1> QED
  BY <1>2, <1>4, <1>5, <1>7 DEF PageInv

LEMMA PageSteps ==
  ASSUME PageInv, PageOf(page', owner), KeyOf(page'.key, page'.flow, owner), page'.pending <= prompts,
         UNCHANGED <<server, prompts, owner>>, cuts' \in {cuts, cuts + 1},
         kept' \in [Flow -> Kept],
         \A f \in Flow : KeptOf(kept'[f], f, owner) /\ kept'[f].pending <= prompts,
         \/ link' = link /\ page'.key = page.key /\ page'.flow = page.flow
         \/ link' = LinkFor(page'.key),
         \A c \in calls' : c \in calls \/ CallOf(c, owner, prompts, server)
  PROVE  PageInv'
<1>1. page'.key \in Session \cup {None}
  BY DEF PageOf, Page
<1>2. /\ link' \in Link /\ (link'.stage = "off" <=> page'.key = None)
      /\ link'.stage \notin {"join", "open"} => link'.inbox = << >>
      /\ link'.stage \in {"wait", "join", "open"} => server[page'.key].status # "none"
      /\ \A i \in DOMAIN link'.inbox : EventOf(link'.inbox[i], page'.flow, owner)
  <2>1. CASE link' = link /\ page'.key = page.key /\ page'.flow = page.flow
    BY <2>1 DEF PageInv
  <2>2. CASE link' = LinkFor(page'.key)
    <3>1. /\ link' \in Link /\ link'.inbox = << >>
          /\ link'.stage = IF page'.key = None THEN "off" ELSE "probe"
      BY <1>1, <2>2, LinksType
    <3> QED
      BY <3>1
  <2> QED
    BY <2>1, <2>2
<1>3. \A c \in calls' : CallOf(c, owner, prompts, server)
  BY DEF PageInv
<1>4. cuts' \in Nat
  BY DEF PageInv
<1> QED
  BY <1>2, <1>3, <1>4 DEF PageInv

LEMMA LinkSteps ==
  ASSUME PageInv, UNCHANGED <<server, page, kept, calls, prompts, owner>>, cuts' \in {cuts, cuts + 1},
         link.stage # "off",
         NEW stage \in {"absent", "wait", "join"}, link' = Linked(stage),
         stage \in {"wait", "join"} => server[page.key].status # "none"
  PROVE  PageInv'
<1>1. link' \in Link /\ link'.inbox = << >> /\ link'.stage = stage
  BY LinksType
<1>2. page.key # None /\ cuts' \in Nat
  BY DEF PageInv
<1> QED
  BY <1>1, <1>2 DEF PageInv

LEMMA EventIsOf ==
  ASSUME NEW s \in Session, NEW now, SessionOf(s, now, owner), now.status # "none",
         NEW kind \in {"session", "messages", "patch", "snapshot"},
         NEW ops \in Seq(Operation), ops \in Seq(MyOps(owner[s], owner))
  PROVE  EventOf(Published(kind, now, ops), owner[s], owner)
  BY DEF EventOf, Published, Event, SessionOf

LEMMA SaysType ==
  ASSUME NEW s \in Session, NEW now, SessionOf(s, now, owner), now.status # "none"
  PROVE  /\ Says(now, s) \in Seq(Event)
         /\ \A i \in DOMAIN Says(now, s) : EventOf(Says(now, s)[i], owner[s], owner)
<1>1. << >> \in Seq(Operation) /\ << >> \in Seq(MyOps(owner[s], owner))
  OBVIOUS
<1> DEFINE a == Published("messages", now, << >>)
           b == Published("session", now, << >>)
<1>2. EventOf(a, owner[s], owner) /\ EventOf(b, owner[s], owner)
  BY <1>1, EventIsOf
<1>3. Says(now, s) = <<a, b>>
  BY DEF Says
<1> HIDE DEF a, b
<1> QED
  BY <1>2, <1>3 DEF EventOf

(* A message or the end of a session.                                      *)
LEMMA SpeechSteps ==
  ASSUME PageInv, NEW s \in Session, server[s].status # "none",
         NEW status \in {"planning", "completed", "failed", "stopped"}, NEW author \in Author,
         NEW now, now = [server[s] EXCEPT !.status = status, !.lines = Append(@, author)],
         server' = [server EXCEPT ![s] = now], Publish(s, Says(now, s)),
         UNCHANGED <<page, kept, prompts, cuts, owner>>,
         \A c \in calls' : c \in calls \/ CallOf(c, owner, prompts, server')
  PROVE  PageInv'
<1>1. SessionOf(s, server[s], owner) /\ server[s] \in ServerSession
  BY DEF PageInv, SessionOf
<1>2. now \in ServerSession
  <2>1. Append(server[s].lines, author) \in Seq(Author) /\ status \in ServerStatus
    BY <1>1 DEF ServerSession, ServerStatus, Ended
  <2>2. now = [server[s] EXCEPT !.status = status, !.lines = Append(server[s].lines, author)]
    BY <1>1 DEF ServerSession
  <2> QED
    BY <1>1, <2>1, <2>2 DEF ServerSession
<1>3. /\ now.rev = server[s].rev /\ now.nodes = server[s].nodes /\ now.status = status
  BY <1>1 DEF ServerSession
<1>4. SessionOf(s, now, owner) /\ now.status # "none"
  BY <1>1, <1>2, <1>3 DEF SessionOf
<1>5. /\ Says(now, s) \in Seq(Event)
      /\ \A i \in DOMAIN Says(now, s) : EventOf(Says(now, s)[i], owner[s], owner)
  BY <1>4, SaysType
<1> QED
  BY <1>4, <1>5, ServerSteps

LEMMA EndSteps ==
  ASSUME PageInv, NEW s \in Session, server[s].status = "planning",
         NEW status \in Ended, EndAs(s, status),
         UNCHANGED <<page, kept, prompts, cuts, owner>>,
         \A c \in calls' : c \in calls \/ CallOf(c, owner, prompts, server')
  PROVE  PageInv'
<1> DEFINE now == [server[s] EXCEPT !.status = status, !.lines = Append(@, "a")]
<1>1. server' = [server EXCEPT ![s] = now] /\ Publish(s, Says(now, s))
  BY DEF EndAs
<1>2. status \in {"planning", "completed", "failed", "stopped"} /\ "a" \in Author
  BY DEF Ended, Author
<1> QED
  BY <1>1, <1>2, SpeechSteps

LEMMA RevisionLeft ==
  ASSUME PageInv, NEW s \in Session, Turns(s) < MaxTurn
  PROVE  server[s].rev + 1 \in 1 .. MaxTurn
<1> DEFINE lines == server[s].lines
           said == {i \in DOMAIN lines : lines[i] = "a"}
<1>1. server[s].rev \in Nat /\ lines \in Seq(Author)
  BY DEF PageInv, ServerSession
<1>2. DOMAIN lines = 1 .. Len(lines) /\ Len(lines) \in Nat
  BY <1>1
<1>3. IsFiniteSet(DOMAIN lines) /\ said \subseteq DOMAIN lines
  BY <1>2, FS_Interval
<1> HIDE DEF lines
<1>4. Cardinality(said) \in Nat
  BY <1>3, FS_Subset, FS_CardinalityType
<1>5. Turns(s) = server[s].rev + Cardinality(said)
  BY DEF Turns, lines
<1> HIDE DEF said
<1> QED
  BY <1>1, <1>4, <1>5, PageAssumption

LEMMA PatchSteps ==
  ASSUME PageInv, NEW s \in Session, PlannerPatches(s)
  PROVE  PageInv'
<1>1. SessionOf(s, server[s], owner) /\ server[s] \in ServerSession /\ server[s].status = "planning"
  BY DEF PageInv, SessionOf, PlannerPatches, Works
<1>2. server[s].rev + 1 \in 1 .. MaxTurn
  BY RevisionLeft DEF PlannerPatches
<1>3. PICK put \in BOOLEAN : \E n \in IF put THEN {<<s, server[s].rev + 1>>} ELSE server[s].nodes :
        LET now == [server[s] EXCEPT !.rev = @ + 1,
                                     !.nodes = IF put THEN @ \cup {n} ELSE @ \ {n}]
            op == [key |-> s, put |-> put, node |-> n]
        IN /\ server' = [server EXCEPT ![s] = now]
           /\ Publish(s, <<Published("patch", now, <<op>>), Published("snapshot", now, << >>),
                           Published("session", now, << >>)>>)
  BY DEF PlannerPatches
<1>4. PICK n \in IF put THEN {<<s, server[s].rev + 1>>} ELSE server[s].nodes :
        LET now == [server[s] EXCEPT !.rev = @ + 1,
                                     !.nodes = IF put THEN @ \cup {n} ELSE @ \ {n}]
            op == [key |-> s, put |-> put, node |-> n]
        IN /\ server' = [server EXCEPT ![s] = now]
           /\ Publish(s, <<Published("patch", now, <<op>>), Published("snapshot", now, << >>),
                           Published("session", now, << >>)>>)
  BY <1>3
<1> DEFINE nodes == IF put THEN server[s].nodes \cup {n} ELSE server[s].nodes \ {n}
           now == [server[s] EXCEPT !.rev = server[s].rev + 1, !.nodes = nodes]
           op == [key |-> s, put |-> put, node |-> n]
           a == Published("patch", now, <<op>>)
           b == Published("snapshot", now, << >>)
           d == Published("session", now, << >>)
<1>5. server' = [server EXCEPT ![s] = now] /\ Publish(s, <<a, b, d>>)
  BY <1>1, <1>4 DEF ServerSession
<1>6. n \in Node /\ Mine({n}, owner[s], owner)
  <2>1. CASE put
    <3>1. n = <<s, server[s].rev + 1>>
      BY <1>4, <2>1
    <3> QED
      BY <1>2, <3>1 DEF Node, Mine
  <2>2. CASE ~put
    <3>1. n \in server[s].nodes
      BY <1>4, <2>2
    <3> QED
      BY <1>1, <3>1 DEF SessionOf, Mine, ServerSession
  <2> QED
    BY <2>1, <2>2
<1>7. nodes \in SUBSET Node /\ Mine(nodes, owner[s], owner)
  BY <1>1, <1>6 DEF SessionOf, Mine, ServerSession
<1> HIDE DEF nodes
<1>8. now \in ServerSession /\ now.status = "planning" /\ now.rev = server[s].rev + 1 /\ now.nodes = nodes
  <2>1. server[s].rev + 1 \in Nat
    BY <1>1 DEF ServerSession
  <2> QED
    BY <1>1, <1>7, <2>1 DEF ServerSession
<1> HIDE DEF now
<1>9. SessionOf(s, now, owner) /\ now.status # "none"
  BY <1>1, <1>2, <1>7, <1>8 DEF SessionOf
<1>10. /\ <<op>> \in Seq(Operation) /\ <<op>> \in Seq(MyOps(owner[s], owner))
      /\ << >> \in Seq(Operation) /\ << >> \in Seq(MyOps(owner[s], owner))
  <2>1. op \in Operation
    BY <1>6 DEF Operation
  <2>2. op \in MyOps(owner[s], owner)
    BY <1>6, <2>1 DEF MyOps
  <2> HIDE DEF op
  <2> QED
    BY <2>1, <2>2
<1>11. EventOf(a, owner[s], owner) /\ EventOf(b, owner[s], owner) /\ EventOf(d, owner[s], owner)
  <2> HIDE DEF op
  <2> QED
    BY <1>9, <1>10, EventIsOf
<1> HIDE DEF a, b, d
<1>12. /\ <<a, b, d>> \in Seq(Event)
       /\ \A i \in DOMAIN <<a, b, d>> : EventOf(<<a, b, d>>[i], owner[s], owner)
  BY <1>11 DEF EventOf
<1>13. UNCHANGED <<page, kept, calls, prompts, cuts, owner>>
  BY DEF PlannerPatches
<1> QED
  BY <1>5, <1>9, <1>12, <1>13, ServerSteps

LEMMA PlannerSteps ==
  ASSUME PageInv, Planner
  PROVE  PageInv'
<1>1. PICK s \in Session : PlannerPatches(s) \/ PlannerSays(s) \/ PlannerEnds(s)
  BY DEF Planner
<1>2. CASE PlannerPatches(s)
  BY <1>2, PatchSteps
<1>3. CASE PlannerSays(s)
  <2> DEFINE now == [server[s] EXCEPT !.lines = Append(@, "a")]
  <2>1. server[s].status = "planning" /\ server[s] \in ServerSession
    BY <1>3 DEF PlannerSays, Works, PageInv
  <2>2. now = [server[s] EXCEPT !.status = "planning", !.lines = Append(@, "a")]
    BY <2>1 DEF ServerSession
  <2>3. /\ server' = [server EXCEPT ![s] = now] /\ Publish(s, Says(now, s))
        /\ UNCHANGED <<page, kept, calls, prompts, cuts, owner>>
    BY <1>3 DEF PlannerSays
  <2>4. "a" \in Author
    BY DEF Author
  <2> HIDE DEF now
  <2> QED
    BY <2>1, <2>2, <2>3, <2>4, SpeechSteps
<1>4. CASE PlannerEnds(s)
  BY <1>4, EndSteps DEF PlannerEnds, Works, Ended
<1> QED
  BY <1>1, <1>2, <1>3, <1>4

-----------------------------------------------------------------------------
(* The routes.                                                             *)

LEMMA CallMoves ==
  ASSUME PageInv, NEW c \in calls, NEW stage \in {"sent", "ensured", "instructed", "done"},
         NEW ok \in BOOLEAN, NEW heard \in BOOLEAN, NEW sessions,
         stage \in {"ensured", "instructed"} => sessions[c.key].status # "none"
  PROVE  /\ CallOf([c EXCEPT !.stage = stage, !.ok = ok, !.heard = heard], owner, prompts, sessions)
         /\ CallOf(c, owner, prompts, server)
<1>1. CallOf(c, owner, prompts, server) /\ c \in Call
  BY DEF PageInv, CallOf
<1> DEFINE d == [c EXCEPT !.stage = stage, !.ok = ok, !.heard = heard]
<1>2. d \in Call
  BY <1>1 DEF Call
<1>3. /\ d.key = c.key /\ d.flow = c.flow /\ d.nodes = c.nodes /\ d.kind = c.kind /\ d.id = c.id
      /\ d.stage = stage
  BY <1>1 DEF Call
<1> HIDE DEF d
<1>4. CallOf(d, owner, prompts, sessions)
  BY <1>1, <1>2, <1>3 DEF CallOf
<1> QED
  BY <1>1, <1>4 DEF d

LEMMA CallDone ==
  ASSUME PageInv, NEW c \in calls, NEW ok \in BOOLEAN, NEW d \in Done(c, ok), NEW sessions
  PROVE  d \in calls \/ CallOf(d, owner, prompts, sessions)
<1>1. c \in Call
  BY DEF PageInv, CallOf
<1>2. CASE d = [c EXCEPT !.stage = "done", !.ok = ok]
  <2>1. d = [c EXCEPT !.stage = "done", !.ok = ok, !.heard = c.heard]
    BY <1>1, <1>2 DEF Call
  <2>2. c.heard \in BOOLEAN
    BY <1>1 DEF Call
  <2> QED
    BY <2>1, <2>2, CallMoves
<1> QED
  BY <1>2 DEF Done, Replace

LEMMA ReplacedCalls ==
  ASSUME NEW c, NEW d, NEW x \in Replace(c, d)
  PROVE  x \in calls \/ x = d
  BY DEF Replace

LEMMA CallStaged ==
  ASSUME PageInv, NEW c \in calls, NEW stage \in {"ensured", "instructed"}, NEW sessions,
         sessions[c.key].status # "none"
  PROVE  CallOf([c EXCEPT !.stage = stage], owner, prompts, sessions)
<1>1. c \in Call
  BY DEF PageInv, CallOf
<1>2. [c EXCEPT !.stage = stage] = [c EXCEPT !.stage = stage, !.ok = c.ok, !.heard = c.heard]
  BY <1>1 DEF Call
<1>3. c.ok \in BOOLEAN /\ c.heard \in BOOLEAN /\ stage \in {"sent", "ensured", "instructed", "done"}
  BY <1>1 DEF Call
<1> QED
  BY <1>2, <1>3, CallMoves

LEMMA EnsureSteps ==
  ASSUME PageInv, NEW c \in calls, Ensure(c)
  PROVE  PageInv'
<1>1. CallOf(c, owner, prompts, server) /\ c.key \in Session /\ c.flow \in Flow /\ c.nodes \in SUBSET Node
  BY DEF PageInv, CallOf, Call
<1> DEFINE old == server[c.key]
           v == CASE old.status = "none" -> [NoSession EXCEPT !.status = "planning", !.nodes = c.nodes]
                  [] old.status = "planning" /\ old.rev = 0 /\ c.nodes # {} -> [old EXCEPT !.nodes = c.nodes]
                  [] OTHER -> old
<1>2. server' = [server EXCEPT ![c.key] = v]
  BY <1>1 DEF Ensure, PageInv
<1>3. SessionOf(c.key, old, owner) /\ old \in ServerSession /\ Mine(c.nodes, owner[c.key], owner)
      /\ owner[c.key] \in Flow
  BY <1>1 DEF PageInv, SessionOf, CallOf
<1>4. SessionOf(c.key, v, owner) /\ v.status # "none"
  <2>1. CASE old.status = "none"
    <3> DEFINE w == [NoSession EXCEPT !.status = "planning", !.nodes = c.nodes]
    <3>1. v = w
      BY <2>1
    <3>2. NoSession \in ServerSession /\ NoSession.rev = 0
      BY DEF NoSession, ServerSession, ServerStatus
    <3>3. w \in ServerSession /\ w.status = "planning" /\ w.rev = 0 /\ w.nodes = c.nodes
      BY <1>1, <3>2 DEF ServerSession, ServerStatus
    <3>4. 0 \in 0 .. MaxTurn
      BY PageAssumption
    <3> HIDE DEF w, v, old
    <3> QED
      BY <1>3, <3>1, <3>3, <3>4 DEF SessionOf
  <2>2. CASE old.status = "planning" /\ old.rev = 0 /\ c.nodes # {}
    <3> DEFINE w == [old EXCEPT !.nodes = c.nodes]
    <3>1. v = w
      BY <2>2
    <3>2. w \in ServerSession /\ w.status = "planning" /\ w.rev = old.rev /\ w.nodes = c.nodes
      BY <1>1, <1>3, <2>2 DEF ServerSession
    <3> HIDE DEF w, v, old
    <3> QED
      BY <1>3, <3>1, <3>2 DEF SessionOf
  <2>3. CASE old.status # "none" /\ ~(old.status = "planning" /\ old.rev = 0 /\ c.nodes # {})
    BY <1>3, <2>3
  <2> QED
    BY <2>1, <2>2, <2>3
<1> HIDE DEF v
<1>5. server'[c.key].status # "none"
  BY <1>1, <1>2, <1>4 DEF PageInv
<1>6. \A x \in calls' : x \in calls \/ CallOf(x, owner, prompts, server')
  <2>1. CallOf([c EXCEPT !.stage = "ensured"], owner, prompts, server')
    BY <1>5, CallStaged
  <2>2. calls' = Replace(c, [c EXCEPT !.stage = "ensured"])
    BY DEF Ensure
  <2> QED
    BY <2>1, <2>2, ReplacedCalls
<1>7. /\ UNCHANGED <<page, kept, prompts, cuts, owner>> /\ link' = link
      /\ << >> \in Seq(Event) /\ DOMAIN << >> = {}
  BY DEF Ensure
<1> QED
  BY <1>1, <1>2, <1>4, <1>6, <1>7, ServerSteps

LEMMA InstructSteps ==
  ASSUME PageInv, NEW c \in calls, Instruct(c)
  PROVE  PageInv'
<1>1. CallOf(c, owner, prompts, server) /\ c.key \in Session /\ server[c.key] \in ServerSession
  BY DEF PageInv, CallOf, Call
<1>2. server[c.key].status # "none"
  BY <1>1 DEF CallOf, Instruct
<1> DEFINE now == [server[c.key] EXCEPT !.lines = Append(@, "u")]
           status == server[c.key].status
<1>3. now = [server[c.key] EXCEPT !.status = status, !.lines = Append(@, "u")]
  BY <1>1 DEF ServerSession
<1>4. status \in {"planning", "completed", "failed", "stopped"} /\ "u" \in Author
  BY <1>1, <1>2 DEF ServerSession, ServerStatus, Ended, Author
<1>5. server' = [server EXCEPT ![c.key] = now] /\ Publish(c.key, Says(now, c.key))
  BY DEF Instruct
<1>6. server'[c.key].status # "none"
  BY <1>1, <1>2, <1>5 DEF PageInv, ServerSession
<1>7. \A x \in calls' : x \in calls \/ CallOf(x, owner, prompts, server')
  BY <1>6, CallStaged, ReplacedCalls DEF Instruct
<1>8. UNCHANGED <<page, kept, prompts, cuts, owner>>
  BY DEF Instruct
<1> HIDE DEF now, status
<1> QED
  BY <1>1, <1>2, <1>3, <1>4, <1>5, <1>7, <1>8, SpeechSteps

(* A step of the requests alone.                                           *)
LEMMA CallSteps ==
  ASSUME PageInv, UNCHANGED <<server, page, kept, link, prompts, owner>>, cuts' \in {cuts, cuts + 1},
         \A c \in calls' : c \in calls \/ CallOf(c, owner, prompts, server)
  PROVE  PageInv'
<1>1. cuts' \in Nat
  BY DEF PageInv
<1> QED
  BY <1>1 DEF PageInv

LEMMA DispatchSteps ==
  ASSUME PageInv, NEW c \in calls, Dispatch(c) \/ ServeStop(c)
  PROVE  PageInv'
<1>1. c.key \in Session
  BY DEF PageInv, CallOf, Call
<1>2. PICK ok \in BOOLEAN : calls' = Done(c, ok)
  BY DEF Dispatch, ServeStop
<1>3. \A sessions : \A x \in calls' : x \in calls \/ CallOf(x, owner, prompts, sessions)
  BY <1>2, CallDone
<1>4. UNCHANGED <<page, kept, prompts, cuts, owner>>
  BY DEF Dispatch, ServeStop
<1>5. CASE UNCHANGED <<server, link>>
  <2>1. \A x \in calls' : x \in calls \/ CallOf(x, owner, prompts, server)
    BY <1>3
  <2> QED
    BY <1>4, <1>5, <2>1, CallSteps
<1>6. ASSUME NEW status \in Ended, server[c.key].status = "planning", EndAs(c.key, status) PROVE PageInv'
  <2>1. \A x \in calls' : x \in calls \/ CallOf(x, owner, prompts, server')
    BY <1>3
  <2> QED
    BY <1>1, <1>4, <1>6, <2>1, EndSteps
<1>7. \/ UNCHANGED <<server, link>>
      \/ \E status \in Ended : server[c.key].status = "planning" /\ EndAs(c.key, status)
  BY DEF Dispatch, ServeStop, Ended
<1> QED
  BY <1>5, <1>6, <1>7

LEMMA LostSteps ==
  ASSUME PageInv, NEW c \in calls, LoseCall(c)
  PROVE  PageInv'
<1>1. c \in Call
  BY DEF PageInv, CallOf
<1>2. ASSUME NEW x \in calls' PROVE x \in calls \/ CallOf(x, owner, prompts, server)
  <2>1. CASE x \in Done(c, FALSE)
    BY <2>1, CallDone
  <2>2. CASE x = [c EXCEPT !.heard = FALSE]
    <3>1. x = [c EXCEPT !.stage = c.stage, !.ok = c.ok, !.heard = FALSE]
      BY <1>1, <2>2 DEF Call
    <3>2. /\ c.stage \in {"sent", "ensured", "instructed", "done"} /\ c.ok \in BOOLEAN
          /\ (c.stage \in {"ensured", "instructed"} => server[c.key].status # "none")
      BY <1>1 DEF Call, PageInv, CallOf
    <3> QED
      BY <3>1, <3>2, CallMoves
  <2> QED
    BY <1>2, <2>1, <2>2 DEF LoseCall
<1> QED
  BY <1>2, CallSteps DEF LoseCall

-----------------------------------------------------------------------------
(* The stream.                                                             *)

(* The nodes a stream starts with, in some order.                          *)
Puts(s) == {[key |-> s, put |-> TRUE, node |-> n] : n \in server[s].nodes}

LEMMA PutsType ==
  ASSUME PageInv, NEW s \in Session
  PROVE  SetToSeq(Puts(s)) \in Seq(Puts(s))
<1> DEFINE now == server[s]
           puts == Puts(s)
<1>1. now.nodes \in SUBSET Node
  BY DEF PageInv, ServerSession
<1>2. IsFiniteSet(puts)
  <2>1. IsFiniteSet(Session \X (1 .. MaxTurn))
    <3>1. MaxTurn \in Int /\ IsFiniteSet(Session)
      BY PageAssumption
    <3>2. IsFiniteSet(1 .. MaxTurn)
      <4> HIDE DEF now, puts
      <4> QED
        BY ONLY <3>1, FS_Interval
    <3> QED
      BY ONLY <3>1, <3>2, FS_Product
  <2>2. IsFiniteSet({Own})
    BY FS_Singleton
  <2>3. IsFiniteSet(Node)
    BY <2>1, <2>2, FS_Union DEF Node
  <2>4. IsFiniteSet(now.nodes)
    BY <1>1, <2>3, FS_Subset
  <2> DEFINE f == [n \in now.nodes |-> [key |-> s, put |-> TRUE, node |-> n]]
  <2>5. f \in Surjection(now.nodes, puts)
    BY DEF Surjection, Puts
  <2> HIDE DEF now, puts
  <2> QED
    BY <2>4, <2>5, FS_Surjection
<1> HIDE DEF puts
<1>3. SetToSeq(puts) \in [1 .. Cardinality(puts) -> puts]
  <2>1. PICK n \in Nat : ExistsBijection(1 .. n, puts)
    BY <1>2, FS_NatBijection
  <2>2. Cardinality(puts) = n
    BY <2>1, FS_CountingElements, FS_NatBijection
  <2>3. PICK f \in [1 .. n -> puts] : IsInjective(f)
    BY <2>1 DEF ExistsBijection, Bijection, Injection, IsInjective
  <2> QED
    BY <2>2, <2>3 DEF SetToSeq
<1>4. Cardinality(puts) \in Nat
  BY <1>2, FS_CardinalityType
<1> QED
  BY <1>3, <1>4 DEF puts

LEMMA WholeType ==
  ASSUME PageInv, NEW s \in Session, server[s].status # "none"
  PROVE  /\ SentWhole(s) \in Seq(Event)
         /\ \A i \in DOMAIN SentWhole(s) : EventOf(SentWhole(s)[i], owner[s], owner)
<1> DEFINE now == server[s]
           puts == Puts(s)
           Whole(kind, ops) == [kind |-> kind, of |-> now, ops |-> ops, first |-> TRUE]
<1>1. SessionOf(s, now, owner) /\ now \in ServerSession /\ now.nodes \in SUBSET Node
  BY DEF PageInv, ServerSession
<1>2. puts \subseteq Operation /\ puts \subseteq MyOps(owner[s], owner)
  <2> SUFFICES ASSUME NEW n \in now.nodes
               PROVE  /\ [key |-> s, put |-> TRUE, node |-> n] \in Operation
                      /\ [key |-> s, put |-> TRUE, node |-> n] \in MyOps(owner[s], owner)
    BY DEF Puts
  <2>1. n \in Node /\ Mine({n}, owner[s], owner)
    BY <1>1 DEF SessionOf, Mine
  <2> QED
    BY <2>1 DEF Operation, MyOps
<1>3. SetToSeq(puts) \in Seq(puts)
  BY PutsType
<1> HIDE DEF puts
<1>4. /\ SetToSeq(puts) \in Seq(Operation) /\ SetToSeq(puts) \in Seq(MyOps(owner[s], owner))
      /\ << >> \in Seq(Operation) /\ << >> \in Seq(MyOps(owner[s], owner))
  BY <1>2, <1>3
<1>5. ASSUME NEW kind \in {"session", "messages", "patch", "snapshot"}, NEW ops \in Seq(Operation),
             ops \in Seq(MyOps(owner[s], owner))
      PROVE  EventOf(Whole(kind, ops), owner[s], owner)
  <2> HIDE DEF now
  <2> QED
    BY <1>1, <1>5 DEF EventOf, Event, SessionOf, now
<1> DEFINE a == Whole("session", << >>)
           b == Whole("messages", << >>)
           d == Whole("patch", SetToSeq(puts))
           e == Whole("snapshot", << >>)
<1>6. SentWhole(s) = <<a, b, d, e>>
  BY DEF SentWhole, puts, Puts
<1>7. /\ EventOf(a, owner[s], owner) /\ EventOf(b, owner[s], owner)
      /\ EventOf(d, owner[s], owner) /\ EventOf(e, owner[s], owner)
  <2> HIDE DEF Whole
  <2> QED
    BY <1>4, <1>5
<1> HIDE DEF a, b, d, e
<1> QED
  BY <1>6, <1>7 DEF EventOf

LEMMA OpenSteps ==
  ASSUME PageInv, OpenStream
  PROVE  PageInv'
<1>1. link.stage = "join" /\ link \in Link /\ link.inbox \in Seq(Event) /\ page.key # None
  BY DEF OpenStream, PageInv, Link
<1>2. page.key \in Session /\ server[page.key].status # "none" /\ owner[page.key] = page.flow
  BY <1>1 DEF PageInv, PageOf, Page, KeyOf
<1>3. server[page.key] \in ServerSession
  BY <1>2 DEF PageInv
<1> DEFINE whole == SentWhole(page.key)
           both == whole \o link.inbox
<1>4. whole \in Seq(Event) /\ \A i \in DOMAIN whole : EventOf(whole[i], page.flow, owner)
  <2>1. /\ SentWhole(page.key) \in Seq(Event)
        /\ \A i \in DOMAIN SentWhole(page.key) : EventOf(SentWhole(page.key)[i], owner[page.key], owner)
    BY <1>2, WholeType
  <2> QED
    BY <1>2, <2>1
<1> HIDE DEF whole
<1>5. both \in Seq(Event) /\ \A i \in DOMAIN both : EventOf(both[i], page.flow, owner)
  BY <1>1, <1>4 DEF PageInv
<1>6. link' = [link EXCEPT !.stage = "open", !.inbox = both, !.seen = server[page.key], !.sig = server[page.key]]
  BY <1>1 DEF OpenStream, whole, Link
<1> HIDE DEF both
<1>7. link' \in Link /\ link'.stage = "open" /\ link'.inbox = both
  BY <1>1, <1>3, <1>5, <1>6 DEF Link
<1>8. UNCHANGED <<server, page, kept, calls, prompts, cuts, owner>>
  BY DEF OpenStream
<1> QED
  BY <1>1, <1>2, <1>5, <1>7, <1>8 DEF PageInv

LEMMA LinkAfterType ==
  ASSUME link \in Link, link.inbox # << >>, NEW m \in Event
  PROVE  LinkAfter(m) \in Link /\ LinkAfter(m).stage = link.stage /\ LinkAfter(m).inbox = Tail(link.inbox)
<1> DEFINE sent == [link EXCEPT !.inbox = Tail(@)]
<1>1. link.inbox \in Seq(Event) /\ Tail(link.inbox) \in Seq(Event)
  BY DEF Link
<1>2. /\ sent \in Link /\ sent.stage = link.stage /\ sent.inbox = Tail(link.inbox)
      /\ sent.seen = link.seen /\ sent.drain = link.drain
  BY <1>1 DEF Link
<1>3. m.of \in ServerSession
  BY DEF Event
<1> DEFINE Ok(l) == l \in Link /\ l.stage = link.stage /\ l.inbox = Tail(link.inbox)
           a == [sent EXCEPT !.sig = m.of, !.drain = @ \/ m.of.status \in Ended]
           b == [sent EXCEPT !.seen.lines = m.of.lines]
           d == [sent EXCEPT !.seen.rev = m.of.rev]
           e == [sent EXCEPT !.seen.rev = m.of.rev, !.seen.nodes = m.of.nodes]
<1>4. LinkAfter(m) \in {sent, a, b, d, e}
  BY DEF LinkAfter
<1> HIDE DEF sent
<1>5. Ok(a)
  <2>1. sent.drain \in BOOLEAN
    BY <1>2 DEF Link
  <2>2. a = [sent EXCEPT !.sig = m.of, !.drain = sent.drain \/ m.of.status \in Ended]
    BY <1>2 DEF Link
  <2> QED
    BY <1>2, <1>3, <2>1, <2>2 DEF Link
<1>6. Ok(b)
  <2>1. [sent.seen EXCEPT !.lines = m.of.lines] \in ServerSession
    BY <1>2, <1>3 DEF Link, ServerSession
  <2>2. b = [sent EXCEPT !.seen = [sent.seen EXCEPT !.lines = m.of.lines]]
    BY <1>2 DEF Link
  <2> QED
    BY <1>2, <2>1, <2>2 DEF Link
<1>7. Ok(d)
  <2>1. [sent.seen EXCEPT !.rev = m.of.rev] \in ServerSession
    BY <1>2, <1>3 DEF Link, ServerSession
  <2>2. d = [sent EXCEPT !.seen = [sent.seen EXCEPT !.rev = m.of.rev]]
    BY <1>2 DEF Link
  <2> QED
    BY <1>2, <2>1, <2>2 DEF Link
<1>8. Ok(e)
  <2>1. [sent.seen EXCEPT !.rev = m.of.rev, !.nodes = m.of.nodes] \in ServerSession
    BY <1>2, <1>3 DEF Link, ServerSession
  <2>2. e = [sent EXCEPT !.seen = [sent.seen EXCEPT !.rev = m.of.rev, !.nodes = m.of.nodes]]
    BY <1>2 DEF Link
  <2> QED
    BY <1>2, <2>1, <2>2 DEF Link
<1>9. Ok(sent)
  BY <1>2
<1> HIDE DEF a, b, d, e, Ok
<1>10. Ok(LinkAfter(m))
  BY <1>4, <1>5, <1>6, <1>7, <1>8, <1>9
<1> QED
  BY <1>10 DEF Ok

LEMMA DeliverSteps ==
  ASSUME PageInv, Deliver
  PROVE  PageInv'
<1> DEFINE m == Head(link.inbox)
<1>1. link.stage = "open" /\ link.inbox # << >> /\ link \in Link /\ link.inbox \in Seq(Event) /\ page.key # None
  BY DEF Deliver, PageInv, Link
<1>2. page.key \in Session /\ server[page.key].status # "none"
  BY <1>1 DEF PageInv, PageOf, Page
<1>3. EventOf(m, page.flow, owner) /\ m \in Event
  BY <1>1 DEF PageInv
<1>4. page' \in {page, Handled(page, m)} /\ link' \in {Linked("wait"), LinkAfter(m)}
  BY DEF Deliver
<1> HIDE DEF m
<1>5. PageOf(page', owner) /\ page'.flow = page.flow /\ page'.key = page.key /\ page'.pending <= prompts
  <2>1. page.pending \in Nat /\ page.pending <= prompts /\ prompts \in Nat /\ PageOf(page, owner)
    BY DEF PageInv, PageOf, Page
  <2> QED
    BY <1>2, <1>3, <1>4, <2>1, EventShown
<1>6. /\ link' \in Link /\ link'.stage \in {"wait", "open"}
      /\ link'.stage = "wait" => link'.inbox = << >>
      /\ \A i \in DOMAIN link'.inbox : EventOf(link'.inbox[i], page.flow, owner)
  <2>1. CASE link' = Linked("wait")
    BY <2>1, LinksType
  <2>2. CASE link' = LinkAfter(m)
    <3>1. link' \in Link /\ link'.stage = "open" /\ link'.inbox = Tail(link.inbox)
      BY <1>1, <1>3, <2>2, LinkAfterType
    <3>2. \A i \in DOMAIN Tail(link.inbox) : i + 1 \in DOMAIN link.inbox /\ Tail(link.inbox)[i] = link.inbox[i + 1]
      BY <1>1
    <3> QED
      BY <3>1, <3>2 DEF PageInv
  <2> QED
    BY <1>4, <2>1, <2>2
<1>7. UNCHANGED <<server, kept, calls, prompts, cuts, owner>>
  BY DEF Deliver
<1> QED
  BY <1>1, <1>2, <1>5, <1>6, <1>7 DEF PageInv, KeyOf

LEMMA StreamSteps ==
  ASSUME PageInv, Stream \/ ServerCloses \/ Cut
  PROVE  PageInv'
<1>1. CASE ServeProbe
  <2>1. PICK stage \in {"absent", "wait"} :
          link' = Linked(stage) /\ (stage = "wait" => server[page.key].status # "none")
    BY <1>1 DEF ServeProbe
  <2> QED
    BY <1>1, <2>1, LinkSteps DEF ServeProbe
<1>2. CASE StaleSession
  <2>1. /\ PageOf(page', owner) /\ page'.key = None /\ page'.flow = page.flow
        /\ page'.pending \in {page.pending, 0}
    BY <1>2, KeyChanges DEF StaleSession, PageInv
  <2>2. page'.pending <= prompts
    BY <2>1 DEF PageInv
  <2> QED
    BY <1>2, <2>1, <2>2, PageSteps DEF StaleSession, KeyOf, PageInv
<1>3. CASE Subscribe
  BY <1>3, LinkSteps DEF Subscribe, PageInv
<1>4. CASE OpenStream
  BY <1>4, OpenSteps
<1>5. CASE Deliver
  BY <1>5, DeliverSteps
<1>6. CASE ServerCloses
  BY <1>6, LinkSteps DEF ServerCloses, PageInv
<1>7. CASE Cut
  BY <1>7, LinkSteps DEF Cut, PageInv
<1> QED
  BY <1>1, <1>2, <1>3, <1>4, <1>5, <1>6, <1>7 DEF Stream

-----------------------------------------------------------------------------
(* Timers and the user.                                                    *)

LEMMA TimerSteps ==
  ASSUME PageInv, Timers
  PROVE  PageInv' /\ Same(page', page)
<1>1. PageOf(page', owner) /\ Same(page', page)
  BY QueuePlays, Blocked DEF Timers, Step, Unlock, PageInv
<1>2. page'.pending <= prompts /\ KeyOf(page'.key, page'.flow, owner)
  BY <1>1 DEF Same, PageInv
<1>3. UNCHANGED <<server, kept, link, calls, prompts, cuts, owner>>
  BY DEF Timers, Step, Unlock
<1>4. PageInv'
  BY <1>1, <1>2, <1>3, PageSteps DEF Same, PageInv
<1> QED
  BY <1>1, <1>4

LEMMA AnswerSteps ==
  ASSUME PageInv, NEW c \in calls, AnswerGenerate(c)
  PROVE  /\ PageInv' /\ page'.flow = page.flow /\ page'.key \in {page.key, c.key}
         /\ page'.pending \in {page.pending, 0} /\ page'.chat = page.chat
         /\ page'.key # page.key => c.flow = page.flow /\ c.id = page.pending /\ page'.pending = 0
<1>1. c.key \in Session /\ owner[c.key] = c.flow
  BY DEF PageInv, CallOf, Call
<1>2. /\ PageOf(page', owner) /\ page'.flow = page.flow /\ page'.key \in {page.key, c.key}
      /\ page'.pending \in {page.pending, 0} /\ page'.chat = page.chat
      /\ page'.key # page.key => c.flow = page.flow /\ c.id = page.pending /\ page'.pending = 0
  BY <1>1, PlanIsAnswered, PlanHasFailed DEF AnswerGenerate, StillAwaited, PageInv, Same
<1>3. page'.pending <= prompts
  BY <1>2 DEF PageInv
<1>4. KeyOf(page'.key, page'.flow, owner)
  BY <1>1, <1>2 DEF KeyOf, PageInv
<1>5. link' = (IF page'.key = page.key THEN link ELSE LinkFor(page'.key))
  BY DEF AnswerGenerate, Relink
<1>6. UNCHANGED <<server, kept, prompts, cuts, owner>> /\ calls' = calls \ {c}
  BY DEF AnswerGenerate
<1>7. PageInv'
  BY <1>2, <1>3, <1>4, <1>5, <1>6, PageSteps DEF PageInv
<1> QED
  BY <1>2, <1>7

LEMMA StoppedSteps ==
  ASSUME PageInv, NEW c \in calls, AnswerStop(c)
  PROVE  PageInv' /\ Same(page', page)
<1> DEFINE q == [page EXCEPT !.status = "stopped", !.planning = FALSE, !.blocked = FALSE, !.stopping = FALSE]
           r == [page EXCEPT !.stopping = FALSE]
<1>1. page \in Page /\ PageOf(page, owner)
  BY DEF PageInv, PageOf
<1>2. PageOf(q, owner) /\ Same(q, page)
  <2>1. q \in Page
    BY <1>1 DEF Page, PageStatus, Ended
  <2>2. /\ q.flow = page.flow /\ q.canvas = page.canvas /\ q.ops = page.ops /\ q.snaps = page.snaps
        /\ q.flush = page.flush /\ q.rev = page.rev /\ Same(q, page)
    BY <1>1 DEF Page, Same
  <2> HIDE DEF q
  <2> QED
    BY <1>1, <2>1, <2>2, FlagsKeep
<1>3. PageOf(r, owner) /\ Same(r, page)
  <2>1. r \in Page
    BY <1>1 DEF Page
  <2>2. /\ r.flow = page.flow /\ r.canvas = page.canvas /\ r.ops = page.ops /\ r.snaps = page.snaps
        /\ r.flush = page.flush /\ r.rev = page.rev /\ Same(r, page)
    BY <1>1 DEF Page, Same
  <2> HIDE DEF r
  <2> QED
    BY <1>1, <2>1, <2>2, FlagsKeep
<1>4. page' = q \/ page' = r
  BY DEF AnswerStop
<1> HIDE DEF q, r
<1>5. PageOf(page', owner) /\ Same(page', page)
  BY <1>2, <1>3, <1>4
<1>6. page'.pending <= prompts /\ KeyOf(page'.key, page'.flow, owner)
  BY <1>5 DEF Same, PageInv
<1>7. UNCHANGED <<server, kept, link, prompts, cuts, owner>> /\ calls' = calls \ {c}
  BY DEF AnswerStop
<1>8. PageInv'
  BY <1>5, <1>6, <1>7, PageSteps DEF Same, PageInv
<1> QED
  BY <1>5, <1>8

LEMMA KeptGrows ==
  ASSUME NEW o, NEW n, Grows(o, n), NEW f \in Flow, NEW k, KeptOf(k, f, o)
  PROVE  KeptOf(k, f, n)
<1>1. k.canvas \in SUBSET Node /\ k.key \in Session \cup {None}
  BY DEF KeptOf, Kept
<1>2. Mine(k.canvas, f, n)
  BY <1>1, MineGrows DEF KeptOf
<1>3. KeyOf(k.key, f, n)
  BY <1>1, PageAssumption DEF KeptOf, KeyOf, Grows
<1> QED
  BY <1>2, <1>3 DEF KeptOf

LEMMA UserSteps ==
  ASSUME PageInv, Grows(owner, owner'), prompts' \in {prompts, prompts + 1}, cuts' \in {cuts, cuts + 1},
         server' = server, PageOf(page', owner'), KeyOf(page'.key, page'.flow, owner'),
         page'.pending <= prompts', kept' \in [Flow -> Kept],
         \A f \in Flow : KeptOf(kept'[f], f, owner') /\ kept'[f].pending <= prompts',
         \/ link' = link /\ page'.key = page.key /\ page'.flow = page.flow
         \/ link' = LinkFor(page'.key),
         \A c \in calls' : c \in calls \/ CallOf(c, owner', prompts', server)
  PROVE  PageInv'
<1>1. page'.key \in Session \cup {None} /\ page.flow \in Flow
  BY DEF PageOf, Page, PageInv
<1>2. /\ link' \in Link /\ (link'.stage = "off" <=> page'.key = None)
      /\ link'.stage \notin {"join", "open"} => link'.inbox = << >>
      /\ link'.stage \in {"wait", "join", "open"} => server[page'.key].status # "none"
      /\ \A i \in DOMAIN link'.inbox : EventOf(link'.inbox[i], page'.flow, owner')
  <2>1. CASE link' = link /\ page'.key = page.key /\ page'.flow = page.flow
    BY <1>1, <2>1, EventGrows DEF PageInv
  <2>2. CASE link' = LinkFor(page'.key)
    <3>1. /\ link' \in Link /\ link'.inbox = << >>
          /\ link'.stage = IF page'.key = None THEN "off" ELSE "probe"
      BY <1>1, <2>2, LinksType
    <3> QED
      BY <3>1
  <2> QED
    BY <2>1, <2>2
<1>3. ASSUME NEW c \in calls' PROVE CallOf(c, owner', prompts', server')
  <2>1. CASE c \in calls
    <3>1. CallOf(c, owner, prompts, server) /\ c.key \in Session /\ c.flow \in Flow
          /\ c.nodes \in SUBSET Node /\ c.id \in Nat /\ prompts \in Nat
      BY <2>1 DEF PageInv, CallOf, Call
    <3>2. Mine(c.nodes, c.flow, owner')
      BY <3>1, MineGrows DEF CallOf
    <3>3. owner'[c.key] = c.flow
      BY <3>1, PageAssumption DEF CallOf, Grows
    <3>4. c.kind = "generate" => c.id \in 1 .. prompts'
      BY <3>1 DEF CallOf
    <3> QED
      BY <3>1, <3>2, <3>3, <3>4 DEF CallOf
  <2> QED
    BY <2>1
<1>4. ASSUME NEW s \in Session PROVE SessionOf(s, server'[s], owner')
  <2>1. SessionOf(s, server[s], owner) /\ server[s].nodes \in SUBSET Node
    BY DEF PageInv, ServerSession
  <2>2. CASE server[s].status = "none"
    <3>1. server[s] = NoSession /\ server[s].nodes = {}
      BY <2>1, <2>2 DEF SessionOf, NoSession
    <3> QED
      BY <2>1, <2>2, <3>1 DEF SessionOf, Mine
  <2>3. CASE server[s].status # "none"
    <3>1. owner[s] \in Flow /\ owner'[s] = owner[s]
      BY <2>1, <2>3, PageAssumption DEF SessionOf, Grows
    <3>2. Mine(server[s].nodes, owner'[s], owner')
      BY <2>1, <3>1, MineGrows DEF SessionOf
    <3> QED
      BY <2>1, <2>3, <3>1, <3>2 DEF SessionOf
  <2> QED
    BY <2>2, <2>3
<1>5. prompts' \in Nat /\ cuts' \in Nat
  BY DEF PageInv
<1> QED
  BY <1>2, <1>3, <1>4, <1>5 DEF PageInv, Grows

LEMMA OwnersStay == PageInv => Grows(owner, owner)
  BY DEF PageInv, Grows

LEMMA RequestType ==
  ASSUME PageInv, NEW kind \in {"generate", "stop"}, NEW s \in Session, NEW o, o[s] = page.flow,
         NEW id \in Nat, NEW nodes \in SUBSET Node, Mine(nodes, page.flow, o), NEW last \in Nat,
         kind = "generate" => id \in 1 .. last, NEW sessions
  PROVE  CallOf(Request(kind, s, id, nodes), o, last, sessions)
<1>1. page.flow \in Flow
  BY DEF PageInv, PageOf, Page
<1> QED
  BY <1>1 DEF Request, CallOf, Call

LEMMA StopSteps ==
  ASSUME PageInv, Stop
  PROVE  PageInv' /\ Same(page', page)
<1> DEFINE emptied == IF page.key = None THEN ClearAllQueues(page) ELSE ClearQueue(page, page.key)
           free == Unblocks(emptied)
           q == [free EXCEPT !.pending = 0, !.status = "stopped", !.planning = FALSE,
                             !.stopping = page.key # None]
<1>1. PageOf(emptied, owner) /\ Same(emptied, page)
  BY AllQueuesClear, QueueClears DEF PageInv
<1>2. page' = q
  BY DEF Stop
<1> HIDE DEF emptied
<1>3. PageOf(free, owner) /\ Same(free, emptied)
  BY <1>1, Blocked
<1> HIDE DEF free
<1>4. q \in Page
  BY <1>3 DEF PageOf, Page, PageStatus, Ended
<1>5. /\ q.flow = free.flow /\ q.canvas = free.canvas /\ q.ops = free.ops /\ q.snaps = free.snaps
      /\ q.flush = free.flush /\ q.rev = free.rev /\ Same(q, free)
  BY <1>3 DEF PageOf, Page, Same
<1> HIDE DEF q
<1>6. PageOf(q, owner) /\ Same(q, page)
  BY <1>1, <1>3, <1>4, <1>5, FlagsKeep DEF Same
<1>7. page'.pending <= prompts /\ KeyOf(page'.key, page'.flow, owner)
  BY <1>2, <1>6 DEF Same, PageInv
<1>8. ASSUME NEW c \in calls' PROVE c \in calls \/ CallOf(c, owner', prompts', server)
  <2>1. CASE page.key # None /\ c = Request("stop", page.key, 0, {})
    <3>1. page.key \in Session /\ owner[page.key] = page.flow
      BY <2>1 DEF PageInv, PageOf, Page, KeyOf
    <3>2. Mine({}, page.flow, owner) /\ prompts' \in Nat /\ owner' = owner
      BY DEF Mine, Stop, PageInv
    <3> QED
      BY <2>1, <3>1, <3>2, RequestType
  <2> QED
    BY <2>1, <1>8 DEF Stop
<1>9. /\ UNCHANGED <<server, kept, link, cuts, owner>> /\ prompts' = prompts + 1
      /\ page'.key = page.key /\ page'.flow = page.flow
  BY <1>2, <1>6 DEF Stop, Same
<1>10. Grows(owner, owner') /\ page'.pending <= prompts'
  <2>1. page'.pending \in Nat /\ prompts \in Nat
    BY <1>2, <1>6 DEF PageInv, PageOf, Page
  <2>2. page'.pending <= prompts'
    BY <1>7, <1>9, <2>1
  <2> QED
    BY <1>9, <2>2, OwnersStay
<1>11. \A f \in Flow : KeptOf(kept'[f], f, owner') /\ kept'[f].pending <= prompts'
  BY <1>9 DEF PageInv, KeptOf, Kept
<1>12. PageOf(page', owner') /\ KeyOf(page'.key, page'.flow, owner') /\ kept' \in [Flow -> Kept]
  BY <1>2, <1>6, <1>7, <1>9 DEF PageInv
<1>13. PageInv'
  BY <1>8, <1>9, <1>10, <1>11, <1>12, UserSteps
<1> QED
  BY <1>2, <1>6, <1>13

LEMMA PromptSteps ==
  ASSUME PageInv, Prompt
  PROVE  /\ PageInv'
         /\ page'.flow = page.flow /\ page'.key \in Session
         /\ page.key # None => page'.key = page.key
         /\ page'.pending = prompts + 1 /\ page'.chat = Append(page.chat, "u")
         /\ calls' = calls \cup {Request("generate", page'.key, prompts + 1, page.canvas)}
<1> DEFINE s == SessionForPrompt(page)
<1>1. s \in Session /\ (page.key = s \/ (page.key = None /\ owner[s] = None))
  BY DEF Prompt, SessionForPrompt, PageInv, PageOf, Page
<1>2. /\ page' = PlanStarts(page, s) /\ Relink(s) /\ owner' = [owner EXCEPT ![s] = page.flow]
      /\ calls' = calls \cup {Request("generate", s, prompts + 1, page.canvas)}
      /\ prompts' = prompts + 1 /\ UNCHANGED <<server, kept, cuts>>
  BY DEF Prompt
<1> HIDE DEF s
<1>3. PageOf(page, owner) /\ page.flow \in Flow /\ page.canvas \in SUBSET Node /\ prompts \in Nat
      /\ owner \in [Session -> Flow \cup {None}]
  BY DEF PageInv, PageOf, Page
<1>4. Grows(owner, owner')
  <2>1. owner' \in [Session -> Flow \cup {None}]
    BY <1>2, <1>3
  <2>2. owner[s] # None => owner[s] = page.flow
    BY <1>1, PageAssumption DEF PageInv, KeyOf
  <2> QED
    BY <1>2, <1>3, <2>1, <2>2 DEF Grows
<1>5. owner'[s] = page.flow
  BY <1>1, <1>2, <1>3
<1>6. /\ PageOf(page', owner) /\ page'.flow = page.flow /\ page'.key = s
      /\ page'.pending = prompts + 1 /\ page'.chat = Append(page.chat, "u")
  BY <1>1, <1>2, <1>3, PlanIsStarted
<1>7. PageOf(page', owner') /\ KeyOf(page'.key, page'.flow, owner') /\ page'.pending <= prompts'
  BY <1>2, <1>3, <1>4, <1>5, <1>6, PageGrows DEF KeyOf
<1>8. \A f \in Flow : KeptOf(kept'[f], f, owner') /\ kept'[f].pending <= prompts'
  BY <1>2, <1>3, <1>4, KeptGrows DEF PageInv, KeptOf, Kept
<1>9. \/ link' = link /\ page'.key = page.key /\ page'.flow = page.flow
      \/ link' = LinkFor(page'.key)
  BY <1>2, <1>6 DEF Relink
<1>10. CallOf(Request("generate", s, prompts + 1, page.canvas), owner', prompts', server)
  <2>1. Mine(page.canvas, page.flow, owner')
    BY <1>3, <1>4, MineGrows DEF PageOf
  <2>2. prompts + 1 \in Nat /\ prompts + 1 \in 1 .. prompts' /\ prompts' \in Nat
    BY <1>2, <1>3
  <2> QED
    BY <1>1, <1>3, <1>5, <2>1, <2>2, RequestType
<1>11. \A c \in calls' : c \in calls \/ CallOf(c, owner', prompts', server)
  BY <1>2, <1>10
<1>12. PageInv'
  BY <1>2, <1>4, <1>7, <1>8, <1>9, <1>11, UserSteps DEF PageInv
<1> QED
  BY <1>1, <1>2, <1>6, <1>12

LEMMA SwitchSteps ==
  ASSUME PageInv, NEW f \in Flow, SwitchFlow(f)
  PROVE  /\ PageInv'
         /\ page'.flow = f /\ page'.key = kept[f].key /\ page'.chat = kept[f].chat
         /\ page'.pending = kept[f].pending /\ f # page.flow /\ link' = LinkFor(page'.key)
         /\ kept' = [kept EXCEPT ![page.flow] = Leave(page)]
         /\ Leave(page).key = page.key /\ Leave(page).pending = page.pending /\ Leave(page).chat = page.chat
<1> DEFINE back == Restored(f, kept[f])
<1>1. /\ PageOf(back, owner) /\ back.flow = f /\ back.key = kept[f].key /\ back.chat = kept[f].chat
      /\ back.pending = kept[f].pending
  BY FlowIsRestored DEF PageInv
<1>2. /\ page' = [back EXCEPT !.resync = page.resync] /\ f # page.flow
      /\ kept' = [kept EXCEPT ![page.flow] = Leave(page)] /\ link' = LinkFor(kept[f].key)
      /\ cuts' = cuts + 1 /\ UNCHANGED <<server, calls, prompts, owner>>
  BY DEF SwitchFlow
<1> HIDE DEF back
<1>3. page \in Page /\ page.resync \in SUBSET Session
  BY DEF PageInv, PageOf, Page
<1>4. page' \in Page
  BY <1>1, <1>2, <1>3 DEF PageOf, Page
<1>5. /\ page'.flow = f /\ page'.key = kept[f].key /\ page'.chat = kept[f].chat
      /\ page'.pending = kept[f].pending /\ page'.canvas = back.canvas /\ page'.ops = back.ops
      /\ page'.snaps = back.snaps /\ page'.flush = back.flush /\ page'.rev = back.rev
  BY <1>1, <1>2 DEF PageOf, Page
<1>6. PageOf(page', owner)
  BY <1>1, <1>4, <1>5, FlagsKeep
<1>7. /\ KeptOf(Leave(page), page.flow, owner) /\ Leave(page).key = page.key
      /\ Leave(page).pending = page.pending /\ Leave(page).chat = page.chat
  BY FlowIsLeft DEF PageInv
<1>8. kept' \in [Flow -> Kept] /\ \A g \in Flow : KeptOf(kept'[g], g, owner) /\ kept'[g].pending <= prompts
  BY <1>2, <1>3, <1>7 DEF PageInv, KeptOf, Page
<1>9. KeyOf(page'.key, page'.flow, owner) /\ page'.pending <= prompts
  BY <1>5 DEF PageInv, KeptOf
<1>10. PageInv'
  BY <1>2, <1>5, <1>6, <1>8, <1>9, PageSteps
<1> QED
  BY <1>2, <1>5, <1>7, <1>10

LEMMA ReloadSteps ==
  ASSUME PageInv, Reload
  PROVE  /\ PageInv'
         /\ page'.flow = page.flow /\ page'.key = page.key /\ page'.chat = page.chat
         /\ page'.pending = 0 /\ link' = LinkFor(page'.key)
         /\ \A f \in Flow : /\ kept'[f].key = kept[f].key /\ kept'[f].chat = kept[f].chat
                             /\ kept'[f].pending = 0
<1> DEFINE left == Leave(page)
<1>1. KeptOf(left, page.flow, owner) /\ left.key = page.key /\ left.chat = page.chat
  BY FlowIsLeft DEF PageInv
<1>2. /\ KeptOf(Drafted(left), page.flow, owner) /\ Drafted(left).key = page.key
      /\ Drafted(left).chat = page.chat /\ Drafted(left).pending = 0
  BY <1>1, DraftIsKept
<1>3. /\ page' = Restored(page.flow, Drafted(left)) /\ kept' = [f \in Flow |-> Drafted(kept[f])]
      /\ link' = LinkFor(page.key) /\ cuts' = cuts + 1 /\ UNCHANGED <<server, prompts, owner>>
      /\ calls' = {[c EXCEPT !.heard = FALSE] : c \in {d \in calls : d.stage # "done"}}
  BY DEF Reload
<1> HIDE DEF left
<1>4. page.flow \in Flow
  BY DEF PageInv, PageOf, Page
<1>5. /\ PageOf(page', owner) /\ page'.flow = page.flow /\ page'.key = page.key
      /\ page'.chat = page.chat /\ page'.pending = 0
  BY <1>2, <1>3, <1>4, FlowIsRestored
<1>6. \A f \in Flow : /\ KeptOf(kept'[f], f, owner) /\ kept'[f].key = kept[f].key
                      /\ kept'[f].chat = kept[f].chat /\ kept'[f].pending = 0
  BY <1>3, DraftIsKept DEF PageInv
<1>7. kept' \in [Flow -> Kept]
  BY <1>3, <1>6 DEF KeptOf
<1>8. ASSUME NEW x \in calls' PROVE x \in calls \/ CallOf(x, owner, prompts, server)
  <2>1. PICK c \in calls : x = [c EXCEPT !.heard = FALSE]
    BY <1>3
  <2>2. CallOf(c, owner, prompts, server) /\ c \in Call
    BY DEF PageInv, CallOf
  <2>3. x = [c EXCEPT !.stage = c.stage, !.ok = c.ok, !.heard = FALSE]
    BY <2>1, <2>2 DEF Call
  <2>4. /\ c.stage \in {"sent", "ensured", "instructed", "done"} /\ c.ok \in BOOLEAN
        /\ (c.stage \in {"ensured", "instructed"} => server[c.key].status # "none")
    BY <2>2 DEF Call, CallOf
  <2> QED
    BY <2>3, <2>4, CallMoves
<1>9. prompts \in Nat /\ 0 <= prompts
  BY DEF PageInv
<1>10. PageInv'
  BY <1>3, <1>5, <1>6, <1>7, <1>8, <1>9, PageSteps DEF PageInv
<1> QED
  BY <1>3, <1>5, <1>6, <1>10

LEMMA PageStep == PageInv /\ [Next]_vars => PageInv'
<1> SUFFICES ASSUME PageInv, [Next]_vars PROVE PageInv'
  OBVIOUS
<1>1. CASE Planner
  BY <1>1, PlannerSteps
<1>2. CASE Serve
  BY <1>2, EnsureSteps, InstructSteps, DispatchSteps DEF Serve
<1>3. CASE Answer
  BY <1>3, AnswerSteps, StoppedSteps DEF Answer
<1>4. CASE Stream
  BY <1>4, StreamSteps
<1>5. CASE Timers
  BY <1>5, TimerSteps
<1>6. CASE User
  BY <1>6, PromptSteps, StopSteps, ReloadSteps, SwitchSteps DEF User
<1>7. CASE Faults
  BY <1>7, StreamSteps, LostSteps DEF Faults
<1>8. CASE UNCHANGED vars
  BY <1>8 DEF vars, PageInv
<1> QED
  BY <1>1, <1>2, <1>3, <1>4, <1>5, <1>6, <1>7, <1>8 DEF Next

(* The page, what is kept, the sessions and the requests have their types, *)
(* and a queue or a waiting snapshot always has a timer that plays it      *)
(* (flushPlannerOperationQueue).                                           *)
THEOREM PageTypes == Spec => []TypeOK
<1>1. PageInv => TypeOK
  BY DEF PageInv, TypeOK, PageOf, Page, SessionOf, ServerSession, CallOf
<1> QED
  BY <1>1, PageInit, PageStep, PTL DEF Spec

(* The page shows a flow nodes of the flow's own sessions only, however    *)
(* events, snapshots, queued operations and answers arrive while flows are *)
(* switched and sessions replaced (clearPlannerOperationQueueRuntime,      *)
(* resetPlannerRuntimeState).                                              *)
THEOREM OwnPlans == Spec => []OwnPlanOnly
<1>1. PageInv => OwnPlanOnly
  BY DEF PageInv, OwnPlanOnly, PageOf, KeptOf, Mine
<1> QED
  BY <1>1, PageInit, PageStep, PTL DEF Spec

-----------------------------------------------------------------------------
(* What was said stays.                                                    *)

Like(c, d) == c.kind = d.kind /\ c.id = d.id /\ c.key = d.key /\ c.flow = d.flow
NoNewPlan == \A c \in calls' : c.kind = "stop" \/ \E d \in calls : Like(c, d)

LEMMA LikeChanged ==
  ASSUME PageInv, NEW c \in calls, NEW stage, NEW ok, NEW heard
  PROVE  /\ Like([c EXCEPT !.stage = stage], c)
         /\ Like([c EXCEPT !.stage = stage, !.ok = ok], c)
         /\ Like([c EXCEPT !.heard = heard], c) /\ Like(c, c)
<1>1. c \in Call
  BY DEF PageInv, CallOf
<1> QED
  BY <1>1 DEF Like, Call

LEMMA DoneLike ==
  ASSUME PageInv, NEW c \in calls, NEW ok, NEW x \in Done(c, ok)
  PROVE  \E d \in calls : Like(x, d)
<1>1. CASE x \in calls
  BY <1>1, LikeChanged
<1>2. CASE x = [c EXCEPT !.stage = "done", !.ok = ok]
  BY <1>2, LikeChanged
<1> QED
  BY <1>1, <1>2 DEF Done, Replace

(* The page and its stream stay, or the stream starts anew.                *)
LEMMA ChatMoves ==
  ASSUME PageInv, ChatInv, UNCHANGED <<server, kept>>, Same(page', page), NoNewPlan,
         link' = link \/ (link'.inbox = << >> /\ link'.stage \in {"wait", "join"})
  PROVE  ChatInv'
<1>1. \A c \in calls : c.kind = "generate" => c.id # 0
  BY DEF PageInv, CallOf
<1>2. AllFollow(calls', page', kept')
  BY <1>1 DEF AllFollow, NoNewPlan, Like, Follows, Same, ChatInv
<1>3. AllHeard(page', kept', server')
  BY DEF AllHeard, Same, ChatInv
<1>4. /\ link'.stage = "absent" => Unanswered(page'.chat)
      /\ Telling(link'.inbox, link'.stage, page'.chat, server'[page'.key].lines)
  BY DEF Telling, Same, ChatInv
<1> QED
  BY <1>2, <1>3, <1>4 DEF ChatInv

(* The server says something, and it is sent.                              *)
LEMMA ChatTalks ==
  ASSUME PageInv, ChatInv, UNCHANGED <<page, kept>>, NoNewPlan,
         NEW s \in Session, NEW v, server' = [server EXCEPT ![s] = v],
         server[s].lines # << >> => v.lines # << >>,
         NEW events \in Seq(Event),
         \A i \in DOMAIN events : ~Empty(events[i]) /\ (events[i].of.lines # << >> => v.lines # << >>),
         link' = link \/ Publish(s, events)
  PROVE  ChatInv'
<1>1. \A x \in Session : server[x].lines # << >> => server'[x].lines # << >>
  BY DEF PageInv
<1>2. page.key \in Session \cup {None} /\ \A f \in Flow : kept[f].key \in Session \cup {None}
  BY DEF PageInv, PageOf, Page, KeptOf, Kept
<1>3. AllHeard(page', kept', server')
  BY <1>1, <1>2 DEF ChatInv, AllHeard, Heard
<1>4. AllFollow(calls', page', kept')
  BY DEF NoNewPlan, AllFollow, Like, Follows, ChatInv
<1>5. CASE link' = link
  <2>1. link.inbox = << >> \/ page.key \in Session
    BY <1>2 DEF PageInv
  <2>2. Telling(link.inbox, link.stage, page.chat, server'[page.key].lines)
    BY <1>1, <2>1 DEF ChatInv, Telling
  <2> QED
    BY <1>3, <1>4, <1>5, <2>2 DEF ChatInv
<1>6. CASE link' # link
  <2>1. Hears(s) /\ link' = [link EXCEPT !.inbox = @ \o events]
    BY <1>6 DEF Publish
  <2> DEFINE both == link.inbox \o events
             lines == server'[page.key].lines
  <2>2. link \in Link /\ link.inbox \in Seq(Event)
    BY DEF PageInv, Link
  <2>3. link'.inbox = both /\ link'.stage = link.stage /\ link.stage \in {"join", "open"} /\ page.key = s
    BY <2>1, <2>2 DEF Link, Hears
  <2>4. /\ DOMAIN both = 1 .. Len(link.inbox) + Len(events)
        /\ \A i \in DOMAIN both : both[i] = IF i <= Len(link.inbox) THEN link.inbox[i]
                                           ELSE events[i - Len(link.inbox)]
        /\ \A i \in DOMAIN both : i > Len(link.inbox) => i - Len(link.inbox) \in DOMAIN events
        /\ Len(link.inbox) \in Nat /\ DOMAIN link.inbox = 1 .. Len(link.inbox)
    BY <2>2
  <2> HIDE DEF both
  <2>5. server'[s] = v
    BY DEF PageInv
  <2>6. ASSUME NEW i \in DOMAIN both PROVE both[i].of.lines # << >> => lines # << >>
    <3>1. CASE i <= Len(link.inbox)
      BY <1>1, <2>3, <2>4, <3>1 DEF ChatInv, Telling
    <3>2. CASE ~(i <= Len(link.inbox))
      BY <2>3, <2>4, <2>5, <3>2
    <3> QED
      BY <3>1, <3>2
  <2>7. ASSUME NEW i \in DOMAIN both, Empty(both[i])
        PROVE  i \in DOMAIN link.inbox /\ both[i] = link.inbox[i]
    BY <2>4, <2>7
  <2>8. link.stage = "join" \/ ~Unanswered(page.chat) => \A i \in DOMAIN both : ~Empty(both[i])
    BY <2>7 DEF ChatInv, Telling
  <2>9. ASSUME NEW i \in DOMAIN both, NEW j \in DOMAIN both, i < j, both[i].kind = "messages"
        PROVE  ~Empty(both[j])
    <3> SUFFICES ASSUME Empty(both[j]) PROVE FALSE
      OBVIOUS
    <3>1. j \in DOMAIN link.inbox /\ both[j] = link.inbox[j]
      BY <2>7
    <3>2. i \in DOMAIN link.inbox /\ both[i] = link.inbox[i]
      BY <2>4, <2>9, <3>1
    <3> QED
      BY <2>9, <3>1, <3>2 DEF ChatInv, Telling
  <2> HIDE DEF lines
  <2>10. Telling(both, link.stage, page.chat, lines)
    BY <2>6, <2>8, <2>9 DEF Telling
  <2> QED
    BY <1>3, <1>4, <2>3, <2>10 DEF ChatInv, lines
<1> QED
  BY <1>5, <1>6

LEMMA ChatSpeaks ==
  ASSUME PageInv, ChatInv, UNCHANGED <<page, kept>>, NoNewPlan,
         NEW s \in Session, NEW author \in Author, NEW status \in ServerStatus, NEW now,
         now = [server[s] EXCEPT !.status = status, !.lines = Append(@, author)],
         server' = [server EXCEPT ![s] = now], Publish(s, Says(now, s))
  PROVE  ChatInv'
<1>1. server[s] \in ServerSession
  BY DEF PageInv
<1>2. now \in ServerSession /\ now.lines # << >>
  <2>1. now = [server[s] EXCEPT !.status = status, !.lines = Append(server[s].lines, author)]
    BY <1>1 DEF ServerSession
  <2>2. /\ Append(server[s].lines, author) \in Seq(Author)
        /\ Append(server[s].lines, author) # << >>
    <3>1. server[s].lines \in Seq(Author)
      BY <1>1 DEF ServerSession
    <3>2. Len(Append(server[s].lines, author)) = Len(server[s].lines) + 1 /\ Len(server[s].lines) \in Nat
      BY <3>1
    <3> QED
      BY <3>1, <3>2
  <2> QED
    BY <1>1, <2>1, <2>2 DEF ServerSession
<1> DEFINE a == Published("messages", now, << >>)
           b == Published("session", now, << >>)
<1>3. /\ a \in Event /\ b \in Event /\ ~Empty(a) /\ ~Empty(b)
      /\ a.of = now /\ b.of = now
  <2>1. << >> \in Seq(Operation)
    OBVIOUS
  <2> QED
    BY <1>2, <2>1 DEF Published, Event, Empty
<1>4. Says(now, s) = <<a, b>>
  BY DEF Says
<1> HIDE DEF a, b
<1>5. /\ Says(now, s) \in Seq(Event)
      /\ \A i \in DOMAIN Says(now, s) : ~Empty(Says(now, s)[i])
  <2>1. DOMAIN <<a, b>> = {1, 2} /\ <<a, b>> \in Seq(Event)
    BY <1>3
  <2> QED
    BY <1>3, <1>4, <2>1
<1> QED
  BY <1>2, <1>5, ChatTalks

LEMMA ChatInit == Init => ChatInv
<1> SUFFICES ASSUME Init PROVE ChatInv
  OBVIOUS
<1>1. PageInv /\ link.inbox = << >> /\ link.stage = "off"
  BY PageInit, LinksType DEF Init
<1>2. PICK f \in Flow, drawn \in SUBSET {Own} :
        page = Restored(f, [NothingKept EXCEPT !.canvas = drawn])
  BY DEF Init
<1>3. page.chat = << >> /\ \A g \in Flow : kept[g].chat = << >>
  BY <1>2 DEF Init, Restored, NothingKept
<1> QED
  BY <1>1, <1>3 DEF Init, ChatInv, AllHeard, Heard, Unanswered, Telling, AllFollow

LEMMA ChatPlanner ==
  ASSUME PageInv, ChatInv, Planner
  PROVE  ChatInv'
<1>1. PICK s \in Session : PlannerPatches(s) \/ PlannerSays(s) \/ PlannerEnds(s)
  BY DEF Planner
<1>2. UNCHANGED <<page, kept, calls>>
  BY <1>1 DEF PlannerPatches, PlannerSays, PlannerEnds
<1>3. NoNewPlan
  BY <1>2 DEF NoNewPlan, Like
<1>4. server[s] \in ServerSession /\ server[s].status = "planning"
  BY <1>1 DEF PageInv, PlannerPatches, PlannerSays, PlannerEnds, Works
<1>5. CASE PlannerPatches(s)
  <2>1. PICK put \in BOOLEAN : \E n \in IF put THEN {<<s, server[s].rev + 1>>} ELSE server[s].nodes :
          LET now == [server[s] EXCEPT !.rev = @ + 1,
                                       !.nodes = IF put THEN @ \cup {n} ELSE @ \ {n}]
              op == [key |-> s, put |-> put, node |-> n]
          IN /\ server' = [server EXCEPT ![s] = now]
             /\ Publish(s, <<Published("patch", now, <<op>>), Published("snapshot", now, << >>),
                             Published("session", now, << >>)>>)
    BY <1>5 DEF PlannerPatches
  <2>2. PICK nodes, op : LET now == [server[s] EXCEPT !.rev = server[s].rev + 1, !.nodes = nodes] IN
             /\ server' = [server EXCEPT ![s] = now]
             /\ Publish(s, <<Published("patch", now, <<op>>), Published("snapshot", now, << >>),
                             Published("session", now, << >>)>>)
    BY <1>4, <2>1 DEF ServerSession
  <2> DEFINE now == [server[s] EXCEPT !.rev = server[s].rev + 1, !.nodes = nodes]
             a == Published("patch", now, <<op>>)
             b == Published("snapshot", now, << >>)
             d == Published("session", now, << >>)
  <2>3. now.lines = server[s].lines
    BY <1>4 DEF ServerSession
  <2>4. server' = [server EXCEPT ![s] = now] /\ Publish(s, <<a, b, d>>)
    BY <2>2
  <2> HIDE DEF now
  <2>5. /\ ~Empty(a) /\ ~Empty(b) /\ ~Empty(d) /\ a.of = now /\ b.of = now /\ d.of = now
    BY DEF Published, Empty
  <2> HIDE DEF a, b, d
  <2>6. CASE link' = link
    <3>1. << >> \in Seq(Event) /\ DOMAIN << >> = {}
      OBVIOUS
    <3> QED
      BY <1>2, <1>3, <2>3, <2>4, <2>6, <3>1, ChatTalks
  <2>7. CASE link' # link
    <3>1. link' = [link EXCEPT !.inbox = @ \o <<a, b, d>>] /\ link \in Link /\ link'.inbox \in Seq(Event)
          /\ link.inbox \in Seq(Event)
      BY <1>1, <2>4, <2>7, PlannerSteps DEF Publish, PageInv, Planner, Link
    <3>2. link'.inbox = link.inbox \o <<a, b, d>>
      BY <3>1 DEF Link
    <3>3. a \in Event /\ b \in Event /\ d \in Event
      <4> DEFINE both == link.inbox \o <<a, b, d>>
                 n == Len(link.inbox)
      <4>1. n \in Nat /\ n + 1 \in DOMAIN both /\ n + 2 \in DOMAIN both /\ n + 3 \in DOMAIN both
            /\ both[n + 1] = a /\ both[n + 2] = b /\ both[n + 3] = d
        BY <3>1
      <4> QED
        BY <3>1, <3>2, <4>1
    <3>4. /\ <<a, b, d>> \in Seq(Event)
          /\ \A i \in DOMAIN <<a, b, d>> : ~Empty(<<a, b, d>>[i]) /\ <<a, b, d>>[i].of = now
      BY <2>5, <3>3
    <3> QED
      BY <1>2, <1>3, <2>3, <2>4, <3>4, ChatTalks
  <2> QED
    BY <2>6, <2>7
<1>6. CASE PlannerSays(s)
  <2> DEFINE now == [server[s] EXCEPT !.lines = Append(@, "a")]
  <2>1. now = [server[s] EXCEPT !.status = "planning", !.lines = Append(@, "a")]
    BY <1>4 DEF ServerSession
  <2>2. server' = [server EXCEPT ![s] = now] /\ Publish(s, Says(now, s))
    BY <1>6 DEF PlannerSays
  <2>3. "a" \in Author /\ "planning" \in ServerStatus
    BY DEF Author, ServerStatus
  <2> HIDE DEF now
  <2> QED
    BY <1>2, <1>3, <2>1, <2>2, <2>3, ChatSpeaks
<1>7. CASE PlannerEnds(s)
  <2> DEFINE now == [server[s] EXCEPT !.status = "completed", !.lines = Append(@, "a")]
  <2>1. server' = [server EXCEPT ![s] = now] /\ Publish(s, Says(now, s))
    BY <1>7 DEF PlannerEnds, EndAs
  <2>2. "a" \in Author /\ "completed" \in ServerStatus
    BY DEF Author, ServerStatus, Ended
  <2> QED
    BY <1>2, <1>3, <2>1, <2>2, ChatSpeaks
<1> QED
  BY <1>1, <1>5, <1>6, <1>7

LEMMA ChatServe ==
  ASSUME PageInv, ChatInv, NEW c \in calls,
         Ensure(c) \/ Instruct(c) \/ Dispatch(c) \/ ServeStop(c)
  PROVE  ChatInv'
<1>1. c.key \in Session /\ server[c.key] \in ServerSession
  BY DEF PageInv, CallOf, Call
<1>2. NoNewPlan
  <2>1. ASSUME NEW stage, calls' = Replace(c, [c EXCEPT !.stage = stage]) PROVE NoNewPlan
    <3> DEFINE d == [c EXCEPT !.stage = stage]
    <3>1. Like(d, c)
      BY LikeChanged
    <3>2. \A x \in calls' : x \in calls \/ x = d
      BY <2>1 DEF Replace
    <3>3. \A x \in calls : Like(x, x)
      BY DEF Like
    <3> HIDE DEF d
    <3> QED
      BY <3>1, <3>2, <3>3 DEF NoNewPlan
  <2>2. ASSUME NEW ok, calls' = Done(c, ok) PROVE NoNewPlan
    BY <2>2, DoneLike DEF NoNewPlan
  <2> QED
    BY <2>1, <2>2 DEF Ensure, Instruct, Dispatch, ServeStop
<1>3. UNCHANGED <<page, kept>>
  BY DEF Ensure, Instruct, Dispatch, ServeStop
<1>4. ASSUME NEW status \in Ended, EndAs(c.key, status) PROVE ChatInv'
  <2> DEFINE now == [server[c.key] EXCEPT !.status = status, !.lines = Append(@, "a")]
  <2>1. server' = [server EXCEPT ![c.key] = now] /\ Publish(c.key, Says(now, c.key))
    BY <1>4 DEF EndAs
  <2>2. "a" \in Author /\ status \in ServerStatus
    BY DEF Author, ServerStatus
  <2> QED
    BY <1>1, <1>2, <1>3, <2>1, <2>2, ChatSpeaks
<1>5. ASSUME UNCHANGED <<server, link>> PROVE ChatInv'
  BY <1>2, <1>3, <1>5, ChatMoves DEF Same
<1>6. CASE Ensure(c)
  <2> DEFINE old == server[c.key]
             v == CASE old.status = "none" -> [NoSession EXCEPT !.status = "planning", !.nodes = c.nodes]
                    [] old.status = "planning" /\ old.rev = 0 /\ c.nodes # {} -> [old EXCEPT !.nodes = c.nodes]
                    [] OTHER -> old
  <2>1. server' = [server EXCEPT ![c.key] = v] /\ link' = link
    BY <1>1, <1>6 DEF Ensure, PageInv
  <2>2. old.status = "none" => old.lines = << >>
    BY <1>1 DEF PageInv, SessionOf, NoSession
  <2>3. CASE old.status = "none"
    <3>1. old.lines # << >> => v.lines # << >>
      BY <2>2, <2>3
    <3>2. << >> \in Seq(Event) /\ DOMAIN << >> = {}
      OBVIOUS
    <3> HIDE DEF v
    <3> QED
      BY <1>1, <1>2, <1>3, <2>1, <3>1, <3>2, ChatTalks
  <2>4. CASE old.status # "none"
    <3>1. old.lines # << >> => v.lines # << >>
      <4>1. v = old \/ v = [old EXCEPT !.nodes = c.nodes]
        BY <2>4
      <4> QED
        BY <1>1, <4>1 DEF ServerSession
    <3>2. << >> \in Seq(Event) /\ DOMAIN << >> = {}
      OBVIOUS
    <3> HIDE DEF v
    <3> QED
      BY <1>1, <1>2, <1>3, <2>1, <3>1, <3>2, ChatTalks
  <2> QED
    BY <2>3, <2>4
<1>7. CASE Instruct(c)
  <2> DEFINE now == [server[c.key] EXCEPT !.lines = Append(@, "u")]
             status == server[c.key].status
  <2>1. now = [server[c.key] EXCEPT !.status = status, !.lines = Append(@, "u")]
    BY <1>1 DEF ServerSession
  <2>2. server' = [server EXCEPT ![c.key] = now] /\ Publish(c.key, Says(now, c.key))
    BY <1>7 DEF Instruct
  <2>3. "u" \in Author /\ status \in ServerStatus
    BY <1>1 DEF Author, ServerSession
  <2> HIDE DEF now, status
  <2> QED
    BY <1>1, <1>2, <1>3, <2>1, <2>2, <2>3, ChatSpeaks
<1>8. CASE Dispatch(c) \/ ServeStop(c)
  BY <1>4, <1>5, <1>8 DEF Dispatch, ServeStop, Ended
<1> QED
  BY <1>6, <1>7, <1>8

(* An answer, the timers and the user's stop leave what was said.          *)
LEMMA ChatAnswers ==
  ASSUME PageInv, ChatInv, Answer
  PROVE  ChatInv' /\ page'.chat = page.chat
<1>1. PICK c \in calls : AnswerGenerate(c) \/ AnswerStop(c)
  BY DEF Answer
<1>2. UNCHANGED <<server, kept>> /\ calls' = calls \ {c}
  BY <1>1 DEF AnswerGenerate, AnswerStop
<1>3. NoNewPlan
  BY <1>2, LikeChanged DEF NoNewPlan
<1>4. CASE AnswerStop(c)
  <2>1. Same(page', page) /\ link' = link
    BY <1>4, StoppedSteps DEF AnswerStop
  <2> QED
    BY <1>2, <1>3, <2>1, ChatMoves DEF Same
<1>5. CASE AnswerGenerate(c)
  <2>1. /\ page'.flow = page.flow /\ page'.pending \in {page.pending, 0} /\ page'.chat = page.chat
        /\ page'.key \in {page.key, c.key}
        /\ page'.key # page.key => c.flow = page.flow /\ c.id = page.pending /\ page'.pending = 0
    BY <1>5, AnswerSteps
  <2>2. link' = (IF page'.key = page.key THEN link ELSE LinkFor(page'.key)) /\ c.kind = "generate"
    BY <1>5 DEF AnswerGenerate, Relink
  <2>3. CASE page'.key = page.key
    <3>1. Same(page', page) /\ link' = link
      BY <2>1, <2>2, <2>3 DEF Same
    <3> QED
      BY <1>2, <1>3, <2>1, <3>1, ChatMoves
  <2>4. CASE page'.key # page.key
    <3>1. page.key = None
      BY <2>1, <2>2, <2>4 DEF ChatInv, AllFollow, Follows
    <3>2. Unanswered(page'.chat)
      BY <2>1, <3>1 DEF ChatInv, AllHeard, Heard
    <3>3. AllHeard(page', kept', server')
      BY <1>2, <3>2 DEF ChatInv, AllHeard, Heard
    <3>4. \A d \in calls : d.kind = "generate" => d.id # 0
      BY DEF PageInv, CallOf
    <3>5. AllFollow(calls', page', kept')
      BY <1>2, <2>1, <2>4, <3>4 DEF ChatInv, AllFollow, Follows
    <3>6. link'.inbox = << >> /\ link'.stage # "absent"
      <4>1. c.key \in Session
        BY DEF PageInv, CallOf, Call
      <4> QED
        BY <2>1, <2>2, <2>4, <4>1, LinksType
    <3>7. Telling(link'.inbox, link'.stage, page'.chat, server'[page'.key].lines)
      BY <3>6 DEF Telling
    <3> QED
      BY <2>1, <3>3, <3>5, <3>6, <3>7 DEF ChatInv
  <2> QED
    BY <2>3, <2>4
<1> QED
  BY <1>1, <1>4, <1>5

LEMMA ChatProbed ==
  ASSUME PageInv, ChatInv, ServeProbe
  PROVE  ChatInv'
<1>1. UNCHANGED <<server, page, kept, calls>> /\ link.stage = "probe"
  BY DEF ServeProbe
<1>2. page.key \in Session
  BY <1>1 DEF PageInv, PageOf, Page
<1>3. PICK stage \in {"absent", "wait"} :
        link' = Linked(stage) /\ (stage = "absent" => server[page.key].status = "none")
  BY DEF ServeProbe
<1>4. link'.inbox = << >> /\ link'.stage = stage
  BY <1>2, <1>3, LinksType
<1>5. stage = "absent" => Unanswered(page.chat)
  <2> SUFFICES ASSUME stage = "absent" PROVE Unanswered(page.chat)
    OBVIOUS
  <2>1. server[page.key].lines = << >>
    BY <1>2, <1>3 DEF PageInv, SessionOf, NoSession
  <2> QED
    BY <2>1 DEF ChatInv, AllHeard, Heard
<1>6. Telling(link'.inbox, link'.stage, page'.chat, server'[page'.key].lines)
  BY <1>4 DEF Telling
<1> QED
  BY <1>1, <1>4, <1>5, <1>6 DEF ChatInv

LEMMA ChatForgotten ==
  ASSUME PageInv, ChatInv, StaleSession
  PROVE  ChatInv' /\ page'.chat = page.chat
<1>1. /\ UNCHANGED <<server, kept, calls>> /\ link' = LinkFor(None) /\ link.stage = "absent"
  BY DEF StaleSession
<1>2. /\ page'.key = None /\ page'.flow = page.flow /\ page'.chat = page.chat
      /\ page'.pending \in {page.pending, 0}
  BY KeyChanges DEF StaleSession, PageInv
<1>3. link'.inbox = << >> /\ link'.stage # "absent"
  BY <1>1, LinksType
<1>4. AllHeard(page', kept', server')
  BY <1>1, <1>2 DEF ChatInv, AllHeard, Heard
<1>5. AllFollow(calls', page', kept')
  BY <1>1, <1>2 DEF ChatInv, AllFollow, Follows
<1>6. Telling(link'.inbox, link'.stage, page'.chat, server'[page'.key].lines)
  BY <1>3 DEF Telling
<1> QED
  BY <1>2, <1>3, <1>4, <1>5, <1>6 DEF ChatInv

LEMMA Joined ==
  ASSUME NEW T, NEW a \in Seq(T), NEW b \in Seq(T)
  PROVE  /\ Len(b) \in Nat /\ DOMAIN b = 1 .. Len(b)
         /\ DOMAIN (a \o b) = 1 .. Len(a) + Len(b)
         /\ \A i \in 1 .. Len(a) : (a \o b)[i] = a[i]
         /\ \A i \in DOMAIN (a \o b) : i > Len(a) => i - Len(a) \in DOMAIN b
                                                  /\ (a \o b)[i] = b[i - Len(a)]
  OBVIOUS

(* A stream starts with the whole session, and its messages come second.   *)
LEMMA ChatOpened ==
  ASSUME PageInv, ChatInv, OpenStream
  PROVE  ChatInv'
<1> DEFINE now == server[page.key]
           whole == SentWhole(page.key)
           inbox == link.inbox
           both == whole \o inbox
<1>1. /\ UNCHANGED <<server, page, kept, calls>> /\ link.stage = "join"
      /\ link \in Link /\ inbox \in Seq(Event)
  BY DEF OpenStream, PageInv, Link
<1>2. link'.stage = "open" /\ link'.inbox = both
  BY <1>1 DEF OpenStream, Link
<1>3. /\ whole \in Seq(Event) /\ Len(whole) = 4
      /\ \A i \in 1 .. 4 : whole[i].of = now /\ (whole[i].kind = "messages" <=> i = 2)
  <2>1. page.key \in Session /\ now.status # "none"
    BY <1>1 DEF PageInv, PageOf, Page
  <2>2. whole \in Seq(Event)
    BY <2>1, WholeType
  <2> QED
    BY <2>2 DEF SentWhole
<1>4. /\ DOMAIN both = 1 .. 4 + Len(inbox) /\ Len(inbox) \in Nat /\ DOMAIN inbox = 1 .. Len(inbox)
      /\ \A i \in 1 .. 4 : both[i] = whole[i]
      /\ \A i \in DOMAIN both : i \notin 1 .. 4 => i - 4 \in DOMAIN inbox /\ both[i] = inbox[i - 4]
  <2> HIDE DEF whole, inbox, now
  <2>1. /\ Len(inbox) \in Nat /\ DOMAIN inbox = 1 .. Len(inbox)
        /\ DOMAIN both = 1 .. Len(whole) + Len(inbox)
        /\ \A i \in 1 .. Len(whole) : both[i] = whole[i]
        /\ \A i \in DOMAIN both : i > Len(whole) => i - Len(whole) \in DOMAIN inbox
                                                /\ both[i] = inbox[i - Len(whole)]
    BY <1>1, <1>3, Joined
  <2> HIDE DEF both
  <2> QED
    BY <1>3, <2>1
<1> HIDE DEF both, whole, inbox
<1>5. \A i \in DOMAIN inbox : ~Empty(inbox[i]) /\ (inbox[i].of.lines # << >> => now.lines # << >>)
  BY <1>1 DEF ChatInv, Telling, inbox
<1>6. ASSUME NEW i \in DOMAIN both, Empty(both[i]) PROVE i = 2 /\ now.lines = << >>
  BY <1>3, <1>4, <1>5, <1>6 DEF Empty
<1>7. \A i \in DOMAIN both : both[i].of.lines # << >> => now.lines # << >>
  BY <1>3, <1>4, <1>5
<1>8. ~Unanswered(page.chat) => now.lines # << >>
  BY DEF ChatInv, AllHeard, Heard
<1>9. ASSUME NEW i \in DOMAIN both, NEW j \in DOMAIN both, i < j, both[i].kind = "messages"
      PROVE  ~Empty(both[j])
  <2> SUFFICES ASSUME Empty(both[j]) PROVE FALSE
    OBVIOUS
  <2>1. j = 2 /\ i = 1
    BY <1>4, <1>6, <1>9
  <2> QED
    BY <1>3, <1>4, <1>9, <2>1
<1>10. Telling(both, "open", page.chat, now.lines)
  <2> HIDE DEF now
  <2> QED
    BY <1>6, <1>7, <1>8, <1>9 DEF Telling
<1> QED
  BY <1>1, <1>2, <1>10 DEF ChatInv

(* Messages replace what is shown, but an empty list finds a prompt that   *)
(* waits for its reply.                                                    *)
LEMMA ChatDelivered ==
  ASSUME PageInv, ChatInv, Deliver
  PROVE  ChatInv' /\ (page.chat # << >> => page'.chat # << >>)
<1> DEFINE inbox == link.inbox
           m == Head(inbox)
           lines == server[page.key].lines
<1>1. /\ link.stage = "open" /\ link \in Link /\ inbox \in Seq(Event) /\ inbox # << >>
      /\ UNCHANGED <<server, kept, calls>>
  BY DEF Deliver, PageInv, Link
<1>2. page.key \in Session
  BY <1>1 DEF PageInv, PageOf, Page
<1>3. m = inbox[1] /\ 1 \in DOMAIN inbox /\ m \in Event /\ EventOf(m, page.flow, owner)
  BY <1>1 DEF PageInv
<1>4. /\ page' \in {page, Handled(page, m)} /\ link' \in {Linked("wait"), LinkAfter(m)}
  BY DEF Deliver
<1>5. /\ DOMAIN Tail(inbox) \subseteq Nat
      /\ \A i \in DOMAIN Tail(inbox) : i + 1 \in DOMAIN inbox /\ Tail(inbox)[i] = inbox[i + 1] /\ 1 < i + 1
  BY <1>1
<1> HIDE DEF m
<1>6. link'.stage \in {"wait", "open"} /\ link'.inbox \in {<< >>, Tail(inbox)}
  <2>1. CASE link' = Linked("wait")
    BY <2>1, LinksType
  <2>2. CASE link' = LinkAfter(m)
    BY <1>1, <1>3, <2>2, LinkAfterType
  <2> QED
    BY <1>4, <2>1, <2>2
<1>7. /\ page'.flow = page.flow /\ page'.key = page.key /\ page'.pending \in {page.pending, 0}
      /\ \/ page'.chat = page.chat
         \/ m.kind = "messages" /\ page'.chat = Merged(page.chat, m.of.lines)
  <2>1. PageOf(page, owner)
    BY DEF PageInv
  <2> QED
    BY <1>2, <1>3, <1>4, <2>1, EventShown
<1>8. Telling(inbox, "open", page.chat, lines)
  BY <1>1 DEF ChatInv
<1>9. /\ page'.chat \in {page.chat, m.of.lines}
      /\ m.of.lines # << >> => lines # << >>
      /\ page'.chat # page.chat => m.kind = "messages"
  BY <1>3, <1>7, <1>8 DEF Merged, Telling
<1> HIDE DEF inbox, lines
<1>10. AllHeard(page', kept', server')
  <2>1. page.key # None
    BY <1>2, PageAssumption
  <2>2. Heard(page'.key, page'.chat, server')
    BY <1>1, <1>7, <1>9, <2>1 DEF ChatInv, AllHeard, Heard, Unanswered, lines
  <2> QED
    BY <1>1, <2>2 DEF ChatInv, AllHeard
<1>11. AllFollow(calls', page', kept')
  <2>1. \A c \in calls : c.kind = "generate" => c.id # 0
    BY DEF PageInv, CallOf
  <2> QED
    BY <1>1, <1>7, <2>1 DEF ChatInv, AllFollow, Follows
<1>12. Telling(Tail(inbox), link'.stage, page'.chat, lines)
  <2> DEFINE rest == Tail(inbox)
  <2> HIDE DEF rest
  <2>1. \A i \in DOMAIN rest : i + 1 \in DOMAIN inbox /\ rest[i] = inbox[i + 1] /\ i \in Nat
    BY <1>5 DEF rest
  <2>2. \A i \in DOMAIN rest : rest[i].of.lines # << >> => lines # << >>
    BY <1>8, <2>1 DEF Telling
  <2>3. ASSUME ~Unanswered(page'.chat), NEW i \in DOMAIN rest PROVE ~Empty(rest[i])
    <3>1. CASE page'.chat = page.chat
      BY <1>8, <2>1, <2>3, <3>1 DEF Telling
    <3>2. CASE page'.chat # page.chat
      <4>1. 1 < i + 1 /\ inbox[1].kind = "messages"
        BY <1>3, <1>5, <1>9, <3>2 DEF rest, inbox
      <4> QED
        BY <1>3, <1>8, <2>1, <4>1 DEF Telling, inbox
    <3> QED
      BY <3>1, <3>2
  <2>4. ASSUME NEW i \in DOMAIN rest, NEW j \in DOMAIN rest, i < j, rest[i].kind = "messages"
        PROVE  ~Empty(rest[j])
    <3>1. i + 1 < j + 1 /\ i + 1 \in DOMAIN inbox /\ j + 1 \in DOMAIN inbox
      BY <2>1, <2>4
    <3> QED
      BY <1>8, <2>1, <2>4, <3>1 DEF Telling
  <2>5. Telling(rest, link'.stage, page'.chat, lines)
    BY <1>6, <2>2, <2>3, <2>4 DEF Telling
  <2> QED
    BY <2>5 DEF rest
<1>13. Telling(link'.inbox, link'.stage, page'.chat, lines)
  <2>1. Telling(<< >>, link'.stage, page'.chat, lines)
    BY DEF Telling
  <2> QED
    BY <1>6, <1>12, <2>1
<1>14. ChatInv'
  BY <1>1, <1>6, <1>7, <1>10, <1>11, <1>13 DEF ChatInv, lines
<1>15. page.chat # << >> => page'.chat # << >>
  <2> SUFFICES ASSUME page.chat # << >>, page'.chat = << >> PROVE FALSE
    OBVIOUS
  <2>1. m.kind = "messages" /\ Merged(page.chat, m.of.lines) = << >>
    BY <1>7
  <2>2. m.of.lines = << >> /\ ~PendingReply(page.chat)
    BY <2>1 DEF Merged
  <2>3. Empty(inbox[1])
    BY <1>3, <2>1, <2>2 DEF Empty, inbox
  <2>4. Unanswered(page.chat)
    BY <1>3, <1>8, <2>3 DEF Telling, inbox
  <2> QED
    BY <2>2, <2>4 DEF Unanswered, PendingReply
<1> QED
  BY <1>14, <1>15

(* A prompt is the last word, and its request is the one that is awaited.  *)
LEMMA ChatPrompted ==
  ASSUME PageInv, ChatInv, Prompt
  PROVE  ChatInv' /\ page'.chat # << >>
<1> DEFINE new == Request("generate", page'.key, prompts + 1, page.canvas)
<1>1. /\ page'.flow = page.flow /\ page'.key \in Session /\ page'.pending = prompts + 1
      /\ page'.chat = Append(page.chat, "u") /\ calls' = calls \cup {new}
  BY PromptSteps
<1>2. UNCHANGED <<server, kept>> /\ ((page'.key = page.key /\ link' = link) \/ link' = LinkFor(page'.key))
  <2>1. page' = PlanStarts(page, SessionForPrompt(page)) /\ Relink(SessionForPrompt(page))
        /\ UNCHANGED <<server, kept>>
    BY DEF Prompt
  <2>2. PlanStarts(page, SessionForPrompt(page)).key = SessionForPrompt(page)
    <3>1. SessionForPrompt(page) \in Session /\ PageOf(page, owner) /\ prompts \in Nat
      BY DEF Prompt, SessionForPrompt, PageInv, PageOf, Page
    <3> QED
      BY <3>1, PlanIsStarted
  <2> QED
    BY <2>1, <2>2 DEF Relink
<1>3. Unanswered(page'.chat) /\ page'.chat # << >>
  <2>1. page.chat \in Seq(Author) /\ "u" \in Author
    BY DEF PageInv, PageOf, Page, Author
  <2>2. Len(page'.chat) = Len(page.chat) + 1 /\ Len(page.chat) \in Nat
        /\ page'.chat[Len(page.chat) + 1] = "u"
    BY <1>1, <2>1
  <2> QED
    BY <2>2 DEF Unanswered
<1>4. AllHeard(page', kept', server')
  BY <1>2, <1>3 DEF ChatInv, AllHeard, Heard
<1>5. new.flow = page.flow /\ new.key = page'.key
  BY DEF Request
<1> HIDE DEF new
<1>6. \A c \in calls : c.kind = "generate" => c.id # prompts + 1
  BY DEF PageInv, CallOf
<1>7. AllFollow(calls', page', kept')
  BY <1>1, <1>2, <1>5, <1>6 DEF ChatInv, AllFollow, Follows
<1>8. /\ link'.stage = "absent" => Unanswered(page'.chat)
      /\ Telling(link'.inbox, link'.stage, page'.chat, server'[page'.key].lines)
  <2>1. CASE page'.key = page.key /\ link' = link
    BY <1>2, <1>3, <2>1 DEF ChatInv, Telling
  <2>2. CASE link' = LinkFor(page'.key)
    <3>1. link'.inbox = << >>
      BY <1>1, <2>2, LinksType
    <3> QED
      BY <1>3, <3>1 DEF Telling
  <2> QED
    BY <1>2, <2>1, <2>2
<1> QED
  BY <1>3, <1>4, <1>7, <1>8 DEF ChatInv

LEMMA ChatSwitched ==
  ASSUME PageInv, ChatInv, NEW f \in Flow, SwitchFlow(f)
  PROVE  ChatInv' /\ page'.flow # page.flow
<1>1. /\ page'.flow = f /\ page'.key = kept[f].key /\ page'.chat = kept[f].chat
      /\ page'.pending = kept[f].pending /\ f # page.flow /\ link' = LinkFor(page'.key)
      /\ kept' = [kept EXCEPT ![page.flow] = Leave(page)]
      /\ Leave(page).key = page.key /\ Leave(page).pending = page.pending /\ Leave(page).chat = page.chat
  BY SwitchSteps
<1>2. UNCHANGED <<server, calls>>
  BY DEF SwitchFlow
<1>3. page.flow \in Flow /\ page'.key \in Session \cup {None} /\ kept \in [Flow -> Kept]
  BY <1>1 DEF PageInv, PageOf, Page, KeptOf, Kept
<1>4. /\ kept'[page.flow].key = page.key /\ kept'[page.flow].pending = page.pending
      /\ kept'[page.flow].chat = page.chat
      /\ \A g \in Flow \ {page.flow} : kept'[g] = kept[g]
  BY <1>1, <1>3
<1>5. AllHeard(page', kept', server')
  BY <1>1, <1>2, <1>4 DEF ChatInv, AllHeard
<1>6. \A c \in calls : c.flow \in Flow
  BY DEF PageInv, CallOf, Call
<1>7. AllFollow(calls', page', kept')
  BY <1>1, <1>2, <1>4, <1>6 DEF ChatInv, AllFollow
<1>8. link'.inbox = << >> /\ link'.stage # "absent"
  BY <1>1, <1>3, LinksType
<1>9. Telling(link'.inbox, link'.stage, page'.chat, server'[page'.key].lines)
  BY <1>8 DEF Telling
<1> QED
  BY <1>1, <1>5, <1>7, <1>8, <1>9 DEF ChatInv

LEMMA ChatReloaded ==
  ASSUME PageInv, ChatInv, Reload
  PROVE  ChatInv' /\ page'.chat = page.chat
<1>1. /\ page'.flow = page.flow /\ page'.key = page.key /\ page'.chat = page.chat
      /\ page'.pending = 0 /\ link' = LinkFor(page'.key)
      /\ \A f \in Flow : /\ kept'[f].key = kept[f].key /\ kept'[f].chat = kept[f].chat
                          /\ kept'[f].pending = 0
  BY ReloadSteps
<1>2. /\ server' = server
      /\ calls' = {[c EXCEPT !.heard = FALSE] : c \in {d \in calls : d.stage # "done"}}
  BY DEF Reload
<1>3. page.key \in Session \cup {None}
  BY DEF PageInv, PageOf, Page
<1>4. AllHeard(page', kept', server')
  BY <1>1, <1>2 DEF ChatInv, AllHeard
<1>5. ASSUME NEW x \in calls' PROVE x.flow \in Flow /\ (x.kind = "generate" => x.id # 0)
  <2>1. PICK c \in calls : x = [c EXCEPT !.heard = FALSE]
    BY <1>2
  <2>2. CallOf(c, owner, prompts, server) /\ c \in Call
    BY DEF PageInv, CallOf
  <2> QED
    BY <2>1, <2>2 DEF CallOf, Call
<1>6. AllFollow(calls', page', kept')
  BY <1>1, <1>5 DEF AllFollow, Follows
<1>7. link'.inbox = << >> /\ link'.stage # "absent"
  BY <1>1, <1>3, LinksType
<1>8. Telling(link'.inbox, link'.stage, page'.chat, server'[page'.key].lines)
  BY <1>7 DEF Telling
<1> QED
  BY <1>1, <1>4, <1>6, <1>7, <1>8 DEF ChatInv

LEMMA ChatLost ==
  ASSUME PageInv, ChatInv, NEW c \in calls, LoseCall(c)
  PROVE  ChatInv'
<1>1. UNCHANGED <<server, page, kept, link>>
  BY DEF LoseCall
<1> DEFINE d == [c EXCEPT !.heard = FALSE]
<1>2. Like(d, c)
  BY LikeChanged
<1>3. \A x \in calls' : x \in Done(c, FALSE) \/ x = d
  BY DEF LoseCall
<1> HIDE DEF d
<1>4. NoNewPlan
  BY <1>2, <1>3, DoneLike DEF NoNewPlan
<1> QED
  BY <1>1, <1>4, ChatMoves DEF Same

LEMMA ChatStep ==
  ASSUME PageInv, ChatInv, [Next]_vars
  PROVE  ChatInv' /\ (page'.flow = page.flow /\ page.chat # << >> => page'.chat # << >>)
<1>1. CASE Planner
  BY <1>1, ChatPlanner DEF Planner, PlannerPatches, PlannerSays, PlannerEnds
<1>2. CASE Serve
  BY <1>2, ChatServe DEF Serve, Ensure, Instruct, Dispatch, ServeStop
<1>3. CASE Answer
  BY <1>3, ChatAnswers
<1>4. CASE Stream
  <2>1. CASE Subscribe
    <3>1. link'.inbox = << >> /\ link'.stage = "join" /\ UNCHANGED <<server, page, kept, calls>>
      BY <2>1, LinksType DEF Subscribe
    <3>2. NoNewPlan
      BY <3>1, LikeChanged DEF NoNewPlan
    <3> QED
      BY <3>1, <3>2, ChatMoves DEF Same
  <2>2. CASE ServeProbe \/ OpenStream
    BY <2>2, ChatProbed, ChatOpened DEF ServeProbe, OpenStream
  <2>3. CASE StaleSession \/ Deliver
    BY <2>3, ChatForgotten, ChatDelivered
  <2> QED
    BY <1>4, <2>1, <2>2, <2>3 DEF Stream
<1>5. CASE Timers
  <2>1. Same(page', page) /\ UNCHANGED <<server, kept, link, calls>>
    BY <1>5, TimerSteps DEF Timers, Step, Unlock
  <2>2. NoNewPlan
    BY <2>1, LikeChanged DEF NoNewPlan
  <2> QED
    BY <2>1, <2>2, ChatMoves DEF Same
<1>6. CASE User
  <2>1. CASE Prompt
    BY <2>1, ChatPrompted
  <2>2. CASE Stop
    <3>1. Same(page', page) /\ UNCHANGED <<server, kept, link>>
      BY <2>2, StopSteps DEF Stop
    <3>2. \A c \in calls' : c \in calls \/ c.kind = "stop"
      BY <2>2 DEF Stop, Request
    <3>3. NoNewPlan
      BY <3>2, LikeChanged DEF NoNewPlan
    <3> QED
      BY <3>1, <3>3, ChatMoves DEF Same
  <2>3. CASE Reload
    BY <2>3, ChatReloaded
  <2>4. CASE \E f \in Flow : SwitchFlow(f)
    BY <2>4, ChatSwitched
  <2> QED
    BY <1>6, <2>1, <2>2, <2>3, <2>4 DEF User
<1>7. CASE Faults
  <2>1. CASE ServerCloses \/ Cut
    <3>1. link'.inbox = << >> /\ link'.stage = "wait" /\ UNCHANGED <<server, page, kept, calls>>
      BY <2>1, LinksType DEF ServerCloses, Cut
    <3>2. NoNewPlan
      BY <3>1, LikeChanged DEF NoNewPlan
    <3> QED
      BY <3>1, <3>2, ChatMoves DEF Same
  <2>2. CASE \E c \in calls : LoseCall(c)
    BY <2>2, ChatLost DEF LoseCall
  <2> QED
    BY <1>7, <2>1, <2>2 DEF Faults
<1>8. CASE UNCHANGED vars
  BY <1>8 DEF vars, ChatInv
<1>9. Planner \/ Serve \/ Answer \/ Stream \/ Timers \/ User \/ Faults \/ UNCHANGED vars
  BY DEF Next
<1> QED
  BY <1>1, <1>2, <1>3, <1>4, <1>5, <1>6, <1>7, <1>8, <1>9, Zenon

(* What is shown of a conversation is never emptied while the flow is      *)
(* shown, although a stream may start before the first prompt is stored    *)
(* and bring an empty list (mergeFlowChatMessagesFromRealtime): of the     *)
(* messages on their way only the first may be empty, and then the user    *)
(* had the last word.                                                      *)
THEOREM PromptsStay == Spec => PromptStays
<1>1. PageInv /\ ChatInv /\ [Next]_vars => ChatInv'
  BY ChatStep
<1>2. PageInv /\ ChatInv /\ [Next]_vars =>
        [page'.flow = page.flow /\ page.chat # << >> => page'.chat # << >>]_vars
  BY ChatStep
<1> QED
  BY <1>1, <1>2, PageInit, PageStep, ChatInit, PTL DEF Spec, PromptStays

-----------------------------------------------------------------------------
(* What the helpers leave of a page.                                       *)

Flags(q, p) ==
  /\ q.status = p.status /\ q.planning = p.planning /\ q.stopping = p.stopping
  /\ q.blocked = p.blocked /\ q.finish = p.finish

Queue(q, p) == q.canvas = p.canvas /\ q.ops = p.ops /\ q.snaps = p.snaps /\ q.flush = p.flush

LEMMA BlockedFields ==
  ASSUME NEW p \in Page
  PROVE  /\ Queue(Blocks(p), p) /\ Queue(Unblocks(p), p)
         /\ Queue(BlocksForAWhile(p), p) /\ Queue(Waits(p), p)
         /\ \A q \in {Blocks(p), Unblocks(p), BlocksForAWhile(p), Waits(p)} :
              q.rev = p.rev /\ q.pending = p.pending /\ q.stopping = p.stopping /\ q.key = p.key
         /\ \A q \in {Blocks(p), Unblocks(p), BlocksForAWhile(p)} :
              q.status = p.status /\ q.planning = p.planning
         /\ Blocks(p).blocked /\ ~Blocks(p).finish
         /\ ~Unblocks(p).blocked /\ ~Unblocks(p).finish
         /\ BlocksForAWhile(p).blocked /\ BlocksForAWhile(p).finish
         /\ Waits(p).status = "planning" /\ Waits(p).planning
  BY DEF Page, Queue, Blocks, Unblocks, BlocksForAWhile, Waits

LEMMA SnapshotFields ==
  ASSUME NEW p \in Page, NEW s
  PROVE  LET q == ApplyPendingSnapshot(p, s) IN
         /\ q.ops = p.ops /\ q.flush = p.flush /\ q.rev = p.rev /\ q.pending = p.pending /\ q.key = p.key
         /\ q.snaps = SnapsBut(p, s) /\ Flags(q, p)
         /\ \/ (\A w \in p.snaps : w[1] # s) /\ q.canvas = p.canvas
            \/ \E w \in p.snaps : w[1] = s /\ q.canvas = w[2]
<1>1. CASE \E w \in p.snaps : w[1] = s
  <2> DEFINE w == CHOOSE w \in p.snaps : w[1] = s
             q == [p EXCEPT !.canvas = w[2], !.snaps = SnapsBut(p, s)]
  <2>1. ApplyPendingSnapshot(p, s) = q
    BY <1>1 DEF ApplyPendingSnapshot
  <2>2. w \in p.snaps /\ w[1] = s
    BY <1>1
  <2> HIDE DEF w
  <2>3. /\ q.ops = p.ops /\ q.flush = p.flush /\ q.rev = p.rev /\ q.pending = p.pending /\ q.key = p.key
        /\ q.snaps = SnapsBut(p, s) /\ q.canvas = w[2] /\ Flags(q, p)
    BY DEF Page, Flags
  <2> HIDE DEF q
  <2> QED
    BY <2>1, <2>2, <2>3
<1>2. CASE ~\E w \in p.snaps : w[1] = s
  <2>1. SnapsBut(p, s) = p.snaps
    BY <1>2 DEF SnapsBut
  <2> QED
    BY <1>2, <2>1 DEF ApplyPendingSnapshot, Flags
<1> QED
  BY <1>1, <1>2

LEMMA ClearFields ==
  ASSUME NEW p \in Page, NEW s
  PROVE  LET q == ClearQueue(p, s) IN
         /\ q.ops = OpsBut(p, s) /\ q.snaps = SnapsBut(p, s)
         /\ q.flush = IF p.flush \in {s, None} THEN NextFlush(OpsBut(p, s), SnapsBut(p, s)) ELSE p.flush
         /\ q.canvas = p.canvas /\ q.rev = p.rev /\ q.pending = p.pending /\ q.key = p.key /\ Flags(q, p)
<1> DEFINE ops == OpsBut(p, s)
           snaps == SnapsBut(p, s)
           flush == IF p.flush \in {s, None} THEN NextFlush(OpsBut(p, s), SnapsBut(p, s)) ELSE p.flush
           q == [p EXCEPT !.ops = ops, !.snaps = snaps, !.flush = flush]
<1>1. ClearQueue(p, s) = q
  BY DEF ClearQueue, Page
<1> HIDE DEF ops, snaps, flush
<1>2. /\ q.ops = ops /\ q.snaps = snaps /\ q.flush = flush
      /\ q.canvas = p.canvas /\ q.rev = p.rev /\ q.pending = p.pending /\ q.key = p.key /\ Flags(q, p)
  BY DEF Page, Flags
<1> HIDE DEF q
<1> QED
  BY <1>1, <1>2 DEF ops, snaps, flush

LEMMA ClearAllFields ==
  ASSUME NEW p \in Page
  PROVE  LET q == ClearAllQueues(p) IN
         /\ q.ops = << >> /\ q.snaps = {} /\ q.flush = None
         /\ q.canvas = p.canvas /\ q.rev = p.rev /\ q.pending = p.pending /\ q.key = p.key /\ Flags(q, p)
  BY DEF Page, Flags, ClearAllQueues

LEMMA SessionFields ==
  ASSUME NEW p, NEW o, PageOf(p, o), NEW s
  PROVE  LET t == ApplyPendingSnapshot(p, s)
             q == ClearSessionRuntime(p, s) IN
         /\ q.canvas = t.canvas /\ Queue(q, ClearQueue(t, s)) /\ ClearQueue(t, s) \in Page /\ t \in Page
         /\ q.rev = p.rev /\ q.pending = 0 /\ q.key = p.key /\ Flags(q, p)
<1> DEFINE t == ApplyPendingSnapshot(p, s)
           clear == ClearQueue(t, s)
           q == [clear EXCEPT !.pending = 0]
<1>1. p \in Page /\ PageOf(t, o) /\ t \in Page
  BY SnapshotApplies DEF PageOf
<1>2. t.rev = p.rev /\ t.key = p.key /\ Flags(t, p)
  BY <1>1, SnapshotFields
<1> HIDE DEF t
<1>3. clear \in Page
  BY <1>1, QueueClears DEF PageOf
<1>4. clear.rev = t.rev /\ clear.key = t.key /\ Flags(clear, t) /\ clear.canvas = t.canvas
  BY <1>1, ClearFields
<1> HIDE DEF clear
<1>5. q.rev = clear.rev /\ q.pending = 0 /\ q.key = clear.key /\ Flags(q, clear) /\ Queue(q, clear)
  BY <1>3 DEF Page, Flags, Queue
<1>6. ClearSessionRuntime(p, s) = q
  BY DEF ClearSessionRuntime, clear, t
<1> HIDE DEF q
<1>7. q.rev = p.rev /\ q.pending = 0 /\ q.key = p.key /\ Flags(q, p) /\ q.canvas = t.canvas
  BY <1>2, <1>4, <1>5 DEF Flags, Queue
<1> QED
  BY <1>1, <1>3, <1>5, <1>6, <1>7 DEF clear, t

LEMMA EnqueueFields ==
  ASSUME NEW p \in Page, NEW ops
  PROVE  LET q == Enqueue(p, ops) IN
         /\ q.ops = p.ops \o ops /\ q.flush = (IF p.flush = None THEN p.key ELSE p.flush)
         /\ q.snaps = p.snaps /\ q.canvas = p.canvas
         /\ q.rev = p.rev /\ q.pending = p.pending /\ q.key = p.key /\ Flags(q, p)
  BY DEF Page, Flags, Enqueue

LEMMA ShownFields ==
  ASSUME NEW p \in Page, NEW s, NEW nodes
  PROVE  LET q == ApplyOrQueueSnapshot(p, s, nodes) IN
         /\ q.ops = p.ops /\ q.flush = p.flush
         /\ Busy(p) => q.snaps = SnapsBut(p, s) \cup {<<s, nodes>>} /\ q.canvas = p.canvas
         /\ ~Busy(p) => q.snaps = p.snaps /\ q.canvas = nodes
         /\ q.rev = p.rev /\ q.pending = p.pending /\ q.key = p.key /\ Flags(q, p)
  BY DEF Page, Flags, ApplyOrQueueSnapshot

(* The step timer plays one operation of the session, the last one with    *)
(* the snapshot that waits for it.                                         *)
LEMMA PlayedFields ==
  ASSUME NEW p \in Page, NEW i
  PROVE  LET q == Played(p, i) IN
         /\ q.snaps = p.snaps /\ q.flush = p.flush
         /\ q.rev = p.rev /\ q.pending = p.pending /\ q.key = p.key /\ Flags(q, p)
         /\ i = 0 => q.canvas = p.canvas /\ q.ops = p.ops
         /\ i # 0 => /\ q.ops = RemoveAt(p.ops, i)
                     /\ q.canvas = (IF p.ops[i].put THEN p.canvas \cup {p.ops[i].node}
                                    ELSE p.canvas \ {p.ops[i].node})
<1>1. CASE i = 0
  BY <1>1 DEF Played, Flags
<1>2. CASE i # 0
  <2> DEFINE canvas == IF p.ops[i].put THEN p.canvas \cup {p.ops[i].node} ELSE p.canvas \ {p.ops[i].node}
             ops == RemoveAt(p.ops, i)
  <2>1. Played(p, i) = [p EXCEPT !.canvas = canvas, !.ops = ops]
    BY <1>2 DEF Played, Page
  <2> HIDE DEF canvas, ops
  <2>2. LET q == [p EXCEPT !.canvas = canvas, !.ops = ops] IN
        /\ q.snaps = p.snaps /\ q.flush = p.flush /\ q.canvas = canvas /\ q.ops = ops
        /\ q.rev = p.rev /\ q.pending = p.pending /\ q.key = p.key /\ Flags(q, p)
    BY DEF Page, Flags
  <2> QED
    BY <1>2, <2>1, <2>2 DEF canvas, ops
<1> QED
  BY <1>1, <1>2

LEMMA PlayFields ==
  ASSUME NEW p, NEW o, PageOf(p, o), p.flush # None
  PROVE  /\ Play(p).rev = p.rev /\ Play(p).pending = p.pending /\ Play(p).key = p.key /\ Flags(Play(p), p)
         /\ LET played == Played(p, NextOf(p, p.flush)) IN
            /\ played \in Page
            /\ NextOf(played, p.flush) # 0 => Play(p) = played
            /\ NextOf(played, p.flush) = 0 =>
                 LET through == ApplyPendingSnapshot(played, p.flush) IN
                 /\ Play(p).canvas = through.canvas /\ Play(p).ops = through.ops
                 /\ Play(p).snaps = through.snaps
                 /\ Play(p).flush = NextFlush(through.ops, through.snaps)
<1> DEFINE s == p.flush
           played == Played(p, NextOf(p, s))
           through == ApplyPendingSnapshot(played, s)
           next == NextFlush(through.ops, through.snaps)
           q == [through EXCEPT !.flush = next]
<1>1. p \in Page
  BY DEF PageOf
<1>2. played \in Page
  <2>1. p.ops \in Seq(Operation)
    BY <1>1 DEF Page
  <2>2. CASE NextOf(p, s) = 0
    BY <1>1, <2>2 DEF Played
  <2>3. CASE NextOf(p, s) # 0
    <3> DEFINE i == NextOf(p, s)
               canvas == IF p.ops[i].put THEN p.canvas \cup {p.ops[i].node} ELSE p.canvas \ {p.ops[i].node}
               ops == RemoveAt(p.ops, i)
    <3>1. i \in 1 .. Len(p.ops) /\ p.ops[i] \in Operation
      BY <2>1, <2>3, NextOfType
    <3>2. ops \in Seq(Operation) /\ canvas \in SUBSET Node
      BY <1>1, <2>1, <3>1, RemoveAtType DEF Operation, Page
    <3>3. played = [p EXCEPT !.canvas = canvas, !.ops = ops]
      BY <1>1, <2>3 DEF Played, Page
    <3> HIDE DEF canvas, ops, played
    <3> QED
      BY <1>1, <3>2, <3>3 DEF Page
  <2> QED
    BY <2>2, <2>3
<1>3. played.rev = p.rev /\ played.pending = p.pending /\ played.key = p.key /\ Flags(played, p)
  BY <1>1, PlayedFields
<1>4. Play(p) = IF NextOf(played, s) # 0 THEN played ELSE q
  BY DEF Play
<1>5. through \in Page
  <2>1. CASE \E w \in played.snaps : w[1] = s
    <3> DEFINE w == CHOOSE w \in played.snaps : w[1] = s
    <3>1. w \in played.snaps
      BY <2>1
    <3>2. through = [played EXCEPT !.canvas = w[2], !.snaps = SnapsBut(played, s)]
      BY <2>1 DEF ApplyPendingSnapshot
    <3> HIDE DEF w, played, through
    <3> QED
      BY <1>2, <3>1, <3>2 DEF Page, SnapsBut
  <2>2. CASE ~\E w \in played.snaps : w[1] = s
    BY <1>2, <2>2 DEF ApplyPendingSnapshot
  <2> QED
    BY <2>1, <2>2
<1>6. /\ through.rev = played.rev /\ through.pending = played.pending /\ through.key = played.key
      /\ Flags(through, played)
  BY <1>2, SnapshotFields
<1> HIDE DEF played, through, next
<1>7. /\ q.rev = through.rev /\ q.pending = through.pending /\ q.key = through.key /\ Flags(q, through)
      /\ q.canvas = through.canvas /\ q.ops = through.ops /\ q.snaps = through.snaps /\ q.flush = next
  BY <1>5 DEF Page, Flags
<1> HIDE DEF q
<1>8. /\ Play(p).rev = p.rev /\ Play(p).pending = p.pending /\ Play(p).key = p.key /\ Flags(Play(p), p)
  BY <1>3, <1>4, <1>6, <1>7 DEF Flags
<1> QED
  BY <1>2, <1>4, <1>7, <1>8 DEF played, through, next

(* What an event does to the flags.                                        *)

LEMMA ResyncFields ==
  ASSUME NEW p, NEW o, PageOf(p, o), p.key \in Session
  PROVE  LET clear == ClearSessionRuntime(p, p.key) IN
         /\ Queue(Resync(p), clear)
         /\ Resync(p).rev = p.rev /\ Resync(p).pending = 0 /\ Resync(p).key = p.key /\ Flags(Resync(p), p)
<1> DEFINE clear == ClearSessionRuntime(p, p.key)
           q == [clear EXCEPT !.resync = @ \cup {p.key}]
<1>1. clear \in Page
  BY SessionClears DEF PageOf
<1>2. clear.rev = p.rev /\ clear.pending = 0 /\ clear.key = p.key /\ Flags(clear, p)
  BY SessionFields
<1>3. Resync(p) = q
  BY DEF Resync
<1> HIDE DEF clear
<1>4. q.rev = clear.rev /\ q.pending = clear.pending /\ q.key = clear.key /\ Flags(q, clear) /\ Queue(q, clear)
  BY <1>1 DEF Page, Flags, Queue
<1> HIDE DEF q
<1>5. q.rev = p.rev /\ q.pending = 0 /\ q.key = p.key /\ Flags(q, p)
  BY <1>2, <1>4 DEF Flags
<1> QED
  BY <1>3, <1>4, <1>5 DEF clear

(* A session event is old, or it is waited on, or it ends what is shown.   *)
LEMMA SessionEventFields ==
  ASSUME NEW p, NEW o, PageOf(p, o), p.key \in Session, NEW m, EventOf(m, p.flow, o)
  PROVE  LET q == OnSession(p, m) IN
         /\ q.rev = p.rev /\ q.key = p.key
         /\ \/ q = p /\ (Old(p, m) \/ (m.of.status = "planning" /\ m.of.rev = p.rev /\ Terminal(p)))
            \/ /\ m.of.status = "planning" /\ q.status = "planning" /\ q.planning /\ ~q.stopping
               /\ q.pending = p.pending /\ Queue(q, p)
            \/ /\ ~Old(p, m) /\ m.of.status \in Ended /\ q.status = m.of.status /\ ~q.planning /\ ~q.stopping
               /\ ~q.blocked /\ q.pending = 0
               /\ \E r : /\ PageOf(r, o) /\ Queue(r, p) /\ r.key = p.key
                         /\ q = ClearSessionRuntime(r, p.key)
<1>1. p \in Page /\ m.of.status \in {"planning"} \cup Ended
  BY DEF PageOf, EventOf, Event, ServerSession, ServerStatus
<1> DEFINE w == Waits(p)
           a == [w EXCEPT !.stopping = FALSE]
           u == Unblocks(p)
           r == [u EXCEPT !.status = m.of.status, !.planning = FALSE, !.stopping = FALSE]
<1>2. PageOf(w, o) /\ PageOf(u, o) /\ w \in Page /\ u \in Page
  BY Blocked DEF PageOf
<1>3. /\ w.rev = p.rev /\ w.pending = p.pending /\ w.key = p.key /\ Queue(w, p)
      /\ w.status = "planning" /\ w.planning
  BY <1>1, BlockedFields
<1>4. u.rev = p.rev /\ u.key = p.key /\ Queue(u, p) /\ ~u.blocked /\ u.flow = p.flow
  BY <1>1, BlockedFields, Blocked DEF Same
<1>5. OnSession(p, m) = CASE Old(p, m) -> p
        [] ~Old(p, m) /\ m.of.status = "planning" -> IF m.of.rev = p.rev /\ Terminal(p) THEN p ELSE a
        [] OTHER -> ClearSessionRuntime(r, p.key)
  BY DEF OnSession
<1> HIDE DEF w, u
<1>6. /\ a.rev = w.rev /\ a.key = w.key /\ a.pending = w.pending /\ Queue(a, w)
      /\ a.status = w.status /\ a.planning = w.planning /\ ~a.stopping
  BY <1>2 DEF Page, Queue
<1>7. r \in Page
  BY <1>1, <1>2 DEF Page, PageStatus
<1>8. /\ r.rev = u.rev /\ r.key = u.key /\ Queue(r, u) /\ r.flow = u.flow
      /\ r.status = m.of.status /\ ~r.planning /\ ~r.stopping /\ r.blocked = u.blocked
  BY <1>2 DEF Page, Queue
<1> HIDE DEF a, r
<1>9. PageOf(r, o)
  BY <1>2, <1>7, <1>8, FlagsKeep DEF Queue
<1>10. LET q == ClearSessionRuntime(r, p.key) IN
       /\ q.rev = r.rev /\ q.key = r.key /\ q.pending = 0 /\ Flags(q, r)
  BY <1>9, SessionFields
<1>11. CASE OnSession(p, m) = p /\ (Old(p, m) \/ (m.of.status = "planning" /\ m.of.rev = p.rev /\ Terminal(p)))
  BY <1>11
<1>12. CASE OnSession(p, m) = a /\ m.of.status = "planning"
  BY <1>3, <1>6, <1>12 DEF Queue
<1>13. CASE OnSession(p, m) = ClearSessionRuntime(r, p.key) /\ ~Old(p, m) /\ m.of.status \in Ended
  <2>1. Queue(r, p) /\ r.key = p.key
    BY <1>4, <1>8 DEF Queue
  <2> QED
    BY <1>4, <1>8, <1>9, <1>10, <1>13, <2>1 DEF Flags
<1>14. \/ OnSession(p, m) = p /\ (Old(p, m) \/ (m.of.status = "planning" /\ m.of.rev = p.rev /\ Terminal(p)))
       \/ OnSession(p, m) = a /\ m.of.status = "planning"
       \/ OnSession(p, m) = ClearSessionRuntime(r, p.key) /\ ~Old(p, m) /\ m.of.status \in Ended
  BY <1>1, <1>5
<1> QED
  BY <1>11, <1>12, <1>13, <1>14

LEMMA MessageFields ==
  ASSUME NEW p \in Page, NEW m
  PROVE  LET q == OnMessages(p, m) IN
         /\ q.rev = p.rev /\ q.key = p.key /\ q.pending = p.pending /\ Queue(q, p)
         /\ q.status = p.status /\ q.planning = p.planning /\ q.stopping = p.stopping
         /\ Terminal(p) => ~q.blocked \/ q.finish
<1> DEFINE shown == CASE p.status = "stopped" -> Unblocks(p)
                      [] p.status \in Ended \ {"stopped"} -> BlocksForAWhile(p)
                      [] OTHER -> Blocks(p)
           q == [shown EXCEPT !.chat = Merged(p.chat, m.of.lines)]
<1>1. shown \in Page /\ shown \in {Blocks(p), Unblocks(p), BlocksForAWhile(p)}
  <2>1. Blocks(p) \in Page /\ Unblocks(p) \in Page /\ BlocksForAWhile(p) \in Page
    BY DEF Page, Blocks, Unblocks, BlocksForAWhile
  <2> QED
    BY <2>1
<1>2. Terminal(p) => ~shown.blocked \/ shown.finish
  <2>1. CASE p.status = "stopped"
    BY <2>1, BlockedFields
  <2>2. CASE p.status \in Ended \ {"stopped"}
    BY <2>2, BlockedFields
  <2> QED
    BY <2>1, <2>2 DEF Terminal
<1>3. /\ shown.rev = p.rev /\ shown.key = p.key /\ shown.pending = p.pending /\ Queue(shown, p)
      /\ shown.status = p.status /\ shown.planning = p.planning /\ shown.stopping = p.stopping
  <2> HIDE DEF shown
  <2> QED
    BY <1>1, BlockedFields
<1>4. OnMessages(p, m) = q
  BY DEF OnMessages
<1> HIDE DEF shown
<1>5. /\ q.rev = shown.rev /\ q.key = shown.key /\ q.pending = shown.pending /\ Queue(q, shown)
      /\ q.status = shown.status /\ q.planning = shown.planning /\ q.stopping = shown.stopping
      /\ q.blocked = shown.blocked /\ q.finish = shown.finish
  BY <1>1 DEF Page, Queue
<1> HIDE DEF q
<1> QED
  BY <1>2, <1>3, <1>4, <1>5 DEF Queue

(* Nodes that are shown bring their revision.                              *)
LEMMA NodeFields ==
  ASSUME NEW p, NEW o, PageOf(p, o), p.key \in Session, NEW m, EventOf(m, p.flow, o)
  PROVE  LET q == OnNodes(p, m) IN
         /\ q.key = p.key
         /\ \/ q = p /\ (Old(p, m) \/ (m.kind = "patch" /\ m.of.rev = p.rev))
            \/ /\ ~Old(p, m) /\ q.rev = m.of.rev /\ q.pending = p.pending /\ q.stopping = p.stopping
               /\ Terminal(p) => q.status = p.status /\ q.planning = p.planning /\ q.finish
               /\ ~Terminal(p) => q.status = "planning" /\ q.planning
               /\ \E k \in Page : /\ Queue(k, p) /\ k.key = p.key
                                  /\ m.kind = "patch" => m.of.rev # p.rev /\ Queue(q, Enqueue(k, m.ops))
                                  /\ m.kind # "patch" => Queue(q, ApplyOrQueueSnapshot(k, p.key, m.of.nodes))
<1>1. p \in Page /\ m.of.rev \in Int
  BY DEF PageOf, EventOf, Event, ServerSession
<1> DEFINE shown == IF Terminal(p) THEN BlocksForAWhile(p) ELSE Waits(p)
           k == [shown EXCEPT !.rev = m.of.rev]
           put == Enqueue(k, m.ops)
           set == ApplyOrQueueSnapshot(k, p.key, m.of.nodes)
           free == [set EXCEPT !.resync = @ \ {p.key}]
<1>2. shown \in Page
  BY Blocked DEF PageOf
<1>3. /\ shown.key = p.key /\ shown.pending = p.pending /\ shown.stopping = p.stopping /\ Queue(shown, p)
      /\ Terminal(p) => shown.status = p.status /\ shown.planning = p.planning /\ shown.finish
      /\ ~Terminal(p) => shown.status = "planning" /\ shown.planning
  BY <1>1, BlockedFields
<1>4. OnNodes(p, m) = CASE Old(p, m) \/ (m.kind = "patch" /\ m.of.rev = p.rev) -> p
        [] ~Old(p, m) /\ m.kind = "patch" /\ m.of.rev # p.rev -> put
        [] OTHER -> free
  BY DEF OnNodes
<1> HIDE DEF shown
<1>5. k \in Page
  BY <1>1, <1>2 DEF Page
<1>6. /\ k.key = shown.key /\ k.pending = shown.pending /\ Queue(k, shown) /\ k.rev = m.of.rev
      /\ Flags(k, shown)
  BY <1>2 DEF Page, Queue, Flags
<1> HIDE DEF k
<1>7. Queue(k, p)
  BY <1>3, <1>6 DEF Queue
<1> DEFINE Shown(q) == /\ q.key = k.key /\ q.rev = k.rev /\ q.pending = k.pending /\ Flags(q, k)
<1>8. Shown(put)
  BY <1>5, EnqueueFields
<1>9. Shown(free) /\ Queue(free, set)
  <2>1. Shown(set)
    BY <1>5, ShownFields
  <2>2. set \in Page
    <3>1. set \in {[k EXCEPT !.canvas = m.of.nodes], [k EXCEPT !.snaps = SnapsBut(k, p.key) \cup {<<p.key, m.of.nodes>>}]}
      BY DEF ApplyOrQueueSnapshot
    <3>2. m.of.nodes \in SUBSET Node
      BY DEF EventOf, Event, ServerSession
    <3>3. [k EXCEPT !.canvas = m.of.nodes] \in Page
      BY <1>5, <3>2 DEF Page
    <3> DEFINE snaps == SnapsBut(k, p.key) \cup {<<p.key, m.of.nodes>>}
    <3>4. snaps \in SUBSET (Session \X SUBSET Node)
      BY <1>5, <3>2 DEF Page, SnapsBut
    <3> HIDE DEF snaps
    <3>5. [k EXCEPT !.snaps = snaps] \in Page
      BY <1>5, <3>4 DEF Page
    <3> HIDE DEF set
    <3> QED
      BY <3>1, <3>3, <3>5 DEF snaps
  <2> HIDE DEF set
  <2>3. /\ free.key = set.key /\ free.rev = set.rev /\ free.pending = set.pending /\ Flags(free, set)
        /\ Queue(free, set)
    BY <2>2 DEF Page, Flags, Queue
  <2> HIDE DEF free
  <2> QED
    BY <2>1, <2>3 DEF Flags
<1>10. \/ OnNodes(p, m) = p /\ (Old(p, m) \/ (m.kind = "patch" /\ m.of.rev = p.rev))
       \/ OnNodes(p, m) = put /\ ~Old(p, m) /\ m.kind = "patch" /\ m.of.rev # p.rev
       \/ OnNodes(p, m) = free /\ ~Old(p, m) /\ m.kind # "patch"
  <2> HIDE DEF put, free
  <2> QED
    BY <1>4
<1>11. ASSUME NEW q, Shown(q), ~Old(p, m)
       PROVE /\ q.key = p.key /\ q.rev = m.of.rev /\ q.pending = p.pending /\ q.stopping = p.stopping
             /\ Terminal(p) => q.status = p.status /\ q.planning = p.planning /\ q.finish
             /\ ~Terminal(p) => q.status = "planning" /\ q.planning
  BY <1>3, <1>6, <1>11 DEF Flags
<1>12. CASE OnNodes(p, m) = put /\ ~Old(p, m) /\ m.kind = "patch" /\ m.of.rev # p.rev
  <2>1. Queue(put, Enqueue(k, m.ops))
    BY DEF Queue
  <2> HIDE DEF put, Shown
  <2> QED
    BY <1>3, <1>5, <1>6, <1>7, <1>8, <1>11, <1>12, <2>1
<1>13. CASE OnNodes(p, m) = free /\ ~Old(p, m) /\ m.kind # "patch"
  <2>1. Queue(free, ApplyOrQueueSnapshot(k, p.key, m.of.nodes))
    BY <1>9
  <2> HIDE DEF free, Shown
  <2> QED
    BY <1>3, <1>5, <1>6, <1>7, <1>9, <1>11, <1>13, <2>1
<1> QED
  BY <1>10, <1>12, <1>13

-----------------------------------------------------------------------------
(* What the server does to a session and tells the stream.                 *)

Speaks(s, now) ==
  /\ now \in ServerSession /\ now.rev = server[s].rev /\ now.nodes = server[s].nodes
  /\ Len(now.lines) = Len(server[s].lines) + 1
  /\ server[s].status # "none" /\ now.status # "none"
  /\ now.status = server[s].status \/ (server[s].status = "planning" /\ now.status \in Ended)
  /\ server' = [server EXCEPT ![s] = now] /\ Publish(s, Says(now, s))

PatchEvents(now, op) ==
  <<Published("patch", now, <<op>>), Published("snapshot", now, << >>), Published("session", now, << >>)>>

Patches(s, now, op) ==
  /\ server[s].status = "planning" /\ now.status = "planning"
  /\ now \in ServerSession /\ now.lines = server[s].lines
  /\ now.rev = server[s].rev + 1 /\ now.rev \in 1 .. MaxTurn
  /\ op \in Operation /\ op.key = s
  /\ \/ op.node = <<s, now.rev>> /\ now.nodes = server[s].nodes \cup {op.node}
     \/ op.node \in server[s].nodes /\ now.nodes = server[s].nodes \ {op.node}
  /\ server' = [server EXCEPT ![s] = now] /\ Publish(s, PatchEvents(now, op))

LEMMA ServerSpeaks ==
  ASSUME PageInv, NEW s \in Session, server[s].status # "none", NEW author \in Author,
         NEW status \in ServerStatus, NEW now,
         now = [server[s] EXCEPT !.status = status, !.lines = Append(@, author)],
         status = server[s].status \/ (server[s].status = "planning" /\ status \in Ended),
         server' = [server EXCEPT ![s] = now], Publish(s, Says(now, s))
  PROVE  Speaks(s, now)
<1>1. server[s] \in ServerSession
  BY DEF PageInv
<1> DEFINE lines == Append(server[s].lines, author)
<1>2. server[s].lines \in Seq(Author)
  BY <1>1 DEF ServerSession
<1>3. lines \in Seq(Author) /\ Len(lines) = Len(server[s].lines) + 1
  BY <1>2
<1>4. now = [server[s] EXCEPT !.status = status, !.lines = lines]
  BY <1>1 DEF ServerSession
<1> HIDE DEF lines
<1>5. /\ now \in ServerSession /\ now.rev = server[s].rev /\ now.nodes = server[s].nodes
      /\ now.status = status /\ now.lines = lines
  BY <1>1, <1>3, <1>4 DEF ServerSession
<1> QED
  BY <1>3, <1>5 DEF Speaks, Ended

LEMMA ServerEnds ==
  ASSUME PageInv, NEW s \in Session, server[s].status = "planning",
         NEW status \in Ended, EndAs(s, status)
  PROVE  \E now : Speaks(s, now) /\ now.status \in Ended
<1> DEFINE now == [server[s] EXCEPT !.status = status, !.lines = Append(@, "a")]
<1>1. server' = [server EXCEPT ![s] = now] /\ Publish(s, Says(now, s))
  BY DEF EndAs
<1>2. status \in ServerStatus /\ "a" \in Author /\ server[s] \in ServerSession
  BY DEF ServerStatus, Author, PageInv
<1>3. now.status = status
  BY <1>2 DEF ServerSession
<1> HIDE DEF now
<1>4. now = [server[s] EXCEPT !.status = status, !.lines = Append(@, "a")]
  BY DEF now
<1>5. Speaks(s, now)
  BY <1>1, <1>2, <1>4, ServerSpeaks
<1> QED
  BY <1>3, <1>5

LEMMA ServerPatches ==
  ASSUME PageInv, NEW s \in Session, PlannerPatches(s)
  PROVE  \E now, op : Patches(s, now, op)
<1>1. server[s] \in ServerSession /\ server[s].status = "planning" /\ SessionOf(s, server[s], owner)
  BY DEF PageInv, PlannerPatches, Works
<1>2. server[s].rev + 1 \in 1 .. MaxTurn
  BY RevisionLeft DEF PlannerPatches
<1>3. PICK put \in BOOLEAN : \E n \in IF put THEN {<<s, server[s].rev + 1>>} ELSE server[s].nodes :
        LET now == [server[s] EXCEPT !.rev = @ + 1,
                                     !.nodes = IF put THEN @ \cup {n} ELSE @ \ {n}]
            op == [key |-> s, put |-> put, node |-> n]
        IN /\ server' = [server EXCEPT ![s] = now]
           /\ Publish(s, <<Published("patch", now, <<op>>), Published("snapshot", now, << >>),
                           Published("session", now, << >>)>>)
  BY DEF PlannerPatches
<1>4. PICK n \in IF put THEN {<<s, server[s].rev + 1>>} ELSE server[s].nodes :
        LET now == [server[s] EXCEPT !.rev = @ + 1,
                                     !.nodes = IF put THEN @ \cup {n} ELSE @ \ {n}]
            op == [key |-> s, put |-> put, node |-> n]
        IN /\ server' = [server EXCEPT ![s] = now]
           /\ Publish(s, <<Published("patch", now, <<op>>), Published("snapshot", now, << >>),
                           Published("session", now, << >>)>>)
  BY <1>3
<1> DEFINE nodes == IF put THEN server[s].nodes \cup {n} ELSE server[s].nodes \ {n}
           now == [server[s] EXCEPT !.rev = server[s].rev + 1, !.nodes = nodes]
           op == [key |-> s, put |-> put, node |-> n]
<1>5. server' = [server EXCEPT ![s] = now] /\ Publish(s, PatchEvents(now, op))
  BY <1>1, <1>4 DEF ServerSession, PatchEvents
<1>6. n \in Node
  BY <1>1, <1>2, <1>4 DEF Node, ServerSession
<1>7. nodes \in SUBSET Node
  BY <1>1, <1>6 DEF ServerSession
<1>8. op \in Operation /\ op.key = s /\ op.node = n
  BY <1>6 DEF Operation
<1>9. \/ n = <<s, server[s].rev + 1>> /\ nodes = server[s].nodes \cup {n}
      \/ n \in server[s].nodes /\ nodes = server[s].nodes \ {n}
  BY <1>4
<1> HIDE DEF nodes, op
<1>10. /\ now \in ServerSession /\ now.lines = server[s].lines /\ now.status = "planning"
       /\ now.rev = server[s].rev + 1 /\ now.nodes = nodes
  <2>1. server[s].rev + 1 \in Nat
    BY <1>2
  <2> QED
    BY <1>1, <1>7, <2>1 DEF ServerSession
<1> HIDE DEF now
<1>11. Patches(s, now, op)
  BY <1>1, <1>2, <1>5, <1>8, <1>9, <1>10 DEF Patches
<1> QED
  BY <1>11

(* A step of the planner or of a route speaks, patches, or tells nothing.  *)
LEMMA ServerActs ==
  ASSUME PageInv, Planner \/ Serve
  PROVE  /\ UNCHANGED <<page, kept, owner, dropped, prompts>>
         /\ \/ \E s \in Session : \E now : Speaks(s, now)
            \/ \E s \in Session : (\E now, op : Patches(s, now, op)) /\ calls' = calls
            \/ \E c \in calls : Ensure(c)
            \/ UNCHANGED <<server, link>>
<1>1. ASSUME NEW c \in calls PROVE c.key \in Session
  BY DEF PageInv, CallOf, Call
<1>2. "completed" \in Ended /\ "failed" \in Ended /\ "stopped" \in Ended
  BY DEF Ended
<1>3. CASE Planner
  <2>1. PICK s \in Session : PlannerPatches(s) \/ PlannerSays(s) \/ PlannerEnds(s)
    BY <1>3 DEF Planner
  <2>2. CASE PlannerPatches(s)
    BY <2>2, ServerPatches DEF PlannerPatches
  <2>3. CASE PlannerSays(s)
    <3> DEFINE now == [server[s] EXCEPT !.lines = Append(@, "a")]
    <3>1. server[s].status = "planning" /\ server[s] \in ServerSession
      BY <2>3 DEF PlannerSays, Works, PageInv
    <3>2. now = [server[s] EXCEPT !.status = "planning", !.lines = Append(@, "a")]
      BY <3>1 DEF ServerSession
    <3>3. /\ server' = [server EXCEPT ![s] = now] /\ Publish(s, Says(now, s))
          /\ UNCHANGED <<page, kept, owner, dropped, prompts>>
      BY <2>3 DEF PlannerSays
    <3>4. "a" \in Author /\ "planning" \in ServerStatus
      BY DEF Author, ServerStatus
    <3> HIDE DEF now
    <3>5. Speaks(s, now)
      BY <3>1, <3>2, <3>3, <3>4, ServerSpeaks
    <3> QED
      BY <3>3, <3>5
  <2>4. CASE PlannerEnds(s)
    BY <1>2, <2>4, ServerEnds DEF PlannerEnds, Works
  <2> QED
    BY <2>1, <2>2, <2>3, <2>4
<1>4. CASE Serve
  <2>1. PICK c \in calls : Ensure(c) \/ Instruct(c) \/ Dispatch(c) \/ ServeStop(c)
    BY <1>4 DEF Serve
  <2>2. UNCHANGED <<page, kept, owner, dropped, prompts>>
    BY <2>1 DEF Ensure, Instruct, Dispatch, ServeStop
  <2>3. CASE Instruct(c)
    <3> DEFINE now == [server[c.key] EXCEPT !.lines = Append(@, "u")]
               status == server[c.key].status
    <3>1. c.key \in Session /\ status # "none" /\ server[c.key] \in ServerSession
      BY <1>1, <2>3 DEF Instruct, PageInv, CallOf
    <3>2. now = [server[c.key] EXCEPT !.status = status, !.lines = Append(@, "u")]
      BY <3>1 DEF ServerSession
    <3>3. server' = [server EXCEPT ![c.key] = now] /\ Publish(c.key, Says(now, c.key))
      BY <2>3 DEF Instruct
    <3>4. "u" \in Author /\ status \in ServerStatus
      BY <3>1 DEF Author, ServerSession
    <3> HIDE DEF now, status
    <3>5. Speaks(c.key, now)
      BY <3>1, <3>2, <3>3, <3>4, ServerSpeaks DEF status
    <3> QED
      BY <2>2, <3>1, <3>5
  <2>4. CASE Dispatch(c) \/ ServeStop(c)
    BY <1>1, <1>2, <2>2, <2>4, ServerEnds DEF Dispatch, ServeStop
  <2> QED
    BY <2>1, <2>2, <2>3, <2>4
<1> QED
  BY <1>3, <1>4

LEMMA SpeechEvents ==
  ASSUME NEW now \in ServerSession, NEW s
  PROVE  /\ Says(now, s) \in Seq(Event) /\ Len(Says(now, s)) = 2
         /\ Says(now, s)[1] = Published("messages", now, << >>)
         /\ Says(now, s)[2] = Published("session", now, << >>)
<1> DEFINE a == Published("messages", now, << >>)
           b == Published("session", now, << >>)
<1>1. a \in Event /\ b \in Event
  BY DEF Published, Event
<1>2. Says(now, s) = <<a, b>>
  BY DEF Says
<1> HIDE DEF a, b
<1>3. <<a, b>> \in Seq(Event) /\ Len(<<a, b>>) = 2
  BY <1>1
<1> QED
  BY <1>2, <1>3 DEF a, b

LEMMA PatchEventsType ==
  ASSUME NEW now \in ServerSession, NEW op \in Operation
  PROVE  /\ PatchEvents(now, op) \in Seq(Event) /\ Len(PatchEvents(now, op)) = 3
         /\ PatchEvents(now, op)[1] = Published("patch", now, <<op>>)
         /\ PatchEvents(now, op)[2] = Published("snapshot", now, << >>)
         /\ PatchEvents(now, op)[3] = Published("session", now, << >>)
<1> DEFINE a == Published("patch", now, <<op>>)
           b == Published("snapshot", now, << >>)
           d == Published("session", now, << >>)
<1>1. a \in Event /\ b \in Event /\ d \in Event
  BY DEF Published, Event
<1>2. PatchEvents(now, op) = <<a, b, d>>
  BY DEF PatchEvents
<1> HIDE DEF a, b, d
<1>3. <<a, b, d>> \in Seq(Event) /\ Len(<<a, b, d>>) = 3
  BY <1>1
<1> QED
  BY <1>2, <1>3 DEF a, b, d

-----------------------------------------------------------------------------
(* The overlay opens.                                                      *)

(* A page that is idle has no session and asked for no plan.               *)
Idle(p) == p.status = "idle" => p.key = None /\ p.pending = 0

(* Nothing on the page itself will open the overlay.                       *)
Locked(p) == Terminal(p) /\ p.blocked /\ ~p.finish

(* A stream that has just started tells the session first.                 *)
Starts(inbox) == inbox # << >> /\ Head(inbox).kind = "session" /\ Head(inbox).first

(* The overlay is locked by a page that was restored only, which knows no  *)
(* revision: the first event of its stream then says how the session is,   *)
(* and is not old.                                                         *)
OverlayInv ==
  /\ Idle(page) /\ \A f \in Flow : Idle(kept[f])
  /\ Locked(page) => page.rev = -1 /\ (link.stage = "open" => Starts(link.inbox))

LEMMA OverlayInit == Init => OverlayInv
<1> SUFFICES ASSUME Init PROVE OverlayInv
  OBVIOUS
<1>1. PICK f \in Flow, drawn \in SUBSET {Own} :
        page = Restored(f, [NothingKept EXCEPT !.canvas = drawn])
  BY DEF Init
<1>2. page.status = "idle" /\ page.key = None /\ page.pending = 0 /\ ~page.blocked
  BY <1>1 DEF Restored, NothingKept
<1>3. \A g \in Flow : Idle(kept[g])
  BY DEF Init, Idle, NothingKept
<1> QED
  BY <1>2, <1>3 DEF OverlayInv, Idle, Locked

(* The page stays, and the stream starts anew or appends to what it tells. *)
LEMMA OverlayListens ==
  ASSUME PageInv, OverlayInv, UNCHANGED <<page, kept>>,
         \/ link'.stage # "open"
         \/ link.stage = "open" /\ \E events \in Seq(Event) : link'.inbox = link.inbox \o events
         \/ Starts(link'.inbox)
  PROVE  OverlayInv'
<1>1. link.inbox \in Seq(Event)
  BY DEF PageInv, Link
<1>2. ASSUME NEW events \in Seq(Event), Starts(link.inbox) PROVE Starts(link.inbox \o events)
  BY <1>1, <1>2 DEF Starts
<1> QED
  BY <1>2 DEF OverlayInv, Idle, Locked, Terminal

LEMMA PublishAppends ==
  ASSUME PageInv, NEW s, NEW events \in Seq(Event), link' = link \/ Publish(s, events)
  PROVE  /\ link'.stage = link.stage
         /\ \E more \in Seq(Event) : link'.inbox = link.inbox \o more
<1>1. link \in Link /\ link.inbox \in Seq(Event)
  BY DEF PageInv, Link
<1>2. link' = link \/ link' = [link EXCEPT !.inbox = link.inbox \o events]
  BY <1>1 DEF Publish, Link
<1>3. << >> \in Seq(Event) /\ link.inbox = link.inbox \o << >>
  BY <1>1
<1> QED
  BY <1>1, <1>2, <1>3 DEF Link

LEMMA OverlayServed ==
  ASSUME PageInv, OverlayInv, Planner \/ Serve
  PROVE  OverlayInv'
<1>1. UNCHANGED <<page, kept>>
  BY ServerActs
<1>2. \E events \in Seq(Event) : link' = link \/ Publish(page.key, events) \/ \E s : Publish(s, events)
  <2>1. CASE \E s \in Session : \E now : Speaks(s, now)
    BY <2>1, SpeechEvents DEF Speaks
  <2>2. CASE \E s \in Session : \E now, op : Patches(s, now, op)
    BY <2>2, PatchEventsType DEF Patches
  <2>3. CASE link' = link
    <3>1. << >> \in Seq(Event)
      OBVIOUS
    <3> QED
      BY <2>3, <3>1
  <2> QED
    BY <2>1, <2>2, <2>3, ServerActs DEF Ensure
<1>3. /\ link'.stage = link.stage
      /\ \E more \in Seq(Event) : link'.inbox = link.inbox \o more
  BY <1>2, PublishAppends
<1> QED
  BY <1>1, <1>3, OverlayListens

LEMMA JoinedStarts ==
  ASSUME NEW T, NEW a \in Seq(T), NEW b \in Seq(T), a # << >>
  PROVE  a \o b # << >> /\ Head(a \o b) = a[1]
<1>1. 1 \in 1 .. Len(a) /\ (a \o b) \in Seq(T)
  OBVIOUS
<1>2. (a \o b)[1] = a[1]
  BY <1>1
<1>3. Len(a \o b) # 0
  OBVIOUS
<1>4. a \o b # << >>
  BY <1>3
<1> DEFINE both == a \o b
<1> HIDE DEF both
<1>5. Head(both) = both[1]
  BY <1>1, <1>4 DEF both
<1> QED
  BY <1>2, <1>4, <1>5 DEF both

LEMMA OverlayOpened ==
  ASSUME PageInv, OverlayInv, OpenStream
  PROVE  OverlayInv'
<1> DEFINE whole == SentWhole(page.key)
<1>1. link.stage = "join" /\ link \in Link /\ link.inbox \in Seq(Event) /\ page.key \in Session
  BY DEF OpenStream, PageInv, Link, PageOf, Page
<1>2. whole \in Seq(Event) /\ whole # << >> /\ whole[1].kind = "session" /\ whole[1].first
  <2>1. whole \in Seq(Event)
    BY <1>1, WholeType DEF PageInv
  <2> QED
    BY <2>1 DEF SentWhole
<1>3. link'.inbox = whole \o link.inbox
  BY <1>1 DEF OpenStream, Link
<1> HIDE DEF whole
<1>4. Starts(link'.inbox)
  BY <1>1, <1>2, <1>3, JoinedStarts DEF Starts
<1>5. UNCHANGED <<page, kept>>
  BY DEF OpenStream
<1> QED
  BY <1>4, <1>5, OverlayListens

(* An event locks no page, and the first one opens a locked page.          *)
LEMMA OverlayShown ==
  ASSUME NEW p, NEW o, PageOf(p, o), p.key \in Session, NEW m, EventOf(m, p.flow, o)
  PROVE  /\ Handled(p, m).status \in {p.status, "planning"} \cup Ended
         /\ Locked(Handled(p, m)) => Locked(p) /\ ~(p.rev = -1 /\ m.kind = "session")
<1>1. p \in Page /\ m.of.rev \in Nat /\ "planning" \notin Ended
  BY DEF PageOf, EventOf, Event, ServerSession, Ended
<1>2. CASE NeedsResync(p, m)
  <2>1. Handled(p, m) = Resync(p)
    BY <1>2 DEF Handled, NeedsResync
  <2>2. p.rev >= 0
    BY <1>2 DEF NeedsResync, Gap
  <2> QED
    BY <2>1, <2>2, ResyncFields DEF Flags, Locked, Terminal
<1>3. CASE ~NeedsResync(p, m) /\ m.kind = "session"
  <2>1. Handled(p, m) = OnSession(p, m)
    BY <1>3 DEF Handled
  <2>2. p.rev = -1 => ~Old(p, m) /\ m.of.rev # p.rev
    BY <1>1 DEF Old
  <2> DEFINE q == OnSession(p, m)
  <2>3. \/ q = p /\ (Old(p, m) \/ m.of.rev = p.rev)
        \/ q.status = "planning"
        \/ q.status \in Ended /\ ~q.blocked
    BY SessionEventFields
  <2> HIDE DEF q
  <2>4. /\ q.status \in {p.status, "planning"} \cup Ended
        /\ Locked(q) => Locked(p) /\ ~(p.rev = -1)
    BY <1>1, <2>2, <2>3 DEF Locked, Terminal
  <2> QED
    BY <2>1, <2>4 DEF q
<1>4. CASE ~NeedsResync(p, m) /\ m.kind = "messages"
  <2>1. Handled(p, m) = OnMessages(p, m)
    BY <1>4 DEF Handled
  <2> QED
    BY <1>1, <1>4, <2>1, MessageFields DEF Locked, Terminal
<1>5. CASE ~NeedsResync(p, m) /\ m.kind \notin {"session", "messages"}
  <2>1. Handled(p, m) = OnNodes(p, m)
    BY <1>5 DEF Handled
  <2> DEFINE q == OnNodes(p, m)
  <2>2. \/ q = p
        \/ Terminal(p) /\ q.status = p.status /\ q.finish
        \/ q.status = "planning"
    BY NodeFields
  <2> HIDE DEF q
  <2>3. /\ q.status \in {p.status, "planning"} \cup Ended
        /\ Locked(q) => Locked(p)
    BY <1>1, <2>2 DEF Locked, Terminal
  <2> QED
    BY <1>5, <2>1, <2>3 DEF q
<1> QED
  BY <1>2, <1>3, <1>4, <1>5

LEMMA OverlayDelivered ==
  ASSUME PageInv, OverlayInv, Deliver
  PROVE  OverlayInv'
<1> DEFINE m == Head(link.inbox)
<1>1. /\ link.stage = "open" /\ link.inbox # << >> /\ page.key \in Session /\ PageOf(page, owner)
      /\ EventOf(m, page.flow, owner) /\ kept' = kept
  BY DEF Deliver, PageInv, PageOf, Page, Link
<1>2. page' = IF Forwards(m) THEN Handled(page, m) ELSE page
  BY DEF Deliver
<1>3. Locked(page) => Forwards(m) /\ m.kind = "session" /\ page.rev = -1
  BY <1>1 DEF OverlayInv, Starts, Forwards
<1> HIDE DEF m
<1>4. ~Locked(page')
  BY <1>1, <1>2, <1>3, OverlayShown
<1>5. Idle(page')
  <2>1. page.status # "idle"
    BY <1>1, PageAssumption DEF OverlayInv, Idle
  <2>2. page'.status \in {page.status, "planning"} \cup Ended
    BY <1>1, <1>2, OverlayShown
  <2> QED
    BY <2>1, <2>2 DEF Idle, Ended
<1> QED
  BY <1>1, <1>4, <1>5 DEF OverlayInv

(* The fields of a page whose session changes.                             *)
LEMMA KeyFields ==
  ASSUME NEW p \in Page, NEW key
  PROVE  LET q == WithKey(p, key)
             clear == IF p.key = None THEN p ELSE ClearQueue(p, p.key) IN
         /\ key = p.key => q = p
         /\ q.pending = p.pending /\ Flags(q, p) /\ q.canvas = p.canvas
         /\ key # p.key => q.rev = -1 /\ q.ops = clear.ops /\ q.snaps = clear.snaps /\ q.flush = clear.flush
<1>1. CASE key = p.key
  BY <1>1 DEF WithKey, Flags
<1>2. CASE key # p.key
  <2> DEFINE clear == IF p.key = None THEN p ELSE ClearQueue(p, p.key)
             q == [clear EXCEPT !.key = key, !.rev = -1]
  <2>1. WithKey(p, key) = q
    BY <1>2 DEF WithKey
  <2>2. DOMAIN clear = DOMAIN p
    BY DEF Page, ClearQueue
  <2>3. clear.pending = p.pending /\ Flags(clear, p) /\ clear.canvas = p.canvas
    BY ClearFields DEF Flags
  <2> HIDE DEF clear
  <2>4. DOMAIN clear = {"flow", "key", "status", "planning", "stopping", "blocked", "finish", "pending",
                        "canvas", "chat", "rev", "ops", "snaps", "flush", "resync"}
    BY <2>2 DEF Page
  <2>5. /\ q.pending = clear.pending /\ Flags(q, clear) /\ q.canvas = clear.canvas
        /\ q.rev = -1 /\ q.ops = clear.ops /\ q.snaps = clear.snaps /\ q.flush = clear.flush
    BY <2>4 DEF Flags
  <2> HIDE DEF q
  <2> QED
    BY <1>2, <2>1, <2>3, <2>5 DEF Flags, clear
<1> QED
  BY <1>1, <1>2

LEMMA OverlayAnswered ==
  ASSUME PageInv, OverlayInv, Answer
  PROVE  OverlayInv'
<1>1. PICK c \in calls : AnswerGenerate(c) \/ AnswerStop(c)
  BY DEF Answer
<1>2. page \in Page /\ PageOf(page, owner) /\ kept' = kept /\ c.key # None /\ (c.kind = "generate" => c.id # 0)
  BY <1>1, PageAssumption DEF AnswerGenerate, AnswerStop, PageInv, PageOf, CallOf, Call
<1>3. CASE AnswerStop(c)
  <2> DEFINE q == [page EXCEPT !.status = "stopped", !.planning = FALSE, !.blocked = FALSE, !.stopping = FALSE]
             r == [page EXCEPT !.stopping = FALSE]
  <2>1. /\ q.status = "stopped" /\ ~q.blocked
        /\ r.status = page.status /\ r.key = page.key /\ r.pending = page.pending
        /\ r.blocked = page.blocked /\ r.finish = page.finish /\ r.rev = page.rev
    BY <1>2 DEF Page
  <2>2. (page' = q \/ page' = r) /\ link' = link
    BY <1>3 DEF AnswerStop
  <2> HIDE DEF q, r
  <2> QED
    BY <1>2, <2>1, <2>2 DEF OverlayInv, Idle, Locked, Terminal
<1>4. CASE AnswerGenerate(c)
  <2>1. CASE StillAwaited(c) /\ c.ok
    <3> DEFINE keyed == WithKey(page, c.key)
               q == [keyed EXCEPT !.pending = 0]
    <3>1. page' = q
      BY <1>4, <2>1 DEF AnswerGenerate, PlanAnswered
    <3>2. keyed \in Page /\ keyed.key = c.key
      <4>1. c.key \in Session \cup {None}
        BY <1>1 DEF PageInv, CallOf, Call
      <4>2. PageOf(keyed, owner) /\ keyed.key = c.key
        BY <1>2, <4>1, KeyChanges
      <4> QED
        BY <4>2 DEF PageOf
    <3>3. Flags(keyed, page) /\ (c.key = page.key => keyed = page) /\ (c.key # page.key => keyed.rev = -1)
      BY <1>2, KeyFields
    <3> HIDE DEF keyed
    <3>4. Flags(q, keyed) /\ q.key = keyed.key /\ q.rev = keyed.rev
      BY <3>2 DEF Page, Flags
    <3> HIDE DEF q
    <3>5. page'.status # "idle"
      BY <1>2, <1>4, <2>1, <3>1, <3>3, <3>4 DEF AnswerGenerate, StillAwaited, OverlayInv, Idle, Flags
    <3>6. link' = link \/ (link'.stage # "open" /\ page'.rev = -1)
      <4>1. link' = IF c.key = page.key THEN link ELSE LinkFor(c.key)
        BY <1>4, <3>1, <3>2, <3>4 DEF AnswerGenerate, Relink
      <4> QED
        BY <3>1, <3>3, <3>4, <4>1 DEF LinkFor, Linked
    <3>7. Locked(page') => Locked(page) /\ page'.rev \in {page.rev, -1}
      BY <3>1, <3>3, <3>4 DEF Locked, Terminal, Flags
    <3> QED
      BY <1>2, <3>5, <3>6, <3>7 DEF OverlayInv, Idle
  <2>2. CASE StillAwaited(c) /\ ~c.ok
    <3> DEFINE w == BlocksForAWhile(page)
               q == [w EXCEPT !.planning = FALSE, !.status = "failed", !.stopping = FALSE, !.pending = 0]
    <3>1. page' = q
      BY <1>4, <2>2 DEF AnswerGenerate, PlanFails
    <3>2. w \in Page /\ w.finish
      BY <1>2, Blocked, BlockedFields DEF PageOf
    <3> HIDE DEF w
    <3>3. q.status = "failed" /\ q.finish
      BY <3>2 DEF Page
    <3> HIDE DEF q
    <3> QED
      BY <1>2, <3>1, <3>3 DEF OverlayInv, Idle, Locked
  <2>3. CASE ~StillAwaited(c)
    <3>1. page' = page
      BY <1>4, <2>3 DEF AnswerGenerate
    <3>2. link' = link
      BY <1>4, <3>1 DEF AnswerGenerate, Relink
    <3> QED
      BY <1>2, <3>1, <3>2 DEF OverlayInv
  <2> QED
    BY <2>1, <2>2, <2>3
<1> QED
  BY <1>1, <1>3, <1>4

LEMMA OverlayTimers ==
  ASSUME PageInv, OverlayInv, Timers
  PROVE  OverlayInv'
<1>1. PageOf(page, owner) /\ page \in Page /\ kept' = kept /\ link' = link
  BY DEF PageInv, PageOf, Timers, Step, Unlock
<1>2. CASE Step
  <2>1. page'.rev = page.rev /\ page'.pending = page.pending /\ page'.key = page.key /\ Flags(page', page)
    BY <1>1, <1>2, PlayFields DEF Step
  <2> QED
    BY <1>1, <2>1 DEF OverlayInv, Idle, Locked, Terminal, Flags
<1>3. CASE Unlock
  <2>1. /\ ~page'.blocked /\ page'.status = page.status /\ page'.key = page.key
        /\ page'.pending = page.pending
    BY <1>1, <1>3, BlockedFields DEF Unlock
  <2> QED
    BY <1>1, <2>1 DEF OverlayInv, Idle, Locked
<1> QED
  BY <1>2, <1>3 DEF Timers

LEMMA OverlayUser ==
  ASSUME PageInv, OverlayInv, User
  PROVE  OverlayInv'
<1>1. PageOf(page, owner) /\ page \in Page
  BY DEF PageInv, PageOf
<1>2. CASE Prompt
  <2> DEFINE s == SessionForPrompt(page)
             keyed == WithKey(page, s)
             waits == Waits(keyed)
             q == [waits EXCEPT !.stopping = FALSE, !.pending = prompts + 1, !.chat = Append(@, "u")]
  <2>1. s \in Session
    BY <1>1, <1>2 DEF Prompt, SessionForPrompt, Page
  <2>2. page' = q /\ kept' = kept
    BY <1>2 DEF Prompt, PlanStarts
  <2> HIDE DEF s
  <2>3. PageOf(keyed, owner) /\ keyed \in Page
    BY <1>1, <2>1, KeyChanges DEF PageOf
  <2> HIDE DEF keyed
  <2>4. waits \in Page /\ waits.status = "planning"
    BY <2>3, Blocked, BlockedFields DEF PageOf
  <2> HIDE DEF waits
  <2>5. q.status = "planning"
    BY <2>4 DEF Page
  <2> QED
    BY <2>2, <2>5 DEF OverlayInv, Idle, Locked, Terminal, Ended
<1>3. CASE Stop
  <2> DEFINE emptied == IF page.key = None THEN ClearAllQueues(page) ELSE ClearQueue(page, page.key)
             free == Unblocks(emptied)
             q == [free EXCEPT !.pending = 0, !.status = "stopped", !.planning = FALSE,
                               !.stopping = page.key # None]
  <2>1. page' = q /\ kept' = kept
    BY <1>3 DEF Stop
  <2>2. PageOf(emptied, owner) /\ emptied \in Page
    BY <1>1, AllQueuesClear, QueueClears DEF PageOf
  <2> HIDE DEF emptied
  <2>3. free \in Page /\ ~free.blocked
    BY <2>2, Blocked, BlockedFields DEF PageOf
  <2> HIDE DEF free
  <2>4. q.status = "stopped" /\ ~q.blocked
    BY <2>3 DEF Page
  <2> QED
    BY <2>1, <2>4 DEF OverlayInv, Idle, Locked
<1>4. CASE Reload
  <2>1. /\ page' = Restored(page.flow, Drafted(Leave(page))) /\ link' = LinkFor(page.key)
        /\ kept' = [f \in Flow |-> Drafted(kept[f])]
    BY <1>4 DEF Reload
  <2>2. page'.status = page.status /\ page'.key = page.key /\ page'.pending = 0 /\ page'.rev = -1
    BY <2>1 DEF Restored, Drafted, Leave
  <2>3. link'.stage # "open"
    BY <2>1 DEF LinkFor, Linked
  <2>4. ASSUME NEW f \in Flow PROVE Idle(kept'[f])
    <3>1. kept'[f] = Drafted(kept[f]) /\ kept[f] \in Kept
      BY <2>1 DEF PageInv
    <3>2. kept'[f].status = kept[f].status /\ kept'[f].key = kept[f].key /\ kept'[f].pending = 0
      BY <3>1 DEF Drafted, Kept
    <3> QED
      BY <3>2 DEF OverlayInv, Idle
  <2> QED
    BY <2>2, <2>3, <2>4 DEF OverlayInv, Idle
<1>5. CASE \E f \in Flow : SwitchFlow(f)
  <2>1. PICK f \in Flow : SwitchFlow(f)
    BY <1>5
  <2>2. /\ page' = [Restored(f, kept[f]) EXCEPT !.resync = page.resync] /\ link' = LinkFor(kept[f].key)
        /\ kept' = [kept EXCEPT ![page.flow] = Leave(page)]
    BY <2>1 DEF SwitchFlow
  <2>3. page'.status = kept[f].status /\ page'.key = kept[f].key /\ page'.pending = kept[f].pending
        /\ page'.rev = -1
    BY <2>2 DEF Restored
  <2>4. link'.stage # "open"
    BY <2>2 DEF LinkFor, Linked
  <2>5. ASSUME NEW g \in Flow PROVE Idle(kept'[g])
    <3>1. kept'[g] = IF g = page.flow THEN Leave(page) ELSE kept[g]
      BY <2>2 DEF PageInv
    <3> QED
      BY <3>1 DEF OverlayInv, Idle, Leave
  <2> QED
    BY <2>3, <2>4, <2>5 DEF OverlayInv, Idle
<1> QED
  BY <1>2, <1>3, <1>4, <1>5 DEF User

LEMMA OverlayStep == PageInv /\ OverlayInv /\ [Next]_vars => OverlayInv'
<1> SUFFICES ASSUME PageInv, OverlayInv, [Next]_vars PROVE OverlayInv'
  OBVIOUS
<1>1. CASE Planner \/ Serve
  BY <1>1, OverlayServed
<1>2. CASE Answer
  BY <1>2, OverlayAnswered
<1>3. CASE Stream
  <2>1. CASE ServeProbe \/ Subscribe
    <3>1. link'.stage # "open" /\ UNCHANGED <<page, kept>>
      BY <2>1 DEF ServeProbe, Subscribe, Linked
    <3> QED
      BY <3>1, OverlayListens
  <2>2. CASE StaleSession
    <3>1. /\ link'.stage # "open" /\ page' = WithKey(page, None) /\ kept' = kept
          /\ page.key # None /\ page \in Page
      BY <2>2 DEF StaleSession, LinkFor, Linked, PageInv, PageOf
    <3>2. Flags(page', page) /\ page'.rev = -1
      BY <3>1, KeyFields
    <3>3. page.status # "idle"
      BY <3>1 DEF OverlayInv, Idle
    <3> QED
      BY <3>1, <3>2, <3>3 DEF OverlayInv, Flags, Idle, Locked, Terminal
  <2>3. CASE OpenStream
    BY <2>3, OverlayOpened
  <2>4. CASE Deliver
    BY <2>4, OverlayDelivered
  <2> QED
    BY <1>3, <2>1, <2>2, <2>3, <2>4 DEF Stream
<1>4. CASE Timers
  BY <1>4, OverlayTimers
<1>5. CASE User
  BY <1>5, OverlayUser
<1>6. CASE Faults
  <2>1. CASE ServerCloses \/ Cut
    <3>1. link'.stage # "open" /\ UNCHANGED <<page, kept>>
      BY <2>1 DEF ServerCloses, Cut, Linked
    <3> QED
      BY <3>1, OverlayListens
  <2>2. CASE \E c \in calls : LoseCall(c)
    BY <2>2 DEF LoseCall, OverlayInv
  <2> QED
    BY <1>6, <2>1, <2>2 DEF Faults
<1>7. CASE UNCHANGED vars
  BY <1>7 DEF vars, OverlayInv
<1> QED
  BY <1>1, <1>2, <1>3, <1>4, <1>5, <1>6, <1>7 DEF Next

(* The planner's overlay never stays locked: a page that is blocked either *)
(* still waits for its plan or has the finish timer that will unblock it,  *)
(* whatever was stopped, failed, restored or reloaded                      *)
(* (usePlannerRuntimeTimers.ts, flowPlannerRealtimeEventUtils.ts).         *)
THEOREM OverlayIsOpened == Spec => []OverlayOpens
<1>1. PageInv /\ OverlayInv => OverlayOpens
  <2> SUFFICES ASSUME PageInv, OverlayInv, Quiet, page.blocked, ~page.finish, ~Awaiting(page) PROVE FALSE
    BY DEF OverlayOpens
  <2>1. page.key # None /\ page.status \in PageStatus
    BY DEF Quiet, PageInv, PageOf, Page
  <2>2. page.status # "idle" /\ page.status # "planning"
    BY <2>1 DEF OverlayInv, Idle, Awaiting
  <2>3. Terminal(page)
    BY <2>1, <2>2 DEF Terminal, PageStatus
  <2> QED
    BY <2>3 DEF OverlayInv, Locked, Quiet, Starts
<1> QED
  BY <1>1, PageInit, PageStep, OverlayInit, OverlayStep, PTL DEF Spec

-----------------------------------------------------------------------------
(* Requests whose answer the page hears.                                   *)

(* A prompt has one request the page hears of, whatever was lost.          *)
RequestsInv ==
  /\ \A c \in calls : c.stage = "done" => c.heard
  /\ \A c, d \in calls :
       c.kind = "generate" /\ d.kind = "generate" /\ c.heard /\ d.heard /\ c.id = d.id => c = d

(* A request moves on, and is not heard of twice.                          *)
LEMMA RequestMoves ==
  ASSUME RequestsInv, NEW c \in calls, NEW d, Like(d, c), d.heard => c.heard,
         d.stage = "done" => d.heard,
         \A x \in calls' : x \in calls \ {c} \/ x = d \/ (~x.heard /\ x.stage # "done")
  PROVE  RequestsInv'
<1>1. \A x \in calls' : x.stage = "done" => x.heard
  BY DEF RequestsInv
<1>2. ASSUME NEW x \in calls', NEW y \in calls', x.kind = "generate", y.kind = "generate",
             x.heard, y.heard, x.id = y.id
      PROVE  x = y
  <2>1. x \in calls \ {c} \/ x = d
    BY <1>2
  <2>2. y \in calls \ {c} \/ y = d
    BY <1>2
  <2> QED
    BY <1>2, <2>1, <2>2 DEF RequestsInv, Like
<1> QED
  BY <1>1, <1>2 DEF RequestsInv

LEMMA RequestsDone ==
  ASSUME PageInv, RequestsInv, NEW c \in calls, c.stage # "done", NEW ok,
         \A x \in calls' : x \in Done(c, ok) \/ (~x.heard /\ x.stage # "done")
  PROVE  RequestsInv'
<1> DEFINE d == [c EXCEPT !.stage = "done", !.ok = ok]
<1>1. c \in Call
  BY DEF PageInv, CallOf
<1>2. CASE c.heard
  <2>1. Like(d, c) /\ d.heard
    BY <1>1, <1>2, LikeChanged DEF Call
  <2>2. \A x \in calls' : x \in calls \ {c} \/ x = d \/ (~x.heard /\ x.stage # "done")
    BY <1>2 DEF Done, Replace
  <2> HIDE DEF d
  <2> QED
    BY <1>2, <2>1, <2>2, RequestMoves
<1>3. CASE ~c.heard
  <2>1. Like(c, c)
    BY LikeChanged
  <2>2. \A x \in calls' : x \in calls \ {c} \/ x = c \/ (~x.heard /\ x.stage # "done")
    BY <1>3 DEF Done
  <2> QED
    BY <1>3, <2>1, <2>2, RequestMoves
<1> QED
  BY <1>2, <1>3

LEMMA RequestsStep == PageInv /\ RequestsInv /\ [Next]_vars => RequestsInv'
<1> SUFFICES ASSUME PageInv, RequestsInv, [Next]_vars PROVE RequestsInv'
  OBVIOUS
<1>0. \A c \in calls : c \in Call
  BY DEF PageInv, CallOf
<1>1. CASE calls' \subseteq calls
  BY <1>1 DEF RequestsInv
<1>2. ASSUME NEW c \in calls, Ensure(c) \/ Instruct(c) PROVE RequestsInv'
  <2>1. PICK stage \in {"ensured", "instructed"} : calls' = Replace(c, [c EXCEPT !.stage = stage])
    BY <1>2 DEF Ensure, Instruct
  <2> DEFINE d == [c EXCEPT !.stage = stage]
  <2>2. Like(d, c) /\ d.heard = c.heard /\ d.stage # "done"
    BY <1>0, LikeChanged DEF Call
  <2>3. \A x \in calls' : x \in calls \ {c} \/ x = d
    BY <2>1 DEF Replace
  <2> HIDE DEF d
  <2> QED
    BY <2>2, <2>3, RequestMoves
<1>3. ASSUME NEW c \in calls, Dispatch(c) \/ ServeStop(c) PROVE RequestsInv'
  <2>1. PICK ok \in BOOLEAN : calls' = Done(c, ok)
    BY <1>3 DEF Dispatch, ServeStop
  <2>2. c.stage # "done"
    BY <1>3 DEF Dispatch, ServeStop
  <2> QED
    BY <2>1, <2>2, RequestsDone
<1>4. ASSUME NEW c \in calls, LoseCall(c) PROVE RequestsInv'
  <2> DEFINE d == [c EXCEPT !.heard = FALSE]
  <2>1. ~d.heard /\ d.stage = c.stage /\ c.stage # "done"
    BY <1>0, <1>4 DEF LoseCall, Call
  <2>2. \A x \in calls' : x \in Done(c, FALSE) \/ x = d
    BY <1>4 DEF LoseCall
  <2> HIDE DEF d
  <2> QED
    BY <2>1, <2>2, RequestsDone
<1>5. CASE Prompt
  <2> DEFINE d == Request("generate", page'.key, prompts + 1, page.canvas)
  <2>1. calls' = calls \cup {d}
    BY <1>5, PromptSteps
  <2>2. d.stage = "sent" /\ d.id = prompts + 1
    BY DEF Request
  <2>3. \A c \in calls : c.kind = "generate" => c.id # prompts + 1
    BY DEF PageInv, CallOf
  <2> HIDE DEF d
  <2> QED
    BY <2>1, <2>2, <2>3 DEF RequestsInv
<1>6. CASE Stop
  <2>1. \A c \in calls' : c \in calls \/ (c.kind = "stop" /\ c.stage = "sent")
    BY <1>6 DEF Stop, Request
  <2> QED
    BY <2>1 DEF RequestsInv
<1>7. CASE Reload
  <2>1. ASSUME NEW x \in calls' PROVE ~x.heard /\ x.stage # "done"
    <3>1. PICK c \in calls : x = [c EXCEPT !.heard = FALSE] /\ c.stage # "done"
      BY <1>7 DEF Reload
    <3> QED
      BY <1>0, <3>1 DEF Call
  <2> QED
    BY <2>1 DEF RequestsInv
<1>8. CASE Answer
  BY <1>1, <1>8 DEF Answer, AnswerGenerate, AnswerStop
<1>9. CASE Planner \/ Stream \/ Timers \/ ServerCloses \/ Cut \/ (\E f \in Flow : SwitchFlow(f)) \/ UNCHANGED vars
  BY <1>1, <1>9 DEF Planner, PlannerPatches, PlannerSays, PlannerEnds, Stream, ServeProbe, StaleSession,
     Subscribe, OpenStream, Deliver, Timers, Step, Unlock, ServerCloses, Cut, SwitchFlow, vars
<1> QED
  BY <1>2, <1>3, <1>4, <1>5, <1>6, <1>7, <1>8, <1>9 DEF Next, Serve, User, Faults

-----------------------------------------------------------------------------
(* What a stream has told and will tell.                                   *)

Listening == link.stage \in {"join", "open"}
TellsSession(e) == e.kind = "session"

(* A session as it was earlier: an end is for good.                        *)
Past(v, now) ==
  /\ v.rev <= now.rev /\ Len(v.lines) <= Len(now.lines)
  /\ v.status \in Ended => now.status \in Ended /\ v.rev = now.rev

(* The events are of the past, and the last that is told of a session that *)
(* has ended is how it is now.                                             *)
Told(q, now) ==
  /\ \A i \in DOMAIN q : Past(q[i].of, now)
  /\ now.status \in Ended =>
       \A i \in DOMAIN q : TellsSession(q[i]) /\ q[i].of # now =>
         \E j \in DOMAIN q : i < j /\ TellsSession(q[j]) /\ q[j].of = now

StreamInv ==
  /\ page.key # None => page.rev <= server[page.key].rev
  /\ page.key = None => page.rev = -1
  /\ Listening => Told(link.inbox, server[page.key])
  /\ link.stage = "join" => \A i \in DOMAIN link.inbox : ~link.inbox[i].first
  /\ link.stage = "open" =>
       /\ Past(link.sig, server[page.key])
       /\ \A i \in DOMAIN link.inbox : TellsSession(link.inbox[i]) /\ link.inbox[i].first =>
            i = 1 /\ link.inbox[i].of = link.sig

LEMMA PastSelf ==
  ASSUME NEW v \in ServerSession
  PROVE  Past(v, v)
<1>1. v.rev \in Nat /\ Len(v.lines) \in Nat
  BY DEF ServerSession
<1> QED
  BY <1>1 DEF Past

LEMMA PastGrows ==
  ASSUME NEW v \in ServerSession, NEW w \in ServerSession, NEW now \in ServerSession,
         Past(v, w), Past(w, now)
  PROVE  Past(v, now)
<1>1. /\ v.rev \in Nat /\ w.rev \in Nat /\ now.rev \in Nat
      /\ Len(v.lines) \in Nat /\ Len(w.lines) \in Nat /\ Len(now.lines) \in Nat
  BY DEF ServerSession
<1> QED
  BY <1>1 DEF Past

LEMMA TailOf ==
  ASSUME NEW T, NEW q \in Seq(T), q # << >>
  PROVE  /\ Tail(q) \in Seq(T)
         /\ \A i \in DOMAIN Tail(q) : i + 1 \in DOMAIN q /\ Tail(q)[i] = q[i + 1] /\ i \in Nat
         /\ \A i \in DOMAIN q : i \in Nat /\ (i # 1 => i - 1 \in DOMAIN Tail(q) /\ Tail(q)[i - 1] = q[i])
         /\ 1 \in DOMAIN q /\ Head(q) = q[1]
  OBVIOUS

LEMMA ToldTail ==
  ASSUME NEW q \in Seq(Event), q # << >>, NEW now, Told(q, now)
  PROVE  Told(Tail(q), now)
<1> DEFINE rest == Tail(q)
<1>1. /\ \A i \in DOMAIN rest : i + 1 \in DOMAIN q /\ rest[i] = q[i + 1] /\ i \in Nat
      /\ \A i \in DOMAIN q : i \in Nat /\ (i # 1 => i - 1 \in DOMAIN rest /\ rest[i - 1] = q[i])
  BY TailOf
<1> HIDE DEF rest
<1>2. \A i \in DOMAIN rest : Past(rest[i].of, now)
  BY <1>1 DEF Told
<1>3. ASSUME now.status \in Ended, NEW i \in DOMAIN rest, TellsSession(rest[i]), rest[i].of # now
      PROVE  \E j \in DOMAIN rest : i < j /\ TellsSession(rest[j]) /\ rest[j].of = now
  <2>1. PICK j \in DOMAIN q : i + 1 < j /\ TellsSession(q[j]) /\ q[j].of = now
    BY <1>1, <1>3 DEF Told
  <2>2. i \in Nat /\ j \in Nat /\ j # 1
    BY <1>1, <2>1
  <2>3. j - 1 \in DOMAIN rest /\ rest[j - 1] = q[j] /\ i < j - 1
    BY <1>1, <2>1, <2>2
  <2> QED
    BY <2>1, <2>3
<1>4. Told(rest, now)
  BY <1>2, <1>3 DEF Told
<1> QED
  BY <1>4 DEF rest

(* What a session publishes ends with the session itself.                  *)
LEMMA ToldMore ==
  ASSUME NEW q \in Seq(Event), NEW more \in Seq(Event), NEW old \in ServerSession,
         NEW now \in ServerSession, Told(q, old), Past(old, now), more # << >>,
         \A i \in DOMAIN more : more[i].of = now, TellsSession(more[Len(more)])
  PROVE  Told(q \o more, now)
<1> DEFINE both == q \o more
           n == Len(q)
           k == Len(more)
<1>1. /\ n \in Nat /\ k \in Nat /\ DOMAIN q = 1 .. n /\ DOMAIN more = 1 .. k /\ k # 0
      /\ \A i \in DOMAIN q : q[i] \in Event
  OBVIOUS
<1>2. /\ DOMAIN both = 1 .. n + k
      /\ \A i \in 1 .. n : both[i] = q[i]
      /\ \A i \in DOMAIN both : i > n => i - n \in DOMAIN more /\ both[i] = more[i - n]
  BY Joined
<1> HIDE DEF both, n, k
<1>3. TellsSession(more[k])
  BY DEF k
<1>4. \A i \in DOMAIN both : i > n => both[i].of = now
  BY <1>2
<1>5. ASSUME NEW i \in DOMAIN both PROVE Past(both[i].of, now)
  <2>1. CASE i > n
    BY <1>4, <2>1, PastSelf
  <2>2. CASE ~(i > n)
    <3>1. i \in DOMAIN q /\ both[i] = q[i] /\ q[i].of \in ServerSession
      BY <1>1, <1>2, <2>2 DEF Event
    <3> QED
      BY <3>1, PastGrows DEF Told
  <2> QED
    BY <2>1, <2>2
<1>6. n + k \in DOMAIN both /\ TellsSession(both[n + k]) /\ both[n + k].of = now
  <2>1. PICK l \in DOMAIN both : l = n + k /\ l > n /\ l - n = k
    BY <1>1, <1>2
  <2>2. both[l] = more[l - n] /\ both[l].of = now
    BY <1>2, <1>4, <2>1
  <2>3. both[l] = more[k]
    BY <2>1, <2>2
  <2> QED
    BY <1>3, <2>1, <2>2, <2>3
<1>7. ASSUME NEW i \in DOMAIN both, both[i].of # now
      PROVE  i < n + k
  BY <1>1, <1>2, <1>6, <1>7
<1>8. Told(both, now)
  BY <1>5, <1>6, <1>7 DEF Told
<1> QED
  BY <1>8 DEF both

(* What the server told of the session the page shows.                     *)
LEMMA ServerTells ==
  ASSUME PageInv, Planner \/ Serve, page.key \in Session
  PROVE  LET s == page.key
             old == server[s]
             now == server'[s] IN
         /\ Past(old, now) \/ ~Listening
         /\ \/ link' = link /\ (now = old \/ \E c \in calls : Ensure(c) /\ c.key = s)
            \/ Speaks(s, now) \/ \E op : Patches(s, now, op)
<1> DEFINE s == page.key
<1>1. server \in [Session -> ServerSession] /\ \A x \in Session : server[x].rev \in Nat /\ Len(server[x].lines) \in Nat
  BY DEF PageInv, ServerSession
<1>2. CASE \E x \in Session : \E now : Speaks(x, now)
  <2>1. PICK x \in Session : \E now : Speaks(x, now)
    BY <1>2
  <2>2. PICK now : Speaks(x, now)
    BY <2>1
  <2>3. CASE x = s
    <3>1. server'[s] = now
      BY <1>1, <2>2, <2>3 DEF Speaks
    <3>2. Past(server[s], now)
      BY <1>1, <2>2, <2>3 DEF Past, Speaks, Ended
    <3> QED
      BY <2>2, <2>3, <3>1, <3>2
  <2>4. CASE x # s
    <3>1. server'[s] = server[s] /\ link' = link
      BY <1>1, <2>2, <2>4 DEF Speaks, Publish, Hears
    <3> QED
      BY <1>1, <3>1, PastSelf
  <2> QED
    BY <2>3, <2>4
<1>3. CASE \E x \in Session : \E now, op : Patches(x, now, op)
  <2>1. PICK x \in Session : \E now, op : Patches(x, now, op)
    BY <1>3
  <2>2. PICK now, op : Patches(x, now, op)
    BY <2>1
  <2>3. CASE x = s
    <3>1. server'[s] = now
      BY <1>1, <2>2, <2>3 DEF Patches
    <3>2. Past(server[s], now)
      BY <1>1, <2>2, <2>3 DEF Past, Patches, Ended
    <3> QED
      BY <2>2, <2>3, <3>1, <3>2
  <2>4. CASE x # s
    <3>1. server'[s] = server[s] /\ link' = link
      BY <1>1, <2>2, <2>4 DEF Patches, Publish, Hears
    <3> QED
      BY <1>1, <3>1, PastSelf
  <2> QED
    BY <2>3, <2>4
<1>4. CASE \E c \in calls : Ensure(c)
  <2>1. PICK c \in calls : Ensure(c)
    BY <1>4
  <2>2. link' = link /\ (c.key # s => server'[s] = server[s])
    BY <1>1, <2>1 DEF Ensure
  <2>3. CASE c.key # s
    BY <1>1, <2>2, <2>3, PastSelf
  <2>4. CASE c.key = s /\ Listening
    <3>1. server[s].status # "none"
      BY <2>4 DEF Listening, PageInv
    <3>2. server'[s] = server[s] \/ (server[s].status = "planning" /\ server'[s] = [server[s] EXCEPT !.nodes = c.nodes])
      BY <1>1, <2>1, <2>4, <3>1 DEF Ensure
    <3>3. /\ server'[s].rev = server[s].rev /\ server'[s].lines = server[s].lines
          /\ server'[s].status = server[s].status
      BY <1>1, <3>2 DEF ServerSession
    <3>4. Past(server[s], server'[s])
      BY <1>1, <3>3 DEF Past
    <3> QED
      BY <2>1, <2>2, <2>4, <3>4
  <2> QED
    BY <2>1, <2>2, <2>3, <2>4
<1>5. CASE UNCHANGED <<server, link>>
  BY <1>1, <1>5, PastSelf
<1> QED
  BY <1>2, <1>3, <1>4, <1>5, ServerActs

LEMMA StreamServed ==
  ASSUME PageInv, StreamInv, Planner \/ Serve
  PROVE  StreamInv'
<1>1. UNCHANGED <<page, kept>> /\ PageInv'
  BY ServerActs, PageStep DEF Next
<1>2. CASE page.key = None
  <2>1. ~Listening
    BY <1>2 DEF PageInv, Listening
  <2>2. link' = link
    BY <1>2, <2>1, ServerActs, PageAssumption DEF Speaks, Patches, Publish, Hears, Ensure
  <2> QED
    BY <1>1, <1>2, <2>1, <2>2 DEF StreamInv, Listening
<1>3. CASE page.key \in Session
  <2> DEFINE s == page.key
             old == server[s]
             now == server'[s]
  <2>1. /\ old \in ServerSession /\ now \in ServerSession /\ old.rev \in Nat /\ now.rev \in Nat
        /\ page.rev \in Int /\ link.inbox \in Seq(Event) /\ link.sig \in ServerSession
    BY <1>1, <1>3 DEF PageInv, PageOf, Page, Link, ServerSession
  <2>2. page.rev <= now.rev
    <3>1. old.rev <= now.rev
      <4>1. ASSUME NEW c \in calls, Ensure(c) PROVE now = old \/ now.rev = old.rev
        <5>1. c.key \in Session /\ server[c.key] = server[c.key] /\ (server[c.key].status = "none" => server[c.key].rev = 0)
          BY DEF PageInv, CallOf, Call, SessionOf, NoSession
        <5>2. \A x \in ServerSession : [x EXCEPT !.nodes = c.nodes].rev = x.rev
          BY DEF ServerSession
        <5>3. [NoSession EXCEPT !.status = "planning", !.nodes = c.nodes].rev = 0
          BY DEF NoSession
        <5>4. \/ now = old
              \/ old.status = "none" /\ now = [NoSession EXCEPT !.status = "planning", !.nodes = c.nodes]
              \/ now = [old EXCEPT !.nodes = c.nodes]
          BY <1>3, <4>1, <5>1 DEF Ensure, PageInv
        <5>5. old.status = "none" => old.rev = 0
          BY <1>3 DEF PageInv, SessionOf, NoSession
        <5> HIDE DEF now, old
        <5> QED
          BY <2>1, <5>2, <5>3, <5>4, <5>5
      <4>2. CASE Speaks(s, now) \/ \E op : Patches(s, now, op)
        BY <2>1, <4>2 DEF Speaks, Patches
      <4> QED
        BY <1>3, <2>1, <4>1, <4>2, ServerTells
    <3> QED
      BY <1>3, <2>1, <3>1, PageAssumption DEF StreamInv
  <2>3. CASE ~Listening
    <3>1. link' = link
      BY <1>3, <2>3, ServerTells DEF Speaks, Patches, Publish, Hears, Listening
    <3> QED
      BY <1>1, <1>3, <2>2, <2>3, <3>1, PageAssumption DEF StreamInv, Listening
  <2>4. CASE Listening
    <3>0. Past(old, now) /\ Told(link.inbox, old)
      BY <1>3, <2>4, ServerTells DEF StreamInv
    <3>1. link.stage = "open" => Past(link.sig, now)
      BY <2>1, <3>0, PastGrows DEF StreamInv
    <3>2. CASE link' = link
      <4>1. now = old \/ now.status \notin Ended
        <5>1. ASSUME NEW c \in calls, Ensure(c), c.key = s PROVE now = old \/ now.status = "planning"
          <6>1. old.status # "none"
            BY <2>4 DEF Listening, PageInv
          <6>2. \A x \in ServerSession : [x EXCEPT !.nodes = c.nodes].status = x.status
            BY DEF ServerSession
          <6> QED
            BY <1>3, <2>1, <5>1, <6>1, <6>2 DEF Ensure, PageInv
        <5>2. ~Speaks(s, now) /\ \A op : ~Patches(s, now, op)
          <6>1. Hears(s) /\ link \in Link
            BY <2>4 DEF Hears, Listening, PageInv
          <6>2. ASSUME NEW more \in Seq(Event), Len(more) # 0 PROVE ~Publish(s, more)
            <7>1. Len(link.inbox \o more) = Len(link.inbox) + Len(more)
              BY <2>1
            <7>2. link.inbox \o more # link.inbox
              BY <2>1, <6>2, <7>1
            <7> QED
              BY <3>2, <6>1, <7>2 DEF Publish, Link
          <6>3. ~Speaks(s, now)
            BY <2>1, <6>2, SpeechEvents DEF Speaks
          <6>4. ASSUME NEW op, Patches(s, now, op) PROVE FALSE
            <7>1. op \in Operation /\ Publish(s, PatchEvents(now, op))
              BY <6>4 DEF Patches
            <7>2. PatchEvents(now, op) \in Seq(Event) /\ Len(PatchEvents(now, op)) = 3
              BY <2>1, <7>1, PatchEventsType
            <7> QED
              BY <6>2, <7>1, <7>2
          <6> QED
            BY <6>3, <6>4
        <5> QED
          BY <1>3, <5>1, <5>2, ServerTells DEF Ended
      <4>2. Told(link.inbox, now)
        <5>1. \A i \in DOMAIN link.inbox : link.inbox[i].of \in ServerSession
          <6>1. \A i \in DOMAIN link.inbox : link.inbox[i] \in Event
            BY <2>1
          <6> QED
            BY <6>1 DEF Event
        <5> QED
          BY <2>1, <3>0, <4>1, <5>1, PastGrows DEF Told
      <4> QED
        BY <1>1, <1>3, <2>2, <2>4, <3>1, <3>2, <4>2, PageAssumption DEF StreamInv, Listening
    <3>3. ASSUME NEW more \in Seq(Event), more # << >>, Publish(s, more),
                 \A i \in DOMAIN more : more[i].of = now /\ ~more[i].first,
                 TellsSession(more[Len(more)])
          PROVE  StreamInv'
      <4> DEFINE both == link.inbox \o more
      <4>1. link'.inbox = both /\ link'.stage = link.stage /\ link'.sig = link.sig
        BY <2>4, <3>3 DEF Publish, Hears, Listening, PageInv, Link
      <4>2. Told(both, now)
        BY <2>1, <3>0, <3>3, ToldMore
      <4>3. ASSUME NEW i \in DOMAIN both, both[i].first
            PROVE  i \in DOMAIN link.inbox /\ both[i] = link.inbox[i]
        <5>1. /\ DOMAIN both = 1 .. Len(link.inbox) + Len(more) /\ DOMAIN link.inbox = 1 .. Len(link.inbox)
              /\ \A j \in 1 .. Len(link.inbox) : both[j] = link.inbox[j]
              /\ \A j \in DOMAIN both : j > Len(link.inbox) => j - Len(link.inbox) \in DOMAIN more
                                                /\ both[j] = more[j - Len(link.inbox)]
              /\ Len(link.inbox) \in Nat /\ Len(more) \in Nat
          BY <2>1, <3>3, Joined
        <5> HIDE DEF both
        <5>2. ~(i > Len(link.inbox))
          BY <3>3, <4>3, <5>1
        <5> QED
          BY <4>3, <5>1, <5>2
      <4> HIDE DEF both
      <4> QED
        BY <1>1, <1>3, <2>2, <2>4, <3>1, <4>1, <4>2, <4>3, PageAssumption DEF StreamInv, Listening
    <3>4. CASE Speaks(s, now)
      <4>1. Says(now, s) \in Seq(Event) /\ Len(Says(now, s)) = 2
            /\ Says(now, s)[1] = Published("messages", now, << >>)
            /\ Says(now, s)[2] = Published("session", now, << >>)
        BY <2>1, SpeechEvents
      <4>2. DOMAIN Says(now, s) = 1 .. 2 /\ Says(now, s) # << >>
        BY <4>1
      <4>3. /\ \A i \in DOMAIN Says(now, s) : Says(now, s)[i].of = now /\ ~Says(now, s)[i].first
            /\ TellsSession(Says(now, s)[Len(Says(now, s))])
        BY <4>1, <4>2 DEF Published, TellsSession
      <4> QED
        BY <3>3, <3>4, <4>1, <4>2, <4>3 DEF Speaks
    <3>5. CASE \E op : Patches(s, now, op)
      <4>0. PICK op : Patches(s, now, op)
        BY <3>5
      <4> DEFINE more == PatchEvents(now, op)
      <4>1. more \in Seq(Event) /\ Len(more) = 3
            /\ more[1] = Published("patch", now, <<op>>)
            /\ more[2] = Published("snapshot", now, << >>)
            /\ more[3] = Published("session", now, << >>)
        BY <2>1, <4>0, PatchEventsType DEF Patches
      <4>2. Publish(s, more)
        BY <4>0 DEF Patches
      <4> HIDE DEF more
      <4>3. DOMAIN more = 1 .. 3 /\ more # << >>
        BY <4>1
      <4>4. /\ \A i \in DOMAIN more : more[i].of = now /\ ~more[i].first
            /\ TellsSession(more[Len(more)])
        BY <4>1, <4>3 DEF Published, TellsSession
      <4> QED
        BY <3>3, <4>1, <4>2, <4>3, <4>4
    <3> QED
      BY <1>3, <3>2, <3>4, <3>5, ServerTells
  <2> QED
    BY <2>3, <2>4
<1> QED
  BY <1>2, <1>3 DEF PageInv, PageOf, Page

LEMMA WholeFields ==
  ASSUME PageInv, NEW s \in Session, server[s].status # "none"
  PROVE  LET whole == SentWhole(s) IN
         /\ whole \in Seq(Event) /\ Len(whole) = 4 /\ DOMAIN whole = 1 .. 4
         /\ \A i \in 1 .. 4 : whole[i].of = server[s] /\ whole[i].first
         /\ whole[1].kind = "session" /\ whole[2].kind = "messages"
         /\ whole[3].kind = "patch" /\ whole[4].kind = "snapshot"
<1>1. SentWhole(s) \in Seq(Event)
  BY WholeType
<1>2. Len(SentWhole(s)) = 4 /\ DOMAIN SentWhole(s) = 1 .. 4
  BY DEF SentWhole
<1>3. /\ \A i \in 1 .. 4 : SentWhole(s)[i].of = server[s] /\ SentWhole(s)[i].first
      /\ SentWhole(s)[1].kind = "session" /\ SentWhole(s)[2].kind = "messages"
      /\ SentWhole(s)[3].kind = "patch" /\ SentWhole(s)[4].kind = "snapshot"
  BY DEF SentWhole
<1> QED
  BY <1>1, <1>2, <1>3

(* The whole session, then what changed since the stream joined.           *)
LEMMA OpenedFields ==
  ASSUME PageInv, OpenStream
  PROVE  LET now == server[page.key]
             q == link.inbox
             both == link'.inbox IN
         /\ page.key \in Session /\ now \in ServerSession /\ now.status # "none" /\ link.stage = "join"
         /\ UNCHANGED <<server, page, kept, calls, dropped>>
         /\ link'.stage = "open" /\ link'.seen = now /\ link'.sig = now
         /\ both \in Seq(Event) /\ q \in Seq(Event) /\ Len(q) \in Nat
         /\ DOMAIN q = 1 .. Len(q) /\ DOMAIN both = 1 .. 4 + Len(q)
         /\ \A i \in 1 .. 4 : both[i].of = now /\ both[i].first
         /\ both[1].kind = "session" /\ both[2].kind = "messages"
         /\ both[3].kind = "patch" /\ both[4].kind = "snapshot"
         /\ \A i \in DOMAIN both : i \notin 1 .. 4 => i - 4 \in DOMAIN q /\ both[i] = q[i - 4]
         /\ \A i \in DOMAIN q : i + 4 \in DOMAIN both /\ both[i + 4] = q[i]
<1> DEFINE now == server[page.key]
           q == link.inbox
           whole == SentWhole(page.key)
           both == whole \o q
<1>1. link.stage = "join" /\ link \in Link /\ q \in Seq(Event) /\ page.key \in Session
  BY DEF OpenStream, PageInv, Link, PageOf, Page
<1>2. now \in ServerSession /\ now.status # "none" /\ UNCHANGED <<server, page, kept, calls, dropped>>
  BY <1>1 DEF PageInv, OpenStream
<1>3. link'.stage = "open" /\ link'.seen = now /\ link'.sig = now /\ link'.inbox = both
  BY <1>1 DEF OpenStream, Link
<1>4. /\ whole \in Seq(Event) /\ Len(whole) = 4 /\ DOMAIN whole = 1 .. 4
      /\ \A i \in 1 .. 4 : whole[i].of = now /\ whole[i].first
      /\ whole[1].kind = "session" /\ whole[2].kind = "messages"
      /\ whole[3].kind = "patch" /\ whole[4].kind = "snapshot"
  BY <1>1, <1>2, WholeFields
<1> HIDE DEF now, q, whole
<1>5. both \in Seq(Event)
  BY <1>1, <1>4
<1>6. /\ Len(q) \in Nat /\ DOMAIN q = 1 .. Len(q)
      /\ DOMAIN both = 1 .. Len(whole) + Len(q)
      /\ \A i \in 1 .. Len(whole) : both[i] = whole[i]
      /\ \A i \in DOMAIN both : i > Len(whole) => i - Len(whole) \in DOMAIN q
                                                /\ both[i] = q[i - Len(whole)]
  BY <1>1, <1>4, Joined
<1> HIDE DEF both
<1>7. /\ DOMAIN both = 1 .. 4 + Len(q)
      /\ \A i \in 1 .. 4 : both[i] = whole[i]
      /\ \A i \in DOMAIN both : i \notin 1 .. 4 => i - 4 \in DOMAIN q /\ both[i] = q[i - 4]
  BY <1>4, <1>6
<1>8. ASSUME NEW i \in DOMAIN q PROVE i + 4 \in DOMAIN both /\ both[i + 4] = q[i]
  <2>1. PICK l \in DOMAIN both : l = i + 4 /\ l \notin 1 .. 4 /\ l - 4 = i
    BY <1>6, <1>7
  <2>2. both[l] = q[l - 4]
    BY <1>7, <2>1
  <2> QED
    BY <2>1, <2>2
<1>9. /\ \A i \in 1 .. 4 : both[i].of = now /\ both[i].first
      /\ both[1].kind = "session" /\ both[2].kind = "messages"
      /\ both[3].kind = "patch" /\ both[4].kind = "snapshot"
  BY <1>4, <1>7
<1> QED
  BY <1>1, <1>2, <1>3, <1>5, <1>6, <1>7, <1>8, <1>9 DEF now, q

LEMMA StreamOpened ==
  ASSUME PageInv, StreamInv, OpenStream
  PROVE  StreamInv'
<1> DEFINE now == server[page.key]
           q == link.inbox
           both == link'.inbox
<1>1. /\ page.key \in Session /\ now \in ServerSession /\ link.stage = "join" /\ UNCHANGED <<server, page>>
      /\ link'.stage = "open" /\ link'.sig = now /\ Len(q) \in Nat
      /\ DOMAIN q = 1 .. Len(q) /\ DOMAIN both = 1 .. 4 + Len(q)
      /\ \A i \in 1 .. 4 : both[i].of = now
      /\ both[1].kind = "session" /\ both[2].kind = "messages"
      /\ both[3].kind = "patch" /\ both[4].kind = "snapshot"
      /\ \A i \in DOMAIN both : i \notin 1 .. 4 => i - 4 \in DOMAIN q /\ both[i] = q[i - 4]
      /\ \A i \in DOMAIN q : i + 4 \in DOMAIN both /\ both[i + 4] = q[i]
  BY OpenedFields
<1>2. Told(q, now) /\ \A i \in DOMAIN q : ~q[i].first
  BY <1>1 DEF StreamInv, Listening
<1> HIDE DEF now, q, both
<1>3. Past(now, now)
  BY <1>1, PastSelf
<1>4. \A i \in DOMAIN both : Past(both[i].of, now)
  BY <1>1, <1>2, <1>3 DEF Told
<1>5. ASSUME now.status \in Ended, NEW i \in DOMAIN both, TellsSession(both[i]), both[i].of # now
      PROVE  \E j \in DOMAIN both : i < j /\ TellsSession(both[j]) /\ both[j].of = now
  <2>1. i \notin 1 .. 4 /\ i \in Nat
    BY <1>1, <1>5
  <2>2. i - 4 \in DOMAIN q /\ both[i] = q[i - 4]
    BY <1>1, <2>1
  <2>3. PICK j \in DOMAIN q : i - 4 < j /\ TellsSession(q[j]) /\ q[j].of = now
    BY <1>2, <1>5, <2>2 DEF Told
  <2>4. j + 4 \in DOMAIN both /\ both[j + 4] = q[j] /\ i < j + 4
    BY <1>1, <2>1, <2>3
  <2> QED
    BY <2>3, <2>4
<1>6. ASSUME NEW i \in DOMAIN both, TellsSession(both[i]), both[i].first
      PROVE  i = 1 /\ both[i].of = now
  <2>1. i \in 1 .. 4
    BY <1>1, <1>2, <1>6
  <2>2. i = 1 \/ i = 2 \/ i = 3 \/ i = 4
    BY <2>1
  <2> QED
    BY <1>1, <1>6, <2>1, <2>2 DEF TellsSession
<1>7. Told(both, now)
  BY <1>4, <1>5 DEF Told
<1> QED
  BY <1>1, <1>3, <1>6, <1>7, PageAssumption DEF StreamInv, Listening, now, both

(* An event keeps the revision or brings its own.                          *)
LEMMA RevisionShown ==
  ASSUME NEW p, NEW o, PageOf(p, o), p.key \in Session, NEW m, EventOf(m, p.flow, o)
  PROVE  /\ Handled(p, m).rev \in {p.rev, m.of.rev}
         /\ ~NeedsResync(p, m) /\ m.kind \in {"session", "messages"} => Handled(p, m).rev = p.rev
<1>1. CASE NeedsResync(p, m)
  <2>1. Handled(p, m) = Resync(p)
    BY <1>1 DEF Handled, NeedsResync
  <2>2. Resync(p).rev = p.rev
    BY ResyncFields
  <2> QED
    BY <1>1, <2>1, <2>2
<1>2. CASE ~NeedsResync(p, m) /\ m.kind = "session"
  <2>1. Handled(p, m) = OnSession(p, m)
    BY <1>2 DEF Handled
  <2>2. OnSession(p, m).rev = p.rev
    BY SessionEventFields
  <2> QED
    BY <2>1, <2>2
<1>3. CASE ~NeedsResync(p, m) /\ m.kind = "messages"
  <2>1. Handled(p, m) = OnMessages(p, m)
    BY <1>3 DEF Handled
  <2>2. p \in Page
    BY DEF PageOf
  <2>3. OnMessages(p, m).rev = p.rev
    BY <2>2, MessageFields
  <2> QED
    BY <2>1, <2>3
<1>4. CASE ~NeedsResync(p, m) /\ m.kind \notin {"session", "messages"}
  <2>1. Handled(p, m) = OnNodes(p, m)
    BY <1>4 DEF Handled
  <2>2. OnNodes(p, m).rev \in {p.rev, m.of.rev}
    BY NodeFields
  <2> QED
    BY <1>4, <2>1, <2>2
<1> QED
  BY <1>1, <1>2, <1>3, <1>4

(* The stream after an event: the rest is still to come.                   *)
LEMMA LinkAfterFields ==
  ASSUME link \in Link, link.inbox # << >>, NEW m \in Event
  PROVE  LET l == LinkAfter(m)
             fresh == Forwards(m) /\ ~m.first IN
         /\ l.stage = link.stage /\ l.inbox = Tail(link.inbox)
         /\ l.sig = IF m.kind = "session" /\ fresh THEN m.of ELSE link.sig
         /\ l.seen.rev = IF \/ m.kind = "patch" /\ fresh
                            \/ m.kind = "snapshot" /\ m.of.rev >= link.seen.rev
                         THEN m.of.rev ELSE link.seen.rev
         /\ l.seen.nodes = IF m.kind = "snapshot" /\ m.of.rev >= link.seen.rev
                           THEN m.of.nodes ELSE link.seen.nodes
<1> DEFINE sent == [link EXCEPT !.inbox = Tail(@)]
           fresh == Forwards(m) /\ ~m.first
           l == LinkAfter(m)
           a == [sent EXCEPT !.sig = m.of, !.drain = @ \/ m.of.status \in Ended]
           b == [sent EXCEPT !.seen.lines = m.of.lines]
           d == [sent EXCEPT !.seen.rev = m.of.rev]
           e == [sent EXCEPT !.seen.rev = m.of.rev, !.seen.nodes = m.of.nodes]
           Rest(x) == x.stage = link.stage /\ x.inbox = Tail(link.inbox)
<1>1. link.seen \in ServerSession
  BY DEF Link
<1>2. /\ Rest(sent) /\ sent.seen = link.seen /\ sent.sig = link.sig
      /\ DOMAIN sent = {"stage", "inbox", "seen", "sig", "drain"}
  BY DEF Link
<1>3. /\ m.kind = "session" => l = IF fresh THEN a ELSE sent
      /\ m.kind = "messages" => l = IF fresh THEN b ELSE sent
      /\ m.kind = "patch" => l = IF fresh THEN d ELSE sent
      /\ m.kind = "snapshot" => l = IF m.of.rev >= link.seen.rev THEN e ELSE sent
  BY DEF LinkAfter
<1>4. m.kind \in {"session", "messages", "patch", "snapshot"}
  BY DEF Event
<1> HIDE DEF sent, l, fresh
<1>5. Rest(a) /\ a.seen = sent.seen /\ a.sig = m.of
  BY <1>2
<1>6. Rest(b) /\ b.seen = [sent.seen EXCEPT !.lines = m.of.lines] /\ b.sig = sent.sig
  BY <1>2
<1>7. Rest(d) /\ d.seen = [sent.seen EXCEPT !.rev = m.of.rev] /\ d.sig = sent.sig
  BY <1>2
<1>8. Rest(e) /\ e.seen = [sent.seen EXCEPT !.rev = m.of.rev, !.nodes = m.of.nodes] /\ e.sig = sent.sig
  BY <1>2
<1> HIDE DEF a, b, d, e, Rest
<1>9. \A v \in ServerSession :
        /\ [v EXCEPT !.lines = m.of.lines].rev = v.rev /\ [v EXCEPT !.lines = m.of.lines].nodes = v.nodes
        /\ [v EXCEPT !.rev = m.of.rev].rev = m.of.rev /\ [v EXCEPT !.rev = m.of.rev].nodes = v.nodes
        /\ [v EXCEPT !.rev = m.of.rev, !.nodes = m.of.nodes].rev = m.of.rev
        /\ [v EXCEPT !.rev = m.of.rev, !.nodes = m.of.nodes].nodes = m.of.nodes
  BY DEF ServerSession
<1>10. /\ a.seen.rev = link.seen.rev /\ a.seen.nodes = link.seen.nodes
       /\ b.seen.rev = link.seen.rev /\ b.seen.nodes = link.seen.nodes
       /\ d.seen.rev = m.of.rev /\ d.seen.nodes = link.seen.nodes
       /\ e.seen.rev = m.of.rev /\ e.seen.nodes = m.of.nodes
  BY <1>1, <1>2, <1>5, <1>6, <1>7, <1>8, <1>9
<1>11. CASE l = sent /\ (IF m.kind = "snapshot" THEN ~(m.of.rev >= link.seen.rev) ELSE ~fresh)
  BY <1>2, <1>11 DEF Rest, l, fresh
<1>12. CASE l = a /\ m.kind = "session" /\ fresh
  BY <1>2, <1>5, <1>10, <1>12 DEF Rest, l, fresh
<1>13. CASE l = b /\ m.kind = "messages" /\ fresh
  BY <1>2, <1>6, <1>10, <1>13 DEF Rest, l, fresh
<1>14. CASE l = d /\ m.kind = "patch" /\ fresh
  BY <1>2, <1>7, <1>10, <1>14 DEF Rest, l, fresh
<1>15. CASE l = e /\ m.kind = "snapshot" /\ m.of.rev >= link.seen.rev
  BY <1>2, <1>8, <1>10, <1>15 DEF Rest, l, fresh
<1> QED
  BY <1>3, <1>4, <1>11, <1>12, <1>13, <1>14, <1>15

LEMMA StreamDelivered ==
  ASSUME PageInv, StreamInv, Deliver
  PROVE  StreamInv'
<1> DEFINE m == Head(link.inbox)
           now == server[page.key]
           rest == Tail(link.inbox)
<1>1. /\ link.stage = "open" /\ link.inbox # << >> /\ page.key \in Session /\ PageOf(page, owner)
      /\ EventOf(m, page.flow, owner) /\ m \in Event /\ link \in Link /\ link.inbox \in Seq(Event)
      /\ server' = server /\ m = link.inbox[1] /\ 1 \in DOMAIN link.inbox
  BY DEF Deliver, PageInv, PageOf, Page, Link, EventOf
<1>2. /\ page' = IF Forwards(m) THEN Handled(page, m) ELSE page
      /\ link' = IF (Forwards(m) /\ NeedsResync(page, m)) \/ Drained(m) THEN Linked("wait") ELSE LinkAfter(m)
  BY DEF Deliver
<1> HIDE DEF m, now, rest
<1>3. Told(link.inbox, now) /\ Past(m.of, now) /\ Past(link.sig, now)
  BY <1>1 DEF StreamInv, Listening, Told, now
<1>4. page'.key = page.key /\ page'.rev \in {page.rev, m.of.rev}
  BY <1>1, <1>2, RevisionShown, EventShown
<1>5. page'.rev <= now.rev
  BY <1>1, <1>3, <1>4, PageAssumption DEF StreamInv, Past, now
<1>6. CASE link' = Linked("wait")
  BY <1>1, <1>4, <1>5, <1>6, PageAssumption DEF StreamInv, Listening, Linked, now
<1>7. CASE link' = LinkAfter(m)
  <2>1. link'.stage = "open" /\ link'.inbox = rest /\ link'.sig \in {link.sig, m.of}
    BY <1>1, <1>7, LinkAfterFields DEF rest
  <2>2. Told(rest, now)
    BY <1>1, <1>3, ToldTail DEF rest
  <2>3. \A i \in DOMAIN rest : ~(TellsSession(rest[i]) /\ rest[i].first)
    <3>1. \A i \in DOMAIN rest : i + 1 \in DOMAIN link.inbox /\ rest[i] = link.inbox[i + 1] /\ i \in Nat /\ i # 0
      BY <1>1, TailOf DEF rest
    <3>2. \A i \in DOMAIN rest : i + 1 # 1
      BY <3>1
    <3> QED
      BY <1>1, <3>1, <3>2 DEF StreamInv
  <2> QED
    BY <1>1, <1>3, <1>4, <1>5, <2>1, <2>2, <2>3, PageAssumption DEF StreamInv, Listening, now
<1> QED
  BY <1>2, <1>6, <1>7

(* The page keeps what it knows, or knows nothing; a stream that is new    *)
(* has told nothing.                                                       *)
LEMMA StreamMoved ==
  ASSUME PageInv, StreamInv, UNCHANGED server, page'.key \in Session \cup {None},
         page'.rev = -1 \/ (page'.key = page.key /\ page'.rev = page.rev),
         \/ link' = link /\ page'.key = page.key
         \/ link'.stage # "open" /\ link'.inbox = << >>
  PROVE  StreamInv'
<1>1. \A s \in Session : server[s].rev \in Nat
  BY DEF PageInv, ServerSession
<1>2. CASE link' = link /\ page'.key = page.key
  BY <1>1, <1>2, PageAssumption DEF StreamInv, Listening
<1>3. CASE link'.stage # "open" /\ link'.inbox = << >>
  <2>1. Told(link'.inbox, server'[page'.key])
    BY <1>3 DEF Told
  <2> QED
    BY <1>1, <1>3, <2>1, PageAssumption DEF StreamInv, Listening
<1> QED
  BY <1>2, <1>3

LEMMA RequestsInit == Init => RequestsInv
  BY DEF Init, RequestsInv

LEMMA StreamInit == Init => StreamInv
<1> SUFFICES ASSUME Init PROVE StreamInv
  OBVIOUS
<1>1. page.key = None /\ page.rev = -1
  BY DEF Init, Restored, NothingKept
<1>2. link.stage = "off"
  BY DEF Init, Linked
<1> QED
  BY <1>1, <1>2 DEF StreamInv, Listening

(* A page keeps its revision with its key.                                 *)
LEMMA KeyedRevision ==
  ASSUME NEW p \in Page, NEW key
  PROVE  WithKey(p, key).rev = -1 \/ (key = p.key /\ WithKey(p, key).rev = p.rev)
  BY KeyFields

LEMMA StreamAnswered ==
  ASSUME PageInv, StreamInv, Answer
  PROVE  StreamInv'
<1>1. PICK c \in calls : AnswerGenerate(c) \/ AnswerStop(c)
  BY DEF Answer
<1>2. page \in Page /\ PageOf(page, owner) /\ server' = server /\ page.key \in Session \cup {None}
      /\ c.key \in Session
  BY <1>1 DEF AnswerGenerate, AnswerStop, PageInv, PageOf, CallOf, Call, Page
<1>3. CASE AnswerStop(c)
  <2> DEFINE q == [page EXCEPT !.status = "stopped", !.planning = FALSE, !.blocked = FALSE, !.stopping = FALSE]
             r == [page EXCEPT !.stopping = FALSE]
  <2>1. q.key = page.key /\ q.rev = page.rev /\ r.key = page.key /\ r.rev = page.rev
    BY <1>2 DEF Page
  <2>2. (page' = q \/ page' = r) /\ link' = link
    BY <1>3 DEF AnswerStop
  <2> HIDE DEF q, r
  <2> QED
    BY <1>2, <2>1, <2>2, StreamMoved
<1>4. CASE AnswerGenerate(c)
  <2>1. CASE StillAwaited(c) /\ c.ok
    <3> DEFINE keyed == WithKey(page, c.key)
               q == [keyed EXCEPT !.pending = 0]
    <3>1. page' = q
      BY <1>4, <2>1 DEF AnswerGenerate, PlanAnswered
    <3>2. keyed \in Page /\ keyed.key = c.key
      BY <1>2, KeyChanges DEF PageOf
    <3>3. keyed.rev = -1 \/ (c.key = page.key /\ keyed.rev = page.rev)
      BY <1>2, KeyedRevision
    <3> HIDE DEF keyed
    <3>4. q.key = keyed.key /\ q.rev = keyed.rev
      BY <3>2 DEF Page
    <3> HIDE DEF q
    <3>5. link' = IF c.key = page.key THEN link ELSE LinkFor(c.key)
      BY <1>4, <3>1, <3>2, <3>4 DEF AnswerGenerate, Relink
    <3>6. LinkFor(c.key).stage # "open" /\ LinkFor(c.key).inbox = << >>
      BY DEF LinkFor, Linked
    <3> QED
      BY <1>2, <3>1, <3>2, <3>3, <3>4, <3>5, <3>6, StreamMoved
  <2>2. CASE StillAwaited(c) /\ ~c.ok
    <3> DEFINE w == BlocksForAWhile(page)
               q == [w EXCEPT !.planning = FALSE, !.status = "failed", !.stopping = FALSE, !.pending = 0]
    <3>1. page' = q
      BY <1>4, <2>2 DEF AnswerGenerate, PlanFails
    <3>2. w \in Page /\ w.key = page.key /\ w.rev = page.rev
      BY <1>2, Blocked, BlockedFields DEF PageOf
    <3> HIDE DEF w
    <3>3. q.key = page.key /\ q.rev = page.rev
      BY <3>2 DEF Page
    <3> HIDE DEF q
    <3>4. link' = link
      BY <1>4, <3>1, <3>3 DEF AnswerGenerate, Relink
    <3> QED
      BY <1>2, <3>1, <3>3, <3>4, StreamMoved
  <2>3. CASE ~StillAwaited(c)
    <3>1. page' = page
      BY <1>4, <2>3 DEF AnswerGenerate
    <3>2. link' = link
      BY <1>4, <3>1 DEF AnswerGenerate, Relink
    <3> QED
      BY <1>2, <3>1, <3>2, StreamMoved
  <2> QED
    BY <2>1, <2>2, <2>3
<1> QED
  BY <1>1, <1>3, <1>4

LEMMA StreamUser ==
  ASSUME PageInv, StreamInv, User
  PROVE  StreamInv'
<1>1. PageOf(page, owner) /\ page \in Page /\ page.key \in Session \cup {None} /\ server' = server
  BY DEF PageInv, PageOf, Page, User, Prompt, Stop, Reload, SwitchFlow
<1>0. \A key : LinkFor(key).stage # "open" /\ LinkFor(key).inbox = << >>
  BY DEF LinkFor, Linked
<1>2. CASE Prompt
  <2> DEFINE s == SessionForPrompt(page)
             keyed == WithKey(page, s)
             waits == Waits(keyed)
             q == [waits EXCEPT !.stopping = FALSE, !.pending = prompts + 1, !.chat = Append(@, "u")]
  <2>1. s \in Session
    BY <1>1, <1>2 DEF Prompt, SessionForPrompt, Page
  <2>2. page' = q /\ link' = IF s = page.key THEN link ELSE LinkFor(s)
    BY <1>2 DEF Prompt, PlanStarts, Relink
  <2> HIDE DEF s
  <2>3. PageOf(keyed, owner) /\ keyed.key = s
    BY <1>1, <2>1, KeyChanges
  <2>4. keyed.rev = -1 \/ (s = page.key /\ keyed.rev = page.rev)
    BY <1>1, KeyedRevision
  <2> HIDE DEF keyed
  <2>5. waits \in Page /\ waits.key = s /\ waits.rev = keyed.rev
    <3>1. keyed \in Page /\ PageOf(waits, owner)
      BY <2>3, Blocked DEF PageOf
    <3>2. waits \in Page
      BY <3>1 DEF PageOf
    <3> QED
      BY <2>3, <3>1, <3>2, BlockedFields
  <2> HIDE DEF waits
  <2>6. q.key = s /\ q.rev = keyed.rev
    BY <2>5 DEF Page
  <2> HIDE DEF q
  <2> QED
    BY <1>0, <1>1, <2>1, <2>2, <2>4, <2>6, StreamMoved
<1>3. CASE Stop
  <2> DEFINE emptied == IF page.key = None THEN ClearAllQueues(page) ELSE ClearQueue(page, page.key)
             free == Unblocks(emptied)
             q == [free EXCEPT !.pending = 0, !.status = "stopped", !.planning = FALSE,
                               !.stopping = page.key # None]
  <2>1. page' = q /\ link' = link
    BY <1>3 DEF Stop
  <2>2. PageOf(emptied, owner) /\ emptied \in Page
    BY <1>1, AllQueuesClear, QueueClears DEF PageOf
  <2>3. emptied.key = page.key /\ emptied.rev = page.rev
    BY <1>1, ClearFields, ClearAllFields
  <2> HIDE DEF emptied
  <2>4. free \in Page /\ free.key = page.key /\ free.rev = page.rev
    BY <2>2, <2>3, Blocked, BlockedFields DEF PageOf
  <2> HIDE DEF free
  <2>5. q.key = page.key /\ q.rev = page.rev
    BY <2>4 DEF Page
  <2> HIDE DEF q
  <2> QED
    BY <1>1, <2>1, <2>5, StreamMoved
<1>4. CASE Reload
  <2>1. page' = Restored(page.flow, Drafted(Leave(page))) /\ link' = LinkFor(page.key)
    BY <1>4 DEF Reload
  <2>2. page'.key = page.key /\ page'.rev = -1
    BY <2>1 DEF Restored, Drafted, Leave
  <2> QED
    BY <1>0, <1>1, <2>1, <2>2, StreamMoved
<1>5. CASE \E f \in Flow : SwitchFlow(f)
  <2>1. PICK f \in Flow : SwitchFlow(f)
    BY <1>5
  <2>2. page' = [Restored(f, kept[f]) EXCEPT !.resync = page.resync] /\ link' = LinkFor(kept[f].key)
    BY <2>1 DEF SwitchFlow
  <2>3. page'.key = kept[f].key /\ page'.rev = -1
    BY <2>2 DEF Restored
  <2>4. kept[f].key \in Session \cup {None}
    BY DEF PageInv, Kept
  <2> QED
    BY <1>0, <1>1, <2>2, <2>3, <2>4, StreamMoved
<1> QED
  BY <1>2, <1>3, <1>4, <1>5 DEF User

LEMMA StreamStep == PageInv /\ StreamInv /\ [Next]_vars => StreamInv'
<1> SUFFICES ASSUME PageInv, StreamInv, [Next]_vars PROVE StreamInv'
  OBVIOUS
<1>0. PageOf(page, owner) /\ page \in Page /\ page.key \in Session \cup {None}
  BY DEF PageInv, PageOf, Page
<1>1. CASE Planner \/ Serve
  BY <1>1, StreamServed
<1>2. CASE Answer
  BY <1>2, StreamAnswered
<1>3. CASE Stream
  <2>1. CASE ServeProbe \/ Subscribe
    <3>1. link'.stage # "open" /\ link'.inbox = << >> /\ UNCHANGED <<page, server>>
      BY <2>1 DEF ServeProbe, Subscribe, Linked
    <3> QED
      BY <1>0, <3>1, StreamMoved
  <2>2. CASE StaleSession
    <3>1. /\ link'.stage # "open" /\ link'.inbox = << >> /\ page' = WithKey(page, None) /\ server' = server
      BY <2>2 DEF StaleSession, LinkFor, Linked
    <3>2. page'.key = None
      BY <1>0, <3>1, KeyChanges
    <3>3. page'.rev = -1 \/ (page'.key = page.key /\ page'.rev = page.rev)
      BY <1>0, <3>1, <3>2, KeyedRevision
    <3> QED
      BY <3>1, <3>2, <3>3, StreamMoved
  <2>3. CASE OpenStream
    BY <2>3, StreamOpened
  <2>4. CASE Deliver
    BY <2>4, StreamDelivered
  <2> QED
    BY <1>3, <2>1, <2>2, <2>3, <2>4 DEF Stream
<1>4. CASE Timers
  <2>1. page'.key = page.key /\ page'.rev = page.rev /\ link' = link /\ server' = server
    BY <1>0, <1>4, PlayFields, BlockedFields DEF Timers, Step, Unlock
  <2> QED
    BY <1>0, <2>1, StreamMoved
<1>5. CASE User
  BY <1>5, StreamUser
<1>6. CASE Faults
  <2>1. CASE ServerCloses \/ Cut
    <3>1. link'.stage # "open" /\ link'.inbox = << >> /\ UNCHANGED <<page, server>>
      BY <2>1 DEF ServerCloses, Cut, Linked
    <3> QED
      BY <1>0, <3>1, StreamMoved
  <2>2. CASE \E c \in calls : LoseCall(c)
    BY <1>0, <2>2, StreamMoved DEF LoseCall
  <2> QED
    BY <1>6, <2>1, <2>2 DEF Faults
<1>7. CASE UNCHANGED vars
  BY <1>0, <1>7, StreamMoved DEF vars
<1> QED
  BY <1>1, <1>2, <1>3, <1>4, <1>5, <1>6, <1>7 DEF Next

-----------------------------------------------------------------------------
(* The end of a plan is seen.                                              *)

(* The page takes its plan for over, up to the answer of a stop.           *)
Over(p, asked) ==
  /\ p.status \in Ended /\ ~p.planning
  /\ p.stopping => \E c \in asked : c.kind = "stop" /\ c.heard

(* A request that has not reached its session, or whose failure will be    *)
(* heard.                                                                  *)
Waiting(c) == c.heard /\ (c.stage \in {"sent", "ensured"} \/ (c.stage = "done" /\ ~c.ok))

(* The page waits for the answer to this prompt.                           *)
Asked(c, p) ==
  /\ c.kind = "generate" /\ Waiting(c)
  /\ c.key = p.key /\ c.flow = p.flow /\ c.id = p.pending

(* The stream will still tell the session.                                 *)
Tells(q, sig) == \E i \in DOMAIN q : TellsSession(q[i]) /\ (q[i].first \/ q[i].of # sig)

(* Of a session that has ended the page knows it, or it will be told: by   *)
(* the stream, or because a prompt of its own is still to reach the        *)
(* session or to fail.                                                     *)
EndInv ==
  link.stage = "open" /\ server[page.key].status \in Ended =>
    \/ Over(page, calls)
    \/ \E c \in calls : Asked(c, page)
    \/ Tells(link.inbox, link.sig)

(* The same session, page and stream, and no request less.                 *)
LEMMA EndKept ==
  ASSUME EndInv, link' = link, page'.key = page.key, page'.flow = page.flow,
         server[page.key].status \notin Ended => server'[page.key].status \notin Ended,
         page'.pending = page.pending,
         page'.status = page.status, page'.planning = page.planning,
         page'.stopping => page.stopping,
         \A c \in calls : c.kind = "stop" /\ c.heard =>
           ~page'.stopping \/ \E d \in calls' : d.kind = "stop" /\ d.heard,
         \A c \in calls : Asked(c, page) => \E d \in calls' : Like(d, c) /\ Waiting(d)
  PROVE  EndInv'
<1> SUFFICES ASSUME link.stage = "open", server'[page.key].status \in Ended,
                    ~Over(page', calls'), ~\E c \in calls' : Asked(c, page')
             PROVE  Tells(link.inbox, link.sig)
  BY DEF EndInv
<1>1. server[page.key].status \in Ended
  OBVIOUS
<1>2. ~Over(page, calls)
  BY DEF Over
<1>3. ~\E c \in calls : Asked(c, page)
  <2> SUFFICES ASSUME NEW c \in calls, Asked(c, page) PROVE FALSE
    OBVIOUS
  <2>1. PICK d \in calls' : Like(d, c) /\ Waiting(d)
    OBVIOUS
  <2>2. Asked(d, page')
    BY <2>1 DEF Asked, Like
  <2> QED
    BY <2>1, <2>2
<1> QED
  BY <1>1, <1>2, <1>3 DEF EndInv

(* A request the page hears of stays until it is answered.                 *)
LEMMA RequestStays ==
  ASSUME PageInv, Planner \/ Serve \/ \E x \in calls : LoseCall(x), NEW c \in calls, c.heard
  PROVE  /\ \E d \in calls' : Like(d, c) /\ d.heard
         /\ c.kind = "generate" /\ Waiting(c) /\ ~Instruct(c) =>
              \E d \in calls' : Like(d, c) /\ Waiting(d)
<1>0. c \in Call /\ Like(c, c)
  BY LikeChanged DEF PageInv, CallOf
<1>1. CASE c \in calls'
  BY <1>0, <1>1
<1>2. CASE Ensure(c)
  <2> DEFINE d == [c EXCEPT !.stage = "ensured"]
  <2>1. Like(d, c) /\ d.heard /\ d.stage = "ensured"
    BY <1>0, LikeChanged DEF Call
  <2>2. d \in calls'
    BY <1>2 DEF Ensure, Replace
  <2> HIDE DEF d
  <2> QED
    BY <2>1, <2>2 DEF Waiting
<1>3. CASE Instruct(c)
  <2> DEFINE d == [c EXCEPT !.stage = "instructed"]
  <2>1. Like(d, c) /\ d.heard
    BY <1>0, LikeChanged DEF Call
  <2>2. d \in calls'
    BY <1>3 DEF Instruct, Replace
  <2> HIDE DEF d
  <2> QED
    BY <1>3, <2>1, <2>2
<1>4. CASE Dispatch(c) \/ ServeStop(c) \/ LoseCall(c)
  <2>1. PICK ok \in BOOLEAN : /\ Done(c, ok) \subseteq calls'
                              /\ LoseCall(c) => ~ok
    BY <1>4 DEF Dispatch, ServeStop, LoseCall
  <2> DEFINE d == [c EXCEPT !.stage = "done", !.ok = ok]
  <2>2. Like(d, c) /\ d.heard /\ d.stage = "done" /\ d.ok = ok
    BY <1>0, LikeChanged DEF Call
  <2>3. d \in calls'
    BY <2>1 DEF Done, Replace
  <2>4. ~LoseCall(c) => ~(c.kind = "generate" /\ Waiting(c))
    BY <1>4 DEF Dispatch, ServeStop, Waiting
  <2> HIDE DEF d
  <2> QED
    BY <2>1, <2>2, <2>3, <2>4 DEF Waiting
<1>5. CASE \E x \in calls : x # c /\ (Ensure(x) \/ Instruct(x) \/ Dispatch(x) \/ ServeStop(x) \/ LoseCall(x))
  <2>1. c \in calls'
    BY <1>5 DEF Ensure, Instruct, Dispatch, ServeStop, LoseCall, Done, Replace
  <2> QED
    BY <1>1, <2>1
<1>6. CASE Planner
  <2>1. calls' = calls
    BY <1>6 DEF Planner, PlannerPatches, PlannerSays, PlannerEnds
  <2> QED
    BY <1>1, <2>1
<1> QED
  BY <1>2, <1>3, <1>4, <1>5, <1>6 DEF Serve

(* Words are told to the stream that listens.                              *)
LEMMA SpeechTold ==
  ASSUME PageInv, StreamInv, link.stage = "open", page.key \in Session, NEW now, Speaks(page.key, now)
  PROVE  Tells(link'.inbox, link'.sig)
<1> DEFINE q == link.inbox
           more == Says(now, page.key)
           both == q \o more
<1>1. /\ now \in ServerSession /\ link \in Link /\ q \in Seq(Event) /\ link.sig \in ServerSession
      /\ server[page.key] \in ServerSession
  BY DEF PageInv, Link, Speaks
<1>2. link'.inbox = both /\ link'.sig = link.sig
  BY <1>1 DEF Speaks, Publish, Hears, Link
<1>3. /\ more \in Seq(Event) /\ Len(more) = 2 /\ more[2] = Published("session", now, << >>)
  BY <1>1, SpeechEvents
<1>4. now # link.sig
  <2>1. Len(link.sig.lines) <= Len(server[page.key].lines)
    BY DEF StreamInv, Past
  <2>2. Len(now.lines) = Len(server[page.key].lines) + 1
    BY DEF Speaks
  <2>3. Len(server[page.key].lines) \in Nat /\ Len(link.sig.lines) \in Nat
    BY <1>1 DEF ServerSession
  <2> QED
    BY <2>1, <2>2, <2>3
<1> HIDE DEF more
<1>5. Len(q) + 2 \in DOMAIN both /\ both[Len(q) + 2] = more[2]
  <2>1. /\ DOMAIN both = 1 .. Len(q) + 2 /\ Len(q) \in Nat
        /\ \A i \in DOMAIN both : i > Len(q) => both[i] = more[i - Len(q)]
    <3>1. q \in Seq(Event) /\ more \in Seq(Event)
      BY <1>1, <1>3
    <3>2. Len(q) \in Nat
      BY <3>1
    <3> HIDE DEF q
    <3>3. /\ DOMAIN both = 1 .. Len(q) + Len(more)
          /\ \A i \in DOMAIN both : i > Len(q) => i - Len(q) \in DOMAIN more /\ both[i] = more[i - Len(q)]
      BY <3>1, Joined
    <3> QED
      BY <1>3, <3>2, <3>3
  <2> HIDE DEF both
  <2>2. PICK l \in DOMAIN both : l = Len(q) + 2 /\ l > Len(q) /\ l - Len(q) = 2
    BY <2>1
  <2>3. both[l] = more[l - Len(q)]
    BY <2>1, <2>2
  <2> QED
    BY <2>2, <2>3
<1> HIDE DEF both
<1>6. TellsSession(more[2]) /\ more[2].of = now
  BY <1>3 DEF TellsSession, Published
<1> QED
  BY <1>2, <1>4, <1>5, <1>6 DEF Tells

LEMMA EndServed ==
  ASSUME PageInv, StreamInv, RequestsInv, EndInv, Planner \/ Serve
  PROVE  EndInv'
<1> DEFINE s == page.key
           old == server[s]
           now == server'[s]
<1>1. page' = page /\ PageInv'
  <2>1. page' = page
    BY ServerActs
  <2> QED
    BY <2>1, PageStep DEF Next
<1> SUFFICES ASSUME link'.stage = "open", now.status \in Ended PROVE EndInv'
  BY <1>1 DEF EndInv
<1>2. s \in Session
  BY <1>1 DEF PageInv, PageOf, Page
<1>3. link.stage = "open"
  <2>1. \E events \in Seq(Event) : link' = link \/ Publish(s, events)
    <3>1. ASSUME Speaks(s, now) PROVE \E events \in Seq(Event) : Publish(s, events)
      BY <3>1, SpeechEvents DEF Speaks
    <3>2. ASSUME NEW op, Patches(s, now, op) PROVE \E events \in Seq(Event) : Publish(s, events)
      BY <3>2, PatchEventsType DEF Patches
    <3>3. << >> \in Seq(Event)
      OBVIOUS
    <3> QED
      BY <1>2, <3>1, <3>2, <3>3, ServerTells
  <2> QED
    BY <2>1, PublishAppends
<1>4. old \in ServerSession /\ now \in ServerSession /\ old.status # "none"
  BY <1>1, <1>2, <1>3 DEF PageInv
<1>5. CASE Speaks(s, now)
  BY <1>1, <1>2, <1>3, <1>5, SpeechTold DEF EndInv
<1>6. CASE \E op : Patches(s, now, op)
  BY <1>6 DEF Patches, Ended
<1>7. CASE link' = link /\ (now = old \/ \E c \in calls : Ensure(c) /\ c.key = s)
  <2>1. now.lines = old.lines /\ now.status = old.status
    <3>1. ASSUME NEW c \in calls, Ensure(c), c.key = s PROVE now.lines = old.lines /\ now.status = old.status
      <4>1. \A x \in ServerSession : [x EXCEPT !.nodes = c.nodes].status = x.status /\ [x EXCEPT !.nodes = c.nodes].lines = x.lines
        BY DEF ServerSession
      <4>2. now = old \/ now = [old EXCEPT !.nodes = c.nodes]
        BY <1>2, <1>4, <3>1 DEF Ensure, PageInv
      <4> QED
        BY <1>4, <4>1, <4>2
    <3> QED
      BY <1>7, <3>1
  <2>2. ASSUME NEW c \in calls, Asked(c, page) PROVE ~Instruct(c)
    <3> SUFFICES ASSUME Instruct(c) PROVE FALSE
      OBVIOUS
    <3> DEFINE v == [old EXCEPT !.lines = Append(old.lines, "u")]
    <3>1. c.key = s /\ server' = [server EXCEPT ![s] = v]
      BY <1>4, <2>2 DEF Instruct, Asked, ServerSession
    <3>2. now = v
      BY <1>2, <3>1 DEF PageInv
    <3>3. v.lines = Append(old.lines, "u") /\ old.lines \in Seq(Author)
      BY <1>4 DEF ServerSession
    <3>4. Len(v.lines) = Len(old.lines) + 1 /\ Len(old.lines) \in Nat
      BY <3>3
    <3> QED
      BY <2>1, <3>2, <3>4
  <2>3. ASSUME NEW c \in calls, Asked(c, page) PROVE \E d \in calls' : Like(d, c) /\ Waiting(d)
    BY <2>2, <2>3, RequestStays DEF Asked, Waiting
  <2>4. ASSUME NEW c \in calls, c.kind = "stop", c.heard PROVE \E d \in calls' : d.kind = "stop" /\ d.heard
    BY <2>4, RequestStays DEF Like
  <2> QED
    BY <1>1, <1>7, <2>1, <2>3, <2>4, EndKept
<1> QED
  BY <1>2, <1>5, <1>6, <1>7, ServerTells

LEMMA EndOpened ==
  ASSUME PageInv, OpenStream
  PROVE  EndInv'
<1>1. /\ DOMAIN link'.inbox = 1 .. 4 + Len(link.inbox) /\ Len(link.inbox) \in Nat
      /\ \A i \in 1 .. 4 : link'.inbox[i].first
      /\ link'.inbox[1].kind = "session"
  BY OpenedFields
<1>2. 1 \in DOMAIN link'.inbox /\ TellsSession(link'.inbox[1]) /\ link'.inbox[1].first
  BY <1>1 DEF TellsSession
<1> QED
  BY <1>2 DEF EndInv, Tells

(* Messages and nodes do not wake a plan that is over.                     *)
LEMMA EndUnmoved ==
  ASSUME NEW p, NEW o, PageOf(p, o), p.key \in Session, NEW m, EventOf(m, p.flow, o),
         ~NeedsResync(p, m), m.kind # "session"
  PROVE  LET q == Handled(p, m) IN
         /\ q.key = p.key /\ q.flow = p.flow /\ q.pending = p.pending /\ q.stopping = p.stopping
         /\ Terminal(p) => q.status = p.status /\ q.planning = p.planning
<1>1. p \in Page
  BY DEF PageOf
<1>2. Handled(p, m).key = p.key /\ Handled(p, m).flow = p.flow
  BY EventShown
<1>3. CASE m.kind = "messages"
  <2>1. Handled(p, m) = OnMessages(p, m)
    BY <1>3 DEF Handled
  <2> QED
    BY <1>1, <1>2, <2>1, MessageFields
<1>4. CASE m.kind # "messages"
  <2>1. Handled(p, m) = OnNodes(p, m)
    BY <1>4 DEF Handled
  <2> DEFINE q == OnNodes(p, m)
  <2>2. \/ q = p
        \/ /\ q.pending = p.pending /\ q.stopping = p.stopping
           /\ Terminal(p) => q.status = p.status /\ q.planning = p.planning
    BY NodeFields
  <2> HIDE DEF q
  <2>3. /\ q.pending = p.pending /\ q.stopping = p.stopping
        /\ Terminal(p) => q.status = p.status /\ q.planning = p.planning
    BY <2>2
  <2> QED
    BY <1>2, <2>1, <2>3 DEF q
<1> QED
  BY <1>3, <1>4

LEMMA EndDelivered ==
  ASSUME PageInv, StreamInv, EndInv, Deliver
  PROVE  EndInv'
<1> DEFINE m == Head(link.inbox)
           now == server[page.key]
           rest == Tail(link.inbox)
<1>1. /\ link.stage = "open" /\ link.inbox # << >> /\ page.key \in Session /\ PageOf(page, owner)
      /\ EventOf(m, page.flow, owner) /\ m \in Event /\ link \in Link /\ link.inbox \in Seq(Event)
      /\ UNCHANGED <<server, calls>> /\ m = link.inbox[1] /\ 1 \in DOMAIN link.inbox
  BY DEF Deliver, PageInv, PageOf, Page, Link, EventOf
<1>0. page.rev \in Int /\ m.of.rev \in Nat /\ now.rev \in Nat
  BY <1>1 DEF PageInv, PageOf, Page, EventOf, Event, ServerSession
<1>2. /\ page' = IF Forwards(m) THEN Handled(page, m) ELSE page
      /\ link' = IF (Forwards(m) /\ NeedsResync(page, m)) \/ Drained(m) THEN Linked("wait") ELSE LinkAfter(m)
  BY DEF Deliver
<1>3. \A i \in DOMAIN link.inbox : i \in Nat /\ (i # 1 => i - 1 \in DOMAIN rest /\ rest[i - 1] = link.inbox[i])
  BY <1>1, TailOf
<1>4. page'.key = page.key /\ page'.flow = page.flow
  <2>1. Handled(page, m).key = page.key /\ Handled(page, m).flow = page.flow
    BY <1>1, EventShown
  <2> QED
    BY <1>2, <2>1
<1> SUFFICES ASSUME link'.stage = "open", now.status \in Ended
             PROVE  Over(page', calls) \/ (\E c \in calls : Asked(c, page')) \/ Tells(link'.inbox, link'.sig)
  BY <1>1, <1>4 DEF EndInv
<1> HIDE DEF m, now, rest
<1>5. link' = LinkAfter(m) /\ (Forwards(m) => ~NeedsResync(page, m))
  BY <1>2 DEF Linked
<1>6. /\ link'.inbox = rest
      /\ link'.sig = IF m.kind = "session" /\ Forwards(m) /\ ~m.first THEN m.of ELSE link.sig
  BY <1>1, <1>5, LinkAfterFields DEF rest
<1>7. Over(page, calls) \/ (\E c \in calls : Asked(c, page)) \/ Tells(link.inbox, link.sig)
  BY <1>1 DEF EndInv, now
<1>8. ASSUME ~(TellsSession(m) /\ (m.first \/ m.of # link.sig)), Tells(link.inbox, link.sig), link'.sig = link.sig
      PROVE  Tells(link'.inbox, link'.sig)
  <2>1. PICK i \in DOMAIN link.inbox : TellsSession(link.inbox[i]) /\ (link.inbox[i].first \/ link.inbox[i].of # link.sig)
    BY <1>8 DEF Tells
  <2>2. i # 1
    BY <1>1, <1>8, <2>1
  <2>3. i - 1 \in DOMAIN rest /\ rest[i - 1] = link.inbox[i]
    BY <1>3, <2>2
  <2> QED
    BY <1>6, <1>8, <2>1, <2>3 DEF Tells
<1>9. CASE m.kind = "session" /\ Forwards(m) /\ m.of = now
  <2>1. Handled(page, m) = OnSession(page, m)
    BY <1>5, <1>9 DEF Handled
  <2>2. ~Old(page, m) /\ m.of.status # "planning"
    BY <1>0, <1>1, <1>9, PageAssumption DEF Old, StreamInv, now, Ended
  <2> DEFINE q == OnSession(page, m)
  <2>3. q.status = m.of.status /\ ~q.planning /\ ~q.stopping
    BY <1>1, <2>2, SessionEventFields
  <2> HIDE DEF q
  <2> QED
    BY <1>2, <1>9, <2>1, <2>3 DEF Over, q
<1>10. CASE m.kind = "session" /\ Forwards(m) /\ m.of # now
  <2>1. PICK j \in DOMAIN link.inbox : 1 < j /\ TellsSession(link.inbox[j]) /\ link.inbox[j].of = now
    BY <1>1, <1>10 DEF StreamInv, Listening, Told, TellsSession, now
  <2>2. j # 1
    BY <1>3, <2>1
  <2>3. j - 1 \in DOMAIN rest /\ rest[j - 1] = link.inbox[j]
    BY <1>3, <2>2
  <2>4. link'.sig = m.of
    BY <1>1, <1>6, <1>10 DEF StreamInv, TellsSession
  <2> QED
    BY <1>6, <1>10, <2>1, <2>3, <2>4 DEF Tells
<1>11. CASE ~Forwards(m)
  <2>1. page' = page /\ link'.sig = link.sig
    BY <1>2, <1>6, <1>11
  <2>2. ~(TellsSession(m) /\ (m.first \/ m.of # link.sig))
    BY <1>11 DEF TellsSession, Forwards
  <2> QED
    BY <1>7, <1>8, <2>1, <2>2
<1>12. CASE m.kind # "session" /\ Forwards(m)
  <2>1. /\ page'.pending = page.pending /\ page'.stopping = page.stopping
        /\ Terminal(page) => page'.status = page.status /\ page'.planning = page.planning
    <3>1. page' = Handled(page, m)
      BY <1>2, <1>12
    <3> QED
      BY <1>1, <1>5, <1>12, <3>1, EndUnmoved
  <2>2. link'.sig = link.sig /\ ~TellsSession(m)
    BY <1>6, <1>12 DEF TellsSession
  <2>3. Over(page, calls) => Over(page', calls)
    BY <2>1 DEF Over, Terminal
  <2>4. \A c \in calls : Asked(c, page) => Asked(c, page')
    BY <1>4, <2>1 DEF Asked
  <2> QED
    BY <1>7, <1>8, <2>2, <2>3, <2>4
<1> QED
  BY <1>9, <1>10, <1>11, <1>12

LEMMA EndAnswered ==
  ASSUME PageInv, RequestsInv, EndInv, Answer
  PROVE  EndInv'
<1>1. PICK c \in calls : AnswerGenerate(c) \/ AnswerStop(c)
  BY DEF Answer
<1>2. /\ page \in Page /\ PageOf(page, owner) /\ server' = server /\ calls' = calls \ {c}
      /\ c.key \in Session /\ \A d \in calls : Like(d, d)
  BY <1>1 DEF AnswerGenerate, AnswerStop, PageInv, PageOf, CallOf, Call, Like
<1>3. CASE AnswerStop(c)
  <2>1. CASE c.ok
    <3> DEFINE q == [page EXCEPT !.status = "stopped", !.planning = FALSE, !.blocked = FALSE, !.stopping = FALSE]
    <3>1. q.status = "stopped" /\ ~q.planning /\ ~q.stopping
      BY <1>2 DEF Page
    <3>2. page' = q
      BY <1>3, <2>1 DEF AnswerStop
    <3> HIDE DEF q
    <3> QED
      BY <3>1, <3>2 DEF EndInv, Over, Ended
  <2>2. CASE ~c.ok
    <3> DEFINE r == [page EXCEPT !.stopping = FALSE]
    <3>1. /\ r.key = page.key /\ r.flow = page.flow /\ r.pending = page.pending
          /\ r.status = page.status /\ r.planning = page.planning /\ ~r.stopping
      BY <1>2 DEF Page
    <3>2. page' = r /\ link' = link
      BY <1>3, <2>2 DEF AnswerStop
    <3> HIDE DEF r
    <3>3. ASSUME NEW d \in calls, Asked(d, page) PROVE d \in calls' /\ Like(d, d) /\ Waiting(d)
      BY <1>2, <1>3, <3>3 DEF Asked, AnswerStop
    <3> QED
      BY <1>2, <3>1, <3>2, <3>3, EndKept
  <2> QED
    BY <2>1, <2>2
<1>4. CASE AnswerGenerate(c)
  <2>0. ASSUME NEW d \in calls, d.kind = "stop" PROVE d \in calls'
    BY <1>2, <1>4, <2>0 DEF AnswerGenerate
  <2>1. CASE StillAwaited(c) /\ c.ok
    <3> DEFINE keyed == WithKey(page, c.key)
               q == [keyed EXCEPT !.pending = 0]
    <3>1. page' = q
      BY <1>4, <2>1 DEF AnswerGenerate, PlanAnswered
    <3>2. keyed \in Page /\ keyed.key = c.key
      <4>1. PageOf(keyed, owner) /\ keyed.key = c.key
        BY <1>2, KeyChanges
      <4> QED
        BY <4>1 DEF PageOf
    <3>3. c.key = page.key => keyed = page
      BY <1>2, KeyFields
    <3> HIDE DEF keyed
    <3>4. /\ q.key = keyed.key /\ q.flow = keyed.flow /\ q.status = keyed.status /\ q.planning = keyed.planning
          /\ q.stopping = keyed.stopping
      BY <3>2 DEF Page
    <3> HIDE DEF q
    <3>5. link' = IF c.key = page.key THEN link ELSE LinkFor(c.key)
      BY <1>4, <3>1, <3>2, <3>4 DEF AnswerGenerate, Relink
    <3>6. CASE c.key # page.key
      BY <3>5, <3>6 DEF LinkFor, Linked, EndInv
    <3>7. CASE c.key = page.key
      <4>1. \A d \in calls : ~Asked(d, page)
        <5> SUFFICES ASSUME NEW d \in calls, Asked(d, page) PROVE FALSE
          OBVIOUS
        <5>1. c.heard /\ d.heard /\ c.id = d.id /\ c.kind = "generate" /\ c.stage = "done" /\ d.kind = "generate"
          BY <1>4, <2>1 DEF AnswerGenerate, StillAwaited, RequestsInv, Asked, Waiting
        <5>2. c = d
          BY <5>1 DEF RequestsInv
        <5> QED
          BY <2>1, <5>1, <5>2 DEF Asked, Waiting
      <4>2. Over(page, calls) => Over(page', calls')
        BY <2>0, <3>1, <3>3, <3>4, <3>7 DEF Over
      <4>3. link' = link /\ page'.key = page.key
        BY <3>1, <3>3, <3>4, <3>5, <3>7
      <4> QED
        BY <1>2, <4>1, <4>2, <4>3 DEF EndInv
    <3> QED
      BY <3>6, <3>7
  <2>2. CASE StillAwaited(c) /\ ~c.ok
    <3> DEFINE w == BlocksForAWhile(page)
               q == [w EXCEPT !.planning = FALSE, !.status = "failed", !.stopping = FALSE, !.pending = 0]
    <3>1. page' = q
      BY <1>4, <2>2 DEF AnswerGenerate, PlanFails
    <3>2. w \in Page
      BY <1>2, Blocked DEF PageOf
    <3> HIDE DEF w
    <3>3. q.status = "failed" /\ ~q.planning /\ ~q.stopping
      BY <3>2 DEF Page
    <3> HIDE DEF q
    <3> QED
      BY <3>1, <3>3 DEF EndInv, Over, Ended
  <2>3. CASE ~StillAwaited(c)
    <3>1. page' = page
      BY <1>4, <2>3 DEF AnswerGenerate
    <3>2. link' = link
      BY <1>4, <3>1 DEF AnswerGenerate, Relink
    <3>3. ASSUME NEW d \in calls, Asked(d, page) PROVE d \in calls' /\ Like(d, d) /\ Waiting(d)
      BY <1>2, <2>3, <3>3 DEF Asked, StillAwaited
    <3> QED
      BY <1>2, <2>0, <3>1, <3>2, <3>3, EndKept
  <2> QED
    BY <2>1, <2>2, <2>3
<1> QED
  BY <1>1, <1>3, <1>4

LEMMA EndTimers ==
  ASSUME PageInv, EndInv, Timers
  PROVE  EndInv'
<1>1. /\ PageOf(page, owner) /\ page \in Page
      /\ UNCHANGED <<server, link, calls>> /\ \A c \in calls : Like(c, c)
  BY DEF PageInv, PageOf, Timers, Step, Unlock, Like
<1>2. page'.key = page.key /\ page'.flow = page.flow
  BY TimerSteps DEF Same
<1>3. /\ page'.pending = page.pending /\ page'.status = page.status /\ page'.planning = page.planning
      /\ page'.stopping = page.stopping
  BY <1>1, PlayFields, BlockedFields DEF Timers, Step, Unlock, Flags
<1>4. \A c \in calls : Asked(c, page) => c \in calls' /\ Like(c, c) /\ Waiting(c)
  BY <1>1 DEF Asked
<1> QED
  BY <1>1, <1>2, <1>3, <1>4, EndKept

LEMMA EndUser ==
  ASSUME PageInv, EndInv, User
  PROVE  EndInv'
<1>1. PageOf(page, owner) /\ page \in Page /\ \A key : LinkFor(key).stage # "open"
  BY DEF PageInv, PageOf, LinkFor, Linked
<1>2. CASE Prompt
  <2> DEFINE d == Request("generate", page'.key, prompts + 1, page.canvas)
  <2>1. d \in calls' /\ page'.flow = page.flow /\ page'.pending = prompts + 1
    BY <1>2, PromptSteps
  <2>2. Asked(d, page')
    BY <2>1 DEF Asked, Waiting, Request
  <2> HIDE DEF d
  <2> QED
    BY <2>1, <2>2 DEF EndInv
<1>3. CASE Stop
  <2> DEFINE emptied == IF page.key = None THEN ClearAllQueues(page) ELSE ClearQueue(page, page.key)
             free == Unblocks(emptied)
             q == [free EXCEPT !.pending = 0, !.status = "stopped", !.planning = FALSE,
                               !.stopping = page.key # None]
             d == Request("stop", page.key, 0, {})
  <2>1. page' = q /\ (page.key # None => d \in calls')
    BY <1>3 DEF Stop
  <2>2. PageOf(emptied, owner)
    BY <1>1, AllQueuesClear, QueueClears
  <2> HIDE DEF emptied
  <2>3. free \in Page
    BY <2>2, Blocked DEF PageOf
  <2> HIDE DEF free
  <2>4. q.status = "stopped" /\ ~q.planning /\ q.stopping = (page.key # None)
    BY <2>3 DEF Page
  <2>5. d.kind = "stop" /\ d.heard
    BY DEF Request
  <2> HIDE DEF q, d
  <2> QED
    BY <2>1, <2>4, <2>5 DEF EndInv, Over, Ended
<1>4. CASE Reload \/ \E f \in Flow : SwitchFlow(f)
  BY <1>1, <1>4 DEF Reload, SwitchFlow, EndInv
<1> QED
  BY <1>2, <1>3, <1>4 DEF User

LEMMA EndStep == PageInv /\ StreamInv /\ RequestsInv /\ EndInv /\ [Next]_vars => EndInv'
<1> SUFFICES ASSUME PageInv, StreamInv, RequestsInv, EndInv, [Next]_vars PROVE EndInv'
  OBVIOUS
<1>1. CASE Planner \/ Serve
  BY <1>1, EndServed
<1>2. CASE Answer
  BY <1>2, EndAnswered
<1>3. CASE Stream
  <2>1. CASE ServeProbe \/ StaleSession \/ Subscribe
    BY <2>1 DEF ServeProbe, StaleSession, Subscribe, Linked, LinkFor, EndInv
  <2>2. CASE OpenStream
    BY <2>2, EndOpened
  <2>3. CASE Deliver
    BY <2>3, EndDelivered
  <2> QED
    BY <1>3, <2>1, <2>2, <2>3 DEF Stream
<1>4. CASE Timers
  BY <1>4, EndTimers
<1>5. CASE User
  BY <1>5, EndUser
<1>6. CASE Faults
  <2>1. CASE ServerCloses \/ Cut
    BY <2>1 DEF ServerCloses, Cut, Linked, EndInv
  <2>2. CASE \E x \in calls : LoseCall(x)
    <3>1. UNCHANGED <<server, page, link>> /\ ~\E x \in calls : Instruct(x)
      <4>1. UNCHANGED <<server, page, link>>
        BY <2>2 DEF LoseCall
      <4>2. ASSUME NEW x \in calls, Instruct(x) PROVE FALSE
        <5> DEFINE old == server[x.key]
                   v == [old EXCEPT !.lines = Append(old.lines, "u")]
        <5>1. x.key \in Session /\ old \in ServerSession
          BY DEF PageInv, CallOf, Call
        <5>2. server' = [server EXCEPT ![x.key] = v]
          BY <4>2, <5>1 DEF Instruct, ServerSession
        <5>3. old = v
          BY <4>1, <5>1, <5>2 DEF PageInv
        <5>4. old.lines \in Seq(Author) /\ v.lines = Append(old.lines, "u")
          BY <5>1 DEF ServerSession
        <5>5. Len(v.lines) = Len(old.lines) + 1 /\ Len(old.lines) \in Nat
          BY <5>4
        <5> HIDE DEF v, old
        <5> QED
          BY <5>3, <5>5
      <4> QED
        BY <4>1, <4>2
    <3>2. ASSUME NEW c \in calls, Asked(c, page) PROVE \E d \in calls' : Like(d, c) /\ Waiting(d)
      BY <2>2, <3>1, <3>2, RequestStays DEF Asked, Waiting
    <3>3. ASSUME NEW c \in calls, c.kind = "stop", c.heard PROVE \E d \in calls' : d.kind = "stop" /\ d.heard
      BY <2>2, <3>3, RequestStays DEF Like
    <3> QED
      BY <3>1, <3>2, <3>3, EndKept
  <2> QED
    BY <1>6, <2>1, <2>2 DEF Faults
<1>7. CASE UNCHANGED vars
  BY <1>7 DEF vars, EndInv
<1> QED
  BY <1>1, <1>2, <1>3, <1>4, <1>5, <1>6, <1>7 DEF Next

(* A plan that has ended is not waited for: whatever was stopped, lost,    *)
(* cut off, left or restored, once the stream and the requests are through *)
(* no flag of the page holds the canvas                                    *)
(* (flowPlannerRealtimeEventUtils.ts, handleStopPlanning).                 *)
THEOREM EndsAreSeen == Spec => []EndIsSeen
<1>1. Init => EndInv
  BY DEF Init, EndInv, Linked
<1>2. EndInv => EndIsSeen
  <2> SUFFICES ASSUME EndInv, Quiet, server[page.key].status \in Ended PROVE ~Awaiting(page)
    BY DEF EndIsSeen
  <2>1. DOMAIN link.inbox = {}
    BY DEF Quiet
  <2>2. Over(page, calls)
    BY <2>1 DEF EndInv, Quiet, Tells
  <2> QED
    BY <2>2 DEF Over, Quiet, Awaiting, Ended
<1> DEFINE Inv == PageInv /\ StreamInv /\ RequestsInv /\ EndInv
<1>3. Init => Inv
  BY <1>1, PageInit, StreamInit, RequestsInit
<1>4. Inv /\ [Next]_vars => Inv'
  BY PageStep, StreamStep, RequestsStep, EndStep
<1>5. Inv => EndIsSeen
  BY <1>2
<1> HIDE DEF Inv
<1> QED
  BY <1>3, <1>4, <1>5, PTL DEF Spec

-----------------------------------------------------------------------------
(* The nodes of a plan.                                                    *)

(* The user's node, and what a session has planned up to a revision.       *)
Known(key, last) == {Own} \cup {n \in Node : n[1] = key /\ n[2] <= last}
KnownOps(key, last) == {o \in Operation : o.key = key /\ o.node \in Known(key, last)}
LastOf(key) == IF key = None THEN 0 ELSE server[key].rev

(* A page shows and queues its own session's plan only, and at most one    *)
(* snapshot waits.                                                         *)
PlanPage(p, last) ==
  /\ p.canvas \subseteq Known(p.key, last)
  /\ p.ops \in Seq(KnownOps(p.key, last))
  /\ \A w \in p.snaps : w[1] = p.key /\ w[2] \subseteq Known(p.key, last)
  /\ \A w, v \in p.snaps : w = v
  /\ p.flush \in {None, p.key}

PlanEvent(e, key, last) ==
  e.of.nodes \subseteq Known(key, last) /\ e.ops \in Seq(KnownOps(key, last))

(* A node is numbered by the revision that brought it.  Nothing is queued  *)
(* before the stream was asked for.                                        *)
NodesInv ==
  /\ PlanPage(page, LastOf(page.key))
  /\ link.stage \in {"off", "probe", "absent"} => page.ops = << >> /\ page.snaps = {}
  /\ link.stage = "absent" => page.canvas \subseteq {Own}
  /\ \A f \in Flow : kept[f].canvas \subseteq Known(kept[f].key, LastOf(kept[f].key))
  /\ \A s \in Session : server[s].nodes \subseteq Known(s, server[s].rev)
  /\ \A i \in DOMAIN link.inbox : PlanEvent(link.inbox[i], page.key, LastOf(page.key))
  /\ \A c \in calls : c.nodes \subseteq Known(c.key, LastOf(c.key))

LEMMA KnownGrows ==
  ASSUME NEW key, NEW last \in Int, NEW more \in Int, last <= more
  PROVE  Known(key, last) \subseteq Known(key, more) /\ Seq(KnownOps(key, last)) \subseteq Seq(KnownOps(key, more))
<1>1. \A n \in Node : n[2] \in Int
  BY PageAssumption DEF Node, Own
<1>2. Known(key, last) \subseteq Known(key, more)
  BY <1>1 DEF Known
<1>3. KnownOps(key, last) \subseteq KnownOps(key, more)
  BY <1>2 DEF KnownOps
<1>4. Seq(KnownOps(key, last)) \subseteq Seq(KnownOps(key, more))
  BY <1>3
<1> QED
  BY <1>2, <1>4

LEMMA NothingKnown ==
  /\ \A last : Known(None, last) = {Own} /\ KnownOps(None, last) = {}
  /\ \A s : Known(s, 0) = {Own}
<1>1. ASSUME NEW n \in Node, n # Own PROVE n[1] \in Session /\ n[2] \in 1 .. MaxTurn
  BY <1>1 DEF Node
<1>2. \A last : Known(None, last) = {Own}
  BY <1>1, PageAssumption DEF Known
<1>3. \A last : KnownOps(None, last) = {}
  BY PageAssumption DEF KnownOps, Operation
<1>4. \A s : Known(s, 0) = {Own}
  BY <1>1, PageAssumption DEF Known
<1> QED
  BY <1>2, <1>3, <1>4

LEMMA PlanGrows ==
  ASSUME NEW p, NEW last \in Int, NEW more \in Int, last <= more, PlanPage(p, last)
  PROVE  PlanPage(p, more)
<1>1. Known(p.key, last) \subseteq Known(p.key, more) /\ Seq(KnownOps(p.key, last)) \subseteq Seq(KnownOps(p.key, more))
  BY KnownGrows
<1>2. p.canvas \subseteq Known(p.key, more) /\ \A w \in p.snaps : w[2] \subseteq Known(p.key, more)
  BY <1>1 DEF PlanPage
<1>3. p.ops \in Seq(KnownOps(p.key, more))
  BY <1>1 DEF PlanPage
<1> QED
  BY <1>2, <1>3 DEF PlanPage

LEMMA EventKnown ==
  ASSUME NEW e, NEW key, NEW last \in Int, NEW more \in Int, last <= more, PlanEvent(e, key, last)
  PROVE  PlanEvent(e, key, more)
<1>1. Known(key, last) \subseteq Known(key, more) /\ Seq(KnownOps(key, last)) \subseteq Seq(KnownOps(key, more))
  BY KnownGrows
<1>2. e.of.nodes \subseteq Known(key, more)
  BY <1>1 DEF PlanEvent
<1>3. e.ops \in Seq(KnownOps(key, more))
  BY <1>1 DEF PlanEvent
<1> QED
  BY <1>2, <1>3 DEF PlanEvent

LEMMA QueuePlan ==
  ASSUME NEW p, NEW last, PlanPage(p, last), NEW q, Queue(q, p), q.key = p.key
  PROVE  PlanPage(q, last)
  BY DEF PlanPage, Queue

LEMMA PlanNext ==
  ASSUME NEW key, NEW last, NEW ops, ops \in Seq(KnownOps(key, last)), NEW snaps, \A w \in snaps : w[1] = key
  PROVE  NextFlush(ops, snaps) \in {None, key}
<1>1. CASE ops # << >>
  <2>1. Head(ops) \in KnownOps(key, last)
    BY <1>1
  <2> QED
    BY <1>1, <2>1 DEF NextFlush, KnownOps
<1>2. CASE ops = << >>
  BY <1>2 DEF NextFlush
<1> QED
  BY <1>1, <1>2

LEMMA PlanSnapshot ==
  ASSUME NEW p \in Page, NEW last, PlanPage(p, last), NEW s
  PROVE  PlanPage(ApplyPendingSnapshot(p, s), last)
<1> DEFINE q == ApplyPendingSnapshot(p, s)
<1>1. /\ q.ops = p.ops /\ q.flush = p.flush /\ q.key = p.key
      /\ q.snaps = SnapsBut(p, s)
      /\ q.canvas = p.canvas \/ \E w \in p.snaps : q.canvas = w[2]
  BY SnapshotFields
<1> HIDE DEF q
<1>2. q.snaps \subseteq p.snaps
  BY <1>1 DEF SnapsBut
<1>3. PlanPage(q, last)
  BY <1>1, <1>2 DEF PlanPage
<1> QED
  BY <1>3 DEF q

LEMMA PlanClears ==
  ASSUME NEW p \in Page, NEW last, PlanPage(p, last), NEW s
  PROVE  PlanPage(ClearQueue(p, s), last)
<1> DEFINE q == ClearQueue(p, s)
<1>1. /\ q.ops = OpsBut(p, s) /\ q.snaps = SnapsBut(p, s)
      /\ q.flush = IF p.flush \in {s, None} THEN NextFlush(OpsBut(p, s), SnapsBut(p, s)) ELSE p.flush
      /\ q.canvas = p.canvas /\ q.key = p.key
  BY ClearFields
<1>2. OpsBut(p, s) \in Seq(KnownOps(p.key, last))
  BY OpsButType DEF PlanPage
<1>3. SnapsBut(p, s) \subseteq p.snaps
  BY DEF SnapsBut
<1>4. NextFlush(OpsBut(p, s), SnapsBut(p, s)) \in {None, p.key}
  BY <1>2, <1>3, PlanNext DEF PlanPage
<1> HIDE DEF q
<1>5. q.flush \in {None, p.key}
  BY <1>1, <1>4 DEF PlanPage
<1>6. PlanPage(q, last)
  BY <1>1, <1>2, <1>3, <1>5 DEF PlanPage
<1> QED
  BY <1>6 DEF q

LEMMA PlanSession ==
  ASSUME NEW p, NEW o, PageOf(p, o), NEW last, PlanPage(p, last), NEW s
  PROVE  PlanPage(ClearSessionRuntime(p, s), last)
<1> DEFINE t == ApplyPendingSnapshot(p, s)
<1>1. p \in Page
  BY DEF PageOf
<1>2. PlanPage(t, last)
  BY <1>1, PlanSnapshot
<1>3. t \in Page /\ Queue(ClearSessionRuntime(p, s), ClearQueue(t, s)) /\ ClearSessionRuntime(p, s).key = p.key
  BY SessionFields
<1>4. t.key = p.key
  BY <1>1, SnapshotFields
<1> HIDE DEF t
<1>5. PlanPage(ClearQueue(t, s), last) /\ ClearQueue(t, s).key = t.key
  BY <1>2, <1>3, PlanClears, ClearFields
<1> QED
  BY <1>3, <1>4, <1>5, QueuePlan

LEMMA PlanEnqueues ==
  ASSUME NEW p \in Page, NEW last, PlanPage(p, last), NEW ops, ops \in Seq(KnownOps(p.key, last))
  PROVE  PlanPage(Enqueue(p, ops), last)
<1> DEFINE q == Enqueue(p, ops)
<1>1. /\ q.ops = p.ops \o ops /\ q.flush = (IF p.flush = None THEN p.key ELSE p.flush)
      /\ q.snaps = p.snaps /\ q.canvas = p.canvas /\ q.key = p.key
  BY EnqueueFields
<1>2. p.ops \o ops \in Seq(KnownOps(p.key, last))
  BY DEF PlanPage
<1> HIDE DEF q
<1>3. PlanPage(q, last)
  BY <1>1, <1>2 DEF PlanPage
<1> QED
  BY <1>3 DEF q

LEMMA PlanShown ==
  ASSUME NEW p \in Page, NEW last, PlanPage(p, last), NEW nodes, nodes \subseteq Known(p.key, last)
  PROVE  PlanPage(ApplyOrQueueSnapshot(p, p.key, nodes), last)
<1> DEFINE q == ApplyOrQueueSnapshot(p, p.key, nodes)
<1>1. /\ q.ops = p.ops /\ q.flush = p.flush
      /\ Busy(p) => q.snaps = SnapsBut(p, p.key) \cup {<<p.key, nodes>>} /\ q.canvas = p.canvas
      /\ ~Busy(p) => q.snaps = p.snaps /\ q.canvas = nodes
      /\ q.key = p.key
  BY ShownFields
<1> HIDE DEF q
<1>2. SnapsBut(p, p.key) = {}
  BY DEF SnapsBut, PlanPage
<1>3. q.snaps \in {p.snaps, {<<p.key, nodes>>}} /\ q.canvas \in {p.canvas, nodes}
  BY <1>1, <1>2
<1>4. PlanPage(q, last)
  BY <1>1, <1>3 DEF PlanPage
<1> QED
  BY <1>4 DEF q

LEMMA PlanPlays ==
  ASSUME NEW p, NEW o, PageOf(p, o), p.flush # None, NEW last, PlanPage(p, last)
  PROVE  PlanPage(Play(p), last)
<1> DEFINE s == p.flush
           i == NextOf(p, s)
           played == Played(p, i)
           through == ApplyPendingSnapshot(played, s)
<1>1. p \in Page /\ p.ops \in Seq(KnownOps(p.key, last)) /\ p.ops \in Seq(Operation)
  BY DEF PageOf, PlanPage, Page
<1>2. i \in 0 .. Len(p.ops) /\ (i # 0 => p.ops[i] \in KnownOps(p.key, last))
  BY <1>1, NextOfType
<1>3. /\ played.snaps = p.snaps /\ played.flush = p.flush /\ played.key = p.key
      /\ i = 0 => played.canvas = p.canvas /\ played.ops = p.ops
      /\ i # 0 => /\ played.ops = RemoveAt(p.ops, i)
                  /\ played.canvas = (IF p.ops[i].put THEN p.canvas \cup {p.ops[i].node}
                                      ELSE p.canvas \ {p.ops[i].node})
  BY <1>1, PlayedFields DEF Page
<1>4. played.ops \in Seq(KnownOps(p.key, last)) /\ played.canvas \subseteq Known(p.key, last)
  <2>1. CASE i = 0
    BY <1>1, <1>3, <2>1 DEF PlanPage
  <2>2. CASE i # 0
    <3>1. RemoveAt(p.ops, i) \in Seq(KnownOps(p.key, last))
      BY <1>1, <1>2, <2>2, RemoveAtType
    <3>2. p.ops[i].node \in Known(p.key, last)
      BY <1>2, <2>2 DEF KnownOps
    <3> QED
      BY <1>3, <2>2, <3>1, <3>2 DEF PlanPage
  <2> QED
    BY <2>1, <2>2
<1>5. /\ Play(p).key = p.key /\ played \in Page
      /\ NextOf(played, p.flush) # 0 => Play(p) = played
      /\ NextOf(played, p.flush) = 0 =>
           /\ Play(p).canvas = through.canvas /\ Play(p).ops = through.ops
           /\ Play(p).snaps = through.snaps
           /\ Play(p).flush = NextFlush(through.ops, through.snaps)
  BY PlayFields
<1> HIDE DEF i, played
<1>6. PlanPage(played, last)
  BY <1>3, <1>4 DEF PlanPage
<1>7. PlanPage(through, last) /\ through.key = played.key
  BY <1>5, <1>6, PlanSnapshot, SnapshotFields
<1> HIDE DEF through
<1>8. NextFlush(through.ops, through.snaps) \in {None, through.key}
  BY <1>7, PlanNext DEF PlanPage
<1>9. CASE NextOf(played, p.flush) # 0
  BY <1>5, <1>6, <1>9
<1>10. CASE NextOf(played, p.flush) = 0
  BY <1>3, <1>5, <1>7, <1>8, <1>10 DEF PlanPage
<1> QED
  BY <1>9, <1>10 DEF through

(* An event of the session leaves the page with that session's plan.       *)
LEMMA PlanHandled ==
  ASSUME NEW p, NEW o, PageOf(p, o), p.key \in Session, NEW m, EventOf(m, p.flow, o),
         NEW last, PlanPage(p, last), PlanEvent(m, p.key, last)
  PROVE  PlanPage(Handled(p, m), last)
<1>1. p \in Page
  BY DEF PageOf
<1>2. CASE NeedsResync(p, m)
  <2> DEFINE clear == ClearSessionRuntime(p, p.key)
  <2>1. Handled(p, m) = Resync(p)
    BY <1>2 DEF Handled, NeedsResync
  <2>2. PlanPage(clear, last) /\ clear.key = p.key
    BY PlanSession, SessionFields
  <2>3. Queue(Resync(p), clear) /\ Resync(p).key = p.key
    BY ResyncFields
  <2> HIDE DEF clear
  <2> QED
    BY <2>1, <2>2, <2>3, QueuePlan
<1>3. CASE ~NeedsResync(p, m) /\ m.kind = "session"
  <2> DEFINE q == OnSession(p, m)
  <2>1. Handled(p, m) = q
    BY <1>3 DEF Handled
  <2>2. /\ q.key = p.key
        /\ \/ q = p
           \/ Queue(q, p)
           \/ \E r : PageOf(r, o) /\ Queue(r, p) /\ r.key = p.key /\ q = ClearSessionRuntime(r, p.key)
    BY SessionEventFields
  <2> HIDE DEF q
  <2>3. ASSUME NEW r, PageOf(r, o), Queue(r, p), r.key = p.key PROVE PlanPage(ClearSessionRuntime(r, p.key), last)
    <3>1. PlanPage(r, last)
      BY <2>3, QueuePlan
    <3> QED
      BY <2>3, <3>1, PlanSession
  <2> QED
    BY <2>1, <2>2, <2>3, QueuePlan
<1>4. CASE ~NeedsResync(p, m) /\ m.kind = "messages"
  <2>1. Handled(p, m) = OnMessages(p, m)
    BY <1>4 DEF Handled
  <2>2. Queue(OnMessages(p, m), p) /\ OnMessages(p, m).key = p.key
    BY <1>1, MessageFields
  <2> QED
    BY <2>1, <2>2, QueuePlan
<1>5. CASE ~NeedsResync(p, m) /\ m.kind \notin {"session", "messages"}
  <2> DEFINE q == OnNodes(p, m)
  <2>1. Handled(p, m) = q
    BY <1>5 DEF Handled
  <2>2. /\ q.key = p.key
        /\ \/ q = p
           \/ \E k \in Page : /\ Queue(k, p) /\ k.key = p.key
                              /\ m.kind = "patch" => Queue(q, Enqueue(k, m.ops))
                              /\ m.kind # "patch" => Queue(q, ApplyOrQueueSnapshot(k, p.key, m.of.nodes))
    BY NodeFields
  <2> HIDE DEF q
  <2>3. ASSUME NEW k \in Page, Queue(k, p), k.key = p.key
        PROVE  /\ PlanPage(Enqueue(k, m.ops), last) /\ Enqueue(k, m.ops).key = p.key
               /\ PlanPage(ApplyOrQueueSnapshot(k, p.key, m.of.nodes), last)
               /\ ApplyOrQueueSnapshot(k, p.key, m.of.nodes).key = p.key
    <3>1. PlanPage(k, last)
      BY <2>3, QueuePlan
    <3>2. m.ops \in Seq(KnownOps(k.key, last)) /\ m.of.nodes \subseteq Known(k.key, last)
      BY <2>3 DEF PlanEvent
    <3>3. PlanPage(Enqueue(k, m.ops), last) /\ Enqueue(k, m.ops).key = k.key
      BY <3>1, <3>2, PlanEnqueues, EnqueueFields
    <3>4. PlanPage(ApplyOrQueueSnapshot(k, k.key, m.of.nodes), last)
      BY <3>1, <3>2, PlanShown
    <3>5. ApplyOrQueueSnapshot(k, k.key, m.of.nodes).key = k.key
      BY ShownFields
    <3> QED
      BY <2>3, <3>3, <3>4, <3>5
  <2>4. CASE q = p
    BY <2>1, <2>4
  <2>5. CASE q # p
    <3>1. PICK k \in Page : /\ Queue(k, p) /\ k.key = p.key
                            /\ m.kind = "patch" => Queue(q, Enqueue(k, m.ops))
                            /\ m.kind # "patch" => Queue(q, ApplyOrQueueSnapshot(k, p.key, m.of.nodes))
      BY <2>2, <2>5
    <3>2. PlanPage(q, last)
      BY <2>2, <2>3, <3>1, QueuePlan
    <3> QED
      BY <2>1, <3>2
  <2> QED
    BY <2>4, <2>5
<1> QED
  BY <1>2, <1>3, <1>4, <1>5

LEMMA NodesInit == Init => NodesInv
<1> SUFFICES ASSUME Init PROVE NodesInv
  OBVIOUS
<1>1. PICK f \in Flow, drawn \in SUBSET {Own} :
        page = Restored(f, [NothingKept EXCEPT !.canvas = drawn])
  BY DEF Init
<1>2. /\ page.canvas \subseteq {Own} /\ page.ops = << >> /\ page.snaps = {} /\ page.flush = None
      /\ page.key = None
  BY <1>1 DEF Restored, NothingKept
<1>3. \A key, last : Own \in Known(key, last) /\ << >> \in Seq(KnownOps(key, last))
  BY DEF Known
<1>4. PlanPage(page, LastOf(page.key))
  BY <1>2, <1>3 DEF PlanPage
<1>5. /\ \A g \in Flow : kept[g].canvas = {}
      /\ link.stage = "off" /\ link.inbox = << >> /\ calls = {} /\ \A s \in Session : server[s].nodes = {}
  BY DEF Init, NothingKept, Linked, NoSession
<1> QED
  BY <1>2, <1>4, <1>5 DEF NodesInv

(* What the routes make of a session's nodes and revision.                 *)
LEMMA EnsureFields ==
  ASSUME PageInv, NEW c \in calls, Ensure(c)
  PROVE  /\ c.key \in Session /\ \A s \in Session : s # c.key => server'[s] = server[s]
         /\ server'[c.key].rev = server[c.key].rev
         /\ \/ server'[c.key].nodes = c.nodes /\ server[c.key].rev = 0
            \/ server'[c.key] = server[c.key]
<1> DEFINE old == server[c.key]
           new == [NoSession EXCEPT !.status = "planning", !.nodes = c.nodes]
           set == [old EXCEPT !.nodes = c.nodes]
<1>1. c.key \in Session /\ old \in ServerSession /\ (old.status = "none" => old = NoSession)
  <2>1. c.key \in Session
    BY DEF PageInv, CallOf, Call
  <2> QED
    BY <2>1 DEF PageInv, SessionOf
<1>2. /\ \A s \in Session : s # c.key => server'[s] = server[s]
      /\ \/ old.status = "none" /\ server'[c.key] = new
         \/ old.rev = 0 /\ server'[c.key] = set
         \/ server'[c.key] = old
  BY <1>1 DEF Ensure, PageInv
<1>3. new.rev = 0 /\ new.nodes = c.nodes /\ NoSession.rev = 0
  BY DEF NoSession
<1>4. set.rev = old.rev /\ set.nodes = c.nodes
  BY <1>1 DEF ServerSession
<1> HIDE DEF new, set, old
<1> QED
  BY <1>1, <1>2, <1>3, <1>4 DEF old

LEMMA ServerKnown ==
  ASSUME PageInv, NodesInv, Planner \/ Serve, NEW x \in Session
  PROVE  /\ server[x].rev \in Nat /\ server'[x].rev \in Nat /\ server[x].rev <= server'[x].rev
         /\ server'[x].nodes \subseteq Known(x, server'[x].rev)
<1>1. /\ server \in [Session -> ServerSession] /\ server[x].rev \in Nat
      /\ server[x].nodes \subseteq Known(x, server[x].rev)
  BY DEF PageInv, ServerSession, NodesInv
<1>2. CASE \E s \in Session : \E now : Speaks(s, now)
  <2>1. PICK s \in Session : \E now : Speaks(s, now)
    BY <1>2
  <2>2. PICK now : Speaks(s, now)
    BY <2>1
  <2>3. server'[x] = IF x = s THEN now ELSE server[x]
    BY <1>1, <2>2 DEF Speaks
  <2>4. now.rev = server[s].rev /\ now.nodes = server[s].nodes
    BY <2>2 DEF Speaks
  <2> QED
    BY <1>1, <2>3, <2>4
<1>3. CASE \E s \in Session : \E now, op : Patches(s, now, op)
  <2>1. PICK s \in Session : \E now, op : Patches(s, now, op)
    BY <1>3
  <2>2. PICK now, op : Patches(s, now, op)
    BY <2>1
  <2>3. server'[x] = IF x = s THEN now ELSE server[x]
    BY <1>1, <2>2 DEF Patches
  <2>4. CASE x # s
    BY <1>1, <2>3, <2>4
  <2>5. CASE x = s
    <3>1. /\ now.rev = server[s].rev + 1 /\ now.rev \in 1 .. MaxTurn
          /\ \/ op.node = <<s, now.rev>> /\ now.nodes = server[s].nodes \cup {op.node}
             \/ now.nodes = server[s].nodes \ {op.node}
      BY <2>2 DEF Patches
    <3>2. Known(s, server[s].rev) \subseteq Known(s, now.rev)
      BY <1>1, <2>5, <3>1, KnownGrows
    <3>3. <<s, now.rev>> \in Known(s, now.rev)
      BY <3>1 DEF Known, Node
    <3>4. now.nodes \subseteq Known(s, now.rev)
      BY <1>1, <2>5, <3>1, <3>2, <3>3
    <3> QED
      BY <1>1, <2>3, <2>5, <3>1, <3>4
  <2> QED
    BY <2>4, <2>5
<1>4. CASE \E c \in calls : Ensure(c)
  <2>1. PICK c \in calls : Ensure(c)
    BY <1>4
  <2>2. /\ c.key \in Session /\ (x # c.key => server'[x] = server[x])
        /\ server'[c.key].rev = server[c.key].rev
        /\ \/ server'[c.key].nodes = c.nodes
           \/ server'[c.key] = server[c.key]
    BY <2>1, EnsureFields
  <2>3. c.nodes \subseteq Known(c.key, server[c.key].rev)
    BY <2>2, PageAssumption DEF NodesInv, LastOf
  <2> QED
    BY <1>1, <2>2, <2>3
<1>5. CASE UNCHANGED <<server, link>>
  BY <1>1, <1>5
<1> QED
  BY <1>2, <1>3, <1>4, <1>5, ServerActs

(* A request keeps its nodes.                                              *)
Kin(d, c) == d.key = c.key /\ d.nodes = c.nodes

LEMMA KinChanged ==
  ASSUME PageInv, NEW c \in calls, NEW stage, NEW ok, NEW heard
  PROVE  /\ Kin([c EXCEPT !.stage = stage], c)
         /\ Kin([c EXCEPT !.stage = stage, !.ok = ok], c)
         /\ Kin([c EXCEPT !.heard = heard], c) /\ Kin(c, c)
<1>1. c \in Call
  BY DEF PageInv, CallOf
<1> QED
  BY <1>1 DEF Kin, Call

LEMMA DoneKin ==
  ASSUME PageInv, NEW c \in calls, NEW ok, NEW x \in Done(c, ok)
  PROVE  \E d \in calls : Kin(x, d)
<1>1. CASE x \in calls
  BY <1>1, KinChanged
<1>2. CASE x \notin calls
  <2>1. x = [c EXCEPT !.stage = "done", !.ok = ok]
    BY <1>2 DEF Done, Replace
  <2> QED
    BY <2>1, KinChanged
<1> QED
  BY <1>1, <1>2

LEMMA RequestNodes ==
  ASSUME PageInv, Planner \/ Serve \/ Reload \/ (\E x \in calls : LoseCall(x)), NEW d \in calls'
  PROVE  \E c \in calls : Kin(d, c)
<1>1. CASE d \in calls
  BY <1>1, KinChanged
<1>2. CASE Planner
  BY <1>1, <1>2 DEF Planner, PlannerPatches, PlannerSays, PlannerEnds
<1>3. CASE Serve
  <2>1. PICK c \in calls : Ensure(c) \/ Instruct(c) \/ Dispatch(c) \/ ServeStop(c)
    BY <1>3 DEF Serve
  <2>2. CASE Dispatch(c) \/ ServeStop(c)
    BY <2>2, DoneKin DEF Dispatch, ServeStop
  <2>3. CASE (Ensure(c) \/ Instruct(c)) /\ d \notin calls
    <3>1. PICK stage : d = [c EXCEPT !.stage = stage]
      BY <2>3 DEF Ensure, Instruct, Replace
    <3> QED
      BY <3>1, KinChanged
  <2> QED
    BY <1>1, <2>1, <2>2, <2>3
<1>4. CASE Reload
  <2>1. PICK c \in calls : d = [c EXCEPT !.heard = FALSE]
    BY <1>4 DEF Reload
  <2> QED
    BY <2>1, KinChanged
<1>5. CASE \E x \in calls : LoseCall(x)
  <2>1. PICK x \in calls : LoseCall(x)
    BY <1>5
  <2>2. d \in Done(x, FALSE) \/ d = [x EXCEPT !.heard = FALSE]
    BY <2>1 DEF LoseCall
  <2> QED
    BY <2>2, DoneKin, KinChanged
<1> QED
  BY <1>2, <1>3, <1>4, <1>5

LEMMA EitherPart ==
  ASSUME NEW T, NEW a \in Seq(T), NEW b \in Seq(T), NEW i \in DOMAIN (a \o b)
  PROVE  (\E j \in DOMAIN a : (a \o b)[i] = a[j]) \/ (\E j \in DOMAIN b : (a \o b)[i] = b[j])
<1> DEFINE both == a \o b
<1>1. /\ DOMAIN both = 1 .. Len(a) + Len(b) /\ DOMAIN a = 1 .. Len(a) /\ Len(a) \in Nat /\ Len(b) \in Nat
      /\ \A j \in 1 .. Len(a) : both[j] = a[j]
      /\ \A j \in DOMAIN both : j > Len(a) => j - Len(a) \in DOMAIN b /\ both[j] = b[j - Len(a)]
  BY Joined
<1> HIDE DEF both
<1>2. i \in DOMAIN both
  BY DEF both
<1>3. CASE i > Len(a)
  BY <1>1, <1>2, <1>3 DEF both
<1>4. CASE ~(i > Len(a))
  <2>1. i \in DOMAIN a /\ both[i] = a[i]
    BY <1>1, <1>2, <1>4
  <2> QED
    BY <2>1 DEF both
<1> QED
  BY <1>3, <1>4

LEMMA NodesServed ==
  ASSUME PageInv, NodesInv, Planner \/ Serve
  PROVE  NodesInv'
<1>1. page' = page /\ kept' = kept /\ PageInv'
  <2>1. page' = page /\ kept' = kept
    BY ServerActs
  <2> QED
    BY <2>1, PageStep DEF Next
<1>2. ASSUME NEW s \in Session \cup {None}
      PROVE  LastOf(s) \in Nat /\ LastOf(s)' \in Nat /\ LastOf(s) <= LastOf(s)'
  <2>1. CASE s = None
    BY <2>1 DEF LastOf
  <2>2. CASE s \in Session /\ s # None
    BY <2>2, ServerKnown DEF LastOf
  <2> QED
    BY <1>2, <2>1, <2>2
<1>3. page.key \in Session \cup {None} /\ \A f \in Flow : kept[f].key \in Session \cup {None}
  BY DEF PageInv, PageOf, Page, Kept
<1> DEFINE key == page.key
           last == LastOf(key)
           more == LastOf(key)'
<1>4. last \in Nat /\ more \in Nat /\ last <= more
  BY <1>1, <1>2, <1>3
<1> HIDE DEF last, more
<1>5. PlanPage(page, more)
  BY <1>4, PlanGrows DEF NodesInv, last
<1>6. ASSUME NEW f \in Flow PROVE kept[f].canvas \subseteq Known(kept[f].key, LastOf(kept[f].key)')
  <2>1. LastOf(kept[f].key) \in Nat /\ LastOf(kept[f].key)' \in Nat /\ LastOf(kept[f].key) <= LastOf(kept[f].key)'
    BY <1>1, <1>2, <1>3
  <2>2. Known(kept[f].key, LastOf(kept[f].key)) \subseteq Known(kept[f].key, LastOf(kept[f].key)')
    BY <2>1, KnownGrows
  <2> QED
    BY <1>1, <2>2 DEF NodesInv
<1>7. \A s \in Session : server'[s].nodes \subseteq Known(s, server'[s].rev)
  BY ServerKnown
<1>8. ASSUME NEW d \in calls' PROVE d.nodes \subseteq Known(d.key, LastOf(d.key)')
  <2>1. PICK c \in calls : Kin(d, c)
    BY RequestNodes
  <2>2. c.key \in Session \cup {None} /\ c.nodes \subseteq Known(c.key, LastOf(c.key))
    BY DEF PageInv, CallOf, Call, NodesInv
  <2>3. LastOf(c.key) \in Nat /\ LastOf(c.key)' \in Nat /\ LastOf(c.key) <= LastOf(c.key)'
    BY <1>2, <2>2
  <2>4. Known(c.key, LastOf(c.key)) \subseteq Known(c.key, LastOf(c.key)')
    BY <2>3, KnownGrows
  <2> QED
    BY <2>1, <2>2, <2>4 DEF Kin
<1>9. link'.stage = link.stage /\ \A i \in DOMAIN link'.inbox : PlanEvent(link'.inbox[i], key, more)
  <2>1. \A i \in DOMAIN link.inbox : PlanEvent(link.inbox[i], key, more)
    BY <1>4, EventKnown DEF NodesInv, last
  <2>2. CASE link' = link
    BY <2>1, <2>2
  <2>3. ASSUME NEW events \in Seq(Event), Publish(key, events), \A i \in DOMAIN events : PlanEvent(events[i], key, more)
        PROVE  link'.stage = link.stage /\ \A i \in DOMAIN link'.inbox : PlanEvent(link'.inbox[i], key, more)
    <3>1. link \in Link /\ link.inbox \in Seq(Event)
      BY DEF PageInv, Link
    <3>2. CASE link' = link
      BY <2>2, <3>2
    <3>3. CASE link' # link
      <4> DEFINE both == link.inbox \o events
      <4>1. link'.inbox = both /\ link'.stage = link.stage
        BY <2>3, <3>1, <3>3 DEF Publish, Link
      <4>2. \A i \in DOMAIN both : (\E j \in DOMAIN link.inbox : both[i] = link.inbox[j]) \/ (\E j \in DOMAIN events : both[i] = events[j])
        BY <3>1, EitherPart
      <4> HIDE DEF both
      <4> QED
        BY <2>1, <2>3, <4>1, <4>2
    <3> QED
      BY <3>2, <3>3
  <2>4. CASE key = None
    <3>1. link.stage \notin {"join", "open"}
      BY <2>4 DEF PageInv
    <3>2. link' = link
      BY <2>4, <3>1, ServerActs DEF Speaks, Patches, Publish, Hears, Ensure
    <3> QED
      BY <2>2, <3>2
  <2>5. CASE key \in Session
    <3> DEFINE now == server'[key]
    <3>1. now \in ServerSession /\ now.nodes \subseteq Known(key, more) /\ more = now.rev
      BY <1>1, <1>7, <2>5, PageAssumption DEF PageInv, LastOf, more
    <3> HIDE DEF now
    <3>2. \A kind : PlanEvent(Published(kind, now, << >>), key, more)
      BY <3>1 DEF Published, PlanEvent
    <3>3. CASE Speaks(key, now)
      <4>1. /\ Says(now, key) \in Seq(Event) /\ Len(Says(now, key)) = 2
            /\ Says(now, key)[1] = Published("messages", now, << >>)
            /\ Says(now, key)[2] = Published("session", now, << >>)
        BY <3>1, SpeechEvents
      <4>2. \A i \in DOMAIN Says(now, key) : i = 1 \/ i = 2
        BY <4>1
      <4> QED
        BY <2>3, <3>2, <3>3, <4>1, <4>2 DEF Speaks
    <3>4. ASSUME NEW op, Patches(key, now, op)
          PROVE  link'.stage = link.stage /\ \A i \in DOMAIN link'.inbox : PlanEvent(link'.inbox[i], key, more)
      <4> DEFINE events == PatchEvents(now, op)
      <4>1. /\ events \in Seq(Event) /\ Len(events) = 3
            /\ events[1] = Published("patch", now, <<op>>)
            /\ events[2] = Published("snapshot", now, << >>)
            /\ events[3] = Published("session", now, << >>)
        BY <3>1, <3>4, PatchEventsType DEF Patches
      <4>2. \A i \in DOMAIN events : i = 1 \/ i = 2 \/ i = 3
        BY <4>1
      <4>3. Publish(key, events) /\ op \in Operation /\ op.key = key
        BY <3>4 DEF Patches
      <4>4. op.node \in Known(key, more)
        <5>1. server[key].nodes \subseteq Known(key, more)
          <6>1. Known(key, last) \subseteq Known(key, more)
            BY <1>4, KnownGrows
          <6>2. server[key].nodes \subseteq Known(key, last)
            BY <2>5, PageAssumption DEF NodesInv, LastOf, last
          <6> QED
            BY <6>1, <6>2
        <5>2. <<key, more>> \in Known(key, more)
          BY <1>4, <2>5, <3>1, <3>4 DEF Known, Node, Patches
        <5> QED
          BY <3>1, <3>4, <5>1, <5>2 DEF Patches
      <4>5. <<op>> \in Seq(KnownOps(key, more))
        BY <4>3, <4>4 DEF KnownOps
      <4>6. PlanEvent(Published("patch", now, <<op>>), key, more)
        BY <3>1, <4>5 DEF Published, PlanEvent
      <4> HIDE DEF events
      <4> QED
        BY <2>3, <3>2, <4>1, <4>2, <4>3, <4>6
    <3> QED
      BY <2>2, <2>5, <3>3, <3>4, ServerTells DEF now
  <2> QED
    BY <1>3, <2>4, <2>5
<1> QED
  BY <1>1, <1>5, <1>6, <1>7, <1>8, <1>9 DEF NodesInv, more

LEMMA WholeKnown ==
  ASSUME PageInv, NodesInv, NEW s \in Session, NEW i \in 1 .. 4
  PROVE  PlanEvent(SentWhole(s)[i], s, LastOf(s))
<1> DEFINE now == server[s]
           last == LastOf(s)
           seq == SetToSeq(Puts(s))
<1>1. now.nodes \subseteq Known(s, last) /\ now.nodes \subseteq Node
  BY PageAssumption DEF NodesInv, LastOf, PageInv, ServerSession
<1>2. Puts(s) \subseteq KnownOps(s, last)
  <2> HIDE DEF now, last
  <2> SUFFICES ASSUME NEW n \in now.nodes PROVE [key |-> s, put |-> TRUE, node |-> n] \in KnownOps(s, last)
    BY DEF Puts, now
  <2>1. [key |-> s, put |-> TRUE, node |-> n] \in Operation
    BY <1>1 DEF Operation
  <2> QED
    BY <1>1, <2>1 DEF KnownOps
<1>3. seq \in Seq(Puts(s))
  BY PutsType
<1>4. seq \in Seq(KnownOps(s, last)) /\ << >> \in Seq(KnownOps(s, last))
  BY <1>2, <1>3
<1>5. SentWhole(s)[i].of = now /\ SentWhole(s)[i].ops \in {<< >>, seq}
  BY DEF SentWhole, Puts
<1> HIDE DEF now, last, seq
<1> QED
  BY <1>1, <1>4, <1>5 DEF PlanEvent, now, last

(* Nothing is on a page without a session, nor at a session's start.       *)
LEMMA KeylessPlan ==
  ASSUME NEW p \in Page, NEW last, PlanPage(p, last), p.key = None
  PROVE  p.ops = << >> /\ p.snaps = {} /\ p.canvas \subseteq {Own} /\ p.flush = None
<1>1. p.canvas \subseteq {Own} /\ p.ops \in Seq({}) /\ p.flush = None
  BY NothingKnown DEF PlanPage
<1>2. p.ops = << >>
  BY <1>1
<1>3. p.snaps = {}
  BY PageAssumption DEF PlanPage, Page
<1> QED
  BY <1>1, <1>2, <1>3

LEMMA PlanStartsEmpty ==
  ASSUME NEW p, p.ops = << >>, p.snaps = {}, p.canvas \subseteq {Own}, p.flush = None
  PROVE  \A last : PlanPage(p, last)
<1>1. \A last : Own \in Known(p.key, last) /\ << >> \in Seq(KnownOps(p.key, last))
  BY DEF Known
<1> QED
  BY <1>1 DEF PlanPage

LEMMA NewPlan ==
  ASSUME NEW p \in Page, NEW last, PlanPage(p, last), p.ops = << >>, p.snaps = {}, p.canvas \subseteq {Own},
         NEW key, key # p.key
  PROVE  LET q == WithKey(p, key) IN
         q.ops = << >> /\ q.snaps = {} /\ q.canvas \subseteq {Own} /\ q.flush = None
<1> DEFINE clear == IF p.key = None THEN p ELSE ClearQueue(p, p.key)
           q == WithKey(p, key)
<1>1. OpsBut(p, p.key) = << >> /\ SnapsBut(p, p.key) = {}
  <2>1. p.ops \in Seq({})
    OBVIOUS
  <2>2. OpsBut(p, p.key) \in Seq({})
    BY <2>1, OpsButType
  <2> QED
    BY <2>2 DEF SnapsBut
<1>2. NextFlush(<< >>, {}) = None
  BY DEF NextFlush
<1>3. clear.ops = << >> /\ clear.snaps = {} /\ clear.flush = None
  <2>1. CASE p.key = None
    BY <2>1 DEF PlanPage
  <2>2. CASE p.key # None
    <3> DEFINE c == ClearQueue(p, p.key)
    <3>1. /\ c.ops = OpsBut(p, p.key) /\ c.snaps = SnapsBut(p, p.key)
          /\ p.flush \in {p.key, None} => c.flush = NextFlush(OpsBut(p, p.key), SnapsBut(p, p.key))
      BY ClearFields
    <3>2. clear = c
      BY <2>2
    <3> HIDE DEF c, clear
    <3>3. p.flush \in {p.key, None}
      BY DEF PlanPage
    <3> QED
      BY <1>1, <1>2, <3>1, <3>2, <3>3
  <2> QED
    BY <2>1, <2>2
<1> HIDE DEF clear
<1>4. q.canvas = p.canvas /\ q.ops = clear.ops /\ q.snaps = clear.snaps /\ q.flush = clear.flush
  BY KeyFields DEF clear
<1> QED
  BY <1>3, <1>4

LEMMA NodesMoved ==
  ASSUME NodesInv, server' = server, kept' = kept, NEW q, page' = q, PlanPage(q, LastOf(q.key)),
         link'.stage \in {"off", "probe", "absent"} => q.ops = << >> /\ q.snaps = {},
         link'.stage = "absent" => q.canvas \subseteq {Own},
         \A i \in DOMAIN link'.inbox : PlanEvent(link'.inbox[i], q.key, LastOf(q.key)),
         \A c \in calls' : c.nodes \subseteq Known(c.key, LastOf(c.key))
  PROVE  NodesInv'
<1>1. \A key : LastOf(key)' = LastOf(key)
  BY DEF LastOf
<1>2. LastOf(q.key)' = LastOf(q.key) /\ LastOf(page.key)' = LastOf(q.key)
  BY DEF LastOf
<1>3. \A f \in Flow : kept'[f].canvas \subseteq Known(kept'[f].key, LastOf(kept[f].key)')
  BY <1>1 DEF NodesInv, LastOf
<1> QED
  BY <1>1, <1>2, <1>3 DEF NodesInv

LEMMA FewerRequests ==
  ASSUME NodesInv, calls' \subseteq calls
  PROVE  \A c \in calls' : c.nodes \subseteq Known(c.key, LastOf(c.key))
  BY DEF NodesInv

LEMMA NodesLinked ==
  ASSUME PageInv, NodesInv, ServeProbe \/ Subscribe \/ ServerCloses \/ Cut
  PROVE  NodesInv'
<1>1. UNCHANGED <<server, page, kept, calls>> /\ page.key \in Session \cup {None}
  BY DEF ServeProbe, Subscribe, ServerCloses, Cut, PageInv, PageOf, Page
<1>2. link'.inbox = << >>
  BY DEF ServeProbe, Subscribe, ServerCloses, Cut, Linked
<1>3. link'.stage \in {"wait", "join"} \/ (ServeProbe /\ server[page.key].status = "none" /\ link'.stage = "absent")
  BY DEF ServeProbe, Subscribe, ServerCloses, Cut, Linked
<1>4. CASE link'.stage \in {"wait", "join"}
  BY <1>1, <1>2, <1>4, NodesMoved, FewerRequests DEF NodesInv
<1>5. CASE ServeProbe /\ server[page.key].status = "none" /\ link'.stage = "absent"
  <2>1. link.stage = "probe" /\ page.key \in Session /\ page.key # None
    BY <1>1, <1>5 DEF ServeProbe, PageInv
  <2>2. LastOf(page.key) = 0
    BY <1>5, <2>1 DEF PageInv, SessionOf, NoSession, LastOf
  <2>3. page.canvas \subseteq {Own}
    BY <2>2, NothingKnown DEF NodesInv, PlanPage
  <2> QED
    BY <1>1, <1>2, <1>5, <2>1, <2>3, NodesMoved, FewerRequests DEF NodesInv
<1> QED
  BY <1>3, <1>4, <1>5

LEMMA NodesForgotten ==
  ASSUME PageInv, NodesInv, StaleSession
  PROVE  NodesInv'
<1> DEFINE q == WithKey(page, None)
<1>1. /\ page \in Page /\ page.key # None /\ server' = server /\ kept' = kept /\ calls' = calls /\ page' = q
      /\ link'.stage = "off" /\ link'.inbox = << >> /\ link.stage = "absent"
  BY DEF StaleSession, PageInv, PageOf, LinkFor, Linked
<1>2. PlanPage(page, LastOf(page.key)) /\ page.ops = << >> /\ page.snaps = {} /\ page.canvas \subseteq {Own}
  BY <1>1 DEF NodesInv
<1>3. q.ops = << >> /\ q.snaps = {} /\ q.canvas \subseteq {Own} /\ q.flush = None
  BY <1>1, <1>2, NewPlan
<1> HIDE DEF q
<1>4. PlanPage(q, LastOf(q.key))
  BY <1>3, PlanStartsEmpty
<1> QED
  BY <1>1, <1>3, <1>4, NodesMoved, FewerRequests

LEMMA NodesOpened ==
  ASSUME PageInv, NodesInv, OpenStream
  PROVE  NodesInv'
<1> DEFINE q == link.inbox
           both == link'.inbox
           whole == SentWhole(page.key)
<1>1. /\ page.key \in Session /\ UNCHANGED <<server, page, kept, calls>> /\ link'.stage = "open"
      /\ server[page.key].status # "none" /\ link \in Link
  BY OpenedFields DEF PageInv
<1>2. both = whole \o q
  BY <1>1 DEF OpenStream, Link
<1>3. whole \in Seq(Event) /\ DOMAIN whole = 1 .. 4 /\ q \in Seq(Event)
  BY <1>1, WholeFields DEF Link
<1>4. \A i \in 1 .. 4 : PlanEvent(whole[i], page.key, LastOf(page.key))
  BY <1>1, WholeKnown
<1> HIDE DEF whole
<1>5. \A i \in DOMAIN both : (\E j \in DOMAIN whole : both[i] = whole[j]) \/ (\E j \in DOMAIN q : both[i] = q[j])
  <2> HIDE DEF both, q
  <2>1. ASSUME NEW i \in DOMAIN (whole \o q)
        PROVE  (\E j \in DOMAIN whole : (whole \o q)[i] = whole[j]) \/ (\E j \in DOMAIN q : (whole \o q)[i] = q[j])
    BY <1>3, EitherPart
  <2> QED
    BY <1>2, <2>1
<1>6. \A i \in DOMAIN both : PlanEvent(both[i], page.key, LastOf(page.key))
  <2> HIDE DEF both
  <2> QED
    BY <1>3, <1>4, <1>5 DEF NodesInv
<1> QED
  BY <1>1, <1>6, NodesMoved, FewerRequests DEF NodesInv

LEMMA NodesDelivered ==
  ASSUME PageInv, NodesInv, Deliver
  PROVE  NodesInv'
<1> DEFINE m == Head(link.inbox)
           q == IF Forwards(m) THEN Handled(page, m) ELSE page
<1>1. /\ link \in Link /\ link.inbox \in Seq(Event) /\ link.inbox # << >> /\ link.stage = "open"
      /\ server' = server /\ kept' = kept /\ calls' = calls /\ page' = q
      /\ PageOf(page, owner) /\ page.key \in Session
  BY DEF Deliver, PageInv, Link, PageOf, Page
<1>2. /\ \A i \in DOMAIN Tail(link.inbox) : i + 1 \in DOMAIN link.inbox /\ Tail(link.inbox)[i] = link.inbox[i + 1]
      /\ 1 \in DOMAIN link.inbox /\ m = link.inbox[1]
  BY <1>1, TailOf
<1>3. EventOf(m, page.flow, owner) /\ PlanEvent(m, page.key, LastOf(page.key)) /\ m \in Event
  <2> HIDE DEF m
  <2> QED
    BY <1>2 DEF PageInv, NodesInv, EventOf
<1>4. link' = Linked("wait") \/ link' = LinkAfter(m)
  BY DEF Deliver
<1>5. LinkAfter(m).stage = "open" /\ LinkAfter(m).inbox = Tail(link.inbox)
  BY <1>1, <1>3, LinkAfterFields
<1>6. Linked("wait").stage = "wait" /\ Linked("wait").inbox = << >>
  BY DEF Linked
<1> HIDE DEF m
<1>7. PlanPage(Handled(page, m), LastOf(page.key)) /\ Handled(page, m).key = page.key
  <2>1. PlanPage(page, LastOf(page.key))
    BY DEF NodesInv
  <2>2. PlanPage(Handled(page, m), LastOf(page.key))
    BY <1>1, <1>3, <2>1, PlanHandled
  <2>3. Handled(page, m).key = page.key
    BY <1>1, <1>3, EventShown
  <2> QED
    BY <2>2, <2>3
<1>8. q.key = page.key /\ PlanPage(q, LastOf(q.key))
  BY <1>7 DEF NodesInv
<1> HIDE DEF q
<1>9. \A i \in DOMAIN link'.inbox : PlanEvent(link'.inbox[i], q.key, LastOf(q.key))
  <2>1. CASE link' = Linked("wait")
    BY <1>6, <2>1
  <2>2. CASE link' = LinkAfter(m)
    BY <1>2, <1>5, <1>8, <2>2 DEF NodesInv
  <2> QED
    BY <1>4, <2>1, <2>2
<1> QED
  BY <1>1, <1>4, <1>5, <1>6, <1>8, <1>9, NodesMoved, FewerRequests

LEMMA NodesPlayed ==
  ASSUME PageInv, NodesInv, Timers
  PROVE  NodesInv'
<1>1. /\ PageOf(page, owner) /\ page \in Page /\ UNCHANGED <<server, kept, link, calls>>
      /\ PlanPage(page, LastOf(page.key))
  BY DEF Timers, Step, Unlock, PageInv, PageOf, NodesInv
<1>2. CASE Unlock
  <2>1. page' = Unblocks(page)
    BY <1>2 DEF Unlock
  <2>2. Queue(Unblocks(page), page) /\ Unblocks(page).key = page.key
    BY <1>1, BlockedFields
  <2>3. PlanPage(Unblocks(page), LastOf(page.key))
    BY <1>1, <2>2, QueuePlan
  <2> DEFINE q == Unblocks(page)
  <2> HIDE DEF q
  <2>4. /\ page' = q /\ PlanPage(q, LastOf(q.key)) /\ q.canvas = page.canvas /\ q.key = page.key
        /\ q.ops = page.ops /\ q.snaps = page.snaps
    BY <2>1, <2>2, <2>3 DEF q, Queue
  <2> QED
    BY <1>1, <2>4, NodesMoved, FewerRequests DEF NodesInv
<1>3. CASE Step
  <2> DEFINE q == Play(page)
             i == NextOf(page, page.flush)
             played == Played(page, i)
             through == ApplyPendingSnapshot(played, page.flush)
  <2>1. page' = q /\ page.flush # None
    BY <1>3 DEF Step
  <2>2. PlanPage(q, LastOf(page.key))
    BY <1>1, <2>1, PlanPlays
  <2>3. /\ q.key = page.key /\ played \in Page
        /\ NextOf(played, page.flush) # 0 => q = played
        /\ NextOf(played, page.flush) = 0 =>
             q.canvas = through.canvas /\ q.ops = through.ops /\ q.snaps = through.snaps
    BY <1>1, <2>1, PlayFields
  <2>4. ASSUME page.ops = << >>, page.snaps = {}
        PROVE  q.ops = << >> /\ q.snaps = {} /\ q.canvas = page.canvas
    <3>1. i = 0
      <4>1. page.ops \in Seq(Operation) /\ Len(page.ops) = 0
        BY <1>1, <2>4 DEF Page
      <4>2. i \in 0 .. Len(page.ops)
        BY <4>1, NextOfType
      <4> QED
        BY <4>1, <4>2
    <3>2. played = page
      BY <3>1 DEF Played
    <3> HIDE DEF i, played
    <3>3. through = page
      BY <2>4, <3>2 DEF ApplyPendingSnapshot
    <3> HIDE DEF q, through
    <3> QED
      BY <2>3, <2>4, <3>2, <3>3
  <2> HIDE DEF q
  <2>5. PlanPage(q, LastOf(q.key))
    BY <2>2, <2>3
  <2> QED
    BY <1>1, <2>1, <2>3, <2>4, <2>5, NodesMoved, FewerRequests DEF NodesInv
<1> QED
  BY <1>2, <1>3 DEF Timers

(* A new key leaves a page that had none empty.                            *)
LEMMA NodesKeyed ==
  ASSUME PageInv, NodesInv, page.key = None, NEW key \in Session
  PROVE  LET q == WithKey(page, key) IN
         q.ops = << >> /\ q.snaps = {} /\ q.canvas \subseteq {Own} /\ q.flush = None /\ q.key = key
<1>1. page \in Page /\ PageOf(page, owner) /\ PlanPage(page, LastOf(page.key)) /\ key # page.key
  BY PageAssumption DEF PageInv, PageOf, NodesInv
<1>2. page.ops = << >> /\ page.snaps = {} /\ page.canvas \subseteq {Own}
  BY <1>1, KeylessPlan
<1>3. WithKey(page, key).key = key
  BY <1>1, KeyChanges
<1> QED
  BY <1>1, <1>2, <1>3, NewPlan

(* The same plan on the same stream.                                       *)
LEMMA NodesKeep ==
  ASSUME NodesInv, server' = server, kept' = kept, link' = link, NEW q, page' = q, Queue(q, page),
         q.key = page.key, \A c \in calls' : c.nodes \subseteq Known(c.key, LastOf(c.key))
  PROVE  NodesInv'
<1>1. PlanPage(q, LastOf(q.key))
  BY QueuePlan DEF NodesInv
<1>2. q.ops = page.ops /\ q.snaps = page.snaps /\ q.canvas = page.canvas
  BY DEF Queue
<1> QED
  BY <1>1, <1>2, NodesMoved DEF NodesInv

(* An empty page with a new stream.                                        *)
LEMMA NodesFresh ==
  ASSUME NodesInv, server' = server, kept' = kept, NEW q, page' = q,
         q.ops = << >>, q.snaps = {}, q.canvas \subseteq {Own}, q.flush = None, link'.inbox = << >>,
         \A c \in calls' : c.nodes \subseteq Known(c.key, LastOf(c.key))
  PROVE  NodesInv'
<1>1. PlanPage(q, LastOf(q.key))
  BY PlanStartsEmpty
<1> QED
  BY <1>1, NodesMoved

LEMMA NodesAnswered ==
  ASSUME PageInv, ChatInv, NodesInv, Answer
  PROVE  NodesInv'
<1>1. PICK c \in calls : AnswerGenerate(c) \/ AnswerStop(c)
  BY DEF Answer
<1>2. /\ page \in Page /\ PageOf(page, owner) /\ server' = server /\ kept' = kept /\ page.key \in Session \cup {None}
      /\ c.key \in Session /\ calls' \subseteq calls
  BY <1>1 DEF AnswerGenerate, AnswerStop, PageInv, PageOf, CallOf, Call, Page
<1>3. \A d \in calls' : d.nodes \subseteq Known(d.key, LastOf(d.key))
  BY <1>2, FewerRequests
<1>4. CASE AnswerStop(c)
  <2> DEFINE q == [page EXCEPT !.status = "stopped", !.planning = FALSE, !.blocked = FALSE, !.stopping = FALSE]
             r == [page EXCEPT !.stopping = FALSE]
  <2>1. q.key = page.key /\ Queue(q, page) /\ r.key = page.key /\ Queue(r, page)
    BY <1>2 DEF Page, Queue
  <2>2. (page' = q \/ page' = r) /\ link' = link
    BY <1>4 DEF AnswerStop
  <2> HIDE DEF q, r
  <2> QED
    BY <1>2, <1>3, <2>1, <2>2, NodesKeep
<1>5. CASE AnswerGenerate(c)
  <2>1. CASE StillAwaited(c) /\ c.ok
    <3> DEFINE keyed == WithKey(page, c.key)
               q == [keyed EXCEPT !.pending = 0]
    <3>1. page' = q
      BY <1>5, <2>1 DEF AnswerGenerate, PlanAnswered
    <3>2. page.key \in {None, c.key}
      BY <1>5, <2>1 DEF AnswerGenerate, StillAwaited, ChatInv, AllFollow, Follows
    <3>3. keyed \in Page /\ keyed.key = c.key
      BY <1>2, KeyChanges DEF PageOf
    <3>4. page.key = c.key => keyed = page
      BY DEF WithKey
    <3>5. page.key = None => keyed.ops = << >> /\ keyed.snaps = {} /\ keyed.canvas \subseteq {Own} /\ keyed.flush = None
      BY <1>2, NodesKeyed
    <3> HIDE DEF keyed
    <3>6. q.key = keyed.key /\ Queue(q, keyed)
      BY <3>3 DEF Page, Queue
    <3> HIDE DEF q
    <3>7. link' = IF c.key = page.key THEN link ELSE LinkFor(c.key)
      BY <1>5, <3>1, <3>3, <3>6 DEF AnswerGenerate, Relink
    <3>8. CASE page.key = c.key
      BY <1>2, <1>3, <3>1, <3>3, <3>4, <3>6, <3>7, <3>8, NodesKeep
    <3>9. CASE page.key = None
      <4>1. link'.inbox = << >>
        BY <1>2, <3>7, <3>9, PageAssumption DEF LinkFor, Linked
      <4>2. q.ops = << >> /\ q.snaps = {} /\ q.canvas \subseteq {Own} /\ q.flush = None
        BY <3>5, <3>6, <3>9 DEF Queue
      <4> QED
        BY <1>2, <1>3, <3>1, <4>1, <4>2, NodesFresh
    <3> QED
      BY <3>2, <3>8, <3>9
  <2>2. CASE StillAwaited(c) /\ ~c.ok
    <3> DEFINE w == BlocksForAWhile(page)
               q == [w EXCEPT !.planning = FALSE, !.status = "failed", !.stopping = FALSE, !.pending = 0]
    <3>1. page' = q
      BY <1>5, <2>2 DEF AnswerGenerate, PlanFails
    <3>2. w \in Page /\ w.key = page.key /\ Queue(w, page)
      BY <1>2, Blocked, BlockedFields DEF PageOf
    <3> HIDE DEF w
    <3>3. q.key = page.key /\ Queue(q, page)
      BY <3>2 DEF Page, Queue
    <3> HIDE DEF q
    <3>4. link' = link
      BY <1>5, <3>1, <3>3 DEF AnswerGenerate, Relink
    <3> QED
      BY <1>2, <1>3, <3>1, <3>3, <3>4, NodesKeep
  <2>3. CASE ~StillAwaited(c)
    <3>1. page' = page
      BY <1>5, <2>3 DEF AnswerGenerate
    <3>2. link' = link
      BY <1>5, <3>1 DEF AnswerGenerate, Relink
    <3>3. Queue(page, page)
      BY DEF Queue
    <3> QED
      BY <1>2, <1>3, <3>1, <3>2, <3>3, NodesKeep
  <2> QED
    BY <2>1, <2>2, <2>3
<1> QED
  BY <1>1, <1>4, <1>5

LEMMA NodesPrompted ==
  ASSUME PageInv, NodesInv, Prompt
  PROVE  NodesInv'
<1> DEFINE s == SessionForPrompt(page)
           keyed == WithKey(page, s)
           waits == Waits(keyed)
           q == [waits EXCEPT !.stopping = FALSE, !.pending = prompts + 1, !.chat = Append(@, "u")]
<1>1. page \in Page /\ PageOf(page, owner) /\ server' = server /\ kept' = kept
  BY DEF PageInv, PageOf, Prompt
<1>2. s \in Session /\ (page.key # None => s = page.key)
  BY <1>1 DEF Prompt, SessionForPrompt, Page
<1>3. /\ page' = q /\ link' = IF s = page.key THEN link ELSE LinkFor(s)
      /\ calls' = calls \cup {Request("generate", s, prompts + 1, page.canvas)}
  BY DEF Prompt, PlanStarts, Relink
<1> HIDE DEF s
<1>4. PageOf(keyed, owner) /\ keyed.key = s /\ keyed \in Page
  BY <1>1, <1>2, KeyChanges DEF PageOf
<1>5. page.key = s => keyed = page
  BY DEF WithKey
<1>6. page.key = None => keyed.ops = << >> /\ keyed.snaps = {} /\ keyed.canvas \subseteq {Own} /\ keyed.flush = None
  BY <1>2, NodesKeyed
<1> HIDE DEF keyed
<1>7. waits \in Page /\ waits.key = s /\ Queue(waits, keyed)
  BY <1>4, Blocked, BlockedFields DEF PageOf
<1> HIDE DEF waits
<1>8. q.key = s /\ Queue(q, keyed)
  BY <1>7 DEF Page, Queue
<1> HIDE DEF q
<1>9. page.canvas \subseteq Known(s, LastOf(s))
  <2>1. CASE page.key # None
    BY <1>2, <2>1 DEF NodesInv, PlanPage
  <2>2. CASE page.key = None
    <3>1. page.canvas \subseteq {Own}
      BY <1>1, <2>2, KeylessPlan DEF NodesInv
    <3> QED
      BY <3>1 DEF Known
  <2> QED
    BY <2>1, <2>2
<1>10. \A d \in calls' : d.nodes \subseteq Known(d.key, LastOf(d.key))
  <2> DEFINE c == Request("generate", s, prompts + 1, page.canvas)
  <2>1. c.key = s /\ c.nodes = page.canvas
    BY DEF Request
  <2> HIDE DEF c
  <2> QED
    BY <1>3, <1>9, <2>1 DEF NodesInv, c
<1>11. CASE page.key = s
  BY <1>1, <1>3, <1>5, <1>8, <1>10, <1>11, NodesKeep
<1>12. CASE page.key = None
  <2>1. link'.inbox = << >>
    BY <1>2, <1>3, <1>12, PageAssumption DEF LinkFor, Linked
  <2>2. q.ops = << >> /\ q.snaps = {} /\ q.canvas \subseteq {Own} /\ q.flush = None
    BY <1>6, <1>8, <1>12 DEF Queue
  <2> QED
    BY <1>1, <1>3, <1>10, <2>1, <2>2, NodesFresh
<1> QED
  BY <1>2, <1>11, <1>12

LEMMA NodesStopped ==
  ASSUME PageInv, NodesInv, Stop
  PROVE  NodesInv'
<1> DEFINE emptied == IF page.key = None THEN ClearAllQueues(page) ELSE ClearQueue(page, page.key)
           free == Unblocks(emptied)
           q == [free EXCEPT !.pending = 0, !.status = "stopped", !.planning = FALSE,
                             !.stopping = page.key # None]
<1>1. /\ page \in Page /\ PageOf(page, owner) /\ server' = server /\ kept' = kept /\ link' = link /\ page' = q
      /\ PlanPage(page, LastOf(page.key))
  BY DEF PageInv, PageOf, Stop, NodesInv
<1>2. PageOf(emptied, owner) /\ emptied \in Page
  BY <1>1, AllQueuesClear, QueueClears DEF PageOf
<1>3. emptied.key = page.key /\ emptied.canvas = page.canvas /\ PlanPage(emptied, LastOf(page.key))
  <2>1. CASE page.key = None
    <3> DEFINE c == ClearAllQueues(page)
    <3>1. c.key = page.key /\ c.canvas = page.canvas /\ c.ops = << >> /\ c.snaps = {} /\ c.flush = None
      BY <1>1, ClearAllFields
    <3>2. page.canvas \subseteq {Own}
      BY <1>1, <2>1, KeylessPlan
    <3>3. emptied = c
      BY <2>1
    <3> HIDE DEF c, emptied
    <3>4. PlanPage(c, LastOf(page.key))
      BY <3>1, <3>2, PlanStartsEmpty
    <3> QED
      BY <3>1, <3>3, <3>4
  <2>2. CASE page.key # None
    <3> DEFINE c == ClearQueue(page, page.key)
    <3>1. c.key = page.key /\ c.canvas = page.canvas
      BY <1>1, ClearFields
    <3>2. PlanPage(c, LastOf(page.key))
      BY <1>1, PlanClears
    <3>3. emptied = c
      BY <2>2
    <3> HIDE DEF c, emptied
    <3> QED
      BY <3>1, <3>2, <3>3
  <2> QED
    BY <2>1, <2>2
<1>4. page.ops = << >> /\ page.snaps = {} => emptied.ops = << >> /\ emptied.snaps = {}
  <2> SUFFICES ASSUME page.ops = << >>, page.snaps = {} PROVE emptied.ops = << >> /\ emptied.snaps = {}
    OBVIOUS
  <2>1. OpsBut(page, page.key) = << >> /\ SnapsBut(page, page.key) = {}
    <3>1. page.ops \in Seq({})
      OBVIOUS
    <3>2. OpsBut(page, page.key) \in Seq({})
      BY <3>1, OpsButType
    <3> QED
      BY <3>2 DEF SnapsBut
  <2>2. ClearAllQueues(page).ops = << >> /\ ClearAllQueues(page).snaps = {}
    BY <1>1, ClearAllFields
  <2> DEFINE c == ClearQueue(page, page.key)
  <2>3. c.ops = OpsBut(page, page.key) /\ c.snaps = SnapsBut(page, page.key)
    BY <1>1, ClearFields
  <2>4. emptied = c \/ emptied = ClearAllQueues(page)
    OBVIOUS
  <2> HIDE DEF c, emptied
  <2> QED
    BY <2>1, <2>2, <2>3, <2>4
<1> HIDE DEF emptied
<1>5. free \in Page /\ free.key = page.key /\ Queue(free, emptied)
  BY <1>2, <1>3, Blocked, BlockedFields DEF PageOf
<1> HIDE DEF free
<1>6. q.key = page.key /\ Queue(q, emptied)
  BY <1>5 DEF Page, Queue
<1> HIDE DEF q
<1>7. PlanPage(q, LastOf(q.key))
  BY <1>3, <1>6, QueuePlan
<1>8. q.canvas = page.canvas /\ (page.ops = << >> /\ page.snaps = {} => q.ops = << >> /\ q.snaps = {})
  BY <1>3, <1>4, <1>6 DEF Queue
<1>9. \A d \in calls' : d.nodes \subseteq Known(d.key, LastOf(d.key))
  <2> DEFINE c == Request("stop", page.key, 0, {})
  <2>1. c.nodes = {} /\ calls' \subseteq calls \cup {c}
    BY DEF Request, Stop
  <2> HIDE DEF c
  <2> QED
    BY <2>1 DEF NodesInv
<1> QED
  BY <1>1, <1>6, <1>7, <1>8, <1>9, NodesMoved DEF NodesInv

LEMMA NodesLeft ==
  ASSUME PageInv, NodesInv, NEW f \in Flow, SwitchFlow(f)
  PROVE  NodesInv'
<1> DEFINE q == [Restored(f, kept[f]) EXCEPT !.resync = page.resync]
<1>1. /\ server' = server /\ calls' = calls /\ page' = q /\ link'.inbox = << >>
      /\ link'.stage \in {"off", "probe"}
      /\ kept' = [kept EXCEPT ![page.flow] = Leave(page)] /\ kept \in [Flow -> Kept] /\ page.flow \in Flow
  BY DEF SwitchFlow, LinkFor, Linked, PageInv, PageOf, Page
<1>2. /\ q.key = kept[f].key /\ q.canvas = kept[f].canvas /\ q.ops = << >> /\ q.snaps = {} /\ q.flush = None
  BY DEF Restored
<1> HIDE DEF q
<1>3. /\ \A g \in Flow : kept[g].canvas \subseteq Known(kept[g].key, LastOf(kept[g].key))
      /\ page.canvas \subseteq Known(page.key, LastOf(page.key))
  BY DEF NodesInv, PlanPage
<1>4. PlanPage(q, LastOf(q.key))
  <2>1. << >> \in Seq(KnownOps(q.key, LastOf(q.key)))
    OBVIOUS
  <2> QED
    BY <1>2, <1>3, <2>1 DEF PlanPage
<1>5. Leave(page).key = page.key /\ Leave(page).canvas = page.canvas
  BY DEF Leave
<1>6. \A g \in Flow : kept'[g].canvas \subseteq Known(kept'[g].key, LastOf(kept'[g].key))
  BY <1>1, <1>3, <1>5
<1>7. \A key : (IF key = None THEN 0 ELSE server'[key].rev) = LastOf(key)
  BY <1>1 DEF LastOf
<1> QED
  BY <1>1, <1>2, <1>4, <1>6, <1>7 DEF NodesInv, LastOf

LEMMA NodesReloaded ==
  ASSUME PageInv, NodesInv, Reload
  PROVE  NodesInv'
<1> DEFINE q == Restored(page.flow, Drafted(Leave(page)))
<1>1. /\ server' = server /\ page' = q /\ link'.inbox = << >> /\ link'.stage \in {"off", "probe"}
      /\ kept' = [f \in Flow |-> Drafted(kept[f])]
  BY DEF Reload, LinkFor, Linked
<1>2. /\ q.key = page.key /\ q.canvas = page.canvas /\ q.ops = << >> /\ q.snaps = {} /\ q.flush = None
  BY DEF Restored, Drafted, Leave
<1> HIDE DEF q
<1>3. /\ \A g \in Flow : kept[g].canvas \subseteq Known(kept[g].key, LastOf(kept[g].key))
      /\ page.canvas \subseteq Known(page.key, LastOf(page.key)) /\ kept \in [Flow -> Kept]
  BY DEF NodesInv, PlanPage, PageInv
<1>4. PlanPage(q, LastOf(q.key))
  <2>1. << >> \in Seq(KnownOps(q.key, LastOf(q.key)))
    OBVIOUS
  <2> QED
    BY <1>2, <1>3, <2>1 DEF PlanPage
<1>5. \A g \in Flow : kept'[g].key = kept[g].key /\ kept'[g].canvas = kept[g].canvas
  BY <1>1, <1>3 DEF Drafted, Kept
<1>6. \A g \in Flow : kept'[g].canvas \subseteq Known(kept'[g].key, LastOf(kept'[g].key))
  BY <1>3, <1>5
<1>7. \A key : (IF key = None THEN 0 ELSE server'[key].rev) = LastOf(key)
  BY <1>1 DEF LastOf
<1>8. \A d \in calls' : d.nodes \subseteq Known(d.key, LastOf(d.key))
  BY RequestNodes DEF Kin, NodesInv
<1>9. PlanPage(page, LastOf(page.key))'
  BY <1>1, <1>4, <1>7 DEF LastOf
<1>10. \A g \in Flow : kept'[g].canvas \subseteq Known(kept'[g].key, LastOf(kept[g].key)')
  BY <1>6, <1>7 DEF LastOf
<1>11. \A d \in calls' : d.nodes \subseteq Known(d.key, LastOf(d.key)')
  BY <1>7, <1>8 DEF LastOf
<1>12. \A s \in Session : server'[s].nodes \subseteq Known(s, server'[s].rev)
  BY <1>1 DEF NodesInv
<1> QED
  BY <1>1, <1>2, <1>9, <1>10, <1>11, <1>12 DEF NodesInv

LEMMA NodesStep == PageInv /\ ChatInv /\ NodesInv /\ [Next]_vars => NodesInv'
<1> SUFFICES ASSUME PageInv, ChatInv, NodesInv, [Next]_vars PROVE NodesInv'
  OBVIOUS
<1>1. CASE Planner \/ Serve
  BY <1>1, NodesServed
<1>2. CASE Answer
  BY <1>2, NodesAnswered
<1>3. CASE ServeProbe \/ Subscribe \/ ServerCloses \/ Cut
  BY <1>3, NodesLinked
<1>4. CASE StaleSession
  BY <1>4, NodesForgotten
<1>5. CASE OpenStream
  BY <1>5, NodesOpened
<1>6. CASE Deliver
  BY <1>6, NodesDelivered
<1>7. CASE Timers
  BY <1>7, NodesPlayed
<1>8. CASE Prompt
  BY <1>8, NodesPrompted
<1>9. CASE Stop
  BY <1>9, NodesStopped
<1>10. CASE Reload
  BY <1>10, NodesReloaded
<1>11. CASE \E f \in Flow : SwitchFlow(f)
  BY <1>11, NodesLeft
<1>12. CASE \E c \in calls : LoseCall(c)
  <2>1. \A d \in calls' : d.nodes \subseteq Known(d.key, LastOf(d.key))
    BY <1>12, RequestNodes DEF Kin, NodesInv
  <2>2. UNCHANGED <<server, page, kept, link>> /\ Queue(page, page)
    BY <1>12 DEF LoseCall, Queue
  <2> QED
    BY <2>1, <2>2, NodesKeep
<1>13. CASE UNCHANGED vars
  <2>1. UNCHANGED <<server, page, kept, link, calls>> /\ Queue(page, page)
    BY <1>13 DEF vars, Queue
  <2> QED
    BY <2>1, FewerRequests, NodesKeep
<1> QED
  BY <1>1, <1>2, <1>3, <1>4, <1>5, <1>6, <1>7, <1>8, <1>9, <1>10, <1>11, <1>12, <1>13
     DEF Next, Stream, User, Faults

-----------------------------------------------------------------------------
(* What the page shows of the plan.                                        *)

(* The planner's nodes; the user's own is not the stream's concern.        *)
Plan(nodes) == nodes \ {Own}
OwnOps == {o \in Operation : o.node = Own}

(* The page shows the nodes once its queue is played: the snapshot that    *)
(* waits has them, or it shows them and no operation changes them.         *)
Shows(p, nodes) ==
  /\ \A w \in p.snaps : Plan(w[2]) = nodes
  /\ p.snaps = {} => Plan(p.canvas) = nodes /\ p.ops \in Seq(OwnOps)

(* An operation of the planner and the snapshot published after it.        *)
Change(e) == e.kind = "patch" /\ ~e.first
Result(e) == e.kind = "snapshot" /\ ~e.first

(* H is the plan by revision.  The events are along it: each shows the plan *)
(* of its revision, each operation is followed by its snapshot and changes  *)
(* the plan or is on the user's node, and revisions do not go down.         *)
Along(H, q, now) ==
  /\ H[now.rev] = Plan(now.nodes)
  /\ \A i \in DOMAIN q : Plan(q[i].of.nodes) = H[q[i].of.rev]
  /\ \A i \in DOMAIN q : Change(q[i]) =>
       /\ i + 1 \in DOMAIN q /\ Result(q[i + 1]) /\ q[i + 1].of = q[i].of
       /\ q[i].of.rev > 0
       /\ \E op \in Operation : /\ q[i].ops = <<op>>
                                /\ op.node = Own \/ H[q[i].of.rev] # H[q[i].of.rev - 1]
  /\ \A i \in DOMAIN q : Result(q[i]) /\ i # 1 => i - 1 \in DOMAIN q /\ Change(q[i - 1])
  /\ \A i, j \in DOMAIN q : j <= i /\ Change(q[i]) /\ Change(q[j]) => q[j].of.rev <= q[i].of.rev

Begins(q) == 1 \in DOMAIN q /\ q[1].first
Pair(q, rev) == 1 \in DOMAIN q /\ Result(q[1]) /\ q[1].of.rev = rev

(* The stream after it opened: it has sent the plan of seen.rev, or the     *)
(* snapshot with it is next; every later revision is on its way; and once   *)
(* the whole session has arrived the page shows what was sent, unless a     *)
(* stop threw it away, or will with the next snapshot.                      *)
Sent(H, q, now, seen, p, lost) ==
  /\ seen.rev <= now.rev /\ p.rev <= seen.rev
  /\ \A i \in DOMAIN q : q[i].first =>
       /\ q[i].of.rev = seen.rev /\ \A j \in DOMAIN q : j <= i => q[j].first
       /\ q[i].kind # "snapshot" => i + 1 \in DOMAIN q /\ q[i + 1].first
  /\ 1 \in DOMAIN q /\ Result(q[1]) => q[1].of.rev <= seen.rev
  /\ Plan(seen.nodes) = H[seen.rev] \/ Pair(q, seen.rev)
  /\ \A r \in seen.rev + 1 .. now.rev : \E i \in DOMAIN q : Change(q[i]) /\ q[i].of.rev = r
  /\ ~Begins(q) =>
       /\ p.rev = seen.rev
       /\ lost \/ Shows(p, H[seen.rev]) \/ (Pair(q, seen.rev) /\ q[1].of.nodes # seen.nodes)

Tracks(H) ==
  /\ Along(H, link.inbox, server[page.key])
  /\ link.stage = "join" => 1 \notin DOMAIN link.inbox \/ ~Result(link.inbox[1])
  /\ link.stage = "open" => Sent(H, link.inbox, server[page.key], link.seen, page, dropped)

CanvasInv == Listening => \E H \in [Nat -> SUBSET Node] : Tracks(H)

LEMMA ShowsQueue ==
  ASSUME NEW p, NEW q, Queue(q, p), NEW nodes, Shows(p, nodes)
  PROVE  Shows(q, nodes)
  BY DEF Shows, Queue

(* What clears the queue applies the snapshot first.                       *)
LEMMA ShowsSession ==
  ASSUME NEW p, NEW o, PageOf(p, o), NEW last, PlanPage(p, last), NEW nodes, Shows(p, nodes)
  PROVE  Shows(ClearSessionRuntime(p, p.key), nodes)
<1> DEFINE s == p.key
           t == ApplyPendingSnapshot(p, s)
           c == ClearQueue(t, s)
           q == ClearSessionRuntime(p, s)
<1>1. p \in Page
  BY DEF PageOf
<1>2. q.canvas = t.canvas /\ Queue(q, c) /\ c \in Page /\ t \in Page
  BY SessionFields
<1>3. /\ t.ops = p.ops /\ t.snaps = SnapsBut(p, s)
      /\ \/ (\A w \in p.snaps : w[1] # s) /\ t.canvas = p.canvas
         \/ \E w \in p.snaps : w[1] = s /\ t.canvas = w[2]
  BY <1>1, SnapshotFields
<1> HIDE DEF t
<1>4. c.ops = OpsBut(t, s) /\ c.snaps = SnapsBut(t, s) /\ c.canvas = t.canvas
  BY <1>2, ClearFields
<1> HIDE DEF c, q
<1>5. c.ops = << >>
  <2>1. t.ops \in Seq(KnownOps(s, last))
    BY <1>3 DEF PlanPage
  <2>2. OpsBut(t, s) \in Seq({x \in KnownOps(s, last) : x.key # s})
    BY <2>1, OpsButLeaves
  <2>3. {x \in KnownOps(s, last) : x.key # s} = {}
    BY DEF KnownOps
  <2> QED
    BY <1>4, <2>2, <2>3
<1>6. SnapsBut(p, s) = {} /\ SnapsBut(t, s) = {}
  BY <1>3 DEF SnapsBut, PlanPage
<1>7. Plan(t.canvas) = nodes
  <2>1. CASE p.snaps = {}
    BY <1>3, <2>1 DEF Shows
  <2>2. CASE p.snaps # {}
    <3>1. PICK w \in p.snaps : t.canvas = w[2]
      BY <1>3, <2>2 DEF PlanPage
    <3> QED
      BY <3>1 DEF Shows
  <2> QED
    BY <2>1, <2>2
<1>8. q.ops = << >> /\ q.snaps = {} /\ Plan(q.canvas) = nodes
  BY <1>2, <1>4, <1>5, <1>6, <1>7 DEF Queue
<1>9. Shows(q, nodes)
  BY <1>8 DEF Shows
<1> QED
  BY <1>9 DEF q

LEMMA ShowsEnqueue ==
  ASSUME NEW p \in Page, NEW nodes, Shows(p, nodes), NEW op \in OwnOps
  PROVE  Shows(Enqueue(p, <<op>>), nodes)
<1> DEFINE q == Enqueue(p, <<op>>)
<1>1. q.ops = p.ops \o <<op>> /\ q.snaps = p.snaps /\ q.canvas = p.canvas
  BY EnqueueFields
<1>2. p.ops \in Seq(OwnOps) => p.ops \o <<op>> \in Seq(OwnOps)
  OBVIOUS
<1> HIDE DEF q
<1>3. Shows(q, nodes)
  BY <1>1, <1>2 DEF Shows
<1> QED
  BY <1>3 DEF q

(* A snapshot is shown at once, or waits for the queue.                    *)
LEMMA ShowsShown ==
  ASSUME NEW p \in Page, NEW last, PlanPage(p, last), p.snaps # {} => p.flush # None, NEW nodes
  PROVE  Shows(ApplyOrQueueSnapshot(p, p.key, nodes), Plan(nodes))
<1> DEFINE q == ApplyOrQueueSnapshot(p, p.key, nodes)
<1>1. /\ q.ops = p.ops
      /\ Busy(p) => q.snaps = SnapsBut(p, p.key) \cup {<<p.key, nodes>>} /\ q.canvas = p.canvas
      /\ ~Busy(p) => q.snaps = p.snaps /\ q.canvas = nodes
  BY ShownFields
<1> HIDE DEF q
<1>2. SnapsBut(p, p.key) = {}
  BY DEF SnapsBut, PlanPage
<1>3. CASE Busy(p)
  <2>1. q.snaps = {<<p.key, nodes>>}
    BY <1>1, <1>2, <1>3
  <2>2. \A w \in q.snaps : w[2] = nodes
    BY <2>1
  <2>3. Shows(q, Plan(nodes))
    BY <2>1, <2>2 DEF Shows
  <2> QED
    BY <2>3 DEF q
<1>4. CASE ~Busy(p)
  <2>1. p.snaps = {} /\ p.ops = << >>
    BY <1>4 DEF Busy
  <2>2. Shows(q, Plan(nodes))
    BY <1>1, <1>4, <2>1 DEF Shows
  <2> QED
    BY <2>2 DEF q
<1> QED
  BY <1>3, <1>4

LEMMA ShowsPlayed ==
  ASSUME NEW p, NEW o, PageOf(p, o), p.flush # None, NEW last, PlanPage(p, last), NEW nodes, Shows(p, nodes)
  PROVE  Shows(Play(p), nodes)
<1> DEFINE s == p.flush
           i == NextOf(p, s)
           played == Played(p, i)
           through == ApplyPendingSnapshot(played, s)
           q == Play(p)
<1>1. p \in Page /\ p.ops \in Seq(Operation) /\ s = p.key
  BY DEF PageOf, PlanPage, Page
<1>2. i \in 0 .. Len(p.ops)
  BY <1>1, NextOfType
<1>3. /\ played.snaps = p.snaps /\ played.key = p.key
      /\ i = 0 => played.canvas = p.canvas /\ played.ops = p.ops
      /\ i # 0 => /\ played.ops = RemoveAt(p.ops, i)
                  /\ played.canvas = (IF p.ops[i].put THEN p.canvas \cup {p.ops[i].node}
                                      ELSE p.canvas \ {p.ops[i].node})
  BY <1>1, PlayedFields
<1>4. Shows(played, nodes)
  <2>1. CASE p.snaps # {} \/ i = 0
    BY <1>3, <2>1 DEF Shows
  <2>2. CASE p.snaps = {} /\ i # 0
    <3>1. p.ops \in Seq(OwnOps) /\ Plan(p.canvas) = nodes
      BY <2>2 DEF Shows
    <3>2. i \in 1 .. Len(p.ops)
      BY <1>1, <1>2, <2>2
    <3>3. RemoveAt(p.ops, i) \in Seq(OwnOps) /\ p.ops[i].node = Own
      BY <3>1, <3>2, RemoveAtType DEF OwnOps
    <3>4. Plan(played.canvas) = nodes
      BY <1>3, <2>2, <3>1, <3>3 DEF Plan
    <3> QED
      BY <1>3, <2>2, <3>3, <3>4 DEF Shows
  <2> QED
    BY <2>1, <2>2
<1>5. /\ played \in Page
      /\ NextOf(played, s) # 0 => q = played
      /\ NextOf(played, s) = 0 =>
           q.canvas = through.canvas /\ q.ops = through.ops /\ q.snaps = through.snaps
  BY PlayFields
<1>6. played.ops \in Seq(KnownOps(s, last))
  <2>1. p.ops \in Seq(KnownOps(s, last))
    BY <1>1 DEF PlanPage
  <2>2. i # 0 => RemoveAt(p.ops, i) \in Seq(KnownOps(s, last))
    BY <1>2, <2>1, RemoveAtType
  <2> QED
    BY <1>3, <2>1, <2>2
<1> HIDE DEF played
<1>7. CASE NextOf(played, s) # 0
  BY <1>4, <1>5, <1>7
<1>8. CASE NextOf(played, s) = 0
  <2>1. played.ops = << >>
    <3>1. \A k \in 1 .. Len(played.ops) : played.ops[k].key # s
      BY <1>6, <1>8, NextOfType
    <3>2. \A k \in 1 .. Len(played.ops) : played.ops[k].key = s
      BY <1>6 DEF KnownOps
    <3> QED
      BY <1>6, <3>1, <3>2
  <2>2. /\ through.ops = played.ops /\ through.snaps = SnapsBut(played, s)
        /\ \/ (\A w \in played.snaps : w[1] # s) /\ through.canvas = played.canvas
           \/ \E w \in played.snaps : w[1] = s /\ through.canvas = w[2]
    BY <1>5, SnapshotFields
  <2> HIDE DEF through, q
  <2>3. \A w \in played.snaps : w[1] = s
    BY <1>1, <1>3 DEF PlanPage
  <2>4. SnapsBut(played, s) = {}
    BY <2>3 DEF SnapsBut
  <2>5. Plan(through.canvas) = nodes
    <3>1. CASE played.snaps = {}
      BY <1>4, <2>2, <3>1 DEF Shows
    <3>2. CASE played.snaps # {}
      <4>1. PICK w \in played.snaps : through.canvas = w[2]
        BY <2>2, <2>3, <3>2
      <4> QED
        BY <1>4, <4>1 DEF Shows
    <3> QED
      BY <3>1, <3>2
  <2>6. q.ops = << >> /\ q.snaps = {} /\ q.canvas = through.canvas
    BY <1>5, <1>8, <2>1, <2>2, <2>4
  <2>7. Shows(q, nodes)
    BY <2>5, <2>6 DEF Shows
  <2> QED
    BY <2>7 DEF q
<1> QED
  BY <1>7, <1>8

(* An event without nodes keeps what the page shows.                       *)
LEMMA ShowsTold ==
  ASSUME NEW p, NEW o, PageOf(p, o), p.key \in Session, NEW m, EventOf(m, p.flow, o),
         m.kind \in {"session", "messages"}, ~NeedsResync(p, m),
         NEW last, PlanPage(p, last), NEW nodes, Shows(p, nodes)
  PROVE  Shows(Handled(p, m), nodes)
<1>1. CASE m.kind = "messages"
  <2>1. Handled(p, m) = OnMessages(p, m) /\ p \in Page
    BY <1>1 DEF Handled, NeedsResync, PageOf
  <2>2. Queue(OnMessages(p, m), p)
    BY <2>1, MessageFields
  <2> QED
    BY <2>1, <2>2, ShowsQueue
<1>2. CASE m.kind = "session"
  <2> DEFINE q == OnSession(p, m)
  <2>1. Handled(p, m) = q
    BY <1>2 DEF Handled
  <2>2. \/ q = p
        \/ Queue(q, p)
        \/ \E r : PageOf(r, o) /\ Queue(r, p) /\ r.key = p.key /\ q = ClearSessionRuntime(r, p.key)
    BY SessionEventFields
  <2> HIDE DEF q
  <2>3. ASSUME NEW r, PageOf(r, o), Queue(r, p), r.key = p.key PROVE Shows(ClearSessionRuntime(r, p.key), nodes)
    <3>1. PlanPage(r, last) /\ Shows(r, nodes)
      BY <2>3, QueuePlan, ShowsQueue
    <3> QED
      BY <2>3, <3>1, ShowsSession
  <2>4. Shows(q, nodes)
    BY <2>2, <2>3, ShowsQueue
  <2> QED
    BY <2>1, <2>4
<1> QED
  BY <1>1, <1>2

(* An operation on the user's node keeps it as well.                       *)
LEMMA ShowsOperation ==
  ASSUME NEW p, NEW o, PageOf(p, o), p.key \in Session, NEW m, EventOf(m, p.flow, o),
         m.kind = "patch", ~NeedsResync(p, m), m.of.rev > p.rev, NEW op \in OwnOps, m.ops = <<op>>,
         NEW nodes, Shows(p, nodes)
  PROVE  Shows(Handled(p, m), nodes)
<1> DEFINE q == OnNodes(p, m)
<1>1. Handled(p, m) = q
  BY DEF Handled
<1>2. m.of.rev \in Int /\ p.rev \in Int
  BY DEF EventOf, PageOf
<1>3. ~Old(p, m) /\ m.of.rev # p.rev
  BY <1>2 DEF Old
<1>4. \E k \in Page : Queue(k, p) /\ Queue(q, Enqueue(k, m.ops))
  BY <1>3, NodeFields
<1>5. PICK k \in Page : Queue(k, p) /\ Queue(q, Enqueue(k, m.ops))
  BY <1>4
<1> HIDE DEF q
<1>6. Shows(k, nodes)
  BY <1>5, ShowsQueue
<1>7. Shows(Enqueue(k, m.ops), nodes)
  BY <1>6, ShowsEnqueue
<1>8. Shows(q, nodes)
  BY <1>5, <1>7, ShowsQueue
<1> QED
  BY <1>1, <1>8

(* A snapshot that is taken brings its nodes and its revision.             *)
LEMMA ShowsSnapshot ==
  ASSUME NEW p, NEW o, PageOf(p, o), p.key \in Session, NEW m, EventOf(m, p.flow, o),
         m.kind = "snapshot", ~NeedsResync(p, m), m.of.rev >= p.rev,
         NEW last, PlanPage(p, last)
  PROVE  /\ Shows(Handled(p, m), Plan(m.of.nodes)) /\ Handled(p, m).rev = m.of.rev /\ Takes(p, m)
<1> DEFINE q == OnNodes(p, m)
<1>1. Handled(p, m) = q
  BY DEF Handled
<1>2. m.of.rev \in Int /\ p.rev \in Int /\ (p.snaps # {} => p.flush # None)
  BY DEF EventOf, PageOf
<1>3. ~Old(p, m)
  BY <1>2 DEF Old
<1>4. /\ q.rev = m.of.rev
      /\ \E k \in Page : Queue(k, p) /\ k.key = p.key /\ Queue(q, ApplyOrQueueSnapshot(k, p.key, m.of.nodes))
  BY <1>3, NodeFields
<1>5. PICK k \in Page : Queue(k, p) /\ k.key = p.key /\ Queue(q, ApplyOrQueueSnapshot(k, p.key, m.of.nodes))
  BY <1>4
<1> HIDE DEF q
<1>6. PlanPage(k, last) /\ (k.snaps # {} => k.flush # None)
  BY <1>2, <1>5, QueuePlan DEF Queue
<1>7. Shows(ApplyOrQueueSnapshot(k, k.key, m.of.nodes), Plan(m.of.nodes))
  BY <1>6, ShowsShown
<1>8. Shows(q, Plan(m.of.nodes))
  BY <1>5, <1>7, ShowsQueue
<1> QED
  BY <1>1, <1>3, <1>4, <1>8 DEF Takes

(* Along the plan, one event less or some more.                            *)

LEMMA AlongTail ==
  ASSUME NEW q \in Seq(Event), q # << >>, NEW H, NEW now, Along(H, q, now)
  PROVE  LET rest == Tail(q) IN
         /\ Along(H, rest, now)
         /\ 1 \in DOMAIN q
         /\ Change(q[1]) => 1 \in DOMAIN rest /\ Result(rest[1]) /\ rest[1].of = q[1].of
         /\ ~Change(q[1]) => 1 \notin DOMAIN rest \/ ~Result(rest[1])
<1> DEFINE rest == Tail(q)
<1>1. /\ \A i \in DOMAIN rest : i + 1 \in DOMAIN q /\ rest[i] = q[i + 1] /\ i \in Nat
      /\ \A i \in DOMAIN q : i \in Nat /\ (i # 1 => i - 1 \in DOMAIN rest /\ rest[i - 1] = q[i])
      /\ 1 \in DOMAIN q
  BY TailOf
<1>2. DOMAIN rest \subseteq Nat \ {0}
  OBVIOUS
<1> HIDE DEF rest
<1>3. H[now.rev] = Plan(now.nodes) /\ \A i \in DOMAIN rest : Plan(rest[i].of.nodes) = H[rest[i].of.rev]
  BY <1>1 DEF Along
<1>4. ASSUME NEW i \in DOMAIN rest, Change(rest[i])
      PROVE  /\ i + 1 \in DOMAIN rest /\ Result(rest[i + 1]) /\ rest[i + 1].of = rest[i].of
             /\ rest[i].of.rev > 0
             /\ \E op \in Operation : /\ rest[i].ops = <<op>>
                                      /\ op.node = Own \/ H[rest[i].of.rev] # H[rest[i].of.rev - 1]
  <2>1. /\ i \in Nat /\ rest[i] = q[i + 1] /\ i + 1 \in DOMAIN q
    BY <1>1
  <2>2. (i + 1) + 1 \in DOMAIN q /\ Result(q[(i + 1) + 1]) /\ q[(i + 1) + 1].of = q[i + 1].of
    BY <1>4, <2>1 DEF Along
  <2>3. i + 1 \in DOMAIN rest /\ rest[i + 1] = q[(i + 1) + 1]
    BY <1>1, <2>1, <2>2
  <2>4. /\ q[i + 1].of.rev > 0
        /\ \E op \in Operation : /\ q[i + 1].ops = <<op>>
                                 /\ op.node = Own \/ H[q[i + 1].of.rev] # H[q[i + 1].of.rev - 1]
    BY <1>4, <2>1 DEF Along
  <2> QED
    BY <2>1, <2>2, <2>3, <2>4
<1>5. ASSUME NEW i \in DOMAIN rest, Result(rest[i]), i # 1 PROVE i - 1 \in DOMAIN rest /\ Change(rest[i - 1])
  <2>1. i \in Nat /\ i # 0 /\ rest[i] = q[i + 1] /\ i + 1 \in DOMAIN q
    BY <1>1, <1>2
  <2>2. (i + 1) - 1 \in DOMAIN q /\ Change(q[(i + 1) - 1]) /\ (i + 1) - 1 = i
    BY <1>5, <2>1 DEF Along
  <2>3. i - 1 \in DOMAIN rest /\ rest[i - 1] = q[i]
    BY <1>1, <1>5, <2>2
  <2> QED
    BY <2>2, <2>3
<1>6. ASSUME NEW i \in DOMAIN rest, NEW j \in DOMAIN rest, j <= i, Change(rest[i]), Change(rest[j])
      PROVE  rest[j].of.rev <= rest[i].of.rev
  <2>1. i \in Nat /\ j \in Nat /\ rest[i] = q[i + 1] /\ i + 1 \in DOMAIN q /\ rest[j] = q[j + 1] /\ j + 1 \in DOMAIN q
    BY <1>1
  <2>2. j + 1 <= i + 1
    BY <1>6, <2>1
  <2> QED
    BY <1>6, <2>1, <2>2 DEF Along
<1>7. Along(H, rest, now)
  BY <1>3, <1>4, <1>5, <1>6 DEF Along
<1>8. ASSUME Change(q[1]) PROVE 1 \in DOMAIN rest /\ Result(rest[1]) /\ rest[1].of = q[1].of
  <2>1. 1 + 1 \in DOMAIN q /\ Result(q[1 + 1]) /\ q[1 + 1].of = q[1].of
    BY <1>1, <1>8 DEF Along
  <2>2. (1 + 1) - 1 \in DOMAIN rest /\ rest[(1 + 1) - 1] = q[1 + 1] /\ (1 + 1) - 1 = 1
    BY <1>1, <2>1
  <2> QED
    BY <2>1, <2>2
<1>9. ASSUME 1 \in DOMAIN rest, Result(rest[1]) PROVE Change(q[1])
  <2>1. 1 + 1 \in DOMAIN q /\ rest[1] = q[1 + 1]
    BY <1>1, <1>9
  <2>2. (1 + 1) - 1 \in DOMAIN q /\ Change(q[(1 + 1) - 1]) /\ (1 + 1) - 1 = 1
    BY <1>9, <2>1 DEF Along
  <2> QED
    BY <2>2
<1> QED
  BY <1>1, <1>7, <1>8, <1>9 DEF rest

LEMMA Places ==
  ASSUME NEW T, NEW q \in Seq(T), NEW more \in Seq(T)
  PROVE  LET both == q \o more
             n == Len(q) IN
         /\ n \in Nat /\ DOMAIN q = 1 .. n /\ DOMAIN more \subseteq Nat \ {0}
         /\ \A i \in DOMAIN q : i \in DOMAIN both /\ both[i] = q[i] /\ i \in Nat /\ i # 0
         /\ \A i \in DOMAIN more : n + i \in DOMAIN both /\ both[n + i] = more[i] /\ i \in Nat
         /\ \A i \in DOMAIN both : i \in Nat /\ (i > n => i - n \in DOMAIN more /\ both[i] = more[i - n])
                                   /\ (i <= n => i \in DOMAIN q)
<1> DEFINE both == q \o more
           n == Len(q)
<1>1. /\ Len(more) \in Nat /\ DOMAIN more = 1 .. Len(more)
      /\ DOMAIN both = 1 .. n + Len(more)
      /\ \A i \in 1 .. n : both[i] = q[i]
      /\ \A i \in DOMAIN both : i > n => i - n \in DOMAIN more /\ both[i] = more[i - n]
  BY Joined
<1>2. n \in Nat /\ DOMAIN q = 1 .. n
  OBVIOUS
<1> HIDE DEF both, n
<1>3. \A i \in DOMAIN more : n + i \in DOMAIN both /\ n + i > n /\ (n + i) - n = i
  BY <1>1, <1>2
<1>4. \A i \in DOMAIN more : both[n + i] = more[i]
  BY <1>1, <1>3
<1>5. \A i \in DOMAIN both : i \in Nat /\ (i <= n => i \in DOMAIN q)
  BY <1>1, <1>2
<1> QED
  BY <1>1, <1>2, <1>3, <1>4, <1>5

(* G is H as far as last; events of these revisions; later events that     *)
(* change more; and the events of a new state of the session.              *)
Extends(G, H, last) == \A r \in 0 .. last : G[r] = H[r]
UpTo(q, last) == \A i \in DOMAIN q : q[i].of.rev \in 0 .. last
Later(more, q) ==
  /\ 1 \notin DOMAIN more \/ ~Result(more[1])
  /\ \A i \in DOMAIN q, j \in DOMAIN more :
       Change(q[i]) /\ Change(more[j]) => q[i].of.rev <= more[j].of.rev
News(events, old, now) ==
  /\ old.rev <= now.rev
  /\ 1 \in DOMAIN events /\ ~Result(events[1]) /\ \A i \in DOMAIN events : ~events[i].first
  /\ \A i \in DOMAIN events : Change(events[i]) => events[i].of.rev = now.rev
  /\ \A r \in old.rev + 1 .. now.rev : \E i \in DOMAIN events : Change(events[i]) /\ events[i].of.rev = r

LEMMA AlongMore ==
  ASSUME NEW q \in Seq(Event), NEW more \in Seq(Event), NEW H, NEW G, NEW old, NEW now,
         Along(H, q, old), Along(G, more, now), NEW last \in Nat,
         UpTo(q, last), Extends(G, H, last), Later(more, q)
  PROVE  Along(G, q \o more, now)
<1> DEFINE both == q \o more
           n == Len(q)
<1>0. /\ \A i \in DOMAIN q : q[i].of.rev \in 0 .. last
      /\ \A r \in 0 .. last : G[r] = H[r]
      /\ 1 \notin DOMAIN more \/ ~Result(more[1])
      /\ \A i \in DOMAIN q, j \in DOMAIN more :
           Change(q[i]) /\ Change(more[j]) => q[i].of.rev <= more[j].of.rev
  BY DEF UpTo, Extends, Later
<1>1. /\ n \in Nat /\ DOMAIN q = 1 .. n /\ DOMAIN more \subseteq Nat \ {0}
      /\ \A i \in DOMAIN q : i \in DOMAIN both /\ both[i] = q[i] /\ i \in Nat /\ i # 0
      /\ \A i \in DOMAIN more : n + i \in DOMAIN both /\ both[n + i] = more[i] /\ i \in Nat
      /\ \A i \in DOMAIN both : i \in Nat /\ (i > n => i - n \in DOMAIN more /\ both[i] = more[i - n])
                                /\ (i <= n => i \in DOMAIN q)
  BY Places
<1> HIDE DEF both, n
<1>2. ASSUME NEW i \in DOMAIN both PROVE Plan(both[i].of.nodes) = G[both[i].of.rev]
  <2>1. CASE i <= n
    <3>1. i \in DOMAIN q /\ both[i] = q[i] /\ q[i].of.rev \in 0 .. last
      BY <1>0, <1>1, <2>1
    <3> QED
      BY <1>0, <3>1 DEF Along
  <2>2. CASE i > n
    BY <1>1, <2>2 DEF Along
  <2> QED
    BY <1>1, <2>1, <2>2
<1>3. ASSUME NEW i \in DOMAIN both, Change(both[i])
      PROVE  /\ i + 1 \in DOMAIN both /\ Result(both[i + 1]) /\ both[i + 1].of = both[i].of
             /\ both[i].of.rev > 0
             /\ \E op \in Operation : /\ both[i].ops = <<op>>
                                      /\ op.node = Own \/ G[both[i].of.rev] # G[both[i].of.rev - 1]
  <2>1. CASE i <= n
    <3>1. i \in DOMAIN q /\ both[i] = q[i] /\ q[i].of.rev \in 0 .. last /\ Change(q[i])
      BY <1>0, <1>1, <1>3, <2>1
    <3>2. i + 1 \in DOMAIN q /\ Result(q[i + 1]) /\ q[i + 1].of = q[i].of /\ q[i].of.rev > 0
      BY <3>1 DEF Along
    <3>3. i + 1 \in DOMAIN both /\ both[i + 1] = q[i + 1]
      BY <1>1, <3>2
    <3>4. PICK op \in Operation : q[i].ops = <<op>> /\ (op.node = Own \/ H[q[i].of.rev] # H[q[i].of.rev - 1])
      BY <3>1 DEF Along
    <3>5. G[q[i].of.rev] = H[q[i].of.rev] /\ G[q[i].of.rev - 1] = H[q[i].of.rev - 1]
      <4>1. q[i].of.rev - 1 \in 0 .. last
        BY <3>1, <3>2
      <4> QED
        BY <1>0, <3>1, <4>1
    <3> QED
      BY <3>1, <3>2, <3>3, <3>4, <3>5
  <2>2. CASE i > n
    <3>1. i - n \in DOMAIN more /\ both[i] = more[i - n] /\ i \in Nat /\ Change(more[i - n])
      BY <1>1, <1>3, <2>2
    <3>2. (i - n) + 1 \in DOMAIN more /\ Result(more[(i - n) + 1]) /\ more[(i - n) + 1].of = more[i - n].of
      BY <3>1 DEF Along
    <3>3. n + ((i - n) + 1) \in DOMAIN both /\ both[n + ((i - n) + 1)] = more[(i - n) + 1] /\ n + ((i - n) + 1) = i + 1
      BY <1>1, <3>1, <3>2
    <3>4. /\ more[i - n].of.rev > 0
          /\ \E op \in Operation : /\ more[i - n].ops = <<op>>
                                   /\ op.node = Own \/ G[more[i - n].of.rev] # G[more[i - n].of.rev - 1]
      BY <3>1 DEF Along
    <3> QED
      BY <3>1, <3>2, <3>3, <3>4
  <2> QED
    BY <1>1, <2>1, <2>2
<1>4. ASSUME NEW i \in DOMAIN both, Result(both[i]), i # 1 PROVE i - 1 \in DOMAIN both /\ Change(both[i - 1])
  <2>1. CASE i <= n
    <3>1. i \in DOMAIN q /\ both[i] = q[i]
      BY <1>1, <2>1
    <3>2. i - 1 \in DOMAIN q /\ Change(q[i - 1])
      BY <1>4, <3>1 DEF Along
    <3> QED
      BY <1>1, <3>2
  <2>2. CASE i > n
    <3>1. i - n \in DOMAIN more /\ both[i] = more[i - n] /\ i \in Nat
      BY <1>1, <2>2
    <3>2. i - n # 1
      BY <1>0, <1>4, <3>1
    <3>3. (i - n) - 1 \in DOMAIN more /\ Change(more[(i - n) - 1])
      BY <1>4, <3>1, <3>2 DEF Along
    <3>4. n + ((i - n) - 1) \in DOMAIN both /\ both[n + ((i - n) - 1)] = more[(i - n) - 1] /\ n + ((i - n) - 1) = i - 1
      BY <1>1, <3>1, <3>3
    <3> QED
      BY <3>3, <3>4
  <2> QED
    BY <1>1, <2>1, <2>2
<1>5. ASSUME NEW i \in DOMAIN both, NEW j \in DOMAIN both, j <= i, Change(both[i]), Change(both[j])
      PROVE  both[j].of.rev <= both[i].of.rev
  <2>1. CASE i <= n
    <3>1. j <= n
      BY <1>1, <1>5, <2>1
    <3> QED
      BY <1>1, <1>5, <2>1, <3>1 DEF Along
  <2>2. CASE i > n /\ j <= n
    <3>1. i - n \in DOMAIN more /\ both[i] = more[i - n] /\ j \in DOMAIN q /\ both[j] = q[j]
      BY <1>1, <2>2
    <3> QED
      BY <1>0, <1>5, <3>1
  <2>3. CASE i > n /\ j > n
    <3>1. i - n \in DOMAIN more /\ both[i] = more[i - n] /\ j - n \in DOMAIN more /\ both[j] = more[j - n]
      BY <1>1, <2>3
    <3>2. j - n <= i - n
      BY <1>1, <1>5
    <3> QED
      BY <1>5, <3>1, <3>2 DEF Along
  <2> QED
    BY <1>1, <2>1, <2>2, <2>3
<1>6. G[now.rev] = Plan(now.nodes)
  BY DEF Along
<1>7. Along(G, both, now)
  BY <1>2, <1>3, <1>4, <1>5, <1>6 DEF Along
<1> QED
  BY <1>7 DEF both

LEMMA SentMore ==
  ASSUME NEW q \in Seq(Event), NEW more \in Seq(Event), NEW H, NEW G, NEW old, NEW now,
         NEW seen, NEW p, NEW lost, Sent(H, q, old, seen, p, lost),
         seen.rev \in Nat, p.rev \in Int, old.rev \in Nat, now.rev \in Nat,
         Extends(G, H, old.rev), News(more, old, now)
  PROVE  Sent(G, q \o more, now, seen, p, lost)
<1> DEFINE both == q \o more
           n == Len(q)
<1>0. /\ old.rev <= now.rev /\ \A r \in 0 .. old.rev : G[r] = H[r]
      /\ \A i \in DOMAIN more : ~more[i].first
      /\ 1 \in DOMAIN more /\ ~Result(more[1])
      /\ \A r \in old.rev + 1 .. now.rev : \E i \in DOMAIN more : Change(more[i]) /\ more[i].of.rev = r
  BY DEF Extends, News
<1>1. /\ n \in Nat /\ DOMAIN q = 1 .. n /\ DOMAIN more \subseteq Nat \ {0}
      /\ \A i \in DOMAIN q : i \in DOMAIN both /\ both[i] = q[i] /\ i \in Nat /\ i # 0
      /\ \A i \in DOMAIN more : n + i \in DOMAIN both /\ both[n + i] = more[i] /\ i \in Nat
      /\ \A i \in DOMAIN both : i \in Nat /\ (i > n => i - n \in DOMAIN more /\ both[i] = more[i - n])
                                /\ (i <= n => i \in DOMAIN q)
  BY Places
<1> HIDE DEF both, n
<1>2. \A i \in DOMAIN both : both[i].first => i \in DOMAIN q /\ both[i] = q[i]
  BY <1>0, <1>1
<1>3. ASSUME NEW i \in DOMAIN both, both[i].first
      PROVE  /\ both[i].of.rev = seen.rev /\ \A j \in DOMAIN both : j <= i => both[j].first
             /\ both[i].kind # "snapshot" => i + 1 \in DOMAIN both /\ both[i + 1].first
  <2>1. i \in DOMAIN q /\ both[i] = q[i] /\ i <= n
    BY <1>1, <1>2, <1>3
  <2>2. /\ q[i].of.rev = seen.rev /\ \A j \in DOMAIN q : j <= i => q[j].first
        /\ q[i].kind # "snapshot" => i + 1 \in DOMAIN q /\ q[i + 1].first
    BY <1>3, <2>1 DEF Sent
  <2>3. ASSUME NEW j \in DOMAIN both, j <= i PROVE both[j].first
    <3>1. j <= n
      BY <1>1, <2>1, <2>3
    <3>2. j \in DOMAIN q /\ both[j] = q[j]
      BY <1>1, <3>1
    <3> QED
      BY <2>2, <2>3, <3>2
  <2> QED
    BY <1>1, <2>1, <2>2, <2>3
<1>4. 1 \in DOMAIN both /\ (1 \in DOMAIN q => both[1] = q[1]) /\ (1 \notin DOMAIN q => both[1] = more[1])
  <2>1. CASE 1 \in DOMAIN q
    BY <1>1, <2>1
  <2>2. CASE 1 \notin DOMAIN q
    <3>1. n = 0
      BY <1>1, <2>2
    <3>2. n + 1 \in DOMAIN both /\ both[n + 1] = more[1]
      BY <1>0, <1>1
    <3> QED
      BY <2>2, <3>1, <3>2
  <2> QED
    BY <2>1, <2>2
<1>5. /\ Begins(both) => Begins(q)
      /\ Begins(q) => Begins(both)
      /\ \A rev : Pair(both, rev) <=> Pair(q, rev)
      /\ Result(both[1]) => 1 \in DOMAIN q /\ Result(q[1]) /\ both[1] = q[1]
  BY <1>0, <1>1, <1>4 DEF Begins, Pair
<1>6. G[seen.rev] = H[seen.rev] /\ seen.rev <= now.rev /\ p.rev <= seen.rev
  BY <1>0 DEF Sent
<1>7. ASSUME NEW r \in seen.rev + 1 .. now.rev PROVE \E i \in DOMAIN both : Change(both[i]) /\ both[i].of.rev = r
  <2>1. CASE r <= old.rev
    <3>1. PICK i \in DOMAIN q : Change(q[i]) /\ q[i].of.rev = r
      BY <2>1 DEF Sent
    <3> QED
      BY <1>1, <3>1
  <2>2. CASE r > old.rev
    <3>1. PICK i \in DOMAIN more : Change(more[i]) /\ more[i].of.rev = r
      BY <1>0, <2>2
    <3> QED
      BY <1>1, <3>1
  <2> QED
    BY <2>1, <2>2
<1>8. Plan(seen.nodes) = G[seen.rev] \/ Pair(both, seen.rev)
  BY <1>5, <1>6 DEF Sent
<1>9. ASSUME ~Begins(both)
      PROVE  /\ p.rev = seen.rev
             /\ lost \/ Shows(p, G[seen.rev]) \/ (Pair(both, seen.rev) /\ both[1].of.nodes # seen.nodes)
  <2>1. /\ p.rev = seen.rev
        /\ lost \/ Shows(p, H[seen.rev]) \/ (Pair(q, seen.rev) /\ q[1].of.nodes # seen.nodes)
    BY <1>5, <1>9 DEF Sent
  <2>2. Pair(q, seen.rev) => Pair(both, seen.rev) /\ both[1] = q[1]
    BY <1>4, <1>5 DEF Pair
  <2> QED
    BY <1>6, <2>1, <2>2
<1>10. 1 \in DOMAIN both /\ Result(both[1]) => both[1].of.rev <= seen.rev
  BY <1>5 DEF Sent
<1>11. Sent(G, both, now, seen, p, lost)
  BY <1>3, <1>6, <1>7, <1>8, <1>9, <1>10 DEF Sent
<1> QED
  BY <1>11 DEF both

(* The first event has been sent; what it was decides the rest.            *)
LEMMA SentNext ==
  ASSUME NEW q \in Seq(Event), q # << >>, NEW H, NEW now, Along(H, q, now),
         NEW seen, NEW p, NEW lost, Sent(H, q, now, seen, p, lost), seen.rev \in Nat, now.rev \in Nat,
         NEW then, NEW w, NEW gone,
         then.rev \in Nat, seen.rev <= then.rev, then.rev <= now.rev, w.rev <= then.rev,
         Change(q[1]) => q[1].of.rev <= then.rev, q[1].first => then.rev = seen.rev,
         Plan(then.nodes) = H[then.rev] \/ Pair(Tail(q), then.rev),
         ~(q[1].first /\ q[1].kind # "snapshot") =>
           /\ w.rev = then.rev
           /\ \/ gone \/ Shows(w, H[then.rev])
              \/ (Pair(Tail(q), then.rev) /\ Tail(q)[1].of.nodes # then.nodes)
  PROVE  Sent(H, Tail(q), now, then, w, gone)
<1> DEFINE rest == Tail(q)
<1>1. /\ \A i \in DOMAIN rest : i + 1 \in DOMAIN q /\ rest[i] = q[i + 1] /\ i \in Nat
      /\ \A i \in DOMAIN q : i \in Nat /\ (i # 1 => i - 1 \in DOMAIN rest /\ rest[i - 1] = q[i])
      /\ 1 \in DOMAIN q
  BY TailOf
<1>2. /\ Change(q[1]) => 1 \in DOMAIN rest /\ Result(rest[1]) /\ rest[1].of = q[1].of
      /\ ~Change(q[1]) => 1 \notin DOMAIN rest \/ ~Result(rest[1])
  BY AlongTail
<1>3. DOMAIN q \subseteq Nat \ {0}
  OBVIOUS
<1> HIDE DEF rest
<1>4. ASSUME NEW i \in DOMAIN rest, rest[i].first
      PROVE  /\ rest[i].of.rev = then.rev /\ \A j \in DOMAIN rest : j <= i => rest[j].first
             /\ rest[i].kind # "snapshot" => i + 1 \in DOMAIN rest /\ rest[i + 1].first
  <2>1. i \in Nat /\ i + 1 \in DOMAIN q /\ rest[i] = q[i + 1]
    BY <1>1
  <2>2. /\ q[i + 1].of.rev = seen.rev /\ \A j \in DOMAIN q : j <= i + 1 => q[j].first
        /\ q[i + 1].kind # "snapshot" => (i + 1) + 1 \in DOMAIN q /\ q[(i + 1) + 1].first
    BY <1>4, <2>1 DEF Sent
  <2>3. q[1].first
    BY <1>1, <2>1, <2>2
  <2>4. ASSUME NEW j \in DOMAIN rest, j <= i PROVE rest[j].first
    <3>1. j \in Nat /\ j + 1 \in DOMAIN q /\ rest[j] = q[j + 1]
      BY <1>1
    <3>2. j + 1 <= i + 1
      BY <2>1, <2>4, <3>1
    <3> QED
      BY <2>2, <3>1, <3>2
  <2>5. ASSUME rest[i].kind # "snapshot" PROVE i + 1 \in DOMAIN rest /\ rest[i + 1].first
    <3>1. (i + 1) + 1 \in DOMAIN q /\ q[(i + 1) + 1].first
      BY <2>1, <2>2, <2>5
    <3>2. (i + 1) + 1 # 1 /\ ((i + 1) + 1) - 1 = i + 1
      BY <2>1
    <3> QED
      BY <1>1, <3>1, <3>2
  <2> QED
    BY <2>1, <2>2, <2>3, <2>4, <2>5
<1>5. 1 \in DOMAIN rest /\ Result(rest[1]) => rest[1].of.rev <= then.rev
  BY <1>2
<1>6. ASSUME NEW r \in then.rev + 1 .. now.rev PROVE \E i \in DOMAIN rest : Change(rest[i]) /\ rest[i].of.rev = r
  <2>1. r \in seen.rev + 1 .. now.rev /\ r > then.rev
    OBVIOUS
  <2>2. PICK i \in DOMAIN q : Change(q[i]) /\ q[i].of.rev = r
    BY <2>1 DEF Sent
  <2>3. i # 1
    BY <2>1, <2>2
  <2> QED
    BY <1>1, <2>2, <2>3
<1>7. q[1].first /\ q[1].kind # "snapshot" => Begins(rest)
  <2> SUFFICES ASSUME q[1].first, q[1].kind # "snapshot" PROVE Begins(rest)
    OBVIOUS
  <2>1. 1 + 1 \in DOMAIN q /\ q[1 + 1].first
    BY <1>1 DEF Sent
  <2>2. (1 + 1) - 1 \in DOMAIN rest /\ rest[(1 + 1) - 1] = q[1 + 1] /\ (1 + 1) - 1 = 1
    BY <1>1, <2>1
  <2> QED
    BY <2>1, <2>2 DEF Begins
<1>8. Sent(H, rest, now, then, w, gone)
  BY <1>4, <1>5, <1>6, <1>7 DEF Sent, rest
<1> QED
  BY <1>8 DEF rest

LEMMA CanvasDelivered ==
  ASSUME PageInv, StreamInv, NodesInv, CanvasInv, Deliver
  PROVE  CanvasInv'
<1> DEFINE q == link.inbox
           m == Head(q)
           now == server[page.key]
           seen == link.seen
           rest == Tail(q)
           shown == Handled(page, m)
           p == IF Forwards(m) THEN shown ELSE page
           lost == dropped /\ ~(Forwards(m) /\ Takes(page, m))
           l == LinkAfter(m)
<1>1. /\ link.stage = "open" /\ q # << >> /\ server' = server /\ page' = p /\ dropped' = lost
      /\ link' = IF (Forwards(m) /\ NeedsResync(page, m)) \/ Drained(m) THEN Linked("wait") ELSE l
  BY DEF Deliver
<1>2. /\ link \in Link /\ q \in Seq(Event) /\ PageOf(page, owner) /\ page \in Page /\ page.key \in Session
      /\ now \in ServerSession /\ now.rev \in Nat /\ seen.rev \in Nat /\ page.rev \in Int
  BY <1>1 DEF PageInv, Link, PageOf, Page, ServerSession
<1>3. 1 \in DOMAIN q /\ m = q[1]
  BY <1>1, <1>2, TailOf
<1>4. EventOf(m, page.flow, owner) /\ m \in Event /\ m.of.rev \in Nat /\ m.of.rev <= now.rev
  <2> HIDE DEF m, now
  <2>1. EventOf(m, page.flow, owner)
    BY <1>3 DEF PageInv
  <2>2. m.of.rev <= now.rev
    BY <1>1, <1>3 DEF StreamInv, Listening, Told, Past, now
  <2> QED
    BY <2>1, <2>2 DEF EventOf, Event, ServerSession
<1>5. PICK H \in [Nat -> SUBSET Node] : Tracks(H)
  BY <1>1 DEF CanvasInv, Listening
<1>6. Along(H, q, now) /\ Sent(H, q, now, seen, page, dropped)
  BY <1>1, <1>5 DEF Tracks
<1>7. Along(H, rest, now)
  <2> HIDE DEF q, now
  <2> QED
    BY <1>1, <1>2, <1>6, AlongTail
<1>8. CASE link' = Linked("wait")
  BY <1>8 DEF CanvasInv, Listening, Linked
<1>9. CASE link' = l /\ ~(Forwards(m) /\ NeedsResync(page, m))
  <2> DEFINE then == l.seen
             fresh == Forwards(m) /\ ~m.first
  <2>1. /\ l.stage = "open" /\ l.inbox = rest
        /\ then.rev = IF \/ m.kind = "patch" /\ fresh
                         \/ m.kind = "snapshot" /\ m.of.rev >= seen.rev
                      THEN m.of.rev ELSE seen.rev
        /\ then.nodes = IF m.kind = "snapshot" /\ m.of.rev >= seen.rev THEN m.of.nodes ELSE seen.nodes
    <3> HIDE DEF m
    <3> QED
      BY <1>1, <1>2, <1>4, LinkAfterFields
  <2>2. /\ shown.rev \in {page.rev, m.of.rev}
        /\ ~NeedsResync(page, m) /\ m.kind \in {"session", "messages"} => shown.rev = page.rev
    <3> HIDE DEF m
    <3> QED
      BY <1>2, <1>4, RevisionShown
  <2>3. Plan(m.of.nodes) = H[m.of.rev] /\ PlanPage(page, LastOf(page.key)) /\ m.kind \in {"session", "messages", "patch", "snapshot"}
    <3> HIDE DEF m
    <3> QED
      BY <1>3, <1>4, <1>6 DEF Along, NodesInv, Event
  <2>4. /\ page.rev <= seen.rev /\ seen.rev <= now.rev
        /\ m.first => m.of.rev = seen.rev
        /\ Plan(seen.nodes) = H[seen.rev] \/ (Result(m) /\ m.of.rev = seen.rev)
        /\ Result(m) => m.of.rev <= seen.rev
        /\ ~m.first => /\ page.rev = seen.rev
                       /\ \/ dropped \/ Shows(page, H[seen.rev])
                          \/ (Result(m) /\ m.of.rev = seen.rev /\ m.of.nodes # seen.nodes)
    <3> HIDE DEF m, q
    <3> QED
      BY <1>3, <1>6 DEF Sent, Begins, Pair
  <2>5. /\ Change(m) => 1 \in DOMAIN rest /\ Result(rest[1]) /\ rest[1].of = m.of
    <3> HIDE DEF q, now, m
    <3> QED
      BY <1>1, <1>2, <1>3, <1>6, AlongTail
  <2> DEFINE Good == /\ then.rev \in Nat /\ seen.rev <= then.rev /\ then.rev <= now.rev /\ p.rev <= then.rev
                     /\ Change(m) => m.of.rev <= then.rev
                     /\ m.first => then.rev = seen.rev
                     /\ Plan(then.nodes) = H[then.rev] \/ Pair(rest, then.rev)
                     /\ ~(m.first /\ m.kind # "snapshot") =>
                          /\ p.rev = then.rev
                          /\ \/ lost \/ Shows(p, H[then.rev])
                             \/ (Pair(rest, then.rev) /\ rest[1].of.nodes # then.nodes)
  <2> HIDE DEF then, now, seen, rest, q, m
  <2>6. ASSUME m.first PROVE Good
    <3>1. Forwards(m) /\ p = shown /\ ~NeedsResync(page, m) /\ ~fresh /\ ~Change(m) /\ ~Result(m)
      BY <1>9, <2>6 DEF Forwards, Change, Result
    <3>2. then.rev = seen.rev /\ m.of.rev = seen.rev /\ p.rev <= then.rev
      <4> HIDE DEF shown, p
      <4> QED
        BY <1>2, <2>1, <2>2, <2>4, <2>6, <3>1
    <3>3. CASE m.kind # "snapshot"
      <4>1. then.nodes = seen.nodes
        BY <2>1, <3>3
      <4> HIDE DEF shown, p
      <4> QED
        BY <1>2, <2>4, <2>6, <3>1, <3>2, <3>3, <4>1
    <3>4. CASE m.kind = "snapshot"
      <4>1. then.nodes = m.of.nodes
        BY <1>2, <2>1, <3>2, <3>4
      <4>2. Shows(shown, Plan(m.of.nodes)) /\ shown.rev = m.of.rev
        BY <1>2, <1>4, <2>3, <2>4, <3>1, <3>2, <3>4, ShowsSnapshot
      <4> HIDE DEF shown, p, lost
      <4> QED
        BY <1>2, <2>3, <2>4, <2>6, <3>1, <3>2, <4>1, <4>2
    <3> QED
      BY <3>3, <3>4
  <2>7. ASSUME ~m.first, m.kind \in {"session", "messages"} PROVE Good
    <3>1. ~Change(m) /\ ~Result(m) /\ then.rev = seen.rev /\ then.nodes = seen.nodes
      BY <2>1, <2>7 DEF Change, Result
    <3>2. p.rev = page.rev
      BY <1>9, <2>2, <2>7
    <3>3. lost \/ Shows(p, H[then.rev])
      <4>1. dropped => lost
        BY <2>7 DEF Takes
      <4>2. CASE Shows(page, H[seen.rev])
        <5>1. ~NeedsResync(page, m) => Shows(shown, H[seen.rev])
          BY <1>2, <1>4, <2>3, <2>7, <4>2, ShowsTold
        <5> QED
          BY <1>9, <3>1, <4>2, <5>1
      <4> QED
        BY <2>4, <2>7, <3>1, <4>1, <4>2
    <3> HIDE DEF p, lost
    <3> QED
      BY <1>2, <2>4, <2>7, <3>1, <3>2, <3>3
  <2>8. ASSUME ~m.first, m.kind = "patch" PROVE Good
    <3>1. Change(m) /\ ~Result(m) /\ then.nodes = seen.nodes /\ (Forwards(m) <=> m.of.rev > seen.rev)
      BY <2>1, <2>8 DEF Change, Result, Forwards, seen
    <3>2. lost <=> dropped
      BY <2>8 DEF Takes
    <3>3. CASE ~Forwards(m)
      <4>1. then.rev = seen.rev /\ p = page /\ m.of.rev <= then.rev
        BY <1>2, <1>4, <2>1, <2>8, <3>1, <3>3
      <4> HIDE DEF p, lost
      <4> QED
        BY <1>2, <2>4, <2>8, <3>1, <3>2, <4>1
    <3>4. CASE Forwards(m)
      <4>1. then.rev = m.of.rev /\ p = shown /\ ~NeedsResync(page, m) /\ m.of.rev > seen.rev
        BY <1>9, <2>1, <2>8, <3>1, <3>4
      <4>2. m.of.rev = seen.rev + 1
        <5>1. seen.rev + 1 \in seen.rev + 1 .. now.rev
          BY <1>2, <1>4, <4>1
        <5>2. PICK i \in DOMAIN q : Change(q[i]) /\ q[i].of.rev = seen.rev + 1
          BY <1>6, <5>1 DEF Sent
        <5>3. 1 <= i
          BY <1>2
        <5>4. m.of.rev <= seen.rev + 1
          BY <1>3, <1>6, <3>1, <5>2, <5>3 DEF Along
        <5> QED
          BY <1>2, <1>4, <4>1, <5>4
      <4>3. PICK op \in Operation : m.ops = <<op>> /\ (op.node = Own \/ H[m.of.rev] # H[m.of.rev - 1])
        BY <1>3, <1>6, <3>1 DEF Along
      <4>4. shown.rev = m.of.rev
        <5> DEFINE k == OnNodes(page, m)
        <5>1. shown = k
          BY <2>8, <4>1 DEF Handled
        <5>2. ~Old(page, m) /\ m.of.rev # page.rev
          BY <1>2, <1>4, <2>4, <4>1 DEF Old
        <5>3. k.rev = m.of.rev
          BY <1>2, <1>4, <5>2, NodeFields
        <5> QED
          BY <5>1, <5>3
      <4>5. Pair(rest, then.rev) /\ rest[1].of = m.of
        BY <2>5, <3>1, <4>1 DEF Pair
      <4>6. CASE m.of.nodes = seen.nodes
        <5>1. H[m.of.rev] = H[seen.rev]
          BY <2>3, <2>4, <3>1, <4>6
        <5>2. op \in OwnOps
          BY <1>2, <4>2, <4>3, <5>1 DEF OwnOps
        <5>3. Shows(page, H[seen.rev]) => Shows(shown, H[seen.rev])
          BY <1>2, <1>4, <2>4, <2>8, <4>1, <4>3, <5>2, ShowsOperation
        <5>4. lost \/ Shows(p, H[then.rev])
          <6> HIDE DEF shown, p, lost
          <6> QED
            BY <2>4, <2>8, <3>1, <3>2, <4>1, <5>1, <5>3
        <5> HIDE DEF shown, p, lost
        <5> QED
          BY <1>2, <1>4, <2>4, <2>8, <4>1, <4>4, <4>5, <5>4
      <4>7. CASE m.of.nodes # seen.nodes
        <5> HIDE DEF shown, p, lost
        <5> QED
          BY <1>2, <1>4, <2>4, <2>8, <3>1, <4>1, <4>4, <4>5, <4>7
      <4> QED
        BY <4>6, <4>7
    <3> QED
      BY <3>3, <3>4
  <2>9. ASSUME ~m.first, m.kind = "snapshot" PROVE Good
    <3>1. Result(m) /\ ~Change(m) /\ (Forwards(m) <=> m.of.rev >= seen.rev /\ m.of.nodes # seen.nodes)
      BY <2>9 DEF Change, Result, Forwards, seen
    <3>2. CASE m.of.rev < seen.rev
      <4>1. then.rev = seen.rev /\ then.nodes = seen.nodes /\ p = page /\ (lost <=> dropped)
        BY <1>2, <1>4, <2>1, <3>1, <3>2
      <4> HIDE DEF p, lost
      <4> QED
        BY <1>2, <1>4, <2>4, <2>9, <3>1, <3>2, <4>1
    <3>3. CASE m.of.rev = seen.rev
      <4>1. then.rev = seen.rev /\ then.nodes = m.of.nodes
        BY <1>2, <2>1, <2>9, <3>3
      <4>2. p.rev = seen.rev /\ (lost \/ Shows(p, H[seen.rev]))
        <5>1. CASE Forwards(m)
          <6>1. Shows(shown, Plan(m.of.nodes)) /\ shown.rev = m.of.rev
            BY <1>2, <1>4, <1>9, <2>3, <2>4, <2>9, <3>3, <5>1, ShowsSnapshot
          <6> HIDE DEF shown
          <6> QED
            BY <2>3, <3>3, <5>1, <6>1
        <5>2. CASE ~Forwards(m)
          <6> HIDE DEF shown
          <6> QED
            BY <1>2, <2>4, <2>9, <3>1, <3>3, <5>2
        <5> QED
          BY <5>1, <5>2
      <4> HIDE DEF p, lost
      <4> QED
        BY <1>2, <2>3, <2>4, <2>9, <3>1, <3>3, <4>1, <4>2
    <3> QED
      BY <1>2, <1>4, <2>4, <3>1, <3>2, <3>3
  <2>10. Good
    <3> HIDE DEF Good
    <3> QED
      BY <2>3, <2>6, <2>7, <2>8, <2>9
  <2>11. Sent(H, rest, now, then, p, lost)
    <3> HIDE DEF p, lost
    <3> QED
      BY <1>1, <1>2, <1>3, <1>6, <2>10, SentNext DEF rest
  <2>12. server'[page'.key] = now
    <3>1. p.key = page.key
      <4>1. shown.key = page.key
        BY <1>2, <1>4, EventShown
      <4> QED
        BY <4>1
    <3> QED
      BY <1>1, <3>1 DEF now
  <2>13. link'.inbox = rest /\ link'.stage = "open" /\ link'.seen = then
    BY <1>9, <2>1 DEF then
  <2> HIDE DEF p, lost
  <2>14. Tracks(H)'
    BY <1>1, <1>7, <2>11, <2>12, <2>13 DEF Tracks
  <2> QED
    BY <1>5, <2>14 DEF CanvasInv
<1> QED
  BY <1>1, <1>8, <1>9

(* What is published joins the stream.                                     *)
LEMMA CanvasPublished ==
  ASSUME PageInv, StreamInv, Listening, page.key \in Session, page' = page, dropped' = dropped,
         NEW H, Tracks(H), NEW G, NEW events \in Seq(Event), Publish(page.key, events),
         NEW now \in ServerSession, now = server'[page.key],
         Extends(G, H, server[page.key].rev), News(events, server[page.key], now),
         Along(G, events, now)
  PROVE  Tracks(G)'
<1> DEFINE q == link.inbox
           both == q \o events
           old == server[page.key]
           seen == link.seen
<1>1. /\ link \in Link /\ q \in Seq(Event) /\ old \in ServerSession /\ seen.rev \in Nat /\ old.rev \in Nat /\ now.rev \in Nat
      /\ page.rev \in Int
  BY DEF PageInv, Link, PageOf, Page, ServerSession
<1>2. link' = [link EXCEPT !.inbox = both]
  BY <1>1 DEF Publish, Hears, Listening, Link
<1>3. link'.inbox = both /\ link'.stage = link.stage /\ link'.seen = seen
  <2> HIDE DEF both
  <2> QED
    BY <1>1, <1>2 DEF Link
<1>4. UpTo(q, old.rev)
  <2> SUFFICES ASSUME NEW i \in DOMAIN q PROVE q[i].of.rev \in 0 .. old.rev
    BY DEF UpTo
  <2>1. q[i] \in Event
    BY <1>1
  <2>2. q[i].of.rev \in Nat
    BY <2>1 DEF Event, ServerSession
  <2>3. q[i].of.rev <= old.rev
    <3>1. Told(q, old)
      BY DEF StreamInv
    <3> HIDE DEF q, old
    <3> QED
      BY <3>1 DEF Told, Past
  <2> HIDE DEF q, old
  <2> QED
    BY <1>1, <2>2, <2>3
<1>5. Along(H, q, old)
  BY DEF Tracks
<1> HIDE DEF q, old, seen
<1>6. Along(G, both, now)
  <2>1. Later(events, q)
    <3> SUFFICES ASSUME NEW i \in DOMAIN q, NEW j \in DOMAIN events, Change(q[i]), Change(events[j])
                 PROVE  q[i].of.rev <= events[j].of.rev
      BY DEF Later, News
    <3>1. events[j].of.rev = now.rev /\ old.rev <= now.rev
      BY DEF old, News
    <3> QED
      BY <1>1, <1>4, <3>1 DEF UpTo
  <2>2. Extends(G, H, old.rev)
    BY DEF old
  <2> QED
    BY <1>1, <1>4, <1>5, <2>1, <2>2, AlongMore
<1>7. link.stage = "open" => Sent(G, both, now, seen, page, dropped)
  <2> SUFFICES ASSUME link.stage = "open" PROVE Sent(G, both, now, seen, page, dropped)
    OBVIOUS
  <2>1. Sent(H, q, old, seen, page, dropped)
    BY DEF Tracks, q, old, seen
  <2>2. Extends(G, H, old.rev) /\ News(events, old, now)
    BY DEF old
  <2> QED
    BY <1>1, <2>1, <2>2, SentMore
<1>8. link.stage = "join" => 1 \notin DOMAIN both \/ ~Result(both[1])
  <2> SUFFICES ASSUME link.stage = "join", 1 \in DOMAIN both PROVE ~Result(both[1])
    OBVIOUS
  <2>1. \/ \E j \in DOMAIN q : j = 1 /\ both[1] = q[j]
        \/ \E j \in DOMAIN events : j = 1 /\ both[1] = events[j]
    <3> DEFINE n == Len(q)
    <3>1. /\ n \in Nat /\ DOMAIN q = 1 .. n
          /\ \A i \in DOMAIN q : i \in DOMAIN both /\ both[i] = q[i] /\ i \in Nat /\ i # 0
          /\ \A i \in DOMAIN both : i \in Nat /\ (i > n => i - n \in DOMAIN events /\ both[i] = events[i - n])
                                    /\ (i <= n => i \in DOMAIN q)
      BY <1>1, Places
    <3> HIDE DEF n, both
    <3>2. CASE 1 \in DOMAIN q
      BY <3>1, <3>2
    <3>3. CASE 1 \notin DOMAIN q
      <4>1. n = 0
        BY <3>1, <3>3
      <4> QED
        BY <3>1, <4>1
    <3> QED
      BY <3>2, <3>3
  <2>2. (1 \in DOMAIN q => ~Result(q[1])) /\ ~Result(events[1])
    BY DEF Tracks, q, News
  <2> QED
    BY <2>1, <2>2
<1> HIDE DEF both
<1> QED
  BY <1>3, <1>6, <1>7, <1>8 DEF Tracks

LEMMA CanvasServed ==
  ASSUME PageInv, StreamInv, NodesInv, CanvasInv, Planner \/ Serve
  PROVE  CanvasInv'
<1>1. UNCHANGED <<page, dropped>> /\ PageInv'
  BY ServerActs, PageStep DEF Next
<1>2. CASE ~Listening
  <2>1. link'.stage = link.stage
    <3>1. \A x, events : Publish(x, events) => link' = link
      BY <1>2 DEF Publish, Hears, Listening
    <3> QED
      BY <3>1, ServerActs DEF Speaks, Patches, Ensure
  <2> QED
    BY <1>2, <2>1 DEF CanvasInv, Listening
<1>3. CASE Listening
  <2> DEFINE s == page.key
             old == server[s]
             now == server'[s]
  <2>1. s \in Session /\ s # None
    BY <1>3, PageAssumption DEF Listening, PageInv, PageOf, Page
  <2>2. /\ old \in ServerSession /\ now \in ServerSession /\ old.rev \in Nat /\ now.rev \in Nat
        /\ now.nodes \subseteq Node
    BY <1>1, <2>1 DEF PageInv, ServerSession
  <2>3. PICK H \in [Nat -> SUBSET Node] : Tracks(H)
    BY <1>3 DEF CanvasInv
  <2>4. H[old.rev] = Plan(old.nodes)
    BY <2>3 DEF Tracks, Along
  <2>5. \/ link' = link /\ (now = old \/ \E c \in calls : Ensure(c) /\ c.key = s)
        \/ Speaks(s, now) \/ \E op : Patches(s, now, op)
    BY <2>1, ServerTells
  <2>6. CASE link' = link /\ (now = old \/ \E c \in calls : Ensure(c) /\ c.key = s)
    <3>1. now.rev = old.rev /\ Plan(now.nodes) = Plan(old.nodes)
      <4>1. CASE now = old
        BY <4>1
      <4>2. CASE \E c \in calls : Ensure(c) /\ c.key = s
        <5>1. PICK c \in calls : Ensure(c) /\ c.key = s
          BY <4>2
        <5>2. /\ now.rev = old.rev
              /\ \/ now.nodes = c.nodes /\ old.rev = 0
                 \/ now = old
          BY <5>1, EnsureFields
        <5>3. ASSUME now.nodes = c.nodes, old.rev = 0 PROVE Plan(now.nodes) = {} /\ Plan(old.nodes) = {}
          <6>1. c.nodes \subseteq Known(s, 0) /\ old.nodes \subseteq Known(s, 0)
            BY <2>1, <5>1, <5>3 DEF NodesInv, LastOf
          <6> QED
            BY <5>3, <6>1, NothingKnown DEF Plan
        <5> QED
          BY <5>2, <5>3
      <4> QED
        BY <2>6, <4>1, <4>2
    <3> HIDE DEF now, old
    <3>2. Along(H, link.inbox, now) /\ (link.stage = "open" => Sent(H, link.inbox, now, link.seen, page, dropped))
      BY <2>3, <3>1 DEF Tracks, Along, Sent, old
    <3>3. Tracks(H)'
      BY <1>1, <2>3, <2>6, <3>2 DEF Tracks, now
    <3> QED
      BY <2>3, <3>3 DEF CanvasInv
  <2>7. CASE Speaks(s, now)
    <3> DEFINE events == Says(now, s)
    <3>1. /\ events \in Seq(Event) /\ DOMAIN events = {1, 2}
          /\ events[1] = Published("messages", now, << >>)
          /\ events[2] = Published("session", now, << >>)
      BY <2>2, SpeechEvents
    <3>2. Publish(s, events) /\ now.rev = old.rev /\ now.nodes = old.nodes
      BY <2>7 DEF Speaks
    <3> HIDE DEF events, now, old
    <3>3. \A i \in DOMAIN events : events[i].of = now /\ ~events[i].first /\ ~Change(events[i]) /\ ~Result(events[i])
      BY <3>1 DEF Published, Change, Result
    <3>4. Along(H, events, now)
      BY <2>4, <3>2, <3>3 DEF Along
    <3>5. News(events, old, now) /\ Extends(H, H, old.rev)
      <4>1. \A r \in old.rev + 1 .. now.rev : FALSE
        BY <2>2, <3>2
      <4> QED
        BY <2>2, <3>1, <3>2, <3>3, <4>1 DEF News, Extends
    <3>6. Tracks(H)'
      BY <1>1, <1>3, <2>1, <2>2, <2>3, <3>1, <3>2, <3>4, <3>5, CanvasPublished DEF now, old
    <3> QED
      BY <2>3, <3>6 DEF CanvasInv
  <2>8. ASSUME NEW op, Patches(s, now, op) PROVE CanvasInv'
    <3> DEFINE events == PatchEvents(now, op)
    <3> PICK G : G = [H EXCEPT ![now.rev] = Plan(now.nodes)]
      OBVIOUS
    <3>1. /\ events \in Seq(Event) /\ DOMAIN events = {1, 2, 3}
          /\ events[1] = Published("patch", now, <<op>>)
          /\ events[2] = Published("snapshot", now, << >>)
          /\ events[3] = Published("session", now, << >>)
      BY <2>2, <2>8, PatchEventsType DEF Patches
    <3>2. /\ Publish(s, events) /\ now.rev = old.rev + 1 /\ op \in Operation
          /\ \/ op.node = <<s, now.rev>> /\ now.nodes = old.nodes \cup {op.node}
             \/ op.node \in old.nodes /\ now.nodes = old.nodes \ {op.node}
      BY <2>8 DEF Patches
    <3>3. <<s, now.rev>> \notin old.nodes
      <4>1. old.nodes \subseteq Known(s, old.rev)
        BY <2>1 DEF NodesInv
      <4>2. <<s, now.rev>> \notin Known(s, old.rev)
        BY <2>1, <2>2, <3>2 DEF Known, Own
      <4> QED
        BY <4>1, <4>2
    <3>4. /\ G \in [Nat -> SUBSET Node] /\ G[now.rev] = Plan(now.nodes)
          /\ \A r \in 0 .. old.rev : G[r] = H[r]
      BY <2>2, <2>3, <3>2 DEF Plan
    <3>5. op.node = Own \/ G[now.rev] # G[now.rev - 1]
      <4>1. G[now.rev - 1] = Plan(old.nodes)
        <5>1. now.rev - 1 = old.rev
          BY <2>2, <3>2
        <5>2. G[old.rev] = H[old.rev]
          BY <2>2, <3>4
        <5> QED
          BY <2>4, <5>1, <5>2
      <4> HIDE DEF now, old
      <4> QED
        BY <3>2, <3>3, <3>4, <4>1 DEF Plan
    <3> HIDE DEF events, now, old
    <3>6. \A i \in DOMAIN events : events[i].of = now /\ ~events[i].first
      BY <3>1 DEF Published
    <3>7. /\ Change(events[1]) /\ events[1].ops = <<op>> /\ Result(events[2])
          /\ ~Result(events[1]) /\ ~Change(events[2]) /\ ~Change(events[3]) /\ ~Result(events[3])
      BY <3>1 DEF Published, Change, Result
    <3>8. \A i \in DOMAIN events : /\ Change(events[i]) => i = 1 /\ events[i].of.rev = now.rev
                                   /\ Result(events[i]) => i = 2
      BY <3>1, <3>6, <3>7
    <3>9. now.rev > 0
      BY <2>2, <3>2
    <3>10. Along(G, events, now)
      <4>1. \A i \in DOMAIN events : Plan(events[i].of.nodes) = G[events[i].of.rev]
        BY <3>4, <3>6
      <4>2. ASSUME NEW i \in DOMAIN events, Change(events[i])
            PROVE  /\ i + 1 \in DOMAIN events /\ Result(events[i + 1]) /\ events[i + 1].of = events[i].of
                   /\ events[i].of.rev > 0
                   /\ \E x \in Operation : /\ events[i].ops = <<x>>
                                           /\ x.node = Own \/ G[events[i].of.rev] # G[events[i].of.rev - 1]
        <5>1. i = 1 /\ i + 1 = 2 /\ 2 \in DOMAIN events
          BY <3>1, <3>8, <4>2
        <5> QED
          BY <3>2, <3>5, <3>6, <3>7, <3>9, <5>1
      <4>3. ASSUME NEW i \in DOMAIN events, Result(events[i]) PROVE i - 1 \in DOMAIN events /\ Change(events[i - 1])
        <5>1. i = 2 /\ i - 1 = 1 /\ 1 \in DOMAIN events
          BY <3>1, <3>8, <4>3
        <5> QED
          BY <3>7, <5>1
      <4>4. \A i, j \in DOMAIN events : j <= i /\ Change(events[i]) /\ Change(events[j]) => events[j].of.rev <= events[i].of.rev
        BY <2>2, <3>6
      <4> QED
        BY <3>4, <4>1, <4>2, <4>3, <4>4 DEF Along
    <3>11. \A r \in old.rev + 1 .. now.rev : \E i \in DOMAIN events : Change(events[i]) /\ events[i].of.rev = r
      <4>1. \A r \in old.rev + 1 .. now.rev : r = now.rev
        BY <2>2, <3>2
      <4>2. 1 \in DOMAIN events /\ events[1].of.rev = now.rev
        BY <3>1, <3>6
      <4> QED
        BY <3>7, <4>1, <4>2
    <3>12. News(events, old, now) /\ Extends(G, H, old.rev)
      BY <2>2, <3>1, <3>2, <3>4, <3>6, <3>7, <3>8, <3>11 DEF News, Extends
    <3>13. Tracks(G)'
      BY <1>1, <1>3, <2>1, <2>2, <2>3, <3>1, <3>2, <3>10, <3>12, CanvasPublished DEF now, old
    <3> QED
      BY <3>4, <3>13 DEF CanvasInv
  <2> QED
    BY <2>5, <2>6, <2>7, <2>8
<1> QED
  BY <1>2, <1>3

(* The whole session comes before what was published since it joined.      *)
LEMMA CanvasOpened ==
  ASSUME PageInv, StreamInv, CanvasInv, OpenStream
  PROVE  CanvasInv'
<1> DEFINE now == server[page.key]
           q == link.inbox
           both == link'.inbox
           whole == SentWhole(page.key)
<1>1. /\ page.key \in Session /\ now \in ServerSession /\ now.status # "none" /\ link.stage = "join"
      /\ UNCHANGED <<server, page, dropped>>
      /\ link'.stage = "open" /\ link'.seen = now /\ q \in Seq(Event) /\ Len(q) \in Nat
      /\ DOMAIN q = 1 .. Len(q) /\ DOMAIN both = 1 .. 4 + Len(q)
      /\ \A i \in 1 .. 4 : both[i].of = now /\ both[i].first
      /\ both[1].kind = "session" /\ both[2].kind = "messages"
      /\ both[3].kind = "patch" /\ both[4].kind = "snapshot"
      /\ \A i \in DOMAIN both : i \notin 1 .. 4 => i - 4 \in DOMAIN q /\ both[i] = q[i - 4]
  BY OpenedFields
<1>2. now.rev \in Nat /\ page.rev <= now.rev
  BY <1>1, PageAssumption DEF ServerSession, StreamInv
<1>3. \A i \in DOMAIN q : ~q[i].first
  BY <1>1 DEF StreamInv
<1>4. PICK H \in [Nat -> SUBSET Node] : Tracks(H)
  BY <1>1 DEF CanvasInv, Listening
<1>5. Along(H, q, now) /\ (1 \notin DOMAIN q \/ ~Result(q[1]))
  BY <1>1, <1>4 DEF Tracks
<1>6. both = whole \o q
  BY <1>1 DEF OpenStream, Link, PageInv
<1>7. whole \in Seq(Event) /\ \A i \in DOMAIN whole : whole[i].of = now /\ whole[i].first
  BY <1>1, WholeFields
<1> HIDE DEF now, q, both, whole
<1>8. \A i \in DOMAIN whole : ~Change(whole[i]) /\ ~Result(whole[i])
  BY <1>7 DEF Change, Result
<1>9. Along(H, both, now)
  <2>1. Along(H, whole, now)
    BY <1>5, <1>7, <1>8 DEF Along
  <2>2. UpTo(whole, now.rev) /\ Extends(H, H, now.rev) /\ Later(q, whole)
    BY <1>2, <1>5, <1>7, <1>8 DEF UpTo, Extends, Later
  <2> QED
    BY <1>1, <1>2, <1>5, <1>6, <1>7, <2>1, <2>2, AlongMore
<1>10. ASSUME NEW i \in DOMAIN both, both[i].first
       PROVE  /\ both[i].of.rev = now.rev /\ \A j \in DOMAIN both : j <= i => both[j].first
              /\ both[i].kind # "snapshot" => i + 1 \in DOMAIN both /\ both[i + 1].first
  <2>1. i \in 1 .. 4
    BY <1>1, <1>3, <1>10
  <2>2. \A j \in DOMAIN both : j <= i => j \in 1 .. 4
    BY <1>1, <2>1
  <2>3. i # 4 => i + 1 \in 1 .. 4 /\ i + 1 \in DOMAIN both
    BY <1>1, <2>1
  <2>4. i = 4 => both[i].kind = "snapshot"
    BY <1>1
  <2> QED
    BY <1>1, <2>1, <2>2, <2>3, <2>4
<1>11. 1 \in DOMAIN both /\ both[1].first /\ ~Result(both[1]) /\ Begins(both)
  BY <1>1 DEF Result, Begins
<1>12. Plan(now.nodes) = H[now.rev] /\ now.rev + 1 .. now.rev = {}
  BY <1>2, <1>5 DEF Along
<1>13. Sent(H, both, now, now, page, dropped)
  BY <1>2, <1>10, <1>11, <1>12 DEF Sent
<1>14. Tracks(H)'
  BY <1>1, <1>9, <1>13 DEF Tracks, both, now
<1> QED
  BY <1>4, <1>14 DEF CanvasInv

(* A stream that joins knows the plan of now.                              *)
LEMMA CanvasJoined ==
  ASSUME PageInv, Subscribe
  PROVE  CanvasInv'
<1> DEFINE now == server[page.key]
<1>1. link.stage = "wait" /\ page.key \in Session /\ now \in ServerSession
  BY DEF Subscribe, PageInv, PageOf, Page
<1>2. UNCHANGED <<server, page>> /\ link'.stage = "join" /\ link'.inbox = << >>
  BY DEF Subscribe, Linked
<1> HIDE DEF now
<1> DEFINE H == [r \in Nat |-> Plan(now.nodes)]
<1>3. H \in [Nat -> SUBSET Node] /\ H[now.rev] = Plan(now.nodes)
  BY <1>1 DEF ServerSession, Plan
<1> HIDE DEF H
<1>4. Along(H, << >>, now)
  BY <1>3 DEF Along
<1>5. PICK K \in [Nat -> SUBSET Node] : Along(K, << >>, now)
  BY <1>3, <1>4
<1>6. Tracks(K)'
  BY <1>2, <1>5 DEF Tracks, now
<1> QED
  BY <1>5, <1>6 DEF CanvasInv

(* Nothing is published and the page keeps what it shows.                  *)
LEMMA CanvasKept ==
  ASSUME CanvasInv, server' = server, link' = link, page'.key = page.key, page'.rev = page.rev,
         dropped => dropped', dropped' \/ \A nodes : Shows(page, nodes) => Shows(page', nodes)
  PROVE  CanvasInv'
<1> SUFFICES ASSUME Listening PROVE \E H \in [Nat -> SUBSET Node] : Tracks(H)'
  BY DEF CanvasInv, Listening
<1>1. PICK H \in [Nat -> SUBSET Node] : Tracks(H)
  BY DEF CanvasInv
<1>2. server'[page'.key] = server[page.key]
  OBVIOUS
<1>3. ASSUME NEW q, NEW now, NEW seen, Sent(H, q, now, seen, page, dropped)
      PROVE  Sent(H, q, now, seen, page', dropped')
  BY <1>3 DEF Sent
<1>4. link.stage = "open" => Sent(H, link.inbox, server[page.key], link.seen, page', dropped')
  BY <1>1, <1>3 DEF Tracks
<1>5. Tracks(H)'
  BY <1>1, <1>2, <1>4 DEF Tracks
<1> QED
  BY <1>1, <1>5

LEMMA CanvasQueue ==
  ASSUME CanvasInv, server' = server, link' = link, dropped' = dropped,
         NEW q, page' = q, Queue(q, page), q.key = page.key, q.rev = page.rev
  PROVE  CanvasInv'
<1>1. \A nodes : Shows(page, nodes) => Shows(q, nodes)
  BY ShowsQueue
<1> QED
  BY <1>1, CanvasKept

LEMMA CanvasOff ==
  ASSUME link'.stage \notin {"join", "open"}
  PROVE  CanvasInv'
  BY DEF CanvasInv, Listening

LEMMA CanvasTimers ==
  ASSUME PageInv, NodesInv, CanvasInv, Timers
  PROVE  CanvasInv'
<1>1. /\ PageOf(page, owner) /\ page \in Page /\ UNCHANGED <<server, link, dropped>>
      /\ PlanPage(page, LastOf(page.key))
  BY DEF Timers, Step, Unlock, PageInv, PageOf, NodesInv
<1>2. CASE Unlock
  <2> DEFINE q == Unblocks(page)
  <2>1. page' = q /\ Queue(q, page) /\ q.key = page.key /\ q.rev = page.rev
    BY <1>1, <1>2, BlockedFields DEF Unlock
  <2> HIDE DEF q
  <2> QED
    BY <1>1, <2>1, CanvasQueue
<1>3. CASE Step
  <2> DEFINE q == Play(page)
  <2>1. page' = q /\ page.flush # None
    BY <1>3 DEF Step
  <2>2. q.key = page.key /\ q.rev = page.rev
    BY <1>1, <2>1, PlayFields
  <2>3. \A nodes : Shows(page, nodes) => Shows(q, nodes)
    BY <1>1, <2>1, ShowsPlayed
  <2> HIDE DEF q
  <2> QED
    BY <1>1, <2>1, <2>2, <2>3, CanvasKept
<1> QED
  BY <1>2, <1>3 DEF Timers

LEMMA CanvasAnswered ==
  ASSUME PageInv, CanvasInv, Answer
  PROVE  CanvasInv'
<1>1. PICK c \in calls : AnswerGenerate(c) \/ AnswerStop(c)
  BY DEF Answer
<1>2. page \in Page /\ PageOf(page, owner) /\ UNCHANGED <<server, dropped>> /\ c.key \in Session
  BY <1>1 DEF AnswerGenerate, AnswerStop, PageInv, PageOf, CallOf, Call, Page
<1>3. CASE AnswerStop(c)
  <2> DEFINE q == [page EXCEPT !.status = "stopped", !.planning = FALSE, !.blocked = FALSE, !.stopping = FALSE]
             r == [page EXCEPT !.stopping = FALSE]
  <2>1. /\ q.key = page.key /\ q.rev = page.rev /\ Queue(q, page)
        /\ r.key = page.key /\ r.rev = page.rev /\ Queue(r, page)
    BY <1>2 DEF Page, Queue
  <2>2. (page' = q \/ page' = r) /\ link' = link
    BY <1>3 DEF AnswerStop
  <2> HIDE DEF q, r
  <2> QED
    BY <1>2, <2>1, <2>2, CanvasQueue
<1>4. CASE AnswerGenerate(c)
  <2>1. CASE StillAwaited(c) /\ c.ok
    <3> DEFINE keyed == WithKey(page, c.key)
               q == [keyed EXCEPT !.pending = 0]
    <3>1. page' = q
      BY <1>4, <2>1 DEF AnswerGenerate, PlanAnswered
    <3>2. keyed \in Page /\ keyed.key = c.key
      BY <1>2, KeyChanges DEF PageOf
    <3>3. page.key = c.key => keyed = page
      BY DEF WithKey
    <3> HIDE DEF keyed
    <3>4. q.key = keyed.key /\ q.rev = keyed.rev /\ Queue(q, keyed)
      BY <3>2 DEF Page, Queue
    <3> HIDE DEF q
    <3>5. link' = IF c.key = page.key THEN link ELSE LinkFor(c.key)
      BY <1>4, <3>1, <3>2, <3>4 DEF AnswerGenerate, Relink
    <3>6. CASE page.key = c.key
      BY <1>2, <3>1, <3>2, <3>3, <3>4, <3>5, <3>6, CanvasQueue
    <3>7. CASE page.key # c.key
      <4>1. link'.stage \notin {"join", "open"}
        BY <3>5, <3>7 DEF LinkFor, Linked
      <4> QED
        BY <4>1, CanvasOff
    <3> QED
      BY <3>6, <3>7
  <2>2. CASE StillAwaited(c) /\ ~c.ok
    <3> DEFINE w == BlocksForAWhile(page)
               q == [w EXCEPT !.planning = FALSE, !.status = "failed", !.stopping = FALSE, !.pending = 0]
    <3>1. page' = q
      BY <1>4, <2>2 DEF AnswerGenerate, PlanFails
    <3>2. w \in Page /\ w.key = page.key /\ w.rev = page.rev /\ Queue(w, page)
      BY <1>2, Blocked, BlockedFields DEF PageOf
    <3> HIDE DEF w
    <3>3. q.key = page.key /\ q.rev = page.rev /\ Queue(q, page)
      BY <3>2 DEF Page, Queue
    <3> HIDE DEF q
    <3>4. link' = link
      BY <1>4, <3>1, <3>3 DEF AnswerGenerate, Relink
    <3> QED
      BY <1>2, <3>1, <3>3, <3>4, CanvasQueue
  <2>3. CASE ~StillAwaited(c)
    <3>1. page' = page /\ Queue(page, page)
      BY <1>4, <2>3 DEF AnswerGenerate, Queue
    <3>2. link' = link
      BY <1>4, <3>1 DEF AnswerGenerate, Relink
    <3> QED
      BY <1>2, <3>1, <3>2, CanvasQueue
  <2> QED
    BY <2>1, <2>2, <2>3
<1> QED
  BY <1>1, <1>3, <1>4

LEMMA CanvasPrompted ==
  ASSUME PageInv, CanvasInv, Prompt
  PROVE  CanvasInv'
<1> DEFINE s == SessionForPrompt(page)
           keyed == WithKey(page, s)
           waits == Waits(keyed)
           q == [waits EXCEPT !.stopping = FALSE, !.pending = prompts + 1, !.chat = Append(@, "u")]
<1>1. page \in Page /\ PageOf(page, owner) /\ UNCHANGED <<server, dropped>>
  BY DEF PageInv, PageOf, Prompt
<1>2. s \in Session
  BY <1>1 DEF Prompt, SessionForPrompt, Page
<1>3. page' = q /\ link' = IF s = page.key THEN link ELSE LinkFor(s)
  BY DEF Prompt, PlanStarts, Relink
<1> HIDE DEF s
<1>4. PageOf(keyed, owner) /\ keyed.key = s /\ keyed \in Page
  BY <1>1, <1>2, KeyChanges DEF PageOf
<1>5. page.key = s => keyed = page
  BY DEF WithKey
<1> HIDE DEF keyed
<1>6. waits \in Page /\ waits.key = s /\ waits.rev = keyed.rev /\ Queue(waits, keyed)
  BY <1>4, Blocked, BlockedFields DEF PageOf
<1> HIDE DEF waits
<1>7. q.key = s /\ q.rev = keyed.rev /\ Queue(q, keyed)
  BY <1>6 DEF Page, Queue
<1> HIDE DEF q
<1>8. CASE page.key = s
  BY <1>1, <1>3, <1>5, <1>7, <1>8, CanvasQueue
<1>9. CASE page.key # s
  <2>1. link'.stage \notin {"join", "open"}
    BY <1>3, <1>9 DEF LinkFor, Linked
  <2> QED
    BY <2>1, CanvasOff
<1> QED
  BY <1>8, <1>9

(* A stop throws the queue away: what waited is not shown.                 *)
LEMMA CanvasStopped ==
  ASSUME PageInv, CanvasInv, Stop
  PROVE  CanvasInv'
<1>1. /\ page \in Page /\ PageOf(page, owner) /\ server' = server /\ link' = link
      /\ dropped' = (dropped \/ page.ops # << >> \/ page.snaps # {})
  BY DEF PageInv, PageOf, Stop
<1>2. CASE page.key = None
  <2>1. link'.stage = "off"
    BY <1>1, <1>2 DEF PageInv
  <2> QED
    BY <2>1, CanvasOff
<1>3. CASE page.key # None
  <2> DEFINE emptied == ClearQueue(page, page.key)
             free == Unblocks(emptied)
             q == [free EXCEPT !.pending = 0, !.status = "stopped", !.planning = FALSE,
                               !.stopping = page.key # None]
  <2>1. page' = q
    BY <1>3 DEF Stop
  <2>2. PageOf(emptied, owner) /\ emptied \in Page
    BY <1>1, QueueClears DEF PageOf
  <2>3. /\ emptied.key = page.key /\ emptied.rev = page.rev /\ emptied.canvas = page.canvas
        /\ emptied.ops = OpsBut(page, page.key) /\ emptied.snaps = SnapsBut(page, page.key)
    BY <1>1, ClearFields
  <2> HIDE DEF emptied
  <2>4. free \in Page /\ free.key = page.key /\ free.rev = page.rev /\ Queue(free, emptied)
    BY <2>2, <2>3, Blocked, BlockedFields DEF PageOf
  <2> HIDE DEF free
  <2>5. q.key = page.key /\ q.rev = page.rev /\ Queue(q, emptied)
    BY <2>3, <2>4 DEF Page, Queue
  <2> HIDE DEF q
  <2>6. ASSUME page.ops = << >>, page.snaps = {}, NEW nodes, Shows(page, nodes) PROVE Shows(q, nodes)
    <3>1. OpsBut(page, page.key) \in Seq({})
      <4>1. page.ops \in Seq({})
        BY <2>6
      <4> QED
        BY <4>1, OpsButType
    <3>2. SnapsBut(page, page.key) = {}
      BY <2>6 DEF SnapsBut
    <3>3. q.ops = << >> /\ q.snaps = {} /\ q.canvas = page.canvas
      BY <2>3, <2>5, <3>1, <3>2 DEF Queue
    <3> QED
      BY <2>6, <3>3 DEF Shows
  <2> QED
    BY <1>1, <2>1, <2>5, <2>6, CanvasKept
<1> QED
  BY <1>2, <1>3

LEMMA CanvasInit == Init => CanvasInv
  BY DEF Init, CanvasInv, Listening, Linked

LEMMA CanvasStep == PageInv /\ StreamInv /\ NodesInv /\ CanvasInv /\ [Next]_vars => CanvasInv'
<1> SUFFICES ASSUME PageInv, StreamInv, NodesInv, CanvasInv, [Next]_vars PROVE CanvasInv'
  OBVIOUS
<1>1. CASE Planner \/ Serve
  BY <1>1, CanvasServed
<1>2. CASE Answer
  BY <1>2, CanvasAnswered
<1>3. CASE ServeProbe \/ StaleSession \/ ServerCloses \/ Cut \/ Reload \/ \E f \in Flow : SwitchFlow(f)
  <2>1. link'.stage \notin {"join", "open"}
    BY <1>3 DEF ServeProbe, StaleSession, ServerCloses, Cut, Reload, SwitchFlow, LinkFor, Linked
  <2> QED
    BY <2>1, CanvasOff
<1>4. CASE Subscribe
  BY <1>4, CanvasJoined
<1>5. CASE OpenStream
  BY <1>5, CanvasOpened
<1>6. CASE Deliver
  BY <1>6, CanvasDelivered
<1>7. CASE Timers
  BY <1>7, CanvasTimers
<1>8. CASE Prompt
  BY <1>8, CanvasPrompted
<1>9. CASE Stop
  BY <1>9, CanvasStopped
<1>10. CASE (\E c \in calls : LoseCall(c)) \/ UNCHANGED vars
  <2>1. UNCHANGED <<server, page, link, dropped>> /\ Queue(page, page)
    BY <1>10 DEF LoseCall, vars, Queue
  <2> QED
    BY <2>1, CanvasQueue
<1> QED
  BY <1>1, <1>2, <1>3, <1>4, <1>5, <1>6, <1>7, <1>8, <1>9, <1>10
     DEF Next, Stream, User, Faults

(* The page and the planner agree once everything has arrived and was      *)
(* played, unless a stop threw something away: the operations, snapshots,  *)
(* ends, gaps and reconnections of usePlannerOperationQueue.ts and         *)
(* useFlowPlannerRuntime.ts add up to the session's nodes, whatever their  *)
(* number and order.                                                       *)
THEOREM CanvasCatchesUp == Spec => []CanvasFollows
<1>1. PageInv /\ CanvasInv => CanvasFollows
  <2> SUFFICES ASSUME PageInv, CanvasInv, Quiet, ~dropped
               PROVE  page.canvas \ {Own} = server[page.key].nodes \ {Own}
    BY DEF CanvasFollows
  <2> DEFINE now == server[page.key]
             seen == link.seen
  <2>1. link.stage = "open" /\ link.inbox = << >> /\ page.flush = None
    BY DEF Quiet
  <2>2. PICK H \in [Nat -> SUBSET Node] : Tracks(H)
    BY <2>1 DEF CanvasInv, Listening
  <2>3. Along(H, << >>, now) /\ Sent(H, << >>, now, seen, page, dropped)
    BY <2>1, <2>2 DEF Tracks
  <2>4. now.rev \in Nat /\ seen.rev \in Nat
    <3>1. page.key \in Session
      BY <2>1 DEF PageInv, PageOf, Page
    <3> QED
      BY <3>1 DEF PageInv, ServerSession, Link
  <2> HIDE DEF now, seen
  <2>5. seen.rev = now.rev
    <3>1. \A r \in seen.rev + 1 .. now.rev : FALSE
      BY <2>3 DEF Sent
    <3>2. seen.rev <= now.rev
      BY <2>3 DEF Sent
    <3> QED
      BY <2>4, <3>1, <3>2
  <2>6. Shows(page, H[now.rev])
    BY <2>3, <2>5 DEF Sent, Begins, Pair
  <2>7. page.snaps = {}
    BY <2>1 DEF PageInv, PageOf
  <2> QED
    BY <2>3, <2>6, <2>7 DEF Along, Shows, Plan, now
<1> DEFINE Inv == PageInv /\ ChatInv /\ StreamInv /\ NodesInv /\ CanvasInv
<1>2. Init => Inv
  BY PageInit, ChatInit, StreamInit, NodesInit, CanvasInit
<1>3. Inv /\ [Next]_vars => Inv'
  BY PageStep, ChatStep, StreamStep, NodesStep, CanvasStep
<1>4. Inv => CanvasFollows
  BY <1>1
<1> HIDE DEF Inv
<1> QED
  BY <1>2, <1>3, <1>4, PTL DEF Spec
==============================================================================
