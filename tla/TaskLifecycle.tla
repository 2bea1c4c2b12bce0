---------------------------- MODULE TaskLifecycle ----------------------------
(***************************************************************************)
(* What the board promises about one row: the states of docs/architecture, *)
(* section 4, and the steps the handlers mean to allow between them.  A row *)
(* is created queued, claimed once, and ends; an interruption takes it out *)
(* of the queue or of its run, and only an interrupted row is queued again.*)
(***************************************************************************)
CONSTANT Task

VARIABLE state

Live == {"queued", "running", "blocked_by_approval", "failed", "completed"}

Init == state = [t \in Task |-> "new"]

Move(t, from, to) == state[t] \in from /\ state' = [state EXCEPT ![t] = to]

Create(t)    == Move(t, {"new"}, "queued")
Claim(t)     == Move(t, {"queued"}, "running")
Complete(t)  == Move(t, {"running"}, "completed")
Fail(t)      == Move(t, {"running"}, "failed")
Interrupt(t) == Move(t, {"queued", "running"}, "blocked_by_approval")
Resume(t)    == Move(t, {"blocked_by_approval"}, "queued")
Delete(t)    == Move(t, Live, "absent")

Next == \E t \in Task :
  \/ Create(t) \/ Claim(t) \/ Complete(t) \/ Fail(t)
  \/ Interrupt(t) \/ Resume(t) \/ Delete(t)

Spec == Init /\ [][Next]_state
==============================================================================
