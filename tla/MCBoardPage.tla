----------------------------- MODULE MCBoardPage -----------------------------
(* Instances of BoardPage for TLC: two tasks, of which one or both have a   *)
(* row at first, each of the flow or created by the quick form.             *)
EXTENDS BoardPage

CONSTANTS t1, t2

TwoTasks == {t1, t2}
OneTask == {t1}
==============================================================================
