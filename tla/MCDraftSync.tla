----------------------------- MODULE MCDraftSync -----------------------------
(* Instances of DraftSync for TLC: the pages and flows are model values. *)
EXTENDS DraftSync
==============================================================================
