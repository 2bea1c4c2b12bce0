---------------------------- MODULE MCInstanceFiles ----------------------------
(* The files page on a small instance. *)
EXTENDS InstanceFiles

CONSTANTS f1, f2, f3, d1, src, agent

MCFile == {f1, f2, f3}
MCPlace == [r \in MCFile \cup {d1} |-> CASE r = f1 -> Root [] r \in {f2, f3} -> src [] r = d1 -> agent]

(* Everything, and what hides f1. *)
MCMatches == [k \in {"", "src"} |-> IF k = "" THEN MCFile \cup {d1} ELSE {f2, f3}]
==============================================================================
