---------------------------- MODULE MCProblemCache ----------------------------
(***************************************************************************)
(* An instance of ProblemCache for TLC: two readers and two writers.       *)
(***************************************************************************)
EXTENDS ProblemCache

CONSTANTS a, b, r1, r2, w1, w2, p1

\* One process serves and one judges.
OneServer == [x \in {r1, r2, w1, w2} |-> IF x = w2 THEN b ELSE a]
=============================================================================
