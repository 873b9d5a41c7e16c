--------------------------- MODULE MCJudgePipeline ---------------------------
(***************************************************************************)
(* Instances of JudgePipeline for TLC: C++ submissions to one problem, by  *)
(* one user or by two, and two judging goroutines.                         *)
(***************************************************************************)
EXTENDS JudgePipeline, Functions

CONSTANTS w1, w2, p1, p2, s1, s2, u1, u2, prob, k1, k2

OneHost  == [w \in Worker |-> p1]
TwoHosts == [w \in Worker |-> IF w = w1 THEN p1 ELSE p2]
AllFast  == [w \in Worker |-> {"fast"}]

OneUser   == [s \in Sub |-> u1]
TwoUsers  == [s \in Sub |-> IF s = s1 THEN u1 ELSE u2]
OneProblem == [s \in Sub |-> prob]
Cpp        == [s \in Sub |-> "cpp"]
SameCode   == [s \in Sub |-> k1]
OwnCode    == [s \in Sub |-> IF s = s1 THEN k1 ELSE k2]

\* At most two panics, crashes, failed or repeated calls and refused statements.
TwoDisturbances ==
  crashes + faults + Cardinality(twice) + dbErrors + FoldFunction(+, 0, panics) <= 2
=============================================================================
