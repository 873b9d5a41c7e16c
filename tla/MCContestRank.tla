---------------------------- MODULE MCContestRank ----------------------------
(***************************************************************************)
(* Instances of ContestRank for TLC: two goroutines rank the three         *)
(* submissions of one user to two problems.                                *)
(***************************************************************************)
EXTENDS ContestRank, TLC

CONSTANTS w1, w2, u1, p1, p2

\* Goroutines differ in nothing but their name.
WorkerSymmetry == Permutations(Worker)

\* The third submission repeats the first problem.
ByOne == [s \in Sub |-> u1]
TwoProblems == [s \in Sub |-> IF s = 2 THEN p2 ELSE p1]

\* A full and a partial result, at different times.
Results ==
  {[accepted |-> TRUE,  passed |-> 2, at |-> 60, used |-> 30],
   [accepted |-> FALSE, passed |-> 1, at |-> 90, used |-> 20]}

\* Four calls when nothing goes wrong, three with one thing that does, two with two.
FourEvents == calls + crashes + faults + rejudges <= 4
=============================================================================
