---------------------------- MODULE MCJudgeQueue ----------------------------
(***************************************************************************)
(* Instances of JudgeQueue for TLC: two goroutines in two processes, and   *)
(* tasks of one language class or of both.                                 *)
(***************************************************************************)
EXTENDS JudgeQueue

CONSTANTS w1, w2, p1, p2, t1, t2

\* One goroutine in each of two processes.
TwoHosts == [w \in Worker |-> IF w = w1 THEN p1 ELSE p2]

\* t1 is a C++ submission, t2 a Python one.
TaskTopic == [t \in Task |-> IF t = t1 THEN "fast" ELSE "slow"]

\* Every NSQ process runs one goroutine per topic: two goroutines are the two
\* topics of one process, or the same topic in two processes.
TopicPerWorker == [w \in Worker |-> IF w = w1 THEN {"fast"} ELSE {"slow"}]
AllFast        == [w \in Worker |-> {"fast"}]

\* Over NSQ, where redelivery multiplies the states, one task is published and no call
\* fails; and one task is published when go-redis adds one twice.  Publishing and failing
\* calls are outside the fairness.
Small ==
  /\ backend = "nsq" => offered <= 1 /\ faults = 0
  /\ twice # {} => offered <= 1
=============================================================================
