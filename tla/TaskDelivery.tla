---------------------------- MODULE TaskDelivery ----------------------------
(***************************************************************************)
(* What the judge queue promises about each task, whichever backend is     *)
(* configured: a published task ends in one of three ways and stays there, *)
(* and a durable queue loses nothing it has accepted.                      *)
(***************************************************************************)
EXTENDS Naturals

CONSTANT Job   \* tasks the API may publish

VARIABLES
  status,   \* status[j]: what has become of task j
  durable   \* the broker outlives the processes and has taken every call so far

Init ==
  /\ durable \in BOOLEAN
  /\ status = [j \in Job |-> "none"]

Move(j, from, to) ==
  /\ status[j] \in from
  /\ status' = [status EXCEPT ![j] = to]
  /\ UNCHANGED durable

\* A handler starts to publish j, and the queue accepts it.
Offer(j)  == Move(j, {"none"}, "offered")
Accept(j) == Move(j, {"offered"}, "owed")

\* The handler has returned for j.
Finish(j) == Move(j, {"owed"}, "done")

\* The queue gives j up: it panicked, or was delivered, too often.
GiveUp(j) == Move(j, {"owed"}, "dropped")

\* A call to the broker fails, or a crash takes the requests of a process, the last
\* copies of tasks given up before and, when the queue is not durable, accepted tasks.
Fail ==
  \E L, D \in SUBSET Job :
    /\ durable' \in {durable, FALSE}
    /\ \A j \in L : status[j] \in IF durable' THEN {"offered"} ELSE {"offered", "owed"}
    /\ \A j \in D : status[j] = "owed"
    /\ status' = [j \in Job |-> IF j \in L THEN "lost" ELSE IF j \in D THEN "dropped" ELSE status[j]]

Next ==
  \/ \E j \in Job : Offer(j) \/ Accept(j) \/ Finish(j) \/ GiveUp(j)
  \/ Fail

Spec == Init /\ [][Next]_<<status, durable>>

=============================================================================
