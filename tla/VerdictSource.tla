---------------------------- MODULE VerdictSource ----------------------------
(***************************************************************************)
(* The judging of one submission, as the pages that wait for its verdict   *)
(* depend on it: goroutines run JudgeTask (internal/worker/worker.go) for  *)
(* its tasks, at most one row and one message at a time.  A verdict is     *)
(* published only after the row was written or the database refused the    *)
(* write, and nothing happens to the row once the last task is gone.  How  *)
(* many tasks there are, in which back end, and why one is lost or judged  *)
(* again is left open.                                                     *)
(***************************************************************************)
EXTENDS Naturals

CONSTANTS
  Worker,   \* goroutines that judge
  Verdict   \* statuses judging may end with

VARIABLES
  row,      \* the submission's status column, "none" before the INSERT
  tasks,    \* its tasks: "none" is left, all are "held" by a goroutine or by nobody
            \* who will ask for them, or one is "waiting" for a goroutine
  stage,    \* stage[w]: how far goroutine w is with it: idle, judge, publish
  found,    \* found[w]: the verdict it will publish, or "none"
  dbErrors  \* statements of ReJudge and JudgeTask the database has refused so far

sourceVars == <<row, tasks, stage, found, dbErrors>>

SourceInit ==
  /\ row = "none" /\ tasks = "none"
  /\ stage = [w \in Worker |-> "idle"]
  /\ found = [w \in Worker |-> "none"]
  /\ dbErrors = 0

AllIdle == \A w \in Worker : stage[w] = "idle"

\* JudgeTask ends in the goroutines W.
Leave(W) ==
  /\ stage' = [w \in Worker |-> IF w \in W THEN "idle" ELSE stage[w]]
  /\ found' = [w \in Worker |-> IF w \in W THEN "none" ELSE found[w]]

\* Submit, or a rejudge: the row is reset, then a task is published.
Enqueue ==
  /\ row' = "pending" /\ tasks' = "waiting"
  /\ UNCHANGED <<stage, found, dbErrors>>

Submit  == row = "none" /\ Enqueue
ReJudge == row # "none" /\ Enqueue

\* The reset is refused, and the task published all the same.
ReJudgeError ==
  /\ row # "none"
  /\ tasks' = "waiting"
  /\ dbErrors' = dbErrors + 1
  /\ UNCHANGED <<row, stage, found>>

\* Goroutine w takes a task; there may be another one.
Start(w) ==
  /\ stage[w] = "idle" /\ tasks = "waiting"
  /\ stage' = [stage EXCEPT ![w] = "judge"]
  /\ tasks' \in {"held", "waiting"}
  /\ UNCHANGED <<row, found, dbErrors>>

ToPublish(w, v) ==
  /\ stage[w] = "judge"
  /\ stage' = [stage EXCEPT ![w] = "publish"]
  /\ found' = [found EXCEPT ![w] = v]
  /\ UNCHANGED tasks

\* The row is written first, with or without the problem's accepted_count ...
WriteVerdict(w, v) ==
  /\ ToPublish(w, v)
  /\ row' = v
  /\ dbErrors' \in {dbErrors, dbErrors + 1}

\* ... or the database refuses the write, and JudgeTask goes on.
WriteError(w, v) ==
  /\ ToPublish(w, v)
  /\ dbErrors' = dbErrors + 1
  /\ UNCHANGED row

\* ... then the verdict is published.
PublishStatus(w) ==
  /\ stage[w] = "publish"
  /\ Leave({w})
  /\ UNCHANGED <<row, tasks, dbErrors>>

\* Without test cases JudgeTask writes the row, or fails to, and returns at once.
NoTestCases(w) ==
  /\ stage[w] = "judge"
  /\ \/ row' = "No Test Cases" /\ UNCHANGED dbErrors
     \/ dbErrors' = dbErrors + 1 /\ UNCHANGED row
  /\ Leave({w})
  /\ \/ UNCHANGED tasks
     \/ tasks = "held" /\ tasks' = "none" /\ AllIdle'

\* The goroutines W stop before they have published, by a panic or a crash, or (W is
\* empty) a task is lost, given up, acknowledged, delivered or published again.
Stop(W) ==
  /\ Leave(W)
  /\ tasks' \in IF tasks = "none" THEN {"none"} ELSE {"none", "held", "waiting"}
  /\ tasks' = "none" => AllIdle'
  /\ UNCHANGED <<row, dbErrors>>

\* A write for another submission is refused, or the COUNT for this one.
OtherError ==
  /\ dbErrors' = dbErrors + 1
  /\ UNCHANGED <<row, tasks, stage, found>>

JudgeStep(w) ==
  \/ Start(w) \/ NoTestCases(w)
  \/ \E v \in Verdict : WriteVerdict(w, v) \/ WriteError(w, v)

SourceNext ==
  \/ Submit \/ ReJudge \/ ReJudgeError \/ OtherError
  \/ \E w \in Worker : JudgeStep(w) \/ PublishStatus(w)
  \/ \E W \in SUBSET Worker : Stop(W)

SourceStep == [SourceNext]_sourceVars

SourceSpec == SourceInit /\ [][SourceNext]_sourceVars

=============================================================================
