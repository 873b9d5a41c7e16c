----------------------------- MODULE ContestRank -----------------------------
(***************************************************************************)
(* The contest scoreboard of internal/handler/contest_rank.go.  JudgeTask  *)
(* calls UpdateContestRanking at its end, from several goroutines and      *)
(* processes at once; every Redis or MySQL call it makes is one step here, *)
(* so calls for one user may interleave and a crash may come between any   *)
(* two of them.  Every such call may fail, which updateACMRanking and      *)
(* updateIOIRanking notice in one case and take for an answer in the rest. *)
(***************************************************************************)
EXTENDS Integers, Sequences, FiniteSets, Functions, FiniteSetsExt

CONSTANTS
  Worker,       \* judging goroutines
  User, Problem,
  Subs,         \* number of contest submissions
  Author,       \* Author[s], ProblemOf[s]: columns of submission s
  ProblemOf,
  Result,       \* results of judging: [accepted, passed, at, used]
  Rules,        \* values of the contest's rule_type column
  MaxCalls,     \* bound: times a submission is judged
  MaxCrashes,   \* bound: crashes
  MaxFaults,    \* bound: Redis or MySQL calls that fail
  MaxRejudges,  \* bound: rejudges
  Absent        \* a member the sorted set does not have, a row not judged yet

Sub == 1 .. Subs

ASSUME ContestRankAssumption ==
  /\ IsFiniteSet(Worker) /\ IsFiniteSet(Problem)
  /\ Subs \in Nat
  /\ Author \in [Sub -> User] /\ ProblemOf \in [Sub -> Problem]
  /\ Result \subseteq [accepted : BOOLEAN, passed : Nat, at : Nat, used : Nat]
  /\ Rules \subseteq {"ACM", "IOI"}
  /\ {MaxCalls, MaxCrashes, MaxFaults, MaxRejudges} \subseteq Nat
  /\ Absent \notin Int \cup Result \cup [sub : Sub, result : Result]

VARIABLES
  rule,      \* contests.rule_type
  created,   \* submissions 1 .. created exist
  row,       \* row[s]: the judged columns of submission s
  wrong,     \* hash contest:<id>:wrong
  solved,    \* hashes contest:<id>:solved:<uid>
  score,     \* keys contest:<id>:score:<uid>:<pid>
  time,      \* keys contest:<id>:time:<uid>:<pid>
  rank,      \* sorted set contest:<id>:rank
  pc,        \* pc[w]: where goroutine w is in UpdateContestRanking
  cur,       \* cur[w]: the arguments of its call
  local,     \* local[w]: its local variables
  requeued,  \* submissions that ReJudge has queued, without their contest
  calls, crashes, faults, rejudges,    \* how much of the four bounds is used
  log,       \* history: log[u], the calls that ended, in order
  unmarked,  \* history: unmarked[u], solves of u whose mark in solved failed
  disturbed  \* history: users for whom calls overlapped, one crashed, a call of Redis
             \* or MySQL failed, a rejudge came in between, or one was ranked for a
             \* submission that was not the user's newest for the problem

redis   == <<wrong, solved, score, time, rank>>
bounds  == <<calls, crashes, faults, rejudges>>
history == <<log, unmarked, disturbed>>
vars    == <<rule, created, row, requeued, redis, pc, cur, local, bounds, history>>

\* The composite scores.
ACMWeight    == 1000000
IOIWeight    == 10000000
WrongPenalty == 20 * 60

\* Integer division of Go, which truncates toward zero.
Quotient(x, y) == IF x < 0 THEN -((-x) \div y) ELSE x \div y

EncodeACM(n, penalty) == n * ACMWeight - penalty
SolvedIn(sc)  == Quotient(sc + ACMWeight - 1, ACMWeight)
PenaltyIn(sc) == SolvedIn(sc) * ACMWeight - sc

EncodeIOI(passed, used) == passed * IOIWeight - used

NoLocal == [penalty |-> 0, solved |-> 0, total |-> 0, passed |-> 0, used |-> 0, todo |-> {}]

Init ==
  /\ rule \in Rules
  /\ created = 0
  /\ row = [s \in Sub |-> Absent]
  /\ wrong = [u \in User |-> [p \in Problem |-> 0]]
  /\ solved = wrong /\ score = wrong /\ time = wrong
  /\ rank = [u \in User |-> Absent]
  /\ pc = [w \in Worker |-> "idle"]
  /\ cur = [w \in Worker |-> Absent]
  /\ local = [w \in Worker |-> NoLocal]
  /\ requeued = {}
  /\ calls = 0 /\ crashes = 0 /\ faults = 0 /\ rejudges = 0
  /\ log = [u \in User |-> <<>>]
  /\ unmarked = [u \in User |-> 0]
  /\ disturbed = {}

U(w) == Author[cur[w].sub]
P(w) == ProblemOf[cur[w].sub]

GoTo(w, st) == pc' = [pc EXCEPT ![w] = st]
Let(w, l)   == local' = [local EXCEPT ![w] = l]

\* A goroutine is ranking for user u.
Active(u) == \E w \in Worker : pc[w] # "idle" /\ U(w) = u

\* The submissions of the author of s for the problem of s, as MySQL has them.
Rivals(s) == {x \in 1 .. created : Author[x] = Author[s] /\ ProblemOf[x] = ProblemOf[s]}

\* User u is disturbed, if c.
Disturb(u, c) == disturbed' = disturbed \cup (IF c THEN {u} ELSE {})

-----------------------------------------------------------------------------
\* ContestHandler.Submit inserts the next row.
Create ==
  LET s == created + 1
  IN /\ created < Subs
     /\ created' = s
     /\ Disturb(Author[s], Active(Author[s]))
     /\ UNCHANGED <<rule, row, requeued, redis, pc, cur, local, bounds, log, unmarked>>

\* JudgeTask writes the row of s, unless MySQL refuses, which is logged and no more:
\* the old row is what updateIOIRanking will read.
Judge(w, s, r) ==
  /\ pc[w] = "idle" /\ s <= created
  /\ calls < MaxCalls
  /\ calls' = calls + 1
  /\ \/ row' = [row EXCEPT ![s] = r] /\ UNCHANGED faults
     \/ faults < MaxFaults /\ faults' = faults + 1 /\ UNCHANGED row
  /\ cur' = [cur EXCEPT ![w] = [sub |-> s, result |-> r]]
  /\ GoTo(w, "judged")
  /\ Disturb(Author[s], \/ Active(Author[s])
                        \/ s # Max(Rivals(s))
                        \/ rule = "IOI" /\ faults' # faults)
  /\ UNCHANGED <<rule, created, requeued, redis, local, crashes, rejudges, log, unmarked>>

\* ReJudge empties the row of s and queues a task for it that names no contest ...
Rejudge(s) ==
  /\ s <= created /\ rejudges < MaxRejudges
  /\ rejudges' = rejudges + 1
  /\ row' = [row EXCEPT ![s] = Absent]
  /\ requeued' = requeued \cup {s}
  /\ Disturb(Author[s], rule = "IOI" /\ Active(Author[s]))
  /\ UNCHANGED <<rule, created, redis, pc, cur, local, calls, crashes, faults, log, unmarked>>

\* ... whose verdict is written and not ranked.
WriteUnranked(s, r) ==
  /\ s \in requeued
  /\ requeued' = requeued \ {s}
  /\ row' = [row EXCEPT ![s] = r]
  /\ Disturb(Author[s], rule = "IOI" /\ Active(Author[s]))
  /\ UNCHANGED <<rule, created, redis, pc, cur, local, bounds, log, unmarked>>

\* JudgeTask calls UpdateContestRanking once the result has been announced.
Call(w) ==
  /\ pc[w] = "judged"
  /\ GoTo(w, IF rule = "IOI" THEN "latest" ELSE IF cur[w].result.accepted THEN "check" ELSE "wrong")
  /\ UNCHANGED <<rule, created, row, requeued, redis, cur, local, bounds, history>>

\* The call of w ends, and its local variables with it.
Return(w) ==
  /\ GoTo(w, "idle")
  /\ Let(w, NoLocal)
  /\ cur' = [cur EXCEPT ![w] = Absent]
  /\ log' = [log EXCEPT ![U(w)] = Append(@, [problem |-> P(w), result |-> cur[w].result])]

\* The call of w goes on at st, having changed its local variables to l.
GoOn(w, st, l) == GoTo(w, st) /\ Let(w, l) /\ UNCHANGED <<cur, log>>

\* What no step of a call changes, and what only a failing one does.
Outside == UNCHANGED <<rule, created, row, requeued, calls, crashes, rejudges>>
Fine    == Outside /\ UNCHANGED <<faults, unmarked, disturbed>>

-----------------------------------------------------------------------------
(***************************************************************************)
(* updateACMRanking.                                                       *)
(***************************************************************************)

CountWrong(w) ==
  /\ pc[w] = "wrong"
  /\ wrong' = [wrong EXCEPT ![U(w)][P(w)] = @ + 1]
  /\ Return(w)
  /\ Fine /\ UNCHANGED <<solved, score, time, rank>>

\* HGET solved: a problem solved before is not counted again ...
CheckSolved(w) ==
  /\ pc[w] = "check"
  /\ IF solved[U(w)][P(w)] > 0 THEN Return(w) ELSE GoOn(w, "mark", local[w])
  /\ Fine /\ UNCHANGED redis

\* Mutant of MarkSolved: the hash is not written.
MarkNothing(w) ==
  /\ pc[w] = "mark"
  /\ GoOn(w, "penalty", local[w])
  /\ Fine /\ UNCHANGED redis

\* ... but HINCRBY comes in a second call, whose result nobody looks at.
MarkSolved(w) ==
  /\ pc[w] = "mark"
  /\ solved' = [solved EXCEPT ![U(w)][P(w)] = @ + 1]
  /\ GoOn(w, "penalty", local[w])
  /\ Fine /\ UNCHANGED <<wrong, score, time, rank>>

\* The penalty: the time of solving and 20 minutes for each of n wrong answers so far.
WithPenalty(w, n) ==
  GoOn(w, "read", [local[w] EXCEPT !.penalty = cur[w].result.at + n * WrongPenalty])

ReadWrong(w) ==
  /\ pc[w] = "penalty"
  /\ WithPenalty(w, wrong[U(w)][P(w)])
  /\ Fine /\ UNCHANGED redis

\* The user's entry is read and decoded ...
ReadRank(w) ==
  LET sc == rank[U(w)]
  IN /\ pc[w] = "read"
     /\ GoOn(w, "add", IF sc = Absent THEN local[w]
                       ELSE [local[w] EXCEPT !.solved = SolvedIn(sc), !.total = PenaltyIn(sc)])
     /\ Fine /\ UNCHANGED redis

\* Mutant of AddRank: the penalty of the last problem replaces the total.
AddLastPenalty(w) ==
  /\ pc[w] = "add"
  /\ rank' = [rank EXCEPT ![U(w)] = EncodeACM(local[w].solved + 1, local[w].penalty)]
  /\ Return(w)
  /\ Fine /\ UNCHANGED <<wrong, solved, score, time>>

\* ... and written back with one solve more.
AddRank(w) ==
  /\ pc[w] = "add"
  /\ rank' = [rank EXCEPT ![U(w)] =
                EncodeACM(local[w].solved + 1, local[w].total + local[w].penalty)]
  /\ Return(w)
  /\ Fine /\ UNCHANGED <<wrong, solved, score, time>>

\* A call of Redis fails.  A write that fails is missing, an increment may also be made
\* twice when go-redis repeats it; a read that fails finds nothing.
ACMFails(w) ==
  \/ /\ pc[w] = "wrong"
     /\ \E n \in {0, 2} : wrong' = [wrong EXCEPT ![U(w)][P(w)] = @ + n]
     /\ Return(w)
     /\ UNCHANGED <<solved, score, time, rank, unmarked>>
  \/ /\ pc[w] = "check" /\ GoOn(w, "mark", local[w])
     /\ UNCHANGED <<redis, unmarked>>
  \/ /\ pc[w] = "mark" /\ GoOn(w, "penalty", local[w])
     /\ \/ unmarked' = [unmarked EXCEPT ![U(w)] = @ + 1] /\ UNCHANGED solved
        \/ solved' = [solved EXCEPT ![U(w)][P(w)] = @ + 2] /\ UNCHANGED unmarked
     /\ UNCHANGED <<wrong, score, time, rank>>
  \/ /\ pc[w] = "penalty" /\ WithPenalty(w, 0)
     /\ UNCHANGED <<redis, unmarked>>
  \/ /\ pc[w] = "read" /\ GoOn(w, "add", local[w])
     /\ UNCHANGED <<redis, unmarked>>
  \/ /\ pc[w] = "add" /\ Return(w)
     /\ UNCHANGED <<redis, unmarked>>

-----------------------------------------------------------------------------
(***************************************************************************)
(* updateIOIRanking and recomputeIOIRank.                                  *)
(***************************************************************************)

\* The newest submission is ranked, which need not be the one that was judged; one
\* that is not judged has no test cases and ends the call.
ReadLatest(w) ==
  LET newest == row[Max(Rivals(cur[w].sub))]
  IN /\ pc[w] = "latest"
     /\ IF newest = Absent
        THEN Return(w)
        ELSE GoOn(w, "compare",
                  [local[w] EXCEPT !.passed = newest.passed, !.used = newest.used])
     /\ Fine /\ UNCHANGED redis

\* Only a better result than the best one goes on.
CompareBest(w) ==
  LET best == score[U(w)][P(w)]
  IN /\ pc[w] = "compare"
     /\ IF local[w].passed <= best /\ best > 0 THEN Return(w) ELSE GoOn(w, "score", local[w])
     /\ Fine /\ UNCHANGED redis

SetScore(w) ==
  /\ pc[w] = "score"
  /\ score' = [score EXCEPT ![U(w)][P(w)] = local[w].passed]
  /\ GoOn(w, "time", local[w])
  /\ Fine /\ UNCHANGED <<wrong, solved, time, rank>>

\* The totals start at zero and are summed over the problems of the contest.
SetTime(w) ==
  /\ pc[w] = "time"
  /\ time' = [time EXCEPT ![U(w)][P(w)] = local[w].used]
  /\ GoOn(w, "sum", [NoLocal EXCEPT !.todo = Problem])
  /\ Fine /\ UNCHANGED <<wrong, solved, score, rank>>

\* The keys of one problem are read; which problem comes first does not matter.
NextProblem(w) == CHOOSE p \in local[w].todo : TRUE

Add(w, passed, used) ==
  GoOn(w, "sum", [local[w] EXCEPT !.passed = @ + passed, !.used = @ + used,
                                  !.todo = @ \ {NextProblem(w)}])

SumProblem(w) ==
  /\ pc[w] = "sum" /\ local[w].todo # {}
  /\ Add(w, score[U(w)][NextProblem(w)], time[U(w)][NextProblem(w)])
  /\ Fine /\ UNCHANGED redis

WriteTotal(w) ==
  /\ pc[w] = "sum" /\ local[w].todo = {}
  /\ rank' = IF local[w].passed > 0
             THEN [rank EXCEPT ![U(w)] = EncodeIOI(local[w].passed, local[w].used)]
             ELSE rank
  /\ Return(w)
  /\ Fine /\ UNCHANGED <<wrong, solved, score, time>>

\* A call fails: the newest submission is not found, no best result is known, a key is
\* not set, the contest has no problems, a key adds nothing to the total, the total is
\* not written.
IOIFails(w) ==
  \/ /\ pc[w] = "latest" /\ Return(w)
     /\ UNCHANGED redis
  \/ /\ pc[w] = "compare" /\ GoOn(w, "score", local[w])
     /\ UNCHANGED redis
  \/ /\ pc[w] = "score" /\ GoOn(w, "time", local[w])
     /\ UNCHANGED redis
  \/ /\ pc[w] = "time"
     /\ \E used \in {local[w].used, time[U(w)][P(w)]} :
          time' = [time EXCEPT ![U(w)][P(w)] = used]
     /\ \E todo \in {{}, Problem} : GoOn(w, "sum", [NoLocal EXCEPT !.todo = todo])
     /\ UNCHANGED <<wrong, solved, score, rank>>
  \/ /\ pc[w] = "sum" /\ local[w].todo # {}
     /\ \E passed \in {0, score[U(w)][NextProblem(w)]}, used \in {0, time[U(w)][NextProblem(w)]} :
          Add(w, passed, used)
     /\ UNCHANGED redis
  \/ /\ pc[w] = "sum" /\ local[w].todo = {} /\ Return(w)
     /\ UNCHANGED redis

-----------------------------------------------------------------------------
\* A call of MySQL or Redis that w makes fails.  Only a contest or a newest submission
\* that cannot be read ends the ranking.
CallFails(w) ==
  /\ faults < MaxFaults
  /\ faults' = faults + 1
  /\ \/ pc[w] = "judged" /\ Return(w) /\ UNCHANGED <<redis, unmarked>>
     \/ ACMFails(w)
     \/ IOIFails(w) /\ UNCHANGED unmarked
  /\ Disturb(U(w), TRUE)
  /\ Outside

\* The process of w dies; JudgeTask may be called again for the same submission.
Crash(w) ==
  /\ pc[w] # "idle"
  /\ crashes < MaxCrashes
  /\ crashes' = crashes + 1
  /\ GoTo(w, "idle")
  /\ Let(w, NoLocal)
  /\ cur' = [cur EXCEPT ![w] = Absent]
  /\ Disturb(U(w), TRUE)
  /\ UNCHANGED <<rule, created, row, requeued, redis, calls, faults, rejudges, log, unmarked>>

UpdateACM(w) == CountWrong(w) \/ CheckSolved(w) \/ MarkSolved(w) \/ ReadWrong(w) \/ ReadRank(w)
                  \/ AddRank(w)
UpdateIOI(w) == ReadLatest(w) \/ CompareBest(w) \/ SetScore(w) \/ SetTime(w) \/ SumProblem(w)
                  \/ WriteTotal(w)

Next ==
  \/ Create
  \/ \E s \in Sub : Rejudge(s) \/ \E r \in Result : WriteUnranked(s, r)
  \/ \E w \in Worker :
       \/ \E s \in Sub, r \in Result : Judge(w, s, r)
       \/ Call(w) \/ UpdateACM(w) \/ UpdateIOI(w) \/ CallFails(w) \/ Crash(w)

Spec == Init /\ [][Next]_vars

-----------------------------------------------------------------------------
(***************************************************************************)
(* What the scoreboard should show, from the calls that ended.             *)
(***************************************************************************)

\* A call that ended.
Ranked == [problem : Problem, result : Result]

\* In a log, the calls for a problem, those with an Accepted, the problems solved.
Calls(l, p)    == {i \in DOMAIN l : l[i].problem = p}
Accepted(l, p) == {i \in Calls(l, p) : l[i].result.accepted}
Solved(l)      == {p \in Problem : Accepted(l, p) # {}}

\* ICPC rules: the time of the first Accepted and 20 minutes for each try before it.
ICPCPenalty(l, p) ==
  LET i == Min(Accepted(l, p))
  IN l[i].result.at + WrongPenalty * Cardinality({k \in Calls(l, p) : k < i})

TotalPenalty(l) == SumFunction([p \in Solved(l) |-> ICPCPenalty(l, p)])

\* IOI rules: the best result of each problem, and the time of the first such result.
Best(l, p) == Max({0} \cup {l[i].result.passed : i \in Calls(l, p)})
BestTime(l, p) ==
  LET best == {i \in Calls(l, p) : l[i].result.passed = Best(l, p)}
  IN IF best = {} THEN 0
     ELSE l[IF Best(l, p) > 0 THEN Min(best) ELSE Max(best)].result.used

Quiet(u) == u \notin disturbed /\ ~ Active(u)

ShowsACM(u) ==
  IF Solved(log[u]) = {} THEN rank[u] = Absent
  ELSE /\ rank[u] # Absent
       /\ SolvedIn(rank[u]) = Cardinality(Solved(log[u]))
       /\ PenaltyIn(rank[u]) = TotalPenalty(log[u])

ShowsIOI(u) ==
  LET passed == SumFunction([p \in Problem |-> Best(log[u], p)])
      used   == SumFunction([p \in Problem |-> BestTime(log[u], p)])
  IN rank[u] = IF passed = 0 THEN Absent ELSE EncodeIOI(passed, used)

-----------------------------------------------------------------------------
(***************************************************************************)
(* Properties.                                                             *)
(***************************************************************************)

\* Every variable has its type; a goroutine has arguments while it is in a call.
TypeOK ==
  /\ rule \in Rules /\ created \in 0 .. Subs
  /\ row \in [Sub -> Result \cup {Absent}]
  /\ {wrong, solved, score, time} \subseteq [User -> [Problem -> Nat]]
  /\ rank \in [User -> Int \cup {Absent}]
  /\ pc \in [Worker -> {"idle", "judged", "wrong", "check", "mark", "penalty", "read", "add",
                        "latest", "compare", "score", "time", "sum"}]
  /\ cur \in [Worker -> [sub : Sub, result : Result] \cup {Absent}]
  /\ \A w \in Worker : pc[w] = "idle" <=> cur[w] = Absent
  /\ local \in [Worker -> [penalty : Nat, solved : Int, total : Nat, passed : Nat,
                           used : Nat, todo : SUBSET Problem]]
  /\ requeued \subseteq Sub
  /\ calls \in 0 .. MaxCalls /\ crashes \in 0 .. MaxCrashes
  /\ faults \in 0 .. MaxFaults /\ rejudges \in 0 .. MaxRejudges
  /\ log \in [User -> Seq(Ranked)] /\ unmarked \in [User -> Nat]
  /\ disturbed \subseteq User

\* When the calls for a user never overlapped, none crashed or was failed by Redis or
\* MySQL and each ranked the user's newest submission, the scoreboard shows exactly
\* what the rules give for the verdicts in the order they were ranked: the decoded
\* entry survives repeated Accepted verdicts, wrong answers after a solve, rejudges
\* between the calls, in an ACM contest also a refused or a rejudged row, and whatever
\* goes wrong for other users.  An ACM entry has room for one weight of penalty; a
\* total beyond takes a solve away.
BoardMatchesVerdicts ==
  \A u \in User : Quiet(u) =>
    IF rule = "ACM" THEN TotalPenalty(log[u]) < ACMWeight => ShowsACM(u) ELSE ShowsIOI(u)

\* Whatever overlaps, crashes or fails, nobody's entry has more solves than Accepted
\* verdicts that were counted for the user, up to the marks that Redis refused:
\* updateACMRanking marks the problem before it touches the sorted set.
SolvesAreBacked ==
  rule = "ACM" =>
    \A u \in User :
      rank[u] # Absent => SolvedIn(rank[u]) <= SumFunction(solved[u]) + unmarked[u]

=============================================================================
