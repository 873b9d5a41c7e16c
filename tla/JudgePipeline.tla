---------------------------- MODULE JudgePipeline ----------------------------
(***************************************************************************)
(* From a submission to its verdict: the handlers that create and reset    *)
(* rows of the submissions table (internal/handler/submission.go and       *)
(* contest.go), the queue (JudgeQueue) and worker.JudgeTask                *)
(* (internal/worker/worker.go), which judges, writes the row and the       *)
(* problem's accepted_count, announces the verdict and updates the         *)
(* scoreboard.  The steps of different goroutines interleave.              *)
(***************************************************************************)
EXTENDS JudgeQueue

CONSTANTS
  Sub,          \* submission ids
  UserOf, ProblemOf, LanguageOf,   \* columns of a submission
  CodeOf,       \* CodeOf[s]: the dedup key, a hash of user, problem, language, code
  InContest,    \* submissions made through ContestHandler.Submit
  Verdict,      \* statuses a judged submission can get
  MaxRejudges,  \* bound: calls of ReJudge
  MaxDbErrors   \* bound: statements of ReJudge and JudgeTask the database refuses

VARIABLES
  row,        \* row[s]: the status column, "none" before the INSERT
  accepted,   \* accepted[p]: problems.accepted_count
  dedup,      \* dedup[k]: the status cached under a dedup key, or "none"
  stage,      \* stage[w]: how far JudgeTask has come in goroutine w
  verdict,    \* verdict[w]: the status it found
  first,      \* first[w]: no other Accepted row existed when its transaction looked
  ranked,     \* ranked[s]: how often UpdateContestRanking was called for s
  rejudges, dbErrors,          \* how much of the two bounds is used
  solved,     \* history: solved[p], users with an Accepted row at some time
  uncounted,  \* history: uncounted[p], increments of accepted_count that were refused
  scored,     \* history: submissions UpdateContestRanking has returned for
  last,       \* history: last[s], the newest job of s
  contestJob, \* history: contestJob[s], the job ContestHandler.Submit made
  unwritten,  \* history: jobs that ended with their row's write refused
  untested    \* history: jobs for which no test case was found

Language == {LanguageOf[s] : s \in Sub}
Problem  == {ProblemOf[s] : s \in Sub}
Key      == {CodeOf[s] : s \in Sub}

\* What the handlers publish: the ContestID is a pointer, nil unless the publisher sets it.
JudgeTasks == [sub : Sub, contest : BOOLEAN]

TopicForLanguage(lang) == IF lang \in {"cpp", "c", "go", "rust"} THEN "fast" ELSE "slow"

TaskTopic == [t \in Task |-> TopicForLanguage(LanguageOf[t.sub])]

ASSUME PipelineAssumption ==
  /\ Task = JudgeTasks /\ Topic = TaskTopic
  /\ InContest \subseteq Sub
  /\ {"Accepted"} \subseteq Verdict
  /\ {"none", "pending", "No Test Cases"} \cap Verdict = {}
  /\ MaxRejudges \in Nat /\ MaxDbErrors \in Nat

dbVars   == <<row, accepted, solved, uncounted, unwritten, dbErrors>>
board    == <<ranked, scored>>
workVars == <<stage, verdict, first>>
history  == <<last, contestJob, untested, rejudges>>
vars == <<queueVars, dbVars, workVars, history, dedup, board>>

PipelineInit ==
  /\ Init
  /\ row = [s \in Sub |-> "none"]
  /\ accepted = [p \in Problem |-> 0]
  /\ dedup = [k \in Key |-> "none"]
  /\ stage = [w \in Worker |-> "idle"]
  /\ verdict = [w \in Worker |-> "none"]
  /\ first = [w \in Worker |-> FALSE]
  /\ ranked = [s \in Sub |-> 0] /\ scored = {}
  /\ rejudges = 0 /\ dbErrors = 0
  /\ solved = [p \in Problem |-> {}] /\ uncounted = [p \in Problem |-> 0]
  /\ last = [s \in Sub |-> 0]
  /\ contestJob = [s \in Sub |-> 0]
  /\ unwritten = {} /\ untested = {}

-----------------------------------------------------------------------------
(***************************************************************************)
(* The API.                                                                *)
(***************************************************************************)

PublishTask(p, s, contest) ==
  /\ Offer(p, [sub |-> s, contest |-> contest])
  /\ last' = [last EXCEPT ![s] = offered + 1]

\* SubmissionHandler.Submit: an identical submission whose verdict is cached is
\* answered from the cache and leaves no trace.
Submit(p, s) ==
  /\ s \notin InContest
  /\ row[s] = "none"
  /\ dedup[CodeOf[s]] = "none"
  /\ row' = [row EXCEPT ![s] = "pending"]
  /\ PublishTask(p, s, FALSE)
  /\ UNCHANGED <<accepted, solved, uncounted, unwritten, dbErrors, workVars, contestJob,
                 untested, rejudges, dedup, board>>

\* ContestHandler.Submit, inside the contest's window.
ContestSubmit(p, s) ==
  /\ s \in InContest
  /\ row[s] = "none"
  /\ row' = [row EXCEPT ![s] = "pending"]
  /\ PublishTask(p, s, TRUE)
  /\ contestJob' = [contestJob EXCEPT ![s] = offered + 1]
  /\ UNCHANGED <<accepted, solved, uncounted, unwritten, dbErrors, workVars, untested,
                 rejudges, dedup, board>>

\* JudgeTask's transaction has updated the row of s and not committed.
Locked(s) == \E w \in Worker : stage[w] = "tx" /\ held[w].task.sub = s

\* Mutant of ReJudge: the new task of a contest submission keeps its ContestID.
ReJudgeInContest(p, s) ==
  /\ row[s] # "none"
  /\ ~Locked(s)
  /\ rejudges < MaxRejudges
  /\ rejudges' = rejudges + 1
  /\ row' = [row EXCEPT ![s] = "pending"]
  /\ PublishTask(p, s, s \in InContest)
  /\ UNCHANGED <<accepted, solved, uncounted, unwritten, dbErrors, workVars, contestJob, untested,
                 dedup, board>>

\* ReJudge, and each turn of the loop of ReJudgeBatch: whatever its status is, the
\* row is reset and a task published, which has no ContestID.
ReJudge(p, s) ==
  /\ row[s] # "none"
  /\ ~Locked(s)
  /\ rejudges < MaxRejudges
  /\ rejudges' = rejudges + 1
  /\ row' = [row EXCEPT ![s] = "pending"]
  /\ PublishTask(p, s, FALSE)
  /\ UNCHANGED <<accepted, solved, uncounted, unwritten, dbErrors, workVars, contestJob, untested,
                 dedup, board>>

\* The database refuses the reset, nobody looks at its error, and the task is published.
ReJudgeError(p, s) ==
  /\ row[s] # "none"
  /\ rejudges < MaxRejudges
  /\ rejudges' = rejudges + 1
  /\ dbErrors < MaxDbErrors
  /\ dbErrors' = dbErrors + 1
  /\ PublishTask(p, s, FALSE)
  /\ UNCHANGED <<row, accepted, solved, uncounted, unwritten, workVars, contestJob,
                 untested, dedup, board>>

-----------------------------------------------------------------------------
(***************************************************************************)
(* worker.JudgeTask.                                                       *)
(***************************************************************************)

SubOf(w) == held[w].task.sub

GoTo(w, st) == stage' = [stage EXCEPT ![w] = st]

\* JudgeTask ends in the goroutines W, and its local variables with it.
Leave(W) ==
  /\ stage' = [w \in Worker |-> IF w \in W THEN "idle" ELSE stage[w]]
  /\ verdict' = [w \in Worker |-> IF w \in W THEN "none" ELSE verdict[w]]
  /\ first' = [w \in Worker |-> IF w \in W THEN FALSE ELSE first[w]]

Begin(w) ==
  /\ \E m \in queue : Take(w, m)
  /\ GoTo(w, "judge")
  /\ UNCHANGED <<dbVars, verdict, first, history, dedup, board>>

\* Mutant of NoTestCases: the handler returns without writing the row.
NoTestCasesSilently(w) ==
  /\ stage[w] = "judge"
  /\ untested' = untested \cup {held[w].job}
  /\ HandlerReturns(w)
  /\ Leave({w})
  /\ UNCHANGED <<dbVars, last, contestJob, rejudges, dedup, board>>

\* Neither the disk nor MySQL has test cases: the row says so, and nothing is
\* announced, cached or ranked.
NoTestCases(w) ==
  /\ stage[w] = "judge"
  /\ ~Locked(SubOf(w))
  /\ row' = [row EXCEPT ![SubOf(w)] = "No Test Cases"]
  /\ untested' = untested \cup {held[w].job}
  /\ HandlerReturns(w)
  /\ Leave({w})
  /\ UNCHANGED <<accepted, solved, uncounted, unwritten, dbErrors, last, contestJob, rejudges,
                 dedup, board>>

\* The database refuses that UPDATE, and nobody looks at its error.
NoTestCasesError(w) ==
  /\ stage[w] = "judge"
  /\ dbErrors < MaxDbErrors
  /\ dbErrors' = dbErrors + 1
  /\ unwritten' = unwritten \cup {held[w].job}
  /\ untested' = untested \cup {held[w].job}
  /\ HandlerReturns(w)
  /\ Leave({w})
  /\ UNCHANGED <<row, accepted, solved, uncounted, last, contestJob, rejudges, dedup, board>>

\* Mutant of Judge: the verdict is announced before the row is written.
JudgeAndAnnounce(w, v) ==
  /\ stage[w] = "judge"
  /\ verdict' = [verdict EXCEPT ![w] = v]
  /\ GoTo(w, "announce")
  /\ UNCHANGED <<queueVars, dbVars, first, history, dedup, board>>

\* The loop over the test cases; what the program under test does is not modelled.
Judge(w, v) ==
  /\ stage[w] = "judge"
  /\ verdict' = [verdict EXCEPT ![w] = v]
  /\ GoTo(w, "write")
  /\ UNCHANGED <<queueVars, dbVars, first, history, dedup, board>>

\* A failing verdict is one UPDATE.
WriteFailure(w) ==
  /\ stage[w] = "write" /\ verdict[w] # "Accepted"
  /\ ~Locked(SubOf(w))
  /\ row' = [row EXCEPT ![SubOf(w)] = verdict[w]]
  /\ GoTo(w, "announce")
  /\ UNCHANGED <<queueVars, accepted, solved, uncounted, unwritten, dbErrors, verdict, first, history,
                 dedup, board>>

\* Mutant of OtherAccepted: the query counts the row just updated as well.
AcceptedOfUser(s) ==
  {x \in Sub : /\ UserOf[x] = UserOf[s] /\ ProblemOf[x] = ProblemOf[s]
               /\ row[x] = "Accepted" \/ x = s}

\* Committed Accepted rows of the same user and problem, other than s.
OtherAccepted(s) ==
  {x \in Sub \ {s} : /\ UserOf[x] = UserOf[s] /\ ProblemOf[x] = ProblemOf[s]
                     /\ row[x] = "Accepted"}

\* An Accepted verdict is a transaction: the UPDATE locks the row of s, the COUNT
\* reads a snapshot of what is committed; when it fails, it has counted none ...
TxCount(w) ==
  /\ stage[w] = "write" /\ verdict[w] = "Accepted"
  /\ ~Locked(SubOf(w))
  /\ \/ /\ first' = [first EXCEPT ![w] = OtherAccepted(SubOf(w)) = {}]
        /\ UNCHANGED dbErrors
     \/ /\ dbErrors < MaxDbErrors
        /\ dbErrors' = dbErrors + 1
        /\ first' = [first EXCEPT ![w] = TRUE]
  /\ GoTo(w, "tx")
  /\ UNCHANGED <<queueVars, row, accepted, solved, uncounted, unwritten, verdict, history,
                 dedup, board>>

CommitAccepted(w) ==
  /\ stage[w] = "tx"
  /\ row' = [row EXCEPT ![SubOf(w)] = "Accepted"]
  /\ solved' = [solved EXCEPT ![ProblemOf[SubOf(w)]] = @ \cup {UserOf[SubOf(w)]}]
  /\ GoTo(w, "announce")
  /\ UNCHANGED <<queueVars, unwritten, verdict, first, history, dedup, board>>

\* ... and the increment takes effect with the commit ...
TxCommit(w) ==
  /\ CommitAccepted(w)
  /\ accepted' = IF first[w] THEN [accepted EXCEPT ![ProblemOf[SubOf(w)]] = @ + 1]
                 ELSE accepted
  /\ UNCHANGED <<uncounted, dbErrors>>

\* ... or is refused, and the row is committed without it.
TxCommitUncounted(w) ==
  /\ CommitAccepted(w)
  /\ first[w]
  /\ dbErrors < MaxDbErrors
  /\ dbErrors' = dbErrors + 1
  /\ uncounted' = [uncounted EXCEPT ![ProblemOf[SubOf(w)]] = @ + 1]
  /\ UNCHANGED accepted

\* The write fails or the transaction rolls back: JudgeTask goes on.
DbError(w) ==
  /\ stage[w] \in {"write", "tx"}
  /\ dbErrors < MaxDbErrors
  /\ dbErrors' = dbErrors + 1
  /\ unwritten' = unwritten \cup {held[w].job}
  /\ GoTo(w, "announce")
  /\ UNCHANGED <<queueVars, row, accepted, solved, uncounted, verdict, first, history,
                 dedup, board>>

\* publishSubmissionStatus, whose message nobody keeps, and cacheDedupResult.
Announce(w) ==
  /\ stage[w] = "announce"
  /\ dedup' = [dedup EXCEPT ![CodeOf[SubOf(w)]] = verdict[w]]
  /\ GoTo(w, "rank")
  /\ UNCHANGED <<queueVars, dbVars, verdict, first, history, board>>

\* Mutant of Rank: only Accepted submissions reach the scoreboard.
RankAccepted(w) ==
  /\ stage[w] = "rank"
  /\ IF verdict[w] = "Accepted"
     THEN /\ ranked' = IF held[w].task.contest
                       THEN [ranked EXCEPT ![SubOf(w)] = @ + 1] ELSE ranked
          /\ GoTo(w, "ranking")
          /\ UNCHANGED <<queueVars, verdict, first, scored>>
     ELSE HandlerReturns(w) /\ Leave({w}) /\ UNCHANGED board
  /\ UNCHANGED <<dbVars, history, dedup>>

\* UpdateContestRanking is called when the task has a contest ...
Rank(w) ==
  /\ stage[w] = "rank"
  /\ ranked' = IF held[w].task.contest THEN [ranked EXCEPT ![SubOf(w)] = @ + 1] ELSE ranked
  /\ GoTo(w, "ranking")
  /\ UNCHANGED <<queueVars, dbVars, verdict, first, history, dedup, scored>>

\* ... and returns, and with it the handler.
Finish(w) ==
  /\ stage[w] = "ranking"
  /\ scored' = IF held[w].task.contest THEN scored \cup {SubOf(w)} ELSE scored
  /\ HandlerReturns(w)
  /\ Leave({w})
  /\ UNCHANGED <<dbVars, history, dedup, ranked>>

\* A panic anywhere in JudgeTask, UpdateContestRanking included; an open transaction is rolled back.
Panic(w) ==
  /\ stage[w] # "idle"
  /\ HandlerPanics(w)
  /\ Leave({w})
  /\ UNCHANGED <<dbVars, history, dedup, board>>

-----------------------------------------------------------------------------
\* The cached status expires 3 seconds after it was set.
DedupExpires(k) ==
  /\ dedup[k] # "none"
  /\ dedup' = [dedup EXCEPT ![k] = "none"]
  /\ UNCHANGED <<queueVars, dbVars, workVars, history, board>>

\* The steps of the queue that are no step of a handler.
ConsumerLoop(w) ==
  /\ (\E m \in queue : GiveUp(w, m)) \/ Republish(w) \/ RepublishTwice(w)
       \/ RepublishError(w) \/ Ack(w) \/ AckError(w)
  /\ UNCHANGED <<dbVars, workVars, history, dedup, board>>

PublishStep(m) ==
  /\ Publish(m) \/ PublishTwice(m) \/ PublishError(m)
  /\ UNCHANGED <<dbVars, workVars, history, dedup, board>>

BrokerStep ==
  /\ Broker
  /\ UNCHANGED <<dbVars, workVars, history, dedup, board>>

\* Process p dies: JudgeTask stops wherever it is.
ProcessCrash(p) ==
  /\ Crash(p)
  /\ Leave({w \in Worker : Host[w] = p})
  /\ UNCHANGED <<dbVars, history, dedup, board>>

JudgeTask(w) ==
  \/ Begin(w) \/ NoTestCases(w) \/ NoTestCasesError(w)
  \/ \E v \in Verdict : Judge(w, v)
  \/ WriteFailure(w) \/ TxCount(w) \/ TxCommit(w) \/ TxCommitUncounted(w) \/ DbError(w)
  \/ Announce(w) \/ Rank(w) \/ Finish(w) \/ Panic(w)

PipelineNext ==
  \/ \E p \in Process, s \in Sub :
       Submit(p, s) \/ ContestSubmit(p, s) \/ ReJudge(p, s) \/ ReJudgeError(p, s)
  \/ \E w \in Worker : JudgeTask(w) \/ ConsumerLoop(w)
  \/ \E m \in outbox : PublishStep(m)
  \/ BrokerStep
  \/ \E k \in Key : DedupExpires(k)
  \/ \E p \in Process : ProcessCrash(p)

PipelineSpec == PipelineInit /\ [][PipelineNext]_vars

\* The fairness of JudgeQueue, with the handler's steps in the place of its end.
PipelineFairness ==
  /\ \A w \in Worker : WF_vars(JudgeTask(w) \/ ConsumerLoop(w))
  /\ WF_vars(\E m \in outbox : PublishStep(m))
  /\ WF_vars(\E m \in unacked : ~HasHolder(m) /\ Redeliver(m) /\ BrokerStep)

FairPipeline == PipelineSpec /\ PipelineFairness

-----------------------------------------------------------------------------
(***************************************************************************)
(* Properties.                                                             *)
(***************************************************************************)

RowStatus == {"none", "pending", "No Test Cases"} \cup Verdict

\* Every variable of the pipeline has its type, and a goroutine is inside
\* JudgeTask exactly while the queue counts it as handling a message.
PipelineTypes ==
  /\ row \in [Sub -> RowStatus]
  /\ accepted \in [Problem -> Nat]
  /\ dedup \in [Key -> {"none"} \cup Verdict]
  /\ stage \in [Worker -> {"idle", "judge", "write", "tx", "announce", "rank", "ranking"}]
  /\ verdict \in [Worker -> {"none"} \cup Verdict]
  /\ first \in [Worker -> BOOLEAN]
  /\ ranked \in [Sub -> Nat] /\ scored \subseteq Sub
  /\ rejudges \in Nat /\ dbErrors \in Nat
  /\ solved \in [Problem -> SUBSET {UserOf[s] : s \in Sub}]
  /\ uncounted \in [Problem -> Nat]
  /\ last \in [Sub -> 0 .. MaxOffers] /\ contestJob \in [Sub -> 0 .. MaxOffers]
  /\ unwritten \cup untested \subseteq 1 .. MaxOffers
  /\ \A w \in Worker : stage[w] # "idle" <=> phase[w] = "handling"

\* A goroutine has yet to take message m, or to publish it again.
Waits(m) ==
  \/ m \in outbox \cup queue
  \/ \E w \in Worker : held[w] = m /\ phase[w] = "requeue"
  \/ backend = "nsq" /\ m \in unacked /\ ~HasHolder(m)

\* Job j is in the hands of JudgeTask or will reach it: it has a copy that waits or is
\* being handled.
Ahead(j) ==
  \E m \in Copies :
    /\ m.job = j
    /\ Waits(m) \/ \E w \in Worker : held[w] = m /\ phase[w] = "handling"

\* A row is never left at "pending" by accident: its newest task is being judged or
\* will be, or was left in the Redis pending list by a crash or a lost reply, dropped
\* by the retry limit, lost with a failed publish or a volatile queue, or ended when
\* the database refused to write the row.  It needs the row to be reset before the
\* task is published and the task to be acknowledged after the row is written, through
\* every interleaving of rejudges, retries, redeliveries and crashes.
PendingIsOwed ==
  \A s \in Sub :
    row[s] = "pending" =>
      \/ Ahead(last[s]) \/ Abandoned(last[s])
      \/ last[s] \in dropped \cup lost \cup unwritten

\* accepted_count is never below the number of users who have had an Accepted
\* submission of the problem by more than the increments the database refused,
\* whatever is rejudged, retried or judged twice and whatever COUNT fails.
AcceptedNeverUndercounts ==
  \A p \in Problem : accepted[p] + uncounted[p] >= Cardinality(solved[p])

\* UpdateContestRanking has returned for a contest submission with a verdict, or the
\* task that will call it is being handled or will be, or was left in the Redis pending
\* list, dropped, lost or judged without test cases: JudgeTask writes the row before it
\* ranks, and is acknowledged after both.  A rejudge changes nothing of this, although
\* its own task names no contest.
VerdictReachesScoreboard ==
  \A s \in InContest :
    row[s] \in Verdict =>
      \/ s \in scored
      \/ Ahead(contestJob[s]) \/ Abandoned(contestJob[s])
      \/ contestJob[s] \in dropped \cup lost \cup untested

\* Without redelivery and without a task that go-redis added twice, a submission is
\* ranked once, and once more at most for every panic of its contest task:
\* updateACMRanking would count another wrong answer.  Rejudges, failed
\* acknowledgements, crashes and refused writes never add to it.
RankedOncePerAttempt ==
  backend # "nsq" =>
    \A s \in Sub, j \in Job \ twice : contestJob[s] = j => ranked[s] <= 1 + panics[j]

\* Every pending submission is eventually decided, unless its task was dropped or lost,
\* the database refused to write its row, or the task is stranded in the Redis pending
\* list or behind a channel whose consumers all wait for room in it.
EverySubmissionDecided ==
  \A s \in Sub :
    (row[s] = "pending") ~>
      \/ row[s] # "pending"
      \/ last[s] \in dropped \cup lost \cup unwritten
      \/ Stranded(last[s]) \/ Jammed(last[s])

(***************************************************************************)
(* What the pages of submission s depend on (VerdictSource).               *)
(***************************************************************************)

TasksOf(s) ==
  LET mine == {m \in Copies : m.task.sub = s}
  IN IF \E m \in mine : Waits(m) THEN "waiting" ELSE IF mine # {} THEN "held" ELSE "none"

Judges(w, s) == stage[w] \in {"judge", "write", "tx"} /\ SubOf(w) = s
Tells(w, s)  == stage[w] = "announce" /\ SubOf(w) = s

Source(s) == INSTANCE VerdictSource
  WITH row   <- row[s],
       tasks <- TasksOf(s),
       stage <- [w \in Worker |-> IF Judges(w, s) THEN "judge"
                                  ELSE IF Tells(w, s) THEN "publish" ELSE "idle"],
       found <- [w \in Worker |-> IF Tells(w, s) THEN verdict[w] ELSE "none"]

\* The pipeline judges each submission as SubmissionStream has it: whatever is retried,
\* redelivered, rejudged, judged twice at a time or cut off by a crash, a verdict is
\* announced only after its row was written or refused, a row changes by the goroutines
\* that judge it and by rejudges alone, and not at all once its last task is gone.
VerdictsComeInOrder ==
  /\ \A s \in Sub : Source(s)!SourceInit
  /\ [][\A s \in Sub : Source(s)!SourceStep]_vars

-----------------------------------------------------------------------------
(***************************************************************************)
(* Statements of the documentation.                                        *)
(***************************************************************************)

\* worker.go: accepted_count grows with the first Accepted verdict of a user
\* only, so repeated ones do not inflate it.
AcceptedCountsUsers ==
  \A p \in Problem : accepted[p] <= Cardinality(solved[p])

=============================================================================
