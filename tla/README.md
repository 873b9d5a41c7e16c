# JudgeX: a verification project in TLA+

JudgeX is an online judge: a Go API server, one or more judge-worker processes, a Vue front
end, MySQL, Redis and nsqd. This directory holds TLA+ models of the parts where several
goroutines and processes meet, TLC configurations that check them on small instances, and
proofs, checked by TLAPS, of the properties that matter most, for every value of the constants.

Paths below are relative to the repository. `PROJECT.json` maps every definition to the lines
it translates (`map`), lists the runs, the theorems, the hazards that the properties are for,
and, for each checked property, a mutant of the model that violates it: a plausible mistake in
the code which the run would have found. Mutants stand beside the definition they change and
are called `Mutant of ...` in their comment; no specification uses them.

## 1. The system

| Part | State it keeps | Operations | Interacts with |
|---|---|---|---|
| Judge queue, `internal/queue/queue.go` | selected back end; in-process channel; Redis stream and its pending list; NSQ topics | `Init`, `Publish`, `Requeue`, three consumer loops, `processWithRecovery` | called by the API handlers; calls `worker.JudgeTask` |
| Judging, `internal/worker/worker.go` | rows of `submissions`, `problems.accepted_count`, the dedup cache | `JudgeTask` | queue, sandbox, database, Redis Pub/Sub, ranking |
| Submissions, `internal/handler/submission.go` | rows of `submissions` | `Submit`, `ReJudge`, `ReJudgeBatch`, `StreamEvents`, reads | queue, Pub/Sub, the submission page |
| Contests, `internal/handler/contest.go` | contests and their problems | create, update, `Submit` | queue |
| Ranking, `internal/handler/contest_rank.go` | Redis hashes, keys and a sorted set per contest | `UpdateContestRanking`, `GetLeaderboard`, `StreamLeaderboard` | called at the end of `JudgeTask`, from several processes |
| Live status, `StreamEvents` and `frontend/src/views/SubmissionDetail.vue` | one subscription per stream; what the page shows | open, read the row, subscribe, event, end | row, Pub/Sub |
| Problem pages, `internal/handler/problem.go` | row, cached problem, null marker | `Get`, `Create`, `Update`, `Delete` | Bloom filter, singleflight `Do`, Redis |
| Bloom filter, `internal/cache/bloom.go` | one filter per server process | `Add`, `MightContain`, periodic `rebuild` | `problem.go` |
| AI breaker, `internal/ai/breaker.go`, `client.go` | state, consecutive failures, time stamps | `Allow`, `RecordSuccess`, `RecordFailure` | every `StreamChat` goroutine |
| AI diagnosis, `internal/handler/ai_socratic_debugger.go`, `useAiDiagnose.ts` | a semaphore, a context and an event stream per request, rows of `problem_feedback` | `AIDiagnoseHandler`, three analyses, repair loop, the goroutine that checks the samples | AI client, sandbox, test data, the diagnosis page |
| Request limits, `internal/middleware/auth.go`, `cache.IncrWithTTL` | a counter with an expiry per address or user | `RateLimit`, `RateLimitSubmission` | every limited route |
| Judge, `internal/judge/judge.go` | a work directory per run | `Run`: prepare, compile, run, compare | `JudgeTask`, sandbox |
| Sandbox, `internal/sandbox` | a child process, its cgroup and jail, a deadline | `Run`; `SandboxInit` in the child | kernel |
| Test data, `internal/storage`, `cmd/server/main.go`, `worker.go` | files of the local directory or objects of a bucket, the old `test_cases` table | upload, delete all, add, change, delete one; load | judge tasks, administrators |
| Accounts, `handler/user.go`, `profile.go`, `admin.go` | users | login, change | database |
| Observation: health, diagnostics, metrics, tracing, eBPF | counters | probes | nothing reads them back |
| Tools and deployment: `cmd/importer`, `cmd/stress`, `deploy`, `k8s`, `helm` | | | they fix how many processes there are |

What is hard here:

* **Interleaving.** Judge tasks run in several goroutines of several processes and share rows,
  counters and Redis keys. No call to Redis that reads and later writes is atomic.
* **Delivery.** Each back end has its own promise: the channel forgets with its process, the
  Redis consumer group keeps what a dead consumer took but the code never asks for it again,
  and nsqd delivers again after a timeout although the first handler is still at work.
* **Failure.** A panic in a handler is recovered and the task published again; an error of the
  database or of Redis is logged or not even looked at, and the code goes on as if the call had been
  made; go-redis repeats a command whose reply it lost; workers restart at any moment.
* **Ordering.** The verdict is written, then announced, then ranked; a page reads the row and
  then subscribes; a cache entry is dropped after the row is written.
* **Processes.** The program under test is the child of a child; who is killed at the deadline,
  what its exit says and when `Run` returns depend on the execution mode.
* **Files.** Test cases are replaced file by file while judge tasks read them, without a lock.
* **Limits.** A channel with a capacity, retries with a maximum, scores that pack two numbers
  into one; a counter of requests whose increment and expiry are two calls; a fixed number of
  slots that must be given back on every path.

## 2. The modules

```
TaskDelivery            what the queue promises about each task
   ^ implements (QueueDelivers)
JudgeQueue              the queue: three back ends, consumers, retries, crashes
   ^ extends
JudgePipeline           handlers, JudgeTask and its tables, on that queue
   v implements, for each submission (PipelineIsVerdictSource)
VerdictSource           the judging of one submission, as seen from outside
   ^ extends
SubmissionStream        pages that wait for a verdict
JudgeRun                the cases of one submission: judge, sandbox, deadline, verdict
TestData                the files of one problem: administrators against judge tasks
ContestRank             the scoreboard, one Redis call at a time
ProblemCache            problem pages: database, cache, null marker, Bloom filter
CircuitBreaker          the AI breaker and the requests that share it
RateLimit               the counter of requests and its expiry
   ^ extends
AIDiagnose              the diagnosis behind that limit: slots, repairs, reports, page
```

`X_proofs` extends `X` and holds its theorems, for every module from `JudgePipeline` down but two:
`SubmissionStream_proofs` speaks for `VerdictSource` and `AIDiagnose_proofs` for `RateLimit`, which
they extend. `JudgePipeline_proofs` also holds the theorems of `JudgeQueue`, whose actions the
pipeline takes.

Each `MC` module extends one of them and only defines the small constants of the runs.

### JudgeQueue, TaskDelivery

A message is a `JudgeTask` with what the model must know of it: its publication order, the job
it belongs to (a retry is a new message of the same job), its retry count and how often it was
delivered. `outbox` holds the messages whose `Publish` has begun, `queue` what the back end
holds, `unacked` what it has delivered and still remembers (Redis: the pending list; NSQ: in
flight). `phase[w]` is the place of goroutine `w` in its loop.

| Action | Code |
|---|---|
| `Init`, `SelectedBackend` | `Init`, `initNSQ`: `QUEUE_BACKEND=redis` falls through to NSQ when Redis does not answer, NSQ to the channel |
| `Offer`, `Publish`, `PublishError` | `Publish` called by a handler; its effect; its failure, which every caller ignores |
| `PublishTwice`, `RepublishTwice` | an `XADD` that was applied but whose reply is lost: go-redis (`redis.go:69` leaves its retries on) sends it again, and the task is in the stream twice; `twice` remembers which |
| `Take`, `ReplyLost` | the receive of each consumer loop; an `XReadGroup` whose reply is lost after Redis has moved the entry to the pending list |
| `HandlerReturns`, `HandlerPanics` | `processWithRecovery`; a panic leads to `Requeue`, which drops after `MaxRetries` |
| `Republish`, `RepublishError` | the `Publish` inside `Requeue`, which blocks the consumer while the channel is full |
| `Ack`, `AckError` | `XAck`, or the `nil` that the NSQ handler returns |
| `Redeliver`, `GiveUp` | nsqd's message timeout and go-nsq's `MaxAttempts`, code outside the repository |
| `Crash` | a process dies, with its channel and its goroutines |

`TaskDelivery` says the same for the reader who does not want to know which back end it is: a
task is offered, owed, and then done, dropped or lost, for ever; while the queue is durable
nothing accepted is lost. `JudgeQueue!DeliveryPromise` is that specification under a refinement
mapping.

### JudgePipeline

`JudgeQueue` with a handler that is no longer opaque: the module extends the queue and takes its
actions as they are, with the tasks and topics that the handlers publish
(`PipelineAssumption`). `JudgeTask` is cut where something else may come between, at every database or Redis call. `Submit`, `ContestSubmit` and
`ReJudge` are the three publishers. An accepting transaction has two steps, `TxCount` and
`TxCommit`, because the `COUNT` is a snapshot read and only the updated row is locked. What a
program under test does is abstracted to the verdict `Judge` picks.

Each statement may be refused by the database, and what the code then does differs: a failed row
update or transaction is logged and judging goes on (`DbError`); the error of a reset row, of the
`UPDATE` to "No Test Cases", of the `COUNT` and of the increment is looked at by nobody
(`ReJudgeError`, `NoTestCasesError`, the second branch of `TxCount`, and `TxCommitUncounted`, which
commits the row without the increment). The call of the ranking and the return of the handler
are two steps (`Rank`, `Finish`), with a `Panic` or a crash possible between them.

### JudgeRun

What `JudgePipeline!Judge` picks, in detail, for one submission. `pc` is the place of `JudgeTask`
with its current case, `child` how far the process has come that becomes the program, `direct`
the process `Run` started and waits for. In the modes `fallback` and `gvisor` these are the same
process; in `namespace` mode `direct` is `unshare`.

| Action | Code |
|---|---|
| `Prepare`, `PrepareFails`, `Compile`, `CompileFails` | `judge.Run` and the functions per language, up to `sandbox.Run` |
| `CompileOverruns`, `OverrunEnds` | the deadline kills the compiler's driver; `Run` waits for what the driver has started and still holds the pipe of stderr |
| `Launch`, `LaunchFails` | `sandbox.Run`: cgroup, command, start |
| `JoinCgroup`, `EnterJail`, `ApplySeccomp`, `Exec`, `SetupFails` | `SandboxInit` in the child |
| `Fork`, `ProgramEnds`, `OomKill`, `Tick` | the program, which may leave a child behind (`offspring`) or send itself a signal; the kernel; the clock |
| `Timeout`, `KillDirect` | the context's deadline: `exec.CommandContext` kills the direct child |
| `RunReturns` | `cmd.Run` ends (`Returned`), its error becomes `RunResult.Status` (`RunStatus`), that a status (`CaseStatus`), and `JudgeTask` goes on to the next case or ends (`CaseEnds`, `FinalStatus`) |

What a program prints is right or wrong; `Behaviour` lists what else it may do. `ExitStatuses` says
how it then ends: the filter allows `kill`, so a program may send itself `SIGKILL` or `SIGXCPU`, which
`RunStatus` takes for a late one. `story` records
what really became of each case, and the properties compare the verdict with it.

### TestData

One problem. A request (upload, delete all, add, change or delete a case) is a record that moves
through its file operations: `Erase` removes one file a step, `OpenFile` truncates, `WriteFile`
writes, `PutObject` puts an object whole. A load lists the files and reads them one by one, from
`storage.Default` if the process has one, else from the directory, else from the table. A file's
content is the request that wrote it. An accepted archive may call a file `01.in` (`main.go:543-562`),
which is listed as case 1 and read as `1.in`, hence by nobody: it is the "odd" file of its case; or `a.in`,
which makes no case: such an archive is the empty set.
What the code does not look at may fail unseen: `EmptyTable`, `EraseFails`, `RemoveFails`, reading the
directory for the next number (`AddBlind`), looking for the case to change (`UpdateBlind`). In
`LoadFails` the problem's row, a listing or a file cannot be read, which sends the load to the next store, or
the listing of the bucket breaks off and is taken as it is. `expect` is what the store holds if requests are taken one
after the other; `clean` says whether since the last upload or full deletion they were.

### ContestRank

`UpdateContestRanking` for ACM and IOI rules. `Judge` gives a row its result, or is refused by MySQL
and leaves the old one, `Call` starts the function, and then each Redis or MySQL call is one step.
`CallFails` is what the code makes of a call that fails: a write is missing (or an `INCR` made twice,
when go-redis repeats it), a read finds nothing, and only a contest or a newest submission that
cannot be read ends the ranking. `Rejudge` empties a row and `WriteUnranked` fills it again
without a ranking, at any time. Scores are the integers the code
computes (`ACMWeight` and `IOIWeight` are its factors), and `Quotient` truncates as Go's
division does. `log[u]` records finished calls, `unmarked[u]` the solves whose mark Redis refused, and
`disturbed` the users for whom calls overlapped, one crashed, a call failed, a rejudge came in between
where it matters, or one ranked a submission that was not the newest; these are history variables.

### VerdictSource, SubmissionStream

What a page needs to know of judging is in `VerdictSource`: one submission with its row, whether a
task of it waits for a goroutine, is held or is gone (`tasks`), how far each goroutine is with it
(`stage`), and the verdict it will publish (`found`). A verdict is published only after the row was
written or the database refused the write; `Stop` is everything that may go wrong in between: a
panic, a crash, a task that is dropped, lost, delivered or published again.

| Action | Code |
|---|---|
| `Submit`, `ReJudge` | the handlers: the row is reset, then a task is published |
| `Start` | a consumer receives a task of the submission and calls `JudgeTask` |
| `ReJudgeError` | the reset is refused, the task published all the same |
| `WriteVerdict`, `WriteError` | the update of the row, or the transaction; its error is logged and judging goes on |
| `PublishStatus` | `publishSubmissionStatus` |
| `NoTestCases` | the early return, which publishes nothing, whether the row could be written or not |
| `Stop`, `OtherError` | `processWithRecovery`, `Requeue`, a process that dies; a refused write of another submission, or a refused `COUNT` |

`JudgePipeline!Source(s)` is this specification under a refinement mapping, for submission `s`:
`TasksOf(s)` looks where the copies of its tasks are, a goroutine between `judge` and the end of
its write is at stage `judge`, and one that only has to rank is already `idle`.

`SubmissionStream` extends it with pages. A page loads the row, opens the stream if it is
pending, and the stream reads the row (`ReadRow`), sends it (`SendRow`) and only then subscribes
(`Subscribe`). Pub/Sub keeps nothing for those who are not there (`Deliver`), a failed `PUBLISH` is
not noticed (`DeliverError`, which also stands for a message that finds the connection of some
subscribers down), and the in-memory fallback delivers nothing at all. The page is done
with a final status. The server's `WriteTimeout` (`cmd/server/main.go:328`, 120 s) makes a stream
`late`: what is then written to it fails, the page shows nothing more (`broken`), does not connect again, and
nothing polls.

### ProblemCache

`Get` step by step: filter, cached value, null marker, `Do`, query, store. Writers write the row
first and then drop the key. A row is its version number, the
number of writes it has seen. With Redis all processes share one cache, without it each has its
own. Each server has its own filter, with a fixed set of false positives; the rebuild scans and
then swaps. `late` records the entries which a race or a fault left outdated.

### CircuitBreaker

The breaker's three operations, each atomic as its mutex makes it, and `StreamChat` around
them: admitted requests are at the LLM for any time, and several may be between `Allow` and the
record of their outcome when the state changes. Time is a tick counter that stops at the reset
timeout, past which nothing depends on it.

### RateLimit, AIDiagnose

A request passes the limiter (`Incr`, and in Redis `Expire` when it was the first of its window),
then its handler. `count` and `ttl` are the key in Redis; the key names an address and no route, so
routes with different limits share it. `handler[r]` is the place of `AIDiagnoseHandler` with
its local variables, `over` the requests whose context has ended, `slots` the tokens in
`diagnoseSemaphore`, `checker[r]` the goroutine that checks the samples, `reports` the pending rows
of `problem_feedback`, `page[r]` the phase that `useAiDiagnose.ts` shows.

| Action | Code |
|---|---|
| `Incr`, `IncrFails`, `IncrTwice`, `Expire`, `ExpireFails`, `Decide` | `IncrWithTTL` and the middleware around it; a failed `INCR` reads as 0, and one that go-redis repeats as 2, so that no `EXPIRE` follows |
| `Tick`, `LimitRestart` | expiry of keys; a restart, which empties the memory and not Redis |
| `Start`, `TurnAway` | binding, verdict and semaphore at the head of `AIDiagnoseHandler` |
| `LoadProblem`, `ProblemMissing` | the query, the check of the samples that starts, and the dispatch on the verdict |
| `Validate`, `ValidateInSilence`, `TestCasesUnreadable`, `ReportReference` | `tleAnalysis` with `runReferenceSolution` and `loadTestCasesForDebug` |
| `StreamLLM` | `streamLLM`: a final event, an error, or a channel closed by the context |
| `AskForRepair`, `NextAttempt`, `StopRepairing`, `RunRepaired` | `attemptRepairLoop` |
| `Hang` | a program without end: the repaired one, or the reference on the test cases or on the failed input. `go run` under its time limit is no way out, because only `go` is killed and its child holds the pipe |
| `Verify`, `CountReports`, `CreateReport` | `checkFailedTestCaseReference` |
| `CheckSamples`, `ReportSample` | `checkProblemQualityOnDiagnose`, `validateSampleCases` |
| `ContextEnds`, `WriteTimesOut` | the handler's timeout or the user who leaves; the server's `WriteTimeout`, after which the page is `broken` until its connection is closed |
| `Restart`, `DeleteProblemFeedback` | the server, the administrator |

A run of the reference may fail although the reference does not: no directory or file for it, no sandbox,
a busy machine. Such a run in `Validate`, `Verify` or `CheckSamples` takes a `Mishap`, and the report that comes of it
is `misled`, as is one from a run in the wrong language or without test cases. What is true of the problem is the constant record `problem`; the properties compare the reports
with it.

## 3. The runs

| Run | Instance | Question |
|---|---|---|
| `queue` | Redis, NSQ or the channel, whichever answers at start-up; 2 processes with a consumer each, 2 tasks, 1 retry, 1 crash, 2 failed or repeated calls; 1 task over NSQ, with no failed call and 2 attempts, and where a call is repeated | does any task vanish, overlap with its retry or exceed the retry limit, does each settle, and does each follow the abstract life cycle, also when it is redelivered while still being handled? |
| `pipeline` | Redis, 2 submissions of one user with the same code, one in a contest, 2 tasks published, 1 rejudge, 1 retry; 2 disturbances in all: panics, 1 crash, 1 failed or repeated call, 1 refused statement | rows, counters and scoreboard through panics, rejudges and the dedup cache |
| `pipeline_nsq` | NSQ or the channel, 1 contest submission, 2 processes, 1 crash, 1 failed call, 1 refused statement | is it decided, and is every step one of `VerdictSource`? |
| `judge_run` | 2 test cases, both rules, three execution modes, a program that does anything (forks, kills itself, never ends), a compiler that may overrun, a deadline of 2 ticks | is the verdict what became of the program, and does it come? |
| `test_data` | 2 requests, 1 load, case numbers up to 2, disk or bucket; archives with two cases, with a file named `01.in`, and with no number; 1 fault | do the stores hold what requests say, and does a load take exactly that? |
| `contest_rank` | 1 user, 2 problems, 3 submissions, 2 goroutines, both rules; 4 events in all: calls, and at most 1 crash, 1 failed Redis or MySQL call, 1 rejudge | what the board may show after overlapping, interrupted and failed calls |
| `stream` | 2 pages, 2 goroutines; 3 disturbances in all, at most 1 refused statement, 1 lost message or stream that is too old, 2 rejudges or attempts that stop or are judged twice, 1 page that is left; over Redis (the proofs cover the fallback) | does each page learn the verdict or have a task left to tell it? |
| `cache` | 2 processes, 2 readers, 2 writers, 1 problem, 1 fault, with and without Redis | how stale may a page be, for how long, and is an existing problem found again? |
| `diagnose` | 3 requests of one address, 2 routes with limits 1 and 2, window 2, 2 slots, 2 repairs, failed Redis and database calls and runs of the reference, 1 restart; four kinds of problem | how many requests pass, does the counter end, are slots and duplicates bounded, are reports true, does each diagnosis and its page end? |
| `breaker` | 3 requests, 2 failures open, 6 outcomes | when does it open, how long does it refuse, does it always come back? |
| `accepted_race`, `endless_program` | | two findings of section 6; each checks one statement of the repository and is expected to fail |

### The bounds and why they suffice

* Two consumers, because every race found in the code is between two of them; they are in two
  processes where a crash must leave the other alive.
* Two tasks where tasks can affect each other (the channel with capacity 1 is full with one
  waiting task, and its only consumer may then block in its own `Requeue`); one where the run is about repeated deliveries of the same task.
* One retry: it passes both branches of the test in `Requeue`. The code's 3 adds only length;
  the theorem `PoisonBounded` covers every value.
* One crash and one or two failed calls: each fault comes at every possible point. The
  properties are about what a fault leaves behind, and most of them speak of a task's state
  after it, whatever came before.
* `contest_rank` has one user: users share no field, only the sorted set, whose entries
  are independent; the theorems about the board hold for any number. Two problems make the lost update of the shared score possible, and two submissions of
  one problem the double solve. `FourEvents` leaves four calls undisturbed, three with one thing that
  goes wrong, two with two.
* `judge_run` has two cases: one may fail before or after the other passes, which every branch of
  the final status needs. The deadline is one tick after the time limit, so a program may end
  before the limit, between the two, or at the deadline.
* `test_data` has two requests: every overlap in the handlers is between two, and a third could
  only follow them. The loads start again without end. One fault is a failed operation or a
  restart, at any point.
* Five runs have a state constraint. TLC follows no behaviour beyond a state that a constraint excludes, so
  a constraint may hide a counterexample and never make one.
  * `Small` (`queue`): one task is offered over NSQ and no call fails there, where redelivery multiplies the
    states, and one when go-redis repeats a call.
  * `ThreeDisturbances` (`stream`) and `TwoDisturbances` (`pipeline`, safety only) bound the sum of
    what the other bounds allow one by one; `FourEvents` (`contest_rank`, safety only) likewise. Like
    `Small` they only count users' steps, panics and faults, none of which fairness asks for: behaviours with
    fewer of them are followed to their end.
  * `Bounds` (`diagnose`) divides the run in three. Without a reference (`LimiterFirst`) three requests go
    through the limiter with a Redis failure and a restart anywhere, and one of them is served a compile error.
    With a sound or a faulty one (`DiagnosisFirst`) a WA and a TLE have passed the limiter and are diagnosed
    concurrently, with a failure of the database, of a run, or a restart, and an early end of the first context.
    Where the input that failed is at fault (`DuplicatesFirst`) three diagnoses of a WA compete for the two slots
    and overlap between the count and the creation of a report, with one count or run that fails or a restart.
    The counter and the diagnosis share no variable but `gate` and `route`, so the parts lose no interaction. Each part
    also leaves out paths that another one or another of its requests has: a second repair, a program that hangs, an
    early end of the context, samples checked late and a broken page are all open to the first request of `DiagnosisFirst`.
* `diagnose` has two slots, so that two diagnoses overlap and a third meets the full semaphore, and limits 1 and
  2: a window holds requests of both routes. Two repairs pass both ends of the attempt loop. The
  theorems about the limiter, slots, duplicates, reports and the page hold for every value.
* `stream` has two pages, because a message must reach all who subscribed, and two goroutines, because
  two may judge the submission at once. `MaxRepeats` 2 lets an attempt stop after its write and the
  row be reset before the next one; what a further repeat meets is one of the same states of row,
  tasks and pages. `WaitingIsOwed` and `DoneShowsVerdict` are proved for any number.
* `MaxOutcomes` 6 is enough to open the breaker, probe, fail, probe and close again, with late
  outcomes in between.

### Fairness

Weak fairness everywhere, and only of what the runtime or a client library drives: a goroutine
that can go on does (Go's scheduler), a handler ends or panics, `Publish` returns, nsqd requeues a message whose holder is
gone (its message timeout), keys with a TTL expire, the Bloom filter's ticker fires, the clock
advances. A diagnosis goes on: the LLM's call has a timeout of 90 s, Redis of 2 s, and a run of a program ends by
its limit or is the program without end that `Hang` stands for. In `JudgeRun` processes are scheduled,
deadlines fire, also that of a compiler's driver, and a program that is not endless ends; nothing is assumed of
what a driver leaves behind, nor of a child of the program. In
`JudgeQueue` and `JudgePipeline` a handler that ends stands for judging in which no such process holds the
goroutine; `JudgeRun` shows those exceptions. In `SubmissionStream` a goroutine takes a task that waits and finishes it, which is what
`EverySubmissionDecided` checks of the pipeline with its exceptions, and a stream goes on.
No fairness is assumed of users, panics, crashes, failing calls or of nsqd's early
redelivery. A process that crashed is started again by its deployment, and its goroutines are
the same `w`: the model treats them as alive at once. The back end it selects is the same as before.

Deadlock is checked in the cache run, where readers never end, and in the test-data run, where
loads never do. In the other systems everything
may be done: all tasks settled, all bounded events used up.

### What the properties say

Types are an invariant of every module, and a theorem proves each of them (section 4), so that no
run repeats it; `cache` checks its own, which also says that nobody waits for a load that is not
under way.

* `NoSilentLoss`: each task offered is in the queue, handled, dropped by a limit, or lost with a
  failed call or a process; no other way out. `OneHandlerPerJob`: outside NSQ a task and its
  retry are never handled at once. `PoisonTaskBounded`: a panicking handler is called at most
  `MaxRetries + 1` times for a task. Both except a task that go-redis added twice. `EveryTaskSettles`: each task ends, or its entry is stranded
  in the pending list that nobody reads (`queue.go:271-300` only asks for new entries; `Stranded`),
  or it waits behind a full channel whose consumers all block in `Requeue` (`Jammed`): the
  property names both cases, and so documents them; without either TLC finds a counterexample.
  `DeliveryPromise`: the life cycle of `TaskDelivery`.
* `PendingIsOwed`: a row is not left at `pending` by accident. Its newest task is in somebody's hands or will reach
  them (`Ahead`, which an entry stranded in the pending list does not count for), or it met one of five named
  fates: stranded (`Abandoned`), dropped by the retry limit, lost with a failed publish or a volatile queue, or
  ended although the database refused to write the row, also that of a problem without test cases (`unwritten`).
* `AcceptedNeverUndercounts`: `accepted_count` lags behind the users with an Accepted row by no more than the
  increments the database refused (`uncounted`), though the transaction commits without them.
* `VerdictReachesScoreboard`: a contest submission with a verdict has been through the ranking, or its contest task is
  `Ahead`, or met one of the named fates. The fate to know of is `Abandoned`: a worker that dies after the commit and before
  the ranking leaves its entry in the pending list, no rejudge names the contest, and the board never learns the verdict.
* `RankedOncePerAttempt`: outside NSQ a submission is ranked once, and once more at most for each panic of its contest
  task, since a panic in the ranking or after it sends the task round again.
* `EverySubmissionDecided`. `VerdictsComeInOrder`: seen from any one submission the pipeline is a `VerdictSource`.
* `AcceptedIsEarned`: no failure of the jail, the filter, the deadline or the compiler is ever
  taken for a success. `FirstFailureDecides`: outside IOI the verdict is what became of the first
  case that did not pass, where Time Limit Exceeded is also said of a program killed for its memory or by itself. `ScoreIsCount`: `passed_count`, from which IOI scores come, is the number
  of cases solved. `EverySubmissionJudged`: a verdict comes, save for a compiler whose children do not end, the endless program that
  outlives its `unshare`, and, without namespaces, a child without end that a program leaves behind.
* `StoreIsLastWrite`: requests that neither overlap nor fail leave what they say, however earlier
  ones ended, once an upload or a full deletion has come between. `LoadIsLastWrite`: a load that
  no request disturbs mixes no two writes; if none of its own operations fails it takes every case of the last write, from the
  first store whose every case can be read, each with its own output, and falls back to the table only if there is none. An accepted
  archive with `01.in` is such a store: the load reads nothing of it. Where requests overlap nothing is claimed: nothing in the code protects
  them (section 6).
* `BoardMatchesVerdicts`: for a user with no overlapping, interrupted or failed call, the board is what
  the finished calls say it should be, computed from the log by a definition of the rules and not
  by the code's arithmetic. In an ACM contest a refused or rejudged row does not matter, in an IOI contest one is a
  disturbance, because the ranking reads the row. Under ACM rules it asks for a total penalty below the weight of one
  solve (`ACMWeight`, 1,000,000 s): more does not fit into the composite score, and takes a solve away. `SolvesAreBacked`: even with races, crashes and failed calls the board never shows
  more solved problems than are marked as solved, up to the marks that Redis refused (`unmarked`).
* `WaitingIsOwed`: a waiting page has a goroutine or a task that may publish yet or a message in its
  mailbox, unless one of two things happened since the submission was last queued: a message was published while the page
  connected or failed to reach it (`unheard`), or a judging ended without a message or without its row (`silent`). Both histories
  record the event when it happens, not the page it harms: a page that reads the row after the verdict is owed nothing by either.
  `DoneShowsVerdict`: what a page that is done shows was found by `JudgeTask`, even
  if a rejudge has reset the row; it may be the verdict from before that rejudge. `PageLearnsVerdict`: so no page stays on its
  stream for ever, but for these two and for a stream older than the `WriteTimeout` (`late`).
* `OneLoader`, `StaleHasCause` (an outdated entry is always about to be dropped, or was left by a named race
  or fault), `GoneStaysGone`, `CacheConverges`, `ExistingIsFound`, `EveryGetAnswers`.
* `AdmittedPerWindow`: within any stretch of one window fewer than twice the limit of requests
  pass, whatever is asked on other routes. `WindowEnds`: a refused address is let in again, save
  when the key lost its expiry.
* `SlotsAreHeld`: the semaphore counts the diagnoses under way. `DuplicatesBounded`: overlapping
  diagnoses file at most as many equal reports as there are slots, and one more for each count that failed. `ReportsAreTrue`: a report says
  something true of the problem unless it is `misled`, a sample differs by blanks only, or the reference was run in a
  language `detectRefLang` took it for by mistake. `PageLearnsEnd`: when the handler has returned the page shows an end, also one the
  `WriteTimeout` had cut off; only a CE or TLE answer that its context ended leaves it at "running" (`cut`). `EveryDiagnosisEnds`, unless a program hangs or the server dies.
* `TripsOnFailuresInARow`: the breaker opens only after `maxFails` failures in a row, in the order
  they were recorded. `ProbeWaits`: an open breaker admits nobody before the reset timeout has
  passed since the last failure. `OpenIsTemporary`.

## 4. The proofs

Eight modules are checked by TLAPS to the last leaf. They assume the named assumptions of the
modules' constants and nothing else: no bound on tasks, workers, processes, crashes, faults,
submissions, users, pages, readers, writers, requests, slots, test cases, limits or capacities.
Every invariant and every action property that a passing run checks is stated by a theorem.

| Module | Theorem | Says |
|---|---|---|
| `JudgePipeline_proofs` | `TypeCorrect` | the queue is type correct |
| | `NothingVanishes`, `OneHandler`, `PoisonBounded` | `NoSilentLoss`, `OneHandlerPerJob`, `PoisonTaskBounded` |
| | `QueueDelivers` | `DeliveryPromise`: `JudgeQueue` implements `TaskDelivery` |
| | `PipelineTypeCorrect` | `PipelineTypes` |
| | `PendingRowsAreOwed`, `ScoreboardHears`, `OneRanking`, `AcceptedCountSuffices` | `PendingIsOwed`, `VerdictReachesScoreboard`, `RankedOncePerAttempt`, `AcceptedNeverUndercounts` |
| | `VerdictsInOrder`, `PipelineIsVerdictSource` | `VerdictsComeInOrder`; for each submission the pipeline implements `VerdictSource` |
| `JudgeRun_proofs` | `RunTypes` | the run is type correct |
| | `AcceptedRightly`, `FirstFailureVerdict`, `ScoreCountsSolved` | `AcceptedIsEarned`, `FirstFailureDecides`, `ScoreIsCount` |
| `SubmissionStream_proofs` | `StreamTypes` | the live status is type correct |
| | `NoPageForgotten`, `FinalStatusIsTrue` | `WaitingIsOwed`, `DoneShowsVerdict` |
| `ProblemCache_proofs` | `CacheTypes` | the cache is type correct |
| | `LoadsAreMerged`, `StalenessExplained`, `DeletedStaysGone` | `OneLoader`, `StaleHasCause`, `GoneStaysGone` |
| `CircuitBreaker_proofs` | `BreakerTypes` | the breaker is type correct |
| | `TripsRightly`, `ProbeWaitsLong` | `TripsOnFailuresInARow`, `ProbeWaits` |
| `AIDiagnose_proofs` | `DiagnoseTypes` | limiter and diagnosis are type correct |
| | `SlotsCounted`, `DuplicatesLimited`, `ReportsTrue`, `PageEnds`, `WindowsLimited` | `SlotsAreHeld`, `DuplicatesBounded`, `ReportsAreTrue`, `PageLearnsEnd`, `AdmittedPerWindow` |
| `ContestRank_proofs` | `RankTypes` | the scoreboard is type correct |
| | `DecodesWhatWasEncoded` | decoding a composite score returns the solves and the penalty, for penalties below one solve's weight |
| | `SolvesBacked`, `BoardShowsVerdicts` | `SolvesAreBacked`, `BoardMatchesVerdicts` |
| `TestData_proofs` | `DataTypes` | the test data are type correct |
| | `StoreHoldsLastWrite`, `LoadGetsLastWrite` | `StoreIsLastWrite`, `LoadIsLastWrite` |

**The queue.** None of the invariants is inductive by itself. The argument is about *places*: a
message is in the outbox, in the queue, unacknowledged, or held, and message ids are fresh
(`FreshIds`); a message is in one place only, save that what is held may also be unacknowledged
(`OnePlace`). Together they are `PlaceInv`. From it `LossInv` adds that each job offered has a
copy or a recorded end, `ActiveInv` that outside NSQ a job has one copy that can still be handled, and
`PanicInv` relates the panics of a job to the retry count its copy carries. Each is shown to
hold initially and to be preserved by every action, one step per action.

**The refinement.** A task's abstract status is a function of its copies, so a step can only move
it as `TaskDelivery` allows if no copy appears from nowhere. `PromiseInv` says what that rests on:
nothing is known of a task not yet offered (`OfferedInv`); while its first `Publish` is under way
that message is its only copy (`OutboxInv`); a durable queue has no copy of a lost task
(`LostInv`). Every action but `Offer` and `Publish` is then *quiet*: no task gains a copy, and only tasks
with a copy end. One lemma maps a quiet step to a step of `TaskDelivery` or a stutter, and
the two loud ones are mapped by themselves.

**The pipeline.** `PipelineInv` joins the queue's types with those of the tables, with a verdict in
every goroutine that is past judging (`WorkInv`), and with what ties messages to rows: a message is for a row that
exists, `last` and `contestJob` name jobs of their own submission (`JobInv`). That every step of it is a step of the
queue (`PipelineUsesQueue`, which holds because its actions are built that way) lets it inherit what is proved of the queue. On top, one
layer per property: the newest job of a pending row has not been handled, or its write was refused
(`PendingInv`); a handled contest job was ranked or had no test case (`ContestInv`); while a contest job has a copy that
may still call the ranking (`Rankable`), its submission was ranked at most as often as the job panicked, which without redelivery
and without a repeated `XADD` follows step by step from the queue's `ActiveInv` (`RankedInv`; that the queue forgets no panic is
`QueueRemembers`); and a transaction that does not increment has seen a row of a user already counted, while a commit
(`Commits`) adds one to `accepted` or to `uncounted` if it does not (`AcceptedInv`), which with a fact on cardinalities bounds the
count from below. The queue's `NothingVanishes` then turns "not handled" into "still ahead, abandoned, dropped or lost": what is
left of a copy that nobody will handle is, over Redis, an entry of the pending list.

**A run.** A verdict is formed from how the direct child ended, at a time when nothing is left of
the program. `ExitInv` therefore says, while `Run` waits, what each way of ending implies about the
fate of the current case: an exit code of 0 that the program ended by itself, a `SIGKILL` that the
deadline has passed, the memory was exceeded or the program sent it, a `SIGXCPU` that the program did. `TallyInv` says that `passed` counts cases
already behind the loop, and that under ACM rules all of them passed. `RunInv` joins both with the types
and the two properties. `CaseEndsLemma` is the loop's body, used for every way in which a case ends:
if the status explains the current case, the verdict, should there be one, is right;
`RunningLemma` covers the steps that leave the loop alone, `FinalStatusLemma` the last `switch`.
For the score `CountInv` bounds `passed` by the cases behind the loop: a status that explains its
case (`ReturnExplained`) is counted only if the case was solved, and is not only if it was not
solved in time, so both sets grow as the count needs.

**From the pipeline to the pages.** For a submission `s`, `Does(w, s)` and `Knows(w, s)` are what the
refinement mapping takes for the stage and the verdict of goroutine `w`. `TaskFacts` ties them to the
messages: who works on `s` holds a copy of a task of it, so `tasks` is "none" only when all are idle.
Beside `PipelineInv` one fact is needed: a transaction is begun only for an accepted verdict
(`TxAccepted`), so that the row says what will be announced. For each step of `VerdictSource` a lemma
(`SourceWrites`, `SourcePublishes`, ...) says what it requires of these; each action of the pipeline is
then one of them if it concerns `s` and a `Stop` of nobody if not, by `CopyStep`: a submission whose
tasks are gone gets a new one from its own `Submit` or `ReJudge` alone.

**Live status.** The judging side is known as `VerdictSource` only, so what is proved holds over
anything that implements it, the pipeline among them. `SourceInv` follows a status from the goroutine
that found it through the row, the stream and the mailboxes. `RowIsOwed` says that a pending row has a task that waits
or a goroutine that will write it, or is `silent`; `ReaderIsOwed` that a page which has read a pending row, and does not listen yet,
is owed a message unless one went out meanwhile (`unheard`). This is what the order of writing before publishing is
for: without it a page could read the old row after the message. `StreamInv` joins them with the types and
the two properties.

**The cache.** `CallInv` is the discipline of `Do`: the leader of a load has its entry in
`sfCalls`, and there is one leader per key and process. `RowInv`: a deleted problem has no row. With the
types they are `CacheInv`, from which `OneLoader` follows; `StaleHasCause` is then inductive by
itself, and `GoneStaysGone` is a property of each step.

**The breaker.** `BreakerInv` adds to the types that `consecutiveFails` counts failures at the
end of `outcomes` (`RunInv`) and that the open period is no older than the last failure
(`AgeInv`). A by-product is that the branch `breaker.go:141`, which would set the state to
`OPEN` from another place, is never taken.

**The diagnosis.** Every step of a handler begins, proceeds or ends it; for the slots nothing else
matters, so each action is shown to be one of the three, and `SlotInv` (the property, the types it
needs, and that only WA and RE come to the repairs) is preserved by the three. `DuplicatesInv` counts
handlers about to create a report as if they had: each holds a slot. `SeenInv` says that whoever is
about to report has seen what the report says, or is marked `misled`. `PageLearnsEnd` is inductive with the types.

**The limiter.** The counter may only be spoken of together with the key it lives in. A request
whose `INCR` made the key and whose `EXPIRE` is to come counts as passed, since nothing stops it any
more. While the key has an expiry, the requests younger than it (`Fresh`) are fewer than both the
limit and the counter, and they are all that is left of the window when the key goes; the next key then admits at most
a limit of its own. `KeyInv` says that one request at most is about to set the expiry, `RoomInv` counts; their
conjunction `WindowInv` is inductive and implies `AdmittedPerWindow`.

**Sums.** The board is compared with sums over problems, and a sum is a fold, a function of sets that
is defined by itself. The library's induction theorems cannot be used, but that a set of numbers
which is not empty has a least one (`LeastNumber`) can, and with it: the function exists
(`SumsExist`), it depends on the values summed and nothing else (`SumAgrees`), and any element may
be taken first (`SumTakes`), whatever `CHOOSE` takes. `SumMoves`, `SumGrows`, `SumCovers` and
`SumIsZero` follow, and the same argument gives a finite set of numbers its largest
(`MaxIsLargest`).

**The scoreboard.** For `SolvesAreBacked` a goroutine that has marked a problem and not yet written
the entry is owed a solve. `Marks` are the marks made and those refused (`unmarked`), `Room` is what is left of them after
those owed; `BackedInv` says that no entry, and
nothing a goroutine has read from one, shows more than there is room for. It needs no assumption
about overlaps or failed calls: an update lost to a race, or a read that finds nothing, only leaves room.

For `BoardMatchesVerdicts`, `BoardInv` speaks of users nothing disturbed. One goroutine at most is
in a call for such a user, and it ranks the newest submission (`Lone`), so Redis holds what the
rules give for the log (`ACMBoard`, `IOIBoard`), but for what that call has written already
(`Touched`); `ACMCall` and `IOICall` say what its local variables hold meanwhile. A step of a
goroutine concerns its own user (`OthersOnBoard`), so each action needs an argument about that user
alone (a call that fails disturbs its user, about whom nothing more is claimed: `FailsOnBoard`): `MovesOnBoard` if it writes nothing, `EndsOnBoard` if its call returns. The rest is what one more
call does to the rules' side, by arithmetic on logs: `TotalKept`, `TotalGrows`, `BestGrows`, `BestTimeGrows`. The
assumption on the penalty is needed in one place, where `ReadRank` decodes what `AddRank` encoded.

**Test data.** A request that is *alone* on its store has a definite effect at each of its steps:
`Halfway` says what the files it is done with hold, and `Progress` that this is so from the
moment the old files are erased; a change of one case also needs a store that was *clean* before it. `Alone`
says that a request which is not alone has made its store unclean, `Routes` by which steps each operation goes,
and `AtRest` that a clean store which no request is changing holds what is expected. They are `RequestInv`,
from which `StoreIsLastWrite` follows. A load that no request disturbs reads files that stand still, and
no request ends meanwhile, because each one under way has a file left to change (`HasWorkLeft`): `LoadInv`
says that the clean stores are then as expected (`Undisturbed`), where the load is (`Position`: on its way to the next store only
if the one before has a case it cannot read, or a call failed) and what it
has read so far (`HasRead`: cases of one store, all of those it is done with unless a call failed).

Only model-checked: the liveness properties (`EveryTaskSettles`, `EverySubmissionDecided`,
`EverySubmissionJudged`, `PageLearnsVerdict`, `CacheConverges`, `ExistingIsFound`, `EveryGetAnswers`, `OpenIsTemporary`,
`WindowEnds`, `EveryDiagnosisEnds`), since the prover has neither fairness nor `ENABLED`. No module declares a
`RECURSIVE` operator.

## 5. What is abstracted, and what is left out

* One value of `backend` for all processes: they read the same environment and reach the same
  services. A restarted process keeps it.
* A failed read of Redis in the problem cache is not a fault of its own: the wrappers in `redis.go` turn it into a
  miss, after which a reader goes on as after an expiry, save that the entry is still there. (In the ranking and the
  limiter every failed call is modelled.) A server's restart in `ProblemCache` is left out; it would clear its filter and
  its local cache. A panic in the function that `Do` runs is left out too: none of its callers' functions has a cause for one.
* That the `INSERT` of a submission fails, whose error `Submit` ignores as well (`submission.go:126`): the task is then
  published for a row that does not exist, and no update of it has an effect.
* History variables, which no guard reads: `handled`, `dropped`, `lost`, `panics`, `twice` (queue); `solved`, `uncounted`,
  `scored`, `last`, `contestJob`, `unwritten`, `untested` (pipeline); `log`, `unmarked`, `disturbed` (ranking); `told`, `silent`,
  `unheard` (stream); `late` (cache); `outcomes` (breaker); `story` (run); `expect`, `clean` and the fields `alone`, `disturbed`,
  `failed` (test data); `age`, `unchecked`, `stuck`, `cut`, `uncounted` and the fields `misled` (limiter and diagnosis). Two of them also
  bound a behaviour: the length of `outcomes`, and `twice`. The stream's `late` is state: what is written to a stream depends on it.
* A change of `rule_type` during a contest, and the 48 hours after which the IOI keys expire.
* In `StreamChat`, the 64-chunk channel between client and reader: both sides of it are one step.
* The half-open state admits every request (`breaker.go:80-107`) although two comments speak of
  one probe. The model does what the code does; no property claims otherwise.
* A success that arrives after the breaker has opened closes it. Also modelled, not claimed.
* In `AIDiagnose`, all requests are about one problem, and a server has one process. What the
  LLM writes is code, prose or an error; what a program does on an input is a field of `problem` or chosen.
  The deferred `cancel` of the context and the return of the slot are one step: nothing comes between
  that could tell. `flusher` is always there.
* The breaker is not composed with the diagnosis: what an open breaker answers is a chunk of prose
  (`client.go:92-102`), one of the answers `AskForRepair` chooses from.
* The components listed as not modelled in `PROJECT.json`, each with its reason.
* In `SubmissionStream`, the buffer of 8 messages between a subscription and its handler
  (`redis.go:381`): the first verdict ends the stream, so no second one matters.
* In `JudgeRun`, what the jail holds and which calls the filter allows. `cpu.max` is set to
  `TimeLimitMs * 1000` of every 100 ms, more than one processor gives, so it stops nothing, and
  the time limit itself is compared with nothing: only the deadline, 5 s later, counts. No status
  "mle" is produced, so a program killed for its memory is reported as late. A signal that another process sends is left out.
* Disk usage. In gVisor mode `SandboxInit` makes its jail in a process that becomes the program
  (`sandbox.go:445`), and nothing removes it: each run leaves a copy of the libraries under `/tmp`.
* In `TestData`, the version number of a problem and its Redis key: `loadTestCasesFromDisk` reads
  the same files whether the version matches or not. `worker/cache.go` is called by nothing. Requests that overlap on one
  store are modelled, but the properties claim nothing of it before the next upload or full deletion (`clean`).

## 6. Where the code and its documentation disagree

Two disagreements have a run that shows them.

1. **`accepted_race`.** The transaction in `JudgeTask` "ensures that repeated accepted
   submissions do not inflate the counter". Two concurrent transactions both count zero others.
2. **`endless_program`.** The deadline in `sandbox.Run` "avoids endless loops by killing the
   process". In namespace mode the process it kills is `unshare`, started with `--fork` and without
   `--kill-child`; the program goes on and holds the pipes of stdout and stderr, and `cmd.Run`
   (there is no `WaitDelay`) waits for them. The consumer goroutine never returns.

Others were met while modelling; the models do what the code does, and the properties name them
as exceptions where they touch them.

* `queue.go:401`: `Requeue` sends on the channel from a goroutine that should receive from it.
  With the channel full and every consumer there, nothing is received again (`Jammed`), although
  `processWithRecovery` "catches the panic and retries".
* `submission.go:443-452`: `StreamEvents` reads the row before it subscribes and never again; a
  verdict in between is not sent, and since no one polls the page waits until it is left (`unheard`).
* `main.go:328` gives the event streams a `WriteTimeout` of 120 s, with the comment that they need a long one. A verdict that
  takes longer does not reach the page (`late`), which does not connect again, and a diagnosis, whose own limit is 180 s, ends in an error.
* `worker.go:281-287`: a worker that dies between the verdict and the ranking leaves the contest board without it: with Redis
  nobody reads the entry again, and a rejudge names no contest (`Abandoned`).
* `worker.go:110-113`, `:263-269`, `contest_rank.go:93-124`: errors that nobody looks at. A refused `UPDATE` leaves a row at
  `pending` for ever (`unwritten`), a refused increment an Accepted row uncounted (`uncounted`), a refused `HINCRBY` a solve on
  the board that is not marked and will be counted again (`unmarked`).
* `contest_rank.go:273`: `totalPassed = score / 10,000,000`, but the time was subtracted from the
  score, so the quotient is one too small as soon as any time was used.
* `redis.go:551`: unacknowledged entries are said to be delivered again; no code asks for them
  (`Stranded`).
* `worker.go:225-236`: an IOI submission that passes nothing is a Runtime Error whatever the
  cause, because only the text of the first message is searched and a late run leaves none.
* `worker.go:408` says that a case without output is skipped; the code gives up the whole load.
* `main.go:482` says that an upload makes judge-worker load again; `cmd/judge-worker` never calls
  `storage.Init`, so with a bucket it reads its own directory (`TestData!StartLoad`), and requests
  about one case always change the directory of the server.
* `main.go:543-562` accepts an archive with `01.in`, which `worker.go:365-390` lists as case 1 and reads as `1.in`: the upload
  answers success and every submission then gets the old table's cases or "No Test Cases".
* `main.go:711` ignores the error of reading the directory: the addition takes number 1, overwrites case 1 and answers 201 (`AddBlind`).
* `storage.go:250` ignores the error that ends a listing of the bucket: judging takes the cases it has for all of them (`LoadFails`).
* `sandbox.go:246-249`: `SIGKILL` and `SIGXCPU` are Time Limit Exceeded whoever sends them; the filter lets a program send them to itself.
* `main.go:709-728`: two additions at once take the same number; an addition that a load meets
  half done sends it to the old table (`StatOutputs`).
* `auth.go:191`: the limiter's key names the address and no route, although `auth.go:186-188`
  gives login and queries limits of their own: twenty page views use up the login, five the diagnosis.
* A fixed window: `2 * limit - 1` requests may pass within one minute (`AdmittedPerWindow` is tight).
* `ai_socratic_debugger.go:430-445`: a repaired program that ends normally is announced as having
  passed the test case; its output is compared with nothing. Likewise `checkFailedTestCaseReference`
  runs the reference on the failed input and calls the data sound when it ends normally, whatever it prints.
* `ai_socratic_debugger.go:192`: the reference solution is run in the language of the student's
  program, and a reference that cannot be compiled, or test cases that cannot be read, become a report
  of confidence `high`. `detectRefLang` takes a language it does not know for Go.
* `ai_socratic_debugger.go:87`: only WA and RE take a slot because only they use the sandbox; the
  validation in `tleAnalysis` and the check of the samples, on every verdict, use it without one.
* `validateSampleCases` compares byte for byte, where judging ignores blanks at line ends.
* `streamLLM` writes no `done` when the context ends the call; the page stays at "running" (`cut`).
* The front end never sends `failed_input`, so `checkFailedTestCaseReference` runs for other clients only.
* `sandbox.go:319-325`: the fallback mode is said to enter a jail; its command does not set
  `JUDGEX_USE_JAIL`.

## 7. Plan

Done: the modules and proofs above. What a next step would take up, most useful first:

1. The verdict that `JudgePipeline!Judge` chooses tied to the one that `JudgeRun` reaches, as
   `VerdictSource` ties the pipeline to the pages.
2. **ContestClock**: contest submission against the window, and `rule_type` changed during the
   contest, over `ContestRank`. Left out so far: `ContestHandler.Update` writes one row, and what a
   change leaves on the board is a question of what was meant, which neither code nor docs say.

### Not modelled

Accounts, profile, leaderboard, announcements, importer and stress tool read or write one row at a time;
health, diagnostics, metrics, tracing and eBPF only observe; `cmd/server` apart from its test-data
handlers is wiring; `cmd/worker` is an older worker that no build or deployment file starts, and that judges from the old table,
writes the row and does nothing else of what `JudgeTask` does; `worker/cache.go` is called by nothing;
deployment manifests fix the number of processes. There is no behaviour in them that several
actors or several steps could bring out of order.

## 8. Running it

```
tlc -workers 2 -config MCJudgeQueue.cfg MCJudgeQueue.tla
tlapm JudgePipeline_proofs.tla
```

Every configuration is named after its MC module, or after the finding it shows. The longest
runs take one to two minutes with two workers: `stream` and `diagnose`, nearly all of it for
their liveness properties, `pipeline` and `test_data`, for their millions of states, and `cache` and `contest_rank`.
