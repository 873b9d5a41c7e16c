------------------------------ MODULE JudgeRun ------------------------------
(***************************************************************************)
(* One submission in the hands of worker.JudgeTask: for each test case     *)
(* judge.Run prepares a directory, compiles, and sandbox.Run starts the    *)
(* program under a deadline; how the process ended becomes a status, the   *)
(* statuses of the cases become a verdict.                                 *)
(*                                                                         *)
(* sandbox.Run starts its own binary again; that process joins the cgroup, *)
(* enters the jail, installs the system call filter and becomes the        *)
(* program.  With namespaces it is a child of `unshare', so the process    *)
(* that Run watches and kills is not the one that runs the program.  Time  *)
(* passes in ticks.  What a program prints is abstracted to right or wrong.*)
(* cmd.Run waits for the process it started and then for everyone who still*)
(* holds its output pipes: a child of a compiler, or of the program, that  *)
(* outlives its parent keeps Run waiting.                                  *)
(***************************************************************************)
EXTENDS Naturals, FiniteSets

CONSTANTS
  CaseCount,    \* test cases of the problem
  TimeLimit,    \* Config.TimeLimitMs, in ticks
  Grace,        \* the 5 s that Run adds to it, in ticks
  SandboxModes, \* values of SANDBOX_MODE, "auto" resolved
  Rules,        \* rule types of the contest, or "ACM" outside of contests
  Behaviour     \* what programs under test do

ASSUME JudgeRunAssumption ==
  /\ CaseCount \in Nat \ {0} /\ TimeLimit \in Nat /\ Grace \in Nat
  /\ SandboxModes \subseteq {"native", "gvisor"}
  /\ Rules \subseteq {"ACM", "IOI"}
  /\ Behaviour \subseteq
       {"right", "wrong", "nonzero", "signal", "forbidden", "selfkill", "hungry", "forks",
        "endless"}

VARIABLES
  mode, rule, compiled,  \* fixed: how Run executes, the rule, whether to compile
  pc,        \* where JudgeTask is with the current case
  current,   \* the current case
  child,     \* how far the process that becomes the program has come
  offspring, \* the program has forked a process that does not end
  direct,    \* the process that Run waits for: alive, or how it ended
  caged,     \* the child is in a cgroup with a memory limit
  program,   \* what the program does on the current case
  elapsed,   \* ticks since Run began
  timer,     \* the context's deadline has passed
  passed, firstErr,  \* passedCount, firstErrMsg
  verdict,   \* submissions.status
  story      \* history: what became of the program on each case

judgeVars == <<mode, rule, compiled, pc, current, child, direct, caged, program,
               offspring, elapsed, timer, passed, firstErr, verdict, story>>

settings == <<mode, rule, compiled>>
process  == <<child, direct, caged, program, offspring, elapsed, timer>>
tally    == <<current, passed, firstErr, verdict>>

Case == 1 .. CaseCount

\* TimeLimitMs + 5000.
Deadline == TimeLimit + Grace

\* An error message, as far as the code looks at it: the final status searches
\* it for "Time Limit" and "Memory Limit".
Message == {"none", "plain", "Time Limit", "Memory Limit"}

\* The strategy Run selects.
ExecMode(sandboxMode, unshareAvailable) ==
  CASE sandboxMode = "gvisor" -> "gvisor"
    [] sandboxMode = "native" /\ unshareAvailable -> "namespace"
    [] OTHER -> "fallback"

\* buildFallbackCmd does not set JUDGEX_USE_JAIL.
UsesJail == mode # "fallback"

Init ==
  /\ \E m \in SandboxModes, u \in BOOLEAN : mode = ExecMode(m, u)
  /\ rule \in Rules
  /\ compiled \in BOOLEAN
  /\ pc = "prepare" /\ current = 1
  /\ child = "none" /\ direct = "none" /\ caged = FALSE /\ program = "none"
  /\ offspring = FALSE /\ elapsed = 0 /\ timer = FALSE
  /\ passed = 0 /\ firstErr = "none" /\ verdict = "pending"
  /\ story = [c \in Case |-> [how |-> "none", late |-> FALSE]]

-----------------------------------------------------------------------------
(***************************************************************************)
(* The verdict.                                                            *)
(***************************************************************************)

\* The status after the last case, given passedCount and firstErrMsg.
FinalStatus(n, msg) ==
  CASE n = 0 /\ msg \in {"none", "plain"} -> "Runtime Error"
    [] n = 0 /\ msg = "Time Limit"   -> "Time Limit Exceeded"
    [] n = 0 /\ msg = "Memory Limit" -> "Memory Limit Exceeded"
    [] n > 0 /\ n < CaseCount /\ rule = "IOI" -> "Partial Score"
    [] OTHER -> "Accepted"

\* The loop of JudgeTask goes on, or ends with n cases passed.
NextCase(n, msg) ==
  IF current < CaseCount
  THEN pc' = "prepare" /\ current' = current + 1 /\ UNCHANGED verdict
  ELSE pc' = "done" /\ verdict' = FinalStatus(n, msg) /\ UNCHANGED current

\* Mutant of Counted: passedCount is increased before the status is looked at.
CountedAlways(status) == passed + 1

\* passedCount after a case with this status.
Counted(status) == IF status = "Accepted" THEN passed + 1 ELSE passed

\* JudgeTask has the status of the current case: ACM rules stop at a failure, IOI
\* rules go on.
CaseEnds(status, msg) ==
  /\ passed' = Counted(status)
  /\ firstErr' = IF status # "Accepted" /\ firstErr = "none" THEN msg ELSE firstErr
  /\ IF status # "Accepted" /\ rule # "IOI"
     THEN pc' = "done" /\ verdict' = status /\ UNCHANGED current
     ELSE NextCase(passed', firstErr')

\* The fate of the current case.
Fate(how) == story' = [story EXCEPT ![current].how = how]

-----------------------------------------------------------------------------
(***************************************************************************)
(* judge.Run up to the sandbox.                                            *)
(***************************************************************************)

\* The work directory exists and holds the source.
Prepare ==
  /\ pc = "prepare"
  /\ pc' = IF compiled THEN "compile" ELSE "launch"
  /\ UNCHANGED <<settings, process, tally, story>>

PrepareFails ==
  /\ pc = "prepare"
  /\ Fate("setup")
  /\ CaseEnds("Runtime Error", "plain")
  /\ UNCHANGED <<settings, process>>

Compile ==
  /\ pc = "compile"
  /\ pc' = "launch"
  /\ UNCHANGED <<settings, process, tally, story>>

CompileError ==
  /\ Fate("compile")
  /\ \E msg \in Message : CaseEnds("Compile Error", msg)
  /\ UNCHANGED <<settings, process>>

\* The compiler rejects the source or runs into its own deadline.
CompileFails == pc = "compile" /\ CompileError

\* The deadline kills the compiler's driver, but a process it started goes on and holds
\* the pipe for stderr ...
CompileOverruns ==
  /\ pc = "compile"
  /\ pc' = "overrun"
  /\ UNCHANGED <<settings, process, tally, story>>

\* ... until it ends.
OverrunEnds == pc = "overrun" /\ CompileError

-----------------------------------------------------------------------------
(***************************************************************************)
(* sandbox.Run and SandboxInit, the process it starts.                     *)
(***************************************************************************)

\* The command starts, in a cgroup if one could be made.
Launch ==
  /\ pc = "launch"
  /\ pc' = "running"
  /\ child' = "started" /\ direct' = "alive" /\ program' = "none" /\ offspring' = FALSE
  /\ caged' \in {FALSE, mode # "gvisor"}
  /\ elapsed' = 0 /\ timer' = FALSE
  /\ UNCHANGED <<settings, tally, story>>

LaunchFails ==
  /\ pc = "launch"
  /\ Fate("setup")
  /\ CaseEnds("Runtime Error", "none")
  /\ UNCHANGED <<settings, process>>

\* The process writes itself to cgroup.procs and ignores an error.
JoinCgroup ==
  /\ child = "started"
  /\ child' = "joined"
  /\ caged' \in {FALSE, caged}
  /\ UNCHANGED <<settings, tally, story, pc, direct, program, offspring, elapsed, timer>>

\* Without JUDGEX_USE_JAIL the step does nothing.
EnterJail ==
  /\ child = "joined"
  /\ child' = "jailed"
  /\ UNCHANGED <<settings, tally, story, pc, direct, caged, program, offspring, elapsed, timer>>

ApplySeccomp ==
  /\ child = "jailed"
  /\ child' = "filtered"
  /\ UNCHANGED <<settings, tally, story, pc, direct, caged, program, offspring, elapsed, timer>>

\* The child is gone; unshare, if there is one, ends the way the child did.
ChildEnds(how) ==
  /\ child' = "gone"
  /\ direct' = IF direct = "alive" THEN how ELSE direct

\* The jail, the filter or the exec fails: exit 126 or 127.
SetupFails ==
  /\ child \in {"jailed", "filtered"} \/ (child = "joined" /\ UsesJail)
  /\ Fate("setup")
  /\ ChildEnds("nonzero")
  /\ UNCHANGED <<settings, tally, pc, caged, program, offspring, elapsed, timer>>

Exec ==
  /\ child = "filtered"
  /\ child' = "program"
  /\ program' \in Behaviour
  /\ UNCHANGED <<settings, tally, story, pc, direct, caged, offspring, elapsed, timer>>

\* The filter allows clone: the program forks a process that keeps the output pipes.
Fork ==
  /\ child = "program" /\ program = "forks" /\ ~offspring
  /\ offspring' = TRUE
  /\ UNCHANGED <<settings, tally, story, pc, child, direct, caged, program, elapsed, timer>>

\* How a program that ends by itself ends: memory is only limited in a cgroup, and the
\* first process of a PID namespace ignores the signals it sends itself.
Ending ==
  IF program \in {"hungry", "forks"} \/ (program = "selfkill" /\ mode = "namespace")
  THEN "right" ELSE program

\* The filter allows kill, with SIGKILL and with SIGXCPU.
ExitStatuses(how) ==
  CASE how \in {"right", "wrong"} -> {"exit0"}
    [] how = "selfkill" -> {"SIGKILL", "SIGXCPU"}
    [] OTHER -> {how}

\* A PID namespace ends with its first process.
ProgramEnds ==
  /\ child = "program" /\ program # "endless"
  /\ ~(program = "hungry" /\ caged) /\ (program = "forks" => offspring)
  /\ Fate(Ending)
  /\ \E exit \in ExitStatuses(Ending) : ChildEnds(exit)
  /\ offspring' = (offspring /\ mode # "namespace")
  /\ UNCHANGED <<settings, tally, pc, caged, program, elapsed, timer>>

\* The kernel kills a program that exceeds memory.max.
OomKill ==
  /\ child = "program" /\ program = "hungry" /\ caged
  /\ Fate("oom")
  /\ ChildEnds("SIGKILL")
  /\ UNCHANGED <<settings, tally, pc, caged, program, offspring, elapsed, timer>>

Tick ==
  /\ pc = "running" /\ elapsed < Deadline
  /\ elapsed' = elapsed + 1
  /\ UNCHANGED <<settings, tally, story, pc, child, direct, caged, program, offspring, timer>>

\* cmd.Cancel kills the direct child.  With namespaces that is unshare, and the
\* program, unless it was not forked yet, goes on without it.
KillDirect ==
  /\ direct' = IF direct = "alive" THEN "SIGKILL" ELSE direct
  /\ child' \in IF mode = "namespace" /\ child # "started" THEN {child}
                ELSE IF mode = "namespace" THEN {child, "gone"} ELSE {"gone"}
  /\ story' = [story EXCEPT ![current].late = elapsed >= Deadline,
                            ![current].how = IF child # "gone" /\ child' = "gone"
                                             THEN "killed" ELSE @]

\* Mutant of Timeout: the deadline passes and nobody is killed.
TimeoutWithoutKill ==
  /\ pc = "running" /\ elapsed >= Deadline /\ ~timer
  /\ timer' = TRUE
  /\ story' = [story EXCEPT ![current].late = elapsed >= Deadline]
  /\ UNCHANGED <<settings, tally, pc, child, direct, caged, program, offspring, elapsed>>

\* Mutant of Timeout: the deadline is the time limit itself.
TimeoutAtLimit ==
  /\ pc = "running" /\ elapsed >= TimeLimit /\ ~timer
  /\ timer' = TRUE
  /\ KillDirect
  /\ UNCHANGED <<settings, tally, pc, caged, program, offspring, elapsed>>

\* The context's deadline.
Timeout ==
  /\ pc = "running" /\ elapsed >= Deadline /\ ~timer
  /\ timer' = TRUE
  /\ KillDirect
  /\ UNCHANGED <<settings, tally, pc, caged, program, offspring, elapsed>>

-----------------------------------------------------------------------------
(***************************************************************************)
(* The result of Run.                                                      *)
(***************************************************************************)

\* cmd.Run returns when the direct child is reaped and nobody holds the pipes for
\* stdout and stderr any more.
Returned == direct \notin {"none", "alive"} /\ child = "gone" /\ ~offspring

\* Mutant of RunStatus: the exit code is not looked at.
RunStatusOfSignals ==
  CASE timer \/ direct \in {"SIGKILL", "SIGXCPU"} -> {"tle"}
    [] direct \in {"signal", "forbidden"} -> {"re"}
    [] OTHER -> {"ok"}

\* RunResult.Status.  A process that exits with 0 while the deadline passes has
\* either been seen in time or not.
RunStatus ==
  CASE direct = "exit0" /\ ~timer -> {"ok"}
    [] direct = "exit0" /\ timer  -> {"ok", "tle"}
    [] direct # "exit0" /\ (timer \/ direct \in {"SIGKILL", "SIGXCPU"}) -> {"tle"}
    [] direct = "forbidden" /\ ~timer -> {"seccomp"}
    [] OTHER -> {"re"}

\* ParseResult, followed by CompareOutput for a program that ran.
CaseStatus(st) ==
  CASE st = "ok"  -> IF program = "wrong" THEN "Wrong Answer" ELSE "Accepted"
    [] st = "tle" -> "Time Limit Exceeded"
    [] st = "mle" -> "Memory Limit Exceeded"
    [] OTHER      -> "Runtime Error"

\* The message that comes with it: none, stderr, or both outputs.
Messages(status) ==
  CASE status \in {"Accepted", "Time Limit Exceeded", "Memory Limit Exceeded"} -> {"none"}
    [] status = "Wrong Answer" -> Message \ {"none"}
    [] OTHER -> Message

RunReturns ==
  /\ pc = "running" /\ Returned
  /\ \E st \in RunStatus : \E msg \in Messages(CaseStatus(st)) :
       CaseEnds(CaseStatus(st), msg)
  /\ UNCHANGED <<settings, process, story>>

-----------------------------------------------------------------------------
Worker ==
  \/ Prepare \/ PrepareFails \/ Compile \/ CompileFails \/ CompileOverruns
  \/ Launch \/ LaunchFails \/ RunReturns

Child ==
  \/ JoinCgroup \/ EnterJail \/ ApplySeccomp \/ SetupFails
  \/ Exec \/ Fork \/ ProgramEnds \/ OomKill

Next == Worker \/ OverrunEnds \/ Child \/ Tick \/ Timeout

Spec == Init /\ [][Next]_judgeVars

(***************************************************************************)
(* Fairness: goroutines and processes are scheduled, time passes, timers   *)
(* fire, also the one of a compiler's driver; nothing is assumed of the    *)
(* processes a driver leaves behind, nor of a program or a child of it     *)
(* that does not end by itself.                                            *)
(***************************************************************************)
Fairness ==
  /\ WF_judgeVars(Worker) /\ WF_judgeVars(Child)
  /\ WF_judgeVars(Tick) /\ WF_judgeVars(Timeout)

FairSpec == Spec /\ Fairness

-----------------------------------------------------------------------------
(***************************************************************************)
(* Properties.                                                             *)
(***************************************************************************)

\* Every variable has its type; a process exists while Run runs.
TypeOK ==
  /\ mode \in {"namespace", "fallback", "gvisor"}
  /\ rule \in {"ACM", "IOI"} /\ compiled \in BOOLEAN
  /\ pc \in {"prepare", "compile", "overrun", "launch", "running", "done"}
  /\ current \in Case
  /\ child \in {"none", "started", "joined", "jailed", "filtered", "program", "gone"}
  /\ direct \in {"none", "alive", "exit0", "nonzero", "signal", "forbidden", "SIGKILL", "SIGXCPU"}
  /\ offspring \in BOOLEAN
  /\ (pc = "running") => direct # "none"
  /\ caged \in BOOLEAN /\ timer \in BOOLEAN
  /\ program \in Behaviour \cup {"none"}
  /\ elapsed \in 0 .. Deadline
  /\ passed \in 0 .. CaseCount /\ firstErr \in Message
  /\ verdict \in {"pending", "Accepted", "Wrong Answer", "Time Limit Exceeded",
                  "Memory Limit Exceeded", "Runtime Error", "Compile Error",
                  "Partial Score"}
  /\ story \in [Case -> [how : {"none", "setup", "compile", "oom", "killed", "right"}
                               \cup Behaviour,
                         late : BOOLEAN]]

Right(c) == story[c].how = "right"

\* What has to have happened to a case for JudgeTask to call it so.  A program
\* killed for its memory, or by itself, is reported as late: no process status means
\* "mle", and two signals mean "tle" whoever sends them.
Explains(c, status) ==
  CASE status = "Accepted"            -> Right(c)
    [] status = "Wrong Answer"        -> story[c].how = "wrong"
    [] status = "Compile Error"       -> story[c].how = "compile"
    [] status = "Time Limit Exceeded" -> story[c].how \in {"oom", "selfkill"} \/ story[c].late
    [] status = "Runtime Error" -> story[c].how \in {"setup", "nonzero", "signal", "forbidden"}
    [] OTHER -> FALSE

\* A submission is accepted, or gets part of the score, only for cases on which
\* its program ran to its own end, exited with 0 and printed the right output,
\* whatever failed around it (worker.go, the final status).
AcceptedIsEarned ==
  /\ verdict = "Accepted" => \A c \in Case : Right(c)
  /\ verdict = "Partial Score" => (\E c \in Case : Right(c)) /\ passed < CaseCount

\* Outside of IOI contests the verdict is what became of the first case that did
\* not pass, and passed_count is the number of cases before it.
FirstFailureDecides ==
  (pc = "done" /\ rule = "ACM") =>
    /\ Explains(current, verdict)
    /\ \A c \in Case : c < current => Right(c)
    /\ passed = IF verdict = "Accepted" THEN current ELSE current - 1

\* passed_count, from which an IOI contest computes the score, counts every case
\* solved before the deadline and no case that was not solved.
ScoreIsCount ==
  (pc = "done" /\ rule = "IOI") =>
    /\ passed <= Cardinality({c \in Case : Right(c)})
    /\ passed >= Cardinality({c \in Case : Right(c) /\ ~story[c].late})

\* The program that Run waits for has outlived the unshare that was killed.
Outlives == timer /\ direct # "alive" /\ child = "program" /\ program = "endless"

\* A child of the program has outlived it.
LeftBehind == pc = "running" /\ child = "gone" /\ offspring

\* Every submission gets a verdict in the end, whatever fails and however long its
\* program runs; the exceptions are a compiler whose children do not end, a program
\* without end in a namespace of its own, and, without namespaces, a program that leaves
\* a child without end behind.
EverySubmissionJudged ==
  <>[](\/ pc = "done" \/ pc = "overrun"
       \/ mode = "namespace" /\ Outlives
       \/ mode # "namespace" /\ LeftBehind)

(***************************************************************************)
(* A statement of the documentation.                                       *)
(***************************************************************************)

\* sandbox.go, Run: the deadline is the last resort that, by killing the process,
\* avoids a program without end.
DeadlineEndsRun == timer ~> (pc # "running")

=============================================================================
