------------------------------ MODULE AIDiagnose ------------------------------
(***************************************************************************)
(* The AI diagnosis of a failed submission (internal/handler/              *)
(* ai_socratic_debugger.go), behind the request limit of its route         *)
(* (RateLimit): AIDiagnoseHandler, the three analyses, the check of the    *)
(* problem's samples in a goroutine of its own, the reports both file in   *)
(* problem_feedback, and the page that reads the event stream              *)
(* (frontend/src/composables/useAiDiagnose.ts).                            *)
(*                                                                         *)
(* All requests are about one problem.  What the LLM, the sandbox and the  *)
(* database answer is chosen; a program is abstracted to what a run of it  *)
(* would show.                                                             *)
(***************************************************************************)
EXTENDS RateLimit

CONSTANTS
  Verdict,                \* verdicts a request may ask about, some of CE, TLE, WA, RE
  Problems,               \* what the problem may be, see Problem
  maxConcurrentDiagnose,  \* slots (4 in the code)
  maxRepairAttempts,      \* 3 in the code
  MaxMishaps              \* bound: failed calls to the database or the storage, and runs of
                          \* the reference that failed though the reference does not

(***************************************************************************)
(* What is true of the problem.  cases: where its test cases are kept;     *)
(* reference: it has a reference solution; known: detectRefLang finds its  *)
(* language; data: it passes the test cases; failing: it ends normally on  *)
(* the input that failed; sample: its output on the sample is the same,    *)
(* differs by blanks only, or is wrong.                                    *)
(***************************************************************************)
Problem == [cases : SUBSET {"storage", "disk", "table"}, reference : BOOLEAN,
            known : BOOLEAN, data : BOOLEAN, failing : BOOLEAN,
            sample : {"same", "blanks", "wrong"}]

ASSUME DiagnoseAssumption ==
  /\ "diagnose" \in Route
  /\ Verdict \subseteq {"CE", "TLE", "WA", "RE"}
  /\ Problems \subseteq Problem
  /\ maxConcurrentDiagnose \in Nat \ {0}
  /\ maxRepairAttempts \in Nat \ {0}
  /\ MaxMishaps \in Nat

VARIABLES
  problem,
  handler,    \* handler[r]: where the handler of r is, with its local variables
  over,       \* requests whose context has ended
  slots,      \* tokens in diagnoseSemaphore
  checker,    \* checker[r]: where the goroutine that checks the samples is
  reports,    \* pending rows of problem_feedback
  page,       \* page[r]: the phase the page shows; broken: still running, and the server
              \* can write to it no more
  cut,        \* history: requests whose LLM stream was closed without a last chunk
  uncounted,  \* history: how many counts of pending reports failed
  mishaps

workVars == <<handler, over, slots, page>>
tableVars == <<reports, uncounted, mishaps>>
diagnoseVars == <<problem, workVars, checker, tableVars, cut>>
vars == <<limitVars, diagnoseVars>>

Steps == {"none", "load", "validate", "stream", "repair", "sandbox", "hung", "verify",
          "count", "create", "ended", "dead"}

\* at: the next step; input: the request names the input that failed; attempt: which
\* repair is being made; misled: the run of the reference that is to be reported failed
\* though the reference does not.
Handler == [at : Steps, verdict : Verdict \cup {"none"}, input : BOOLEAN,
            attempt : 0 .. maxRepairAttempts, misled : BOOLEAN]

With(st, v, input) ==
  [at |-> st, verdict |-> v, input |-> input, attempt |-> 0, misled |-> FALSE]

Outside(st) == With(st, "none", FALSE)

Init ==
  /\ LimitInit
  /\ problem \in Problems
  /\ handler = [r \in Request |-> Outside("none")]
  /\ over = {} /\ slots = 0
  /\ checker = [r \in Request |-> "none"]
  /\ reports = {}
  /\ page = [r \in Request |-> "running"]
  /\ cut = {} /\ uncounted = 0 /\ mishaps = 0

Repairing(v) == v \in {"WA", "RE"}

At(r, st) == handler[r].at = st
GoTo(r, st) == handler' = [handler EXCEPT ![r].at = st]

\* An event of the stream, as handleEvent takes it: an error stays one.  It does not reach
\* a page whose user has left, nor one whose connection is broken.
Heard(p, event) ==
  CASE event = "error" /\ p \in {"running", "done"} -> "error"
    [] event = "done" /\ p = "running"              -> "done"
    [] OTHER                                        -> p

Show(r, event) == page' = [page EXCEPT ![r] = Heard(@, event)]

\* The last event before the handler returns.  Then net/http closes a connection it could
\* not write to, and the reader of the page fails.
ShowLast(r, event) ==
  page' = [page EXCEPT ![r] = IF @ = "broken" THEN "error" ELSE Heard(@, event)]

\* The handler of r returns: its context is cancelled and its slot given back.
Return(r) ==
  /\ handler' = [handler EXCEPT ![r] = Outside("ended")]
  /\ over' = over \cup {r}
  /\ slots' = IF Repairing(handler[r].verdict) THEN slots - 1 ELSE slots

Mishap == mishaps < MaxMishaps /\ mishaps' = mishaps + 1

\* misled: the reference ran in another language, its run failed by itself, or the test
\* cases were not read.
Report(kind, r, misled) == [kind |-> kind, by |-> r, misled |-> misled]

-----------------------------------------------------------------------------
(***************************************************************************)
(* AIDiagnoseHandler.                                                      *)
(***************************************************************************)

\* The handler starts, with the verdict and the input the request names.  WA and RE
\* need a slot and do not wait for one.
Start(r, v, input) ==
  /\ At(r, "none")
  /\ gate[r] = "passed" /\ route[r] = "diagnose"
  /\ Repairing(v) => slots < maxConcurrentDiagnose
  /\ slots' = IF Repairing(v) THEN slots + 1 ELSE slots
  /\ handler' = [handler EXCEPT ![r] = With("load", v, input)]
  /\ UNCHANGED <<limitVars, problem, over, page, checker, tableVars, cut>>

\* Otherwise the answer is 429, 503 with all slots taken, or 400 as the request may
\* always be unusable.
TurnAway(r) ==
  /\ At(r, "none")
  /\ gate[r] \in {"passed", "refused"} /\ route[r] = "diagnose"
  /\ GoTo(r, "ended")
  /\ ShowLast(r, "error")
  /\ UNCHANGED <<limitVars, problem, over, slots, checker, tableVars, cut>>

\* compileErrorAnalysis asks the LLM at once, tleAnalysis first validates the
\* reference if there is one, instrumentedAnalysis begins with a repair.
FirstStep(v) ==
  CASE Repairing(v)                   -> "repair"
    [] v = "TLE" /\ problem.reference -> "validate"
    [] OTHER                          -> "stream"

\* The problem is read, the check of its samples starts, and the verdict decides.
LoadProblem(r) ==
  LET v == handler[r].verdict
  IN /\ At(r, "load")
     /\ checker' = [checker EXCEPT ![r] = IF problem.reference THEN "spawned" ELSE "none"]
     /\ handler' = [handler EXCEPT ![r].at = FirstStep(v),
                                   ![r].attempt = IF Repairing(v) THEN 1 ELSE 0]
     /\ UNCHANGED <<limitVars, problem, over, slots, page, tableVars, cut>>

\* Mutant of ProblemMissing: the slot is not given back on the early return.
ProblemMissingKeepsSlot(r) ==
  /\ At(r, "load")
  /\ Mishap
  /\ ShowLast(r, "error")
  /\ handler' = [handler EXCEPT ![r] = Outside("ended")]
  /\ over' = over \cup {r}
  /\ UNCHANGED <<limitVars, problem, slots, checker, reports, uncounted, cut>>

\* Any error of the query counts as a missing problem.
ProblemMissing(r) ==
  /\ At(r, "load")
  /\ Mishap
  /\ ShowLast(r, "error")
  /\ Return(r)
  /\ UNCHANGED <<limitVars, problem, checker, reports, uncounted, cut>>

-----------------------------------------------------------------------------
(***************************************************************************)
(* CE and TLE: the answer of the LLM goes straight to the page.            *)
(***************************************************************************)

\* The failure of the reference is reported, each time anew.
ReportReference(r, misled) ==
  /\ reports' = reports \cup {Report("reference_solution_failure", r, misled)}
  /\ GoTo(r, "stream")
  /\ UNCHANGED <<limitVars, problem, over, slots, page, checker, uncounted, cut>>

\* runReferenceSolution: the reference runs on all test cases in the language of the
\* student's code (foreign: which is not its own).  Without a directory for it, a sandbox,
\* or the time it needs on a busy machine, its run fails too.
Validate(r, foreign) ==
  /\ At(r, "validate") /\ problem.cases # {}
  /\ \/ /\ foreign \/ ~problem.data
        /\ ReportReference(r, foreign) /\ UNCHANGED mishaps
     \/ ReportReference(r, TRUE) /\ Mishap

\* It passes them, or the report cannot be saved.
ValidateInSilence(r) ==
  /\ At(r, "validate")
  /\ \/ problem.cases # {} /\ problem.data /\ UNCHANGED mishaps
     \/ Mishap
  /\ GoTo(r, "stream")
  /\ UNCHANGED <<limitVars, problem, over, slots, page, checker, reports, uncounted, cut>>

\* loadTestCasesForDebug passes over a place it cannot read, or that holds nothing: the
\* bucket, the directory, the table.  None is left, and the reference is blamed.
TestCasesUnreadable(r) ==
  /\ At(r, "validate")
  /\ mishaps' = mishaps + Cardinality(problem.cases) /\ mishaps' <= MaxMishaps
  /\ ReportReference(r, TRUE)

\* Mutant of StreamLLM: after an error the final events are not written.
StreamLLMQuietly(r) ==
  /\ At(r, "stream")
  /\ \/ ShowLast(r, "done") /\ UNCHANGED cut
     \/ ShowLast(r, "nothing") /\ UNCHANGED cut
     \/ ShowLast(r, "nothing") /\ cut' = cut \cup {r}
  /\ Return(r)
  /\ UNCHANGED <<limitVars, problem, checker, tableVars>>

\* streamLLM reads to the last chunk: Done, an error, or none at all when the context
\* of the call ended and StreamChat closed the channel.
StreamLLM(r) ==
  /\ At(r, "stream")
  /\ \/ (\E event \in {"done", "error"} : ShowLast(r, event)) /\ UNCHANGED cut
     \/ ShowLast(r, "nothing") /\ cut' = cut \cup {r}
  /\ Return(r)
  /\ UNCHANGED <<limitVars, problem, checker, tableVars>>

-----------------------------------------------------------------------------
(***************************************************************************)
(* WA and RE: the LLM repairs the program and the sandbox runs it.         *)
(***************************************************************************)

\* The attempt fails; after the last one the reference is tried on the input.
NextAttempt(r) ==
  \/ \E n \in 1 .. maxRepairAttempts :
       /\ n = handler[r].attempt + 1
       /\ handler' = [handler EXCEPT ![r].at = "repair", ![r].attempt = n]
  \/ /\ handler[r].attempt = maxRepairAttempts
     /\ GoTo(r, "verify")

\* What the LLM answers to buildRepairUserMessage: a code block that
\* extractCodeFromMarkdown finds; nothing or prose only, as the message of an open
\* circuit breaker is; or an error.
RepairAnswer == {"code", "prose", "error"}

\* An attempt of attemptRepairLoop, unless the context is over.
AskForRepair(r, answer) ==
  /\ At(r, "repair") /\ r \notin over
  /\ \/ answer = "code" /\ GoTo(r, "sandbox") /\ UNCHANGED page
     \/ answer = "prose" /\ NextAttempt(r) /\ UNCHANGED page
     \/ answer = "error" /\ GoTo(r, "verify") /\ Show(r, "error")
  /\ UNCHANGED <<limitVars, problem, over, slots, checker, tableVars, cut>>

StopRepairing(r) ==
  /\ At(r, "repair") /\ r \in over
  /\ GoTo(r, "verify")
  /\ UNCHANGED <<limitVars, problem, over, slots, page, checker, tableVars, cut>>

\* Mutant of RunRepaired: a program that fails is repaired again and again.
RunRepairedForEver(r) ==
  /\ At(r, "sandbox")
  /\ GoTo(r, "verify") \/ GoTo(r, "repair")
  /\ UNCHANGED <<limitVars, problem, over, slots, page, checker, tableVars, cut>>

\* The repaired program ends normally, which counts as a success whatever it wrote,
\* or fails.  That the reference then runs on the input too is only told to the page.
RunRepaired(r) ==
  /\ At(r, "sandbox")
  /\ GoTo(r, "verify") \/ NextAttempt(r)
  /\ UNCHANGED <<limitVars, problem, over, slots, page, checker, tableVars, cut>>

\* There is a reference, and the input to run it on.
Verifiable(r) == problem.reference /\ handler[r].input

\* A program never ends and outlives its run: in the sandbox as in JudgeRun, and under
\* "go run", of which the time limit kills the parent only.  It is the repaired program or
\* the reference after it, or the reference where that does not end.
Hang(r) ==
  /\ \/ At(r, "sandbox")
     \/ At(r, "validate") /\ problem.cases # {} /\ ~problem.data
     \/ At(r, "verify") /\ Verifiable(r) /\ ~problem.failing
  /\ GoTo(r, "hung")
  /\ UNCHANGED <<limitVars, problem, over, slots, page, checker, tableVars, cut>>

Finish(r) == ShowLast(r, "done") /\ Return(r)

\* Mutant of ReferenceFails: the reference runs in the student's language.
ReferenceFailsAsStudent(foreign) == foreign \/ ~problem.failing

\* runRefForQuality on the input that failed, in the language detectRefLang takes the
\* reference for; its output is not looked at.
ReferenceFails(foreign) == problem.known => ~problem.failing

\* The test data are found suspicious.
Suspect(r, misled) ==
  /\ handler' = [handler EXCEPT ![r].at = "count", ![r].misled = misled]
  /\ UNCHANGED <<page, over, slots>>

\* checkFailedTestCaseReference, up to the verdict on the test data.  The run of a sound
\* reference fails for the same reasons as in Validate.
Verify(r, foreign) ==
  LET suspicious == Verifiable(r) /\ ReferenceFails(foreign)
  IN /\ At(r, "verify")
     /\ \/ suspicious /\ Suspect(r, FALSE) /\ UNCHANGED mishaps
        \/ Verifiable(r) /\ Suspect(r, TRUE) /\ Mishap
        \/ ~suspicious /\ Finish(r) /\ UNCHANGED mishaps
     /\ UNCHANGED <<limitVars, problem, checker, reports, uncounted, cut>>

Suspicions == {f \in reports : f.kind = "suspicious_testdata"}

\* Mutant of CountReports: the report is filed without a look at those pending.
CountNothing(r) ==
  /\ At(r, "count")
  /\ GoTo(r, "create")
  /\ UNCHANGED <<limitVars, problem, over, slots, page, checker, tableVars, cut>>

\* A report of the same problem that is still pending makes another one unnecessary.
\* A count that fails reads as zero.
CountReports(r) ==
  /\ At(r, "count")
  /\ \/ Suspicions # {} /\ Finish(r) /\ UNCHANGED <<uncounted, mishaps>>
     \/ /\ Suspicions = {} /\ GoTo(r, "create")
        /\ UNCHANGED <<page, over, slots, uncounted, mishaps>>
     \/ /\ Mishap /\ GoTo(r, "create")
        /\ uncounted' = uncounted + 1
        /\ UNCHANGED <<page, over, slots>>
  /\ UNCHANGED <<limitVars, problem, checker, reports, cut>>

CreateReport(r) ==
  /\ At(r, "create")
  /\ \/ /\ reports' = reports \cup {Report("suspicious_testdata", r, handler[r].misled)}
        /\ UNCHANGED mishaps
     \/ Mishap /\ UNCHANGED reports
  /\ Finish(r)
  /\ UNCHANGED <<limitVars, problem, checker, uncounted, cut>>

-----------------------------------------------------------------------------
(***************************************************************************)
(* checkProblemQualityOnDiagnose, in a goroutine of its own.               *)
(***************************************************************************)

\* It looks at the context once, and runs the reference on the sample: outside the
\* slots, and after the handler has returned if that is how it comes.  Its run may fail by
\* itself as in Validate, or never end.
CheckSamples(r) ==
  /\ checker[r] = "spawned"
  /\ \/ /\ checker' = [checker EXCEPT ![r] =
               IF r \notin over /\ (problem.known => problem.sample # "same")
               THEN "report" ELSE "none"]
        /\ UNCHANGED mishaps
     \/ /\ r \notin over /\ Mishap
        /\ checker' = [checker EXCEPT ![r] = "misreport"]
  /\ UNCHANGED <<limitVars, problem, workVars, reports, uncounted, cut>>

\* Nobody looks for an earlier report of the same sample.
ReportSample(r) ==
  /\ checker[r] \in {"report", "misreport"}
  /\ checker' = [checker EXCEPT ![r] = "none"]
  /\ \/ /\ reports' = reports \cup {Report("sample_error", r, checker[r] = "misreport")}
        /\ UNCHANGED mishaps
     \/ Mishap /\ UNCHANGED reports
  /\ UNCHANGED <<limitVars, problem, workVars, uncounted, cut>>

-----------------------------------------------------------------------------
(***************************************************************************)
(* The rest of the system.                                                 *)
(***************************************************************************)

Handling(r) == handler[r].at \notin {"none", "ended", "dead"}

\* The 180 seconds of diagnoseStreamTimeout are over, or the page was closed.
ContextEnds(r) ==
  /\ Handling(r) /\ r \notin over
  /\ over' = over \cup {r}
  /\ page' \in {page, [page EXCEPT ![r] = "cancelled"]}
  /\ UNCHANGED <<limitVars, problem, handler, slots, checker, tableVars, cut>>

\* The WriteTimeout of the server, 120 seconds from the request on, is less than the time
\* a diagnosis may take: what is written later does not reach the page.
WriteTimesOut(r) ==
  /\ Handling(r) /\ page[r] = "running"
  /\ page' = [page EXCEPT ![r] = "broken"]
  /\ UNCHANGED <<limitVars, problem, handler, over, slots, checker, tableVars, cut>>

\* AdminHandler.DeleteProblemFeedback.
DeleteProblemFeedback(f) ==
  /\ reports' = reports \ {f}
  /\ UNCHANGED <<limitVars, problem, workVars, checker, uncounted, mishaps, cut>>

\* The API server restarts: handlers, goroutines and slots are gone, and the pages
\* lose their connection.
Restart ==
  LET gone == {r \in Request : \/ Handling(r)
                               \/ At(r, "none") /\ gate[r] \in {"expire", "passed"}}
  IN /\ LimitRestart
     /\ handler' = [r \in Request |-> IF r \in gone THEN Outside("dead") ELSE handler[r]]
     /\ checker' = [r \in Request |-> "none"]
     /\ page' = [r \in Request |-> IF r \in gone /\ page[r] \in {"running", "broken"}
                                    THEN "error" ELSE page[r]]
     /\ slots' = 0
     /\ UNCHANGED <<problem, over, tableVars, cut>>

LimitStep(r) == Limiter(r) /\ UNCHANGED diagnoseVars
Expiry(r) == (Expire(r) \/ ExpireFails(r)) /\ UNCHANGED diagnoseVars
Clock == Tick /\ UNCHANGED diagnoseVars

Diagnose(r) ==
  \/ \E v \in Verdict, input \in BOOLEAN : Start(r, v, input)
  \/ TurnAway(r)
  \/ LoadProblem(r) \/ ProblemMissing(r)
  \/ ValidateInSilence(r) \/ TestCasesUnreadable(r) \/ StreamLLM(r)
  \/ \E foreign \in BOOLEAN : Validate(r, foreign) \/ Verify(r, foreign)
  \/ \E answer \in RepairAnswer : AskForRepair(r, answer)
  \/ StopRepairing(r) \/ RunRepaired(r) \/ Hang(r)
  \/ CountReports(r) \/ CreateReport(r)

CheckProblemQuality(r) == CheckSamples(r) \/ ReportSample(r)

Next ==
  \/ \E r \in Request : LimitStep(r) \/ Diagnose(r) \/ CheckProblemQuality(r)
                         \/ ContextEnds(r) \/ WriteTimesOut(r)
  \/ \E f \in reports : DeleteProblemFeedback(f)
  \/ Clock
  \/ Restart

Spec == Init /\ [][Next]_vars

(***************************************************************************)
(* Fairness: time passes, and the goroutine of a request goes on, since    *)
(* each call it makes ends: the LLM's has 90 seconds, Redis has 2, and a   *)
(* run of a program has a limit that ends it or else it hangs, see Hang.   *)
(* No property needs the checking of the samples to go on.                 *)
(***************************************************************************)
Serve(r) == Expiry(r) \/ Diagnose(r)

Fairness == WF_vars(Clock) /\ \A r \in Request : WF_vars(Serve(r))

FairSpec == Spec /\ Fairness

-----------------------------------------------------------------------------
(***************************************************************************)
(* Properties.                                                             *)
(***************************************************************************)

\* Every variable has its type.
TypeOK ==
  /\ LimitTypeOK
  /\ problem \in Problem
  /\ handler \in [Request -> Handler]
  /\ over \subseteq Request /\ cut \subseteq Request
  /\ slots \in 0 .. maxConcurrentDiagnose
  /\ checker \in [Request -> {"none", "spawned", "report", "misreport"}]
  /\ reports \subseteq [kind : {"sample_error", "reference_solution_failure",
                                "suspicious_testdata"}, by : Request, misled : BOOLEAN]
  /\ page \in [Request -> {"running", "broken", "done", "error", "cancelled"}]
  /\ uncounted \in Nat /\ mishaps \in 0 .. MaxMishaps

\* Handlers that have taken a slot and not given it back.
Holders == {r \in Request : Handling(r) /\ Repairing(handler[r].verdict)}

\* The semaphore counts the WA and RE diagnoses under way, no more and no fewer, and
\* never more than there are slots: each is given back exactly once, whichever of the
\* handler's returns, errors or attempts ends it (AIDiagnoseHandler).
SlotsAreHeld ==
  /\ slots = Cardinality(Holders)
  /\ Cardinality(Holders) <= maxConcurrentDiagnose

\* Counting the pending reports and creating one are two steps, and diagnoses that
\* overlap there file duplicates.  There are never more of them than slots, and one
\* more for each count that failed, however many diagnoses find the fault: a handler
\* between the two steps holds a slot (checkFailedTestCaseReference).
DuplicatesBounded ==
  Cardinality(Suspicions) <= maxConcurrentDiagnose + uncounted

\* Once the handler has returned the page shows an end, although most returns write
\* none themselves, and although what they write late does not arrive: only a CE or TLE
\* answer cut off by its context leaves the page at "running" (streamLLM, useAiDiagnose).
PageLearnsEnd ==
  \A r \in Request :
    (handler[r].at \in {"ended", "dead"} /\ page[r] \in {"running", "broken"}) => r \in cut

\* A report says something true of the problem, whoever's diagnosis filed it and
\* whatever else failed meanwhile, but for a reference taken for a program in another
\* language or whose own run failed, test cases that could not be read, and samples that
\* differ by blanks, which judging would accept (validateSampleCases, runReferenceSolution).
ReportsAreTrue ==
  \A f \in reports :
    \/ f.misled
    \/ CASE f.kind = "sample_error"        -> problem.sample # "same" \/ ~problem.known
         [] f.kind = "suspicious_testdata" -> ~problem.failing \/ ~problem.known
         [] OTHER                          -> ~problem.data

\* Every diagnosis ends, with its slot given back, unless a program it runs hangs or the
\* server dies: attempts are limited, and neither the model's answers nor a
\* client that has left keep it going (attemptRepairLoop).
EveryDiagnosisEnds ==
  \A r \in Request : Handling(r) ~> (handler[r].at \in {"ended", "hung", "dead"})
=============================================================================
