--------------------------- MODULE JudgeRun_proofs ---------------------------
(***************************************************************************)
(* Proofs about JudgeRun, for any number of test cases, any limits and any *)
(* behaviour of programs.                                                  *)
(*                                                                         *)
(* A verdict is formed from how the direct child ended, long after what    *)
(* became of the program.  ExitInv ties the two together while Run waits,  *)
(* TallyInv the counter of the loop to the cases behind it.                *)
(***************************************************************************)
EXTENDS JudgeRun, FiniteSetTheorems, TLAPS

Fates == {"none", "setup", "compile", "oom", "killed", "right"} \cup Behaviour

Statuses == {"Accepted", "Wrong Answer", "Time Limit Exceeded",
             "Memory Limit Exceeded", "Runtime Error", "Compile Error"}

\* How the process that Run waits for ended says what became of the program.
ExitInv ==
  LET how == story[current].how
  IN /\ child = "gone" => direct # "alive"
     /\ direct \notin {"alive", "SIGKILL"} => child = "gone"
     /\ direct = "exit0" => how = IF program = "wrong" THEN "wrong" ELSE "right"
     /\ direct = "nonzero" => how \in {"setup", "nonzero"}
     /\ direct \in {"signal", "forbidden"} => how = direct
     /\ direct = "SIGKILL" => timer \/ (how \in {"oom", "selfkill"} /\ child = "gone")
     /\ direct = "SIGXCPU" => how = "selfkill"
     /\ timer => story[current].late
     /\ child = "program" => program \in Behaviour

\* A process exists only while Run runs.
ProcessInv ==
  /\ child \notin {"none", "gone"} => pc = "running"
  /\ pc = "running" => ExitInv

\* passedCount counts cases behind the current one that were solved.
TallyInv ==
  pc # "done" =>
    /\ verdict = "pending"
    /\ passed < current
    /\ rule = "ACM" => passed = current - 1
    /\ passed = current - 1 => \A c \in Case : c < current => Right(c)
    /\ passed > 0 => \E c \in Case : c < current /\ Right(c)

RunInv == TypeOK /\ ProcessInv /\ TallyInv /\ AcceptedIsEarned /\ FirstFailureDecides

-----------------------------------------------------------------------------
(***************************************************************************)
(* Lemmas about the verdict.                                               *)
(***************************************************************************)

\* The initial states satisfy the invariant.
LEMMA RunInit == Init => RunInv
<1> SUFFICES ASSUME Init PROVE RunInv
  OBVIOUS
<1> USE JudgeRunAssumption DEF JudgeRunAssumption
<1>1. mode \in {"namespace", "fallback", "gvisor"}
  BY DEF Init, ExecMode
<1>2. Deadline \in Nat
  BY DEF Deadline
<1>3. TypeOK
  <2>1. story \in [Case -> [how : Fates, late : BOOLEAN]]
    BY DEF Init, Fates
  <2>2. current \in Case /\ passed \in 0 .. CaseCount /\ elapsed \in 0 .. Deadline
    BY <1>2 DEF Init, Case
  <2> QED
    BY <1>1, <2>1, <2>2 DEF Init, TypeOK, Fates, Message
<1>4. ProcessInv /\ TallyInv
  BY DEF Init, ProcessInv, TallyInv, Case
<1> QED
  BY <1>3, <1>4 DEF RunInv, Init, AcceptedIsEarned, FirstFailureDecides

\* The final status is one of four, and says whether all, some or no cases passed.
LEMMA FinalStatusLemma ==
  ASSUME NEW n \in 0 .. CaseCount, NEW msg \in Message
  PROVE  /\ FinalStatus(n, msg) \in Statuses \cup {"Partial Score"}
         /\ FinalStatus(n, msg) = "Accepted" => n > 0 /\ (n = CaseCount \/ rule # "IOI")
         /\ FinalStatus(n, msg) = "Partial Score" => n > 0 /\ n < CaseCount /\ rule = "IOI"
         /\ n = CaseCount => FinalStatus(n, msg) = "Accepted"
<1> USE JudgeRunAssumption DEF JudgeRunAssumption
<1> n \in Nat /\ CaseCount \in Nat /\ CaseCount > 0 /\ n <= CaseCount
  OBVIOUS
<1>1. CASE n = 0
  <2>1. CASE msg \in {"none", "plain"}
    BY <1>1, <2>1 DEF FinalStatus, Statuses
  <2>2. CASE msg = "Time Limit"
    BY <1>1, <2>2 DEF FinalStatus, Statuses
  <2>3. CASE msg = "Memory Limit"
    BY <1>1, <2>3 DEF FinalStatus, Statuses
  <2> QED
    BY <2>1, <2>2, <2>3 DEF Message
<1>2. CASE n > 0 /\ n < CaseCount /\ rule = "IOI"
  <2>1. n # 0 /\ n # CaseCount
    BY <1>2
  <2>2. FinalStatus(n, msg) = "Partial Score"
    BY <2>1, <1>2, Zenon DEF FinalStatus
  <2> QED
    BY <1>2, <2>1, <2>2, Zenon DEF Statuses
<1>3. CASE n > 0 /\ ~(n < CaseCount /\ rule = "IOI")
  <2>1. n # 0 /\ (n = CaseCount \/ rule # "IOI")
    BY <1>3
  <2>2. FinalStatus(n, msg) = "Accepted"
    BY <2>1, <1>3, Zenon DEF FinalStatus
  <2> QED
    BY <1>3, <2>1, <2>2, Zenon DEF Statuses
<1>4. n = 0 \/ n > 0
  OBVIOUS
<1> QED
  BY <1>1, <1>2, <1>3, <1>4, Zenon

\* A case ends: the heart of JudgeTask's loop.  If the status explains what became
\* of the current case, the verdict, should there be one, is right as well.
LEMMA CaseEndsLemma ==
  ASSUME RunInv, pc # "done", child \in {"none", "gone"},
         NEW status \in Statuses, NEW msg \in Message, CaseEnds(status, msg),
         UNCHANGED <<settings, process>>,
         story' \in [Case -> [how : Fates, late : BOOLEAN]],
         \A c \in Case : c # current => story'[c] = story[c],
         \A c \in Case : c = current => Explains(c, status)'
  PROVE  RunInv'
<1> USE JudgeRunAssumption DEF JudgeRunAssumption
<1>1. /\ current \in Case /\ passed \in 0 .. CaseCount /\ passed < current
      /\ CaseCount \in Nat \ {0}
  BY DEF RunInv, TypeOK, TallyInv
<1>2. passed' \in 0 .. CaseCount /\ passed' <= current
  BY <1>1 DEF CaseEnds, Counted, Case
<1>3. firstErr' \in Message
  BY DEF CaseEnds, RunInv, TypeOK
<1>4. \A c \in Case : c = current /\ status = "Accepted" => Right(c)'
  BY DEF Explains
<1>5. \A c \in Case : c < current /\ Right(c) => Right(c)'
  BY <1>1 DEF Right, Case
<1>6. passed' = current => \A c \in Case : c <= current => Right(c)'
  <2> SUFFICES ASSUME passed' = current, NEW c \in Case, c <= current  PROVE Right(c)'
    OBVIOUS
  <2>1. status = "Accepted" /\ passed = current - 1
    BY <1>1 DEF CaseEnds, Counted, Case
  <2>2. c < current => Right(c)
    BY <2>1 DEF RunInv, TallyInv
  <2>3. c < current \/ c = current
    BY <1>1 DEF Case
  <2> QED
    BY <2>1, <2>2, <2>3, <1>4, <1>5
<1>7. passed' > 0 => \E c \in Case : c <= current /\ Right(c)'
  <2> SUFFICES ASSUME passed' > 0  PROVE \E c \in Case : c <= current /\ Right(c)'
    OBVIOUS
  <2>1. CASE status = "Accepted"
    BY <2>1, <1>1, <1>4 DEF Case
  <2>2. CASE status # "Accepted"
    <3>1. passed > 0
      BY <2>2 DEF CaseEnds, Counted
    <3>2. PICK c \in Case : c < current /\ Right(c)
      BY <3>1 DEF RunInv, TallyInv
    <3> QED
      BY <3>2, <1>1, <1>5 DEF Case
  <2> QED
    BY <2>1, <2>2
<1>8. /\ rule' = rule /\ mode' = mode /\ compiled' = compiled /\ child' = child
      /\ direct' = direct /\ caged' = caged /\ program' = program /\ elapsed' = elapsed
      /\ timer' = timer /\ offspring' = offspring
  BY DEF settings, process
<1>14. /\ mode' \in {"namespace", "fallback", "gvisor"}
       /\ rule' \in {"ACM", "IOI"} /\ compiled' \in BOOLEAN
       /\ child' \in {"none", "started", "joined", "jailed", "filtered", "program", "gone"}
       /\ direct' \in {"none", "alive", "exit0", "nonzero", "signal", "forbidden", "SIGKILL", "SIGXCPU"}
       /\ caged' \in BOOLEAN /\ timer' \in BOOLEAN /\ offspring' \in BOOLEAN
       /\ program' \in Behaviour \cup {"none"} /\ elapsed' \in 0 .. Deadline
  <2>1. /\ mode \in {"namespace", "fallback", "gvisor"}
        /\ rule \in {"ACM", "IOI"} /\ compiled \in BOOLEAN
        /\ child \in {"none", "started", "joined", "jailed", "filtered", "program", "gone"}
        /\ direct \in {"none", "alive", "exit0", "nonzero", "signal", "forbidden", "SIGKILL", "SIGXCPU"}
        /\ caged \in BOOLEAN /\ timer \in BOOLEAN /\ offspring \in BOOLEAN
        /\ program \in Behaviour \cup {"none"} /\ elapsed \in 0 .. Deadline
    BY ZenonT(20) DEF RunInv, TypeOK
  <2> QED
    BY <1>8, <2>1
<1>9. rule = "ACM" => passed = current - 1
  BY DEF RunInv, TallyInv
<1>10. rule \in {"ACM", "IOI"}
  BY DEF RunInv, TypeOK
\* ACM rules stop at the first failure.
<1>11. CASE status # "Accepted" /\ rule # "IOI"
  <2>1. pc' = "done" /\ verdict' = status /\ current' = current /\ passed' = passed
    BY <1>11 DEF CaseEnds, Counted
  <2>2. TypeOK'
    <3>1. current' \in Case /\ verdict' \in Statuses
      BY <2>1, <1>1
    <3> QED
      BY <3>1, <2>1, <1>2, <1>3, <1>14 DEF TypeOK, Statuses, Fates
  <2>3. ProcessInv' /\ TallyInv'
    BY <2>1, <1>8 DEF ProcessInv, TallyInv
  <2>4. AcceptedIsEarned'
    BY <2>1, <1>11 DEF AcceptedIsEarned, Statuses
  <2>5. \A c \in Case : c < current => Right(c)'
    BY <1>5, <1>9, <1>10, <1>11 DEF RunInv, TallyInv
  <2>6. Explains(current, verdict)'
    BY <2>1, <1>1 DEF Explains
  <2>7. FirstFailureDecides'
    BY <2>1, <2>5, <2>6, <1>9, <1>10, <1>11 DEF FirstFailureDecides
  <2> QED
    BY <2>2, <2>3, <2>4, <2>7 DEF RunInv
\* Otherwise the loop goes on ...
<1>12. CASE ~(status # "Accepted" /\ rule # "IOI") /\ current < CaseCount
  <2>1. pc' = "prepare" /\ current' = current + 1 /\ verdict' = verdict
    BY <1>12 DEF CaseEnds, NextCase
  <2>2. TypeOK'
    <3>1. current' \in Case /\ verdict' = "pending"
      BY <2>1, <1>1, <1>12 DEF Case, RunInv, TallyInv
    <3> QED
      BY <3>1, <2>1, <1>2, <1>3, <1>14 DEF TypeOK, Fates
  <2>3. ProcessInv'
    BY <2>1, <1>8 DEF ProcessInv
  <2>4. rule = "ACM" => passed' = current
    BY <1>1, <1>9, <1>12 DEF CaseEnds, Counted, Case
  <2>5. TallyInv'
    <3>1. verdict' = "pending"
      BY <2>1 DEF RunInv, TallyInv
    <3>2. passed' < current'
      BY <2>1, <1>1, <1>2 DEF Case
    <3>3. rule' = "ACM" => passed' = current' - 1
      BY <2>1, <2>4, <1>1, <1>8 DEF Case
    <3>4. passed' = current' - 1 => \A c \in Case : c < current' => Right(c)'
      BY <2>1, <1>1, <1>6 DEF Case
    <3>5. passed' > 0 => \E c \in Case : c < current' /\ Right(c)'
      BY <2>1, <1>1, <1>7 DEF Case
    <3> QED
      BY <3>1, <3>2, <3>3, <3>4, <3>5 DEF TallyInv
  <2>6. AcceptedIsEarned' /\ FirstFailureDecides'
    BY <2>1 DEF AcceptedIsEarned, FirstFailureDecides, RunInv, TallyInv
  <2> QED
    BY <2>2, <2>3, <2>5, <2>6 DEF RunInv
\* ... or the last case decides, together with the count.
<1>13. CASE ~(status # "Accepted" /\ rule # "IOI") /\ ~(current < CaseCount)
  <2> DEFINE s == FinalStatus(passed', firstErr')
  <2>1. pc' = "done" /\ verdict' = s /\ current' = current
    BY <1>13 DEF CaseEnds, NextCase
  <2>2. current = CaseCount
    BY <1>1, <1>13 DEF Case
  <2>3. /\ s \in Statuses \cup {"Partial Score"}
        /\ s = "Accepted" => passed' > 0 /\ (passed' = CaseCount \/ rule # "IOI")
        /\ s = "Partial Score" => passed' > 0 /\ passed' < CaseCount /\ rule = "IOI"
        /\ passed' = CaseCount => s = "Accepted"
    BY <1>2, <1>3, FinalStatusLemma
  <2> HIDE DEF s
  <2>4. rule = "ACM" => passed' = CaseCount
    BY <2>2, <1>1, <1>9, <1>13 DEF CaseEnds, Counted, Case
  <2>5. TypeOK'
    <3>1. current' \in Case
      BY <2>1, <1>1
    <3> QED
      BY <3>1, <2>1, <2>3, <1>2, <1>3, <1>14 DEF TypeOK, Statuses, Fates
  <2>6. ProcessInv' /\ TallyInv'
    BY <2>1, <1>8 DEF ProcessInv, TallyInv
  <2>7. s = "Accepted" => \A c \in Case : Right(c)'
    BY <2>2, <2>3, <2>4, <1>6, <1>10 DEF Case
  <2>8. AcceptedIsEarned'
    BY <2>1, <2>3, <2>7, <1>7 DEF AcceptedIsEarned
  <2>9. FirstFailureDecides'
    <3> SUFFICES ASSUME rule = "ACM"
                 PROVE  /\ Explains(current, verdict)'
                        /\ (\A c \in Case : c < current => Right(c))'
                        /\ passed' = current /\ verdict' = "Accepted"
      BY <2>1, <1>8 DEF FirstFailureDecides
    <3>1. passed' = CaseCount /\ s = "Accepted"
      BY <2>3, <2>4
    <3> QED
      BY <3>1, <2>1, <2>2, <2>7, <1>1 DEF Explains, Right
  <2> QED
    BY <2>5, <2>6, <2>8, <2>9 DEF RunInv
<1> QED
  BY <1>11, <1>12, <1>13
-----------------------------------------------------------------------------
(***************************************************************************)
(* Lemmas about the process.                                               *)
(***************************************************************************)

\* A step of the process, the clock or the deadline leaves the loop alone.
LEMMA RunningLemma ==
  ASSUME RunInv, pc = "running", UNCHANGED <<settings, tally, pc>>,
         story' \in [Case -> [how : Fates, late : BOOLEAN]],
         \A c \in Case : c # current => story'[c] = story[c],
         child' \in {"none", "started", "joined", "jailed", "filtered", "program", "gone"},
         direct' \in {"alive", "exit0", "nonzero", "signal", "forbidden", "SIGKILL", "SIGXCPU"},
         caged' \in BOOLEAN, timer' \in BOOLEAN, offspring' \in BOOLEAN, program' \in Behaviour \cup {"none"},
         elapsed' \in 0 .. Deadline, ExitInv'
  PROVE  RunInv'
<1>1. /\ mode' = mode /\ rule' = rule /\ compiled' = compiled /\ current' = current
      /\ passed' = passed /\ firstErr' = firstErr /\ verdict' = verdict /\ pc' = pc
  BY DEF settings, tally
<1>2. TypeOK'
  <2>1. /\ mode' \in {"namespace", "fallback", "gvisor"}
        /\ rule' \in {"ACM", "IOI"} /\ compiled' \in BOOLEAN
        /\ pc' \in {"prepare", "compile", "overrun", "launch", "running", "done"}
        /\ current' \in Case /\ passed' \in 0 .. CaseCount /\ firstErr' \in Message
        /\ verdict' \in {"pending", "Accepted", "Wrong Answer", "Time Limit Exceeded",
                        "Memory Limit Exceeded", "Runtime Error", "Compile Error",
                        "Partial Score"}
    BY <1>1, Zenon DEF RunInv, TypeOK
  <2> QED
    BY <2>1 DEF TypeOK, Fates
<1>3. ProcessInv'
  BY <1>1 DEF ProcessInv
<1>4. \A c \in Case : c < current => (Right(c)' <=> Right(c))
  <2> SUFFICES ASSUME NEW c \in Case, c < current  PROVE Right(c)' <=> Right(c)
    OBVIOUS
  <2>1. c \in Nat /\ current \in Nat
    <3>1. current \in Case
      BY Zenon DEF RunInv, TypeOK
    <3> QED
      BY <3>1, JudgeRunAssumption DEF JudgeRunAssumption, Case
  <2>2. c # current
    BY <2>1
  <2> QED
    BY <2>2 DEF Right
<1>5. TallyInv'
  BY <1>1, <1>4 DEF RunInv, TallyInv
<1>6. AcceptedIsEarned' /\ FirstFailureDecides'
  BY <1>1 DEF AcceptedIsEarned, FirstFailureDecides, RunInv, TallyInv
<1> QED
  BY <1>2, <1>3, <1>5, <1>6 DEF RunInv

\* The fate of the current case changes its entry of the story and no other.
LEMMA FateLemma ==
  ASSUME RunInv, NEW how \in Fates, Fate(how)
  PROVE  /\ story' \in [Case -> [how : Fates, late : BOOLEAN]]
         /\ \A c \in Case : c # current => story'[c] = story[c]
         /\ story'[current].how = how /\ story'[current].late = story[current].late
  BY DEF RunInv, TypeOK, Fate, Fates

\* What becomes of the current case outside of Run, and the end of the case.
LEMMA FailsLemma ==
  ASSUME RunInv, pc \in {"prepare", "compile", "overrun", "launch"},
         NEW how \in {"setup", "compile"}, Fate(how),
         NEW msg \in Message, UNCHANGED <<settings, process>>,
         CaseEnds(IF how = "setup" THEN "Runtime Error" ELSE "Compile Error", msg)
  PROVE  RunInv'
<1> DEFINE status == IF how = "setup" THEN "Runtime Error" ELSE "Compile Error"
<1>1. child \in {"none", "gone"} /\ pc # "done"
  BY DEF RunInv, ProcessInv
<1>2. /\ story' \in [Case -> [how : Fates, late : BOOLEAN]]
      /\ \A c \in Case : c # current => story'[c] = story[c]
      /\ story'[current].how = how
  BY FateLemma DEF Fates
<1>3. status \in Statuses
  BY DEF Statuses
<1>4. \A c \in Case : c = current => Explains(c, status)'
  BY <1>2 DEF Explains
<1>5. CaseEnds(status, msg)
  OBVIOUS
<1> HIDE DEF status
<1> QED
  BY <1>1, <1>2, <1>3, <1>4, <1>5, CaseEndsLemma

\* Run returns: the status explains what became of the program.
LEMMA ReturnExplained ==
  ASSUME RunInv, RunReturns
  PROVE  \E status \in Statuses : \E msg \in Message :
           /\ CaseEnds(status, msg)
           /\ \A c \in Case : c = current => Explains(c, status)'
<1>1. /\ pc = "running" /\ child = "gone" /\ direct \notin {"none", "alive"}
      /\ UNCHANGED <<settings, process, story>>
  BY DEF RunReturns, Returned
<1>2. PICK st \in RunStatus : \E msg \in Messages(CaseStatus(st)) :
        CaseEnds(CaseStatus(st), msg)
  BY DEF RunReturns
<1>3. PICK msg \in Messages(CaseStatus(st)) : CaseEnds(CaseStatus(st), msg)
  BY <1>2
<1>4. /\ ExitInv /\ current \in Case /\ timer \in BOOLEAN
      /\ direct \in {"exit0", "nonzero", "signal", "forbidden", "SIGKILL", "SIGXCPU"}
  BY <1>1 DEF RunInv, ProcessInv, TypeOK
<1>5. st \in {"ok", "tle", "seccomp", "re"}
  BY <1>4 DEF RunStatus
<1>6. CaseStatus(st) \in Statuses
  BY <1>5 DEF CaseStatus, Statuses
<1>7. msg \in Message
  BY <1>3, <1>6 DEF Messages, Statuses, Message
<1>8. Explains(current, CaseStatus(st))
  <2>1. CASE st = "ok"
    <3>1. direct = "exit0"
      BY <2>1, <1>2, <1>4 DEF RunStatus
    <3> QED
      BY <2>1, <3>1, <1>4 DEF ExitInv, CaseStatus, Explains, Right
  <2>2. CASE st = "tle"
    <3>1. timer \/ direct \in {"SIGKILL", "SIGXCPU"}
      BY <2>2, <1>2, <1>4 DEF RunStatus
    <3> QED
      BY <2>2, <3>1, <1>4 DEF ExitInv, CaseStatus, Explains
  <2>3. CASE st \in {"seccomp", "re"}
    <3>1. direct \in {"nonzero", "signal", "forbidden"}
      BY <2>3, <1>2, <1>4 DEF RunStatus
    <3> QED
      BY <2>3, <3>1, <1>4 DEF ExitInv, CaseStatus, Explains
  <2> QED
    BY <1>5, <2>1, <2>2, <2>3
\* The status is a value; the program on which it depends changes later.
<1>9. PICK status \in Statuses : status = CaseStatus(st)
  BY <1>6
<1>11. \A c \in Case : c = current => Explains(c, status)'
  BY <1>1, <1>8, <1>9 DEF Explains, Right
<1>12. CaseEnds(status, msg)
  BY <1>3, <1>9
<1> QED
  BY <1>7, <1>11, <1>12

\* Run returns, and with it the case ends.
LEMMA ReturnLemma ==
  ASSUME RunInv, RunReturns
  PROVE  RunInv'
<1>1. /\ pc = "running" /\ child = "gone"
      /\ UNCHANGED <<settings, process, story>>
  BY DEF RunReturns, Returned
<1>2. PICK status \in Statuses : \E msg \in Message :
        /\ CaseEnds(status, msg)
        /\ \A c \in Case : c = current => Explains(c, status)'
  BY ReturnExplained
<1>3. PICK msg \in Message :
        /\ CaseEnds(status, msg)
        /\ \A c \in Case : c = current => Explains(c, status)'
  BY <1>2
<1>4. story' \in [Case -> [how : Fates, late : BOOLEAN]]
  BY <1>1 DEF RunInv, TypeOK, Fates
<1>5. pc # "done" /\ child \in {"none", "gone"}
  BY <1>1
<1>6. \A c \in Case : c # current => story'[c] = story[c]
  BY <1>1
<1> QED
  BY <1>1, <1>3, <1>4, <1>5, <1>6, CaseEndsLemma
-----------------------------------------------------------------------------
(***************************************************************************)
(* The invariant.                                                          *)
(***************************************************************************)

\* Every step keeps the invariant.
LEMMA RunNext == RunInv /\ [Next]_judgeVars => RunInv'
<1> SUFFICES ASSUME RunInv, [Next]_judgeVars  PROVE RunInv'
  OBVIOUS
<1> USE JudgeRunAssumption DEF JudgeRunAssumption
<1>d. Deadline \in Nat
  BY DEF Deadline
<1>t. /\ TypeOK /\ ProcessInv
      /\ story \in [Case -> [how : Fates, late : BOOLEAN]]
      /\ timer \in BOOLEAN /\ caged \in BOOLEAN /\ offspring \in BOOLEAN /\ program \in Behaviour \cup {"none"}
      /\ elapsed \in 0 .. Deadline
  BY Zenon DEF RunInv, TypeOK, Fates
<1>s. ASSUME UNCHANGED <<settings, tally>>
      PROVE  /\ mode' \in {"namespace", "fallback", "gvisor"}
             /\ rule' \in {"ACM", "IOI"} /\ compiled' \in BOOLEAN
             /\ current' \in Case /\ passed' \in 0 .. CaseCount /\ firstErr' \in Message
             /\ verdict' \in {"pending", "Accepted", "Wrong Answer", "Time Limit Exceeded",
                             "Memory Limit Exceeded", "Runtime Error", "Compile Error",
                             "Partial Score"}
  <2>1. /\ mode' = mode /\ rule' = rule /\ compiled' = compiled /\ current' = current
        /\ passed' = passed /\ firstErr' = firstErr /\ verdict' = verdict
    BY <1>s DEF settings, tally
  <2> QED
    BY <2>1, Zenon DEF RunInv, TypeOK
<1>p. ASSUME UNCHANGED process
      PROVE  /\ child' \in {"none", "started", "joined", "jailed", "filtered", "program", "gone"}
             /\ direct' \in {"none", "alive", "exit0", "nonzero", "signal", "forbidden", "SIGKILL", "SIGXCPU"}
             /\ caged' \in BOOLEAN /\ timer' \in BOOLEAN /\ offspring' \in BOOLEAN
             /\ program' \in Behaviour \cup {"none"} /\ elapsed' \in 0 .. Deadline
  <2>1. /\ child' = child /\ direct' = direct /\ caged' = caged /\ timer' = timer
        /\ program' = program /\ offspring' = offspring /\ elapsed' = elapsed
    BY <1>p DEF process
  <2> QED
    BY <2>1, Zenon DEF RunInv, TypeOK
\* Between runs.
<1>1. ASSUME pc' \in {"compile", "overrun", "launch"}, pc # "done", pc # "running",
             UNCHANGED <<settings, process, tally, story>>
      PROVE  RunInv'
  <2>1. TypeOK'
    <3>1. /\ child' \in {"none", "started", "joined", "jailed", "filtered", "program", "gone"}
          /\ direct' \in {"none", "alive", "exit0", "nonzero", "signal", "forbidden", "SIGKILL", "SIGXCPU"}
          /\ caged' \in BOOLEAN /\ timer' \in BOOLEAN /\ offspring' \in BOOLEAN
          /\ program' \in Behaviour \cup {"none"} /\ elapsed' \in 0 .. Deadline
      BY <1>1, <1>p
    <3>2. story' \in [Case -> [how : Fates, late : BOOLEAN]]
      BY <1>1, <1>t
    <3> QED
      BY <1>1, <1>s, <3>1, <3>2 DEF TypeOK, Fates
  <2>2. ProcessInv'
    BY <1>1, <1>t DEF ProcessInv, process
  <2>3. TallyInv'
    BY <1>1 DEF RunInv, TallyInv, Right, settings, tally
  <2>4. AcceptedIsEarned' /\ FirstFailureDecides'
    BY <1>1 DEF AcceptedIsEarned, FirstFailureDecides, RunInv, TallyInv, tally
  <2> QED
    BY <2>1, <2>2, <2>3, <2>4 DEF RunInv
<1>2. ASSUME Prepare \/ Compile \/ CompileOverruns  PROVE RunInv'
  BY <1>1, <1>2 DEF Prepare, Compile, CompileOverruns
<1>3. ASSUME PrepareFails  PROVE RunInv'
  BY <1>3, FailsLemma DEF PrepareFails, Message
<1>4. ASSUME CompileFails \/ OverrunEnds  PROVE RunInv'
  BY <1>4, FailsLemma DEF CompileFails, OverrunEnds, CompileError
<1>5. ASSUME LaunchFails  PROVE RunInv'
  BY <1>5, FailsLemma DEF LaunchFails, Message
<1>6. ASSUME RunReturns  PROVE RunInv'
  BY <1>6, ReturnLemma
<1>7. ASSUME Launch  PROVE RunInv'
  <2>1. TypeOK'
    <3>1. /\ pc' = "running" /\ child' = "started" /\ direct' = "alive"
          /\ program' = "none" /\ caged' \in BOOLEAN /\ timer' = FALSE /\ offspring' = FALSE
          /\ elapsed' \in 0 .. Deadline
      <4>1. /\ pc' = "running" /\ child' = "started" /\ direct' = "alive"
            /\ program' = "none" /\ timer' = FALSE /\ offspring' = FALSE /\ elapsed' = 0
        BY <1>7 DEF Launch
      <4>2. caged' \in BOOLEAN
        BY <1>7, Zenon DEF Launch
      <4> QED
        BY <4>1, <4>2, <1>d
    <3>2. story' \in [Case -> [how : Fates, late : BOOLEAN]]
      BY <1>7, <1>t DEF Launch
    <3> QED
      BY <1>7, <1>s, <3>1, <3>2 DEF Launch, TypeOK, Fates
  <2>2. ProcessInv'
    BY <1>7 DEF Launch, ProcessInv, ExitInv
  <2>3. TallyInv'
    BY <1>7 DEF Launch, RunInv, TallyInv, Right, settings, tally
  <2>4. AcceptedIsEarned' /\ FirstFailureDecides'
    BY <1>7 DEF Launch, AcceptedIsEarned, FirstFailureDecides, RunInv, TallyInv, tally
  <2> QED
    BY <2>1, <2>2, <2>3, <2>4 DEF RunInv
\* While Run runs.
<1>8. pc = "running" =>
        /\ ExitInv /\ current \in Case
        /\ direct \in {"alive", "exit0", "nonzero", "signal", "forbidden", "SIGKILL", "SIGXCPU"}
        /\ child \in {"none", "started", "joined", "jailed", "filtered", "program", "gone"}
  BY <1>t DEF ProcessInv, TypeOK
<1>9. ASSUME JoinCgroup \/ EnterJail \/ ApplySeccomp \/ Exec \/ Fork  PROVE RunInv'
  <2>1. /\ pc = "running" /\ child \in {"started", "joined", "jailed", "filtered", "program"}
        /\ child' \in {"joined", "jailed", "filtered", "program"}
        /\ UNCHANGED <<settings, tally, story, pc, direct, elapsed, timer>>
        /\ program' \in Behaviour \cup {"none"} /\ caged' \in BOOLEAN
        /\ offspring' \in BOOLEAN
        /\ child' = "program" => program' \in Behaviour
    BY <1>9, <1>t DEF JoinCgroup, EnterJail, ApplySeccomp, Exec, Fork, ProcessInv, ExitInv
  <2>2. ExitInv'
    BY <2>1, <1>8 DEF ExitInv, tally
  <2> QED
    BY <2>1, <2>2, <1>8, <1>t, RunningLemma
\* The child ends while its parent waits for it, or after the parent was killed.
<1>10. ASSUME child \notin {"none", "gone"}, NEW how \in Fates,
              NEW exit \in {"exit0", "nonzero", "signal", "forbidden", "SIGKILL", "SIGXCPU"},
              Fate(how), ChildEnds(exit),
              UNCHANGED <<settings, tally, pc, caged, program, elapsed, timer>>,
              offspring' \in BOOLEAN,
              /\ exit = "exit0" => how = IF program = "wrong" THEN "wrong" ELSE "right"
              /\ exit = "nonzero" => how \in {"setup", "nonzero"}
              /\ exit \in {"signal", "forbidden"} => how = exit
              /\ exit = "SIGKILL" => how \in {"oom", "selfkill"}
              /\ exit = "SIGXCPU" => how = "selfkill"
       PROVE  RunInv'
  <2>1. /\ pc = "running" /\ direct \in {"alive", "SIGKILL"}
        /\ direct = "SIGKILL" => timer
    BY <1>10, <1>8, <1>t DEF ProcessInv, ExitInv
  <2>2. /\ child' = "gone"
        /\ direct' = IF direct = "alive" THEN exit ELSE "SIGKILL"
    BY <1>10, <2>1 DEF ChildEnds
  <2>3. /\ story' \in [Case -> [how : Fates, late : BOOLEAN]]
        /\ \A c \in Case : c # current => story'[c] = story[c]
        /\ story'[current].how = how /\ story'[current].late = story[current].late
    BY <1>10, FateLemma
  <2>4. current' = current
    BY <1>10 DEF tally
  <2>5. ExitInv'
    BY <1>10, <1>8, <2>1, <2>2, <2>3, <2>4 DEF ExitInv
  <2> QED
    BY <1>10, <2>1, <2>2, <2>3, <2>5, <1>t, RunningLemma
<1>11. ASSUME SetupFails  PROVE RunInv'
  BY <1>10, <1>11, <1>t DEF SetupFails, Fates
<1>12. ASSUME ProgramEnds  PROVE RunInv'
  <2> DEFINE how == Ending
  <2>1. program \in Behaviour /\ child = "program" /\ program # "endless"
    BY <1>12, <1>8, <1>t DEF ProgramEnds, ProcessInv, ExitInv
  <2>2. how \in {"right", "wrong", "nonzero", "signal", "forbidden", "selfkill"}
    BY <2>1 DEF Ending
  <2>3. how \in Fates /\ (how = "wrong" <=> program = "wrong")
    BY <2>1 DEF Ending, Fates
  <2>4. PICK exit \in ExitStatuses(how) : ChildEnds(exit)
    BY <1>12 DEF ProgramEnds
  <2>5. /\ exit \in {"exit0", "nonzero", "signal", "forbidden", "SIGKILL", "SIGXCPU"}
        /\ exit = "exit0" => how = IF program = "wrong" THEN "wrong" ELSE "right"
        /\ exit \in {"nonzero", "signal", "forbidden"} => how = exit
        /\ exit \in {"SIGKILL", "SIGXCPU"} => how = "selfkill"
    BY <2>2, <2>3, <2>4 DEF ExitStatuses
  <2>6. /\ Fate(how) /\ offspring' \in BOOLEAN
        /\ UNCHANGED <<settings, tally, pc, caged, program, elapsed, timer>>
    BY <1>12, <1>t DEF ProgramEnds
  <2> HIDE DEF how
  <2> QED
    BY <1>10, <2>1, <2>3, <2>4, <2>5, <2>6
<1>13. ASSUME OomKill  PROVE RunInv'
  BY <1>10, <1>13, <1>t DEF OomKill, Fates
<1>14. ASSUME Tick  PROVE RunInv'
  <2>1. /\ pc = "running" /\ elapsed' \in 0 .. Deadline
        /\ UNCHANGED <<settings, tally, story, pc, child, direct, caged, program, offspring, timer>>
    BY <1>14, <1>d, <1>t DEF Tick
  <2>2. ExitInv'
    BY <2>1, <1>8 DEF ExitInv, tally
  <2> QED
    BY <2>1, <2>2, <1>8, <1>t, RunningLemma
<1>15. ASSUME Timeout  PROVE RunInv'
  <2>1. /\ pc = "running" /\ ~timer /\ timer' = TRUE /\ elapsed >= Deadline /\ KillDirect
        /\ UNCHANGED <<settings, tally, pc, caged, program, offspring, elapsed>>
    BY <1>15 DEF Timeout
  <2>2. /\ direct' = IF direct = "alive" THEN "SIGKILL" ELSE direct
        /\ child' \in {child, "gone"}
        /\ story' = [story EXCEPT ![current].late = TRUE,
                                  ![current].how = IF child # "gone" /\ child' = "gone"
                                                   THEN "killed" ELSE @]
    BY <2>1 DEF KillDirect
  <2>3. /\ story' \in [Case -> [how : Fates, late : BOOLEAN]]
        /\ \A c \in Case : c # current => story'[c] = story[c]
        /\ story'[current].late
        /\ child = "gone" => story'[current].how = story[current].how
    <3>1. PICK h : /\ h = IF child # "gone" /\ child' = "gone"
                          THEN "killed" ELSE story[current].how
                   /\ story' = [story EXCEPT ![current].late = TRUE, ![current].how = h]
      BY <2>2, <1>t
    <3>2. h \in Fates /\ (child = "gone" => h = story[current].how)
      BY <2>1, <3>1, <1>8, <1>t DEF Fates
    <3> QED
      BY <2>1, <3>1, <3>2, <1>8, <1>t
  <2>4. current' = current
    BY <2>1 DEF tally
  <2>5. ExitInv'
    BY <2>1, <2>2, <2>3, <2>4, <1>8 DEF ExitInv
  <2> QED
    BY <2>1, <2>2, <2>3, <2>5, <1>8, <1>t, RunningLemma
<1>16. ASSUME UNCHANGED judgeVars  PROVE RunInv'
  <2>1. TypeOK'
    <3>1. UNCHANGED <<settings, tally>> /\ UNCHANGED process /\ pc' = pc /\ story' = story
      BY <1>16 DEF judgeVars, settings, tally, process
    <3>2. /\ child' \in {"none", "started", "joined", "jailed", "filtered", "program", "gone"}
          /\ direct' \in {"none", "alive", "exit0", "nonzero", "signal", "forbidden", "SIGKILL", "SIGXCPU"}
          /\ caged' \in BOOLEAN /\ timer' \in BOOLEAN /\ offspring' \in BOOLEAN
          /\ program' \in Behaviour \cup {"none"} /\ elapsed' \in 0 .. Deadline
      BY <1>p, <3>1
    <3>3. /\ pc' \in {"prepare", "compile", "overrun", "launch", "running", "done"}
          /\ pc' = "running" => direct' # "none"
      BY <3>1 DEF process, RunInv, TypeOK
    <3>4. story' \in [Case -> [how : Fates, late : BOOLEAN]]
      BY <3>1, <1>t
    <3> QED
      BY <1>s, <3>1, <3>2, <3>3, <3>4 DEF TypeOK, Fates
  <2>2. ProcessInv' /\ TallyInv'
    BY <1>16 DEF judgeVars, RunInv, ProcessInv, ExitInv, TallyInv, Right
  <2>3. AcceptedIsEarned' /\ FirstFailureDecides'
    BY <1>16 DEF judgeVars, RunInv, AcceptedIsEarned, FirstFailureDecides, Explains, Right
  <2> QED
    BY <2>1, <2>2, <2>3 DEF RunInv
<1> QED
  BY <1>2, <1>3, <1>4, <1>5, <1>6, <1>7, <1>9, <1>11, <1>12, <1>13, <1>14, <1>15, <1>16
     DEF Next, Worker, Child

LEMMA RunInvariant == Spec => []RunInv
<1> QED
  BY RunInit, RunNext, PTL DEF Spec

-----------------------------------------------------------------------------
(***************************************************************************)
(* The theorems.                                                           *)
(***************************************************************************)

\* Every variable of JudgeRun keeps its type.
THEOREM RunTypes == Spec => []TypeOK
<1>1. RunInv => TypeOK
  BY DEF RunInv
<1> QED
  BY <1>1, RunInvariant, PTL

\* A submission is accepted only if its program solved every case, and gets part
\* of the score only if it solved one and not all were counted.
THEOREM AcceptedRightly == Spec => []AcceptedIsEarned
<1>1. RunInv => AcceptedIsEarned
  BY DEF RunInv
<1> QED
  BY <1>1, RunInvariant, PTL

\* Outside of IOI contests the first case that did not pass decides the verdict: Time
\* Limit Exceeded comes from the deadline, from a kill for memory, or from a program that
\* ends itself by SIGKILL or SIGXCPU, and from nothing else.
THEOREM FirstFailureVerdict == Spec => []FirstFailureDecides
<1>1. RunInv => FirstFailureDecides
  BY DEF RunInv
<1> QED
  BY <1>1, RunInvariant, PTL
-----------------------------------------------------------------------------
(***************************************************************************)
(* The score of an IOI contest.  While the loop runs, the count lies       *)
(* between the cases behind the current one that were solved in time and   *)
(* all that were solved.                                                   *)
(***************************************************************************)

\* The cases that JudgeTask has finished with.
Behind == IF pc = "done" THEN Case ELSE 1 .. current - 1

SolvedIn(S) == {c \in S : Right(c)}

SolvedInTime(S) == {c \in S : Right(c) /\ ~story[c].late}

CountInv ==
  rule = "IOI" => /\ passed <= Cardinality(SolvedIn(Behind))
                  /\ passed >= Cardinality(SolvedInTime(Behind))

\* Of finitely many cases finitely many are solved.
LEMMA SolvedFinite ==
  ASSUME TypeOK
  PROVE  \A S \in SUBSET Case :
           /\ IsFiniteSet(SolvedIn(S)) /\ Cardinality(SolvedIn(S)) \in Nat
           /\ IsFiniteSet(SolvedInTime(S)) /\ Cardinality(SolvedInTime(S)) \in Nat
<1> SUFFICES ASSUME NEW S \in SUBSET Case
             PROVE  /\ IsFiniteSet(SolvedIn(S)) /\ Cardinality(SolvedIn(S)) \in Nat
                    /\ IsFiniteSet(SolvedInTime(S)) /\ Cardinality(SolvedInTime(S)) \in Nat
  OBVIOUS
<1>1. IsFiniteSet(Case)
  BY FS_Interval, JudgeRunAssumption DEF Case, JudgeRunAssumption
<1>2. SolvedIn(S) \in SUBSET Case /\ SolvedInTime(S) \in SUBSET Case
  BY DEF SolvedIn, SolvedInTime
<1>3. IsFiniteSet(SolvedIn(S)) /\ IsFiniteSet(SolvedInTime(S))
  BY <1>1, <1>2, FS_Subset
<1> QED
  BY <1>3, FS_CardinalityType

\* A step that leaves the loop and the story of the cases behind alone.
LEMMA CountStays ==
  ASSUME RunInv, CountInv, UNCHANGED <<rule, current, passed>>,
         pc # "done", pc' # "done",
         \A c \in Case : c # current => story'[c] = story[c]
  PROVE  CountInv'
<1>1. current \in Case
  BY Zenon DEF RunInv, TypeOK
<1>2. Behind' = Behind /\ \A c \in Behind : c \in Case /\ c # current
  BY <1>1, JudgeRunAssumption DEF Behind, Case, JudgeRunAssumption
<1>3. SolvedIn(Behind)' = SolvedIn(Behind) /\ SolvedInTime(Behind)' = SolvedInTime(Behind)
  BY <1>2 DEF SolvedIn, SolvedInTime, Right
<1> QED
  BY <1>3 DEF CountInv

\* When a case ends, its status tells whether it is counted; the status explains
\* what became of it, so a case counted was solved, and one not counted was not
\* solved in time.
LEMMA CountMoves ==
  ASSUME RunInv, CountInv, pc # "done",
         NEW status \in Statuses, NEW msg, CaseEnds(status, msg), UNCHANGED settings,
         \A c \in Case : c # current => story'[c] = story[c],
         \A c \in Case : c = current => Explains(c, status)'
  PROVE  CountInv'
<1> SUFFICES ASSUME rule = "IOI"
             PROVE  /\ passed' <= Cardinality(SolvedIn(Behind)')
                    /\ passed' >= Cardinality(SolvedInTime(Behind)')
  BY DEF CountInv, settings
<1> DEFINE B == 1 .. current - 1
           all == SolvedIn(B)
           timely == SolvedInTime(B)
<1>1. TypeOK /\ current \in Case /\ CaseCount \in Nat \ {0} /\ passed \in Nat
  <2>1. TypeOK /\ current \in Case /\ passed \in 0 .. CaseCount
    BY Zenon DEF RunInv, TypeOK
  <2> QED
    BY <2>1, JudgeRunAssumption DEF JudgeRunAssumption
<1>2. Behind = B /\ B \subseteq Case /\ current \notin B
  BY <1>1 DEF Behind, Case
<1>3. Behind' = B \cup {current}
  BY <1>1 DEF Behind, CaseEnds, NextCase, Case
<1>4. /\ passed <= Cardinality(all) /\ passed >= Cardinality(timely)
      /\ IsFiniteSet(all) /\ Cardinality(all) \in Nat
      /\ IsFiniteSet(timely) /\ Cardinality(timely) \in Nat
  BY <1>1, <1>2, SolvedFinite DEF CountInv
<1>5. PICK k \in Case : k = current
  BY <1>1
<1>6. \A c \in B : c \in Case /\ c # current /\ story'[c] = story[c]
  BY <1>2
<1>7. /\ SolvedIn(Behind)' = {c \in B \cup {k} : Right(c)'}
      /\ SolvedInTime(Behind)' = {c \in B \cup {k} : Right(c)' /\ ~story'[c].late}
  BY <1>3, <1>5 DEF SolvedIn, SolvedInTime
<1>8. \A c \in B : (c \in all <=> Right(c)')
                  /\ (c \in timely <=> Right(c)' /\ ~story'[c].late)
  BY <1>6 DEF SolvedIn, SolvedInTime, Right
<1>9. all \subseteq B /\ timely \subseteq B /\ k \notin B
  BY <1>2, <1>5 DEF SolvedIn, SolvedInTime
<1>10. Explains(k, status)'
  BY <1>5
<1> HIDE DEF B, all, timely
<1>11. CASE status = "Accepted"
  <2>1. passed' = passed + 1
    BY <1>11 DEF CaseEnds, Counted
  <2>2. Right(k)'
    BY <1>10, <1>11 DEF Explains
  <2>3. SolvedIn(Behind)' = all \cup {k}
    BY <1>7, <1>8, <1>9, <2>2
  <2>4. Cardinality(all \cup {k}) = Cardinality(all) + 1
    BY <1>4, <1>9, FS_AddElement
  <2>5. IsFiniteSet(timely \cup {k}) /\ Cardinality(timely \cup {k}) = Cardinality(timely) + 1
    BY <1>4, <1>9, FS_AddElement
  <2>6. SolvedInTime(Behind)' \subseteq timely \cup {k}
    BY <1>7, <1>8
  <2>7. /\ Cardinality(SolvedInTime(Behind)') <= Cardinality(timely \cup {k})
        /\ Cardinality(SolvedInTime(Behind)') \in Nat
    BY <2>5, <2>6, FS_Subset, FS_CardinalityType
  <2> QED
    BY <1>1, <1>4, <2>1, <2>3, <2>4, <2>5, <2>7
<1>12. CASE status # "Accepted"
  <2>1. passed' = passed
    BY <1>12 DEF CaseEnds, Counted
  <2>2. ~(Right(k)' /\ ~story'[k].late)
    BY <1>10, <1>12 DEF Explains, Right, Statuses
  <2>3. SolvedInTime(Behind)' = timely
    BY <1>7, <1>8, <1>9, <2>2
  <2>4. IsFiniteSet(all \cup {k}) /\ all \subseteq SolvedIn(Behind)'
        /\ SolvedIn(Behind)' \subseteq all \cup {k}
    BY <1>4, <1>7, <1>8, <1>9, FS_AddElement
  <2>5. IsFiniteSet(SolvedIn(Behind)')
    BY <2>4, FS_Subset
  <2>6. /\ Cardinality(all) <= Cardinality(SolvedIn(Behind)')
        /\ Cardinality(SolvedIn(Behind)') \in Nat
    BY <2>4, <2>5, FS_Subset, FS_CardinalityType
  <2> QED
    BY <1>1, <1>4, <2>1, <2>3, <2>6
<1> QED
  BY <1>11, <1>12

\* Every step keeps the count between its bounds.
LEMMA CountNext == RunInv /\ CountInv /\ [Next]_judgeVars => CountInv'
<1> SUFFICES ASSUME RunInv, CountInv, [Next]_judgeVars  PROVE CountInv'
  OBVIOUS
<1>t. ProcessInv
  BY DEF RunInv
<1>1. ASSUME Prepare \/ Compile \/ CompileOverruns \/ Launch  PROVE CountInv'
  <2>1. /\ pc # "done" /\ pc' # "done" /\ UNCHANGED <<settings, tally, story>>
    BY <1>1 DEF Prepare, Compile, CompileOverruns, Launch
  <2> QED
    BY <2>1, CountStays DEF settings, tally
<1>2. ASSUME PrepareFails \/ CompileFails \/ OverrunEnds \/ LaunchFails  PROVE CountInv'
  <2>1. PICK how \in {"setup", "compile"}, msg \in Message :
          /\ pc \in {"prepare", "compile", "overrun", "launch"}
          /\ Fate(how) /\ UNCHANGED settings
          /\ CaseEnds(IF how = "setup" THEN "Runtime Error" ELSE "Compile Error", msg)
    BY <1>2 DEF PrepareFails, CompileFails, OverrunEnds, CompileError, LaunchFails, Message
  <2>2. PICK status \in Statuses :
          status = IF how = "setup" THEN "Runtime Error" ELSE "Compile Error"
    BY DEF Statuses
  <2>3. /\ \A c \in Case : c # current => story'[c] = story[c]
        /\ story'[current].how = how
    BY <2>1, FateLemma DEF Fates
  <2>4. \A c \in Case : c = current => Explains(c, status)'
    BY <2>2, <2>3 DEF Explains
  <2> QED
    BY <2>1, <2>2, <2>3, <2>4, CountMoves
<1>3. ASSUME RunReturns  PROVE CountInv'
  <2>1. /\ pc # "done" /\ UNCHANGED <<settings, story>>
    BY <1>3 DEF RunReturns
  <2>2. PICK status \in Statuses, msg \in Message :
          /\ CaseEnds(status, msg)
          /\ \A c \in Case : c = current => Explains(c, status)'
    BY <1>3, ReturnExplained
  <2> QED
    BY <2>1, <2>2, CountMoves
\* The program and the clock change nothing but the fate of the current case.
<1>4. ASSUME Child \/ Tick \/ Timeout  PROVE CountInv'
  <2>1. pc = "running" /\ pc' = pc /\ UNCHANGED <<settings, tally>>
    BY <1>4, <1>t DEF Child, JoinCgroup, EnterJail, ApplySeccomp, SetupFails, Exec, Fork,
                      ProgramEnds, OomKill, Tick, Timeout, ProcessInv
  <2>2. \A c \in Case : c # current => story'[c] = story[c]
    <3>1. story \in [Case -> [how : Fates, late : BOOLEAN]]
      BY Zenon DEF RunInv, TypeOK, Fates
    <3>2. CASE UNCHANGED story
      BY <3>2
    <3>3. CASE \E how : Fate(how)
      BY <3>1, <3>3 DEF Fate
    <3>4. CASE KillDirect
      BY <3>1, <3>4 DEF KillDirect
    <3> QED
      BY <1>4, <3>2, <3>3, <3>4 DEF Child, JoinCgroup, EnterJail, ApplySeccomp,
           SetupFails, Exec, Fork, ProgramEnds, OomKill, Tick, Timeout
  <2> QED
    BY <2>1, <2>2, CountStays DEF settings, tally
<1>5. ASSUME UNCHANGED judgeVars  PROVE CountInv'
  BY <1>5 DEF judgeVars, CountInv, Behind, SolvedIn, SolvedInTime, Right
<1> QED
  BY <1>1, <1>2, <1>3, <1>4, <1>5 DEF Next, Worker

\* The score of a submission to an IOI contest counts what its program solved in
\* time and nothing it did not solve.
THEOREM ScoreCountsSolved == Spec => []ScoreIsCount
<1>1. Init => CountInv
  <2> SUFFICES ASSUME Init PROVE CountInv
    OBVIOUS
  <2>1. passed = 0 /\ Behind = {}
    BY DEF Init, Behind
  <2>2. SolvedIn(Behind) = {} /\ SolvedInTime(Behind) = {}
    BY <2>1 DEF SolvedIn, SolvedInTime
  <2> QED
    BY <2>1, <2>2, FS_EmptySet DEF CountInv
<1>2. CountInv => ScoreIsCount
  <2> SUFFICES ASSUME CountInv, pc = "done", rule = "IOI"  PROVE ScoreIsCount
    BY DEF ScoreIsCount
  <2>1. Behind = Case
    BY DEF Behind
  <2>2. /\ passed <= Cardinality(SolvedIn(Case))
        /\ passed >= Cardinality(SolvedInTime(Case))
    BY <2>1 DEF CountInv
  <2> QED
    BY <2>2 DEF ScoreIsCount, SolvedIn, SolvedInTime
<1> QED
  BY <1>1, <1>2, CountNext, RunInvariant, PTL DEF Spec
=============================================================================
