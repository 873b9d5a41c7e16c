---------------------------- MODULE CircuitBreaker ----------------------------
(***************************************************************************)
(* The breaker in front of the LLM (internal/ai/breaker.go) and the        *)
(* requests that share it: the goroutine of StreamChat (internal/ai/       *)
(* client.go) asks Allow, calls the LLM, records the outcome and streams   *)
(* the answer, and streamLLM (internal/handler/ai_socratic_debugger.go)    *)
(* reads that stream to its end.  Any number of requests may be between    *)
(* Allow and the record of their outcome when the breaker changes state.   *)
(*                                                                         *)
(* Time is counted in ticks; ages stop growing at ResetTimeout, past which *)
(* nothing depends on them.                                                *)
(***************************************************************************)
EXTENDS Integers, Sequences, FiniteSets

CONSTANTS
  Request,       \* goroutines of StreamChat, each used again and again
  maxFails,      \* failures in a row that open the circuit
  resetTimeout,  \* ticks in OPEN before a probe
  MaxOutcomes    \* bound: outcomes recorded in a behaviour

ASSUME BreakerAssumption ==
  /\ maxFails \in Nat \ {0}
  /\ resetTimeout \in Nat \ {0}
  /\ MaxOutcomes \in Nat

VARIABLES
  state,             \* CLOSED, OPEN or HALF_OPEN
  consecutiveFails,
  sinceChange,       \* ticks since lastStateChange
  request,           \* request[r]: where StreamChat is
  answer,            \* answer[r]: what ended the stream that streamLLM read
  outcomes,          \* history: outcomes in the order they were recorded
  sinceFailure       \* history: ticks since lastFailureTime

breakerVars == <<state, consecutiveFails, sinceChange, outcomes, sinceFailure>>
vars == <<breakerVars, request, answer>>

States == {"CLOSED", "OPEN", "HALF_OPEN"}

Init ==
  /\ state = "CLOSED"
  /\ consecutiveFails = 0
  /\ sinceChange = 0
  /\ request = [r \in Request |-> "idle"]
  /\ answer = [r \in Request |-> "none"]
  /\ outcomes = <<>>
  /\ sinceFailure = resetTimeout

GoTo(r, place) == request' = [request EXCEPT ![r] = place]
Ends(r, chunk) == GoTo(r, "idle") /\ answer' = [answer EXCEPT ![r] = chunk]

-----------------------------------------------------------------------------
(***************************************************************************)
(* The breaker, under its mutex.                                           *)
(***************************************************************************)

\* What Allow answers.
Allowed == state = "OPEN" => sinceChange = resetTimeout

\* Allow turns an OPEN circuit whose time is up into HALF_OPEN; HALF_OPEN lets
\* everyone pass.
Admit ==
  /\ Allowed
  /\ \/ /\ state = "OPEN"
        /\ state' = "HALF_OPEN" /\ sinceChange' = 0
     \/ state # "OPEN" /\ UNCHANGED <<state, sinceChange>>
  /\ UNCHANGED <<consecutiveFails, outcomes, sinceFailure>>

\* Mutant of RecordSuccess: the count of failures is kept.
CloseOnly ==
  /\ outcomes' = Append(outcomes, "ok")
  /\ state' = "CLOSED" /\ sinceChange' = 0
  /\ UNCHANGED <<consecutiveFails, sinceFailure>>

RecordSuccess ==
  /\ outcomes' = Append(outcomes, "ok")
  /\ consecutiveFails' = 0
  /\ state' = "CLOSED" /\ sinceChange' = 0
  /\ UNCHANGED sinceFailure

\* Mutant of RecordFailure: the time of the change is only set when the state does
\* change, inside the condition that guards the log line.
RecordFailureOnce ==
  /\ outcomes' = Append(outcomes, "fail")
  /\ consecutiveFails' = consecutiveFails + 1
  /\ sinceFailure' = 0
  /\ \/ consecutiveFails' >= maxFails /\ state # "OPEN" /\ state' = "OPEN" /\ sinceChange' = 0
     \/ /\ consecutiveFails' < maxFails \/ state = "OPEN"
        /\ UNCHANGED <<state, sinceChange>>

\* The circuit opens, or stays open for another resetTimeout.
RecordFailure ==
  /\ outcomes' = Append(outcomes, "fail")
  /\ consecutiveFails' = consecutiveFails + 1
  /\ sinceFailure' = 0
  /\ IF consecutiveFails' >= maxFails \/ state = "HALF_OPEN"
     THEN state' = "OPEN" /\ sinceChange' = 0
     ELSE UNCHANGED <<state, sinceChange>>

-----------------------------------------------------------------------------
(***************************************************************************)
(* StreamChat and its reader.                                              *)
(***************************************************************************)

\* streamLLM starts the goroutine.
Ask(r) ==
  /\ request[r] = "idle"
  /\ Len(outcomes) + Cardinality({q \in Request : request[q] \in {"asked", "calling"}}) < MaxOutcomes
  /\ GoTo(r, "asked")
  /\ answer' = [answer EXCEPT ![r] = "none"]
  /\ UNCHANGED breakerVars

\* Allow lets the request through to the LLM.
Call(r) ==
  /\ request[r] = "asked"
  /\ Admit
  /\ GoTo(r, "calling")
  /\ UNCHANGED answer

\* Mutant of Refuse: a refused request starts the timeout anew.
RefuseAndRestart(r) ==
  /\ request[r] = "asked"
  /\ ~Allowed
  /\ Ends(r, "degraded")
  /\ sinceChange' = 0
  /\ UNCHANGED <<state, consecutiveFails, outcomes, sinceFailure>>

\* Otherwise it answers with DegradedMessage and Done.
Refuse(r) ==
  /\ request[r] = "asked"
  /\ ~Allowed
  /\ Ends(r, "degraded")
  /\ UNCHANGED breakerVars

\* The call fails: an unusable request, a network error, the 90 seconds of streamLLM
\* or the client's departure, or a status other than 200.
Fail(r) ==
  /\ request[r] = "calling"
  /\ RecordFailure
  /\ Ends(r, "error")

\* Status 200 counts as success, whatever becomes of the stream.
Succeed(r) ==
  /\ request[r] = "calling"
  /\ RecordSuccess
  /\ GoTo(r, "streaming")
  /\ UNCHANGED answer

\* The stream ends: with [DONE] or EOF, with a read error, or cut off by the context,
\* in which case the channel is closed without a last chunk.
StreamEnds(r) ==
  /\ request[r] = "streaming"
  /\ \E chunk \in {"done", "error", "closed"} : Ends(r, chunk)
  /\ UNCHANGED breakerVars

Advance(age) == IF age < resetTimeout THEN age + 1 ELSE age

Tick ==
  /\ sinceChange < resetTimeout \/ sinceFailure < resetTimeout
  /\ sinceChange' = Advance(sinceChange)
  /\ sinceFailure' = Advance(sinceFailure)
  /\ UNCHANGED <<state, consecutiveFails, outcomes, request, answer>>

\* One step of the goroutine.
Serve(r) == Call(r) \/ Refuse(r) \/ Fail(r) \/ Succeed(r) \/ StreamEnds(r)

Next == Tick \/ \E r \in Request : Ask(r) \/ Serve(r)

Spec == Init /\ [][Next]_vars

\* Time passes, and a call ends within the 90 seconds of its context.
Fairness == WF_vars(Tick) /\ \A r \in Request : WF_vars(Serve(r))

FairSpec == Spec /\ Fairness

-----------------------------------------------------------------------------
(***************************************************************************)
(* Properties.                                                             *)
(***************************************************************************)

\* Every variable keeps its range, and no failure is counted that was not recorded.
TypeOK ==
  /\ state \in States
  /\ sinceChange \in 0 .. resetTimeout /\ sinceFailure \in 0 .. resetTimeout
  /\ request \in [Request -> {"idle", "asked", "calling", "streaming"}]
  /\ answer \in [Request -> {"none", "degraded", "error", "done", "closed"}]
  /\ outcomes \in Seq({"ok", "fail"})
  /\ consecutiveFails \in 0 .. Len(outcomes)

\* The last maxFails outcomes, of whichever requests, were all failures.
FailuresInARow ==
  /\ Len(outcomes) >= maxFails
  /\ \A i \in Len(outcomes) - maxFails + 1 .. Len(outcomes) : outcomes[i] = "fail"

\* The circuit is closed unless the last maxFails outcomes that were recorded were
\* failures, however late they came in: no stale count opens it, no failed probe
\* closes it, and HALF_OPEN needs no rule of its own (RecordSuccess, RecordFailure).
TripsOnFailuresInARow == state # "CLOSED" <=> FailuresInARow

\* A request passes an OPEN circuit only when no failure at all has been recorded for
\* a whole resetTimeout: late failures of earlier requests put the probe off (Allow).
ProbeWaits ==
  [][\A r \in Request : (request[r] = "asked" /\ request'[r] = "calling" /\ state = "OPEN")
                           => sinceFailure = resetTimeout]_vars

\* An OPEN circuit does not stay shut: a moment comes when a request would pass, no
\* matter how many were refused meanwhile (Allow, RecordFailure).
OpenIsTemporary == state = "OPEN" ~> Allowed
=============================================================================
