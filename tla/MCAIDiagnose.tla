---------------------------- MODULE MCAIDiagnose ----------------------------
(***************************************************************************)
(* An instance of AIDiagnose for TLC: one client, requests for the         *)
(* diagnosis and for another route that shares the counter, two slots.     *)
(***************************************************************************)
EXTENDS AIDiagnose

CONSTANTS c1, r1, r2, r3

OneClient == [r \in Request |-> c1]
Limits == [x \in Route |-> IF x = "diagnose" THEN 1 ELSE 2]

NoReference == [cases |-> {"disk"}, reference |-> FALSE, known |-> TRUE, data |-> TRUE,
                failing |-> TRUE, sample |-> "same"]
Faultless == [NoReference EXCEPT !.reference = TRUE]
Faulty == [cases |-> {"disk"}, reference |-> TRUE, known |-> TRUE, data |-> FALSE,
           failing |-> FALSE, sample |-> "wrong"]

Doubtful == [Faultless EXCEPT !.failing = FALSE]

FewProblems == {NoReference, Faultless, Faulty, Doubtful}

\* Three requests go through the limiter, with any one failure of Redis and any restart;
\* one of them is served.
LimiterFirst ==
  /\ faults <= 1 /\ mishaps = 0 /\ cut = {}
  /\ handler[r1].verdict \in {"none", "CE"}
  /\ \A r \in {r2, r3} : handler[r].verdict = "none"
  /\ \A r \in over : handler[r].at = "ended"

\* A diagnosis of a WA and one of a TLE pass the limiter while Redis does not answer, with
\* any one failure of the database or of a run, or a restart; the context of the first may
\* end early, and only for it the samples are checked late.
DiagnosisFirst ==
  /\ \A r \in Request : gate[r] = "passed" => r \in unchecked /\ route[r] = "diagnose"
  /\ \A c \in Client : count[c] = 0
  /\ mishaps + restarts <= 1
  /\ gate[r3] = "new"
  /\ Handling(r2) => r2 \notin over
  /\ page[r2] # "broken"
  /\ checker[r2] # "none" => handler[r2].at \in {"repair", "validate"}
  /\ handler[r1].verdict \in {"none", "WA"} /\ handler[r2].verdict \in {"none", "TLE"}

\* All three are diagnoses of a WA with its input, which overlap as far as the slots
\* allow, and whose first repair succeeds; one call or run may fail, or the server
\* restarts.  They start in order.
DuplicatesFirst ==
  /\ \A r \in Request : gate[r] = "passed" => r \in unchecked /\ route[r] = "diagnose"
  /\ \A c \in Client : count[c] = 0
  /\ mishaps + restarts <= 1
  /\ \A r \in Request :
       /\ handler[r].verdict \in {"none", "WA"} /\ (Handling(r) => handler[r].input)
       /\ handler[r].attempt <= 1
       /\ page[r] \in {"running", "done", "error"} /\ (r \in over => At(r, "ended"))
       /\ ~At(r, "hung") /\ (checker[r] = "spawned" => At(r, "repair"))
  /\ gate[r2] # "new" => gate[r1] # "new" /\ (At(r1, "none") => At(r2, "none"))
  /\ gate[r3] # "new" => gate[r2] # "new" /\ (At(r2, "none") => At(r3, "none"))

Bounds ==
  CASE problem = NoReference -> LimiterFirst
    [] problem = Doubtful    -> DuplicatesFirst
    [] OTHER                 -> DiagnosisFirst
=============================================================================
