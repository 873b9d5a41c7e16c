--------------------------- MODULE SubmissionStream ---------------------------
(***************************************************************************)
(* Pages that wait for the verdict of one submission: SubmissionDetail.vue *)
(* loads the submission and, while it is pending, reads the event stream   *)
(* of StreamEvents (internal/handler/submission.go), which reads the row,  *)
(* sends it, and only then subscribes to the channel that                  *)
(* publishSubmissionStatus (internal/worker/worker.go) publishes to.       *)
(* Redis keeps no message for who is not subscribed; the in-memory         *)
(* fallback delivers none at all.  The server (cmd/server/main.go) sends   *)
(* nothing on a stream that is older than its WriteTimeout of 120 s, and   *)
(* the page does not connect again.                                        *)
(*                                                                         *)
(* The judging side is VerdictSource, which JudgePipeline implements.      *)
(***************************************************************************)
EXTENDS VerdictSource, Sequences

CONSTANTS
  Page,         \* open pages of the submission
  MaxDbErrors,  \* bound: refused writes
  MaxRepeats,   \* bound: rejudges, attempts that stop, tasks lost or judged twice
  MaxLosses,    \* bound: messages lost on the way, and streams that become too old
  MaxLeaves,    \* bound: pages that are left
  RedisUp       \* rdb # nil: Pub/Sub is Redis, not the in-memory fallback

ASSUME StreamAssumption ==
  /\ {"pending", "judging", "No Test Cases", "none"} \cap Verdict = {}
  /\ MaxDbErrors \in Nat /\ MaxRepeats \in Nat /\ MaxLosses \in Nat /\ MaxLeaves \in Nat
  /\ RedisUp \in BOOLEAN

VARIABLES
  page,      \* page[g]: what page g is doing
  shown,     \* shown[g]: the status it shows
  seen,      \* seen[g]: the status its StreamEvents call read
  mailbox,   \* mailbox[g]: messages of its subscription, not yet sent
  repeats, losses, leaves,   \* how much of the bounds is used
  late,      \* pages whose stream is older than WriteTimeout
  told,      \* history: verdicts written or published so far
  silent,    \* history: since it was last put in the queue, a judging of the submission
             \* ended without a message, or its row could not be written
  unheard    \* history: pages that did not get a message published while they
             \* connected or were subscribed, since it was last put in the queue

pageVars == <<page, shown, seen, mailbox>>
history == <<told, silent, unheard>>
vars == <<sourceVars, pageVars, repeats, losses, leaves, late, history>>

Final == Verdict \cup {"No Test Cases"}

Init ==
  /\ SourceInit
  /\ page = [g \in Page |-> "closed"]
  /\ shown = [g \in Page |-> "none"]
  /\ seen = [g \in Page |-> "none"]
  /\ mailbox = [g \in Page |-> <<>>]
  /\ repeats = 0 /\ losses = 0 /\ leaves = 0
  /\ late = {} /\ told = {} /\ silent = FALSE /\ unheard = {}

-----------------------------------------------------------------------------
(***************************************************************************)
(* The judging side.                                                       *)
(***************************************************************************)

\* A verdict may yet be published.
Unpublished == tasks = "waiting" \/ ~AllIdle

Subscribed == {g \in Page : page[g] = "waiting"}

\* Pages that have read the row and do not listen yet.
Connecting == {g \in Page : page[g] \in {"sending", "subscribing"}}

\* Judging goes its way; without test cases it ends without a message, and a row that
\* could not be written is not announced to who reads it later.
Judging(w) ==
  /\ \/ Start(w) /\ UNCHANGED silent
     \/ \E v \in Verdict : WriteVerdict(w, v) /\ UNCHANGED silent
     \/ NoTestCases(w) /\ silent' = TRUE
     \/ \E v \in Verdict : WriteError(w, v) /\ silent' = TRUE
  /\ dbErrors' <= MaxDbErrors
  /\ repeats' = IF stage[w] = "idle" /\ tasks' = "waiting" THEN repeats + 1 ELSE repeats
  /\ repeats' <= MaxRepeats
  /\ told' = told \cup ({found'[w]} \ {"none"})
  /\ UNCHANGED <<pageVars, losses, leaves, late, unheard>>

\* A verdict is asked for, or the judging is disturbed.
Disturbance ==
  /\ \/ (Submit \/ ReJudge) /\ silent' = FALSE /\ unheard' = {}
     \/ (ReJudgeError \/ OtherError) /\ UNCHANGED <<silent, unheard>>
     \/ \E W \in SUBSET Worker :
          Stop(W) /\ silent' = (silent \/ tasks' # "waiting") /\ UNCHANGED unheard
  /\ dbErrors' <= MaxDbErrors
  /\ repeats' = IF row = "none" \/ dbErrors' # dbErrors THEN repeats ELSE repeats + 1
  /\ repeats' <= MaxRepeats
  /\ UNCHANGED <<pageVars, losses, leaves, late, told>>

\* The message of w reaches the pages of G among those that wait for one.
SendTo(w, G) ==
  /\ PublishStatus(w)
  /\ mailbox' = [g \in Page |-> IF g \in G THEN Append(mailbox[g], found[w]) ELSE mailbox[g]]
  /\ unheard' = unheard \cup ((Subscribed \cup Connecting) \ G)
  /\ UNCHANGED <<page, shown, seen, repeats, leaves, late, told, silent>>

\* Mutant of Deliver: only one subscriber gets the message.
DeliverToOne(w) ==
  /\ PublishStatus(w)
  /\ mailbox' = [g \in Page |-> IF RedisUp /\ Subscribed # {} /\ g = CHOOSE h \in Subscribed : TRUE
                                THEN Append(mailbox[g], found[w]) ELSE mailbox[g]]
  /\ unheard' = unheard \cup Connecting
  /\ UNCHANGED <<page, shown, seen, repeats, losses, leaves, late, told, silent>>

\* publishSubmissionStatus: whoever is subscribed gets the message, with Redis.
Deliver(w) == SendTo(w, IF RedisUp THEN Subscribed ELSE {}) /\ UNCHANGED losses

\* PUBLISH fails, and nobody looks at its error, or the connection of some subscribers
\* to Redis is down when the message comes.
DeliverError(w) ==
  /\ RedisUp /\ losses < MaxLosses
  /\ losses' = losses + 1
  /\ \E G \in SUBSET Subscribed : SendTo(w, G)

-----------------------------------------------------------------------------
(***************************************************************************)
(* The page and its stream.                                                *)
(***************************************************************************)

\* onMounted: GET /submissions/:id; a page that shows a final status is done.
Open(g) ==
  /\ page[g] = "closed" /\ row # "none"
  /\ shown' = [shown EXCEPT ![g] = row]
  /\ page' = [page EXCEPT ![g] = IF row = "pending" THEN "connecting" ELSE "done"]
  /\ unheard' = unheard \ {g}
  /\ UNCHANGED <<sourceVars, seen, mailbox, repeats, losses, leaves, late, told, silent>>

\* StreamEvents: database.DB.First ...
ReadRow(g) ==
  /\ page[g] = "connecting"
  /\ seen' = [seen EXCEPT ![g] = row]
  /\ page' = [page EXCEPT ![g] = "sending"]
  /\ UNCHANGED <<sourceVars, shown, mailbox, repeats, losses, leaves, late, history>>

\* The page shows the event that ends its stream, unless the stream is too old.
EndStream(g) == page' = [page EXCEPT ![g] = IF g \in late THEN "broken" ELSE "done"]

Show(g, status) == shown' = IF g \in late THEN shown ELSE [shown EXCEPT ![g] = status]

\* Mutant of SendRow: the test for a final status is the wrong way round.
SendRowInverted(g) ==
  /\ page[g] = "sending"
  /\ Show(g, seen[g])
  /\ IF seen[g] # "pending" THEN page' = [page EXCEPT ![g] = "subscribing"] ELSE EndStream(g)
  /\ UNCHANGED <<sourceVars, seen, mailbox, repeats, losses, leaves, late, history>>

\* ... the event with what it read, and the end of the stream if that is final ...
SendRow(g) ==
  /\ page[g] = "sending"
  /\ Show(g, seen[g])
  /\ IF seen[g] = "pending" THEN page' = [page EXCEPT ![g] = "subscribing"] ELSE EndStream(g)
  /\ UNCHANGED <<sourceVars, seen, mailbox, repeats, losses, leaves, late, history>>

\* ... and cache.Subscribe, after which the row is not read again.
Subscribe(g) ==
  /\ page[g] = "subscribing"
  /\ page' = [page EXCEPT ![g] = "waiting"]
  /\ UNCHANGED <<sourceVars, shown, seen, mailbox, repeats, losses, leaves, late, history>>

\* Mutant of Receive: the stream stays open after a final status.
ReceiveOn(g) ==
  /\ page[g] = "waiting" /\ mailbox[g] # <<>>
  /\ Show(g, Head(mailbox[g]))
  /\ mailbox' = [mailbox EXCEPT ![g] = Tail(@)]
  /\ UNCHANGED <<sourceVars, page, seen, repeats, losses, leaves, late, history>>

\* A message is sent to the page, and a final one ends the stream, as does a failing
\* write, which cancels the context of the request.
Receive(g) ==
  /\ page[g] = "waiting" /\ mailbox[g] # <<>>
  /\ Show(g, Head(mailbox[g]))
  /\ IF Head(mailbox[g]) \in {"pending", "judging"} /\ g \notin late
     THEN /\ mailbox' = [mailbox EXCEPT ![g] = Tail(@)]
          /\ UNCHANGED page
     ELSE /\ mailbox' = [mailbox EXCEPT ![g] = <<>>]
          /\ EndStream(g)
  /\ UNCHANGED <<sourceVars, seen, repeats, losses, leaves, late, history>>

\* WriteTimeout passes: from now on every write to the page fails.
TimeOut(g) ==
  /\ page[g] \in {"sending", "subscribing", "waiting"} /\ g \notin late
  /\ losses < MaxLosses
  /\ losses' = losses + 1
  /\ late' = late \cup {g}
  /\ UNCHANGED <<sourceVars, pageVars, repeats, leaves, history>>

\* The reader leaves the page, or doRejudge opens its stream again.
LeavePage(g) ==
  /\ page[g] # "closed"
  /\ leaves < MaxLeaves
  /\ leaves' = leaves + 1
  /\ page' = [page EXCEPT ![g] = "closed"]
  /\ shown' = [shown EXCEPT ![g] = "none"]
  /\ mailbox' = [mailbox EXCEPT ![g] = <<>>]
  /\ late' = late \ {g}
  /\ UNCHANGED <<sourceVars, seen, repeats, losses, history>>

StreamStep(g) == ReadRow(g) \/ SendRow(g) \/ Subscribe(g) \/ Receive(g)

Next ==
  \/ \E w \in Worker : Judging(w) \/ Deliver(w) \/ DeliverError(w)
  \/ Disturbance
  \/ \E g \in Page : Open(g) \/ StreamStep(g) \/ TimeOut(g) \/ LeavePage(g)

Spec == Init /\ [][Next]_vars

\* Goroutines take a task that waits and finish it (JudgeQueue says when they do not),
\* and the stream runs.
Fairness ==
  /\ \A w \in Worker : WF_vars(Judging(w) \/ Deliver(w))
  /\ \A g \in Page : WF_vars(StreamStep(g))

FairSpec == Spec /\ Fairness

-----------------------------------------------------------------------------
(***************************************************************************)
(* Properties.                                                             *)
(***************************************************************************)

RowStatus == Final \cup {"none", "pending"}

\* Every variable has its type; a goroutine has a verdict while it publishes, no task
\* is gone that one still judges, and only a waiting page has messages.
TypeOK ==
  /\ row \in RowStatus /\ tasks \in {"none", "held", "waiting"} /\ dbErrors \in Nat
  /\ stage \in [Worker -> {"idle", "judge", "publish"}]
  /\ found \in [Worker -> Verdict \cup {"none"}]
  /\ row = "none" => tasks = "none"
  /\ tasks = "none" => AllIdle
  /\ page \in [Page -> {"closed", "connecting", "sending", "subscribing", "waiting", "done", "broken"}]
  /\ shown \in [Page -> RowStatus]
  /\ seen \in [Page -> RowStatus]
  /\ mailbox \in [Page -> Seq(Verdict)]
  /\ \A g \in Page : mailbox[g] # <<>> => page[g] = "waiting"
  /\ late \subseteq Page /\ told \subseteq Verdict
  /\ silent \in BOOLEAN /\ unheard \subseteq Page

\* A page that waits has a message to come: one is in its mailbox, or a goroutine or a
\* task will publish one, unless a message was published while it connected or failed to
\* reach it, or a judging ended without a message or without its row.  It needs the row
\* to be written before the message goes out, and every subscriber to get the message,
\* whatever is judged again or twice at a time.
WaitingIsOwed ==
  \A g \in Page : page[g] = "waiting" =>
    Unpublished \/ mailbox[g] # <<>> \/ g \in unheard \/ silent

\* A page that is done shows a final status that JudgeTask really found, or that
\* there were no test cases, even if a rejudge reset the row meanwhile.
DoneShowsVerdict ==
  \A g \in Page : page[g] = "done" => shown[g] \in told \cup {"No Test Cases"}

\* No page stays on its stream for ever, unless a message did not reach it or its stream
\* is too old, or a judging ended without a message or without its row.
PageLearnsVerdict ==
  \A g \in Page :
    []<>(\/ page[g] \in {"closed", "done"}
         \/ g \in late \/ g \in unheard \/ silent)

=============================================================================
