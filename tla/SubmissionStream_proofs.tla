----------------------- MODULE SubmissionStream_proofs -----------------------
(***************************************************************************)
(* What holds of the live submission status for every number of pages and  *)
(* goroutines and every set of verdicts, with Redis and without: type      *)
(* correctness, that a waiting page has a message to come, and that a page *)
(* that is done shows a status the judge really found.                     *)
(***************************************************************************)
EXTENDS SubmissionStream, TLAPS

Known == told \cup {"No Test Cases"}

\* The part of TypeOK that is about the judging side.
SourceTypes ==
  /\ row \in RowStatus /\ tasks \in {"none", "held", "waiting"} /\ dbErrors \in Nat
  /\ stage \in [Worker -> {"idle", "judge", "publish"}]
  /\ found \in [Worker -> Verdict \cup {"none"}]
  /\ row = "none" => tasks = "none"
  /\ tasks = "none" => AllIdle

(***************************************************************************)
(* Where statuses come from: what a goroutine is about to publish, what    *)
(* the row says, what a stream has read and what is under way to a page    *)
(* was found by JudgeTask.                                                 *)
(***************************************************************************)
SourceInv ==
  /\ \A w \in Worker : stage[w] = "publish" => found[w] \in told
  /\ row \in Known \cup {"pending", "none"}
  /\ \A g \in Page : page[g] # "closed" => row # "none"
  /\ \A g \in Page : page[g] = "sending" => seen[g] \in Known \cup {"pending"}
  /\ mailbox \in [Page -> Seq(told)]

(***************************************************************************)
(* Why a page is told: a row that reads pending will be written by a task  *)
(* that is not judged to its end yet, hence a page that has read it has a  *)
(* message to come until one is published while the page connects.         *)
(***************************************************************************)
RowIsOwed ==
  row = "pending" => silent \/ tasks = "waiting" \/ \E w \in Worker : stage[w] = "judge"

ReaderIsOwed ==
  \A g \in Page :
    page[g] = "subscribing" \/ (page[g] = "sending" /\ seen[g] = "pending") =>
      Unpublished \/ g \in unheard \/ silent

StreamInv ==
  TypeOK /\ SourceInv /\ RowIsOwed /\ ReaderIsOwed /\ WaitingIsOwed /\ DoneShowsVerdict

-----------------------------------------------------------------------------
\* Messages of fewer statuses are messages of more.
LEMMA SeqGrows ==
  ASSUME NEW S, NEW T, S \subseteq T
  PROVE  Seq(S) \subseteq Seq(T)
  OBVIOUS

\* The type and the sources hold at first, and no page waits or is done.
LEMMA InitStream == Init => StreamInv
  <1> SUFFICES ASSUME Init  PROVE StreamInv
    OBVIOUS
  <1>1. \A S : <<>> \in Seq(S)
    OBVIOUS
  <1>2. /\ stage \in [Worker -> {"idle", "judge", "publish"}]
        /\ \A w \in Worker : stage[w] = "idle"
        /\ found \in [Worker -> Verdict \cup {"none"}]
        /\ row = "none" /\ tasks = "none" /\ dbErrors = 0
    BY DEF Init, SourceInit
  <1>3. mailbox \in [Page -> Seq(Verdict)] /\ mailbox \in [Page -> Seq(told)]
    BY <1>1 DEF Init
  <1>4. TypeOK
    BY <1>2, <1>3 DEF Init, TypeOK, RowStatus, AllIdle
  <1>5. SourceInv
    BY <1>2, <1>3 DEF Init, SourceInv, Known
  <1> QED
    BY <1>2, <1>4, <1>5
       DEF Init, StreamInv, RowIsOwed, ReaderIsOwed, WaitingIsOwed, DoneShowsVerdict

-----------------------------------------------------------------------------
(***************************************************************************)
(* The judging side.                                                       *)
(***************************************************************************)

\* Where JudgeTask ends, nothing is left in the goroutine.
LEMMA LeaveTypes ==
  ASSUME SourceTypes, NEW W, Leave(W)
  PROVE  /\ stage' \in [Worker -> {"idle", "judge", "publish"}]
         /\ found' \in [Worker -> Verdict \cup {"none"}]
         /\ AllIdle => AllIdle'
         /\ \A w \in Worker : stage'[w] = "publish" =>
                               stage[w] = "publish" /\ found'[w] = found[w]
  BY DEF SourceTypes, Leave, AllIdle

\* A goroutine writes the row only with the verdict it will publish, or says that there
\* were no test cases, and it works only while its task is there.
LEMMA JudgeTypes ==
  ASSUME SourceTypes, NEW w \in Worker, JudgeStep(w)
  PROVE  /\ SourceTypes' /\ row # "none"
         /\ row' \in {row, found'[w], "No Test Cases"} \ {"none"}
         /\ found'[w] \in Verdict \cup {"none"}
         /\ \A x \in Worker : stage'[x] = "publish" =>
              \/ x = w /\ found'[x] # "none"
              \/ stage[x] = "publish" /\ found'[x] = found[x]
  <1>v. {"pending", "judging", "No Test Cases", "none"} \cap Verdict = {}
    BY StreamAssumption DEF StreamAssumption
  <1>1. row # "none" /\ tasks # "none"
    BY DEF SourceTypes, JudgeStep, Start, NoTestCases, WriteVerdict, WriteError, ToPublish, AllIdle
  <1>2. CASE Start(w)
    <2>1. /\ stage' = [stage EXCEPT ![w] = "judge"] /\ tasks' \in {"held", "waiting"}
          /\ UNCHANGED <<row, found, dbErrors>>
      BY <1>2 DEF Start
    <2>2. SourceTypes'
      BY <1>1, <2>1 DEF SourceTypes
    <2> QED
      BY <1>1, <2>1, <2>2 DEF SourceTypes
  <1>3. CASE NoTestCases(w)
    <2>1. /\ row' \in {row, "No Test Cases"} /\ Leave({w})
          /\ tasks' = tasks \/ (tasks' = "none" /\ AllIdle')
      BY <1>3 DEF NoTestCases
    <2>d. dbErrors' \in {dbErrors, dbErrors + 1}
      BY <1>3 DEF NoTestCases
    <2>2. SourceTypes'
      <3>1. row' \in RowStatus /\ row' # "none"
        BY <1>1, <2>1 DEF SourceTypes, RowStatus, Final
      <3>2. dbErrors' \in Nat
        <4>1. dbErrors \in Nat /\ \A n \in Nat : n + 1 \in Nat
          BY DEF SourceTypes
        <4> QED
          BY <2>d, <4>1
      <3>3. /\ tasks' \in {"none", "held", "waiting"}
            /\ AllIdle => AllIdle'
            /\ stage' \in [Worker -> {"idle", "judge", "publish"}]
            /\ found' \in [Worker -> Verdict \cup {"none"}]
        BY <2>1, LeaveTypes DEF SourceTypes
      <3>4. tasks' = "none" => AllIdle'
        BY <2>1, <3>3 DEF SourceTypes
      <3> QED
        BY <3>1, <3>2, <3>3, <3>4 DEF SourceTypes
    <2>3. found'[w] \in Verdict \cup {"none"}
      BY <2>2 DEF SourceTypes
    <2> QED
      BY <1>1, <2>1, <2>2, <2>3, LeaveTypes
  <1>4. ASSUME NEW v \in Verdict, WriteVerdict(w, v) \/ WriteError(w, v)
        PROVE  /\ SourceTypes' /\ row' \in {row, v} /\ found'[w] = v
               /\ \A x \in Worker \ {w} : stage'[x] = stage[x] /\ found'[x] = found[x]
    <2>1. /\ stage' = [stage EXCEPT ![w] = "publish"] /\ found' = [found EXCEPT ![w] = v]
          /\ tasks' = tasks /\ row' \in {row, v} /\ dbErrors' \in {dbErrors, dbErrors + 1}
      BY <1>4 DEF WriteVerdict, WriteError, ToPublish
    <2>2. SourceTypes'
      <3>1. v \in RowStatus /\ v # "none"
        BY <1>v DEF RowStatus, Final
      <3> QED
        BY <1>1, <2>1, <3>1 DEF SourceTypes
    <2> QED
      BY <2>1, <2>2 DEF SourceTypes
  <1>5. ASSUME NEW v \in Verdict, WriteVerdict(w, v) \/ WriteError(w, v)
        PROVE  v # "none" /\ found'[w] = v /\ found'[w] \in Verdict
    BY <1>4, <1>5, <1>v
  <1> QED
    BY <1>1, <1>2, <1>3, <1>4, <1>5 DEF JudgeStep

\* What asks for a verdict or disturbs the judging makes no verdict.
LEMMA DisturbanceTypes ==
  ASSUME SourceTypes,
         Submit \/ ReJudge \/ ReJudgeError \/ OtherError \/ \E W \in SUBSET Worker : Stop(W)
  PROVE  /\ SourceTypes' /\ row' \in {row, "pending"}
         /\ \A w \in Worker : stage'[w] = "publish" =>
                               stage[w] = "publish" /\ found'[w] = found[w]
  <1>1. CASE Submit \/ ReJudge \/ ReJudgeError \/ OtherError
    BY <1>1 DEF SourceTypes, Submit, ReJudge, ReJudgeError, Enqueue, OtherError, RowStatus, AllIdle
  <1>2. ASSUME NEW W \in SUBSET Worker, Stop(W)
        PROVE  /\ SourceTypes' /\ row' = row
               /\ \A w \in Worker : stage'[w] = "publish" =>
                                     stage[w] = "publish" /\ found'[w] = found[w]
    <2>1. /\ Leave(W) /\ UNCHANGED <<row, dbErrors>>
          /\ tasks' \in IF tasks = "none" THEN {"none"} ELSE {"none", "held", "waiting"}
          /\ tasks' = "none" => AllIdle'
      BY <1>2 DEF Stop
    <2>2. SourceTypes'
      BY <2>1, LeaveTypes DEF SourceTypes
    <2> QED
      BY <2>1, <2>2, LeaveTypes
  <1> QED
    BY <1>1, <1>2

\* A task that waits is not taken without a goroutine that judges, and one that judges
\* ends without a verdict only in silence.
LEMMA JudgingIsOwed ==
  ASSUME StreamInv, NEW w \in Worker, Judging(w)
  PROVE  /\ RowIsOwed'
         /\ Unpublished \/ silent => Unpublished' \/ silent'
         /\ silent' \in BOOLEAN
  <1>v. "pending" \notin Verdict
    BY StreamAssumption DEF StreamAssumption
  <1>t. /\ stage \in [Worker -> {"idle", "judge", "publish"}] /\ silent \in BOOLEAN
        /\ RowIsOwed
    BY DEF StreamInv, TypeOK
  <1>1. CASE Start(w) /\ UNCHANGED silent
    <2>1. /\ stage' = [stage EXCEPT ![w] = "judge"]
          /\ UNCHANGED <<row, silent>>
      BY <1>1 DEF Start
    <2>2. stage'[w] = "judge"
      BY <1>t, <2>1
    <2> QED
      BY <1>t, <2>1, <2>2 DEF RowIsOwed, Unpublished, AllIdle
  <1>2. ASSUME NEW v \in Verdict, WriteVerdict(w, v), UNCHANGED silent
        PROVE  /\ RowIsOwed' /\ silent' \in BOOLEAN
               /\ Unpublished \/ silent => Unpublished' \/ silent'
    <2>1. /\ stage' = [stage EXCEPT ![w] = "publish"] /\ row' = v
      BY <1>2 DEF WriteVerdict, ToPublish
    <2>2. stage'[w] = "publish" /\ row' # "pending"
      BY <1>t, <1>v, <2>1
    <2> QED
      BY <1>t, <1>2, <2>2 DEF RowIsOwed, Unpublished, AllIdle
  <1>3. CASE silent' = TRUE
    BY <1>3 DEF RowIsOwed
  <1> QED
    BY <1>1, <1>2, <1>3 DEF Judging

\* A new request is owed; whatever else disturbs the judging leaves a task or is silent.
LEMMA DisturbanceIsOwed ==
  ASSUME StreamInv, Disturbance
  PROVE  /\ RowIsOwed'
         /\ Unpublished \/ silent => Unpublished' \/ silent'
         /\ silent' \in BOOLEAN
         /\ unheard' = unheard \/ (unheard' = {} /\ Unpublished')
  <1>t. silent \in BOOLEAN /\ RowIsOwed
    BY DEF StreamInv, TypeOK
  <1>1. CASE (Submit \/ ReJudge) /\ silent' = FALSE /\ unheard' = {}
    BY <1>1 DEF Submit, ReJudge, Enqueue, RowIsOwed, Unpublished
  <1>2. CASE ReJudgeError /\ UNCHANGED <<silent, unheard>>
    BY <1>t, <1>2 DEF ReJudgeError, RowIsOwed, Unpublished
  <1>3. CASE OtherError /\ UNCHANGED <<silent, unheard>>
    BY <1>t, <1>3 DEF OtherError, RowIsOwed, Unpublished, AllIdle
  <1>4. CASE /\ silent' = (silent \/ tasks' # "waiting")
             /\ UNCHANGED unheard
    BY <1>t, <1>4 DEF RowIsOwed, Unpublished
  <1> QED
    BY <1>1, <1>2, <1>3, <1>4 DEF Disturbance

\* A step that sends nothing keeps the invariant if the verdicts it makes are told and
\* no page is owed less than before.
LEMMA SilentStream ==
  ASSUME StreamInv, SourceTypes', UNCHANGED <<pageVars, late>>,
         told \subseteq told', told' \subseteq Verdict,
         row' \in {row, "pending"} \cup Known',
         \A w \in Worker : stage'[w] = "publish" => found'[w] \in told',
         RowIsOwed', silent' \in BOOLEAN,
         Unpublished \/ silent => Unpublished' \/ silent',
         unheard' = unheard \/ (unheard' = {} /\ Unpublished')
  PROVE  StreamInv'
  <1>1. UNCHANGED <<page, shown, seen, mailbox, late>>
    BY DEF pageVars
  <1>2. Known \subseteq Known' /\ Seq(told) \subseteq Seq(told')
    BY SeqGrows DEF Known
  <1>3. TypeOK'
    BY <1>1 DEF StreamInv, TypeOK, SourceTypes
  <1>4. SourceInv'
    <2>1. row' \in Known' \cup {"pending", "none"} /\ (row # "none" => row' # "none")
      <3>1. "none" \notin Known'
        BY StreamAssumption DEF StreamAssumption, Known
      <3> QED
        BY <1>2, <3>1 DEF StreamInv, SourceInv
    <2>2. mailbox' \in [Page -> Seq(told')]
      BY <1>1, <1>2 DEF StreamInv, SourceInv
    <2>3. \A g \in Page : page'[g] = "sending" => seen'[g] \in Known' \cup {"pending"}
      BY <1>1, <1>2 DEF StreamInv, SourceInv
    <2> QED
      BY <1>1, <2>1, <2>2, <2>3 DEF StreamInv, SourceInv
  <1>5. ReaderIsOwed' /\ WaitingIsOwed'
    BY <1>1 DEF StreamInv, ReaderIsOwed, WaitingIsOwed
  <1>6. DoneShowsVerdict'
    BY <1>1 DEF StreamInv, DoneShowsVerdict
  <1> QED
    BY <1>3, <1>4, <1>5, <1>6 DEF StreamInv

\* Whatever JudgeTask finds is told; everything else that sends nothing finds nothing.
LEMMA JudgingStream ==
  ASSUME StreamInv, (\E w \in Worker : Judging(w)) \/ Disturbance
  PROVE  StreamInv'
  <1>t. SourceTypes /\ told \subseteq Verdict
    BY DEF StreamInv, TypeOK, SourceTypes
  <1>p. \A w \in Worker : stage[w] = "publish" => found[w] \in told
    BY DEF StreamInv, SourceInv
  <1>1. ASSUME NEW w \in Worker, Judging(w)  PROVE StreamInv'
    <2>1. /\ JudgeStep(w) /\ UNCHANGED <<pageVars, late, unheard>>
          /\ told' = told \cup ({found'[w]} \ {"none"})
      BY <1>1 DEF Judging, JudgeStep
    <2>2. told \subseteq told' /\ told' \subseteq Verdict
      BY <1>t, <2>1, JudgeTypes
    <2>3. \A x \in Worker : stage'[x] = "publish" => found'[x] \in told'
      BY <1>t, <1>p, <2>1, <2>2, JudgeTypes
    <2>4. row' \in {row, "pending"} \cup Known'
      BY <1>t, <2>1, JudgeTypes DEF Known
    <2>5. SourceTypes'
      BY <1>t, <2>1, JudgeTypes
    <2> QED
      BY <1>1, <2>1, <2>2, <2>3, <2>4, <2>5, JudgingIsOwed, SilentStream
  <1>2. CASE Disturbance
    <2>1. /\ Submit \/ ReJudge \/ ReJudgeError \/ OtherError \/ \E W \in SUBSET Worker : Stop(W)
          /\ told' = told /\ UNCHANGED <<pageVars, late>>
      BY <1>2 DEF Disturbance
    <2>2. /\ SourceTypes' /\ row' \in {row, "pending"}
          /\ \A w \in Worker : stage'[w] = "publish" => found'[w] \in told'
      BY <1>t, <1>p, <2>1, DisturbanceTypes
    <2> QED
      BY <1>t, <1>2, <2>1, <2>2, DisturbanceIsOwed, SilentStream
  <1> QED
    BY <1>1, <1>2

\* A message goes to some pages of those that are subscribed, and the others are
\* remembered.
LEMMA PublishStream ==
  ASSUME StreamInv, NEW w \in Worker, Deliver(w) \/ DeliverError(w)
  PROVE  StreamInv'
  <1>g. PICK G \in SUBSET Subscribed : SendTo(w, G)
    <2>1. CASE Deliver(w)
      BY <2>1 DEF Deliver
    <2>2. CASE DeliverError(w)
      BY <2>2 DEF DeliverError
    <2> QED
      BY <2>1, <2>2
  <1> DEFINE v == found[w]
             box(g) == Append(mailbox[g], v)
  <1>t. SourceTypes
    BY DEF StreamInv, TypeOK, SourceTypes
  <1>1. /\ Leave({w}) /\ UNCHANGED <<row, tasks, dbErrors, page, shown, seen, late, told, silent>>
        /\ stage[w] = "publish"
        /\ unheard' = unheard \cup ((Subscribed \cup Connecting) \ G)
        /\ mailbox' = [g \in Page |-> IF g \in G THEN box(g) ELSE mailbox[g]]
    BY <1>g DEF SendTo, PublishStatus
  <1>2. v \in told /\ told \subseteq Verdict
    BY <1>1 DEF StreamInv, TypeOK, SourceInv
  <1>3. ASSUME NEW g \in Page
        PROVE  box(g) \in Seq(told) /\ box(g) \in Seq(Verdict) /\ box(g) # <<>>
    <2>1. mailbox[g] \in Seq(told) /\ mailbox[g] \in Seq(Verdict)
      BY DEF StreamInv, TypeOK, SourceInv
    <2>2. Append(mailbox[g], v) # <<>>
      <3> HIDE DEF v
      <3> QED
        BY <1>2, <2>1
    <2> QED
      BY <1>2, <2>1, <2>2
  <1> HIDE DEF v, box
  <1>5. SourceTypes'
    BY <1>t, <1>1, LeaveTypes DEF SourceTypes
  <1>6. mailbox' \in [Page -> Seq(Verdict)] /\ mailbox' \in [Page -> Seq(told)]
    <2>1. \A g \in Page : mailbox'[g] \in Seq(Verdict) /\ mailbox'[g] \in Seq(told)
      BY <1>1, <1>3 DEF StreamInv, TypeOK, SourceInv
    <2> QED
      BY <1>1, <2>1
  <1>7. TypeOK'
    <2>1. unheard' \subseteq Page /\ told' \subseteq Verdict /\ late' \subseteq Page
          /\ silent' \in BOOLEAN
      BY <1>1, <1>2 DEF StreamInv, TypeOK, Subscribed, Connecting
    <2>2. \A g \in Page : mailbox'[g] # <<>> => page'[g] = "waiting"
      BY <1>1 DEF StreamInv, TypeOK, Subscribed
    <2>3. /\ page' \in [Page -> {"closed", "connecting", "sending", "subscribing", "waiting",
                                 "done", "broken"}]
          /\ shown' \in [Page -> RowStatus] /\ seen' \in [Page -> RowStatus]
      BY <1>1 DEF StreamInv, TypeOK
    <2> QED
      BY <1>5, <1>6, <2>1, <2>2, <2>3 DEF TypeOK, SourceTypes
  <1>8. SourceInv'
    <2>1. \A x \in Worker : stage'[x] = "publish" => found'[x] \in told'
      BY <1>t, <1>1, LeaveTypes DEF StreamInv, SourceInv
    <2> QED
      BY <1>1, <1>6, <2>1 DEF StreamInv, SourceInv, Known
  <1>9. RowIsOwed'
    <2>1. \A x \in Worker : stage[x] = "judge" => stage'[x] = "judge"
      BY <1>t, <1>1 DEF SourceTypes, Leave
    <2> QED
      BY <1>1, <2>1 DEF StreamInv, RowIsOwed
  <1>10. ReaderIsOwed'
    BY <1>1 DEF ReaderIsOwed, Connecting, Subscribed
  <1>11. WaitingIsOwed'
    <2> SUFFICES ASSUME NEW g \in Page, page'[g] = "waiting"
                 PROVE  mailbox'[g] # <<>> \/ g \in unheard'
      BY DEF WaitingIsOwed
    <2>1. g \in Subscribed
      BY <1>1 DEF Subscribed
    <2> QED
      BY <1>1, <1>3, <2>1
  <1>12. DoneShowsVerdict'
    BY <1>1 DEF StreamInv, DoneShowsVerdict
  <1> QED
    BY <1>7, <1>8, <1>9, <1>10, <1>11, <1>12 DEF StreamInv

-----------------------------------------------------------------------------
(***************************************************************************)
(* The page and its stream.                                                *)
(***************************************************************************)

\* What the page and its stream do before the first message.
LEMMA PageStream ==
  ASSUME StreamInv, NEW g \in Page, Open(g) \/ ReadRow(g) \/ SendRow(g) \/ Subscribe(g)
  PROVE  StreamInv'
  <1>1. UNCHANGED <<row, tasks, dbErrors, stage, found, mailbox, late, told, silent>>
        /\ Unpublished' = Unpublished /\ AllIdle' = AllIdle
    BY DEF Open, ReadRow, SendRow, Subscribe, Unpublished, AllIdle, sourceVars, history
  <1>r. RowIsOwed'
    BY <1>1 DEF StreamInv, RowIsOwed
  <1>2. CASE Open(g)
    <2>1. TypeOK'
      BY <1>1, <1>2 DEF StreamInv, TypeOK, Open, RowStatus, Final
    <2>2. SourceInv'
      BY <1>1, <1>2 DEF StreamInv, TypeOK, SourceInv, Known, Open
    <2>3. ReaderIsOwed'
      BY <1>1, <1>2 DEF StreamInv, TypeOK, ReaderIsOwed, Open
    <2>4. WaitingIsOwed'
      BY <1>1, <1>2 DEF StreamInv, TypeOK, ReaderIsOwed, WaitingIsOwed, Open
    <2>5. DoneShowsVerdict'
      BY <1>1, <1>2 DEF StreamInv, TypeOK, SourceInv, Known, DoneShowsVerdict, Open
    <2> QED
      BY <1>r, <2>1, <2>2, <2>3, <2>4, <2>5 DEF StreamInv
  <1>3. CASE ReadRow(g)
    <2>1. TypeOK'
      BY <1>1, <1>3 DEF StreamInv, TypeOK, ReadRow, history, RowStatus, Final
    <2>2. SourceInv'
      BY <1>1, <1>3 DEF StreamInv, TypeOK, SourceInv, Known, ReadRow, history
    <2>3. ReaderIsOwed'
      BY <1>1, <1>3 DEF StreamInv, TypeOK, ReaderIsOwed, ReadRow, history, RowIsOwed, Unpublished, AllIdle
    <2>4. WaitingIsOwed'
      BY <1>1, <1>3 DEF StreamInv, TypeOK, ReaderIsOwed, WaitingIsOwed, ReadRow, history
    <2>5. DoneShowsVerdict'
      BY <1>1, <1>3 DEF StreamInv, TypeOK, SourceInv, Known, DoneShowsVerdict, ReadRow, history
    <2> QED
      BY <1>r, <2>1, <2>2, <2>3, <2>4, <2>5 DEF StreamInv
  <1>4. CASE SendRow(g)
    <2>1. TypeOK'
      BY <1>1, <1>4 DEF StreamInv, TypeOK, SendRow, Show, EndStream, history, RowStatus, Final
    <2>2. SourceInv'
      BY <1>1, <1>4 DEF StreamInv, TypeOK, SourceInv, Known, SendRow, Show, EndStream, history
    <2>3. ReaderIsOwed'
      BY <1>1, <1>4 DEF StreamInv, TypeOK, ReaderIsOwed, SendRow, Show, EndStream, history
    <2>4. WaitingIsOwed'
      BY <1>1, <1>4 DEF StreamInv, TypeOK, ReaderIsOwed, WaitingIsOwed, SendRow, Show, EndStream, history
    <2>5. DoneShowsVerdict'
      BY <1>1, <1>4 DEF StreamInv, TypeOK, SourceInv, Known, DoneShowsVerdict, SendRow, Show, EndStream, history
    <2> QED
      BY <1>r, <2>1, <2>2, <2>3, <2>4, <2>5 DEF StreamInv
  <1>5. CASE Subscribe(g)
    <2>1. TypeOK'
      BY <1>1, <1>5 DEF StreamInv, TypeOK, Subscribe, history, RowStatus, Final
    <2>2. SourceInv'
      BY <1>1, <1>5 DEF StreamInv, TypeOK, SourceInv, Known, Subscribe, history
    <2>3. ReaderIsOwed'
      BY <1>1, <1>5 DEF StreamInv, TypeOK, ReaderIsOwed, Subscribe, history
    <2>4. WaitingIsOwed'
      BY <1>1, <1>5 DEF StreamInv, TypeOK, ReaderIsOwed, WaitingIsOwed, Subscribe, history
    <2>5. DoneShowsVerdict'
      BY <1>1, <1>5 DEF StreamInv, TypeOK, SourceInv, Known, DoneShowsVerdict, Subscribe, history
    <2> QED
      BY <1>r, <2>1, <2>2, <2>3, <2>4, <2>5 DEF StreamInv
  <1> QED
    BY <1>2, <1>3, <1>4, <1>5

\* Every message is final: the page shows it and its stream ends, or the stream breaks.
LEMMA ReceiveStream ==
  ASSUME StreamInv, NEW g \in Page, Receive(g)
  PROVE  StreamInv'
  <1> DEFINE h == IF g \in late THEN shown[g] ELSE Head(mailbox[g])
             p == IF g \in late THEN "broken" ELSE "done"
  <1>1. Head(mailbox[g]) \in told /\ told \subseteq Verdict
    <2>1. mailbox[g] \in Seq(told) /\ mailbox[g] # <<>>
      BY DEF StreamInv, SourceInv, Receive
    <2> QED
      BY <2>1 DEF StreamInv, TypeOK
  <1>2. Head(mailbox[g]) \notin {"pending", "judging"}
    BY <1>1, StreamAssumption DEF StreamAssumption
  <1>3. /\ mailbox' = [mailbox EXCEPT ![g] = <<>>]
        /\ page' = [page EXCEPT ![g] = p]
        /\ UNCHANGED <<row, tasks, dbErrors, stage, found, seen, late, told, silent, unheard>>
    BY <1>2 DEF Receive, EndStream, sourceVars, history
  <1>4. (\A S : <<>> \in Seq(S)) /\ Unpublished' = Unpublished /\ AllIdle' = AllIdle
    BY <1>3 DEF Unpublished, AllIdle
  <1>5. /\ shown' = [shown EXCEPT ![g] = h] /\ h \in RowStatus
        /\ p \in {"done", "broken"} /\ (p = "done" => h \in told)
    <2>1. shown \in [Page -> RowStatus]
      BY DEF StreamInv, TypeOK
    <2> QED
      BY <1>1, <2>1 DEF Receive, Show, RowStatus, Final
  <1> HIDE DEF h, p
  <1>6. TypeOK'
    BY <1>3, <1>4, <1>5 DEF StreamInv, TypeOK
  <1>7. SourceInv'
    <2>1. row # "none"
      BY DEF StreamInv, SourceInv, Receive
    <2>2. \A k \in Page : page'[k] = "sending" => page[k] = "sending"
      BY <1>3, <1>5 DEF StreamInv, TypeOK
    <2>3. mailbox' \in [Page -> Seq(told)]
      BY <1>3, <1>4 DEF StreamInv, SourceInv
    <2> QED
      BY <1>3, <2>1, <2>2, <2>3 DEF StreamInv, SourceInv, Known
  <1>8. RowIsOwed' /\ ReaderIsOwed' /\ WaitingIsOwed'
    <2>1. \A k \in Page : page'[k] \in {"sending", "subscribing", "waiting"} =>
                           k # g /\ page[k] = page'[k] /\ mailbox'[k] = mailbox[k]
      BY <1>3, <1>5 DEF StreamInv, TypeOK
    <2> QED
      BY <1>3, <1>4, <2>1 DEF StreamInv, RowIsOwed, ReaderIsOwed, WaitingIsOwed
  <1>9. DoneShowsVerdict'
    <2> SUFFICES ASSUME NEW k \in Page, page'[k] = "done"
                 PROVE  shown'[k] \in told \cup {"No Test Cases"}
      BY <1>3 DEF DoneShowsVerdict
    <2>1. k = g => shown'[k] = h /\ p = "done"
      BY <1>3, <1>5 DEF StreamInv, TypeOK
    <2>2. k # g => shown'[k] = shown[k] /\ page[k] = "done"
      BY <1>3, <1>5 DEF StreamInv, TypeOK
    <2> QED
      BY <2>1, <2>2, <1>5 DEF StreamInv, DoneShowsVerdict
  <1> QED
    BY <1>6, <1>7, <1>8, <1>9 DEF StreamInv

\* A reader leaves the page, or a stream becomes too old.
LEMMA LeaveStream ==
  ASSUME StreamInv, NEW g \in Page, LeavePage(g) \/ TimeOut(g)
  PROVE  StreamInv'
  <1>1. CASE LeavePage(g)
    <2>1. /\ UNCHANGED <<row, tasks, dbErrors, stage, found, seen, told, silent, unheard>>
          /\ page' = [page EXCEPT ![g] = "closed"] /\ shown' = [shown EXCEPT ![g] = "none"]
          /\ mailbox' = [mailbox EXCEPT ![g] = <<>>] /\ late' = late \ {g}
      BY <1>1 DEF LeavePage, sourceVars, history
    <2>2. (\A S : <<>> \in Seq(S)) /\ Unpublished' = Unpublished /\ AllIdle' = AllIdle
      BY <2>1 DEF Unpublished, AllIdle
    <2>3. TypeOK'
      BY <2>1, <2>2 DEF StreamInv, TypeOK, RowStatus
    <2>4. SourceInv'
      BY <2>1, <2>2 DEF StreamInv, TypeOK, SourceInv, Known
    <2>5. RowIsOwed' /\ ReaderIsOwed' /\ WaitingIsOwed'
      BY <2>1, <2>2 DEF StreamInv, TypeOK, RowIsOwed, ReaderIsOwed, WaitingIsOwed
    <2>6. DoneShowsVerdict'
      BY <2>1 DEF StreamInv, TypeOK, DoneShowsVerdict
    <2> QED
      BY <2>3, <2>4, <2>5, <2>6 DEF StreamInv
  <1>2. CASE TimeOut(g)
    <2>1. /\ UNCHANGED <<row, tasks, dbErrors, stage, found, page, shown, seen, mailbox>>
          /\ UNCHANGED <<told, silent, unheard>> /\ late' \subseteq late \cup Page
      BY <1>2 DEF TimeOut, sourceVars, pageVars, history
    <2>2. Unpublished' = Unpublished /\ AllIdle' = AllIdle
      BY <2>1 DEF Unpublished, AllIdle
    <2> QED
      BY <2>1, <2>2 DEF StreamInv, TypeOK, SourceInv, Known, RowIsOwed, ReaderIsOwed,
                        WaitingIsOwed, DoneShowsVerdict
  <1> QED
    BY <1>1, <1>2

\* Every step keeps the invariant.
LEMMA NextStream == StreamInv /\ [Next]_vars => StreamInv'
  <1>1. ASSUME StreamInv, UNCHANGED vars  PROVE StreamInv'
    <2>1. UNCHANGED <<row, tasks, dbErrors, stage, found, page, shown, seen, mailbox>>
          /\ UNCHANGED <<late, told, silent, unheard>>
      BY <1>1 DEF vars, sourceVars, pageVars, history
    <2>2. Unpublished' = Unpublished /\ AllIdle' = AllIdle
      BY <2>1 DEF Unpublished, AllIdle
    <2> QED
      BY <1>1, <2>1, <2>2 DEF StreamInv, TypeOK, SourceInv, Known, RowIsOwed, ReaderIsOwed,
                              WaitingIsOwed, DoneShowsVerdict
  <1> QED
    BY <1>1, JudgingStream, PublishStream, PageStream, ReceiveStream, LeaveStream
       DEF Next, StreamStep

-----------------------------------------------------------------------------
\* Every variable keeps its type, and only a waiting page has messages.
THEOREM StreamTypes == Spec => []TypeOK
  BY InitStream, NextStream, PTL DEF Spec, StreamInv

\* However tasks, rejudges, refused writes, lost messages and pages interleave, a page
\* that waits has a message in its mailbox or a task or goroutine that will publish one,
\* unless a message passed it by or a judging ended without a message or without its row
\* (WaitingIsOwed of SubmissionStream).
THEOREM NoPageForgotten == Spec => []WaitingIsOwed
  BY InitStream, NextStream, PTL DEF Spec, StreamInv

\* A page that is done shows a verdict that some task has found, or that there were no
\* test cases; the verdict may be older than the last rejudge (DoneShowsVerdict).
THEOREM FinalStatusIsTrue == Spec => []DoneShowsVerdict
  BY InitStream, NextStream, PTL DEF Spec, StreamInv

=============================================================================
