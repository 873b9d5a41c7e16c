------------------------- MODULE JudgePipeline_proofs -------------------------
(***************************************************************************)
(* What holds of the way from a submission to its verdict, for any number  *)
(* of submissions, users, goroutines and processes, any backend, any retry *)
(* limit, and any rejudges, refused writes, panics and crashes.            *)
(*                                                                         *)
(* The first part is about the queue alone: type correctness and the       *)
(* safety invariants that the runs of MCJudgeQueue check.  In the second   *)
(* the queue implements TaskDelivery: its first state is one of            *)
(* TaskDelivery's, and each of its steps is a step of TaskDelivery or      *)
(* leaves the status of every task as it is.  In the third the pipeline    *)
(* uses the queue as JudgeQueue describes it, and keeps the safety         *)
(* invariants that the runs of MCJudgePipeline check.  In the last it      *)
(* implements VerdictSource, the judging side of SubmissionStream, for     *)
(* every submission.                                                       *)
(***************************************************************************)
EXTENDS JudgePipeline, FiniteSetTheorems, TLAPS

-----------------------------------------------------------------------------
(***************************************************************************)
(* Type correctness.                                                       *)
(***************************************************************************)

\* Counting a delivery changes nothing of a message but its count.
LEMMA DeliveredType ==
  ASSUME NEW m \in Message
  PROVE  /\ Delivered(m) \in Message
         /\ Delivered(m).id = m.id /\ Delivered(m).job = m.job
         /\ Delivered(m).retry = m.retry /\ Delivered(m).tries = m.tries + 1
         /\ Delivered(m).home = m.home
  BY DEF Message, Delivered

\* What Requeue publishes: a message of its own, with the retry count raised by one.
LEMMA RetriedType ==
  ASSUME TypeOK, NEW w \in Worker, phase[w] # "idle"
  PROVE  /\ held[w] \in Message
         /\ Retried(w) \in Message
         /\ Retried(w).id = nextId /\ Retried(w).job = held[w].job
         /\ Retried(w).retry = held[w].retry + 1 /\ Retried(w).tries = 0
  <1>1. held[w] \in Message
    BY DEF TypeOK
  <1>2. nextId \in Nat /\ Host[w] \in Process
    BY JudgeQueueAssumption DEF TypeOK
  <1> QED
    BY <1>1, <1>2 DEF Message, Retried

\* The second entry of a repeated XADD differs from the first in its id only.
LEMMA SecondEntry ==
  ASSUME NEW m \in Message, NEW n \in Nat
  PROVE  LET c == [m EXCEPT !.id = n]
         IN c \in Message /\ c.id = n /\ c.job = m.job /\ c.retry = m.retry /\ c.task = m.task
              /\ c.tries = m.tries /\ c.home = m.home
  BY DEF Message

\* Every step of a goroutine keeps every variable in its type.
LEMMA ConsumeType ==
  ASSUME TypeOK, NEW w \in Worker, Consume(w)
  PROVE  TypeOK'
  <1>1. ASSUME NEW m \in queue, Take(w, m)  PROVE TypeOK'
    <2>1. m \in Message /\ Delivered(m) \in Message
      BY DeliveredType DEF TypeOK
    <2> QED
      BY <1>1, <2>1, NoMessageAssumption DEF TypeOK, Take, Pending
  <1>2. ASSUME NEW m \in queue, GiveUp(w, m)  PROVE TypeOK'
    <2>1. m.job \in Job
      BY DEF TypeOK, Message
    <2> QED
      BY <1>2, <2>1 DEF TypeOK, GiveUp
  <1>3. ASSUME phase[w] # "idle"  PROVE held[w] \in Message /\ held[w].job \in Job
    BY <1>3, RetriedType DEF Message
  <1>4. CASE HandlerReturns(w)
    BY <1>3, <1>4, NoMessageAssumption DEF TypeOK, HandlerReturns, LeaveHandler
  <1>5. CASE HandlerPanics(w)
    BY <1>3, <1>5, NoMessageAssumption DEF TypeOK, HandlerPanics, LeaveHandler
  <1>6. CASE Republish(w)
    <2>1. Retried(w) \in Message /\ queue' = queue \cup {Retried(w)}
      BY <1>6, RetriedType DEF Republish
    <2> QED
      BY <1>3, <1>6, <2>1, NoMessageAssumption DEF TypeOK, Republish, LeaveHandler
  <1>6t. CASE RepublishTwice(w)
    <2>1. Retried(w) \in Message /\ nextId + 1 \in Nat /\ nextId + 2 \in Nat
      BY <1>6t, RetriedType DEF RepublishTwice, TypeOK
    <2>2. [Retried(w) EXCEPT !.id = nextId + 1] \in Message
      BY <2>1 DEF Message
    <2>3. queue' = queue \cup {Retried(w), [Retried(w) EXCEPT !.id = nextId + 1]}
      BY <1>6t DEF RepublishTwice
    <2> QED
      BY <1>3, <1>6t, <2>1, <2>2, <2>3, NoMessageAssumption DEF TypeOK, RepublishTwice, LeaveHandler
  <1>7. CASE RepublishError(w)
    BY <1>3, <1>7, NoMessageAssumption DEF TypeOK, RepublishError, LeaveHandler
  <1>8. CASE Ack(w)
    BY <1>8, NoMessageAssumption DEF TypeOK, Ack
  <1>9. CASE AckError(w)
    BY <1>9, NoMessageAssumption DEF TypeOK, AckError
  <1> QED
    BY <1>1, <1>2, <1>4, <1>5, <1>6, <1>6t, <1>7, <1>8, <1>9 DEF Consume

\* Start-up leaves every variable in its type.
LEMMA InitType == Init => TypeOK
  BY JudgeQueueAssumption DEF Init, TypeOK, SelectedBackend, JudgeQueueAssumption, Job

\* Every step keeps every variable in its type.
LEMMA NextType == TypeOK /\ [Next]_queueVars => TypeOK'
  <1> SUFFICES ASSUME TypeOK, [Next]_queueVars  PROVE TypeOK'
    OBVIOUS
  <1>1. ASSUME NEW p \in Process, NEW t \in Task, Offer(p, t)  PROVE TypeOK'
    <2>1. [id |-> nextId, job |-> offered + 1, task |-> t, retry |-> 0, tries |-> 0, home |-> p]
            \in Message
      BY <1>1, JudgeQueueAssumption DEF TypeOK, Offer, Message, Job, JudgeQueueAssumption
    <2> QED
      BY <1>1, <2>1, JudgeQueueAssumption DEF TypeOK, Offer, JudgeQueueAssumption
  <1>2. ASSUME NEW m \in outbox, Publish(m)  PROVE TypeOK'
    BY <1>2 DEF TypeOK, Publish
  <1>2t. ASSUME NEW m \in outbox, PublishTwice(m)  PROVE TypeOK'
    <2>1. m \in Message /\ m.job \in Job /\ [m EXCEPT !.id = nextId] \in Message
      BY DEF TypeOK, Message
    <2> QED
      BY <1>2t, <2>1 DEF TypeOK, PublishTwice
  <1>3. ASSUME NEW m \in outbox, PublishError(m)  PROVE TypeOK'
    <2>1. m.job \in Job
      BY DEF TypeOK, Message
    <2> QED
      BY <1>3, <2>1 DEF TypeOK, PublishError
  <1>4. ASSUME NEW w \in Worker, Consume(w)  PROVE TypeOK'
    BY <1>4, ConsumeType
  <1>5. ASSUME NEW m \in queue, ReplyLost(m)  PROVE TypeOK'
    <2>1. Delivered(m) \in Message
      BY DeliveredType DEF TypeOK
    <2> QED
      BY <1>5, <2>1 DEF TypeOK, ReplyLost
  <1>6. ASSUME NEW m \in unacked, Redeliver(m)  PROVE TypeOK'
    BY <1>6 DEF TypeOK, Redeliver
  <1>7. ASSUME NEW p \in Process, Crash(p)  PROVE TypeOK'
    <2>1. lost' \subseteq Job
      BY <1>7 DEF TypeOK, Crash, LocalChannel, Message
    <2> QED
      BY <1>7, <2>1 DEF TypeOK, Crash, LocalChannel
  <1>8. CASE UNCHANGED queueVars
    BY <1>8 DEF TypeOK, queueVars
  <1> QED
    BY <1>1, <1>2, <1>2t, <1>3, <1>4, <1>5, <1>6, <1>7, <1>8 DEF Next, Broker

\* The type invariant of the queue.
THEOREM TypeCorrect == Spec => []TypeOK
  <1> QED
    BY InitType, NextType, PTL DEF Spec

-----------------------------------------------------------------------------
(***************************************************************************)
(* No task vanishes.  NoSilentLoss alone is not inductive: a message that  *)
(* is about to be acknowledged is a copy of its task, but no longer one    *)
(* that will be handled.  What is inductive is that an unsettled task has  *)
(* a copy in the publishing handler, in the queue, in the channel's        *)
(* consumer, or unacknowledged and not about to be acknowledged.           *)
(***************************************************************************)

Waiting   == outbox \cup queue
Active(w) == phase[w] \in {"handling", "requeue"}

\* Job j is settled or has a copy that will yet be handled.
Live(j) ==
  \/ Settled(j)
  \/ \E m \in Waiting : m.job = j
  \/ backend = "local" /\ \E w \in Worker : Active(w) /\ held[w].job = j
  \/ \E m \in unacked : m.job = j /\ \A w \in Worker : phase[w] = "ack" => held[w] # m

\* No id is used twice, and what a goroutine holds was delivered no more often than
\* the copy of the same message the broker has.
FreshIds ==
  /\ \A m \in Waiting \cup unacked : m.id < nextId
  /\ \A w \in Worker : phase[w] # "idle" => held[w].id < nextId
  /\ \A x, y \in Waiting \cup unacked : x.id = y.id => x = y
  /\ \A w \in Worker : phase[w] # "idle" =>
       \A m \in Waiting \cup unacked : held[w].id = m.id => held[w].tries <= m.tries

\* A message waits in one place only, and the channel has no pending list.
OnePlace ==
  /\ outbox \cap queue = {} /\ outbox \cap unacked = {} /\ queue \cap unacked = {}
  /\ backend = "local" => unacked = {} /\ \A w \in Worker : phase[w] # "ack"

PlaceInv == FreshIds /\ OnePlace

LossInv == PlaceInv /\ \A j \in 1 .. offered : Live(j)

\* Without redelivery a task has one copy that waits or is worked on, and its
\* retry count is the number of panics of its handler, unless go-redis added it twice.
OneCopy ==
  backend # "nsq" =>
    /\ twice \cap {j \in Job : j > offered} = {}
    /\ \A m \in Waiting : m.job <= offered
    /\ \A w \in Worker : Active(w) => held[w].job <= offered
    /\ \A x, y \in Waiting : x.job = y.job => x = y \/ x.job \in twice
    /\ \A w \in Worker : Active(w) =>
         \A m \in Waiting : held[w].job # m.job \/ m.job \in twice
    /\ \A v, w \in Worker :
         v # w /\ Active(v) /\ Active(w) => held[v].job # held[w].job \/ held[v].job \in twice

ActiveInv == PlaceInv /\ OneCopy

Counted(m, n) ==
  m.retry <= MaxRetries /\ (m.job \notin twice => m.job \notin dropped /\ panics[m.job] = n)

PanicInv ==
  backend # "nsq" =>
    /\ \A m \in Waiting : Counted(m, m.retry)
    /\ \A w \in Worker : phase[w] = "handling" => Counted(held[w], held[w].retry)
    /\ \A w \in Worker : phase[w] = "requeue" =>
         Counted(held[w], held[w].retry + 1) /\ held[w].retry < MaxRetries
    /\ \A j \in Job : j > offered => panics[j] = 0 /\ j \notin dropped
    /\ PoisonTaskBounded

-----------------------------------------------------------------------------
(***************************************************************************)
(* Ids and places.                                                         *)
(***************************************************************************)

\* What the queue's messages are made of.
LEMMA MessageTypes ==
  ASSUME TypeOK
  PROVE  /\ \A m \in Waiting \cup unacked :
              m \in Message /\ m.id \in Nat /\ m.job \in Job /\ m.retry \in Nat /\ m.tries \in Nat
         /\ \A w \in Worker : phase[w] # "idle" =>
              /\ held[w] \in Message /\ held[w].id \in Nat /\ held[w].job \in Job
              /\ held[w].retry \in Nat /\ held[w].tries \in Nat
         /\ nextId \in Nat /\ offered \in Nat /\ held \in [Worker -> Message \cup {NoMessage}]
         /\ phase \in [Worker -> {"idle", "handling", "requeue", "ack"}]
         /\ panics \in [Job -> Nat]
  <1>1. \A m \in Message :
          m.id \in Nat /\ m.job \in Job /\ m.retry \in Nat /\ m.tries \in Nat
    BY DEF Message
  <1> QED
    BY <1>1, JudgeQueueAssumption DEF TypeOK, Waiting, JudgeQueueAssumption

\* A message that is delivered is the only one with its id, and so is its new copy.
LEMMA DeliverPlace ==
  ASSUME TypeOK, PlaceInv, NEW m \in queue
  PROVE  /\ Delivered(m) \notin outbox \cup queue \cup unacked
         /\ \A x \in Waiting \cup unacked : x # m => x.id # m.id
         /\ \A w \in Worker : phase[w] # "idle" => held[w] # Delivered(m)
  <1>1. m \in Message /\ m.id \in Nat /\ m.tries \in Nat /\ m \in Waiting
    BY MessageTypes DEF Waiting
  <1>2. Delivered(m).id = m.id /\ Delivered(m).tries = m.tries + 1
    BY <1>1, DeliveredType
  <1>3. Delivered(m) # m
    BY <1>1, <1>2
  <1> QED
    BY <1>1, <1>2, <1>3, MessageTypes DEF PlaceInv, FreshIds, Waiting

\* Every step keeps ids unique and messages in one place.
LEMMA PlaceStep == TypeOK /\ PlaceInv /\ [Next]_queueVars => PlaceInv'
  <1> SUFFICES ASSUME TypeOK, PlaceInv, [Next]_queueVars  PROVE PlaceInv'
    OBVIOUS
  <1> USE DEF PlaceInv, FreshIds, OnePlace, Waiting
  <1>t. TypeOK'
    BY NextType
  <1>1. ASSUME NEW p \in Process, NEW t \in Task, Offer(p, t)  PROVE PlaceInv'
    <2> DEFINE new == [id |-> nextId, job |-> offered + 1, task |-> t, retry |-> 0,
                       tries |-> 0, home |-> p]
    <2>1. new.id = nextId /\ outbox' = outbox \cup {new}
      BY <1>1 DEF Offer
    <2> HIDE DEF new
    <2> QED
      BY <1>1, <2>1, MessageTypes DEF Offer
  <1>2. ASSUME NEW m \in outbox, Publish(m)  PROVE PlaceInv'
    BY <1>2, MessageTypes DEF Publish
  <1>2t. ASSUME NEW m \in outbox, PublishTwice(m)  PROVE PlaceInv'
    <2> DEFINE c == [m EXCEPT !.id = nextId]
    <2>1. c.id = nextId /\ c.tries = m.tries /\ m.id \in Nat /\ m.id < nextId
      BY MessageTypes, SecondEntry
    <2>2. /\ queue' = queue \cup {m, c} /\ outbox' = outbox \ {m} /\ nextId' = nextId + 1
          /\ UNCHANGED <<backend, unacked, held, phase>> /\ backend = "redis"
      BY <1>2t DEF PublishTwice
    <2> HIDE DEF c
    <2> QED
      BY <2>1, <2>2, MessageTypes
  <1>3. ASSUME NEW m \in outbox, PublishError(m)  PROVE PlaceInv'
    BY <1>3, MessageTypes DEF PublishError
  <1>4. ASSUME NEW w \in Worker, NEW m \in queue, Take(w, m)  PROVE PlaceInv'
    <2> DEFINE d == Delivered(m)
    <2>1. d.id = m.id /\ d.tries = m.tries + 1 /\ m.id \in Nat /\ m.tries \in Nat
      BY MessageTypes, DeliveredType
    <2>2. /\ queue' = queue \ {m} /\ unacked' = (IF backend = "local" THEN unacked ELSE unacked \cup {d})
          /\ held' = [held EXCEPT ![w] = d] /\ phase' = [phase EXCEPT ![w] = "handling"]
          /\ UNCHANGED <<backend, outbox, nextId>>
      BY <1>4 DEF Take, Pending
    <2>3. /\ d \notin outbox \cup queue \cup unacked
          /\ \A x \in Waiting \cup unacked : x # m => x.id # m.id
      BY DeliverPlace
    <2> HIDE DEF d
    <2>4. OnePlace'
      BY <2>2, <2>3, MessageTypes
    <2>5. FreshIds'
      BY <2>1, <2>2, <2>3, MessageTypes
    <2> QED
      BY <2>4, <2>5
  <1>5. ASSUME NEW w \in Worker, NEW m \in queue, GiveUp(w, m)  PROVE PlaceInv'
    BY <1>5, MessageTypes DEF GiveUp
  <1>6. ASSUME NEW w \in Worker, HandlerReturns(w)  PROVE PlaceInv'
    BY <1>6, MessageTypes DEF HandlerReturns, LeaveHandler
  <1>7. ASSUME NEW w \in Worker, HandlerPanics(w)  PROVE PlaceInv'
    BY <1>7, MessageTypes DEF HandlerPanics, LeaveHandler
  <1>8. ASSUME NEW w \in Worker, Republish(w)  PROVE PlaceInv'
    <2>1. Retried(w).id = nextId /\ queue' = queue \cup {Retried(w)}
      BY <1>8 DEF Republish, Retried
    <2>2. OnePlace'
      BY <1>8, <2>1, MessageTypes DEF Republish, LeaveHandler
    <2>3. FreshIds'
      BY <1>8, <2>1, MessageTypes DEF Republish, LeaveHandler
    <2> QED
      BY <2>2, <2>3
  <1>8t. ASSUME NEW w \in Worker, RepublishTwice(w)  PROVE PlaceInv'
    <2> DEFINE r == Retried(w)
               c == [r EXCEPT !.id = nextId + 1]
    <2>1. r.id = nextId /\ c.id = nextId + 1 /\ nextId \in Nat
      BY <1>8t, RetriedType, SecondEntry, MessageTypes DEF RepublishTwice
    <2>2. /\ queue' = queue \cup {r, c} /\ nextId' = nextId + 2 /\ backend = "redis"
          /\ phase' = [phase EXCEPT ![w] = "ack"] /\ phase[w] = "requeue"
          /\ UNCHANGED <<backend, outbox, unacked, held>>
      BY <1>8t DEF RepublishTwice, LeaveHandler
    <2> HIDE DEF r, c
    <2>3. OnePlace'
      BY <2>1, <2>2, MessageTypes
    <2>4. FreshIds'
      BY <2>1, <2>2, MessageTypes
    <2> QED
      BY <2>3, <2>4
  <1>9. ASSUME NEW w \in Worker, RepublishError(w)  PROVE PlaceInv'
    BY <1>9, MessageTypes DEF RepublishError, LeaveHandler
  <1>10. ASSUME NEW w \in Worker, Ack(w) \/ AckError(w)  PROVE PlaceInv'
    BY <1>10, MessageTypes DEF Ack, AckError
  <1>11. ASSUME NEW m \in queue, ReplyLost(m)  PROVE PlaceInv'
    <2> DEFINE d == Delivered(m)
    <2>1. d.id = m.id /\ d.tries = m.tries + 1 /\ m.id \in Nat /\ m.tries \in Nat
      BY MessageTypes, DeliveredType DEF Waiting
    <2>2. /\ queue' = queue \ {m} /\ unacked' = unacked \cup {d} /\ backend # "local"
          /\ UNCHANGED <<backend, outbox, nextId, held, phase>>
      BY <1>11 DEF ReplyLost
    <2>3. /\ d \notin outbox \cup queue \cup unacked
          /\ \A x \in Waiting \cup unacked : x # m => x.id # m.id
      BY DeliverPlace
    <2> HIDE DEF d
    <2> QED
      BY <2>1, <2>2, <2>3, MessageTypes
  <1>12. ASSUME NEW m \in unacked, Redeliver(m)  PROVE PlaceInv'
    BY <1>12, MessageTypes DEF Redeliver
  <1>13. ASSUME NEW p \in Process, Crash(p)  PROVE PlaceInv'
    BY <1>13, MessageTypes DEF Crash, LocalChannel
  <1>14. CASE UNCHANGED queueVars
    BY <1>14 DEF queueVars
  <1> QED
    BY <1>1, <1>2, <1>2t, <1>3, <1>4, <1>5, <1>6, <1>7, <1>8, <1>8t, <1>9, <1>10, <1>11,
       <1>12, <1>13, <1>14 DEF Next, Consume, Broker

-----------------------------------------------------------------------------
(***************************************************************************)
(* Every task stays settled or live.                                       *)
(***************************************************************************)

\* What a step may take away from the copies of task j, and what it must then leave.
LEMMA LiveStep ==
  ASSUME TypeOK, LossInv, [Next]_queueVars, NEW j \in 1 .. offered
  PROVE  Live(j)'
  <1> USE DEF Live, Settled, Waiting, Active
  <1>l. Live(j)
    BY DEF LossInv
  <1>1. ASSUME NEW p \in Process, NEW t \in Task, Offer(p, t)  PROVE Live(j)'
    BY <1>1, <1>l DEF Offer
  <1>2. ASSUME NEW m \in outbox, Publish(m)  PROVE Live(j)'
    BY <1>2, <1>l DEF Publish
  <1>2t. ASSUME NEW m \in outbox, PublishTwice(m)  PROVE Live(j)'
    BY <1>2t, <1>l DEF PublishTwice
  <1>3. ASSUME NEW m \in outbox, PublishError(m)  PROVE Live(j)'
    BY <1>3, <1>l DEF PublishError
  <1>4. ASSUME NEW w \in Worker, NEW m \in queue, Take(w, m)  PROVE Live(j)'
    <2>1. Delivered(m).job = m.job
      BY MessageTypes, DeliveredType
    <2>2. \A v \in Worker : phase[v] # "idle" => held[v] # Delivered(m)
      BY DeliverPlace DEF LossInv
    <2>3. \A x \in unacked : x # Delivered(m)
      BY DeliverPlace DEF LossInv
    <2> QED
      BY <1>4, <1>l, <2>1, <2>2, <2>3, MessageTypes DEF Take, Pending
  <1>5. ASSUME NEW w \in Worker, NEW m \in queue, GiveUp(w, m)  PROVE Live(j)'
    BY <1>5, <1>l DEF GiveUp
  <1>6. ASSUME NEW w \in Worker, HandlerReturns(w)  PROVE Live(j)'
    BY <1>6, <1>l, MessageTypes DEF HandlerReturns, LeaveHandler
  <1>7. ASSUME NEW w \in Worker, HandlerPanics(w)  PROVE Live(j)'
    BY <1>7, <1>l, MessageTypes DEF HandlerPanics, LeaveHandler
  <1>8. ASSUME NEW w \in Worker, Republish(w)  PROVE Live(j)'
    <2>1. Retried(w).job = held[w].job /\ queue' = queue \cup {Retried(w)}
      BY <1>8 DEF Republish, Retried
    <2> QED
      BY <1>8, <1>l, <2>1, MessageTypes DEF Republish, LeaveHandler
  <1>8t. ASSUME NEW w \in Worker, RepublishTwice(w)  PROVE Live(j)'
    <2>1. Retried(w).job = held[w].job /\ Retried(w) \in queue' /\ queue \subseteq queue'
      BY <1>8t DEF RepublishTwice, Retried
    <2> QED
      BY <1>8t, <1>l, <2>1, MessageTypes DEF RepublishTwice, LeaveHandler
  <1>9. ASSUME NEW w \in Worker, RepublishError(w)  PROVE Live(j)'
    BY <1>9, <1>l, MessageTypes DEF RepublishError, LeaveHandler
  <1>10. ASSUME NEW w \in Worker, Ack(w)  PROVE Live(j)'
    BY <1>10, <1>l, MessageTypes DEF Ack
  <1>11. ASSUME NEW w \in Worker, AckError(w)  PROVE Live(j)'
    BY <1>11, <1>l, MessageTypes DEF AckError
  <1>12. ASSUME NEW m \in queue, ReplyLost(m)  PROVE Live(j)'
    <2>1. Delivered(m).job = m.job
      BY MessageTypes, DeliveredType
    <2>2. \A v \in Worker : phase[v] # "idle" => held[v] # Delivered(m)
      BY DeliverPlace DEF LossInv
    <2> QED
      BY <1>12, <1>l, <2>1, <2>2 DEF ReplyLost
  <1>13. ASSUME NEW m \in unacked, Redeliver(m)  PROVE Live(j)'
    BY <1>13, <1>l DEF Redeliver
  <1>14. ASSUME NEW p \in Process, Crash(p)  PROVE Live(j)'
    BY <1>14, <1>l, MessageTypes DEF Crash, LocalChannel
  <1>15. CASE UNCHANGED queueVars
    BY <1>15, <1>l DEF queueVars
  <1> QED
    BY <1>1, <1>2, <1>2t, <1>3, <1>4, <1>5, <1>6, <1>7, <1>8, <1>8t, <1>9, <1>10, <1>11,
       <1>12, <1>13, <1>14, <1>15 DEF Next, Consume, Broker

\* A task enters the count of published tasks together with its message.
LEMMA OfferLive ==
  ASSUME TypeOK, LossInv, [Next]_queueVars
  PROVE  \A j \in 1 .. offered' : Live(j)'
  <1>1. ASSUME NEW p \in Process, NEW t \in Task, Offer(p, t), NEW j \in 1 .. offered'
        PROVE  Live(j)'
    <2>1. CASE j \in 1 .. offered
      BY <2>1, LiveStep
    <2>2. CASE j = offered + 1
      <3> DEFINE new == [id |-> nextId, job |-> offered + 1, task |-> t, retry |-> 0,
                         tries |-> 0, home |-> p]
      <3>1. new.job = j /\ new \in outbox'
        BY <1>1, <2>2 DEF Offer
      <3> HIDE DEF new
      <3> QED
        BY <3>1 DEF Live, Waiting
    <2> QED
      BY <1>1, <2>1, <2>2, MessageTypes DEF Offer
  <1>2. ~(\E p \in Process, t \in Task : Offer(p, t)) => offered' = offered
    BY DEF Next, Consume, Broker, queueVars, Publish, PublishTwice, PublishError, Take, GiveUp,
           ReplyLost, HandlerReturns, HandlerPanics, Republish, RepublishTwice, RepublishError, Ack, AckError, Redeliver, Crash
  <1> QED
    BY <1>1, <1>2, LiveStep

\* What is inductive of it holds throughout.
LEMMA NoneIsLost == Spec => [](TypeOK /\ LossInv)
  <1>1. Init => TypeOK /\ LossInv
    BY InitType, JudgeQueueAssumption
       DEF Init, LossInv, PlaceInv, FreshIds, OnePlace, Waiting, TypeOK
  <1>2. TypeOK /\ LossInv /\ [Next]_queueVars => (TypeOK /\ LossInv)'
    BY NextType, PlaceStep, OfferLive DEF LossInv, PlaceInv
  <1> QED
    BY <1>1, <1>2, PTL DEF Spec

\* A published task never vanishes (NoSilentLoss of JudgeQueue): for any number of
\* goroutines, processes, tasks, panics, redeliveries, failed calls and crashes.
THEOREM NothingVanishes == Spec => []NoSilentLoss
  <1>1. TypeOK /\ LossInv => NoSilentLoss
    BY DEF LossInv, Live, NoSilentLoss, Copies, HeldMessages, Waiting, Active
  <1> QED
    BY <1>1, NoneIsLost, PTL

-----------------------------------------------------------------------------
(***************************************************************************)
(* Without redelivery there is one copy of each task to work on.           *)
(***************************************************************************)

\* Every step leaves at most one copy of a task that is not yet handled.
LEMMA ActiveStep == TypeOK /\ ActiveInv /\ [Next]_queueVars => ActiveInv'
  <1> SUFFICES ASSUME TypeOK, ActiveInv, [Next]_queueVars, backend' # "nsq"
               PROVE  OneCopy'
    BY PlaceStep DEF ActiveInv, OneCopy
  <1> USE DEF OneCopy, Waiting, Active
  <1>p. PlaceInv /\ OneCopy
    BY DEF ActiveInv
  <1>q. outbox \cap queue = {}
    BY <1>p DEF PlaceInv, OnePlace
  <1>n. Job \subseteq Nat
    BY JudgeQueueAssumption DEF Job, JudgeQueueAssumption
  <1>1. ASSUME NEW p \in Process, NEW t \in Task, Offer(p, t)  PROVE OneCopy'
    <2> DEFINE new == [id |-> nextId, job |-> offered + 1, task |-> t, retry |-> 0,
                       tries |-> 0, home |-> p]
    <2>1. new.job = offered + 1 /\ outbox' = outbox \cup {new}
      BY <1>1, <1>p, <1>q DEF Offer
    <2>2. Job \subseteq Nat
      BY JudgeQueueAssumption DEF Job, JudgeQueueAssumption
    <2> HIDE DEF new
    <2>3. /\ \A m \in Waiting : m.job \in Nat /\ m.job <= offered
          /\ \A w \in Worker : Active(w) => held[w].job \in Nat /\ held[w].job <= offered
          /\ offered \in Nat
      BY <1>1, <1>p, <2>2, MessageTypes DEF Offer
    <2>4. /\ \A m \in Waiting : m.job # new.job /\ m.job <= offered + 1
          /\ \A w \in Worker : Active(w) => held[w].job # new.job /\ held[w].job <= offered + 1
      BY <2>1, <2>3
    <2>5. /\ offered' = offered + 1 /\ new.job <= offered'
          /\ \A k \in Job : k > offered' => k > offered
      BY <1>1, <1>p, <1>q, <2>1, <2>2, <2>3 DEF Offer
    <2> QED
      BY <1>1, <1>p, <2>1, <2>4, <2>5 DEF Offer
  <1>2. ASSUME NEW m \in outbox, Publish(m)  PROVE OneCopy'
    BY <1>2, <1>p, <1>q, MessageTypes DEF Publish
  <1>2t. ASSUME NEW m \in outbox, PublishTwice(m)  PROVE OneCopy'
    <2> DEFINE c == [m EXCEPT !.id = nextId]
    <2>1. c.id = nextId /\ c.job = m.job /\ m.id \in Nat /\ m.job \in Job
      BY MessageTypes, SecondEntry
    <2>2. /\ queue' = queue \cup {m, c} /\ outbox' = outbox \ {m} /\ twice' = twice \cup {m.job}
          /\ UNCHANGED <<backend, offered, held, phase>> /\ backend # "nsq"
      BY <1>2t, <1>p, <1>q DEF PublishTwice
    <2> HIDE DEF c
    <2>3. c \notin outbox
      <3>1. nextId \in Nat /\ \A x \in outbox : x.id < nextId
        BY <1>p, MessageTypes DEF PlaceInv, FreshIds
      <3>2. ~(nextId < nextId)
        BY <3>1
      <3> QED
        BY <2>1, <3>1, <3>2
    <2>4. m.job <= offered /\ ~(m.job > offered)
      <3>1. m.job <= offered
        BY <1>p, <2>2
      <3>2. m.job \in Nat /\ offered \in Nat
        BY <1>n, <2>1, MessageTypes
      <3> QED
        BY ONLY <3>1, <3>2
    <2>5. /\ \A x \in Waiting' : x \in Waiting \/ x = c
          /\ \A x \in Waiting : x.job = m.job => x = m \/ m.job \in twice
          /\ \A w \in Worker : Active(w) => held[w].job # m.job \/ m.job \in twice
      BY <1>p, <2>2
    <2> QED
      BY <1>p, <2>1, <2>2, <2>4, <2>5
  <1>3. ASSUME NEW m \in outbox, PublishError(m)  PROVE OneCopy'
    BY <1>3, <1>p, <1>q, MessageTypes DEF PublishError
  <1>4. ASSUME NEW w \in Worker, NEW m \in queue, Take(w, m)  PROVE OneCopy'
    <2>1. Delivered(m).job = m.job
      BY MessageTypes, DeliveredType
    <2> QED
      BY <1>4, <1>p, <1>q, <2>1, MessageTypes DEF Take
  <1>5. ASSUME NEW w \in Worker, NEW m \in queue, GiveUp(w, m)  PROVE OneCopy'
    BY <1>5, <1>p, <1>q DEF GiveUp
  <1>6. ASSUME NEW w \in Worker, HandlerReturns(w)  PROVE OneCopy'
    BY <1>6, <1>p, <1>q, MessageTypes DEF HandlerReturns, LeaveHandler
  <1>7. ASSUME NEW w \in Worker, HandlerPanics(w)  PROVE OneCopy'
    BY <1>7, <1>p, <1>q, MessageTypes DEF HandlerPanics, LeaveHandler
  <1>8. ASSUME NEW w \in Worker, Republish(w)  PROVE OneCopy'
    <2>1. /\ Retried(w).job = held[w].job /\ Retried(w).id = nextId
          /\ queue' = queue \cup {Retried(w)}
      BY <1>8, <1>p, <1>q DEF Republish, Retried
    <2> QED
      BY <1>8, <1>p, <1>q, <2>1, MessageTypes DEF Republish, LeaveHandler
  <1>8t. ASSUME NEW w \in Worker, RepublishTwice(w)  PROVE OneCopy'
    <2> DEFINE r == Retried(w)
               c == [r EXCEPT !.id = nextId + 1]
    <2>1. /\ r.id = nextId /\ c.id = nextId + 1 /\ nextId \in Nat
          /\ r.job = held[w].job /\ c.job = held[w].job
      BY <1>8t, <1>p, <1>q, RetriedType, SecondEntry, MessageTypes DEF RepublishTwice
    <2>2. /\ queue' = queue \cup {r, c} /\ twice' = twice \cup {held[w].job} /\ backend # "nsq"
          /\ phase' = [phase EXCEPT ![w] = "ack"] /\ phase[w] = "requeue"
          /\ UNCHANGED <<backend, offered, outbox, held>>
      BY <1>8t, <1>p, <1>q DEF RepublishTwice, LeaveHandler
    <2> HIDE DEF r, c
    <2>3. /\ held[w].job \in Job /\ held[w].job <= offered /\ ~(held[w].job > offered)
          /\ phase \in [Worker -> {"idle", "handling", "requeue", "ack"}]
      <3>1. held[w].job <= offered
        BY <1>p, <2>2
      <3>2. held[w].job \in Job /\ offered \in Nat /\ phase \in [Worker -> {"idle", "handling", "requeue", "ack"}]
        BY <2>2, MessageTypes
      <3>3. held[w].job \in Nat
        BY <1>n, <3>2
      <3>4. ~(held[w].job > offered)
        BY ONLY <3>1, <3>2, <3>3
      <3> QED
        BY <3>1, <3>2, <3>4
    <2>4. \A x \in Waiting' : x \in Waiting \/ x.job = held[w].job
      BY <2>1, <2>2
    <2>5. \A v \in Worker : Active(v)' => v # w /\ Active(v) /\ held'[v] = held[v]
      BY <2>2, <2>3
    <2>6. \A x \in Waiting : held[w].job # x.job \/ x.job \in twice
      BY <1>p, <2>2
    <2>7. \A v \in Worker \ {w} : Active(v) => held[v].job # held[w].job \/ held[v].job \in twice
      BY <1>p, <2>2
    <2>8. /\ backend' # "nsq" /\ twice' = twice \cup {held[w].job} /\ offered' = offered
      BY <2>2
    <2> HIDE DEF Waiting, Active
    <2> QED
      BY <1>p, <2>2, <2>3, <2>4, <2>5, <2>6, <2>7, <2>8
  <1>9. ASSUME NEW w \in Worker, RepublishError(w)  PROVE OneCopy'
    BY <1>9, <1>p, <1>q, MessageTypes DEF RepublishError, LeaveHandler
  <1>10. ASSUME NEW w \in Worker, Ack(w) \/ AckError(w)  PROVE OneCopy'
    BY <1>10, <1>p, <1>q, MessageTypes DEF Ack, AckError
  <1>11. ASSUME NEW m \in queue, ReplyLost(m)  PROVE OneCopy'
    BY <1>11, <1>p, <1>q DEF ReplyLost
  <1>12. ASSUME NEW m \in unacked, Redeliver(m)  PROVE OneCopy'
    BY <1>12, <1>p, <1>q DEF Redeliver
  <1>13. ASSUME NEW p \in Process, Crash(p)  PROVE OneCopy'
    BY <1>13, <1>p, <1>q, MessageTypes DEF Crash, LocalChannel
  <1>14. CASE UNCHANGED queueVars
    BY <1>14, <1>p, <1>q DEF queueVars
  <1> QED
    BY <1>1, <1>2, <1>2t, <1>3, <1>4, <1>5, <1>6, <1>7, <1>8, <1>8t, <1>9, <1>10, <1>11,
       <1>12, <1>13, <1>14 DEF Next, Consume, Broker

\* With the local channel or a Redis group two goroutines never judge the same task
\* (OneHandlerPerJob of JudgeQueue), although a panicked handler publishes a second
\* message for it before the first is acknowledged.
THEOREM OneHandler == Spec => []OneHandlerPerJob
  <1>1. Init => TypeOK /\ ActiveInv
    BY InitType, JudgeQueueAssumption
       DEF Init, ActiveInv, PlaceInv, FreshIds, OnePlace, OneCopy, Waiting, Active
  <1>2. TypeOK /\ ActiveInv /\ [Next]_queueVars => (TypeOK /\ ActiveInv)'
    BY NextType, ActiveStep
  <1>3. ActiveInv => OneHandlerPerJob
    BY DEF ActiveInv, OneCopy, OneHandlerPerJob, Active
  <1> QED
    BY <1>1, <1>2, <1>3, PTL DEF Spec

-----------------------------------------------------------------------------
(***************************************************************************)
(* The retry count is the number of panics.                                *)
(***************************************************************************)

\* Every step keeps the panics of a task and the retry counts of its copies in step.
LEMMA PanicStep == TypeOK /\ ActiveInv /\ PanicInv /\ [Next]_queueVars => PanicInv'
  <1> SUFFICES ASSUME TypeOK, ActiveInv, PanicInv, [Next]_queueVars, backend' # "nsq"
               PROVE  PanicInv'
    BY DEF PanicInv
  <1> USE DEF PanicInv, OneCopy, PoisonTaskBounded, Counted, Waiting, Active
  <1>p. PlaceInv /\ OneCopy
    BY DEF ActiveInv
  <1>m. MaxRetries \in Nat /\ Job \subseteq Nat
    BY JudgeQueueAssumption DEF Job, JudgeQueueAssumption
  <1>1. ASSUME NEW p \in Process, NEW t \in Task, Offer(p, t)  PROVE PanicInv'
    <2> DEFINE new == [id |-> nextId, job |-> offered + 1, task |-> t, retry |-> 0,
                       tries |-> 0, home |-> p]
    <2>1. new.job = offered + 1 /\ new.retry = 0 /\ outbox' = outbox \cup {new}
      BY <1>1, <1>p DEF Offer
    <2>2. offered + 1 \in Job
      BY <1>1, <1>p, JudgeQueueAssumption, MessageTypes DEF Offer, Job, JudgeQueueAssumption
    <2> HIDE DEF new
    <2> QED
      BY <1>1, <1>p, <1>m, <2>1, <2>2, MessageTypes DEF Offer
  <1>2. ASSUME NEW m \in outbox, Publish(m)  PROVE PanicInv'
    BY <1>2, <1>p, MessageTypes DEF Publish
  <1>2t. ASSUME NEW m \in outbox, PublishTwice(m)  PROVE PanicInv'
    <2> DEFINE c == [m EXCEPT !.id = nextId]
    <2>1. c.job = m.job /\ c.retry = m.retry /\ m.job \in Job
      BY MessageTypes, SecondEntry
    <2>2. /\ queue' = queue \cup {m, c} /\ outbox' = outbox \ {m} /\ twice' = twice \cup {m.job}
          /\ UNCHANGED <<backend, offered, held, phase, dropped, panics>> /\ backend # "nsq"
      BY <1>2t DEF PublishTwice
    <2> HIDE DEF c
    <2> QED
      BY <1>p, <2>1, <2>2, MessageTypes
  <1>3. ASSUME NEW m \in outbox, PublishError(m)  PROVE PanicInv'
    BY <1>3, <1>p, MessageTypes DEF PublishError
  <1>4. ASSUME NEW w \in Worker, NEW m \in queue, Take(w, m)  PROVE PanicInv'
    <2>1. Delivered(m).job = m.job /\ Delivered(m).retry = m.retry
      BY MessageTypes, DeliveredType
    <2> QED
      BY <1>4, <1>p, <2>1, MessageTypes DEF Take
  <1>5. ASSUME NEW w \in Worker, NEW m \in queue, GiveUp(w, m)  PROVE PanicInv'
    BY <1>5, <1>p DEF GiveUp
  <1>6. ASSUME NEW w \in Worker, HandlerReturns(w)  PROVE PanicInv'
    BY <1>6, <1>p, MessageTypes DEF HandlerReturns, LeaveHandler
  <1>7. ASSUME NEW w \in Worker, HandlerPanics(w)  PROVE PanicInv'
    <2> DEFINE j == held[w].job
    <2>1. /\ j \in Job /\ j <= offered /\ held[w].retry <= MaxRetries /\ held[w].retry \in Nat
          /\ j \notin twice => j \notin dropped /\ panics[j] = held[w].retry
          /\ phase[w] = "handling" /\ backend # "nsq"
      BY <1>7, <1>p, MessageTypes DEF HandlerPanics
    <2>2. panics' = [panics EXCEPT ![j] = @ + 1] /\ panics \in [Job -> Nat]
      BY <1>7, <1>p, MessageTypes DEF HandlerPanics
    <2>3. j \notin twice => \A m \in Waiting : m.job # j
      BY <1>p, <2>1
    <2>4. j \notin twice => \A v \in Worker : v # w /\ Active(v) => held[v].job # j
      BY <1>p, <2>1
    <2>5. CASE held[w].retry + 1 > MaxRetries
      BY <1>7, <1>p, <1>m, <2>1, <2>2, <2>3, <2>4, <2>5, MessageTypes DEF HandlerPanics, LeaveHandler
    <2>6. CASE held[w].retry + 1 <= MaxRetries
      BY <1>7, <1>p, <1>m, <2>1, <2>2, <2>3, <2>4, <2>6, MessageTypes DEF HandlerPanics
    <2> QED
      BY <1>m, <2>1, <2>5, <2>6
  <1>8. ASSUME NEW w \in Worker, Republish(w)  PROVE PanicInv'
    <2>1. /\ Retried(w).job = held[w].job /\ Retried(w).retry = held[w].retry + 1
          /\ queue' = queue \cup {Retried(w)}
      BY <1>8, <1>p DEF Republish, Retried
    <2> QED
      BY <1>8, <1>p, <1>m, <2>1, MessageTypes DEF Republish, LeaveHandler
  <1>8t. ASSUME NEW w \in Worker, RepublishTwice(w)  PROVE PanicInv'
    <2> DEFINE r == Retried(w)
               c == [r EXCEPT !.id = nextId + 1]
    <2>1. /\ r.job = held[w].job /\ c.job = held[w].job /\ held[w].job \in Job
          /\ r.retry = held[w].retry + 1 /\ c.retry = held[w].retry + 1
      BY <1>8t, RetriedType, SecondEntry, MessageTypes DEF RepublishTwice
    <2>2. /\ queue' = queue \cup {r, c} /\ twice' = twice \cup {held[w].job} /\ backend # "nsq"
          /\ phase' = [phase EXCEPT ![w] = "ack"] /\ phase[w] = "requeue"
          /\ UNCHANGED <<backend, offered, outbox, held, dropped, panics>>
      BY <1>8t DEF RepublishTwice, LeaveHandler
    <2> HIDE DEF r, c
    <2> QED
      BY <1>m, <1>p, <2>1, <2>2, MessageTypes
  <1>9. ASSUME NEW w \in Worker, RepublishError(w)  PROVE PanicInv'
    BY <1>9, <1>p, MessageTypes DEF RepublishError, LeaveHandler
  <1>10. ASSUME NEW w \in Worker, Ack(w) \/ AckError(w)  PROVE PanicInv'
    BY <1>10, <1>p, MessageTypes DEF Ack, AckError
  <1>11. ASSUME NEW m \in queue, ReplyLost(m)  PROVE PanicInv'
    BY <1>11, <1>p DEF ReplyLost
  <1>12. ASSUME NEW m \in unacked, Redeliver(m)  PROVE PanicInv'
    BY <1>12, <1>p DEF Redeliver
  <1>13. ASSUME NEW p \in Process, Crash(p)  PROVE PanicInv'
    BY <1>13, <1>p, MessageTypes DEF Crash, LocalChannel
  <1>14. CASE UNCHANGED queueVars
    BY <1>14, <1>p DEF queueVars
  <1> QED
    BY <1>1, <1>2, <1>2t, <1>3, <1>4, <1>5, <1>6, <1>7, <1>8, <1>8t, <1>9, <1>10, <1>11,
       <1>12, <1>13, <1>14 DEF Next, Consume, Broker

\* A task whose handler always panics is handled MaxRetries + 1 times and then given
\* up, whatever MaxRetries is (PoisonTaskBounded of JudgeQueue).
THEOREM PoisonBounded == Spec => []PoisonTaskBounded
  <1>1. Init => TypeOK /\ ActiveInv /\ PanicInv
    <2>1. Init => TypeOK /\ ActiveInv
      BY InitType, JudgeQueueAssumption
         DEF Init, ActiveInv, PlaceInv, FreshIds, OnePlace, OneCopy, Waiting, Active
    <2>2. Init => PanicInv
      BY JudgeQueueAssumption DEF Init, PanicInv, PoisonTaskBounded, Waiting, JudgeQueueAssumption
    <2> QED
      BY <2>1, <2>2
  <1>2. TypeOK /\ ActiveInv /\ PanicInv /\ [Next]_queueVars => (TypeOK /\ ActiveInv /\ PanicInv)'
    BY NextType, ActiveStep, PanicStep
  <1>3. TypeOK /\ PanicInv => PoisonTaskBounded
    BY DEF PanicInv, PoisonTaskBounded
  <1> QED
    BY <1>1, <1>2, <1>3, PTL DEF Spec

-----------------------------------------------------------------------------
(***************************************************************************)
(* The status of a task is determined by which copies of it there are.     *)
(***************************************************************************)

\* A copy of task j is with the queue or with a goroutine.
Owing(j) ==
  \/ \E m \in queue \cup unacked : m.job = j
  \/ \E w \in Worker : phase[w] # "idle" /\ held[w].job = j

\* Publish has been called for task j and has not returned.
Asked(j) == \E m \in outbox : m.job = j

Durable == backend # "local" /\ faults = 0

(***************************************************************************)
(* What the status of a task rests on: nothing is known of a task before   *)
(* it is offered; while its first Publish call is under way the message of *)
(* that call is its only copy and nothing has happened to it; and a        *)
(* durable queue has no copy of a task that was lost.                      *)
(***************************************************************************)
OfferedInv == \A j \in Job : Owing(j) \/ Asked(j) \/ Settled(j) => j <= offered

OutboxInv ==
  /\ \A m \in outbox : ~Owing(m.job) /\ ~Settled(m.job)
  /\ \A x, y \in outbox : x.job = y.job => x = y

LostInv == Durable => \A j \in lost : ~Owing(j)

PromiseInv == OfferedInv /\ OutboxInv /\ LostInv

-----------------------------------------------------------------------------
(***************************************************************************)
(* Every step but Offer and Publish is quiet: no task gains a copy it did  *)
(* not have, only tasks that have a copy end, and a message that leaves    *)
(* the outbox is lost with its task.                                       *)
(***************************************************************************)
QuietFor(j) ==
  /\ Owing(j)' => Owing(j)
  /\ j \in handled' => j \in handled \/ Owing(j)
  /\ j \in dropped => j \in dropped'
  /\ j \in dropped' => j \in dropped \/ Owing(j)
  /\ j \in lost' => j \in lost \/ (Owing(j) /\ ~Durable') \/ (Asked(j) /\ ~Asked(j)')
  /\ Asked(j) /\ ~Asked(j)' => j \in lost'

Quiet ==
  /\ offered' = offered /\ outbox' \subseteq outbox /\ handled \subseteq handled'
  /\ Durable' => Durable
  /\ \A j \in Job : QuietFor(j)

\* The steps that put a task where it was not before.
Loud ==
  \/ \E p \in Process, t \in Task : Offer(p, t)
  \/ \E m \in outbox : Publish(m) \/ PublishTwice(m)

\* A goroutine's step is quiet.
LEMMA ConsumeQuiet ==
  ASSUME TypeOK, PlaceInv, PromiseInv, NEW w \in Worker, Consume(w)
  PROVE  Quiet
  <1> USE DEF Quiet, QuietFor, Owing, Asked, Durable
  <1>1. ASSUME NEW m \in queue, Take(w, m)  PROVE Quiet
    <2>1. Delivered(m).job = m.job
      BY MessageTypes, DeliveredType DEF Waiting
    <2> QED
      BY <1>1, <2>1, MessageTypes DEF Take, Pending
  <1>2. ASSUME NEW m \in queue, GiveUp(w, m)  PROVE Quiet
    BY <1>2, MessageTypes DEF GiveUp
  <1>3. CASE HandlerReturns(w)
    BY <1>3, MessageTypes DEF HandlerReturns, LeaveHandler
  <1>4. CASE HandlerPanics(w)
    BY <1>4, MessageTypes DEF HandlerPanics, LeaveHandler
  <1>5. CASE Republish(w)
    <2>1. Retried(w).job = held[w].job /\ queue' = queue \cup {Retried(w)}
      BY <1>5 DEF Republish, Retried
    <2> QED
      BY <1>5, <2>1, MessageTypes DEF Republish, LeaveHandler
  <1>5t. CASE RepublishTwice(w)
    <2> DEFINE r == Retried(w)
               c == [r EXCEPT !.id = nextId + 1]
    <2>1. r.job = held[w].job /\ c.job = held[w].job
      BY <1>5t, RetriedType, SecondEntry, MessageTypes DEF RepublishTwice
    <2>2. /\ queue' = queue \cup {r, c}
          /\ phase' = [phase EXCEPT ![w] = "ack"] /\ phase[w] = "requeue"
          /\ UNCHANGED <<backend, unacked, offered, outbox, held, faults, handled, dropped, lost>>
      BY <1>5t DEF RepublishTwice, LeaveHandler
    <2> HIDE DEF r, c
    <2> QED
      BY <2>1, <2>2, MessageTypes
  <1>6. CASE RepublishError(w)
    <2>1. faults' # 0
      BY <1>6 DEF RepublishError, TypeOK
    <2> QED
      BY <1>6, <2>1, MessageTypes DEF RepublishError, LeaveHandler
  <1>7. CASE Ack(w)
    BY <1>7, MessageTypes DEF Ack
  <1>8. CASE AckError(w)
    <2>1. faults' # 0
      BY <1>8 DEF AckError, TypeOK
    <2> QED
      BY <1>8, <2>1, MessageTypes DEF AckError
  <1> QED
    BY <1>1, <1>2, <1>3, <1>4, <1>5, <1>5t, <1>6, <1>7, <1>8 DEF Consume

\* Every step is quiet, or offers a task, or publishes one.
LEMMA NextQuiet ==
  ASSUME TypeOK, PlaceInv, PromiseInv, [Next]_queueVars
  PROVE  Quiet \/ Loud
  <1>1. ASSUME NEW m \in outbox, PublishError(m)  PROVE Quiet
    <2>1. faults' # 0 /\ ~Durable'
      BY <1>1 DEF PublishError, TypeOK, Durable
    <2>2. ~Asked(m.job)' /\ Asked(m.job)
      BY <1>1 DEF PublishError, PromiseInv, OutboxInv, Asked
    <2> QED
      BY <1>1, <2>1, <2>2 DEF Quiet, QuietFor, Owing, Asked, PublishError
  <1>2. ASSUME NEW w \in Worker, Consume(w)  PROVE Quiet
    BY <1>2, ConsumeQuiet
  <1>3. ASSUME NEW m \in queue, ReplyLost(m)  PROVE Quiet
    <2>1. Delivered(m).job = m.job
      BY MessageTypes, DeliveredType DEF Waiting
    <2>2. faults' # 0
      BY <1>3 DEF ReplyLost, TypeOK
    <2> QED
      BY <1>3, <2>1, <2>2 DEF Quiet, QuietFor, Owing, Asked, Durable, ReplyLost
  <1>4. ASSUME NEW m \in unacked, Redeliver(m)  PROVE Quiet
    BY <1>4 DEF Quiet, QuietFor, Owing, Asked, Durable, Redeliver
  <1>5. ASSUME NEW p \in Process, Crash(p)  PROVE Quiet
    <2>1. \A j \in Job : Owing(j)' => Owing(j)
      BY <1>5, MessageTypes DEF Crash, Owing
    <2>2. ASSUME NEW j \in Job, j \in lost', j \notin lost, Durable', ~(Asked(j) /\ ~Asked(j)')
          PROVE  FALSE
      <3>1. PICK m \in outbox : m.home = p /\ m.job = j
        BY <1>5, <2>2 DEF Crash, Durable
      <3>2. ~Asked(j)'
        BY <1>5, <3>1 DEF Crash, Asked, PromiseInv, OutboxInv
      <3> QED
        BY <2>2, <3>1, <3>2 DEF Asked
    <2>3. ASSUME NEW j \in Job, j \in lost', j \notin lost, ~Durable', ~(Asked(j) /\ ~Asked(j)')
          PROVE  Owing(j)
      <3>1. CASE \E m \in outbox : m.home = p /\ m.job = j
        <4>1. ~Asked(j)' /\ Asked(j)
          BY <1>5, <3>1 DEF Crash, Asked, PromiseInv, OutboxInv
        <4> QED
          BY <2>3, <4>1
      <3>2. CASE ~\E m \in outbox : m.home = p /\ m.job = j
        BY <1>5, <2>3, <3>2 DEF Crash, Owing, LocalChannel
      <3> QED
        BY <3>1, <3>2
    <2>4. ASSUME NEW j \in Job, Asked(j), ~Asked(j)'  PROVE j \in lost'
      BY <1>5, <2>4 DEF Crash, Asked
    <2>5. /\ offered' = offered /\ outbox' \subseteq outbox /\ handled' = handled
          /\ dropped' = dropped /\ Durable' = Durable
      BY <1>5 DEF Crash, Durable
    <2> QED
      BY <2>1, <2>2, <2>3, <2>4, <2>5 DEF Quiet, QuietFor
  <1>6. CASE UNCHANGED queueVars
    BY <1>6 DEF Quiet, QuietFor, Owing, Asked, Durable, queueVars
  <1> QED
    BY <1>1, <1>2, <1>3, <1>4, <1>5, <1>6 DEF Next, Broker, Loud

-----------------------------------------------------------------------------
(***************************************************************************)
(* The invariant the statuses rest on.                                     *)
(***************************************************************************)

\* A task that is being offered is new: nothing is known of it yet.
LEMMA OfferIsNew ==
  ASSUME TypeOK, PromiseInv, NEW p \in Process, NEW t \in Task, Offer(p, t)
  PROVE  LET k == offered + 1
         IN /\ k \in Job /\ k > offered /\ offered' = k
            /\ ~Owing(k) /\ ~Asked(k) /\ ~Settled(k)
            /\ \A j \in Job : (Owing(j)' <=> Owing(j)) /\ (Settled(j)' <=> Settled(j))
            /\ \A j \in Job : Asked(j)' <=> Asked(j) \/ j = k
            /\ \A x \in outbox' : x \in outbox \/ x.job = k
            /\ \A x, y \in outbox' : x.job = k /\ y.job = k => x = y
            /\ Durable' = Durable /\ lost' = lost /\ handled' = handled /\ dropped' = dropped
  <1> DEFINE k == offered + 1
             new == [id |-> nextId, job |-> k, task |-> t, retry |-> 0, tries |-> 0, home |-> p]
  <1>1. new.job = k /\ outbox' = outbox \cup {new}
    BY DEF Offer
  <1>2. k \in Job /\ k > offered /\ offered' = k /\ ~(k <= offered)
    BY JudgeQueueAssumption, MessageTypes DEF Offer, Job, JudgeQueueAssumption
  <1>3. ~Owing(k) /\ ~Asked(k) /\ ~Settled(k)
    BY <1>2 DEF PromiseInv, OfferedInv
  <1>4. UNCHANGED <<backend, queue, unacked, held, phase, faults, handled, dropped, lost>>
    BY DEF Offer
  <1> HIDE DEF new, k
  <1>5. /\ \A x \in outbox' : x \in outbox \/ x.job = k
        /\ \A x, y \in outbox' : x.job = k /\ y.job = k => x = y
        /\ \A j \in Job : Asked(j)' <=> Asked(j) \/ j = k
    BY <1>1, <1>3 DEF Asked
  <1>6. /\ \A j \in Job : (Owing(j)' <=> Owing(j)) /\ (Settled(j)' <=> Settled(j))
        /\ Durable' = Durable
    BY <1>4 DEF Owing, Settled, Durable
  <1> QED
    BY <1>2, <1>3, <1>4, <1>5, <1>6 DEF k

\* A task that is being published has no copy but the message in the outbox.
LEMMA PublishMoves ==
  ASSUME TypeOK, PromiseInv, NEW m \in outbox, Publish(m) \/ PublishTwice(m)
  PROVE  LET k == m.job
         IN /\ k \in Job /\ ~Owing(k) /\ Asked(k) /\ ~Settled(k)
            /\ Owing(k)' /\ ~Asked(k)'
            /\ \A j \in Job : j # k => (Owing(j)' <=> Owing(j)) /\ (Asked(j)' <=> Asked(j))
            /\ outbox' \subseteq outbox /\ offered' = offered
            /\ Durable' = Durable /\ lost' = lost /\ handled' = handled /\ dropped' = dropped
  <1> DEFINE c == [m EXCEPT !.id = nextId]
  <1>1. /\ outbox' = outbox \ {m} /\ queue' \in {queue \cup {m}, queue \cup {m, c}}
        /\ UNCHANGED <<backend, unacked, held, phase, offered, faults, handled, dropped, lost>>
    BY DEF Publish, PublishTwice
  <1>2. m.job \in Job /\ c.job = m.job
    BY MessageTypes, SecondEntry DEF Waiting
  <1> HIDE DEF c
  <1>3. ~Owing(m.job) /\ ~Settled(m.job) /\ \A x \in outbox : x.job = m.job => x = m
    BY DEF PromiseInv, OutboxInv
  <1> QED
    BY <1>1, <1>2, <1>3 DEF Owing, Asked, Durable

\* PromiseInv holds in every state.
LEMMA PromiseStep ==
  ASSUME TypeOK, PlaceInv, PromiseInv, [Next]_queueVars
  PROVE  PromiseInv'
  <1>j. (\A m \in outbox : m.job \in Job) /\ (\A m \in outbox' : m.job \in Job)
        /\ handled \subseteq Job /\ lost' \subseteq Job
    <2>1. TypeOK'
      BY NextType
    <2> QED
      BY <2>1 DEF TypeOK, Message
  <1>1. CASE Quiet
    BY <1>1, <1>j DEF PromiseInv, OfferedInv, OutboxInv, LostInv, Quiet, QuietFor, Settled, Asked
  <1>2. ASSUME NEW p \in Process, NEW t \in Task, Offer(p, t)  PROVE PromiseInv'
    <2>1. Job \subseteq Nat /\ offered \in Nat
      BY JudgeQueueAssumption, MessageTypes DEF Job, JudgeQueueAssumption
    <2>2. OfferedInv'
      BY <1>2, <2>1, OfferIsNew DEF PromiseInv, OfferedInv
    <2>3. OutboxInv'
      BY <1>2, <1>j, OfferIsNew DEF PromiseInv, OutboxInv
    <2>4. LostInv'
      BY <1>2, <1>j, OfferIsNew DEF PromiseInv, LostInv
    <2> QED
      BY <2>2, <2>3, <2>4 DEF PromiseInv
  <1>3. ASSUME NEW m \in outbox, Publish(m) \/ PublishTwice(m)  PROVE PromiseInv'
    <2>1. OfferedInv'
      BY <1>3, PublishMoves DEF PromiseInv, OfferedInv, Settled
    <2>2. OutboxInv'
      BY <1>3, <1>j, PublishMoves DEF PromiseInv, OutboxInv, Settled, Asked
    <2>3. LostInv'
      BY <1>3, <1>j, PublishMoves DEF PromiseInv, LostInv, Settled
    <2> QED
      BY <2>1, <2>2, <2>3 DEF PromiseInv
  <1> QED
    BY <1>1, <1>2, <1>3, NextQuiet DEF Loud

-----------------------------------------------------------------------------
(***************************************************************************)
(* The steps of TaskDelivery.                                              *)
(***************************************************************************)

\* The status of a task by the facts above; the cases of Status do not overlap.
StatusIs(j) ==
  IF j \in handled THEN Status(j) = "done"
  ELSE IF Owing(j) THEN Status(j) = "owed"
  ELSE IF Asked(j) THEN Status(j) = "offered"
  ELSE IF j > offered THEN Status(j) = "none"
  ELSE IF j \in dropped THEN Status(j) = "dropped"
  ELSE Status(j) = "lost"

\* Status is what StatusIs says, whenever no task is both offered and handled.
LEMMA StatusByFacts ==
  ASSUME PromiseInv, NEW j \in Job
  PROVE  StatusIs(j)
  <1>1. Asked(j) => j \notin handled /\ ~Owing(j)
    BY DEF PromiseInv, OutboxInv, Asked, Settled
  <1>2. (\E m \in queue \cup unacked \cup HeldMessages : m.job = j) <=> Owing(j)
    BY DEF Owing, HeldMessages
  <1>3. (\E m \in outbox : m.job = j) <=> Asked(j)
    BY DEF Asked
  <1> HIDE DEF Owing, Asked
  <1> QED
    BY <1>1, <1>2, <1>3 DEF Status, StatusIs

\* StatusIs before and after a step.
LEMMA StatusBoth ==
  ASSUME PromiseInv, PromiseInv', NEW j \in Job
  PROVE  StatusIs(j) /\ StatusIs(j)'
  BY StatusByFacts, PTL

\* If each task keeps its status, or is lost or dropped as Fail allows, the step is Fail.
LEMMA FailStep ==
  ASSUME Durable' => Durable, Durable \in BOOLEAN, Durable' \in BOOLEAN,
         \A j \in Job :
           \/ Status(j)' = Status(j)
           \/ /\ Status(j)' = "lost"
              /\ Status(j) \in IF Durable' THEN {"offered"} ELSE {"offered", "owed"}
           \/ Status(j)' = "dropped" /\ Status(j) = "owed"
  PROVE  Promise!Fail
  <1> DEFINE L == {j \in Job : Status(j)' = "lost" /\ Status(j) # "lost"}
             D == {j \in Job : Status(j)' = "dropped" /\ Status(j) # "dropped"}
             was == [j \in Job |-> Status(j)]
             is  == [j \in Job |-> Status(j)']
  <1>1. L \in SUBSET Job /\ D \in SUBSET Job
    OBVIOUS
  <1>2. /\ \A j \in L : was[j] \in IF Durable' THEN {"offered"} ELSE {"offered", "owed"}
        /\ \A j \in D : was[j] = "owed"
    OBVIOUS
  <1>3. is = [j \in Job |-> IF j \in L THEN "lost" ELSE IF j \in D THEN "dropped" ELSE was[j]]
    OBVIOUS
  <1>4. Durable' \in {Durable, FALSE}
    OBVIOUS
  <1> HIDE DEF L, D
  <1> QED
    BY <1>1, <1>2, <1>3, <1>4 DEF Promise!Fail, Durable

\* A task that loses its last copy has been settled: no copy is given up before.
LEMMA LastCopy ==
  ASSUME TypeOK, LossInv, PromiseInv, [Next]_queueVars, Quiet, NEW j \in Job,
         Owing(j), ~Owing(j)', j \notin handled'
  PROVE  j \in dropped' \/ (j \in lost' /\ ~Durable')
  <1>1. j \in 1 .. offered' /\ ~Asked(j)'
    BY MessageTypes, JudgeQueueAssumption
       DEF PromiseInv, OfferedInv, OutboxInv, Quiet, Job, Asked, JudgeQueueAssumption
  <1>2. Live(j)'
    BY <1>1, OfferLive
  <1>3. Settled(j)'
    BY <1>1, <1>2 DEF Live, Owing, Asked, Waiting, Active
  <1> QED
    BY <1>3 DEF Settled, Quiet, QuietFor, PromiseInv, LostInv, OutboxInv, Asked

\* A quiet step is a failure of TaskDelivery, unless a handler returns in it.
LEMMA QuietFails ==
  ASSUME TypeOK, LossInv, PromiseInv, PromiseInv', [Next]_queueVars, Quiet, handled' = handled
  PROVE  Promise!Fail
  <1> SUFFICES ASSUME NEW j \in Job
               PROVE  \/ Status(j)' = Status(j)
                      \/ /\ Status(j)' = "lost"
                         /\ Status(j) \in IF Durable' THEN {"offered"} ELSE {"offered", "owed"}
                      \/ Status(j)' = "dropped" /\ Status(j) = "owed"
    BY FailStep DEF Quiet, Durable
  <1>1. StatusIs(j) /\ StatusIs(j)'
    BY StatusBoth
  <1>2. QuietFor(j) /\ offered' = offered
    BY DEF Quiet
  <1>3. j > offered => ~Owing(j) /\ ~Asked(j)
    BY MessageTypes, JudgeQueueAssumption DEF PromiseInv, OfferedInv, Job, JudgeQueueAssumption
  <1>4. Asked(j)' => Asked(j)
    BY DEF Quiet, Asked
  <1>5. Asked(j) => ~Owing(j) /\ ~Settled(j)
    BY DEF PromiseInv, OutboxInv, Asked
  <1>6. CASE j \in handled
    BY <1>1, <1>6 DEF StatusIs
  <1>7. CASE j \notin handled /\ Owing(j)
    <2>1. ~Asked(j)' /\ ~(j > offered)
      BY <1>3, <1>4, <1>5, <1>7
    <2>2. CASE Owing(j)'
      BY <1>1, <1>7, <2>2 DEF StatusIs
    <2>3. CASE ~Owing(j)'
      BY <1>1, <1>2, <1>7, <2>1, <2>3, LastCopy DEF StatusIs
    <2> QED
      BY <2>2, <2>3
  <1>8. CASE j \notin handled /\ Asked(j)
    <2>1. ~Owing(j)' /\ ~Owing(j) /\ j \notin dropped' /\ ~(j > offered)
      BY <1>2, <1>3, <1>5, <1>8 DEF QuietFor, Settled
    <2> QED
      BY <1>1, <1>2, <1>8, <2>1 DEF StatusIs, QuietFor
  <1>9. CASE j \notin handled /\ ~Owing(j) /\ ~Asked(j)
    BY <1>1, <1>2, <1>4, <1>9 DEF StatusIs, QuietFor
  <1> QED
    BY <1>6, <1>7, <1>8, <1>9

\* One task changes its status, the rest keep theirs.
LEMMA MoveStep ==
  ASSUME NEW k \in Job, NEW from, NEW to, Status(k) \in from, Status(k)' = to,
         \A j \in Job : j # k => Status(j)' = Status(j), Durable' = Durable
  PROVE  Promise!Move(k, from, to)
  <1> DEFINE was == [j \in Job |-> Status(j)]
             is  == [j \in Job |-> Status(j)']
  <1>1. was[k] \in from /\ is = [was EXCEPT ![k] = to]
    OBVIOUS
  <1> QED
    BY <1>1 DEF Promise!Move, Durable

\* Offer is TaskDelivery's Offer.
LEMMA OfferMoves ==
  ASSUME TypeOK, PromiseInv, PromiseInv', NEW p \in Process, NEW t \in Task, Offer(p, t)
  PROVE  Promise!Next
  <1>k. PICK k \in Job : k = offered + 1
    BY OfferIsNew
  <1>1. ASSUME NEW j \in Job  PROVE StatusIs(j) /\ StatusIs(j)'
    BY StatusBoth
  <1>2. /\ k \in Job /\ k > offered /\ offered' = k /\ ~(k > offered')
        /\ ~Owing(k) /\ ~Asked(k) /\ ~Settled(k)
        /\ ~Owing(k)' /\ Asked(k)' /\ k \notin handled /\ k \notin handled'
    <2>1. offered \in Nat
      BY MessageTypes
    <2>2. /\ offered' = k /\ ~Owing(k) /\ ~Asked(k) /\ ~Settled(k)
          /\ ~Owing(k)' /\ Asked(k)' /\ handled' = handled
      BY <1>k, OfferIsNew
    <2> QED
      BY <1>k, <2>1, <2>2 DEF Settled
  <1>3. Status(k) = "none" /\ Status(k)' = "offered"
    <2>1. StatusIs(k) /\ StatusIs(k)'
      BY <1>1
    <2> QED
      BY <1>2, <2>1 DEF StatusIs
  <1>4. ASSUME NEW j \in Job, j # k  PROVE Status(j)' = Status(j)
    <2>1. /\ (Owing(j)' <=> Owing(j)) /\ (Asked(j)' <=> Asked(j))
          /\ handled' = handled /\ dropped' = dropped
      BY <1>k, <1>4, OfferIsNew
    <2>2. j > offered <=> j > offered'
      BY <1>k, <1>2, <1>4, MessageTypes, JudgeQueueAssumption DEF Job, JudgeQueueAssumption
    <2> QED
      BY <1>1, <2>1, <2>2 DEF StatusIs
  <1>5. Durable' = Durable
    BY OfferIsNew
  <1>6. Promise!Move(k, {"none"}, "offered")
    BY <1>3, <1>4, <1>5, MoveStep
  <1> QED
    BY <1>2, <1>6 DEF Promise!Next, Promise!Offer

\* Publish is TaskDelivery's Accept.
LEMMA PublishAccepts ==
  ASSUME TypeOK, PromiseInv, PromiseInv', NEW m \in outbox, Publish(m) \/ PublishTwice(m)
  PROVE  Promise!Next
  <1> DEFINE k == m.job
  <1>1. ASSUME NEW j \in Job  PROVE StatusIs(j) /\ StatusIs(j)'
    BY StatusBoth
  <1>2. /\ k \in Job /\ ~Owing(k) /\ Asked(k) /\ Owing(k)'
        /\ k \notin handled /\ k \notin handled'
    BY PublishMoves DEF Settled
  <1>3. Status(k) = "offered" /\ Status(k)' = "owed"
    BY <1>1, <1>2 DEF StatusIs
  <1>4. ASSUME NEW j \in Job, j # k  PROVE Status(j)' = Status(j)
    <2>1. /\ (Owing(j)' <=> Owing(j)) /\ (Asked(j)' <=> Asked(j))
          /\ handled' = handled /\ dropped' = dropped /\ offered' = offered
      BY <1>4, PublishMoves
    <2> QED
      BY <1>1, <2>1 DEF StatusIs
  <1>5. Durable' = Durable
    BY PublishMoves
  <1>6. Promise!Move(k, {"offered"}, "owed")
    <2> HIDE DEF k
    <2> QED
      BY <1>2, <1>3, <1>4, <1>5, MoveStep
  <1> QED
    BY <1>2, <1>6 DEF Promise!Next, Promise!Accept

\* A handler that returns finishes its task, or finds it finished by another delivery.
LEMMA ReturnFinishes ==
  ASSUME TypeOK, LossInv, PromiseInv, PromiseInv', NEW w \in Worker, HandlerReturns(w)
  PROVE  Promise!Next
  <1>k. PICK k \in Job : k = held[w].job
    BY MessageTypes DEF HandlerReturns
  <1>1. Owing(k) /\ handled' = handled \cup {k}
    BY <1>k DEF HandlerReturns, Owing
  <1>2. CASE k \in handled
    <2>1. Quiet /\ [Next]_queueVars
      BY ConsumeQuiet DEF Consume, Next, LossInv
    <2>2. Promise!Fail
      BY <1>1, <1>2, <2>1, QuietFails
    <2> QED
      BY <2>2 DEF Promise!Next
  <1>3. CASE k \notin handled
    <2>1. ASSUME NEW j \in Job  PROVE StatusIs(j) /\ StatusIs(j)'
      BY StatusBoth
    <2>2. Status(k) = "owed" /\ Status(k)' = "done"
      <3>1. StatusIs(k) /\ StatusIs(k)'
        BY <2>1
      <3> QED
        BY <1>1, <1>3, <3>1 DEF StatusIs
    <2>3. ASSUME NEW j \in Job, j # k  PROVE Status(j)' = Status(j)
      <3>1. /\ (Owing(j)' <=> Owing(j)) /\ (Asked(j)' <=> Asked(j))
            /\ dropped' = dropped /\ offered' = offered
        BY <1>k, <2>3, MessageTypes DEF HandlerReturns, LeaveHandler, Owing, Asked
      <3> QED
        BY <1>1, <2>1, <2>3, <3>1 DEF StatusIs
    <2>4. Durable' = Durable
      BY DEF HandlerReturns, Durable
    <2>5. Promise!Move(k, {"owed"}, "done")
      BY <2>2, <2>3, <2>4, MoveStep
    <2> QED
      BY <1>1, <2>5 DEF Promise!Next, Promise!Finish
  <1> QED
    BY <1>2, <1>3

\* Each step of the queue is a step of TaskDelivery.
LEMMA StepPromised ==
  ASSUME TypeOK, LossInv, PromiseInv, PromiseInv', [Next]_queueVars
  PROVE  Promise!Next
  <1>1. CASE Loud
    BY <1>1, OfferMoves, PublishAccepts DEF Loud
  <1>2. CASE \E w \in Worker : HandlerReturns(w)
    BY <1>2, ReturnFinishes
  <1>3. CASE ~Loud /\ ~(\E w \in Worker : HandlerReturns(w))
    <2>1. handled' = handled
      BY <1>3 DEF Loud, Next, Consume, Broker, queueVars, PublishError, Take, GiveUp, ReplyLost,
             HandlerPanics, Republish, RepublishTwice, RepublishError, Ack, AckError, Redeliver, Crash
    <2>2. Quiet
      BY <1>3, NextQuiet DEF LossInv
    <2>3. Promise!Fail
      BY <2>1, <2>2, QuietFails
    <2> QED
      BY <2>3 DEF Promise!Next
  <1> QED
    BY <1>1, <1>2, <1>3

\* The queue starts as TaskDelivery does: no task has been offered.
LEMMA InitPromised == Init => PromiseInv /\ Promise!Init
  <1> SUFFICES ASSUME Init  PROVE PromiseInv /\ Promise!Init
    OBVIOUS
  <1>1. \A j \in Job : ~Owing(j) /\ ~Asked(j) /\ ~Settled(j)
    BY DEF Init, Owing, Asked, Settled
  <1>2. PromiseInv
    BY <1>1 DEF Init, PromiseInv, OfferedInv, OutboxInv, LostInv
  <1>3. ASSUME NEW j \in Job  PROVE Status(j) = "none"
    <2>1. j > offered
      BY DEF Init, Job
    <2> QED
      BY <1>1, <1>2, <2>1, StatusByFacts DEF StatusIs, Settled
  <1> QED
    BY <1>2, <1>3 DEF Promise!Init

\* The judge queue keeps DeliveryPromise: with each of its backends, and whatever fails,
\* every task goes through the life cycle of TaskDelivery; a task that NSQ or Redis has
\* accepted is never lost to a crash, and a task that has ended never comes back.
THEOREM QueueDelivers == Spec => DeliveryPromise
  <1>1. Init => TypeOK /\ LossInv /\ PromiseInv /\ Promise!Init
    BY InitType, InitPromised, JudgeQueueAssumption
       DEF Init, LossInv, PlaceInv, FreshIds, OnePlace, Waiting, TypeOK
  <1>2. TypeOK /\ LossInv /\ PromiseInv /\ [Next]_queueVars => (TypeOK /\ LossInv /\ PromiseInv)'
    BY NextType, PlaceStep, OfferLive, PromiseStep DEF LossInv, PlaceInv
  <1>3. TypeOK /\ LossInv /\ PromiseInv /\ PromiseInv' /\ [Next]_queueVars => Promise!Next
    BY StepPromised
  <1> QED
    BY <1>1, <1>2, <1>3, PTL DEF Spec, DeliveryPromise, Promise!Spec

-----------------------------------------------------------------------------
(***************************************************************************)
(* The composition.                                                        *)
(***************************************************************************)

\* Every step of the pipeline is a step of the queue or leaves it alone.
LEMMA QueueStep == [PipelineNext]_vars => [Next]_queueVars
  <1> SUFFICES ASSUME [PipelineNext]_vars  PROVE [Next]_queueVars
    OBVIOUS
  <1> USE DEF Next
  <1>t. \A s \in Sub, c \in BOOLEAN : [sub |-> s, contest |-> c] \in Task
    BY PipelineAssumption DEF PipelineAssumption, JudgeTasks
  <1>1. ASSUME NEW p \in Process, NEW s \in Sub,
               Submit(p, s) \/ ContestSubmit(p, s) \/ ReJudge(p, s) \/ ReJudgeError(p, s)
        PROVE  Next
    <2>1. \E c \in BOOLEAN : Offer(p, [sub |-> s, contest |-> c])
      BY <1>1 DEF Submit, ContestSubmit, ReJudge, ReJudgeError, PublishTask
    <2> QED
      BY <1>t, <2>1
  <1>2. ASSUME NEW w \in Worker, JudgeTask(w)  PROVE [Next]_queueVars
    BY <1>2 DEF JudgeTask, Begin, NoTestCases, NoTestCasesError, Judge, WriteFailure, TxCount,
                TxCommit, TxCommitUncounted, CommitAccepted, DbError, Announce, Rank, Finish,
                Panic, Consume
  <1>3. ASSUME NEW w \in Worker, ConsumerLoop(w)  PROVE Next
    BY <1>3 DEF ConsumerLoop, Consume
  <1>4. ASSUME NEW m \in outbox, PublishStep(m)  PROVE Next
    BY <1>4 DEF PublishStep
  <1>5. ASSUME NEW k \in Key, DedupExpires(k)  PROVE UNCHANGED queueVars
    BY <1>5 DEF DedupExpires
  <1>6. CASE BrokerStep
    BY <1>6 DEF BrokerStep
  <1>7. ASSUME NEW p \in Process, ProcessCrash(p)  PROVE Next
    BY <1>7 DEF ProcessCrash
  <1>8. CASE UNCHANGED vars
    BY <1>8 DEF vars
  <1> QED
    BY <1>1, <1>2, <1>3, <1>4, <1>5, <1>6, <1>7, <1>8 DEF PipelineNext

\* The pipeline uses the queue as JudgeQueue describes it, so what holds of every
\* behaviour of the queue holds in the pipeline.
THEOREM PipelineUsesQueue == PipelineSpec => Spec
  <1>1. PipelineInit => Init
    BY DEF PipelineInit
  <1> QED
    BY <1>1, QueueStep, PTL DEF PipelineSpec, Spec

-----------------------------------------------------------------------------
(***************************************************************************)
(* What a step of the queue does to the messages.                          *)
(***************************************************************************)

\* A message that exists after a step is as old as the job it is for: it has the job
\* and the task of one that existed before, unless Offer made it.
Heir(x) == \E m \in Copies : x.job = m.job /\ x.task = m.task

\* Delivering, retrying and moving a message keep its job and its task.
LEMMA CopyStep ==
  ASSUME TypeOK, [Next]_queueVars, ~(\E p \in Process, t \in Task : Offer(p, t))
  PROVE  (\A x \in Copies' : Heir(x)) /\ offered' = offered
  <1> USE DEF Heir, Copies, HeldMessages
  <1>d. \A m \in queue : Delivered(m).job = m.job /\ Delivered(m).task = m.task
    BY DEF Delivered, TypeOK, Message
  <1>1. ASSUME NEW m \in outbox, Publish(m) \/ PublishError(m)
        PROVE  (\A x \in Copies' : Heir(x)) /\ offered' = offered
    BY <1>1 DEF Publish, PublishError
  <1>1t. ASSUME NEW m \in outbox, PublishTwice(m)
        PROVE  (\A x \in Copies' : Heir(x)) /\ offered' = offered
    <2> DEFINE c == [m EXCEPT !.id = nextId]
    <2>1. c.job = m.job /\ c.task = m.task
      BY SecondEntry DEF TypeOK
    <2>2. /\ queue' = queue \cup {m, c} /\ outbox' = outbox \ {m}
          /\ UNCHANGED <<offered, unacked, held, phase>>
      BY <1>1t DEF PublishTwice
    <2> HIDE DEF c
    <2> QED
      BY <2>1, <2>2
  <1>2. ASSUME NEW w \in Worker, NEW m \in queue, Take(w, m)
        PROVE  (\A x \in Copies' : Heir(x)) /\ offered' = offered
    BY <1>2, <1>d DEF Take, Pending, TypeOK
  <1>3. ASSUME NEW w \in Worker, NEW m \in queue, GiveUp(w, m)
        PROVE  (\A x \in Copies' : Heir(x)) /\ offered' = offered
    BY <1>3 DEF GiveUp
  <1>4. ASSUME NEW w \in Worker, HandlerReturns(w) \/ HandlerPanics(w) \/ RepublishError(w)
        PROVE  (\A x \in Copies' : Heir(x)) /\ offered' = offered
    BY <1>4 DEF HandlerReturns, HandlerPanics, RepublishError, LeaveHandler, TypeOK
  <1>5. ASSUME NEW w \in Worker, Republish(w)
        PROVE  (\A x \in Copies' : Heir(x)) /\ offered' = offered
    <2>1. Retried(w).job = held[w].job /\ Retried(w).task = held[w].task /\ held[w] \in Copies
      BY <1>5 DEF Retried, Republish
    <2> QED
      BY <1>5, <2>1 DEF Republish, LeaveHandler, TypeOK
  <1>5t. ASSUME NEW w \in Worker, RepublishTwice(w)
        PROVE  (\A x \in Copies' : Heir(x)) /\ offered' = offered
    <2> DEFINE r == Retried(w)
               c == [r EXCEPT !.id = nextId + 1]
    <2>1. /\ r.job = held[w].job /\ c.job = held[w].job
          /\ r.task = held[w].task /\ c.task = held[w].task /\ held[w] \in Copies
      <3>1. r \in Message /\ nextId + 1 \in Nat
        BY <1>5t, RetriedType DEF RepublishTwice, TypeOK
      <3>2. r.job = held[w].job /\ r.task = held[w].task /\ held[w] \in Copies
        BY <1>5t DEF Retried, RepublishTwice
      <3> HIDE DEF r
      <3> QED
        BY <3>1, <3>2, SecondEntry
    <2>2. /\ queue' = queue \cup {r, c}
          /\ phase' = [phase EXCEPT ![w] = "ack"]
          /\ UNCHANGED <<unacked, offered, outbox, held>>
      BY <1>5t DEF RepublishTwice, LeaveHandler
    <2> HIDE DEF r, c
    <2> QED
      BY <2>1, <2>2 DEF TypeOK
  <1>6. ASSUME NEW w \in Worker, Ack(w) \/ AckError(w)
        PROVE  (\A x \in Copies' : Heir(x)) /\ offered' = offered
    BY <1>6 DEF Ack, AckError, TypeOK
  <1>7. ASSUME NEW m \in queue, ReplyLost(m)
        PROVE  (\A x \in Copies' : Heir(x)) /\ offered' = offered
    BY <1>7, <1>d DEF ReplyLost
  <1>8. ASSUME NEW m \in unacked, Redeliver(m)
        PROVE  (\A x \in Copies' : Heir(x)) /\ offered' = offered
    BY <1>8 DEF Redeliver
  <1>9. ASSUME NEW p \in Process, Crash(p)
        PROVE  (\A x \in Copies' : Heir(x)) /\ offered' = offered
    BY <1>9 DEF Crash
  <1>10. CASE UNCHANGED queueVars
    BY <1>10 DEF queueVars
  <1> QED
    BY <1>1, <1>1t, <1>2, <1>3, <1>4, <1>5, <1>5t, <1>6, <1>7, <1>8, <1>9, <1>10
       DEF Next, Consume, Broker

\* A goroutine that is in a handler before and after a step has the same message.
LEMMA HeldStep ==
  ASSUME TypeOK, [Next]_queueVars, NEW w \in Worker, phase[w] = "handling", phase'[w] = "handling"
  PROVE  held'[w] = held[w]
  BY DEF TypeOK, Next, Consume, Broker, Offer, Publish, PublishTwice, PublishError, Take, GiveUp,
         ReplyLost, HandlerReturns, HandlerPanics, LeaveHandler, Republish, RepublishTwice, RepublishError, Ack, AckError,
         Redeliver, Crash, queueVars

-----------------------------------------------------------------------------
(***************************************************************************)
(* Type correctness.                                                       *)
(***************************************************************************)

\* A goroutine that has judged has a verdict.
WorkInv == \A w \in Worker :
  stage[w] \in {"write", "tx", "announce", "rank", "ranking"} => verdict[w] \in Verdict

\* What a goroutine in JudgeTask works on.
LEMMA AtWork ==
  ASSUME TypeOK, PipelineTypes, NEW w \in Worker, stage[w] # "idle"
  PROVE  /\ phase[w] = "handling" /\ held[w] \in Copies /\ held[w] \in Message
         /\ held[w].job \in Job /\ held[w].task \in Task
         /\ SubOf(w) \in Sub /\ held[w].task.contest \in BOOLEAN
  <1>1. phase[w] = "handling" /\ held[w] \in Message
    BY DEF PipelineTypes, TypeOK
  <1>2. held[w].job \in Job /\ held[w].task \in Task
    BY <1>1 DEF Message
  <1> QED
    BY <1>1, <1>2, PipelineAssumption
       DEF PipelineAssumption, JudgeTasks, SubOf, Copies, HeldMessages

\* Counters count on.
LEMMA Counters ==
  ASSUME PipelineTypes
  PROVE  /\ \A q \in Problem : accepted[q] + 1 \in Nat /\ uncounted[q] + 1 \in Nat
         /\ \A s \in Sub : ranked[s] + 1 \in Nat
         /\ rejudges + 1 \in Nat /\ dbErrors + 1 \in Nat
  <1>1. /\ accepted \in [Problem -> Nat] /\ uncounted \in [Problem -> Nat]
        /\ ranked \in [Sub -> Nat] /\ rejudges \in Nat /\ dbErrors \in Nat
    BY DEF PipelineTypes
  <1> QED
    BY <1>1

\* The steps of JudgeTask keep every variable in its type.
LEMMA JudgeTaskTypes ==
  ASSUME TypeOK, PipelineTypes, WorkInv, NEW w \in Worker, JudgeTask(w)
  PROVE  PipelineTypes' /\ WorkInv'
  <1> USE DEF PipelineTypes, WorkInv, RowStatus
  <1>s. stage[w] # "idle" =>
          SubOf(w) \in Sub /\ held[w].job \in 1 .. MaxOffers /\ phase[w] = "handling"
    BY AtWork DEF Job
  <1>p. phase \in [Worker -> {"idle", "handling", "requeue", "ack"}]
    BY DEF TypeOK
  <1>1. CASE Begin(w)
    <2>1. phase[w] = "idle" /\ phase' = [phase EXCEPT ![w] = "handling"]
      BY <1>1 DEF Begin, Take
    <2> QED
      BY <1>1, <1>p, <2>1 DEF Begin, GoTo, dbVars, history, board
  <1>2. CASE NoTestCases(w)
    BY <1>2, <1>s, <1>p DEF NoTestCases, HandlerReturns, LeaveHandler, Leave, board
  <1>2e. CASE NoTestCasesError(w)
    <2>1. /\ stage[w] = "judge" /\ unwritten' = unwritten \cup {held[w].job}
          /\ untested' = untested \cup {held[w].job} /\ dbErrors' = dbErrors + 1
          /\ HandlerReturns(w) /\ Leave({w})
          /\ UNCHANGED <<row, accepted, solved, uncounted, dedup, ranked, scored, last,
                         contestJob, rejudges>>
      BY <1>2e DEF NoTestCasesError, board
    <2>2. unwritten' \cup untested' \subseteq 1 .. MaxOffers /\ dbErrors' \in Nat
      BY <1>s, <2>1, Counters
    <2> QED
      BY <1>s, <1>p, <2>1, <2>2 DEF HandlerReturns, LeaveHandler, Leave
  <1>3. ASSUME NEW v \in Verdict, Judge(w, v)  PROVE PipelineTypes' /\ WorkInv'
    BY <1>3, <1>s, <1>p DEF Judge, GoTo, dbVars, history, queueVars, board
  <1>4. CASE WriteFailure(w)
    BY <1>4, <1>s, <1>p DEF WriteFailure, GoTo, history, queueVars, board
  <1>5. CASE TxCount(w)
    <2>1. /\ stage[w] = "write" /\ stage' = [stage EXCEPT ![w] = "tx"] /\ dbErrors' \in Nat
          /\ first' \in [Worker -> BOOLEAN]
          /\ UNCHANGED <<phase, row, accepted, solved, uncounted, unwritten, verdict, dedup,
                         ranked, scored, last, contestJob, untested, rejudges>>
      BY <1>5, Counters DEF TxCount, GoTo, history, queueVars, board
    <2> QED
      BY <1>s, <1>p, <2>1
  <1>6. CASE TxCommit(w) \/ TxCommitUncounted(w)
    <2> DEFINE s == SubOf(w)  q == ProblemOf[s]
    <2>0. CommitAccepted(w)
      BY <1>6 DEF TxCommit, TxCommitUncounted
    <2>1. stage[w] = "tx" /\ s \in Sub /\ q \in Problem /\ UserOf[s] \in {UserOf[x] : x \in Sub}
      BY <1>s, <2>0 DEF CommitAccepted, Problem
    <2>2. row' \in [Sub -> RowStatus]
      BY <2>0, <2>1, PipelineAssumption DEF CommitAccepted, PipelineAssumption
    <2>3. accepted' \in [Problem -> Nat] /\ uncounted' \in [Problem -> Nat] /\ dbErrors' \in Nat
      <3>1. /\ accepted' \in {accepted, [accepted EXCEPT ![q] = accepted[q] + 1]}
            /\ uncounted' \in {uncounted, [uncounted EXCEPT ![q] = uncounted[q] + 1]}
            /\ dbErrors' \in {dbErrors, dbErrors + 1}
        BY <1>6 DEF TxCommit, TxCommitUncounted
      <3>2. accepted[q] + 1 \in Nat /\ uncounted[q] + 1 \in Nat /\ dbErrors + 1 \in Nat
        BY <2>1, Counters
      <3> HIDE DEF s, q
      <3> QED
        BY <2>1, <3>1, <3>2
    <2>4. solved' \in [Problem -> SUBSET {UserOf[x] : x \in Sub}]
      <3>1. solved[q] \cup {UserOf[s]} \in SUBSET {UserOf[x] : x \in Sub}
        BY <2>1
      <3>2. solved' = [solved EXCEPT ![q] = solved[q] \cup {UserOf[s]}]
        BY <2>0, <2>1 DEF CommitAccepted
      <3> HIDE DEF s, q
      <3> QED
        BY <2>1, <3>1, <3>2
    <2> HIDE DEF s, q
    <2> QED
      BY <1>s, <1>p, <2>0, <2>1, <2>2, <2>3, <2>4
         DEF CommitAccepted, GoTo, history, queueVars, board
  <1>7. CASE DbError(w)
    <2>1. /\ stage[w] \in {"write", "tx"} /\ stage' = [stage EXCEPT ![w] = "announce"]
          /\ unwritten' = unwritten \cup {held[w].job} /\ dbErrors' = dbErrors + 1
          /\ UNCHANGED <<phase, row, accepted, solved, uncounted, verdict, first, dedup, ranked,
                         scored, last, contestJob, untested, rejudges>>
      BY <1>7 DEF DbError, GoTo, history, queueVars, board
    <2>2. unwritten' \cup untested \subseteq 1 .. MaxOffers /\ dbErrors' \in Nat
      BY <1>s, <2>1, Counters
    <2> QED
      BY <1>s, <1>p, <2>1, <2>2
  <1>8. CASE Announce(w)
    BY <1>8, <1>s, <1>p DEF Announce, GoTo, dbVars, history, queueVars, board, Key
  <1>9. CASE Rank(w)
    <2>1. ranked' \in [Sub -> Nat]
      <3>1. SubOf(w) \in Sub /\ ranked[SubOf(w)] + 1 \in Nat
        BY <1>9, <1>s, Counters DEF Rank
      <3>2. ranked' \in {ranked, [ranked EXCEPT ![SubOf(w)] = ranked[SubOf(w)] + 1]}
        BY <1>9 DEF Rank
      <3> HIDE DEF SubOf
      <3> QED
        BY <3>1, <3>2
    <2> QED
      BY <1>9, <1>s, <1>p, <2>1 DEF Rank, GoTo, queueVars, dbVars, history
  <1>10. CASE Finish(w)
    BY <1>10, <1>s, <1>p DEF Finish, HandlerReturns, LeaveHandler, Leave, dbVars, history
  <1>11. CASE Panic(w)
    BY <1>11, <1>s, <1>p DEF Panic, HandlerPanics, LeaveHandler, Leave, dbVars, history, board
  <1> QED
    BY <1>1, <1>2, <1>2e, <1>3, <1>4, <1>5, <1>6, <1>7, <1>8, <1>9, <1>10, <1>11 DEF JudgeTask

\* Every step keeps every variable of the pipeline in its type.
LEMMA PipelineTypesStep ==
  ASSUME TypeOK, PipelineTypes, WorkInv, [PipelineNext]_vars
  PROVE  PipelineTypes' /\ WorkInv'
  <1> USE DEF PipelineTypes, WorkInv, RowStatus
  <1>p. phase \in [Worker -> {"idle", "handling", "requeue", "ack"}]
    BY DEF TypeOK
  <1>1. ASSUME NEW p \in Process, NEW s \in Sub,
               Submit(p, s) \/ ContestSubmit(p, s) \/ ReJudge(p, s) \/ ReJudgeError(p, s)
        PROVE  PipelineTypes' /\ WorkInv'
    <2>1. /\ row' \in {row, [row EXCEPT ![s] = "pending"]}
          /\ last' = [last EXCEPT ![s] = offered + 1]
          /\ contestJob' \in {contestJob, [contestJob EXCEPT ![s] = offered + 1]}
          /\ rejudges' \in {rejudges, rejudges + 1} /\ phase' = phase /\ offered < MaxOffers
          /\ dbErrors' \in {dbErrors, dbErrors + 1}
          /\ UNCHANGED <<accepted, solved, uncounted, unwritten, workVars, untested, dedup, board>>
      BY <1>1 DEF Submit, ContestSubmit, ReJudge, ReJudgeError, PublishTask, Offer
    <2>2. offered + 1 \in 0 .. MaxOffers
      <3>1. offered \in 0 .. MaxOffers /\ MaxOffers \in Nat
        BY JudgeQueueAssumption DEF TypeOK, JudgeQueueAssumption
      <3> QED
        BY ONLY <2>1, <3>1
    <2>3. last' \in [Sub -> 0 .. MaxOffers] /\ contestJob' \in [Sub -> 0 .. MaxOffers]
      <3> DEFINE n == offered + 1
      <3>1. n \in 0 .. MaxOffers /\ last' = [last EXCEPT ![s] = n]
            /\ contestJob' \in {contestJob, [contestJob EXCEPT ![s] = n]}
        BY <2>1, <2>2
      <3> HIDE DEF n
      <3> QED
        BY <3>1
    <2>4. rejudges' \in Nat /\ dbErrors' \in Nat
      BY <2>1, Counters
    <2> QED
      BY <2>1, <2>3, <2>4 DEF workVars, board
  <1>2. ASSUME NEW w \in Worker, JudgeTask(w)  PROVE PipelineTypes' /\ WorkInv'
    BY <1>2, JudgeTaskTypes
  <1>3. ASSUME NEW w \in Worker, ConsumerLoop(w)  PROVE PipelineTypes' /\ WorkInv'
    <2>1. \A v \in Worker : phase'[v] = "handling" <=> phase[v] = "handling"
      BY <1>3, <1>p DEF ConsumerLoop, GiveUp, Republish, RepublishTwice, RepublishError,
                        LeaveHandler, Ack, AckError
    <2> QED
      BY <1>3, <2>1 DEF ConsumerLoop, dbVars, workVars, history, board
  <1>4. ASSUME NEW m \in outbox, PublishStep(m)  PROVE PipelineTypes' /\ WorkInv'
    BY <1>4 DEF PublishStep, Publish, PublishTwice, PublishError, dbVars, workVars, history, board
  <1>5. ASSUME NEW k \in Key, DedupExpires(k)  PROVE PipelineTypes' /\ WorkInv'
    BY <1>5 DEF DedupExpires, dbVars, workVars, history, queueVars, board
  <1>6. CASE BrokerStep
    <2>1. phase' = phase
      BY <1>6 DEF BrokerStep, Broker, ReplyLost, Redeliver
    <2> QED
      BY <1>6, <2>1 DEF BrokerStep, dbVars, workVars, history, board
  <1>7. ASSUME NEW p \in Process, ProcessCrash(p)  PROVE PipelineTypes' /\ WorkInv'
    <2>1. phase' = [w \in Worker |-> IF Host[w] = p THEN "idle" ELSE phase[w]]
      BY <1>7 DEF ProcessCrash, Crash
    <2> QED
      BY <1>7, <2>1 DEF ProcessCrash, Leave, dbVars, history, board
  <1>8. CASE UNCHANGED vars
    BY <1>8 DEF vars, dbVars, workVars, history, queueVars, board
  <1> QED
    BY <1>1, <1>2, <1>3, <1>4, <1>5, <1>6, <1>7, <1>8 DEF PipelineNext

\* The pipeline starts with no submission and no goroutine at work.
LEMMA PipelineInitTypes == PipelineInit => TypeOK /\ PipelineTypes /\ WorkInv
  <1> SUFFICES ASSUME PipelineInit  PROVE TypeOK /\ PipelineTypes /\ WorkInv
    OBVIOUS
  <1>1. TypeOK
    BY InitType DEF PipelineInit
  <1>2. 0 \in 0 .. MaxOffers
    BY JudgeQueueAssumption DEF JudgeQueueAssumption
  <1>3. \A w \in Worker : phase[w] = "idle"
    BY DEF PipelineInit, Init
  <1> QED
    BY <1>1, <1>2, <1>3 DEF PipelineInit, PipelineTypes, WorkInv, RowStatus

\* The type invariant of the pipeline: above all, a goroutine is inside JudgeTask
\* exactly while the queue counts it as handling a message.
THEOREM PipelineTypeCorrect == PipelineSpec => []PipelineTypes
  <1>1. TypeOK /\ PipelineTypes /\ WorkInv /\ [PipelineNext]_vars
          => (TypeOK /\ PipelineTypes /\ WorkInv)'
    BY QueueStep, NextType, PipelineTypesStep
  <1> QED
    BY <1>1, PipelineInitTypes, PTL DEF PipelineSpec

-----------------------------------------------------------------------------
(***************************************************************************)
(* Submissions and their jobs.  A message belongs to a submission that     *)
(* exists, and the jobs the history remembers of a submission are its own. *)
(***************************************************************************)
MessageInv(m) ==
  /\ m.job <= offered
  /\ m.task.sub \in Sub /\ row[m.task.sub] # "none"
  /\ m.task.contest => contestJob[m.task.sub] = m.job
  /\ \A s \in Sub : last[s] = m.job => s = m.task.sub
  /\ \A s \in Sub : contestJob[s] = m.job => s = m.task.sub /\ m.task.contest

RowInv ==
  /\ \A j \in handled : j <= offered
  /\ \A s \in Sub :
       /\ last[s] <= offered /\ contestJob[s] <= offered
       /\ row[s] # "none" => last[s] # 0
       /\ row[s] # "none" /\ s \in InContest => contestJob[s] # 0

JobInv == RowInv /\ \A m \in Copies : MessageInv(m)

PipelineInv == TypeOK /\ PipelineTypes /\ WorkInv /\ JobInv

ApiStep(p, s) ==
  Submit(p, s) \/ ContestSubmit(p, s) \/ ReJudge(p, s) \/ ReJudgeError(p, s)

\* Jobs and their count are numbers.
LEMMA JobNumbers ==
  ASSUME TypeOK, PipelineTypes
  PROVE  /\ Job \subseteq Nat \ {0} /\ offered \in Nat
         /\ \A m \in Copies : m.job \in Job /\ m.task \in Task /\ m.task.sub \in Sub
         /\ \A s \in Sub : last[s] \in Nat /\ contestJob[s] \in Nat
  <1>1. \A m \in Message : m.job \in Job /\ m.task \in Task
    BY DEF Message
  <1>2. \A m \in Copies : m \in Message
    BY DEF Copies, HeldMessages, TypeOK
  <1>3. \A t \in Task : t.sub \in Sub
    BY PipelineAssumption DEF PipelineAssumption, JudgeTasks
  <1>4. Job \subseteq Nat \ {0} /\ offered \in Nat
    BY MessageTypes, JudgeQueueAssumption DEF Job, JudgeQueueAssumption
  <1>5. \A s \in Sub : last[s] \in 0 .. MaxOffers /\ contestJob[s] \in 0 .. MaxOffers
    BY DEF PipelineTypes
  <1> QED
    BY <1>1, <1>2, <1>3, <1>4, <1>5

\* The API makes one message, for a job of its own, and resets the row first, unless the
\* database refuses that.
LEMMA ApiMakes ==
  ASSUME TypeOK, PipelineTypes, NEW p \in Process, NEW s \in Sub, ApiStep(p, s)
  PROVE  /\ \/ row' = [row EXCEPT ![s] = "pending"] /\ dbErrors' = dbErrors
            \/ row' = row /\ row[s] # "none" /\ dbErrors' = dbErrors + 1
         /\ last' = [last EXCEPT ![s] = offered + 1]
         /\ contestJob' = IF ContestSubmit(p, s) THEN [contestJob EXCEPT ![s] = offered + 1]
                          ELSE contestJob
         /\ ContestSubmit(p, s) => row[s] = "none" /\ s \in InContest
         /\ row[s] = "none" /\ s \in InContest => ContestSubmit(p, s)
         /\ offered' = offered + 1 /\ handled' = handled
         /\ UNCHANGED <<backend, held, phase, panics, twice, accepted, solved, uncounted, unwritten,
                        stage, verdict, first, untested, ranked, scored>>
         /\ \A x \in Copies' : \/ x \in Copies
                                \/ /\ x.job = offered + 1
                                   /\ x.task = [sub |-> s, contest |-> ContestSubmit(p, s)]
  <1> DEFINE c == ContestSubmit(p, s)
             new == [id |-> nextId, job |-> offered + 1, task |-> [sub |-> s, contest |-> c],
                     retry |-> 0, tries |-> 0, home |-> p]
  <1>1. /\ PublishTask(p, s, c)
        /\ \/ row' = [row EXCEPT ![s] = "pending"] /\ dbErrors' = dbErrors
           \/ row' = row /\ row[s] # "none" /\ dbErrors' = dbErrors + 1
        /\ contestJob' = IF c THEN [contestJob EXCEPT ![s] = offered + 1] ELSE contestJob
        /\ UNCHANGED <<accepted, solved, uncounted, unwritten, stage, verdict, first, untested,
                       ranked, scored>>
    <2>1. CASE Submit(p, s)
      <3>1. c = FALSE
        BY <2>1 DEF Submit, ContestSubmit
      <3> QED
        BY <2>1, <3>1 DEF Submit, workVars, board
    <2>2. CASE c
      BY <2>2 DEF ContestSubmit, workVars, board
    <2>3. CASE ReJudge(p, s)
      <3>1. c = FALSE
        BY <2>3 DEF ReJudge, ContestSubmit
      <3> QED
        BY <2>3, <3>1 DEF ReJudge, workVars, board
    <2>4. CASE ReJudgeError(p, s)
      <3>1. c = FALSE
        BY <2>4 DEF ReJudgeError, ContestSubmit
      <3> QED
        BY <2>4, <3>1 DEF ReJudgeError, workVars, board
    <2> QED
      BY <2>1, <2>2, <2>3, <2>4 DEF ApiStep
  <1>2. c => row[s] = "none" /\ s \in InContest
    BY DEF ContestSubmit
  <1>3. row[s] = "none" /\ s \in InContest => c
    BY DEF ApiStep, Submit, ReJudge, ReJudgeError
  <1> HIDE DEF c
  <1>4. /\ outbox' = outbox \cup {new} /\ last' = [last EXCEPT ![s] = offered + 1]
        /\ UNCHANGED <<backend, queue, unacked, held, phase, handled, panics, twice>>
        /\ offered' = offered + 1
    BY <1>1 DEF PublishTask, Offer
  <1>5. new.job = offered + 1 /\ new.task = [sub |-> s, contest |-> c]
    OBVIOUS
  <1> HIDE DEF new
  <1>6. \A x \in Copies' : x \in Copies \/ x = new
    BY <1>4 DEF Copies, HeldMessages
  <1> QED
    BY <1>1, <1>2, <1>3, <1>4, <1>5, <1>6 DEF c

\* Other steps make no submission, never reset a row, and only a goroutine that leaves
\* JudgeTask without a panic has handled its job.
LEMMA OtherStep ==
  ASSUME PipelineInv, [PipelineNext]_vars,
         ~(\E p \in Process, s \in Sub : ApiStep(p, s))
  PROVE  /\ last' = last /\ contestJob' = contestJob /\ offered' = offered
         /\ \A s \in Sub : /\ row'[s] = "none" <=> row[s] = "none"
                           /\ row'[s] = "pending" => row[s] = "pending"
         /\ \/ handled' = handled
            \/ \E w \in Worker : /\ NoTestCases(w) \/ NoTestCasesError(w) \/ Finish(w)
                                 /\ handled' = handled \cup {held[w].job}
  <1> DEFINE Rows == \A s \in Sub : /\ row'[s] = "none" <=> row[s] = "none"
                                    /\ row'[s] = "pending" => row[s] = "pending"
             Done == \/ handled' = handled
                     \/ \E w \in Worker : /\ NoTestCases(w) \/ NoTestCasesError(w) \/ Finish(w)
                                          /\ handled' = handled \cup {held[w].job}
             Goal == /\ last' = last /\ contestJob' = contestJob /\ offered' = offered
                     /\ Rows /\ Done
  <1> USE DEF history, dbVars, queueVars
  <1>w. ASSUME NEW w \in Worker, stage[w] # "idle"
        PROVE  /\ SubOf(w) \in Sub /\ row[SubOf(w)] # "none"
               /\ stage[w] = "write" => verdict[w] \in Verdict
    BY <1>w, AtWork DEF PipelineInv, JobInv, MessageInv, SubOf, WorkInv
  <1>v. \A v \in Verdict : v # "none" /\ v # "pending"
    BY PipelineAssumption DEF PipelineAssumption
  <1>r. ASSUME NEW s \in Sub, row[s] # "none", NEW v \in RowStatus \ {"none", "pending"},
               row' = [row EXCEPT ![s] = v]
        PROVE  Rows
    BY <1>r DEF PipelineInv, PipelineTypes
  <1>1. ASSUME NEW w \in Worker, JudgeTask(w)  PROVE Goal
    <2>1. CASE \/ Begin(w) \/ (\E v \in Verdict : Judge(w, v)) \/ TxCount(w) \/ DbError(w)
               \/ Announce(w) \/ Rank(w)
      BY <2>1 DEF Begin, Take, Judge, TxCount, DbError, Announce, Rank
    <2>2. CASE NoTestCases(w)
      <3>1. row' = [row EXCEPT ![SubOf(w)] = "No Test Cases"]
            /\ SubOf(w) \in Sub /\ row[SubOf(w)] # "none"
        BY <1>w, <2>2 DEF NoTestCases
      <3>2. Rows
        BY <1>r, <3>1 DEF RowStatus
      <3>3. handled' = handled \cup {held[w].job} /\ last' = last /\ contestJob' = contestJob
            /\ offered' = offered
        BY <2>2 DEF NoTestCases, HandlerReturns
      <3> QED
        BY <2>2, <3>2, <3>3
    <2>3. CASE WriteFailure(w)
      <3>1. row' = [row EXCEPT ![SubOf(w)] = verdict[w]] /\ verdict[w] \in Verdict
            /\ SubOf(w) \in Sub /\ row[SubOf(w)] # "none"
        BY <1>w, <2>3 DEF WriteFailure
      <3>2. Rows
        BY <1>r, <1>v, <3>1 DEF RowStatus
      <3> QED
        BY <2>3, <3>2 DEF WriteFailure
    <2>4. CASE TxCommit(w) \/ TxCommitUncounted(w)
      <3>1. CommitAccepted(w)
        BY <2>4 DEF TxCommit, TxCommitUncounted
      <3>2. row' = [row EXCEPT ![SubOf(w)] = "Accepted"] /\ "Accepted" \in Verdict
            /\ SubOf(w) \in Sub /\ row[SubOf(w)] # "none"
        BY <1>w, <3>1, PipelineAssumption DEF CommitAccepted, PipelineAssumption
      <3>3. Rows
        BY <1>r, <1>v, <3>2 DEF RowStatus
      <3> QED
        BY <3>1, <3>3 DEF CommitAccepted
    <2>5. CASE Finish(w) \/ NoTestCasesError(w)
      BY <2>5 DEF Finish, NoTestCasesError, HandlerReturns
    <2>6. CASE Panic(w)
      BY <2>6 DEF Panic, HandlerPanics
    <2> QED
      BY <1>1, <2>1, <2>2, <2>3, <2>4, <2>5, <2>6 DEF JudgeTask
  <1>2. ASSUME NEW w \in Worker, ConsumerLoop(w)  PROVE Goal
    BY <1>2 DEF ConsumerLoop, GiveUp, Republish, RepublishTwice, RepublishError, Ack, AckError
  <1>3. ASSUME NEW m \in outbox, PublishStep(m)  PROVE Goal
    BY <1>3 DEF PublishStep, Publish, PublishTwice, PublishError
  <1>4. ASSUME NEW k \in Key, DedupExpires(k)  PROVE Goal
    BY <1>4 DEF DedupExpires
  <1>5. CASE BrokerStep
    BY <1>5 DEF BrokerStep, Broker, ReplyLost, Redeliver
  <1>6. ASSUME NEW p \in Process, ProcessCrash(p)  PROVE Goal
    BY <1>6 DEF ProcessCrash, Crash
  <1>7. CASE UNCHANGED vars
    BY <1>7 DEF vars
  <1>8. ~(\E p \in Process, s \in Sub :
            Submit(p, s) \/ ContestSubmit(p, s) \/ ReJudge(p, s) \/ ReJudgeError(p, s))
    BY DEF ApiStep
  <1> HIDE DEF history, dbVars, queueVars
  <1> QED
    BY <1>1, <1>2, <1>3, <1>4, <1>5, <1>6, <1>7, <1>8 DEF PipelineNext

\* A step of the pipeline that is not one of the API copies and drops messages only.
LEMMA OtherCopies ==
  ASSUME PipelineInv, [PipelineNext]_vars,
         ~(\E p \in Process, s \in Sub : ApiStep(p, s))
  PROVE  \A x \in Copies' : Heir(x)
  <1>1. offered' = offered /\ offered \in Nat
    BY OtherStep, JobNumbers DEF PipelineInv
  <1>2. offered' # offered + 1
    BY ONLY <1>1
  <1>3. ~(\E p \in Process, t \in Task : Offer(p, t))
    BY <1>2 DEF Offer
  <1> QED
    BY <1>3, QueueStep, CopyStep DEF PipelineInv

\* Every step keeps the messages and the jobs of every submission together.
LEMMA JobStep == PipelineInv /\ [PipelineNext]_vars => JobInv'
  <1> SUFFICES ASSUME PipelineInv, [PipelineNext]_vars  PROVE JobInv'
    OBVIOUS
  <1>1. ASSUME NEW p \in Process, NEW s \in Sub, ApiStep(p, s)  PROVE JobInv'
    <2> DEFINE n == offered + 1
               c == ContestSubmit(p, s)
    <2>1. /\ \/ row' = [row EXCEPT ![s] = "pending"]
             \/ row' = row /\ row[s] # "none"
          /\ last' = [last EXCEPT ![s] = n]
          /\ contestJob' = IF c THEN [contestJob EXCEPT ![s] = n] ELSE contestJob
          /\ c => row[s] = "none" /\ s \in InContest
          /\ row[s] = "none" /\ s \in InContest => c
          /\ offered' = n /\ handled' = handled
          /\ \A x \in Copies' : x \in Copies \/ (x.job = n /\ x.task = [sub |-> s, contest |-> c])
      BY <1>1, ApiMakes DEF PipelineInv
    <2>2. /\ row \in [Sub -> RowStatus] /\ last \in [Sub -> 0 .. MaxOffers]
          /\ contestJob \in [Sub -> 0 .. MaxOffers] /\ InContest \subseteq Sub
      BY PipelineAssumption DEF PipelineInv, PipelineTypes, PipelineAssumption
    <2>3. /\ n # 0
          /\ \A m \in Copies : m.job # n /\ m.job <= n
          /\ \A x \in Sub : /\ last[x] # n /\ last[x] <= n
                            /\ contestJob[x] # n /\ contestJob[x] <= n
          /\ \A j \in handled : j <= n
      <3>1. /\ offered \in Nat /\ handled \subseteq Nat
            /\ \A m \in Copies : m.job \in Nat /\ m.job <= offered
            /\ \A x \in Sub : /\ last[x] \in Nat /\ last[x] <= offered
                              /\ contestJob[x] \in Nat /\ contestJob[x] <= offered
            /\ \A j \in handled : j <= offered
        BY JobNumbers DEF PipelineInv, JobInv, RowInv, MessageInv, TypeOK
      <3>2. \A i \in Nat : i <= offered => i # n /\ i <= n
        BY <3>1
      <3>3. n # 0
        BY <3>1
      <3> QED
        BY ONLY <3>1, <3>2, <3>3
    <2>4. n <= n
      <3>1. offered \in Nat
        BY JobNumbers DEF PipelineInv
      <3> QED
        BY <3>1
    <2> HIDE DEF n, c
    <2>5. RowInv'
      BY <2>1, <2>2, <2>3, <2>4 DEF RowInv, PipelineInv, JobInv
    <2>6. ASSUME NEW m \in Copies  PROVE MessageInv(m)'
      BY <2>1, <2>2, <2>3 DEF MessageInv, PipelineInv, JobInv
    <2>7. ASSUME NEW x, x.job = n, x.task = [sub |-> s, contest |-> c]  PROVE MessageInv(x)'
      <3>1. x.task.sub = s /\ x.task.contest = c
        BY <2>7
      <3> QED
        BY <2>1, <2>2, <2>3, <2>4, <2>7, <3>1 DEF MessageInv, PipelineInv, JobInv, RowInv
    <2> QED
      BY <2>1, <2>5, <2>6, <2>7 DEF JobInv
  <1>2. CASE ~(\E p \in Process, s \in Sub : ApiStep(p, s))
    <2>1. /\ last' = last /\ contestJob' = contestJob /\ offered' = offered
          /\ \A s \in Sub : row'[s] = "none" <=> row[s] = "none"
          /\ \A j \in handled' : j \in handled \/ (\E m \in Copies : m.job = j)
      <3>1. ASSUME NEW w \in Worker, NoTestCases(w) \/ NoTestCasesError(w) \/ Finish(w)
            PROVE  held[w] \in Copies
        <4>1. stage[w] # "idle"
          BY <3>1 DEF NoTestCases, NoTestCasesError, Finish
        <4> QED
          BY <4>1, AtWork DEF PipelineInv
      <3> QED
        BY <1>2, <3>1, OtherStep
    <2>2. RowInv'
      BY <2>1 DEF RowInv, PipelineInv, JobInv, MessageInv
    <2>3. ASSUME NEW x \in Copies'  PROVE MessageInv(x)'
      <3>1. PICK m \in Copies : x.job = m.job /\ x.task = m.task
        BY <1>2, OtherCopies DEF Heir
      <3>2. MessageInv(m)
        BY DEF PipelineInv, JobInv
      <3> QED
        BY <2>1, <3>1, <3>2 DEF MessageInv
    <2> QED
      BY <2>2, <2>3 DEF JobInv
  <1> QED
    BY <1>1, <1>2

\* The invariant of the pipeline is inductive.
LEMMA PipelineStep == PipelineInv /\ [PipelineNext]_vars => PipelineInv'
  BY QueueStep, NextType, PipelineTypesStep, JobStep DEF PipelineInv

LEMMA PipelineStart == PipelineInit => PipelineInv
  <1> SUFFICES ASSUME PipelineInit  PROVE JobInv
    BY PipelineInitTypes DEF PipelineInv
  <1>1. Copies = {}
    BY DEF PipelineInit, Init, Copies, HeldMessages
  <1>2. RowInv
    BY DEF PipelineInit, Init, RowInv
  <1> QED
    BY <1>1, <1>2 DEF JobInv

-----------------------------------------------------------------------------
(***************************************************************************)
(* How a goroutine goes through JudgeTask.                                 *)
(***************************************************************************)

Rests(w) == stage'[w] = stage[w] /\ verdict'[w] = verdict[w] /\ first'[w] = first[w]

\* A goroutine inside JudgeTask has just begun, or works on the message it had before:
\* it rests or has made its next step.
LEMMA StageStep ==
  ASSUME PipelineInv, [PipelineNext]_vars, NEW w \in Worker, stage'[w] # "idle"
  PROVE  \/ Begin(w) /\ stage'[w] = "judge"
         \/ /\ stage[w] # "idle" /\ held'[w] = held[w]
            /\ \/ Rests(w)
               \/ (\E v \in Verdict : Judge(w, v)) /\ stage'[w] = "write"
               \/ WriteFailure(w) /\ stage'[w] = "announce"
               \/ TxCount(w) /\ stage'[w] = "tx"
               \/ CommitAccepted(w) /\ stage'[w] = "announce"
               \/ DbError(w) /\ stage'[w] = "announce"
               \/ Announce(w) /\ stage'[w] = "rank"
               \/ Rank(w) /\ stage'[w] = "ranking"
  <1> DEFINE Moves == \/ Begin(w) /\ stage'[w] = "judge"
                      \/ (\E v \in Verdict : Judge(w, v)) /\ stage'[w] = "write"
                      \/ WriteFailure(w) /\ stage'[w] = "announce"
                      \/ TxCount(w) /\ stage'[w] = "tx"
                      \/ CommitAccepted(w) /\ stage'[w] = "announce"
                      \/ DbError(w) /\ stage'[w] = "announce"
                      \/ Announce(w) /\ stage'[w] = "rank"
                      \/ Rank(w) /\ stage'[w] = "ranking"
  <1>t. /\ stage \in [Worker -> {"idle", "judge", "write", "tx", "announce", "rank", "ranking"}]
        /\ verdict \in [Worker -> {"none"} \cup Verdict] /\ first \in [Worker -> BOOLEAN]
    BY DEF PipelineInv, PipelineTypes
  <1>1. ASSUME NEW p \in Process, NEW s \in Sub, ApiStep(p, s)  PROVE Rests(w)
    <2>1. UNCHANGED <<stage, verdict, first>>
      BY <1>1, ApiMakes DEF PipelineInv
    <2> QED
      BY <2>1 DEF Rests
  <1>2. ASSUME NEW v \in Worker, JudgeTask(v)  PROVE Rests(w) \/ Moves
    <2>1. CASE v = w
      <3>1. ~NoTestCases(w) /\ ~NoTestCasesError(w) /\ ~Finish(w) /\ ~Panic(w)
        BY DEF NoTestCases, NoTestCasesError, Finish, Panic, Leave
      <3>2. Begin(w) => stage'[w] = "judge"
        BY <1>t DEF Begin, GoTo
      <3>3. ASSUME NEW u \in Verdict, Judge(w, u)  PROVE stage'[w] = "write"
        BY <1>t, <3>3 DEF Judge, GoTo
      <3>4. TxCount(w) => stage'[w] = "tx"
        BY <1>t DEF TxCount, GoTo
      <3>5. Announce(w) => stage'[w] = "rank"
        BY <1>t DEF Announce, GoTo
      <3>6. WriteFailure(w) \/ CommitAccepted(w) \/ DbError(w) => stage'[w] = "announce"
        BY <1>t DEF WriteFailure, CommitAccepted, DbError, GoTo
      <3>7. Rank(w) => stage'[w] = "ranking"
        BY <1>t DEF Rank, GoTo
      <3> QED
        BY <1>2, <2>1, <3>1, <3>2, <3>3, <3>4, <3>5, <3>6, <3>7
           DEF JudgeTask, TxCommit, TxCommitUncounted
    <2>2. CASE v # w
      BY <1>2, <1>t, <2>2
         DEF JudgeTask, Begin, NoTestCases, NoTestCasesError, Judge, WriteFailure, TxCount,
             TxCommit, TxCommitUncounted, CommitAccepted, DbError, Announce, Rank, Finish, Panic,
             GoTo, Leave, Rests
    <2> QED
      BY <2>1, <2>2
  <1>3. ASSUME NEW v \in Worker, ConsumerLoop(v)  PROVE Rests(w)
    BY <1>3 DEF ConsumerLoop, workVars, Rests
  <1>4. ASSUME NEW m \in outbox, PublishStep(m)  PROVE Rests(w)
    BY <1>4 DEF PublishStep, workVars, Rests
  <1>5. ASSUME NEW k \in Key, DedupExpires(k)  PROVE Rests(w)
    BY <1>5 DEF DedupExpires, workVars, Rests
  <1>6. ASSUME BrokerStep  PROVE Rests(w)
    BY <1>6 DEF BrokerStep, workVars, Rests
  <1>7. ASSUME NEW p \in Process, ProcessCrash(p)  PROVE Rests(w)
    BY <1>7 DEF ProcessCrash, Leave, Rests
  <1>8. ASSUME UNCHANGED vars  PROVE Rests(w)
    BY <1>8 DEF vars, workVars, Rests
  <1>a. \A p \in Process, s \in Sub :
          Submit(p, s) \/ ContestSubmit(p, s) \/ ReJudge(p, s) \/ ReJudgeError(p, s)
            => ApiStep(p, s)
    BY DEF ApiStep
  <1>9. Rests(w) \/ Moves
    BY <1>1, <1>2, <1>3, <1>4, <1>5, <1>6, <1>7, <1>8, <1>a DEF PipelineNext
  <1>10. ASSUME ~Begin(w)  PROVE stage[w] # "idle" /\ held'[w] = held[w]
    <2>1. stage[w] # "idle"
      BY <1>9, <1>10
         DEF Rests, Judge, WriteFailure, TxCount, CommitAccepted, DbError, Announce, Rank
    <2>2. phase[w] = "handling" /\ phase'[w] = "handling"
      BY <2>1, PipelineTypesStep DEF PipelineInv, PipelineTypes
    <2> QED
      BY <2>1, <2>2, QueueStep, HeldStep DEF PipelineInv
  <1>11. CASE Begin(w)
    <2>1. stage' = [stage EXCEPT ![w] = "judge"]
      BY <1>11 DEF Begin, GoTo
    <2> QED
      BY <1>t, <1>11, <2>1
  <1>12. CASE ~Begin(w)
    <2>1. stage[w] # "idle" /\ held'[w] = held[w]
      BY <1>10, <1>12
    <2> QED
      BY <1>9, <1>12, <2>1
  <1> QED
    BY <1>11, <1>12

\* What the histories and the scoreboard counters remember is not forgotten.
LEMMA Remembered ==
  ASSUME PipelineInv, [PipelineNext]_vars
  PROVE  /\ unwritten \subseteq unwritten' /\ untested \subseteq untested'
         /\ scored \subseteq scored'
         /\ \A p \in Problem : solved[p] \subseteq solved'[p]
         /\ \A s \in Sub : \/ ranked'[s] = ranked[s]
                           \/ /\ ranked'[s] = ranked[s] + 1
                              /\ \E w \in Worker : Rank(w) /\ held[w].task.contest /\ s = SubOf(w)
  <1> DEFINE Goal ==
        /\ unwritten \subseteq unwritten' /\ untested \subseteq untested'
        /\ scored \subseteq scored'
        /\ \A p \in Problem : solved[p] \subseteq solved'[p]
        /\ \A s \in Sub : \/ ranked'[s] = ranked[s]
                          \/ /\ ranked'[s] = ranked[s] + 1
                             /\ \E w \in Worker : Rank(w) /\ held[w].task.contest /\ s = SubOf(w)
  <1>t. ranked \in [Sub -> Nat] /\ solved \in [Problem -> SUBSET {UserOf[s] : s \in Sub}]
    BY DEF PipelineInv, PipelineTypes
  <1>1. ASSUME NEW p \in Process, NEW s \in Sub, ApiStep(p, s)  PROVE Goal
    BY <1>1, ApiMakes DEF PipelineInv
  <1>2. ASSUME NEW w \in Worker, JudgeTask(w)  PROVE Goal
    <2>1. CASE ~TxCommit(w) /\ ~TxCommitUncounted(w) /\ ~Rank(w)
      BY <1>2, <2>1 DEF JudgeTask, Begin, NoTestCases, NoTestCasesError, Judge, WriteFailure,
                        TxCount, DbError, Announce, Finish, Panic, dbVars, history, board
    <2>2. CASE TxCommit(w) \/ TxCommitUncounted(w)
      BY <1>t, <2>2 DEF TxCommit, TxCommitUncounted, CommitAccepted, history, board
    <2>3. CASE Rank(w)
      <3>1. ranked' = IF held[w].task.contest
                      THEN [ranked EXCEPT ![SubOf(w)] = ranked[SubOf(w)] + 1] ELSE ranked
        BY <2>3 DEF Rank
      <3>2. UNCHANGED <<unwritten, untested, solved, scored>>
        BY <2>3 DEF Rank, dbVars, history
      <3>3. ASSUME NEW s \in Sub
            PROVE  ranked'[s] = ranked[s] \/ (ranked'[s] = ranked[s] + 1 /\ held[w].task.contest /\ s = SubOf(w))
        <4> HIDE DEF SubOf
        <4> QED
          BY <1>t, <3>1
      <3> QED
        BY <2>3, <3>2, <3>3
    <2> QED
      BY <2>1, <2>2, <2>3
  <1>3. ASSUME NEW w \in Worker, ConsumerLoop(w)  PROVE Goal
    BY <1>3 DEF ConsumerLoop, dbVars, history, board
  <1>4. ASSUME NEW m \in outbox, PublishStep(m)  PROVE Goal
    BY <1>4 DEF PublishStep, dbVars, history, board
  <1>5. ASSUME NEW k \in Key, DedupExpires(k)  PROVE Goal
    BY <1>5 DEF DedupExpires, dbVars, history, board
  <1>6. CASE BrokerStep
    BY <1>6 DEF BrokerStep, dbVars, history, board
  <1>7. ASSUME NEW p \in Process, ProcessCrash(p)  PROVE Goal
    BY <1>7 DEF ProcessCrash, dbVars, history, board
  <1>8. CASE UNCHANGED vars
    BY <1>8 DEF vars, dbVars, history, board
  <1>a. \A p \in Process, s \in Sub :
          Submit(p, s) \/ ContestSubmit(p, s) \/ ReJudge(p, s) \/ ReJudgeError(p, s)
            => ApiStep(p, s)
    BY DEF ApiStep
  <1> QED
    BY <1>1, <1>2, <1>3, <1>4, <1>5, <1>6, <1>7, <1>8, <1>a DEF PipelineNext

-----------------------------------------------------------------------------
(***************************************************************************)
(* No row is left at "pending" by accident.  What is inductive: the newest *)
(* job of a pending row has not been handled, unless the database refused  *)
(* its verdict; a goroutine past the write knows of such a row as well.    *)
(***************************************************************************)
PendingInv ==
  /\ \A s \in Sub : row[s] = "pending" /\ last[s] \in handled => last[s] \in unwritten
  /\ \A w \in Worker :
       /\ stage[w] \in {"announce", "rank", "ranking"}
       /\ row[SubOf(w)] = "pending" /\ last[SubOf(w)] = held[w].job
       => held[w].job \in unwritten

LEMMA PendingStep == PipelineInv /\ PendingInv /\ [PipelineNext]_vars => PendingInv'
  <1> SUFFICES ASSUME PipelineInv, PendingInv, [PipelineNext]_vars  PROVE PendingInv'
    OBVIOUS
  <1>u. unwritten \subseteq unwritten'
    BY Remembered
  <1>t. row \in [Sub -> RowStatus] /\ last \in [Sub -> 0 .. MaxOffers]
    BY DEF PipelineInv, PipelineTypes
  <1>a. ASSUME NEW w \in Worker, stage[w] # "idle"
        PROVE  SubOf(w) \in Sub /\ MessageInv(held[w])
    BY <1>a, AtWork DEF PipelineInv, JobInv
  <1>1. ASSUME NEW p \in Process, NEW s \in Sub, ApiStep(p, s)  PROVE PendingInv'
    <2> DEFINE n == offered + 1
    <2>1. /\ row' = [row EXCEPT ![s] = "pending"] \/ row' = row
          /\ last' = [last EXCEPT ![s] = n]
          /\ UNCHANGED <<handled, unwritten, stage, held>>
      BY <1>1, ApiMakes DEF PipelineInv
    <2>2. n \notin handled /\ \A w \in Worker : stage[w] # "idle" => held[w].job # n
      <3>1. /\ offered \in Nat /\ \A j \in handled : j <= offered
            /\ \A w \in Worker : stage[w] # "idle" => held[w].job <= offered
        BY <1>a, JobNumbers DEF PipelineInv, JobInv, RowInv, MessageInv
      <3>2. ~(n <= offered)
        BY <3>1
      <3> QED
        BY <3>1, <3>2
    <2> HIDE DEF n
    <2>3. ASSUME NEW w \in Worker, stage[w] # "idle"  PROVE SubOf(w)' = SubOf(w) /\ SubOf(w) \in Sub
      BY <1>a, <2>1, <2>3 DEF SubOf
    <2> QED
      BY <1>t, <2>1, <2>2, <2>3 DEF PendingInv
  <1>2. CASE ~(\E p \in Process, s \in Sub : ApiStep(p, s))
    <2>1. /\ last' = last /\ \A s \in Sub : row'[s] = "pending" => row[s] = "pending"
          /\ \/ handled' = handled
             \/ \E w \in Worker : /\ NoTestCases(w) \/ NoTestCasesError(w) \/ Finish(w)
                                  /\ handled' = handled \cup {held[w].job}
      BY <1>2, OtherStep
    <2>2. ASSUME NEW s \in Sub, row'[s] = "pending", last'[s] \in handled'
          PROVE  last'[s] \in unwritten'
      <3>1. row[s] = "pending" /\ last'[s] = last[s]
        BY <2>1, <2>2
      <3>2. CASE last[s] \in handled
        BY <1>u, <3>1, <3>2 DEF PendingInv
      <3>3. CASE last[s] \notin handled
        <4>1. PICK w \in Worker : /\ NoTestCases(w) \/ NoTestCasesError(w) \/ Finish(w)
                                  /\ last[s] = held[w].job
          BY <2>1, <2>2, <3>1, <3>3
        <4>2. stage[w] # "idle" /\ (Finish(w) => stage[w] = "ranking")
          BY <4>1 DEF NoTestCases, NoTestCasesError, Finish
        <4>3. s = SubOf(w)
          BY <1>a, <4>1, <4>2 DEF MessageInv, SubOf
        <4>4. ~NoTestCases(w)
          <5>1. NoTestCases(w) => row'[s] = "No Test Cases"
            BY <1>t, <4>3 DEF NoTestCases
          <5> QED
            BY <2>2, <5>1
        <4>5. CASE NoTestCasesError(w)
          BY <3>1, <4>1, <4>5 DEF NoTestCasesError
        <4>6. CASE Finish(w)
          BY <1>u, <3>1, <4>1, <4>2, <4>3, <4>6 DEF PendingInv
        <4> QED
          BY <4>1, <4>4, <4>5, <4>6
      <3> QED
        BY <3>2, <3>3
    <2>3. ASSUME NEW w \in Worker, stage'[w] \in {"announce", "rank", "ranking"},
                 row'[SubOf(w)'] = "pending", last'[SubOf(w)'] = held'[w].job
          PROVE  held'[w].job \in unwritten'
      <3>1. /\ stage[w] # "idle" /\ held'[w] = held[w]
            /\ \/ stage[w] \in {"announce", "rank", "ranking"}
               \/ WriteFailure(w) \/ CommitAccepted(w) \/ DbError(w)
        BY <2>3, StageStep DEF Rests, Announce, Rank
      <3>2. SubOf(w)' = SubOf(w) /\ SubOf(w) \in Sub
        BY <1>a, <3>1 DEF SubOf
      <3>3. row[SubOf(w)] = "pending" /\ last[SubOf(w)] = held[w].job
        BY <2>1, <2>3, <3>1, <3>2
      <3>4. CASE stage[w] \in {"announce", "rank", "ranking"}
        BY <1>u, <3>1, <3>3, <3>4 DEF PendingInv
      <3>5. CASE DbError(w)
        BY <3>1, <3>5 DEF DbError
      <3>6. CASE WriteFailure(w)
        <4>1. row' = [row EXCEPT ![SubOf(w)] = verdict[w]] /\ stage[w] = "write"
          BY <3>6 DEF WriteFailure
        <4>2. verdict[w] # "pending"
          BY <4>1, PipelineAssumption DEF PipelineInv, WorkInv, PipelineAssumption
        <4> QED
          BY <1>t, <2>3, <3>2, <4>1, <4>2
      <3>7. CASE CommitAccepted(w)
        <4>1. row' = [row EXCEPT ![SubOf(w)] = "Accepted"]
          BY <3>7 DEF CommitAccepted
        <4> QED
          BY <1>t, <2>3, <3>2, <4>1
      <3> QED
        BY <3>1, <3>4, <3>5, <3>6, <3>7
    <2> QED
      BY <2>2, <2>3 DEF PendingInv
  <1> QED
    BY <1>1, <1>2

\* A job that will still be handled is in somebody's hands, waits for a goroutine, or
\* lies in the Redis pending list, where nobody reads it.
LEMMA LiveIsOwed ==
  ASSUME TypeOK, PlaceInv, NEW j \in Job, Live(j)
  PROVE  j \in handled \cup dropped \cup lost \/ Ahead(j) \/ Abandoned(j)
  <1>1. CASE Settled(j)
    BY <1>1 DEF Settled
  <1>2. CASE \E m \in Waiting : m.job = j
    BY <1>2 DEF Waiting, Ahead, Waits, Copies
  <1>h. ASSUME NEW w \in Worker, Active(w), held[w].job = j  PROVE Ahead(j)
    <2>1. held[w] \in Copies
      BY <1>h DEF Active, Copies, HeldMessages
    <2> QED
      BY <1>h, <2>1 DEF Active, Ahead, Waits
  <1>3. CASE backend = "local" /\ \E w \in Worker : Active(w) /\ held[w].job = j
    BY <1>3, <1>h
  <1>4. ASSUME NEW m \in unacked, m.job = j, \A w \in Worker : phase[w] = "ack" => held[w] # m
        PROVE  Ahead(j) \/ Abandoned(j)
    <2>1. m \in Message /\ backend \in {"redis", "nsq"}
      BY <1>4 DEF TypeOK, PlaceInv, OnePlace
    <2>2. ASSUME NEW w \in Worker, held[w] = m  PROVE Active(w)
      <3>1. phase[w] # "idle" /\ phase[w] # "ack"
        BY <1>4, <2>1, <2>2, NoMessageAssumption DEF TypeOK, NoMessageAssumption
      <3> QED
        BY <3>1 DEF TypeOK, Active
    <2>3. CASE HasHolder(m)
      BY <1>4, <1>h, <2>2, <2>3 DEF HasHolder
    <2>4. CASE ~HasHolder(m)
      BY <1>4, <2>1, <2>4 DEF Ahead, Waits, Abandoned, Copies
    <2> QED
      BY <2>3, <2>4
  <1> QED
    BY <1>1, <1>2, <1>3, <1>4 DEF Live

\* A job the API has made is settled, in somebody's hands, on its way, or abandoned.
LEMMA JobIsSomewhere ==
  ASSUME PipelineInv, LossInv, NEW j \in Nat, j # 0, j <= offered
  PROVE  j \in handled \cup dropped \cup lost \/ Ahead(j) \/ Abandoned(j)
  <1>1. offered \in 0 .. MaxOffers /\ MaxOffers \in Nat
    BY JudgeQueueAssumption DEF PipelineInv, TypeOK, JudgeQueueAssumption
  <1>2. j \in 1 .. offered /\ j \in Job
    BY <1>1 DEF Job
  <1> QED
    BY <1>2, LiveIsOwed DEF LossInv, PipelineInv

\* What is known of the queue's messages holds in the pipeline.
LEMMA PipelineLosesNone == PipelineSpec => []LossInv
  BY PipelineUsesQueue, NoneIsLost, PTL

\* PendingIsOwed: the newest task of a pending row is being judged or will be, or was
\* abandoned, dropped, lost, or ended with the row's write refused.
THEOREM PendingRowsAreOwed == PipelineSpec => []PendingIsOwed
  <1>1. PipelineInit => PipelineInv /\ PendingInv
    <2> SUFFICES ASSUME PipelineInit  PROVE PendingInv
      BY PipelineStart
    <2> QED
      BY DEF PipelineInit, PendingInv
  <1>2. PipelineInv /\ PendingInv /\ [PipelineNext]_vars => (PipelineInv /\ PendingInv)'
    BY PipelineStep, PendingStep
  <1>3. PipelineInv /\ PendingInv /\ LossInv => PendingIsOwed
    <2> SUFFICES ASSUME PipelineInv, PendingInv, LossInv, NEW s \in Sub, row[s] = "pending"
                 PROVE  \/ Ahead(last[s]) \/ Abandoned(last[s])
                        \/ last[s] \in dropped \cup lost \cup unwritten
      BY DEF PendingIsOwed
    <2>1. last[s] \in Nat /\ last[s] # 0 /\ last[s] <= offered
      BY JobNumbers DEF PipelineInv, JobInv, RowInv
    <2>2. \/ last[s] \in handled \cup dropped \cup lost
          \/ Ahead(last[s]) \/ Abandoned(last[s])
      BY <2>1, JobIsSomewhere
    <2> QED
      BY <2>2 DEF PendingInv
  <1> QED
    BY <1>1, <1>2, <1>3, PipelineLosesNone, PTL DEF PipelineSpec

-----------------------------------------------------------------------------
(***************************************************************************)
(* The scoreboard hears of every contest submission: a handled job of a    *)
(* contest was ranked, or had no test case.                                *)
(***************************************************************************)
ContestInv == \A s \in InContest :
  contestJob[s] \in handled => s \in scored \/ contestJob[s] \in untested

LEMMA ContestStep == PipelineInv /\ ContestInv /\ [PipelineNext]_vars => ContestInv'
  <1> SUFFICES ASSUME PipelineInv, ContestInv, [PipelineNext]_vars,
                      NEW s \in InContest, contestJob'[s] \in handled'
               PROVE  s \in scored' \/ contestJob'[s] \in untested'
    BY DEF ContestInv
  <1>s. s \in Sub
    BY PipelineAssumption DEF PipelineAssumption
  <1>r. scored \subseteq scored' /\ untested \subseteq untested'
    BY Remembered
  <1>1. ASSUME NEW p \in Process, NEW x \in Sub, ApiStep(p, x)
        PROVE  s \in scored' \/ contestJob'[s] \in untested'
    <2> DEFINE n == offered + 1
    <2>1. /\ contestJob' = contestJob \/ contestJob' = [contestJob EXCEPT ![x] = n]
          /\ handled' = handled
      BY <1>1, ApiMakes DEF PipelineInv
    <2>2. n \notin handled
      <3>1. offered \in Nat /\ \A j \in handled : j <= offered
        BY JobNumbers DEF PipelineInv, JobInv, RowInv
      <3>2. ~(n <= offered)
        BY <3>1
      <3> QED
        BY <3>1, <3>2
    <2>3. contestJob \in [Sub -> 0 .. MaxOffers]
      BY DEF PipelineInv, PipelineTypes
    <2> HIDE DEF n
    <2>4. contestJob'[s] = contestJob[s]
      BY <1>s, <2>1, <2>2, <2>3
    <2> QED
      BY <1>r, <2>1, <2>4 DEF ContestInv
  <1>2. CASE ~(\E p \in Process, x \in Sub : ApiStep(p, x))
    <2>1. contestJob' = contestJob
      BY <1>2, OtherStep
    <2>2. CASE contestJob[s] \in handled
      BY <1>r, <2>1, <2>2 DEF ContestInv
    <2>3. CASE contestJob[s] \notin handled
      <3>1. PICK w \in Worker : /\ NoTestCases(w) \/ NoTestCasesError(w) \/ Finish(w)
                                /\ contestJob[s] = held[w].job
        BY <1>2, <2>1, <2>3, OtherStep
      <3>2. stage[w] # "idle"
        BY <3>1 DEF NoTestCases, NoTestCasesError, Finish
      <3>3. SubOf(w) \in Sub /\ MessageInv(held[w])
        BY <3>2, AtWork DEF PipelineInv, JobInv
      <3>4. s = SubOf(w) /\ held[w].task.contest
        BY <1>s, <3>1, <3>3 DEF MessageInv, SubOf
      <3>5. NoTestCases(w) \/ NoTestCasesError(w) => contestJob[s] \in untested'
        BY <3>1 DEF NoTestCases, NoTestCasesError
      <3>6. Finish(w) => s \in scored'
        BY <3>4 DEF Finish
      <3> QED
        BY <2>1, <3>1, <3>5, <3>6
    <2> QED
      BY <2>2, <2>3
  <1> QED
    BY <1>1, <1>2

\* VerdictReachesScoreboard: UpdateContestRanking has returned for a contest submission
\* with a verdict, or its task is being handled or will be, or was abandoned, dropped,
\* lost or had no test case.
THEOREM ScoreboardHears == PipelineSpec => []VerdictReachesScoreboard
  <1>1. PipelineInit => PipelineInv /\ ContestInv
    <2> SUFFICES ASSUME PipelineInit  PROVE ContestInv
      BY PipelineStart
    <2> QED
      BY DEF PipelineInit, Init, ContestInv
  <1>2. PipelineInv /\ ContestInv /\ [PipelineNext]_vars => (PipelineInv /\ ContestInv)'
    BY PipelineStep, ContestStep
  <1>3. PipelineInv /\ ContestInv /\ LossInv => VerdictReachesScoreboard
    <2> SUFFICES ASSUME PipelineInv, ContestInv, LossInv, NEW s \in InContest, row[s] \in Verdict
                 PROVE  \/ s \in scored \/ Ahead(contestJob[s]) \/ Abandoned(contestJob[s])
                        \/ contestJob[s] \in dropped \cup lost \cup untested
      BY DEF VerdictReachesScoreboard
    <2>1. s \in Sub /\ row[s] # "none"
      BY PipelineAssumption DEF PipelineAssumption
    <2>2. contestJob[s] \in Nat /\ contestJob[s] # 0 /\ contestJob[s] <= offered
      BY <2>1, JobNumbers DEF PipelineInv, JobInv, RowInv
    <2>3. \/ contestJob[s] \in handled \cup dropped \cup lost
          \/ Ahead(contestJob[s]) \/ Abandoned(contestJob[s])
      BY <2>2, JobIsSomewhere
    <2> QED
      BY <2>3 DEF ContestInv
  <1> QED
    BY <1>1, <1>2, <1>3, PipelineLosesNone, PTL DEF PipelineSpec

-----------------------------------------------------------------------------
(***************************************************************************)
(* Without redelivery each further ranking of a submission takes a panic   *)
(* of its contest task.  What is inductive: while the task still has a     *)
(* copy that may yet be ranked, its submission has been ranked at most as  *)
(* often as the task has panicked.                                         *)
(***************************************************************************)
Rankable(j) ==
  \/ \E m \in Waiting : m.job = j
  \/ \E w \in Worker : Active(w) /\ held[w].job = j /\ stage[w] # "ranking"

RankedInv == backend # "nsq" => \A s \in Sub :
  /\ row[s] = "none" => ranked[s] = 0
  /\ \A j \in Job \ twice : contestJob[s] = j =>
       /\ ranked[s] <= 1 + panics[j]
       /\ Rankable(j) => ranked[s] <= panics[j]

\* No step of the queue forgets a panic or a task that was added twice, or changes
\* the back end.
LEMMA QueueRemembers ==
  ASSUME TypeOK, [Next]_queueVars
  PROVE  /\ twice \subseteq twice' /\ backend' = backend
         /\ \A j \in Job : panics'[j] = panics[j] \/ panics'[j] = panics[j] + 1
  BY DEF TypeOK, Next, Consume, Broker, Offer, Publish, PublishTwice, PublishError, Take, GiveUp,
         ReplyLost, HandlerReturns, HandlerPanics, Republish, RepublishTwice, RepublishError, Ack,
         AckError, Redeliver, Crash, queueVars

\* A copy that may be ranked comes from another such copy, or from a panic.
LEMMA RankableStep ==
  ASSUME PipelineInv, [PipelineNext]_vars, backend # "nsq",
         ~(\E p \in Process, s \in Sub : ApiStep(p, s)),
         NEW j \in Job, Rankable(j)'
  PROVE  Rankable(j) \/ panics'[j] = panics[j] + 1
  <1> DEFINE Goal == Rankable(j) \/ panics'[j] = panics[j] + 1
  <1> USE DEF Waiting, Active
  <1>t. /\ held \in [Worker -> Message \cup {NoMessage}]
        /\ phase \in [Worker -> {"idle", "handling", "requeue", "ack"}]
        /\ stage \in [Worker -> {"idle", "judge", "write", "tx", "announce", "rank", "ranking"}]
        /\ panics \in [Job -> Nat]
    BY DEF PipelineInv, PipelineTypes, TypeOK
  <1>q. \A w \in Worker : phase[w] = "requeue" => stage[w] # "ranking"
    BY DEF PipelineInv, PipelineTypes
  <1>1. ASSUME NEW w \in Worker, JudgeTask(w)  PROVE Goal
    <2>1. CASE Begin(w)
      <3>1. PICK m \in queue : Take(w, m)
        BY <2>1 DEF Begin
      <3>2. Delivered(m).job = m.job
        BY <3>1 DEF Delivered, PipelineInv, TypeOK, Message
      <3>3. stage' = [stage EXCEPT ![w] = "judge"]
        BY <2>1 DEF Begin, GoTo
      <3> QED
        BY <1>t, <3>1, <3>2, <3>3 DEF Take, Rankable
    <2>2. CASE NoTestCases(w) \/ NoTestCasesError(w) \/ Finish(w)
      <3>1. HandlerReturns(w) /\ \A v \in Worker \ {w} : stage'[v] = stage[v]
        BY <2>2 DEF NoTestCases, NoTestCasesError, Finish, Leave
      <3>2. /\ UNCHANGED <<outbox, queue>> /\ phase'[w] \notin {"handling", "requeue"}
            /\ \A v \in Worker \ {w} : phase'[v] = phase[v] /\ held'[v] = held[v]
        BY <1>t, <3>1 DEF HandlerReturns, LeaveHandler
      <3> QED
        BY <3>1, <3>2 DEF Rankable
    <2>3. CASE Panic(w)
      <3>1. HandlerPanics(w) /\ \A v \in Worker \ {w} : stage'[v] = stage[v]
        BY <2>3 DEF Panic, Leave
      <3>2. /\ UNCHANGED <<outbox, queue>> /\ panics' = [panics EXCEPT ![held[w].job] = @ + 1]
            /\ \A v \in Worker \ {w} : phase'[v] = phase[v] /\ held'[v] = held[v]
            /\ phase'[w] \in {"handling", "requeue"} => held'[w] = held[w]
        BY <1>t, <3>1 DEF HandlerPanics, LeaveHandler
      <3>3. CASE held[w].job = j
        BY <1>t, <3>2, <3>3
      <3>4. CASE held[w].job # j
        BY <3>1, <3>2, <3>4 DEF Rankable
      <3> QED
        BY <3>3, <3>4
    <2>4. CASE \/ (\E v \in Verdict : Judge(w, v)) \/ WriteFailure(w) \/ TxCount(w)
               \/ CommitAccepted(w) \/ DbError(w) \/ Announce(w) \/ Rank(w)
      <3>1. /\ UNCHANGED queueVars /\ stage[w] # "ranking"
            /\ \A v \in Worker \ {w} : stage'[v] = stage[v]
        BY <1>t, <2>4 DEF Judge, WriteFailure, TxCount, CommitAccepted, DbError, Announce, Rank, GoTo
      <3> QED
        BY <3>1 DEF queueVars, Rankable
    <2> QED
      BY <1>1, <2>1, <2>2, <2>3, <2>4 DEF JudgeTask, TxCommit, TxCommitUncounted
  <1>2. ASSUME NEW w \in Worker, ConsumerLoop(w)  PROVE Goal
    <2>s. stage' = stage
      BY <1>2 DEF ConsumerLoop, workVars
    <2>1. ASSUME NEW m \in queue, GiveUp(w, m)  PROVE Goal
      BY <2>s, <2>1 DEF GiveUp, Rankable
    <2>2. CASE RepublishError(w) \/ Ack(w) \/ AckError(w)
      BY <1>t, <2>s, <2>2 DEF RepublishError, Ack, AckError, LeaveHandler, Rankable
    <2>3. CASE Republish(w) \/ RepublishTwice(w)
      <3> DEFINE r == Retried(w)
                 c == [r EXCEPT !.id = nextId + 1]
      <3>1. r.job = held[w].job /\ c.job = held[w].job
        BY DEF Retried
      <3>2. /\ \A m \in queue' : m \in queue \/ m = r \/ m = c
            /\ outbox' = outbox /\ phase[w] = "requeue"
            /\ phase'[w] \notin {"handling", "requeue"}
            /\ \A v \in Worker \ {w} : phase'[v] = phase[v] /\ held'[v] = held[v]
        BY <1>t, <2>3 DEF Republish, RepublishTwice, LeaveHandler
      <3> HIDE DEF r, c
      <3> QED
        BY <1>q, <2>s, <3>1, <3>2 DEF Rankable
    <2> QED
      BY <1>2, <2>1, <2>2, <2>3 DEF ConsumerLoop
  <1>3. ASSUME NEW m \in outbox, PublishStep(m)  PROVE Goal
    <2>1. stage' = stage
      BY <1>3 DEF PublishStep, workVars
    <2>2. CASE Publish(m) \/ PublishError(m)
      BY <2>1, <2>2 DEF Publish, PublishError, Rankable
    <2>3. CASE PublishTwice(m)
      <3> DEFINE c == [m EXCEPT !.id = nextId]
      <3>1. c.job = m.job
        BY DEF PipelineInv, TypeOK, Message
      <3>2. /\ queue' = queue \cup {m, c} /\ outbox' = outbox \ {m}
            /\ UNCHANGED <<held, phase>>
        BY <2>3 DEF PublishTwice
      <3> HIDE DEF c
      <3> QED
        BY <2>1, <3>1, <3>2 DEF Rankable
    <2> QED
      BY <1>3, <2>2, <2>3 DEF PublishStep
  <1>4. ASSUME NEW k \in Key, DedupExpires(k)  PROVE Goal
    BY <1>4 DEF DedupExpires, workVars, queueVars, Rankable
  <1>5. CASE BrokerStep
    BY <1>5 DEF BrokerStep, Broker, ReplyLost, Redeliver, workVars, Rankable
  <1>6. ASSUME NEW p \in Process, ProcessCrash(p)  PROVE Goal
    <2>1. /\ outbox' \subseteq outbox /\ queue' \subseteq queue
          /\ \A w \in Worker : \/ phase'[w] = "idle"
                               \/ phase'[w] = phase[w] /\ held'[w] = held[w] /\ stage'[w] = stage[w]
      BY <1>6 DEF ProcessCrash, Crash, Leave
    <2> QED
      BY <2>1 DEF Rankable
  <1>7. CASE UNCHANGED vars
    BY <1>7 DEF vars, workVars, queueVars, Rankable
  <1>8. ~(\E p \in Process, s \in Sub :
            Submit(p, s) \/ ContestSubmit(p, s) \/ ReJudge(p, s) \/ ReJudgeError(p, s))
    BY DEF ApiStep
  <1> QED
    BY <1>1, <1>2, <1>3, <1>4, <1>5, <1>6, <1>7, <1>8 DEF PipelineNext

LEMMA RankedStep ==
  PipelineInv /\ RankedInv /\ [PipelineNext]_vars /\ PipelineInv' /\ OneCopy' => RankedInv'
  <1> SUFFICES ASSUME PipelineInv, RankedInv, [PipelineNext]_vars, PipelineInv', OneCopy',
                      backend' # "nsq", NEW s \in Sub
               PROVE  /\ row'[s] = "none" => ranked'[s] = 0
                      /\ \A j \in Job \ twice' : contestJob'[s] = j =>
                           /\ ranked'[s] <= 1 + panics'[j]
                           /\ Rankable(j)' => ranked'[s] <= panics'[j]
    BY DEF RankedInv
  <1>q. /\ twice \subseteq twice' /\ backend # "nsq"
        /\ \A j \in Job : panics'[j] = panics[j] \/ panics'[j] = panics[j] + 1
    BY QueueStep, QueueRemembers DEF PipelineInv
  <1>t. ranked[s] \in Nat /\ \A j \in Job : panics[j] \in Nat
    BY DEF PipelineInv, PipelineTypes, TypeOK
  <1>i. /\ row[s] = "none" => ranked[s] = 0
        /\ \A j \in Job \ twice : contestJob[s] = j =>
             /\ ranked[s] <= 1 + panics[j]
             /\ Rankable(j) => ranked[s] <= panics[j]
    BY <1>q DEF RankedInv
  <1>1. ASSUME NEW p \in Process, NEW x \in Sub, ApiStep(p, x), NEW j \in Job \ twice',
               contestJob'[s] = j
        PROVE  /\ ranked'[s] <= 1 + panics'[j]
               /\ Rankable(j)' => ranked'[s] <= panics'[j]
    <2> DEFINE n == offered + 1
    <2>1. /\ UNCHANGED <<held, phase, stage, panics, ranked>>
          /\ contestJob' = IF ContestSubmit(p, x) THEN [contestJob EXCEPT ![x] = n]
                           ELSE contestJob
          /\ ContestSubmit(p, x) => row[x] = "none"
          /\ \A m \in Copies' : m \in Copies \/ m.job = n
      BY <1>1, ApiMakes DEF PipelineInv
    <2>2. contestJob \in [Sub -> 0 .. MaxOffers]
      BY DEF PipelineInv, PipelineTypes
    <2>3. CASE contestJob'[s] # contestJob[s]
      <3>1. row[s] = "none"
        BY <2>1, <2>2, <2>3
      <3> QED
        BY <1>i, <1>t, <2>1, <3>1
    <2>4. CASE contestJob'[s] = contestJob[s]
      <3>1. j # n
        <4>1. contestJob[s] <= offered /\ contestJob[s] \in Nat /\ offered \in Nat
          BY JobNumbers DEF PipelineInv, JobInv, RowInv
        <4> QED
          BY <1>1, <2>4, <4>1
      <3>2. Rankable(j)' => Rankable(j)
        <4>1. \E c \in BOOLEAN : PublishTask(p, x, c)
          BY <1>1 DEF ApiStep, Submit, ContestSubmit, ReJudge, ReJudgeError
        <4>2. \A m \in Waiting' : m \in Waiting \/ m.job = n
          BY <4>1 DEF PublishTask, Offer, Waiting
        <4> QED
          BY <2>1, <3>1, <4>2 DEF Rankable, Active
      <3> QED
        BY <1>1, <1>i, <1>q, <2>1, <2>4, <3>2
    <2> QED
      BY <2>3, <2>4
  <1>2. ASSUME NEW p \in Process, NEW x \in Sub, ApiStep(p, x)
        PROVE  row'[s] = "none" => ranked'[s] = 0
    <2>1. /\ row' = [row EXCEPT ![x] = "pending"] \/ row' = row
          /\ ranked' = ranked
      BY <1>2, ApiMakes DEF PipelineInv
    <2>2. row \in [Sub -> RowStatus]
      BY DEF PipelineInv, PipelineTypes
    <2> QED
      BY <1>i, <2>1, <2>2
  <1>3. ASSUME ~(\E p \in Process, x \in Sub : ApiStep(p, x))
        PROVE  /\ row'[s] = "none" => ranked'[s] = 0
               /\ \A j \in Job \ twice' : contestJob'[s] = j =>
                    /\ ranked'[s] <= 1 + panics'[j]
                    /\ Rankable(j)' => ranked'[s] <= panics'[j]
    <2>1. contestJob' = contestJob /\ (row'[s] = "none" <=> row[s] = "none")
      BY <1>3, OtherStep
    <2>2. CASE ranked'[s] = ranked[s]
      <3>1. ASSUME NEW j \in Job \ twice', contestJob'[s] = j
            PROVE  /\ ranked'[s] <= 1 + panics'[j]
                   /\ Rankable(j)' => ranked'[s] <= panics'[j]
        <4>1. /\ ranked[s] <= 1 + panics[j] /\ (Rankable(j) => ranked[s] <= panics[j])
              /\ panics'[j] = panics[j] \/ panics'[j] = panics[j] + 1
              /\ panics[j] \in Nat
          BY <1>i, <1>q, <1>t, <2>1, <3>1
        <4>2. Rankable(j)' => Rankable(j) \/ panics'[j] = panics[j] + 1
          BY <1>3, <1>q, RankableStep
        <4> QED
          BY <1>t, <2>2, <4>1, <4>2
      <3> QED
        BY <1>i, <2>1, <2>2, <3>1
    <2>3. CASE ranked'[s] # ranked[s]
      <3>1. PICK w \in Worker : Rank(w) /\ held[w].task.contest /\ s = SubOf(w)
        BY <2>3, Remembered
      <3>2. /\ stage[w] = "rank" /\ stage'[w] = "ranking" /\ UNCHANGED queueVars
            /\ phase[w] = "handling" /\ MessageInv(held[w])
        <4>1. stage[w] = "rank"
          BY <3>1 DEF Rank
        <4>2. phase[w] = "handling" /\ MessageInv(held[w])
          BY <4>1, AtWork DEF PipelineInv, JobInv
        <4> QED
          BY <3>1, <4>1, <4>2 DEF Rank, GoTo, PipelineInv, PipelineTypes
      <3>3. contestJob[s] = held[w].job /\ row[s] # "none" /\ UNCHANGED <<held, phase, panics>>
        BY <3>1, <3>2 DEF MessageInv, SubOf, queueVars
      <3>4. ASSUME NEW j \in Job \ twice', contestJob'[s] = j
            PROVE  /\ ranked'[s] <= 1 + panics'[j]
                   /\ ~Rankable(j)'
        <4>1. ranked[s] <= panics[j]
          BY <1>i, <1>q, <2>1, <3>2, <3>3, <3>4 DEF Rankable, Active
        <4>2. ranked'[s] = ranked[s] + 1
          BY <2>3, Remembered
        <4>3. ~Rankable(j)'
          BY <2>1, <3>2, <3>3, <3>4 DEF OneCopy, Rankable, Active
        <4> QED
          BY <1>t, <3>3, <4>1, <4>2, <4>3
      <3> QED
        BY <2>1, <3>3, <3>4
    <2> QED
      BY <2>2, <2>3
  <1> QED
    BY <1>1, <1>2, <1>3

\* RankedOncePerAttempt: with the channel or Redis a submission is ranked once, and once
\* more at most for every panic of its contest task.
THEOREM OneRanking == PipelineSpec => []RankedOncePerAttempt
  <1>1. PipelineInit => PipelineInv /\ ActiveInv /\ RankedInv
    <2> SUFFICES ASSUME PipelineInit  PROVE ActiveInv /\ RankedInv
      BY PipelineStart
    <2>1. RankedInv
      <3>1. \A s \in Sub : ranked[s] = 0 /\ contestJob[s] = 0
        BY DEF PipelineInit
      <3>2. 0 \notin Job
        BY JudgeQueueAssumption DEF Job, JudgeQueueAssumption
      <3> QED
        BY <3>1, <3>2 DEF RankedInv
    <2> QED
      BY <2>1 DEF PipelineInit, Init, ActiveInv, PlaceInv, OneCopy, FreshIds, OnePlace, Waiting, Active
  <1>2. PipelineInv /\ ActiveInv /\ RankedInv /\ [PipelineNext]_vars
          => (PipelineInv /\ ActiveInv /\ RankedInv)'
    <2> SUFFICES ASSUME PipelineInv, ActiveInv, RankedInv, [PipelineNext]_vars
                 PROVE  (PipelineInv /\ ActiveInv /\ RankedInv)'
      OBVIOUS
    <2>1. TypeOK /\ [Next]_queueVars
      BY QueueStep DEF PipelineInv
    <2>2. PipelineInv' /\ ActiveInv'
      BY <2>1, PipelineStep, ActiveStep
    <2> QED
      BY <2>2, RankedStep DEF ActiveInv
  <1>3. RankedInv => RankedOncePerAttempt
    BY DEF RankedInv, RankedOncePerAttempt
  <1> QED
    BY <1>1, <1>2, <1>3, PTL DEF PipelineSpec

-----------------------------------------------------------------------------
(***************************************************************************)
(* accepted_count never counts too few users.  A transaction that does not *)
(* increment it has seen an Accepted row of the same user, so that user    *)
(* was counted before, even if that row has been reset meanwhile; a COUNT  *)
(* that fails makes it increment, and only a refused increment is missing. *)
(***************************************************************************)
Solvers(q) ==
  IsFiniteSet(solved[q]) /\ Cardinality(solved[q]) <= accepted[q] + uncounted[q]

Commits(w) == TxCommit(w) \/ TxCommitUncounted(w)

AcceptedInv ==
  /\ \A s \in Sub : row[s] = "Accepted" => UserOf[s] \in solved[ProblemOf[s]]
  /\ \A w \in Worker : stage[w] = "tx" /\ ~first[w] => UserOf[SubOf(w)] \in solved[ProblemOf[SubOf(w)]]
  /\ \A q \in Problem : Solvers(q)

\* Only a commit touches the count and the set it counts.
LEMMA CountedStep ==
  ASSUME PipelineInv, [PipelineNext]_vars
  PROVE  \/ \E w \in Worker : Commits(w)
         \/ UNCHANGED <<accepted, uncounted, solved>>
  <1> USE DEF dbVars
  <1>1. ASSUME NEW p \in Process, NEW s \in Sub, ApiStep(p, s)
        PROVE  UNCHANGED <<accepted, uncounted, solved>>
    BY <1>1, ApiMakes DEF PipelineInv
  <1>2. ASSUME NEW w \in Worker, JudgeTask(w), ~Commits(w)
        PROVE  UNCHANGED <<accepted, uncounted, solved>>
    BY <1>2 DEF JudgeTask, Commits, Begin, NoTestCases, NoTestCasesError, Judge, WriteFailure, TxCount,
                DbError, Announce, Rank, Finish, Panic
  <1>3. ASSUME NEW w \in Worker, ConsumerLoop(w)  PROVE UNCHANGED <<accepted, uncounted, solved>>
    BY <1>3 DEF ConsumerLoop
  <1>4. ASSUME NEW m \in outbox, PublishStep(m)  PROVE UNCHANGED <<accepted, uncounted, solved>>
    BY <1>4 DEF PublishStep
  <1>5. ASSUME NEW k \in Key, DedupExpires(k)  PROVE UNCHANGED <<accepted, uncounted, solved>>
    BY <1>5 DEF DedupExpires
  <1>6. ASSUME BrokerStep  PROVE UNCHANGED <<accepted, uncounted, solved>>
    BY <1>6 DEF BrokerStep
  <1>7. ASSUME NEW p \in Process, ProcessCrash(p)  PROVE UNCHANGED <<accepted, uncounted, solved>>
    BY <1>7 DEF ProcessCrash
  <1>8. ASSUME UNCHANGED vars  PROVE UNCHANGED <<accepted, uncounted, solved>>
    BY <1>8 DEF vars
  <1>a. \A p \in Process, s \in Sub :
          Submit(p, s) \/ ContestSubmit(p, s) \/ ReJudge(p, s) \/ ReJudgeError(p, s)
            => ApiStep(p, s)
    BY DEF ApiStep
  <1> QED
    BY <1>1, <1>2, <1>3, <1>4, <1>5, <1>6, <1>7, <1>8, <1>a DEF PipelineNext

\* The count grows by one exactly when the set may.
LEMMA CommitCounts ==
  ASSUME PipelineInv, AcceptedInv, NEW w \in Worker, Commits(w), NEW q \in Problem
  PROVE  Solvers(q)'
  <1> DEFINE u == UserOf[SubOf(w)]
             x == ProblemOf[SubOf(w)]
             A == solved[x]
             n == accepted[x]
             k == uncounted[x]
  <1>0. CommitAccepted(w)
    BY DEF Commits, TxCommit, TxCommitUncounted
  <1>1. stage[w] = "tx" /\ SubOf(w) \in Sub /\ x \in Problem
    <2>1. stage[w] = "tx"
      BY <1>0 DEF CommitAccepted
    <2> QED
      BY <2>1, AtWork DEF PipelineInv, Problem
  <1>2. /\ accepted \in [Problem -> Nat] /\ uncounted \in [Problem -> Nat]
        /\ solved \in [Problem -> SUBSET {UserOf[s] : s \in Sub}]
        /\ IsFiniteSet(A) /\ Cardinality(A) \in Nat /\ Cardinality(A) <= n + k
        /\ n \in Nat /\ k \in Nat
    BY <1>1, FS_CardinalityType DEF PipelineInv, PipelineTypes, AcceptedInv, Solvers
  <1>3. /\ IsFiniteSet(A \cup {u})
        /\ Cardinality(A \cup {u}) = IF u \in A THEN Cardinality(A) ELSE Cardinality(A) + 1
    BY <1>2, FS_AddElement
  <1>4. ~first[w] => u \in A
    BY <1>1 DEF AcceptedInv
  <1>5. solved' = [solved EXCEPT ![x] = A \cup {u}]
    BY <1>0 DEF CommitAccepted
  <1>6. \/ first[w] /\ accepted' = [accepted EXCEPT ![x] = n + 1] /\ uncounted' = uncounted
        \/ first[w] /\ accepted' = accepted /\ uncounted' = [uncounted EXCEPT ![x] = k + 1]
        \/ ~first[w] /\ accepted' = accepted /\ uncounted' = uncounted
    BY DEF Commits, TxCommit, TxCommitUncounted, PipelineInv, PipelineTypes
  <1>7. /\ first[w] => Cardinality(A \cup {u}) <= n + k + 1
        /\ ~first[w] => Cardinality(A \cup {u}) <= n + k
    <2> HIDE DEF A, u, n, k
    <2> QED
      BY <1>2, <1>3, <1>4
  <1> HIDE DEF A, u, n, k, x
  <1>8. CASE q = x
    <2>1. /\ solved'[q] = A \cup {u}
          /\ \/ first[w] /\ accepted'[q] = n + 1 /\ uncounted'[q] = k
             \/ first[w] /\ accepted'[q] = n /\ uncounted'[q] = k + 1
             \/ ~first[w] /\ accepted'[q] = n /\ uncounted'[q] = k
      BY <1>1, <1>2, <1>5, <1>6, <1>8 DEF n, k
    <2>2. Cardinality(A \cup {u}) <= accepted'[q] + uncounted'[q]
      BY <1>2, <1>7, <2>1
    <2> QED
      BY <1>3, <2>1, <2>2 DEF Solvers
  <1>9. CASE q # x
    <2>1. solved'[q] = solved[q] /\ accepted'[q] = accepted[q] /\ uncounted'[q] = uncounted[q]
      BY <1>1, <1>2, <1>5, <1>6, <1>9
    <2> QED
      BY <2>1 DEF Solvers, AcceptedInv
  <1> QED
    BY <1>8, <1>9

\* Only a commit makes a row Accepted: a failing verdict is written by another branch.
LEMMA AcceptedByCommit ==
  ASSUME PipelineInv, [PipelineNext]_vars, NEW s \in Sub, row[s] # "Accepted", row'[s] = "Accepted"
  PROVE  \E w \in Worker : CommitAccepted(w) /\ s = SubOf(w)
  <1> USE DEF dbVars
  <1>t. row \in [Sub -> RowStatus]
    BY DEF PipelineInv, PipelineTypes
  <1>1. ASSUME NEW p \in Process, NEW x \in Sub, ApiStep(p, x)  PROVE FALSE
    <2>1. row' = [row EXCEPT ![x] = "pending"] \/ row' = row
      BY <1>1, ApiMakes DEF PipelineInv
    <2> QED
      BY <1>t, <2>1
  <1>2. ASSUME NEW w \in Worker, JudgeTask(w)  PROVE CommitAccepted(w) /\ s = SubOf(w)
    <2>1. CASE NoTestCases(w)
      BY <1>t, <2>1 DEF NoTestCases
    <2>2. CASE WriteFailure(w)
      BY <1>t, <2>2 DEF WriteFailure
    <2>3. CASE CommitAccepted(w)
      BY <1>t, <2>3 DEF CommitAccepted
    <2>4. CASE ~NoTestCases(w) /\ ~WriteFailure(w) /\ ~CommitAccepted(w)
      BY <1>2, <2>4 DEF JudgeTask, Begin, NoTestCasesError, Judge, TxCount, TxCommit,
                        TxCommitUncounted, DbError, Announce, Rank, Finish, Panic
    <2> QED
      BY <2>1, <2>2, <2>3, <2>4
  <1>3. ASSUME NEW w \in Worker, ConsumerLoop(w)  PROVE FALSE
    BY <1>3 DEF ConsumerLoop
  <1>4. ASSUME NEW m \in outbox, PublishStep(m)  PROVE FALSE
    BY <1>4 DEF PublishStep
  <1>5. ASSUME NEW k \in Key, DedupExpires(k)  PROVE FALSE
    BY <1>5 DEF DedupExpires
  <1>6. ASSUME BrokerStep  PROVE FALSE
    BY <1>6 DEF BrokerStep
  <1>7. ASSUME NEW p \in Process, ProcessCrash(p)  PROVE FALSE
    BY <1>7 DEF ProcessCrash
  <1>8. ASSUME UNCHANGED vars  PROVE FALSE
    BY <1>8 DEF vars
  <1>a. \A p \in Process, x \in Sub :
          Submit(p, x) \/ ContestSubmit(p, x) \/ ReJudge(p, x) \/ ReJudgeError(p, x)
            => ApiStep(p, x)
    BY DEF ApiStep
  <1> QED
    BY <1>1, <1>2, <1>3, <1>4, <1>5, <1>6, <1>7, <1>8, <1>a DEF PipelineNext

LEMMA AcceptedStep == PipelineInv /\ AcceptedInv /\ [PipelineNext]_vars => AcceptedInv'
  <1> SUFFICES ASSUME PipelineInv, AcceptedInv, [PipelineNext]_vars  PROVE AcceptedInv'
    OBVIOUS
  <1>m. \A q \in Problem : solved[q] \subseteq solved'[q]
    BY Remembered
  <1>p. \A s \in Sub : ProblemOf[s] \in Problem
    BY DEF Problem
  <1>t. row \in [Sub -> RowStatus] /\ solved \in [Problem -> SUBSET {UserOf[s] : s \in Sub}]
        /\ first \in [Worker -> BOOLEAN]
    BY DEF PipelineInv, PipelineTypes
  <1>1. ASSUME NEW q \in Problem  PROVE Solvers(q)'
    <2>1. CASE \E w \in Worker : Commits(w)
      BY <2>1, CommitCounts
    <2>2. CASE UNCHANGED <<accepted, uncounted, solved>>
      BY <2>2 DEF Solvers, AcceptedInv
    <2> QED
      BY <2>1, <2>2, CountedStep
  <1>2. ASSUME NEW s \in Sub, row'[s] = "Accepted"  PROVE UserOf[s] \in solved'[ProblemOf[s]]
    <2>1. CASE row[s] = "Accepted"
      BY <1>m, <1>p, <2>1 DEF AcceptedInv
    <2>2. CASE row[s] # "Accepted"
      <3>1. PICK w \in Worker : CommitAccepted(w) /\ s = SubOf(w)
        BY <1>2, <2>2, AcceptedByCommit
      <3> QED
        BY <1>p, <1>t, <3>1 DEF CommitAccepted
    <2> QED
      BY <2>1, <2>2
  <1>3. ASSUME NEW w \in Worker, stage'[w] = "tx", ~first'[w]
        PROVE  UserOf[SubOf(w)'] \in solved'[ProblemOf[SubOf(w)']]
    <2>1. /\ stage[w] # "idle" /\ held'[w] = held[w]
          /\ \/ stage[w] = "tx" /\ first'[w] = first[w]
             \/ TxCount(w)
      BY <1>3, StageStep DEF Rests
    <2>2. SubOf(w)' = SubOf(w) /\ SubOf(w) \in Sub
      BY <2>1, AtWork DEF PipelineInv, SubOf
    <2>3. UserOf[SubOf(w)] \in solved[ProblemOf[SubOf(w)]]
      <3>1. CASE stage[w] = "tx" /\ first'[w] = first[w]
        BY <1>3, <3>1 DEF AcceptedInv
      <3>2. CASE TxCount(w)
        <4>1. first'[w] \in {TRUE, OtherAccepted(SubOf(w)) = {}}
          BY <1>t, <3>2 DEF TxCount
        <4>2. PICK x \in Sub : /\ UserOf[x] = UserOf[SubOf(w)] /\ ProblemOf[x] = ProblemOf[SubOf(w)]
                               /\ row[x] = "Accepted"
          BY <1>3, <4>1 DEF OtherAccepted
        <4> QED
          BY <4>2 DEF AcceptedInv
      <3> QED
        BY <2>1, <3>1, <3>2
    <2> QED
      BY <1>m, <1>p, <2>2, <2>3
  <1> QED
    BY <1>1, <1>2, <1>3 DEF AcceptedInv

\* AcceptedNeverUndercounts: accepted_count and the increments the database refused are
\* together at least the number of users with an Accepted submission, in every
\* interleaving of transactions, rejudges, crashes and failing COUNTs.
THEOREM AcceptedCountSuffices == PipelineSpec => []AcceptedNeverUndercounts
  <1>1. PipelineInit => PipelineInv /\ AcceptedInv
    <2> SUFFICES ASSUME PipelineInit  PROVE AcceptedInv
      BY PipelineStart
    <2>1. \A q \in Problem : solved[q] = {} /\ accepted[q] = 0 /\ uncounted[q] = 0
      BY DEF PipelineInit
    <2>2. \A q \in Problem : Solvers(q)
      BY <2>1, FS_EmptySet DEF Solvers
    <2> QED
      BY <2>2 DEF PipelineInit, AcceptedInv
  <1>2. PipelineInv /\ AcceptedInv /\ [PipelineNext]_vars => (PipelineInv /\ AcceptedInv)'
    BY PipelineStep, AcceptedStep
  <1>3. PipelineInv /\ AcceptedInv => AcceptedNeverUndercounts
    <2> SUFFICES ASSUME PipelineInv, AcceptedInv, NEW q \in Problem
                 PROVE  accepted[q] + uncounted[q] >= Cardinality(solved[q])
      BY DEF AcceptedNeverUndercounts
    <2>1. /\ Cardinality(solved[q]) \in Nat /\ accepted[q] \in Nat /\ uncounted[q] \in Nat
          /\ Cardinality(solved[q]) <= accepted[q] + uncounted[q]
      BY FS_CardinalityType DEF AcceptedInv, Solvers, PipelineInv, PipelineTypes
    <2> QED
      BY ONLY <2>1
  <1> QED
    BY <1>1, <1>2, <1>3, PTL DEF PipelineSpec

-----------------------------------------------------------------------------
(***************************************************************************)
(* The pipeline judges each submission as VerdictSource has it.  Does and  *)
(* Knows are what Source(s) takes for the stage and the verdict of a       *)
(* goroutine.  What is needed beside PipelineInv: a transaction is begun   *)
(* for an Accepted verdict only, so the row says what will be announced.   *)
(***************************************************************************)
Does(w, s)  == IF Judges(w, s) THEN "judge" ELSE IF Tells(w, s) THEN "publish" ELSE "idle"
Knows(w, s) == IF Tells(w, s) THEN verdict[w] ELSE "none"

Mine(s) == {m \in Copies : m.task.sub = s}

TxAccepted == \A w \in Worker : stage[w] = "tx" => verdict[w] = "Accepted"

\* A transaction keeps the verdict it was begun for.
LEMMA TxStep == PipelineInv /\ TxAccepted /\ [PipelineNext]_vars => TxAccepted'
  <1> SUFFICES ASSUME PipelineInv, TxAccepted, [PipelineNext]_vars,
                      NEW w \in Worker, stage'[w] = "tx"
               PROVE  verdict'[w] = "Accepted"
    BY DEF TxAccepted
  <1>1. \/ stage[w] = "tx" /\ verdict'[w] = verdict[w]
        \/ TxCount(w)
    BY StageStep DEF Rests
  <1> QED
    BY <1>1 DEF TxAccepted, TxCount

TaskFacts ==
  \A s \in Sub :
    /\ TasksOf(s) \in {"none", "held", "waiting"}
    /\ TasksOf(s) = "none" <=> Mine(s) = {}
    /\ TasksOf(s) = "waiting" <=> \E m \in Mine(s) : Waits(m)
    /\ \A w \in Worker : Does(w, s) # "idle" => Mine(s) # {}

\* What TasksOf says, and that a goroutine which works on a submission has a task of it.
LEMMA TasksHold == PipelineInv => TaskFacts
  <1> SUFFICES ASSUME PipelineInv, NEW s \in Sub
               PROVE  /\ TasksOf(s) \in {"none", "held", "waiting"}
                      /\ TasksOf(s) = "none" <=> Mine(s) = {}
                      /\ TasksOf(s) = "waiting" <=> \E m \in Mine(s) : Waits(m)
                      /\ \A w \in Worker : Does(w, s) # "idle" => Mine(s) # {}
    BY DEF TaskFacts
  <1>1. ASSUME NEW w \in Worker, Does(w, s) # "idle"  PROVE Mine(s) # {}
    <2>1. stage[w] # "idle" /\ SubOf(w) = s
      BY <1>1 DEF Does, Judges, Tells
    <2> QED
      BY <2>1, AtWork DEF PipelineInv, Mine, SubOf
  <1>2. TasksOf(s) = IF \E m \in Mine(s) : Waits(m) THEN "waiting"
                     ELSE IF Mine(s) # {} THEN "held" ELSE "none"
    BY DEF TasksOf, Mine
  <1> QED
    BY <1>1, <1>2

\* Both before and after a step.
LEMMA TasksHoldBoth ==
  ASSUME PipelineInv, [PipelineNext]_vars
  PROVE  TaskFacts /\ TaskFacts'
  <1>1. PipelineInv'
    BY PipelineStep
  <1> QED
    BY <1>1, TasksHold, PTL

\* A submission gets a new task from its own Submit or ReJudge alone.
LEMMA NoNewTask ==
  ASSUME PipelineInv, [PipelineNext]_vars, NEW s \in Sub,
         ~(\E p \in Process : ApiStep(p, s))
  PROVE  Mine(s) = {} => Mine(s)' = {}
  <1>1. ASSUME NEW p \in Process, NEW x \in Sub, ApiStep(p, x), NEW m \in Copies',
               m.task.sub = s
        PROVE  m \in Copies
    <2>1. x # s
      BY <1>1
    <2>2. m \in Copies \/ m.task = [sub |-> x, contest |-> ContestSubmit(p, x)]
      BY <1>1, ApiMakes DEF PipelineInv
    <2> QED
      BY <1>1, <2>1, <2>2
  <1>2. CASE \E p \in Process, x \in Sub : ApiStep(p, x)
    BY <1>1, <1>2 DEF Mine
  <1>3. CASE ~(\E p \in Process, x \in Sub : ApiStep(p, x))
    BY <1>3, OtherCopies DEF Mine, Heir
  <1> QED
    BY <1>2, <1>3

-----------------------------------------------------------------------------
(***************************************************************************)
(* Source(s) knows of a goroutine what Does and Knows say: what each step  *)
(* of VerdictSource requires of these, of the row and of the tasks.        *)
(***************************************************************************)

\* The goroutines W stopped, or a task was lost, moved or delivered again.
LEMMA SourceStops ==
  ASSUME PipelineInv, [PipelineNext]_vars, NEW s \in Sub, NEW W \in SUBSET Worker,
         ~(\E p \in Process : ApiStep(p, s)),
         \A w \in Worker : /\ Does(w, s)' = IF w \in W THEN "idle" ELSE Does(w, s)
                           /\ Knows(w, s)' = IF w \in W THEN "none" ELSE Knows(w, s),
         row'[s] = row[s], dbErrors' = dbErrors
  PROVE  Source(s)!SourceStep
  <1>1. /\ TasksOf(s)' \in IF TasksOf(s) = "none" THEN {"none"} ELSE {"none", "held", "waiting"}
        /\ TasksOf(s)' = "none" => \A w \in Worker : Does(w, s)' = "idle"
    BY TasksHoldBoth, NoNewTask DEF TaskFacts
  <1>2. Source(s)!Stop(W)
    BY <1>1 DEF Source!Stop, Source!Leave, Source!AllIdle, Does, Knows
  <1> QED
    BY <1>2 DEF Source!SourceStep, Source!SourceNext

\* Nothing that concerns s changed, or a task of it was moved.
LEMMA SourceRests ==
  ASSUME PipelineInv, [PipelineNext]_vars, NEW s \in Sub,
         ~(\E p \in Process : ApiStep(p, s)),
         \A w \in Worker : Does(w, s)' = Does(w, s) /\ Knows(w, s)' = Knows(w, s),
         row'[s] = row[s], dbErrors' = dbErrors
  PROVE  Source(s)!SourceStep
  <1>1. {} \in SUBSET Worker /\ \A w \in Worker : w \notin {}
    OBVIOUS
  <1> QED
    BY <1>1, SourceStops

\* The row of s was reset, unless the database refused it, and a task of it waits.
LEMMA SourceEnqueues ==
  ASSUME NEW s \in Sub, TasksOf(s)' = "waiting",
         \/ row'[s] = "pending" /\ dbErrors' = dbErrors
         \/ row'[s] = row[s] /\ row[s] # "none" /\ dbErrors' = dbErrors + 1,
         \A w \in Worker : Does(w, s)' = Does(w, s) /\ Knows(w, s)' = Knows(w, s)
  PROVE  Source(s)!SourceStep
  <1>1. CASE row'[s] = "pending" /\ dbErrors' = dbErrors
    <2>1. Source(s)!Enqueue
      BY <1>1 DEF Source!Enqueue, Does, Knows
    <2> QED
      BY <2>1 DEF Source!SourceStep, Source!SourceNext, Source!Submit, Source!ReJudge
  <1>2. CASE row'[s] = row[s] /\ row[s] # "none" /\ dbErrors' = dbErrors + 1
    <2>1. Source(s)!ReJudgeError
      BY <1>2 DEF Source!ReJudgeError, Does, Knows
    <2> QED
      BY <2>1 DEF Source!SourceStep, Source!SourceNext
  <1> QED
    BY <1>1, <1>2

\* Goroutine w took a task of s that waited.
LEMMA SourceStarts ==
  ASSUME NEW s \in Sub, NEW w \in Worker,
         Does(w, s) = "idle", Does(w, s)' = "judge",
         TasksOf(s) = "waiting", TasksOf(s)' \in {"held", "waiting"},
         \A v \in Worker \ {w} : Does(v, s)' = Does(v, s),
         \A v \in Worker : Knows(v, s)' = Knows(v, s),
         row'[s] = row[s], dbErrors' = dbErrors
  PROVE  Source(s)!SourceStep
  <1>1. Source(s)!Start(w)
    BY DEF Source!Start, Does, Knows
  <1> QED
    BY <1>1 DEF Source!SourceStep, Source!SourceNext, Source!JudgeStep

\* Goroutine w wrote its verdict to the row of s, or was refused.
LEMMA SourceWrites ==
  ASSUME NEW s \in Sub, NEW w \in Worker, NEW u \in Verdict,
         Does(w, s) = "judge", Does(w, s)' = "publish", Knows(w, s)' = u,
         \A v \in Worker \ {w} : Does(v, s)' = Does(v, s) /\ Knows(v, s)' = Knows(v, s),
         TasksOf(s)' = TasksOf(s),
         \/ row'[s] = u /\ dbErrors' \in {dbErrors, dbErrors + 1}
         \/ row'[s] = row[s] /\ dbErrors' = dbErrors + 1
  PROVE  Source(s)!SourceStep
  <1>1. Source(s)!ToPublish(w, u)
    BY DEF Source!ToPublish, Does, Knows
  <1>2. Source(s)!WriteVerdict(w, u) \/ Source(s)!WriteError(w, u)
    BY <1>1 DEF Source!WriteVerdict, Source!WriteError
  <1> QED
    BY <1>2 DEF Source!SourceStep, Source!SourceNext, Source!JudgeStep

\* Goroutine w published its verdict.
LEMMA SourcePublishes ==
  ASSUME NEW s \in Sub, NEW w \in Worker,
         Does(w, s) = "publish", Does(w, s)' = "idle", Knows(w, s)' = "none",
         \A v \in Worker \ {w} : Does(v, s)' = Does(v, s) /\ Knows(v, s)' = Knows(v, s),
         TasksOf(s)' = TasksOf(s), row'[s] = row[s], dbErrors' = dbErrors
  PROVE  Source(s)!SourceStep
  <1>1. Source(s)!PublishStatus(w)
    BY DEF Source!PublishStatus, Source!Leave, Does, Knows
  <1> QED
    BY <1>1 DEF Source!SourceStep, Source!SourceNext

\* Goroutine w found no test cases, and no task was taken from those who wait.
LEMMA SourceHasNoTests ==
  ASSUME NEW s \in Sub, NEW w \in Worker,
         Does(w, s) = "judge", Does(w, s)' = "idle", Knows(w, s)' = "none",
         \A v \in Worker \ {w} : Does(v, s)' = Does(v, s) /\ Knows(v, s)' = Knows(v, s),
         \/ TasksOf(s)' = TasksOf(s)
         \/ TasksOf(s) = "held" /\ TasksOf(s)' = "none" /\ \A v \in Worker : Does(v, s)' = "idle",
         \/ row'[s] = "No Test Cases" /\ dbErrors' = dbErrors
         \/ row'[s] = row[s] /\ dbErrors' = dbErrors + 1
  PROVE  Source(s)!SourceStep
  <1>1. Source(s)!NoTestCases(w)
    BY DEF Source!NoTestCases, Source!Leave, Source!AllIdle, Does, Knows
  <1> QED
    BY <1>1 DEF Source!SourceStep, Source!SourceNext, Source!JudgeStep

\* A write for another submission was refused, or the COUNT for this one.
LEMMA SourceOther ==
  ASSUME NEW s \in Sub,
         \A w \in Worker : Does(w, s)' = Does(w, s) /\ Knows(w, s)' = Knows(w, s),
         TasksOf(s)' = TasksOf(s), row'[s] = row[s], dbErrors' = dbErrors + 1
  PROVE  Source(s)!SourceStep
  <1>1. Source(s)!OtherError
    BY DEF Source!OtherError, Does, Knows
  <1> QED
    BY <1>1 DEF Source!SourceStep, Source!SourceNext

-----------------------------------------------------------------------------
(***************************************************************************)
(* The steps of the pipeline, seen from submission s.                      *)
(***************************************************************************)

\* A goroutine that rests does what it did, for every submission.
LEMMA RestingDoes ==
  ASSUME PipelineInv, [PipelineNext]_vars, NEW w \in Worker, Rests(w), NEW s \in Sub
  PROVE  Does(w, s)' = Does(w, s) /\ Knows(w, s)' = Knows(w, s)
  <1>1. CASE stage[w] = "idle"
    BY <1>1 DEF Rests, Does, Knows, Judges, Tells
  <1>2. CASE stage[w] # "idle"
    <2>1. phase[w] = "handling" /\ phase'[w] = "handling"
      BY <1>2, PipelineTypesStep DEF PipelineInv, PipelineTypes, Rests
    <2>2. held'[w] = held[w]
      BY <2>1, QueueStep, HeldStep DEF PipelineInv
    <2> QED
      BY <2>2 DEF Rests, Does, Knows, Judges, Tells, SubOf
  <1> QED
    BY <1>1, <1>2

\* In a step of JudgeTask in goroutine v the others rest.
LEMMA OthersRest ==
  ASSUME PipelineInv, [PipelineNext]_vars, NEW v \in Worker, JudgeTask(v),
         NEW w \in Worker \ {v}, NEW s \in Sub
  PROVE  Does(w, s)' = Does(w, s) /\ Knows(w, s)' = Knows(w, s)
  <1>1. /\ stage \in [Worker -> {"idle", "judge", "write", "tx", "announce", "rank", "ranking"}]
        /\ verdict \in [Worker -> {"none"} \cup Verdict] /\ first \in [Worker -> BOOLEAN]
    BY DEF PipelineInv, PipelineTypes
  <1>2. Rests(w)
    BY <1>1 DEF JudgeTask, Begin, NoTestCases, NoTestCasesError, Judge, WriteFailure, TxCount,
                TxCommit, TxCommitUncounted, CommitAccepted, DbError, Announce, Rank, Finish, Panic,
                GoTo, Leave, Rests
  <1> QED
    BY <1>2, RestingDoes

\* A goroutine that leaves JudgeTask does nothing for any submission.
LEMMA LeavingDoes ==
  ASSUME NEW w \in Worker, NEW s \in Sub
  PROVE  /\ stage[w] = "idle" => Does(w, s) = "idle" /\ Knows(w, s) = "none"
         /\ stage'[w] = "idle" => Does(w, s)' = "idle" /\ Knows(w, s)' = "none"
         /\ SubOf(w) # s => Does(w, s) = "idle" /\ Knows(w, s) = "none"
  BY DEF Does, Knows, Judges, Tells

\* No step of a goroutine, the broker or a crash is one of the API.
LEMMA NotApi ==
  ASSUME PipelineInv, offered' = offered
  PROVE  ~(\E p \in Process, s \in Sub : ApiStep(p, s))
  <1>1. offered \in Nat
    BY JobNumbers DEF PipelineInv
  <1>2. offered' # offered + 1
    BY <1>1
  <1> QED
    BY <1>2 DEF ApiStep, Submit, ContestSubmit, ReJudge, ReJudgeError, PublishTask, Offer

\* The API: a new row, or one that is reset, with a new task to wait for.
LEMMA ApiSource ==
  ASSUME PipelineInv, [PipelineNext]_vars, NEW p \in Process, NEW x \in Sub, ApiStep(p, x),
         NEW s \in Sub
  PROVE  Source(s)!SourceStep
  <1>1. /\ \/ row' = [row EXCEPT ![x] = "pending"] /\ dbErrors' = dbErrors
           \/ row' = row /\ row[x] # "none" /\ dbErrors' = dbErrors + 1
        /\ UNCHANGED <<stage, verdict, first>>
    BY ApiMakes DEF PipelineInv
  <1>2. \A w \in Worker : Does(w, s)' = Does(w, s) /\ Knows(w, s)' = Knows(w, s)
    BY <1>1, RestingDoes DEF Rests
  <1>3. \E c \in BOOLEAN : PublishTask(p, x, c)
    BY DEF ApiStep, Submit, ContestSubmit, ReJudge, ReJudgeError
  <1>4. row \in [Sub -> RowStatus]
    BY DEF PipelineInv, PipelineTypes
  <1>5. CASE x = s
    <2>1. PICK c \in BOOLEAN : PublishTask(p, x, c)
      BY <1>3
    <2> DEFINE new == [id |-> nextId, job |-> offered + 1, task |-> [sub |-> x, contest |-> c],
                       retry |-> 0, tries |-> 0, home |-> p]
    <2>2. new \in outbox' /\ new.task.sub = s
      BY <1>5, <2>1 DEF PublishTask, Offer
    <2>3. PICK m \in outbox' : m.task.sub = s
      BY <2>2
    <2>4. m \in Mine(s)' /\ Waits(m)'
      BY <2>3 DEF Mine, Copies, Waits
    <2>5. TasksOf(s)' = "waiting"
      BY <2>4, TasksHoldBoth DEF TaskFacts
    <2> QED
      BY <1>1, <1>2, <1>3, <1>4, <1>5, <2>5, SourceEnqueues
  <1>6. CASE x # s
    <2>1. ~(\E q \in Process : ApiStep(q, s))
      <3>1. ASSUME NEW q \in Process, ApiStep(q, s)  PROVE FALSE
        <4>1. last' = [last EXCEPT ![s] = offered + 1]
              /\ last' = [last EXCEPT ![x] = offered + 1]
          BY <3>1, ApiMakes DEF PipelineInv
        <4>2. last \in [Sub -> 0 .. MaxOffers] /\ last[s] <= offered /\ offered \in Nat
              /\ last[s] \in Nat
          BY JobNumbers DEF PipelineInv, PipelineTypes, JobInv, RowInv
        <4>3. last'[s] = offered + 1 /\ last'[s] = last[s]
          BY <1>6, <4>1, <4>2
        <4> QED
          BY <4>2, <4>3
      <3> QED
        BY <3>1
    <2>2. row'[s] = row[s]
      BY <1>1, <1>4, <1>6
    <2>3. CASE dbErrors' = dbErrors
      BY <1>2, <2>1, <2>2, <2>3, SourceRests
    <2>4. CASE dbErrors' = dbErrors + 1
      <3>1. PICK c \in BOOLEAN : PublishTask(p, x, c)
        BY <1>3
      <3> DEFINE new == [id |-> nextId, job |-> offered + 1, task |-> [sub |-> x, contest |-> c],
                         retry |-> 0, tries |-> 0, home |-> p]
      <3>2. /\ outbox' = outbox \cup {new} /\ new.task.sub # s
            /\ UNCHANGED <<backend, queue, unacked, held, phase>>
        BY <1>6, <3>1 DEF PublishTask, Offer
      <3> HIDE DEF new
      <3>3. Mine(s)' = Mine(s) /\ \A m \in Mine(s) : Waits(m)' <=> Waits(m)
        BY <3>2 DEF Mine, Copies, HeldMessages, Waits, HasHolder
      <3>4. TasksOf(s)' = TasksOf(s)
        BY <3>3, TasksHoldBoth DEF TaskFacts
      <3> QED
        BY <1>2, <2>2, <2>4, <3>4, SourceOther
    <2> QED
      BY <1>1, <2>3, <2>4
  <1> QED
    BY <1>5, <1>6

\* Steps in which no goroutine moves in JudgeTask.
LEMMA QuietSource ==
  ASSUME PipelineInv, [PipelineNext]_vars, UNCHANGED <<workVars, dbVars>>, offered' = offered,
         NEW s \in Sub
  PROVE  Source(s)!SourceStep
  <1>1. \A w \in Worker : Does(w, s)' = Does(w, s) /\ Knows(w, s)' = Knows(w, s)
    BY RestingDoes DEF Rests, workVars
  <1>2. row'[s] = row[s] /\ dbErrors' = dbErrors
    BY DEF dbVars
  <1> QED
    BY <1>1, <1>2, NotApi, SourceRests

\* The queue as it was: every submission has the tasks it had.
LEMMA SameTasks ==
  ASSUME UNCHANGED queueVars, NEW s
  PROVE  TasksOf(s)' = TasksOf(s)
  BY DEF queueVars, TasksOf, Copies, HeldMessages, Waits, HasHolder

\* Begin: the goroutine takes a task that waited.
LEMMA BeginSource ==
  ASSUME PipelineInv, [PipelineNext]_vars, NEW w \in Worker, Begin(w), NEW s \in Sub
  PROVE  Source(s)!SourceStep
  <1>1. PICK m \in queue : Take(w, m)
    BY DEF Begin
  <1>2. /\ stage' = [stage EXCEPT ![w] = "judge"] /\ verdict' = verdict
        /\ row'[s] = row[s] /\ dbErrors' = dbErrors /\ offered' = offered
    BY <1>1 DEF Begin, GoTo, dbVars, Take
  <1>3. held'[w] = Delivered(m) /\ Delivered(m).task = m.task /\ phase[w] = "idle"
    BY <1>1 DEF Take, Delivered, Message, PipelineInv, TypeOK
  <1>4. /\ stage[w] = "idle" /\ stage'[w] = "judge"
    BY <1>2, <1>3 DEF PipelineInv, PipelineTypes
  <1>5. \A v \in Worker \ {w} : Does(v, s)' = Does(v, s) /\ Knows(v, s)' = Knows(v, s)
    BY OthersRest DEF JudgeTask
  <1>6. Does(w, s) = "idle" /\ Knows(w, s) = "none" /\ Knows(w, s)' = "none"
    BY <1>4 DEF Does, Knows, Judges, Tells
  <1>7. CASE m.task.sub = s
    <2>1. Does(w, s)' = "judge"
      BY <1>3, <1>4, <1>7 DEF Does, Judges, SubOf
    <2>2. m \in Mine(s) /\ Waits(m)
      BY <1>7 DEF Mine, Copies, Waits
    <2>3. TasksOf(s) = "waiting" /\ TasksOf(s)' \in {"held", "waiting"}
      BY <2>1, <2>2, TasksHoldBoth DEF TaskFacts
    <2> QED
      BY <1>2, <1>5, <1>6, <2>1, <2>3, SourceStarts
  <1>8. CASE m.task.sub # s
    <2>1. Does(w, s)' = "idle"
      BY <1>3, <1>8 DEF Does, Judges, Tells, SubOf
    <2> QED
      BY <1>2, <1>5, <1>6, <2>1, NotApi, SourceRests
  <1> QED
    BY <1>7, <1>8

\* Judge and the count of a transaction: the goroutine still judges.
LEMMA JudgeSource ==
  ASSUME PipelineInv, [PipelineNext]_vars, NEW w \in Worker,
         (\E v \in Verdict : Judge(w, v)) \/ TxCount(w), NEW s \in Sub
  PROVE  Source(s)!SourceStep
  <1>1. /\ stage[w] \in {"judge", "write"} /\ stage'[w] \in {"write", "tx"} /\ held' = held
        /\ row' = row /\ offered' = offered /\ UNCHANGED queueVars
        /\ dbErrors' \in {dbErrors, dbErrors + 1}
    BY DEF Judge, TxCount, GoTo, queueVars, dbVars, PipelineInv, PipelineTypes
  <1>2. Does(w, s)' = Does(w, s) /\ Knows(w, s)' = Knows(w, s)
    BY <1>1 DEF Does, Knows, Judges, Tells, SubOf
  <1>3. \A v \in Worker \ {w} : Does(v, s)' = Does(v, s) /\ Knows(v, s)' = Knows(v, s)
    BY OthersRest DEF JudgeTask
  <1>4. CASE dbErrors' = dbErrors
    BY <1>1, <1>2, <1>3, <1>4, NotApi, SourceRests
  <1>5. CASE dbErrors' = dbErrors + 1
    BY <1>1, <1>2, <1>3, <1>5, SameTasks, SourceOther
  <1> QED
    BY <1>1, <1>4, <1>5

\* A verdict is written, or the database refuses it; then it is announced.
LEMMA WriteSource ==
  ASSUME PipelineInv, TxAccepted, [PipelineNext]_vars, NEW w \in Worker,
         WriteFailure(w) \/ Commits(w) \/ DbError(w), NEW s \in Sub
  PROVE  Source(s)!SourceStep
  <1>1. /\ stage[w] \in {"write", "tx"} /\ UNCHANGED queueVars /\ verdict' = verdict
        /\ stage' = [stage EXCEPT ![w] = "announce"]
    BY DEF WriteFailure, Commits, TxCommit, TxCommitUncounted, CommitAccepted, DbError, GoTo
  <1>2. /\ \/ /\ row' = [row EXCEPT ![SubOf(w)] = verdict[w]]
              /\ dbErrors' \in {dbErrors, dbErrors + 1}
           \/ row' = row /\ dbErrors' = dbErrors + 1
        /\ verdict[w] \in Verdict
    BY <1>1 DEF WriteFailure, Commits, TxCommit, TxCommitUncounted, CommitAccepted, DbError,
                TxAccepted, PipelineInv, WorkInv
  <1>3. stage'[w] = "announce" /\ held' = held /\ offered' = offered /\ row \in [Sub -> RowStatus]
    BY <1>1 DEF PipelineInv, PipelineTypes, queueVars
  <1>4. TasksOf(s)' = TasksOf(s)
    BY <1>1, SameTasks
  <1>5. \A v \in Worker \ {w} : Does(v, s)' = Does(v, s) /\ Knows(v, s)' = Knows(v, s)
    BY OthersRest DEF JudgeTask, Commits
  <1>6. CASE SubOf(w) = s
    <2>1. Does(w, s) = "judge" /\ Does(w, s)' = "publish" /\ Knows(w, s)' = verdict[w]
      BY <1>1, <1>3, <1>6 DEF Does, Knows, Judges, Tells, SubOf
    <2>2. \/ row'[s] = verdict[w] /\ dbErrors' \in {dbErrors, dbErrors + 1}
          \/ row'[s] = row[s] /\ dbErrors' = dbErrors + 1
      BY <1>2, <1>3, <1>6
    <2> QED
      BY <1>2, <1>4, <1>5, <2>1, <2>2, SourceWrites
  <1>7. CASE SubOf(w) # s
    <2>1. Does(w, s)' = Does(w, s) /\ Knows(w, s)' = Knows(w, s)
      BY <1>3, <1>7 DEF Does, Knows, Judges, Tells, SubOf
    <2>2. row'[s] = row[s] /\ dbErrors' \in {dbErrors, dbErrors + 1}
      BY <1>2, <1>3, <1>7
    <2>3. CASE dbErrors' = dbErrors
      BY <1>3, <1>5, <2>1, <2>2, <2>3, NotApi, SourceRests
    <2>4. CASE dbErrors' = dbErrors + 1
      BY <1>4, <1>5, <2>1, <2>2, <2>4, SourceOther
    <2> QED
      BY <2>2, <2>3, <2>4
  <1> QED
    BY <1>6, <1>7

\* The verdict is announced after the row was written.
LEMMA AnnounceSource ==
  ASSUME PipelineInv, [PipelineNext]_vars, NEW w \in Worker, Announce(w), NEW s \in Sub
  PROVE  Source(s)!SourceStep
  <1>1. /\ stage[w] = "announce" /\ UNCHANGED queueVars /\ row' = row /\ dbErrors' = dbErrors
        /\ stage'[w] = "rank"
    BY DEF Announce, GoTo, dbVars, PipelineInv, PipelineTypes
  <1>2. held' = held /\ offered' = offered
    BY <1>1 DEF queueVars
  <1>3. \A v \in Worker \ {w} : Does(v, s)' = Does(v, s) /\ Knows(v, s)' = Knows(v, s)
    BY OthersRest DEF JudgeTask
  <1>4. Does(w, s)' = "idle" /\ Knows(w, s)' = "none"
    BY <1>1 DEF Does, Knows, Judges, Tells
  <1>5. CASE SubOf(w) = s
    <2>1. Does(w, s) = "publish"
      BY <1>1, <1>5 DEF Does, Judges, Tells
    <2> QED
      BY <1>1, <1>3, <1>4, <2>1, SameTasks, SourcePublishes
  <1>6. CASE SubOf(w) # s
    <2>1. Does(w, s) = "idle" /\ Knows(w, s) = "none"
      BY <1>6, LeavingDoes
    <2> QED
      BY <1>1, <1>2, <1>3, <1>4, <2>1, NotApi, SourceRests
  <1> QED
    BY <1>5, <1>6

\* A handler that returns takes no task from those who wait for one, and makes none.
LEMMA ReturnKeepsWaiting ==
  ASSUME PipelineInv, [PipelineNext]_vars, NEW w \in Worker, HandlerReturns(w), NEW s \in Sub
  PROVE  TasksOf(s)' = "waiting" <=> TasksOf(s) = "waiting"
  <1>1. /\ phase[w] = "handling" /\ phase'[w] \in {"idle", "ack"}
        /\ UNCHANGED <<backend, outbox, queue, unacked>>
        /\ \A v \in Worker \ {w} : held'[v] = held[v] /\ phase'[v] = phase[v]
        /\ backend # "local" => held' = held
    BY DEF HandlerReturns, LeaveHandler, PipelineInv, TypeOK
  <1>2. ASSUME NEW m  PROVE Waits(m)' <=> Waits(m)
    <2>1. backend # "local" => (HasHolder(m)' <=> HasHolder(m))
      BY <1>1 DEF HasHolder
    <2> QED
      BY <1>1, <2>1 DEF Waits
  <1>3. ASSUME NEW m, Waits(m)  PROVE m \in Mine(s)' <=> m \in Mine(s)
    <2>1. m \in Copies
      BY <1>3 DEF Waits, Copies, HeldMessages
    <2>2. m \in Copies'
      BY <1>1, <1>3 DEF Waits, Copies, HeldMessages
    <2> QED
      BY <2>1, <2>2 DEF Mine
  <1>4. (\E m \in Mine(s)' : Waits(m)') <=> (\E m \in Mine(s) : Waits(m))
    BY <1>2, <1>3
  <1> QED
    BY <1>4, TasksHoldBoth DEF TaskFacts

\* Nor does it change anything for another submission.
LEMMA ReturnKeepsOthers ==
  ASSUME PipelineInv, [PipelineNext]_vars, NEW w \in Worker, HandlerReturns(w),
         NEW s \in Sub, SubOf(w) # s
  PROVE  TasksOf(s)' = TasksOf(s)
  <1>1. /\ phase[w] = "handling" /\ phase'[w] \in {"idle", "ack"}
        /\ UNCHANGED <<backend, outbox, queue, unacked>>
        /\ \A v \in Worker \ {w} : held'[v] = held[v] /\ phase'[v] = phase[v]
        /\ phase'[w] = "idle" \/ held'[w] = held[w]
    BY DEF HandlerReturns, LeaveHandler, PipelineInv, TypeOK
  <1>2. Mine(s)' = Mine(s)
    <2>1. ASSUME NEW m, m.task.sub = s
          PROVE  m \in HeldMessages' <=> m \in HeldMessages
      BY <1>1, <2>1 DEF HeldMessages, SubOf
    <2> QED
      BY <1>1, <2>1 DEF Mine, Copies
  <1> QED
    BY <1>2, ReturnKeepsWaiting, TasksHoldBoth DEF TaskFacts

\* Without test cases the row is written and nothing announced.
LEMMA NoTestCasesSource ==
  ASSUME PipelineInv, [PipelineNext]_vars, NEW w \in Worker,
         NoTestCases(w) \/ NoTestCasesError(w), NEW s \in Sub
  PROVE  Source(s)!SourceStep
  <1>1. /\ stage[w] = "judge" /\ HandlerReturns(w) /\ stage'[w] = "idle"
        /\ \/ row' = [row EXCEPT ![SubOf(w)] = "No Test Cases"] /\ dbErrors' = dbErrors
           \/ row' = row /\ dbErrors' = dbErrors + 1
    BY DEF NoTestCases, NoTestCasesError, Leave
  <1>2. row \in [Sub -> RowStatus] /\ offered' = offered
    BY <1>1 DEF HandlerReturns, PipelineInv, PipelineTypes
  <1>3. \A v \in Worker \ {w} : Does(v, s)' = Does(v, s) /\ Knows(v, s)' = Knows(v, s)
    BY OthersRest DEF JudgeTask
  <1>4. Does(w, s)' = "idle" /\ Knows(w, s)' = "none"
    BY <1>1, LeavingDoes
  <1>5. CASE SubOf(w) = s
    <2>1. /\ Does(w, s) = "judge"
          /\ \/ row'[s] = "No Test Cases" /\ dbErrors' = dbErrors
             \/ row'[s] = row[s] /\ dbErrors' = dbErrors + 1
      BY <1>1, <1>2, <1>5 DEF Does, Judges
    <2>2. TasksOf(s) \in {"held", "waiting"}
      BY <2>1, TasksHoldBoth DEF TaskFacts
    <2>3. /\ TasksOf(s)' = "waiting" <=> TasksOf(s) = "waiting"
          /\ TasksOf(s)' \in {"none", "held", "waiting"}
      BY <1>1, ReturnKeepsWaiting, TasksHoldBoth DEF TaskFacts
    <2>4. TasksOf(s)' = "none" => \A v \in Worker : Does(v, s)' = "idle"
      BY TasksHoldBoth DEF TaskFacts
    <2> QED
      BY <1>1, <1>3, <1>4, <2>1, <2>2, <2>3, <2>4, SourceHasNoTests
  <1>6. CASE SubOf(w) # s
    <2>1. Does(w, s) = "idle" /\ Knows(w, s) = "none" /\ row'[s] = row[s]
      BY <1>1, <1>2, <1>6, LeavingDoes
    <2>2. CASE dbErrors' = dbErrors
      BY <1>2, <1>3, <1>4, <2>1, <2>2, NotApi, SourceRests
    <2>3. CASE dbErrors' = dbErrors + 1
      BY <1>1, <1>3, <1>4, <1>6, <2>1, <2>3, ReturnKeepsOthers, SourceOther
    <2> QED
      BY <1>1, <2>2, <2>3
  <1> QED
    BY <1>5, <1>6

\* The scoreboard is no business of the pages, and after a panic there is no verdict.
LEMMA EndSource ==
  ASSUME PipelineInv, [PipelineNext]_vars, NEW w \in Worker, Rank(w) \/ Finish(w) \/ Panic(w),
         NEW s \in Sub
  PROVE  Source(s)!SourceStep
  <1>1. /\ stage'[w] \in {"ranking", "idle"} /\ row' = row /\ dbErrors' = dbErrors
        /\ offered' = offered
    BY DEF Rank, Finish, Panic, HandlerReturns, HandlerPanics, GoTo, Leave, dbVars, queueVars,
           PipelineInv, PipelineTypes
  <1>2. Does(w, s)' = "idle" /\ Knows(w, s)' = "none"
    BY <1>1 DEF Does, Knows, Judges, Tells
  <1>3. \A v \in Worker \ {w} : Does(v, s)' = Does(v, s) /\ Knows(v, s)' = Knows(v, s)
    BY OthersRest DEF JudgeTask
  <1>4. {w} \in SUBSET Worker
    OBVIOUS
  <1> QED
    BY <1>1, <1>2, <1>3, <1>4, NotApi, SourceStops

\* A process that dies takes its goroutines with it.
LEMMA CrashSource ==
  ASSUME PipelineInv, [PipelineNext]_vars, NEW p \in Process, ProcessCrash(p), NEW s \in Sub
  PROVE  Source(s)!SourceStep
  <1> DEFINE W == {w \in Worker : Host[w] = p}
  <1>1. row' = row /\ dbErrors' = dbErrors /\ offered' = offered /\ Leave(W)
    BY DEF ProcessCrash, Crash, dbVars
  <1>2. W \in SUBSET Worker
    OBVIOUS
  <1> HIDE DEF W
  <1>3. ASSUME NEW w \in Worker
        PROVE  /\ Does(w, s)' = IF w \in W THEN "idle" ELSE Does(w, s)
               /\ Knows(w, s)' = IF w \in W THEN "none" ELSE Knows(w, s)
    <2>1. CASE w \in W
      <3>1. stage'[w] = "idle"
        BY <1>1, <2>1 DEF Leave
      <3> QED
        BY <2>1, <3>1, LeavingDoes
    <2>2. CASE w \notin W
      <3>1. Rests(w)
        BY <1>1, <2>2 DEF Leave, Rests
      <3> QED
        BY <2>2, <3>1, RestingDoes
    <2> QED
      BY <2>1, <2>2
  <1> QED
    BY <1>1, <1>2, <1>3, NotApi, SourceStops

\* Every step of the pipeline is one of VerdictSource, for every submission.
LEMMA SourceHolds ==
  ASSUME PipelineInv, TxAccepted, [PipelineNext]_vars, NEW s \in Sub
  PROVE  Source(s)!SourceStep
  <1>1. ASSUME NEW p \in Process, NEW x \in Sub,
               Submit(p, x) \/ ContestSubmit(p, x) \/ ReJudge(p, x) \/ ReJudgeError(p, x)
        PROVE  Source(s)!SourceStep
    BY <1>1, ApiSource DEF ApiStep
  <1>2. ASSUME NEW w \in Worker, JudgeTask(w)  PROVE Source(s)!SourceStep
    BY <1>2, BeginSource, NoTestCasesSource, JudgeSource, WriteSource, AnnounceSource, EndSource
       DEF JudgeTask, Commits
  <1>3. ASSUME NEW w \in Worker, ConsumerLoop(w)  PROVE Source(s)!SourceStep
    <2>1. offered' = offered
      BY <1>3 DEF ConsumerLoop, GiveUp, Republish, RepublishTwice, RepublishError, Ack, AckError
    <2> QED
      BY <1>3, <2>1, QuietSource DEF ConsumerLoop
  <1>4. ASSUME NEW m \in outbox, PublishStep(m)  PROVE Source(s)!SourceStep
    <2>1. offered' = offered
      BY <1>4 DEF PublishStep, Publish, PublishTwice, PublishError
    <2> QED
      BY <1>4, <2>1, QuietSource DEF PublishStep
  <1>5. CASE BrokerStep
    <2>1. offered' = offered
      BY <1>5 DEF BrokerStep, Broker, ReplyLost, Redeliver
    <2> QED
      BY <1>5, <2>1, QuietSource DEF BrokerStep
  <1>6. ASSUME NEW k \in Key, DedupExpires(k)  PROVE Source(s)!SourceStep
    BY <1>6, QuietSource DEF DedupExpires, queueVars
  <1>7. ASSUME NEW p \in Process, ProcessCrash(p)  PROVE Source(s)!SourceStep
    BY <1>7, CrashSource
  <1>8. CASE UNCHANGED vars
    BY <1>8, QuietSource DEF vars, queueVars
  <1> QED
    BY <1>1, <1>2, <1>3, <1>4, <1>5, <1>6, <1>7, <1>8 DEF PipelineNext

\* Before the first submission there is nothing to judge.
LEMMA SourceStarted ==
  ASSUME PipelineInit, NEW s \in Sub
  PROVE  Source(s)!SourceInit
  <1>1. Copies = {}
    BY DEF PipelineInit, Init, Copies, HeldMessages
  <1>2. TasksOf(s) = "none"
    BY <1>1 DEF TasksOf
  <1>3. \A w \in Worker : Does(w, s) = "idle" /\ Knows(w, s) = "none"
    BY LeavingDoes DEF PipelineInit
  <1>4. row[s] = "none" /\ dbErrors = 0
    BY DEF PipelineInit
  <1> QED
    BY <1>2, <1>3, <1>4 DEF Source!SourceInit, Does, Knows

\* What the steps need holds throughout.
LEMMA SourceInvariant == PipelineSpec => [](PipelineInv /\ TxAccepted)
  <1>1. PipelineInit => TxAccepted
    BY DEF PipelineInit, TxAccepted
  <1> QED
    BY <1>1, PipelineStart, PipelineStep, TxStep, PTL DEF PipelineSpec

\* VerdictsComeInOrder: whatever is retried, redelivered, rejudged, judged twice at a
\* time or cut off, each submission is judged as VerdictSource allows.
THEOREM VerdictsInOrder == PipelineSpec => VerdictsComeInOrder
  <1>1. PipelineInit => \A s \in Sub : Source(s)!SourceInit
    BY SourceStarted
  <1>2. PipelineInv /\ TxAccepted /\ [PipelineNext]_vars => \A s \in Sub : Source(s)!SourceStep
    BY SourceHolds
  <1> QED
    BY <1>1, <1>2, SourceInvariant, PTL DEF PipelineSpec, VerdictsComeInOrder

\* The pipeline implements the judging side of SubmissionStream: for every submission
\* it is an instance of VerdictSource, on which the proofs about the pages rest.
THEOREM PipelineIsVerdictSource ==
  ASSUME NEW s \in Sub
  PROVE  PipelineSpec => Source(s)!SourceSpec
  <1>1. PipelineInit => Source(s)!SourceInit
    BY SourceStarted
  <1>2. PipelineInv /\ TxAccepted /\ [PipelineNext]_vars
          => [Source(s)!SourceNext]_(Source(s)!sourceVars)
    BY SourceHolds DEF Source!SourceStep
  <1> QED
    BY <1>1, <1>2, SourceInvariant, PTL DEF PipelineSpec, Source!SourceSpec

=============================================================================
