----------------------------- MODULE JudgeQueue -----------------------------
(***************************************************************************)
(* The judge queue of internal/queue/queue.go: API handlers publish judge  *)
(* tasks, consumer goroutines take them, run the task handler, retry it    *)
(* when it panics and acknowledge.  One of three backends is selected when *)
(* a process starts: an in-process Go channel ("local"), a Redis Stream    *)
(* with a consumer group ("redis"), or nsqd ("nsq").  What the brokers and *)
(* their client libraries do is modelled from how queue.go uses them.      *)
(*                                                                         *)
(* The handler is opaque here: it returns or it panics.  JudgePipeline     *)
(* refines it to worker.JudgeTask.                                         *)
(***************************************************************************)
EXTENDS Naturals, FiniteSets

CONSTANTS
  Task,          \* payloads a handler may publish
  Worker,        \* consumer goroutines
  Process,       \* API server / judge-worker processes
  Host,          \* Host[w]: the process goroutine w runs in
  Topic,         \* Topic[t]: topicForLanguage of the task's language
  Subscribes,    \* Subscribes[w]: the NSQ topics goroutine w consumes
  QueueBackend,  \* the environment variable QUEUE_BACKEND
  StartUps,      \* which of redis, nsqd and the NSQ consumers may answer at start-up
  ChanCap,       \* capacity of localChannel (1024 in the code)
  MaxRetries,    \* queue.MaxRetries (3 in the code)
  MaxAttempts,   \* go-nsq Config.MaxAttempts (5 by default)
  MaxOffers,     \* bound: tasks the API publishes
  MaxCrashes,    \* bound: process crashes
  MaxFaults,     \* bound: failed calls to the broker, and jobs added twice
  NoMessage      \* a consumer that holds nothing

ASSUME JudgeQueueAssumption ==
  /\ Host \in [Worker -> Process]
  /\ Topic \in [Task -> {"fast", "slow"}]
  /\ Subscribes \in [Worker -> SUBSET {"fast", "slow"}]
  /\ QueueBackend \in {"redis", "nsq", "local"}
  /\ StartUps \subseteq SUBSET {"redis", "nsqd", "consumers"}
  /\ ChanCap \in Nat \ {0}
  /\ MaxRetries \in Nat
  /\ MaxAttempts \in Nat \ {0}
  /\ MaxOffers \in Nat /\ MaxCrashes \in Nat /\ MaxFaults \in Nat

VARIABLES
  backend,   \* queueBackend, fixed once the process has started
  outbox,    \* messages whose Publish call has started and not returned
  queue,     \* messages the backend holds for delivery
  unacked,   \* delivered and not acknowledged: Redis PEL, NSQ in flight
  held,      \* held[w]: the message goroutine w is working on
  phase,     \* phase[w]: where goroutine w is in its loop
  nextId,    \* id of the next message, in publication order
  offered,   \* number of tasks the API has published so far
  crashes, faults,            \* how much of the two bounds is used
  handled, dropped, lost,     \* history: jobs by how they ended
  panics,                     \* history: handler panics per job
  twice                       \* history: jobs with a message that was added twice

queueVars == <<backend, outbox, queue, unacked, held, phase, nextId, offered,
               crashes, faults, handled, dropped, lost, panics, twice>>

Job == 1 .. MaxOffers

(***************************************************************************)
(* A message: JudgeTask with its RetryCount, wrapped with what the model   *)
(* needs to know of it.  id orders messages by publication, job is shared  *)
(* by a task and its retries, tries counts deliveries (msg.Attempts of     *)
(* NSQ), home is the process whose localChannel it would go to.            *)
(***************************************************************************)
Message == [id : Nat, job : Job, task : Task, retry : Nat, tries : Nat, home : Process]

ASSUME NoMessageAssumption == NoMessage \notin Message

(***************************************************************************)
(* Init of queue.go: QUEUE_BACKEND=redis falls through to NSQ when Redis   *)
(* does not answer, NSQ falls back to the local channel when nsqd does not *)
(* answer or a consumer cannot connect.                                    *)
(***************************************************************************)
SelectedBackend(up) ==
  CASE QueueBackend = "redis" /\ "redis" \in up -> "redis"
    [] QueueBackend # "local" /\ ~(QueueBackend = "redis" /\ "redis" \in up)
         /\ {"nsqd", "consumers"} \subseteq up -> "nsq"
    [] OTHER -> "local"

Init ==
  /\ \E up \in StartUps : backend = SelectedBackend(up)
  /\ outbox = {} /\ queue = {} /\ unacked = {}
  /\ held = [w \in Worker |-> NoMessage]
  /\ phase = [w \in Worker |-> "idle"]
  /\ nextId = 1 /\ offered = 0
  /\ crashes = 0 /\ faults = 0
  /\ handled = {} /\ dropped = {} /\ lost = {}
  /\ panics = [j \in Job |-> 0] /\ twice = {}

\* The bound MaxFaults is not used up.
MayFail == faults + Cardinality(twice) < MaxFaults

-----------------------------------------------------------------------------
(***************************************************************************)
(* Publishing.  A handler first writes the submission row, then calls      *)
(* Publish and ignores its error.                                          *)
(***************************************************************************)

\* A handler in process p starts to publish task t.
Offer(p, t) ==
  /\ offered < MaxOffers
  /\ offered' = offered + 1
  /\ outbox' = outbox \cup
       {[id |-> nextId, job |-> offered + 1, task |-> t, retry |-> 0, tries |-> 0, home |-> p]}
  /\ nextId' = nextId + 1
  /\ UNCHANGED <<backend, queue, unacked, held, phase, crashes, faults, handled,
                 dropped, lost, panics, twice>>

\* localChannel is made by each process: only its own tasks fill it.
LocalChannel(p) == {m \in queue : m.home = p}

\* A send on localChannel blocks while the channel is full.
HasRoom(p) == backend = "local" => Cardinality(LocalChannel(p)) < ChanCap

\* Mutant of Publish: a full channel drops the task instead of blocking.
PublishOrDrop(m) ==
  /\ m \in outbox
  /\ outbox' = outbox \ {m}
  /\ queue' = IF HasRoom(m.home) THEN queue \cup {m} ELSE queue
  /\ UNCHANGED <<backend, unacked, held, phase, nextId, offered, crashes, faults,
                 handled, dropped, lost, panics, twice>>

\* Mutant of Publish: the handler publishes again after a success.
PublishAgain(m) ==
  /\ m \in outbox
  /\ HasRoom(m.home)
  /\ queue' = queue \cup {m}
  /\ UNCHANGED <<backend, outbox, unacked, held, phase, nextId, offered, crashes,
                 faults, handled, dropped, lost, panics, twice>>

Publish(m) ==
  /\ m \in outbox
  /\ HasRoom(m.home)
  /\ outbox' = outbox \ {m}
  /\ queue' = queue \cup {m}
  /\ UNCHANGED <<backend, unacked, held, phase, nextId, offered, crashes, faults,
                 handled, dropped, lost, panics, twice>>

\* The connection breaks after an XADD was applied and before its reply: go-redis sends
\* the command again, and the stream has two entries of the task.
PublishTwice(m) ==
  /\ m \in outbox
  /\ backend = "redis"
  /\ m.job \notin twice /\ MayFail
  /\ twice' = twice \cup {m.job}
  /\ outbox' = outbox \ {m}
  /\ queue' = queue \cup {m, [m EXCEPT !.id = nextId]}
  /\ nextId' = nextId + 1
  /\ UNCHANGED <<backend, unacked, held, phase, offered, crashes, faults, handled,
                 dropped, lost, panics>>

\* XADD or the NSQ publish fails without effect (one that fails after it took effect
\* is a Publish, as nobody looks at its error): the caller drops the error and the task with it.
PublishError(m) ==
  /\ m \in outbox
  /\ backend # "local"
  /\ MayFail
  /\ faults' = faults + 1
  /\ outbox' = outbox \ {m}
  /\ lost' = lost \cup {m.job}
  /\ UNCHANGED <<backend, queue, unacked, held, phase, nextId, offered, crashes,
                 handled, dropped, panics, twice>>

-----------------------------------------------------------------------------
(***************************************************************************)
(* Consuming.                                                              *)
(***************************************************************************)

\* A goroutine reads the channel of its own process, the one Redis group, or
\* its NSQ topic.
Listens(w, m) ==
  CASE backend = "local" -> m.home = Host[w]
    [] backend = "nsq"   -> Topic[m.task] \in Subscribes[w]
    [] OTHER             -> TRUE

\* The channel and the stream are FIFO; nsqd promises no order.
Receivable(w, m) ==
  /\ m \in queue
  /\ Listens(w, m)
  /\ backend # "nsq" => \A x \in queue : Listens(w, x) => m.id <= x.id

Delivered(m) == [m EXCEPT !.tries = @ + 1]

\* Mutant of Pending: the broker forgets a message as soon as it is delivered.
AutoAck(m) == unacked

Pending(m) == IF backend = "local" THEN unacked ELSE unacked \cup {m}

Take(w, m) ==
  /\ phase[w] = "idle"
  /\ Receivable(w, m)
  /\ backend = "nsq" => m.tries < MaxAttempts
  /\ queue' = queue \ {m}
  /\ unacked' = Pending(Delivered(m))
  /\ held' = [held EXCEPT ![w] = Delivered(m)]
  /\ phase' = [phase EXCEPT ![w] = "handling"]
  /\ UNCHANGED <<backend, outbox, nextId, offered, crashes, faults, handled,
                 dropped, lost, panics, twice>>

\* go-nsq finishes a message delivered too often without calling the handler.
GiveUp(w, m) ==
  /\ phase[w] = "idle"
  /\ Receivable(w, m)
  /\ backend = "nsq" /\ m.tries >= MaxAttempts
  /\ queue' = queue \ {m}
  /\ dropped' = dropped \cup {m.job}
  /\ UNCHANGED <<backend, outbox, unacked, held, phase, nextId, offered, crashes,
                 faults, handled, lost, panics, twice>>

\* The broker delivers m but the reply never reaches the consumer, which only
\* sleeps and asks for new messages again.
ReplyLost(m) ==
  /\ backend # "local"
  /\ \E w \in Worker : phase[w] = "idle" /\ Receivable(w, m)
  /\ MayFail
  /\ faults' = faults + 1
  /\ queue' = queue \ {m}
  /\ unacked' = unacked \cup {Delivered(m)}
  /\ UNCHANGED <<backend, outbox, held, phase, nextId, offered, crashes, handled,
                 dropped, lost, panics, twice>>

\* What follows processWithRecovery: the next message of the channel, or XACK / FIN.
LeaveHandler(w) ==
  IF backend = "local"
  THEN /\ held' = [held EXCEPT ![w] = NoMessage]
       /\ phase' = [phase EXCEPT ![w] = "idle"]
  ELSE /\ phase' = [phase EXCEPT ![w] = "ack"]
       /\ UNCHANGED held

HandlerReturns(w) ==
  /\ phase[w] = "handling"
  /\ handled' = handled \cup {held[w].job}
  /\ LeaveHandler(w)
  /\ UNCHANGED <<backend, outbox, queue, unacked, nextId, offered, crashes, faults,
                 dropped, lost, panics, twice>>

\* Mutant of HandlerPanics: RetryCount is tested before it is increased.
PanicTestsOldCount(w) ==
  /\ phase[w] = "handling"
  /\ panics' = [panics EXCEPT ![held[w].job] = @ + 1]
  /\ IF held[w].retry > MaxRetries
     THEN /\ dropped' = dropped \cup {held[w].job}
          /\ LeaveHandler(w)
     ELSE /\ phase' = [phase EXCEPT ![w] = "requeue"]
          /\ UNCHANGED <<held, dropped>>
  /\ UNCHANGED <<backend, outbox, queue, unacked, nextId, offered, crashes, faults,
                 handled, lost, twice>>

\* recover() and Requeue up to its test of RetryCount.
HandlerPanics(w) ==
  /\ phase[w] = "handling"
  /\ panics' = [panics EXCEPT ![held[w].job] = @ + 1]
  /\ IF held[w].retry + 1 > MaxRetries
     THEN /\ dropped' = dropped \cup {held[w].job}
          /\ LeaveHandler(w)
     ELSE /\ phase' = [phase EXCEPT ![w] = "requeue"]
          /\ UNCHANGED <<held, dropped>>
  /\ UNCHANGED <<backend, outbox, queue, unacked, nextId, offered, crashes, faults,
                 handled, lost, twice>>

\* The message goroutine w publishes the task it holds in again.
Retried(w) ==
  [id |-> nextId, job |-> held[w].job, task |-> held[w].task, retry |-> held[w].retry + 1,
   tries |-> 0, home |-> Host[w]]

\* Mutant of Republish: the goroutine also runs the handler again itself.
RepublishAndRetry(w) ==
  /\ phase[w] = "requeue"
  /\ HasRoom(Host[w])
  /\ queue' = queue \cup {Retried(w)}
  /\ nextId' = nextId + 1
  /\ phase' = [phase EXCEPT ![w] = "handling"]
  /\ UNCHANGED <<backend, outbox, unacked, held, offered, crashes, faults, handled,
                 dropped, lost, panics, twice>>

\* The Publish call inside Requeue, made by the consumer goroutine itself.
Republish(w) ==
  /\ phase[w] = "requeue"
  /\ HasRoom(Host[w])
  /\ queue' = queue \cup {Retried(w)}
  /\ nextId' = nextId + 1
  /\ LeaveHandler(w)
  /\ UNCHANGED <<backend, outbox, unacked, offered, crashes, faults, handled,
                 dropped, lost, panics, twice>>

\* go-redis sends the XADD of Requeue again after a lost reply.
RepublishTwice(w) ==
  /\ phase[w] = "requeue"
  /\ backend = "redis"
  /\ held[w].job \notin twice /\ MayFail
  /\ twice' = twice \cup {held[w].job}
  /\ queue' = queue \cup {Retried(w), [Retried(w) EXCEPT !.id = nextId + 1]}
  /\ nextId' = nextId + 2
  /\ LeaveHandler(w)
  /\ UNCHANGED <<backend, outbox, unacked, offered, crashes, faults, handled,
                 dropped, lost, panics>>

\* Requeue ignores Publish's error too, and the consumer goes on to acknowledge.
RepublishError(w) ==
  /\ phase[w] = "requeue"
  /\ backend # "local"
  /\ MayFail
  /\ faults' = faults + 1
  /\ lost' = lost \cup {held[w].job}
  /\ LeaveHandler(w)
  /\ UNCHANGED <<backend, outbox, queue, unacked, nextId, offered, crashes, handled,
                 dropped, panics, twice>>

\* Mutant of Ack: the consumer's loop ends after its first message.
AckAndStop(w) ==
  /\ phase[w] = "ack"
  /\ unacked' = unacked \ {held[w]}
  /\ UNCHANGED <<backend, outbox, queue, held, phase, nextId, offered, crashes,
                 faults, handled, dropped, lost, panics, twice>>

\* XACK / FIN.  A FIN for a message nsqd has timed out meanwhile finds nothing.
Ack(w) ==
  /\ phase[w] = "ack"
  /\ unacked' = unacked \ {held[w]}
  /\ held' = [held EXCEPT ![w] = NoMessage]
  /\ phase' = [phase EXCEPT ![w] = "idle"]
  /\ UNCHANGED <<backend, outbox, queue, nextId, offered, crashes, faults, handled,
                 dropped, lost, panics, twice>>

\* The acknowledgement fails; its error is ignored.
AckError(w) ==
  /\ phase[w] = "ack"
  /\ MayFail
  /\ faults' = faults + 1
  /\ held' = [held EXCEPT ![w] = NoMessage]
  /\ phase' = [phase EXCEPT ![w] = "idle"]
  /\ UNCHANGED <<backend, outbox, queue, unacked, nextId, offered, crashes, handled,
                 dropped, lost, panics, twice>>

-----------------------------------------------------------------------------
(***************************************************************************)
(* Failures.                                                               *)
(***************************************************************************)

\* Someone still works on delivered message m.
HasHolder(m) == \E w \in Worker : held[w] = m

\* nsqd requeues a message that was in flight for longer than its timeout, or
\* whose connection closed.  Redis does neither: consumers only ever read ">".
Redeliver(m) ==
  /\ backend = "nsq"
  /\ m \in unacked
  /\ unacked' = unacked \ {m}
  /\ queue' = queue \cup {m}
  /\ UNCHANGED <<backend, outbox, held, phase, nextId, offered, crashes, faults,
                 handled, dropped, lost, panics, twice>>

\* Process p dies and restarts: its goroutines and requests are gone, and with
\* the local backend its channel.
Crash(p) ==
  LET volatile == IF backend = "local" THEN LocalChannel(p) ELSE {}
      mine     == {w \in Worker : Host[w] = p}
      gone     == {m \in outbox : m.home = p} \cup volatile
                    \cup (IF backend = "local"
                          THEN {held[w] : w \in {v \in mine : phase[v] # "idle"}} ELSE {})
  IN /\ crashes < MaxCrashes
     /\ crashes' = crashes + 1
     /\ lost' = lost \cup {m.job : m \in gone}
     /\ outbox' = {m \in outbox : m.home # p}
     /\ queue' = queue \ volatile
     /\ held' = [w \in Worker |-> IF Host[w] = p THEN NoMessage ELSE held[w]]
     /\ phase' = [w \in Worker |-> IF Host[w] = p THEN "idle" ELSE phase[w]]
     /\ UNCHANGED <<backend, unacked, nextId, offered, faults, handled, dropped,
                    panics, twice>>

-----------------------------------------------------------------------------
Consume(w) ==
  \/ \E m \in queue : Take(w, m) \/ GiveUp(w, m)
  \/ HandlerReturns(w) \/ HandlerPanics(w)
  \/ Republish(w) \/ RepublishTwice(w) \/ RepublishError(w)
  \/ Ack(w) \/ AckError(w)

Broker == (\E m \in queue : ReplyLost(m)) \/ (\E m \in unacked : Redeliver(m))

Next ==
  \/ \E p \in Process, t \in Task : Offer(p, t)
  \/ \E m \in outbox : Publish(m) \/ PublishTwice(m) \/ PublishError(m)
  \/ \E w \in Worker : Consume(w)
  \/ Broker
  \/ \E p \in Process : Crash(p)

Spec == Init /\ [][Next]_queueVars

(***************************************************************************)
(* Fairness: goroutines run, a handler ends (JudgeRun says when a program  *)
(* without end keeps it from doing so), a blocked send goes through once   *)
(* there is room, and nsqd times out a message nobody works on.            *)
(***************************************************************************)
Fairness ==
  /\ \A w \in Worker : WF_queueVars(Consume(w))
  /\ WF_queueVars(\E m \in outbox : Publish(m))
  /\ WF_queueVars(\E m \in unacked : ~HasHolder(m) /\ Redeliver(m))

FairSpec == Spec /\ Fairness

-----------------------------------------------------------------------------
(***************************************************************************)
(* Properties.                                                             *)
(***************************************************************************)

HeldMessages == {held[w] : w \in {v \in Worker : phase[v] # "idle"}}

\* Every place a message can be in.
Copies == outbox \cup queue \cup unacked \cup HeldMessages

Settled(j) == j \in handled \cup dropped \cup lost

\* Every variable has its type; a goroutine holds a message unless it is idle.
TypeOK ==
  /\ backend \in {"redis", "nsq", "local"}
  /\ outbox \subseteq Message /\ queue \subseteq Message /\ unacked \subseteq Message
  /\ held \in [Worker -> Message \cup {NoMessage}]
  /\ phase \in [Worker -> {"idle", "handling", "requeue", "ack"}]
  /\ \A w \in Worker : held[w] = NoMessage <=> phase[w] = "idle"
  /\ nextId \in Nat /\ offered \in 0 .. MaxOffers
  /\ crashes \in Nat /\ faults \in Nat
  /\ handled \subseteq Job /\ dropped \subseteq Job /\ lost \subseteq Job
  /\ twice \subseteq Job
  /\ panics \in [Job -> Nat]

\* A published task never vanishes: it was handled, it was dropped by the retry
\* limit, a failed publish or the crash of a volatile queue took it, or some
\* copy of it still exists.  It fails when a message is acknowledged, or removed
\* from the broker, before its handler has ended or its retry is published.
NoSilentLoss ==
  \A j \in 1 .. offered : Settled(j) \/ \E m \in Copies : m.job = j

\* With the local channel or a Redis group no task is judged by two goroutines
\* at the same time, although a panicking handler publishes a second message for
\* the same task while the first is still unacknowledged; a task that go-redis has
\* added twice is the exception.
OneHandlerPerJob ==
  backend # "nsq" =>
    \A v, w \in Worker :
      /\ v # w
      /\ phase[v] = "handling" /\ phase[w] = "handling"
      => held[v].job # held[w].job \/ held[v].job \in twice

\* A task whose handler always panics is run MaxRetries + 1 times, no more, and
\* is given up only after all of them (queue.go, Requeue); go-nsq's own limit on
\* deliveries is the one other reason to give up, and a task that go-redis has added
\* twice has its retries twice.
PoisonTaskBounded ==
  \A j \in Job \ twice :
    /\ backend # "nsq" => panics[j] <= MaxRetries + 1
    /\ (backend # "nsq" /\ j \in dropped) => panics[j] = MaxRetries + 1

\* A copy of job j lies in the pending list of the Redis group and nobody holds it:
\* no code reads it again.
Abandoned(j) ==
  /\ backend = "redis"
  /\ \E m \in unacked : m.job = j /\ ~HasHolder(m)

\* Job j survives only in such copies.
Stranded(j) ==
  /\ Abandoned(j)
  /\ \A m \in Copies : m.job = j => m \in unacked /\ ~HasHolder(m)

\* Job j waits in a process whose localChannel is full while every goroutine that
\* could empty it is blocked in its own Requeue: the retry needs room in the channel
\* that only its own goroutine and others like it could make.
Jammed(j) ==
  /\ backend = "local"
  /\ \E p \in Process :
       /\ ~HasRoom(p)
       /\ \A w \in Worker : Host[w] = p => phase[w] = "requeue"
       /\ \E m \in Copies : m.job = j /\ m.home = p

\* Every published task is eventually handled, dropped or lost, however the
\* broker redelivers it and whatever crashes.  The code has two ways out: with
\* Redis a task may end up delivered to a goroutine that no longer exists, and a
\* process whose consumers all retry into its full channel never goes on.
EveryTaskSettles ==
  \A j \in Job : (j <= offered) ~> (Settled(j) \/ Stranded(j) \/ Jammed(j))

(***************************************************************************)
(* The promise of TaskDelivery.  A task counts as owed until its last copy *)
(* is gone, unless its handler has returned.                               *)
(***************************************************************************)
Status(j) ==
  CASE j \in handled                            -> "done"
    [] j \notin handled /\ (\E m \in queue \cup unacked \cup HeldMessages : m.job = j) -> "owed"
    [] \E m \in outbox : m.job = j              -> "offered"
    [] OTHER -> IF j > offered THEN "none" ELSE IF j \in dropped THEN "dropped" ELSE "lost"

Promise == INSTANCE TaskDelivery
  WITH status <- [j \in Job |-> Status(j)],
       durable <- backend # "local" /\ faults = 0

\* Whatever the backend does, each task goes through the abstract life cycle: a
\* task that was accepted by NSQ or Redis is never lost to a crash, and a task
\* that has ended never comes back.
DeliveryPromise == Promise!Spec

=============================================================================
