SPECIFICATION FairSpec
CONSTANTS
  w1 = w1  w2 = w2  p1 = p1  p2 = p2  t1 = t1  t2 = t2
  Task = {t1}
  Worker = {w1, w2}
  Process = {p1, p2}
  Host <- TwoHosts
  Topic <- TaskTopic
  Subscribes <- AllFast
  QueueBackend = "redis"
  StartUps = {{"redis", "nsqd"}, {}, {"nsqd", "consumers"}, {"nsqd"}}
  ChanCap = 1
  MaxRetries = 1
  MaxAttempts = 2
  MaxOffers = 2
  MaxCrashes = 1
  MaxFaults = 2
  NoMessage = NoMessage
CONSTRAINT Small
INVARIANT NoSilentLoss
INVARIANT OneHandlerPerJob
INVARIANT PoisonTaskBounded
PROPERTY EveryTaskSettles
PROPERTY DeliveryPromise
CHECK_DEADLOCK FALSE
