SPECIFICATION FairPipeline
CONSTANTS
  w1 = w1  w2 = w2  p1 = p1  p2 = p2  s1 = s1  s2 = s2
  u1 = u1  u2 = u2  prob = prob  k1 = k1  k2 = k2
  Sub = {s1}
  UserOf <- OneUser
  ProblemOf <- OneProblem
  LanguageOf <- Cpp
  CodeOf <- OwnCode
  InContest = {s1}
  Verdict = {"Accepted", "Wrong Answer"}
  MaxRejudges = 0
  MaxDbErrors = 1
  Task <- JudgeTasks
  Topic <- TaskTopic
  Worker = {w1, w2}
  Process = {p1, p2}
  Host <- TwoHosts
  Subscribes <- AllFast
  QueueBackend = "redis"
  StartUps = {{"nsqd", "consumers"}, {"nsqd"}}
  ChanCap = 3
  MaxRetries = 0
  MaxAttempts = 2
  MaxOffers = 1
  MaxCrashes = 1
  MaxFaults = 1
  NoMessage = NoMessage
PROPERTY EverySubmissionDecided
PROPERTY VerdictsComeInOrder
CHECK_DEADLOCK FALSE
