SPECIFICATION PipelineSpec
CONSTANTS
  w1 = w1  w2 = w2  p1 = p1  p2 = p2  s1 = s1  s2 = s2
  u1 = u1  u2 = u2  prob = prob  k1 = k1  k2 = k2
  Sub = {s1, s2}
  UserOf <- OneUser
  ProblemOf <- OneProblem
  LanguageOf <- Cpp
  CodeOf <- OwnCode
  InContest = {}
  Verdict = {"Accepted", "Wrong Answer"}
  MaxRejudges = 0
  MaxDbErrors = 0
  Task <- JudgeTasks
  Topic <- TaskTopic
  Worker = {w1, w2}
  Process = {p1}
  Host <- OneHost
  Subscribes <- AllFast
  QueueBackend = "redis"
  StartUps = {{"redis"}}
  ChanCap = 3
  MaxRetries = 0
  MaxAttempts = 2
  MaxOffers = 2
  MaxCrashes = 0
  MaxFaults = 0
  NoMessage = NoMessage
INVARIANT AcceptedCountsUsers
CHECK_DEADLOCK FALSE
