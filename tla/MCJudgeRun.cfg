SPECIFICATION FairSpec
CONSTANTS
  CaseCount = 2
  TimeLimit = 1
  Grace = 1
  SandboxModes = {"native", "gvisor"}
  Rules = {"ACM", "IOI"}
  Behaviour <- AnyProgram
INVARIANT AcceptedIsEarned
INVARIANT FirstFailureDecides
INVARIANT ScoreIsCount
PROPERTY EverySubmissionJudged
CHECK_DEADLOCK FALSE
