SPECIFICATION FairSpec
CONSTANTS
  CaseCount = 1
  TimeLimit = 1
  Grace = 1
  SandboxModes = {"native", "gvisor"}
  Rules = {"ACM"}
  Behaviour = {"right", "wrong", "endless"}
PROPERTY DeadlineEndsRun
CHECK_DEADLOCK FALSE
