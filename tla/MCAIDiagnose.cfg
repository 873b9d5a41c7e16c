SPECIFICATION FairSpec
CONSTANTS
  c1 = c1  r1 = r1  r2 = r2  r3 = r3
  Request = {r1, r2, r3}
  Client = {c1}
  ClientOf <- OneClient
  Route = {"diagnose", "page"}
  Limit <- Limits
  Window = 2
  InRedis = TRUE
  MaxFaults = 3
  MaxRestarts = 1
  Verdict = {"CE", "TLE", "WA"}
  Problems <- FewProblems
  maxConcurrentDiagnose = 2
  maxRepairAttempts = 2
  MaxMishaps = 1
CONSTRAINT Bounds
INVARIANT SlotsAreHeld
INVARIANT DuplicatesBounded
INVARIANT PageLearnsEnd
 
INVARIANT AdmittedPerWindow
PROPERTY WindowEnds
PROPERTY EveryDiagnosisEnds
CHECK_DEADLOCK FALSE
