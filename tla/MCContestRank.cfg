SPECIFICATION Spec
CONSTANTS
  w1 = w1  w2 = w2  u1 = u1  p1 = p1  p2 = p2
  Worker = {w1, w2}
  User = {u1}
  Problem = {p1, p2}
  Subs = 3
  Author <- ByOne
  ProblemOf <- TwoProblems
  Result <- Results
  Rules = {"ACM", "IOI"}
  MaxCalls = 4
  MaxCrashes = 1
  MaxFaults = 1
  MaxRejudges = 1
  Absent = Absent
CONSTRAINT FourEvents
SYMMETRY WorkerSymmetry
INVARIANT BoardMatchesVerdicts
INVARIANT SolvesAreBacked
CHECK_DEADLOCK FALSE
