SPECIFICATION FairSpec
CONSTANTS
  g1 = g1  g2 = g2  w1 = w1  w2 = w2
  Page = {g1, g2}
  Worker = {w1, w2}
  Verdict = {"Accepted", "Wrong Answer"}
  MaxDbErrors = 1
  MaxRepeats = 2
  MaxLosses = 1
  MaxLeaves = 1
  RedisUp = TRUE
CONSTRAINT ThreeDisturbances
INVARIANT WaitingIsOwed
INVARIANT DoneShowsVerdict
PROPERTY PageLearnsVerdict
CHECK_DEADLOCK FALSE
