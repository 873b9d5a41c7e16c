SPECIFICATION FairSpec
CONSTANTS
  r1 = r1  r2 = r2  r3 = r3
  Request = {r1, r2, r3}
  maxFails = 2
  resetTimeout = 2
  MaxOutcomes = 6
INVARIANT TripsOnFailuresInARow
PROPERTY ProbeWaits
PROPERTY OpenIsTemporary
CHECK_DEADLOCK FALSE
