SPECIFICATION Spec
CONSTANTS
  q1 = q1  q2 = q2  l1 = l1
  Request = {q1, q2}
  Load = {l1}
  Backends = {"disk", "bucket"}
  Stored = {1}
  Uploads <- Archives
  MaxCase = 2
  MaxFaults = 1
  NoFile = NoFile  Empty = Empty  Old = Old
SYMMETRY Symmetry
INVARIANT StoreIsLastWrite
INVARIANT LoadIsLastWrite
