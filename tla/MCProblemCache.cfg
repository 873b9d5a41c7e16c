SPECIFICATION FairSpec
CONSTANTS
  a = a  b = b  r1 = r1  r2 = r2  w1 = w1  w2 = w2  p1 = p1
  Process = {a, b}
  Server = {a}
  Lucky = {p1}
  Reader = {r1, r2}
  Writer = {w1, w2}
  Problem = {p1}
  Host <- OneServer
  MaxFaults = 1
  Missing = Missing
INVARIANT TypeOK
INVARIANT OneLoader
 
PROPERTY GoneStaysGone
PROPERTY CacheConverges
PROPERTY ExistingIsFound
PROPERTY EveryGetAnswers
