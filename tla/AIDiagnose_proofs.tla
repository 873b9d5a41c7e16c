-------------------------- MODULE AIDiagnose_proofs --------------------------
(***************************************************************************)
(* What holds of the AI diagnosis for every number of requests, slots and  *)
(* attempts, every limit and every problem: type correctness, and the five *)
(* invariants that the run of MCAIDiagnose checks.                         *)
(***************************************************************************)
EXTENDS AIDiagnose, FiniteSetTheorems, TLAPS

-----------------------------------------------------------------------------
(***************************************************************************)
(* Type correctness of the limiter.                                        *)
(***************************************************************************)

\* Letting a request through or refusing it keeps the types.
LEMMA DecideType ==
  ASSUME LimitTypeOK, NEW r \in Request, NEW x, NEW n \in Nat, Decide(r, x, n)
  PROVE  /\ gate' \in [Request -> {"new", "expire", "passed", "refused", "dead"}]
         /\ age' \in [Request -> 0 .. Window]
  <1>1. 0 \in 0 .. Window /\ Window \in 0 .. Window
    BY RateLimitAssumption DEF RateLimitAssumption
  <1> QED
    BY <1>1 DEF LimitTypeOK, Decide

\* Every step of the limiter keeps its variables in their types.
LEMMA LimiterType ==
  ASSUME LimitTypeOK, NEW r \in Request, Limiter(r)
  PROVE  LimitTypeOK'
  <1>w. /\ ClientOf[r] \in Client /\ Window \in Nat \ {0} /\ Window \in 0 .. Window
        /\ MaxFaults \in Nat /\ NoRoute \notin Route
    BY RateLimitAssumption DEF RateLimitAssumption
  <1>1. ASSUME NEW x \in Route, Incr(r, x)  PROVE LimitTypeOK'
    <2> DEFINE n == count[ClientOf[r]] + 1
    <2>1. n \in Nat
      BY <1>w DEF LimitTypeOK
    <2>2. /\ route' = [route EXCEPT ![r] = x] /\ count' = [count EXCEPT ![ClientOf[r]] = n]
          /\ UNCHANGED <<unchecked, stuck, faults, restarts>>
      BY <1>1 DEF Incr
    <2>3. CASE gate' = [gate EXCEPT ![r] = "expire"] /\ UNCHANGED <<ttl, age>>
      BY <1>w, <2>1, <2>2, <2>3 DEF LimitTypeOK
    <2>4. CASE /\ ttl' = [ttl EXCEPT ![ClientOf[r]] = IF n = 1 THEN Window ELSE @]
               /\ Decide(r, x, n)
      <3>1. /\ gate' \in [Request -> {"new", "expire", "passed", "refused", "dead"}]
            /\ age' \in [Request -> 0 .. Window]
        BY <2>1, <2>4, DecideType
      <3>2. ttl' \in [Client -> 0 .. Window]
        BY <1>w, <2>4 DEF LimitTypeOK
      <3> QED
        BY <1>w, <2>1, <2>2, <3>1, <3>2 DEF LimitTypeOK
    <2> QED
      BY <1>1, <2>3, <2>4 DEF Incr
  <1>2. ASSUME NEW x \in Route, IncrFails(r, x)  PROVE LimitTypeOK'
    BY <1>2, <1>w DEF LimitTypeOK, IncrFails
  <1>5. ASSUME NEW x \in Route, IncrTwice(r, x)  PROVE LimitTypeOK'
    <2>1. count[ClientOf[r]] + 2 \in Nat
      BY <1>w DEF LimitTypeOK
    <2>2. /\ gate' \in [Request -> {"new", "expire", "passed", "refused", "dead"}]
          /\ age' \in [Request -> 0 .. Window]
      BY <1>5, <2>1, DecideType DEF IncrTwice
    <2>3. stuck' \subseteq Client /\ faults' \in 0 .. MaxFaults
      BY <1>5, <1>w DEF LimitTypeOK, IncrTwice
    <2> QED
      BY <1>5, <1>w, <2>1, <2>2, <2>3 DEF LimitTypeOK, IncrTwice
  <1>3. CASE Expire(r)
    <2>2. /\ gate' \in [Request -> {"new", "expire", "passed", "refused", "dead"}]
          /\ age' \in [Request -> 0 .. Window]
      BY <1>3, DecideType DEF Expire
    <2>3. ttl' \in [Client -> 0 .. Window]
      BY <1>3, <1>w DEF LimitTypeOK, Expire
    <2> QED
      BY <1>3, <2>2, <2>3 DEF LimitTypeOK, Expire
  <1>4. CASE ExpireFails(r)
    <2>2. /\ gate' \in [Request -> {"new", "expire", "passed", "refused", "dead"}]
          /\ age' \in [Request -> 0 .. Window]
      BY <1>4, DecideType DEF ExpireFails
    <2>3. stuck' \subseteq Client /\ faults' \in 0 .. MaxFaults
      BY <1>4, <1>w DEF LimitTypeOK, ExpireFails
    <2> QED
      BY <1>4, <2>2, <2>3 DEF LimitTypeOK, ExpireFails
  <1> QED
    BY <1>1, <1>2, <1>3, <1>4, <1>5 DEF Limiter

\* So does the clock.
LEMMA TickType ==
  ASSUME LimitTypeOK, Tick
  PROVE  LimitTypeOK'
  <1>1. Window \in Nat
    BY RateLimitAssumption DEF RateLimitAssumption
  <1>2. count' \in [Client -> Nat]
    BY DEF LimitTypeOK, Tick
  <1>3. ttl' \in [Client -> 0 .. Window] /\ age' \in [Request -> 0 .. Window]
    BY <1>1 DEF LimitTypeOK, Tick
  <1> QED
    BY <1>2, <1>3 DEF LimitTypeOK, Tick

\* And so does a restart of the server.
LEMMA LimitRestartType ==
  ASSUME LimitTypeOK, LimitRestart
  PROVE  LimitTypeOK'
  <1>1. /\ Window \in Nat /\ MaxRestarts \in Nat /\ ClientOf \in [Request -> Client]
        /\ InRedis \in BOOLEAN
    BY RateLimitAssumption DEF RateLimitAssumption
  <1>2. restarts' \in 0 .. MaxRestarts /\ stuck' \subseteq Client
    BY <1>1 DEF LimitTypeOK, LimitRestart
  <1>3. count' \in [Client -> Nat] /\ ttl' \in [Client -> 0 .. Window]
    BY <1>1 DEF LimitTypeOK, LimitRestart
  <1>4. gate' \in [Request -> {"new", "expire", "passed", "refused", "dead"}]
    BY DEF LimitTypeOK, LimitRestart
  <1> QED
    BY <1>2, <1>3, <1>4 DEF LimitTypeOK, LimitRestart

-----------------------------------------------------------------------------
(***************************************************************************)
(* How many requests pass the limiter.  Those whose INCR made the key and  *)
(* whose EXPIRE is to come count as if they had passed.  While a key has   *)
(* an expiry, the requests younger than it were counted after its first,   *)
(* so they are fewer than the limit; they are all that is left when the    *)
(* key goes.                                                               *)
(***************************************************************************)

Expiring(c)   == {r \in Request : ClientOf[r] = c /\ gate[r] = "expire"}
Counted(c, x) == LetThrough(c, x) \cup Expiring(c)
Fresh(c, x)   == {r \in LetThrough(c, x) : age[r] < Window - ttl[c]}

Least(m, n) == IF m <= n THEN m ELSE n

\* A key with an expiry has counted, and one request at most is about to set it.
KeyInv(c) ==
  /\ ttl[c] > 0 => count[c] > 0
  /\ \A r \in Expiring(c) : InRedis /\ count[c] > 0 /\ ttl[c] = 0
  /\ \A q, r \in Expiring(c) : q = r

RoomInv(c, x) ==
  /\ Cardinality(Counted(c, x)) < Least(count[c], Limit[x]) + Limit[x]
  /\ ttl[c] > 0 => Cardinality(Fresh(c, x)) < Least(count[c], Limit[x])

WindowInv ==
  (InRedis \/ restarts = 0) => \A c \in Client : KeyInv(c) /\ \A x \in Route : RoomInv(c, x)

\* What the assumption and the types say of one client and one route.
LEMMA LimitNumbers ==
  ASSUME LimitTypeOK, NEW c \in Client, NEW x \in Route
  PROVE  /\ Limit[x] \in Nat \ {0} /\ Window \in Nat \ {0} /\ count[c] \in Nat
         /\ ttl[c] \in Nat /\ ttl[c] <= Window
         /\ IsFiniteSet(Counted(c, x)) /\ IsFiniteSet(Fresh(c, x)) /\ IsFiniteSet(LetThrough(c, x))
         /\ Cardinality(Counted(c, x)) \in Nat /\ Cardinality(Fresh(c, x)) \in Nat
         /\ \A r \in Request : ClientOf[r] \in Client /\ age[r] \in Nat /\ age[r] <= Window
  <1>1. /\ Limit[x] \in Nat \ {0} /\ Window \in Nat \ {0} /\ IsFiniteSet(Request)
        /\ ClientOf \in [Request -> Client]
    BY RateLimitAssumption DEF RateLimitAssumption
  <1>2. /\ Counted(c, x) \subseteq Request /\ Fresh(c, x) \subseteq Request
        /\ LetThrough(c, x) \subseteq Request
    BY DEF Counted, Fresh, LetThrough, Expiring
  <1>3. /\ IsFiniteSet(Counted(c, x)) /\ IsFiniteSet(Fresh(c, x)) /\ IsFiniteSet(LetThrough(c, x))
    BY <1>1, <1>2, FS_Subset
  <1>4. count[c] \in Nat /\ ttl[c] \in 0 .. Window /\ \A r \in Request : age[r] \in 0 .. Window
    BY DEF LimitTypeOK
  <1> QED
    BY <1>1, <1>3, <1>4, FS_CardinalityType

\* With no more requests and no smaller counter there is room as before.
LEMMA RoomKept ==
  ASSUME LimitTypeOK, LimitTypeOK', NEW c \in Client, NEW x \in Route, RoomInv(c, x),
         Counted(c, x)' \subseteq Counted(c, x), count[c] <= count'[c],
         ttl'[c] > 0 => ttl[c] > 0 /\ Fresh(c, x)' \subseteq Fresh(c, x)
  PROVE  RoomInv(c, x)'
  <1>1. /\ Limit[x] \in Nat /\ count[c] \in Nat /\ count'[c] \in Nat
        /\ Cardinality(Counted(c, x)) \in Nat /\ Cardinality(Counted(c, x)') \in Nat
        /\ Cardinality(Fresh(c, x)) \in Nat /\ Cardinality(Fresh(c, x)') \in Nat
    <2>1. /\ IsFiniteSet(Counted(c, x)) /\ IsFiniteSet(Fresh(c, x)) /\ Limit[x] \in Nat
          /\ count[c] \in Nat /\ IsFiniteSet(Request)
      BY LimitNumbers, RateLimitAssumption DEF RateLimitAssumption
    <2>2. Counted(c, x)' \subseteq Request /\ Fresh(c, x)' \subseteq Request
      BY DEF Counted, Fresh, LetThrough, Expiring
    <2>3. count'[c] \in Nat
      BY DEF LimitTypeOK
    <2> QED
      BY <2>1, <2>2, <2>3, FS_Subset, FS_CardinalityType
  <1>2. Cardinality(Counted(c, x)') <= Cardinality(Counted(c, x))
    BY LimitNumbers, FS_Subset
  <1>3. ttl'[c] > 0 => Cardinality(Fresh(c, x)') <= Cardinality(Fresh(c, x))
    BY LimitNumbers, FS_Subset
  <1>4. Least(count[c], Limit[x]) <= Least(count'[c], Limit[x])
    BY <1>1 DEF Least
  <1>5. Least(count[c], Limit[x]) \in Nat /\ Least(count'[c], Limit[x]) \in Nat
    BY <1>1 DEF Least
  <1> QED
    BY <1>1, <1>2, <1>3, <1>4, <1>5 DEF RoomInv

\* One more element makes a set larger by one at most.
LEMMA OneMore ==
  ASSUME NEW S, NEW r, IsFiniteSet(S)
  PROVE  /\ IsFiniteSet(S \cup {r})
         /\ Cardinality(S \cup {r}) \in Nat /\ Cardinality(S) \in Nat
         /\ Cardinality(S \cup {r}) <= Cardinality(S) + 1
  <1>1. /\ IsFiniteSet(S \cup {r})
        /\ Cardinality(S \cup {r}) = IF r \in S THEN Cardinality(S) ELSE Cardinality(S) + 1
    BY FS_AddElement
  <1>2. Cardinality(S) \in Nat
    BY FS_CardinalityType
  <1> QED
    BY <1>1, <1>2

\* With one more request and a counter that counts it, within the limit, as well.
LEMMA RoomTaken ==
  ASSUME LimitTypeOK, LimitTypeOK', NEW c \in Client, NEW x \in Route, RoomInv(c, x),
         NEW r \in Request, Counted(c, x)' \subseteq Counted(c, x) \cup {r},
         count'[c] > count[c], count'[c] <= Limit[x],
         ttl'[c] > 0 => \/ Fresh(c, x)' = {}
                        \/ ttl[c] > 0 /\ Fresh(c, x)' \subseteq Fresh(c, x) \cup {r}
  PROVE  RoomInv(c, x)'
  <1>1. /\ Limit[x] \in Nat /\ count[c] \in Nat
        /\ IsFiniteSet(Counted(c, x)) /\ IsFiniteSet(Fresh(c, x))
        /\ Cardinality(Counted(c, x)) \in Nat /\ Cardinality(Fresh(c, x)) \in Nat
    BY LimitNumbers
  <1>2. /\ Cardinality(Counted(c, x)') \in Nat
        /\ Cardinality(Counted(c, x)') <= Cardinality(Counted(c, x)) + 1
    <2>1. /\ IsFiniteSet(Counted(c, x) \cup {r})
          /\ Cardinality(Counted(c, x) \cup {r}) <= Cardinality(Counted(c, x)) + 1
      BY <1>1, OneMore
    <2> QED
      BY <1>1, <2>1, FS_Subset, FS_CardinalityType
  <1>3. ttl[c] > 0 /\ Fresh(c, x)' \subseteq Fresh(c, x) \cup {r}
        => /\ Cardinality(Fresh(c, x)') \in Nat
           /\ Cardinality(Fresh(c, x)') <= Cardinality(Fresh(c, x)) + 1
    <2>1. /\ IsFiniteSet(Fresh(c, x) \cup {r})
          /\ Cardinality(Fresh(c, x) \cup {r}) <= Cardinality(Fresh(c, x)) + 1
      BY <1>1, OneMore
    <2> QED
      BY <1>1, <2>1, FS_Subset, FS_CardinalityType
  <1>0. count'[c] \in Nat
    BY DEF LimitTypeOK
  <1>4. Least(count'[c], Limit[x]) >= count[c] + 1 /\ Least(count[c], Limit[x]) = count[c]
    BY <1>0, <1>1 DEF Least
  <1>5. Cardinality({}) = 0
    BY FS_EmptySet
  <1>6. Cardinality(Counted(c, x)') < count[c] + 1 + Limit[x]
    BY <1>1, <1>2, <1>4 DEF RoomInv
  <1>7. ttl'[c] > 0 => Cardinality(Fresh(c, x)') < count[c] + 1
    <2>1. Fresh(c, x)' = {} => Cardinality(Fresh(c, x)') < count[c] + 1
      <3>1. Fresh(c, x)' = {} => Cardinality(Fresh(c, x)') = 0
        BY <1>5
      <3> QED
        BY <1>1, <3>1
    <2>2. ttl[c] > 0 => Cardinality(Fresh(c, x)) < count[c]
      BY <1>4 DEF RoomInv
    <2>3. ttl[c] > 0 /\ Fresh(c, x)' \subseteq Fresh(c, x) \cup {r}
          => Cardinality(Fresh(c, x)') < count[c] + 1
      BY <1>1, <1>3, <2>2
    <2> QED
      BY <2>1, <2>3
  <1>8. /\ Cardinality(Counted(c, x)') < Least(count'[c], Limit[x]) + Limit[x]
        /\ ttl'[c] > 0 => Cardinality(Fresh(c, x)') < Least(count'[c], Limit[x])
    <2>1. Least(count'[c], Limit[x]) \in Nat
      BY <1>0, <1>1 DEF Least
    <2>2. ttl'[c] > 0 => Cardinality(Fresh(c, x)') \in Nat
      <3>1. Fresh(c, x)' = {} => Cardinality(Fresh(c, x)') = 0
        BY <1>5
      <3> QED
        BY <1>3, <3>1
    <2> QED
      BY <1>1, <1>2, <1>4, <1>6, <1>7, <2>1, <2>2
  <1> QED
    BY <1>8 DEF RoomInv

\* A step of the middleware changes its request and the counter of its client only.
LEMMA LimiterTouches ==
  ASSUME LimitTypeOK, NEW r \in Request, Limiter(r)
  PROVE  /\ \A q \in Request \ {r} : gate'[q] = gate[q] /\ route'[q] = route[q] /\ age'[q] = age[q]
         /\ \A d \in Client \ {ClientOf[r]} : count'[d] = count[d] /\ ttl'[d] = ttl[d]
         /\ unchecked \subseteq unchecked' /\ restarts' = restarts
  <1>1. ASSUME NEW x \in Route, Incr(r, x)
        PROVE  /\ \A q \in Request \ {r} : gate'[q] = gate[q] /\ route'[q] = route[q] /\ age'[q] = age[q]
               /\ \A d \in Client \ {ClientOf[r]} : count'[d] = count[d] /\ ttl'[d] = ttl[d]
               /\ unchecked \subseteq unchecked' /\ restarts' = restarts
    BY <1>1 DEF LimitTypeOK, Incr, Decide
  <1>2. ASSUME NEW x \in Route, IncrFails(r, x)
        PROVE  /\ \A q \in Request \ {r} : gate'[q] = gate[q] /\ route'[q] = route[q] /\ age'[q] = age[q]
               /\ \A d \in Client \ {ClientOf[r]} : count'[d] = count[d] /\ ttl'[d] = ttl[d]
               /\ unchecked \subseteq unchecked' /\ restarts' = restarts
    BY <1>2 DEF LimitTypeOK, IncrFails
  <1>3. CASE Expire(r)
    BY <1>3 DEF LimitTypeOK, Expire, Decide
  <1>4. CASE ExpireFails(r)
    BY <1>4 DEF LimitTypeOK, ExpireFails, Decide
  <1>5. ASSUME NEW x \in Route, IncrTwice(r, x)
        PROVE  /\ \A q \in Request \ {r} : gate'[q] = gate[q] /\ route'[q] = route[q] /\ age'[q] = age[q]
               /\ \A d \in Client \ {ClientOf[r]} : count'[d] = count[d] /\ ttl'[d] = ttl[d]
               /\ unchecked \subseteq unchecked' /\ restarts' = restarts
    BY <1>5 DEF LimitTypeOK, IncrTwice, Decide
  <1> QED
    BY <1>1, <1>2, <1>3, <1>4, <1>5 DEF Limiter

\* Which requests it adds to those that count: its own, if anyone.
LEMMA CountedByStep ==
  ASSUME LimitTypeOK, NEW r \in Request, Limiter(r), NEW c \in Client, NEW x \in Route
  PROVE  /\ Counted(c, x)' \subseteq Counted(c, x) \cup {r}
         /\ LetThrough(c, x)' \subseteq LetThrough(c, x) \cup {r}
         /\ ttl'[c] = ttl[c] => Fresh(c, x)' \subseteq Fresh(c, x) \cup {r}
         /\ c # ClientOf[r] => /\ r \notin Counted(c, x)' /\ r \notin LetThrough(c, x)'
                               /\ r \notin Fresh(c, x)'
         /\ gate[r] = "expire" /\ c = ClientOf[r] => r \in Counted(c, x)
  <1>1. /\ \A q \in Request \ {r} : gate'[q] = gate[q] /\ route'[q] = route[q] /\ age'[q] = age[q]
        /\ unchecked \subseteq unchecked'
    BY LimiterTouches
  <1>2. LetThrough(c, x)' \subseteq LetThrough(c, x) \cup {r}
    BY <1>1 DEF LetThrough
  <1>3. Expiring(c)' \subseteq Expiring(c) \cup {r}
    BY <1>1 DEF Expiring
  <1>4. ttl'[c] = ttl[c] => Fresh(c, x)' \subseteq Fresh(c, x) \cup {r}
    BY <1>1, <1>2 DEF Fresh, LetThrough
  <1>5. c # ClientOf[r] => /\ r \notin Counted(c, x)' /\ r \notin LetThrough(c, x)'
                           /\ r \notin Fresh(c, x)'
    BY DEF Counted, Fresh, LetThrough, Expiring
  <1> QED
    BY <1>2, <1>3, <1>4, <1>5 DEF Counted, Expiring

\* A young key has no request younger than itself.
LEMMA NoneFresh ==
  ASSUME LimitTypeOK, LimitTypeOK', NEW c \in Client, NEW x \in Route, ttl'[c] = Window
  PROVE  Fresh(c, x)' = {}
  <1>1. Window \in Nat /\ \A r \in Request : age'[r] \in 0 .. Window
    BY RateLimitAssumption DEF RateLimitAssumption, LimitTypeOK
  <1> QED
    BY <1>1 DEF Fresh, LetThrough

\* Every step of the middleware leaves room.
LEMMA LimiterRoom ==
  ASSUME LimitTypeOK, LimitTypeOK', WindowInv, NEW r \in Request, Limiter(r)
  PROVE  WindowInv'
  <1> SUFFICES ASSUME InRedis \/ restarts' = 0, NEW c \in Client
               PROVE  KeyInv(c)' /\ \A x \in Route : RoomInv(c, x)'
    BY DEF WindowInv
  <1>1. KeyInv(c) /\ \A x \in Route : RoomInv(c, x)
    BY LimiterTouches DEF WindowInv
  <1>2. /\ count[c] \in Nat /\ count'[c] \in Nat /\ ttl[c] \in Nat /\ Window \in Nat \ {0}
        /\ ClientOf[r] \in Client
    BY RateLimitAssumption DEF RateLimitAssumption, LimitTypeOK
  <1>3. CASE c # ClientOf[r]
    <2>1. /\ count'[c] = count[c] /\ ttl'[c] = ttl[c]
          /\ \A q \in Request \ {r} : gate'[q] = gate[q]
      BY <1>3, LimiterTouches
    <2>2. KeyInv(c)'
      BY <1>1, <1>3, <2>1 DEF KeyInv, Expiring
    <2>3. ASSUME NEW x \in Route  PROVE RoomInv(c, x)'
      <3>1. Counted(c, x)' \subseteq Counted(c, x) /\ Fresh(c, x)' \subseteq Fresh(c, x)
        BY <1>3, <2>1, CountedByStep
      <3> QED
        BY <1>1, <1>2, <2>1, <3>1, RoomKept
    <2> QED
      BY <2>2, <2>3
  <1>4. CASE c = ClientOf[r]
    <2>1. \A q \in Request \ {r} : gate'[q] = gate[q]
      BY LimiterTouches
    <2>2. ASSUME NEW x \in Route, Incr(r, x)  PROVE KeyInv(c)' /\ \A y \in Route : RoomInv(c, y)'
      <3>1. count'[c] = count[c] + 1
        BY <1>4, <2>2 DEF Incr, LimitTypeOK
      <3>2. CASE count[c] > 0
        <4>1. ttl'[c] = ttl[c] /\ Decide(r, x, count'[c])
          BY <1>2, <1>4, <2>2, <3>1, <3>2 DEF Incr, LimitTypeOK
        <4>2. gate'[r] \in {"passed", "refused"}
          BY <4>1 DEF Decide, LimitTypeOK
        <4>3. KeyInv(c)'
          BY <1>1, <1>2, <2>1, <3>1, <4>1, <4>2 DEF KeyInv, Expiring
        <4>4. ASSUME NEW y \in Route  PROVE RoomInv(c, y)'
          <5>1. CASE x = y /\ count'[c] <= Limit[y]
            <6>1. count'[c] > count[c]
              BY <1>2, <3>1
            <6> QED
              BY <1>1, <4>1, <5>1, <6>1, CountedByStep, RoomTaken
          <5>2. CASE ~(x = y /\ count'[c] <= Limit[y])
            <6>1. r \notin LetThrough(c, y)'
              <7>1. CASE x = y
                <8>1. Limit[y] \in Nat /\ count'[c] > Limit[y]
                  BY <1>2, <5>2, <7>1, LimitNumbers
                <8>2. gate'[r] = "refused"
                  BY <4>1, <7>1, <8>1 DEF Decide, LimitTypeOK
                <8> QED
                  BY <8>2 DEF LetThrough
              <7>2. CASE x # y
                BY <2>2, <7>2 DEF Incr, LimitTypeOK, LetThrough
              <7> QED
                BY <7>1, <7>2
            <6>2. r \notin Expiring(c)'
              BY <4>2 DEF Expiring
            <6>3. Counted(c, y)' \subseteq Counted(c, y) /\ Fresh(c, y)' \subseteq Fresh(c, y)
              BY <4>1, <6>1, <6>2, CountedByStep DEF Counted, Fresh
            <6> QED
              BY <1>1, <1>2, <3>1, <4>1, <6>3, RoomKept
          <5> QED
            BY <5>1, <5>2
        <4> QED
          BY <4>3, <4>4
      <3>3. CASE count[c] = 0
        <4>1. ttl[c] = 0 /\ Expiring(c) = {}
          BY <1>1, <1>2, <3>3 DEF KeyInv
        <4>2. \/ InRedis /\ ttl'[c] = 0
              \/ ttl'[c] = Window /\ Decide(r, x, 1)
          BY <1>4, <2>2, <3>3, <4>1 DEF Incr, LimitTypeOK
        <4>3. KeyInv(c)'
          <5>1. Expiring(c)' \subseteq {r}
            BY <2>1, <4>1 DEF Expiring
          <5>2. ttl'[c] = Window => Expiring(c)' = {}
            BY <1>2, <2>1, <4>1, <4>2 DEF Expiring, Decide, LimitTypeOK
          <5> QED
            BY <1>2, <3>1, <3>3, <4>2, <5>1, <5>2 DEF KeyInv
        <4>4. ASSUME NEW y \in Route  PROVE RoomInv(c, y)'
          <5>1. Limit[y] \in Nat \ {0}
            BY LimitNumbers
          <5>2. ttl'[c] > 0 => Fresh(c, y)' = {}
            BY <4>2, NoneFresh
          <5> QED
            BY <1>1, <1>2, <3>1, <3>3, <5>1, <5>2, CountedByStep, RoomTaken
        <4> QED
          BY <4>3, <4>4
      <3> QED
        BY <1>2, <3>2, <3>3
    <2>3. ASSUME NEW x \in Route, IncrFails(r, x)  PROVE KeyInv(c)' /\ \A y \in Route : RoomInv(c, y)'
      <3>1. /\ count'[c] \in {count[c], count[c] + 1} /\ ttl'[c] = ttl[c]
            /\ gate'[r] = "passed" /\ r \in unchecked'
        BY <1>4, <2>3 DEF IncrFails, LimitTypeOK
      <3>2. KeyInv(c)'
        BY <1>1, <1>2, <2>1, <3>1 DEF KeyInv, Expiring
      <3>3. ASSUME NEW y \in Route  PROVE RoomInv(c, y)'
        <4>1. Counted(c, y)' \subseteq Counted(c, y) /\ Fresh(c, y)' \subseteq Fresh(c, y)
          <5>1. r \notin LetThrough(c, y)' /\ r \notin Expiring(c)'
            BY <3>1 DEF LetThrough, Expiring
          <5> QED
            BY <3>1, <5>1, CountedByStep DEF Counted, Fresh
        <4> QED
          BY <1>1, <1>2, <3>1, <4>1, RoomKept
      <3> QED
        BY <3>2, <3>3
    <2>4. CASE Expire(r) \/ ExpireFails(r)
      <3>1. /\ gate[r] = "expire" /\ gate'[r] \in {"passed", "refused"}
            /\ count'[c] = count[c] /\ ttl'[c] \in {ttl[c], Window}
        BY <1>4, <2>4 DEF Expire, ExpireFails, Decide, LimitTypeOK
      <3>2. count[c] > 0 /\ ttl[c] = 0 /\ Expiring(c) = {r}
        BY <1>1, <1>4, <3>1 DEF KeyInv, Expiring
      <3>3. Expiring(c)' = {}
        BY <2>1, <3>1, <3>2 DEF Expiring
      <3>4. KeyInv(c)'
        BY <3>1, <3>2, <3>3 DEF KeyInv
      <3>5. ASSUME NEW y \in Route  PROVE RoomInv(c, y)'
        <4>1. Counted(c, y)' \subseteq Counted(c, y)
          BY <1>4, <3>1, CountedByStep
        <4>2. CASE ttl'[c] = ttl[c]
          BY <1>1, <1>2, <3>1, <3>2, <4>1, <4>2, RoomKept
        <4>3. CASE ttl'[c] = Window
          <5>1. Fresh(c, y)' = {} /\ Cardinality({}) = 0
            BY <4>3, NoneFresh, FS_EmptySet
          <5>2. /\ Limit[y] \in Nat \ {0} /\ IsFiniteSet(Counted(c, y))
                /\ Cardinality(Counted(c, y)) \in Nat
            BY LimitNumbers
          <5>3. /\ Cardinality(Counted(c, y)') \in Nat
                /\ Cardinality(Counted(c, y)') <= Cardinality(Counted(c, y))
            BY <4>1, <5>2, FS_Subset, FS_CardinalityType
          <5>4. Least(count'[c], Limit[y]) = Least(count[c], Limit[y]) /\ Least(count[c], Limit[y]) \in Nat \ {0}
            BY <1>2, <3>1, <3>2, <5>2 DEF Least
          <5> QED
            BY <1>1, <5>1, <5>2, <5>3, <5>4 DEF RoomInv
        <4> QED
          BY <3>1, <4>2, <4>3
      <3> QED
        BY <3>4, <3>5
    <2>5. ASSUME NEW x \in Route, IncrTwice(r, x)  PROVE KeyInv(c)' /\ \A y \in Route : RoomInv(c, y)'
      <3>1. /\ count'[c] = count[c] + 2 /\ ttl'[c] = ttl[c] /\ Decide(r, x, count'[c])
            /\ route'[r] = x
        BY <1>4, <2>5 DEF IncrTwice, LimitTypeOK
      <3>2. gate'[r] \in {"passed", "refused"}
        BY <3>1 DEF Decide, LimitTypeOK
      <3>3. KeyInv(c)'
        BY <1>1, <1>2, <2>1, <3>1, <3>2 DEF KeyInv, Expiring
      <3>4. ASSUME NEW y \in Route  PROVE RoomInv(c, y)'
        <4>1. CASE x = y /\ count'[c] <= Limit[y]
          <5>1. count'[c] > count[c]
            BY <1>2, <3>1
          <5> QED
            BY <1>1, <3>1, <4>1, <5>1, CountedByStep, RoomTaken
        <4>2. CASE ~(x = y /\ count'[c] <= Limit[y])
          <5>1. r \notin LetThrough(c, y)'
            <6>1. CASE x = y
              <7>1. Limit[y] \in Nat /\ count'[c] > Limit[y]
                BY <1>2, <4>2, <6>1, LimitNumbers
              <7>2. gate'[r] = "refused"
                BY <3>1, <6>1, <7>1 DEF Decide, LimitTypeOK
              <7> QED
                BY <7>2 DEF LetThrough
            <6>2. CASE x # y
              BY <3>1, <6>2 DEF LetThrough
            <6> QED
              BY <6>1, <6>2
          <5>2. r \notin Expiring(c)'
            BY <3>2 DEF Expiring
          <5>3. Counted(c, y)' \subseteq Counted(c, y) /\ Fresh(c, y)' \subseteq Fresh(c, y)
            BY <3>1, <5>1, <5>2, CountedByStep DEF Counted, Fresh
          <5> QED
            BY <1>1, <1>2, <3>1, <5>3, RoomKept
        <4> QED
          BY <4>1, <4>2
      <3> QED
        BY <3>3, <3>4
    <2> QED
      BY <2>2, <2>3, <2>4, <2>5 DEF Limiter
  <1> QED
    BY <1>3, <1>4

\* So does the clock: what a key leaves behind when it goes is younger than it was.
LEMMA TickRoom ==
  ASSUME LimitTypeOK, LimitTypeOK', WindowInv, Tick
  PROVE  WindowInv'
  <1> SUFFICES ASSUME InRedis \/ restarts' = 0, NEW c \in Client
               PROVE  KeyInv(c)' /\ \A x \in Route : RoomInv(c, x)'
    BY DEF WindowInv
  <1>1. KeyInv(c) /\ \A x \in Route : RoomInv(c, x)
    BY DEF WindowInv, Tick
  <1>2. /\ count[c] \in Nat /\ ttl[c] \in Nat /\ ttl[c] <= Window /\ Window \in Nat \ {0}
        /\ \A r \in Request : age[r] \in Nat /\ age[r] <= Window
    BY RateLimitAssumption DEF RateLimitAssumption, LimitTypeOK
  <1>3. /\ ttl'[c] = IF ttl[c] > 0 THEN ttl[c] - 1 ELSE 0
        /\ count'[c] = IF ttl[c] = 1 THEN 0 ELSE count[c]
        /\ \A r \in Request : age'[r] = IF age[r] < Window THEN age[r] + 1 ELSE Window
        /\ gate' = gate /\ route' = route /\ unchecked' = unchecked
    BY DEF Tick
  <1>4. Expiring(c)' = Expiring(c)
    BY <1>3 DEF Expiring
  <1>5. KeyInv(c)'
    <2>1. ttl'[c] > 0 => count'[c] > 0
      BY <1>1, <1>2, <1>3 DEF KeyInv
    <2>2. \A r \in Expiring(c)' : InRedis /\ count'[c] > 0 /\ ttl'[c] = 0
      BY <1>1, <1>2, <1>3, <1>4 DEF KeyInv
    <2> QED
      BY <1>1, <1>4, <2>1, <2>2 DEF KeyInv
  <1>6. ASSUME NEW x \in Route  PROVE RoomInv(c, x)'
    <2>1. LetThrough(c, x)' \subseteq LetThrough(c, x)
      BY <1>2, <1>3 DEF LetThrough
    <2>2. Counted(c, x)' \subseteq Counted(c, x)
      BY <1>4, <2>1 DEF Counted
    <2>3. ttl[c] > 0 /\ ttl'[c] > 0 => Fresh(c, x)' \subseteq Fresh(c, x)
      <3> SUFFICES ASSUME ttl[c] > 0, NEW r \in Fresh(c, x)'  PROVE r \in Fresh(c, x)
        OBVIOUS
      <3>1. r \in LetThrough(c, x) /\ r \in Request /\ age'[r] < Window - ttl'[c]
        BY <2>1 DEF Fresh, LetThrough
      <3> QED
        BY <1>2, <1>3, <3>1 DEF Fresh
    <2>4. CASE ttl[c] # 1
      BY <1>1, <1>2, <1>3, <2>2, <2>3, <2>4, RoomKept
    <2>5. CASE ttl[c] = 1
      <3>1. count'[c] = 0 /\ ttl'[c] = 0
        BY <1>3, <2>5
      <3>2. Expiring(c)' = {}
        BY <1>1, <1>4, <2>5 DEF KeyInv
      <3>3. Counted(c, x)' \subseteq Fresh(c, x)
        <4> SUFFICES ASSUME NEW r \in LetThrough(c, x)'  PROVE r \in Fresh(c, x)
          BY <3>2 DEF Counted
        <4>1. r \in LetThrough(c, x) /\ r \in Request /\ age'[r] < Window
          BY <2>1 DEF LetThrough
        <4> QED
          BY <1>2, <1>3, <2>5, <4>1 DEF Fresh
      <3>4. /\ Limit[x] \in Nat \ {0} /\ IsFiniteSet(Fresh(c, x)) /\ Cardinality(Fresh(c, x)) \in Nat
        BY LimitNumbers
      <3>5. /\ Cardinality(Counted(c, x)') \in Nat
            /\ Cardinality(Counted(c, x)') <= Cardinality(Fresh(c, x))
        BY <3>3, <3>4, FS_Subset, FS_CardinalityType
      <3>6. Cardinality(Fresh(c, x)) < Least(count[c], Limit[x])
        BY <1>1, <2>5 DEF RoomInv
      <3>7. Least(count[c], Limit[x]) <= Limit[x] /\ Least(count[c], Limit[x]) \in Nat
        BY <1>2, <3>4 DEF Least
      <3>8. Least(count'[c], Limit[x]) = 0
        BY <3>1, <3>4 DEF Least
      <3> QED
        BY <3>1, <3>4, <3>5, <3>6, <3>7, <3>8 DEF RoomInv
    <2> QED
      BY <2>4, <2>5
  <1> QED
    BY <1>5, <1>6

\* A restart leaves room in Redis; without Redis the bound says nothing any more.
LEMMA LimitRestartRoom ==
  ASSUME LimitTypeOK, LimitTypeOK', WindowInv, LimitRestart
  PROVE  WindowInv'
  <1> SUFFICES ASSUME InRedis \/ restarts' = 0, NEW c \in Client
               PROVE  KeyInv(c)' /\ \A x \in Route : RoomInv(c, x)'
    BY DEF WindowInv
  <1>1. restarts \in Nat /\ restarts' = restarts + 1
    BY DEF LimitRestart, LimitTypeOK
  <1>2. InRedis
    BY <1>1
  <1>3. KeyInv(c) /\ \A x \in Route : RoomInv(c, x)
    BY <1>2 DEF WindowInv
  <1>4. /\ count' = count /\ ttl' = ttl /\ age' = age /\ route' = route /\ unchecked' = unchecked
        /\ \A r \in Request : gate'[r] = IF gate[r] = "expire" THEN "dead" ELSE gate[r]
    BY <1>2 DEF LimitRestart
  <1>5. Expiring(c)' = {}
    BY <1>4 DEF Expiring
  <1>6. ASSUME NEW x \in Route  PROVE RoomInv(c, x)'
    <2>1. LetThrough(c, x)' \subseteq LetThrough(c, x)
      BY <1>4 DEF LetThrough
    <2>2. Counted(c, x)' \subseteq Counted(c, x) /\ Fresh(c, x)' \subseteq Fresh(c, x)
      BY <1>4, <1>5, <2>1 DEF Counted, Fresh
    <2>3. count[c] \in Nat
      BY DEF LimitTypeOK
    <2> QED
      BY <1>3, <1>4, <2>2, <2>3, RoomKept
  <1> QED
    BY <1>3, <1>4, <1>5, <1>6 DEF KeyInv

-----------------------------------------------------------------------------
(***************************************************************************)
(* How a handler moves.  All that the slots depend on is that a step of    *)
(* the handler begins it, moves it on, ends it or turns the request away.  *)
(***************************************************************************)

RepairSteps == {"repair", "sandbox", "verify", "count", "create"}
Working     == {"load", "validate", "stream", "hung"} \cup RepairSteps

\* Only WA and RE are repaired, and only after a repair are reports counted.
StepInv == \A r \in Request : handler[r].at \in RepairSteps => Repairing(handler[r].verdict)

Begins(r) ==
  /\ handler[r].at = "none"
  /\ \E h \in Handler : /\ h.at = "load" /\ handler' = [handler EXCEPT ![r] = h]
                        /\ IF Repairing(h.verdict)
                           THEN slots < maxConcurrentDiagnose /\ slots' = slots + 1
                           ELSE slots' = slots

Proceeds(r) ==
  /\ handler[r].at \in Working
  /\ \E h \in Handler : /\ h.at \in Working /\ h.verdict = handler[r].verdict
                        /\ h.at \in RepairSteps => Repairing(h.verdict)
                        /\ handler' = [handler EXCEPT ![r] = h]
  /\ slots' = slots

Ends(r) == handler[r].at \in Working /\ Return(r)

TurnedAway(r) ==
  /\ handler[r].at = "none"
  /\ handler' = [handler EXCEPT ![r].at = "ended"]
  /\ slots' = slots

\* Going to another step changes nothing else of a handler.
LEMMA GoToMoves ==
  ASSUME TypeOK, NEW r \in Request, NEW st \in Working, GoTo(r, st),
         handler[r].at \in Working,
         st \in RepairSteps => Repairing(handler[r].verdict), slots' = slots
  PROVE  Proceeds(r)
  <1> DEFINE h == [handler[r] EXCEPT !.at = st]
  <1>1. handler[r] \in Handler
    BY DEF TypeOK
  <1>2. h \in Handler /\ h.at = st /\ h.verdict = handler[r].verdict
    BY <1>1 DEF Handler, Steps, Working, RepairSteps
  <1>3. handler' = [handler EXCEPT ![r] = h]
    BY DEF GoTo, TypeOK
  <1> QED
    BY <1>2, <1>3 DEF Proceeds

\* After an attempt that failed there is another one, or the reference is tried.
LEMMA NextAttemptMoves ==
  ASSUME TypeOK, StepInv, NEW r \in Request, NextAttempt(r), handler[r].at \in RepairSteps,
         slots' = slots
  PROVE  Proceeds(r) /\ handler'[r].at \in {"repair", "verify"}
  <1>1. handler[r] \in Handler /\ maxRepairAttempts \in Nat
    BY DiagnoseAssumption DEF TypeOK, DiagnoseAssumption
  <1>2. Repairing(handler[r].verdict) /\ handler[r].at \in Working
    BY DEF StepInv, Working
  <1>3. PICK h \in Handler : /\ h.at \in {"repair", "verify"} /\ h.verdict = handler[r].verdict
                             /\ handler' = [handler EXCEPT ![r] = h]
    <2>1. ASSUME NEW n \in 1 .. maxRepairAttempts,
                 handler' = [handler EXCEPT ![r].at = "repair", ![r].attempt = n]
          PROVE  \E g \in Handler : /\ g.at \in {"repair", "verify"} /\ g.verdict = handler[r].verdict
                                    /\ handler' = [handler EXCEPT ![r] = g]
      <3> DEFINE g == [handler[r] EXCEPT !.at = "repair", !.attempt = n]
      <3>0. n \in 0 .. maxRepairAttempts
        BY <1>1
      <3>1. g \in Handler /\ g.at = "repair" /\ g.verdict = handler[r].verdict
        BY <1>1, <3>0 DEF Handler, Steps
      <3>2. handler' = [handler EXCEPT ![r] = g]
        BY <2>1 DEF TypeOK
      <3> HIDE DEF g
      <3> QED
        BY <3>1, <3>2
    <2>2. ASSUME GoTo(r, "verify")
          PROVE  \E g \in Handler : /\ g.at \in {"repair", "verify"} /\ g.verdict = handler[r].verdict
                                    /\ handler' = [handler EXCEPT ![r] = g]
      <3> DEFINE g == [handler[r] EXCEPT !.at = "verify"]
      <3>1. g \in Handler /\ g.at = "verify" /\ g.verdict = handler[r].verdict
        BY <1>1 DEF Handler, Steps
      <3>2. handler' = [handler EXCEPT ![r] = g]
        BY <2>2 DEF GoTo, TypeOK
      <3> HIDE DEF g
      <3> QED
        BY <3>1, <3>2
    <2> QED
      BY <2>1, <2>2 DEF NextAttempt
  <1>4. handler'[r] = h /\ h.at \in Working
    BY <1>3 DEF TypeOK, Working, RepairSteps
  <1> QED
    BY <1>2, <1>3, <1>4 DEF Proceeds

\* Every step of a handler is one of the four.
LEMMA DiagnoseMoves ==
  ASSUME TypeOK, StepInv, NEW r \in Request, Diagnose(r)
  PROVE  Begins(r) \/ Proceeds(r) \/ Ends(r) \/ TurnedAway(r)
  <1>h. handler[r] \in Handler /\ maxRepairAttempts \in Nat \ {0}
    BY DiagnoseAssumption DEF TypeOK, DiagnoseAssumption
  <1>1. ASSUME NEW v \in Verdict, NEW input \in BOOLEAN, Start(r, v, input)  PROVE Begins(r)
    <2> DEFINE h == With("load", v, input)
    <2>1. h \in Handler /\ h.at = "load" /\ h.verdict = v
      BY <1>h DEF Handler, Steps, With
    <2>2. handler' = [handler EXCEPT ![r] = h] /\ handler[r].at = "none"
      BY <1>1 DEF Start, At
    <2>3. IF Repairing(v) THEN slots < maxConcurrentDiagnose /\ slots' = slots + 1
                          ELSE slots' = slots
      BY <1>1 DEF Start
    <2> HIDE DEF h
    <2> QED
      BY <2>1, <2>2, <2>3 DEF Begins
  <1>2. CASE TurnAway(r)
    BY <1>2 DEF TurnAway, TurnedAway, At, GoTo
  <1>3. CASE LoadProblem(r)
    <2> DEFINE v == handler[r].verdict
               h == [handler[r] EXCEPT !.at = FirstStep(v),
                                       !.attempt = IF Repairing(v) THEN 1 ELSE 0]
    <2>1. FirstStep(v) \in {"repair", "validate", "stream"} /\ (FirstStep(v) = "repair" => Repairing(v))
      BY DEF FirstStep
    <2>2. h \in Handler /\ h.at = FirstStep(v) /\ h.verdict = v
      <3>1. (IF Repairing(v) THEN 1 ELSE 0) \in 0 .. maxRepairAttempts
        BY <1>h DEF Repairing
      <3>2. FirstStep(v) \in Steps
        BY <2>1 DEF Steps
      <3> QED
        BY <1>h, <3>1, <3>2 DEF Handler
    <2>3. handler' = [handler EXCEPT ![r] = h] /\ handler[r].at = "load" /\ slots' = slots
      BY <1>3 DEF LoadProblem, At, TypeOK
    <2>4. h.at \in Working /\ handler[r].at \in Working /\ (h.at \in RepairSteps => Repairing(v))
      BY <2>1, <2>2, <2>3 DEF Working, RepairSteps
    <2> HIDE DEF h, v
    <2>5. v = handler[r].verdict
      BY DEF v
    <2> QED
      BY <2>2, <2>3, <2>4, <2>5 DEF Proceeds
  <1>4. CASE ProblemMissing(r)
    BY <1>4 DEF ProblemMissing, Ends, At, Working
  <1>5. CASE TestCasesUnreadable(r) \/ ValidateInSilence(r) \/ \E foreign \in BOOLEAN : Validate(r, foreign)
    <2>1. GoTo(r, "stream") /\ slots' = slots /\ handler[r].at = "validate"
      BY <1>5 DEF TestCasesUnreadable, ValidateInSilence, Validate, ReportReference, At
    <2> QED
      BY <2>1, GoToMoves DEF Working, RepairSteps
  <1>6. CASE StreamLLM(r)
    BY <1>6 DEF StreamLLM, Ends, At, Working
  <1>7. ASSUME NEW answer \in RepairAnswer, AskForRepair(r, answer)  PROVE Proceeds(r)
    <2>1. handler[r].at = "repair" /\ slots' = slots /\ Repairing(handler[r].verdict)
      BY <1>7 DEF AskForRepair, At, StepInv, RepairSteps
    <2>2. (\E st \in {"sandbox", "verify"} : GoTo(r, st)) \/ NextAttempt(r)
      BY <1>7 DEF AskForRepair
    <2> QED
      BY <2>1, <2>2, GoToMoves, NextAttemptMoves DEF Working, RepairSteps
  <1>12. CASE Hang(r)
    <2>1. handler[r].at \in Working /\ slots' = slots /\ GoTo(r, "hung")
      BY <1>12 DEF Hang, At, Working, RepairSteps
    <2> QED
      BY <2>1, GoToMoves DEF Working, RepairSteps
  <1>8. CASE StopRepairing(r) \/ RunRepaired(r)
    <2>1. handler[r].at \in {"repair", "sandbox"} /\ slots' = slots
      BY <1>8 DEF StopRepairing, RunRepaired, At
    <2>2. Repairing(handler[r].verdict)
      BY <2>1 DEF StepInv, RepairSteps
    <2>3. GoTo(r, "verify") \/ NextAttempt(r)
      BY <1>8 DEF StopRepairing, RunRepaired
    <2> QED
      BY <2>1, <2>2, <2>3, GoToMoves, NextAttemptMoves DEF Working, RepairSteps
  <1>9. ASSUME NEW foreign \in BOOLEAN, Verify(r, foreign)  PROVE Proceeds(r) \/ Ends(r)
    <2>1. handler[r].at = "verify" /\ Repairing(handler[r].verdict)
      BY <1>9 DEF Verify, At, StepInv, RepairSteps
    <2>2. CASE Return(r)
      BY <2>1, <2>2 DEF Ends, Working, RepairSteps
    <2>3. ASSUME NEW misled \in BOOLEAN, Suspect(r, misled)  PROVE Proceeds(r)
      <3> DEFINE h == [handler[r] EXCEPT !.at = "count", !.misled = misled]
      <3>1. h \in Handler /\ h.at = "count" /\ h.verdict = handler[r].verdict
        BY <1>h DEF Handler, Steps
      <3>2. handler' = [handler EXCEPT ![r] = h] /\ slots' = slots
        BY <2>3 DEF Suspect, TypeOK
      <3> HIDE DEF h
      <3> QED
        BY <2>1, <3>1, <3>2 DEF Proceeds, Working, RepairSteps
    <2> QED
      BY <1>9, <2>2, <2>3 DEF Verify, Finish
  <1>10. CASE CountReports(r)
    <2>1. handler[r].at = "count" /\ Repairing(handler[r].verdict)
      BY <1>10 DEF CountReports, At, StepInv, RepairSteps
    <2>2. (GoTo(r, "create") /\ slots' = slots) \/ Return(r)
      BY <1>10 DEF CountReports, Finish
    <2> QED
      BY <2>1, <2>2, GoToMoves DEF Ends, Working, RepairSteps
  <1>11. CASE CreateReport(r)
    BY <1>11 DEF CreateReport, Finish, Ends, At, Working, RepairSteps
  <1> QED
    BY <1>1, <1>2, <1>3, <1>4, <1>5, <1>6, <1>7, <1>8, <1>9, <1>10, <1>11, <1>12 DEF Diagnose

-----------------------------------------------------------------------------
(***************************************************************************)
(* The slots.  The four kinds of steps add a holder, leave the holders as  *)
(* they are, or take the one out whose slot is given back.                 *)
(***************************************************************************)

\* There are finitely many holders, and they work.
LEMMA HoldersFinite ==
  /\ IsFiniteSet(Holders) /\ Cardinality(Holders) \in Nat
  /\ maxConcurrentDiagnose \in Nat
  <1>1. IsFiniteSet(Request) /\ maxConcurrentDiagnose \in Nat
    BY RateLimitAssumption, DiagnoseAssumption DEF RateLimitAssumption, DiagnoseAssumption
  <1> QED
    BY <1>1, FS_Subset, FS_CardinalityType DEF Holders

\* Handling is being at a working step.
LEMMA HandlingWorks ==
  ASSUME TypeOK, NEW r \in Request
  PROVE  Handling(r) <=> handler[r].at \in Working
  <1>1. handler[r].at \in Steps
    BY DEF TypeOK, Handler
  <1> QED
    BY <1>1 DEF Handling, Steps, Working, RepairSteps

\* What the slots, the types of handlers and the steps of repairs keep.
SlotInv ==
  /\ SlotsAreHeld /\ StepInv
  /\ handler \in [Request -> Handler] /\ slots \in 0 .. maxConcurrentDiagnose

\* Nothing changes for the slots while no handler moves.
LEMMA SlotsKept ==
  ASSUME SlotInv, UNCHANGED <<handler, slots>>
  PROVE  SlotInv'
  <1>1. Holders' = Holders
    BY DEF Holders, Handling
  <1> QED
    BY <1>1 DEF SlotInv, SlotsAreHeld, StepInv

\* One new handler takes one free slot, if it needs one.
LEMMA BeginsSlots ==
  ASSUME TypeOK, SlotInv, NEW r \in Request, Begins(r)
  PROVE  SlotInv'
  <1>1. PICK h \in Handler : /\ h.at = "load" /\ handler' = [handler EXCEPT ![r] = h]
                             /\ IF Repairing(h.verdict)
                                THEN slots < maxConcurrentDiagnose /\ slots' = slots + 1
                                ELSE slots' = slots
    BY DEF Begins
  <1>2. r \notin Holders
    BY DEF Begins, Holders, Handling
  <1>3. handler' \in [Request -> Handler] /\ handler'[r] = h
    BY <1>1 DEF TypeOK
  <1>4. StepInv'
    BY <1>1, <1>3 DEF SlotInv, StepInv, RepairSteps, TypeOK
  <1>5. CASE Repairing(h.verdict)
    <2>1. Holders' = Holders \cup {r}
      BY <1>1, <1>3, <1>5 DEF Holders, Handling, TypeOK
    <2>2. Cardinality(Holders') = Cardinality(Holders) + 1
      BY <1>2, <2>1, HoldersFinite, FS_AddElement
    <2> QED
      BY <1>1, <1>3, <1>4, <1>5, <2>2, HoldersFinite DEF SlotInv, SlotsAreHeld
  <1>6. CASE ~Repairing(h.verdict)
    <2>1. Holders' = Holders
      BY <1>1, <1>2, <1>3, <1>6 DEF Holders, Handling, TypeOK
    <2> QED
      BY <1>1, <1>3, <1>4, <1>6, <2>1 DEF SlotInv, SlotsAreHeld
  <1> QED
    BY <1>5, <1>6

\* A handler that moves on keeps its slot.
LEMMA ProceedsSlots ==
  ASSUME TypeOK, SlotInv, NEW r \in Request, Proceeds(r)
  PROVE  SlotInv'
  <1>1. PICK h \in Handler : /\ h.at \in Working /\ h.verdict = handler[r].verdict
                             /\ h.at \in RepairSteps => Repairing(h.verdict)
                             /\ handler' = [handler EXCEPT ![r] = h]
    BY DEF Proceeds
  <1>2. handler' \in [Request -> Handler] /\ handler'[r] = h
    BY <1>1 DEF TypeOK
  <1>3. Handling(r) /\ Handling(r)'
    BY <1>1, <1>2 DEF Proceeds, Handling, Working, RepairSteps
  <1>4. Holders' = Holders
    BY <1>1, <1>2, <1>3 DEF Holders, Handling, TypeOK
  <1>5. StepInv'
    BY <1>1, <1>2 DEF SlotInv, StepInv, TypeOK
  <1> QED
    BY <1>2, <1>4, <1>5 DEF SlotInv, SlotsAreHeld, Proceeds

\* A handler that ends gives back the slot it has, and none else.
LEMMA EndsSlots ==
  ASSUME TypeOK, SlotInv, NEW r \in Request, Ends(r)
  PROVE  SlotInv'
  <1> DEFINE h == Outside("ended")
  <1>1. h \in Handler /\ h.at = "ended"
    BY DiagnoseAssumption DEF Outside, With, Handler, Steps, DiagnoseAssumption
  <1>2. /\ handler' = [handler EXCEPT ![r] = h] /\ Handling(r)
        /\ slots' = IF Repairing(handler[r].verdict) THEN slots - 1 ELSE slots
    BY HandlingWorks DEF Ends, Return
  <1> HIDE DEF h
  <1>3. handler' \in [Request -> Handler] /\ handler'[r] = h
    BY <1>1, <1>2 DEF TypeOK
  <1>4. StepInv'
    BY <1>1, <1>2, <1>3 DEF SlotInv, StepInv, RepairSteps, TypeOK
  <1>5. Holders' = Holders \ {r}
    BY <1>1, <1>2, <1>3 DEF Holders, Handling, TypeOK
  <1>6. CASE Repairing(handler[r].verdict)
    <2>1. r \in Holders
      BY <1>2, <1>6 DEF Holders
    <2>2. Cardinality(Holders') = Cardinality(Holders) - 1 /\ Cardinality(Holders') \in Nat
      BY <1>5, <2>1, HoldersFinite, FS_RemoveElement, FS_CardinalityType
    <2> QED
      BY <1>2, <1>3, <1>4, <1>6, <2>2, HoldersFinite DEF SlotInv, SlotsAreHeld
  <1>7. CASE ~Repairing(handler[r].verdict)
    <2>1. Holders' = Holders
      BY <1>5, <1>7 DEF Holders
    <2> QED
      BY <1>2, <1>3, <1>4, <1>7, <2>1 DEF SlotInv, SlotsAreHeld
  <1> QED
    BY <1>6, <1>7

\* A request that is turned away never had one.
LEMMA TurnedAwaySlots ==
  ASSUME TypeOK, SlotInv, NEW r \in Request, TurnedAway(r)
  PROVE  SlotInv'
  <1> DEFINE h == [handler[r] EXCEPT !.at = "ended"]
  <1>1. h \in Handler /\ h.at = "ended"
    BY DEF TypeOK, Handler, Steps
  <1>2. handler' = [handler EXCEPT ![r] = h]
    BY DEF TurnedAway, TypeOK
  <1> HIDE DEF h
  <1>3. handler' \in [Request -> Handler] /\ handler'[r] = h
    BY <1>1, <1>2 DEF TypeOK
  <1>4. Holders' = Holders
    BY <1>1, <1>2, <1>3 DEF Holders, Handling, TypeOK, TurnedAway
  <1>5. StepInv'
    BY <1>1, <1>2, <1>3 DEF SlotInv, StepInv, RepairSteps, TypeOK
  <1> QED
    BY <1>3, <1>4, <1>5 DEF SlotInv, SlotsAreHeld, TurnedAway

\* A restart empties the semaphore, and nobody is left who held a slot.
LEMMA RestartSlots ==
  ASSUME TypeOK, SlotInv, Restart
  PROVE  SlotInv'
  <1> DEFINE gone == {r \in Request : \/ Handling(r)
                                      \/ At(r, "none") /\ gate[r] \in {"expire", "passed"}}
             h == Outside("dead")
  <1>1. h \in Handler /\ h.at = "dead"
    BY DiagnoseAssumption DEF Outside, With, Handler, Steps, DiagnoseAssumption
  <1>2. handler' = [r \in Request |-> IF r \in gone THEN h ELSE handler[r]] /\ slots' = 0
    BY DEF Restart
  <1> HIDE DEF h
  <1>3. handler' \in [Request -> Handler]
    BY <1>1, <1>2 DEF TypeOK
  <1>4. \A r \in Request : ~(handler'[r].at \in Working)
    BY <1>1, <1>2, HandlingWorks DEF Working, RepairSteps
  <1>5. Holders' = {} /\ StepInv'
    <2>1. \A r \in Request : handler'[r].at \in {"none", "ended", "dead"}
      <3> SUFFICES ASSUME NEW r \in Request  PROVE handler'[r].at \in {"none", "ended", "dead"}
        OBVIOUS
      <3>1. handler'[r].at \in Steps
        BY <1>3 DEF Handler
      <3> QED
        BY <1>4, <3>1 DEF Steps, Working, RepairSteps
    <2> QED
      BY <2>1, <1>4 DEF Holders, Handling, StepInv, Working
  <1> QED
    BY <1>2, <1>3, <1>5, FS_EmptySet, HoldersFinite DEF SlotInv, SlotsAreHeld

\* Every step keeps the slots right.
LEMMA SlotStep ==
  ASSUME TypeOK, SlotInv, [Next]_vars
  PROVE  SlotInv'
  <1>1. ASSUME NEW r \in Request, \/ LimitStep(r) \/ CheckProblemQuality(r)
                                 \/ ContextEnds(r) \/ WriteTimesOut(r)
        PROVE  SlotInv'
    BY <1>1, SlotsKept DEF LimitStep, diagnoseVars, workVars, CheckProblemQuality, CheckSamples,
       ReportSample, ContextEnds, WriteTimesOut
  <1>2. ASSUME NEW r \in Request, Diagnose(r)  PROVE SlotInv'
    BY <1>2, DiagnoseMoves, BeginsSlots, ProceedsSlots, EndsSlots, TurnedAwaySlots DEF SlotInv
  <1>3. ASSUME NEW f \in reports, DeleteProblemFeedback(f)  PROVE SlotInv'
    BY <1>3, SlotsKept DEF DeleteProblemFeedback, workVars
  <1>4. CASE Clock
    BY <1>4, SlotsKept DEF Clock, diagnoseVars, workVars
  <1>5. CASE Restart
    BY <1>5, RestartSlots
  <1>6. CASE UNCHANGED vars
    BY <1>6, SlotsKept DEF vars, diagnoseVars, workVars
  <1> QED
    BY <1>1, <1>2, <1>3, <1>4, <1>5, <1>6 DEF Next

-----------------------------------------------------------------------------
(***************************************************************************)
(* Type correctness of the diagnosis.                                      *)
(***************************************************************************)

\* The types of what SlotInv says nothing of.
RestType ==
  /\ LimitTypeOK
  /\ problem \in Problem
  /\ over \subseteq Request /\ cut \subseteq Request
  /\ checker \in [Request -> {"none", "spawned", "report", "misreport"}]
  /\ reports \subseteq [kind : {"sample_error", "reference_solution_failure",
                                "suspicious_testdata"}, by : Request, misled : BOOLEAN]
  /\ page \in [Request -> {"running", "broken", "done", "error", "cancelled"}]
  /\ uncounted \in Nat /\ mishaps \in 0 .. MaxMishaps

\* An event leaves the page in one of its phases.
LEMMA ShowType ==
  ASSUME TypeOK, NEW r \in Request, NEW event, Show(r, event) \/ ShowLast(r, event)
  PROVE  page' \in [Request -> {"running", "broken", "done", "error", "cancelled"}]
  BY DEF TypeOK, Show, ShowLast, Heard

\* A handler that ends joins the requests whose context is over.
LEMMA ReturnType ==
  ASSUME TypeOK, NEW r \in Request, Return(r)
  PROVE  over' \subseteq Request
  BY DEF TypeOK, Return

\* A failure of the database stays within its bound.
LEMMA MishapType ==
  ASSUME TypeOK, Mishap
  PROVE  mishaps' \in 0 .. MaxMishaps
  BY DiagnoseAssumption DEF TypeOK, Mishap, DiagnoseAssumption

\* A report is one.
LEMMA ReportType ==
  ASSUME NEW r \in Request, NEW misled \in BOOLEAN,
         NEW kind \in {"sample_error", "reference_solution_failure", "suspicious_testdata"}
  PROVE  /\ Report(kind, r, misled) \in [kind : {"sample_error", "reference_solution_failure",
                                                 "suspicious_testdata"},
                                         by : Request, misled : BOOLEAN]
         /\ Report(kind, r, misled).kind = kind /\ Report(kind, r, misled).misled = misled
  BY DEF Report

\* So is one of suspicious test data.
LEMMA SuspicionType ==
  ASSUME TypeOK, NEW r \in Request
  PROVE  Report("suspicious_testdata", r, handler[r].misled).kind = "suspicious_testdata"
  BY DEF Report

\* Every step of a handler keeps the types.
LEMMA DiagnoseType ==
  ASSUME TypeOK, NEW r \in Request, Diagnose(r)
  PROVE  RestType'
  <1>l. UNCHANGED limitVars => LimitTypeOK'
    BY DEF TypeOK, LimitTypeOK, limitVars
  <1>1. ASSUME NEW v \in Verdict, NEW input \in BOOLEAN, Start(r, v, input)  PROVE RestType'
    BY <1>1, <1>l DEF TypeOK, RestType, Start, tableVars
  <1>2. CASE TurnAway(r)
    BY <1>2, <1>l, ShowType DEF TypeOK, RestType, TurnAway, tableVars
  <1>3. CASE LoadProblem(r)
    BY <1>3, <1>l DEF TypeOK, RestType, LoadProblem, tableVars
  <1>4. CASE ProblemMissing(r)
    BY <1>4, <1>l, ShowType, ReturnType, MishapType DEF TypeOK, RestType, ProblemMissing
  <1>5. ASSUME NEW foreign \in BOOLEAN, Validate(r, foreign)  PROVE RestType'
    <2>1. PICK misled \in BOOLEAN : ReportReference(r, misled)
      BY <1>5 DEF Validate
    <2>2. mishaps' \in 0 .. MaxMishaps
      BY <1>5, MishapType DEF TypeOK, Validate
    <2> QED
      BY <2>1, <2>2, <1>l, ReportType DEF TypeOK, RestType, ReportReference
  <1>6. CASE ValidateInSilence(r)
    BY <1>6, <1>l, MishapType DEF TypeOK, RestType, ValidateInSilence
  <1>7. CASE TestCasesUnreadable(r)
    <2>1. problem.cases \in SUBSET {"storage", "disk", "table"}
      BY DEF TypeOK, Problem
    <2>2. IsFiniteSet({"storage", "disk", "table"})
      <3>1. IsFiniteSet({"storage"})
        BY FS_Singleton
      <3>2. IsFiniteSet({"storage"} \cup {"disk"})
        BY <3>1, FS_AddElement
      <3>3. IsFiniteSet(({"storage"} \cup {"disk"}) \cup {"table"})
        BY <3>2, FS_AddElement
      <3>4. {"storage", "disk", "table"} = ({"storage"} \cup {"disk"}) \cup {"table"}
        OBVIOUS
      <3> QED
        BY <3>3, <3>4
    <2>3. Cardinality(problem.cases) \in Nat
      BY <2>1, <2>2, FS_Subset, FS_CardinalityType
    <2>4. mishaps' \in 0 .. MaxMishaps
      BY <1>7, <2>3 DEF TypeOK, TestCasesUnreadable
    <2>5. ReportReference(r, TRUE)
      BY <1>7 DEF TestCasesUnreadable
    <2> QED
      <3>1. Report("reference_solution_failure", r, TRUE)
              \in [kind : {"sample_error", "reference_solution_failure", "suspicious_testdata"},
                   by : Request, misled : BOOLEAN]
        BY ReportType
      <3> QED
        BY <1>l, <2>4, <2>5, <3>1 DEF TypeOK, RestType, ReportReference
  <1>8. CASE StreamLLM(r)
    BY <1>8, <1>l, ShowType, ReturnType DEF TypeOK, RestType, StreamLLM, tableVars
  <1>9. ASSUME NEW answer \in RepairAnswer, AskForRepair(r, answer)  PROVE RestType'
    BY <1>9, <1>l, ShowType DEF TypeOK, RestType, AskForRepair, tableVars
  <1>10. CASE StopRepairing(r) \/ RunRepaired(r) \/ Hang(r)
    BY <1>10, <1>l DEF TypeOK, RestType, StopRepairing, RunRepaired, Hang, tableVars
  <1>11. ASSUME NEW foreign \in BOOLEAN, Verify(r, foreign)  PROVE RestType'
    <2>1. mishaps' \in 0 .. MaxMishaps
      BY <1>11, MishapType DEF TypeOK, Verify
    <2>2. /\ over' \subseteq Request
          /\ page' \in [Request -> {"running", "broken", "done", "error", "cancelled"}]
      BY <1>11, ShowType, ReturnType DEF TypeOK, Verify, Suspect, Finish
    <2> QED
      BY <1>11, <1>l, <2>1, <2>2 DEF TypeOK, RestType, Verify
  <1>12. CASE CountReports(r)
    <2>1. /\ over' \subseteq Request
          /\ page' \in [Request -> {"running", "broken", "done", "error", "cancelled"}]
      BY <1>12, ShowType, ReturnType DEF TypeOK, CountReports, Finish
    <2>2. uncounted' \in Nat /\ mishaps' \in 0 .. MaxMishaps
      BY <1>12, MishapType DEF TypeOK, CountReports
    <2> QED
      BY <1>12, <1>l, <2>1, <2>2 DEF TypeOK, RestType, CountReports
  <1>13. CASE CreateReport(r)
    <2>1. /\ over' \subseteq Request
          /\ page' \in [Request -> {"running", "broken", "done", "error", "cancelled"}]
      BY <1>13, ShowType, ReturnType DEF CreateReport, Finish
    <2>2. mishaps' \in 0 .. MaxMishaps
      BY <1>13, MishapType DEF TypeOK, CreateReport
    <2>3. Report("suspicious_testdata", r, handler[r].misled)
            \in [kind : {"sample_error", "reference_solution_failure", "suspicious_testdata"},
                 by : Request, misled : BOOLEAN]
      <3>1. handler[r].misled \in BOOLEAN
        BY DEF TypeOK, Handler
      <3> QED
        BY <3>1, ReportType
    <2> HIDE DEF Report
    <2> QED
      BY <1>13, <1>l, <2>1, <2>2, <2>3 DEF TypeOK, RestType, CreateReport
  <1> QED
    BY <1>1, <1>2, <1>3, <1>4, <1>5, <1>6, <1>7, <1>8, <1>9, <1>10, <1>11, <1>12, <1>13
    DEF Diagnose

\* The type invariant of the diagnosis is what SlotInv and RestType say together.
LEMMA TypeParts == SlotInv /\ RestType => TypeOK
  BY DEF SlotInv, RestType, TypeOK

\* Start-up has every variable in its type, and all slots free.
LEMMA InitInv == Init => TypeOK /\ SlotInv
  <1> SUFFICES ASSUME Init  PROVE TypeOK /\ SlotInv
    OBVIOUS
  <1>1. /\ Window \in Nat \ {0} /\ MaxFaults \in Nat /\ MaxRestarts \in Nat
        /\ maxConcurrentDiagnose \in Nat /\ maxRepairAttempts \in Nat /\ MaxMishaps \in Nat
        /\ problem \in Problem
    BY RateLimitAssumption, DiagnoseAssumption DEF RateLimitAssumption, DiagnoseAssumption, Init
  <1>2. LimitTypeOK
    BY <1>1 DEF Init, LimitInit, LimitTypeOK
  <1>3. Outside("none") \in Handler /\ Outside("none").at = "none"
    BY <1>1 DEF Outside, With, Handler, Steps
  <1>4. handler \in [Request -> Handler] /\ StepInv
    BY <1>3 DEF Init, StepInv, RepairSteps
  <1>5. Holders = {}
    BY <1>3 DEF Init, Holders, Handling
  <1>6. SlotInv
    BY <1>1, <1>4, <1>5, FS_EmptySet DEF Init, SlotInv, SlotsAreHeld
  <1>7. RestType
    BY <1>1, <1>2 DEF Init, RestType
  <1> QED
    BY <1>6, <1>7, TypeParts

\* Every step keeps every variable in its type.
LEMMA TypeStep ==
  ASSUME TypeOK, SlotInv, [Next]_vars
  PROVE  TypeOK' /\ SlotInv'
  <1>l. UNCHANGED limitVars => LimitTypeOK'
    BY DEF TypeOK, LimitTypeOK, limitVars
  <1> SUFFICES RestType'
    BY SlotStep DEF SlotInv, RestType, TypeOK
  <1>1. ASSUME NEW r \in Request, LimitStep(r)  PROVE RestType'
    BY <1>1, LimiterType DEF TypeOK, RestType, LimitStep, diagnoseVars, workVars, tableVars
  <1>2. ASSUME NEW r \in Request, Diagnose(r)  PROVE RestType'
    BY <1>2, DiagnoseType
  <1>3. ASSUME NEW r \in Request, CheckSamples(r)  PROVE RestType'
    <2>1. mishaps' \in 0 .. MaxMishaps
      BY <1>3, MishapType DEF TypeOK, CheckSamples
    <2>2. checker' \in [Request -> {"none", "spawned", "report", "misreport"}]
      BY <1>3 DEF TypeOK, CheckSamples
    <2> QED
      BY <1>3, <1>l, <2>1, <2>2 DEF TypeOK, RestType, CheckSamples, workVars
  <1>4. ASSUME NEW r \in Request, ReportSample(r)  PROVE RestType'
    <2>1. mishaps' \in 0 .. MaxMishaps
      BY <1>4, MishapType DEF TypeOK, ReportSample
    <2>2. reports' \subseteq [kind : {"sample_error", "reference_solution_failure",
                                     "suspicious_testdata"}, by : Request, misled : BOOLEAN]
      <3>1. Report("sample_error", r, checker[r] = "misreport")
              \in [kind : {"sample_error", "reference_solution_failure", "suspicious_testdata"},
                   by : Request, misled : BOOLEAN]
        BY ReportType
      <3> HIDE DEF Report
      <3> QED
        <4>1. \/ reports' = reports
              \/ reports' = reports \cup {Report("sample_error", r, checker[r] = "misreport")}
          BY <1>4 DEF ReportSample
        <4> QED
          BY <3>1, <4>1 DEF TypeOK
    <2>3. LimitTypeOK' /\ checker' \in [Request -> {"none", "spawned", "report", "misreport"}]
      <3>1. LimitTypeOK'
        BY <1>4, <1>l DEF ReportSample
      <3>2. checker' \in [Request -> {"none", "spawned", "report", "misreport"}]
        <4>1. checker \in [Request -> {"none", "spawned", "report", "misreport"}]
          BY DEF TypeOK
        <4> QED
          BY <1>4, <4>1 DEF ReportSample
      <3> QED
        BY <3>1, <3>2
    <2> QED
      BY <1>4, <2>1, <2>2, <2>3 DEF TypeOK, RestType, ReportSample, workVars
  <1>5. ASSUME NEW r \in Request, ContextEnds(r)  PROVE RestType'
    BY <1>5, <1>l DEF TypeOK, RestType, ContextEnds, tableVars
  <1>10. ASSUME NEW r \in Request, WriteTimesOut(r)  PROVE RestType'
    BY <1>10, <1>l DEF TypeOK, RestType, WriteTimesOut, tableVars
  <1>6. ASSUME NEW f \in reports, DeleteProblemFeedback(f)  PROVE RestType'
    BY <1>6, <1>l DEF TypeOK, RestType, DeleteProblemFeedback, workVars
  <1>7. CASE Clock
    <2>1. LimitTypeOK'
      BY <1>7, TickType DEF TypeOK, Clock
    <2> QED
      BY <1>7, <2>1 DEF TypeOK, RestType, Clock, diagnoseVars, workVars, tableVars
  <1>8. CASE Restart
    <2>1. page' \in [Request -> {"running", "broken", "done", "error", "cancelled"}]
      BY <1>8 DEF TypeOK, Restart
    <2>2. LimitTypeOK'
      BY <1>8, LimitRestartType DEF TypeOK, Restart
    <2>3. checker' \in [Request -> {"none", "spawned", "report", "misreport"}]
      BY <1>8 DEF Restart
    <2> QED
      BY <1>8, <2>1, <2>2, <2>3 DEF TypeOK, RestType, Restart, tableVars
  <1>9. CASE UNCHANGED vars
    BY <1>9, <1>l DEF TypeOK, RestType, vars, diagnoseVars, workVars, tableVars
  <1> QED
    BY <1>1, <1>2, <1>3, <1>4, <1>5, <1>6, <1>7, <1>8, <1>9, <1>10 DEF Next, CheckProblemQuality

\* The type invariant of the diagnosis and its limiter.
THEOREM DiagnoseTypes == Spec => []TypeOK
  <1>1. TypeOK /\ SlotInv /\ [Next]_vars => (TypeOK /\ SlotInv)'
    BY TypeStep
  <1> QED
    BY InitInv, <1>1, PTL DEF Spec

\* For any number of requests and slots, the semaphore of AIDiagnoseHandler counts the
\* WA and RE diagnoses under way (SlotsAreHeld of AIDiagnose).
THEOREM SlotsCounted == Spec => []SlotsAreHeld
  <1>1. TypeOK /\ SlotInv /\ [Next]_vars => (TypeOK /\ SlotInv)'
    BY TypeStep
  <1>2. SlotInv => SlotsAreHeld
    BY DEF SlotInv
  <1> QED
    BY InitInv, <1>1, <1>2, PTL DEF Spec

-----------------------------------------------------------------------------
(***************************************************************************)
(* Duplicates.  The handlers that have found no report pending and are     *)
(* about to create one count as if they had: each of them holds a slot.    *)
(***************************************************************************)

Creating == {r \in Request : handler[r].at = "create"}

DuplicatesInv ==
  /\ IsFiniteSet(Suspicions)
  /\ Cardinality(Suspicions) + Cardinality(Creating) <= maxConcurrentDiagnose + uncounted

\* Whoever creates a report holds a slot.
LEMMA CreatorsHold ==
  ASSUME TypeOK, SlotInv
  PROVE  /\ IsFiniteSet(Creating) /\ Cardinality(Creating) \in Nat
         /\ Creating \subseteq Holders
         /\ Cardinality(Creating) <= maxConcurrentDiagnose
         /\ \A r \in Holders \ Creating : Cardinality(Creating) + 1 <= maxConcurrentDiagnose
  <1>1. Creating \subseteq Holders
    <2> SUFFICES ASSUME NEW r \in Creating  PROVE r \in Holders
      OBVIOUS
    <2>1. Repairing(handler[r].verdict) /\ handler[r].at \in Working
      BY DEF Creating, SlotInv, StepInv, Working, RepairSteps
    <2> QED
      BY <2>1, HandlingWorks DEF Creating, Holders
  <1>2. /\ IsFiniteSet(Creating) /\ Cardinality(Creating) \in Nat
        /\ Cardinality(Creating) <= Cardinality(Holders)
    BY <1>1, HoldersFinite, FS_Subset, FS_CardinalityType
  <1>3. Cardinality(Holders) <= maxConcurrentDiagnose
    BY DEF SlotInv, SlotsAreHeld
  <1>4. ASSUME NEW r \in Holders \ Creating  PROVE Cardinality(Creating) + 1 <= Cardinality(Holders)
    <2>1. Creating \cup {r} \subseteq Holders
      BY <1>1, <1>4
    <2>2. Cardinality(Creating \cup {r}) = Cardinality(Creating) + 1
      BY <1>2, <1>4, FS_AddElement
    <2>3. Cardinality(Creating \cup {r}) <= Cardinality(Holders)
      BY <2>1, HoldersFinite, FS_Subset
    <2> QED
      BY <2>2, <2>3
  <1> QED
    BY <1>1, <1>2, <1>3, <1>4, HoldersFinite

\* With no more reports and no more creators than before the bound stays.
LEMMA FewerDuplicates ==
  ASSUME TypeOK, SlotInv, DuplicatesInv, Suspicions' \subseteq Suspicions,
         Creating' \subseteq Creating, uncounted' = uncounted
  PROVE  DuplicatesInv'
  <1>1. /\ IsFiniteSet(Suspicions') /\ Cardinality(Suspicions') \in Nat
        /\ Cardinality(Suspicions') <= Cardinality(Suspicions) /\ Cardinality(Suspicions) \in Nat
    BY FS_Subset, FS_CardinalityType DEF DuplicatesInv
  <1>2. /\ Cardinality(Creating') \in Nat /\ Cardinality(Creating') <= Cardinality(Creating)
        /\ Cardinality(Creating) \in Nat
    BY CreatorsHold, FS_Subset, FS_CardinalityType
  <1>3. uncounted \in Nat /\ maxConcurrentDiagnose \in Nat
    BY HoldersFinite DEF TypeOK
  <1> QED
    BY <1>1, <1>2, <1>3 DEF DuplicatesInv

\* A handler that ends is no creator any more.
LEMMA EndsCreating ==
  ASSUME TypeOK, NEW r \in Request, Return(r)
  PROVE  Creating' = Creating \ {r}
  <1>1. handler'[r].at = "ended"
    BY DEF Return, Outside, With, TypeOK
  <1>2. \A q \in Request \ {r} : handler'[q] = handler[q]
    BY DEF Return, TypeOK
  <1> QED
    BY <1>1, <1>2 DEF Creating

\* One that goes to another step is none either.
LEMMA GoToCreating ==
  ASSUME TypeOK, NEW r \in Request, NEW st, GoTo(r, st)
  PROVE  Creating' = IF st = "create" THEN Creating \cup {r} ELSE Creating \ {r}
  <1>1. handler'[r].at = st
    BY DEF GoTo, TypeOK, Handler
  <1>2. \A q \in Request \ {r} : handler'[q] = handler[q]
    BY DEF GoTo, TypeOK
  <1> QED
    BY <1>1, <1>2 DEF Creating

\* Nor one that suspects the test data.
LEMMA SuspectSeen ==
  ASSUME TypeOK, NEW r \in Request, NEW misled, Suspect(r, misled)
  PROVE  /\ handler'[r].at = "count" /\ handler'[r].misled = misled
         /\ \A q \in Request \ {r} : handler'[q] = handler[q]
  BY DEF Suspect, TypeOK, Handler

\* Nor one that tries again.
LEMMA NextAttemptCreating ==
  ASSUME TypeOK, StepInv, NEW r \in Request, NextAttempt(r), At(r, "repair") \/ At(r, "sandbox"),
         slots' = slots
  PROVE  Creating' \subseteq Creating
  <1>1. handler'[r].at \in {"repair", "verify"}
    BY NextAttemptMoves DEF At, RepairSteps
  <1>2. \A q \in Request \ {r} : handler'[q] = handler[q]
    BY DEF NextAttempt, GoTo, TypeOK
  <1> QED
    BY <1>1, <1>2 DEF Creating

\* A report of another kind is not one of suspicious test data.
LEMMA OtherReport ==
  ASSUME NEW r \in Request, NEW misled \in BOOLEAN,
         NEW kind \in {"sample_error", "reference_solution_failure"},
         reports' = reports \cup {Report(kind, r, misled)}
  PROVE  Suspicions' = Suspicions
  BY ReportType DEF Suspicions

\* Every step of a handler keeps the bound.
LEMMA DiagnoseDuplicates ==
  ASSUME TypeOK, SlotInv, DuplicatesInv, NEW r \in Request, Diagnose(r)
  PROVE  DuplicatesInv'
  <1>k. reports' = reports => Suspicions' = Suspicions
    BY DEF Suspicions
  <1>1. ASSUME NEW v \in Verdict, NEW input \in BOOLEAN, Start(r, v, input)  PROVE DuplicatesInv'
    <2>1. handler'[r].at = "load" /\ \A q \in Request \ {r} : handler'[q] = handler[q]
      BY <1>1 DEF Start, With, TypeOK
    <2> QED
      BY <1>1, <1>k, <2>1, FewerDuplicates DEF Start, tableVars, Creating
  <1>2. CASE TurnAway(r)
    BY <1>2, <1>k, GoToCreating, FewerDuplicates DEF TurnAway, tableVars
  <1>3. CASE LoadProblem(r)
    <2>1. FirstStep(handler[r].verdict) \in {"repair", "validate", "stream"}
      BY DEF FirstStep
    <2>2. /\ handler'[r].at = FirstStep(handler[r].verdict)
          /\ \A q \in Request \ {r} : handler'[q] = handler[q]
      BY <1>3 DEF LoadProblem, TypeOK, Handler
    <2> QED
      BY <1>3, <1>k, <2>1, <2>2, FewerDuplicates DEF LoadProblem, tableVars, Creating
  <1>4. CASE ProblemMissing(r) \/ StreamLLM(r)
    BY <1>4, <1>k, EndsCreating, FewerDuplicates DEF ProblemMissing, StreamLLM, tableVars
  <1>5. CASE TestCasesUnreadable(r) \/ \E foreign \in BOOLEAN : Validate(r, foreign)
    <2>1. PICK misled \in BOOLEAN : ReportReference(r, misled)
      BY <1>5 DEF TestCasesUnreadable, Validate
    <2>2. Suspicions' = Suspicions
      BY <2>1, OtherReport DEF ReportReference
    <2> QED
      BY <2>1, <2>2, GoToCreating, FewerDuplicates DEF ReportReference
  <1>6. CASE ValidateInSilence(r)
    BY <1>6, <1>k, GoToCreating, FewerDuplicates DEF ValidateInSilence
  <1>7. ASSUME NEW answer \in RepairAnswer, AskForRepair(r, answer)  PROVE DuplicatesInv'
    <2>1. Creating' \subseteq Creating
      BY <1>7, GoToCreating, NextAttemptCreating DEF AskForRepair, SlotInv
    <2> QED
      BY <1>7, <1>k, <2>1, FewerDuplicates DEF AskForRepair, tableVars
  <1>8. CASE StopRepairing(r) \/ RunRepaired(r) \/ Hang(r)
    <2>1. Creating' \subseteq Creating
      BY <1>8, GoToCreating, NextAttemptCreating DEF StopRepairing, RunRepaired, Hang, SlotInv
    <2> QED
      BY <1>8, <1>k, <2>1, FewerDuplicates DEF StopRepairing, RunRepaired, Hang, tableVars
  <1>9. ASSUME NEW foreign \in BOOLEAN, Verify(r, foreign)  PROVE DuplicatesInv'
    <2>1. Creating' \subseteq Creating
      <3>1. CASE Return(r)
        BY <3>1, EndsCreating
      <3>2. ASSUME NEW misled, Suspect(r, misled)  PROVE Creating' \subseteq Creating
        BY <3>2, SuspectSeen DEF Creating
      <3> QED
        BY <1>9, <3>1, <3>2 DEF Verify, Finish
    <2> QED
      BY <1>9, <1>k, <2>1, FewerDuplicates DEF Verify
  <1>10. CASE CountReports(r)
    <2>1. r \in Holders \ Creating
      <3>1. handler[r].at = "count"
        BY <1>10 DEF CountReports, At
      <3> QED
        BY <3>1, HandlingWorks DEF Holders, Creating, SlotInv, StepInv, Working, RepairSteps
    <2>2. Cardinality(Creating) + 1 <= maxConcurrentDiagnose
      BY <2>1, CreatorsHold
    <2>3. Suspicions' = Suspicions
      BY <1>10, <1>k DEF CountReports
    <2>4. /\ Cardinality(Creating) \in Nat /\ Cardinality(Suspicions) \in Nat
          /\ uncounted \in Nat /\ maxConcurrentDiagnose \in Nat
      BY CreatorsHold, HoldersFinite, FS_CardinalityType DEF DuplicatesInv, TypeOK
    <2>5. GoTo(r, "create") => Cardinality(Creating') = Cardinality(Creating) + 1
      BY <2>1, GoToCreating, CreatorsHold, FS_AddElement
    <2>6. CASE Finish(r) /\ uncounted' = uncounted
      BY <2>3, <2>6, EndsCreating, FewerDuplicates DEF Finish
    <2>7. CASE Suspicions = {} /\ GoTo(r, "create") /\ uncounted' = uncounted
      <3>1. Cardinality(Suspicions') = 0 /\ IsFiniteSet(Suspicions')
        BY <2>3, <2>7, FS_EmptySet
      <3> QED
        BY <2>2, <2>4, <2>5, <2>7, <3>1 DEF DuplicatesInv
    <2>8. CASE GoTo(r, "create") /\ uncounted' = uncounted + 1
      BY <2>3, <2>4, <2>5, <2>8 DEF DuplicatesInv
    <2> QED
      BY <1>10, <2>6, <2>7, <2>8 DEF CountReports
  <1>11. CASE CreateReport(r)
    <2>1. r \in Creating /\ Return(r) /\ uncounted' = uncounted
      BY <1>11 DEF CreateReport, Creating, At, Finish
    <2>2. Cardinality(Creating') = Cardinality(Creating) - 1 /\ Cardinality(Creating) \in Nat
      BY <2>1, EndsCreating, CreatorsHold, FS_RemoveElement
    <2>3. CASE reports' = reports
      BY <1>k, <2>1, <2>3, EndsCreating, FewerDuplicates
    <2>4. CASE reports' = reports \cup {Report("suspicious_testdata", r, handler[r].misled)}
      <3>1. Suspicions' = Suspicions \cup {Report("suspicious_testdata", r, handler[r].misled)}
        BY <2>4, SuspicionType DEF Suspicions
      <3>2. IsFiniteSet(Suspicions') /\ Cardinality(Suspicions') <= Cardinality(Suspicions) + 1
        <4>1. IsFiniteSet(Suspicions) /\ Cardinality(Suspicions) \in Nat
          BY FS_CardinalityType DEF DuplicatesInv
        <4>2. PICK f : f = Report("suspicious_testdata", r, handler[r].misled)
          OBVIOUS
        <4>3. /\ IsFiniteSet(Suspicions \cup {f})
              /\ Cardinality(Suspicions \cup {f}) = IF f \in Suspicions THEN Cardinality(Suspicions)
                                                    ELSE Cardinality(Suspicions) + 1
          BY <4>1, FS_AddElement
        <4>4. Suspicions' = Suspicions \cup {f}
          BY <3>1, <4>2
        <4> QED
          BY <4>1, <4>3, <4>4
      <3>3. /\ Cardinality(Suspicions) \in Nat /\ Cardinality(Suspicions') \in Nat
            /\ uncounted \in Nat /\ maxConcurrentDiagnose \in Nat
        BY <3>2, HoldersFinite, FS_CardinalityType DEF DuplicatesInv, TypeOK
      <3> QED
        BY <2>1, <2>2, <3>2, <3>3 DEF DuplicatesInv
    <2> QED
      BY <1>11, <2>3, <2>4 DEF CreateReport
  <1> QED
    BY <1>1, <1>2, <1>3, <1>4, <1>5, <1>6, <1>7, <1>8, <1>9, <1>10, <1>11 DEF Diagnose

\* Every step keeps the bound.
LEMMA DuplicatesStep ==
  ASSUME TypeOK, SlotInv, DuplicatesInv, [Next]_vars
  PROVE  DuplicatesInv'
  <1>k. UNCHANGED <<handler, reports, uncounted>> => DuplicatesInv'
    BY FewerDuplicates DEF Suspicions, Creating
  <1>1. ASSUME NEW r \in Request, \/ LimitStep(r) \/ CheckSamples(r)
                                 \/ ContextEnds(r) \/ WriteTimesOut(r)
        PROVE  DuplicatesInv'
    BY <1>1, <1>k DEF LimitStep, diagnoseVars, workVars, tableVars, CheckSamples, ContextEnds,
       WriteTimesOut
  <1>2. ASSUME NEW r \in Request, Diagnose(r)  PROVE DuplicatesInv'
    BY <1>2, DiagnoseDuplicates
  <1>3. ASSUME NEW r \in Request, ReportSample(r)  PROVE DuplicatesInv'
    <2>1. Suspicions' = Suspicions
      <3>1. CASE reports' = reports
        BY <3>1 DEF Suspicions
      <3>2. CASE reports' = reports \cup {Report("sample_error", r, checker[r] = "misreport")}
        BY <3>2, OtherReport
      <3> QED
        BY <1>3, <3>1, <3>2 DEF ReportSample
    <2>2. Creating' = Creating /\ uncounted' = uncounted
      BY <1>3 DEF ReportSample, workVars, Creating
    <2> QED
      BY <2>1, <2>2, FewerDuplicates
  <1>4. ASSUME NEW f \in reports, DeleteProblemFeedback(f)  PROVE DuplicatesInv'
    <2>1. Suspicions' \subseteq Suspicions /\ Creating' = Creating /\ uncounted' = uncounted
      BY <1>4 DEF DeleteProblemFeedback, workVars, Creating, Suspicions
    <2> QED
      BY <2>1, FewerDuplicates
  <1>5. CASE Clock
    BY <1>5, <1>k DEF Clock, diagnoseVars, workVars, tableVars
  <1>6. CASE Restart
    <2>1. \A r \in Request : handler'[r] = Outside("dead") \/ handler'[r] = handler[r]
      BY <1>6 DEF Restart
    <2>2. Creating' \subseteq Creating
      BY <2>1 DEF Creating, Outside, With
    <2>3. Suspicions' = Suspicions /\ uncounted' = uncounted
      BY <1>6 DEF Restart, tableVars, Suspicions
    <2> QED
      BY <2>2, <2>3, FewerDuplicates
  <1>7. CASE UNCHANGED vars
    BY <1>7, <1>k DEF vars, diagnoseVars, workVars, tableVars
  <1> QED
    BY <1>1, <1>2, <1>3, <1>4, <1>5, <1>6, <1>7 DEF Next, CheckProblemQuality

\* However many diagnoses overlap, there are no more pending reports of suspicious test
\* data than slots and failed counts (DuplicatesBounded of AIDiagnose).
THEOREM DuplicatesLimited == Spec => []DuplicatesBounded
  <1>1. Init => DuplicatesInv
    <2> SUFFICES ASSUME Init  PROVE DuplicatesInv
      OBVIOUS
    <2>1. Suspicions = {} /\ uncounted = 0
      BY DEF Init, Suspicions
    <2>2. Creating = {}
      BY DEF Init, Creating, Outside, With
    <2> QED
      BY <2>1, <2>2, FS_EmptySet, HoldersFinite DEF DuplicatesInv
  <1>2. TypeOK /\ SlotInv /\ DuplicatesInv /\ [Next]_vars => (TypeOK /\ SlotInv /\ DuplicatesInv)'
    BY TypeStep, DuplicatesStep
  <1>3. TypeOK /\ SlotInv /\ DuplicatesInv => DuplicatesBounded
    <2> SUFFICES ASSUME TypeOK, SlotInv, DuplicatesInv  PROVE DuplicatesBounded
      OBVIOUS
    <2>1. Cardinality(Suspicions) \in Nat /\ Cardinality(Creating) \in Nat
      BY CreatorsHold, FS_CardinalityType DEF DuplicatesInv
    <2> QED
      BY <2>1, HoldersFinite DEF DuplicatesInv, DuplicatesBounded, TypeOK
  <1> QED
    BY InitInv, <1>1, <1>2, <1>3, PTL DEF Spec

-----------------------------------------------------------------------------
(***************************************************************************)
(* What the reports say.  A handler that counts or creates, and a checker  *)
(* that reports, has seen what its report will say.                        *)
(***************************************************************************)

SeenInv ==
  /\ ReportsAreTrue
  /\ \A r \in Request :
       /\ handler[r].at \in {"count", "create"}
            => handler[r].misled \/ ~problem.failing \/ ~problem.known
       /\ checker[r] = "report" => problem.sample # "same" \/ ~problem.known

\* With no new report, no new suspicion and nothing new to report all stays true.
LEMMA SeenKept ==
  ASSUME SeenInv, reports' \subseteq reports, problem' = problem,
         \A r \in Request :
           /\ handler'[r].at \in {"count", "create"}
                => handler[r].at \in {"count", "create"} /\ handler'[r].misled = handler[r].misled
           /\ checker'[r] = "report" => checker[r] = "report"
  PROVE  SeenInv'
  BY DEF SeenInv, ReportsAreTrue

\* Where a step leads the handler it is of, and no other.
LEMMA GoToSeen ==
  ASSUME TypeOK, NEW r \in Request, NEW st, GoTo(r, st)
  PROVE  /\ handler'[r].at = st /\ handler'[r].misled = handler[r].misled
         /\ \A q \in Request \ {r} : handler'[q] = handler[q]
  BY DEF GoTo, TypeOK, Handler

LEMMA ReturnSeen ==
  ASSUME TypeOK, NEW r \in Request, Return(r)
  PROVE  handler'[r].at = "ended" /\ \A q \in Request \ {r} : handler'[q] = handler[q]
  BY DEF Return, Outside, With, TypeOK

LEMMA NextAttemptSeen ==
  ASSUME TypeOK, NEW r \in Request, NextAttempt(r)
  PROVE  /\ handler'[r].at \in {"repair", "verify"}
         /\ \A q \in Request \ {r} : handler'[q] = handler[q]
  BY DEF NextAttempt, GoTo, TypeOK, Handler

\* Every step of a handler keeps the reports true.
LEMMA DiagnoseSeen ==
  ASSUME TypeOK, SeenInv, NEW r \in Request, Diagnose(r)
  PROVE  SeenInv'
  <1>c. UNCHANGED checker => \A q \in Request : checker'[q] = "report" => checker[q] = "report"
    OBVIOUS
  <1>1. ASSUME NEW v \in Verdict, NEW input \in BOOLEAN, Start(r, v, input)  PROVE SeenInv'
    <2>1. handler'[r].at = "load" /\ \A q \in Request \ {r} : handler'[q] = handler[q]
      BY <1>1 DEF Start, With, TypeOK
    <2> QED
      BY <1>1, <2>1, SeenKept DEF Start, tableVars
  <1>2. CASE TurnAway(r)
    BY <1>2, GoToSeen, SeenKept DEF TurnAway, tableVars
  <1>3. CASE LoadProblem(r)
    <2>1. FirstStep(handler[r].verdict) \in {"repair", "validate", "stream"}
      BY DEF FirstStep
    <2>2. /\ handler'[r].at = FirstStep(handler[r].verdict)
          /\ \A q \in Request \ {r} : handler'[q] = handler[q]
      BY <1>3 DEF LoadProblem, TypeOK, Handler
    <2>3. \A q \in Request : checker'[q] = "report" => checker[q] = "report"
      BY <1>3 DEF LoadProblem, TypeOK
    <2> QED
      BY <1>3, <2>1, <2>2, <2>3, SeenKept DEF LoadProblem, tableVars
  <1>4. CASE ProblemMissing(r) \/ StreamLLM(r)
    BY <1>4, ReturnSeen, SeenKept DEF ProblemMissing, StreamLLM, tableVars
  <1>5. CASE TestCasesUnreadable(r) \/ \E foreign \in BOOLEAN : Validate(r, foreign)
    <2>1. PICK misled \in BOOLEAN : ReportReference(r, misled) /\ (misled \/ ~problem.data)
      BY <1>5 DEF TestCasesUnreadable, Validate
    <2>2. ReportsAreTrue'
      BY <2>1, ReportType DEF ReportReference, ReportsAreTrue, SeenInv
    <2>3. handler'[r].at = "stream" /\ \A q \in Request \ {r} : handler'[q] = handler[q]
      BY <2>1, GoToSeen DEF ReportReference
    <2> QED
      BY <2>1, <2>2, <2>3 DEF ReportReference, SeenInv
  <1>6. CASE ValidateInSilence(r)
    BY <1>6, GoToSeen, SeenKept DEF ValidateInSilence
  <1>7. ASSUME NEW answer \in RepairAnswer, AskForRepair(r, answer)  PROVE SeenInv'
    BY <1>7, GoToSeen, NextAttemptSeen, SeenKept DEF AskForRepair, tableVars
  <1>8. CASE StopRepairing(r) \/ RunRepaired(r) \/ Hang(r)
    BY <1>8, GoToSeen, NextAttemptSeen, SeenKept DEF StopRepairing, RunRepaired, Hang, tableVars
  <1>9. ASSUME NEW foreign \in BOOLEAN, Verify(r, foreign)  PROVE SeenInv'
    <2>0. UNCHANGED <<problem, checker, reports>>
      BY <1>9 DEF Verify
    <2>1. CASE Return(r)
      BY <2>0, <2>1, ReturnSeen, SeenKept
    <2>2. ASSUME NEW misled \in BOOLEAN, Suspect(r, misled), misled \/ ReferenceFails(foreign)
          PROVE  SeenInv'
      <3>1. problem.known \in BOOLEAN /\ problem.failing \in BOOLEAN
        BY DEF TypeOK, Problem
      <3>2. misled \/ ~problem.failing \/ ~problem.known
        BY <2>2, <3>1 DEF ReferenceFails
      <3> QED
        BY <2>0, <2>2, <3>2, SuspectSeen DEF SeenInv, ReportsAreTrue
    <2> QED
      BY <1>9, <2>1, <2>2 DEF Verify, Finish
  <1>10. CASE CountReports(r)
    <2>1. handler[r].at = "count" /\ (Return(r) \/ GoTo(r, "create"))
      BY <1>10 DEF CountReports, At, Finish
    <2> QED
      BY <1>10, <2>1, GoToSeen, ReturnSeen, SeenKept DEF CountReports
  <1>11. CASE CreateReport(r)
    <2>1. /\ Return(r) /\ problem' = problem /\ checker' = checker
          /\ handler[r].misled \/ ~problem.failing \/ ~problem.known
      BY <1>11 DEF CreateReport, Finish, At, SeenInv
    <2>2. ReportsAreTrue'
      <3>1. /\ Report("suspicious_testdata", r, handler[r].misled).kind = "suspicious_testdata"
            /\ Report("suspicious_testdata", r, handler[r].misled).misled = handler[r].misled
        BY DEF Report
      <3> QED
        BY <1>11, <2>1, <3>1 DEF CreateReport, ReportsAreTrue, SeenInv
    <2> QED
      BY <2>1, <2>2, ReturnSeen DEF SeenInv
  <1> QED
    BY <1>1, <1>2, <1>3, <1>4, <1>5, <1>6, <1>7, <1>8, <1>9, <1>10, <1>11 DEF Diagnose

\* Every step keeps the reports true.
LEMMA SeenStep ==
  ASSUME TypeOK, SeenInv, [Next]_vars
  PROVE  SeenInv'
  <1>k. UNCHANGED <<problem, handler, checker, reports>> => SeenInv'
    BY DEF SeenInv, ReportsAreTrue
  <1>1. ASSUME NEW r \in Request, LimitStep(r) \/ ContextEnds(r) \/ WriteTimesOut(r)
        PROVE  SeenInv'
    BY <1>1, <1>k DEF LimitStep, diagnoseVars, workVars, tableVars, ContextEnds, WriteTimesOut
  <1>2. ASSUME NEW r \in Request, Diagnose(r)  PROVE SeenInv'
    BY <1>2, DiagnoseSeen
  <1>3. ASSUME NEW r \in Request, CheckSamples(r)  PROVE SeenInv'
    <2>1. problem.known \in BOOLEAN
      BY DEF TypeOK, Problem
    <2>2. checker'[r] = "report" => problem.sample # "same" \/ ~problem.known
      BY <1>3, <2>1 DEF CheckSamples, TypeOK
    <2>3. \A q \in Request \ {r} : checker'[q] = checker[q]
      BY <1>3 DEF CheckSamples, TypeOK
    <2> QED
      BY <1>3, <2>2, <2>3 DEF CheckSamples, workVars, tableVars, SeenInv, ReportsAreTrue
  <1>4. ASSUME NEW r \in Request, ReportSample(r)  PROVE SeenInv'
    <2>1. /\ problem' = problem /\ handler' = handler
          /\ checker[r] = "misreport" \/ problem.sample # "same" \/ ~problem.known
      BY <1>4 DEF ReportSample, workVars, SeenInv
    <2>2. ReportsAreTrue'
      <3>1. /\ Report("sample_error", r, checker[r] = "misreport").kind = "sample_error"
            /\ Report("sample_error", r, checker[r] = "misreport").misled
                 <=> checker[r] = "misreport"
        BY DEF Report
      <3> QED
        BY <1>4, <2>1, <3>1 DEF ReportSample, ReportsAreTrue, SeenInv
    <2>3. \A q \in Request : checker'[q] = "report" => checker[q] = "report"
      BY <1>4 DEF ReportSample, TypeOK
    <2> QED
      BY <2>1, <2>2, <2>3 DEF SeenInv
  <1>5. ASSUME NEW f \in reports, DeleteProblemFeedback(f)  PROVE SeenInv'
    BY <1>5 DEF DeleteProblemFeedback, workVars, SeenInv, ReportsAreTrue
  <1>6. CASE Clock
    BY <1>6, <1>k DEF Clock, diagnoseVars, workVars, tableVars
  <1>7. CASE Restart
    <2>1. \A r \in Request : handler'[r] = Outside("dead") \/ handler'[r] = handler[r]
      BY <1>7 DEF Restart
    <2>2. \A r \in Request : handler'[r].at \in {"count", "create"} => handler'[r] = handler[r]
      BY <2>1 DEF Outside, With
    <2> QED
      BY <1>7, <2>2, SeenKept DEF Restart, tableVars
  <1>8. CASE UNCHANGED vars
    BY <1>8, <1>k DEF vars, diagnoseVars, workVars, tableVars
  <1> QED
    BY <1>1, <1>2, <1>3, <1>4, <1>5, <1>6, <1>7, <1>8 DEF Next, CheckProblemQuality

\* Whatever overlaps or fails, a report is true of its problem, but for the named causes
\* (ReportsAreTrue of AIDiagnose).
THEOREM ReportsTrue == Spec => []ReportsAreTrue
  <1>1. Init => SeenInv
    BY DEF Init, Outside, With, SeenInv, ReportsAreTrue
  <1>2. TypeOK /\ SlotInv /\ SeenInv /\ [Next]_vars => (TypeOK /\ SlotInv /\ SeenInv)'
    BY TypeStep, SeenStep
  <1>3. SeenInv => ReportsAreTrue
    BY DEF SeenInv
  <1> QED
    BY InitInv, <1>1, <1>2, <1>3, PTL DEF Spec

-----------------------------------------------------------------------------
(***************************************************************************)
(* The page.  PageLearnsEnd is inductive: a step that ends a handler shows *)
(* the end, and no later step takes it back.                               *)
(***************************************************************************)

\* After the last event the page shows an end, if the event is one of the two.
LEMMA ShowEnds ==
  ASSUME TypeOK, NEW r \in Request, NEW event, ShowLast(r, event)
  PROVE  /\ event \in {"done", "error"} => page'[r] \notin {"running", "broken"}
         /\ \A q \in Request \ {r} : page'[q] = page[q]
  BY DEF ShowLast, Heard, TypeOK

\* Any other event changes the one page too.
LEMMA ShowOne ==
  ASSUME TypeOK, NEW r \in Request, NEW event, Show(r, event)
  PROVE  \A q \in Request \ {r} : page'[q] = page[q]
  BY DEF Show, TypeOK

\* It is enough that the one handler that moves ends with its page, or does not end.
LEMMA OnePage ==
  ASSUME PageLearnsEnd, NEW r \in Request, cut \subseteq cut',
         \A q \in Request \ {r} : handler'[q] = handler[q] /\ page'[q] = page[q],
         \/ handler'[r].at \notin {"ended", "dead"}
         \/ page'[r] \notin {"running", "broken"}
         \/ r \in cut'
  PROVE  PageLearnsEnd'
  BY DEF PageLearnsEnd

\* Every step of a handler keeps it.
LEMMA DiagnosePage ==
  ASSUME TypeOK, PageLearnsEnd, NEW r \in Request, Diagnose(r)
  PROVE  PageLearnsEnd'
  <1>1. ASSUME NEW v \in Verdict, NEW input \in BOOLEAN, Start(r, v, input)  PROVE PageLearnsEnd'
    <2>1. handler'[r].at = "load" /\ \A q \in Request \ {r} : handler'[q] = handler[q]
      BY <1>1 DEF Start, With, TypeOK
    <2> QED
      BY <1>1, <2>1, OnePage DEF Start
  <1>2. CASE TurnAway(r)
    BY <1>2, GoToSeen, ShowEnds, OnePage DEF TurnAway
  <1>3. CASE LoadProblem(r)
    <2>1. FirstStep(handler[r].verdict) \in {"repair", "validate", "stream"}
      BY DEF FirstStep
    <2>2. /\ handler'[r].at = FirstStep(handler[r].verdict)
          /\ \A q \in Request \ {r} : handler'[q] = handler[q]
      BY <1>3 DEF LoadProblem, TypeOK, Handler
    <2> QED
      BY <1>3, <2>1, <2>2, OnePage DEF LoadProblem
  <1>4. CASE ProblemMissing(r)
    BY <1>4, ReturnSeen, ShowEnds, OnePage DEF ProblemMissing
  <1>5. CASE TestCasesUnreadable(r) \/ ValidateInSilence(r) \/ \E foreign \in BOOLEAN : Validate(r, foreign)
    <2>1. GoTo(r, "stream") /\ UNCHANGED <<page, cut>>
      BY <1>5 DEF TestCasesUnreadable, ValidateInSilence, Validate, ReportReference
    <2> QED
      BY <2>1, GoToSeen, OnePage
  <1>6. CASE StreamLLM(r)
    <2>1. \/ (\E event \in {"done", "error"} : ShowLast(r, event)) /\ cut' = cut
          \/ ShowLast(r, "nothing") /\ cut' = cut \cup {r}
      BY <1>6 DEF StreamLLM
    <2>2. handler'[r].at = "ended" /\ \A q \in Request \ {r} : handler'[q] = handler[q]
      BY <1>6, ReturnSeen DEF StreamLLM
    <2> QED
      BY <2>1, <2>2, ShowEnds, OnePage
  <1>7. ASSUME NEW answer \in RepairAnswer, AskForRepair(r, answer)  PROVE PageLearnsEnd'
    <2>1. handler'[r].at \in {"sandbox", "repair", "verify"} /\ \A q \in Request \ {r} : handler'[q] = handler[q]
      BY <1>7, GoToSeen, NextAttemptSeen DEF AskForRepair
    <2>2. \A q \in Request \ {r} : page'[q] = page[q]
      BY <1>7, ShowOne DEF AskForRepair
    <2> QED
      BY <1>7, <2>1, <2>2, OnePage DEF AskForRepair
  <1>8. CASE StopRepairing(r) \/ RunRepaired(r) \/ Hang(r)
    BY <1>8, GoToSeen, NextAttemptSeen, OnePage DEF StopRepairing, RunRepaired, Hang
  <1>9. ASSUME GoTo(r, "create"), UNCHANGED <<page, cut>>  PROVE PageLearnsEnd'
    BY <1>9, GoToSeen, OnePage
  <1>10. ASSUME Finish(r), cut' = cut  PROVE PageLearnsEnd'
    BY <1>10, ReturnSeen, ShowEnds, OnePage DEF Finish
  <1>11. ASSUME NEW foreign \in BOOLEAN, Verify(r, foreign)  PROVE PageLearnsEnd'
    <2>1. ASSUME NEW misled, Suspect(r, misled), cut' = cut  PROVE PageLearnsEnd'
      BY <2>1, SuspectSeen, OnePage DEF Suspect
    <2> QED
      BY <1>10, <1>11, <2>1 DEF Verify
  <1>12. CASE CountReports(r) \/ CreateReport(r)
    BY <1>9, <1>10, <1>12 DEF CountReports, CreateReport
  <1> QED
    BY <1>1, <1>2, <1>3, <1>4, <1>5, <1>6, <1>7, <1>8, <1>11, <1>12 DEF Diagnose

\* Every step keeps it.
LEMMA PageStep ==
  ASSUME TypeOK, PageLearnsEnd, [Next]_vars
  PROVE  PageLearnsEnd'
  <1>k. UNCHANGED <<handler, page, cut>> => PageLearnsEnd'
    BY DEF PageLearnsEnd
  <1>1. ASSUME NEW r \in Request, LimitStep(r) \/ CheckProblemQuality(r)  PROVE PageLearnsEnd'
    BY <1>1, <1>k DEF LimitStep, CheckProblemQuality, CheckSamples, ReportSample, diagnoseVars, workVars
  <1>2. ASSUME NEW r \in Request, Diagnose(r)  PROVE PageLearnsEnd'
    BY <1>2, DiagnosePage
  <1>3. ASSUME NEW r \in Request, ContextEnds(r)  PROVE PageLearnsEnd'
    <2>1. \A q \in Request : page'[q] = page[q] \/ page'[q] = "cancelled"
      BY <1>3 DEF ContextEnds, TypeOK
    <2> QED
      BY <1>3, <2>1 DEF ContextEnds, PageLearnsEnd
  <1>8. ASSUME NEW r \in Request, WriteTimesOut(r)  PROVE PageLearnsEnd'
    <2>1. handler[r].at \notin {"ended", "dead"} /\ handler' = handler /\ cut' = cut
      BY <1>8 DEF WriteTimesOut, Handling
    <2>2. \A q \in Request \ {r} : page'[q] = page[q]
      BY <1>8 DEF WriteTimesOut, TypeOK
    <2> QED
      BY <2>1, <2>2 DEF PageLearnsEnd
  <1>4. ASSUME NEW f \in reports, DeleteProblemFeedback(f)  PROVE PageLearnsEnd'
    BY <1>4, <1>k DEF DeleteProblemFeedback, workVars
  <1>5. CASE Clock
    BY <1>5, <1>k DEF Clock, diagnoseVars, workVars
  <1>6. CASE Restart
    <2>1. \A r \in Request : \/ handler'[r] = handler[r] /\ page'[r] = page[r]
                             \/ page'[r] \notin {"running", "broken"}
      BY <1>6 DEF Restart, TypeOK
    <2> QED
      BY <1>6, <2>1 DEF Restart, PageLearnsEnd
  <1>7. CASE UNCHANGED vars
    BY <1>7, <1>k DEF vars, diagnoseVars, workVars
  <1> QED
    BY <1>1, <1>2, <1>3, <1>4, <1>5, <1>6, <1>7, <1>8 DEF Next

\* Once its handler has returned the page shows an end, unless the LLM's answer was cut
\* off by the context (PageLearnsEnd of AIDiagnose).
THEOREM PageEnds == Spec => []PageLearnsEnd
  <1>1. Init => PageLearnsEnd
    BY DEF Init, Outside, With, PageLearnsEnd
  <1>2. TypeOK /\ SlotInv /\ PageLearnsEnd /\ [Next]_vars => (TypeOK /\ SlotInv /\ PageLearnsEnd)'
    BY TypeStep, PageStep
  <1> QED
    BY InitInv, <1>1, <1>2, PTL DEF Spec

-----------------------------------------------------------------------------
(***************************************************************************)
(* The limiter in the whole system.                                        *)
(***************************************************************************)

\* Every step of the system is one of the limiter or leaves its variables alone.
LEMMA WindowStep ==
  ASSUME TypeOK, TypeOK', WindowInv, [Next]_vars
  PROVE  WindowInv'
  <1>t. LimitTypeOK /\ LimitTypeOK'
    BY DEF TypeOK
  <1>k. UNCHANGED limitVars => WindowInv'
    <2> SUFFICES ASSUME UNCHANGED limitVars  PROVE WindowInv'
      OBVIOUS
    <2> QED
      BY DEF limitVars, WindowInv, KeyInv, RoomInv, Counted, Fresh, LetThrough, Expiring
  <1>1. ASSUME NEW r \in Request, LimitStep(r)  PROVE WindowInv'
    BY <1>1, <1>t, LimiterRoom DEF LimitStep
  <1>2. ASSUME NEW r \in Request, Diagnose(r)  PROVE WindowInv'
    BY <1>2, <1>k DEF Diagnose, Start, TurnAway, LoadProblem, ProblemMissing, ValidateInSilence,
       TestCasesUnreadable, StreamLLM, Validate, ReportReference, Verify, AskForRepair,
       StopRepairing, RunRepaired, Hang, CountReports, CreateReport
  <1>3. ASSUME NEW r \in Request, CheckProblemQuality(r) \/ ContextEnds(r) \/ WriteTimesOut(r)
        PROVE  WindowInv'
    BY <1>3, <1>k DEF CheckProblemQuality, CheckSamples, ReportSample, ContextEnds, WriteTimesOut
  <1>4. ASSUME NEW f \in reports, DeleteProblemFeedback(f)  PROVE WindowInv'
    BY <1>4, <1>k DEF DeleteProblemFeedback
  <1>5. CASE Clock
    BY <1>5, <1>t, TickRoom DEF Clock
  <1>6. CASE Restart
    BY <1>6, <1>t, LimitRestartRoom DEF Restart
  <1>7. CASE UNCHANGED vars
    BY <1>7, <1>k DEF vars
  <1> QED
    BY <1>1, <1>2, <1>3, <1>4, <1>5, <1>6, <1>7 DEF Next

\* For any number of clients, requests and routes and any limits, fewer than twice the
\* limit of a route pass in a stretch of one window (RateLimit, IncrWithTTL).
THEOREM WindowsLimited == Spec => []AdmittedPerWindow
  <1>1. Init => TypeOK /\ SlotInv /\ WindowInv
    <2> SUFFICES ASSUME Init  PROVE WindowInv
      BY InitInv
    <2> SUFFICES ASSUME NEW c \in Client  PROVE KeyInv(c) /\ \A x \in Route : RoomInv(c, x)
      BY DEF WindowInv
    <2>1. count[c] = 0 /\ ttl[c] = 0 /\ \A r \in Request : gate[r] = "new"
      BY DEF Init, LimitInit
    <2>2. Expiring(c) = {} /\ \A x \in Route : Counted(c, x) = {}
      BY <2>1 DEF Expiring, Counted, LetThrough
    <2>3. ASSUME NEW x \in Route  PROVE RoomInv(c, x)
      <3>1. Limit[x] \in Nat \ {0}
        BY RateLimitAssumption DEF RateLimitAssumption
      <3>2. Cardinality(Counted(c, x)) = 0
        BY <2>2, FS_EmptySet
      <3> QED
        BY <2>1, <3>1, <3>2 DEF RoomInv, Least
    <2> QED
      BY <2>1, <2>2, <2>3 DEF KeyInv
  <1>2. TypeOK /\ SlotInv /\ WindowInv /\ [Next]_vars => (TypeOK /\ SlotInv /\ WindowInv)'
    BY TypeStep, WindowStep
  <1>3. TypeOK /\ WindowInv => AdmittedPerWindow
    <2> SUFFICES ASSUME TypeOK, WindowInv, InRedis \/ restarts = 0,
                        NEW c \in Client, NEW x \in Route
                 PROVE  Cardinality(LetThrough(c, x)) < 2 * Limit[x]
      BY DEF AdmittedPerWindow
    <2>1. /\ Limit[x] \in Nat \ {0} /\ count[c] \in Nat /\ IsFiniteSet(Counted(c, x))
          /\ Cardinality(Counted(c, x)) \in Nat
      BY LimitNumbers DEF TypeOK
    <2>2. /\ Cardinality(LetThrough(c, x)) \in Nat
          /\ Cardinality(LetThrough(c, x)) <= Cardinality(Counted(c, x))
      <3>1. LetThrough(c, x) \subseteq Counted(c, x)
        BY DEF Counted
      <3> QED
        BY <2>1, <3>1, FS_Subset, FS_CardinalityType
    <2>3. Cardinality(Counted(c, x)) < Least(count[c], Limit[x]) + Limit[x]
      BY DEF WindowInv, RoomInv
    <2>4. Least(count[c], Limit[x]) \in Nat /\ Least(count[c], Limit[x]) <= Limit[x]
      BY <2>1 DEF Least
    <2> QED
      BY <2>1, <2>2, <2>3, <2>4
  <1> QED
    BY <1>1, <1>2, <1>3, PTL DEF Spec
=============================================================================
