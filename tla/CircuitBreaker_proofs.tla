------------------------ MODULE CircuitBreaker_proofs ------------------------
(***************************************************************************)
(* Proofs about CircuitBreaker for every number of requests, threshold and *)
(* timeout.  RunInv ties the counter to the history: consecutiveFails is   *)
(* the length of the run of failures at the end of it, and the circuit is  *)
(* closed exactly while the counter is below maxFails.                     *)
(***************************************************************************)
EXTENDS CircuitBreaker, TLAPS

\* The failures at the end of the history are those that consecutiveFails counts.
RunInv ==
  /\ \A i \in Len(outcomes) - consecutiveFails + 1 .. Len(outcomes) : outcomes[i] = "fail"
  /\ consecutiveFails < Len(outcomes) => outcomes[Len(outcomes) - consecutiveFails] = "ok"
  /\ state # "CLOSED" <=> consecutiveFails >= maxFails

\* An OPEN circuit changed its state no earlier than the last failure came in.
AgeInv == state = "OPEN" => sinceFailure >= sinceChange

BreakerInv == TypeOK /\ RunInv /\ AgeInv

USE BreakerAssumption

\* The initial state is as BreakerInv says: closed, with nothing recorded.
LEMMA InitBreaker == Init => BreakerInv
  BY DEF Init, BreakerInv, TypeOK, RunInv, AgeInv, States

\* Ages stay within the timeout (Allow compares them with nothing larger).
LEMMA AdvanceType == \A age \in 0 .. resetTimeout : Advance(age) \in 0 .. resetTimeout
  BY DEF Advance

\* Both ages grow alike, so that none overtakes the other (Tick).
LEMMA AdvanceMonotone ==
  \A a, b \in 0 .. resetTimeout : a >= b => Advance(a) >= Advance(b)
  BY DEF Advance

\* A recorded failure lengthens the run at the end of the history by one
\* (RecordFailure).
LEMMA FailureStep == BreakerInv /\ RecordFailure => RunInv' /\ AgeInv' /\ state' \in States
                       /\ sinceChange' \in 0 .. resetTimeout /\ sinceFailure' \in 0 .. resetTimeout
                       /\ outcomes' \in Seq({"ok", "fail"}) /\ consecutiveFails' \in 0 .. Len(outcomes')
<1> SUFFICES ASSUME BreakerInv, RecordFailure
             PROVE  RunInv' /\ AgeInv' /\ state' \in States
                       /\ sinceChange' \in 0 .. resetTimeout /\ sinceFailure' \in 0 .. resetTimeout
                       /\ outcomes' \in Seq({"ok", "fail"}) /\ consecutiveFails' \in 0 .. Len(outcomes')
  OBVIOUS
<1>1. /\ outcomes' = Append(outcomes, "fail") /\ outcomes \in Seq({"ok", "fail"})
      /\ consecutiveFails' = consecutiveFails + 1 /\ consecutiveFails \in 0 .. Len(outcomes)
      /\ sinceFailure' = 0 /\ state \in States
  BY DEF BreakerInv, TypeOK, RecordFailure
<1>2. /\ outcomes' \in Seq({"ok", "fail"}) /\ Len(outcomes') = Len(outcomes) + 1
      /\ outcomes'[Len(outcomes) + 1] = "fail"
      /\ \A i \in 1 .. Len(outcomes) : outcomes'[i] = outcomes[i]
  BY <1>1
<1>3. \A i \in Len(outcomes') - consecutiveFails' + 1 .. Len(outcomes') : outcomes'[i] = "fail"
  BY <1>1, <1>2 DEF BreakerInv, RunInv
<1>4. consecutiveFails' < Len(outcomes') => outcomes'[Len(outcomes') - consecutiveFails'] = "ok"
  <2> SUFFICES ASSUME consecutiveFails' < Len(outcomes')
               PROVE  outcomes'[Len(outcomes') - consecutiveFails'] = "ok"
    OBVIOUS
  <2>1. consecutiveFails < Len(outcomes)
    BY <1>1, <1>2
  <2>2. outcomes[Len(outcomes) - consecutiveFails] = "ok"
    BY <2>1 DEF BreakerInv, RunInv
  <2>3. /\ Len(outcomes') - consecutiveFails' = Len(outcomes) - consecutiveFails
        /\ Len(outcomes) - consecutiveFails \in 1 .. Len(outcomes)
    BY <1>1, <1>2, <2>1
  <2> QED BY <1>2, <2>2, <2>3
<1>5. (state' # "CLOSED" <=> consecutiveFails' >= maxFails) /\ state' \in States
      /\ sinceChange' \in 0 .. resetTimeout /\ AgeInv'
  <2>1. CASE consecutiveFails' >= maxFails \/ state = "HALF_OPEN"
    BY <1>1, <2>1 DEF RecordFailure, BreakerInv, RunInv, AgeInv, States
  <2>2. CASE ~(consecutiveFails' >= maxFails \/ state = "HALF_OPEN")
    BY <1>1, <2>2 DEF RecordFailure, BreakerInv, TypeOK, RunInv, AgeInv, States
  <2> QED BY <2>1, <2>2
<1> QED BY <1>1, <1>2, <1>3, <1>4, <1>5 DEF RunInv

\* A recorded success ends the run (RecordSuccess).
LEMMA SuccessStep == BreakerInv /\ RecordSuccess => RunInv' /\ AgeInv' /\ state' \in States
                       /\ sinceChange' \in 0 .. resetTimeout /\ sinceFailure' \in 0 .. resetTimeout
                       /\ outcomes' \in Seq({"ok", "fail"}) /\ consecutiveFails' \in 0 .. Len(outcomes')
<1> SUFFICES ASSUME BreakerInv, RecordSuccess
             PROVE  RunInv' /\ AgeInv' /\ state' \in States
                       /\ sinceChange' \in 0 .. resetTimeout /\ sinceFailure' \in 0 .. resetTimeout
                       /\ outcomes' \in Seq({"ok", "fail"}) /\ consecutiveFails' \in 0 .. Len(outcomes')
  OBVIOUS
<1>1. /\ outcomes' = Append(outcomes, "ok") /\ outcomes \in Seq({"ok", "fail"})
      /\ consecutiveFails' = 0 /\ state' = "CLOSED" /\ sinceChange' = 0
      /\ sinceFailure' \in 0 .. resetTimeout
  BY DEF BreakerInv, TypeOK, RecordSuccess
<1>2. /\ outcomes' \in Seq({"ok", "fail"}) /\ Len(outcomes') = Len(outcomes) + 1
      /\ outcomes'[Len(outcomes) + 1] = "ok" /\ Len(outcomes) \in Nat
  BY <1>1
<1> QED BY <1>1, <1>2 DEF RunInv, AgeInv, States

\* Every step keeps the invariant.
LEMMA NextBreaker == BreakerInv /\ [Next]_vars => BreakerInv'
<1> SUFFICES ASSUME BreakerInv, [Next]_vars PROVE BreakerInv'
  OBVIOUS
<1>1. CASE Tick
  BY <1>1, AdvanceType, AdvanceMonotone DEF Tick, BreakerInv, TypeOK, RunInv, AgeInv
<1>2. ASSUME NEW r \in Request, Ask(r) PROVE BreakerInv'
  BY <1>2 DEF Ask, GoTo, breakerVars, BreakerInv, TypeOK, RunInv, AgeInv
<1>3. ASSUME NEW r \in Request, Call(r) PROVE BreakerInv'
  <2>1. TypeOK'
    BY <1>3 DEF Call, Admit, GoTo, BreakerInv, TypeOK, States
  <2>2. RunInv' /\ AgeInv'
    BY <1>3 DEF Call, Admit, BreakerInv, TypeOK, RunInv, AgeInv, States
  <2> QED BY <2>1, <2>2 DEF BreakerInv
<1>4. ASSUME NEW r \in Request, Refuse(r) PROVE BreakerInv'
  BY <1>4 DEF Refuse, Ends, GoTo, breakerVars, BreakerInv, TypeOK, RunInv, AgeInv
<1>5. ASSUME NEW r \in Request, Fail(r) PROVE BreakerInv'
  BY <1>5, FailureStep DEF Fail, Ends, GoTo, BreakerInv, TypeOK
<1>6. ASSUME NEW r \in Request, Succeed(r) PROVE BreakerInv'
  BY <1>6, SuccessStep DEF Succeed, GoTo, BreakerInv, TypeOK
<1>7. ASSUME NEW r \in Request, StreamEnds(r) PROVE BreakerInv'
  BY <1>7 DEF StreamEnds, Ends, GoTo, breakerVars, BreakerInv, TypeOK, RunInv, AgeInv
<1>8. CASE UNCHANGED vars
  BY <1>8 DEF vars, breakerVars, BreakerInv, TypeOK, RunInv, AgeInv
<1> QED BY <1>1, <1>2, <1>3, <1>4, <1>5, <1>6, <1>7, <1>8 DEF Next, Serve

\* BreakerInv holds throughout.
LEMMA BreakerInvariant == Spec => []BreakerInv
  BY InitBreaker, NextBreaker, PTL DEF Spec

\* What BreakerInv says of the run is what the property asks of the last maxFails
\* outcomes.
LEMMA RunIsTrip == BreakerInv => TripsOnFailuresInARow
<1> SUFFICES ASSUME BreakerInv PROVE TripsOnFailuresInARow
  OBVIOUS
<1> /\ outcomes \in Seq({"ok", "fail"}) /\ consecutiveFails \in 0 .. Len(outcomes)
    /\ Len(outcomes) \in Nat
  BY DEF BreakerInv, TypeOK
<1>1. CASE consecutiveFails >= maxFails
  BY <1>1 DEF TripsOnFailuresInARow, FailuresInARow, BreakerInv, RunInv
<1>2. CASE consecutiveFails < maxFails
  <2>1. ~FailuresInARow
    <3> SUFFICES ASSUME FailuresInARow PROVE FALSE
      OBVIOUS
    <3>1. consecutiveFails < Len(outcomes)
      BY <1>2 DEF FailuresInARow
    <3>2. outcomes[Len(outcomes) - consecutiveFails] = "ok"
      BY <3>1 DEF BreakerInv, RunInv
    <3>3. outcomes[Len(outcomes) - consecutiveFails] = "fail"
      BY <1>2, <3>1 DEF FailuresInARow
    <3> QED BY <3>2, <3>3
  <2> QED BY <1>2, <2>1 DEF TripsOnFailuresInARow, BreakerInv, RunInv
<1> QED BY <1>1, <1>2

\* The breaker is closed unless the last maxFails recorded outcomes were failures
\* (RecordSuccess, RecordFailure), whatever requests overlap.
THEOREM TripsRightly == Spec => []TripsOnFailuresInARow
  BY BreakerInvariant, RunIsTrip, PTL

\* Every variable keeps its range.
THEOREM BreakerTypes == Spec => []TypeOK
<1>1. BreakerInv => TypeOK
  BY DEF BreakerInv
<1> QED BY <1>1, BreakerInvariant, PTL

\* Allow lets a request pass an OPEN circuit only a full resetTimeout after the last
\* failure that any request recorded.
THEOREM ProbeWaitsLong == Spec => ProbeWaits
<1> DEFINE Waited == \A r \in Request : (request[r] = "asked" /\ request'[r] = "calling" /\ state = "OPEN")
                           => sinceFailure = resetTimeout
<1>1. BreakerInv /\ [Next]_vars => [Waited]_vars
  <2> SUFFICES ASSUME BreakerInv, Next, NEW r \in Request, request[r] = "asked",
                      request'[r] = "calling", state = "OPEN"
               PROVE  sinceFailure = resetTimeout
    OBVIOUS
  <2>1. Allowed
    <3>1. ASSUME NEW q \in Request, Call(q) PROVE Allowed
      BY <3>1 DEF Call, Admit
    <3>2. CASE Tick
      BY <3>2 DEF Tick
    <3>3. ASSUME NEW q \in Request,
                 Ask(q) \/ Refuse(q) \/ Fail(q) \/ Succeed(q) \/ StreamEnds(q)
          PROVE  FALSE
      <4>1. request'[r] # "calling" \/ request[r] = "calling"
        BY <3>3 DEF Ask, Refuse, Fail, Succeed, StreamEnds, Ends, GoTo, BreakerInv, TypeOK
      <4> QED BY <4>1
    <3> QED BY <3>1, <3>2, <3>3 DEF Next, Serve
  <2> QED BY <2>1 DEF Allowed, BreakerInv, AgeInv, TypeOK
<1> QED BY <1>1, BreakerInvariant, PTL DEF Spec, ProbeWaits
=============================================================================
