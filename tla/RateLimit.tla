------------------------------ MODULE RateLimit ------------------------------
(***************************************************************************)
(* The request limits of the API: the middleware RateLimit and             *)
(* RateLimitSubmission (internal/middleware/auth.go) and the counter they  *)
(* share, cache.IncrWithTTL (internal/cache/redis.go), in Redis or in the  *)
(* memory of the process.  A key names a client and no route, so requests  *)
(* to routes with different limits count in the same counter.              *)
(*                                                                         *)
(* Each request passes the middleware once.  Time is counted in ticks; the *)
(* age of a request stops growing at Window.                               *)
(***************************************************************************)
EXTENDS Naturals, FiniteSets

CONSTANTS
  Request,      \* requests that reach the middleware
  Client,       \* keys: an IP address, or a user for RateLimitSubmission
  ClientOf,     \* ClientOf[r]
  Route,        \* limited routes
  Limit,        \* Limit[x]: requests the route allows per window
  Window,       \* ticks a counter lives (one minute in the code)
  InRedis,      \* whether cache.Init found Redis
  MaxFaults,    \* bound: failed calls to Redis
  MaxRestarts   \* bound: restarts of the API server

NoRoute == "none"

ASSUME RateLimitAssumption ==
  /\ IsFiniteSet(Request)
  /\ ClientOf \in [Request -> Client]
  /\ NoRoute \notin Route
  /\ Limit \in [Route -> Nat \ {0}]
  /\ Window \in Nat \ {0}
  /\ InRedis \in BOOLEAN
  /\ MaxFaults \in Nat /\ MaxRestarts \in Nat

VARIABLES
  count,      \* count[c]: the counter of client c, 0 when there is no key
  ttl,        \* ttl[c]: ticks until the key expires, 0 when it has no expiry
  gate,       \* gate[r]: where request r is in the middleware
  route,      \* route[r]: the route it asks for, once it has arrived
  age,        \* history: ticks since r was counted and let through
  unchecked,  \* history: requests let through because INCR failed
  stuck,      \* history: clients whose key was made and got no expiry
  faults, restarts   \* how much of the two bounds is used

limitVars == <<count, ttl, gate, route, age, unchecked, stuck, faults, restarts>>

LimitInit ==
  /\ count = [c \in Client |-> 0]
  /\ ttl = [c \in Client |-> 0]
  /\ gate = [r \in Request |-> "new"]
  /\ route = [r \in Request |-> NoRoute]
  /\ age = [r \in Request |-> Window]
  /\ unchecked = {} /\ stuck = {}
  /\ faults = 0 /\ restarts = 0

-----------------------------------------------------------------------------
\* Mutant of Decide: the limit is passed by one.
DecideOneMore(r, x, n) ==
  /\ gate' = [gate EXCEPT ![r] = IF n > Limit[x] + 1 THEN "refused" ELSE "passed"]
  /\ age' = [age EXCEPT ![r] = IF n > Limit[x] + 1 THEN Window ELSE 0]

\* The handler runs, or the answer is 429.
Decide(r, x, n) ==
  /\ gate' = [gate EXCEPT ![r] = IF n > Limit[x] THEN "refused" ELSE "passed"]
  /\ age' = [age EXCEPT ![r] = IF n > Limit[x] THEN Window ELSE 0]

\* Request r arrives for route x, and INCR answers.  The first INCR makes the key;
\* in memory the expiry is set with it, in Redis EXPIRE is a call of its own.
Incr(r, x) ==
  LET c == ClientOf[r]
      n == count[c] + 1
  IN /\ gate[r] = "new"
     /\ route' = [route EXCEPT ![r] = x]
     /\ count' = [count EXCEPT ![c] = n]
     /\ \/ /\ InRedis /\ n = 1
           /\ gate' = [gate EXCEPT ![r] = "expire"]
           /\ UNCHANGED <<ttl, age>>
        \/ /\ ~InRedis \/ n > 1
           /\ ttl' = [ttl EXCEPT ![c] = IF n = 1 THEN Window ELSE @]
           /\ Decide(r, x, n)
     /\ UNCHANGED <<unchecked, stuck, faults, restarts>>

\* INCR fails, or its reply is lost after it has counted: the value read is 0, which
\* is within every limit and starts no expiry.
IncrFails(r, x) ==
  LET c == ClientOf[r]
  IN /\ gate[r] = "new"
     /\ InRedis /\ faults < MaxFaults
     /\ faults' = faults + 1
     /\ route' = [route EXCEPT ![r] = x]
     /\ \/ UNCHANGED <<count, stuck>>
        \/ /\ count' = [count EXCEPT ![c] = @ + 1]
           /\ stuck' = IF count[c] = 0 THEN stuck \cup {c} ELSE stuck
     /\ unchecked' = unchecked \cup {r}
     /\ gate' = [gate EXCEPT ![r] = "passed"]
     /\ UNCHANGED <<ttl, age, restarts>>

\* The reply of INCR is lost, go-redis repeats the call, and the request is counted twice.
\* The first value read is then 2 or more, and no EXPIRE follows.
IncrTwice(r, x) ==
  LET c == ClientOf[r]
      n == count[c] + 2
  IN /\ gate[r] = "new"
     /\ InRedis /\ faults < MaxFaults
     /\ faults' = faults + 1
     /\ route' = [route EXCEPT ![r] = x]
     /\ count' = [count EXCEPT ![c] = n]
     /\ stuck' = IF n = 2 THEN stuck \cup {c} ELSE stuck
     /\ Decide(r, x, n)
     /\ UNCHANGED <<ttl, unchecked, restarts>>

\* Mutant of Expire: only a counter that is still at 1 gets its expiry.
ExpireIfAlone(r) ==
  LET c == ClientOf[r]
  IN /\ gate[r] = "expire"
     /\ ttl' = IF count[c] = 1 THEN [ttl EXCEPT ![c] = Window] ELSE ttl
     /\ Decide(r, route[r], 1)
     /\ UNCHANGED <<count, route, unchecked, stuck, faults, restarts>>

\* EXPIRE, after the first INCR only.  Others may have counted in between.
Expire(r) ==
  /\ gate[r] = "expire"
  /\ ttl' = [ttl EXCEPT ![ClientOf[r]] = Window]
  /\ Decide(r, route[r], 1)
  /\ UNCHANGED <<count, route, unchecked, stuck, faults, restarts>>

\* EXPIRE fails; nobody looks at its result, and no later request repeats it.
ExpireFails(r) ==
  /\ gate[r] = "expire"
  /\ faults < MaxFaults
  /\ faults' = faults + 1
  /\ stuck' = stuck \cup {ClientOf[r]}
  /\ Decide(r, route[r], 1)
  /\ UNCHANGED <<count, ttl, route, unchecked, restarts>>

\* A tick: keys come nearer to their end, and go.
Tick ==
  /\ (\E c \in Client : ttl[c] > 0) \/ (\E r \in Request : age[r] < Window)
  /\ ttl' = [c \in Client |-> IF ttl[c] > 0 THEN ttl[c] - 1 ELSE 0]
  /\ count' = [c \in Client |-> IF ttl[c] = 1 THEN 0 ELSE count[c]]
  /\ age' = [r \in Request |-> IF age[r] < Window THEN age[r] + 1 ELSE Window]
  /\ UNCHANGED <<gate, route, unchecked, stuck, faults, restarts>>

\* The API server dies and starts again: requests in it are gone, and so is what the
\* memory counted; what Redis counted is not.
LimitRestart ==
  /\ restarts < MaxRestarts
  /\ restarts' = restarts + 1
  /\ gate' = [r \in Request |-> IF gate[r] = "expire" THEN "dead" ELSE gate[r]]
  /\ stuck' = stuck \cup {ClientOf[r] : r \in {q \in Request : gate[q] = "expire"}}
  /\ count' = IF InRedis THEN count ELSE [c \in Client |-> 0]
  /\ ttl' = IF InRedis THEN ttl ELSE [c \in Client |-> 0]
  /\ UNCHANGED <<route, age, unchecked, faults>>

Limiter(r) ==
  \/ \E x \in Route : Incr(r, x) \/ IncrFails(r, x) \/ IncrTwice(r, x)
  \/ Expire(r) \/ ExpireFails(r)

-----------------------------------------------------------------------------
\* Every variable of the limiter has its type.
LimitTypeOK ==
  /\ count \in [Client -> Nat]
  /\ ttl \in [Client -> 0 .. Window]
  /\ gate \in [Request -> {"new", "expire", "passed", "refused", "dead"}]
  /\ route \in [Request -> Route \cup {NoRoute}]
  /\ age \in [Request -> 0 .. Window]
  /\ unchecked \subseteq Request /\ stuck \subseteq Client
  /\ faults \in 0 .. MaxFaults /\ restarts \in 0 .. MaxRestarts

\* Requests of client c for route x that were counted and let through within the
\* last Window ticks.
LetThrough(c, x) ==
  {r \in Request \ unchecked : /\ ClientOf[r] = c /\ route[r] = x
                               /\ gate[r] = "passed" /\ age[r] < Window}

\* The counter starts anew where the last one ended, so a client may get past the
\* middleware (RateLimit) more often than its limit in a stretch of one window, yet
\* fewer than twice as often: whatever is requested meanwhile on other routes, however
\* INCR and EXPIRE of different requests interleave, and although EXPIRE comes late.
\* Requests let through by a failed INCR are outside, and so is a restart that empties
\* the memory.
AdmittedPerWindow ==
  (InRedis \/ restarts = 0) =>
    \A c \in Client, x \in Route : Cardinality(LetThrough(c, x)) < 2 * Limit[x]

\* A counter does not stay: a refused client is let in again some time, unless the
\* process died or Redis failed between the INCR that made the key and its EXPIRE, or that
\* INCR was repeated (IncrWithTTL); nothing else may leave a key without an expiry.
WindowEnds ==
  \A c \in Client : count[c] > 0 ~> (count[c] = 0 \/ c \in stuck)
=============================================================================
