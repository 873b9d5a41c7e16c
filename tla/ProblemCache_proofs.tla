-------------------------- MODULE ProblemCache_proofs --------------------------
(***************************************************************************)
(* What holds of the problem page for any number of processes, readers,    *)
(* writers and problems, with Redis or with a cache in each process: one   *)
(* load at a time, no outdated problem without a cause, and no way back    *)
(* for a deleted one.                                                      *)
(***************************************************************************)
EXTENDS ProblemCache, FiniteSetTheorems, TLAPS

Loads == {"query", "fill", "end", "forget"}

\* A reader inside Get has an id; one that waits or leads a load has its entry in sfCalls.
CallInv ==
  /\ \A r \in Reader :
       /\ reader[r].at # "idle" => reader[r].id \in Problem
       /\ reader[r].at \in {"query", "fill", "end"} => call[Host[r]][reader[r].id] = "running"
       /\ reader[r].at = "forget" => call[Host[r]][reader[r].id] = "ended"
  /\ \A q, r \in Reader :
       /\ reader[q].at \in Loads /\ reader[r].at \in Loads
       /\ Host[q] = Host[r] /\ reader[q].id = reader[r].id
       => q = r

\* A writer that has begun has an id, and a deleted problem has no row.
RowInv ==
  /\ \A w \in Writer : writer[w].at # "idle" => writer[w].id \in Problem
  /\ \A p \in deleted : row[p] = Missing

CacheInv == TypeOK /\ CallInv /\ RowInv

At == {"idle", "cached", "marked", "join", "wait", "query", "fill", "end", "forget"}
ReaderType == [at : At, id : Problem \cup {Missing}, got : Version \cup {Missing}]

-----------------------------------------------------------------------------
(***************************************************************************)
(* The readers: Get and cache.Do.                                          *)
(***************************************************************************)

\* The variables a reader's step may change, and their types.
GetTypes ==
  /\ cached \in [Cache -> [Problem -> Version \cup {Missing}]]
  /\ marked \in [Cache -> SUBSET Problem]
  /\ call \in [Server -> [Problem -> {"none", "running", "ended"}]]
  /\ reader \in [Reader -> ReaderType]
  /\ \A r \in Reader : reader[r].at = "wait" => call[Host[r]][reader[r].id] = "running"
  /\ faults \in 0 .. MaxFaults
  /\ late \subseteq Cache \X Problem

\* What a reader's place means for the id it has.
LEMMA ReaderFacts ==
  ASSUME CacheInv, NEW r \in Reader, reader[r].at # "idle"
  PROVE  /\ Host[r] \in Server /\ Host[r] \in Process /\ CacheOf(Host[r]) \in Cache
         /\ reader[r].id \in Problem /\ reader[r] \in ReaderType
         /\ row[reader[r].id] \in Version \cup {Missing}
  <1>1. Host[r] \in Server /\ Host[r] \in Process
    BY CacheAssumption DEF CacheAssumption
  <1> QED
    BY <1>1 DEF CacheInv, CallInv, TypeOK, CacheOf, Cache, ReaderType, At

ReaderTypes ==
  /\ reader \in [Reader -> ReaderType]
  /\ \A r \in Reader : reader[r].at = "wait" => call[Host[r]][reader[r].id] = "running"

\* A reader may go on to x without touching sfCalls, unless x leads a load r did not lead.
LEMMA ReaderMoves ==
  ASSUME ReaderTypes, CallInv, NEW r \in Reader, NEW x \in ReaderType,
         reader' = [reader EXCEPT ![r] = x], call' = call,
         x.at # "idle" => x.id \in Problem,
         x.at \in {"wait", "query", "fill", "end"} => call[Host[r]][x.id] = "running",
         x.at = "forget" => call[Host[r]][x.id] = "ended",
         x.at \in Loads => reader[r].at \in Loads /\ x.id = reader[r].id
  PROVE  ReaderTypes' /\ CallInv'
  <1>1. \A q \in Reader : reader'[q] = IF q = r THEN x ELSE reader[q]
    BY DEF ReaderTypes
  <1>2. reader' \in [Reader -> ReaderType]
    BY DEF ReaderTypes
  <1>3. \A q \in Reader : reader'[q].at = "wait" => call[Host[q]][reader'[q].id] = "running"
    BY <1>1 DEF ReaderTypes
  <1>4. CallInv'
    BY <1>1 DEF CallInv
  <1> QED
    BY <1>2, <1>3, <1>4 DEF ReaderTypes

\* The entry of one problem changes, and the reader that leads its load with it.
LEMMA LeaderMoves ==
  ASSUME ReaderTypes, CallInv, NEW r \in Reader, Host[r] \in Server, reader[r].id \in Problem,
         call \in [Server -> [Problem -> {"none", "running", "ended"}]],
         NEW e \in {"none", "running", "ended"},
         call' = [call EXCEPT ![Host[r]][reader[r].id] = e],
         reader' \in [Reader -> ReaderType],
         \/ e = "none" /\ reader'[r].at = "idle"
         \/ e = "running" /\ reader'[r].at = "query" /\ reader'[r].id = reader[r].id
         \/ e = "ended" /\ reader'[r].at = "forget" /\ reader'[r].id = reader[r].id,
         \A q \in Reader \ {r} :
           /\ reader'[q] = reader[q] \/ reader'[q].at = "idle"
           /\ Host[q] = Host[r] /\ reader[q].id = reader[r].id /\ reader'[q].at # "idle"
                => reader[q].at \notin {"wait"} \cup Loads
  PROVE  ReaderTypes' /\ CallInv'
  <1> DEFINE s == Host[r]
             p == reader[r].id
  <1>0. s \in Server /\ p \in Problem /\ call' = [call EXCEPT ![s][p] = e]
    OBVIOUS
  <1> HIDE DEF s, p
  <1>1. \A t \in Server, x \in Problem : call'[t][x] = IF t = s /\ x = p THEN e ELSE call[t][x]
    BY <1>0
  <1>h. \A q \in Reader : Host[q] \in Server
    BY CacheAssumption DEF CacheAssumption
  <1>2. ASSUME NEW q \in Reader, q # r, reader'[q].at # "idle"
        PROVE  /\ reader'[q] = reader[q] /\ reader[q].id \in Problem
               /\ reader[q].at \in {"wait"} \cup Loads
                    => call'[Host[q]][reader[q].id] = call[Host[q]][reader[q].id]
    <2>1. reader'[q] = reader[q] /\ reader[q].id \in Problem
      BY <1>2 DEF CallInv
    <2>2. reader[q].at \in {"wait"} \cup Loads => ~(Host[q] = s /\ reader[q].id = p)
      BY <1>2 DEF s, p
    <2> QED
      BY <1>1, <1>h, <2>1, <2>2
  <1>3. ASSUME NEW q \in Reader, reader'[q].at = "wait"
        PROVE  call'[Host[q]][reader'[q].id] = "running"
    BY <1>2, <1>3 DEF ReaderTypes
  <1>4. ASSUME NEW q \in Reader
        PROVE  /\ reader'[q].at # "idle" => reader'[q].id \in Problem
               /\ reader'[q].at \in {"query", "fill", "end"}
                    => call'[Host[q]][reader'[q].id] = "running"
               /\ reader'[q].at = "forget" => call'[Host[q]][reader'[q].id] = "ended"
    <2>1. CASE q = r
      BY <1>0, <1>1, <2>1 DEF s, p
    <2>2. CASE q # r
      <3>1. reader'[q].at # "idle" => reader'[q] = reader[q] /\ reader[q].id \in Problem
        BY <1>2, <2>2
      <3>2. reader'[q].at \in Loads =>
              call'[Host[q]][reader'[q].id] = call[Host[q]][reader[q].id]
        BY <1>2, <2>2, <3>1 DEF Loads
      <3> QED
        BY <3>1, <3>2 DEF CallInv, Loads
    <2> QED
      BY <2>1, <2>2
  <1>5. ASSUME NEW q \in Reader, NEW u \in Reader,
               reader'[q].at \in Loads, reader'[u].at \in Loads,
               Host[q] = Host[u], reader'[q].id = reader'[u].id
        PROVE  q = u
    <2>1. CASE q = r /\ u # r
      BY <1>2, <1>5, <2>1 DEF Loads
    <2>2. CASE q # r /\ u = r
      BY <1>2, <1>5, <2>2 DEF Loads
    <2>3. CASE q # r /\ u # r
      <3>1. reader'[q] = reader[q] /\ reader'[u] = reader[u]
        BY <1>2, <1>5, <2>3 DEF Loads
      <3> QED
        BY <1>5, <3>1 DEF CallInv
    <2> QED
      BY <2>1, <2>2, <2>3
  <1> QED
    BY <1>3, <1>4, <1>5 DEF ReaderTypes, CallInv

LEMMA AtStep ==
  ASSUME NEW m \in ReaderType, NEW to \in At
  PROVE  /\ [m EXCEPT !.at = to] \in ReaderType
         /\ [m EXCEPT !.at = to].at = to /\ [m EXCEPT !.at = to].id = m.id
  BY DEF ReaderType

\* A reader's step keeps the readers and the entries of sfCalls together.
LEMMA GetReaders ==
  ASSUME CacheInv, NEW r \in Reader, GetStep(r) \/ (\E p \in Problem : Get(r, p))
  PROVE  ReaderTypes' /\ CallInv'
  <1> DEFINE s == Host[r]
             p == reader[r].id
             x == reader'[r]
  <1>t. ReaderTypes /\ CallInv
    BY DEF CacheInv, TypeOK, ReaderTypes, ReaderType, At
  <1>r. reader[r] \in ReaderType /\ Resting \in ReaderType /\ Resting.at = "idle"
    BY <1>t DEF ReaderTypes, ReaderType, At, Resting
  <1>c. call \in [Server -> [Problem -> {"none", "running", "ended"}]]
    BY DEF CacheInv, TypeOK
  <1>f. reader[r].at # "idle" => s \in Server /\ p \in Problem /\ row[p] \in Version \cup {Missing}
    BY ReaderFacts
  <1>1. ASSUME NEW i \in Problem, Get(r, i)  PROVE ReaderTypes' /\ CallInv'
    <2> DEFINE y == [at |-> "cached", id |-> i, got |-> Missing]
    <2>1. y \in ReaderType /\ y.at = "cached" /\ y.id = i
      BY DEF ReaderType, At
    <2>2. reader' = [reader EXCEPT ![r] = y] /\ call' = call
      BY <1>1 DEF Get
    <2> HIDE DEF y
    <2> QED
      BY <1>t, <2>1, <2>2, ReaderMoves DEF Loads
  <1>2. ASSUME reader[r].at # "idle", call' = call,
               \/ reader' = [reader EXCEPT ![r] = Resting]
               \/ \E to \in {"marked", "join"} : reader' = [reader EXCEPT ![r] = [reader[r] EXCEPT !.at = to]]
        PROVE  ReaderTypes' /\ CallInv'
    <2>1. CASE reader' = [reader EXCEPT ![r] = Resting]
      BY <1>2, <1>r, <1>t, <2>1, ReaderMoves DEF Loads
    <2>2. ASSUME NEW to \in {"marked", "join"},
                 reader' = [reader EXCEPT ![r] = [reader[r] EXCEPT !.at = to]]
          PROVE  ReaderTypes' /\ CallInv'
      <3> DEFINE y == [reader[r] EXCEPT !.at = to]
      <3>0. to \in At
        BY DEF At
      <3>1. y \in ReaderType /\ y.at = to /\ y.id = p
        BY <1>r, <3>0, AtStep
      <3> HIDE DEF y
      <3> QED
        BY <1>2, <1>f, <1>t, <2>2, <3>1, ReaderMoves DEF Loads, y
    <2> QED
      BY <1>2, <2>1, <2>2
  <1>3. CASE ReadCached(r)
    BY <1>2, <1>3 DEF ReadCached, Answer, GoTo
  <1>4. CASE ReadMarked(r)
    BY <1>2, <1>4 DEF ReadMarked, Answer, GoTo
  <1>5. CASE Do(r)
    <2>1. CASE call[s][p] = "none" /\ call' = [call EXCEPT ![s][p] = "running"] /\ GoTo(r, "query")
      <3>1. reader[r].at = "join"
        BY <1>5 DEF Do
      <3>2. reader' = [reader EXCEPT ![r] = [reader[r] EXCEPT !.at = "query"]]
        BY <2>1 DEF GoTo
      <3>3. /\ [reader[r] EXCEPT !.at = "query"] \in ReaderType
            /\ [reader[r] EXCEPT !.at = "query"].at = "query"
            /\ [reader[r] EXCEPT !.at = "query"].id = p
        BY <1>r, AtStep DEF At
      <3>4. reader' \in [Reader -> ReaderType] /\ reader'[r].at = "query" /\ reader'[r].id = p
        BY <1>t, <3>2, <3>3 DEF ReaderTypes
      <3>5. \A q \in Reader \ {r} : reader'[q] = reader[q]
        BY <1>t, <3>2 DEF ReaderTypes
      <3>6. \A q \in Reader \ {r} :
              Host[q] = s /\ reader[q].id = p => reader[q].at \notin {"wait"} \cup Loads
        BY <1>t, <2>1 DEF ReaderTypes, CallInv, Loads
      <3> QED
        BY <1>t, <1>f, <1>c, <2>1, <3>1, <3>4, <3>5, <3>6, LeaderMoves
    <2>2. CASE call[s][p] = "running" /\ GoTo(r, "wait") /\ UNCHANGED call
      <3> DEFINE y == [reader[r] EXCEPT !.at = "wait"]
      <3>1. y \in ReaderType /\ y.at = "wait" /\ y.id = p
        BY <1>r, AtStep DEF At
      <3>2. reader[r].at = "join" /\ reader' = [reader EXCEPT ![r] = y]
        BY <1>5, <2>2 DEF Do, GoTo
      <3> HIDE DEF y
      <3> QED
        BY <1>t, <1>f, <2>2, <3>1, <3>2, ReaderMoves DEF Loads
    <2>3. CASE Answer(r) /\ UNCHANGED call
      BY <1>2, <1>5, <2>3 DEF Answer, Do
    <2> QED
      BY <1>5, <2>1, <2>2, <2>3 DEF Do
  <1>6. CASE Query(r) \/ Fill(r)
    <2>1. PICK to \in {"fill", "end"}, got \in Version \cup {Missing} :
            reader' = [reader EXCEPT ![r] = [at |-> to, id |-> p, got |-> got]]
      <3>1. reader[r] = [at |-> reader[r].at, id |-> p, got |-> reader[r].got]
            /\ reader[r].got \in Version \cup {Missing}
        BY <1>r DEF ReaderType
      <3>2. CASE GoTo(r, "fill") \/ GoTo(r, "end")
        BY <3>1, <3>2 DEF GoTo
      <3>3. CASE Query(r) /\ 
                     reader' = [reader EXCEPT ![r] = [at |-> "fill", id |-> @.id, got |-> row[@.id]]]
        <4>1. row[p] \in Version \cup {Missing}
          BY <1>f, <3>3 DEF Query
        <4>2. reader' = [reader EXCEPT ![r] = [at |-> "fill", id |-> p, got |-> row[p]]]
          BY <3>1, <3>3
        <4> QED
          BY <4>1, <4>2
      <3> QED
        BY <1>6, <3>2, <3>3 DEF Query, Fill
    <2> DEFINE y == [at |-> to, id |-> p, got |-> got]
    <2>2. call' = call /\ reader[r].at \in {"query", "fill"}
      BY <1>6 DEF Query, Fill
    <2>3. y \in ReaderType /\ y.at = to /\ y.id = p
      BY <1>f, <2>2 DEF ReaderType, At
    <2>4. reader' = [reader EXCEPT ![r] = y]
      BY <2>1
    <2>5. call[s][p] = "running"
      BY <1>t, <2>2 DEF CallInv
    <2> HIDE DEF y
    <2> QED
      BY <1>t, <1>f, <2>2, <2>3, <2>4, <2>5, ReaderMoves DEF Loads
  <1>7. CASE Done(r)
    <2> DEFINE y == [reader[r] EXCEPT !.at = "forget"]
    <2>1. y \in ReaderType /\ y.at = "forget" /\ y.id = p
      BY <1>r, AtStep DEF At
    <2>2. /\ reader[r].at = "end" /\ call' = [call EXCEPT ![s][p] = "ended"]
          /\ \A q \in Reader : reader'[q] = IF q \in Waiting(s, p) THEN Resting
                                            ELSE IF q = r THEN y ELSE reader[q]
          /\ reader' \in [Reader -> ReaderType]
      BY <1>7, <1>r, <1>t, <2>1 DEF Done, ReaderTypes
    <2>3. r \notin Waiting(s, p)
      BY <2>2 DEF Waiting
    <2>4. \A q \in Reader \ {r} : /\ reader'[q] = reader[q] \/ reader'[q].at = "idle"
                                  /\ reader'[q] = reader[q] => q \notin Waiting(s, p)
      BY <1>r, <2>2 DEF Waiting
    <2>5. \A q \in Reader \ {r} :
            Host[q] = s /\ reader[q].id = p /\ reader'[q].at # "idle"
              => reader[q].at \notin {"wait"} \cup Loads
      BY <1>t, <2>2, <2>4 DEF Waiting, CallInv, Loads
    <2>6. reader'[r].at = "forget" /\ reader'[r].id = p
      BY <2>1, <2>2, <2>3
    <2> HIDE DEF y
    <2> QED
      BY <1>t, <1>f, <1>c, <2>2, <2>4, <2>5, <2>6, LeaderMoves
  <1>8. CASE Forget(r)
    <2>1. /\ reader[r].at = "forget" /\ call' = [call EXCEPT ![s][p] = "none"]
          /\ \A q \in Reader : reader'[q] = IF q = r THEN Resting ELSE reader[q]
          /\ reader' \in [Reader -> ReaderType]
      BY <1>8, <1>r, <1>t DEF Forget, Answer, ReaderTypes
    <2>2. \A q \in Reader \ {r} :
            Host[q] = s /\ reader[q].id = p => reader[q].at \notin {"wait"} \cup Loads
      BY <1>t, <2>1 DEF ReaderTypes, CallInv, Loads
    <2>3. /\ reader'[r].at = "idle"
          /\ \A q \in Reader \ {r} :
               /\ reader'[q] = reader[q] \/ reader'[q].at = "idle"
               /\ Host[q] = s /\ reader[q].id = p /\ reader'[q].at # "idle"
                    => reader[q].at \notin {"wait"} \cup Loads
      BY <1>r, <2>1, <2>2
    <2>4. s \in Server /\ p \in Problem /\ "none" \in {"none", "running", "ended"}
      BY <1>f, <2>1
    <2> QED
      BY <1>t, <1>c, <2>1, <2>3, <2>4, LeaderMoves
  <1> QED
    BY <1>1, <1>3, <1>4, <1>5, <1>6, <1>7, <1>8 DEF GetStep

\* Readers leave everything else alone.
LEMMA GetLeaves ==
  ASSUME NEW r \in Reader, GetStep(r) \/ (\E p \in Problem : Get(r, p))
  PROVE  UNCHANGED <<redis, row, deleted, filter, scanned, writer>>
  BY DEF GetStep, Get, ReadCached, ReadMarked, Do, Query, Fill, Done, Forget, dataVars, bloomVars

LEMMA TableUpdate ==
  ASSUME NEW A, NEW B, NEW C, NEW f \in [A -> [B -> C]], NEW a \in A, NEW b \in B, NEW v \in C
  PROVE  [f EXCEPT ![a][b] = v] \in [A -> [B -> C]]
  OBVIOUS

\* The stores a reader's step may change keep their types.
LEMMA GetStores ==
  ASSUME CacheInv, NEW r \in Reader, GetStep(r) \/ (\E p \in Problem : Get(r, p))
  PROVE  /\ cached' \in [Cache -> [Problem -> Version \cup {Missing}]]
         /\ marked' \in [Cache -> SUBSET Problem] /\ late' \subseteq Cache \X Problem
         /\ call' \in [Server -> [Problem -> {"none", "running", "ended"}]]
         /\ faults' \in 0 .. MaxFaults
  <1> DEFINE s == Host[r]
             p == reader[r].id
             c == CacheOf(s)
  <1>t. /\ cached \in [Cache -> [Problem -> Version \cup {Missing}]]
        /\ marked \in [Cache -> SUBSET Problem] /\ late \subseteq Cache \X Problem
        /\ call \in [Server -> [Problem -> {"none", "running", "ended"}]]
        /\ faults \in 0 .. MaxFaults /\ MaxFaults \in Nat
    BY CacheAssumption DEF CacheInv, TypeOK, CacheAssumption
  <1>f. reader[r].at # "idle" =>
          s \in Server /\ c \in Cache /\ p \in Problem /\ reader[r].got \in Version \cup {Missing}
    BY ReaderFacts DEF ReaderType
  <1> HIDE DEF s, p, c
  <1>1. ASSUME NEW i \in Problem, Get(r, i)  PROVE UNCHANGED <<cached, marked, late, call, faults>>
    BY <1>1 DEF Get, cacheVars
  <1>2. CASE ReadCached(r) \/ ReadMarked(r)
    BY <1>2, <1>t DEF ReadCached, ReadMarked, cacheVars
  <1>3. CASE Do(r)
    <2>1. call' \in {call, [call EXCEPT ![s][p] = "running"]} /\ reader[r].at # "idle"
          /\ UNCHANGED <<cached, marked, late, faults>>
      BY <1>3 DEF Do, cacheVars, s, p
    <2>2. [call EXCEPT ![s][p] = "running"] \in [Server -> [Problem -> {"none", "running", "ended"}]]
      BY <1>t, <1>f, <2>1, TableUpdate
    <2> QED
      BY <1>t, <2>1, <2>2
  <1>4. CASE Query(r)
    <2>1. faults' \in 0 .. MaxFaults /\ UNCHANGED <<cached, marked, late, call>>
      BY <1>4, <1>t DEF Query, cacheVars
    <2> QED
      BY <1>t, <2>1
  <1>5. CASE Fill(r)
    <2>1. /\ cached' \in {cached, [cached EXCEPT ![c][p] = reader[r].got]}
          /\ marked' \in {marked, [marked EXCEPT ![c] = @ \cup {p}]}
          /\ late' \in {late, late \cup {<<c, p>>}, late \ {<<c, p>>}}
          /\ reader[r].at # "idle" /\ UNCHANGED <<call, faults>>
      BY <1>5 DEF Fill, s, p, c
    <2>2. cached' \in [Cache -> [Problem -> Version \cup {Missing}]]
      <3>1. [cached EXCEPT ![c][p] = reader[r].got] \in [Cache -> [Problem -> Version \cup {Missing}]]
        BY <1>t, <1>f, <2>1, TableUpdate
      <3> QED
        BY <1>t, <2>1, <3>1
    <2>3. marked' \in [Cache -> SUBSET Problem] /\ late' \subseteq Cache \X Problem
      BY <1>t, <1>f, <2>1
    <2> QED
      BY <1>t, <2>1, <2>2, <2>3
  <1>6. CASE Done(r) \/ Forget(r)
    <2>1. /\ call' \in {[call EXCEPT ![s][p] = "ended"], [call EXCEPT ![s][p] = "none"]}
          /\ reader[r].at # "idle" /\ UNCHANGED <<cached, marked, late, faults>>
      BY <1>6 DEF Done, Forget, cacheVars, s, p
    <2>2. \A e \in {"none", "ended"} :
            [call EXCEPT ![s][p] = e] \in [Server -> [Problem -> {"none", "running", "ended"}]]
      BY <1>t, <1>f, <2>1, TableUpdate
    <2> QED
      BY <1>t, <2>1, <2>2
  <1> QED
    BY <1>1, <1>2, <1>3, <1>4, <1>5, <1>6, <1>t DEF GetStep

-----------------------------------------------------------------------------
(***************************************************************************)
(* The writers and the passing of time.                                    *)
(***************************************************************************)

WriterStep(w) ==
  WriteStep(w) \/ \E p \in Problem : Create(w, p) \/ Update(w, p) \/ Delete(w, p)

TimeStep ==
  \/ \E c \in Cache, p \in Problem : Expire(c, p) \/ ExpireMark(c, p)
  \/ \E s \in Server : Scan(s) \/ Swap(s)

\* A write gives the row of a problem its next version, and no row stays none.
LEMMA WrittenType ==
  ASSUME CacheInv, NEW p \in Problem
  PROVE  /\ Written(p) \in [Problem -> Version \cup {Missing}]
         /\ \A q \in Problem : row[q] = Missing => Written(p)[q] = Missing
         /\ \A q \in Problem \ {p} : Written(p)[q] = row[q]
  <1>1. row \in [Problem -> Version \cup {Missing}]
    BY DEF CacheInv, TypeOK
  <1>2. row[p] # Missing => row[p] + 1 \in Version
    BY <1>1 DEF Version
  <1> QED
    BY <1>1, <1>2 DEF Written

\* What a writer's move does to it.
LEMMA MoveType ==
  ASSUME CacheInv, NEW w \in Writer, NEW p \in Problem,
         NEW from, NEW to \in {"number", "label", "register", "tags", "drop", "done"},
         Move(w, from, to, p)
  PROVE  /\ writer' \in [Writer -> [at : {"idle", "number", "label", "register", "tags", "drop",
                                          "done"}, id : Problem \cup {Missing}]]
         /\ \A v \in Writer : writer'[v].at # "idle" => writer'[v].id \in Problem
         /\ \A v \in Writer \ {w} : writer'[v] = writer[v]
         /\ writer[w].at = from /\ writer'[w].at = to /\ writer'[w].id = p
  BY DEF CacheInv, TypeOK, RowInv, Move

Rest == /\ redis \in BOOLEAN /\ marked \in [Cache -> SUBSET Problem]
        /\ filter \in [Server -> SUBSET Problem]
        /\ scanned \in [Server -> {{Missing}} \cup SUBSET Problem]
        /\ cached \in [Cache -> [Problem -> Version \cup {Missing}]]

\* A write to a row leaves the readers and the caches alone.
LEMMA RowKeeps ==
  ASSUME CacheInv, NEW w \in Writer, NEW p \in Problem,
         NEW from, NEW to \in {"number", "label", "register", "tags", "drop", "done"},
         Move(w, from, to, p),
         row' \in [Problem -> Version \cup {Missing}], deleted' \subseteq Problem,
         \A q \in deleted' : row'[q] = Missing, late' \subseteq Cache \X Problem,
         UNCHANGED <<redis, cached, marked, filter, scanned, call, reader, faults>>
  PROVE  CacheInv'
  <1>1. Rest'
    BY DEF CacheInv, TypeOK, Rest
  <1>2. CallInv' /\ RowInv'
    BY MoveType DEF CacheInv, CallInv, RowInv
  <1>3. /\ call' \in [Server -> [Problem -> {"none", "running", "ended"}]]
        /\ reader' \in [Reader -> [at : {"idle", "cached", "marked", "join", "wait", "query", "fill",
                                         "end", "forget"},
                                   id : Problem \cup {Missing}, got : Version \cup {Missing}]]
        /\ \A r \in Reader : reader'[r].at = "wait" => call'[Host[r]][reader'[r].id] = "running"
        /\ faults' \in 0 .. MaxFaults
    BY DEF CacheInv, TypeOK
  <1>4. writer' \in [Writer -> [at : {"idle", "number", "label", "register", "tags", "drop", "done"},
                                id : Problem \cup {Missing}]]
    BY MoveType
  <1>5. TypeOK'
    BY <1>1, <1>3, <1>4 DEF TypeOK, Rest
  <1> QED
    BY <1>2, <1>5 DEF CacheInv

\* A writer's step keeps the types, and no deleted problem gets a row.
LEMMA WriterKeeps ==
  ASSUME CacheInv, NEW w \in Writer, WriterStep(w)
  PROVE  CacheInv'
  <1>t. TypeOK /\ CallInv /\ RowInv
    BY DEF CacheInv
  <1>h. Host[w] \in Process /\ CacheOf(Host[w]) \in Cache
    BY CacheAssumption DEF CacheAssumption, CacheOf, Cache
  <1>f. MaxFaults \in Nat
    BY CacheAssumption DEF CacheAssumption
  <1>w. writer[w].at # "idle" => writer[w].id \in Problem
    BY <1>t DEF RowInv
  <1>r. /\ row \in [Problem -> Version \cup {Missing}] /\ deleted \subseteq Problem
        /\ late \subseteq Cache \X Problem /\ \A q \in deleted : row[q] = Missing
    BY <1>t DEF TypeOK, RowInv
  <1>1. ASSUME NEW p \in Problem, Create(w, p)  PROVE CacheInv'
    <2>1. 0 \in Version /\ Move(w, "idle", "number", p)
      BY <1>1 DEF Create, Version
    <2>2. /\ row' \in [Problem -> Version \cup {Missing}] /\ deleted' \subseteq Problem
          /\ \A q \in deleted' : row'[q] = Missing
      BY <1>1, <1>r, <2>1 DEF Create
    <2>3. late' = late /\ UNCHANGED <<redis, cached, marked, filter, scanned, call, reader, faults>>
      BY <1>1 DEF Create, cacheVars, bloomVars
    <2> QED
      BY <1>r, <2>1, <2>2, <2>3, RowKeeps
  <1>2. CASE Complete(w)
    <2> DEFINE p == writer[w].id
    <2>1. p \in Problem /\ (Move(w, "number", "label", p) \/ Move(w, "label", "register", p))
      BY <1>2, <1>w DEF Complete, Move
    <2>2. /\ row' = Written(p) /\ late' = LeftBehind(p)
          /\ UNCHANGED <<redis, deleted, cached, marked, filter, scanned, call, reader, faults>>
      BY <1>2 DEF Complete, bloomVars
    <2>3. late' \subseteq Cache \X Problem
      BY <1>r, <2>1, <2>2 DEF LeftBehind
    <2> HIDE DEF p
    <2>4. row' \in [Problem -> Version \cup {Missing}] /\ \A q \in deleted' : row'[q] = Missing
      BY <1>r, <2>1, <2>2, WrittenType
    <2> QED
      BY <1>r, <2>1, <2>2, <2>3, <2>4, RowKeeps
  <1>3. CASE AddProblemID(w)
    <2> DEFINE p == writer[w].id
    <2>1. p \in Problem /\ Move(w, "register", "done", p)
      BY <1>3, <1>w DEF AddProblemID, Move
    <2>2. /\ filter' = [filter EXCEPT ![Host[w]] = @ \cup {p}]
          /\ UNCHANGED <<redis, row, deleted, cached, marked, late, scanned, call, reader, faults>>
      BY <1>3 DEF AddProblemID, dataVars, cacheVars
    <2>3. filter' \in [Server -> SUBSET Problem]
      BY <1>t, <2>1, <2>2 DEF TypeOK
    <2> HIDE DEF p
    <2> QED
      BY <1>t, <2>1, <2>2, <2>3, MoveType DEF CacheInv, TypeOK, CallInv, RowInv
  <1>4. ASSUME NEW p \in Problem,
               \/ Move(w, "idle", "drop", p) \/ Move(w, "idle", "tags", p) \/ Move(w, "tags", "drop", p),
               row' = Written(p),
               UNCHANGED <<redis, deleted, cacheVars, bloomVars, call, reader, faults>>
        PROVE  CacheInv'
    <2>1. /\ row' \in [Problem -> Version \cup {Missing}] /\ deleted' \subseteq Problem
          /\ \A q \in deleted' : row'[q] = Missing
      BY <1>4, <1>r, WrittenType
    <2>2. late' = late /\ UNCHANGED <<redis, cached, marked, filter, scanned, call, reader, faults>>
      BY <1>4 DEF cacheVars, bloomVars
    <2> QED
      BY <1>4, <1>r, <2>1, <2>2, RowKeeps
  <1>5. ASSUME NEW p \in Problem, Delete(w, p)  PROVE CacheInv'
    <2>1. Move(w, "idle", "drop", p)
      BY <1>5 DEF Delete
    <2>2. /\ row' \in [Problem -> Version \cup {Missing}] /\ deleted' \subseteq Problem
          /\ \A q \in deleted' : row'[q] = Missing
      BY <1>5, <1>r DEF Delete
    <2>3. late' = late /\ UNCHANGED <<redis, cached, marked, filter, scanned, call, reader, faults>>
      BY <1>5 DEF Delete, cacheVars, bloomVars
    <2> QED
      BY <1>r, <2>1, <2>2, <2>3, RowKeeps
  <1>6. CASE SyncTags(w)
    <2>1. Move(w, "tags", "drop", writer[w].id) /\ writer[w].id \in Problem
      BY <1>6, <1>w DEF SyncTags, Move
    <2> QED
      BY <1>4, <1>6, <2>1 DEF SyncTags
  <1>7. CASE Invalidate(w)
    <2> DEFINE p == writer[w].id
               c == CacheOf(Host[w])
    <2>1. p \in Problem /\ Move(w, "drop", "done", p) /\ c \in Cache
      BY <1>7, <1>w, <1>h DEF Invalidate, Move
    <2>2. /\ cached' \in {cached, [cached EXCEPT ![c][p] = Missing]}
          /\ late' \in {late \cup {<<c, p>>}, late \ {<<c, p>>}}
          /\ UNCHANGED <<redis, row, deleted, marked, filter, scanned, call, reader>>
      BY <1>7 DEF Invalidate, Drop, dataVars, bloomVars
    <2>3. faults' \in 0 .. MaxFaults
      BY <1>7, <1>t, <1>f DEF Invalidate, TypeOK
    <2> HIDE DEF p, c
    <2>4. cached' \in [Cache -> [Problem -> Version \cup {Missing}]]
      <3>1. cached \in [Cache -> [Problem -> Version \cup {Missing}]]
        BY <1>t DEF TypeOK
      <3>2. [cached EXCEPT ![c][p] = Missing] \in [Cache -> [Problem -> Version \cup {Missing}]]
        BY <2>1, <3>1, TableUpdate
      <3> QED
        BY <2>2, <3>1, <3>2
    <2>5. late' \subseteq Cache \X Problem
      BY <1>t, <2>1, <2>2 DEF TypeOK
    <2> QED
      BY <1>t, <2>1, <2>2, <2>3, <2>4, <2>5, MoveType DEF CacheInv, TypeOK, CallInv, RowInv
  <1> QED
    BY <1>1, <1>2, <1>3, <1>4, <1>5, <1>6, <1>7 DEF WriterStep, WriteStep, Update

\* So does time.
LEMMA TimeKeeps ==
  ASSUME CacheInv, TimeStep
  PROVE  CacheInv'
  <1>t. TypeOK /\ CallInv /\ RowInv
    BY DEF CacheInv
  <1>1. ASSUME NEW c \in Cache, NEW p \in Problem, Expire(c, p)  PROVE CacheInv'
    BY <1>1, <1>t DEF CacheInv, TypeOK, CallInv, RowInv, Expire, Drop, dataVars, bloomVars
  <1>2. ASSUME NEW c \in Cache, NEW p \in Problem, ExpireMark(c, p)  PROVE CacheInv'
    BY <1>2, <1>t DEF CacheInv, TypeOK, CallInv, RowInv, ExpireMark, dataVars, bloomVars
  <1>3. ASSUME NEW s \in Server, Scan(s)  PROVE CacheInv'
    BY <1>3, <1>t DEF CacheInv, TypeOK, CallInv, RowInv, Scan, dataVars, cacheVars
  <1>4. ASSUME NEW s \in Server, Swap(s)  PROVE CacheInv'
    <2>1. scanned[s] \subseteq Problem
      BY <1>4, <1>t DEF TypeOK, Swap
    <2> QED
      BY <1>4, <1>t, <2>1 DEF CacheInv, TypeOK, CallInv, RowInv, Swap, dataVars, cacheVars
  <1> QED
    BY <1>1, <1>2, <1>3, <1>4 DEF TimeStep

-----------------------------------------------------------------------------
(***************************************************************************)
(* The theorems.                                                           *)
(***************************************************************************)

\* A step is one of a reader, of a writer, or of time.
LEMMA StepOf ==
  ASSUME [Next]_vars
  PROVE  \/ \E r \in Reader : GetStep(r) \/ \E p \in Problem : Get(r, p)
         \/ \E w \in Writer : WriterStep(w)
         \/ TimeStep
         \/ UNCHANGED vars
  BY DEF Next, WriterStep, TimeStep

LEMMA CacheStart == Init => CacheInv
  <1> SUFFICES ASSUME Init  PROVE CacheInv
    OBVIOUS
  <1>1. Resting \in ReaderType /\ Resting.at = "idle" /\ 0 \in Version /\ 0 \in 0 .. MaxFaults
    BY CacheAssumption DEF Resting, ReaderType, At, Version, CacheAssumption
  <1>2. \A w \in Writer : writer[w].at = "idle" /\ writer[w].id = Missing
    BY DEF Init
  <1> QED
    BY <1>1, <1>2 DEF Init, CacheInv, TypeOK, CallInv, RowInv, ReaderType, At, Loads

LEMMA CacheStep == CacheInv /\ [Next]_vars => CacheInv'
  <1> SUFFICES ASSUME CacheInv, [Next]_vars  PROVE CacheInv'
    OBVIOUS
  <1>1. ASSUME NEW r \in Reader, GetStep(r) \/ \E p \in Problem : Get(r, p)  PROVE CacheInv'
    <2>1. ReaderTypes' /\ CallInv'
      BY <1>1, GetReaders
    <2>2. UNCHANGED <<redis, row, deleted, filter, scanned, writer>>
      BY <1>1, GetLeaves
    <2>3. /\ cached' \in [Cache -> [Problem -> Version \cup {Missing}]]
          /\ marked' \in [Cache -> SUBSET Problem] /\ late' \subseteq Cache \X Problem
          /\ call' \in [Server -> [Problem -> {"none", "running", "ended"}]]
          /\ faults' \in 0 .. MaxFaults
      BY <1>1, GetStores
    <2>4. TypeOK'
      BY <2>1, <2>2, <2>3 DEF CacheInv, TypeOK, ReaderTypes, ReaderType, At
    <2> QED
      BY <2>1, <2>2, <2>4 DEF CacheInv, RowInv
  <1>2. CASE UNCHANGED vars
    BY <1>2 DEF CacheInv, TypeOK, CallInv, RowInv, vars, dataVars, cacheVars, bloomVars
  <1> QED
    BY <1>1, <1>2, StepOf, WriterKeeps, TimeKeeps

\* The type invariant; a reader that waits has a running load to wait for.
THEOREM CacheTypes == Spec => []TypeOK
  <1>1. CacheInv => TypeOK
    BY DEF CacheInv
  <1> QED
    BY <1>1, CacheStart, CacheStep, PTL DEF Spec

\* OneLoader: cache.Do lets one request at a time load a problem in each process.
THEOREM LoadsAreMerged == Spec => []OneLoader
  <1>1. CacheInv => OneLoader
    <2> SUFFICES ASSUME CacheInv, NEW s \in Server, NEW p \in Problem
                 PROVE  Cardinality(Loading(s, p)) <= 1
      BY DEF OneLoader
    <2>1. \A q, r \in Loading(s, p) : q = r
      BY DEF CacheInv, CallInv, Loads, Loading
    <2>2. CASE Loading(s, p) = {}
      BY <2>2, FS_EmptySet
    <2>3. CASE Loading(s, p) # {}
      <3>1. PICK r \in Loading(s, p) : Loading(s, p) = {r}
        BY <2>1, <2>3
      <3>2. Cardinality({r}) = 1
        BY FS_Singleton
      <3> QED
        BY <3>1, <3>2
    <2> QED
      BY <2>2, <2>3
  <1> QED
    BY <1>1, CacheStart, CacheStep, PTL DEF Spec

\* StaleHasCause: with Redis an outdated problem is between a write and its Del, or was
\* left behind by a load overtaken by a write, a Create or a failed Del.
THEOREM StalenessExplained == Spec => []StaleHasCause
  <1>1. Init => StaleHasCause
    BY DEF Init, StaleHasCause, Cache
  <1>2. CacheInv /\ StaleHasCause /\ [Next]_vars => StaleHasCause'
    <2> SUFFICES ASSUME CacheInv, StaleHasCause, [Next]_vars, redis', NEW p \in Problem,
                        cached'["redis"][p] \notin {row'[p], Missing}
                 PROVE  \/ <<"redis", p>> \in late'
                        \/ \E w \in Writer : writer'[w].at \in {"tags", "drop"} /\ writer'[w].id = p
      BY DEF StaleHasCause
    <2> DEFINE Goal == \/ <<"redis", p>> \in late'
                       \/ \E w \in Writer : writer'[w].at \in {"tags", "drop"} /\ writer'[w].id = p
               Cause == \/ <<"redis", p>> \in late
                        \/ \E w \in Writer : writer[w].at \in {"tags", "drop"} /\ writer[w].id = p
    <2>t. /\ row \in [Problem -> Version \cup {Missing}] /\ "redis" \in Cache
          /\ cached \in [Cache -> [Problem -> Version \cup {Missing}]]
      BY DEF CacheInv, TypeOK, Cache
    <2>s. cached["redis"][p] \notin {row[p], Missing} /\ redis => Cause
      BY DEF StaleHasCause
    <2>1. ASSUME NEW r \in Reader, GetStep(r) \/ \E q \in Problem : Get(r, q)  PROVE Goal
      <3>1. UNCHANGED <<redis, row, writer>>
        BY <2>1, GetLeaves
      <3>2. CASE Fill(r)
        <4>1. CacheOf(Host[r]) = "redis" /\ reader[r].id \in Problem
          BY <3>1, <3>2, ReaderFacts DEF CacheOf, Fill
        <4> QED
          BY <2>s, <2>t, <3>1, <3>2, <4>1 DEF Fill
      <3>3. CASE ~Fill(r)
        <4>1. cached' = cached /\ late' = late
          BY <2>1, <3>3 DEF GetStep, Get, ReadCached, ReadMarked, Do, Query, Done, Forget, cacheVars
        <4> QED
          BY <2>s, <3>1, <4>1
      <3> QED
        BY <3>2, <3>3
    <2>2. ASSUME NEW w \in Writer, WriterStep(w)  PROVE Goal
      <3>k. Cause /\ late \subseteq late' /\ ~Invalidate(w) => Goal
        <4>1. ASSUME NEW v \in Writer, writer[v].at \in {"tags", "drop"}, writer[v].id = p,
                     ~Invalidate(w)
              PROVE  writer'[v].at \in {"tags", "drop"} /\ writer'[v].id = p
          <5>1. PICK from \in {"idle", "number", "label", "register", "tags"},
                     to \in {"number", "label", "register", "tags", "drop", "done"},
                     q \in Problem :
                  /\ Move(w, from, to, q)
                  /\ from = "tags" => to = "drop" /\ q = writer[w].id
            BY <2>2, <4>1 DEF WriterStep, WriteStep, Create, Complete, AddProblemID, Update, SyncTags,
                              Delete, Move, CacheInv, RowInv
          <5>2. writer' = [writer EXCEPT ![w] = [at |-> to, id |-> q]] /\ writer[w].at = from
            BY <5>1 DEF Move
          <5>3. CASE v = w
            BY <4>1, <5>1, <5>2, <5>3 DEF CacheInv, TypeOK
          <5>4. CASE v # w
            BY <4>1, <5>2, <5>4 DEF CacheInv, TypeOK
          <5> QED
            BY <5>3, <5>4
        <4> QED
          BY <4>1
      <3>1. ASSUME NEW q \in Problem, Create(w, q)  PROVE Goal
        BY <2>s, <2>t, <3>1, <3>k DEF Create, cacheVars, Invalidate, Move
      <3>2. CASE Complete(w)
        <4> DEFINE q == writer[w].id
        <4>1. /\ row' = Written(q) /\ late' = LeftBehind(q) /\ cached' = cached /\ redis' = redis
              /\ q \in Problem /\ late \subseteq late' /\ ~Invalidate(w)
          BY <3>2 DEF Complete, LeftBehind, Move, CacheInv, RowInv, Invalidate
        <4> HIDE DEF q
        <4>2. CASE q = p
          BY <2>t, <4>1, <4>2 DEF LeftBehind
        <4>3. CASE q # p
          <5>1. row'[p] = row[p]
            BY <4>1, <4>3, WrittenType
          <5> QED
            BY <2>s, <3>k, <4>1, <5>1
        <4> QED
          BY <4>2, <4>3
      <3>3. CASE AddProblemID(w)
        BY <2>s, <3>3, <3>k DEF AddProblemID, dataVars, cacheVars, Invalidate, Move
      <3>4. ASSUME NEW q \in Problem, Update(w, q)  PROVE Goal
        <4>1. CASE q = p
          BY <3>4, <4>1 DEF Update, Move, CacheInv, TypeOK
        <4>2. CASE q # p
          <5>1. row'[p] = row[p]
            BY <3>4, <4>2, WrittenType DEF Update
          <5> QED
            BY <2>s, <3>4, <3>k, <5>1 DEF Update, cacheVars, Invalidate, Move
        <4> QED
          BY <4>1, <4>2
      <3>5. CASE SyncTags(w)
        <4>1. CASE writer[w].id = p
          BY <3>5, <4>1 DEF SyncTags, Move, CacheInv, TypeOK
        <4>2. CASE writer[w].id # p
          <5>1. row'[p] = row[p]
            BY <2>t, <3>5, <4>2 DEF SyncTags, Written
          <5> QED
            BY <2>s, <3>5, <3>k, <5>1 DEF SyncTags, cacheVars, Invalidate, Move
        <4> QED
          BY <4>1, <4>2
      <3>6. ASSUME NEW q \in Problem, Delete(w, q)  PROVE Goal
        <4>1. CASE q = p
          BY <3>6, <4>1 DEF Delete, Move, CacheInv, TypeOK
        <4>2. CASE q # p
          <5>1. row'[p] = row[p]
            BY <2>t, <3>6, <4>2 DEF Delete
          <5> QED
            BY <2>s, <3>6, <3>k, <5>1 DEF Delete, cacheVars, Invalidate, Move
        <4> QED
          BY <4>1, <4>2
      <3>7. CASE Invalidate(w)
        <4> DEFINE q == writer[w].id
        <4>1. /\ redis' = redis /\ row' = row /\ q \in Problem /\ CacheOf(Host[w]) = "redis"
              /\ \A v \in Writer \ {w} : writer'[v] = writer[v]
          BY <3>7 DEF Invalidate, dataVars, CacheOf, Move, CacheInv, RowInv, TypeOK
        <4>2. \/ cached' = [cached EXCEPT !["redis"][q] = Missing] /\ late' = late \ {<<"redis", q>>}
              \/ cached' = cached /\ late' = late \cup {<<"redis", q>>}
          BY <3>7, <4>1 DEF Invalidate, Drop
        <4> HIDE DEF q
        <4>3. CASE q = p
          BY <2>t, <4>1, <4>2, <4>3
        <4>4. CASE q # p
          <5>1. cached'["redis"][p] = cached["redis"][p] /\ (<<"redis", p>> \in late => <<"redis", p>> \in late')
            BY <2>t, <4>1, <4>2, <4>4
          <5>2. Cause
            BY <2>s, <4>1, <5>1
          <5>3. ASSUME NEW v \in Writer, writer[v].at \in {"tags", "drop"}, writer[v].id = p
                PROVE  writer'[v] = writer[v]
            BY <4>1, <4>4, <5>3 DEF q
          <5> QED
            BY <5>1, <5>2, <5>3
        <4> QED
          BY <4>3, <4>4
      <3> QED
        BY <2>2, <3>1, <3>2, <3>3, <3>4, <3>5, <3>6, <3>7 DEF WriterStep, WriteStep
    <2>3. CASE TimeStep
      <3>1. ASSUME NEW c \in Cache, NEW q \in Problem, Expire(c, q)  PROVE Goal
        <4>1. cached'["redis"][p] = cached["redis"][p] /\ ~(c = "redis" /\ q = p)
          BY <2>t, <3>1 DEF Expire, Drop
        <4> QED
          BY <2>s, <3>1, <4>1 DEF Expire, Drop, dataVars
      <3>2. ASSUME NEW c \in Cache, NEW q \in Problem, ExpireMark(c, q)  PROVE Goal
        BY <2>s, <3>2 DEF ExpireMark, dataVars
      <3>3. ASSUME NEW s \in Server, Scan(s) \/ Swap(s)  PROVE Goal
        BY <2>s, <3>3 DEF Scan, Swap, dataVars, cacheVars
      <3> QED
        BY <2>3, <3>1, <3>2, <3>3 DEF TimeStep
    <2>4. CASE UNCHANGED vars
      BY <2>s, <2>4 DEF vars, dataVars, cacheVars
    <2> QED
      BY <2>1, <2>2, <2>3, <2>4, StepOf
  <1> QED
    BY <1>1, <1>2, CacheStart, CacheStep, PTL DEF Spec

\* GoneStaysGone: once a deleted problem has left every cache and every load, it never
\* comes back.
THEOREM DeletedStaysGone == Spec => GoneStaysGone
  <1>1. CacheInv /\ [Next]_vars => [\A p \in Problem : Gone(p) => Gone(p)']_vars
    <2> SUFFICES ASSUME CacheInv, [Next]_vars, NEW p \in Problem, Gone(p)  PROVE Gone(p)'
      OBVIOUS
    <2>t. /\ cached \in [Cache -> [Problem -> Version \cup {Missing}]]
          /\ reader \in [Reader -> ReaderType] /\ row[p] = Missing
      BY DEF CacheInv, TypeOK, RowInv, Gone, ReaderType, At
    <2>1. ASSUME NEW r \in Reader, GetStep(r) \/ \E q \in Problem : Get(r, q)  PROVE Gone(p)'
      <3>1. UNCHANGED deleted
        BY <2>1, GetLeaves
      <3>2. \A c \in Cache : cached'[c][p] = Missing
        <4>1. CASE Fill(r)
          BY <2>t, <4>1 DEF Fill, Gone
        <4>2. CASE ~Fill(r)
          BY <2>1, <4>2 DEF GetStep, Get, ReadCached, ReadMarked, Do, Query, Done, Forget, cacheVars,
                            Gone
        <4> QED
          BY <4>1, <4>2
      <3>3. \A q \in Reader : reader'[q].id = p => reader'[q].got = Missing
        BY <2>1, <2>t DEF GetStep, Get, ReadCached, ReadMarked, Do, Query, Fill, Done, Forget, Waiting,
                          GoTo, Answer, Resting, Gone, ReaderType
      <3> QED
        BY <3>1, <3>2, <3>3 DEF Gone
    <2>2. ASSUME NEW w \in Writer, WriterStep(w)  PROVE Gone(p)'
      BY <2>2, <2>t DEF WriterStep, WriteStep, Create, Complete, AddProblemID, Update, SyncTags,
                        Delete, Invalidate, Drop, dataVars, cacheVars, Gone
    <2>3. CASE TimeStep
      BY <2>3, <2>t DEF TimeStep, Expire, ExpireMark, Scan, Swap, Drop, dataVars, cacheVars, Gone
    <2>4. CASE UNCHANGED vars
      BY <2>4 DEF vars, dataVars, cacheVars, Gone
    <2> QED
      BY <2>1, <2>2, <2>3, <2>4, StepOf
  <1> QED
    BY <1>1, CacheStart, CacheStep, PTL DEF Spec, GoneStaysGone
=============================================================================
