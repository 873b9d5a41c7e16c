----------------------------- MODULE ProblemCache -----------------------------
(***************************************************************************)
(* The problem detail page: ProblemHandler.Get (internal/handler/          *)
(* problem.go) asks the Bloom filter (internal/cache/bloom.go), the cached *)
(* problem, the null marker and at last the database, with concurrent      *)
(* loads merged by cache.Do (internal/cache/redis.go).  Administrators     *)
(* create, update and delete problems and JudgeTask counts a solver: they  *)
(* write the row first and drop the cached problem afterwards, while       *)
(* rebuild replaces the filter from time to time.                          *)
(*                                                                         *)
(* A row is abstracted to its version, the number of writes it has seen.   *)
(***************************************************************************)
EXTENDS Naturals, FiniteSets

CONSTANTS
  Process,     \* processes that share the database
  Server,      \* those of cmd/server, which have a filter; the others only judge
  Reader,      \* concurrent calls of Get, each repeated for ever
  Writer,      \* calls of Create, Update, Delete and JudgeTask, one each
  Problem,     \* problem ids
  Host,        \* Host[x]: the process that runs x, a reader or a writer
  Lucky,       \* ids that every filter takes for members: its false positives
  MaxFaults,   \* bound: failed queries and failed Redis deletions
  Missing      \* no row, no cached value

ASSUME CacheAssumption ==
  /\ Server \subseteq Process /\ Lucky \subseteq Problem
  /\ Host \in [Reader \cup Writer -> Process]
  /\ \A r \in Reader : Host[r] \in Server
  /\ MaxFaults \in Nat
  /\ Missing \notin Nat

VARIABLES
  redis,      \* whether cache.Init reached Redis: one cache for all, or one each
  row,        \* row[p]: version of the problem's row, or Missing
  deleted,    \* ids deleted: auto_increment never hands them out again
  cached,     \* cached[c][p]: version under "problem:<id>" in cache c
  marked,     \* marked[c]: ids with a "problem:null:<id>" key in cache c
  filter,     \* filter[s]: ids added to the Bloom filter of s
  scanned,    \* scanned[s]: the ids a running rebuild of s has read, {Missing} if none runs
  call,       \* call[s][p]: the entry of sfCalls: none, running or ended
  reader,     \* reader[r]: where r is in Get, for which id, and what it loaded
  writer,     \* writer[w]: where w is, and for which id
  faults,     \* how much of MaxFaults is used
  late        \* history: cache entries that a race or a fault left outdated

dataVars  == <<row, deleted>>
cacheVars == <<cached, marked, late>>
bloomVars == <<filter, scanned>>
vars == <<redis, dataVars, cacheVars, bloomVars, call, reader, writer, faults>>

Cache   == Process \cup {"redis"}
Version == Nat

\* The cache that process s uses.
CacheOf(s) == IF redis THEN "redis" ELSE s

Resting == [at |-> "idle", id |-> Missing, got |-> Missing]

Init ==
  /\ redis \in BOOLEAN
  /\ row \in [Problem -> {0, Missing}]
  /\ deleted = {}
  /\ cached = [c \in Cache |-> [p \in Problem |-> Missing]]
  /\ marked = [c \in Cache |-> {}]
  /\ filter = [s \in Server |-> {p \in Problem : row[p] # Missing}]
  /\ scanned = [s \in Server |-> {Missing}]
  /\ call = [s \in Server |-> [p \in Problem |-> "none"]]
  /\ reader = [r \in Reader |-> Resting]
  /\ writer = [w \in Writer |-> [at |-> "idle", id |-> Missing]]
  /\ faults = 0
  /\ late = {}

\* Cache c no longer holds problem p.
Drop(c, p) ==
  /\ cached' = [cached EXCEPT ![c][p] = Missing]
  /\ late' = late \ {<<c, p>>}

-----------------------------------------------------------------------------
(***************************************************************************)
(* ProblemHandler.Get.                                                     *)
(***************************************************************************)

MightHaveProblem(s, p) == p \in filter[s] \cup Lucky

GoTo(r, place) == reader' = [reader EXCEPT ![r].at = place]
Answer(r)      == reader' = [reader EXCEPT ![r] = Resting]

\* An id the filter does not know is answered at once and changes nothing.
Get(r, p) ==
  /\ reader[r].at = "idle"
  /\ MightHaveProblem(Host[r], p)
  /\ reader' = [reader EXCEPT ![r] = [at |-> "cached", id |-> p, got |-> Missing]]
  /\ UNCHANGED <<redis, dataVars, cacheVars, bloomVars, call, writer, faults>>

\* A hit ends the call, a miss goes on to the null marker.
ReadCached(r) ==
  /\ reader[r].at = "cached"
  /\ IF cached[CacheOf(Host[r])][reader[r].id] # Missing THEN Answer(r) ELSE GoTo(r, "marked")
  /\ UNCHANGED <<redis, dataVars, cacheVars, bloomVars, call, writer, faults>>

ReadMarked(r) ==
  /\ reader[r].at = "marked"
  /\ IF reader[r].id \in marked[CacheOf(Host[r])] THEN Answer(r) ELSE GoTo(r, "join")
  /\ UNCHANGED <<redis, dataVars, cacheVars, bloomVars, call, writer, faults>>

\* Mutant of Do: the lock is released between the look-up and the entry.
DoUnlocked(r) ==
  LET s == Host[r]  p == reader[r].id IN
  \/ /\ reader[r].at = "join"
     /\ call[s][p] # "ended"
     /\ call' = [call EXCEPT ![s][p] = "running"]
     /\ GoTo(r, "query")
     /\ UNCHANGED <<redis, dataVars, cacheVars, bloomVars, writer, faults>>
  \/ /\ reader[r].at = "join" /\ call[s][p] = "ended" /\ Answer(r)
     /\ UNCHANGED <<redis, dataVars, cacheVars, bloomVars, call, writer, faults>>

\* cache.Do, under sfMu: lead a call of one's own, wait for the one that runs, or
\* take the result of one that has ended and is not yet forgotten.
Do(r) ==
  LET s == Host[r]  p == reader[r].id IN
  /\ reader[r].at = "join"
  /\ \/ /\ call[s][p] = "none"
        /\ call' = [call EXCEPT ![s][p] = "running"]
        /\ GoTo(r, "query")
     \/ call[s][p] = "running" /\ GoTo(r, "wait") /\ UNCHANGED call
     \/ call[s][p] = "ended" /\ Answer(r) /\ UNCHANGED call
  /\ UNCHANGED <<redis, dataVars, cacheVars, bloomVars, writer, faults>>

\* The leader's query.  Any error counts as "no such problem".
Query(r) ==
  /\ reader[r].at = "query"
  /\ \/ reader' = [reader EXCEPT ![r] = [at |-> "fill", id |-> @.id, got |-> row[@.id]]] /\ UNCHANGED faults
     \/ faults < MaxFaults /\ faults' = faults + 1 /\ GoTo(r, "fill")
  /\ UNCHANGED <<redis, dataVars, cacheVars, bloomVars, call, writer>>

\* The leader stores what it loaded, be it outdated by now, or the null marker.
Fill(r) ==
  LET c == CacheOf(Host[r])  p == reader[r].id  v == reader[r].got IN
  /\ reader[r].at = "fill"
  /\ \/ /\ v # Missing
        /\ cached' = [cached EXCEPT ![c][p] = v]
        /\ late' = IF v = row[p] THEN late \ {<<c, p>>} ELSE late \cup {<<c, p>>}
        /\ UNCHANGED marked
     \/ v = Missing /\ marked' = [marked EXCEPT ![c] = @ \cup {p}] /\ UNCHANGED <<cached, late>>
  /\ GoTo(r, "end")
  /\ UNCHANGED <<redis, dataVars, bloomVars, call, writer, faults>>

Waiting(s, p) == {r \in Reader : Host[r] = s /\ reader[r].at = "wait" /\ reader[r].id = p}

\* Mutant of Done: an error return that skips wg.Done.
DoneOnSuccess(r) ==
  LET s == Host[r]  p == reader[r].id IN
  /\ reader[r].at = "end"
  /\ call' = [call EXCEPT ![s][p] = "ended"]
  /\ reader' = [q \in Reader |-> IF q \in Waiting(s, p) /\ reader[r].got # Missing THEN Resting
                                 ELSE IF q = r THEN [reader[r] EXCEPT !.at = "forget"]
                                 ELSE reader[q]]
  /\ UNCHANGED <<redis, dataVars, cacheVars, bloomVars, writer, faults>>

\* wg.Done: everyone who waits answers with the leader's result.
Done(r) ==
  LET s == Host[r]  p == reader[r].id IN
  /\ reader[r].at = "end"
  /\ call' = [call EXCEPT ![s][p] = "ended"]
  /\ reader' = [q \in Reader |-> IF q \in Waiting(s, p) THEN Resting
                                 ELSE IF q = r THEN [reader[r] EXCEPT !.at = "forget"]
                                 ELSE reader[q]]
  /\ UNCHANGED <<redis, dataVars, cacheVars, bloomVars, writer, faults>>

\* delete(sfCalls, key), and the leader answers.
Forget(r) ==
  /\ reader[r].at = "forget"
  /\ call' = [call EXCEPT ![Host[r]][reader[r].id] = "none"]
  /\ Answer(r)
  /\ UNCHANGED <<redis, dataVars, cacheVars, bloomVars, writer, faults>>

GetStep(r) ==
  ReadCached(r) \/ ReadMarked(r) \/ Do(r) \/ Query(r) \/ Fill(r) \/ Done(r) \/ Forget(r)

-----------------------------------------------------------------------------
(***************************************************************************)
(* The writers.                                                            *)
(***************************************************************************)

Move(w, from, to, p) ==
  /\ writer[w].at = from
  /\ writer' = [writer EXCEPT ![w] = [at |-> to, id |-> p]]

\* Create inserts the row ...
Create(w, p) ==
  /\ Host[w] \in Server
  /\ Move(w, "idle", "number", p)
  /\ row[p] = Missing /\ p \notin deleted
  /\ row' = [row EXCEPT ![p] = 0]
  /\ UNCHANGED <<redis, deleted, cacheVars, bloomVars, call, reader, faults>>

Written(p) == IF row[p] = Missing THEN row ELSE [row EXCEPT ![p] = @ + 1]

\* A write that no Del follows leaves cached copies behind.
LeftBehind(p) == late \cup {<<c, p>> : c \in {d \in Cache : cached[d][p] # Missing}}

\* ... sets its number, and then its tags, and leaves a cached problem alone ...
Complete(w) ==
  LET p == writer[w].id IN
  /\ Move(w, "number", "label", p) \/ Move(w, "label", "register", p)
  /\ row' = Written(p)
  /\ late' = LeftBehind(p)
  /\ UNCHANGED <<redis, deleted, cached, marked, bloomVars, call, reader, faults>>

\* ... and at last AddProblemID makes it known to the filter of this process.
AddProblemID(w) ==
  LET p == writer[w].id IN
  /\ Move(w, "register", "done", p)
  /\ filter' = [filter EXCEPT ![Host[w]] = @ \cup {p}]
  /\ UNCHANGED <<redis, dataVars, cacheVars, scanned, call, reader, faults>>

\* Mutant of Update: the cached problem is dropped first and the row written last.
UpdateAfterDrop(w, p) ==
  \/ /\ Move(w, "idle", "dropped", p)
     /\ Drop(CacheOf(Host[w]), p)
     /\ UNCHANGED <<redis, dataVars, marked, bloomVars, call, reader, faults>>
  \/ /\ Move(w, "dropped", "done", p)
     /\ row' = Written(p)
     /\ UNCHANGED <<redis, deleted, cacheVars, bloomVars, call, reader, faults>>

\* Update and JudgeTask write a row they have found before; by now it may be deleted.
Update(w, p) ==
  /\ row[p] # Missing \/ p \in deleted
  /\ \/ Move(w, "idle", "drop", p)
     \/ Host[w] \in Server /\ Move(w, "idle", "tags", p)
  /\ row' = Written(p)
  /\ UNCHANGED <<redis, deleted, cacheVars, bloomVars, call, reader, faults>>

\* Update writes the tags, if the request has any, after the row ...
SyncTags(w) ==
  LET p == writer[w].id IN
  /\ Move(w, "tags", "drop", p)
  /\ row' = Written(p)
  /\ UNCHANGED <<redis, deleted, cacheVars, bloomVars, call, reader, faults>>

Delete(w, p) ==
  /\ Host[w] \in Server
  /\ Move(w, "idle", "drop", p)
  /\ row[p] # Missing
  /\ row' = [row EXCEPT ![p] = Missing]
  /\ deleted' = deleted \cup {p}
  /\ UNCHANGED <<redis, cacheVars, bloomVars, call, reader, faults>>

\* Mutant of Invalidate: the problem as the writer knows it is stored instead.
StoreInstead(w) ==
  LET p == writer[w].id  c == CacheOf(Host[w]) IN
  /\ Move(w, "drop", "done", p)
  /\ cached' = [cached EXCEPT ![c][p] = 1]
  /\ late' = late \cup {<<c, p>>}
  /\ UNCHANGED <<redis, dataVars, marked, bloomVars, call, reader, faults>>

\* ... and drop it from the cache of their process; an error of Redis is ignored.
Invalidate(w) ==
  LET p == writer[w].id  c == CacheOf(Host[w]) IN
  /\ Move(w, "drop", "done", p)
  /\ \/ Drop(c, p) /\ UNCHANGED faults
     \/ /\ redis /\ faults < MaxFaults /\ faults' = faults + 1
        /\ late' = late \cup {<<c, p>>}
        /\ UNCHANGED cached
  /\ UNCHANGED <<redis, dataVars, marked, bloomVars, call, reader>>

WriteStep(w) == Complete(w) \/ AddProblemID(w) \/ SyncTags(w) \/ Invalidate(w)

-----------------------------------------------------------------------------
(***************************************************************************)
(* Time: entries expire, and the filter is rebuilt.                        *)
(***************************************************************************)

\* Mutant of Expire: Get of the in-memory fallback does not look at the expiry time.
ExpireInRedis(c, p) ==
  /\ c = "redis" /\ cached[c][p] # Missing
  /\ Drop(c, p)
  /\ UNCHANGED <<redis, dataVars, marked, bloomVars, call, reader, writer, faults>>

\* Cached problems live for ten minutes, null markers for five.
Expire(c, p) ==
  /\ cached[c][p] # Missing
  /\ Drop(c, p)
  /\ UNCHANGED <<redis, dataVars, marked, bloomVars, call, reader, writer, faults>>

ExpireMark(c, p) ==
  /\ p \in marked[c]
  /\ marked' = [marked EXCEPT ![c] = @ \ {p}]
  /\ UNCHANGED <<redis, dataVars, cached, late, bloomVars, call, reader, writer, faults>>

\* rebuild reads all ids ...
Scan(s) ==
  /\ scanned[s] = {Missing}
  /\ scanned' = [scanned EXCEPT ![s] = {p \in Problem : row[p] # Missing}]
  /\ UNCHANGED <<redis, dataVars, cacheVars, filter, call, reader, writer, faults>>

\* Mutant of Swap: the goroutine that rebuilds ends after its first round.
SwapAndStop(s) ==
  /\ scanned[s] # {Missing}
  /\ filter' = [filter EXCEPT ![s] = scanned[s]]
  /\ UNCHANGED <<redis, dataVars, cacheVars, scanned, call, reader, writer, faults>>

\* ... and replaces the filter; what was added to the old one meanwhile is lost.
Swap(s) ==
  /\ scanned[s] # {Missing}
  /\ filter' = [filter EXCEPT ![s] = scanned[s]]
  /\ scanned' = [scanned EXCEPT ![s] = {Missing}]
  /\ UNCHANGED <<redis, dataVars, cacheVars, call, reader, writer, faults>>

-----------------------------------------------------------------------------

Next ==
  \/ \E r \in Reader : GetStep(r) \/ \E p \in Problem : Get(r, p)
  \/ \E w \in Writer : WriteStep(w) \/ \E p \in Problem : Create(w, p) \/ Update(w, p) \/ Delete(w, p)
  \/ \E c \in Cache, p \in Problem : Expire(c, p) \/ ExpireMark(c, p)
  \/ \E s \in Server : Scan(s) \/ Swap(s)

Spec == Init /\ [][Next]_vars

\* A request that has begun is carried on by its goroutine, time passes, and the
\* loop of InitBloomFilter never ends.  Nobody has to ask for a problem.
Fairness ==
  /\ \A r \in Reader : WF_vars(GetStep(r))
  /\ \A w \in Writer : WF_vars(WriteStep(w))
  /\ \A c \in Cache, p \in Problem : WF_vars(Expire(c, p)) /\ WF_vars(ExpireMark(c, p))
  /\ \A s \in Server : WF_vars(Scan(s)) /\ WF_vars(Swap(s))

FairSpec == Spec /\ Fairness

-----------------------------------------------------------------------------
(***************************************************************************)
(* Properties.                                                             *)
(***************************************************************************)

\* Every variable keeps its range, and a reader that waits in cache.Do has an entry of
\* sfCalls to wait for.
TypeOK ==
  /\ redis \in BOOLEAN /\ deleted \subseteq Problem
  /\ row \in [Problem -> Version \cup {Missing}]
  /\ cached \in [Cache -> [Problem -> Version \cup {Missing}]]
  /\ marked \in [Cache -> SUBSET Problem]
  /\ filter \in [Server -> SUBSET Problem]
  /\ scanned \in [Server -> {{Missing}} \cup SUBSET Problem]
  /\ call \in [Server -> [Problem -> {"none", "running", "ended"}]]
  /\ reader \in [Reader -> [at : {"idle", "cached", "marked", "join", "wait", "query", "fill",
                                  "end", "forget"},
                            id : Problem \cup {Missing}, got : Version \cup {Missing}]]
  /\ \A r \in Reader : reader[r].at = "wait" => call[Host[r]][reader[r].id] = "running"
  /\ writer \in [Writer -> [at : {"idle", "number", "label", "register", "tags", "drop", "done"},
                            id : Problem \cup {Missing}]]
  /\ faults \in 0 .. MaxFaults
  /\ late \subseteq Cache \X Problem

Loading(s, p) == {r \in Reader : /\ Host[r] = s /\ reader[r].id = p
                                 /\ reader[r].at \in {"query", "fill", "end", "forget"}}

\* cache.Do: of all concurrent requests for one problem that a process serves, one
\* at a time queries the database, also while the last call's entry is taken out.
OneLoader ==
  \A s \in Server, p \in Problem : Cardinality(Loading(s, p)) <= 1

\* With Redis, a cached problem differs from its row only while a writer stands
\* between its write and its Del, or because a load overtaken by a write, a Create or
\* a failed Del left it behind: nothing else makes readers see an old problem.
StaleHasCause ==
  redis => \A p \in Problem :
    cached["redis"][p] \notin {row[p], Missing} =>
      \/ <<"redis", p>> \in late
      \/ \E w \in Writer : writer[w].at \in {"tags", "drop"} /\ writer[w].id = p

\* Nothing is left of a deleted problem: no cached value, and no load that has it.
Gone(p) ==
  /\ p \in deleted
  /\ \A c \in Cache : cached[c][p] = Missing
  /\ \A r \in Reader : reader[r].id = p => reader[r].got = Missing

\* A deleted problem that has once left every cache never comes back to one, whatever
\* loads, updates and judge tasks of it were still under way (Delete, JudgeTask).
GoneStaysGone == [][\A p \in Problem : Gone(p) => Gone(p)']_vars

\* Once the last write is over, every cache holds the current row or none: an old
\* problem is served no longer than its entry lives (cache.Set's TTL).
CacheConverges ==
  \A p \in Problem : <>[](\A s \in Server : cached[CacheOf(s)][p] \in {row[p], Missing})

\* A problem that exists is found by every process in the end, whatever filters lost
\* it in a rebuild and whatever null markers were set before it was created.
ExistingIsFound ==
  \A p \in Problem : <>[](\A s \in Server : row[p] # Missing =>
    p \in filter[s] /\ p \notin marked[CacheOf(s)])

\* Every request is answered: no one waits for ever for a load that another leads.
EveryGetAnswers ==
  \A r \in Reader : reader[r].at # "idle" ~> reader[r].at = "idle"
=============================================================================
