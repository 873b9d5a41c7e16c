--------------------------- MODULE TestData_proofs ---------------------------
(***************************************************************************)
(* What holds of the test cases for any number of requests, loads and      *)
(* cases: type correctness, and the two invariants that the run of         *)
(* MCTestData checks.                                                      *)
(***************************************************************************)
EXTENDS TestData, NaturalsInduction, WellFoundedInduction, TLAPS

-----------------------------------------------------------------------------
(***************************************************************************)
(* The inductive invariant.                                                *)
(***************************************************************************)

\* The store that request w changes.
On(w) == Target(req[w].op)

\* A request goes through the places of its operation, and has only files of its own
\* left, all of them until the old files are erased.
Routes(w) ==
  /\ req[w].op = "none" <=> ~Active(w)
  /\ req[w].op = "upload" => req[w].at \in {"erase", "write"}
  /\ req[w].op = "deleteAll" => req[w].at \in {"erase", "table", "end"} /\ req[w].files = {}
  /\ req[w].op \in {"add", "update"} => req[w].at = "write"
  /\ req[w].op = "delete" => req[w].at = "remove"
  /\ req[w].todo \subseteq req[w].files
  /\ req[w].at = "erase" => req[w].todo = req[w].files

\* A request that is alone is the only one on its store; one that is not leaves
\* the store unclean as long as it is active.
Alone(w) ==
  Active(w) => IF req[w].alone THEN ~OthersOn(w, On(w)) ELSE ~clean[On(w)]

\* All files of store s hold what was expected of it.
Matches(s) == store[s] = expect[s]

\* The files that request w is done with hold what will be expected of them.
Halfway(w) ==
  \A f \in File \ req[w].todo :
    store[On(w)][f] =
      IF f \in req[w].files THEN IF req[w].op = "delete" THEN NoFile ELSE w
      ELSE IF req[w].op \in Single THEN expect[On(w)][f] ELSE NoFile

\* What the store of a request holds that is alone; a change of one case needs a
\* store that is clean, an upload or a deletion has to have erased it.
Progress(w) ==
  Active(w) /\ req[w].alone /\ (req[w].op \in Single => clean[On(w)]) =>
    /\ req[w].at # "erase" => Halfway(w)
    /\ req[w].op = "add" =>
         req[w].files = Pair(Max(NumbersOf(expect["disk"]) \cup {0}) + 1)

\* A store that nobody changes is as expected.
AtRest(s) == clean[s] /\ (\A w \in Request : Active(w) => On(w) # s) => Matches(s)

RequestInv ==
  /\ \A w \in Request : Routes(w) /\ Alone(w) /\ Progress(w)
  /\ \A s \in Store : AtRest(s)

\* Case n as store s holds it.
Held(s, n) == IF n \in Numbers(s) THEN <<store[s][<<n, "in">>], store[s][<<n, "out">>]>> ELSE Nothing

\* A load can read case n of store s.
CanRead(s, n) == \A f \in Pair(n) : store[s][f] # NoFile
Readable(s) == Numbers(s) # {} /\ \A n \in Numbers(s) : CanRead(s, n)

\* The cases that a load has read, in the order of their numbers; a listing that
\* broke off makes it skip some.
HasRead(l) ==
  LET at == l.from
  IN /\ l.left \subseteq Numbers(at)
     /\ \A n \in CaseNo \ l.left : l.got[n] \in {Nothing, Held(at, n)}
     /\ l.input # NoFile =>
          l.left # {} /\ l.input = store[at][<<Min(l.left), "in">>]
     /\ ~l.failed =>
          /\ Numbers(at) # {}
          /\ \A n \in CaseNo \ l.left : l.got[n] = Held(at, n)
          /\ \A n \in Numbers(at) \ l.left : CanRead(at, n)

\* What a load has read if no file changes meanwhile, and why it went on to the
\* next store if none of its operations failed.
Position(l) ==
  /\ l.at \in {"list", "read"} => l.server
  /\ l.at \in {"list", "scan", "stat", "table"} => l.input = NoFile /\ l.got = Waiting.got
  /\ l.at \in {"scan", "stat", "files", "table"} /\ l.server /\ ~l.failed => ~Readable(default)
  /\ l.at = "read" => l.from = default
  /\ l.at = "stat" => l.left = Numbers("disk") /\ Numbers("disk") # {}
  /\ l.at \in {"stat", "files"} => l.from = "disk"
  /\ l.at \in {"read", "files"} => HasRead(l)
  /\ l.at = "table" /\ ~l.failed => ~Readable("disk")

\* While no file changes a clean store is as expected.
Undisturbed(r) ==
  load[r].at # "idle" /\ ~load[r].disturbed =>
    (\A s \in Store : clean[s] => Matches(s)) /\ Position(load[r])

\* A load that has not begun has read nothing.
NothingRead(r) ==
  load[r].at = "idle" => load[r].input = NoFile /\ load[r].got = Waiting.got /\ ~load[r].failed

LoadInv == \A r \in Load : NothingRead(r) /\ Undisturbed(r)

-----------------------------------------------------------------------------
(***************************************************************************)
(* Numbers, and the largest of them.                                       *)
(***************************************************************************)

\* Induction: a set of natural numbers that is not empty has a least element.
LEMMA LeastNumber ==
  ASSUME NEW T \in SUBSET Nat, T # {}
  PROVE  \E m \in T : \A k \in T : m <= k
<1>1. PICK m \in T : \A k \in T : <<k, m>> \notin OpToRel(<, Nat)
  BY NatLessThanWellFounded, WFMin, Zenon
<1>2. \A k \in T : ~(k < m)
  BY <1>1 DEF OpToRel
<1> QED
  BY <1>2

LEMMA MinIsSmallest ==
  ASSUME NEW S \in SUBSET Nat, S # {}
  PROVE  Min(S) \in S /\ \A x \in S : Min(S) <= x
  BY LeastNumber DEF Min

\* A set of case numbers has a largest one.
LEMMA MaxIsLargest ==
  ASSUME NEW S \in SUBSET (0 .. MaxCase), S # {}
  PROVE  Max(S) \in S /\ \A x \in S : Max(S) >= x
<1> DEFINE T == {MaxCase - x : x \in S}
<1>1. MaxCase \in Nat
  BY TestDataAssumption DEF TestDataAssumption
<1>2. T \in SUBSET Nat /\ T # {}
  <2>1. \A x \in S : MaxCase - x \in Nat
    BY <1>1
  <2> QED
    BY <2>1
<1>3. PICK m \in T : \A k \in T : m <= k
  BY <1>2, LeastNumber
<1>4. PICK x \in S : m = MaxCase - x
  BY <1>3
<1>5. \A y \in S : MaxCase - x <= MaxCase - y
  BY <1>3, <1>4
<1>6. \A y \in S : x >= y
  BY <1>1, <1>5
<1> QED
  BY <1>6 DEF Max

\* The number of an added case is one more than the largest, whether or not zero
\* counts as one.
LEMMA NextIsUnused ==
  ASSUME NEW S \in SUBSET CaseNo
  PROVE  /\ Max(S \cup {0}) + 1 \in Nat \ S
         /\ Max(S \cup {0}) + 1 = IF S = {} THEN 1 ELSE Max(S) + 1
<1>1. S \cup {0} \in SUBSET (0 .. MaxCase) /\ S \in SUBSET (0 .. MaxCase)
  BY TestDataAssumption DEF TestDataAssumption, CaseNo
<1>2. Max(S \cup {0}) \in S \cup {0} /\ \A x \in S \cup {0} : Max(S \cup {0}) >= x
  BY <1>1, MaxIsLargest
<1>3. CASE S = {}
  BY <1>2, <1>3
<1>4. CASE S # {}
  <2>1. Max(S) \in S /\ \A x \in S : Max(S) >= x
    BY <1>1, <1>4, MaxIsLargest
  <2>2. \A x \in S : x \in Nat /\ x # 0
    BY TestDataAssumption DEF TestDataAssumption, CaseNo
  <2>3. Max(S \cup {0}) \in Nat /\ Max(S) \in Nat \ {0}
    BY <1>2, <2>1, <2>2
  <2>4. Max(S \cup {0}) >= Max(S) /\ Max(S \cup {0}) \in S
    BY <1>2, <2>1, <2>3
  <2>5. Max(S \cup {0}) = Max(S)
    BY <2>1, <2>3, <2>4
  <2>6. Max(S) + 1 \notin S
    BY <2>1, <2>3
  <2> QED
    BY <1>4, <2>3, <2>5, <2>6
<1> QED
  BY <1>3, <1>4

\* The case that a request adds.
LEMMA AddedCase ==
  ASSUME NextNum <= MaxCase
  PROVE  NextNum \in CaseNo
<1>1. Numbers("disk") \in SUBSET CaseNo
  BY DEF Numbers, NumbersOf
<1>2. Max(Numbers("disk") \cup {0}) + 1 = NextNum /\ NextNum \in Nat
  BY <1>1, NextIsUnused DEF NextNum
<1>3. Max(Numbers("disk") \cup {0}) \in 0 .. MaxCase /\ MaxCase \in Nat
  BY <1>1, MaxIsLargest, TestDataAssumption DEF CaseNo, TestDataAssumption
<1> QED
  BY <1>2, <1>3 DEF CaseNo

-----------------------------------------------------------------------------
(***************************************************************************)
(* Type correctness.                                                       *)
(***************************************************************************)

LEMMA TypeFacts ==
  ASSUME TypeOK
  PROVE  /\ default \in Store /\ "disk" \in Store
         /\ \A op : Target(op) \in Store
         /\ \A w \in Request : req[w] \in RequestState
         /\ \A r \in Load : load[r] \in LoadState
         /\ \A s \in Store : store[s] \in [File -> Content] /\ expect[s] \in [File -> Content]
         /\ \A n \in CaseNo : Pair(n) \subseteq File /\ <<n, "in">> \in File /\ <<n, "out">> \in File
         /\ NoFile \in Content /\ Request \subseteq Content /\ Empty \in Content
         /\ MaxFaults \in Nat
  BY TestDataAssumption DEF TypeOK, Target, Store, Pair, File, Content, TestDataAssumption

LEMMA DisturbTypes ==
  ASSUME TypeOK, NEW s, Disturb(s)
  PROVE  load' \in [Load -> LoadState]
<1>1. ASSUME NEW r \in Load
      PROVE  [load[r] EXCEPT !.disturbed = @ \/ load[r].at # "idle"] \in LoadState
  <2>1. load[r] \in LoadState
    BY DEF TypeOK
  <2>2. PICK b \in BOOLEAN : b <=> load[r].disturbed \/ load[r].at # "idle"
    OBVIOUS
  <2>3. (load[r].disturbed \/ load[r].at # "idle") = b
    BY <2>1, <2>2 DEF LoadState
  <2> QED
    BY <2>1, <2>2, <2>3 DEF LoadState
<1> QED
  BY <1>1 DEF Disturb

\* A file that is written keeps the types of the files and of the loads.
LEMMA PutTypes ==
  ASSUME TypeOK, NEW s \in Store, NEW f \in File, NEW c \in Content, PutFile(s, f, c)
  PROVE  store' \in [Store -> [File -> Content]] /\ load' \in [Load -> LoadState]
<1>1. store' = [store EXCEPT ![s][f] = c] /\ Disturb(s)
  BY DEF PutFile
<1>2. store' \in [Store -> [File -> Content]]
  BY <1>1 DEF TypeOK
<1>3. load' \in [Load -> LoadState]
  BY <1>1, DisturbTypes
<1> QED
  BY <1>2, <1>3

\* A step of request w keeps the types, if the state of w, the files and the history
\* keep theirs.
LEMMA StepTypes ==
  ASSUME TypeOK, NEW w \in Request, NEW q \in RequestState, req' = [req EXCEPT ![w] = q],
         q.open # NoFile => q.at = "write" /\ q.open \in q.todo /\ Target(q.op) = "disk",
         default' = default, table' \in BOOLEAN,
         store' \in [Store -> [File -> Content]], load' \in [Load -> LoadState],
         faults' \in 0 .. MaxFaults, expect' \in [Store -> [File -> Content]],
         clean' \in [Store -> BOOLEAN]
  PROVE  TypeOK'
<1>1. /\ req' \in [Request -> RequestState] /\ req'[w] = q
      /\ \A v \in Request \ {w} : req'[v] = req[v]
  BY DEF TypeOK
<1> QED
  BY <1>1 DEF TypeOK, Target

LEMMA InitTypes == Init => TypeOK
<1> SUFFICES ASSUME Init PROVE TypeOK
  OBVIOUS
<1>1. default \in Store
  BY TestDataAssumption DEF TestDataAssumption, Init, Store
<1>2. \A N : AllOld(N) \in [File -> Content]
  BY DEF AllOld, Content
<1>3. store \in [Store -> [File -> Content]]
  BY <1>2 DEF Init
<1>4. Idle \in RequestState /\ Waiting \in LoadState /\ Idle.open = NoFile
  BY DEF Idle, Waiting, RequestState, LoadState, Content, Nothing
<1> QED
  BY <1>1, <1>3, <1>4, TestDataAssumption DEF TestDataAssumption, Init, TypeOK

\* The beginning of a request.
LEMMA BeginTypes ==
  ASSUME TypeOK, NEW w \in Request, NEW op \in Single \cup {"upload", "deleteAll"},
         NEW at \in {"erase", "write", "remove"}, NEW files \in SUBSET File,
         NEW right \in BOOLEAN, Begin(w, op, at, files, right), faults' \in 0 .. MaxFaults
  PROVE  TypeOK'
<1> DEFINE alone == right /\ ~OthersOn(w, Target(op))
           q == [Idle EXCEPT !.op = op, !.at = at, !.files = files, !.todo = files,
                             !.alone = alone]
<1>2. alone \in BOOLEAN
  BY DEF OthersOn
<1> HIDE DEF alone
<1>3. q \in RequestState /\ q.open = NoFile
  BY <1>2 DEF Idle, RequestState
<1>4. \A v \in Request : [req[v] EXCEPT !.alone = FALSE] \in RequestState
  <2>1. \A p \in RequestState : [p EXCEPT !.alone = FALSE] \in RequestState
    BY DEF RequestState
  <2>2. \A v \in Request : req[v] \in RequestState
    BY TypeFacts
  <2> QED
    BY <2>1, <2>2
<1>5. req' = [v \in Request |-> IF v = w THEN q
                ELSE IF Active(v) /\ Target(req[v].op) = Target(op)
                     THEN [req[v] EXCEPT !.alone = FALSE] ELSE req[v]]
  BY DEF Begin, alone
<1> HIDE DEF q
<1>6. req' \in [Request -> RequestState]
  BY <1>3, <1>4, <1>5, TypeFacts
<1>7. \A v \in Request : req'[v].open # NoFile =>
                           /\ req'[v].at = "write" /\ req'[v].open \in req'[v].todo
                           /\ Target(req[v].op) = "disk" /\ req'[v].op = req[v].op
  <2> SUFFICES ASSUME NEW v \in Request, req'[v].open # NoFile
               PROVE  /\ req'[v].at = "write" /\ req'[v].open \in req'[v].todo
                      /\ Target(req[v].op) = "disk" /\ req'[v].op = req[v].op
    OBVIOUS
  <2>1. v # w /\ req'[v] \in {req[v], [req[v] EXCEPT !.alone = FALSE]}
    BY <1>3, <1>5
  <2>2. /\ req'[v].open = req[v].open /\ req'[v].at = req[v].at
        /\ req'[v].todo = req[v].todo /\ req'[v].op = req[v].op
    BY <2>1, TypeFacts DEF RequestState
  <2> QED
    BY <2>2 DEF TypeOK
<1>8. clean' \in [Store -> BOOLEAN]
  <2>1. clean' = [clean EXCEPT ![Target(op)] = @ /\ alone]
    BY DEF Begin, alone
  <2> QED
    BY <1>2, <2>1, TypeFacts DEF TypeOK
<1> QED
  <2>1. UNCHANGED <<default, store, table, load, expect>>
    BY DEF Begin
  <2> QED
    BY <1>6, <1>7, <1>8, <2>1 DEF TypeOK, Target

LEMMA ServeTypes ==
  ASSUME TypeOK, NEW w \in Request, Serve(w)
  PROVE  TypeOK'
<1>t. req[w] \in RequestState /\ Target(req[w].op) \in Store
  BY TypeFacts
<1>o. req[w].open # NoFile => /\ req[w].at = "write" /\ req[w].open \in req[w].todo
                              /\ Target(req[w].op) = "disk"
  BY DEF TypeOK
<1>e. Ended \in RequestState /\ Ended.open = NoFile
  BY DEF Ended, Idle, RequestState
<1>c. \A s \in Store : [clean EXCEPT ![s] = FALSE] \in [Store -> BOOLEAN]
  BY DEF TypeOK
<1>p. \A n \in CaseNo : Pair(n) \in SUBSET File
  BY TypeFacts
<1>f. /\ UNCHANGED faults => faults' \in 0 .. MaxFaults
      /\ faults < MaxFaults /\ faults' = faults + 1 => faults' \in 0 .. MaxFaults
  BY TypeFacts DEF TypeOK
<1>1. CASE Upload(w)
  BY <1>1, <1>f, BeginTypes, TestDataAssumption DEF Upload, TestDataAssumption
<1>2. CASE DeleteAll(w)
  BY <1>2, <1>f, BeginTypes DEF DeleteAll
<1>3. CASE Add(w)
  BY <1>3, <1>f, <1>p, AddedCase, BeginTypes DEF Add, Single
<1>3a. CASE AddBlind(w)
  BY <1>3a, <1>f, <1>p, BeginTypes DEF AddBlind, Single
<1>4. CASE Update(w)
  BY <1>4, <1>f, <1>p, BeginTypes DEF Update, Single
<1>4a. CASE UpdateBlind(w)
  BY <1>4a, <1>f, <1>p, BeginTypes DEF UpdateBlind, Single
<1>5. CASE Delete(w)
  BY <1>5, <1>f, <1>p, BeginTypes DEF Delete, Single
<1>6. CASE Erase(w)
  <2> DEFINE present == {f \in File : store[default][f] # NoFile}
             at == IF req[w].op = "upload" THEN "write" ELSE "table"
             q == [req[w] EXCEPT !.at = at]
  <2>1. CASE present = {}
    <3>1. q \in RequestState /\ q.open = NoFile
      BY <1>6, <1>t, <1>o DEF RequestState, Erase
    <3>2. req' = [req EXCEPT ![w] = q] /\ UNCHANGED <<store, load>>
      BY <1>6, <2>1 DEF Erase, TypeOK
    <3> HIDE DEF q
    <3> QED
      BY <1>6, <3>1, <3>2, StepTypes DEF Erase, TypeOK
  <2>2. CASE present # {}
    <3>1. PICK f \in present : PutFile(default, f, NoFile)
      BY <1>6, <2>2 DEF Erase
    <3>2. store' \in [Store -> [File -> Content]] /\ load' \in [Load -> LoadState]
      BY <3>1, PutTypes, TypeFacts
    <3> QED
      BY <1>6, <2>2, <3>2 DEF Erase, TypeOK, Target
  <2> QED
    BY <2>1, <2>2
<1>7. CASE EraseFails(w)
  <2>1. PICK q \in RequestState : q.open = NoFile /\ req' = [req EXCEPT ![w] = q]
    <3> DEFINE q == CASE req[w].op = "upload" -> [req[w] EXCEPT !.at = "write", !.alone = FALSE]
                      [] req[w].op # "upload" /\ default = "bucket" ->
                           [req[w] EXCEPT !.at = "table", !.alone = FALSE]
                      [] OTHER -> Ended
    <3>1. q \in RequestState /\ q.open = NoFile
      BY <1>7, <1>t, <1>o, <1>e DEF EraseFails, RequestState
    <3>2. req' = [req EXCEPT ![w] = q]
      BY <1>7 DEF EraseFails
    <3> QED
      BY <3>1, <3>2
  <2>2. faults' \in 0 .. MaxFaults
    BY <1>7, TypeFacts DEF EraseFails, TypeOK
  <2> QED
    BY <1>7, <1>c, <2>1, <2>2, StepTypes, TypeFacts DEF EraseFails, TypeOK
<1>8. CASE EmptyTable(w)
  <2> DEFINE q == [req[w] EXCEPT !.at = "end"]
  <2>1. q \in RequestState /\ q.open = NoFile
    BY <1>8, <1>t, <1>o DEF RequestState, EmptyTable
  <2>2. req' = [req EXCEPT ![w] = q]
    BY <1>8 DEF EmptyTable, TypeOK
  <2>3. load' \in [Load -> LoadState]
    BY <1>8, DisturbTypes DEF EmptyTable
  <2> HIDE DEF q
  <2> QED
    BY <1>8, <2>1, <2>2, <2>3, StepTypes DEF EmptyTable, TypeOK
<1>9. CASE OpenFile(w)
  <2>1. PICK f \in NextFile(w) : PutFile("disk", f, Empty) /\ req' = [req EXCEPT ![w].open = f]
    BY <1>9 DEF OpenFile
  <2> DEFINE q == [req[w] EXCEPT !.open = f]
  <2>2. f \in req[w].todo /\ f \in File
    BY <1>t, <2>1 DEF NextFile, RequestState
  <2>3. q \in RequestState /\ q.at = "write" /\ q.open \in q.todo
        /\ Target(q.op) = "disk"
    BY <1>9, <1>t, <2>2 DEF RequestState, OpenFile
  <2>4. req' = [req EXCEPT ![w] = q]
    BY <2>1 DEF TypeOK
  <2>5. store' \in [Store -> [File -> Content]] /\ load' \in [Load -> LoadState]
    BY <2>1, <2>2, PutTypes, TypeFacts
  <2>6. Target(q.op) = "disk" /\ q.at = "write" /\ q.open \in q.todo /\ q \in RequestState
    BY <2>3
  <2> HIDE DEF q
  <2> QED
    <3>1. /\ UNCHANGED <<default, table, faults, expect, clean>> /\ table' \in BOOLEAN
          /\ faults' \in 0 .. MaxFaults /\ expect' \in [Store -> [File -> Content]]
          /\ clean' \in [Store -> BOOLEAN]
      BY <1>9 DEF OpenFile, TypeOK
    <3> QED
      BY <2>4, <2>5, <2>6, <3>1, StepTypes
<1>10. CASE WriteFile(w)
  <2> DEFINE q == [req[w] EXCEPT !.open = NoFile, !.todo = @ \ {req[w].open}]
  <2>1. req[w].open \in File /\ PutFile("disk", req[w].open, w)
    BY <1>10, <1>t, <1>o DEF WriteFile, RequestState
  <2>2. q \in RequestState /\ q.open = NoFile
    BY <1>t DEF RequestState
  <2>3. req' = [req EXCEPT ![w] = q]
    BY <1>10 DEF TypeOK, WriteFile
  <2>4. store' \in [Store -> [File -> Content]] /\ load' \in [Load -> LoadState]
    BY <2>1, PutTypes, TypeFacts
  <2> HIDE DEF q
  <2> QED
    BY <1>10, <2>2, <2>3, <2>4, StepTypes DEF WriteFile, TypeOK
<1>11. CASE PutObject(w) \/ Remove(w)
  <2>1. PICK f \in NextFile(w), s \in Store, c \in {w, NoFile} :
          PutFile(s, f, c) /\ req' = [req EXCEPT ![w].todo = @ \ {f}]
    BY <1>11, TypeFacts DEF PutObject, Remove, Store
  <2> DEFINE q == [req[w] EXCEPT !.todo = @ \ {f}]
  <2>2. f \in File /\ c \in Content
    BY <1>t, <2>1, TypeFacts DEF NextFile, RequestState
  <2>3. q \in RequestState /\ q.open = req[w].open /\ q.at = req[w].at
        /\ q.todo = req[w].todo \ {f}
    BY <1>t DEF RequestState
  <2>4. req' = [req EXCEPT ![w] = q]
    BY <2>1 DEF TypeOK
  <2>5. store' \in [Store -> [File -> Content]] /\ load' \in [Load -> LoadState]
    BY <2>1, <2>2, PutTypes
  <2>6. req[w].open = NoFile
    <3>1. CASE PutObject(w)
      <4>1. Target(req[w].op) = "bucket"
        BY <3>1, Zenon DEF PutObject
      <4> QED
        BY <1>o, <4>1
    <3>2. CASE Remove(w)
      BY <1>o, <3>2 DEF Remove
    <3> QED
      BY <1>11, <3>1, <3>2
  <2> HIDE DEF q
  <2> QED
    BY <1>11, <2>3, <2>4, <2>5, <2>6, StepTypes DEF PutObject, Remove, TypeOK
<1>12. CASE WriteFails(w)
  <2>1. req' = [req EXCEPT ![w] = Ended] /\ clean' = [clean EXCEPT ![Target(req[w].op)] = FALSE]
    BY <1>12 DEF WriteFails
  <2>2. faults' \in 0 .. MaxFaults
    BY <1>12, TypeFacts DEF WriteFails, TypeOK
  <2>3. store' \in [Store -> [File -> Content]] /\ load' \in [Load -> LoadState]
    <3> DEFINE inputs == {f \in req[w].files : f[2] = "in"}
    <3>1. inputs \subseteq File
      BY <1>t DEF RequestState
    <3>2. CASE \E f \in inputs : PutFile(Target(req[w].op), f, NoFile)
      BY <1>t, <3>1, <3>2, PutTypes, TypeFacts
    <3>3. CASE UNCHANGED <<store, load>>
      BY <3>3 DEF TypeOK
    <3> QED
      BY <1>12, <3>2, <3>3 DEF WriteFails
  <2> QED
    BY <1>12, <1>e, <1>t, <1>c, <2>1, <2>2, <2>3, StepTypes DEF WriteFails, TypeOK
<1>12a. CASE RemoveFails(w)
  <2>1. PICK f : req' = [req EXCEPT ![w].todo = @ \ {f}, ![w].alone = FALSE]
    BY <1>12a DEF RemoveFails
  <2>2. PICK q : q = [req[w] EXCEPT !.todo = @ \ {f}, !.alone = FALSE]
    OBVIOUS
  <2>3. q \in RequestState /\ q.open = NoFile
    BY <1>12a, <1>t, <1>o, <2>2 DEF RequestState, RemoveFails
  <2>4. req' = [req EXCEPT ![w] = q]
    BY <2>1, <2>2 DEF TypeOK
  <2>5. clean' \in [Store -> BOOLEAN]
    BY <1>12a, <1>c, TypeFacts DEF RemoveFails
  <2> QED
    BY <1>12a, <1>f, <2>3, <2>4, <2>5, StepTypes DEF RemoveFails, TypeOK
<1>13. CASE Finish(w)
  <2> DEFINE s == Target(req[w].op)
  <2>1. After(w, expect[s]) \in [File -> Content]
    BY <1>t, TypeFacts DEF After
  <2>2. expect' \in [Store -> [File -> Content]]
    BY <1>13, <1>t, <2>1, TypeFacts DEF Finish, TypeOK
  <2>3. clean' \in [Store -> BOOLEAN]
    <3>1. (req[w].alone /\ (clean[s] \/ req[w].op \notin Single)) \in BOOLEAN
      BY <1>t DEF RequestState, TypeOK
    <3>2. clean' = [clean EXCEPT ![s] = req[w].alone /\ (clean[s] \/ req[w].op \notin Single)]
      BY <1>13 DEF Finish
    <3> QED
      BY <3>1, <3>2 DEF TypeOK
  <2> QED
    BY <1>13, <1>e, <2>2, <2>3, StepTypes DEF Finish, TypeOK
<1> QED
  BY <1>1, <1>2, <1>3, <1>3a, <1>4, <1>4a, <1>5, <1>6, <1>7, <1>8, <1>9, <1>10, <1>11, <1>12,
     <1>12a, <1>13 DEF Serve

LEMMA JudgeTypes ==
  ASSUME TypeOK, NEW r \in Load, Judge(r)
  PROVE  TypeOK'
<1>t. load[r] \in LoadState /\ Waiting \in LoadState
  BY TypeFacts DEF Waiting, LoadState, Nothing
<1>1. ASSUME NEW fields \in LoadState, LoadStep(r, fields) PROVE TypeOK'
  BY <1>1 DEF LoadStep, TypeOK, Target
<1>2. CASE StartLoad(r)
  <2> DEFINE d == \E w \in Request : Active(w)
  <2>1. d \in BOOLEAN
    OBVIOUS
  <2> HIDE DEF d
  <2>2. \A server \in BOOLEAN :
          [load[r] EXCEPT !.server = server, !.at = IF server THEN "list" ELSE "scan",
                          !.disturbed = d] \in LoadState
    BY <1>t, <2>1 DEF LoadState
  <2> QED
    BY <1>1, <1>2, <2>2 DEF StartLoad, d
<1>l. ASSUME NEW found \in SUBSET CaseNo PROVE Listed(r, found) \in LoadState
  BY <1>t, TypeFacts DEF LoadState, Listed
<1>n. \A s : Numbers(s) \in SUBSET CaseNo
  BY DEF Numbers, NumbersOf
<1>m. Missing(r) \in LoadState
  <2>1. PICK l, e, g : /\ l = load[r] /\ g = Waiting.got
                       /\ e = IF load[r].at = "read" THEN "scan" ELSE "table"
    OBVIOUS
  <2>2. g \in [CaseNo -> Content \X Content]
    <3>1. <<NoFile, NoFile>> \in Content \X Content
      BY TypeFacts
    <3> QED
      BY <2>1, <3>1 DEF Waiting, Nothing
  <2>3. e \in {"scan", "table"} /\ NoFile \in Content /\ l \in LoadState
    BY <1>t, <2>1, TypeFacts
  <2>4. [l EXCEPT !.at = e, !.left = {}, !.input = NoFile, !.got = g] \in LoadState
    BY <2>2, <2>3 DEF LoadState
  <2> QED
    BY <2>1, <2>4 DEF Missing
<1>3. CASE List(r)
  BY <1>1, <1>3, <1>l, <1>n DEF List
<1>4. CASE Scan(r)
  <2>1. /\ [load[r] EXCEPT !.at = "table"] \in LoadState
        /\ [load[r] EXCEPT !.at = "stat", !.from = "disk", !.left = Numbers("disk")]
             \in LoadState
    BY <1>t, <1>n, TypeFacts DEF LoadState
  <2> QED
    BY <1>1, <1>4, <2>1 DEF Scan
<1>5. CASE StatOutputs(r)
  <2>1. \A at \in {"files", "table"} : [load[r] EXCEPT !.at = at] \in LoadState
    BY <1>5, <1>t DEF LoadState, StatOutputs
  <2> QED
    BY <1>1, <1>5, <2>1 DEF StatOutputs
<1>6. CASE ReadFile(r)
  <2> DEFINE n     == Min(load[r].left)
             first == load[r].input = NoFile
             c     == store[load[r].from][<<n, IF first THEN "in" ELSE "out">>]
  <2>1. n \in load[r].left /\ n \in CaseNo
    <3>1. load[r].left \in SUBSET Nat /\ load[r].left \subseteq CaseNo
      BY <1>t, TestDataAssumption DEF LoadState, CaseNo, TestDataAssumption
    <3> QED
      BY <1>6, <3>1, MinIsSmallest DEF ReadFile
  <2>2. load[r].from \in Store
    BY <1>6, <1>t DEF LoadState, ReadFile
  <2>3. c \in Content /\ <<load[r].input, c>> \in Content \X Content
    <3>1. /\ store[load[r].from] \in [File -> Content]
          /\ <<n, "in">> \in File /\ <<n, "out">> \in File
      BY <2>1, <2>2, TypeFacts
    <3>2. c \in Content
      BY <3>1
    <3>3. load[r].input \in Content
      BY <1>t DEF LoadState
    <3> QED
      BY <3>2, <3>3
  <2> HIDE DEF n, c
  <2>4. [load[r] EXCEPT !.input = c] \in LoadState
    BY <1>t, <2>3 DEF LoadState
  <2>5. [load[r] EXCEPT !.input = NoFile, !.left = @ \ {n}, !.got[n] = <<load[r].input, c>>]
          \in LoadState
    <3>1. PICK l, g : l = load[r] /\ g = <<l.input, c>>
      OBVIOUS
    <3>2. [l.got EXCEPT ![n] = g] \in [CaseNo -> Content \X Content]
      BY <1>t, <2>3, <3>1 DEF LoadState
    <3>3. [l EXCEPT !.input = NoFile, !.left = @ \ {n}, !.got[n] = g] \in LoadState
      <4>1. l \in LoadState /\ NoFile \in Content
        BY <1>t, <3>1, TypeFacts
      <4> QED
        BY <3>2, <4>1 DEF LoadState
    <3> QED
      BY <3>1, <3>3
  <2> QED
    BY <1>1, <1>6, <1>m, <2>4, <2>5 DEF ReadFile, n, c
<1>7. CASE EndLoad(r) \/ LoadTable(r)
  BY <1>1, <1>7, <1>t DEF EndLoad, LoadTable
<1>8. CASE LoadFails(r)
  <2>1. PICK l \in LoadState : load' = [load EXCEPT ![r] = [l EXCEPT !.failed = TRUE]]
    <3> DEFINE d == \E w \in Request : Active(w)
    <3>1. \A server \in BOOLEAN : [load[r] EXCEPT !.server = server, !.at = "table",
                                                  !.disturbed = d] \in LoadState
      <4>1. d \in BOOLEAN
        OBVIOUS
      <4> HIDE DEF d
      <4> QED
        BY <1>t, <4>1 DEF LoadState
    <3>2. \A found \in (SUBSET Numbers("bucket")) \cup {{}} : Listed(r, found) \in LoadState
      BY <1>l, <1>n
    <3>3. CASE load[r].at = "idle"
      <4>1. \E l \in {[load[r] EXCEPT !.server = server, !.at = "table", !.disturbed = d]
                        : server \in BOOLEAN} :
              load' = [load EXCEPT ![r] = [l EXCEPT !.failed = TRUE]]
        BY <1>8, <3>3, Zenon DEF LoadFails
      <4> QED
        BY <3>1, <4>1, Zenon
    <3>4. CASE load[r].at = "list"
      <4>1. \E l \in {Listed(r, found) : found \in IF default = "bucket"
                                                 THEN SUBSET Numbers("bucket") ELSE {{}}} :
              load' = [load EXCEPT ![r] = [l EXCEPT !.failed = TRUE]]
        BY <1>8, <3>4, Zenon DEF LoadFails
      <4> QED
        BY <3>2, <4>1
    <3>5. CASE load[r].at \notin {"idle", "list"}
      BY <1>8, <1>m, <3>5 DEF LoadFails
    <3> QED
      BY <3>3, <3>4, <3>5
  <2>2. [l EXCEPT !.failed = TRUE] \in LoadState
    BY DEF LoadState
  <2>3. /\ load' \in [Load -> LoadState] /\ faults' \in 0 .. MaxFaults
        /\ UNCHANGED <<default, store, table, req, expect, clean>>
    <3>1. /\ faults < MaxFaults /\ faults' = faults + 1
          /\ UNCHANGED <<default, store, table, req, expect, clean>>
      BY <1>8, Zenon DEF LoadFails
    <3> QED
      BY <2>1, <2>2, <3>1, TypeFacts DEF TypeOK
  <2> QED
    BY <2>3 DEF TypeOK, Target
<1> QED
  BY <1>2, <1>3, <1>4, <1>5, <1>6, <1>7, <1>8 DEF Judge

LEMMA RestartTypes ==
  ASSUME TypeOK, Restart
  PROVE  TypeOK'
<1>1. /\ Ended \in RequestState /\ Ended.open = NoFile /\ Waiting \in LoadState
  BY TypeFacts DEF Ended, Idle, RequestState, Waiting, LoadState, Nothing
<1>2. req' \in [Request -> RequestState] /\ load' \in [Load -> LoadState]
  BY <1>1, TypeFacts DEF Restart
<1>3. \A w \in Request : req'[w] = Ended \/ req'[w] = req[w]
  BY DEF Restart
<1>4. clean' \in [Store -> BOOLEAN]
  BY DEF Restart, TypeOK
<1>5. faults' \in 0 .. MaxFaults
  BY TypeFacts DEF Restart, TypeOK
<1> QED
  BY <1>1, <1>2, <1>3, <1>4, <1>5 DEF Restart, TypeOK, Target

LEMMA TypeStep == TypeOK /\ [Next]_dataVars => TypeOK'
<1>1. ASSUME TypeOK, UNCHANGED dataVars PROVE TypeOK'
  BY <1>1 DEF TypeOK, dataVars, Target
<1> QED
  BY <1>1, ServeTypes, JudgeTypes, RestartTypes DEF Next

\* Every variable of TestData keeps its type.
THEOREM DataTypes == Spec => []TypeOK
<1> QED
  BY InitTypes, TypeStep, PTL DEF Spec

-----------------------------------------------------------------------------
(***************************************************************************)
(* Requests.                                                               *)
(***************************************************************************)

\* A request that is active changes its own store only, so that the other requests
\* and the other store keep their invariants.
LEMMA OthersKeep ==
  ASSUME TypeOK, RequestInv, NEW w \in Request, Active(w), NEW s \in Store, s = On(w),
         default' = default,
         \A v \in Request \ {w} : req'[v] = req[v],
         \A t \in Store \ {s} : /\ store'[t] = store[t] /\ expect'[t] = expect[t]
                                /\ clean'[t] = clean[t],
         Active(w)' => On(w)' = s,
         clean'[s] => clean[s] \/ req[w].alone
  PROVE  /\ \A v \in Request \ {w} : Routes(v)' /\ Alone(v)' /\ Progress(v)'
         /\ \A t \in Store \ {s} : AtRest(t)'
<1>1. \A v \in Request \ {w} : (Active(v)' <=> Active(v)) /\ On(v)' = On(v)
  BY DEF Active, On, Target
<1>2. ASSUME NEW v \in Request \ {w} PROVE Routes(v)' /\ Alone(v)' /\ Progress(v)'
  <2>1. Routes(v) /\ Alone(v) /\ Progress(v) /\ Alone(w)
    BY DEF RequestInv
  <2>2. Routes(v)'
    BY <1>1, <2>1 DEF Routes
  <2>3. \A t \in Store : OthersOn(v, t)' => OthersOn(v, t)
    BY <1>1 DEF OthersOn, On
  <2>4. On(v) \in Store /\ (Active(v) /\ On(v) = s => OthersOn(w, s) /\ OthersOn(v, s))
    BY TypeFacts DEF OthersOn, On
  <2>5. Alone(v)'
    <3> SUFFICES ASSUME Active(v)
                 PROVE  IF req[v].alone THEN ~OthersOn(v, On(v))' ELSE ~clean'[On(v)]
      BY <1>1 DEF Alone
    <3>1. CASE req[v].alone
      <4>1. ~OthersOn(v, On(v))
        BY <2>1, <3>1 DEF Alone
      <4>2. ~OthersOn(v, On(v))'
        <5>1. PICK t \in Store : t = On(v) /\ t = On(v)'
          BY <1>1, <2>4
        <5>2. OthersOn(v, On(v))' => OthersOn(v, t)'
          BY <5>1 DEF OthersOn
        <5> QED
          BY <2>3, <4>1, <5>1, <5>2
      <4> QED
        BY <3>1, <4>2
    <3>2. CASE ~req[v].alone
      <4>1. ~clean[On(v)]
        BY <2>1, <3>2 DEF Alone
      <4>2. On(v) = s => ~req[w].alone
        BY <2>1, <2>4 DEF Alone
      <4> QED
        BY <2>4, <3>2, <4>1, <4>2
    <3> QED
      BY <3>1, <3>2
  <2>6. Progress(v)'
    <3>1. CASE Active(v) /\ req[v].alone
      <4>1. On(v) \in Store \ {s}
        BY <2>1, <2>4, <3>1 DEF Alone
      <4>2. /\ store'[On(v)] = store[On(v)] /\ expect'[On(v)] = expect[On(v)]
            /\ clean'[On(v)] = clean[On(v)]
        BY <4>1
      <4>3. Halfway(v)' <=> Halfway(v)
        BY <1>1, <4>2 DEF Halfway
      <4>4. req[v].op = "add" => On(v) = "disk"
        BY DEF On, Target, Single
      <4> QED
        BY <1>1, <2>1, <3>1, <4>2, <4>3, <4>4 DEF Progress
    <3>2. CASE ~(Active(v) /\ req[v].alone)
      BY <1>1, <3>2 DEF Progress
    <3> QED
      BY <3>1, <3>2
  <2> QED
    BY <2>2, <2>5, <2>6
<1>3. ASSUME NEW t \in Store \ {s} PROVE AtRest(t)'
  <2>1. AtRest(t) /\ store'[t] = store[t] /\ expect'[t] = expect[t] /\ clean'[t] = clean[t]
    BY DEF RequestInv
  <2>2. Matches(t)' <=> Matches(t)
    BY <2>1 DEF Matches
  <2> QED
    BY <1>1, <2>1, <2>2 DEF AtRest
<1> QED
  BY <1>2, <1>3

\* A request that goes on with its work.
LEMMA GoesOn ==
  ASSUME TypeOK, RequestInv, NEW w \in Request, Active(w), NEW q, req' = [req EXCEPT ![w] = q],
         UNCHANGED <<default, expect, clean>>,
         \A t \in Store \ {On(w)} : store'[t] = store[t],
         q.op = req[w].op, q.files = req[w].files, q.alone = req[w].alone,
         q.at \notin {"idle", "done"}, Routes(w)',
         req[w].alone /\ (req[w].op \in Single => clean[On(w)]) /\ q.at # "erase" => Halfway(w)'
  PROVE  RequestInv'
<1>1. req'[w] = q /\ \A v \in Request \ {w} : req'[v] = req[v]
  BY DEF TypeOK
<1>2. PICK s \in Store : s = On(w)
  BY TypeFacts DEF On
<1>3. Active(w)' /\ On(w)' = On(w)
  BY <1>1 DEF Active, On, Target
<1>4. /\ \A v \in Request \ {w} : Routes(v)' /\ Alone(v)' /\ Progress(v)'
      /\ \A t \in Store \ {s} : AtRest(t)'
  BY <1>1, <1>2, <1>3, OthersKeep
<1>5. Alone(w) /\ Progress(w)
  BY DEF RequestInv
<1>6. \A t \in Store : OthersOn(w, t)' <=> OthersOn(w, t)
  BY <1>1 DEF OthersOn, Active, Target
<1>7. Alone(w)'
  BY <1>1, <1>3, <1>5, <1>6, TypeFacts DEF Alone, On
<1>8. Progress(w)'
  BY <1>1, <1>3, <1>5 DEF Progress
<1>9. AtRest(s)'
  BY <1>2, <1>3 DEF AtRest
<1> QED
  BY <1>4, <1>7, <1>8, <1>9 DEF RequestInv

\* A request that fails leaves its store unclean.
LEMMA FailsUnclean ==
  ASSUME TypeOK, RequestInv, NEW w \in Request, Active(w), NEW q, req' = [req EXCEPT ![w] = q],
         UNCHANGED <<default, expect>>, clean' = [clean EXCEPT ![On(w)] = FALSE],
         \A t \in Store \ {On(w)} : store'[t] = store[t],
         q = Ended \/ /\ q.op = req[w].op /\ ~q.alone
                      /\ q.at \notin {"idle", "done"} /\ Routes(w)'
  PROVE  RequestInv'
<1>1. req'[w] = q /\ \A v \in Request \ {w} : req'[v] = req[v]
  BY DEF TypeOK
<1>2. PICK s \in Store : s = On(w)
  BY TypeFacts DEF On
<1>3. ~clean'[s] /\ \A t \in Store \ {s} : clean'[t] = clean[t]
  BY <1>2 DEF TypeOK
<1>4. Active(w)' => On(w)' = s
  BY <1>1, <1>2 DEF Active, On, Target, Ended, Idle
<1>5. /\ \A v \in Request \ {w} : Routes(v)' /\ Alone(v)' /\ Progress(v)'
      /\ \A t \in Store \ {s} : AtRest(t)'
  BY <1>1, <1>2, <1>3, <1>4, OthersKeep
<1>6. AtRest(s)'
  BY <1>3 DEF AtRest
<1>7. CASE q = Ended
  <2>1. ~Active(w)' /\ Routes(w)'
    BY <1>1, <1>7 DEF Active, Ended, Idle, Routes
  <2> QED
    BY <1>5, <1>6, <2>1 DEF RequestInv, Alone, Progress
<1>8. CASE q # Ended
  <2>1. Alone(w)' /\ Progress(w)'
    BY <1>1, <1>2, <1>3, <1>4, <1>8 DEF Alone, Progress
  <2> QED
    BY <1>5, <1>6, <1>8, <2>1 DEF RequestInv
<1> QED
  BY <1>7, <1>8

\* A request that begins finds its store as expected, if it is clean and nobody else
\* is active on it.
LEMMA Begins ==
  ASSUME TypeOK, RequestInv, NEW w \in Request,
         NEW op \in Single \cup {"upload", "deleteAll"}, NEW at, NEW files \in SUBSET File,
         NEW right \in BOOLEAN, Begin(w, op, at, files, right),
         op \in {"upload", "deleteAll"} => at = "erase",
         op \in {"add", "update"} => at = "write", op = "delete" => at = "remove",
         op = "deleteAll" => files = {}, op = "add" /\ right => files = Pair(NextNum)
  PROVE  RequestInv'
<1> DEFINE s == Target(op)
           alone == right /\ ~OthersOn(w, s)
           q == [Idle EXCEPT !.op = op, !.at = at, !.files = files, !.todo = files,
                             !.alone = alone]
<1>1. /\ req' = [v \in Request |-> IF v = w THEN q
                   ELSE IF Active(v) /\ On(v) = s THEN [req[v] EXCEPT !.alone = FALSE]
                   ELSE req[v]]
      /\ clean' = [clean EXCEPT ![s] = @ /\ alone]
      /\ req[w].at = "idle" /\ UNCHANGED <<default, store, expect>>
  BY DEF Begin, On
<1>2. /\ q.op = op /\ q.at = at /\ q.files = files /\ q.todo = files
      /\ q.alone = alone
  BY DEF Idle
<1>2a. alone <=> right /\ ~OthersOn(w, s)
  OBVIOUS
<1> HIDE DEF alone
<1>3. s \in Store
  BY TypeFacts
<1>4. /\ clean'[s] <=> clean[s] /\ alone
      /\ \A t \in Store \ {s} : clean'[t] = clean[t]
  BY <1>1, <1>3 DEF TypeOK
<1> HIDE DEF s, q
<1>5. /\ req'[w] = q /\ Active(w)' /\ ~Active(w)
      /\ On(w)' = s
  BY <1>1, <1>2 DEF Active, On, Target, s, Single
<1>6. ASSUME NEW v \in Request \ {w}
      PROVE  /\ Active(v)' <=> Active(v)
             /\ On(v)' = On(v) /\ Routes(v)' /\ req'[v].op = req[v].op
             /\ req'[v].at = req[v].at /\ req'[v].todo = req[v].todo
             /\ req'[v].files = req[v].files
             /\ req'[v].alone = IF Active(v) /\ On(v) = s THEN FALSE ELSE req[v].alone
  <2>1. req'[v] = IF Active(v) /\ On(v) = s THEN [req[v] EXCEPT !.alone = FALSE] ELSE req[v]
    BY <1>1
  <2>2. /\ req'[v].op = req[v].op /\ req'[v].at = req[v].at /\ req'[v].todo = req[v].todo
        /\ req'[v].files = req[v].files
        /\ req'[v].alone = IF Active(v) /\ On(v) = s THEN FALSE ELSE req[v].alone
    BY <2>1, TypeFacts DEF RequestState
  <2>3. Routes(v)
    BY DEF RequestInv
  <2> QED
    BY <1>1, <2>2, <2>3 DEF Active, On, Target, Routes
<1>7. OthersOn(w, s) <=> OthersOn(w, On(w))'
  BY <1>5, <1>6 DEF OthersOn, On
<1>8. Routes(w)'
  BY <1>2, <1>5 DEF Routes, Single
<1>9. Alone(w)'
  BY <1>2, <1>2a, <1>4, <1>5, <1>7 DEF Alone
<1>10. Progress(w)'
  <2> SUFFICES ASSUME alone, op \in Single => clean'[s]
               PROVE  /\ at # "erase" => Halfway(w)'
                      /\ op = "add" =>
                           files = Pair(Max(NumbersOf(expect["disk"]) \cup {0}) + 1)
    BY <1>1, <1>2, <1>5 DEF Progress
  <2>1. CASE op \in Single
    <3>1. Matches(s)
      <4>1. clean[s] /\ \A v \in Request : Active(v) => On(v) # s
        BY <1>2a, <1>4, <1>5, <2>1 DEF OthersOn, On
      <4> QED
        BY <1>3, <4>1 DEF RequestInv, AtRest
    <3>2. Halfway(w)'
      BY <1>1, <1>2, <1>5, <2>1, <3>1 DEF Halfway, Matches
    <3>3. ASSUME op = "add"
          PROVE  files = Pair(Max(NumbersOf(expect["disk"]) \cup {0}) + 1)
      <4>1. s = "disk"
        BY <2>1 DEF s, Target
      <4>2. Numbers("disk") = NumbersOf(expect["disk"])
        BY <3>1, <4>1 DEF Numbers, Matches
      <4>3. Numbers("disk") \in SUBSET CaseNo
        BY DEF Numbers, NumbersOf
      <4>4. NextNum = Max(Numbers("disk") \cup {0}) + 1
        BY <4>3, NextIsUnused DEF NextNum
      <4> QED
        BY <1>2a, <3>3, <4>2, <4>4
    <3> QED
      BY <3>2, <3>3
  <2>2. CASE op \notin Single
    BY <2>2 DEF Single
  <2> QED
    BY <2>1, <2>2
<1>11. ASSUME NEW v \in Request \ {w} PROVE Alone(v)' /\ Progress(v)'
  <2>1. Alone(v) /\ Progress(v) /\ On(v) \in Store
    BY TypeFacts DEF RequestInv, On
  <2>2. CASE Active(v) /\ On(v) = s
    <3>1. OthersOn(w, s)
      BY <2>2 DEF OthersOn, On
    <3>2. ~clean'[On(v)'] /\ ~req'[v].alone
      BY <1>2a, <1>4, <1>6, <2>2, <3>1
    <3> QED
      BY <3>2 DEF Alone, Progress
  <2>3. CASE Active(v) /\ On(v) # s
    <3>1. OthersOn(v, On(v))' => OthersOn(v, On(v))
      <4> SUFFICES ASSUME OthersOn(v, On(v))' PROVE OthersOn(v, On(v))
        OBVIOUS
      <4>1. PICK x \in Request \ {v} : Active(x)' /\ On(x)' = On(v)'
        BY DEF OthersOn, On
      <4>2. x # w
        BY <1>5, <1>6, <2>3, <4>1
      <4>3. Active(x) /\ On(x) = On(v)
        BY <1>6, <4>1, <4>2
      <4> QED
        BY <4>3 DEF OthersOn, On
    <3>2. clean'[On(v)] = clean[On(v)]
      BY <1>4, <2>1, <2>3
    <3>3. Alone(v)'
      <4>1. req'[v].alone = req[v].alone /\ On(v)' = On(v)
        BY <1>6, <2>3
      <4> QED
        BY <2>1, <2>3, <3>1, <3>2, <4>1 DEF Alone
    <3>4. Halfway(v)' <=> Halfway(v)
      BY <1>1, <1>6 DEF Halfway
    <3> QED
      BY <1>1, <1>6, <2>1, <2>3, <3>2, <3>3, <3>4 DEF Progress
  <2>4. CASE ~Active(v)
    BY <1>6, <2>4 DEF Alone, Progress
  <2> QED
    BY <2>2, <2>3, <2>4
<1>12. ASSUME NEW t \in Store PROVE AtRest(t)'
  <2>1. CASE t = s
    BY <1>5, <2>1 DEF AtRest
  <2>2. CASE t # s
    <3>1. AtRest(t) /\ clean'[t] = clean[t] /\ (Matches(t)' <=> Matches(t))
      BY <1>1, <1>4, <2>2 DEF RequestInv, Matches
    <3> QED
      BY <1>5, <1>6, <2>2, <3>1 DEF AtRest
  <2> QED
    BY <2>1, <2>2
<1> QED
  BY <1>6, <1>8, <1>9, <1>10, <1>11, <1>12 DEF RequestInv

\* A request that was alone leaves what is expected after it.
LEMMA Finishes ==
  ASSUME TypeOK, RequestInv, NEW w \in Request, Finish(w)
  PROVE  /\ RequestInv'
         /\ \A s \in Store :
              clean'[s] => (clean[s] /\ expect'[s] = expect[s]) \/ Matches(s)'
<1>1. PICK s \in Store : s = On(w)
  BY TypeFacts DEF On
<1>2. /\ \/ req[w].at \in {"write", "remove"} /\ req[w].todo = {}
         \/ req[w].at = "end"
      /\ req' = [req EXCEPT ![w] = Ended] /\ UNCHANGED <<default, store>>
      /\ expect' = [expect EXCEPT ![s] = IF req[w].alone THEN After(w, @) ELSE @]
      /\ clean' = [clean EXCEPT ![s] = req[w].alone /\ (@ \/ req[w].op \notin Single)]
  BY <1>1 DEF Finish, On
<1>3. Active(w) /\ Routes(w) /\ Progress(w)
  BY <1>2 DEF Active, RequestInv
<1>4. req[w].todo = {}
  <2>1. req[w].at = "end" => req[w].op = "deleteAll"
    BY <1>3, TypeFacts DEF Routes, RequestState, Single
  <2>2. req[w].at = "end" => req[w].files = {}
    BY <1>3, <2>1 DEF Routes
  <2> QED
    BY <1>2, <1>3, <2>2 DEF Routes
<1>5. /\ req'[w] = Ended /\ \A v \in Request \ {w} : req'[v] = req[v]
      /\ \A t \in Store \ {s} : /\ store'[t] = store[t] /\ expect'[t] = expect[t]
                                /\ clean'[t] = clean[t]
      /\ clean'[s] = (req[w].alone /\ (clean[s] \/ req[w].op \notin Single))
      /\ expect'[s] = IF req[w].alone THEN After(w, expect[s]) ELSE expect[s]
  BY <1>2 DEF TypeOK
<1>6. ~Active(w)' /\ Routes(w)' /\ Alone(w)' /\ Progress(w)'
  BY <1>5 DEF Active, Ended, Idle, Routes, Alone, Progress
<1>7. /\ \A v \in Request \ {w} : Routes(v)' /\ Alone(v)' /\ Progress(v)'
      /\ \A t \in Store \ {s} : AtRest(t)'
  BY <1>1, <1>2, <1>3, <1>5, <1>6, OthersKeep
<1>8. ASSUME clean'[s] PROVE Matches(s)'
  <2>1. req[w].alone /\ (req[w].op \in Single => clean[On(w)])
    BY <1>1, <1>5, <1>8
  <2>2. Halfway(w)
    BY <1>2, <1>3, <2>1 DEF Progress
  <2>3. req[w].op = "add" =>
          req[w].files = Pair(Max(NumbersOf(expect[s]) \cup {0}) + 1)
    BY <1>1, <1>3, <2>1 DEF Progress, On, Target, Single
  <2>4. \A f \in File : After(w, expect[s])[f] =
          IF f \in req[w].files THEN IF req[w].op = "delete" THEN NoFile ELSE w
          ELSE IF req[w].op \in Single THEN expect[s][f] ELSE NoFile
    BY <2>3 DEF After
  <2>5. \A f \in File : store[s][f] = After(w, expect[s])[f]
    BY <1>1, <1>4, <2>2, <2>4 DEF Halfway
  <2>6. /\ store[s] \in [File -> Content]
        /\ After(w, expect[s]) = [f \in File |-> After(w, expect[s])[f]]
    BY TypeFacts DEF After
  <2>7. store[s] = After(w, expect[s])
    BY <2>5, <2>6
  <2> QED
    BY <1>2, <1>5, <2>1, <2>7 DEF Matches
<1>9. AtRest(s)'
  BY <1>8 DEF AtRest
<1>10. \A t \in Store : clean'[t] => (clean[t] /\ expect'[t] = expect[t]) \/ Matches(t)'
  BY <1>5, <1>8
<1> QED
  BY <1>6, <1>7, <1>9, <1>10 DEF RequestInv

LEMMA InitRequests == Init => RequestInv
<1> SUFFICES ASSUME Init PROVE RequestInv
  OBVIOUS
<1>1. \A w \in Request : ~Active(w) /\ Routes(w) /\ Alone(w) /\ Progress(w)
  BY DEF Init, Idle, Active, Routes, Alone, Progress
<1>2. \A s \in Store : AtRest(s)
  BY DEF Init, AtRest, Matches
<1> QED
  BY <1>1, <1>2 DEF RequestInv

\* A file that is written changes one store.
LEMMA PutElsewhere ==
  ASSUME TypeOK, NEW s \in Store, NEW f \in File, NEW c, PutFile(s, f, c)
  PROVE  /\ \A t \in Store \ {s} : store'[t] = store[t]
         /\ store'[s][f] = c /\ \A g \in File \ {f} : store'[s][g] = store[s][g]
<1>1. store' = [store EXCEPT ![s][f] = c]
  BY DEF PutFile
<1>2. store[s] \in [File -> Content] /\ store \in [Store -> [File -> Content]]
  BY DEF TypeOK
<1> QED
  BY <1>1, <1>2

\* A request that writes one of its files is done with it.
LEMMA Writes ==
  ASSUME TypeOK, RequestInv, NEW w \in Request, req[w].at \in {"write", "remove"},
         NEW f \in req[w].todo, NEW c, c = IF req[w].at = "remove" THEN NoFile ELSE w,
         PutFile(On(w), f, c), NEW q, req' = [req EXCEPT ![w] = q],
         q.op = req[w].op, q.files = req[w].files, q.alone = req[w].alone, q.at = req[w].at,
         q.todo = req[w].todo \ {f}, UNCHANGED <<default, expect, clean>>
  PROVE  RequestInv'
<1>1. /\ req[w] \in RequestState /\ On(w) \in Store /\ req'[w] = q
      /\ Routes(w) /\ Progress(w)
  BY TypeFacts DEF TypeOK, On, RequestInv
<1>2. f \in File /\ Active(w) /\ f \in req[w].files
  BY <1>1 DEF RequestState, Routes, Active
<1>3. /\ \A t \in Store \ {On(w)} : store'[t] = store[t]
      /\ store'[On(w)][f] = c /\ \A g \in File \ {f} : store'[On(w)][g] = store[On(w)][g]
  BY <1>1, <1>2, PutElsewhere
<1>4. Routes(w)'
  BY <1>1, <1>2 DEF Routes, Active, Single
<1>5. req[w].at = "remove" <=> req[w].op = "delete"
  <2>1. req[w].op \in Single \cup {"none", "upload", "deleteAll"}
    BY <1>1 DEF RequestState
  <2> QED
    BY <1>1, <1>2, <2>1 DEF Routes, Single
<1>6. Halfway(w) => Halfway(w)'
  <2> SUFFICES ASSUME Halfway(w), NEW g \in File, g \notin q.todo
               PROVE  store'[On(w)][g] =
                        IF g \in req[w].files THEN IF req[w].op = "delete" THEN NoFile ELSE w
                        ELSE IF req[w].op \in Single THEN expect[On(w)][g] ELSE NoFile
    BY <1>1 DEF Halfway, On, Target
  <2>1. CASE g = f
    BY <1>2, <1>3, <1>5, <2>1
  <2>2. CASE g # f
    BY <1>3, <2>2 DEF Halfway
  <2> QED
    BY <2>1, <2>2
<1>7. req[w].alone /\ (req[w].op \in Single => clean[On(w)]) => Halfway(w)
  BY <1>1, <1>2 DEF Progress
<1>8. q.at \notin {"idle", "done"}
  OBVIOUS
<1> QED
  BY <1>2, <1>3, <1>4, <1>6, <1>7, <1>8, GoesOn

LEMMA ServeRequests ==
  ASSUME TypeOK, RequestInv, NEW w \in Request, Serve(w)
  PROVE  RequestInv'
<1>t. /\ req[w] \in RequestState /\ On(w) \in Store /\ req \in [Request -> RequestState]
      /\ req[w].op \in Single \cup {"none", "upload", "deleteAll"}
  BY TypeFacts DEF On, TypeOK, RequestState
<1>o. req[w].open # NoFile => /\ req[w].at = "write" /\ req[w].open \in req[w].todo
                              /\ On(w) = "disk"
  BY DEF TypeOK, On
<1>i. Routes(w) /\ Alone(w) /\ Progress(w)
  BY DEF RequestInv
<1>p. \A n \in CaseNo : Pair(n) \in SUBSET File
  BY TypeFacts
<1>1. CASE Upload(w)
  BY <1>1, Begins, TestDataAssumption DEF Upload, TestDataAssumption, Single
<1>2. CASE DeleteAll(w)
  BY <1>2, Begins DEF DeleteAll, Single
<1>3. CASE Add(w)
  BY <1>3, <1>p, AddedCase, Begins DEF Add, Single
<1>3a. CASE AddBlind(w)
  BY <1>3a, <1>p, Begins DEF AddBlind, Single
<1>4. CASE Update(w)
  BY <1>4, <1>p, Begins DEF Update, Single
<1>4a. CASE UpdateBlind(w)
  BY <1>4a, <1>p, Begins DEF UpdateBlind, Single
<1>5. CASE Delete(w)
  BY <1>5, <1>p, Begins DEF Delete, Single
<1>6. CASE Erase(w)
  <2> DEFINE present == {f \in File : store[default][f] # NoFile}
             at == IF req[w].op = "upload" THEN "write" ELSE "table"
             q == [req[w] EXCEPT !.at = at]
  <2>1. /\ Active(w) /\ req[w].op \in {"upload", "deleteAll"} /\ On(w) = default
        /\ req[w].op \notin Single
    BY <1>6, <1>t, <1>i DEF Erase, Active, Routes, On, Target, Single
  <2>2. CASE present = {}
    <3>1. req' = [req EXCEPT ![w] = q] /\ UNCHANGED <<default, store, expect, clean>>
      BY <1>6, <2>2 DEF Erase
    <3>2. /\ q.op = req[w].op /\ q.files = req[w].files /\ q.alone = req[w].alone
          /\ q.todo = req[w].todo /\ q.at = at
      BY <1>t DEF RequestState
    <3> HIDE DEF q
    <3>3. req'[w] = q
      BY <1>t, <3>1
    <3>4. Routes(w)'
      BY <1>i, <2>1, <3>2, <3>3 DEF Routes, Active, Single
    <3>5. Halfway(w)'
      <4>1. req[w].todo = req[w].files /\ \A f \in File : store[default][f] = NoFile
        BY <1>6, <1>i, <2>2 DEF Erase, Routes
      <4> QED
        BY <2>1, <3>1, <3>2, <3>3, <4>1 DEF Halfway, On, Target
    <3> QED
      BY <2>1, <3>1, <3>2, <3>4, <3>5, GoesOn
  <2>3. CASE present # {}
    <3>1. PICK f \in present : PutFile(default, f, NoFile)
      BY <1>6, <2>3 DEF Erase
    <3>2. \A t \in Store \ {default} : store'[t] = store[t]
      BY <1>t, <2>1, <3>1, PutElsewhere
    <3>3. /\ req' = [req EXCEPT ![w] = req[w]] /\ req' = req
          /\ UNCHANGED <<default, expect, clean>> /\ req[w].at = "erase"
      BY <1>6, <1>t, <2>3 DEF Erase
    <3>4. Routes(w)'
      BY <1>i, <3>3 DEF Routes, Active
    <3> QED
      BY <2>1, <3>2, <3>3, <3>4, GoesOn
  <2> QED
    BY <2>2, <2>3
<1>7. CASE EraseFails(w)
  <2>1. /\ Active(w) /\ req[w].op \in {"upload", "deleteAll"} /\ On(w) = default
        /\ req[w].todo = req[w].files
    BY <1>7, <1>t, <1>i DEF EraseFails, Active, Routes, On, Target, Single
  <2>2. /\ clean' = [clean EXCEPT ![On(w)] = FALSE] /\ UNCHANGED <<default, expect, store>>
    BY <1>7, <2>1 DEF EraseFails
  <2>3. ASSUME NEW at \in {"write", "table"}, at = IF req[w].op = "upload" THEN "write" ELSE "table",
               req' = [req EXCEPT ![w] = [@ EXCEPT !.at = at, !.alone = FALSE]]
        PROVE  RequestInv'
    <3>1. PICK q : q = [req[w] EXCEPT !.at = at, !.alone = FALSE]
      OBVIOUS
    <3>2. /\ q.op = req[w].op /\ q.files = req[w].files /\ q.alone = FALSE
          /\ q.todo = req[w].todo /\ q.at = at
      BY <1>t, <3>1 DEF RequestState
    <3>3. req' = [req EXCEPT ![w] = q] /\ req'[w] = q
      BY <1>t, <2>3, <3>1
    <3>4. Routes(w)'
      BY <1>i, <2>1, <2>3, <3>2, <3>3 DEF Routes, Active, Single
    <3> QED
      BY <2>1, <2>2, <2>3, <3>2, <3>3, <3>4, FailsUnclean
  <2>4. ASSUME req' = [req EXCEPT ![w] = Ended] PROVE RequestInv'
    BY <2>1, <2>2, <2>4, FailsUnclean
  <2> QED
    BY <1>7, <2>1, <2>3, <2>4 DEF EraseFails
<1>8. CASE EmptyTable(w)
  <2>1. /\ Active(w) /\ req[w].op = "deleteAll" /\ req[w].at = "table"
    BY <1>8, <1>t, <1>i DEF EmptyTable, Active, Routes, Single
  <2>2. PICK q : q = [req[w] EXCEPT !.at = "end"]
    OBVIOUS
  <2>3. /\ q.op = req[w].op /\ q.files = req[w].files /\ q.alone = req[w].alone
        /\ q.todo = req[w].todo /\ q.at = "end"
    BY <1>t, <2>2 DEF RequestState
  <2>4. /\ req' = [req EXCEPT ![w] = q] /\ req'[w] = q
        /\ UNCHANGED <<default, store, expect, clean>>
    BY <1>8, <1>t, <2>2 DEF EmptyTable
  <2>5. Routes(w)'
    BY <1>i, <2>1, <2>3, <2>4 DEF Routes, Active, Single
  <2>6. Halfway(w)' <=> Halfway(w)
    BY <2>3, <2>4 DEF Halfway, On, Target
  <2>7. req[w].alone => Halfway(w)
    BY <1>i, <2>1 DEF Progress, Single
  <2> QED
    BY <2>1, <2>3, <2>4, <2>5, <2>6, <2>7, GoesOn
<1>9. CASE OpenFile(w)
  <2>1. PICK f \in NextFile(w) : PutFile("disk", f, Empty) /\ req' = [req EXCEPT ![w].open = f]
    BY <1>9 DEF OpenFile
  <2>2. PICK q : q = [req[w] EXCEPT !.open = f]
    OBVIOUS
  <2>3. /\ q.op = req[w].op /\ q.files = req[w].files /\ q.alone = req[w].alone
        /\ q.todo = req[w].todo /\ q.at = req[w].at
    BY <1>t, <2>2 DEF RequestState
  <2>4. /\ req' = [req EXCEPT ![w] = q] /\ req'[w] = q
        /\ UNCHANGED <<default, expect, clean>> /\ req[w].at = "write" /\ On(w) = "disk"
    BY <1>9, <1>t, <2>1, <2>2 DEF OpenFile, On
  <2>5. f \in req[w].todo /\ f \in File
    BY <1>t, <2>1 DEF NextFile, RequestState
  <2>6. /\ \A t \in Store \ {"disk"} : store'[t] = store[t]
        /\ \A g \in File \ {f} : store'["disk"][g] = store["disk"][g]
    BY <1>t, <2>1, <2>4, <2>5, PutElsewhere
  <2>7. Active(w) /\ Routes(w)'
    BY <1>i, <2>3, <2>4 DEF Routes, Active, Single
  <2>8. Halfway(w) => Halfway(w)'
    BY <2>3, <2>4, <2>5, <2>6 DEF Halfway, On, Target
  <2>9. req[w].alone /\ (req[w].op \in Single => clean[On(w)]) => Halfway(w)
    BY <1>i, <2>4, <2>7 DEF Progress
  <2> QED
    BY <2>3, <2>4, <2>6, <2>7, <2>8, <2>9, GoesOn
<1>10. CASE WriteFile(w)
  <2>1. req[w].at = "write" /\ req[w].open \in req[w].todo /\ On(w) = "disk"
    BY <1>10, <1>o DEF WriteFile
  <2>2. PICK q : q = [req[w] EXCEPT !.open = NoFile, !.todo = @ \ {req[w].open}]
    OBVIOUS
  <2>3. req' = [req EXCEPT ![w] = q]
    BY <1>10, <2>2 DEF WriteFile
  <2>4. /\ q.todo = req[w].todo \ {req[w].open} /\ q.op = req[w].op
        /\ q.files = req[w].files /\ q.alone = req[w].alone /\ q.at = req[w].at
    BY <1>t, <2>2 DEF RequestState
  <2>5. PutFile(On(w), req[w].open, w) /\ UNCHANGED <<default, expect, clean>>
    BY <1>10, <2>1 DEF WriteFile
  <2> QED
    BY <2>1, <2>3, <2>4, <2>5, Writes
<1>11. ASSUME NEW f \in NextFile(w), NEW c, c = IF req[w].at = "remove" THEN NoFile ELSE w,
              req[w].at \in {"write", "remove"}, PutFile(On(w), f, c),
              req' = [req EXCEPT ![w].todo = @ \ {f}], UNCHANGED <<default, expect, clean>>
       PROVE  RequestInv'
  <2>1. PICK q : q = [req[w] EXCEPT !.todo = @ \ {f}]
    OBVIOUS
  <2>2. req' = [req EXCEPT ![w] = q]
    BY <1>11, <2>1
  <2>3. /\ q.todo = req[w].todo \ {f} /\ q.op = req[w].op
        /\ q.files = req[w].files /\ q.alone = req[w].alone /\ q.at = req[w].at
    BY <1>t, <2>1 DEF RequestState
  <2>4. f \in req[w].todo
    BY DEF NextFile
  <2> QED
    BY <1>11, <2>2, <2>3, <2>4, Writes
<1>12. CASE PutObject(w)
  <2>1. PICK f \in NextFile(w) : /\ PutFile("bucket", f, w)
                                 /\ req' = [req EXCEPT ![w].todo = @ \ {f}]
    BY <1>12 DEF PutObject
  <2>2. /\ req[w].at = "write" /\ On(w) = "bucket"
        /\ UNCHANGED <<default, expect, clean>>
    BY <1>12, Zenon DEF PutObject, On
  <2> QED
    BY <1>11, <2>1, <2>2
<1>13. CASE Remove(w)
  <2>1. PICK f \in NextFile(w) : /\ PutFile("disk", f, NoFile)
                                 /\ req' = [req EXCEPT ![w].todo = @ \ {f}]
    BY <1>13 DEF Remove
  <2>2. req[w].at = "remove" /\ UNCHANGED <<default, expect, clean>>
    BY <1>13, Zenon DEF Remove
  <2>3. On(w) = "disk"
    BY <1>t, <1>i, <2>2 DEF Routes, Active, On, Target, Single
  <2> QED
    BY <1>11, <2>1, <2>2, <2>3
<1>14. CASE WriteFails(w)
  <2> DEFINE inputs == {f \in req[w].files : f[2] = "in"}
  <2>1. /\ Active(w) /\ req' = [req EXCEPT ![w] = Ended] /\ UNCHANGED <<default, expect>>
        /\ clean' = [clean EXCEPT ![On(w)] = FALSE]
    BY <1>14 DEF WriteFails, On, Active
  <2>2. \A t \in Store \ {On(w)} : store'[t] = store[t]
    <3>1. inputs \subseteq File
      BY <1>t DEF RequestState
    <3>2. CASE \E f \in inputs : PutFile(On(w), f, NoFile)
      BY <1>t, <3>1, <3>2, PutElsewhere
    <3>3. CASE UNCHANGED <<store, load>>
      BY <3>3
    <3> QED
      BY <1>14, <3>2, <3>3 DEF WriteFails, On
  <2> QED
    BY <2>1, <2>2, FailsUnclean
<1>15. CASE RemoveFails(w)
  <2>1. PICK f \in NextFile(w) : req' = [req EXCEPT ![w].todo = @ \ {f}, ![w].alone = FALSE]
    BY <1>15 DEF RemoveFails
  <2>2. PICK q : q = [req[w] EXCEPT !.todo = @ \ {f}, !.alone = FALSE]
    OBVIOUS
  <2>3. /\ q.op = req[w].op /\ ~q.alone /\ q.at = "remove" /\ q.files = req[w].files
        /\ q.todo = req[w].todo \ {f}
    BY <1>15, <1>t, <2>2 DEF RequestState, RemoveFails
  <2>4. req' = [req EXCEPT ![w] = q] /\ req'[w] = q
    BY <1>t, <2>1, <2>2
  <2>5. Active(w) /\ On(w) = "disk" /\ req[w].at = "remove"
    BY <1>15, <1>t, <1>i DEF RemoveFails, Routes, Active, On, Target, Single
  <2>6. Routes(w)'
    BY <1>i, <2>3, <2>4, <2>5 DEF Routes, Active, Single
  <2>7. /\ UNCHANGED <<default, expect, store>> /\ clean' = [clean EXCEPT ![On(w)] = FALSE]
    BY <1>15, <2>5 DEF RemoveFails
  <2> QED
    BY <2>3, <2>4, <2>5, <2>6, <2>7, FailsUnclean
<1> QED
  BY <1>1, <1>2, <1>3, <1>3a, <1>4, <1>4a, <1>5, <1>6, <1>7, <1>8, <1>9, <1>10, <1>12, <1>13,
     <1>14, <1>15, Finishes DEF Serve

LEMMA RestartRequests ==
  ASSUME TypeOK, RequestInv, Restart
  PROVE  RequestInv'
<1>1. \A w \in Request : req'[w] = IF Active(w) THEN Ended ELSE req[w]
  BY DEF Restart
<1>2. ASSUME NEW w \in Request PROVE ~Active(w)' /\ Routes(w)' /\ Alone(w)' /\ Progress(w)'
  <2>1. ~Active(w)' /\ Routes(w)'
    <3>1. CASE Active(w)
      BY <1>1, <3>1 DEF Active, Ended, Idle, Routes
    <3>2. CASE ~Active(w)
      BY <1>1, <3>2 DEF RequestInv, Routes, Active
    <3> QED
      BY <3>1, <3>2
  <2> QED
    BY <2>1 DEF Alone, Progress
<1>3. ASSUME NEW s \in Store PROVE AtRest(s)'
  <2>1. clean'[s] => clean[s] /\ \A w \in Request : Active(w) => On(w) # s
    BY DEF Restart, On
  <2>2. AtRest(s) /\ (Matches(s)' <=> Matches(s))
    BY DEF RequestInv, Matches, Restart
  <2> QED
    BY <2>1, <2>2 DEF AtRest
<1> QED
  BY <1>2, <1>3 DEF RequestInv

LEMMA RequestStep == TypeOK /\ RequestInv /\ [Next]_dataVars => RequestInv'
<1>1. ASSUME RequestInv, UNCHANGED <<default, store, req, expect, clean>> PROVE RequestInv'
  BY <1>1 DEF RequestInv, Routes, Alone, Progress, AtRest, Matches, Halfway, OthersOn, Active, On,
              Target
<1>2. ASSUME NEW r \in Load, Judge(r) PROVE UNCHANGED <<default, store, req, expect, clean>>
  BY <1>2 DEF Judge, StartLoad, List, Scan, StatOutputs, ReadFile, EndLoad, LoadTable, LoadFails,
               LoadStep
<1> QED
  BY <1>1, <1>2, ServeRequests, RestartRequests DEF Next, dataVars

LEMMA RequestsInvariant == Spec => [](TypeOK /\ RequestInv)
<1> QED
  BY InitTypes, InitRequests, TypeStep, RequestStep, PTL DEF Spec

\* Whatever is uploaded, added, changed or deleted, by how many administrators and
\* with which failures: a store that is clean holds what was written last.
THEOREM StoreHoldsLastWrite == Spec => []StoreIsLastWrite
<1>1. RequestInv => StoreIsLastWrite
  BY DEF RequestInv, StoreIsLastWrite, AtRest, Matches, On
<1> QED
  BY <1>1, RequestsInvariant, PTL

-----------------------------------------------------------------------------
(***************************************************************************)
(* Loads.                                                                  *)
(***************************************************************************)

\* What a load has read stays so while the files stay.
LEMMA PositionKept ==
  ASSUME NEW l, UNCHANGED <<default, store>>
  PROVE  Position(l)' <=> Position(l)
<1>1. \A s : Numbers(s)' = Numbers(s)
  BY DEF Numbers
<1>2. /\ \A s, n : (Held(s, n)' = Held(s, n)) /\ (CanRead(s, n)' <=> CanRead(s, n))
      /\ \A s : Readable(s)' <=> Readable(s)
  BY <1>1 DEF Held, CanRead, Readable
<1>3. HasRead(l)' <=> HasRead(l)
  BY <1>1, <1>2 DEF HasRead
<1>4. Readable(default)' <=> Readable(default)
  BY DEF Readable, CanRead, Numbers
<1> QED
  BY <1>1, <1>2, <1>3, <1>4 DEF Position, Waiting

\* A step that changes neither load r nor a store, and makes none clean that is not
\* as expected.
LEMMA LoadKeeps ==
  ASSUME NEW r \in Load, Undisturbed(r), load'[r] = load[r], UNCHANGED <<default, store>>,
         \A s \in Store : clean'[s] => (clean[s] /\ expect'[s] = expect[s]) \/ Matches(s)'
  PROVE  Undisturbed(r)'
<1> SUFFICES ASSUME load[r].at # "idle", ~load[r].disturbed PROVE Undisturbed(r)'
  BY DEF Undisturbed
<1>1. \A s \in Store : clean'[s] => Matches(s)'
  BY DEF Undisturbed, Matches
<1>2. PICK l : l = load[r] /\ l = load'[r]
  OBVIOUS
<1>3. Position(l)' <=> Position(l)
  BY PositionKept
<1> QED
  BY <1>1, <1>2, <1>3 DEF Undisturbed

\* A load that a change disturbs.
LEMMA DisturbedLoads ==
  ASSUME TypeOK, LoadInv, NEW s, Disturb(s)
  PROVE  LoadInv'
<1>1. ASSUME NEW r \in Load
      PROVE  /\ load'[r].at = load[r].at /\ load'[r].input = load[r].input
             /\ load'[r].got = load[r].got /\ load'[r].failed = load[r].failed
             /\ load'[r].at # "idle" => load'[r].disturbed
  <2>1. load'[r] = [load[r] EXCEPT !.disturbed = @ \/ load[r].at # "idle"]
    BY DEF Disturb
  <2>2. load[r] \in LoadState
    BY DEF TypeOK
  <2> QED
    BY <2>1, <2>2 DEF LoadState
<1> QED
  BY <1>1 DEF LoadInv, NothingRead, Undisturbed

LEMMA InitLoads == Init => LoadInv
<1> SUFFICES ASSUME Init, NEW r \in Load PROVE NothingRead(r) /\ Undisturbed(r)
  BY DEF LoadInv
<1>1. load[r] = Waiting /\ Waiting.at = "idle" /\ Waiting.input = NoFile /\ ~Waiting.failed
  BY DEF Init, Waiting
<1> QED
  BY <1>1 DEF NothingRead, Undisturbed

\* A step of a request that changes no file.
LEMMA LoadsKeep ==
  ASSUME LoadInv, UNCHANGED <<default, store, load>>,
         \A s \in Store : clean'[s] => (clean[s] /\ expect'[s] = expect[s]) \/ Matches(s)'
  PROVE  LoadInv'
<1> SUFFICES ASSUME NEW r \in Load PROVE NothingRead(r)' /\ Undisturbed(r)'
  BY DEF LoadInv
<1>1. NothingRead(r)'
  BY DEF LoadInv, NothingRead
<1> QED
  BY <1>1, LoadKeeps DEF LoadInv

LEMMA ServeLoads ==
  ASSUME TypeOK, RequestInv, LoadInv, NEW w \in Request, Serve(w)
  PROVE  LoadInv'
<1>t. Target(req[w].op) \in Store /\ default \in Store /\ "disk" \in Store
  BY TypeFacts
<1>p. ASSUME NEW s, NEW f, NEW c, PutFile(s, f, c) PROVE LoadInv'
  BY <1>p, DisturbedLoads DEF PutFile
<1>c. ASSUME UNCHANGED <<default, store, load, expect>>,
             clean' = clean \/ \E s \in Store : clean' = [clean EXCEPT ![s] = FALSE]
      PROVE  LoadInv'
  <2>1. \A s \in Store : clean'[s] => clean[s] /\ expect'[s] = expect[s]
    BY <1>c DEF TypeOK
  <2> QED
    BY <1>c, <2>1, LoadsKeep
<1>1. ASSUME NEW op, NEW at, NEW files, NEW right, Begin(w, op, at, files, right) PROVE LoadInv'
  <2>1. /\ UNCHANGED <<default, store, load, expect>>
        /\ \A s \in Store : clean'[s] => clean[s] /\ expect'[s] = expect[s]
    BY <1>1 DEF Begin, TypeOK
  <2> QED
    BY <2>1, LoadsKeep
<1>2. CASE Upload(w) \/ DeleteAll(w) \/ Add(w) \/ AddBlind(w)
  BY <1>1, <1>2 DEF Upload, DeleteAll, Add, AddBlind
<1>3. CASE Update(w) \/ UpdateBlind(w) \/ Delete(w)
  BY <1>1, <1>3 DEF Update, UpdateBlind, Delete
<1>4. CASE Erase(w)
  <2>1. CASE UNCHANGED <<store, load>>
    BY <1>4, <1>c, <2>1 DEF Erase
  <2>2. CASE ~UNCHANGED <<store, load>>
    BY <1>4, <1>p, <2>2 DEF Erase
  <2> QED
    BY <2>1, <2>2
<1>5. CASE EraseFails(w)
  BY <1>5, <1>c, <1>t DEF EraseFails
<1>6. CASE EmptyTable(w)
  BY <1>6, DisturbedLoads DEF EmptyTable
<1>7. CASE OpenFile(w) \/ WriteFile(w) \/ PutObject(w) \/ Remove(w)
  BY <1>7, <1>p DEF OpenFile, WriteFile, PutObject, Remove
<1>8. CASE WriteFails(w)
  <2>1. CASE UNCHANGED <<store, load>>
    BY <1>8, <1>c, <1>t, <2>1 DEF WriteFails
  <2>2. CASE ~UNCHANGED <<store, load>>
    BY <1>8, <1>p, <2>2 DEF WriteFails
  <2> QED
    BY <2>1, <2>2
<1>9. CASE RemoveFails(w)
  BY <1>9, <1>c, <1>t DEF RemoveFails
<1>10. CASE Finish(w)
  BY <1>10, Finishes, LoadsKeep DEF Finish
<1> QED
  BY <1>2, <1>3, <1>4, <1>5, <1>6, <1>7, <1>8, <1>9, <1>10 DEF Serve

LEMMA RestartLoads ==
  ASSUME TypeOK, LoadInv, Restart
  PROVE  LoadInv'
<1>1. /\ UNCHANGED <<default, store, expect>> /\ \A s \in Store : clean'[s] => clean[s]
      /\ \A r \in Load : load'[r] = IF load[r].server THEN Waiting ELSE load[r]
  BY DEF Restart
<1> SUFFICES ASSUME NEW r \in Load PROVE NothingRead(r)' /\ Undisturbed(r)'
  BY DEF LoadInv
<1>3. CASE load[r].server
  <2>1. /\ load'[r] = Waiting /\ Waiting.at = "idle" /\ Waiting.input = NoFile
        /\ ~Waiting.failed
    BY <1>1, <1>3 DEF Waiting
  <2> QED
    BY <2>1 DEF NothingRead, Undisturbed
<1>4. CASE ~load[r].server
  <2>1. load'[r] = load[r]
    BY <1>1, <1>4
  <2> QED
    BY <1>1, <2>1, LoadKeeps DEF LoadInv, NothingRead
<1> QED
  BY <1>3, <1>4

\* A step of load r, if it keeps what is known of r while no file changes.
LEMMA LoadSteps ==
  ASSUME TypeOK, LoadInv, NEW r \in Load, NEW l, load' = [load EXCEPT ![r] = l],
         UNCHANGED <<default, store, expect, clean>>,
         l.at = "idle" => l.input = NoFile /\ l.got = Waiting.got /\ ~l.failed,
         l.at # "idle" /\ ~l.disturbed =>
           (\A s \in Store : clean[s] => Matches(s)) /\ Position(l)
  PROVE  LoadInv'
<1>1. load'[r] = l /\ \A x \in Load \ {r} : load'[x] = load[x]
  BY DEF TypeOK
<1>2. ASSUME NEW x \in Load \ {r} PROVE NothingRead(x)' /\ Undisturbed(x)'
  BY <1>1, LoadKeeps DEF LoadInv, NothingRead
<1>3. NothingRead(r)'
  BY <1>1 DEF NothingRead
<1>4. Undisturbed(r)'
  <2>1. (\A s \in Store : Matches(s)' <=> Matches(s)) /\ (Position(l)' <=> Position(l))
    BY PositionKept DEF Matches
  <2> QED
    BY <1>1, <2>1 DEF Undisturbed
<1> QED
  BY <1>2, <1>3, <1>4 DEF LoadInv

\* A load that begins while no request is active finds the clean stores as expected.
LEMMA Starts ==
  ASSUME TypeOK, RequestInv, LoadInv, NEW r \in Load, NEW l, load' = [load EXCEPT ![r] = l],
         UNCHANGED <<default, store, expect, clean>>, l.at # "idle", Position(l),
         ~l.disturbed => \A w \in Request : ~Active(w)
  PROVE  LoadInv'
<1>1. ~l.disturbed => \A s \in Store : clean[s] => Matches(s)
  BY DEF RequestInv, AtRest
<1> QED
  BY <1>1, LoadSteps

\* A step of a load that has begun and goes on: it is enough to know where it gets
\* while no file changes.
LEMMA Advances ==
  ASSUME TypeOK, LoadInv, NEW r \in Load, load[r].at # "idle",
         NEW l, load' = [load EXCEPT ![r] = l], UNCHANGED <<default, store, expect, clean>>,
         l.at # "idle", l.disturbed = load[r].disturbed,
         Position(load[r]) => Position(l)
  PROVE  LoadInv'
<1>1. ~l.disturbed => (\A s \in Store : clean[s] => Matches(s)) /\ Position(l)
  BY DEF LoadInv, Undisturbed
<1> QED
  BY <1>1, LoadSteps

\* What a listing leads to.
LEMMA Lists ==
  ASSUME TypeOK, NEW r \in Load, load[r].at = "list", NEW found \in SUBSET Numbers(default),
         NEW failed \in BOOLEAN, ~failed => ~load[r].failed /\ found = Numbers(default),
         NEW l, l = [Listed(r, found) EXCEPT !.failed = failed], Position(load[r])
  PROVE  Position(l)
<1>1. load[r] \in LoadState /\ Listed(r, found) \in LoadState
  <2>1. found \in SUBSET CaseNo
    BY DEF Numbers, NumbersOf
  <2> QED
    BY <2>1, TypeFacts DEF LoadState, Listed
<1>2. load[r].server /\ load[r].input = NoFile /\ load[r].got = Waiting.got
  BY DEF Position
<1>3. CASE found = {}
  <2>1. /\ l.at = "scan" /\ l.server = load[r].server /\ l.input = load[r].input
        /\ l.got = load[r].got /\ l.failed = failed
    BY <1>1, <1>3 DEF Listed, LoadState
  <2>2. ~failed => ~Readable(default)
    BY <1>3 DEF Readable
  <2> QED
    BY <1>2, <2>1, <2>2 DEF Position
<1>4. CASE found # {}
  <2>1. /\ l.at = "read" /\ l.server = load[r].server /\ l.input = load[r].input
        /\ l.got = load[r].got /\ l.failed = failed /\ l.from = default /\ l.left = found
    BY <1>1, <1>4 DEF Listed, LoadState
  <2>2. \A n \in CaseNo : Waiting.got[n] = Nothing
    BY DEF Waiting
  <2>3. \A n \in CaseNo \ Numbers(default) : Held(default, n) = Nothing
    BY DEF Held
  <2>4. HasRead(l)
    BY <1>2, <1>4, <2>1, <2>2, <2>3 DEF HasRead
  <2> QED
    BY <1>2, <2>1, <2>4 DEF Position
<1> QED
  BY <1>3, <1>4

\* A file that is missing, or cannot be read, sends the load on.
LEMMA Misses ==
  ASSUME TypeOK, NEW r \in Load, load[r].at \in {"read", "scan", "stat", "files"},
         NEW failed \in BOOLEAN, ~failed => /\ ~load[r].failed
                                            /\ load[r].at \in {"read", "files"}
                                            /\ load[r].at = "read" => ~Readable(default)
                                            /\ load[r].at = "files" => ~Readable("disk"),
         NEW l, l = [Missing(r) EXCEPT !.failed = failed], Position(load[r])
  PROVE  Position(l) /\ l.at # "idle" /\ l.disturbed = load[r].disturbed
<1>1. /\ l.at = IF load[r].at = "read" THEN "scan" ELSE "table"
      /\ l.input = NoFile /\ l.got = Waiting.got /\ l.failed = failed
      /\ l.server = load[r].server /\ l.disturbed = load[r].disturbed
  BY TypeFacts DEF Missing, LoadState
<1>2. ~failed /\ load[r].server => ~Readable(default)
  BY DEF Position
<1> QED
  BY <1>1, <1>2 DEF Position

LEMMA JudgeLoads ==
  ASSUME TypeOK, RequestInv, LoadInv, NEW r \in Load, Judge(r)
  PROVE  LoadInv'
<1>t. /\ load[r] \in LoadState /\ default \in Store /\ "disk" \in Store
      /\ load[r].failed \in BOOLEAN
  BY TypeFacts DEF LoadState
<1>u. ASSUME NEW l, LoadStep(r, l)
      PROVE  load' = [load EXCEPT ![r] = l] /\ UNCHANGED <<default, store, expect, clean>>
  BY <1>u DEF LoadStep
<1>n. \A s : Numbers(s) \subseteq CaseNo
  BY DEF Numbers, NumbersOf
<1>1. CASE StartLoad(r)
  <2> DEFINE started(server) ==
               [load[r] EXCEPT !.server = server, !.at = IF server THEN "list" ELSE "scan",
                               !.disturbed = \E w \in Request : Active(w)]
  <2>0. PICK server \in BOOLEAN : LoadStep(r, started(server))
    BY <1>1 DEF StartLoad
  <2>1. PICK l : l = started(server) /\ LoadStep(r, l) /\ load[r].at = "idle"
    BY <1>1, <2>0 DEF StartLoad
  <2>2. /\ l.server = server /\ l.at = IF server THEN "list" ELSE "scan"
        /\ l.input = NoFile /\ l.got = Waiting.got
        /\ ~l.disturbed => \A w \in Request : ~Active(w)
    BY <1>t, <2>1 DEF LoadState, LoadInv, NothingRead
  <2>3. Position(l)
    BY <2>2 DEF Position
  <2>4. l.at # "idle"
    BY <2>2
  <2> QED
    BY <1>u, <2>1, <2>2, <2>3, <2>4, Starts
<1>2. CASE List(r)
  <2>1. load[r].at = "list" /\ LoadStep(r, Listed(r, Numbers(default)))
    BY <1>2 DEF List
  <2>2. PICK l : l = Listed(r, Numbers(default))
    OBVIOUS
  <2>3. /\ l = [Listed(r, Numbers(default)) EXCEPT !.failed = load[r].failed]
        /\ l.at # "idle" /\ l.disturbed = load[r].disturbed
    <3>1. Listed(r, Numbers(default)) \in LoadState
      BY <1>t, <1>n DEF LoadState, Listed
    <3> QED
      BY <1>t, <2>2, <3>1 DEF Listed, LoadState
  <2>4. Position(load[r]) => Position(l)
    BY <1>t, <2>1, <2>3, Lists
  <2>5. load' = [load EXCEPT ![r] = l] /\ UNCHANGED <<default, store, expect, clean>>
    BY <1>u, <2>1, <2>2
  <2> QED
    BY <2>1, <2>3, <2>4, <2>5, Advances
<1>3. CASE Scan(r)
  <2>1. PICK l : /\ l = IF Numbers("disk") = {} THEN [load[r] EXCEPT !.at = "table"]
                        ELSE [load[r] EXCEPT !.at = "stat", !.from = "disk",
                                             !.left = Numbers("disk")]
                 /\ LoadStep(r, l) /\ load[r].at = "scan"
    BY <1>3 DEF Scan
  <2>2. /\ l.disturbed = load[r].disturbed /\ l.server = load[r].server
        /\ l.input = load[r].input /\ l.got = load[r].got /\ l.failed = load[r].failed
        /\ IF Numbers("disk") = {} THEN l.at = "table"
           ELSE l.at = "stat" /\ l.from = "disk" /\ l.left = Numbers("disk")
    BY <1>t, <2>1 DEF LoadState
  <2>3. Position(load[r]) => Position(l)
    <3>1. Numbers("disk") = {} => ~Readable("disk")
      BY DEF Readable
    <3> QED
      BY <2>1, <2>2, <3>1 DEF Position
  <2>4. l.at # "idle"
    BY <2>2
  <2> QED
    BY <1>u, <2>1, <2>2, <2>3, <2>4, Advances
<1>4. CASE StatOutputs(r)
  <2>1. PICK l : /\ l = [load[r] EXCEPT !.at =
                          IF \A n \in load[r].left : store["disk"][<<n, "out">>] # NoFile
                          THEN "files" ELSE "table"]
                 /\ LoadStep(r, l) /\ load[r].at = "stat"
    BY <1>4 DEF StatOutputs
  <2>2. /\ l.disturbed = load[r].disturbed /\ l.server = load[r].server
        /\ l.input = load[r].input /\ l.got = load[r].got /\ l.left = load[r].left
        /\ l.from = load[r].from /\ l.failed = load[r].failed
        /\ l.at = IF \A n \in load[r].left : store["disk"][<<n, "out">>] # NoFile
                  THEN "files" ELSE "table"
    BY <1>t, <2>1 DEF LoadState
  <2>3. ASSUME Position(load[r]) PROVE Position(l)
    <3>1. /\ load[r].input = NoFile /\ load[r].got = Waiting.got /\ load[r].from = "disk"
          /\ load[r].left = Numbers("disk") /\ Numbers("disk") # {}
      BY <2>1, <2>3 DEF Position
    <3>2. l.at = "table" => ~Readable("disk")
      BY <2>2, <3>1 DEF Readable, CanRead, Pair
    <3>3. \A n \in CaseNo \ Numbers("disk") :
            Waiting.got[n] = Nothing /\ Held("disk", n) = Nothing
      BY DEF Waiting, Held
    <3>4. HasRead(l)
      BY <2>2, <3>1, <3>3 DEF HasRead
    <3> QED
      BY <2>1, <2>2, <2>3, <3>1, <3>2, <3>4 DEF Position
  <2>4. l.at # "idle"
    BY <2>2
  <2>5. load' = [load EXCEPT ![r] = l] /\ UNCHANGED <<default, store, expect, clean>>
    BY <1>u, <2>1
  <2>6. load[r].at # "idle" /\ l.disturbed = load[r].disturbed
    BY <2>1, <2>2
  <2>7. Position(load[r]) => Position(l)
    BY <2>3
  <2> QED
    BY <2>4, <2>5, <2>6, <2>7, Advances
<1>5. CASE ReadFile(r)
  <2> DEFINE n     == Min(load[r].left)
             first == load[r].input = NoFile
             c     == store[load[r].from][<<n, IF first THEN "in" ELSE "out">>]
  <2>1. /\ load[r].at \in {"read", "files"} /\ load[r].left # {}
        /\ LoadStep(r, CASE c = NoFile -> Missing(r)
                         [] c # NoFile /\ first -> [load[r] EXCEPT !.input = c]
                         [] OTHER -> [load[r] EXCEPT !.input = NoFile, !.left = @ \ {n},
                                                     !.got[n] = <<load[r].input, c>>])
    BY <1>5 DEF ReadFile
  <2>2. n \in load[r].left /\ n \in CaseNo
    <3>1. load[r].left \in SUBSET Nat /\ load[r].left \subseteq CaseNo
      BY <1>t, TestDataAssumption DEF LoadState, CaseNo, TestDataAssumption
    <3> QED
      BY <2>1, <3>1, MinIsSmallest
  <2> HIDE DEF n
  <2>3. PICK s \in Store : s = load[r].from
    BY <1>t, <2>1 DEF LoadState
  <2>4. Position(load[r]) =>
          /\ HasRead(load[r]) /\ n \in Numbers(s)
          /\ load[r].at = "read" => s = default
          /\ load[r].at = "files" => s = "disk"
    BY <2>1, <2>2, <2>3 DEF Position, HasRead
  <2>5. CASE c = NoFile
    <3>1. PICK l : l = Missing(r) /\ load' = [load EXCEPT ![r] = l]
      BY <1>u, <2>1, <2>5
    <3>2. l = [Missing(r) EXCEPT !.failed = load[r].failed]
      BY <1>t, <3>1 DEF Missing, LoadState
    <3>3. ~CanRead(s, n)
      BY <2>3, <2>5 DEF CanRead, Pair
    <3>4. Position(load[r]) => ~Readable(s)
      BY <2>4, <3>3 DEF Readable
    <3>5. Position(load[r]) => Position(l)
      BY <1>t, <2>1, <2>4, <3>2, <3>4, Misses
    <3>6. l.at # "idle" /\ l.disturbed = load[r].disturbed
      BY <1>t, <3>1 DEF Missing, LoadState
    <3>7. UNCHANGED <<default, store, expect, clean>>
      BY <1>u, <2>1
    <3> QED
      BY <2>1, <3>1, <3>5, <3>6, <3>7, Advances
  <2>6. CASE c # NoFile /\ first
    <3>1. PICK l : l = [load[r] EXCEPT !.input = c] /\ LoadStep(r, l)
      BY <2>1, <2>6
    <3>2. /\ l.input = c /\ l.at = load[r].at /\ l.left = load[r].left
          /\ l.got = load[r].got /\ l.from = load[r].from /\ l.server = load[r].server
          /\ l.disturbed = load[r].disturbed /\ l.failed = load[r].failed
      BY <1>t, <3>1 DEF LoadState
    <3>3. c = store[l.from][<<Min(l.left), "in">>] /\ l.left # {}
      BY <2>1, <2>6, <3>2 DEF n
    <3>4. HasRead(load[r]) => HasRead(l)
      BY <3>2, <3>3 DEF HasRead
    <3>5. Position(load[r]) => Position(l)
      BY <2>1, <2>4, <3>2, <3>4 DEF Position
    <3>6. l.at # "idle"
      BY <2>1, <3>2
    <3>7. load' = [load EXCEPT ![r] = l] /\ UNCHANGED <<default, store, expect, clean>>
      BY <1>u, <3>1
    <3> QED
      BY <2>1, <3>2, <3>5, <3>6, <3>7, Advances
  <2>7. CASE c # NoFile /\ ~first
    <3>1. PICK l : /\ l = [load[r] EXCEPT !.input = NoFile, !.left = @ \ {n},
                                          !.got[n] = <<load[r].input, c>>]
                   /\ LoadStep(r, l)
      BY <2>1, <2>7
    <3>2. /\ l.input = NoFile /\ l.at = load[r].at /\ l.left = load[r].left \ {n}
          /\ l.got = [load[r].got EXCEPT ![n] = <<load[r].input, c>>]
          /\ l.from = load[r].from /\ l.server = load[r].server
          /\ l.disturbed = load[r].disturbed /\ l.failed = load[r].failed
      BY <1>t, <3>1 DEF LoadState
    <3>3. load[r].got \in [CaseNo -> Content \X Content]
      BY <1>t DEF LoadState
    <3>4. ASSUME Position(load[r])
          PROVE  l.got[n] = Held(s, n) /\ CanRead(s, n)
      <4>1. load[r].input = store[s][<<n, "in">>] /\ load[r].input # NoFile
        BY <2>3, <2>4, <2>7, <3>4 DEF HasRead, n
      <4>2. c = store[s][<<n, "out">>]
        BY <2>3, <2>7
      <4>3. l.got[n] = <<load[r].input, c>>
        BY <2>2, <3>2, <3>3
      <4> QED
        BY <2>4, <2>7, <3>4, <4>1, <4>2, <4>3 DEF Held, CanRead, Pair
    <3>5. \A k \in CaseNo \ {n} : l.got[k] = load[r].got[k]
      BY <2>2, <3>2, <3>3
    <3>6. Position(load[r]) => HasRead(l)
      <4> SUFFICES ASSUME Position(load[r]) PROVE HasRead(l)
        OBVIOUS
      <4>1. \A k \in CaseNo \ l.left : k = n \/ k \in CaseNo \ load[r].left
        BY <3>2
      <4>2. \A k \in Numbers(s) \ l.left : k = n \/ k \in Numbers(s) \ load[r].left
        BY <3>2
      <4>3. /\ load[r].left \subseteq Numbers(s)
            /\ \A k \in CaseNo \ load[r].left : load[r].got[k] \in {Nothing, Held(s, k)}
            /\ ~load[r].failed =>
                 /\ Numbers(s) # {}
                 /\ \A k \in CaseNo \ load[r].left : load[r].got[k] = Held(s, k)
                 /\ \A k \in Numbers(s) \ load[r].left : CanRead(s, k)
        BY <2>3, <2>4 DEF HasRead
      <4>4. l.from = s /\ l.left \subseteq Numbers(s) /\ l.input = NoFile
            /\ l.failed = load[r].failed
        BY <2>3, <3>2, <4>3
      <4>5. \A k \in CaseNo \ l.left : l.got[k] \in {Nothing, Held(s, k)}
        BY <3>4, <3>5, <4>1, <4>3
      <4>6. ~l.failed => /\ Numbers(s) # {}
                         /\ \A k \in CaseNo \ l.left : l.got[k] = Held(s, k)
                         /\ \A k \in Numbers(s) \ l.left : CanRead(s, k)
        BY <3>4, <3>5, <4>1, <4>2, <4>3, <4>4
      <4> QED
        BY <4>4, <4>5, <4>6 DEF HasRead
    <3>7. Position(load[r]) => Position(l)
      BY <2>1, <2>4, <3>2, <3>6 DEF Position
    <3>8. l.at # "idle"
      BY <2>1, <3>2
    <3>9. load' = [load EXCEPT ![r] = l] /\ UNCHANGED <<default, store, expect, clean>>
      BY <1>u, <3>1
    <3> QED
      BY <2>1, <3>2, <3>7, <3>8, <3>9, Advances
  <2> QED
    BY <2>5, <2>6, <2>7
<1>6. CASE EndLoad(r) \/ LoadTable(r)
  <2>1. LoadStep(r, Waiting)
    BY <1>6 DEF EndLoad, LoadTable
  <2>2. PICK l : l = Waiting /\ LoadStep(r, l)
    BY <2>1
  <2>3. l.at = "idle" /\ l.input = NoFile /\ l.got = Waiting.got /\ ~l.failed
    BY <2>2 DEF Waiting
  <2> QED
    BY <1>u, <2>2, <2>3, LoadSteps
<1>7. CASE LoadFails(r)
  <2>1. UNCHANGED <<default, store, expect, clean>>
    BY <1>7 DEF LoadFails
  <2>2. CASE load[r].at = "idle"
    <3> DEFINE started(server) == [load[r] EXCEPT !.server = server, !.at = "table",
                                                  !.disturbed = \E w \in Request : Active(w)]
    <3> DEFINE S == {started(server) : server \in BOOLEAN}
    <3>0. \E l \in S : load' = [load EXCEPT ![r] = [l EXCEPT !.failed = TRUE]]
      BY <1>7, <2>2, Zenon DEF LoadFails
    <3>1. PICK server \in BOOLEAN :
            load' = [load EXCEPT ![r] = [started(server) EXCEPT !.failed = TRUE]]
      BY <3>0, Zenon
    <3>2. PICK l : /\ l = [started(server) EXCEPT !.failed = TRUE]
                   /\ load' = [load EXCEPT ![r] = l]
      BY <3>1
    <3>3. /\ l.at = "table" /\ l.failed /\ l.input = NoFile /\ l.got = Waiting.got
          /\ ~l.disturbed => \A w \in Request : ~Active(w)
      BY <1>t, <2>2, <3>2 DEF LoadState, LoadInv, NothingRead
    <3>4. Position(l) /\ l.at # "idle"
      BY <3>3 DEF Position
    <3> QED
      BY <2>1, <3>2, <3>3, <3>4, Starts
  <2>3. CASE load[r].at = "list"
    <3>1. PICK found \in SUBSET Numbers(default) :
            load' = [load EXCEPT ![r] = [Listed(r, found) EXCEPT !.failed = TRUE]]
      BY <1>7, <2>3 DEF LoadFails
    <3>2. PICK l : /\ l = [Listed(r, found) EXCEPT !.failed = TRUE]
                   /\ load' = [load EXCEPT ![r] = l]
      BY <3>1
    <3>3. Position(load[r]) => Position(l)
      BY <2>3, <3>2, Lists
    <3>4. l.at # "idle" /\ l.disturbed = load[r].disturbed
      <4>1. Listed(r, found) \in LoadState
        BY <1>t, <1>n DEF LoadState, Listed
      <4> QED
        BY <1>t, <3>2, <4>1 DEF LoadState, Listed
    <3> QED
      BY <2>1, <2>3, <3>2, <3>3, <3>4, Advances
  <2>4. CASE load[r].at \notin {"idle", "list"}
    <3>1. load' = [load EXCEPT ![r] = [Missing(r) EXCEPT !.failed = TRUE]]
      BY <1>7, <2>4 DEF LoadFails
    <3>2. PICK l : /\ l = [Missing(r) EXCEPT !.failed = TRUE]
                   /\ load' = [load EXCEPT ![r] = l]
      BY <3>1
    <3>3. Position(load[r]) => Position(l)
      <4>1. load[r].at \in {"read", "scan", "stat", "files"}
        BY <1>7, <2>4 DEF LoadFails
      <4> QED
        BY <3>2, <4>1, Misses
    <3>4. l.at # "idle" /\ l.disturbed = load[r].disturbed
      BY <1>t, <3>2 DEF LoadState, Missing
    <3> QED
      BY <2>1, <2>4, <3>2, <3>3, <3>4, Advances
  <2> QED
    BY <2>2, <2>3, <2>4
<1> QED
  BY <1>1, <1>2, <1>3, <1>4, <1>5, <1>6, <1>7 DEF Judge

LEMMA LoadInvStep == TypeOK /\ RequestInv /\ LoadInv /\ [Next]_dataVars => LoadInv'
<1>1. ASSUME LoadInv, UNCHANGED dataVars PROVE LoadInv'
  BY <1>1, LoadsKeep DEF dataVars
<1> QED
  BY <1>1, ServeLoads, RestartLoads, JudgeLoads DEF Next

\* A load during which no file changes is given what was written last, case by case,
\* even if its own operations fail; if none does it is given all of it, and the old
\* table only if no store can be read in full.
THEOREM LoadGetsLastWrite == Spec => []LoadIsLastWrite
<1>1. TypeOK /\ LoadInv => LoadIsLastWrite
  <2> SUFFICES ASSUME TypeOK, LoadInv, NEW r \in Load, ~load[r].disturbed,
                      \A s \in Store : clean[s], load[r].at # "idle"
               PROVE  /\ (load[r].at \in {"read", "files"} /\ load[r].left = {}) =>
                           /\ \A n \in CaseNo :
                                load[r].got[n] \in {Nothing, Case(load[r].from, n)}
                           /\ ~load[r].failed => load[r].got = Wanted(r)
                      /\ load[r].at = "table" /\ ~load[r].failed => Wanted(r) = Waiting.got
    BY DEF LoadIsLastWrite
  <2>1. (\A s \in Store : Matches(s)) /\ Position(load[r])
    BY DEF LoadInv, Undisturbed
  <2>2. /\ default \in Store /\ "disk" \in Store /\ load[r].got \in [CaseNo -> Content \X Content]
        /\ load[r].at \in {"read", "stat", "files"} => load[r].from \in Store
    BY TypeFacts DEF LoadState
  <2>3. ASSUME NEW s \in Store
        PROVE  (Readable(s) <=> Loadable(s)) /\ \A n : Held(s, n) = Case(s, n)
    <3>1. store[s] = expect[s] /\ Numbers(s) = NumbersOf(expect[s])
      BY <2>1 DEF Matches, Numbers
    <3> QED
      BY <3>1 DEF Readable, Loadable, CanRead, Held, Case
  <2>4. ASSUME load[r].at \in {"read", "files"}, load[r].left = {}
        PROVE  /\ \A n \in CaseNo : load[r].got[n] \in {Nothing, Case(load[r].from, n)}
               /\ ~load[r].failed => load[r].got = Wanted(r)
    <3>1. HasRead(load[r]) /\ load[r].from \in Store
      BY <2>1, <2>2, <2>4 DEF Position
    <3>2. \A n \in CaseNo : load[r].got[n] \in {Nothing, Case(load[r].from, n)}
      BY <2>3, <2>4, <3>1 DEF HasRead
    <3>3. ASSUME ~load[r].failed PROVE load[r].got = Wanted(r)
      <4>1. Loadable(load[r].from) /\ \A n \in CaseNo : load[r].got[n] = Case(load[r].from, n)
        BY <2>3, <2>4, <3>1, <3>3 DEF HasRead, Readable
      <4>2. load[r].got = [n \in CaseNo |-> Case(load[r].from, n)]
        BY <2>2, <4>1
      <4>3. CASE load[r].at = "read"
        <5>1. load[r].server /\ load[r].from = default
          BY <2>1, <4>3 DEF Position
        <5> QED
          BY <4>1, <4>2, <5>1 DEF Wanted
      <4>4. CASE load[r].at = "files"
        <5>1. load[r].from = "disk" /\ ~(load[r].server /\ Loadable(default))
          BY <2>1, <2>2, <2>3, <3>3, <4>4 DEF Position
        <5> QED
          BY <4>1, <4>2, <5>1 DEF Wanted
      <4> QED
        BY <2>4, <4>3, <4>4
    <3> QED
      BY <3>2, <3>3
  <2>5. ASSUME load[r].at = "table", ~load[r].failed PROVE Wanted(r) = Waiting.got
    <3>1. ~Loadable("disk") /\ ~(load[r].server /\ Loadable(default))
      BY <2>1, <2>2, <2>3, <2>5 DEF Position
    <3> QED
      BY <3>1 DEF Wanted
  <2> QED
    BY <2>4, <2>5
<1>2. Spec => []LoadInv
  BY InitTypes, InitRequests, InitLoads, TypeStep, RequestStep, LoadInvStep, PTL DEF Spec
<1> QED
  BY <1>1, <1>2, DataTypes, PTL
=============================================================================
