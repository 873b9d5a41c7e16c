------------------------------ MODULE TestData ------------------------------
(***************************************************************************)
(* The test cases of one problem: administrators replace, add, change and  *)
(* delete them (cmd/server/main.go, internal/storage) while judge tasks    *)
(* load them (internal/worker).  Nothing locks the files: a request is one *)
(* file operation after the other, and so is a load.                       *)
(*                                                                         *)
(* A file's content is the request that wrote it.  os.WriteFile truncates  *)
(* before it writes, an object is put whole.  Uploads and full deletions   *)
(* go to storage.Default, the requests about one case always to the        *)
(* directory.  The version numbers of problems and Redis are left out: no  *)
(* branch of loadTestCasesFromDisk reads other data because of them.  The  *)
(* directory itself is not modelled: a file that cannot be made because an *)
(* upload has just removed it is one of WriteFails.  An archive may name   *)
(* its files as it likes: 01.in and its output are one "odd" file, counted *)
(* as case 1 and read by nobody; a name that is no number makes no file.   *)
(***************************************************************************)
EXTENDS Naturals, FiniteSets, FiniteSetsExt

CONSTANTS
  Request,    \* requests of administrators
  Load,       \* loads by judge tasks
  Backends,   \* which back ends storage.Init may select
  Stored,     \* case numbers stored in the directory at first
  Uploads,    \* the sets of files that an uploaded archive may hold
  MaxCase,    \* bound: the largest case number
  MaxFaults,  \* bound: operations that fail and restarts of the server
  NoFile, Empty, Old   \* no such file; a truncated one; the content at first

CaseNo == 1 .. MaxCase
File   == CaseNo \X {"in", "out", "odd"}

\* An archive is refused unless every input in it comes with its output.
ASSUME TestDataAssumption ==
  /\ Backends \subseteq {"disk", "bucket"}
  /\ MaxCase \in Nat /\ MaxFaults \in Nat
  /\ Stored \subseteq CaseNo
  /\ Uploads \subseteq SUBSET File
  /\ \A A \in Uploads : \A n \in CaseNo : <<n, "in">> \in A => <<n, "out">> \in A

VARIABLES
  default,  \* the store behind storage.Default of the server
  store,    \* store["disk"], store["bucket"]: the files of the problem
  table,    \* the problem still has rows in the old test_cases table
  req,      \* the state of each request
  load,     \* the state of each load
  faults,
  expect,   \* history: the files of each store if requests are taken one by one
  clean     \* history: since its last upload or deletion no request on the store
            \* overlapped another one or failed

dataVars == <<default, store, table, req, load, faults, expect, clean>>

Store   == {"disk", "bucket"}
Content == Request \cup {NoFile, Empty, Old}

Pair(n) == {<<n, "in">>, <<n, "out">>}

\* The case numbers in the names of the inputs among some files.
NumbersOf(files) == {n \in CaseNo : files[<<n, "in">>] # NoFile \/ files[<<n, "odd">>] # NoFile}
Numbers(s) == NumbersOf(store[s])

Single == {"add", "update", "delete"}
Target(op) == IF op \in Single THEN "disk" ELSE default

Active(w) == req[w].at \notin {"idle", "done"}
OthersOn(w, s) == \E v \in Request \ {w} : Active(v) /\ Target(req[v].op) = s

\* No request yet.
Idle == [op |-> "none", at |-> "idle", todo |-> {}, files |-> {}, open |-> NoFile,
         alone |-> TRUE]

\* A request that has answered, or was cut off.
Ended == [Idle EXCEPT !.at = "done"]

\* No input and no output.
Nothing == <<NoFile, NoFile>>

Waiting == [at |-> "idle", server |-> FALSE, from |-> "none", left |-> {}, input |-> NoFile,
            got |-> [n \in CaseNo |-> Nothing], disturbed |-> FALSE,
            failed |-> FALSE]

AllOld(N) == [f \in File |-> IF f[1] \in N /\ f[2] # "odd" THEN Old ELSE NoFile]

Init ==
  /\ default \in Backends
  /\ store = [s \in Store |-> IF s = "disk" THEN AllOld(Stored) ELSE AllOld({})]
  /\ table = TRUE
  /\ req = [w \in Request |-> Idle]
  /\ load = [r \in Load |-> Waiting]
  /\ faults = 0
  /\ expect = store
  /\ clean = [s \in Store |-> TRUE]

-----------------------------------------------------------------------------
(***************************************************************************)
(* Requests.                                                               *)
(***************************************************************************)

\* A change of store s disturbs the loads that are under way.
Disturb(s) ==
  load' = [r \in Load |->
    [load[r] EXCEPT !.disturbed = @ \/ load[r].at # "idle"]]

PutFile(s, f, c) == store' = [store EXCEPT ![s][f] = c] /\ Disturb(s)

\* Request w begins: it will write or remove these files, which are the right ones
\* unless it chose them by a directory it could not read.
Begin(w, op, at, files, right) ==
  LET alone == right /\ ~OthersOn(w, Target(op))
  IN /\ req[w].at = "idle"
     /\ req' = [v \in Request |->
          IF v = w THEN [Idle EXCEPT !.op = op, !.at = at, !.files = files, !.todo = files,
                                     !.alone = alone]
          ELSE IF Active(v) /\ Target(req[v].op) = Target(op)
               THEN [req[v] EXCEPT !.alone = FALSE] ELSE req[v]]
     /\ clean' = [clean EXCEPT ![Target(op)] = @ /\ alone]
     /\ UNCHANGED <<default, store, table, load, expect>>

\* An archive whose inputs are all named by no number is accepted with no file to write.
Upload(w) == UNCHANGED faults /\ \E A \in Uploads : Begin(w, "upload", "erase", A, TRUE)

DeleteAll(w) == UNCHANGED faults /\ Begin(w, "deleteAll", "erase", {}, TRUE)

\* Mutant of NextNum: the scan stops at the largest number.
LargestNum == IF Numbers("disk") = {} THEN 1 ELSE Max(Numbers("disk"))

\* One more than the largest number in the directory.
NextNum == IF Numbers("disk") = {} THEN 1 ELSE Max(Numbers("disk")) + 1

Add(w) ==
  /\ NextNum <= MaxCase
  /\ UNCHANGED faults
  /\ Begin(w, "add", "write", Pair(NextNum), TRUE)

\* Reading the directory fails and nobody looks: the case is numbered by the
\* entries that were read, which may be none.
AddBlind(w) ==
  /\ faults < MaxFaults
  /\ faults' = faults + 1
  /\ \E n \in ({1} \cup {k + 1 : k \in Numbers("disk")}) \cap CaseNo :
       Begin(w, "add", "write", Pair(n), FALSE)

\* Only the .in file is looked for ...
Update(w) ==
  /\ UNCHANGED faults
  /\ \E n \in CaseNo : store["disk"][<<n, "in">>] # NoFile /\ Begin(w, "update", "write", Pair(n), TRUE)

\* ... and an error other than its absence is not one.
UpdateBlind(w) ==
  /\ faults < MaxFaults
  /\ faults' = faults + 1
  /\ \E n \in CaseNo : Begin(w, "update", "write", Pair(n), TRUE)

Delete(w) == UNCHANGED faults /\ \E n \in CaseNo : Begin(w, "delete", "remove", Pair(n), TRUE)

\* RemoveAll, or the loop of RemoveObject: one file at a time.
Erase(w) ==
  /\ req[w].at = "erase"
  /\ LET present == {f \in File : store[default][f] # NoFile}
     IN IF present = {}
        THEN /\ req' = [req EXCEPT ![w].at = IF req[w].op = "upload" THEN "write" ELSE "table"]
             /\ UNCHANGED <<store, load>>
        ELSE /\ \E f \in present : PutFile(default, f, NoFile)
             /\ UNCHANGED req
  /\ UNCHANGED <<default, table, faults, expect, clean>>

\* Removing goes wrong.  SaveTestCases does not look, and of an object nobody does.
EraseFails(w) ==
  /\ req[w].at = "erase" /\ faults < MaxFaults
  /\ faults' = faults + 1
  /\ req' = [req EXCEPT ![w] =
       CASE req[w].op = "upload" -> [@ EXCEPT !.at = "write", !.alone = FALSE]
         [] req[w].op # "upload" /\ default = "bucket" -> [@ EXCEPT !.at = "table", !.alone = FALSE]
         [] OTHER -> Ended]
  /\ clean' = [clean EXCEPT ![default] = FALSE]
  /\ UNCHANGED <<default, store, table, load, expect>>

\* deleteAllTestCases also empties the table, and does not look whether it did.
EmptyTable(w) ==
  /\ req[w].at = "table"
  /\ table' \in {FALSE, table}
  /\ Disturb(default)
  /\ req' = [req EXCEPT ![w].at = "end"]
  /\ UNCHANGED <<default, store, faults, expect, clean>>

\* The files of an archive come in the order of a Go map, of one case .in first.
NextFile(w) ==
  {f \in req[w].todo : req[w].op = "upload" \/ f[2] = "in" \/ <<f[1], "in">> \notin req[w].todo}

\* os.WriteFile opens the file and truncates it.
OpenFile(w) ==
  /\ req[w].at = "write" /\ req[w].open = NoFile
  /\ Target(req[w].op) = "disk"
  /\ \E f \in NextFile(w) :
       /\ PutFile("disk", f, Empty)
       /\ req' = [req EXCEPT ![w].open = f]
  /\ UNCHANGED <<default, table, faults, expect, clean>>

WriteFile(w) ==
  /\ req[w].at = "write" /\ req[w].open # NoFile
  /\ PutFile("disk", req[w].open, w)
  /\ req' = [req EXCEPT ![w].open = NoFile, ![w].todo = @ \ {req[w].open}]
  /\ UNCHANGED <<default, table, faults, expect, clean>>

PutObject(w) ==
  /\ req[w].at = "write" /\ Target(req[w].op) = "bucket"
  /\ \E f \in NextFile(w) :
       /\ PutFile("bucket", f, w)
       /\ req' = [req EXCEPT ![w].todo = @ \ {f}]
  /\ UNCHANGED <<default, table, faults, expect, clean>>

\* A write fails: the request ends; adding a case takes its input back when the
\* output cannot be written, which may fail too.
WriteFails(w) ==
  LET s      == Target(req[w].op)
      inputs == {f \in req[w].files : f[2] = "in"}
      undo   == req[w].op = "add" /\ req[w].todo \cap inputs = {}
  IN /\ req[w].at = "write" /\ req[w].todo # {}
     /\ faults < MaxFaults
     /\ faults' = faults + 1
     /\ req' = [req EXCEPT ![w] = Ended]
     /\ clean' = [clean EXCEPT ![s] = FALSE]
     /\ \/ undo /\ \E f \in inputs : PutFile(s, f, NoFile)
        \/ UNCHANGED <<store, load>>
     /\ UNCHANGED <<default, table, expect>>

\* deleteSingleTestCase removes the input, then the output, without a look at errors.
Remove(w) ==
  /\ req[w].at = "remove"
  /\ \E f \in NextFile(w) :
       /\ PutFile("disk", f, NoFile)
       /\ req' = [req EXCEPT ![w].todo = @ \ {f}]
  /\ UNCHANGED <<default, table, faults, expect, clean>>

RemoveFails(w) ==
  /\ req[w].at = "remove"
  /\ faults < MaxFaults
  /\ faults' = faults + 1
  /\ \E f \in NextFile(w) :
       req' = [req EXCEPT ![w].todo = @ \ {f}, ![w].alone = FALSE]
  /\ clean' = [clean EXCEPT !["disk"] = FALSE]
  /\ UNCHANGED <<default, store, table, load, expect>>

\* What the files of a store become when request w alone changes them.
After(w, before) ==
  LET files == IF req[w].op = "add" THEN Pair(Max(NumbersOf(before) \cup {0}) + 1)
               ELSE req[w].files
  IN [f \in File |->
        CASE f \in files -> IF req[w].op = "delete" THEN NoFile ELSE w
          [] f \notin files /\ req[w].op \in Single -> before[f]
          [] OTHER -> NoFile]

\* The request increments test_case_version and answers.
Finish(w) ==
  LET s == Target(req[w].op)
  IN /\ \/ req[w].at \in {"write", "remove"} /\ req[w].todo = {}
        \/ req[w].at = "end"
     /\ req' = [req EXCEPT ![w] = Ended]
     /\ expect' = [expect EXCEPT ![s] = IF req[w].alone THEN After(w, @) ELSE @]
     /\ clean' = [clean EXCEPT ![s] = req[w].alone /\ (@ \/ req[w].op \notin Single)]
     /\ UNCHANGED <<default, store, table, load, faults>>

\* The server restarts: its requests end where they are, its loads with their task.
Restart ==
  LET cut == {w \in Request : Active(w)}
  IN /\ faults < MaxFaults
     /\ faults' = faults + 1
     /\ req' = [w \in Request |-> IF w \in cut THEN Ended ELSE req[w]]
     /\ clean' = [s \in Store |-> clean[s] /\ \A w \in cut : Target(req[w].op) # s]
     /\ load' = [r \in Load |->
          IF load[r].server THEN Waiting ELSE load[r]]
     /\ UNCHANGED <<default, store, table, expect>>

-----------------------------------------------------------------------------
(***************************************************************************)
(* Loads: the back end, if the process has one, then the directory, then   *)
(* the old table.                                                          *)
(***************************************************************************)

LoadStep(r, fields) ==
  /\ load' = [load EXCEPT ![r] = fields]
  /\ UNCHANGED <<default, store, table, req, faults, expect, clean>>

\* A consumer of the API server or of judge-worker, which never calls storage.Init,
\* has taken the task.
StartLoad(r) ==
  /\ load[r].at = "idle"
  /\ \E server \in BOOLEAN :
       LoadStep(r, [load[r] EXCEPT !.server = server,
                                   !.at = IF server THEN "list" ELSE "scan",
                                   !.disturbed = \E w \in Request : Active(w)])

\* Mutant of List: the directory comes first.
ListDirectory(r) ==
  /\ load[r].at = "list"
  /\ LoadStep(r, [load[r] EXCEPT !.at = "scan"])

\* What the back end lists is read; without an input it is the directory's turn.
Listed(r, found) ==
  IF found = {} THEN [load[r] EXCEPT !.at = "scan"]
  ELSE [load[r] EXCEPT !.at = "read", !.from = default, !.left = found]

\* readTestCasesFromStorage lists the files.
List(r) == load[r].at = "list" /\ LoadStep(r, Listed(r, Numbers(default)))

\* readTestCasesFromFilesystem lists the directory ...
Scan(r) ==
  /\ load[r].at = "scan"
  /\ LoadStep(r, IF Numbers("disk") = {} THEN [load[r] EXCEPT !.at = "table"]
                 ELSE [load[r] EXCEPT !.at = "stat", !.from = "disk",
                                      !.left = Numbers("disk")])

\* ... and gives up if one output is missing.
StatOutputs(r) ==
  /\ load[r].at = "stat"
  /\ LoadStep(r, [load[r] EXCEPT !.at =
       IF \A n \in load[r].left : store["disk"][<<n, "out">>] # NoFile
       THEN "files" ELSE "table"])

\* A file that is not there or cannot be read: from the back end to the directory, from there
\* to the table.
Missing(r) ==
  [load[r] EXCEPT !.at = IF load[r].at = "read" THEN "scan" ELSE "table",
                  !.left = {}, !.input = NoFile, !.got = Waiting.got]

\* The input, then the output, of the case with the smallest number.
ReadFile(r) ==
  /\ load[r].at \in {"read", "files"} /\ load[r].left # {}
  /\ LET n     == Min(load[r].left)
         first == load[r].input = NoFile
         c     == store[load[r].from][<<n, IF first THEN "in" ELSE "out">>]
     IN LoadStep(r,
          CASE c = NoFile -> Missing(r)
            [] c # NoFile /\ first -> [load[r] EXCEPT !.input = c]
            [] OTHER -> [load[r] EXCEPT !.input = NoFile, !.left = @ \ {n},
                                        !.got[n] = <<load[r].input, c>>])

\* An operation of a load fails.  Without the problem's row the old table is read;
\* a listing of the bucket that breaks off is taken as it is.
LoadFails(r) ==
  /\ faults < MaxFaults
  /\ faults' = faults + 1
  /\ \E l \in
       CASE load[r].at = "idle" ->
              {[load[r] EXCEPT !.server = server, !.at = "table",
                               !.disturbed = \E w \in Request : Active(w)] : server \in BOOLEAN}
         [] load[r].at = "list" ->
              {Listed(r, found) : found \in IF default = "bucket" THEN SUBSET Numbers("bucket")
                                            ELSE {{}}}
         [] load[r].at \in {"scan", "stat"} -> {Missing(r)}
         [] load[r].at \in {"read", "files"} /\ load[r].left # {} -> {Missing(r)}
         [] OTHER -> {} :
       load' = [load EXCEPT ![r] = [l EXCEPT !.failed = TRUE]]
  /\ UNCHANGED <<default, store, table, req, expect, clean>>

\* The cases are complete and go to the judge.
EndLoad(r) ==
  /\ load[r].at \in {"read", "files"} /\ load[r].left = {}
  /\ LoadStep(r, Waiting)

\* loadTestCasesFromMySQL; without rows the submission becomes "No Test Cases".
LoadTable(r) ==
  /\ load[r].at = "table"
  /\ LoadStep(r, Waiting)

-----------------------------------------------------------------------------
Serve(w) ==
  \/ Upload(w) \/ DeleteAll(w) \/ Add(w) \/ AddBlind(w) \/ Update(w) \/ UpdateBlind(w)
  \/ Delete(w)
  \/ Erase(w) \/ EraseFails(w) \/ EmptyTable(w)
  \/ OpenFile(w) \/ WriteFile(w) \/ PutObject(w) \/ WriteFails(w)
  \/ Remove(w) \/ RemoveFails(w) \/ Finish(w)

Judge(r) ==
  \/ StartLoad(r) \/ List(r) \/ Scan(r) \/ StatOutputs(r)
  \/ ReadFile(r) \/ LoadFails(r) \/ EndLoad(r) \/ LoadTable(r)

Next == (\E w \in Request : Serve(w)) \/ (\E r \in Load : Judge(r)) \/ Restart

Spec == Init /\ [][Next]_dataVars

-----------------------------------------------------------------------------
(***************************************************************************)
(* Properties.                                                             *)
(***************************************************************************)

RequestState ==
  [op : Single \cup {"none", "upload", "deleteAll"},
   at : {"idle", "erase", "table", "write", "remove", "end", "done"},
   todo : SUBSET File, files : SUBSET File, open : File \cup {NoFile}, alone : BOOLEAN]

LoadState ==
  {l \in [at : {"idle", "list", "read", "scan", "stat", "files", "table"}, server : BOOLEAN,
          from : Store \cup {"none"}, left : SUBSET CaseNo, input : Content,
          got : [CaseNo -> Content \X Content], disturbed : BOOLEAN, failed : BOOLEAN] :
     l.at \in {"read", "stat", "files"} => l.from \in Store}

\* Every variable has its type; a file is open only in the directory and while
\* it is to be written.
TypeOK ==
  /\ default \in Store
  /\ store \in [Store -> [File -> Content]]
  /\ table \in BOOLEAN
  /\ req \in [Request -> RequestState]
  /\ load \in [Load -> LoadState]
  /\ \A w \in Request :
       req[w].open # NoFile =>
         req[w].at = "write" /\ req[w].open \in req[w].todo /\ Target(req[w].op) = "disk"
  /\ faults \in 0 .. MaxFaults
  /\ expect \in [Store -> [File -> Content]]
  /\ clean \in [Store -> BOOLEAN]

\* As long as requests do not overlap or fail, a store holds what they say: an
\* upload replaces every file, an added case overwrites none, a change touches
\* one, and each input keeps the output it came with.  A store where requests did
\* overlap or fail is healed by the next upload or full deletion.
StoreIsLastWrite ==
  \A s \in Store :
    clean[s] /\ (\A w \in Request : Active(w) => Target(req[w].op) # s) =>
      store[s] = expect[s]

\* Case n of the last write on store s, as a load reads it.
Case(s, n) ==
  IF n \in NumbersOf(expect[s]) THEN <<expect[s][<<n, "in">>], expect[s][<<n, "out">>]>> ELSE Nothing

\* A load can read every case that the last write on store s seems to hold.
Loadable(s) ==
  /\ NumbersOf(expect[s]) # {}
  /\ \A n \in NumbersOf(expect[s]) : \A f \in Pair(n) : expect[s][f] # NoFile

\* The cases judge task r should be given: those of the first store it may read
\* whose every case can be read.
Wanted(r) ==
  LET first == load[r].server /\ Loadable(default)
  IN CASE first -> [n \in CaseNo |-> Case(default, n)]
       [] ~first /\ Loadable("disk") -> [n \in CaseNo |-> Case("disk", n)]
       [] OTHER -> Waiting.got

\* A load during which no file changes takes the cases of one store's last write,
\* each with its own output.  Unless one of its own operations fails it takes all
\* of them, from the store with precedence, and it falls back to the old table, or
\* to "No Test Cases", only if there is no store whose every case can be read.
LoadIsLastWrite ==
  \A r \in Load :
    LET l        == load[r]
        complete == l.at \in {"read", "files"} /\ l.left = {}
    IN (~l.disturbed /\ \A s \in Store : clean[s]) =>
         /\ complete => \A n \in CaseNo : l.got[n] \in {Nothing, Case(l.from, n)}
         /\ (complete /\ ~l.failed) => l.got = Wanted(r)
         /\ (l.at = "table" /\ ~l.failed) => Wanted(r) = Waiting.got

=============================================================================
