--------------------------- MODULE BatchItems_proofs ---------------------------
(***************************************************************************)
(* That no item of a command on several items is left between the shelf    *)
(* and the working tree without a record, and that recovery carries every  *)
(* such record to its end outside the windows that are named: for any      *)
(* number of items, records and command lines.                             *)
(***************************************************************************)
EXTENDS BatchItems, WellFoundedInduction, TLAPS

(***************************************************************************)
(* The invariant                                                           *)
(***************************************************************************)

(* Where a command stands with the item of a record: places as it leaves   *)
(* them between two phases, numbered by the rows of the table.             *)
AddAt(r, j) ==
  /\ repo[r.item] = IF j \in {1, 2} THEN "regular" ELSE IF j = 3 THEN "missing" ELSE "link"
  /\ r.item \in canon <=> j \in {3, 4, 5}
  /\ r.item \in listed <=> j = 5
  /\ j # 1 => r.item \in hidden

RestoreAt(r, j) ==
  /\ repo[r.item] = IF j = 1 THEN "link" ELSE "regular"
  /\ r.item \in canon <=> j \in {1, 2}
  /\ r.item \in listed <=> j \in {1, 2, 3}
  /\ r.item \in hidden <=> j \in {1, 2, 3, 4}
  /\ r.backup = "none" <=> j \in {1, 2, 6}

SyncAt(r, j) ==
  /\ r.item \in canon /\ r.item \in hidden /\ r.item \in listed
  /\ IF j = 1 THEN repo[r.item] = "diverged" ELSE repo[r.item] \in {"regular", "link"}

(* A record fits its item: the last phase it was given is done, or that    *)
(* and the step after it.                                                  *)
AddFits(r) ==
  /\ r.phase = "RecordCreated" => AddAt(r, 1) /\ (r.exclBefore => r.item \in hidden)
  /\ r.phase = "ExcludeWritten" => AddAt(r, 2) \/ AddAt(r, 3)
  /\ r.phase = "StoreTransferred" => AddAt(r, 3) \/ AddAt(r, 4)
  /\ r.phase = "RepoMaterialized" => AddAt(r, 4) \/ AddAt(r, 5)
  /\ r.phase \in {"ManifestSaved", "PostCommitValidated"} => AddAt(r, 5)

RestoreFits(r) ==
  /\ r.phase = "RecordCreated" => RestoreAt(r, 1) \/ RestoreAt(r, 2)
  /\ r.phase = "RepoRegularized" => RestoreAt(r, 2) \/ RestoreAt(r, 3)
  /\ r.phase = "StoreStaged" => RestoreAt(r, 3) \/ RestoreAt(r, 4)
  /\ r.phase = "ManifestRemoved" => RestoreAt(r, 4) \/ RestoreAt(r, 5)
  /\ r.phase = "ExcludeUpdated" => RestoreAt(r, 5) \/ RestoreAt(r, 6)
  /\ r.phase = "PostCommitValidated" => RestoreAt(r, 6)

SyncFits(r) ==
  IF r.phase = "RecordCreated" THEN SyncAt(r, 1) \/ SyncAt(r, 2) ELSE SyncAt(r, 2)

Fits(n) ==
  /\ records[n].op = "add"     => AddFits(records[n])
  /\ records[n].op = "restore" => RestoreFits(records[n])
  /\ records[n].op = "sync"    => SyncFits(records[n])

(* A record of an attempt that got no further than where another can begin.*)
Early(n) ==
  \/ records[n].op = "add" /\ records[n].phase \in {"RecordCreated", "ExcludeWritten"}
  \/ /\ records[n].op = "restore" /\ records[n].phase \in {"RecordCreated", "RepoRegularized"}
     /\ records[n].backup = "none"

(* The record of the item at work: the step, the last phase, the places    *)
(* and the manifest in memory.                                             *)
AddIs(step, phase, j, seen) ==
  /\ job.step = step /\ Current.phase = phase /\ AddAt(Current, j)
  /\ Current.item \in view <=> seen

AddDoing ==
  \/ AddIs("mutate", "RecordCreated", 1, FALSE)
       /\ (Current.exclBefore => Current.item \in hidden)
  \/ AddIs("advance", "RecordCreated", 2, FALSE)
  \/ AddIs("mutate", "ExcludeWritten", 2, FALSE)
  \/ AddIs("advance", "ExcludeWritten", 3, FALSE)
  \/ AddIs("mutate", "StoreTransferred", 3, FALSE)
  \/ AddIs("advance", "StoreTransferred", 4, FALSE)
  \/ AddIs("mutate", "RepoMaterialized", 4, FALSE)
  \/ AddIs("save", "RepoMaterialized", 4, TRUE)
  \/ AddIs("advance", "RepoMaterialized", 5, TRUE)
  \/ AddIs("mutate", "ManifestSaved", 5, TRUE)
  \/ AddIs("advance", "ManifestSaved", 5, TRUE)
  \/ AddIs("drop", "PostCommitValidated", 5, TRUE)

RestoreIs(step, phase, j, seen) ==
  /\ job.step = step /\ Current.phase = phase /\ RestoreAt(Current, j)
  /\ Current.item \in view <=> seen

RestoreDoing ==
  \/ RestoreIs("mutate", "RecordCreated", 1, TRUE)
  \/ RestoreIs("mutate", "RecordCreated", 2, TRUE)
  \/ RestoreIs("advance", "RecordCreated", 2, TRUE)
  \/ RestoreIs("mutate", "RepoRegularized", 2, TRUE)
  \/ RestoreIs("identify", "RepoRegularized", 3, TRUE)
  \/ RestoreIs("advance", "RepoRegularized", 3, TRUE)
  \/ RestoreIs("mutate", "StoreStaged", 3, TRUE)
  \/ RestoreIs("save", "StoreStaged", 3, FALSE)
  \/ RestoreIs("advance", "StoreStaged", 4, FALSE)
  \/ RestoreIs("mutate", "ManifestRemoved", 4, FALSE)
  \/ RestoreIs("advance", "ManifestRemoved", 5, FALSE)
  \/ RestoreIs("mutate", "ExcludeUpdated", 5, FALSE)
  \/ RestoreIs("advance", "ExcludeUpdated", 6, FALSE)
  \/ RestoreIs("drop", "PostCommitValidated", 6, FALSE)

SyncIs(step, phase, j) ==
  /\ job.step = step /\ Current.phase = phase /\ SyncAt(Current, j)
  /\ Current.item \in view

SyncDoing ==
  \/ SyncIs("mutate", "RecordCreated", 1)
  \/ SyncIs("advance", "RecordCreated", 2)
  \/ SyncIs("mutate", "ContentSynchronized", 2)
  \/ SyncIs("advance", "ContentSynchronized", 2)
  \/ SyncIs("drop", "PostCommitValidated", 2)

Doing ==
  /\ Current.op = "add"     => AddDoing
  /\ Current.op = "restore" => RestoreDoing
  /\ Current.op = "sync"    => SyncDoing

DoingInv ==
  job # NoJob =>
    /\ job.num = 0 <=> job.step = "next"
    /\ job.num # 0 => job.num \in Open /\ Doing

(* The command line: todo is its rest, and the records name items of       *)
(* targets that have had their turn.                                       *)
OnLine ==
  \E line \in Lines, i \in Nat :
    /\ i + Len(job.todo) = Len(line)
    /\ \A m \in 1..Len(job.todo) : job.todo[m] = line[i + m]
    /\ \A x \in job.left : i # 0 /\ x \in line[i].items
    /\ \A n \in Open : \E j \in 1..i : /\ records[n].item \in line[j].items
                                       /\ records[n].item \in job.left => j < i

JobInv ==
  job # NoJob =>
    /\ \A n \in Open : records[n].op = job.cmd
    /\ job.cmd \in {"add", "restore"} => OnLine
    /\ job.cmd = "sync" => job.todo = <<>> /\ \A n \in Open : records[n].item \notin job.left
    /\ job.cmd \in DOMAIN Conversions => /\ job.todo = <<>> /\ Open = {}
                                         /\ job.left \subseteq listed \cap canon \cap hidden

(* The manifest in memory is ahead of the one on disk only at items whose  *)
(* record waits for the save.                                              *)
Ahead(n) ==
  LET r == records[n]
  IN  \/ r.op = "add" /\ r.phase = "RepoMaterialized" /\ AddAt(r, 4) /\ r.item \in view
      \/ r.op = "restore" /\ r.phase = "StoreStaged" /\ RestoreAt(r, 3) /\ r.item \notin view

ViewInv ==
  job # NoJob =>
    \A x \in Items : (x \in view <=> x \in listed)
                     \/ \E n \in Open : records[n].item = x /\ Ahead(n)

(* Of two records of one item, one is of an attempt that failed early.     *)
TwinsInv ==
  \A n, k \in Open : n # k /\ records[n].item = records[k].item =>
    /\ records[n].item \in NamedTwice
    /\ records[n].op = records[k].op
    /\ records[n].op # "sync"
    /\ records[k].phase = "PostCommitValidated" => Early(n)
    /\ job # NoJob => Early(n) \/ Early(k)
    /\ job # NoJob /\ k = job.num => Early(n)

(* A record that has been overtaken by a later attempt on its item.        *)
Overtaken(n) ==
  /\ TakenTwice(n)
  /\ records[n].phase # "PostCommitValidated" /\ records[n].op # "sync"
  /\ job # NoJob => Early(n)

RecordsInv ==
  \A n \in Open : (job # NoJob => n # job.num) => Fits(n) \/ Overtaken(n)

BatchInv ==
  /\ BatchTypeOK /\ DoingInv /\ JobInv /\ ViewInv /\ TwinsInv /\ RecordsInv
  /\ UnsettledHasRecord

(***************************************************************************)
(* The tables                                                              *)
(***************************************************************************)

(* The rows of an add. *)
LEMMA RowsOfAdd ==
  /\ BatchRows["add"] = AddRows
  /\ DOMAIN AddRows = 1..5 /\ Len(AddRows) = 5
  /\ AddRows[1].phase = "RecordCreated" /\ AddRows[2].phase = "ExcludeWritten"
  /\ AddRows[3].phase = "StoreTransferred" /\ AddRows[4].phase = "RepoMaterialized"
  /\ AddRows[5].phase = "ManifestSaved"
BY DEF BatchRows, AddRows, Row

(* The rows of a restore. *)
LEMMA RowsOfRestore ==
  /\ BatchRows["restore"] = RestoreRows
  /\ DOMAIN RestoreRows = 1..5 /\ Len(RestoreRows) = 5
  /\ RestoreRows[1].phase = "RecordCreated" /\ RestoreRows[2].phase = "RepoRegularized"
  /\ RestoreRows[3].phase = "StoreStaged" /\ RestoreRows[4].phase = "ManifestRemoved"
  /\ RestoreRows[5].phase = "ExcludeUpdated"
BY DEF BatchRows, RestoreRows, Row

(* The rows of a sync. *)
LEMMA RowsOfSync ==
  /\ BatchRows["sync"] = SyncRows
  /\ DOMAIN SyncRows = 1..2 /\ Len(SyncRows) = 2
  /\ SyncRows[1].phase = "RecordCreated" /\ SyncRows[2].phase = "ContentSynchronized"
BY DEF BatchRows, SyncRows, Row

(* The phases of the operations, in their order. *)
LEMMA PhasesFollow ==
  /\ PhaseAfter("add", "RecordCreated") = "ExcludeWritten"
  /\ PhaseAfter("add", "ExcludeWritten") = "StoreTransferred"
  /\ PhaseAfter("add", "StoreTransferred") = "RepoMaterialized"
  /\ PhaseAfter("add", "RepoMaterialized") = "ManifestSaved"
  /\ PhaseAfter("add", "ManifestSaved") = "PostCommitValidated"
  /\ PhaseAfter("restore", "RecordCreated") = "RepoRegularized"
  /\ PhaseAfter("restore", "RepoRegularized") = "StoreStaged"
  /\ PhaseAfter("restore", "StoreStaged") = "ManifestRemoved"
  /\ PhaseAfter("restore", "ManifestRemoved") = "ExcludeUpdated"
  /\ PhaseAfter("restore", "ExcludeUpdated") = "PostCommitValidated"
  /\ PhaseAfter("sync", "RecordCreated") = "ContentSynchronized"
  /\ PhaseAfter("sync", "ContentSynchronized") = "PostCommitValidated"
<1>1. \A i \in 1..5 : PhaseAfter("add", AddRows[i].phase) =
        IF i = 5 THEN "PostCommitValidated" ELSE AddRows[i + 1].phase
  <2> TAKE i \in 1..5
  <2> DEFINE it == CHOOSE k \in DOMAIN AddRows : AddRows[k].phase = AddRows[i].phase
  <2>1. \A k \in DOMAIN AddRows : AddRows[k].phase = AddRows[i].phase <=> k = i
    BY RowsOfAdd
  <2>2. it = i
    BY <2>1, RowsOfAdd
  <2> QED BY <2>2, RowsOfAdd DEF PhaseAfter
<1>2. \A i \in 1..5 : PhaseAfter("restore", RestoreRows[i].phase) =
        IF i = 5 THEN "PostCommitValidated" ELSE RestoreRows[i + 1].phase
  <2> TAKE i \in 1..5
  <2> DEFINE it == CHOOSE k \in DOMAIN RestoreRows : RestoreRows[k].phase = RestoreRows[i].phase
  <2>1. \A k \in DOMAIN RestoreRows : RestoreRows[k].phase = RestoreRows[i].phase <=> k = i
    BY RowsOfRestore
  <2>2. it = i
    BY <2>1, RowsOfRestore
  <2> QED BY <2>2, RowsOfRestore DEF PhaseAfter
<1>3. \A i \in 1..2 : PhaseAfter("sync", SyncRows[i].phase) =
        IF i = 2 THEN "PostCommitValidated" ELSE SyncRows[i + 1].phase
  <2> TAKE i \in 1..2
  <2> DEFINE it == CHOOSE k \in DOMAIN SyncRows : SyncRows[k].phase = SyncRows[i].phase
  <2>1. \A k \in DOMAIN SyncRows : SyncRows[k].phase = SyncRows[i].phase <=> k = i
    BY RowsOfSync
  <2>2. it = i
    BY <2>1, RowsOfSync
  <2> QED BY <2>2, RowsOfSync DEF PhaseAfter
<1> QED BY <1>1, <1>2, <1>3, RowsOfAdd, RowsOfRestore, RowsOfSync

(* The phases there are. *)
LEMMA PhasesListed ==
  /\ BatchPhases("add") = {"RecordCreated", "ExcludeWritten", "StoreTransferred",
                           "RepoMaterialized", "ManifestSaved", "PostCommitValidated"}
  /\ BatchPhases("restore") = {"RecordCreated", "RepoRegularized", "StoreStaged",
                               "ManifestRemoved", "ExcludeUpdated", "PostCommitValidated"}
  /\ BatchPhases("sync") = {"RecordCreated", "ContentSynchronized", "PostCommitValidated"}
BY RowsOfAdd, RowsOfRestore, RowsOfSync DEF BatchPhases

(* What a record may hold, and what makes another. *)
LEMMA RecordFields ==
  ASSUME NEW r
  PROVE  r \in BatchRecords <=>
           \E op \in Operations :
             r \in [op : {op}, phase : BatchPhases(op), item : Items, exclBefore : BOOLEAN,
                    backup : {"none", "made", "known"}]
BY DEF BatchRecords

(* The least of some numbers is one of them. *)
LEMMA Least ==
  ASSUME NEW S \in SUBSET Nat, S # {}
  PROVE  \E n \in S : \A k \in S : n <= k
<1>1. IsWellFoundedOn(OpToRel(<, Nat), Nat)
  BY NatLessThanWellFounded
<1>2. PICK n \in S : \A k \in S : ~(<<k, n>> \in OpToRel(<, Nat))
  BY <1>1, WFMin
<1>3. \A k \in S : ~(k < n)
  BY <1>2 DEF OpToRel
<1> QED BY <1>3

(***************************************************************************)
(* What recovery decides, and what it has seen                             *)
(***************************************************************************)
Perform(name) == [kind |-> "perform", name |-> name]

Advances(phase) == [kind |-> "advance", to |-> phase]

(* A table performs the row of the phase, or advances to the next, for the *)
(* facts of that row; else it refuses, with the facts of neither.          *)
LEMMA DecideResult ==
  ASSUME NEW rows, NEW facts, NEW i \in DOMAIN rows,
         \A k \in DOMAIN rows : rows[k].phase = rows[i].phase => k = i
  PROVE  LET decision == DecideIn(rows, rows[i].phase, facts)
         IN  \/ rows[i].expected = facts /\ decision = Perform(rows[i].action)
             \/ /\ rows[i].expected # facts
                /\ i + 1 \in DOMAIN rows /\ rows[i + 1].expected = facts
                /\ decision = Advances(rows[i + 1].phase)
             \/ /\ rows[i].expected # facts
                /\ ~(i + 1 \in DOMAIN rows /\ rows[i + 1].expected = facts)
                /\ decision = [kind |-> "conflict"]
<1> DEFINE here == {k \in DOMAIN rows : rows[k].phase = rows[i].phase}
           Matches(k) == k \in DOMAIN rows /\ rows[k].expected = facts
<1>1. here = {i}
  OBVIOUS
<1>2. DecideIn(rows, rows[i].phase, facts) =
        IF \E k \in here : Matches(k)
        THEN LET k == CHOOSE k \in here : Matches(k) IN Perform(rows[k].action)
        ELSE IF \E k \in here : Matches(k + 1)
        THEN LET k == CHOOSE k \in here : Matches(k + 1) IN Advances(rows[k + 1].phase)
        ELSE [kind |-> "conflict"]
  BY DEF DecideIn, Perform, Advances
<1>3. CASE Matches(i)
  <2>1. (CHOOSE k \in here : Matches(k)) = i
    BY <1>1, <1>3
  <2> QED BY <1>1, <1>2, <1>3, <2>1
<1>4. CASE ~Matches(i) /\ Matches(i + 1)
  <2>1. (CHOOSE k \in here : Matches(k + 1)) = i
    BY <1>1, <1>4
  <2>2. ~ \E k \in here : Matches(k)
    BY <1>1, <1>4
  <2> QED BY <1>1, <1>2, <1>4, <2>1, <2>2
<1>5. CASE ~Matches(i) /\ ~Matches(i + 1)
  <2>1. ~(\E k \in here : Matches(k)) /\ ~(\E k \in here : Matches(k + 1))
    BY <1>1, <1>5
  <2> QED BY <1>2, <1>5, <2>1
<1> QED BY <1>3, <1>4, <1>5

(* The facts of an add say where it stands. *)
LEMMA AddReads ==
  ASSUME BatchTypeOK, NEW r \in BatchRecords, r.item \in Items, r.exclBefore \in BOOLEAN
  PROVE  /\ AddFacts(r) = AddRows[1].expected
              <=> r.phase = "RecordCreated" /\ AddAt(r, 1) /\ ((r.item \in hidden) = r.exclBefore)
         /\ r.phase = "RecordCreated" =>
              (AddFacts(r) = AddRows[2].expected
                 <=> AddAt(r, 2) /\ ~((r.item \in hidden) = r.exclBefore))
         /\ r.phase # "RecordCreated" =>
              \A i \in 2..5 : AddFacts(r) = AddRows[i].expected <=> AddAt(r, i)
<1> DEFINE x == r.item
<1>0. repo[x] \in {"regular", "missing", "link", "diverged"}
  BY DEF BatchTypeOK
<1>1. AddFacts(r) = AddRows[1].expected
              <=> r.phase = "RecordCreated" /\ AddAt(r, 1) /\ ((x \in hidden) = r.exclBefore)
  BY <1>0 DEF AddFacts, AddAt, AddRows, Row
<1>2. r.phase = "RecordCreated" =>
        (AddFacts(r) = AddRows[2].expected <=> AddAt(r, 2) /\ ~((x \in hidden) = r.exclBefore))
  BY <1>0 DEF AddFacts, AddAt, AddRows, Row
<1>3. ASSUME r.phase # "RecordCreated"
      PROVE  \A i \in 2..5 : AddFacts(r) = AddRows[i].expected <=> AddAt(r, i)
  <2>1. AddFacts(r) = AddRows[2].expected <=> AddAt(r, 2)
    BY <1>0, <1>3 DEF AddFacts, AddAt, AddRows, Row
  <2>2. AddFacts(r) = AddRows[3].expected <=> AddAt(r, 3)
    BY <1>0, <1>3 DEF AddFacts, AddAt, AddRows, Row
  <2>3. AddFacts(r) = AddRows[4].expected <=> AddAt(r, 4)
    BY <1>0, <1>3 DEF AddFacts, AddAt, AddRows, Row
  <2>4. AddFacts(r) = AddRows[5].expected <=> AddAt(r, 5)
    BY <1>0, <1>3 DEF AddFacts, AddAt, AddRows, Row
  <2> QED BY <2>1, <2>2, <2>3, <2>4
<1> QED BY <1>1, <1>2, <1>3

(* What recovery of an add does. *)
LEMMA AddDecides ==
  ASSUME BatchTypeOK, NEW r \in BatchRecords, r.op = "add", r.phase # "PostCommitValidated"
  PROVE  \/ /\ DecisionOf(r) = Perform("DeleteRecordOnly") /\ r.phase = "RecordCreated"
            /\ AddAt(r, 1)
         \/ /\ DecisionOf(r) = Perform("RemoveOperationOwnedExclude") /\ r.phase = "ExcludeWritten"
            /\ AddAt(r, 2)
         \/ /\ DecisionOf(r) = Perform("MaterializeRepo") /\ r.phase = "StoreTransferred"
            /\ AddAt(r, 3)
         \/ /\ DecisionOf(r) = Perform("SaveManifest") /\ r.phase = "RepoMaterialized"
            /\ AddAt(r, 4)
         \/ /\ DecisionOf(r) = Perform("VerifyPostconditionsAndComplete")
            /\ r.phase = "ManifestSaved" /\ AddAt(r, 5)
         \/ DecisionOf(r) = Advances("ExcludeWritten") /\ r.phase = "RecordCreated" /\ AddAt(r, 2)
         \/ DecisionOf(r) = Advances("StoreTransferred") /\ r.phase = "ExcludeWritten" /\ AddAt(r, 3)
         \/ DecisionOf(r) = Advances("RepoMaterialized") /\ r.phase = "StoreTransferred" /\ AddAt(r, 4)
         \/ DecisionOf(r) = Advances("ManifestSaved") /\ r.phase = "RepoMaterialized" /\ AddAt(r, 5)
         \/ DecisionOf(r) = [kind |-> "conflict"] /\ ~AddFits(r)
<1>1. r.item \in Items /\ r.exclBefore \in BOOLEAN /\ r.phase \in BatchPhases("add")
  BY RecordFields DEF Operations
<1>2. DecisionOf(r) = DecideIn(AddRows, r.phase, AddFacts(r))
  BY RowsOfAdd DEF DecisionOf, FactsOf
<1>3. PICK i \in 1..5 : AddRows[i].phase = r.phase
  BY <1>1, PhasesListed, RowsOfAdd
<1>4. \A k \in DOMAIN AddRows : AddRows[k].phase = r.phase => k = i
  BY <1>3, RowsOfAdd
<1>5. \/ AddRows[i].expected = AddFacts(r) /\ DecisionOf(r) = Perform(AddRows[i].action)
      \/ /\ AddRows[i].expected # AddFacts(r)
         /\ i + 1 \in 1..5 /\ AddRows[i + 1].expected = AddFacts(r)
         /\ DecisionOf(r) = Advances(AddRows[i + 1].phase)
      \/ /\ AddRows[i].expected # AddFacts(r)
         /\ ~(i + 1 \in 1..5 /\ AddRows[i + 1].expected = AddFacts(r))
         /\ DecisionOf(r) = [kind |-> "conflict"]
  <2>1. i \in DOMAIN AddRows
    BY RowsOfAdd
  <2>2. DecisionOf(r) = DecideIn(AddRows, AddRows[i].phase, AddFacts(r))
    BY <1>2, <1>3
  <2>3. \A k \in DOMAIN AddRows : AddRows[k].phase = AddRows[i].phase => k = i
    BY <1>3, <1>4
  <2> DEFINE facts == AddFacts(r)
             rows == AddRows
  <2>4. i \in DOMAIN rows /\ \A k \in DOMAIN rows : rows[k].phase = rows[i].phase => k = i
    BY <2>1, <2>3
  <2> HIDE DEF facts, rows
  <2>5. \/ rows[i].expected = facts /\ DecideIn(rows, rows[i].phase, facts) = Perform(rows[i].action)
        \/ /\ rows[i].expected # facts
           /\ i + 1 \in DOMAIN rows /\ rows[i + 1].expected = facts
           /\ DecideIn(rows, rows[i].phase, facts) = Advances(rows[i + 1].phase)
        \/ /\ rows[i].expected # facts /\ ~(i + 1 \in DOMAIN rows /\ rows[i + 1].expected = facts)
           /\ DecideIn(rows, rows[i].phase, facts) = [kind |-> "conflict"]
    BY <2>4, DecideResult
  <2> QED BY <2>2, <2>5, RowsOfAdd DEF facts, rows
<1>6. /\ AddRows[1].action = "DeleteRecordOnly"
      /\ AddRows[2].action = "RemoveOperationOwnedExclude"
      /\ AddRows[3].action = "MaterializeRepo"
      /\ AddRows[4].action = "SaveManifest"
      /\ AddRows[5].action = "VerifyPostconditionsAndComplete"
  BY DEF AddRows, Row
<1>7. CASE i = 1
  BY <1>1, <1>3, <1>5, <1>6, <1>7, AddReads, RowsOfAdd DEF AddFits, AddAt
<1>8. CASE i = 2
  BY <1>1, <1>3, <1>5, <1>6, <1>8, AddReads, RowsOfAdd DEF AddFits
<1>9. CASE i = 3
  BY <1>1, <1>3, <1>5, <1>6, <1>9, AddReads, RowsOfAdd DEF AddFits
<1>10. CASE i = 4
  BY <1>1, <1>3, <1>5, <1>6, <1>10, AddReads, RowsOfAdd DEF AddFits
<1>11. CASE i = 5
  BY <1>1, <1>3, <1>5, <1>6, <1>11, AddReads, RowsOfAdd DEF AddFits
<1> QED BY <1>7, <1>8, <1>9, <1>10, <1>11

(* The facts of a restore say where it stands. *)
LEMMA RestoreReads ==
  ASSUME BatchTypeOK, NEW r \in BatchRecords, r.item \in Items
  PROVE  \A i \in 1..5 : RestoreFacts(r) = RestoreRows[i].expected <=> RestoreAt(r, i)
<1>1. RestoreFacts(r) = RestoreRows[1].expected <=> RestoreAt(r, 1)
  BY DEF RestoreFacts, RestoreAt, RestoreRows, Row
<1>2. RestoreFacts(r) = RestoreRows[2].expected <=> RestoreAt(r, 2)
  BY DEF RestoreFacts, RestoreAt, RestoreRows, Row
<1>3. RestoreFacts(r) = RestoreRows[3].expected <=> RestoreAt(r, 3)
  BY DEF RestoreFacts, RestoreAt, RestoreRows, Row
<1>4. RestoreFacts(r) = RestoreRows[4].expected <=> RestoreAt(r, 4)
  BY DEF RestoreFacts, RestoreAt, RestoreRows, Row
<1>5. RestoreFacts(r) = RestoreRows[5].expected <=> RestoreAt(r, 5)
  BY DEF RestoreFacts, RestoreAt, RestoreRows, Row
<1> QED BY <1>1, <1>2, <1>3, <1>4, <1>5

(* What recovery of a restore does. *)
LEMMA RestoreDecides ==
  ASSUME BatchTypeOK, NEW r \in BatchRecords, r.op = "restore", r.phase # "PostCommitValidated"
  PROVE  \/ /\ DecisionOf(r) = Perform("DeleteRecordOnly") /\ r.phase = "RecordCreated"
            /\ RestoreAt(r, 1)
         \/ /\ DecisionOf(r) = Perform("StageStoreIntoBackup") /\ r.phase = "RepoRegularized"
            /\ RestoreAt(r, 2)
         \/ /\ DecisionOf(r) = Perform("RemoveManifest") /\ r.phase = "StoreStaged"
            /\ RestoreAt(r, 3)
         \/ /\ DecisionOf(r) = Perform("ApplyKeepIgnorePolicy") /\ r.phase = "ManifestRemoved"
            /\ RestoreAt(r, 4)
         \/ /\ DecisionOf(r) = Perform("DeleteBackupAndComplete") /\ r.phase = "ExcludeUpdated"
            /\ RestoreAt(r, 5)
         \/ DecisionOf(r) = Advances("RepoRegularized") /\ r.phase = "RecordCreated" /\ RestoreAt(r, 2)
         \/ DecisionOf(r) = Advances("StoreStaged") /\ r.phase = "RepoRegularized" /\ RestoreAt(r, 3)
         \/ DecisionOf(r) = Advances("ManifestRemoved") /\ r.phase = "StoreStaged" /\ RestoreAt(r, 4)
         \/ DecisionOf(r) = Advances("ExcludeUpdated") /\ r.phase = "ManifestRemoved" /\ RestoreAt(r, 5)
         \/ DecisionOf(r) = [kind |-> "conflict"] /\ (RestoreFits(r) => InBatchWindow(r))
<1>1. r.item \in Items /\ r.phase \in BatchPhases("restore")
  BY RecordFields DEF Operations
<1>2. DecisionOf(r) = DecideIn(RestoreRows, r.phase, RestoreFacts(r))
  BY RowsOfRestore DEF DecisionOf, FactsOf
<1>3. PICK i \in 1..5 : RestoreRows[i].phase = r.phase
  BY <1>1, PhasesListed, RowsOfRestore
<1>4. \A k \in DOMAIN RestoreRows : RestoreRows[k].phase = r.phase => k = i
  BY <1>3, RowsOfRestore
<1>5. \/ RestoreRows[i].expected = RestoreFacts(r) /\ DecisionOf(r) = Perform(RestoreRows[i].action)
      \/ /\ RestoreRows[i].expected # RestoreFacts(r)
         /\ i + 1 \in 1..5 /\ RestoreRows[i + 1].expected = RestoreFacts(r)
         /\ DecisionOf(r) = Advances(RestoreRows[i + 1].phase)
      \/ /\ RestoreRows[i].expected # RestoreFacts(r)
         /\ ~(i + 1 \in 1..5 /\ RestoreRows[i + 1].expected = RestoreFacts(r))
         /\ DecisionOf(r) = [kind |-> "conflict"]
  <2>1. i \in DOMAIN RestoreRows
    BY RowsOfRestore
  <2>2. DecisionOf(r) = DecideIn(RestoreRows, RestoreRows[i].phase, RestoreFacts(r))
    BY <1>2, <1>3
  <2>3. \A k \in DOMAIN RestoreRows : RestoreRows[k].phase = RestoreRows[i].phase => k = i
    BY <1>3, <1>4
  <2> DEFINE facts == RestoreFacts(r)
             rows == RestoreRows
  <2>4. i \in DOMAIN rows /\ \A k \in DOMAIN rows : rows[k].phase = rows[i].phase => k = i
    BY <2>1, <2>3
  <2> HIDE DEF facts, rows
  <2>5. \/ rows[i].expected = facts /\ DecideIn(rows, rows[i].phase, facts) = Perform(rows[i].action)
        \/ /\ rows[i].expected # facts
           /\ i + 1 \in DOMAIN rows /\ rows[i + 1].expected = facts
           /\ DecideIn(rows, rows[i].phase, facts) = Advances(rows[i + 1].phase)
        \/ /\ rows[i].expected # facts /\ ~(i + 1 \in DOMAIN rows /\ rows[i + 1].expected = facts)
           /\ DecideIn(rows, rows[i].phase, facts) = [kind |-> "conflict"]
    BY <2>4, DecideResult
  <2> QED BY <2>2, <2>5, RowsOfRestore DEF facts, rows
<1>6. /\ RestoreRows[1].action = "DeleteRecordOnly"
      /\ RestoreRows[2].action = "StageStoreIntoBackup"
      /\ RestoreRows[3].action = "RemoveManifest"
      /\ RestoreRows[4].action = "ApplyKeepIgnorePolicy"
      /\ RestoreRows[5].action = "DeleteBackupAndComplete"
  BY DEF RestoreRows, Row
<1>7. CASE i = 1
  BY <1>1, <1>3, <1>5, <1>6, <1>7, RestoreReads, RowsOfRestore DEF RestoreFits
<1>8. CASE i = 2
  BY <1>1, <1>3, <1>5, <1>6, <1>8, RestoreReads, RowsOfRestore DEF RestoreFits
<1>9. CASE i = 3
  BY <1>1, <1>3, <1>5, <1>6, <1>9, RestoreReads, RowsOfRestore DEF RestoreFits
<1>10. CASE i = 4
  BY <1>1, <1>3, <1>5, <1>6, <1>10, RestoreReads, RowsOfRestore DEF RestoreFits
<1>11. CASE i = 5
  <2>1. RestoreAt(r, 6) => r.backup = "none"
    BY DEF RestoreAt
  <2> QED BY <1>1, <1>3, <1>5, <1>6, <1>11, <2>1, RestoreReads, RowsOfRestore
          DEF RestoreFits, InBatchWindow
<1> QED BY <1>7, <1>8, <1>9, <1>10, <1>11

(* What recovery of a sync does. *)
LEMMA SyncDecides ==
  ASSUME BatchTypeOK, NEW r \in BatchRecords, r.op = "sync", r.phase # "PostCommitValidated"
  PROVE  \/ /\ DecisionOf(r) = Perform("DeleteRecordOnly") /\ r.phase = "RecordCreated"
            /\ repo[r.item] = "diverged"
         \/ /\ DecisionOf(r) = Perform("VerifyPostconditionsAndComplete")
            /\ r.phase = "ContentSynchronized" /\ repo[r.item] # "diverged"
         \/ /\ DecisionOf(r) = Advances("ContentSynchronized") /\ r.phase = "RecordCreated"
            /\ repo[r.item] # "diverged"
         \/ DecisionOf(r) = [kind |-> "conflict"] /\ ~SyncFits(r)
<1>1. r.item \in Items /\ r.phase \in BatchPhases("sync")
  BY RecordFields DEF Operations
<1>2. DecisionOf(r) = DecideIn(SyncRows, r.phase, SyncFacts(r))
  BY RowsOfSync DEF DecisionOf, FactsOf
<1>3. PICK i \in 1..2 : SyncRows[i].phase = r.phase
  BY <1>1, PhasesListed, RowsOfSync
<1>4. \A k \in DOMAIN SyncRows : SyncRows[k].phase = r.phase => k = i
  BY <1>3, RowsOfSync
<1>5. \/ SyncRows[i].expected = SyncFacts(r) /\ DecisionOf(r) = Perform(SyncRows[i].action)
      \/ /\ SyncRows[i].expected # SyncFacts(r)
         /\ i + 1 \in 1..2 /\ SyncRows[i + 1].expected = SyncFacts(r)
         /\ DecisionOf(r) = Advances(SyncRows[i + 1].phase)
      \/ /\ SyncRows[i].expected # SyncFacts(r)
         /\ ~(i + 1 \in 1..2 /\ SyncRows[i + 1].expected = SyncFacts(r))
         /\ DecisionOf(r) = [kind |-> "conflict"]
  <2>1. i \in DOMAIN SyncRows
    BY RowsOfSync
  <2>2. DecisionOf(r) = DecideIn(SyncRows, SyncRows[i].phase, SyncFacts(r))
    BY <1>2, <1>3
  <2>3. \A k \in DOMAIN SyncRows : SyncRows[k].phase = SyncRows[i].phase => k = i
    BY <1>3, <1>4
  <2> DEFINE facts == SyncFacts(r)
             rows == SyncRows
  <2>4. i \in DOMAIN rows /\ \A k \in DOMAIN rows : rows[k].phase = rows[i].phase => k = i
    BY <2>1, <2>3
  <2> HIDE DEF facts, rows
  <2>5. \/ rows[i].expected = facts /\ DecideIn(rows, rows[i].phase, facts) = Perform(rows[i].action)
        \/ /\ rows[i].expected # facts
           /\ i + 1 \in DOMAIN rows /\ rows[i + 1].expected = facts
           /\ DecideIn(rows, rows[i].phase, facts) = Advances(rows[i + 1].phase)
        \/ /\ rows[i].expected # facts /\ ~(i + 1 \in DOMAIN rows /\ rows[i + 1].expected = facts)
           /\ DecideIn(rows, rows[i].phase, facts) = [kind |-> "conflict"]
    BY <2>4, DecideResult
  <2> QED BY <2>2, <2>5, RowsOfSync DEF facts, rows
<1>6. /\ SyncRows[1].action = "DeleteRecordOnly"
      /\ SyncRows[2].action = "VerifyPostconditionsAndComplete"
      /\ (SyncFacts(r) = SyncRows[1].expected <=> repo[r.item] = "diverged")
      /\ (SyncFacts(r) = SyncRows[2].expected <=> repo[r.item] # "diverged")
  BY DEF SyncRows, Row, SyncFacts
<1>7. CASE i = 1
  BY <1>1, <1>3, <1>5, <1>6, <1>7, RowsOfSync
<1>8. CASE i = 2
  BY <1>1, <1>3, <1>5, <1>6, <1>8, RowsOfSync DEF SyncFits, SyncAt
<1> QED BY <1>7, <1>8

(***************************************************************************)
(* What a decision of recovery does to its record and to its item          *)
(***************************************************************************)

Settled(x) == Unshelved(x) \/ Shelved(x)

(* Only the places of x change.                                            *)
OnlyAt(x) ==
  /\ repo' \in [Items -> {"regular", "missing", "link", "diverged"}]
  /\ canon' \subseteq Items /\ hidden' \subseteq Items /\ listed' \subseteq Items
  /\ \A y \in Items \ {x} : /\ repo'[y] = repo[y]
                            /\ y \in canon' <=> y \in canon
                            /\ y \in hidden' <=> y \in hidden
                            /\ y \in listed' <=> y \in listed

(* Only the record n changes.                                              *)
OnlyRecord(n) ==
  /\ records' \in [Numbers -> BatchRecords \cup {NoRecord}]
  /\ \A m \in Numbers \ {n} : records'[m] = records[m]

(* The record n is removed, and its item settled; or it is carried on.     *)
Removed(n) ==
  records'[n] = NoRecord /\ \E x \in Items : x = records[n].item /\ Settled(x)'

Carried(n) ==
  /\ records'[n] \in BatchRecords /\ records'[n].phase # "PostCommitValidated"
  /\ records'[n].op = records[n].op /\ records'[n].item = records[n].item
  /\ Fits(n)'

(* Recover, of the record n. *)
RecoverOne(n) ==
  LET r == records[n]
      x == r.item
      decision == DecisionOf(r)
  IN  /\ ~Refused(r)
      /\ IF r.phase = "PostCommitValidated"
         THEN records' = [records EXCEPT ![n] = NoRecord] /\ UNCHANGED places
         ELSE IF decision.kind = "advance"
         THEN records' = [records EXCEPT ![n].phase = decision.to] /\ UNCHANGED places
         ELSE /\ IF decision.name = "RemoveOperationOwnedExclude"
                 THEN /\ hidden' = IF r.exclBefore THEN hidden ELSE hidden \ {x}
                      /\ UNCHANGED <<repo, canon>>
                 ELSE Apply(MutationOf(decision.name), x)
              /\ listed' = CASE decision.name = "SaveManifest"   -> listed \cup {x}
                             [] decision.name = "RemoveManifest" -> listed \ {x}
                             [] OTHER -> listed
              /\ records' = [records EXCEPT ![n] =
                   IF decision.name \in Ending THEN NoRecord
                   ELSE [r EXCEPT !.phase = PhaseAfter(r.op, r.phase),
                           !.backup = IF decision.name = "StageStoreIntoBackup"
                                      THEN "known" ELSE @]]

(* Recover is that, of one of the records. *)
LEMMA RecoversOne ==
  ASSUME BatchTypeOK, Recover
  PROVE  job = NoJob /\ view' = view /\ job' = job /\ \E n \in Open : RecoverOne(n)
<1> DEFINE n == CHOOSE n \in Open : \A k \in Open : n <= k
<1>1. Open # {} /\ Open \in SUBSET Nat
  BY BatchParametersTyped DEF Recover, Open
<1>2. n \in Open
  BY <1>1, Least
<1>3. RecoverOne(n)
  BY DEF Recover, RecoverOne
<1> QED BY <1>2, <1>3 DEF Recover

(* A record that is open is one. *)
LEMMA OpenRecords ==
  ASSUME BatchTypeOK, NEW n \in Open
  PROVE  /\ n \in Numbers /\ records[n] \in BatchRecords
         /\ records[n].op \in Operations /\ records[n].phase \in BatchPhases(records[n].op)
         /\ records[n].item \in Items /\ records[n].exclBefore \in BOOLEAN
         /\ records[n].backup \in {"none", "made", "known"}
<1>1. n \in Numbers /\ records[n] \in BatchRecords
  BY DEF Open, BatchTypeOK
<1> DEFINE r == records[n]
<1>2. PICK op \in Operations :
        r \in [op : {op}, phase : BatchPhases(op), item : Items, exclBefore : BOOLEAN,
               backup : {"none", "made", "known"}]
  BY <1>1, RecordFields
<1> QED BY <1>1, <1>2

(* A record stays one with another phase of its operation and another backup. *)
LEMMA RecordChanged ==
  ASSUME BatchTypeOK, NEW n \in Open, NEW phase \in BatchPhases(records[n].op),
         NEW backup \in {"none", "made", "known"}
  PROVE  /\ [records[n] EXCEPT !.phase = phase] \in BatchRecords
         /\ [records[n] EXCEPT !.backup = backup] \in BatchRecords
         /\ [records[n] EXCEPT !.phase = phase, !.backup = backup] \in BatchRecords
<1> DEFINE r == records[n]
<1>1. PICK op \in Operations :
        r \in [op : {op}, phase : BatchPhases(op), item : Items, exclBefore : BOOLEAN,
               backup : {"none", "made", "known"}]
  BY OpenRecords, RecordFields
<1>2. r.op = op
  BY <1>1
<1>3. /\ [r EXCEPT !.phase = phase] \in
           [op : {op}, phase : BatchPhases(op), item : Items, exclBefore : BOOLEAN,
            backup : {"none", "made", "known"}]
      /\ [r EXCEPT !.backup = backup] \in
           [op : {op}, phase : BatchPhases(op), item : Items, exclBefore : BOOLEAN,
            backup : {"none", "made", "known"}]
      /\ [r EXCEPT !.phase = phase, !.backup = backup] \in
           [op : {op}, phase : BatchPhases(op), item : Items, exclBefore : BOOLEAN,
            backup : {"none", "made", "known"}]
  BY <1>1, <1>2
<1> QED BY <1>3, RecordFields

(* Recovery of a record that has passed its last phase. *)
LEMMA RecoverPast ==
  ASSUME BatchTypeOK, NEW n \in Open, RecoverOne(n), Fits(n),
         records[n].phase = "PostCommitValidated"
  PROVE  OnlyAt(records[n].item) /\ OnlyRecord(n) /\ Removed(n)
<1> DEFINE x == records[n].item
<1>1. x \in Items /\ records[n].op \in Operations /\ n \in Numbers
  BY OpenRecords
<1>2. records' = [records EXCEPT ![n] = NoRecord] /\ UNCHANGED places
  BY DEF RecoverOne
<1>3. OnlyAt(x) /\ OnlyRecord(n) /\ records'[n] = NoRecord
  BY <1>1, <1>2 DEF OnlyAt, OnlyRecord, BatchTypeOK, places
<1>4. CASE records[n].op = "add"
  BY <1>1, <1>2, <1>3, <1>4 DEF Fits, AddFits, AddAt, Removed, Settled, Shelved, places
<1>5. CASE records[n].op = "restore"
  BY <1>1, <1>2, <1>3, <1>5 DEF Fits, RestoreFits, RestoreAt, Removed, Settled, Unshelved, places
<1>6. CASE records[n].op = "sync"
  BY <1>1, <1>2, <1>3, <1>6 DEF Fits, SyncFits, SyncAt, Removed, Settled, Shelved, places
<1> QED BY <1>1, <1>3, <1>4, <1>5, <1>6 DEF Operations

(* An advance changes the phase. *)
LEMMA RecoverAdvances ==
  ASSUME BatchTypeOK, NEW n \in Open, RecoverOne(n), records[n].phase # "PostCommitValidated",
         NEW phase \in BatchPhases(records[n].op), DecisionOf(records[n]) = Advances(phase)
  PROVE  /\ UNCHANGED places /\ OnlyAt(records[n].item) /\ OnlyRecord(n)
         /\ records'[n] \in BatchRecords
         /\ records'[n].phase = phase /\ records'[n].op = records[n].op
         /\ records'[n].item = records[n].item /\ records'[n].exclBefore = records[n].exclBefore
         /\ records'[n].backup = records[n].backup
<1>1. n \in Numbers /\ records[n].item \in Items /\ records[n].op \in Operations
  BY OpenRecords
<1>2. records' = [records EXCEPT ![n].phase = phase] /\ UNCHANGED places
  BY DEF RecoverOne, Advances
<1>3. records'[n] = [records[n] EXCEPT !.phase = phase]
  BY <1>1, <1>2 DEF BatchTypeOK
<1>4. [records[n] EXCEPT !.phase = phase] \in BatchRecords
  BY RecordChanged
<1>5. OnlyRecord(n)
  BY <1>1, <1>2, <1>3, <1>4 DEF OnlyRecord, BatchTypeOK
<1>6. OnlyAt(records[n].item)
  BY <1>1, <1>2 DEF OnlyAt, BatchTypeOK, places
<1>7. \E op \in Operations : records[n] \in
        [op : {op}, phase : BatchPhases(op), item : Items, exclBefore : BOOLEAN,
         backup : {"none", "made", "known"}]
  BY OpenRecords, RecordFields
<1> QED BY <1>2, <1>3, <1>4, <1>5, <1>6, <1>7

(* A performance that does not end the record changes its phase, and its backup. *)
LEMMA RecoverPerforms ==
  ASSUME BatchTypeOK, NEW n \in Open, RecoverOne(n), records[n].phase # "PostCommitValidated",
         NEW name, DecisionOf(records[n]) = Perform(name), name \notin Ending,
         NEW phase \in BatchPhases(records[n].op),
         PhaseAfter(records[n].op, records[n].phase) = phase
  PROVE  /\ Apply(MutationOf(name), records[n].item)
         /\ listed' = CASE name = "SaveManifest"   -> listed \cup {records[n].item}
                        [] name = "RemoveManifest" -> listed \ {records[n].item}
                        [] OTHER -> listed
         /\ OnlyRecord(n) /\ records'[n] \in BatchRecords
         /\ records'[n].phase = phase /\ records'[n].op = records[n].op
         /\ records'[n].item = records[n].item /\ records'[n].exclBefore = records[n].exclBefore
         /\ records'[n].backup = IF name = "StageStoreIntoBackup" THEN "known"
                                 ELSE records[n].backup
<1> DEFINE r == records[n]
           backup == IF name = "StageStoreIntoBackup" THEN "known" ELSE r.backup
<1>1. n \in Numbers /\ r.op \in Operations /\ r.backup \in {"none", "made", "known"}
  BY OpenRecords
<1>2. name # "RemoveOperationOwnedExclude"
  BY DEF Ending
<1>3. /\ Apply(MutationOf(name), r.item)
      /\ listed' = CASE name = "SaveManifest"   -> listed \cup {r.item}
                     [] name = "RemoveManifest" -> listed \ {r.item}
                     [] OTHER -> listed
      /\ records' = [records EXCEPT ![n] = [r EXCEPT !.phase = phase, !.backup = backup]]
  BY <1>2 DEF RecoverOne, Perform
<1>4. records'[n] = [r EXCEPT !.phase = phase, !.backup = backup]
  BY <1>1, <1>3 DEF BatchTypeOK
<1>5. backup \in {"none", "made", "known"}
  BY <1>1
<1>6. [r EXCEPT !.phase = phase, !.backup = backup] \in BatchRecords
  BY <1>5, RecordChanged
<1>7. OnlyRecord(n)
  BY <1>1, <1>3, <1>4, <1>6 DEF OnlyRecord, BatchTypeOK
<1>8. \E op \in Operations : r \in
        [op : {op}, phase : BatchPhases(op), item : Items, exclBefore : BOOLEAN,
         backup : {"none", "made", "known"}]
  BY OpenRecords, RecordFields
<1>9. /\ records'[n].phase = phase /\ records'[n].op = r.op /\ records'[n].item = r.item
      /\ records'[n].exclBefore = r.exclBefore /\ records'[n].backup = backup
  BY <1>4, <1>8
<1> QED BY <1>3, <1>4, <1>6, <1>7, <1>9

(* A performance that ends the record. *)
LEMMA RecoverEnds ==
  ASSUME BatchTypeOK, NEW n \in Open, RecoverOne(n), records[n].phase # "PostCommitValidated",
         NEW name \in Ending, DecisionOf(records[n]) = Perform(name)
  PROVE  /\ OnlyRecord(n) /\ records'[n] = NoRecord /\ OnlyAt(records[n].item)
         /\ repo' = repo /\ canon' = canon /\ listed' = listed
         /\ name # "RemoveOperationOwnedExclude" => hidden' = hidden
<1> DEFINE x == records[n].item
<1>1. n \in Numbers /\ x \in Items
  BY OpenRecords
<1>2. /\ IF name = "RemoveOperationOwnedExclude"
         THEN /\ hidden' = IF records[n].exclBefore THEN hidden ELSE hidden \ {x}
              /\ UNCHANGED <<repo, canon>>
         ELSE Apply(MutationOf(name), x)
      /\ listed' = CASE name = "SaveManifest"   -> listed \cup {x}
                     [] name = "RemoveManifest" -> listed \ {x}
                     [] OTHER -> listed
      /\ records' = [records EXCEPT ![n] = NoRecord]
  BY DEF RecoverOne, Perform
<1>3. OnlyRecord(n) /\ records'[n] = NoRecord
  BY <1>1, <1>2 DEF OnlyRecord, BatchTypeOK
<1>4. /\ repo' = repo /\ canon' = canon /\ listed' = listed
      /\ name # "RemoveOperationOwnedExclude" => hidden' = hidden
      /\ hidden' = hidden \/ hidden' = hidden \ {x}
  BY <1>2 DEF Ending, Apply, MutationOf
<1>5. OnlyAt(x)
  BY <1>1, <1>4 DEF OnlyAt, BatchTypeOK
<1> QED BY <1>3, <1>4, <1>5

(* Recovery of an add. *)
LEMMA RecoverAdd ==
  ASSUME BatchTypeOK, NEW n \in Open, RecoverOne(n), records[n].op = "add",
         records[n].phase # "PostCommitValidated"
  PROVE  /\ OnlyAt(records[n].item) /\ OnlyRecord(n)
         /\ Removed(n) \/ Carried(n)
         /\ Early(n) => records[n].item \notin listed
<1> DEFINE r == records[n]
           x == r.item
<1>1. x \in Items /\ n \in Numbers /\ r \in BatchRecords
  BY OpenRecords
<1>2. DecisionOf(r) # [kind |-> "conflict"]
  BY DEF RecoverOne, Refused
<1>3. CASE /\ DecisionOf(r) = Perform("DeleteRecordOnly") /\ r.phase = "RecordCreated"
           /\ AddAt(r, 1)
  <2>1. /\ OnlyRecord(n) /\ records'[n] = NoRecord /\ OnlyAt(x)
        /\ UNCHANGED <<repo, canon, listed, hidden>>
    BY <1>3, RecoverEnds DEF Ending
  <2> QED BY <1>1, <1>3, <2>1 DEF AddAt, Removed, Settled, Unshelved
<1>4. CASE /\ DecisionOf(r) = Perform("RemoveOperationOwnedExclude") /\ r.phase = "ExcludeWritten"
           /\ AddAt(r, 2)
  <2>1. /\ OnlyRecord(n) /\ records'[n] = NoRecord /\ OnlyAt(x)
        /\ UNCHANGED <<repo, canon, listed>>
    BY <1>4, RecoverEnds DEF Ending
  <2> QED BY <1>1, <1>4, <2>1 DEF AddAt, Removed, Settled, Unshelved
<1>5. CASE /\ DecisionOf(r) = Perform("MaterializeRepo") /\ r.phase = "StoreTransferred"
           /\ AddAt(r, 3)
  <2>1. /\ Apply("Show", x) /\ listed' = listed /\ OnlyRecord(n) /\ records'[n] \in BatchRecords
        /\ records'[n].phase = "RepoMaterialized" /\ records'[n].op = "add"
        /\ records'[n].item = x
    BY <1>5, RecoverPerforms, PhasesFollow, PhasesListed DEF Ending, MutationOf
  <2>2. repo' = [repo EXCEPT ![x] = "link"] /\ canon' = canon /\ hidden' = hidden
    BY <2>1 DEF Apply
  <2> QED BY <1>1, <1>5, <2>1, <2>2
          DEF AddAt, Carried, Fits, AddFits, Early, OnlyAt, BatchTypeOK
<1>6. CASE /\ DecisionOf(r) = Perform("SaveManifest") /\ r.phase = "RepoMaterialized"
           /\ AddAt(r, 4)
  <2>1. /\ Apply("Validate", x) /\ listed' = listed \cup {x} /\ OnlyRecord(n)
        /\ records'[n] \in BatchRecords
        /\ records'[n].phase = "ManifestSaved" /\ records'[n].op = "add"
        /\ records'[n].item = x
    BY <1>6, RecoverPerforms, PhasesFollow, PhasesListed DEF Ending, MutationOf
  <2>2. repo' = repo /\ canon' = canon /\ hidden' = hidden
    BY <2>1 DEF Apply
  <2> QED BY <1>1, <1>6, <2>1, <2>2
          DEF AddAt, Carried, Fits, AddFits, Early, OnlyAt, BatchTypeOK
<1>7. CASE /\ DecisionOf(r) = Perform("VerifyPostconditionsAndComplete")
           /\ r.phase = "ManifestSaved" /\ AddAt(r, 5)
  <2>1. /\ OnlyRecord(n) /\ records'[n] = NoRecord /\ OnlyAt(x)
        /\ UNCHANGED <<repo, canon, listed, hidden>>
    BY <1>7, RecoverEnds DEF Ending
  <2> QED BY <1>1, <1>7, <2>1 DEF AddAt, Removed, Settled, Shelved, Early
<1>8. ASSUME NEW to \in BatchPhases("add"), DecisionOf(r) = Advances(to),
             \/ to = "ExcludeWritten" /\ r.phase = "RecordCreated" /\ AddAt(r, 2)
             \/ to = "StoreTransferred" /\ r.phase = "ExcludeWritten" /\ AddAt(r, 3)
             \/ to = "RepoMaterialized" /\ r.phase = "StoreTransferred" /\ AddAt(r, 4)
             \/ to = "ManifestSaved" /\ r.phase = "RepoMaterialized" /\ AddAt(r, 5)
      PROVE  OnlyAt(x) /\ OnlyRecord(n) /\ Carried(n) /\ (Early(n) => x \notin listed)
  <2>1. /\ UNCHANGED places /\ OnlyAt(x) /\ OnlyRecord(n)
        /\ records'[n] \in BatchRecords
        /\ records'[n].phase = to /\ records'[n].op = "add"
        /\ records'[n].item = x
    BY <1>8, RecoverAdvances
  <2> QED BY <1>1, <1>8, <2>1 DEF AddAt, Carried, Fits, AddFits, Early, places
<1>9. {"ExcludeWritten", "StoreTransferred", "RepoMaterialized", "ManifestSaved"}
        \subseteq BatchPhases("add")
  BY PhasesListed
<1> QED BY <1>1, <1>2, <1>3, <1>4, <1>5, <1>6, <1>7, <1>8, <1>9, AddDecides

(* Recovery of a restore. *)
LEMMA RecoverRestore ==
  ASSUME BatchTypeOK, NEW n \in Open, RecoverOne(n), records[n].op = "restore",
         records[n].phase # "PostCommitValidated"
  PROVE  /\ OnlyAt(records[n].item) /\ OnlyRecord(n)
         /\ Removed(n) \/ Carried(n)
         /\ Early(n) => records[n].item \in canon
<1> DEFINE r == records[n]
           x == r.item
<1>1. x \in Items /\ n \in Numbers /\ r \in BatchRecords
  BY OpenRecords
<1>2. DecisionOf(r) # [kind |-> "conflict"]
  BY DEF RecoverOne, Refused
<1>3. CASE /\ DecisionOf(r) = Perform("DeleteRecordOnly") /\ r.phase = "RecordCreated"
           /\ RestoreAt(r, 1)
  <2>1. /\ OnlyRecord(n) /\ records'[n] = NoRecord /\ OnlyAt(x)
        /\ UNCHANGED <<repo, canon, listed, hidden>>
    BY <1>3, RecoverEnds DEF Ending
  <2> QED BY <1>1, <1>3, <2>1 DEF RestoreAt, Removed, Settled, Shelved
<1>4. CASE /\ DecisionOf(r) = Perform("StageStoreIntoBackup") /\ r.phase = "RepoRegularized"
           /\ RestoreAt(r, 2)
  <2>1. /\ Apply("Stage", x) /\ listed' = listed /\ OnlyRecord(n) /\ records'[n] \in BatchRecords
        /\ records'[n].phase = "StoreStaged" /\ records'[n].op = "restore"
        /\ records'[n].item = x /\ records'[n].backup = "known"
    BY <1>4, RecoverPerforms, PhasesFollow, PhasesListed DEF Ending, MutationOf
  <2>2. repo' = repo /\ canon' = canon \ {x} /\ hidden' = hidden
    BY <2>1 DEF Apply
  <2> QED BY <1>1, <1>4, <2>1, <2>2
          DEF RestoreAt, Carried, Fits, RestoreFits, Early, OnlyAt, BatchTypeOK
<1>5. CASE /\ DecisionOf(r) = Perform("RemoveManifest") /\ r.phase = "StoreStaged"
           /\ RestoreAt(r, 3)
  <2>1. /\ Apply("Validate", x) /\ listed' = listed \ {x} /\ OnlyRecord(n)
        /\ records'[n] \in BatchRecords
        /\ records'[n].phase = "ManifestRemoved" /\ records'[n].op = "restore"
        /\ records'[n].item = x /\ records'[n].backup = r.backup
    BY <1>5, RecoverPerforms, PhasesFollow, PhasesListed DEF Ending, MutationOf
  <2>2. repo' = repo /\ canon' = canon /\ hidden' = hidden
    BY <2>1 DEF Apply
  <2> QED BY <1>1, <1>5, <2>1, <2>2
          DEF RestoreAt, Carried, Fits, RestoreFits, Early, OnlyAt, BatchTypeOK
<1>6. CASE /\ DecisionOf(r) = Perform("ApplyKeepIgnorePolicy") /\ r.phase = "ManifestRemoved"
           /\ RestoreAt(r, 4)
  <2>1. /\ Apply("Unhide", x) /\ listed' = listed /\ OnlyRecord(n)
        /\ records'[n] \in BatchRecords
        /\ records'[n].phase = "ExcludeUpdated" /\ records'[n].op = "restore"
        /\ records'[n].item = x /\ records'[n].backup = r.backup
    BY <1>6, RecoverPerforms, PhasesFollow, PhasesListed DEF Ending, MutationOf
  <2>2. repo' = repo /\ canon' = canon /\ hidden' = hidden \ {x}
    BY <2>1 DEF Apply
  <2> QED BY <1>1, <1>6, <2>1, <2>2
          DEF RestoreAt, Carried, Fits, RestoreFits, Early, OnlyAt, BatchTypeOK
<1>7. CASE /\ DecisionOf(r) = Perform("DeleteBackupAndComplete") /\ r.phase = "ExcludeUpdated"
           /\ RestoreAt(r, 5)
  <2>1. /\ OnlyRecord(n) /\ records'[n] = NoRecord /\ OnlyAt(x)
        /\ UNCHANGED <<repo, canon, listed, hidden>>
    BY <1>7, RecoverEnds DEF Ending
  <2> QED BY <1>1, <1>7, <2>1 DEF RestoreAt, Removed, Settled, Unshelved, Early
<1>8. ASSUME NEW to \in BatchPhases("restore"), DecisionOf(r) = Advances(to),
             \/ to = "RepoRegularized" /\ r.phase = "RecordCreated" /\ RestoreAt(r, 2)
             \/ to = "StoreStaged" /\ r.phase = "RepoRegularized" /\ RestoreAt(r, 3)
             \/ to = "ManifestRemoved" /\ r.phase = "StoreStaged" /\ RestoreAt(r, 4)
             \/ to = "ExcludeUpdated" /\ r.phase = "ManifestRemoved" /\ RestoreAt(r, 5)
      PROVE  OnlyAt(x) /\ OnlyRecord(n) /\ Carried(n) /\ (Early(n) => x \in canon)
  <2>1. /\ UNCHANGED places /\ OnlyAt(x) /\ OnlyRecord(n)
        /\ records'[n] \in BatchRecords
        /\ records'[n].phase = to /\ records'[n].op = "restore"
        /\ records'[n].item = x /\ records'[n].backup = r.backup
    BY <1>8, RecoverAdvances
  <2> QED BY <1>1, <1>8, <2>1 DEF RestoreAt, Carried, Fits, RestoreFits, Early, places
<1>9. {"RepoRegularized", "StoreStaged", "ManifestRemoved", "ExcludeUpdated"}
        \subseteq BatchPhases("restore")
  BY PhasesListed
<1> QED BY <1>1, <1>2, <1>3, <1>4, <1>5, <1>6, <1>7, <1>8, <1>9, RestoreDecides

(* Recovery of a sync, which fits its item. *)
LEMMA RecoverSync ==
  ASSUME BatchTypeOK, NEW n \in Open, RecoverOne(n), records[n].op = "sync",
         records[n].phase # "PostCommitValidated", Fits(n)
  PROVE  /\ OnlyAt(records[n].item) /\ OnlyRecord(n)
         /\ Removed(n) \/ Carried(n)
<1> DEFINE r == records[n]
           x == r.item
<1>1. x \in Items /\ n \in Numbers /\ r \in BatchRecords
  BY OpenRecords
<1>2. DecisionOf(r) # [kind |-> "conflict"]
  BY DEF RecoverOne, Refused
<1>3. x \in canon /\ x \in hidden /\ x \in listed /\ repo[x] # "missing"
  BY DEF Fits, SyncFits, SyncAt
<1>4. ASSUME NEW name \in Ending, DecisionOf(r) = Perform(name), name # "RemoveOperationOwnedExclude"
      PROVE  OnlyAt(x) /\ OnlyRecord(n) /\ Removed(n)
  <2>1. /\ OnlyRecord(n) /\ records'[n] = NoRecord /\ OnlyAt(x)
        /\ UNCHANGED <<repo, canon, listed, hidden>>
    BY <1>4, RecoverEnds
  <2> QED BY <1>1, <1>3, <2>1 DEF Removed, Settled, Shelved
<1>5. CASE /\ DecisionOf(r) = Advances("ContentSynchronized") /\ r.phase = "RecordCreated"
           /\ repo[x] # "diverged"
  <2>1. /\ UNCHANGED places /\ OnlyAt(x) /\ OnlyRecord(n)
        /\ records'[n] \in BatchRecords
        /\ records'[n].phase = "ContentSynchronized" /\ records'[n].op = "sync"
        /\ records'[n].item = x
    BY <1>5, RecoverAdvances, PhasesListed
  <2> QED BY <1>1, <1>5, <2>1 DEF SyncAt, Carried, Fits, SyncFits, places
<1> QED BY <1>1, <1>2, <1>4, <1>5, SyncDecides DEF Ending

(***************************************************************************)
(* What does not change                                                    *)
(***************************************************************************)

(* The places of x stay. *)
SameAt(x) ==
  /\ repo'[x] = repo[x]
  /\ x \in canon' <=> x \in canon
  /\ x \in hidden' <=> x \in hidden
  /\ x \in listed' <=> x \in listed

(* Where neither a record nor the places of its item change, it fits as before. *)
LEMMA StillFits ==
  ASSUME NEW n, records'[n] = records[n], SameAt(records[n].item)
  PROVE  Fits(n)' <=> Fits(n)
<1> USE DEF Fits, AddFits, RestoreFits, SyncFits, SameAt
<1>1. \A j \in {1, 2, 3, 4, 5, 6} :
        /\ AddAt(records[n], j)' <=> AddAt(records[n], j)
        /\ RestoreAt(records[n], j)' <=> RestoreAt(records[n], j)
        /\ SyncAt(records[n], j)' <=> SyncAt(records[n], j)
  BY DEF AddAt, RestoreAt, SyncAt
<1>2. AddFits(records[n])' <=> AddFits(records[n])
  BY <1>1
<1>3. RestoreFits(records[n])' <=> RestoreFits(records[n])
  BY <1>1
<1>4. SyncFits(records[n])' <=> SyncFits(records[n])
  BY <1>1
<1> QED BY <1>2, <1>3, <1>4 DEF Fits

(* An item whose places stay is settled as before. *)
LEMMA StillSettled ==
  ASSUME NEW x, SameAt(x)
  PROVE  Settled(x)' <=> Settled(x)
BY DEF Settled, Unshelved, Shelved, SameAt

(* A record that stays is as early as before. *)
LEMMA StillEarly ==
  ASSUME NEW n, records'[n] = records[n]
  PROVE  Early(n)' <=> Early(n)
BY DEF Early

(* What an item taken up twice is. *)
LEMMA TakenTwiceMeans ==
  ASSUME NEW n
  PROVE  /\ TakenTwice(n) <=>
              /\ records[n].item \in NamedTwice
              /\ Settled(records[n].item) \/ \E k \in Open \ {n} : records[k].item = records[n].item
         /\ TakenTwice(n)' <=>
              /\ records'[n].item \in NamedTwice
              /\ \/ \E x \in {records'[n].item} : Settled(x)'
                 \/ \E k \in Open' \ {n} : records'[k].item = records'[n].item
BY DEF TakenTwice, Settled, Unshelved, Shelved, NamedTwice

(* An item is settled or has a record. *)
LEMMA UnsettledMeans ==
  /\ UnsettledHasRecord <=> \A x \in Items : Settled(x) \/ \E n \in Open : records[n].item = x
  /\ UnsettledHasRecord' <=> \A x \in Items : Settled(x)' \/ \E n \in Open' : records'[n].item = x
BY DEF UnsettledHasRecord, Settled, Unshelved, Shelved

(***************************************************************************)
(* Recovery keeps the invariant                                            *)
(***************************************************************************)
LEMMA RecoverKeeps ==
  ASSUME BatchInv, Recover
  PROVE  BatchInv'
<1> USE DEF BatchInv
<1>1. job = NoJob /\ job' = job /\ view' = view
  BY RecoversOne
<1>2. PICK n \in Open : RecoverOne(n)
  BY RecoversOne
<1> DEFINE x == records[n].item
<1>3. /\ n \in Numbers /\ x \in Items /\ records[n].op \in {"add", "restore", "sync"}
      /\ records[n] # NoRecord
  BY OpenRecords DEF Operations, Open
<1>4. \A m \in Open : Fits(m) \/ Overtaken(m)
  BY <1>1 DEF RecordsInv
<1>5. /\ OnlyAt(x) /\ OnlyRecord(n)
      /\ Removed(n) \/ Carried(n)
      /\ records[n].phase # "PostCommitValidated" =>
           /\ records[n].op = "add" => (Early(n) => x \notin listed)
           /\ records[n].op = "restore" => (Early(n) => x \in canon)
  <2>1. CASE records[n].phase = "PostCommitValidated"
    <3>1. Fits(n)
      BY <1>4, <2>1 DEF Overtaken
    <3> QED BY <1>2, <2>1, <3>1, RecoverPast
  <2>2. CASE records[n].phase # "PostCommitValidated"
    <3>1. CASE records[n].op = "add"
      BY <1>2, <2>2, <3>1, RecoverAdd
    <3>2. CASE records[n].op = "restore"
      BY <1>2, <2>2, <3>2, RecoverRestore
    <3>3. CASE records[n].op = "sync"
      <4>1. Fits(n)
        BY <1>4, <3>3 DEF Overtaken
      <4> QED BY <1>2, <2>2, <3>3, <4>1, RecoverSync
    <3> QED BY <1>3, <3>1, <3>2, <3>3
  <2> QED BY <2>1, <2>2
<1>6. ASSUME NEW k \in Open, k # n, records[k].item = x
      PROVE  records[k].phase # "PostCommitValidated"
  <2>1. SUFFICES ASSUME records[k].phase = "PostCommitValidated" PROVE FALSE
    OBVIOUS
  <2>2. Early(n) /\ records[k].op = records[n].op /\ records[n].op # "sync"
    BY <1>6, <2>1 DEF TwinsInv
  <2>3. Fits(k)
    BY <1>4, <2>1 DEF Overtaken
  <2>4. records[n].phase # "PostCommitValidated"
    BY <2>2 DEF Early
  <2>5. CASE records[n].op = "add"
    BY <1>5, <1>6, <2>1, <2>2, <2>3, <2>4, <2>5 DEF Fits, AddFits, AddAt
  <2>6. CASE records[n].op = "restore"
    BY <1>5, <1>6, <2>1, <2>2, <2>3, <2>4, <2>6 DEF Fits, RestoreFits, RestoreAt
  <2> QED BY <1>3, <2>2, <2>5, <2>6
<1>7. /\ \A m \in Open \ {n} : m \in Open' /\ records'[m] = records[m] /\ m \in Numbers
      /\ \A m \in Open' : m \in Open
      /\ Removed(n) => n \notin Open'
      /\ Carried(n) => n \in Open' /\ records'[n].item = x
  BY <1>3, <1>5, BatchDistinct DEF OnlyRecord, Open, Removed, Carried
<1>8. \A m \in Open : records[m].item \in Items
  BY OpenRecords
<1>9. ASSUME NEW y \in Items \ {x} PROVE SameAt(y)
  BY <1>5 DEF OnlyAt, SameAt
<1>10. BatchTypeOK'
  BY <1>1, <1>5 DEF BatchTypeOK, OnlyAt, OnlyRecord
<1>11. DoingInv' /\ JobInv' /\ ViewInv'
  BY <1>1 DEF DoingInv, JobInv, ViewInv
<1>12. TwinsInv'
  <2>1. SUFFICES ASSUME NEW m \in Open', NEW k \in Open', m # k, records'[m].item = records'[k].item
                 PROVE  /\ records'[m].item \in NamedTwice
                        /\ records'[m].op = records'[k].op
                        /\ records'[m].op # "sync"
                        /\ records'[k].phase = "PostCommitValidated" => Early(m)'
    BY <1>1 DEF TwinsInv, NamedTwice
  <2>2. m \in Open /\ k \in Open
    BY <1>7
  <2>3. /\ records'[m].item = records[m].item /\ records'[m].op = records[m].op
        /\ records'[k].item = records[k].item /\ records'[k].op = records[k].op
    BY <1>5, <1>7, <2>2 DEF Carried
  <2>4. ASSUME records'[k].phase = "PostCommitValidated" PROVE Early(m)'
    <3>1. k # n /\ records'[k] = records[k]
      BY <1>5, <1>7, <2>2, <2>4 DEF Carried
    <3>2. m # n
      BY <1>6, <2>1, <2>2, <2>3, <2>4, <3>1
    <3> QED BY <1>7, <2>1, <2>2, <2>3, <2>4, <3>1, <3>2, StillEarly DEF TwinsInv
  <2> QED BY <2>1, <2>2, <2>3, <2>4 DEF TwinsInv
<1>13. RecordsInv'
  <2>1. SUFFICES ASSUME NEW m \in Open' PROVE Fits(m)' \/ Overtaken(m)'
    BY <1>1 DEF RecordsInv
  <2>2. CASE m = n
    BY <1>5, <1>7, <2>1, <2>2 DEF Carried
  <2>3. CASE m # n /\ records[m].item # x
    <3>1. m \in Open /\ records'[m] = records[m] /\ SameAt(records[m].item)
      BY <1>7, <1>8, <1>9, <2>1, <2>3
    <3>2. CASE Fits(m)
      BY <3>1, <3>2, StillFits
    <3>3. CASE Overtaken(m)
      <4>1. Settled(records[m].item) \/ \E k \in Open \ {m} : records[k].item = records[m].item
        BY <3>3, TakenTwiceMeans DEF Overtaken
      <4>2. \A k \in Open \ {m} : records[k].item = records[m].item =>
              k \in Open' \ {m} /\ records'[k].item = records'[m].item
        BY <1>7, <2>3, <3>1
      <4>3. \A y \in {records[m].item} : Settled(y)' <=> Settled(y)
        BY <3>1, StillSettled
      <4>4. TakenTwice(m)'
        BY <3>1, <3>3, <4>1, <4>2, <4>3, TakenTwiceMeans DEF Overtaken
      <4> QED BY <1>1, <3>1, <3>3, <4>4 DEF Overtaken
    <3> QED BY <1>4, <3>1, <3>2, <3>3
  <2>4. CASE m # n /\ records[m].item = x
    <3>1. m \in Open /\ records'[m] = records[m]
      BY <1>7, <2>1, <2>4
    <3>2. /\ x \in NamedTwice /\ records[m].op # "sync"
          /\ records[m].phase # "PostCommitValidated"
      BY <1>6, <2>4, <3>1 DEF TwinsInv
    <3>3. TakenTwice(m)'
      <4>1. CASE Removed(n)
        BY <2>4, <3>1, <3>2, <4>1, TakenTwiceMeans DEF Removed
      <4>2. CASE Carried(n)
        BY <1>7, <2>4, <3>1, <3>2, <4>2, TakenTwiceMeans
      <4> QED BY <1>5, <4>1, <4>2
    <3> QED BY <1>1, <3>1, <3>2, <3>3 DEF Overtaken
  <2> QED BY <2>2, <2>3, <2>4
<1>14. UnsettledHasRecord'
  <2>1. SUFFICES ASSUME NEW y \in Items PROVE Settled(y)' \/ \E m \in Open' : records'[m].item = y
    BY UnsettledMeans
  <2>2. CASE y = x
    BY <1>5, <1>7, <2>2 DEF Removed
  <2>3. CASE y # x
    <3>1. Settled(y) \/ \E m \in Open \ {n} : records[m].item = y
      BY <2>3, UnsettledMeans
    <3> QED BY <1>7, <1>9, <2>3, <3>1, StillSettled
  <2> QED BY <2>2, <2>3
<1> QED BY <1>10, <1>11, <1>12, <1>13, <1>14

(***************************************************************************)
(* The end of an item's work, and of a command                             *)
(***************************************************************************)

(* Wherever the command stands with its item, the record fits. *)
LEMMA DoingFits ==
  ASSUME BatchTypeOK, DoingInv, job # NoJob, job.num # 0
  PROVE  Fits(job.num)
<1>1. job.num \in Open /\ Doing
  BY DEF DoingInv
<1>2. Current.op \in {"add", "restore", "sync"}
  BY <1>1, OpenRecords DEF Current, Operations
<1>3. CASE Current.op = "add"
  <2>1. AddAt(Current, 2) => AddAt(Current, 1)
    BY DEF AddAt
  <2>2. AddAt(Current, 2) => Current.item \in hidden
    BY DEF AddAt
  <2>3. AddDoing
    BY <1>1, <1>3 DEF Doing
  <2>4. AddFits(Current)
    BY <2>1, <2>2, <2>3 DEF AddDoing, AddIs, AddFits
  <2> QED BY <1>3, <2>4 DEF Fits, Current
<1>4. CASE Current.op = "restore"
  <2>1. RestoreFits(Current)
    BY <1>1, <1>4 DEF Doing, RestoreDoing, RestoreIs, RestoreFits
  <2> QED BY <1>4, <2>1 DEF Fits, Current
<1>5. CASE Current.op = "sync"
  <2>1. SyncFits(Current)
    BY <1>1, <1>5 DEF Doing, SyncDoing, SyncIs, SyncFits
  <2> QED BY <1>5, <2>1 DEF Fits, Current
<1> QED BY <1>2, <1>3, <1>4, <1>5

(* Every record fits or has been overtaken, then. *)
LEMMA AllFit ==
  ASSUME BatchInv, NEW n \in Open
  PROVE  Fits(n) \/ Overtaken(n)
<1>1. CASE job # NoJob /\ n = job.num
  <2>1. job.num # 0
    BY <1>1, BatchParametersTyped DEF Open
  <2> QED BY <1>1, <2>1, DoingFits DEF BatchInv
<1> QED BY <1>1 DEF BatchInv, RecordsInv

(* Where neither a record nor a place changes, every record fits as before. *)
LEMMA AllStill ==
  ASSUME BatchTypeOK, UNCHANGED <<places, records>>
  PROVE  /\ Open' = Open
         /\ \A n \in Open : Fits(n)' <=> Fits(n)
         /\ \A n \in Open : Early(n)' <=> Early(n)
         /\ \A n \in Open : TakenTwice(n)' <=> TakenTwice(n)
         /\ UnsettledHasRecord' <=> UnsettledHasRecord
<1>1. Open' = Open
  BY DEF Open
<1>2. \A x : SameAt(x)
  BY DEF SameAt, places
<1>3. \A n \in Open : Fits(n)' <=> Fits(n)
  <2> TAKE n \in Open
  <2>1. SameAt(records[n].item) /\ records'[n] = records[n]
    BY <1>2
  <2> QED BY <2>1, StillFits
<1>4. \A n \in Open : Early(n)' <=> Early(n)
  BY StillEarly
<1>5. \A n \in Open : TakenTwice(n)' <=> TakenTwice(n)
  BY DEF TakenTwice, Unshelved, Shelved, Open, places, NamedTwice
<1>6. UnsettledHasRecord' <=> UnsettledHasRecord
  BY DEF UnsettledHasRecord, Unshelved, Shelved, Open, places
<1> QED BY <1>1, <1>3, <1>4, <1>5, <1>6

(* A command that ends leaves its records and what it has done. *)
LEMMA LeaveKeeps ==
  ASSUME BatchInv, Leave, UNCHANGED <<places, records>>
  PROVE  BatchInv'
<1> USE DEF BatchInv
<1>1. job' = NoJob /\ view' = {}
  BY DEF Leave
<1>2. BatchTypeOK'
  BY <1>1 DEF BatchTypeOK, places
<1>3. DoingInv' /\ JobInv' /\ ViewInv'
  BY <1>1 DEF DoingInv, JobInv, ViewInv
<1>4. TwinsInv'
  BY <1>1, AllStill DEF TwinsInv, NamedTwice
<1>5. RecordsInv'
  <2>1. SUFFICES ASSUME NEW n \in Open PROVE Fits(n)' \/ Overtaken(n)'
    BY <1>1, AllStill DEF RecordsInv
  <2> QED BY <1>1, AllFit, AllStill DEF Overtaken
<1>6. UnsettledHasRecord'
  BY AllStill
<1> QED BY <1>2, <1>3, <1>4, <1>5, <1>6

(* A command between two items keeps the invariant if it keeps what is said of its
   targets. *)
LEMMA BetweenKeeps ==
  ASSUME BatchInv, job # NoJob, job' \in BatchJobs, job'.num = 0, job'.step = "next",
         UNCHANGED <<places, records, view>>, JobInv'
  PROVE  BatchInv'
<1> USE DEF BatchInv
<1>1. job' # NoJob
  BY BatchDistinct
<1>2. BatchTypeOK'
  BY DEF BatchTypeOK, places
<1>3. DoingInv'
  BY DEF DoingInv
<1>4. ViewInv'
  BY AllStill DEF ViewInv, Ahead, AddAt, RestoreAt, places
<1>5. TwinsInv'
  <2>1. \A k \in Open : k # 0
    BY BatchParametersTyped DEF Open
  <2> QED BY <2>1, AllStill DEF TwinsInv, NamedTwice
<1>6. RecordsInv'
  <2>1. SUFFICES ASSUME NEW n \in Open PROVE Fits(n)' \/ Overtaken(n)'
    BY AllStill DEF RecordsInv
  <2> QED BY AllFit, AllStill DEF Overtaken
<1>7. UnsettledHasRecord'
  BY AllStill
<1> QED BY <1>2, <1>3, <1>4, <1>5, <1>6, <1>7

(***************************************************************************)
(* The steps of one item                                                   *)
(***************************************************************************)

(* A step on the item of the record at work keeps the invariant if it goes on where the
   command is to be: other items and records stay, and an earlier record of this item
   is one an earlier attempt has left. *)
LEMMA CurrentKeeps ==
  ASSUME BatchInv, job # NoJob, NEW k, k = job.num, k # 0,
         job' \in BatchJobs, job'.num = k, job'.step # "next",
         job'.cmd = job.cmd, job'.todo = job.todo, job'.left = job.left,
         OnlyRecord(k), records'[k] \in BatchRecords,
         records'[k].item = records[k].item, records'[k].op = records[k].op,
         OnlyAt(records[k].item), view' \subseteq Items,
         \A y \in Items \ {records[k].item} : y \in view' <=> y \in view,
         Doing',
         (records[k].item \in view' <=> records[k].item \in listed') \/ Ahead(k)'
  PROVE  BatchInv'
<1> USE DEF BatchInv
<1> DEFINE x == records[k].item
<1>1. k \in Open /\ k \in Numbers /\ x \in Items /\ records[k].op \in Operations
  BY OpenRecords DEF DoingInv
<1>2. job' # NoJob
  BY BatchDistinct
<1>3. Open' = Open
  BY <1>1, BatchDistinct DEF Open, OnlyRecord
<1>4. BatchTypeOK'
  BY DEF BatchTypeOK, OnlyAt, OnlyRecord
<1>5. DoingInv'
  BY <1>1, <1>3 DEF DoingInv
<1>6. \A n \in Open \ {k} : records'[n] = records[n] /\ records[n].item \in Items /\ n \in Numbers
  BY OpenRecords DEF OnlyRecord, Open
<1>7. \A n \in Open : records'[n].item = records[n].item /\ records'[n].op = records[n].op
  BY <1>6
<1>8. JobInv'
  <2>1. job.cmd \notin DOMAIN Conversions /\ job.cmd = records[k].op
    BY <1>1 DEF JobInv, Operations, Conversions
  <2>2. job.cmd \in {"add", "restore"} => OnLine'
    <3>1. SUFFICES ASSUME job.cmd \in {"add", "restore"} PROVE OnLine'
      OBVIOUS
    <3>2. OnLine
      BY <3>1 DEF JobInv
    <3>3. PICK line \in Lines, i \in Nat :
            /\ i + Len(job.todo) = Len(line)
            /\ \A m \in 1..Len(job.todo) : job.todo[m] = line[i + m]
            /\ \A y \in job.left : i # 0 /\ y \in line[i].items
            /\ \A n \in Open : \E j \in 1..i : /\ records[n].item \in line[j].items
                                               /\ records[n].item \in job.left => j < i
      BY <3>2 DEF OnLine
    <3>4. \A n \in Open' : \E j \in 1..i : /\ records'[n].item \in line[j].items
                                           /\ records'[n].item \in job'.left => j < i
      BY <1>3, <1>7, <3>3
    <3> QED BY <3>3, <3>4 DEF OnLine
  <2> QED BY <1>3, <1>7, <2>1, <2>2 DEF JobInv
<1>9. ASSUME NEW y \in Items \ {x} PROVE SameAt(y)
  BY <1>9 DEF OnlyAt, SameAt
<1>10. ASSUME NEW n \in Open \ {k}, records[n].item = x PROVE Early(n) /\ Early(n)'
  BY <1>1, <1>6, <1>10, StillEarly DEF TwinsInv
<1>11. ViewInv'
  <2>1. SUFFICES ASSUME NEW y \in Items
                 PROVE  (y \in view' <=> y \in listed')
                        \/ \E n \in Open' : records'[n].item = y /\ Ahead(n)'
    BY <1>2 DEF ViewInv
  <2>2. CASE y = x
    BY <1>1, <1>3, <1>7, <2>2
  <2>3. CASE y # x
    <3>1. (y \in view' <=> y \in view) /\ SameAt(y)
      BY <1>9, <2>3
    <3>2. ASSUME NEW n \in Open, records[n].item = y, Ahead(n) PROVE Ahead(n)'
      <4>1. records'[n] = records[n]
        BY <1>6, <2>3, <3>2
      <4> QED BY <3>1, <3>2, <4>1 DEF Ahead, AddAt, RestoreAt, SameAt
    <3> QED BY <1>3, <1>7, <3>1, <3>2 DEF ViewInv, SameAt
  <2> QED BY <2>2, <2>3
<1>12. TwinsInv'
  <2>1. SUFFICES ASSUME NEW m \in Open, NEW n \in Open, m # n, records[m].item = records[n].item
                 PROVE  /\ records[m].item \in NamedTwice
                        /\ records[m].op = records[n].op
                        /\ records[m].op # "sync"
                        /\ records'[n].phase = "PostCommitValidated" => Early(m)'
                        /\ Early(m)' \/ Early(n)'
                        /\ n = k => Early(m)'
    BY <1>2, <1>3, <1>7 DEF TwinsInv, NamedTwice
  <2>2. CASE n = k
    BY <1>10, <2>1, <2>2 DEF TwinsInv
  <2>3. CASE m = k
    <3>1. Early(n) /\ Early(n)' /\ records'[n] = records[n]
      BY <1>6, <1>10, <2>1, <2>3
    <3> QED BY <2>1, <2>3, <3>1 DEF TwinsInv, Early
  <2>4. CASE m # k /\ n # k
    BY <1>6, <2>1, <2>4, StillEarly DEF TwinsInv
  <2> QED BY <2>2, <2>3, <2>4
<1>13. RecordsInv'
  <2>1. SUFFICES ASSUME NEW n \in Open \ {k} PROVE Fits(n)' \/ Overtaken(n)'
    BY <1>2, <1>3 DEF RecordsInv
  <2>2. records'[n] = records[n] /\ records[n].item \in Items
    BY <1>6
  <2>3. CASE records[n].item = x
    <3>1. x \in NamedTwice /\ records[n].op # "sync" /\ Early(n) /\ Early(n)'
      BY <1>1, <1>10, <2>3 DEF TwinsInv
    <3>2. TakenTwice(n)'
      BY <1>1, <1>3, <2>2, <2>3, <3>1, TakenTwiceMeans
    <3> QED BY <2>2, <3>1, <3>2 DEF Overtaken, Early
  <2>4. CASE records[n].item # x
    <3>1. SameAt(records[n].item)
      BY <1>9, <2>2, <2>4
    <3>2. CASE Fits(n)
      BY <2>2, <3>1, <3>2, StillFits
    <3>3. CASE Overtaken(n)
      <4>1. Settled(records[n].item) \/ \E m \in Open \ {n} : records[m].item = records[n].item
        BY <3>3, TakenTwiceMeans DEF Overtaken
      <4>2. \A y \in {records[n].item} : Settled(y)' <=> Settled(y)
        BY <3>1, StillSettled
      <4>3. TakenTwice(n)'
        BY <1>3, <1>7, <2>2, <3>3, <4>1, <4>2, TakenTwiceMeans DEF Overtaken
      <4> QED BY <1>2, <2>2, <3>3, <4>3, StillEarly DEF Overtaken
    <3> QED BY <3>2, <3>3, AllFit
  <2> QED BY <2>3, <2>4
<1>14. UnsettledHasRecord'
  <2>1. SUFFICES ASSUME NEW y \in Items PROVE Settled(y)' \/ \E n \in Open : records[n].item = y
    BY <1>3, <1>7, UnsettledMeans
  <2>2. CASE y # x
    BY <1>9, <2>2, StillSettled, UnsettledMeans
  <2> QED BY <1>1, <2>2
<1> QED BY <1>4, <1>5, <1>8, <1>11, <1>12, <1>13, <1>14

(* What each command does in each phase. *)
LEMMA MutationsListed ==
  /\ Mutations["add"]["RecordCreated"] = "Hide"
  /\ Mutations["add"]["ExcludeWritten"] = "Transfer"
  /\ Mutations["add"]["StoreTransferred"] = "Show"
  /\ Mutations["add"]["RepoMaterialized"] = "List"
  /\ Mutations["add"]["ManifestSaved"] = "Validate"
  /\ Mutations["restore"]["RecordCreated"] = "Regularize"
  /\ Mutations["restore"]["RepoRegularized"] = "Stage"
  /\ Mutations["restore"]["StoreStaged"] = "Unlist"
  /\ Mutations["restore"]["ManifestRemoved"] = "Unhide"
  /\ Mutations["restore"]["ExcludeUpdated"] = "DropBackup"
  /\ Mutations["sync"]["RecordCreated"] = "Regularize"
  /\ Mutations["sync"]["ContentSynchronized"] = "Validate"
BY DEF Mutations

(* Mutate, of the record k by the mutation. *)
MutateBy(k, mutation) ==
  LET x == records[k].item
  IN  /\ repo' = CASE mutation = "Transfer"   -> [repo EXCEPT ![x] = "missing"]
                   [] mutation = "Show"       -> [repo EXCEPT ![x] = "link"]
                   [] mutation = "Regularize" -> [repo EXCEPT ![x] = "regular"]
                   [] OTHER                   -> repo
      /\ canon' = CASE mutation = "Transfer" -> canon \cup {x}
                    [] mutation = "Stage"    -> canon \ {x}
                    [] OTHER                 -> canon
      /\ hidden' = CASE mutation = "Hide"   -> hidden \cup {x}
                     [] mutation = "Unhide" -> hidden \ {x}
                     [] OTHER               -> hidden
      /\ listed' = listed
      /\ view' = CASE mutation = "List"   -> view \cup {x}
                   [] mutation = "Unlist" -> view \ {x}
                   [] OTHER               -> view
      /\ job'.step = CASE mutation \in {"List", "Unlist"} -> "save"
                       [] mutation = "Stage" -> "identify"
                       [] OTHER -> "advance"
      /\ records'[k].phase = records[k].phase /\ records'[k].exclBefore = records[k].exclBefore
      /\ records'[k].op = records[k].op /\ records'[k].item = records[k].item
      /\ records'[k].backup = BackupAfter(mutation, records[k].backup)

(* What a mutation changes. *)
LEMMA Mutates ==
  ASSUME BatchInv, Mutate, NEW k, k = job.num,
         NEW mutation, mutation = Mutations[Current.op][Current.phase]
  PROVE  /\ MutateBy(k, mutation)
         /\ job # NoJob /\ k # 0 /\ job.step = "mutate"
         /\ k \in Open /\ records[k].item \in Items /\ Doing
         /\ job' \in BatchJobs /\ job'.num = k /\ job'.step # "next"
         /\ job'.cmd = job.cmd /\ job'.todo = job.todo /\ job'.left = job.left
         /\ OnlyRecord(k) /\ records'[k] \in BatchRecords
         /\ OnlyAt(records[k].item) /\ view' \subseteq Items
         /\ \A y \in Items \ {records[k].item} : y \in view' <=> y \in view
<1> DEFINE x == records[k].item
           step == CASE mutation \in {"List", "Unlist"} -> "save"
                     [] mutation = "Stage" -> "identify"
                     [] OTHER -> "advance"
           backup == BackupAfter(mutation, records[k].backup)
<1>1. job # NoJob /\ k # 0 /\ job.step = "mutate" /\ job \in BatchJobs
  BY DEF Mutate, At, BatchInv, BatchTypeOK
<1>2. k \in Open /\ Doing /\ BatchTypeOK
  BY <1>1 DEF BatchInv, DoingInv
<1>3. k \in Numbers /\ x \in Items /\ records[k].backup \in {"none", "made", "known"}
  BY <1>2, OpenRecords
<1>4. /\ Apply(mutation, x)
      /\ records' = [records EXCEPT ![k].backup = backup]
      /\ view' = CASE mutation = "List"   -> view \cup {x}
                   [] mutation = "Unlist" -> view \ {x}
                   [] OTHER               -> view
      /\ job' = [job EXCEPT !.step = step]
      /\ listed' = listed
  BY DEF Mutate, Current
<1>5. step \in {"save", "identify", "advance"}
  OBVIOUS
<1>6. /\ job' \in BatchJobs /\ job'.num = k /\ job'.step = step
      /\ job'.cmd = job.cmd /\ job'.todo = job.todo /\ job'.left = job.left
  BY <1>1, <1>4, <1>5 DEF BatchJobs
<1>7. backup \in {"none", "made", "known"}
  BY <1>3 DEF BackupAfter
<1>8. records'[k] = [records[k] EXCEPT !.backup = backup]
  BY <1>2, <1>3, <1>4 DEF BatchTypeOK
<1>9. [records[k] EXCEPT !.backup = backup] \in BatchRecords
  BY <1>2, <1>7, RecordChanged, OpenRecords
<1>10. OnlyRecord(k)
  BY <1>2, <1>3, <1>4, <1>8, <1>9 DEF OnlyRecord, BatchTypeOK
<1>11. \E op \in Operations : records[k] \in
         [op : {op}, phase : BatchPhases(op), item : Items, exclBefore : BOOLEAN,
          backup : {"none", "made", "known"}]
  BY <1>2, OpenRecords, RecordFields
<1>12. /\ records'[k].phase = records[k].phase /\ records'[k].exclBefore = records[k].exclBefore
       /\ records'[k].op = records[k].op /\ records'[k].item = x
       /\ records'[k].backup = backup
  BY <1>8, <1>11
<1>13. OnlyAt(x)
  <2>1. repo' = repo \/ \E e \in {"missing", "link", "regular"} : repo' = [repo EXCEPT ![x] = e]
    BY <1>4 DEF Apply
  <2>2. canon' = canon \/ canon' = canon \cup {x} \/ canon' = canon \ {x}
    BY <1>4 DEF Apply
  <2>3. hidden' = hidden \/ hidden' = hidden \cup {x} \/ hidden' = hidden \ {x}
    BY <1>4 DEF Apply
  <2> QED BY <1>2, <1>3, <1>4, <2>1, <2>2, <2>3 DEF OnlyAt, BatchTypeOK
<1>14. view' = view \/ view' = view \cup {x} \/ view' = view \ {x}
  BY <1>4
<1>15. view' \subseteq Items /\ \A y \in Items \ {x} : y \in view' <=> y \in view
  BY <1>2, <1>3, <1>14 DEF BatchTypeOK
<1>16. MutateBy(k, mutation)
  BY <1>4, <1>6, <1>12 DEF MutateBy, Apply
<1> QED BY <1>1, <1>2, <1>3, <1>5, <1>6, <1>8, <1>9, <1>10, <1>13, <1>15, <1>16

(* A mutation of an add keeps the invariant. *)
LEMMA MutateAddKeeps ==
  ASSUME BatchInv, Mutate, Current.op = "add"
  PROVE  BatchInv'
<1> DEFINE k == job.num
           mutation == Mutations[Current.op][Current.phase]
<1>1. /\ MutateBy(k, mutation)
      /\ job # NoJob /\ k # 0 /\ job.step = "mutate"
      /\ k \in Open /\ records[k].item \in Items /\ Doing
      /\ job' \in BatchJobs /\ job'.num = k /\ job'.step # "next"
      /\ job'.cmd = job.cmd /\ job'.todo = job.todo /\ job'.left = job.left
      /\ OnlyRecord(k) /\ records'[k] \in BatchRecords
      /\ OnlyAt(records[k].item) /\ view' \subseteq Items
      /\ \A y \in Items \ {records[k].item} : y \in view' <=> y \in view
  BY Mutates
<1>2. BatchTypeOK
  BY DEF BatchInv
<1>3. AddDoing
  BY <1>1 DEF Doing
<1>4. records'[k].op = "add" /\ records'[k].item = records[k].item /\ records[k].op = "add"
  BY <1>1 DEF MutateBy, Current
<1>5. ASSUME AddIs("mutate", "RecordCreated", 1, FALSE)
      PROVE  AddDoing' /\ ((records[k].item \in view' <=> records[k].item \in listed') \/ Ahead(k)')
  <2>1. MutateBy(k, "Hide")
    BY <1>1, <1>5, MutationsListed DEF AddIs, Current
  <2>2. AddIs("advance", "RecordCreated", 2, FALSE)'
    BY <1>1, <1>2, <1>5, <2>1
       DEF AddIs, AddAt, MutateBy, BackupAfter, Current, BatchTypeOK
  <2> QED BY <1>1, <1>4, <2>2 DEF AddDoing, AddIs, AddAt, Ahead, Current
<1>6. ASSUME AddIs("mutate", "ExcludeWritten", 2, FALSE)
      PROVE  AddDoing' /\ ((records[k].item \in view' <=> records[k].item \in listed') \/ Ahead(k)')
  <2>1. MutateBy(k, "Transfer")
    BY <1>1, <1>6, MutationsListed DEF AddIs, Current
  <2>2. AddIs("advance", "ExcludeWritten", 3, FALSE)'
    BY <1>1, <1>2, <1>6, <2>1
       DEF AddIs, AddAt, MutateBy, BackupAfter, Current, BatchTypeOK
  <2> QED BY <1>1, <1>4, <2>2 DEF AddDoing, AddIs, AddAt, Ahead, Current
<1>7. ASSUME AddIs("mutate", "StoreTransferred", 3, FALSE)
      PROVE  AddDoing' /\ ((records[k].item \in view' <=> records[k].item \in listed') \/ Ahead(k)')
  <2>1. MutateBy(k, "Show")
    BY <1>1, <1>7, MutationsListed DEF AddIs, Current
  <2>2. AddIs("advance", "StoreTransferred", 4, FALSE)'
    BY <1>1, <1>2, <1>7, <2>1
       DEF AddIs, AddAt, MutateBy, BackupAfter, Current, BatchTypeOK
  <2> QED BY <1>1, <1>4, <2>2 DEF AddDoing, AddIs, AddAt, Ahead, Current
<1>8. ASSUME AddIs("mutate", "RepoMaterialized", 4, FALSE)
      PROVE  AddDoing' /\ ((records[k].item \in view' <=> records[k].item \in listed') \/ Ahead(k)')
  <2>1. MutateBy(k, "List")
    BY <1>1, <1>8, MutationsListed DEF AddIs, Current
  <2>2. AddIs("save", "RepoMaterialized", 4, TRUE)'
    BY <1>1, <1>2, <1>8, <2>1
       DEF AddIs, AddAt, MutateBy, BackupAfter, Current, BatchTypeOK
  <2> QED BY <1>1, <1>4, <2>2 DEF AddDoing, AddIs, AddAt, Ahead, Current
<1>9. ASSUME AddIs("mutate", "ManifestSaved", 5, TRUE)
      PROVE  AddDoing' /\ ((records[k].item \in view' <=> records[k].item \in listed') \/ Ahead(k)')
  <2>1. MutateBy(k, "Validate")
    BY <1>1, <1>9, MutationsListed DEF AddIs, Current
  <2>2. AddIs("advance", "ManifestSaved", 5, TRUE)'
    BY <1>1, <1>2, <1>9, <2>1
       DEF AddIs, AddAt, MutateBy, BackupAfter, Current, BatchTypeOK
  <2> QED BY <1>1, <1>4, <2>2 DEF AddDoing, AddIs, AddAt, Ahead, Current
<1>10. AddDoing' /\ ((records[k].item \in view' <=> records[k].item \in listed') \/ Ahead(k)')
  BY <1>1, <1>3, <1>5, <1>6, <1>7, <1>8, <1>9 DEF AddDoing, AddIs
<1>11. Doing'
  BY <1>1, <1>4, <1>10 DEF Doing, Current
<1> QED BY <1>1, <1>4, <1>10, <1>11, CurrentKeeps

(* A mutation of a restore keeps the invariant. *)
LEMMA MutateRestoreKeeps ==
  ASSUME BatchInv, Mutate, Current.op = "restore"
  PROVE  BatchInv'
<1> DEFINE k == job.num
           mutation == Mutations[Current.op][Current.phase]
<1>1. /\ MutateBy(k, mutation)
      /\ job # NoJob /\ k # 0 /\ job.step = "mutate"
      /\ k \in Open /\ records[k].item \in Items /\ Doing
      /\ job' \in BatchJobs /\ job'.num = k /\ job'.step # "next"
      /\ job'.cmd = job.cmd /\ job'.todo = job.todo /\ job'.left = job.left
      /\ OnlyRecord(k) /\ records'[k] \in BatchRecords
      /\ OnlyAt(records[k].item) /\ view' \subseteq Items
      /\ \A y \in Items \ {records[k].item} : y \in view' <=> y \in view
  BY Mutates
<1>2. BatchTypeOK
  BY DEF BatchInv
<1>3. RestoreDoing
  BY <1>1 DEF Doing
<1>4. records'[k].op = "restore" /\ records'[k].item = records[k].item /\ records[k].op = "restore"
  BY <1>1 DEF MutateBy, Current
<1>5. ASSUME RestoreIs("mutate", "RecordCreated", 1, TRUE)
      PROVE  RestoreDoing' /\ ((records[k].item \in view' <=> records[k].item \in listed') \/ Ahead(k)')
  <2>1. MutateBy(k, "Regularize")
    BY <1>1, <1>5, MutationsListed DEF RestoreIs, Current
  <2>2. RestoreIs("advance", "RecordCreated", 2, TRUE)'
    BY <1>1, <1>2, <1>5, <2>1
       DEF RestoreIs, RestoreAt, MutateBy, BackupAfter, Current, BatchTypeOK
  <2> QED BY <1>1, <1>4, <2>2 DEF RestoreDoing, RestoreIs, RestoreAt, Ahead, Current
<1>6. ASSUME RestoreIs("mutate", "RecordCreated", 2, TRUE)
      PROVE  RestoreDoing' /\ ((records[k].item \in view' <=> records[k].item \in listed') \/ Ahead(k)')
  <2>1. MutateBy(k, "Regularize")
    BY <1>1, <1>6, MutationsListed DEF RestoreIs, Current
  <2>2. RestoreIs("advance", "RecordCreated", 2, TRUE)'
    BY <1>1, <1>2, <1>6, <2>1
       DEF RestoreIs, RestoreAt, MutateBy, BackupAfter, Current, BatchTypeOK
  <2> QED BY <1>1, <1>4, <2>2 DEF RestoreDoing, RestoreIs, RestoreAt, Ahead, Current
<1>7. ASSUME RestoreIs("mutate", "RepoRegularized", 2, TRUE)
      PROVE  RestoreDoing' /\ ((records[k].item \in view' <=> records[k].item \in listed') \/ Ahead(k)')
  <2>1. MutateBy(k, "Stage")
    BY <1>1, <1>7, MutationsListed DEF RestoreIs, Current
  <2>2. RestoreIs("identify", "RepoRegularized", 3, TRUE)'
    BY <1>1, <1>2, <1>7, <2>1
       DEF RestoreIs, RestoreAt, MutateBy, BackupAfter, Current, BatchTypeOK
  <2> QED BY <1>1, <1>4, <2>2 DEF RestoreDoing, RestoreIs, RestoreAt, Ahead, Current
<1>8. ASSUME RestoreIs("mutate", "StoreStaged", 3, TRUE)
      PROVE  RestoreDoing' /\ ((records[k].item \in view' <=> records[k].item \in listed') \/ Ahead(k)')
  <2>1. MutateBy(k, "Unlist")
    BY <1>1, <1>8, MutationsListed DEF RestoreIs, Current
  <2>2. RestoreIs("save", "StoreStaged", 3, FALSE)'
    BY <1>1, <1>2, <1>8, <2>1
       DEF RestoreIs, RestoreAt, MutateBy, BackupAfter, Current, BatchTypeOK
  <2> QED BY <1>1, <1>4, <2>2 DEF RestoreDoing, RestoreIs, RestoreAt, Ahead, Current
<1>9. ASSUME RestoreIs("mutate", "ManifestRemoved", 4, FALSE)
      PROVE  RestoreDoing' /\ ((records[k].item \in view' <=> records[k].item \in listed') \/ Ahead(k)')
  <2>1. MutateBy(k, "Unhide")
    BY <1>1, <1>9, MutationsListed DEF RestoreIs, Current
  <2>2. RestoreIs("advance", "ManifestRemoved", 5, FALSE)'
    BY <1>1, <1>2, <1>9, <2>1
       DEF RestoreIs, RestoreAt, MutateBy, BackupAfter, Current, BatchTypeOK
  <2> QED BY <1>1, <1>4, <2>2 DEF RestoreDoing, RestoreIs, RestoreAt, Ahead, Current
<1>10. ASSUME RestoreIs("mutate", "ExcludeUpdated", 5, FALSE)
      PROVE  RestoreDoing' /\ ((records[k].item \in view' <=> records[k].item \in listed') \/ Ahead(k)')
  <2>1. MutateBy(k, "DropBackup")
    BY <1>1, <1>10, MutationsListed DEF RestoreIs, Current
  <2>2. RestoreIs("advance", "ExcludeUpdated", 6, FALSE)'
    BY <1>1, <1>2, <1>10, <2>1
       DEF RestoreIs, RestoreAt, MutateBy, BackupAfter, Current, BatchTypeOK
  <2> QED BY <1>1, <1>4, <2>2 DEF RestoreDoing, RestoreIs, RestoreAt, Ahead, Current
<1>11. RestoreDoing' /\ ((records[k].item \in view' <=> records[k].item \in listed') \/ Ahead(k)')
  BY <1>1, <1>3, <1>5, <1>6, <1>7, <1>8, <1>9, <1>10 DEF RestoreDoing, RestoreIs
<1>12. Doing'
  BY <1>1, <1>4, <1>11 DEF Doing, Current
<1> QED BY <1>1, <1>4, <1>11, <1>12, CurrentKeeps

(* A mutation of a sync keeps the invariant. *)
LEMMA MutateSyncKeeps ==
  ASSUME BatchInv, Mutate, Current.op = "sync"
  PROVE  BatchInv'
<1> DEFINE k == job.num
           mutation == Mutations[Current.op][Current.phase]
<1>1. /\ MutateBy(k, mutation)
      /\ job # NoJob /\ k # 0 /\ job.step = "mutate"
      /\ k \in Open /\ records[k].item \in Items /\ Doing
      /\ job' \in BatchJobs /\ job'.num = k /\ job'.step # "next"
      /\ job'.cmd = job.cmd /\ job'.todo = job.todo /\ job'.left = job.left
      /\ OnlyRecord(k) /\ records'[k] \in BatchRecords
      /\ OnlyAt(records[k].item) /\ view' \subseteq Items
      /\ \A y \in Items \ {records[k].item} : y \in view' <=> y \in view
  BY Mutates
<1>2. BatchTypeOK
  BY DEF BatchInv
<1>3. SyncDoing
  BY <1>1 DEF Doing
<1>4. records'[k].op = "sync" /\ records'[k].item = records[k].item /\ records[k].op = "sync"
  BY <1>1 DEF MutateBy, Current
<1>5. ASSUME SyncIs("mutate", "RecordCreated", 1)
      PROVE  SyncDoing' /\ (records[k].item \in view' <=> records[k].item \in listed')
  <2>1. MutateBy(k, "Regularize")
    BY <1>1, <1>5, MutationsListed DEF SyncIs, Current
  <2>2. SyncIs("advance", "RecordCreated", 2)'
    BY <1>1, <1>2, <1>5, <2>1
       DEF SyncIs, SyncAt, MutateBy, BackupAfter, Current, BatchTypeOK
  <2> QED BY <1>1, <1>4, <2>2 DEF SyncDoing, SyncIs, SyncAt, Current
<1>6. ASSUME SyncIs("mutate", "ContentSynchronized", 2)
      PROVE  SyncDoing' /\ (records[k].item \in view' <=> records[k].item \in listed')
  <2>1. MutateBy(k, "Validate")
    BY <1>1, <1>6, MutationsListed DEF SyncIs, Current
  <2>2. SyncIs("advance", "ContentSynchronized", 2)'
    BY <1>1, <1>2, <1>6, <2>1
       DEF SyncIs, SyncAt, MutateBy, BackupAfter, Current, BatchTypeOK
  <2> QED BY <1>1, <1>4, <2>2 DEF SyncDoing, SyncIs, SyncAt, Current
<1>7. SyncDoing' /\ (records[k].item \in view' <=> records[k].item \in listed')
  BY <1>1, <1>3, <1>5, <1>6 DEF SyncDoing, SyncIs
<1>8. Doing'
  BY <1>1, <1>4, <1>7 DEF Doing, Current
<1> QED BY <1>1, <1>4, <1>7, <1>8, CurrentKeeps

(* Recording the backup's identity keeps the invariant. *)
LEMMA IdentifyKeeps ==
  ASSUME BatchInv, IdentifyBackup
  PROVE  BatchInv'
<1> DEFINE k == job.num
           x == records[k].item
<1>1. /\ job # NoJob /\ k # 0 /\ job.step = "identify" /\ job \in BatchJobs
      /\ records' = [records EXCEPT ![k].backup = "known"]
      /\ job' = [job EXCEPT !.step = "advance"]
      /\ UNCHANGED <<repo, canon, hidden, listed, view>>
  BY DEF IdentifyBackup, At, BatchInv, BatchTypeOK, places
<1>2. BatchTypeOK /\ k \in Open /\ Doing
  BY <1>1 DEF BatchInv, DoingInv
<1>3. k \in Numbers /\ x \in Items /\ records[k].op \in Operations
  BY <1>2, OpenRecords
<1>4. Current.op = "restore" /\ RestoreIs("identify", "RepoRegularized", 3, TRUE)
  <2>1. RestoreIs("identify", "RepoRegularized", 3, TRUE) /\ Current.op # "add" /\ Current.op # "sync"
    BY <1>1, <1>2, <1>3 DEF Doing, AddDoing, AddIs, SyncDoing, SyncIs, RestoreDoing, RestoreIs, Current,
                            Operations
  <2> QED BY <1>3, <2>1 DEF Operations, Current
<1>5. records'[k] = [records[k] EXCEPT !.backup = "known"]
  BY <1>1, <1>2, <1>3 DEF BatchTypeOK
<1>6. records'[k] \in BatchRecords
  <2>1. records[k].phase \in BatchPhases(records[k].op)
    BY <1>2, OpenRecords
  <2>2. [records[k] EXCEPT !.backup = "known"] \in BatchRecords
    BY <1>2, <2>1, RecordChanged
  <2> QED BY <1>5, <2>2
<1>7. OnlyRecord(k)
  BY <1>1, <1>2, <1>3, <1>5, <1>6 DEF OnlyRecord, BatchTypeOK
<1>8. /\ records'[k].op = "restore" /\ records'[k].item = x /\ records'[k].phase = "RepoRegularized"
      /\ records'[k].backup = "known" /\ records[k].op = "restore"
  <2>1. \E op \in Operations : records[k] \in
          [op : {op}, phase : BatchPhases(op), item : Items, exclBefore : BOOLEAN,
           backup : {"none", "made", "known"}]
    BY <1>2, OpenRecords, RecordFields
  <2> QED BY <1>4, <1>5, <2>1 DEF Current, RestoreIs
<1>9. /\ job' \in BatchJobs /\ job'.num = k /\ job'.step = "advance"
      /\ job'.cmd = job.cmd /\ job'.todo = job.todo /\ job'.left = job.left
  BY <1>1 DEF BatchJobs
<1>10. RestoreIs("advance", "RepoRegularized", 3, TRUE)'
  BY <1>1, <1>4, <1>8, <1>9 DEF RestoreIs, RestoreAt, Current
<1>11. Doing' /\ (x \in view' <=> x \in listed')
  BY <1>8, <1>9, <1>10 DEF Doing, RestoreDoing, RestoreIs, RestoreAt, Current
<1>12. OnlyAt(x) /\ view' \subseteq Items /\ \A y \in Items \ {x} : y \in view' <=> y \in view
  BY <1>1, <1>2 DEF OnlyAt, BatchTypeOK
<1> QED BY <1>1, <1>6, <1>7, <1>8, <1>9, <1>11, <1>12, CurrentKeeps

(* A phase update keeps the invariant. *)
LEMMA AdvanceKeeps ==
  ASSUME BatchInv, Advance
  PROVE  BatchInv'
<1> DEFINE k == job.num
           r == records[k]
           x == r.item
           next == PhaseAfter(r.op, r.phase)
           step == IF next = "PostCommitValidated" THEN "drop" ELSE "mutate"
<1>1. /\ job # NoJob /\ k # 0 /\ job.step = "advance" /\ job \in BatchJobs
      /\ records' = [records EXCEPT ![k].phase = next]
      /\ job' = [job EXCEPT !.step = step]
      /\ UNCHANGED <<repo, canon, hidden, listed, view>>
  BY DEF Advance, At, BatchInv, BatchTypeOK, places, Current
<1>2. BatchTypeOK /\ k \in Open /\ Doing
  BY <1>1 DEF BatchInv, DoingInv
<1>3. k \in Numbers /\ x \in Items /\ r.op \in {"add", "restore", "sync"}
  BY <1>2, OpenRecords DEF Operations
<1>4. /\ r.op = "add" => AddDoing
      /\ r.op = "restore" => RestoreDoing
      /\ r.op = "sync" => SyncDoing
  BY <1>2 DEF Doing, Current
<1>5. next \in BatchPhases(r.op)
  BY <1>1, <1>3, <1>4, PhasesFollow, PhasesListed
     DEF AddDoing, AddIs, RestoreDoing, RestoreIs, SyncDoing, SyncIs, Current
<1>6. records'[k] = [r EXCEPT !.phase = next]
  BY <1>1, <1>2, <1>3 DEF BatchTypeOK
<1>7. records'[k] \in BatchRecords
  BY <1>2, <1>5, <1>6, RecordChanged
<1>8. OnlyRecord(k)
  BY <1>1, <1>2, <1>3, <1>6, <1>7 DEF OnlyRecord, BatchTypeOK
<1>9. /\ records'[k].op = r.op /\ records'[k].item = x /\ records'[k].phase = next
      /\ records'[k].backup = r.backup /\ records'[k].exclBefore = r.exclBefore
  <2>1. \E op \in Operations : r \in
          [op : {op}, phase : BatchPhases(op), item : Items, exclBefore : BOOLEAN,
           backup : {"none", "made", "known"}]
    BY <1>2, OpenRecords, RecordFields
  <2> QED BY <1>6, <2>1
<1>10. /\ job' \in BatchJobs /\ job'.num = k /\ job'.step = step /\ job'.step # "next"
       /\ job'.cmd = job.cmd /\ job'.todo = job.todo /\ job'.left = job.left
  BY <1>1 DEF BatchJobs
<1>11. \A j \in 1..6 : /\ AddAt(r, j) <=> AddAt(Current, j)'
                       /\ RestoreAt(r, j) <=> RestoreAt(Current, j)'
                       /\ SyncAt(r, j) <=> SyncAt(Current, j)'
  BY <1>1, <1>9, <1>10 DEF AddAt, RestoreAt, SyncAt, Current
<1> HIDE DEF next, step
<1>12. next = PhaseAfter(r.op, r.phase) /\ step = IF next = "PostCommitValidated" THEN "drop" ELSE "mutate"
  BY DEF next, step
<1>13. ASSUME r.op = "add" PROVE AddDoing' /\ (x \in view' <=> x \in listed')
  <2>1. \/ r.phase = "RecordCreated" /\ AddAt(r, 2) /\ x \notin view
        \/ r.phase = "ExcludeWritten" /\ AddAt(r, 3) /\ x \notin view
        \/ r.phase = "StoreTransferred" /\ AddAt(r, 4) /\ x \notin view
        \/ r.phase \in {"RepoMaterialized", "ManifestSaved"} /\ AddAt(r, 5) /\ x \in view
    BY <1>1, <1>4, <1>13 DEF AddDoing, AddIs, Current
  <2>2. x \in view' <=> x \in listed'
    BY <1>1, <2>1 DEF AddAt
  <2>3. AddDoing'
    BY <1>1, <1>9, <1>10, <1>11, <1>12, <1>13, <2>1, PhasesFollow DEF AddDoing, AddIs, Current
  <2> QED BY <2>2, <2>3
<1>14. ASSUME r.op = "restore" PROVE RestoreDoing' /\ (x \in view' <=> x \in listed')
  <2>1. \/ r.phase = "RecordCreated" /\ RestoreAt(r, 2) /\ x \in view
        \/ r.phase = "RepoRegularized" /\ RestoreAt(r, 3) /\ x \in view
        \/ r.phase = "StoreStaged" /\ RestoreAt(r, 4) /\ x \notin view
        \/ r.phase = "ManifestRemoved" /\ RestoreAt(r, 5) /\ x \notin view
        \/ r.phase = "ExcludeUpdated" /\ RestoreAt(r, 6) /\ x \notin view
    BY <1>1, <1>4, <1>14 DEF RestoreDoing, RestoreIs, Current
  <2>2. x \in view' <=> x \in listed'
    BY <1>1, <2>1 DEF RestoreAt
  <2>3. RestoreDoing'
    BY <1>1, <1>9, <1>10, <1>11, <1>12, <1>14, <2>1, PhasesFollow DEF RestoreDoing, RestoreIs, Current
  <2> QED BY <2>2, <2>3
<1>15. ASSUME r.op = "sync" PROVE SyncDoing' /\ (x \in view' <=> x \in listed')
  <2>1. r.phase \in {"RecordCreated", "ContentSynchronized"} /\ SyncAt(r, 2) /\ x \in view
    BY <1>1, <1>4, <1>15 DEF SyncDoing, SyncIs, Current
  <2>2. x \in view' <=> x \in listed'
    BY <1>1, <2>1 DEF SyncAt
  <2>3. SyncDoing'
    BY <1>1, <1>9, <1>10, <1>11, <1>12, <1>15, <2>1, PhasesFollow DEF SyncDoing, SyncIs, Current
  <2> QED BY <2>2, <2>3
<1>16. Doing' /\ (x \in view' <=> x \in listed')
  BY <1>3, <1>9, <1>10, <1>13, <1>14, <1>15 DEF Doing, Current
<1>17. OnlyAt(x) /\ view' \subseteq Items /\ \A y \in Items \ {x} : y \in view' <=> y \in view
  BY <1>1, <1>2 DEF OnlyAt, BatchTypeOK
<1> QED BY <1>1, <1>7, <1>8, <1>9, <1>10, <1>16, <1>17, CurrentKeeps

(* Saving the manifest in memory keeps the invariant: where it is ahead of the one on
   disk, at this item or at one that failed, a record waits for just that. *)
LEMMA SaveKeeps ==
  ASSUME BatchInv, SaveView
  PROVE  BatchInv'
<1> USE DEF BatchInv
<1> DEFINE k == job.num
           x == records[k].item
<1>1. /\ job # NoJob /\ k # 0 /\ job.step = "save" /\ job \in BatchJobs
      /\ listed' = view /\ job' = [job EXCEPT !.step = "advance"]
      /\ UNCHANGED <<repo, canon, hidden, view, records>>
  BY DEF SaveView, At, BatchTypeOK
<1>2. k \in Open /\ Doing
  BY <1>1 DEF DoingInv
<1>3. k \in Numbers /\ x \in Items /\ records[k].op \in Operations
  BY <1>2, OpenRecords
<1>4. /\ job' \in BatchJobs /\ job' # NoJob /\ job'.num = k /\ job'.step = "advance"
      /\ job'.cmd = job.cmd /\ job'.todo = job.todo /\ job'.left = job.left
  BY <1>1, BatchDistinct DEF BatchJobs
<1>5. Open' = Open
  BY <1>1 DEF Open
<1>6. BatchTypeOK'
  BY <1>1, <1>4 DEF BatchTypeOK
<1>7. DoingInv'
  <2>1. \/ Current.op = "add" /\ AddIs("save", "RepoMaterialized", 4, TRUE)
        \/ Current.op = "restore" /\ RestoreIs("save", "StoreStaged", 3, FALSE)
    BY <1>1, <1>2, <1>3 DEF Doing, AddDoing, AddIs, SyncDoing, SyncIs, RestoreDoing, RestoreIs, Current,
                            Operations
  <2>2. Current' = Current
    BY <1>1, <1>4 DEF Current
  <2>3. \/ Current.op = "add" /\ AddIs("advance", "RepoMaterialized", 5, TRUE)'
        \/ Current.op = "restore" /\ RestoreIs("advance", "StoreStaged", 4, FALSE)'
    BY <1>1, <1>4, <2>1, <2>2 DEF AddIs, AddAt, RestoreIs, RestoreAt
  <2>4. Doing'
    BY <2>2, <2>3 DEF Doing, AddDoing, RestoreDoing
  <2> QED BY <1>1, <1>2, <1>4, <1>5, <2>4 DEF DoingInv
<1>8. JobInv'
  <2>1. job.cmd \notin DOMAIN Conversions
    BY <1>1, <1>2 DEF JobInv
  <2>2. OnLine' <=> OnLine
    BY <1>1, <1>4, <1>5 DEF OnLine
  <2> QED BY <1>1, <1>4, <1>5, <2>1, <2>2 DEF JobInv
<1>9. ViewInv'
  BY <1>1 DEF ViewInv
<1>10. TwinsInv'
  BY <1>1, <1>4, <1>5, StillEarly DEF TwinsInv, NamedTwice
<1>11. ASSUME NEW y \in Items, y \in view <=> y \in listed PROVE SameAt(y)
  BY <1>1, <1>11 DEF SameAt
<1>12. RecordsInv'
  <2>1. SUFFICES ASSUME NEW n \in Open, n # k PROVE Fits(n)' \/ Overtaken(n)'
    BY <1>4, <1>5 DEF RecordsInv
  <2> DEFINE y == records[n].item
  <2>2. y \in Items /\ records'[n] = records[n]
    BY <1>1, OpenRecords
  <2>3. ASSUME NEW m \in Open, m # n, records[m].item = y, Early(n) PROVE Overtaken(n)'
    <3>1. y \in NamedTwice /\ records[n].op # "sync"
      BY <2>3 DEF TwinsInv
    <3>2. TakenTwice(n)'
      BY <1>1, <1>5, <2>2, <2>3, <3>1, TakenTwiceMeans
    <3> QED BY <2>2, <2>3, <3>1, <3>2, StillEarly DEF Overtaken, Early
  <2>4. CASE y = x
    <3>1. Early(n)
      BY <1>1, <1>2, <2>1, <2>4 DEF TwinsInv
    <3> QED BY <1>2, <2>1, <2>3, <2>4, <3>1
  <2>5. CASE y \in view <=> y \in listed
    <3>1. SameAt(y)
      BY <1>11, <2>2, <2>5
    <3>2. CASE Fits(n)
      BY <2>2, <3>1, <3>2, StillFits
    <3>3. CASE Overtaken(n)
      <4>1. Settled(y) \/ \E m \in Open \ {n} : records[m].item = y
        BY <3>3, TakenTwiceMeans DEF Overtaken
      <4>2. \A z \in {y} : Settled(z)' <=> Settled(z)
        BY <3>1, StillSettled
      <4>3. TakenTwice(n)'
        BY <1>1, <1>5, <2>2, <3>3, <4>1, <4>2, TakenTwiceMeans DEF Overtaken
      <4> QED BY <1>1, <2>2, <3>3, <4>3, StillEarly DEF Overtaken
    <3> QED BY <3>2, <3>3, AllFit
  <2>6. CASE ~(y \in view <=> y \in listed)
    <3>1. PICK m \in Open : records[m].item = y /\ Ahead(m)
      BY <1>1, <2>2, <2>6 DEF ViewInv
    <3>2. CASE m = n
      <4>1. \/ /\ records[n].op = "add" /\ records[n].phase = "RepoMaterialized"
               /\ AddAt(records[n], 4) /\ y \in view
            \/ /\ records[n].op = "restore" /\ records[n].phase = "StoreStaged"
               /\ RestoreAt(records[n], 3) /\ y \notin view
        BY <3>1, <3>2 DEF Ahead
      <4> QED BY <1>1, <2>2, <4>1 DEF Fits, AddFits, RestoreFits, AddAt, RestoreAt
    <3>3. CASE m # n
      <4>1. ~Early(m)
        BY <3>1 DEF Ahead, Early
      <4>2. Early(n)
        BY <1>1, <3>1, <3>3, <4>1 DEF TwinsInv
      <4> QED BY <2>3, <3>1, <3>3, <4>2
    <3> QED BY <3>2, <3>3
  <2> QED BY <2>5, <2>6
<1>13. UnsettledHasRecord'
  <2>1. SUFFICES ASSUME NEW y \in Items PROVE Settled(y)' \/ \E n \in Open : records[n].item = y
    BY <1>1, <1>5, UnsettledMeans
  <2>2. CASE y \in view <=> y \in listed
    BY <1>11, <2>2, StillSettled, UnsettledMeans
  <2>3. CASE ~(y \in view <=> y \in listed)
    BY <1>1, <2>3 DEF ViewInv
  <2> QED BY <2>2, <2>3
<1> QED BY <1>6, <1>7, <1>8, <1>9, <1>10, <1>12, <1>13

(* The mutation of whatever operation is at work keeps the invariant. *)
LEMMA MutateKeeps ==
  ASSUME BatchInv, Mutate
  PROVE  BatchInv'
<1>1. job.num \in Open
  BY DEF Mutate, At, BatchInv, DoingInv
<1>2. Current.op \in {"add", "restore", "sync"}
  BY <1>1, OpenRecords DEF BatchInv, Operations, Current
<1> QED BY <1>2, MutateAddKeeps, MutateRestoreKeeps, MutateSyncKeeps

(* Removing the record keeps the invariant: the item is settled by then, and the
   manifests agree on it. *)
LEMMA DropKeeps ==
  ASSUME BatchInv, DropRecord
  PROVE  BatchInv'
<1> USE DEF BatchInv
<1> DEFINE k == job.num
           x == records[k].item
<1>1. /\ job # NoJob /\ k # 0 /\ job.step = "drop" /\ job \in BatchJobs
      /\ records' = [records EXCEPT ![k] = NoRecord]
      /\ job' = [job EXCEPT !.num = 0, !.step = "next"]
      /\ UNCHANGED <<repo, canon, hidden, listed, view>>
  BY DEF DropRecord, At, BatchTypeOK, places
<1>2. k \in Open /\ Doing
  BY <1>1 DEF DoingInv
<1>3. k \in Numbers /\ x \in Items /\ records[k].op \in {"add", "restore", "sync"}
  BY <1>2, OpenRecords DEF Operations
<1>4. /\ job' \in BatchJobs /\ job' # NoJob /\ job'.num = 0 /\ job'.step = "next"
      /\ job'.cmd = job.cmd /\ job'.todo = job.todo /\ job'.left = job.left
  BY <1>1, BatchDistinct DEF BatchJobs
<1>5. Open' = Open \ {k} /\ \A m \in Open \ {k} : records'[m] = records[m]
  BY <1>1, <1>3 DEF Open, BatchTypeOK
<1>6. Settled(x) /\ records[k].phase = "PostCommitValidated"
  <2>1. CASE records[k].op = "add"
    <3>1. AddIs("drop", "PostCommitValidated", 5, TRUE)
      BY <1>1, <1>2, <2>1 DEF Doing, AddDoing, AddIs, Current
    <3> QED BY <1>3, <3>1 DEF AddIs, AddAt, Current, Settled, Shelved
  <2>2. CASE records[k].op = "restore"
    <3>1. RestoreIs("drop", "PostCommitValidated", 6, FALSE)
      BY <1>1, <1>2, <2>2 DEF Doing, RestoreDoing, RestoreIs, Current
    <3> QED BY <1>3, <3>1 DEF RestoreIs, RestoreAt, Current, Settled, Unshelved
  <2>3. CASE records[k].op = "sync"
    <3>1. SyncIs("drop", "PostCommitValidated", 2)
      BY <1>1, <1>2, <2>3 DEF Doing, SyncDoing, SyncIs, Current
    <3> QED BY <1>3, <3>1 DEF SyncIs, SyncAt, Current, Settled, Shelved
  <2> QED BY <1>3, <2>1, <2>2, <2>3
<1>7. \A y : SameAt(y)
  BY <1>1 DEF SameAt
<1>8. BatchTypeOK'
  BY <1>1, <1>3, <1>4 DEF BatchTypeOK
<1>9. DoingInv'
  BY <1>4 DEF DoingInv
<1>10. JobInv'
  <2>1. job.cmd \notin DOMAIN Conversions
    BY <1>1, <1>2 DEF JobInv
  <2>2. OnLine => OnLine'
    BY <1>4, <1>5 DEF OnLine
  <2> QED BY <1>1, <1>4, <1>5, <2>1, <2>2 DEF JobInv
<1>11. ViewInv'
  <2>1. \A n \in Open : Ahead(n) => n # k /\ Ahead(n)'
    BY <1>1, <1>5, <1>6 DEF Ahead, AddAt, RestoreAt
  <2> QED BY <1>1, <1>5, <2>1 DEF ViewInv
<1>12. TwinsInv'
  <2>1. \A n \in Open \ {k} : Early(n)' <=> Early(n)
    BY <1>5, StillEarly
  <2>2. \A n \in Open : n # 0
    BY BatchParametersTyped DEF Open
  <2> QED BY <1>1, <1>4, <1>5, <2>1, <2>2 DEF TwinsInv, NamedTwice
<1>13. RecordsInv'
  <2>1. SUFFICES ASSUME NEW n \in Open \ {k} PROVE Fits(n)' \/ Overtaken(n)'
    BY <1>5 DEF RecordsInv
  <2>2. records'[n] = records[n] /\ SameAt(records[n].item)
    BY <1>5, <1>7
  <2>3. CASE Fits(n)
    BY <2>2, <2>3, StillFits
  <2>4. CASE Overtaken(n)
    <3>1. Settled(records[n].item) \/ \E m \in Open' \ {n} : records'[m].item = records[n].item
      BY <1>5, <1>6, <2>4, TakenTwiceMeans DEF Overtaken
    <3>2. \A z \in {records[n].item} : Settled(z)' <=> Settled(z)
      BY <2>2, StillSettled
    <3>3. TakenTwice(n)'
      BY <2>2, <2>4, <3>1, <3>2, TakenTwiceMeans DEF Overtaken
    <3> QED BY <1>1, <2>2, <2>4, <3>3, StillEarly DEF Overtaken
  <2> QED BY <2>3, <2>4, AllFit
<1>14. UnsettledHasRecord'
  <2>1. SUFFICES ASSUME NEW y \in Items PROVE Settled(y)' \/ \E n \in Open' : records'[n].item = y
    BY UnsettledMeans
  <2>2. Settled(y) \/ \E n \in Open \ {k} : records[n].item = y
    BY <1>6, UnsettledMeans
  <2> QED BY <1>5, <1>7, <2>2, StillSettled
<1> QED BY <1>8, <1>9, <1>10, <1>11, <1>12, <1>13, <1>14

(***************************************************************************)
(* The next item                                                           *)
(***************************************************************************)

(* An eligible item is as the manifest on disk says, too: no failed item of
   this command is ahead there. *)
LEMMA EligibleAgrees ==
  ASSUME BatchInv, job # NoJob, job.cmd \in Operations, NEW x \in Items, Eligible(job.cmd, x)
  PROVE  x \in view <=> x \in listed
<1> USE DEF BatchInv
<1>1. SUFFICES ASSUME NEW n \in Open, records[n].item = x, Ahead(n) PROVE FALSE
  BY DEF ViewInv
<1>2. records[n].op = job.cmd
  BY DEF JobInv
<1>3. CASE job.cmd = "add"
  BY <1>1, <1>2, <1>3 DEF Ahead, AddAt, Eligible
<1>4. CASE job.cmd = "restore"
  BY <1>1, <1>2, <1>4 DEF Ahead, RestoreAt, Eligible
<1>5. CASE job.cmd = "sync"
  BY <1>1, <1>2, <1>5 DEF Ahead
<1> QED BY <1>3, <1>4, <1>5 DEF Operations

(* A record of an eligible item is of an attempt that failed early, and the
   command line names the item twice. *)
LEMMA EligibleTwin ==
  ASSUME BatchInv, job # NoJob, job.cmd \in Operations, job.step = "next",
         NEW x \in job.left, Eligible(job.cmd, x), NEW n \in Open, records[n].item = x
  PROVE  x \in NamedTwice /\ job.cmd # "sync" /\ records[n].op = job.cmd /\ Early(n)
<1> USE DEF BatchInv
<1>1. records[n].op = job.cmd /\ x \in Items
  BY OpenRecords DEF JobInv
<1>2. job.cmd # "sync"
  BY DEF JobInv
<1>3. job.cmd \in {"add", "restore"}
  BY <1>2 DEF Operations
<1>4. x \in NamedTwice
  <2>1. OnLine
    BY <1>3 DEF JobInv
  <2>2. PICK line \in Lines, i \in Nat :
          /\ i + Len(job.todo) = Len(line)
          /\ \A y \in job.left : i # 0 /\ y \in line[i].items
          /\ \A m \in Open : \E j \in 1..i : /\ records[m].item \in line[j].items
                                             /\ records[m].item \in job.left => j < i
    BY <2>1 DEF OnLine
  <2>3. PICK j \in 1..i : x \in line[j].items /\ j < i
    BY <2>2
  <2>4. job.todo \in Seq(TargetKinds) /\ line \in Seq(TargetKinds)
    BY BatchParametersTyped DEF BatchTypeOK, BatchJobs
  <2>5. Len(job.todo) \in Nat /\ Len(line) \in Nat /\ DOMAIN line = 1..Len(line)
    BY <2>4
  <2>6. i \in DOMAIN line /\ j \in DOMAIN line /\ i # j
    <3>1. i + Len(job.todo) = Len(line) /\ j < i /\ j \in 1..i
      BY <2>2, <2>3
    <3>2. j \in Nat /\ 1 <= j /\ j < i
      BY <3>1
    <3>3. ASSUME NEW a \in Nat, NEW b \in Nat, i + a = b
          PROVE  i \in 1..b /\ j \in 1..b /\ i # j
      BY <3>2, <3>3
    <3> QED BY <2>5, <3>1, <3>3
  <2>7. x \in line[i].items \cap line[j].items
    BY <2>2, <2>3
  <2> QED BY <1>1, <2>6, <2>7 DEF NamedTwice
<1>5. Fits(n) => Early(n)
  <2>1. CASE job.cmd = "add"
    <3>1. repo[x] = "regular" /\ x \notin canon
      BY <2>1 DEF Eligible
    <3>2. ~AddAt(records[n], 3) /\ ~AddAt(records[n], 4) /\ ~AddAt(records[n], 5)
      BY <3>1 DEF AddAt
    <3>3. records[n].phase \in BatchPhases("add")
      BY <1>1, <2>1, OpenRecords
    <3> QED BY <1>1, <2>1, <3>2, <3>3, PhasesListed DEF Fits, AddFits, Early
  <2>2. CASE job.cmd = "restore"
    <3>1. x \in canon
      BY <2>2 DEF Eligible
    <3>2. /\ ~RestoreAt(records[n], 3) /\ ~RestoreAt(records[n], 4)
          /\ ~RestoreAt(records[n], 5) /\ ~RestoreAt(records[n], 6)
          /\ RestoreAt(records[n], 1) \/ RestoreAt(records[n], 2) => records[n].backup = "none"
      BY <3>1 DEF RestoreAt
    <3>3. records[n].phase \in BatchPhases("restore")
      BY <1>1, <2>2, OpenRecords
    <3> QED BY <1>1, <2>2, <3>2, <3>3, PhasesListed DEF Fits, RestoreFits, Early
  <2> QED BY <1>3, <2>1, <2>2
<1>6. Early(n)
  BY <1>5, AllFit DEF Overtaken
<1> QED BY <1>1, <1>2, <1>4, <1>6

(* What the next item changes: a record with a number of its own. *)
LEMMA NextItemMeans ==
  ASSUME BatchInv, NEW x \in Items, NextItem(x)
  PROVE  \E n \in Numbers \ Open :
           /\ job # NoJob /\ job.step = "next" /\ job.num = 0
           /\ x \in job.left /\ job.cmd \in Operations /\ Eligible(job.cmd, x)
           /\ records'[n] = [op |-> job.cmd, phase |-> "RecordCreated", item |-> x,
                             exclBefore |-> x \in hidden, backup |-> "none"]
           /\ OnlyRecord(n) /\ records'[n] \in BatchRecords /\ Open' = Open \cup {n}
           /\ job' \in BatchJobs /\ job' # NoJob /\ job'.num = n /\ job'.step = "mutate"
           /\ job'.cmd = job.cmd /\ job'.todo = job.todo /\ job'.left = job.left \ {x}
           /\ UNCHANGED <<repo, canon, hidden, listed, view>>
<1> USE DEF BatchInv
<1> DEFINE n == CHOOSE n \in Numbers : n \notin Open /\ \A k \in Numbers \ Open : n <= k
           r == [op |-> job.cmd, phase |-> "RecordCreated", item |-> x,
                 exclBefore |-> x \in hidden, backup |-> "none"]
<1>1. /\ job # NoJob /\ job.step = "next" /\ x \in job.left /\ job.cmd \in Operations
      /\ Open # Numbers /\ Eligible(job.cmd, x)
      /\ records' = [records EXCEPT ![n] = r]
      /\ job' = [job EXCEPT !.left = @ \ {x}, !.num = n, !.step = "mutate"]
      /\ UNCHANGED <<repo, canon, hidden, listed, view>>
  BY DEF NextItem, places
<1>2. n \in Numbers \ Open
  <2>1. Numbers \ Open # {} /\ Numbers \ Open \in SUBSET Nat
    BY <1>1, BatchParametersTyped DEF Open
  <2>2. \E m \in Numbers \ Open : \A k \in Numbers \ Open : m <= k
    BY <2>1, Least
  <2>3. \E m \in Numbers : m \notin Open /\ \A k \in Numbers \ Open : m <= k
    BY <2>2
  <2> QED BY <2>3
<1> HIDE DEF n
<1>3. job.num = 0 /\ job \in BatchJobs
  BY <1>1 DEF DoingInv, BatchTypeOK
<1>4. r \in BatchRecords
  <2>1. "RecordCreated" \in BatchPhases(job.cmd)
    BY <1>1, PhasesListed DEF Operations
  <2>2. r \in [op : {job.cmd}, phase : BatchPhases(job.cmd), item : Items, exclBefore : BOOLEAN,
               backup : {"none", "made", "known"}]
    BY <2>1
  <2> QED BY <1>1, <2>2, RecordFields
<1>5. records'[n] = r /\ OnlyRecord(n)
  BY <1>1, <1>2, <1>4 DEF BatchTypeOK, OnlyRecord
<1>6. Open' = Open \cup {n}
  BY <1>2, <1>4, <1>5, BatchDistinct DEF Open, OnlyRecord
<1>7. /\ job' \in BatchJobs /\ job' # NoJob /\ job'.num = n /\ job'.step = "mutate"
      /\ job'.cmd = job.cmd /\ job'.todo = job.todo /\ job'.left = job.left \ {x}
  <2>1. n \in Numbers
    BY <1>2
  <2>2. job' \in BatchJobs
    BY <1>1, <1>3, <2>1 DEF BatchJobs
  <2>3. /\ job'.num = n /\ job'.step = "mutate"
        /\ job'.cmd = job.cmd /\ job'.todo = job.todo /\ job'.left = job.left \ {x}
    BY <1>1, <1>3 DEF BatchJobs
  <2> QED BY <2>2, <2>3, BatchDistinct
<1> QED BY <1>1, <1>2, <1>3, <1>4, <1>5, <1>6, <1>7

(* Taking up the next item keeps the invariant. *)
LEMMA NextItemKeeps ==
  ASSUME BatchInv, NEW x \in Items, NextItem(x)
  PROVE  BatchInv'
<1> USE DEF BatchInv
<1>1. PICK n \in Numbers \ Open :
        /\ job # NoJob /\ job.step = "next" /\ job.num = 0
        /\ x \in job.left /\ job.cmd \in Operations /\ Eligible(job.cmd, x)
        /\ records'[n] = [op |-> job.cmd, phase |-> "RecordCreated", item |-> x,
                          exclBefore |-> x \in hidden, backup |-> "none"]
        /\ OnlyRecord(n) /\ records'[n] \in BatchRecords /\ Open' = Open \cup {n}
        /\ job' \in BatchJobs /\ job' # NoJob /\ job'.num = n /\ job'.step = "mutate"
        /\ job'.cmd = job.cmd /\ job'.todo = job.todo /\ job'.left = job.left \ {x}
        /\ UNCHANGED <<repo, canon, hidden, listed, view>>
  BY NextItemMeans
<1>2. /\ records'[n].op = job.cmd /\ records'[n].phase = "RecordCreated" /\ records'[n].item = x
      /\ records'[n].exclBefore = (x \in hidden) /\ records'[n].backup = "none"
  BY <1>1
<1>3. n # 0 /\ n \in Open'
  BY <1>1, BatchParametersTyped
<1>4. \A m \in Open : m # n /\ m \in Numbers /\ records'[m] = records[m]
  BY <1>1 DEF OnlyRecord, Open
<1>5. \A y : SameAt(y)
  BY <1>1 DEF SameAt
<1>6. x \in view <=> x \in listed
  BY <1>1, EligibleAgrees
<1>7. \A m \in Open : records[m].item = x =>
        x \in NamedTwice /\ job.cmd # "sync" /\ records[m].op = job.cmd /\ Early(m)
  BY <1>1, EligibleTwin
<1>8. BatchTypeOK'
  BY <1>1 DEF BatchTypeOK, OnlyRecord
<1>9. DoingInv'
  <2>1. Current' = records'[n] /\ job'.step = "mutate"
    BY <1>1 DEF Current
  <2>2. CASE job.cmd = "add"
    <3>1. repo[x] = "regular" /\ x \notin canon /\ x \notin view /\ x \notin listed
      BY <1>1, <1>6, <2>2 DEF Eligible
    <3>2. AddIs("mutate", "RecordCreated", 1, FALSE)'
      BY <1>1, <1>2, <2>1, <3>1 DEF AddIs, AddAt
    <3>3. Current'.exclBefore => Current'.item \in hidden'
      BY <1>1, <1>2, <2>1
    <3>4. AddDoing'
      BY <3>2, <3>3 DEF AddDoing
    <3> QED BY <1>1, <1>2, <1>3, <2>1, <2>2, <3>4 DEF DoingInv, Doing
  <2>3. CASE job.cmd = "restore"
    <3>1. repo[x] \in {"link", "regular"} /\ x \in canon /\ x \in hidden /\ x \in view /\ x \in listed
      BY <1>1, <1>6, <2>3 DEF Eligible
    <3>2. \/ RestoreIs("mutate", "RecordCreated", 1, TRUE)'
          \/ RestoreIs("mutate", "RecordCreated", 2, TRUE)'
      BY <1>1, <1>2, <2>1, <3>1 DEF RestoreIs, RestoreAt
    <3>3. RestoreDoing'
      BY <3>2 DEF RestoreDoing
    <3> QED BY <1>1, <1>2, <1>3, <2>1, <2>3, <3>3 DEF DoingInv, Doing
  <2>4. CASE job.cmd = "sync"
    <3>1. repo[x] = "diverged" /\ x \in canon /\ x \in hidden /\ x \in view /\ x \in listed
      BY <1>1, <1>6, <2>4 DEF Eligible
    <3>2. SyncIs("mutate", "RecordCreated", 1)'
      BY <1>1, <1>2, <2>1, <3>1 DEF SyncIs, SyncAt
    <3>3. SyncDoing'
      BY <3>2 DEF SyncDoing
    <3> QED BY <1>1, <1>2, <1>3, <2>1, <2>4, <3>3 DEF DoingInv, Doing
  <2> QED BY <1>1, <2>2, <2>3, <2>4 DEF Operations
<1>10. JobInv'
  <2>1. \A m \in Open' : records'[m].op = job'.cmd
    BY <1>1, <1>2, <1>4 DEF JobInv
  <2>2. ASSUME job.cmd \in {"add", "restore"} PROVE OnLine'
    <3>1. OnLine
      BY <1>1, <2>2 DEF JobInv
    <3>2. PICK line \in Lines, i \in Nat :
            /\ i + Len(job.todo) = Len(line)
            /\ \A m \in 1..Len(job.todo) : job.todo[m] = line[i + m]
            /\ \A y \in job.left : i # 0 /\ y \in line[i].items
            /\ \A m \in Open : \E j \in 1..i : /\ records[m].item \in line[j].items
                                               /\ records[m].item \in job.left => j < i
      BY <3>1 DEF OnLine
    <3>3. i \in 1..i /\ x \in line[i].items /\ x \notin job'.left
      BY <1>1, <3>2
    <3>4. ASSUME NEW m \in Open'
          PROVE  \E j \in 1..i : /\ records'[m].item \in line[j].items
                                 /\ records'[m].item \in job'.left => j < i
      <4>1. CASE m = n
        BY <1>2, <3>3, <4>1
      <4>2. CASE m \in Open
        BY <1>1, <1>4, <3>2, <4>2
      <4> QED BY <1>1, <4>1, <4>2
    <3>5. \A y \in job'.left : i # 0 /\ y \in line[i].items
      BY <1>1, <3>2
    <3>6. /\ i + Len(job'.todo) = Len(line)
          /\ \A m \in 1..Len(job'.todo) : job'.todo[m] = line[i + m]
      BY <1>1, <3>2
    <3> QED BY <3>4, <3>5, <3>6 DEF OnLine
  <2>3. job.cmd = "sync" => job'.todo = <<>> /\ \A m \in Open' : records'[m].item \notin job'.left
    BY <1>1, <1>2, <1>4 DEF JobInv
  <2>4. job'.cmd \notin DOMAIN Conversions
    BY <1>1 DEF Operations, Conversions
  <2> QED BY <1>1, <2>1, <2>2, <2>3, <2>4 DEF JobInv
<1>11. ViewInv'
  <2>1. \A m \in Open : Ahead(m) => Ahead(m)'
    BY <1>1, <1>4 DEF Ahead, AddAt, RestoreAt
  <2> QED BY <1>1, <1>4, <2>1 DEF ViewInv
<1>12. TwinsInv'
  <2>1. SUFFICES ASSUME NEW a \in Open', NEW b \in Open', a # b, records'[a].item = records'[b].item
                 PROVE  /\ records'[a].item \in NamedTwice
                        /\ records'[a].op = records'[b].op
                        /\ records'[a].op # "sync"
                        /\ records'[b].phase = "PostCommitValidated" => Early(a)'
                        /\ Early(a)' \/ Early(b)'
                        /\ b = n => Early(a)'
    BY <1>1 DEF TwinsInv, NamedTwice
  <2>2. CASE b = n
    <3>1. a \in Open /\ records'[a] = records[a] /\ records[a].item = x
      BY <1>1, <1>2, <1>4, <2>1, <2>2
    <3>2. Early(a)'
      BY <1>7, <3>1, StillEarly
    <3> QED BY <1>2, <1>7, <2>2, <3>1, <3>2
  <2>3. CASE a = n
    <3>1. b \in Open /\ records'[b] = records[b] /\ records[b].item = x
      BY <1>1, <1>2, <1>4, <2>1, <2>3
    <3>2. job.cmd \in {"add", "restore"}
      BY <1>1, <1>7, <3>1 DEF Operations
    <3>3. Early(a)'
      BY <1>2, <2>3, <3>2 DEF Early
    <3> QED BY <1>2, <1>7, <2>1, <2>3, <3>1, <3>3
  <2>4. CASE a # n /\ b # n
    <3>1. a \in Open /\ b \in Open /\ records'[a] = records[a] /\ records'[b] = records[b]
      BY <1>1, <1>4, <2>4
    <3> QED BY <1>1, <2>1, <2>4, <3>1, StillEarly DEF TwinsInv
  <2> QED BY <2>2, <2>3, <2>4
<1>13. RecordsInv'
  <2>1. SUFFICES ASSUME NEW m \in Open PROVE Fits(m)' \/ Overtaken(m)'
    BY <1>1 DEF RecordsInv
  <2>2. records'[m] = records[m] /\ SameAt(records[m].item)
    BY <1>4, <1>5
  <2>3. CASE Fits(m)
    BY <2>2, <2>3, StillFits
  <2>4. CASE Overtaken(m)
    <3>1. Settled(records[m].item) \/ \E k \in Open' \ {m} : records'[k].item = records[m].item
      BY <1>1, <1>4, <2>4, TakenTwiceMeans DEF Overtaken
    <3>2. \A z \in {records[m].item} : Settled(z)' <=> Settled(z)
      BY <2>2, StillSettled
    <3>3. TakenTwice(m)'
      BY <2>2, <2>4, <3>1, <3>2, TakenTwiceMeans DEF Overtaken
    <3> QED BY <1>1, <2>2, <2>4, <3>3, StillEarly DEF Overtaken
  <2> QED BY <2>3, <2>4, AllFit
<1>14. UnsettledHasRecord'
  <2>1. SUFFICES ASSUME NEW y \in Items PROVE Settled(y)' \/ \E m \in Open' : records'[m].item = y
    BY UnsettledMeans
  <2>2. Settled(y) \/ \E m \in Open : records[m].item = y
    BY UnsettledMeans
  <2> QED BY <1>1, <1>4, <1>5, <2>2, StillSettled
<1> QED BY <1>8, <1>9, <1>10, <1>11, <1>12, <1>13, <1>14

(* A plan that is refused keeps the invariant. *)
LEMMA RefuseItemKeeps ==
  ASSUME BatchInv, NEW x \in Items, RefuseItem(x)
  PROVE  BatchInv'
<1>1. /\ job # NoJob /\ job.step = "next" /\ job \in BatchJobs /\ job.num = 0
      /\ UNCHANGED <<places, records>>
  BY DEF RefuseItem, BatchInv, BatchTypeOK, DoingInv
<1>2. CASE Leave
  BY <1>1, <1>2, LeaveKeeps
<1>3. CASE job' = [job EXCEPT !.left = @ \ {x}] /\ UNCHANGED view
  <2>1. /\ job' \in BatchJobs /\ job'.num = 0 /\ job'.step = "next" /\ job'.left \subseteq job.left
        /\ job'.cmd = job.cmd /\ job'.todo = job.todo
    BY <1>1, <1>3 DEF BatchJobs
  <2>2. Open' = Open /\ UNCHANGED <<listed, canon, hidden, records>>
    BY <1>1 DEF Open, places
  <2>3. OnLine => OnLine'
    BY <2>1, <2>2 DEF OnLine
  <2>4. JobInv'
    BY <1>1, <2>1, <2>2, <2>3 DEF JobInv, BatchInv
  <2> QED BY <1>1, <1>3, <2>1, <2>4, BetweenKeeps
<1> QED BY <1>2, <1>3 DEF RefuseItem

(* A call that fails keeps the invariant. *)
LEMMA FailKeeps ==
  ASSUME BatchInv, Fail
  PROVE  BatchInv'
<1>1. job # NoJob /\ job \in BatchJobs /\ UNCHANGED <<places, records>>
  BY DEF Fail, BatchInv, BatchTypeOK
<1>2. CASE Leave
  BY <1>1, <1>2, LeaveKeeps
<1>3. CASE job' = [job EXCEPT !.num = 0, !.step = "next"] /\ UNCHANGED view
  <2>1. /\ job' \in BatchJobs /\ job'.num = 0 /\ job'.step = "next" /\ job'.left = job.left
        /\ job'.cmd = job.cmd /\ job'.todo = job.todo
    BY <1>1, <1>3 DEF BatchJobs
  <2>2. Open' = Open /\ UNCHANGED <<listed, canon, hidden, records>>
    BY <1>1 DEF Open, places
  <2>3. OnLine => OnLine'
    BY <2>1, <2>2 DEF OnLine
  <2>4. JobInv'
    BY <1>1, <2>1, <2>2, <2>3 DEF JobInv, BatchInv
  <2> QED BY <1>1, <1>3, <2>1, <2>4, BetweenKeeps
<1> QED BY <1>2, <1>3 DEF Fail

(***************************************************************************)
(* The command line                                                        *)
(***************************************************************************)

(* Going on to the next target, or leaving after the last, keeps the invariant. *)
LEMMA NextTargetKeeps ==
  ASSUME BatchInv, NextTarget
  PROVE  BatchInv'
<1> USE DEF BatchInv
<1> DEFINE target == Head(job.todo)
           members == IF ~target.lenient THEN target.items
                      ELSE IF job.cmd = "add"
                      THEN {x \in Candidates(target) : Eligible("add", x)}
                      ELSE target.items \cap view
<1>1. /\ job # NoJob /\ job \in BatchJobs /\ job.step = "next" /\ job.num = 0 /\ job.left = {}
      /\ UNCHANGED <<places, records>>
  BY DEF NextTarget, BatchTypeOK, DoingInv
<1>2. CASE Leave
  BY <1>1, <1>2, LeaveKeeps
<1>3. CASE /\ job.todo # <<>> /\ UNCHANGED view
           /\ job' = [job EXCEPT !.todo = Tail(@), !.lenient = target.lenient, !.left = members]
  <2>1. job.cmd \in {"add", "restore"}
    <3>1. job.cmd \in Operations \cup DOMAIN Conversions
      BY <1>1 DEF BatchJobs
    <3> QED BY <1>1, <1>3, <3>1 DEF JobInv, Operations
  <2>2. job.todo \in Seq(TargetKinds)
    BY <1>1 DEF BatchJobs
  <2>3. /\ target \in TargetKinds /\ Tail(job.todo) \in Seq(TargetKinds)
        /\ target = job.todo[1] /\ Len(job.todo) \in Nat /\ Len(job.todo) # 0
        /\ Len(Tail(job.todo)) = Len(job.todo) - 1
        /\ \A m \in 1..Len(Tail(job.todo)) : Tail(job.todo)[m] = job.todo[m + 1]
    BY <1>3, <2>2
  <2>4. members \subseteq target.items /\ members \subseteq Items /\ target.lenient \in BOOLEAN
    BY <2>3 DEF TargetKinds, Candidates
  <2> HIDE DEF target, members
  <2>5. job' \in BatchJobs
    BY <1>1, <1>3, <2>3, <2>4 DEF BatchJobs
  <2>6. /\ job'.num = 0 /\ job'.step = "next" /\ job'.left = members
        /\ job'.cmd = job.cmd /\ job'.todo = Tail(job.todo)
    BY <1>1, <1>3 DEF BatchJobs
  <2>7. Open' = Open /\ UNCHANGED <<listed, canon, hidden, records>>
    BY <1>1 DEF Open, places
  <2>8. OnLine'
    <3>1. OnLine
      BY <1>1, <2>1 DEF JobInv
    <3>2. PICK line \in Lines, i \in Nat :
            /\ i + Len(job.todo) = Len(line)
            /\ \A m \in 1..Len(job.todo) : job.todo[m] = line[i + m]
            /\ \A n \in Open : \E j \in 1..i : records[n].item \in line[j].items
      BY <3>1 DEF OnLine
    <3>3. i + 1 \in Nat /\ i + 1 # 0
      OBVIOUS
    <3>4. (i + 1) + Len(job'.todo) = Len(line)
      <4>1. Len(job'.todo) = Len(job.todo) - 1 /\ Len(line) = i + Len(job.todo)
        BY <2>3, <2>6, <3>2
      <4>2. \A a \in Nat : (i + 1) + (a - 1) = i + a
        OBVIOUS
      <4> QED BY <2>3, <4>1, <4>2
    <3>5. \A m \in 1..Len(job'.todo) : job'.todo[m] = line[(i + 1) + m]
      <4>1. SUFFICES ASSUME NEW m \in 1..Len(Tail(job.todo))
                     PROVE  Tail(job.todo)[m] = line[(i + 1) + m]
        BY <2>6
      <4>2. m + 1 \in 1..Len(job.todo) /\ i + (m + 1) = (i + 1) + m
        BY <2>3
      <4> QED BY <2>3, <3>2, <4>2
    <3>6. \A y \in job'.left : y \in line[i + 1].items
      <4>1. job.todo[1] = line[i + 1]
        BY <2>3, <3>2
      <4> QED BY <2>3, <2>4, <2>6, <4>1
    <3>7. \A n \in Open' : \E j \in 1..(i + 1) : /\ records'[n].item \in line[j].items
                                                 /\ records'[n].item \in job'.left => j < i + 1
      <4>1. SUFFICES ASSUME NEW n \in Open
                     PROVE  \E j \in 1..(i + 1) : records[n].item \in line[j].items /\ j < i + 1
        BY <2>7
      <4>2. PICK j \in 1..i : records[n].item \in line[j].items
        BY <3>2
      <4>3. j \in 1..(i + 1) /\ j < i + 1
        OBVIOUS
      <4> QED BY <4>2, <4>3
    <3> QED BY <3>3, <3>4, <3>5, <3>6, <3>7 DEF OnLine
  <2>9. JobInv'
    BY <1>1, <2>1, <2>6, <2>7, <2>8 DEF JobInv, Conversions
  <2> QED BY <1>1, <1>3, <2>5, <2>6, <2>9, BetweenKeeps
<1> QED BY <1>2, <1>3 DEF NextTarget

(* A command that begins keeps the invariant if it keeps what is said of its targets. *)
LEMMA BeginKeeps ==
  ASSUME BatchInv, NEW cmd \in Operations \cup DOMAIN Conversions, NEW line \in Seq(TargetKinds),
         NEW left \in SUBSET Items, BeginBatch(cmd, line, left),
         cmd \in {"add", "restore"} => line \in Lines /\ left = {},
         cmd \notin {"add", "restore"} => line = <<>>,
         cmd \in DOMAIN Conversions => left \subseteq listed \cap canon \cap hidden
  PROVE  BatchInv'
<1> USE DEF BatchInv
<1>1. /\ job = NoJob /\ Open = {} /\ view' = listed
      /\ job' = [cmd |-> cmd, todo |-> line, left |-> left, lenient |-> FALSE, num |-> 0,
                 step |-> "next"]
      /\ UNCHANGED <<repo, canon, hidden, listed, records>>
  BY DEF BeginBatch, places
<1>2. job' \in BatchJobs
  BY <1>1 DEF BatchJobs
<1>3. /\ job' # NoJob /\ job'.num = 0 /\ job'.step = "next" /\ job'.left = left
      /\ job'.cmd = cmd /\ job'.todo = line
  BY <1>1, <1>2, BatchDistinct
<1>4. Open' = {}
  BY <1>1 DEF Open
<1>5. BatchTypeOK'
  BY <1>1, <1>2 DEF BatchTypeOK
<1>6. DoingInv' /\ ViewInv' /\ TwinsInv' /\ RecordsInv'
  BY <1>1, <1>3, <1>4 DEF DoingInv, ViewInv, TwinsInv, RecordsInv
<1>7. cmd \in {"add", "restore"} => OnLine'
  <2>1. SUFFICES ASSUME cmd \in {"add", "restore"} PROVE OnLine'
    OBVIOUS
  <2>2. line \in Lines /\ left = {} /\ Len(line) \in Nat
    BY <2>1
  <2>3. 0 + Len(job'.todo) = Len(line) /\ \A m \in 1..Len(job'.todo) : job'.todo[m] = line[0 + m]
    BY <1>3, <2>2
  <2> QED BY <1>3, <1>4, <2>2, <2>3 DEF OnLine
<1>8. JobInv'
  BY <1>1, <1>3, <1>4, <1>7 DEF JobInv, Conversions
<1>9. UnsettledHasRecord'
  <2>1. \A y \in Items : Settled(y)
    BY <1>1, UnsettledMeans
  <2>2. \A y \in Items : SameAt(y)
    BY <1>1 DEF SameAt
  <2> QED BY <2>1, <2>2, StillSettled, UnsettledMeans
<1> QED BY <1>5, <1>6, <1>8, <1>9

(* Each command keeps the invariant when it begins. *)
LEMMA BeginsKeep ==
  ASSUME BatchInv,
         \/ \E cmd \in Operations, line \in Lines : BeginLine(cmd, line)
         \/ BeginSync
         \/ \E cmd \in DOMAIN Conversions : BeginMaterialize(cmd)
  PROVE  BatchInv'
<1>1. <<>> \in Seq(TargetKinds) /\ Lines \subseteq Seq(TargetKinds)
  BY BatchParametersTyped
<1>2. listed \subseteq Items
  BY DEF BatchInv, BatchTypeOK
<1>3. ASSUME NEW cmd \in Operations, NEW line \in Lines, BeginLine(cmd, line) PROVE BatchInv'
  <2>1. cmd \in {"add", "restore"} /\ BeginBatch(cmd, line, {})
    BY <1>3 DEF BeginLine
  <2>2. cmd \notin DOMAIN Conversions
    BY <2>1 DEF Conversions
  <2> QED BY <1>1, <2>1, <2>2, BeginKeeps
<1>4. CASE BeginSync
  <2> DEFINE left == {x \in listed : repo[x] = "diverged"}
  <2>1. BeginBatch("sync", <<>>, left) /\ left \in SUBSET Items
    BY <1>2, <1>4 DEF BeginSync
  <2>2. "sync" \in Operations /\ "sync" \notin DOMAIN Conversions
    BY DEF Operations, Conversions
  <2> HIDE DEF left
  <2> QED BY <1>1, <2>1, <2>2, BeginKeeps
<1>5. ASSUME NEW cmd \in DOMAIN Conversions, BeginMaterialize(cmd) PROVE BatchInv'
  <2> DEFINE left == {x \in listed : Convertible(cmd, x)}
  <2>1. BeginBatch(cmd, <<>>, left) /\ left \in SUBSET Items
        /\ left \subseteq listed \cap canon \cap hidden
    BY <1>2, <1>5 DEF BeginMaterialize, ConvertPlanned
  <2>2. cmd \notin {"add", "restore"}
    BY DEF Conversions
  <2> HIDE DEF left
  <2> QED BY <1>1, <2>1, <2>2, BeginKeeps
<1> QED BY <1>3, <1>4, <1>5

(* Replacing an entry by a link or a copy keeps the invariant: the item stays on the
   shelf. *)
LEMMA ConvertItemKeeps ==
  ASSUME BatchInv, NEW x \in Items, ConvertItem(x)
  PROVE  BatchInv'
<1> USE DEF BatchInv
<1>1. /\ job # NoJob /\ job \in BatchJobs /\ job.cmd \in DOMAIN Conversions /\ x \in job.left
      /\ repo' = [repo EXCEPT ![x] = Conversions[job.cmd]]
      /\ job' = [job EXCEPT !.left = @ \ {x}]
      /\ UNCHANGED <<canon, hidden, listed, view, records>>
  BY DEF ConvertItem, BatchTypeOK
<1>2. Conversions[job.cmd] \in {"link", "regular"}
  BY <1>1 DEF Conversions
<1>3. /\ Open = {} /\ Open' = {} /\ job.todo = <<>>
      /\ job.left \subseteq listed \cap canon \cap hidden
  BY <1>1 DEF JobInv, Open
<1>4. /\ job' \in BatchJobs /\ job' # NoJob /\ job'.num = job.num /\ job'.step = job.step
      /\ job'.left = job.left \ {x} /\ job'.cmd = job.cmd /\ job'.todo = job.todo
  BY <1>1, BatchDistinct DEF BatchJobs
<1>5. BatchTypeOK'
  BY <1>1, <1>2, <1>4 DEF BatchTypeOK
<1>6. DoingInv'
  BY <1>1, <1>3, <1>4 DEF DoingInv
<1>7. JobInv'
  BY <1>1, <1>3, <1>4 DEF JobInv, Conversions
<1>8. ViewInv' /\ TwinsInv' /\ RecordsInv'
  BY <1>1, <1>3 DEF ViewInv, TwinsInv, RecordsInv
<1>9. UnsettledHasRecord'
  <2>1. SUFFICES ASSUME NEW y \in Items PROVE Settled(y)'
    BY UnsettledMeans
  <2>2. CASE y = x
    <3>1. repo'[x] = Conversions[job.cmd] /\ x \in canon' \cap listed' \cap hidden'
      BY <1>1, <1>3 DEF BatchTypeOK
    <3> QED BY <1>2, <2>2, <3>1 DEF Settled, Shelved
  <2>3. CASE y # x
    <3>1. SameAt(y)
      BY <1>1, <2>3 DEF SameAt, BatchTypeOK
    <3> QED BY <1>3, <3>1, StillSettled, UnsettledMeans
  <2> QED BY <2>2, <2>3
<1> QED BY <1>5, <1>6, <1>7, <1>8, <1>9

(***************************************************************************)
(* The theorems                                                            *)
(***************************************************************************)

(* The invariant holds at first. *)
LEMMA BatchStarts ==
  ASSUME Init
  PROVE  BatchInv
<1>1. Open = {}
  BY DEF Init, Open
<1>2. BatchTypeOK
  BY DEF Init, BatchTypeOK
<1>3. UnsettledHasRecord
  BY DEF Init, UnsettledHasRecord, Unshelved, Shelved
<1> QED BY <1>1, <1>2, <1>3
        DEF Init, BatchInv, DoingInv, JobInv, ViewInv, TwinsInv, RecordsInv

(* A step in which nothing happens. *)
LEMMA NothingKeeps ==
  ASSUME BatchInv, UNCHANGED vars
  PROVE  BatchInv'
<1> USE DEF BatchInv
<1>1. UNCHANGED <<places, records>> /\ UNCHANGED <<repo, canon, hidden, listed, view, records, job>>
  BY DEF vars, places
<1>2. BatchTypeOK' /\ JobInv'
  BY <1>1 DEF BatchTypeOK, JobInv, OnLine, Open
<1>3. DoingInv'
  BY <1>1 DEF DoingInv, Doing, AddDoing, AddIs, AddAt, RestoreDoing, RestoreIs, RestoreAt,
              SyncDoing, SyncIs, SyncAt, Current, Open
<1>4. ViewInv'
  BY <1>1, AllStill DEF ViewInv, Ahead, AddAt, RestoreAt
<1>5. TwinsInv'
  BY <1>1, AllStill DEF TwinsInv, NamedTwice
<1>6. RecordsInv'
  <2>1. SUFFICES ASSUME NEW n \in Open PROVE Fits(n)' \/ Overtaken(n)'
    BY <1>1, AllStill DEF RecordsInv
  <2> QED BY <1>1, AllFit, AllStill DEF Overtaken
<1>7. UnsettledHasRecord'
  BY <1>1, AllStill
<1> QED BY <1>2, <1>3, <1>4, <1>5, <1>6, <1>7

(* In every state of every command on several items: the item at work stands at one of
   the places its command brings it to, failed items are where their records say or
   were taken up again, and the manifest in memory differs from the one on disk only at
   items whose record waits for the save (add_directory, restore_namespace and
   execute_repo_sync with their executors, and recover_pending_records). *)
THEOREM BatchInvariant == BatchSpec => []BatchInv
<1>1. Init => BatchInv
  BY BatchStarts
<1>2. BatchInv /\ [Next]_vars => BatchInv'
  <2>1. SUFFICES ASSUME BatchInv, [Next]_vars PROVE BatchInv'
    OBVIOUS
  <2>2. CASE \/ \E cmd \in Operations, line \in Lines : BeginLine(cmd, line)
             \/ BeginSync
             \/ \E cmd \in DOMAIN Conversions : BeginMaterialize(cmd)
    BY <2>1, <2>2, BeginsKeep
  <2>3. CASE NextTarget
    BY <2>1, <2>3, NextTargetKeeps
  <2>4. ASSUME NEW x \in Items, NextItem(x) \/ RefuseItem(x) \/ ConvertItem(x) PROVE BatchInv'
    BY <2>1, <2>4, NextItemKeeps, RefuseItemKeeps, ConvertItemKeeps
  <2>5. CASE Mutate \/ SaveView \/ IdentifyBackup \/ Advance \/ DropRecord
    BY <2>1, <2>5, MutateKeeps, SaveKeeps, IdentifyKeeps, AdvanceKeeps, DropKeeps
  <2>6. CASE Fail
    BY <2>1, <2>6, FailKeeps
  <2>7. CASE Die
    BY <2>1, <2>7, LeaveKeeps DEF Die
  <2>8. CASE Recover
    BY <2>1, <2>8, RecoverKeeps
  <2>9. CASE UNCHANGED vars
    BY <2>1, <2>9, NothingKeeps
  <2> QED BY <2>1, <2>2, <2>3, <2>4, <2>5, <2>6, <2>7, <2>8, <2>9 DEF Next
<1> QED BY <1>1, <1>2, PTL DEF BatchSpec

(* The model's values stay in their types. *)
THEOREM BatchTypeCorrect == BatchSpec => []BatchTypeOK
<1>1. BatchInv => BatchTypeOK
  BY DEF BatchInv
<1> QED BY <1>1, BatchInvariant, PTL

(* An item is on the shelf in every place, or in none, or has a record waiting: for
   every sequence of targets, every number of items that failed before, and whatever
   manifest the command has been changing in memory since its start (add_directory and
   restore_namespace, which go on after an error). *)
THEOREM UnsettledHasRecordHolds == BatchSpec => []UnsettledHasRecord
<1>1. BatchInv => UnsettledHasRecord
  BY DEF BatchInv
<1> QED BY <1>1, BatchInvariant, PTL

(* Recovery refuses a record that is left only in the two windows of a restore, or for
   an item the command took up again after it had failed on it: failed items do not
   spoil each other's recovery (recover_pending_records over the records that
   add_directory and restore_namespace leave). *)
THEOREM BatchStopsOnlyInWindows == BatchSpec => []BatchStuckOnlyInWindows
<1>1. BatchInv => BatchStuckOnlyInWindows
  <2>1. SUFFICES ASSUME BatchInv, job = NoJob, NEW n \in Open, Refused(records[n])
                 PROVE  InBatchWindow(records[n]) \/ TakenTwice(n)
    BY DEF BatchStuckOnlyInWindows
  <2> DEFINE r == records[n]
  <2>2. /\ BatchTypeOK /\ r \in BatchRecords /\ r.op \in {"add", "restore", "sync"}
        /\ r.phase # "PostCommitValidated"
    BY <2>1, OpenRecords DEF BatchInv, Operations, Refused
  <2>3. \/ DecisionOf(r).kind = "conflict"
        \/ DecisionOf(r) = Perform("DeleteBackupAndComplete") /\ r.backup = "made"
    BY <2>1 DEF Refused, Perform
  <2>4. CASE Overtaken(n)
    BY <2>4 DEF Overtaken
  <2>5. CASE Fits(n)
    <3>1. CASE r.op = "add"
      BY <2>2, <2>3, <2>5, <3>1, AddDecides DEF Fits, Perform, Advances
    <3>2. CASE r.op = "restore"
      BY <2>2, <2>3, <2>5, <3>2, RestoreDecides DEF Fits, Perform, Advances, InBatchWindow
    <3>3. CASE r.op = "sync"
      BY <2>2, <2>3, <2>5, <3>3, SyncDecides DEF Fits, Perform, Advances
    <3> QED BY <2>2, <3>1, <3>2, <3>3
  <2> QED BY <2>1, <2>4, <2>5, AllFit
<1> QED BY <1>1, BatchInvariant, PTL
=============================================================================
