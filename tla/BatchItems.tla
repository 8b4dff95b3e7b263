----------------------------- MODULE BatchItems -----------------------------
(***************************************************************************)
(* Commands that work on many items under one lock: item add of            *)
(* directories, item restore of namespaces, repo sync and repo materialize.*)
(* Recovery has run once before, and does not run again between two items; *)
(* the manifest is the one the command read at its start and goes on       *)
(* changing in memory.  A directory or a namespace goes on after an item   *)
(* that failed and leaves its record behind, a path of its own and the     *)
(* commands on the whole repository stop there.                            *)
(*                                                                         *)
(* What Shelf and CopyItem show of one item is coarser here: contents only *)
(* differ or do not, and recovery performs an action and its phase update  *)
(* in one step.                                                            *)
(***************************************************************************)
EXTENDS RecoveryPolicy, FiniteSets

CONSTANTS
  Items,        \* item paths; numbers, in the order of their paths
  Lines,        \* command lines of add and restore: sequences of targets
  Numbers,      \* bound: numbers of records, in the order of creation
  NoRecord, NoJob

VARIABLES
  repo,      \* each working-tree entry: of an item, regular is an equal copy
  canon,     \* the items whose canonical file is there
  hidden,    \* the items whose exclude is there
  listed,    \* the items of the manifest on disk
  view,      \* the items of the manifest the running command has in memory
  records,   \* the operation records
  job        \* what the running command is at

places == <<repo, canon, hidden, listed>>
vars   == <<places, view, records, job>>

Operations == {"add", "restore", "sync"}

(* repo materialize, to what: it needs no operation record.                *)
Conversions == [tolink |-> "link", tocopy |-> "regular"]

BatchRows == [add |-> AddRows, restore |-> RestoreRows, sync |-> SyncRows]

(* The order of a table's rows is the order the phases are persisted in.   *)
PhaseAfter(op, phase) ==
  LET i == CHOOSE i \in DOMAIN BatchRows[op] : BatchRows[op][i].phase = phase
  IN  IF i = Len(BatchRows[op]) THEN "PostCommitValidated" ELSE BatchRows[op][i + 1].phase

BatchPhases(op) ==
  {BatchRows[op][i].phase : i \in DOMAIN BatchRows[op]} \cup {"PostCommitValidated"}

(* backup is the file recovery/<record id>.restore, and whether the record *)
(* has its identity.                                                       *)
BatchRecords ==
  UNION {[op : {op}, phase : BatchPhases(op), item : Items, exclBefore : BOOLEAN,
          backup : {"none", "made", "known"}] : op \in Operations}

(* A directory or namespace, or a path of its own.                         *)
TargetKinds == [items : SUBSET Items, lenient : BOOLEAN]

ASSUME BatchParametersTyped ==
  Numbers \subseteq Nat \ {0} /\ Lines \subseteq Seq(TargetKinds)

(* todo is what is left of the command line, left what is left of the      *)
(* target at work, num the record of the item at work, if any.             *)
BatchJobs ==
  [cmd : Operations \cup DOMAIN Conversions, todo : Seq(TargetKinds), left : SUBSET Items, lenient : BOOLEAN,
   num : Numbers \cup {0}, step : {"next", "mutate", "save", "identify", "advance", "drop"}]

ASSUME BatchDistinct == NoRecord \notin BatchRecords /\ NoJob \notin BatchJobs

BatchTypeOK ==
  /\ repo \in [Items -> {"regular", "missing", "link", "diverged"}]
  /\ canon \subseteq Items /\ hidden \subseteq Items
  /\ listed \subseteq Items /\ view \subseteq Items
  /\ records \in [Numbers -> BatchRecords \cup {NoRecord}]
  /\ job \in BatchJobs \cup {NoJob}

(* Files to add, items that are links or copies, and copies edited since.  *)
Init ==
  /\ repo \in [Items -> {"regular", "link", "diverged"}]
  /\ canon \in SUBSET Items /\ \A x \in Items \ canon : repo[x] = "regular"
  /\ hidden = canon /\ listed = canon /\ view = {}
  /\ records = [n \in Numbers |-> NoRecord]
  /\ job = NoJob

Open == {n \in Numbers : records[n] # NoRecord}

(***************************************************************************)
(* The command line                                                        *)
(***************************************************************************)

(* classify_directory_candidate and build_add_plan, ItemRestorePlan::build *)
(* with the excludes restore checks, build_sync_plan.                      *)
Eligible(cmd, x) ==
  CASE cmd = "add"     -> x \notin view \cup canon /\ repo[x] = "regular"
    [] cmd = "restore" -> x \in view \cap canon \cap hidden /\ repo[x] \in {"link", "regular"}
    [] cmd = "sync"    -> x \in view \cap canon \cap hidden /\ repo[x] = "diverged"

(* One invalid item rejects a whole repo sync.                             *)
SyncPlanned == listed \subseteq canon \cap hidden /\ \A x \in listed : repo[x] # "missing"

(* build_repo_materialize_plan refuses as one, too.  A diverged copy is a  *)
(* copy already (decide_materialize).                                      *)
ConvertPlanned(cmd) ==
  /\ listed \subseteq canon \cap hidden
  /\ \A x \in listed : repo[x] \in {"link", "regular"} \cup {e \in {"diverged"} : cmd = "tocopy"}

Convertible(cmd, x) == repo[x] \in {"link", "regular"} \ {Conversions[cmd]}

BeginBatch(cmd, line, left) ==
  /\ job = NoJob /\ Open = {}
  /\ view' = listed
  /\ job' = [cmd |-> cmd, todo |-> line, left |-> left, lenient |-> FALSE, num |-> 0,
             step |-> "next"]
  /\ UNCHANGED <<places, records>>

BeginLine(cmd, line) == cmd \in {"add", "restore"} /\ BeginBatch(cmd, line, {})

BeginSync ==
  SyncPlanned /\ BeginBatch("sync", <<>>, {x \in listed : repo[x] = "diverged"})

BeginMaterialize(cmd) ==
  ConvertPlanned(cmd) /\ BeginBatch(cmd, <<>>, {x \in listed : Convertible(cmd, x)})

Leave == job' = NoJob /\ view' = {}

(* collect_dir_candidates: the files and links there are, whoever owns them*)
Candidates(target) == {x \in target.items : repo[x] # "missing"}

(* The candidates of a directory and the members of a namespace are found  *)
(* when its turn comes; a namespace without any ends the command.          *)
NextTarget ==
  /\ job # NoJob /\ job.step = "next" /\ job.left = {}
  /\ IF job.todo = <<>> THEN Leave
     ELSE LET target == Head(job.todo)
              members == IF ~target.lenient THEN target.items
                         ELSE IF job.cmd = "add"
                         THEN {x \in Candidates(target) : Eligible("add", x)}
                         ELSE target.items \cap view
          IN  IF job.cmd = "restore" /\ members = {} THEN Leave
              ELSE /\ job' = [job EXCEPT !.todo = Tail(@), !.lenient = target.lenient,
                                !.left = members]
                   /\ UNCHANGED view
  /\ UNCHANGED <<places, records>>

(* Mutant: the item is put into the manifest in memory when it is planned. *)
NextItemListed(x) ==
  LET n == CHOOSE n \in Numbers \ Open : \A k \in Numbers \ Open : n <= k
  IN  /\ job # NoJob /\ job.step = "next" /\ x \in job.left /\ Open # Numbers
      /\ job.cmd \in Operations
      /\ Eligible(job.cmd, x)
      /\ records' = [records EXCEPT ![n] =
           [op |-> job.cmd, phase |-> "RecordCreated", item |-> x,
            exclBefore |-> x \in hidden, backup |-> "none"]]
      /\ view' = IF job.cmd = "add" THEN view \cup {x} ELSE view
      /\ job' = [job EXCEPT !.left = @ \ {x}, !.num = n, !.step = "mutate"]
      /\ UNCHANGED places

(* A directory is read in any order, a namespace in that of the manifest;  *)
(* repo sync goes by path.                                                 *)
NextItem(x) ==
  LET n == CHOOSE n \in Numbers : n \notin Open /\ \A k \in Numbers \ Open : n <= k
  IN  /\ job # NoJob /\ job.step = "next" /\ x \in job.left
      /\ job.cmd \in Operations
      /\ job.cmd = "sync" => \A y \in job.left : x <= y
      /\ Open # Numbers
      /\ Eligible(job.cmd, x)
      /\ records' = [records EXCEPT ![n] =
           [op |-> job.cmd, phase |-> "RecordCreated", item |-> x,
            exclBefore |-> x \in hidden, backup |-> "none"]]
      /\ job' = [job EXCEPT !.left = @ \ {x}, !.num = n, !.step = "mutate"]
      /\ UNCHANGED <<places, view>>

(* The plan of an item is refused: the next one, or the end.               *)
RefuseItem(x) ==
  /\ job # NoJob /\ job.step = "next" /\ x \in job.left
  /\ job.cmd \in Operations /\ ~Eligible(job.cmd, x)
  /\ IF job.lenient THEN job' = [job EXCEPT !.left = @ \ {x}] /\ UNCHANGED view
                    ELSE Leave
  /\ UNCHANGED <<places, records>>

(* execute_materialize_plan: one replacement, by path, of an entry that    *)
(* still is what the plan saw; a failure ends the command (Die).           *)
ConvertItem(x) ==
  /\ job # NoJob /\ job.cmd \in DOMAIN Conversions
  /\ x \in job.left /\ \A y \in job.left : x <= y
  /\ Convertible(job.cmd, x)
  /\ repo' = [repo EXCEPT ![x] = Conversions[job.cmd]]
  /\ job' = [job EXCEPT !.left = @ \ {x}]
  /\ UNCHANGED <<canon, hidden, listed, view, records>>

(***************************************************************************)
(* One item                                                                *)
(***************************************************************************)
At(step) == job # NoJob /\ job.step = step /\ job.num # 0

Current == records[job.num]

(* What a command does in a phase.                                         *)
Mutations ==
  [add     |-> [RecordCreated    |-> "Hide",       ExcludeWritten   |-> "Transfer",
                StoreTransferred |-> "Show",       RepoMaterialized |-> "List",
                ManifestSaved    |-> "Validate"],
   restore |-> [RecordCreated    |-> "Regularize", RepoRegularized  |-> "Stage",
                StoreStaged      |-> "Unlist",     ManifestRemoved  |-> "Unhide",
                ExcludeUpdated   |-> "DropBackup"],
   sync    |-> [RecordCreated    |-> "Regularize", ContentSynchronized |-> "Validate"]]

(* The working tree, the canonical files and the excludes.                 *)
Apply(mutation, x) ==
  /\ repo' = CASE mutation = "Transfer"   -> [repo EXCEPT ![x] = "missing"]
               [] mutation = "Show"       -> [repo EXCEPT ![x] = "link"]
               [] mutation = "Regularize" -> [repo EXCEPT ![x] = "regular"]
               [] OTHER                   -> repo
  /\ canon' = CASE mutation = "Transfer" -> canon \cup {x}
                [] mutation = "Stage"    -> canon \ {x}
                [] OTHER                 -> canon
  /\ hidden' = CASE mutation = "Hide"   -> hidden \cup {x}
                 [] mutation = "Unhide" -> hidden \ {x}
                 [] OTHER               -> hidden

BackupAfter(mutation, backup) ==
  CASE mutation = "Stage" -> "made" [] mutation = "DropBackup" -> "none" [] OTHER -> backup

Mutate ==
  /\ At("mutate")
  /\ LET mutation == Mutations[Current.op][Current.phase]
         x == Current.item
     IN  /\ Apply(mutation, x)
         /\ records' = [records EXCEPT ![job.num].backup = BackupAfter(mutation, @)]
         /\ view' = CASE mutation = "List"   -> view \cup {x}
                      [] mutation = "Unlist" -> view \ {x}
                      [] OTHER               -> view
         /\ job' = [job EXCEPT !.step = CASE mutation \in {"List", "Unlist"} -> "save"
                                          [] mutation = "Stage" -> "identify"
                                          [] OTHER -> "advance"]
  /\ UNCHANGED listed

(* manifest::save of the manifest in memory, with whatever earlier items   *)
(* have left in it.                                                        *)
SaveView ==
  /\ At("save")
  /\ listed' = view
  /\ job' = [job EXCEPT !.step = "advance"]
  /\ UNCHANGED <<repo, canon, hidden, view, records>>

IdentifyBackup ==
  /\ At("identify")
  /\ records' = [records EXCEPT ![job.num].backup = "known"]
  /\ job' = [job EXCEPT !.step = "advance"]
  /\ UNCHANGED <<places, view>>

Advance ==
  /\ At("advance")
  /\ LET next == PhaseAfter(Current.op, Current.phase)
     IN  /\ records' = [records EXCEPT ![job.num].phase = next]
         /\ job' = [job EXCEPT !.step = IF next = "PostCommitValidated" THEN "drop" ELSE "mutate"]
  /\ UNCHANGED <<places, view>>

DropRecord ==
  /\ At("drop")
  /\ records' = [records EXCEPT ![job.num] = NoRecord]
  /\ job' = [job EXCEPT !.num = 0, !.step = "next"]
  /\ UNCHANGED <<places, view>>

(* Mutant: an item that fails takes its record with it.                    *)
FailAndForget ==
  /\ job # NoJob /\ job.num # 0
  /\ records' = [records EXCEPT ![job.num] = NoRecord]
  /\ IF job.lenient THEN job' = [job EXCEPT !.num = 0, !.step = "next"] /\ UNCHANGED view
                    ELSE Leave
  /\ UNCHANGED places

(* Any call fails: the record stays, and so does the manifest in memory.   *)
Fail ==
  /\ job # NoJob /\ job.num # 0
  /\ IF job.lenient THEN job' = [job EXCEPT !.num = 0, !.step = "next"] /\ UNCHANGED view
                    ELSE Leave
  /\ UNCHANGED <<places, records>>

Die ==
  /\ job # NoJob
  /\ Leave
  /\ UNCHANGED <<places, records>>

(***************************************************************************)
(* Recovery                                                                *)
(***************************************************************************)
AddFacts(r) ==
  LET x == r.item
  IN  << CASE repo[x] = "missing" -> "Missing"
           [] repo[x] = "link" /\ x \in canon -> "Materialized"
           [] repo[x] = "regular" /\ x \notin canon -> "Source"
           [] OTHER -> "Unexpected",
         IF x \in canon THEN "Source" ELSE "Missing",
         IF x \in listed THEN "Present" ELSE "Absent",
         IF r.phase = "RecordCreated" /\ (x \in hidden) = r.exclBefore THEN "BeforeState"
         ELSE IF x \in hidden THEN "Present" ELSE "Unexpected" >>

RestoreFacts(r) ==
  LET x == r.item
  IN  << CASE repo[x] = "link" -> "Original" [] repo[x] = "regular" -> "Regular"
           [] OTHER -> "Unexpected",
         CASE x \in canon /\ r.backup = "none" -> "CanonicalPresent"
           [] x \notin canon /\ r.backup # "none" -> "BackupPresent"
           [] OTHER -> "Unexpected",
         IF x \in listed THEN "Present" ELSE "Absent",
         IF x \in hidden THEN "BeforeState" ELSE "FinalState" >>

SyncFacts(r) == << IF repo[r.item] = "diverged" THEN "BeforeReplacement" ELSE "Synchronized" >>

FactsOf(r) ==
  CASE r.op = "add" -> AddFacts(r) [] r.op = "restore" -> RestoreFacts(r) [] r.op = "sync" -> SyncFacts(r)

DecisionOf(r) == DecideIn(BatchRows[r.op], r.phase, FactsOf(r))

MutationOf(action) ==
  CASE action = "MaterializeRepo"       -> "Show"
    [] action = "StageStoreIntoBackup"  -> "Stage"
    [] action = "ApplyKeepIgnorePolicy" -> "Unhide"
    [] OTHER                            -> "Validate"

(* The last rows: after them only the record is left to remove.            *)
Ending == {"DeleteRecordOnly", "RemoveOperationOwnedExclude",
           "VerifyPostconditionsAndComplete", "DeleteBackupAndComplete"}

(* cleanup_backup wants the identity.                                      *)
Refused(r) ==
  /\ r.phase # "PostCommitValidated"
  /\ \/ DecisionOf(r).kind = "conflict"
     \/ /\ DecisionOf(r) = [kind |-> "perform", name |-> "DeleteBackupAndComplete"]
        /\ r.backup = "made"

(* One decision for the oldest record.  A record it refuses ends recovery, *)
(* and with it the command.                                                *)
Recover ==
  /\ job = NoJob /\ Open # {}
  /\ LET n == CHOOSE n \in Open : \A k \in Open : n <= k
         r == records[n]
         x == r.item
         decision == DecisionOf(r)
     IN  /\ ~Refused(r)
         /\ IF r.phase = "PostCommitValidated"
            THEN records' = [records EXCEPT ![n] = NoRecord] /\ UNCHANGED places
            ELSE IF decision.kind = "advance"
            THEN records' = [records EXCEPT ![n].phase = decision.to] /\ UNCHANGED places
            ELSE /\ IF decision.name = "RemoveOperationOwnedExclude"
                    THEN /\ hidden' = IF r.exclBefore THEN hidden ELSE hidden \ {x}
                         /\ UNCHANGED <<repo, canon>>
                    ELSE Apply(MutationOf(decision.name), x)
                 /\ listed' = CASE decision.name = "SaveManifest"   -> listed \cup {x}
                                [] decision.name = "RemoveManifest" -> listed \ {x}
                                [] OTHER -> listed
                 /\ records' = [records EXCEPT ![n] =
                      IF decision.name \in Ending THEN NoRecord
                      ELSE [r EXCEPT !.phase = PhaseAfter(r.op, r.phase),
                              !.backup = IF decision.name = "StageStoreIntoBackup"
                                         THEN "known" ELSE @]]
  /\ UNCHANGED <<view, job>>

Next ==
  \/ \E cmd \in Operations, line \in Lines : BeginLine(cmd, line)
  \/ BeginSync
  \/ \E cmd \in DOMAIN Conversions : BeginMaterialize(cmd)
  \/ NextTarget
  \/ \E x \in Items : NextItem(x) \/ RefuseItem(x) \/ ConvertItem(x)
  \/ Mutate \/ SaveView \/ IdentifyBackup \/ Advance \/ DropRecord
  \/ Fail \/ Die \/ Recover

BatchSpec == Init /\ [][Next]_vars

(***************************************************************************)
(* Properties                                                              *)
(***************************************************************************)
Unshelved(x) == repo[x] = "regular" /\ x \notin canon \cup listed

Shelved(x) == repo[x] # "missing" /\ x \in canon \cap listed \cap hidden

(* An item is on the shelf in every place, or in none, or a record of it   *)
(* waits for recovery: however the command got there, over items that      *)
(* failed before, with a manifest it has been changing since its start.    *)
(* A failed item that left its half-done change in the manifest in memory  *)
(* has it saved together with the next item.                               *)
(* (add_directory and restore_namespace go on after an error.)             *)
UnsettledHasRecord ==
  \A x \in Items : Unshelved(x) \/ Shelved(x) \/ \E n \in Open : records[n].item = x

(* A restore that stopped between staging its backup and recording whose   *)
(* file it is, or between removing the backup and saying so.               *)
InBatchWindow(r) ==
  r.op = "restore" /\ r.phase = "ExcludeUpdated" /\ r.backup \in {"made", "none"}

(* The items some command line names twice: item add dir dir/file.         *)
NamedTwice ==
  {x \in Items : \E line \in Lines : \E i, k \in DOMAIN line :
                    i # k /\ x \in line[i].items \cap line[k].items}

(* The command came to such an item again after it had failed on it: a     *)
(* second record waits with this one, or the item is where the command was *)
(* to bring it, and the record of the first attempt fits it no longer.     *)
TakenTwice(n) ==
  LET x == records[n].item
  IN  /\ x \in NamedTwice
      /\ Unshelved(x) \/ Shelved(x) \/ \E k \in Open \ {n} : records[k].item = x

(* Items that failed and were left behind do not spoil each other's        *)
(* recovery: every record a command leaves can be carried to its end,      *)
(* whatever the command did and saved afterwards, but for the two windows  *)
(* a restore of one item has, and for an item the command took up twice.   *)
(* The window of a removed backup contradicts the documents                *)
(* (CompletedIsCleaned in Shelf).                                          *)
(* (add.rs: "Each candidate owns an independent durable add record.")      *)
BatchStuckOnlyInWindows ==
  job = NoJob => \A n \in Open : Refused(records[n]) => InBatchWindow(records[n]) \/ TakenTwice(n)
=============================================================================
