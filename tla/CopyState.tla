----------------------------- MODULE CopyState -----------------------------
(***************************************************************************)
(* One managed item and everything sync, relink, repair and materialize    *)
(* touch: the working-tree entry, the canonical file, the relink backup,   *)
(* ownership and exclude, the operation record, and the temporary file     *)
(* with the artifact record that answers for it.                           *)
(*                                                                         *)
(* A check of the operation and the commit it authorizes are two steps     *)
(* here, as they are two calls in the code: the user may act in between.   *)
(* The process dies between any two steps; rec, art and the files stay.    *)
(* Recovery leaves no record before a command starts, so one operation     *)
(* record and one artifact record are all there ever are.                  *)
(***************************************************************************)
EXTENDS RecoveryPolicy, FiniteSets

CONSTANTS
  Contents,     \* file contents, told apart by their fingerprint
  Empty,        \* the content of a temp nobody has written to yet
  Missing,      \* no directory entry
  Link,         \* a symlink to the item's canonical file
  Foreign,      \* a symlink to something else
  NoRecord,     \* no operation record is on disk
  NoArtifact,   \* no artifact record is on disk
  NoJob,        \* no command is running
  Commands,     \* the commands the user may run
  UserActs,     \* the things users and other programs do meanwhile
  MaxUserActs   \* bound: how many of them

ASSUME EntriesDistinct ==
  Cardinality({Empty, Missing, Link, Foreign}) = 4
    /\ {Empty, Missing, Link, Foreign} \cap Contents = {}

ASSUME ParametersTyped ==
  /\ Commands \subseteq {"sync", "relink", "attach", "repair", "integrate", "materialize"}
  /\ UserActs \subseteq {"edit", "replace", "delete", "track", "unexclude", "swap"}
  /\ MaxUserActs \in Nat

VARIABLES
  repo,      \* the working-tree entry
  store,     \* the canonical file
  backup,    \* recovery/<record id>.relink
  owner,     \* ownership_state of the item
  excl,      \* its entry is in the managed exclude block
  tracked,   \* it is in the Git index
  temp,      \* the file at the reserved temp path: data, and who created it
  tempExcl,  \* the temp path's entry is in the managed exclude block
  linkTemp,  \* a .shelfbox-link-*.tmp symlink is in the working tree
  art,       \* the artifact record
  rec,       \* the operation record
  job,       \* what the running process does
  pc,        \* its next step
  turns,     \* iteration of the recovery loop
  same,      \* the working-tree entry it inspected is still there
  acts,      \* how many user acts have happened
  unsaved,   \* ghost: contents written after a relink read the file it backs up
  raced      \* ghost: whether the user acted between a check and its commit

durable == <<repo, store, backup, owner, excl>>
journal == <<temp, tempExcl, linkTemp, art>>
process == <<job, pc, turns, same>>
user    == <<tracked, acts, unsaved>>
vars    == <<durable, journal, process, user, rec, raced>>

(* Mutant: the last phase update of a sync is not in the table.            *)
ShorterSync ==
  LET relink == [RecordCreated       |-> "ExcludeWritten",
                 ExcludeWritten      |-> "ContentSynchronized",
                 ContentSynchronized |-> "OwnershipAttached",
                 OwnershipAttached   |-> "PostCommitValidated"]
  IN  [sync |-> [RecordCreated |-> "ContentSynchronized"], relink |-> relink]

NextPhase ==
  [sync   |-> [RecordCreated       |-> "ContentSynchronized",
               ContentSynchronized |-> "PostCommitValidated"],
   relink |-> [RecordCreated       |-> "ExcludeWritten",
               ExcludeWritten      |-> "ContentSynchronized",
               ContentSynchronized |-> "OwnershipAttached",
               OwnershipAttached   |-> "PostCommitValidated"]]

CopyPhases(op) == DOMAIN NextPhase[op] \cup {"PostCommitValidated"}

Directions == {"FromStore", "FromRepo"}

CopyRecords ==
  UNION {[op : {op}, phase : CopyPhases(op), dir : Directions,
          repoFp : Contents, storeFp : Contents,
          exclBefore : BOOLEAN, backupKnown : BOOLEAN] : op \in DOMAIN NextPhase}

(* ArtifactRecord: created is the state Created with plaintext authorized, *)
(* ours whether the identity it names is that of the file we created.      *)
Artifacts == [side : {"repo", "store"}, created : BOOLEAN, verified : BOOLEAN,
              ours : BOOLEAN]

(* What a process is after: into is where its next file goes, found what   *)
(* its plan saw in the working tree.                                       *)
Jobs == [cmd : Commands \cup {"recover"}, strategy : {"symlink", "copy"},
         into : {"repo", "store", "backup"}, found : {"Missing", "Present"}]

(* OperationRecord::validate and ArtifactRecord::validate.  load_all       *)
(* refuses the whole directory for one record that fails them, and with it *)
(* every command.                                                          *)
ValidRecord(r) == r.op = "sync" => r.repoFp # r.storeFp /\ r.exclBefore

ValidArtifact(a) == a.verified => a.side = "repo"

ASSUME RecordsDistinct ==
  /\ NoRecord \notin CopyRecords
  /\ NoArtifact \notin Artifacts
  /\ NoJob \notin Jobs

(* A path without a file is no file.                                       *)
ASSUME TempsDistinct == Missing \notin [data : Contents \cup {Empty}, ours : BOOLEAN]

CopySteps ==
  {"idle", "exclude", "excluded", "stage", "reserve", "tempexclude", "verify", "create", "identify",
   "populate", "check", "commit", "linktemp", "backup", "inspect",
   "cleanfile", "cleanexclude", "cleanrecord", "persist", "post", "attach",
   "cleanbackup", "unexclude", "drop", "recover", "decide"}

CopyTypeOK ==
  /\ repo \in Contents \cup {Missing, Link, Foreign}
  /\ store \in Contents \cup {Missing}
  /\ backup \in Contents \cup {Missing}
  /\ owner \in {"attached", "detached"}
  /\ {excl, tracked, tempExcl, linkTemp, same} \subseteq BOOLEAN
  /\ temp \in {Missing} \cup [data : Contents \cup {Empty}, ours : BOOLEAN]
  /\ art \in {a \in Artifacts : ValidArtifact(a)} \cup {NoArtifact}
  /\ rec \in {r \in CopyRecords : ValidRecord(r)} \cup {NoRecord}
  /\ job \in Jobs \cup {NoJob}
  /\ pc \in CopySteps
  /\ turns \in 0..10
  /\ acts \in Nat
  /\ unsaved \subseteq Contents
  /\ raced \in {"no", "pending", "yes"}

(* An item after its add, possibly detached since, and whatever the user   *)
(* has made of its working-tree entry and exclude.                         *)
Init ==
  /\ repo \in Contents \cup {Missing, Link, Foreign}
  /\ store \in Contents
  /\ backup = Missing
  /\ owner \in {"attached", "detached"}
  /\ excl \in (IF owner = "attached" THEN {TRUE} ELSE BOOLEAN)
  /\ tracked = FALSE
  /\ temp = Missing /\ tempExcl = FALSE /\ linkTemp = FALSE
  /\ art = NoArtifact /\ rec = NoRecord
  /\ job = NoJob /\ pc = "idle" /\ turns = 0 /\ same = TRUE
  /\ acts = 0 /\ unsaved = {} /\ raced = "no"

(***************************************************************************)
(* Observations: Materializer::inspect and what the policies read of it    *)
(***************************************************************************)
RepoKind == CASE repo = Missing -> "Missing"
              [] repo = Link -> "ManagedSymlink"
              [] repo = Foreign -> "UnmanagedSymlink"
              [] OTHER -> "RegularFile"

(* CopyContentState, which only a regular file beside a canonical file has *)
CopyContent == IF RepoKind # "RegularFile" \/ store = Missing THEN "NotCompared"
               ELSE IF repo = store THEN "Equal" ELSE "Diverged"

DivergedCopy == CopyContent = "Diverged"

Healthy == store # Missing /\ (RepoKind = "ManagedSymlink" \/ CopyContent = "Equal")

Integrated == excl /\ ~tracked

Recovering == job # NoJob /\ job.cmd = "recover"

Running == pc # "idle"

At(step) == pc = step /\ job # NoJob

For(cmd, step) == At(step) /\ job.cmd = cmd

(***************************************************************************)
(* The process                                                             *)
(***************************************************************************)
Goto(step) == pc' = step /\ UNCHANGED <<job, turns, same>>

(* The next step with a fresh identity snapshot of the working-tree entry. *)
Inspected(step) == pc' = step /\ same' = TRUE /\ UNCHANGED <<job, turns>>

Exit == pc' = "idle" /\ job' = NoJob /\ turns' = 0 /\ same' = TRUE

(* No command starts before recovery has removed every record.             *)
Start(cmd, strategy, into, step) ==
  /\ cmd \in Commands
  /\ pc = "idle" /\ rec = NoRecord /\ art = NoArtifact
  /\ job' = [cmd |-> cmd, strategy |-> strategy, into |-> into,
             found |-> IF repo = Missing THEN "Missing" ELSE "Present"]
  /\ pc' = step /\ turns' = 0 /\ same' = TRUE

(* ensure_missing and ensure_expected: the destination is still what the   *)
(* plan saw, by its identity.                                              *)
AsFound == IF job.found = "Missing" THEN repo = Missing ELSE same

(* The last check is behind, and so is the commit it authorized.           *)
Committed == raced' = IF raced = "pending" THEN "yes" ELSE raced

(* The process dies, or a call fails and `?` returns its error.            *)
Halt ==
  /\ Running
  /\ Exit
  /\ raced' = IF raced = "pending" THEN "no" ELSE raced
  /\ UNCHANGED <<durable, journal, user, rec>>

(***************************************************************************)
(* Operation records                                                       *)
(***************************************************************************)
Winner(r) == IF r.dir = "FromStore" THEN r.storeFp ELSE r.repoFp
Loser(r) == IF r.dir = "FromStore" THEN r.repoFp ELSE r.storeFp

Create(op, dir) ==
  rec' = [op |-> op, phase |-> "RecordCreated", dir |-> dir, repoFp |-> repo,
          storeFp |-> store, exclBefore |-> excl, backupKnown |-> FALSE]

NextPhaseOf(r) == NextPhase[r.op][r.phase]

Persist(then) ==
  /\ At("persist") /\ rec # NoRecord
  /\ rec.phase # "PostCommitValidated"
  /\ rec' = [rec EXCEPT !.phase = NextPhaseOf(rec)]
  /\ Goto(then)
  /\ UNCHANGED <<durable, journal, user, raced>>

Drop ==
  /\ At("drop")
  /\ rec' = NoRecord
  /\ IF art = NoArtifact THEN Exit ELSE Goto("recover")
  /\ UNCHANGED <<durable, journal, user, raced>>

(***************************************************************************)
(* The user and other programs                                             *)
(***************************************************************************)
Act(kind) ==
  /\ kind \in UserActs /\ acts < MaxUserActs /\ acts' = acts + 1
  /\ raced' = IF pc \in {"commit", "linktemp"} /\ raced = "no" THEN "pending" ELSE raced

(* A relink from the store has read the file it saves, and not yet         *)
(* replaced it: what is written now is not in the backup.                  *)
ReadForBackup ==
  /\ rec # NoRecord /\ rec.op = "relink" /\ rec.dir = "FromStore"
  /\ rec.phase \in {"RecordCreated", "ExcludeWritten"} /\ Running
  /\ backup # Missing \/ (temp # Missing /\ temp.data \in Contents)

Unsaved(c) == unsaved' = IF ReadForBackup THEN unsaved \cup ({c} \cap Contents) ELSE unsaved

(* Saving in place: the file keeps its identity.  Through a symlink the    *)
(* canonical file changes.                                                 *)
Edit(c) ==
  /\ Act("edit")
  /\ \/ /\ repo \in Contents \ {c}
        /\ repo' = c /\ Unsaved(c)
        /\ UNCHANGED store
     \/ /\ repo = Link /\ store \in Contents \ {c}
        /\ store' = c
        /\ UNCHANGED <<repo, unsaved>>
  /\ UNCHANGED <<backup, owner, excl, journal, process, tracked, rec>>

(* A new directory entry, or none any more.                                *)
NewEntry(entry) ==
  /\ repo' = entry /\ Unsaved(entry)
  /\ same' = ~Running
  /\ UNCHANGED <<store, backup, owner, excl, journal, job, pc, turns, tracked, rec>>

Replace(entry) == Act("replace") /\ NewEntry(entry)

Delete == Act("delete") /\ repo # Missing /\ NewEntry(Missing)

(* git add --force                                                         *)
Track ==
  /\ Act("track")
  /\ repo # Missing /\ ~tracked
  /\ tracked' = TRUE
  /\ UNCHANGED <<durable, journal, process, unsaved, rec>>

(* Deleting the item's line of the managed block by hand.                  *)
Unexclude ==
  /\ Act("unexclude")
  /\ excl /\ excl' = FALSE
  /\ UNCHANGED <<repo, store, backup, owner, journal, process, tracked, unsaved, rec>>

(* Another program puts a file of its own at the temp path.                *)
Swap(c) ==
  /\ Act("swap")
  /\ temp # Missing
  /\ temp' = [data |-> c, ours |-> FALSE]
  /\ UNCHANGED <<durable, tempExcl, linkTemp, art, process, tracked, unsaved, rec>>

UserAct ==
  \/ \E c \in Contents : Edit(c) \/ Swap(c)
  \/ \E entry \in Contents \cup {Foreign} : Replace(entry)
  \/ Delete \/ Track \/ Unexclude
=============================================================================
