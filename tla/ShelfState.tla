----------------------------- MODULE ShelfState -----------------------------
(***************************************************************************)
(* One repository, the central store behind it, the durable operation      *)
(* record, and the one shelfbox process that may be at work.               *)
(*                                                                         *)
(* A step of the process is one durable mutation together with the checks  *)
(* the code makes immediately before it.  Between two steps the process    *)
(* may stop, and the user may change the working tree.  What survives a    *)
(* stop is the disk (repo, store, backup, manifest, excl) and the record;  *)
(* pc, turns, temp and same live in the process.                           *)
(***************************************************************************)
EXTENDS RecoveryPolicy, FiniteSets

CONSTANTS
  Paths,        \* repository-relative paths an item may have
  Contents,     \* file contents, told apart by their fingerprint
  Missing,      \* no directory entry
  Link,         \* a symlink to the item's own canonical file
  NoRecord,     \* no operation record is on disk
  Commands,     \* the commands the user may run
  Strategies,   \* config.materialization: subset of {"symlink", "copy"}
  CrossVolume,  \* whether a path and the store may be on different volumes:
                \* subset of BOOLEAN
  KeepIgnore,   \* values of restore's --keep-ignore the user may give
  UserActs,     \* the things users do to the working tree meanwhile
  MaxUserActs   \* bound: how many of them

ASSUME EntriesDistinct ==
  /\ Missing \notin Contents
  /\ Link \notin Contents
  /\ Missing # Link

ASSUME ParametersTyped ==
  /\ Commands \subseteq {"add", "restore", "move", "detach"}
  /\ Strategies \subseteq {"symlink", "copy"}
  /\ CrossVolume \subseteq BOOLEAN
  /\ KeepIgnore \subseteq BOOLEAN
  /\ UserActs \subseteq {"edit", "replace", "delete", "track", "unexclude"}
  /\ MaxUserActs \in Nat

VARIABLES
  repo,      \* the working-tree entry at each path
  store,     \* the canonical file items/<path> of each path
  backup,    \* recovery/<record id>.restore, the staged canonical file
  manifest,  \* ownership state of each path, "absent" when not an item
  excl,      \* entries of the managed block of .git/info/exclude
  kept,      \* ghost: excludes a restore --keep-ignore left on purpose
  tracked,   \* paths in the Git index
  rec,       \* the operation record, or NoRecord
  pc,        \* next step of the running process; when none runs "idle", or
             \* "refused" if the last one ended because of the record
  turns,     \* iteration of the recovery loop, 0 in a forward run
  temp,      \* plaintext in the authorized temp file of a pending commit
  same,      \* the entry whose identity the run snapshotted is still there
  acts,      \* how many user acts have happened
  discarded, \* ghost: contents the user has overwritten or deleted
  unlisted   \* ghost: exclude entries the user has deleted

disk == <<repo, store, backup, manifest, excl, kept>>
user == <<tracked, acts, discarded, unlisted>>
vars == <<repo, store, backup, manifest, excl, kept, tracked,
          rec, pc, turns, temp, same, acts, discarded, unlisted>>

(* Mutant: an add records a phase of another operation.                    *)
PhaseAfterOfAnotherOp ==
  [op \in {"add", "restore", "move"} |-> [RecordCreated |-> "DestinationExcluded"]]

(* The order in which each operation persists its phases.                  *)
PhaseAfter ==
  [add     |-> [RecordCreated    |-> "ExcludeWritten",
                ExcludeWritten   |-> "StoreTransferred",
                StoreTransferred |-> "RepoMaterialized",
                RepoMaterialized |-> "ManifestSaved",
                ManifestSaved    |-> "PostCommitValidated"],
   restore |-> [RecordCreated    |-> "RepoRegularized",
                RepoRegularized  |-> "StoreStaged",
                StoreStaged      |-> "ManifestRemoved",
                ManifestRemoved  |-> "ExcludeUpdated",
                ExcludeUpdated   |-> "PostCommitValidated"],
   move    |-> [RecordCreated       |-> "DestinationExcluded",
                DestinationExcluded |-> "StoreTransferred",
                StoreTransferred    |-> "RepoMoved",
                RepoMoved           |-> "ManifestSaved",
                ManifestSaved       |-> "ExcludeFinalized",
                ExcludeFinalized    |-> "PostCommitValidated"]]

Phases(op) == DOMAIN PhaseAfter[op] \cup {"PostCommitValidated"}

(* The part of OperationRecord that recovery reads.                        *)
Records ==
  UNION {[op : {op}, phase : Phases(op), path : Paths, dest : Paths,
          strategy : {"symlink", "copy"}, fp : Contents,
          exclBefore : BOOLEAN, keepIgnore : BOOLEAN, backupKnown : BOOLEAN]
         : op \in DOMAIN PhaseAfter}

ASSUME RecordDistinct == NoRecord \notin Records

Steps == {"idle", "refused", "act", "install", "unlink", "verify", "identify", "create",
          "persist", "drop", "decide"} \cup RowActions

(* Mutant: too few iterations for an add that resumes at its first phases. *)
MaxTurnsTooFew == [add |-> 2, restore |-> 10, move |-> 10]

(* Iterations of the loops in the two recover_if_owned functions.          *)
MaxTurns == [add |-> 6, restore |-> 10, move |-> 10]

TypeOK ==
  /\ repo \in [Paths -> Contents \cup {Missing, Link}]
  /\ store \in [Paths -> Contents \cup {Missing}]
  /\ backup \in Contents \cup {Missing}
  /\ manifest \in [Paths -> {"absent", "attached", "detached"}]
  /\ excl \in SUBSET Paths
  /\ kept \in SUBSET Paths
  /\ tracked \in SUBSET Paths
  /\ rec \in Records \cup {NoRecord}
  /\ pc \in Steps
  /\ turns \in 0..11
  /\ temp \in Contents \cup {Missing}
  /\ same \in BOOLEAN
  /\ acts \in Nat
  /\ discarded \in SUBSET Contents
  /\ unlisted \in SUBSET Paths

(* A repository before its first shelfbox command, with any untracked      *)
(* files the user has.                                                     *)
Init ==
  /\ repo \in [Paths -> Contents \cup {Missing}]
  /\ store = [p \in Paths |-> Missing]
  /\ backup = Missing
  /\ manifest = [p \in Paths |-> "absent"]
  /\ excl = {}
  /\ kept = {}
  /\ tracked = {}
  /\ rec = NoRecord
  /\ pc = "idle"
  /\ turns = 0
  /\ temp = Missing
  /\ same = TRUE
  /\ acts = 0
  /\ discarded = {}
  /\ unlisted = {}

(***************************************************************************)
(* Observations                                                            *)
(***************************************************************************)
Managed(p) == manifest[p] # "absent"

(* compare_regular_files: both are regular files, of one content.          *)
SameContent(left, right) == left \in Contents /\ left = right

(* MaterializationFacts of an intact entry: a link that resolves where the *)
(* canonical path does (two dangling paths compare equal), or a regular    *)
(* file whose content equals a present canonical file.                     *)
IsMaterialized(p, strategy) ==
  \/ strategy = "symlink" /\ repo[p] = Link
  \/ strategy = "copy" /\ SameContent(repo[p], store[p])

ObservedStrategy(p) == IF repo[p] = Link THEN "symlink" ELSE "copy"

(* inspect_entry of the canonical transfer.                                *)
CanonicalKind(entry) == CASE entry \in Contents -> "RegularFile"
                          [] entry = Missing -> "Missing"
                          [] OTHER -> "SymlinkOrReparsePoint"

(* The two ends of an operation's canonical transfer: the file of an add   *)
(* comes from the working tree, those of a restore and a move stay in the  *)
(* store.                                                                  *)
TransferEnds(r) == CASE r.op = "add" -> <<repo[r.path], store[r.path]>>
                     [] r.op = "restore" -> <<store[r.path], backup>>
                     [] r.op = "move" -> <<store[r.path], store[r.dest]>>

(* CanonicalTransfer::inspect                                              *)
TransferFacts(r) ==
  LET ends == TransferEnds(r)
  IN  <<CanonicalKind(ends[1]), CanonicalKind(ends[2])>>

(* What each transfer is made on: a regular file, and nothing in its place.*)
TransferReady == TransferFacts(rec) = <<"RegularFile", "Missing">>

(* Mutant: the permit does not look at the Git index again.                *)
PermitUnchecked(p) == rec.path \in excl

(* validate_commit_preconditions: what the journal checks again before it  *)
(* issues a permit, p being the repo-side destination of the operation.    *)
Permit(p) == p \notin tracked /\ rec.path \in excl

At(op, phase, step) ==
  rec # NoRecord /\ rec.op = op /\ rec.phase = phase /\ pc = step

(* Mutation of one phase, reached by the command itself or by the recovery *)
(* row that performs the same mutation.                                    *)
Doing(op, phase, action) == At(op, phase, "act") \/ At(op, phase, action)

Recovering == turns > 0

Running == pc \notin {"idle", "refused"}

(***************************************************************************)
(* The record and the process                                              *)
(***************************************************************************)
Goto(step) == pc' = step /\ UNCHANGED turns

(* A command starts by making its complete record durable.                 *)
Begin(command, record) ==
  /\ command \in Commands
  /\ pc = "idle" /\ rec = NoRecord
  /\ rec' = record
  /\ same' = TRUE
  /\ Goto("act")
  /\ UNCHANGED <<disk, user, temp>>

(* journal.advance / update_phase after a durable mutation.                *)
Persist ==
  /\ pc = "persist" /\ rec # NoRecord
  /\ LET next == PhaseAfter[rec.op][rec.phase]
     IN  /\ rec' = [rec EXCEPT !.phase = next]
         /\ Goto(IF next = "PostCommitValidated" THEN "drop"
                 ELSE IF Recovering THEN "decide" ELSE "act")
  /\ UNCHANGED <<disk, user, temp, same>>

(* operation_record_store::remove, the last step of a run.                 *)
RemoveRecord ==
  /\ pc = "drop" /\ rec # NoRecord
  /\ rec' = NoRecord
  /\ pc' = "idle" /\ turns' = 0
  /\ UNCHANGED <<disk, user, temp, same>>

(* The process dies, or a call fails and `?` returns its error: either way *)
(* nothing is undone and the record stays.                                 *)
Halt ==
  /\ Running
  /\ pc' = "idle" /\ turns' = 0
  /\ temp' = Missing /\ same' = TRUE
  /\ UNCHANGED <<disk, user, rec>>

(* The commit of CanonicalTransferAction::Move: both ends are as they were *)
(* inspected, and the file is renamed inside the store.                    *)
MoveCanonical ==
  /\ TransferReady
  /\ IF rec.op = "move"
     THEN /\ store' = [store EXCEPT ![rec.path] = Missing, ![rec.dest] = store[rec.path]]
          /\ UNCHANGED backup
     ELSE /\ store' = [store EXCEPT ![rec.path] = Missing]
          /\ backup' = store[rec.path]

(* Every mutating command first runs recovery.  A finalized record is only *)
(* deleted; any other goes through the decision loop.                      *)
BeginRecovery ==
  /\ ~Running /\ rec # NoRecord
  /\ pc' = (IF rec.phase = "PostCommitValidated" THEN "drop" ELSE "decide")
  /\ turns' = 1 /\ same' = TRUE
  /\ UNCHANGED <<disk, user, rec, temp>>

(* Mutant: the advanced phase is not written to the record.                *)
DecideWithoutAdvance(facts) ==
  LET decision == Decide(rec.op, rec.phase, facts)
      spent == turns > MaxTurns[rec.op]
  IN  /\ pc = "decide" /\ rec # NoRecord
      /\ \/ /\ ~spent /\ decision.kind = "perform"
            /\ pc' = (IF decision.name = "DeleteRecordOnly"
                      THEN "drop" ELSE decision.name)
            /\ turns' = turns + 1
         \/ /\ ~spent /\ decision.kind = "advance"
            /\ turns' = turns + 1
            /\ UNCHANGED pc
         \/ /\ spent \/ decision.kind = "conflict"
            /\ pc' = "refused" /\ turns' = 0
      /\ UNCHANGED <<disk, user, rec, temp, same>>

(* One iteration of the recovery loop, for the facts its operation reads.  *)
DecideWith(facts) ==
  LET decision == Decide(rec.op, rec.phase, facts)
      spent == turns > MaxTurns[rec.op]
  IN  /\ pc = "decide" /\ rec # NoRecord
      /\ \/ /\ ~spent /\ decision.kind = "perform"
            /\ pc' = (IF decision.name = "DeleteRecordOnly"
                      THEN "drop" ELSE decision.name)
            /\ turns' = turns + 1
            /\ UNCHANGED rec
         \/ /\ ~spent /\ decision.kind = "advance"
            /\ rec' = [rec EXCEPT !.phase = decision.to]
            /\ turns' = turns + 1
            /\ UNCHANGED pc
         \/ /\ spent \/ decision.kind = "conflict"
            /\ pc' = "refused" /\ turns' = 0
            /\ UNCHANGED rec
      /\ UNCHANGED <<disk, user, temp, same>>

(***************************************************************************)
(* The user and other programs                                             *)
(***************************************************************************)
Act(kind) == kind \in UserActs /\ acts < MaxUserActs /\ acts' = acts + 1

Discard(entry) == discarded' = discarded \cup ({entry} \cap Contents)

(* Saving in place: the file keeps its identity.  Through a symlink the    *)
(* canonical file changes, or appears when the link dangles.               *)
Edit(p, c) ==
  /\ Act("edit")
  /\ \/ /\ repo[p] \in Contents \ {c}
        /\ repo' = [repo EXCEPT ![p] = c]
        /\ Discard(repo[p])
        /\ UNCHANGED store
     \/ /\ repo[p] = Link /\ store[p] # c
        /\ store' = [store EXCEPT ![p] = c]
        /\ Discard(store[p])
        /\ UNCHANGED repo
  /\ UNCHANGED <<backup, manifest, excl, kept, tracked, unlisted,
                 rec, pc, turns, temp, same>>

(* A new entry at the path, by a save that renames or a new file (a        *)
(* content), or none any more (Missing).  A command at work on the path    *)
(* will not find the entry whose identity it took.                         *)
NewEntry(p, entry) ==
  /\ repo' = [repo EXCEPT ![p] = entry]
  /\ Discard(repo[p])
  /\ same' = (same /\ ~(Running /\ rec # NoRecord /\ rec.path = p))
  /\ UNCHANGED <<store, backup, manifest, excl, kept, tracked, unlisted,
                 rec, pc, turns, temp>>

Replace(p, c) == Act("replace") /\ NewEntry(p, c)

Delete(p) == Act("delete") /\ repo[p] # Missing /\ NewEntry(p, Missing)

(* git add --force                                                         *)
Track(p) ==
  /\ Act("track")
  /\ repo[p] # Missing /\ p \notin tracked
  /\ tracked' = tracked \cup {p}
  /\ UNCHANGED <<disk, discarded, unlisted, rec, pc, turns, temp, same>>

(* Deleting a line of the managed block by hand.                           *)
Unexclude(p) ==
  /\ Act("unexclude")
  /\ p \in excl
  /\ excl' = excl \ {p}
  /\ unlisted' = unlisted \cup {p}
  /\ UNCHANGED <<repo, store, backup, manifest, kept, tracked, discarded,
                 rec, pc, turns, temp, same>>

UserAct ==
  \E p \in Paths :
    \/ \E c \in Contents : Edit(p, c) \/ Replace(p, c)
    \/ Delete(p)
    \/ Track(p)
    \/ Unexclude(p)
=============================================================================
