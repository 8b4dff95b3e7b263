------------------------------- MODULE Shelf -------------------------------
(***************************************************************************)
(* The commands of shelfbox on one repository, with the recovery that      *)
(* every mutating command runs first, a process that may stop between any  *)
(* two durable mutations, and a user who works in the same tree.           *)
(***************************************************************************)
EXTENDS AddItem, RestoreItem, MoveItem

Command ==
  \/ \E p \in Paths, s \in Strategies : AddBegin(p, s)
  \/ \E p \in Paths, k \in KeepIgnore : RestoreBegin(p, k)
  \/ \E old, new \in Paths : MoveBegin(old, new)
  \/ \E p \in Paths : Detach(p)

Work == AddStep \/ RestoreStep \/ MoveStep \/ Persist \/ RemoveRecord

Next == Command \/ BeginRecovery \/ Work \/ Halt \/ UserAct

Spec == Init /\ [][Next]_vars

(* A process that can go on goes on, and the user keeps running commands,  *)
(* each of which starts with recovery.                                     *)
FairSpec == Spec /\ WF_vars(Work) /\ WF_vars(BeginRecovery)

(***************************************************************************)
(* What recovery would decide if the process stopped now                   *)
(***************************************************************************)
FactsOf(op) == CASE op = "add"     -> AddFacts
                 [] op = "restore" -> RestoreFacts
                 [] op = "move"    -> MoveFacts

Unfinished == rec # NoRecord /\ rec.phase # "PostCommitValidated"

(* Every later mutating command of the store fails on this record: no row  *)
(* applies, or the backup to delete has no recorded identity.              *)
Stuck ==
  /\ Unfinished
  /\ LET decision == Decide(rec.op, rec.phase, FactsOf(rec.op))
     IN  \/ decision.kind = "conflict"
         \/ /\ decision = [kind |-> "perform", name |-> "DeleteBackupAndComplete"]
            /\ backup # Missing /\ ~rec.backupKnown

(***************************************************************************)
(* Safety                                                                  *)
(***************************************************************************)

(* No path is an item without an entry in the managed exclude block, at    *)
(* any moment of any command or recovery, unless the user deleted that     *)
(* entry (docs/spec/copy-mode.md:50).                                      *)
ManagedExcluded == \A p \in Paths : Managed(p) => p \in excl \cup unlisted

(* What the managed block should list: the items, and what --keep-ignore   *)
(* left.                                                                   *)
Accounted == {p \in Paths : Managed(p)} \cup kept

(* Once no record is left, the managed block lists that and nothing else,  *)
(* but for the entries the user deleted: every completed, recovered or     *)
(* rolled-back command accounts for its excludes.                          *)
ExcludesAccounted ==
  rec = NoRecord => excl \subseteq Accounted /\ Accounted \subseteq excl \cup unlisted

(* Once no record is left, the items are exactly the paths with a          *)
(* canonical file and no recovery backup is left over: no sequence of      *)
(* commands, stops and recoveries leaves half an item behind.              *)
AtRestSound ==
  rec = NoRecord => /\ backup = Missing
                    /\ \A p \in Paths : Managed(p) <=> store[p] # Missing

(* While nobody interferes, a stop leaves a state recovery refuses only in *)
(* these windows: the rollback of an add between removing the exclude and  *)
(* the record; a cross-volume add between the copy and the unlink; a       *)
(* restore whose backup was staged but not identified, or deleted but not  *)
(* yet followed by the last phase; a move between removing the old entry   *)
(* and creating the new one, and a move of a copy from the canonical move  *)
(* on.  Everywhere else a row of the tables applies.  What the documents   *)
(* say of the windows of a deleted backup and of a move is                 *)
(* CompletedIsCleaned and MoveRecoverable, which the code violates.        *)
StuckOnlyInWindows ==
  acts = 0 /\ Stuck =>
    \/ /\ rec.op = "add" /\ rec.phase = "ExcludeWritten"
       /\ repo[rec.path] = rec.fp
       /\ rec.path \notin excl \/ (TRUE \in CrossVolume /\ store[rec.path] = rec.fp)
    \/ /\ rec.op = "restore" /\ rec.phase = "ExcludeUpdated"
       /\ backup = Missing \/ ~rec.backupKnown
    \/ /\ rec.op = "move" /\ store[rec.dest] = rec.fp
       /\ rec.phase \in {"DestinationExcluded", "StoreTransferred"}
       /\ repo[rec.dest] = Missing
       /\ repo[rec.path] = Missing \/ rec.strategy = "copy"

(* All that the operation of the record was to bring about has happened.   *)
Completed ==
  LET p == rec.path
      target == IF rec.op = "move" THEN rec.dest ELSE p
      gone(q) == repo[q] = Missing /\ store[q] = Missing /\ ~Managed(q) /\ q \notin excl
      item == /\ store[target] = rec.fp /\ IsMaterialized(target, rec.strategy)
              /\ Managed(target) /\ target \in excl
  IN  /\ Unfinished /\ backup = Missing
      /\ CASE rec.op = "add"     -> item
           [] rec.op = "move"    -> item /\ gone(p)
           [] rec.op = "restore" -> /\ repo[p] = rec.fp /\ store[p] = Missing
                                    /\ ~Managed(p) /\ (p \in excl) = rec.keepIgnore

(* docs/architecture/design-decisions.md:439: "if final postconditions     *)
(* already hold when an unfinished record reappears, classify the          *)
(* operation as completed", the first of STALE_COMPLETION_RULES            *)
(* (domain/copy_safety.rs:133).  A restore that stops between deleting its *)
(* backup and writing its last phase is refused all the same.              *)
CompletedIsCleaned == pc = "refused" => ~Completed

(* docs/spec/copy-mode.md:254: "Apply store, repo, manifest, and exclude   *)
(* updates as one recoverable operation."  Recovery refuses the record of  *)
(* a move with which nobody interfered.                                    *)
MoveRecoverable == pc = "refused" /\ acts = 0 => rec.op # "move"

(* Recovery never runs out of the iterations its loop allows.              *)
RecoveryWithinBound == pc = "decide" => turns <= MaxTurns[rec.op]

(***************************************************************************)
(* What a step may never do                                                *)
(***************************************************************************)
Held == ({repo[p] : p \in Paths} \cup {store[p] : p \in Paths} \cup {backup})
          \cap Contents

(* Only the user makes a content disappear: whatever the user did in       *)
(* between, a step of a command or of recovery removes the last copy of a  *)
(* content only if the user has overwritten or deleted a copy of it        *)
(* (docs/spec/copy-mode.md:51).                                            *)
ContentKept ==
  [][acts' = acts => Held \ Held' \subseteq discarded]_vars

(* Shelfbox never puts a regular file where Git would pick it up.          *)
NoExposedPlaintext ==
  [][acts' = acts =>
       \A p \in Paths : repo'[p] \in Contents /\ repo[p] \notin Contents
                          => p \in excl /\ p \notin tracked]_vars

(* Recovery never changes or removes a regular file of the working tree:   *)
(* what it did not put there itself is the user's.                         *)
RecoverySparesFiles ==
  [][acts' = acts /\ Recovering =>
       \A p \in Paths : repo[p] \in Contents => repo'[p] = repo[p]]_vars

(***************************************************************************)
(* Liveness                                                                *)
(***************************************************************************)

(* If only finitely many stops interrupt work that could have gone on,     *)
(* every operation is completed or rolled back and its record removed, or  *)
(* it ends in one of the windows StuckOnlyInWindows names: commands and    *)
(* recovery never circle.                                                  *)
RecoverySettles ==
  <>[][~(Halt /\ ~Stuck)]_vars => (rec # NoRecord ~> rec = NoRecord \/ Stuck)

(***************************************************************************)
(* Shelf implements ItemBook: ownership is the manifest, and a path stands *)
(* for what the working tree and the store hold for it.  A running restore *)
(* also holds its backup.  Until a move saves the manifest, its new        *)
(* canonical file counts for the old path, and so does the copy it makes.  *)
(***************************************************************************)
VersionsAt(p) ==
  LET own == {repo[p], store[p]}
      moving == rec.op = "move" /\ Managed(rec.path)
      created == IF rec.strategy = "copy" THEN {store[p]} ELSE {}
  IN  CASE rec = NoRecord               -> own
        [] rec # NoRecord /\ moving /\ p = rec.dest  -> {repo[p]} \ created
        [] rec # NoRecord /\ moving /\ p = rec.path       -> own \cup {store[rec.dest]}
        [] rec # NoRecord /\ ~moving /\ p = rec.path      -> own \cup {backup}
        [] OTHER                        -> own

Versions == [p \in Paths |-> VersionsAt(p) \cap Contents]

Book == INSTANCE ItemBook WITH status <- manifest, versions <- Versions

(* Every command is atomic for ownership and loses no version, through any *)
(* stop, recovery and user act of the run.                                 *)
ImplementsItemBook == Book!Spec
=============================================================================
