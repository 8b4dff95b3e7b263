----------------------------- MODULE RelinkItem -----------------------------
(***************************************************************************)
(* item relink (ops/relink.rs): a detached item is attached again.         *)
(*                                                                         *)
(* With a direction, its diverged copy and its canonical file are made     *)
(* equal first.  The losing side is saved in the recovery backup, the      *)
(* winning side is installed, then ownership is attached, and the backup   *)
(* goes last.  An operation record covers all of it.                       *)
(*                                                                         *)
(* Without one, the working tree already agrees with the canonical file,   *)
(* or has no entry and gets one; there is no operation record.             *)
(***************************************************************************)
EXTENDS ArtifactJournal

(* build_directional_relink_plan                                           *)
RelinkPlanned == owner = "detached" /\ DivergedCopy

(* execute_directional_relink up to its durable record.                    *)
RelinkBegin(dir) ==
  /\ RelinkPlanned
  /\ ~tracked
  /\ Start("relink", "copy", "backup", "exclude")
  /\ Create("relink", dir)
  /\ UNCHANGED <<durable, journal, user, raced>>

(* Mutant: ownership alone decides.                                        *)
AttachAnything(strategy) ==
  /\ store # Missing
  /\ owner = "detached" \/ Healthy
  /\ ~tracked
  /\ Start("attach", strategy, "repo", "exclude")
  /\ UNCHANGED <<durable, journal, user, rec, raced>>

AttachBegin(strategy) ==
  /\ store # Missing
  /\ owner = "detached" \/ Healthy
  /\ repo = Missing \/ Healthy
  /\ ~tracked
  /\ Start("attach", strategy, "repo", "exclude")
  /\ UNCHANGED <<durable, journal, user, rec, raced>>

(* relink_report_with_request: a direction on the command line decides.    *)
RelinkCommand ==
  \/ \E dir \in Directions : RelinkBegin(dir)
  \/ \E strategy \in {"symlink", "copy"} : AttachBegin(strategy)

RelinkExclude ==
  /\ At("exclude") /\ job.cmd \in {"relink", "attach"}
  /\ excl' = TRUE
  /\ Goto("excluded")
  /\ UNCHANGED <<repo, store, backup, owner, journal, user, rec, raced>>

(***************************************************************************)
(* With a direction                                                        *)
(***************************************************************************)

(* has_entry, then the phase ExcludeWritten.                               *)
RelinkExcluded ==
  /\ For("relink", "excluded") /\ rec # NoRecord
  /\ excl
  /\ rec' = [rec EXCEPT !.phase = "ExcludeWritten"]
  /\ Goto("stage")
  /\ UNCHANGED <<durable, journal, user, raced>>

(* stage_repo_preimage copies through a store-side temp, so that the copy  *)
(* stays in place; stage_store_preimage renames the canonical file.        *)
RelinkStage ==
  /\ For("relink", "stage") /\ rec # NoRecord
  /\ backup = Missing
  /\ IF rec.dir = "FromStore" THEN repo \in Contents /\ Inspected("reserve")
                              ELSE store \in Contents /\ Inspected("check")
  /\ UNCHANGED <<durable, journal, user, rec, raced>>

RelinkCheckStage ==
  /\ For("relink", "check") /\ rec # NoRecord
  /\ job.into = "backup" /\ backup = Missing
  /\ (IF rec.dir = "FromStore" THEN repo ELSE store) \in Contents
  /\ CommitPermit
  /\ Goto("commit")
  /\ UNCHANGED <<durable, journal, user, rec, raced>>

RelinkCommitStage ==
  /\ For("relink", "commit") /\ rec # NoRecord
  /\ job.into = "backup" /\ backup = Missing
  /\ IF rec.dir = "FromStore"
     THEN /\ AsFound /\ TempReady
          /\ backup' = temp.data /\ temp' = Missing
          /\ UNCHANGED store
     ELSE /\ backup' = store /\ store' = Missing
          /\ UNCHANGED temp
  /\ Goto("backup") /\ Committed
  /\ UNCHANGED <<repo, owner, excl, tempExcl, linkTemp, art, user, rec>>

(* record_backup_from_path, and the cleanup of a store-side temp.          *)
RelinkRecordBackup ==
  /\ For("relink", "backup") /\ rec # NoRecord
  /\ backup # Missing
  /\ rec' = [rec EXCEPT !.backupKnown = TRUE]
  /\ Goto(IF art = NoArtifact THEN "inspect" ELSE "cleanfile")
  /\ UNCHANGED <<durable, journal, user, raced>>

(* Planning of the installation: from here on the temp is for the winner.  *)
RelinkInspect ==
  /\ For("relink", "inspect") /\ rec # NoRecord
  /\ IF rec.dir = "FromStore" THEN DivergedCopy ELSE repo \in Contents /\ store = Missing
  /\ job' = [job EXCEPT !.into = IF rec.dir = "FromStore" THEN "repo" ELSE "store"]
  /\ pc' = "reserve" /\ same' = TRUE
  /\ UNCHANGED <<turns, durable, journal, user, rec, raced>>

RelinkCheck ==
  /\ For("relink", "check")
  /\ \/ job.into = "repo" /\ DivergedCopy
     \/ job.into = "store" /\ repo \in Contents /\ store = Missing
  /\ CommitPermit
  /\ Goto("commit")
  /\ UNCHANGED <<durable, journal, user, rec, raced>>

RelinkCommit ==
  /\ For("relink", "commit")
  /\ \/ job.into = "repo" /\ CommitToRepo /\ UNCHANGED store
     \/ job.into = "store" /\ store = Missing /\ CommitToStore /\ UNCHANGED repo
  /\ Goto("cleanfile") /\ Committed
  /\ UNCHANGED <<backup, owner, excl, tempExcl, linkTemp, art, user, rec>>

RelinkPersist ==
  /\ For("relink", "persist") /\ rec # NoRecord
  /\ Persist(CASE NextPhaseOf(rec) = "ContentSynchronized" -> "post"
               [] NextPhaseOf(rec) = "OwnershipAttached" -> "cleanbackup"
               [] OTHER -> "drop")

RelinkPost ==
  /\ For("relink", "post") /\ rec # NoRecord
  /\ repo = Winner(rec) /\ store = Winner(rec)
  /\ Goto("attach")
  /\ UNCHANGED <<durable, journal, user, rec, raced>>

(* Mutant: the backup goes before ownership is durable.                    *)
AttachDropBackup ==
  /\ At("attach")
  /\ owner' = "attached" /\ backup' = Missing
  /\ IF job.cmd = "attach" THEN Exit ELSE Goto("persist")
  /\ UNCHANGED <<repo, store, excl, journal, user, rec, raced>>

(* set_ownership_state and manifest::save, also by recovery.               *)
Attach ==
  /\ At("attach")
  /\ owner' = "attached"
  /\ IF job.cmd = "attach" THEN Exit ELSE Goto("persist")
  /\ UNCHANGED <<repo, store, backup, excl, journal, user, rec, raced>>

(* cleanup_backup refuses a backup without a recorded identity.            *)
CleanBackup ==
  /\ At("cleanbackup") /\ rec # NoRecord
  /\ IF backup = Missing \/ rec.backupKnown
     THEN backup' = Missing /\ Goto("persist")
     ELSE UNCHANGED backup /\ Exit
  /\ UNCHANGED <<repo, store, owner, excl, journal, user, rec, raced>>

(***************************************************************************)
(* Without a direction                                                     *)
(***************************************************************************)
AttachExcluded ==
  /\ For("attach", "excluded")
  /\ excl
  /\ Goto(IF job.found = "Present" THEN "attach"
          ELSE IF job.strategy = "copy" THEN "reserve" ELSE "check")
  /\ UNCHANGED <<durable, journal, user, rec, raced>>

AttachCheck ==
  /\ For("attach", "check")
  /\ repo = Missing
  /\ CommitPermit
  /\ Goto("commit")
  /\ UNCHANGED <<durable, journal, user, rec, raced>>

AttachCommit ==
  /\ For("attach", "commit")
  /\ IF job.strategy = "copy" THEN CommitToRepo ELSE CreateLink /\ UNCHANGED temp
  /\ Goto("post") /\ Committed
  /\ UNCHANGED <<store, backup, owner, excl, tempExcl, linkTemp, art, user, rec>>

AttachPost ==
  /\ For("attach", "post")
  /\ Healthy
  /\ Goto(IF art = NoArtifact THEN "attach" ELSE "cleanfile")
  /\ UNCHANGED <<durable, journal, user, rec, raced>>

(***************************************************************************)
(* Recovery                                                                *)
(***************************************************************************)

(* relink_facts: the exclude fact is Present whenever the entry is there,  *)
(* also when it was there before the operation.                            *)
RelinkFacts ==
  << IF repo = rec.repoFp /\ store = rec.storeFp /\ backup = Missing
     THEN "BeforeDirectionBackupAbsent"
     ELSE IF repo = Winner(rec) /\ store = Winner(rec) /\ backup = Loser(rec)
     THEN "SynchronizedBackupPresent"
     ELSE "Unexpected",
     IF owner = "attached" THEN "Attached" ELSE "Detached",
     IF excl THEN "Present" ELSE "BeforeState" >>

(* remove_owned_exclude, after which only the record is left to remove.    *)
RelinkUnexclude ==
  /\ At("unexclude") /\ rec # NoRecord
  /\ excl' = (excl /\ rec.exclBefore)
  /\ Goto("drop")
  /\ UNCHANGED <<repo, store, backup, owner, journal, user, rec, raced>>

RelinkStep ==
  \/ RelinkExclude \/ RelinkExcluded \/ RelinkStage \/ RelinkCheckStage
  \/ RelinkCommitStage \/ RelinkRecordBackup \/ RelinkInspect \/ RelinkCheck
  \/ RelinkCommit \/ RelinkPersist \/ RelinkPost \/ Attach \/ CleanBackup
  \/ AttachExcluded \/ AttachCheck \/ AttachCommit \/ AttachPost \/ RelinkUnexclude
=============================================================================
