---------------------------- MODULE RestoreItem ----------------------------
(***************************************************************************)
(* `shelfbox restore` (ops/restore.rs) and the recovery of its record      *)
(* (ops/lifecycle_recovery.rs): turn the materialization into a regular    *)
(* file, stage the canonical file as a backup, drop the manifest entry and *)
(* the exclude, and only then delete the backup.  `restore --keep-store`   *)
(* detaches instead.                                                       *)
(***************************************************************************)
EXTENDS ShelfState

(* execute_legacy_detach: one manifest save, no record.                    *)
Detach(p) ==
  /\ "detach" \in Commands
  /\ pc = "idle" /\ rec = NoRecord
  /\ Managed(p)
  /\ manifest' = [manifest EXCEPT ![p] = "detached"]
  /\ UNCHANGED <<repo, store, backup, excl, kept, user, rec, pc, turns, temp, same>>

(* ensure_restore_facts: there is a canonical file, and the entry is       *)
(* materialized from it the way it was found.                              *)
RestoreAsFound(p, strategy) ==
  /\ store[p] # Missing
  /\ IsMaterialized(p, strategy)

(* inspect_restore_materialization: the strategy to restore from is the    *)
(* one the entry shows, whatever is configured.                            *)
RestoreInspected(p) == RestoreAsFound(p, ObservedStrategy(p))

(* ItemRestorePlan::build                                                  *)
RestorePlanned(p) == Managed(p) /\ RestoreInspected(p)

(* validate_restore_integration                                            *)
RestoreIntegration(p) == p \notin tracked /\ p \in excl

(* The checks of execute_restore up to its durable record.                 *)
RestoreBegin(p, keepIgnore) ==
  /\ RestorePlanned(p)
  /\ RestoreIntegration(p)
  /\ Begin("restore",
           [op |-> "restore", phase |-> "RecordCreated", path |-> p, dest |-> p,
            strategy |-> ObservedStrategy(p), fp |-> store[p], exclBefore |-> TRUE,
            keepIgnore |-> keepIgnore, backupKnown |-> FALSE])

(* ensure_regular_matches_store                                            *)
RegularMatches(entry) == repo[rec.path] = rec.fp /\ entry = rec.fp

(* A link is to be replaced by a private copy of the canonical file; a     *)
(* copy only has to be equal still.                                        *)
RestoreRegularize ==
  /\ At("restore", "RecordCreated", "act")
  /\ RestoreAsFound(rec.path, rec.strategy)
  /\ IF rec.strategy = "symlink"
     THEN /\ temp' = store[rec.path]
          /\ same' = TRUE
          /\ Goto("install")
     ELSE /\ Permit(rec.path)
          /\ Goto("verify")
          /\ UNCHANGED <<temp, same>>
  /\ UNCHANGED <<disk, user, rec>>

RestoreInstall ==
  /\ At("restore", "RecordCreated", "install")
  /\ store[rec.path] # Missing
  /\ repo[rec.path] = Link /\ same
  /\ Permit(rec.path)
  /\ repo' = [repo EXCEPT ![rec.path] = temp]
  /\ temp' = Missing
  /\ Goto("verify")
  /\ UNCHANGED <<store, backup, manifest, excl, kept, user, rec, same>>

RestoreVerify ==
  /\ At("restore", "RecordCreated", "verify")
  /\ RegularMatches(store[rec.path])
  /\ Goto("persist")
  /\ UNCHANGED <<disk, user, rec, temp, same>>

(* ensure_restore_transfer_facts                                           *)
Stageable == TransferReady

(* The canonical file moves to recovery/<record>.restore, inside the       *)
(* store.                                                                  *)
RestoreStage ==
  /\ Doing("restore", "RepoRegularized", "StageStoreIntoBackup")
  /\ Stageable
  /\ Permit(rec.path)
  /\ MoveCanonical
  /\ Goto("identify")
  /\ UNCHANGED <<repo, manifest, excl, kept, user, rec, temp, same>>

(* record_backup_from_path: a second write of the record.                  *)
RestoreIdentify ==
  /\ At("restore", "RepoRegularized", "identify")
  /\ backup # Missing
  /\ rec' = [rec EXCEPT !.backupKnown = TRUE]
  /\ Goto("persist")
  /\ UNCHANGED <<disk, user, temp, same>>

(* Mutant: the manifest is saved without removing the item.                *)
RestoreKeepManifest ==
  /\ Doing("restore", "StoreStaged", "RemoveManifest")
  /\ Goto("persist")
  /\ UNCHANGED <<disk, user, rec, temp, same>>

RestoreRemoveManifest ==
  /\ Doing("restore", "StoreStaged", "RemoveManifest")
  /\ manifest' = [manifest EXCEPT ![rec.path] = "absent"]
  /\ Goto("persist")
  /\ UNCHANGED <<repo, store, backup, excl, kept, user, rec, temp, same>>

(* The command checks that the exclude ended up as asked for.              *)
RestoreExclude ==
  /\ Doing("restore", "ManifestRemoved", "ApplyKeepIgnorePolicy")
  /\ excl' = IF rec.keepIgnore THEN excl ELSE excl \ {rec.path}
  /\ Recovering \/ ((rec.path \in excl') = rec.keepIgnore)
  /\ kept' = IF rec.keepIgnore THEN kept \cup {rec.path} ELSE kept \ {rec.path}
  /\ Goto("persist")
  /\ UNCHANGED <<repo, store, backup, manifest, user, rec, temp, same>>

(* The command compares the contents once more before the backup goes.     *)
RestoreCheck ==
  /\ At("restore", "ExcludeUpdated", "act")
  /\ RegularMatches(backup) /\ ~Managed(rec.path)
  /\ Goto("DeleteBackupAndComplete")
  /\ UNCHANGED <<disk, user, rec, temp, same>>

(* Mutant: the backup is forgotten.                                        *)
RestoreLeaveBackup ==
  /\ At("restore", "ExcludeUpdated", "DeleteBackupAndComplete")
  /\ Goto("persist")
  /\ UNCHANGED <<disk, user, rec, temp, same>>

(* cleanup_backup, which needs the identity the record holds.              *)
RestoreDeleteBackup ==
  /\ At("restore", "ExcludeUpdated", "DeleteBackupAndComplete")
  /\ backup = Missing \/ rec.backupKnown
  /\ backup' = Missing
  /\ Goto("persist")
  /\ UNCHANGED <<repo, store, manifest, excl, kept, user, rec, temp, same>>

(* is_original_restore: only a link counts as the original                 *)
(* materialization.                                                        *)
OriginalRestore(p) == rec.strategy = "symlink" /\ repo[p] = Link

(* classify_restore_exclude: the value asked for is final once the phase   *)
(* says that it was written; before that the old value takes precedence.   *)
RestoreExcludeFact(p) ==
  LET final == (p \in excl) = rec.keepIgnore
  IN  IF final /\ rec.phase = "ExcludeUpdated" THEN "FinalState"
      ELSE IF (p \in excl) = rec.exclBefore THEN "BeforeState"
      ELSE IF final THEN "FinalState" ELSE "Unexpected"

(* restore_facts                                                           *)
RestoreFacts ==
  LET p == rec.path
      repoFact == IF OriginalRestore(p) THEN "Original"
                  ELSE IF repo[p] = rec.fp THEN "Regular" ELSE "Unexpected"
      storeFact == IF store[p] = rec.fp /\ backup = Missing THEN "CanonicalPresent"
                   ELSE IF store[p] = Missing /\ backup = rec.fp THEN "BackupPresent"
                   ELSE "Unexpected"
  IN  <<repoFact, storeFact, IF Managed(p) THEN "Present" ELSE "Absent",
        RestoreExcludeFact(p)>>

RestoreDecide == rec # NoRecord /\ rec.op = "restore" /\ DecideWith(RestoreFacts)

RestoreStep ==
  \/ RestoreRegularize \/ RestoreInstall \/ RestoreVerify \/ RestoreStage
  \/ RestoreIdentify \/ RestoreRemoveManifest \/ RestoreExclude
  \/ RestoreCheck \/ RestoreDeleteBackup \/ RestoreDecide
=============================================================================
