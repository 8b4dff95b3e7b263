------------------------------ MODULE AddItem ------------------------------
(***************************************************************************)
(* `shelfbox add` (ops/add.rs) and the recovery of its record              *)
(* (ops/add_recovery.rs): exclude the path, move the file into the store,  *)
(* materialize it again in the repository, record it in the manifest.      *)
(***************************************************************************)
EXTENDS ShelfState

(* validate_add_entry_kind, _git_state, _manifest_state and                *)
(* _store_destination.                                                     *)
AddAccepted(p) ==
  /\ repo[p] \in Contents
  /\ p \notin tracked
  /\ ~Managed(p)
  /\ store[p] = Missing

(* The two ends of the transfer as the canonical inspection sees them: a   *)
(* regular file, and nothing.                                              *)
AddSource(p) == repo[p] \in Contents
AddDestination(p) == store[p] = Missing

(* build_add_plan                                                          *)
AddPlanned(p) == AddAccepted(p) /\ AddSource(p) /\ AddDestination(p)

(* execute_add_plan up to its durable record.                              *)
AddBegin(p, strategy) ==
  /\ AddPlanned(p)
  /\ Begin("add", [op |-> "add", phase |-> "RecordCreated", path |-> p, dest |-> p,
                   strategy |-> strategy, fp |-> repo[p], exclBefore |-> p \in excl,
                   keepIgnore |-> FALSE, backupKnown |-> FALSE])

AddExclude ==
  /\ At("add", "RecordCreated", "act")
  /\ excl' = excl \cup {rec.path}
  /\ Goto("persist")
  /\ UNCHANGED <<repo, store, backup, manifest, kept, user, rec, temp, same>>

(* ensure_expected: still the entry whose snapshot was taken; its content  *)
(* is not compared again.                                                  *)
SourceAsExpected == AddSource(rec.path) /\ same

(* validate_add_transfer_preconditions and the journal's permit.           *)
AddTransferable ==
  /\ TransferReady
  /\ Permit(rec.path)

(* On one volume the file is renamed into the store.  Otherwise a store    *)
(* temp file is populated first, to be committed by AddInstall.            *)
AddTransfer ==
  /\ At("add", "ExcludeWritten", "act")
  /\ TransferReady
  /\ \/ /\ TRUE \in CrossVolume
        /\ temp' = repo[rec.path]
        /\ same' = TRUE
        /\ Goto("install")
        /\ UNCHANGED <<repo, store>>
     \/ /\ FALSE \in CrossVolume
        /\ AddTransferable
        /\ store' = [store EXCEPT ![rec.path] = repo[rec.path]]
        /\ repo' = [repo EXCEPT ![rec.path] = Missing]
        /\ Goto("persist")
        /\ UNCHANGED <<temp, same>>
  /\ UNCHANGED <<backup, manifest, excl, kept, user, rec>>

AddInstall ==
  /\ At("add", "ExcludeWritten", "install")
  /\ AddTransferable
  /\ SourceAsExpected
  /\ store' = [store EXCEPT ![rec.path] = temp]
  /\ temp' = Missing
  /\ Goto("unlink")
  /\ UNCHANGED <<repo, backup, manifest, excl, kept, user, rec, same>>

(* Mutant: whatever is at the path now is taken for the copied source.     *)
AddUnlinkAnything ==
  /\ At("add", "ExcludeWritten", "unlink")
  /\ repo' = [repo EXCEPT ![rec.path] = Missing]
  /\ Goto("persist")
  /\ UNCHANGED <<store, backup, manifest, excl, kept, user, rec, temp, same>>

(* The source goes only if it is still the entry that was copied.          *)
AddUnlink ==
  /\ At("add", "ExcludeWritten", "unlink")
  /\ SourceAsExpected
  /\ repo' = [repo EXCEPT ![rec.path] = Missing]
  /\ Goto("persist")
  /\ UNCHANGED <<store, backup, manifest, excl, kept, user, rec, temp, same>>

(* Mutant: a recovered link replaces whatever is at the path.              *)
AddMaterializeOver ==
  /\ Doing("add", "StoreTransferred", "MaterializeRepo")
  /\ store[rec.path] # Missing
  /\ repo' = [repo EXCEPT ![rec.path] = Link]
  /\ Goto("persist")
  /\ UNCHANGED <<store, backup, manifest, excl, kept, user, rec, temp, same>>

(* The facts a Create is made on: nothing at the path, a canonical file.   *)
AddCreatable == repo[rec.path] = Missing /\ store[rec.path] # Missing

(* validate_add_materialization_preconditions and the journal's permit.    *)
AddMaterializable == AddCreatable /\ Permit(rec.path)

(* MaterializationAction::Create.  The journal's permit is needed at the   *)
(* commit, except for a recovered symlink (NoArtifactJournal); recovery    *)
(* looks at the Git index first.                                           *)
AddMaterialize ==
  /\ Doing("add", "StoreTransferred", "MaterializeRepo")
  /\ AddCreatable
  /\ Recovering => rec.path \notin tracked
  /\ IF rec.strategy = "symlink"
     THEN /\ Recovering \/ AddMaterializable
          /\ repo' = [repo EXCEPT ![rec.path] = Link]
          /\ Goto("persist")
          /\ UNCHANGED temp
     ELSE /\ temp' = store[rec.path]
          /\ Goto("install")
          /\ UNCHANGED repo
  /\ UNCHANGED <<store, backup, manifest, excl, kept, user, rec, same>>

(* Mutant: the copy is installed over a file that appeared meanwhile.      *)
AddInstallCopyOver ==
  /\ At("add", "StoreTransferred", "install")
  /\ Permit(rec.path)
  /\ repo' = [repo EXCEPT ![rec.path] = temp]
  /\ temp' = Missing
  /\ Goto("persist")
  /\ UNCHANGED <<store, backup, manifest, excl, kept, user, rec, same>>

AddInstallCopy ==
  /\ At("add", "StoreTransferred", "install")
  /\ AddMaterializable
  /\ repo' = [repo EXCEPT ![rec.path] = temp]
  /\ temp' = Missing
  /\ Goto("persist")
  /\ UNCHANGED <<store, backup, manifest, excl, kept, user, rec, same>>

AddSaveManifest ==
  /\ Doing("add", "RepoMaterialized", "SaveManifest")
  /\ manifest' = [manifest EXCEPT ![rec.path] = IF @ = "absent" THEN "attached" ELSE @]
  /\ Goto("persist")
  /\ UNCHANGED <<repo, store, backup, excl, kept, user, rec, temp, same>>

(* validate_add_postconditions in the command; recovery relies on the      *)
(* facts it has just matched.                                              *)
AddValidate ==
  /\ Doing("add", "ManifestSaved", "VerifyPostconditionsAndComplete")
  /\ Recovering \/ (IsMaterialized(rec.path, rec.strategy) /\ Permit(rec.path))
  /\ Goto("persist")
  /\ UNCHANGED <<disk, user, rec, temp, same>>

(* Mutant: the rollback removes an exclude it did not add.                 *)
AddRemoveAnyExclude ==
  /\ At("add", "ExcludeWritten", "RemoveOperationOwnedExclude")
  /\ excl' = excl \ {rec.path}
  /\ Goto("drop")
  /\ UNCHANGED <<repo, store, backup, manifest, kept, user, rec, temp, same>>

(* Rollback of an add whose exclude was written and nothing else.          *)
AddRemoveOwnedExclude ==
  /\ At("add", "ExcludeWritten", "RemoveOperationOwnedExclude")
  /\ excl' = IF rec.exclBefore THEN excl ELSE excl \ {rec.path}
  /\ Goto("drop")
  /\ UNCHANGED <<repo, store, backup, manifest, kept, user, rec, temp, same>>

(* manifest_fact, of the manifest as it is on disk.                        *)
AddManifestFact(p) == IF Managed(p) THEN "Present" ELSE "Absent"

(* collect_facts                                                           *)
AddFacts ==
  LET p == rec.path
      storeFact == IF store[p] = Missing THEN "Missing"
                   ELSE IF store[p] = rec.fp THEN "Source" ELSE "Unexpected"
      repoFact ==
        CASE repo[p] = Missing -> "Missing"
          [] repo[p] = Link -> IF storeFact = "Source" THEN "Materialized"
                               ELSE "Unexpected"
          [] OTHER -> IF repo[p] # rec.fp THEN "Unexpected"
                      ELSE IF storeFact = "Missing" THEN "Source"
                      ELSE IF storeFact = "Source" /\ rec.strategy = "copy"
                      THEN "Materialized" ELSE "Unexpected"
      exclFact == IF rec.phase = "RecordCreated" /\ (p \in excl) = rec.exclBefore
                  THEN "BeforeState"
                  ELSE IF p \in excl THEN "Present" ELSE "Unexpected"
  IN  <<repoFact, storeFact, AddManifestFact(p), exclFact>>

AddDecide == rec # NoRecord /\ rec.op = "add" /\ DecideWith(AddFacts)

AddStep ==
  \/ AddExclude \/ AddTransfer \/ AddInstall \/ AddUnlink
  \/ AddMaterialize \/ AddInstallCopy \/ AddSaveManifest \/ AddValidate
  \/ AddRemoveOwnedExclude \/ AddDecide
=============================================================================
