------------------------------ MODULE MoveItem ------------------------------
(***************************************************************************)
(* `shelfbox move` (ops/move_item.rs) and the recovery of its record       *)
(* (ops/lifecycle_recovery.rs).  rec.path is the old path of the item and  *)
(* rec.dest the new one.  Both canonical files live in one store, so the   *)
(* canonical move is a rename.                                             *)
(***************************************************************************)
EXTENDS ShelfState

(* ItemMovePlan::build                                                     *)
MovePlanned(old, new) ==
  /\ Managed(old) /\ ~Managed(new)
  /\ repo[new] = Missing /\ new \notin tracked
  /\ store[old] # Missing
  /\ IsMaterialized(old, ObservedStrategy(old))

(* The checks of execute_move up to its durable record.                    *)
MoveBegin(old, new) ==
  /\ old # new
  /\ MovePlanned(old, new)
  /\ old \notin tracked /\ old \in excl
  /\ Begin("move", [op |-> "move", phase |-> "RecordCreated", path |-> old, dest |-> new,
                    strategy |-> ObservedStrategy(old), fp |-> store[old],
                    exclBefore |-> TRUE, keepIgnore |-> FALSE, backupKnown |-> FALSE])

(* validate_move_integration                                               *)
MoveIntegration ==
  /\ {rec.path, rec.dest} \cap tracked = {}
  /\ {rec.path, rec.dest} \subseteq excl

MoveExclude ==
  /\ At("move", "RecordCreated", "act")
  /\ excl' = excl \cup {rec.dest}
  /\ Goto("persist")
  /\ UNCHANGED <<repo, store, backup, manifest, kept, user, rec, temp, same>>

(* ensure_store_move_facts                                                 *)
MoveStoreAsFound == TransferReady

MoveTransfer ==
  /\ At("move", "DestinationExcluded", "act")
  /\ MoveStoreAsFound
  /\ MoveIntegration
  /\ MoveCanonical
  /\ Goto("persist")
  /\ UNCHANGED <<repo, manifest, excl, kept, user, rec, temp, same>>

(* The command removes the entry it saw before the record was written if   *)
(* it is still of that kind and identity; its content is not compared      *)
(* again.  Recovery wants the entry to be materialized, which a copy is    *)
(* not once its canonical file has moved.                                  *)
MoveRemoveOld ==
  /\ Doing("move", "StoreTransferred", "MoveRepoMaterialization")
  /\ IF Recovering
     THEN IsMaterialized(rec.path, rec.strategy) /\ Permit(rec.dest)
     ELSE /\ repo[rec.path] # Missing /\ ObservedStrategy(rec.path) = rec.strategy
          /\ same
          /\ MoveIntegration
  /\ repo' = [repo EXCEPT ![rec.path] = Missing]
  /\ Goto("create")
  /\ UNCHANGED <<store, backup, manifest, excl, kept, user, rec, temp, same>>

MoveCreatePermit == Permit(rec.dest) /\ (Recovering \/ MoveIntegration)

MoveCreateNew ==
  /\ At("move", "StoreTransferred", "create")
  /\ repo[rec.dest] = Missing
  /\ IF rec.strategy = "symlink"
     THEN /\ MoveCreatePermit
          /\ repo' = [repo EXCEPT ![rec.dest] = Link]
          /\ Goto("persist")
          /\ UNCHANGED temp
     ELSE /\ store[rec.dest] # Missing
          /\ temp' = store[rec.dest]
          /\ Goto("install")
          /\ UNCHANGED repo
  /\ UNCHANGED <<store, backup, manifest, excl, kept, user, rec, same>>

MoveInstallNew ==
  /\ At("move", "StoreTransferred", "install")
  /\ repo[rec.dest] = Missing
  /\ MoveCreatePermit
  /\ repo' = [repo EXCEPT ![rec.dest] = temp]
  /\ temp' = Missing
  /\ Goto("persist")
  /\ UNCHANGED <<store, backup, manifest, excl, kept, user, rec, same>>

(* Mutant: the item is recorded at its new path and stays at the old one.  *)
MoveCopyManifest ==
  /\ Doing("move", "RepoMoved", "SaveManifest")
  /\ manifest' = [manifest EXCEPT ![rec.dest] = manifest[rec.path]]
  /\ Goto("persist")
  /\ UNCHANGED <<repo, store, backup, excl, kept, user, rec, temp, same>>

(* Manifest::rename keeps the item's ownership state.                      *)
MoveSaveManifest ==
  /\ Doing("move", "RepoMoved", "SaveManifest")
  /\ manifest' = [manifest EXCEPT ![rec.path] = "absent",
                                  ![rec.dest] = manifest[rec.path]]
  /\ Goto("persist")
  /\ UNCHANGED <<repo, store, backup, excl, kept, user, rec, temp, same>>

MoveDropOldExclude ==
  /\ Doing("move", "ManifestSaved", "RemoveOldExclude")
  /\ Recovering \/ rec.dest \in excl
  /\ excl' = excl \ {rec.path}
  /\ kept' = kept \ {rec.path}
  /\ Goto("persist")
  /\ UNCHANGED <<repo, store, backup, manifest, user, rec, temp, same>>

MoveValidate ==
  /\ Doing("move", "ExcludeFinalized", "VerifyPostconditionsAndComplete")
  /\ Recovering \/ /\ store[rec.dest] # Missing
                   /\ IsMaterialized(rec.dest, rec.strategy)
                   /\ Managed(rec.dest) /\ ~Managed(rec.path)
  /\ Goto("persist")
  /\ UNCHANGED <<disk, user, rec, temp, same>>

(* remove_owned_exclude acts only when exclude_owned is Some(false), and   *)
(* the record of a move always says Some(true).                            *)
MoveRemoveOwnedExclude ==
  /\ At("move", "DestinationExcluded", "RemoveOperationOwnedExclude")
  /\ excl' = IF rec.exclBefore THEN excl ELSE excl \ {rec.path}
  /\ Goto("drop")
  /\ UNCHANGED <<repo, store, backup, manifest, kept, user, rec, temp, same>>

(* move_facts                                                              *)
MoveFacts ==
  LET old == rec.path
      new == rec.dest
      repoFact == IF IsMaterialized(old, rec.strategy) /\ repo[new] = Missing
                  THEN "OldMaterialized"
                  ELSE IF repo[old] = Missing /\ IsMaterialized(new, rec.strategy)
                  THEN "NewMaterialized" ELSE "Unexpected"
      storeFact == IF store[old] = rec.fp /\ store[new] = Missing THEN "OldPresent"
                   ELSE IF store[old] = Missing /\ store[new] = rec.fp THEN "NewPresent"
                   ELSE "Unexpected"
      manifestFact == CASE Managed(old) /\ ~Managed(new) -> "OldPath"
                        [] ~Managed(old) /\ Managed(new) -> "NewPath"
                        [] OTHER -> "Unexpected"
      exclFact == CASE old \in excl /\ new \notin excl -> "BeforeState"
                    [] old \in excl /\ new \in excl -> "OldAndNew"
                    [] old \notin excl /\ new \in excl -> "NewOnly"
                    [] OTHER -> "Unexpected"
  IN  <<repoFact, storeFact, manifestFact, exclFact>>

MoveDecide == rec # NoRecord /\ rec.op = "move" /\ DecideWith(MoveFacts)

MoveStep ==
  \/ MoveExclude \/ MoveTransfer \/ MoveRemoveOld \/ MoveCreateNew
  \/ MoveInstallNew \/ MoveSaveManifest \/ MoveDropOldExclude \/ MoveValidate
  \/ MoveRemoveOwnedExclude \/ MoveDecide
=============================================================================
