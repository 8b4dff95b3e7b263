------------------------------ MODULE SyncItem ------------------------------
(***************************************************************************)
(* item sync (ops/sync.rs): a diverged copy of an attached item and its    *)
(* canonical file are made equal, in the direction the user names.  Equal  *)
(* copies and symlinks are left alone; everything else is refused.         *)
(***************************************************************************)
EXTENDS ArtifactJournal

(* validate_recorded_fingerprints                                          *)
AsRecorded == repo = rec.repoFp /\ store = rec.storeFp

(* validate_synchronized_fingerprints                                      *)
Synchronized == repo = Winner(rec) /\ store = Winner(rec)

(* validate_store_facts: an isolated regular canonical file.               *)
SyncStoreIntact == store \in Contents

(* sync_state                                                              *)
SyncState ==
  CASE RepoKind = "RegularFile" -> CopyContent
    [] RepoKind \in {"ManagedSymlink", "Missing"} -> RepoKind
    [] OTHER -> "Unsafe"

(* build_sync_plan; what is equal already needs no record and is no step.  *)
SyncBegin(dir) ==
  /\ owner = "attached" /\ Integrated
  /\ SyncStoreIntact
  /\ SyncState = "Diverged"
  /\ Create("sync", dir)
  /\ IF dir = "FromStore" THEN Start("sync", "copy", "repo", "reserve")
                          ELSE Start("sync", "copy", "store", "inspect")
  /\ UNCHANGED <<durable, journal, user, raced>>

SyncCommand == \E dir \in Directions : SyncBegin(dir)

(* canonical_expected: the snapshot a sync from the working tree commits   *)
(* under is taken after its record exists.                                 *)
SyncInspect ==
  /\ For("sync", "inspect")
  /\ repo \in Contents
  /\ Inspected("reserve")
  /\ UNCHANGED <<durable, journal, user, rec, raced>>

(* Mutant: the identity of the entries is trusted for their content.       *)
SyncCheckKinds ==
  /\ For("sync", "check") /\ rec # NoRecord
  /\ {repo, store} \subseteq Contents /\ repo # store
  /\ CommitPermit
  /\ Goto("commit")
  /\ UNCHANGED <<durable, journal, user, rec, raced>>

(* validate_write_facts: the copy still diverges, and is still ignored.    *)
WriteFacts == SyncStoreIntact /\ SyncState = "Diverged" /\ Integrated

(* validate_transfer_write_facts: two regular files, whatever they hold.   *)
TransferWriteFacts == {repo, store} \subseteq Contents /\ Integrated

(* What each direction asks of the entries it found, the fingerprints the  *)
(* record has of both, then the journal, which asks Git again.             *)
SyncCheck ==
  /\ For("sync", "check") /\ rec # NoRecord
  /\ IF job.into = "repo" THEN WriteFacts ELSE TransferWriteFacts
  /\ AsRecorded
  /\ CommitPermit
  /\ Goto("commit")
  /\ UNCHANGED <<durable, journal, user, rec, raced>>

SyncCommit ==
  /\ For("sync", "commit")
  /\ \/ job.into = "repo" /\ CommitToRepo /\ UNCHANGED store
     \/ job.into = "store" /\ CommitToStore /\ UNCHANGED repo
  /\ Goto("persist") /\ Committed
  /\ UNCHANGED <<backup, owner, excl, tempExcl, linkTemp, art, user, rec>>

SyncPersist ==
  /\ For("sync", "persist") /\ rec # NoRecord
  /\ Persist(IF NextPhaseOf(rec) = "ContentSynchronized" THEN "post" ELSE "cleanfile")

SyncPost ==
  /\ For("sync", "post") /\ rec # NoRecord
  /\ Synchronized
  /\ Integrated
  /\ Goto("persist")
  /\ UNCHANGED <<durable, journal, user, rec, raced>>

(* collect_recovery_facts                                                  *)
SyncFacts ==
  << IF ~Integrated \/ ~({repo, store} \subseteq Contents) THEN "Unexpected"
     ELSE IF AsRecorded THEN "BeforeReplacement"
     ELSE IF Synchronized THEN "Synchronized"
     ELSE "Unexpected" >>

SyncStep == SyncInspect \/ SyncCheck \/ SyncCommit \/ SyncPersist \/ SyncPost
=============================================================================
