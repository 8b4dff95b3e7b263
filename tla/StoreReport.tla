----------------------------- MODULE StoreReport -----------------------------
(***************************************************************************)
(* store verify (ops/store_verify.rs) and the store side of repo status    *)
(* and repo gc (ops/integrity.rs): what a read-only report says of the     *)
(* store.  It scans without the lock, so it may be asked at any moment, in *)
(* the middle of a command or after one was stopped.  What it says of the  *)
(* materializations of one item is the matter of ItemStatus.               *)
(***************************************************************************)
EXTENDS StoreBook

(* scanner::scan and scan_issue.  A manifest of version 2 does not parse.  *)
ScanIssues ==
  {<<IF Format(i) = "none" THEN "StoreScanReadFailed" ELSE "StoreScanParseFailed", i>>
     : i \in Unreadable}

Scanned == {i \in Ids : manifest[i] # Nothing} \ Unreadable

(* check_canonical_store_item                                              *)
CanonicalIssues(i) == {<<"CanonicalStoreMissing", i, x>> : x \in {x \in Held(i) : <<i, x>> \notin files}}

(* What resolve_repo_read_only may find for a path, with any match of the  *)
(* index; nothing, if that has no manifest.                                *)
ResolvedReadOnly(r) ==
  {IF Format(j) = "none" THEN Nothing ELSE j : j \in Associated(r, CommonDir(r))}

(* verify_associated_local_repo.                                           *)
AssociationIssues(i) ==
  IF index[i] = Nothing \/ index[i].root = Nothing THEN {}
  ELSE IF ~Working(index[i].root) THEN {<<"LocalRepositoryUnavailable", i>>}
  ELSE IF ResolvedReadOnly(index[i].root) = {i} THEN {}
  ELSE {<<"LocalRepositoryAssociationMismatch", i>>}

VerifyIssues ==
  ScanIssues \cup UNION {CanonicalIssues(i) \cup AssociationIssues(i) : i \in Scanned}

(* collect_orphan_store_items                                              *)
OrphanStoreItems(i) == {x \in Items : <<i, x>> \in files /\ x \notin Held(i)}

(* An unfinished record or a running gc answers for the file.              *)
AnsweredFor(i, x) ==
  \/ \E rec \in records : rec.kind = "operation" /\ ~rec.final /\ rec.id = i /\ rec.item = x
  \/ \E p \in Procs : job[p] # Nothing /\ <<i, x>> \in job[p].plan

(***************************************************************************)
(* Properties                                                              *)
(***************************************************************************)
IssueCodes == {issue[1] : issue \in VerifyIssues}

(* Whenever it is asked, store verify misses no canonical file: whatever   *)
(* stopped, an add places before it saves, gc saves before it deletes, and *)
(* recovery of an add goes by the file (check_canonical_store_item).       *)
ItemsHaveFiles == "CanonicalStoreMissing" \notin IssueCodes

(* Nor does it find a path that the index gives to one RepoId and that     *)
(* resolves to another: though find_by_root takes any match of a hash map, *)
(* users clone, move and link checkouts, and reclaim, repair and           *)
(* rebuild-index rewrite the entries (verify_associated_local_repo).       *)
RootsUnambiguous == "LocalRepositoryAssociationMismatch" \notin IssueCodes

(* A canonical file gets out of every book, and into the list of files     *)
(* repo gc shows and nothing deletes, only when a gc stops between saving  *)
(* the manifest and deleting the file (ops/gc.rs run).                     *)
OrphansOnlyFromGc ==
  [][\A i \in Ids : \A x \in OrphanStoreItems(i)' :
       AnsweredFor(i, x)'
       \/ (x \in OrphanStoreItems(i) /\ ~AnsweredFor(i, x))
       \/ \E p \in Procs : job'[p] = Nothing /\ job[p] # Nothing /\ <<i, x>> \in job[p].plan]_bookVars
==============================================================================
