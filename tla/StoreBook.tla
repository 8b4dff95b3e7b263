------------------------------ MODULE StoreBook ------------------------------
(***************************************************************************)
(* The commands that change the store, each behind the gate, and the       *)
(* properties of the store they share.                                     *)
(***************************************************************************)
EXTENDS StoreGate

(***************************************************************************)
(* item add: record, directory and canonical file, manifest entry, final   *)
(* phase, record gone.                                                     *)
(***************************************************************************)
Operation(p, x) ==
  [kind |-> "operation", root |-> job[p].root, strict |-> job[p].strict, final |-> FALSE,
   id |-> job[p].id, item |-> x]

Artifact(p, side) ==
  [kind |-> "artifact", root |-> job[p].root, strict |-> job[p].strict, side |-> side]

(* The record this command wrote: the gate left no other.                  *)
Own(p, rec) ==
  /\ job[p] # Nothing
  /\ rec.kind \in {"operation", "artifact"}
  /\ rec.root = job[p].root /\ rec.strict = job[p].strict
  /\ rec.kind = "operation" => rec.id = job[p].id

BeginAdd(p, x) ==
  /\ AtStep(p, "begin") /\ job[p].cmd = "add"
  /\ x \notin Held(job[p].id) /\ <<job[p].id, x>> \notin files
  /\ records' = records \cup {Operation(p, x)}
  /\ GoTo(p, "place")
  /\ UNCHANGED <<world, index, manifest, files, locking, counts, claims>>

(* The path is managed already, or the canonical path is taken.            *)
RefuseAdd(p, x) ==
  /\ AtStep(p, "begin") /\ job[p].cmd = "add"
  /\ x \in Held(job[p].id) \/ <<job[p].id, x>> \in files
  /\ Leave(p)
  /\ UNCHANGED <<world, store, counts, claims>>

Place(p, rec) ==
  /\ AtStep(p, "place")
  /\ files' = files \cup {<<rec.id, rec.item>>}
  /\ manifest' = [manifest EXCEPT ![rec.id] =
                    IF @ = Nothing THEN [format |-> "none", items |-> NoItems] ELSE @]
  /\ GoTo(p, "save")
  /\ UNCHANGED <<world, index, records, locking, counts, claims>>

(* The context's manifest, read by resolve_repo, with the new entry.       *)
SaveAdded(p, rec) ==
  /\ AtStep(p, "save")
  /\ manifest' = [manifest EXCEPT ![rec.id] = Listed(rec.id, rec.item)]
  /\ GoTo(p, "final")
  /\ UNCHANGED <<world, index, files, records, locking, counts, claims>>

Finalize(p, rec) ==
  /\ AtStep(p, "final")
  /\ records' = (records \ {rec}) \cup {[rec EXCEPT !.final = TRUE]}
  /\ GoTo(p, "drop")
  /\ UNCHANGED <<world, index, manifest, files, locking, counts, claims>>

(* The other item commands write temporary files of their own.             *)
BeginRefresh(p, side) ==
  /\ AtStep(p, "begin") /\ job[p].cmd = "refresh"
  /\ records' = records \cup {Artifact(p, side)}
  /\ GoTo(p, "drop")
  /\ UNCHANGED <<world, index, manifest, files, locking, counts, claims>>

DropRecord(p, rec) ==
  /\ AtStep(p, "drop")
  /\ records' = records \ {rec}
  /\ Leave(p)
  /\ UNCHANGED <<world, index, manifest, files, counts, claims>>

ItemCommand(p) ==
  \/ \E x \in Items : BeginAdd(p, x) \/ RefuseAdd(p, x)
  \/ \E side \in {"repo", "store"} : BeginRefresh(p, side)
  \/ \E rec \in records :
       /\ Own(p, rec)
       /\ Place(p, rec) \/ SaveAdded(p, rec) \/ Finalize(p, rec) \/ DropRecord(p, rec)

(***************************************************************************)
(* repo repair: the index follows the checkout.                            *)
(***************************************************************************)
RepairIndex(p) ==
  LET r == job[p].root
      i == job[p].id
  IN  /\ AtStep(p, "run") /\ job[p].cmd = "repair"
      /\ index' = IF Working(r) /\ i \in Associated(r, CommonDir(r))
                  THEN [index EXCEPT ![i] = [root |-> r, common |-> CommonDir(r)]]
                  ELSE index
      /\ Leave(p)
      /\ UNCHANGED <<world, manifest, files, records, counts, claims>>

(***************************************************************************)
(* repo status                                                             *)
(***************************************************************************)
ReadIndex(p) ==
  LET r == job[p].root
      readable == {i \in Associated(r, CommonDir(r)) : Format(i) = "v3"}
  IN  /\ AtStep(p, "read")
      /\ IF Working(r) /\ readable # {}
         THEN /\ \E i \in readable : job' = [job EXCEPT ![p].id = i, ![p].step = "report"]
              /\ UNCHANGED locking
         ELSE Leave(p)
      /\ UNCHANGED <<world, store, counts, claims>>

Report(p) ==
  /\ AtStep(p, "report")
  /\ Leave(p)
  /\ UNCHANGED <<world, store, counts, claims>>

(***************************************************************************)
(* store gc: planned again under the lock; per repository the manifest is  *)
(* saved without the items, then their files are deleted one by one.       *)
(***************************************************************************)
PlanGc(p) ==
  /\ AtStep(p, "run") /\ job[p].cmd = "gc"
  /\ IF Unreadable = {} /\ GcPlan # {}
     THEN /\ job' = [job EXCEPT ![p].step = "collect", ![p].plan = GcPlan]
          /\ UNCHANGED locking
     ELSE Leave(p)
  /\ UNCHANGED <<world, store, counts, claims>>

Collect(p, i) ==
  LET planned == {x \in Items : <<i, x>> \in job[p].plan}
  IN  /\ AtStep(p, "collect") /\ planned # {}
      /\ IF i \in Unreadable
         THEN Leave(p) /\ UNCHANGED manifest
         ELSE /\ manifest' = [manifest EXCEPT ![i].items =
                                [x \in Items |-> IF x \in planned THEN "absent" ELSE @[x]]]
              /\ GoTo(p, "delete")
              /\ UNCHANGED locking
      /\ UNCHANGED <<world, index, files, records, counts, claims>>

DeleteFile(p, i, x) ==
  LET rest == job[p].plan \ {<<i, x>>}
  IN  /\ AtStep(p, "delete")
      /\ <<i, x>> \in job[p].plan /\ x \notin Held(i)
      /\ files' = files \ {<<i, x>>}
      /\ IF rest = {} THEN Leave(p)
         ELSE /\ job' = [job EXCEPT ![p].plan = rest, ![p].step =
                           IF \E y \in Items : <<i, y>> \in rest THEN "delete" ELSE "collect"]
              /\ UNCHANGED locking
      /\ UNCHANGED <<world, index, manifest, records, counts, claims>>

GcCommand(p) ==
  \/ PlanGc(p)
  \/ \E i \in Ids : Collect(p, i) \/ \E x \in Items : DeleteFile(p, i, x)

(***************************************************************************)
(* store rebuild-index: one entry for each manifest that can be read, none *)
(* with a checkout.                                                        *)
(***************************************************************************)
RebuildIndex(p) ==
  /\ AtStep(p, "run") /\ job[p].cmd = "rebuild"
  /\ index' = [i \in Ids |-> IF Format(i) = "v3" THEN [root |-> Nothing, common |-> Nothing]
                             ELSE Nothing]
  /\ Leave(p)
  /\ UNCHANGED <<world, manifest, files, records, counts, claims>>

(***************************************************************************)
(* store migrate-manifests: the manifests of version 2, one after another. *)
(***************************************************************************)

(* Mutant: an adopted item of version 2 keeps the state of that name.      *)
ConvertedStale(state) == IF state = "stale" THEN "unreachable" ELSE state

Converted(state) ==
  CASE state = "stale"   -> "unreachable"
    [] state = "adopted" -> "detached"
    [] OTHER             -> state

Legacy == {i \in Ids : Format(i) = "v2"}

Migrate(p) ==
  /\ AtStep(p, "run") /\ job[p].cmd = "migrate"
  /\ IF Legacy = {} THEN Leave(p) /\ UNCHANGED manifest
     ELSE /\ \E i \in Legacy :
               manifest' = [manifest EXCEPT ![i] =
                 [format |-> "v3", items |-> [x \in Items |-> Converted(@.items[x])]]]
          /\ UNCHANGED <<job, locking>>
  /\ UNCHANGED <<world, index, files, records, counts, claims>>

(***************************************************************************)
(* repo reclaim: the checkout found before the lock gets the chosen RepoId;*)
(* every other RepoId of its path or its common directory loses it.        *)
(***************************************************************************)

(* plan_reclaim: one directory that cannot be read refuses every reclaim.  *)
Reclaimable(i) == Unreadable = {} /\ manifest[i] # Nothing

(* Mutant: entries that had the path before are left in the index.         *)
ReclaimBeside(p) ==
  LET j == job[p]
  IN  /\ AtStep(p, "run") /\ j.cmd = "reclaim"
      /\ IF Reclaimable(j.id)
         THEN /\ index' = [index EXCEPT ![j.id] = [root |-> j.root, common |-> j.common]]
              /\ claims' = claims \cup {<<j.clone, j.id>>}
         ELSE UNCHANGED <<index, claims>>
      /\ Leave(p)
      /\ UNCHANGED <<world, manifest, files, records, counts>>

(* plan_reclaim: those it takes the path or the common directory from.     *)
Displaced(j) == (Indexed("root", j.root) \cup Indexed("common", j.common)) \ {j.id}

Reclaim(p) ==
  LET j == job[p]
      others == Displaced(j)
  IN  /\ AtStep(p, "run") /\ j.cmd = "reclaim"
      /\ IF Reclaimable(j.id)
         THEN /\ index' = [i \in Ids |->
                             IF i = j.id THEN [root |-> j.root, common |-> j.common]
                             ELSE IF i \in others THEN Nothing ELSE index[i]]
              /\ claims' = claims \cup {<<j.clone, j.id>>}
         ELSE UNCHANGED <<index, claims>>
      /\ Leave(p)
      /\ UNCHANGED <<world, manifest, files, records, counts>>

(***************************************************************************)
(* The specification                                                       *)
(***************************************************************************)
Run(p) ==
  \/ Acquire(p) \/ AcquireShared(p)
  \/ Gate(p)
  \/ \E i \in Ids : Resolve(p, i)
  \/ ItemCommand(p) \/ RepairIndex(p)
  \/ ReadIndex(p) \/ Report(p)
  \/ GcCommand(p) \/ RebuildIndex(p) \/ Migrate(p) \/ Reclaim(p)

(* Nobody has to start another command: with the bounds used up the store  *)
(* may rest, but only with no command under way.                           *)
Rest == (\A p \in Procs : job[p] = Nothing) /\ UNCHANGED bookVars

BookNext ==
  \/ \E p \in Procs : Start(p) \/ Run(p) \/ Abandon(p)
  \/ StoreUserAct
  \/ Rest

BookSpec == StoreInit /\ [][BookNext]_bookVars

(***************************************************************************)
(* Properties                                                              *)
(***************************************************************************)
PastTheGate == {"resolve", "begin", "place", "save", "final", "drop", "run", "collect", "delete"}

(* A command that writes to the store is alone with it: it holds the lock  *)
(* and, but for its own record, every record has been dealt with, those of *)
(* other repositories and of newer versions included                       *)
(* (recover_before_mutation).                                              *)
GateClears ==
  \A p \in Procs : job[p] # Nothing /\ job[p].step \in PastTheGate =>
    lock = p /\ readers = {} /\ \A rec \in records : Own(p, rec)

(* While a command works for a RepoId, or a status that found the lock file*)
(* reports on one, the index goes on associating its path with that RepoId.*)
(* Users may do with the checkout what they like meanwhile.                *)
WorksOnAssociated ==
  \A p \in Procs :
    job[p] # Nothing /\ job[p].id # Nothing /\ (p \in readers \/ lock = p)
    /\ job[p].step \in {"begin", "place", "save", "final", "drop", "report"}
    => \/ index[job[p].id] # Nothing
       /\ \A i \in Indexed("root", job[p].root) : i = job[p].id

(* A record goes when its owner's repository is worked on again, or when   *)
(* there is nothing left to recover; a best-effort one never at the hand of*)
(* a command that requires durability; one of a newer version by no command*)
(* at all (require_recovery_opt_in, load_all).                             *)
RecordsOnlyByOwner ==
  [][\A rec \in (records \ records') \ {Newer} :
       \E p \in Procs :
         /\ lock = p
         /\ job[p].strict => rec.strict
         /\ \/ rec.root = job[p].root
            \/ Stale(rec)
            \/ rec.kind = "artifact" /\ rec.side = "store"]_bookVars

(* StoreCatalog, with the manifests of version 2 read as they will be      *)
(* converted.                                                              *)
Catalog == INSTANCE StoreCatalog WITH
  catalog <- [i \in Ids |-> [x \in Items |-> Converted(ItemsOf(i)[x])]]

ImplementsCatalog == Catalog!CatalogSpec

(* "Association between the current clone and an existing `RepoId` may     *)
(* only happen through explicit `repo reclaim`."                           *)
(* (docs/spec/ownership-model.md:54)                                       *)
NoSilentTakeover ==
  \A p \in Procs :
    job[p] # Nothing /\ job[p].step = "begin" /\ job[p].clone # Nothing
    => <<job[p].clone, job[p].id>> \in claims
=============================================================================
