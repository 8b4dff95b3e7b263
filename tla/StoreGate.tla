------------------------------ MODULE StoreGate ------------------------------
(***************************************************************************)
(* How a command comes to write to the store: it waits for the lock, goes  *)
(* through the records that stopped commands left, and finds out which     *)
(* RepoId its checkout has.                                                *)
(***************************************************************************)
EXTENDS StoreState

(* A scan of repos/ fails at these directories.                            *)
Unreadable == {i \in Ids : manifest[i] # Nothing /\ Format(i) # "v3"}

(* load_or_init_manifest succeeds.                                         *)
Loadable(i) == Format(i) \in {"v3", "none"}

Newer == [kind |-> "newer"]

(* Mutant: gc collects what is unreachable, too.                           *)
CollectibleUnreachable(i) ==
  {x \in Held(i) : ItemsOf(i)[x] \in {"orphaned", "unreachable"}}

(* store gc deletes what is orphaned, and only that (gc_policy).           *)
Collectible(i) == {x \in Held(i) : ItemsOf(i)[x] = "orphaned"}

(* protected_store_paths: the canonical files unfinished records name.     *)
Protected ==
  {<<rec.id, rec.item>> : rec \in {r \in records : r.kind = "operation" /\ ~r.final}}

GcPlan == UNION {{<<i, x>> : x \in Collectible(i)} : i \in Ids} \ Protected

NewJob(cmd, step) ==
  [cmd |-> cmd, step |-> step, strict |-> strict, root |-> Nothing, common |-> Nothing,
   clone |-> Nothing, id |-> Nothing, plan |-> {}]

(***************************************************************************)
(* Without the lock                                                        *)
(***************************************************************************)
StartJob(p, j) ==
  /\ job[p] = Nothing /\ j.cmd \in StoreCommands
  /\ starts < MaxStarts
  /\ starts' = starts + 1
  /\ job' = [job EXCEPT ![p] = j]
  /\ UNCHANGED <<world, store, locking, acts, claims>>

(* item add and the other item commands.                                   *)
StartItem(p, r, cmd) ==
  /\ cmd \in {"add", "refresh"} /\ Working(r)
  /\ StartJob(p, [NewJob(cmd, "lock") EXCEPT !.root = r])

(* repo repair looks up the association before it waits for the lock.      *)
StartRepair(p, r, i) ==
  /\ Working(r) /\ i \in Associated(r, CommonDir(r))
  /\ StartJob(p, [NewJob("repair", "lock") EXCEPT !.root = r, !.id = i])

(* store gc shows its plan and asks before it waits for the lock.          *)
StartGc(p) ==
  /\ Newer \notin records
  /\ Unreadable = {} /\ GcPlan # {}
  /\ StartJob(p, NewJob("gc", "lock"))

(* Mutant: rebuild-index and migrate-manifests do not wait for the lock.   *)
StartStoreUnlocked(p, cmd) ==
  /\ cmd \in {"rebuild", "migrate"}
  /\ StartJob(p, NewJob(cmd, "run"))

StartStore(p, cmd) ==
  /\ cmd \in {"rebuild", "migrate"}
  /\ StartJob(p, NewJob(cmd, "lock"))

(* check_reclaim_precondition on the manifest of the current RepoId.       *)
ReclaimWelcome(r) ==
  LET current == Associated(r, CommonDir(r))
  IN  current = {} \/ \E i \in current : i \notin Unreadable /\ Held(i) = {}

(* The target is asked for, or picked from a list of all but the checkout's*)
(* own; the checkout is not looked at again.                               *)
StartReclaim(p, r, target) ==
  /\ Working(r) /\ ReclaimWelcome(r)
  /\ StartJob(p, [NewJob("reclaim", "lock") EXCEPT
                    !.root = r, !.common = CommonDir(r), !.clone = git[r], !.id = target])

(* Without a lock file there is nothing to wait for.                       *)
StartStatus(p, r) ==
  /\ git[r] # Nothing
  /\ StartJob(p, [NewJob("status", IF lockFile THEN "lock" ELSE "read") EXCEPT !.root = r])

RepoCommand(p) ==
  \E r \in Roots :
    \/ \E i \in Ids : StartRepair(p, r, i) \/ StartReclaim(p, r, i)
    \/ StartStatus(p, r)

StoreCommand(p) == StartGc(p) \/ \E cmd \in StoreCommands : StartStore(p, cmd)

Start(p) ==
  \/ \E r \in Roots, cmd \in StoreCommands : StartItem(p, r, cmd)
  \/ RepoCommand(p) \/ StoreCommand(p)

(* load_all and require_recovery_opt_in.                                   *)
RecordsAdmit(p) ==
  /\ Newer \notin records
  /\ job[p].strict => \A rec \in records : rec.strict

(* acquire_store_lock: a reader shares the lock, a writer does not.        *)
LockFree(access) == lock = Nothing /\ (access = "write" => readers = {})

(* With the lock the records are loaded, and the checkout is looked at     *)
(* again: it may have gone while the command waited.                       *)
Acquire(p) ==
  /\ AtStep(p, "lock") /\ job[p].cmd # "status"
  /\ LockFree("write")
  /\ lockFile' = TRUE
  /\ IF RecordsAdmit(p) /\ (ForRepo(p) => Working(job[p].root))
     THEN lock' = p /\ GoTo(p, "gate")
     ELSE lock' = Nothing /\ job' = [job EXCEPT ![p] = Nothing]
  /\ UNCHANGED <<world, store, readers, counts, claims>>

AcquireShared(p) ==
  /\ AtStep(p, "lock") /\ job[p].cmd = "status"
  /\ LockFree("read")
  /\ readers' = readers \cup {p}
  /\ GoTo(p, "read")
  /\ UNCHANGED <<world, store, lock, lockFile, counts, claims>>

(***************************************************************************)
(* The recovery gate                                                       *)
(***************************************************************************)

Owned(p, rec) == ForRepo(p) /\ rec.root = job[p].root

(* Records any command, or a command of any repository, may finish with.   *)
Stale(rec) == rec.kind = "operation" /\ rec.final

(* Mutant: an artifact is cleaned up from any repository.                  *)
CleanableByAnyone(p, rec) == Stale(rec) \/ rec.kind = "artifact"

(* artifact_path: a file in a working tree is found from its own root only.*)
ArtifactPath(p, rec) == rec.kind = "artifact" /\ (rec.side = "store" \/ Owned(p, rec))

Cleanable(p, rec) == Stale(rec) \/ ArtifactPath(p, rec)

Interrupted(p, rec) ==
  rec.kind = "operation" /\ ~rec.final /\ Owned(p, rec) /\ Loadable(rec.id)

CleanRecord(p, rec) ==
  /\ AtStep(p, "gate") /\ Cleanable(p, rec)
  /\ records' = records \ {rec}
  /\ UNCHANGED <<world, index, manifest, files, locking, job, counts, claims>>

(* The manifest with one more attached item.                               *)
Listed(i, x) ==
  [format |-> "v3", items |-> [ItemsOf(i) EXCEPT ![x] = "attached"]]

(* Mutant: it goes forward even without the canonical file.                *)
RecoverForward(p, rec) ==
  /\ AtStep(p, "gate") /\ Interrupted(p, rec)
  /\ manifest' = [manifest EXCEPT ![rec.id] = Listed(rec.id, rec.item)]
  /\ records' = records \ {rec}
  /\ UNCHANGED <<world, index, files, locking, job, counts, claims>>

(* Mutant: the record goes and the manifest is left alone.                 *)
RecoverForget(p, rec) ==
  /\ AtStep(p, "gate") /\ Interrupted(p, rec)
  /\ records' = records \ {rec}
  /\ UNCHANGED <<world, index, manifest, files, locking, job, counts, claims>>

(* An interrupted add goes forward from the canonical file, or is undone.  *)
RecoverRecord(p, rec) ==
  /\ AtStep(p, "gate") /\ Interrupted(p, rec)
  /\ manifest' = IF <<rec.id, rec.item>> \in files
                 THEN [manifest EXCEPT ![rec.id] = Listed(rec.id, rec.item)] ELSE manifest
  /\ records' = records \ {rec}
  /\ UNCHANGED <<world, index, files, locking, job, counts, claims>>

Blocked(p, rec) ==
  /\ AtStep(p, "gate") /\ ~Cleanable(p, rec) /\ ~Interrupted(p, rec)
  /\ Leave(p)
  /\ UNCHANGED <<world, store, counts, claims>>

(* Mutant: other repositories' artifacts do not keep a command out.        *)
PassedOthers(p) ==
  /\ AtStep(p, "gate")
  /\ \A rec \in records : rec.kind = "artifact" /\ ~Cleanable(p, rec)
  /\ GoTo(p, IF ForRepo(p) THEN "resolve" ELSE "run")
  /\ UNCHANGED <<world, store, locking, counts, claims>>

Passed(p) ==
  /\ AtStep(p, "gate") /\ records = {}
  /\ GoTo(p, IF ForRepo(p) THEN "resolve" ELSE "run")
  /\ UNCHANGED <<world, store, locking, counts, claims>>

Gate(p) ==
  \/ \E rec \in records : CleanRecord(p, rec) \/ RecoverRecord(p, rec) \/ Blocked(p, rec)
  \/ Passed(p)

(***************************************************************************)
(* resolve_repo: the RepoId of the checkout, by its path, else by its      *)
(* common Git directory, else a fresh one.                                 *)
(***************************************************************************)
Fresh == {i \in Ids : /\ index[i] = Nothing /\ manifest[i] = Nothing
                      /\ \A k \in Clones : <<k, i>> \notin claims}

Registered(r, i) ==
  IF Indexed("root", r) # {} THEN index
  ELSE [index EXCEPT ![i] = [root |-> r, common |-> CommonDir(r)]]

(* repo repair stops when the lock was waited for and the RepoId changed.  *)
Usable(p, i) ==
  /\ Loadable(i)
  /\ job[p].cmd = "repair" => job[p].id = i

AfterResolve == [add |-> "begin", refresh |-> "begin", repair |-> "run"]

Resolve(p, i) ==
  LET r == job[p].root
      known == Associated(r, CommonDir(r))
  IN  /\ AtStep(p, "resolve")
      /\ i \in IF known # {} THEN known ELSE Fresh
      /\ index' = Registered(r, i)
      /\ claims' = IF known = {} THEN claims \cup ({git[r]} \ {Nothing}) \X {i} ELSE claims
      /\ IF Usable(p, i)
         THEN /\ job' = [job EXCEPT ![p].id = i, ![p].clone = git[r],
                                     ![p].step = AfterResolve[job[p].cmd]]
              /\ UNCHANGED locking
         ELSE Leave(p)
      /\ UNCHANGED <<world, manifest, files, records, counts>>
=============================================================================
