----------------------------- MODULE RefreshItem -----------------------------
(***************************************************************************)
(* item repair, repo repair and item materialize (ops/repair.rs,           *)
(* ops/materialize.rs).                                                    *)
(* Repair creates the entry of an attached item where there is none, and   *)
(* with force replaces a foreign symlink; it never touches a regular file. *)
(* Repo repair puts back the excludes first, which item repair does not.   *)
(* Materialize turns the managed symlink into a copy, or an equal copy     *)
(* into a symlink; a diverged copy it refuses.  Neither writes a record:   *)
(* the only thing to recover is a temp, which its artifact record covers.  *)
(***************************************************************************)
EXTENDS ArtifactJournal

FirstStep(strategy) == IF strategy = "copy" THEN "reserve" ELSE "check"

(* repair_materialization_state                                            *)
RepairState ==
  IF store = Missing THEN "StoreMissing"
  ELSE IF RepoKind = "RegularFile" THEN CopyContent ELSE RepoKind

(* decide_materialization_repair and the symlink policy: what needs no     *)
(* repair, or must not be repaired, changes nothing and is no step.        *)
Repairable(force) ==
  /\ owner = "attached"
  /\ RepairState = "Missing" \/ (RepairState = "UnmanagedSymlink" /\ force)

RepairBegin(strategy, force) ==
  /\ Repairable(force)
  /\ Integrated
  /\ Start("repair", strategy, "repo", FirstStep(strategy))
  /\ UNCHANGED <<durable, journal, user, rec, raced>>

(* Mutant: repo repair is as exclude-neutral as item repair.               *)
RepoRepairNeutral(strategy, force) ==
  /\ excl
  /\ Start(IF Repairable(force) THEN "repair" ELSE "integrate", strategy, "repo", "exclude")
  /\ UNCHANGED <<durable, journal, user, rec, raced>>

(* repo_repair_exclude_paths: the index knows the RepoId, so a detached    *)
(* item gets its exclude too.                                              *)
DesiredExclude == owner \in {"attached", "detached"}

(* repo repair plans the entries against the excludes there are to be: with*)
(* all of them there it is item repair.                                    *)
RepoRepairBegin(strategy, force) ==
  /\ excl # DesiredExclude
  /\ Start(IF Repairable(force) THEN "repair" ELSE "integrate", strategy, "repo", "exclude")
  /\ UNCHANGED <<durable, journal, user, rec, raced>>

(* item repair and repo repair, with and without --force.                  *)
RepairCommand ==
  \E strategy \in {"symlink", "copy"}, force \in BOOLEAN :
    RepairBegin(strategy, force) \/ RepoRepairBegin(strategy, force)

(* update_entries replaces the block, and entries_match reads it again.    *)
RepairExclude ==
  /\ At("exclude") /\ job.cmd \in {"repair", "integrate"}
  /\ excl' = DesiredExclude
  /\ IF job.cmd = "integrate" THEN Exit ELSE Goto("excluded")
  /\ UNCHANGED <<repo, store, backup, owner, journal, user, rec, raced>>

(* execute_repair_action looks at the entry again: what it finds now is    *)
(* what it is going to replace.                                            *)
RepairInspect ==
  /\ For("repair", "excluded")
  /\ Integrated /\ store # Missing
  /\ repo \in {Missing, Foreign}
  /\ job' = [job EXCEPT !.found = IF repo = Missing THEN "Missing" ELSE "Present"]
  /\ pc' = FirstStep(job.strategy) /\ same' = TRUE
  /\ UNCHANGED <<turns, durable, journal, user, rec, raced>>

(* validate_store_facts                                                    *)
StoreIntact == store # Missing

(* materialize_state                                                       *)
MaterializeState ==
  CASE RepoKind = "RegularFile" /\ CopyContent # "NotCompared" -> CopyContent
    [] RepoKind \in {"ManagedSymlink", "Missing"} -> RepoKind
    [] OTHER -> "Unsafe"

(* decide_materialize: the one state each strategy replaces.               *)
Replaceable(strategy) ==
  /\ StoreIntact
  /\ MaterializeState = IF strategy = "copy" THEN "ManagedSymlink" ELSE "Equal"

(* matches_requested_strategy, which the postconditions of repair repeat.  *)
Materialized(strategy) ==
  IF strategy = "copy" THEN CopyContent = "Equal" ELSE RepoKind = "ManagedSymlink"

MaterializeBegin(strategy) ==
  /\ Integrated
  /\ Replaceable(strategy)
  /\ Start("materialize", strategy, "repo", FirstStep(strategy))
  /\ UNCHANGED <<durable, journal, user, rec, raced>>

RepairCheck ==
  /\ For("repair", "check")
  /\ repo \notin Contents /\ store # Missing
  /\ CommitPermit
  /\ Goto("commit")
  /\ UNCHANGED <<durable, journal, user, rec, raced>>

(* Mutant: the state that made the plan is not checked again.              *)
MaterializeCheckStale ==
  /\ For("materialize", "check")
  /\ CommitPermit
  /\ Goto("commit")
  /\ UNCHANGED <<durable, journal, user, rec, raced>>

(* validate_precommit_facts                                                *)
MaterializeCheck ==
  /\ For("materialize", "check")
  /\ Replaceable(job.strategy)
  /\ CommitPermit
  /\ Goto("commit")
  /\ UNCHANGED <<durable, journal, user, rec, raced>>

Refreshing == job # NoJob /\ job.cmd \in {"repair", "materialize"}

RefreshCopy ==
  /\ Refreshing /\ pc = "commit" /\ job.strategy = "copy"
  /\ CommitToRepo
  /\ Goto("post") /\ Committed
  /\ UNCHANGED <<store, backup, owner, excl, tempExcl, linkTemp, art, user, rec>>

RefreshCreate ==
  /\ Refreshing /\ pc = "commit" /\ job.strategy = "symlink"
  /\ job.found = "Missing" /\ CreateLink
  /\ Goto("post") /\ Committed
  /\ UNCHANGED <<store, backup, owner, excl, temp, tempExcl, linkTemp, art, user, rec>>

(* A link that replaces something is created beside it first.              *)
RefreshBeside ==
  /\ Refreshing /\ pc = "commit" /\ job.strategy = "symlink"
  /\ job.found = "Present" /\ AsFound
  /\ linkTemp' = TRUE
  /\ Goto("linktemp")
  /\ UNCHANGED <<durable, temp, tempExcl, art, user, rec, raced>>

(* atomic_replace                                                          *)
RefreshRename ==
  /\ Refreshing /\ pc = "linktemp"
  /\ repo' = Link /\ linkTemp' = FALSE
  /\ Goto("post") /\ Committed
  /\ UNCHANGED <<store, backup, owner, excl, temp, tempExcl, art, user, rec>>

RefreshPost ==
  /\ Refreshing /\ pc = "post"
  /\ Materialized(job.strategy)
  /\ Integrated
  /\ IF art = NoArtifact THEN Exit ELSE Goto("cleanfile")
  /\ UNCHANGED <<durable, journal, user, rec, raced>>

RefreshStep ==
  \/ RepairExclude \/ RepairInspect
  \/ RepairCheck \/ MaterializeCheck \/ RefreshCopy \/ RefreshCreate
  \/ RefreshBeside \/ RefreshRename \/ RefreshPost
=============================================================================
