----------------------------- MODULE ItemStatus -----------------------------
(***************************************************************************)
(* item status and repo status (ops/status.rs): what a read-only report    *)
(* says of the item from what is on disk right now.  It takes no write     *)
(* lock, so it may run between any two steps of a command.  Unreadable     *)
(* files and hardlinks, always an Error, are left out.                     *)
(***************************************************************************)
EXTENDS CopyState

(* read_only_status: the records it counts against the item.  A finalized  *)
(* operation is passed over, an operation names the item's path, a         *)
(* store-side artifact counts against every item.  A repo-side artifact    *)
(* is filed under the path of its temp, which is no item's path.           *)
UnfinishedReported ==
  \/ rec # NoRecord /\ rec.phase # "PostCommitValidated"
  \/ art # NoArtifact /\ art.side = "store"

(* check_item_facts and policy_facts: ownership is no part of them, so a   *)
(* detached item is judged like any other.                                 *)
PolicyFacts ==
  [entry |-> RepoKind, stored |-> store # Missing, content |-> CopyContent,
   tracked |-> tracked, excluded |-> excl]

(* evaluate_materialization_status: the issue codes it lists               *)
Issues(facts) ==
  {code \in {"MaterializationMissing", "MaterializationInvalid", "StoreMissing",
             "ContentDiverged", "TrackedByGit", "MissingExclude"} :
     CASE code = "MaterializationMissing" -> facts.entry = "Missing"
       [] code = "MaterializationInvalid" -> facts.entry = "UnmanagedSymlink"
       [] code = "StoreMissing"           -> ~facts.stored
       [] code = "ContentDiverged"        -> facts.content = "Diverged"
       [] code = "TrackedByGit"           -> facts.tracked
       [] code = "MissingExclude"         -> ~facts.excluded}

(* ... and how it judges them, which it finds out from the facts again: an *)
(* exclude that is missing for a symlink is the one thing it only warns of.*)
Evaluated(facts) ==
  IF \/ facts.entry \notin {"ManagedSymlink", "RegularFile"}
     \/ ~facts.stored
     \/ facts.content = "Diverged"
     \/ facts.tracked
     \/ ~facts.excluded /\ facts.entry = "RegularFile"
  THEN "Error" ELSE IF facts.excluded THEN "Healthy" ELSE "Warning"

(* status_v2 and apply_read_only_recovery_status                           *)
Severity == IF UnfinishedReported THEN "Error" ELSE Evaluated(PolicyFacts)

ReportedIssues ==
  Issues(PolicyFacts) \cup {c \in {"UnfinishedOperationConflict"} : UnfinishedReported}

(* verify_associated_local_repo: what store verify makes of the status of  *)
(* an item of a repository whose checkout it finds.                        *)
LocalIssues ==
  IF Severity = "Healthy" THEN {}
  ELSE IF ReportedIssues = {} THEN {<<Severity, "LocalInspectionFailed">>}
  ELSE {Severity} \X ReportedIssues
=============================================================================
