--------------------------- MODULE ArtifactJournal ---------------------------
(***************************************************************************)
(* The write-ahead protocol of temporary files (fs/mutation_journal.rs,    *)
(* secure_transfer): a path is recorded before the file exists, a          *)
(* repo-side path is excluded before the file exists, the file's identity  *)
(* is recorded before it holds plaintext, and the record goes last.        *)
(* cleanup_token of the journal and the artifact branch of recovery are    *)
(* the same steps, except that recovery also removes an exclude that was   *)
(* never verified.                                                         *)
(***************************************************************************)
EXTENDS CopyState

(* The content a temp is filled with: canonical for a repo-side file, the  *)
(* working-tree file for a store-side one.                                 *)
Source == IF job.into = "repo" THEN store ELSE repo

(* prepare_copy_install, or prepare of CopyFromRepo: the entries still are *)
(* what was inspected and the source is a regular file.                    *)
Preparable ==
  /\ Source \in Contents
  /\ AsFound
  /\ job.into = "backup" => backup = Missing

(* artifact_location: a file beside the item, or one inside the store.     *)
Side == IF job.into = "repo" THEN "repo" ELSE "store"

(* reserve_artifact: the Planned record is durable before the file exists. *)
Reserve ==
  /\ At("reserve")
  /\ Preparable
  /\ art' = [side |-> Side, created |-> FALSE, verified |-> FALSE, ours |-> TRUE]
  /\ Goto(IF Side = "repo" THEN "tempexclude" ELSE "create")
  /\ UNCHANGED <<durable, temp, tempExcl, linkTemp, user, rec, raced>>

ExcludeTemp ==
  /\ At("tempexclude")
  /\ tempExcl' = TRUE
  /\ Goto("verify")
  /\ UNCHANGED <<durable, temp, linkTemp, art, user, rec, raced>>

(* has_entry, then the record says the exclude is verified.                *)
VerifyTempExclude ==
  /\ At("verify") /\ art # NoArtifact
  /\ tempExcl
  /\ art' = [art EXCEPT !.verified = TRUE]
  /\ Goto("create")
  /\ UNCHANGED <<durable, temp, tempExcl, linkTemp, user, rec, raced>>

(* Mutant: plaintext goes into the file before its identity is recorded.   *)
CreateTempFilled ==
  /\ At("create")
  /\ temp = Missing
  /\ temp' = [data |-> IF Source \in Contents THEN Source ELSE Empty, ours |-> TRUE]
  /\ Goto("identify")
  /\ UNCHANGED <<durable, tempExcl, linkTemp, art, user, rec, raced>>

(* create_empty_private_temp_at: create-new.                               *)
CreateTemp ==
  /\ At("create")
  /\ temp = Missing
  /\ temp' = [data |-> Empty, ours |-> TRUE]
  /\ Goto("identify")
  /\ UNCHANGED <<durable, tempExcl, linkTemp, art, user, rec, raced>>

(* The record as Created, which also authorizes plaintext: its identity is *)
(* that of whatever file is at the path by now (identity_from_path).       *)
Identified == [art EXCEPT !.created = TRUE, !.ours = temp.ours]

IdentifyTemp ==
  /\ At("identify") /\ art # NoArtifact
  /\ temp # Missing
  /\ art' = Identified
  /\ Goto("populate")
  /\ UNCHANGED <<durable, temp, tempExcl, linkTemp, user, rec, raced>>

(* populate_authorized_temp: only into the file the journal created.       *)
PopulateTemp ==
  /\ At("populate")
  /\ temp # Missing /\ temp.ours
  /\ Source \in Contents
  /\ temp' = [temp EXCEPT !.data = Source]
  /\ Goto("check")
  /\ UNCHANGED <<durable, tempExcl, linkTemp, art, user, rec, raced>>

(* Mutant: the commit permit is issued without looking at Git again.       *)
PermitNoGit == excl

(* validate_commit_preconditions of both journals.                         *)
CommitPermit ==
  /\ Integrated
  /\ art # NoArtifact /\ art.verified => tempExcl
  /\ art # NoArtifact => art.created

(* commit_authorized_temp: the rename puts our file at the destination.    *)
TempReady == temp # Missing /\ temp.ours

(* The commit of a prepared copy, which the caller has checked before.     *)
CommitToRepo ==
  /\ AsFound /\ TempReady
  /\ repo' = temp.data /\ temp' = Missing

(* CanonicalTransferAction::CopyFromRepo                                   *)
CommitToStore ==
  /\ AsFound /\ TempReady
  /\ store' = temp.data /\ temp' = Missing

(* MaterializationAction::Create of a symlink.                             *)
CreateLink ==
  /\ repo = Missing
  /\ repo' = Link

(***************************************************************************)
(* Cleanup                                                                 *)
(***************************************************************************)

(* cleanup_artifact refuses a file at a path whose record is only Planned, *)
(* and a file that is not the recorded one.                                *)
ArtifactConflict ==
  /\ art # NoArtifact /\ temp # Missing
  /\ ~art.created \/ temp.ours # art.ours

(* Mutant: whatever is at the path is removed.                             *)
CleanAnyTempFile ==
  /\ At("cleanfile") /\ art # NoArtifact
  /\ temp' = Missing
  /\ Goto("cleanexclude")
  /\ UNCHANGED <<durable, tempExcl, linkTemp, art, user, rec, raced>>

CleanTempFile ==
  /\ At("cleanfile") /\ art # NoArtifact
  /\ IF ArtifactConflict
     THEN Exit /\ UNCHANGED temp
     ELSE /\ temp' = Missing
          /\ Goto("cleanexclude")
  /\ UNCHANGED <<durable, tempExcl, linkTemp, art, user, rec, raced>>

(* Mutant: the exclude of the temp stays when its record goes.             *)
KeepTempExclude ==
  /\ At("cleanexclude") /\ art # NoArtifact
  /\ Goto("cleanrecord")
  /\ UNCHANGED <<durable, journal, user, rec, raced>>

CleanTempExclude ==
  /\ At("cleanexclude") /\ art # NoArtifact
  /\ tempExcl' = (tempExcl /\ ~(art.side = "repo" /\ (art.verified \/ Recovering)))
  /\ Goto("cleanrecord")
  /\ UNCHANGED <<durable, temp, linkTemp, art, user, rec, raced>>

(* What a command does once its artifact is gone.                          *)
AfterCleanup ==
  CASE job.cmd = "sync" -> "drop"
    [] job.cmd = "relink" /\ job.into = "backup" -> "inspect"
    [] job.cmd = "relink" /\ job.into # "backup" -> "persist"
    [] job.cmd = "attach" -> "attach"
    [] OTHER -> "idle"

CleanRecord ==
  /\ At("cleanrecord")
  /\ art' = NoArtifact
  /\ IF Recovering THEN (IF rec = NoRecord THEN Exit ELSE Goto("recover"))
     ELSE IF AfterCleanup = "idle" THEN Exit ELSE Goto(AfterCleanup)
  /\ UNCHANGED <<durable, temp, tempExcl, linkTemp, user, rec, raced>>

JournalStep ==
  \/ Reserve \/ ExcludeTemp \/ VerifyTempExclude \/ CreateTemp \/ IdentifyTemp
  \/ PopulateTemp \/ CleanTempFile \/ CleanTempExclude \/ CleanRecord
=============================================================================
