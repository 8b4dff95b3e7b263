------------------------------ MODULE CopyItem ------------------------------
(***************************************************************************)
(* sync, relink, repair and materialize on one item, with the recovery     *)
(* that every mutating command runs first, a process that may stop between *)
(* any two steps, and a user who works in the same tree.                   *)
(***************************************************************************)
EXTENDS SyncItem, RelinkItem, RefreshItem, ItemStatus

(* Mutant: the bound of the loop for relink is too small.                  *)
ShortTurns == [sync |-> 3, relink |-> 2]

CopyTurns == [sync |-> 3, relink |-> 10]

Command ==
  \/ SyncCommand \/ RelinkCommand \/ RepairCommand
  \/ \E strategy \in {"symlink", "copy"} : MaterializeBegin(strategy)

(* Of these, the ones that mend an item rather than convert it.            *)
Remedy == SyncCommand \/ RelinkCommand \/ RepairCommand

(***************************************************************************)
(* recover_before_mutation                                                 *)
(***************************************************************************)
BeginRecovery ==
  /\ pc = "idle"
  /\ rec # NoRecord \/ art # NoArtifact
  /\ job' = [cmd |-> "recover", strategy |-> "copy", into |-> "repo", found |-> "Present"]
  /\ pc' = "recover" /\ turns' = 0 /\ same' = TRUE
  /\ UNCHANGED <<durable, journal, user, rec, raced>>

(* The records come in the order of their identifiers, which need not be   *)
(* the order they were created in.                                         *)
RecoverOne ==
  /\ At("recover")
  /\ \/ /\ rec # NoRecord
        /\ Goto(IF rec.phase = "PostCommitValidated" THEN "drop" ELSE "decide")
     \/ /\ art # NoArtifact
        /\ Goto("cleanfile")
  /\ UNCHANGED <<durable, journal, user, rec, raced>>

CopyFacts == IF rec.op = "sync" THEN SyncFacts ELSE RelinkFacts

CopyDecision ==
  DecideIn(IF rec.op = "sync" THEN SyncRows ELSE RelinkRows, rec.phase, CopyFacts)

(* The step that carries out an action.                                    *)
StepOf(action) ==
  CASE action = "DeleteRecordOnly" -> "drop"
    [] action = "RemoveOperationOwnedExclude" -> "unexclude"
    [] action = "AttachOwnership" -> "attach"
    [] action = "DeleteBackupAndComplete" -> "cleanbackup"
    [] action = "VerifyPostconditionsAndComplete" -> "persist"

(* Mutant: a lost phase update is not made up for.                         *)
DecideOnly ==
  /\ At("decide") /\ rec # NoRecord
  /\ IF turns = CopyTurns[rec.op] \/ CopyDecision.kind # "perform"
     THEN Exit /\ UNCHANGED rec
     ELSE /\ turns' = turns + 1
          /\ pc' = StepOf(CopyDecision.name) /\ UNCHANGED <<job, same, rec>>
  /\ UNCHANGED <<durable, journal, user, raced>>

(* One iteration of the loop.                                              *)
DecideRecord ==
  /\ At("decide") /\ rec # NoRecord
  /\ IF turns = CopyTurns[rec.op] \/ CopyDecision.kind = "conflict"
     THEN Exit /\ UNCHANGED rec
     ELSE /\ turns' = turns + 1 /\ UNCHANGED <<job, same>>
          /\ IF CopyDecision.kind = "perform"
             THEN pc' = StepOf(CopyDecision.name) /\ UNCHANGED rec
             ELSE rec' = [rec EXCEPT !.phase = CopyDecision.to] /\ UNCHANGED pc
  /\ UNCHANGED <<durable, journal, user, raced>>

RecoveryPersist ==
  /\ Recovering /\ rec # NoRecord
  /\ Persist(IF NextPhaseOf(rec) = "PostCommitValidated" THEN "drop" ELSE "decide")

RecoveryStep == RecoverOne \/ DecideRecord \/ RecoveryPersist

CopyWork == JournalStep \/ SyncStep \/ RelinkStep \/ RefreshStep \/ RecoveryStep \/ Drop

Next == Command \/ BeginRecovery \/ CopyWork \/ Halt \/ UserAct

CopySpec == Init /\ [][Next]_vars

(* A running process goes on or fails, and the user keeps running          *)
(* commands, each of which starts with recovery.                           *)
FairCopySpec == CopySpec /\ WF_vars(CopyWork \/ Halt) /\ WF_vars(BeginRecovery)

(***************************************************************************)
(* What recovery would refuse if the process stopped now                   *)
(***************************************************************************)
RecordStuck ==
  /\ rec # NoRecord /\ rec.phase # "PostCommitValidated"
  /\ \/ CopyDecision.kind = "conflict"
     \/ /\ CopyDecision = [kind |-> "perform", name |-> "DeleteBackupAndComplete"]
        /\ backup # Missing /\ ~rec.backupKnown

CopyStuck == RecordStuck \/ ArtifactConflict

(***************************************************************************)
(* Safety                                                                  *)
(***************************************************************************)

(* Once no record is left, neither is a temp shelfbox created, nor the     *)
(* exclude of one, nor a backup: no stop, failure or recovery leaves       *)
(* something behind that no record accounts for.                           *)
NothingLeftBehind ==
  /\ rec = NoRecord => backup = Missing
  /\ art = NoArtifact => ~tempExcl /\ (temp # Missing => ~temp.ours)

(* While nobody interferes, a stop leaves a state recovery refuses only in *)
(* these windows: between the creation of a temp and the record of its     *)
(* identity; a relink between staging the losing side and the              *)
(* synchronized content; between the removal of a relink's exclude and of  *)
(* its record in a rollback; and between the deletion of its backup and    *)
(* the last phase.  The last contradicts the documents as the same window  *)
(* of a restore does (CompletedIsCleaned in Shelf).                        *)
CopyStuckOnlyInWindows ==
  acts = 0 /\ CopyStuck =>
    \/ art # NoArtifact /\ ~art.created /\ temp # Missing /\ temp.data = Empty
    \/ /\ rec # NoRecord /\ rec.op = "relink"
       /\ \/ rec.phase = "ExcludeWritten" /\ backup # Missing
          \/ rec.phase = "ExcludeWritten" /\ backup = Missing /\ ~excl /\ ~rec.exclBefore
          \/ rec.phase = "OwnershipAttached" /\ backup = Missing

(* The loops of recovery stop by a decision, not by their bounds.          *)
CopyWithinBound ==
  At("decide") /\ rec # NoRecord /\ turns = CopyTurns[rec.op] => CopyDecision.kind = "conflict"

(* When store verify finds fault with an item and nothing is stuck, it     *)
(* names the fault, and one of the commands that bring the two sides       *)
(* together can start, whatever users did before.  Only a path Git tracks  *)
(* and a detached item whose path shows somebody else's symlink are left   *)
(* to the user (ops/store_verify.rs, the policies of sync, relink, repair).*)
EveryFaultHasRemedy ==
  ~Running /\ rec = NoRecord /\ art = NoArtifact =>
    \A issue \in LocalIssues :
      /\ issue[2] # "LocalInspectionFailed"
      /\ \/ <<"Error", "TrackedByGit">> \in LocalIssues
         \/ owner = "detached" /\ issue = <<"Error", "MaterializationInvalid">>
         \/ ENABLED Remedy

(***************************************************************************)
(* What a step may never do                                                *)
(***************************************************************************)
Held == {repo, store, backup} \cap Contents

Dropped == Held \ Held'

(* A step of shelfbox removes the last copy of a content only if the       *)
(* winning side of the request on record is in place, and the content is   *)
(* the losing side: for a sync as recorded, for a relink as saved, and     *)
(* then only once ownership is attached.  Left out are commits the user    *)
(* raced with, and what a user wrote into the copy after a relink from the *)
(* store had read it for the backup (unsaved): the check before the        *)
(* replacement compares kinds and identities, so that edit is lost.        *)
OnlyNamedSideLost ==
  [][acts' = acts /\ raced' # "yes" =>
       \A c \in Dropped \ unsaved :
         /\ rec # NoRecord /\ Winner(rec) \in Held'
         /\ \/ rec.op = "sync" /\ c = Loser(rec)
            \/ rec.op = "relink" /\ c = backup /\ owner = "attached"]_vars

(* Shelfbox puts a regular file into the working tree only where it is     *)
(* excluded and untracked, whatever the user did before the last check.    *)
HiddenWhenShown ==
  [][acts' = acts /\ raced' # "yes" /\ repo' # repo /\ repo' \in Contents => Integrated]_vars

(* A file somebody else put at the path of a temp is never removed or      *)
(* written to, unless it was already there when the identity was recorded. *)
ForeignTempKept ==
  [][acts' = acts /\ temp # Missing /\ ~temp.ours =>
       temp' = temp \/ (art # NoArtifact /\ art.created /\ ~art.ours)]_vars

(* A command nobody disturbs that runs to its end leaves an item with      *)
(* which a report finds no fault, whatever state it started from.  Putting *)
(* back an exclude alone does not promise that.                            *)
DoneMeansHealthy ==
  [][acts = 0 /\ Running /\ ~Recovering /\ CopyWork /\ pc' = "idle" /\ job.cmd # "integrate" =>
       Severity' = "Healthy"]_vars

(***************************************************************************)
(* Liveness                                                                *)
(***************************************************************************)

(* If only finitely many stops interrupt a process that could have gone    *)
(* on, every record is removed or sits where recovery refuses it.          *)
CopySettles ==
  <>[][~(Halt /\ ~CopyWork /\ ENABLED CopyWork)]_vars =>
    (rec # NoRecord \/ art # NoArtifact
       ~> (rec = NoRecord /\ art = NoArtifact) \/ CopyStuck)

(***************************************************************************)
(* CopyItem implements CanonicalView                                       *)
(***************************************************************************)
View == INSTANCE CanonicalView WITH
  shown <- repo,
  canonical <- IF store = Missing THEN backup ELSE store,
  request <- IF rec = NoRecord THEN "none" ELSE rec.dir

(* Through every stop, recovery and user act, content moves only the way   *)
(* the user asked for.                                                     *)
ImplementsCanonicalView == View!Spec

(***************************************************************************)
(* CopyItem implements TempProtocol                                        *)
(***************************************************************************)
OurTemp == temp # Missing /\ temp.ours

StepsDone ==
  IF art = NoArtifact THEN {} ELSE
    {"RecordPath"}
      \cup (IF art.verified /\ tempExcl THEN {"ExcludeTemp"} ELSE {})
      \cup (IF OurTemp THEN {"CreateEmptyTemp"} ELSE {})
      \cup (IF art.created /\ art.ours THEN {"RecordIdentity"} ELSE {})
      \cup (IF OurTemp /\ temp.data \in Contents THEN {"WritePlaintext"} ELSE {})

Temps == INSTANCE TempProtocol WITH
  side <- IF art = NoArtifact THEN "none" ELSE art.side,
  done <- StepsDone

(* A temp is created only when its path is recorded and, in the working    *)
(* tree, excluded; it is written to only when its identity is recorded;    *)
(* exclude and record outlive it, whatever stops or goes wrong in between  *)
(* (domain/copy_safety.rs:85, docs/architecture/design-decisions.md:354).  *)
ImplementsTempProtocol == Temps!Spec
=============================================================================
