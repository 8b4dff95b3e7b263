--------------------------- MODULE RecoveryPolicy ---------------------------
(***************************************************************************)
(* The recovery truth tables of policy/recovery_policy.rs, as data.        *)
(*                                                                         *)
(* A row names a recorded phase, the facts that phase expects to find on   *)
(* disk, and the action recovery takes when it finds them.  Facts are      *)
(* tuples <<repo, store, manifest, exclude>> of the fact enumerations of   *)
(* the source.  A decision is one of                                       *)
(*   [kind |-> "perform",  name |-> a]   roll back or forward by action a  *)
(*   [kind |-> "advance",  to   |-> ph]  only the phase update was lost    *)
(*   [kind |-> "conflict"]               block and keep the record         *)
(***************************************************************************)
EXTENDS Naturals, Sequences

Row(phase, expected, action) ==
  [phase |-> phase, expected |-> expected, action |-> action]

AddRows == <<
  Row("RecordCreated",    <<"Source", "Missing", "Absent", "BeforeState">>,
      "DeleteRecordOnly"),
  Row("ExcludeWritten",   <<"Source", "Missing", "Absent", "Present">>,
      "RemoveOperationOwnedExclude"),
  Row("StoreTransferred", <<"Missing", "Source", "Absent", "Present">>,
      "MaterializeRepo"),
  Row("RepoMaterialized", <<"Materialized", "Source", "Absent", "Present">>,
      "SaveManifest"),
  Row("ManifestSaved",    <<"Materialized", "Source", "Present", "Present">>,
      "VerifyPostconditionsAndComplete") >>

RestoreRows == <<
  Row("RecordCreated",
      <<"Original", "CanonicalPresent", "Present", "BeforeState">>,
      "DeleteRecordOnly"),
  Row("RepoRegularized",
      <<"Regular", "CanonicalPresent", "Present", "BeforeState">>,
      "StageStoreIntoBackup"),
  Row("StoreStaged",
      <<"Regular", "BackupPresent", "Present", "BeforeState">>,
      "RemoveManifest"),
  Row("ManifestRemoved",
      <<"Regular", "BackupPresent", "Absent", "BeforeState">>,
      "ApplyKeepIgnorePolicy"),
  Row("ExcludeUpdated",
      <<"Regular", "BackupPresent", "Absent", "FinalState">>,
      "DeleteBackupAndComplete") >>

MoveRows == <<
  Row("RecordCreated",
      <<"OldMaterialized", "OldPresent", "OldPath", "BeforeState">>,
      "DeleteRecordOnly"),
  Row("DestinationExcluded",
      <<"OldMaterialized", "OldPresent", "OldPath", "OldAndNew">>,
      "RemoveOperationOwnedExclude"),
  Row("StoreTransferred",
      <<"OldMaterialized", "NewPresent", "OldPath", "OldAndNew">>,
      "MoveRepoMaterialization"),
  Row("RepoMoved",
      <<"NewMaterialized", "NewPresent", "OldPath", "OldAndNew">>,
      "SaveManifest"),
  Row("ManifestSaved",
      <<"NewMaterialized", "NewPresent", "NewPath", "OldAndNew">>,
      "RemoveOldExclude"),
  Row("ExcludeFinalized",
      <<"NewMaterialized", "NewPresent", "NewPath", "NewOnly">>,
      "VerifyPostconditionsAndComplete") >>

(* Facts of a sync are the contents of both sides, <<content>>.            *)
SyncRows == <<
  Row("RecordCreated",       <<"BeforeReplacement">>, "DeleteRecordOnly"),
  Row("ContentSynchronized", <<"Synchronized">>, "VerifyPostconditionsAndComplete") >>

(* Facts of a directional relink are <<content, manifest, exclude>>.       *)
RelinkRows == <<
  Row("RecordCreated",
      <<"BeforeDirectionBackupAbsent", "Detached", "BeforeState">>,
      "DeleteRecordOnly"),
  Row("ExcludeWritten",
      <<"BeforeDirectionBackupAbsent", "Detached", "Present">>,
      "RemoveOperationOwnedExclude"),
  Row("ContentSynchronized",
      <<"SynchronizedBackupPresent", "Detached", "Present">>,
      "AttachOwnership"),
  Row("OwnershipAttached",
      <<"SynchronizedBackupPresent", "Attached", "Present">>,
      "DeleteBackupAndComplete") >>

Rows == [add |-> AddRows, restore |-> RestoreRows, move |-> MoveRows]

(* Mutant: a lost phase update is not recognised.                          *)
DecideCurrentRowOnly(op, phase, facts) ==
  LET here == {i \in DOMAIN Rows[op] : Rows[op][i].phase = phase
                                        /\ Rows[op][i].expected = facts}
  IN  IF here # {} THEN [kind |-> "perform", name |-> Rows[op][CHOOSE i \in here : TRUE].action]
      ELSE [kind |-> "conflict"]

(* decide_table: the recorded phase's own row, else exactly the next one.  *)
DecideIn(rows, phase, facts) ==
  LET here == {i \in DOMAIN rows : rows[i].phase = phase}
      Matches(i) == i \in DOMAIN rows /\ rows[i].expected = facts
  IN  IF \E i \in here : Matches(i)
      THEN LET i == CHOOSE i \in here : Matches(i)
           IN  [kind |-> "perform", name |-> rows[i].action]
      ELSE IF \E i \in here : Matches(i + 1)
      THEN LET i == CHOOSE i \in here : Matches(i + 1)
           IN  [kind |-> "advance", to |-> rows[i + 1].phase]
      ELSE [kind |-> "conflict"]

Decide(op, phase, facts) == DecideIn(Rows[op], phase, facts)

RowActions == UNION {{Rows[op][i].action : i \in DOMAIN Rows[op]} : op \in DOMAIN Rows}
=============================================================================
