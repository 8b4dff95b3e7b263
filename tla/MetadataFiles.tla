---------------------------- MODULE MetadataFiles ----------------------------
(***************************************************************************)
(* How a manifest and an operation record reach the disk through           *)
(* storage/atomic_write.rs: a temp beside the destination, its content,    *)
(* for a record a sync of it, the rename, and for a record a sync of the   *)
(* directory.                                                              *)
(*                                                                         *)
(* manifest and record are what a reader sees now; settled holds, of each, *)
(* what a power loss may leave.  Data is safe once the file is synced, a   *)
(* directory entry once its directory is.  A write is one step per system  *)
(* call, and may stop after each.                                          *)
(***************************************************************************)
EXTENDS Integers, FiniteSets

CONSTANTS
  Torn,            \* a file with less than what was written to it
  Absent,          \* no record file
  NoWrite,         \* no write is under way
  MaxSaves,        \* bound: manifest versions
  MaxPowerLosses   \* bound: power losses

ASSUME FilesBounded == MaxSaves \in Nat /\ MaxPowerLosses \in Nat
ASSUME FilesDistinct == Torn # Absent /\ Torn \notin Nat

VARIABLES
  manifest,     \* version of the manifest
  record,       \* the manifest version its phase takes as saved, or Absent
  settled,      \* what a power loss may leave of each
  volume,       \* mutation_durability = require; whether directories can be
                \* synced, on this platform and on this volume
  writing,      \* the write under way
  powerLosses,
  acked         \* ghost: the last change of the record returned success

files == <<manifest, record>>
filesVars == <<files, settled, volume, writing, powerLosses, acked>>

FilesInit ==
  /\ manifest = 0 /\ record = Absent
  /\ settled = [manifest |-> {0}, record |-> {Absent}]
  /\ volume \in [require : BOOLEAN, platform : BOOLEAN, dirSync : BOOLEAN]
  /\ volume.dirSync => volume.platform
  /\ writing = NoWrite /\ powerLosses = 0 /\ acked = TRUE

FilesTypeOK ==
  /\ manifest \in settled.manifest /\ settled.manifest \subseteq 0..MaxSaves \cup {Torn}
  /\ record \in settled.record /\ settled.record \subseteq 0..MaxSaves \cup {Absent, Torn}
  /\ writing \in {NoWrite}
       \cup [file : {"manifest"}, value : 0..MaxSaves,
             step : {"fill", "rename"}, synced : {FALSE}]
       \cup [file : {"record"}, value : 0..MaxSaves \cup {Absent},
             step : {"fill", "sync", "rename", "syncdir"}, synced : BOOLEAN]
  /\ powerLosses \in 0..MaxPowerLosses /\ acked \in BOOLEAN

WriteAt(step) == writing # NoWrite /\ writing.step = step

(* Every command reads the records and the manifest before it writes.      *)
Readable == manifest # Torn /\ record # Torn

(* preflight_mutation_durability: what the platform cannot promise is      *)
(* refused before any command writes.                                      *)
StrictGate == volume.require => volume.platform

(* The settled content of a directory entry renamed from a temp.           *)
MayLeave(value) == IF writing.synced THEN {value} ELSE {value, Torn}

(***************************************************************************)
(* write_with_options                                                      *)
(***************************************************************************)

(* AtomicWriteOptions, of a manifest and of a record.                      *)
SyncOptions == [manifest |-> {}, record |-> {"file", "parent"}]

(* A write with a fresh temp beside the destination.                       *)
Started(file, value) == [file |-> file, value |-> value, step |-> "fill", synced |-> FALSE]

(* manifest_store::save: neither the file nor its directory is synced.     *)
SaveManifest ==
  /\ writing = NoWrite /\ Readable /\ StrictGate /\ manifest < MaxSaves
  /\ writing' = Started("manifest", manifest + 1)
  /\ UNCHANGED <<files, settled, volume, powerLosses, acked>>

(* preflight_required_parent_sync: a volume that cannot sync directories   *)
(* is refused before anything is written, unless best effort will do.  The *)
(* sync itself settles the entries changed before.                         *)
Preflight ==
  /\ volume.require => volume.dirSync
  /\ settled' = IF volume.dirSync THEN [settled EXCEPT !.record = {record}] ELSE settled

(* operation_record_store::create and update: the phase that is written    *)
(* takes the manifest as saved that this process has saved.                *)
WriteRecord ==
  /\ writing = NoWrite /\ Readable /\ StrictGate
  /\ Preflight
  /\ writing' = Started("record", manifest)
  /\ UNCHANGED <<files, volume, powerLosses, acked>>

FillTemp ==
  /\ WriteAt("fill")
  /\ writing' = [writing EXCEPT !.step =
                   IF "file" \in SyncOptions[writing.file] THEN "sync" ELSE "rename"]
  /\ UNCHANGED <<files, settled, volume, powerLosses, acked>>

(* Mutant: the file is renamed before its data is safe.                    *)
SkipSyncTemp ==
  /\ WriteAt("sync")
  /\ writing' = [writing EXCEPT !.step = "rename"]
  /\ UNCHANGED <<files, settled, volume, powerLosses, acked>>

SyncTemp ==
  /\ WriteAt("sync")
  /\ writing' = [writing EXCEPT !.step = "rename", !.synced = TRUE]
  /\ UNCHANGED <<files, settled, volume, powerLosses, acked>>

(* replace_destination: until its directory is synced, either file may be  *)
(* found after a power loss.                                               *)
RenameTemp ==
  /\ WriteAt("rename")
  /\ IF "parent" \in SyncOptions[writing.file]
     THEN /\ record' = writing.value /\ acked' = FALSE /\ UNCHANGED manifest
          /\ settled' = [settled EXCEPT !.record = @ \cup MayLeave(writing.value)]
          /\ writing' = [writing EXCEPT !.step = "syncdir"]
     ELSE /\ manifest' = writing.value /\ UNCHANGED <<record, acked>>
          /\ settled' = [settled EXCEPT !.manifest = @ \cup MayLeave(writing.value)]
          /\ writing' = NoWrite
  /\ UNCHANGED <<volume, powerLosses>>

(* operation_record_store::remove                                          *)
RemoveRecord ==
  /\ writing = NoWrite /\ Readable /\ StrictGate /\ record # Absent
  /\ record' = Absent
  /\ settled' = [settled EXCEPT !.record = @ \cup {Absent}]
  /\ writing' = [file |-> "record", value |-> Absent, step |-> "syncdir", synced |-> TRUE]
  /\ acked' = FALSE
  /\ UNCHANGED <<manifest, volume, powerLosses>>

(* Mutant: the directory is not synced.                                    *)
SkipSyncParent ==
  /\ WriteAt("syncdir")
  /\ writing' = NoWrite /\ acked' = TRUE
  /\ UNCHANGED <<files, settled, volume, powerLosses>>

(* sync_directory, whose absence only best effort tolerates.               *)
SyncParent ==
  /\ WriteAt("syncdir")
  /\ volume.require => volume.dirSync
  /\ settled' = IF volume.dirSync THEN [settled EXCEPT !.record = MayLeave(record)] ELSE settled
  /\ writing' = NoWrite /\ acked' = TRUE
  /\ UNCHANGED <<files, volume, powerLosses>>

(***************************************************************************)
(* Stops and power losses                                                  *)
(***************************************************************************)

(* An error or the end of the process.  A temp goes or stays; it is never  *)
(* read again.                                                             *)
StopWrite ==
  /\ writing # NoWrite /\ writing' = NoWrite
  /\ UNCHANGED <<files, settled, volume, powerLosses, acked>>

LosePower ==
  /\ powerLosses < MaxPowerLosses /\ powerLosses' = powerLosses + 1
  /\ manifest' \in settled.manifest /\ record' \in settled.record
  /\ settled' = [manifest |-> {manifest'}, record |-> {record'}]
  /\ writing' = NoWrite
  /\ UNCHANGED <<volume, acked>>

FilesNext ==
  \/ SaveManifest \/ WriteRecord \/ FillTemp \/ SyncTemp \/ RenameTemp
  \/ RemoveRecord \/ SyncParent \/ StopWrite \/ LosePower

FilesSpec == FilesInit /\ [][FilesNext]_filesVars

(***************************************************************************)
(* What the writes guarantee                                               *)
(***************************************************************************)

(* No stop and no power loss leaves half an operation record, which would  *)
(* make every later command fail: load_all refuses a malformed one.        *)
RecordWhole == Torn \notin settled.record

(* On a volume that can sync directories, under either policy, a record    *)
(* written or removed stays so once the call has returned.                 *)
RecordDurable == acked /\ volume.dirSync => settled.record = {record}

(* docs/architecture/design-decisions.md:322: "The D5 power-loss guarantee *)
(* applies to `require` operations on a platform where directory           *)
(* durability is available."  The phase is synced and the manifest it      *)
(* speaks of is not: after a power loss the record may be ahead of it, or  *)
(* the manifest torn.                                                      *)
RecordNeverAhead ==
  volume.require /\ volume.dirSync /\ powerLosses > 0 /\ record \in Nat =>
    manifest \in Nat /\ manifest >= record
=============================================================================
