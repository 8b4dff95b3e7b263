------------------------ MODULE MetadataFiles_proofs ------------------------
(* What MetadataFiles guarantees, for any number of versions and of power  *)
(* losses.                                                                 *)
EXTENDS MetadataFiles, TLAPS

Versions == 0..MaxSaves

(* The types RecordWhole and RecordDurable need in addition to FilesTypeOK.*)
Shape ==
  /\ volume \in [require : BOOLEAN, platform : BOOLEAN, dirSync : BOOLEAN]
  /\ settled \in [manifest : SUBSET (Versions \cup {Torn}),
                  record : SUBSET (Versions \cup {Absent, Torn})]

(* What makes a record whole: none is renamed before it is synced.         *)
SyncedFirst ==
  WriteAt("rename") \/ WriteAt("syncdir") => (writing.file = "record" => writing.synced)

FilesInv == FilesTypeOK /\ Shape /\ SyncedFirst /\ RecordWhole /\ RecordDurable

(* The files start out settled. *)
LEMMA InitInv == FilesInit => FilesInv
  BY FilesBounded, FilesDistinct
  DEF FilesInit, FilesInv, FilesTypeOK, Shape, SyncedFirst, RecordWhole, RecordDurable,
      Versions, WriteAt

(* Every step keeps FilesInv.  Only a rename and a removal can add to what *)
(* a power loss may leave of the record, and neither is acknowledged yet.  *)
LEMMA StepInv == FilesInv /\ [FilesNext]_filesVars => FilesInv'
<1> SUFFICES ASSUME FilesInv, [FilesNext]_filesVars PROVE FilesInv'
  OBVIOUS
<1> USE FilesBounded, FilesDistinct
    DEF FilesInv, FilesTypeOK, Shape, SyncedFirst, RecordWhole, RecordDurable,
        Versions, WriteAt, files
<1>1. CASE SaveManifest
  BY <1>1 DEF SaveManifest, Started, Readable
<1>2. CASE WriteRecord
  BY <1>2 DEF WriteRecord, Started, Readable, Preflight
<1>3. CASE FillTemp
  <2>1. writing # NoWrite /\ writing.step = "fill" /\ writing.file \in {"manifest", "record"}
    BY <1>3 DEF FillTemp
  <2>2. "file" \in SyncOptions[writing.file] <=> writing.file = "record"
    BY <2>1 DEF SyncOptions
  <2>3. writing' = [writing EXCEPT !.step = IF writing.file = "record" THEN "sync" ELSE "rename"]
    BY <1>3, <2>2 DEF FillTemp
  <2> QED BY <1>3, <2>1, <2>3 DEF FillTemp
<1>4. CASE SyncTemp
  BY <1>4 DEF SyncTemp
<1>5. CASE RenameTemp
  <2>1. writing # NoWrite /\ writing.step = "rename" /\ UNCHANGED <<volume, powerLosses>>
    BY <1>5 DEF RenameTemp
  <2>2. "parent" \in SyncOptions[writing.file] <=> writing.file = "record"
    <3>1. writing.file \in {"manifest", "record"}
      BY <2>1
    <3> QED BY <3>1 DEF SyncOptions
  <2>3. CASE writing.file = "record"
    <3>1. writing.synced /\ MayLeave(writing.value) = {writing.value}
      BY <2>1, <2>3 DEF MayLeave
    <3>2. writing.value \in Versions \cup {Absent}
      BY <2>1, <2>3
    <3>3. writing.value # Torn
      BY <3>2
    <3>4. /\ record' = writing.value /\ acked' = FALSE /\ UNCHANGED manifest
          /\ writing' = [writing EXCEPT !.step = "syncdir"]
          /\ settled' = [settled EXCEPT !.record = @ \cup {writing.value}]
      BY <1>5, <2>2, <2>3, <3>1 DEF RenameTemp
    <3> QED BY <2>1, <2>3, <3>1, <3>2, <3>3, <3>4
  <2>4. CASE writing.file # "record"
    <3>1. writing.value \in Versions
      BY <2>1, <2>4
    <3>2. /\ manifest' = writing.value /\ UNCHANGED <<record, acked>> /\ writing' = NoWrite
          /\ settled' = [settled EXCEPT !.manifest = @ \cup MayLeave(writing.value)]
          /\ writing.value \in MayLeave(writing.value)
          /\ MayLeave(writing.value) \subseteq Versions \cup {Torn}
      BY <1>5, <2>2, <2>4, <3>1 DEF RenameTemp, MayLeave
    <3> QED BY <2>1, <3>1, <3>2
  <2> QED BY <2>3, <2>4
<1>6. CASE RemoveRecord
  BY <1>6 DEF RemoveRecord, Readable
<1>7. CASE SyncParent
  BY <1>7 DEF SyncParent, MayLeave
<1>8. CASE StopWrite
  BY <1>8 DEF StopWrite
<1>9. CASE LosePower
  BY <1>9 DEF LosePower
<1>10. CASE UNCHANGED filesVars
  BY <1>10 DEF filesVars
<1> QED
  BY <1>1, <1>2, <1>3, <1>4, <1>5, <1>6, <1>7, <1>8, <1>9, <1>10 DEF FilesNext

(* FilesInv holds throughout. *)
LEMMA FilesAlways == FilesSpec => []FilesInv
  BY InitInv, StepInv, PTL DEF FilesSpec

(* Every file, write and outcome is of its type, in any number of saves    *)
(* and power losses.                                                       *)
THEOREM FilesTypeCorrect == FilesSpec => []FilesTypeOK
  BY FilesAlways, PTL DEF FilesInv

(* atomic_write.rs never leaves a torn operation record, wherever the      *)
(* process stops or the power goes.                                        *)
THEOREM RecordAlwaysWhole == FilesSpec => []RecordWhole
  BY FilesAlways, PTL DEF FilesInv

(* A record whose write or removal was reported done is on the disk, where *)
(* directories can be synced.                                              *)
THEOREM RecordAlwaysDurable == FilesSpec => []RecordDurable
  BY FilesAlways, PTL DEF FilesInv
=============================================================================
