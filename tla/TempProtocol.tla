---------------------------- MODULE TempProtocol ----------------------------
(***************************************************************************)
(* The contract domain/copy_safety.rs states for every temporary file of   *)
(* shelfbox: the order of the steps that last, on either side, and that    *)
(* what accounts for a file outlives the file.  ArtifactJournal and the    *)
(* commands that use it are shown to keep it through stops and recoveries. *)
(***************************************************************************)
EXTENDS Sequences, SequencesExt

VARIABLES
  side,   \* where the temp is: in the working tree, in the store, or nowhere
  done    \* the steps whose effect is on disk

vars == <<side, done>>

RepoSideProtocol ==
  <<"RecordPath", "ExcludeTemp", "CreateEmptyTemp", "RecordIdentity", "WritePlaintext">>

StoreSideProtocol ==
  <<"RecordPath", "CreateEmptyTemp", "RecordIdentity", "WritePlaintext">>

Protocol(s) == IF s = "repo" THEN RepoSideProtocol ELSE StoreSideProtocol

(* What the file itself is, and not what is said about it.                 *)
FileSteps == {"CreateEmptyTemp", "WritePlaintext"}

Init == side = "none" /\ done = {}

Begin(s) ==
  /\ side = "none"
  /\ side' = s
  /\ done' = {Head(Protocol(s))}

(* A step is taken when all steps before it are done, and none after it.   *)
Take ==
  /\ \E i \in 2..Len(Protocol(side)) :
       /\ done = ToSet(SubSeq(Protocol(side), 1, i - 1))
       /\ done' = done \cup {Protocol(side)[i]}
  /\ UNCHANGED side

(* The file is renamed to its destination, removed, or replaced by another *)
(* program.                                                                *)
FileGoes ==
  /\ done \cap FileSteps # {}
  /\ done' = done \ FileSteps
  /\ UNCHANGED side

(* Its exclude goes after the file, the record last.                       *)
ExcludeGoes ==
  /\ done \cap FileSteps = {}
  /\ done' = done \ {"ExcludeTemp"}
  /\ UNCHANGED side

Finish ==
  /\ done \cap (FileSteps \cup {"ExcludeTemp"}) = {}
  /\ side' = "none" /\ done' = {}

Next == (\E s \in {"repo", "store"} : Begin(s)) \/ (side # "none" /\ (Take \/ FileGoes \/ ExcludeGoes \/ Finish))

Spec == Init /\ [][Next]_vars
=============================================================================
