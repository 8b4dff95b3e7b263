--------------------------- MODULE CopyItem_proofs ---------------------------
(* What the invariant of CopySteps_proofs says of sync, relink, repair and *)
(* materialize: safety, what a step may do, and the two specifications     *)
(* they implement.                                                         *)
EXTENDS CopySteps_proofs

(***************************************************************************)
(* What follows of it at every state                                       *)
(***************************************************************************)

(* Every variable keeps its type; the loop of recovery in particular has   *)
(* no more turns than recover_operation allows it.                         *)
THEOREM CopyTypes == CopySpec => []CopyTypeOK
<1>1. ASSUME ControlInv PROVE CopyTypeOK
  <2>1. turns \in 0..10
    <3>1. CASE ~By("recover")
      BY <1>1, <3>1 DEF ControlInv, TurnsInv
    <3>2. CASE By("recover") /\ rec = NoRecord
      BY <1>1, <3>2 DEF ControlInv, TurnsInv, Typed
    <3>3. CASE By("recover") /\ rec # NoRecord
      <4>1. Rank(rec.phase) \in 0..4 /\ turns \in Nat
        BY <1>1, <3>3, Ranks DEF ControlInv, Typed
      <4>2. turns <= Rank(rec.phase) + (IF pc \in RecordSteps \ {"decide"} THEN 1 ELSE 0)
        BY <1>1, <3>3 DEF ControlInv, TurnsInv
      <4> QED BY <4>1, <4>2
    <3> QED BY <3>1, <3>2, <3>3
  <2> QED BY <1>1, <2>1 DEF ControlInv, Typed, CopyTypeOK, GoodRecords, GoodArtifacts
<1> QED BY <1>1, ControlHolds, PTL

(* Once no record is left, no backup is, nor a temp or its exclude: what   *)
(* no record accounts for does not exist (cleanup_token of the journals,   *)
(* cleanup_backup, recover_before_mutation).                               *)
THEOREM NothingIsLeftBehind == CopySpec => []NothingLeftBehind
<1>1. ASSUME ControlInv PROVE NothingLeftBehind
  BY <1>1 DEF ControlInv, JournalInv, BackupInv, NothingLeftBehind
<1> QED BY <1>1, ControlHolds, PTL

(* The loops of recover_operation never reach their bounds: each iteration *)
(* is paid for by a phase of the record.                                   *)
THEOREM LoopsStayWithinBound == CopySpec => []CopyWithinBound
<1>1. ASSUME ControlInv, At("decide"), rec # NoRecord PROVE turns # CopyTurns[rec.op]
  <2>1. By("recover") /\ rec.phase # "PostCommitValidated"
    BY <1>1, JobNow DEF ControlInv, PlaceInv, By, At, TempSteps, CleanSteps, RecordSteps,
                        RecordInv, RecoveryRecord
  <2>2. turns \in Nat /\ Rank(rec.phase) \in 0..4 /\ turns <= Rank(rec.phase)
    BY <1>1, <2>1, Ranks DEF ControlInv, Typed, TurnsInv, At
  <2>3. CASE rec.op = "sync"
    <3>1. rec.phase \in {"RecordCreated", "ContentSynchronized"}
      BY <1>1, <2>1, <2>3, RecNow DEF ControlInv
    <3>2. Rank(rec.phase) <= 2
      BY <3>1 DEF Rank
    <3> QED BY <2>2, <2>3, <3>2 DEF CopyTurns
  <2>4. CASE rec.op = "relink"
    BY <2>2, <2>4 DEF CopyTurns
  <2> QED BY <1>1, <2>3, <2>4, RecNow DEF ControlInv
<1>2. ControlInv => CopyWithinBound
  BY <1>1 DEF CopyWithinBound
<1> QED BY <1>2, ControlHolds, PTL

(***************************************************************************)
(* What a step may never do                                                *)
(***************************************************************************)

(* The steps that move content, or the temp.                               *)
Mover ==
  \/ CreateTemp \/ PopulateTemp \/ CleanTempFile
  \/ SyncCommit \/ RelinkCommitStage \/ RelinkCommit \/ AttachCommit \/ CleanBackup
  \/ RefreshCopy \/ RefreshCreate \/ RefreshRename

(* Users count their acts.                                                 *)
LEMMA UsersCount ==
  ASSUME Typed, UserAct
  PROVE  acts' # acts
BY DEF Typed, UserAct, Edit, Swap, Replace, Delete, Track, Unexclude, Act

(* Every other step of shelfbox leaves content and temp where they are.    *)
LEMMA Movers ==
  ASSUME Typed, [Next]_vars, acts' = acts
  PROVE  Mover \/ UNCHANGED <<repo, store, backup, temp>>
<1> USE DEF durable, journal
<1>1. CASE Command \/ BeginRecovery
  BY <1>1 DEF Command, SyncCommand, RelinkCommand, RepairCommand, SyncBegin, RelinkBegin,
              AttachBegin, RepairBegin, RepoRepairBegin, MaterializeBegin, BeginRecovery
<1>2. CASE JournalStep
  BY <1>2 DEF Mover, JournalStep, Reserve, ExcludeTemp, VerifyTempExclude, IdentifyTemp,
              CleanTempExclude, CleanRecord
<1>3. CASE SyncStep
  BY <1>3 DEF Mover, SyncStep, SyncInspect, SyncCheck, SyncPersist, SyncPost, Persist
<1>4. CASE RelinkStep
  BY <1>4 DEF Mover, RelinkStep, RelinkExclude, RelinkExcluded, RelinkStage, RelinkCheckStage,
              RelinkRecordBackup, RelinkInspect, RelinkCheck, RelinkPersist, RelinkPost, Attach,
              AttachExcluded, AttachCheck, AttachPost, RelinkUnexclude, Persist
<1>5. CASE RefreshStep
  BY <1>5 DEF Mover, RefreshStep, RepairExclude, RepairInspect, RepairCheck, MaterializeCheck,
              RefreshBeside, RefreshPost
<1>6. CASE RecoveryStep \/ Drop \/ Halt
  BY <1>6 DEF RecoveryStep, RecoverOne, DecideRecord, RecoveryPersist, Persist, Drop, Halt
<1>7. CASE UNCHANGED vars
  BY <1>7 DEF vars
<1> QED BY <1>1, <1>2, <1>3, <1>4, <1>5, <1>6, <1>7, UsersCount DEF Next, CopyWork

(* A file somebody else put at the path of a temp is removed only where    *)
(* the record names its identity (cleanup_artifact, populate_authorized_   *)
(* temp, commit_authorized_temp).                                          *)
THEOREM ForeignTempIsKept == CopySpec => ForeignTempKept
<1>1. ASSUME ControlInv, [Next]_vars, acts' = acts, temp # Missing, ~temp.ours
      PROVE  temp' = temp \/ (art # NoArtifact /\ art.created /\ ~art.ours)
  <2>1. Typed
    BY <1>1 DEF ControlInv
  <2>2. CASE CleanTempFile
    <3>1. art # NoArtifact /\ (ArtifactConflict => temp' = temp)
      BY <2>2 DEF CleanTempFile
    <3> QED BY <1>1, <2>1, <3>1, ArtNow, TempNow DEF ArtifactConflict
  <2>3. CASE CreateTemp \/ PopulateTemp
    BY <1>1, <2>3 DEF CreateTemp, PopulateTemp
  <2>4. CASE SyncCommit \/ RelinkCommit \/ RefreshCopy
    BY <1>1, <2>4 DEF SyncCommit, RelinkCommit, RefreshCopy, CommitToRepo, CommitToStore, TempReady
  <2>5. CASE RelinkCommitStage \/ AttachCommit
    BY <1>1, <2>5 DEF RelinkCommitStage, AttachCommit, CommitToRepo, TempReady
  <2>6. CASE CleanBackup \/ RefreshCreate \/ RefreshRename
    BY <1>1, <2>6 DEF CleanBackup, RefreshCreate, RefreshRename, journal
  <2> QED BY <1>1, <2>1, <2>2, <2>3, <2>4, <2>5, <2>6, Movers DEF Mover
<1>2. ControlInv /\ [Next]_vars =>
        [acts' = acts /\ temp # Missing /\ ~temp.ours =>
           temp' = temp \/ (art # NoArtifact /\ art.created /\ ~art.ours)]_vars
  BY <1>1
<1> QED BY <1>2, ControlHolds, PTL DEF CopySpec, ForeignTempKept

(* A commit the user did not race with finds what its check found.         *)
LEMMA CommitTime ==
  ASSUME Committed, raced' # "yes", Typed
  PROVE  raced = "no"
BY DEF Committed, Typed

(* Shelfbox shows a regular file only where it is excluded and untracked   *)
(* (validate_commit_preconditions of both journals).                       *)
THEOREM HiddenWheneverShown == CopySpec => HiddenWhenShown
<1>1. ASSUME ControlInv, [Next]_vars, acts' = acts, raced' # "yes", repo' # repo, repo' \in Contents
      PROVE  Integrated
  <2>1. Typed
    BY <1>1 DEF ControlInv
  <2>2. SyncCommit \/ RelinkCommit \/ AttachCommit \/ RefreshCopy
    <3>1. ~RelinkCommitStage /\ ~CleanBackup /\ ~CreateTemp /\ ~PopulateTemp /\ ~CleanTempFile
      BY <1>1 DEF RelinkCommitStage, CleanBackup, CreateTemp, PopulateTemp, CleanTempFile, durable
    <3>2. ~RefreshCreate /\ ~RefreshRename
      BY <1>1, EntriesApart DEF RefreshCreate, RefreshRename, CreateLink
    <3> QED BY <1>1, <2>1, <3>1, <3>2, Movers DEF Mover
  <2>3. Committed /\ pc = "commit"
    BY <2>2 DEF SyncCommit, RelinkCommit, AttachCommit, RefreshCopy, For, At
  <2>4. raced = "no"
    BY <1>1, <2>1, <2>3, CommitTime
  <2> QED BY <1>1, <2>3, <2>4 DEF ControlInv, CommitInv
<1>2. ControlInv /\ [Next]_vars =>
        [acts' = acts /\ raced' # "yes" /\ repo' # repo /\ repo' \in Contents => Integrated]_vars
  BY <1>1
<1> QED BY <1>2, ControlHolds, PTL DEF CopySpec, HiddenWhenShown

(* A copy that is committed has been written.                              *)
LEMMA TempWritten ==
  ASSUME ControlInv, job # NoJob, job.cmd # "recover", pc = "commit", TempReady
  PROVE  temp.data \in Contents
BY DEF ControlInv, TempInv, Working, TempReady

(* What a commit into the working tree replaces.                           *)
LEMMA WhatIsReplaced ==
  ASSUME ControlInv, repo \in Contents, raced = "no",
         (SyncCommit /\ job.into = "repo") \/ (RelinkCommit /\ job.into = "repo")
           \/ AttachCommit \/ RefreshCopy \/ RefreshCreate \/ RefreshRename
  PROVE  \/ repo = store
         \/ repo \in {backup} \cup unsaved
         \/ /\ rec # NoRecord /\ rec.op = "sync"
            /\ repo = Loser(rec) /\ store = Winner(rec)
<1> USE DEF ControlInv
<1>1. CASE SyncCommit /\ job.into = "repo"
  <2>1. By("sync") /\ pc = "commit"
    BY <1>1 DEF SyncCommit, For, At, By
  <2>2. AsRecorded /\ rec # NoRecord /\ rec.op = "sync" /\ rec.dir = "FromStore"
    BY <1>1, <2>1 DEF CommitInv, RecordInv, SyncRecord, By
  <2> QED BY <2>2 DEF AsRecorded, Winner, Loser
<1>2. CASE RelinkCommit /\ job.into = "repo"
  <2>1. By("relink") /\ pc = "commit"
    BY <1>2 DEF RelinkCommit, For, At, By
  <2>2. rec # NoRecord /\ rec.dir = "FromStore"
    BY <1>2, <2>1, RecNow DEF RecordInv, RelinkRecord
  <2> QED BY <1>2, <2>1, <2>2 DEF SavedInv, TempSteps
<1>3. CASE AttachCommit
  <2>1. By("attach") /\ pc = "commit"
    BY <1>3 DEF AttachCommit, For, At, By
  <2>2. job.found = "Missing"
    BY <2>1 DEF CommitInv, TempSteps
  <2> QED BY <1>3, <2>2, EntriesApart DEF AttachCommit, CommitToRepo, CreateLink, AsFound
<1>4. CASE RefreshCreate
  BY <1>4, EntriesApart DEF RefreshCreate, CreateLink
<1>5. CASE RefreshCopy \/ RefreshRename
  <2>1. job.cmd \in {"repair", "materialize"} /\ pc \in {"commit", "linktemp"}
    BY <1>5 DEF RefreshCopy, RefreshRename, Refreshing
  <2> QED BY <2>1, EntriesApart DEF CommitInv
<1> QED BY <1>1, <1>2, <1>3, <1>4, <1>5

(* The last copy of a content goes only where a request on record has the  *)
(* other side win, as recorded for a sync (validate_recorded_fingerprints),*)
(* as saved and with ownership durable for a relink (cleanup_backup).      *)
THEOREM OnlyTheNamedSideIsLost == CopySpec => OnlyNamedSideLost
<1>1. ASSUME ControlInv, [Next]_vars, acts' = acts, raced' # "yes", NEW c \in Dropped \ unsaved
      PROVE  /\ rec # NoRecord /\ Winner(rec) \in Held'
             /\ \/ rec.op = "sync" /\ c = Loser(rec)
                \/ rec.op = "relink" /\ c = backup /\ owner = "attached"
  <2>1. Typed /\ c \in Contents /\ c \in {repo, store, backup} /\ c \notin {repo', store', backup'}
    BY <1>1 DEF ControlInv, Dropped, Held
  <2>2. Mover
    BY <1>1, <2>1, Movers
  <2>3. CASE CreateTemp \/ PopulateTemp \/ CleanTempFile
    BY <2>1, <2>3 DEF CreateTemp, PopulateTemp, CleanTempFile, durable
  <2>4. CASE CleanBackup
    <3>1. c = backup /\ pc = "cleanbackup" /\ job # NoJob /\ repo' = repo /\ store' = store
      BY <2>1, <2>4 DEF CleanBackup, At
    <3>2. rec # NoRecord /\ rec.op = "relink" /\ rec.phase = "OwnershipAttached"
      <4>1. rec # NoRecord /\ job.cmd \in {"relink", "recover"}
        BY <1>1, <2>1, <2>4, <3>1, JobNow
        DEF ControlInv, PlaceInv, By, TempSteps, CleanSteps, CleanBackup
      <4> QED BY <1>1, <3>1, <4>1 DEF ControlInv, RecordInv, RelinkRecord, RecoveryRecord, By,
                                      RecordSteps
    <3>3. store = Winner(rec) /\ owner = "attached"
      BY <1>1, <3>1, <3>2 DEF ControlInv, AgreedInv
    <3> QED BY <2>1, <3>1, <3>2, <3>3, RecNow DEF Held
  <2>5. CASE RelinkCommitStage
    BY <2>1, <2>5, EntriesApart DEF RelinkCommitStage
  <2>6. ASSUME Committed PROVE raced = "no"
    BY <1>1, <2>1, <2>6, CommitTime
  <2>7. CASE SyncCommit /\ job.into # "repo"
    <3>1. By("sync") /\ pc = "commit" /\ Committed /\ repo' = repo /\ backup' = backup
      BY <2>7 DEF SyncCommit, For, At, By
    <3>2. AsRecorded /\ rec # NoRecord /\ rec.op = "sync" /\ rec.dir # "FromStore"
      BY <1>1, <2>6, <2>7, <3>1 DEF ControlInv, CommitInv, RecordInv, SyncRecord, By
    <3> QED BY <2>1, <3>1, <3>2, RecNow DEF AsRecorded, Winner, Loser, Held
  <2>8. CASE RelinkCommit /\ job.into # "repo"
    BY <2>1, <2>8, EntriesApart DEF RelinkCommit
  <2>9. CASE \/ (SyncCommit /\ job.into = "repo") \/ (RelinkCommit /\ job.into = "repo")
             \/ AttachCommit \/ RefreshCopy \/ RefreshCreate \/ RefreshRename
    <3>1. Committed /\ store' = store /\ backup' = backup
      <4>1. CASE SyncCommit /\ job.into = "repo"
        BY <4>1 DEF SyncCommit
      <4>2. CASE RelinkCommit /\ job.into = "repo"
        BY <4>2 DEF RelinkCommit
      <4>3. CASE AttachCommit \/ RefreshCopy \/ RefreshCreate \/ RefreshRename
        BY <4>3 DEF AttachCommit, RefreshCopy, RefreshCreate, RefreshRename
      <4> QED BY <2>9, <4>1, <4>2, <4>3
    <3>2. c = repo /\ raced = "no" /\ c \notin unsaved
      BY <1>1, <2>1, <2>6, <3>1
    <3>3. rec # NoRecord /\ rec.op = "sync" /\ repo = Loser(rec) /\ store = Winner(rec)
      BY <1>1, <2>1, <2>9, <3>1, <3>2, WhatIsReplaced
    <3> QED BY <2>1, <3>1, <3>2, <3>3, RecNow DEF Held
  <2> QED BY <2>2, <2>3, <2>4, <2>5, <2>7, <2>8, <2>9 DEF Mover
<1>2. ControlInv /\ [Next]_vars =>
        [acts' = acts /\ raced' # "yes" =>
           \A c \in Dropped \ unsaved :
             /\ rec # NoRecord /\ Winner(rec) \in Held'
             /\ \/ rec.op = "sync" /\ c = Loser(rec)
                \/ rec.op = "relink" /\ c = backup /\ owner = "attached"]_vars
  BY <1>1
<1> QED BY <1>2, ControlHolds, PTL DEF CopySpec, OnlyNamedSideLost

(***************************************************************************)
(* CopyItem implements CanonicalView                                       *)
(***************************************************************************)
Canonical == IF store = Missing THEN backup ELSE store

Request == IF rec = NoRecord THEN "none" ELSE rec.dir

(* The steps that move content.                                            *)
Carry ==
  \/ SyncCommit \/ RelinkCommitStage \/ RelinkCommit \/ AttachCommit \/ CleanBackup
  \/ RefreshCopy \/ RefreshCreate \/ RefreshRename

(* A record that changes keeps its request.                                *)
LEMMA RequestKept ==
  ASSUME ControlInv,
         \/ SyncPersist \/ RelinkPersist \/ RecoveryPersist
         \/ RelinkExcluded \/ RelinkRecordBackup \/ DecideRecord
  PROVE  /\ rec # NoRecord /\ rec' # NoRecord /\ rec'.dir = rec.dir
         /\ UNCHANGED <<repo, store, backup, acts, raced>>
<1> USE DEF ControlInv
<1>1. CASE SyncPersist \/ RelinkPersist \/ RecoveryPersist
  BY <1>1, Persisted DEF SyncPersist, RelinkPersist, RecoveryPersist
<1>2. CASE RelinkExcluded
  <2>1. rec # NoRecord /\ rec' = [rec EXCEPT !.phase = "ExcludeWritten"]
    BY <1>2 DEF RelinkExcluded
  <2>2. rec.op = "relink" /\ "ExcludeWritten" \in CopyPhases(rec.op)
    BY <1>2, PhasesOf DEF RelinkExcluded, For, At, RecordInv, RelinkRecord, By
  <2> QED BY <1>2, <2>1, <2>2, Advanced DEF RelinkExcluded, durable, user
<1>3. CASE RelinkRecordBackup
  BY <1>3, Remembered DEF RelinkRecordBackup, durable, user
<1>4. CASE DecideRecord
  <2>1. rec # NoRecord /\ rec.phase # "PostCommitValidated"
    BY <1>4, JobNow DEF DecideRecord, At, PlaceInv, By, TempSteps, CleanSteps, RecordInv,
                        RecoveryRecord, RecordSteps
  <2>2. /\ UNCHANGED <<repo, store, backup, acts, raced>>
        /\ \/ rec' = rec
           \/ /\ rec' = [rec EXCEPT !.phase = After(rec.op, rec.phase)]
              /\ After(rec.op, rec.phase) \in CopyPhases(rec.op)
    BY <1>4, <2>1, Decided
  <2> QED BY <2>1, <2>2, Advanced
<1> QED BY <1>1, <1>2, <1>3, <1>4

(* The steps in which nothing of the view changes.                         *)
LEMMA QuietSteps ==
  ASSUME ControlInv, CopyWork \/ BeginRecovery, ~Carry, ~Drop
  PROVE  UNCHANGED <<repo, store, backup, acts, raced, Request>>
<1> USE DEF durable, user, Request
<1>1. CASE BeginRecovery
  BY <1>1 DEF BeginRecovery
<1>2. CASE JournalStep
  BY <1>2 DEF JournalStep, Reserve, ExcludeTemp, VerifyTempExclude, CreateTemp, IdentifyTemp,
              PopulateTemp, CleanTempFile, CleanTempExclude, CleanRecord
<1>3. CASE SyncStep
  BY <1>3, RequestKept DEF Carry, SyncStep, SyncInspect, SyncCheck, SyncPost
<1>4. CASE RelinkStep
  BY <1>4, RequestKept DEF Carry, RelinkStep, RelinkExclude, RelinkStage, RelinkCheckStage,
              RelinkInspect, RelinkCheck, RelinkPost, Attach,
              AttachExcluded, AttachCheck, AttachPost, RelinkUnexclude
<1>5. CASE RefreshStep
  BY <1>5 DEF Carry, RefreshStep, RepairExclude, RepairInspect, RepairCheck, MaterializeCheck,
              RefreshBeside, RefreshPost
<1>6. CASE RecoveryStep
  BY <1>6, RequestKept DEF RecoveryStep, RecoverOne
<1> QED BY <1>1, <1>2, <1>3, <1>4, <1>5, <1>6 DEF CopyWork

(* A user who writes through the link writes the canonical content.        *)
LEMMA UserView ==
  ASSUME ControlInv, UserAct
  PROVE  View!UserStep
<1> USE DEF ControlInv, View!UserStep
<1>1. ASSUME NEW kind, Act(kind)
      PROVE  acts' = acts + 1 /\ raced' \in (IF raced = "no" THEN {"no", "pending"} ELSE {raced})
  BY <1>1 DEF Act
<1>2. ASSUME NEW c \in Contents, Edit(c) PROVE View!UserStep
  BY <1>1, <1>2, EntriesApart DEF Edit
<1>3. ASSUME NEW c \in Contents, Swap(c) PROVE View!UserStep
  BY <1>1, <1>3 DEF Swap, durable
<1>4. ASSUME NEW entry, Replace(entry) \/ Delete PROVE View!UserStep
  BY <1>1, <1>4 DEF Replace, Delete, NewEntry
<1>5. CASE Track
  BY <1>1, <1>5 DEF Track, durable
<1>6. CASE Unexclude
  BY <1>1, <1>6 DEF Unexclude
<1> QED BY <1>2, <1>3, <1>4, <1>5, <1>6 DEF UserAct

(* What an install into the working tree shows.                            *)
LEMMA ShowView ==
  ASSUME ControlInv,
         \/ SyncCommit /\ job.into = "repo"
         \/ RelinkCommit /\ job.into = "repo"
         \/ AttachCommit \/ RefreshCopy \/ RefreshCreate \/ RefreshRename
  PROVE  View!Show
<1> USE DEF ControlInv
<1>1. Committed /\ UNCHANGED <<store, backup, rec, acts>>
  <2>1. CASE SyncCommit /\ job.into = "repo"
    BY <2>1 DEF SyncCommit, user
  <2>2. CASE RelinkCommit /\ job.into = "repo"
    BY <2>2 DEF RelinkCommit, user
  <2>3. CASE AttachCommit \/ RefreshCopy \/ RefreshCreate \/ RefreshRename
    BY <2>3 DEF AttachCommit, RefreshCopy, RefreshCreate, RefreshRename, user
  <2> QED BY <2>1, <2>2, <2>3
<1>2. repo' \in Contents \cup {Link}
  <2>1. CASE RefreshCreate \/ RefreshRename
    BY <2>1 DEF RefreshCreate, RefreshRename, CreateLink
  <2>2. CASE AttachCommit /\ job.strategy # "copy"
    BY <2>2 DEF AttachCommit, CreateLink
  <2>3. CASE \/ SyncCommit /\ job.into = "repo"
             \/ RelinkCommit /\ job.into = "repo"
             \/ AttachCommit /\ job.strategy = "copy"
             \/ RefreshCopy
    <3>1. CommitToRepo /\ pc = "commit" /\ job # NoJob /\ job.cmd # "recover"
      <4>1. CASE SyncCommit /\ job.into = "repo"
        BY <4>1 DEF SyncCommit, For, At
      <4>2. CASE RelinkCommit /\ job.into = "repo"
        BY <4>2 DEF RelinkCommit, For, At
      <4>3. CASE AttachCommit /\ job.strategy = "copy"
        BY <4>3 DEF AttachCommit, For, At
      <4>4. CASE RefreshCopy
        BY <4>4 DEF RefreshCopy, Refreshing
      <4> QED BY <2>3, <4>1, <4>2, <4>3, <4>4
    <3> QED BY <3>1, TempWritten DEF CommitToRepo
  <2> QED BY <1>1, <2>1, <2>2, <2>3
<1>3. raced' = (IF raced = "no" THEN "no" ELSE "yes")
  BY <1>1 DEF Committed, Typed
<1>4. repo \notin Contents \/ repo = Canonical \/ Request = "FromStore" \/ raced' = "yes"
  <2> SUFFICES ASSUME repo \in Contents, raced = "no"
               PROVE  repo = Canonical \/ Request = "FromStore"
    BY <1>3
  <2>1. CASE RelinkCommit /\ job.into = "repo"
    <3>1. By("relink") /\ pc = "commit"
      BY <2>1 DEF RelinkCommit, For, At, By
    <3> QED BY <2>1, <3>1, RecNow DEF RecordInv, RelinkRecord, Request
  <2>2. CASE SyncCommit /\ job.into = "repo"
    <3>1. By("sync") /\ pc = "commit"
      BY <2>2 DEF SyncCommit, For, At, By
    <3> QED BY <2>2, <3>1, RecNow DEF RecordInv, SyncRecord, Request
  <2>3. CASE AttachCommit
    <3>1. job.found = "Missing"
      BY <2>3 DEF AttachCommit, For, At, By, CommitInv, TempSteps
    <3> QED BY <2>3, <3>1, EntriesApart DEF AttachCommit, CommitToRepo, CreateLink, AsFound
  <2>4. CASE RefreshCreate
    BY <2>4, EntriesApart DEF RefreshCreate, CreateLink
  <2>5. CASE RefreshCopy \/ RefreshRename
    <3>1. job.cmd \in {"repair", "materialize"} /\ pc \in {"commit", "linktemp"}
      BY <2>5 DEF RefreshCopy, RefreshRename, Refreshing
    <3> QED BY <3>1, EntriesApart DEF CommitInv, Canonical
  <2> QED BY <2>1, <2>2, <2>3, <2>4, <2>5
<1> QED BY <1>1, <1>2, <1>3, <1>4 DEF View!Show, View!Committed, Canonical, Request

(* A relink stages what it saves under the eyes of nobody: what the tree   *)
(* shows and the canonical content stay, wherever the latter is.           *)
LEMMA StageView ==
  ASSUME ControlInv, RelinkCommitStage
  PROVE  UNCHANGED View!vars \/ View!Show \/ View!Take
<1> USE DEF ControlInv
<1>1. /\ By("relink") /\ pc = "commit" /\ rec # NoRecord
      /\ job.into = "backup" /\ backup = Missing
      /\ Committed /\ UNCHANGED <<repo, rec, acts>>
  BY DEF RelinkCommitStage, For, At, By, user
<1>2. store \in Contents
  BY <1>1 DEF BackupInv, Typed
<1>3. Canonical = store /\ Canonical' = store
  BY <1>2, EntriesApart DEF RelinkCommitStage, Canonical
<1>4. raced' = (IF raced = "no" THEN "no" ELSE "yes")
  BY <1>1 DEF Committed, Typed
<1>5. CASE rec.dir = "FromStore"
  <2>1. job.found = "Present" /\ same
    BY <1>1, <1>5 DEF RelinkCommitStage, AsFound, RecordInv, RelinkRecord
  <2>2. repo \in Contents
    BY <1>1, <1>5, <2>1 DEF RelinkInv, TempSteps
  <2> QED BY <1>1, <1>3, <1>4, <1>5, <2>2 DEF View!Show, View!Committed, Canonical
<1>6. CASE rec.dir = "FromRepo"
  BY <1>1, <1>2, <1>3, <1>4, <1>6 DEF View!Take, View!Committed, Canonical
<1> QED BY <1>1, <1>5, <1>6, RecNow

(* An install of the canonical file takes what the tree shows.             *)
LEMMA TakeView ==
  ASSUME ControlInv,
         \/ SyncCommit /\ job.into # "repo"
         \/ RelinkCommit /\ job.into # "repo"
  PROVE  View!Take
<1> USE DEF ControlInv
<1>1. /\ Committed /\ UNCHANGED <<repo, backup, rec, acts>> /\ CommitToStore
      /\ pc = "commit" /\ job # NoJob /\ job.cmd # "recover"
  <2>1. CASE SyncCommit /\ job.into # "repo"
    BY <2>1 DEF SyncCommit, For, At, user
  <2>2. CASE RelinkCommit /\ job.into # "repo"
    BY <2>2 DEF RelinkCommit, For, At, user
  <2> QED BY <2>1, <2>2
<1>2. store' \in Contents /\ store' # Missing
  BY <1>1, TempWritten, EntriesApart DEF CommitToStore
<1>3. rec # NoRecord /\ rec.dir = "FromRepo"
  <2>1. CASE SyncCommit /\ job.into # "repo"
    BY <2>1, RecNow DEF SyncCommit, For, At, By, RecordInv, SyncRecord
  <2>2. CASE RelinkCommit /\ job.into # "repo"
    <3>1. job.into = "store" /\ By("relink")
      BY <2>2 DEF RelinkCommit, For, At, By
    <3> QED BY <3>1, RecNow DEF RecordInv, RelinkRecord
  <2> QED BY <2>1, <2>2
<1>4. raced' = (IF raced = "no" THEN "no" ELSE "yes")
  BY <1>1 DEF Committed, Typed
<1> QED BY <1>1, <1>2, <1>3, <1>4 DEF View!Take, View!Committed

(* A command that starts asks for what its record will say.                *)
LEMMA AskView ==
  ASSUME ControlInv, Command
  PROVE  View!Ask \/ UNCHANGED View!vars
<1> USE DEF ControlInv, durable, user
<1>1. ASSUME NEW dir \in Directions, SyncBegin(dir) PROVE View!Ask
  <2>1. repo \in Contents /\ store \in Contents /\ repo # store /\ excl
    BY <1>1, Kinds DEF Typed, SyncBegin, SyncState, SyncStoreIntact, CopyContent, Integrated
  <2>2. rec = NoRecord /\ rec' # NoRecord /\ rec'.dir = dir
    BY <1>1, <2>1, NewRecord, RecordFields DEF Typed, SyncBegin, Start
  <2> QED BY <1>1, <2>2 DEF SyncBegin, View!Ask, Directions
<1>2. ASSUME NEW dir \in Directions, RelinkBegin(dir) PROVE View!Ask
  <2>1. repo \in Contents /\ store \in Contents /\ repo # store /\ excl \in BOOLEAN
    BY <1>2, Kinds DEF Typed, RelinkBegin, RelinkPlanned, DivergedCopy, CopyContent
  <2>2. rec = NoRecord /\ rec' # NoRecord /\ rec'.dir = dir
    BY <1>2, <2>1, NewRecord, RecordFields DEF RelinkBegin, Start
  <2> QED BY <1>2, <2>2 DEF RelinkBegin, View!Ask, Directions
<1>3. ASSUME NEW strategy, NEW force,
             \/ AttachBegin(strategy) \/ RepairBegin(strategy, force)
             \/ RepoRepairBegin(strategy, force) \/ MaterializeBegin(strategy)
      PROVE  UNCHANGED View!vars
  BY <1>3 DEF AttachBegin, RepairBegin, RepoRepairBegin, MaterializeBegin, View!vars
<1> QED BY <1>1, <1>2, <1>3 DEF Command, SyncCommand, RelinkCommand, RepairCommand

(* Every step of CopyItem is a step of CanonicalView, or none.             *)
LEMMA ViewSteps ==
  ASSUME ControlInv, [Next]_vars
  PROVE  [View!Next]_(View!vars)
<1>1. CASE Command
  BY <1>1, AskView DEF View!Next
<1>2. CASE UserAct
  BY <1>2, UserView DEF View!Next
<1>3. CASE (CopyWork \/ BeginRecovery) /\ ~Carry /\ ~Drop
  <2>1. UNCHANGED <<repo, store, backup, acts, raced, Request>>
    BY <1>3, QuietSteps
  <2> QED BY <2>1 DEF View!vars, Request
<1>4. CASE Drop
  <2>1. rec' = NoRecord /\ UNCHANGED <<repo, store, backup, acts, raced>>
    BY <1>4 DEF Drop, durable, user
  <2>2. raced' \in (IF raced = "pending" THEN {"no"} ELSE {raced})
    BY <1>4, <2>1 DEF Drop, At, ControlInv, CommitInv
  <2> QED BY <2>1, <2>2 DEF View!Next, View!Settle
<1>5. CASE Halt
  BY <1>5 DEF Halt, durable, user, View!Next, View!Settle
<1>6. CASE CleanBackup
  <2>1. UNCHANGED <<repo, store, rec, acts, raced>> /\ (backup' = backup \/ backup' = Missing)
    BY <1>6 DEF CleanBackup, user
  <2>2. store # Missing
    <3>1. rec # NoRecord /\ job # NoJob /\ pc = "cleanbackup"
      BY <1>6 DEF CleanBackup, At
    <3>2. job.cmd \in {"relink", "recover"}
      BY <3>1, JobNow DEF ControlInv, PlaceInv, By, TempSteps, CleanSteps
    <3>3. rec.op = "relink" /\ rec.phase = "OwnershipAttached"
      BY <3>1, <3>2 DEF ControlInv, RecordInv, RelinkRecord, RecoveryRecord, By, RecordSteps
    <3> QED BY <3>1, <3>3 DEF ControlInv, BackupInv
  <2> QED BY <2>1, <2>2 DEF View!vars
<1>7. CASE RelinkCommitStage
  BY <1>7, StageView DEF View!Next
<1>8. CASE \/ SyncCommit \/ RelinkCommit
           \/ AttachCommit \/ RefreshCopy \/ RefreshCreate \/ RefreshRename
  BY <1>8, ShowView, TakeView DEF View!Next
<1>9. CASE UNCHANGED vars
  BY <1>9 DEF vars, durable, user, View!vars
<1> QED BY <1>1, <1>2, <1>3, <1>4, <1>5, <1>6, <1>7, <1>8, <1>9 DEF Next, Carry

(* Through every stop, recovery and act of a user, what the tree shows and *)
(* what is canonical are brought together only as somebody asked for.      *)
THEOREM CopyImplementsCanonicalView == CopySpec => ImplementsCanonicalView
<1>1. Init => View!Init
  BY EntriesApart DEF Init, View!Init
<1>2. ControlInv /\ [Next]_vars => [View!Next]_(View!vars)
  BY ViewSteps
<1> QED BY <1>1, <1>2, ControlHolds, PTL DEF CopySpec, ImplementsCanonicalView, View!Spec

(***************************************************************************)
(* CopyItem implements TempProtocol                                        *)
(***************************************************************************)
TempSide == IF art = NoArtifact THEN "none" ELSE art.side

(* The sides' protocols, one step after the other.                         *)
LEMMA ProtocolSteps ==
  /\ Len(Temps!RepoSideProtocol) = 5
  /\ Temps!RepoSideProtocol[1] = "RecordPath"
  /\ Temps!RepoSideProtocol[2] = "ExcludeTemp"
  /\ Temps!RepoSideProtocol[3] = "CreateEmptyTemp"
  /\ Temps!RepoSideProtocol[4] = "RecordIdentity"
  /\ Temps!RepoSideProtocol[5] = "WritePlaintext"
  /\ Len(Temps!StoreSideProtocol) = 4
  /\ Temps!StoreSideProtocol[1] = "RecordPath"
  /\ Temps!StoreSideProtocol[2] = "CreateEmptyTemp"
  /\ Temps!StoreSideProtocol[3] = "RecordIdentity"
  /\ Temps!StoreSideProtocol[4] = "WritePlaintext"
BY DEF Temps!RepoSideProtocol, Temps!StoreSideProtocol

(* The first n elements of a sequence, as a set.                           *)
LEMMA FirstOnes ==
  ASSUME NEW s, NEW S, s \in Seq(S), NEW n \in 0..Len(s)
  PROVE  Temps!ToSet(SubSeq(s, 1, n)) = {s[j] : j \in 1..n}
<1>1. /\ SubSeq(s, 1, n) \in Seq(S) /\ Len(SubSeq(s, 1, n)) = n
      /\ \A i \in 1..n : SubSeq(s, 1, n)[i] = s[i]
  BY SubSeqProperties
<1>2. DOMAIN SubSeq(s, 1, n) = 1..n
  BY <1>1
<1> QED BY <1>1, <1>2 DEF Temps!ToSet

(* A step of a protocol is taken when the ones before it are done.         *)
LEMMA TakeTemp ==
  ASSUME TempSide \in {"repo", "store"}, TempSide' = TempSide,
         \/ /\ TempSide = "repo"
            /\ \/ StepsDone = {"RecordPath"} /\ StepsDone' = StepsDone \cup {"ExcludeTemp"}
               \/ /\ StepsDone = {"RecordPath", "ExcludeTemp"}
                  /\ StepsDone' = StepsDone \cup {"CreateEmptyTemp"}
               \/ /\ StepsDone = {"RecordPath", "ExcludeTemp", "CreateEmptyTemp"}
                  /\ StepsDone' = StepsDone \cup {"RecordIdentity"}
               \/ /\ StepsDone = {"RecordPath", "ExcludeTemp", "CreateEmptyTemp", "RecordIdentity"}
                  /\ StepsDone' = StepsDone \cup {"WritePlaintext"}
         \/ /\ TempSide = "store"
            /\ \/ StepsDone = {"RecordPath"} /\ StepsDone' = StepsDone \cup {"CreateEmptyTemp"}
               \/ /\ StepsDone = {"RecordPath", "CreateEmptyTemp"}
                  /\ StepsDone' = StepsDone \cup {"RecordIdentity"}
               \/ /\ StepsDone = {"RecordPath", "CreateEmptyTemp", "RecordIdentity"}
                  /\ StepsDone' = StepsDone \cup {"WritePlaintext"}
  PROVE  Temps!Take
<1> DEFINE all == {"RecordPath", "ExcludeTemp", "CreateEmptyTemp", "RecordIdentity",
                   "WritePlaintext"}
<1>1. Temps!RepoSideProtocol \in Seq(all) /\ Temps!StoreSideProtocol \in Seq(all)
  BY DEF Temps!RepoSideProtocol, Temps!StoreSideProtocol
<1> HIDE DEF all
<1>2. CASE TempSide = "repo"
  <2>1. Temps!Protocol(TempSide) = Temps!RepoSideProtocol
    BY <1>2 DEF Temps!Protocol
  <2>2. ASSUME NEW i \in 2..5,
               StepsDone = {Temps!RepoSideProtocol[j] : j \in 1..(i - 1)},
               StepsDone' = StepsDone \cup {Temps!RepoSideProtocol[i]}
        PROVE  Temps!Take
    <3>1. Temps!ToSet(SubSeq(Temps!RepoSideProtocol, 1, i - 1)) = StepsDone
      <4>1. i - 1 \in 0..Len(Temps!RepoSideProtocol)
        BY <2>2, ProtocolSteps
      <4>2. Temps!ToSet(SubSeq(Temps!RepoSideProtocol, 1, i - 1)) =
              {Temps!RepoSideProtocol[j] : j \in 1..(i - 1)}
        BY ONLY <1>1, <4>1, FirstOnes
      <4> QED BY <2>2, <4>2
    <3> QED BY <2>1, <2>2, <3>1, ProtocolSteps DEF Temps!Take, TempSide
  <2>3. /\ {Temps!RepoSideProtocol[j] : j \in 1..1} = {"RecordPath"}
        /\ {Temps!RepoSideProtocol[j] : j \in 1..2} = {"RecordPath", "ExcludeTemp"}
        /\ {Temps!RepoSideProtocol[j] : j \in 1..3} = {"RecordPath", "ExcludeTemp", "CreateEmptyTemp"}
        /\ {Temps!RepoSideProtocol[j] : j \in 1..4} =
             {"RecordPath", "ExcludeTemp", "CreateEmptyTemp", "RecordIdentity"}
    <3>1. 1..1 = {1} /\ 1..2 = {1, 2} /\ 1..3 = {1, 2, 3} /\ 1..4 = {1, 2, 3, 4}
      OBVIOUS
    <3> QED BY <3>1, ProtocolSteps
  <2> QED BY <1>2, <2>2, <2>3, ProtocolSteps
<1>3. CASE TempSide = "store"
  <2>1. Temps!Protocol(TempSide) = Temps!StoreSideProtocol
    BY <1>3 DEF Temps!Protocol
  <2>2. ASSUME NEW i \in 2..4,
               StepsDone = {Temps!StoreSideProtocol[j] : j \in 1..(i - 1)},
               StepsDone' = StepsDone \cup {Temps!StoreSideProtocol[i]}
        PROVE  Temps!Take
    <3>1. Temps!ToSet(SubSeq(Temps!StoreSideProtocol, 1, i - 1)) = StepsDone
      <4>1. i - 1 \in 0..Len(Temps!StoreSideProtocol)
        BY <2>2, ProtocolSteps
      <4>2. Temps!ToSet(SubSeq(Temps!StoreSideProtocol, 1, i - 1)) =
              {Temps!StoreSideProtocol[j] : j \in 1..(i - 1)}
        BY ONLY <1>1, <4>1, FirstOnes
      <4> QED BY <2>2, <4>2
    <3> QED BY <2>1, <2>2, <3>1, ProtocolSteps DEF Temps!Take, TempSide
  <2>3. /\ {Temps!StoreSideProtocol[j] : j \in 1..1} = {"RecordPath"}
        /\ {Temps!StoreSideProtocol[j] : j \in 1..2} = {"RecordPath", "CreateEmptyTemp"}
        /\ {Temps!StoreSideProtocol[j] : j \in 1..3} =
             {"RecordPath", "CreateEmptyTemp", "RecordIdentity"}
    <3>1. 1..1 = {1} /\ 1..2 = {1, 2} /\ 1..3 = {1, 2, 3}
      OBVIOUS
    <3> QED BY <3>1, ProtocolSteps
  <2> QED BY <1>3, <2>2, <2>3, ProtocolSteps
<1> QED BY <1>2, <1>3

(* What is done about a temp, one step at a time.                          *)
LEMMA DoneSteps ==
  ASSUME Typed, art # NoArtifact
  PROVE  StepsDone = {s \in {"RecordPath", "ExcludeTemp", "CreateEmptyTemp", "RecordIdentity",
                            "WritePlaintext"} :
           /\ s = "ExcludeTemp" => art.verified /\ tempExcl
           /\ s = "CreateEmptyTemp" => OurTemp
           /\ s = "RecordIdentity" => art.created /\ art.ours
           /\ s = "WritePlaintext" => OurTemp /\ temp.data \in Contents}
BY DEF StepsDone

(* A temp whose file goes loses what the file is.                          *)
LEMMA FileGoes ==
  ASSUME ControlInv, UNCHANGED <<tempExcl, art>>, temp # Missing,
         temp' = Missing \/ (temp'.ours = FALSE)
  PROVE  Temps!FileGoes \/ UNCHANGED Temps!vars
<1>1. art # NoArtifact /\ Typed
  BY DEF ControlInv, JournalInv
<1>2. ~OurTemp'
  BY DEF OurTemp
<1>3. StepsDone' = StepsDone \ Temps!FileSteps
  BY <1>1, <1>2 DEF StepsDone, Temps!FileSteps
<1>4. CASE OurTemp
  <2>1. "CreateEmptyTemp" \in StepsDone
    BY <1>1, <1>4 DEF StepsDone
  <2> QED BY <1>3, <2>1 DEF Temps!FileGoes, Temps!FileSteps
<1>5. CASE ~OurTemp
  BY <1>1, <1>2, <1>5 DEF StepsDone, Temps!vars, OurTemp
<1> QED BY <1>4, <1>5

(* The steps that reach no temp, nor what accounts for it.                 *)
LEMMA TempQuiet ==
  ASSUME [Next]_vars, ~JournalStep,
         ~SyncCommit, ~RelinkCommitStage, ~RelinkCommit, ~AttachCommit, ~RefreshCopy,
         \A c \in Contents : ~Swap(c)
  PROVE  UNCHANGED <<temp, tempExcl, art>>
<1> USE DEF journal
<1>1. CASE Command \/ BeginRecovery
  BY <1>1 DEF Command, SyncCommand, RelinkCommand, RepairCommand, SyncBegin, RelinkBegin,
              AttachBegin, RepairBegin, RepoRepairBegin, MaterializeBegin, BeginRecovery
<1>2. CASE SyncStep
  BY <1>2 DEF SyncStep, SyncInspect, SyncCheck, SyncPersist, SyncPost, Persist
<1>3. CASE RelinkStep
  BY <1>3 DEF RelinkStep, RelinkExclude, RelinkExcluded, RelinkStage, RelinkCheckStage,
              RelinkRecordBackup, RelinkInspect, RelinkCheck, RelinkPersist, RelinkPost, Attach,
              CleanBackup, AttachExcluded, AttachCheck, AttachPost, RelinkUnexclude, Persist
<1>4. CASE RefreshStep
  BY <1>4 DEF RefreshStep, RepairExclude, RepairInspect, RepairCheck, MaterializeCheck,
              RefreshCreate, RefreshBeside, RefreshRename, RefreshPost
<1>5. CASE RecoveryStep \/ Drop \/ Halt
  BY <1>5 DEF RecoveryStep, RecoverOne, DecideRecord, RecoveryPersist, Persist, Drop, Halt
<1>6. CASE UserAct
  BY <1>6 DEF UserAct, Edit, Replace, Delete, Track, Unexclude, NewEntry
<1>7. CASE UNCHANGED vars
  BY <1>7 DEF vars
<1> QED BY <1>1, <1>2, <1>3, <1>4, <1>5, <1>6, <1>7 DEF Next, CopyWork

(* Where a temp may be while a command prepares it.                        *)
LEMMA Preparing ==
  ASSUME ControlInv, job # NoJob,
         pc \in {"tempexclude", "verify", "create", "identify", "populate"}
  PROVE  /\ Typed /\ Working /\ art # NoArtifact
         /\ art.side \in {"repo", "store"} /\ TempSide = art.side
         /\ pc \in {"tempexclude", "verify"} =>
              art.side = "repo" /\ ~art.verified /\ ~art.created /\ temp = Missing
         /\ pc \in {"create", "identify"} =>
              ~art.created /\ (art.side = "repo" => art.verified /\ tempExcl)
         /\ pc = "populate" => art.created
         /\ pc = "populate" /\ temp # Missing /\ temp.ours => temp.data = Empty
<1> USE DEF ControlInv
<1>1. Typed /\ Working
  BY JobNow DEF Working, PlaceInv, By, CleanSteps, RecordSteps
<1> QED BY <1>1, ArtNow DEF TempInv, TempSteps, TempSide

(* The path is recorded first.                                             *)
LEMMA ReserveTemp ==
  ASSUME ControlInv, Reserve
  PROVE  \E s \in {"repo", "store"} : Temps!Begin(s)
<1> USE DEF ControlInv
<1>1. Typed /\ Working /\ art = NoArtifact /\ temp = Missing
  BY JobNow DEF Reserve, At, TempInv, JournalInv, Working, PlaceInv, By, CleanSteps, RecordSteps
<1>2. /\ art' = [side |-> Side, created |-> FALSE, verified |-> FALSE, ours |-> TRUE]
      /\ temp' = Missing /\ Side \in {"repo", "store"}
  BY <1>1 DEF Reserve, Side
<1>3. art' # NoArtifact /\ art'.side = Side
  BY <1>2, ArtifactFields
<1>4. StepsDone' = {"RecordPath"}
  BY <1>2, <1>3 DEF StepsDone, OurTemp
<1>5. Head(Temps!Protocol(Side)) = "RecordPath"
  BY <1>2 DEF Temps!Protocol, Temps!RepoSideProtocol, Temps!StoreSideProtocol
<1> QED BY <1>1, <1>2, <1>3, <1>4, <1>5 DEF Temps!Begin

(* In the working tree it is excluded next.                                *)
LEMMA VerifyTemp ==
  ASSUME ControlInv, VerifyTempExclude
  PROVE  Temps!Take
<1>1. Typed /\ art # NoArtifact /\ art.side = "repo" /\ ~art.verified /\ ~art.created /\ temp = Missing
  BY Preparing DEF VerifyTempExclude, At
<1>2. /\ art' = [art EXCEPT !.verified = TRUE] /\ tempExcl /\ tempExcl' = tempExcl
      /\ temp' = Missing
  BY <1>1 DEF VerifyTempExclude
<1>3. /\ art' \in GoodArtifacts /\ art' # NoArtifact
      /\ art'.side = "repo" /\ art'.verified /\ art'.created = FALSE
  BY <1>1, <1>2, ArtNow, ArtifactFields
<1>4. StepsDone = {"RecordPath"} /\ StepsDone' = {"RecordPath", "ExcludeTemp"}
  BY <1>1, <1>2, <1>3 DEF StepsDone, OurTemp
<1>5. TempSide = "repo" /\ TempSide' = "repo"
  BY <1>1, <1>3 DEF TempSide
<1> QED BY <1>4, <1>5, TakeTemp

(* Only then is the file created, empty.                                   *)
LEMMA CreateTempStep ==
  ASSUME ControlInv, CreateTemp
  PROVE  Temps!Take
<1>1. /\ Typed /\ art # NoArtifact /\ art.side \in {"repo", "store"} /\ TempSide = art.side
      /\ ~art.created /\ (art.side = "repo" => art.verified /\ tempExcl)
      /\ (art.verified => art.side = "repo")
  BY Preparing, ArtNow DEF CreateTemp, At
<1>2. /\ temp = Missing /\ temp' = [data |-> Empty, ours |-> TRUE]
      /\ UNCHANGED <<art, tempExcl>>
  BY DEF CreateTemp
<1>3. OurTemp' /\ temp'.data \notin Contents
  <2>1. temp' \in [data : Contents \cup {Empty}, ours : BOOLEAN]
    BY <1>2
  <2>2. temp' # Missing /\ temp'.ours = TRUE /\ temp'.data = Empty
    BY <1>2, <2>1, TempsDistinct
  <2> QED BY <2>2, EntriesApart DEF OurTemp
<1>4. TempSide' = TempSide
  BY <1>2 DEF TempSide
<1>5. CASE art.side = "repo"
  <2>1. StepsDone = {"RecordPath", "ExcludeTemp"}
    BY <1>1, <1>2, <1>5 DEF StepsDone, OurTemp
  <2>2. StepsDone' = {"RecordPath", "ExcludeTemp", "CreateEmptyTemp"}
    BY <1>1, <1>2, <1>3, <1>5 DEF StepsDone
  <2> QED BY <1>1, <1>4, <1>5, <2>1, <2>2, TakeTemp
<1>6. CASE art.side = "store"
  <2>1. StepsDone = {"RecordPath"}
    BY <1>1, <1>2, <1>6 DEF StepsDone, OurTemp
  <2>2. StepsDone' = {"RecordPath", "CreateEmptyTemp"}
    BY <1>1, <1>2, <1>3, <1>6 DEF StepsDone
  <2> QED BY <1>1, <1>4, <1>6, <2>1, <2>2, TakeTemp
<1> QED BY <1>1, <1>5, <1>6

(* Its identity is recorded, unless it is somebody else's by then.         *)
LEMMA IdentifyTempStep ==
  ASSUME ControlInv, IdentifyTemp
  PROVE  Temps!Take \/ UNCHANGED Temps!vars
<1>1. /\ Typed /\ art # NoArtifact /\ art.side \in {"repo", "store"} /\ TempSide = art.side
      /\ ~art.created /\ (art.side = "repo" => art.verified /\ tempExcl)
      /\ (art.verified => art.side = "repo")
  BY Preparing, ArtNow DEF IdentifyTemp, At
<1>2. /\ temp # Missing /\ art' = [art EXCEPT !.created = TRUE, !.ours = temp.ours]
      /\ UNCHANGED <<temp, tempExcl>>
  BY DEF IdentifyTemp, Identified
<1>3. /\ art' \in GoodArtifacts /\ art' # NoArtifact /\ temp.ours \in BOOLEAN
      /\ art'.side = art.side /\ art'.created /\ art'.ours = temp.ours
      /\ art'.verified = art.verified
  BY <1>1, <1>2, ArtNow, TempNow, ArtifactFields
<1>4. TempSide' = TempSide
  BY <1>1, <1>3 DEF TempSide
<1>5. CASE ~temp.ours
  BY <1>1, <1>2, <1>3, <1>4, <1>5 DEF StepsDone, OurTemp, Temps!vars, TempSide
<1>6. CASE temp.ours
  <2>1. temp.data \notin Contents
    BY <1>1, <1>2, <1>6, EntriesApart DEF ControlInv, JournalInv
  <2>2. CASE art.side = "repo"
    <3>1. StepsDone = {"RecordPath", "ExcludeTemp", "CreateEmptyTemp"}
      BY <1>1, <1>2, <1>6, <2>1, <2>2 DEF StepsDone, OurTemp
    <3>2. StepsDone' = {"RecordPath", "ExcludeTemp", "CreateEmptyTemp", "RecordIdentity"}
      BY <1>1, <1>2, <1>3, <1>6, <2>1, <2>2 DEF StepsDone, OurTemp
    <3> QED BY <1>1, <1>4, <2>2, <3>1, <3>2, TakeTemp
  <2>3. CASE art.side = "store"
    <3>1. StepsDone = {"RecordPath", "CreateEmptyTemp"}
      BY <1>1, <1>2, <1>6, <2>1, <2>3 DEF StepsDone, OurTemp
    <3>2. StepsDone' = {"RecordPath", "CreateEmptyTemp", "RecordIdentity"}
      BY <1>1, <1>2, <1>3, <1>6, <2>1, <2>3 DEF StepsDone, OurTemp
    <3> QED BY <1>1, <1>4, <2>3, <3>1, <3>2, TakeTemp
  <2> QED BY <1>1, <2>2, <2>3
<1> QED BY <1>3, <1>5, <1>6

(* Plaintext goes into no other file than the recorded one.                *)
LEMMA PopulateTempStep ==
  ASSUME ControlInv, PopulateTemp
  PROVE  Temps!Take
<1>1. /\ Typed /\ art # NoArtifact /\ art.side \in {"repo", "store"} /\ TempSide = art.side
      /\ art.created /\ (art.verified => art.side = "repo")
      /\ temp # Missing /\ temp.ours /\ temp.data = Empty
  BY Preparing, ArtNow DEF PopulateTemp, At
<1>2. art.ours /\ (art.side = "repo" => art.verified /\ tempExcl)
  BY <1>1 DEF ControlInv, JournalInv
<1>3. UNCHANGED <<art, tempExcl>> /\ OurTemp /\ OurTemp' /\ temp'.data \in Contents
  <2>1. /\ temp' = [temp EXCEPT !.data = Source] /\ Source \in Contents
        /\ UNCHANGED <<art, tempExcl>>
    BY DEF PopulateTemp
  <2>2. temp' = [data |-> Source, ours |-> TRUE]
    BY <1>1, <2>1, TempNow
  <2> QED BY <1>1, <2>1, <2>2, TempsDistinct DEF OurTemp
<1>4. TempSide' = TempSide /\ temp.data \notin Contents
  BY <1>1, <1>3, EntriesApart DEF TempSide
<1>5. CASE art.side = "repo"
  <2>1. StepsDone = {"RecordPath", "ExcludeTemp", "CreateEmptyTemp", "RecordIdentity"}
    BY <1>1, <1>2, <1>3, <1>4, <1>5 DEF StepsDone
  <2>2. StepsDone' = StepsDone \cup {"WritePlaintext"}
    BY <1>1, <1>2, <1>3, <1>4, <1>5, <2>1 DEF StepsDone
  <2> QED BY <1>1, <1>4, <1>5, <2>1, <2>2, TakeTemp
<1>6. CASE art.side = "store"
  <2>1. StepsDone = {"RecordPath", "CreateEmptyTemp", "RecordIdentity"}
    BY <1>1, <1>2, <1>3, <1>4, <1>6 DEF StepsDone
  <2>2. StepsDone' = StepsDone \cup {"WritePlaintext"}
    BY <1>1, <1>2, <1>3, <1>4, <1>6, <2>1 DEF StepsDone
  <2> QED BY <1>1, <1>4, <1>6, <2>1, <2>2, TakeTemp
<1> QED BY <1>1, <1>5, <1>6

(* Cleaning up removes the file, then its exclude, then the record.        *)
LEMMA CleanTempSteps ==
  ASSUME ControlInv, CleanTempFile \/ CleanTempExclude \/ CleanRecord
  PROVE  Temps!FileGoes \/ Temps!ExcludeGoes \/ Temps!Finish \/ UNCHANGED Temps!vars
<1> USE DEF ControlInv
<1>1. CASE CleanTempFile
  <2>1. UNCHANGED <<tempExcl, art>> /\ (temp' = temp \/ temp' = Missing)
    BY <1>1 DEF CleanTempFile
  <2>2. CASE temp' = temp
    BY <2>1, <2>2 DEF Temps!vars, StepsDone, OurTemp
  <2> QED BY <2>1, <2>2, FileGoes
<1>2. CASE CleanTempExclude
  <2>1. art # NoArtifact /\ temp = Missing /\ UNCHANGED <<art, temp>> /\ (tempExcl' => tempExcl)
    BY <1>2 DEF CleanTempExclude, At, TempInv
  <2>2. tempExcl \in BOOLEAN /\ tempExcl' \in BOOLEAN
    BY <1>2 DEF Typed, CleanTempExclude
  <2>3. CASE tempExcl' = tempExcl
    BY <2>1, <2>3 DEF Temps!vars, StepsDone, OurTemp
  <2>4. CASE ~tempExcl'
    <3>1. StepsDone' = StepsDone \ {"ExcludeTemp"}
      BY <2>1, <2>4 DEF StepsDone, OurTemp
    <3>2. StepsDone \cap Temps!FileSteps = {}
      BY <2>1 DEF StepsDone, OurTemp, Temps!FileSteps
    <3> QED BY <2>1, <3>1, <3>2 DEF Temps!ExcludeGoes
  <2> QED BY <2>1, <2>2, <2>3, <2>4
<1>3. CASE CleanRecord
  <2>1. art # NoArtifact /\ temp = Missing /\ ~tempExcl /\ art' = NoArtifact
    BY <1>3 DEF CleanRecord, At, TempInv, CleanSteps
  <2>2. StepsDone \cap (Temps!FileSteps \cup {"ExcludeTemp"}) = {}
    BY <2>1 DEF StepsDone, OurTemp, Temps!FileSteps
  <2> QED BY <2>1, <2>2 DEF Temps!Finish, StepsDone
<1> QED BY <1>1, <1>2, <1>3

(* A commit renames the file away.                                         *)
LEMMA CommitTemp ==
  ASSUME ControlInv,
         SyncCommit \/ RelinkCommitStage \/ RelinkCommit \/ AttachCommit \/ RefreshCopy
  PROVE  Temps!FileGoes \/ UNCHANGED Temps!vars
<1>1. UNCHANGED <<tempExcl, art>>
  BY DEF SyncCommit, RelinkCommitStage, RelinkCommit, AttachCommit, RefreshCopy
<1>2. temp' = temp \/ (temp # Missing /\ temp' = Missing)
  BY DEF SyncCommit, RelinkCommitStage, RelinkCommit, AttachCommit, RefreshCopy, CommitToRepo,
         CommitToStore, TempReady
<1>3. CASE temp' = temp
  BY <1>1, <1>3 DEF Temps!vars, StepsDone, OurTemp
<1> QED BY <1>1, <1>2, <1>3, FileGoes

(* Every step of CopyItem is a step of TempProtocol, or none.              *)
LEMMA TempProtocolSteps ==
  ASSUME ControlInv, [Next]_vars
  PROVE  [Temps!Next]_(Temps!vars)
<1>1. art # NoArtifact => TempSide \in {"repo", "store"}
  BY ArtNow DEF TempSide, ControlInv
<1>2. art # NoArtifact => art.side # "none"
  BY ArtNow DEF ControlInv
<1>3. CASE Reserve
  BY <1>3, ReserveTemp DEF Temps!Next
<1>4. CASE ExcludeTemp
  <2>1. art # NoArtifact /\ ~art.verified /\ UNCHANGED <<art, temp>>
    BY <1>4, Preparing DEF ExcludeTemp, At
  <2> QED BY <2>1 DEF Temps!vars, StepsDone, OurTemp
<1>5. CASE VerifyTempExclude \/ CreateTemp \/ PopulateTemp \/ IdentifyTemp
  <2>1. art # NoArtifact
    BY <1>5, Preparing DEF VerifyTempExclude, CreateTemp, PopulateTemp, IdentifyTemp, At
  <2>2. Temps!Take \/ UNCHANGED Temps!vars
    BY <1>5, VerifyTemp, CreateTempStep, PopulateTempStep, IdentifyTempStep
  <2> QED BY <1>2, <2>1, <2>2 DEF Temps!Next
<1>6. CASE CleanTempFile \/ CleanTempExclude \/ CleanRecord
  <2>1. art # NoArtifact
    BY <1>6 DEF CleanTempFile, CleanTempExclude, CleanRecord, At, ControlInv, TempInv, CleanSteps
  <2>2. Temps!FileGoes \/ Temps!ExcludeGoes \/ Temps!Finish \/ UNCHANGED Temps!vars
    BY <1>6, CleanTempSteps
  <2> QED BY <1>2, <2>1, <2>2 DEF Temps!Next
<1>7. ASSUME Temps!FileGoes PROVE Temps!Next
  <2>1. art # NoArtifact
    BY <1>7 DEF Temps!FileGoes, StepsDone
  <2> QED BY <1>2, <1>7, <2>1 DEF Temps!Next
<1>8. CASE SyncCommit \/ RelinkCommitStage \/ RelinkCommit \/ AttachCommit \/ RefreshCopy
  BY <1>7, <1>8, CommitTemp
<1>9. ASSUME NEW c \in Contents, Swap(c) PROVE [Temps!Next]_(Temps!vars)
  <2>1. temp # Missing /\ temp'.ours = FALSE /\ UNCHANGED <<tempExcl, art>>
    BY <1>9 DEF Swap
  <2> QED BY <1>7, <2>1, FileGoes
<1>10. CASE UNCHANGED <<temp, tempExcl, art>>
  BY <1>10 DEF Temps!vars, StepsDone, OurTemp
<1> QED BY <1>3, <1>4, <1>5, <1>6, <1>8, <1>9, <1>10, TempQuiet DEF JournalStep

(* A temp exists only where its path is recorded and, in the working tree, *)
(* excluded; it holds plaintext only once its identity is recorded; and    *)
(* what accounts for it outlives it (domain/copy_safety.rs:85).            *)
THEOREM CopyImplementsTempProtocol == CopySpec => ImplementsTempProtocol
<1>1. Init => Temps!Init
  BY DEF Init, Temps!Init, StepsDone
<1>2. ControlInv /\ [Next]_vars => [Temps!Next]_(Temps!vars)
  BY TempProtocolSteps
<1> QED BY <1>1, <1>2, ControlHolds, PTL DEF CopySpec, ImplementsTempProtocol, Temps!Spec

(***************************************************************************)
(* The invariant: what else holds while nobody interferes                  *)
(***************************************************************************)
Staged ==
  /\ repo = rec.repoFp /\ backup = Loser(rec)
  /\ store = (IF rec.dir = "FromStore" THEN rec.storeFp ELSE Missing)

Replaced == Agreed /\ backup = Loser(rec) /\ rec.backupKnown

(* What a sync leaves, at any step and at any stop.                        *)
SyncShape ==
  rec # NoRecord /\ rec.op = "sync" =>
    /\ excl
    /\ rec.phase = "RecordCreated" => AsRecorded \/ Agreed
    /\ rec.phase # "RecordCreated" => Agreed

(* What a relink leaves, at any step and at any stop.                      *)
RelinkShape ==
  rec # NoRecord /\ rec.op = "relink" =>
    /\ rec.phase = "RecordCreated" => Planned /\ owner = "detached"
    /\ rec.phase = "ExcludeWritten" =>
         /\ owner = "detached"
         /\ \/ Planned /\ (excl \/ ~rec.exclBefore)
            \/ Staged /\ excl
            \/ Replaced /\ excl
    /\ rec.phase = "ContentSynchronized" => Replaced /\ excl
    /\ rec.phase = "OwnershipAttached" =>
         Agreed /\ excl /\ rec.backupKnown /\ backup \in {Missing, Loser(rec)}
    /\ rec.phase = "PostCommitValidated" => Agreed /\ excl

(* What each command has made of the item so far.                          *)
SyncSoFar ==
  By("sync") =>
    /\ pc \in TempSteps \cup {"inspect"} => AsRecorded
    /\ pc = "persist" => Agreed

RelinkSoFar ==
  By("relink") =>
    /\ pc \in TempSteps /\ job.into = "backup" => Planned
    /\ pc = "stage" => Planned
    /\ pc \in {"backup", "inspect"} => Staged
    /\ pc \in TempSteps /\ job.into # "backup" => Staged
    /\ pc \in CleanSteps /\ job.into = "backup" => Staged
    /\ pc \in CleanSteps \cup {"persist"} /\ job.into # "backup" => Agreed

RefreshSoFar ==
  /\ By("attach") =>
       /\ pc \in {"exclude", "excluded"} /\ job.found = "Present" => Healthy
       /\ pc \in CleanSteps \cup {"attach"} => Healthy
  /\ By("repair") \/ By("materialize") => (pc \in CleanSteps => Healthy)

(* Nobody but shelfbox has been at the temp, the excludes or the index.    *)
Calm ==
  /\ ~tracked /\ raced = "no"
  /\ temp # Missing => temp.ours
  /\ art # NoArtifact /\ art.created => art.ours
  /\ pc = "unexclude" => Planned
  /\ Working /\ pc # "exclude" => excl
  /\ Working /\ pc \in {"check", "commit"} /\ temp # Missing => temp.data = Source

Undisturbed ==
  Calm /\ SyncShape /\ RelinkShape /\ SyncSoFar /\ RelinkSoFar /\ RefreshSoFar

UndisturbedInv == acts = 0 => Undisturbed

(***************************************************************************)
(* Every step preserves it                                                 *)
(***************************************************************************)

(* A sync starts from what it records, excluded.                           *)
LEMMA SyncBeginCalm ==
  ASSUME ControlInv, Undisturbed, NEW dir \in Directions, SyncBegin(dir)
  PROVE  Undisturbed'
<1> USE DEF ControlInv, Undisturbed
<1>1. /\ repo \in Contents /\ store \in Contents /\ repo # store
      /\ owner = "attached" /\ excl /\ ~tracked
  BY Kinds DEF Typed, SyncBegin, SyncState, SyncStoreIntact, CopyContent, Integrated
<1>2. /\ pc = "idle" /\ rec = NoRecord /\ art = NoArtifact
      /\ job' \in Jobs /\ job' # NoJob
      /\ job'.cmd = "sync" /\ job'.strategy = "copy"
      /\ job'.into = (IF dir = "FromStore" THEN "repo" ELSE "store")
      /\ job'.found = (IF repo = Missing THEN "Missing" ELSE "Present")
      /\ pc' = (IF dir = "FromStore" THEN "reserve" ELSE "inspect") /\ turns' = 0 /\ same' = TRUE
  BY Started DEF SyncBegin
<1>3. /\ rec' \in GoodRecords /\ rec' # NoRecord
      /\ rec'.op = "sync" /\ rec'.phase = "RecordCreated" /\ rec'.dir = dir
      /\ rec'.repoFp = repo /\ rec'.storeFp = store /\ rec'.exclBefore = excl
      /\ rec'.backupKnown = FALSE
  BY <1>1, NewRecord, RecordsDistinct, RecordFields DEF SyncBegin
<1>4. UNCHANGED <<repo, store, backup, owner, excl, temp, tempExcl, linkTemp, art,
           tracked, acts, unsaved, raced>>
  BY DEF SyncBegin, durable, journal, user
<1> USE DEF Directions
<1> QED
  BY <1>1, <1>2, <1>3, <1>4 DEF Calm, Working, Source, Planned, AsRecorded,
     SyncShape, Agreed, RelinkShape, Staged, Replaced, SyncSoFar, By, TempSteps,
     RelinkSoFar, CleanSteps, RefreshSoFar, Healthy, RepoKind, CopyContent

(* A relink starts from what it records, detached and without a backup.    *)
LEMMA RelinkBeginCalm ==
  ASSUME ControlInv, Undisturbed, NEW dir \in Directions, RelinkBegin(dir)
  PROVE  Undisturbed'
<1> USE DEF ControlInv, Undisturbed
<1>1. /\ repo \in Contents /\ store \in Contents /\ repo # store
      /\ owner = "detached" /\ ~tracked /\ excl \in BOOLEAN
  BY Kinds DEF Typed, RelinkBegin, RelinkPlanned, DivergedCopy, CopyContent
<1>2. /\ pc = "idle" /\ rec = NoRecord /\ art = NoArtifact
      /\ job' \in Jobs /\ job' # NoJob
      /\ job'.cmd = "relink" /\ job'.strategy = "copy" /\ job'.into = "backup"
      /\ job'.found = (IF repo = Missing THEN "Missing" ELSE "Present")
      /\ pc' = "exclude" /\ turns' = 0 /\ same' = TRUE
  BY Started DEF RelinkBegin
<1>3. /\ rec' \in GoodRecords /\ rec' # NoRecord
      /\ rec'.op = "relink" /\ rec'.phase = "RecordCreated" /\ rec'.dir = dir
      /\ rec'.repoFp = repo /\ rec'.storeFp = store /\ rec'.exclBefore = excl
      /\ rec'.backupKnown = FALSE
  BY <1>1, NewRecord, RecordsDistinct, RecordFields DEF RelinkBegin
<1>4. UNCHANGED <<repo, store, backup, owner, excl, temp, tempExcl, linkTemp, art,
           tracked, acts, unsaved, raced>>
  BY DEF RelinkBegin, durable, journal, user
<1> USE DEF Directions
<1>5. RelinkShape'
  BY <1>1, <1>2, <1>3, <1>4, JobNow, RecNow, EntriesApart, TempNow DEF RelinkShape,
     Planned, AsRecorded, Staged, Replaced, Agreed, TempSteps, CleanSteps,
     RecordSteps, By, Working, PlaceInv, RecordInv, SyncRecord, RelinkRecord,
     RecoveryRecord, TempInv, BackupInv, RelinkInv, SyncShape, SyncSoFar,
     RelinkSoFar, Calm
<1>6. Calm' /\ SyncShape' /\ SyncSoFar' /\ RelinkSoFar' /\ RefreshSoFar'
  BY <1>1, <1>2, <1>3, <1>4 DEF Calm, Working, Source, Planned, AsRecorded,
     SyncShape, Agreed, SyncSoFar, By, TempSteps, RelinkSoFar, Staged, CleanSteps,
     RefreshSoFar, Healthy, RepoKind, CopyContent
<1> QED BY <1>5, <1>6

(* Attaching starts from a sound item, or from one that is not there.      *)
LEMMA AttachBeginCalm ==
  ASSUME ControlInv, Undisturbed, NEW strategy \in {"symlink", "copy"},
         AttachBegin(strategy)
  PROVE  Undisturbed'
<1> USE DEF ControlInv, Undisturbed
<1>1. /\ pc = "idle" /\ rec = NoRecord /\ art = NoArtifact
      /\ job' \in Jobs /\ job' # NoJob
      /\ job'.cmd = "attach" /\ job'.strategy = strategy /\ job'.into = "repo"
      /\ job'.found = (IF repo = Missing THEN "Missing" ELSE "Present")
      /\ pc' = "exclude" /\ turns' = 0 /\ same' = TRUE
  BY Started DEF AttachBegin
<1>2. repo = Missing \/ Healthy
  BY DEF AttachBegin
<1>3. UNCHANGED <<repo, store, backup, owner, excl, temp, tempExcl, linkTemp, art,
           rec, tracked, acts, unsaved, raced>>
  BY DEF AttachBegin, durable, journal, user
<1> QED
  BY <1>1, <1>2, <1>3 DEF Calm, Working, Source, Planned, AsRecorded, SyncShape,
     Agreed, RelinkShape, Staged, Replaced, SyncSoFar, By, TempSteps, RelinkSoFar,
     CleanSteps, RefreshSoFar, Healthy, RepoKind, CopyContent

(* A repair of an item starts with the exclude in place.                   *)
LEMMA RepairBeginCalm ==
  ASSUME ControlInv, Undisturbed, NEW strategy \in {"symlink", "copy"}, NEW force \in BOOLEAN,
         RepairBegin(strategy, force)
  PROVE  Undisturbed'
<1> USE DEF ControlInv, Undisturbed
<1>1. /\ pc = "idle" /\ rec = NoRecord /\ art = NoArtifact
      /\ job' \in Jobs /\ job' # NoJob
      /\ job'.cmd = "repair" /\ job'.strategy = strategy /\ job'.into = "repo"
      /\ job'.found = (IF repo = Missing THEN "Missing" ELSE "Present")
      /\ pc' = FirstStep(strategy) /\ turns' = 0 /\ same' = TRUE
  BY Started DEF RepairBegin
<1>2. UNCHANGED <<repo, store, backup, owner, excl, temp, tempExcl, linkTemp, art,
           rec, tracked, acts, unsaved, raced>>
  BY DEF RepairBegin, durable, journal, user
<1>3. FirstStep(strategy) = (IF strategy = "copy" THEN "reserve" ELSE "check")
  BY DEF FirstStep
<1>4. excl /\ temp = Missing
  BY <1>1 DEF RepairBegin, Integrated, JournalInv
<1>5. Calm'
  BY <1>1, <1>2, <1>3, <1>4, JobNow, RecNow, EntriesApart, TempNow DEF Calm, Working,
     Source, Planned, AsRecorded, TempSteps, CleanSteps, RecordSteps, By, PlaceInv,
     RecordInv, SyncRecord, RelinkRecord, RecoveryRecord, TempInv, JournalInv,
     RelinkInv
<1>6. SyncShape' /\ RelinkShape' /\ SyncSoFar' /\ RelinkSoFar' /\ RefreshSoFar'
  BY <1>1, <1>2, <1>3, <1>4 DEF SyncShape, AsRecorded, Agreed, RelinkShape, Planned,
     Staged, Replaced, SyncSoFar, By, TempSteps, RelinkSoFar, CleanSteps,
     RefreshSoFar, Healthy, RepoKind, CopyContent
<1> QED BY <1>5, <1>6

(* A repair of a checkout may start without it.                            *)
LEMMA RepoRepairBeginCalm ==
  ASSUME ControlInv, Undisturbed, NEW strategy \in {"symlink", "copy"}, NEW force \in BOOLEAN,
         RepoRepairBegin(strategy, force)
  PROVE  Undisturbed'
<1> USE DEF ControlInv, Undisturbed
<1>1. /\ pc = "idle" /\ rec = NoRecord /\ art = NoArtifact
      /\ job' \in Jobs /\ job' # NoJob
      /\ job'.cmd \in {"repair",
                 "integrate"} /\ job'.strategy = strategy /\ job'.into = "repo"
      /\ job'.found = (IF repo = Missing THEN "Missing" ELSE "Present")
      /\ pc' = "exclude" /\ turns' = 0 /\ same' = TRUE
  BY Started DEF RepoRepairBegin
<1>2. UNCHANGED <<repo, store, backup, owner, excl, temp, tempExcl, linkTemp, art,
           rec, tracked, acts, unsaved, raced>>
  BY DEF RepoRepairBegin, durable, journal, user
<1> QED
  BY <1>1, <1>2 DEF Calm, Working, Source, Planned, AsRecorded, SyncShape, Agreed,
     RelinkShape, Staged, Replaced, SyncSoFar, By, TempSteps, RelinkSoFar,
     CleanSteps, RefreshSoFar, Healthy, RepoKind, CopyContent

(* materialize starts with the exclude in place.                           *)
LEMMA MaterializeBeginCalm ==
  ASSUME ControlInv, Undisturbed, NEW strategy \in {"symlink", "copy"},
         MaterializeBegin(strategy)
  PROVE  Undisturbed'
<1> USE DEF ControlInv, Undisturbed
<1>1. /\ pc = "idle" /\ rec = NoRecord /\ art = NoArtifact
      /\ job' \in Jobs /\ job' # NoJob
      /\ job'.cmd = "materialize" /\ job'.strategy = strategy /\ job'.into = "repo"
      /\ job'.found = (IF repo = Missing THEN "Missing" ELSE "Present")
      /\ pc' = FirstStep(strategy) /\ turns' = 0 /\ same' = TRUE
  BY Started DEF MaterializeBegin
<1>2. UNCHANGED <<repo, store, backup, owner, excl, temp, tempExcl, linkTemp, art,
           rec, tracked, acts, unsaved, raced>>
  BY DEF MaterializeBegin, durable, journal, user
<1>3. FirstStep(strategy) = (IF strategy = "copy" THEN "reserve" ELSE "check")
  BY DEF FirstStep
<1>4. excl /\ temp = Missing
  BY <1>1 DEF MaterializeBegin, Integrated, JournalInv
<1>5. Calm'
  BY <1>1, <1>2, <1>3, <1>4, JobNow, RecNow, EntriesApart, TempNow DEF Calm, Working,
     Source, Planned, AsRecorded, TempSteps, CleanSteps, RecordSteps, By, PlaceInv,
     RecordInv, SyncRecord, RelinkRecord, RecoveryRecord, TempInv, JournalInv,
     RelinkInv
<1>6. SyncShape' /\ RelinkShape' /\ SyncSoFar' /\ RelinkSoFar' /\ RefreshSoFar'
  BY <1>1, <1>2, <1>3, <1>4 DEF SyncShape, AsRecorded, Agreed, RelinkShape, Planned,
     Staged, Replaced, SyncSoFar, By, TempSteps, RelinkSoFar, CleanSteps,
     RefreshSoFar, Healthy, RepoKind, CopyContent
<1> QED BY <1>5, <1>6

(* Recovery starts from what the stopped command left.                     *)
LEMMA BeginRecoveryCalm ==
  ASSUME ControlInv, Undisturbed, BeginRecovery
  PROVE  Undisturbed'
<1> USE DEF ControlInv, Undisturbed
<1>1. /\ job' \in Jobs /\ job' # NoJob /\ job'.cmd = "recover"
      /\ pc = "idle" /\ pc' = "recover" /\ turns' = 0 /\ same' = TRUE
      /\ (rec # NoRecord \/ art # NoArtifact)
  BY JobFields DEF BeginRecovery, Jobs
<1>2. UNCHANGED <<repo, store, backup, owner, excl, temp, tempExcl, linkTemp, art,
           rec, tracked, acts, unsaved, raced>>
  BY DEF BeginRecovery, durable, journal, user
<1> QED
  BY <1>1, <1>2 DEF Calm, Working, Source, Planned, AsRecorded, SyncShape, Agreed,
     RelinkShape, Staged, Replaced, SyncSoFar, By, TempSteps, RelinkSoFar,
     CleanSteps, RefreshSoFar, Healthy, RepoKind, CopyContent

(* A journal record for a temp there is not yet says nothing of one.       *)
LEMMA ReserveCalm ==
  ASSUME ControlInv, Undisturbed, Reserve
  PROVE  Undisturbed'
<1> USE DEF ControlInv, Undisturbed
<1>1. /\ art' \in GoodArtifacts /\ art' # NoArtifact
      /\ art'.side = Side /\ ~art'.created /\ ~art'.verified /\ art'.ours
      /\ Side \in {"repo", "store"}
  BY ArtifactFields DEF Reserve, Side
<1>2. /\ pc = "reserve" /\ job # NoJob /\ Preparable
      /\ pc' = (IF Side = "repo" THEN "tempexclude" ELSE "create")
      /\ UNCHANGED <<repo, store, backup, owner, excl, temp, tempExcl, linkTemp, rec,
                 job, turns, same, tracked, acts, unsaved, raced>>
  BY DEF Reserve, At, Goto, durable, user
<1> USE DEF Preparable, Source, AsFound
<1> QED
  BY <1>1, <1>2 DEF Calm, Working, Source, Planned, AsRecorded, SyncShape, Agreed,
     RelinkShape, Staged, Replaced, SyncSoFar, By, TempSteps, RelinkSoFar,
     CleanSteps, RefreshSoFar, Healthy, RepoKind, CopyContent

(* The exclude of the temp is not that of the item.                        *)
LEMMA ExcludeTempCalm ==
  ASSUME ControlInv, Undisturbed, ExcludeTemp
  PROVE  Undisturbed'
<1> USE DEF ControlInv, Undisturbed, ExcludeTemp, At, Goto, durable, user
<1> QED
  BY  DEF Calm, Working, Source, Planned, AsRecorded, SyncShape, Agreed, RelinkShape,
     Staged, Replaced, SyncSoFar, By, TempSteps, RelinkSoFar, CleanSteps,
     RefreshSoFar, Healthy, RepoKind, CopyContent

(* Nor does the item depend on what the journal knows of the temp's.       *)
LEMMA VerifyTempExcludeCalm ==
  ASSUME ControlInv, Undisturbed, VerifyTempExclude
  PROVE  Undisturbed'
<1> USE DEF ControlInv, Undisturbed
<1>1. /\ pc = "verify" /\ job # NoJob /\ art # NoArtifact /\ tempExcl
      /\ pc' = "create"
      /\ art' = [art EXCEPT !.verified = TRUE]
      /\ UNCHANGED <<repo, store, backup, owner, excl, temp, tempExcl, linkTemp, rec,
                 job, turns, same, tracked, acts, unsaved, raced>>
  BY DEF VerifyTempExclude, At, Goto, durable, user
<1>2. job.cmd # "recover" /\ art.side = "repo"
  BY <1>1, JobNow DEF TempInv, Working, PlaceInv, By, CleanSteps, RecordSteps
<1>3. /\ art' \in GoodArtifacts /\ art' # NoArtifact
      /\ art'.side = art.side /\ art'.created = art.created /\ art'.ours = art.ours
      /\ art'.verified
  BY <1>1, <1>2, ArtNow, ArtifactFields
<1> QED
  BY <1>1, <1>2, <1>3 DEF Calm, Working, Source, Planned, AsRecorded, SyncShape,
     Agreed, RelinkShape, Staged, Replaced, SyncSoFar, By, TempSteps, RelinkSoFar,
     CleanSteps, RefreshSoFar, Healthy, RepoKind, CopyContent

(* A temp shelfbox creates is its own.                                     *)
LEMMA CreateTempCalm ==
  ASSUME ControlInv, Undisturbed, CreateTemp
  PROVE  Undisturbed'
<1> USE DEF ControlInv, Undisturbed
<1>1. /\ pc = "create" /\ job # NoJob /\ temp = Missing
      /\ pc' = "identify"
      /\ temp' = [data |-> Empty, ours |-> TRUE]
      /\ UNCHANGED <<repo, store, backup, owner, excl, tempExcl, linkTemp, art, rec,
                 job, turns, same, tracked, acts, unsaved, raced>>
  BY DEF CreateTemp, At, Goto, durable, user
<1>2. /\ temp' # Missing => temp'.data = Empty
      /\ temp' \in [data : Contents \cup {Empty}, ours : BOOLEAN]
  BY <1>1
<1> QED
  BY <1>1, <1>2 DEF Calm, Working, Source, Planned, AsRecorded, SyncShape, Agreed,
     RelinkShape, Staged, Replaced, SyncSoFar, By, TempSteps, RelinkSoFar,
     CleanSteps, RefreshSoFar, Healthy, RepoKind, CopyContent

(* The journal identifies the temp it created, since nobody swapped it.    *)
LEMMA IdentifyTempCalm ==
  ASSUME ControlInv, Undisturbed, IdentifyTemp
  PROVE  Undisturbed'
<1> USE DEF ControlInv, Undisturbed
<1>1. /\ pc = "identify" /\ job # NoJob /\ art # NoArtifact /\ temp # Missing
      /\ pc' = "populate"
      /\ art' = [art EXCEPT !.created = TRUE, !.ours = temp.ours]
      /\ UNCHANGED <<repo, store, backup, owner, excl, temp, tempExcl, linkTemp, rec,
                 job, turns, same, tracked, acts, unsaved, raced>>
  BY DEF IdentifyTemp, Identified, At, Goto, durable, user
<1>2. /\ art' \in GoodArtifacts /\ art' # NoArtifact
      /\ art'.side = art.side /\ art'.created /\ art'.ours = temp.ours
      /\ art'.verified = art.verified
  BY <1>1, ArtNow, TempNow, ArtifactFields
<1> QED
  BY <1>1, <1>2 DEF Calm, Working, Source, Planned, AsRecorded, SyncShape, Agreed,
     RelinkShape, Staged, Replaced, SyncSoFar, By, TempSteps, RelinkSoFar,
     CleanSteps, RefreshSoFar, Healthy, RepoKind, CopyContent

(* The temp holds what its source held, and holds still.                   *)
LEMMA PopulateTempCalm ==
  ASSUME ControlInv, Undisturbed, PopulateTemp
  PROVE  Undisturbed'
<1> USE DEF ControlInv, Undisturbed
<1>1. /\ pc = "populate" /\ job # NoJob /\ temp # Missing /\ temp.ours
      /\ pc' = "check" /\ Source \in Contents
      /\ temp' = [temp EXCEPT !.data = Source]
      /\ UNCHANGED <<repo, store, backup, owner, excl, tempExcl, linkTemp, art, rec,
                 job, turns, same, tracked, acts, unsaved, raced>>
  BY DEF PopulateTemp, At, Goto, durable, user
<1>2. /\ temp'.data = Source /\ temp'.ours = temp.ours
      /\ temp' \in [data : Contents \cup {Empty}, ours : BOOLEAN]
  BY <1>1, TempNow
<1> USE DEF Source
<1> QED
  BY <1>1, <1>2 DEF Calm, Working, Source, Planned, AsRecorded, SyncShape, Agreed,
     RelinkShape, Staged, Replaced, SyncSoFar, By, TempSteps, RelinkSoFar,
     CleanSteps, RefreshSoFar, Healthy, RepoKind, CopyContent

(* A temp that goes takes nothing with it that the item needs.             *)
LEMMA CleanTempFileCalm ==
  ASSUME ControlInv, Undisturbed, CleanTempFile
  PROVE  Undisturbed'
<1> USE DEF ControlInv, Undisturbed
<1>1. /\ pc = "cleanfile" /\ job # NoJob /\ art # NoArtifact
      /\ \/ ArtifactConflict /\ Exit /\ temp' = temp
         \/ ~ArtifactConflict /\ GoesOn /\ pc' = "cleanexclude" /\ temp' = Missing
      /\ UNCHANGED <<repo, store, backup, owner, excl, tempExcl, linkTemp, art, rec,
                 tracked, acts, unsaved, raced>>
  BY DEF CleanTempFile, At, Goto, durable, user, GoesOn
<1>2. job' \in Jobs \cup {NoJob} /\ turns' \in Nat /\ same' \in BOOLEAN
  BY <1>1, GoesOnOrEnds
<1> USE DEF GoesOn, Exit
<1> QED
  BY <1>1, <1>2 DEF Calm, Working, Source, Planned, AsRecorded, SyncShape, Agreed,
     RelinkShape, Staged, Replaced, SyncSoFar, By, TempSteps, RelinkSoFar,
     CleanSteps, RefreshSoFar, Healthy, RepoKind, CopyContent

(* The temp's exclude goes, the item's stays.                              *)
LEMMA CleanTempExcludeCalm ==
  ASSUME ControlInv, Undisturbed, CleanTempExclude
  PROVE  Undisturbed'
<1> USE DEF ControlInv, Undisturbed, CleanTempExclude, At, Recovering, Goto, durable,
        user
<1> QED
  BY  DEF Calm, Working, Source, Planned, AsRecorded, SyncShape, Agreed, RelinkShape,
     Staged, Replaced, SyncSoFar, By, TempSteps, RelinkSoFar, CleanSteps,
     RefreshSoFar, Healthy, RepoKind, CopyContent

(* What the command made of the item outlives the journal's record.        *)
LEMMA CleanRecordCalm ==
  ASSUME ControlInv, Undisturbed, CleanRecord
  PROVE  Undisturbed'
<1> USE DEF ControlInv, Undisturbed
<1>1. /\ pc = "cleanrecord" /\ job # NoJob /\ art' = NoArtifact
      /\ UNCHANGED <<repo, store, backup, owner, excl, temp, tempExcl, linkTemp, rec,
                 tracked, acts, unsaved, raced>>
  BY DEF CleanRecord, At, durable, user
<1>2. job.cmd \in {"recover", "sync", "relink", "attach", "repair", "materialize"}
  BY <1>1, JobNow DEF PlaceInv, By
<1>3. \/ Exit /\ (job.cmd = "recover" => rec = NoRecord)
        /\ job.cmd \in {"recover", "repair", "materialize"}
      \/ GoesOn /\ job.cmd = "recover" /\ rec # NoRecord /\ pc' = "recover"
      \/ GoesOn /\ job.cmd = "sync" /\ pc' = "drop"
      \/ GoesOn /\ job.cmd = "relink" /\ job.into = "backup" /\ pc' = "inspect"
      \/ GoesOn /\ job.cmd = "relink" /\ job.into # "backup" /\ pc' = "persist"
      \/ GoesOn /\ job.cmd = "attach" /\ pc' = "attach"
  BY <1>1, <1>2 DEF CleanRecord, Recovering, AfterCleanup, Goto, GoesOn
<1>4. job' \in Jobs \cup {NoJob} /\ turns' \in Nat /\ same' \in BOOLEAN
  BY <1>3, GoesOnOrEnds
<1> USE DEF GoesOn, Exit
<1> QED
  BY <1>1, <1>2, <1>3, <1>4 DEF Calm, Working, Source, Planned, AsRecorded,
     SyncShape, Agreed, RelinkShape, Staged, Replaced, SyncSoFar, By, TempSteps,
     RelinkSoFar, CleanSteps, RefreshSoFar, Healthy, RepoKind, CopyContent

(* Both sides still are as recorded when sync inspects them.               *)
LEMMA SyncInspectCalm ==
  ASSUME ControlInv, Undisturbed, SyncInspect
  PROVE  Undisturbed'
<1> USE DEF ControlInv, Undisturbed, SyncInspect, For, Inspected, durable, journal,
        user, At
<1> QED
  BY  DEF Calm, Working, Source, Planned, AsRecorded, SyncShape, Agreed, RelinkShape,
     Staged, Replaced, SyncSoFar, By, TempSteps, RelinkSoFar, CleanSteps,
     RefreshSoFar, Healthy, RepoKind, CopyContent

(* ... when it checks them ...                                             *)
LEMMA SyncCheckCalm ==
  ASSUME ControlInv, Undisturbed, SyncCheck
  PROVE  Undisturbed'
<1> USE DEF ControlInv, Undisturbed, SyncCheck, For, WriteFacts, TransferWriteFacts,
        AsRecorded, CommitPermit, Goto, durable, journal, user, At, SyncStoreIntact,
        SyncState, Integrated, CopyContent
<1> QED
  BY  DEF Calm, Working, Source, Planned, AsRecorded, SyncShape, Agreed, RelinkShape,
     Staged, Replaced, SyncSoFar, By, TempSteps, RelinkSoFar, CleanSteps,
     RefreshSoFar, Healthy, RepoKind, CopyContent

(* ... and the commit makes them agree on the winner.                      *)
LEMMA SyncCommitCalm ==
  ASSUME ControlInv, Undisturbed, SyncCommit
  PROVE  Undisturbed'
<1> USE DEF ControlInv, Undisturbed
<1>1. /\ pc = "commit" /\ job # NoJob /\ job.cmd = "sync" /\ pc' = "persist"
      /\ temp # Missing /\ temp' = Missing /\ Committed
      /\ \/ job.into = "repo" /\ repo' = temp.data /\ store' = store
         \/ job.into = "store" /\ store' = temp.data /\ repo' = repo
      /\ UNCHANGED <<backup, owner, excl, tempExcl, linkTemp, art, rec, job, turns,
                 same, tracked, acts, unsaved>>
  BY DEF SyncCommit, For, At, Goto, CommitToRepo, CommitToStore, TempReady, user
<1>2. /\ AsRecorded /\ temp.data = Source /\ rec # NoRecord /\ rec.op = "sync" /\ excl
      /\ job.into = (IF rec.dir = "FromStore" THEN "repo" ELSE "store")
  BY <1>1 DEF SyncSoFar, By, TempSteps, Calm, Working, RecordInv, SyncRecord
<1>3. repo' = Winner(rec) /\ store' = Winner(rec)
  BY <1>1, <1>2 DEF AsRecorded, Winner, Source
<1>4. Committed /\ raced = "no" => raced' = "no"
  BY DEF Committed
<1>5. Calm'
  BY <1>1, <1>2, <1>3, <1>4 DEF Calm, Working, Source, Planned, AsRecorded
<1>6. SyncShape'
  BY <1>1, <1>2, <1>3, <1>4 DEF SyncShape, AsRecorded, Agreed, RecordInv, By,
     RelinkRecord, SyncRecord, TempSteps
<1>7. RelinkShape'
  BY <1>1, <1>2, <1>3, <1>4 DEF RelinkShape, Planned, AsRecorded, Staged, Replaced,
     Agreed, RecordInv, By, SyncRecord, Loser, Winner
<1>8. SyncSoFar'
  BY <1>1, <1>2, <1>3, <1>4 DEF SyncSoFar, By, AsRecorded, Agreed, TempSteps, Winner
<1>9. RelinkSoFar'
  BY <1>1, <1>2, <1>3, <1>4 DEF RelinkSoFar, By, Planned, AsRecorded, Staged, Agreed,
     TempSteps, CleanSteps, Winner, Loser
<1>10. RefreshSoFar'
  BY <1>1, <1>2, <1>3, <1>4 DEF RefreshSoFar, By, Healthy, RepoKind, CopyContent,
     CleanSteps
<1> QED BY <1>5, <1>6, <1>7, <1>8, <1>9, <1>10

(* The phase a sync saves is that of sides that agree.                     *)
LEMMA SyncPersistCalm ==
  ASSUME ControlInv, Undisturbed, SyncPersist
  PROVE  Undisturbed'
<1> USE DEF ControlInv, Undisturbed
<1>1. /\ rec # NoRecord /\ rec.phase # "PostCommitValidated"
      /\ pc = "persist" /\ job # NoJob
      /\ rec' \in GoodRecords /\ rec' # NoRecord
      /\ rec'.op = rec.op /\ rec'.phase = After(rec.op,
                 rec.phase) /\ rec'.dir = rec.dir
      /\ rec'.repoFp = rec.repoFp /\ rec'.storeFp = rec.storeFp
      /\ rec'.exclBefore = rec.exclBefore /\ rec'.backupKnown = rec.backupKnown
      /\ Winner(rec') = Winner(rec) /\ Loser(rec') = Loser(rec)
      /\ UNCHANGED <<repo, store, backup, owner, excl, temp, tempExcl, linkTemp, art,
                 job, turns, same, tracked, acts, unsaved, raced>>
  BY Persisted DEF SyncPersist
<1>2. /\ job.cmd = "sync"
      /\ pc' = (IF After(rec.op,
                 rec.phase) = "ContentSynchronized" THEN "post" ELSE "cleanfile")
  BY <1>1, AfterNow, Persisted DEF SyncPersist, For, At
<1> USE DEF After
<1>3. SyncShape'
  BY <1>1, <1>2, JobNow, RecNow, EntriesApart, TempNow DEF SyncShape, AsRecorded,
     Agreed, TempSteps, CleanSteps, RecordSteps, By, Working, PlaceInv, RecordInv,
     SyncRecord, RelinkRecord, RecoveryRecord, TempInv, BackupInv, RelinkInv,
     RelinkShape, SyncSoFar, RelinkSoFar, Planned, Staged, Replaced, Calm
<1>4. RelinkShape'
  BY <1>1, <1>2, JobNow, RecNow DEF RelinkShape, Planned, AsRecorded, Staged,
     Replaced, Agreed, TempSteps, CleanSteps, RecordSteps, By, Working, PlaceInv,
     RecordInv, SyncRecord, RelinkRecord, RecoveryRecord
<1>5. Calm' /\ SyncSoFar' /\ RelinkSoFar' /\ RefreshSoFar'
  BY <1>1, <1>2 DEF Calm, Working, Source, Planned, AsRecorded, SyncSoFar, By,
     Agreed, TempSteps, RelinkSoFar, Staged, CleanSteps, RefreshSoFar, Healthy,
     RepoKind, CopyContent
<1> QED BY <1>3, <1>4, <1>5

(* So they do when sync looks at the outcome.                              *)
LEMMA SyncPostCalm ==
  ASSUME ControlInv, Undisturbed, SyncPost
  PROVE  Undisturbed'
<1> USE DEF ControlInv, Undisturbed, SyncPost, For, Synchronized, Integrated, Goto,
        durable, journal, user, At
<1> QED
  BY  DEF Calm, Working, Source, Planned, AsRecorded, SyncShape, Agreed, RelinkShape,
     Staged, Replaced, SyncSoFar, By, TempSteps, RelinkSoFar, CleanSteps,
     RefreshSoFar, Healthy, RepoKind, CopyContent

(* A relink that writes its exclude has changed nothing else.              *)
LEMMA RelinkExcludeCalm ==
  ASSUME ControlInv, Undisturbed, RelinkExclude
  PROVE  Undisturbed'
<1> USE DEF ControlInv, Undisturbed, RelinkExclude, At, Goto, journal, user
<1> QED
  BY  DEF Calm, Working, Source, Planned, AsRecorded, SyncShape, Agreed, RelinkShape,
     Staged, Replaced, SyncSoFar, By, TempSteps, RelinkSoFar, CleanSteps,
     RefreshSoFar, Healthy, RepoKind, CopyContent

(* It saves that phase with the exclude in place.                          *)
LEMMA RelinkExcludedCalm ==
  ASSUME ControlInv, Undisturbed, RelinkExcluded
  PROVE  Undisturbed'
<1> USE DEF ControlInv, Undisturbed
<1>1. /\ pc = "excluded" /\ job # NoJob /\ job.cmd = "relink" /\ rec # NoRecord /\ excl
      /\ pc' = "stage"
      /\ rec' = [rec EXCEPT !.phase = "ExcludeWritten"]
      /\ UNCHANGED <<repo, store, backup, owner, excl, temp, tempExcl, linkTemp, art,
                 job, turns, same, tracked, acts, unsaved, raced>>
  BY DEF RelinkExcluded, For, At, Goto, durable, journal, user
<1>2. rec.op = "relink" /\ "ExcludeWritten" \in CopyPhases(rec.op)
  BY <1>1, PhasesOf DEF RecordInv, RelinkRecord, By
<1>3. /\ rec' \in GoodRecords /\ rec' # NoRecord
      /\ rec'.op = rec.op /\ rec'.phase = "ExcludeWritten" /\ rec'.dir = rec.dir
      /\ rec'.repoFp = rec.repoFp /\ rec'.storeFp = rec.storeFp
      /\ rec'.exclBefore = rec.exclBefore /\ rec'.backupKnown = rec.backupKnown
      /\ Winner(rec') = Winner(rec) /\ Loser(rec') = Loser(rec)
  BY <1>1, <1>2, Advanced
<1>4. RelinkShape'
  BY <1>1, <1>2, <1>3, JobNow, RecNow DEF RelinkShape, Planned, AsRecorded, Staged,
     Replaced, Agreed, TempSteps, CleanSteps, RecordSteps, By, Working, PlaceInv,
     RecordInv, SyncRecord, RelinkRecord, RecoveryRecord
<1>5. RelinkSoFar'
  BY <1>1, <1>2, <1>3, JobNow, RecNow, EntriesApart, TempNow DEF RelinkSoFar, By,
     Planned, AsRecorded, Staged, Agreed, TempSteps, CleanSteps, RecordSteps,
     Working, PlaceInv, RecordInv, SyncRecord, RelinkRecord, RecoveryRecord, TempInv,
     BackupInv, RelinkInv, SyncShape, RelinkShape, SyncSoFar, Replaced, Calm
<1>6. Calm' /\ SyncShape' /\ SyncSoFar' /\ RefreshSoFar'
  BY <1>1, <1>2, <1>3 DEF Calm, Working, Source, Planned, AsRecorded, SyncShape,
     Agreed, SyncSoFar, By, TempSteps, RefreshSoFar, Healthy, RepoKind, CopyContent,
     CleanSteps
<1> QED BY <1>4, <1>5, <1>6

(* Nothing is staged before the plan is checked.                           *)
LEMMA RelinkStageCalm ==
  ASSUME ControlInv, Undisturbed, RelinkStage
  PROVE  Undisturbed'
<1> USE DEF ControlInv, Undisturbed
<1>1. /\ pc = "stage" /\ job # NoJob /\ job.cmd = "relink" /\ rec # NoRecord
      /\ backup = Missing /\ same' = TRUE
      /\ \/ rec.dir = "FromStore" /\ repo \in Contents /\ pc' = "reserve"
         \/ rec.dir # "FromStore" /\ store \in Contents /\ pc' = "check"
      /\ UNCHANGED <<repo, store, backup, owner, excl, temp, tempExcl, linkTemp, art,
                 rec, job, turns, tracked, acts, unsaved, raced>>
  BY DEF RelinkStage, For, At, Inspected, durable, journal, user
<1>2. Calm'
  BY <1>1, JobNow, RecNow, EntriesApart, TempNow DEF Calm, Working, Source, Planned,
     AsRecorded, TempSteps, CleanSteps, RecordSteps, By, PlaceInv, RecordInv,
     SyncRecord, RelinkRecord, RecoveryRecord, TempInv, JournalInv, RelinkInv
<1>3. RelinkSoFar'
  BY <1>1, JobNow, RecNow DEF RelinkSoFar, By, Planned, AsRecorded, Staged, Agreed,
     TempSteps, CleanSteps, RecordSteps, Working, PlaceInv, RecordInv, SyncRecord,
     RelinkRecord, RecoveryRecord
<1>4. SyncShape' /\ RelinkShape' /\ SyncSoFar' /\ RefreshSoFar'
  BY <1>1 DEF SyncShape, AsRecorded, Agreed, RelinkShape, Planned, Staged, Replaced,
     SyncSoFar, By, TempSteps, RefreshSoFar, Healthy, RepoKind, CopyContent,
     CleanSteps
<1> QED BY <1>2, <1>3, <1>4

(* Nor by the check.                                                       *)
LEMMA RelinkCheckStageCalm ==
  ASSUME ControlInv, Undisturbed, RelinkCheckStage
  PROVE  Undisturbed'
<1> USE DEF ControlInv, Undisturbed, RelinkCheckStage, For, CommitPermit, Goto,
        durable, journal, user, At, Integrated
<1> QED
  BY  DEF Calm, Working, Source, Planned, AsRecorded, SyncShape, Agreed, RelinkShape,
     Staged, Replaced, SyncSoFar, By, TempSteps, RelinkSoFar, CleanSteps,
     RefreshSoFar, Healthy, RepoKind, CopyContent

(* The backup is the losing side; moved from the store, it leaves none     *)
(* there.                                                                  *)
LEMMA RelinkCommitStageCalm ==
  ASSUME ControlInv, Undisturbed, RelinkCommitStage
  PROVE  Undisturbed'
<1> USE DEF ControlInv, Undisturbed
<1>1. /\ pc = "commit" /\ job # NoJob /\ job.cmd = "relink" /\ rec # NoRecord
      /\ job.into = "backup" /\ backup = Missing /\ pc' = "backup"
      /\ \/ /\ rec.dir = "FromStore" /\ temp # Missing
            /\ backup' = temp.data /\ temp' = Missing /\ store' = store
         \/ /\ rec.dir # "FromStore"
            /\ backup' = store /\ store' = Missing /\ temp' = temp
      /\ Committed
      /\ UNCHANGED <<repo, owner, excl, tempExcl, linkTemp, art, rec, job, turns,
                 same, tracked, acts, unsaved>>
  BY DEF RelinkCommitStage, For, At, Goto, TempReady, user
<1>2. /\ Planned /\ (temp # Missing => temp.data = Source) /\ rec.op = "relink" /\ excl
      /\ rec.phase = "ExcludeWritten" /\ owner = "detached"
  BY <1>1, RecNow DEF RelinkSoFar, By, TempSteps, Calm, Working, RecordInv,
     RelinkRecord, RelinkShape
<1>3. /\ repo' = rec.repoFp /\ backup' = Loser(rec)
      /\ store' = (IF rec.dir = "FromStore" THEN rec.storeFp ELSE Missing)
  BY <1>1, <1>2 DEF Planned, AsRecorded, Loser, Source
<1>4. Committed /\ raced = "no" => raced' = "no"
  BY DEF Committed
<1>5. Calm'
  BY <1>1, <1>2, <1>3, <1>4 DEF Calm, Working, Source, Planned, AsRecorded
<1>6. SyncShape'
  BY <1>1, <1>2, <1>3, <1>4 DEF SyncShape, AsRecorded, Agreed, RecordInv, By,
     RelinkRecord, SyncRecord, TempSteps
<1>7. RelinkShape'
  BY <1>1, <1>2, <1>3, <1>4 DEF RelinkShape, Planned, AsRecorded, Staged, Replaced,
     Agreed, RecordInv, By, SyncRecord, Loser, Winner
<1>8. SyncSoFar'
  BY <1>1, <1>2, <1>3, <1>4 DEF SyncSoFar, By, AsRecorded, Agreed, TempSteps, Winner
<1>9. RelinkSoFar'
  BY <1>1, <1>2, <1>3, <1>4 DEF RelinkSoFar, By, Planned, AsRecorded, Staged, Agreed,
     TempSteps, CleanSteps, Winner, Loser
<1>10. RefreshSoFar'
  BY <1>1, <1>2, <1>3, <1>4 DEF RefreshSoFar, By, Healthy, RepoKind, CopyContent,
     CleanSteps
<1> QED BY <1>5, <1>6, <1>7, <1>8, <1>9, <1>10

(* The record learns of the backup that was staged.                        *)
LEMMA RelinkRecordBackupCalm ==
  ASSUME ControlInv, Undisturbed, RelinkRecordBackup
  PROVE  Undisturbed'
<1> USE DEF ControlInv, Undisturbed
<1>1. /\ pc = "backup" /\ job # NoJob /\ job.cmd = "relink" /\ rec # NoRecord
      /\ backup # Missing
      /\ pc' = (IF art = NoArtifact THEN "inspect" ELSE "cleanfile")
      /\ rec' = [rec EXCEPT !.backupKnown = TRUE]
      /\ UNCHANGED <<repo, store, backup, owner, excl, temp, tempExcl, linkTemp, art,
                 job, turns, same, tracked, acts, unsaved, raced>>
  BY DEF RelinkRecordBackup, For, At, Goto, durable, journal, user
<1>2. /\ rec' \in GoodRecords /\ rec' # NoRecord
      /\ rec'.op = rec.op /\ rec'.phase = rec.phase /\ rec'.dir = rec.dir
      /\ rec'.repoFp = rec.repoFp /\ rec'.storeFp = rec.storeFp
      /\ rec'.exclBefore = rec.exclBefore /\ rec'.backupKnown = TRUE
      /\ Winner(rec') = Winner(rec) /\ Loser(rec') = Loser(rec)
  BY <1>1, Remembered
<1>3. RelinkSoFar'
  BY <1>1, <1>2, JobNow, RecNow DEF RelinkSoFar, By, Planned, AsRecorded, Staged,
     Agreed, TempSteps, CleanSteps, RecordSteps, Working, PlaceInv, RecordInv,
     SyncRecord, RelinkRecord, RecoveryRecord
<1>4. Calm' /\ SyncShape' /\ RelinkShape' /\ SyncSoFar' /\ RefreshSoFar'
  BY <1>1, <1>2 DEF Calm, Working, Source, Planned, AsRecorded, SyncShape, Agreed,
     RelinkShape, Staged, Replaced, SyncSoFar, By, TempSteps, RefreshSoFar, Healthy,
     RepoKind, CopyContent, CleanSteps
<1> QED BY <1>3, <1>4

(* What relink inspects is what it staged.                                 *)
LEMMA RelinkInspectCalm ==
  ASSUME ControlInv, Undisturbed, RelinkInspect
  PROVE  Undisturbed'
<1> USE DEF ControlInv, Undisturbed
<1>1. /\ pc = "inspect" /\ job # NoJob /\ job.cmd = "relink" /\ rec # NoRecord
      /\ (IF rec.dir = "FromStore" THEN DivergedCopy ELSE repo \in Contents /\ store = Missing)
      /\ pc' = "reserve" /\ same' = TRUE
      /\ job' = [job EXCEPT !.into = IF rec.dir = "FromStore" THEN "repo" ELSE "store"]
      /\ UNCHANGED <<repo, store, backup, owner, excl, temp, tempExcl, linkTemp, art,
                 rec, turns, tracked, acts, unsaved, raced>>
  BY DEF RelinkInspect, For, At, durable, journal, user
<1>2. /\ job' \in Jobs /\ job' # NoJob
      /\ job'.cmd = job.cmd /\ job'.strategy = job.strategy /\ job'.found = job.found
      /\ job'.into = (IF rec.dir = "FromStore" THEN "repo" ELSE "store")
  BY <1>1, JobNow, JobFields DEF Jobs
<1> QED
  BY <1>1, <1>2 DEF Calm, Working, Source, Planned, AsRecorded, SyncShape, Agreed,
     RelinkShape, Staged, Replaced, SyncSoFar, By, TempSteps, RelinkSoFar,
     CleanSteps, RefreshSoFar, Healthy, RepoKind, CopyContent

(* So is what it checks ...                                                *)
LEMMA RelinkCheckCalm ==
  ASSUME ControlInv, Undisturbed, RelinkCheck
  PROVE  Undisturbed'
<1> USE DEF ControlInv, Undisturbed, RelinkCheck, For, DivergedCopy, CommitPermit,
        Goto, durable, journal, user, At, CopyContent, Integrated
<1> QED
  BY  DEF Calm, Working, Source, Planned, AsRecorded, SyncShape, Agreed, RelinkShape,
     Staged, Replaced, SyncSoFar, By, TempSteps, RelinkSoFar, CleanSteps,
     RefreshSoFar, Healthy, RepoKind, CopyContent

(* ... and what it replaces: both sides are the winner, the backup the     *)
(* loser.                                                                  *)
LEMMA RelinkCommitCalm ==
  ASSUME ControlInv, Undisturbed, RelinkCommit
  PROVE  Undisturbed'
<1> USE DEF ControlInv, Undisturbed
<1>1. /\ pc = "commit" /\ job # NoJob /\ job.cmd = "relink" /\ pc' = "cleanfile"
      /\ temp # Missing /\ temp' = Missing /\ Committed
      /\ \/ job.into = "repo" /\ repo' = temp.data /\ store' = store
         \/ job.into = "store" /\ store' = temp.data /\ repo' = repo
      /\ UNCHANGED <<backup, owner, excl, tempExcl, linkTemp, art, rec, job, turns,
                 same, tracked, acts, unsaved>>
  BY DEF RelinkCommit, For, At, Goto, CommitToRepo, CommitToStore, TempReady, user
<1>2. /\ Staged /\ temp.data = Source /\ rec # NoRecord /\ rec.op = "relink" /\ excl
      /\ rec.phase = "ExcludeWritten" /\ owner = "detached" /\ rec.backupKnown
      /\ job.into = (IF rec.dir = "FromStore" THEN "repo" ELSE "store")
  BY <1>1, RecNow DEF RelinkSoFar, By, TempSteps, Calm, Working, RecordInv,
     RelinkRecord, RelinkInv, RelinkShape
<1>3. repo' = Winner(rec) /\ store' = Winner(rec) /\ backup = Loser(rec)
  BY <1>1, <1>2 DEF Staged, Winner, Loser, Source
<1>4. Committed /\ raced = "no" => raced' = "no"
  BY DEF Committed
<1>5. Calm'
  BY <1>1, <1>2, <1>3, <1>4 DEF Calm, Working, Source, Planned, AsRecorded
<1>6. SyncShape'
  BY <1>1, <1>2, <1>3, <1>4 DEF SyncShape, AsRecorded, Agreed, RecordInv, By,
     RelinkRecord, SyncRecord, TempSteps
<1>7. RelinkShape'
  BY <1>1, <1>2, <1>3, <1>4 DEF RelinkShape, Planned, AsRecorded, Staged, Replaced,
     Agreed, RecordInv, By, SyncRecord, Loser, Winner
<1>8. SyncSoFar'
  BY <1>1, <1>2, <1>3, <1>4 DEF SyncSoFar, By, AsRecorded, Agreed, TempSteps, Winner
<1>9. RelinkSoFar'
  BY <1>1, <1>2, <1>3, <1>4 DEF RelinkSoFar, By, Planned, AsRecorded, Staged, Agreed,
     TempSteps, CleanSteps, Winner, Loser
<1>10. RefreshSoFar'
  BY <1>1, <1>2, <1>3, <1>4 DEF RefreshSoFar, By, Healthy, RepoKind, CopyContent,
     CleanSteps
<1> QED BY <1>5, <1>6, <1>7, <1>8, <1>9, <1>10

(* The phase a relink saves is that of sides that agree.                   *)
LEMMA RelinkPersistCalm ==
  ASSUME ControlInv, Undisturbed, RelinkPersist
  PROVE  Undisturbed'
<1> USE DEF ControlInv, Undisturbed
<1>1. /\ rec # NoRecord /\ rec.phase # "PostCommitValidated"
      /\ pc = "persist" /\ job # NoJob
      /\ rec' \in GoodRecords /\ rec' # NoRecord
      /\ rec'.op = rec.op /\ rec'.phase = After(rec.op,
                 rec.phase) /\ rec'.dir = rec.dir
      /\ rec'.repoFp = rec.repoFp /\ rec'.storeFp = rec.storeFp
      /\ rec'.exclBefore = rec.exclBefore /\ rec'.backupKnown = rec.backupKnown
      /\ Winner(rec') = Winner(rec) /\ Loser(rec') = Loser(rec)
      /\ UNCHANGED <<repo, store, backup, owner, excl, temp, tempExcl, linkTemp, art,
                 job, turns, same, tracked, acts, unsaved, raced>>
  BY Persisted DEF RelinkPersist
<1>2. /\ job.cmd = "relink"
      /\ pc' = (CASE After(rec.op, rec.phase) = "ContentSynchronized" -> "post"
                  [] After(rec.op, rec.phase) = "OwnershipAttached" -> "cleanbackup"
                  [] OTHER -> "drop")
  BY <1>1, AfterNow, Persisted DEF RelinkPersist, For, At
<1> USE DEF After
<1>3. SyncShape'
  BY <1>1, <1>2, JobNow, RecNow DEF SyncShape, AsRecorded, Agreed, TempSteps,
     CleanSteps, RecordSteps, By, Working, PlaceInv, RecordInv, SyncRecord,
     RelinkRecord, RecoveryRecord
<1>4. RelinkShape'
  BY <1>1, <1>2, JobNow, RecNow, EntriesApart, TempNow DEF RelinkShape, Planned,
     AsRecorded, Staged, Replaced, Agreed, TempSteps, CleanSteps, RecordSteps, By,
     Working, PlaceInv, RecordInv, SyncRecord, RelinkRecord, RecoveryRecord, TempInv,
     BackupInv, RelinkInv, SyncShape, SyncSoFar, RelinkSoFar, Calm
<1>5. Calm' /\ SyncSoFar' /\ RelinkSoFar' /\ RefreshSoFar'
  BY <1>1, <1>2 DEF Calm, Working, Source, Planned, AsRecorded, SyncSoFar, By,
     Agreed, TempSteps, RelinkSoFar, Staged, CleanSteps, RefreshSoFar, Healthy,
     RepoKind, CopyContent
<1> QED BY <1>3, <1>4, <1>5

(* So they do when relink looks at the outcome.                            *)
LEMMA RelinkPostCalm ==
  ASSUME ControlInv, Undisturbed, RelinkPost
  PROVE  Undisturbed'
<1> USE DEF ControlInv, Undisturbed, RelinkPost, For, Goto, durable, journal, user, At
<1> QED
  BY  DEF Calm, Working, Source, Planned, AsRecorded, SyncShape, Agreed, RelinkShape,
     Staged, Replaced, SyncSoFar, By, TempSteps, RelinkSoFar, CleanSteps,
     RefreshSoFar, Healthy, RepoKind, CopyContent

(* Attaching touches neither side.                                         *)
LEMMA AttachCalm ==
  ASSUME ControlInv, Undisturbed, Attach
  PROVE  Undisturbed'
<1> USE DEF ControlInv, Undisturbed
<1>1. /\ pc = "attach" /\ job # NoJob /\ owner' = "attached"
      /\ \/ job.cmd = "attach" /\ Exit
         \/ job.cmd # "attach" /\ GoesOn /\ pc' = "persist"
      /\ UNCHANGED <<repo, store, backup, excl, temp, tempExcl, linkTemp, art, rec,
                 tracked, acts, unsaved, raced>>
  BY DEF Attach, At, Goto, journal, user, GoesOn
<1>2. job' \in Jobs \cup {NoJob} /\ turns' \in Nat /\ same' \in BOOLEAN
  BY <1>1, GoesOnOrEnds
<1>3. job.cmd \in {"relink", "attach", "recover"}
  BY <1>1, JobNow DEF PlaceInv, By, TempSteps, CleanSteps
<1> USE DEF GoesOn, Exit
<1>4. RelinkShape'
  BY <1>1, <1>2, <1>3, JobNow, RecNow DEF RelinkShape, Planned, AsRecorded, Staged,
     Replaced, Agreed, TempSteps, CleanSteps, RecordSteps, By, Working, PlaceInv,
     RecordInv, SyncRecord, RelinkRecord, RecoveryRecord
<1>5. RelinkSoFar'
  BY <1>1, <1>2, <1>3, JobNow, RecNow, EntriesApart, TempNow DEF RelinkSoFar, By,
     Planned, AsRecorded, Staged, Agreed, TempSteps, CleanSteps, RecordSteps,
     Working, PlaceInv, RecordInv, SyncRecord, RelinkRecord, RecoveryRecord, TempInv,
     BackupInv, RelinkInv, SyncShape, RelinkShape, SyncSoFar, Replaced, Calm
<1>6. Calm' /\ SyncShape' /\ SyncSoFar' /\ RefreshSoFar'
  BY <1>1, <1>2, <1>3 DEF Calm, Working, Source, Planned, AsRecorded, SyncShape,
     Agreed, SyncSoFar, By, TempSteps, RefreshSoFar, Healthy, RepoKind, CopyContent,
     CleanSteps
<1> QED BY <1>4, <1>5, <1>6

(* The backup is no part of the agreement.                                 *)
LEMMA CleanBackupCalm ==
  ASSUME ControlInv, Undisturbed, CleanBackup
  PROVE  Undisturbed'
<1> USE DEF ControlInv, Undisturbed
<1>1. /\ pc = "cleanbackup" /\ job # NoJob /\ rec # NoRecord
      /\ \/ (backup = Missing \/ rec.backupKnown) /\ backup' = Missing /\ GoesOn /\ pc' = "persist"
         \/ backup # Missing /\ ~rec.backupKnown /\ backup' = backup /\ Exit
      /\ UNCHANGED <<repo, store, owner, excl, temp, tempExcl, linkTemp, art, rec,
                 tracked, acts, unsaved, raced>>
  BY DEF CleanBackup, At, Goto, journal, user, GoesOn
<1>2. job' \in Jobs \cup {NoJob} /\ turns' \in Nat /\ same' \in BOOLEAN
  BY <1>1, GoesOnOrEnds
<1>3. job.cmd \in {"relink", "recover"}
  BY <1>1, JobNow DEF PlaceInv, By, TempSteps, CleanSteps
<1> USE DEF GoesOn, Exit
<1>4. RelinkShape'
  BY <1>1, <1>2, <1>3, JobNow, RecNow DEF RelinkShape, Planned, AsRecorded, Staged,
     Replaced, Agreed, TempSteps, CleanSteps, RecordSteps, By, Working, PlaceInv,
     RecordInv, SyncRecord, RelinkRecord, RecoveryRecord
<1>5. RelinkSoFar'
  BY <1>1, <1>2, <1>3, JobNow, RecNow, EntriesApart, TempNow DEF RelinkSoFar, By,
     Planned, AsRecorded, Staged, Agreed, TempSteps, CleanSteps, RecordSteps,
     Working, PlaceInv, RecordInv, SyncRecord, RelinkRecord, RecoveryRecord, TempInv,
     BackupInv, RelinkInv, SyncShape, RelinkShape, SyncSoFar, Replaced, Calm
<1>6. Calm' /\ SyncShape' /\ SyncSoFar' /\ RefreshSoFar'
  BY <1>1, <1>2, <1>3 DEF Calm, Working, Source, Planned, AsRecorded, SyncShape,
     Agreed, SyncSoFar, By, TempSteps, RefreshSoFar, Healthy, RepoKind, CopyContent,
     CleanSteps
<1> QED BY <1>4, <1>5, <1>6

(* A sound item may be attached at once.                                   *)
LEMMA AttachExcludedCalm ==
  ASSUME ControlInv, Undisturbed, AttachExcluded
  PROVE  Undisturbed'
<1> USE DEF ControlInv, Undisturbed, AttachExcluded, For, Goto, durable, journal,
        user, At
<1>1. Calm'
  BY JobNow, RecNow, EntriesApart, TempNow DEF Calm, Working, Source, Planned,
     AsRecorded, TempSteps, CleanSteps, RecordSteps, By, PlaceInv, RecordInv,
     SyncRecord, RelinkRecord, RecoveryRecord, TempInv, JournalInv, RelinkInv
<1>2. SyncShape' /\ RelinkShape' /\ SyncSoFar' /\ RelinkSoFar' /\ RefreshSoFar'
  BY  DEF SyncShape, AsRecorded, Agreed, RelinkShape, Planned, Staged, Replaced,
     SyncSoFar, By, TempSteps, RelinkSoFar, CleanSteps, RefreshSoFar, Healthy,
     RepoKind, CopyContent
<1> QED BY <1>1, <1>2

(* The check of a copy or a symlink changes nothing.                       *)
LEMMA AttachCheckCalm ==
  ASSUME ControlInv, Undisturbed, AttachCheck
  PROVE  Undisturbed'
<1> USE DEF ControlInv, Undisturbed, AttachCheck, For, CommitPermit, Goto, durable,
        journal, user, At, Integrated
<1> QED
  BY  DEF Calm, Working, Source, Planned, AsRecorded, SyncShape, Agreed, RelinkShape,
     Staged, Replaced, SyncSoFar, By, TempSteps, RelinkSoFar, CleanSteps,
     RefreshSoFar, Healthy, RepoKind, CopyContent

(* Without a record there is no shape to keep.                             *)
LEMMA AttachCommitCalm ==
  ASSUME ControlInv, Undisturbed, AttachCommit
  PROVE  Undisturbed'
<1> USE DEF ControlInv, Undisturbed, AttachCommit, For, CommitToRepo, CreateLink,
        Goto, Committed, user, At, AsFound, TempReady
<1>1. SyncShape'
  BY JobNow, RecNow DEF SyncShape, AsRecorded, Agreed, TempSteps, CleanSteps,
     RecordSteps, By, Working, PlaceInv, RecordInv, SyncRecord, RelinkRecord,
     RecoveryRecord
<1>2. RelinkShape'
  BY JobNow, RecNow DEF RelinkShape, Planned, AsRecorded, Staged, Replaced, Agreed,
     TempSteps, CleanSteps, RecordSteps, By, Working, PlaceInv, RecordInv,
     SyncRecord, RelinkRecord, RecoveryRecord
<1>3. Calm' /\ SyncSoFar' /\ RelinkSoFar' /\ RefreshSoFar'
  BY  DEF Calm, Working, Source, Planned, AsRecorded, SyncSoFar, By, Agreed,
     TempSteps, RelinkSoFar, Staged, CleanSteps, RefreshSoFar, Healthy, RepoKind,
     CopyContent
<1> QED BY <1>1, <1>2, <1>3

(* Only a sound item gets past the postconditions.                         *)
LEMMA AttachPostCalm ==
  ASSUME ControlInv, Undisturbed, AttachPost
  PROVE  Undisturbed'
<1> USE DEF ControlInv, Undisturbed, AttachPost, For, Healthy, Goto, durable,
        journal, user, At, CopyContent
<1> QED
  BY  DEF Calm, Working, Source, Planned, AsRecorded, SyncShape, Agreed, RelinkShape,
     Staged, Replaced, SyncSoFar, By, TempSteps, RelinkSoFar, CleanSteps,
     RefreshSoFar, Healthy, RepoKind, CopyContent

(* A rollback takes back only an exclude the relink wrote.                 *)
LEMMA RelinkUnexcludeCalm ==
  ASSUME ControlInv, Undisturbed, RelinkUnexclude
  PROVE  Undisturbed'
<1> USE DEF ControlInv, Undisturbed, RelinkUnexclude, At, Goto, journal, user
<1>1. Calm'
  BY JobNow, RecNow DEF Calm, Working, Source, Planned, AsRecorded, TempSteps,
     CleanSteps, RecordSteps, By, PlaceInv, RecordInv, SyncRecord, RelinkRecord,
     RecoveryRecord
<1>2. SyncShape'
  BY JobNow, RecNow DEF SyncShape, AsRecorded, Agreed, TempSteps, CleanSteps,
     RecordSteps, By, Working, PlaceInv, RecordInv, SyncRecord, RelinkRecord,
     RecoveryRecord
<1>3. RelinkShape'
  BY JobNow, RecNow, EntriesApart, TempNow DEF RelinkShape, Planned, AsRecorded,
     Staged, Replaced, Agreed, TempSteps, CleanSteps, RecordSteps, By, Working,
     PlaceInv, RecordInv, SyncRecord, RelinkRecord, RecoveryRecord, TempInv,
     BackupInv, RelinkInv, SyncShape, SyncSoFar, RelinkSoFar, Calm
<1>4. SyncSoFar' /\ RelinkSoFar' /\ RefreshSoFar'
  BY  DEF SyncSoFar, By, AsRecorded, Agreed, TempSteps, RelinkSoFar, Planned, Staged,
     CleanSteps, RefreshSoFar, Healthy, RepoKind, CopyContent
<1> QED BY <1>1, <1>2, <1>3, <1>4

(* repair puts the exclude back.                                           *)
LEMMA RepairExcludeCalm ==
  ASSUME ControlInv, Undisturbed, RepairExclude
  PROVE  Undisturbed'
<1> USE DEF ControlInv, Undisturbed
<1>1. DesiredExclude = TRUE
  BY DEF Typed, DesiredExclude
<1>2. /\ pc = "exclude" /\ job # NoJob /\ excl' = TRUE
      /\ \/ job.cmd = "integrate" /\ Exit
         \/ job.cmd = "repair" /\ GoesOn /\ pc' = "excluded"
      /\ UNCHANGED <<repo, store, backup, owner, temp, tempExcl, linkTemp, art, rec,
                 tracked, acts, unsaved, raced>>
  BY <1>1 DEF RepairExclude, At, Goto, journal, user, GoesOn
<1>3. job' \in Jobs \cup {NoJob} /\ turns' \in Nat /\ same' \in BOOLEAN
  BY <1>2, GoesOnOrEnds
<1>4. excl' \in BOOLEAN
  BY <1>2
<1> USE DEF GoesOn, Exit
<1> QED
  BY <1>1, <1>2, <1>3, <1>4 DEF Calm, Working, Source, Planned, AsRecorded,
     SyncShape, Agreed, RelinkShape, Staged, Replaced, SyncSoFar, By, TempSteps,
     RelinkSoFar, CleanSteps, RefreshSoFar, Healthy, RepoKind, CopyContent

(* repair goes on only with the exclude in place.                          *)
LEMMA RepairInspectCalm ==
  ASSUME ControlInv, Undisturbed, RepairInspect
  PROVE  Undisturbed'
<1> USE DEF ControlInv, Undisturbed
<1>1. /\ pc = "excluded" /\ job # NoJob /\ job.cmd = "repair"
      /\ Integrated /\ store # Missing /\ repo \in {Missing, Foreign}
      /\ pc' = FirstStep(job.strategy) /\ same' = TRUE
      /\ job' = [job EXCEPT !.found = IF repo = Missing THEN "Missing" ELSE "Present"]
      /\ UNCHANGED <<repo, store, backup, owner, excl, temp, tempExcl, linkTemp, art,
                 rec, turns, tracked, acts, unsaved, raced>>
  BY DEF RepairInspect, For, At, durable, journal, user
<1>2. FirstStep(job.strategy) = (IF job.strategy = "copy" THEN "reserve" ELSE "check")
  BY DEF FirstStep
<1>3. /\ job' \in Jobs /\ job' # NoJob
      /\ job'.cmd = job.cmd /\ job'.strategy = job.strategy /\ job'.into = job.into
  BY <1>1, JobNow, JobFields DEF Jobs
<1>4. Calm'
  BY <1>1, <1>2, <1>3, JobNow, RecNow, EntriesApart, TempNow DEF Calm, Working,
     Source, Planned, AsRecorded, TempSteps, CleanSteps, RecordSteps, By, PlaceInv,
     RecordInv, SyncRecord, RelinkRecord, RecoveryRecord, TempInv, JournalInv,
     RelinkInv
<1>5. SyncShape' /\ RelinkShape' /\ SyncSoFar' /\ RelinkSoFar' /\ RefreshSoFar'
  BY <1>1, <1>2, <1>3 DEF SyncShape, AsRecorded, Agreed, RelinkShape, Planned,
     Staged, Replaced, SyncSoFar, By, TempSteps, RelinkSoFar, CleanSteps,
     RefreshSoFar, Healthy, RepoKind, CopyContent
<1> QED BY <1>4, <1>5

(* The check of a repair changes nothing.                                  *)
LEMMA RepairCheckCalm ==
  ASSUME ControlInv, Undisturbed, RepairCheck
  PROVE  Undisturbed'
<1> USE DEF ControlInv, Undisturbed, RepairCheck, For, CommitPermit, Goto, durable,
        journal, user, At, Integrated
<1> QED
  BY  DEF Calm, Working, Source, Planned, AsRecorded, SyncShape, Agreed, RelinkShape,
     Staged, Replaced, SyncSoFar, By, TempSteps, RelinkSoFar, CleanSteps,
     RefreshSoFar, Healthy, RepoKind, CopyContent

(* Nor does that of materialize.                                           *)
LEMMA MaterializeCheckCalm ==
  ASSUME ControlInv, Undisturbed, MaterializeCheck
  PROVE  Undisturbed'
<1> USE DEF ControlInv, Undisturbed
<1>1. /\ pc = "check" /\ job # NoJob /\ job.cmd = "materialize" /\ CommitPermit
      /\ Replaceable(job.strategy) /\ pc' = "commit"
      /\ UNCHANGED <<repo, store, backup, owner, excl, temp, tempExcl, linkTemp, art,
                 rec, job, turns, same, tracked, acts, unsaved, raced>>
  BY DEF MaterializeCheck, For, At, Goto, durable, journal, user
<1>2. Integrated /\ (IF job.strategy = "copy" THEN repo = Link ELSE repo = store)
  BY <1>1, Kinds DEF Typed, CommitPermit, Replaceable, MaterializeState, CopyContent
<1> USE DEF Integrated
<1> QED
  BY <1>1, <1>2 DEF Calm, Working, Source, Planned, AsRecorded, SyncShape, Agreed,
     RelinkShape, Staged, Replaced, SyncSoFar, By, TempSteps, RelinkSoFar,
     CleanSteps, RefreshSoFar, Healthy, RepoKind, CopyContent

(* Without a record there is no shape to keep, and a copy is put in place. *)
LEMMA RefreshCopyCalm ==
  ASSUME ControlInv, Undisturbed, RefreshCopy
  PROVE  Undisturbed'
<1> USE DEF ControlInv, Undisturbed, RefreshCopy, Refreshing, CommitToRepo, Goto,
        Committed, user, AsFound, TempReady
<1>1. SyncShape'
  BY JobNow, RecNow DEF SyncShape, AsRecorded, Agreed, TempSteps, CleanSteps,
     RecordSteps, By, Working, PlaceInv, RecordInv, SyncRecord, RelinkRecord,
     RecoveryRecord
<1>2. RelinkShape'
  BY JobNow, RecNow DEF RelinkShape, Planned, AsRecorded, Staged, Replaced, Agreed,
     TempSteps, CleanSteps, RecordSteps, By, Working, PlaceInv, RecordInv,
     SyncRecord, RelinkRecord, RecoveryRecord
<1>3. Calm' /\ SyncSoFar' /\ RelinkSoFar' /\ RefreshSoFar'
  BY  DEF Calm, Working, Source, Planned, AsRecorded, SyncSoFar, By, Agreed,
     TempSteps, RelinkSoFar, Staged, CleanSteps, RefreshSoFar, Healthy, RepoKind,
     CopyContent
<1> QED BY <1>1, <1>2, <1>3

(* The same with a symlink where nothing was.                              *)
LEMMA RefreshCreateCalm ==
  ASSUME ControlInv, Undisturbed, RefreshCreate
  PROVE  Undisturbed'
<1> USE DEF ControlInv, Undisturbed, RefreshCreate, Refreshing, CreateLink, Goto,
        Committed, user
<1>1. SyncShape'
  BY JobNow, RecNow DEF SyncShape, AsRecorded, Agreed, TempSteps, CleanSteps,
     RecordSteps, By, Working, PlaceInv, RecordInv, SyncRecord, RelinkRecord,
     RecoveryRecord
<1>2. RelinkShape'
  BY JobNow, RecNow DEF RelinkShape, Planned, AsRecorded, Staged, Replaced, Agreed,
     TempSteps, CleanSteps, RecordSteps, By, Working, PlaceInv, RecordInv,
     SyncRecord, RelinkRecord, RecoveryRecord
<1>3. Calm' /\ SyncSoFar' /\ RelinkSoFar' /\ RefreshSoFar'
  BY  DEF Calm, Working, Source, Planned, AsRecorded, SyncSoFar, By, Agreed,
     TempSteps, RelinkSoFar, Staged, CleanSteps, RefreshSoFar, Healthy, RepoKind,
     CopyContent
<1> QED BY <1>1, <1>2, <1>3

(* The same while the symlink still lies beside the item ...               *)
LEMMA RefreshBesideCalm ==
  ASSUME ControlInv, Undisturbed, RefreshBeside
  PROVE  Undisturbed'
<1> USE DEF ControlInv, Undisturbed
<1>1. /\ pc = "commit" /\ job # NoJob /\ job.cmd \in {"repair", "materialize"}
      /\ job.strategy = "symlink" /\ pc' = "linktemp"
      /\ UNCHANGED <<repo, store, backup, owner, excl, temp, tempExcl, art, rec, job,
                 turns, same, tracked, acts, unsaved, raced>>
  BY DEF RefreshBeside, Refreshing, Goto, durable, user
<1>2. linkTemp' \in BOOLEAN
  BY DEF RefreshBeside
<1> USE DEF Integrated
<1> QED
  BY <1>1, <1>2 DEF Calm, Working, Source, Planned, AsRecorded, SyncShape, Agreed,
     RelinkShape, Staged, Replaced, SyncSoFar, By, TempSteps, RelinkSoFar,
     CleanSteps, RefreshSoFar, Healthy, RepoKind, CopyContent

(* ... and once it is renamed over it.                                     *)
LEMMA RefreshRenameCalm ==
  ASSUME ControlInv, Undisturbed, RefreshRename
  PROVE  Undisturbed'
<1> USE DEF ControlInv, Undisturbed
<1>1. /\ pc = "linktemp" /\ job # NoJob /\ job.cmd \in {"repair", "materialize"}
      /\ repo' = Link /\ pc' = "post" /\ Committed
      /\ UNCHANGED <<store, backup, owner, excl, temp, tempExcl, art, rec, job,
                 turns, same, tracked, acts, unsaved>>
  BY DEF RefreshRename, Refreshing, Goto, user
<1>2. linkTemp' \in BOOLEAN
  BY DEF RefreshRename
<1> USE DEF Committed
<1>3. SyncShape'
  BY <1>1, <1>2, JobNow, RecNow DEF SyncShape, AsRecorded, Agreed, TempSteps,
     CleanSteps, RecordSteps, By, Working, PlaceInv, RecordInv, SyncRecord,
     RelinkRecord, RecoveryRecord
<1>4. RelinkShape'
  BY <1>1, <1>2, JobNow, RecNow DEF RelinkShape, Planned, AsRecorded, Staged,
     Replaced, Agreed, TempSteps, CleanSteps, RecordSteps, By, Working, PlaceInv,
     RecordInv, SyncRecord, RelinkRecord, RecoveryRecord
<1>5. Calm' /\ SyncSoFar' /\ RelinkSoFar' /\ RefreshSoFar'
  BY <1>1, <1>2 DEF Calm, Working, Source, Planned, AsRecorded, SyncSoFar, By,
     Agreed, TempSteps, RelinkSoFar, Staged, CleanSteps, RefreshSoFar, Healthy,
     RepoKind, CopyContent
<1> QED BY <1>3, <1>4, <1>5

(* Only a sound item gets past the postconditions.                         *)
LEMMA RefreshPostCalm ==
  ASSUME ControlInv, Undisturbed, RefreshPost
  PROVE  Undisturbed'
<1> USE DEF ControlInv, Undisturbed
<1>1. /\ pc = "post" /\ job # NoJob /\ job.cmd \in {"repair", "materialize"}
      /\ Materialized(job.strategy) /\ Integrated
      /\ \/ art = NoArtifact /\ Exit
         \/ art # NoArtifact /\ GoesOn /\ pc' = "cleanfile"
      /\ UNCHANGED <<repo, store, backup, owner, excl, temp, tempExcl, linkTemp, art,
                 rec, tracked, acts, unsaved, raced>>
  BY DEF RefreshPost, Refreshing, Goto, durable, journal, user, GoesOn
<1>2. job' \in Jobs \cup {NoJob} /\ turns' \in Nat /\ same' \in BOOLEAN
  BY <1>1, GoesOnOrEnds
<1>3. store # Missing
  BY <1>1, JobNow DEF BackupInv, RecordInv, Working
<1>4. Healthy /\ Healthy' = Healthy
  BY <1>1, <1>3 DEF Healthy, Materialized, RepoKind, CopyContent
<1> USE DEF GoesOn, Exit
<1>5. RefreshSoFar'
  BY <1>1, <1>2, <1>3, <1>4 DEF RefreshSoFar, By
<1>6. Calm' /\ SyncShape' /\ RelinkShape' /\ SyncSoFar' /\ RelinkSoFar'
  BY <1>1, <1>2, <1>3, <1>4 DEF Calm, Working, Source, Planned, AsRecorded,
     SyncShape, Agreed, RelinkShape, Staged, Replaced, SyncSoFar, By, TempSteps,
     RelinkSoFar, CleanSteps
<1> QED BY <1>5, <1>6

(* Which record recovery takes first does not matter.                      *)
LEMMA RecoverOneCalm ==
  ASSUME ControlInv, Undisturbed, RecoverOne
  PROVE  Undisturbed'
<1> USE DEF ControlInv, Undisturbed
<1>1. /\ pc = "recover" /\ job # NoJob
      /\ \/ rec # NoRecord /\ pc' = (IF rec.phase = "PostCommitValidated" THEN "drop" ELSE "decide")
         \/ art # NoArtifact /\ pc' = "cleanfile"
      /\ UNCHANGED <<repo, store, backup, owner, excl, temp, tempExcl, linkTemp, art,
                 rec, job, turns, same, tracked, acts, unsaved, raced>>
  BY DEF RecoverOne, At, Goto, durable, journal, user
<1>2. job.cmd = "recover"
  BY <1>1, JobNow DEF PlaceInv, By, TempSteps, CleanSteps
<1> QED
  BY <1>1, <1>2 DEF Calm, Working, Source, Planned, AsRecorded, SyncShape, Agreed,
     RelinkShape, Staged, Replaced, SyncSoFar, By, TempSteps, RelinkSoFar,
     CleanSteps, RefreshSoFar, Healthy, RepoKind, CopyContent

(* Recovery saves the phase that follows, of sides that agree.             *)
LEMMA RecoveryPersistCalm ==
  ASSUME ControlInv, Undisturbed, RecoveryPersist
  PROVE  Undisturbed'
<1> USE DEF ControlInv, Undisturbed
<1>1. /\ rec # NoRecord /\ rec.phase # "PostCommitValidated"
      /\ pc = "persist" /\ job # NoJob
      /\ rec' \in GoodRecords /\ rec' # NoRecord
      /\ rec'.op = rec.op /\ rec'.phase = After(rec.op,
                 rec.phase) /\ rec'.dir = rec.dir
      /\ rec'.repoFp = rec.repoFp /\ rec'.storeFp = rec.storeFp
      /\ rec'.exclBefore = rec.exclBefore /\ rec'.backupKnown = rec.backupKnown
      /\ Winner(rec') = Winner(rec) /\ Loser(rec') = Loser(rec)
      /\ UNCHANGED <<repo, store, backup, owner, excl, temp, tempExcl, linkTemp, art,
                 job, turns, same, tracked, acts, unsaved, raced>>
  BY Persisted DEF RecoveryPersist
<1>2. /\ job.cmd = "recover"
      /\ pc' = (IF After(rec.op,
                 rec.phase) = "PostCommitValidated" THEN "drop" ELSE "decide")
  BY <1>1, AfterNow, Persisted DEF RecoveryPersist, Recovering
<1>3. /\ rec.phase \in {"ContentSynchronized", "OwnershipAttached"}
      /\ store # Missing
      /\ rec.op = "relink" => owner = "attached"
      /\ rec.op = "sync" \/ rec.phase = "OwnershipAttached" => backup = Missing
  BY <1>1, <1>2, RecNow DEF RecordInv, RecoveryRecord, BackupInv, AgreedInv, By,
     RecordSteps
<1>4. RelinkShape'
  BY <1>1, <1>2, <1>3, RecNow DEF RelinkShape, Planned, AsRecorded, Staged, Replaced,
     Agreed, After, RecordInv, RecoveryRecord, By, RecordSteps
<1>5. Calm' /\ SyncShape' /\ SyncSoFar' /\ RelinkSoFar' /\ RefreshSoFar'
  BY <1>1, <1>2, <1>3 DEF Calm, Working, Source, Planned, AsRecorded, SyncShape,
     Agreed, SyncSoFar, By, TempSteps, RelinkSoFar, Staged, CleanSteps, RefreshSoFar,
     Healthy, RepoKind, CopyContent
<1> QED BY <1>4, <1>5

(* Without a record there is no shape to keep.                             *)
LEMMA DropCalm ==
  ASSUME ControlInv, Undisturbed, Drop
  PROVE  Undisturbed'
<1> USE DEF ControlInv, Undisturbed
<1>1. /\ pc = "drop" /\ job # NoJob /\ rec' = NoRecord
      /\ \/ art = NoArtifact /\ Exit
         \/ art # NoArtifact /\ GoesOn /\ pc' = "recover"
      /\ UNCHANGED <<repo, store, backup, owner, excl, temp, tempExcl, linkTemp, art,
                 tracked, acts, unsaved, raced>>
  BY DEF Drop, At, Goto, durable, journal, user, GoesOn
<1>2. job' \in Jobs \cup {NoJob} /\ turns' \in Nat /\ same' \in BOOLEAN
  BY <1>1, GoesOnOrEnds
<1>3. /\ art # NoArtifact => job.cmd = "recover"
      /\ job.cmd = "recover" => rec # NoRecord
  BY <1>1, JobNow DEF TempInv, Working, RecordInv, RecoveryRecord, By, RecordSteps
<1> USE DEF GoesOn, Exit
<1> QED
  BY <1>1, <1>2, <1>3 DEF Calm, Working, Source, Planned, AsRecorded, SyncShape,
     Agreed, RelinkShape, Staged, Replaced, SyncSoFar, By, TempSteps, RelinkSoFar,
     CleanSteps, RefreshSoFar, Healthy, RepoKind, CopyContent

(* A stop changes nothing on disk.                                         *)
LEMMA HaltCalm ==
  ASSUME ControlInv, Undisturbed, Halt
  PROVE  Undisturbed'
<1> USE DEF ControlInv, Undisturbed, Halt, Running, Exit, durable, journal, user
<1> QED
  BY  DEF Calm, Working, Source, Planned, AsRecorded, SyncShape, Agreed, RelinkShape,
     Staged, Replaced, SyncSoFar, By, TempSteps, RelinkSoFar, CleanSteps,
     RefreshSoFar, Healthy, RepoKind, CopyContent

(* What recovery decides leaves the record in a state it knows.            *)
LEMMA DecideRecordCalm ==
  ASSUME ControlInv, Undisturbed, DecideRecord
  PROVE  Undisturbed'
<1> USE DEF ControlInv, Undisturbed
<1>1. /\ pc = "decide" /\ job # NoJob /\ job.cmd = "recover" /\ rec # NoRecord
      /\ rec.phase # "PostCommitValidated"
  BY JobNow DEF DecideRecord, At, PlaceInv, By, TempSteps, CleanSteps, RecordInv,
                RecoveryRecord, RecordSteps
<1>2. UNCHANGED <<repo, store, backup, owner, excl, temp, tempExcl, linkTemp, art,
                  tracked, acts, unsaved, raced>>
  BY <1>1, Decided
<1>3. CASE Exit /\ rec' = rec
  <2>1. Calm'
    BY <1>2, <1>3 DEF Exit, Calm, Working
  <2>2. SyncShape' /\ RelinkShape'
    BY <1>2, <1>3 DEF SyncShape, RelinkShape, Planned, Staged, Replaced, Agreed, AsRecorded
  <2>3. SyncSoFar' /\ RelinkSoFar' /\ RefreshSoFar'
    BY <1>3 DEF Exit, SyncSoFar, RelinkSoFar, RefreshSoFar, By
  <2> QED BY <2>1, <2>2, <2>3
<1>4. CASE /\ rec' = rec /\ job' = job
           /\ pc' \in {"drop", "persist", "unexclude", "attach", "cleanbackup"}
           /\ pc' = "unexclude" => Planned
  <2>1. Calm'
    BY <1>1, <1>2, <1>4 DEF Calm, Working, Planned, AsRecorded
  <2>2. SyncShape' /\ RelinkShape'
    BY <1>2, <1>4 DEF SyncShape, RelinkShape, Planned, Staged, Replaced, Agreed, AsRecorded
  <2>3. SyncSoFar' /\ RelinkSoFar' /\ RefreshSoFar'
    BY <1>1, <1>4 DEF SyncSoFar, RelinkSoFar, RefreshSoFar, By
  <2> QED BY <2>1, <2>2, <2>3
<1>5. CASE /\ pc' = pc /\ job' = job
           /\ rec' = [rec EXCEPT !.phase = After(rec.op, rec.phase)]
           /\ After(rec.op, rec.phase) \in CopyPhases(rec.op)
           /\ \/ rec.op = "sync" /\ rec.phase = "RecordCreated" /\ Agreed
              \/ /\ rec.op = "relink" /\ rec.phase = "RecordCreated"
                 /\ Planned /\ owner = "detached" /\ excl
              \/ /\ rec.op = "relink" /\ rec.phase = "ExcludeWritten"
                 /\ Agreed /\ backup = Loser(rec) /\ owner = "detached" /\ excl
              \/ /\ rec.op = "relink" /\ rec.phase = "ContentSynchronized"
                 /\ Agreed /\ backup = Loser(rec) /\ owner = "attached" /\ excl
  <2>1. /\ rec' # NoRecord
        /\ rec'.op = rec.op /\ rec'.phase = After(rec.op, rec.phase) /\ rec'.dir = rec.dir
        /\ rec'.repoFp = rec.repoFp /\ rec'.storeFp = rec.storeFp
        /\ rec'.exclBefore = rec.exclBefore /\ rec'.backupKnown = rec.backupKnown
        /\ Winner(rec') = Winner(rec) /\ Loser(rec') = Loser(rec)
    BY <1>1, <1>5, Advanced
  <2>2. rec.op = "relink" /\ rec.phase = "ExcludeWritten" => Replaced
    <3>1. ASSUME rec.op = "relink", rec.phase = "ExcludeWritten" PROVE ~Planned /\ ~Staged
      <4>1. Agreed /\ backup = Loser(rec)
        BY <1>5, <3>1
      <4>2. ~Planned
        BY <1>1, <4>1, EntriesApart, RecNow DEF Planned
      <4>3. rec.repoFp # rec.storeFp
        BY <1>1 DEF RecordInv
      <4>4. ~Staged
        BY <1>1, <4>1, <4>3, EntriesApart, RecNow DEF Staged, Agreed, Winner
      <4> QED BY <4>2, <4>4
    <3> QED BY <1>1, <3>1 DEF RelinkShape
  <2>3. Calm'
    BY <1>1, <1>2, <1>5 DEF Calm, Working
  <2>4. SyncShape'
    BY <1>1, <1>2, <1>5, <2>1 DEF SyncShape, Agreed, After
  <2>5. RelinkShape'
    BY <1>1, <1>2, <1>5, <2>1, <2>2
       DEF RelinkShape, Planned, Replaced, Agreed, AsRecorded, After
  <2>6. SyncSoFar' /\ RelinkSoFar' /\ RefreshSoFar'
    BY <1>1, <1>5 DEF SyncSoFar, RelinkSoFar, RefreshSoFar, By
  <2> QED BY <2>3, <2>4, <2>5, <2>6
<1> QED BY <1>1, <1>3, <1>4, <1>5, Decided

(* Nobody has interfered yet.                                              *)
LEMMA CalmInit == Init => Undisturbed
<1> SUFFICES ASSUME Init PROVE Undisturbed
  OBVIOUS
<1>1. Calm
  BY DEF Init, Calm, Working
<1>2. SyncShape /\ RelinkShape
  BY DEF Init, SyncShape, RelinkShape
<1>3. SyncSoFar /\ RelinkSoFar /\ RefreshSoFar
  BY DEF Init, SyncSoFar, RelinkSoFar, RefreshSoFar, By
<1> QED BY <1>1, <1>2, <1>3 DEF Undisturbed

(* A step that changes nothing preserves it.                               *)
LEMMA CalmStutters ==
  ASSUME Undisturbed, UNCHANGED vars
  PROVE  Undisturbed'
<1> USE DEF Undisturbed, vars, durable, journal, process, user
<1>1. Calm'
  BY DEF Calm, Working, Source, Planned, AsRecorded
<1>2. SyncShape' /\ RelinkShape'
  BY DEF SyncShape, RelinkShape, Planned, Staged, Replaced, Agreed, AsRecorded
<1>3. SyncSoFar' /\ RelinkSoFar'
  BY DEF SyncSoFar, RelinkSoFar, By, Planned, Staged, Agreed, AsRecorded
<1>4. RefreshSoFar'
  BY DEF RefreshSoFar, By, Healthy, RepoKind, CopyContent
<1> QED BY <1>1, <1>2, <1>3, <1>4

(* Only users count as interference.                                       *)
LEMMA OnlyUsersAct ==
  ASSUME Next, ~UserAct
  PROVE  acts' = acts
<1> USE DEF user
<1>1. CASE Command \/ BeginRecovery
  BY <1>1 DEF Command, SyncCommand, RelinkCommand, RepairCommand, SyncBegin, RelinkBegin,
              AttachBegin, RepairBegin, RepoRepairBegin, MaterializeBegin, BeginRecovery
<1>2. CASE JournalStep
  BY <1>2 DEF JournalStep, Reserve, ExcludeTemp, VerifyTempExclude, CreateTemp, IdentifyTemp,
              PopulateTemp, CleanTempFile, CleanTempExclude, CleanRecord
<1>3. CASE SyncStep
  BY <1>3 DEF SyncStep, SyncInspect, SyncCheck, SyncCommit, SyncPersist, SyncPost, Persist
<1>4. CASE RelinkStep
  BY <1>4 DEF RelinkStep, RelinkExclude, RelinkExcluded, RelinkStage, RelinkCheckStage,
              RelinkCommitStage, RelinkRecordBackup, RelinkInspect, RelinkCheck,
              RelinkCommit, RelinkPersist, RelinkPost, Attach, CleanBackup, AttachExcluded,
              AttachCheck, AttachCommit, AttachPost, RelinkUnexclude, Persist
<1>5. CASE RefreshStep
  BY <1>5 DEF RefreshStep, RepairExclude, RepairInspect, RepairCheck, MaterializeCheck,
              RefreshCopy, RefreshCreate, RefreshBeside, RefreshRename, RefreshPost
<1>6. CASE RecoveryStep \/ Drop \/ Halt
  BY <1>6 DEF RecoveryStep, RecoverOne, DecideRecord, RecoveryPersist, Persist, Drop, Halt
<1> QED BY <1>1, <1>2, <1>3, <1>4, <1>5, <1>6 DEF Next, CopyWork

(* Every step that is no user's preserves it.                              *)
LEMMA CalmSteps ==
  ASSUME ControlInv, Undisturbed, Next, ~UserAct
  PROVE  Undisturbed'
<1>1. CASE Command
  BY <1>1, SyncBeginCalm, RelinkBeginCalm, AttachBeginCalm, RepairBeginCalm,
     RepoRepairBeginCalm, MaterializeBeginCalm
  DEF Command, SyncCommand, RelinkCommand, RepairCommand
<1>2. CASE BeginRecovery
  BY <1>2, BeginRecoveryCalm
<1>3. CASE JournalStep
  BY <1>3, ReserveCalm, ExcludeTempCalm, VerifyTempExcludeCalm, CreateTempCalm,
     IdentifyTempCalm, PopulateTempCalm, CleanTempFileCalm, CleanTempExcludeCalm,
     CleanRecordCalm
  DEF JournalStep
<1>4. CASE SyncStep
  BY <1>4, SyncInspectCalm, SyncCheckCalm, SyncCommitCalm, SyncPersistCalm, SyncPostCalm
  DEF SyncStep
<1>5. CASE RelinkStep
  BY <1>5, RelinkExcludeCalm, RelinkExcludedCalm, RelinkStageCalm, RelinkCheckStageCalm,
     RelinkCommitStageCalm, RelinkRecordBackupCalm, RelinkInspectCalm, RelinkCheckCalm,
     RelinkCommitCalm, RelinkPersistCalm, RelinkPostCalm, AttachCalm, CleanBackupCalm,
     AttachExcludedCalm, AttachCheckCalm, AttachCommitCalm, AttachPostCalm,
     RelinkUnexcludeCalm
  DEF RelinkStep
<1>6. CASE RefreshStep
  BY <1>6, RepairExcludeCalm, RepairInspectCalm, RepairCheckCalm, MaterializeCheckCalm,
     RefreshCopyCalm, RefreshCreateCalm, RefreshBesideCalm, RefreshRenameCalm,
     RefreshPostCalm
  DEF RefreshStep
<1>7. CASE RecoveryStep
  BY <1>7, RecoverOneCalm, DecideRecordCalm, RecoveryPersistCalm DEF RecoveryStep
<1>8. CASE Drop
  BY <1>8, DropCalm
<1>9. CASE Halt
  BY <1>9, HaltCalm
<1> QED BY <1>1, <1>2, <1>3, <1>4, <1>5, <1>6, <1>7, <1>8, <1>9 DEF Next, CopyWork

(* While nobody interferes, the item and its record are what the commands  *)
(* made of them, wherever they stop.                                       *)
THEOREM UndisturbedHolds == CopySpec => []UndisturbedInv
<1>1. Init => UndisturbedInv
  BY CalmInit DEF UndisturbedInv
<1>2. ASSUME ControlInv, UndisturbedInv, [Next]_vars PROVE UndisturbedInv'
  <2>1. CASE UserAct
    <3>1. acts \in Nat /\ acts' = acts + 1
      BY <1>2, <2>1 DEF ControlInv, Typed, UserAct, Edit, Swap, Replace, Delete, Track,
                        Unexclude, Act
    <3>2. acts' # 0
      BY <3>1
    <3> QED BY <3>2 DEF UndisturbedInv
  <2>2. CASE Next /\ ~UserAct
    <3>1. acts' = acts
      BY <2>2, OnlyUsersAct
    <3>2. acts = 0 => Undisturbed'
      BY <1>2, <2>2, CalmSteps DEF UndisturbedInv
    <3> QED BY <3>1, <3>2 DEF UndisturbedInv
  <2>3. CASE UNCHANGED vars
    <3>1. acts' = acts
      BY <2>3 DEF vars, user
    <3>2. acts = 0 => Undisturbed'
      BY <1>2, <2>3, CalmStutters DEF UndisturbedInv
    <3> QED BY <3>1, <3>2 DEF UndisturbedInv
  <2> QED BY <1>2, <2>1, <2>2, <2>3
<1>3. ControlInv /\ UndisturbedInv /\ [Next]_vars => UndisturbedInv'
  BY <1>2
<1> QED BY <1>1, <1>3, ControlHolds, PTL DEF CopySpec

(***************************************************************************)
(* What follows while nobody interferes                                    *)
(***************************************************************************)

(* The journal refuses only a temp whose identity it never learned.        *)
LEMMA ArtifactWindow ==
  ASSUME ControlInv, Undisturbed, ArtifactConflict
  PROVE  art # NoArtifact /\ ~art.created /\ temp # Missing /\ temp.data = Empty
<1>1. art # NoArtifact /\ temp # Missing /\ (~art.created \/ temp.ours # art.ours)
  BY DEF ArtifactConflict
<1>2. temp.ours /\ (art.created => art.ours)
  BY <1>1 DEF Undisturbed, Calm
<1>3. temp.ours \in BOOLEAN /\ art.ours \in BOOLEAN
  BY <1>1, ArtNow, TempNow DEF ControlInv
<1>4. ~art.created
  BY <1>1, <1>2, <1>3
<1> QED BY <1>1, <1>2, <1>4 DEF ControlInv, JournalInv

(* A sync is never refused.                                                *)
LEMMA SyncGoesOn ==
  ASSUME ControlInv, Undisturbed, rec # NoRecord, rec.op = "sync",
         rec.phase # "PostCommitValidated"
  PROVE  ~RecordStuck
<1>1. Typed /\ rec.phase \in {"RecordCreated", "ContentSynchronized"}
  BY RecNow DEF ControlInv
<1>2. Integrated
  BY DEF Undisturbed, Calm, SyncShape, Integrated
<1>3. CASE rec.phase = "RecordCreated"
  <2>1. AsRecorded \/ Agreed
    BY <1>3 DEF Undisturbed, SyncShape
  <2> QED BY <1>1, <1>2, <1>3, <2>1, SyncDecided DEF RecordStuck, Perform, Advance
<1>4. CASE rec.phase = "ContentSynchronized"
  <2>1. Agreed
    BY <1>4 DEF Undisturbed, SyncShape
  <2> QED BY <1>1, <1>2, <1>4, <2>1, SyncDecided DEF RecordStuck, Perform
<1> QED BY <1>1, <1>3, <1>4

(* A relink is refused in three windows.                                   *)
LEMMA RelinkWindows ==
  ASSUME ControlInv, Undisturbed, RecordStuck, rec.op = "relink"
  PROVE  \/ rec.phase = "ExcludeWritten" /\ backup # Missing
         \/ rec.phase = "ExcludeWritten" /\ backup = Missing /\ ~excl /\ ~rec.exclBefore
         \/ rec.phase = "OwnershipAttached" /\ backup = Missing
<1>1. Typed /\ rec # NoRecord /\ rec.phase # "PostCommitValidated"
  BY DEF ControlInv, RecordStuck
<1>2. rec.phase \in {"RecordCreated", "ExcludeWritten", "ContentSynchronized", "OwnershipAttached"}
  BY <1>1, RecNow
<1>3. Loser(rec) # Missing
  BY <1>1, EntriesApart, RecNow
<1>4. rec.phase # "RecordCreated"
  <2>1. SUFFICES ASSUME rec.phase = "RecordCreated" PROVE FALSE
    OBVIOUS
  <2>2. Planned /\ owner = "detached"
    BY <1>1, <2>1 DEF Undisturbed, RelinkShape
  <2> QED BY <1>1, <2>1, <2>2, RelinkDecided DEF RecordStuck, Perform, Advance
<1>5. rec.phase # "ContentSynchronized"
  <2>1. SUFFICES ASSUME rec.phase = "ContentSynchronized" PROVE FALSE
    OBVIOUS
  <2>2. Agreed /\ backup = Loser(rec) /\ excl
    BY <1>1, <2>1 DEF Undisturbed, RelinkShape, Replaced
  <2> QED BY <1>1, <2>1, <2>2, RelinkDecided DEF RecordStuck, Perform, Advance
<1>6. CASE rec.phase = "ExcludeWritten"
  <2>1. owner = "detached"
    BY <1>1, <1>6 DEF Undisturbed, RelinkShape
  <2>2. CASE Planned /\ (excl \/ ~rec.exclBefore)
    <3>1. backup = Missing
      BY <2>2 DEF Planned
    <3>2. ~excl
      <4>1. SUFFICES ASSUME excl PROVE FALSE
        OBVIOUS
      <4>2. CopyDecision = Perform("RemoveOperationOwnedExclude")
        BY <1>1, <1>6, <2>1, <2>2, <4>1, RelinkDecided
      <4> QED BY <4>2 DEF RecordStuck, Perform
    <3> QED BY <1>6, <2>2, <3>1, <3>2
  <2>3. CASE Staged \/ Replaced
    BY <1>3, <1>6, <2>3 DEF Staged, Replaced
  <2> QED BY <1>1, <1>6, <2>2, <2>3 DEF Undisturbed, RelinkShape
<1>7. CASE rec.phase = "OwnershipAttached"
  <2>1. Agreed /\ excl /\ rec.backupKnown /\ backup \in {Missing, Loser(rec)}
    BY <1>1, <1>7 DEF Undisturbed, RelinkShape
  <2>2. owner = "attached"
    BY <1>1, <1>7 DEF ControlInv, BackupInv
  <2>3. backup # Loser(rec)
    <3>1. SUFFICES ASSUME backup = Loser(rec) PROVE FALSE
      OBVIOUS
    <3>2. CopyDecision = Perform("DeleteBackupAndComplete")
      BY <1>1, <1>7, <2>1, <2>2, <3>1, RelinkDecided
    <3> QED BY <2>1, <3>2 DEF RecordStuck, Perform
  <2> QED BY <1>7, <2>1, <2>3
<1> QED BY <1>2, <1>4, <1>5, <1>6, <1>7

(* A stop nobody interfered with leaves what recovery can settle, but for  *)
(* the four windows (recover_before_mutation, recover_artifacts).          *)
THEOREM StopsSettleOutsideWindows == CopySpec => []CopyStuckOnlyInWindows
<1>1. ASSUME ControlInv, UndisturbedInv PROVE CopyStuckOnlyInWindows
  <2>1. SUFFICES ASSUME acts = 0, CopyStuck
                 PROVE  \/ art # NoArtifact /\ ~art.created /\ temp # Missing /\ temp.data = Empty
                        \/ /\ rec # NoRecord /\ rec.op = "relink"
                           /\ \/ rec.phase = "ExcludeWritten" /\ backup # Missing
                              \/ /\ rec.phase = "ExcludeWritten" /\ backup = Missing
                                 /\ ~excl /\ ~rec.exclBefore
                              \/ rec.phase = "OwnershipAttached" /\ backup = Missing
    BY DEF CopyStuckOnlyInWindows
  <2>2. Undisturbed
    BY <1>1, <2>1 DEF UndisturbedInv
  <2>3. CASE ArtifactConflict
    BY <1>1, <2>2, <2>3, ArtifactWindow
  <2>4. CASE RecordStuck
    <3>1. rec # NoRecord /\ rec.phase # "PostCommitValidated" /\ rec.op \in {"sync", "relink"}
      BY <1>1, <2>4, RecNow DEF RecordStuck, ControlInv
    <3> QED BY <1>1, <2>2, <2>4, <3>1, SyncGoesOn, RelinkWindows
  <2> QED BY <2>1, <2>3, <2>4 DEF CopyStuck
<1> QED BY <1>1, ControlHolds, UndisturbedHolds, PTL

(* The steps a command or recovery ends with.                              *)
Ender ==
  \/ CleanTempFile \/ CleanRecord \/ CleanBackup \/ Attach \/ RefreshPost
  \/ RepairExclude \/ Drop \/ DecideRecord

(* No other step of a command ends it.                                     *)
LEMMA Enders ==
  ASSUME ControlInv, CopyWork, pc' = "idle", ~Recovering
  PROVE  Ender
<1> USE DEF Goto, At, For
<1>1. CASE JournalStep
  BY <1>1 DEF Ender, JournalStep, Reserve, ExcludeTemp, VerifyTempExclude, CreateTemp,
              IdentifyTemp, PopulateTemp, CleanTempExclude
<1>2. CASE SyncStep
  BY <1>2, Persisted DEF ControlInv, SyncStep, SyncInspect, SyncCheck, SyncCommit, SyncPersist,
              SyncPost, Inspected
<1>3. CASE RelinkStep
  <2>1. CASE RelinkExclude \/ RelinkExcluded \/ RelinkStage \/ RelinkCheckStage
             \/ RelinkCommitStage \/ RelinkRecordBackup
    BY <2>1 DEF RelinkExclude, RelinkExcluded, RelinkStage, RelinkCheckStage,
                RelinkCommitStage, RelinkRecordBackup, Inspected
  <2>2. CASE RelinkInspect \/ RelinkCheck \/ RelinkCommit \/ RelinkPost
    BY <2>2 DEF RelinkInspect, RelinkCheck, RelinkCommit, RelinkPost
  <2>3. CASE RelinkPersist
    <3>1. pc' = (CASE NextPhaseOf(rec) = "ContentSynchronized" -> "post"
                   [] NextPhaseOf(rec) = "OwnershipAttached" -> "cleanbackup"
                   [] OTHER -> "drop")
      BY <2>3, Persisted DEF ControlInv, RelinkPersist
    <3> QED BY <3>1
  <2>4. CASE AttachExcluded \/ AttachCheck \/ AttachCommit \/ AttachPost \/ RelinkUnexclude
    BY <2>4 DEF AttachExcluded, AttachCheck, AttachCommit, AttachPost, RelinkUnexclude
  <2> QED BY <1>3, <2>1, <2>2, <2>3, <2>4 DEF Ender, RelinkStep
<1>4. CASE RefreshStep
  BY <1>4 DEF Ender, RefreshStep, RepairInspect, FirstStep, RepairCheck, MaterializeCheck,
              RefreshCopy, RefreshCreate, RefreshBeside, RefreshRename
<1>5. CASE RecoverOne \/ RecoveryPersist
  BY <1>5, JobNow DEF RecoverOne, RecoveryPersist, Recovering, ControlInv, PlaceInv, By,
              TempSteps, CleanSteps
<1> QED BY <1>1, <1>2, <1>3, <1>4, <1>5 DEF CopyWork, Ender, RecoveryStep

(* What holds of the item when a command ends that nobody disturbed.       *)
LEMMA EndsSound ==
  ASSUME ControlInv, Undisturbed, Ender, pc' = "idle", Running, ~Recovering,
         job.cmd # "integrate"
  PROVE  /\ Healthy /\ excl /\ ~tracked
         /\ UNCHANGED <<repo, store, excl, tracked>>
         /\ rec' = NoRecord /\ art' = NoArtifact
<1> USE DEF ControlInv, Undisturbed, Calm
<1>1. job # NoJob /\ job \in Jobs /\ job.cmd # "recover" /\ Working /\ ~tracked
  BY DEF Running, Recovering, PlaceInv, Typed, Working
<1>2. pc # "exclude" => excl
  BY <1>1
<1>3. ~CleanTempFile
  <2>1. SUFFICES ASSUME CleanTempFile PROVE FALSE
    OBVIOUS
  <2>2. pc = "cleanfile" /\ (~ArtifactConflict => pc' = "cleanexclude")
    BY <2>1 DEF CleanTempFile, At, Goto
  <2>3. temp = Missing
    BY <1>1, <2>2 DEF TempInv, CleanSteps
  <2> QED BY <2>2, <2>3 DEF ArtifactConflict
<1>4. ~RepairExclude
  <2>1. SUFFICES ASSUME RepairExclude PROVE FALSE
    OBVIOUS
  <2>2. pc' = "excluded"
    BY <2>1 DEF RepairExclude, Goto
  <2> QED BY <2>2
<1>5. ~DecideRecord
  BY <1>1, JobNow DEF DecideRecord, At, PlaceInv, By, TempSteps, CleanSteps
<1>6. ~CleanBackup
  <2>1. SUFFICES ASSUME CleanBackup PROVE FALSE
    OBVIOUS
  <2>2. pc = "cleanbackup" /\ (backup = Missing \/ rec.backupKnown => pc' = "persist")
    BY <2>1 DEF CleanBackup, At, Goto
  <2>3. job.cmd = "relink"
    BY <1>1, <2>2, JobNow DEF PlaceInv, By, TempSteps, CleanSteps
  <2>4. rec.backupKnown
    BY <1>1, <2>2, <2>3 DEF RelinkInv, By
  <2> QED BY <2>2, <2>4
<1>7. CASE CleanRecord
  <2>1. /\ pc = "cleanrecord" /\ art' = NoArtifact /\ AfterCleanup = "idle"
        /\ UNCHANGED <<repo, store, excl, tracked, rec>>
    BY <1>1, <1>7 DEF CleanRecord, At, Goto, Recovering, durable, user
  <2>2. job.cmd \in {"repair", "materialize"}
    BY <1>1, <2>1, JobNow DEF AfterCleanup, PlaceInv, By
  <2>3. Healthy /\ rec = NoRecord
    BY <1>1, <2>1, <2>2 DEF RefreshSoFar, By, CleanSteps, RecordInv
  <2> QED BY <1>1, <1>2, <2>1, <2>3
<1>8. CASE Attach
  <2>1. /\ pc = "attach" /\ job.cmd = "attach"
        /\ UNCHANGED <<repo, store, excl, tracked, rec, art>>
    BY <1>8 DEF Attach, At, Goto, journal, user
  <2>2. Healthy /\ rec = NoRecord /\ art = NoArtifact
    BY <1>1, <2>1 DEF RefreshSoFar, By, RecordInv, TempInv
  <2> QED BY <1>1, <1>2, <2>1, <2>2
<1>9. CASE RefreshPost
  <2>1. /\ pc = "post" /\ job.cmd \in {"repair", "materialize"} /\ art = NoArtifact
        /\ Materialized(job.strategy)
        /\ UNCHANGED <<repo, store, excl, tracked, rec, art>>
    BY <1>9 DEF RefreshPost, Refreshing, Goto, durable, journal, user
  <2>2. rec = NoRecord /\ store # Missing
    BY <1>1, <2>1 DEF RecordInv, BackupInv
  <2>3. Healthy
    BY <2>1, <2>2 DEF Healthy, Materialized
  <2> QED BY <1>1, <1>2, <2>1, <2>2, <2>3
<1>10. CASE Drop
  <2>1. /\ pc = "drop" /\ rec' = NoRecord /\ art = NoArtifact
        /\ UNCHANGED <<repo, store, excl, tracked, art>>
    BY <1>10 DEF Drop, At, Goto, durable, journal, user
  <2>2. rec # NoRecord /\ rec.phase = "PostCommitValidated" /\ rec.op \in {"sync", "relink"}
    BY <1>1, <2>1, JobNow, RecNow DEF PlaceInv, By, RecordInv, SyncRecord, RelinkRecord,
       TempSteps, CleanSteps
  <2>3. Agreed
    BY <2>2 DEF SyncShape, RelinkShape
  <2>4. store # Missing /\ repo \in Contents /\ repo = store
    BY <2>2, <2>3, RecNow, EntriesApart DEF Agreed
  <2>5. CopyContent = "Equal"
    BY <2>4, Kinds DEF CopyContent, Typed
  <2> QED BY <1>1, <1>2, <2>1, <2>4, <2>5 DEF Healthy
<1> QED BY <1>3, <1>4, <1>5, <1>6, <1>7, <1>8, <1>9, <1>10 DEF Ender

(* A command nobody disturbed leaves an item a report finds healthy        *)
(* (the postconditions of sync, relink, repair and materialize against     *)
(* evaluate_materialization_status).                                       *)
THEOREM DoneIsHealthy == CopySpec => DoneMeansHealthy
<1>1. ASSUME ControlInv, ControlInv', UndisturbedInv, acts = 0, Running, ~Recovering,
             CopyWork, pc' = "idle", job.cmd # "integrate"
      PROVE  Severity' = "Healthy"
  <2>1. Undisturbed
    BY <1>1 DEF UndisturbedInv
  <2>2. Ender
    BY <1>1, Enders
  <2>3. /\ Healthy /\ excl /\ ~tracked
        /\ UNCHANGED <<repo, store, excl, tracked>>
        /\ rec' = NoRecord /\ art' = NoArtifact
    BY <1>1, <2>1, <2>2, EndsSound
  <2>4. Healthy'
    BY <2>3 DEF Healthy, RepoKind, CopyContent
  <2>5. Typed' /\ excl' /\ ~tracked'
    BY <1>1, <2>3 DEF ControlInv
  <2>6. ~UnfinishedReported'
    BY <2>3 DEF UnfinishedReported
  <2>7. store' # Missing /\ (RepoKind' = "ManagedSymlink" \/ CopyContent' = "Equal")
    BY <2>4 DEF Healthy
  <2>8. RepoKind' \in {"ManagedSymlink", "RegularFile"} /\ CopyContent' # "Diverged"
    BY <2>7 DEF CopyContent
  <2>9. /\ PolicyFacts'.entry = RepoKind' /\ PolicyFacts'.stored = (store' # Missing)
        /\ PolicyFacts'.content = CopyContent' /\ PolicyFacts'.tracked = tracked'
        /\ PolicyFacts'.excluded = excl'
    BY DEF PolicyFacts
  <2>10. Evaluated(PolicyFacts)' = "Healthy"
    BY <2>5, <2>7, <2>8, <2>9 DEF Evaluated
  <2> QED BY <2>6, <2>10 DEF Severity
<1>2. ControlInv /\ ControlInv' /\ UndisturbedInv /\ [Next]_vars =>
        [acts = 0 /\ Running /\ ~Recovering /\ CopyWork /\ pc' = "idle" /\ job.cmd # "integrate" =>
           Severity' = "Healthy"]_vars
  BY <1>1
<1> QED BY <1>2, ControlHolds, UndisturbedHolds, PTL DEF CopySpec, DoneMeansHealthy
==============================================================================
