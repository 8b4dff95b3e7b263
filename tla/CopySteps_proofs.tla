-------------------------- MODULE CopySteps_proofs ---------------------------
(* The inductive invariant of the commands that compare the store's copy   *)
(* of an item with the repository's, and of their recovery: what holds at  *)
(* each step, whatever users do meanwhile, and one lemma per action.       *)
(* CopyItem_proofs draws the theorems from it.                             *)
EXTENDS CopyItem, FiniteSetTheorems, SequenceTheorems, TLAPS

(***************************************************************************)
(* Constants, observations and the tables                                  *)
(***************************************************************************)

(* Three values make a set of no more than three elements.                 *)
LEMMA AtMostThree == ASSUME NEW x, NEW y, NEW z PROVE Cardinality({x, y, z}) \in 0..3
<1>1. IsFiniteSet({x}) /\ Cardinality({x}) = 1
  BY FS_Singleton
<1>2. IsFiniteSet({x, y}) /\ Cardinality({x, y}) \in 1..2
  <2>1. {x, y} = {x} \cup {y}
    OBVIOUS
  <2> QED BY <1>1, <2>1, FS_AddElement
<1>3. {x, y, z} = {x, y} \cup {z}
  OBVIOUS
<1> QED BY <1>2, <1>3, FS_AddElement

(* The entries that are no contents are four.                              *)
LEMMA EntriesApart ==
  /\ Missing # Link /\ Missing # Foreign /\ Missing # Empty
  /\ Link # Foreign /\ Link # Empty /\ Foreign # Empty
  /\ Missing \notin Contents /\ Link \notin Contents
  /\ Foreign \notin Contents /\ Empty \notin Contents
<1>1. ASSUME NEW x, NEW y, NEW z, {Empty, Missing, Link, Foreign} = {x, y, z} PROVE FALSE
  <2> DEFINE four == {Empty, Missing, Link, Foreign}
             three == {x, y, z}
  <2>1. Cardinality(four) = 4
    BY EntriesDistinct
  <2>2. Cardinality(three) \in 0..3
    BY AtMostThree
  <2>3. four = three
    BY <1>1
  <2> HIDE DEF four, three
  <2> QED BY <2>1, <2>2, <2>3
<1>2. Missing # Link
  <2>1. Missing = Link => {Empty, Missing, Link, Foreign} = {Empty, Link, Foreign}
    OBVIOUS
  <2> QED BY <1>1, <2>1
<1>3. Missing # Foreign
  <2>1. Missing = Foreign => {Empty, Missing, Link, Foreign} = {Empty, Missing, Link}
    OBVIOUS
  <2> QED BY <1>1, <2>1
<1>4. Missing # Empty
  <2>1. Missing = Empty => {Empty, Missing, Link, Foreign} = {Empty, Link, Foreign}
    OBVIOUS
  <2> QED BY <1>1, <2>1
<1>5. Link # Foreign
  <2>1. Link = Foreign => {Empty, Missing, Link, Foreign} = {Empty, Missing, Foreign}
    OBVIOUS
  <2> QED BY <1>1, <2>1
<1>6. Link # Empty
  <2>1. Link = Empty => {Empty, Missing, Link, Foreign} = {Empty, Missing, Foreign}
    OBVIOUS
  <2> QED BY <1>1, <2>1
<1>7. Foreign # Empty
  <2>1. Foreign = Empty => {Empty, Missing, Link, Foreign} = {Empty, Missing, Link}
    OBVIOUS
  <2> QED BY <1>1, <2>1
<1> QED BY <1>2, <1>3, <1>4, <1>5, <1>6, <1>7, EntriesDistinct

(* What each kind of entry is, of those there can be.                      *)
LEMMA Kinds ==
  ASSUME repo \in Contents \cup {Missing, Link, Foreign}
  PROVE  /\ RepoKind = "Missing" <=> repo = Missing
         /\ RepoKind = "ManagedSymlink" <=> repo = Link
         /\ RepoKind = "UnmanagedSymlink" <=> repo = Foreign
         /\ RepoKind = "RegularFile" <=> repo \in Contents
BY EntriesApart DEF RepoKind

(* The phases of an operation, and the order they come in.                 *)
LEMMA PhasesOf ==
  /\ DOMAIN NextPhase = {"sync", "relink"}
  /\ CopyPhases("sync") = {"RecordCreated", "ContentSynchronized", "PostCommitValidated"}
  /\ CopyPhases("relink") = {"RecordCreated", "ExcludeWritten", "ContentSynchronized",
                             "OwnershipAttached", "PostCommitValidated"}
  /\ NextPhase["sync"]["RecordCreated"] = "ContentSynchronized"
  /\ NextPhase["sync"]["ContentSynchronized"] = "PostCommitValidated"
  /\ NextPhase["relink"]["RecordCreated"] = "ExcludeWritten"
  /\ NextPhase["relink"]["ExcludeWritten"] = "ContentSynchronized"
  /\ NextPhase["relink"]["ContentSynchronized"] = "OwnershipAttached"
  /\ NextPhase["relink"]["OwnershipAttached"] = "PostCommitValidated"
BY DEF NextPhase, CopyPhases

GoodRecords == {r \in CopyRecords : ValidRecord(r)}

(* A record is good if and only if its fields are.                         *)
LEMMA RecordFields ==
  ASSUME NEW r \in GoodRecords
  PROVE  /\ r = [op |-> r.op, phase |-> r.phase, dir |-> r.dir, repoFp |-> r.repoFp,
                 storeFp |-> r.storeFp, exclBefore |-> r.exclBefore,
                 backupKnown |-> r.backupKnown]
         /\ r.op \in {"sync", "relink"} /\ r.phase \in CopyPhases(r.op)
         /\ r.dir \in Directions /\ r.repoFp \in Contents /\ r.storeFp \in Contents
         /\ r.exclBefore \in BOOLEAN /\ r.backupKnown \in BOOLEAN
         /\ r.op = "sync" => r.repoFp # r.storeFp /\ r.exclBefore
         /\ r # NoRecord
         /\ \A ph \in CopyPhases(r.op) : [r EXCEPT !.phase = ph] \in GoodRecords
         /\ [r EXCEPT !.backupKnown = TRUE] \in GoodRecords
<1> DEFINE R(op) == [op : {op}, phase : CopyPhases(op), dir : Directions,
          repoFp : Contents, storeFp : Contents,
          exclBefore : BOOLEAN, backupKnown : BOOLEAN]
<1>1. PICK op \in {"sync", "relink"} : r \in R(op)
  BY PhasesOf DEF GoodRecords, CopyRecords
<1>2. \A x : x \in R(op) => x \in CopyRecords
  BY PhasesOf DEF CopyRecords
<1>3. r.op = op
  BY <1>1
<1>4. r.op = "sync" => r.repoFp # r.storeFp /\ r.exclBefore
  BY DEF GoodRecords, ValidRecord
<1>5. r # NoRecord
  BY RecordsDistinct DEF GoodRecords
<1>6. ASSUME NEW ph \in CopyPhases(r.op) PROVE [r EXCEPT !.phase = ph] \in GoodRecords
  BY <1>1, <1>2, <1>3, <1>4 DEF GoodRecords, ValidRecord
<1>7. [r EXCEPT !.backupKnown = TRUE] \in GoodRecords
  BY <1>1, <1>2, <1>3, <1>4 DEF GoodRecords, ValidRecord
<1> QED BY <1>1, <1>3, <1>4, <1>5, <1>6, <1>7

(* The record a command creates.                                           *)
LEMMA NewRecord ==
  ASSUME NEW op \in {"sync", "relink"}, NEW dir \in Directions, repo \in Contents,
         store \in Contents, excl \in BOOLEAN, op = "sync" => repo # store /\ excl, 
         Create(op, dir)
  PROVE  /\ rec' \in GoodRecords
         /\ rec'.op = op /\ rec'.phase = "RecordCreated" /\ rec'.dir = dir
         /\ rec'.repoFp = repo /\ rec'.storeFp = store /\ rec'.exclBefore = excl
         /\ rec'.backupKnown = FALSE
<1> DEFINE R == [op : {op}, phase : CopyPhases(op), dir : Directions,
          repoFp : Contents, storeFp : Contents,
          exclBefore : BOOLEAN, backupKnown : BOOLEAN]
<1>1. \A x : x \in R => x \in CopyRecords
  BY PhasesOf DEF CopyRecords
<1>2. "RecordCreated" \in CopyPhases(op)
  BY PhasesOf
<1>3. rec' \in R
  BY <1>2 DEF Create
<1> HIDE DEF R
<1> QED BY <1>1, <1>3 DEF Create, GoodRecords, ValidRecord

GoodArtifacts == {a \in Artifacts : ValidArtifact(a)}

(* An artifact record is good if and only if its fields are.               *)
LEMMA ArtifactFields ==
  /\ \A a \in GoodArtifacts :
       /\ a \in [side : {"repo", "store"}, created : BOOLEAN, verified : BOOLEAN, ours : BOOLEAN]
       /\ a.verified => a.side = "repo"
       /\ a # NoArtifact
  /\ \A a \in [side : {"repo", "store"}, created : BOOLEAN, verified : BOOLEAN, ours : BOOLEAN] :
       (a.verified => a.side = "repo") => a \in GoodArtifacts
BY RecordsDistinct DEF GoodArtifacts, Artifacts, ValidArtifact

(* No job of a process is the absence of one.                              *)
LEMMA JobFields ==
  \A j \in Jobs : j # NoJob
BY RecordsDistinct

(***************************************************************************)
(* The invariant: what holds at each step, whatever users do               *)
(***************************************************************************)
Typed ==
  /\ repo \in Contents \cup {Missing, Link, Foreign}
  /\ store \in Contents \cup {Missing}
  /\ backup \in Contents \cup {Missing}
  /\ owner \in {"attached", "detached"}
  /\ excl \in BOOLEAN /\ tracked \in BOOLEAN /\ tempExcl \in BOOLEAN
  /\ linkTemp \in BOOLEAN /\ same \in BOOLEAN
  /\ temp \in {Missing} \cup [data : Contents \cup {Empty}, ours : BOOLEAN]
  /\ art \in GoodArtifacts \cup {NoArtifact}
  /\ rec \in GoodRecords \cup {NoRecord}
  /\ job \in Jobs \cup {NoJob}
  /\ pc \in CopySteps
  /\ turns \in Nat
  /\ acts \in Nat
  /\ unsaved \subseteq Contents
  /\ raced \in {"no", "pending", "yes"}

TempSteps == {"reserve", "tempexclude", "verify", "create", "identify", "populate", "check", "commit"}

CleanSteps == {"cleanfile", "cleanexclude", "cleanrecord"}

RecordSteps == {"decide", "attach", "persist", "cleanbackup", "unexclude", "drop"}

By(cmd) == job # NoJob /\ job.cmd = cmd

Working == job # NoJob /\ job.cmd # "recover"

(* The steps each command passes.                                          *)
PlaceInv ==
  /\ pc = "idle" <=> job = NoJob
  /\ By("sync") => pc \in TempSteps \cup CleanSteps \cup {"inspect", "persist", "post", "drop"}
  /\ By("relink") =>
       pc \in TempSteps \cup CleanSteps
                \cup {"exclude", "excluded", "stage", "backup", "inspect", "persist",
                      "post", "attach", "cleanbackup", "drop"}
  /\ By("attach") =>
       pc \in TempSteps \cup CleanSteps \cup {"exclude", "excluded", "post", "attach"}
  /\ By("repair") =>
       pc \in TempSteps \cup CleanSteps \cup {"exclude", "excluded", "linktemp", "post"}
  /\ By("integrate") => pc = "exclude"
  /\ By("materialize") => pc \in TempSteps \cup CleanSteps \cup {"linktemp", "post"}
  /\ By("recover") => pc \in CleanSteps \cup RecordSteps \cup {"recover"}

Rank(phase) ==
  CASE phase = "RecordCreated" -> 0
    [] phase = "ExcludeWritten" -> 1
    [] phase = "ContentSynchronized" -> 2
    [] phase = "OwnershipAttached" -> 3
    [] phase = "PostCommitValidated" -> 4

(* Each iteration of recovery is paid for by a phase.                      *)
TurnsInv ==
  /\ ~By("recover") => turns = 0
  /\ By("recover") /\ rec = NoRecord => turns <= 5
  /\ By("recover") /\ rec # NoRecord =>
       turns <= Rank(rec.phase) + (IF pc \in RecordSteps \ {"decide"} THEN 1 ELSE 0)

(* Which record, in which phase, goes with which step.                     *)
SyncRecord ==
  By("sync") =>
    /\ rec # NoRecord /\ rec.op = "sync" /\ job.strategy = "copy"
    /\ job.into = IF rec.dir = "FromStore" THEN "repo" ELSE "store"
    /\ pc \in TempSteps \cup {"inspect"} => rec.phase = "RecordCreated"
    /\ pc = "persist" => rec.phase \in {"RecordCreated", "ContentSynchronized"}
    /\ pc = "post" => rec.phase = "ContentSynchronized"
    /\ pc \in CleanSteps \cup {"drop"} => rec.phase = "PostCommitValidated"

RelinkRecord ==
  By("relink") =>
    /\ rec # NoRecord /\ rec.op = "relink"
    /\ job.found = "Present" /\ job.strategy = "copy"
    /\ job.into \in {"backup", IF rec.dir = "FromStore" THEN "repo" ELSE "store"}
    /\ pc \in {"exclude", "excluded", "stage", "backup"} => job.into = "backup"
    /\ pc \in {"post", "attach", "cleanbackup", "persist"} => job.into # "backup"
    /\ pc \in {"exclude", "excluded"} => rec.phase = "RecordCreated"
    /\ pc \in TempSteps \cup CleanSteps \cup {"stage", "backup", "inspect"} =>
         rec.phase = "ExcludeWritten"
    /\ pc = "persist" =>
         rec.phase \in {"ExcludeWritten", "ContentSynchronized", "OwnershipAttached"}
    /\ pc \in {"post", "attach"} => rec.phase = "ContentSynchronized"
    /\ pc = "cleanbackup" => rec.phase = "OwnershipAttached"
    /\ pc = "drop" => rec.phase = "PostCommitValidated"

RecoveryRecord ==
  By("recover") =>
    /\ pc \in RecordSteps => rec # NoRecord
    /\ pc \in RecordSteps \ {"drop"} => rec.phase # "PostCommitValidated"
    /\ pc = "attach" => rec.op = "relink" /\ rec.phase = "ContentSynchronized"
    /\ pc = "unexclude" => rec.op = "relink" /\ rec.phase = "ExcludeWritten"
    /\ pc = "cleanbackup" => rec.op = "relink" /\ rec.phase = "OwnershipAttached"
    /\ pc = "persist" => rec.phase \in {"ContentSynchronized", "OwnershipAttached"}

RecordInv ==
  /\ SyncRecord /\ RelinkRecord /\ RecoveryRecord
  /\ Working /\ job.cmd \notin {"sync", "relink"} => rec = NoRecord
  /\ rec # NoRecord => rec.repoFp # rec.storeFp

(* The temp and the record that answers for it, also after a stop.         *)
JournalInv ==
  /\ art = NoArtifact => temp = Missing /\ ~tempExcl
  /\ art # NoArtifact =>
       /\ tempExcl => art.side = "repo"
       /\ temp # Missing /\ temp.ours =>
            /\ art.side = "repo" => art.verified /\ tempExcl
            /\ art.created => art.ours
            /\ ~art.created => temp.data = Empty

(* How far the temp of a command is at each of its steps.                  *)
TempInv ==
  /\ pc \in CleanSteps => art # NoArtifact
  /\ pc \in {"cleanexclude", "cleanrecord"} => temp = Missing
  /\ pc = "cleanrecord" => ~tempExcl
  /\ Working =>
       /\ pc \in {"exclude", "excluded", "stage", "inspect", "reserve", "attach",
                  "cleanbackup", "drop"} => art = NoArtifact
       /\ pc \in {"persist", "post"} /\ job.cmd = "relink" => art = NoArtifact
       /\ pc = "persist" /\ job.cmd = "sync" => art # NoArtifact
       /\ pc = "post" /\ job.cmd = "sync" => art # NoArtifact
       /\ pc \in TempSteps \ {"reserve", "check", "commit"} =>
            art # NoArtifact /\ job.strategy = "copy"
       /\ pc = "reserve" => job.strategy = "copy"
       /\ pc \in TempSteps /\ job.strategy = "symlink" => art = NoArtifact
       /\ pc \in {"tempexclude", "verify"} =>
            art.side = "repo" /\ ~art.verified /\ ~art.created /\ temp = Missing
       /\ pc \in {"create", "identify"} =>
            ~art.created /\ (art.side = "repo" => art.verified /\ tempExcl)
       /\ pc = "create" => temp = Missing
       /\ pc = "populate" => art.created
       /\ pc = "populate" /\ temp # Missing /\ temp.ours => temp.data = Empty
       /\ pc \in {"check", "commit"} /\ temp # Missing /\ temp.ours =>
            temp.data \in Contents /\ art.created
       /\ pc \in CleanSteps \cup {"backup", "post", "persist", "linktemp"} => temp = Missing
       /\ pc \notin {"tempexclude", "verify"} /\ tempExcl => art.verified

(* Where the canonical content is, and the backup of a relink.             *)
BackupInv ==
  /\ backup # Missing =>
       /\ rec # NoRecord /\ rec.op = "relink"
       /\ rec.phase \in {"ExcludeWritten", "ContentSynchronized", "OwnershipAttached"}
  /\ store = Missing =>
       /\ backup # Missing
       /\ rec # NoRecord /\ rec.op = "relink"
       /\ rec.dir = "FromRepo" /\ rec.phase = "ExcludeWritten"
  /\ pc \in {"drop", "unexclude"} => backup = Missing
  /\ pc = "persist" /\ rec # NoRecord /\ rec.phase = "OwnershipAttached" => backup = Missing
  /\ rec # NoRecord /\ rec.phase = "OwnershipAttached" => owner = "attached"

(* What a directional relink has at hand at each step.                     *)
RelinkInv ==
  By("relink") =>
    /\ pc \in CleanSteps \cup {"backup", "inspect", "post", "attach", "cleanbackup"}
         => backup # Missing
    /\ pc \in TempSteps /\ job.into # "backup" => backup # Missing
    /\ pc = "persist" /\ rec.phase # "OwnershipAttached" => backup # Missing
    /\ pc \in CleanSteps \cup {"inspect", "post", "attach", "cleanbackup", "persist"}
         => rec.backupKnown
    /\ pc \in TempSteps /\ job.into # "backup" => rec.backupKnown
    /\ pc \in CleanSteps \cup {"persist"} /\ job.into # "backup" => store # Missing
    /\ pc \in TempSteps /\ job.into = "backup" /\ rec.dir = "FromRepo" =>
         pc \in {"check", "commit"} /\ store # Missing /\ art = NoArtifact
    /\ pc \in TempSteps /\ job.into = "backup" /\ rec.dir = "FromStore" /\ same =>
         repo \in Contents

(* Once both sides are known to agree, nothing but the copy can change.    *)
AgreedInv ==
  pc \in {"attach", "persist", "cleanbackup"} /\ rec # NoRecord /\ rec.op = "relink"
  /\ rec.phase \in {"ContentSynchronized", "OwnershipAttached"} =>
    /\ store = Winner(rec) /\ repo # Link
    /\ pc # "attach" => owner = "attached"

(* What a relink from the store backs up is what it will overwrite, but    *)
(* for what the user wrote meanwhile.                                      *)
SavedInv ==
  By("relink") /\ rec.dir = "FromStore" /\ repo \in Contents =>
    /\ \/ pc \in {"backup", "inspect"}
       \/ pc \in CleanSteps /\ job.into = "backup"
       \/ pc \in TempSteps /\ job.into = "repo"
       => repo \in {backup} \cup unsaved
    /\ pc \in {"check", "commit"} /\ job.into = "backup" /\ temp # Missing /\ temp.ours =>
         repo \in {temp.data} \cup unsaved

(* What a commit was allowed on the strength of still holds unless a user  *)
(* raced with it.                                                          *)
CommitInv ==
  /\ raced = "pending" => pc \in {"commit", "linktemp"}
  /\ pc \in {"commit", "linktemp"} /\ raced = "no" =>
       /\ Integrated
       /\ job.cmd = "sync" => AsRecorded
       /\ job.cmd = "repair" => repo \notin Contents
       /\ job.cmd = "materialize" =>
            IF job.strategy = "copy" THEN repo = Link ELSE repo = store
  /\ By("attach") /\ pc \in TempSteps => job.found = "Missing"

ControlInv ==
  /\ Typed /\ PlaceInv /\ TurnsInv /\ RecordInv /\ JournalInv /\ TempInv /\ BackupInv
  /\ RelinkInv /\ AgreedInv /\ SavedInv /\ CommitInv

(***************************************************************************)
(* Facts about a typed state                                               *)
(***************************************************************************)

(* The fields of the record on disk.                                       *)
LEMMA RecNow ==
  ASSUME Typed, rec # NoRecord
  PROVE  /\ rec \in GoodRecords
         /\ rec.op \in {"sync", "relink"}
         /\ rec.op = "sync" => rec.phase \in {"RecordCreated", "ContentSynchronized", "PostCommitValidated"}
         /\ rec.phase \in {"RecordCreated", "ExcludeWritten", "ContentSynchronized",
                           "OwnershipAttached", "PostCommitValidated"}
         /\ rec.dir \in {"FromStore", "FromRepo"}
         /\ rec.repoFp \in Contents /\ rec.storeFp \in Contents
         /\ rec.exclBefore \in BOOLEAN /\ rec.backupKnown \in BOOLEAN
         /\ Winner(rec) \in Contents /\ Loser(rec) \in Contents
         /\ Winner(rec) = IF rec.dir = "FromStore" THEN rec.storeFp ELSE rec.repoFp
         /\ Loser(rec) = IF rec.dir = "FromStore" THEN rec.repoFp ELSE rec.storeFp
         /\ rec.op = "sync" => rec.repoFp # rec.storeFp /\ rec.exclBefore
<1>1. rec \in GoodRecords
  BY DEF Typed
<1>2. rec.dir \in {"FromStore", "FromRepo"}
  BY <1>1, RecordFields DEF Directions
<1>3. rec.op \in {"sync", "relink"} /\ rec.phase \in CopyPhases(rec.op)
  BY <1>1, RecordFields
<1> QED BY <1>1, <1>2, <1>3, RecordFields, PhasesOf DEF Winner, Loser

(* The fields of the artifact record on disk.                              *)
LEMMA ArtNow ==
  ASSUME Typed, art # NoArtifact
  PROVE  /\ art \in GoodArtifacts
         /\ art = [side |-> art.side, created |-> art.created, verified |-> art.verified,
                   ours |-> art.ours]
         /\ art.side \in {"repo", "store"} /\ art.created \in BOOLEAN
         /\ art.verified \in BOOLEAN /\ art.ours \in BOOLEAN
         /\ art.verified => art.side = "repo"
<1>1. art \in GoodArtifacts
  BY DEF Typed
<1>2. art \in [side : {"repo", "store"}, created : BOOLEAN, verified : BOOLEAN, ours : BOOLEAN]
  BY <1>1, ArtifactFields
<1> QED BY <1>1, <1>2, ArtifactFields

(* The fields of the job of the process.                                   *)
LEMMA JobNow ==
  ASSUME Typed, job # NoJob
  PROVE  /\ job \in Jobs
         /\ job = [cmd |-> job.cmd, strategy |-> job.strategy, into |-> job.into, found |-> job.found]
         /\ job.cmd \in {"sync", "relink", "attach", "repair", "integrate", "materialize", "recover"}
         /\ job.strategy \in {"symlink", "copy"} /\ job.into \in {"repo", "store", "backup"}
         /\ job.found \in {"Missing", "Present"}
BY ParametersTyped DEF Typed, Jobs

(* The file at the path of the temp.                                       *)
LEMMA TempNow ==
  ASSUME Typed, temp # Missing
  PROVE  /\ temp = [data |-> temp.data, ours |-> temp.ours]
         /\ temp.data \in Contents \cup {Empty} /\ temp.ours \in BOOLEAN
BY DEF Typed

(* Row i is the one row of a phase ...                                     *)
OnlyRow(rows, phase, i) ==
  /\ i \in DOMAIN rows /\ rows[i].phase = phase
  /\ \A j \in DOMAIN rows : rows[j].phase = phase => j = i

(* ... and what row i and the row after it decide.                         *)
DecidedAt(rows, i, facts) ==
  IF rows[i].expected = facts THEN [kind |-> "perform", name |-> rows[i].action]
  ELSE IF i + 1 \in DOMAIN rows /\ rows[i + 1].expected = facts
  THEN [kind |-> "advance", to |-> rows[i + 1].phase]
  ELSE [kind |-> "conflict"]

(* The one row of a phase, and the row after it, decide.                   *)
LEMMA DecideAt ==
  ASSUME NEW rows, NEW phase, NEW facts, NEW i, OnlyRow(rows, phase, i)
  PROVE  DecideIn(rows, phase, facts) = DecidedAt(rows, i, facts)
<1> DEFINE here == {k \in DOMAIN rows : rows[k].phase = phase}
           Matches(k) == k \in DOMAIN rows /\ rows[k].expected = facts
<1>1. here = {i} /\ i \in DOMAIN rows
  BY DEF OnlyRow
<1>2. CASE Matches(i)
  <2>1. (CHOOSE k \in here : Matches(k)) = i
    BY <1>1, <1>2
  <2>2. \E k \in here : Matches(k)
    BY <1>1, <1>2
  <2> QED BY <1>2, <2>1, <2>2 DEF DecideIn, DecidedAt
<1>3. CASE ~Matches(i) /\ Matches(i + 1)
  <2>1. (CHOOSE k \in here : Matches(k + 1)) = i
    BY <1>1, <1>3
  <2>2. (\E k \in here : Matches(k + 1)) /\ ~(\E k \in here : Matches(k))
    BY <1>1, <1>3
  <2> QED BY <1>1, <1>3, <2>1, <2>2 DEF DecideIn, DecidedAt
<1>4. CASE ~Matches(i) /\ ~Matches(i + 1)
  BY <1>1, <1>4 DEF DecideIn, DecidedAt
<1> QED BY <1>2, <1>3, <1>4

(* The sync table as one expression.                                       *)
LEMMA SyncTable ==
  ASSUME NEW facts
  PROVE  /\ DecideIn(SyncRows, "RecordCreated", facts) =
              IF facts = <<"BeforeReplacement">>
              THEN [kind |-> "perform", name |-> "DeleteRecordOnly"]
              ELSE IF facts = <<"Synchronized">>
              THEN [kind |-> "advance", to |-> "ContentSynchronized"]
              ELSE [kind |-> "conflict"]
         /\ DecideIn(SyncRows, "ContentSynchronized", facts) =
              IF facts = <<"Synchronized">>
              THEN [kind |-> "perform", name |-> "VerifyPostconditionsAndComplete"]
              ELSE [kind |-> "conflict"]
<1>1. /\ DOMAIN SyncRows = 1..2
      /\ SyncRows[1] = Row("RecordCreated", <<"BeforeReplacement">>, "DeleteRecordOnly")
      /\ SyncRows[2] = Row("ContentSynchronized", <<"Synchronized">>, "VerifyPostconditionsAndComplete")
  BY DEF SyncRows
<1>2. /\ OnlyRow(SyncRows, "RecordCreated", 1)
      /\ OnlyRow(SyncRows, "ContentSynchronized", 2)
  BY <1>1 DEF OnlyRow, Row
<1>3. DecidedAt(SyncRows, 1, facts) =
        IF facts = <<"BeforeReplacement">>
        THEN [kind |-> "perform", name |-> "DeleteRecordOnly"]
        ELSE IF facts = <<"Synchronized">>
        THEN [kind |-> "advance", to |-> "ContentSynchronized"]
        ELSE [kind |-> "conflict"]
  BY <1>1 DEF DecidedAt, Row
<1>4. DecidedAt(SyncRows, 2, facts) =
        IF facts = <<"Synchronized">>
        THEN [kind |-> "perform", name |-> "VerifyPostconditionsAndComplete"]
        ELSE [kind |-> "conflict"]
  BY <1>1 DEF DecidedAt, Row
<1> QED BY <1>2, <1>3, <1>4, DecideAt

(* The relink table as one expression.                                     *)
LEMMA RelinkTable ==
  ASSUME NEW facts
  PROVE  /\ DecideIn(RelinkRows, "RecordCreated", facts) =
              IF facts = <<"BeforeDirectionBackupAbsent", "Detached", "BeforeState">>
              THEN [kind |-> "perform", name |-> "DeleteRecordOnly"]
              ELSE IF facts = <<"BeforeDirectionBackupAbsent", "Detached", "Present">>
              THEN [kind |-> "advance", to |-> "ExcludeWritten"]
              ELSE [kind |-> "conflict"]
         /\ DecideIn(RelinkRows, "ExcludeWritten", facts) =
              IF facts = <<"BeforeDirectionBackupAbsent", "Detached", "Present">>
              THEN [kind |-> "perform", name |-> "RemoveOperationOwnedExclude"]
              ELSE IF facts = <<"SynchronizedBackupPresent", "Detached", "Present">>
              THEN [kind |-> "advance", to |-> "ContentSynchronized"]
              ELSE [kind |-> "conflict"]
         /\ DecideIn(RelinkRows, "ContentSynchronized", facts) =
              IF facts = <<"SynchronizedBackupPresent", "Detached", "Present">>
              THEN [kind |-> "perform", name |-> "AttachOwnership"]
              ELSE IF facts = <<"SynchronizedBackupPresent", "Attached", "Present">>
              THEN [kind |-> "advance", to |-> "OwnershipAttached"]
              ELSE [kind |-> "conflict"]
         /\ DecideIn(RelinkRows, "OwnershipAttached", facts) =
              IF facts = <<"SynchronizedBackupPresent", "Attached", "Present">>
              THEN [kind |-> "perform", name |-> "DeleteBackupAndComplete"]
              ELSE [kind |-> "conflict"]
<1>1. /\ DOMAIN RelinkRows = 1..4
      /\ RelinkRows[1] = Row("RecordCreated",
           <<"BeforeDirectionBackupAbsent", "Detached", "BeforeState">>, "DeleteRecordOnly")
      /\ RelinkRows[2] = Row("ExcludeWritten",
           <<"BeforeDirectionBackupAbsent", "Detached", "Present">>, "RemoveOperationOwnedExclude")
      /\ RelinkRows[3] = Row("ContentSynchronized",
           <<"SynchronizedBackupPresent", "Detached", "Present">>, "AttachOwnership")
      /\ RelinkRows[4] = Row("OwnershipAttached",
           <<"SynchronizedBackupPresent", "Attached", "Present">>, "DeleteBackupAndComplete")
  BY DEF RelinkRows
<1>2. /\ OnlyRow(RelinkRows, "RecordCreated", 1)
      /\ OnlyRow(RelinkRows, "ExcludeWritten", 2)
      /\ OnlyRow(RelinkRows, "ContentSynchronized", 3)
      /\ OnlyRow(RelinkRows, "OwnershipAttached", 4)
  BY <1>1 DEF OnlyRow, Row
<1>3. DecidedAt(RelinkRows, 1, facts) =
        IF facts = <<"BeforeDirectionBackupAbsent", "Detached", "BeforeState">>
        THEN [kind |-> "perform", name |-> "DeleteRecordOnly"]
        ELSE IF facts = <<"BeforeDirectionBackupAbsent", "Detached", "Present">>
        THEN [kind |-> "advance", to |-> "ExcludeWritten"]
        ELSE [kind |-> "conflict"]
  BY <1>1 DEF DecidedAt, Row
<1>4. DecidedAt(RelinkRows, 2, facts) =
        IF facts = <<"BeforeDirectionBackupAbsent", "Detached", "Present">>
        THEN [kind |-> "perform", name |-> "RemoveOperationOwnedExclude"]
        ELSE IF facts = <<"SynchronizedBackupPresent", "Detached", "Present">>
        THEN [kind |-> "advance", to |-> "ContentSynchronized"]
        ELSE [kind |-> "conflict"]
  BY <1>1 DEF DecidedAt, Row
<1>5. DecidedAt(RelinkRows, 3, facts) =
        IF facts = <<"SynchronizedBackupPresent", "Detached", "Present">>
        THEN [kind |-> "perform", name |-> "AttachOwnership"]
        ELSE IF facts = <<"SynchronizedBackupPresent", "Attached", "Present">>
        THEN [kind |-> "advance", to |-> "OwnershipAttached"]
        ELSE [kind |-> "conflict"]
  BY <1>1 DEF DecidedAt, Row
<1>6. DecidedAt(RelinkRows, 4, facts) =
        IF facts = <<"SynchronizedBackupPresent", "Attached", "Present">>
        THEN [kind |-> "perform", name |-> "DeleteBackupAndComplete"]
        ELSE [kind |-> "conflict"]
  BY <1>1 DEF DecidedAt, Row
<1> QED BY <1>2, <1>3, <1>4, <1>5, <1>6, DecideAt

(***************************************************************************)
(* What recovery decides of the record on disk                             *)
(***************************************************************************)
Agreed == repo = Winner(rec) /\ store = Winner(rec)

Planned == AsRecorded /\ backup = Missing

Perform(action) == [kind |-> "perform", name |-> action]

Advance(phase) == [kind |-> "advance", to |-> phase]

Conflict == [kind |-> "conflict"]

(* A sync whose record is not final.                                       *)
LEMMA SyncDecided ==
  ASSUME Typed, rec # NoRecord, rec.op = "sync", rec.phase # "PostCommitValidated"
  PROVE  /\ rec.phase = "RecordCreated" =>
              CopyDecision = IF Integrated /\ AsRecorded THEN Perform("DeleteRecordOnly")
                             ELSE IF Integrated /\ Agreed THEN Advance("ContentSynchronized")
                             ELSE Conflict
         /\ rec.phase = "ContentSynchronized" =>
              CopyDecision = IF Integrated /\ Agreed
                             THEN Perform("VerifyPostconditionsAndComplete")
                             ELSE Conflict
<1>1. CopyDecision = DecideIn(SyncRows, rec.phase, SyncFacts)
  BY DEF CopyDecision, CopyFacts
<1>2. SyncFacts = IF Integrated /\ AsRecorded THEN <<"BeforeReplacement">>
                  ELSE IF Integrated /\ Agreed THEN <<"Synchronized">>
                  ELSE <<"Unexpected">>
  BY RecNow DEF SyncFacts, AsRecorded, Synchronized, Agreed
<1>3. ~(AsRecorded /\ Agreed)
  BY RecNow DEF AsRecorded, Agreed
<1>4. /\ <<"BeforeReplacement">> # <<"Synchronized">>
      /\ <<"Unexpected">> # <<"Synchronized">> /\ <<"Unexpected">> # <<"BeforeReplacement">>
  OBVIOUS
<1>5. rec.phase = "RecordCreated" =>
        CopyDecision = IF SyncFacts = <<"BeforeReplacement">> THEN Perform("DeleteRecordOnly")
                       ELSE IF SyncFacts = <<"Synchronized">> THEN Advance("ContentSynchronized")
                       ELSE Conflict
  BY <1>1, SyncTable DEF Perform, Advance, Conflict
<1>6. rec.phase = "ContentSynchronized" =>
        CopyDecision = IF SyncFacts = <<"Synchronized">>
                       THEN Perform("VerifyPostconditionsAndComplete") ELSE Conflict
  BY <1>1, SyncTable DEF Perform, Advance, Conflict
<1> QED BY <1>2, <1>3, <1>4, <1>5, <1>6

(* A relink whose record is not final.                                     *)
LEMMA RelinkDecided ==
  ASSUME Typed, rec # NoRecord, rec.op = "relink", rec.phase # "PostCommitValidated"
  PROVE  LET Saved == Agreed /\ backup = Loser(rec)
         IN  /\ rec.phase = "RecordCreated" =>
                  CopyDecision = IF Planned /\ owner = "detached"
                                 THEN IF excl THEN Advance("ExcludeWritten")
                                      ELSE Perform("DeleteRecordOnly")
                                 ELSE Conflict
             /\ rec.phase = "ExcludeWritten" =>
                  CopyDecision = IF Planned /\ owner = "detached" /\ excl
                                 THEN Perform("RemoveOperationOwnedExclude")
                                 ELSE IF Saved /\ owner = "detached" /\ excl
                                 THEN Advance("ContentSynchronized")
                                 ELSE Conflict
             /\ rec.phase = "ContentSynchronized" =>
                  CopyDecision = IF Saved /\ excl
                                 THEN IF owner = "attached" THEN Advance("OwnershipAttached")
                                      ELSE Perform("AttachOwnership")
                                 ELSE Conflict
             /\ rec.phase = "OwnershipAttached" =>
                  CopyDecision = IF Saved /\ owner = "attached" /\ excl
                                 THEN Perform("DeleteBackupAndComplete")
                                 ELSE Conflict
<1> DEFINE Saved == Agreed /\ backup = Loser(rec)
           content == IF Planned THEN "BeforeDirectionBackupAbsent"
                      ELSE IF Saved THEN "SynchronizedBackupPresent" ELSE "Unexpected"
           manifest == IF owner = "attached" THEN "Attached" ELSE "Detached"
           exclude == IF excl THEN "Present" ELSE "BeforeState"
<1>1. CopyDecision = DecideIn(RelinkRows, rec.phase, RelinkFacts)
  BY DEF CopyDecision, CopyFacts
<1>2. RelinkFacts = <<content, manifest, exclude>>
  BY DEF RelinkFacts, Agreed, Planned, AsRecorded
<1>3. ~(Planned /\ Saved)
  BY EntriesApart, RecNow DEF Planned
<1>4. content = "BeforeDirectionBackupAbsent" <=> Planned
  OBVIOUS
<1>5. content = "SynchronizedBackupPresent" <=> Saved
  BY <1>3
<1>6. /\ manifest = "Attached" <=> owner = "attached"
      /\ manifest = "Detached" <=> owner = "detached"
      /\ exclude = "Present" <=> excl
      /\ exclude = "BeforeState" <=> ~excl
  BY DEF Typed
<1>7. \A a, b, c : RelinkFacts = <<a, b, c>> <=> content = a /\ manifest = b /\ exclude = c
  BY <1>2
<1> HIDE DEF content, manifest, exclude, Saved
<1>8. rec.phase = "RecordCreated" =>
        CopyDecision = IF Planned /\ owner = "detached"
                       THEN IF excl THEN Advance("ExcludeWritten")
                            ELSE Perform("DeleteRecordOnly")
                       ELSE Conflict
  BY <1>1, <1>4, <1>6, <1>7, RelinkTable DEF Perform, Advance, Conflict
<1>9. rec.phase = "ExcludeWritten" =>
        CopyDecision = IF Planned /\ owner = "detached" /\ excl
                       THEN Perform("RemoveOperationOwnedExclude")
                       ELSE IF Saved /\ owner = "detached" /\ excl
                       THEN Advance("ContentSynchronized")
                       ELSE Conflict
  BY <1>1, <1>4, <1>5, <1>6, <1>7, RelinkTable DEF Perform, Advance, Conflict
<1>10. rec.phase = "ContentSynchronized" =>
         CopyDecision = IF Saved /\ excl
                        THEN IF owner = "attached" THEN Advance("OwnershipAttached")
                             ELSE Perform("AttachOwnership")
                        ELSE Conflict
  <2>1. owner \in {"attached", "detached"}
    BY DEF Typed
  <2> QED BY <2>1, <1>1, <1>5, <1>6, <1>7, RelinkTable DEF Perform, Advance, Conflict
<1>11. rec.phase = "OwnershipAttached" =>
         CopyDecision = IF Saved /\ owner = "attached" /\ excl
                        THEN Perform("DeleteBackupAndComplete")
                        ELSE Conflict
  BY <1>1, <1>5, <1>6, <1>7, RelinkTable DEF Perform, Advance, Conflict
<1> QED BY <1>8, <1>9, <1>10, <1>11 DEF Saved

(***************************************************************************)
(* How records and jobs change                                             *)
(***************************************************************************)

(* A record whose phase advances keeps the rest.                           *)
LEMMA Advanced ==
  ASSUME Typed, rec # NoRecord, NEW ph \in CopyPhases(rec.op), rec' = [rec EXCEPT !.phase = ph]
  PROVE  /\ rec' \in GoodRecords /\ rec' # NoRecord
         /\ rec'.op = rec.op /\ rec'.phase = ph /\ rec'.dir = rec.dir
         /\ rec'.repoFp = rec.repoFp /\ rec'.storeFp = rec.storeFp
         /\ rec'.exclBefore = rec.exclBefore /\ rec'.backupKnown = rec.backupKnown
         /\ Winner(rec') = Winner(rec) /\ Loser(rec') = Loser(rec)
<1>1. rec \in GoodRecords
  BY RecNow
<1>2. rec' \in GoodRecords /\ rec' # NoRecord
  BY <1>1, RecordFields
<1>3. rec = [op |-> rec.op, phase |-> rec.phase, dir |-> rec.dir, repoFp |-> rec.repoFp,
             storeFp |-> rec.storeFp, exclBefore |-> rec.exclBefore,
             backupKnown |-> rec.backupKnown]
  BY <1>1, RecordFields
<1> QED BY <1>2, <1>3 DEF Winner, Loser

(* And so does a record that comes to know its backup.                     *)
LEMMA Remembered ==
  ASSUME Typed, rec # NoRecord, rec' = [rec EXCEPT !.backupKnown = TRUE]
  PROVE  /\ rec' \in GoodRecords /\ rec' # NoRecord
         /\ rec'.op = rec.op /\ rec'.phase = rec.phase /\ rec'.dir = rec.dir
         /\ rec'.repoFp = rec.repoFp /\ rec'.storeFp = rec.storeFp
         /\ rec'.exclBefore = rec.exclBefore /\ rec'.backupKnown = TRUE
         /\ Winner(rec') = Winner(rec) /\ Loser(rec') = Loser(rec)
<1>1. rec \in GoodRecords
  BY RecNow
<1>2. rec' \in GoodRecords /\ rec' # NoRecord
  BY <1>1, RecordFields
<1>3. rec = [op |-> rec.op, phase |-> rec.phase, dir |-> rec.dir, repoFp |-> rec.repoFp,
             storeFp |-> rec.storeFp, exclBefore |-> rec.exclBefore,
             backupKnown |-> rec.backupKnown]
  BY <1>1, RecordFields
<1> QED BY <1>2, <1>3 DEF Winner, Loser

(* The phase after a phase.                                                *)
After(op, phase) ==
  CASE phase = "RecordCreated" /\ op = "sync" -> "ContentSynchronized"
    [] phase = "RecordCreated" /\ op # "sync" -> "ExcludeWritten"
    [] phase = "ExcludeWritten" -> "ContentSynchronized"
    [] phase = "ContentSynchronized" /\ op = "sync" -> "PostCommitValidated"
    [] phase = "ContentSynchronized" /\ op # "sync" -> "OwnershipAttached"
    [] phase = "OwnershipAttached" -> "PostCommitValidated"

(* The table of phases the code goes by agrees.                            *)
LEMMA AfterNow ==
  ASSUME Typed, rec # NoRecord, rec.phase # "PostCommitValidated"
  PROVE  /\ NextPhaseOf(rec) = After(rec.op, rec.phase)
         /\ NextPhaseOf(rec) \in CopyPhases(rec.op)
<1>1. rec.op \in {"sync", "relink"}
  BY RecNow
<1>2. rec.phase \in CopyPhases(rec.op)
  BY RecNow, RecordFields
<1> QED BY <1>1, <1>2, PhasesOf DEF NextPhaseOf, After

(* Every persisted phase is the next one.                                  *)
LEMMA Persisted ==
  ASSUME Typed, NEW then, Persist(then)
  PROVE  /\ rec # NoRecord /\ rec.phase # "PostCommitValidated"
         /\ pc = "persist" /\ job # NoJob
         /\ pc' = then
         /\ rec' \in GoodRecords /\ rec' # NoRecord
         /\ rec'.op = rec.op /\ rec'.phase = After(rec.op, rec.phase) /\ rec'.dir = rec.dir
         /\ rec'.repoFp = rec.repoFp /\ rec'.storeFp = rec.storeFp
         /\ rec'.exclBefore = rec.exclBefore /\ rec'.backupKnown = rec.backupKnown
         /\ Winner(rec') = Winner(rec) /\ Loser(rec') = Loser(rec)
         /\ UNCHANGED <<repo, store, backup, owner, excl, temp, tempExcl, linkTemp, art,
                        job, turns, same, tracked, acts, unsaved, raced>>
<1>1. /\ rec # NoRecord /\ rec.phase # "PostCommitValidated"
      /\ pc = "persist" /\ job # NoJob
      /\ pc' = then
      /\ rec' = [rec EXCEPT !.phase = NextPhaseOf(rec)]
      /\ UNCHANGED <<repo, store, backup, owner, excl, temp, tempExcl, linkTemp, art,
                     job, turns, same, tracked, acts, unsaved, raced>>
  BY DEF Persist, At, Goto, durable, journal, user
<1> QED BY <1>1, AfterNow, Advanced

(* A command that starts.                                                  *)
LEMMA Started ==
  ASSUME NEW cmd, NEW strategy \in {"symlink", "copy"}, NEW into \in {"repo", "store", "backup"},
         NEW step, Start(cmd, strategy, into, step)
  PROVE  /\ pc = "idle" /\ rec = NoRecord /\ art = NoArtifact
         /\ job' \in Jobs /\ job' # NoJob
         /\ job'.cmd = cmd /\ job'.strategy = strategy /\ job'.into = into
         /\ job'.found = IF repo = Missing THEN "Missing" ELSE "Present"
         /\ pc' = step /\ turns' = 0 /\ same' = TRUE
<1>1. job' \in Jobs
  BY DEF Start, Jobs
<1> QED BY <1>1, JobFields DEF Start

(* What one iteration of the loop of recovery does: it refuses, carries    *)
(* out the action of the recorded phase, or makes up for the one phase     *)
(* update that was lost.                                                   *)
LEMMA Decided ==
  ASSUME Typed, DecideRecord, rec.phase # "PostCommitValidated"
  PROVE  /\ pc = "decide" /\ job # NoJob /\ rec # NoRecord
         /\ UNCHANGED <<repo, store, backup, owner, excl, temp, tempExcl, linkTemp, art,
                        tracked, acts, unsaved, raced>>
         /\ \/ Exit /\ rec' = rec
            \/ /\ turns' = turns + 1 /\ job' = job /\ same' = same
               /\ \/ /\ rec' = rec
                     /\ \/ /\ pc' = "drop" /\ rec.phase = "RecordCreated"
                           /\ AsRecorded
                           /\ rec.op = "relink" => Planned /\ owner = "detached" /\ ~excl
                        \/ /\ pc' = "persist" /\ rec.phase = "ContentSynchronized"
                           /\ rec.op = "sync" /\ Agreed
                        \/ /\ pc' = "unexclude" /\ rec.phase = "ExcludeWritten"
                           /\ rec.op = "relink" /\ Planned /\ owner = "detached" /\ excl
                        \/ /\ pc' = "attach" /\ rec.phase = "ContentSynchronized"
                           /\ rec.op = "relink" /\ Agreed
                           /\ backup = Loser(rec) /\ owner = "detached" /\ excl
                        \/ /\ pc' = "cleanbackup" /\ rec.phase = "OwnershipAttached"
                           /\ rec.op = "relink" /\ Agreed
                           /\ backup = Loser(rec) /\ owner = "attached" /\ excl
                  \/ /\ pc' = pc
                     /\ rec' = [rec EXCEPT !.phase = After(rec.op, rec.phase)]
                     /\ After(rec.op, rec.phase) \in CopyPhases(rec.op)
                     /\ \/ rec.op = "sync" /\ rec.phase = "RecordCreated" /\ Agreed
                        \/ /\ rec.op = "relink" /\ rec.phase = "RecordCreated"
                           /\ Planned /\ owner = "detached" /\ excl
                        \/ /\ rec.op = "relink" /\ rec.phase = "ExcludeWritten"
                           /\ Agreed /\ backup = Loser(rec) /\ owner = "detached" /\ excl
                        \/ /\ rec.op = "relink" /\ rec.phase = "ContentSynchronized"
                           /\ Agreed /\ backup = Loser(rec) /\ owner = "attached" /\ excl
<1>1. /\ pc = "decide" /\ job # NoJob /\ rec # NoRecord
      /\ UNCHANGED <<repo, store, backup, owner, excl, temp, tempExcl, linkTemp, art,
                     tracked, acts, unsaved, raced>>
      /\ \/ Exit /\ rec' = rec
         \/ /\ CopyDecision.kind # "conflict"
            /\ turns' = turns + 1 /\ job' = job /\ same' = same
            /\ IF CopyDecision.kind = "perform"
               THEN pc' = StepOf(CopyDecision.name) /\ rec' = rec
               ELSE rec' = [rec EXCEPT !.phase = CopyDecision.to] /\ pc' = pc
  BY DEF DecideRecord, At, durable, journal, user
<1>2. CASE Exit /\ rec' = rec
  BY <1>1, <1>2
<1>3. ASSUME CopyDecision.kind # "conflict",
             turns' = turns + 1, job' = job, same' = same,
             IF CopyDecision.kind = "perform"
             THEN pc' = StepOf(CopyDecision.name) /\ rec' = rec
             ELSE rec' = [rec EXCEPT !.phase = CopyDecision.to] /\ pc' = pc
      PROVE  \/ /\ rec' = rec
                /\ \/ /\ pc' = "drop" /\ rec.phase = "RecordCreated"
                      /\ AsRecorded
                      /\ rec.op = "relink" => Planned /\ owner = "detached" /\ ~excl
                   \/ /\ pc' = "persist" /\ rec.phase = "ContentSynchronized"
                      /\ rec.op = "sync" /\ Agreed
                   \/ /\ pc' = "unexclude" /\ rec.phase = "ExcludeWritten"
                      /\ rec.op = "relink" /\ Planned /\ owner = "detached" /\ excl
                   \/ /\ pc' = "attach" /\ rec.phase = "ContentSynchronized"
                      /\ rec.op = "relink" /\ Agreed
                      /\ backup = Loser(rec) /\ owner = "detached" /\ excl
                   \/ /\ pc' = "cleanbackup" /\ rec.phase = "OwnershipAttached"
                      /\ rec.op = "relink" /\ Agreed
                      /\ backup = Loser(rec) /\ owner = "attached" /\ excl
             \/ /\ pc' = pc
                /\ rec' = [rec EXCEPT !.phase = After(rec.op, rec.phase)]
                /\ After(rec.op, rec.phase) \in CopyPhases(rec.op)
                /\ \/ rec.op = "sync" /\ rec.phase = "RecordCreated" /\ Agreed
                   \/ /\ rec.op = "relink" /\ rec.phase = "RecordCreated"
                      /\ Planned /\ owner = "detached" /\ excl
                   \/ /\ rec.op = "relink" /\ rec.phase = "ExcludeWritten"
                      /\ Agreed /\ backup = Loser(rec) /\ owner = "detached" /\ excl
                   \/ /\ rec.op = "relink" /\ rec.phase = "ContentSynchronized"
                      /\ Agreed /\ backup = Loser(rec) /\ owner = "attached" /\ excl
  <2>1. ASSUME NEW action PROVE Perform(action).kind = "perform" /\ Perform(action).name = action
    BY DEF Perform
  <2>2. ASSUME NEW phase PROVE Advance(phase).kind = "advance" /\ Advance(phase).to = phase
    BY DEF Advance
  <2>3. Conflict.kind = "conflict"
    BY DEF Conflict
  <2>4. After(rec.op, rec.phase) \in CopyPhases(rec.op)
    BY <1>1, AfterNow
  <2>5. owner \in {"attached", "detached"} /\ excl \in BOOLEAN
    BY DEF Typed
  <2>6. CASE rec.op = "sync"
    <3>1. rec.phase \in {"RecordCreated", "ContentSynchronized"}
      BY <1>1, <2>6, RecNow
    <3> QED BY <1>1, <1>3, <2>1, <2>2, <2>3, <2>4, <2>6, <3>1, SyncDecided DEF StepOf, After
  <2>7. CASE rec.op = "relink"
    <3>1. rec.phase \in {"RecordCreated", "ExcludeWritten", "ContentSynchronized", "OwnershipAttached"}
      BY <1>1, RecNow
    <3>2. Planned => AsRecorded
      BY DEF Planned
    <3> QED BY <1>1, <1>3, <2>1, <2>2, <2>3, <2>4, <2>5, <2>7, <3>1, <3>2, RelinkDecided
            DEF StepOf, After
  <2>8. rec.op \in {"sync", "relink"}
    BY <1>1, RecNow
  <2> QED BY <2>6, <2>7, <2>8
<1> QED BY <1>1, <1>2, <1>3

(* A process that goes on or ends.                                         *)
GoesOn == UNCHANGED <<job, turns, same>>

(* Either way the process keeps its type.                                  *)
LEMMA GoesOnOrEnds ==
  ASSUME Typed, Exit \/ GoesOn
  PROVE  job' \in Jobs \cup {NoJob} /\ turns' \in Nat /\ same' \in BOOLEAN
<1>1. CASE Exit
  BY <1>1 DEF Exit
<1>2. CASE GoesOn
  BY <1>2 DEF Typed, GoesOn
<1> QED BY <1>1, <1>2

(* Ranks, and how a phase that advances climbs them.                       *)
LEMMA Ranks ==
  ASSUME Typed, rec # NoRecord
  PROVE  /\ Rank(rec.phase) \in 0..4
         /\ rec.phase # "PostCommitValidated" =>
              Rank(After(rec.op, rec.phase)) \in Rank(rec.phase) + 1 .. 4
<1>1. rec.phase \in {"RecordCreated", "ExcludeWritten", "ContentSynchronized",
                     "OwnershipAttached", "PostCommitValidated"}
  BY RecNow
<1>2. rec.op \in {"sync", "relink"}
  BY RecNow
<1>3. CASE rec.phase = "RecordCreated"
  BY <1>2, <1>3 DEF Rank, After
<1>4. CASE rec.phase = "ExcludeWritten"
  BY <1>2, <1>4 DEF Rank, After
<1>5. CASE rec.phase = "ContentSynchronized"
  BY <1>2, <1>5 DEF Rank, After
<1>6. CASE rec.phase = "OwnershipAttached"
  BY <1>2, <1>6 DEF Rank, After
<1>7. CASE rec.phase = "PostCommitValidated"
  BY <1>2, <1>7 DEF Rank
<1> QED BY <1>1, <1>3, <1>4, <1>5, <1>6, <1>7

Kept == UNCHANGED <<repo, store, backup, owner, excl, temp, tempExcl, linkTemp, art,
                    tracked, acts, unsaved, raced>>

(* A loop that refuses a record leaves it as it is.                        *)
LEMMA DecideRefuses ==
  ASSUME ControlInv, pc = "decide", Exit, rec' = rec, Kept
  PROVE  ControlInv'
<1> USE DEF ControlInv, Kept, Exit
<1>1. Typed'
  BY DEF Typed, CopySteps
<1>2. PlaceInv'
  BY DEF PlaceInv, By
<1>3. TurnsInv'
  BY DEF TurnsInv, By
<1>4. RecordInv'
  BY DEF RecordInv, SyncRecord, RelinkRecord, RecoveryRecord, By, Working
<1>5. JournalInv'
  BY DEF JournalInv
<1>6. TempInv'
  BY DEF TempInv, Working, CleanSteps
<1>7. BackupInv'
  BY DEF BackupInv
<1>8. RelinkInv'
  BY DEF RelinkInv, By
<1>9. AgreedInv'
  BY DEF AgreedInv
<1>10. SavedInv'
  BY DEF SavedInv, By
<1>11. CommitInv'
  BY DEF CommitInv, By
<1> QED BY <1>1, <1>2, <1>3, <1>4, <1>5, <1>6, <1>7, <1>8, <1>9, <1>10, <1>11

(* A loop that turns once more stays within the bound, and of what it      *)
(* holds only the record and the step are different.                       *)
LEMMA DecideTurns ==
  ASSUME ControlInv, pc = "decide", job # NoJob, job.cmd = "recover", rec # NoRecord,
         rec' \in GoodRecords, rec'.op = rec.op,
         rec'.repoFp = rec.repoFp, rec'.storeFp = rec.storeFp,
         pc' \in RecordSteps, turns' = turns + 1, job' = job, same' = same, Kept
  PROVE  /\ rec' # NoRecord /\ Typed' /\ PlaceInv' /\ JournalInv' /\ TempInv' /\ RelinkInv'
         /\ SavedInv' /\ CommitInv'
         /\ SyncRecord' /\ RelinkRecord'
<1> USE DEF ControlInv, Kept
<1>0. rec' # NoRecord
  BY RecordsDistinct DEF GoodRecords
<1>1. Typed'
  BY DEF Typed, CopySteps, RecordSteps
<1>2. PlaceInv'
  BY DEF PlaceInv, By, RecordSteps
<1>3. JournalInv'
  BY DEF JournalInv
<1>4. TempInv'
  BY DEF TempInv, Working, CleanSteps, RecordSteps
<1>5. RelinkInv' /\ SavedInv'
  BY DEF RelinkInv, SavedInv, By
<1>6. CommitInv'
  BY DEF CommitInv, By, RecordSteps
<1>7. SyncRecord' /\ RelinkRecord'
  BY DEF SyncRecord, RelinkRecord, By
<1> QED BY <1>0, <1>1, <1>2, <1>3, <1>4, <1>5, <1>6, <1>7

(* Recovery that carries out the action of a phase.                        *)
LEMMA DecidePerforms ==
  ASSUME ControlInv, pc = "decide", job # NoJob, job.cmd = "recover", rec # NoRecord,
         rec.phase # "PostCommitValidated",
         rec' = rec, turns' = turns + 1, job' = job, same' = same, Kept,
         \/ /\ pc' = "drop" /\ rec.phase = "RecordCreated"
            /\ rec.op = "relink" => backup = Missing
         \/ /\ pc' = "persist" /\ rec.phase = "ContentSynchronized"
            /\ rec.op = "sync" /\ Agreed
         \/ /\ pc' = "unexclude" /\ rec.phase = "ExcludeWritten"
            /\ rec.op = "relink" /\ Planned
         \/ /\ pc' = "attach" /\ rec.phase = "ContentSynchronized"
            /\ rec.op = "relink" /\ Agreed
         \/ /\ pc' = "cleanbackup" /\ rec.phase = "OwnershipAttached"
            /\ rec.op = "relink" /\ Agreed /\ owner = "attached"
  PROVE  ControlInv'
<1> USE DEF ControlInv
<1>1. rec \in GoodRecords /\ pc' \in RecordSteps
  BY RecNow DEF RecordSteps
<1>2. /\ Typed' /\ PlaceInv' /\ JournalInv' /\ TempInv' /\ RelinkInv'
      /\ SavedInv' /\ CommitInv' /\ SyncRecord' /\ RelinkRecord'
  BY <1>1, DecideTurns
<1>3. TurnsInv'
  BY Ranks DEF TurnsInv, By, RecordSteps, Typed
<1>4. RecoveryRecord'
  BY DEF RecoveryRecord, By, RecordSteps
<1>5. RecordInv'
  BY <1>2, <1>4 DEF RecordInv, Working
<1>6. BackupInv'
  BY RecNow DEF BackupInv, Planned, Kept
<1>7. repo # Link \/ pc' \notin {"attach", "cleanbackup", "persist"}
  BY RecNow, EntriesApart DEF Agreed
<1>8. AgreedInv'
  BY <1>7 DEF AgreedInv, Agreed, Kept
<1> QED BY <1>2, <1>3, <1>5, <1>6, <1>8

(* Recovery that makes up for a lost phase update.                         *)
LEMMA DecideAdvances ==
  ASSUME ControlInv, pc = "decide", job # NoJob, job.cmd = "recover", rec # NoRecord,
         rec.phase # "PostCommitValidated",
         After(rec.op, rec.phase) \in CopyPhases(rec.op),
         rec' = [rec EXCEPT !.phase = After(rec.op, rec.phase)],
         turns' = turns + 1, job' = job, same' = same, pc' = pc, Kept,
         \/ rec.op = "sync" /\ rec.phase = "RecordCreated"
         \/ rec.op = "relink" /\ rec.phase = "RecordCreated" /\ backup = Missing
         \/ rec.op = "relink" /\ rec.phase = "ExcludeWritten" /\ store = Winner(rec)
         \/ rec.op = "relink" /\ rec.phase = "ContentSynchronized" /\ owner = "attached"
  PROVE  ControlInv'
<1> USE DEF ControlInv
<1>1. /\ rec' \in GoodRecords /\ rec' # NoRecord
      /\ rec'.op = rec.op /\ rec'.phase = After(rec.op, rec.phase) /\ rec'.dir = rec.dir
      /\ rec'.repoFp = rec.repoFp /\ rec'.storeFp = rec.storeFp
  BY Advanced
<1>2. /\ Typed' /\ PlaceInv' /\ JournalInv' /\ TempInv' /\ RelinkInv'
      /\ SavedInv' /\ CommitInv' /\ SyncRecord' /\ RelinkRecord'
  <2>1. pc' \in RecordSteps
    BY DEF RecordSteps
  <2> QED BY <1>1, <2>1, DecideTurns
<1>3. TurnsInv'
  <2>1. turns <= Rank(rec.phase)
    BY Ranks DEF TurnsInv, By, RecordSteps, Typed
  <2>2. turns' <= Rank(rec'.phase) /\ Rank(rec'.phase) \in 0..4 /\ turns' \in Nat
    BY <1>1, <2>1, Ranks DEF Typed
  <2> QED BY <1>1, <2>2 DEF TurnsInv, By, RecordSteps
<1>4. rec'.phase # "PostCommitValidated"
  BY <1>1 DEF After
<1>5. RecoveryRecord'
  BY <1>1, <1>4 DEF RecoveryRecord, By, RecordSteps
<1>6. RecordInv'
  BY <1>1, <1>2, <1>5 DEF RecordInv, Working
<1>7. BackupInv'
  BY <1>1, RecNow, EntriesApart DEF BackupInv, Kept, After
<1>8. AgreedInv'
  BY DEF AgreedInv
<1> QED BY <1>2, <1>3, <1>6, <1>7, <1>8

(* One iteration of the loop, whichever it is.                             *)
LEMMA DecideRecordKeeps ==
  ASSUME ControlInv, DecideRecord
  PROVE  ControlInv'
<1> USE DEF ControlInv
<1>1. /\ pc = "decide" /\ job # NoJob /\ job.cmd = "recover" /\ rec # NoRecord
      /\ rec.phase # "PostCommitValidated"
  BY JobNow DEF DecideRecord, At, PlaceInv, By, TempSteps, CleanSteps, RecordInv,
                RecoveryRecord, RecordSteps
<1>2. Kept
  BY <1>1, Decided DEF Kept
<1>3. CASE Exit /\ rec' = rec
  BY <1>1, <1>2, <1>3, DecideRefuses
<1>4. CASE /\ turns' = turns + 1 /\ job' = job /\ same' = same
           /\ rec' = rec
           /\ \/ /\ pc' = "drop" /\ rec.phase = "RecordCreated"
                 /\ rec.op = "relink" => backup = Missing
              \/ /\ pc' = "persist" /\ rec.phase = "ContentSynchronized"
                 /\ rec.op = "sync" /\ Agreed
              \/ /\ pc' = "unexclude" /\ rec.phase = "ExcludeWritten"
                 /\ rec.op = "relink" /\ Planned
              \/ /\ pc' = "attach" /\ rec.phase = "ContentSynchronized"
                 /\ rec.op = "relink" /\ Agreed
              \/ /\ pc' = "cleanbackup" /\ rec.phase = "OwnershipAttached"
                 /\ rec.op = "relink" /\ Agreed /\ owner = "attached"
  BY <1>1, <1>2, <1>4, DecidePerforms
<1>5. CASE /\ turns' = turns + 1 /\ job' = job /\ same' = same /\ pc' = pc
           /\ rec' = [rec EXCEPT !.phase = After(rec.op, rec.phase)]
           /\ After(rec.op, rec.phase) \in CopyPhases(rec.op)
           /\ \/ rec.op = "sync" /\ rec.phase = "RecordCreated"
              \/ rec.op = "relink" /\ rec.phase = "RecordCreated" /\ backup = Missing
              \/ rec.op = "relink" /\ rec.phase = "ExcludeWritten" /\ store = Winner(rec)
              \/ rec.op = "relink" /\ rec.phase = "ContentSynchronized" /\ owner = "attached"
  BY <1>1, <1>2, <1>5, DecideAdvances
<1> QED BY <1>1, <1>3, <1>4, <1>5, Decided DEF Planned, Agreed

(***************************************************************************)
(* Every step preserves the invariant                                      *)
(***************************************************************************)

(* sync starts on two contents that differ, with a record of both.         *)
LEMMA SyncBeginKeeps ==
  ASSUME ControlInv, NEW dir \in Directions, SyncBegin(dir)
  PROVE  ControlInv'
<1> USE DEF ControlInv
<1>1. /\ repo \in Contents /\ store \in Contents /\ repo # store
      /\ owner = "attached" /\ excl /\ ~tracked
  BY Kinds DEF Typed, SyncBegin, SyncState, SyncStoreIntact, CopyContent, Integrated
<1>2. /\ pc = "idle" /\ rec = NoRecord /\ art = NoArtifact
      /\ job' \in Jobs /\ job' # NoJob
      /\ job'.cmd = "sync" /\ job'.strategy = "copy"
      /\ job'.into = (IF dir = "FromStore" THEN "repo" ELSE "store")
      /\ job'.found = (IF repo = Missing THEN "Missing" ELSE "Present")
      /\ pc' = (IF dir = "FromStore" THEN "reserve" ELSE "inspect") /\ turns' = 0 /\ same' = TRUE
  BY Started DEF SyncBegin
<1>3. /\ rec' \in GoodRecords /\ rec' # NoRecord
      /\ rec'.op = "sync" /\ rec'.phase = "RecordCreated" /\ rec'.dir = dir
      /\ rec'.repoFp = repo /\ rec'.storeFp = store /\ rec'.exclBefore = excl
      /\ rec'.backupKnown = FALSE
  BY <1>1, NewRecord, RecordsDistinct, RecordFields DEF SyncBegin
<1>4. UNCHANGED <<repo, store, backup, owner, excl, temp, tempExcl, linkTemp, art,
           tracked, acts, unsaved, raced>>
  BY DEF SyncBegin, durable, journal, user
<1> USE DEF Directions
<1>5. PlaceInv'
  BY <1>1, <1>2, <1>3, <1>4 DEF PlaceInv, By, TempSteps, CleanSteps, RecordSteps
<1>6. RecordInv'
  BY <1>1, <1>2, <1>3, <1>4 DEF RecordInv, SyncRecord, RelinkRecord, RecoveryRecord,
     By, Working, TempSteps, CleanSteps, RecordSteps
<1>7. TempInv'
  BY <1>1, <1>2, <1>3, <1>4, EntriesApart, ArtNow, JobNow, TempNow DEF TempInv,
     JournalInv, Working, TempSteps, CleanSteps, PlaceInv, By, RecordSteps
<1>8. /\ Typed' /\ TurnsInv' /\ JournalInv' /\ BackupInv' /\ RelinkInv'
      /\ AgreedInv' /\ SavedInv' /\ CommitInv'
  BY <1>1, <1>2, <1>3, <1>4 DEF Typed, CopySteps, TurnsInv, By, JournalInv,
     BackupInv, RelinkInv, AgreedInv, SavedInv, CommitInv
<1> QED BY <1>5, <1>6, <1>7, <1>8

(* A directional relink starts on two contents that differ, the item still *)
(* detached.                                                               *)
LEMMA RelinkBeginKeeps ==
  ASSUME ControlInv, NEW dir \in Directions, RelinkBegin(dir)
  PROVE  ControlInv'
<1> USE DEF ControlInv
<1>1. /\ repo \in Contents /\ store \in Contents /\ repo # store
      /\ owner = "detached" /\ ~tracked /\ excl \in BOOLEAN
  BY Kinds DEF Typed, RelinkBegin, RelinkPlanned, DivergedCopy, CopyContent
<1>2. /\ pc = "idle" /\ rec = NoRecord /\ art = NoArtifact
      /\ job' \in Jobs /\ job' # NoJob
      /\ job'.cmd = "relink" /\ job'.strategy = "copy" /\ job'.into = "backup"
      /\ job'.found = (IF repo = Missing THEN "Missing" ELSE "Present")
      /\ pc' = "exclude" /\ turns' = 0 /\ same' = TRUE
  BY Started DEF RelinkBegin
<1>3. /\ rec' \in GoodRecords /\ rec' # NoRecord
      /\ rec'.op = "relink" /\ rec'.phase = "RecordCreated" /\ rec'.dir = dir
      /\ rec'.repoFp = repo /\ rec'.storeFp = store /\ rec'.exclBefore = excl
      /\ rec'.backupKnown = FALSE
  BY <1>1, NewRecord, RecordsDistinct, RecordFields DEF RelinkBegin
<1>4. UNCHANGED <<repo, store, backup, owner, excl, temp, tempExcl, linkTemp, art,
           tracked, acts, unsaved, raced>>
  BY DEF RelinkBegin, durable, journal, user
<1> USE DEF Directions
<1>5. RecordInv'
  BY <1>1, <1>2, <1>3, <1>4, EntriesApart DEF RecordInv, SyncRecord, RelinkRecord,
     RecoveryRecord, By, Working, TempSteps, CleanSteps, RecordSteps
<1>6. TempInv'
  BY <1>1, <1>2, <1>3, <1>4, EntriesApart, ArtNow, JobNow, TempNow DEF TempInv,
     JournalInv, Working, TempSteps, CleanSteps, PlaceInv, By, RecordSteps
<1>7. RelinkInv'
  BY <1>1, <1>2, <1>3, <1>4 DEF RelinkInv, By, TempSteps, CleanSteps, RecordSteps
<1>8. SavedInv'
  BY <1>1, <1>2, <1>3, <1>4 DEF SavedInv, By, TempSteps, CleanSteps, RecordSteps
<1>9. /\ Typed' /\ PlaceInv' /\ TurnsInv' /\ JournalInv' /\ BackupInv'
      /\ AgreedInv' /\ CommitInv'
  BY <1>1, <1>2, <1>3, <1>4 DEF Typed, CopySteps, PlaceInv, By, TurnsInv, JournalInv,
     BackupInv, AgreedInv, CommitInv
<1> QED BY <1>5, <1>6, <1>7, <1>8, <1>9

(* relink without a direction only attaches: it writes no record.          *)
LEMMA AttachBeginKeeps ==
  ASSUME ControlInv, NEW strategy \in {"symlink", "copy"}, AttachBegin(strategy)
  PROVE  ControlInv'
<1> USE DEF ControlInv
<1>1. /\ pc = "idle" /\ rec = NoRecord /\ art = NoArtifact
      /\ job' \in Jobs /\ job' # NoJob
      /\ job'.cmd = "attach" /\ job'.strategy = strategy /\ job'.into = "repo"
      /\ job'.found = (IF repo = Missing THEN "Missing" ELSE "Present")
      /\ pc' = "exclude" /\ turns' = 0 /\ same' = TRUE
  BY Started DEF AttachBegin
<1>2. repo = Missing \/ Healthy
  BY DEF AttachBegin
<1>3. UNCHANGED <<repo, store, backup, owner, excl, temp, tempExcl, linkTemp, art,
           rec, tracked, acts, unsaved, raced>>
  BY DEF AttachBegin, durable, journal, user
<1>4. TempInv'
  BY <1>1, <1>2, <1>3, EntriesApart, ArtNow, JobNow, TempNow DEF TempInv, JournalInv,
     Working, TempSteps, CleanSteps, PlaceInv, By, RecordSteps
<1>5. CommitInv'
  BY <1>1, <1>2, <1>3 DEF CommitInv, By, TempSteps, CleanSteps, RecordSteps
<1>6. /\ Typed' /\ PlaceInv' /\ TurnsInv' /\ RecordInv' /\ JournalInv'
      /\ BackupInv' /\ RelinkInv' /\ AgreedInv' /\ SavedInv'
  BY <1>1, <1>2, <1>3 DEF Typed, CopySteps, PlaceInv, By, TurnsInv, RecordInv,
     SyncRecord, RelinkRecord, RecoveryRecord, Working, JournalInv, BackupInv,
     RelinkInv, AgreedInv, SavedInv
<1> QED BY <1>4, <1>5, <1>6

(* repair of an item starts at the temp of its strategy.                   *)
LEMMA RepairBeginKeeps ==
  ASSUME ControlInv, NEW strategy \in {"symlink", "copy"}, NEW force \in BOOLEAN,
         RepairBegin(strategy, force)
  PROVE  ControlInv'
<1> USE DEF ControlInv
<1>1. /\ pc = "idle" /\ rec = NoRecord /\ art = NoArtifact
      /\ job' \in Jobs /\ job' # NoJob
      /\ job'.cmd = "repair" /\ job'.strategy = strategy /\ job'.into = "repo"
      /\ job'.found = (IF repo = Missing THEN "Missing" ELSE "Present")
      /\ pc' = FirstStep(strategy) /\ turns' = 0 /\ same' = TRUE
  BY Started DEF RepairBegin
<1>2. UNCHANGED <<repo, store, backup, owner, excl, temp, tempExcl, linkTemp, art,
           rec, tracked, acts, unsaved, raced>>
  BY DEF RepairBegin, durable, journal, user
<1>3. FirstStep(strategy) = (IF strategy = "copy" THEN "reserve" ELSE "check")
  BY DEF FirstStep
<1>4. PlaceInv'
  BY <1>1, <1>2, <1>3 DEF PlaceInv, By, TempSteps, CleanSteps, RecordSteps
<1>5. TempInv'
  BY <1>1, <1>2, <1>3, EntriesApart, ArtNow, JobNow, TempNow DEF TempInv, JournalInv,
     Working, TempSteps, CleanSteps, PlaceInv, By, RecordSteps
<1>6. /\ Typed' /\ TurnsInv' /\ RecordInv' /\ JournalInv' /\ BackupInv'
      /\ RelinkInv' /\ AgreedInv' /\ SavedInv' /\ CommitInv'
  BY <1>1, <1>2, <1>3 DEF Typed, CopySteps, TurnsInv, By, RecordInv, SyncRecord,
     RelinkRecord, RecoveryRecord, Working, JournalInv, BackupInv, RelinkInv,
     AgreedInv, SavedInv, CommitInv
<1> QED BY <1>4, <1>5, <1>6

(* repair of a whole checkout writes the excludes and nothing else.        *)
LEMMA RepoRepairBeginKeeps ==
  ASSUME ControlInv, NEW strategy \in {"symlink", "copy"}, NEW force \in BOOLEAN,
         RepoRepairBegin(strategy, force)
  PROVE  ControlInv'
<1> USE DEF ControlInv
<1>1. /\ pc = "idle" /\ rec = NoRecord /\ art = NoArtifact
      /\ job' \in Jobs /\ job' # NoJob
      /\ job'.cmd \in {"repair",
                 "integrate"} /\ job'.strategy = strategy /\ job'.into = "repo"
      /\ job'.found = (IF repo = Missing THEN "Missing" ELSE "Present")
      /\ pc' = "exclude" /\ turns' = 0 /\ same' = TRUE
  BY Started DEF RepoRepairBegin
<1>2. UNCHANGED <<repo, store, backup, owner, excl, temp, tempExcl, linkTemp, art,
           rec, tracked, acts, unsaved, raced>>
  BY DEF RepoRepairBegin, durable, journal, user
<1>3. TempInv'
  BY <1>1, <1>2, EntriesApart, ArtNow, JobNow, TempNow DEF TempInv, JournalInv,
     Working, TempSteps, CleanSteps, PlaceInv, By, RecordSteps
<1>4. /\ Typed' /\ PlaceInv' /\ TurnsInv' /\ RecordInv' /\ JournalInv'
      /\ BackupInv' /\ RelinkInv' /\ AgreedInv' /\ SavedInv' /\ CommitInv'
  BY <1>1, <1>2 DEF Typed, CopySteps, PlaceInv, By, TurnsInv, RecordInv, SyncRecord,
     RelinkRecord, RecoveryRecord, Working, JournalInv, BackupInv, RelinkInv,
     AgreedInv, SavedInv, CommitInv
<1> QED BY <1>3, <1>4

(* materialize starts at the temp of its strategy.                         *)
LEMMA MaterializeBeginKeeps ==
  ASSUME ControlInv, NEW strategy \in {"symlink", "copy"}, MaterializeBegin(strategy)
  PROVE  ControlInv'
<1> USE DEF ControlInv
<1>1. /\ pc = "idle" /\ rec = NoRecord /\ art = NoArtifact
      /\ job' \in Jobs /\ job' # NoJob
      /\ job'.cmd = "materialize" /\ job'.strategy = strategy /\ job'.into = "repo"
      /\ job'.found = (IF repo = Missing THEN "Missing" ELSE "Present")
      /\ pc' = FirstStep(strategy) /\ turns' = 0 /\ same' = TRUE
  BY Started DEF MaterializeBegin
<1>2. UNCHANGED <<repo, store, backup, owner, excl, temp, tempExcl, linkTemp, art,
           rec, tracked, acts, unsaved, raced>>
  BY DEF MaterializeBegin, durable, journal, user
<1>3. FirstStep(strategy) = (IF strategy = "copy" THEN "reserve" ELSE "check")
  BY DEF FirstStep
<1>4. PlaceInv'
  BY <1>1, <1>2, <1>3 DEF PlaceInv, By, TempSteps, CleanSteps, RecordSteps
<1>5. TempInv'
  BY <1>1, <1>2, <1>3, EntriesApart, ArtNow, JobNow, TempNow DEF TempInv, JournalInv,
     Working, TempSteps, CleanSteps, PlaceInv, By, RecordSteps
<1>6. /\ Typed' /\ TurnsInv' /\ RecordInv' /\ JournalInv' /\ BackupInv'
      /\ RelinkInv' /\ AgreedInv' /\ SavedInv' /\ CommitInv'
  BY <1>1, <1>2, <1>3 DEF Typed, CopySteps, TurnsInv, By, RecordInv, SyncRecord,
     RelinkRecord, RecoveryRecord, Working, JournalInv, BackupInv, RelinkInv,
     AgreedInv, SavedInv, CommitInv
<1> QED BY <1>4, <1>5, <1>6

(* The next command finds the journal and the record, or nothing to        *)
(* recover.                                                                *)
LEMMA BeginRecoveryKeeps ==
  ASSUME ControlInv, BeginRecovery
  PROVE  ControlInv'
<1> USE DEF ControlInv
<1>1. /\ job' \in Jobs /\ job' # NoJob /\ job'.cmd = "recover"
      /\ pc = "idle" /\ pc' = "recover" /\ turns' = 0 /\ same' = TRUE
      /\ (rec # NoRecord \/ art # NoArtifact)
  BY JobFields DEF BeginRecovery, Jobs
<1>2. UNCHANGED <<repo, store, backup, owner, excl, temp, tempExcl, linkTemp, art,
           rec, tracked, acts, unsaved, raced>>
  BY DEF BeginRecovery, durable, journal, user
<1>3. TurnsInv'
  BY <1>1, <1>2, RecNow, JobNow DEF TurnsInv, By, RecordSteps, Rank
<1>4. RecordInv'
  BY <1>1, <1>2 DEF RecordInv, SyncRecord, RelinkRecord, RecoveryRecord, By, Working,
     TempSteps, CleanSteps, RecordSteps
<1>5. TempInv'
  BY <1>1, <1>2 DEF TempInv, Working, TempSteps, CleanSteps, RecordSteps
<1>6. /\ Typed' /\ PlaceInv' /\ JournalInv' /\ BackupInv' /\ RelinkInv'
      /\ AgreedInv' /\ SavedInv' /\ CommitInv'
  BY <1>1, <1>2 DEF Typed, CopySteps, PlaceInv, By, JournalInv, BackupInv, RelinkInv,
     AgreedInv, SavedInv, CommitInv
<1> QED BY <1>3, <1>4, <1>5, <1>6

(* The journal knows the temp before there is one.                         *)
LEMMA ReserveKeeps ==
  ASSUME ControlInv, Reserve
  PROVE  ControlInv'
<1> USE DEF ControlInv
<1>1. /\ art' \in GoodArtifacts /\ art' # NoArtifact
      /\ art'.side = Side /\ ~art'.created /\ ~art'.verified /\ art'.ours
      /\ Side \in {"repo", "store"}
  BY ArtifactFields DEF Reserve, Side
<1>2. /\ pc = "reserve" /\ job # NoJob /\ Preparable
      /\ pc' = (IF Side = "repo" THEN "tempexclude" ELSE "create")
      /\ UNCHANGED <<repo, store, backup, owner, excl, temp, tempExcl, linkTemp, rec,
                 job, turns, same, tracked, acts, unsaved, raced>>
  BY DEF Reserve, At, Goto, durable, user
<1> USE DEF Preparable, Source, AsFound
<1>3. PlaceInv'
  BY <1>1, <1>2 DEF PlaceInv, By, TempSteps, CleanSteps, RecordSteps
<1>4. TurnsInv'
  BY <1>1, <1>2 DEF TurnsInv, By, TempSteps, CleanSteps, RecordSteps
<1>5. RecordInv'
  BY <1>1, <1>2 DEF RecordInv, SyncRecord, RelinkRecord, RecoveryRecord, By, Working,
     TempSteps, CleanSteps, RecordSteps
<1>6. JournalInv'
  BY <1>1, <1>2, EntriesApart, ArtNow, JobNow, TempNow DEF JournalInv, TempInv,
     Working, PlaceInv, By, TempSteps, CleanSteps, RecordSteps
<1>7. TempInv'
  BY <1>1, <1>2, EntriesApart, ArtNow, JobNow, TempNow DEF TempInv, JournalInv,
     Working, TempSteps, CleanSteps, PlaceInv, By, RecordSteps
<1>8. RelinkInv'
  BY <1>1, <1>2, EntriesApart, RecNow, JobNow, TempNow, Kinds DEF RelinkInv,
     RecordInv, RelinkRecord, By, TempSteps, CleanSteps
<1>9. SavedInv'
  BY <1>1, <1>2 DEF SavedInv, By, TempSteps, CleanSteps, RecordSteps
<1>10. CommitInv'
  BY <1>1, <1>2 DEF CommitInv, By, TempSteps, CleanSteps, RecordSteps
<1>11. Typed' /\ BackupInv' /\ AgreedInv'
  BY <1>1, <1>2 DEF Typed, CopySteps, BackupInv, AgreedInv
<1> QED BY <1>3, <1>4, <1>5, <1>6, <1>7, <1>8, <1>9, <1>10, <1>11

(* The temp is excluded before it exists.                                  *)
LEMMA ExcludeTempKeeps ==
  ASSUME ControlInv, ExcludeTemp
  PROVE  ControlInv'
<1> USE DEF ControlInv, ExcludeTemp, At, Goto, durable, user
<1>1. PlaceInv'
  BY  DEF PlaceInv, By, TempSteps, CleanSteps, RecordSteps
<1>2. TurnsInv'
  BY  DEF TurnsInv, By, TempSteps, CleanSteps, RecordSteps
<1>3. RecordInv'
  BY  DEF RecordInv, SyncRecord, RelinkRecord, RecoveryRecord, By, Working,
     TempSteps, CleanSteps, RecordSteps
<1>4. JournalInv'
  BY EntriesApart, ArtNow, JobNow, TempNow DEF JournalInv, TempInv, Working,
     PlaceInv, By, TempSteps, CleanSteps, RecordSteps
<1>5. TempInv'
  BY  DEF TempInv, Working, TempSteps, CleanSteps, RecordSteps
<1>6. RelinkInv'
  BY  DEF RelinkInv, By, TempSteps, CleanSteps, RecordSteps
<1>7. SavedInv'
  BY  DEF SavedInv, By, TempSteps, CleanSteps, RecordSteps
<1>8. CommitInv'
  BY  DEF CommitInv, By, TempSteps, CleanSteps, RecordSteps
<1>9. Typed' /\ BackupInv' /\ AgreedInv'
  BY  DEF Typed, CopySteps, BackupInv, AgreedInv
<1> QED BY <1>1, <1>2, <1>3, <1>4, <1>5, <1>6, <1>7, <1>8, <1>9

(* The journal notes that git ignores the temp, or the command stops.      *)
LEMMA VerifyTempExcludeKeeps ==
  ASSUME ControlInv, VerifyTempExclude
  PROVE  ControlInv'
<1> USE DEF ControlInv
<1>1. /\ pc = "verify" /\ job # NoJob /\ art # NoArtifact /\ tempExcl
      /\ pc' = "create"
      /\ art' = [art EXCEPT !.verified = TRUE]
      /\ UNCHANGED <<repo, store, backup, owner, excl, temp, tempExcl, linkTemp, rec,
                 job, turns, same, tracked, acts, unsaved, raced>>
  BY DEF VerifyTempExclude, At, Goto, durable, user
<1>2. job.cmd # "recover" /\ art.side = "repo"
  BY <1>1, JobNow DEF TempInv, Working, PlaceInv, By, CleanSteps, RecordSteps
<1>3. /\ art' \in GoodArtifacts /\ art' # NoArtifact
      /\ art'.side = art.side /\ art'.created = art.created /\ art'.ours = art.ours
      /\ art'.verified
  BY <1>1, <1>2, ArtNow, ArtifactFields
<1>4. PlaceInv'
  BY <1>1, <1>2, <1>3 DEF PlaceInv, By, TempSteps, CleanSteps, RecordSteps
<1>5. RecordInv'
  BY <1>1, <1>2, <1>3 DEF RecordInv, SyncRecord, RelinkRecord, RecoveryRecord, By,
     Working, TempSteps, CleanSteps, RecordSteps
<1>6. TempInv'
  BY <1>1, <1>2, <1>3 DEF TempInv, Working, TempSteps, CleanSteps, RecordSteps
<1>7. RelinkInv'
  BY <1>1, <1>2, <1>3 DEF RelinkInv, By, TempSteps, CleanSteps, RecordSteps
<1>8. SavedInv'
  BY <1>1, <1>2, <1>3 DEF SavedInv, By, TempSteps, CleanSteps, RecordSteps
<1>9. CommitInv'
  BY <1>1, <1>2, <1>3 DEF CommitInv, By, TempSteps, CleanSteps, RecordSteps
<1>10. Typed' /\ TurnsInv' /\ JournalInv' /\ BackupInv' /\ AgreedInv'
  BY <1>1, <1>2, <1>3 DEF Typed, CopySteps, TurnsInv, By, JournalInv, BackupInv,
     AgreedInv
<1> QED BY <1>4, <1>5, <1>6, <1>7, <1>8, <1>9, <1>10

(* The temp is created empty, or something is in its place and the command *)
(* stops.                                                                  *)
LEMMA CreateTempKeeps ==
  ASSUME ControlInv, CreateTemp
  PROVE  ControlInv'
<1> USE DEF ControlInv
<1>1. /\ pc = "create" /\ job # NoJob /\ temp = Missing
      /\ pc' = "identify"
      /\ temp' = [data |-> Empty, ours |-> TRUE]
      /\ UNCHANGED <<repo, store, backup, owner, excl, tempExcl, linkTemp, art, rec,
                 job, turns, same, tracked, acts, unsaved, raced>>
  BY DEF CreateTemp, At, Goto, durable, user
<1>2. /\ temp' # Missing => temp'.data = Empty
      /\ temp' \in [data : Contents \cup {Empty}, ours : BOOLEAN]
  BY <1>1
<1>3. PlaceInv'
  BY <1>1, <1>2 DEF PlaceInv, By, TempSteps, CleanSteps, RecordSteps
<1>4. TurnsInv'
  BY <1>1, <1>2 DEF TurnsInv, By, TempSteps, CleanSteps, RecordSteps
<1>5. RecordInv'
  BY <1>1, <1>2 DEF RecordInv, SyncRecord, RelinkRecord, RecoveryRecord, By, Working,
     TempSteps, CleanSteps, RecordSteps
<1>6. JournalInv'
  BY <1>1, <1>2, EntriesApart, ArtNow, JobNow, TempNow DEF JournalInv, TempInv,
     Working, PlaceInv, By, TempSteps, CleanSteps, RecordSteps
<1>7. TempInv'
  BY <1>1, <1>2 DEF TempInv, Working, TempSteps, CleanSteps, RecordSteps
<1>8. RelinkInv'
  BY <1>1, <1>2 DEF RelinkInv, By, TempSteps, CleanSteps, RecordSteps
<1>9. SavedInv'
  BY <1>1, <1>2 DEF SavedInv, By, TempSteps, CleanSteps, RecordSteps
<1>10. CommitInv'
  BY <1>1, <1>2 DEF CommitInv, By, TempSteps, CleanSteps, RecordSteps
<1>11. Typed' /\ BackupInv' /\ AgreedInv'
  BY <1>1, <1>2 DEF Typed, CopySteps, BackupInv, AgreedInv
<1> QED BY <1>3, <1>4, <1>5, <1>6, <1>7, <1>8, <1>9, <1>10, <1>11

(* The journal notes the identity of what lies at the temp's path.         *)
LEMMA IdentifyTempKeeps ==
  ASSUME ControlInv, IdentifyTemp
  PROVE  ControlInv'
<1> USE DEF ControlInv
<1>1. /\ pc = "identify" /\ job # NoJob /\ art # NoArtifact /\ temp # Missing
      /\ pc' = "populate"
      /\ art' = [art EXCEPT !.created = TRUE, !.ours = temp.ours]
      /\ UNCHANGED <<repo, store, backup, owner, excl, temp, tempExcl, linkTemp, rec,
                 job, turns, same, tracked, acts, unsaved, raced>>
  BY DEF IdentifyTemp, Identified, At, Goto, durable, user
<1>2. /\ art' \in GoodArtifacts /\ art' # NoArtifact
      /\ art'.side = art.side /\ art'.created /\ art'.ours = temp.ours
      /\ art'.verified = art.verified
  BY <1>1, ArtNow, TempNow, ArtifactFields
<1>3. PlaceInv'
  BY <1>1, <1>2 DEF PlaceInv, By, TempSteps, CleanSteps, RecordSteps
<1>4. TurnsInv'
  BY <1>1, <1>2 DEF TurnsInv, By, TempSteps, CleanSteps, RecordSteps
<1>5. RecordInv'
  BY <1>1, <1>2 DEF RecordInv, SyncRecord, RelinkRecord, RecoveryRecord, By, Working,
     TempSteps, CleanSteps, RecordSteps
<1>6. TempInv'
  BY <1>1, <1>2, EntriesApart, ArtNow, JobNow, TempNow DEF TempInv, JournalInv,
     Working, TempSteps, CleanSteps, PlaceInv, By, RecordSteps
<1>7. RelinkInv'
  BY <1>1, <1>2 DEF RelinkInv, By, TempSteps, CleanSteps, RecordSteps
<1>8. SavedInv'
  BY <1>1, <1>2 DEF SavedInv, By, TempSteps, CleanSteps, RecordSteps
<1>9. CommitInv'
  BY <1>1, <1>2 DEF CommitInv, By, TempSteps, CleanSteps, RecordSteps
<1>10. Typed' /\ JournalInv' /\ BackupInv' /\ AgreedInv'
  BY <1>1, <1>2 DEF Typed, CopySteps, JournalInv, BackupInv, AgreedInv
<1> QED BY <1>3, <1>4, <1>5, <1>6, <1>7, <1>8, <1>9, <1>10

(* The temp takes the content of the side that is copied.                  *)
LEMMA PopulateTempKeeps ==
  ASSUME ControlInv, PopulateTemp
  PROVE  ControlInv'
<1> USE DEF ControlInv
<1>1. /\ pc = "populate" /\ job # NoJob /\ temp # Missing /\ temp.ours
      /\ pc' = "check" /\ Source \in Contents
      /\ temp' = [temp EXCEPT !.data = Source]
      /\ UNCHANGED <<repo, store, backup, owner, excl, tempExcl, linkTemp, art, rec,
                 job, turns, same, tracked, acts, unsaved, raced>>
  BY DEF PopulateTemp, At, Goto, durable, user
<1>2. /\ temp'.data = Source /\ temp'.ours = temp.ours
      /\ temp' \in [data : Contents \cup {Empty}, ours : BOOLEAN]
  BY <1>1, TempNow
<1> USE DEF Source
<1>3. PlaceInv'
  BY <1>1, <1>2 DEF PlaceInv, By, TempSteps, CleanSteps, RecordSteps
<1>4. TurnsInv'
  BY <1>1, <1>2 DEF TurnsInv, By, TempSteps, CleanSteps, RecordSteps
<1>5. RecordInv'
  BY <1>1, <1>2 DEF RecordInv, SyncRecord, RelinkRecord, RecoveryRecord, By, Working,
     TempSteps, CleanSteps, RecordSteps
<1>6. JournalInv'
  BY <1>1, <1>2, EntriesApart, ArtNow, JobNow, TempNow DEF JournalInv, TempInv,
     Working, PlaceInv, By, TempSteps, CleanSteps, RecordSteps
<1>7. TempInv'
  BY <1>1, <1>2 DEF TempInv, Working, TempSteps, CleanSteps, RecordSteps
<1>8. RelinkInv'
  BY <1>1, <1>2 DEF RelinkInv, By, TempSteps, CleanSteps, RecordSteps
<1>9. SavedInv'
  BY <1>1, <1>2 DEF SavedInv, By, TempSteps, CleanSteps, RecordSteps
<1>10. CommitInv'
  BY <1>1, <1>2 DEF CommitInv, By, TempSteps, CleanSteps, RecordSteps
<1>11. Typed' /\ BackupInv' /\ AgreedInv'
  BY <1>1, <1>2 DEF Typed, CopySteps, BackupInv, AgreedInv
<1> QED BY <1>3, <1>4, <1>5, <1>6, <1>7, <1>8, <1>9, <1>10, <1>11

(* The temp is removed, unless it is not the one the journal knows.        *)
LEMMA CleanTempFileKeeps ==
  ASSUME ControlInv, CleanTempFile
  PROVE  ControlInv'
<1> USE DEF ControlInv
<1>1. /\ pc = "cleanfile" /\ job # NoJob /\ art # NoArtifact
      /\ \/ ArtifactConflict /\ Exit /\ temp' = temp
         \/ ~ArtifactConflict /\ GoesOn /\ pc' = "cleanexclude" /\ temp' = Missing
      /\ UNCHANGED <<repo, store, backup, owner, excl, tempExcl, linkTemp, art, rec,
                 tracked, acts, unsaved, raced>>
  BY DEF CleanTempFile, At, Goto, durable, user, GoesOn
<1>2. job' \in Jobs \cup {NoJob} /\ turns' \in Nat /\ same' \in BOOLEAN
  BY <1>1, GoesOnOrEnds
<1> USE DEF GoesOn, Exit
<1>3. PlaceInv'
  BY <1>1, <1>2 DEF PlaceInv, By, TempSteps, CleanSteps, RecordSteps
<1>4. TurnsInv'
  BY <1>1, <1>2 DEF TurnsInv, By, TempSteps, CleanSteps, RecordSteps
<1>5. RecordInv'
  BY <1>1, <1>2 DEF RecordInv, SyncRecord, RelinkRecord, RecoveryRecord, By, Working,
     TempSteps, CleanSteps, RecordSteps
<1>6. TempInv'
  BY <1>1, <1>2 DEF TempInv, Working, TempSteps, CleanSteps, RecordSteps
<1>7. RelinkInv'
  BY <1>1, <1>2 DEF RelinkInv, By, TempSteps, CleanSteps, RecordSteps
<1>8. SavedInv'
  BY <1>1, <1>2 DEF SavedInv, By, TempSteps, CleanSteps, RecordSteps
<1>9. CommitInv'
  BY <1>1, <1>2 DEF CommitInv, By, TempSteps, CleanSteps, RecordSteps
<1>10. Typed' /\ JournalInv' /\ BackupInv' /\ AgreedInv'
  BY <1>1, <1>2 DEF Typed, CopySteps, JournalInv, BackupInv, AgreedInv
<1> QED BY <1>3, <1>4, <1>5, <1>6, <1>7, <1>8, <1>9, <1>10

(* The temp's exclude goes once the temp is gone.                          *)
LEMMA CleanTempExcludeKeeps ==
  ASSUME ControlInv, CleanTempExclude
  PROVE  ControlInv'
<1> USE DEF ControlInv, CleanTempExclude, At, Recovering, Goto, durable, user
<1>1. PlaceInv'
  BY  DEF PlaceInv, By, TempSteps, CleanSteps, RecordSteps
<1>2. TurnsInv'
  BY  DEF TurnsInv, By, TempSteps, CleanSteps, RecordSteps
<1>3. RecordInv'
  BY  DEF RecordInv, SyncRecord, RelinkRecord, RecoveryRecord, By, Working,
     TempSteps, CleanSteps, RecordSteps
<1>4. JournalInv'
  BY EntriesApart, ArtNow, JobNow, TempNow DEF JournalInv, TempInv, Working,
     PlaceInv, By, TempSteps, CleanSteps, RecordSteps
<1>5. TempInv'
  BY EntriesApart, ArtNow, JobNow, TempNow DEF TempInv, JournalInv, Working,
     TempSteps, CleanSteps, PlaceInv, By, RecordSteps
<1>6. RelinkInv'
  BY  DEF RelinkInv, By, TempSteps, CleanSteps, RecordSteps
<1>7. SavedInv'
  BY  DEF SavedInv, By, TempSteps, CleanSteps, RecordSteps
<1>8. CommitInv'
  BY  DEF CommitInv, By, TempSteps, CleanSteps, RecordSteps
<1>9. Typed' /\ BackupInv' /\ AgreedInv'
  BY  DEF Typed, CopySteps, BackupInv, AgreedInv
<1> QED BY <1>1, <1>2, <1>3, <1>4, <1>5, <1>6, <1>7, <1>8, <1>9

(* The journal's record goes last, and the job goes on to its next step.   *)
LEMMA CleanRecordKeeps ==
  ASSUME ControlInv, CleanRecord
  PROVE  ControlInv'
<1> USE DEF ControlInv
<1>1. /\ pc = "cleanrecord" /\ job # NoJob /\ art' = NoArtifact
      /\ UNCHANGED <<repo, store, backup, owner, excl, temp, tempExcl, linkTemp, rec,
                 tracked, acts, unsaved, raced>>
  BY DEF CleanRecord, At, durable, user
<1>2. job.cmd \in {"recover", "sync", "relink", "attach", "repair", "materialize"}
  BY <1>1, JobNow DEF PlaceInv, By
<1>3. \/ Exit /\ (job.cmd = "recover" => rec = NoRecord)
        /\ job.cmd \in {"recover", "repair", "materialize"}
      \/ GoesOn /\ job.cmd = "recover" /\ rec # NoRecord /\ pc' = "recover"
      \/ GoesOn /\ job.cmd = "sync" /\ pc' = "drop"
      \/ GoesOn /\ job.cmd = "relink" /\ job.into = "backup" /\ pc' = "inspect"
      \/ GoesOn /\ job.cmd = "relink" /\ job.into # "backup" /\ pc' = "persist"
      \/ GoesOn /\ job.cmd = "attach" /\ pc' = "attach"
  BY <1>1, <1>2 DEF CleanRecord, Recovering, AfterCleanup, Goto, GoesOn
<1>4. job' \in Jobs \cup {NoJob} /\ turns' \in Nat /\ same' \in BOOLEAN
  BY <1>3, GoesOnOrEnds
<1> USE DEF GoesOn, Exit
<1>5. TurnsInv'
  BY <1>1, <1>2, <1>3, <1>4 DEF TurnsInv, By, TempSteps, CleanSteps, RecordSteps
<1>6. RecordInv'
  BY <1>1, <1>2, <1>3, <1>4 DEF RecordInv, SyncRecord, RelinkRecord, RecoveryRecord,
     By, Working, TempSteps, CleanSteps, RecordSteps
<1>7. JournalInv'
  BY <1>1, <1>2, <1>3, <1>4, EntriesApart, ArtNow, JobNow, TempNow DEF JournalInv,
     TempInv, Working, PlaceInv, By, TempSteps, CleanSteps, RecordSteps
<1>8. TempInv'
  BY <1>1, <1>2, <1>3, <1>4 DEF TempInv, Working, TempSteps, CleanSteps, RecordSteps
<1>9. BackupInv'
  BY <1>1, <1>2, <1>3, <1>4, EntriesApart, RecNow, JobNow, TempNow DEF BackupInv,
     RecordInv, RelinkRecord, SyncRecord, RecoveryRecord, RelinkInv, By, TempSteps,
     CleanSteps, RecordSteps, AgreedInv
<1>10. RelinkInv'
  BY <1>1, <1>2, <1>3, <1>4 DEF RelinkInv, By, TempSteps, CleanSteps, RecordSteps
<1>11. AgreedInv'
  BY <1>1, <1>2, <1>3, <1>4 DEF AgreedInv, RecordInv, RelinkRecord, By, Working,
     CleanSteps
<1>12. SavedInv'
  BY <1>1, <1>2, <1>3, <1>4 DEF SavedInv, By, TempSteps, CleanSteps, RecordSteps
<1>13. CommitInv'
  BY <1>1, <1>2, <1>3, <1>4 DEF CommitInv, By, TempSteps, CleanSteps, RecordSteps
<1>14. Typed' /\ PlaceInv'
  BY <1>1, <1>2, <1>3, <1>4 DEF Typed, CopySteps, PlaceInv, By
<1> QED BY <1>5, <1>6, <1>7, <1>8, <1>9, <1>10, <1>11, <1>12, <1>13, <1>14

(* sync looks again at what it is about to overwrite.                      *)
LEMMA SyncInspectKeeps ==
  ASSUME ControlInv, SyncInspect
  PROVE  ControlInv'
<1> USE DEF ControlInv, SyncInspect, For, Inspected, durable, journal, user, At
<1>1. PlaceInv'
  BY  DEF PlaceInv, By, TempSteps, CleanSteps, RecordSteps
<1>2. RecordInv'
  BY  DEF RecordInv, SyncRecord, RelinkRecord, RecoveryRecord, By, Working,
     TempSteps, CleanSteps, RecordSteps
<1>3. TempInv'
  BY  DEF TempInv, Working, RecordInv, SyncRecord, By, TempSteps, CleanSteps
<1>4. /\ Typed' /\ TurnsInv' /\ JournalInv' /\ BackupInv' /\ RelinkInv'
      /\ AgreedInv' /\ SavedInv' /\ CommitInv'
  BY  DEF Typed, CopySteps, TurnsInv, By, JournalInv, BackupInv, RelinkInv,
     AgreedInv, SavedInv, CommitInv
<1> QED BY <1>1, <1>2, <1>3, <1>4

(* What is checked before the commit of a sync is what CommitInv says of   *)
(* it.                                                                     *)
LEMMA SyncCheckKeeps ==
  ASSUME ControlInv, SyncCheck
  PROVE  ControlInv'
<1> USE DEF ControlInv, SyncCheck, For, WriteFacts, TransferWriteFacts, AsRecorded,
        CommitPermit, Goto, durable, journal, user, At, SyncStoreIntact, SyncState,
        Integrated, CopyContent
<1>1. PlaceInv'
  BY  DEF PlaceInv, By, TempSteps, CleanSteps, RecordSteps
<1>2. RecordInv'
  BY  DEF RecordInv, SyncRecord, RelinkRecord, RecoveryRecord, By, Working,
     TempSteps, CleanSteps, RecordSteps
<1>3. TempInv'
  BY  DEF TempInv, Working, TempSteps, CleanSteps, RecordSteps
<1>4. /\ Typed' /\ TurnsInv' /\ JournalInv' /\ BackupInv' /\ RelinkInv'
      /\ AgreedInv' /\ SavedInv' /\ CommitInv'
  BY  DEF Typed, CopySteps, TurnsInv, By, JournalInv, BackupInv, RelinkInv,
     AgreedInv, SavedInv, CommitInv
<1> QED BY <1>1, <1>2, <1>3, <1>4

(* The rename of a sync replaces the losing side.                          *)
LEMMA SyncCommitKeeps ==
  ASSUME ControlInv, SyncCommit
  PROVE  ControlInv'
<1> USE DEF ControlInv, SyncCommit, For, CommitToRepo, CommitToStore, Goto,
        Committed, user, At, AsFound, TempReady
<1>1. Typed'
  BY TempNow DEF Typed, TempInv, Working, CopySteps
<1>2. RecordInv'
  BY  DEF RecordInv, SyncRecord, RelinkRecord, RecoveryRecord, By, Working,
     TempSteps, CleanSteps, RecordSteps
<1>3. TempInv'
  BY EntriesApart, ArtNow, JobNow, TempNow DEF TempInv, JournalInv, Working,
     TempSteps, CleanSteps, PlaceInv, By, RecordSteps
<1>4. BackupInv'
  BY EntriesApart, RecNow, JobNow, TempNow DEF BackupInv, RecordInv, RelinkRecord,
     SyncRecord, RecoveryRecord, RelinkInv, By, TempSteps, CleanSteps, RecordSteps,
     AgreedInv
<1>5. AgreedInv'
  BY EntriesApart, RecNow, JobNow, TempNow DEF AgreedInv, RecordInv, RelinkRecord,
     SyncRecord, RecoveryRecord, By, Working, RecordSteps, BackupInv
<1>6. PlaceInv' /\ TurnsInv' /\ JournalInv' /\ RelinkInv' /\ SavedInv' /\ CommitInv'
  BY  DEF PlaceInv, By, TurnsInv, JournalInv, RelinkInv, SavedInv, CommitInv
<1> QED BY <1>1, <1>2, <1>3, <1>4, <1>5, <1>6

(* sync saves its next phase.                                              *)
LEMMA SyncPersistKeeps ==
  ASSUME ControlInv, SyncPersist
  PROVE  ControlInv'
<1> USE DEF ControlInv
<1>1. /\ rec # NoRecord /\ rec.phase # "PostCommitValidated"
      /\ pc = "persist" /\ job # NoJob
      /\ rec' \in GoodRecords /\ rec' # NoRecord
      /\ rec'.op = rec.op /\ rec'.phase = After(rec.op,
                 rec.phase) /\ rec'.dir = rec.dir
      /\ rec'.repoFp = rec.repoFp /\ rec'.storeFp = rec.storeFp
      /\ rec'.exclBefore = rec.exclBefore /\ rec'.backupKnown = rec.backupKnown
      /\ Winner(rec') = Winner(rec) /\ Loser(rec') = Loser(rec)
      /\ UNCHANGED <<repo, store, backup, owner, excl, temp, tempExcl, linkTemp, art,
                 job, turns, same, tracked, acts, unsaved, raced>>
  BY Persisted DEF SyncPersist
<1>2. /\ job.cmd = "sync"
      /\ pc' = (IF After(rec.op,
                 rec.phase) = "ContentSynchronized" THEN "post" ELSE "cleanfile")
  BY <1>1, AfterNow, Persisted DEF SyncPersist, For, At
<1> USE DEF After
<1>3. PlaceInv'
  BY <1>1, <1>2 DEF PlaceInv, By, TempSteps, CleanSteps, RecordSteps
<1>4. RecordInv'
  BY <1>1, <1>2 DEF RecordInv, SyncRecord, RelinkRecord, RecoveryRecord, By, Working,
     TempSteps, CleanSteps, RecordSteps
<1>5. TempInv'
  BY <1>1, <1>2 DEF TempInv, Working, TempSteps, CleanSteps, RecordSteps
<1>6. BackupInv'
  BY <1>1, <1>2, EntriesApart, RecNow, JobNow, TempNow DEF BackupInv, RecordInv,
     RelinkRecord, SyncRecord, RecoveryRecord, RelinkInv, By, TempSteps, CleanSteps,
     RecordSteps, AgreedInv
<1>7. /\ Typed' /\ TurnsInv' /\ JournalInv' /\ RelinkInv' /\ AgreedInv'
      /\ SavedInv' /\ CommitInv'
  BY <1>1, <1>2 DEF Typed, CopySteps, TurnsInv, By, JournalInv, RelinkInv, AgreedInv,
     SavedInv, CommitInv
<1> QED BY <1>3, <1>4, <1>5, <1>6, <1>7

(* sync ends by comparing both sides.                                      *)
LEMMA SyncPostKeeps ==
  ASSUME ControlInv, SyncPost
  PROVE  ControlInv'
<1> USE DEF ControlInv, SyncPost, For, Synchronized, Integrated, Goto, durable,
        journal, user, At
<1>1. RecordInv'
  BY  DEF RecordInv, SyncRecord, RelinkRecord, RecoveryRecord, By, Working,
     TempSteps, CleanSteps, RecordSteps
<1>2. TempInv'
  BY  DEF TempInv, Working, TempSteps, CleanSteps, RecordSteps
<1>3. BackupInv'
  BY EntriesApart, RecNow, JobNow, TempNow DEF BackupInv, RecordInv, RelinkRecord,
     SyncRecord, RecoveryRecord, RelinkInv, By, TempSteps, CleanSteps, RecordSteps,
     AgreedInv
<1>4. AgreedInv'
  BY EntriesApart, RecNow, JobNow, TempNow DEF AgreedInv, RecordInv, RelinkRecord,
     SyncRecord, RecoveryRecord, By, Working, RecordSteps, BackupInv
<1>5. /\ Typed' /\ PlaceInv' /\ TurnsInv' /\ JournalInv' /\ RelinkInv'
      /\ SavedInv' /\ CommitInv'
  BY  DEF Typed, CopySteps, PlaceInv, By, TurnsInv, JournalInv, RelinkInv, SavedInv,
     CommitInv
<1> QED BY <1>1, <1>2, <1>3, <1>4, <1>5

(* relink excludes the item before it touches anything.                    *)
LEMMA RelinkExcludeKeeps ==
  ASSUME ControlInv, RelinkExclude
  PROVE  ControlInv'
<1> USE DEF ControlInv, RelinkExclude, At, Goto, journal, user
<1>1. RecordInv'
  BY  DEF RecordInv, SyncRecord, RelinkRecord, RecoveryRecord, By, Working,
     TempSteps, CleanSteps, RecordSteps
<1>2. TempInv'
  BY  DEF TempInv, Working, TempSteps, CleanSteps, RecordSteps
<1>3. RelinkInv'
  BY  DEF RelinkInv, By, TempSteps, CleanSteps, RecordSteps
<1>4. SavedInv'
  BY  DEF SavedInv, By, TempSteps, CleanSteps, RecordSteps
<1>5. CommitInv'
  BY  DEF CommitInv, By, TempSteps, CleanSteps, RecordSteps
<1>6. Typed' /\ PlaceInv' /\ TurnsInv' /\ JournalInv' /\ BackupInv' /\ AgreedInv'
  BY  DEF Typed, CopySteps, PlaceInv, By, TurnsInv, JournalInv, BackupInv, AgreedInv
<1> QED BY <1>1, <1>2, <1>3, <1>4, <1>5, <1>6

(* relink saves that its exclude is written.                               *)
LEMMA RelinkExcludedKeeps ==
  ASSUME ControlInv, RelinkExcluded
  PROVE  ControlInv'
<1> USE DEF ControlInv
<1>1. /\ pc = "excluded" /\ job # NoJob /\ job.cmd = "relink" /\ rec # NoRecord /\ excl
      /\ pc' = "stage"
      /\ rec' = [rec EXCEPT !.phase = "ExcludeWritten"]
      /\ UNCHANGED <<repo, store, backup, owner, excl, temp, tempExcl, linkTemp, art,
                 job, turns, same, tracked, acts, unsaved, raced>>
  BY DEF RelinkExcluded, For, At, Goto, durable, journal, user
<1>2. rec.op = "relink" /\ "ExcludeWritten" \in CopyPhases(rec.op)
  BY <1>1, PhasesOf DEF RecordInv, RelinkRecord, By
<1>3. /\ rec' \in GoodRecords /\ rec' # NoRecord
      /\ rec'.op = rec.op /\ rec'.phase = "ExcludeWritten" /\ rec'.dir = rec.dir
      /\ rec'.repoFp = rec.repoFp /\ rec'.storeFp = rec.storeFp
      /\ rec'.exclBefore = rec.exclBefore /\ rec'.backupKnown = rec.backupKnown
      /\ Winner(rec') = Winner(rec) /\ Loser(rec') = Loser(rec)
  BY <1>1, <1>2, Advanced
<1>4. TempInv'
  BY <1>1, <1>2, <1>3 DEF TempInv, Working, TempSteps, CleanSteps, RecordSteps
<1>5. RelinkInv'
  BY <1>1, <1>2, <1>3 DEF RelinkInv, By, TempSteps, CleanSteps, RecordSteps
<1>6. SavedInv'
  BY <1>1, <1>2, <1>3 DEF SavedInv, By, TempSteps, CleanSteps, RecordSteps
<1>7. /\ Typed' /\ PlaceInv' /\ TurnsInv' /\ RecordInv' /\ JournalInv'
      /\ BackupInv' /\ AgreedInv' /\ CommitInv'
  BY <1>1, <1>2, <1>3 DEF Typed, CopySteps, PlaceInv, By, TurnsInv, RecordInv,
     SyncRecord, RelinkRecord, RecoveryRecord, Working, JournalInv, BackupInv,
     AgreedInv, CommitInv
<1> QED BY <1>4, <1>5, <1>6, <1>7

(* relink turns to the backup: a copy of the user's file, or a move of the *)
(* store's.                                                                *)
LEMMA RelinkStageKeeps ==
  ASSUME ControlInv, RelinkStage
  PROVE  ControlInv'
<1> USE DEF ControlInv
<1>1. /\ pc = "stage" /\ job # NoJob /\ job.cmd = "relink" /\ rec # NoRecord
      /\ backup = Missing /\ same' = TRUE
      /\ \/ rec.dir = "FromStore" /\ repo \in Contents /\ pc' = "reserve"
         \/ rec.dir # "FromStore" /\ store \in Contents /\ pc' = "check"
      /\ UNCHANGED <<repo, store, backup, owner, excl, temp, tempExcl, linkTemp, art,
                 rec, job, turns, tracked, acts, unsaved, raced>>
  BY DEF RelinkStage, For, At, Inspected, durable, journal, user
<1>2. PlaceInv'
  BY <1>1 DEF PlaceInv, By, TempSteps, CleanSteps, RecordSteps
<1>3. TempInv'
  BY <1>1, EntriesApart, ArtNow, JobNow, TempNow DEF TempInv, JournalInv, Working,
     TempSteps, CleanSteps, PlaceInv, By, RecordSteps, RecordInv, RelinkRecord
<1>4. RelinkInv'
  BY <1>1, EntriesApart, RecNow, JobNow, TempNow, Kinds DEF RelinkInv, RecordInv,
     RelinkRecord, By, TempSteps, CleanSteps, TempInv, Working
<1>5. SavedInv'
  BY <1>1, EntriesApart, RecNow, JobNow, TempNow DEF SavedInv, RecordInv,
     RelinkRecord, By, TempSteps, CleanSteps
<1>6. /\ Typed' /\ TurnsInv' /\ RecordInv' /\ JournalInv' /\ BackupInv'
      /\ AgreedInv' /\ CommitInv'
  BY <1>1 DEF Typed, CopySteps, TurnsInv, By, RecordInv, SyncRecord, RelinkRecord,
     RecoveryRecord, Working, JournalInv, BackupInv, AgreedInv, CommitInv
<1> QED BY <1>2, <1>3, <1>4, <1>5, <1>6

(* What is checked before the backup is put in place.                      *)
LEMMA RelinkCheckStageKeeps ==
  ASSUME ControlInv, RelinkCheckStage
  PROVE  ControlInv'
<1> USE DEF ControlInv, RelinkCheckStage, For, CommitPermit, Goto, durable, journal,
        user, At, Integrated
<1>1. PlaceInv'
  BY  DEF PlaceInv, By, TempSteps, CleanSteps, RecordSteps
<1>2. RecordInv'
  BY  DEF RecordInv, SyncRecord, RelinkRecord, RecoveryRecord, By, Working,
     TempSteps, CleanSteps, RecordSteps
<1>3. TempInv'
  BY  DEF TempInv, Working, TempSteps, CleanSteps, RecordSteps
<1>4. RelinkInv'
  BY  DEF RelinkInv, By, TempSteps, CleanSteps, RecordSteps
<1>5. SavedInv'
  BY  DEF SavedInv, By, TempSteps, CleanSteps, RecordSteps
<1>6. Typed' /\ TurnsInv' /\ JournalInv' /\ BackupInv' /\ AgreedInv' /\ CommitInv'
  BY  DEF Typed, CopySteps, TurnsInv, By, JournalInv, BackupInv, AgreedInv, CommitInv
<1> QED BY <1>1, <1>2, <1>3, <1>4, <1>5, <1>6

(* The backup is put in place, and no other backup was there.              *)
LEMMA RelinkCommitStageKeeps ==
  ASSUME ControlInv, RelinkCommitStage
  PROVE  ControlInv'
<1> USE DEF ControlInv
<1>1. /\ pc = "commit" /\ job # NoJob /\ job.cmd = "relink" /\ rec # NoRecord
      /\ job.into = "backup" /\ backup = Missing /\ pc' = "backup"
      /\ \/ /\ rec.dir = "FromStore" /\ AsFound /\ temp # Missing /\ temp.ours
            /\ backup' = temp.data /\ temp' = Missing /\ store' = store
         \/ /\ rec.dir # "FromStore"
            /\ backup' = store /\ store' = Missing /\ temp' = temp
      /\ Committed
      /\ UNCHANGED <<repo, owner, excl, tempExcl, linkTemp, art, rec, job, turns,
                 same, tracked, acts, unsaved>>
  BY DEF RelinkCommitStage, For, At, Goto, TempReady, user
<1>2. rec.dir # "FromStore" => art = NoArtifact /\ temp = Missing /\ store # Missing
  BY <1>1, RecNow DEF RelinkInv, By, TempSteps, JournalInv
<1>3. rec.dir = "FromStore" => temp.data \in Contents /\ temp.data # Missing
  BY <1>1, JobNow, EntriesApart DEF TempInv, Working
<1> USE DEF Committed
<1>4. RecordInv'
  BY <1>1, <1>2, <1>3 DEF RecordInv, SyncRecord, RelinkRecord, RecoveryRecord, By,
     Working, TempSteps, CleanSteps, RecordSteps
<1>5. TempInv'
  BY <1>1, <1>2, <1>3 DEF TempInv, Working, TempSteps, CleanSteps, RecordSteps
<1>6. BackupInv'
  BY <1>1, <1>2, <1>3, EntriesApart, RecNow, JobNow, TempNow DEF BackupInv,
     RecordInv, RelinkRecord, SyncRecord, RecoveryRecord, RelinkInv, By, TempSteps,
     CleanSteps, RecordSteps, AgreedInv
<1>7. RelinkInv'
  BY <1>1, <1>2, <1>3 DEF RelinkInv, By, TempSteps, CleanSteps, RecordSteps
<1>8. /\ Typed' /\ PlaceInv' /\ TurnsInv' /\ JournalInv' /\ AgreedInv'
      /\ SavedInv' /\ CommitInv'
  BY <1>1, <1>2, <1>3 DEF Typed, CopySteps, PlaceInv, By, TurnsInv, JournalInv,
     AgreedInv, SavedInv, CommitInv
<1> QED BY <1>4, <1>5, <1>6, <1>7, <1>8

(* The record learns of the backup before anything is overwritten.         *)
LEMMA RelinkRecordBackupKeeps ==
  ASSUME ControlInv, RelinkRecordBackup
  PROVE  ControlInv'
<1> USE DEF ControlInv
<1>1. /\ pc = "backup" /\ job # NoJob /\ job.cmd = "relink" /\ rec # NoRecord
      /\ backup # Missing
      /\ pc' = (IF art = NoArtifact THEN "inspect" ELSE "cleanfile")
      /\ rec' = [rec EXCEPT !.backupKnown = TRUE]
      /\ UNCHANGED <<repo, store, backup, owner, excl, temp, tempExcl, linkTemp, art,
                 job, turns, same, tracked, acts, unsaved, raced>>
  BY DEF RelinkRecordBackup, For, At, Goto, durable, journal, user
<1>2. /\ rec' \in GoodRecords /\ rec' # NoRecord
      /\ rec'.op = rec.op /\ rec'.phase = rec.phase /\ rec'.dir = rec.dir
      /\ rec'.repoFp = rec.repoFp /\ rec'.storeFp = rec.storeFp
      /\ rec'.exclBefore = rec.exclBefore /\ rec'.backupKnown = TRUE
      /\ Winner(rec') = Winner(rec) /\ Loser(rec') = Loser(rec)
  BY <1>1, Remembered
<1>3. PlaceInv'
  BY <1>1, <1>2 DEF PlaceInv, By, TempSteps, CleanSteps, RecordSteps
<1>4. TempInv'
  BY <1>1, <1>2 DEF TempInv, Working, TempSteps, CleanSteps, RecordSteps
<1>5. RelinkInv'
  BY <1>1, <1>2, EntriesApart, RecNow, JobNow, TempNow, Kinds DEF RelinkInv,
     RecordInv, RelinkRecord, By, TempSteps, CleanSteps
<1>6. /\ Typed' /\ TurnsInv' /\ RecordInv' /\ JournalInv' /\ BackupInv'
      /\ AgreedInv' /\ SavedInv' /\ CommitInv'
  BY <1>1, <1>2 DEF Typed, CopySteps, TurnsInv, By, RecordInv, SyncRecord,
     RelinkRecord, RecoveryRecord, Working, JournalInv, BackupInv, AgreedInv,
     SavedInv, CommitInv
<1> QED BY <1>3, <1>4, <1>5, <1>6

(* relink looks again at what it is about to overwrite.                    *)
LEMMA RelinkInspectKeeps ==
  ASSUME ControlInv, RelinkInspect
  PROVE  ControlInv'
<1> USE DEF ControlInv
<1>1. /\ pc = "inspect" /\ job # NoJob /\ job.cmd = "relink" /\ rec # NoRecord
      /\ (IF rec.dir = "FromStore" THEN DivergedCopy ELSE repo \in Contents /\ store = Missing)
      /\ pc' = "reserve" /\ same' = TRUE
      /\ job' = [job EXCEPT !.into = IF rec.dir = "FromStore" THEN "repo" ELSE "store"]
      /\ UNCHANGED <<repo, store, backup, owner, excl, temp, tempExcl, linkTemp, art,
                 rec, turns, tracked, acts, unsaved, raced>>
  BY DEF RelinkInspect, For, At, durable, journal, user
<1>2. /\ job' \in Jobs /\ job' # NoJob
      /\ job'.cmd = job.cmd /\ job'.strategy = job.strategy /\ job'.found = job.found
      /\ job'.into = (IF rec.dir = "FromStore" THEN "repo" ELSE "store")
  BY <1>1, JobNow, JobFields DEF Jobs
<1>3. PlaceInv'
  BY <1>1, <1>2 DEF PlaceInv, By, TempSteps, CleanSteps, RecordSteps
<1>4. TempInv'
  BY <1>1, <1>2 DEF TempInv, Working, RecordInv, RelinkRecord, By, CleanSteps
<1>5. RelinkInv'
  BY <1>1, <1>2 DEF RelinkInv, By, TempSteps, CleanSteps, RecordSteps
<1>6. /\ Typed' /\ TurnsInv' /\ RecordInv' /\ JournalInv' /\ BackupInv'
      /\ AgreedInv' /\ SavedInv' /\ CommitInv'
  BY <1>1, <1>2 DEF Typed, CopySteps, TurnsInv, By, RecordInv, SyncRecord,
     RelinkRecord, RecoveryRecord, Working, JournalInv, BackupInv, AgreedInv,
     SavedInv, CommitInv
<1> QED BY <1>3, <1>4, <1>5, <1>6

(* What is checked before the commit of a relink.                          *)
LEMMA RelinkCheckKeeps ==
  ASSUME ControlInv, RelinkCheck
  PROVE  ControlInv'
<1> USE DEF ControlInv, RelinkCheck, For, DivergedCopy, CommitPermit, Goto, durable,
        journal, user, At, CopyContent, Integrated
<1>1. PlaceInv'
  BY  DEF PlaceInv, By, TempSteps, CleanSteps, RecordSteps
<1>2. RecordInv'
  BY  DEF RecordInv, SyncRecord, RelinkRecord, RecoveryRecord, By, Working,
     TempSteps, CleanSteps, RecordSteps
<1>3. TempInv'
  BY  DEF TempInv, Working, TempSteps, CleanSteps, RecordSteps
<1>4. RelinkInv'
  BY  DEF RelinkInv, By, TempSteps, CleanSteps, RecordSteps
<1>5. SavedInv'
  BY  DEF SavedInv, By, TempSteps, CleanSteps, RecordSteps
<1>6. Typed' /\ TurnsInv' /\ JournalInv' /\ BackupInv' /\ AgreedInv' /\ CommitInv'
  BY  DEF Typed, CopySteps, TurnsInv, By, JournalInv, BackupInv, AgreedInv, CommitInv
<1> QED BY <1>1, <1>2, <1>3, <1>4, <1>5, <1>6

(* The rename of a relink replaces the losing side, which the backup       *)
(* holds.                                                                  *)
LEMMA RelinkCommitKeeps ==
  ASSUME ControlInv, RelinkCommit
  PROVE  ControlInv'
<1> USE DEF ControlInv, RelinkCommit, For, CommitToRepo, CommitToStore, Goto,
        Committed, user, At, AsFound, TempReady
<1>1. Typed'
  BY TempNow DEF Typed, TempInv, Working, CopySteps
<1>2. PlaceInv'
  BY  DEF PlaceInv, By, TempSteps, CleanSteps, RecordSteps
<1>3. RecordInv'
  BY  DEF RecordInv, SyncRecord, RelinkRecord, RecoveryRecord, By, Working,
     TempSteps, CleanSteps, RecordSteps
<1>4. TempInv'
  BY EntriesApart, ArtNow, JobNow, TempNow DEF TempInv, JournalInv, Working,
     TempSteps, CleanSteps, PlaceInv, By, RecordSteps
<1>5. RelinkInv'
  BY EntriesApart, RecNow, JobNow, TempNow, Kinds DEF RelinkInv, RecordInv,
     RelinkRecord, By, TempSteps, CleanSteps, BackupInv, TempInv, Working
<1>6. SavedInv'
  BY  DEF SavedInv, By, TempSteps, CleanSteps, RecordSteps
<1>7. TurnsInv' /\ JournalInv' /\ BackupInv' /\ AgreedInv' /\ CommitInv'
  BY  DEF TurnsInv, By, JournalInv, BackupInv, AgreedInv, CommitInv
<1> QED BY <1>1, <1>2, <1>3, <1>4, <1>5, <1>6, <1>7

(* relink saves its next phase.                                            *)
LEMMA RelinkPersistKeeps ==
  ASSUME ControlInv, RelinkPersist
  PROVE  ControlInv'
<1> USE DEF ControlInv
<1>1. /\ rec # NoRecord /\ rec.phase # "PostCommitValidated"
      /\ pc = "persist" /\ job # NoJob
      /\ rec' \in GoodRecords /\ rec' # NoRecord
      /\ rec'.op = rec.op /\ rec'.phase = After(rec.op,
                 rec.phase) /\ rec'.dir = rec.dir
      /\ rec'.repoFp = rec.repoFp /\ rec'.storeFp = rec.storeFp
      /\ rec'.exclBefore = rec.exclBefore /\ rec'.backupKnown = rec.backupKnown
      /\ Winner(rec') = Winner(rec) /\ Loser(rec') = Loser(rec)
      /\ UNCHANGED <<repo, store, backup, owner, excl, temp, tempExcl, linkTemp, art,
                 job, turns, same, tracked, acts, unsaved, raced>>
  BY Persisted DEF RelinkPersist
<1>2. /\ job.cmd = "relink"
      /\ pc' = (CASE After(rec.op, rec.phase) = "ContentSynchronized" -> "post"
                  [] After(rec.op, rec.phase) = "OwnershipAttached" -> "cleanbackup"
                  [] OTHER -> "drop")
  BY <1>1, AfterNow, Persisted DEF RelinkPersist, For, At
<1> USE DEF After
<1>3. RecordInv'
  BY <1>1, <1>2 DEF RecordInv, SyncRecord, RelinkRecord, RecoveryRecord, By, Working,
     TempSteps, CleanSteps, RecordSteps
<1>4. TempInv'
  BY <1>1, <1>2 DEF TempInv, Working, TempSteps, CleanSteps, RecordSteps
<1>5. BackupInv'
  BY <1>1, <1>2, EntriesApart, RecNow, JobNow, TempNow DEF BackupInv, RecordInv,
     RelinkRecord, SyncRecord, RecoveryRecord, RelinkInv, By, TempSteps, CleanSteps,
     RecordSteps, AgreedInv
<1>6. RelinkInv'
  BY <1>1, <1>2 DEF RelinkInv, By, TempSteps, CleanSteps, RecordSteps
<1>7. AgreedInv'
  BY <1>1, <1>2, EntriesApart, RecNow, JobNow, TempNow DEF AgreedInv, TempSteps,
     CleanSteps, RecordSteps
<1>8. SavedInv'
  BY <1>1, <1>2 DEF SavedInv, By, TempSteps, CleanSteps, RecordSteps
<1>9. Typed' /\ PlaceInv' /\ TurnsInv' /\ JournalInv' /\ CommitInv'
  BY <1>1, <1>2 DEF Typed, CopySteps, PlaceInv, By, TurnsInv, JournalInv, CommitInv
<1> QED BY <1>3, <1>4, <1>5, <1>6, <1>7, <1>8, <1>9

(* relink compares both sides before the item is attached.                 *)
LEMMA RelinkPostKeeps ==
  ASSUME ControlInv, RelinkPost
  PROVE  ControlInv'
<1> USE DEF ControlInv, RelinkPost, For, Goto, durable, journal, user, At
<1>1. RecordInv'
  BY  DEF RecordInv, SyncRecord, RelinkRecord, RecoveryRecord, By, Working,
     TempSteps, CleanSteps, RecordSteps
<1>2. TempInv'
  BY  DEF TempInv, Working, TempSteps, CleanSteps, RecordSteps
<1>3. RelinkInv'
  BY  DEF RelinkInv, By, TempSteps, CleanSteps, RecordSteps
<1>4. AgreedInv'
  BY EntriesApart, RecNow, JobNow, TempNow DEF AgreedInv, TempSteps, CleanSteps,
     RecordSteps
<1>5. SavedInv'
  BY  DEF SavedInv, By, TempSteps, CleanSteps, RecordSteps
<1>6. Typed' /\ PlaceInv' /\ TurnsInv' /\ JournalInv' /\ BackupInv' /\ CommitInv'
  BY  DEF Typed, CopySteps, PlaceInv, By, TurnsInv, JournalInv, BackupInv, CommitInv
<1> QED BY <1>1, <1>2, <1>3, <1>4, <1>5, <1>6

(* The item becomes attached, in the phase after the contents agree.       *)
LEMMA AttachKeeps ==
  ASSUME ControlInv, Attach
  PROVE  ControlInv'
<1> USE DEF ControlInv
<1>1. /\ pc = "attach" /\ job # NoJob /\ owner' = "attached"
      /\ \/ job.cmd = "attach" /\ Exit
         \/ job.cmd # "attach" /\ GoesOn /\ pc' = "persist"
      /\ UNCHANGED <<repo, store, backup, excl, temp, tempExcl, linkTemp, art, rec,
                 tracked, acts, unsaved, raced>>
  BY DEF Attach, At, Goto, journal, user, GoesOn
<1>2. job' \in Jobs \cup {NoJob} /\ turns' \in Nat /\ same' \in BOOLEAN
  BY <1>1, GoesOnOrEnds
<1>3. job.cmd \in {"relink", "attach", "recover"}
  BY <1>1, JobNow DEF PlaceInv, By, TempSteps, CleanSteps
<1> USE DEF GoesOn, Exit
<1>4. PlaceInv'
  BY <1>1, <1>2, <1>3 DEF PlaceInv, By, TempSteps, CleanSteps, RecordSteps
<1>5. TurnsInv'
  BY <1>1, <1>2, <1>3 DEF TurnsInv, By, TempSteps, CleanSteps, RecordSteps
<1>6. RecordInv'
  BY <1>1, <1>2, <1>3 DEF RecordInv, SyncRecord, RelinkRecord, RecoveryRecord, By,
     Working, TempSteps, CleanSteps, RecordSteps
<1>7. TempInv'
  BY <1>1, <1>2, <1>3, EntriesApart, ArtNow, JobNow, TempNow DEF TempInv, JournalInv,
     Working, TempSteps, CleanSteps, PlaceInv, By, RecordSteps
<1>8. BackupInv'
  BY <1>1, <1>2, <1>3, EntriesApart, RecNow, JobNow, TempNow DEF BackupInv,
     RecordInv, RelinkRecord, SyncRecord, RecoveryRecord, RelinkInv, By, TempSteps,
     CleanSteps, RecordSteps, AgreedInv, PlaceInv
<1>9. RelinkInv'
  BY <1>1, <1>2, <1>3, EntriesApart, RecNow, JobNow, TempNow, Kinds DEF RelinkInv,
     RecordInv, RelinkRecord, By, TempSteps, CleanSteps, BackupInv
<1>10. SavedInv'
  BY <1>1, <1>2, <1>3 DEF SavedInv, By, TempSteps, CleanSteps, RecordSteps
<1>11. Typed' /\ JournalInv' /\ AgreedInv' /\ CommitInv'
  BY <1>1, <1>2, <1>3 DEF Typed, CopySteps, JournalInv, AgreedInv, CommitInv, By
<1> QED BY <1>4, <1>5, <1>6, <1>7, <1>8, <1>9, <1>10, <1>11

(* The backup goes only once the item is attached.                         *)
LEMMA CleanBackupKeeps ==
  ASSUME ControlInv, CleanBackup
  PROVE  ControlInv'
<1> USE DEF ControlInv
<1>1. /\ pc = "cleanbackup" /\ job # NoJob /\ rec # NoRecord
      /\ \/ (backup = Missing \/ rec.backupKnown) /\ backup' = Missing /\ GoesOn /\ pc' = "persist"
         \/ backup # Missing /\ ~rec.backupKnown /\ backup' = backup /\ Exit
      /\ UNCHANGED <<repo, store, owner, excl, temp, tempExcl, linkTemp, art, rec,
                 tracked, acts, unsaved, raced>>
  BY DEF CleanBackup, At, Goto, journal, user, GoesOn
<1>2. job' \in Jobs \cup {NoJob} /\ turns' \in Nat /\ same' \in BOOLEAN
  BY <1>1, GoesOnOrEnds
<1>3. job.cmd \in {"relink", "recover"}
  BY <1>1, JobNow DEF PlaceInv, By, TempSteps, CleanSteps
<1> USE DEF GoesOn, Exit
<1>4. PlaceInv'
  BY <1>1, <1>2, <1>3 DEF PlaceInv, By, TempSteps, CleanSteps, RecordSteps
<1>5. TurnsInv'
  BY <1>1, <1>2, <1>3 DEF TurnsInv, By, TempSteps, CleanSteps, RecordSteps
<1>6. RecordInv'
  BY <1>1, <1>2, <1>3 DEF RecordInv, SyncRecord, RelinkRecord, RecoveryRecord, By,
     Working, TempSteps, CleanSteps, RecordSteps
<1>7. TempInv'
  BY <1>1, <1>2, <1>3, EntriesApart, ArtNow, JobNow, TempNow DEF TempInv, JournalInv,
     Working, TempSteps, CleanSteps, PlaceInv, By, RecordSteps
<1>8. BackupInv'
  BY <1>1, <1>2, <1>3, EntriesApart, RecNow, JobNow, TempNow DEF BackupInv,
     RecordInv, RelinkRecord, SyncRecord, RecoveryRecord, RelinkInv, By, TempSteps,
     CleanSteps, RecordSteps, AgreedInv, PlaceInv
<1>9. RelinkInv'
  BY <1>1, <1>2, <1>3, EntriesApart, RecNow, JobNow, TempNow, Kinds DEF RelinkInv,
     RecordInv, RelinkRecord, By, TempSteps, CleanSteps, BackupInv
<1>10. SavedInv'
  BY <1>1, <1>2, <1>3 DEF SavedInv, By, TempSteps, CleanSteps, RecordSteps
<1>11. Typed' /\ JournalInv' /\ AgreedInv' /\ CommitInv'
  BY <1>1, <1>2, <1>3 DEF Typed, CopySteps, JournalInv, AgreedInv, CommitInv, By
<1> QED BY <1>4, <1>5, <1>6, <1>7, <1>8, <1>9, <1>10, <1>11

(* relink without a direction goes on to the copy, or to the attachment.   *)
LEMMA AttachExcludedKeeps ==
  ASSUME ControlInv, AttachExcluded
  PROVE  ControlInv'
<1> USE DEF ControlInv, AttachExcluded, For, Goto, durable, journal, user, At
<1>1. PlaceInv'
  BY  DEF PlaceInv, By, TempSteps, CleanSteps, RecordSteps
<1>2. TempInv'
  BY EntriesApart, ArtNow, JobNow, TempNow DEF TempInv, JournalInv, Working,
     TempSteps, CleanSteps, PlaceInv, By, RecordSteps
<1>3. AgreedInv'
  BY EntriesApart, RecNow, JobNow, TempNow DEF AgreedInv, RecordInv, RelinkRecord,
     SyncRecord, RecoveryRecord, By, Working, RecordSteps, BackupInv
<1>4. CommitInv'
  BY EntriesApart, JobNow, Kinds DEF CommitInv, By, TempSteps, CleanSteps, RecordSteps
<1>5. /\ Typed' /\ TurnsInv' /\ RecordInv' /\ JournalInv' /\ BackupInv'
      /\ RelinkInv' /\ SavedInv'
  BY  DEF Typed, CopySteps, TurnsInv, By, RecordInv, SyncRecord, RelinkRecord,
     RecoveryRecord, Working, JournalInv, BackupInv, RelinkInv, SavedInv
<1> QED BY <1>1, <1>2, <1>3, <1>4, <1>5

(* What is checked before the item is put in the repository.               *)
LEMMA AttachCheckKeeps ==
  ASSUME ControlInv, AttachCheck
  PROVE  ControlInv'
<1> USE DEF ControlInv, AttachCheck, For, CommitPermit, Goto, durable, journal, user,
        At, Integrated
<1>1. PlaceInv'
  BY  DEF PlaceInv, By, TempSteps, CleanSteps, RecordSteps
<1>2. TempInv'
  BY  DEF TempInv, Working, TempSteps, CleanSteps, RecordSteps
<1>3. CommitInv'
  BY  DEF CommitInv, By, TempSteps, CleanSteps, RecordSteps
<1>4. /\ Typed' /\ TurnsInv' /\ RecordInv' /\ JournalInv' /\ BackupInv'
      /\ RelinkInv' /\ AgreedInv' /\ SavedInv'
  BY  DEF Typed, CopySteps, TurnsInv, By, RecordInv, SyncRecord, RelinkRecord,
     RecoveryRecord, Working, JournalInv, BackupInv, RelinkInv, AgreedInv, SavedInv
<1> QED BY <1>1, <1>2, <1>3, <1>4

(* The item is put in the repository, where nothing was found.             *)
LEMMA AttachCommitKeeps ==
  ASSUME ControlInv, AttachCommit
  PROVE  ControlInv'
<1> USE DEF ControlInv, AttachCommit, For, CommitToRepo, CreateLink, Goto, Committed,
        user, At, AsFound, TempReady
<1>1. Typed'
  BY TempNow DEF Typed, TempInv, Working, CopySteps
<1>2. TempInv'
  BY EntriesApart, ArtNow, JobNow, TempNow DEF TempInv, JournalInv, Working,
     TempSteps, CleanSteps, PlaceInv, By, RecordSteps
<1>3. CommitInv'
  BY  DEF CommitInv, By, TempSteps, CleanSteps, RecordSteps
<1>4. /\ PlaceInv' /\ TurnsInv' /\ RecordInv' /\ JournalInv' /\ BackupInv'
      /\ RelinkInv' /\ AgreedInv' /\ SavedInv'
  BY  DEF PlaceInv, By, TurnsInv, RecordInv, SyncRecord, RelinkRecord,
     RecoveryRecord, Working, JournalInv, BackupInv, RelinkInv, AgreedInv, SavedInv
<1> QED BY <1>1, <1>2, <1>3, <1>4

(* relink without a direction ends the copy by comparing both sides.       *)
LEMMA AttachPostKeeps ==
  ASSUME ControlInv, AttachPost
  PROVE  ControlInv'
<1> USE DEF ControlInv, AttachPost, For, Healthy, Goto, durable, journal, user, At,
        CopyContent
<1>1. PlaceInv'
  BY  DEF PlaceInv, By, TempSteps, CleanSteps, RecordSteps
<1>2. TempInv'
  BY  DEF TempInv, Working, TempSteps, CleanSteps, RecordSteps
<1>3. AgreedInv'
  BY EntriesApart, RecNow, JobNow, TempNow DEF AgreedInv, RecordInv, RelinkRecord,
     SyncRecord, RecoveryRecord, By, Working, RecordSteps, BackupInv
<1>4. CommitInv'
  BY  DEF CommitInv, By, TempSteps, CleanSteps, RecordSteps
<1>5. /\ Typed' /\ TurnsInv' /\ RecordInv' /\ JournalInv' /\ BackupInv'
      /\ RelinkInv' /\ SavedInv'
  BY  DEF Typed, CopySteps, TurnsInv, By, RecordInv, SyncRecord, RelinkRecord,
     RecoveryRecord, Working, JournalInv, BackupInv, RelinkInv, SavedInv
<1> QED BY <1>1, <1>2, <1>3, <1>4, <1>5

(* Recovery takes back the exclude of a relink that changed nothing.       *)
LEMMA RelinkUnexcludeKeeps ==
  ASSUME ControlInv, RelinkUnexclude
  PROVE  ControlInv'
<1> USE DEF ControlInv, RelinkUnexclude, At, Goto, journal, user
<1>1. PlaceInv'
  BY  DEF PlaceInv, By, TempSteps, CleanSteps, RecordSteps
<1>2. TurnsInv'
  BY  DEF TurnsInv, By, TempSteps, CleanSteps, RecordSteps
<1>3. RecordInv'
  BY RecNow, JobNow DEF RecordInv, SyncRecord, RelinkRecord, RecoveryRecord, By,
     Working, TempSteps, CleanSteps, RecordSteps, PlaceInv
<1>4. TempInv'
  BY EntriesApart, ArtNow, JobNow, TempNow DEF TempInv, JournalInv, Working,
     TempSteps, CleanSteps, PlaceInv, By, RecordSteps
<1>5. RelinkInv'
  BY  DEF RelinkInv, By, TempSteps, CleanSteps, RecordSteps
<1>6. SavedInv'
  BY  DEF SavedInv, By, TempSteps, CleanSteps, RecordSteps
<1>7. CommitInv'
  BY  DEF CommitInv, By, TempSteps, CleanSteps, RecordSteps
<1>8. Typed' /\ JournalInv' /\ BackupInv' /\ AgreedInv'
  BY  DEF Typed, CopySteps, JournalInv, BackupInv, AgreedInv
<1> QED BY <1>1, <1>2, <1>3, <1>4, <1>5, <1>6, <1>7, <1>8

(* repair writes the excludes; when only they were wrong it ends there.    *)
LEMMA RepairExcludeKeeps ==
  ASSUME ControlInv, RepairExclude
  PROVE  ControlInv'
<1> USE DEF ControlInv
<1>1. DesiredExclude = TRUE
  BY DEF Typed, DesiredExclude
<1>2. /\ pc = "exclude" /\ job # NoJob /\ excl' = TRUE
      /\ \/ job.cmd = "integrate" /\ Exit
         \/ job.cmd = "repair" /\ GoesOn /\ pc' = "excluded"
      /\ UNCHANGED <<repo, store, backup, owner, temp, tempExcl, linkTemp, art, rec,
                 tracked, acts, unsaved, raced>>
  BY <1>1 DEF RepairExclude, At, Goto, journal, user, GoesOn
<1>3. job' \in Jobs \cup {NoJob} /\ turns' \in Nat /\ same' \in BOOLEAN
  BY <1>2, GoesOnOrEnds
<1>4. excl' \in BOOLEAN
  BY <1>2
<1> USE DEF GoesOn, Exit
<1>5. TempInv'
  BY <1>1, <1>2, <1>3, <1>4 DEF TempInv, Working, TempSteps, CleanSteps, RecordSteps
<1>6. /\ Typed' /\ PlaceInv' /\ TurnsInv' /\ RecordInv' /\ JournalInv'
      /\ BackupInv' /\ RelinkInv' /\ AgreedInv' /\ SavedInv' /\ CommitInv'
  BY <1>1, <1>2, <1>3, <1>4 DEF Typed, CopySteps, PlaceInv, By, TurnsInv, RecordInv,
     SyncRecord, RelinkRecord, RecoveryRecord, Working, JournalInv, BackupInv,
     RelinkInv, AgreedInv, SavedInv, CommitInv
<1> QED BY <1>5, <1>6

(* repair looks at the item again and turns to the temp of its strategy.   *)
LEMMA RepairInspectKeeps ==
  ASSUME ControlInv, RepairInspect
  PROVE  ControlInv'
<1> USE DEF ControlInv
<1>1. /\ pc = "excluded" /\ job # NoJob /\ job.cmd = "repair"
      /\ Integrated /\ store # Missing /\ repo \in {Missing, Foreign}
      /\ pc' = FirstStep(job.strategy) /\ same' = TRUE
      /\ job' = [job EXCEPT !.found = IF repo = Missing THEN "Missing" ELSE "Present"]
      /\ UNCHANGED <<repo, store, backup, owner, excl, temp, tempExcl, linkTemp, art,
                 rec, turns, tracked, acts, unsaved, raced>>
  BY DEF RepairInspect, For, At, durable, journal, user
<1>2. FirstStep(job.strategy) = (IF job.strategy = "copy" THEN "reserve" ELSE "check")
  BY DEF FirstStep
<1>3. /\ job' \in Jobs /\ job' # NoJob
      /\ job'.cmd = job.cmd /\ job'.strategy = job.strategy /\ job'.into = job.into
  BY <1>1, JobNow, JobFields DEF Jobs
<1>4. PlaceInv'
  BY <1>1, <1>2, <1>3 DEF PlaceInv, By, TempSteps, CleanSteps, RecordSteps
<1>5. TempInv'
  BY <1>1, <1>2, <1>3, EntriesApart, ArtNow, JobNow, TempNow DEF TempInv, JournalInv,
     Working, TempSteps, CleanSteps, PlaceInv, By, RecordSteps
<1>6. /\ Typed' /\ TurnsInv' /\ RecordInv' /\ JournalInv' /\ BackupInv'
      /\ RelinkInv' /\ AgreedInv' /\ SavedInv' /\ CommitInv'
  BY <1>1, <1>2, <1>3 DEF Typed, CopySteps, TurnsInv, By, RecordInv, SyncRecord,
     RelinkRecord, RecoveryRecord, Working, JournalInv, BackupInv, RelinkInv,
     AgreedInv, SavedInv, CommitInv
<1> QED BY <1>4, <1>5, <1>6

(* What is checked before repair puts the item back.                       *)
LEMMA RepairCheckKeeps ==
  ASSUME ControlInv, RepairCheck
  PROVE  ControlInv'
<1> USE DEF ControlInv, RepairCheck, For, CommitPermit, Goto, durable, journal, user,
        At, Integrated
<1>1. PlaceInv'
  BY  DEF PlaceInv, By, TempSteps, CleanSteps, RecordSteps
<1>2. TempInv'
  BY  DEF TempInv, Working, TempSteps, CleanSteps, RecordSteps
<1>3. /\ Typed' /\ TurnsInv' /\ RecordInv' /\ JournalInv' /\ BackupInv'
      /\ RelinkInv' /\ AgreedInv' /\ SavedInv' /\ CommitInv'
  BY  DEF Typed, CopySteps, TurnsInv, By, RecordInv, SyncRecord, RelinkRecord,
     RecoveryRecord, Working, JournalInv, BackupInv, RelinkInv, AgreedInv, SavedInv,
     CommitInv
<1> QED BY <1>1, <1>2, <1>3

(* What is checked before materialize replaces one form by the other.      *)
LEMMA MaterializeCheckKeeps ==
  ASSUME ControlInv, MaterializeCheck
  PROVE  ControlInv'
<1> USE DEF ControlInv
<1>1. /\ pc = "check" /\ job # NoJob /\ job.cmd = "materialize" /\ CommitPermit
      /\ Replaceable(job.strategy) /\ pc' = "commit"
      /\ UNCHANGED <<repo, store, backup, owner, excl, temp, tempExcl, linkTemp, art,
                 rec, job, turns, same, tracked, acts, unsaved, raced>>
  BY DEF MaterializeCheck, For, At, Goto, durable, journal, user
<1>2. Integrated /\ (IF job.strategy = "copy" THEN repo = Link ELSE repo = store)
  BY <1>1, Kinds DEF Typed, CommitPermit, Replaceable, MaterializeState, CopyContent
<1> USE DEF Integrated
<1>3. PlaceInv'
  BY <1>1, <1>2 DEF PlaceInv, By, TempSteps, CleanSteps, RecordSteps
<1>4. TempInv'
  BY <1>1, <1>2 DEF TempInv, Working, TempSteps, CleanSteps, RecordSteps
<1>5. /\ Typed' /\ TurnsInv' /\ RecordInv' /\ JournalInv' /\ BackupInv'
      /\ RelinkInv' /\ AgreedInv' /\ SavedInv' /\ CommitInv'
  BY <1>1, <1>2 DEF Typed, CopySteps, TurnsInv, By, RecordInv, SyncRecord,
     RelinkRecord, RecoveryRecord, Working, JournalInv, BackupInv, RelinkInv,
     AgreedInv, SavedInv, CommitInv
<1> QED BY <1>3, <1>4, <1>5

(* A copy is renamed over the item's place.                                *)
LEMMA RefreshCopyKeeps ==
  ASSUME ControlInv, RefreshCopy
  PROVE  ControlInv'
<1> USE DEF ControlInv, RefreshCopy, Refreshing, CommitToRepo, Goto, Committed, user,
        AsFound, TempReady
<1>1. Typed'
  BY TempNow DEF Typed, TempInv, Working, CopySteps
<1>2. TempInv'
  BY  DEF TempInv, Working, TempSteps, CleanSteps, RecordSteps
<1>3. /\ PlaceInv' /\ TurnsInv' /\ RecordInv' /\ JournalInv' /\ BackupInv'
      /\ RelinkInv' /\ AgreedInv' /\ SavedInv' /\ CommitInv'
  BY  DEF PlaceInv, By, TurnsInv, RecordInv, SyncRecord, RelinkRecord,
     RecoveryRecord, Working, JournalInv, BackupInv, RelinkInv, AgreedInv, SavedInv,
     CommitInv
<1> QED BY <1>1, <1>2, <1>3

(* A symlink is made where nothing is.                                     *)
LEMMA RefreshCreateKeeps ==
  ASSUME ControlInv, RefreshCreate
  PROVE  ControlInv'
<1> USE DEF ControlInv, RefreshCreate, Refreshing, CreateLink, Goto, Committed, user
<1>1. TempInv'
  BY EntriesApart, ArtNow, JobNow, TempNow DEF TempInv, JournalInv, Working,
     TempSteps, CleanSteps, PlaceInv, By, RecordSteps
<1>2. /\ Typed' /\ PlaceInv' /\ TurnsInv' /\ RecordInv' /\ JournalInv'
      /\ BackupInv' /\ RelinkInv' /\ AgreedInv' /\ SavedInv' /\ CommitInv'
  BY  DEF Typed, CopySteps, PlaceInv, By, TurnsInv, RecordInv, SyncRecord,
     RelinkRecord, RecoveryRecord, Working, JournalInv, BackupInv, RelinkInv,
     AgreedInv, SavedInv, CommitInv
<1> QED BY <1>1, <1>2

(* A symlink is made beside the item's place ...                           *)
LEMMA RefreshBesideKeeps ==
  ASSUME ControlInv, RefreshBeside
  PROVE  ControlInv'
<1> USE DEF ControlInv
<1>1. /\ pc = "commit" /\ job # NoJob /\ job.cmd \in {"repair", "materialize"}
      /\ job.strategy = "symlink" /\ pc' = "linktemp"
      /\ UNCHANGED <<repo, store, backup, owner, excl, temp, tempExcl, art, rec, job,
                 turns, same, tracked, acts, unsaved, raced>>
  BY DEF RefreshBeside, Refreshing, Goto, durable, user
<1>2. linkTemp' \in BOOLEAN
  BY DEF RefreshBeside
<1> USE DEF Integrated
<1>3. TempInv'
  BY <1>1, <1>2, EntriesApart, ArtNow, JobNow, TempNow DEF TempInv, JournalInv,
     Working, TempSteps, CleanSteps, PlaceInv, By, RecordSteps
<1>4. /\ Typed' /\ PlaceInv' /\ TurnsInv' /\ RecordInv' /\ JournalInv'
      /\ BackupInv' /\ RelinkInv' /\ AgreedInv' /\ SavedInv' /\ CommitInv'
  BY <1>1, <1>2 DEF Typed, CopySteps, PlaceInv, By, TurnsInv, RecordInv, SyncRecord,
     RelinkRecord, RecoveryRecord, Working, JournalInv, BackupInv, RelinkInv,
     AgreedInv, SavedInv, CommitInv
<1> QED BY <1>3, <1>4

(* ... and renamed over it.                                                *)
LEMMA RefreshRenameKeeps ==
  ASSUME ControlInv, RefreshRename
  PROVE  ControlInv'
<1> USE DEF ControlInv
<1>1. /\ pc = "linktemp" /\ job # NoJob /\ job.cmd \in {"repair", "materialize"}
      /\ repo' = Link /\ pc' = "post" /\ Committed
      /\ UNCHANGED <<store, backup, owner, excl, temp, tempExcl, art, rec, job,
                 turns, same, tracked, acts, unsaved>>
  BY DEF RefreshRename, Refreshing, Goto, user
<1>2. linkTemp' \in BOOLEAN
  BY DEF RefreshRename
<1> USE DEF Committed
<1>3. TempInv'
  BY <1>1, <1>2 DEF TempInv, Working, TempSteps, CleanSteps, RecordSteps
<1>4. /\ Typed' /\ PlaceInv' /\ TurnsInv' /\ RecordInv' /\ JournalInv'
      /\ BackupInv' /\ RelinkInv' /\ AgreedInv' /\ SavedInv' /\ CommitInv'
  BY <1>1, <1>2 DEF Typed, CopySteps, PlaceInv, By, TurnsInv, RecordInv, SyncRecord,
     RelinkRecord, RecoveryRecord, Working, JournalInv, BackupInv, RelinkInv,
     AgreedInv, SavedInv, CommitInv
<1> QED BY <1>3, <1>4

(* repair and materialize end by looking at what they made.                *)
LEMMA RefreshPostKeeps ==
  ASSUME ControlInv, RefreshPost
  PROVE  ControlInv'
<1> USE DEF ControlInv
<1>1. /\ pc = "post" /\ job # NoJob /\ job.cmd \in {"repair", "materialize"}
      /\ Materialized(job.strategy) /\ Integrated
      /\ \/ art = NoArtifact /\ Exit
         \/ art # NoArtifact /\ GoesOn /\ pc' = "cleanfile"
      /\ UNCHANGED <<repo, store, backup, owner, excl, temp, tempExcl, linkTemp, art,
                 rec, tracked, acts, unsaved, raced>>
  BY DEF RefreshPost, Refreshing, Goto, durable, journal, user, GoesOn
<1>2. job' \in Jobs \cup {NoJob} /\ turns' \in Nat /\ same' \in BOOLEAN
  BY <1>1, GoesOnOrEnds
<1> USE DEF GoesOn, Exit
<1>3. PlaceInv'
  BY <1>1, <1>2 DEF PlaceInv, By, TempSteps, CleanSteps, RecordSteps
<1>4. TempInv'
  BY <1>1, <1>2 DEF TempInv, Working, TempSteps, CleanSteps, RecordSteps
<1>5. /\ Typed' /\ TurnsInv' /\ RecordInv' /\ JournalInv' /\ BackupInv'
      /\ RelinkInv' /\ AgreedInv' /\ SavedInv' /\ CommitInv'
  BY <1>1, <1>2 DEF Typed, CopySteps, TurnsInv, By, RecordInv, SyncRecord,
     RelinkRecord, RecoveryRecord, Working, JournalInv, BackupInv, RelinkInv,
     AgreedInv, SavedInv, CommitInv
<1> QED BY <1>3, <1>4, <1>5

(* Recovery takes the record or the journal's record, whichever comes      *)
(* first.                                                                  *)
LEMMA RecoverOneKeeps ==
  ASSUME ControlInv, RecoverOne
  PROVE  ControlInv'
<1> USE DEF ControlInv
<1>1. /\ pc = "recover" /\ job # NoJob
      /\ \/ rec # NoRecord /\ pc' = (IF rec.phase = "PostCommitValidated" THEN "drop" ELSE "decide")
         \/ art # NoArtifact /\ pc' = "cleanfile"
      /\ UNCHANGED <<repo, store, backup, owner, excl, temp, tempExcl, linkTemp, art,
                 rec, job, turns, same, tracked, acts, unsaved, raced>>
  BY DEF RecoverOne, At, Goto, durable, journal, user
<1>2. job.cmd = "recover"
  BY <1>1, JobNow DEF PlaceInv, By, TempSteps, CleanSteps
<1>3. PlaceInv'
  BY <1>1, <1>2 DEF PlaceInv, By, TempSteps, CleanSteps, RecordSteps
<1>4. TurnsInv'
  BY <1>1, <1>2, Ranks DEF TurnsInv, Typed, By, RecordSteps
<1>5. RecordInv'
  BY <1>1, <1>2 DEF RecordInv, SyncRecord, RelinkRecord, RecoveryRecord, By, Working,
     TempSteps, CleanSteps, RecordSteps
<1>6. TempInv'
  BY <1>1, <1>2 DEF TempInv, Working, TempSteps, CleanSteps, RecordSteps
<1>7. /\ Typed' /\ JournalInv' /\ BackupInv' /\ RelinkInv' /\ AgreedInv'
      /\ SavedInv' /\ CommitInv'
  BY <1>1, <1>2 DEF Typed, CopySteps, JournalInv, BackupInv, RelinkInv, By,
     AgreedInv, SavedInv, CommitInv
<1> QED BY <1>3, <1>4, <1>5, <1>6, <1>7

(* Recovery saves the phase it goes on from.                               *)
LEMMA RecoveryPersistKeeps ==
  ASSUME ControlInv, RecoveryPersist
  PROVE  ControlInv'
<1> USE DEF ControlInv
<1>1. /\ rec # NoRecord /\ rec.phase # "PostCommitValidated"
      /\ pc = "persist" /\ job # NoJob
      /\ rec' \in GoodRecords /\ rec' # NoRecord
      /\ rec'.op = rec.op /\ rec'.phase = After(rec.op,
                 rec.phase) /\ rec'.dir = rec.dir
      /\ rec'.repoFp = rec.repoFp /\ rec'.storeFp = rec.storeFp
      /\ rec'.exclBefore = rec.exclBefore /\ rec'.backupKnown = rec.backupKnown
      /\ Winner(rec') = Winner(rec) /\ Loser(rec') = Loser(rec)
      /\ UNCHANGED <<repo, store, backup, owner, excl, temp, tempExcl, linkTemp, art,
                 job, turns, same, tracked, acts, unsaved, raced>>
  BY Persisted DEF RecoveryPersist
<1>2. /\ job.cmd = "recover"
      /\ pc' = (IF After(rec.op,
                 rec.phase) = "PostCommitValidated" THEN "drop" ELSE "decide")
  BY <1>1, AfterNow, Persisted DEF RecoveryPersist, Recovering
<1>3. /\ rec.phase \in {"ContentSynchronized", "OwnershipAttached"}
      /\ store # Missing
      /\ rec.op = "relink" => owner = "attached"
      /\ rec.op = "sync" \/ rec.phase = "OwnershipAttached" => backup = Missing
  BY <1>1, <1>2, RecNow DEF RecordInv, RecoveryRecord, BackupInv, AgreedInv, By,
     RecordSteps
<1>4. PlaceInv'
  BY <1>1, <1>2, <1>3 DEF PlaceInv, By, TempSteps, CleanSteps, RecordSteps
<1>5. TurnsInv'
  BY <1>1, <1>2, <1>3, Ranks DEF TurnsInv, Typed, By, RecordSteps
<1>6. TempInv'
  BY <1>1, <1>2, <1>3 DEF TempInv, Working, TempSteps, CleanSteps, RecordSteps
<1>7. BackupInv'
  BY <1>1, <1>2, <1>3, RecNow DEF BackupInv, After
<1>8. /\ Typed' /\ RecordInv' /\ JournalInv' /\ RelinkInv' /\ AgreedInv'
      /\ SavedInv' /\ CommitInv'
  BY <1>1, <1>2, <1>3 DEF Typed, CopySteps, RecordInv, SyncRecord, RelinkRecord,
     RecoveryRecord, By, Working, JournalInv, RelinkInv, AgreedInv, SavedInv,
     CommitInv
<1> QED BY <1>4, <1>5, <1>6, <1>7, <1>8

(* The record goes, and recovery turns to what is left.                    *)
LEMMA DropKeeps ==
  ASSUME ControlInv, Drop
  PROVE  ControlInv'
<1> USE DEF ControlInv
<1>1. /\ pc = "drop" /\ job # NoJob /\ rec' = NoRecord
      /\ \/ art = NoArtifact /\ Exit
         \/ art # NoArtifact /\ GoesOn /\ pc' = "recover"
      /\ UNCHANGED <<repo, store, backup, owner, excl, temp, tempExcl, linkTemp, art,
                 tracked, acts, unsaved, raced>>
  BY DEF Drop, At, Goto, durable, journal, user, GoesOn
<1>2. job' \in Jobs \cup {NoJob} /\ turns' \in Nat /\ same' \in BOOLEAN
  BY <1>1, GoesOnOrEnds
<1>3. /\ art # NoArtifact => job.cmd = "recover"
      /\ job.cmd = "recover" => rec # NoRecord
  BY <1>1, JobNow DEF TempInv, Working, RecordInv, RecoveryRecord, By, RecordSteps
<1> USE DEF GoesOn, Exit
<1>4. TurnsInv'
  BY <1>1, <1>2, <1>3, RecNow, JobNow DEF TurnsInv, By, RecordSteps, Rank
<1>5. RecordInv'
  BY <1>1, <1>2, <1>3 DEF RecordInv, SyncRecord, RelinkRecord, RecoveryRecord, By,
     Working, TempSteps, CleanSteps, RecordSteps
<1>6. TempInv'
  BY <1>1, <1>2, <1>3 DEF TempInv, Working, TempSteps, CleanSteps, RecordSteps
<1>7. /\ Typed' /\ PlaceInv' /\ JournalInv' /\ BackupInv' /\ RelinkInv'
      /\ AgreedInv' /\ SavedInv' /\ CommitInv'
  BY <1>1, <1>2, <1>3 DEF Typed, CopySteps, PlaceInv, By, JournalInv, BackupInv,
     RelinkInv, AgreedInv, SavedInv, CommitInv
<1> QED BY <1>4, <1>5, <1>6, <1>7

(* A command may stop between any two steps, whatever it leaves behind.    *)
LEMMA HaltKeeps ==
  ASSUME ControlInv, Halt
  PROVE  ControlInv'
<1> USE DEF ControlInv, Halt, Running, Exit, durable, journal, user
<1>1. TempInv'
  BY  DEF TempInv, Working, TempSteps, CleanSteps, RecordSteps
<1>2. /\ Typed' /\ PlaceInv' /\ TurnsInv' /\ RecordInv' /\ JournalInv'
      /\ BackupInv' /\ RelinkInv' /\ AgreedInv' /\ SavedInv' /\ CommitInv'
  BY  DEF Typed, CopySteps, PlaceInv, By, TurnsInv, RecordInv, SyncRecord,
     RelinkRecord, RecoveryRecord, Working, JournalInv, BackupInv, RelinkInv,
     AgreedInv, SavedInv, CommitInv
<1> QED BY <1>1, <1>2

(* A user saves in place, through a symlink too.                           *)
LEMMA EditKeeps ==
  ASSUME ControlInv, NEW c \in Contents, Edit(c)
  PROVE  ControlInv'
<1> USE DEF ControlInv, Edit, Act, Unsaved, journal, process, ReadForBackup, Running
<1>1. BackupInv'
  BY EntriesApart, RecNow, JobNow, TempNow DEF BackupInv, TempSteps, CleanSteps,
     RecordSteps
<1>2. RelinkInv'
  BY EntriesApart, RecNow, JobNow, TempNow, Kinds DEF RelinkInv, By, TempSteps,
     CleanSteps, RecordSteps
<1>3. AgreedInv'
  BY EntriesApart, RecNow, JobNow, TempNow DEF AgreedInv, TempSteps, CleanSteps,
     RecordSteps
<1>4. SavedInv'
  BY EntriesApart, RecNow, JobNow, TempNow DEF SavedInv, RecordInv, RelinkRecord, By,
     TempSteps, CleanSteps, RelinkInv, TempInv, Working, PlaceInv, RecordSteps
<1>5. /\ Typed' /\ PlaceInv' /\ TurnsInv' /\ RecordInv' /\ JournalInv'
      /\ TempInv' /\ CommitInv'
  BY  DEF Typed, CopySteps, PlaceInv, By, TurnsInv, RecordInv, SyncRecord,
     RelinkRecord, RecoveryRecord, Working, JournalInv, TempInv, CommitInv
<1> QED BY <1>1, <1>2, <1>3, <1>4, <1>5

(* Another program puts a file of its own at the temp's path.              *)
LEMMA SwapKeeps ==
  ASSUME ControlInv, NEW c \in Contents, Swap(c)
  PROVE  ControlInv'
<1> USE DEF ControlInv, Swap, Act, durable, process
<1>1. /\ Typed' /\ PlaceInv' /\ TurnsInv' /\ RecordInv' /\ JournalInv'
      /\ TempInv' /\ BackupInv' /\ RelinkInv' /\ AgreedInv' /\ SavedInv'
      /\ CommitInv'
  BY  DEF Typed, CopySteps, PlaceInv, By, TurnsInv, RecordInv, SyncRecord,
     RelinkRecord, RecoveryRecord, Working, JournalInv, TempInv, BackupInv,
     RelinkInv, AgreedInv, SavedInv, CommitInv
<1> QED BY <1>1

(* A user puts another entry in the item's place.                          *)
LEMMA ReplaceKeeps ==
  ASSUME ControlInv, NEW entry \in Contents \cup {Foreign}, Replace(entry)
  PROVE  ControlInv'
<1> USE DEF ControlInv, Replace, Act, NewEntry, Unsaved, Running, journal,
        ReadForBackup
<1>1. RelinkInv'
  BY  DEF RelinkInv, By, TempSteps, CleanSteps, RecordSteps
<1>2. AgreedInv'
  BY EntriesApart, RecNow, JobNow, TempNow DEF AgreedInv, TempSteps, CleanSteps,
     RecordSteps
<1>3. SavedInv'
  BY EntriesApart, RecNow, JobNow, TempNow DEF SavedInv, RecordInv, RelinkRecord, By,
     TempSteps, CleanSteps, RelinkInv, TempInv, Working, PlaceInv, RecordSteps
<1>4. /\ Typed' /\ PlaceInv' /\ TurnsInv' /\ RecordInv' /\ JournalInv'
      /\ TempInv' /\ BackupInv' /\ CommitInv'
  BY  DEF Typed, CopySteps, PlaceInv, By, TurnsInv, RecordInv, SyncRecord,
     RelinkRecord, RecoveryRecord, Working, JournalInv, TempInv, BackupInv, CommitInv
<1> QED BY <1>1, <1>2, <1>3, <1>4

(* A user removes the item.                                                *)
LEMMA DeleteKeeps ==
  ASSUME ControlInv, Delete
  PROVE  ControlInv'
<1> USE DEF ControlInv, Delete, Act, NewEntry, Unsaved, Running, journal,
        ReadForBackup
<1>1. RelinkInv'
  BY  DEF RelinkInv, By, TempSteps, CleanSteps, RecordSteps
<1>2. AgreedInv'
  BY EntriesApart, RecNow, JobNow, TempNow DEF AgreedInv, TempSteps, CleanSteps,
     RecordSteps
<1>3. SavedInv'
  BY EntriesApart, RecNow, JobNow, TempNow DEF SavedInv, By, TempSteps, CleanSteps,
     RecordSteps
<1>4. /\ Typed' /\ PlaceInv' /\ TurnsInv' /\ RecordInv' /\ JournalInv'
      /\ TempInv' /\ BackupInv' /\ CommitInv'
  BY  DEF Typed, CopySteps, PlaceInv, By, TurnsInv, RecordInv, SyncRecord,
     RelinkRecord, RecoveryRecord, Working, JournalInv, TempInv, BackupInv, CommitInv
<1> QED BY <1>1, <1>2, <1>3, <1>4

(* A user adds the item to git's index.                                    *)
LEMMA TrackKeeps ==
  ASSUME ControlInv, Track
  PROVE  ControlInv'
<1> USE DEF ControlInv, Track, Act, durable, journal, process
<1>1. /\ Typed' /\ PlaceInv' /\ TurnsInv' /\ RecordInv' /\ JournalInv'
      /\ TempInv' /\ BackupInv' /\ RelinkInv' /\ AgreedInv' /\ SavedInv'
      /\ CommitInv'
  BY  DEF Typed, CopySteps, PlaceInv, By, TurnsInv, RecordInv, SyncRecord,
     RelinkRecord, RecoveryRecord, Working, JournalInv, TempInv, BackupInv,
     RelinkInv, AgreedInv, SavedInv, CommitInv
<1> QED BY <1>1

(* A user takes the item's line out of the exclude file.                   *)
LEMMA UnexcludeKeeps ==
  ASSUME ControlInv, Unexclude
  PROVE  ControlInv'
<1> USE DEF ControlInv
<1>1. /\ excl /\ Act("unexclude")
      /\ UNCHANGED <<repo, store, backup, owner, temp, tempExcl, linkTemp, art, rec,
                 job, pc, turns, same, tracked, unsaved>>
  BY DEF Unexclude, journal, process
<1>2. excl' \in BOOLEAN
  BY DEF Unexclude
<1> USE DEF Act
<1>3. /\ Typed' /\ PlaceInv' /\ TurnsInv' /\ RecordInv' /\ JournalInv'
      /\ TempInv' /\ BackupInv' /\ RelinkInv' /\ AgreedInv' /\ SavedInv'
      /\ CommitInv'
  BY <1>1, <1>2 DEF Typed, CopySteps, PlaceInv, By, TurnsInv, RecordInv, SyncRecord,
     RelinkRecord, RecoveryRecord, Working, JournalInv, TempInv, BackupInv,
     RelinkInv, AgreedInv, SavedInv, CommitInv
<1> QED BY <1>3

(***************************************************************************)
(* The invariant holds                                                     *)
(***************************************************************************)

(* It holds of an item no command has touched yet.                         *)
LEMMA ControlInit ==
  ASSUME Init
  PROVE  ControlInv
<1> USE EntriesApart DEF Init
<1>1. Typed
  BY DEF Typed, CopySteps
<1>2. PlaceInv
  BY RecordsDistinct DEF PlaceInv, By
<1>3. TurnsInv /\ RecordInv
  BY DEF TurnsInv, RecordInv, SyncRecord, RelinkRecord, RecoveryRecord, By, Working
<1>4. JournalInv /\ TempInv
  BY DEF JournalInv, TempInv, Working, CleanSteps
<1>5. BackupInv /\ RelinkInv /\ AgreedInv /\ SavedInv
  BY DEF BackupInv, RelinkInv, AgreedInv, SavedInv, By
<1>6. CommitInv
  BY DEF CommitInv, By
<1> QED BY <1>1, <1>2, <1>3, <1>4, <1>5, <1>6 DEF ControlInv

(* A step that changes nothing preserves it.                               *)
LEMMA ControlStutters ==
  ASSUME ControlInv, UNCHANGED vars
  PROVE  ControlInv'
<1> USE DEF vars, durable, journal, process, user, ControlInv
<1>1. Typed' /\ PlaceInv' /\ TurnsInv'
  BY DEF Typed, PlaceInv, TurnsInv, By
<1>2. RecordInv'
  BY DEF RecordInv, SyncRecord, RelinkRecord, RecoveryRecord, By, Working
<1>3. JournalInv' /\ TempInv'
  BY DEF JournalInv, TempInv, Working
<1>4. BackupInv' /\ RelinkInv' /\ AgreedInv' /\ SavedInv'
  BY DEF BackupInv, RelinkInv, AgreedInv, SavedInv, By
<1>5. CommitInv'
  BY DEF CommitInv, By, Integrated, AsRecorded
<1> QED BY <1>1, <1>2, <1>3, <1>4, <1>5

(* Every step of Next preserves it.                                        *)
LEMMA ControlSteps ==
  ASSUME ControlInv, Next
  PROVE  ControlInv'
<1>1. CASE Command
  BY <1>1, SyncBeginKeeps, RelinkBeginKeeps, AttachBeginKeeps, RepairBeginKeeps,
     RepoRepairBeginKeeps, MaterializeBeginKeeps
  DEF Command, SyncCommand, RelinkCommand, RepairCommand
<1>2. CASE BeginRecovery
  BY <1>2, BeginRecoveryKeeps
<1>3. CASE JournalStep
  BY <1>3, ReserveKeeps, ExcludeTempKeeps, VerifyTempExcludeKeeps, CreateTempKeeps,
     IdentifyTempKeeps, PopulateTempKeeps, CleanTempFileKeeps, CleanTempExcludeKeeps,
     CleanRecordKeeps
  DEF JournalStep
<1>4. CASE SyncStep
  BY <1>4, SyncInspectKeeps, SyncCheckKeeps, SyncCommitKeeps, SyncPersistKeeps, SyncPostKeeps
  DEF SyncStep
<1>5. CASE RelinkStep
  BY <1>5, RelinkExcludeKeeps, RelinkExcludedKeeps, RelinkStageKeeps, RelinkCheckStageKeeps,
     RelinkCommitStageKeeps, RelinkRecordBackupKeeps, RelinkInspectKeeps, RelinkCheckKeeps,
     RelinkCommitKeeps, RelinkPersistKeeps, RelinkPostKeeps, AttachKeeps, CleanBackupKeeps,
     AttachExcludedKeeps, AttachCheckKeeps, AttachCommitKeeps, AttachPostKeeps,
     RelinkUnexcludeKeeps
  DEF RelinkStep
<1>6. CASE RefreshStep
  BY <1>6, RepairExcludeKeeps, RepairInspectKeeps, RepairCheckKeeps, MaterializeCheckKeeps,
     RefreshCopyKeeps, RefreshCreateKeeps, RefreshBesideKeeps, RefreshRenameKeeps,
     RefreshPostKeeps
  DEF RefreshStep
<1>7. CASE RecoveryStep
  BY <1>7, RecoverOneKeeps, DecideRecordKeeps, RecoveryPersistKeeps DEF RecoveryStep
<1>8. CASE Drop
  BY <1>8, DropKeeps
<1>9. CASE Halt
  BY <1>9, HaltKeeps
<1>10. CASE UserAct
  BY <1>10, EditKeeps, SwapKeeps, ReplaceKeeps, DeleteKeeps, TrackKeeps, UnexcludeKeeps
  DEF UserAct
<1> QED BY <1>1, <1>2, <1>3, <1>4, <1>5, <1>6, <1>7, <1>8, <1>9, <1>10 DEF Next, CopyWork

(* The invariant: at every step of a command or of recovery, what is on    *)
(* disk is what the step relies on, whatever users do and wherever the     *)
(* process stops.                                                          *)
THEOREM ControlHolds == CopySpec => []ControlInv
<1>1. Init => ControlInv
  BY ControlInit
<1>2. ControlInv /\ [Next]_vars => ControlInv'
  BY ControlSteps, ControlStutters
<1> QED BY <1>1, <1>2, PTL DEF CopySpec
==============================================================================
