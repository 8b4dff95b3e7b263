# Verification of shelfbox

shelfbox moves files that must not be committed out of a Git working tree into a
central store, leaves a symlink or a copy in their place, and keeps them out of
Git with a managed block in `.git/info/exclude`. Its hard part is what happens
when a command stops half-way, when somebody changes the working tree while it
runs, and when several commands and checkouts share one store: separate pieces of
durable state (working tree, store, manifests, index, exclude block, records) have
to agree again afterwards, and no content may be lost meanwhile.

This directory holds TLA+ modules translated from `src/crates/shelfbox-core/src`
(paths below are relative to it) and `src/crates/shelfbox/src/commands`, TLC
configurations for small instances, and TLAPS proofs. `PROJECT.json` names the
source lines of every definition, the runs, a mutant for each property that shows
it can fail, the findings, the hazards and the theorems.

    tlc -workers 2 -config MCShelf_users.cfg MCShelf   # check one run
    tlapm Shelf_proofs.tla                             # check one proof module

## 1. The system

| component | state it keeps | operations | talks to |
|---|---|---|---|
| `ops/add.rs`, `add_recovery.rs` | none of its own | add; forward recovery and rollback of an add | journal, transfer, materializer, manifest, exclude |
| `ops/restore.rs` | none | restore, restore `--keep-store` (detach) | the same, plus the backup |
| `ops/move_item.rs` | none | move | the same |
| `ops/sync.rs` | none | make one side of a diverged copy win | journal, materializer |
| `ops/relink.rs` | none | re-attach a detached item, with or without a direction | the same, plus the backup |
| `ops/repair.rs`, `ops/materialize.rs`, `policy/repair_policy.rs`, `policy/materialize_policy.rs` | none | recreate missing entries, restore excludes, convert links and copies | materializer, exclude |
| `ops/lifecycle_recovery.rs` | none | recovery of restore, move, sync, relink | the same |
| `policy/recovery_policy.rs` | none | decide: phase and facts to action | called by the recoveries |
| `domain/operation_record.rs`, `storage/operation_record_store.rs` | `recovery/*.json` | create, update, remove, clean up artifact or backup | every mutating command |
| `fs/mutation_journal.rs` | temporary files and their records | advance a phase, reserve/authorize/clean an artifact, issue a commit permit | record store, exclude, Git |
| `fs/materializer.rs`, `fs/canonical_transfer.rs`, `fs/secure_transfer.rs` | working tree and canonical files | inspect, prepare, commit | journal (lease and permit) |
| `git/exclude.rs` | managed block of `.git/info/exclude` | add, remove, replace, has entry | all of the above |
| `domain/manifest.rs`, `storage/manifest_store.rs`, `storage/atomic_write.rs` | items and ownership of one repository | add, remove, rename, set state, save | commands, recovery, gc |
| `ops/recovery.rs`, `context.rs`, `fs/lock.rs` | the store lock | recover before a mutation; open a store for reading or writing | every command |
| `ops/gc.rs` | none | delete items nobody owns | manifests, store |
| `ops/reclaim.rs`, `ops/rebuild_index.rs`, `storage/index_store.rs`, `ops/migrate_manifest.rs` | `index.json`, manifests | take over a repository's store, rebuild the index, convert manifests | scanner |
| `ops/status.rs`, `ops/integrity.rs`, `ops/store_verify.rs` | none | report | everything, read-only |
| `fs/paths.rs`, `domain/path.rs` | none | turn a typed path into an item, check the way to a file | every command |
| info, list, previews, transition detection, configuration, CLI | `config` | parse, print | read-only |

What makes each correct:

- add, restore, move: atomic for ownership, through any stop; no content lost that
  the user did not give up; no item without an exclude; no plaintext where Git can
  pick it up; excludes accounted for afterwards.
- sync, relink: only the side the user named is lost, and only when the winning one
  is in place. repair, materialize: no file that differs is overwritten. Together:
  every fault a report names can be mended by one of them.
- recovery: it terminates, within its loop bound; it acts only on states it can
  identify; it leaves the user's files alone; it removes every record, or refuses it
  in a state that can be named.
- journal: plaintext exists in a temporary file only while a record names it.
- record store and gate: an unfinished record blocks every other mutation of its
  store, and only its own repository may recover it.
- store commands: no canonical file of a live item is deleted; the index never
  names two repositories for one working tree; an item disappears only when it was
  orphaned.
- exclude file: entries are added and removed as from a set, beside the user's lines.
- metadata files: a record that is read is whole and, once reported written, there.
- several items in one command: every one is settled or has a record.

Hard behaviours: a stop between any two durable writes; lost phase updates; a power
loss that undoes writes out of order; a user or an editor between a check and the
rename it guards; force-adds and hand edits of the exclude file; commands that wait
for the lock with what they looked at before; items that fail in the middle of a
command that goes on; loops with fixed bounds; two-file saves. Every one is listed
under `hazards` in `PROJECT.json` with the line where it bites and the property that
covers it, or why none does.

## 2. Modules

Five groups, each with a module for its state, modules for its operations, a module
that composes them and states the properties, an MC module and, where there is
something to abstract to, an abstract specification.

### One item in a repository: add, restore, move

| module | models |
|---|---|
| `RecoveryPolicy` | the five recovery tables as data, and `decide_table` |
| `RecoveryFacts` | every combination of facts a table can be asked about, and what the tables promise of them |
| `ShelfState` | one repository, its store and its record; begin, phase update, removal of a record, stops, the recovery loop; the user |
| `AddItem`, `RestoreItem`, `MoveItem` | the commands and their recovery, step by step; add in one volume and across two |
| `Shelf` | the composition and its properties |
| `ItemBook` | the abstract specification: ownership and content versions, commands in one step |
| `Shelf_proofs` | the proofs: the tables, what every step keeps up, what is true at rest and after each step, and the refinement |

| variable | in the code |
|---|---|
| `repo[p]` | the working-tree entry: a content, `Link` (managed symlink), `Missing` |
| `store[p]` | `items/<path>` of the repository's store |
| `backup` | `recovery/<record id>.restore` |
| `manifest[p]` | `ownership_state` of the item, `"absent"` if there is none |
| `excl` | the managed exclude block |
| `rec` | the operation record: operation, phase, both paths, strategy, fingerprint, prior exclude, `--keep-ignore`, whether the backup's identity is recorded |
| `pc` | the process: the step it is about to take; `"act"` is the next mutation of the command, a row action the same mutation done by recovery, `"persist"` the phase update that follows, `"drop"` the removal of the record; `"idle"` and `"refused"` when no process runs |
| `turns` | the iteration of the recovery loop; 0 in a forward run |
| `temp` | the content of the authorized temporary file of a pending commit |
| `same` | whether the entry whose identity the process took is still there |
| `tracked` | the Git index |
| `acts`, `discarded`, `kept`, `unlisted` | history: how much the user did, what content the user gave up, which excludes `--keep-ignore` left, which exclude lines the user deleted |

An action is one durable mutation with the checks the code makes just before it. A
forward run and a recovery run share an action when they make the same mutation
(`Doing`), and differ in its guard where the code does (`Recovering`). `Halt` is both
the death of the process and an error returned by `?`: neither undoes anything,
which is how the code behaves: no ordinary error of these commands rolls back, the
record is left to the next recovery. That is not what `docs/spec/copy-mode.md:91-95` says
of an add ("On an ordinary error, remove the materialization created by the operation,
return the store file to its original path, restore the manifest snapshot ..., and remove
only the exclude entry added by this operation"): the code rolls back in recovery, and
from the manifest save on it goes forward.

### The two sides of an item: sync, relink, repair, materialize

| module | models |
|---|---|
| `CopyState` | one item: working-tree entry, canonical file, relink backup, ownership, exclude, Git index, both records, the temp; the user and other programs |
| `ArtifactJournal` | reserve, exclude, verify, create, identify, authorize and populate, commit, clean up a temp; the permit of a commit |
| `SyncItem`, `RelinkItem`, `RefreshItem` | the commands; `RefreshItem` has item repair, repo repair and repo materialize |
| `ItemStatus` | the facts, issues and severity of `item status`, and what `store verify` makes of them |
| `CopyItem` | the composition with recovery, and its properties |
| `CanonicalView` | abstract: what the working tree shows and what is canonical, brought together only as asked |
| `TempProtocol` | abstract: the order of steps `domain/copy_safety.rs` prescribes for a temp |
| `CopySteps_proofs`, `CopyItem_proofs` | the proofs: the inductive invariant; what follows from it, and the refinements |

`repo`, `store`, `backup`, `owner`, `excl`, `tracked` are as above for one item;
`temp` is the file at the reserved temp path with who created it, `tempExcl` its line
in the exclude block, `art` its artifact record, `linkTemp` the unjournalled
`.shelfbox-link-*.tmp`. `job` and `pc` are the process. Unlike in `Shelf`, the
last check of an operation and the commit it authorizes are two steps, since
`sync.rs` and `relink.rs` make them in two calls; `raced` remembers that the user
acted in between, and `unsaved` what was written into a file after relink read it for
the backup. The properties say where they excuse such a race.

### The store: several processes, checkouts and repositories

| module | models |
|---|---|
| `StoreState` | lock, index, manifests of versions 2 and 3, canonical files, records of `recovery/`; clones, worktrees and what users do to them |
| `StoreGate` | starting a command, waiting for the lock, the recovery gate, `resolve_repo` |
| `StoreBook` | add and the other item commands seen from the store, repo repair's index, gc, rebuild-index, migrate-manifests, reclaim, status |
| `StoreReport` | `store verify` and `repo gc`'s list, asked at any moment; its properties |
| `StoreCatalog` | abstract: an item appears attached, and only an orphaned one disappears |
| `StoreBook_proofs` | the proofs, those about `StoreReport` included |

`git` and `home` are the checkouts and their common Git directories, `lock`, `readers`
and `lockFile` the store lock, `index`, `manifest`, `files` and `records` the store,
`job[p]` what each process looked at and is at. What a command does to its item is
condensed to a record, a canonical file and a manifest entry (the groups above have
the rest). `claims` is history: for which clone a RepoId was created or reclaimed.

### Files: the exclude block and the metadata

| module | models |
|---|---|
| `ExcludeBlock` | parse, render and rewrite of the block, on sequences of lines |
| `ExcludeFile` | the file: read, truncate, write, with stops, power losses and an editor |
| `ExcludeSet` | abstract: a set of entries changed at once beside lines that stay |
| `ExcludeFile_proofs` | the proofs: what selecting, sorting, parsing and rendering do to lines; the invariant and the refinement |
| `MetadataFiles`, `MetadataFiles_proofs` | `write_with_options`: temp, sync, rename, parent sync of a manifest and a record; the durability policy and the platform; proofs |

`disk` in `ExcludeFile` and `settled` in `MetadataFiles` are what a power loss may leave
of each file. Every other module here takes the
exclude block for a set and a metadata write for one step; `ImplementsExcludeSet`,
`RecordWhole` and `RecordDurable` say when that is right, and the run `powerloss` when
it is not.

### Several items in one command, and the paths it is given

| module | models |
|---|---|
| `BatchItems` | add and restore of several targets, repo sync, repo materialize: one manifest in memory, items that fail and are left behind, recovery of what they left |
| `BatchItems_proofs` | its inductive invariant and the theorems of section 4 |
| `PathRules` | lexical normalization, repository-relative paths, the check and creation of parent directories, pruning, over file trees with links |
| `BatchPaths` | the two together |
| `PathRules_proofs` | the proofs about paths |

This group and the one before share no state with each other. `MCParts` puts their
behaviours side by side for TLC, one at a time while the others stay where they began.

### Deliberate abstractions

- Content is a model value; a fingerprint is the content. An identity is only
  whether the entry was replaced since it was taken (`same`, `ours`).
- Inside one commit, `ensure_expected` and the `rename` it guards are one step. The
  windows between inspections, phases, checks and commits are modelled.
- In `Shelf` temporary files are one variable that a stop clears; their records and
  what stops leave of them are `ArtifactJournal`'s.
- A move renames within one store. `CrossVolume` concerns the add, the operation that
  takes a file from the working tree into a store that may be on another volume.
- One mutating process at a time in the item groups: `GateClears` in the store group
  is what entitles them to it.
- `ReclaimWelcome` in `StoreGate` admits a reclaim if any RepoId the checkout may be
  associated with does, slightly more than the code, which asks the one it resolved. `ExcludeBlock` takes a delimiter for a whole line,
  where `git/exclude.rs:154` searches for it in the text. The checks of the store's own
  directories around pruning, and `--keep-store` and `--keep-ignore` of a restore of
  several items, are left out of `PathRules` and `BatchItems`.
- Hard links, permissions, directories as items and unsafe paths are refused by guards
  of the commands, and except for `PathRules` not modelled.

## 3. Runs

`CHECK_DEADLOCK FALSE` is in the cfgs where the system may stop: nothing has to be
shelved and the user may have no act left, or the bound on writes is used up. The
store run checks for deadlock: its `Rest` step may only be taken when no command is
under way.

| run | instance | shows | distinct states |
|---|---|---|---|
| `settles` | all four commands, both volumes, no user, `FairSpec` | `AtRestSound`, `StuckOnlyInWindows`, `RecoveryWithinBound`, `ImplementsItemBook`, `RecoverySettles`, `TypeOK` | 0.1 million |
| `users` | all four commands, both volumes; the user edits, replaces, deletes, force-adds and deletes exclude lines, twice | `ContentKept`, `NoExposedPlaintext`, `RecoverySparesFiles`, `ManagedExcluded`, `ExcludesAccounted` | 3.1 million |
| `copies` | one item, three contents, every command and user act, two acts, `FairCopySpec` | the twelve properties of `CopyItem` | 1.1 million |
| `store` | two processes, paths, clones and RepoIds, one item path; every command and user act; three commands, one act | the eight properties of `StoreBook` and `StoreReport` | 1.1 million |
| `parts` | exclude file: two entries, a user line, three rewrites, one edit, one power loss. Metadata: three manifest versions, two power losses, either policy, volumes with and without directory sync. Several items: three items, three records, three command lines, one of which names an item twice; 152 typed paths on each file tree of `MCTrees` | `OneBlock`, `ImplementsExcludeSet`; `RecordWhole`, `RecordDurable`; `UnsettledHasRecord`, `BatchStuckOnlyInWindows`, `CommandPathsSound` | 0.15 million |

Bounds. In the item groups the number of user acts is the only bound on behaviours;
stops, recoveries and commands are unbounded. Two paths are what a move needs, and
allow an item next to a bystander; two contents are what "changed" needs, and `copies`
has a third so that both sides of an item can differ from what a record says. Two acts
are one to prepare and one to race: the windows of the code have one check and one
mutation each, so a race is lost with one act at the right moment. In `store`, three
commands are one that stops, one that waits and one that overtakes; one act is what
changes the world between two looks at it. In `parts`, three rewrites of
the exclude file are one that is torn, one that repairs and one that must still be able
to read the result; two losses of the metadata are one during a write and one during the repair of what it left.

`users` leaves out two kinds of steps, those of two findings, by the action constraint
`FindingsApart`: an edit in place of a file that the command has inspected and will remove
by its identity (`EditUnseen`; the run `moveedit` shows the loss), and the last step of a
rollback of a move (`MoveTakenBack`; the run `moveleak` shows the exclude it leaves).
What the user takes out of the block by hand is remembered in `unlisted`, since no command
promises to put it back: an item is excluded or its line is in `unlisted`.

The strongest statements are the `...OnlyInWindows` invariants. The tables of
`recovery_policy.rs` cover a state per phase; these invariants say which reachable
states they do not cover when nobody interferes, and that there are no others. A stop
in such a window loses no content, but every later mutating command of the store
fails until somebody removes the record by hand.

- `StuckOnlyInWindows`: an add rolled back as far as its exclude but not its record;
  a cross-volume add between copy and unlink; a restore whose backup was staged and
  not identified, or deleted and not followed by the last phase; a move between the
  removal of the old entry and the creation of the new one, and a move of a copy
  from the canonical rename on.
- `CopyStuckOnlyInWindows`: a temp created and not yet identified; a relink between
  staging the losing side and the synchronized content; a relink rolled back as far
  as its exclude; a relink whose backup is gone and whose last phase is not written.
- `BatchStuckOnlyInWindows`: the windows of one restore, and an item that a command
  line names twice.

That a window is named here does not make it right. The documents promise that a record
whose operation is complete is cleaned up (`docs/architecture/design-decisions.md:437-443`,
`STALE_COMPLETION_RULES` of `domain/copy_safety.rs:133`, `docs/spec/failure-matrix.md` row 21)
and that a move is one recoverable operation (`docs/spec/copy-mode.md:254`). The windows of
a deleted backup, in a restore, a relink and a restore of several items, contradict the
first, those of a move the second. `CompletedIsCleaned` and `MoveRecoverable` state the two
promises, and the runs `stale` and `movestuck` refute them.

`EveryFaultHasRemedy` relates the read-only side to the mutating one: whatever fault
`store verify` names, at rest and with no record stuck, a command that mends items can
start; what is left to the user is a path Git tracks and a foreign symlink at the path
of a detached item. It asks that the command can start, not that it succeeds against
a user who goes on interfering; `DoneMeansHealthy` says what it leaves if nobody does.

### Refinements

| detailed | abstract | mapping |
|---|---|---|
| `Shelf` | `ItemBook` | `status` is the manifest; the versions of a path are what working tree and store hold for it, a running restore's backup and a running move's new canonical file included |
| `CopyItem` | `CanonicalView` | what the entry shows, the canonical file or, while it is replaced, its backup, and the direction on record |
| `CopyItem` | `TempProtocol` | the steps whose effects are on disk |
| `StoreReport` | `StoreCatalog` | the manifests, those of version 2 read as they will be converted |
| `ExcludeFile` | `ExcludeSet` | parsed entries and own lines; while truncated, those that were read |

`ImplementsItemBook` implies that a command takes effect at the manifest save and
nowhere else, and that stops and recoveries in between are stuttering for the user.

### Fairness

`FairSpec` and `FairCopySpec` have weak fairness on the steps of a running process (it
goes on, or in `CopyItem` fails with an error, unless it dies) and on `BeginRecovery`
(the user keeps running commands, and every mutating command starts with
`recover_before_mutation`). There is none on commands or on user acts. `Halt` may
interrupt any step, so `RecoverySettles` and `CopySettles` are conditional: if only
finitely many stops interrupt work that could have gone on, each record is removed, or
it is in one of the states recovery refuses. The store group has no liveness property:
who waits for the lock waits for another process to end, which the code does not bound.

### Disagreements between the code and what is said of it

Seven runs expect a violation; each is listed under `findings` with the quoted line.

| run | what happens |
|---|---|
| `moveedit` | a copy edited in place while its move runs: the edited file is removed with the old entry, of which only the identity is compared |
| `moveleak` | the rollback of a move leaves the destination's exclude behind |
| `reclone` | a new clone at the path of a removed one gets the old one's RepoId, and its items, without a reclaim |
| `stale` | a restore that stops between deleting its backup and writing its last phase is done, and recovery refuses its record instead of removing it. A directional relink has the same window (`CopyStuckOnlyInWindows` fails without it) and a second finding for it |
| `movestuck` | a move of a copy stopped after the canonical rename, or any move stopped between removing the old entry and creating the new one, is refused by recovery |
| `torn` | the exclude file is truncated and then written, not replaced: a stop in between loses the block and the user's own lines |
| `powerloss` | the manifest is replaced without a sync and the record's phase with one: after a power loss the record says `ManifestSaved` beside the old manifest, or the manifest is torn |

## 4. Proofs

The theorems hold for any sets of paths, contents, processes, checkouts, RepoIds,
items, commands and versions, any bounds, and any number of user acts and stops. They
rest on the assumptions below, which TLC evaluates in the runs.

| assumption | of | says |
|---|---|---|
| `EntriesDistinct`, `RecordsDistinct`, `RecordDistinct`, `TempsDistinct`, `NothingDistinct` (`StoreState`, `ExcludeFile`), `NothingElse`, `FilesDistinct` | all | a value that stands for "missing", "link", "no record" or "nothing" is none of the values it may be mistaken for |
| `ParametersTyped` (`ShelfState`, `CopyState`), `StoreParametersTyped` | item and store groups | commands and user acts are among those modelled, bounds are numbers |
| `FilesBounded` | `MetadataFiles` | bounds are numbers |
| `LinesTyped` | `ExcludeBlock` | lines are numbers; entries are finitely many, and neither they nor the user's lines are a delimiter, blank, or each other's |
| `PathsTyped` | `PathRules` | paths are sequences of names; what a tree holds lies in a directory of it, under a name other than `..`, so that a tree is given by its real paths; the root is a directory |
| `BatchParametersTyped`, `BatchDistinct` | `BatchItems` | a command line is a sequence of targets, records are numbered from 1; "no record" and "no command" are neither |

Some theorems about `Shelf` have a hypothesis on which commands and user acts there
are. Each is needed: the counterexample is named with it. (The run `users` leaves out
only single steps of these commands and acts, so on its instance it checks more.)

Every invariant was given to TLC on the instances of section 3 before it was proved.

### One item: `Shelf_proofs`

| theorem | argument |
|---|---|
| `TypeCorrect`: `Spec => []TypeOK` | `TypeInv` adds that a process at `"persist"` has a record that is not finalized (`Coherent`), or the phase update had no next phase. `DecideResult` shows that a decision is an action or a phase of a row of its own table. |
| `ItemsStayExcluded`: `[]ManagedExcluded` | Saving the manifest needs the exclude of an earlier phase. `RecordedExcludes` says what each phase of each operation knows of its excludes and its manifest entry; recovery's advances keep it, because a row's facts contain it. What the user deletes is in `unlisted` (`UserActLists`). |
| `RecoverySpares`: `RecoverySparesFiles` | Recovery writes only where nothing is, or a link. The exception would be the removal of the old entry of a moved copy: recovery wants the copy equal to the canonical file at the old path, and `MovedCopies` says that file has moved. `ForwardSteps` says which steps only a forward run is at. |
| `RecoveryBounded`: `[]RecoveryWithinBound` | `Rank` counts the phases an operation has persisted. Each iteration raises it or leads to the step that will, so `turns` is at most the rank plus one, and no operation has more phases than its loop iterations. |
| `ItemsAtRestAreSound`: `[]AtRestSound`, unless users edit where items are moved | `RecordItems` says, for each operation, phase and step, whether the canonical file, the backup and the manifest entry of its paths are there; `LinksResolve` that every link leads to its canonical file. `AddSeen`, `RestoreSeen` and `MoveSeen` turn the facts of a row back into what is on disk, so that an advance of recovery arrives where a forward run would. An edit through the link of a half-moved item creates the canonical file anew beside the moved one. |
| `ContentsAreKept`: `[]ContentKept` as an action property, unless users edit where items are moved or copied across volumes | `RecordContents` says which two places hold the content of the record while it is on its way; `KeptSomewhere`, `StaysHeld` and `FilledIn` are the reasons why a step loses nothing. With edits in place run `moveedit` loses the edit, and a copy across volumes loses one made before the unlink. |
| `StopsBlockOnlyInWindows`: `[]StuckOnlyInWindows` | `QuietInv`: while nobody has acted, `RecordCalm` gives the content of every place a record mentions, per phase and per step. Then each phase with each of the states a stop leaves has a row, except in the windows. |
| `ExcludesStayAccounted`: `[]ExcludesAccounted`, without moves | `RecordAccounts` says by how much the block differs from `Accounted`, the items and what was kept, in each phase and step, apart from `unlisted`. With moves, run `moveleak` is the counterexample. |
| `PlaintextStaysHidden`: `NoExposedPlaintext` | Each step that puts a regular file into the tree checks exclude and Git index with its commit; the step of a move that does so is a forward run's (`InstallsForward`), and it has made the check. |
| `ShelfImplementsItemBook`: `ImplementsItemBook`, if `Unconfused` | Every step is a command of the book, at the manifest save, or an act of the user, or leaves `status` and versions alone (`Unseen`); a stop and a decision of recovery are the latter. While a move is under way its versions include the new canonical file, which is why `Unconfused` excludes, with moves, edits and files a user puts at either path, and edits during a copy across volumes. TLC refutes the refinement with any of the three allowed. |
| `UnexpectedConflicts` | No row of any table expects an unexpected fact, so one of them is enough for a refusal, in every phase and whatever the other facts are. An operation nothing was observed of is the case where all of them are (the comment above `decision_without_observations`). |
| `NextPhaseOnly` | No two rows of a table have the same facts, table by table; so the row that matches is the current one or the next, and recovery skips at most one lost update. |

### Sync, relink, repair, materialize: `CopySteps_proofs`, `CopyItem_proofs`

`ControlHolds` proves `ControlInv`, which says what each step of a command, or of
recovery, relies on. Its parts: `PlaceInv` (which step a command can be at, and with
which records), `TurnsInv` (turns of the recovery loop against the rank of the phase),
`RecordInv` and `RelinkInv` (what a sync's and a relink's record say in each phase),
`JournalInv` and `TempInv` (artifact record, temp and its exclude), `BackupInv`,
`SavedInv` and `AgreedInv` (where the losing side is, and when both sides agree),
`CommitInv` (what the check before a commit established).

| theorem | argument |
|---|---|
| `CopyTypes`, `NothingIsLeftBehind`, `LoopsStayWithinBound` | Implied by `ControlInv`: `Rank` bounds the turns; with no artifact record `JournalInv` leaves no temp of ours, with no record `BackupInv` no backup. |
| `ForeignTempIsKept` | Populate, commit and cleanup compare the identity of the record, which `TempInv` ties to the file shelfbox created. |
| `HiddenWheneverShown` | Every step that shows content follows a check of exclude and index which `CommitInv` remembers, unless `raced`. |
| `OnlyTheNamedSideIsLost` | The last holder of a content goes at a commit, or when the backup is removed. At the first, `CommitInv` has the recorded fingerprints; at the second, `SavedInv` and `AgreedInv` put the winning side in both places. |
| `CopyImplementsCanonicalView`, `CopyImplementsTempProtocol` | Every step maps to a step of the abstract specification or a stutter; the invariant supplies the abstract guards. |
| `StopsSettleOutsideWindows`, `DoneIsHealthy` | `UndisturbedHolds` proves what is true while `acts = 0`: `SyncShape` and `RelinkShape` give every place for each phase, `SyncSoFar`, `RelinkSoFar` and `RefreshSoFar` for each step. The windows are the states of these shapes without a row. |

### The store: `StoreBook_proofs`

`BookInvariant` proves `BookInv`: `LockHeld` (who works has the lock, alone or with
readers), `JobsShaped` (a plan is of its command's shape at each step),
`RecordsHandled` (past the gate every record was dealt with), `FilesListed` (a listed
item has its canonical file), `AddsListed` and `ItemsAtWork` (what an unfinished item
command has placed or saved), `RootsUnique` (a working tree has one entry in the
index), `WorksOnAssociated`. Steps of one process leave the part of the others alone
because of the lock; what users do leaves the store alone altogether.

| theorem | argument |
|---|---|
| `StoreTyped`, `GateClearsHolds`, `WorksOnAssociatedHolds` | parts of `BookInv` |
| `RecordsOnlyByOwnerHolds` | the steps that remove a record, each with its guard and `RecordsHandled` |
| `ItemsHaveFilesHolds`, `RootsUnambiguousHolds` | a report is asked at any moment, without the lock: they follow from `FilesListed` and `RootsUnique`, which hold between the steps of others, too |
| `OrphansOnlyFromGcHolds` | adds place the file under a record before they save, recovery goes by the file, a collection saves first |
| `ImplementsCatalogHolds` | each step lists one item (`Shelved`), removes collected ones (`Collected`), or keeps what every manifest says, a conversion of its version included (`Kept`) |

### Several items: `BatchItems_proofs`

`BatchInvariant` proves `BatchInv`. `UnsettledHasRecord` alone is not inductive: a save
writes the whole manifest in memory, so one must know where that differs from the one
on disk, and an item that is taken up a second time has two records of which only one
can be right about it. The parts:

- `DoingInv`: the item at work is at one of the places of `AddDoing`, `RestoreDoing` or
  `SyncDoing` (step, phase, places and manifest in memory). It is a table of the
  forward runs.
- `JobInv`: all records of a running command are of its operation. `OnLine` ties the
  rest of the command line and every record's item to the targets of the line, so that
  a second record of an item means the line names it twice.
- `ViewInv`: the manifest in memory differs from the one on disk only at an item with a
  record that waits for that save (`Ahead`).
- `RecordsInv`: every record left behind fits its item (`Fits`: its last phase is done,
  or that and the step after it), or has been `Overtaken` by a later attempt.
- `TwinsInv`: of two records of one item, one stopped where another attempt can begin
  (`Early`). This is why the removal of a finished record never leaves a half-done
  item behind it, and why a second attempt is not spoilt by the first one's entry in
  the manifest in memory.

| theorem | argument |
|---|---|
| `UnsettledHasRecordHolds` | A record goes only when its item is settled: a forward run's last step (`DropKeeps`), or a last row of recovery, whose facts say so (`RecoverAdd`, `RecoverRestore`, `RecoverSync`). A save changes the disk at the item at work and at items with a record (`SaveKeeps`). |
| `BatchStopsOnlyInWindows` | A record that fits its item has a row or the row after it: `AddDecides`, `RestoreDecides` and `SyncDecides` turn the facts of each row back into places. What is left are the two windows of a restore and the records that were overtaken. |

### Metadata files: `MetadataFiles_proofs`

`RecordAlwaysWhole`, `RecordAlwaysDurable`, `FilesTypeCorrect`: `FilesInv` adds that a
record is synced before it is renamed (`SyncedFirst`), so that a power loss finds
either the old or the new one whole, and that nothing is acknowledged before the
parent is synced.

### The exclude file: `ExcludeFile_proofs`

The module goes from lines to files to behaviours. The model selects and sorts lines by
position (`Selected`, `SortedLines`, both by `Arranged`): the line at place k of the
result is the one whose position has rank k among those picked. So the proofs can
reason about them with a count where a recursive filter or sort would need an induction.

- Lines: `ArrangedLines` (nothing is added or lost) and `ArrangedAlike` (two pickings
  whose positions correspond in order give the same sequence of lines).
- Files: `ParseWith`, `RenderedWith` and `RenderedWithout` say place by place what is
  before, in and after the block. `KeepsOwnLines` maps the user's lines of one file to
  those of the next one, in order, although blank lines come and go between them.
- Behaviours: `ExcludeInv` says that every version there is, the file itself and all a
  power loss may leave (`FilesInv`), is `Sound`, and what a rewrite under way knows
  (`JobInv`). That a file has at most `2 + edits` blank lines is not inductive, since a
  rewrite may add one. `Sound` therefore also counts the separator the next rewrite
  would add (`Pending`): a rewrite turns a pending one into a real one, and a prefix of
  a file either lost a blank line or has the same separator. It also says that no blank
  line is behind a delimiter, where a torn block that a user mends could collect them.

| theorem | argument |
|---|---|
| `RewritesKeepLines` | what a rewrite does to any file the parser accepts: the entries as asked, the user's lines as they were, and a file the parser accepts |
| `OneBlockHolds`: `[]OneBlock` | `RewriteSound`, `PrefixSound`, `EditSound`: each version made from a sound one is sound, an edit counted |
| `ExcludeFileImplementsSet`: `ImplementsExcludeSet` | Reading asks, truncating is unseen, writing performs by `RewritesKeepLines`, a stop forgets. That the file still was what the rewrite had read when it was truncated is in `JobInv`, unless the user edited it meanwhile. |

### Paths: `PathRules_proofs`

The rules are functions of a tree and a path. Where a path leads (`Walk`), what it is by
its text (`Normalizing`) and how far pruning has come (`Pruning`) are recursive
functions on the numbers up to the length of the path. `RecursionExists` shows that such
a function exists, and `Stages` that a claim handed on from stage to stage holds of all:
both go back to the least number at which something fails (`LeastOne`), which needs no
operator as a parameter.

| theorem | argument |
|---|---|
| `NamesOneEntryHolds`: `NamesOneEntry` | A path leads to one entry at most (`LeadsToOne`), a directory or a file to itself (`RealIsItself`), so the check before a write finds real directories from the root on (`ValidMeansDirs`). From the place where the typed path reaches that way it follows it (`LeadsOn`), and there are four such places: its text (`TextNamesOne`), where all of it leads (`ResolvedNamesOne`), where its longest part that exists leads (`MissingTailNamesOne`: were that above the root, one component more would exist), and a directory on the way up that is the root (`RootOnTheWay`). What is made of the missing directories is a tree (`EnsuredGrows`) in which what led somewhere leads there still (`GrownLeadsTheSame`). |
| `DotsMeanTheSameHolds`: `DotsMeanTheSame` | Without links each component is looked up as the text takes it (`EnteredByText`). |
| `PrunesOnlyTheWayHolds`: `PrunesOnlyTheWay` | A directory of the way is empty, once the inner ones have been looked at, if and only if it held nothing but the way (`EmptyMeansGone`), and then so do the inner ones (`GoneGoesOn`): `PruneStep` goes one directory outwards. |
| `CommandPathsSoundHolds`: `BatchSpec => []CommandPathsSound` | the three together |

### Model-checked only

- `RecoverySettles`, `CopySettles`: liveness under fairness. `EveryFaultHasRemedy`: it
  speaks of `ENABLED`. Both are beyond the prover.

## 5. Plan

Every safety invariant, action property and refinement the runs check is proved but
for those listed as model-checked only: liveness and what speaks of `ENABLED`.
Worth proving next: lemmas that join the two levels at which the project looks at one
item, `Shelf` with its contents and `BatchItems` without them, phase by phase.

Worth modelling next: `store verify` as a process that reads the store piece by piece;
repo repair of several items; the pruning of empty directories in `RestoreItem`.

## 6. Not modelled

- Windows and the system calls of `fs/platform`: one step each in the modules that
  use them, with no protocol of their own.
- Permission bits, hard links, Unicode and path separators: refused or normalized by
  guards with no further state.
- Parsing and defaults of the configuration, formatting, exit codes, info, list and
  previews, transition detection: they print what is on disk and store nothing.
- `meta.json`: nothing is decided by it.
- The ranking of reclaim candidates: it sorts a list the user may pick any entry of.
- repo repair of several items, and item relink, repair and sync of several paths, which
  stop at the first failure: each item is as in `CopyItem`.
