----------------------------- MODULE StoreState -----------------------------
(***************************************************************************)
(* The store that all repositories of a user share: the lock, index.json,  *)
(* one manifest per RepoId, the canonical files and the records of         *)
(* recovery/.  Around it are the checkouts the index points to,            *)
(* which users clone, move, link and remove as they like, and several      *)
(* processes that run commands.                                            *)
(*                                                                         *)
(* What one command does to its item is the matter of Shelf and CopyItem.  *)
(* Here such a command is a record, a canonical file and a manifest entry. *)
(***************************************************************************)
EXTENDS Naturals, FiniteSets

CONSTANTS
  Procs,          \* processes
  Roots,          \* absolute paths of working trees
  Clones,         \* independent clones, each with its common Git directory
  Ids,            \* RepoIds
  Items,          \* item paths
  Nothing,        \* a clone, path, entry, manifest or process there is none of
  StoreCommands,  \* the commands users may run
  StoreActs,      \* what users do besides
  MaxStoreActs,   \* bound: how often
  MaxStarts,      \* bound: how many commands are started
  InitialStates   \* the ownership states of a manifest of version 2

ASSUME NothingDistinct ==
  Nothing \notin Procs \cup Roots \cup Clones \cup Ids \cup Items

ASSUME StoreParametersTyped ==
  /\ StoreCommands \subseteq {"add", "refresh", "repair", "status", "gc", "rebuild", "migrate", "reclaim"}
  /\ StoreActs \subseteq {"remove", "clone", "worktree", "move", "corrupt", "config", "newer"}
  /\ MaxStoreActs \in Nat /\ MaxStarts \in Nat
  /\ InitialStates \subseteq {"attached", "stale", "adopted", "orphaned"}

VARIABLES
  git,       \* which clone is checked out at a path
  home,      \* where the common Git directory of a clone is
  strict,    \* mutation_durability = "require" in the configuration
  lock,      \* the process that holds the lock for writing
  readers,   \* the processes that hold it for reading
  lockFile,  \* <store>/.lock exists
  index,     \* index.json
  manifest,  \* repos/*/manifest.json
  files,     \* the canonical files
  records,   \* recovery/*.json
  job,       \* what each process is at
  starts,    \* how many commands have been started
  acts,      \* how many user acts have happened
  claims     \* ghost: for which clones a RepoId was created or reclaimed

world    == <<git, home, strict>>
store    == <<index, manifest, files, records>>
counts   == <<starts, acts>>
locking  == <<lock, readers, lockFile>>
bookVars == <<world, store, locking, job, counts, claims>>

OwnershipStates == {"attached", "detached", "unreachable", "orphaned"}

LegacyStates == OwnershipStates \cup {"stale", "adopted"}

NoItems == [x \in Items |-> "absent"]

(* RepoEntry: the paths of the checkout last seen, none after a rebuild.   *)
Entries == [root : Roots \cup {Nothing}, common : Roots \cup {Nothing}]

(* A directory of repos/: its manifest is of version 3, of version 2,      *)
(* cannot be read, or is not there yet.                                    *)
Manifests ==
       [format : {"v3", "bad", "none"}, items : [Items -> OwnershipStates \cup {"absent"}]]
  \cup [format : {"v2"}, items : [Items -> LegacyStates]]

(* RecoveryRecord.  A record of a newer version cannot be read.            *)
StoreRecords ==
       [kind : {"operation"}, root : Roots, strict : BOOLEAN, final : BOOLEAN,
        id : Ids, item : Items]
  \cup [kind : {"artifact"}, root : Roots, strict : BOOLEAN, side : {"repo", "store"}]
  \cup [kind : {"newer"}]

Steps == {"lock", "gate", "resolve", "begin", "place",
          "save", "final", "drop", "run", "collect", "delete", "convert", "read", "report"}

(* root, common and clone are what a command found of its checkout, plan   *)
(* the items a gc is to delete.                                            *)
StoreJobs ==
  [cmd : StoreCommands, step : Steps, strict : BOOLEAN,
   root : Roots \cup {Nothing}, common : Roots \cup {Nothing},
   clone : Clones \cup {Nothing}, id : Ids \cup {Nothing}, plan : SUBSET (Ids \X Items)]

(* Nothing is none of these either.                                       *)
ASSUME NothingElse == Nothing \notin Entries \cup Manifests \cup StoreJobs

StoreTypeOK ==
  /\ git \in [Roots -> Clones \cup {Nothing}]
  /\ home \in [Clones -> Roots \cup {Nothing}]
  /\ strict \in BOOLEAN /\ lockFile \in BOOLEAN
  /\ lock \in Procs \cup {Nothing}
  /\ readers \subseteq Procs
  /\ index \in [Ids -> Entries \cup {Nothing}]
  /\ manifest \in [Ids -> Manifests \cup {Nothing}]
  /\ files \subseteq Ids \X Items
  /\ records \subseteq StoreRecords
  /\ job \in [Procs -> StoreJobs \cup {Nothing}]
  /\ acts \in Nat /\ starts \in Nat
  /\ claims \subseteq Clones \X Ids

Format(i) == IF manifest[i] = Nothing THEN "none" ELSE manifest[i].format

ItemsOf(i) == IF manifest[i] = Nothing THEN NoItems ELSE manifest[i].items

Held(i) == {x \in Items : ItemsOf(i)[x] # "absent"}

(***************************************************************************)
(* Checkouts                                                               *)
(***************************************************************************)

(* git rev-parse succeeds: the common directory of the clone is there.     *)
Working(r) == git[r] # Nothing /\ home[git[r]] # Nothing

CommonDir(r) == IF Working(r) THEN home[git[r]] ELSE r

(* find_by_root before find_by_git_common_dir; either takes any match, as  *)
(* the index is a hash map.                                                *)
Indexed(field, path) == {i \in Ids : index[i] # Nothing /\ index[i][field] = path}

Associated(r, c) ==
  IF Indexed("root", r) # {} THEN Indexed("root", r) ELSE Indexed("common", c)

(***************************************************************************)
(* Initial stores: legacy manifests with the index they came with, or with *)
(* a rebuilt one; or nothing at all.                                       *)
(***************************************************************************)
StoreInit ==
  /\ home \in [Clones -> Roots \cup {Nothing}]
  /\ git = [r \in Roots |-> IF \E k \in Clones : home[k] = r
                            THEN CHOOSE k \in Clones : home[k] = r ELSE Nothing]
  /\ \A k, l \in Clones : home[k] = home[l] /\ home[k] # Nothing => k = l
  /\ strict \in BOOLEAN
  /\ manifest \in [Ids -> {Nothing} \cup [format : {"v2"}, items : [Items -> InitialStates]]]
  /\ \A i, j \in Ids : manifest[i] # Nothing /\ manifest[j] # Nothing => i = j
  /\ claims \in SUBSET {c \in Clones \X Ids : home[c[1]] # Nothing /\ manifest[c[2]] # Nothing}
  /\ Cardinality(claims) <= 1
  /\ index = [i \in Ids |->
                IF manifest[i] = Nothing THEN Nothing
                ELSE IF \E k \in Clones : <<k, i>> \in claims
                THEN LET k == CHOOSE k \in Clones : <<k, i>> \in claims
                     IN  [root |-> home[k], common |-> home[k]]
                ELSE [root |-> Nothing, common |-> Nothing]]
  /\ files = UNION {{<<i, x>> : x \in Held(i)} : i \in Ids}
  /\ lock = Nothing /\ readers = {} /\ lockFile = FALSE
  /\ records = {}
  /\ job = [p \in Procs |-> Nothing]
  /\ acts = 0 /\ starts = 0

(***************************************************************************)
(* Processes                                                               *)
(***************************************************************************)
AtStep(p, step) == job[p] # Nothing /\ job[p].step = step

GoTo(p, step) == job' = [job EXCEPT ![p].step = step]

(* The process ends, well or with an error; its lock goes with it.         *)
Leave(p) ==
  /\ job' = [job EXCEPT ![p] = Nothing]
  /\ lock' = IF lock = p THEN Nothing ELSE lock
  /\ readers' = readers \ {p}
  /\ UNCHANGED lockFile

Abandon(p) ==
  /\ job[p] # Nothing
  /\ Leave(p)
  /\ UNCHANGED <<world, store, counts, claims>>

RepoCommands == {"add", "refresh", "repair"}

ForRepo(p) == job[p].cmd \in RepoCommands

(***************************************************************************)
(* Users                                                                   *)
(***************************************************************************)
StoreAct(kind) ==
  /\ kind \in StoreActs
  /\ acts < MaxStoreActs
  /\ acts' = acts + 1
  /\ UNCHANGED <<locking, job, starts, claims>>

RemoveCheckout(r) ==
  /\ StoreAct("remove")
  /\ git[r] # Nothing
  /\ git' = [git EXCEPT ![r] = Nothing]
  /\ home' = [home EXCEPT ![git[r]] = IF @ = r THEN Nothing ELSE @]
  /\ UNCHANGED <<strict, store>>

CloneInto(r, k) ==
  /\ StoreAct("clone")
  /\ git[r] = Nothing
  /\ home[k] = Nothing /\ \A i \in Ids : <<k, i>> \notin claims
  /\ k \notin {git[s] : s \in Roots}
  /\ git' = [git EXCEPT ![r] = k] /\ home' = [home EXCEPT ![k] = r]
  /\ UNCHANGED <<strict, store>>

AddWorktree(r, k) ==
  /\ StoreAct("worktree")
  /\ git[r] = Nothing /\ home[k] # Nothing
  /\ git' = [git EXCEPT ![r] = k]
  /\ UNCHANGED <<home, strict, store>>

MoveCheckout(r, s) ==
  /\ StoreAct("move")
  /\ Working(r) /\ home[git[r]] = r /\ git[s] = Nothing
  /\ git' = [git EXCEPT ![r] = Nothing, ![s] = git[r]]
  /\ home' = [home EXCEPT ![git[r]] = s]
  /\ UNCHANGED <<strict, store>>

(* A manifest becomes unreadable, or is mended by hand.                    *)
CorruptManifest(i) ==
  /\ StoreAct("corrupt")
  /\ manifest[i] # Nothing /\ manifest[i].format \in {"v3", "bad"}
  /\ manifest' = [manifest EXCEPT ![i].format = IF @ = "v3" THEN "bad" ELSE "v3"]
  /\ UNCHANGED <<world, index, files, records>>

Configure ==
  /\ StoreAct("config")
  /\ strict' = ~strict
  /\ UNCHANGED <<git, home, store>>

(* A newer shelfbox stops in the middle of something, or cleans it up.     *)
NewerVersion ==
  /\ StoreAct("newer")
  /\ lock = Nothing
  /\ LET r == [kind |-> "newer"]
     IN  records' = IF r \in records THEN records \ {r} ELSE records \cup {r}
  /\ UNCHANGED <<world, index, manifest, files>>

StoreUserAct ==
  \/ \E r \in Roots :
       \/ RemoveCheckout(r)
       \/ \E k \in Clones : CloneInto(r, k) \/ AddWorktree(r, k)
       \/ \E s \in Roots : MoveCheckout(r, s)
  \/ \E i \in Ids : CorruptManifest(i)
  \/ Configure \/ NewerVersion
=============================================================================
