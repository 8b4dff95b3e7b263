---------------------------- MODULE ExcludeFile ----------------------------
(***************************************************************************)
(* .git/info/exclude on the disk: shelfbox reads it, rewrites it with      *)
(* fs::write, and may stop or lose power in between, while the user edits  *)
(* it in an editor.  exclude is what a reader sees now, disk what a power  *)
(* loss may leave.                                                         *)
(***************************************************************************)
EXTENDS ExcludeBlock

CONSTANTS
  Nothing,     \* no rewrite is under way
  MaxRewrites, \* bound: rewrites of the file
  MaxEdits,    \* bound: edits by the user
  MaxLosses    \* bound: power losses

RewriteOps == {"add", "remove", "replace"}

Jobs == [op : RewriteOps, set : SUBSET Entries, read : Seq(Nat), value : Seq(Nat),
         step : {"truncate", "write"}]

ASSUME NothingDistinct == Nothing \notin Jobs

VARIABLES
  exclude,     \* the lines of the file
  disk,        \* what a power loss may leave of it
  rewriting,   \* the rewrite under way
  rewrites, edits, losses,
  raced,       \* ghost: the user edited the file during the rewrite
  cut          \* ghost: the rewrite stopped half-way

counts == <<rewrites, edits, losses>>
ghosts == <<raced, cut>>
excludeVars == <<exclude, disk, rewriting, counts, ghosts>>

ExcludeInit ==
  /\ exclude \in {<<>>} \cup {<<l>> : l \in UserLines \cup {Blank}}
                 \cup {<<l, Blank, m>> : l, m \in UserLines}
  /\ disk = {exclude}
  /\ rewriting = Nothing
  /\ rewrites = 0 /\ edits = 0 /\ losses = 0
  /\ raced = FALSE /\ cut = FALSE

RewriteAt(step) == rewriting # Nothing /\ rewriting.step = step

Rewrite(op, set, lines) ==
  /\ rewriting = Nothing
  /\ rewrites < MaxRewrites /\ rewrites' = rewrites + 1
  /\ rewriting' = [op |-> op, set |-> set, read |-> exclude, value |-> lines,
                   step |-> "truncate"]
  /\ raced' = FALSE /\ cut' = FALSE
  /\ UNCHANGED <<exclude, disk, edits, losses>>

(* add_entries, remove_entries and update_entries read the file afresh and *)
(* refuse a block they cannot parse.                                       *)
Read(op, set) == WellFormed(exclude) /\ Rewrite(op, set, Rewritten(op, set, exclude))

(* fs::write opens the file with truncation, and then writes it.  Bound:   *)
(* earlier rewrites have reached the disk by now.                          *)
Truncate ==
  /\ RewriteAt("truncate")
  /\ exclude' = <<>>
  /\ disk' = {exclude, <<>>}
  /\ rewriting' = [rewriting EXCEPT !.step = "write"]
  /\ UNCHANGED <<counts, ghosts>>

Write ==
  /\ RewriteAt("write")
  /\ exclude' = rewriting.value
  /\ disk' = disk \cup Prefixes(rewriting.value)
  /\ rewriting' = Nothing
  /\ UNCHANGED <<counts, ghosts>>

(* An error, or the end of the process.                                    *)
Stop ==
  /\ rewriting # Nothing /\ rewriting' = Nothing
  /\ cut' = RewriteAt("write")
  /\ UNCHANGED <<exclude, disk, counts, raced>>

PowerLoss ==
  /\ losses < MaxLosses /\ losses' = losses + 1
  /\ exclude' \in disk /\ disk' = {exclude'}
  /\ rewriting' = Nothing
  /\ UNCHANGED <<rewrites, edits, ghosts>>

(* The user adds a line anywhere or takes one away, a delimiter included.  *)
Edit ==
  /\ edits < MaxEdits /\ edits' = edits + 1
  /\ \/ \E i \in 1..Len(exclude) + 1, l \in UserLines : exclude' = InsertAt(exclude, i, l)
     \/ \E i \in DOMAIN exclude : exclude' = RemoveAt(exclude, i)
  /\ disk' = disk \cup {exclude'}
  /\ raced' = (rewriting # Nothing)
  /\ UNCHANGED <<rewriting, rewrites, losses, cut>>

ExcludeNext ==
  \/ \E op \in {"add", "remove"}, e \in Entries : Read(op, {e})
  \/ \E set \in SUBSET Entries : Read("replace", set)
  \/ Truncate \/ Write \/ Stop \/ PowerLoss \/ Edit

ExcludeSpec == ExcludeInit /\ [][ExcludeNext]_excludeVars

(* Adding and removing entries over and over does not make the file grow:  *)
(* beyond the user's lines it is one block and its separator, whatever     *)
(* stops, power losses and edits came between; and what a rewrite writes   *)
(* the next one can read (git/exclude.rs:119).                             *)
OneBlock ==
  /\ Cardinality(Occurrences(exclude, Blank)) <= 2 + edits
  /\ \A line \in {BeginMark, EndMark} : Cardinality(Occurrences(exclude, line)) <= 1
  /\ rewriting # Nothing => WellFormed(rewriting.value)

(***************************************************************************)
(* The file implements a set of entries beside the user's own lines        *)
(***************************************************************************)
Meant == IF RewriteAt("write") THEN rewriting.read ELSE exclude

Set == INSTANCE ExcludeSet WITH
  entries <- EntriesOf(Meant),
  lines <- OwnLines(Meant),
  request <- IF rewriting = Nothing THEN [op |-> "none", set |-> {}]
                                    ELSE [op |-> rewriting.op, set |-> rewriting.set]

(* A rewrite that runs to its end changes exactly the entries it was asked *)
(* to and none of the user's lines, however the file looked before; any    *)
(* other change takes an edit, a power loss, a stop half-way, or an edit   *)
(* the rewrite did not see.  Every other module here takes the block for   *)
(* such a set.  Of the stop half-way, see ReplacedAtomically.              *)
ImplementsExcludeSet == Set!Spec

(* git/exclude.rs:52: "The entire block is replaced atomically on every    *)
(* write", and :100: "Atomically writes `contents`": however a rewrite     *)
(* ends that no edit and no power loss meets, the file is the one it read  *)
(* or the one it meant to write.  fs::write (:111) truncates it first.     *)
ReplacedAtomically ==
  [][rewriting # Nothing /\ rewriting' = Nothing /\ edits' = 0 /\ losses' = 0 =>
       exclude' \in {rewriting.read, rewriting.value}]_excludeVars
=============================================================================
