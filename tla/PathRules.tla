------------------------------ MODULE PathRules ------------------------------
(***************************************************************************)
(* How a path a user types becomes the path of an item, and which paths    *)
(* below a trusted root a command is ready to touch (fs/paths.rs,          *)
(* domain/path.rs, fs/secure_transfer.rs).  Pure functions of a file tree: *)
(* a path is a sequence of components, a tree gives each real path its     *)
(* entry, and a link leads to a real path.                                 *)
(***************************************************************************)
EXTENDS Integers, SequencesExt

CONSTANTS
  Typed,   \* absolute paths a user may type
  Root,    \* the root of the working tree, as Git prints it, or of the store
  Trees    \* file trees: functions from real paths to entries

Up == ".."

Names == STRING

Paths == Seq(Names)

Kind(fs, at) == IF at \in DOMAIN fs THEN fs[at].kind ELSE "missing"

(* What is in a file system lies in a directory, under a name of its own.  *)
IsTree(fs) ==
  /\ DOMAIN fs \subseteq Paths
  /\ fs \in [DOMAIN fs -> [kind : {"missing", "file", "dir", "link"}, to : Paths]]
  /\ \A at \in DOMAIN fs \ {<<>>} :
       fs[at].kind # "missing" => Last(at) # Up /\ Kind(fs, Front(at)) = "dir"

ASSUME PathsTyped ==
  /\ Typed \subseteq Paths /\ Root \in Paths
  /\ \A fs \in Trees : IsTree(fs) /\ Kind(fs, Root) = "dir"

(* What the system finds of one more component below a real path: nothing, *)
(* or one entry.                                                           *)
Entered(fs, at, name) ==
  LET next == Append(at, name)
  IN  IF Kind(fs, at) # "dir" THEN {}
      ELSE IF name = Up THEN {IF at = <<>> THEN at ELSE Front(at)}
      ELSE CASE Kind(fs, next) = "missing" -> {}
             [] Kind(fs, next) = "link" -> {to \in {fs[next].to} : Kind(fs, to) # "missing"}
             [] OTHER -> {next}

(* fs::canonicalize: where each part of a path leads, one component after  *)
(* the other.                                                              *)
Walk(fs, path) ==
  LET walk[k \in 0..Len(path)] ==
        IF k = 0 THEN {<<>>} ELSE UNION {Entered(fs, at, path[k]) : at \in walk[k - 1]}
  IN  walk

RealPath(fs, path) == Walk(fs, path)[Len(path)]

(* inspect_no_follow: only the last component is not followed.             *)
EntryKind(fs, path) ==
  IF path = <<>> THEN "dir"
  ELSE LET parent == RealPath(fs, Front(path))
       IN  IF parent = {} THEN "missing"
           ELSE LET at == CHOOSE at \in parent : TRUE
                IN  IF Kind(fs, at) # "dir" THEN "missing" ELSE Kind(fs, Append(at, Last(path)))

(* normalize_path, of what was typed below the working directory.          *)
Lexically(out, name) ==
  IF name # Up THEN Append(out, name)
  ELSE IF out = <<>> THEN out ELSE Front(out)

Normalizing(path) ==
  LET out[k \in 0..Len(path)] == IF k = 0 THEN <<>> ELSE Lexically(out[k - 1], path[k])
  IN  out

Normalized(path) == Normalizing(path)[Len(path)]

Below(root, path) ==
  IF IsPrefix(root, path) THEN {SubSeq(path, Len(root) + 1, Len(path))} ELSE {}

(* canonicalize_with_missing_tail: the longest part that can be resolved,  *)
(* and the rest as it is; a last component that is a link stays a link.    *)
WithMissingTail(fs, path) ==
  LET Resolved == {k \in 0..Len(path) - 1 : RealPath(fs, SubSeq(path, 1, k)) # {}}
      k == CHOOSE k \in Resolved : \A j \in Resolved : j <= k
  IN  IF EntryKind(fs, path) \in {"dir", "file"} THEN RealPath(fs, path)
      ELSE {at \o SubSeq(path, k + 1, Len(path)) : at \in RealPath(fs, SubSeq(path, 1, k))}

(* repo_relative_path: by its text, or else by where it leads.             *)
RepoRelative(fs, path) ==
  IF Below(Root, path) # {} THEN Below(Root, path)
  ELSE UNION {Below(root, at) : root \in WithMissingTail(fs, Root), at \in WithMissingTail(fs, path)}

(* relative_path_in_trusted_root: by its text, or else below the nearest   *)
(* directory on the way up that is the root itself.                        *)
TrustedRelative(fs, path) ==
  LET Part(k) == SubSeq(path, 1, k)
      Same == {k \in 0..Len(path) : EntryKind(fs, Part(k)) = "dir" /\ RealPath(fs, Part(k)) = {Root}}
  IN  IF Below(Root, path) # {} THEN Below(Root, path)
      ELSE {SubSeq(path, k + 1, Len(path)) : k \in {k \in Same : \A j \in Same : j <= k}}

Ancestors(rel) == {Root \o SubSeq(rel, 1, k) : k \in 1..Len(rel) - 1}

(* Mutant: what a directory on the way leads to is good enough.            *)
ParentFollowed(fs, rel) ==
  \A at \in Ancestors(rel) : \E real \in RealPath(fs, at) : Kind(fs, real) = "dir"

(* validate_parent_path: every directory on the way is one.                *)
ParentValid(fs, rel) == \A at \in Ancestors(rel) : EntryKind(fs, at) = "dir"

(* relative_path: what a record or a manifest takes for the path of an     *)
(* item.                                                                   *)
RelativePath(rel) == rel # <<>> /\ \A i \in DOMAIN rel : rel[i] # Up

(* validate_existing_parent_path: the directories there are, down to the   *)
(* first that is missing.                                                  *)
ExistingParentValid(fs, rel) == \A at \in Ancestors(rel) : EntryKind(fs, at) \in {"dir", "missing"}

(* ensure_parent_dir_in_trusted_root: makes those that are missing, and    *)
(* fails where something else is in the way.                               *)
Ensured(fs, rel) ==
  IF ~ExistingParentValid(fs, rel) THEN {}
  ELSE {[at \in DOMAIN fs \cup Ancestors(rel) |->
           IF at \in Ancestors(rel) /\ EntryKind(fs, at) = "missing"
           THEN [kind |-> "dir", to |-> <<>>] ELSE fs[at]]}

Children(fs, at) == {p \in DOMAIN fs : p # <<>> /\ Front(p) = at /\ fs[p].kind # "missing"}

Without(fs, at) == [fs EXCEPT ![at].kind = "missing"]

(* prune_empty_item_ancestors: from the innermost directory of an item     *)
(* that has gone towards the root, as long as they are empty.              *)
Prune(done, at) ==
  IF done.going /\ EntryKind(done.tree, at) = "dir" /\ Children(done.tree, at) = {}
  THEN [tree |-> Without(done.tree, at), going |-> TRUE]
  ELSE [tree |-> done.tree, going |-> FALSE]

Pruning(fs, rel) ==
  LET done[k \in 0..Len(rel) - 1] ==
        IF k = 0 THEN [tree |-> fs, going |-> TRUE]
        ELSE Prune(done[k - 1], Root \o SubSeq(rel, 1, Len(rel) - k))
  IN  done

Pruned(fs, rel) ==
  IF ~ParentValid(fs, Front(rel)) THEN fs ELSE Pruning(fs, rel)[Len(rel) - 1].tree

(***************************************************************************)
(* Promises                                                                *)
(***************************************************************************)

(* The path and the item's path below the root are names of one entry.     *)
SameEntry(fs, path, rel) ==
  /\ RealPath(fs, Front(path)) = {Root \o Front(rel)}
  /\ Last(path) = Last(rel)

Accepted(fs, path) ==
  {rel \in RepoRelative(fs, path) \cup TrustedRelative(fs, path) : RelativePath(rel)}

(* However the user's path and the root are spelled, through links to the  *)
(* root, to directories of it or out of it, and whatever is missing of it: *)
(* a path that is accepted and whose directories pass the check before a   *)
(* write, after the missing ones have been made, names the entry the user  *)
(* means, and no entry has a second name in the manifest.                  *)
(* (repo_relative_path, relative_path_in_trusted_root, validate_parent_path*)
(* and ensure_parent_dir_in_trusted_root together.)                        *)
NamesOneEntry ==
  \A fs \in Trees : \A path \in {Normalized(typed) : typed \in Typed} :
    \A rel \in Accepted(fs, path) : \A made \in Ensured(fs, rel) \cup {fs} :
      ParentValid(made, rel) => SameEntry(made, path, rel)

(* Where there are no links, a path with dots in it means what it means to *)
(* the system.                                                             *)
DotsMeanTheSame ==
  \A fs \in {fs \in Trees : \A p \in DOMAIN fs : fs[p].kind # "link"} :
    \A typed \in Typed : RealPath(fs, typed) \subseteq {Normalized(typed)}

(* Pruning removes the directories that held nothing but the way to the    *)
(* item, and nothing else.                                                 *)
PrunesOnlyTheWay ==
  \A fs \in Trees : \A path \in {Normalized(typed) : typed \in Typed} :
    \A rel \in Below(Root, path) \ {<<>>} :
      LET Inside(at) == {p \in DOMAIN fs : IsStrictPrefix(at, p) /\ fs[p].kind # "missing"}
          Gone == {at \in Ancestors(rel) : Inside(at) \subseteq Ancestors(rel)}
      IN  ParentValid(fs, rel) /\ EntryKind(fs, Root \o rel) = "missing"
          => Pruned(fs, rel) = [p \in DOMAIN fs |-> IF p \in Gone THEN [fs[p] EXCEPT !.kind = "missing"]
                                                    ELSE fs[p]]

PathsSound == NamesOneEntry /\ DotsMeanTheSame /\ PrunesOnlyTheWay
=============================================================================
