---------------------------- MODULE CanonicalView ----------------------------
(***************************************************************************)
(* What sync, relink, repair and materialize promise about one item: there *)
(* is a canonical content and what the working tree shows, and the two are *)
(* brought together only the way somebody asked for.  The canonical        *)
(* content changes only when the user writes through the link or asks for  *)
(* it to be taken from the working tree; a file in the working tree that   *)
(* differs from it is overwritten only when the user asks for that.  A     *)
(* commit the user raced with (raced) promises nothing any more.           *)
(* Nothing here knows of temps, backups, records or stops.                 *)
(***************************************************************************)
EXTENDS Naturals

CONSTANTS Contents, Link

VARIABLES shown, canonical, request, acts, raced

vars == <<shown, canonical, request, acts, raced>>

Init ==
  /\ canonical \in Contents
  /\ request = "none"
  /\ acts = 0 /\ raced = "no"

(* The user acts, perhaps while a commit is pending.                       *)
UserStep ==
  /\ acts' = acts + 1
  /\ raced' \in (IF raced = "no" THEN {"no", "pending"} ELSE {raced})
  /\ canonical' = canonical \/ (shown = Link /\ shown' = Link /\ canonical' \in Contents)
  /\ UNCHANGED request

Ask ==
  /\ request = "none" /\ request' \in {"FromStore", "FromRepo"}
  /\ UNCHANGED <<shown, canonical, acts, raced>>

(* A command ends or fails, and what was pending never happens.            *)
Settle ==
  /\ request' \in {request, "none"}
  /\ raced' \in (IF raced = "pending" THEN {"no"} ELSE {raced})
  /\ UNCHANGED <<shown, canonical, acts>>

Committed == raced' = (IF raced = "no" THEN "no" ELSE "yes")

(* The canonical content, or a link to it, becomes what the tree shows.    *)
Show ==
  /\ Committed /\ shown' \in Contents \cup {Link}
  /\ \/ shown \notin Contents \/ shown = canonical
     \/ request = "FromStore"
     \/ raced' = "yes"
  /\ UNCHANGED <<canonical, request, acts>>

(* What the tree shows becomes the canonical content.                      *)
Take ==
  /\ Committed /\ request = "FromRepo"
  /\ canonical' \in Contents
  /\ UNCHANGED <<shown, request, acts>>

Next == UserStep \/ Ask \/ Settle \/ Show \/ Take

Spec == Init /\ [][Next]_vars
=============================================================================
