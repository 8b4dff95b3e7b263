------------------------------ MODULE ItemBook ------------------------------
(***************************************************************************)
(* What shelfbox promises about its items, without saying how: each path   *)
(* has an ownership state and the versions of the content that the item or *)
(* file there stands for.  A command changes ownership in one step and     *)
(* neither loses nor invents a version.  Only the user changes versions,   *)
(* one path at a time, and every act of the user is counted; a version the *)
(* user has overwritten or deleted somewhere (discarded) is no longer      *)
(* promised, and a command that raced with the user may drop it or bring   *)
(* it back.  Nothing here knows of links, backups, records or crashes.     *)
(***************************************************************************)
EXTENDS Naturals

CONSTANTS Paths, Contents

VARIABLES status, versions, acts, discarded

vars == <<status, versions, acts, discarded>>

Init ==
  /\ status = [p \in Paths |-> "absent"]
  /\ versions \in [Paths -> SUBSET Contents]
  /\ acts = 0
  /\ discarded = {}

Add(p) ==
  /\ status[p] = "absent" /\ versions[p] # {}
  /\ status' = [status EXCEPT ![p] = "attached"]
  /\ UNCHANGED <<versions, acts, discarded>>

Detach(p) ==
  /\ status[p] = "attached"
  /\ status' = [status EXCEPT ![p] = "detached"]
  /\ UNCHANGED <<versions, acts, discarded>>

Restore(p) ==
  /\ status[p] # "absent"
  /\ status' = [status EXCEPT ![p] = "absent"]
  /\ UNCHANGED <<versions, acts, discarded>>

(* What the user put at either path meanwhile stays at one of the two.     *)
Move(old, new) ==
  /\ status[old] # "absent" /\ status[new] = "absent"
  /\ status' = [status EXCEPT ![old] = "absent", ![new] = status[old]]
  /\ \E v, w \in SUBSET Contents :
       /\ v \cup w = versions[old] \cup versions[new]
       /\ versions' = [versions EXCEPT ![old] = v, ![new] = w]
  /\ UNCHANGED <<acts, discarded>>

(* A race: discarded versions of a path come or go.                        *)
Settle(p) ==
  /\ \E v \in SUBSET Contents :
       /\ v \ discarded = versions[p] \ discarded
       /\ versions' = [versions EXCEPT ![p] = v]
  /\ UNCHANGED <<status, acts, discarded>>

(* The user edits, replaces or deletes what is at one path.                *)
Touch(p) ==
  /\ acts' = acts + 1
  /\ \E v \in SUBSET Contents : versions' = [versions EXCEPT ![p] = v]
  /\ discarded' \in {discarded \cup v : v \in SUBSET Contents}
  /\ UNCHANGED status

Next ==
  \/ \E p \in Paths : Add(p) \/ Detach(p) \/ Restore(p) \/ Settle(p) \/ Touch(p)
  \/ \E old, new \in Paths : Move(old, new)

Spec == Init /\ [][Next]_vars
=============================================================================
