----------------------------- MODULE ExcludeSet -----------------------------
(***************************************************************************)
(* The exclude block as every other module here takes it: a set of entries *)
(* changed atomically, beside lines of the user that stay as they are.     *)
(* Only an act of the user, a stop in the middle of a write (cut), a power *)
(* loss, or a write that did not see an edit (raced) changes more.         *)
(***************************************************************************)
EXTENDS Naturals

VARIABLES entries, lines, request, edits, losses, raced, cut

vars == <<entries, lines, request, edits, losses, raced, cut>>

Init == request = [op |-> "none", set |-> {}] /\ ~raced /\ ~cut

Excused == edits' > edits \/ losses' > losses \/ raced \/ (cut' /\ ~cut)

Ask ==
  /\ request.op = "none"
  /\ ~raced' /\ ~cut'
  /\ UNCHANGED <<entries, lines, edits, losses>>

Perform ==
  /\ entries' = CASE request.op = "add"     -> entries \cup request.set
                  [] request.op = "remove"  -> entries \ request.set
                  [] request.op = "replace" -> request.set
                  [] OTHER -> entries
  /\ request'.op = "none"
  /\ UNCHANGED <<lines, edits, losses, raced, cut>>

Forget == request'.op = "none" /\ UNCHANGED <<entries, lines, edits, losses, raced, cut>>

Next == Ask \/ Perform \/ Forget \/ Excused

Spec == Init /\ [][Next]_vars
=============================================================================
