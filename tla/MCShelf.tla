------------------------------ MODULE MCShelf ------------------------------
(* Shelf with model values for its paths and contents.                     *)
EXTENDS Shelf, TLC

Symmetry == Permutations(Paths) \cup Permutations(Contents)

(* A user edits in place a file that the command at work has copied or     *)
(* inspected and will remove by its identity alone: the source of an add   *)
(* across volumes (fs/canonical_transfer.rs:666), a copy that moves        *)
(* (ops/move_item.rs:219).  The run moveedit shows what becomes of it.     *)
EditUnseen ==
  /\ acts' # acts /\ same' /\ Running /\ ~Recovering
  /\ repo'[rec.path] # repo[rec.path]
  /\ \/ rec.op = "add" /\ rec.phase = "ExcludeWritten" /\ pc \in {"install", "unlink"}
     \/ rec.op = "move" /\ rec.strategy = "copy"

(* Recovery takes back a move stopped early, as the run moveleak shows.    *)
MoveTakenBack == pc = "RemoveOperationOwnedExclude" /\ rec.op = "move" /\ pc' = "drop"

(* What the other runs cover, without the steps of these two findings.     *)
FindingsApart == ~EditUnseen /\ ~MoveTakenBack
=============================================================================
