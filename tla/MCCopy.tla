------------------------------ MODULE MCCopy ------------------------------
(* CopyItem with model values for its contents.                            *)
EXTENDS CopyItem, TLC

Symmetry == Permutations(Contents)
=============================================================================
