----------------------------- MODULE MCExclude -----------------------------
(* ExcludeFile with numbers for its lines.                                 *)
EXTENDS ExcludeFile
=============================================================================
