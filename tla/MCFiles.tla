------------------------------ MODULE MCFiles ------------------------------
(* MetadataFiles with small bounds on its versions and power losses.       *)
EXTENDS MetadataFiles
=============================================================================
