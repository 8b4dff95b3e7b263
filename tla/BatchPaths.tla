----------------------------- MODULE BatchPaths -----------------------------
(***************************************************************************)
(* Commands over several items together with the rules that turn what a    *)
(* user types into the paths of those items.                               *)
(***************************************************************************)
EXTENDS BatchItems, PathRules

(* Whatever paths a running command has been given, the rules it goes by   *)
(* name the entries the user means: PathsSound (repo_relative_path).       *)
CommandPathsSound == job # NoJob => PathsSound
=============================================================================
