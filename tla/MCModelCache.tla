---------------------------- MODULE MCModelCache ----------------------------
(***************************************************************************)
(* Small instances of ModelCache: two processes, two conversions that      *)
(* differ, files of a header and one more chunk.                           *)
(***************************************************************************)
EXTENDS ModelCache, TLC

Symmetry == Permutations(Procs) \cup Permutations(Plans) \cup Permutations(Inodes)
=============================================================================
