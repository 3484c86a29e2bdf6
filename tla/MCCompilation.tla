----------------------------- MODULE MCCompilation -----------------------------
(***************************************************************************)
(* Small instances of Compilation for TLC.  One process with two           *)
(* algorithms meets what its earlier runs left; two processes meet each    *)
(* other in the temporary directory.                                       *)
(***************************************************************************)
EXTENDS Compilation, TLC

Symmetry == Permutations(Run) \union Permutations(Algorithm)

================================================================================
