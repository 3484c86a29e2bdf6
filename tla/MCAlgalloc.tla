------------------------------- MODULE MCAlgalloc -------------------------------
(* Small instances of Algalloc for TLC. *)
EXTENDS Algalloc, TLC

\* Blocks and sandboxes are interchangeable: for the runs without liveness.
Symmetry == Permutations(Block) \union Permutations(Sandbox)

================================================================================
