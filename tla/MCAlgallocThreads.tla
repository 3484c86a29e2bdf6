--------------------------- MODULE MCAlgallocThreads ---------------------------
(* Small instances of AlgallocThreads for TLC. *)
EXTENDS AlgallocThreads, TLC

\* Threads and blocks are interchangeable, and nothing here is about liveness.
Symmetry == Permutations(Thread) \union Permutations(Block)

\* Nothing is promised once user code has raced against itself: TLC does not
\* go on from there.
Promised == overlaps \subseteq {"late_malloc"}

================================================================================
