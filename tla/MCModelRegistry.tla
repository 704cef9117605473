--------------------------- MODULE MCModelRegistry ---------------------------
EXTENDS ModelRegistry, TLC

(* Threads are interchangeable, and so are versions. *)
Symmetry == Permutations(Thread) \cup Permutations(Version)
=============================================================================
