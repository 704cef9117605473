------------------------------- MODULE MCMfa -------------------------------
EXTENDS Mfa, TLC

(* Sessions, handler slots, secrets, batches and indices are interchangeable. *)
Symmetry ==
  Permutations(Session) \cup Permutations(Request) \cup Permutations(Secret)
    \cup Permutations(Batch) \cup Permutations(Slot)
=============================================================================
