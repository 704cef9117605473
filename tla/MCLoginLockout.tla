--------------------------- MODULE MCLoginLockout ---------------------------
EXTENDS LoginLockout, TLC

(* Handler slots are interchangeable; e-mails are not (some are registered). *)
Symmetry == Permutations(Attempt) \cup Permutations(Address)

(* Bound: after a crash only attempts that come one at a time are followed. *)
SerialAfterCrash == crashes > 0 => overlapped = {}
=============================================================================
