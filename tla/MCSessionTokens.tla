--------------------------- MODULE MCSessionTokens ---------------------------
EXTENDS SessionTokensInv, TLC

(* Sessions, grants and handler slots are interchangeable ids. *)
Symmetry == Permutations(Session) \cup Permutations(Grant) \cup Permutations(Request)
=============================================================================
