---------------------------- MODULE MCLoginRisk ----------------------------
EXTENDS LoginRisk, TLC

CONSTANTS home, office, road   \* addresses: one private, two public

Symmetry == Permutations(Request) \cup Permutations(Device) \cup Permutations({office, road})
=============================================================================
