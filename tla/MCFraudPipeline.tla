--------------------------- MODULE MCFraudPipeline ---------------------------
EXTENDS FraudPipeline, TLC

CONSTANTS a1, a2, home, abroad

(* The first address is at home, any other one abroad. *)
HomeAndAbroad == [addr \in Address |-> IF addr = a1 THEN home ELSE abroad]

(* What the AI engine says of a payment. *)
Says(level, score) == [decision |-> ActionFromLevel(level), level |-> level,
                       probability |-> score, score |-> score]
Calm == {Says("LOW_RISK", 10)}
AllOrNothing == {Says("LOW_RISK", 10), Says("HIGH_RISK", 90)}

(* Slots are interchangeable, and so are users and devices. *)
Symmetry == Permutations(Slot) \cup Permutations(User) \cup Permutations(Device)
=============================================================================
