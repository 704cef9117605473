----------------------------- MODULE MCFraudDesk -----------------------------
(***************************************************************************)
(* FraudDesk for TLC: the evidence on both sides of every threshold, two   *)
(* payments, customers, threads and fields; the ends that are not looked   *)
(* at start in one way only.                                               *)
(***************************************************************************)
EXTENDS FraudDesk, TLC

(* Both sides of every threshold of the rules, of the guardrail and of the *)
(* bounds of the AI engine's input.                                        *)
BoundaryAmounts == {1, 19999, 20000, 24999, 25000, 49999, 50000, 50001}
BoundaryVelocities == {0, 1, 2, 3, 6, 1001}
BoundaryFailures == {0, 1, 2, 3, 4, 101}
BoundaryIpRisks == {0, 55, 60, 80, 85}
BoundaryForest == {39, 40, 75}

(* The form of an answer that puts the level in decision, which            *)
(* normalizePrediction also reads, an answer without numbers, and an       *)
(* outage.                                                                 *)
AnswersSeen ==
  {[decision |-> l, level |-> None, probability |-> None, score |-> 50] : l \in Level}
  \cup {[decision |-> "ALLOWED", level |-> "LOW_RISK", probability |-> None, score |-> None], None}

Symmetry == Permutations(Payments) \cup Permutations(Field)

(* Where the ends that are not looked at stay. *)
OneEvidence == e.amount = 50001 /\ opinion = None

OnePage == part = "alerts" /\ limit = 2 /\ status = [p \in Payments |-> "ALLOWED"]

OneVault == base = (CHOOSE b \in BaseVersion : TRUE) /\ ~timed

MCInit ==
  /\ DeskInit
  /\ end # "verdict" => OneEvidence
  /\ end # "vault" => OneVault
  /\ end # "page" => OnePage

MCSpec == MCInit /\ [][DeskNext]_deskVars
=============================================================================
