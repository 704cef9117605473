------------------------------ MODULE AiScoring ------------------------------
(***************************************************************************)
(* What the AI engine answers on a payment: the checks of its input        *)
(* (TransactionInput), the guardrail that keeps the model from passing a   *)
(* plainly suspicious payment, and the two words derived from the          *)
(* probability (model_service, features).                                  *)
(*                                                                         *)
(* The model itself, a random forest, is a number: any percentage.         *)
(***************************************************************************)
EXTENDS RiskRules

(* aiPayload of fraudEngine, as far as the guardrail looks at it.  small:  *)
(* hourOfDay <= 5, which is but a part of the rules' night.  The engine    *)
(* also takes 850 km for travel, which the rules' 800 km include.          *)
PayloadOf(e, small) ==
  [amount        |-> e.amount,
   velocity      |-> e.velocity,
   velocityScore |-> IF e.velocity < 5 THEN 20 * e.velocity ELSE 100,
   failures      |-> e.failures,
   deviceRisk    |-> IF e.newDevice THEN 85 ELSE 0,   \* 35 below is nothing to the engine
   newDevice     |-> e.newDevice,
   travel        |-> e.travel,
   ipRisk        |-> e.ipRisk,
   small         |-> small]

(* The bounds of TransactionInput; outside of them the answer is 422, which *)
(* the backend does not retry and takes as an outage.                      *)
Accepted(p) ==
  /\ p.amount <= 10000000 /\ p.velocity <= 1000 /\ p.failures <= 100
  /\ p.ipRisk <= 100

(* engineer_features (transactionVelocity) *)
ResolvedVelocity(p) ==
  IF p.velocity >= p.velocityScore \div 20 THEN p.velocity ELSE p.velocityScore \div 20

AmountGuard(amount) == IF amount >= 50000 THEN 84 ELSE IF amount >= 25000 THEN 52 ELSE 0

VelocityGuard(n) == IF n >= 6 THEN 76 ELSE IF n >= 3 THEN 48 ELSE 0

TravelGuard(travel) == IF travel THEN 82 ELSE 0

IpGuard(risk) == IF risk >= 85 THEN 78 ELSE IF risk >= 60 THEN 48 ELSE 0

DeviceGuard(risk, newDevice) == IF risk >= 80 \/ (newDevice /\ risk >= 60) THEN 72 ELSE 0

FailureGuard(n) == IF n >= 4 THEN 70 ELSE IF n >= 2 THEN 50 ELSE 0

HourGuard(small, amount) == IF small /\ amount >= 20000 THEN 55 ELSE 0

(* What the guardrail makes of each signal. *)
Guards(p) ==
  {AmountGuard(p.amount), VelocityGuard(ResolvedVelocity(p)), TravelGuard(p.travel),
   IpGuard(p.ipRisk), DeviceGuard(p.deviceRisk, p.newDevice), FailureGuard(p.failures),
   HourGuard(p.small, p.amount)}

Gravest(S) == CHOOSE x \in S : \A y \in S : x >= y

Capped(x) == IF x < 99 THEN x ELSE 99

(* Variant for mutation: the last of the guardrail's signals is assigned,  *)
(* not compared.                                                           *)
FraudProbabilityByHour(forest, p) ==
  IF HourGuard(p.small, p.amount) > 0 THEN HourGuard(p.small, p.amount)
  ELSE Capped(Gravest({forest} \cup Guards(p)))

(* fraud_probability: the gravest of what the model says and of            *)
(* _domain_guardrail_probability.                                          *)
FraudProbability(forest, p) == Capped(Gravest({forest} \cup Guards(p)))

(* risk_level_from_probability *)
LevelOfProbability(x) ==
  IF x >= 75 THEN "HIGH_RISK" ELSE IF x >= 40 THEN "MEDIUM_RISK" ELSE "LOW_RISK"

(* predict_transaction_fraud and decision_from_probability; None: refused. *)
EngineAnswer(forest, p) ==
  LET x == FraudProbability(forest, p)
      level == LevelOfProbability(x)
  IN  IF Accepted(p)
      THEN [decision |-> ActionFromLevel(level), level |-> level, probability |-> x, score |-> x]
      ELSE None
=============================================================================
