------------------------------ MODULE RiskRules ------------------------------
(***************************************************************************)
(* The arithmetic of the fraud decision: the points each signal adds to    *)
(* the rule score (riskEngineService), the reading of an AI answer         *)
(* (aiService) and the level and status that follow (fraudEngine).         *)
(*                                                                         *)
(* Amounts are whole rupees, scores are points of 100, and a probability   *)
(* is carried as its percentage.                                           *)
(***************************************************************************)
EXTENDS Naturals

CONSTANT None   \* absent value

Level == {"LOW_RISK", "MEDIUM_RISK", "HIGH_RISK"}
Action == {"ALLOWED", "FLAGGED", "BLOCKED"}

ASSUME NoneIsNoWord == None \notin Level \cup Action \cup Nat

Rank(level) == CASE level = "LOW_RISK" -> 0 [] level = "MEDIUM_RISK" -> 1 [] OTHER -> 2

-----------------------------------------------------------------------------
(* calculateRuleRisk. *)

(* What the engine knows of a payment when it scores it. *)
Evidence ==
  [amount    : Nat,       \* transactionAmount
   velocity  : Nat,       \* payments of the identity in the last ten minutes
   failures  : Nat,       \* suspicious ones in the last hour
   newDevice : BOOLEAN,   \* the last payment came from another device
   travel    : BOOLEAN,   \* ... and from more than 800 km away
   ipRisk    : Nat,       \* ipRisk of the client address
   night     : BOOLEAN]   \* hourOfDay <= 5 or >= 23

AmountPoints(amount) ==
  IF amount > 50000 THEN 100 ELSE IF amount >= 25000 THEN 20 ELSE 0

(* Variant for mutation: the comparison with VELOCITY_FLAG_COUNT is strict. *)
VelocityPointsLate(n) == IF n > 3 THEN 40 ELSE 10 * n

(* The cap of 30 on the lower steps, here and below, never binds. *)
VelocityPoints(n) == IF n >= 3 THEN 40 ELSE 10 * n

FailurePoints(n) == IF n >= 3 THEN 35 ELSE 12 * n

IpPoints(risk) == IF risk >= 80 THEN 25 ELSE IF risk >= 55 THEN 12 ELSE 0

(* hourRiskContribution *)
TimingPoints(night, amount) ==
  IF ~night THEN 0 ELSE IF amount >= 20000 THEN 15 ELSE 6

DevicePoints(newDevice) == IF newDevice THEN 20 ELSE 0

TravelPoints(travel) == IF travel THEN 45 ELSE 0

Points(e) ==
  AmountPoints(e.amount) + VelocityPoints(e.velocity) + FailurePoints(e.failures)
    + DevicePoints(e.newDevice) + TravelPoints(e.travel) + IpPoints(e.ipRisk)
    + TimingPoints(e.night, e.amount)

(* Variant for mutation: the sum is not capped. *)
RuleScoreUncapped(e) == Points(e)

RuleScore(e) == IF Points(e) < 100 THEN Points(e) ELSE 100

(* Variant for mutation: one threshold serves both levels. *)
DecisionFromScoreLow(score) == IF score >= 40 THEN "HIGH_RISK" ELSE "LOW_RISK"

(* decisionFromScore *)
DecisionFromScore(score) ==
  IF score >= 75 THEN "HIGH_RISK" ELSE IF score >= 40 THEN "MEDIUM_RISK" ELSE "LOW_RISK"

(* The keys of reasons: the signals that added points, and what the engine *)
(* adds to them.                                                           *)
Reason == {"amount", "velocity", "repeatedFailures", "deviceMismatch", "impossibleTravel",
           "ipRisk", "transactionTiming", "aiHighConfidence", "aiServiceUnavailable"}

Reasons(e) ==
  {r \in {"amount"} : AmountPoints(e.amount) > 0}
    \cup {r \in {"velocity"} : VelocityPoints(e.velocity) > 0}
    \cup {r \in {"repeatedFailures"} : FailurePoints(e.failures) > 0}
    \cup {r \in {"deviceMismatch"} : e.newDevice}
    \cup {r \in {"impossibleTravel"} : e.travel}
    \cup {r \in {"ipRisk"} : IpPoints(e.ipRisk) > 0}
    \cup {r \in {"transactionTiming"} : e.night}

-----------------------------------------------------------------------------
(* normalizePrediction. *)

(* An answer of the AI service.  decision may hold an action or, in the    *)
(* older form of the answer, a level; None is absent or unreadable.        *)
Answer ==
  [decision    : Action \cup Level \cup {None},
   level       : Level \cup {None},
   probability : (0 .. 100) \cup {None},
   score       : (0 .. 100) \cup {None}]

(* What the engine reads off an answer. *)
Reading == [decision : Action, level : Level, score : 0 .. 100]

ASSUME NoneIsNoRecord == None \notin Answer \cup Reading

ActionFromLevel(level) ==
  CASE level = "HIGH_RISK" -> "BLOCKED" [] level = "MEDIUM_RISK" -> "FLAGGED"
    [] OTHER -> "ALLOWED"

LevelFromAction(action) ==
  CASE action = "BLOCKED" -> "HIGH_RISK" [] action = "FLAGGED" -> "MEDIUM_RISK"
    [] OTHER -> "LOW_RISK"

(* A level that is there and unreadable is taken for none; the code does   *)
(* not look for one in the decision then.                                  *)
RawLevel(answer) ==
  IF answer.level # None THEN answer.level
  ELSE IF answer.decision \in Level THEN answer.decision ELSE None

ActionOf(answer) ==
  IF answer.decision \in Action THEN answer.decision ELSE ActionFromLevel(RawLevel(answer))

LevelOf(answer) ==
  IF RawLevel(answer) # None THEN RawLevel(answer) ELSE LevelFromAction(ActionOf(answer))

(* Only an answer without any finite number is thrown away; one without a  *)
(* readable decision and level is taken as LOW_RISK.                       *)
Prediction(answer) ==
  IF answer.probability = None /\ answer.score = None THEN None
  ELSE [decision |-> ActionOf(answer), level |-> LevelOf(answer),
        score |-> IF answer.score # None THEN answer.score ELSE answer.probability]

-----------------------------------------------------------------------------
(* fraudEngine: the final level.  p is a prediction, or None in an outage. *)

(* Variant for mutation: the engine falls back to the rules alone. *)
FinalLevelRulesOnly(e, p) ==
  LET rules == DecisionFromScore(RuleScore(e))
      ai == IF p = None THEN None ELSE p.level
  IN  IF e.amount > 50000 \/ rules = "HIGH_RISK" \/ ai = "HIGH_RISK" THEN "HIGH_RISK"
      ELSE IF rules = "MEDIUM_RISK" \/ ai = "MEDIUM_RISK" THEN "MEDIUM_RISK"
      ELSE "LOW_RISK"

FinalLevel(e, p) ==
  LET rules == DecisionFromScore(RuleScore(e))
      ai == IF p = None THEN None ELSE p.level
  IN  IF e.amount > 50000 \/ rules = "HIGH_RISK" \/ ai = "HIGH_RISK" THEN "HIGH_RISK"
      ELSE IF rules = "MEDIUM_RISK" \/ ai = "MEDIUM_RISK" \/ p = None THEN "MEDIUM_RISK"
      ELSE "LOW_RISK"

(* The reasons reported: aiServiceUnavailable only when it decided.        *)
ReportedReasons(e, p) ==
  Reasons(e)
    \cup {r \in {"aiHighConfidence"} : p # None /\ p.score >= 75}
    \cup {r \in {"aiServiceUnavailable"} :
            p = None /\ DecisionFromScore(RuleScore(e)) = "LOW_RISK"}

Status == {"ALLOWED", "FLAGGED_OTP", "BLOCKED"}

(* statusFromRiskLevel *)
StatusFromLevel(level) ==
  CASE level = "HIGH_RISK" -> "BLOCKED" [] level = "MEDIUM_RISK" -> "FLAGGED_OTP"
    [] OTHER -> "ALLOWED"

Suspicious(status) == status \in {"BLOCKED", "FLAGGED_OTP"}
=============================================================================
