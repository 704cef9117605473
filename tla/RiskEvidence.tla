---------------------------- MODULE RiskEvidence ----------------------------
(***************************************************************************)
(* One payment whose evidence gets worse step by step: at each step one    *)
(* signal rises, or the AI says something graver.  The verdict is what the *)
(* fraud engine would say of the payment as it stands.                     *)
(***************************************************************************)
EXTENDS AiScoring

CONSTANTS
  Amounts,     \* amounts a payment may have
  Velocities,  \* values of the velocity counter
  Failures,    \* values of the failure counter
  IpRisks,     \* values of ipRisk
  Forest,      \* what the model of the AI engine may say, in percent
  Answers      \* answers of an AI service of another version; None: an outage

(* Decision and riskLevel of an answer agree, as in the engine's own.      *)
Consistent(a) ==
  /\ RawLevel(a) # None
  /\ a.decision \in Action => a.decision = ActionFromLevel(RawLevel(a))
  /\ a.decision \in Level => a.decision = RawLevel(a)

ASSUME InputAssumption ==
  /\ Amounts \subseteq Nat /\ Velocities \subseteq Nat /\ Failures \subseteq Nat
  /\ IpRisks \subseteq Nat /\ Forest \subseteq 0 .. 100
  /\ Answers \subseteq {a \in Answer : Consistent(a)} \cup {None}

(* What the AI makes of the payment: the engine computes its answer from   *)
(* what its model says, another service is taken at its word.              *)
Own == [forest : Forest]
Opinions == Own \cup Answers

VARIABLES
  e,        \* the evidence
  small,    \* hourOfDay <= 5
  opinion,  \* the AI's opinion
  answer    \* what it answers on the payment as it stands

vars == <<e, small, opinion, answer>>

AnswerTo(f, s, o) == IF o \in Own THEN EngineAnswer(o.forest, PayloadOf(f, s)) ELSE o

TypeOK ==
  /\ e \in Evidence
  /\ small \in BOOLEAN
  /\ opinion \in Opinions
  /\ answer = AnswerTo(e, small, opinion)
  /\ RuleScore(e) \in 0 .. 100

(* The engine refuses to score the payment. *)
Refused == opinion \in Own /\ ~Accepted(PayloadOf(e, small))

(* getFraudPrediction: without an answer it returns the fallback. *)
PredictionFrom(a) == IF a = None THEN None ELSE Prediction(a)

(* How grave an answer claims the payment to be: an outage counts as a     *)
(* suspicion, because the engine must not let it pass.                     *)
Claim(a) ==
  IF PredictionFrom(a) = None THEN 1
  ELSE IF "HIGH_RISK" \in {a.level, a.decision} \/ a.decision = "BLOCKED" THEN 2
  ELSE IF "MEDIUM_RISK" \in {a.level, a.decision} \/ a.decision = "FLAGGED" THEN 1
  ELSE 0

Verdict == FinalLevel(e, PredictionFrom(answer))

Init ==
  /\ e \in [amount : Amounts, velocity : {0}, failures : {0}, newDevice : {FALSE},
            travel : {FALSE}, ipRisk : {0}, night : {FALSE}]
  /\ small = FALSE
  /\ opinion \in Opinions
  /\ answer = AnswerTo(e, small, opinion)

(* The payment is scored again. *)
Rescore == answer' = AnswerTo(e', small', opinion')

Rise(f) == e' = f /\ UNCHANGED <<small, opinion>> /\ Rescore

Pay(x) == x > e.amount /\ Rise([e EXCEPT !.amount = x])
Repeat(n) == n > e.velocity /\ Rise([e EXCEPT !.velocity = n])
FailAgain(n) == n > e.failures /\ Rise([e EXCEPT !.failures = n])
ChangeDevice == ~e.newDevice /\ Rise([e EXCEPT !.newDevice = TRUE])
Travel == ~e.travel /\ Rise([e EXCEPT !.travel = TRUE])
ChangeAddress(x) == x > e.ipRisk /\ Rise([e EXCEPT !.ipRisk = x])
GoLate == ~e.night /\ Rise([e EXCEPT !.night = TRUE])
PassMidnight == e.night /\ ~small /\ small' = TRUE /\ UNCHANGED <<e, opinion>> /\ Rescore
Accuse(o) == opinion' = o /\ UNCHANGED <<e, small>> /\ Rescore /\ Claim(answer') > Claim(answer)

Next ==
  \/ \E x \in Amounts : Pay(x)
  \/ \E n \in Velocities : Repeat(n)
  \/ \E n \in Failures : FailAgain(n)
  \/ \E x \in IpRisks : ChangeAddress(x)
  \/ ChangeDevice \/ Travel \/ GoLate \/ PassMidnight
  \/ \E o \in Opinions : Accuse(o)

Spec == Init /\ [][Next]_vars

-----------------------------------------------------------------------------
(* Properties. *)

(* Worse evidence never earns a milder verdict, across every threshold of  *)
(* every rule and of the guardrail, all forms of the AI's answer and its   *)
(* outage, with one exception: evidence so bad that the AI engine refuses  *)
(* to score it any more, which the backend takes as an outage.             *)
EvidenceNeverHelps ==
  [][(Refused' => Refused) => Rank(Verdict') >= Rank(Verdict)]_vars

Signals ==
  {s \in {"amount", "velocity", "repeatedFailures", "deviceMismatch",
          "impossibleTravel", "ipRisk"} : s \in Reasons(e)}

(* What the guardrail of the AI engine takes as HIGH_RISK on its own. *)
GuardrailBlocks ==
  e.amount >= 50000 \/ e.velocity >= 6 \/ e.travel \/ e.ipRisk >= 85

(* Below the amount that blocks outright, at any hour, no signal blocks a  *)
(* payment on its own, unless the AI calls it HIGH_RISK; and the AI engine *)
(* does only if its model does or the signal is one of the guardrail's     *)
(* four.                                                                   *)
OneSignalNeverBlocks ==
  /\ e.amount <= 50000 /\ \A s, t \in Signals : s = t
  /\ \/ Claim(answer) < 2
     \/ opinion \in Own /\ opinion.forest < 75 /\ ~GuardrailBlocks
  => Verdict # "HIGH_RISK"

(* The AI can raise what the rules say, never lower it, and silence is     *)
(* never consent: without a prediction nothing is LOW_RISK.                *)
AiOnlyRaises ==
  /\ Rank(Verdict) >= Rank(DecisionFromScore(RuleScore(e)))
  /\ Rank(Verdict) >= Claim(answer)
=============================================================================
