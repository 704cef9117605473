-------------------------- MODULE FraudDeskProofs --------------------------
(***************************************************************************)
(* Theorems about the four ends of the fraud desk, for any payments,       *)
(* amounts, limits, customers, records, threads, fields and versions.      *)
(*                                                                         *)
(*   verdict (RiskRules, AiScoring, RiskEvidence): worse evidence never    *)
(*     earns a milder verdict, what the AI says is not overruled, and one  *)
(*     signal alone does not block;                                        *)
(*   record (InferenceStore, as Kept): the online store knows the latest   *)
(*     records, and a write that breaks off costs one other at most;       *)
(*   vault (FieldKeys, as Vault): stored fields can be read and found;     *)
(*   page (DashboardFeed, as Page): rows, stream and counters.             *)
(*                                                                         *)
(* Each end has an inductive invariant of its own; a behaviour of the desk *)
(* is one of every end, which carries the theorems over.                   *)
(***************************************************************************)
EXTENDS FraudDesk, FiniteSetTheorems, SequenceTheorems, TLAPS

-----------------------------------------------------------------------------
(* The verdict. *)

(* One piece of evidence is at least as bad as another in every signal. *)
Worse(f, g) ==
  /\ f.amount >= g.amount /\ f.velocity >= g.velocity /\ f.failures >= g.failures
  /\ f.ipRisk >= g.ipRisk
  /\ (g.newDevice => f.newDevice) /\ (g.travel => f.travel) /\ (g.night => f.night)

(* Each rule adds a natural number of points, and more for a worse signal. *)
LEMMA AmountIsMonotone ==
  ASSUME NEW x \in Nat, NEW y \in Nat, x >= y
  PROVE  /\ AmountPoints(x) \in Nat /\ AmountPoints(y) \in Nat
         /\ AmountPoints(x) >= AmountPoints(y)
  BY DEF AmountPoints

(* The steps of the velocity rule rise with the count. *)
LEMMA VelocityIsMonotone ==
  ASSUME NEW x \in Nat, NEW y \in Nat, x >= y
  PROVE  /\ VelocityPoints(x) \in Nat /\ VelocityPoints(y) \in Nat
         /\ VelocityPoints(x) >= VelocityPoints(y)
  BY DEF VelocityPoints

(* The steps of the repeated-failure rule rise with the count. *)
LEMMA FailureIsMonotone ==
  ASSUME NEW x \in Nat, NEW y \in Nat, x >= y
  PROVE  /\ FailurePoints(x) \in Nat /\ FailurePoints(y) \in Nat
         /\ FailurePoints(x) >= FailurePoints(y)
  BY DEF FailurePoints

(* The steps of the address rule rise with ipRisk. *)
LEMMA IpIsMonotone ==
  ASSUME NEW x \in Nat, NEW y \in Nat, x >= y
  PROVE  /\ IpPoints(x) \in Nat /\ IpPoints(y) \in Nat /\ IpPoints(x) >= IpPoints(y)
  BY DEF IpPoints

(* A late hour adds more to a larger amount. *)
LEMMA TimingIsMonotone ==
  ASSUME NEW x \in Nat, NEW y \in Nat, x >= y, NEW b \in BOOLEAN, NEW c \in BOOLEAN, c => b
  PROVE  /\ TimingPoints(b, x) \in Nat /\ TimingPoints(c, y) \in Nat
         /\ TimingPoints(b, x) >= TimingPoints(c, y)
  BY DEF TimingPoints

(* The two rules on the last payment add their points or nothing. *)
LEMMA LastPaymentIsMonotone ==
  ASSUME NEW b \in BOOLEAN, NEW c \in BOOLEAN, c => b
  PROVE  /\ DevicePoints(b) \in Nat /\ DevicePoints(c) \in Nat
         /\ DevicePoints(b) >= DevicePoints(c)
         /\ TravelPoints(b) \in Nat /\ TravelPoints(c) \in Nat
         /\ TravelPoints(b) >= TravelPoints(c)
  BY DEF DevicePoints, TravelPoints

(* The capped sum is a score, and worse evidence never scores less. *)
LEMMA ScoreIsMonotone ==
  ASSUME NEW f \in Evidence, NEW g \in Evidence, Worse(f, g)
  PROVE  /\ RuleScore(f) \in 0 .. 100 /\ RuleScore(g) \in 0 .. 100
         /\ RuleScore(f) >= RuleScore(g)
  <1>1. /\ f.amount \in Nat /\ f.velocity \in Nat /\ f.failures \in Nat /\ f.ipRisk \in Nat
        /\ f.newDevice \in BOOLEAN /\ f.travel \in BOOLEAN /\ f.night \in BOOLEAN
        /\ g.amount \in Nat /\ g.velocity \in Nat /\ g.failures \in Nat /\ g.ipRisk \in Nat
        /\ g.newDevice \in BOOLEAN /\ g.travel \in BOOLEAN /\ g.night \in BOOLEAN
    BY DEF Evidence
  <1>2. /\ AmountPoints(f.amount) \in Nat /\ AmountPoints(g.amount) \in Nat
        /\ AmountPoints(f.amount) >= AmountPoints(g.amount)
    BY <1>1, AmountIsMonotone DEF Worse
  <1>3. /\ VelocityPoints(f.velocity) \in Nat /\ VelocityPoints(g.velocity) \in Nat
        /\ VelocityPoints(f.velocity) >= VelocityPoints(g.velocity)
    BY <1>1, VelocityIsMonotone DEF Worse
  <1>4. /\ FailurePoints(f.failures) \in Nat /\ FailurePoints(g.failures) \in Nat
        /\ FailurePoints(f.failures) >= FailurePoints(g.failures)
    BY <1>1, FailureIsMonotone DEF Worse
  <1>5. /\ IpPoints(f.ipRisk) \in Nat /\ IpPoints(g.ipRisk) \in Nat
        /\ IpPoints(f.ipRisk) >= IpPoints(g.ipRisk)
    BY <1>1, IpIsMonotone DEF Worse
  <1>6. /\ TimingPoints(f.night, f.amount) \in Nat /\ TimingPoints(g.night, g.amount) \in Nat
        /\ TimingPoints(f.night, f.amount) >= TimingPoints(g.night, g.amount)
    BY <1>1, TimingIsMonotone DEF Worse
  <1>7. /\ DevicePoints(f.newDevice) \in Nat /\ DevicePoints(g.newDevice) \in Nat
        /\ DevicePoints(f.newDevice) >= DevicePoints(g.newDevice)
        /\ TravelPoints(f.travel) \in Nat /\ TravelPoints(g.travel) \in Nat
        /\ TravelPoints(f.travel) >= TravelPoints(g.travel)
    BY <1>1, LastPaymentIsMonotone DEF Worse
  <1>8. Points(f) \in Nat /\ Points(g) \in Nat /\ Points(f) >= Points(g)
    BY <1>2, <1>3, <1>4, <1>5, <1>6, <1>7 DEF Points
  <1> QED BY <1>8 DEF RuleScore

(* A higher score never gives a milder level. *)
LEMMA DecisionIsMonotone ==
  ASSUME NEW x \in 0 .. 100, NEW y \in 0 .. 100, x >= y
  PROVE  /\ DecisionFromScore(x) \in Level /\ DecisionFromScore(y) \in Level
         /\ Rank(DecisionFromScore(x)) >= Rank(DecisionFromScore(y))
  BY DEF DecisionFromScore, Level, Rank

(* An outage ranks with MEDIUM_RISK. *)
PredictionRank(p) == IF p = None THEN 1 ELSE Rank(p.level)

(* A prediction, as far as the verdict looks at it. *)
LevelIsReadable(p) == p = None \/ p.level \in Level

(* The verdict is monotone in the evidence and in the prediction.          *)
THEOREM VerdictIsMonotone ==
  ASSUME NEW f \in Evidence, NEW g \in Evidence, Worse(f, g),
         NEW p, NEW q, LevelIsReadable(p), LevelIsReadable(q), PredictionRank(p) >= PredictionRank(q)
  PROVE  Rank(FinalLevel(f, p)) >= Rank(FinalLevel(g, q))
  <1> DEFINE rf == DecisionFromScore(RuleScore(f))
             rg == DecisionFromScore(RuleScore(g))
  <1>1. rf \in Level /\ rg \in Level /\ Rank(rf) >= Rank(rg)
    BY ScoreIsMonotone, DecisionIsMonotone
  <1>2. g.amount > 50000 => f.amount > 50000
    BY DEF Worse, Evidence
  <1>3. rg = "HIGH_RISK" => rf = "HIGH_RISK"
    BY <1>1 DEF Rank, Level
  <1>4. rg = "MEDIUM_RISK" => rf \in {"MEDIUM_RISK", "HIGH_RISK"}
    BY <1>1 DEF Rank, Level
  <1>5. None \notin Level
    BY NoneIsNoWord
  <1> HIDE DEF rf, rg
  <1>6. CASE p = None
    BY <1>1, <1>2, <1>3, <1>4, <1>5, <1>6
    DEF FinalLevel, rf, rg, PredictionRank, LevelIsReadable, Rank, Level
  <1>7. CASE p # None
    BY <1>1, <1>2, <1>3, <1>4, <1>5, <1>7
    DEF FinalLevel, rf, rg, PredictionRank, LevelIsReadable, Rank, Level
  <1> QED BY <1>6, <1>7

-----------------------------------------------------------------------------
(* The answer of the AI engine. *)

(* The gravest of eight numbers is one of them, and no less than the rest. *)
LEMMA GravestExists ==
  ASSUME NEW a \in Nat, NEW b \in Nat, NEW c \in Nat, NEW d \in Nat,
         NEW f \in Nat, NEW g \in Nat, NEW h \in Nat, NEW i \in Nat
  PROVE  LET S == {a} \cup {b, c, d, f, g, h, i}
         IN  Gravest(S) \in S /\ \A y \in S : Gravest(S) >= y
  <1> DEFINE S == {a} \cup {b, c, d, f, g, h, i}
             Top(x, T) == x \in T /\ \A y \in T : x >= y
  <1>1. \E x \in {a, b} : Top(x, {a, b})
    OBVIOUS
  <1>2. \E x \in {a, b, c} : Top(x, {a, b, c})
    BY <1>1
  <1>3. \E x \in {a, b, c, d} : Top(x, {a, b, c, d})
    BY <1>2
  <1>4. \E x \in {a, b, c, d, f} : Top(x, {a, b, c, d, f})
    BY <1>3
  <1>5. \E x \in {a, b, c, d, f, g} : Top(x, {a, b, c, d, f, g})
    BY <1>4
  <1>6. \E x \in {a, b, c, d, f, g, h} : Top(x, {a, b, c, d, f, g, h})
    BY <1>5
  <1>7. \E x \in S : \A y \in S : x >= y
    BY <1>6
  <1> HIDE DEF S
  <1>8. Gravest(S) \in S /\ \A y \in S : Gravest(S) >= y
    BY <1>7, Zenon DEF Gravest
  <1> QED BY <1>8 DEF S

(* The payload of evidence: the engine sees the backend's velocity, though *)
(* it takes the higher of two encodings of it.                             *)
LEMMA PayloadIsTyped ==
  ASSUME NEW f \in Evidence, NEW s \in BOOLEAN
  PROVE  LET p == PayloadOf(f, s)
         IN  /\ p.amount = f.amount /\ p.velocity = f.velocity /\ p.failures = f.failures
             /\ p.travel = f.travel /\ p.ipRisk = f.ipRisk /\ p.newDevice = f.newDevice
             /\ p.small = s /\ p.deviceRisk = IF f.newDevice THEN 85 ELSE 0
             /\ ResolvedVelocity(p) = f.velocity
  <1>1. f.velocity \in Nat
    BY DEF Evidence
  <1>2. PayloadOf(f, s).velocityScore = IF f.velocity < 5 THEN 20 * f.velocity ELSE 100
    BY DEF PayloadOf
  <1>3. PayloadOf(f, s).velocity = f.velocity
    BY DEF PayloadOf
  <1>4. f.velocity >= PayloadOf(f, s).velocityScore \div 20
    BY <1>1, <1>2
  <1>5. ResolvedVelocity(PayloadOf(f, s)) = f.velocity
    BY <1>3, <1>4 DEF ResolvedVelocity
  <1> QED BY <1>5 DEF PayloadOf

(* What the guardrail makes of the evidence, signal by signal. *)
LEMMA GuardsOfEvidence ==
  ASSUME NEW f \in Evidence, NEW s \in BOOLEAN
  PROVE  /\ Guards(PayloadOf(f, s)) =
              {AmountGuard(f.amount), VelocityGuard(f.velocity), TravelGuard(f.travel),
               IpGuard(f.ipRisk), DeviceGuard(IF f.newDevice THEN 85 ELSE 0, f.newDevice),
               FailureGuard(f.failures), HourGuard(s, f.amount)}
         /\ AmountGuard(f.amount) \in 0 .. 84 /\ VelocityGuard(f.velocity) \in 0 .. 76
         /\ TravelGuard(f.travel) \in 0 .. 82 /\ IpGuard(f.ipRisk) \in 0 .. 78
         /\ DeviceGuard(IF f.newDevice THEN 85 ELSE 0, f.newDevice) \in 0 .. 72
         /\ FailureGuard(f.failures) \in 0 .. 70 /\ HourGuard(s, f.amount) \in 0 .. 55
  <1>1. /\ f.amount \in Nat /\ f.velocity \in Nat /\ f.failures \in Nat /\ f.ipRisk \in Nat
        /\ f.newDevice \in BOOLEAN /\ f.travel \in BOOLEAN
    BY DEF Evidence
  <1>2. AmountGuard(f.amount) \in 0 .. 84 /\ VelocityGuard(f.velocity) \in 0 .. 76
    BY <1>1 DEF AmountGuard, VelocityGuard
  <1>3. TravelGuard(f.travel) \in 0 .. 82 /\ IpGuard(f.ipRisk) \in 0 .. 78
    BY <1>1 DEF TravelGuard, IpGuard
  <1>4. DeviceGuard(IF f.newDevice THEN 85 ELSE 0, f.newDevice) \in 0 .. 72
    BY <1>1 DEF DeviceGuard
  <1>5. FailureGuard(f.failures) \in 0 .. 70 /\ HourGuard(s, f.amount) \in 0 .. 55
    BY <1>1 DEF FailureGuard, HourGuard
  <1>6. Guards(PayloadOf(f, s)) =
              {AmountGuard(f.amount), VelocityGuard(f.velocity), TravelGuard(f.travel),
               IpGuard(f.ipRisk), DeviceGuard(IF f.newDevice THEN 85 ELSE 0, f.newDevice),
               FailureGuard(f.failures), HourGuard(s, f.amount)}
    <2> DEFINE p == PayloadOf(f, s)
               d == IF f.newDevice THEN 85 ELSE 0
    <2>1. /\ p.amount = f.amount /\ p.failures = f.failures
          /\ p.travel = f.travel /\ p.ipRisk = f.ipRisk /\ p.newDevice = f.newDevice
          /\ p.small = s /\ p.deviceRisk = d /\ ResolvedVelocity(p) = f.velocity
      BY PayloadIsTyped
    <2> HIDE DEF p, d
    <2>2. Guards(p) = {AmountGuard(f.amount), VelocityGuard(f.velocity), TravelGuard(f.travel),
                       IpGuard(f.ipRisk), DeviceGuard(d, f.newDevice),
                       FailureGuard(f.failures), HourGuard(s, f.amount)}
      BY <2>1 DEF Guards
    <2> QED BY <2>2 DEF p, d
  <1> QED BY <1>2, <1>3, <1>4, <1>5, <1>6

(* The gravest of the model's percentage and the guards is one of them. *)
LEMMA GravestOfEvidence ==
  ASSUME NEW f \in Evidence, NEW s \in BOOLEAN, NEW x \in 0 .. 100
  PROVE  LET S == {x} \cup Guards(PayloadOf(f, s))
         IN  Gravest(S) \in S /\ (\A y \in S : Gravest(S) >= y) /\ Gravest(S) \in 0 .. 100
  <1> DEFINE S == {x} \cup Guards(PayloadOf(f, s))
             A == AmountGuard(f.amount)
             V == VelocityGuard(f.velocity)
             T == TravelGuard(f.travel)
             I == IpGuard(f.ipRisk)
             D == DeviceGuard(IF f.newDevice THEN 85 ELSE 0, f.newDevice)
             F == FailureGuard(f.failures)
             H == HourGuard(s, f.amount)
  <1>1. /\ S = {x} \cup {A, V, T, I, D, F, H}
        /\ A \in 0 .. 84 /\ V \in 0 .. 76 /\ T \in 0 .. 82 /\ I \in 0 .. 78
        /\ D \in 0 .. 72 /\ F \in 0 .. 70 /\ H \in 0 .. 55
    BY GuardsOfEvidence
  <1> HIDE DEF A, V, T, I, D, F, H, S
  <1>2. /\ x \in Nat /\ A \in Nat /\ V \in Nat /\ T \in Nat /\ I \in Nat /\ D \in Nat
        /\ F \in Nat /\ H \in Nat
    BY <1>1
  <1>3. Gravest(S) \in S /\ \A y \in S : Gravest(S) >= y
    BY <1>1, <1>2, GravestExists
  <1>4. \A y \in S : y \in 0 .. 100
    BY <1>1
  <1> QED BY <1>3, <1>4 DEF S

(* Every signal that gets worse gets graver for the guardrail. *)
LEMMA GuardsAreMonotone ==
  ASSUME NEW f \in Evidence, NEW g \in Evidence, Worse(f, g),
         NEW s \in BOOLEAN, NEW t \in BOOLEAN, t => s,
         NEW y \in Guards(PayloadOf(g, t))
  PROVE  \E z \in Guards(PayloadOf(f, s)) : z >= y
  <1>1. /\ f.amount \in Nat /\ f.velocity \in Nat /\ f.failures \in Nat /\ f.ipRisk \in Nat
        /\ f.newDevice \in BOOLEAN /\ f.travel \in BOOLEAN
        /\ g.amount \in Nat /\ g.velocity \in Nat /\ g.failures \in Nat /\ g.ipRisk \in Nat
        /\ g.newDevice \in BOOLEAN /\ g.travel \in BOOLEAN
    BY DEF Evidence
  <1>2. AmountGuard(f.amount) >= AmountGuard(g.amount)
    BY <1>1 DEF AmountGuard, Worse
  <1>3. VelocityGuard(f.velocity) >= VelocityGuard(g.velocity)
    BY <1>1 DEF VelocityGuard, Worse
  <1>4. TravelGuard(f.travel) >= TravelGuard(g.travel)
    BY <1>1 DEF TravelGuard, Worse
  <1>5. IpGuard(f.ipRisk) >= IpGuard(g.ipRisk)
    BY <1>1 DEF IpGuard, Worse
  <1>6. DeviceGuard(IF f.newDevice THEN 85 ELSE 0, f.newDevice)
          >= DeviceGuard(IF g.newDevice THEN 85 ELSE 0, g.newDevice)
    BY <1>1 DEF DeviceGuard, Worse
  <1>7. FailureGuard(f.failures) >= FailureGuard(g.failures)
    BY <1>1 DEF FailureGuard, Worse
  <1>8. HourGuard(s, f.amount) >= HourGuard(t, g.amount)
    BY <1>1 DEF HourGuard, Worse
  <1>9. y \in {AmountGuard(g.amount), VelocityGuard(g.velocity), TravelGuard(g.travel),
               IpGuard(g.ipRisk), DeviceGuard(IF g.newDevice THEN 85 ELSE 0, g.newDevice),
               FailureGuard(g.failures), HourGuard(t, g.amount)}
    BY GuardsOfEvidence
  <1>10. Guards(PayloadOf(f, s)) =
              {AmountGuard(f.amount), VelocityGuard(f.velocity), TravelGuard(f.travel),
               IpGuard(f.ipRisk), DeviceGuard(IF f.newDevice THEN 85 ELSE 0, f.newDevice),
               FailureGuard(f.failures), HourGuard(s, f.amount)}
    BY GuardsOfEvidence
  <1> QED BY <1>2, <1>3, <1>4, <1>5, <1>6, <1>7, <1>8, <1>9, <1>10, Zenon

(* Worse evidence never has a lower probability. *)
LEMMA ProbabilityIsMonotone ==
  ASSUME NEW f \in Evidence, NEW g \in Evidence, Worse(f, g),
         NEW s \in BOOLEAN, NEW t \in BOOLEAN, t => s, NEW x \in 0 .. 100
  PROVE  /\ FraudProbability(x, PayloadOf(f, s)) \in 0 .. 99
         /\ FraudProbability(x, PayloadOf(g, t)) \in 0 .. 99
         /\ FraudProbability(x, PayloadOf(f, s)) >= FraudProbability(x, PayloadOf(g, t))
  <1> DEFINE S == {x} \cup Guards(PayloadOf(f, s))
             T == {x} \cup Guards(PayloadOf(g, t))
  <1>1. Gravest(S) \in 0 .. 100 /\ \A y \in S : Gravest(S) >= y
    BY GravestOfEvidence
  <1>2. Gravest(T) \in T /\ Gravest(T) \in 0 .. 100
    BY GravestOfEvidence
  <1>3. PICK z \in S : z >= Gravest(T)
    <2>1. CASE Gravest(T) = x
      BY <2>1
    <2>2. CASE Gravest(T) \in Guards(PayloadOf(g, t))
      BY <2>2, GuardsAreMonotone
    <2> QED BY <1>2, <2>1, <2>2
  <1>4. z \in 0 .. 100
    <2>1. CASE z = x
      BY <2>1
    <2>2. CASE z \in Guards(PayloadOf(f, s))
      BY <2>2, GuardsOfEvidence
    <2> QED BY <2>1, <2>2
  <1>5. Gravest(S) >= z
    BY <1>1
  <1> HIDE DEF S, T
  <1>6. Gravest(S) >= Gravest(T)
    BY <1>1, <1>2, <1>3, <1>4, <1>5
  <1> QED BY <1>1, <1>2, <1>6 DEF FraudProbability, Capped, S, T

(* A higher probability never gives a milder level. *)
LEMMA LevelIsMonotone ==
  ASSUME NEW x \in 0 .. 99, NEW y \in 0 .. 99, x >= y
  PROVE  /\ LevelOfProbability(x) \in Level /\ LevelOfProbability(y) \in Level
         /\ Rank(LevelOfProbability(x)) >= Rank(LevelOfProbability(y))
  BY DEF LevelOfProbability, Level, Rank

(* The specification RiskEvidence. *)

(* Answers the backend can rely on, and none. *)
Sound == {a \in Answer : Consistent(a)} \cup {None}

(* What an answer claims is what the engine makes of it, if its decision   *)
(* and level agree.                                                        *)
LEMMA ClaimIsRead ==
  ASSUME NEW a \in Sound
  PROVE  /\ LevelIsReadable(PredictionFrom(a))
         /\ PredictionRank(PredictionFrom(a)) = Claim(a)
         /\ Claim(a) \in 0 .. 2
  <1>1. CASE PredictionFrom(a) = None
    BY <1>1 DEF LevelIsReadable, PredictionRank, Claim
  <1>2. CASE PredictionFrom(a) # None
    <2>1. a \in Answer /\ Consistent(a)
      BY <1>2 DEF PredictionFrom, Sound
    <2>2. PredictionFrom(a).level = LevelOf(a)
      BY <1>2 DEF PredictionFrom, Prediction
    <2>3. LevelOf(a) = RawLevel(a) /\ RawLevel(a) \in Level
      BY <2>1, NoneIsNoWord DEF LevelOf, RawLevel, Consistent, Answer
    <2>4. Claim(a) = Rank(RawLevel(a))
      BY <1>2, <2>1, <2>3, NoneIsNoWord
      DEF Claim, RawLevel, Consistent, Answer, Level, Action, ActionFromLevel, Rank
    <2> QED BY <1>2, <2>2, <2>3, <2>4 DEF LevelIsReadable, PredictionRank, Rank, Level
  <1> QED BY <1>1, <1>2

(* The engine's own answer can be relied on, and claims its level.         *)
LEMMA EngineIsSound ==
  ASSUME NEW f \in Evidence, NEW s \in BOOLEAN, NEW x \in 0 .. 100
  PROVE  LET p == PayloadOf(f, s)
         IN  /\ EngineAnswer(x, p) \in Sound
             /\ Claim(EngineAnswer(x, p)) =
                   IF Accepted(p) THEN Rank(LevelOfProbability(FraudProbability(x, p))) ELSE 1
  <1> DEFINE p == PayloadOf(f, s)
             pr == FraudProbability(x, p)
             l == LevelOfProbability(pr)
             a == [decision |-> ActionFromLevel(l), level |-> l, probability |-> pr, score |-> pr]
  <1>1. Worse(f, f)
    BY DEF Worse, Evidence
  <1>2. pr \in 0 .. 99
    BY <1>1, ProbabilityIsMonotone
  <1>3. l \in Level
    BY <1>2, LevelIsMonotone
  <1>4. EngineAnswer(x, p) = IF Accepted(p) THEN a ELSE None
    BY DEF EngineAnswer
  <1> HIDE DEF p, pr, l
  <1>5. a \in Answer
    BY <1>2, <1>3 DEF Answer, ActionFromLevel, Action
  <1>6. Consistent(a)
    BY <1>3, NoneIsNoWord DEF Consistent, RawLevel, ActionFromLevel, Level
  <1>7. PredictionFrom(a) # None
    <2>1. a # None
      BY <1>5, NoneIsNoRecord
    <2>2. pr # None
      BY <1>2, NoneIsNoWord
    <2>3. ActionOf(a) \in Action /\ LevelOf(a) \in Level
      BY <1>3, NoneIsNoWord
      DEF ActionOf, LevelOf, RawLevel, ActionFromLevel, Action, Level
    <2> DEFINE b == [decision |-> ActionOf(a), level |-> LevelOf(a), score |-> pr]
    <2>4. Prediction(a) = b
      BY <2>2 DEF Prediction
    <2>5. b \in Reading
      BY <1>2, <2>3 DEF Reading
    <2> QED BY <2>1, <2>4, <2>5, NoneIsNoRecord DEF PredictionFrom
  <1>8. Claim(a) = Rank(l)
    BY <1>3, <1>7 DEF Claim, Rank, Level, ActionFromLevel
  <1>9. Claim(None) = 1
    BY DEF Claim, PredictionFrom
  <1> QED BY <1>4, <1>5, <1>6, <1>8, <1>9 DEF Sound, p, pr, l

(* Every opinion gives an answer that can be relied on. *)
LEMMA AnswersAreSound ==
  ASSUME NEW f \in Evidence, NEW s \in BOOLEAN, NEW o \in Opinions
  PROVE  AnswerTo(f, s, o) \in Sound
  <1>1. CASE o \in Own
    <2>1. o.forest \in 0 .. 100
      BY <1>1, InputAssumption DEF Own
    <2> QED BY <1>1, <2>1, EngineIsSound DEF AnswerTo
  <1>2. CASE o \notin Own
    BY <1>2, InputAssumption DEF AnswerTo, Opinions, Sound
  <1> QED BY <1>1, <1>2

(* The guardrail keeps the engine monotone: while it accepts the payment,  *)
(* or already refused it before, worse evidence never makes it claim less. *)
LEMMA EngineIsMonotone ==
  ASSUME NEW f \in Evidence, NEW g \in Evidence, Worse(f, g),
         NEW s \in BOOLEAN, NEW t \in BOOLEAN, t => s, NEW x \in 0 .. 100,
         Accepted(PayloadOf(f, s)) \/ ~Accepted(PayloadOf(g, t))
  PROVE  Claim(EngineAnswer(x, PayloadOf(f, s))) >= Claim(EngineAnswer(x, PayloadOf(g, t)))
  <1> DEFINE pf == FraudProbability(x, PayloadOf(f, s))
             pg == FraudProbability(x, PayloadOf(g, t))
  <1>1. pf \in 0 .. 99 /\ pg \in 0 .. 99 /\ pf >= pg
    BY SMTT(20), ProbabilityIsMonotone
  <1>2. Rank(LevelOfProbability(pf)) >= Rank(LevelOfProbability(pg))
    BY <1>1, LevelIsMonotone
  <1>3. /\ f.amount \in Nat /\ f.velocity \in Nat /\ f.failures \in Nat /\ f.ipRisk \in Nat
        /\ g.amount \in Nat /\ g.velocity \in Nat /\ g.failures \in Nat /\ g.ipRisk \in Nat
    BY DEF Evidence
  <1>4. Accepted(PayloadOf(f, s)) => Accepted(PayloadOf(g, t))
    BY <1>3 DEF Accepted, PayloadOf, Worse
  <1>5. /\ Claim(EngineAnswer(x, PayloadOf(f, s)))
              = IF Accepted(PayloadOf(f, s)) THEN Rank(LevelOfProbability(pf)) ELSE 1
        /\ Claim(EngineAnswer(x, PayloadOf(g, t)))
              = IF Accepted(PayloadOf(g, t)) THEN Rank(LevelOfProbability(pg)) ELSE 1
    BY EngineIsSound
  <1> HIDE DEF pf, pg
  <1>6. CASE Accepted(PayloadOf(f, s))
    BY <1>2, <1>4, <1>5, <1>6
  <1>7. CASE ~Accepted(PayloadOf(g, t))
    <2>1. ~Accepted(PayloadOf(f, s))
      BY <1>4, <1>7
    <2> QED BY <1>5, <1>7, <2>1
  <1> QED BY <1>6, <1>7

(* What a step does to the evidence and to the opinion. *)
LEMMA StepWorsens ==
  ASSUME TypeOK, [Next]_vars
  PROVE  /\ e' \in Evidence /\ small' \in BOOLEAN /\ opinion' \in Opinions
         /\ answer' = AnswerTo(e', small', opinion')
         /\ Worse(e', e) /\ (small => small')
         /\ opinion' = opinion \/ Claim(answer') > Claim(answer)
  <1>1. e \in Evidence /\ small \in BOOLEAN /\ opinion \in Opinions
        /\ answer = AnswerTo(e, small, opinion)
    BY DEF TypeOK
  <1>2. Worse(e, e)
    BY <1>1 DEF Worse, Evidence
  <1>3. ASSUME NEW f \in Evidence, Worse(f, e), Rise(f)
        PROVE  /\ e' = f /\ small' = small /\ opinion' = opinion
               /\ answer' = AnswerTo(e', small', opinion')
    BY <1>3 DEF Rise, Rescore
  <1>4. ASSUME NEW x \in Amounts, Pay(x)
        PROVE  \E f \in Evidence : Worse(f, e) /\ Rise(f)
    <2>1. [e EXCEPT !.amount = x] \in Evidence /\ Worse([e EXCEPT !.amount = x], e)
      BY <1>1, <1>4, InputAssumption DEF Pay, Evidence, Worse
    <2> QED BY <1>4, <2>1 DEF Pay
  <1>5. ASSUME NEW n \in Velocities, Repeat(n)
        PROVE  \E f \in Evidence : Worse(f, e) /\ Rise(f)
    <2>1. [e EXCEPT !.velocity = n] \in Evidence /\ Worse([e EXCEPT !.velocity = n], e)
      BY <1>1, <1>5, InputAssumption DEF Repeat, Evidence, Worse
    <2> QED BY <1>5, <2>1 DEF Repeat
  <1>6. ASSUME NEW n \in Failures, FailAgain(n)
        PROVE  \E f \in Evidence : Worse(f, e) /\ Rise(f)
    <2>1. [e EXCEPT !.failures = n] \in Evidence /\ Worse([e EXCEPT !.failures = n], e)
      BY <1>1, <1>6, InputAssumption DEF FailAgain, Evidence, Worse
    <2> QED BY <1>6, <2>1 DEF FailAgain
  <1>7. ASSUME NEW x \in IpRisks, ChangeAddress(x)
        PROVE  \E f \in Evidence : Worse(f, e) /\ Rise(f)
    <2>1. [e EXCEPT !.ipRisk = x] \in Evidence /\ Worse([e EXCEPT !.ipRisk = x], e)
      BY <1>1, <1>7, InputAssumption DEF ChangeAddress, Evidence, Worse
    <2> QED BY <1>7, <2>1 DEF ChangeAddress
  <1>8. ASSUME ChangeDevice
        PROVE  \E f \in Evidence : Worse(f, e) /\ Rise(f)
    <2> DEFINE f == [e EXCEPT !.newDevice = TRUE]
    <2>1. f \in Evidence
      BY <1>1 DEF Evidence
    <2>2. Worse(f, e)
      BY <1>1 DEF Evidence, Worse
    <2> QED BY <2>2, <1>8, <2>1 DEF ChangeDevice
  <1>9. ASSUME Travel
        PROVE  \E f \in Evidence : Worse(f, e) /\ Rise(f)
    <2> DEFINE f == [e EXCEPT !.travel = TRUE]
    <2>1. f \in Evidence
      BY <1>1 DEF Evidence
    <2>2. Worse(f, e)
      BY <1>1 DEF Evidence, Worse
    <2> QED BY <2>2, <1>9, <2>1 DEF Travel
  <1>10. ASSUME GoLate
         PROVE  \E f \in Evidence : Worse(f, e) /\ Rise(f)
    <2> DEFINE f == [e EXCEPT !.night = TRUE]
    <2>1. f \in Evidence
      BY <1>1 DEF Evidence
    <2>2. Worse(f, e)
      BY <1>1 DEF Evidence, Worse
    <2> QED BY <2>2, <1>10, <2>1 DEF GoLate
  <1>11. CASE \E f \in Evidence : Worse(f, e) /\ Rise(f)
    <2>1. PICK f \in Evidence : Worse(f, e) /\ Rise(f)
      BY <1>11
    <2>2. /\ e' = f /\ small' = small /\ opinion' = opinion
          /\ answer' = AnswerTo(e', small', opinion')
      BY <1>3, <2>1
    <2> QED BY <1>1, <2>1, <2>2
  <1>12. CASE PassMidnight
    <2>1. e' = e /\ small' = TRUE /\ opinion' = opinion /\ answer' = AnswerTo(e', small', opinion')
      BY <1>12 DEF PassMidnight, Rescore
    <2> QED BY <1>1, <1>2, <2>1
  <1>13. ASSUME NEW o \in Opinions, Accuse(o)
         PROVE  /\ e' = e /\ small' = small /\ opinion' = o
                /\ answer' = AnswerTo(e', small', opinion') /\ Claim(answer') > Claim(answer)
    BY <1>13 DEF Accuse, Rescore
  <1>14. CASE \E o \in Opinions : Accuse(o)
    BY <1>1, <1>2, <1>13, <1>14
  <1>15. CASE UNCHANGED vars
    BY <1>1, <1>2, <1>15 DEF vars
  <1> QED BY <1>4, <1>5, <1>6, <1>7, <1>8, <1>9, <1>10, <1>11, <1>12, <1>14, <1>15 DEF Next

(* The claim never falls, unless the engine starts to refuse the payment.  *)
LEMMA ClaimRises ==
  ASSUME TypeOK, [Next]_vars, Refused' => Refused
  PROVE  Claim(answer') >= Claim(answer)
  <1>1. /\ e \in Evidence /\ small \in BOOLEAN /\ opinion \in Opinions
        /\ answer = AnswerTo(e, small, opinion)
    BY DEF TypeOK
  <1>2. /\ e' \in Evidence /\ small' \in BOOLEAN /\ opinion' \in Opinions
        /\ answer' = AnswerTo(e', small', opinion')
        /\ Worse(e', e) /\ (small => small')
        /\ opinion' = opinion \/ Claim(answer') > Claim(answer)
    BY StepWorsens
  <1>3. Claim(answer) \in 0 .. 2 /\ Claim(answer') \in 0 .. 2
    BY <1>1, <1>2, AnswersAreSound, ClaimIsRead
  <1>4. CASE Claim(answer') > Claim(answer)
    BY <1>3, <1>4
  <1>5. CASE opinion' = opinion /\ opinion \in Own
    <2>1. opinion.forest \in 0 .. 100
      BY <1>5, InputAssumption DEF Own
    <2>2. /\ answer = EngineAnswer(opinion.forest, PayloadOf(e, small))
          /\ answer' = EngineAnswer(opinion.forest, PayloadOf(e', small'))
      BY <1>1, <1>2, <1>5 DEF AnswerTo
    <2>3. Accepted(PayloadOf(e', small')) \/ ~Accepted(PayloadOf(e, small))
      BY <1>5 DEF Refused
    <2> QED BY <1>1, <1>2, <2>1, <2>2, <2>3, EngineIsMonotone
  <1>6. CASE opinion' = opinion /\ opinion \notin Own
    <2>1. answer' = answer
      BY <1>1, <1>2, <1>6 DEF AnswerTo
    <2> QED BY <1>3, <2>1
  <1> QED BY <1>2, <1>4, <1>5, <1>6

(* The verdict of worse evidence and a graver claim is no milder.          *)
LEMMA StepNeverHelps ==
  ASSUME TypeOK, [Next]_vars, Refused' => Refused
  PROVE  Rank(Verdict') >= Rank(Verdict)
  <1>1. e \in Evidence /\ e' \in Evidence /\ Worse(e', e) /\ Claim(answer') >= Claim(answer)
    BY StepWorsens, ClaimRises DEF TypeOK
  <1>2. answer \in Sound /\ answer' \in Sound
    BY StepWorsens, AnswersAreSound DEF TypeOK
  <1>3. /\ LevelIsReadable(PredictionFrom(answer)) /\ LevelIsReadable(PredictionFrom(answer'))
        /\ PredictionRank(PredictionFrom(answer')) >= PredictionRank(PredictionFrom(answer))
    BY <1>1, <1>2, ClaimIsRead
  <1>4. Rank(FinalLevel(e', PredictionFrom(answer'))) >= Rank(FinalLevel(e, PredictionFrom(answer)))
    BY <1>1, <1>3, VerdictIsMonotone
  <1> QED BY <1>4 DEF Verdict

(* The score of any evidence lies within 0 .. 100. *)
LEMMA ScoreIsBounded == ASSUME NEW f \in Evidence PROVE RuleScore(f) \in 0 .. 100
  <1>1. Worse(f, f)
    BY DEF Worse, Evidence
  <1> QED BY <1>1, ScoreIsMonotone

(* The evidence keeps its type and its score its bounds, whatever amounts, *)
(* counts and addresses a payment may have.                                *)
THEOREM VerdictTypes == Spec => []TypeOK
  <1>1. Init => TypeOK
    <2> SUFFICES ASSUME Init PROVE TypeOK
      OBVIOUS
    <2>1. PICK x \in Amounts : e = [amount |-> x, velocity |-> 0, failures |-> 0,
            newDevice |-> FALSE, travel |-> FALSE, ipRisk |-> 0, night |-> FALSE]
      BY DEF Init
    <2>2. /\ e \in Evidence /\ small \in BOOLEAN /\ opinion \in Opinions
          /\ answer = AnswerTo(e, small, opinion)
      BY <2>1, InputAssumption DEF Init, Evidence
    <2> QED BY <2>2, ScoreIsBounded DEF TypeOK
  <1>2. TypeOK /\ [Next]_vars => TypeOK'
    <2> SUFFICES ASSUME TypeOK, [Next]_vars PROVE TypeOK'
      OBVIOUS
    <2>1. /\ e' \in Evidence /\ small' \in BOOLEAN /\ opinion' \in Opinions
          /\ answer' = AnswerTo(e', small', opinion')
      BY StepWorsens
    <2> QED BY <2>1, ScoreIsBounded DEF TypeOK
  <1> QED BY <1>1, <1>2, PTL DEF Spec

(* For all amounts, counts, addresses and models, worse evidence never     *)
(* earns a milder verdict, unless it is too bad for the engine to accept.  *)
THEOREM EvidenceTheorem == Spec => EvidenceNeverHelps
  <1>1. TypeOK /\ [Next]_vars
          => [(Refused' => Refused) => Rank(Verdict') >= Rank(Verdict)]_vars
    BY StepNeverHelps
  <1> QED BY <1>1, VerdictTypes, PTL DEF Spec, EvidenceNeverHelps

(* For all amounts, counts and addresses, the verdict is no milder than    *)
(* the rules' and no milder than the AI's.                                 *)
THEOREM AiTheorem == Spec => []AiOnlyRaises
  <1>1. TypeOK => AiOnlyRaises
    <2> SUFFICES ASSUME TypeOK PROVE AiOnlyRaises
      OBVIOUS
    <2> DEFINE p == PredictionFrom(answer)
               r == DecisionFromScore(RuleScore(e))
    <2>1. LevelIsReadable(p) /\ PredictionRank(p) = Claim(answer)
      BY AnswersAreSound, ClaimIsRead DEF TypeOK
    <2>2. r \in Level
      BY DecisionIsMonotone DEF TypeOK
    <2> HIDE DEF p, r
    <2>3. Rank(FinalLevel(e, p)) >= Rank(r) /\ Rank(FinalLevel(e, p)) >= PredictionRank(p)
      BY <2>1, <2>2, NoneIsNoWord DEF FinalLevel, r, PredictionRank, LevelIsReadable, Rank, Level
    <2> QED BY <2>1, <2>3 DEF AiOnlyRaises, Verdict, p, r
  <1> QED BY <1>1, VerdictTypes, PTL

(* Where the model does not say HIGH_RISK and none of the four signals of  *)
(* the guardrail does, the engine does not.                                *)
LEMMA GuardrailSpares ==
  ASSUME TypeOK, opinion \in Own, opinion.forest < 75, ~GuardrailBlocks
  PROVE  Claim(answer) < 2
  <1> DEFINE x == opinion.forest
             S == {x} \cup Guards(PayloadOf(e, small))
  <1>1. e \in Evidence /\ small \in BOOLEAN /\ x \in 0 .. 74
    <2>1. x \in 0 .. 100 /\ x < 75
      BY InputAssumption DEF Own
    <2> QED BY <2>1 DEF TypeOK
  <1>2. /\ e.amount \in Nat /\ e.velocity \in Nat /\ e.failures \in Nat /\ e.ipRisk \in Nat
        /\ e.newDevice \in BOOLEAN /\ e.travel \in BOOLEAN
    BY <1>1 DEF Evidence
  <1>3. AmountGuard(e.amount) \in 0 .. 52 /\ VelocityGuard(e.velocity) \in 0 .. 48
    BY <1>2 DEF AmountGuard, VelocityGuard, GuardrailBlocks
  <1>4. TravelGuard(e.travel) = 0 /\ IpGuard(e.ipRisk) \in 0 .. 48
    BY <1>2 DEF TravelGuard, IpGuard, GuardrailBlocks
  <1>5. \A y \in S : y \in 0 .. 74
    <2>1. /\ Guards(PayloadOf(e, small)) =
              {AmountGuard(e.amount), VelocityGuard(e.velocity), TravelGuard(e.travel),
               IpGuard(e.ipRisk), DeviceGuard(IF e.newDevice THEN 85 ELSE 0, e.newDevice),
               FailureGuard(e.failures), HourGuard(small, e.amount)}
          /\ DeviceGuard(IF e.newDevice THEN 85 ELSE 0, e.newDevice) \in 0 .. 72
          /\ FailureGuard(e.failures) \in 0 .. 70 /\ HourGuard(small, e.amount) \in 0 .. 55
      BY <1>1, GuardsOfEvidence
    <2> QED BY <1>1, <1>3, <1>4, <2>1
  <1>6. Gravest(S) \in S
    <2>1. x \in 0 .. 100
      BY <1>1
    <2> QED BY <1>1, <2>1, GravestOfEvidence
  <1>7. Gravest(S) \in 0 .. 74
    BY <1>5, <1>6
  <1>8. FraudProbability(x, PayloadOf(e, small)) \in 0 .. 74
    BY <1>7 DEF FraudProbability, Capped
  <1>9. Rank(LevelOfProbability(FraudProbability(x, PayloadOf(e, small)))) < 2
    BY <1>8 DEF LevelOfProbability, Rank
  <1>10. answer = EngineAnswer(x, PayloadOf(e, small))
    BY DEF TypeOK, AnswerTo
  <1> QED BY <1>1, <1>9, <1>10, EngineIsSound

(* For all amounts, counts and addresses, one signal alone blocks nothing, *)
(* unless the model or one of the guardrail's four signals says so.        *)
THEOREM OneSignalTheorem == Spec => []OneSignalNeverBlocks
  <1>1. TypeOK => OneSignalNeverBlocks
    <2> SUFFICES ASSUME TypeOK, e.amount <= 50000, Claim(answer) < 2,
                        \A s, t \in Signals : s = t
                 PROVE  Verdict # "HIGH_RISK"
      BY GuardrailSpares DEF OneSignalNeverBlocks
    <2> DEFINE A == AmountPoints(e.amount)
               V == VelocityPoints(e.velocity)
               F == FailurePoints(e.failures)
               D == DevicePoints(e.newDevice)
               T == TravelPoints(e.travel)
               I == IpPoints(e.ipRisk)
               H == TimingPoints(e.night, e.amount)
    <2>1. /\ e.amount \in Nat /\ e.velocity \in Nat /\ e.failures \in Nat /\ e.ipRisk \in Nat
          /\ e.newDevice \in BOOLEAN /\ e.travel \in BOOLEAN /\ e.night \in BOOLEAN
      BY DEF TypeOK, Evidence
    <2>2. A \in 0 .. 20 /\ V \in 0 .. 40 /\ F \in 0 .. 35 /\ H \in 0 .. 15
      BY <2>1 DEF AmountPoints, VelocityPoints, FailurePoints, TimingPoints
    <2>3. D \in 0 .. 20 /\ T \in 0 .. 45 /\ I \in 0 .. 25
      BY <2>1 DEF DevicePoints, TravelPoints, IpPoints
    <2>4. /\ A > 0 <=> "amount" \in Signals
          /\ V > 0 <=> "velocity" \in Signals
          /\ F > 0 <=> "repeatedFailures" \in Signals
          /\ D > 0 <=> "deviceMismatch" \in Signals
          /\ T > 0 <=> "impossibleTravel" \in Signals
          /\ I > 0 <=> "ipRisk" \in Signals
      <3>1. (D > 0 <=> e.newDevice) /\ (T > 0 <=> e.travel)
        BY <2>1 DEF DevicePoints, TravelPoints
      <3> DEFINE a == A > 0
                 v == V > 0
                 f == F > 0
                 i == I > 0
      <3> HIDE DEF A, V, F, D, T, I, H, a, v, f, i
      <3>2. Reasons(e) = {r \in {"amount"} : a} \cup {r \in {"velocity"} : v}
              \cup {r \in {"repeatedFailures"} : f} \cup {r \in {"deviceMismatch"} : e.newDevice}
              \cup {r \in {"impossibleTravel"} : e.travel} \cup {r \in {"ipRisk"} : i}
              \cup {r \in {"transactionTiming"} : e.night}
        BY DEF Reasons, A, V, F, I, a, v, f, i
      <3> QED BY <3>1, <3>2 DEF Signals, a, v, f, i
    <2> HIDE DEF A, V, F, D, T, I, H
    <2>5. /\ ~(A > 0 /\ V > 0) /\ ~(A > 0 /\ F > 0) /\ ~(A > 0 /\ D > 0) /\ ~(A > 0 /\ T > 0)
          /\ ~(A > 0 /\ I > 0) /\ ~(V > 0 /\ F > 0) /\ ~(V > 0 /\ D > 0) /\ ~(V > 0 /\ T > 0)
          /\ ~(V > 0 /\ I > 0) /\ ~(F > 0 /\ D > 0) /\ ~(F > 0 /\ T > 0) /\ ~(F > 0 /\ I > 0)
          /\ ~(D > 0 /\ T > 0) /\ ~(D > 0 /\ I > 0) /\ ~(T > 0 /\ I > 0)
      BY <2>4
    <2>6. A + V + F + D + T + I + H < 75
      BY <2>2, <2>3, <2>5
    <2>7. RuleScore(e) < 75
      <3>1. Points(e) = A + V + F + D + T + I + H
        BY DEF Points, A, V, F, D, T, I, H
      <3> QED BY <2>2, <2>3, <2>6, <3>1 DEF RuleScore
    <2>8. DecisionFromScore(RuleScore(e)) # "HIGH_RISK"
      BY <2>7 DEF DecisionFromScore, TypeOK
    <2> DEFINE p == PredictionFrom(answer)
    <2>9. LevelIsReadable(p) /\ PredictionRank(p) < 2
      BY AnswersAreSound, ClaimIsRead DEF TypeOK
    <2> HIDE DEF p
    <2>10. p = None \/ p.level # "HIGH_RISK"
      BY <2>9 DEF PredictionRank, Rank
    <2>11. FinalLevel(e, p) # "HIGH_RISK"
      BY <2>1, <2>8, <2>10, NoneIsNoWord DEF FinalLevel, Level
    <2> QED BY <2>11 DEF Verdict, p
  <1> QED BY <1>1, VerdictTypes, PTL

-----------------------------------------------------------------------------
(* The absent value is no thread and no record, damage is no store. *)
Apart == None \notin Thread /\ None \notin Kept!Record /\ Torn \notin Kept!Store

LEMMA ApartHolds == Apart
BY DeskAssumption DEF Apart, Kept!Record

Inside == {"log", "online", "saveOnline", "offline"}

(* store knows the latest lasting record of everybody, or a later one. *)
Knows(store) ==
  /\ store \in Kept!Store
  /\ \A r \in lasting : store[r[1]] # None /\ Kept!Follows(store[r[1]], r)

(* A thread at work has a record; whoever is between taking the lock and   *)
(* releasing it is the holder; the record he has logged is the last one;   *)
(* the store is torn while he writes it, and his copy knows all that the   *)
(* store knew and his own record, as the store does then.                  *)
Works(t) == thread[t].at # "idle" => thread[t].record \in Kept!Record

Holds(t) == thread[t].at \in Inside <=> lock = t

HasLogged(t) ==
  thread[t].at \in {"online", "saveOnline", "offline"} =>
    logged # <<>> /\ logged[Len(logged)] = thread[t].record

Writes(t) ==
  LET r == thread[t].record IN
  /\ thread[t].at = "saveOnline" =>
       online = Torn /\ Knows(thread[t].copy) /\ thread[t].copy[r[1]] = r
  /\ thread[t].at = "offline" => online # Torn /\ online[r[1]] = r

ThreadSound(t) == Works(t) /\ Holds(t) /\ HasLogged(t) /\ Writes(t)

(* A store nobody is writing knows everybody, or is damaged and nothing is *)
(* promised of it.                                                         *)
Promise ==
  (\A t \in Thread : thread[t].at # "saveOnline") =>
    (online = Torn /\ lasting = {}) \/ (online # Torn /\ Knows(online))

StoreTypes ==
  /\ online \in Kept!Store \cup {Torn}
  /\ lock \in Thread \cup {None}
  /\ thread \in [Thread -> Kept!ThreadState]
  /\ logged \in Seq(Kept!Record)
  /\ lasting \subseteq Kept!Record

StoreInv == StoreTypes /\ (\A t \in Thread : ThreadSound(t)) /\ Promise

-----------------------------------------------------------------------------
(* Lemmas. *)

(* Only the holder of the lock is at the files. *)
LEMMA HolderAlone ==
  ASSUME StoreInv, NEW t \in Thread, thread[t].at \in Inside
  PROVE  lock = t /\ \A u \in Thread : u # t => thread[u].at \notin Inside
BY DEF StoreInv, ThreadSound, Holds

(* Who has nothing to do with the files is sound as long as he has not the *)
(* lock.                                                                   *)
LEMMA OutsiderIsSound ==
  ASSUME NEW u \in Thread, Works(u), thread[u].at \notin Inside, lock # u
  PROVE  ThreadSound(u)
BY DEF ThreadSound, Holds, HasLogged, Writes, Inside

(* The threads that do not move stay sound while the holder of the lock    *)
(* does, or one that takes it.                                             *)
LEMMA OthersStaySound ==
  ASSUME Apart, StoreInv, NEW t \in Thread, lock \in {t, None}, lock' \in {t, None},
         \A u \in Thread : u # t => thread'[u] = thread[u]
  PROVE  \A u \in Thread : u # t => ThreadSound(u)'
<1> SUFFICES ASSUME NEW u \in Thread, u # t PROVE ThreadSound(u)'
  OBVIOUS
<1>1. thread[u].at \notin Inside /\ Works(u)
  BY DEF Apart, StoreInv, ThreadSound, Holds
<1>2. Works(u)' /\ thread'[u].at \notin Inside /\ lock' # u
  BY <1>1 DEF Works, Apart
<1> QED
  BY <1>2 DEF ThreadSound, Holds, HasLogged, Writes, Inside

(* What followed goes on following. *)
LEMMA FollowsStays ==
  ASSUME logged \in Seq(Kept!Record), NEW x \in Kept!Record, logged' = Append(logged, x),
         NEW r, NEW q, Kept!Follows(r, q)
  PROVE  Kept!Follows(r, q)'
<1>1. PICK i, j \in DOMAIN logged : i <= j /\ logged[i] = q /\ logged[j] = r
  BY DEF Kept!Follows
<1>2. i \in DOMAIN logged' /\ j \in DOMAIN logged' /\ logged'[i] = q /\ logged'[j] = r
  BY <1>1
<1> QED
  BY <1>1, <1>2 DEF Kept!Follows

LEMMA FollowsKept ==
  ASSUME NEW r, NEW q, Kept!Follows(r, q), logged' = logged
  PROVE  Kept!Follows(r, q)'
BY DEF Kept!Follows

(* A known record was logged, so the last one follows it. *)
LEMMA LastFollows ==
  ASSUME logged \in Seq(Kept!Record), logged # <<>>, NEW r, r = logged[Len(logged)]
  PROVE  /\ Kept!Follows(r, r)
         /\ \A p, q : Kept!Follows(p, q) => Kept!Follows(r, q)
<1>1. Len(logged) \in DOMAIN logged /\ Len(logged) \in Nat
  BY DEF Kept!Follows
<1>2. \A i \in DOMAIN logged : i <= Len(logged)
  OBVIOUS
<1>3. Kept!Follows(r, r)
  BY <1>1 DEF Kept!Follows
<1>4. ASSUME NEW p, NEW q, Kept!Follows(p, q) PROVE Kept!Follows(r, q)
  BY <1>1, <1>2, <1>4 DEF Kept!Follows
<1> QED
  BY <1>3, <1>4

(* The types of a thread that only moves on. *)
LEMMA MovesOn ==
  ASSUME StoreTypes, NEW t \in Thread, NEW at \in Inside \cup {"lock"}, Kept!Step(t, at)
  PROVE  /\ thread' \in [Thread -> Kept!ThreadState]
         /\ thread'[t].at = at /\ thread'[t].record = thread[t].record
         /\ thread'[t].copy = thread[t].copy
         /\ \A u \in Thread : u # t => thread'[u] = thread[u]
BY DEF StoreTypes, Kept!Step, Kept!ThreadState, Inside

-----------------------------------------------------------------------------
(* The invariant. *)

LEMMA InitStore == Apart /\ Kept!Init => StoreInv
<1> SUFFICES ASSUME Apart, Kept!Init PROVE StoreInv
  OBVIOUS
<1>1. Kept!NoStore \in Kept!Store
  BY DEF Kept!NoStore, Kept!Store
<1>2. Kept!Idle \in Kept!ThreadState
  BY <1>1 DEF Kept!Idle, Kept!ThreadState
<1>3. StoreTypes
  BY <1>1, <1>2 DEF Kept!Init, StoreTypes
<1>4. \A t \in Thread : ThreadSound(t)
  BY DEF Kept!Init, Kept!Idle, Apart, ThreadSound, Works, Holds, HasLogged, Writes, Inside
<1>5. Promise
  BY <1>1 DEF Kept!Init, Apart, Promise, Knows
<1> QED
  BY <1>3, <1>4, <1>5 DEF StoreInv

LEMMA ScoreKeeps ==
  ASSUME Apart, StoreInv, NEW t \in Thread, NEW r \in Kept!Record, Kept!Score(t, r)
  PROVE  StoreInv'
<1>1. /\ thread' \in [Thread -> Kept!ThreadState]
      /\ thread'[t].at = "lock" /\ thread'[t].record = r /\ thread[t].at = "idle"
      /\ \A u \in Thread : u # t => thread'[u] = thread[u]
  BY DEF StoreInv, StoreTypes, Kept!Score, Kept!ThreadState, Kept!Idle
<1>2. StoreTypes'
  BY <1>1 DEF StoreInv, StoreTypes, Kept!Score
<1>3. ThreadSound(t)'
  BY <1>1 DEF StoreInv, ThreadSound, Works, Holds, HasLogged, Writes, Inside, Kept!Score
<1>4. ASSUME NEW u \in Thread, u # t PROVE ThreadSound(u)'
  BY <1>1, <1>4
  DEF StoreInv, ThreadSound, Works, Holds, HasLogged, Writes, Knows, Kept!Follows, Kept!Score
<1>5. Promise'
  BY <1>1 DEF StoreInv, Promise, Knows, Kept!Follows, Kept!Score
<1> QED
  BY <1>2, <1>3, <1>4, <1>5 DEF StoreInv

LEMMA LockKeeps ==
  ASSUME Apart, StoreInv, NEW t \in Thread, Kept!Lock(t)
  PROVE  StoreInv'
<1>1. StoreTypes /\ ThreadSound(t) /\ thread[t].at = "lock"
  BY DEF StoreInv, Kept!Lock
<1>2. /\ thread' \in [Thread -> Kept!ThreadState]
      /\ thread'[t].at = "log" /\ thread'[t].record = thread[t].record
      /\ \A u \in Thread : u # t => thread'[u] = thread[u]
  BY <1>1, MovesOn DEF Kept!Lock, Inside
<1>3. StoreTypes'
  BY <1>1, <1>2 DEF StoreTypes, Kept!Lock
<1>4. ThreadSound(t)'
  BY <1>1, <1>2 DEF ThreadSound, Works, Holds, HasLogged, Writes, Inside, Kept!Lock
<1>5. \A u \in Thread : u # t => ThreadSound(u)'
  BY <1>2, OthersStaySound DEF Kept!Lock
<1>6. Promise'
  BY <1>1, <1>2 DEF StoreInv, Promise, Knows, Kept!Follows, Kept!Lock
<1> QED
  BY <1>3, <1>4, <1>5, <1>6 DEF StoreInv

LEMMA AppendLogKeeps ==
  ASSUME Apart, StoreInv, NEW t \in Thread, Kept!AppendLog(t)
  PROVE  StoreInv'
<1> DEFINE r == thread[t].record
<1>1. StoreTypes /\ ThreadSound(t) /\ thread[t].at = "log" /\ lock = t
  BY HolderAlone DEF StoreInv, Kept!AppendLog, Inside
<1>2. r \in Kept!Record
  BY <1>1 DEF ThreadSound, Works
<1>3. /\ thread' \in [Thread -> Kept!ThreadState]
      /\ thread'[t].at = "online" /\ thread'[t].record = r
      /\ \A u \in Thread : u # t => thread'[u] = thread[u]
  BY <1>1, MovesOn DEF Kept!AppendLog, Inside
<1>4. logged \in Seq(Kept!Record) /\ logged' = Append(logged, r)
  BY <1>1 DEF StoreTypes, Kept!AppendLog
<1>5. logged' \in Seq(Kept!Record) /\ logged' # <<>> /\ logged'[Len(logged')] = r
  BY <1>2, <1>4
<1>6. StoreTypes'
  BY <1>1, <1>3, <1>5 DEF StoreTypes, Kept!AppendLog
<1>7. ThreadSound(t)'
  BY <1>1, <1>2, <1>3, <1>5 DEF ThreadSound, Works, Holds, HasLogged, Writes, Inside, Kept!AppendLog
<1>8. \A u \in Thread : u # t => ThreadSound(u)'
  BY <1>1, <1>3, OthersStaySound DEF Kept!AppendLog
<1>9. Promise'
  <2>1. (online = Torn /\ lasting = {}) \/ (online # Torn /\ Knows(online))
    BY <1>1, HolderAlone DEF StoreInv, Promise, Inside
  <2>2. Knows(online) => Knows(online)'
    BY <1>2, <1>4, FollowsStays DEF Knows, Kept!AppendLog
  <2> QED
    BY <2>1, <2>2 DEF Promise, Kept!AppendLog
<1> QED
  BY <1>6, <1>7, <1>8, <1>9 DEF StoreInv

(* The copy is what the store knew, changed for the record's customer only. *)
LEMMA OpenOnlineKeeps ==
  ASSUME Apart, StoreInv, NEW t \in Thread, Kept!OpenOnline(t)
  PROVE  StoreInv'
<1> DEFINE r == thread[t].record
           copy == [Kept!StoreRead EXCEPT ![r[1]] = r]
<1>1. StoreTypes /\ ThreadSound(t) /\ thread[t].at = "online" /\ lock = t
  BY HolderAlone DEF StoreInv, Kept!OpenOnline, Inside
<1>2. /\ r \in Kept!Record /\ r[1] \in Customer /\ r # None
      /\ logged \in Seq(Kept!Record) /\ logged # <<>> /\ logged[Len(logged)] = r
  BY <1>1 DEF ThreadSound, Works, HasLogged, StoreTypes, Kept!Record, Apart
<1>3. Kept!StoreRead \in Kept!Store
  BY <1>1 DEF StoreTypes, Kept!StoreRead, Kept!NoStore, Kept!Store
<1>4. copy \in Kept!Store /\ copy[r[1]] = r
      /\ \A c \in Customer : c # r[1] => copy[c] = Kept!StoreRead[c]
  BY <1>2, <1>3 DEF Kept!Store
<1>5. (online = Torn /\ lasting = {}) \/ (online # Torn /\ Knows(online))
  BY <1>1, HolderAlone DEF StoreInv, Promise, Inside
<1>6. Knows(copy)
  <2> SUFFICES ASSUME NEW q \in lasting PROVE copy[q[1]] # None /\ Kept!Follows(copy[q[1]], q)
    BY <1>4 DEF Knows
  <2>1. q[1] \in Customer
    BY <1>1 DEF StoreTypes, Kept!Record
  <2>2. Kept!StoreRead[q[1]] # None /\ Kept!Follows(Kept!StoreRead[q[1]], q)
    BY <1>5 DEF Knows, Kept!StoreRead
  <2>3. CASE q[1] = r[1]
    BY <1>2, <1>4, <2>2, <2>3, LastFollows
  <2>4. CASE q[1] # r[1]
    BY <1>4, <2>1, <2>2, <2>4
  <2> QED
    BY <2>3, <2>4
<1>7. /\ thread' \in [Thread -> Kept!ThreadState]
      /\ thread'[t].at = "saveOnline" /\ thread'[t].record = r /\ thread'[t].copy = copy
      /\ \A u \in Thread : u # t => thread'[u] = thread[u]
  BY <1>1, <1>4 DEF Kept!OpenOnline, StoreTypes, Kept!ThreadState
<1>8. StoreTypes'
  BY <1>1, <1>7 DEF StoreTypes, Kept!OpenOnline
<1>9. Knows(thread[t].copy)'
  BY <1>6, <1>7, FollowsKept DEF Knows, Kept!OpenOnline
<1>10. ThreadSound(t)'
  BY <1>1, <1>2, <1>4, <1>7, <1>9
  DEF ThreadSound, Works, Holds, HasLogged, Writes, Inside, Kept!OpenOnline
<1>11. \A u \in Thread : u # t => ThreadSound(u)'
  BY <1>1, <1>7, OthersStaySound DEF Kept!OpenOnline
<1>12. Promise'
  BY <1>7 DEF Promise
<1> QED
  BY <1>8, <1>10, <1>11, <1>12 DEF StoreInv

LEMMA SaveOnlineKeeps ==
  ASSUME Apart, StoreInv, NEW t \in Thread, Kept!SaveOnline(t)
  PROVE  StoreInv'
<1> DEFINE copy == thread[t].copy
<1>1. StoreTypes /\ ThreadSound(t) /\ thread[t].at = "saveOnline" /\ lock = t
  BY HolderAlone DEF StoreInv, Kept!SaveOnline, Inside
<1>2. Knows(copy) /\ copy \in Kept!Store /\ copy # Torn /\ copy[thread[t].record[1]] = thread[t].record
  BY <1>1 DEF ThreadSound, Writes, Knows, Apart
<1>3. /\ thread' \in [Thread -> Kept!ThreadState]
      /\ thread'[t].at = "offline" /\ thread'[t].record = thread[t].record
      /\ \A u \in Thread : u # t => thread'[u] = thread[u]
  BY <1>1, MovesOn DEF Kept!SaveOnline, Inside
<1>4. online' = copy /\ logged' = logged /\ lasting' = lasting /\ lock' = lock
  BY DEF Kept!SaveOnline
<1>5. StoreTypes'
  BY <1>1, <1>2, <1>3, <1>4 DEF StoreTypes
<1>6. ThreadSound(t)'
  BY <1>1, <1>2, <1>3, <1>4 DEF ThreadSound, Works, Holds, HasLogged, Writes, Inside
<1>7. \A u \in Thread : u # t => ThreadSound(u)'
  BY <1>1, <1>3, <1>4, OthersStaySound
<1>8. Promise'
  BY <1>2, <1>4, FollowsKept DEF Promise, Knows
<1> QED
  BY <1>5, <1>6, <1>7, <1>8 DEF StoreInv

(* The record lasts from here on, and the store knows it. *)
LEMMA AppendOfflineKeeps ==
  ASSUME Apart, StoreInv, NEW t \in Thread, Kept!AppendOffline(t)
  PROVE  StoreInv'
<1> DEFINE r == thread[t].record
<1>1. StoreTypes /\ ThreadSound(t) /\ thread[t].at = "offline" /\ lock = t
  BY HolderAlone DEF StoreInv, Kept!AppendOffline, Inside
<1>2. /\ r \in Kept!Record /\ r # None
      /\ logged \in Seq(Kept!Record) /\ logged # <<>> /\ logged[Len(logged)] = r
      /\ online # Torn /\ online[r[1]] = r
  BY <1>1 DEF ThreadSound, Works, HasLogged, Writes, StoreTypes, Apart
<1>3. Knows(online)
  BY <1>1, <1>2, HolderAlone DEF StoreInv, Promise, Inside
<1>4. /\ thread' = [thread EXCEPT ![t] = Kept!Idle] /\ lock' = None
      /\ online' = online /\ logged' = logged /\ lasting' = lasting \cup {r}
  BY DEF Kept!AppendOffline
<1>5. Kept!Idle \in Kept!ThreadState
  BY DEF Kept!Idle, Kept!ThreadState, Kept!NoStore, Kept!Store
<1>6. StoreTypes'
  BY <1>1, <1>2, <1>4, <1>5 DEF StoreTypes
<1>7. ThreadSound(t)'
  BY <1>1, <1>4
  DEF StoreTypes, Apart, Kept!Idle, ThreadSound, Works, Holds, HasLogged, Writes, Inside
<1>8. \A u \in Thread : u # t => ThreadSound(u)'
  <2>1. \A u \in Thread : u # t => thread'[u] = thread[u]
    BY <1>1, <1>4 DEF StoreTypes
  <2> QED
    BY <1>1, <1>4, <2>1, OthersStaySound
<1>9. \A q \in lasting' : online[q[1]] # None /\ Kept!Follows(online[q[1]], q)
  <2>1. Kept!Follows(r, r)
    BY <1>2, LastFollows
  <2> QED
    BY <1>2, <1>3, <1>4, <2>1 DEF Knows
<1>10. Knows(online)'
  BY <1>3, <1>4, <1>9 DEF Knows, Kept!Follows
<1>11. Promise'
  BY <1>2, <1>4, <1>10 DEF Promise
<1> QED
  BY <1>6, <1>7, <1>8, <1>11 DEF StoreInv

(* A store that is caught in the middle of a write promises nothing; any   *)
(* other is what it was.                                                   *)
LEMMA BreakKeepsPromise ==
  ASSUME Apart, StoreInv, NEW t \in Thread, lock = t, Kept!BreaksOff(t)
  PROVE  /\ lasting' \subseteq Kept!Record
         /\ Promise'
<1>1. thread[t].at \in Inside
  BY DEF StoreInv, ThreadSound, Holds
<1>2. \A u \in Thread : u # t => thread[u].at # "saveOnline"
  BY <1>1, HolderAlone DEF Inside
<1>3. online' = online /\ logged' = logged /\ lasting' = IF online = Torn THEN {} ELSE lasting
  BY DEF Kept!BreaksOff
<1>4. lasting' \subseteq Kept!Record
  BY <1>3 DEF StoreInv, StoreTypes
<1>5. CASE online = Torn
  BY <1>3, <1>5 DEF Promise
<1>6. CASE online # Torn
  <2>1. thread[t].at # "saveOnline"
    BY <1>6 DEF StoreInv, ThreadSound, Writes
  <2>2. Knows(online)
    BY <1>2, <1>6, <2>1 DEF StoreInv, Promise
  <2> QED
    BY <1>3, <1>4, <1>6, <2>2, FollowsKept DEF Promise, Knows
<1> QED
  BY <1>4, <1>5, <1>6

LEMMA IdleThreadIsSound ==
  ASSUME NEW t \in Thread, thread[t] = Kept!Idle, lock # t
  PROVE  ThreadSound(t)
BY DEF Kept!Idle, ThreadSound, Works, Holds, HasLogged, Writes, Inside

LEMMA RecordFailsKeeps ==
  ASSUME Apart, StoreInv, NEW t \in Thread, Kept!RecordFails(t)
  PROVE  StoreInv'
<1>1. /\ StoreTypes /\ lock = t /\ lock' = None
      /\ thread' = [thread EXCEPT ![t] = Kept!Idle]
      /\ online' = online /\ logged' = logged
  BY DEF StoreInv, Kept!RecordFails, Kept!BreaksOff
<1>2. lasting' \subseteq Kept!Record /\ Promise'
  BY <1>1, BreakKeepsPromise DEF Kept!RecordFails
<1>3. Kept!Idle \in Kept!ThreadState
  BY DEF Kept!Idle, Kept!ThreadState, Kept!NoStore, Kept!Store
<1>4. StoreTypes'
  BY <1>1, <1>2, <1>3 DEF StoreTypes
<1>5. ThreadSound(t)'
  BY <1>1 DEF StoreTypes, Apart, Kept!Idle, ThreadSound, Works, Holds, HasLogged, Writes, Inside
<1>6. \A u \in Thread : u # t => ThreadSound(u)'
  <2>1. \A u \in Thread : u # t => thread'[u] = thread[u]
    BY <1>1 DEF StoreTypes
  <2> QED
    BY <1>1, <2>1, OthersStaySound
<1> QED
  BY <1>2, <1>4, <1>5, <1>6 DEF StoreInv

LEMMA CrashKeeps ==
  ASSUME Apart, StoreInv, Kept!Crash
  PROVE  StoreInv'
<1>1. /\ StoreTypes /\ lock \in Thread /\ lock' = None
      /\ thread' = [t \in Thread |-> Kept!Idle]
      /\ online' = online /\ logged' = logged
  BY DEF StoreInv, StoreTypes, Kept!Crash, Kept!BreaksOff
<1>2. lasting' \subseteq Kept!Record /\ Promise'
  BY <1>1, BreakKeepsPromise DEF Kept!Crash
<1>3. Kept!Idle \in Kept!ThreadState
  BY DEF Kept!Idle, Kept!ThreadState, Kept!NoStore, Kept!Store
<1>4. StoreTypes'
  BY <1>1, <1>2, <1>3 DEF StoreTypes
<1>5. \A t \in Thread : ThreadSound(t)'
  BY <1>1 DEF Apart, Kept!Idle, ThreadSound, Works, Holds, HasLogged, Writes, Inside
<1> QED
  BY <1>2, <1>4, <1>5 DEF StoreInv

LEMMA StoreStepKeeps == Apart /\ StoreInv /\ [Kept!Next]_(Kept!vars) => StoreInv'
<1> SUFFICES ASSUME Apart, StoreInv, [Kept!Next]_(Kept!vars) PROVE StoreInv'
  OBVIOUS
<1>1. CASE \E t \in Thread, r \in Kept!Record : Kept!Score(t, r)
  BY <1>1, ScoreKeeps
<1>2. CASE \E t \in Thread :
             \/ Kept!Lock(t) \/ Kept!AppendLog(t) \/ Kept!OpenOnline(t) \/ Kept!SaveOnline(t) \/ Kept!AppendOffline(t)
             \/ Kept!RecordFails(t)
  BY <1>2, LockKeeps, AppendLogKeeps, OpenOnlineKeeps, SaveOnlineKeeps, AppendOfflineKeeps,
     RecordFailsKeeps
<1>3. CASE Kept!Crash
  BY <1>3, CrashKeeps
<1>4. CASE UNCHANGED (Kept!vars)
  BY <1>4
  DEF Kept!vars, StoreInv, StoreTypes, ThreadSound, Works, Holds, HasLogged, Writes, Promise,
      Knows,
     Kept!Follows
<1> QED
  BY <1>1, <1>2, <1>3, <1>4 DEF Kept!Next

(* A store whose lock is free is not being written. *)
LEMMA StoreKnows == Apart /\ StoreInv => Kept!OnlineIsLatest
<1> SUFFICES ASSUME Apart, StoreInv, lock = None,
                    NEW r \in lasting
             PROVE  online # Torn /\ online[r[1]] # None /\ Kept!Follows(online[r[1]], r)
  BY DEF Kept!OnlineIsLatest
<1>1. \A t \in Thread : thread[t].at # "saveOnline"
  BY DEF Apart, StoreInv, ThreadSound, Holds, Inside
<1> QED
  BY <1>1 DEF StoreInv, Promise, Knows

-----------------------------------------------------------------------------
(* record_inference: however scorings overlap, writes fail and the process *)
(* dies, the online store knows the latest record of every customer that   *)
(* was recorded since it was last damaged.                                 *)
THEOREM NoUpdateIsLost ==
  Kept!Spec => []Kept!OnlineIsLatest
<1>1. Kept!Init => StoreInv
  BY ApartHolds, InitStore
<1>2. StoreInv /\ [Kept!Next]_(Kept!vars) => StoreInv'
  BY ApartHolds, StoreStepKeeps
<1>3. StoreInv => Kept!OnlineIsLatest
  BY ApartHolds, StoreKnows
<1> QED
  BY <1>1, <1>2, <1>3, PTL DEF Kept!Spec

-----------------------------------------------------------------------------
(* What breaking off costs. *)

Damaged(file) == file # <<>> /\ ~Kept!Last(file).ended

(* What breaking off has cost: the records of kept that cannot be read in  *)
(* the file, and the next one if the file was left without its end.        *)
Cost(file, kept) == Cardinality(kept \ Kept!Readable(file)) + (IF Damaged(file) THEN 1 ELSE 0)

(* Whatever holds a record that breaks off has it to himself, and it was   *)
(* not among those kept; so nothing is lost with it.                       *)
Spared(file, kept) ==
  Damaged(file) /\ Kept!Last(file).holds # None =>
    Kept!Last(file).holds \notin kept /\ \A t \in Thread : thread[t].record # Kept!Last(file).holds

(* A record is in one thread's hands, and logged and done once.            *)
OneRecord(t) ==
  /\ thread[t].at = "idle" => thread[t].record = None
  /\ thread[t].at \in {"lock", "log"} => thread[t].record \notin Kept!Range(logged)
  /\ thread[t].at \in {"online", "saveOnline", "offline"} =>
       thread[t].record \in Kept!Range(logged) \ done

DistinctRecords ==
  \A t, u \in Thread :
    t # u /\ thread[t].record = thread[u].record => thread[t].record = None

Files ==
  /\ log \in Seq(Kept!Line) /\ offline \in Seq(Kept!Line)
  /\ IsFiniteSet(Kept!Range(logged)) /\ done \subseteq Kept!Range(logged)
  /\ breaks \in Nat

KeptInv ==
  /\ Files
  /\ \A t \in Thread : OneRecord(t)
  /\ DistinctRecords
  /\ Spared(log, Kept!Range(logged)) /\ Spared(offline, done)
  /\ Damaged(offline) => Kept!Last(offline).holds \in Kept!Range(logged) \cup {None}
  /\ Cost(log, Kept!Range(logged)) + Cost(offline, done) <= breaks

-----------------------------------------------------------------------------
(* Files and what they cost. *)

LEMMA WholeIsLine ==
  ASSUME NEW x \in Kept!Record
  PROVE  Kept!Whole(x) \in Kept!Line /\ Kept!Whole(x).holds = x /\ Kept!Whole(x).ended
BY DEF Kept!Whole, Kept!Line

LEMMA LastOfFile ==
  ASSUME NEW file \in Seq(Kept!Line), file # <<>>
  PROVE  /\ Len(file) \in DOMAIN file /\ Kept!Last(file) = file[Len(file)] /\ Kept!Last(file) \in Kept!Line
BY DEF Kept!Last

LEMMA AppendedToWhole ==
  ASSUME NEW file \in Seq(Kept!Line), NEW line \in Kept!Line, ~Damaged(file)
  PROVE  /\ Kept!Appended(file, line) \in Seq(Kept!Line) /\ Kept!Appended(file, line) # <<>>
         /\ Kept!Last(Kept!Appended(file, line)) = line
         /\ Kept!Readable(Kept!Appended(file, line)) = Kept!Readable(file) \cup ({line.holds} \ {None})
<1> DEFINE new == Append(file, line)
<1>1. Kept!Appended(file, line) = new
  BY DEF Kept!Appended, Damaged
<1>2. /\ new \in Seq(Kept!Line) /\ new # <<>> /\ Len(new) = Len(file) + 1
      /\ new[Len(new)] = line
      /\ \A i \in DOMAIN file : i \in DOMAIN new /\ new[i] = file[i]
      /\ \A i \in DOMAIN new : i \in DOMAIN file \/ i = Len(new)
      /\ Len(new) \in DOMAIN new
  OBVIOUS
<1>3. Kept!Readable(new) = Kept!Readable(file) \cup ({line.holds} \ {None})
  BY <1>2 DEF Kept!Readable
<1> QED
  BY <1>1, <1>2, <1>3 DEF Kept!Last

LEMMA AppendedToDamaged ==
  ASSUME NEW file \in Seq(Kept!Line), NEW line \in Kept!Line, Damaged(file)
  PROVE  /\ Kept!Appended(file, line) \in Seq(Kept!Line) /\ Kept!Appended(file, line) # <<>>
         /\ Kept!Last(Kept!Appended(file, line)) = [line EXCEPT !.holds = None]
         /\ Kept!Readable(file) \ {Kept!Last(file).holds} \subseteq Kept!Readable(Kept!Appended(file, line))
<1> DEFINE merged == [line EXCEPT !.holds = None]
           new == Kept!Front(file) \o <<merged>>
<1>1. Kept!Appended(file, line) = new
  BY DEF Kept!Appended, Damaged
<1>2. merged \in Kept!Line
  BY DEF Kept!Line
<1>3. file # <<>> /\ Len(file) \in Nat /\ Len(file) >= 1
  BY DEF Damaged
<1>4. /\ Kept!Front(file) \in Seq(Kept!Line) /\ Len(Kept!Front(file)) = Len(file) - 1
      /\ \A i \in 1 .. (Len(file) - 1) : Kept!Front(file)[i] = file[i]
  <2>1. \A i \in 1 .. (Len(file) - 1) : file[i] \in Kept!Line
    BY <1>3
  <2>2. Len(file) - 1 \in Int /\ 1 \in Int
    BY <1>3
  <2> DEFINE n == Len(file) - 1
  <2>3. /\ SubSeq(file, 1, n) \in Seq(Kept!Line)
        /\ Len(SubSeq(file, 1, n)) = IF 1 <= n THEN n - 1 + 1 ELSE 0
        /\ \A i \in 1 .. n - 1 + 1 : SubSeq(file, 1, n)[i] = file[1 + i - 1]
    <3> HIDE DEF n
    <3>1. n \in Int /\ \A i \in 1 .. n : file[i] \in Kept!Line
      BY <2>1, <2>2 DEF n
    <3> QED
      BY <3>1, SubSeqProperties
  <2> DEFINE front == SubSeq(file, 1, n)
  <2>4. n \in Nat
    BY <1>3
  <2>5. Len(front) = n
    <3> HIDE DEF n, front
    <3>1. Len(front) = IF 1 <= n THEN n - 1 + 1 ELSE 0
      BY <2>3 DEF front
    <3> QED
      BY <2>4, <3>1
  <2>6. ASSUME NEW i \in 1 .. n PROVE front[i] = file[i]
    <3> HIDE DEF n, front
    <3>1. i \in 1 .. n - 1 + 1 /\ 1 + i - 1 = i
      BY <2>4
    <3>2. front[i] = file[1 + i - 1]
      BY <2>3, <3>1 DEF front
    <3> QED
      BY <3>1, <3>2
  <2> QED
    BY <2>3, <2>5, <2>6 DEF Kept!Front
<1>5. /\ new \in Seq(Kept!Line) /\ new # <<>> /\ Len(new) = Len(file)
      /\ new[Len(new)] = merged
      /\ \A i \in 1 .. (Len(file) - 1) : i \in DOMAIN new /\ new[i] = file[i]
  BY <1>2, <1>3, <1>4
<1>6. ASSUME NEW i \in DOMAIN file, file[i].holds # Kept!Last(file).holds
      PROVE  i \in 1 .. (Len(file) - 1)
  BY <1>3, <1>6 DEF Kept!Last
<1>7. Kept!Readable(file) \ {Kept!Last(file).holds} \subseteq Kept!Readable(new)
  BY <1>5, <1>6 DEF Kept!Readable
<1> QED
  BY <1>1, <1>5, <1>7 DEF Kept!Last

LEMMA AtMostOneMore ==
  ASSUME NEW A, NEW B, IsFiniteSet(A)
  PROVE  /\ Cardinality(A) \in Nat
         /\ B \subseteq A => Cardinality(B) \in Nat /\ Cardinality(B) <= Cardinality(A)
         /\ \A x : B \subseteq A \cup {x} =>
              Cardinality(B) \in Nat /\ Cardinality(B) <= Cardinality(A) + 1
<1>1. Cardinality(A) \in Nat
  BY FS_CardinalityType
<1>2. ASSUME B \subseteq A PROVE Cardinality(B) \in Nat /\ Cardinality(B) <= Cardinality(A)
  BY <1>2, FS_Subset, FS_CardinalityType
<1>3. ASSUME NEW x, B \subseteq A \cup {x}
      PROVE  Cardinality(B) \in Nat /\ Cardinality(B) <= Cardinality(A) + 1
  <2>1. IsFiniteSet(A \cup {x}) /\ Cardinality(A \cup {x}) <= Cardinality(A) + 1
    BY <1>1, FS_AddElement
  <2>2. IsFiniteSet(B) /\ Cardinality(B) <= Cardinality(A \cup {x})
    BY <1>3, <2>1, FS_Subset
  <2> QED
    BY <1>1, <2>1, <2>2, FS_CardinalityType
<1> QED
  BY <1>1, <1>2, <1>3

LEMMA CostIsNat ==
  ASSUME NEW file, NEW kept, IsFiniteSet(kept)
  PROVE  Cost(file, kept) \in Nat /\ Cardinality(kept \ Kept!Readable(file)) \in Nat
BY FS_Subset, FS_CardinalityType DEF Cost

(* A record that is written costs nothing more than a record that broke    *)
(* off before it.                                                          *)
LEMMA WritingIsFree ==
  ASSUME NEW file \in Seq(Kept!Line), NEW kept, IsFiniteSet(kept), None \notin kept,
         NEW x \in Kept!Record, None \notin Kept!Record,
         Damaged(file) => Kept!Last(file).holds \notin kept
  PROVE  LET new == Kept!Appended(file, Kept!Whole(x))
         IN  /\ new \in Seq(Kept!Line) /\ ~Damaged(new)
             /\ Cost(new, kept \cup {x}) <= Cost(file, kept)
<1> DEFINE new == Kept!Appended(file, Kept!Whole(x))
<1>1. Kept!Whole(x) \in Kept!Line /\ Kept!Whole(x).holds = x /\ Kept!Whole(x).ended /\ x # None
  BY WholeIsLine
<1>2. IsFiniteSet(kept \ Kept!Readable(file))
  BY FS_Subset
<1>3. CASE ~Damaged(file)
  <2>1. new \in Seq(Kept!Line) /\ Kept!Last(new).ended /\ Kept!Readable(new) = Kept!Readable(file) \cup {x}
    BY <1>1, <1>3, AppendedToWhole
  <2>2. (kept \cup {x}) \ Kept!Readable(new) \subseteq kept \ Kept!Readable(file)
    BY <2>1
  <2>3. Cardinality((kept \cup {x}) \ Kept!Readable(new)) <= Cardinality(kept \ Kept!Readable(file))
    BY <1>2, <2>2, AtMostOneMore
  <2>4. Cost(file, kept) = Cardinality(kept \ Kept!Readable(file)) /\ ~Damaged(new)
    BY <1>2, <1>3, <2>1, AtMostOneMore DEF Cost, Damaged
  <2>5. Cost(new, kept \cup {x}) = Cardinality((kept \cup {x}) \ Kept!Readable(new))
    BY <1>2, <2>2, <2>4, AtMostOneMore DEF Cost
  <2> QED
    BY <2>1, <2>3, <2>4, <2>5
<1>4. CASE Damaged(file)
  <2>1. /\ new \in Seq(Kept!Line) /\ Kept!Last(new).ended
        /\ Kept!Readable(file) \ {Kept!Last(file).holds} \subseteq Kept!Readable(new)
    BY <1>1, <1>4, AppendedToDamaged DEF Kept!Line
  <2>2. (kept \cup {x}) \ Kept!Readable(new) \subseteq (kept \ Kept!Readable(file)) \cup {x}
    BY <1>4, <2>1
  <2>3. Cardinality((kept \cup {x}) \ Kept!Readable(new)) <= Cardinality(kept \ Kept!Readable(file)) + 1
    BY <1>2, <2>2, AtMostOneMore
  <2>4. Cost(file, kept) = Cardinality(kept \ Kept!Readable(file)) + 1 /\ ~Damaged(new)
    BY <1>4, <2>1 DEF Cost, Damaged
  <2>5. Cost(new, kept \cup {x}) = Cardinality((kept \cup {x}) \ Kept!Readable(new))
    BY <1>2, <2>2, <2>4, AtMostOneMore DEF Cost
  <2> QED
    BY <2>1, <2>3, <2>4, <2>5
<1> QED
  BY <1>3, <1>4

(* A write that breaks off costs one record at most. *)
LEMMA BreakingCostsOne ==
  ASSUME NEW file \in Seq(Kept!Line), NEW kept, IsFiniteSet(kept), None \notin kept,
         NEW x \in Kept!Record, None \notin Kept!Record,
         Damaged(file) => Kept!Last(file).holds \notin kept,
         NEW new \in Kept!CutOff(file, x)
  PROVE  /\ new \in Seq(Kept!Line)
         /\ Cost(new, kept) <= Cost(file, kept) + 1
         /\ Damaged(new) => new = file \/ Kept!Last(new).holds \in {None, x}
<1>1. IsFiniteSet(kept \ Kept!Readable(file)) /\ Cost(file, kept) \in Nat
  BY FS_Subset, CostIsNat
<1>2. CASE new = file
  BY <1>1, <1>2
<1>3. ASSUME NEW h \in {None, x}, new = Kept!Appended(file, [holds |-> h, ended |-> FALSE])
      PROVE  /\ new \in Seq(Kept!Line) /\ Kept!Last(new).holds \in {None, x}
             /\ Cost(new, kept) <= Cost(file, kept) + 1
  <2> DEFINE line == [holds |-> h, ended |-> FALSE]
  <2>1. line \in Kept!Line
    BY DEF Kept!Line
  <2>2. CASE ~Damaged(file)
    <3>1. new \in Seq(Kept!Line) /\ Kept!Last(new) = line /\ Kept!Readable(file) \subseteq Kept!Readable(new)
      BY <1>3, <2>1, <2>2, AppendedToWhole
    <3>2. Cardinality(kept \ Kept!Readable(new)) \in Nat
          /\ Cardinality(kept \ Kept!Readable(new)) <= Cardinality(kept \ Kept!Readable(file))
      BY <1>1, <3>1, AtMostOneMore
    <3> QED
      BY <1>1, <2>2, <3>1, <3>2, CostIsNat DEF Cost
  <2>3. CASE Damaged(file)
    <3>1. /\ new \in Seq(Kept!Line) /\ Kept!Last(new).holds = None
          /\ Kept!Readable(file) \ {Kept!Last(file).holds} \subseteq Kept!Readable(new)
      BY <1>3, <2>1, <2>3, AppendedToDamaged
    <3>2. kept \ Kept!Readable(new) \subseteq kept \ Kept!Readable(file)
      BY <2>3, <3>1
    <3>3. Cardinality(kept \ Kept!Readable(new)) \in Nat
          /\ Cardinality(kept \ Kept!Readable(new)) <= Cardinality(kept \ Kept!Readable(file))
      BY <1>1, <3>2, AtMostOneMore
    <3> QED
      BY <1>1, <2>3, <3>1, <3>3, CostIsNat DEF Cost
  <2> QED
    BY <2>2, <2>3
<1> QED
  BY <1>2, <1>3 DEF Kept!CutOff

LEMMA RangeOfLogged ==
  ASSUME logged \in Seq(Kept!Record)
  PROVE  /\ Kept!Range(logged) \subseteq Kept!Record
         /\ \A x : Kept!Range(Append(logged, x)) = Kept!Range(logged) \cup {x}
<1>1. Kept!Range(logged) \subseteq Kept!Record
  BY DEF Kept!Range
<1>2. ASSUME NEW x PROVE Kept!Range(Append(logged, x)) = Kept!Range(logged) \cup {x}
  <2> DEFINE new == Append(logged, x)
  <2>1. /\ Len(new) \in DOMAIN new /\ new[Len(new)] = x
        /\ \A i \in DOMAIN logged : i \in DOMAIN new /\ new[i] = logged[i]
        /\ \A i \in DOMAIN new : i \in DOMAIN logged \/ i = Len(new)
    OBVIOUS
  <2> QED
    BY <2>1 DEF Kept!Range
<1> QED
  BY <1>1, <1>2

(* What KeptInv says of the two files. *)
LEMMA KeptFiles ==
  ASSUME Apart, StoreInv, KeptInv
  PROVE  /\ Kept!Range(logged) \subseteq Kept!Record /\ None \notin Kept!Range(logged)
         /\ IsFiniteSet(done) /\ None \notin done
         /\ Damaged(log) => Kept!Last(log).holds \notin Kept!Range(logged)
         /\ Damaged(offline) => Kept!Last(offline).holds \notin done
         /\ Cost(log, Kept!Range(logged)) \in Nat /\ Cost(offline, done) \in Nat
<1>1. Kept!Range(logged) \subseteq Kept!Record
  BY RangeOfLogged DEF StoreInv, StoreTypes
<1>2. None \notin Kept!Range(logged) /\ None \notin done /\ IsFiniteSet(done)
  BY <1>1, FS_Subset DEF Apart, KeptInv, Files
<1>3. Cost(log, Kept!Range(logged)) \in Nat /\ Cost(offline, done) \in Nat
  BY <1>2, CostIsNat DEF KeptInv, Files
<1> QED
  BY <1>1, <1>2, <1>3 DEF KeptInv, Spared

LEMMA InitKept == Apart /\ Kept!Init => KeptInv
<1> SUFFICES ASSUME Apart, Kept!Init PROVE KeptInv
  OBVIOUS
<1>1. /\ log = <<>> /\ offline = <<>> /\ logged = <<>> /\ done = {} /\ breaks = 0
      /\ \A t \in Thread : thread[t] = Kept!Idle
  BY DEF Kept!Init
<1>2. Kept!Range(logged) = {}
  BY <1>1 DEF Kept!Range
<1>3. IsFiniteSet({}) /\ Cardinality({}) = 0
  BY FS_EmptySet
<1>4. Files
  <2>1. log \in Seq(Kept!Line) /\ offline \in Seq(Kept!Line) /\ breaks \in Nat
    BY <1>1, EmptySeq
  <2>2. IsFiniteSet(Kept!Range(logged))
    BY <1>2, <1>3, Zenon
  <2>3. done \subseteq Kept!Range(logged)
    BY <1>1
  <2> QED
    BY <2>1, <2>2, <2>3, Zenon DEF Files
<1>5. \A t \in Thread : OneRecord(t) /\ thread[t].record = None
  BY <1>1 DEF Kept!Idle, OneRecord
<1>6. ~Damaged(log) /\ ~Damaged(offline)
  BY <1>1 DEF Damaged
<1>7. Kept!Range(logged) \ Kept!Readable(log) = {} /\ done \ Kept!Readable(offline) = {}
  BY <1>1, <1>2
<1>8. Cost(log, Kept!Range(logged)) + Cost(offline, done) <= breaks
  <2>1. Cardinality(Kept!Range(logged) \ Kept!Readable(log)) = 0 /\ Cardinality(done \ Kept!Readable(offline)) = 0
    BY <1>3, <1>7, Zenon
  <2>2. Cost(log, Kept!Range(logged)) = 0 /\ Cost(offline, done) = 0
    BY <2>1, <1>6 DEF Cost
  <2> QED
    BY <2>2, <1>1
<1> QED
  BY <1>4, <1>5, <1>6, <1>8 DEF KeptInv, DistinctRecords, Spared

(* A step that writes neither file and changes no thread's record. *)
LEMMA MovesKeep ==
  ASSUME KeptInv, UNCHANGED <<log, offline, breaks, logged, done>>,
         \A u \in Thread : thread'[u].record = thread[u].record /\ OneRecord(u)'
  PROVE  KeptInv'
<1>1. Files' /\ DistinctRecords'
  BY DEF KeptInv, Files, DistinctRecords
<1>2. Spared(log, Kept!Range(logged))' /\ Spared(offline, done)'
  BY DEF KeptInv, Spared, Damaged
<1>3. (Damaged(offline) => Kept!Last(offline).holds \in Kept!Range(logged) \cup {None})'
  BY DEF KeptInv, Damaged
<1>4. (Cost(log, Kept!Range(logged)) + Cost(offline, done) <= breaks)'
  BY DEF KeptInv, Cost, Damaged, Kept!Readable
<1> QED
  BY <1>1, <1>2, <1>3, <1>4 DEF KeptInv

LEMMA ScoreKeepsRecords ==
  ASSUME Apart, StoreInv, KeptInv, NEW t \in Thread, NEW r \in Kept!Record, Kept!Score(t, r)
  PROVE  KeptInv'
<1>1. /\ thread'[t].at = "lock" /\ thread'[t].record = r /\ thread[t].at = "idle"
      /\ \A u \in Thread : u # t => thread'[u] = thread[u]
      /\ r \notin Kept!Range(logged) /\ r \notin Kept!Readable(log) /\ r # None
      /\ \A u \in Thread : thread[u].record # r
      /\ UNCHANGED <<log, offline, breaks, logged, done>>
  BY DEF Apart, StoreInv, StoreTypes, Kept!Score, Kept!ThreadState, Kept!Idle
<1>2. Files'
  BY <1>1 DEF KeptInv, Files
<1>3. \A u \in Thread : OneRecord(u)'
  BY <1>1 DEF KeptInv, OneRecord
<1>4. DistinctRecords'
  BY <1>1 DEF KeptInv, DistinctRecords
<1>5. Damaged(log) /\ Kept!Last(log).holds # None => Kept!Last(log).holds \in Kept!Readable(log)
  BY LastOfFile DEF KeptInv, Files, Damaged, Kept!Readable
<1>6. Spared(log, Kept!Range(logged))'
  BY <1>1, <1>5 DEF KeptInv, Spared, Damaged
<1>7. Spared(offline, done)'
  BY <1>1 DEF KeptInv, Spared, Damaged
<1>8. (Damaged(offline) => Kept!Last(offline).holds \in Kept!Range(logged) \cup {None})'
  BY <1>1 DEF KeptInv, Damaged
<1>9. (Cost(log, Kept!Range(logged)) + Cost(offline, done) <= breaks)'
  BY <1>1 DEF KeptInv, Cost, Damaged, Kept!Readable
<1> QED
  BY <1>2, <1>3, <1>4, <1>6, <1>7, <1>8, <1>9 DEF KeptInv

LEMMA AppendLogKeepsRecords ==
  ASSUME Apart, StoreInv, KeptInv, NEW t \in Thread, Kept!AppendLog(t)
  PROVE  KeptInv'
<1> DEFINE r == thread[t].record
<1>1. /\ StoreTypes /\ thread[t].at = "log" /\ r \in Kept!Record /\ r # None
      /\ \A u \in Thread : u # t => thread[u].at \in {"idle", "lock"}
  BY HolderAlone
  DEF Apart, StoreInv, StoreTypes, Kept!ThreadState, ThreadSound, Works, Kept!AppendLog, Inside
<1>2. /\ thread'[t].at = "online" /\ thread'[t].record = r
      /\ \A u \in Thread : u # t => thread'[u] = thread[u]
  BY <1>1, MovesOn DEF Kept!AppendLog, Inside
<1>3. /\ log' = Kept!Appended(log, Kept!Whole(r)) /\ logged' = Append(logged, r)
      /\ UNCHANGED <<offline, breaks, done>>
  BY DEF Kept!AppendLog
<1>4. Kept!Range(logged') = Kept!Range(logged) \cup {r}
  BY <1>1, <1>3, RangeOfLogged DEF StoreTypes
<1>5. Files /\ OneRecord(t) /\ DistinctRecords /\ \A u \in Thread : OneRecord(u)
  BY DEF KeptInv
<1>6. r \notin Kept!Range(logged) /\ r \notin done
  BY <1>1, <1>5 DEF OneRecord, Files
<1>7. /\ log' \in Seq(Kept!Line) /\ ~Damaged(log')
      /\ Cost(log', Kept!Range(logged')) <= Cost(log, Kept!Range(logged))
  BY <1>1, <1>3, <1>4, <1>5, KeptFiles, WritingIsFree DEF Files, Apart
<1>8. IsFiniteSet(Kept!Range(logged'))
  BY <1>4, <1>5, FS_AddElement DEF Files
<1>9. Files'
  BY <1>3, <1>4, <1>5, <1>7, <1>8 DEF Files
<1>10. \A u \in Thread : OneRecord(u)'
  BY <1>1, <1>2, <1>3, <1>4, <1>5, <1>6 DEF OneRecord, DistinctRecords
<1>11. DistinctRecords'
  BY <1>2, <1>5 DEF DistinctRecords
<1>12. Spared(log, Kept!Range(logged))' /\ Spared(offline, done)'
  BY <1>2, <1>3, <1>7 DEF KeptInv, Spared, Damaged
<1>13. (Damaged(offline) => Kept!Last(offline).holds \in Kept!Range(logged) \cup {None})'
  BY <1>3, <1>4 DEF KeptInv, Damaged
<1>14. Cost(log', Kept!Range(logged')) + Cost(offline', done') <= breaks'
  <2>1. Cost(log', Kept!Range(logged')) \in Nat
    BY <1>8, CostIsNat
  <2> QED
    BY <1>3, <1>5, <1>7, <2>1, KeptFiles DEF KeptInv, Files
<1> QED
  BY <1>9, <1>10, <1>11, <1>12, <1>13, <1>14 DEF KeptInv

LEMMA AppendOfflineKeepsRecords ==
  ASSUME Apart, StoreInv, KeptInv, NEW t \in Thread, Kept!AppendOffline(t)
  PROVE  KeptInv'
<1> DEFINE r == thread[t].record
<1>1. /\ StoreTypes /\ thread[t].at = "offline" /\ r \in Kept!Record /\ r # None
      /\ \A u \in Thread : u # t => thread[u].at \in {"idle", "lock"}
  BY HolderAlone
  DEF Apart, StoreInv, StoreTypes, Kept!ThreadState, ThreadSound, Works, Kept!AppendOffline,
      Inside
<1>2. thread'[t] = Kept!Idle /\ \A u \in Thread : u # t => thread'[u] = thread[u]
  BY <1>1 DEF Kept!AppendOffline, StoreTypes
<1>3. /\ offline' = Kept!Appended(offline, Kept!Whole(r)) /\ done' = done \cup {r}
      /\ UNCHANGED <<log, breaks, logged>>
  BY DEF Kept!AppendOffline
<1>4. Files /\ OneRecord(t) /\ DistinctRecords /\ \A u \in Thread : OneRecord(u)
  BY DEF KeptInv
<1>5. r \in Kept!Range(logged) /\ r \notin done
  BY <1>1, <1>4 DEF OneRecord
<1>6. /\ offline' \in Seq(Kept!Line) /\ ~Damaged(offline')
      /\ Cost(offline', done') <= Cost(offline, done)
  BY <1>1, <1>3, <1>4, KeptFiles, WritingIsFree DEF Files, Apart
<1>7. Files'
  BY <1>3, <1>4, <1>5, <1>6 DEF Files
<1>8. \A u \in Thread : OneRecord(u)'
  BY <1>1, <1>2, <1>3, <1>4 DEF OneRecord, Kept!Idle
<1>9. DistinctRecords'
  BY <1>2, <1>4 DEF DistinctRecords, Kept!Idle
<1>10. Spared(log, Kept!Range(logged))' /\ Spared(offline, done)'
  BY <1>2, <1>3, <1>6 DEF KeptInv, Spared, Damaged, Kept!Idle
<1>11. (Damaged(offline) => Kept!Last(offline).holds \in Kept!Range(logged) \cup {None})'
  BY <1>6 DEF Damaged
<1>12. Cost(log', Kept!Range(logged')) + Cost(offline', done') <= breaks'
  <2>1. Cost(offline', done') \in Nat
    BY <1>3, KeptFiles, FS_AddElement, CostIsNat
  <2> QED
    BY <1>3, <1>4, <1>6, <2>1, KeptFiles DEF KeptInv, Files
<1> QED
  BY <1>7, <1>8, <1>9, <1>10, <1>11, <1>12 DEF KeptInv

(* The record that breaks off was in one thread's hands, and is now in     *)
(* none.                                                                   *)
LEMMA BreakKeepsRecords ==
  ASSUME Apart, StoreInv, KeptInv, NEW t \in Thread, lock = t, Kept!BreaksOff(t),
         thread'[t] = Kept!Idle, \A u \in Thread : thread'[u] \in {thread[u], Kept!Idle}
  PROVE  KeptInv'
<1> DEFINE r == thread[t].record
<1>1. thread[t].at \in Inside /\ r \in Kept!Record /\ r # None
  BY DEF Apart, StoreInv, ThreadSound, Holds, Works, Inside
<1>2. logged' = logged /\ done' = done /\ breaks' = breaks + 1
  BY DEF Kept!BreaksOff
<1>3. Files /\ DistinctRecords /\ \A u \in Thread : OneRecord(u)
  BY DEF KeptInv
<1>4. \A u \in Thread : OneRecord(u)'
  BY <1>2, <1>3 DEF OneRecord, Kept!Idle
<1>5. DistinctRecords'
  BY <1>3 DEF DistinctRecords, Kept!Idle
<1>6. \A u \in Thread : /\ thread'[u].record \in {thread[u].record, None}
                        /\ thread'[u].record # r
  BY <1>1, <1>3 DEF DistinctRecords, Kept!Idle
<1>7. CASE thread[t].at = "log"
  <2>1. log' \in Kept!CutOff(log, r) /\ offline' = offline
    BY <1>7 DEF Kept!BreaksOff
  <2>2. r \notin Kept!Range(logged)
    BY <1>3, <1>7 DEF OneRecord
  <2>3. /\ log' \in Seq(Kept!Line) /\ Cost(log', Kept!Range(logged)) <= Cost(log, Kept!Range(logged)) + 1
        /\ Damaged(log') => log' = log \/ Kept!Last(log').holds \in {None, r}
    BY <1>1, <1>3, <2>1, KeptFiles, BreakingCostsOne DEF Files, Apart
  <2>4. Files'
    BY <1>2, <1>3, <2>1, <2>3 DEF Files
  <2>5. Spared(log, Kept!Range(logged))'
    BY <1>2, <1>6, <2>2, <2>3 DEF KeptInv, Spared, Damaged
  <2>6. Spared(offline, done)'
    BY <1>2, <1>6, <2>1 DEF KeptInv, Spared, Damaged
  <2>7. (Damaged(offline) => Kept!Last(offline).holds \in Kept!Range(logged) \cup {None})'
    BY <1>2, <2>1 DEF KeptInv, Damaged
  <2>8. Cost(log', Kept!Range(logged')) + Cost(offline', done') <= breaks'
    <3>1. Cost(log', Kept!Range(logged)) \in Nat
      BY <1>3, CostIsNat DEF Files
    <3> QED
      BY <1>2, <1>3, <2>1, <2>3, <3>1, KeptFiles DEF KeptInv, Files
  <2> QED
    BY <1>4, <1>5, <2>4, <2>5, <2>6, <2>7, <2>8 DEF KeptInv
<1>8. CASE thread[t].at = "offline"
  <2>1. offline' \in Kept!CutOff(offline, r) /\ log' = log
    BY <1>8 DEF Kept!BreaksOff
  <2>2. r \in Kept!Range(logged) /\ r \notin done
    BY <1>3, <1>8 DEF OneRecord
  <2>3. /\ offline' \in Seq(Kept!Line) /\ Cost(offline', done) <= Cost(offline, done) + 1
        /\ Damaged(offline') => offline' = offline \/ Kept!Last(offline').holds \in {None, r}
    BY <1>1, <1>3, <2>1, KeptFiles, BreakingCostsOne DEF Files, Apart
  <2>4. Files'
    BY <1>2, <1>3, <2>1, <2>3 DEF Files
  <2>5. Spared(offline, done)'
    BY <1>2, <1>6, <2>2, <2>3 DEF KeptInv, Spared, Damaged
  <2>6. Spared(log, Kept!Range(logged))'
    BY <1>2, <1>6, <2>1 DEF KeptInv, Spared, Damaged
  <2>7. (Damaged(offline) => Kept!Last(offline).holds \in Kept!Range(logged) \cup {None})'
    BY <1>2, <2>2, <2>3 DEF KeptInv, Damaged
  <2>8. Cost(log', Kept!Range(logged')) + Cost(offline', done') <= breaks'
    <3>1. Cost(offline', done) \in Nat
      BY KeptFiles, CostIsNat
    <3> QED
      BY <1>2, <1>3, <2>1, <2>3, <3>1, KeptFiles DEF KeptInv, Files
  <2> QED
    BY <1>4, <1>5, <2>4, <2>5, <2>6, <2>7, <2>8 DEF KeptInv
<1>9. CASE thread[t].at \notin {"log", "offline"}
  <2>1. log' = log /\ offline' = offline
    BY <1>9 DEF Kept!BreaksOff
  <2>2. Files'
    BY <1>2, <1>3, <2>1 DEF Files
  <2>3. Spared(log, Kept!Range(logged))' /\ Spared(offline, done)'
    BY <1>2, <1>6, <2>1 DEF KeptInv, Spared, Damaged
  <2>4. (Damaged(offline) => Kept!Last(offline).holds \in Kept!Range(logged) \cup {None})'
    BY <1>2, <2>1 DEF KeptInv, Damaged
  <2>5. Cost(log', Kept!Range(logged')) + Cost(offline', done') <= breaks'
    BY <1>2, <1>3, <2>1, KeptFiles DEF KeptInv, Files
  <2> QED
    BY <1>4, <1>5, <2>2, <2>3, <2>4, <2>5 DEF KeptInv
<1> QED
  BY <1>7, <1>8, <1>9

LEMMA RecordsStep == Apart /\ StoreInv /\ KeptInv /\ [Kept!Next]_(Kept!vars) => KeptInv'
<1> SUFFICES ASSUME Apart, StoreInv, KeptInv, [Kept!Next]_(Kept!vars) PROVE KeptInv'
  OBVIOUS
<1>1. ASSUME NEW t \in Thread, NEW at, NEW from,
             <<from, at>> \in {<<"lock", "log">>, <<"online", "saveOnline">>, <<"saveOnline", "offline">>},
             thread[t].at = from, thread'[t].at = at, thread'[t].record = thread[t].record,
             \A u \in Thread : u # t => thread'[u] = thread[u],
             UNCHANGED <<log, offline, breaks, logged, done>>
      PROVE  KeptInv'
  <2>1. \A u \in Thread : thread'[u].record = thread[u].record /\ OneRecord(u)'
    BY <1>1 DEF KeptInv, OneRecord
  <2> QED
    BY <1>1, <2>1, MovesKeep
<1>2. CASE \E t \in Thread, r \in Kept!Record : Kept!Score(t, r)
  BY <1>2, ScoreKeepsRecords
<1>3. ASSUME NEW t \in Thread, Kept!Lock(t) PROVE KeptInv'
  BY <1>1, <1>3, MovesOn DEF StoreInv, Kept!Lock, Inside
<1>4. ASSUME NEW t \in Thread, Kept!OpenOnline(t) PROVE KeptInv'
  BY <1>1, <1>4 DEF StoreInv, StoreTypes, Kept!ThreadState, Kept!OpenOnline
<1>5. ASSUME NEW t \in Thread, Kept!SaveOnline(t) PROVE KeptInv'
  BY <1>1, <1>5, MovesOn DEF StoreInv, Kept!SaveOnline, Inside
<1>6. ASSUME NEW t \in Thread, Kept!RecordFails(t) PROVE KeptInv'
  <2>1. thread'[t] = Kept!Idle /\ \A u \in Thread : thread'[u] \in {thread[u], Kept!Idle}
    BY <1>6 DEF StoreInv, StoreTypes, Kept!RecordFails
  <2> QED
    BY <1>6, <2>1, BreakKeepsRecords DEF Kept!RecordFails
<1>7. CASE Kept!Crash
  <2>1. lock \in Thread
    BY <1>7 DEF StoreInv, StoreTypes, Kept!Crash
  <2>2. Kept!BreaksOff(lock) /\ \A u \in Thread : thread'[u] = Kept!Idle
    BY <1>7 DEF Kept!Crash
  <2> QED
    BY <2>1, <2>2, BreakKeepsRecords
<1>8. CASE UNCHANGED (Kept!vars)
  BY <1>8, MovesKeep DEF Kept!vars, KeptInv, OneRecord
<1> QED
  BY <1>2, <1>3, <1>4, <1>5, <1>6, <1>7, <1>8, AppendLogKeepsRecords, AppendOfflineKeepsRecords
     DEF Kept!Next

(* The community modules the instance reaches count as FiniteSets does. *)
LEMMA CardinalityIsOne ==
  ASSUME NEW S PROVE Kept!Cardinality(S) = Cardinality(S)
BY DEF Kept!Cardinality, Cardinality

LEMMA KeptAreRead == Apart /\ StoreInv /\ KeptInv => Kept!RecordsAreKept
<1> SUFFICES ASSUME Apart, StoreInv, KeptInv PROVE Kept!RecordsAreKept
  OBVIOUS
<1>1. /\ Cardinality(Kept!Range(logged) \ Kept!Readable(log)) \in Nat
      /\ Cardinality(done \ Kept!Readable(offline)) \in Nat
  BY KeptFiles, CostIsNat DEF KeptInv, Files
<1>2. /\ Cardinality(Kept!Range(logged) \ Kept!Readable(log)) <= Cost(log, Kept!Range(logged))
      /\ Cardinality(done \ Kept!Readable(offline)) <= Cost(offline, done)
  BY <1>1 DEF Cost
<1> QED
  BY <1>1, <1>2, KeptFiles, CardinalityIsOne DEF Kept!RecordsAreKept, KeptInv, Files

(* _append_jsonl, _read_jsonl, _append_offline_feature_store: wherever     *)
(* writes break off, no more records are missing from the two histories    *)
(* than writes broke off.                                                  *)
THEOREM OneBreakOneRecord ==
  Kept!Spec => []Kept!RecordsAreKept
<1>1. Kept!Init => StoreInv /\ KeptInv
  BY ApartHolds, InitStore, InitKept
<1>2. StoreInv /\ KeptInv /\ [Kept!Next]_(Kept!vars) => StoreInv' /\ KeptInv'
  BY ApartHolds, StoreStepKeeps, RecordsStep
<1>3. StoreInv /\ KeptInv => Kept!RecordsAreKept
  BY ApartHolds, KeptAreRead
<1> QED
  BY <1>1, <1>2, <1>3, PTL DEF Kept!Spec

(* The bound of the breaks, and what is promised to last was done. *)
Bounded == breaks \in 0 .. MaxBreaks /\ lasting \subseteq done

LEMMA InitBounded == Kept!Init => Bounded
BY DeskAssumption DEF Kept!Init, Bounded

LEMMA BoundedStep == Bounded /\ [Kept!Next]_(Kept!vars) => Bounded'
<1> SUFFICES ASSUME Bounded, [Kept!Next]_(Kept!vars) PROVE Bounded'
  OBVIOUS
<1>1. ASSUME NEW t, Kept!BreaksOff(t) PROVE Bounded'
  BY <1>1, DeskAssumption DEF Kept!BreaksOff, Bounded
<1>2. ASSUME NEW t \in Thread, Kept!AppendOffline(t) PROVE Bounded'
  BY <1>2 DEF Kept!AppendOffline, Bounded
<1>3. CASE UNCHANGED <<breaks, lasting, done>>
  BY <1>3 DEF Bounded
<1> QED
  BY <1>1, <1>2, <1>3 DEF Kept!Next, Kept!vars, Kept!Score, Kept!Lock, Kept!AppendLog,
     Kept!OpenOnline, Kept!SaveOnline, Kept!RecordFails, Kept!Crash

LEMMA RecordTyped ==
  ASSUME StoreInv, KeptInv, Bounded
  PROVE  Kept!TypeOK
<1>1. \A S : \A s \in Seq(S) : Kept!Range(s) \subseteq S
  BY DEF Kept!Range
<1>2. /\ \A s \in {log, offline} : Kept!Range(s) \subseteq Kept!Line
      /\ Kept!Range(logged) \subseteq Kept!Record
  BY <1>1 DEF StoreInv, StoreTypes, KeptInv, Files
<1> QED
  BY <1>2 DEF StoreInv, StoreTypes, KeptInv, Files, Bounded, Kept!TypeOK

(* The files, the lock and the threads keep their types. *)
THEOREM RecordTypes == Kept!Spec => []Kept!TypeOK
<1>1. Kept!Init => StoreInv /\ KeptInv /\ Bounded
  BY ApartHolds, InitStore, InitKept, InitBounded
<1>2. StoreInv /\ KeptInv /\ Bounded /\ [Kept!Next]_(Kept!vars)
        => StoreInv' /\ KeptInv' /\ Bounded'
  BY ApartHolds, StoreStepKeeps, RecordsStep, BoundedStep
<1>3. StoreInv /\ KeptInv /\ Bounded => Kept!TypeOK
  BY RecordTyped
<1> QED
  BY <1>1, <1>2, <1>3, PTL DEF Kept!Spec

-----------------------------------------------------------------------------
Bounds == MaxTime \in Nat /\ MaxSecret \in Nat \ {0}

LEMMA BoundsHold == Bounds
BY DeskAssumption DEF Bounds

(* A value encrypted once, with a key that can still be derived. *)
Decryptable(x) ==
  \E l \in Vault!Layer : x = <<l>> /\ l.secret = Vault!SecretOf(l.version)

(* A ciphertext a handler holds is as good as a stored one, so that it may *)
(* be written whatever happens to the version in between.                  *)
KeysInv ==
  /\ Vault!TypeOK
  /\ \A f \in Field :
       /\ field[f] # None => Decryptable(field[f])
       /\ held[f] # None => Decryptable(held[f])
       /\ index[f] # None => index[f] = Vault!SecretOf(Vault!BlindIndex)

-----------------------------------------------------------------------------
(* The key manager. *)

LEMMA SecretIsOne ==
  ASSUME Vault!TypeOK, NEW v \in Vault!Version
  PROVE  Vault!SecretOf(v) \in Vault!Secret
BY DEF Vault!TypeOK, Vault!SecretOf

LEMMA ActiveIsVersion ==
  ASSUME Vault!TypeOK
  PROVE  Vault!ActiveVersion \in Vault!Version /\ Vault!BlindIndex \in Vault!Version
BY DEF Vault!TypeOK, Vault!ActiveVersion, Vault!Version, Vault!BlindIndex

(* What is encrypted now can be read now. *)
LEMMA SealedIsDecryptable ==
  ASSUME Vault!TypeOK
  PROVE  Vault!Sealed \in Vault!Value /\ Decryptable(Vault!Sealed)
<1>1. Vault!ActiveVersion \in Vault!Version /\ Vault!SecretOf(Vault!ActiveVersion) \in Vault!Secret
  BY ActiveIsVersion, SecretIsOne
<1> DEFINE l == [version |-> Vault!ActiveVersion, secret |-> Vault!SecretOf(Vault!ActiveVersion)]
<1>2. l \in Vault!Layer /\ l.secret = Vault!SecretOf(l.version)
  BY <1>1 DEF Vault!Layer
<1> QED
  BY <1>2 DEF Vault!Sealed, Vault!Value, Decryptable

(* Encrypting what is encrypted already keeps one layer. *)
LEMMA EncryptedIsDecryptable ==
  ASSUME Vault!TypeOK, NEW x \in Vault!Value, x = <<>> \/ Decryptable(x)
  PROVE  Vault!Encrypted(x) \in Vault!Value /\ Decryptable(Vault!Encrypted(x))
BY SealedIsDecryptable DEF Vault!Encrypted

(* A value stays readable as long as the secret of its version stays. *)
LEMMA DecryptableStays ==
  ASSUME NEW x, Decryptable(x), \A v \in Vault!Version : Vault!SecretOf(v)' = Vault!SecretOf(v)
  PROVE  Decryptable(x)'
BY DEF Decryptable, Vault!Layer

-----------------------------------------------------------------------------
LEMMA InitKeys == Bounds /\ Vault!Init => KeysInv
BY DEF Bounds, Vault!Init, KeysInv, Vault!TypeOK, Vault!Secret, Vault!BlindIndex

LEMMA WriteKeeps ==
  ASSUME KeysInv, NEW f \in Field, Vault!Write(f)
  PROVE  KeysInv'
<1> USE DEF KeysInv
<1>1. Vault!Encrypted(<<>>) \in Vault!Value /\ Decryptable(Vault!Encrypted(<<>>))
  BY EncryptedIsDecryptable DEF Vault!Value
<1>2. \A v : Vault!SecretOf(v)' = Vault!SecretOf(v)
  BY DEF Vault!Write, Vault!configVars, Vault!SecretOf
<1>3. Vault!SecretOf(Vault!BlindIndex) \in Vault!Secret
  BY ActiveIsVersion, SecretIsOne
<1>4. Vault!TypeOK'
  BY <1>1, <1>3 DEF Vault!Write, Vault!configVars, Vault!TypeOK
<1>5. \A g \in Field : field'[g] # None => Decryptable(field'[g])
  BY <1>1 DEF Vault!Write, Vault!TypeOK
<1>6. \A g \in Field : index'[g] # None => index'[g] = Vault!SecretOf(Vault!BlindIndex)
  BY DEF Vault!Write, Vault!TypeOK
<1> QED
  BY <1>2, <1>4, <1>5, <1>6, DecryptableStays DEF Vault!Write

LEMMA PrepareKeeps ==
  ASSUME KeysInv, NEW f \in Field, Vault!Prepare(f)
  PROVE  KeysInv'
<1> USE DEF KeysInv
<1>1. Vault!Encrypted(<<>>) \in Vault!Value /\ Decryptable(Vault!Encrypted(<<>>))
  BY EncryptedIsDecryptable DEF Vault!Value
<1>2. \A v : Vault!SecretOf(v)' = Vault!SecretOf(v)
  BY DEF Vault!Prepare, Vault!configVars, Vault!SecretOf
<1>3. Vault!TypeOK'
  BY <1>1 DEF Vault!Prepare, Vault!configVars, Vault!TypeOK
<1>4. \A g \in Field : held'[g] # None => Decryptable(held'[g])
  BY <1>1 DEF Vault!Prepare, Vault!TypeOK
<1> QED
  BY <1>2, <1>3, <1>4, DecryptableStays DEF Vault!Prepare

(* What is copied is what is stored. *)
LEMMA CopyKeeps ==
  ASSUME KeysInv, NEW f \in Field, Vault!Copy(f)
  PROVE  KeysInv'
<1> USE DEF KeysInv
<1>1. \A v : Vault!SecretOf(v)' = Vault!SecretOf(v)
  BY DEF Vault!Copy, Vault!configVars, Vault!SecretOf
<1>2. Vault!TypeOK'
  BY DEF Vault!Copy, Vault!configVars, Vault!TypeOK
<1>3. \A g \in Field : held'[g] # None => Decryptable(held'[g])
  BY DEF Vault!Copy, Vault!TypeOK
<1> QED
  BY <1>1, <1>2, <1>3, DecryptableStays DEF Vault!Copy

LEMMA SaveKeeps ==
  ASSUME KeysInv, NEW f \in Field, Vault!Save(f)
  PROVE  KeysInv'
<1> USE DEF KeysInv
<1>1. Vault!Encrypted(held[f]) \in Vault!Value /\ Decryptable(Vault!Encrypted(held[f]))
  BY EncryptedIsDecryptable DEF Vault!Save, Vault!TypeOK
<1>2. \A v : Vault!SecretOf(v)' = Vault!SecretOf(v)
  BY DEF Vault!Save, Vault!configVars, Vault!SecretOf
<1>3. Vault!TypeOK'
  BY <1>1 DEF Vault!Save, Vault!configVars, Vault!TypeOK
<1>4. \A g \in Field : /\ field'[g] # None => Decryptable(field'[g])
                       /\ held'[g] # None => Decryptable(held'[g])
  BY <1>1 DEF Vault!Save, Vault!TypeOK
<1> QED
  BY <1>2, <1>3, <1>4, DecryptableStays DEF Vault!Save

(* Time moves the version new values get, and no secret. *)
LEMMA TickKeeps ==
  ASSUME Bounds, KeysInv, Vault!Tick
  PROVE  KeysInv'
<1> USE DEF KeysInv
<1>1. \A v : Vault!SecretOf(v)' = Vault!SecretOf(v)
  BY DEF Vault!Tick, Vault!configVars, Vault!SecretOf
<1>2. Vault!TypeOK'
  BY DEF Bounds, Vault!Tick, Vault!configVars, Vault!TypeOK
<1> QED
  BY <1>1, <1>2, DecryptableStays DEF Vault!Tick

LEMMA ReconfigureKeeps ==
  ASSUME KeysInv, NEW b \in BaseVersion, NEW t \in BOOLEAN, Vault!Reconfigure(b, t)
  PROVE  KeysInv'
<1> USE DEF KeysInv
<1>1. \A v : Vault!SecretOf(v)' = Vault!SecretOf(v)
  BY DEF Vault!Reconfigure, Vault!SecretOf
<1>2. Vault!TypeOK'
  BY DEF Vault!Reconfigure, Vault!TypeOK
<1> QED
  BY <1>1, <1>2, DecryptableStays DEF Vault!Reconfigure

(* The versions in use keep their secrets, and only they need them. *)
LEMMA ReplaceMasterKeeps ==
  ASSUME Bounds, KeysInv, Vault!ReplaceMaster
  PROVE  KeysInv'
<1> USE DEF KeysInv
<1>1. \A v \in Vault!Version : Vault!SecretOf(v) \in Vault!Secret /\ Vault!SecretOf(v) # 0
  BY SecretIsOne DEF Vault!Secret
<1>2. Vault!TypeOK'
  BY <1>1 DEF Bounds, Vault!ReplaceMaster, Vault!TypeOK, Vault!Secret
<1>3. \A v \in Vault!Version : v \in Vault!InUse => Vault!SecretOf(v)' = Vault!SecretOf(v)
  BY <1>1 DEF Vault!ReplaceMaster, Vault!SecretOf
<1>4. Vault!SecretOf(Vault!BlindIndex)' = Vault!SecretOf(Vault!BlindIndex)
  BY <1>3, ActiveIsVersion DEF Vault!InUse
<1>5. ASSUME NEW f \in Field, field[f] # None
      PROVE  Decryptable(field[f])'
  <2>1. PICK l \in Vault!Layer : field[f] = <<l>> /\ l.secret = Vault!SecretOf(l.version)
    BY <1>5 DEF Decryptable
  <2>2. l.version \in Vault!InUse /\ l.version \in Vault!Version
    <3>1. field[f][1].version = l.version
      BY <2>1
    <3>2. f \in {g \in Field : field[g] # None}
      BY <1>5
    <3> QED
      BY <3>1, <3>2 DEF Vault!InUse, Vault!Layer
  <2>3. l.secret = Vault!SecretOf(l.version)'
    BY <1>3, <2>1, <2>2
  <2> QED
    BY <2>1, <2>3 DEF Decryptable, Vault!ReplaceMaster
<1> QED
  BY <1>2, <1>4, <1>5 DEF Vault!ReplaceMaster

LEMMA KeysStepKeeps == Bounds /\ KeysInv /\ [Vault!Next]_(Vault!vars) => KeysInv'
<1> SUFFICES ASSUME Bounds, KeysInv, [Vault!Next]_(Vault!vars) PROVE KeysInv'
  OBVIOUS
<1>1. CASE \E f \in Field : Vault!Write(f) \/ Vault!Prepare(f) \/ Vault!Copy(f) \/ Vault!Save(f)
  BY <1>1, WriteKeeps, PrepareKeeps, CopyKeeps, SaveKeeps
<1>2. CASE Vault!Tick
  BY <1>2, TickKeeps
<1>3. CASE \E b \in BaseVersion, t \in BOOLEAN : Vault!Reconfigure(b, t)
  BY <1>3, ReconfigureKeeps
<1>4. CASE Vault!ReplaceMaster
  BY <1>4, ReplaceMasterKeeps
<1>5. CASE UNCHANGED (Vault!vars)
  <2>1. \A v : Vault!SecretOf(v)' = Vault!SecretOf(v)
    BY <1>5 DEF Vault!vars, Vault!configVars, Vault!SecretOf
  <2>2. Vault!TypeOK'
    BY <1>5 DEF Vault!vars, Vault!configVars, KeysInv, Vault!TypeOK
  <2> QED
    BY <1>5, <2>1, <2>2, DecryptableStays DEF Vault!vars, KeysInv
<1> QED
  BY <1>1, <1>2, <1>3, <1>4, <1>5 DEF Vault!Next

LEMMA DecryptableOpens ==
  ASSUME NEW x, Decryptable(x)
  PROVE  Len(x) = 1 /\ Vault!Opens(x)
<1>1. PICK l \in Vault!Layer : x = <<l>> /\ l.secret = Vault!SecretOf(l.version)
  BY DEF Decryptable
<1>2. Len(x) = 1 /\ Head(x) = l
  BY <1>1
<1> QED
  BY <1>1, <1>2 DEF Vault!Opens

LEMMA KeysAreReadable == KeysInv => Vault!FieldsStayReadable
BY DecryptableOpens DEF KeysInv, Vault!FieldsStayReadable

-----------------------------------------------------------------------------
(* keyManager, encryptionService, blindIndex: whatever versions, intervals *)
(* and masters follow one another, a stored field is encrypted once and    *)
(* can be read, and its blind index is found.                              *)
THEOREM FieldsCanBeRead ==
  Vault!Spec => []Vault!FieldsStayReadable
<1>1. Vault!Init => KeysInv
  BY BoundsHold, InitKeys
<1>2. KeysInv /\ [Vault!Next]_(Vault!vars) => KeysInv'
  BY BoundsHold, KeysStepKeeps
<1>3. KeysInv => Vault!FieldsStayReadable
  BY KeysAreReadable
<1> QED
  BY <1>1, <1>2, <1>3, PTL DEF Vault!Spec

(* The documents, the configuration and the handlers keep their types. *)
THEOREM VaultTypes ==
  Vault!Spec => []Vault!TypeOK
<1>1. Vault!Init => KeysInv
  BY BoundsHold, InitKeys
<1>2. KeysInv /\ [Vault!Next]_(Vault!vars) => KeysInv'
  BY BoundsHold, KeysStepKeeps
<1>3. KeysInv => Vault!TypeOK
  BY DEF KeysInv
<1> QED
  BY <1>1, <1>2, <1>3, PTL DEF Vault!Spec

-----------------------------------------------------------------------------
(* The page's lists. *)

(* Each row has a key of its own. *)
KeysDiffer(s) == \A i, j \in DOMAIN s : Page!Key(s[i]) = Page!Key(s[j]) => i = j

(* The page counts as FiniteSets does. *)
LEMMA PageCounts ==
  ASSUME NEW S PROVE Page!Cardinality(S) = Cardinality(S)
BY DEF Page!Cardinality, Cardinality

(* How many of 1 .. n, without g, are no larger than i. *)
LEMMA OneIsOut ==
  ASSUME NEW n \in Nat, NEW g \in 1 .. (n + 1), NEW i \in 0 .. n
  PROVE  /\ Page!Cardinality(((1 .. n) \ {g}) \cap (1 .. i)) = IF i < g THEN i ELSE i - 1
         /\ Page!Cardinality((1 .. n) \ {g}) = IF g = n + 1 THEN n ELSE n - 1
<1>1. ((1 .. n) \ {g}) \cap (1 .. i) = (1 .. i) \ {g}
  OBVIOUS
<1>2. IsFiniteSet(1 .. i) /\ Cardinality(1 .. i) = i /\ IsFiniteSet(1 .. n) /\ Cardinality(1 .. n) = n
  <2>1. /\ IsFiniteSet(1 .. i) /\ Cardinality(1 .. i) = (IF 1 > i THEN 0 ELSE i - 1 + 1)
        /\ IsFiniteSet(1 .. n) /\ Cardinality(1 .. n) = (IF 1 > n THEN 0 ELSE n - 1 + 1)
    BY FS_Interval
  <2> QED
    BY <2>1
<1>3. Cardinality((1 .. i) \ {g}) = IF g \in 1 .. i THEN i - 1 ELSE i
  BY <1>2, FS_RemoveElement
<1>4. Cardinality((1 .. n) \ {g}) = IF g \in 1 .. n THEN n - 1 ELSE n
  BY <1>2, FS_RemoveElement
<1>5. Cardinality((1 .. i) \ {g}) = IF i < g THEN i ELSE i - 1
  BY <1>3
<1>6. Cardinality((1 .. n) \ {g}) = IF g = n + 1 THEN n ELSE n - 1
  BY <1>4
<1> QED
  BY <1>1, <1>5, <1>6, PageCounts

(* A filter that takes out one row, or none, moves up those behind it. *)
LEMMA FilterTakesOne ==
  ASSUME NEW S, NEW s \in Seq(S), NEW g \in 1 .. (Len(s) + 1)
  PROVE  LET r == Page!Filtered(s, (1 .. Len(s)) \ {g})
         IN  /\ r \in Seq(S)
             /\ Len(r) = IF g = Len(s) + 1 THEN Len(s) ELSE Len(s) - 1
             /\ \A j \in 1 .. Len(r) : r[j] = s[IF j < g THEN j ELSE j + 1]
<1> DEFINE n == Len(s)
           K == (1 .. n) \ {g}
           m == IF g = n + 1 THEN n ELSE n - 1
           at(j) == IF j < g THEN j ELSE j + 1
           pick(j) == CHOOSE i \in K : Page!Cardinality(K \cap (1 .. i)) = j
           r == Page!Filtered(s, K)
<1>1. n \in Nat /\ g \in 1 .. (n + 1) /\ m \in Nat /\ \A j \in 1 .. m : at(j) \in K
  OBVIOUS
<1>2. /\ Page!Cardinality(K) = m
      /\ \A i \in 0 .. n : Page!Cardinality(K \cap (1 .. i)) = IF i < g THEN i ELSE i - 1
  <2> HIDE DEF n
  <2>1. 0 \in 0 .. n
    BY <1>1
  <2>2. \A i \in 0 .. n : /\ Page!Cardinality(((1 .. n) \ {g}) \cap (1 .. i)) = IF i < g THEN i ELSE i - 1
                          /\ Page!Cardinality((1 .. n) \ {g}) = IF g = n + 1 THEN n ELSE n - 1
    BY <1>1, OneIsOut
  <2> QED
    BY <2>1, <2>2
<1>3. \A j \in 1 .. m : pick(j) = at(j)
  <2> TAKE j \in 1 .. m
  <2>1. \A i \in K : Page!Cardinality(K \cap (1 .. i)) = IF i < g THEN i ELSE i - 1
    <3> TAKE i \in K
    <3>1. i \in 0 .. n
      OBVIOUS
    <3> QED
      BY <3>1, <1>2
  <2>2. \A i \in K : Page!Cardinality(K \cap (1 .. i)) = j <=> i = at(j)
    <3> TAKE i \in K
    <3>1. Page!Cardinality(K \cap (1 .. i)) = IF i < g THEN i ELSE i - 1
      BY <2>1
    <3>2. i \in Nat /\ i # g /\ j \in Nat
      OBVIOUS
    <3>3. CASE i < g
      BY <3>1, <3>2, <3>3
    <3>4. CASE i > g
      BY <3>1, <3>2, <3>4
    <3> QED
      BY <3>2, <3>3, <3>4
  <2> HIDE DEF K, at
  <2> QED
    BY <1>1, <2>2
<1>4. r = [j \in 1 .. m |-> s[at(j)]]
  <2>1. r = [j \in 1 .. Page!Cardinality(K) |-> s[pick(j)]]
    BY DEF Page!Filtered
  <2> HIDE DEF K, at, m, r, pick
  <2> QED
    BY <1>2, <1>3, <2>1
<1>5. \A j \in 1 .. m : s[at(j)] \in S
  BY <1>1
<1>6. r \in Seq(S) /\ Len(r) = m
  <2> HIDE DEF r, at, m, K
  <2> QED
    BY <1>1, <1>4, <1>5
<1>7. \A j \in 1 .. Len(r) : r[j] = s[at(j)]
  <2> HIDE DEF r, at, m, K
  <2> QED
    BY <1>4, <1>6
<1> QED
  BY <1>6, <1>7

LEMMA NewestIsShort ==
  ASSUME NEW S, NEW s \in Seq(S), limit \in Nat
  PROVE  /\ Page!Newest(s) \in Seq(S) /\ Len(Page!Newest(s)) <= limit
         /\ Len(Page!Newest(s)) = limit \/ Page!Newest(s) = s
         /\ Len(Page!Newest(s)) <= Len(s)
         /\ \A i \in 1 .. Len(Page!Newest(s)) : Page!Newest(s)[i] = s[i]
BY DEF Page!Newest

(* mergeUnique: one row for the item, on top; the other rows stay, below   *)
(* it, as far as there is room.                                            *)
LEMMA MergeIsRight ==
  ASSUME limit \in Nat, NEW S, NEW s \in Seq(S), NEW next \in S, KeysDiffer(s)
  PROVE  LET r == Page!MergeUnique(s, next)
         IN  /\ r \in Seq(S) /\ Len(r) <= limit /\ KeysDiffer(r)
             /\ \A x \in Page!Elements(r) :
                  x = next \/ (x \in Page!Elements(s) /\ Page!Key(x) # Page!Key(next))
             /\ \/ Len(r) = limit
                \/ /\ next \in Page!Elements(r)
                   /\ \A x \in Page!Elements(s) : Page!Key(x) # Page!Key(next) => x \in Page!Elements(r)
             /\ Len(s) = limit => Len(r) = limit
<1> DEFINE n == Len(s)
           kept == {i \in DOMAIN s : Page!Key(s[i]) # Page!Key(next)}
           f == Page!Filtered(s, kept)
           full == <<next>> \o f
           r == Page!Newest(full)
<1>1. PICK g \in 1 .. (n + 1) : kept = (1 .. n) \ {g}
  <2>1. CASE \E i \in DOMAIN s : Page!Key(s[i]) = Page!Key(next)
    <3>1. PICK i \in DOMAIN s : Page!Key(s[i]) = Page!Key(next)
      BY <2>1
    <3>2. \A j \in DOMAIN s : Page!Key(s[j]) = Page!Key(next) => j = i
      BY <3>1 DEF KeysDiffer
    <3>3. kept = (1 .. n) \ {i} /\ i \in 1 .. (n + 1)
      BY <3>1, <3>2
    <3> QED
      BY <3>3
  <2>2. CASE \A i \in DOMAIN s : Page!Key(s[i]) # Page!Key(next)
    <3>1. kept = (1 .. n) \ {n + 1} /\ n + 1 \in 1 .. (n + 1)
      BY <2>2
    <3> QED
      BY <3>1
  <2> QED
    BY <2>1, <2>2
<1> DEFINE at(j) == IF j < g THEN j ELSE j + 1
<1>2. /\ f \in Seq(S)
      /\ Len(f) = IF g = n + 1 THEN n ELSE n - 1
      /\ \A j \in 1 .. Len(f) : f[j] = s[at(j)]
  <2>1. f = Page!Filtered(s, (1 .. n) \ {g})
    BY <1>1
  <2> HIDE DEF f, kept
  <2> QED
    BY <1>1, <2>1, FilterTakesOne
<1>3. \A j \in 1 .. Len(f) : at(j) \in kept
  <2> HIDE DEF f, kept
  <2> QED
    BY <1>1, <1>2
<1>4. \A i \in kept : \E j \in 1 .. Len(f) : i = at(j)
  <2> TAKE i \in kept
  <2> DEFINE j == IF i < g THEN i ELSE i - 1
  <2>1. i \in 1 .. n /\ i # g
    BY <1>1
  <2>2. j \in 1 .. Len(f) /\ i = at(j)
    BY <1>2, <2>1
  <2> QED
    BY <2>2
<1>5. /\ full \in Seq(S) /\ Len(full) = Len(f) + 1 /\ full[1] = next
      /\ \A k \in 2 .. Len(full) : full[k] = f[k - 1] /\ k - 1 \in 1 .. Len(f)
  <2> HIDE DEF f
  <2> QED
    BY <1>2
<1>6. /\ r \in Seq(S) /\ Len(r) <= limit /\ Len(r) <= Len(full)
      /\ Len(r) = limit \/ r = full
      /\ \A i \in 1 .. Len(r) : r[i] = full[i]
  <2> HIDE DEF full
  <2> QED
    BY <1>5, NewestIsShort
<1> HIDE DEF f, full, r
<1>7. \A i \in 2 .. Len(full) :
         /\ at(i - 1) \in kept /\ full[i] = s[at(i - 1)]
         /\ full[i] \in Page!Elements(s) /\ Page!Key(full[i]) # Page!Key(next)
  BY <1>2, <1>3, <1>5 DEF Page!Elements
<1>8. KeysDiffer(r)
  <2> SUFFICES ASSUME NEW i \in 1 .. Len(r), NEW j \in 1 .. Len(r), Page!Key(r[i]) = Page!Key(r[j])
               PROVE  i = j
    BY <1>6 DEF KeysDiffer
  <2>1. r[i] = full[i] /\ r[j] = full[j] /\ i \in 1 .. Len(full) /\ j \in 1 .. Len(full)
    BY <1>5, <1>6
  <2>2. CASE i = 1 \/ j = 1
    BY <1>5, <1>7, <2>1, <2>2
  <2>3. CASE i # 1 /\ j # 1
    <3>1. i \in 2 .. Len(full) /\ j \in 2 .. Len(full)
      BY <2>1, <2>3
    <3>2. Page!Key(s[at(i - 1)]) = Page!Key(s[at(j - 1)]) /\ at(i - 1) \in kept /\ at(j - 1) \in kept
      BY <1>7, <2>1, <3>1
    <3>3. at(i - 1) = at(j - 1)
      BY <3>2 DEF KeysDiffer
    <3> QED
      BY <3>1, <3>3
  <2> QED
    BY <2>2, <2>3
<1>9. \A x \in Page!Elements(r) : x = next \/ (x \in Page!Elements(s) /\ Page!Key(x) # Page!Key(next))
  <2> SUFFICES ASSUME NEW i \in 1 .. Len(r)
               PROVE  r[i] = next \/ (r[i] \in Page!Elements(s) /\ Page!Key(r[i]) # Page!Key(next))
    BY <1>6 DEF Page!Elements
  <2>1. r[i] = full[i] /\ i \in 1 .. Len(full)
    BY <1>5, <1>6
  <2>2. i = 1 \/ i \in 2 .. Len(full)
    BY <1>5, <2>1
  <2> QED
    BY <1>5, <1>7, <2>1, <2>2
<1>10. r = full => /\ next \in Page!Elements(r)
                   /\ \A x \in Page!Elements(s) : Page!Key(x) # Page!Key(next) => x \in Page!Elements(r)
  <2> SUFFICES ASSUME r = full
               PROVE  /\ next \in Page!Elements(full)
                      /\ \A x \in Page!Elements(s) : Page!Key(x) # Page!Key(next) => x \in Page!Elements(full)
    OBVIOUS
  <2>1. 1 \in DOMAIN full
    BY <1>2, <1>5
  <2>2. ASSUME NEW x \in Page!Elements(s), Page!Key(x) # Page!Key(next)
        PROVE  x \in Page!Elements(full)
    <3>1. PICK i \in kept : x = s[i]
      BY <2>2 DEF Page!Elements
    <3>2. PICK j \in 1 .. Len(f) : i = at(j)
      BY <1>4
    <3>3. j + 1 \in 2 .. Len(full) /\ (j + 1) - 1 = j /\ j + 1 \in DOMAIN full
      BY <1>2, <1>5, <3>2
    <3>4. full[j + 1] = x
      BY <1>7, <3>1, <3>2, <3>3
    <3> QED
      BY <3>3, <3>4 DEF Page!Elements
  <2> QED
    BY <1>5, <2>1, <2>2 DEF Page!Elements
<1>11. Len(s) = limit => Len(r) = limit
  BY <1>2, <1>5, <1>6
<1>12. Page!MergeUnique(s, next) = r
  BY DEF Page!MergeUnique, r, full, f
<1> QED
  BY <1>6, <1>8, <1>9, <1>10, <1>11, <1>12

-----------------------------------------------------------------------------
(* Sequences. *)

LEMMA ElementsOfSeq ==
  ASSUME NEW S, NEW s \in Seq(S)
  PROVE  Page!Elements(s) \subseteq S /\ IsFiniteSet(Page!Elements(s))
<1>1. Page!Elements(s) \subseteq S
  BY DEF Page!Elements
<1>2. s \in Surjection(1 .. Len(s), Page!Elements(s))
  BY DEF Page!Elements, Surjection
<1>3. IsFiniteSet(1 .. Len(s))
  BY FS_Interval
<1> QED
  BY <1>1, <1>2, <1>3, FS_Surjection

LEMMA ElementsOfCat ==
  ASSUME NEW S, NEW s \in Seq(S), NEW t \in Seq(S)
  PROVE  Page!Elements(s \o t) = Page!Elements(s) \cup Page!Elements(t)
<1>1. ASSUME NEW x \in Page!Elements(s \o t) PROVE x \in Page!Elements(s) \cup Page!Elements(t)
  <2>1. PICK i \in 1 .. (Len(s) + Len(t)) : x = (s \o t)[i]
    BY DEF Page!Elements
  <2>2. CASE i <= Len(s)
    BY <2>1, <2>2 DEF Page!Elements
  <2>3. CASE i > Len(s)
    <3>1. i - Len(s) \in 1 .. Len(t) /\ x = t[i - Len(s)]
      BY <2>1, <2>3
    <3> QED
      BY <3>1 DEF Page!Elements
  <2> QED
    BY <2>1, <2>2, <2>3
<1>2. ASSUME NEW x \in Page!Elements(s) PROVE x \in Page!Elements(s \o t)
  BY DEF Page!Elements
<1>3. ASSUME NEW x \in Page!Elements(t) PROVE x \in Page!Elements(s \o t)
  <2>1. PICK i \in 1 .. Len(t) : x = t[i]
    BY DEF Page!Elements
  <2>2. Len(s) + i \in DOMAIN (s \o t) /\ (s \o t)[Len(s) + i] = x
    BY <2>1
  <2> QED
    BY <2>2 DEF Page!Elements
<1> QED
  BY <1>1, <1>2, <1>3

LEMMA ElementsOfCons ==
  ASSUME NEW S, NEW p \in S, NEW s \in Seq(S)
  PROVE  <<p>> \o s \in Seq(S) /\ Page!Elements(<<p>> \o s) = {p} \cup Page!Elements(s)
<1> DEFINE t == <<p>>
<1>1. t \in Seq(S) /\ Page!Elements(t) = {p}
  BY DEF Page!Elements
<1> HIDE DEF t
<1>2. t \o s \in Seq(S) /\ Page!Elements(t \o s) = {p} \cup Page!Elements(s)
  BY <1>1, ElementsOfCat
<1> QED
  BY <1>2 DEF t

LEMMA ElementsOfTail ==
  ASSUME NEW S, NEW s \in Seq(S), s # <<>>
  PROVE  /\ Tail(s) \in Seq(S) /\ Head(s) \in S
         /\ Page!Elements(s) = {Head(s)} \cup Page!Elements(Tail(s))
<1>1. Tail(s) \in Seq(S) /\ Head(s) \in S /\ Head(s) = s[1] /\ Len(Tail(s)) = Len(s) - 1
      /\ \A i \in 1 .. Len(Tail(s)) : Tail(s)[i] = s[i + 1]
  OBVIOUS
<1>2. \A i \in 2 .. Len(s) : i - 1 \in 1 .. Len(Tail(s)) /\ Tail(s)[i - 1] = s[i]
  BY <1>1
<1>3. Page!Elements(s) \subseteq {Head(s)} \cup Page!Elements(Tail(s))
  <2> SUFFICES ASSUME NEW i \in 1 .. Len(s) PROVE s[i] \in {Head(s)} \cup Page!Elements(Tail(s))
    BY DEF Page!Elements
  <2>1. i = 1 \/ i \in 2 .. Len(s)
    OBVIOUS
  <2>2. CASE i \in 2 .. Len(s)
    <3>1. i - 1 \in DOMAIN Tail(s) /\ Tail(s)[i - 1] = s[i]
      BY <1>1, <1>2, <2>2
    <3> QED
      BY <3>1 DEF Page!Elements
  <2> QED
    BY <1>1, <2>1, <2>2
<1>4. Page!Elements(Tail(s)) \subseteq Page!Elements(s)
  BY <1>1 DEF Page!Elements
<1>5. Head(s) \in Page!Elements(s)
  BY <1>1 DEF Page!Elements
<1> QED
  BY <1>1, <1>3, <1>4, <1>5

(* No element twice. *)
OnceIn(s) == \A i, j \in DOMAIN s : s[i] = s[j] => i = j

LEMMA OnceInCons ==
  ASSUME NEW S, NEW p \in S, NEW s \in Seq(S), OnceIn(s), p \notin Page!Elements(s)
  PROVE  OnceIn(<<p>> \o s)
<1>1. /\ Len(<<p>> \o s) = Len(s) + 1 /\ (<<p>> \o s)[1] = p
      /\ \A i \in 2 .. (Len(s) + 1) : (<<p>> \o s)[i] = s[i - 1] /\ i - 1 \in DOMAIN s
  OBVIOUS
<1>2. \A i \in DOMAIN s : s[i] # p
  BY DEF Page!Elements
<1> QED
  BY <1>1, <1>2 DEF OnceIn

LEMMA OnceInCat ==
  ASSUME NEW S, NEW s \in Seq(S), NEW t \in Seq(S), OnceIn(s), OnceIn(t),
         \A x \in Page!Elements(s) : x \notin Page!Elements(t)
  PROVE  OnceIn(s \o t)
<1> DEFINE n == Len(s)
<1>1. \A i \in DOMAIN (s \o t) :
         \/ i \in DOMAIN s /\ (s \o t)[i] = s[i] /\ s[i] \in Page!Elements(s)
         \/ i - n \in DOMAIN t /\ (s \o t)[i] = t[i - n] /\ t[i - n] \in Page!Elements(t)
  <2> SUFFICES ASSUME NEW i \in 1 .. (n + Len(t))
               PROVE  \/ i \in DOMAIN s /\ (s \o t)[i] = s[i] /\ s[i] \in Page!Elements(s)
                      \/ i - n \in DOMAIN t /\ (s \o t)[i] = t[i - n] /\ t[i - n] \in Page!Elements(t)
    OBVIOUS
  <2>1. CASE i <= n
    BY <2>1 DEF Page!Elements
  <2>2. CASE i > n
    <3>1. i - n \in 1 .. Len(t) /\ (s \o t)[i] = t[i - n]
      BY <2>2
    <3> QED
      BY <3>1 DEF Page!Elements
  <2> QED
    BY <2>1, <2>2
<1>2. DOMAIN (s \o t) \subseteq Int /\ n \in Int
  OBVIOUS
<1> DEFINE u == s \o t
<1> HIDE DEF u, n
<1> QED
  BY <1>1, <1>2 DEF OnceIn, u

LEMMA OnceInTail ==
  ASSUME NEW S, NEW s \in Seq(S), s # <<>>, OnceIn(s)
  PROVE  OnceIn(Tail(s)) /\ Head(s) \notin Page!Elements(Tail(s))
<1>1. Len(Tail(s)) = Len(s) - 1 /\ Head(s) = s[1] /\ \A i \in 1 .. Len(Tail(s)) : Tail(s)[i] = s[i + 1]
  OBVIOUS
<1>2. \A i \in DOMAIN Tail(s) : i + 1 \in DOMAIN s /\ i + 1 # 1 /\ Tail(s)[i] = s[i + 1]
  BY <1>1
<1>3. 1 \in DOMAIN s
  OBVIOUS
<1>4. OnceIn(Tail(s))
  BY <1>2 DEF OnceIn
<1>5. Head(s) \notin Page!Elements(Tail(s))
  BY <1>1, <1>2, <1>3 DEF OnceIn, Page!Elements
<1> QED
  BY <1>4, <1>5

LEMMA OnceInNewest ==
  ASSUME NEW S, NEW s \in Seq(S), OnceIn(s), limit \in Nat
  PROVE  OnceIn(Page!Newest(s))
<1>1. Page!Newest(s) \in Seq(S) /\ Len(Page!Newest(s)) <= Len(s)
      /\ \A i \in 1 .. Len(Page!Newest(s)) : Page!Newest(s)[i] = s[i]
  BY NewestIsShort
<1>2. \A i \in DOMAIN Page!Newest(s) : i \in DOMAIN s /\ Page!Newest(s)[i] = s[i]
  BY <1>1
<1> QED
  BY <1>2 DEF OnceIn

(* The three events of a payment are told apart by their kinds. *)
LEMMA EventsOf ==
  ASSUME NEW p \in Payments
  PROVE  /\ Page!Events(p) \in Seq(Page!Event)
         /\ Len(Page!Events(p)) = IF status[p] = "BLOCKED" THEN 3 ELSE 2
         /\ Page!Events(p)[1] = [kind |-> "fraud-alert", payment |-> p]
         /\ Page!Events(p)[2] = [kind |-> "suspicious-transaction", payment |-> p]
         /\ status[p] = "BLOCKED"
              => Page!Events(p)[3] = [kind |-> "blocked-transaction", payment |-> p]
<1> DEFINE a == [kind |-> "fraud-alert", payment |-> p]
           s == [kind |-> "suspicious-transaction", payment |-> p]
           b == [kind |-> "blocked-transaction", payment |-> p]
<1>1. a \in Page!Event /\ s \in Page!Event /\ b \in Page!Event
  BY DEF Page!Event, Page!Kinds
<1>2. Page!Events(p) = <<a, s>> \o (IF status[p] = "BLOCKED" THEN <<b>> ELSE <<>>)
  BY DEF Page!Events
<1> HIDE DEF a, s, b
<1>3. CASE status[p] = "BLOCKED"
  BY <1>1, <1>2, <1>3 DEF a, s, b
<1>4. CASE status[p] # "BLOCKED"
  <2>1. Page!Events(p) = <<a, s>>
    BY <1>2, <1>4
  <2> QED
    BY <1>1, <1>4, <2>1 DEF a, s
<1> QED
  BY <1>3, <1>4

LEMMA EventsAreOnce ==
  ASSUME NEW p \in Payments
  PROVE  /\ OnceIn(Page!Events(p))
         /\ \A ev \in Page!Elements(Page!Events(p)) :
              /\ ev.payment = p
              /\ ev.kind = "blocked-transaction" => status[p] = "BLOCKED"
         /\ [kind |-> "fraud-alert", payment |-> p] \in Page!Elements(Page!Events(p))
         /\ [kind |-> "suspicious-transaction", payment |-> p] \in Page!Elements(Page!Events(p))
         /\ status[p] = "BLOCKED"
              => [kind |-> "blocked-transaction", payment |-> p] \in Page!Elements(Page!Events(p))
<1> DEFINE E == Page!Events(p)
           n == IF status[p] = "BLOCKED" THEN 3 ELSE 2
<1>1. /\ DOMAIN E = 1 .. n
      /\ E[1] = [kind |-> "fraud-alert", payment |-> p]
      /\ E[2] = [kind |-> "suspicious-transaction", payment |-> p]
      /\ n = 3 => E[3] = [kind |-> "blocked-transaction", payment |-> p]
      /\ n = 3 <=> status[p] = "BLOCKED"
      /\ n \in {2, 3}
  <2>1. n \in {2, 3} /\ (n = 3 <=> status[p] = "BLOCKED")
    OBVIOUS
  <2>2. /\ E \in Seq(Page!Event) /\ Len(E) = n
        /\ E[1] = [kind |-> "fraud-alert", payment |-> p]
        /\ E[2] = [kind |-> "suspicious-transaction", payment |-> p]
        /\ status[p] = "BLOCKED" => E[3] = [kind |-> "blocked-transaction", payment |-> p]
    BY EventsOf
  <2> HIDE DEF E, n
  <2> QED
    BY <2>1, <2>2
<1> HIDE DEF E, n
<1>2. /\ E[1].kind = "fraud-alert" /\ E[1].payment = p
      /\ E[2].kind = "suspicious-transaction" /\ E[2].payment = p
      /\ n = 3 => E[3].kind = "blocked-transaction" /\ E[3].payment = p
  BY <1>1
<1>3. \A i \in DOMAIN E : i = 1 \/ i = 2 \/ (i = 3 /\ n = 3)
  BY <1>1
<1>4. OnceIn(E)
  BY <1>2, <1>3 DEF OnceIn
<1>5. \A ev \in Page!Elements(E) :
        ev.payment = p /\ (ev.kind = "blocked-transaction" => status[p] = "BLOCKED")
  BY <1>1, <1>2, <1>3 DEF Page!Elements
<1>6. 1 \in DOMAIN E /\ 2 \in DOMAIN E /\ (n = 3 => 3 \in DOMAIN E)
  BY <1>1
<1> QED
  BY <1>1, <1>4, <1>5, <1>6 DEF E, Page!Elements

-----------------------------------------------------------------------------
(* The invariant. *)

(* What the part that is followed may show. *)
Fits(v) ==
  /\ part \in Page!Counters => v \in Nat
  /\ part \in Page!Lists => v \in Seq(Payments) /\ Len(v) <= limit
  /\ part = "liveEvents" => v \in Seq(Page!Event) /\ Len(v) <= limit

PageTypes ==
  /\ status \in [Payments -> Page!Statuses]
  /\ stage \in [Payments -> {"none", "stored", "alerted", "done"}]
  /\ alert \in [Payments -> Page!AlertStatuses]
  /\ stored \in Seq(Payments) /\ raised \in Seq(Payments)
  /\ joined \in BOOLEAN /\ wire \in Seq(Page!Event)
  /\ part \in Page!Parts /\ limit \in Limits /\ loading \in BOOLEAN
  /\ Fits(shown) /\ (found # None => Fits(found))
  /\ untold \subseteq Payments /\ during \subseteq Payments /\ raced \subseteq Payments
  /\ (loading => Page!InBundle) /\ (found # None => loading)

(* The collections agree with how far each handler got. *)
DbAgrees ==
  /\ OnceIn(stored) /\ OnceIn(raised)
  /\ \A p \in Payments :
       /\ p \in Page!Elements(stored) <=> stage[p] # "none"
       /\ p \in Page!Elements(raised) <=> alert[p] # "none"
       /\ stage[p] \in {"none", "stored"} => alert[p] = "none"
       /\ stage[p] = "alerted" => alert[p] # "none"
       /\ stage[p] = "stored" => status[p] # "ALLOWED"

BlockedEvent(p) == [kind |-> "blocked-transaction", payment |-> p]

(* An event is sent once, after its handler's last write, and the event    *)
(* that marks a blocked payment comes after the one that does not.         *)
WireIsOrdered ==
  /\ OnceIn(wire)
  /\ \A ev \in Page!Elements(wire) :
       /\ stage[ev.payment] = "done" /\ alert[ev.payment] # "none"
       /\ ev.kind = "blocked-transaction" => status[ev.payment] = "BLOCKED"
  /\ \A i \in DOMAIN wire :
       wire[i].kind = "suspicious-transaction" /\ status[wire[i].payment] = "BLOCKED" =>
         \E j \in DOMAIN wire : j > i /\ wire[j] = BlockedEvent(wire[i].payment)

(* A bundle knows who is under way while it is. *)
DuringKnows ==
  loading => \A p \in Payments :
               stage[p] \in {"stored", "alerted"} \/ (\E ev \in Page!Elements(wire) : ev.payment = p)
                 => p \in during

(* The stream has one row of a key, and whoever is marked as suspicious    *)
(* only is blocked by an event that is still to come, or was lost.         *)
StreamInv ==
  part = "liveEvents" =>
    /\ KeysDiffer(shown)
    /\ \A ev \in Page!Elements(shown) :
         ev.kind = "suspicious-transaction" /\ status[ev.payment] = "BLOCKED" =>
           ev.payment \in untold \/ BlockedEvent(ev.payment) \in Page!Elements(wire)

(* The kinds of events that bring a payment into the list. *)
Relevant(kind) == IF part = "alerts" THEN kind = "fraud-alert" ELSE kind # "fraud-alert"

(* The event that brings a payment into the list is still to come. *)
Expected(p) ==
  stage[p] = "alerted" \/ \E ev \in Page!Elements(wire) : ev.payment = p /\ Relevant(ev.kind)

Full(s) == Len(s) = limit

(* The list shows every alert, unless it is expected, unsaid or the list   *)
(* is full; and so will the bundle that was read.                          *)
RowsInv ==
  part \in Page!Lists =>
    /\ OnceIn(shown) /\ (found # None => OnceIn(found))
    /\ \A p \in Payments : alert[p] # "none" =>
         /\ Expected(p) \/ p \in untold \/ p \in raced \/ p \in Page!Elements(shown) \/ Full(shown)
         /\ found # None => p \in during \/ p \in Page!Elements(found) \/ Full(found)

(* The event that counts a payment is still to come. *)
CountEvent(p) ==
  [kind |-> IF part = "openAlerts" THEN "fraud-alert" ELSE "blocked-transaction", payment |-> p]
Due(p) == stage[p] \in {"stored", "alerted"} \/ CountEvent(p) \in Page!Elements(wire)

(* The event that counts it may have been sent, and it counts now. *)
MayCount(p) ==
  IF part = "openAlerts" THEN alert[p] # "none" ELSE stage[p] # "none" /\ status[p] = "BLOCKED"
CountsNow(p) == MayCount(p) /\ (part = "openAlerts" => alert[p] = "open")

(* A are the payments the last bundle counted, B those events counted on   *)
(* top of it: a payment is in both only after a race, and in neither only  *)
(* if it is due, unsaid or raced.                                          *)
Accounted(p, A, B) ==
  /\ p \in A \cup B => MayCount(p)
  /\ p \in B => ~Due(p)
  /\ p \in A /\ (p \in B \/ Due(p)) => p \in raced
  /\ MayCount(p) /\ ~CountsNow(p) /\ (p \in A \cup B \/ Due(p)) => p \in untold \cup raced
  /\ CountsNow(p) => p \in A \cup B \/ Due(p) \/ p \in untold \cup raced

(* A are the payments the query counted. *)
Foreseen(p, A) ==
  /\ p \in A => MayCount(p) /\ (CountsNow(p) \/ p \in during)
  /\ CountsNow(p) => p \in A \/ p \in during

IsSum(n, A, B) == IsFiniteSet(A) /\ IsFiniteSet(B) /\ n = Cardinality(A) + Cardinality(B)

CountInv ==
  part \in Page!Counters =>
    /\ \E A, B \in SUBSET Payments :
         IsSum(shown, A, B) /\ \A p \in Payments : Accounted(p, A, B)
    /\ found # None =>
         \E A \in SUBSET Payments : IsSum(found, A, {}) /\ \A p \in Payments : Foreseen(p, A)

PageInv ==
  /\ PageTypes /\ DbAgrees /\ WireIsOrdered /\ DuringKnows
  /\ StreamInv /\ RowsInv /\ CountInv

-----------------------------------------------------------------------------
(* Facts the steps share. *)

LEMMA LimitIsNat == PageTypes => limit \in Nat
BY DeskAssumption DEF PageTypes

LEMMA PartIsOne ==
  ASSUME PageTypes
  PROVE  /\ part \in Page!Counters \/ part \in Page!Lists \/ part = "liveEvents"
         /\ part \in Page!Counters <=> part = "openAlerts" \/ part = "blockedTransactions"
         /\ part \in Page!Lists <=> part = "alerts" \/ part = "transactions"
BY DEF PageTypes, Page!Parts, Page!Counters, Page!Lists

LEMMA PageStays ==
  ASSUME [Page!Next]_(Page!vars)
  PROVE  status' = status /\ part' = part /\ limit' = limit
BY DEF Page!Next, Page!vars, Page!dbVars, Page!socketVars, Page!pageVars, Page!historyVars,
   Page!Store, Page!Raise, Page!Announce, Page!HandlerFails,
       Page!Review, Page!Join, Page!Drop, Page!Deliver, Page!Refresh, Page!Query, Page!ShowBundle, Page!BundleFails

(* The next event, and what is behind it. *)
LEMMA NextEvent ==
  ASSUME PageInv, wire # <<>>
  PROVE  /\ Head(wire) \in Page!Event /\ Head(wire).payment \in Payments /\ Head(wire).kind \in Page!Kinds
         /\ Tail(wire) \in Seq(Page!Event) /\ OnceIn(Tail(wire))
         /\ Page!Elements(wire) = {Head(wire)} \cup Page!Elements(Tail(wire))
         /\ Head(wire) \notin Page!Elements(Tail(wire))
<1>1. wire \in Seq(Page!Event) /\ OnceIn(wire)
  BY DEF PageInv, PageTypes, WireIsOrdered
<1>2. /\ Tail(wire) \in Seq(Page!Event) /\ Head(wire) \in Page!Event
      /\ Page!Elements(wire) = {Head(wire)} \cup Page!Elements(Tail(wire))
  BY <1>1, ElementsOfTail
<1>3. OnceIn(Tail(wire)) /\ Head(wire) \notin Page!Elements(Tail(wire))
  BY <1>1, OnceInTail
<1>4. \A ev \in Page!Event : ev.payment \in Payments /\ ev.kind \in Page!Kinds
  BY DEF Page!Event
<1> QED
  BY <1>2, <1>3, <1>4

LEMMA OnWireIs ==
  ASSUME PageTypes
  PROVE  /\ Page!OnWire \subseteq Payments
         /\ \A p : p \in Page!OnWire <=> \E ev \in Page!Elements(wire) : ev.payment = p
<1>1. \A i \in DOMAIN wire : wire[i] \in Page!Event
  BY DEF PageTypes
<1>2. \A ev \in Page!Event : ev.payment \in Payments
  BY DEF Page!Event
<1> QED
  BY <1>1, <1>2 DEF Page!OnWire, Page!Elements

(* What handling an event does to each part. *)
LEMMA HandleIs ==
  ASSUME PageTypes, NEW ev
  PROVE  /\ part = "openAlerts" =>
              Page!Handle(ev) = IF ev.kind = "fraud-alert" THEN shown + 1 ELSE shown
         /\ part = "blockedTransactions" =>
              Page!Handle(ev) = IF ev.kind = "blocked-transaction" THEN shown + 1 ELSE shown
         /\ part \in Page!Lists =>
              Page!Handle(ev) = IF Relevant(ev.kind) THEN Page!MergeUnique(shown, ev.payment) ELSE shown
         /\ part = "liveEvents" => Page!Handle(ev) = Page!MergeUnique(shown, ev)
BY DEF Page!Handle, Page!Lists, Relevant

LEMMA RowsMerge ==
  ASSUME PageInv, part \in Page!Lists, NEW p \in Payments
  PROVE  LET r == Page!MergeUnique(shown, p)
         IN  /\ r \in Seq(Payments) /\ Len(r) <= limit /\ OnceIn(r)
             /\ Full(r) \/ (p \in Page!Elements(r) /\ Page!Elements(shown) \subseteq Page!Elements(r))
             /\ Full(shown) => Full(r)
<1> DEFINE r == Page!MergeUnique(shown, p)
<1>1. limit \in Nat /\ shown \in Seq(Payments)
  BY LimitIsNat DEF PageInv, PageTypes, Fits
<1>2. \A x : Page!Key(x) = x
  BY DEF Page!Key, Page!Lists
<1>3. KeysDiffer(shown)
  BY <1>2 DEF PageInv, RowsInv, OnceIn, KeysDiffer
<1>4. /\ r \in Seq(Payments) /\ Len(r) <= limit /\ KeysDiffer(r)
      /\ \/ Len(r) = limit
         \/ /\ p \in Page!Elements(r)
            /\ \A x \in Page!Elements(shown) : Page!Key(x) # Page!Key(p) => x \in Page!Elements(r)
      /\ Len(shown) = limit => Len(r) = limit
  BY <1>1, <1>3, MergeIsRight
<1> HIDE DEF r
<1>5. OnceIn(r)
  BY <1>2, <1>4 DEF OnceIn, KeysDiffer
<1>6. Full(r) \/ (p \in Page!Elements(r) /\ Page!Elements(shown) \subseteq Page!Elements(r))
  BY <1>2, <1>4 DEF Full
<1> QED
  BY <1>4, <1>5, <1>6 DEF Full, r

LEMMA StreamMerge ==
  ASSUME PageInv, part = "liveEvents", NEW ev \in Page!Event
  PROVE  LET r == Page!MergeUnique(shown, ev)
         IN  /\ r \in Seq(Page!Event) /\ Len(r) <= limit /\ KeysDiffer(r)
             /\ \A x \in Page!Elements(r) : x = ev \/ (x \in Page!Elements(shown) /\ Page!Key(x) # Page!Key(ev))
<1>1. limit \in Nat /\ shown \in Seq(Page!Event) /\ KeysDiffer(shown)
  BY LimitIsNat DEF PageInv, PageTypes, Fits, StreamInv
<1> QED
  BY <1>1, MergeIsRight

LEMMA HandleFits ==
  ASSUME PageInv, NEW ev \in Page!Event
  PROVE  Fits(Page!Handle(ev))
<1>1. PageTypes /\ Fits(shown) /\ ev.payment \in Payments
  BY DEF PageInv, PageTypes, Page!Event
<1>2. CASE part \in Page!Counters
  <2>1. shown \in Nat /\ part \notin Page!Lists /\ part # "liveEvents"
    BY <1>1, <1>2 DEF Fits, Page!Counters, Page!Lists
  <2>2. Page!Handle(ev) \in {shown, shown + 1}
    BY <1>1, <1>2, HandleIs DEF Page!Counters
  <2> QED
    BY <2>1, <2>2 DEF Fits
<1>3. CASE part \in Page!Lists
  <2>1. Page!Handle(ev) \in {shown, Page!MergeUnique(shown, ev.payment)}
    BY <1>1, <1>3, HandleIs
  <2>2. part \notin Page!Counters /\ part # "liveEvents"
    BY <1>3 DEF Page!Counters, Page!Lists
  <2> QED
    BY <1>1, <1>3, <2>1, <2>2, RowsMerge DEF Fits
<1>4. CASE part = "liveEvents"
  <2>1. Page!Handle(ev) = Page!MergeUnique(shown, ev)
    BY <1>1, <1>4, HandleIs
  <2>2. part \notin Page!Counters /\ part \notin Page!Lists
    BY <1>4 DEF Page!Counters, Page!Lists
  <2> QED
    BY <1>4, <2>1, <2>2, StreamMerge DEF Fits
<1> QED
  BY <1>1, <1>2, <1>3, <1>4, PartIsOne

(* Membership of a collection, told by how far the handler got. *)
LEMMA BlockedIs ==
  ASSUME PageInv
  PROVE  /\ Page!Blocked = {p \in Payments : stage[p] # "none" /\ status[p] = "BLOCKED"}
         /\ IsFiniteSet(Page!Blocked)
<1>1. Page!Elements(stored) \subseteq Payments /\ IsFiniteSet(Page!Elements(stored))
  BY ElementsOfSeq DEF PageInv, PageTypes
<1>2. IsFiniteSet(Page!Blocked)
  BY <1>1, FS_Subset DEF Page!Blocked
<1> QED
  BY <1>1, <1>2 DEF Page!Blocked, PageInv, DbAgrees

LEMMA AlertedIs ==
  ASSUME PageInv
  PROVE  /\ Page!Elements(raised) = {p \in Payments : alert[p] # "none"}
         /\ IsFiniteSet(Page!Elements(raised)) /\ IsFiniteSet(Page!Open)
<1>1. Page!Elements(raised) \subseteq Payments /\ IsFiniteSet(Page!Elements(raised))
  BY ElementsOfSeq DEF PageInv, PageTypes
<1>2. Page!Elements(raised) = {p \in Payments : alert[p] # "none"}
  BY <1>1 DEF PageInv, DbAgrees
<1>3. IsFiniteSet(Page!Open)
  BY <1>1, <1>2, FS_Subset DEF Page!Open
<1> QED
  BY <1>1, <1>2, <1>3

(* A query counts what counts now. *)
LEMMA ResultCounts ==
  ASSUME PageInv, part \in Page!Counters
  PROVE  LET A == {p \in Payments : CountsNow(p)}
         IN  IsFiniteSet(A) /\ Page!Result = Cardinality(A)
<1>1. CASE part = "openAlerts"
  <2>1. {p \in Payments : CountsNow(p)} = Page!Open
    BY <1>1 DEF CountsNow, MayCount, Page!Open
  <2> QED
    BY <1>1, <2>1, AlertedIs, PageCounts DEF Page!Result
<1>2. CASE part = "blockedTransactions"
  <2>1. {p \in Payments : CountsNow(p)} = Page!Blocked
    BY <1>2, BlockedIs DEF CountsNow, MayCount
  <2> QED
    BY <1>2, <2>1, BlockedIs, PageCounts DEF Page!Result
<1> QED
  BY <1>1, <1>2 DEF Page!Counters

(* A query lists the newest rows. *)
LEMMA ResultLists ==
  ASSUME PageInv, part \in Page!Lists
  PROVE  /\ Page!Result \in Seq(Payments) /\ Len(Page!Result) <= limit /\ OnceIn(Page!Result)
         /\ Full(Page!Result) \/ \A p \in Payments : alert[p] # "none" => p \in Page!Elements(Page!Result)
<1>1. limit \in Nat /\ stored \in Seq(Payments) /\ raised \in Seq(Payments)
      /\ OnceIn(stored) /\ OnceIn(raised)
  BY LimitIsNat DEF PageInv, PageTypes, DbAgrees
<1>2. PICK s \in {stored, raised} : Page!Result = Page!Newest(s)
  BY DEF Page!Result, Page!Lists
<1>3. s \in Seq(Payments) /\ OnceIn(s)
  BY <1>1, <1>2
<1>4. /\ Page!Newest(s) \in Seq(Payments) /\ Len(Page!Newest(s)) <= limit
      /\ Len(Page!Newest(s)) = limit \/ Page!Newest(s) = s
  BY <1>1, <1>3, NewestIsShort
<1>5. OnceIn(Page!Newest(s))
  BY <1>1, <1>3, OnceInNewest
<1>6. \A p \in Payments : alert[p] # "none" => p \in Page!Elements(s)
  <2>1. \A p \in Payments : alert[p] # "none" => p \in Page!Elements(raised) /\ p \in Page!Elements(stored)
    BY DEF PageInv, DbAgrees
  <2> QED
    BY <1>2, <2>1
<1> QED
  BY <1>2, <1>4, <1>5, <1>6 DEF Full

LEMMA ResultFits ==
  ASSUME PageInv, Page!InBundle
  PROVE  Fits(Page!Result)
<1>1. CASE part \in Page!Counters
  <2>1. Page!Result \in Nat
    BY <1>1, ResultCounts, FS_CardinalityType
  <2> QED
    BY <1>1, <2>1 DEF Fits, Page!Counters, Page!Lists
<1>2. CASE part \in Page!Lists
  BY <1>2, ResultLists DEF Fits, Page!Counters, Page!Lists
<1> QED
  BY <1>1, <1>2, PartIsOne DEF Page!InBundle, PageInv

-----------------------------------------------------------------------------
(* The steps. *)

LEMMA PageTypesStep ==
  ASSUME PageInv, [Page!Next]_(Page!vars)
  PROVE  PageTypes'
<1> USE DEF PageInv, PageTypes
<1>1. status' = status /\ part' = part /\ limit' = limit
  BY PageStays
<1>2. \A v : Fits(v)' <=> Fits(v)
  BY <1>1 DEF Fits, Full
<1>3. Page!InBundle' <=> Page!InBundle
  BY <1>1 DEF Page!InBundle
<1>4. ASSUME NEW p \in Payments, Page!Store(p) PROVE PageTypes'
  <2>1. stored' \in Seq(Payments)
    BY <1>4, ElementsOfCons DEF Page!Store
  <2>2. /\ UNCHANGED <<shown, found, loading, alert, raised, joined, wire, untold, raced>>
        /\ stage' \in [Payments -> {"none", "stored", "alerted", "done"}]
        /\ during' \subseteq Payments
    BY <1>4 DEF Page!Store, Page!socketVars, Page!pageVars, Page!Moves
  <2> QED
    BY <1>1, <1>2, <1>3, <2>1, <2>2
<1>5. ASSUME NEW p \in Payments, Page!Raise(p) PROVE PageTypes'
  <2>1. raised' \in Seq(Payments)
    BY <1>5, ElementsOfCons DEF Page!Raise
  <2>2. /\ UNCHANGED <<shown, found, loading, stored, joined, wire, untold, raced>>
        /\ stage' \in [Payments -> {"none", "stored", "alerted", "done"}]
        /\ alert' \in [Payments -> Page!AlertStatuses]
        /\ during' \subseteq Payments
    BY <1>5 DEF Page!Raise, Page!socketVars, Page!pageVars, Page!Moves, Page!AlertStatuses
  <2> QED
    BY <1>1, <1>2, <1>3, <2>1, <2>2
<1>6. ASSUME NEW p \in Payments, Page!Announce(p) PROVE PageTypes'
  <2>1. wire' \in Seq(Page!Event)
    <3>1. Page!Events(p) \in Seq(Page!Event)
      BY EventsOf
    <3> QED
      BY <1>6, <3>1 DEF Page!Announce
  <2>2. /\ UNCHANGED <<shown, found, loading, alert, stored, raised, joined, raced>>
        /\ stage' \in [Payments -> {"none", "stored", "alerted", "done"}]
        /\ during' \subseteq Payments /\ untold' \subseteq Payments
    BY <1>6 DEF Page!Announce, Page!pageVars, Page!Moves
  <2> QED
    BY <1>1, <1>2, <1>3, <2>1, <2>2
<1>7. ASSUME NEW p \in Payments, Page!HandlerFails(p) \/ Page!Review(p) PROVE PageTypes'
  <2>1. /\ UNCHANGED <<shown, found, loading, stored, raised, joined, wire, raced>>
        /\ stage' \in [Payments -> {"none", "stored", "alerted", "done"}]
        /\ alert' \in [Payments -> Page!AlertStatuses]
        /\ during' \subseteq Payments /\ untold' \subseteq Payments
    BY <1>7
    DEF Page!HandlerFails, Page!Review, Page!socketVars, Page!pageVars, Page!Moves,
        Page!AlertStatuses
  <2> QED
    BY <1>1, <1>2, <1>3, <2>1
<1>8. CASE Page!Join
  BY <1>1, <1>2, <1>3, <1>8 DEF Page!Join, Page!dbVars, Page!pageVars, Page!historyVars
<1>9. CASE Page!Drop
  <2>1. Page!OnWire \subseteq Payments
    BY OnWireIs
  <2>2. wire' = <<>> /\ joined' \in BOOLEAN /\ untold' \subseteq Payments
    BY <1>9, <2>1 DEF Page!Drop
  <2>4. wire' \in Seq(Page!Event)
    BY <2>2
  <2>3. UNCHANGED <<Page!dbVars, Page!pageVars, during, raced>>
    BY <1>9 DEF Page!Drop
  <2> QED
    BY <1>1, <1>2, <1>3, <2>2, <2>3, <2>4 DEF Page!dbVars, Page!pageVars
<1>10. CASE Page!Deliver
  <2>1. Head(wire) \in Page!Event /\ Head(wire).payment \in Payments /\ Tail(wire) \in Seq(Page!Event)
    BY <1>10, NextEvent DEF Page!Deliver
  <2>2. Fits(shown')
    BY <1>10, <2>1, HandleFits DEF Page!Deliver
  <2>3. wire' \in Seq(Page!Event) /\ during' \subseteq Payments
    BY <1>10, <2>1 DEF Page!Deliver, Page!Moves
  <2>4. UNCHANGED <<Page!dbVars, joined, part, limit, loading, found, untold, raced>>
    BY <1>10 DEF Page!Deliver
  <2> QED
    BY <1>1, <1>2, <1>3, <2>2, <2>3, <2>4 DEF Page!dbVars
<1>11. CASE Page!Refresh
  <2>1. during' \subseteq Payments
    BY <1>11, OnWireIs DEF Page!Refresh, Page!UnderWay
  <2> QED
    BY <1>1, <1>2, <1>3, <1>11, <2>1 DEF Page!Refresh, Page!dbVars, Page!socketVars
<1>12. CASE Page!Query
  <2>1. found' # None => Fits(found')
    BY <1>12, ResultFits DEF Page!Query
  <2> QED
    BY <1>1, <1>2, <1>3, <1>12, <2>1 DEF Page!Query, Page!dbVars, Page!socketVars, Page!historyVars
<1>13. CASE Page!ShowBundle \/ Page!BundleFails
  BY <1>1, <1>2, <1>3, <1>13 DEF Page!ShowBundle, Page!BundleFails, Page!dbVars, Page!socketVars
<1>14. CASE UNCHANGED (Page!vars)
  BY <1>1, <1>2, <1>3, <1>14
  DEF Page!vars, Page!dbVars, Page!socketVars, Page!pageVars, Page!historyVars
<1> QED
  BY <1>4, <1>5, <1>6, <1>7, <1>8, <1>9, <1>10, <1>11, <1>12, <1>13, <1>14 DEF Page!Next

LEMMA DbStep ==
  ASSUME PageInv, [Page!Next]_(Page!vars)
  PROVE  DbAgrees'
<1> USE DEF PageInv, DbAgrees
<1>1. status' = status /\ PageTypes
  BY PageStays
<1>2. ASSUME NEW p \in Payments, Page!Store(p) PROVE DbAgrees'
  <2>1. stored \in Seq(Payments) /\ p \notin Page!Elements(stored) /\ OnceIn(stored)
    BY <1>2 DEF Page!Store, PageTypes
  <2>2. OnceIn(stored') /\ Page!Elements(stored') = {p} \cup Page!Elements(stored)
    BY <1>2, <2>1, OnceInCons, ElementsOfCons DEF Page!Store
  <2>3. /\ alert' = alert /\ raised' = raised
        /\ \A q \in Payments : q # p => stage'[q] = stage[q]
        /\ stage'[p] = IF status[p] = "ALLOWED" THEN "done" ELSE "stored"
        /\ alert[p] = "none"
    BY <1>2 DEF Page!Store, PageTypes
  <2> QED
    BY <1>1, <2>2, <2>3
<1>3. ASSUME NEW p \in Payments, Page!Raise(p) PROVE DbAgrees'
  <2>1. raised \in Seq(Payments) /\ p \notin Page!Elements(raised) /\ OnceIn(raised)
    BY <1>3 DEF Page!Raise, PageTypes
  <2>2. OnceIn(raised') /\ Page!Elements(raised') = {p} \cup Page!Elements(raised)
    BY <1>3, <2>1, OnceInCons, ElementsOfCons DEF Page!Raise
  <2>3. /\ stored' = stored
        /\ \A q \in Payments : q # p => stage'[q] = stage[q] /\ alert'[q] = alert[q]
        /\ stage'[p] = "alerted" /\ alert'[p] = "open" /\ stage[p] = "stored"
    BY <1>3 DEF Page!Raise, PageTypes
  <2> QED
    BY <1>1, <2>2, <2>3
<1>4. ASSUME NEW p \in Payments, Page!Announce(p) \/ Page!HandlerFails(p) PROVE DbAgrees'
  <2>1. /\ stored' = stored /\ raised' = raised /\ alert' = alert
        /\ \A q \in Payments : q # p => stage'[q] = stage[q]
        /\ stage'[p] = "done" /\ stage[p] # "none"
    BY <1>4 DEF Page!Announce, Page!HandlerFails, PageTypes
  <2> QED
    BY <1>1, <2>1
<1>5. ASSUME NEW p \in Payments, Page!Review(p) PROVE DbAgrees'
  <2>1. /\ stored' = stored /\ raised' = raised /\ stage' = stage
        /\ \A q \in Payments : q # p => alert'[q] = alert[q]
        /\ alert'[p] # "none" /\ alert[p] # "none"
    BY <1>5 DEF Page!Review, PageTypes
  <2> QED
    BY <1>1, <2>1
<1>6. CASE UNCHANGED Page!dbVars
  BY <1>6 DEF Page!dbVars
<1> QED
  BY <1>2, <1>3, <1>4, <1>5, <1>6
  DEF Page!Next, Page!vars, Page!Join, Page!Drop, Page!Deliver, Page!Refresh, Page!Query,
      Page!ShowBundle,
     Page!BundleFails

LEMMA WireStep ==
  ASSUME PageInv, [Page!Next]_(Page!vars)
  PROVE  WireIsOrdered'
<1> USE DEF PageInv, WireIsOrdered
<1>1. status' = status /\ PageTypes /\ wire \in Seq(Page!Event)
  BY PageStays DEF PageTypes
<1>2. \A ev \in Page!Elements(wire) : ev.payment \in Payments
  BY <1>1, OnWireIs
<1>3. ASSUME wire' = wire,
             \A ev \in Page!Elements(wire) : stage'[ev.payment] = stage[ev.payment]
                                        /\ (alert[ev.payment] # "none" => alert'[ev.payment] # "none")
      PROVE  WireIsOrdered'
  BY <1>1, <1>3
<1>4. ASSUME NEW p \in Payments, Page!Store(p) \/ Page!Raise(p) \/ Page!HandlerFails(p) \/ Page!Review(p)
      PROVE  WireIsOrdered'
  <2>1. wire' = wire
    BY <1>4 DEF Page!Store, Page!Raise, Page!HandlerFails, Page!Review, Page!socketVars
  <2>2. \A ev \in Page!Elements(wire) : stage[ev.payment] = "done"
    OBVIOUS
  <2>3. \A q \in Payments : /\ stage[q] = "done" => stage'[q] = stage[q]
                            /\ alert[q] # "none" => alert'[q] # "none"
    BY <1>4 DEF Page!Store, Page!Raise, Page!HandlerFails, Page!Review, PageTypes, DbAgrees
  <2> QED
    BY <1>2, <1>3, <2>1, <2>2, <2>3
<1>5. ASSUME NEW p \in Payments, Page!Announce(p) PROVE WireIsOrdered'
  <2>1. /\ alert' = alert /\ stage[p] = "alerted" /\ stage'[p] = "done"
        /\ \A q \in Payments : q # p => stage'[q] = stage[q]
    BY <1>5 DEF Page!Announce, PageTypes
  <2>2. \A ev \in Page!Elements(wire) : ev.payment # p
    BY <2>1
  <2>3. CASE ~joined
    <3>1. wire' = wire
      BY <1>5, <2>3 DEF Page!Announce
    <3> QED
      BY <1>2, <1>3, <2>1, <2>2, <3>1
  <2>4. CASE joined
    <3> DEFINE E == Page!Events(p)
               n == Len(wire)
    <3>1. wire' = wire \o E /\ E \in Seq(Page!Event)
      BY <1>5, <2>4, EventsOf DEF Page!Announce
    <3>2. /\ OnceIn(E)
          /\ \A ev \in Page!Elements(E) : ev.payment = p /\ (ev.kind = "blocked-transaction" => status[p] = "BLOCKED")
      BY EventsAreOnce
    <3>3. /\ Len(E) = IF status[p] = "BLOCKED" THEN 3 ELSE 2
          /\ E[1].kind = "fraud-alert"
          /\ E[2].payment = p
          /\ status[p] = "BLOCKED" => E[3] = BlockedEvent(p)
          /\ status[p] = "BLOCKED" => E[3].kind = "blocked-transaction"
      <4>1. /\ Len(E) = IF status[p] = "BLOCKED" THEN 3 ELSE 2
            /\ E[1] = [kind |-> "fraud-alert", payment |-> p]
            /\ E[2] = [kind |-> "suspicious-transaction", payment |-> p]
            /\ status[p] = "BLOCKED" => E[3] = [kind |-> "blocked-transaction", payment |-> p]
        BY EventsOf
      <4> HIDE DEF E
      <4> QED
        BY <4>1 DEF BlockedEvent
    <3> HIDE DEF E
    <3>4. OnceIn(wire')
      BY <1>1, <2>2, <3>1, <3>2, OnceInCat
    <3>5. Page!Elements(wire') = Page!Elements(wire) \cup Page!Elements(E)
      BY <1>1, <3>1, ElementsOfCat
    <3>6. \A ev \in Page!Elements(wire') :
            /\ stage'[ev.payment] = "done" /\ alert'[ev.payment] # "none"
            /\ ev.kind = "blocked-transaction" => status'[ev.payment] = "BLOCKED"
      BY <1>1, <1>2, <2>1, <2>2, <3>2, <3>5 DEF DbAgrees
    <3>7. ASSUME NEW i \in DOMAIN wire', wire'[i].kind = "suspicious-transaction",
                 status[wire'[i].payment] = "BLOCKED"
          PROVE  \E j \in DOMAIN wire' : j > i /\ wire'[j] = BlockedEvent(wire'[i].payment)
      <4>1. n \in Nat /\ DOMAIN wire = 1 .. n /\ DOMAIN wire' = 1 .. (n + Len(E)) /\ Len(E) \in Nat
        BY <1>1, <3>1
      <4>2. CASE i <= n
        <5>1. i \in DOMAIN wire /\ wire'[i] = wire[i]
          BY <1>1, <3>1, <4>1, <4>2
        <5>2. PICK j \in DOMAIN wire : j > i /\ wire[j] = BlockedEvent(wire[i].payment)
          BY <3>7, <5>1
        <5>3. j \in DOMAIN wire' /\ wire'[j] = wire[j]
          BY <1>1, <3>1, <4>1
        <5> QED
          BY <5>1, <5>2, <5>3
      <4>3. CASE i > n
        <5>1. i - n \in 1 .. Len(E) /\ wire'[i] = E[i - n]
          BY <1>1, <3>1, <4>1, <4>3
        <5>2. wire'[i].payment = p
          BY <3>2, <5>1 DEF Page!Elements
        <5>3. i - n = 2
          BY <3>3, <3>7, <5>1, <5>2
        <5>4. n + 3 \in DOMAIN wire' /\ wire'[n + 3] = E[3] /\ n + 3 > i
          BY <1>1, <3>1, <3>3, <3>7, <4>1, <5>2, <5>3
        <5> QED
          BY <3>3, <3>7, <5>2, <5>4
      <4> QED
        BY <4>1, <4>2, <4>3
    <3>8. \A x : BlockedEvent(x)' = BlockedEvent(x)
      BY DEF BlockedEvent
    <3> QED
      BY <1>1, <3>4, <3>6, <3>7, <3>8
  <2> QED
    BY <2>3, <2>4, <1>1 DEF PageTypes
<1>6. CASE Page!Drop
  <2>1. wire' = <<>> /\ DOMAIN <<>> = {}
    BY <1>6 DEF Page!Drop
  <2>2. DOMAIN wire' = {}
    BY <2>1
  <2> QED
    BY <2>2 DEF OnceIn, Page!Elements
<1>7. CASE Page!Deliver
  <2>1. /\ wire' = Tail(wire) /\ wire # <<>> /\ UNCHANGED <<stage, alert>>
        /\ Page!Elements(Tail(wire)) \subseteq Page!Elements(wire) /\ OnceIn(Tail(wire))
    BY <1>7, NextEvent DEF Page!Deliver, Page!dbVars
  <2>2. /\ \A i \in DOMAIN wire' : i \in Nat /\ i + 1 \in DOMAIN wire /\ wire'[i] = wire[i + 1]
        /\ \A j \in DOMAIN wire : j > 1 => j - 1 \in DOMAIN wire' /\ wire'[j - 1] = wire[j]
    BY <1>1, <2>1
  <2>3. ASSUME NEW i \in DOMAIN wire', wire'[i].kind = "suspicious-transaction",
               status[wire'[i].payment] = "BLOCKED"
        PROVE  \E j \in DOMAIN wire' : j > i /\ wire'[j] = BlockedEvent(wire'[i].payment)
    <3>1. PICK j \in DOMAIN wire : j > i + 1 /\ wire[j] = BlockedEvent(wire[i + 1].payment)
      BY <2>2, <2>3
    <3>2. j \in Nat /\ i \in Nat
      BY <1>1, <2>2
    <3>3. j - 1 \in DOMAIN wire' /\ wire'[j - 1] = wire[j] /\ j - 1 > i
      BY <2>2, <3>1, <3>2
    <3> QED
      BY <2>2, <3>1, <3>3
  <2>4. \A x : BlockedEvent(x)' = BlockedEvent(x)
    BY DEF BlockedEvent
  <2> QED
    BY <1>1, <2>1, <2>3, <2>4
<1>8. CASE Page!Join \/ Page!Refresh \/ Page!Query \/ Page!ShowBundle \/ Page!BundleFails \/ UNCHANGED (Page!vars)
  <2>1. wire' = wire /\ stage' = stage /\ alert' = alert
    BY <1>8
    DEF Page!Join, Page!Refresh, Page!Query, Page!ShowBundle, Page!BundleFails, Page!vars,
        Page!dbVars, Page!socketVars
  <2> QED
    BY <1>3, <2>1
<1> QED
  BY <1>4, <1>5, <1>6, <1>7, <1>8 DEF Page!Next

(* A bundle starts with who is under way, and whoever starts later moves. *)
LEMMA DuringStep ==
  ASSUME PageInv, [Page!Next]_(Page!vars)
  PROVE  DuringKnows'
<1> DEFINE Going(p) == stage[p] \in {"stored", "alerted"} \/ \E ev \in Page!Elements(wire) : ev.payment = p
<1>1. DuringKnows <=> (loading => \A p \in Payments : Going(p) => p \in during)
  BY DEF DuringKnows
<1>2. DuringKnows' <=> (loading' => \A p \in Payments : Going(p)' => p \in during')
  BY DEF DuringKnows
<1>3. DuringKnows /\ PageTypes
  BY DEF PageInv
<1>4. ASSUME NEW p \in Payments, Page!Store(p) \/ Page!Raise(p) \/ Page!Announce(p) \/ Page!HandlerFails(p) \/ Page!Review(p)
      PROVE  DuringKnows'
  <2>1. loading' = loading /\ (loading => during' = during \cup {p})
    BY <1>4
    DEF Page!Store, Page!Raise, Page!Announce, Page!HandlerFails, Page!Review, Page!pageVars,
        Page!Moves
  <2>2. \A q \in Payments : q # p => stage'[q] = stage[q]
    BY <1>3, <1>4
    DEF Page!Store, Page!Raise, Page!Announce, Page!HandlerFails, Page!Review, PageTypes
  <2>3. \A q \in Payments \ {p}, ev \in Page!Elements(wire') : ev.payment = q => ev \in Page!Elements(wire)
    <3>1. CASE wire' = wire
      BY <3>1
    <3>2. CASE Page!Announce(p) /\ wire' = wire \o Page!Events(p)
      <4>1. Page!Events(p) \in Seq(Page!Event) /\ \A ev \in Page!Elements(Page!Events(p)) : ev.payment = p
        BY EventsOf, EventsAreOnce
      <4>2. wire \in Seq(Page!Event)
        BY <1>3 DEF PageTypes
      <4>3. Page!Elements(wire') = Page!Elements(wire) \cup Page!Elements(Page!Events(p))
        BY <3>2, <4>1, <4>2, ElementsOfCat
      <4> QED
        BY <4>1, <4>3
    <3> QED
      BY <1>4, <3>1, <3>2
      DEF Page!Store, Page!Raise, Page!Announce, Page!HandlerFails, Page!Review, Page!socketVars
  <2>4. \A q \in Payments : q # p /\ Going(q)' => Going(q)
    BY <2>2, <2>3
  <2> QED
    BY <1>1, <1>2, <1>3, <2>1, <2>4
<1>5. CASE Page!Drop
  <2>1. UNCHANGED <<stage, loading, during>> /\ wire' = <<>>
    BY <1>5 DEF Page!Drop, Page!dbVars, Page!pageVars
  <2>2. Page!Elements(wire') = {}
    BY <2>1 DEF Page!Elements
  <2>3. \A q \in Payments : Going(q)' => Going(q)
    BY <2>1, <2>2
  <2> QED
    BY <1>1, <1>2, <1>3, <2>1, <2>3
<1>6. CASE Page!Deliver
  <2>1. /\ UNCHANGED <<stage, loading>> /\ wire' = Tail(wire) /\ during \subseteq during'
        /\ Page!Elements(Tail(wire)) \subseteq Page!Elements(wire)
    BY <1>6, NextEvent DEF Page!Deliver, Page!dbVars, Page!Moves
  <2>2. \A q \in Payments : Going(q)' => Going(q)
    BY <2>1
  <2> QED
    BY <1>1, <1>2, <1>3, <2>1, <2>2
<1>7. CASE Page!Refresh
  <2>1. UNCHANGED <<stage, wire>> /\ during' = Page!UnderWay
    BY <1>7 DEF Page!Refresh, Page!dbVars, Page!socketVars
  <2>2. \A q \in Payments : Going(q)' => q \in Page!UnderWay
    BY <1>3, <2>1, OnWireIs DEF Page!UnderWay
  <2> QED
    BY <1>2, <2>1, <2>2
<1>8. CASE Page!Join \/ Page!Query \/ UNCHANGED (Page!vars)
  <2>1. UNCHANGED <<stage, wire, loading, during>>
    BY <1>8
    DEF Page!Join, Page!Query, Page!vars, Page!dbVars, Page!socketVars, Page!pageVars,
        Page!historyVars
  <2> QED
    BY <1>1, <1>2, <1>3, <2>1
<1>9. CASE Page!ShowBundle \/ Page!BundleFails
  BY <1>2, <1>9 DEF Page!ShowBundle, Page!BundleFails
<1> QED
  BY <1>4, <1>5, <1>6, <1>7, <1>8, <1>9 DEF Page!Next

(* What a step does to the page, where it neither handles an event nor     *)
(* shows a bundle: it keeps what is shown and what went unsaid.            *)
LEMMA ShownStays ==
  ASSUME PageInv, [Page!Next]_(Page!vars), ~Page!Deliver, ~Page!ShowBundle
  PROVE  shown' = shown /\ untold \subseteq untold' /\ raced' = raced
BY DEF Page!Next, Page!vars, Page!dbVars, Page!socketVars, Page!pageVars, Page!historyVars,
   Page!Store, Page!Raise, Page!Announce, Page!HandlerFails,
       Page!Review, Page!Join, Page!Drop, Page!Refresh, Page!Query, Page!BundleFails

(* Whose events a step takes off the wire without handling them, those it  *)
(* leaves unsaid.                                                          *)
LEMMA WireStays ==
  ASSUME PageInv, [Page!Next]_(Page!vars), ~Page!Deliver
  PROVE  \A ev \in Page!Elements(wire) : ev \in Page!Elements(wire') \/ ev.payment \in untold'
<1>1. wire \in Seq(Page!Event) /\ PageTypes
  BY DEF PageInv, PageTypes
<1>2. ASSUME NEW p \in Payments, Page!Announce(p)
      PROVE  Page!Elements(wire) \subseteq Page!Elements(wire')
  <2>1. Page!Events(p) \in Seq(Page!Event) /\ (wire' = wire \/ wire' = wire \o Page!Events(p))
    BY <1>2, EventsOf DEF Page!Announce
  <2>2. Page!Elements(wire \o Page!Events(p)) = Page!Elements(wire) \cup Page!Elements(Page!Events(p))
    BY <1>1, <2>1, ElementsOfCat
  <2> QED
    BY <2>1, <2>2
<1>3. CASE Page!Drop
  <2>1. \A ev \in Page!Elements(wire) : ev.payment \in Page!OnWire
    BY <1>1, OnWireIs
  <2> QED
    BY <1>3, <2>1 DEF Page!Drop
<1>4. CASE UNCHANGED wire
  BY <1>4
<1> QED
  BY <1>2, <1>3, <1>4
  DEF Page!Next, Page!vars, Page!socketVars, Page!Store, Page!Raise, Page!HandlerFails,
      Page!Review, Page!Join, Page!Refresh,
     Page!Query, Page!ShowBundle, Page!BundleFails

LEMMA StreamStep ==
  ASSUME PageInv, [Page!Next]_(Page!vars)
  PROVE  StreamInv'
<1> SUFFICES ASSUME part = "liveEvents"
             PROVE  /\ KeysDiffer(shown)'
                    /\ \A ev \in Page!Elements(shown') :
                         ev.kind = "suspicious-transaction" /\ status[ev.payment] = "BLOCKED" =>
                           ev.payment \in untold' \/ BlockedEvent(ev.payment) \in Page!Elements(wire')
  <2>1. \A x : BlockedEvent(x)' = BlockedEvent(x)
    BY DEF BlockedEvent
  <2> QED
    BY <2>1, PageStays DEF StreamInv
<1>1. /\ KeysDiffer(shown)
      /\ \A ev \in Page!Elements(shown) :
           ev.kind = "suspicious-transaction" /\ status[ev.payment] = "BLOCKED" =>
             ev.payment \in untold \/ BlockedEvent(ev.payment) \in Page!Elements(wire)
  BY DEF PageInv, StreamInv
<1>2. \A x : Page!Key(x)' = Page!Key(x)
  BY PageStays DEF Page!Key
<1>3. \A x : BlockedEvent(x).payment = x
  BY DEF BlockedEvent
<1>4. CASE ~Page!Deliver
  <2>1. ~Page!ShowBundle
    BY DEF PageInv, PageTypes, Page!InBundle, Page!ShowBundle
  <2>2. shown' = shown /\ untold \subseteq untold'
    BY <1>4, <2>1, ShownStays
  <2>3. KeysDiffer(shown)'
    BY <1>1, <1>2, <2>2 DEF KeysDiffer
  <2> QED
    BY <1>1, <1>3, <1>4, <2>2, <2>3, WireStays
<1>5. CASE Page!Deliver
  <2> DEFINE h == Head(wire)
  <2>1. /\ wire # <<>> /\ wire' = Tail(wire) /\ untold' = untold /\ shown' = Page!MergeUnique(shown, h)
    BY <1>5, HandleIs DEF Page!Deliver, PageInv
  <2>2. /\ h \in Page!Event /\ h.payment \in Payments /\ h.kind \in Page!Kinds
        /\ Page!Elements(wire) = {h} \cup Page!Elements(wire') /\ h \in Page!Elements(wire)
    BY <2>1, NextEvent
  <2>3. /\ KeysDiffer(shown')
        /\ \A x \in Page!Elements(shown') : x = h \/ (x \in Page!Elements(shown) /\ Page!Key(x) # Page!Key(h))
    BY <2>1, <2>2, StreamMerge
  <2>4. KeysDiffer(shown)'
    BY <1>2, <2>3 DEF KeysDiffer
  <2>5. h.kind = "suspicious-transaction" /\ status[h.payment] = "BLOCKED"
          => BlockedEvent(h.payment) \in Page!Elements(wire')
    <3> SUFFICES ASSUME h.kind = "suspicious-transaction", status[h.payment] = "BLOCKED"
                 PROVE  BlockedEvent(h.payment) \in Page!Elements(wire')
      OBVIOUS
    <3>1. 1 \in DOMAIN wire /\ wire[1] = h
      BY <2>1 DEF PageInv, PageTypes
    <3>2. PICK j \in DOMAIN wire : j > 1 /\ wire[j] = BlockedEvent(h.payment)
      BY <3>1 DEF PageInv, WireIsOrdered
    <3>3. BlockedEvent(h.payment) \in Page!Elements(wire)
      BY <3>2 DEF Page!Elements
    <3>4. BlockedEvent(h.payment).kind # h.kind
      BY DEF BlockedEvent
    <3> QED
      BY <2>2, <3>3, <3>4
  <2>6. ASSUME NEW ev \in Page!Elements(shown), Page!Key(ev) # Page!Key(h), ev.kind = "suspicious-transaction",
               BlockedEvent(ev.payment) \in Page!Elements(wire)
        PROVE  BlockedEvent(ev.payment) \in Page!Elements(wire')
    <3>1. CASE BlockedEvent(ev.payment) = h
      <4>1. h.payment = ev.payment /\ h.kind = "blocked-transaction"
        BY <3>1 DEF BlockedEvent
      <4>2. Page!Key(ev) = Page!Key(h)
        BY <2>6, <4>1 DEF Page!Key
      <4> QED
        BY <2>6, <4>2
    <3> QED
      BY <2>2, <2>6, <3>1
  <2> HIDE DEF h
  <2> QED
    BY <1>1, <2>1, <2>3, <2>4, <2>5, <2>6
<1> QED
  BY <1>4, <1>5

LEMMA RowsStep ==
  ASSUME PageInv, [Page!Next]_(Page!vars)
  PROVE  RowsInv'
<1>1. status' = status /\ part' = part /\ limit' = limit /\ PageTypes
  BY PageStays DEF PageInv
<1>2. \A s : Full(s)' <=> Full(s)
  BY <1>1 DEF Full
<1>3. \A k : Relevant(k)' <=> Relevant(k)
  BY <1>1 DEF Relevant
<1>4. SUFFICES ASSUME part \in Page!Lists
               PROVE  /\ OnceIn(shown') /\ (found' # None => OnceIn(found'))
                      /\ \A p \in Payments : alert'[p] # "none" =>
                           /\ \/ Expected(p)' \/ p \in untold' \/ p \in raced'
                              \/ p \in Page!Elements(shown') \/ Full(shown')
                           /\ found' # None =>
                                p \in during' \/ p \in Page!Elements(found') \/ Full(found')
  BY <1>1, <1>2 DEF RowsInv
<1>5. /\ OnceIn(shown) /\ (found # None => OnceIn(found))
      /\ \A p \in Payments : alert[p] # "none" =>
           /\ Expected(p) \/ p \in untold \/ p \in raced \/ p \in Page!Elements(shown) \/ Full(shown)
           /\ found # None => p \in during \/ p \in Page!Elements(found) \/ Full(found)
  BY <1>4 DEF PageInv, RowsInv
<1>6. \A p \in Payments :
        Expected(p) <=> stage[p] = "alerted"
                        \/ \E ev \in Page!Elements(wire) : ev.payment = p /\ Relevant(ev.kind)
  BY DEF Expected
<1>7. \A p \in Payments :
        Expected(p)' <=> stage'[p] = "alerted"
                         \/ \E ev \in Page!Elements(wire') : ev.payment = p /\ Relevant(ev.kind)
  BY <1>3 DEF Expected
<1>8. CASE ~Page!Deliver /\ ~Page!ShowBundle
  <2>1. shown' = shown /\ untold \subseteq untold' /\ raced' = raced
    BY <1>8, ShownStays
  <2>2. \A p \in Payments : stage[p] = "alerted" =>
          \/ stage'[p] = "alerted" \/ p \in untold'
          \/ \E ev \in Page!Elements(wire') : ev.payment = p /\ Relevant(ev.kind)
    <3>1. ASSUME NEW p \in Payments, Page!Announce(p), NEW q \in Payments, stage[q] = "alerted"
          PROVE  \/ stage'[q] = "alerted" \/ q \in untold'
                 \/ \E ev \in Page!Elements(wire') : ev.payment = q /\ Relevant(ev.kind)
      <4>1. CASE q # p
        BY <1>1, <3>1, <4>1 DEF Page!Announce, PageTypes
      <4>2. CASE ~joined
        BY <3>1, <4>1, <4>2 DEF Page!Announce
      <4>3. CASE q = p /\ joined
        <5> DEFINE a == [kind |-> "fraud-alert", payment |-> p]
                   s == [kind |-> "suspicious-transaction", payment |-> p]
        <5>1. a \in Page!Elements(Page!Events(p)) /\ s \in Page!Elements(Page!Events(p)) /\ Page!Events(p) \in Seq(Page!Event)
          BY EventsAreOnce, EventsOf
        <5>2. wire' = wire \o Page!Events(p) /\ wire \in Seq(Page!Event)
          BY <1>1, <3>1, <4>3 DEF Page!Announce, PageTypes
        <5>3. a \in Page!Elements(wire') /\ s \in Page!Elements(wire')
          BY <5>1, <5>2, ElementsOfCat
        <5>4. Relevant(a.kind) \/ Relevant(s.kind)
          BY DEF Relevant
        <5> QED
          BY <4>3, <5>3, <5>4
      <4> QED
        BY <4>1, <4>2, <4>3, <1>1 DEF PageTypes
    <3>2. ASSUME NEW p \in Payments, Page!HandlerFails(p), NEW q \in Payments, stage[q] = "alerted"
          PROVE  stage'[q] = "alerted" \/ q \in untold'
      BY <1>1, <3>2 DEF Page!HandlerFails, PageTypes
    <3>3. ASSUME NEW p \in Payments, Page!Store(p) \/ Page!Raise(p), NEW q \in Payments, stage[q] = "alerted"
          PROVE  stage'[q] = "alerted"
      BY <1>1, <3>3 DEF Page!Store, Page!Raise, PageTypes
    <3>4. CASE UNCHANGED stage
      BY <3>4
    <3> QED
      BY <3>1, <3>2, <3>3, <3>4
      DEF Page!Next, Page!vars, Page!dbVars, Page!Review, Page!Join, Page!Drop, Page!Deliver,
          Page!Refresh, Page!Query,
         Page!ShowBundle, Page!BundleFails
  <2>3. \A p \in Payments : Expected(p) => Expected(p)' \/ p \in untold'
    BY <1>6, <1>7, <1>8, <2>2, WireStays
  <2>4. \A p \in Payments : alert'[p] # "none" => alert[p] # "none" \/ stage'[p] = "alerted"
    <3>1. ASSUME NEW p \in Payments, Page!Raise(p), NEW q \in Payments, alert'[q] # "none"
          PROVE  alert[q] # "none" \/ stage'[q] = "alerted"
      BY <1>1, <3>1 DEF Page!Raise, PageTypes
    <3>2. ASSUME NEW p \in Payments, Page!Review(p) PROVE FALSE
      BY <1>4, <3>2 DEF Page!Review, Page!Lists
    <3>3. CASE UNCHANGED alert
      BY <3>3
    <3> QED
      BY <3>1, <3>2, <3>3
      DEF Page!Next, Page!vars, Page!dbVars, Page!Store, Page!Announce, Page!HandlerFails,
          Page!Join, Page!Drop, Page!Deliver,
         Page!Refresh, Page!Query, Page!ShowBundle, Page!BundleFails
  <2>5. \A p \in Payments : alert'[p] # "none" =>
           \/ Expected(p)' \/ p \in untold' \/ p \in raced'
           \/ p \in Page!Elements(shown') \/ Full(shown')
    BY <1>5, <1>7, <2>1, <2>3, <2>4
  <2>6. found' # None => OnceIn(found') /\ \A p \in Payments : alert'[p] # "none" =>
           p \in during' \/ p \in Page!Elements(found') \/ Full(found')
    <3>1. ASSUME NEW p \in Payments, Page!Raise(p), found' # None, NEW q \in Payments, alert'[q] # "none"
          PROVE  q \in during' \/ q \in Page!Elements(found') \/ Full(found')
      <4>1. found' = found /\ loading
        BY <1>1, <3>1 DEF Page!Raise, Page!pageVars, PageTypes
      <4>2. during' = during \cup {p}
        BY <3>1, <4>1 DEF Page!Raise, Page!Moves
      <4>3. q # p => alert[q] # "none"
        BY <1>1, <3>1 DEF Page!Raise, PageTypes
      <4> QED
        BY <1>5, <3>1, <4>1, <4>2, <4>3
    <3>2. CASE Page!Query
      <4>1. found' = Page!Result /\ alert' = alert
        BY <3>2 DEF Page!Query, Page!dbVars
      <4> QED
        BY <1>4, <4>1, ResultLists
    <3>3. ASSUME found' # None => found' = found /\ alert' = alert /\ during \subseteq during'
          PROVE  found' # None => OnceIn(found') /\ \A p \in Payments : alert'[p] # "none" =>
                    p \in during' \/ p \in Page!Elements(found') \/ Full(found')
      BY <1>5, <3>3
    <3>4. ASSUME NEW p \in Payments, Page!Raise(p)
          PROVE  found' # None => OnceIn(found')
      BY <1>5, <3>4 DEF Page!Raise, Page!pageVars
    <3>5. ASSUME NEW p \in Payments, Page!Review(p) PROVE FALSE
      BY <1>4, <3>5 DEF Page!Review, Page!Lists
    <3>6. ASSUME NEW p \in Payments, Page!Store(p) \/ Page!Announce(p) \/ Page!HandlerFails(p)
          PROVE  found' = found /\ alert' = alert /\ during \subseteq during'
      BY <3>6 DEF Page!Store, Page!Announce, Page!HandlerFails, Page!pageVars, Page!Moves
    <3>7. ASSUME Page!Join \/ Page!Drop \/ Page!Refresh \/ Page!BundleFails \/ UNCHANGED (Page!vars)
          PROVE  found' # None => found' = found /\ alert' = alert /\ during \subseteq during'
      BY <1>1, <3>7
      DEF Page!Join, Page!Drop, Page!Refresh, Page!BundleFails, Page!vars, Page!dbVars,
          Page!pageVars, Page!historyVars, PageTypes
    <3> QED
      BY <1>8, <3>1, <3>2, <3>3, <3>4, <3>5, <3>6, <3>7 DEF Page!Next
  <2> QED
    BY <1>5, <2>1, <2>5, <2>6
<1>9. CASE Page!Deliver
  <2> DEFINE h == Head(wire)
  <2>1. /\ wire # <<>> /\ wire' = Tail(wire)
        /\ UNCHANGED <<stage, alert, loading, found, untold, raced>> /\ during \subseteq during'
        /\ shown' = IF Relevant(h.kind) THEN Page!MergeUnique(shown, h.payment) ELSE shown
    BY <1>1, <1>4, <1>9, HandleIs DEF Page!Deliver, Page!dbVars, Page!Moves
  <2>2. h.payment \in Payments /\ Page!Elements(wire) = {h} \cup Page!Elements(wire')
    BY <2>1, NextEvent
  <2> HIDE DEF h
  <2>3. /\ OnceIn(shown') /\ (Full(shown) => Full(shown'))
        /\ Full(shown') \/ Page!Elements(shown) \subseteq Page!Elements(shown')
        /\ Relevant(h.kind) => Full(shown') \/ h.payment \in Page!Elements(shown')
    BY <1>4, <1>5, <2>1, <2>2, RowsMerge
  <2>4. \A p \in Payments : Expected(p) => Expected(p)' \/ (p = h.payment /\ Relevant(h.kind))
    BY <1>6, <1>7, <2>1, <2>2
  <2> QED
    BY <1>5, <2>1, <2>3, <2>4
<1>10. CASE Page!ShowBundle
  <2>1. /\ shown' = found /\ found # None /\ found' = None /\ raced' = during /\ alert' = alert
    BY <1>10 DEF Page!ShowBundle, Page!dbVars
  <2> QED
    BY <1>2, <1>5, <2>1
<1> QED
  BY <1>8, <1>9, <1>10

(* A handler's step keeps the account of every payment. *)
LEMMA AccountStays ==
  ASSUME PageInv, [Page!Next]_(Page!vars), ~Page!Deliver, ~Page!ShowBundle, part \in Page!Counters,
         NEW A \in SUBSET Payments, NEW B \in SUBSET Payments,
         NEW q \in Payments, Accounted(q, A, B)
  PROVE  Accounted(q, A, B)'
<1>1. status' = status /\ part' = part /\ PageTypes /\ DbAgrees
  BY PageStays DEF PageInv
<1>2. untold \subseteq untold' /\ raced' = raced
  BY ShownStays
<1>3. CountEvent(q)' = CountEvent(q) /\ CountEvent(q).payment = q
  BY <1>1 DEF CountEvent
<1>4. CountEvent(q) \in Page!Elements(wire) => CountEvent(q) \in Page!Elements(wire') \/ q \in untold'
  BY <1>3, WireStays
<1>5. ASSUME stage'[q] = stage[q], alert'[q] = alert[q],
             Due(q)' => Due(q), Due(q) => Due(q)' \/ q \in untold'
      PROVE  Accounted(q, A, B)'
  <2>1. (MayCount(q)' <=> MayCount(q)) /\ (CountsNow(q)' <=> CountsNow(q))
    BY <1>1, <1>5 DEF MayCount, CountsNow
  <2> QED
    BY <1>2, <1>5, <2>1 DEF Accounted
<1>6. ASSUME UNCHANGED <<stage, alert, wire>>
      PROVE  Accounted(q, A, B)'
  <2>1. Due(q)' <=> Due(q)
    BY <1>3, <1>6 DEF Due
  <2> QED
    BY <1>5, <1>6, <2>1
<1>7. ASSUME NEW p \in Payments, Page!Store(p) PROVE Accounted(q, A, B)'
  <2>1. /\ UNCHANGED <<alert, wire>> /\ stage[p] = "none"
        /\ stage'[p] = IF status[p] = "ALLOWED" THEN "done" ELSE "stored"
        /\ q # p => stage'[q] = stage[q]
    BY <1>1, <1>7 DEF Page!Store, Page!socketVars, PageTypes
  <2>2. CASE q # p
    <3>1. Due(q)' <=> Due(q)
      BY <1>3, <2>1, <2>2 DEF Due
    <3> QED
      BY <1>5, <2>1, <2>2, <3>1
  <2>3. CASE q = p
    <3>1. ~MayCount(q)
      BY <1>1, <2>1, <2>3 DEF MayCount, DbAgrees
    <3>2. q \notin A \cup B
      BY <3>1 DEF Accounted
    <3>3. CountsNow(q)' => Due(q)'
      BY <1>1, <2>1, <2>3 DEF CountsNow, MayCount, Due, DbAgrees
    <3>4. MayCount(q)' => CountsNow(q)'
      BY <1>1, <2>1, <2>3 DEF CountsNow, MayCount, DbAgrees
    <3> QED
      BY <3>2, <3>3, <3>4 DEF Accounted
  <2> QED
    BY <2>2, <2>3
<1>8. ASSUME NEW p \in Payments, Page!Raise(p) PROVE Accounted(q, A, B)'
  <2>1. /\ wire' = wire /\ stage[p] = "stored" /\ stage'[p] = "alerted" /\ alert'[p] = "open"
        /\ alert[p] = "none"
        /\ q # p => stage'[q] = stage[q] /\ alert'[q] = alert[q]
    BY <1>1, <1>8 DEF Page!Raise, Page!socketVars, PageTypes, DbAgrees
  <2>2. CASE q # p
    <3>1. Due(q)' <=> Due(q)
      BY <1>3, <2>1, <2>2 DEF Due
    <3> QED
      BY <1>5, <2>1, <2>2, <3>1
  <2>3. CASE q = p
    <3>1. Due(q) /\ Due(q)'
      BY <2>1, <2>3 DEF Due
    <3>2. /\ MayCount(q) => MayCount(q)'
          /\ MayCount(q)' => CountsNow(q)'
      BY <1>1, <2>1, <2>3 DEF CountsNow, MayCount
    <3> QED
      BY <1>2, <3>1, <3>2 DEF Accounted
  <2> QED
    BY <2>2, <2>3
<1>9. ASSUME NEW p \in Payments, Page!Announce(p) PROVE Accounted(q, A, B)'
  <2>1. /\ alert' = alert /\ stage[p] = "alerted" /\ stage'[p] = "done" /\ raced' = raced
        /\ q # p => stage'[q] = stage[q]
    BY <1>1, <1>9 DEF Page!Announce, PageTypes
  <2>2. CountEvent(q) \in Page!Elements(wire') => CountEvent(q) \in Page!Elements(wire) \/ q = p
    <3>1. Page!Events(p) \in Seq(Page!Event) /\ \A ev \in Page!Elements(Page!Events(p)) : ev.payment = p
      BY EventsOf, EventsAreOnce
    <3>2. wire \in Seq(Page!Event)
      BY <1>1 DEF PageTypes
    <3>3. Page!Elements(wire \o Page!Events(p)) = Page!Elements(wire) \cup Page!Elements(Page!Events(p))
      BY <3>1, <3>2, ElementsOfCat
    <3>4. wire' = wire \/ wire' = wire \o Page!Events(p)
      BY <1>9 DEF Page!Announce
    <3> QED
      BY <1>3, <3>1, <3>3, <3>4
  <2>3. CASE q # p
    <3>1. Due(q)' => Due(q)
      BY <1>3, <2>1, <2>2, <2>3 DEF Due
    <3>2. Due(q) => Due(q)' \/ q \in untold'
      BY <1>3, <1>4, <2>1, <2>3 DEF Due
    <3> QED
      BY <1>5, <2>1, <2>3, <3>1, <3>2
  <2>4. CASE q = p
    <3>1. Due(q)
      BY <2>1, <2>4 DEF Due
    <3>2. /\ (MayCount(q)' <=> MayCount(q)) /\ (CountsNow(q)' <=> CountsNow(q))
          /\ CountsNow(q) => MayCount(q)
      BY <1>1, <2>1, <2>4 DEF MayCount, CountsNow
    <3>3. MayCount(q) => Due(q)' \/ q \in untold'
      <4>1. CASE ~joined
        BY <1>9, <2>4, <4>1 DEF Page!Announce
      <4>2. CASE joined /\ MayCount(q)
        <5>1. CountEvent(q) \in Page!Elements(Page!Events(q))
          <6>1. part = "openAlerts" \/ (part = "blockedTransactions" /\ status[q] = "BLOCKED")
            BY <4>2 DEF MayCount, Page!Counters
          <6> QED
            BY <6>1, EventsAreOnce DEF CountEvent
        <5>2. wire' = wire \o Page!Events(q) /\ wire \in Seq(Page!Event) /\ Page!Events(q) \in Seq(Page!Event)
          BY <1>1, <1>9, <2>4, <4>2, EventsOf DEF Page!Announce, PageTypes
        <5>3. CountEvent(q) \in Page!Elements(wire')
          BY <5>1, <5>2, ElementsOfCat
        <5> QED
          BY <1>3, <5>3 DEF Due
      <4> QED
        BY <4>1, <4>2, <1>1 DEF PageTypes
    <3> QED
      BY <1>2, <3>1, <3>2, <3>3 DEF Accounted
  <2> QED
    BY <2>3, <2>4
<1>10. ASSUME NEW p \in Payments, Page!HandlerFails(p) PROVE Accounted(q, A, B)'
  <2>1. /\ UNCHANGED <<alert, wire>> /\ stage[p] \in {"stored", "alerted"} /\ stage'[p] = "done"
        /\ p \in untold'
        /\ q # p => stage'[q] = stage[q]
    BY <1>1, <1>10 DEF Page!HandlerFails, Page!socketVars, PageTypes
  <2>2. CASE q # p
    <3>1. Due(q)' <=> Due(q)
      BY <1>3, <2>1, <2>2 DEF Due
    <3> QED
      BY <1>5, <2>1, <2>2, <3>1
  <2>3. CASE q = p
    <3>1. (MayCount(q)' <=> MayCount(q)) /\ (Due(q)' => Due(q)) /\ Due(q)
      BY <1>1, <1>3, <2>1, <2>3 DEF MayCount, Due
    <3> QED
      BY <1>2, <2>1, <2>3, <3>1 DEF Accounted
  <2> QED
    BY <2>2, <2>3
<1>11. ASSUME NEW p \in Payments, Page!Review(p) PROVE Accounted(q, A, B)'
  <2>1. /\ UNCHANGED <<stage, wire>> /\ part = "openAlerts" /\ p \in untold'
        /\ alert[p] # "none" /\ alert'[p] # "none"
        /\ q # p => alert'[q] = alert[q]
    BY <1>1, <1>11 DEF Page!Review, Page!socketVars, PageTypes
  <2>2. Due(q)' <=> Due(q)
    BY <1>3, <2>1 DEF Due
  <2>3. CASE q # p
    BY <1>5, <2>1, <2>2, <2>3
  <2>4. CASE q = p
    <3>1. MayCount(q)' <=> MayCount(q)
      BY <1>1, <2>1, <2>4 DEF MayCount
    <3> QED
      BY <1>2, <2>1, <2>2, <2>4, <3>1 DEF Accounted
  <2> QED
    BY <2>3, <2>4
<1>12. CASE Page!Drop
  <2>1. UNCHANGED <<stage, alert>> /\ Page!Elements(wire') = {}
    BY <1>12 DEF Page!Drop, Page!dbVars, Page!Elements
  <2>2. (Due(q)' => Due(q)) /\ (Due(q) => Due(q)' \/ q \in untold')
    BY <1>3, <1>4, <2>1 DEF Due
  <2> QED
    BY <1>5, <2>1, <2>2
<1>13. CASE Page!Join \/ Page!Refresh \/ Page!Query \/ Page!BundleFails \/ UNCHANGED (Page!vars)
  <2>1. UNCHANGED <<stage, alert, wire>>
    BY <1>13
    DEF Page!Join, Page!Refresh, Page!Query, Page!BundleFails, Page!vars, Page!dbVars,
        Page!socketVars
  <2> QED
    BY <1>6, <2>1
<1> QED
  BY <1>7, <1>8, <1>9, <1>10, <1>11, <1>12, <1>13 DEF Page!Next

(* An event that is handled is counted on top, once.                       *)
LEMMA AccountOfEvent ==
  ASSUME PageInv, Page!Deliver, part \in Page!Counters,
         NEW A \in SUBSET Payments, NEW B \in SUBSET Payments, IsSum(shown, A, B),
         \A q \in Payments : Accounted(q, A, B)
  PROVE  \E C \in SUBSET Payments :
            IsSum(shown', A, C) /\ \A q \in Payments : Accounted(q, A, C)'
<1>0. PICK h : h = Head(wire)
  OBVIOUS
<1>1. /\ wire # <<>> /\ wire' = Tail(wire) /\ shown' = Page!Handle(h)
      /\ UNCHANGED <<status, stage, alert, part, untold, raced>>
  BY <1>0 DEF Page!Deliver, Page!dbVars
<1>2. /\ h \in Page!Event /\ h.payment \in Payments /\ h.kind \in Page!Kinds
      /\ Page!Elements(wire) = {h} \cup Page!Elements(wire') /\ h \notin Page!Elements(wire')
  BY <1>0, <1>1, NextEvent
<1>3. /\ stage[h.payment] = "done" /\ alert[h.payment] # "none"
      /\ h.kind = "blocked-transaction" => status[h.payment] = "BLOCKED"
  BY <1>2 DEF PageInv, WireIsOrdered
<1>4. \A q : /\ CountEvent(q)' = CountEvent(q) /\ CountEvent(q).payment = q
             /\ CountEvent(q).kind = IF part = "openAlerts" THEN "fraud-alert"
                                     ELSE "blocked-transaction"
  BY <1>1 DEF CountEvent
<1>5. \A q \in Payments : (MayCount(q)' <=> MayCount(q)) /\ (CountsNow(q)' <=> CountsNow(q))
  BY <1>1 DEF MayCount, CountsNow
<1>6. \A q \in Payments : Due(q)' <=> Due(q) /\ (CountEvent(q) = h => FALSE)
  <2> TAKE q \in Payments
  <2>1. CASE CountEvent(q) = h
    BY <1>1, <1>2, <1>3, <1>4, <2>1 DEF Due
  <2>2. CASE CountEvent(q) # h
    BY <1>1, <1>2, <1>4, <2>2 DEF Due
  <2> QED
    BY <2>1, <2>2
<1>7. CASE h = CountEvent(h.payment)
  <2>0. PICK p \in Payments : p = h.payment
    BY <1>2
  <2>1. p \in Payments /\ Due(p) /\ MayCount(p) /\ ~Due(p)'
    <3>1. h \in Page!Elements(wire)
      BY <1>2
    <3>2. MayCount(p)
      BY <1>2, <1>3, <1>4, <1>7, <2>0 DEF MayCount
    <3>3. CountEvent(p) = h
      BY <1>7, <2>0
    <3> QED
      BY <1>6, <3>1, <3>2, <3>3 DEF Due
  <2>2. p \notin B
    BY <2>1 DEF Accounted
  <2>6. PICK C \in SUBSET Payments : C = B \cup {p}
    BY <2>1
  <2>3. shown' = shown + 1
    BY <1>1, <1>4, <1>7, HandleIs DEF PageInv, Page!Counters
  <2>4. IsSum(shown', A, C)
    <3>1. IsFiniteSet(B) /\ IsFiniteSet(A) /\ shown = Cardinality(A) + Cardinality(B)
      BY DEF IsSum
    <3>2. IsFiniteSet(C) /\ Cardinality(C) = Cardinality(B) + 1
      BY <2>2, <2>6, <3>1, FS_AddElement
    <3>3. Cardinality(A) \in Nat /\ Cardinality(B) \in Nat
      BY <3>1, FS_CardinalityType
    <3> QED
      BY <2>3, <3>1, <3>2, <3>3 DEF IsSum
  <2>5. ASSUME NEW q \in Payments PROVE Accounted(q, A, C)'
    <3>1. Accounted(q, A, B)
      OBVIOUS
    <3>2. CASE q = p
      BY <1>1, <1>5, <2>1, <2>2, <2>6, <3>1, <3>2 DEF Accounted
    <3>3. CASE q # p
      <4>1. Due(q)' <=> Due(q)
        BY <1>4, <1>6, <2>0, <3>3
      <4> QED
        BY <1>1, <1>5, <2>6, <3>1, <3>3, <4>1 DEF Accounted
    <3> QED
      BY <3>2, <3>3
  <2> QED
    BY <2>4, <2>5
<1>8. CASE h # CountEvent(h.payment)
  <2>1. h.kind # (IF part = "openAlerts" THEN "fraud-alert" ELSE "blocked-transaction")
    BY <1>2, <1>8 DEF CountEvent, Page!Event
  <2>2. shown' = shown
    BY <1>1, <2>1, HandleIs DEF PageInv, Page!Counters
  <2>3. \A q \in Payments : Due(q)' <=> Due(q)
    BY <1>4, <1>6, <1>8
  <2>4. \A q \in Payments : Accounted(q, A, B)'
    BY <1>1, <1>5, <2>3 DEF Accounted
  <2> QED
    BY <2>2, <2>4
<1> QED
  BY <1>7, <1>8

(* What a query counted is what the page will have to account for.         *)
LEMMA ForeseenStays ==
  ASSUME PageInv, [Page!Next]_(Page!vars), part \in Page!Counters, loading, loading', found # None,
         NEW A \in SUBSET Payments, NEW q \in Payments, Foreseen(q, A)
  PROVE  Foreseen(q, A)'
<1>1. status' = status /\ part' = part /\ PageTypes /\ DbAgrees
  BY PageStays DEF PageInv
<1>2. ASSUME stage'[q] = stage[q], alert'[q] = alert[q], during \subseteq during'
      PROVE  Foreseen(q, A)'
  <2>1. (MayCount(q)' <=> MayCount(q)) /\ (CountsNow(q)' <=> CountsNow(q))
    BY <1>1, <1>2 DEF MayCount, CountsNow
  <2> QED
    BY <1>2, <2>1 DEF Foreseen
<1>3. ASSUME NEW p \in Payments,
             Page!Store(p) \/ Page!Raise(p) \/ Page!Announce(p) \/ Page!HandlerFails(p) \/ Page!Review(p)
      PROVE  Foreseen(q, A)'
  <2>1. during' = during \cup {p}
    BY <1>3 DEF Page!Store, Page!Raise, Page!Announce, Page!HandlerFails, Page!Review, Page!Moves
  <2>2. /\ q # p => stage'[q] = stage[q] /\ alert'[q] = alert[q]
        /\ stage[q] # "none" => stage'[q] # "none"
        /\ alert[q] # "none" => alert'[q] # "none"
    BY <1>1, <1>3
    DEF Page!Store, Page!Raise, Page!Announce, Page!HandlerFails, Page!Review, PageTypes
  <2>3. CASE q # p
    BY <1>2, <2>1, <2>2, <2>3
  <2>4. CASE q = p
    <3>1. (MayCount(q) => MayCount(q)') /\ q \in during'
      BY <1>1, <2>1, <2>2, <2>4 DEF MayCount
    <3> QED
      BY <3>1 DEF Foreseen
  <2> QED
    BY <2>3, <2>4
<1>4. CASE Page!Join \/ Page!Drop \/ Page!Deliver \/ Page!Query \/ UNCHANGED (Page!vars)
  <2>1. UNCHANGED <<stage, alert>> /\ during \subseteq during'
    BY <1>4
    DEF Page!Join, Page!Drop, Page!Deliver, Page!Query, Page!Moves, Page!vars, Page!dbVars,
        Page!historyVars
  <2> QED
    BY <1>2, <2>1
<1>5. CASE Page!Refresh \/ Page!ShowBundle \/ Page!BundleFails
  BY <1>5 DEF Page!Refresh, Page!ShowBundle, Page!BundleFails
<1> QED
  BY <1>3, <1>4, <1>5 DEF Page!Next

LEMMA CountStep ==
  ASSUME PageInv, [Page!Next]_(Page!vars)
  PROVE  CountInv'
<1>1. status' = status /\ part' = part /\ PageTypes
  BY PageStays DEF PageInv
<1>2. SUFFICES ASSUME part \in Page!Counters
               PROVE  /\ \E A, B \in SUBSET Payments :
                           IsSum(shown', A, B) /\ \A p \in Payments : Accounted(p, A, B)'
                      /\ found' # None =>
                           \E A \in SUBSET Payments :
                             IsSum(found', A, {}) /\ \A p \in Payments : Foreseen(p, A)'
  BY <1>1 DEF CountInv, IsSum
<1>3. PICK A, B \in SUBSET Payments :
        IsSum(shown, A, B) /\ \A p \in Payments : Accounted(p, A, B)
  BY <1>2 DEF PageInv, CountInv
<1>4. found # None =>
        \E D \in SUBSET Payments : IsSum(found, D, {}) /\ \A p \in Payments : Foreseen(p, D)
  BY <1>2 DEF PageInv, CountInv
<1>5. \E C, D \in SUBSET Payments :
        IsSum(shown', C, D) /\ \A p \in Payments : Accounted(p, C, D)'
  <2>1. CASE ~Page!Deliver /\ ~Page!ShowBundle
    <3>1. shown' = shown
      BY <2>1, ShownStays
    <3>2. \A p \in Payments : Accounted(p, A, B)'
      BY <1>2, <1>3, <2>1, AccountStays
    <3> QED
      BY <1>3, <3>1, <3>2
  <2>2. CASE Page!Deliver
    BY <1>2, <1>3, <2>2, AccountOfEvent
  <2>3. CASE Page!ShowBundle
    <3>1. /\ shown' = found /\ found # None /\ loading /\ raced' = during
          /\ UNCHANGED <<stage, alert, wire>>
      BY <2>3 DEF Page!ShowBundle, Page!dbVars, Page!socketVars
    <3>2. PICK D \in SUBSET Payments :
            IsSum(found, D, {}) /\ \A p \in Payments : Foreseen(p, D)
      BY <1>4, <3>1
    <3>3. ASSUME NEW p \in Payments PROVE Accounted(p, D, {})'
      <4>1. CountEvent(p)' = CountEvent(p) /\ CountEvent(p).payment = p
        BY <1>1 DEF CountEvent
      <4>2. Due(p)' => p \in during
        BY <3>1, <4>1 DEF Due, PageInv, DuringKnows
      <4>3. (MayCount(p)' <=> MayCount(p)) /\ (CountsNow(p)' <=> CountsNow(p))
        BY <1>1, <3>1 DEF MayCount, CountsNow
      <4> QED
        BY <3>1, <3>2, <4>2, <4>3 DEF Accounted, Foreseen
    <3> QED
      BY <3>1, <3>2, <3>3
  <2> QED
    BY <2>1, <2>2, <2>3
<1>6. ASSUME found' # None
      PROVE  \E D \in SUBSET Payments :
               IsSum(found', D, {}) /\ \A p \in Payments : Foreseen(p, D)'
  <2>1. CASE Page!Query
    <3>0. PICK D \in SUBSET Payments : D = {p \in Payments : CountsNow(p)}
      OBVIOUS
    <3>1. IsFiniteSet(D) /\ found' = Cardinality(D) /\ UNCHANGED <<stage, alert>>
      BY <1>2, <2>1, <3>0, ResultCounts DEF Page!Query, Page!dbVars
    <3>2. Cardinality(D) \in Nat /\ IsFiniteSet({}) /\ Cardinality({}) = 0
      BY <3>1, FS_CardinalityType, FS_EmptySet
    <3>3. \A p \in Payments : Foreseen(p, D)'
      <4> TAKE p \in Payments
      <4>1. (MayCount(p)' <=> MayCount(p)) /\ (CountsNow(p)' <=> CountsNow(p))
            /\ (CountsNow(p) => MayCount(p))
        BY <1>1, <3>1 DEF MayCount, CountsNow
      <4>2. p \in D <=> CountsNow(p)
        BY <3>0
      <4> QED
        BY <4>1, <4>2 DEF Foreseen
    <3>4. IsSum(found', D, {})
      BY <3>1, <3>2 DEF IsSum
    <3> QED
      BY <3>3, <3>4
  <2>2. CASE ~Page!Query
    <3>1. found' = found /\ loading /\ loading'
      BY <1>1, <1>6, <2>2
      DEF Page!Next, Page!vars, Page!pageVars, Page!Store, Page!Raise, Page!Announce,
          Page!HandlerFails, Page!Review, Page!Join,
         Page!Drop, Page!Deliver, Page!Refresh, Page!ShowBundle, Page!BundleFails, PageTypes
    <3>2. PICK D \in SUBSET Payments :
            IsSum(found, D, {}) /\ \A p \in Payments : Foreseen(p, D)
      BY <1>4, <1>6, <3>1
    <3>3. \A p \in Payments : Foreseen(p, D)'
      BY <1>2, <1>6, <3>1, <3>2, ForeseenStays
    <3> QED
      BY <3>1, <3>2, <3>3
  <2> QED
    BY <2>1, <2>2
<1> QED
  BY <1>5, <1>6

LEMMA PageInit == Page!Init => PageInv
<1> SUFFICES ASSUME Page!Init PROVE PageInv
  OBVIOUS
<1>1. limit \in Nat
  BY DeskAssumption DEF Page!Init
<1>2. <<>> \in Seq(Payments) /\ <<>> \in Seq(Page!Event) /\ Len(<<>>) = 0 /\ DOMAIN <<>> = {}
  OBVIOUS
<1>3. Fits(shown)
  BY <1>1, <1>2 DEF Page!Init, Fits, Page!Empty, Page!Counters, Page!Lists
<1>4. PageTypes
  <2>1. /\ stage \in [Payments -> {"none", "stored", "alerted", "done"}]
        /\ alert \in [Payments -> Page!AlertStatuses]
    BY DEF Page!Init, Page!AlertStatuses
  <2>2. /\ stored \in Seq(Payments) /\ raised \in Seq(Payments) /\ wire \in Seq(Page!Event)
    BY <1>2 DEF Page!Init
  <2>3. loading \in BOOLEAN /\ (loading => Page!InBundle) /\ (found # None => loading)
    BY DEF Page!Init, Page!InBundle
  <2> QED
    BY <1>3, <2>1, <2>2, <2>3 DEF Page!Init, PageTypes
<1>5. \A x : x \notin Page!Elements(<<>>)
  BY <1>2 DEF Page!Elements
<1>6. DbAgrees
  BY <1>2, <1>5 DEF Page!Init, DbAgrees, OnceIn
<1>7. WireIsOrdered /\ DuringKnows
  BY <1>2, <1>5 DEF Page!Init, WireIsOrdered, DuringKnows, OnceIn
<1>8. StreamInv
  BY <1>2, <1>5 DEF Page!Init, StreamInv, KeysDiffer, Page!Empty, Page!Counters
<1>9. RowsInv
  BY <1>2, <1>5 DEF Page!Init, RowsInv, OnceIn, Page!Empty, Page!Counters, Page!Lists
<1>10. CountInv
  <2>1. IsSum(0, {}, {})
    BY FS_EmptySet DEF IsSum
  <2>2. \A p \in Payments : ~Due(p) /\ ~MayCount(p) /\ ~CountsNow(p)
    BY <1>5 DEF Page!Init, Due, MayCount, CountsNow
  <2>3. \A p \in Payments : Accounted(p, {}, {})
    BY <2>2 DEF Accounted
  <2>4. found = None /\ (part \in Page!Counters => shown = 0)
    BY DEF Page!Init, Page!Empty
  <2> QED
    BY <2>1, <2>3, <2>4 DEF CountInv
<1> QED
  BY <1>4, <1>6, <1>7, <1>8, <1>9, <1>10 DEF PageInv

LEMMA PageStep == PageInv /\ [Page!Next]_(Page!vars) => PageInv'
BY PageTypesStep, DbStep, WireStep, DuringStep, StreamStep, RowsStep, CountStep DEF PageInv

-----------------------------------------------------------------------------
(* What the invariant says. *)

LEMMA PageTyped == PageInv => Page!TypeOK
<1> SUFFICES ASSUME PageInv PROVE Page!TypeOK
  OBVIOUS
<1>1. PageTypes /\ limit \in Nat
  BY LimitIsNat DEF PageInv
<1>2. ASSUME NEW S, NEW s \in Seq(S), Len(s) <= limit PROVE s \in Page!ListsOf(S)
  <2>1. Len(s) \in 0 .. limit /\ s \in [1 .. Len(s) -> S]
    BY <1>1, <1>2
  <2> QED
    BY <2>1 DEF Page!ListsOf
<1>3. \A v : Fits(v) => v \in Page!Value
  <2> TAKE v
  <2>1. CASE part \in Page!Counters
    <3>1. part \notin Page!Lists
      BY <2>1 DEF Page!Counters, Page!Lists
    <3> QED
      BY <2>1, <3>1 DEF Fits, Page!Value
  <2>2. CASE part \in Page!Lists
    <3>1. part \notin Page!Counters
      BY <2>2 DEF Page!Counters, Page!Lists
    <3> QED
      BY <1>2, <2>2, <3>1 DEF Fits, Page!Value
  <2>3. CASE part = "liveEvents"
    <3>1. part \notin Page!Counters /\ part \notin Page!Lists
      BY <2>3 DEF Page!Counters, Page!Lists
    <3> QED
      BY <1>2, <2>3, <3>1 DEF Fits, Page!Value
  <2> QED
    BY <1>1, <2>1, <2>2, <2>3, PartIsOne
<1>4. /\ Page!Elements(stored) \subseteq Payments /\ Page!Elements(raised) \subseteq Payments
      /\ Page!Elements(wire) \subseteq Page!Event
  BY <1>1, ElementsOfSeq DEF PageTypes
<1> QED
  BY <1>1, <1>3, <1>4 DEF PageTypes, Page!TypeOK

LEMMA NotUnderWay ==
  ASSUME PageInv, NEW p \in Payments, p \notin Page!UnderWay
  PROVE  stage[p] \notin {"stored", "alerted"} /\ \A ev \in Page!Elements(wire) : ev.payment # p
BY OnWireIs DEF PageInv, Page!UnderWay

LEMMA RowsAreOnce == PageInv => Page!SuspicionIsShownOnce
<1> SUFFICES ASSUME PageInv, part \in Page!Lists PROVE Page!SuspicionIsShownOnce
  BY DEF Page!SuspicionIsShownOnce
<1>1. shown \in Seq(Payments) /\ OnceIn(shown)
  BY DEF PageInv, PageTypes, Fits, RowsInv
<1>2. ASSUME NEW p
      PROVE  Page!Times(shown, p) = IF p \in Page!Elements(shown) THEN 1 ELSE 0
  <2>1. CASE p \in Page!Elements(shown)
    <3>1. PICK i \in DOMAIN shown : shown[i] = p
      BY <2>1 DEF Page!Elements
    <3>2. {j \in DOMAIN shown : shown[j] = p} = {i}
      BY <1>1, <3>1 DEF OnceIn
    <3> QED
      BY <2>1, <3>2, FS_Singleton, PageCounts DEF Page!Times
  <2>2. CASE p \notin Page!Elements(shown)
    <3>1. {j \in DOMAIN shown : shown[j] = p} = {}
      BY <2>2 DEF Page!Elements
    <3> QED
      BY <2>2, <3>1, FS_EmptySet, PageCounts DEF Page!Times
  <2> QED
    BY <2>1, <2>2
<1>3. ASSUME NEW p \in Page!Elements(raised), p \notin Page!UnderWay, Page!Told(p)
      PROVE  p \in Page!Elements(shown) \/ Len(shown) = limit
  <2>1. p \in Payments /\ alert[p] # "none"
    BY AlertedIs
  <2>2. ~Expected(p)
    BY <1>3, <2>1, NotUnderWay DEF Expected
  <2> QED
    BY <1>3, <2>1, <2>2 DEF PageInv, RowsInv, Page!Told, Full
<1> QED
  BY <1>2, <1>3 DEF Page!SuspicionIsShownOnce

LEMMA StreamSays == PageInv => Page!BlockedIsSaid
<1> SUFFICES ASSUME PageInv, part = "liveEvents", NEW i \in DOMAIN shown,
                    shown[i].kind = "suspicious-transaction", status[shown[i].payment] = "BLOCKED"
             PROVE  shown[i].payment \in Page!UnderWay \cup untold
  BY DEF Page!BlockedIsSaid
<1>1. shown[i] \in Page!Elements(shown)
  BY DEF Page!Elements
<1>2. shown[i].payment \in untold \/ BlockedEvent(shown[i].payment) \in Page!Elements(wire)
  BY <1>1 DEF PageInv, StreamInv
<1>3. BlockedEvent(shown[i].payment).payment = shown[i].payment
  BY DEF BlockedEvent
<1> QED
  BY <1>2, <1>3, OnWireIs DEF PageInv, Page!UnderWay

(* When nothing is under way, all there is to count was counted. *)
LEMMA SumsAreBounded ==
  ASSUME NEW A, NEW B, NEW n, IsSum(n, A, B), NEW X, NEW Y, NEW Z,
         IsFiniteSet(X), IsFiniteSet(Y),
         A \cup B \subseteq X, A \cap B \subseteq Y, Z \subseteq A \cup B
  PROVE  n >= Cardinality(Z) /\ n <= Cardinality(X) + Cardinality(Y)
<1> DEFINE U == A \cup B
           I == A \cap B
<1>1. IsFiniteSet(A) /\ IsFiniteSet(B) /\ n = Cardinality(A) + Cardinality(B)
  BY DEF IsSum
<1>2. IsFiniteSet(U) /\ Cardinality(U) = Cardinality(A) + Cardinality(B) - Cardinality(I)
  BY <1>1, FS_Union
<1>3. Z \in SUBSET U /\ U \in SUBSET X /\ I \in SUBSET Y /\ I \in SUBSET A
  OBVIOUS
<1>4. Cardinality(A) \in Nat /\ Cardinality(B) \in Nat /\ Cardinality(X) \in Nat
      /\ Cardinality(Y) \in Nat
  BY <1>1, FS_CardinalityType
<1>5. IsFiniteSet(Z) /\ Cardinality(Z) <= Cardinality(U) /\ IsFiniteSet(I)
  BY <1>1, <1>2, <1>3, FS_Subset
<1>6. Cardinality(U) <= Cardinality(X)
  BY <1>3, FS_Subset
<1>7. Cardinality(I) <= Cardinality(Y)
  BY <1>3, FS_Subset
<1>8. Cardinality(Z) \in Nat /\ Cardinality(U) \in Nat /\ Cardinality(I) \in Nat
  BY <1>2, <1>5, FS_CardinalityType
<1> HIDE DEF U, I
<1> QED
  BY <1>1, <1>2, <1>4, <1>5, <1>6, <1>7, <1>8

LEMMA CountsAreClose == PageInv => Page!CountersDriftOnlyByRaces
<1> SUFFICES ASSUME PageInv, Page!UnderWay = {}, part \in Page!Counters
             PROVE Page!CountersDriftOnlyByRaces
  BY DEF Page!CountersDriftOnlyByRaces, Page!Counters
<1>1. PICK A, B \in SUBSET Payments :
        IsSum(shown, A, B) /\ \A p \in Payments : Accounted(p, A, B)
  BY DEF PageInv, CountInv
<1>2. \A p \in Payments : ~Due(p)
  <2> TAKE p \in Payments
  <2>1. CountEvent(p).payment = p
    BY DEF CountEvent
  <2> QED
    BY <2>1, NotUnderWay DEF Due
<1>3. \A p \in Payments : CountsNow(p) /\ Page!Told(p) => p \in A \cup B
  BY <1>1, <1>2 DEF Accounted, Page!Told
<1>4. /\ \A p \in A \cup B : MayCount(p) /\ (CountsNow(p) \/ ~Page!Told(p))
      /\ \A p \in A \cap B : MayCount(p) /\ p \in raced
  BY <1>1 DEF Accounted, Page!Told
<1>5. CASE part = "blockedTransactions"
  <2>1. IsFiniteSet(Page!Blocked) /\ Page!Blocked = {p \in Payments : CountsNow(p)}
        /\ Page!Blocked = {p \in Payments : MayCount(p)}
    BY <1>5, BlockedIs DEF CountsNow, MayCount
  <2>2. IsFiniteSet(Page!Blocked \cap raced)
    BY <2>1, FS_Subset
  <2>3. /\ A \cup B \subseteq Page!Blocked /\ A \cap B \subseteq Page!Blocked \cap raced
        /\ {p \in Page!Blocked : Page!Told(p)} \subseteq A \cup B
    BY <1>3, <1>4, <2>1
  <2> QED
    BY <1>1, <1>5, <2>1, <2>2, <2>3, SumsAreBounded, PageCounts DEF Page!CountersDriftOnlyByRaces
<1>6. CASE part = "openAlerts"
  <2> DEFINE X == {p \in Payments : alert[p] # "none" /\ (p \in Page!Open \/ ~Page!Told(p))}
             Y == {p \in raced : alert[p] # "none"}
             Z == {p \in Page!Open : Page!Told(p)}
  <2>1. raced \subseteq Payments /\ IsFiniteSet(Page!Elements(raised))
        /\ Page!Elements(raised) = {p \in Payments : alert[p] # "none"}
    BY AlertedIs DEF PageInv, PageTypes
  <2>2. X \in SUBSET Page!Elements(raised) /\ Y \in SUBSET Page!Elements(raised)
    BY <2>1
  <2>3. IsFiniteSet(X) /\ IsFiniteSet(Y)
    BY <2>1, <2>2, FS_Subset
  <2>4. \A p \in Payments :
          (MayCount(p) <=> alert[p] # "none") /\ (CountsNow(p) <=> p \in Page!Open)
    BY <1>6 DEF MayCount, CountsNow, Page!Open
  <2>5. A \cup B \subseteq X /\ A \cap B \subseteq Y /\ Z \subseteq A \cup B
    BY <1>3, <1>4, <2>4 DEF Page!Open
  <2>6. shown >= Cardinality(Z) /\ shown <= Cardinality(X) + Cardinality(Y)
    <3> HIDE DEF X, Y, Z
    <3> QED
      BY <1>1, <2>3, <2>5, SumsAreBounded
  <2> QED
    BY <1>6, <2>6, PageCounts DEF Page!CountersDriftOnlyByRaces
<1> QED
  BY <1>5, <1>6 DEF Page!Counters

LEMMA PageHolds == Page!Spec => []PageInv
BY PageInit, PageStep, PTL DEF Page!Spec

-----------------------------------------------------------------------------
(* useDashboardData, useFraudSocket: however events and bundles interleave *)
(* and connections break, no payment has two rows and none the page was    *)
(* told of is missing, for any payments and any limit.                     *)
THEOREM RowsAreRight == Page!Spec => []Page!SuspicionIsShownOnce
BY PageHolds, RowsAreOnce, PTL

(* The counters, incremented by events and replaced by bundles, are off by *)
(* no more than what was not told and what raced.                          *)
THEOREM CountersAreClose == Page!Spec => []Page!CountersDriftOnlyByRaces
BY PageHolds, CountsAreClose, PTL

(* socketService, mergeUnique: the stream never leaves a blocked payment   *)
(* marked as merely suspicious unless its events broke off.                *)
THEOREM StreamIsRight == Page!Spec => []Page!BlockedIsSaid
BY PageHolds, StreamSays, PTL

(* The page and what feeds it keep their types. *)
THEOREM PageTypesHold == Page!Spec => []Page!TypeOK
BY PageHolds, PageTyped, PTL

-----------------------------------------------------------------------------
(* The four ends side by side. *)

LEMMA VerdictIsOfDesk == DeskSpec => Spec
<1>1. DeskInit => Init
  BY DEF DeskInit
<1>2. [DeskNext]_deskVars => [Next]_vars
  BY DEF DeskNext, deskVars, OnVerdict, OnRecord, OnVault, OnPage
<1> QED
  BY <1>1, <1>2, PTL DEF DeskSpec, Spec

LEMMA RecordIsOfDesk == DeskSpec => Kept!Spec
<1>1. DeskInit => Kept!Init
  BY DEF DeskInit
<1>2. [DeskNext]_deskVars => [Kept!Next]_(Kept!vars)
  BY DEF DeskNext, deskVars, OnVerdict, OnRecord, OnVault, OnPage,
         Kept!Next, Kept!vars, recordVars
<1> QED
  BY <1>1, <1>2, PTL DEF DeskSpec, Kept!Spec

LEMMA VaultIsOfDesk == DeskSpec => Vault!Spec
<1>1. DeskInit => Vault!Init
  BY DEF DeskInit
<1>2. [DeskNext]_deskVars => [Vault!Next]_(Vault!vars)
  BY DEF DeskNext, deskVars, OnVerdict, OnRecord, OnVault, OnPage,
         Vault!Next, Vault!vars, vaultVars, Vault!configVars
<1> QED
  BY <1>1, <1>2, PTL DEF DeskSpec, Vault!Spec

LEMMA PageIsOfDesk == DeskSpec => Page!Spec
<1>1. DeskInit => Page!Init
  BY DEF DeskInit
<1>2. [DeskNext]_deskVars => [Page!Next]_(Page!vars)
  BY DEF DeskNext, deskVars, OnVerdict, OnRecord, OnVault, OnPage,
         Page!Next, Page!vars, Page!dbVars, Page!socketVars, Page!pageVars, Page!historyVars,
         feedVars
<1> QED
  BY <1>1, <1>2, PTL DEF DeskSpec, Page!Spec

-----------------------------------------------------------------------------
(* record_inference: whatever the other ends do, the online store knows    *)
(* the latest record of every customer that was recorded since it was last *)
(* damaged.                                                                *)
THEOREM DeskKnowsTheLatest == DeskSpec => []OnlineIsLatest
<1>1. Kept!OnlineIsLatest => OnlineIsLatest
  BY DEF OnlineIsLatest
<1> QED
  BY <1>1, RecordIsOfDesk, NoUpdateIsLost, PTL

(* _append_jsonl, _read_jsonl: a write that breaks off costs the desk one  *)
(* other record at most.                                                   *)
THEOREM DeskKeepsRecords == DeskSpec => []RecordsAreKept
<1>1. Kept!RecordsAreKept => RecordsAreKept
  BY DEF RecordsAreKept
<1> QED
  BY <1>1, RecordIsOfDesk, OneBreakOneRecord, PTL

(* encryptedFieldsPlugin, keyManager: what the desk stored encrypted can   *)
(* be read and found.                                                      *)
THEOREM DeskReadsFields == DeskSpec => []FieldsStayReadable
<1>1. Vault!FieldsStayReadable => FieldsStayReadable
  BY DEF FieldsStayReadable
<1> QED
  BY <1>1, VaultIsOfDesk, FieldsCanBeRead, PTL

(* useDashboardData, useFraudSocket: in the desk, no payment has two rows  *)
(* and none the page was told of is missing.                               *)
THEOREM DeskShowsOnce == DeskSpec => []SuspicionIsShownOnce
<1>1. Page!SuspicionIsShownOnce => SuspicionIsShownOnce
  BY DEF SuspicionIsShownOnce
<1> QED
  BY <1>1, PageIsOfDesk, RowsAreRight, PTL

(* The counters of the page are wrong only by what was not told and what   *)
(* raced with a bundle.                                                    *)
THEOREM DeskCountsRight == DeskSpec => []CountersDriftOnlyByRaces
<1>1. Page!CountersDriftOnlyByRaces => CountersDriftOnlyByRaces
  BY DEF CountersDriftOnlyByRaces
<1> QED
  BY <1>1, PageIsOfDesk, CountersAreClose, PTL

(* The stream of the page does not leave a blocked payment as merely       *)
(* suspicious.                                                             *)
THEOREM DeskSaysBlocked == DeskSpec => []BlockedIsSaid
<1>1. Page!BlockedIsSaid => BlockedIsSaid
  BY DEF BlockedIsSaid
<1> QED
  BY <1>1, PageIsOfDesk, StreamIsRight, PTL

(* All ends of the desk keep their types. *)
THEOREM DeskTypes == DeskSpec => []DeskTypeOK
<1>1. TypeOK /\ Kept!TypeOK /\ Vault!TypeOK /\ Page!TypeOK => DeskTypeOK
  BY DEF DeskTypeOK
<1> QED
  BY <1>1, VerdictIsOfDesk, RecordIsOfDesk, VaultIsOfDesk, PageIsOfDesk,
     VerdictTypes, RecordTypes, VaultTypes, PageTypesHold, PTL
=============================================================================
