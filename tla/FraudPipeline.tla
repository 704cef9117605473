---------------------------- MODULE FraudPipeline ----------------------------
(***************************************************************************)
(* POST /api/transactions/process: the fraud engine and createTransaction, *)
(* for several payments in flight at one time, and the administrator who   *)
(* works on the alerts.                                                    *)
(*                                                                         *)
(* A payment is located, scored from three unsynchronised reads of the     *)
(* earlier payments of its identity (same user, device or address), sent   *)
(* to the AI service, stored, and, when it is suspicious, alerted.  The    *)
(* reads see only what is stored, so payments in flight do not see each    *)
(* other, and nothing ties the transaction to its alert.                   *)
(***************************************************************************)
EXTENDS RiskRules, Sequences, FiniteSets, FiniteSetsExt

CONSTANTS
  User, Device, Address,   \* the three parts of an identity
  Private,                 \* addresses that are not looked up
  Place,                   \* places, any two of them more than 800 km apart
  PlaceOf,                 \* where the lookup service finds each address
  Origin,                  \* latitude 0, longitude 0
  Claims,                  \* what the client may say of its location, None if nothing
  Amounts, Nights,         \* amounts, and whether the hour may be late
  IpRisks,                 \* what a lookup may say of an address
  Answers,                 \* what the AI service may answer
  AiAttempts,              \* AI_REQUEST_RETRY_ATTEMPTS
  AlertStatus,             \* statuses an administrator may set
  Slot,                    \* payments being served at one time
  VelocityWindow,          \* VELOCITY_WINDOW_MINUTES, in ticks
  FailureWindow,           \* FAILURE_WINDOW_MINUTES, in ticks
  MaxTxns, MaxTime,        \* bounds on the payments stored and on the clock
  AllowFailure             \* whether database calls fail and the process dies

ASSUME ParameterAssumption ==
  /\ Private \subseteq Address /\ PlaceOf \in [Address -> Place] /\ None \notin Place
  /\ Claims \subseteq Place \cup {None} /\ Nights \subseteq BOOLEAN /\ AllowFailure \in BOOLEAN
  /\ Amounts \subseteq Nat \ {0} /\ IpRisks \subseteq Nat
  /\ Answers \subseteq Answer \cup {None}
  /\ AiAttempts \in Nat \ {0}
  /\ AlertStatus \subseteq {"OPEN", "REVIEWING", "RESOLVED", "DISMISSED"}
  /\ IsFiniteSet(Slot)
  /\ VelocityWindow \in Nat /\ FailureWindow \in Nat
  /\ MaxTxns \in Nat /\ MaxTime \in Nat

VARIABLES
  txns,       \* the Transaction collection, in order of timestamp
  alerts,     \* the FraudAlert collection: status by transaction
  request,    \* what each slot is doing, with its local values
  now,        \* the clock
  abandoned   \* history: transactions whose request broke off before the alert

vars == <<txns, alerts, request, now, abandoned>>

Read == {"velocity", "last", "failures"}

(* What is stored of a payment, and what the verdict rested on. *)
TransactionDoc ==
  [user : User, device : Device, address : Address, place : Place \cup {Origin},
   at : 0 .. MaxTime, status : Status, ai : Level \cup {None}, why : SUBSET Reason,
   asked : 0 .. MaxTime,                \* history: when the request came,
   seen : 0 .. MaxTxns,                 \* how many payments were stored by then,
   located : BOOLEAN]                   \* and whether a lookup gave its place

RequestState ==
  [at       : {"idle", "locate", "read", "ask", "create", "alert", "answer"},
   user     : User \cup {None},
   device   : Device \cup {None},
   address  : Address \cup {None},
   claim    : Place \cup {None},        \* req.body.location, until it is located
   place    : Place \cup {Origin},      \* geoLocation
   evidence : Evidence,
   reads    : SUBSET Read,              \* still to be resolved by Promise.all
   tries    : 0 .. AiAttempts,          \* attempts at the AI service
   ai       : Level \cup {None},        \* aiRiskLevel
   level    : Level,                    \* finalDecision
   why      : SUBSET Reason,            \* reasons
   txn      : 0 .. MaxTxns,             \* the document created
   asked    : 0 .. MaxTime,
   seen     : 0 .. MaxTxns,
   located  : BOOLEAN]

NoEvidence == [amount |-> 0, velocity |-> 0, failures |-> 0, newDevice |-> FALSE,
               travel |-> FALSE, ipRisk |-> 0, night |-> FALSE]
Idle == [at |-> "idle", user |-> None, device |-> None, address |-> None, claim |-> None,
         place |-> Origin, evidence |-> NoEvidence, reads |-> {}, tries |-> 0,
         ai |-> None, level |-> "LOW_RISK", why |-> {}, txn |-> 0, asked |-> 0,
         seen |-> 0, located |-> FALSE]

TypeOK ==
  /\ Len(txns) <= MaxTxns
  /\ \A i \in DOMAIN txns :
       /\ txns[i] \in TransactionDoc
       /\ \A j \in 1 .. i : txns[j].at <= txns[i].at
       /\ txns[i].asked <= txns[i].at /\ txns[i].seen < i
  /\ DOMAIN alerts \subseteq DOMAIN txns
  /\ abandoned \subseteq DOMAIN txns
  /\ \A s \in Slot : request[s] \in RequestState
  /\ now \in 0 .. MaxTime

Init ==
  /\ txns = <<>>
  /\ alerts = <<>>
  /\ request = [s \in Slot |-> Idle]
  /\ now = 0
  /\ abandoned = {}

-----------------------------------------------------------------------------
(* Helpers. *)

(* buildIdentityQuery *)
SameIdentity(x, y) == x.user = y.user \/ x.device = y.device \/ x.address = y.address

(* The payments of the identity of r stored in the last `window` ticks. *)
Recent(r, window) ==
  {i \in DOMAIN txns : SameIdentity(txns[i], r) /\ txns[i].at + window >= now}

(* calculateVelocity *)
VelocityCount(r) == Cardinality(Recent(r, VelocityWindow))

(* Variant for mutation: failures are counted without looking at the status. *)
FailureCountAny(r) == Cardinality(Recent(r, FailureWindow))

(* calculateRecentFailures *)
FailureCount(r) ==
  Cardinality({i \in Recent(r, FailureWindow) : Suspicious(txns[i].status)})

(* getLastKnownTransaction: 0 when there is none. *)
LastKnown(r) == Max({0} \cup {i \in DOMAIN txns : SameIdentity(txns[i], r)})

(* normalizeGeoLocation: coordinates that are not there become 0, 0.       *)
Normalized(place) == IF place = None THEN Origin ELSE place

-----------------------------------------------------------------------------
(* fraudEngine. *)

(* The location in the body is optional, and whatever the client says.     *)
Arrive(s, u, d, addr, claim, amount, night) ==
  /\ request[s] = Idle
  /\ Len(txns) + Cardinality({q \in Slot : request[q].at \notin {"idle", "alert", "answer"}})
       < MaxTxns
  /\ request' = [request EXCEPT ![s] =
       [Idle EXCEPT !.at = "locate", !.user = u, !.device = d, !.address = addr,
                    !.claim = claim, !.asked = now, !.seen = Len(txns),
                    !.evidence = [NoEvidence EXCEPT !.amount = amount, !.night = night]]]
  /\ UNCHANGED <<txns, alerts, now, abandoned>>

Located(s, place, located, ipRisk) ==
  /\ request[s].at = "locate"
  /\ request' = [request EXCEPT ![s].at = "read", ![s].reads = Read,
                                ![s].place = Normalized(place), ![s].located = located,
                                ![s].claim = None, ![s].evidence.ipRisk = ipRisk]
  /\ UNCHANGED <<txns, alerts, now, abandoned>>

(* Variant for mutation: what the client says goes before what is found.   *)
LookUpIfUnsaid(s, coordinates, ipRisk) ==
  /\ request[s].address \notin Private
  /\ Located(s, IF request[s].claim # None THEN request[s].claim
                ELSE IF coordinates THEN PlaceOf[request[s].address] ELSE None,
             coordinates, ipRisk)

(* fetchIPLocation found the address, but perhaps without its coordinates. *)
LookUp(s, coordinates, ipRisk) ==
  /\ request[s].address \notin Private
  /\ Located(s, IF coordinates THEN PlaceOf[request[s].address] ELSE None, coordinates, ipRisk)

(* It is private (ipRisk 5), or the lookup failed (35): the client's word. *)
KeepClaim(s) ==
  Located(s, request[s].claim, FALSE, IF request[s].address \in Private THEN 5 ELSE 35)

(* The three reads of calculateRuleRisk, in any order. *)
ReadVelocity(s) ==
  /\ "velocity" \in request[s].reads
  /\ request' = [request EXCEPT ![s].reads = @ \ {"velocity"},
                                ![s].evidence.velocity = VelocityCount(request[s])]
  /\ UNCHANGED <<txns, alerts, now, abandoned>>

ReadLast(s) ==
  LET r == request[s]
      last == LastKnown(r)
  IN
  /\ "last" \in r.reads
  /\ request' = [request EXCEPT ![s].reads = @ \ {"last"},
       ![s].evidence.newDevice = last # 0 /\ txns[last].device # r.device,
       ![s].evidence.travel = last # 0 /\ txns[last].place # r.place]
  /\ UNCHANGED <<txns, alerts, now, abandoned>>

ReadFailures(s) ==
  /\ "failures" \in request[s].reads
  /\ request' = [request EXCEPT ![s].reads = @ \ {"failures"},
                                ![s].evidence.failures = FailureCount(request[s])]
  /\ UNCHANGED <<txns, alerts, now, abandoned>>

(* Promise.all resolves, and getFraudPrediction starts its attempts. *)
Score(s) ==
  /\ request[s].at = "read" /\ request[s].reads = {}
  /\ request' = [request EXCEPT ![s].at = "ask"]
  /\ UNCHANGED <<txns, alerts, now, abandoned>>

Decide(s, p) ==
  /\ request[s].at = "ask"
  /\ request' = [request EXCEPT ![s].at = "create", ![s].tries = 0,
       ![s].ai = IF p = None THEN None ELSE p.level,
       ![s].level = FinalLevel(request[s].evidence, p),
       ![s].why = ReportedReasons(request[s].evidence, p)]
  /\ UNCHANGED <<txns, alerts, now, abandoned>>

(* Variant for mutation: the count of attempts starts again. *)
AiFailsForever(s) ==
  /\ request[s].at = "ask"
  /\ request' = [request EXCEPT ![s].tries = (@ + 1) % AiAttempts]
  /\ UNCHANGED <<txns, alerts, now, abandoned>>

(* An attempt timed out, was cut off or met a 5xx: try again, or give up.  *)
AiFails(s) ==
  \/ /\ request[s].at = "ask" /\ request[s].tries + 1 < AiAttempts
     /\ request' = [request EXCEPT ![s].tries = @ + 1]
     /\ UNCHANGED <<txns, alerts, now, abandoned>>
  \/ request[s].tries + 1 = AiAttempts /\ Decide(s, None)

(* A 4xx ends the attempts at once; an answer without numbers is no answer. *)
AiAnswers(s) ==
  \E a \in Answers : Decide(s, IF a = None THEN None ELSE Prediction(a))

-----------------------------------------------------------------------------
(* createTransaction. *)

(* Variant for mutation: only a blocked payment gets an alert. *)
AlertNeededIfBlocked(r) == r.level = "HIGH_RISK"

AlertNeeded(r) == Suspicious(StatusFromLevel(r.level))

(* Transaction.create *)
Create(s) ==
  LET r == request[s] IN
  /\ r.at = "create"
  /\ txns' = Append(txns,
       [user |-> r.user, device |-> r.device, address |-> r.address, place |-> r.place,
        at |-> now, status |-> StatusFromLevel(r.level), ai |-> r.ai, why |-> r.why,
        asked |-> r.asked, seen |-> r.seen, located |-> r.located])
  /\ request' = [request EXCEPT ![s] =
       [Idle EXCEPT !.at = IF AlertNeeded(r) THEN "alert" ELSE "answer",
                    !.txn = Len(txns) + 1]]
  /\ UNCHANGED <<alerts, now, abandoned>>

(* FraudAlert.create *)
CreateAlert(s) ==
  /\ request[s].at = "alert"
  /\ alerts' = [i \in DOMAIN alerts \cup {request[s].txn} |->
                  IF i = request[s].txn THEN "OPEN" ELSE alerts[i]]
  /\ request' = [request EXCEPT ![s].at = "answer"]
  /\ UNCHANGED <<txns, now, abandoned>>

(* The alert is populated, the events are emitted, and 201 is answered. *)
Respond(s) ==
  /\ request[s].at = "answer"
  /\ request' = [request EXCEPT ![s] = Idle]
  /\ UNCHANGED <<txns, alerts, now, abandoned>>

(* The requests of S end here; what they wrote stays. *)
BreakOff(S) ==
  /\ request' = [s \in Slot |-> IF s \in S THEN Idle ELSE request[s]]
  /\ abandoned' = abandoned \cup {request[s].txn : s \in {q \in S : request[q].at = "alert"}}
  /\ UNCHANGED <<txns, alerts, now>>

(* A database call fails: 500, and what was written before it stays.  The  *)
(* only call left for an alerted payment is the one that populates it.     *)
Fail(s) ==
  /\ AllowFailure
  /\ \/ request[s].at \in {"read", "create", "alert"}
     \/ request[s].at = "answer" /\ request[s].txn \in DOMAIN alerts
  /\ BreakOff({s})

-----------------------------------------------------------------------------
(* updateAlertStatus: any status may follow any other. *)
UpdateAlertStatus(i, status) ==
  /\ i \in DOMAIN alerts
  /\ alerts' = [alerts EXCEPT ![i] = status]
  /\ UNCHANGED <<txns, request, now, abandoned>>

Tick ==
  /\ now < MaxTime
  /\ now' = now + 1
  /\ UNCHANGED <<txns, alerts, request, abandoned>>

Crash ==
  /\ AllowFailure
  /\ BreakOff(Slot)

Serve(s) ==
  \/ \E coordinates \in BOOLEAN, x \in IpRisks : LookUp(s, coordinates, x)
  \/ KeepClaim(s)
  \/ ReadVelocity(s) \/ ReadLast(s) \/ ReadFailures(s) \/ Score(s)
  \/ AiFails(s) \/ AiAnswers(s)
  \/ Create(s) \/ CreateAlert(s) \/ Respond(s)

Next ==
  \/ \E s \in Slot, u \in User, d \in Device, addr \in Address, claim \in Claims,
        amount \in Amounts, night \in Nights :
       Arrive(s, u, d, addr, claim, amount, night)
  \/ \E s \in Slot : Serve(s) \/ Fail(s)
  \/ \E i \in DOMAIN alerts, status \in AlertStatus : UpdateAlertStatus(i, status)
  \/ Tick
  \/ Crash

Spec == Init /\ [][Next]_vars

(* Every awaited call resolves or rejects: the AI calls have a timeout and *)
(* a bounded number of attempts.                                           *)
FairSpec == Spec /\ \A s \in Slot : WF_vars(Serve(s))

-----------------------------------------------------------------------------
(* Properties. *)

(* However the payments of one user, device or address overlap, those      *)
(* allowed within one velocity window are the VELOCITY_FLAG_COUNT that     *)
(* need no other sign, and at most one more for each further payment that  *)
(* can be in flight.                                                       *)
BurstIsBounded ==
  \A i \in DOMAIN txns, part \in {"user", "device", "address"} :
    Cardinality({j \in i .. Len(txns) :
                   /\ txns[j][part] = txns[i][part] /\ txns[j].status = "ALLOWED"
                   /\ txns[j].at <= txns[i].at + VelocityWindow}) <= 2 + Cardinality(Slot)

(* A payment is allowed only if the AI service answered LOW_RISK and fewer *)
(* than VELOCITY_FLAG_COUNT payments of its identity, stored before it was *)
(* asked for, were still in the window when it was stored.                 *)
AllowedIsVouched ==
  \A i \in DOMAIN txns :
    txns[i].status = "ALLOWED" =>
      /\ txns[i].ai = "LOW_RISK"
      /\ Cardinality({j \in DOMAIN txns :
           /\ txns[j].at < txns[i].asked /\ txns[j].at + VelocityWindow >= txns[i].at
           /\ SameIdentity(txns[j], txns[i])}) < 3

(* Repetition alone blocks a payment only after three suspicious payments  *)
(* of the same identity within the failure window: honest ones, however    *)
(* many, never do.                                                         *)
BlockIsEarned ==
  \A i \in DOMAIN txns :
    /\ txns[i].status = "BLOCKED" /\ txns[i].ai # "HIGH_RISK"
    /\ txns[i].why \subseteq {"velocity", "repeatedFailures"}
    => Cardinality({j \in 1 .. i - 1 :
         /\ SameIdentity(txns[j], txns[i]) /\ Suspicious(txns[j].status)
         /\ txns[j].at + FailureWindow >= txns[i].asked}) >= 3

(* The payments that were the latest of its identity at some moment while  *)
(* payment i was served; 0 if for a moment there was none.                 *)
Latest(i) ==
  {j \in 0 .. i - 1 : /\ j # 0 => SameIdentity(txns[j], txns[i])
                      /\ \A k \in j + 1 .. txns[i].seen : ~SameIdentity(txns[k], txns[i])}

(* However payments overlap, the two signs that compare a payment with an  *)
(* earlier one are given exactly when they hold of one payment that was    *)
(* the latest of the identity while it was served; and where both places   *)
(* were looked up, travel means addresses that do lie apart: otherwise it  *)
(* rests on a client's word, or on coordinates missing and taken for 0, 0. *)
LastPaymentDecides ==
  \A i \in DOMAIN txns : \E j \in Latest(i) :
    /\ "deviceMismatch" \in txns[i].why <=> j # 0 /\ txns[j].device # txns[i].device
    /\ "impossibleTravel" \in txns[i].why <=> j # 0 /\ txns[j].place # txns[i].place
    /\ "impossibleTravel" \in txns[i].why /\ txns[i].located /\ txns[j].located
         => PlaceOf[txns[j].address] # PlaceOf[txns[i].address]

(* Every payment gets an answer although the AI service may never answer.  *)
RequestsEnd == \A s \in Slot : request[s].at # "idle" ~> request[s].at = "idle"

(* Every suspicious payment gets its alert, unless the very request that   *)
(* stored it breaks off before: no other payment's failure costs an alert. *)
SuspicionIsAlerted ==
  \A i \in 1 .. MaxTxns :
    (i \in DOMAIN txns /\ Suspicious(txns[i].status))
      ~> (i \in DOMAIN alerts \cup abandoned)
=============================================================================
