------------------------- MODULE FraudPipelineProofs -------------------------
(***************************************************************************)
(* Proofs about FraudPipeline, for any number of payments in flight, any   *)
(* windows and any collection of earlier payments.                         *)
(*                                                                         *)
(* Every action is first told field by field (XDoes, and the lemma XEffect *)
(* that the action does it); the invariants are then kept by every XDoes:  *)
(*   Typed        types, and room in the collection for what is in flight; *)
(*   Grounded     what a request has read of the earlier payments is true  *)
(*                of them until its own payment is stored;                 *)
(*   Vouched, Earned   the verdict stored with a payment rests on it;      *)
(*   BurstInv     payments allowed in a window and payments in flight that *)
(*                may still be allowed share the same room;                *)
(*   SignsInv     the signs of a stored payment are those of the payment   *)
(*                it was compared with, and a place is where it was found.    *)
(***************************************************************************)
EXTENDS FraudPipeline, FiniteSetTheorems, TLAPS

(* The largest element of a finite set of numbers is one of them. *)
LEMMA MaxIsThere ==
  ASSUME NEW n \in Nat, NEW S \in SUBSET (0 .. n), S # {}
  PROVE  Max(S) \in S /\ \A y \in S : Max(S) >= y
<1> DEFINE T == {x .. n : x \in S}
           R == StrictSubsetOrdering(0 .. n)
<1>1. IsWellFoundedOn(R, FiniteSubsetsOf(0 .. n))
  BY FS_StrictSubsetOrderingWellFounded
<1>2. FiniteSubsetsOf(0 .. n) = SUBSET (0 .. n)
  <2>1. 0 \in Int /\ n \in Int
    OBVIOUS
  <2>2. IsFiniteSet(0 .. n)
    BY <2>1, FS_Interval
  <2> QED
    BY <2>2, FS_FiniteSubsetsOfFinite
<1>3. T \subseteq SUBSET (0 .. n) /\ T # {}
  <2>1. \A x \in S : (x .. n) \subseteq 0 .. n
    OBVIOUS
  <2> QED
    BY <2>1
<1>4. PICK U \in T : \A V \in T : ~(<<V, U>> \in R)
  <2> HIDE DEF T, R
  <2> QED
    BY ZenonT(30), <1>1, <1>2, <1>3, WFMin
<1>5. PICK x \in S : U = x .. n
  OBVIOUS
<1>6. \A y \in S : x >= y
  <2> SUFFICES ASSUME NEW y \in S, y > x PROVE FALSE
    OBVIOUS
  <2>1. (y .. n) \in T /\ (y .. n) \subseteq (x .. n) /\ (y .. n) # (x .. n)
    OBVIOUS
  <2>2. <<y .. n, x .. n>> \in R
    BY <2>1 DEF StrictSubsetOrdering
  <2> QED
    BY <1>4, <1>5, <2>1, <2>2
<1> QED
  BY <1>6 DEF Max

-----------------------------------------------------------------------------
(* The type invariant, and the actions told field by field. *)

(* Payments that are not stored yet take up room. *)
Pending == {q \in Slot : request[q].at \notin {"idle", "alert", "answer"}}

(* A request between its arrival and Transaction.create. *)
Paying(r) == r.at \in {"locate", "read", "ask", "create"}

RequestSound(r) ==
  /\ r \in RequestState
  /\ Paying(r) => r.user \in User /\ r.device \in Device /\ r.address \in Address /\ r.asked <= now
                 /\ r.seen <= Len(txns)
  /\ r.at \in {"alert", "answer"} => r.txn \in DOMAIN txns
  /\ r.reads # {} => r.at = "read"

Documents ==
  /\ txns \in Seq(TransactionDoc)
  /\ \A i \in DOMAIN txns :
       /\ \A j \in 1 .. i : txns[j].at <= txns[i].at
       /\ txns[i].asked <= txns[i].at /\ txns[i].at <= now /\ txns[i].seen < i
  /\ DOMAIN alerts \subseteq DOMAIN txns
  /\ abandoned \subseteq DOMAIN txns
  /\ now \in 0 .. MaxTime

Typed ==
  /\ Documents
  /\ request \in [Slot -> RequestState]
  /\ \A s \in Slot : RequestSound(request[s])
  /\ Len(txns) + Cardinality(Pending) <= MaxTxns

-----------------------------------------------------------------------------
OthersStay(s) == \A q \in Slot : q # s => request'[q] = request[q]

(* The same payment, and what it has learnt so far. *)
SamePayment(s) ==
  /\ request'[s].user = request[s].user /\ request'[s].device = request[s].device
  /\ request'[s].address = request[s].address /\ request'[s].seen = request[s].seen
  /\ request'[s].asked = request[s].asked /\ request'[s].txn = request[s].txn
  /\ request'[s].level = request[s].level /\ request'[s].why = request[s].why
  /\ request'[s].ai = request[s].ai

SameEvidence(s) ==
  /\ request'[s].place = request[s].place /\ request'[s].evidence = request[s].evidence
  /\ request'[s].reads = request[s].reads /\ request'[s].located = request[s].located

LEMMA PendingIsFinite ==
  IsFiniteSet(Pending) /\ Cardinality(Pending) \in Nat
<1>1. Pending \in SUBSET Slot
  BY DEF Pending
<1> QED
  BY <1>1, ParameterAssumption, FS_Subset, FS_CardinalityType

LEMMA IdleIsState ==
  /\ Idle \in RequestState /\ NoEvidence \in Evidence
  /\ Idle.at = "idle" /\ Idle.reads = {} /\ Idle.txn = 0
BY ParameterAssumption DEF Idle, RequestState, NoEvidence, Evidence, Read, Level, Reason

ArriveDoes(s, u, d, addr, claim, amount, night) ==
  /\ request[s].at = "idle"
  /\ Len(txns) + Cardinality(Pending) < MaxTxns
  /\ request' \in [Slot -> RequestState] /\ OthersStay(s)
  /\ request'[s].at = "locate" /\ request'[s].user = u /\ request'[s].device = d
  /\ request'[s].address = addr /\ request'[s].seen = Len(txns) /\ request'[s].asked = now
  /\ request'[s].reads = {}
  /\ UNCHANGED <<txns, alerts, now, abandoned>>

LEMMA ArriveEffect ==
  ASSUME Typed, NEW s \in Slot, NEW u \in User, NEW d \in Device, NEW addr \in Address,
         NEW claim \in Claims, NEW amount \in Amounts, NEW night \in Nights,
         Arrive(s, u, d, addr, claim, amount, night)
  PROVE  ArriveDoes(s, u, d, addr, claim, amount, night)
<1> DEFINE e == [NoEvidence EXCEPT !.amount = amount, !.night = night]
           r == [Idle EXCEPT !.at = "locate", !.user = u, !.device = d, !.address = addr,
                             !.claim = claim, !.asked = now, !.seen = Len(txns),
                             !.evidence = e]
<1>1. e \in Evidence
  BY ParameterAssumption DEF NoEvidence, Evidence
<1>2. now \in 0 .. MaxTime /\ claim \in Place \cup {None} /\ Len(txns) \in 0 .. MaxTxns
  <2>1. Len(txns) \in Nat /\ Cardinality(Pending) \in Nat /\ Len(txns) + Cardinality(Pending) <= MaxTxns
    BY PendingIsFinite DEF Typed, Documents
  <2> QED
    BY <2>1, ParameterAssumption DEF Typed, Documents
<1> HIDE DEF e
<1>3. r \in RequestState /\ r.at = "locate" /\ r.user = u /\ r.device = d /\ r.address = addr
      /\ r.seen = Len(txns) /\ r.asked = now /\ r.reads = {} /\ r.evidence = e
  <2> DEFINE x == [Idle EXCEPT !.at = "locate", !.user = u, !.device = d, !.address = addr]
             y == [x EXCEPT !.claim = claim, !.asked = now, !.seen = Len(txns)]
  <2>1. x \in RequestState /\ x.at = "locate" /\ x.user = u /\ x.device = d /\ x.address = addr
        /\ x.reads = {}
    BY ZenonT(30), IdleIsState DEF RequestState
  <2>2. r = [y EXCEPT !.evidence = e]
    BY IdleIsState DEF RequestState
  <2> HIDE DEF x
  <2>3. y \in RequestState /\ y.at = "locate" /\ y.user = u /\ y.device = d /\ y.address = addr
        /\ y.reads = {} /\ y.seen = Len(txns) /\ y.asked = now
    BY <1>2, <2>1 DEF RequestState
  <2> HIDE DEF y, r
  <2> QED
    BY <1>1, <2>2, <2>3 DEF RequestState
<1>4. request' = [request EXCEPT ![s] = r] /\ request[s] = Idle
      /\ UNCHANGED <<txns, alerts, now, abandoned>>
  BY DEF Arrive, e
<1>5. Len(txns) + Cardinality(Pending) < MaxTxns
  BY DEF Arrive, Pending
<1> HIDE DEF r
<1> QED
  BY <1>1, <1>3, <1>4, <1>5, IdleIsState DEF Typed, OthersStay, ArriveDoes

LocateDoes(s) ==
  /\ request[s].at = "locate"
  /\ request' \in [Slot -> RequestState] /\ OthersStay(s) /\ SamePayment(s)
  /\ request'[s].at = "read" /\ request'[s].reads = Read
  /\ request'[s].located => request'[s].place = PlaceOf[request[s].address]
  /\ UNCHANGED <<txns, alerts, now, abandoned>>

LEMMA LocatedEffect ==
  ASSUME Typed, NEW s \in Slot, NEW place \in Place \cup {None}, NEW located \in BOOLEAN,
         NEW ipRisk \in Nat, located => place = PlaceOf[request[s].address] /\ place # None,
         Located(s, place, located, ipRisk)
  PROVE  LocateDoes(s)
<1> DEFINE e == [request[s].evidence EXCEPT !.ipRisk = ipRisk]
           p == Normalized(place)
           r == [request[s] EXCEPT !.at = "read", !.reads = Read, !.place = p, !.located = located,
                                   !.claim = None, !.evidence = e]
<1>1. request[s] \in RequestState /\ request[s].evidence \in Evidence
  BY DEF Typed, RequestState
<1>2. e \in Evidence
  BY <1>1 DEF Evidence
<1>3. p \in Place \cup {Origin} /\ (located => p = PlaceOf[request[s].address])
  BY DEF Normalized
<1>4. request[s].at = "locate" /\ UNCHANGED <<txns, alerts, now, abandoned>>
      /\ request' = [request EXCEPT ![s].at = "read", ![s].reads = Read, ![s].place = p,
                                    ![s].located = located, ![s].claim = None,
                                    ![s].evidence.ipRisk = ipRisk]
  BY DEF Located
<1> HIDE DEF p
<1>5. request' = [request EXCEPT ![s] = r]
  BY <1>1, <1>4 DEF RequestState
<1> HIDE DEF e
<1>6. r \in RequestState /\ r.at = "read" /\ r.reads = Read /\ r.place = p /\ r.located = located
      /\ r.user = request[s].user /\ r.device = request[s].device /\ r.address = request[s].address
      /\ r.seen = request[s].seen /\ r.asked = request[s].asked /\ r.txn = request[s].txn
      /\ r.level = request[s].level /\ r.why = request[s].why /\ r.ai = request[s].ai
  <2> DEFINE x == [request[s] EXCEPT !.at = "read", !.reads = Read, !.evidence = e]
  <2>1. x \in RequestState /\ x.at = "read" /\ x.reads = Read
        /\ x.user = request[s].user /\ x.device = request[s].device /\ x.address = request[s].address
        /\ x.seen = request[s].seen /\ x.asked = request[s].asked /\ x.txn = request[s].txn
        /\ x.level = request[s].level /\ x.why = request[s].why /\ x.ai = request[s].ai
    BY <1>1, <1>2 DEF RequestState
  <2>2. r = [x EXCEPT !.place = p, !.located = located, !.claim = None]
    BY <1>1 DEF RequestState
  <2> HIDE DEF x, r
  <2> QED
    BY ZenonT(30), <1>3, <2>1, <2>2 DEF RequestState
<1> HIDE DEF r
<1>7. request' \in [Slot -> RequestState] /\ OthersStay(s) /\ request'[s] = r
  BY <1>5, <1>6 DEF Typed, OthersStay
<1>8. SamePayment(s)
  BY <1>6, <1>7 DEF SamePayment
<1> QED
  BY <1>3, <1>4, <1>6, <1>7, <1>8 DEF LocateDoes

LEMMA LocateEffect ==
  ASSUME Typed, NEW s \in Slot,
         (\E coordinates \in BOOLEAN, x \in IpRisks : LookUp(s, coordinates, x)) \/ KeepClaim(s)
  PROVE  LocateDoes(s)
<1>1. ASSUME request[s].at = "locate" PROVE request[s].address \in Address
  BY <1>1 DEF Typed, RequestSound, Paying
<1>2. ASSUME NEW coordinates \in BOOLEAN, NEW x \in IpRisks, LookUp(s, coordinates, x)
      PROVE  LocateDoes(s)
  <2> DEFINE place == IF coordinates THEN PlaceOf[request[s].address] ELSE None
  <2>1. Located(s, place, coordinates, x) /\ x \in Nat
    BY <1>2, ParameterAssumption DEF LookUp
  <2>2. request[s].address \in Address
    BY <1>1, <2>1 DEF Located
  <2>3. PlaceOf[request[s].address] \in Place /\ None \notin Place
    BY <2>2, ParameterAssumption
  <2>4. place \in Place \cup {None}
        /\ (coordinates => place = PlaceOf[request[s].address] /\ place # None)
    BY <2>3
  <2> HIDE DEF place
  <2> QED
    BY <2>1, <2>4, LocatedEffect
<1>3. CASE KeepClaim(s)
  <2> DEFINE ipRisk == IF request[s].address \in Private THEN 5 ELSE 35
  <2>1. request[s].claim \in Place \cup {None}
    BY DEF Typed, RequestState
  <2>2. Located(s, request[s].claim, FALSE, ipRisk) /\ ipRisk \in Nat
    BY <1>3 DEF KeepClaim
  <2> HIDE DEF ipRisk
  <2> QED
    BY <2>1, <2>2, LocatedEffect
<1> QED
  BY <1>2, <1>3

(* A read of the earlier payments: some of the evidence, and what is left. *)
ReadDoes(s, which) ==
  /\ which \in request[s].reads
  /\ request' \in [Slot -> RequestState] /\ OthersStay(s) /\ SamePayment(s)
  /\ request'[s].at = request[s].at /\ request'[s].place = request[s].place
  /\ request'[s].located = request[s].located
  /\ request'[s].reads = request[s].reads \ {which}
  /\ UNCHANGED <<txns, alerts, now, abandoned>>

ReadVelocityDoes(s) ==
  /\ ReadDoes(s, "velocity")
  /\ request'[s].evidence.velocity = VelocityCount(request[s])
  /\ request'[s].evidence.failures = request[s].evidence.failures
  /\ request'[s].evidence.travel = request[s].evidence.travel
  /\ request'[s].evidence.newDevice = request[s].evidence.newDevice

ReadFailuresDoes(s) ==
  /\ ReadDoes(s, "failures")
  /\ request'[s].evidence.failures = FailureCount(request[s])
  /\ request'[s].evidence.velocity = request[s].evidence.velocity
  /\ request'[s].evidence.travel = request[s].evidence.travel
  /\ request'[s].evidence.newDevice = request[s].evidence.newDevice

(* Of the first n of the payments ts, those that were the latest of the    *)
(* identity of x at some moment since x came; 0 if there was none.         *)
LatestOf(ts, x, n) ==
  {j \in 0 .. n : /\ j # 0 => SameIdentity(ts[j], x)
                  /\ \A k \in j + 1 .. x.seen : ~SameIdentity(ts[k], x)}

ReadLastDoes(s) ==
  /\ ReadDoes(s, "last")
  /\ request'[s].evidence.failures = request[s].evidence.failures
  /\ request'[s].evidence.velocity = request[s].evidence.velocity
  /\ \E j \in LatestOf(txns, request[s], Len(txns)) :
       /\ request'[s].evidence.newDevice <=> j # 0 /\ txns[j].device # request[s].device
       /\ request'[s].evidence.travel <=> j # 0 /\ txns[j].place # request[s].place

LEMMA RecentIsFinite ==
  ASSUME Typed, NEW r, NEW window
  PROVE  /\ Recent(r, window) \subseteq 1 .. Len(txns)
         /\ IsFiniteSet(Recent(r, window)) /\ Cardinality(Recent(r, window)) \in Nat
<1>1. Len(txns) \in Nat /\ DOMAIN txns = 1 .. Len(txns)
  BY DEF Typed, Documents
<1>2. Recent(r, window) \in SUBSET (1 .. Len(txns))
  BY <1>1 DEF Recent
<1>3. IsFiniteSet(1 .. Len(txns))
  BY <1>1, FS_Interval
<1> QED
  BY <1>2, <1>3, FS_Subset, FS_CardinalityType

LEMMA CountsAreNatural ==
  ASSUME Typed, NEW r
  PROVE  VelocityCount(r) \in Nat /\ FailureCount(r) \in Nat
<1>1. {i \in Recent(r, FailureWindow) : Suspicious(txns[i].status)} \in SUBSET Recent(r, FailureWindow)
  OBVIOUS
<1> QED
  BY <1>1, RecentIsFinite, FS_Subset, FS_CardinalityType DEF VelocityCount, FailureCount

(* LastKnown is the latest payment of the identity, if there is any. *)
LEMMA LastIsLatest ==
  ASSUME Typed, NEW r, r.seen \in Nat, r.seen <= Len(txns)
  PROVE  LastKnown(r) \in LatestOf(txns, r, Len(txns))
<1> DEFINE S == {0} \cup {i \in DOMAIN txns : SameIdentity(txns[i], r)}
<1>1. Len(txns) \in Nat /\ DOMAIN txns = 1 .. Len(txns)
  BY DEF Typed, Documents
<1>2. S \in SUBSET (0 .. Len(txns)) /\ S # {}
  BY <1>1
<1>3. Max(S) \in S /\ \A y \in S : Max(S) >= y
  <2> HIDE DEF S
  <2> QED
    BY <1>1, <1>2, MaxIsThere
<1> DEFINE j == Max(S)
<1>4. j \in 0 .. Len(txns) /\ (j # 0 => SameIdentity(txns[j], r))
  BY <1>1, <1>3
<1>5. \A k \in j + 1 .. r.seen : ~SameIdentity(txns[k], r)
  <2> SUFFICES ASSUME NEW k \in j + 1 .. r.seen, SameIdentity(txns[k], r) PROVE FALSE
    OBVIOUS
  <2>1. k \in DOMAIN txns /\ k > j
    <3> HIDE DEF j
    <3> QED
      BY <1>1, <1>4
  <2>2. k \in S
    BY <2>1
  <2> QED
    BY <1>3, <1>4, <2>1, <2>2
<1>6. LastKnown(r) = j
  BY DEF LastKnown
<1> HIDE DEF j
<1> QED
  BY <1>4, <1>5, <1>6 DEF LatestOf

LEMMA ReadShape ==
  ASSUME Typed, NEW s \in Slot, NEW which \in Read, NEW e \in Evidence,
         which \in request[s].reads,
         request' = [request EXCEPT ![s] = [request[s] EXCEPT !.reads = request[s].reads \ {which},
                                                              !.evidence = e]],
         UNCHANGED <<txns, alerts, now, abandoned>>
  PROVE  ReadDoes(s, which) /\ request'[s].evidence = e
<1> DEFINE r == [request[s] EXCEPT !.reads = request[s].reads \ {which}, !.evidence = e]
<1>1. request[s] \in RequestState
  BY DEF Typed
<1>2. r \in RequestState /\ r.at = request[s].at /\ r.reads = request[s].reads \ {which}
      /\ r.place = request[s].place /\ r.located = request[s].located /\ r.evidence = e
      /\ r.user = request[s].user /\ r.device = request[s].device /\ r.address = request[s].address
      /\ r.seen = request[s].seen /\ r.asked = request[s].asked /\ r.txn = request[s].txn
      /\ r.level = request[s].level /\ r.why = request[s].why /\ r.ai = request[s].ai
  BY <1>1 DEF RequestState
<1>3. request' = [request EXCEPT ![s] = r]
  OBVIOUS
<1> HIDE DEF r
<1> QED
  BY <1>2, <1>3 DEF Typed, OthersStay, SamePayment, ReadDoes

LEMMA ReadVelocityEffect ==
  ASSUME Typed, NEW s \in Slot, ReadVelocity(s)
  PROVE  ReadVelocityDoes(s)
<1> DEFINE e == [request[s].evidence EXCEPT !.velocity = VelocityCount(request[s])]
<1>1. request[s] \in RequestState /\ request[s].evidence \in Evidence
  BY DEF Typed, RequestState
<1>2. e \in Evidence /\ e.velocity = VelocityCount(request[s])
      /\ e.failures = request[s].evidence.failures /\ e.travel = request[s].evidence.travel
      /\ e.newDevice = request[s].evidence.newDevice
  BY <1>1, CountsAreNatural DEF Evidence
<1>3. request' = [request EXCEPT ![s] = [request[s] EXCEPT
                    !.reads = request[s].reads \ {"velocity"}, !.evidence = e]]
      /\ "velocity" \in request[s].reads /\ UNCHANGED <<txns, alerts, now, abandoned>>
  BY <1>1 DEF ReadVelocity, RequestState
<1>4. "velocity" \in Read
  BY DEF Read
<1> HIDE DEF e
<1>5. ReadDoes(s, "velocity") /\ request'[s].evidence = e
  BY <1>2, <1>3, <1>4, ReadShape
<1> QED
  BY <1>2, <1>5 DEF ReadVelocityDoes

LEMMA ReadFailuresEffect ==
  ASSUME Typed, NEW s \in Slot, ReadFailures(s)
  PROVE  ReadFailuresDoes(s)
<1> DEFINE e == [request[s].evidence EXCEPT !.failures = FailureCount(request[s])]
<1>1. request[s] \in RequestState /\ request[s].evidence \in Evidence
  BY DEF Typed, RequestState
<1>2. e \in Evidence /\ e.failures = FailureCount(request[s])
      /\ e.velocity = request[s].evidence.velocity /\ e.travel = request[s].evidence.travel
      /\ e.newDevice = request[s].evidence.newDevice
  BY <1>1, CountsAreNatural DEF Evidence
<1>3. request' = [request EXCEPT ![s] = [request[s] EXCEPT
                    !.reads = request[s].reads \ {"failures"}, !.evidence = e]]
      /\ "failures" \in request[s].reads /\ UNCHANGED <<txns, alerts, now, abandoned>>
  BY <1>1 DEF ReadFailures, RequestState
<1>4. "failures" \in Read
  BY DEF Read
<1> HIDE DEF e
<1>5. ReadDoes(s, "failures") /\ request'[s].evidence = e
  BY <1>2, <1>3, <1>4, ReadShape
<1> QED
  BY <1>2, <1>5 DEF ReadFailuresDoes

LEMMA ReadLastEffect ==
  ASSUME Typed, NEW s \in Slot, ReadLast(s)
  PROVE  ReadLastDoes(s)
<1> DEFINE last == LastKnown(request[s])
           new == last # 0 /\ txns[last].device # request[s].device
           far == last # 0 /\ txns[last].place # request[s].place
           e == [request[s].evidence EXCEPT !.newDevice = new, !.travel = far]
<1>1. request[s] \in RequestState /\ request[s].evidence \in Evidence
  BY DEF Typed, RequestState
<1>2. e \in Evidence /\ e.failures = request[s].evidence.failures
      /\ e.velocity = request[s].evidence.velocity /\ e.travel = far /\ e.newDevice = new
  <2>1. new \in BOOLEAN /\ far \in BOOLEAN
    OBVIOUS
  <2> HIDE DEF new, far
  <2> QED
    BY <1>1, <2>1 DEF Evidence
<1>3. request' = [request EXCEPT ![s] = [request[s] EXCEPT
                    !.reads = request[s].reads \ {"last"}, !.evidence = e]]
      /\ "last" \in request[s].reads /\ UNCHANGED <<txns, alerts, now, abandoned>>
  <2>1. request' = [request EXCEPT ![s].reads = @ \ {"last"},
              ![s].evidence.newDevice = new, ![s].evidence.travel = far]
        /\ "last" \in request[s].reads /\ UNCHANGED <<txns, alerts, now, abandoned>>
    BY DEF ReadLast
  <2> HIDE DEF last, new, far
  <2> QED
    BY ZenonT(30), <1>1, <2>1 DEF RequestState, Evidence
<1>4. "last" \in Read
  BY DEF Read
<1>5. last \in LatestOf(txns, request[s], Len(txns))
  <2>1. request[s].at = "read" /\ RequestSound(request[s])
    BY <1>3 DEF Typed, RequestSound
  <2>2. request[s].seen \in Nat /\ request[s].seen <= Len(txns)
    BY <1>1, <2>1, ParameterAssumption DEF RequestSound, Paying, RequestState
  <2> QED
    BY <2>2, LastIsLatest
<1> HIDE DEF e, last
<1>6. ReadDoes(s, "last") /\ request'[s].evidence = e
  BY <1>2, <1>3, <1>4, ReadShape
<1> QED
  BY <1>2, <1>5, <1>6 DEF ReadLastDoes

(* The same request, at another point of the way. *)
Moves(s, at) ==
  /\ request' \in [Slot -> RequestState] /\ OthersStay(s) /\ SamePayment(s) /\ SameEvidence(s)
  /\ request'[s].at = at
  /\ UNCHANGED <<txns, now, abandoned>>

LEMMA MovesEffect ==
  ASSUME Typed, NEW s \in Slot, NEW at \in {"read", "ask", "answer", "alert"},
         request' = [request EXCEPT ![s].at = at], UNCHANGED <<txns, now, abandoned>>
  PROVE  Moves(s, at)
<1> DEFINE r == [request[s] EXCEPT !.at = at]
<1>1. request[s] \in RequestState
  BY DEF Typed
<1>2. r \in RequestState /\ r.at = at /\ r.reads = request[s].reads
      /\ r.place = request[s].place /\ r.evidence = request[s].evidence /\ r.located = request[s].located
      /\ r.user = request[s].user /\ r.device = request[s].device /\ r.address = request[s].address
      /\ r.seen = request[s].seen /\ r.asked = request[s].asked /\ r.txn = request[s].txn
      /\ r.level = request[s].level /\ r.why = request[s].why /\ r.ai = request[s].ai
  BY <1>1 DEF RequestState
<1>3. request' = [request EXCEPT ![s] = r]
  OBVIOUS
<1> HIDE DEF r
<1> QED
  BY <1>2, <1>3 DEF Typed, OthersStay, SamePayment, SameEvidence, Moves

ScoreDoes(s) ==
  /\ request[s].at = "read" /\ request[s].reads = {}
  /\ Moves(s, "ask") /\ alerts' = alerts

LEMMA ScoreEffect ==
  ASSUME Typed, NEW s \in Slot, Score(s)
  PROVE  ScoreDoes(s)
BY MovesEffect DEF Score, ScoreDoes

(* What an answer of the AI service, or its absence, may be. *)
Predictions == Reading \cup {None}

LEMMA PredictionIsReading ==
  ASSUME NEW a \in Answer
  PROVE  Prediction(a) \in Predictions
<1>1. a.decision \in Action \cup Level \cup {None} /\ a.level \in Level \cup {None}
      /\ a.probability \in (0 .. 100) \cup {None} /\ a.score \in (0 .. 100) \cup {None}
  BY DEF Answer
<1>2. RawLevel(a) \in Level \cup {None}
  BY <1>1 DEF RawLevel
<1>3. ActionOf(a) \in Action
  BY <1>2 DEF ActionOf, ActionFromLevel, Action
<1>4. LevelOf(a) \in Level
  BY <1>2 DEF LevelOf, LevelFromAction, Level
<1> QED
  BY <1>1, <1>3, <1>4 DEF Prediction, Predictions, Reading

LEMMA VerdictIsTyped ==
  ASSUME NEW e \in Evidence, NEW p \in Predictions
  PROVE  /\ FinalLevel(e, p) \in Level
         /\ ReportedReasons(e, p) \in SUBSET Reason
         /\ (IF p = None THEN None ELSE p.level) \in Level \cup {None}
<1>1. FinalLevel(e, p) \in Level
  BY DEF FinalLevel, Level
<1>2. ReportedReasons(e, p) \in SUBSET Reason
  BY DEF ReportedReasons, Reasons, Reason
<1>3. (IF p = None THEN None ELSE p.level) \in Level \cup {None}
  BY DEF Predictions, Reading
<1> QED
  BY <1>1, <1>2, <1>3

DecideDoes(s, p) ==
  /\ request[s].at = "ask"
  /\ request' \in [Slot -> RequestState] /\ OthersStay(s) /\ SameEvidence(s)
  /\ request'[s].user = request[s].user /\ request'[s].device = request[s].device
  /\ request'[s].address = request[s].address /\ request'[s].seen = request[s].seen
  /\ request'[s].asked = request[s].asked /\ request'[s].txn = request[s].txn
  /\ request'[s].at = "create"
  /\ request'[s].ai = (IF p = None THEN None ELSE p.level)
  /\ request'[s].level = FinalLevel(request[s].evidence, p)
  /\ request'[s].why = ReportedReasons(request[s].evidence, p)
  /\ UNCHANGED <<txns, alerts, now, abandoned>>

LEMMA DecideEffect ==
  ASSUME Typed, NEW s \in Slot, NEW p \in Predictions, Decide(s, p)
  PROVE  DecideDoes(s, p)
<1> DEFINE ai == IF p = None THEN None ELSE p.level
           level == FinalLevel(request[s].evidence, p)
           why == ReportedReasons(request[s].evidence, p)
           r == [request[s] EXCEPT !.at = "create", !.tries = 0, !.ai = ai, !.level = level, !.why = why]
<1>1. request[s] \in RequestState /\ request[s].evidence \in Evidence
  BY DEF Typed, RequestState
<1>2. ai \in Level \cup {None} /\ level \in Level /\ why \in SUBSET Reason
  BY <1>1, VerdictIsTyped
<1>3. /\ request' = [request EXCEPT ![s].at = "create", ![s].tries = 0, ![s].ai = ai,
                                    ![s].level = level, ![s].why = why]
      /\ request[s].at = "ask" /\ UNCHANGED <<txns, alerts, now, abandoned>>
  BY DEF Decide
<1> HIDE DEF ai, level, why
<1>0. 0 \in 0 .. AiAttempts
  BY ParameterAssumption
<1>4. r \in RequestState /\ r.at = "create" /\ r.reads = request[s].reads
      /\ r.place = request[s].place /\ r.evidence = request[s].evidence /\ r.located = request[s].located
      /\ r.user = request[s].user /\ r.device = request[s].device /\ r.address = request[s].address
      /\ r.seen = request[s].seen /\ r.asked = request[s].asked /\ r.txn = request[s].txn
      /\ r.level = level /\ r.why = why /\ r.ai = ai
  BY ZenonT(30), <1>0, <1>1, <1>2 DEF RequestState
<1>5. request' = [request EXCEPT ![s] = r]
  BY <1>1, <1>3 DEF RequestState
<1> HIDE DEF r
<1>6. request' \in [Slot -> RequestState] /\ OthersStay(s) /\ request'[s] = r
  BY <1>4, <1>5 DEF Typed, OthersStay
<1>7. SameEvidence(s)
  BY <1>4, <1>6 DEF SameEvidence
<1> QED
  BY <1>3, <1>4, <1>6, <1>7 DEF DecideDoes, ai, level, why

(* Another attempt: only the count of attempts changes. *)
RetryDoes(s) ==
  /\ request[s].at = "ask" /\ Moves(s, "ask") /\ alerts' = alerts

LEMMA RetryEffect ==
  ASSUME Typed, NEW s \in Slot, request[s].at = "ask", request[s].tries + 1 < AiAttempts,
         request' = [request EXCEPT ![s].tries = @ + 1], UNCHANGED <<txns, alerts, now, abandoned>>
  PROVE  RetryDoes(s)
<1> DEFINE r == [request[s] EXCEPT !.tries = request[s].tries + 1]
<1>1. request[s] \in RequestState
  BY DEF Typed
<1>2. r \in RequestState /\ r.at = request[s].at /\ r.reads = request[s].reads
      /\ r.place = request[s].place /\ r.evidence = request[s].evidence /\ r.located = request[s].located
      /\ r.user = request[s].user /\ r.device = request[s].device /\ r.address = request[s].address
      /\ r.seen = request[s].seen /\ r.asked = request[s].asked /\ r.txn = request[s].txn
      /\ r.level = request[s].level /\ r.why = request[s].why /\ r.ai = request[s].ai
  BY <1>1, ParameterAssumption DEF RequestState
<1>3. request' = [request EXCEPT ![s] = r]
  BY <1>1 DEF RequestState
<1> HIDE DEF r
<1> QED
  BY <1>2, <1>3 DEF Typed, OthersStay, SamePayment, SameEvidence, Moves, RetryDoes

LEMMA AiEffect ==
  ASSUME Typed, NEW s \in Slot, AiFails(s) \/ AiAnswers(s)
  PROVE  RetryDoes(s) \/ \E p \in Predictions : DecideDoes(s, p)
<1>1. CASE AiAnswers(s)
  <2>1. PICK a \in Answers : Decide(s, IF a = None THEN None ELSE Prediction(a))
    BY <1>1 DEF AiAnswers
  <2>2. (IF a = None THEN None ELSE Prediction(a)) \in Predictions
    BY ParameterAssumption, PredictionIsReading DEF Predictions
  <2> QED
    BY <2>1, <2>2, DecideEffect
<1>2. CASE AiFails(s) /\ ~Decide(s, None)
  BY <1>2, RetryEffect DEF AiFails
<1>3. CASE Decide(s, None)
  <2>1. None \in Predictions
    BY DEF Predictions
  <2> QED
    BY <1>3, <2>1, DecideEffect
<1> QED
  BY <1>1, <1>2, <1>3

(* Transaction.create: the document, and where the request goes on. *)
CreateDoes(s) ==
  LET n == Len(txns) + 1 IN
  /\ request[s].at = "create"
  /\ txns' \in Seq(TransactionDoc) /\ Len(txns') = n /\ DOMAIN txns' = 1 .. n
  /\ \A i \in 1 .. Len(txns) : txns'[i] = txns[i]
  /\ txns'[n].user = request[s].user /\ txns'[n].device = request[s].device
  /\ txns'[n].address = request[s].address /\ txns'[n].place = request[s].place
  /\ txns'[n].at = now /\ txns'[n].status = StatusFromLevel(request[s].level)
  /\ txns'[n].ai = request[s].ai /\ txns'[n].why = request[s].why
  /\ txns'[n].asked = request[s].asked /\ txns'[n].seen = request[s].seen
  /\ txns'[n].located = request[s].located
  /\ request' \in [Slot -> RequestState] /\ OthersStay(s)
  /\ request'[s].at \in {"alert", "answer"} /\ request'[s].txn = n
  /\ request'[s].at = "alert" <=> Suspicious(txns'[n].status)
  /\ request'[s].reads = {}
  /\ UNCHANGED <<alerts, now, abandoned>>

LEMMA CreateEffect ==
  ASSUME Typed, NEW s \in Slot, Create(s), Len(txns) < MaxTxns
  PROVE  CreateDoes(s)
<1> DEFINE q == request[s]
           n == Len(txns) + 1
           doc == [user |-> q.user, device |-> q.device, address |-> q.address, place |-> q.place,
                   at |-> now, status |-> StatusFromLevel(q.level), ai |-> q.ai, why |-> q.why,
                   asked |-> q.asked, seen |-> q.seen, located |-> q.located]
           to == IF AlertNeeded(q) THEN "alert" ELSE "answer"
           r == [Idle EXCEPT !.at = to, !.txn = n]
<1>0. to \in {"alert", "answer"} /\ (to = "alert" <=> Suspicious(doc.status))
  BY DEF AlertNeeded
<1>1. q \in RequestState /\ RequestSound(q) /\ q.at = "create"
  BY DEF Typed, Create
<1>2. StatusFromLevel(q.level) \in Status
  BY DEF StatusFromLevel, Status
<1>3. doc \in TransactionDoc
  BY <1>1, <1>2 DEF RequestSound, Paying, RequestState, TransactionDoc, Typed, Documents
<1>4. txns' = Append(txns, doc) /\ request' = [request EXCEPT ![s] = r]
      /\ UNCHANGED <<alerts, now, abandoned>>
  BY DEF Create
<1>5. txns \in Seq(TransactionDoc) /\ Len(txns) \in Nat /\ n \in 0 .. MaxTxns
  BY ParameterAssumption DEF Typed, Documents
<1>6. doc.user = q.user /\ doc.device = q.device /\ doc.address = q.address
      /\ doc.place = q.place /\ doc.at = now /\ doc.status = StatusFromLevel(q.level)
      /\ doc.ai = q.ai /\ doc.why = q.why /\ doc.asked = q.asked
      /\ doc.seen = q.seen /\ doc.located = q.located
  OBVIOUS
<1> HIDE DEF doc, to
<1>7. /\ txns' \in Seq(TransactionDoc) /\ Len(txns') = n /\ DOMAIN txns' = 1 .. n
      /\ \A i \in 1 .. Len(txns) : txns'[i] = txns[i]
      /\ txns'[n] = doc
  BY <1>3, <1>4, <1>5
<1>8. r \in RequestState /\ r.at \in {"alert", "answer"} /\ r.txn = n /\ r.reads = {}
      /\ (r.at = "alert" <=> Suspicious(doc.status))
  <2> DEFINE p == [Idle EXCEPT !.at = to]
  <2>1. p \in RequestState /\ p.at = to /\ p.reads = {}
    BY <1>0, IdleIsState DEF RequestState
  <2>2. r = [p EXCEPT !.txn = n]
    BY IdleIsState DEF RequestState
  <2> HIDE DEF p
  <2>3. r \in RequestState /\ r.at = to /\ r.txn = n /\ r.reads = {}
    BY <1>5, <2>1, <2>2 DEF RequestState
  <2> QED
    BY <1>0, <2>3
<1> HIDE DEF r
<1>9. request' \in [Slot -> RequestState] /\ OthersStay(s) /\ request'[s] = r
  BY <1>4, <1>8 DEF Typed, OthersStay
<1> QED
  BY <1>1, <1>4, <1>6, <1>7, <1>8, <1>9 DEF CreateDoes

CreateAlertDoes(s) ==
  /\ request[s].at = "alert" /\ Moves(s, "answer")
  /\ DOMAIN alerts' = DOMAIN alerts \cup {request[s].txn}

LEMMA CreateAlertEffect ==
  ASSUME Typed, NEW s \in Slot, CreateAlert(s)
  PROVE  CreateAlertDoes(s)
<1>1. Moves(s, "answer")
  BY MovesEffect DEF CreateAlert
<1> QED
  BY <1>1 DEF CreateAlert, CreateAlertDoes

(* The requests of S end. *)
EndDoes(S) ==
  /\ request' \in [Slot -> RequestState]
  /\ \A q \in Slot : IF q \in S THEN request'[q] = Idle ELSE request'[q] = request[q]
  /\ abandoned \subseteq abandoned'
  /\ \A i \in abandoned' : i \in abandoned \/ \E q \in S : request[q].at = "alert" /\ request[q].txn = i
  /\ \A q \in S : request[q].at = "alert" => request[q].txn \in abandoned'
  /\ UNCHANGED <<txns, alerts, now>>

LEMMA RespondEffect ==
  ASSUME Typed, NEW s \in Slot, Respond(s)
  PROVE  EndDoes({s})
BY IdleIsState DEF Typed, Respond, EndDoes

LEMMA BreakOffEffect ==
  ASSUME Typed, NEW S \in SUBSET Slot, BreakOff(S)
  PROVE  EndDoes(S)
BY IdleIsState DEF Typed, BreakOff, EndDoes

UpdateDoes ==
  DOMAIN alerts' = DOMAIN alerts /\ UNCHANGED <<txns, request, now, abandoned>>
TickDoes ==
  now < MaxTime /\ now' = now + 1 /\ UNCHANGED <<txns, alerts, request, abandoned>>

-----------------------------------------------------------------------------
(* Every step is one of these. *)

Step ==
  \/ \E s \in Slot, u \in User, d \in Device, addr \in Address, claim \in Claims,
        amount \in Amounts, night \in Nights : ArriveDoes(s, u, d, addr, claim, amount, night)
  \/ \E s \in Slot :
       \/ LocateDoes(s)
       \/ ReadVelocityDoes(s) \/ ReadLastDoes(s) \/ ReadFailuresDoes(s) \/ ScoreDoes(s)
       \/ RetryDoes(s) \/ (\E p \in Predictions : DecideDoes(s, p))
       \/ CreateDoes(s) \/ CreateAlertDoes(s)
  \/ \E S \in SUBSET Slot : EndDoes(S)
  \/ UpdateDoes
  \/ TickDoes
  \/ UNCHANGED vars

(* A request about to be stored has its room. *)
LEMMA RoomIsKept ==
  ASSUME Typed, NEW s \in Pending
  PROVE  Len(txns) < MaxTxns
<1>1. Cardinality(Pending) # 0
  BY PendingIsFinite, FS_EmptySet
<1>2. Len(txns) \in Nat /\ MaxTxns \in Nat
  BY ParameterAssumption DEF Typed, Documents
<1> QED
  BY <1>1, <1>2, PendingIsFinite DEF Typed

LEMMA UpdateEffect ==
  ASSUME NEW i \in DOMAIN alerts, NEW status, UpdateAlertStatus(i, status)
  PROVE  UpdateDoes
BY DEF UpdateAlertStatus, UpdateDoes

LEMMA ServeEffect ==
  ASSUME Typed, NEW s \in Slot, Serve(s)
  PROVE  Step
<1>1. CASE (\E coordinates \in BOOLEAN, x \in IpRisks : LookUp(s, coordinates, x)) \/ KeepClaim(s)
  BY <1>1, LocateEffect DEF Step
<1>2. CASE ReadVelocity(s)
  BY <1>2, ReadVelocityEffect DEF Step
<1>3. CASE ReadLast(s)
  BY <1>3, ReadLastEffect DEF Step
<1>4. CASE ReadFailures(s)
  BY <1>4, ReadFailuresEffect DEF Step
<1>5. CASE Score(s)
  BY <1>5, ScoreEffect DEF Step
<1>6. CASE AiFails(s) \/ AiAnswers(s)
  BY <1>6, AiEffect DEF Step
<1>7. CASE Create(s)
  <2>1. s \in Pending
    BY <1>7 DEF Create, Pending
  <2> QED
    BY <1>7, <2>1, RoomIsKept, CreateEffect DEF Step
<1>8. CASE CreateAlert(s)
  BY <1>8, CreateAlertEffect DEF Step
<1>9. CASE Respond(s)
  <2>1. EndDoes({s}) /\ {s} \in SUBSET Slot
    BY <1>9, RespondEffect
  <2> QED
    BY <2>1 DEF Step
<1> QED
  BY <1>1, <1>2, <1>3, <1>4, <1>5, <1>6, <1>7, <1>8, <1>9 DEF Serve

(* Every step of the pipeline, told field by field. *)
LEMMA StepEffect ==
  ASSUME Typed, [Next]_vars
  PROVE  Step
<1>1. ASSUME NEW s \in Slot, NEW u \in User, NEW d \in Device, NEW addr \in Address,
             NEW claim \in Claims, NEW amount \in Amounts, NEW night \in Nights,
             Arrive(s, u, d, addr, claim, amount, night)
      PROVE  Step
  BY <1>1, ArriveEffect DEF Step
<1>2. ASSUME NEW s \in Slot, Serve(s) PROVE Step
  BY <1>2, ServeEffect
<1>3. ASSUME NEW s \in Slot, Fail(s) PROVE Step
  <2>1. EndDoes({s}) /\ {s} \in SUBSET Slot
    BY <1>3, BreakOffEffect DEF Fail
  <2> QED
    BY <2>1 DEF Step
<1>4. ASSUME NEW i \in DOMAIN alerts, NEW status, UpdateAlertStatus(i, status) PROVE Step
  BY <1>4, UpdateEffect DEF Step
<1>5. CASE Tick
  BY <1>5 DEF Tick, TickDoes, Step
<1>6. CASE Crash
  <2>1. EndDoes(Slot)
    BY <1>6, BreakOffEffect DEF Crash
  <2> QED
    BY <2>1 DEF Step
<1>7. CASE UNCHANGED vars
  BY <1>7 DEF Step
<1> QED
  BY <1>1, <1>2, <1>3, <1>4, <1>5, <1>6, <1>7 DEF Next

-----------------------------------------------------------------------------
(* Types. *)

LEMMA InitTyped == Init => Typed
<1> SUFFICES ASSUME Init PROVE Typed
  OBVIOUS
<1>1. request \in [Slot -> RequestState] /\ \A s \in Slot : request[s] = Idle
  BY IdleIsState DEF Init
<1>2. Pending = {}
  BY <1>1, IdleIsState DEF Pending
<1>3. Cardinality(Pending) = 0 /\ Len(txns) = 0
  BY <1>2, FS_EmptySet DEF Init
<1>4. \A s \in Slot : RequestSound(request[s])
  BY <1>1, IdleIsState DEF RequestSound, Paying
<1>5. Documents
  BY ParameterAssumption DEF Init, Documents
<1> QED
  BY <1>1, <1>3, <1>4, <1>5, ParameterAssumption DEF Typed

LEMMA DocumentsStay ==
  ASSUME Typed, Step
  PROVE  Documents'

<1> USE DEF Typed
<1>0. /\ \A s \in Slot : request[s].at = "alert" => request[s].txn \in DOMAIN txns
      /\ \A s \in Slot : Paying(request[s]) => /\ request[s].asked <= now
                                                /\ request[s].seen <= Len(txns)
                                                /\ request[s].seen \in Nat
      /\ now \in Nat /\ MaxTime \in Nat /\ Len(txns) \in Nat /\ DOMAIN txns = 1 .. Len(txns)
      /\ \A i \in DOMAIN txns : txns[i] \in TransactionDoc
  BY ParameterAssumption DEF RequestSound, Documents, RequestState
<1>1. ASSUME NEW s \in Slot, NEW u \in User, NEW d \in Device, NEW addr \in Address,
             NEW claim \in Claims, NEW amount \in Amounts, NEW night \in Nights,
             ArriveDoes(s, u, d, addr, claim, amount, night)
      PROVE  Documents'
  BY <1>1, <1>0
     DEF ArriveDoes, Documents
<1>2. ASSUME NEW s \in Slot, LocateDoes(s)
      PROVE  Documents'
  BY <1>2, <1>0
     DEF LocateDoes, Documents
<1>3. ASSUME NEW s \in Slot, ReadVelocityDoes(s)
      PROVE  Documents'
  BY <1>3, <1>0
     DEF ReadVelocityDoes, ReadDoes, Documents
<1>4. ASSUME NEW s \in Slot, ReadLastDoes(s)
      PROVE  Documents'
  BY <1>4, <1>0
     DEF ReadLastDoes, ReadDoes, Documents
<1>5. ASSUME NEW s \in Slot, ReadFailuresDoes(s)
      PROVE  Documents'
  BY <1>5, <1>0
     DEF ReadFailuresDoes, ReadDoes, Documents
<1>6. ASSUME NEW s \in Slot, ScoreDoes(s)
      PROVE  Documents'
  BY <1>6, <1>0
     DEF ScoreDoes, Moves, Documents
<1>7. ASSUME NEW s \in Slot, RetryDoes(s)
      PROVE  Documents'
  BY <1>7, <1>0
     DEF RetryDoes, Moves, Documents
<1>8. ASSUME NEW s \in Slot, NEW p \in Predictions, DecideDoes(s, p)
      PROVE  Documents'
  BY <1>8, <1>0
     DEF DecideDoes, Documents
<1>9. ASSUME NEW s \in Slot, CreateDoes(s)
      PROVE  Documents'
  <2>1. /\ txns' \in Seq(TransactionDoc) /\ DOMAIN txns' = 1 .. (Len(txns) + 1)
        /\ \A i \in 1 .. Len(txns) : txns'[i] = txns[i]
        /\ txns'[Len(txns) + 1].at = now /\ txns'[Len(txns) + 1].asked = request[s].asked
        /\ txns'[Len(txns) + 1].seen = request[s].seen
        /\ UNCHANGED <<alerts, now, abandoned>> /\ request[s].at = "create"
    BY <1>9 DEF CreateDoes
  <2>2. request[s].asked <= now /\ request[s].seen < Len(txns) + 1
    BY <1>0, <2>1 DEF Paying
  <2>3. \A i \in DOMAIN txns' :
          /\ \A j \in 1 .. i : txns'[j].at <= txns'[i].at
          /\ txns'[i].asked <= txns'[i].at /\ txns'[i].at <= now /\ txns'[i].seen < i
    <3> SUFFICES ASSUME NEW i \in DOMAIN txns'
                 PROVE  /\ \A j \in 1 .. i : txns'[j].at <= txns'[i].at
                        /\ txns'[i].asked <= txns'[i].at /\ txns'[i].at <= now
                        /\ txns'[i].seen < i
      OBVIOUS
    <3>1. CASE i \in 1 .. Len(txns)
      BY <1>0, <2>1, <3>1 DEF Documents
    <3>2. CASE i = Len(txns) + 1
      BY <1>0, <2>1, <2>2, <3>2 DEF Documents
    <3> QED
      BY <1>0, <2>1, <3>1, <3>2
  <2> QED
    BY <1>0, <2>1, <2>3 DEF Documents
<1>10. ASSUME NEW s \in Slot, CreateAlertDoes(s)
      PROVE  Documents'
  BY <1>10, <1>0
     DEF CreateAlertDoes, Moves, Documents
<1>11. ASSUME NEW S \in SUBSET Slot, EndDoes(S)
      PROVE  Documents'
  BY <1>11, <1>0
     DEF EndDoes, Documents
<1>12. CASE UpdateDoes
  BY <1>12, <1>0
     DEF UpdateDoes, Documents
<1>13. CASE TickDoes
  <2>1. now' = now + 1 /\ now' \in 0 .. MaxTime /\ UNCHANGED <<txns, alerts, abandoned>>
    BY <1>13, <1>0 DEF TickDoes, Documents
  <2>2. \A i \in DOMAIN txns : txns[i].at <= now => txns[i].at <= now'
    BY <1>0, <2>1, ParameterAssumption DEF TransactionDoc
  <2> QED
    BY <2>1, <2>2 DEF Documents
<1>14. CASE UNCHANGED vars
  BY <1>14, <1>0 DEF vars, Documents
<1> QED
  BY <1>1, <1>2, <1>3, <1>4, <1>5, <1>6, <1>7, <1>8, <1>9, <1>10, <1>11, <1>12, <1>13, <1>14
  DEF Step

LEMMA RequestsStaySound ==
  ASSUME Typed, Documents', Step
  PROVE  \A q \in Slot : RequestSound(request[q])'

<1> USE DEF Typed
<1>0. /\ request \in [Slot -> RequestState] /\ \A q \in Slot : RequestSound(request[q])
      /\ now \in Nat /\ Len(txns) \in Nat /\ DOMAIN txns = 1 .. Len(txns)
      /\ \A q \in Slot : request[q].asked \in Nat /\ request[q].seen \in Nat
  BY ParameterAssumption DEF Documents, RequestState
<1>1. ASSUME NEW s \in Slot, NEW u \in User, NEW d \in Device, NEW addr \in Address,
             NEW claim \in Claims, NEW amount \in Amounts, NEW night \in Nights,
             ArriveDoes(s, u, d, addr, claim, amount, night)
      PROVE  \A q \in Slot : RequestSound(request[q])'
  BY <1>1, <1>0
     DEF ArriveDoes, OthersStay, RequestSound, Paying
<1>2. ASSUME NEW s \in Slot, LocateDoes(s)
      PROVE  \A q \in Slot : RequestSound(request[q])'
  BY <1>2, <1>0
     DEF LocateDoes, OthersStay, SamePayment, RequestSound, Paying
<1>3. ASSUME NEW s \in Slot, ReadVelocityDoes(s)
      PROVE  \A q \in Slot : RequestSound(request[q])'
  BY <1>3, <1>0
     DEF ReadVelocityDoes, ReadDoes, OthersStay, SamePayment, SameEvidence, RequestSound,
         Paying
<1>4. ASSUME NEW s \in Slot, ReadLastDoes(s)
      PROVE  \A q \in Slot : RequestSound(request[q])'
  BY <1>4, <1>0
     DEF ReadLastDoes, ReadDoes, OthersStay, SamePayment, SameEvidence, RequestSound, Paying
<1>5. ASSUME NEW s \in Slot, ReadFailuresDoes(s)
      PROVE  \A q \in Slot : RequestSound(request[q])'
  BY <1>5, <1>0
     DEF ReadFailuresDoes, ReadDoes, OthersStay, SamePayment, SameEvidence, RequestSound,
         Paying
<1>6. ASSUME NEW s \in Slot, ScoreDoes(s)
      PROVE  \A q \in Slot : RequestSound(request[q])'
  BY <1>6, <1>0
     DEF ScoreDoes, Moves, OthersStay, SamePayment, SameEvidence, RequestSound, Paying
<1>7. ASSUME NEW s \in Slot, RetryDoes(s)
      PROVE  \A q \in Slot : RequestSound(request[q])'
  BY <1>7, <1>0
     DEF RetryDoes, Moves, OthersStay, SamePayment, SameEvidence, RequestSound, Paying
<1>8. ASSUME NEW s \in Slot, NEW p \in Predictions, DecideDoes(s, p)
      PROVE  \A q \in Slot : RequestSound(request[q])'
  BY <1>8, <1>0
     DEF DecideDoes, OthersStay, SamePayment, SameEvidence, RequestSound, Paying
<1>9. ASSUME NEW s \in Slot, CreateDoes(s)
      PROVE  \A q \in Slot : RequestSound(request[q])'
  BY <1>9, <1>0
     DEF CreateDoes, OthersStay, RequestSound, Paying
<1>10. ASSUME NEW s \in Slot, CreateAlertDoes(s)
      PROVE  \A q \in Slot : RequestSound(request[q])'
  BY <1>10, <1>0
     DEF CreateAlertDoes, Moves, OthersStay, SamePayment, SameEvidence, RequestSound, Paying
<1>11. ASSUME NEW S \in SUBSET Slot, EndDoes(S)
      PROVE  \A q \in Slot : RequestSound(request[q])'
  BY <1>11, <1>0, IdleIsState
     DEF EndDoes, RequestSound, Paying
<1>12. CASE UpdateDoes
  BY <1>12, <1>0
     DEF UpdateDoes, RequestSound, Paying
<1>13. CASE TickDoes
  BY <1>13, <1>0
     DEF TickDoes, RequestSound, Paying
<1>14. CASE UNCHANGED vars
  BY <1>14, <1>0 DEF vars, RequestSound, Paying
<1> QED
  BY <1>1, <1>2, <1>3, <1>4, <1>5, <1>6, <1>7, <1>8, <1>9, <1>10, <1>11, <1>12, <1>13, <1>14
  DEF Step

LEMMA RoomStays ==
  ASSUME Typed, Step
  PROVE  Len(txns') + Cardinality(Pending') <= MaxTxns

<1> USE DEF Typed
<1>0. /\ Len(txns) \in Nat /\ MaxTxns \in Nat /\ Len(txns) + Cardinality(Pending) <= MaxTxns
      /\ Cardinality(Pending) \in Nat /\ IsFiniteSet(Pending)
  BY ParameterAssumption, PendingIsFinite DEF Documents
<1>a. ASSUME Pending' \subseteq Pending, txns' = txns
      PROVE  Len(txns') + Cardinality(Pending') <= MaxTxns
  <2>1. Cardinality(Pending') <= Cardinality(Pending) /\ Cardinality(Pending') \in Nat
    BY <1>0, <1>a, FS_Subset, FS_CardinalityType
  <2> QED
    BY <1>0, <1>a, <2>1
<1>1. ASSUME NEW s \in Slot, NEW u \in User, NEW d \in Device, NEW addr \in Address,
             NEW claim \in Claims, NEW amount \in Amounts, NEW night \in Nights,
             ArriveDoes(s, u, d, addr, claim, amount, night)
      PROVE  Len(txns') + Cardinality(Pending') <= MaxTxns
  <2>1. Pending' \subseteq Pending \cup {s} /\ txns' = txns
        /\ Len(txns) + Cardinality(Pending) < MaxTxns
    BY <1>1 DEF ArriveDoes, OthersStay, Pending
  <2>2. Cardinality(Pending') <= Cardinality(Pending \cup {s}) /\ Cardinality(Pending') \in Nat
        /\ Cardinality(Pending \cup {s}) <= Cardinality(Pending) + 1
    BY <1>0, <2>1, FS_AddElement, FS_Subset, FS_CardinalityType
  <2>3. Cardinality(Pending \cup {s}) \in Nat
    BY <1>0, FS_AddElement, FS_CardinalityType
  <2> QED
    BY <1>0, <2>1, <2>2, <2>3
<1>2. ASSUME NEW s \in Slot, LocateDoes(s)
      PROVE  Len(txns') + Cardinality(Pending') <= MaxTxns
  BY <1>2, <1>a
     DEF LocateDoes, OthersStay, Pending
<1>3. ASSUME NEW s \in Slot, ReadVelocityDoes(s)
      PROVE  Len(txns') + Cardinality(Pending') <= MaxTxns
  BY <1>3, <1>a
     DEF ReadVelocityDoes, ReadDoes, OthersStay, Pending
<1>4. ASSUME NEW s \in Slot, ReadLastDoes(s)
      PROVE  Len(txns') + Cardinality(Pending') <= MaxTxns
  BY <1>4, <1>a
     DEF ReadLastDoes, ReadDoes, OthersStay, Pending
<1>5. ASSUME NEW s \in Slot, ReadFailuresDoes(s)
      PROVE  Len(txns') + Cardinality(Pending') <= MaxTxns
  BY <1>5, <1>a
     DEF ReadFailuresDoes, ReadDoes, OthersStay, Pending
<1>6. ASSUME NEW s \in Slot, ScoreDoes(s)
      PROVE  Len(txns') + Cardinality(Pending') <= MaxTxns
  BY <1>6, <1>a
     DEF ScoreDoes, Moves, OthersStay, Pending
<1>7. ASSUME NEW s \in Slot, RetryDoes(s)
      PROVE  Len(txns') + Cardinality(Pending') <= MaxTxns
  BY <1>7, <1>a
     DEF RetryDoes, Moves, OthersStay, Pending
<1>8. ASSUME NEW s \in Slot, NEW p \in Predictions, DecideDoes(s, p)
      PROVE  Len(txns') + Cardinality(Pending') <= MaxTxns
  BY <1>8, <1>a
     DEF DecideDoes, OthersStay, Pending
<1>9. ASSUME NEW s \in Slot, CreateDoes(s)
      PROVE  Len(txns') + Cardinality(Pending') <= MaxTxns
  <2>1. Pending' \subseteq Pending \ {s} /\ s \in Pending /\ Len(txns') = Len(txns) + 1
    BY <1>9 DEF CreateDoes, OthersStay, Pending
  <2>2. Cardinality(Pending \ {s}) = Cardinality(Pending) - 1 /\ IsFiniteSet(Pending \ {s})
    BY <1>0, <2>1, FS_RemoveElement
  <2>3. Cardinality(Pending') <= Cardinality(Pending \ {s}) /\ Cardinality(Pending') \in Nat
    BY <2>1, <2>2, FS_Subset, FS_CardinalityType
  <2> QED
    BY <1>0, <2>1, <2>2, <2>3
<1>10. ASSUME NEW s \in Slot, CreateAlertDoes(s)
      PROVE  Len(txns') + Cardinality(Pending') <= MaxTxns
  BY <1>10, <1>a
     DEF CreateAlertDoes, Moves, OthersStay, Pending
<1>11. ASSUME NEW S \in SUBSET Slot, EndDoes(S)
      PROVE  Len(txns') + Cardinality(Pending') <= MaxTxns
  BY <1>11, <1>a, IdleIsState
     DEF EndDoes, Pending
<1>12. CASE UpdateDoes
  BY <1>12, <1>a
     DEF UpdateDoes, Pending
<1>13. CASE TickDoes
  BY <1>13, <1>a
     DEF TickDoes, Pending
<1>14. CASE UNCHANGED vars
  BY <1>14, <1>a DEF vars, Pending
<1> QED
  BY <1>1, <1>2, <1>3, <1>4, <1>5, <1>6, <1>7, <1>8, <1>9, <1>10, <1>11, <1>12, <1>13, <1>14
  DEF Step

LEMMA StepTyped == Typed /\ [Next]_vars => Typed'
<1> SUFFICES ASSUME Typed, [Next]_vars PROVE Typed'
  OBVIOUS
<1>1. Step
  BY StepEffect
<1>2. Documents'
  BY <1>1, DocumentsStay
<1>3. \A q \in Slot : RequestSound(request[q])'
  BY <1>1, <1>2, RequestsStaySound
<1>4. Len(txns') + Cardinality(Pending') <= MaxTxns
  BY <1>1, RoomStays
<1>5. request' \in [Slot -> RequestState]
  BY <1>1
  DEF Step, Typed, ArriveDoes, LocateDoes, ReadVelocityDoes, ReadLastDoes, ReadFailuresDoes,
     ReadDoes, ScoreDoes, RetryDoes, Moves, DecideDoes, CreateDoes, CreateAlertDoes, EndDoes,
     UpdateDoes, TickDoes, vars
<1> QED
  BY <1>2, <1>3, <1>4, <1>5 DEF Typed

LEMMA TypedIsTypeOK == Typed => TypeOK
<1> SUFFICES ASSUME Typed PROVE TypeOK
  OBVIOUS
<1>1. Documents /\ \A i \in DOMAIN txns : txns[i] \in TransactionDoc
  BY DEF Typed, Documents
<1>2. Len(txns) <= MaxTxns
  BY PendingIsFinite, ParameterAssumption DEF Typed, Documents
<1>3. \A s \in Slot : request[s] \in RequestState
  BY DEF Typed
<1> QED
  BY <1>1, <1>2, <1>3 DEF TypeOK, Documents

(* Types, order in time and room: every document, request and alert the
   handlers of createTransaction leave behind is well formed. *)
THEOREM TypeCorrect == Spec => []TypeOK
<1>1. Spec => []Typed
  BY InitTyped, StepTyped, PTL DEF Spec
<1> QED
  BY <1>1, TypedIsTypeOK, PTL

-----------------------------------------------------------------------------
(* What a request has learnt of the earlier payments. *)

(* Of the payments ts, those of the identity of x that were stored before x *)
(* came and are in the window at t.                                        *)
Before(ts, x, t) ==
  {j \in DOMAIN ts : /\ ts[j].at < x.asked /\ ts[j].at + VelocityWindow >= t
                     /\ SameIdentity(ts[j], x)}

(* The suspicious ones among the first n that x may count. *)
Failed(ts, x, n) ==
  {j \in 1 .. n : /\ SameIdentity(ts[j], x) /\ Suspicious(ts[j].status)
                  /\ ts[j].at + FailureWindow >= x.asked}

(* The two signs that compare x with an earlier payment compare it with one *)
(* that was the latest of its identity since x came.                       *)
Compared(ts, n, x) ==
  \E j \in LatestOf(ts, x, n) :
    /\ x.evidence.newDevice <=> j # 0 /\ ts[j].device # x.device
    /\ x.evidence.travel <=> j # 0 /\ ts[j].place # x.place

(* From the moment its place is known until it is stored. *)
Scoring(r) == r.at \in {"read", "ask", "create"}

(* What has been read of the earlier payments is true of them. *)
VelocityGrounded(r) ==
  Scoring(r) /\ "velocity" \notin r.reads => Cardinality(Before(txns, r, now)) <= r.evidence.velocity
FailuresGrounded(r) ==
  Scoring(r) /\ "failures" \notin r.reads =>
    r.evidence.failures <= Cardinality(Failed(txns, r, Len(txns)))
LastGrounded(r) ==
  Scoring(r) /\ "last" \notin r.reads => Compared(txns, Len(txns), r)

(* What the level and the reasons tell of the evidence. *)
DecidedWell(r) ==
  r.at = "create" =>
    /\ r.level = "LOW_RISK" => r.ai = "LOW_RISK" /\ r.evidence.velocity < 3
    /\ (r.level = "HIGH_RISK" /\ r.ai # "HIGH_RISK" /\ r.why \subseteq {"velocity", "repeatedFailures"})
         => r.evidence.failures >= 3
    /\ "impossibleTravel" \in r.why <=> r.evidence.travel
    /\ "deviceMismatch" \in r.why <=> r.evidence.newDevice

LEMMA VerdictMeans ==
  ASSUME NEW e \in Evidence, NEW p \in Predictions
  PROVE  /\ FinalLevel(e, p) = "LOW_RISK" => p # None /\ p.level = "LOW_RISK" /\ e.velocity < 3
         /\ (/\ FinalLevel(e, p) = "HIGH_RISK" /\ (p = None \/ p.level # "HIGH_RISK")
             /\ ReportedReasons(e, p) \subseteq {"velocity", "repeatedFailures"}) => e.failures >= 3
         /\ "impossibleTravel" \in ReportedReasons(e, p) <=> e.travel
         /\ "deviceMismatch" \in ReportedReasons(e, p) <=> e.newDevice
<1>1. /\ e.amount \in Nat /\ e.velocity \in Nat /\ e.failures \in Nat /\ e.ipRisk \in Nat
      /\ e.newDevice \in BOOLEAN /\ e.travel \in BOOLEAN /\ e.night \in BOOLEAN
  BY DEF Evidence
<1> DEFINE A == AmountPoints(e.amount)
           V == VelocityPoints(e.velocity)
           F == FailurePoints(e.failures)
           D == DevicePoints(e.newDevice)
           T == TravelPoints(e.travel)
           I == IpPoints(e.ipRisk)
           H == TimingPoints(e.night, e.amount)
<1>2. /\ A \in Nat /\ V \in 0 .. 40 /\ F \in Nat /\ D \in Nat /\ T \in Nat /\ I \in Nat /\ H \in Nat
      /\ e.velocity >= 3 => V = 40
      /\ e.failures < 3 => F <= 24
      /\ ~e.newDevice => D = 0
      /\ ~e.travel => T = 0
      /\ ~e.night => H = 0
      /\ e.amount > 50000 => A > 0
  BY <1>1 DEF AmountPoints, VelocityPoints, FailurePoints, DevicePoints, TravelPoints, IpPoints,
             TimingPoints
<1>3. Points(e) = A + V + F + D + T + I + H
  BY DEF Points
<1>4. /\ "amount" \in ReportedReasons(e, p) <=> A > 0
      /\ "deviceMismatch" \in ReportedReasons(e, p) <=> e.newDevice
      /\ "impossibleTravel" \in ReportedReasons(e, p) <=> e.travel
      /\ "ipRisk" \in ReportedReasons(e, p) <=> I > 0
      /\ "transactionTiming" \in ReportedReasons(e, p) <=> e.night
  BY DEF ReportedReasons, Reasons
<1> HIDE DEF A, V, F, D, T, I, H
<1>5. ASSUME FinalLevel(e, p) = "LOW_RISK"
      PROVE  p # None /\ p.level = "LOW_RISK" /\ e.velocity < 3
  <2>1. DecisionFromScore(RuleScore(e)) # "HIGH_RISK"
        /\ DecisionFromScore(RuleScore(e)) # "MEDIUM_RISK"
        /\ p # None /\ p.level # "HIGH_RISK" /\ p.level # "MEDIUM_RISK"
    BY <1>5 DEF FinalLevel
  <2>2. RuleScore(e) < 40
    BY <1>2, <1>3, <2>1 DEF RuleScore, DecisionFromScore
  <2>3. Points(e) < 40
    BY <1>2, <1>3, <2>2 DEF RuleScore
  <2>4. p.level \in Level
    BY <2>1 DEF Predictions, Reading
  <2> QED
    BY <1>1, <1>2, <1>3, <2>1, <2>3, <2>4 DEF Level
<1>6. ASSUME FinalLevel(e, p) = "HIGH_RISK", p = None \/ p.level # "HIGH_RISK",
             ReportedReasons(e, p) \subseteq {"velocity", "repeatedFailures"}
      PROVE  e.failures >= 3
  <2>1. ~(A > 0) /\ ~e.newDevice /\ ~e.travel /\ ~(I > 0) /\ ~e.night
    BY <1>4, <1>6
  <2>2. DecisionFromScore(RuleScore(e)) = "HIGH_RISK"
    <3>1. ~(e.amount > 50000)
      BY <1>2, <2>1
    <3> QED
      BY <1>6, <3>1, NoneIsNoWord DEF FinalLevel, Level
  <2>3. RuleScore(e) >= 75
    BY <1>2, <1>3, <2>2 DEF RuleScore, DecisionFromScore
  <2>4. Points(e) >= 75
    BY <1>2, <1>3, <2>3 DEF RuleScore
  <2> QED
    BY <1>1, <1>2, <1>3, <2>1, <2>4
<1> QED
  BY <1>4, <1>5, <1>6

LEMMA BeforeIsFinite ==
  ASSUME NEW ts, NEW n \in Nat, DOMAIN ts = 1 .. n, NEW x, NEW t
  PROVE  IsFiniteSet(Before(ts, x, t)) /\ Before(ts, x, t) \subseteq 1 .. n
<1>1. Before(ts, x, t) \in SUBSET (1 .. n)
  BY DEF Before
<1>2. IsFiniteSet(1 .. n)
  BY FS_Interval
<1> QED
  BY <1>1, <1>2, FS_Subset

LEMMA FailedIsFinite ==
  ASSUME NEW ts, NEW x, NEW n \in Nat
  PROVE  IsFiniteSet(Failed(ts, x, n))
<1>1. Failed(ts, x, n) \in SUBSET (1 .. n)
  BY DEF Failed
<1>2. IsFiniteSet(1 .. n)
  BY FS_Interval
<1> QED
  BY <1>1, <1>2, FS_Subset

(* The collection only grows, by payments stored at the present time. *)
Growth ==
  /\ now' \in Nat /\ now' >= now
  /\ DOMAIN txns \subseteq DOMAIN txns' /\ Len(txns) <= Len(txns')
  /\ \A i \in DOMAIN txns : txns'[i] = txns[i]
  /\ \A i \in DOMAIN txns' \ DOMAIN txns : txns'[i].at = now

LEMMA TxnsGrow ==
  ASSUME Typed, Step
  PROVE  Growth

<1>0. Len(txns) \in Nat /\ DOMAIN txns = 1 .. Len(txns) /\ now \in Nat
  BY DEF Typed, Documents
<1>1. ASSUME NEW s \in Slot, NEW u \in User, NEW d \in Device, NEW addr \in Address,
             NEW claim \in Claims, NEW amount \in Amounts, NEW night \in Nights,
             ArriveDoes(s, u, d, addr, claim, amount, night)
      PROVE  Growth
  BY <1>1, <1>0
     DEF ArriveDoes, Growth
<1>2. ASSUME NEW s \in Slot, LocateDoes(s)
      PROVE  Growth
  BY <1>2, <1>0
     DEF LocateDoes, Growth
<1>3. ASSUME NEW s \in Slot, ReadVelocityDoes(s)
      PROVE  Growth
  BY <1>3, <1>0
     DEF ReadVelocityDoes, ReadDoes, Growth
<1>4. ASSUME NEW s \in Slot, ReadLastDoes(s)
      PROVE  Growth
  BY <1>4, <1>0
     DEF ReadLastDoes, ReadDoes, Growth
<1>5. ASSUME NEW s \in Slot, ReadFailuresDoes(s)
      PROVE  Growth
  BY <1>5, <1>0
     DEF ReadFailuresDoes, ReadDoes, Growth
<1>6. ASSUME NEW s \in Slot, ScoreDoes(s)
      PROVE  Growth
  BY <1>6, <1>0
     DEF ScoreDoes, Moves, Moves, Growth
<1>7. ASSUME NEW s \in Slot, RetryDoes(s)
      PROVE  Growth
  BY <1>7, <1>0
     DEF RetryDoes, Moves, Moves, Growth
<1>8. ASSUME NEW s \in Slot, NEW p \in Predictions, DecideDoes(s, p)
      PROVE  Growth
  BY <1>8, <1>0
     DEF DecideDoes, Growth
<1>9. ASSUME NEW s \in Slot, CreateDoes(s)
      PROVE  Growth
  BY <1>9, <1>0
     DEF CreateDoes, Growth
<1>10. ASSUME NEW s \in Slot, CreateAlertDoes(s)
      PROVE  Growth
  BY <1>10, <1>0
     DEF CreateAlertDoes, Moves, Moves, Growth
<1>11. ASSUME NEW S \in SUBSET Slot, EndDoes(S)
      PROVE  Growth
  BY <1>11, <1>0
     DEF EndDoes, Growth
<1>12. CASE UpdateDoes
  BY <1>12, <1>0
     DEF UpdateDoes, Growth
<1>13. CASE TickDoes
  BY <1>13, <1>0
     DEF TickDoes, Growth
<1>14. CASE UNCHANGED vars
  BY <1>14, <1>0 DEF vars, Growth
<1> QED
  BY <1>1, <1>2, <1>3, <1>4, <1>5, <1>6, <1>7, <1>8, <1>9, <1>10, <1>11, <1>12, <1>13, <1>14
  DEF Step

(* What a request learnt stays true while payments are stored and time goes *)
(* on: nothing stored from now on came before it.                          *)
LEMMA LearntStaysTrue ==
  ASSUME Typed, Typed', Growth, NEW q \in Slot, Paying(request[q]),
         request'[q].user = request[q].user, request'[q].device = request[q].device,
         request'[q].address = request[q].address, request'[q].asked = request[q].asked
  PROVE  /\ Cardinality(Before(txns', request'[q], now')) <= Cardinality(Before(txns, request[q], now))
         /\ Cardinality(Failed(txns, request[q], Len(txns)))
              <= Cardinality(Failed(txns', request'[q], Len(txns')))
         /\ (request'[q].place = request[q].place /\ request'[q].seen = request[q].seen
               /\ request'[q].evidence = request[q].evidence
               /\ Compared(txns, Len(txns), request[q]))
              => Compared(txns', Len(txns'), request'[q])
<1>a. /\ Len(txns) \in Nat /\ DOMAIN txns = 1 .. Len(txns) /\ now \in Nat
      /\ txns \in Seq(TransactionDoc)
  BY DEF Typed, Documents
<1>b. Len(txns') \in Nat /\ DOMAIN txns' = 1 .. Len(txns') /\ now' \in Nat
  BY DEF Typed, Documents
<1>c. request[q].asked \in Nat /\ request[q].asked <= now
  BY DEF Typed, RequestSound, RequestState
<1>d. \A i \in DOMAIN txns : txns[i].at \in Nat
  <2>1. \A d \in TransactionDoc : d.at \in Nat
    BY ParameterAssumption DEF TransactionDoc
  <2>2. \A i \in DOMAIN txns : txns[i] \in TransactionDoc
    BY <1>a
  <2> QED
    BY <2>1, <2>2
<1>e. VelocityWindow \in Nat /\ FailureWindow \in Nat
  BY ParameterAssumption
<1>1. /\ Len(txns) \in Nat /\ DOMAIN txns = 1 .. Len(txns) /\ now \in Nat /\ now' \in Nat
      /\ Len(txns') \in Nat /\ DOMAIN txns' = 1 .. Len(txns')
      /\ request[q].asked \in Nat /\ request[q].asked <= now
      /\ \A i \in DOMAIN txns : txns[i].at \in Nat
      /\ VelocityWindow \in Nat /\ FailureWindow \in Nat
  BY <1>a, <1>b, <1>c, <1>d, <1>e
<1>2. \A d : SameIdentity(d, request'[q]) <=> SameIdentity(d, request[q])
  BY DEF SameIdentity
<1>3. Before(txns', request'[q], now') \subseteq Before(txns, request[q], now)
  BY <1>1, <1>2 DEF Growth, Before
<1>4. Failed(txns, request[q], Len(txns)) \subseteq Failed(txns', request'[q], Len(txns'))
  BY <1>1, <1>2 DEF Growth, Failed
<1>5. (request'[q].place = request[q].place /\ request'[q].seen = request[q].seen
        /\ request'[q].evidence = request[q].evidence
        /\ Compared(txns, Len(txns), request[q]))
        => Compared(txns', Len(txns'), request'[q])
  <2> SUFFICES ASSUME request'[q].place = request[q].place, request'[q].seen = request[q].seen,
                      request'[q].evidence = request[q].evidence,
                      Compared(txns, Len(txns), request[q])
               PROVE  Compared(txns', Len(txns'), request'[q])
    OBVIOUS
  <2>1. PICK j \in LatestOf(txns, request[q], Len(txns)) :
          /\ request[q].evidence.newDevice <=> j # 0 /\ txns[j].device # request[q].device
          /\ request[q].evidence.travel <=> j # 0 /\ txns[j].place # request[q].place
    BY DEF Compared
  <2>2. request[q].seen \in Nat /\ request[q].seen <= Len(txns)
    BY ParameterAssumption DEF Typed, RequestSound, RequestState
  <2>3. j \in 0 .. Len(txns) /\ (j # 0 => SameIdentity(txns[j], request[q]))
        /\ \A k \in j + 1 .. request[q].seen : ~SameIdentity(txns[k], request[q])
    BY DEF LatestOf
  <2>4. j \in 0 .. Len(txns') /\ \A k \in 1 .. Len(txns) : txns'[k] = txns[k]
    BY <1>1, <2>3 DEF Growth
  <2>5. \A k \in j + 1 .. request'[q].seen : ~SameIdentity(txns'[k], request'[q])
    BY <1>1, <1>2, <2>2, <2>3, <2>4
  <2>6. j # 0 => txns'[j] = txns[j] /\ SameIdentity(txns'[j], request'[q])
    BY <1>1, <1>2, <2>3, <2>4
  <2>7. j \in LatestOf(txns', request'[q], Len(txns'))
    BY <2>4, <2>5, <2>6 DEF LatestOf
  <2> QED
    BY <2>1, <2>6, <2>7 DEF Compared
<1>6. IsFiniteSet(Before(txns, request[q], now))
      /\ IsFiniteSet(Failed(txns', request'[q], Len(txns')))
  BY <1>1, BeforeIsFinite, FailedIsFinite
<1> QED
  BY <1>3, <1>4, <1>5, <1>6, FS_Subset

Grounded(q) ==
  /\ VelocityGrounded(request[q]) /\ FailuresGrounded(request[q])
  /\ LastGrounded(request[q]) /\ DecidedWell(request[q])

(* The step lets the payment of q go on with what it knows, or ends it. *)
Resembles(q) ==
  Paying(request'[q]) =>
    /\ Paying(request[q]) /\ (Scoring(request'[q]) <=> Scoring(request[q]))
    /\ request'[q].user = request[q].user /\ request'[q].device = request[q].device
    /\ request'[q].address = request[q].address /\ request'[q].asked = request[q].asked
    /\ request'[q].seen = request[q].seen /\ request'[q].located = request[q].located
    /\ request'[q].place = request[q].place /\ request'[q].evidence = request[q].evidence
    /\ request'[q].reads = request[q].reads
    /\ request'[q].at = "create" =>
         /\ request[q].at = "create" /\ request'[q].level = request[q].level
         /\ request'[q].ai = request[q].ai /\ request'[q].why = request[q].why

(* The numbers that are compared are numbers. *)
LEMMA CountsAreNumbers ==
  ASSUME Typed, NEW q \in Slot
  PROVE  /\ request[q].evidence.velocity \in Nat /\ request[q].evidence.failures \in Nat
         /\ request[q].evidence \in Evidence
         /\ Cardinality(Before(txns, request[q], now)) \in Nat
         /\ Cardinality(Failed(txns, request[q], Len(txns))) \in Nat
<1>1. request[q].evidence \in Evidence /\ Len(txns) \in Nat /\ DOMAIN txns = 1 .. Len(txns)
  BY DEF Typed, RequestState, Documents
<1>2. request[q].evidence.velocity \in Nat /\ request[q].evidence.failures \in Nat
  BY <1>1 DEF Evidence
<1> QED
  BY <1>1, <1>2, BeforeIsFinite, FailedIsFinite, FS_CardinalityType

LEMMA ResemblingIsGrounded ==
  ASSUME Typed, Typed', Growth, NEW q \in Slot, Grounded(q), Resembles(q)
  PROVE  Grounded(q)'
<1>1. CASE ~Paying(request'[q])
  BY <1>1
  DEF Paying, Grounded, VelocityGrounded, FailuresGrounded, LastGrounded, DecidedWell,
      Scoring
<1>2. CASE Paying(request'[q])
  <2>1. /\ Cardinality(Before(txns', request'[q], now')) <= Cardinality(Before(txns, request[q], now))
        /\ Cardinality(Failed(txns, request[q], Len(txns)))
              <= Cardinality(Failed(txns', request'[q], Len(txns')))
        /\ Compared(txns, Len(txns), request[q]) => Compared(txns', Len(txns'), request'[q])
    BY <1>2, LearntStaysTrue DEF Resembles
  <2>2. /\ request[q].evidence.velocity \in Nat /\ request[q].evidence.failures \in Nat
        /\ Cardinality(Before(txns, request[q], now)) \in Nat
        /\ Cardinality(Failed(txns, request[q], Len(txns))) \in Nat
    BY CountsAreNumbers
  <2>3. /\ Cardinality(Before(txns', request'[q], now')) \in Nat
        /\ Cardinality(Failed(txns', request'[q], Len(txns'))) \in Nat
    <3>1. Len(txns') \in Nat /\ DOMAIN txns' = 1 .. Len(txns')
      BY DEF Typed, Documents
    <3> QED
      BY <3>1, BeforeIsFinite, FailedIsFinite, FS_CardinalityType
  <2>4. VelocityGrounded(request[q])'
    BY <1>2, <2>1, <2>2, <2>3 DEF Grounded, Resembles, VelocityGrounded
  <2>5. FailuresGrounded(request[q])'
    BY <1>2, <2>1, <2>2, <2>3 DEF Grounded, Resembles, FailuresGrounded
  <2>6. LastGrounded(request[q])'
    BY <1>2, <2>1 DEF Grounded, Resembles, LastGrounded, Scoring, Paying
  <2>7. DecidedWell(request[q])'
    BY <1>2 DEF Grounded, Resembles, DecidedWell
  <2> QED
    BY <2>4, <2>5, <2>6, <2>7 DEF Grounded
<1> QED
  BY <1>1, <1>2

(* What the two counts of calculateRuleRisk say of the earlier payments. *)
LEMMA RecentBounds ==
  ASSUME Typed, NEW q \in Slot
  PROVE  /\ Cardinality(Before(txns, request[q], now)) <= VelocityCount(request[q])
         /\ Paying(request[q]) =>
              FailureCount(request[q]) <= Cardinality(Failed(txns, request[q], Len(txns)))
<1>1. Before(txns, request[q], now) \subseteq Recent(request[q], VelocityWindow)
  BY DEF Before, Recent
<1>2. Cardinality(Before(txns, request[q], now)) <= VelocityCount(request[q])
  BY <1>1, RecentIsFinite, FS_Subset DEF VelocityCount
<1>3. ASSUME Paying(request[q])
      PROVE  FailureCount(request[q]) <= Cardinality(Failed(txns, request[q], Len(txns)))
  <2>1. Len(txns) \in Nat /\ DOMAIN txns = 1 .. Len(txns) /\ now \in Nat /\ FailureWindow \in Nat
        /\ request[q].asked \in Nat /\ request[q].asked <= now
    BY <1>3, ParameterAssumption DEF Typed, Documents, RequestSound, RequestState
  <2>2. \A i \in DOMAIN txns : txns[i].at \in Nat
    <3>1. \A d \in TransactionDoc : d.at \in Nat
      BY ParameterAssumption DEF TransactionDoc
    <3>2. \A i \in DOMAIN txns : txns[i] \in TransactionDoc
      BY DEF Typed, Documents
    <3> QED
      BY <3>1, <3>2
  <2>3. {i \in Recent(request[q], FailureWindow) : Suspicious(txns[i].status)}
          \subseteq Failed(txns, request[q], Len(txns))
    BY <2>1, <2>2 DEF Recent, Failed
  <2>4. IsFiniteSet(Failed(txns, request[q], Len(txns)))
    BY <2>1, FailedIsFinite
  <2> QED
    BY <2>3, <2>4, FS_Subset DEF FailureCount
<1> QED
  BY <1>2, <1>3

LEMMA RequestsStayGrounded ==
  ASSUME Typed, Typed', Growth, \A q \in Slot : Grounded(q), Step
  PROVE  \A q \in Slot : Grounded(q)'
<1>1. ASSUME NEW s \in Slot, NEW u \in User, NEW d \in Device, NEW addr \in Address,
             NEW claim \in Claims, NEW amount \in Amounts, NEW night \in Nights,
             ArriveDoes(s, u, d, addr, claim, amount, night)
      PROVE  \A q \in Slot : Grounded(q)'
  <2>1. \A q \in Slot : q # s => Resembles(q)
    BY <1>1 DEF ArriveDoes, OthersStay, Resembles, Paying, Scoring
  <2>2. Grounded(s)'
    BY <1>1
    DEF ArriveDoes, Grounded, VelocityGrounded, FailuresGrounded, LastGrounded,
        DecidedWell,
        Paying, Scoring
  <2> QED
    BY <2>1, <2>2, ResemblingIsGrounded
<1>2. ASSUME NEW s \in Slot, LocateDoes(s)
      PROVE  \A q \in Slot : Grounded(q)'
  <2>1. \A q \in Slot : q # s => Resembles(q)
    BY <1>2 DEF LocateDoes, OthersStay, Resembles, Paying, Scoring
  <2>2. Grounded(s)'
    BY <1>2
    DEF LocateDoes, SamePayment, Read, Grounded, VelocityGrounded, FailuresGrounded,
        LastGrounded, DecidedWell, Paying, Scoring
  <2> QED
    BY <2>1, <2>2, ResemblingIsGrounded
<1>3. ASSUME NEW s \in Slot, ReadVelocityDoes(s)
      PROVE  \A q \in Slot : Grounded(q)'
  <2>1. \A q \in Slot : q # s => Resembles(q)
    BY <1>3 DEF ReadVelocityDoes, ReadDoes, OthersStay, Resembles, Paying, Scoring
  <2>2. Grounded(s)'
    <3>1. /\ request[s].at = "read" /\ request'[s].at = "read"
          /\ request'[s].user = request[s].user /\ request'[s].device = request[s].device
          /\ request'[s].address = request[s].address /\ request'[s].asked = request[s].asked
          /\ request'[s].place = request[s].place /\ request'[s].seen = request[s].seen
          /\ request'[s].reads = request[s].reads \ {"velocity"} /\ txns' = txns /\ now' = now
          /\ request'[s].evidence.newDevice = request[s].evidence.newDevice
          /\ request'[s].evidence.travel = request[s].evidence.travel
      BY <1>3 DEF ReadVelocityDoes, ReadDoes, SamePayment, Typed, RequestSound
    <3>2. Before(txns', request'[s], now') = Before(txns, request[s], now)
          /\ Failed(txns', request'[s], Len(txns')) = Failed(txns, request[s], Len(txns))
          /\ (Compared(txns', Len(txns'), request'[s]) <=> Compared(txns, Len(txns), request[s]))
      BY <3>1 DEF Before, Failed, Compared, LatestOf, SameIdentity
    <3>3. Cardinality(Before(txns, request[s], now)) <= VelocityCount(request[s])
      BY RecentBounds
    <3> QED
      BY <1>3, <3>1, <3>2, <3>3
      DEF ReadVelocityDoes, Grounded, VelocityGrounded, FailuresGrounded, LastGrounded,
          DecidedWell, Paying, Scoring
  <2> QED
    BY <2>1, <2>2, ResemblingIsGrounded
<1>4. ASSUME NEW s \in Slot, ReadLastDoes(s)
      PROVE  \A q \in Slot : Grounded(q)'
  <2>1. \A q \in Slot : q # s => Resembles(q)
    BY <1>4 DEF ReadLastDoes, ReadDoes, OthersStay, Resembles, Paying, Scoring
  <2>2. Grounded(s)'
    <3>1. /\ request[s].at = "read" /\ request'[s].at = "read"
          /\ request'[s].user = request[s].user /\ request'[s].device = request[s].device
          /\ request'[s].address = request[s].address /\ request'[s].asked = request[s].asked
          /\ request'[s].place = request[s].place /\ request'[s].seen = request[s].seen
          /\ request'[s].reads = request[s].reads \ {"last"} /\ txns' = txns /\ now' = now
      BY <1>4 DEF ReadLastDoes, ReadDoes, SamePayment, Typed, RequestSound
    <3>2. Before(txns', request'[s], now') = Before(txns, request[s], now)
          /\ Failed(txns', request'[s], Len(txns')) = Failed(txns, request[s], Len(txns))
      BY <3>1 DEF Before, Failed, SameIdentity
    <3>3. Compared(txns', Len(txns'), request'[s])
      BY <1>4, <3>1 DEF ReadLastDoes, Compared, LatestOf, SameIdentity
    <3> QED
      BY <1>4, <3>1, <3>2, <3>3
      DEF ReadLastDoes, Grounded, VelocityGrounded, FailuresGrounded, LastGrounded,
          DecidedWell, Paying, Scoring
  <2> QED
    BY <2>1, <2>2, ResemblingIsGrounded
<1>5. ASSUME NEW s \in Slot, ReadFailuresDoes(s)
      PROVE  \A q \in Slot : Grounded(q)'
  <2>1. \A q \in Slot : q # s => Resembles(q)
    BY <1>5 DEF ReadFailuresDoes, ReadDoes, OthersStay, Resembles, Paying, Scoring
  <2>2. Grounded(s)'
    <3>1. /\ request[s].at = "read" /\ request'[s].at = "read"
          /\ request'[s].user = request[s].user /\ request'[s].device = request[s].device
          /\ request'[s].address = request[s].address /\ request'[s].asked = request[s].asked
          /\ request'[s].place = request[s].place /\ request'[s].seen = request[s].seen
          /\ request'[s].reads = request[s].reads \ {"failures"} /\ txns' = txns /\ now' = now
          /\ request'[s].evidence.newDevice = request[s].evidence.newDevice
          /\ request'[s].evidence.travel = request[s].evidence.travel
      BY <1>5 DEF ReadFailuresDoes, ReadDoes, SamePayment, Typed, RequestSound
    <3>2. Before(txns', request'[s], now') = Before(txns, request[s], now)
          /\ Failed(txns', request'[s], Len(txns')) = Failed(txns, request[s], Len(txns))
          /\ (Compared(txns', Len(txns'), request'[s]) <=> Compared(txns, Len(txns), request[s]))
      BY <3>1 DEF Before, Failed, Compared, LatestOf, SameIdentity
    <3>3. FailureCount(request[s]) <= Cardinality(Failed(txns, request[s], Len(txns)))
      BY <3>1, RecentBounds DEF Paying
    <3> QED
      BY <1>5, <3>1, <3>2, <3>3
      DEF ReadFailuresDoes, Grounded, VelocityGrounded, FailuresGrounded, LastGrounded,
          DecidedWell, Paying, Scoring
  <2> QED
    BY <2>1, <2>2, ResemblingIsGrounded
<1>6. ASSUME NEW s \in Slot, ScoreDoes(s)
      PROVE  \A q \in Slot : Grounded(q)'
  <2>1. \A q \in Slot : Resembles(q)
    BY <1>6
    DEF ScoreDoes, Moves, OthersStay, SamePayment, SameEvidence, Resembles, Paying, Scoring
  <2> QED
    BY <2>1, ResemblingIsGrounded
<1>7. ASSUME NEW s \in Slot, RetryDoes(s)
      PROVE  \A q \in Slot : Grounded(q)'
  <2>1. \A q \in Slot : Resembles(q)
    BY <1>7
    DEF RetryDoes, Moves, OthersStay, SamePayment, SameEvidence, Resembles, Paying, Scoring
  <2> QED
    BY <2>1, ResemblingIsGrounded
<1>8. ASSUME NEW s \in Slot, NEW p \in Predictions, DecideDoes(s, p)
      PROVE  \A q \in Slot : Grounded(q)'
  <2>1. \A q \in Slot : q # s => Resembles(q)
    BY <1>8 DEF DecideDoes, OthersStay, Resembles, Paying, Scoring
  <2>2. Grounded(s)'
    <3>1. /\ request[s].at = "ask" /\ request'[s].at = "create"
          /\ request'[s].user = request[s].user /\ request'[s].device = request[s].device
          /\ request'[s].address = request[s].address /\ request'[s].asked = request[s].asked
          /\ request'[s].place = request[s].place /\ request'[s].evidence = request[s].evidence
          /\ request'[s].seen = request[s].seen
          /\ request'[s].reads = request[s].reads /\ txns' = txns /\ now' = now
          /\ request'[s].ai = (IF p = None THEN None ELSE p.level)
          /\ request'[s].level = FinalLevel(request[s].evidence, p)
          /\ request'[s].why = ReportedReasons(request[s].evidence, p)
      BY <1>8 DEF DecideDoes, SameEvidence
    <3>2. request[s].evidence \in Evidence
      BY CountsAreNumbers
    <3>3. DecidedWell(request[s])'
      BY <3>1, <3>2, VerdictMeans DEF DecidedWell
    <3>4. Before(txns', request'[s], now') = Before(txns, request[s], now)
          /\ Failed(txns', request'[s], Len(txns')) = Failed(txns, request[s], Len(txns))
          /\ (Compared(txns', Len(txns'), request'[s]) <=> Compared(txns, Len(txns), request[s]))
      BY <3>1 DEF Before, Failed, Compared, LatestOf, SameIdentity
    <3> QED
      BY <3>1, <3>3, <3>4 DEF Grounded, VelocityGrounded, FailuresGrounded, LastGrounded,
         Scoring, Paying
  <2> QED
    BY <2>1, <2>2, ResemblingIsGrounded
<1>9. ASSUME NEW s \in Slot, CreateDoes(s)
      PROVE  \A q \in Slot : Grounded(q)'
  <2>1. \A q \in Slot : q # s => Resembles(q)
    BY <1>9 DEF CreateDoes, OthersStay, Resembles, Paying, Scoring
  <2>2. Grounded(s)'
    BY <1>9
    DEF CreateDoes, Grounded, VelocityGrounded, FailuresGrounded, LastGrounded,
        DecidedWell,
        Paying, Scoring
  <2> QED
    BY <2>1, <2>2, ResemblingIsGrounded
<1>10. ASSUME NEW s \in Slot, CreateAlertDoes(s)
      PROVE  \A q \in Slot : Grounded(q)'
  <2>1. \A q \in Slot : Resembles(q)
    BY <1>10
    DEF CreateAlertDoes, Moves, OthersStay, SamePayment, SameEvidence, Resembles, Paying,
        Scoring
  <2> QED
    BY <2>1, ResemblingIsGrounded
<1>11. ASSUME NEW S \in SUBSET Slot, EndDoes(S)
      PROVE  \A q \in Slot : Grounded(q)'
  <2>1. \A q \in Slot : Resembles(q)
    BY <1>11, IdleIsState DEF EndDoes, Resembles, Paying, Scoring
  <2> QED
    BY <2>1, ResemblingIsGrounded
<1>12. CASE UpdateDoes
  <2>1. \A q \in Slot : Resembles(q)
    BY <1>12 DEF UpdateDoes, Resembles, Paying, Scoring
  <2> QED
    BY <2>1, ResemblingIsGrounded
<1>13. CASE TickDoes
  <2>1. \A q \in Slot : Resembles(q)
    BY <1>13 DEF TickDoes, Resembles, Paying, Scoring
  <2> QED
    BY <2>1, ResemblingIsGrounded
<1>14. CASE UNCHANGED vars
  <2>1. \A q \in Slot : Resembles(q)
    BY <1>14 DEF vars, Resembles
  <2> QED
    BY <2>1, ResemblingIsGrounded
<1> QED
  BY <1>1, <1>2, <1>3, <1>4, <1>5, <1>6, <1>7, <1>8, <1>9, <1>10, <1>11, <1>12, <1>13, <1>14
  DEF Step

-----------------------------------------------------------------------------
(* What the stored verdicts rest on. *)

(* AllowedIsVouched and BlockIsEarned of one payment. *)
Vouched(ts, i) ==
  ts[i].status = "ALLOWED" =>
    ts[i].ai = "LOW_RISK" /\ Cardinality(Before(ts, ts[i], ts[i].at)) < 3
Earned(ts, i) ==
  (ts[i].status = "BLOCKED" /\ ts[i].ai # "HIGH_RISK"
  /\ ts[i].why \subseteq {"velocity", "repeatedFailures"})
    => Cardinality(Failed(ts, ts[i], i - 1)) >= 3

LEMMA PropertiesByPayment ==
  /\ AllowedIsVouched <=> \A i \in DOMAIN txns : Vouched(txns, i)
  /\ BlockIsEarned <=> \A i \in DOMAIN txns : Earned(txns, i)
BY DEF AllowedIsVouched, BlockIsEarned, Vouched, Earned, Before, Failed

(* Only Transaction.create changes the collection. *)
LEMMA OnlyCreateStores ==
  ASSUME Step
  PROVE  txns' = txns \/ \E s \in Slot : CreateDoes(s)
BY DEF Step, ArriveDoes, LocateDoes, ReadVelocityDoes, ReadLastDoes, ReadFailuresDoes, ReadDoes,
   ScoreDoes, RetryDoes, Moves, DecideDoes, CreateAlertDoes, EndDoes, UpdateDoes, TickDoes, vars

(* The types of what is stored, as the comparisons need them. *)
LEMMA StoredIsTyped ==
  ASSUME Typed
  PROVE  /\ Len(txns) \in Nat /\ DOMAIN txns = 1 .. Len(txns) /\ now \in Nat
         /\ VelocityWindow \in Nat /\ FailureWindow \in Nat
         /\ \A i \in DOMAIN txns : /\ txns[i].at \in Nat /\ txns[i].asked \in Nat
                                   /\ txns[i].asked <= txns[i].at /\ txns[i].at <= now
<1>1. \A d \in TransactionDoc : d.at \in Nat /\ d.asked \in Nat
  BY ParameterAssumption DEF TransactionDoc
<1>2. \A i \in DOMAIN txns : txns[i] \in TransactionDoc
  BY DEF Typed, Documents
<1> QED
  BY <1>1, <1>2, ParameterAssumption DEF Typed, Documents

LEMMA StatusMeansLevel ==
  ASSUME NEW level \in Level
  PROVE  /\ StatusFromLevel(level) = "ALLOWED" => level = "LOW_RISK"
         /\ StatusFromLevel(level) = "BLOCKED" => level = "HIGH_RISK"
BY DEF Level, StatusFromLevel

LEMMA VerdictsStayGrounded ==
  ASSUME Typed, \A q \in Slot : Grounded(q), Step,
         \A i \in DOMAIN txns : Vouched(txns, i) /\ Earned(txns, i)
  PROVE  \A i \in DOMAIN txns' : Vouched(txns', i) /\ Earned(txns', i)
<1>1. CASE txns' = txns
  BY <1>1
<1>2. ASSUME NEW s \in Slot, CreateDoes(s)
      PROVE  \A i \in DOMAIN txns' : Vouched(txns', i) /\ Earned(txns', i)
  <2> DEFINE n == Len(txns) + 1
  <2>1. /\ n \in Nat /\ DOMAIN txns = 1 .. (n - 1) /\ n - 1 = Len(txns) /\ now \in Nat
        /\ VelocityWindow \in Nat /\ FailureWindow \in Nat
        /\ \A i \in DOMAIN txns : /\ txns[i].at \in Nat /\ txns[i].asked \in Nat
                                  /\ txns[i].asked <= txns[i].at /\ txns[i].at <= now
    BY StoredIsTyped
  <2>2. /\ request[s].at = "create" /\ DOMAIN txns' = 1 .. n
        /\ \A i \in 1 .. (n - 1) : txns'[i] = txns[i]
        /\ txns'[n].user = request[s].user /\ txns'[n].device = request[s].device
        /\ txns'[n].address = request[s].address /\ txns'[n].at = now
        /\ txns'[n].status = StatusFromLevel(request[s].level)
        /\ txns'[n].ai = request[s].ai /\ txns'[n].why = request[s].why
        /\ txns'[n].asked = request[s].asked
    BY <1>2, <2>1 DEF CreateDoes
  <2> HIDE DEF n
  <2>3. ASSUME NEW i \in 1 .. (n - 1)
        PROVE  Vouched(txns', i) /\ Earned(txns', i)
    <3>1. Before(txns', txns'[i], txns'[i].at) \subseteq Before(txns, txns[i], txns[i].at)
      BY <2>1, <2>2 DEF Before
    <3>2. Failed(txns', txns'[i], i - 1) = Failed(txns, txns[i], i - 1)
      BY <2>1, <2>2 DEF Failed
    <3>3. IsFiniteSet(Before(txns, txns[i], txns[i].at))
      BY SMTT(20), <2>1, BeforeIsFinite
    <3>4. Cardinality(Before(txns', txns'[i], txns'[i].at)) <= Cardinality(Before(txns, txns[i], txns[i].at))
          /\ Cardinality(Before(txns', txns'[i], txns'[i].at)) \in Nat
          /\ Cardinality(Before(txns, txns[i], txns[i].at)) \in Nat
      BY <3>1, <3>3, FS_Subset, FS_CardinalityType
    <3>5. Vouched(txns, i) /\ Earned(txns, i) /\ txns'[i] = txns[i]
      BY <2>1, <2>2
    <3> QED
      BY <3>2, <3>4, <3>5 DEF Vouched, Earned
  <2>4. Vouched(txns', n) /\ Earned(txns', n)
    <3>1. request[s].asked \in Nat /\ request[s].asked <= now /\ request[s].level \in Level
          /\ request[s].reads = {}
      BY <2>2 DEF Typed, RequestSound, RequestState, Paying
    <3>2. /\ DecidedWell(request[s])
          /\ Cardinality(Before(txns, request[s], now)) <= request[s].evidence.velocity
          /\ request[s].evidence.failures <= Cardinality(Failed(txns, request[s], Len(txns)))
      BY <2>2, <3>1 DEF Grounded, VelocityGrounded, FailuresGrounded, Scoring
    <3>3. \A d : SameIdentity(d, txns'[n]) <=> SameIdentity(d, request[s])
      BY <2>2 DEF SameIdentity
    <3>4. Before(txns', txns'[n], txns'[n].at) \subseteq Before(txns, request[s], now)
      BY <2>1, <2>2, <3>1, <3>3 DEF Before
    <3>5. Failed(txns', txns'[n], n - 1) = Failed(txns, request[s], Len(txns))
      BY <2>1, <2>2, <3>1, <3>3 DEF Failed
    <3>6. /\ request[s].evidence.velocity \in Nat /\ request[s].evidence.failures \in Nat
          /\ Cardinality(Before(txns, request[s], now)) \in Nat
          /\ Cardinality(Failed(txns, request[s], Len(txns))) \in Nat
      BY CountsAreNumbers
    <3>7. IsFiniteSet(Before(txns, request[s], now))
      BY <2>1, BeforeIsFinite
    <3>8. Cardinality(Before(txns', txns'[n], txns'[n].at)) <= Cardinality(Before(txns, request[s], now))
          /\ Cardinality(Before(txns', txns'[n], txns'[n].at)) \in Nat
      BY <3>4, <3>7, FS_Subset, FS_CardinalityType
    <3>9. txns'[n].status = "ALLOWED" => request[s].level = "LOW_RISK"
      BY <2>2, <3>1, StatusMeansLevel
    <3>10. txns'[n].status = "BLOCKED" => request[s].level = "HIGH_RISK"
      BY <2>2, <3>1, StatusMeansLevel
    <3>11. Vouched(txns', n)
      BY <2>2, <3>2, <3>6, <3>8, <3>9 DEF Vouched, DecidedWell
    <3>12. Earned(txns', n)
      BY <2>2, <3>2, <3>5, <3>6, <3>10 DEF Earned, DecidedWell
    <3> QED
      BY <3>11, <3>12
  <2> QED
    BY <2>1, <2>2, <2>3, <2>4
<1> QED
  BY <1>1, <1>2, OnlyCreateStores

GroundedInv ==
  /\ Typed
  /\ \A q \in Slot : Grounded(q)
  /\ \A i \in DOMAIN txns : Vouched(txns, i) /\ Earned(txns, i)

LEMMA InitGrounded == Init => GroundedInv
<1> SUFFICES ASSUME Init PROVE GroundedInv
  OBVIOUS
<1>1. \A q \in Slot : request[q] = Idle
  BY DEF Init
<1>2. \A q \in Slot : Grounded(q)
  BY <1>1, IdleIsState
  DEF Grounded, VelocityGrounded, FailuresGrounded, LastGrounded, DecidedWell,
     Scoring, Paying
<1> QED
  BY <1>2, InitTyped DEF Init, GroundedInv

LEMMA StepGrounded == GroundedInv /\ [Next]_vars => GroundedInv'
<1> SUFFICES ASSUME GroundedInv, [Next]_vars PROVE GroundedInv'
  OBVIOUS
<1>1. Typed' /\ Step
  BY StepTyped, StepEffect DEF GroundedInv
<1>2. Growth
  BY <1>1, TxnsGrow DEF GroundedInv
<1>3. \A q \in Slot : Grounded(q)'
  BY <1>1, <1>2, RequestsStayGrounded DEF GroundedInv
<1>4. \A i \in DOMAIN txns' : Vouched(txns', i) /\ Earned(txns', i)
  BY <1>1, VerdictsStayGrounded DEF GroundedInv
<1> QED
  BY <1>1, <1>3, <1>4 DEF GroundedInv

LEMMA GroundedAlways == Spec => []GroundedInv
BY InitGrounded, StepGrounded, PTL DEF Spec

(* A payment is allowed only on a LOW_RISK answer and with fewer than three
   payments of its identity in the window, however many are in flight. *)
THEOREM AllowedAreVouched == Spec => []AllowedIsVouched
<1>1. GroundedInv => AllowedIsVouched
  BY PropertiesByPayment DEF GroundedInv
<1> QED
  BY <1>1, GroundedAlways, PTL

(* Repetition alone blocks a payment only after three suspicious payments of
   its identity within the failure window. *)
THEOREM BlocksAreEarned == Spec => []BlockIsEarned
<1>1. GroundedInv => BlockIsEarned
  BY PropertiesByPayment DEF GroundedInv
<1> QED
  BY <1>1, GroundedAlways, PTL

-----------------------------------------------------------------------------
(* Bursts. *)

Part == {"user", "device", "address"}

(* The payments BurstIsBounded counts. *)
Allowed(ts, i, part) ==
  {j \in i .. Len(ts) : /\ ts[j][part] = ts[i][part] /\ ts[j].status = "ALLOWED"
                        /\ ts[j].at <= ts[i].at + VelocityWindow}

(* Payments in flight that share the part with y, and whose velocity read  *)
(* found fewer than three: they may still be allowed.                      *)
MayPass(rq, y, part) ==
  {q \in Slot : /\ Scoring(rq[q]) /\ "velocity" \notin rq[q].reads
                /\ rq[q][part] = y[part] /\ rq[q].evidence.velocity < 3}

(* Within the window, those that were allowed and those that may still be  *)
(* share the room.                                                         *)
BurstInv ==
  \A i \in DOMAIN txns, part \in Part :
    /\ Cardinality(Allowed(txns, i, part)) <= 2 + Cardinality(Slot)
    /\ now <= txns[i].at + VelocityWindow =>
         Cardinality(Allowed(txns, i, part)) + Cardinality(MayPass(request, txns[i], part))
           <= 2 + Cardinality(Slot)

LEMMA PartIsIdentity ==
  ASSUME NEW x, NEW y, NEW part \in Part
  PROVE  /\ x[part] = y[part] => SameIdentity(x, y)
         /\ x.user = y.user /\ x.device = y.device /\ x.address = y.address => x[part] = y[part]
<1>1. CASE part = "user"
  BY <1>1 DEF SameIdentity
<1>2. CASE part = "device"
  BY <1>2 DEF SameIdentity
<1>3. CASE part = "address"
  BY <1>3 DEF SameIdentity
<1> QED
  BY <1>1, <1>2, <1>3 DEF Part

LEMMA AllowedIsFinite ==
  ASSUME NEW ts, Len(ts) \in Nat, NEW i \in Nat, NEW part
  PROVE  IsFiniteSet(Allowed(ts, i, part)) /\ Cardinality(Allowed(ts, i, part)) \in Nat
<1>1. Allowed(ts, i, part) \in SUBSET (i .. Len(ts))
  BY DEF Allowed
<1>2. IsFiniteSet(i .. Len(ts))
  BY FS_Interval
<1> QED
  BY <1>1, <1>2, FS_Subset, FS_CardinalityType

LEMMA SlotsAreCounted ==
  ASSUME NEW S \in SUBSET Slot
  PROVE  /\ IsFiniteSet(S) /\ Cardinality(S) \in Nat /\ Cardinality(Slot) \in Nat
         /\ Cardinality(S) <= Cardinality(Slot)
BY ParameterAssumption, FS_Subset, FS_CardinalityType

(* The step makes no further payment one that may pass. *)
KeepsVelocity(q) ==
  Scoring(request'[q]) /\ "velocity" \notin request'[q].reads =>
    /\ Scoring(request[q]) /\ "velocity" \notin request[q].reads
    /\ request'[q].user = request[q].user /\ request'[q].device = request[q].device
    /\ request'[q].address = request[q].address
    /\ request'[q].evidence.velocity = request[q].evidence.velocity

VelocityKept ==
  \/ txns' = txns /\ \A q \in Slot : KeepsVelocity(q)
  \/ \E s \in Slot : ReadVelocityDoes(s)
  \/ \E s \in Slot : CreateDoes(s)

LEMMA VelocityIsReadOnce ==
  ASSUME Typed, Step
  PROVE  VelocityKept
<1>1. ASSUME NEW s \in Slot, NEW u \in User, NEW d \in Device, NEW addr \in Address,
             NEW claim \in Claims, NEW amount \in Amounts, NEW night \in Nights,
             ArriveDoes(s, u, d, addr, claim, amount, night)
      PROVE  VelocityKept
  BY <1>1
     DEF ArriveDoes, OthersStay, VelocityKept, KeepsVelocity, Scoring
<1>2. ASSUME NEW s \in Slot, LocateDoes(s)
      PROVE  VelocityKept
  BY <1>2
     DEF LocateDoes, OthersStay, SamePayment, Read, VelocityKept, KeepsVelocity, Scoring
<1>3. ASSUME NEW s \in Slot, ReadVelocityDoes(s)
      PROVE  VelocityKept
  BY <1>3 DEF VelocityKept
<1>4. ASSUME NEW s \in Slot, ReadLastDoes(s)
      PROVE  VelocityKept
  BY <1>4
     DEF ReadLastDoes, ReadDoes, OthersStay, SamePayment, VelocityKept, KeepsVelocity,
         Scoring, Typed, RequestSound
<1>5. ASSUME NEW s \in Slot, ReadFailuresDoes(s)
      PROVE  VelocityKept
  BY <1>5
     DEF ReadFailuresDoes, ReadDoes, OthersStay, SamePayment, VelocityKept, KeepsVelocity,
         Scoring, Typed, RequestSound
<1>6. ASSUME NEW s \in Slot, ScoreDoes(s)
      PROVE  VelocityKept
  BY <1>6
     DEF ScoreDoes, Moves, OthersStay, SamePayment, SameEvidence, VelocityKept,
         KeepsVelocity, Scoring
<1>7. ASSUME NEW s \in Slot, RetryDoes(s)
      PROVE  VelocityKept
  BY <1>7
     DEF RetryDoes, Moves, OthersStay, SamePayment, SameEvidence, VelocityKept,
         KeepsVelocity, Scoring
<1>8. ASSUME NEW s \in Slot, NEW p \in Predictions, DecideDoes(s, p)
      PROVE  VelocityKept
  BY <1>8
     DEF DecideDoes, OthersStay, SamePayment, SameEvidence, VelocityKept, KeepsVelocity,
         Scoring
<1>9. ASSUME NEW s \in Slot, CreateDoes(s)
      PROVE  VelocityKept
  BY <1>9 DEF VelocityKept
<1>10. ASSUME NEW s \in Slot, CreateAlertDoes(s)
      PROVE  VelocityKept
  BY <1>10
     DEF CreateAlertDoes, Moves, OthersStay, SamePayment, SameEvidence, VelocityKept,
         KeepsVelocity, Scoring
<1>11. ASSUME NEW S \in SUBSET Slot, EndDoes(S)
      PROVE  VelocityKept
  BY <1>11, IdleIsState
     DEF EndDoes, VelocityKept, KeepsVelocity, Scoring
<1>12. CASE UpdateDoes
  BY <1>12
     DEF UpdateDoes, VelocityKept, KeepsVelocity, Scoring
<1>13. CASE TickDoes
  BY <1>13
     DEF TickDoes, VelocityKept, KeepsVelocity, Scoring
<1>14. CASE UNCHANGED vars
  BY <1>14 DEF vars, VelocityKept, KeepsVelocity, Scoring
<1> QED
  BY <1>1, <1>2, <1>3, <1>4, <1>5, <1>6, <1>7, <1>8, <1>9, <1>10, <1>11, <1>12, <1>13, <1>14
  DEF Step

LEMMA MayPassShrinks ==
  ASSUME NEW y, NEW part \in Part, NEW q \in Slot, KeepsVelocity(q), q \in MayPass(request', y, part)
  PROVE  q \in MayPass(request, y, part)
<1>1. Scoring(request'[q]) /\ "velocity" \notin request'[q].reads /\ request'[q][part] = y[part]
      /\ request'[q].evidence.velocity < 3
  BY DEF MayPass
<1>2. request'[q][part] = request[q][part]
  BY <1>1, PartIsIdentity DEF KeepsVelocity
<1> QED
  BY <1>1, <1>2 DEF KeepsVelocity, MayPass

(* One more payment, if it is allowed. *)
LEMMA AllowedByOneMore ==
  ASSUME NEW ts, NEW us, Len(ts) \in Nat, Len(us) = Len(ts) + 1,
         \A j \in 1 .. Len(ts) : us[j] = ts[j], NEW i \in 1 .. Len(ts), NEW part
  PROVE  /\ Allowed(us, i, part) \subseteq Allowed(ts, i, part) \cup {Len(us)}
         /\ Len(us) \notin Allowed(us, i, part) => Allowed(us, i, part) \subseteq Allowed(ts, i, part)
BY DEF Allowed

LEMMA RoomIsShared ==
  ASSUME NEW a \in Nat, NEW b \in Nat, NEW c \in Nat, NEW d \in Nat, NEW room \in Nat,
         a + b <= 2 + room, c <= a + 1, d <= b - 1
  PROVE  c + d <= 2 + room /\ c <= 2 + room
OBVIOUS

LEMMA BurstStays ==
  ASSUME Typed, \A q \in Slot : Grounded(q), BurstInv, Step
  PROVE  BurstInv'
<1>0. /\ Len(txns) \in Nat /\ DOMAIN txns = 1 .. Len(txns) /\ now \in Nat /\ VelocityWindow \in Nat
      /\ \A i \in DOMAIN txns : txns[i].at \in Nat /\ txns[i].at <= now
  BY StoredIsTyped
<1>1. CASE txns' = txns /\ \A q \in Slot : KeepsVelocity(q)
  <2> SUFFICES ASSUME NEW i \in DOMAIN txns, NEW part \in Part
               PROVE  /\ Cardinality(Allowed(txns, i, part)) <= 2 + Cardinality(Slot)
                      /\ now' <= txns[i].at + VelocityWindow =>
                           Cardinality(Allowed(txns, i, part))
                             + Cardinality(MayPass(request', txns[i], part)) <= 2 + Cardinality(Slot)
    BY <1>1 DEF BurstInv
  <2>1. MayPass(request', txns[i], part) \subseteq MayPass(request, txns[i], part)
    BY <1>1, MayPassShrinks DEF MayPass
  <2>2. MayPass(request, txns[i], part) \in SUBSET Slot
        /\ MayPass(request', txns[i], part) \in SUBSET Slot
    BY DEF MayPass
  <2>3. /\ Cardinality(MayPass(request', txns[i], part)) <= Cardinality(MayPass(request, txns[i], part))
        /\ Cardinality(MayPass(request', txns[i], part)) \in Nat
        /\ Cardinality(MayPass(request, txns[i], part)) \in Nat /\ Cardinality(Slot) \in Nat
    BY <2>1, <2>2, SlotsAreCounted, FS_Subset
  <2>4. Cardinality(Allowed(txns, i, part)) \in Nat
    BY <1>0, AllowedIsFinite
  <2>5. now' >= now /\ now' \in Nat
    BY TxnsGrow DEF Growth
  <2>6. /\ Cardinality(Allowed(txns, i, part)) <= 2 + Cardinality(Slot)
        /\ now <= txns[i].at + VelocityWindow =>
             Cardinality(Allowed(txns, i, part)) + Cardinality(MayPass(request, txns[i], part))
               <= 2 + Cardinality(Slot)
    BY DEF BurstInv
  <2> QED
    BY <1>0, <2>3, <2>4, <2>5, <2>6
<1>2. ASSUME NEW s \in Slot, ReadVelocityDoes(s)
      PROVE  BurstInv'
  <2>1. /\ txns' = txns /\ now' = now /\ \A q \in Slot : q # s => request'[q] = request[q]
        /\ request'[s].user = request[s].user /\ request'[s].device = request[s].device
        /\ request'[s].address = request[s].address
        /\ request'[s].evidence.velocity = VelocityCount(request[s])
    BY <1>2 DEF ReadVelocityDoes, ReadDoes, OthersStay, SamePayment
  <2> SUFFICES ASSUME NEW i \in DOMAIN txns, NEW part \in Part
               PROVE  /\ Cardinality(Allowed(txns, i, part)) <= 2 + Cardinality(Slot)
                      /\ now <= txns[i].at + VelocityWindow =>
                           Cardinality(Allowed(txns, i, part))
                             + Cardinality(MayPass(request', txns[i], part)) <= 2 + Cardinality(Slot)
    BY <2>1 DEF BurstInv
  <2>2. MayPass(request, txns[i], part) \in SUBSET Slot
        /\ MayPass(request', txns[i], part) \in SUBSET Slot
    BY DEF MayPass
  <2>3. /\ Cardinality(MayPass(request', txns[i], part)) <= Cardinality(Slot)
        /\ Cardinality(MayPass(request', txns[i], part)) \in Nat
        /\ Cardinality(MayPass(request, txns[i], part)) \in Nat /\ Cardinality(Slot) \in Nat
    BY <2>2, SlotsAreCounted
  <2>4. Cardinality(Allowed(txns, i, part)) \in Nat
    BY <1>0, AllowedIsFinite
  <2>5. /\ Cardinality(Allowed(txns, i, part)) <= 2 + Cardinality(Slot)
        /\ now <= txns[i].at + VelocityWindow =>
             Cardinality(Allowed(txns, i, part)) + Cardinality(MayPass(request, txns[i], part))
               <= 2 + Cardinality(Slot)
    BY DEF BurstInv
  <2>6. CASE s \notin MayPass(request', txns[i], part)
    <3>1. MayPass(request', txns[i], part) \subseteq MayPass(request, txns[i], part)
      BY <2>1, <2>6 DEF MayPass
    <3>2. Cardinality(MayPass(request', txns[i], part)) <= Cardinality(MayPass(request, txns[i], part))
      BY <2>2, <3>1, SlotsAreCounted, FS_Subset
    <3> QED
      BY <1>0, <2>3, <2>4, <2>5, <3>2
  <2>7. CASE s \in MayPass(request', txns[i], part) /\ now <= txns[i].at + VelocityWindow
    <3>1. VelocityCount(request[s]) < 3 /\ request[s][part] = txns[i][part]
      <4>1. request'[s][part] = request[s][part]
        BY <2>1, PartIsIdentity
      <4> QED
        BY <2>1, <2>7, <4>1 DEF MayPass
    <3>2. Allowed(txns, i, part) \subseteq Recent(request[s], VelocityWindow)
      <4> SUFFICES ASSUME NEW j \in Allowed(txns, i, part)
                   PROVE  j \in Recent(request[s], VelocityWindow)
        OBVIOUS
      <4>1. j \in i .. Len(txns) /\ txns[j][part] = txns[i][part]
        BY DEF Allowed
      <4>2. SameIdentity(txns[j], request[s])
        <5>1. txns[j][part] = request[s][part]
          BY <3>1, <4>1
        <5> QED
          BY <5>1, PartIsIdentity
      <4>3. txns[i].at <= txns[j].at /\ j \in DOMAIN txns
        BY <1>0, <4>1 DEF Typed, Documents
      <4> QED
        BY <1>0, <2>7, <4>2, <4>3 DEF Recent
    <3>3. Cardinality(Allowed(txns, i, part)) <= VelocityCount(request[s])
      BY <3>2, RecentIsFinite, FS_Subset DEF VelocityCount
    <3>4. VelocityCount(request[s]) \in Nat
      BY CountsAreNatural
    <3> QED
      BY <2>3, <2>4, <3>1, <3>3, <3>4
  <2> QED
    BY <2>5, <2>6, <2>7
<1>3. ASSUME NEW s \in Slot, CreateDoes(s)
      PROVE  BurstInv'
  <2> DEFINE n == Len(txns) + 1
  <2>1. /\ request[s].at = "create" /\ DOMAIN txns' = 1 .. n /\ Len(txns') = n /\ n \in Nat
        /\ \A j \in 1 .. Len(txns) : txns'[j] = txns[j]
        /\ txns'[n].user = request[s].user /\ txns'[n].device = request[s].device
        /\ txns'[n].address = request[s].address /\ txns'[n].at = now /\ now' = now
        /\ txns'[n].status = StatusFromLevel(request[s].level)
        /\ \A q \in Slot : q # s => request'[q] = request[q]
        /\ ~Scoring(request'[s])
    BY <1>0, <1>3 DEF CreateDoes, OthersStay, Scoring
  <2> HIDE DEF n
  <2>2. ASSUME NEW y, NEW part
        PROVE  /\ MayPass(request', y, part) \subseteq MayPass(request, y, part) \ {s}
               /\ MayPass(request, y, part) \in SUBSET Slot /\ MayPass(request', y, part) \in SUBSET Slot
    BY <2>1 DEF MayPass
  <2>3. ASSUME NEW i \in 1 .. Len(txns), NEW part \in Part
        PROVE  /\ Cardinality(Allowed(txns', i, part)) <= 2 + Cardinality(Slot)
               /\ now <= txns[i].at + VelocityWindow =>
                    Cardinality(Allowed(txns', i, part))
                      + Cardinality(MayPass(request', txns[i], part)) <= 2 + Cardinality(Slot)
    <3> DEFINE A == Allowed(txns, i, part)
               A2 == Allowed(txns', i, part)
               M == MayPass(request, txns[i], part)
               M2 == MayPass(request', txns[i], part)
    <3>1. /\ Cardinality(A) \in Nat /\ Cardinality(A2) \in Nat /\ IsFiniteSet(A)
          /\ M \in SUBSET Slot /\ M2 \in SUBSET Slot /\ IsFiniteSet(M) /\ IsFiniteSet(M2)
          /\ Cardinality(M) \in Nat /\ Cardinality(M2) \in Nat /\ Cardinality(Slot) \in Nat
          /\ M2 \subseteq M \ {s}
      BY <1>0, <2>1, <2>2, AllowedIsFinite, SlotsAreCounted
    <3>2. /\ Cardinality(A) <= 2 + Cardinality(Slot)
          /\ now <= txns[i].at + VelocityWindow =>
               Cardinality(A) + Cardinality(M) <= 2 + Cardinality(Slot)
      BY <1>0 DEF BurstInv
    <3>3. A2 \subseteq A \cup {n} /\ (n \notin A2 => A2 \subseteq A)
      BY <1>0, <2>1, AllowedByOneMore DEF n
    <3>4. CASE n \notin A2
      <4>1. Cardinality(A2) <= Cardinality(A) /\ Cardinality(M2) <= Cardinality(M)
        BY <3>1, <3>3, <3>4, FS_Subset
      <4> QED
        BY <3>1, <3>2, <4>1
    <3>5. CASE n \in A2
      <4>1. txns'[n].status = "ALLOWED" /\ now <= txns[i].at + VelocityWindow
            /\ txns'[n][part] = txns[i][part]
        BY <2>1, <3>5 DEF Allowed
      <4>2. s \in M
        <5>1. request[s].level \in Level /\ request[s].reads = {}
          BY <2>1 DEF Typed, RequestSound, RequestState
        <5>2. request[s].evidence.velocity < 3
          BY <2>1, <4>1, <5>1, StatusMeansLevel DEF Grounded, DecidedWell
        <5>3. txns'[n][part] = request[s][part]
          BY <2>1, PartIsIdentity
        <5> QED
          BY <2>1, <4>1, <5>1, <5>2, <5>3 DEF MayPass, Scoring
      <4>3. Cardinality(M2) <= Cardinality(M) - 1
        <5>1. Cardinality(M \ {s}) = Cardinality(M) - 1 /\ IsFiniteSet(M \ {s})
          BY <3>1, <4>2, FS_RemoveElement
        <5> QED
          BY <3>1, <5>1, FS_Subset
      <4>4. Cardinality(A2) <= Cardinality(A) + 1
        <5>0. /\ IsFiniteSet(A \cup {n})
              /\ Cardinality(A \cup {n}) = IF n \in A THEN Cardinality(A) ELSE Cardinality(A) + 1
          BY <3>1, FS_AddElement
        <5>1. Cardinality(A \cup {n}) <= Cardinality(A) + 1 /\ IsFiniteSet(A \cup {n})
              /\ Cardinality(A \cup {n}) \in Nat
          BY <3>1, <5>0
        <5>2. Cardinality(A2) <= Cardinality(A \cup {n})
          BY <3>3, <5>1, FS_Subset
        <5> QED
          BY <3>1, <5>1, <5>2
      <4>5. Cardinality(A) + Cardinality(M) <= 2 + Cardinality(Slot)
        BY <3>2, <4>1
      <4>6. Cardinality(A2) + Cardinality(M2) <= 2 + Cardinality(Slot)
            /\ Cardinality(A2) <= 2 + Cardinality(Slot)
        <5> HIDE DEF A, A2, M, M2
        <5> QED
          BY <3>1, <4>3, <4>4, <4>5, RoomIsShared
      <4> QED
        BY <4>6
    <3> QED
      BY <3>4, <3>5
  <2>4. ASSUME NEW part \in Part
        PROVE  Cardinality(Allowed(txns', n, part)) + Cardinality(MayPass(request', txns'[n], part))
                 <= 2 + Cardinality(Slot)
               /\ Cardinality(Allowed(txns', n, part)) <= 2 + Cardinality(Slot)
    <3>1. Allowed(txns', n, part) \subseteq {n}
      BY <2>1 DEF Allowed
    <3>2. IsFiniteSet({n}) /\ Cardinality({n}) = 1
      BY FS_Singleton
    <3>3. Cardinality(Allowed(txns', n, part)) <= 1
          /\ Cardinality(Allowed(txns', n, part)) \in Nat
      BY <3>1, <3>2, FS_Subset, FS_CardinalityType
    <3>4. /\ Cardinality(MayPass(request', txns'[n], part)) <= Cardinality(Slot)
          /\ Cardinality(MayPass(request', txns'[n], part)) \in Nat /\ Cardinality(Slot) \in Nat
      BY <2>2, SlotsAreCounted
    <3> QED
      BY <3>3, <3>4
  <2> SUFFICES ASSUME NEW i \in DOMAIN txns', NEW part \in Part
               PROVE  /\ Cardinality(Allowed(txns', i, part)) <= 2 + Cardinality(Slot)
                      /\ now' <= txns'[i].at + VelocityWindow =>
                           Cardinality(Allowed(txns', i, part))
                             + Cardinality(MayPass(request', txns'[i], part)) <= 2 + Cardinality(Slot)
    BY DEF BurstInv
  <2>5. CASE i \in 1 .. Len(txns)
    BY <2>1, <2>3, <2>5
  <2>6. CASE i = n
    BY <2>4, <2>6
  <2> QED
    BY <1>0, <2>1, <2>5, <2>6 DEF n
<1> QED
  BY <1>1, <1>2, <1>3, VelocityIsReadOnce DEF VelocityKept

(* For every number of slots and every windows: the payments of one user,
   device or address allowed within a window are at most two and one for each
   payment that can be in flight. *)
THEOREM BurstsAreBounded == Spec => []BurstIsBounded
<1>1. Init => BurstInv
  BY DEF Init, BurstInv
<1>2. GroundedInv /\ BurstInv /\ [Next]_vars => BurstInv'
  BY StepEffect, BurstStays DEF GroundedInv
<1>3. BurstInv => BurstIsBounded
  BY DEF BurstInv, BurstIsBounded, Allowed, Part
<1> QED
  BY <1>1, <1>2, <1>3, GroundedAlways, PTL DEF Spec

-----------------------------------------------------------------------------
(* Places. *)

(* A place is where the lookup service found the address, if it did, and   *)
(* the signs of payment i of ts are those of a payment that was the latest *)
(* of the identity while it was served.                                    *)
Placed(x) == x.located => x.place = PlaceOf[x.address]
Signed(ts, i) ==
  \E j \in LatestOf(ts, ts[i], i - 1) :
    /\ "deviceMismatch" \in ts[i].why <=> j # 0 /\ ts[j].device # ts[i].device
    /\ "impossibleTravel" \in ts[i].why <=> j # 0 /\ ts[j].place # ts[i].place

SignsInv ==
  /\ \A q \in Slot : Scoring(request[q]) => Placed(request[q])
  /\ \A i \in DOMAIN txns : Placed(txns[i]) /\ Signed(txns, i)

PlacesKept == \A q \in Slot : Scoring(request'[q]) => Placed(request'[q])

LEMMA RequestsStayPlaced ==
  ASSUME Typed, SignsInv, Step
  PROVE  PlacesKept
<1>1. ASSUME NEW s \in Slot, NEW u \in User, NEW d \in Device, NEW addr \in Address,
             NEW claim \in Claims, NEW amount \in Amounts, NEW night \in Nights,
             ArriveDoes(s, u, d, addr, claim, amount, night)
      PROVE  PlacesKept
  BY <1>1
     DEF ArriveDoes, OthersStay, Paying, Scoring, SignsInv, Placed, PlacesKept
<1>2. ASSUME NEW s \in Slot, LocateDoes(s)
      PROVE  PlacesKept
  BY <1>2
     DEF LocateDoes, OthersStay, SamePayment, Paying, Scoring, SignsInv, Placed,
         PlacesKept
<1>3. ASSUME NEW s \in Slot, ReadVelocityDoes(s)
      PROVE  PlacesKept
  BY <1>3
     DEF ReadVelocityDoes, ReadDoes, OthersStay, SamePayment, Paying, Scoring, SignsInv, Placed,
         PlacesKept
<1>4. ASSUME NEW s \in Slot, ReadLastDoes(s)
      PROVE  PlacesKept
  BY <1>4
     DEF ReadLastDoes, ReadDoes, OthersStay, SamePayment, Paying, Scoring, SignsInv, Placed,
         PlacesKept
<1>5. ASSUME NEW s \in Slot, ReadFailuresDoes(s)
      PROVE  PlacesKept
  BY <1>5
     DEF ReadFailuresDoes, ReadDoes, OthersStay, SamePayment, Paying, Scoring, SignsInv, Placed,
         PlacesKept
<1>6. ASSUME NEW s \in Slot, ScoreDoes(s)
      PROVE  PlacesKept
  BY <1>6
     DEF ScoreDoes, Moves, OthersStay, SamePayment, SameEvidence, Paying, Scoring,
         SignsInv, Placed, PlacesKept
<1>7. ASSUME NEW s \in Slot, RetryDoes(s)
      PROVE  PlacesKept
  BY <1>7
     DEF RetryDoes, Moves, OthersStay, SamePayment, SameEvidence, Paying, Scoring,
         SignsInv, Placed, PlacesKept
<1>8. ASSUME NEW s \in Slot, NEW p \in Predictions, DecideDoes(s, p)
      PROVE  PlacesKept
  BY <1>8
     DEF DecideDoes, OthersStay, SamePayment, SameEvidence, Paying, Scoring, SignsInv, Placed,
         PlacesKept
<1>9. ASSUME NEW s \in Slot, CreateDoes(s)
      PROVE  PlacesKept
  BY <1>9
     DEF CreateDoes, OthersStay, Paying, Scoring, SignsInv, Placed, PlacesKept
<1>10. ASSUME NEW s \in Slot, CreateAlertDoes(s)
      PROVE  PlacesKept
  BY <1>10
     DEF CreateAlertDoes, Moves, OthersStay, SamePayment, SameEvidence, Paying, Scoring,
         SignsInv, Placed, PlacesKept
<1>11. ASSUME NEW S \in SUBSET Slot, EndDoes(S)
      PROVE  PlacesKept
  BY <1>11, IdleIsState
     DEF EndDoes, Paying, Scoring, SignsInv, Placed, PlacesKept
<1>12. CASE UpdateDoes
  BY <1>12
     DEF UpdateDoes, Paying, Scoring, SignsInv, Placed, PlacesKept
<1>13. CASE TickDoes
  BY <1>13
     DEF TickDoes, Paying, Scoring, SignsInv, Placed, PlacesKept
<1>14. CASE UNCHANGED vars
  BY <1>14 DEF vars, Paying, Scoring, SignsInv, Placed, PlacesKept
<1> QED
  BY <1>1, <1>2, <1>3, <1>4, <1>5, <1>6, <1>7, <1>8, <1>9, <1>10, <1>11, <1>12, <1>13, <1>14
  DEF Step

LEMMA SignsStay ==
  ASSUME Typed, \A q \in Slot : Grounded(q), SignsInv, Step
  PROVE  \A i \in DOMAIN txns' : Placed(txns'[i]) /\ Signed(txns', i)
<1>0. Len(txns) \in Nat /\ DOMAIN txns = 1 .. Len(txns)
      /\ \A i \in DOMAIN txns : txns[i].seen \in Nat /\ txns[i].seen < i
  <2>1. \A d \in TransactionDoc : d.seen \in Nat
    BY ParameterAssumption DEF TransactionDoc
  <2>2. \A i \in DOMAIN txns : txns[i] \in TransactionDoc
    BY DEF Typed, Documents
  <2> QED
    BY <2>1, <2>2 DEF Typed, Documents
<1>1. CASE txns' = txns
  BY <1>1 DEF SignsInv
<1>2. ASSUME NEW s \in Slot, CreateDoes(s), NEW i \in DOMAIN txns'
      PROVE  Placed(txns'[i]) /\ Signed(txns', i)
  <2> DEFINE n == Len(txns) + 1
  <2>1. /\ request[s].at = "create" /\ DOMAIN txns' = 1 .. n
        /\ \A j \in 1 .. Len(txns) : txns'[j] = txns[j]
        /\ txns'[n].user = request[s].user /\ txns'[n].device = request[s].device
        /\ txns'[n].address = request[s].address
        /\ txns'[n].place = request[s].place /\ txns'[n].why = request[s].why
        /\ txns'[n].seen = request[s].seen /\ txns'[n].located = request[s].located
    BY <1>2 DEF CreateDoes
  <2>2. CASE i \in 1 .. Len(txns)
    <3>1. txns'[i] = txns[i] /\ i \in DOMAIN txns /\ \A j \in 1 .. i : txns'[j] = txns[j]
      BY <1>0, <2>1, <2>2
    <3>2. PICK j \in LatestOf(txns, txns[i], i - 1) :
            /\ "deviceMismatch" \in txns[i].why <=> j # 0 /\ txns[j].device # txns[i].device
            /\ "impossibleTravel" \in txns[i].why <=> j # 0 /\ txns[j].place # txns[i].place
      BY <3>1 DEF SignsInv, Signed
    <3>3. j \in 0 .. i - 1 /\ (j # 0 => SameIdentity(txns[j], txns[i]))
          /\ \A k \in j + 1 .. txns[i].seen : ~SameIdentity(txns[k], txns[i])
      BY DEF LatestOf
    <3>4. j # 0 => txns'[j] = txns[j]
      BY <1>0, <3>1, <3>3
    <3>5. \A k \in j + 1 .. txns'[i].seen : ~SameIdentity(txns'[k], txns'[i])
      BY <1>0, <3>1, <3>3
    <3>6. j \in LatestOf(txns', txns'[i], i - 1)
      BY <3>1, <3>3, <3>4, <3>5 DEF LatestOf
    <3>7. Signed(txns', i)
      BY <3>1, <3>2, <3>4, <3>6 DEF Signed
    <3> QED
      BY <3>1, <3>7 DEF SignsInv
  <2>3. CASE i = n
    <3>1. Placed(txns'[n])
      BY <2>1 DEF SignsInv, Scoring, Placed
    <3>2. /\ Compared(txns, Len(txns), request[s])
          /\ "impossibleTravel" \in request[s].why <=> request[s].evidence.travel
          /\ "deviceMismatch" \in request[s].why <=> request[s].evidence.newDevice
      <4>1. "last" \notin request[s].reads
        BY <2>1 DEF Typed, RequestSound
      <4> QED
        BY <2>1, <4>1 DEF Grounded, LastGrounded, DecidedWell, Scoring
    <3>3. PICK j \in LatestOf(txns, request[s], Len(txns)) :
            /\ request[s].evidence.newDevice <=> j # 0 /\ txns[j].device # request[s].device
            /\ request[s].evidence.travel <=> j # 0 /\ txns[j].place # request[s].place
      BY <3>2 DEF Compared
    <3>4. j \in 0 .. Len(txns) /\ (j # 0 => SameIdentity(txns[j], request[s]))
          /\ \A k \in j + 1 .. request[s].seen : ~SameIdentity(txns[k], request[s])
      BY DEF LatestOf
    <3>5. \A d : SameIdentity(d, txns'[n]) <=> SameIdentity(d, request[s])
      BY <2>1 DEF SameIdentity
    <3>6. request[s].seen \in Nat /\ request[s].seen <= Len(txns)
      BY <2>1, ParameterAssumption DEF Typed, RequestSound, RequestState, Paying
    <3>7. j # 0 => txns'[j] = txns[j] /\ SameIdentity(txns'[j], txns'[n])
      BY <1>0, <2>1, <3>4, <3>5
    <3>8. \A k \in j + 1 .. txns'[n].seen : ~SameIdentity(txns'[k], txns'[n])
      BY <1>0, <2>1, <3>4, <3>5, <3>6
    <3>9. j \in 0 .. n - 1
      BY <1>0, <3>4
    <3> HIDE DEF n
    <3>10. j \in LatestOf(txns', txns'[n], n - 1)
      BY <3>7, <3>8, <3>9 DEF LatestOf
    <3>11. Signed(txns', n)
      BY <2>1, <3>2, <3>3, <3>7, <3>10 DEF Signed
    <3> QED
      BY <2>3, <3>1, <3>11
  <2> QED
    BY <1>0, <2>1, <2>2, <2>3
<1> QED
  BY <1>1, <1>2, OnlyCreateStores

(* For any payments in flight, and whatever clients say of their place: the
   device and travel signs of a stored payment are exactly those of one
   payment that was the latest of the identity while it was served, and
   travel between two places that were looked up is between addresses that
   lie apart. *)
THEOREM LastPaymentsDecide == Spec => []LastPaymentDecides
<1>1. Init => SignsInv
  <2> SUFFICES ASSUME Init PROVE SignsInv
    OBVIOUS
  <2>1. \A q \in Slot : request[q].at = "idle"
    BY IdleIsState DEF Init
  <2> QED
    BY <2>1 DEF Init, SignsInv, Scoring
<1>2. GroundedInv /\ SignsInv /\ [Next]_vars => SignsInv'
  <2> SUFFICES ASSUME GroundedInv, SignsInv, [Next]_vars PROVE SignsInv'
    OBVIOUS
  <2>1. Step
    BY StepEffect DEF GroundedInv
  <2>2. PlacesKept
    BY <2>1, RequestsStayPlaced DEF GroundedInv
  <2>3. \A i \in DOMAIN txns' : Placed(txns'[i]) /\ Signed(txns', i)
    BY <2>1, SignsStay DEF GroundedInv
  <2> QED
    BY <2>2, <2>3 DEF SignsInv, PlacesKept, Placed, Signed, Scoring, LatestOf, SameIdentity
<1>3. GroundedInv /\ SignsInv => LastPaymentDecides
  <2> SUFFICES ASSUME GroundedInv, SignsInv, NEW i \in DOMAIN txns
               PROVE  \E j \in Latest(i) :
                        /\ "deviceMismatch" \in txns[i].why
                             <=> j # 0 /\ txns[j].device # txns[i].device
                        /\ "impossibleTravel" \in txns[i].why
                             <=> j # 0 /\ txns[j].place # txns[i].place
                        /\ "impossibleTravel" \in txns[i].why /\ txns[i].located /\ txns[j].located
                             => PlaceOf[txns[j].address] # PlaceOf[txns[i].address]
    BY DEF LastPaymentDecides
  <2>1. PICK j \in LatestOf(txns, txns[i], i - 1) :
          /\ "deviceMismatch" \in txns[i].why <=> j # 0 /\ txns[j].device # txns[i].device
          /\ "impossibleTravel" \in txns[i].why <=> j # 0 /\ txns[j].place # txns[i].place
    BY DEF SignsInv, Signed
  <2>2. j \in Latest(i) /\ j \in 0 .. i - 1
    BY DEF Latest, LatestOf
  <2>3. j # 0 => j \in DOMAIN txns
    BY <2>2, StoredIsTyped DEF GroundedInv
  <2>4. Placed(txns[i]) /\ (j # 0 => Placed(txns[j]))
    BY <2>3 DEF SignsInv
  <2>5. "impossibleTravel" \in txns[i].why /\ txns[i].located /\ txns[j].located
          => PlaceOf[txns[j].address] # PlaceOf[txns[i].address]
    BY <2>1, <2>4 DEF Placed
  <2> QED
    BY <2>1, <2>2, <2>5
<1> QED
  BY <1>1, <1>2, <1>3, GroundedAlways, PTL DEF Spec

-----------------------------------------------------------------------------
(* Alerts. *)

(* The payments whose alert is about to be created. *)
Awaited == {request[s].txn : s \in {q \in Slot : request[q].at = "alert"}}

(* A suspicious payment has its alert, or its request is about to create   *)
(* it, or broke off in between.                                            *)
SuspicionIsAccountedFor ==
  \A i \in DOMAIN txns :
    Suspicious(txns[i].status) => i \in DOMAIN alerts \cup abandoned \cup Awaited

(* Nobody is about to create an alert that another request creates or that *)
(* there is already; only suspicious payments get one.                     *)
AlertsAreSingle ==
  /\ \A s \in Slot : request[s].at = "alert" =>
       /\ request[s].txn \notin DOMAIN alerts
       /\ \A q \in Slot \ {s} : request[q].at = "alert" => request[q].txn # request[s].txn
  /\ \A i \in DOMAIN alerts \cup Awaited : Suspicious(txns[i].status)

AlertInv == SuspicionIsAccountedFor /\ AlertsAreSingle

(* What of a request the alerts depend on is as it was. *)
LEMMA AlertsStay ==
  ASSUME AlertInv, UNCHANGED <<txns, abandoned>>, DOMAIN alerts' = DOMAIN alerts,
         \A q \in Slot :
           \/ request'[q].at # "alert" /\ request[q].at # "alert"
           \/ request'[q].at = request[q].at /\ request'[q].txn = request[q].txn
  PROVE  AlertInv'
<1>1. Awaited' = Awaited
  BY DEF Awaited
<1> QED
  BY <1>1 DEF AlertInv, SuspicionIsAccountedFor, AlertsAreSingle

LEMMA CreateAccounts ==
  ASSUME Typed, AlertInv, NEW s \in Slot, CreateDoes(s)
  PROVE  AlertInv'
<1> DEFINE n == Len(txns) + 1
<1>0. Len(txns) \in Nat /\ DOMAIN txns = 1 .. Len(txns)
      /\ DOMAIN alerts \subseteq DOMAIN txns
  BY DEF Typed, Documents
<1>1. /\ request[s].at = "create" /\ DOMAIN txns' = 1 .. n
      /\ \A i \in 1 .. Len(txns) : txns'[i] = txns[i]
      /\ \A q \in Slot : q # s => request'[q] = request[q]
      /\ request'[s].txn = n /\ (request'[s].at = "alert" <=> Suspicious(txns'[n].status))
      /\ UNCHANGED <<alerts, abandoned>>
  BY DEF CreateDoes, OthersStay
<1>2. \A q \in Slot : request[q].at = "alert" => request[q].txn \in DOMAIN txns
  BY DEF Typed, RequestSound
<1>3. Awaited' = IF Suspicious(txns'[n].status) THEN Awaited \cup {n} ELSE Awaited
  BY <1>1 DEF Awaited
<1>4. Awaited \subseteq DOMAIN txns
  BY <1>2 DEF Awaited
<1>5. n \notin DOMAIN txns /\ n \in Nat
  BY <1>0
<1>6. SuspicionIsAccountedFor'
  <2> SUFFICES ASSUME NEW i \in 1 .. n, Suspicious(txns'[i].status)
               PROVE  i \in DOMAIN alerts \cup abandoned \cup Awaited'
    BY <1>1 DEF SuspicionIsAccountedFor
  <2>1. CASE i = n
    BY <1>3, <2>1
  <2>2. CASE i \in DOMAIN txns
    BY <1>0, <1>1, <1>3, <2>2 DEF AlertInv, SuspicionIsAccountedFor
  <2> QED
    BY <1>0, <2>1, <2>2
<1>7. AlertsAreSingle'
  <2>1. ASSUME NEW p \in Slot, request'[p].at = "alert"
        PROVE  /\ request'[p].txn \notin DOMAIN alerts
               /\ \A q \in Slot \ {p} : request'[q].at = "alert" => request'[q].txn # request'[p].txn
    BY <1>0, <1>1, <1>2, <1>5, <2>1 DEF AlertInv, AlertsAreSingle
  <2>2. ASSUME NEW i \in DOMAIN alerts \cup Awaited' PROVE Suspicious(txns'[i].status)
    <3>1. CASE i = n
      BY <1>0, <1>3, <1>4, <1>5, <2>2, <3>1
    <3>2. CASE i \in DOMAIN alerts \cup Awaited
      BY <1>0, <1>1, <1>4, <3>2 DEF AlertInv, AlertsAreSingle
    <3> QED
      BY <1>3, <2>2, <3>1, <3>2
  <2> QED
    BY <1>1, <2>1, <2>2 DEF AlertsAreSingle
<1> QED
  BY <1>6, <1>7 DEF AlertInv

LEMMA CreateAlertAccounts ==
  ASSUME Typed, AlertInv, NEW s \in Slot, CreateAlertDoes(s)
  PROVE  AlertInv'
<1>1. /\ request[s].at = "alert" /\ request'[s].at = "answer"
      /\ \A q \in Slot : q # s => request'[q] = request[q]
      /\ DOMAIN alerts' = DOMAIN alerts \cup {request[s].txn}
      /\ UNCHANGED <<txns, abandoned>>
  BY DEF CreateAlertDoes, Moves, OthersStay
<1>2. Awaited' \subseteq Awaited /\ Awaited \subseteq Awaited' \cup {request[s].txn}
  BY <1>1 DEF Awaited
<1>3. request[s].txn \in Awaited
  BY <1>1 DEF Awaited
<1>4. SuspicionIsAccountedFor'
  BY <1>1, <1>2 DEF AlertInv, SuspicionIsAccountedFor
<1>5. AlertsAreSingle'
  BY <1>1, <1>2, <1>3 DEF AlertInv, AlertsAreSingle
<1> QED
  BY <1>4, <1>5 DEF AlertInv

LEMMA EndAccounts ==
  ASSUME Typed, AlertInv, NEW S \in SUBSET Slot, EndDoes(S)
  PROVE  AlertInv'
<1>1. /\ \A q \in Slot \ S : request'[q] = request[q]
      /\ \A q \in S : request'[q].at = "idle"
      /\ abandoned \subseteq abandoned'
      /\ \A q \in S : request[q].at = "alert" => request[q].txn \in abandoned'
      /\ UNCHANGED <<txns, alerts>>
  BY IdleIsState DEF EndDoes
<1>2. Awaited' \subseteq Awaited /\ Awaited \subseteq Awaited' \cup abandoned'
  BY <1>1 DEF Awaited
<1>3. SuspicionIsAccountedFor'
  BY <1>1, <1>2 DEF AlertInv, SuspicionIsAccountedFor
<1>4. AlertsAreSingle'
  BY <1>1, <1>2 DEF AlertInv, AlertsAreSingle
<1> QED
  BY <1>3, <1>4 DEF AlertInv

LEMMA StepAccounts ==
  ASSUME Typed, AlertInv, Step
  PROVE  AlertInv'
<1>1. ASSUME NEW s \in Slot, CreateDoes(s) PROVE AlertInv'
  BY <1>1, CreateAccounts
<1>2. ASSUME NEW s \in Slot, CreateAlertDoes(s) PROVE AlertInv'
  BY <1>2, CreateAlertAccounts
<1>3. ASSUME NEW S \in SUBSET Slot, EndDoes(S) PROVE AlertInv'
  BY <1>3, EndAccounts
<1>4. ASSUME NEW s \in Slot,
             \A q \in Slot : q # s => request'[q] = request[q],
             request[s].at # "alert", request'[s].at # "alert",
             UNCHANGED <<txns, alerts, abandoned>>
      PROVE  AlertInv'
  <2>1. \A q \in Slot :
          \/ request'[q].at # "alert" /\ request[q].at # "alert"
          \/ request'[q].at = request[q].at /\ request'[q].txn = request[q].txn
    BY <1>4
  <2>2. DOMAIN alerts' = DOMAIN alerts
    BY <1>4
  <2> QED
    BY <1>4, <2>1, <2>2, AlertsStay
<1>5. ASSUME NEW s \in Slot, NEW u \in User, NEW d \in Device, NEW addr \in Address,
             NEW claim \in Claims, NEW amount \in Amounts, NEW night \in Nights,
             ArriveDoes(s, u, d, addr, claim, amount, night)
      PROVE  AlertInv'
  BY <1>4, <1>5 DEF ArriveDoes, OthersStay
<1>6. ASSUME NEW s \in Slot,
             LocateDoes(s) \/ ScoreDoes(s) \/ RetryDoes(s) \/ (\E p \in Predictions : DecideDoes(s, p))
      PROVE  AlertInv'
  BY <1>4, <1>6 DEF LocateDoes, ScoreDoes, RetryDoes, Moves, DecideDoes, OthersStay
<1>7. ASSUME NEW s \in Slot, ReadVelocityDoes(s) \/ ReadLastDoes(s) \/ ReadFailuresDoes(s)
      PROVE  AlertInv'
  <2>1. request[s].at = "read"
    BY <1>7 DEF ReadVelocityDoes, ReadLastDoes, ReadFailuresDoes, ReadDoes, Typed, RequestSound
  <2> QED
    BY <1>4, <1>7, <2>1 DEF ReadVelocityDoes, ReadLastDoes, ReadFailuresDoes, ReadDoes, OthersStay
<1>8. CASE UpdateDoes \/ TickDoes \/ UNCHANGED vars
  BY <1>8, AlertsStay DEF UpdateDoes, TickDoes, vars
<1> QED
  BY <1>1, <1>2, <1>3, <1>5, <1>6, <1>7, <1>8 DEF Step

LEMMA AlertsAlways == Spec => []AlertInv
<1>1. Init => AlertInv
  <2> SUFFICES ASSUME Init PROVE AlertInv
    OBVIOUS
  <2>1. /\ DOMAIN txns = {} /\ DOMAIN alerts = {}
        /\ \A q \in Slot : request[q].at # "alert"
    BY IdleIsState DEF Init
  <2>2. Awaited = {}
    BY <2>1 DEF Awaited
  <2> QED
    BY <2>1, <2>2 DEF AlertInv, SuspicionIsAccountedFor, AlertsAreSingle
<1>2. GroundedInv /\ AlertInv /\ [Next]_vars => AlertInv'
  BY StepEffect, StepAccounts DEF GroundedInv
<1> QED
  BY <1>1, <1>2, GroundedAlways, PTL DEF Spec

(* createTransaction: a suspicious payment without an alert is one whose   *)
(* own request is about to create it, or broke off before; this is what is *)
(* left of SuspicionIsAlerted without fairness.                            *)
THEOREM NoSuspicionIsForgotten == Spec => []SuspicionIsAccountedFor
<1>1. AlertInv => SuspicionIsAccountedFor
  BY DEF AlertInv
<1> QED
  BY <1>1, AlertsAlways, PTL

(* createTransaction: no payment gets two alerts and none that is not      *)
(* suspicious gets one.                                                    *)
THEOREM AlertsAreCreatedOnce == Spec => []AlertsAreSingle
<1>1. AlertInv => AlertsAreSingle
  BY DEF AlertInv
<1> QED
  BY <1>1, AlertsAlways, PTL

-----------------------------------------------------------------------------
(* What is left of RequestsEnd without fairness: a request has only so     *)
(* many steps to go, each brings it nearer to its end, and nothing puts it *)
(* back.                                                                   *)

One(which, r) == IF which \in r.reads THEN 1 ELSE 0
ReadsLeft(r) == One("velocity", r) + One("last", r) + One("failures", r)

(* The steps a request still has to go, at most. *)
Remaining(r) ==
  CASE r.at = "idle"   -> 0
    [] r.at = "answer" -> 1
    [] r.at = "alert"  -> 2
    [] r.at = "create" -> 3
    [] r.at = "ask"    -> 3 + AiAttempts - r.tries
    [] r.at = "read"   -> 4 + AiAttempts + ReadsLeft(r)
    [] r.at = "locate" -> 8 + AiAttempts

(* A request has an attempt left while it asks, and has made none before   *)
(* or after.                                                               *)
Patient(r) ==
  /\ r.at # "ask" => r.tries = 0
  /\ r.tries < AiAttempts

PatienceInv == \A s \in Slot : Patient(request[s])

Nearer(s) == Remaining(request'[s]) < Remaining(request[s])

LEMMA ReadsLeftIsSmall ==
  ASSUME NEW r
  PROVE  ReadsLeft(r) \in 0 .. 3
BY DEF ReadsLeft, One

LEMMA RemainingIsBounded ==
  ASSUME NEW r \in RequestState, Patient(r)
  PROVE  Remaining(r) \in 0 .. 8 + AiAttempts /\ (Remaining(r) = 0 <=> r.at = "idle")
<1>1. /\ AiAttempts \in Nat \ {0} /\ r.tries \in 0 .. AiAttempts /\ r.tries < AiAttempts
      /\ r.at \in {"idle", "locate", "read", "ask", "create", "alert", "answer"}
  BY ParameterAssumption DEF RequestState, Patient
<1>2. ReadsLeft(r) \in 0 .. 3
  BY ReadsLeftIsSmall
<1>3. CASE r.at = "read"
  <2>1. Remaining(r) = 4 + AiAttempts + ReadsLeft(r)
    BY <1>3 DEF Remaining
  <2> QED
    BY <1>1, <1>2, <1>3, <2>1
<1>4. CASE r.at # "read"
  BY <1>1, <1>4 DEF Remaining
<1> QED
  BY <1>3, <1>4

(* One read less is to be resolved. *)
LEMMA ReadsShrink ==
  ASSUME NEW r, NEW q, NEW which \in Read, which \in r.reads, q.reads = r.reads \ {which}
  PROVE  ReadsLeft(q) < ReadsLeft(r)
<1>1. CASE which = "velocity"
  BY <1>1 DEF ReadsLeft, One
<1>2. CASE which = "last"
  BY <1>2 DEF ReadsLeft, One
<1>3. CASE which = "failures"
  BY <1>3 DEF ReadsLeft, One
<1> QED
  BY <1>1, <1>2, <1>3 DEF Read

(* What a step of a handler does to where it is, and to its attempts. *)
Advances(s) ==
  LET r == request[s]
      q == request'[s] IN
  \/ r.at = "locate" /\ q.at = "read" /\ q.tries = r.tries
  \/ /\ r.at = "read" /\ q.at = "read" /\ q.tries = r.tries
     /\ \E which \in Read : which \in r.reads /\ q.reads = r.reads \ {which}
  \/ r.at = "read" /\ q.at = "ask" /\ q.tries = r.tries
  \/ r.at = "ask" /\ q.at = "ask" /\ q.tries = r.tries + 1 /\ q.tries < AiAttempts
  \/ r.at = "ask" /\ q.at = "create" /\ q.tries = 0
  \/ r.at = "create" /\ q.at \in {"alert", "answer"} /\ q.tries = 0
  \/ r.at = "alert" /\ q.at = "answer" /\ q.tries = r.tries
  \/ r.at = "answer" /\ q.at = "idle" /\ q.tries = 0

LEMMA ServeAdvances ==
  ASSUME Typed, NEW s \in Slot, Serve(s)
  PROVE  Advances(s) /\ OthersStay(s)
<1>1. /\ request \in [Slot -> RequestState] /\ request[s] \in RequestState
      /\ request[s].reads # {} => request[s].at = "read"
  BY DEF Typed, RequestSound
<1> USE DEF RequestState, Advances, OthersStay
<1>2. ASSUME NEW x, NEW place, NEW y, Located(s, place, y, x) PROVE Advances(s) /\ OthersStay(s)
  BY <1>1, <1>2 DEF Located
<1>3. CASE ReadVelocity(s)
  BY <1>1, <1>3 DEF ReadVelocity, Read
<1>4. CASE ReadLast(s)
  BY <1>1, <1>4 DEF ReadLast, Read
<1>5. CASE ReadFailures(s)
  BY <1>1, <1>5 DEF ReadFailures, Read
<1>6. CASE Score(s)
  BY <1>1, <1>6 DEF Score
<1>7. ASSUME NEW p, Decide(s, p) PROVE Advances(s) /\ OthersStay(s)
  BY <1>1, <1>7 DEF Decide
<1>8. CASE AiFails(s)
  BY <1>1, <1>7, <1>8 DEF AiFails
<1>9. CASE AiAnswers(s)
  BY <1>7, <1>9 DEF AiAnswers
<1>10. CASE Create(s)
  BY <1>1, <1>10 DEF Create, Idle
<1>11. CASE CreateAlert(s)
  BY <1>1, <1>11 DEF CreateAlert
<1>12. CASE Respond(s)
  BY <1>1, <1>12 DEF Respond, Idle
<1>13. CASE (\E coordinates \in BOOLEAN, x \in IpRisks : LookUp(s, coordinates, x)) \/ KeepClaim(s)
  BY <1>2, <1>13 DEF LookUp, KeepClaim
<1> QED
  BY <1>3, <1>4, <1>5, <1>6, <1>8, <1>9, <1>10, <1>11, <1>12, <1>13 DEF Serve

(* Each advance is a step towards the end. *)
LEMMA AdvanceIsNearer ==
  ASSUME NEW s \in Slot, request[s] \in RequestState, Patient(request[s]), Advances(s)
  PROVE  Nearer(s) /\ Patient(request'[s])
<1>1. /\ AiAttempts \in Nat \ {0} /\ request[s].tries \in 0 .. AiAttempts
      /\ request[s].tries < AiAttempts /\ (request[s].at # "ask" => request[s].tries = 0)
  BY ParameterAssumption DEF RequestState, Patient
<1>2. ReadsLeft(request[s]) \in 0 .. 3 /\ ReadsLeft(request'[s]) \in 0 .. 3
  BY ReadsLeftIsSmall
<1>3. Patient(request'[s])
  BY <1>1 DEF Advances, Patient
<1>4. CASE request[s].at = "read" /\ request'[s].at = "read"
  <2>1. ReadsLeft(request'[s]) < ReadsLeft(request[s])
    BY <1>4, ReadsShrink DEF Advances
  <2>2. /\ Remaining(request[s]) = 4 + AiAttempts + ReadsLeft(request[s])
        /\ Remaining(request'[s]) = 4 + AiAttempts + ReadsLeft(request'[s])
    BY <1>4 DEF Remaining
  <2> QED
    BY <1>1, <1>2, <1>3, <2>1, <2>2 DEF Nearer
<1>5. CASE request[s].at # "read" \/ request'[s].at # "read"
  BY <1>1, <1>2, <1>3, <1>5 DEF Nearer, Remaining, Advances
<1> QED
  BY <1>4, <1>5

(* Every request stays as it is, comes nearer to its end, or has just come. *)
LEMMA StepIsNearer ==
  ASSUME Typed, PatienceInv, [Next]_vars, NEW q \in Slot
  PROVE  /\ Patient(request'[q])
         /\ \/ request'[q] = request[q]
            \/ Nearer(q)
            \/ request[q].at = "idle"
<1>0. /\ request \in [Slot -> RequestState] /\ request[q] \in RequestState /\ Patient(request[q])
      /\ AiAttempts \in Nat \ {0}
  BY ParameterAssumption DEF Typed, PatienceInv
<1>1. Idle.at = "idle" /\ Idle.tries = 0
  BY DEF Idle
<1>2. Remaining(Idle) = 0 /\ Patient(Idle)
  BY <1>0, <1>1 DEF Remaining, Patient
<1>3. ASSUME request'[q] \in {request[q], Idle}
      PROVE  /\ Patient(request'[q])
             /\ request'[q] = request[q] \/ Nearer(q) \/ request[q].at = "idle"
  <2>1. CASE request[q].at = "idle"
    <3>1. request'[q].at = "idle"
      BY <1>1, <1>3, <2>1
    <3> QED
      BY <1>0, <1>2, <1>3, <2>1
  <2>2. CASE request[q].at # "idle"
    <3>1. Remaining(request[q]) \in 0 .. 8 + AiAttempts /\ Remaining(request[q]) # 0
      BY <1>0, <2>2, RemainingIsBounded
    <3> QED
      BY <1>0, <1>2, <1>3, <3>1 DEF Nearer
  <2> QED
    BY <2>1, <2>2
<1>4. ASSUME NEW s \in Slot, Serve(s)
      PROVE  /\ Patient(request'[q])
             /\ request'[q] = request[q] \/ Nearer(q) \/ request[q].at = "idle"
  <2>1. Advances(s) /\ OthersStay(s)
    BY <1>4, ServeAdvances
  <2>2. CASE q = s
    BY <1>0, <2>1, <2>2, AdvanceIsNearer
  <2>3. CASE q # s
    BY <1>3, <2>1, <2>3 DEF OthersStay
  <2> QED
    BY <2>2, <2>3
<1>5. ASSUME NEW s \in Slot, NEW u \in User, NEW d \in Device, NEW addr \in Address,
             NEW claim \in Claims, NEW amount \in Amounts, NEW night \in Nights,
             Arrive(s, u, d, addr, claim, amount, night)
      PROVE  /\ Patient(request'[q])
             /\ request'[q] = request[q] \/ Nearer(q) \/ request[q].at = "idle"
  <2>1. CASE q = s
    <3>1. request'[q].at = "locate" /\ request'[q].tries = 0 /\ request[q].at = "idle"
      BY <1>0, <1>5, <2>1 DEF Arrive, Idle
    <3> QED
      BY <1>0, <3>1 DEF Patient
  <2>2. CASE q # s
    BY <1>0, <1>3, <1>5, <2>2 DEF Arrive
  <2> QED
    BY <2>1, <2>2
<1>6. ASSUME NEW S \in SUBSET Slot, BreakOff(S)
      PROVE  /\ Patient(request'[q])
             /\ request'[q] = request[q] \/ Nearer(q) \/ request[q].at = "idle"
  BY <1>3, <1>6 DEF BreakOff
<1>7. ASSUME NEW s \in Slot, Fail(s)
      PROVE  /\ Patient(request'[q])
             /\ request'[q] = request[q] \/ Nearer(q) \/ request[q].at = "idle"
  BY <1>6, <1>7 DEF Fail
<1>8. CASE Crash
  BY <1>6, <1>8 DEF Crash
<1>9. CASE UNCHANGED request
  BY <1>3, <1>9
<1> QED
  BY <1>4, <1>5, <1>7, <1>8, <1>9 DEF Next, UpdateAlertStatus, Tick, vars

LEMMA PatienceAlways == Spec => []PatienceInv
<1>1. Init => PatienceInv
  <2>1. Patient(Idle)
    BY ParameterAssumption DEF Patient, Idle
  <2> QED
    BY <2>1 DEF Init, PatienceInv
<1>2. GroundedInv /\ PatienceInv /\ [Next]_vars => PatienceInv'
  BY StepIsNearer DEF GroundedInv, PatienceInv
<1> QED
  BY <1>1, <1>2, GroundedAlways, PTL DEF Spec

(* getFraudPrediction and its callers: at no moment has a request more     *)
(* than eight steps to go besides its attempts at the AI service, and one  *)
(* that asks has an attempt left to make.                                  *)
THEOREM RequestsAreShort ==
  Spec => [](\A s \in Slot : /\ Remaining(request[s]) \in 0 .. 8 + AiAttempts
                             /\ Remaining(request[s]) = 0 <=> request[s].at = "idle"
                             /\ request[s].at = "ask" => request[s].tries < AiAttempts)
<1>1. GroundedInv /\ PatienceInv =>
        \A s \in Slot : /\ Remaining(request[s]) \in 0 .. 8 + AiAttempts
                        /\ Remaining(request[s]) = 0 <=> request[s].at = "idle"
                        /\ request[s].at = "ask" => request[s].tries < AiAttempts
  BY RemainingIsBounded DEF GroundedInv, Typed, PatienceInv, Patient
<1> QED
  BY <1>1, GroundedAlways, PatienceAlways, PTL

(* fraudEngine and createTransaction: whatever else happens, a request is  *)
(* left alone or brought nearer to its end, and every step of its own does *)
(* so; with RequestsAreShort, none takes more than 8 + AiAttempts steps.   *)
THEOREM RequestsOnlyAdvance ==
  Spec => [][\A s \in Slot :
               /\ request[s].at # "idle" => request'[s] = request[s] \/ Nearer(s)
               /\ Serve(s) => Nearer(s)]_vars
<1>1. GroundedInv /\ PatienceInv /\ [Next]_vars =>
        [\A s \in Slot :
           /\ request[s].at # "idle" => request'[s] = request[s] \/ Nearer(s)
           /\ Serve(s) => Nearer(s)]_vars
  <2> SUFFICES ASSUME GroundedInv, PatienceInv, [Next]_vars, NEW s \in Slot
               PROVE  /\ request[s].at # "idle" => request'[s] = request[s] \/ Nearer(s)
                      /\ Serve(s) => Nearer(s)
    OBVIOUS
  <2>1. Typed /\ request[s] \in RequestState /\ Patient(request[s])
    BY DEF GroundedInv, Typed, PatienceInv
  <2>2. request[s].at # "idle" => request'[s] = request[s] \/ Nearer(s)
    BY <2>1, StepIsNearer, IdleIsState
  <2>3. Serve(s) => Nearer(s)
    BY <2>1, ServeAdvances, AdvanceIsNearer
  <2> QED
    BY <2>2, <2>3
<1> QED
  BY <1>1, GroundedAlways, PatienceAlways, PTL DEF Spec
=============================================================================
