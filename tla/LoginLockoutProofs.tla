------------------------- MODULE LoginLockoutProofs -------------------------
(***************************************************************************)
(* For any number of attempts in flight, e-mails and addresses, and any    *)
(* configuration: no lock comes before its failures, and where the         *)
(* attempts at a counter come one at a time it locks with the Threshold-th *)
(* failure in a row and an account lock that was answered holds.           *)
(***************************************************************************)
EXTENDS LoginLockout, TLAPS

(* The counter of kind k that an attempt q concerns. *)
Key(q, k) == IF k = "ip" THEN <<k, q.address>> ELSE <<k, q.email>>

(* n failures have been counted against this document. *)
Earned(doc, n) == Threshold * doc.offenses + doc.failed <= n

(* What a handler's locals say about themselves ... *)
Shaped(q) ==
  /\ q.at = "idle" => q = Idle
  /\ q.at # "idle" => q.email \in Email /\ q.address \in Address
  /\ q.at = "check" => q.writes = {}
  /\ q.at = "record" => q.writes \subseteq Throttle

(* ... and what it carries from a read to a write was earned, too. *)
Backed(q, f) ==
  /\ q.at \in {"check", "record"} => Earned(q.plan["account"], f[Key(q, "account")])
  /\ q.at = "record" => \A k \in q.writes : Earned(q.plan[k], f[Key(q, k)])

EarnedInv ==
  /\ TypeOK
  /\ \A a \in Attempt : Shaped(attempt[a]) /\ Backed(attempt[a], failures)
  /\ LocksAreEarned

-----------------------------------------------------------------------------
(* What a failure makes of a counter. *)

LEMMA Config ==
  /\ Threshold \in Nat /\ Threshold >= 1 /\ LockBase \in Nat /\ LockMax \in Nat /\ LockMax >= 1
  /\ ResetAfter \in Nat /\ MaxTime \in Nat /\ MaxFailures \in Nat /\ MaxCrashes \in Nat
BY ConfigAssumption

LEMMA KeyIsCounter ==
  ASSUME NEW q, q.email \in Email, q.address \in Address, NEW k \in Kind
  PROVE  Key(q, k) \in Counter
BY DEF Key, Kind, Counter

LEMMA LockIsBounded ==
  ASSUME NEW o \in Nat, o >= 1
  PROVE  LockFor(o) \in 0 .. LockMax
<1> DEFINE p == 2 ^ (o - 1)
<1>1. o <= LockMax => p \in Nat
  <2>1. o <= LockMax => o - 1 \in 0 .. (LockMax - 1)
    BY Config
  <2> QED BY <2>1, PowerAssumption
<1>2. LockFor(o) = IF o <= LockMax /\ LockBase * p < LockMax THEN LockBase * p ELSE LockMax
  BY DEF LockFor
<1> HIDE DEF p
<1>3. o <= LockMax => LockBase * p \in Nat
  BY <1>1, Config
<1> QED BY <1>2, <1>3, Config

(* One more failure is one more counted, lock or no lock. *)
LEMMA AfterFailureIsEarned ==
  ASSUME NEW doc \in CounterDoc, now \in 0 .. MaxTime, NEW n \in Nat, Earned(doc, n)
  PROVE  /\ AfterFailure(doc) \in CounterDoc
         /\ Earned(AfterFailure(doc), n + 1)
         /\ AfterFailure(doc).failed = 0 \/ AfterFailure(doc).failed = doc.failed + 1
<1>0. /\ doc.failed \in 0 .. (Threshold - 1) /\ doc.offenses \in Nat
      /\ doc.lockUntil \in 0 .. (MaxTime + LockMax) /\ doc.last \in 0 .. MaxTime
      /\ doc = [failed |-> doc.failed, offenses |-> doc.offenses,
                lockUntil |-> doc.lockUntil, last |-> doc.last]
  BY DEF CounterDoc
<1> DEFINE o == doc.offenses
           f == doc.failed
           u == now + LockFor(o + 1)
<1>1. CASE f + 1 >= Threshold
  <2>1. AfterFailure(doc) = [failed |-> 0, offenses |-> o + 1, lockUntil |-> u, last |-> now]
    BY <1>1 DEF AfterFailure
  <2>2. u \in 0 .. (MaxTime + LockMax)
    BY <1>0, LockIsBounded, Config
  <2>3. Threshold * (o + 1) + 0 <= n + 1
    <3>1. Threshold * o + f <= n
      BY DEF Earned
    <3>2. Threshold * (o + 1) = Threshold * o + Threshold /\ Threshold * o \in Nat
      BY <1>0, Config
    <3> QED BY <1>0, <1>1, <3>1, <3>2, Config
  <2> HIDE DEF o, f, u
  <2>4. AfterFailure(doc) \in CounterDoc
    BY <1>0, <2>1, <2>2, Config DEF CounterDoc, o
  <2> QED BY <2>1, <2>3, <2>4 DEF Earned
<1>2. CASE ~(f + 1 >= Threshold)
  <2>1. AfterFailure(doc) = [failed |-> f + 1, offenses |-> o, lockUntil |-> doc.lockUntil, last |-> now]
    BY <1>0, <1>2 DEF AfterFailure
  <2>2. Threshold * o + (f + 1) <= n + 1
    <3>1. Threshold * o + f <= n /\ Threshold * o \in Nat
      BY <1>0, Config DEF Earned
    <3> QED BY <1>0, <3>1
  <2>3. AfterFailure(doc) \in CounterDoc
    BY <1>0, <1>2, <2>1, Config DEF CounterDoc
  <2> QED BY <2>1, <2>2, <2>3 DEF Earned
<1> QED BY <1>1, <1>2

(* A stale throttle keeps what it earned, or less. *)
LEMMA WithoutStaleIsEarned ==
  ASSUME NEW doc \in CounterDoc, now \in 0 .. MaxTime, NEW n \in Nat, Earned(doc, n)
  PROVE  /\ WithoutStale(doc) \in CounterDoc
         /\ Earned(WithoutStale(doc), n)
         /\ \/ WithoutStale(doc).failed = doc.failed
            \/ WithoutStale(doc).failed = 0 /\ now - doc.last > ResetAfter
<1>1. CASE now - doc.last > ResetAfter
  <2>1. WithoutStale(doc) = [doc EXCEPT !.failed = 0, !.lockUntil = 0]
    BY <1>1 DEF WithoutStale
  <2>2. WithoutStale(doc) \in CounterDoc /\ WithoutStale(doc).failed = 0
        /\ WithoutStale(doc).offenses = doc.offenses
    <3>1. 0 \in 0 .. (Threshold - 1) /\ 0 \in 0 .. (MaxTime + LockMax)
      BY Config
    <3>2. WithoutStale(doc) = [failed |-> 0, offenses |-> doc.offenses, lockUntil |-> 0, last |-> doc.last]
      BY <2>1 DEF CounterDoc
    <3>3. doc.offenses \in Nat /\ doc.last \in 0 .. MaxTime
      BY DEF CounterDoc
    <3> QED BY <3>1, <3>2, <3>3 DEF CounterDoc
  <2>3. Threshold * doc.offenses + 0 <= n
    <3>1. doc.failed \in Nat /\ doc.offenses \in Nat
      BY Config DEF CounterDoc
    <3>2. Threshold * doc.offenses \in Nat
      BY <3>1, Config
    <3> QED BY <3>1, <3>2 DEF Earned
  <2>4. Earned(WithoutStale(doc), n)
    BY <2>2, <2>3, Zenon DEF Earned
  <2> QED BY <1>1, <2>2, <2>4
<1>2. CASE ~(now - doc.last > ResetAfter)
  BY <1>2 DEF WithoutStale
<1> QED BY <1>1, <1>2

-----------------------------------------------------------------------------
(* No lock comes early. *)

LEMMA PlanTyped ==
  ASSUME NEW q \in AttemptState, NEW k \in Kind
  PROVE  /\ q.plan[k] \in CounterDoc
         /\ Threshold * q.plan[k].offenses + q.plan[k].failed \in Nat
<1>1. q.plan[k] \in CounterDoc
  BY DEF AttemptState
<1>2. q.plan[k].offenses \in Nat /\ q.plan[k].failed \in Nat
  BY <1>1, Config DEF CounterDoc
<1>3. Threshold * q.plan[k].offenses \in Nat
  BY <1>2, Config
<1> QED BY <1>1, <1>2, <1>3

(* What was earned stays earned. *)
LEMMA BackedGrows ==
  ASSUME NEW q \in AttemptState, Shaped(q),
         NEW f \in [Counter -> Nat], NEW g \in [Counter -> Nat],
         \A c \in Counter : f[c] <= g[c], Backed(q, f)
  PROVE  Backed(q, g)
<1>1. ASSUME NEW k \in Kind, q.at # "idle", Earned(q.plan[k], f[Key(q, k)])
      PROVE  Earned(q.plan[k], g[Key(q, k)])
  <2>1. Key(q, k) \in Counter
    BY <1>1, KeyIsCounter DEF Shaped
  <2>2. f[Key(q, k)] \in Nat /\ g[Key(q, k)] \in Nat /\ f[Key(q, k)] <= g[Key(q, k)]
    BY <2>1
  <2>3. Threshold * q.plan[k].offenses + q.plan[k].failed \in Nat
    BY PlanTyped
  <2>4. Threshold * q.plan[k].offenses + q.plan[k].failed <= f[Key(q, k)]
    BY <1>1 DEF Earned
  <2>5. Threshold * q.plan[k].offenses + q.plan[k].failed <= g[Key(q, k)]
    BY <2>2, <2>3, <2>4
  <2> QED BY <2>5 DEF Earned
<1>2. q.at \in {"check", "record"} => Earned(q.plan["account"], g[Key(q, "account")])
  <2> SUFFICES ASSUME q.at \in {"check", "record"} PROVE Earned(q.plan["account"], g[Key(q, "account")])
    OBVIOUS
  <2> QED BY <1>1 DEF Backed, Kind
<1>3. ASSUME q.at = "record", NEW k \in q.writes PROVE Earned(q.plan[k], g[Key(q, k)])
  <2>1. k \in Kind
    BY DEF AttemptState
  <2> QED BY <1>1, <1>3, <2>1 DEF Backed
<1> QED BY <1>2, <1>3 DEF Backed

(* One handler moves on and failures are only ever counted. *)
LEMMA MovesEarned ==
  ASSUME EarnedInv, NEW a \in Attempt, NEW q \in AttemptState,
         attempt' = [attempt EXCEPT ![a] = q],
         failures' \in [Counter -> Nat], \A c \in Counter : failures[c] <= failures'[c],
         Shaped(q), Backed(q, failures')
  PROVE  /\ attempt' \in [Attempt -> AttemptState]
         /\ \A b \in Attempt : Shaped(attempt'[b]) /\ Backed(attempt'[b], failures')
<1>1. attempt \in [Attempt -> AttemptState] /\ failures \in [Counter -> Nat]
  BY DEF EarnedInv, TypeOK
<1>2. \A b \in Attempt : attempt'[b] = IF b = a THEN q ELSE attempt[b]
  BY <1>1
<1>3. ASSUME NEW b \in Attempt PROVE Shaped(attempt'[b]) /\ Backed(attempt'[b], failures')
  <2>1. attempt[b] \in AttemptState /\ Shaped(attempt[b]) /\ Backed(attempt[b], failures)
    BY <1>1 DEF EarnedInv
  <2>2. Backed(attempt[b], failures')
    BY <1>1, <2>1, BackedGrows
  <2> QED BY <1>2, <2>1, <2>2
<1> QED BY <1>1, <1>3

LEMMA IdleIsSound == Idle \in AttemptState /\ Zero \in CounterDoc /\ Shaped(Idle)
                       /\ \A f : Backed(Idle, f)
<1>1. Zero \in CounterDoc
  BY Config DEF Zero, CounterDoc
<1>2. Unread \in [Kind -> CounterDoc]
  BY <1>1 DEF Unread
<1>3. Idle \in AttemptState
  BY <1>2 DEF Idle, AttemptState
<1>4. Shaped(Idle) /\ \A f : Backed(Idle, f)
  BY DEF Idle, Shaped, Backed
<1> QED BY <1>1, <1>3, <1>4

(* Nothing but a handler's own place changes. *)
LEMMA AsideEarned ==
  ASSUME EarnedInv, UNCHANGED <<counter, failures, now, streak, crashes>>,
         attempt' \in [Attempt -> AttemptState],
         \A b \in Attempt : Shaped(attempt'[b]) /\ Backed(attempt'[b], failures'),
         told' \in SUBSET (Email \X (0 .. (MaxTime + LockMax))), overlapped' \subseteq Counter
  PROVE  EarnedInv'
BY DEF EarnedInv, TypeOK, LocksAreEarned

(* Handlers that end, and those that only look. *)
LEMMA EndsEarned ==
  ASSUME EarnedInv, NEW a \in Attempt, Refuse(a) \/ BlockForRisk(a) \/ AnswerSuccess(a)
  PROVE  EarnedInv'
<1>1. attempt' = [attempt EXCEPT ![a] = Idle] /\ UNCHANGED <<counter, failures, now, streak, crashes, overlapped>>
  BY DEF Refuse, BlockForRisk, AnswerSuccess
<1>2. told' \in SUBSET (Email \X (0 .. (MaxTime + LockMax)))
  <2>1. told \in SUBSET (Email \X (0 .. (MaxTime + LockMax)))
    BY DEF EarnedInv, TypeOK
  <2>2. CASE Refuse(a)
    <3>1. attempt[a] \in AttemptState /\ Shaped(attempt[a]) /\ attempt[a].at = "check"
      BY <2>2 DEF EarnedInv, TypeOK, Refuse, Checked
    <3>2. attempt[a].email \in Email /\ attempt[a].plan["account"] \in CounterDoc
      BY <3>1, PlanTyped DEF Shaped, Kind
    <3>3. attempt[a].plan["account"].lockUntil \in 0 .. (MaxTime + LockMax)
      BY <3>2 DEF CounterDoc
    <3>4. told' = told \/ told' = told \cup {<<attempt[a].email, attempt[a].plan["account"].lockUntil>>}
      BY <2>2 DEF Refuse
    <3> QED BY <2>1, <3>2, <3>3, <3>4
  <2>3. CASE BlockForRisk(a) \/ AnswerSuccess(a)
    BY <2>1, <2>3 DEF BlockForRisk, AnswerSuccess
  <2> QED BY <2>2, <2>3
<1>3. failures' \in [Counter -> Nat] /\ \A c \in Counter : failures[c] <= failures'[c]
  BY <1>1 DEF EarnedInv, TypeOK
<1>4. overlapped' \subseteq Counter
  BY <1>1 DEF EarnedInv, TypeOK
<1> QED BY <1>1, <1>2, <1>3, <1>4, IdleIsSound, MovesEarned, AsideEarned

(* A handler that keeps its e-mail and address, in a new place. *)
LEMMA MovesOnEarned ==
  ASSUME EarnedInv, NEW a \in Attempt, NEW q \in AttemptState, Shaped(q), Backed(q, failures),
         attempt' = [attempt EXCEPT ![a] = q],
         UNCHANGED <<counter, now, failures, streak, told, crashes>>,
         overlapped' \subseteq Counter
  PROVE  EarnedInv'
<1>1. failures' \in [Counter -> Nat] /\ \A c \in Counter : failures[c] <= failures'[c]
  BY DEF EarnedInv, TypeOK
<1>2. told' \in SUBSET (Email \X (0 .. (MaxTime + LockMax)))
  BY DEF EarnedInv, TypeOK
<1> QED BY <1>1, <1>2, MovesEarned, AsideEarned

LEMMA ArriveEarned ==
  ASSUME EarnedInv, NEW a \in Attempt, NEW e \in Email, NEW addr \in Address,
         NEW right \in BOOLEAN, Arrive(a, e, addr, right)
  PROVE  EarnedInv'
<1> DEFINE c == <<"account", e>>
           q == [at |-> "check", email |-> e, address |-> addr, right |-> right,
                 reads |-> Throttle, writes |-> {},
                 plan |-> [Unread EXCEPT !["account"] = counter[c]]]
<1>1. c \in Counter /\ counter[c] \in CounterDoc
  BY DEF EarnedInv, TypeOK, Counter
<1>2. q.plan \in [Kind -> CounterDoc] /\ q.plan["account"] = counter[c]
  BY <1>1, IdleIsSound DEF Unread, Kind
<1>3. q \in AttemptState
  BY <1>2 DEF AttemptState, Throttle, Kind
<1>4. Shaped(q)
  BY DEF Shaped
<1>5. Backed(q, failures)
  <2>1. Key(q, "account") = c
    BY DEF Key
  <2>2. Earned(counter[c], failures[c])
    BY <1>1 DEF EarnedInv, LocksAreEarned, Earned
  <2> QED BY <1>2, <2>1, <2>2 DEF Backed
<1>6. overlapped' \subseteq Counter
  BY DEF Arrive, EarnedInv, TypeOK, Counter
<1>7. attempt' = [attempt EXCEPT ![a] = q] /\ UNCHANGED <<counter, now, failures, streak, told, crashes>>
  BY DEF Arrive
<1> HIDE DEF q
<1> QED BY <1>3, <1>4, <1>5, <1>6, <1>7, MovesOnEarned

LEMMA CheckEarned ==
  ASSUME EarnedInv, NEW a \in Attempt, NEW k \in Throttle, CheckThrottle(a, k)
  PROVE  EarnedInv'
<1> DEFINE c == KeyOf(a, k)
           p == [attempt[a].plan EXCEPT ![k].lockUntil = counter[c].lockUntil]
           q == [attempt[a] EXCEPT !.reads = @ \ {k}, !.plan = p]
<1>1. /\ attempt[a] \in AttemptState /\ Shaped(attempt[a]) /\ Backed(attempt[a], failures)
      /\ attempt[a].at = "check" /\ k \in Kind /\ attempt \in [Attempt -> AttemptState]
  BY DEF CheckThrottle, EarnedInv, TypeOK, Throttle, Kind
<1>2. counter[c].lockUntil \in 0 .. (MaxTime + LockMax)
  <2>1. KeyOf(a, k) = Key(attempt[a], k)
    BY DEF KeyOf, Key
  <2>2. c \in Counter
    BY <1>1, <2>1, KeyIsCounter DEF Shaped
  <2> QED BY <2>2 DEF EarnedInv, TypeOK, CounterDoc
<1>3. p \in [Kind -> CounterDoc] /\ p["account"] = attempt[a].plan["account"]
  <2>1. attempt[a].plan \in [Kind -> CounterDoc]
    BY <1>1 DEF AttemptState
  <2>2. [attempt[a].plan[k] EXCEPT !.lockUntil = counter[c].lockUntil] \in CounterDoc
    BY <1>1, <1>2, <2>1 DEF CounterDoc
  <2>3. p = [attempt[a].plan EXCEPT ![k] = [attempt[a].plan[k] EXCEPT !.lockUntil = counter[c].lockUntil]]
    OBVIOUS
  <2> QED BY <1>1, <2>1, <2>2, <2>3 DEF Kind, Throttle
<1>4. attempt' = [attempt EXCEPT ![a] = q]
  BY <1>1 DEF CheckThrottle
<1> HIDE DEF p
<1>5. /\ q.at = "check" /\ q.email = attempt[a].email /\ q.address = attempt[a].address
      /\ q.writes = attempt[a].writes /\ q.plan = p /\ q \in AttemptState
  BY <1>1, <1>3 DEF AttemptState
<1>6. Shaped(q)
  BY <1>1, <1>5 DEF Shaped
<1>7. Backed(q, failures)
  <2>1. Key(q, "account") = Key(attempt[a], "account")
    BY <1>5 DEF Key
  <2> QED BY <1>1, <1>3, <1>5, <2>1 DEF Backed
<1>8. overlapped' \subseteq Counter
  BY DEF CheckThrottle, EarnedInv, TypeOK
<1>9. UNCHANGED <<counter, now, failures, streak, told, crashes>>
  BY DEF CheckThrottle
<1> HIDE DEF q
<1> QED BY <1>4, <1>5, <1>6, <1>7, <1>8, <1>9, MovesOnEarned

(* A right password takes no evidence along, a wrong one what was read of  *)
(* the account.                                                            *)
LEMMA PasswordEarned ==
  ASSUME EarnedInv, NEW a \in Attempt, WrongPassword(a) \/ RightPassword(a)
  PROVE  EarnedInv'
<1>1. /\ attempt[a] \in AttemptState /\ Shaped(attempt[a]) /\ Backed(attempt[a], failures)
      /\ attempt[a].at = "check" /\ attempt \in [Attempt -> AttemptState]
      /\ attempt[a].writes = {}
  BY DEF WrongPassword, RightPassword, Admitted, Checked, EarnedInv, TypeOK, Shaped
<1>2. overlapped' \subseteq Counter /\ UNCHANGED <<counter, now, failures, streak, told, crashes>>
  BY DEF WrongPassword, RightPassword, EarnedInv, TypeOK
<1>3. CASE WrongPassword(a)
  <2> DEFINE p == [Unread EXCEPT !["account"] = attempt[a].plan["account"]]
             q == [attempt[a] EXCEPT !.at = "record", !.reads = Throttle, !.plan = p]
  <2>1. attempt' = [attempt EXCEPT ![a] = q]
    BY <1>1, <1>3 DEF WrongPassword
  <2>2. p \in [Kind -> CounterDoc] /\ p["account"] = attempt[a].plan["account"]
    BY <1>1, IdleIsSound, PlanTyped DEF Unread, Kind
  <2> HIDE DEF p
  <2>3. /\ q.at = "record" /\ q.email = attempt[a].email /\ q.address = attempt[a].address
        /\ q.writes = {} /\ q.plan = p /\ q \in AttemptState
    BY <1>1, <2>2 DEF AttemptState, Throttle, Kind
  <2>4. Shaped(q)
    BY <1>1, <2>3 DEF Shaped
  <2>5. Backed(q, failures)
    <3>1. Key(q, "account") = Key(attempt[a], "account")
      BY <2>3 DEF Key
    <3> QED BY <1>1, <2>2, <2>3, <3>1 DEF Backed
  <2> HIDE DEF q
  <2> QED BY <1>2, <2>1, <2>3, <2>4, <2>5, MovesOnEarned
<1>4. CASE RightPassword(a)
  <2> DEFINE q == [attempt[a] EXCEPT !.at = "succeed", !.writes = {"user", "account"},
                                     !.plan = Unread]
  <2>1. attempt' = [attempt EXCEPT ![a] = q]
    BY <1>1, <1>4 DEF RightPassword
  <2>2. /\ q.at = "succeed" /\ q.email = attempt[a].email /\ q.address = attempt[a].address
        /\ q \in AttemptState
    BY <1>1, IdleIsSound DEF AttemptState, Unread, Kind
  <2>3. Shaped(q) /\ Backed(q, failures)
    BY <1>1, <2>2 DEF Shaped, Backed
  <2> HIDE DEF q
  <2> QED BY <1>2, <2>1, <2>2, <2>3, MovesOnEarned
<1> QED BY <1>3, <1>4

(* The failure is counted with the read it is added to. *)
LEMMA ReadEarned ==
  ASSUME EarnedInv, NEW a \in Attempt, NEW k \in Throttle, ReadThrottle(a, k)
  PROVE  EarnedInv'
<1> DEFINE c == KeyOf(a, k)
           doc == AfterFailure(WithoutStale(counter[c]))
           p == [attempt[a].plan EXCEPT ![k] = doc]
           q == [attempt[a] EXCEPT !.reads = @ \ {k}, !.writes = @ \cup {k}, !.plan = p]
<1>1. /\ attempt[a] \in AttemptState /\ Shaped(attempt[a]) /\ Backed(attempt[a], failures)
      /\ attempt[a].at = "record" /\ k \in Kind /\ k # "account"
      /\ attempt \in [Attempt -> AttemptState] /\ now \in 0 .. MaxTime
  BY DEF ReadThrottle, EarnedInv, TypeOK, Throttle, Kind
<1>2. c = Key(attempt[a], k) /\ c \in Counter
  <2>1. KeyOf(a, k) = Key(attempt[a], k)
    BY DEF KeyOf, Key
  <2> QED BY <1>1, <2>1, KeyIsCounter DEF Shaped
<1>3. /\ failures \in [Counter -> Nat] /\ failures' = [failures EXCEPT ![c] = @ + 1]
      /\ counter[c] \in CounterDoc /\ Earned(counter[c], failures[c])
  BY <1>2 DEF ReadThrottle, EarnedInv, TypeOK, LocksAreEarned, Earned
<1>4. doc \in CounterDoc /\ Earned(doc, failures[c] + 1)
  BY <1>1, <1>2, <1>3, WithoutStaleIsEarned, AfterFailureIsEarned
<1> HIDE DEF doc
<1>5. /\ failures' \in [Counter -> Nat] /\ \A x \in Counter : failures[x] <= failures'[x]
      /\ failures'[c] = failures[c] + 1
  BY <1>2, <1>3
<1>6. p \in [Kind -> CounterDoc] /\ p[k] = doc /\ \A l \in Kind : l # k => p[l] = attempt[a].plan[l]
  BY <1>1, <1>4 DEF AttemptState
<1>7. attempt' = [attempt EXCEPT ![a] = q]
  BY <1>1 DEF ReadThrottle, doc
<1> HIDE DEF p
<1>8. /\ q.at = "record" /\ q.email = attempt[a].email /\ q.address = attempt[a].address
      /\ q.writes = attempt[a].writes \cup {k} /\ q.plan = p /\ q \in AttemptState
  BY <1>1, <1>6 DEF AttemptState
<1>9. Shaped(q)
  BY <1>1, <1>8 DEF Shaped
<1> HIDE DEF q
<1>10. Backed(q, failures')
  <2>1. \A l : Key(q, l) = Key(attempt[a], l)
    BY <1>8 DEF Key
  <2>2. Backed(attempt[a], failures')
    BY <1>1, <1>3, <1>5, BackedGrows
  <2>3. Earned(q.plan["account"], failures'[Key(q, "account")])
    BY <1>1, <1>6, <1>8, <2>1, <2>2 DEF Backed, Kind
  <2>4. ASSUME NEW l \in q.writes PROVE Earned(q.plan[l], failures'[Key(q, l)])
    <3>1. l \in Kind
      BY <1>8 DEF AttemptState
    <3>2. CASE l = k
      BY <1>2, <1>4, <1>5, <1>6, <1>8, <2>1, <3>2
    <3>3. CASE l # k
      BY <1>1, <1>6, <1>8, <2>1, <2>2, <3>1, <3>3 DEF Backed
    <3> QED BY <3>2, <3>3
  <2> QED BY <1>8, <2>3, <2>4 DEF Backed
<1>11. UNCHANGED <<counter, now, streak, told, overlapped, crashes>>
  BY DEF ReadThrottle
<1>12. /\ attempt' \in [Attempt -> AttemptState]
       /\ \A b \in Attempt : Shaped(attempt'[b]) /\ Backed(attempt'[b], failures')
  BY <1>5, <1>7, <1>8, <1>9, <1>10, MovesEarned
<1>13. LocksAreEarned'
  <2> SUFFICES ASSUME NEW x \in Counter
               PROVE  Threshold * counter[x].offenses + counter[x].failed <= failures'[x]
    BY <1>11 DEF LocksAreEarned
  <2>1. counter[x].offenses \in Nat /\ counter[x].failed \in Nat
    BY Config DEF EarnedInv, TypeOK, CounterDoc
  <2>2. Threshold * counter[x].offenses \in Nat
    BY <2>1, Config
  <2>3. Threshold * counter[x].offenses + counter[x].failed <= failures[x]
    BY DEF EarnedInv, LocksAreEarned
  <2>4. failures[x] \in Nat /\ failures'[x] \in Nat /\ failures[x] <= failures'[x]
    BY <1>3, <1>5
  <2> QED BY <2>1, <2>2, <2>3, <2>4
<1> QED BY <1>5, <1>11, <1>12, <1>13 DEF EarnedInv, TypeOK

(* An earned document replaces the counter. *)
LEMMA WriteKeepsEarned ==
  ASSUME EarnedInv, NEW c \in Counter, NEW doc \in CounterDoc, NEW n \in Nat,
         failures' = [failures EXCEPT ![c] = n], failures[c] <= n, Earned(doc, n),
         counter' = [counter EXCEPT ![c] = doc]
  PROVE  counter' \in [Counter -> CounterDoc] /\ LocksAreEarned'
         /\ failures' \in [Counter -> Nat] /\ \A x \in Counter : failures[x] <= failures'[x]
<1>1. counter \in [Counter -> CounterDoc] /\ failures \in [Counter -> Nat]
  BY DEF EarnedInv, TypeOK
<1>2. /\ counter' \in [Counter -> CounterDoc] /\ failures' \in [Counter -> Nat]
      /\ \A x \in Counter : counter'[x] = (IF x = c THEN doc ELSE counter[x])
      /\ \A x \in Counter : failures'[x] = (IF x = c THEN n ELSE failures[x])
  BY <1>1
<1>3. \A x \in Counter : Earned(counter'[x], failures'[x])
  <2>1. \A x \in Counter : Earned(counter[x], failures[x])
    BY DEF EarnedInv, LocksAreEarned, Earned
  <2> QED BY <1>2, <2>1
<1>4. \A x \in Counter : failures[x] <= failures'[x]
  BY <1>1, <1>2
<1> QED BY <1>2, <1>3, <1>4 DEF LocksAreEarned, Earned

LEMMA LengthenTyped ==
  ASSUME EarnedInv, NEW c \in Counter, NEW doc, Lengthen(c, doc)
  PROVE  streak' \in [Counter -> Nat]
<1>1. streak \in [Counter -> Nat]
  BY DEF EarnedInv, TypeOK
<1> QED BY <1>1 DEF Lengthen

LEMMA WriteEarned ==
  ASSUME EarnedInv, NEW a \in Attempt, NEW k \in Throttle, WriteThrottle(a, k)
  PROVE  EarnedInv'
<1> DEFINE c == KeyOf(a, k)
           doc == attempt[a].plan[k]
           p == [attempt[a].plan EXCEPT ![k] = Zero]
           q == [attempt[a] EXCEPT !.writes = @ \ {k}, !.plan = p]
<1>1. /\ attempt[a] \in AttemptState /\ Shaped(attempt[a]) /\ Backed(attempt[a], failures)
      /\ attempt[a].at = "record" /\ k \in attempt[a].writes /\ k \in Kind /\ k # "account"
      /\ attempt \in [Attempt -> AttemptState]
  BY DEF WriteThrottle, EarnedInv, TypeOK, Throttle, Kind
<1>2. c = Key(attempt[a], k) /\ c \in Counter
  <2>1. KeyOf(a, k) = Key(attempt[a], k)
    BY DEF KeyOf, Key
  <2> QED BY <1>1, <2>1, KeyIsCounter DEF Shaped
<1>3. doc \in CounterDoc /\ Earned(doc, failures[c]) /\ failures \in [Counter -> Nat]
  BY <1>1, <1>2, PlanTyped DEF Backed, EarnedInv, TypeOK
<1>4. /\ counter' = [counter EXCEPT ![c] = doc] /\ failures' = failures
      /\ Lengthen(c, doc) /\ UNCHANGED <<now, told, overlapped, crashes>>
  BY DEF WriteThrottle
<1>5. p \in [Kind -> CounterDoc] /\ \A l \in Kind : l # k => p[l] = attempt[a].plan[l]
  BY <1>1, IdleIsSound DEF AttemptState
<1>6. attempt' = [attempt EXCEPT ![a] = q]
  BY <1>1 DEF WriteThrottle
<1> HIDE DEF p, doc, c
<1>7. /\ q.at = "record" /\ q.email = attempt[a].email /\ q.address = attempt[a].address
      /\ q.writes = attempt[a].writes \ {k} /\ q.plan = p /\ q \in AttemptState
  BY <1>1, <1>5 DEF AttemptState
<1> HIDE DEF q
<1>8. Shaped(q)
  BY <1>1, <1>7 DEF Shaped
<1>9. Backed(q, failures')
  <2>1. \A l : Key(q, l) = Key(attempt[a], l)
    BY <1>7 DEF Key
  <2>2. Earned(q.plan["account"], failures'[Key(q, "account")])
    BY <1>1, <1>4, <1>5, <1>7, <2>1 DEF Backed, Kind
  <2>3. ASSUME NEW l \in q.writes PROVE Earned(q.plan[l], failures'[Key(q, l)])
    <3>1. l \in Kind /\ l # k /\ l \in attempt[a].writes
      BY <1>7 DEF AttemptState
    <3> QED BY <1>1, <1>4, <1>5, <1>7, <2>1, <3>1 DEF Backed
  <2> QED BY <1>7, <2>2, <2>3 DEF Backed
<1>10. /\ counter' \in [Counter -> CounterDoc] /\ LocksAreEarned'
       /\ failures' \in [Counter -> Nat] /\ \A x \in Counter : failures[x] <= failures'[x]
  <2>1. failures' = [failures EXCEPT ![c] = failures[c]] /\ failures[c] \in Nat
    BY <1>2, <1>3, <1>4
  <2>2. failures[c] <= failures[c]
    BY <2>1
  <2> QED BY <1>2, <1>3, <1>4, <2>1, <2>2, WriteKeepsEarned
<1>11. /\ attempt' \in [Attempt -> AttemptState]
       /\ \A b \in Attempt : Shaped(attempt'[b]) /\ Backed(attempt'[b], failures')
  BY <1>6, <1>7, <1>8, <1>9, <1>10, MovesEarned
<1>12. streak' \in [Counter -> Nat]
  BY <1>2, <1>4, LengthenTyped
<1> QED BY <1>4, <1>10, <1>11, <1>12 DEF EarnedInv, TypeOK

LEMMA FailAccountEarned ==
  ASSUME EarnedInv, NEW a \in Attempt, FailAccountAndAnswer(a)
  PROVE  EarnedInv'
<1> DEFINE c == KeyOf(a, "account")
           doc == AfterFailure(attempt[a].plan["account"])
<1>1. /\ attempt[a] \in AttemptState /\ Shaped(attempt[a]) /\ Backed(attempt[a], failures)
      /\ attempt[a].at = "record" /\ attempt \in [Attempt -> AttemptState]
      /\ now \in 0 .. MaxTime /\ attempt[a].email \in Email
  BY DEF FailAccountAndAnswer, EarnedInv, TypeOK, Shaped
<1>2. c = Key(attempt[a], "account") /\ c \in Counter
  <2>1. KeyOf(a, "account") = Key(attempt[a], "account")
    BY DEF KeyOf, Key
  <2> QED BY <1>1, <2>1, KeyIsCounter DEF Shaped, Kind
<1>3. failures \in [Counter -> Nat] /\ attempt[a].plan["account"] \in CounterDoc
      /\ Earned(attempt[a].plan["account"], failures[c])
  BY <1>1, <1>2, PlanTyped DEF Backed, EarnedInv, TypeOK, Kind
<1>4. doc \in CounterDoc /\ Earned(doc, failures[c] + 1)
  BY <1>1, <1>2, <1>3, AfterFailureIsEarned
<1>5. UNCHANGED <<now, overlapped, crashes>> /\ attempt' = [attempt EXCEPT ![a] = Idle]
  BY DEF FailAccountAndAnswer
<1>6. \/ /\ counter' = [counter EXCEPT ![c] = doc] /\ failures' = [failures EXCEPT ![c] = failures[c] + 1]
         /\ Lengthen(c, doc)
         /\ told' = told \/ told' = told \cup {<<attempt[a].email, doc.lockUntil>>}
      \/ UNCHANGED <<counter, failures, streak, told>>
  BY DEF FailAccountAndAnswer
<1> HIDE DEF c, doc
<1>7. told' \in SUBSET (Email \X (0 .. (MaxTime + LockMax)))
  <2>1. doc.lockUntil \in 0 .. (MaxTime + LockMax)
    BY <1>4 DEF CounterDoc
  <2>2. told \in SUBSET (Email \X (0 .. (MaxTime + LockMax)))
    BY DEF EarnedInv, TypeOK
  <2> QED BY <1>1, <1>6, <2>1, <2>2
<1>8. CASE UNCHANGED <<counter, failures, streak, told>>
  <2>1. failures' \in [Counter -> Nat] /\ \A x \in Counter : failures[x] <= failures'[x]
    BY <1>3, <1>8
  <2>2. overlapped' \subseteq Counter
    BY <1>5 DEF EarnedInv, TypeOK
  <2> QED BY <1>5, <1>7, <1>8, <2>1, <2>2, IdleIsSound, MovesEarned, AsideEarned
<1>9. CASE /\ counter' = [counter EXCEPT ![c] = doc]
           /\ failures' = [failures EXCEPT ![c] = failures[c] + 1] /\ Lengthen(c, doc)
  <2>1. failures[c] + 1 \in Nat /\ failures[c] <= failures[c] + 1
    BY <1>2, <1>3
  <2>2. /\ counter' \in [Counter -> CounterDoc] /\ LocksAreEarned'
        /\ failures' \in [Counter -> Nat] /\ \A x \in Counter : failures[x] <= failures'[x]
    BY <1>2, <1>4, <1>9, <2>1, WriteKeepsEarned
  <2>3. /\ attempt' \in [Attempt -> AttemptState]
        /\ \A b \in Attempt : Shaped(attempt'[b]) /\ Backed(attempt'[b], failures')
    BY <1>5, <2>2, IdleIsSound, MovesEarned
  <2>4. streak' \in [Counter -> Nat]
    BY <1>2, <1>9, LengthenTyped
  <2> QED BY <1>5, <1>7, <2>2, <2>3, <2>4 DEF EarnedInv, TypeOK
<1> QED BY <1>6, <1>8, <1>9

(* What a reset leaves of a document. *)
LEMMA ResetDoc ==
  ASSUME NEW d \in CounterDoc, NEW o
  PROVE  [d EXCEPT !.failed = 0, !.lockUntil = 0, !.offenses = o]
           = [failed |-> 0, offenses |-> o, lockUntil |-> 0, last |-> d.last]
<1> DEFINE one == [failed |-> 0, offenses |-> d.offenses, lockUntil |-> d.lockUntil, last |-> d.last]
           two == [failed |-> 0, offenses |-> d.offenses, lockUntil |-> 0, last |-> d.last]
<1>1. [d EXCEPT !.failed = 0] = one
  BY DEF CounterDoc
<1>2. [one EXCEPT !.lockUntil = 0] = two
  OBVIOUS
<1>3. [two EXCEPT !.offenses = o] = [failed |-> 0, offenses |-> o, lockUntil |-> 0, last |-> d.last]
  OBVIOUS
<1>4. [d EXCEPT !.failed = 0, !.lockUntil = 0, !.offenses = o]
        = [[[d EXCEPT !.failed = 0] EXCEPT !.lockUntil = 0] EXCEPT !.offenses = o]
  BY Zenon
<1> HIDE DEF one, two
<1> QED BY <1>1, <1>2, <1>3, <1>4, Zenon

(* A reset gives up failures, never adds one. *)
LEMMA ResetEarned ==
  ASSUME EarnedInv, NEW a \in Attempt, NEW k \in {"account", "user"}, ResetCounter(a, k)
  PROVE  EarnedInv'
<1> DEFINE c == KeyOf(a, k)
           doc == [failed |-> 0, offenses |-> IF k = "account" THEN 0 ELSE counter[c].offenses,
                   lockUntil |-> 0, last |-> counter[c].last]
           q == [attempt[a] EXCEPT !.writes = @ \ {k}]
<1>1. /\ attempt[a] \in AttemptState /\ Shaped(attempt[a]) /\ Backed(attempt[a], failures)
      /\ attempt[a].at = "succeed" /\ attempt \in [Attempt -> AttemptState] /\ k \in Kind
  BY DEF ResetCounter, EarnedInv, TypeOK, Kind
<1>2. c \in Counter
  <2>1. KeyOf(a, k) = Key(attempt[a], k)
    BY DEF KeyOf, Key
  <2> QED BY <1>1, <2>1, KeyIsCounter DEF Shaped
<1>3. /\ counter \in [Counter -> CounterDoc] /\ failures \in [Counter -> Nat]
      /\ counter[c].offenses \in Nat /\ counter[c].failed \in Nat /\ counter[c].last \in 0 .. MaxTime
      /\ Threshold * counter[c].offenses + counter[c].failed <= failures[c]
  BY <1>2, Config DEF EarnedInv, TypeOK, CounterDoc, LocksAreEarned
<1>4. doc \in CounterDoc
  <2>1. 0 \in 0 .. (Threshold - 1) /\ 0 \in 0 .. (MaxTime + LockMax)
    BY Config
  <2> QED BY <1>3, <2>1 DEF CounterDoc
<1>5. Earned(doc, failures[c])
  <2>1. Threshold * counter[c].offenses \in Nat /\ Threshold * 0 = 0 /\ failures[c] \in Nat
    BY <1>2, <1>3, Config
  <2>2. Threshold * doc.offenses + 0 <= failures[c]
    BY <1>3, <2>1
  <2> QED BY <2>2 DEF Earned
<1>6. counter' = [counter EXCEPT ![c] = doc]
  <2> DEFINE o == IF k = "account" THEN 0 ELSE counter[c].offenses
             d == [counter[c] EXCEPT !.failed = 0, !.lockUntil = 0, !.offenses = o]
  <2>1. counter' = [counter EXCEPT ![c] = d]
    BY <1>2, <1>3 DEF ResetCounter
  <2>2. counter[c] \in CounterDoc
    BY <1>2, <1>3
  <2>3. d = doc
    <3> HIDE DEF o, c
    <3>1. d = [failed |-> 0, offenses |-> o, lockUntil |-> 0, last |-> counter[c].last]
      BY <2>2, ResetDoc
    <3> QED BY <3>1 DEF o
  <2> QED BY <2>1, <2>3, Zenon
<1>7. /\ failures' = failures /\ UNCHANGED <<now, told, overlapped, crashes>>
      /\ streak' = [streak EXCEPT ![c] = 0] /\ attempt' = [attempt EXCEPT ![a] = q]
  BY <1>1 DEF ResetCounter
<1> HIDE DEF doc, c
<1>8. /\ counter' \in [Counter -> CounterDoc] /\ LocksAreEarned'
      /\ failures' \in [Counter -> Nat] /\ \A x \in Counter : failures[x] <= failures'[x]
  <2>1. failures' = [failures EXCEPT ![c] = failures[c]] /\ failures[c] \in Nat
    BY <1>2, <1>3, <1>7
  <2>2. failures[c] <= failures[c]
    BY <2>1
  <2> QED BY <1>2, <1>4, <1>5, <1>6, <2>1, <2>2, WriteKeepsEarned
<1>9. /\ q.at = "succeed" /\ q.email = attempt[a].email /\ q.address = attempt[a].address
      /\ q \in AttemptState
  BY <1>1 DEF AttemptState
<1>10. Shaped(q) /\ Backed(q, failures')
  BY <1>1, <1>9 DEF Shaped, Backed
<1> HIDE DEF q
<1>11. /\ attempt' \in [Attempt -> AttemptState]
       /\ \A b \in Attempt : Shaped(attempt'[b]) /\ Backed(attempt'[b], failures')
  BY <1>7, <1>8, <1>9, <1>10, MovesEarned
<1>12. streak' \in [Counter -> Nat]
  BY <1>7 DEF EarnedInv, TypeOK
<1> QED BY <1>7, <1>8, <1>11, <1>12 DEF EarnedInv, TypeOK

(* Every step keeps EarnedInv: one case for each action. *)
LEMMA StepEarned == EarnedInv /\ [Next]_vars => EarnedInv'
<1> SUFFICES ASSUME EarnedInv, [Next]_vars PROVE EarnedInv'
  OBVIOUS
<1>1. ASSUME NEW a \in Attempt, NEW e \in Email, NEW addr \in Address, NEW right \in BOOLEAN,
             Arrive(a, e, addr, right)
      PROVE  EarnedInv'
  BY <1>1, ArriveEarned
<1>2. ASSUME NEW a \in Attempt, Serve(a) PROVE EarnedInv'
  BY <1>2, CheckEarned, ReadEarned, WriteEarned, ResetEarned, EndsEarned, PasswordEarned,
     FailAccountEarned
  DEF Serve
<1>3. CASE Tick
  <2>1. now' \in 0 .. MaxTime
    BY <1>3, Config DEF Tick, EarnedInv, TypeOK
  <2> QED BY <1>3, <2>1 DEF Tick, EarnedInv, TypeOK, LocksAreEarned
<1>4. CASE Crash
  <2>1. crashes' \in 0 .. MaxCrashes
    BY <1>4, Config DEF Crash, EarnedInv, TypeOK
  <2> QED BY <1>4, <2>1, IdleIsSound DEF Crash, EarnedInv, TypeOK, LocksAreEarned
<1>5. CASE UNCHANGED vars
  BY <1>5 DEF vars, EarnedInv, TypeOK, LocksAreEarned
<1> QED BY <1>1, <1>2, <1>3, <1>4, <1>5 DEF Next

LEMMA InitEarned == Init => EarnedInv
<1> SUFFICES ASSUME Init PROVE EarnedInv
  OBVIOUS
<1>1. TypeOK
  BY IdleIsSound, Config DEF Init, TypeOK
<1>2. \A a \in Attempt : Shaped(attempt[a]) /\ Backed(attempt[a], failures)
  BY IdleIsSound DEF Init
<1>3. LocksAreEarned
  BY Config DEF Init, LocksAreEarned, Zero
<1> QED BY <1>1, <1>2, <1>3 DEF EarnedInv

(* Every document, snapshot and clock keeps its domain: in particular no   *)
(* counter ever holds Threshold failures or more.                          *)
THEOREM TypeCorrect == Spec => []TypeOK
<1>1. EarnedInv => TypeOK
  BY DEF EarnedInv
<1> QED BY <1>1, InitEarned, StepEarned, PTL DEF Spec

(* However many attempts overlap, and whenever the process dies, no lock   *)
(* comes before Threshold wrong passwords were counted towards it.         *)
THEOREM NoEarlyLock == Spec => []LocksAreEarned
<1>1. EarnedInv => LocksAreEarned
  BY DEF EarnedInv
<1> QED BY <1>1, InitEarned, StepEarned, PTL DEF Spec

-----------------------------------------------------------------------------
(* Attempts that come one at a time. *)

(* A throttle document decided at a read continues the one it replaces. *)
Follows(new, old, t) ==
  /\ new.offenses >= old.offenses
  /\ \/ new.failed = 0
     \/ new.failed = old.failed + 1
     \/ new.failed = 1 /\ t - old.last > ResetAfter

(* What attempt q holds of the counters m is still true at t, but for the  *)
(* counters of v.                                                          *)
Held(q, m, v, t) ==
  /\ (q.at \in {"check", "record"} /\ Key(q, "account") \notin v)
       => q.plan["account"] = m[Key(q, "account")]
  /\ (q.at \in {"record", "succeed"} /\ Key(q, "account") \notin v)
       => m[Key(q, "account")].lockUntil <= t
  /\ q.at = "record"
       => \A k \in q.writes : Key(q, k) \notin v => Follows(q.plan[k], m[Key(q, k)], t)

(* Attempts that meet at a counter are on record. *)
Apart ==
  \A a, b \in Attempt, k \in Kind :
    (/\ a # b /\ attempt[a].at # "idle" /\ attempt[b].at # "idle"
     /\ Key(attempt[a], k) = Key(attempt[b], k))
      => Key(attempt[a], k) \in overlapped

StreakIsCounted == \A c \in Counter \ overlapped : streak[c] <= counter[c].failed

SerialInv ==
  /\ Apart
  /\ \A a \in Attempt : Held(attempt[a], counter, overlapped, now)
  /\ StreakIsCounted
  /\ SerialLockHolds

(* Counters that do not change, and time that only passes, break no hold. *)
LEMMA HeldStays ==
  ASSUME NEW q \in AttemptState, Shaped(q), NEW t \in Nat, NEW u \in Nat, t <= u,
         NEW m \in [Counter -> CounterDoc], NEW n \in [Counter -> CounterDoc],
         NEW v, NEW w, v \subseteq w, Held(q, m, v, t),
         q.at # "idle" => \A k \in Kind : Key(q, k) \notin w => n[Key(q, k)] = m[Key(q, k)]
  PROVE  Held(q, n, w, u)
<1>1. ASSUME NEW k \in Kind, q.at # "idle", Key(q, k) \notin w
      PROVE  /\ Key(q, k) \notin v /\ n[Key(q, k)] = m[Key(q, k)]
             /\ m[Key(q, k)] \in CounterDoc
  <2>1. Key(q, k) \in Counter
    BY <1>1, KeyIsCounter DEF Shaped
  <2> QED BY <1>1, <2>1
<1>2. ASSUME q.at \in {"check", "record"}, Key(q, "account") \notin w
      PROVE  q.plan["account"] = n[Key(q, "account")]
  BY <1>1, <1>2 DEF Held, Kind
<1>3. ASSUME q.at \in {"record", "succeed"}, Key(q, "account") \notin w
      PROVE  n[Key(q, "account")].lockUntil <= u
  <2>1. /\ n[Key(q, "account")] = m[Key(q, "account")] /\ m[Key(q, "account")] \in CounterDoc
        /\ m[Key(q, "account")].lockUntil <= t
    BY <1>1, <1>3 DEF Held, Kind
  <2>2. m[Key(q, "account")].lockUntil \in Nat
    BY <2>1, Config DEF CounterDoc
  <2> QED BY <2>1, <2>2
<1>4. ASSUME q.at = "record", NEW k \in q.writes, Key(q, k) \notin w
      PROVE  Follows(q.plan[k], n[Key(q, k)], u)
  <2>1. k \in Kind
    BY DEF AttemptState
  <2>2. Follows(q.plan[k], m[Key(q, k)], t) /\ n[Key(q, k)] = m[Key(q, k)]
        /\ m[Key(q, k)] \in CounterDoc
    BY <1>1, <1>4, <2>1 DEF Held
  <2>3. m[Key(q, k)].last \in Nat
    BY <2>2, Config DEF CounterDoc
  <2>4. t - m[Key(q, k)].last > ResetAfter => u - m[Key(q, k)].last > ResetAfter
    BY <2>3, Config
  <2> QED BY <2>2, <2>4 DEF Follows
<1> QED BY <1>2, <1>3, <1>4 DEF Held

(* An attempt that goes on with its own e-mail and address meets nobody new. *)
LEMMA ApartStays ==
  ASSUME EarnedInv, SerialInv, NEW a \in Attempt, NEW q, attempt' = [attempt EXCEPT ![a] = q],
         overlapped' = overlapped,
         q.at # "idle" => /\ attempt[a].at # "idle"
                          /\ q.email = attempt[a].email /\ q.address = attempt[a].address
  PROVE  Apart'
<1>1. \A b \in Attempt : attempt'[b] = IF b = a THEN q ELSE attempt[b]
  BY DEF EarnedInv, TypeOK
<1>2. ASSUME NEW b \in Attempt, attempt'[b].at # "idle"
      PROVE  attempt[b].at # "idle" /\ \A k \in Kind : Key(attempt'[b], k) = Key(attempt[b], k)
  BY <1>1, <1>2 DEF Key
<1> QED BY <1>2 DEF Apart, SerialInv

(* The counters stay; one attempt goes on, or ends. *)
LEMMA AsideSerial ==
  ASSUME EarnedInv, SerialInv, NEW a \in Attempt, NEW q, attempt' = [attempt EXCEPT ![a] = q],
         q.at # "idle" => /\ attempt[a].at # "idle"
                          /\ q.email = attempt[a].email /\ q.address = attempt[a].address,
         UNCHANGED <<counter, now, streak, overlapped>>,
         Held(q, counter, overlapped, now), SerialLockHolds'
  PROVE  SerialInv'
<1>1. Apart'
  BY ApartStays
<1>2. \A b \in Attempt : attempt'[b] = IF b = a THEN q ELSE attempt[b]
  BY DEF EarnedInv, TypeOK
<1>3. \A b \in Attempt : Held(attempt'[b], counter', overlapped', now')
  BY <1>2 DEF SerialInv
<1>4. StreakIsCounted'
  BY DEF SerialInv, StreakIsCounted
<1> QED BY <1>1, <1>3, <1>4 DEF SerialInv

(* One attempt writes a counter of its own. *)
LEMMA WriteSerial ==
  ASSUME EarnedInv, EarnedInv', SerialInv, NEW a \in Attempt, NEW q, NEW k \in Kind,
         attempt[a].at # "idle", attempt' = [attempt EXCEPT ![a] = q],
         q.at # "idle" => q.email = attempt[a].email /\ q.address = attempt[a].address,
         UNCHANGED <<now, overlapped>>,
         NEW doc, counter' = [counter EXCEPT ![Key(attempt[a], k)] = doc],
         NEW s, streak' = [streak EXCEPT ![Key(attempt[a], k)] = s],
         Key(attempt[a], k) \notin overlapped => s <= doc.failed,
         Held(q, counter', overlapped, now), SerialLockHolds'
  PROVE  SerialInv'
<1> DEFINE c == Key(attempt[a], k)
<1>1. /\ counter \in [Counter -> CounterDoc] /\ counter' \in [Counter -> CounterDoc]
      /\ attempt \in [Attempt -> AttemptState] /\ streak \in [Counter -> Nat] /\ now \in Nat
      /\ \A b \in Attempt : Shaped(attempt[b])
  BY Config DEF EarnedInv, TypeOK
<1>2. c \in Counter
  <2>1. attempt[a].email \in Email /\ attempt[a].address \in Address
    BY <1>1 DEF Shaped
  <2> QED BY <2>1, KeyIsCounter
<1>3. /\ \A x \in Counter : counter'[x] = (IF x = c THEN doc ELSE counter[x])
      /\ \A x \in Counter : streak'[x] = (IF x = c THEN s ELSE streak[x])
  BY <1>1
<1>4. Apart'
  BY ApartStays
<1>5. ASSUME NEW b \in Attempt PROVE Held(attempt'[b], counter', overlapped', now')
  <2>1. CASE b = a
    BY <1>1, <2>1
  <2>2. CASE b # a
    <3>1. ASSUME attempt[b].at # "idle", NEW l \in Kind, Key(attempt[b], l) \notin overlapped
          PROVE  counter'[Key(attempt[b], l)] = counter[Key(attempt[b], l)]
      <4>1. attempt[b].email \in Email /\ attempt[b].address \in Address
        BY <1>1, <3>1 DEF Shaped
      <4>2. Key(attempt[b], l) \in Counter
        BY <4>1, KeyIsCounter
      <4>3. Key(attempt[b], l) # c
        <5>1. Key(attempt[b], l) = c => l = k
          BY DEF Key, Kind
        <5> QED BY <2>2, <3>1, <5>1 DEF SerialInv, Apart
      <4> QED BY <1>3, <4>2, <4>3
    <3>2. Held(attempt[b], counter, overlapped, now) /\ attempt'[b] = attempt[b]
      BY <1>1, <2>2 DEF SerialInv
    <3>3. attempt[b] \in AttemptState /\ Shaped(attempt[b]) /\ now <= now
      BY <1>1
    <3> HIDE DEF c
    <3> DEFINE p == attempt[b]
               n == counter'
    <3>4. p.at # "idle" => \A l \in Kind : Key(p, l) \notin overlapped
                             => n[Key(p, l)] = counter[Key(p, l)]
      BY <3>1
    <3>5. /\ p \in AttemptState /\ Shaped(p) /\ n \in [Counter -> CounterDoc]
          /\ Held(p, counter, overlapped, now)
      BY <1>1, <3>2, <3>3
    <3> HIDE DEF p, n
    <3>6. Held(p, n, overlapped, now)
      BY <1>1, <3>3, <3>4, <3>5, HeldStays
    <3> QED BY <3>2, <3>6 DEF p, n
  <2> QED BY <2>1, <2>2
<1>6. StreakIsCounted'
  BY <1>3 DEF SerialInv, StreakIsCounted
<1> QED BY <1>4, <1>5, <1>6 DEF SerialInv

(* A new attempt holds what it has just read; whom it meets is recorded. *)
LEMMA ArriveSerial ==
  ASSUME EarnedInv, EarnedInv', SerialInv, NEW a \in Attempt, NEW e \in Email,
         NEW addr \in Address, NEW right \in BOOLEAN, Arrive(a, e, addr, right)
  PROVE  SerialInv'
<1> DEFINE q == attempt'[a]
<1>1. /\ counter \in [Counter -> CounterDoc] /\ now \in Nat
      /\ attempt \in [Attempt -> AttemptState] /\ \A b \in Attempt : Shaped(attempt[b])
  BY Config DEF EarnedInv, TypeOK
<1>2. /\ q.at = "check" /\ q.email = e /\ q.address = addr
      /\ q.plan["account"] = counter[<<"account", e>>]
      /\ \A b \in Attempt \ {a} : attempt'[b] = attempt[b]
      /\ UNCHANGED <<counter, now, streak, told>> /\ overlapped \subseteq overlapped'
  BY <1>1 DEF Arrive, Unread, Kind
<1>3. ASSUME NEW b \in Attempt \ {a}, attempt[b].at # "idle", NEW k \in Kind,
             Key(q, k) = Key(attempt[b], k)
      PROVE  Key(q, k) \in overlapped'
  <2>1. Key(attempt[b], k) \in Concerned(b)
    <3>1. attempt[b] # Idle
      BY <1>3 DEF Idle
    <3> QED BY <3>1 DEF Concerned, Key, KeyOf
  <2>2. Key(q, k) \in {<<"account", e>>, <<"user", e>>, <<"ip", addr>>}
    BY <1>2 DEF Key, Kind
  <2> HIDE DEF q
  <2> QED BY <1>3, <2>1, <2>2 DEF Arrive
<1>4. Apart'
  <2> SUFFICES ASSUME NEW b \in Attempt, NEW d \in Attempt, NEW k \in Kind, b # d,
                      attempt'[b].at # "idle", attempt'[d].at # "idle",
                      Key(attempt'[b], k) = Key(attempt'[d], k)
               PROVE  Key(attempt'[b], k) \in overlapped'
    BY DEF Apart
  <2>1. CASE b = a
    BY <1>2, <1>3, <2>1
  <2>2. CASE d = a
    BY <1>2, <1>3, <2>2
  <2>3. CASE b # a /\ d # a
    BY <1>2, <2>3 DEF SerialInv, Apart
  <2> QED BY <2>1, <2>2, <2>3
<1>5. Held(q, counter, overlapped', now)
  <2>1. Key(q, "account") = <<"account", e>>
    BY <1>2 DEF Key
  <2> QED BY <1>2, <2>1 DEF Held
<1>6. ASSUME NEW b \in Attempt \ {a} PROVE Held(attempt[b], counter, overlapped', now)
  <2>1. attempt[b] \in AttemptState /\ Shaped(attempt[b]) /\ now <= now
    BY <1>1
  <2>2. Held(attempt[b], counter, overlapped, now)
    BY DEF SerialInv
  <2> QED BY <1>1, <1>2, <2>1, <2>2, HeldStays
<1>7. StreakIsCounted' /\ SerialLockHolds'
  BY <1>2 DEF SerialInv, StreakIsCounted, SerialLockHolds
<1> QED BY <1>2, <1>4, <1>5, <1>6, <1>7 DEF SerialInv

(* A failure continues the document it is counted on. *)
LEMMA FailureFollows ==
  ASSUME NEW doc \in CounterDoc, now \in 0 .. MaxTime
  PROVE  /\ Follows(AfterFailure(WithoutStale(doc)), doc, now)
         /\ Follows(AfterFailure(doc), doc, now)
         /\ AfterFailure(doc).failed = 0 \/ AfterFailure(doc).failed = doc.failed + 1
<1>1. ASSUME NEW d \in CounterDoc
      PROVE  /\ AfterFailure(d).failed = 0 \/ AfterFailure(d).failed = d.failed + 1
             /\ AfterFailure(d).offenses >= d.offenses
  <2>1. /\ d.failed \in Nat /\ d.offenses \in Nat
        /\ d = [failed |-> d.failed, offenses |-> d.offenses, lockUntil |-> d.lockUntil, last |-> d.last]
    BY Config DEF CounterDoc
  <2>2. CASE d.failed + 1 >= Threshold
    <3>1. AfterFailure(d).failed = 0 /\ AfterFailure(d).offenses = d.offenses + 1
      BY <2>2 DEF AfterFailure
    <3> QED BY <2>1, <3>1
  <2>3. CASE ~(d.failed + 1 >= Threshold)
    <3>1. AfterFailure(d) = [failed |-> d.failed + 1, offenses |-> d.offenses,
                             lockUntil |-> d.lockUntil, last |-> now]
      BY <2>1, <2>3 DEF AfterFailure
    <3> QED BY <2>1, <3>1
  <2> QED BY <2>2, <2>3
<1> DEFINE w == WithoutStale(doc)
<1>2. /\ w \in CounterDoc /\ w.offenses = doc.offenses
      /\ w.failed = doc.failed \/ (w.failed = 0 /\ now - doc.last > ResetAfter)
  <2>1. /\ doc.offenses \in Nat /\ doc.last \in 0 .. MaxTime
        /\ 0 \in 0 .. (Threshold - 1) /\ 0 \in 0 .. (MaxTime + LockMax)
    BY Config DEF CounterDoc
  <2>2. CASE now - doc.last > ResetAfter
    <3>1. w = [failed |-> 0, offenses |-> doc.offenses, lockUntil |-> 0, last |-> doc.last]
      BY <2>2 DEF WithoutStale, CounterDoc
    <3> QED BY <2>1, <2>2, <3>1 DEF CounterDoc
  <2>3. CASE ~(now - doc.last > ResetAfter)
    BY <2>3 DEF WithoutStale
  <2> QED BY <2>2, <2>3
<1> HIDE DEF w
<1>3. Follows(AfterFailure(w), doc, now)
  <2>1. /\ AfterFailure(w).failed = 0 \/ AfterFailure(w).failed = w.failed + 1
        /\ AfterFailure(w).offenses >= w.offenses
    BY <1>1, <1>2
  <2> QED BY <1>2, <2>1 DEF Follows
<1>4. Follows(AfterFailure(doc), doc, now)
  BY <1>1 DEF Follows
<1> QED BY <1>1, <1>3, <1>4 DEF w

(* The streak of a counter that is written grows no faster than its count. *)
LEMMA StreakFollows ==
  ASSUME NEW c \in Counter, NEW doc \in CounterDoc, NEW old \in CounterDoc, old = counter[c],
         streak[c] \in Nat, now \in Nat, streak[c] <= old.failed, Follows(doc, old, now),
         c[1] = "account" => doc.failed = 0 \/ doc.failed = old.failed + 1
  PROVE  (IF JustLocked(doc) THEN 0 ELSE IF Forgotten(c) THEN 1 ELSE streak[c] + 1) <= doc.failed
<1>1. doc.failed \in Nat /\ old.failed \in Nat /\ old.last \in Nat
  BY Config DEF CounterDoc
<1>2. CASE JustLocked(doc)
  BY <1>1, <1>2
<1>3. CASE ~JustLocked(doc) /\ Forgotten(c)
  BY <1>1, <1>3 DEF JustLocked
<1>4. CASE ~JustLocked(doc) /\ ~Forgotten(c)
  <2>1. doc.failed = old.failed + 1
    BY <1>4 DEF JustLocked, Forgotten, Follows
  <2> QED BY <1>1, <1>4, <2>1
<1> QED BY <1>2, <1>3, <1>4

LEMMA CheckSerial ==
  ASSUME EarnedInv, SerialInv, NEW a \in Attempt, NEW k \in Throttle, CheckThrottle(a, k)
  PROVE  SerialInv'
<1> DEFINE q == attempt'[a]
<1>1. /\ attempt \in [Attempt -> AttemptState] /\ attempt[a].at = "check" /\ k # "account"
      /\ attempt[a] \in AttemptState
  BY DEF CheckThrottle, EarnedInv, TypeOK, Throttle
<1>2. attempt[a].plan \in [Kind -> CounterDoc]
  BY <1>1 DEF AttemptState
<1>3. /\ attempt' = [attempt EXCEPT ![a] = q]
      /\ q = [attempt[a] EXCEPT !.reads = @ \ {k},
                                !.plan[k].lockUntil = counter[KeyOf(a, k)].lockUntil]
  BY <1>1 DEF CheckThrottle
<1>4. /\ q.at = "check" /\ q.email = attempt[a].email /\ q.address = attempt[a].address
      /\ q.plan["account"] = attempt[a].plan["account"]
  BY <1>1, <1>2, <1>3 DEF AttemptState
<1>5. UNCHANGED <<counter, now, streak, overlapped, told>>
  BY DEF CheckThrottle
<1> HIDE DEF q
<1>6. Held(q, counter, overlapped, now)
  <2>1. Key(q, "account") = Key(attempt[a], "account")
    BY <1>4 DEF Key
  <2> QED BY <1>1, <1>4, <2>1 DEF Held, SerialInv
<1>7. SerialLockHolds'
  BY <1>5 DEF SerialInv, SerialLockHolds
<1> QED BY <1>1, <1>3, <1>4, <1>5, <1>6, <1>7, AsideSerial

(* A refusal answers the lock that is on the account, unless others meddle. *)
LEMMA EndsSerial ==
  ASSUME EarnedInv, SerialInv, NEW a \in Attempt, Refuse(a) \/ BlockForRisk(a) \/ AnswerSuccess(a)
  PROVE  SerialInv'
<1>1. /\ attempt' = [attempt EXCEPT ![a] = Idle] /\ Idle.at = "idle"
      /\ UNCHANGED <<counter, now, streak, overlapped>>
  BY DEF Refuse, BlockForRisk, AnswerSuccess, Idle
<1>2. Held(Idle, counter, overlapped, now)
  BY <1>1 DEF Held
<1>3. SerialLockHolds'
  <2>1. CASE told' = told
    BY <1>1, <2>1 DEF SerialInv, SerialLockHolds
  <2>2. CASE Refuse(a) /\ told' = told \cup {<<attempt[a].email, attempt[a].plan["account"].lockUntil>>}
    <3> DEFINE c == <<"account", attempt[a].email>>
    <3>1. attempt[a].at = "check" /\ attempt[a] \in AttemptState /\ Shaped(attempt[a])
      BY <2>2 DEF Refuse, Checked, EarnedInv, TypeOK
    <3>2. c \notin overlapped => attempt[a].plan["account"] = counter[c]
      BY <3>1 DEF SerialInv, Held, Key
    <3>3. c \notin overlapped => attempt[a].plan["account"].lockUntil \in Nat
      BY <3>1, PlanTyped, Config DEF Kind, CounterDoc
    <3> QED BY <1>1, <2>2, <3>2, <3>3 DEF SerialInv, SerialLockHolds
  <2> QED BY <2>1, <2>2 DEF Refuse, BlockForRisk, AnswerSuccess
<1> QED BY <1>1, <1>2, <1>3, AsideSerial

(* The password is looked at only where the account is not locked. *)
LEMMA PasswordSerial ==
  ASSUME EarnedInv, SerialInv, NEW a \in Attempt, WrongPassword(a) \/ RightPassword(a)
  PROVE  SerialInv'
<1> DEFINE q == attempt'[a]
<1>1. /\ attempt \in [Attempt -> AttemptState] /\ attempt[a].at = "check" /\ Admitted(a)
      /\ attempt[a].plan["account"] \in CounterDoc /\ now \in Nat
  <2>1. attempt[a] \in AttemptState /\ now \in Nat
    BY Config DEF EarnedInv, TypeOK
  <2> QED BY <2>1, PlanTyped DEF WrongPassword, RightPassword, Admitted, Checked, EarnedInv, TypeOK, Kind
<1>2. /\ attempt' = [attempt EXCEPT ![a] = q] /\ q.email = attempt[a].email
      /\ q.address = attempt[a].address
      /\ \/ q.at = "record" /\ q.writes = {}
         \/ q.at = "succeed"
  <2>1. attempt[a].writes = {}
    BY <1>1 DEF EarnedInv, Shaped
  <2>2. CASE WrongPassword(a)
    BY <1>1, <2>1, <2>2 DEF WrongPassword, AttemptState
  <2>3. CASE RightPassword(a)
    BY <1>1, <2>3 DEF RightPassword, AttemptState
  <2> QED BY <2>2, <2>3
<1>3. q.at = "record" => q.plan["account"] = attempt[a].plan["account"]
  <2>1. CASE WrongPassword(a)
    <3>1. q.plan = [Unread EXCEPT !["account"] = attempt[a].plan["account"]]
      BY <1>1, <2>1 DEF WrongPassword, AttemptState
    <3> HIDE DEF q
    <3> QED BY <3>1 DEF Unread, Kind
  <2>2. CASE RightPassword(a)
    BY <1>1, <2>2 DEF RightPassword, AttemptState
  <2> QED BY <2>1, <2>2
<1>4. UNCHANGED <<counter, now, streak, overlapped, told>>
  BY DEF WrongPassword, RightPassword
<1> HIDE DEF q
<1>5. Held(q, counter, overlapped, now)
  <2> DEFINE c == Key(q, "account")
  <2>1. c = Key(attempt[a], "account")
    BY <1>2 DEF Key
  <2>2. c \notin overlapped => attempt[a].plan["account"] = counter[c]
    BY <1>1, <2>1 DEF SerialInv, Held
  <2>3. attempt[a].plan["account"].lockUntil <= now
    <3>1. attempt[a].plan["account"].lockUntil \in Nat
      BY <1>1, Config DEF CounterDoc
    <3> QED BY <1>1, <3>1 DEF Admitted, Locked
  <2> QED BY <1>2, <1>3, <2>2, <2>3 DEF Held
<1>6. SerialLockHolds'
  BY <1>4 DEF SerialInv, SerialLockHolds
<1> QED BY <1>1, <1>2, <1>4, <1>5, <1>6, AsideSerial

LEMMA ReadSerial ==
  ASSUME EarnedInv, SerialInv, NEW a \in Attempt, NEW k \in Throttle, ReadThrottle(a, k)
  PROVE  SerialInv'
<1> DEFINE c == KeyOf(a, k)
           q == attempt'[a]
<1>1. /\ attempt \in [Attempt -> AttemptState] /\ attempt[a].at = "record" /\ k # "account"
      /\ attempt[a] \in AttemptState /\ Shaped(attempt[a]) /\ now \in 0 .. MaxTime /\ k \in Kind
  BY DEF ReadThrottle, EarnedInv, TypeOK, Throttle, Kind
<1>2. c = Key(attempt[a], k) /\ counter[c] \in CounterDoc
  <2>1. KeyOf(a, k) = Key(attempt[a], k)
    BY DEF KeyOf, Key
  <2>2. c \in Counter
    BY <1>1, <2>1, KeyIsCounter DEF Shaped
  <2> QED BY <2>1, <2>2 DEF EarnedInv, TypeOK
<1>3. attempt[a].plan \in [Kind -> CounterDoc]
  BY <1>1 DEF AttemptState
<1>4. /\ attempt' = [attempt EXCEPT ![a] = q]
      /\ q = [attempt[a] EXCEPT !.reads = @ \ {k}, !.writes = @ \cup {k},
                                !.plan[k] = AfterFailure(WithoutStale(counter[c]))]
  BY <1>1 DEF ReadThrottle
<1> DEFINE doc == AfterFailure(WithoutStale(counter[c]))
<1>5. Follows(doc, counter[c], now)
  BY <1>1, <1>2, FailureFollows
<1> HIDE DEF doc, q, c
<1>6. /\ q.at = "record" /\ q.email = attempt[a].email /\ q.address = attempt[a].address
      /\ q.writes = attempt[a].writes \cup {k} /\ q.plan[k] = doc
      /\ \A l \in Kind : l # k => q.plan[l] = attempt[a].plan[l]
  BY <1>1, <1>3, <1>4 DEF AttemptState, doc
<1>7. UNCHANGED <<counter, now, streak, overlapped, told>>
  BY DEF ReadThrottle
<1>8. Held(q, counter, overlapped, now)
  <2>1. \A l : Key(q, l) = Key(attempt[a], l)
    BY <1>6 DEF Key
  <2>2. Held(attempt[a], counter, overlapped, now)
    BY DEF SerialInv
  <2>3. ASSUME NEW l \in q.writes, Key(q, l) \notin overlapped
        PROVE  Follows(q.plan[l], counter[Key(q, l)], now)
    <3>1. l \in Kind
      BY <1>1, <1>6 DEF AttemptState
    <3>2. CASE l = k
      BY <1>2, <1>5, <1>6, <2>1, <3>2
    <3>3. CASE l # k
      BY <1>1, <1>6, <2>1, <2>2, <2>3, <3>1, <3>3 DEF Held
    <3> QED BY <3>2, <3>3
  <2> QED BY <1>1, <1>6, <2>1, <2>2, <2>3 DEF Held, Kind
<1>9. SerialLockHolds'
  BY <1>7 DEF SerialInv, SerialLockHolds
<1> QED BY <1>1, <1>4, <1>6, <1>7, <1>8, <1>9, AsideSerial

LEMMA WriteThrottleSerial ==
  ASSUME EarnedInv, EarnedInv', SerialInv, NEW a \in Attempt, NEW k \in Throttle,
         WriteThrottle(a, k)
  PROVE  /\ SerialInv'
         /\ Key(attempt[a], k) \notin overlapped
              => counter'[Key(attempt[a], k)].offenses >= counter[Key(attempt[a], k)].offenses
<1> DEFINE c == Key(attempt[a], k)
           doc == attempt[a].plan[k]
           q == attempt'[a]
           s == IF JustLocked(doc) THEN 0 ELSE IF Forgotten(c) THEN 1 ELSE streak[c] + 1
<1>1. /\ attempt \in [Attempt -> AttemptState] /\ attempt[a].at = "record" /\ k # "account"
      /\ attempt[a] \in AttemptState /\ Shaped(attempt[a]) /\ now \in Nat /\ k \in Kind
      /\ k \in attempt[a].writes
  BY Config DEF WriteThrottle, EarnedInv, TypeOK, Throttle, Kind
<1>2. KeyOf(a, k) = c /\ c \in Counter /\ c[1] = k /\ counter[c] \in CounterDoc /\ doc \in CounterDoc
  <2>1. KeyOf(a, k) = c /\ c[1] = k
    BY DEF KeyOf, Key
  <2>2. c \in Counter
    BY <1>1, KeyIsCounter DEF Shaped
  <2>3. doc \in CounterDoc
    BY <1>1, PlanTyped
  <2> QED BY <2>1, <2>2, <2>3 DEF EarnedInv, TypeOK
<1>3. attempt[a].plan \in [Kind -> CounterDoc]
  BY <1>1 DEF AttemptState
<1>4. /\ attempt' = [attempt EXCEPT ![a] = q]
      /\ q = [attempt[a] EXCEPT !.writes = @ \ {k}, !.plan[k] = Zero]
  BY <1>1 DEF WriteThrottle
<1>5. /\ counter' = [counter EXCEPT ![c] = doc] /\ streak' = [streak EXCEPT ![c] = s]
      /\ UNCHANGED <<now, overlapped, told>>
  <2>1. streak \in [Counter -> Nat]
    BY DEF EarnedInv, TypeOK
  <2> QED BY <1>2, <2>1 DEF WriteThrottle, Lengthen
<1>6. c \notin overlapped => Follows(doc, counter[c], now)
  BY <1>1 DEF SerialInv, Held
<1>7. c \notin overlapped => s <= doc.failed
  <2> SUFFICES ASSUME c \notin overlapped PROVE s <= doc.failed
    OBVIOUS
  <2>1. streak[c] \in Nat /\ streak[c] <= counter[c].failed
    BY <1>2 DEF EarnedInv, TypeOK, SerialInv, StreakIsCounted
  <2> HIDE DEF c, doc
  <2> QED BY <1>1, <1>2, <1>6, <2>1, StreakFollows
<1> HIDE DEF q, s, doc, c
<1>8. /\ q.at = "record" /\ q.email = attempt[a].email /\ q.address = attempt[a].address
      /\ q.writes = attempt[a].writes \ {k}
      /\ \A l \in Kind : l # k => q.plan[l] = attempt[a].plan[l]
  BY <1>1, <1>3, <1>4 DEF AttemptState
<1>9. \A x \in Counter : counter'[x] = IF x = c THEN doc ELSE counter[x]
  BY <1>2, <1>5 DEF EarnedInv, TypeOK
<1>10. ASSUME NEW l \in Kind, l # k
       PROVE  Key(q, l) = Key(attempt[a], l) /\ counter'[Key(q, l)] = counter[Key(q, l)]
  <2>1. Key(q, l) = Key(attempt[a], l) /\ Key(attempt[a], l) # c
    BY <1>8, <1>10 DEF Key, c
  <2>2. Key(attempt[a], l) \in Counter
    BY <1>1, KeyIsCounter DEF Shaped
  <2> QED BY <1>9, <2>1, <2>2
<1>11. Held(q, counter', overlapped, now)
  <2>1. Held(attempt[a], counter, overlapped, now)
    BY DEF SerialInv
  <2>2. ASSUME NEW l \in q.writes, Key(q, l) \notin overlapped
        PROVE  Follows(q.plan[l], counter'[Key(q, l)], now)
    <3>1. l \in Kind /\ l # k /\ l \in attempt[a].writes
      BY <1>1, <1>8 DEF AttemptState
    <3> QED BY <1>1, <1>8, <1>10, <2>1, <2>2, <3>1 DEF Held
  <2> QED BY <1>1, <1>8, <1>10, <2>1, <2>2 DEF Held, Kind
<1>12. SerialLockHolds'
  <2>1. ASSUME NEW t \in told
        PROVE  counter'[<<"account", t[1]>>] = counter[<<"account", t[1]>>]
    <3>1. t[1] \in Email
      BY DEF EarnedInv, TypeOK
    <3>2. <<"account", t[1]>> \in Counter /\ <<"account", t[1]>> # c
      BY <1>1, <1>2, <3>1 DEF Counter
    <3> QED BY <1>9, <3>2
  <2> QED BY <1>5, <2>1 DEF SerialInv, SerialLockHolds
<1>13. c \notin overlapped => counter'[c].offenses >= counter[c].offenses
  BY <1>2, <1>6, <1>9 DEF Follows
<1>14. SerialInv'
  BY <1>1, <1>4, <1>5, <1>7, <1>8, <1>11, <1>12, WriteSerial DEF c
<1> QED BY <1>13, <1>14 DEF c

(* The account is written by an attempt that found it open, so no answered *)
(* lock is still running, unless others meddle.                            *)
LEMMA NoLockRuns ==
  ASSUME EarnedInv, SerialInv, NEW a \in Attempt, attempt[a].at \in {"record", "succeed"},
         NEW t \in told, t[1] = attempt[a].email, <<"account", t[1]>> \notin overlapped
  PROVE  ~(now < t[2])
<1> DEFINE c == <<"account", t[1]>>
<1>1. c = Key(attempt[a], "account") /\ c \in Counter /\ t[2] \in Nat /\ now \in Nat
  BY Config DEF Key, EarnedInv, TypeOK, Counter
<1>2. counter[c].lockUntil \in Nat
  BY <1>1, Config DEF EarnedInv, TypeOK, CounterDoc
<1>3. counter[c].lockUntil <= now
  BY <1>1 DEF SerialInv, Held
<1>4. now < t[2] => counter[c].lockUntil >= t[2]
  BY DEF SerialInv, SerialLockHolds
<1> QED BY <1>1, <1>2, <1>3, <1>4

LEMMA FailAccountSerial ==
  ASSUME EarnedInv, EarnedInv', SerialInv, NEW a \in Attempt, FailAccountAndAnswer(a)
  PROVE  SerialInv' /\ \A x \in Counter : x[1] # "account" => counter'[x] = counter[x]
<1> DEFINE c == Key(attempt[a], "account")
           plan == attempt[a].plan["account"]
           doc == AfterFailure(plan)
           s == IF JustLocked(doc) THEN 0 ELSE IF Forgotten(c) THEN 1 ELSE streak[c] + 1
<1>1. /\ attempt[a].at = "record" /\ attempt[a] \in AttemptState /\ Shaped(attempt[a])
      /\ now \in 0 .. MaxTime /\ now \in Nat /\ "account" \in Kind
  BY Config DEF FailAccountAndAnswer, EarnedInv, TypeOK, Kind
<1>2. KeyOf(a, "account") = c /\ c \in Counter /\ c[1] = "account" /\ c = <<"account", attempt[a].email>>
  <2>1. KeyOf(a, "account") = c /\ c = <<"account", attempt[a].email>>
    BY DEF KeyOf, Key
  <2>2. c \in Counter
    BY <1>1, KeyIsCounter DEF Shaped
  <2> QED BY <2>1, <2>2
<1>3. /\ counter \in [Counter -> CounterDoc] /\ counter[c] \in CounterDoc /\ plan \in CounterDoc
      /\ streak \in [Counter -> Nat]
  BY <1>1, <1>2, PlanTyped DEF EarnedInv, TypeOK
<1>4. /\ attempt' = [attempt EXCEPT ![a] = Idle] /\ Idle.at = "idle" /\ UNCHANGED <<now, overlapped>>
  BY DEF FailAccountAndAnswer, Idle
<1>5. \/ UNCHANGED <<counter, streak, told>>
      \/ /\ counter' = [counter EXCEPT ![c] = doc] /\ streak' = [streak EXCEPT ![c] = s]
         /\ told' = told \/ told' = told \cup {<<attempt[a].email, doc.lockUntil>>}
  BY <1>2, <1>3 DEF FailAccountAndAnswer, Lengthen
<1>6. \A m : Held(Idle, m, overlapped, now)
  BY <1>4 DEF Held
<1>7. CASE UNCHANGED <<counter, streak, told>>
  <2>1. SerialLockHolds'
    BY <1>4, <1>7 DEF SerialInv, SerialLockHolds
  <2> QED BY <1>4, <1>6, <1>7, <2>1, AsideSerial
<1>8. CASE /\ counter' = [counter EXCEPT ![c] = doc] /\ streak' = [streak EXCEPT ![c] = s]
           /\ told' = told \/ told' = told \cup {<<attempt[a].email, doc.lockUntil>>}
  <2>1. \A x \in Counter : counter'[x] = IF x = c THEN doc ELSE counter[x]
    BY <1>3, <1>8
  <2>2. doc \in CounterDoc
    BY <1>3 , <2>1, <1>2 DEF EarnedInv, TypeOK
  <2>3. c \notin overlapped => s <= doc.failed
    <3> SUFFICES ASSUME c \notin overlapped PROVE s <= doc.failed
      OBVIOUS
    <3>1. plan = counter[c]
      BY <1>1 DEF SerialInv, Held
    <3>2. Follows(doc, counter[c], now) /\ (doc.failed = 0 \/ doc.failed = counter[c].failed + 1)
      BY <1>1, <1>3, <3>1, FailureFollows
    <3>3. streak[c] \in Nat /\ streak[c] <= counter[c].failed
      BY <1>2, <1>3 DEF SerialInv, StreakIsCounted
    <3> HIDE DEF doc, c
    <3> QED BY <1>1, <1>2, <1>3, <2>2, <3>2, <3>3, StreakFollows
  <2> HIDE DEF doc, c, s
  <2>4. SerialLockHolds'
    <3> SUFFICES ASSUME NEW t \in told', <<"account", t[1]>> \notin overlapped, now < t[2]
                 PROVE  counter'[<<"account", t[1]>>].lockUntil >= t[2]
      BY <1>4 DEF SerialLockHolds
    <3>1. CASE t \in told
      <4>1. t[1] \in Email /\ t[1] # attempt[a].email
        BY <1>1, <3>1, NoLockRuns DEF EarnedInv, TypeOK
      <4>2. <<"account", t[1]>> \in Counter /\ <<"account", t[1]>> # c
        BY <1>2, <4>1 DEF Counter
      <4>3. counter'[<<"account", t[1]>>] = counter[<<"account", t[1]>>]
        BY <2>1, <4>2
      <4> QED BY <3>1, <4>3 DEF SerialInv, SerialLockHolds
    <3>2. CASE t = <<attempt[a].email, doc.lockUntil>>
      <4>1. doc.lockUntil \in Nat
        BY <2>2, Config DEF CounterDoc
      <4> QED BY <1>2, <2>1, <3>2, <4>1
    <3> QED BY <1>8, <3>1, <3>2
  <2>5. SerialInv'
    BY <1>1, <1>4, <1>6, <1>8, <2>3, <2>4, WriteSerial DEF c
  <2> QED BY <1>2, <2>1, <2>5
<1> QED BY <1>5, <1>7, <1>8

LEMMA ResetSerial ==
  ASSUME EarnedInv, EarnedInv', SerialInv, NEW a \in Attempt, NEW k \in {"account", "user"},
         ResetCounter(a, k)
  PROVE  /\ SerialInv'
         /\ \A x \in Counter : x[1] # "account" => counter'[x].offenses = counter[x].offenses
<1> DEFINE c == Key(attempt[a], k)
           d == [counter[c] EXCEPT !.failed = 0, !.lockUntil = 0,
                                   !.offenses = IF k = "account" THEN 0 ELSE counter[c].offenses]
           q == attempt'[a]
<1>1. /\ attempt \in [Attempt -> AttemptState] /\ attempt[a].at = "succeed" /\ k \in Kind
      /\ attempt[a] \in AttemptState /\ Shaped(attempt[a]) /\ now \in Nat
  BY Config DEF ResetCounter, EarnedInv, TypeOK, Kind
<1>2. KeyOf(a, k) = c /\ c \in Counter /\ c[1] = k /\ c = <<k, attempt[a].email>>
  <2>1. KeyOf(a, k) = c /\ c = <<k, attempt[a].email>>
    BY DEF KeyOf, Key
  <2>2. c \in Counter
    BY <1>1, KeyIsCounter DEF Shaped
  <2> QED BY <2>1, <2>2
<1>3. counter \in [Counter -> CounterDoc] /\ counter[c] \in CounterDoc
  BY <1>2 DEF EarnedInv, TypeOK
<1>4. d = [failed |-> 0, offenses |-> IF k = "account" THEN 0 ELSE counter[c].offenses,
           lockUntil |-> 0, last |-> counter[c].last]
  BY <1>3, ResetDoc
<1>5. counter' = [counter EXCEPT ![c] = d]
  BY <1>2, <1>3 DEF ResetCounter
<1>6. /\ attempt' = [attempt EXCEPT ![a] = q] /\ q = [attempt[a] EXCEPT !.writes = @ \ {k}]
      /\ streak' = [streak EXCEPT ![c] = 0] /\ UNCHANGED <<now, overlapped, told>>
  BY <1>1, <1>2 DEF ResetCounter
<1> HIDE DEF q, d, c
<1>7. q.at = "succeed" /\ q.email = attempt[a].email /\ q.address = attempt[a].address
  BY <1>1, <1>6 DEF AttemptState
<1>8. \A x \in Counter : counter'[x] = IF x = c THEN d ELSE counter[x]
  BY <1>3, <1>5
<1>9. Held(q, counter', overlapped, now)
  <2> DEFINE acc == Key(attempt[a], "account")
  <2>1. Key(q, "account") = acc
    BY <1>7 DEF Key
  <2>2. acc \notin overlapped => counter[acc].lockUntil <= now
    BY <1>1 DEF SerialInv, Held
  <2>3. acc \in Counter
    BY <1>1, KeyIsCounter DEF Shaped, Kind
  <2>4. acc \notin overlapped => counter'[acc].lockUntil <= now
    <3>1. d.lockUntil <= now
      BY <1>1, <1>4
    <3> HIDE DEF acc
    <3> QED BY <1>8, <2>2, <2>3, <3>1
  <2> QED BY <1>7, <2>1, <2>4 DEF Held
<1>10. SerialLockHolds'
  <2> SUFFICES ASSUME NEW t \in told, <<"account", t[1]>> \notin overlapped, now < t[2]
               PROVE  counter'[<<"account", t[1]>>].lockUntil >= t[2]
    BY <1>6 DEF SerialLockHolds
  <2>1. t[1] \in Email /\ t[1] # attempt[a].email
    BY <1>1, NoLockRuns DEF EarnedInv, TypeOK
  <2>2. <<"account", t[1]>> \in Counter /\ <<"account", t[1]>> # c
    BY <1>2, <2>1 DEF Counter
  <2>3. counter'[<<"account", t[1]>>] = counter[<<"account", t[1]>>]
    BY <1>8, <2>2
  <2> QED BY <2>3 DEF SerialInv, SerialLockHolds
<1>11. 0 <= d.failed
  BY <1>4
<1>12. SerialInv'
  BY <1>1, <1>5, <1>6, <1>7, <1>9, <1>10, <1>11, WriteSerial DEF c
<1>13. \A x \in Counter : x[1] # "account" => counter'[x].offenses = counter[x].offenses
  BY <1>2, <1>4, <1>8
<1> QED BY <1>12, <1>13

(* No throttle that attempts meet one at a time loses an offense. *)
OffensesKept ==
  \A x \in Counter : (x[1] # "account" /\ x \notin overlapped)
    => counter'[x].offenses >= counter[x].offenses

(* Every step keeps SerialInv, and no throttle that attempts meet one at a *)
(* time loses an offense: one case for each action.                        *)
LEMMA StepSerial ==
  ASSUME EarnedInv, EarnedInv', SerialInv, [Next]_vars
  PROVE  SerialInv' /\ OffensesKept
<1>0. counter' = counter => OffensesKept
  BY DEF EarnedInv, TypeOK, CounterDoc, OffensesKept
<1>1. ASSUME NEW a \in Attempt, NEW e \in Email, NEW addr \in Address, NEW right \in BOOLEAN,
             Arrive(a, e, addr, right)
      PROVE  SerialInv' /\ OffensesKept
  BY <1>0, <1>1, ArriveSerial DEF Arrive
<1>2. ASSUME NEW a \in Attempt, Serve(a) PROVE SerialInv' /\ OffensesKept
  <2>1. ASSUME NEW k \in Throttle, CheckThrottle(a, k) PROVE SerialInv' /\ OffensesKept
    BY <1>0, <2>1, CheckSerial DEF CheckThrottle
  <2>2. ASSUME NEW k \in Throttle, ReadThrottle(a, k) PROVE SerialInv' /\ OffensesKept
    BY <1>0, <2>2, ReadSerial DEF ReadThrottle
  <2>3. ASSUME NEW k \in Throttle, WriteThrottle(a, k) PROVE SerialInv' /\ OffensesKept
    <3> DEFINE c == Key(attempt[a], k)
    <3>1. c \notin overlapped => counter'[c].offenses >= counter[c].offenses
      BY <2>3, WriteThrottleSerial
    <3>2. \A x \in Counter : x # c => counter'[x] = counter[x]
      BY <2>3 DEF WriteThrottle, KeyOf, Key, EarnedInv, TypeOK
    <3>3. \A x \in Counter : counter[x].offenses \in Nat
      BY DEF EarnedInv, TypeOK, CounterDoc
    <3>4. OffensesKept
      BY <3>1, <3>2, <3>3 DEF OffensesKept
    <3> QED BY <2>3, <3>4, WriteThrottleSerial
  <2>4. ASSUME NEW k \in {"account", "user"}, ResetCounter(a, k) PROVE SerialInv' /\ OffensesKept
    <3>1. \A x \in Counter : counter[x].offenses \in Nat
      BY DEF EarnedInv, TypeOK, CounterDoc
    <3> QED BY <2>4, <3>1, ResetSerial DEF OffensesKept
  <2>5. CASE FailAccountAndAnswer(a)
    <3>1. \A x \in Counter : counter[x].offenses \in Nat
      BY DEF EarnedInv, TypeOK, CounterDoc
    <3> QED BY <2>5, <3>1, FailAccountSerial DEF OffensesKept
  <2>6. CASE Refuse(a) \/ BlockForRisk(a) \/ AnswerSuccess(a)
    BY <1>0, <2>6, EndsSerial DEF Refuse, BlockForRisk, AnswerSuccess
  <2>7. CASE WrongPassword(a) \/ RightPassword(a)
    BY <1>0, <2>7, PasswordSerial DEF WrongPassword, RightPassword
  <2> QED BY <1>2, <2>1, <2>2, <2>3, <2>4, <2>5, <2>6, <2>7 DEF Serve
<1>3. CASE Tick
  <2>1. now \in Nat /\ now' = now + 1 /\ counter \in [Counter -> CounterDoc]
    BY <1>3, Config DEF Tick, EarnedInv, TypeOK
  <2>2. ASSUME NEW a \in Attempt PROVE Held(attempt[a], counter, overlapped, now + 1)
    <3>1. attempt[a] \in AttemptState /\ Shaped(attempt[a]) /\ now + 1 \in Nat /\ now <= now + 1
      BY <2>1 DEF EarnedInv, TypeOK
    <3>2. Held(attempt[a], counter, overlapped, now)
      BY DEF SerialInv
    <3> QED BY <2>1, <3>1, <3>2, HeldStays
  <2>3. SerialLockHolds'
    <3>1. \A t \in told : t[2] \in Nat
      BY Config DEF EarnedInv, TypeOK
    <3> QED BY <1>3, <2>1, <3>1 DEF Tick, SerialInv, SerialLockHolds
  <2>4. Apart' /\ StreakIsCounted'
    BY <1>3 DEF Tick, SerialInv, Apart, StreakIsCounted
  <2> QED BY <1>0, <1>3, <2>1, <2>2, <2>3, <2>4 DEF Tick, SerialInv
<1>4. CASE Crash
  <2>1. \A a \in Attempt : attempt'[a] = Idle
    BY <1>4 DEF Crash
  <2>2. Apart' /\ \A a \in Attempt : Held(attempt'[a], counter', overlapped', now')
    BY <2>1 DEF Apart, Held, Idle
  <2>3. StreakIsCounted' /\ SerialLockHolds'
    BY <1>4 DEF Crash, SerialInv, StreakIsCounted, SerialLockHolds
  <2> QED BY <1>0, <1>4, <2>2, <2>3 DEF Crash, SerialInv
<1>5. CASE UNCHANGED vars
  BY <1>0, <1>5 DEF vars, SerialInv, Apart, StreakIsCounted, SerialLockHolds
<1>6. CASE \E a \in Attempt, e \in Email, addr \in Address, right \in BOOLEAN :
             Arrive(a, e, addr, right)
  BY <1>1, <1>6
<1>7. CASE \E a \in Attempt : Serve(a)
  BY <1>2, <1>7
<1>8. SerialInv' /\ OffensesKept
  BY <1>3, <1>4, <1>5, <1>6, <1>7, Zenon DEF Next
<1> QED BY <1>8

LEMMA InitSerial == Init => SerialInv
<1> SUFFICES ASSUME Init PROVE SerialInv
  OBVIOUS
<1>1. Apart /\ \A a \in Attempt : Held(attempt[a], counter, overlapped, now)
  BY DEF Init, Apart, Held, Idle
<1>2. StreakIsCounted /\ SerialLockHolds
  BY DEF Init, StreakIsCounted, SerialLockHolds, Zero
<1> QED BY <1>1, <1>2 DEF SerialInv

(* Whatever attempts that do meet lose, what an attempt holds of a counter *)
(* it has for itself is still true when it writes.                         *)
THEOREM SerialInvariant == Spec => [](EarnedInv /\ SerialInv)
<1>1. EarnedInv /\ SerialInv /\ [Next]_vars => (EarnedInv /\ SerialInv)'
  BY StepEarned, StepSerial
<1> QED BY <1>1, InitEarned, InitSerial, PTL DEF Spec

(* Attempts that come one at a time lock a counter with the Threshold-th   *)
(* wrong password in a row at the latest, crashes and resets included.     *)
THEOREM LocksAtThreshold == Spec => []SerialLocksAtThreshold
<1>1. EarnedInv /\ SerialInv => SerialLocksAtThreshold
  <2> SUFFICES ASSUME EarnedInv, SerialInv, NEW c \in Counter \ overlapped
               PROVE  streak[c] < Threshold
    BY DEF SerialLocksAtThreshold
  <2>1. counter[c].failed \in 0 .. (Threshold - 1) /\ streak[c] \in Nat
    BY DEF EarnedInv, TypeOK, CounterDoc
  <2>2. streak[c] <= counter[c].failed
    BY DEF SerialInv, StreakIsCounted
  <2> QED BY <2>1, <2>2, Config
<1> QED BY <1>1, SerialInvariant, PTL

(* Attempts that come one at a time find an account locked until the       *)
(* deadline that any of them was told.                                     *)
THEOREM LockHolds == Spec => []SerialLockHolds
<1>1. EarnedInv /\ SerialInv => SerialLockHolds
  BY DEF SerialInv
<1> QED BY <1>1, SerialInvariant, PTL

(* Attempts that come one at a time never lower a throttle's offenses, not *)
(* even with a right password.                                             *)
THEOREM OffensesNeverDrop == Spec => SerialOffensesNeverDrop
<1>1. EarnedInv /\ SerialInv /\ EarnedInv' /\ [Next]_vars
        => [\A c \in Counter : (c[1] # "account" /\ c \notin overlapped)
              => counter'[c].offenses >= counter[c].offenses]_vars
  BY StepSerial DEF OffensesKept
<1>2. Spec => [][Next]_vars
  BY DEF Spec
<1> QED BY <1>1, <1>2, SerialInvariant, PTL DEF SerialOffensesNeverDrop

=============================================================================
