--------------------------- MODULE LoginRiskProofs ---------------------------
(***************************************************************************)
(* For any number of requests, devices and addresses, any window and any   *)
(* length of the address list: the documents keep their shape, no revoked  *)
(* device is trusted again, and no login goes without a second factor      *)
(* unless its device and its address are vouched for.                      *)
(***************************************************************************)
EXTENDS LoginRisk, TLAPS

(* What a copy of the user document may claim: every known address was     *)
(* used by a recorded login, and whoever has one has a last address.       *)
Vouched(doc, seen) ==
  /\ \A i \in 1 .. Len(doc.known) : doc.known[i] \in seen
  /\ doc.known # <<>> => doc.lastIp # None

(* The property, of one request. *)
PlainIsVouched(q, seen) ==
  q.at = "record" /\ q.op = "login" /\ q.plain =>
    /\ ~q.isNew
    /\ q.trusted \/ ~Public(q.address) \/ q.address \in seen \/ q.user.known = <<>>

Sound(q, seen) ==
  /\ q \in RequestState
  /\ q.at # "idle" => q.address \in Address
  /\ Vouched(q.user, seen)
  /\ PlainIsVouched(q, seen)

VouchInv ==
  /\ user \in UserDoc /\ Vouched(user, used)
  /\ device \in [Device -> DeviceDoc]
  /\ request \in [Request -> RequestState]
  /\ \A r \in Request : Sound(request[r], used)
  /\ now \in 0 .. MaxTime
  /\ used \subseteq Address
  /\ previous \in [address : Address, at : 0 .. MaxTime] \cup {None}

-----------------------------------------------------------------------------
(* The list of known addresses. *)

(* BoundedSeq is the sequences up to a length. *)
LEMMA BoundedIsShort ==
  ASSUME NEW S, NEW n \in Nat, NEW s
  PROVE  s \in BoundedSeq(S, n) <=> s \in Seq(S) /\ Len(s) <= n
<1>1. ASSUME s \in BoundedSeq(S, n) PROVE s \in Seq(S) /\ Len(s) <= n
  <2>1. PICK m \in 0 .. n : s \in [1 .. m -> S]
    BY <1>1 DEF BoundedSeq, SeqOf
  <2>2. m \in Nat
    BY <2>1
  <2> QED BY <2>1, <2>2
<1>2. ASSUME s \in Seq(S), Len(s) <= n PROVE s \in BoundedSeq(S, n)
  <2>1. s \in [1 .. Len(s) -> S] /\ Len(s) \in 0 .. n
    BY <1>2
  <2> QED BY <2>1 DEF BoundedSeq, SeqOf
<1> QED BY <1>1, <1>2

(* mergeKnownIp keeps the list short; it is never empty afterwards and      *)
(* holds nothing but old addresses and the new one.                        *)
LEMMA WithKnownIsSound ==
  ASSUME NEW s \in BoundedSeq(Address, KnownLimit), NEW a \in Address, NEW legible \in BOOLEAN
  PROVE  LET t == WithKnown(s, a, legible) IN
           /\ t \in BoundedSeq(Address, KnownLimit)
           /\ t # <<>>
           /\ \A i \in 1 .. Len(t) : t[i] = a \/ \E j \in 1 .. Len(s) : t[i] = s[j]
<1>0. KnownLimit \in Nat /\ KnownLimit >= 1
  BY BoundAssumption
<1>1. s \in Seq(Address) /\ Len(s) <= KnownLimit
  BY BoundedIsShort, <1>0
<1>2. CASE Recognised(s, a, legible)
  <2>1. WithKnown(s, a, legible) = s /\ s # <<>>
    BY <1>1, <1>2 DEF WithKnown, Recognised, Contains
  <2> QED BY <2>1
<1>3. CASE ~Recognised(s, a, legible)
  <2> DEFINE all == Append(s, a)
  <2>1. /\ all \in Seq(Address) /\ Len(all) = Len(s) + 1
        /\ \A i \in 1 .. Len(s) : all[i] = s[i]
        /\ all[Len(s) + 1] = a
    BY <1>1
  <2>2. \A i \in 1 .. Len(all) : all[i] = a \/ \E j \in 1 .. Len(s) : all[i] = s[j]
    BY <1>1, <2>1
  <2> HIDE DEF all
  <2>3. CASE Len(all) > KnownLimit
    <3> DEFINE t == Tail(all)
    <3>1. /\ t \in Seq(Address) /\ Len(t) = Len(s)
          /\ \A i \in 1 .. Len(t) : t[i] = all[i + 1]
      BY <1>1, <2>1
    <3>2. Len(s) = KnownLimit
      BY <1>0, <1>1, <2>1, <2>3
    <3>3. WithKnown(s, a, legible) = t
      BY <1>3, <2>3 DEF WithKnown, all
    <3> HIDE DEF t
    <3>4. \A i \in 1 .. Len(t) : t[i] = a \/ \E j \in 1 .. Len(s) : t[i] = s[j]
      BY <1>1, <2>1, <2>2, <3>1
    <3>5. t \in BoundedSeq(Address, KnownLimit) /\ t # <<>>
      BY <1>0, <3>1, <3>2, BoundedIsShort
    <3> QED BY <3>3, <3>4, <3>5
  <2>4. CASE ~(Len(all) > KnownLimit)
    <3>1. WithKnown(s, a, legible) = all
      BY <1>3, <2>4 DEF WithKnown, all
    <3>2. all \in BoundedSeq(Address, KnownLimit) /\ all # <<>>
      BY <1>0, <1>1, <2>1, <2>4, BoundedIsShort
    <3> QED BY <2>2, <3>1, <3>2
  <2> QED BY <2>3, <2>4
<1> QED BY <1>2, <1>3

-----------------------------------------------------------------------------
(* What the other steps keep. *)

(* More recorded addresses vouch for no less. *)
LEMMA SoundGrows ==
  ASSUME NEW q, NEW seen, NEW more, seen \subseteq more, Sound(q, seen)
  PROVE  Sound(q, more)
  BY DEF Sound, Vouched, PlainIsVouched

(* The points leave no other sum below the threshold: a login that is let  *)
(* through comes from a device seen before and, with an untrusted device,  *)
(* from an address that is private, known, or the first.                   *)
LEMMA LowIsVouched ==
  ASSUME NEW seen, NEW q, Sound(q, seen), q.op = "login",
         NEW failed \in BOOLEAN, NEW legible \in BOOLEAN, NEW network \in NetworkRisks,
         RiskLevel(RiskScore(q, failed, network, legible)) = "LOW"
  PROVE  /\ ~q.isNew
         /\ q.trusted \/ ~Public(q.address) \/ q.address \in seen \/ q.user.known = <<>>
<1> DEFINE travel == IF q.travel THEN 55 ELSE 0
           unusual == IF Unusual(q.user, q.address, legible) THEN 20 ELSE 0
           misses == IF failed THEN 15 ELSE 0
           moved == IF Public(q.address) /\ q.address # q.user.lastIp THEN 5 ELSE 0
<1>1. /\ network \in Nat /\ travel \in Nat /\ unusual \in Nat
      /\ misses \in Nat /\ moved \in Nat
  BY NetworkAssumption
<1>2. DevicePoints(q.isNew, q.trusted) \in Nat
  BY DEF DevicePoints
<1>3. RiskScore(q, failed, network, legible)
        = DevicePoints(q.isNew, q.trusted) + network + travel + unusual + misses + moved
  BY DEF RiskScore
<1> HIDE DEF travel, misses, moved
<1>4. DevicePoints(q.isNew, q.trusted) + unusual < 35
  <2>1. RiskScore(q, failed, network, legible) < 35
    <3>1. RiskScore(q, failed, network, legible) \in Nat
      BY <1>1, <1>2, <1>3
    <3> QED BY <3>1 DEF RiskLevel
  <2> QED BY <1>1, <1>2, <1>3, <2>1
<1>5. ~q.isNew
  BY <1>1, <1>4 DEF DevicePoints
<1>6. q.trusted \/ ~Unusual(q.user, q.address, legible)
  BY <1>4 DEF DevicePoints
<1>7. ASSUME ~Unusual(q.user, q.address, legible), Public(q.address), q.user.known # <<>>
      PROVE  q.address \in seen
  BY <1>7 DEF Unusual, Recognised, Sound, Vouched, Contains
<1> QED BY <1>5, <1>6, <1>7

(* A handler moves: nothing but its locals changes. *)
LEMMA Moves ==
  ASSUME VouchInv, NEW r \in Request, NEW q, Sound(q, used), Continue(r, q),
         UNCHANGED <<user, device, now, used>>,
         previous' \in {previous, None}
  PROVE  VouchInv'
<1>1. q \in RequestState
  BY DEF Sound
<1>2. request' \in [Request -> RequestState]
  BY <1>1 DEF VouchInv, Continue
<1>3. \A p \in Request : Sound(request'[p], used)
  BY DEF VouchInv, Continue
<1> QED BY <1>2, <1>3 DEF VouchInv

(* A handler that is idle is sound, whatever was recorded.                  *)
LEMMA IdleIsSound == Idle \in RequestState /\ \A seen : Sound(Idle, seen)
<1>1. NoUser \in UserDoc
  <2> DEFINE empty == <<>>
  <2>0. empty \in Seq(Address) /\ Len(empty) = 0
    OBVIOUS
  <2> HIDE DEF empty
  <2>1. empty \in BoundedSeq(Address, KnownLimit)
    <3>1. KnownLimit \in Nat /\ Len(empty) <= KnownLimit
      BY <2>0, BoundAssumption
    <3> QED BY <2>0, <3>1, BoundedIsShort
  <2> USE DEF empty
  <2> QED BY <2>1, BoundAssumption DEF NoUser, UserDoc
<1>2. Idle \in RequestState
  BY <1>1 DEF Idle, RequestState
<1>3. \A seen : Vouched(Idle.user, seen)
  BY DEF Idle, NoUser, Vouched
<1> QED BY <1>2, <1>3 DEF Sound, PlainIsVouched, Idle

(* A request arrives; the others are marked as not alone. *)
LEMMA Enters ==
  ASSUME VouchInv, NEW r \in Request, NEW q, Sound(q, used), Enter(r, q),
         UNCHANGED <<user, device, now, used, previous>>
  PROVE  VouchInv'
<1>1. \A x : Sound(x, used) => \A b \in BOOLEAN : Sound([x EXCEPT !.alone = b], used)
  BY DEF Sound, RequestState, PlainIsVouched
<1>2. \A p \in Request : Sound(request'[p], used)
  BY <1>1, IdleIsSound DEF Enter, VouchInv
<1>3. request' \in [Request -> RequestState]
  <2>1. \A p \in Request : request'[p] \in RequestState
    BY <1>2 DEF Sound
  <2> QED BY <2>1 DEF Enter
<1> QED BY <1>2, <1>3 DEF VouchInv

(* A step that leaves the handlers, the user and the record alone. *)
LEMMA Aside ==
  ASSUME VouchInv, UNCHANGED <<user, request, used, previous>>,
         device' \in [Device -> DeviceDoc], now' \in 0 .. MaxTime
  PROVE  VouchInv'
  BY DEF VouchInv

-----------------------------------------------------------------------------
(* The steps. *)

(* A new request copies the user document, or nothing.                     *)
LEMMA ArrivalKeeps ==
  ASSUME VouchInv, NEW r \in Request, NEW d \in Device, NEW a \in Address
  PROVE  ArriveToRegister(r, d, a) \/ ArriveToLogin(r, d, a) => VouchInv'
<1>1. \A doc \in UserDoc : Vouched(doc, used) =>
        /\ Sound([Idle EXCEPT !.at = "register", !.op = "register",
                             !.device = d, !.address = a], used)
        /\ Sound([Idle EXCEPT !.at = "assess", !.device = d, !.address = a,
                             !.user = doc], used)
  BY IdleIsSound DEF Sound, PlainIsVouched, RequestState, Idle
<1>2. user \in UserDoc /\ Vouched(user, used)
  BY DEF VouchInv
<1> QED BY <1>1, <1>2, Enters DEF ArriveToRegister, ArriveToLogin

(* The account begins without addresses; the second registration ends.     *)
LEMMA CreateUserKeeps ==
  ASSUME VouchInv, NEW r \in Request, CreateUser(r)
  PROVE  VouchInv'
<1>1. CASE user.registered
  BY <1>1, IdleIsSound, Moves DEF CreateUser, End
<1>2. CASE ~user.registered
  <2> DEFINE doc == [NoUser EXCEPT !.registered = TRUE]
             q == [request[r] EXCEPT !.at = "device"]
  <2>1. doc \in UserDoc /\ Vouched(doc, used)
    <3>1. NoUser \in UserDoc /\ Vouched(NoUser, used)
      BY IdleIsSound DEF Sound, RequestState, Idle
    <3> QED BY <3>1 DEF UserDoc, Vouched, NoUser
  <2>2. Sound(q, used)
    BY DEF VouchInv, Sound, PlainIsVouched, RequestState, CreateUser
  <2>3. user' = doc /\ request' = [request EXCEPT ![r] = q]
        /\ UNCHANGED <<device, now, used, previous>>
    BY <1>2 DEF CreateUser, Continue
  <2>4. q \in RequestState
    BY <2>2 DEF Sound
  <2> HIDE DEF doc, q
  <2>5. request' \in [Request -> RequestState] /\ \A p \in Request : Sound(request'[p], used)
    BY <2>2, <2>3, <2>4 DEF VouchInv
  <2> QED BY <2>1, <2>3, <2>5 DEF VouchInv
<1> QED BY <1>1, <1>2

(* Steps that only read, or end, and the reading of the device. *)
LEMMA ReadingKeeps ==
  ASSUME VouchInv, NEW r \in Request,
         Assess(r) \/ FindDevice(r) \/ UpdateDevice(r) \/ Finish(r) \/ BreakOff(r)
         \/ \E level \in {"LOW", "MEDIUM", "HIGH"} : Block(r, level)
  PROVE  VouchInv'
<1>1. request[r] \in RequestState /\ Sound(request[r], used)
  BY DEF VouchInv
<1>2. CASE Assess(r)
  <2> DEFINE q == [request[r] EXCEPT !.at = "device",
                     !.travel = Travelled(request[r].user, request[r].address),
                     !.user.lastAt = 0]
  <2>1. Travelled(request[r].user, request[r].address) \in BOOLEAN
    BY DEF Travelled
  <2> DEFINE doc == [request[r].user EXCEPT !.lastAt = 0]
  <2>6. doc \in UserDoc
    BY <1>1, BoundAssumption DEF RequestState, UserDoc
  <2>2. q \in RequestState
    <3>1. q = [request[r] EXCEPT !.at = "device", !.user = doc,
                 !.travel = Travelled(request[r].user, request[r].address)]
      BY <1>1 DEF RequestState
    <3> HIDE DEF q, doc
    <3> QED BY <1>1, <2>1, <2>6, <3>1 DEF RequestState
  <2>3. q.user.known = request[r].user.known /\ q.user.lastIp = request[r].user.lastIp
        /\ q.at = "device" /\ q.address = request[r].address
    BY <1>1 DEF RequestState, UserDoc
  <2>7. request[r].at # "idle"
    BY <1>2 DEF Assess
  <2> HIDE DEF q
  <2>4. Sound(q, used)
    BY <1>1, <2>2, <2>3, <2>7 DEF Sound, Vouched, PlainIsVouched
  <2>5. Continue(r, q) /\ UNCHANGED <<user, device, now, used, previous>>
    BY <1>2 DEF Assess, q
  <2> QED BY <2>4, <2>5, Moves
<1>3. CASE FindDevice(r)
  <2> DEFINE next == IF device[request[r].device] = "absent" THEN "missing" ELSE "found"
             q == [request[r] EXCEPT !.at = next]
  <2>1. Sound(q, used)
    BY <1>1, <1>3 DEF Sound, PlainIsVouched, RequestState, FindDevice
  <2> QED BY <1>3, <2>1, Moves DEF FindDevice
<1>4. CASE UpdateDevice(r)
  <2> DEFINE q == [request[r] EXCEPT !.at = "score",
                     !.trusted = device[request[r].device] = "trusted"]
  <2>1. Sound(q, used)
    BY <1>1, <1>4 DEF Sound, PlainIsVouched, RequestState, UpdateDevice
  <2> QED BY <1>4, <2>1, Moves DEF UpdateDevice
<1>5. CASE Finish(r) \/ BreakOff(r) \/ \E level \in {"LOW", "MEDIUM", "HIGH"} : Block(r, level)
  <2>1. End(r) /\ UNCHANGED <<user, device, now, used, previous>>
    BY <1>5 DEF Finish, BreakOff, Block
  <2> QED BY <2>1, IdleIsSound, Moves DEF End
<1> QED BY <1>2, <1>3, <1>4, <1>5

(* A created device is untrusted; the loser of the unique index ends.      *)
LEMMA CreateDeviceKeeps ==
  ASSUME VouchInv, NEW r \in Request, CreateDevice(r)
  PROVE  VouchInv'
<1>1. CASE device[request[r].device] # "absent"
  BY <1>1, IdleIsSound, Moves DEF CreateDevice, End
<1>2. CASE device[request[r].device] = "absent"
  <2> DEFINE q == [request[r] EXCEPT !.at = "score", !.isNew = TRUE]
  <2>1. Sound(q, used) /\ q \in RequestState
    BY DEF VouchInv, Sound, PlainIsVouched, RequestState, CreateDevice
  <2>2. /\ device' = [device EXCEPT ![request[r].device] = "untrusted"]
        /\ request' = [request EXCEPT ![r] = q]
        /\ UNCHANGED <<user, now, used, previous>>
    BY <1>2 DEF CreateDevice, Continue
  <2> HIDE DEF q
  <2>3. request' \in [Request -> RequestState] /\ \A p \in Request : Sound(request'[p], used)
    BY <2>1, <2>2 DEF VouchInv
  <2>4. device' \in [Device -> DeviceDoc]
    BY <2>2 DEF VouchInv, DeviceDoc
  <2> QED BY <2>2, <2>3, <2>4 DEF VouchInv
<1> QED BY <1>1, <1>2

(* The session is opened: what is plain is vouched for, by the points. *)
LEMMA OpenKeeps ==
  ASSUME VouchInv, NEW r \in Request, NEW failed \in BOOLEAN, NEW legible \in BOOLEAN,
         NEW network \in NetworkRisks,
         OpenSession(r, RiskLevel(RiskScore(request[r], failed, network, legible)))
  PROVE  VouchInv'
<1> DEFINE level == RiskLevel(RiskScore(request[r], failed, network, legible))
           q == [request[r] EXCEPT !.at = "record",
                   !.plain = request[r].op = "register" \/ level = "LOW"]
<1>1. request[r] \in RequestState /\ Sound(request[r], used)
  BY DEF VouchInv
<1>2. q \in RequestState /\ q.user = request[r].user /\ q.op = request[r].op
      /\ q.isNew = request[r].isNew /\ q.trusted = request[r].trusted
      /\ q.address = request[r].address
      /\ (q.plain <=> request[r].op = "register" \/ level = "LOW")
  BY <1>1 DEF RequestState
<1>3. Continue(r, q) /\ UNCHANGED <<user, device, now, used>> /\ previous' \in {previous, None}
  BY DEF OpenSession
<1>4. request[r].op = "login" /\ level = "LOW" =>
        /\ ~request[r].isNew
        /\ request[r].trusted \/ ~Public(request[r].address) \/ request[r].address \in used
             \/ request[r].user.known = <<>>
  BY <1>1, LowIsVouched
<1> HIDE DEF q, level
<1>5. PlainIsVouched(q, used)
  BY <1>2, <1>4 DEF PlainIsVouched
<1>6. Sound(q, used)
  BY <1>1, <1>2, <1>5 DEF Sound, OpenSession
<1> QED BY <1>3, <1>6, Moves

(* The login is recorded: its address is known and used from now on. *)
LEMMA RecordKeeps ==
  ASSUME VouchInv, NEW r \in Request, NEW legible \in BOOLEAN, RecordSuccess(r, legible)
  PROVE  VouchInv'
<1> DEFINE a == request[r].address
           list == WithKnown(request[r].user.known, a, legible)
           seen == used \cup {a}
<1>1. request[r] \in RequestState /\ Sound(request[r], used)
  BY DEF VouchInv
<1>0. a \in Address
  BY <1>1 DEF Sound, RecordSuccess
<1>2. request[r].user.known \in BoundedSeq(Address, KnownLimit)
      /\ Vouched(request[r].user, used)
  BY <1>1 DEF RequestState, UserDoc, Sound
<1>3. /\ list \in BoundedSeq(Address, KnownLimit)
      /\ \A i \in 1 .. Len(list) : list[i] \in seen
  BY <1>0, <1>2, WithKnownIsSound DEF Vouched
<1>4. /\ user' = [user EXCEPT !.lastIp = a, !.lastAt = now, !.known = list]
      /\ used' = seen /\ request' = [request EXCEPT ![r] = Idle]
      /\ previous' \in {[address |-> a, at |-> now], None}
      /\ UNCHANGED <<device, now>>
  BY DEF RecordSuccess, Remember, End, Continue
<1> HIDE DEF list
<1>5. user' \in UserDoc /\ user'.known = list /\ user'.lastIp = a
  BY <1>0, <1>3, <1>4 DEF VouchInv, UserDoc
<1>6. a # None
  BY <1>0, AddressAssumption
<1>7. Vouched(user', used')
  BY <1>3, <1>4, <1>5, <1>6 DEF Vouched
<1>8. \A p \in Request : Sound(request'[p], used')
  <2>1. \A p \in Request : Sound(request[p], seen)
    <3>1. used \subseteq seen
      OBVIOUS
    <3> HIDE DEF seen
    <3> QED BY <3>1, SoundGrows DEF VouchInv
  <2>2. Sound(Idle, seen)
    BY IdleIsSound
  <2> HIDE DEF seen
  <2> QED BY <1>4, <2>1, <2>2 DEF VouchInv
<1>9. request' \in [Request -> RequestState]
  BY <1>4, IdleIsSound DEF VouchInv
<1>10. used' \subseteq Address /\ previous' \in [address : Address, at : 0 .. MaxTime] \cup {None}
  <2>1. used' \subseteq Address
    BY <1>0, <1>4 DEF VouchInv
  <2> DEFINE entry == [address |-> a, at |-> now]
  <2>2. entry \in [address : Address, at : 0 .. MaxTime]
    BY <1>0 DEF VouchInv
  <2> HIDE DEF entry
  <2>3. previous' \in {entry, None}
    BY <1>4 DEF entry
  <2> QED BY <2>1, <2>2, <2>3
<1> HIDE DEF seen
<1> QED BY <1>4, <1>5, <1>7, <1>8, <1>9, <1>10 DEF VouchInv

(* What the owner and the clock do. *)
LEMMA AroundKeeps ==
  ASSUME VouchInv, Tick \/ \E d \in Device : Trust(d) \/ Revoke(d)
  PROVE  VouchInv'
<1>1. CASE Tick
  <2>1. now' \in 0 .. MaxTime
    <3>1. now \in 0 .. MaxTime
      BY DEF VouchInv
    <3>2. now < MaxTime /\ now' = now + 1
      BY <1>1 DEF Tick
    <3> QED BY <3>1, <3>2, BoundAssumption
  <2> QED BY <1>1, <2>1, Aside DEF Tick, VouchInv
<1>2. ASSUME NEW d \in Device, Trust(d) \/ Revoke(d) PROVE VouchInv'
  <2>1. device' \in [Device -> DeviceDoc]
    BY <1>2 DEF Trust, Revoke, VouchInv, DeviceDoc
  <2> QED BY <1>2, <2>1, Aside DEF Trust, Revoke, VouchInv
<1> QED BY <1>1, <1>2

(* The empty database is sound.                                            *)
LEMMA VouchInit == Init => VouchInv
<1> SUFFICES ASSUME Init PROVE VouchInv
  OBVIOUS
<1>1. user \in UserDoc /\ Vouched(user, used)
  <2>1. Idle.user = NoUser
    BY DEF Idle
  <2> QED BY <2>1, IdleIsSound DEF Init, Sound, RequestState
<1>2. request \in [Request -> RequestState] /\ \A r \in Request : Sound(request[r], used)
  BY IdleIsSound DEF Init
<1> QED BY <1>1, <1>2, BoundAssumption DEF Init, VouchInv, DeviceDoc

(* Every step keeps VouchInv: one case for each action.                    *)
LEMMA VouchStep == VouchInv /\ [Next]_vars => VouchInv'
<1> SUFFICES ASSUME VouchInv, [Next]_vars PROVE VouchInv'
  OBVIOUS
<1>1. ASSUME NEW r \in Request, NEW d \in Device, NEW a \in Address,
             ArriveToRegister(r, d, a) \/ ArriveToLogin(r, d, a)
      PROVE  VouchInv'
  BY <1>1, ArrivalKeeps
<1>2. ASSUME NEW r \in Request, Serve(r) PROVE VouchInv'
  <2>1. CASE CreateUser(r)
    BY <2>1, CreateUserKeeps
  <2>2. CASE CreateDevice(r)
    BY <2>2, CreateDeviceKeeps
  <2>3. CASE Assess(r) \/ FindDevice(r) \/ UpdateDevice(r) \/ Finish(r) \/ BreakOff(r)
    BY <2>3, ReadingKeeps
  <2>4. ASSUME NEW legible \in BOOLEAN, RecordSuccess(r, legible) PROVE VouchInv'
    BY <2>4, RecordKeeps
  <2>5. ASSUME NEW failed \in BOOLEAN, NEW legible \in BOOLEAN, NEW network \in NetworkRisks,
               OpenSession(r, RiskLevel(RiskScore(request[r], failed, network, legible)))
        PROVE  VouchInv'
    BY <2>5, OpenKeeps
  <2>6. ASSUME NEW failed \in BOOLEAN, NEW legible \in BOOLEAN, NEW network \in NetworkRisks,
               Block(r, RiskLevel(RiskScore(request[r], failed, network, legible)))
        PROVE  VouchInv'
    <3>1. RiskLevel(RiskScore(request[r], failed, network, legible)) \in {"LOW", "MEDIUM", "HIGH"}
      BY DEF RiskLevel
    <3> QED BY <2>6, <3>1, ReadingKeeps
  <2> QED BY <1>2, <2>1, <2>2, <2>3, <2>4, <2>5, <2>6 DEF Serve
<1>3. CASE Tick \/ \E d \in Device : Trust(d) \/ Revoke(d)
  BY <1>3, AroundKeeps
<1>4. CASE UNCHANGED vars
  BY <1>4 DEF vars, VouchInv
<1> QED BY <1>1, <1>2, <1>3, <1>4 DEF Next

-----------------------------------------------------------------------------
(* Being in two places.  While no attempts overlap, the snapshot of a login *)
(* carries the login recorded before it, and so does what is made of it.   *)

Busy(q) == q.at # "idle"

(* Another public address, within the window. *)
Elsewhere(q, last, t) ==
  /\ Public(q.address) /\ Public(last.address)
  /\ q.address # last.address /\ t - last.at <= Window

Remembers(q, last, t) ==
  Busy(q) /\ q.op = "login" /\ q.alone /\ last # None =>
    /\ q.user.lastIp = last.address
    /\ q.at = "assess" => q.user.lastAt = last.at
    /\ q.at # "assess" /\ Elsewhere(q, last, t) => q.travel
    /\ q.at = "record" /\ Elsewhere(q, last, t) => ~q.plain

TravelInv ==
  /\ previous # None =>
       user.registered /\ user.lastIp = previous.address /\ user.lastAt = previous.at
  /\ \A r \in Request : Busy(request[r]) /\ request[r].op = "login" => user.registered
  /\ \A r, p \in Request :
       r # p /\ Busy(request[r]) /\ Busy(request[p]) => ~request[r].alone
  /\ \A r \in Request : Remembers(request[r], previous, now)

(* Impossible travel alone reaches the threshold. *)
LEMMA TravelIsNotLow ==
  ASSUME NEW q, q.travel, NEW failed \in BOOLEAN, NEW legible \in BOOLEAN,
         NEW network \in NetworkRisks
  PROVE  RiskLevel(RiskScore(q, failed, network, legible)) # "LOW"
<1>1. network \in Nat /\ DevicePoints(q.isNew, q.trusted) \in Nat
  BY NetworkAssumption DEF DevicePoints
<1> QED BY <1>1 DEF RiskScore, RiskLevel

(* A handler moves, remains what it was and remembers. *)
LEMMA MovesRemembering ==
  ASSUME VouchInv, TravelInv, NEW r \in Request, NEW q, Continue(r, q), UNCHANGED now,
         Busy(request[r]),
         Busy(q) => q.op = request[r].op /\ q.alone = request[r].alone,
         previous' \in {previous, None},
         Remembers(q, previous, now),
         user' = user \/ (previous = None /\ user'.registered)
  PROVE  TravelInv'
<1>1. \A p \in Request : request'[p] = IF p = r THEN q ELSE request[p]
  BY DEF Continue, VouchInv
<1>2. \A p \in Request : Remembers(request'[p], previous', now')
  <2>1. \A p \in Request : Remembers(request'[p], previous, now)
    BY <1>1 DEF TravelInv
  <2>2. \A x : Remembers(x, None, now)
    BY DEF Remembers
  <2> QED BY <2>1, <2>2
<1>3. \A p, o \in Request :
        p # o /\ Busy(request'[p]) /\ Busy(request'[o]) => ~request'[p].alone
  BY <1>1 DEF TravelInv
<1>4. \A p \in Request : Busy(request'[p]) /\ request'[p].op = "login" => user'.registered
  BY <1>1 DEF TravelInv
<1>5. previous' # None =>
        user'.registered /\ user'.lastIp = previous'.address /\ user'.lastAt = previous'.at
  BY DEF TravelInv
<1> QED BY <1>2, <1>3, <1>4, <1>5 DEF TravelInv

(* The snapshot of an arriving login carries the last recorded one.        *)
LEMMA ArrivalRemembers ==
  ASSUME VouchInv, TravelInv, NEW r \in Request, NEW d \in Device, NEW a \in Address,
         ArriveToRegister(r, d, a) \/ ArriveToLogin(r, d, a)
  PROVE  TravelInv'
<1>0. user \in UserDoc /\ Idle \in RequestState
  BY IdleIsSound DEF VouchInv
<1> DEFINE visit == [Idle EXCEPT !.at = "register", !.op = "register",
                       !.device = d, !.address = a]
           login == [Idle EXCEPT !.at = "assess", !.device = d, !.address = a,
                       !.user = user]
<1>9. visit \in RequestState /\ login \in RequestState
  BY <1>0 DEF RequestState, Idle
<1>1. PICK q : /\ Enter(r, q) /\ Busy(q) /\ UNCHANGED <<user, device, now, used, previous>>
               /\ q.op = "login" => user.registered /\ q.at = "assess" /\ q.user = user
               /\ q \in RequestState
  <2>1. CASE ArriveToRegister(r, d, a)
    <3>1. Busy(visit) /\ visit.op = "register"
      BY DEF Busy, Idle
    <3>2. Enter(r, visit) /\ UNCHANGED <<user, device, now, used, previous>>
      BY <2>1 DEF ArriveToRegister
    <3> HIDE DEF visit
    <3> QED BY <1>9, <3>1, <3>2
  <2>2. CASE ArriveToLogin(r, d, a)
    <3>1. Busy(login) /\ login.at = "assess" /\ login.user = user
      BY DEF Busy, Idle
    <3>2. /\ Enter(r, login) /\ user.registered
          /\ UNCHANGED <<user, device, now, used, previous>>
      BY <2>2 DEF ArriveToLogin
    <3> HIDE DEF login
    <3> QED BY <1>9, <3>1, <3>2
  <2> QED BY <2>1, <2>2
<1> HIDE DEF visit, login
<1> DEFINE others == \E p \in Request : request[p].at # "idle"
<1>2. others \in BOOLEAN
  OBVIOUS
<1>3. \A p \in Request : request'[p] =
        IF p = r THEN [q EXCEPT !.alone = ~others]
        ELSE IF request[p].at = "idle" THEN Idle ELSE [request[p] EXCEPT !.alone = FALSE]
  BY <1>1 DEF Enter
<1>4. \A p \in Request : p # r /\ Busy(request'[p]) =>
        Busy(request[p]) /\ request'[p].op = request[p].op /\ request'[p].alone = FALSE
  <2>1. \A x \in RequestState : LET y == [x EXCEPT !.alone = FALSE] IN
          y.at = x.at /\ y.op = x.op /\ y.alone = FALSE
    BY DEF RequestState
  <2>2. ~Busy(Idle)
    BY DEF Busy, Idle
  <2>3. \A p \in Request : request[p] \in RequestState
    BY DEF VouchInv
  <2>4. ASSUME NEW p \in Request, p # r, Busy(request'[p])
        PROVE  Busy(request[p]) /\ request'[p].op = request[p].op /\ request'[p].alone = FALSE
    <3>1. CASE ~Busy(request[p])
      BY <1>3, <2>2, <2>4, <3>1 DEF Busy
    <3>2. CASE Busy(request[p])
      <4>1. request'[p] = [request[p] EXCEPT !.alone = FALSE]
        BY <1>3, <2>4, <3>2 DEF Busy
      <4> QED BY <2>1, <2>3, <3>2, <4>1
    <3> QED BY <3>1, <3>2
  <2> QED BY <2>4
<1>5. /\ request'[r].alone = ~others /\ request'[r].op = q.op
      /\ request'[r].at = q.at /\ request'[r].user = q.user
  <2>1. \A b \in BOOLEAN : LET y == [q EXCEPT !.alone = b] IN
          y.at = q.at /\ y.op = q.op /\ y.user = q.user /\ y.alone = b
    BY <1>1 DEF RequestState
  <2> HIDE DEF others
  <2> QED BY <1>2, <1>3, <2>1
<1> HIDE DEF others
<1>6. \A p \in Request : Remembers(request'[p], previous', now')
  <2>1. Remembers(request'[r], previous, now)
    BY <1>1, <1>5 DEF Remembers, TravelInv
  <2>2. \A p \in Request : p # r => Remembers(request'[p], previous, now)
    BY <1>4 DEF Remembers
  <2> QED BY <1>1, <2>1, <2>2
<1>7. \A p, o \in Request :
        p # o /\ Busy(request'[p]) /\ Busy(request'[o]) => ~request'[p].alone
  <2>1. \A o \in Request : o # r /\ Busy(request'[o]) => others
    BY <1>4 DEF others, Busy
  <2> QED BY <1>4, <1>5, <2>1
<1>8. \A p \in Request : Busy(request'[p]) /\ request'[p].op = "login" => user.registered
  BY <1>1, <1>4, <1>5 DEF TravelInv
<1> QED BY <1>1, <1>6, <1>7, <1>8 DEF TravelInv

(* Between arrival and recording, a login keeps what travel was found.     *)
LEMMA ServingRemembers ==
  ASSUME VouchInv, TravelInv, NEW r \in Request, Serve(r),
         ~\E legible \in BOOLEAN : RecordSuccess(r, legible)
  PROVE  TravelInv'
<1>0. request[r] \in RequestState /\ Remembers(request[r], previous, now)
  BY DEF VouchInv, TravelInv
<1>1. \A last, t : Remembers(Idle, last, t)
  BY DEF Remembers, Busy, Idle
<1>2. ~Busy(Idle)
  BY DEF Busy, Idle
<1>3. ASSUME End(r), UNCHANGED <<user, now, previous>>, Busy(request[r]) PROVE TravelInv'
  BY <1>1, <1>2, <1>3, MovesRemembering DEF End
<1>4. CASE Finish(r) \/ BreakOff(r) \/ \E failed, legible \in BOOLEAN, network \in NetworkRisks :
             Block(r, RiskLevel(RiskScore(request[r], failed, network, legible)))
  BY <1>3, <1>4 DEF Finish, BreakOff, Block, Busy
<1>5. CASE CreateUser(r)
  <2>1. CASE user.registered
    BY <1>3, <1>5, <2>1 DEF CreateUser, Busy
  <2>2. CASE ~user.registered
    <3> DEFINE q == [request[r] EXCEPT !.at = "device"]
    <3>1. q.op = request[r].op /\ q.alone = request[r].alone /\ Busy(request[r])
      BY <1>0, <1>5 DEF RequestState, CreateUser, Busy
    <3>2. previous = None /\ Remembers(q, previous, now)
      BY <2>2 DEF TravelInv, Remembers
    <3>3. user'.registered /\ Continue(r, q) /\ UNCHANGED <<now, previous>>
      BY <1>5, <2>2 DEF CreateUser, NoUser
    <3> HIDE DEF q
    <3> QED BY <3>1, <3>2, <3>3, MovesRemembering
  <2> QED BY <2>1, <2>2
<1>6. CASE Assess(r)
  <2> DEFINE q == [request[r] EXCEPT !.at = "device",
                     !.travel = Travelled(request[r].user, request[r].address),
                     !.user.lastAt = 0]
  <2>1. /\ q.op = request[r].op /\ q.alone = request[r].alone /\ q.at = "device"
        /\ q.address = request[r].address /\ q.user.lastIp = request[r].user.lastIp
        /\ q.travel = Travelled(request[r].user, request[r].address)
    BY <1>0 DEF RequestState, UserDoc
  <2>2. request[r].at = "assess" /\ Continue(r, q) /\ UNCHANGED <<user, now, previous>>
    BY <1>6 DEF Assess
  <2> HIDE DEF q
  <2>3. Public(None) = FALSE
    BY AddressAssumption DEF Public
  <2>4. Remembers(q, previous, now)
    BY <1>0, <2>1, <2>2, <2>3 DEF Remembers, Busy, Travelled, Elsewhere
  <2> QED BY <2>1, <2>2, <2>4, MovesRemembering DEF Busy
<1>7. ASSUME NEW q, Continue(r, q), UNCHANGED <<user, now>>, Busy(request[r]),
             previous' \in {previous, None},
             request[r].at # "assess", q.at # "record",
             q.op = request[r].op, q.alone = request[r].alone, q.user = request[r].user,
             q.address = request[r].address, q.travel = request[r].travel, q.at # "assess"
      PROVE  TravelInv'
  <2>1. Remembers(q, previous, now)
    BY <1>0, <1>7 DEF Remembers, Busy, Elsewhere
  <2> QED BY <1>7, <2>1, MovesRemembering
<1>8. CASE FindDevice(r)
  <2> DEFINE q == [request[r] EXCEPT !.at = IF device[request[r].device] = "absent"
                                            THEN "missing" ELSE "found"]
  <2>1. /\ q.op = request[r].op /\ q.alone = request[r].alone /\ q.user = request[r].user
        /\ q.address = request[r].address /\ q.travel = request[r].travel
        /\ q.at \in {"missing", "found"}
    BY <1>0 DEF RequestState
  <2>2. Continue(r, q) /\ UNCHANGED <<user, now, previous>> /\ request[r].at = "device"
    BY <1>8 DEF FindDevice
  <2> HIDE DEF q
  <2> QED BY <1>7, <2>1, <2>2 DEF Busy
<1>9. CASE CreateDevice(r)
  <2>1. CASE device[request[r].device] # "absent"
    BY <1>3, <1>9, <2>1 DEF CreateDevice, Busy
  <2>2. CASE device[request[r].device] = "absent"
    <3> DEFINE q == [request[r] EXCEPT !.at = "score", !.isNew = TRUE]
    <3>1. /\ q.op = request[r].op /\ q.alone = request[r].alone /\ q.user = request[r].user
          /\ q.address = request[r].address /\ q.travel = request[r].travel
          /\ q.at = "score"
      BY <1>0 DEF RequestState
    <3>2. Continue(r, q) /\ UNCHANGED <<user, now, previous>> /\ request[r].at = "missing"
      BY <1>9, <2>2 DEF CreateDevice
    <3> HIDE DEF q
    <3> QED BY <1>7, <3>1, <3>2 DEF Busy
  <2> QED BY <2>1, <2>2
<1>10. CASE UpdateDevice(r)
  <2> DEFINE q == [request[r] EXCEPT !.at = "score",
                     !.trusted = device[request[r].device] = "trusted"]
  <2>1. /\ q.op = request[r].op /\ q.alone = request[r].alone /\ q.user = request[r].user
        /\ q.address = request[r].address /\ q.travel = request[r].travel
        /\ q.at = "score"
    BY <1>0 DEF RequestState
  <2>2. Continue(r, q) /\ UNCHANGED <<user, now, previous>> /\ request[r].at = "found"
    BY <1>10 DEF UpdateDevice
  <2> HIDE DEF q
  <2> QED BY <1>7, <2>1, <2>2 DEF Busy
<1>11. ASSUME NEW failed \in BOOLEAN, NEW legible \in BOOLEAN, NEW network \in NetworkRisks,
              OpenSession(r, RiskLevel(RiskScore(request[r], failed, network, legible)))
       PROVE  TravelInv'
  <2> DEFINE level == RiskLevel(RiskScore(request[r], failed, network, legible))
             q == [request[r] EXCEPT !.at = "record",
                     !.plain = request[r].op = "register" \/ level = "LOW"]
  <2>1. /\ q.op = request[r].op /\ q.alone = request[r].alone /\ q.user = request[r].user
        /\ q.address = request[r].address /\ q.travel = request[r].travel
        /\ q.at = "record" /\ (q.plain <=> request[r].op = "register" \/ level = "LOW")
    BY <1>0 DEF RequestState
  <2>2. /\ Continue(r, q) /\ UNCHANGED <<user, now>> /\ request[r].at = "score"
        /\ previous' \in {previous, None}
    BY <1>11 DEF OpenSession
  <2>3. request[r].travel => level # "LOW"
    BY TravelIsNotLow
  <2> HIDE DEF q, level
  <2>4. Remembers(q, previous, now)
    BY <1>0, <2>1, <2>2, <2>3 DEF Remembers, Busy, Elsewhere
  <2> QED BY <2>1, <2>2, <2>4, MovesRemembering DEF Busy
<1> QED BY <1>4, <1>5, <1>6, <1>8, <1>9, <1>10, <1>11 DEF Serve

(* What is recorded becomes the last login, if nobody else is there.       *)
LEMMA RecordRemembers ==
  ASSUME VouchInv, TravelInv, NEW r \in Request, NEW legible \in BOOLEAN,
         RecordSuccess(r, legible)
  PROVE  TravelInv'
<1>1. /\ \A p \in Request : request'[p] = IF p = r THEN Idle ELSE request[p]
      /\ UNCHANGED now /\ request[r].at = "record" /\ request[r].op = "login"
  BY DEF RecordSuccess, End, Continue, VouchInv
<1>2. user.registered /\ user'.registered = user.registered
      /\ user'.lastIp = request[r].address /\ user'.lastAt = now
  <2>1. user.registered
    BY <1>1 DEF TravelInv, Busy
  <2> QED BY <2>1 DEF RecordSuccess, VouchInv, UserDoc
<1>3. ~Busy(Idle)
  BY DEF Busy, Idle
<1>4. \A p \in Request : Busy(request'[p]) => p # r /\ request'[p] = request[p]
  BY <1>1, <1>3
<1>5. previous' # None =>
        /\ request[r].alone
        /\ previous'.address = request[r].address /\ previous'.at = now
  BY DEF RecordSuccess, Remember
<1>6. \A p \in Request : Busy(request'[p]) => ~request[r].alone
  BY <1>1, <1>4 DEF TravelInv, Busy
<1>7. \A p \in Request : Remembers(request'[p], previous', now')
  BY <1>5, <1>6 DEF Remembers
<1>8. \A p \in Request : Busy(request'[p]) /\ request'[p].op = "login" => user'.registered
  BY <1>2
<1>9. \A p, o \in Request :
        p # o /\ Busy(request'[p]) /\ Busy(request'[o]) => ~request'[p].alone
  BY <1>4 DEF TravelInv
<1> QED BY <1>2, <1>5, <1>7, <1>8, <1>9 DEF TravelInv

(* Every step keeps TravelInv: one case for each group of actions.         *)
LEMMA TravelStep == VouchInv /\ TravelInv /\ [Next]_vars => TravelInv'
<1> SUFFICES ASSUME VouchInv, TravelInv, [Next]_vars PROVE TravelInv'
  OBVIOUS
<1>1. ASSUME NEW r \in Request, NEW d \in Device, NEW a \in Address,
             ArriveToRegister(r, d, a) \/ ArriveToLogin(r, d, a)
      PROVE  TravelInv'
  BY <1>1, ArrivalRemembers
<1>2. ASSUME NEW r \in Request, Serve(r) PROVE TravelInv'
  BY <1>2, ServingRemembers, RecordRemembers
<1>3. ASSUME NEW d \in Device, Trust(d) \/ Revoke(d) PROVE TravelInv'
  BY <1>3 DEF Trust, Revoke, TravelInv
<1>4. CASE Tick
  <2>1. UNCHANGED <<user, request, previous>> /\ now' = now + 1
    BY <1>4 DEF Tick
  <2>6. /\ previous \in [address : Address, at : 0 .. MaxTime] \cup {None}
        /\ now \in 0 .. MaxTime
    BY DEF VouchInv
  <2>2. previous # None => previous.at \in Nat
    BY <2>6, BoundAssumption
  <2>3. now \in Nat /\ Window \in Nat
    BY <2>6, BoundAssumption
  <2>4. \A q : previous # None /\ Elsewhere(q, previous, now + 1)
                => Elsewhere(q, previous, now)
    BY <2>2, <2>3 DEF Elsewhere
  <2>5. \A p \in Request : Remembers(request[p], previous, now + 1)
    BY <2>4 DEF TravelInv, Remembers
  <2> QED BY <2>1, <2>5 DEF TravelInv
<1>5. CASE UNCHANGED vars
  BY <1>5 DEF vars, TravelInv
<1> QED BY <1>1, <1>2, <1>3, <1>4, <1>5 DEF Next

-----------------------------------------------------------------------------
(* The theorems. *)

(* VouchInv holds of every behaviour. *)
THEOREM LoginRiskInvariant == Spec => []VouchInv
  BY VouchInit, VouchStep, PTL DEF Spec

(* Every variable stays in its domain, the known addresses within their     *)
(* limit.                                                                  *)
THEOREM TypeCorrect == Spec => []TypeOK
<1>1. VouchInv => TypeOK
  BY DEF VouchInv, TypeOK, Vouched
<1> QED BY <1>1, LoginRiskInvariant, PTL

(* A revoked device is never trusted again: trustDevice refuses it, and a   *)
(* login or a registration that was looking for the device, or creating    *)
(* it, when it was revoked does not bring it back.                         *)
THEOREM RevokedForGood ==
  Spec => [][\A d \in Device : device[d] = "revoked" => device'[d] = "revoked"]_vars
<1> DEFINE Stays == \A d \in Device : device[d] = "revoked" => device'[d] = "revoked"
<1>1. ASSUME VouchInv, Next PROVE Stays
  <2>0. device \in [Device -> DeviceDoc]
    BY <1>1 DEF VouchInv
  <2>1. ASSUME NEW r \in Request, Serve(r) PROVE Stays
    <3>1. CASE CreateDevice(r)
      BY <2>0, <3>1 DEF CreateDevice
    <3>2. CASE UNCHANGED device
      BY <3>2
    <3> QED BY <2>1, <3>1, <3>2
      DEF Serve, CreateUser, Assess, FindDevice, UpdateDevice, Block, OpenSession, Finish,
          RecordSuccess, BreakOff
  <2>2. ASSUME NEW e \in Device, Trust(e) \/ Revoke(e) PROVE Stays
    BY <2>0, <2>2 DEF Trust, Revoke
  <2>3. ASSUME UNCHANGED device PROVE Stays
    BY <2>3
  <2> QED BY <1>1, <2>1, <2>2, <2>3 DEF Next, ArriveToRegister, ArriveToLogin, Tick
<1>2. VouchInv /\ [Next]_vars => [Stays]_vars
  BY <1>1
<1> QED BY <1>2, LoginRiskInvariant, PTL DEF Spec

(* A login goes without a second factor only if its device was seen before *)
(* and, unless that is trusted, its address is private, was used by a      *)
(* recorded login or is the first: login with scoreRisk,                   *)
(* registerOrUpdateDevice and recordSuccessfulLogin, however they overlap.  *)
THEOREM PlainLoginsAreVouched == Spec => []PlainLoginIsVouched
<1>1. VouchInv => PlainLoginIsVouched
  BY DEF VouchInv, Sound, PlainIsVouched, PlainLoginIsVouched, Opened
<1> QED BY <1>1, LoginRiskInvariant, PTL

(* As long as attempts do not overlap, a session from a second public       *)
(* address within the window is not plain, whatever device it comes from:  *)
(* assessLoginRisk compares with what recordSuccessfulLogin wrote last.    *)
THEOREM TravelIsAlwaysChallenged == Spec => []TravelIsChallenged
<1>1. Init => TravelInv
  BY DEF Init, TravelInv, Remembers, Busy, Idle
<1>2. TravelInv => TravelIsChallenged
  BY DEF TravelInv, TravelIsChallenged, Remembers, Elsewhere, Busy, Opened
<1> QED BY <1>1, <1>2, TravelStep, LoginRiskInvariant, PTL DEF Spec
=============================================================================
