------------------------------ MODULE LoginRisk ------------------------------
(***************************************************************************)
(* What a login makes of the device and the address it comes from:         *)
(* registration, assessLoginRisk, registerOrUpdateDevice, scoreRisk and    *)
(* recordSuccessfulLogin for one account, with several requests in flight, *)
(* and its owner trusting and revoking devices meanwhile.                  *)
(*                                                                         *)
(* The account has not enabled MFA (Mfa models that); a session is "plain" *)
(* when no second factor is asked for.  The user document is read when a   *)
(* login arrives and written, from what was read, after its session was    *)
(* created.                                                                *)
(***************************************************************************)
EXTENDS Naturals, Sequences, SequencesExt

CONSTANTS
  Device,      \* devices, each with a fingerprint of its own
  Address,     \* client addresses
  Private,     \* those for which isPrivateIpAddress holds
  Request,     \* handler slots
  None,        \* absent value
  Window,      \* IMPOSSIBLE_LOGIN_WINDOW_MS, in ticks
  NetworkRisks, \* points of the x-network-risk header: 0, 30 (TOR, VPN), 70 (MALICIOUS)
  KnownLimit,  \* how many addresses knownLoginIps keeps (20)
  MaxTime      \* bound on the clock

ASSUME AddressAssumption == Private \subseteq Address /\ None \notin Address \cup Device
ASSUME NetworkAssumption == NetworkRisks \subseteq {0, 30, 70}
ASSUME BoundAssumption == Window \in Nat /\ KnownLimit \in Nat \ {0} /\ MaxTime \in Nat

VARIABLES
  user,      \* the user document
  device,    \* its Device documents, by fingerprint
  request,   \* the handlers in flight, with their locals
  now,       \* the clock
  used,      \* history: addresses whose login was recorded
  previous   \* history: the last recorded login, unless it overlapped another

vars == <<user, device, request, now, used, previous>>

UserDoc ==
  [registered : BOOLEAN,
   lastIp     : Address \cup {None},    \* lastLoginIp
   lastAt     : 0 .. MaxTime,           \* lastLoginAt
   known      : BoundedSeq(Address, KnownLimit)]   \* knownLoginIps

DeviceDoc == {"absent", "untrusted", "trusted", "revoked"}

RequestState ==
  [at      : {"idle", "register", "assess", "device", "missing", "found", "score", "record"},
   op      : {"login", "register"},
   device  : Device \cup {None},
   address : Address \cup {None},
   user    : UserDoc,                 \* the snapshot taken on arrival, as far as needed
   travel  : BOOLEAN,                 \* IMPOSSIBLE_LOGIN_BEHAVIOR
   isNew   : BOOLEAN,                 \* isNewDevice
   trusted : BOOLEAN,
   plain   : BOOLEAN,                 \* ~mfaRequired
   alone   : BOOLEAN]                 \* history: no other request overlapped

NoUser == [registered |-> FALSE, lastIp |-> None, lastAt |-> 0, known |-> <<>>]
Idle == [at |-> "idle", op |-> "login", device |-> None, address |-> None, user |-> NoUser,
         travel |-> FALSE, isNew |-> FALSE, trusted |-> FALSE, plain |-> FALSE,
         alone |-> TRUE]

(* Every variable stays in its domain, and a device once revoked is not    *)
(* trusted again.                                                          *)
TypeOK ==
  /\ user \in UserDoc
  /\ device \in [Device -> DeviceDoc]
  /\ request \in [Request -> RequestState]
  /\ now \in 0 .. MaxTime
  /\ used \subseteq Address
  /\ previous \in [address : Address, at : 0 .. MaxTime] \cup {None}

Init ==
  /\ user = NoUser
  /\ device = [d \in Device |-> "absent"]
  /\ request = [r \in Request |-> Idle]
  /\ now = 0
  /\ used = {}
  /\ previous = None

-----------------------------------------------------------------------------
(* The scores. *)

Public(a) == a \in Address \ Private

(* The known addresses are stored encrypted, and the hook that decrypts    *)
(* what a query returned does not reach the fields of Mongoose's           *)
(* subdocuments: an address is found only if it is legible (stored before  *)
(* the field was encrypted).                                               *)
Recognised(known, a, legible) == legible /\ Contains(known, a)

Unusual(doc, a, legible) ==
  doc.lastIp # None /\ Public(a) /\ ~Recognised(doc.known, a, legible)

(* assessLoginRisk: another public address within the window. *)
Travelled(doc, a) ==
  /\ doc.lastIp \notin {None, a} /\ Public(doc.lastIp) /\ Public(a)
  /\ now - doc.lastAt <= Window

(* Variant for mutation: an unknown trust counts as none withheld. *)
DevicePointsNewOnly(isNew, trusted) == IF isNew THEN 35 ELSE 0

DevicePoints(isNew, trusted) ==
  (IF isNew THEN 35 ELSE 0) + (IF trusted THEN 0 ELSE 15)

(* scoreRisk: failed is failedLoginAttempts >= 3, network the points of the *)
(* x-network-risk header.                                                  *)
RiskScore(q, failed, network, legible) ==
  DevicePoints(q.isNew, q.trusted) + network
    + (IF q.travel THEN 55 ELSE 0) + (IF Unusual(q.user, q.address, legible) THEN 20 ELSE 0)
    + (IF failed THEN 15 ELSE 0)
    + (IF Public(q.address) /\ q.address # q.user.lastIp THEN 5 ELSE 0)

RiskLevel(score) ==
  IF score >= 75 THEN "HIGH" ELSE IF score >= 35 THEN "MEDIUM" ELSE "LOW"

(* mergeKnownIp: a new address pushes out the one that was first seen; one  *)
(* that is not recognised is listed again.                                 *)
WithKnown(known, a, legible) ==
  IF Recognised(known, a, legible) THEN known
  ELSE LET all == Append(known, a)
       IN  IF Len(all) > KnownLimit THEN Tail(all) ELSE all

-----------------------------------------------------------------------------
(* The handlers. *)

Continue(r, state) == request' = [request EXCEPT ![r] = state]
End(r) == Continue(r, Idle)

(* A request starts; those in flight are no longer alone. *)
Enter(r, state) ==
  LET others == \E q \in Request : request[q].at # "idle"
  IN  request' = [q \in Request |->
        IF q = r THEN [state EXCEPT !.alone = ~others]
        ELSE IF request[q].at = "idle" THEN Idle ELSE [request[q] EXCEPT !.alone = FALSE]]

(* register: the e-mail is free. *)
ArriveToRegister(r, d, a) ==
  /\ request[r].at = "idle" /\ ~user.registered
  /\ Enter(r, [Idle EXCEPT !.at = "register", !.op = "register", !.device = d, !.address = a])
  /\ UNCHANGED <<user, device, now, used, previous>>

(* User.create; the unique index refuses a second one. *)
CreateUser(r) ==
  /\ request[r].at = "register"
  /\ IF user.registered THEN End(r) /\ UNCHANGED user
     ELSE /\ user' = [NoUser EXCEPT !.registered = TRUE]
          /\ Continue(r, [request[r] EXCEPT !.at = "device"])
  /\ UNCHANGED <<device, now, used, previous>>

(* login: User.findOne.  What follows up to the password is LoginLockout's. *)
ArriveToLogin(r, d, a) ==
  /\ request[r].at = "idle" /\ user.registered
  /\ Enter(r, [Idle EXCEPT !.at = "assess", !.device = d, !.address = a, !.user = user])
  /\ UNCHANGED <<user, device, now, used, previous>>

Assess(r) ==
  /\ request[r].at = "assess"
  /\ LET q == request[r] IN
       Continue(r, [q EXCEPT !.at = "device", !.travel = Travelled(q.user, q.address),
                             !.user.lastAt = 0])
  /\ UNCHANGED <<user, device, now, used, previous>>

(* registerOrUpdateDevice: Device.findOne. *)
FindDevice(r) ==
  /\ request[r].at = "device"
  /\ Continue(r, [request[r] EXCEPT !.at = IF device[request[r].device] = "absent"
                                           THEN "missing" ELSE "found"])
  /\ UNCHANGED <<user, device, now, used, previous>>

(* Device.create; the unique index on the fingerprint refuses a second one, *)
(* and the request with it.                                                *)
CreateDevice(r) ==
  /\ request[r].at = "missing"
  /\ IF device[request[r].device] # "absent" THEN End(r) /\ UNCHANGED device
     ELSE /\ device' = [device EXCEPT ![request[r].device] = "untrusted"]
          /\ Continue(r, [request[r] EXCEPT !.at = "score", !.isNew = TRUE])
  /\ UNCHANGED <<user, now, used, previous>>

(* findOneAndUpdate answers the document as it is by now. *)
UpdateDevice(r) ==
  /\ request[r].at = "found"
  /\ Continue(r, [request[r] EXCEPT !.at = "score",
                    !.trusted = device[request[r].device] = "trusted"])
  /\ UNCHANGED <<user, device, now, used, previous>>

(* blockSession: 403; the device stays registered. *)
Block(r, level) ==
  /\ request[r].at = "score" /\ request[r].op = "login"
  /\ level = "HIGH"
  /\ End(r)
  /\ UNCHANGED <<user, device, now, used, previous>>

(* createSessionToken; a registration asks for no second factor.           *)
OpenSession(r, level) ==
  /\ request[r].at = "score"
  /\ request[r].op = "login" => level # "HIGH"
  /\ Continue(r, [request[r] EXCEPT !.at = "record",
                    !.plain = request[r].op = "register" \/ level = "LOW"])
  /\ previous' = IF request[r].alone THEN previous ELSE None
  /\ UNCHANGED <<user, device, now, used>>

Finish(r) ==
  /\ request[r].at = "record" /\ request[r].op = "register"
  /\ End(r)
  /\ UNCHANGED <<user, device, now, used, previous>>

Remember(r) ==
  /\ used' = used \cup {request[r].address}
  /\ previous' = IF request[r].alone THEN [address |-> request[r].address, at |-> now]
                 ELSE None

(* Variant for mutation: lastLoginAt is not written. *)
RecordSuccessUndated(r, legible) ==
  /\ request[r].at = "record" /\ request[r].op = "login"
  /\ user' = [user EXCEPT !.lastIp = request[r].address,
                          !.known = WithKnown(request[r].user.known, request[r].address, legible)]
  /\ Remember(r)
  /\ End(r)
  /\ UNCHANGED <<device, now>>

(* recordSuccessfulLogin: the known addresses are those of the snapshot,   *)
(* with this one; the second factor is still to come.                      *)
RecordSuccess(r, legible) ==
  /\ request[r].at = "record" /\ request[r].op = "login"
  /\ user' = [user EXCEPT !.lastIp = request[r].address, !.lastAt = now,
                          !.known = WithKnown(request[r].user.known, request[r].address, legible)]
  /\ Remember(r)
  /\ End(r)
  /\ UNCHANGED <<device, now>>

(* trustDevice finds only documents without revokedAt. *)
Trust(d) ==
  /\ device[d] \in {"untrusted", "trusted"}
  /\ device' = [device EXCEPT ![d] = "trusted"]
  /\ UNCHANGED <<user, request, now, used, previous>>

(* revokeTrustedDevice *)
Revoke(d) ==
  /\ device[d] # "absent"
  /\ device' = [device EXCEPT ![d] = "revoked"]
  /\ UNCHANGED <<user, request, now, used, previous>>

-----------------------------------------------------------------------------
(* The environment. *)

(* A call fails, a lock or a wrong password refuses, or the process dies (for *)
(* all requests at once): what was written stays.                          *)
BreakOff(r) ==
  /\ request[r].at # "idle"
  /\ End(r)
  /\ UNCHANGED <<user, device, now, used, previous>>

Tick == now < MaxTime /\ now' = now + 1 /\ UNCHANGED <<user, device, request, used, previous>>

Serve(r) ==
  \/ CreateUser(r) \/ FindDevice(r) \/ CreateDevice(r) \/ UpdateDevice(r)
  \/ \E failed, legible \in BOOLEAN, network \in NetworkRisks :
       LET level == RiskLevel(RiskScore(request[r], failed, network, legible))
       IN  Block(r, level) \/ OpenSession(r, level)
  \/ \E legible \in BOOLEAN : RecordSuccess(r, legible)
  \/ Assess(r) \/ Finish(r) \/ BreakOff(r)

Next ==
  \/ \E r \in Request, d \in Device, a \in Address :
       ArriveToRegister(r, d, a) \/ ArriveToLogin(r, d, a)
  \/ \E r \in Request : Serve(r)
  \/ \E d \in Device : Trust(d) \/ Revoke(d)
  \/ Tick

Spec == Init /\ [][Next]_vars

-----------------------------------------------------------------------------
(* Properties. *)

Opened(r) == request[r].at = "record" /\ request[r].op = "login"

(* A login is let through without a second factor only if an earlier       *)
(* request had brought its device and, unless the owner trusts the device, *)
(* it comes from a private address, from one a recorded login used, or was *)
(* there before any login was recorded: the points and the threshold leave *)
(* no other sum, whatever updates were lost.                               *)
PlainLoginIsVouched ==
  \A r \in Request : Opened(r) /\ request[r].plain =>
    /\ ~request[r].isNew
    /\ \/ request[r].trusted
       \/ ~Public(request[r].address)
       \/ request[r].address \in used
       \/ request[r].user.known = <<>>

(* As long as attempts do not overlap, a session from a public address     *)
(* within the window after a login recorded at another one is not plain:   *)
(* no device, trusted or known, excuses being in two places.               *)
TravelIsChallenged ==
  \A r \in Request :
    /\ Opened(r) /\ request[r].alone /\ previous # None
    /\ Public(request[r].address) /\ Public(previous.address)
    /\ request[r].address # previous.address
    /\ now - previous.at <= Window
    => ~request[r].plain
=============================================================================
