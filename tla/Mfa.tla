-------------------------------- MODULE Mfa --------------------------------
(***************************************************************************)
(* The second factor of one account: enrollment, verification at login     *)
(* with a TOTP code or a recovery code, recovery-code regeneration and     *)
(* disabling, as handlers that interleave on the user document and on the  *)
(* session they run in.                                                    *)
(*                                                                         *)
(* A TOTP code is represented by the secret it is computed from: it is     *)
(* valid for a document that holds that secret.  A recovery code is        *)
(* <<batch, slot>>: the codes of one batch are generated together and the  *)
(* slot is the code's index in User.recoveryCodes.                         *)
(***************************************************************************)
EXTENDS Naturals

CONSTANTS
  Session,        \* active sessions of the account
  Request,        \* handler slots
  Secret,         \* TOTP secrets; bounds the enrollments started
  Batch,          \* recovery-code batches; bounds how often they are generated
  Slot,           \* indices of recoveryCodes (RECOVERY_CODE_COUNT of them)
  None,           \* absent value
  Offered,        \* the operations clients call
  MfaThreshold    \* failures after which verifyMfaLogin means to lock

ASSUME NoneAssumption ==
  None \notin Secret /\ None \notin Batch /\ None \notin Session /\ None \notin Batch \X Slot

Operation == {"enroll", "confirm", "verify", "disable", "regenerate"}

ASSUME OfferedAssumption == Offered \subseteq Operation
ASSUME ThresholdAssumption == MfaThreshold \in Nat \ {0}

VARIABLES
  user,        \* the MFA fields of the user document
  session,     \* the MFA fields of the session documents
  request,     \* what each handler slot is doing, with its local snapshots
  shown,       \* secrets and batches some answer has carried to the user
  confirmed,   \* history: secrets whose TOTP code an enrollment accepted
  redeemed,    \* history: how often each recovery code was accepted
  misses       \* history: verifications failed in a row, up to MfaThreshold

vars == <<user, session, request, shown, confirmed, redeemed, misses>>

Code == Batch \X Slot

UserDoc ==
  [enabled : BOOLEAN,
   secret  : Secret \cup {None},
   pending : Secret \cup {None},
   batch   : Batch \cup {None},     \* the codes in recoveryCodes (None: empty)
   spent   : SUBSET Slot,           \* indices whose usedAt is set
   failed  : 0 .. MfaThreshold,     \* mfaFailedAttempts
   locked  : BOOLEAN]               \* mfaLockedUntil is set

SessionDoc == [required : BOOLEAN, verified : BOOLEAN]

RequestState ==
  [op      : Operation \cup {"none", "gatedLogin", "openLogin"},
   at      : {"idle", "readUser", "save", "redeem", "fail", "mark"},
   session : Session \cup {None},
   totp    : Secret \cup {None},                \* the TOTP code sent
   code    : Code \cup {None},                  \* the recovery code sent
   fresh   : Secret \cup Batch \cup {None},     \* the secret or batch generated
   todo    : SUBSET {"session", "user"}]        \* final writes not yet performed

NoFactor == [enabled |-> FALSE, secret |-> None, pending |-> None, batch |-> None,
             spent |-> {}, failed |-> 0, locked |-> FALSE]
Idle == [op |-> "none", at |-> "idle", session |-> None, totp |-> None,
         code |-> None, fresh |-> None, todo |-> {}]

TypeOK ==
  /\ user \in UserDoc
  /\ session \in [Session -> SessionDoc]
  /\ request \in [Request -> RequestState]
  /\ shown \in SUBSET (Secret \cup Batch)
  /\ confirmed \in SUBSET Secret
  /\ redeemed \in [Code -> Nat]
  /\ misses \in 0 .. MfaThreshold

Init ==
  /\ user = NoFactor
  /\ session = [s \in Session |-> [required |-> FALSE, verified |-> TRUE]]
  /\ request = [r \in Request |-> Idle]
  /\ shown = {}
  /\ confirmed = {}
  /\ redeemed = [c \in Code |-> 0]
  /\ misses = 0

-----------------------------------------------------------------------------
(* Helpers. *)

Goto(r, at) == request' = [request EXCEPT ![r].at = at]
Answer(r) == request' = [request EXCEPT ![r] = Idle]

(* Random material: neither shown nor held by another handler. *)
Fresh(x) == x \notin shown /\ \A r \in Request : request[r].fresh # x

(* verifyTotp against a document's secret. *)
Valid(r, secret) == secret # None /\ request[r].totp = secret

Reading(r, op) == request[r].op = op /\ request[r].at = "readUser"
Saving(r, op) == request[r].op = op /\ request[r].at = "save"

Refuse(r) ==
  /\ Answer(r)
  /\ UNCHANGED <<user, session, shown, confirmed, redeemed, misses>>

-----------------------------------------------------------------------------
(* A request arrives on a session and passes protect.  Disabling and       *)
(* regenerating also pass assertMfaGateCompleted; verifying needs a        *)
(* session that requires it.                                               *)

Arrive(r, op, s, totp, code) ==
  /\ request[r] = Idle
  /\ op = "verify" => session[s].required
  /\ (op \in {"disable", "regenerate"} /\ session[s].required) => session[s].verified
  /\ code # None => op = "verify" /\ code[1] \in shown
  /\ totp # None => op # "enroll" /\ totp \in shown
  /\ request' = [request EXCEPT ![r] =
       [Idle EXCEPT !.op = op, !.at = "readUser", !.session = s,
                    !.totp = totp, !.code = code]]
  /\ UNCHANGED <<user, session, shown, confirmed, redeemed, misses>>

(* A login: the user document is read, and much later the session created. *)
(* It requires the factor if one was enabled or the login is risky.        *)
LoginRead(r, s, risky) ==
  /\ request[r] = Idle
  /\ \A q \in Request : request[q].session # s
  /\ request' = [request EXCEPT ![r] =
       [Idle EXCEPT !.op = IF user.enabled \/ risky THEN "gatedLogin" ELSE "openLogin",
                    !.at = "save", !.session = s]]
  /\ UNCHANGED <<user, session, shown, confirmed, redeemed, misses>>

LoginCreateSession(r) ==
  /\ request[r].op \in {"gatedLogin", "openLogin"}
  /\ LET required == request[r].op = "gatedLogin"
     IN  session' = [session EXCEPT ![request[r].session] =
                       [required |-> required, verified |-> ~required]]
  /\ Answer(r)
  /\ UNCHANGED <<user, shown, confirmed, redeemed, misses>>

-----------------------------------------------------------------------------
(* startMfaEnrollment and verifyMfaEnrollment. *)

EnrollRead(r, secret) ==
  /\ Reading(r, "enroll") /\ ~user.enabled
  /\ Fresh(secret)
  /\ request' = [request EXCEPT ![r].at = "save", ![r].fresh = secret]
  /\ UNCHANGED <<user, session, shown, confirmed, redeemed, misses>>

EnrollRefused(r) == Reading(r, "enroll") /\ user.enabled /\ Refuse(r)

EnrollSavePending(r) ==
  /\ Saving(r, "enroll")
  /\ user' = [user EXCEPT !.pending = request[r].fresh]
  /\ shown' = shown \cup {request[r].fresh}
  /\ Answer(r)
  /\ UNCHANGED <<session, confirmed, redeemed, misses>>

(* The code is checked against the pending secret read here; the batch is  *)
(* hashed before anything is written.                                      *)
ConfirmRead(r, batch) ==
  /\ Reading(r, "confirm")
  /\ ~user.enabled /\ Valid(r, user.pending)
  /\ Fresh(batch)
  /\ confirmed' = confirmed \cup {user.pending}
  /\ request' = [request EXCEPT ![r].at = "save", ![r].fresh = batch]
  /\ UNCHANGED <<user, session, shown, redeemed, misses>>

ConfirmRefused(r) ==
  /\ Reading(r, "confirm")
  /\ user.enabled \/ ~Valid(r, user.pending)
  /\ Refuse(r)

(* Variant for mutation: the pending secret is taken from the document at  *)
(* the time of the write instead of the one that was checked.              *)
ConfirmSaveCurrent(r) ==
  /\ Saving(r, "confirm")
  /\ user' = [NoFactor EXCEPT !.enabled = TRUE, !.secret = user.pending,
                              !.batch = request[r].fresh]
  /\ Goto(r, "mark")
  /\ UNCHANGED <<session, shown, confirmed, redeemed, misses>>

(* The secret written is the one the code was checked against. *)
ConfirmSave(r) ==
  /\ Saving(r, "confirm")
  /\ user' = [NoFactor EXCEPT !.enabled = TRUE, !.secret = request[r].totp,
                              !.batch = request[r].fresh]
  /\ Goto(r, "mark")
  /\ UNCHANGED <<session, shown, confirmed, redeemed, misses>>

ConfirmMarkSession(r) ==
  /\ request[r].op = "confirm" /\ request[r].at = "mark"
  /\ session' = [session EXCEPT ![request[r].session] =
                   [required |-> TRUE, verified |-> TRUE]]
  /\ shown' = shown \cup {request[r].fresh}
  /\ Answer(r)
  /\ UNCHANGED <<user, confirmed, redeemed, misses>>

-----------------------------------------------------------------------------
(* verifyMfaLogin. *)

(* The codes of the document are hashes that are stored encrypted, and the *)
(* hook that decrypts what a query returned does not reach the fields of   *)
(* Mongoose's subdocuments: a listed code meets its ciphertext and fails,  *)
(* unless its hash is legible (stored before the field was encrypted).     *)
VerifyRead(r) ==
  LET valid == Valid(r, user.secret)
      listed == \E slot \in Slot \ user.spent : request[r].code = <<user.batch, slot>>
  IN
  /\ Reading(r, "verify") /\ user.enabled
  /\ \/ /\ valid
        /\ request' = [request EXCEPT ![r].at = "mark", ![r].todo = {"session", "user"}]
     \/ ~valid /\ listed /\ Goto(r, "redeem")
     \/ ~valid /\ Goto(r, "fail")
  /\ UNCHANGED <<user, session, shown, confirmed, redeemed, misses>>

VerifyRefused(r) == Reading(r, "verify") /\ ~user.enabled /\ Refuse(r)

(* Variant for mutation: the used mark is not a condition of the update. *)
RedeemBlindly(r) ==
  /\ request[r].op = "verify" /\ request[r].at = "redeem"
  /\ user' = [user EXCEPT !.spent = @ \cup {request[r].code[2]}, !.failed = 0,
                          !.locked = FALSE]
  /\ redeemed' = [redeemed EXCEPT ![request[r].code] = @ + 1]
  /\ request' = [request EXCEPT ![r].at = "mark", ![r].todo = {"session", "user"}]
  /\ UNCHANGED <<session, shown, confirmed, misses>>

(* Variant for mutation: the session is accepted without the used mark. *)
RedeemUnmarked(r) ==
  /\ request[r].op = "verify" /\ request[r].at = "redeem"
  /\ redeemed' = [redeemed EXCEPT ![request[r].code] = @ + 1]
  /\ request' = [request EXCEPT ![r].at = "mark", ![r].todo = {"session", "user"}]
  /\ UNCHANGED <<user, session, shown, confirmed, misses>>

(* consumeRecoveryCode: a compare-and-set on the index found in the        *)
(* snapshot, whatever code is at that index now.                           *)
Redeem(r) ==
  LET slot == request[r].code[2] IN
  /\ request[r].op = "verify" /\ request[r].at = "redeem"
  /\ \/ /\ slot \notin user.spent
        /\ user' = [user EXCEPT !.spent = @ \cup {slot}, !.failed = 0, !.locked = FALSE]
        /\ redeemed' = [redeemed EXCEPT ![request[r].code] = @ + 1]
        /\ request' = [request EXCEPT ![r].at = "mark", ![r].todo = {"session", "user"}]
     \/ /\ slot \in user.spent
        /\ Goto(r, "fail")
        /\ UNCHANGED <<user, redeemed>>
  /\ UNCHANGED <<session, shown, confirmed, misses>>

(* mfaFailedAttempts and mfaLockedUntil are not among the fields the       *)
(* handler selected: the count it increments is always absent, so zero.    *)
SelectedFailures == 0

RecordFailure(r) ==
  LET failed == SelectedFailures + 1
      lock == failed >= MfaThreshold
  IN
  /\ request[r].op = "verify" /\ request[r].at = "fail"
  /\ user' = [user EXCEPT !.failed = IF lock THEN 0 ELSE failed, !.locked = lock]
  /\ misses' = IF misses < MfaThreshold THEN misses + 1 ELSE misses
  /\ Answer(r)
  /\ UNCHANGED <<session, shown, confirmed, redeemed>>

VerifyMarkSession(r) ==
  /\ request[r].op = "verify" /\ "session" \in request[r].todo
  /\ session' = [session EXCEPT ![request[r].session].verified = TRUE]
  /\ request' = [request EXCEPT ![r].todo = @ \ {"session"}]
  /\ UNCHANGED <<user, shown, confirmed, redeemed, misses>>

VerifyMarkUser(r) ==
  /\ request[r].op = "verify" /\ "user" \in request[r].todo
  /\ user' = [user EXCEPT !.failed = 0, !.locked = FALSE]
  /\ misses' = 0
  /\ request' = [request EXCEPT ![r].todo = @ \ {"user"}]
  /\ UNCHANGED <<session, shown, confirmed, redeemed>>

VerifyAnswer(r) ==
  /\ request[r].op = "verify" /\ request[r].at = "mark" /\ request[r].todo = {}
  /\ Answer(r)
  /\ UNCHANGED <<user, session, shown, confirmed, redeemed, misses>>
-----------------------------------------------------------------------------
(* disableMfa and regenerateRecoveryCodes. *)

ReadFactor(r, op) == Reading(r, op) /\ user.enabled /\ Valid(r, user.secret)

DisableRead(r) ==
  /\ ReadFactor(r, "disable")
  /\ Goto(r, "save")
  /\ UNCHANGED <<user, session, shown, confirmed, redeemed, misses>>

DisableSave(r) ==
  /\ Saving(r, "disable")
  /\ user' = NoFactor
  /\ Goto(r, "mark")
  /\ UNCHANGED <<session, shown, confirmed, redeemed, misses>>

DisableMarkSession(r) ==
  /\ request[r].op = "disable" /\ request[r].at = "mark"
  /\ session' = [session EXCEPT ![request[r].session] =
                   [required |-> FALSE, verified |-> TRUE]]
  /\ Answer(r)
  /\ UNCHANGED <<user, shown, confirmed, redeemed, misses>>

RegenerateRead(r, batch) ==
  /\ ReadFactor(r, "regenerate")
  /\ Fresh(batch)
  /\ request' = [request EXCEPT ![r].at = "save", ![r].fresh = batch]
  /\ UNCHANGED <<user, session, shown, confirmed, redeemed, misses>>

RegenerateSaveAndAnswer(r) ==
  /\ Saving(r, "regenerate")
  /\ user' = [user EXCEPT !.batch = request[r].fresh, !.spent = {}]
  /\ shown' = shown \cup {request[r].fresh}
  /\ Answer(r)
  /\ UNCHANGED <<session, confirmed, redeemed, misses>>

ChangeRefused(r) ==
  /\ \E op \in {"disable", "regenerate"} :
       Reading(r, op) /\ ~(user.enabled /\ Valid(r, user.secret))
  /\ Refuse(r)

-----------------------------------------------------------------------------
Begin(r) ==
  \/ \E op \in Offered, s \in Session, totp \in Secret \cup {None},
        code \in Code \cup {None} : Arrive(r, op, s, totp, code)
  \/ \E s \in Session, risky \in BOOLEAN : LoginRead(r, s, risky)

Continue(r) ==
  \/ LoginCreateSession(r)
  \/ \E secret \in Secret : EnrollRead(r, secret)
  \/ EnrollRefused(r) \/ EnrollSavePending(r)
  \/ \E batch \in Batch : ConfirmRead(r, batch) \/ RegenerateRead(r, batch)
  \/ ConfirmRefused(r) \/ ConfirmSave(r) \/ ConfirmMarkSession(r)
  \/ VerifyRead(r) \/ VerifyRefused(r) \/ Redeem(r) \/ RecordFailure(r)
  \/ VerifyMarkSession(r) \/ VerifyMarkUser(r) \/ VerifyAnswer(r)
  \/ DisableRead(r) \/ DisableSave(r) \/ DisableMarkSession(r)
  \/ RegenerateSaveAndAnswer(r) \/ ChangeRefused(r)

Next == \E r \in Request : Begin(r) \/ Continue(r)

Spec == Init /\ [][Next]_vars

-----------------------------------------------------------------------------
(* Properties. *)

(* While a batch of codes is the account's, each of them is accepted at    *)
(* most once, however many requests present it at one time.                *)
ListedCodeOnce ==
  \A slot \in Slot : user.batch # None => redeemed[<<user.batch, slot>>] <= 1

(* A code that was accepted and is still listed is marked used: no later   *)
(* regeneration, disabling or enrollment brings an accepted code back.     *)
RedeemedCodeIsSpent ==
  \A slot \in Slot :
    (user.batch # None /\ redeemed[<<user.batch, slot>>] > 0) => slot \in user.spent

(* The secret that guards the account is one whose code the user has sent  *)
(* back, even when a second enrollment replaces the pending secret while   *)
(* the first is being confirmed: nobody is locked out by a lost QR code.   *)
SecretIsConfirmed == user.secret # None => user.secret \in confirmed

(* The lock the handler means to set: MfaThreshold failures in a row leave *)
(* the account locked for a while.                                         *)
RepeatedMissesLock == misses >= MfaThreshold => user.locked
=============================================================================
