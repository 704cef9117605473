------------------------------ MODULE MfaProofs ------------------------------
(***************************************************************************)
(* For any number of handlers, sessions, secrets, batches and codes in     *)
(* each: a listed recovery code is accepted at most once, an accepted one  *)
(* is never listed as unused again, and the secret that guards the account *)
(* is one whose code the user has sent back.                               *)
(***************************************************************************)
EXTENDS Mfa, TLAPS

(* What a handler's locals say about themselves. *)
Shaped(q) ==
  /\ q.op # "none" => q.session \in Session
  /\ (q.op = "enroll" /\ q.at = "save") => q.fresh \in Secret
  /\ (q.op \in {"confirm", "regenerate"} /\ q.at = "save") => q.fresh \in Batch
  /\ (q.op = "confirm" /\ q.at = "mark") => q.fresh \in Batch
  /\ q.at = "redeem" => q.op = "verify" /\ q.code \in Code

(* A handler that is about to enable the factor has checked the secret. *)
Checked(q, conf) == (q.op = "confirm" /\ q.at = "save") => q.totp \in Secret /\ q.totp \in conf

(* The recovery codes a handler carries are codes the user was given. *)
Carried(q, sh) == q.code # None => q.code[1] \in sh

(* Random material in flight is nobody else's and nobody's yet. *)
InFlight == \A r \in Request : request[r].fresh # None => request[r].fresh \notin shown
Apart ==
  \A r, q \in Request :
    (r # q /\ request[r].fresh # None) => request[r].fresh # request[q].fresh

(* No code is accepted before it was given away. *)
RedeemedIsShown == \A c \in Code : redeemed[c] > 0 => c[1] \in shown

(* An account with the factor has a secret and codes. *)
FactorIsWhole == user.enabled => user.secret \in Secret /\ user.batch \in Batch

Handlers ==
  /\ request \in [Request -> RequestState]
  /\ \A r \in Request : /\ Shaped(request[r]) /\ Checked(request[r], confirmed)
                        /\ Carried(request[r], shown)
  /\ InFlight /\ Apart

Documents ==
  /\ user \in UserDoc
  /\ session \in [Session -> SessionDoc]
  /\ shown \in SUBSET (Secret \cup Batch)
  /\ confirmed \in SUBSET Secret
  /\ redeemed \in [Code -> Nat]
  /\ misses \in 0 .. MfaThreshold
  /\ RedeemedIsShown /\ FactorIsWhole
  /\ ListedCodeOnce /\ RedeemedCodeIsSpent /\ SecretIsConfirmed

MfaInv == Handlers /\ Documents

-----------------------------------------------------------------------------
(* The handlers. *)

(* One handler moves on: it keeps, drops or draws random material.         *)
LEMMA HandlerMoves ==
  ASSUME MfaInv, NEW r \in Request, NEW q \in RequestState, request' = [request EXCEPT ![r] = q],
         Shaped(q), Checked(q, confirmed'), Carried(q, shown'), confirmed \subseteq confirmed',
         \/ shown' = shown
         \/ shown' = shown \cup {request[r].fresh} /\ q.fresh = None /\ request[r].fresh # None,
         q.fresh \in {None, request[r].fresh} \/ Fresh(q.fresh)
  PROVE  Handlers'
<1>1. \A p \in Request : request'[p] = IF p = r THEN q ELSE request[p]
  BY DEF MfaInv, Handlers
<1>2. request' \in [Request -> RequestState]
  BY DEF MfaInv, Handlers
<1>3. ASSUME NEW p \in Request
      PROVE  Shaped(request'[p]) /\ Checked(request'[p], confirmed') /\ Carried(request'[p], shown')
  <2>1. CASE p = r
    BY <1>1, <2>1
  <2>2. CASE p # r
    <3>1. /\ request'[p] = request[p] /\ Shaped(request[p]) /\ Checked(request[p], confirmed)
          /\ Carried(request[p], shown)
      BY <1>1, <2>2 DEF MfaInv, Handlers
    <3> QED BY <3>1 DEF Checked, Carried
  <2> QED BY <2>1, <2>2
<1>4. InFlight'
  <2> SUFFICES ASSUME NEW p \in Request, request'[p].fresh # None PROVE request'[p].fresh \notin shown'
    BY DEF InFlight
  <2>1. CASE p = r
    BY <1>1, <2>1 DEF MfaInv, Handlers, InFlight, Fresh
  <2>2. CASE p # r
    BY <1>1, <2>2 DEF MfaInv, Handlers, InFlight, Apart
  <2> QED BY <2>1, <2>2
<1>5. Apart'
  <2> SUFFICES ASSUME NEW p \in Request, NEW o \in Request, p # o, request'[p].fresh # None
               PROVE  request'[p].fresh # request'[o].fresh
    BY DEF Apart
  <2>1. CASE p = r
    BY <1>1, <2>1 DEF MfaInv, Handlers, Apart, Fresh
  <2>2. CASE o = r
    BY <1>1, <2>2 DEF MfaInv, Handlers, Apart, Fresh
  <2>3. CASE p # r /\ o # r
    BY <1>1, <2>3 DEF MfaInv, Handlers, Apart
  <2> QED BY <2>1, <2>2, <2>3
<1> QED BY <1>2, <1>3, <1>4, <1>5 DEF Handlers

LEMMA IdleIsSound ==
  /\ Idle \in RequestState /\ Shaped(Idle) /\ Idle.fresh = None
  /\ \A conf : Checked(Idle, conf)
  /\ \A sh : Carried(Idle, sh)
<1>1. Idle \in RequestState
  BY DEF Idle, RequestState
<1> QED BY <1>1 DEF Idle, Shaped, Checked, Carried

(* A handler that answers. *)
LEMMA HandlerAnswers ==
  ASSUME MfaInv, NEW r \in Request, Answer(r), confirmed' = confirmed,
         shown' = shown \/ (shown' = shown \cup {request[r].fresh} /\ request[r].fresh # None)
  PROVE  Handlers'
<1>1. request' = [request EXCEPT ![r] = Idle]
  BY DEF Answer
<1> QED BY <1>1, IdleIsSound, HandlerMoves

(* A handler whose locals stay, but for its place and its final writes. *)
LEMMA HandlerGoesOn ==
  ASSUME MfaInv, NEW r \in Request, NEW q \in RequestState, request' = [request EXCEPT ![r] = q],
         q.op = request[r].op, q.session = request[r].session, q.totp = request[r].totp,
         q.code = request[r].code, q.fresh = request[r].fresh,
         q.at \in {"redeem", "fail", "mark"} \/ q.op \in {"disable", "verify"},
         q.at = "mark" => q.op # "confirm" \/ request[r].at = "save",
         q.at = "redeem" => q.op = "verify" /\ q.code \in Code,
         UNCHANGED <<shown, confirmed>>
  PROVE  Handlers'
<1>1. Shaped(request[r]) /\ Carried(request[r], shown)
  BY DEF MfaInv, Handlers
<1>2. Shaped(q)
  BY <1>1 DEF Shaped
<1>3. Checked(q, confirmed') /\ Carried(q, shown')
  BY <1>1 DEF Checked, Carried
<1> QED BY <1>2, <1>3, HandlerMoves

-----------------------------------------------------------------------------
(* The documents. *)

(* Neither the factor nor the record of codes changes. *)
LEMMA FactorStays ==
  ASSUME MfaInv, user' \in UserDoc, session' \in [Session -> SessionDoc],
         user'.enabled = user.enabled, user'.secret = user.secret,
         user'.batch = user.batch, user'.spent = user.spent, redeemed' = redeemed,
         shown \subseteq shown', shown' \in SUBSET (Secret \cup Batch),
         confirmed \subseteq confirmed', confirmed' \in SUBSET Secret,
         misses' \in 0 .. MfaThreshold
  PROVE  Documents'
<1>1. RedeemedIsShown' /\ FactorIsWhole'
  BY DEF MfaInv, Documents, RedeemedIsShown, FactorIsWhole
<1>2. ListedCodeOnce' /\ RedeemedCodeIsSpent' /\ SecretIsConfirmed'
  BY DEF MfaInv, Documents, ListedCodeOnce, RedeemedCodeIsSpent, SecretIsConfirmed
<1> QED BY <1>1, <1>2 DEF MfaInv, Documents

(* The documents do not change at all. *)
LEMMA DocumentsStay ==
  ASSUME MfaInv, UNCHANGED <<user, session, shown, confirmed, redeemed, misses>>
  PROVE  Documents'
<1>1. /\ user \in UserDoc /\ session \in [Session -> SessionDoc] /\ misses \in 0 .. MfaThreshold
      /\ shown \in SUBSET (Secret \cup Batch) /\ confirmed \in SUBSET Secret
  BY DEF MfaInv, Documents
<1> QED BY <1>1, FactorStays

(* Codes that nobody has been given replace the listed ones. *)
LEMMA NewCodes ==
  ASSUME MfaInv, NEW b \in Batch, b \notin shown, user' \in UserDoc,
         user'.batch = b, user'.spent = {}, user'.enabled => user'.secret \in Secret,
         user'.secret # None => user'.secret \in confirmed,
         UNCHANGED <<session, confirmed, redeemed, misses>>,
         shown \subseteq shown', shown' \in SUBSET (Secret \cup Batch)
  PROVE  Documents'
<1>1. \A slot \in Slot : redeemed[<<b, slot>>] = 0
  <2> SUFFICES ASSUME NEW slot \in Slot PROVE redeemed[<<b, slot>>] = 0
    OBVIOUS
  <2>1. <<b, slot>> \in Code /\ <<b, slot>>[1] = b
    BY DEF Code
  <2>2. redeemed[<<b, slot>>] \in Nat /\ ~(redeemed[<<b, slot>>] > 0)
    BY <2>1 DEF MfaInv, Documents, RedeemedIsShown
  <2> QED BY <2>2
<1>2. ListedCodeOnce' /\ RedeemedCodeIsSpent'
  BY <1>1 DEF ListedCodeOnce, RedeemedCodeIsSpent
<1>3. RedeemedIsShown' /\ FactorIsWhole' /\ SecretIsConfirmed'
  BY DEF MfaInv, Documents, RedeemedIsShown, FactorIsWhole, SecretIsConfirmed
<1> QED BY <1>2, <1>3 DEF MfaInv, Documents

-----------------------------------------------------------------------------
(* The actions. *)

LEMMA Unpacked ==
  ASSUME MfaInv
  PROVE  /\ user \in UserDoc /\ session \in [Session -> SessionDoc]
         /\ shown \in SUBSET (Secret \cup Batch) /\ confirmed \in SUBSET Secret
         /\ redeemed \in [Code -> Nat] /\ misses \in 0 .. MfaThreshold
         /\ request \in [Request -> RequestState]
         /\ \A r \in Request : /\ request[r] \in RequestState /\ Shaped(request[r])
                               /\ Checked(request[r], confirmed) /\ Carried(request[r], shown)
BY DEF MfaInv, Handlers, Documents

LEMMA BeginKeeps ==
  ASSUME MfaInv, NEW r \in Request, Begin(r)
  PROVE  MfaInv'
<1>1. CASE \E op \in Offered, s \in Session, totp \in Secret \cup {None},
             code \in Code \cup {None} : Arrive(r, op, s, totp, code)
  <2> PICK op \in Offered, s \in Session, totp \in Secret \cup {None},
           code \in Code \cup {None} : Arrive(r, op, s, totp, code)
    BY <1>1
  <2> DEFINE q == [Idle EXCEPT !.op = op, !.at = "readUser", !.session = s,
                               !.totp = totp, !.code = code]
  <2>1. /\ q \in RequestState /\ q.op = op /\ q.at = "readUser" /\ q.session = s
        /\ q.totp = totp /\ q.code = code /\ q.fresh = None
    BY IdleIsSound, OfferedAssumption DEF RequestState
  <2>2. request' = [request EXCEPT ![r] = q] /\ (code # None => code[1] \in shown)
    BY DEF Arrive
  <2>3. UNCHANGED <<user, session, shown, confirmed, redeemed, misses>>
    BY DEF Arrive
  <2> HIDE DEF q
  <2>4. Shaped(q) /\ Checked(q, confirmed') /\ Carried(q, shown')
    BY <2>1, <2>2, <2>3 DEF Shaped, Checked, Carried
  <2>5. Handlers'
    BY <2>1, <2>2, <2>3, <2>4, HandlerMoves
  <2> QED BY <2>3, <2>5, DocumentsStay DEF MfaInv
<1>2. CASE \E s \in Session, risky \in BOOLEAN : LoginRead(r, s, risky)
  <2> PICK s \in Session, risky \in BOOLEAN : LoginRead(r, s, risky)
    BY <1>2
  <2> DEFINE op == IF user.enabled \/ risky THEN "gatedLogin" ELSE "openLogin"
             q == [Idle EXCEPT !.op = op, !.at = "save", !.session = s]
  <2>1. /\ q \in RequestState /\ q.op \in {"gatedLogin", "openLogin"} /\ q.at = "save"
        /\ q.session = s /\ q.code = None /\ q.fresh = None
    <3>1. op \in {"gatedLogin", "openLogin"} /\ Idle.code = None
      BY DEF Idle
    <3> HIDE DEF op
    <3> QED BY <3>1, IdleIsSound DEF RequestState
  <2>2. /\ request' = [request EXCEPT ![r] = q]
        /\ UNCHANGED <<user, session, shown, confirmed, redeemed, misses>>
    BY DEF LoginRead
  <2> HIDE DEF q, op
  <2>3. Shaped(q) /\ Checked(q, confirmed') /\ Carried(q, shown')
    BY <2>1 DEF Shaped, Checked, Carried
  <2>4. Handlers'
    BY <2>1, <2>2, <2>3, HandlerMoves
  <2> QED BY <2>2, <2>4, DocumentsStay DEF MfaInv
<1> QED BY <1>1, <1>2 DEF Begin

(* Handlers that answer without writing to the account. *)
LEMMA AnswersKeep ==
  ASSUME MfaInv, NEW r \in Request,
         \/ Refuse(r) \/ VerifyAnswer(r) \/ LoginCreateSession(r) \/ DisableMarkSession(r)
  PROVE  MfaInv'
<1>1. Answer(r) /\ UNCHANGED <<user, shown, confirmed, redeemed, misses>>
  BY DEF Refuse, VerifyAnswer, LoginCreateSession, DisableMarkSession
<1>2. Handlers'
  BY <1>1, HandlerAnswers
<1>3. session' \in [Session -> SessionDoc]
  <2>1. \A x \in BOOLEAN, y \in BOOLEAN : [required |-> x, verified |-> y] \in SessionDoc
    BY DEF SessionDoc
  <2>2. session \in [Session -> SessionDoc]
    BY Unpacked
  <2>3. CASE LoginCreateSession(r)
    <3> DEFINE required == request[r].op = "gatedLogin"
    <3>1. session' = [session EXCEPT ![request[r].session] = [required |-> required, verified |-> ~required]]
      BY <2>3 DEF LoginCreateSession
    <3>2. [required |-> required, verified |-> ~required] \in SessionDoc
      BY <2>1
    <3> HIDE DEF required
    <3> QED BY <2>2, <3>1, <3>2
  <2>4. CASE DisableMarkSession(r)
    BY <2>1, <2>2, <2>4 DEF DisableMarkSession
  <2>5. CASE Refuse(r) \/ VerifyAnswer(r)
    BY <2>2, <2>5 DEF Refuse, VerifyAnswer
  <2> QED BY <2>3, <2>4, <2>5
<1>4. Documents'
  BY <1>1, <1>3, Unpacked, FactorStays
<1> QED BY <1>2, <1>4 DEF MfaInv

LEMMA GotoKeeps ==
  ASSUME MfaInv, NEW r \in Request, NEW at \in {"save", "redeem", "fail", "mark"}, Goto(r, at),
         at = "save" => request[r].op = "disable",
         at = "mark" => request[r].op # "confirm" \/ request[r].at = "save",
         at = "redeem" => request[r].op = "verify" /\ request[r].code \in Code,
         UNCHANGED <<shown, confirmed>>
  PROVE  Handlers'
<1> DEFINE q == [request[r] EXCEPT !.at = at]
<1>1. request[r] \in RequestState /\ request \in [Request -> RequestState]
  BY Unpacked
<1>2. request' = [request EXCEPT ![r] = q]
  BY <1>1 DEF Goto
<1>3. /\ q \in RequestState /\ q.at = at /\ q.op = request[r].op
      /\ q.session = request[r].session /\ q.totp = request[r].totp
      /\ q.code = request[r].code /\ q.fresh = request[r].fresh
  BY <1>1 DEF RequestState
<1> HIDE DEF q
<1> QED BY <1>2, <1>3, HandlerGoesOn

(* The final writes of a verification. *)
LEMMA TodoKeeps ==
  ASSUME MfaInv, NEW r \in Request, NEW at \in {"readUser", "redeem", "mark"},
         NEW todo \in SUBSET {"session", "user"},
         request[r].op = "verify", at \in {"mark", request[r].at}, 
         request' = [request EXCEPT ![r] = [request[r] EXCEPT !.at = at, !.todo = todo]],
         UNCHANGED <<shown, confirmed>>
  PROVE  Handlers'
<1> DEFINE q == [request[r] EXCEPT !.at = at, !.todo = todo]
<1>1. request[r] \in RequestState /\ request \in [Request -> RequestState] /\ Shaped(request[r])
  BY Unpacked
<1>2. /\ q \in RequestState /\ q.at = at /\ q.op = request[r].op
      /\ q.session = request[r].session /\ q.totp = request[r].totp
      /\ q.code = request[r].code /\ q.fresh = request[r].fresh
  BY <1>1 DEF RequestState
<1>3. q.at = "redeem" => q.op = "verify" /\ q.code \in Code
  BY <1>1, <1>2 DEF Shaped
<1> HIDE DEF q
<1> QED BY <1>2, <1>3, HandlerGoesOn DEF q

(* A handler draws random material and goes on to save it. *)
LEMMA DrawKeeps ==
  ASSUME MfaInv, NEW r \in Request, NEW x \in Secret \cup Batch, Fresh(x),
         request[r].op = "enroll" => x \in Secret,
         request[r].op \in {"confirm", "regenerate"} => x \in Batch,
         request[r].op = "confirm" => request[r].totp \in Secret /\ request[r].totp \in confirmed',
         request' = [request EXCEPT ![r].at = "save", ![r].fresh = x],
         confirmed \subseteq confirmed', shown' = shown
  PROVE  Handlers'
<1> DEFINE q == [request[r] EXCEPT !.at = "save", !.fresh = x]
<1>1. /\ request[r] \in RequestState /\ request \in [Request -> RequestState]
      /\ Shaped(request[r]) /\ Carried(request[r], shown)
  BY Unpacked
<1>2. request' = [request EXCEPT ![r] = q]
  BY <1>1
<1>3. /\ q \in RequestState /\ q.at = "save" /\ q.op = request[r].op
      /\ q.session = request[r].session /\ q.totp = request[r].totp
      /\ q.code = request[r].code /\ q.fresh = x
  BY <1>1 DEF RequestState
<1> HIDE DEF q
<1>4. Shaped(q) /\ Checked(q, confirmed') /\ Carried(q, shown')
  BY <1>1, <1>3 DEF Shaped, Checked, Carried
<1> QED BY <1>2, <1>3, <1>4, HandlerMoves

LEMMA EnrollKeeps ==
  ASSUME MfaInv, NEW r \in Request,
         (\E secret \in Secret : EnrollRead(r, secret)) \/ EnrollSavePending(r)
  PROVE  MfaInv'
<1>1. ASSUME NEW secret \in Secret, EnrollRead(r, secret) PROVE MfaInv'
  <2>1. Handlers'
    BY <1>1, DrawKeeps DEF EnrollRead, Reading
  <2> QED BY <1>1, <2>1, DocumentsStay DEF EnrollRead, MfaInv
<1>2. CASE EnrollSavePending(r)
  <2>1. request[r].fresh \in Secret
    BY <1>2, Unpacked DEF EnrollSavePending, Saving, Shaped
  <2>2. Handlers'
    BY <1>2, <2>1, HandlerAnswers, NoneAssumption DEF EnrollSavePending
  <2>3. /\ user' \in UserDoc /\ user'.enabled = user.enabled /\ user'.secret = user.secret
        /\ user'.batch = user.batch /\ user'.spent = user.spent
    BY <1>2, <2>1, Unpacked DEF EnrollSavePending, UserDoc
  <2>4. Documents'
    BY <1>2, <2>1, <2>3, Unpacked, FactorStays DEF EnrollSavePending
  <2> QED BY <2>2, <2>4 DEF MfaInv
<1> QED BY <1>1, <1>2

LEMMA ConfirmKeeps ==
  ASSUME MfaInv, NEW r \in Request,
         (\E batch \in Batch : ConfirmRead(r, batch)) \/ ConfirmSave(r) \/ ConfirmMarkSession(r)
  PROVE  MfaInv'
<1>1. ASSUME NEW batch \in Batch, ConfirmRead(r, batch) PROVE MfaInv'
  <2>1. user.pending \in Secret /\ request[r].totp = user.pending
    BY <1>1, Unpacked DEF ConfirmRead, Valid, UserDoc
  <2>2. Handlers'
    BY <1>1, <2>1, DrawKeeps DEF ConfirmRead, Reading
  <2>3. Documents'
    BY <1>1, <2>1, Unpacked, FactorStays DEF ConfirmRead
  <2> QED BY <2>2, <2>3 DEF MfaInv
<1>2. CASE ConfirmSave(r)
  <2>1. /\ request[r].fresh \in Batch /\ request[r].fresh \notin shown
        /\ request[r].totp \in Secret /\ request[r].totp \in confirmed
    BY <1>2, Unpacked, NoneAssumption
    DEF ConfirmSave, Saving, Shaped, Checked, MfaInv, Handlers, InFlight
  <2>2. Handlers'
    BY <1>2, GotoKeeps DEF ConfirmSave, Saving
  <2>3. user' = [enabled |-> TRUE, secret |-> request[r].totp, pending |-> None,
                 batch |-> request[r].fresh, spent |-> {}, failed |-> 0, locked |-> FALSE]
    BY <1>2 DEF ConfirmSave, NoFactor
  <2>4. user' \in UserDoc
    BY <2>1, <2>3, ThresholdAssumption DEF UserDoc
  <2>5. Documents'
    <3>1. /\ user'.batch = request[r].fresh /\ user'.spent = {}
          /\ user'.secret \in Secret /\ user'.secret \in confirmed
      BY <2>1, <2>3
    <3>2. UNCHANGED <<session, confirmed, redeemed, misses, shown>>
      BY <1>2 DEF ConfirmSave
    <3> QED BY <2>1, <2>4, <3>1, <3>2, Unpacked, NewCodes
  <2> QED BY <2>2, <2>5 DEF MfaInv
<1>3. CASE ConfirmMarkSession(r)
  <2>1. request[r].fresh \in Batch
    BY <1>3, Unpacked DEF ConfirmMarkSession, Shaped
  <2>2. Handlers'
    BY <1>3, <2>1, HandlerAnswers, NoneAssumption DEF ConfirmMarkSession
  <2>3. session' \in [Session -> SessionDoc]
    BY <1>3, Unpacked DEF ConfirmMarkSession, SessionDoc
  <2>4. Documents'
    BY <1>3, <2>1, <2>3, Unpacked, FactorStays DEF ConfirmMarkSession
  <2> QED BY <2>2, <2>4 DEF MfaInv
<1> QED BY <1>1, <1>2, <1>3

(* A verification finds its code right, listed, or wrong. *)
LEMMA VerifyReadKeeps ==
  ASSUME MfaInv, NEW r \in Request, VerifyRead(r)
  PROVE  MfaInv'
<1>1. request[r].op = "verify" /\ user.enabled /\ request \in [Request -> RequestState]
  BY Unpacked DEF VerifyRead, Reading
<1>2. UNCHANGED <<user, session, shown, confirmed, redeemed, misses>>
  BY DEF VerifyRead
<1>3. Handlers'
  <2>1. CASE request' = [request EXCEPT ![r].at = "mark", ![r].todo = {"session", "user"}]
    <3> DEFINE todo == {"session", "user"}
    <3>1. request' = [request EXCEPT ![r] = [request[r] EXCEPT !.at = "mark", !.todo = todo]]
      BY <1>1, <2>1
    <3> HIDE DEF todo
    <3>2. todo \in SUBSET {"session", "user"}
      BY DEF todo
    <3> QED BY <1>1, <1>2, <3>1, <3>2, TodoKeeps
  <2>2. CASE /\ \E slot \in Slot \ user.spent : request[r].code = <<user.batch, slot>>
             /\ Goto(r, "redeem")
    <3>1. request[r].code \in Code
      BY <1>1, <2>2 DEF MfaInv, Documents, FactorIsWhole, Code
    <3> QED BY <1>1, <1>2, <2>2, <3>1, GotoKeeps
  <2>3. CASE Goto(r, "fail")
    BY <1>1, <1>2, <2>3, GotoKeeps
  <2> QED BY <2>1, <2>2, <2>3 DEF VerifyRead
<1>4. Documents'
  BY <1>2, DocumentsStay
<1> QED BY <1>3, <1>4 DEF MfaInv

(* A code that is accepted becomes used with the same write, whatever code *)
(* is listed at its index by then.                                         *)
LEMMA RedeemKeeps ==
  ASSUME MfaInv, NEW r \in Request, Redeem(r)
  PROVE  MfaInv'
<1> DEFINE c == request[r].code
           slot == c[2]
<1>1. /\ request[r].op = "verify" /\ request \in [Request -> RequestState]
      /\ c \in Code /\ c[1] \in shown /\ c[1] \in Batch /\ slot \in Slot /\ c = <<c[1], slot>>
  <2>1. request[r].op = "verify" /\ request[r].at = "redeem"
    BY DEF Redeem
  <2>2. c \in Code
    BY <2>1, Unpacked DEF Shaped
  <2>3. c # None
    BY <2>2, NoneAssumption DEF Code
  <2>4. c[1] \in shown
    BY <2>3, Unpacked DEF Carried
  <2> QED BY <2>1, <2>2, <2>4, Unpacked DEF Code
<1>2. UNCHANGED <<session, shown, confirmed, misses>>
  BY DEF Redeem
<1>3. CASE slot \in user.spent /\ Goto(r, "fail") /\ UNCHANGED <<user, redeemed>>
  <2>1. Handlers'
    BY <1>1, <1>2, <1>3, GotoKeeps
  <2> QED BY <1>2, <1>3, <2>1, DocumentsStay DEF MfaInv
<1>4. CASE /\ slot \notin user.spent
           /\ user' = [user EXCEPT !.spent = @ \cup {slot}, !.failed = 0, !.locked = FALSE]
           /\ redeemed' = [redeemed EXCEPT ![c] = @ + 1]
           /\ request' = [request EXCEPT ![r].at = "mark", ![r].todo = {"session", "user"}]
  <2>1. Handlers'
    <3> DEFINE todo == {"session", "user"}
    <3>1. request' = [request EXCEPT ![r] = [request[r] EXCEPT !.at = "mark", !.todo = todo]]
      BY <1>1, <1>4
    <3>2. todo \in SUBSET {"session", "user"}
      OBVIOUS
    <3> HIDE DEF todo
    <3> QED BY <1>1, <1>2, <3>1, <3>2, TodoKeeps
  <2>2. user \in UserDoc /\ redeemed \in [Code -> Nat]
    BY Unpacked
  <2> HIDE DEF c, slot
  <2>3. /\ user' \in UserDoc /\ user'.enabled = user.enabled /\ user'.secret = user.secret
        /\ user'.batch = user.batch /\ user'.spent = user.spent \cup {slot}
    <3>1. /\ 0 \in 0 .. MfaThreshold /\ FALSE \in BOOLEAN
          /\ user.spent \cup {slot} \in SUBSET Slot
      BY <1>1, <2>2, ThresholdAssumption DEF UserDoc
    <3>2. user' = [user EXCEPT !.spent = user.spent \cup {slot}, !.failed = 0, !.locked = FALSE]
      BY <1>4
    <3> QED BY <2>2, <3>1, <3>2 DEF UserDoc
  <2>4. /\ redeemed' \in [Code -> Nat] /\ redeemed'[c] = redeemed[c] + 1
        /\ \A d \in Code : d # c => redeemed'[d] = redeemed[d]
    BY <1>1, <1>4, <2>2
  <2>5. RedeemedIsShown'
    BY <1>1, <1>2, <2>4 DEF MfaInv, Documents, RedeemedIsShown
  <2>6. ASSUME NEW s \in Slot, user.batch # None
        PROVE  /\ redeemed'[<<user.batch, s>>] <= 1
               /\ redeemed'[<<user.batch, s>>] > 0 => s \in user.spent \cup {slot}
    <3> DEFINE d == <<user.batch, s>>
    <3>1. d \in Code
      BY <2>2, <2>6 DEF UserDoc, Code
    <3>2. redeemed[d] \in Nat /\ redeemed[d] <= 1 /\ (redeemed[d] > 0 => s \in user.spent)
      BY <2>2, <2>6, <3>1 DEF MfaInv, Documents, ListedCodeOnce, RedeemedCodeIsSpent
    <3>3. d = c => s = slot
      BY <1>1
    <3> HIDE DEF d
    <3>4. CASE d = c
      <4>1. redeemed[d] = 0
        BY <1>4, <3>2, <3>3, <3>4
      <4> QED BY <2>4, <3>3, <3>4, <4>1 DEF d
    <3>5. CASE d # c
      BY <2>4, <3>1, <3>2, <3>5 DEF d
    <3> QED BY <3>4, <3>5
  <2>7. ListedCodeOnce' /\ RedeemedCodeIsSpent'
    BY <2>3, <2>6 DEF ListedCodeOnce, RedeemedCodeIsSpent
  <2>8. FactorIsWhole' /\ SecretIsConfirmed'
    BY <1>2, <2>3 DEF MfaInv, Documents, FactorIsWhole, SecretIsConfirmed
  <2>9. Documents'
    BY <1>2, <2>3, <2>4, <2>5, <2>7, <2>8, Unpacked DEF Documents
  <2> QED BY <2>1, <2>9 DEF MfaInv
<1> QED BY <1>3, <1>4 DEF Redeem

(* What a verification counts and marks. *)
LEMMA VerifyWritesKeep ==
  ASSUME MfaInv, NEW r \in Request, RecordFailure(r) \/ VerifyMarkSession(r) \/ VerifyMarkUser(r)
  PROVE  MfaInv'
<1>1. /\ user \in UserDoc /\ session \in [Session -> SessionDoc] /\ misses \in 0 .. MfaThreshold
      /\ request[r] \in RequestState /\ request \in [Request -> RequestState]
  BY Unpacked
<1>2. CASE RecordFailure(r)
  <2>1. Handlers'
    BY <1>2, HandlerAnswers DEF RecordFailure
  <2> DEFINE lock == 1 >= MfaThreshold
             failed == IF lock THEN 0 ELSE 1
  <2>2. user' = [user EXCEPT !.failed = failed, !.locked = lock]
    BY <1>2 DEF RecordFailure, SelectedFailures
  <2>3. failed \in 0 .. MfaThreshold /\ lock \in BOOLEAN
    BY ThresholdAssumption
  <2> HIDE DEF failed, lock
  <2>4. /\ user' \in UserDoc /\ user'.enabled = user.enabled /\ user'.secret = user.secret
        /\ user'.batch = user.batch /\ user'.spent = user.spent
    BY <1>1, <2>2, <2>3 DEF UserDoc
  <2>5. misses' \in 0 .. MfaThreshold
    BY <1>1, <1>2, ThresholdAssumption DEF RecordFailure
  <2>6. Documents'
    BY <1>2, <2>4, <2>5, Unpacked, FactorStays DEF RecordFailure
  <2> QED BY <2>1, <2>6 DEF MfaInv
<1>3. ASSUME VerifyMarkSession(r) \/ VerifyMarkUser(r) PROVE Handlers'
  <2> PICK w \in {"session", "user"} : /\ w \in request[r].todo
         /\ request' = [request EXCEPT ![r].todo = @ \ {w}]
         /\ request[r].op = "verify" /\ UNCHANGED <<shown, confirmed>>
    BY <1>3 DEF VerifyMarkSession, VerifyMarkUser
  <2> DEFINE q == [request[r] EXCEPT !.todo = request[r].todo \ {w}]
  <2>1. request' = [request EXCEPT ![r] = q]
    BY <1>1
  <2>2. /\ q \in RequestState /\ q.at = request[r].at /\ q.op = request[r].op
        /\ q.session = request[r].session /\ q.totp = request[r].totp
        /\ q.code = request[r].code /\ q.fresh = request[r].fresh
    BY <1>1 DEF RequestState
  <2>3. q.at = "redeem" => q.op = "verify" /\ q.code \in Code
    BY <2>2, Unpacked DEF Shaped
  <2> HIDE DEF q
  <2> QED BY ZenonT(30), <2>1, <2>2, <2>3, HandlerGoesOn
<1>4. CASE VerifyMarkSession(r)
  <2>1. session' \in [Session -> SessionDoc]
    BY <1>1, <1>4 DEF VerifyMarkSession, SessionDoc
  <2>2. Documents'
    BY <1>4, <2>1, Unpacked, FactorStays DEF VerifyMarkSession
  <2> QED BY <1>3, <1>4, <2>2 DEF MfaInv
<1>5. CASE VerifyMarkUser(r)
  <2>1. /\ user' \in UserDoc /\ user'.enabled = user.enabled /\ user'.secret = user.secret
        /\ user'.batch = user.batch /\ user'.spent = user.spent
    <3>1. 0 \in 0 .. MfaThreshold /\ FALSE \in BOOLEAN
      BY ThresholdAssumption
    <3>2. user' = [user EXCEPT !.failed = 0, !.locked = FALSE]
      BY <1>5 DEF VerifyMarkUser
    <3> QED BY <1>1, <3>1, <3>2 DEF UserDoc
  <2>2. misses' \in 0 .. MfaThreshold
    BY <1>5, ThresholdAssumption DEF VerifyMarkUser
  <2>3. Documents'
    BY <1>5, <2>1, <2>2, Unpacked, FactorStays DEF VerifyMarkUser
  <2> QED BY <1>3, <1>5, <2>3 DEF MfaInv
<1> QED BY <1>2, <1>4, <1>5

LEMMA DisableKeeps ==
  ASSUME MfaInv, NEW r \in Request, DisableRead(r) \/ DisableSave(r)
  PROVE  MfaInv'
<1>1. CASE DisableRead(r)
  <2>1. Handlers'
    BY <1>1, GotoKeeps DEF DisableRead, ReadFactor, Reading
  <2> QED BY <1>1, <2>1, DocumentsStay DEF DisableRead, MfaInv
<1>2. CASE DisableSave(r)
  <2>1. Handlers'
    BY <1>2, GotoKeeps DEF DisableSave, Saving
  <2>2. user' = NoFactor /\ NoFactor \in UserDoc
    BY <1>2, ThresholdAssumption DEF DisableSave, NoFactor, UserDoc
  <2>3. FactorIsWhole' /\ ListedCodeOnce' /\ RedeemedCodeIsSpent' /\ SecretIsConfirmed'
    BY <2>2 DEF NoFactor, FactorIsWhole, ListedCodeOnce, RedeemedCodeIsSpent, SecretIsConfirmed
  <2>4. Documents'
    BY <1>2, <2>2, <2>3 DEF DisableSave, MfaInv, Documents, RedeemedIsShown
  <2> QED BY <2>1, <2>4 DEF MfaInv
<1> QED BY <1>1, <1>2

LEMMA RegenerateKeeps ==
  ASSUME MfaInv, NEW r \in Request,
         (\E batch \in Batch : RegenerateRead(r, batch)) \/ RegenerateSaveAndAnswer(r)
  PROVE  MfaInv'
<1>1. ASSUME NEW batch \in Batch, RegenerateRead(r, batch) PROVE MfaInv'
  <2>1. Handlers'
    BY <1>1, DrawKeeps DEF RegenerateRead, ReadFactor, Reading
  <2> QED BY <1>1, <2>1, DocumentsStay DEF RegenerateRead, MfaInv
<1>2. CASE RegenerateSaveAndAnswer(r)
  <2>1. request[r].fresh \in Batch /\ request[r].fresh # None /\ request[r].fresh \notin shown
    <3>1. request[r].fresh \in Batch
      BY <1>2, Unpacked DEF RegenerateSaveAndAnswer, Saving, Shaped
    <3> QED BY <3>1, NoneAssumption DEF MfaInv, Handlers, InFlight
  <2>2. Handlers'
    BY <1>2, <2>1, HandlerAnswers DEF RegenerateSaveAndAnswer
  <2>3. /\ user' \in UserDoc /\ user'.enabled = user.enabled /\ user'.secret = user.secret
        /\ user'.batch = request[r].fresh /\ user'.spent = {}
    BY <1>2, <2>1, Unpacked DEF RegenerateSaveAndAnswer, UserDoc
  <2>4. /\ user'.enabled => user'.secret \in Secret
        /\ user'.secret # None => user'.secret \in confirmed
    BY <2>3 DEF MfaInv, Documents, FactorIsWhole, SecretIsConfirmed
  <2>5. shown \subseteq shown' /\ shown' \in SUBSET (Secret \cup Batch)
    BY <1>2, <2>1, Unpacked DEF RegenerateSaveAndAnswer
  <2>6. UNCHANGED <<session, confirmed, redeemed, misses>>
    BY <1>2 DEF RegenerateSaveAndAnswer
  <2>7. Documents'
    BY <2>1, <2>3, <2>4, <2>5, <2>6, NewCodes
  <2> QED BY <2>2, <2>7 DEF MfaInv
<1> QED BY <1>1, <1>2

-----------------------------------------------------------------------------
(* The invariant and what follows from it. *)

LEMMA InitMfa == Init => MfaInv
<1> SUFFICES ASSUME Init PROVE MfaInv
  OBVIOUS
<1>1. Handlers
  BY IdleIsSound DEF Init, Handlers, InFlight, Apart
<1>2. NoFactor \in UserDoc
  BY ThresholdAssumption DEF NoFactor, UserDoc
<1>3. RedeemedIsShown /\ FactorIsWhole
  BY DEF Init, RedeemedIsShown, FactorIsWhole, NoFactor
<1>4. ListedCodeOnce /\ RedeemedCodeIsSpent /\ SecretIsConfirmed
  BY DEF Init, ListedCodeOnce, RedeemedCodeIsSpent, SecretIsConfirmed, NoFactor
<1>5. Documents
  BY <1>2, <1>3, <1>4, ThresholdAssumption DEF Init, Documents, SessionDoc
<1> QED BY <1>1, <1>5 DEF MfaInv

(* Every step keeps MfaInv: one case for each action. *)
LEMMA StepMfa == MfaInv /\ [Next]_vars => MfaInv'
<1> SUFFICES ASSUME MfaInv, [Next]_vars PROVE MfaInv'
  OBVIOUS
<1>1. ASSUME NEW r \in Request, Begin(r) PROVE MfaInv'
  BY <1>1, BeginKeeps
<1>2. ASSUME NEW r \in Request, Continue(r) PROVE MfaInv'
  <2>1. CASE \/ LoginCreateSession(r) \/ DisableMarkSession(r) \/ VerifyAnswer(r)
             \/ EnrollRefused(r) \/ ConfirmRefused(r) \/ VerifyRefused(r) \/ ChangeRefused(r)
    BY <2>1, AnswersKeep DEF EnrollRefused, ConfirmRefused, VerifyRefused, ChangeRefused
  <2>2. CASE (\E secret \in Secret : EnrollRead(r, secret)) \/ EnrollSavePending(r)
    BY <2>2, EnrollKeeps
  <2>3. CASE (\E batch \in Batch : ConfirmRead(r, batch)) \/ ConfirmSave(r) \/ ConfirmMarkSession(r)
    BY <2>3, ConfirmKeeps
  <2>4. CASE (\E batch \in Batch : RegenerateRead(r, batch)) \/ RegenerateSaveAndAnswer(r)
    BY <2>4, RegenerateKeeps
  <2>5. CASE RecordFailure(r) \/ VerifyMarkSession(r) \/ VerifyMarkUser(r)
    BY <2>5, VerifyWritesKeep
  <2>6. CASE VerifyRead(r) \/ Redeem(r) \/ DisableRead(r) \/ DisableSave(r)
    BY <2>6, VerifyReadKeeps, RedeemKeeps, DisableKeeps
  <2> QED BY <1>2, <2>1, <2>2, <2>3, <2>4, <2>5, <2>6, Zenon DEF Continue
<1>3. CASE UNCHANGED vars
  <2>1. Handlers'
    BY <1>3 DEF vars, MfaInv, Handlers, InFlight, Apart
  <2> QED BY <1>3, <2>1, DocumentsStay DEF vars, MfaInv
<1> QED BY <1>1, <1>2, <1>3 DEF Next

(* The documents and the handlers keep their domains. *)
THEOREM TypeCorrect == Spec => []TypeOK
<1>1. MfaInv => TypeOK
  BY DEF MfaInv, Handlers, Documents, TypeOK
<1> QED BY <1>1, InitMfa, StepMfa, PTL DEF Spec

(* However many requests present it at one time, and whatever regenerates, *)
(* disables or enrolls meanwhile, a listed recovery code is accepted once. *)
THEOREM AcceptedOnce == Spec => []ListedCodeOnce
<1>1. MfaInv => ListedCodeOnce
  BY DEF MfaInv, Documents
<1> QED BY <1>1, InitMfa, StepMfa, PTL DEF Spec

(* A recovery code that was accepted and is listed is marked used, so no   *)
(* later request can be let in with it.                                    *)
THEOREM AcceptedIsSpent == Spec => []RedeemedCodeIsSpent
<1>1. MfaInv => RedeemedCodeIsSpent
  BY DEF MfaInv, Documents
<1> QED BY <1>1, InitMfa, StepMfa, PTL DEF Spec

(* However enrollments overlap, the secret an account is guarded by is one *)
(* whose code the user has sent back.                                      *)
THEOREM SecretIsTheUsers == Spec => []SecretIsConfirmed
<1>1. MfaInv => SecretIsConfirmed
  BY DEF MfaInv, Documents
<1> QED BY <1>1, InitMfa, StepMfa, PTL DEF Spec
=============================================================================
