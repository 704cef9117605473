---------------------------- MODULE SessionTokens ----------------------------
(***************************************************************************)
(* Sessions and rotating refresh tokens of one user: the login, refresh,   *)
(* logout and logout-all handlers, the access-token check that runs before *)
(* every protected handler, and the Mongo documents they share.            *)
(*                                                                         *)
(* Handlers run interleaved on one event loop.  Each action is the code    *)
(* between two awaits: one atomic database operation on the AuthSession or *)
(* RefreshToken collection and the decisions taken on what it returned.    *)
(* The operations of a Promise.all are left pending together and run in    *)
(* either order.                                                           *)
(*                                                                         *)
(* A grant is the access token and the refresh token that one login or one *)
(* rotation mints together: AuthSession.tokenId names the grant whose      *)
(* access token is accepted, RefreshToken.tokenId the grant whose refresh  *)
(* token the document holds.  A refresh-token family belongs to exactly    *)
(* one session for life (rotation reuses familyId), so the session stands  *)
(* for its family, and current = None for "no family attached yet".        *)
(***************************************************************************)
EXTENDS Naturals

CONSTANTS
  Session,      \* sessions (and their token families) the user may open
  Grant,        \* grants; bounds the number of logins plus rotations
  Request,      \* handler slots: requests being served at one time
  None,         \* absent value
  RefreshTtl,   \* REFRESH_TOKEN_EXPIRES_IN, in ticks
  MaxTime,      \* bound on the clock
  AllowCrash    \* whether the Node process may die between two steps

ASSUME NoneAssumption == None \notin Grant /\ None \notin Session
ASSUME TimeAssumption == RefreshTtl \in Nat \ {0} /\ MaxTime \in Nat
ASSUME CrashAssumption == AllowCrash \in BOOLEAN

VARIABLES
  session,   \* the AuthSession documents
  token,     \* the RefreshToken documents
  request,   \* what each handler slot is doing, with its local snapshot
  issued,    \* grants some client has received in a response
  now,       \* the clock
  ended      \* history: <<s, what>> for the sessions s that were ended

vars == <<session, token, request, issued, now, ended>>

Times == 0 .. (MaxTime + RefreshTtl)

SessionDoc ==
  [status  : {"absent", "active", "revoked"},
   access  : Grant \cup {None},     \* tokenId: the access token it accepts
   current : Grant \cup {None},     \* currentRefreshTokenId (with the family)
   expires : Times]                 \* refreshTokenExpiresAt

(* "rotated" is inactive with usedAt set, "revoked" inactive without it. *)
TokenDoc ==
  [status     : {"absent", "active", "rotated", "revoked"},
   session    : Session \cup {None},
   parent     : Grant \cup {None},
   replacedBy : Grant \cup {None},
   expires    : Times]

Writes == {"tokens", "family", "direct", "deactivate", "otherSessions", "otherTokens"}

RequestState ==
  [op      : {"none", "login", "refresh", "logout", "logoutAll", "replay", "expiry", "reject"},
   at      : {"idle", "cleanTokens", "createSession", "createToken", "attach",
              "checkSession", "consume", "createChild", "link", "updateAccess", "revoke"},
   session : Session \cup {None},
   grant   : Grant \cup {None},     \* the credential presented
   child   : Grant \cup {None},     \* the grant this request mints
   todo    : SUBSET Writes]         \* revocation writes not yet performed

(* A logout or replay rejection was answered, a logout-all closed the session. *)
Endings == {"logout", "replay", "logoutAll"}

NoSession == [status |-> "absent", access |-> None, current |-> None, expires |-> 0]
NoToken == [status |-> "absent", session |-> None, parent |-> None,
            replacedBy |-> None, expires |-> 0]
Idle == [op |-> "none", at |-> "idle", session |-> None, grant |-> None,
         child |-> None, todo |-> {}]

TypeOK ==
  /\ session \in [Session -> SessionDoc]
  /\ token \in [Grant -> TokenDoc]
  /\ request \in [Request -> RequestState]
  /\ issued \in SUBSET Grant
  /\ now \in 0 .. MaxTime
  /\ ended \in SUBSET ((Session \cup {None}) \X Endings)

Init ==
  /\ session = [s \in Session |-> NoSession]
  /\ token = [g \in Grant |-> NoToken]
  /\ request = [r \in Request |-> Idle]
  /\ issued = {}
  /\ now = 0
  /\ ended = {}

-----------------------------------------------------------------------------
(* Helpers. *)

Expired(doc) == doc.expires <= now

(* crypto.randomUUID: an id no document and no other handler uses. *)
Fresh(g) ==
  /\ token[g].status = "absent"
  /\ \A s \in Session : session[s].access # g
  /\ \A r \in Request : request[r].child # g

Goto(r, at) == request' = [request EXCEPT ![r].at = at]

(* A handler that has begun, for session s with credential g, minting h. *)
Serving(op, at, s, g, h) ==
  [op |-> op, at |-> at, session |-> s, grant |-> g, child |-> h, todo |-> {}]

(* A handler that only has revocation writes left before it answers. *)
Revoking(op, s, g, todo) ==
  [op |-> op, at |-> "revoke", session |-> s, grant |-> g, child |-> None, todo |-> todo]

(* revokeRefreshTokenFamily: RefreshToken.updateMany, then AuthSession.updateMany. *)
RevokeFamily == {"tokens", "family"}

RevokeToken(doc) == IF doc.status = "active" THEN [doc EXCEPT !.status = "revoked"] ELSE doc
RevokeSession(doc) == IF doc.status = "active" THEN [doc EXCEPT !.status = "revoked"] ELSE doc

(* RefreshToken.create followed by the attach of its id to the session. *)
NewToken(s, parent) ==
  [status |-> "active", session |-> s, parent |-> parent,
   replacedBy |-> None, expires |-> now + RefreshTtl]

-----------------------------------------------------------------------------
(* Login (after the password check): sweep expired documents, create the   *)
(* session with its access token, create the first refresh token, attach   *)
(* it and answer.                                                          *)

LoginSweepSessions(r, s, g) ==
  /\ request[r] = Idle
  /\ session[s].status = "absent" /\ \A q \in Request : request[q].session # s
  /\ Fresh(g)
  /\ session' = [x \in Session |->
                   IF Expired(session[x]) THEN RevokeSession(session[x]) ELSE session[x]]
  /\ request' = [request EXCEPT ![r] = Serving("login", "cleanTokens", s, None, g)]
  /\ UNCHANGED <<token, issued, now, ended>>

LoginSweepTokens(r) ==
  /\ request[r].at = "cleanTokens"
  /\ token' = [g \in Grant |->
                 IF Expired(token[g]) THEN RevokeToken(token[g]) ELSE token[g]]
  /\ Goto(r, "createSession")
  /\ UNCHANGED <<session, issued, now, ended>>

(* The risk engine blocks the attempt (403) after the sweeps. *)
LoginBlocked(r) ==
  /\ request[r].at = "createSession"
  /\ request' = [request EXCEPT ![r] = Idle]
  /\ UNCHANGED <<session, token, issued, now, ended>>

LoginCreateSession(r) ==
  /\ request[r].at = "createSession"
  /\ session' = [session EXCEPT ![request[r].session] =
                   [status |-> "active", access |-> request[r].child, current |-> None,
                    expires |-> now + RefreshTtl]]
  /\ Goto(r, "createToken")
  /\ UNCHANGED <<token, issued, now, ended>>

LoginCreateToken(r) ==
  /\ request[r].at = "createToken"
  /\ token' = [token EXCEPT ![request[r].child] = NewToken(request[r].session, None)]
  /\ Goto(r, "attach")
  /\ UNCHANGED <<session, issued, now, ended>>

(* Variant for mutation: attaching a token reactivates the session. *)
AttachTokenReviving(s, g) ==
  session' = [session EXCEPT ![s].current = g, ![s].expires = token[g].expires,
                             ![s].status = "active"]

(* The second write of createRefreshTokenRecord: it does not look at isActive. *)
AttachToken(s, g) ==
  session' = [session EXCEPT ![s].current = g, ![s].expires = token[g].expires]

LoginAttachAndAnswer(r) ==
  /\ request[r].at = "attach" /\ request[r].op = "login"
  /\ AttachToken(request[r].session, request[r].child)
  /\ issued' = issued \cup {request[r].child}
  /\ request' = [request EXCEPT ![r] = Idle]
  /\ UNCHANGED <<token, now, ended>>

-----------------------------------------------------------------------------
(* Refresh: rotateRefreshToken, one action per awaited operation.          *)

(* The presented token's document is found: used, revoked, expired or usable. *)
RefreshFindToken(r, g) ==
  /\ request[r] = Idle
  /\ g \in issued
  /\ \/ /\ token[g].status # "active"
        /\ request' = [request EXCEPT ![r] =
                         Revoking("replay", token[g].session, g, RevokeFamily)]
     \/ /\ token[g].status = "active" /\ Expired(token[g])
        /\ request' = [request EXCEPT ![r] =
                         Revoking("expiry", token[g].session, g, RevokeFamily)]
     \/ /\ token[g].status = "active" /\ ~Expired(token[g])
        /\ \E h \in Grant :
             /\ Fresh(h)
             /\ request' = [request EXCEPT ![r] =
                              Serving("refresh", "checkSession", token[g].session, g, h)]
  /\ UNCHANGED <<session, token, issued, now, ended>>

(* A token that names a known family but has no document with its id and   *)
(* hash: the document was removed by the TTL index, or the value is stale. *)
RefreshUnknownToken(r, s) ==
  /\ request[r] = Idle
  /\ \E g \in issued : token[g].session = s
  /\ request' = [request EXCEPT ![r] = Revoking("replay", s, None, RevokeFamily)]
  /\ UNCHANGED <<session, token, issued, now, ended>>

(* resolveSession, resolveUser and detectRefreshAnomalies.  bound says     *)
(* whether the user still has the session's role and the request still     *)
(* comes from the session's device.                                        *)
RefreshCheckSession(r, bound) ==
  LET s == request[r].session
      g == request[r].grant
      found == session[s].current # None /\ session[s].status = "active"
  IN
  /\ request[r].at = "checkSession"
  /\ \/ /\ ~found
        /\ request' = [request EXCEPT ![r] = Revoking("replay", s, g, RevokeFamily)]
     \/ /\ found /\ Expired(session[s])
        /\ request' = [request EXCEPT ![r] = Revoking("expiry", s, g, RevokeFamily)]
     \/ /\ found /\ ~Expired(session[s]) /\ ~bound
        /\ request' = [request EXCEPT ![r] = Revoking("replay", s, g, RevokeFamily)]
     \/ /\ found /\ ~Expired(session[s]) /\ bound
        /\ Goto(r, "consume")
  /\ UNCHANGED <<session, token, issued, now, ended>>

(* Variant for mutation: the consume is not conditional on isActive. *)
RefreshConsumeBlindly(r) ==
  /\ request[r].at = "consume"
  /\ token' = [token EXCEPT ![request[r].grant].status = "rotated"]
  /\ Goto(r, "createChild")
  /\ UNCHANGED <<session, issued, now, ended>>

(* consumeRefreshToken: the compare-and-set that decides a race. *)
RefreshConsume(r) ==
  LET g == request[r].grant IN
  /\ request[r].at = "consume"
  /\ \/ /\ token[g].status = "active"
        /\ token' = [token EXCEPT ![g].status = "rotated"]
        /\ Goto(r, "createChild")
     \/ /\ token[g].status # "active"
        /\ request' = [request EXCEPT ![r] =
                         Revoking("replay", request[r].session, g, RevokeFamily)]
        /\ UNCHANGED token
  /\ UNCHANGED <<session, issued, now, ended>>

RefreshCreateChild(r) ==
  /\ request[r].at = "createChild"
  /\ token' = [token EXCEPT ![request[r].child] =
                 NewToken(request[r].session, request[r].grant)]
  /\ Goto(r, "attach")
  /\ UNCHANGED <<session, issued, now, ended>>

RefreshAttachChild(r) ==
  /\ request[r].at = "attach" /\ request[r].op = "refresh"
  /\ AttachToken(request[r].session, request[r].child)
  /\ Goto(r, "link")
  /\ UNCHANGED <<token, issued, now, ended>>

(* Variant for mutation: the link is written on the child. *)
RefreshLinkChild(r) ==
  /\ request[r].at = "link"
  /\ token' = [token EXCEPT ![request[r].child].replacedBy = request[r].grant]
  /\ Goto(r, "updateAccess")
  /\ UNCHANGED <<session, issued, now, ended>>

RefreshLinkParent(r) ==
  /\ request[r].at = "link"
  /\ token' = [token EXCEPT ![request[r].grant].replacedBy = request[r].child]
  /\ Goto(r, "updateAccess")
  /\ UNCHANGED <<session, issued, now, ended>>

(* Variant for mutation: the answer leaves the old access token accepted. *)
RefreshAnswerOnly(r) ==
  /\ request[r].at = "updateAccess"
  /\ issued' = issued \cup {request[r].child}
  /\ request' = [request EXCEPT ![r] = Idle]
  /\ UNCHANGED <<session, token, now, ended>>

(* updateSessionAccessToken writes only an active session; the handler     *)
(* answers 200 with the new pair whether or not it matched one.            *)
RefreshUpdateAccessAndAnswer(r) ==
  LET s == request[r].session IN
  /\ request[r].at = "updateAccess"
  /\ session' = [session EXCEPT ![s].access =
                   IF session[s].status = "active" THEN request[r].child ELSE @]
  /\ issued' = issued \cup {request[r].child}
  /\ request' = [request EXCEPT ![r] = Idle]
  /\ UNCHANGED <<token, now, ended>>

-----------------------------------------------------------------------------
(* Requests authenticated by an access token, and logout.                  *)

(* validateAuthSession accepts g's access token as one of session s. *)
Accepts(s, g) ==
  /\ g \in issued
  /\ session[s].access = g
  /\ session[s].status = "active"
  /\ ~Expired(session[s])

LogoutBySession(r, s, g) ==
  /\ request[r] = Idle
  /\ Accepts(s, g)
  /\ request' = [request EXCEPT ![r] =
                   Revoking("logout", s, g, {"direct"} \cup RevokeFamily)]
  /\ UNCHANGED <<session, token, issued, now, ended>>

(* No usable access token: the family named by the refresh cookie goes. *)
LogoutByCookie(r, g) ==
  /\ request[r] = Idle
  /\ g \in issued
  /\ request' = [request EXCEPT ![r] =
                   Revoking("logout", token[g].session, g, RevokeFamily)]
  /\ UNCHANGED <<session, token, issued, now, ended>>

LogoutAll(r, s, g) ==
  /\ request[r] = Idle
  /\ Accepts(s, g)
  /\ request' = [request EXCEPT ![r] =
                   Revoking("logoutAll", s, g, {"otherSessions", "otherTokens"})]
  /\ UNCHANGED <<session, token, issued, now, ended>>

(* An access token of an active session fails the check: the session has   *)
(* expired or the device differs (deactivated without a condition), or the *)
(* user lost the session's role (revoked only while it is still current).  *)
RejectAccess(r, s, g) ==
  /\ request[r] = Idle
  /\ g \in issued /\ session[s].access = g /\ session[s].status = "active"
  /\ \E write \in {"deactivate", "direct"} :
       /\ write = "direct" => ~Expired(session[s])
       /\ request' = [request EXCEPT ![r] = Revoking("reject", s, g, {write})]
  /\ UNCHANGED <<session, token, issued, now, ended>>

-----------------------------------------------------------------------------
(* The pending revocation writes, each one database operation.             *)

Pending(r, write) == request[r].at = "revoke" /\ write \in request[r].todo
Done(r, write) == request' = [request EXCEPT ![r].todo = @ \ {write}]

WriteTokens(r) ==
  /\ Pending(r, "tokens")
  /\ token' = [g \in Grant |-> IF token[g].session = request[r].session
                               THEN RevokeToken(token[g]) ELSE token[g]]
  /\ Done(r, "tokens")
  /\ UNCHANGED <<session, issued, now, ended>>

(* Variant for mutation: only while the presented credential is current. *)
WriteFamilySessionIfCurrent(r) ==
  LET s == request[r].session IN
  /\ Pending(r, "family") /\ "tokens" \notin request[r].todo
  /\ session' = [session EXCEPT ![s] =
                   IF @.current = request[r].grant THEN RevokeSession(@) ELSE @]
  /\ Done(r, "family")
  /\ UNCHANGED <<token, issued, now, ended>>

(* Matches the session only once the family has been attached to it. *)
WriteFamilySession(r) ==
  LET s == request[r].session IN
  /\ Pending(r, "family") /\ "tokens" \notin request[r].todo
  /\ session' = [session EXCEPT ![s] = IF @.current # None THEN RevokeSession(@) ELSE @]
  /\ Done(r, "family")
  /\ UNCHANGED <<token, issued, now, ended>>

(* revokeAuthSession: still active and still accepting the snapshot's token. *)
WriteDirect(r) ==
  LET s == request[r].session IN
  /\ Pending(r, "direct")
  /\ session' = [session EXCEPT ![s] =
                   IF @.access = request[r].grant THEN RevokeSession(@) ELSE @]
  /\ Done(r, "direct")
  /\ UNCHANGED <<token, issued, now, ended>>

WriteDeactivate(r) ==
  /\ Pending(r, "deactivate")
  /\ session' = [session EXCEPT ![request[r].session].status = "revoked"]
  /\ Done(r, "deactivate")
  /\ UNCHANGED <<token, issued, now, ended>>

OtherActive(r) ==
  {s \in Session : s # request[r].session /\ session[s].status = "active"}

WriteOtherSessions(r) ==
  /\ Pending(r, "otherSessions")
  /\ session' = [s \in Session |-> IF s # request[r].session
                                   THEN RevokeSession(session[s]) ELSE session[s]]
  /\ ended' = ended \cup {<<s, "logoutAll">> : s \in OtherActive(r)}
  /\ Done(r, "otherSessions")
  /\ UNCHANGED <<token, issued, now>>

WriteOtherTokens(r) ==
  /\ Pending(r, "otherTokens")
  /\ token' = [g \in Grant |-> IF token[g].session # request[r].session
                               THEN RevokeToken(token[g]) ELSE token[g]]
  /\ Done(r, "otherTokens")
  /\ UNCHANGED <<session, issued, now, ended>>

AnswerRevocation(r) ==
  /\ request[r].at = "revoke" /\ request[r].todo = {}
  /\ ended' = IF request[r].op \in {"logout", "replay"}
              THEN ended \cup {<<request[r].session, request[r].op>>} ELSE ended
  /\ request' = [request EXCEPT ![r] = Idle]
  /\ UNCHANGED <<session, token, issued, now>>

-----------------------------------------------------------------------------
(* The environment. *)

Tick ==
  /\ now < MaxTime
  /\ now' = now + 1
  /\ UNCHANGED <<session, token, request, issued, ended>>

(* The process dies: every handler in flight is gone, the documents stay. *)
Crash ==
  /\ AllowCrash
  /\ request' = [r \in Request |-> Idle]
  /\ UNCHANGED <<session, token, issued, now, ended>>

Arrive(r) ==
  \/ \E s \in Session, g \in Grant :
       \/ LoginSweepSessions(r, s, g)
       \/ LogoutBySession(r, s, g)
       \/ LogoutAll(r, s, g)
       \/ RejectAccess(r, s, g)
  \/ \E g \in Grant : RefreshFindToken(r, g) \/ LogoutByCookie(r, g)
  \/ \E s \in Session : RefreshUnknownToken(r, s)

Continue(r) ==
  \/ LoginSweepTokens(r) \/ LoginBlocked(r) \/ LoginCreateSession(r)
  \/ LoginCreateToken(r) \/ LoginAttachAndAnswer(r)
  \/ \E bound \in BOOLEAN : RefreshCheckSession(r, bound)
  \/ RefreshConsume(r) \/ RefreshCreateChild(r) \/ RefreshAttachChild(r)
  \/ RefreshLinkParent(r) \/ RefreshUpdateAccessAndAnswer(r)
  \/ WriteTokens(r) \/ WriteFamilySession(r) \/ WriteDirect(r)
  \/ WriteDeactivate(r) \/ WriteOtherSessions(r) \/ WriteOtherTokens(r)
  \/ AnswerRevocation(r)

Next ==
  \/ \E r \in Request : Arrive(r) \/ Continue(r)
  \/ Tick
  \/ Crash

Spec == Init /\ [][Next]_vars

(* A handler that was started keeps being scheduled: the event loop and    *)
(* the database answer.  Clients owe nothing, so arrivals have no fairness.*)
FairSpec == Spec /\ \A r \in Request : WF_vars(Continue(r))

-----------------------------------------------------------------------------
(* Properties. *)

(* No interleaving of rotations, logins and revocations leaves two refresh *)
(* tokens of one family usable: the compare-and-set consumes the parent    *)
(* before the child exists.                                                *)
OneLiveToken ==
  \A g, h \in Grant :
    (token[g].status = "active" /\ token[h].status = "active"
       /\ token[g].session = token[h].session) => g = h

(* A token is rotated into at most one successor, and the forward link     *)
(* replacedByTokenId, once written, names the child that names it back.    *)
LineageIsAChain ==
  /\ \A g, h \in Grant :
       (token[g].parent # None /\ token[g].parent = token[h].parent) => g = h
  /\ \A g \in Grant : token[g].replacedBy # None => token[token[g].replacedBy].parent = g

(* The two halves of a grant live together: whoever holds a refresh token  *)
(* that would still rotate also holds the access token the session         *)
(* accepts, and it is the session's current refresh token.                 *)
HalvesAgree ==
  \A g \in issued :
    LET s == token[g].session IN
    (token[g].status = "active" /\ session[s].status = "active")
      => session[s].access = g /\ session[s].current = g

(* Once a logout or a replay rejection has been answered its session is    *)
(* inactive, and so are the sessions a logout-all found, whatever was in   *)
(* flight (rotations included) at the time.                                *)
EndedIsInactive ==
  \A e \in ended : session[e[1]].status = "revoked"

(* The services implement the credential chain. *)
Chain == INSTANCE CredentialChain WITH
  phase <- [s \in Session |-> session[s].status],
  accepted <- [s \in Session |-> session[s].access],
  spent <- {g \in Grant : token[g].status = "rotated"}

ImplementsChain == Chain!Spec

(* A detected replay always ends with its session inactive (no crash). *)
ReplayClosesSession ==
  \A s \in Session :
    (\E r \in Request : request[r].op = "replay" /\ request[r].session = s)
      ~> session[s].status = "revoked"
=============================================================================
