------------------------- MODULE SessionTokensProofs -------------------------
(***************************************************************************)
(* Proofs about the session and refresh-token services, in three parts.    *)
(*                                                                         *)
(* TYPES.  What each kind of record update does, field by field (the step  *)
(* proofs cite these lemmas and never expand an EXCEPT), and that the      *)
(* documents keep their types.                                             *)
(*                                                                         *)
(* OWNERSHIP.  Who owns which document, and that a session whose end was   *)
(* answered stays closed.                                                  *)
(*                                                                         *)
(* ROTATION.  How a token family rotates: one usable token, a lineage      *)
(* without forks, a client that holds both halves of a grant or neither,   *)
(* and the chain of credentials the services implement.                    *)
(***************************************************************************)
EXTENDS SessionTokensInv, TLAPS

Steps == {"idle", "cleanTokens", "createSession", "createToken", "attach",
          "checkSession", "consume", "createChild", "link", "updateAccess", "revoke"}

Revocations == {"logout", "logoutAll", "replay", "expiry", "reject"}

-----------------------------------------------------------------------------
(* What the helpers and the writes do. *)

(* A deadline computed now is a time of the model. *)
LEMMA DeadlineIsTime ==
  ASSUME now \in 0 .. MaxTime
  PROVE  now + RefreshTtl \in Times
BY TimeAssumption DEF Times

(* Moving a handler to its next step changes nothing else of it. *)
LEMMA GotoEffect ==
  ASSUME request \in [Request -> RequestState],
         NEW r \in Request, NEW at \in Steps, Goto(r, at)
  PROVE  /\ request' \in [Request -> RequestState]
         /\ \A q \in Request : q # r => request'[q] = request[q]
         /\ request'[r].at = at
         /\ request'[r].op = request[r].op
         /\ request'[r].session = request[r].session
         /\ request'[r].grant = request[r].grant
         /\ request'[r].child = request[r].child
         /\ request'[r].todo = request[r].todo
BY DEF Goto, RequestState, Steps

(* Performing a revocation write only removes it from what is left to do. *)
LEMMA DoneEffect ==
  ASSUME request \in [Request -> RequestState],
         NEW r \in Request, NEW write, Done(r, write)
  PROVE  /\ request' \in [Request -> RequestState]
         /\ \A q \in Request : q # r => request'[q] = request[q]
         /\ request'[r].at = request[r].at
         /\ request'[r].op = request[r].op
         /\ request'[r].session = request[r].session
         /\ request'[r].grant = request[r].grant
         /\ request'[r].child = request[r].child
         /\ request'[r].todo = request[r].todo \ {write}
BY DEF Done, RequestState

(* Giving a handler a new state leaves the other handlers alone. *)
LEMMA AssignEffect ==
  ASSUME request \in [Request -> RequestState], NEW r \in Request,
         NEW state \in RequestState, request' = [request EXCEPT ![r] = state]
  PROVE  /\ request' \in [Request -> RequestState]
         /\ \A q \in Request : q # r => request'[q] = request[q]
         /\ request'[r] = state
OBVIOUS

(* Revoking a session document changes its status and nothing else. *)
LEMMA RevokeSessionEffect ==
  ASSUME NEW d \in SessionDoc
  PROVE  /\ RevokeSession(d) \in SessionDoc
         /\ RevokeSession(d).status = IF d.status = "active" THEN "revoked" ELSE d.status
         /\ RevokeSession(d).access = d.access
         /\ RevokeSession(d).current = d.current
         /\ RevokeSession(d).expires = d.expires
BY DEF RevokeSession, SessionDoc

(* Revoking a token document changes its status and nothing else. *)
LEMMA RevokeTokenEffect ==
  ASSUME NEW d \in TokenDoc
  PROVE  /\ RevokeToken(d) \in TokenDoc
         /\ RevokeToken(d).status = IF d.status = "active" THEN "revoked" ELSE d.status
         /\ RevokeToken(d).session = d.session
         /\ RevokeToken(d).parent = d.parent
         /\ RevokeToken(d).replacedBy = d.replacedBy
         /\ RevokeToken(d).expires = d.expires
BY DEF RevokeToken, TokenDoc

(* The state of a handler that has begun a login or a refresh. *)
LEMMA ServingEffect ==
  ASSUME NEW op \in {"login", "refresh"},
         NEW at \in {"cleanTokens", "checkSession"},
         op = "login" <=> at = "cleanTokens",
         NEW s \in Session \cup {None}, NEW g \in Grant \cup {None}, NEW h \in Grant,
         op = "refresh" => g \in Grant
  PROVE  /\ Serving(op, at, s, g, h) \in RequestState
         /\ WellShaped(Serving(op, at, s, g, h))
BY DEF Serving, RequestState, WellShaped, Idle

(* The state of a handler that is about to revoke. *)
LEMMA RevokingEffect ==
  ASSUME NEW op \in Revocations, NEW s \in Session \cup {None},
         NEW g \in Grant \cup {None}, NEW todo \in SUBSET Writes
  PROVE  /\ Revoking(op, s, g, todo) \in RequestState
         /\ WellShaped(Revoking(op, s, g, todo))
BY DEF Revoking, RequestState, Revocations, WellShaped, Idle

(* The attach moves the session to the new token and its expiry. *)
LEMMA AttachEffect ==
  ASSUME session \in [Session -> SessionDoc], token \in [Grant -> TokenDoc],
         NEW s, NEW g \in Grant, AttachToken(s, g)
  PROVE  /\ session' \in [Session -> SessionDoc]
         /\ \A x \in Session :
              /\ session'[x].status = session[x].status
              /\ session'[x].access = session[x].access
              /\ session'[x].current = IF x = s THEN g ELSE session[x].current
              /\ session'[x].expires = IF x = s THEN token[g].expires ELSE session[x].expires
<1>0. token[g].expires \in Times
  BY DEF TokenDoc
<1>1. CASE s \in Session
  <2>1. \A x \in Session : x # s => session'[x] = session[x]
    BY DEF AttachToken
  <2>2. session'[s] = [session[s] EXCEPT !.current = g, !.expires = token[g].expires]
    BY <1>1 DEF AttachToken
  <2>3. session[s] \in SessionDoc
    BY <1>1
  <2>4. /\ session'[s] \in SessionDoc
        /\ session'[s].status = session[s].status
        /\ session'[s].access = session[s].access
        /\ session'[s].current = g
        /\ session'[s].expires = token[g].expires
    BY <1>0, <2>2, <2>3 DEF SessionDoc
  <2>5. session' \in [Session -> SessionDoc]
    BY <1>1, <2>1, <2>4 DEF AttachToken
  <2> QED BY <2>1, <2>4, <2>5
<1>2. CASE s \notin Session
  BY <1>2 DEF AttachToken
<1> QED BY <1>1, <1>2

(* The consume marks one token as rotated and keeps the rest of it. *)
LEMMA RotateEffect ==
  ASSUME token \in [Grant -> TokenDoc], NEW g \in Grant,
         token' = [token EXCEPT ![g].status = "rotated"]
  PROVE  /\ token' \in [Grant -> TokenDoc]
         /\ \A h \in Grant :
              /\ token'[h].status = IF h = g THEN "rotated" ELSE token[h].status
              /\ token'[h].session = token[h].session
              /\ token'[h].parent = token[h].parent
              /\ token'[h].replacedBy = token[h].replacedBy
              /\ token'[h].expires = token[h].expires
BY DEF TokenDoc

(* The forward link is the only field the link write sets. *)
LEMMA LinkEffect ==
  ASSUME token \in [Grant -> TokenDoc], NEW g \in Grant, NEW h \in Grant,
         token' = [token EXCEPT ![g].replacedBy = h]
  PROVE  /\ token' \in [Grant -> TokenDoc]
         /\ \A x \in Grant :
              /\ token'[x].status = token[x].status
              /\ token'[x].session = token[x].session
              /\ token'[x].parent = token[x].parent
              /\ token'[x].replacedBy = IF x = g THEN h ELSE token[x].replacedBy
              /\ token'[x].expires = token[x].expires
BY DEF TokenDoc

(* The access-token write changes the accepted grant of an active session. *)
LEMMA UpdateAccessEffect ==
  ASSUME session \in [Session -> SessionDoc], NEW s, NEW g \in Grant,
         session' = [session EXCEPT ![s].access =
                       IF session[s].status = "active" THEN g ELSE @]
  PROVE  /\ session' \in [Session -> SessionDoc]
         /\ \A x \in Session :
              /\ session'[x].status = session[x].status
              /\ session'[x].access = IF x = s /\ session[x].status = "active"
                                      THEN g ELSE session[x].access
              /\ session'[x].current = session[x].current
              /\ session'[x].expires = session[x].expires
BY DEF SessionDoc

(* The unconditional deactivation. *)
LEMMA DeactivateEffect ==
  ASSUME session \in [Session -> SessionDoc], NEW s,
         session' = [session EXCEPT ![s].status = "revoked"]
  PROVE  /\ session' \in [Session -> SessionDoc]
         /\ \A x \in Session :
              /\ session'[x].status = IF x = s THEN "revoked" ELSE session[x].status
              /\ session'[x].access = session[x].access
              /\ session'[x].current = session[x].current
              /\ session'[x].expires = session[x].expires
BY DEF SessionDoc
-----------------------------------------------------------------------------
(* Type correctness.  TypeOK alone is not inductive: the attach copies the *)
(* expiry of the child's document, so the child must be a grant.           *)

TypeInv == TypeOK /\ RequestShape

(* What TypeInv says of each document and handler, spelled out for use. *)
LEMMA Unpacked ==
  ASSUME TypeInv
  PROVE  /\ session \in [Session -> SessionDoc]
         /\ token \in [Grant -> TokenDoc]
         /\ request \in [Request -> RequestState]
         /\ \A g \in Grant : /\ token[g] \in TokenDoc
                             /\ token[g].session \in Session \cup {None}
         /\ \A s \in Session : session[s] \in SessionDoc
         /\ \A r \in Request :
              /\ request[r] \in RequestState
              /\ request[r].session \in Session \cup {None}
              /\ request[r].grant \in Grant \cup {None}
              /\ request[r].child \in Grant \cup {None}
              /\ WellShaped(request[r])
         /\ issued \in SUBSET Grant
         /\ now \in 0 .. MaxTime
         /\ ended \in SUBSET ((Session \cup {None}) \X Endings)
         /\ now + RefreshTtl \in Times
<1>1. /\ session \in [Session -> SessionDoc]
      /\ token \in [Grant -> TokenDoc]
      /\ request \in [Request -> RequestState]
      /\ issued \in SUBSET Grant
      /\ now \in 0 .. MaxTime
      /\ ended \in SUBSET ((Session \cup {None}) \X Endings)
  BY DEF TypeInv, TypeOK
<1>2. \A g \in Grant : token[g] \in TokenDoc /\ token[g].session \in Session \cup {None}
  BY <1>1 DEF TokenDoc
<1>3. \A r \in Request : /\ request[r] \in RequestState
                         /\ request[r].session \in Session \cup {None}
                         /\ request[r].grant \in Grant \cup {None}
                         /\ request[r].child \in Grant \cup {None}
  BY <1>1 DEF RequestState
<1>4. \A r \in Request : WellShaped(request[r])
  BY DEF TypeInv, RequestShape
<1> QED BY <1>1, <1>2, <1>3, <1>4, DeadlineIsTime

(* A handler that takes a new well-shaped state. *)
LEMMA AssignType ==
  ASSUME TypeInv, NEW r \in Request, NEW state \in RequestState,
         WellShaped(state), request' = [request EXCEPT ![r] = state]
  PROVE  request' \in [Request -> RequestState] /\ RequestShape'
<1>1. \A q \in Request : WellShaped(request[q])
  BY Unpacked
<1>2. /\ request' \in [Request -> RequestState]
      /\ \A q \in Request : q # r => request'[q] = request[q]
      /\ request'[r] = state
  BY Unpacked, AssignEffect
<1>3. \A q \in Request : WellShaped(request'[q])
  BY <1>1, <1>2
<1> QED BY <1>2, <1>3 DEF RequestShape

(* A handler that moves to a step of the operation it performs. *)
LEMMA GotoType ==
  ASSUME TypeInv, NEW r \in Request, NEW at \in Steps \ {"idle", "revoke"}, Goto(r, at),
         at \in {"cleanTokens", "createSession", "createToken"} => request[r].op = "login",
         at \in {"checkSession", "consume", "createChild", "link", "updateAccess"}
           => request[r].op = "refresh",
         at = "attach" => request[r].op \in {"login", "refresh"}
  PROVE  request' \in [Request -> RequestState] /\ RequestShape'
<1>1. \A q \in Request : WellShaped(request[q])
  BY Unpacked
<1>2. /\ request' \in [Request -> RequestState]
      /\ \A q \in Request : q # r => request'[q] = request[q]
      /\ request'[r].at = at
      /\ request'[r].op = request[r].op
      /\ request'[r].grant = request[r].grant
      /\ request'[r].child = request[r].child
  BY Unpacked, GotoEffect
<1>3. WellShaped(request'[r])
  BY <1>1, <1>2 DEF WellShaped, Steps
<1>4. \A q \in Request : WellShaped(request'[q])
  BY <1>1, <1>2, <1>3
<1> QED BY <1>2, <1>4 DEF RequestShape

(* A handler that has performed one of its revocation writes. *)
LEMMA DoneType ==
  ASSUME TypeInv, NEW r \in Request, NEW write, Pending(r, write), Done(r, write)
  PROVE  request' \in [Request -> RequestState] /\ RequestShape'
<1>1. \A q \in Request : WellShaped(request[q])
  BY Unpacked
<1>2. /\ request' \in [Request -> RequestState]
      /\ \A q \in Request : q # r => request'[q] = request[q]
      /\ request'[r].at = request[r].at
      /\ request'[r].op = request[r].op
      /\ request'[r].grant = request[r].grant
      /\ request'[r].child = request[r].child
  BY Unpacked, DoneEffect
<1>3. WellShaped(request'[r])
  BY <1>1, <1>2 DEF WellShaped, Pending
<1>4. \A q \in Request : WellShaped(request'[q])
  BY <1>1, <1>2, <1>3
<1> QED BY <1>2, <1>4 DEF RequestShape

(* An idle handler slot is a well-shaped one. *)
LEMMA IdleType == Idle \in RequestState /\ WellShaped(Idle)
BY DEF Idle, RequestState, WellShaped

(* The empty collections and idle handlers of Init have their types. *)
LEMMA InitType == Init => TypeInv
<1> SUFFICES ASSUME Init PROVE TypeInv
  OBVIOUS
<1>1. session \in [Session -> SessionDoc]
  <2>1. 0 \in Times
    BY TimeAssumption DEF Times
  <2> QED BY <2>1 DEF Init, NoSession, SessionDoc
<1>2. token \in [Grant -> TokenDoc]
  <2>1. 0 \in Times
    BY TimeAssumption DEF Times
  <2> QED BY <2>1 DEF Init, NoToken, TokenDoc
<1>3. request \in [Request -> RequestState] /\ RequestShape
  BY IdleType DEF Init, RequestShape
<1>4. issued \in SUBSET Grant /\ ended \in SUBSET ((Session \cup {None}) \X Endings)
  BY DEF Init
<1>5. now \in 0 .. MaxTime
  BY TimeAssumption DEF Init
<1> QED BY <1>1, <1>2, <1>3, <1>4, <1>5 DEF TypeInv, TypeOK

(* A request arrives: only handler slots change, except for the sweep. *)
LEMMA ArriveType ==
  ASSUME TypeInv, NEW r \in Request, Arrive(r)
  PROVE  TypeInv'
<1>1. ASSUME NEW s \in Session, NEW g \in Grant, LoginSweepSessions(r, s, g)
      PROVE  TypeInv'
  <2>1. session' \in [Session -> SessionDoc]
    BY <1>1, Unpacked, RevokeSessionEffect DEF LoginSweepSessions
  <2>2. request' \in [Request -> RequestState] /\ RequestShape'
    BY <1>1, ServingEffect, AssignType DEF LoginSweepSessions
  <2> QED BY <1>1, <2>1, <2>2, Unpacked DEF LoginSweepSessions, TypeInv, TypeOK
<1>2. ASSUME NEW s \in Session, NEW g \in Grant, LogoutBySession(r, s, g)
      PROVE  TypeInv'
  <2>1. request' \in [Request -> RequestState] /\ RequestShape'
    BY <1>2, Unpacked, RevokingEffect, AssignType
    DEF LogoutBySession, Revocations, Writes, RevokeFamily, Accepts
  <2> QED BY <1>2, <2>1, Unpacked DEF LogoutBySession, TypeInv, TypeOK
<1>3. ASSUME NEW s \in Session, NEW g \in Grant, LogoutAll(r, s, g)
      PROVE  TypeInv'
  <2>1. request' \in [Request -> RequestState] /\ RequestShape'
    BY <1>3, Unpacked, RevokingEffect, AssignType
    DEF LogoutAll, Revocations, Writes, RevokeFamily, Accepts
  <2> QED BY <1>3, <2>1, Unpacked DEF LogoutAll, TypeInv, TypeOK
<1>4. ASSUME NEW s \in Session, NEW g \in Grant, RejectAccess(r, s, g)
      PROVE  TypeInv'
  <2>1. PICK write \in {"deactivate", "direct"} :
          request' = [request EXCEPT ![r] = Revoking("reject", s, g, {write})]
    BY <1>4 DEF RejectAccess
  <2>2. request' \in [Request -> RequestState] /\ RequestShape'
    BY <2>1, RevokingEffect, AssignType DEF Revocations, Writes
  <2> QED BY <1>4, <2>2, Unpacked DEF RejectAccess, TypeInv, TypeOK
<1>5. ASSUME NEW g \in Grant, LogoutByCookie(r, g)
      PROVE  TypeInv'
  <2>1. request' \in [Request -> RequestState] /\ RequestShape'
    BY <1>5, Unpacked, RevokingEffect, AssignType
    DEF LogoutByCookie, Revocations, Writes, RevokeFamily, Accepts
  <2> QED BY <1>5, <2>1, Unpacked DEF LogoutByCookie, TypeInv, TypeOK
<1>6. ASSUME NEW s \in Session, RefreshUnknownToken(r, s)
      PROVE  TypeInv'
  <2>1. request' \in [Request -> RequestState] /\ RequestShape'
    BY <1>6, Unpacked, RevokingEffect, AssignType
    DEF RefreshUnknownToken, Revocations, Writes, RevokeFamily, Accepts
  <2> QED BY <1>6, <2>1, Unpacked DEF RefreshUnknownToken, TypeInv, TypeOK
<1>7. ASSUME NEW g \in Grant, RefreshFindToken(r, g)
      PROVE  TypeInv'
  <2>1. request' \in [Request -> RequestState] /\ RequestShape'
    <3>1. CASE token[g].status # "active"
      BY <1>7, <3>1, Unpacked, RevokingEffect, AssignType
      DEF RefreshFindToken, Revocations, Writes, RevokeFamily
    <3>2. CASE token[g].status = "active" /\ Expired(token[g])
      BY <1>7, <3>2, Unpacked, RevokingEffect, AssignType
      DEF RefreshFindToken, Revocations, Writes, RevokeFamily
    <3>3. CASE token[g].status = "active" /\ ~Expired(token[g])
      BY <1>7, <3>3, Unpacked, ServingEffect, AssignType DEF RefreshFindToken
    <3> QED BY <3>1, <3>2, <3>3
  <2> QED BY <1>7, <2>1, Unpacked DEF RefreshFindToken, TypeInv, TypeOK
<1> QED BY <1>1, <1>2, <1>3, <1>4, <1>5, <1>6, <1>7 DEF Arrive

(* A handler takes its next step. *)
LEMMA ContinueType ==
  ASSUME TypeInv, NEW r \in Request, Continue(r)
  PROVE  TypeInv'
<1>1. ASSUME LoginSweepTokens(r)
      PROVE  TypeInv'
  <2>1. token' \in [Grant -> TokenDoc]
    BY <1>1, Unpacked, RevokeTokenEffect DEF LoginSweepTokens
  <2>2. request' \in [Request -> RequestState] /\ RequestShape'
    BY <1>1, Unpacked, GotoType DEF LoginSweepTokens, WellShaped, Steps
  <2> QED BY <1>1, <2>1, <2>2, Unpacked DEF LoginSweepTokens, TypeInv, TypeOK
<1>2. ASSUME LoginCreateSession(r)
      PROVE  TypeInv'
  <2>1. session' \in [Session -> SessionDoc]
    BY <1>2, Unpacked DEF LoginCreateSession, SessionDoc
  <2>2. request' \in [Request -> RequestState] /\ RequestShape'
    BY <1>2, Unpacked, GotoType DEF LoginCreateSession, WellShaped, Steps
  <2> QED BY <1>2, <2>1, <2>2, Unpacked DEF LoginCreateSession, TypeInv, TypeOK
<1>3. ASSUME LoginCreateToken(r)
      PROVE  TypeInv'
  <2>1. token' \in [Grant -> TokenDoc]
    BY <1>3, Unpacked DEF LoginCreateToken, NewToken, TokenDoc
  <2>2. request' \in [Request -> RequestState] /\ RequestShape'
    BY <1>3, Unpacked, GotoType DEF LoginCreateToken, WellShaped, Steps
  <2> QED BY <1>3, <2>1, <2>2, Unpacked DEF LoginCreateToken, TypeInv, TypeOK
<1>4. ASSUME LoginAttachAndAnswer(r)
      PROVE  TypeInv'
  <2>1. session' \in [Session -> SessionDoc]
    BY <1>4, Unpacked, AttachEffect DEF LoginAttachAndAnswer, WellShaped
  <2>2. request' \in [Request -> RequestState] /\ RequestShape'
    BY <1>4, Unpacked, IdleType, AssignType DEF LoginAttachAndAnswer, WellShaped
  <2>3. issued' \in SUBSET Grant
    BY <1>4, Unpacked DEF LoginAttachAndAnswer, WellShaped
  <2> QED BY <1>4, <2>1, <2>2, <2>3, Unpacked DEF LoginAttachAndAnswer, TypeInv, TypeOK
<1>5. ASSUME NEW bound \in BOOLEAN, RefreshCheckSession(r, bound)
      PROVE  TypeInv'
  <2>1. request' \in [Request -> RequestState] /\ RequestShape'
    <3>1. ASSUME NEW op \in {"replay", "expiry"},
                 request' = [request EXCEPT ![r] =
                   Revoking(op, request[r].session, request[r].grant, RevokeFamily)]
          PROVE  request' \in [Request -> RequestState] /\ RequestShape'
      BY <3>1, Unpacked, RevokingEffect, AssignType DEF Revocations, Writes, RevokeFamily
    <3>2. ASSUME Goto(r, "consume")
          PROVE  request' \in [Request -> RequestState] /\ RequestShape'
      BY <1>5, <3>2, Unpacked, GotoType DEF RefreshCheckSession, WellShaped, Steps
    <3> QED BY <1>5, <3>1, <3>2 DEF RefreshCheckSession
  <2> QED BY <1>5, <2>1, Unpacked DEF RefreshCheckSession, TypeInv, TypeOK
<1>6. ASSUME RefreshConsume(r)
      PROVE  TypeInv'
  <2>1. request[r].op = "refresh" /\ request[r].grant \in Grant
    BY <1>6, Unpacked DEF RefreshConsume, WellShaped
  <2>2. token' \in [Grant -> TokenDoc]
    BY <1>6, <2>1, Unpacked, RotateEffect DEF RefreshConsume
  <2>3. request' \in [Request -> RequestState] /\ RequestShape'
    <3>1. CASE token[request[r].grant].status = "active"
      BY <1>6, <2>1, <3>1, Unpacked, GotoType DEF RefreshConsume, Steps
    <3>2. CASE token[request[r].grant].status # "active"
      BY <1>6, <3>2, Unpacked, RevokingEffect, AssignType
      DEF RefreshConsume, Revocations, Writes, RevokeFamily
    <3> QED BY <3>1, <3>2
  <2> QED BY <1>6, <2>2, <2>3, Unpacked DEF RefreshConsume, TypeInv, TypeOK
<1>7. ASSUME RefreshCreateChild(r)
      PROVE  TypeInv'
  <2>1. token' \in [Grant -> TokenDoc]
    BY <1>7, Unpacked DEF RefreshCreateChild, NewToken, TokenDoc
  <2>2. request' \in [Request -> RequestState] /\ RequestShape'
    BY <1>7, Unpacked, GotoType DEF RefreshCreateChild, WellShaped, Steps
  <2> QED BY <1>7, <2>1, <2>2, Unpacked DEF RefreshCreateChild, TypeInv, TypeOK
<1>8. ASSUME RefreshAttachChild(r)
      PROVE  TypeInv'
  <2>1. session' \in [Session -> SessionDoc]
    BY <1>8, Unpacked, AttachEffect DEF RefreshAttachChild, WellShaped
  <2>2. request' \in [Request -> RequestState] /\ RequestShape'
    BY <1>8, Unpacked, GotoType DEF RefreshAttachChild, WellShaped, Steps
  <2> QED BY <1>8, <2>1, <2>2, Unpacked DEF RefreshAttachChild, TypeInv, TypeOK
<1>9. ASSUME RefreshLinkParent(r)
      PROVE  TypeInv'
  <2>1. token' \in [Grant -> TokenDoc]
    BY <1>9, Unpacked, LinkEffect DEF RefreshLinkParent, WellShaped
  <2>2. request' \in [Request -> RequestState] /\ RequestShape'
    BY <1>9, Unpacked, GotoType DEF RefreshLinkParent, WellShaped, Steps
  <2> QED BY <1>9, <2>1, <2>2, Unpacked DEF RefreshLinkParent, TypeInv, TypeOK
<1>10. ASSUME RefreshUpdateAccessAndAnswer(r)
      PROVE  TypeInv'
  <2>1. session' \in [Session -> SessionDoc]
    BY <1>10, Unpacked, UpdateAccessEffect DEF RefreshUpdateAccessAndAnswer, WellShaped
  <2>2. request' \in [Request -> RequestState] /\ RequestShape'
    BY <1>10, Unpacked, IdleType, AssignType DEF RefreshUpdateAccessAndAnswer, WellShaped
  <2>3. issued' \in SUBSET Grant
    BY <1>10, Unpacked DEF RefreshUpdateAccessAndAnswer, WellShaped
  <2> QED BY <1>10, <2>1, <2>2, <2>3, Unpacked DEF RefreshUpdateAccessAndAnswer, TypeInv, TypeOK
<1>11. ASSUME WriteTokens(r)
      PROVE  TypeInv'
  <2>1. token' \in [Grant -> TokenDoc]
    BY <1>11, Unpacked, RevokeTokenEffect DEF WriteTokens
  <2>2. request' \in [Request -> RequestState] /\ RequestShape'
    BY <1>11, Unpacked, DoneType DEF WriteTokens
  <2> QED BY <1>11, <2>1, <2>2, Unpacked DEF WriteTokens, TypeInv, TypeOK
<1>12. ASSUME WriteFamilySession(r)
      PROVE  TypeInv'
  <2>1. session' \in [Session -> SessionDoc]
    BY <1>12, Unpacked, RevokeSessionEffect DEF WriteFamilySession
  <2>2. request' \in [Request -> RequestState] /\ RequestShape'
    BY <1>12, Unpacked, DoneType DEF WriteFamilySession
  <2> QED BY <1>12, <2>1, <2>2, Unpacked DEF WriteFamilySession, TypeInv, TypeOK
<1>13. ASSUME WriteDirect(r)
      PROVE  TypeInv'
  <2>1. session' \in [Session -> SessionDoc]
    BY <1>13, Unpacked, RevokeSessionEffect DEF WriteDirect
  <2>2. request' \in [Request -> RequestState] /\ RequestShape'
    BY <1>13, Unpacked, DoneType DEF WriteDirect
  <2> QED BY <1>13, <2>1, <2>2, Unpacked DEF WriteDirect, TypeInv, TypeOK
<1>14. ASSUME WriteDeactivate(r)
      PROVE  TypeInv'
  <2>1. session' \in [Session -> SessionDoc]
    BY <1>14, Unpacked, DeactivateEffect DEF WriteDeactivate
  <2>2. request' \in [Request -> RequestState] /\ RequestShape'
    BY <1>14, Unpacked, DoneType DEF WriteDeactivate
  <2> QED BY <1>14, <2>1, <2>2, Unpacked DEF WriteDeactivate, TypeInv, TypeOK
<1>15. ASSUME WriteOtherSessions(r)
      PROVE  TypeInv'
  <2>1. session' \in [Session -> SessionDoc]
    BY <1>15, Unpacked, RevokeSessionEffect DEF WriteOtherSessions
  <2>2. request' \in [Request -> RequestState] /\ RequestShape'
    BY <1>15, Unpacked, DoneType DEF WriteOtherSessions
  <2>3. ended' \in SUBSET ((Session \cup {None}) \X Endings)
    BY <1>15, Unpacked DEF WriteOtherSessions, OtherActive, Endings
  <2> QED BY <1>15, <2>1, <2>2, <2>3, Unpacked DEF WriteOtherSessions, TypeInv, TypeOK
<1>16. ASSUME WriteOtherTokens(r)
      PROVE  TypeInv'
  <2>1. token' \in [Grant -> TokenDoc]
    BY <1>16, Unpacked, RevokeTokenEffect DEF WriteOtherTokens
  <2>2. request' \in [Request -> RequestState] /\ RequestShape'
    BY <1>16, Unpacked, DoneType DEF WriteOtherTokens
  <2> QED BY <1>16, <2>1, <2>2, Unpacked DEF WriteOtherTokens, TypeInv, TypeOK
<1>17. ASSUME AnswerRevocation(r)
      PROVE  TypeInv'
  <2>1. request' \in [Request -> RequestState] /\ RequestShape'
    BY <1>17, IdleType, AssignType DEF AnswerRevocation
  <2>2. ended' \in SUBSET ((Session \cup {None}) \X Endings)
    <3>1. CASE request[r].op \in {"logout", "replay"}
      <4>1. <<request[r].session, request[r].op>>
              \in (Session \cup {None}) \X Endings
        BY <3>1, Unpacked DEF Endings
      <4>2. ended' = ended \cup {<<request[r].session, request[r].op>>}
        BY <1>17, <3>1 DEF AnswerRevocation
      <4> QED BY <4>1, <4>2, Unpacked
    <3>2. CASE request[r].op \notin {"logout", "replay"}
      BY <1>17, <3>2, Unpacked DEF AnswerRevocation
    <3> QED BY <3>1, <3>2
  <2> QED BY <1>17, <2>1, <2>2, Unpacked DEF AnswerRevocation, TypeInv, TypeOK
<1>18. ASSUME LoginBlocked(r)
      PROVE  TypeInv'
  <2>1. request' \in [Request -> RequestState] /\ RequestShape'
    BY <1>18, Unpacked, IdleType, AssignType DEF LoginBlocked
  <2> QED BY <1>18, <2>1, Unpacked DEF LoginBlocked, TypeInv, TypeOK
<1> QED
  BY <1>1, <1>2, <1>3, <1>4, <1>5, <1>6, <1>7, <1>8, <1>9, <1>10, <1>11, <1>12,
     <1>13, <1>14, <1>15, <1>16, <1>17, <1>18
  DEF Continue

(* Every step, of a handler, the clock or a crash, keeps TypeInv. *)
LEMMA StepType == TypeInv /\ [Next]_vars => TypeInv'
<1> SUFFICES ASSUME TypeInv, [Next]_vars PROVE TypeInv'
  OBVIOUS
<1>1. ASSUME NEW r \in Request, Arrive(r) \/ Continue(r) PROVE TypeInv'
  BY <1>1, ArriveType, ContinueType
<1>2. CASE Tick
  <2>1. now' \in 0 .. MaxTime
    BY <1>2, Unpacked, TimeAssumption DEF Tick
  <2> QED BY <1>2, <2>1 DEF Tick, TypeInv, TypeOK, RequestShape
<1>3. CASE Crash
  <2>1. request' \in [Request -> RequestState] /\ RequestShape'
    BY <1>3, IdleType DEF Crash, RequestShape
  <2> QED BY <1>3, <2>1 DEF Crash, TypeInv, TypeOK
<1>4. CASE UNCHANGED vars
  BY <1>4 DEF vars, TypeInv, TypeOK, RequestShape
<1> QED BY <1>1, <1>2, <1>3, <1>4 DEF Next

(* TypeInv holds of every reachable state. *)
LEMMA TypeInvariance == Spec => []TypeInv
BY InitType, StepType, PTL DEF Spec

(* Type correctness: every document and every handler snapshot keeps its   *)
(* shape in every interleaving, for any number of sessions, grants,        *)
(* handlers and any clock bound.                                           *)
THEOREM TypeCorrect == Spec => []TypeOK
<1>1. TypeInv => TypeOK
  BY DEF TypeInv
<1> QED BY <1>1, TypeInvariance, PTL

-----------------------------------------------------------------------------
(***************************************************************************)
(* OWNERSHIP                                                               *)
(*                                                                         *)
(* Each step is first described field by field; the steps that have the    *)
(* same effect on the invariant share a lemma.                             *)
(***************************************************************************)

OwnInv == TypeInv /\ Ownership

(* Every handler but r is as it was. *)
Others(r) == \A q \in Request : q # r => request'[q] = request[q]

(* What the invariant says of one handler, and of one document. *)
LEMMA Owned ==
  ASSUME OwnInv
  PROVE  /\ \A r \in Request : request[r].op # "none" => request[r].session \in Session
         /\ \A r \in Request : LoginOwns(r) /\ RefreshOwns(r) /\ Closes(r) /\ WellShaped(request[r])
         /\ \A g \in issued : /\ g \in Grant /\ token[g].status # "absent"
                              /\ token[g].session \in Session
                              /\ session[token[g].session].status # "absent"
                              /\ session[token[g].session].current # None
<1>1. \A g \in issued : g \in Grant
  BY Unpacked DEF OwnInv
<1>2. \A r \in Request : WellShaped(request[r])
  BY Unpacked DEF OwnInv
<1> QED BY <1>1, <1>2
  DEF OwnInv, Ownership, RequestSession, LoginOwnsSession, RefreshOwnsChild, RevocationCloses,
      Documents, IssuedExist, TokensHaveSessions

(* Until its login has answered no token is attached to a session. *)
LEMMA LoginUnattached ==
  ASSUME OwnInv, NEW r \in Request, request[r].op = "login"
  PROVE  /\ request[r].at \in {"cleanTokens", "createSession", "createToken", "attach"}
         /\ request[r].session \in Session /\ request[r].child \in Grant
         /\ session[request[r].session].current = None
<1>1. request[r].at \in {"cleanTokens", "createSession", "createToken", "attach"}
  BY Unpacked DEF OwnInv, RequestState, WellShaped, Idle
<1>2. LoginOwns(r) /\ request[r].session \in Session
  BY Owned
<1>3. session[request[r].session].current = None
  BY <1>1, <1>2 DEF LoginOwns, At, OwnInv, Ownership, Documents, AbsentSessions
<1>4. request[r].child \in Grant
  BY Owned DEF WellShaped
<1> QED BY <1>1, <1>2, <1>3, <1>4

-----------------------------------------------------------------------------
(* Steps that only change what one handler does. *)

(* A handler, idle or in a refresh, is left with revocation writes only. *)
LEMMA RevokingOwns ==
  ASSUME OwnInv, NEW r \in Request, NEW op \in Revocations, NEW s \in Session,
         NEW g \in Grant \cup {None}, NEW todo \in SUBSET Writes,
         request' = [request EXCEPT ![r] = Revoking(op, s, g, todo)],
         session[s].current # None,
         op \in {"logout", "replay"} => "family" \in todo,
         request[r].op # "login",
         UNCHANGED <<session, token, issued, ended>>
  PROVE  Ownership'
<1>1. /\ Others(r)
      /\ request'[r].op = op /\ request'[r].at = "revoke" /\ request'[r].session = s
      /\ request'[r].child = None /\ request'[r].todo = todo
  BY Unpacked DEF OwnInv, Others, Revoking
<1>2. RequestSession'
  BY <1>1, Owned DEF RequestSession, Others
<1>3. UniqueChild'
  BY <1>1 DEF OwnInv, Ownership, UniqueChild, Others
<1>4. UniqueSession'
  BY <1>1, LoginUnattached DEF OwnInv, Ownership, UniqueSession, Others, Revocations
<1>5. ChildIsFresh'
  BY <1>1 DEF OwnInv, Ownership, ChildIsFresh, ChildUnborn, At, Others
<1>6. Documents'
  BY DEF OwnInv, Ownership, Documents, TokensHaveSessions, AbsentTokens, RotatedWasIssued,
         IssuedExist, AccessBelongs, AbsentSessions
<1>7. LoginOwnsSession'
  BY <1>1 DEF OwnInv, Ownership, LoginOwnsSession, LoginOwns, At, Others, Revocations
<1>8. RefreshOwnsChild'
  BY <1>1 DEF OwnInv, Ownership, RefreshOwnsChild, RefreshOwns, At, Others, Revocations
<1>9. RevocationCloses'
  <2>1. session[s].status # "absent"
    BY DEF OwnInv, Ownership, Documents, AbsentSessions
  <2> QED BY <1>1, <2>1 DEF OwnInv, Ownership, RevocationCloses, Closes, At, Others
<1>10. EndedExist' /\ EndedIsInactive'
  BY DEF OwnInv, Ownership, EndedExist, EndedIsInactive
<1> QED BY <1>2, <1>3, <1>4, <1>5, <1>6, <1>7, <1>8, <1>9, <1>10 DEF Ownership

(* A refresh whose session was found goes on to the consume. *)
LEMMA ConsumeNextOwns ==
  ASSUME OwnInv, NEW r \in Request, request[r].at = "checkSession", Goto(r, "consume"),
         UNCHANGED <<session, token, issued, ended>>
  PROVE  Ownership'
<1>1. /\ Others(r)
      /\ request'[r].op = request[r].op /\ request'[r].at = "consume"
      /\ request'[r].session = request[r].session /\ request'[r].child = request[r].child
      /\ request'[r].grant = request[r].grant
  BY Unpacked, GotoEffect DEF OwnInv, Others, Steps
<1>2. request[r].op = "refresh"
  BY Owned DEF WellShaped
<1>3. RequestSession'
  BY <1>1 DEF OwnInv, Ownership, RequestSession, Others
<1>4. UniqueChild' /\ UniqueSession'
  BY <1>1 DEF OwnInv, Ownership, UniqueChild, UniqueSession, Others
<1>5. ChildIsFresh'
  BY <1>1 DEF OwnInv, Ownership, ChildIsFresh, ChildUnborn, At, Others
<1>6. Documents'
  BY DEF OwnInv, Ownership, Documents, TokensHaveSessions, AbsentTokens, RotatedWasIssued,
         IssuedExist, AccessBelongs, AbsentSessions
<1>7. LoginOwnsSession'
  BY <1>1, <1>2 DEF OwnInv, Ownership, LoginOwnsSession, LoginOwns, At, Others
<1>8. RefreshOwnsChild'
  BY <1>1 DEF OwnInv, Ownership, RefreshOwnsChild, RefreshOwns, At, Others
<1>9. RevocationCloses'
  BY <1>1 DEF OwnInv, Ownership, RevocationCloses, Closes, At, Others
<1>10. EndedExist' /\ EndedIsInactive'
  BY DEF OwnInv, Ownership, EndedExist, EndedIsInactive
<1> QED BY <1>3, <1>4, <1>5, <1>6, <1>7, <1>8, <1>9, <1>10 DEF Ownership

(* A handler ends; what it has answered is closed. *)
LEMMA IdleOwns ==
  ASSUME OwnInv, NEW r \in Request, request' = [request EXCEPT ![r] = Idle],
         UNCHANGED <<session, token, issued>>, EndedExist', EndedIsInactive'
  PROVE  Ownership'
<1>1. /\ Others(r)
      /\ request'[r].op = "none" /\ request'[r].at = "idle" /\ request'[r].child = None
  BY Unpacked DEF OwnInv, Others, Idle
<1>2. RequestSession'
  BY <1>1 DEF OwnInv, Ownership, RequestSession, Others
<1>3. UniqueChild'
  BY <1>1 DEF OwnInv, Ownership, UniqueChild, Others
<1>4. UniqueSession'
  <2>1. request'[r].session = None
    BY Unpacked DEF OwnInv, Idle
  <2>2. \A q \in Request : request[q].op = "login" => request[q].session # None
    BY Owned, NoneAssumption
  <2> QED BY <1>1, <2>1, <2>2 DEF OwnInv, Ownership, UniqueSession, Others
<1>5. ChildIsFresh'
  BY <1>1 DEF OwnInv, Ownership, ChildIsFresh, ChildUnborn, At, Others
<1>6. Documents'
  BY DEF OwnInv, Ownership, Documents, TokensHaveSessions, AbsentTokens, RotatedWasIssued,
         IssuedExist, AccessBelongs, AbsentSessions
<1>7. LoginOwnsSession'
  BY <1>1 DEF OwnInv, Ownership, LoginOwnsSession, LoginOwns, At, Others
<1>8. RefreshOwnsChild'
  BY <1>1 DEF OwnInv, Ownership, RefreshOwnsChild, RefreshOwns, At, Others
<1>9. RevocationCloses'
  BY <1>1 DEF OwnInv, Ownership, RevocationCloses, Closes, At, Others
<1> QED BY <1>2, <1>3, <1>4, <1>5, <1>6, <1>7, <1>8, <1>9 DEF Ownership

-----------------------------------------------------------------------------
(* Writes that only close: sessions become revoked, tokens become revoked. *)

Closing ==
  \A s \in Session :
    /\ session'[s].access = session[s].access /\ session'[s].current = session[s].current
    /\ \/ session'[s].status = session[s].status
       \/ session[s].status # "absent" /\ session'[s].status = "revoked"

Voiding ==
  \A g \in Grant :
    /\ token'[g].session = token[g].session /\ token'[g].parent = token[g].parent
    /\ token'[g].replacedBy = token[g].replacedBy
    /\ \/ token'[g].status = token[g].status
       \/ token[g].status = "active" /\ token'[g].status = "revoked"

(* What is recorded as ended is a session that is closed. *)
Recorded ==
  \A e \in ended' : e \in ended \/ (e[1] \in Session /\ session'[e[1]].status = "revoked")

(* The documents stay in order. *)
LEMMA ClosingKeeps ==
  ASSUME OwnInv, Closing, Voiding, Recorded, UNCHANGED issued
  PROVE  Documents' /\ EndedExist' /\ EndedIsInactive'
<1>1. TokensHaveSessions'
  BY DEF OwnInv, Ownership, Documents, TokensHaveSessions, Closing, Voiding
<1>2. AbsentTokens'
  BY DEF OwnInv, Ownership, Documents, AbsentTokens, Voiding
<1>3. RotatedWasIssued'
  BY DEF OwnInv, Ownership, Documents, RotatedWasIssued, Voiding
<1>4. IssuedExist'
  BY Owned DEF IssuedExist, Closing, Voiding
<1>5. AccessBelongs'
  BY Owned DEF OwnInv, Ownership, Documents, AccessBelongs, Closing, Voiding
<1>6. AbsentSessions'
  BY DEF OwnInv, Ownership, Documents, AbsentSessions, Closing
<1>7. EndedExist' /\ EndedIsInactive'
  BY DEF OwnInv, Ownership, EndedExist, EndedIsInactive, Closing, Recorded
<1> QED BY <1>1, <1>2, <1>3, <1>4, <1>5, <1>6, <1>7 DEF Documents

(* One of the pending revocation writes. *)
LEMMA WriteOwns ==
  ASSUME OwnInv, NEW r \in Request, NEW write, Pending(r, write), Done(r, write),
         Closing, Voiding, Recorded, UNCHANGED issued,
         (write = "family" /\ request[r].op \in {"logout", "replay"})
           => session'[request[r].session].status = "revoked"
  PROVE  Ownership'
<1>1. /\ Others(r)
      /\ request'[r].op = request[r].op /\ request'[r].at = "revoke"
      /\ request'[r].session = request[r].session /\ request'[r].child = request[r].child
      /\ request'[r].grant = request[r].grant
      /\ request'[r].todo = request[r].todo \ {write}
      /\ request[r].at = "revoke"
  BY Unpacked, DoneEffect DEF OwnInv, Others, Pending
<1>2. request[r].op \notin {"none", "login", "refresh"} /\ request[r].session \in Session
  BY <1>1, Owned DEF WellShaped
<1>3. RequestSession'
  BY <1>1 DEF OwnInv, Ownership, RequestSession, Others
<1>4. UniqueChild' /\ UniqueSession'
  BY <1>1 DEF OwnInv, Ownership, UniqueChild, UniqueSession, Others
<1>5. ChildIsFresh'
  BY <1>1, Unpacked DEF OwnInv, Ownership, ChildIsFresh, ChildUnborn, At, Others, Voiding
<1>6. LoginOwnsSession'
  <2> SUFFICES ASSUME NEW q \in Request PROVE LoginOwns(q)'
    BY DEF LoginOwnsSession
  <2>1. CASE q = r
    BY <1>1, <1>2, <2>1 DEF LoginOwns
  <2>2. CASE q # r
    <3>1. request'[q] = request[q] /\ LoginOwns(q)
      BY <1>1, <2>2, Owned DEF Others
    <3>2. request[q].op = "login" => request[q].session \in Session /\ request[q].child \in Grant
      BY LoginUnattached
    <3> QED BY <3>1, <3>2 DEF LoginOwns, At, Closing, Voiding
  <2> QED BY <2>1, <2>2
<1>7. RefreshOwnsChild'
  <2> SUFFICES ASSUME NEW q \in Request PROVE RefreshOwns(q)'
    BY DEF RefreshOwnsChild
  <2>1. CASE q = r
    BY <1>1, <1>2, <2>1 DEF RefreshOwns
  <2>2. CASE q # r
    <3>1. request'[q] = request[q] /\ RefreshOwns(q)
      BY <1>1, <2>2, Owned DEF Others
    <3>2. request[q].op = "refresh" => request[q].grant \in Grant /\ request[q].child \in Grant
      BY Owned DEF WellShaped
    <3> QED BY <3>1, <3>2 DEF RefreshOwns, At, Closing, Voiding
  <2> QED BY <2>1, <2>2
<1>8. RevocationCloses'
  <2> SUFFICES ASSUME NEW q \in Request PROVE Closes(q)'
    BY DEF RevocationCloses
  <2>1. Closes(q) /\ (request[q].op # "none" => request[q].session \in Session) /\ WellShaped(request[q])
    BY Owned
  <2>2. CASE q = r
    BY <1>1, <1>2, <2>1, <2>2 DEF Closes, At, Closing
  <2>3. CASE q # r
    BY <1>1, <2>1, <2>3 DEF Closes, At, Closing, Others, WellShaped
  <2> QED BY <2>2, <2>3
<1> QED BY <1>3, <1>4, <1>5, <1>6, <1>7, <1>8, ClosingKeeps DEF Ownership, Recorded

-----------------------------------------------------------------------------
(* Logins. *)

(* The other handlers do not notice a write that only closes. *)
LEMMA OthersStand ==
  ASSUME OwnInv, NEW r \in Request, Others(r), Closing, Voiding, UNCHANGED issued,
         NEW q \in Request, q # r
  PROVE  LoginOwns(q)' /\ RefreshOwns(q)' /\ Closes(q)'
<1>1. /\ request'[q] = request[q]
      /\ LoginOwns(q) /\ RefreshOwns(q) /\ Closes(q) /\ WellShaped(request[q])
      /\ request[q].op # "none" => request[q].session \in Session
  BY Owned DEF Others
<1>2. request[q].op = "login" => request[q].child \in Grant
  BY LoginUnattached
<1>3. LoginOwns(q)'
  BY <1>1, <1>2 DEF LoginOwns, At, Closing, Voiding
<1>4. RefreshOwns(q)'
  BY <1>1 DEF RefreshOwns, At, Closing, Voiding, WellShaped
<1>5. Closes(q)'
  BY <1>1 DEF Closes, At, Closing, WellShaped
<1> QED BY <1>3, <1>4, <1>5

(* The sweeps of a login close expired documents and nothing else. *)
LEMMA SweepSessionsEffect ==
  ASSUME TypeInv, NEW r \in Request, NEW s \in Session, NEW g \in Grant,
         LoginSweepSessions(r, s, g)
  PROVE  Closing /\ Voiding
<1>1. \A x \in Session : session'[x] = session[x] \/ session'[x] = RevokeSession(session[x])
  BY DEF LoginSweepSessions
<1>2. Closing
  BY <1>1, Unpacked, RevokeSessionEffect DEF Closing
<1>3. Voiding
  BY DEF LoginSweepSessions, Voiding
<1> QED BY <1>2, <1>3

(* A login begins: its session and its grant belong to nobody. *)
LEMMA LoginSweepSessionsOwns ==
  ASSUME OwnInv, NEW r \in Request, NEW s \in Session, NEW g \in Grant,
         LoginSweepSessions(r, s, g)
  PROVE  Ownership'
<1>1. /\ request[r] = Idle /\ session[s].status = "absent"
      /\ \A q \in Request : request[q].session # s
      /\ Fresh(g) /\ UNCHANGED <<token, issued, ended>>
  BY DEF LoginSweepSessions
<1>2. /\ Others(r)
      /\ request'[r].op = "login" /\ request'[r].at = "cleanTokens"
      /\ request'[r].session = s /\ request'[r].child = g
  BY Unpacked DEF OwnInv, Others, LoginSweepSessions, Serving
<1>3. Closing /\ Voiding
  BY SweepSessionsEffect DEF OwnInv
<1>4. RequestSession'
  BY <1>2, Owned DEF RequestSession, Others
<1>5. UniqueChild'
  BY <1>1, <1>2 DEF OwnInv, Ownership, UniqueChild, Others, Fresh
<1>6. UniqueSession'
  BY <1>1, <1>2 DEF OwnInv, Ownership, UniqueSession, Others
<1>7. ChildIsFresh'
  <2>1. token[g].status = "absent" /\ g \notin issued
    BY <1>1, Owned DEF Fresh
  <2> QED BY <1>1, <1>2, <2>1 DEF OwnInv, Ownership, ChildIsFresh, ChildUnborn, At, Others
<1>8. LoginOwns(r)'
  <2>1. session'[s].status = "absent"
    BY <1>1, <1>3 DEF Closing
  <2>2. \A x \in Session : session'[x].access # g
    BY <1>1, <1>3 DEF Closing, Fresh
  <2>3. \A x \in Grant : token[x].session # s
    BY <1>1, NoneAssumption DEF OwnInv, Ownership, Documents, TokensHaveSessions, AbsentTokens
  <2> QED BY <1>1, <1>2, <2>1, <2>2, <2>3 DEF LoginOwns, At
<1>9. RefreshOwns(r)' /\ Closes(r)'
  BY <1>2 DEF RefreshOwns, Closes, At
<1>10. LoginOwnsSession' /\ RefreshOwnsChild' /\ RevocationCloses'
  BY <1>1, <1>2, <1>3, <1>8, <1>9, OthersStand DEF LoginOwnsSession, RefreshOwnsChild, RevocationCloses
<1> QED BY <1>1, <1>3, <1>4, <1>5, <1>6, <1>7, <1>10, ClosingKeeps DEF Ownership, Recorded

LEMMA LoginSweepTokensOwns ==
  ASSUME OwnInv, NEW r \in Request, LoginSweepTokens(r)
  PROVE  Ownership'
<1>1. /\ request[r].at = "cleanTokens" /\ request[r].op = "login"
      /\ UNCHANGED <<session, issued, ended>>
  BY Owned DEF LoginSweepTokens, WellShaped
<1>2. /\ Others(r)
      /\ request'[r].op = request[r].op /\ request'[r].at = "createSession"
      /\ request'[r].session = request[r].session /\ request'[r].child = request[r].child
  BY Unpacked, GotoEffect DEF OwnInv, Others, Steps, LoginSweepTokens
<1>3. Closing /\ Voiding
  <2>1. \A g \in Grant : token'[g] = token[g] \/ token'[g] = RevokeToken(token[g])
    BY DEF LoginSweepTokens
  <2>2. Voiding
    BY <2>1, Unpacked, RevokeTokenEffect DEF OwnInv, Voiding
  <2> QED BY <1>1, <2>2 DEF Closing
<1>4. RequestSession' /\ UniqueChild' /\ UniqueSession'
  BY <1>2 DEF OwnInv, Ownership, RequestSession, UniqueChild, UniqueSession, Others
<1>5. ChildIsFresh'
  BY <1>1, <1>2, <1>3, Unpacked
  DEF OwnInv, Ownership, ChildIsFresh, ChildUnborn, At, Others, Voiding
<1>6. LoginOwns(r)'
  <2>1. LoginOwns(r)
    BY Owned
  <2> QED BY <1>1, <1>2, <1>3, <2>1 DEF LoginOwns, At, Voiding
<1>7. RefreshOwns(r)' /\ Closes(r)'
  BY <1>1, <1>2 DEF RefreshOwns, Closes, At
<1>8. LoginOwnsSession' /\ RefreshOwnsChild' /\ RevocationCloses'
  BY <1>1, <1>2, <1>3, <1>6, <1>7, OthersStand DEF LoginOwnsSession, RefreshOwnsChild, RevocationCloses
<1> QED BY <1>1, <1>3, <1>4, <1>5, <1>8, ClosingKeeps DEF Ownership, Recorded

(* A handler that moves on keeps its ids; one that ends gives them up. *)
Moves(r, at) ==
  /\ Others(r)
  /\ request'[r].at = at /\ request'[r].op = request[r].op
  /\ request'[r].session = request[r].session /\ request'[r].child = request[r].child
  /\ request'[r].grant = request[r].grant

Ends(r) == Others(r) /\ request'[r] = Idle

LEMMA IdsStay ==
  ASSUME OwnInv, NEW r \in Request, NEW at, Moves(r, at) \/ Ends(r)
  PROVE  RequestSession' /\ UniqueChild' /\ UniqueSession'
<1>1. CASE Moves(r, at)
  BY <1>1 DEF OwnInv, Ownership, RequestSession, UniqueChild, UniqueSession, Others, Moves
<1>2. CASE Ends(r)
  <2>1. /\ request'[r].op = "none" /\ request'[r].session = None /\ request'[r].child = None
    BY <1>2 DEF Ends, Idle
  <2>2. \A q \in Request : request[q].op = "login" => request[q].session # None
    BY Owned, NoneAssumption
  <2> QED BY <1>2, <2>1, <2>2
    DEF OwnInv, Ownership, RequestSession, UniqueChild, UniqueSession, Others, Ends
<1> QED BY <1>1, <1>2

(* No handler works on a session a login is about to open, none but a      *)
(* login on one that has no token yet, and no two handlers on one child.   *)
LEMMA Apart ==
  ASSUME OwnInv, NEW r \in Request, NEW q \in Request, q # r
  PROVE  /\ request[r].op = "login" => request[q].session # request[r].session
         /\ request[r].child # None => request[q].child # request[r].child
BY DEF OwnInv, Ownership, UniqueSession, UniqueChild

LEMMA LoginCreateSessionOwns ==
  ASSUME OwnInv, NEW r \in Request, LoginCreateSession(r)
  PROVE  Ownership'
<1> DEFINE s == request[r].session
           h == request[r].child
<1>1. /\ request[r].at = "createSession" /\ request[r].op = "login"
      /\ UNCHANGED <<token, issued, ended>>
  BY Owned DEF LoginCreateSession, WellShaped
<1>2. /\ s \in Session /\ h \in Grant /\ session[s].status = "absent"
      /\ \A x \in Session : session[x].access # h
      /\ \A g \in Grant : token[g].session # s
  <2>1. LoginOwns(r)
    BY Owned
  <2> QED BY <1>1, <2>1, LoginUnattached DEF LoginOwns, At
<1>3. Moves(r, "createToken")
  BY Unpacked, GotoEffect DEF OwnInv, Others, Steps, LoginCreateSession, Moves
<1>4. /\ session'[s].status = "active" /\ session'[s].access = h /\ session'[s].current = None
      /\ \A x \in Session : x # s => session'[x] = session[x]
  BY <1>2, Unpacked DEF LoginCreateSession, OwnInv
<1>5. h \notin issued /\ h # None
  BY <1>2, NoneAssumption DEF OwnInv, Ownership, ChildIsFresh
<1> HIDE DEF s, h
<1>6. ChildIsFresh'
  BY <1>1, <1>3 DEF OwnInv, Ownership, ChildIsFresh, ChildUnborn, At, Moves, Others
<1>7. Documents'
  <2>1. TokensHaveSessions' /\ AbsentTokens' /\ RotatedWasIssued'
    BY <1>1, <1>2, <1>4 DEF OwnInv, Ownership, Documents, TokensHaveSessions, AbsentTokens, RotatedWasIssued
  <2>2. IssuedExist'
    BY <1>1, <1>2, <1>4, Owned DEF IssuedExist
  <2>3. AccessBelongs'
    BY <1>1, <1>4, <1>5 DEF OwnInv, Ownership, Documents, AccessBelongs
  <2>4. AbsentSessions'
    BY <1>4 DEF OwnInv, Ownership, Documents, AbsentSessions
  <2> QED BY <2>1, <2>2, <2>3, <2>4 DEF Documents
<1>8. LoginOwns(r)' /\ RefreshOwns(r)' /\ Closes(r)'
  BY <1>1, <1>2, <1>3, <1>4 DEF LoginOwns, RefreshOwns, Closes, At, Moves, s, h
<1>9. ASSUME NEW q \in Request, q # r PROVE LoginOwns(q)' /\ RefreshOwns(q)' /\ Closes(q)'
  <2>1. /\ request'[q] = request[q]
        /\ LoginOwns(q) /\ RefreshOwns(q) /\ Closes(q)
        /\ request[q].session # s /\ request[q].child # h
        /\ request[q].op # "none" => request[q].session \in Session
        /\ request[q].op \in {"login", "refresh"} => request[q].child \in Grant
    BY <1>1, <1>3, <1>5, <1>9, Apart, Owned DEF Moves, Others, s, h, WellShaped
  <2>2. LoginOwns(q)'
    BY <1>1, <1>4, <2>1 DEF LoginOwns, At
  <2>3. RefreshOwns(q)'
    BY <1>1, <1>4, <2>1 DEF RefreshOwns, At
  <2>4. Closes(q)'
    <3>1. request[q].at = "revoke" => request[q].op # "none"
      BY Owned DEF WellShaped
    <3> QED BY <1>4, <2>1, <3>1 DEF Closes, At
  <2> QED BY <2>2, <2>3, <2>4
<1>10. EndedExist' /\ EndedIsInactive'
  BY <1>1, <1>2, <1>4 DEF OwnInv, Ownership, EndedExist, EndedIsInactive
<1> QED BY <1>3, <1>6, <1>7, <1>8, <1>9, <1>10, IdsStay
  DEF Ownership, LoginOwnsSession, RefreshOwnsChild, RevocationCloses

(* What the other handlers are to one that mints a child. *)
LEMMA Bystander ==
  ASSUME OwnInv, NEW r \in Request, NEW q \in Request, q # r, Others(r),
         request[r].op \in {"login", "refresh"}
  PROVE  /\ request'[q] = request[q]
         /\ LoginOwns(q) /\ RefreshOwns(q) /\ Closes(q)
         /\ request[r].child \in Grant /\ request[r].child \notin issued
         /\ request[q].child # request[r].child
         /\ request[r].op = "login" => request[q].session # request[r].session
         /\ request[q].op = "login" => request[q].session # request[r].session
         /\ request[q].op # "none" => request[q].session \in Session
         /\ request[q].op \in {"login", "refresh"} => request[q].child \in Grant
         /\ request[q].child \in Grant => request[q].child \notin issued
         /\ request[q].at = "revoke" => request[q].op # "none"
<1>1. request[r].child \in Grant /\ request[r].child # None
  BY Owned, NoneAssumption DEF WellShaped
<1>2. /\ request[r].op = "login" => request[q].session # request[r].session
      /\ request[q].op = "login" => request[q].session # request[r].session
      /\ request[q].child # request[r].child
  BY <1>1, Apart
<1>3. \A x \in Request : request[x].child \in Grant => request[x].child \notin issued
  BY NoneAssumption DEF OwnInv, Ownership, ChildIsFresh
<1> QED BY <1>1, <1>2, <1>3, Owned DEF Others, WellShaped

LEMMA LoginCreateTokenOwns ==
  ASSUME OwnInv, NEW r \in Request, LoginCreateToken(r)
  PROVE  Ownership'
<1> DEFINE s == request[r].session
           h == request[r].child
<1>1. /\ request[r].at = "createToken" /\ request[r].op = "login"
      /\ UNCHANGED <<session, issued, ended>>
  BY Owned DEF LoginCreateToken, WellShaped
<1>2. /\ s \in Session /\ h \in Grant /\ session[s].status # "absent"
      /\ session[s].access = h /\ session[s].current = None
      /\ \A x \in Session : session[x].access = h => x = s
      /\ \A g \in Grant : token[g].session # s
  <2>1. LoginOwns(r)
    BY Owned
  <2> QED BY <1>1, <2>1, LoginUnattached DEF LoginOwns, At
<1>3. Moves(r, "attach")
  BY Unpacked, GotoEffect DEF OwnInv, Others, Steps, LoginCreateToken, Moves
<1>4. /\ token'[h].status = "active" /\ token'[h].session = s /\ token'[h].parent = None
      /\ \A x \in Grant : x # h => token'[x] = token[x]
  BY <1>2, Unpacked DEF LoginCreateToken, OwnInv, NewToken
<1>5. h \notin issued
  BY <1>2, NoneAssumption DEF OwnInv, Ownership, ChildIsFresh
<1>6. \A q \in Request : q # r =>
        /\ request'[q] = request[q]
        /\ LoginOwns(q) /\ RefreshOwns(q) /\ Closes(q)
        /\ request[q].child # h /\ request[q].session # s
        /\ request[q].op \in {"login", "refresh"} => request[q].child \in Grant
        /\ request[q].at = "revoke" => request[q].op # "none"
  BY <1>1, <1>3, Bystander DEF Moves
<1> HIDE DEF s, h
<1>7. ChildIsFresh'
  <2>1. ~ChildUnborn(r)'
    BY <1>3 DEF ChildUnborn, At, Moves
  <2> QED BY <1>1, <1>3, <1>4, <1>6, <2>1, Unpacked
    DEF OwnInv, Ownership, ChildIsFresh, ChildUnborn, At, Moves
<1>8. Documents'
  <2>1. TokensHaveSessions' /\ AbsentTokens' /\ RotatedWasIssued'
    BY <1>1, <1>2, <1>4 DEF OwnInv, Ownership, Documents, TokensHaveSessions, AbsentTokens, RotatedWasIssued
  <2>2. IssuedExist'
    BY <1>1, <1>4, <1>5, Owned DEF IssuedExist
  <2>3. AccessBelongs'
    BY <1>1, <1>4, <1>5, Owned DEF OwnInv, Ownership, Documents, AccessBelongs
  <2>4. AbsentSessions'
    BY <1>1 DEF OwnInv, Ownership, Documents, AbsentSessions
  <2> QED BY <2>1, <2>2, <2>3, <2>4 DEF Documents
<1>9. LoginOwns(r)' /\ RefreshOwns(r)' /\ Closes(r)'
  BY <1>1, <1>2, <1>3, <1>4 DEF LoginOwns, RefreshOwns, Closes, At, Moves, s, h
<1>10. ASSUME NEW q \in Request, q # r PROVE LoginOwns(q)' /\ RefreshOwns(q)' /\ Closes(q)'
  <2>1. LoginOwns(q)'
    BY <1>1, <1>4, <1>6, <1>10 DEF LoginOwns, At
  <2>2. RefreshOwns(q)'
    BY <1>1, <1>4, <1>5, <1>6, <1>10, Owned DEF RefreshOwns, At
  <2>3. Closes(q)'
    BY <1>1, <1>6, <1>10 DEF Closes, At
  <2> QED BY <2>1, <2>2, <2>3
<1>11. EndedExist' /\ EndedIsInactive'
  BY <1>1 DEF OwnInv, Ownership, EndedExist, EndedIsInactive
<1> QED BY <1>3, <1>7, <1>8, <1>9, <1>10, <1>11, IdsStay
  DEF Ownership, LoginOwnsSession, RefreshOwnsChild, RevocationCloses

LEMMA LoginAttachOwns ==
  ASSUME OwnInv, NEW r \in Request, LoginAttachAndAnswer(r)
  PROVE  Ownership'
<1> DEFINE s == request[r].session
           h == request[r].child
<1>1. /\ request[r].at = "attach" /\ request[r].op = "login"
      /\ issued' = issued \cup {h} /\ UNCHANGED <<token, ended>>
  BY DEF LoginAttachAndAnswer
<1>2. /\ s \in Session /\ h \in Grant /\ h # None /\ session[s].status # "absent"
      /\ session[s].access = h
      /\ \A x \in Session : session[x].access = h => x = s
      /\ token[h].session = s /\ token[h].status # "absent"
  <2>1. LoginOwns(r)
    BY Owned
  <2> QED BY <1>1, <2>1, LoginUnattached, NoneAssumption DEF LoginOwns, At
<1>3. Ends(r)
  BY Unpacked DEF OwnInv, Others, LoginAttachAndAnswer, Ends
<1>4. \A x \in Session :
        /\ session'[x].status = session[x].status /\ session'[x].access = session[x].access
        /\ session'[x].current = IF x = s THEN h ELSE session[x].current
  BY <1>2, Unpacked, AttachEffect DEF LoginAttachAndAnswer, OwnInv
<1>5. \A q \in Request : q # r =>
        /\ request'[q] = request[q]
        /\ LoginOwns(q) /\ RefreshOwns(q) /\ Closes(q)
        /\ request[q].child # h /\ request[q].session # s
        /\ request[q].op \in {"login", "refresh"} => request[q].child \in Grant
        /\ request[q].op # "none" => request[q].session \in Session
        /\ request[q].at = "revoke" => request[q].op # "none"
  BY <1>1, <1>3, Bystander DEF Ends
<1>6. request'[r].op = "none" /\ request'[r].at = "idle" /\ request'[r].child = None
  BY <1>3 DEF Ends, Idle
<1> HIDE DEF s, h
<1>7. ChildIsFresh'
  BY <1>1, <1>5, <1>6 DEF OwnInv, Ownership, ChildIsFresh, ChildUnborn, At
<1>8. Documents'
  <2>1. TokensHaveSessions' /\ AbsentTokens' /\ RotatedWasIssued'
    BY <1>1, <1>4 DEF OwnInv, Ownership, Documents, TokensHaveSessions, AbsentTokens, RotatedWasIssued
  <2>2. IssuedExist'
    BY <1>1, <1>2, <1>4, Owned DEF IssuedExist
  <2>3. AccessBelongs'
    BY <1>1, <1>2, <1>4 DEF OwnInv, Ownership, Documents, AccessBelongs
  <2>4. AbsentSessions'
    BY <1>2, <1>4 DEF OwnInv, Ownership, Documents, AbsentSessions
  <2> QED BY <2>1, <2>2, <2>3, <2>4 DEF Documents
<1>9. LoginOwns(r)' /\ RefreshOwns(r)' /\ Closes(r)'
  BY <1>6 DEF LoginOwns, RefreshOwns, Closes, At
<1>10. ASSUME NEW q \in Request, q # r PROVE LoginOwns(q)' /\ RefreshOwns(q)' /\ Closes(q)'
  <2>1. LoginOwns(q)'
    BY <1>1, <1>4, <1>5, <1>10 DEF LoginOwns, At
  <2>2. RefreshOwns(q)'
    BY <1>1, <1>4, <1>5, <1>10 DEF RefreshOwns, At
  <2>3. Closes(q)'
    BY <1>2, <1>4, <1>5, <1>10 DEF Closes, At
  <2> QED BY <2>1, <2>2, <2>3
<1>11. EndedExist' /\ EndedIsInactive'
  BY <1>1, <1>4 DEF OwnInv, Ownership, EndedExist, EndedIsInactive
<1> QED BY <1>3, <1>7, <1>8, <1>9, <1>10, <1>11, IdsStay
  DEF Ownership, LoginOwnsSession, RefreshOwnsChild, RevocationCloses

-----------------------------------------------------------------------------
(* Refreshes. *)

(* A refresh serves a family that has been issued and attached. *)
LEMMA RefreshServes ==
  ASSUME OwnInv, NEW r \in Request, request[r].op = "refresh"
  PROVE  /\ request[r].session \in Session
         /\ request[r].grant \in Grant /\ request[r].grant \in issued
         /\ request[r].child \in Grant /\ request[r].child \notin issued
         /\ token[request[r].grant].session = request[r].session
         /\ token[request[r].grant].status # "absent"
         /\ session[request[r].session].status # "absent"
         /\ session[request[r].session].current # None
         /\ \A q \in Request : request[q].op = "login" => request[q].session # request[r].session
<1>1. RefreshOwns(r) /\ WellShaped(request[r])
  BY Owned
<1>2. /\ request[r].grant \in issued /\ token[request[r].grant].session = request[r].session
  BY <1>1 DEF RefreshOwns
<1>3. request[r].child \in Grant /\ request[r].child # None
  BY <1>1, NoneAssumption DEF WellShaped
<1>4. request[r].child \notin issued
  BY <1>3 DEF OwnInv, Ownership, ChildIsFresh
<1> QED BY <1>2, <1>3, <1>4, Owned, LoginUnattached

(* The presented token is usable: a rotation begins. *)
LEMMA RefreshBeginsOwns ==
  ASSUME OwnInv, NEW r \in Request, NEW g \in issued, NEW h \in Grant, Fresh(h),
         request' = [request EXCEPT ![r] = Serving("refresh", "checkSession", token[g].session, g, h)],
         request[r] = Idle,
         UNCHANGED <<session, token, issued, ended>>
  PROVE  Ownership'
<1>1. /\ Others(r)
      /\ request'[r].op = "refresh" /\ request'[r].at = "checkSession"
      /\ request'[r].session = token[g].session /\ request'[r].child = h
      /\ request'[r].grant = g
  BY Unpacked DEF OwnInv, Others, Serving
<1>2. /\ token[h].status = "absent" /\ h \notin issued
      /\ \A x \in Session : session[x].access # h
      /\ \A q \in Request : request[q].child # h
  BY Owned DEF Fresh
<1>3. /\ token[g].session \in Session /\ session[token[g].session].current # None
  BY Owned
<1>4. RequestSession'
  BY <1>1, <1>3 DEF OwnInv, Ownership, RequestSession, Others
<1>5. UniqueChild'
  BY <1>1, <1>2 DEF OwnInv, Ownership, UniqueChild, Others
<1>6. UniqueSession'
  BY <1>1, <1>3, LoginUnattached DEF OwnInv, Ownership, UniqueSession, Others
<1>7. ChildIsFresh'
  BY <1>1, <1>2 DEF OwnInv, Ownership, ChildIsFresh, ChildUnborn, At, Others
<1>8. Documents'
  BY DEF OwnInv, Ownership, Documents, TokensHaveSessions, AbsentTokens, RotatedWasIssued,
         IssuedExist, AccessBelongs, AbsentSessions
<1>9. LoginOwnsSession'
  BY <1>1 DEF OwnInv, Ownership, LoginOwnsSession, LoginOwns, At, Others
<1>10. RefreshOwnsChild'
  BY <1>1, <1>2 DEF OwnInv, Ownership, RefreshOwnsChild, RefreshOwns, At, Others
<1>11. RevocationCloses'
  BY <1>1 DEF OwnInv, Ownership, RevocationCloses, Closes, At, Others
<1>12. EndedExist' /\ EndedIsInactive'
  BY DEF OwnInv, Ownership, EndedExist, EndedIsInactive
<1> QED BY <1>4, <1>5, <1>6, <1>7, <1>8, <1>9, <1>10, <1>11, <1>12 DEF Ownership

(* The compare-and-set succeeds. *)
LEMMA RefreshConsumedOwns ==
  ASSUME OwnInv, NEW r \in Request, request[r].at = "consume",
         token' = [token EXCEPT ![request[r].grant].status = "rotated"],
         Goto(r, "createChild"), UNCHANGED <<session, issued, ended>>
  PROVE  Ownership'
<1> DEFINE g == request[r].grant
<1>1. request[r].op = "refresh"
  BY Owned DEF WellShaped
<1>2. g \in Grant /\ g \in issued /\ token[g].status # "absent"
  BY <1>1, RefreshServes
<1>3. Moves(r, "createChild")
  BY Unpacked, GotoEffect DEF OwnInv, Others, Steps, Moves
<1>4. \A x \in Grant :
        /\ token'[x].status = IF x = g THEN "rotated" ELSE token[x].status
        /\ token'[x].session = token[x].session /\ token'[x].parent = token[x].parent
        /\ token'[x].replacedBy = token[x].replacedBy
  BY <1>2, Unpacked, RotateEffect DEF OwnInv
<1>5. \A q \in Request : q # r =>
        /\ request'[q] = request[q]
        /\ LoginOwns(q) /\ RefreshOwns(q) /\ Closes(q)
        /\ request[q].op \in {"login", "refresh"} => request[q].child \in Grant
        /\ request[q].child \in Grant => request[q].child \notin issued
  BY <1>1, <1>3, Bystander DEF Moves
<1> HIDE DEF g
<1>6. ChildIsFresh'
  BY <1>1, <1>2, <1>3, <1>4, <1>5, RefreshServes, Unpacked
  DEF OwnInv, Ownership, ChildIsFresh, ChildUnborn, At, Moves
<1>7. Documents'
  <2>1. TokensHaveSessions' /\ AbsentTokens' /\ RotatedWasIssued'
    BY <1>2, <1>4 DEF OwnInv, Ownership, Documents, TokensHaveSessions, AbsentTokens, RotatedWasIssued
  <2>2. IssuedExist'
    BY <1>4, Owned DEF IssuedExist
  <2>3. AccessBelongs' /\ AbsentSessions'
    BY <1>4, Owned DEF OwnInv, Ownership, Documents, AccessBelongs, AbsentSessions
  <2> QED BY <2>1, <2>2, <2>3 DEF Documents
<1>8. LoginOwns(r)' /\ Closes(r)'
  BY <1>1, <1>3 DEF LoginOwns, Closes, At, Moves
<1>9. RefreshOwns(r)'
  BY <1>1, <1>2, <1>3, <1>4, Owned DEF RefreshOwns, At, Moves, g
<1>10. ASSUME NEW q \in Request, q # r PROVE LoginOwns(q)' /\ RefreshOwns(q)' /\ Closes(q)'
  <2>1. LoginOwns(q)'
    BY <1>2, <1>4, <1>5, <1>10 DEF LoginOwns, At
  <2>2. RefreshOwns(q)'
    BY <1>2, <1>4, <1>5, <1>10, Owned DEF RefreshOwns, At
  <2>3. Closes(q)'
    BY <1>5, <1>10 DEF Closes, At
  <2> QED BY <2>1, <2>2, <2>3
<1>11. EndedExist' /\ EndedIsInactive'
  BY DEF OwnInv, Ownership, EndedExist, EndedIsInactive
<1> QED BY <1>3, <1>6, <1>7, <1>8, <1>9, <1>10, <1>11, IdsStay
  DEF Ownership, LoginOwnsSession, RefreshOwnsChild, RevocationCloses

LEMMA RefreshCreateChildOwns ==
  ASSUME OwnInv, NEW r \in Request, RefreshCreateChild(r)
  PROVE  Ownership'
<1> DEFINE s == request[r].session
           g == request[r].grant
           h == request[r].child
<1>1. /\ request[r].at = "createChild" /\ request[r].op = "refresh"
      /\ UNCHANGED <<session, issued, ended>>
  BY Owned DEF RefreshCreateChild, WellShaped
<1>2. /\ s \in Session /\ h \in Grant /\ h \notin issued /\ g \in Grant /\ g \in issued
      /\ session[s].status # "absent" /\ session[s].current # None
      /\ token[g].session = s
      /\ \A q \in Request : request[q].op = "login" => request[q].session # s
  BY <1>1, RefreshServes
<1>3. Moves(r, "attach")
  BY Unpacked, GotoEffect DEF OwnInv, Others, Steps, RefreshCreateChild, Moves
<1>4. /\ token'[h].status = "active" /\ token'[h].session = s /\ token'[h].parent = g
      /\ \A x \in Grant : x # h => token'[x] = token[x]
  BY <1>2, Unpacked DEF RefreshCreateChild, OwnInv, NewToken
<1>5. \A q \in Request : q # r =>
        /\ request'[q] = request[q]
        /\ LoginOwns(q) /\ RefreshOwns(q) /\ Closes(q)
        /\ request[q].child # h
        /\ request[q].op \in {"login", "refresh"} => request[q].child \in Grant
  BY <1>1, <1>3, Bystander DEF Moves
<1>6. RefreshOwns(r)
  BY Owned
<1> HIDE DEF s, g, h
<1>7. ChildIsFresh'
  <2>1. ~ChildUnborn(r)'
    BY <1>3 DEF ChildUnborn, At, Moves
  <2> QED BY <1>1, <1>3, <1>4, <1>5, <2>1, Unpacked
    DEF OwnInv, Ownership, ChildIsFresh, ChildUnborn, At, Moves
<1>8. Documents'
  <2>1. TokensHaveSessions' /\ AbsentTokens' /\ RotatedWasIssued'
    BY <1>1, <1>2, <1>4 DEF OwnInv, Ownership, Documents, TokensHaveSessions, AbsentTokens, RotatedWasIssued
  <2>2. IssuedExist'
    BY <1>1, <1>2, <1>4, Owned DEF IssuedExist
  <2>3. AccessBelongs'
    BY <1>1, <1>2, <1>4, Owned DEF OwnInv, Ownership, Documents, AccessBelongs
  <2>4. AbsentSessions'
    BY <1>1 DEF OwnInv, Ownership, Documents, AbsentSessions
  <2> QED BY <2>1, <2>2, <2>3, <2>4 DEF Documents
<1>9. LoginOwns(r)' /\ Closes(r)'
  BY <1>1, <1>3 DEF LoginOwns, Closes, At, Moves
<1>10. RefreshOwns(r)'
  BY <1>1, <1>2, <1>3, <1>4, <1>6 DEF RefreshOwns, At, Moves, s, g, h
<1>11. ASSUME NEW q \in Request, q # r PROVE LoginOwns(q)' /\ RefreshOwns(q)' /\ Closes(q)'
  <2>1. LoginOwns(q)'
    BY <1>1, <1>2, <1>4, <1>5, <1>11 DEF LoginOwns, At
  <2>2. RefreshOwns(q)'
    BY <1>1, <1>2, <1>4, <1>5, <1>11, Owned DEF RefreshOwns, At
  <2>3. Closes(q)'
    BY <1>1, <1>5, <1>11 DEF Closes, At
  <2> QED BY <2>1, <2>2, <2>3
<1>12. EndedExist' /\ EndedIsInactive'
  BY <1>1 DEF OwnInv, Ownership, EndedExist, EndedIsInactive
<1> QED BY <1>3, <1>7, <1>8, <1>9, <1>10, <1>11, <1>12, IdsStay
  DEF Ownership, LoginOwnsSession, RefreshOwnsChild, RevocationCloses

LEMMA RefreshAttachOwns ==
  ASSUME OwnInv, NEW r \in Request, RefreshAttachChild(r)
  PROVE  Ownership'
<1> DEFINE s == request[r].session
           h == request[r].child
<1>1. /\ request[r].at = "attach" /\ request[r].op = "refresh"
      /\ UNCHANGED <<token, issued, ended>>
  BY DEF RefreshAttachChild
<1>2. /\ s \in Session /\ h \in Grant /\ h # None /\ session[s].status # "absent"
      /\ \A q \in Request : request[q].op = "login" => request[q].session # s
  BY <1>1, RefreshServes, NoneAssumption
<1>3. Moves(r, "link")
  BY Unpacked, GotoEffect DEF OwnInv, Others, Steps, RefreshAttachChild, Moves
<1>4. \A x \in Session :
        /\ session'[x].status = session[x].status /\ session'[x].access = session[x].access
        /\ session'[x].current = IF x = s THEN h ELSE session[x].current
  BY <1>2, Unpacked, AttachEffect DEF RefreshAttachChild, OwnInv
<1>5. \A q \in Request : q # r =>
        /\ request'[q] = request[q]
        /\ LoginOwns(q) /\ RefreshOwns(q) /\ Closes(q)
        /\ request[q].op # "none" => request[q].session \in Session
        /\ request[q].at = "revoke" => request[q].op # "none"
  BY <1>1, <1>3, Bystander DEF Moves
<1>6. RefreshOwns(r)
  BY Owned
<1> HIDE DEF s, h
<1>7. ChildIsFresh'
  BY <1>1, <1>3, <1>5 DEF OwnInv, Ownership, ChildIsFresh, ChildUnborn, At, Moves
<1>8. Documents'
  <2>1. TokensHaveSessions' /\ AbsentTokens' /\ RotatedWasIssued'
    BY <1>1, <1>4 DEF OwnInv, Ownership, Documents, TokensHaveSessions, AbsentTokens, RotatedWasIssued
  <2>2. IssuedExist'
    BY <1>1, <1>2, <1>4, Owned DEF IssuedExist
  <2>3. AccessBelongs'
    BY <1>1, <1>4 DEF OwnInv, Ownership, Documents, AccessBelongs
  <2>4. AbsentSessions'
    BY <1>2, <1>4 DEF OwnInv, Ownership, Documents, AbsentSessions
  <2> QED BY <2>1, <2>2, <2>3, <2>4 DEF Documents
<1>9. LoginOwns(r)' /\ Closes(r)'
  BY <1>1, <1>3 DEF LoginOwns, Closes, At, Moves
<1>10. RefreshOwns(r)'
  BY <1>1, <1>3, <1>4, <1>6 DEF RefreshOwns, At, Moves
<1>11. ASSUME NEW q \in Request, q # r PROVE LoginOwns(q)' /\ RefreshOwns(q)' /\ Closes(q)'
  <2>1. LoginOwns(q)'
    BY <1>1, <1>2, <1>4, <1>5, <1>11 DEF LoginOwns, At
  <2>2. RefreshOwns(q)'
    BY <1>1, <1>4, <1>5, <1>11 DEF RefreshOwns, At
  <2>3. Closes(q)'
    BY <1>2, <1>4, <1>5, <1>11 DEF Closes, At
  <2> QED BY <2>1, <2>2, <2>3
<1>12. EndedExist' /\ EndedIsInactive'
  BY <1>1, <1>4 DEF OwnInv, Ownership, EndedExist, EndedIsInactive
<1> QED BY <1>3, <1>7, <1>8, <1>9, <1>10, <1>11, <1>12, IdsStay
  DEF Ownership, LoginOwnsSession, RefreshOwnsChild, RevocationCloses

LEMMA RefreshLinkOwns ==
  ASSUME OwnInv, NEW r \in Request, RefreshLinkParent(r)
  PROVE  Ownership'
<1> DEFINE g == request[r].grant
           h == request[r].child
<1>1. /\ request[r].at = "link" /\ request[r].op = "refresh"
      /\ UNCHANGED <<session, issued, ended>>
  BY Owned DEF RefreshLinkParent, WellShaped
<1>2. g \in Grant /\ h \in Grant /\ token[g].status # "absent"
  BY <1>1, RefreshServes
<1>3. Moves(r, "updateAccess")
  BY Unpacked, GotoEffect DEF OwnInv, Others, Steps, RefreshLinkParent, Moves
<1>4. \A x \in Grant :
        /\ token'[x].status = token[x].status /\ token'[x].session = token[x].session
        /\ token'[x].parent = token[x].parent
        /\ token'[x].replacedBy = IF x = g THEN h ELSE token[x].replacedBy
  BY <1>2, Unpacked, LinkEffect DEF OwnInv, RefreshLinkParent
<1>5. \A q \in Request : q # r =>
        /\ request'[q] = request[q]
        /\ LoginOwns(q) /\ RefreshOwns(q) /\ Closes(q)
        /\ request[q].op \in {"login", "refresh"} => request[q].child \in Grant
  BY <1>1, <1>3, Bystander DEF Moves
<1>6. RefreshOwns(r) /\ h \in Grant
  BY <1>2, Owned
<1> HIDE DEF g
<1>7. ChildIsFresh'
  BY <1>1, <1>3, <1>4, <1>5, Unpacked DEF OwnInv, Ownership, ChildIsFresh, ChildUnborn, At, Moves
<1>8. Documents'
  <2>1. TokensHaveSessions' /\ AbsentTokens' /\ RotatedWasIssued'
    BY <1>1, <1>2, <1>4 DEF OwnInv, Ownership, Documents, TokensHaveSessions, AbsentTokens, RotatedWasIssued
  <2>2. IssuedExist'
    BY <1>1, <1>4, Owned DEF IssuedExist
  <2>3. AccessBelongs' /\ AbsentSessions'
    BY <1>1, <1>4, Owned DEF OwnInv, Ownership, Documents, AccessBelongs, AbsentSessions
  <2> QED BY <2>1, <2>2, <2>3 DEF Documents
<1>9. LoginOwns(r)' /\ Closes(r)'
  BY <1>1, <1>3 DEF LoginOwns, Closes, At, Moves
<1>10. RefreshOwns(r)'
  BY <1>1, <1>3, <1>4, <1>6, Owned DEF RefreshOwns, At, Moves
<1>11. ASSUME NEW q \in Request, q # r PROVE LoginOwns(q)' /\ RefreshOwns(q)' /\ Closes(q)'
  <2>1. LoginOwns(q)'
    BY <1>1, <1>4, <1>5, <1>11 DEF LoginOwns, At
  <2>2. RefreshOwns(q)'
    BY <1>1, <1>4, <1>5, <1>11, Owned DEF RefreshOwns, At
  <2>3. Closes(q)'
    BY <1>1, <1>5, <1>11 DEF Closes, At
  <2> QED BY <2>1, <2>2, <2>3
<1>12. EndedExist' /\ EndedIsInactive'
  BY <1>1 DEF OwnInv, Ownership, EndedExist, EndedIsInactive
<1> QED BY <1>3, <1>7, <1>8, <1>9, <1>10, <1>11, <1>12, IdsStay
  DEF Ownership, LoginOwnsSession, RefreshOwnsChild, RevocationCloses

LEMMA RefreshAnswerOwns ==
  ASSUME OwnInv, NEW r \in Request, RefreshUpdateAccessAndAnswer(r)
  PROVE  Ownership'
<1> DEFINE s == request[r].session
           h == request[r].child
<1>1. /\ request[r].at = "updateAccess" /\ request[r].op = "refresh"
      /\ issued' = issued \cup {h} /\ UNCHANGED <<token, ended>>
  BY Owned DEF RefreshUpdateAccessAndAnswer, WellShaped
<1>2. /\ s \in Session /\ h \in Grant /\ session[s].status # "absent"
      /\ session[s].current # None
      /\ \A x \in Session : session[x].access # h
      /\ token[h].session = s /\ token[h].status # "absent"
      /\ \A q \in Request : request[q].op = "login" => request[q].session # s
  <2>1. RefreshOwns(r)
    BY Owned
  <2> QED BY <1>1, <2>1, RefreshServes DEF RefreshOwns, At
<1>3. Ends(r)
  BY Unpacked DEF OwnInv, Others, RefreshUpdateAccessAndAnswer, Ends
<1>4. \A x \in Session :
        /\ session'[x].status = session[x].status /\ session'[x].current = session[x].current
        /\ session'[x].access = IF x = s /\ session[x].status = "active" THEN h ELSE session[x].access
  BY <1>2, Unpacked, UpdateAccessEffect DEF RefreshUpdateAccessAndAnswer, OwnInv
<1>5. \A q \in Request : q # r =>
        /\ request'[q] = request[q]
        /\ LoginOwns(q) /\ RefreshOwns(q) /\ Closes(q)
        /\ request[q].child # h
        /\ request[q].op \in {"login", "refresh"} => request[q].child \in Grant
        /\ request[q].op # "none" => request[q].session \in Session
        /\ request[q].at = "revoke" => request[q].op # "none"
  BY <1>1, <1>3, Bystander DEF Ends
<1>6. request'[r].op = "none" /\ request'[r].at = "idle" /\ request'[r].child = None
  BY <1>3 DEF Ends, Idle
<1> HIDE DEF s, h
<1>7. ChildIsFresh'
  BY <1>1, <1>5, <1>6 DEF OwnInv, Ownership, ChildIsFresh, ChildUnborn, At
<1>8. Documents'
  <2>1. TokensHaveSessions' /\ AbsentTokens' /\ RotatedWasIssued'
    BY <1>1, <1>4 DEF OwnInv, Ownership, Documents, TokensHaveSessions, AbsentTokens, RotatedWasIssued
  <2>2. IssuedExist'
    BY <1>1, <1>2, <1>4, Owned DEF IssuedExist
  <2>3. AccessBelongs'
    BY <1>1, <1>2, <1>4 DEF OwnInv, Ownership, Documents, AccessBelongs
  <2>4. AbsentSessions'
    BY <1>2, <1>4 DEF OwnInv, Ownership, Documents, AbsentSessions
  <2> QED BY <2>1, <2>2, <2>3, <2>4 DEF Documents
<1>9. LoginOwns(r)' /\ RefreshOwns(r)' /\ Closes(r)'
  BY <1>6 DEF LoginOwns, RefreshOwns, Closes, At
<1>10. ASSUME NEW q \in Request, q # r PROVE LoginOwns(q)' /\ RefreshOwns(q)' /\ Closes(q)'
  <2>1. LoginOwns(q)'
    BY <1>1, <1>2, <1>4, <1>5, <1>10 DEF LoginOwns, At
  <2>2. RefreshOwns(q)'
    BY <1>1, <1>4, <1>5, <1>10 DEF RefreshOwns, At
  <2>3. Closes(q)'
    BY <1>2, <1>4, <1>5, <1>10 DEF Closes, At
  <2> QED BY <2>1, <2>2, <2>3
<1>11. EndedExist' /\ EndedIsInactive'
  BY <1>1, <1>4 DEF OwnInv, Ownership, EndedExist, EndedIsInactive
<1> QED BY <1>3, <1>7, <1>8, <1>9, <1>10, <1>11, IdsStay
  DEF Ownership, LoginOwnsSession, RefreshOwnsChild, RevocationCloses

-----------------------------------------------------------------------------
(* The whole next-state relation. *)

(* A request that only announces what it will revoke.  The access token or *)
(* refresh token it presents was issued, so its session has a family.      *)
LEMMA ArriveRevokingOwns ==
  ASSUME OwnInv, NEW r \in Request, request[r] = Idle,
         NEW op \in Revocations, NEW h \in issued, NEW g \in Grant \cup {None},
         NEW todo \in SUBSET Writes,
         request' = [request EXCEPT ![r] = Revoking(op, token[h].session, g, todo)],
         op \in {"logout", "replay"} => "family" \in todo,
         UNCHANGED <<session, token, issued, ended>>
  PROVE  Ownership'
<1>1. token[h].session \in Session /\ session[token[h].session].current # None
  BY Owned
<1>2. request[r].op # "login"
  BY DEF Idle
<1> QED BY <1>1, <1>2, RevokingOwns

LEMMA AccessIsOwned ==
  ASSUME OwnInv, NEW s \in Session, NEW g \in issued, session[s].access = g
  PROVE  token[g].session = s
BY DEF OwnInv, Ownership, Documents, AccessBelongs

LEMMA ArriveOwns ==
  ASSUME OwnInv, NEW r \in Request, Arrive(r)
  PROVE  Ownership'
<1>0. \A g \in issued : g \in Grant
  BY Owned
<1>1. ASSUME NEW s \in Session, NEW g \in Grant, LogoutBySession(r, s, g) PROVE Ownership'
  <2>1. g \in issued /\ token[g].session = s
    BY <1>1, AccessIsOwned DEF LogoutBySession, Accepts
  <2>2. {"direct"} \cup RevokeFamily \in SUBSET Writes /\ "family" \in {"direct"} \cup RevokeFamily
    BY DEF RevokeFamily, Writes
  <2> QED BY <1>1, <2>1, <2>2, ArriveRevokingOwns DEF LogoutBySession, Revocations
<1>2. ASSUME NEW s \in Session, NEW g \in Grant, LogoutAll(r, s, g) PROVE Ownership'
  <2>1. g \in issued /\ token[g].session = s
    BY <1>2, AccessIsOwned DEF LogoutAll, Accepts
  <2>2. {"otherSessions", "otherTokens"} \in SUBSET Writes
    BY DEF Writes
  <2> QED BY <1>2, <2>1, <2>2, ArriveRevokingOwns DEF LogoutAll, Revocations
<1>3. ASSUME NEW s \in Session, NEW g \in Grant, RejectAccess(r, s, g) PROVE Ownership'
  <2>1. g \in issued /\ token[g].session = s
    BY <1>3, AccessIsOwned DEF RejectAccess
  <2>2. PICK write \in {"deactivate", "direct"} :
          request' = [request EXCEPT ![r] = Revoking("reject", s, g, {write})]
    BY <1>3 DEF RejectAccess
  <2>3. {write} \in SUBSET Writes
    BY DEF Writes
  <2> QED BY <1>3, <2>1, <2>2, <2>3, ArriveRevokingOwns DEF RejectAccess, Revocations
<1>4. ASSUME NEW g \in Grant, LogoutByCookie(r, g) PROVE Ownership'
  <2>1. RevokeFamily \in SUBSET Writes /\ "family" \in RevokeFamily
    BY DEF RevokeFamily, Writes
  <2> QED BY <1>4, <2>1, ArriveRevokingOwns DEF LogoutByCookie, Revocations
<1>5. ASSUME NEW s \in Session, RefreshUnknownToken(r, s) PROVE Ownership'
  <2>1. RevokeFamily \in SUBSET Writes /\ "family" \in RevokeFamily
    BY DEF RevokeFamily, Writes
  <2> QED BY <1>5, <2>1, ArriveRevokingOwns DEF RefreshUnknownToken, Revocations
<1>6. ASSUME NEW g \in Grant, RefreshFindToken(r, g) PROVE Ownership'
  <2>1. RevokeFamily \in SUBSET Writes /\ "family" \in RevokeFamily
    BY DEF RevokeFamily, Writes
  <2>2. CASE token[g].status # "active"
    BY <1>6, <2>1, <2>2, ArriveRevokingOwns DEF RefreshFindToken, Revocations
  <2>3. CASE token[g].status = "active" /\ Expired(token[g])
    BY <1>6, <2>1, <2>3, ArriveRevokingOwns DEF RefreshFindToken, Revocations
  <2>4. CASE token[g].status = "active" /\ ~Expired(token[g])
    BY <1>6, <2>4, RefreshBeginsOwns DEF RefreshFindToken
  <2> QED BY <2>2, <2>3, <2>4
<1> QED BY <1>1, <1>2, <1>3, <1>4, <1>5, <1>6, LoginSweepSessionsOwns DEF Arrive

(* The session check and a lost compare-and-set end the refresh in a       *)
(* revocation of its family.                                               *)
LEMMA RefreshRevokesOwns ==
  ASSUME OwnInv, NEW r \in Request, request[r].op = "refresh", NEW op \in {"replay", "expiry"},
         request' = [request EXCEPT ![r] =
                       Revoking(op, request[r].session, request[r].grant, RevokeFamily)],
         UNCHANGED <<session, token, issued, ended>>
  PROVE  Ownership'
<1>1. RevokeFamily \in SUBSET Writes /\ "family" \in RevokeFamily
  BY DEF RevokeFamily, Writes
<1>2. op \in Revocations
  BY DEF Revocations
<1> QED BY <1>1, <1>2, RefreshServes, RevokingOwns

(* The pending writes: each closes sessions or voids tokens. *)
LEMMA WritesOwn ==
  ASSUME OwnInv, NEW r \in Request,
         \/ WriteTokens(r) \/ WriteOtherTokens(r)
         \/ WriteFamilySession(r) \/ WriteDirect(r)
         \/ WriteDeactivate(r) \/ WriteOtherSessions(r)
  PROVE  Ownership'
<1>1. ASSUME WriteTokens(r) \/ WriteOtherTokens(r) PROVE Ownership'
  <2>1. \A g \in Grant : token'[g] = token[g] \/ token'[g] = RevokeToken(token[g])
    BY <1>1 DEF WriteTokens, WriteOtherTokens
  <2>2. Voiding
    BY <2>1, Unpacked, RevokeTokenEffect DEF OwnInv, Voiding
  <2>3. Closing
    BY <1>1 DEF WriteTokens, WriteOtherTokens, Closing
  <2> QED BY <1>1, <2>2, <2>3, WriteOwns DEF WriteTokens, WriteOtherTokens, Recorded
<1>2. ASSUME UNCHANGED token PROVE Voiding
  BY <1>2 DEF Voiding
<1>3. ASSUME \A s \in Session : session'[s] = session[s] \/ session'[s] = RevokeSession(session[s])
      PROVE  Closing
  BY <1>3, Unpacked, RevokeSessionEffect DEF OwnInv, Closing
<1>4. ASSUME WriteFamilySession(r) PROVE Ownership'
  <2>1. Closing /\ Voiding
    BY <1>2, <1>3, <1>4, Unpacked DEF WriteFamilySession, OwnInv
  <2>2. ASSUME request[r].op \in {"logout", "replay"}
        PROVE  session'[request[r].session].status = "revoked"
    <3> DEFINE s == request[r].session
    <3>1. s \in Session /\ Closes(r) /\ WellShaped(request[r]) /\ request[r].at = "revoke"
      BY <1>4, Owned DEF WriteFamilySession, Pending, WellShaped
    <3>2. session[s] \in SessionDoc
      BY <3>1, Unpacked DEF OwnInv
    <3>3. session[s].current # None /\ session[s].status # "absent"
      BY <2>2, <3>1 DEF Closes, At
    <3>4. session'[s] = RevokeSession(session[s])
      BY <1>4, <3>1, <3>3, Unpacked DEF WriteFamilySession, OwnInv
    <3> QED BY <3>2, <3>3, <3>4, RevokeSessionEffect DEF SessionDoc
  <2> QED BY <1>4, <2>1, <2>2, WriteOwns DEF WriteFamilySession, Recorded
<1>5. ASSUME WriteDirect(r) PROVE Ownership'
  <2>1. Closing /\ Voiding
    BY <1>2, <1>3, <1>5, Unpacked DEF WriteDirect, OwnInv
  <2> QED BY <1>5, <2>1, WriteOwns DEF WriteDirect, Recorded
<1>6. ASSUME WriteDeactivate(r) PROVE Ownership'
  <2>1. Closing /\ Voiding
    <3>1. session[request[r].session].status # "absent"
      BY <1>6, Owned DEF WriteDeactivate, Pending, Closes, At
    <3> QED BY <1>2, <1>6, <3>1, Unpacked, DeactivateEffect DEF WriteDeactivate, OwnInv, Closing
  <2> QED BY <1>6, <2>1, WriteOwns DEF WriteDeactivate, Recorded
<1>7. ASSUME WriteOtherSessions(r) PROVE Ownership'
  <2>1. Closing /\ Voiding
    BY <1>2, <1>3, <1>7 DEF WriteOtherSessions
  <2>2. Recorded
    <3>1. \A s \in OtherActive(r) : s \in Session /\ session'[s].status = "revoked"
      BY <1>7, Unpacked, RevokeSessionEffect DEF WriteOtherSessions, OtherActive, OwnInv, RevokeSession
    <3> QED BY <1>7, <3>1 DEF WriteOtherSessions, Recorded
  <2> QED BY <1>7, <2>1, <2>2, WriteOwns DEF WriteOtherSessions
<1> QED BY <1>1, <1>4, <1>5, <1>6, <1>7

(* The answer records the end of a session that is closed by then. *)
LEMMA AnswerOwns ==
  ASSUME OwnInv, NEW r \in Request, AnswerRevocation(r)
  PROVE  Ownership'
<1>1. /\ request[r].at = "revoke" /\ request[r].todo = {}
      /\ request[r].session \in Session /\ Closes(r)
  BY Owned DEF AnswerRevocation, WellShaped
<1>2. request[r].op \in {"logout", "replay"} => session[request[r].session].status = "revoked"
  BY <1>1 DEF Closes, At
<1>3. \A e \in ended' : e \in ended \/ (e[1] = request[r].session
                                         /\ request[r].op \in {"logout", "replay"})
  BY DEF AnswerRevocation
<1>4. EndedExist' /\ EndedIsInactive'
  BY <1>1, <1>2, <1>3
  DEF AnswerRevocation, OwnInv, Ownership, EndedExist, EndedIsInactive
<1> QED BY <1>4, IdleOwns DEF AnswerRevocation

LEMMA ContinueOwns ==
  ASSUME OwnInv, NEW r \in Request, Continue(r)
  PROVE  Ownership'
<1>1. ASSUME LoginBlocked(r) PROVE Ownership'
  <2>1. EndedExist' /\ EndedIsInactive'
    BY <1>1 DEF LoginBlocked, OwnInv, Ownership, EndedExist, EndedIsInactive
  <2> QED BY <1>1, <2>1, IdleOwns DEF LoginBlocked
<1>2. ASSUME NEW bound \in BOOLEAN, RefreshCheckSession(r, bound) PROVE Ownership'
  <2>1. request[r].op = "refresh"
    BY <1>2, Owned DEF RefreshCheckSession, WellShaped
  <2>2. CASE Goto(r, "consume")
    BY <1>2, <2>2, ConsumeNextOwns DEF RefreshCheckSession
  <2>3. ASSUME NEW op \in {"replay", "expiry"},
               request' = [request EXCEPT ![r] =
                 Revoking(op, request[r].session, request[r].grant, RevokeFamily)]
        PROVE  Ownership'
    BY <1>2, <2>1, <2>3, RefreshRevokesOwns DEF RefreshCheckSession
  <2> QED BY <1>2, <2>2, <2>3 DEF RefreshCheckSession
<1>3. ASSUME RefreshConsume(r) PROVE Ownership'
  <2>1. request[r].op = "refresh"
    BY <1>3, Owned DEF RefreshConsume, WellShaped
  <2>2. CASE token[request[r].grant].status = "active"
    BY <1>3, <2>2, RefreshConsumedOwns DEF RefreshConsume
  <2>3. CASE token[request[r].grant].status # "active"
    BY <1>3, <2>1, <2>3, RefreshRevokesOwns DEF RefreshConsume
  <2> QED BY <2>2, <2>3
<1> QED
  BY <1>1, <1>2, <1>3, LoginSweepTokensOwns, LoginCreateSessionOwns, LoginCreateTokenOwns,
     LoginAttachOwns, RefreshCreateChildOwns, RefreshAttachOwns, RefreshLinkOwns,
     RefreshAnswerOwns, WritesOwn, AnswerOwns
  DEF Continue

(* A crash forgets the handlers and keeps the documents. *)
LEMMA CrashOwns ==
  ASSUME OwnInv, Crash
  PROVE  Ownership'
<1>1. \A q \in Request : request'[q].op = "none" /\ request'[q].at = "idle"
                         /\ request'[q].child = None /\ request'[q].session = None
  BY DEF Crash, Idle
<1>2. RequestSession' /\ UniqueChild' /\ UniqueSession' /\ ChildIsFresh'
  BY <1>1 DEF RequestSession, UniqueChild, UniqueSession, ChildIsFresh
<1>3. LoginOwnsSession' /\ RefreshOwnsChild' /\ RevocationCloses'
  BY <1>1 DEF LoginOwnsSession, RefreshOwnsChild, RevocationCloses, LoginOwns, RefreshOwns, Closes, At
<1>4. Documents' /\ EndedExist' /\ EndedIsInactive'
  BY DEF Crash, OwnInv, Ownership, EndedExist, EndedIsInactive, Documents, TokensHaveSessions,
         AbsentTokens, RotatedWasIssued, IssuedExist, AccessBelongs, AbsentSessions
<1> QED BY <1>2, <1>3, <1>4 DEF Ownership

LEMMA InitOwns == Init => OwnInv
<1> SUFFICES ASSUME Init PROVE Ownership
  BY InitType DEF OwnInv
<1>1. \A q \in Request : request[q].op = "none" /\ request[q].at = "idle"
                         /\ request[q].child = None /\ request[q].session = None
  BY DEF Init, Idle
<1>2. RequestSession /\ UniqueChild /\ UniqueSession /\ ChildIsFresh
  BY <1>1 DEF RequestSession, UniqueChild, UniqueSession, ChildIsFresh
<1>3. LoginOwnsSession /\ RefreshOwnsChild /\ RevocationCloses
  BY <1>1 DEF LoginOwnsSession, RefreshOwnsChild, RevocationCloses, LoginOwns, RefreshOwns, Closes, At
<1>4. Documents /\ EndedExist /\ EndedIsInactive
  BY NoneAssumption
  DEF Init, NoSession, NoToken, EndedExist, EndedIsInactive, Documents, TokensHaveSessions,
      AbsentTokens, RotatedWasIssued, IssuedExist, AccessBelongs, AbsentSessions
<1> QED BY <1>2, <1>3, <1>4 DEF Ownership

LEMMA StepOwns == OwnInv /\ [Next]_vars => OwnInv'
<1> SUFFICES ASSUME OwnInv, [Next]_vars PROVE Ownership'
  BY StepType DEF OwnInv
<1>1. ASSUME NEW r \in Request, Arrive(r) \/ Continue(r) PROVE Ownership'
  BY <1>1, ArriveOwns, ContinueOwns
<1>2. ASSUME UNCHANGED <<session, token, request, issued, ended>> PROVE Ownership'
  <2>1. RequestSession' /\ UniqueChild' /\ UniqueSession' /\ ChildIsFresh'
    BY <1>2 DEF OwnInv, Ownership, RequestSession, UniqueChild, UniqueSession, ChildIsFresh,
                ChildUnborn, At
  <2>2. LoginOwnsSession' /\ RefreshOwnsChild' /\ RevocationCloses'
    BY <1>2 DEF OwnInv, Ownership, LoginOwnsSession, RefreshOwnsChild, RevocationCloses,
                LoginOwns, RefreshOwns, Closes, At
  <2>3. Documents' /\ EndedExist' /\ EndedIsInactive'
    BY <1>2 DEF OwnInv, Ownership, EndedExist, EndedIsInactive, Documents, TokensHaveSessions,
                AbsentTokens, RotatedWasIssued, IssuedExist, AccessBelongs, AbsentSessions
  <2> QED BY <2>1, <2>2, <2>3 DEF Ownership
<1>3. CASE Tick
  BY <1>2, <1>3 DEF Tick
<1>4. CASE Crash
  BY <1>4, CrashOwns
<1>5. CASE UNCHANGED vars
  BY <1>2, <1>5 DEF vars
<1> QED BY <1>1, <1>3, <1>4, <1>5 DEF Next

LEMMA OwnInvariance == Spec => []OwnInv
BY InitOwns, StepOwns, PTL DEF Spec

(* Once a logout or a replay rejection was answered its session is         *)
(* inactive for good, whatever rotation, login, sweep or crash was in      *)
(* flight: an attach never reactivates, an access-token write only touches *)
(* an active session, and the family write finds the family attached.      *)
THEOREM EndedStaysInactive == Spec => []EndedIsInactive
<1>1. OwnInv => EndedIsInactive
  BY DEF OwnInv, Ownership
<1> QED BY <1>1, OwnInvariance, PTL

(* Every document that exists points at documents that exist, and every    *)
(* held credential names a session with its family attached, between any   *)
(* two writes of any handlers.                                             *)
THEOREM DocumentsConsistent == Spec => []Documents
<1>1. OwnInv => Documents
  BY DEF OwnInv, Ownership
<1> QED BY <1>1, OwnInvariance, PTL

-----------------------------------------------------------------------------
(***************************************************************************)
(* ROTATION                                                                *)
(***************************************************************************)

RotInv == OwnInv /\ Rotation

(* What the invariant says of one handler, and of the documents. *)
LEMMA Rotated ==
  ASSUME RotInv
  PROVE  /\ OwnInv /\ TypeInv
         /\ \A r \in Request : Current(r) /\ OwnsFamily(r)
         /\ RotatesAlone /\ ParentsAreRotated /\ OneLiveToken /\ LineageIsAChain /\ HalvesAgree
BY DEF RotInv, OwnInv, Rotation, RefreshIsCurrent, RotationOwnsFamily

(* What a rotation under way knows of itself. *)
LEMMA RotatingServes ==
  ASSUME RotInv, NEW r \in Request, Rotating(r)
  PROVE  /\ request[r].session \in Session
         /\ request[r].grant \in Grant /\ request[r].grant \in issued
         /\ request[r].child \in Grant /\ request[r].child \notin issued
         /\ token[request[r].grant].session = request[r].session
         /\ token[request[r].grant].status = "rotated"
         /\ session[request[r].session].access = request[r].grant
         /\ session[request[r].session].current # None
         /\ \A g \in issued : token[g].session = request[r].session => token[g].status # "active"
<1>1. OwnsFamily(r) /\ OwnInv /\ request[r].op = "refresh"
  BY Rotated DEF Rotating
<1>2. \A g \in issued : g \in Grant
  BY <1>1, Owned
<1>3. request[r].child \notin issued
  BY <1>1, RefreshServes
<1> QED BY <1>1, <1>2, <1>3, RefreshServes DEF OwnsFamily

(* The links of a document name documents. *)
LEMMA LinksAreGrants ==
  ASSUME TypeInv
  PROVE  \A g \in Grant : /\ token[g].parent \in Grant \cup {None}
                         /\ token[g].replacedBy \in Grant \cup {None}
BY Unpacked DEF TokenDoc

-----------------------------------------------------------------------------
(* Steps that only close documents or let handlers begin and end. *)

Quiet ==
  /\ Closing /\ Voiding /\ UNCHANGED issued
  /\ \A q \in Request : request'[q].op = "refresh" =>
       request'[q] = request[q] \/ request'[q].at = "checkSession"

LEMMA QuietRotates ==
  ASSUME RotInv, Quiet
  PROVE  Rotation'
<1>1. ASSUME NEW q \in Request PROVE Current(q)' /\ OwnsFamily(q)'
  <2>1. Current(q) /\ OwnsFamily(q) /\ (request[q].op = "refresh" => request[q].session \in Session)
    BY Rotated, RefreshServes
  <2>2. request[q].op = "refresh" => request[q].grant \in Grant
    BY Rotated, RefreshServes
  <2>3. CASE request'[q] = request[q]
    BY <2>1, <2>2, <2>3 DEF Current, OwnsFamily, Rotating, At, Quiet, Closing, Voiding
  <2>4. CASE request'[q] # request[q]
    BY <2>4 DEF Current, OwnsFamily, Rotating, At, Quiet
  <2> QED BY <2>3, <2>4
<1>2. RotatesAlone'
  <2>1. \A q \in Request : Rotating(q)' => request'[q] = request[q]
    BY DEF Quiet, Rotating, At
  <2> QED BY <2>1, Rotated DEF RotatesAlone, Rotating, At
<1>3. ParentsAreRotated'
  BY Rotated, Unpacked, LinksAreGrants DEF ParentsAreRotated, Quiet, Voiding
<1>4. OneLiveToken'
  BY Rotated DEF OneLiveToken, Quiet, Voiding
<1>5. LineageIsAChain'
  BY Rotated, LinksAreGrants DEF LineageIsAChain, Quiet, Voiding
<1>6. HalvesAgree'
  BY Rotated, Owned DEF HalvesAgree, Quiet, Closing, Voiding
<1> QED BY <1>1, <1>2, <1>3, <1>4, <1>5, <1>6
  DEF Rotation, RefreshIsCurrent, RotationOwnsFamily

-----------------------------------------------------------------------------
(* Rotations. *)

(* The session was found active: the presented token, if it is still       *)
(* usable, is the accepted one.                                            *)
LEMMA ConsumeNextRotates ==
  ASSUME RotInv, NEW r \in Request, request[r].at = "checkSession", Goto(r, "consume"),
         session[request[r].session].status = "active", UNCHANGED <<session, token, issued>>
  PROVE  Rotation'
<1>1. request[r].op = "refresh"
  BY Rotated, Owned DEF WellShaped
<1>2. Moves(r, "consume")
  BY Rotated, Unpacked, GotoEffect DEF Others, Steps, Moves
<1>3. Current(r)'
  <2>1. token[request[r].grant].status = "active" => session[request[r].session].access = request[r].grant
    BY <1>1, Rotated, RefreshServes DEF HalvesAgree
  <2> QED BY <1>2, <2>1 DEF Current, At, Moves
<1>4. ASSUME NEW q \in Request, q # r PROVE Current(q)'
  BY <1>2, <1>4, Rotated DEF Current, At, Moves, Others
<1>5. ASSUME NEW q \in Request PROVE OwnsFamily(q)'
  BY <1>2, Rotated DEF OwnsFamily, Rotating, At, Moves, Others
<1>6. RotatesAlone'
  BY <1>2, Rotated DEF RotatesAlone, Rotating, At, Moves, Others
<1>7. ParentsAreRotated' /\ OneLiveToken' /\ LineageIsAChain' /\ HalvesAgree'
  BY Rotated DEF ParentsAreRotated, OneLiveToken, LineageIsAChain, HalvesAgree
<1> QED BY <1>3, <1>4, <1>5, <1>6, <1>7 DEF Rotation, RefreshIsCurrent, RotationOwnsFamily

(* The compare-and-set succeeds: nobody else was rotating the family, for  *)
(* the token it consumed was usable, and now no token of the family is.    *)
LEMMA ConsumedRotates ==
  ASSUME RotInv, NEW r \in Request, request[r].at = "consume",
         token[request[r].grant].status = "active",
         token' = [token EXCEPT ![request[r].grant].status = "rotated"],
         Goto(r, "createChild"), UNCHANGED <<session, issued>>
  PROVE  Rotation'
<1> DEFINE g == request[r].grant
           s == request[r].session
<1>1. request[r].op = "refresh"
  BY Rotated, Owned DEF WellShaped
<1>2. /\ g \in Grant /\ g \in issued /\ s \in Session /\ token[g].session = s
      /\ session[s].access = g /\ token[g].status = "active"
  BY <1>1, Rotated, RefreshServes DEF Current, At
<1>3. Moves(r, "createChild") /\ request'[r].op = "refresh"
  BY <1>1, Rotated, Unpacked, GotoEffect DEF Others, Steps, Moves
<1>4. \A x \in Grant :
        /\ token'[x].status = IF x = g THEN "rotated" ELSE token[x].status
        /\ token'[x].session = token[x].session /\ token'[x].parent = token[x].parent
        /\ token'[x].replacedBy = token[x].replacedBy
  BY <1>2, Rotated, Unpacked, RotateEffect
<1>5. \A x \in Grant : token'[x].session = s => token'[x].status # "active"
  BY <1>2, <1>4, Rotated DEF OneLiveToken
<1>6. \A q \in Request : Rotating(q) => request[q].session # s
  BY <1>2, RotatingServes
<1>7. \A x \in Grant : token[x].parent # g
  BY <1>2, Rotated, NoneAssumption DEF ParentsAreRotated
<1>8. \A q \in Request : q # r => request'[q] = request[q]
  BY <1>3 DEF Moves, Others
<1>9. \A q \in Request : request[q].op = "refresh" => request[q].grant \in Grant
  BY Rotated, RefreshServes
<1> HIDE DEF g
<1>10. ASSUME NEW q \in Request PROVE Current(q)'
  <2>1. CASE q = r
    BY <1>3, <2>1 DEF Current, At, Moves
  <2>2. CASE q # r
    BY <1>4, <1>8, <1>9, <2>2, Rotated DEF Current, At
  <2> QED BY <2>1, <2>2
<1>11. ASSUME NEW q \in Request PROVE OwnsFamily(q)'
  <2>1. CASE q = r
    BY <1>2, <1>3, <1>4, <1>5, <1>7, <2>1 DEF OwnsFamily, Rotating, At, Moves, g
  <2>2. CASE q # r
    BY <1>4, <1>8, <1>9, <2>2, Rotated DEF OwnsFamily, Rotating, At
  <2> QED BY <2>1, <2>2
<1>12. RotatesAlone'
  BY <1>3, <1>6, <1>8, Rotated DEF RotatesAlone, Rotating, At, Moves
<1>13. ParentsAreRotated'
  BY <1>4, Rotated, LinksAreGrants DEF ParentsAreRotated
<1>14. OneLiveToken'
  BY <1>4, Rotated DEF OneLiveToken
<1>15. LineageIsAChain'
  BY <1>4, Rotated, LinksAreGrants DEF LineageIsAChain
<1>16. HalvesAgree'
  BY <1>4, Rotated, Owned DEF HalvesAgree
<1> QED BY <1>10, <1>11, <1>12, <1>13, <1>14, <1>15, <1>16
  DEF Rotation, RefreshIsCurrent, RotationOwnsFamily

(* The child is created while its rotation owns the family. *)
LEMMA CreateChildRotates ==
  ASSUME RotInv, NEW r \in Request, RefreshCreateChild(r)
  PROVE  Rotation'
<1> DEFINE s == request[r].session
           g == request[r].grant
           h == request[r].child
<1>1. /\ request[r].at = "createChild" /\ request[r].op = "refresh" /\ Rotating(r)
      /\ UNCHANGED <<session, issued>>
  BY Rotated, Owned DEF RefreshCreateChild, WellShaped, Rotating, At
<1>2. /\ s \in Session /\ h \in Grant /\ h \notin issued /\ g \in Grant /\ g \in issued
      /\ token[g].session = s /\ token[g].status = "rotated" /\ session[s].access = g /\ g # h
  BY <1>1, RotatingServes
<1>3. Moves(r, "attach")
  BY Rotated, Unpacked, GotoEffect DEF Others, Steps, RefreshCreateChild, Moves
<1>4. /\ token'[h].status = "active" /\ token'[h].session = s /\ token'[h].parent = g
      /\ token'[h].replacedBy = None
      /\ \A x \in Grant : x # h => token'[x] = token[x]
  BY <1>2, Rotated, Unpacked DEF RefreshCreateChild, NewToken
<1>5. /\ \A x \in Grant : token[x].session = s => token[x].status # "active"
      /\ \A x \in Grant : token[x].parent # g
  BY <1>1, Rotated DEF OwnsFamily, At
<1>6. token[h].status = "absent" /\ token[h].parent = None /\ token[h].replacedBy = None
  <2>1. ChildIsFresh /\ AbsentTokens
    BY Rotated DEF OwnInv, Ownership, Documents
  <2> QED BY <1>1, <1>2, <2>1, NoneAssumption DEF ChildIsFresh, ChildUnborn, At, AbsentTokens
<1>7. \A q \in Request : q # r =>
        /\ request'[q] = request[q]
        /\ request[q].op = "refresh" => request[q].grant \in Grant /\ request[q].grant # h
        /\ Rotating(q) => request[q].session # s /\ request[q].grant # g
  BY <1>1, <1>2, <1>3, Rotated, RefreshServes DEF Moves, Others, RotatesAlone, Rotating
<1> HIDE DEF s, g, h
<1>8. ASSUME NEW q \in Request PROVE Current(q)'
  <2>1. CASE q = r
    BY <1>3, <2>1 DEF Current, At, Moves
  <2>2. CASE q # r
    BY <1>1, <1>4, <1>7, <2>2, Rotated DEF Current, At
  <2> QED BY <2>1, <2>2
<1>9. ASSUME NEW q \in Request PROVE OwnsFamily(q)'
  <2>1. CASE q = r
    BY <1>1, <1>2, <1>3, <1>4, <1>5, <2>1 DEF OwnsFamily, Rotating, At, Moves, s, g, h
  <2>2. CASE q # r
    BY <1>1, <1>4, <1>7, <2>2, Rotated DEF OwnsFamily, Rotating, At
  <2> QED BY <2>1, <2>2
<1>10. RotatesAlone'
  BY <1>1, <1>3, <1>7, Rotated DEF RotatesAlone, Rotating, At, Moves, s
<1>11. ParentsAreRotated'
  BY <1>2, <1>4, <1>6, Rotated, LinksAreGrants DEF ParentsAreRotated
<1>12. OneLiveToken'
  BY <1>2, <1>4, <1>5, Rotated DEF OneLiveToken
<1>13. LineageIsAChain'
  BY <1>2, <1>4, <1>5, <1>6, Rotated, LinksAreGrants, NoneAssumption DEF LineageIsAChain
<1>14. HalvesAgree'
  BY <1>1, <1>2, <1>4, Rotated, Owned DEF HalvesAgree
<1> QED BY <1>8, <1>9, <1>10, <1>11, <1>12, <1>13, <1>14
  DEF Rotation, RefreshIsCurrent, RotationOwnsFamily

(* The session moves to the child, which no client holds yet. *)
LEMMA AttachChildRotates ==
  ASSUME RotInv, NEW r \in Request, RefreshAttachChild(r)
  PROVE  Rotation'
<1> DEFINE s == request[r].session
           h == request[r].child
<1>1. /\ request[r].at = "attach" /\ request[r].op = "refresh" /\ Rotating(r)
      /\ UNCHANGED <<token, issued>>
  BY DEF RefreshAttachChild, Rotating, At
<1>2. /\ s \in Session /\ h \in Grant
      /\ \A x \in issued : token[x].session = s => token[x].status # "active"
  BY <1>1, RotatingServes
<1>3. Moves(r, "link")
  BY Rotated, Unpacked, GotoEffect DEF Others, Steps, RefreshAttachChild, Moves
<1>4. \A x \in Session :
        /\ session'[x].status = session[x].status /\ session'[x].access = session[x].access
        /\ session'[x].current = IF x = s THEN h ELSE session[x].current
  BY <1>2, Rotated, Unpacked, AttachEffect DEF RefreshAttachChild
<1>5. \A q \in Request : q # r =>
        /\ request'[q] = request[q]
        /\ request[q].op = "refresh" => request[q].session \in Session
        /\ Rotating(q) => request[q].session # s
  BY <1>1, <1>3, Rotated, RefreshServes DEF Moves, Others, RotatesAlone
<1> HIDE DEF s, h
<1>6. ASSUME NEW q \in Request PROVE Current(q)'
  <2>1. CASE q = r
    BY <1>2, <1>3, <1>4, <2>1 DEF Current, At, Moves, s, h
  <2>2. CASE q # r
    BY <1>1, <1>4, <1>5, <2>2, Rotated DEF Current, At, Rotating
  <2> QED BY <2>1, <2>2
<1>7. ASSUME NEW q \in Request PROVE OwnsFamily(q)'
  <2>1. CASE q = r
    BY <1>1, <1>2, <1>3, <1>4, <2>1, Rotated DEF OwnsFamily, Rotating, At, Moves, s
  <2>2. CASE q # r
    BY <1>1, <1>4, <1>5, <2>2, Rotated DEF OwnsFamily, Rotating, At
  <2> QED BY <2>1, <2>2
<1>8. RotatesAlone'
  BY <1>1, <1>3, <1>5, Rotated DEF RotatesAlone, Rotating, At, Moves, s
<1>9. ParentsAreRotated' /\ OneLiveToken' /\ LineageIsAChain'
  BY <1>1, Rotated DEF ParentsAreRotated, OneLiveToken, LineageIsAChain
<1>10. HalvesAgree'
  BY <1>1, <1>2, <1>4, Rotated, Owned DEF HalvesAgree
<1> QED BY <1>6, <1>7, <1>8, <1>9, <1>10
  DEF Rotation, RefreshIsCurrent, RotationOwnsFamily

(* The parent gets its forward link; the child already names the parent. *)
LEMMA LinkRotates ==
  ASSUME RotInv, NEW r \in Request, RefreshLinkParent(r)
  PROVE  Rotation'
<1> DEFINE g == request[r].grant
           h == request[r].child
<1>1. /\ request[r].at = "link" /\ request[r].op = "refresh"
      /\ UNCHANGED <<session, issued>>
  BY Rotated, Owned DEF RefreshLinkParent, WellShaped
<1>2. g \in Grant /\ h \in Grant /\ token[h].parent = g
  BY <1>1, Rotated, RefreshServes, Owned DEF RefreshOwns, At
<1>3. Moves(r, "updateAccess")
  BY Rotated, Unpacked, GotoEffect DEF Others, Steps, RefreshLinkParent, Moves
<1>4. \A x \in Grant :
        /\ token'[x].status = token[x].status /\ token'[x].session = token[x].session
        /\ token'[x].parent = token[x].parent
        /\ token'[x].replacedBy = IF x = g THEN h ELSE token[x].replacedBy
  BY <1>2, Rotated, Unpacked, LinkEffect DEF RefreshLinkParent
<1>5. \A q \in Request :
        /\ request'[q].op = request[q].op /\ request'[q].session = request[q].session
        /\ request'[q].grant = request[q].grant /\ request'[q].child = request[q].child
        /\ q # r => request'[q] = request[q]
        /\ request[q].op = "refresh" => request[q].grant \in Grant
  BY <1>3, Rotated, RefreshServes DEF Moves, Others
<1> HIDE DEF g, h
<1>6. ASSUME NEW q \in Request PROVE Current(q)'
  BY <1>1, <1>3, <1>4, <1>5, Rotated DEF Current, At, Moves
<1>7. ASSUME NEW q \in Request PROVE OwnsFamily(q)'
  BY <1>1, <1>3, <1>4, <1>5, Rotated DEF OwnsFamily, Rotating, At, Moves
<1>8. RotatesAlone'
  BY <1>1, <1>3, <1>5, Rotated DEF RotatesAlone, Rotating, At, Moves
<1>9. ParentsAreRotated' /\ OneLiveToken'
  BY <1>4, Rotated, LinksAreGrants DEF ParentsAreRotated, OneLiveToken
<1>10. LineageIsAChain'
  BY <1>2, <1>4, Rotated, LinksAreGrants DEF LineageIsAChain
<1>11. HalvesAgree'
  BY <1>1, <1>4, Rotated, Owned DEF HalvesAgree
<1> QED BY <1>6, <1>7, <1>8, <1>9, <1>10, <1>11
  DEF Rotation, RefreshIsCurrent, RotationOwnsFamily

(* The client receives the child, whose access token becomes the accepted  *)
(* one if the session is still active.                                     *)
LEMMA AnswerRotates ==
  ASSUME RotInv, NEW r \in Request, RefreshUpdateAccessAndAnswer(r)
  PROVE  Rotation'
<1> DEFINE s == request[r].session
           h == request[r].child
<1>1. /\ request[r].at = "updateAccess" /\ request[r].op = "refresh" /\ Rotating(r)
      /\ issued' = issued \cup {h} /\ UNCHANGED token
  BY Rotated, Owned DEF RefreshUpdateAccessAndAnswer, WellShaped, Rotating, At
<1>2. /\ s \in Session /\ h \in Grant /\ session[s].current = h /\ token[h].session = s
      /\ \A x \in issued : token[x].session = s => token[x].status # "active"
  BY <1>1, Rotated, RotatingServes, Owned DEF RefreshOwns, Current, At
<1>3. Ends(r)
  BY Rotated, Unpacked DEF Others, RefreshUpdateAccessAndAnswer, Ends
<1>4. \A x \in Session :
        /\ session'[x].status = session[x].status /\ session'[x].current = session[x].current
        /\ session'[x].access = IF x = s /\ session[x].status = "active" THEN h ELSE session[x].access
  BY <1>2, Rotated, Unpacked, UpdateAccessEffect DEF RefreshUpdateAccessAndAnswer
<1>5. request'[r].op = "none"
  BY <1>3 DEF Ends, Idle
<1>6. \A q \in Request : q # r =>
        /\ request'[q] = request[q]
        /\ request[q].op = "refresh" =>
             /\ request[q].session \in Session /\ request[q].grant \in issued
             /\ token[request[q].grant].session = request[q].session
        /\ Rotating(q) => request[q].session # s
  BY <1>1, <1>3, Rotated, RefreshServes DEF Ends, Others, RotatesAlone
<1> HIDE DEF s, h
<1>7. ASSUME NEW q \in Request PROVE Current(q)'
  <2>1. CASE q = r
    BY <1>5, <2>1 DEF Current
  <2>2. CASE q # r
    BY <1>1, <1>2, <1>4, <1>6, <2>2, Rotated DEF Current, At
  <2> QED BY <2>1, <2>2
<1>8. ASSUME NEW q \in Request PROVE OwnsFamily(q)'
  <2>1. CASE q = r
    BY <1>5, <2>1 DEF OwnsFamily, Rotating
  <2>2. CASE q # r
    BY <1>1, <1>4, <1>6, <2>2, Rotated DEF OwnsFamily, Rotating, At
  <2> QED BY <2>1, <2>2
<1>9. RotatesAlone'
  BY <1>5, <1>6, Rotated DEF RotatesAlone, Rotating, At
<1>10. ParentsAreRotated' /\ OneLiveToken' /\ LineageIsAChain'
  BY <1>1, Rotated DEF ParentsAreRotated, OneLiveToken, LineageIsAChain
<1>11. HalvesAgree'
  BY <1>1, <1>2, <1>4, Rotated, Owned DEF HalvesAgree
<1> QED BY <1>7, <1>8, <1>9, <1>10, <1>11
  DEF Rotation, RefreshIsCurrent, RotationOwnsFamily

-----------------------------------------------------------------------------
(* Logins: they work on a session no rotation knows. *)

LEMMA CreateSessionRotates ==
  ASSUME RotInv, NEW r \in Request, LoginCreateSession(r)
  PROVE  Rotation'
<1> DEFINE s == request[r].session
<1>1. /\ request[r].at = "createSession" /\ request[r].op = "login"
      /\ UNCHANGED <<token, issued>>
  BY Rotated, Owned DEF LoginCreateSession, WellShaped
<1>2. s \in Session /\ \A g \in Grant : token[g].session # s
  <2>1. LoginOwns(r)
    BY Rotated, Owned
  <2> QED BY <1>1, <2>1, Rotated, LoginUnattached DEF LoginOwns, At
<1>3. Moves(r, "createToken")
  BY Rotated, Unpacked, GotoEffect DEF Others, Steps, LoginCreateSession, Moves
<1>4. \A x \in Session : x # s => session'[x] = session[x]
  BY <1>2, Rotated, Unpacked DEF LoginCreateSession
<1>5. request'[r].op = "login"
  BY <1>1, <1>3 DEF Moves
<1>6. \A q \in Request : q # r =>
        /\ request'[q] = request[q]
        /\ request[q].op = "refresh" => request[q].session \in Session /\ request[q].session # s
  BY <1>1, <1>3, Rotated, RefreshServes DEF Moves, Others
<1> HIDE DEF s
<1>7. ASSUME NEW q \in Request PROVE Current(q)' /\ OwnsFamily(q)'
  BY <1>1, <1>4, <1>5, <1>6, Rotated DEF Current, OwnsFamily, Rotating, At
<1>8. RotatesAlone'
  BY <1>5, <1>6, Rotated DEF RotatesAlone, Rotating, At
<1>9. ParentsAreRotated' /\ OneLiveToken' /\ LineageIsAChain'
  BY <1>1, Rotated DEF ParentsAreRotated, OneLiveToken, LineageIsAChain
<1>10. HalvesAgree'
  BY <1>1, <1>2, <1>4, Rotated, Owned DEF HalvesAgree
<1> QED BY <1>7, <1>8, <1>9, <1>10 DEF Rotation, RefreshIsCurrent, RotationOwnsFamily

LEMMA CreateTokenRotates ==
  ASSUME RotInv, NEW r \in Request, LoginCreateToken(r)
  PROVE  Rotation'
<1> DEFINE s == request[r].session
           h == request[r].child
<1>1. /\ request[r].at = "createToken" /\ request[r].op = "login"
      /\ UNCHANGED <<session, issued>>
  BY Rotated, Owned DEF LoginCreateToken, WellShaped
<1>2. /\ s \in Session /\ h \in Grant /\ \A g \in Grant : token[g].session # s
      /\ h \notin issued /\ token[h].status = "absent"
      /\ token[h].parent = None /\ token[h].replacedBy = None
  <2>1. LoginOwns(r) /\ ChildIsFresh /\ AbsentTokens
    BY Rotated, Owned DEF OwnInv, Ownership, Documents
  <2> QED BY <1>1, <2>1, Rotated, LoginUnattached, NoneAssumption
    DEF LoginOwns, ChildIsFresh, ChildUnborn, AbsentTokens, At
<1>3. Moves(r, "attach")
  BY Rotated, Unpacked, GotoEffect DEF Others, Steps, LoginCreateToken, Moves
<1>4. /\ token'[h].status = "active" /\ token'[h].session = s /\ token'[h].parent = None
      /\ token'[h].replacedBy = None
      /\ \A x \in Grant : x # h => token'[x] = token[x]
  BY <1>2, Rotated, Unpacked DEF LoginCreateToken, NewToken
<1>5. request'[r].op = "login"
  BY <1>1, <1>3 DEF Moves
<1>6. \A q \in Request : q # r =>
        /\ request'[q] = request[q]
        /\ request[q].op = "refresh" =>
             /\ request[q].session # s /\ request[q].grant \in Grant
             /\ request[q].grant # h /\ request[q].grant # None
  BY <1>1, <1>2, <1>3, Rotated, RefreshServes, NoneAssumption DEF Moves, Others
<1> HIDE DEF s, h
<1>7. ASSUME NEW q \in Request PROVE Current(q)' /\ OwnsFamily(q)'
  <2>1. CASE q = r
    BY <1>5, <2>1 DEF Current, OwnsFamily, Rotating
  <2>2. CASE q # r
    BY <1>1, <1>4, <1>6, <2>2, Rotated DEF Current, OwnsFamily, Rotating, At
  <2> QED BY <2>1, <2>2
<1>8. RotatesAlone'
  BY <1>5, <1>6, Rotated DEF RotatesAlone, Rotating, At
<1>9. ParentsAreRotated'
  BY <1>2, <1>4, Rotated, LinksAreGrants DEF ParentsAreRotated
<1>10. OneLiveToken'
  BY <1>2, <1>4, Rotated DEF OneLiveToken
<1>11. LineageIsAChain'
  BY <1>2, <1>4, Rotated, LinksAreGrants, NoneAssumption DEF LineageIsAChain
<1>12. HalvesAgree'
  BY <1>1, <1>2, <1>4, Rotated, Owned DEF HalvesAgree
<1> QED BY <1>7, <1>8, <1>9, <1>10, <1>11, <1>12
  DEF Rotation, RefreshIsCurrent, RotationOwnsFamily

LEMMA LoginAnswerRotates ==
  ASSUME RotInv, NEW r \in Request, LoginAttachAndAnswer(r)
  PROVE  Rotation'
<1> DEFINE s == request[r].session
           h == request[r].child
<1>1. /\ request[r].at = "attach" /\ request[r].op = "login"
      /\ issued' = issued \cup {h} /\ UNCHANGED token
  BY DEF LoginAttachAndAnswer
<1>2. /\ s \in Session /\ h \in Grant /\ session[s].access = h /\ token[h].session = s
      /\ \A g \in Grant : token[g].session = s => g = h
  <2>1. LoginOwns(r)
    BY Rotated, Owned
  <2> QED BY <1>1, <2>1, Rotated, LoginUnattached DEF LoginOwns, At
<1>3. Ends(r)
  BY Rotated, Unpacked DEF Others, LoginAttachAndAnswer, Ends
<1>4. \A x \in Session :
        /\ session'[x].status = session[x].status /\ session'[x].access = session[x].access
        /\ session'[x].current = IF x = s THEN h ELSE session[x].current
  BY <1>2, Rotated, Unpacked, AttachEffect DEF LoginAttachAndAnswer
<1>5. request'[r].op = "none"
  BY <1>3 DEF Ends, Idle
<1>6. \A q \in Request : q # r =>
        /\ request'[q] = request[q]
        /\ request[q].op = "refresh" => request[q].session \in Session /\ request[q].session # s
  BY <1>1, <1>3, Rotated, RefreshServes DEF Ends, Others
<1> HIDE DEF s, h
<1>7. ASSUME NEW q \in Request PROVE Current(q)' /\ OwnsFamily(q)'
  BY <1>1, <1>4, <1>5, <1>6, Rotated DEF Current, OwnsFamily, Rotating, At
<1>8. RotatesAlone'
  BY <1>5, <1>6, Rotated DEF RotatesAlone, Rotating, At
<1>9. ParentsAreRotated' /\ OneLiveToken' /\ LineageIsAChain'
  BY <1>1, Rotated DEF ParentsAreRotated, OneLiveToken, LineageIsAChain
<1>10. HalvesAgree'
  BY <1>1, <1>2, <1>4, Rotated, Owned DEF HalvesAgree
<1> QED BY <1>7, <1>8, <1>9, <1>10 DEF Rotation, RefreshIsCurrent, RotationOwnsFamily

-----------------------------------------------------------------------------
(* The quiet steps. *)

LEMMA SameDocuments ==
  ASSUME UNCHANGED <<session, token>>
  PROVE  Closing /\ Voiding
BY DEF Closing, Voiding

(* A handler begins, gives up or ends, and no document changes. *)
LEMMA AssignQuiet ==
  ASSUME RotInv, NEW r \in Request, NEW state,
         request' = [request EXCEPT ![r] = state],
         state.op = "refresh" => state.at = "checkSession",
         UNCHANGED <<session, token, issued>>
  PROVE  Quiet
<1>1. \A q \in Request : request'[q] = IF q = r THEN state ELSE request[q]
  BY Rotated, Unpacked
<1> QED BY <1>1, SameDocuments DEF Quiet

LEMMA ArriveQuiet ==
  ASSUME RotInv, NEW r \in Request, Arrive(r)
  PROVE  Quiet
<1>1. ASSUME NEW s \in Session, NEW g \in Grant, LoginSweepSessions(r, s, g) PROVE Quiet
  <2>1. \A q \in Request : request'[q].op = "refresh" => request'[q] = request[q]
    BY <1>1, Rotated, Unpacked DEF LoginSweepSessions, Serving
  <2> QED BY <1>1, <2>1, Rotated, SweepSessionsEffect DEF Quiet, LoginSweepSessions
<1>2. ASSUME NEW op, NEW s, NEW g, NEW todo, op # "refresh",
             request' = [request EXCEPT ![r] = Revoking(op, s, g, todo)],
             UNCHANGED <<session, token, issued>>
      PROVE  Quiet
  BY <1>2, AssignQuiet DEF Revoking
<1>3. ASSUME NEW g, NEW h, NEW s, UNCHANGED <<session, token, issued>>,
             request' = [request EXCEPT ![r] = Serving("refresh", "checkSession", s, g, h)]
      PROVE  Quiet
  BY <1>3, AssignQuiet DEF Serving
<1>4. ASSUME NEW s \in Session, NEW g \in Grant,
             LogoutBySession(r, s, g) \/ LogoutAll(r, s, g) \/ RejectAccess(r, s, g)
      PROVE  Quiet
  BY <1>2, <1>4 DEF LogoutBySession, LogoutAll, RejectAccess
<1>5. ASSUME NEW s \in Session, RefreshUnknownToken(r, s) PROVE Quiet
  BY <1>2, <1>5 DEF RefreshUnknownToken
<1>6. ASSUME NEW g \in Grant, LogoutByCookie(r, g) PROVE Quiet
  BY <1>2, <1>6 DEF LogoutByCookie
<1>7. ASSUME NEW g \in Grant, RefreshFindToken(r, g) PROVE Quiet
  BY <1>2, <1>3, <1>7 DEF RefreshFindToken
<1> QED BY <1>1, <1>4, <1>5, <1>6, <1>7 DEF Arrive

(* A pending revocation write. *)
LEMMA WriteQuiet ==
  ASSUME RotInv, NEW r \in Request,
         \/ WriteTokens(r) \/ WriteOtherTokens(r)
         \/ WriteFamilySession(r) \/ WriteDirect(r)
         \/ WriteDeactivate(r) \/ WriteOtherSessions(r)
  PROVE  Quiet
<1>1. PICK write : Pending(r, write) /\ Done(r, write) /\ UNCHANGED issued
  BY DEF WriteTokens, WriteOtherTokens, WriteFamilySession, WriteDirect, WriteDeactivate,
         WriteOtherSessions
<1>2. \A q \in Request : request'[q].op = "refresh" => request'[q] = request[q]
  <2>1. request[r].op # "refresh"
    BY <1>1, Rotated, Owned DEF Pending, WellShaped
  <2> QED BY <1>1, <2>1, Rotated, Unpacked, DoneEffect
<1>3. Closing
  <2>1. CASE WriteTokens(r) \/ WriteOtherTokens(r)
    BY <2>1 DEF WriteTokens, WriteOtherTokens, Closing
  <2>2. CASE WriteFamilySession(r) \/ WriteDirect(r) \/ WriteOtherSessions(r)
    <3>1. \A s \in Session : session'[s] = session[s] \/ session'[s] = RevokeSession(session[s])
      BY <2>2, Rotated, Unpacked DEF WriteFamilySession, WriteDirect, WriteOtherSessions
    <3> QED BY <3>1, Rotated, Unpacked, RevokeSessionEffect DEF Closing
  <2>3. CASE WriteDeactivate(r)
    <3>1. session[request[r].session].status # "absent"
      BY <2>3, Rotated, Owned DEF WriteDeactivate, Pending, Closes, At
    <3> QED BY <2>3, <3>1, Rotated, Unpacked, DeactivateEffect DEF WriteDeactivate, Closing
  <2> QED BY <2>1, <2>2, <2>3
<1>4. Voiding
  <2>1. CASE WriteTokens(r) \/ WriteOtherTokens(r)
    <3>1. \A g \in Grant : token'[g] = token[g] \/ token'[g] = RevokeToken(token[g])
      BY <2>1 DEF WriteTokens, WriteOtherTokens
    <3> QED BY <3>1, Rotated, Unpacked, RevokeTokenEffect DEF Voiding
  <2>2. CASE UNCHANGED token
    BY <2>2 DEF Voiding
  <2> QED BY <2>1, <2>2
    DEF WriteFamilySession, WriteDirect, WriteDeactivate, WriteOtherSessions
<1> QED BY <1>1, <1>2, <1>3, <1>4 DEF Quiet

(* The other quiet steps of a handler under way. *)
LEMMA SweepTokensQuiet ==
  ASSUME RotInv, NEW r \in Request, LoginSweepTokens(r)
  PROVE  Quiet
<1>1. \A g \in Grant : token'[g] = token[g] \/ token'[g] = RevokeToken(token[g])
  BY DEF LoginSweepTokens
<1>2. Voiding /\ Closing
  BY <1>1, Rotated, Unpacked, RevokeTokenEffect DEF Voiding, Closing, LoginSweepTokens
<1>3. request[r].op = "login"
  BY Rotated, Owned DEF LoginSweepTokens, WellShaped
<1>4. \A q \in Request : request'[q].op = "refresh" => request'[q] = request[q]
  BY <1>3, Rotated, Unpacked, GotoEffect DEF LoginSweepTokens, Steps
<1> QED BY <1>2, <1>4 DEF Quiet, LoginSweepTokens

-----------------------------------------------------------------------------
(* The whole next-state relation. *)

LEMMA ContinueRotates ==
  ASSUME RotInv, NEW r \in Request, Continue(r)
  PROVE  Rotation'
<1>1. ASSUME NEW op \in {"replay", "expiry"}, NEW s, NEW g, NEW todo,
             request' = [request EXCEPT ![r] = Revoking(op, s, g, todo)],
             UNCHANGED <<session, token, issued>>
      PROVE  Rotation'
  BY <1>1, AssignQuiet, QuietRotates DEF Revoking
<1>2. ASSUME LoginBlocked(r) \/ AnswerRevocation(r) PROVE Rotation'
  BY <1>2, AssignQuiet, QuietRotates DEF LoginBlocked, AnswerRevocation, Idle
<1>3. ASSUME NEW bound \in BOOLEAN, RefreshCheckSession(r, bound) PROVE Rotation'
  BY <1>1, <1>3, ConsumeNextRotates DEF RefreshCheckSession
<1>4. ASSUME RefreshConsume(r) PROVE Rotation'
  <2>1. CASE token[request[r].grant].status = "active"
    BY <1>4, <2>1, ConsumedRotates DEF RefreshConsume
  <2>2. CASE token[request[r].grant].status # "active"
    BY <1>1, <1>4, <2>2 DEF RefreshConsume
  <2> QED BY <2>1, <2>2
<1> QED
  BY <1>2, <1>3, <1>4, SweepTokensQuiet, WriteQuiet, QuietRotates, CreateSessionRotates,
     CreateTokenRotates, LoginAnswerRotates, CreateChildRotates, AttachChildRotates,
     LinkRotates, AnswerRotates
  DEF Continue

LEMMA InitRotates == Init => RotInv
<1> SUFFICES ASSUME Init PROVE Rotation
  BY InitOwns DEF RotInv
<1>1. \A q \in Request : request[q].op = "none"
  BY DEF Init, Idle
<1>2. \A q \in Request : Current(q) /\ OwnsFamily(q) /\ ~Rotating(q)
  BY <1>1 DEF Current, OwnsFamily, Rotating
<1>3. RotatesAlone
  BY <1>2 DEF RotatesAlone
<1>4. ParentsAreRotated /\ OneLiveToken /\ LineageIsAChain /\ HalvesAgree
  BY DEF Init, NoToken, ParentsAreRotated, OneLiveToken, LineageIsAChain, HalvesAgree
<1> QED BY <1>2, <1>3, <1>4 DEF Rotation, RefreshIsCurrent, RotationOwnsFamily

LEMMA StepRotates == RotInv /\ [Next]_vars => RotInv'
<1> SUFFICES ASSUME RotInv, [Next]_vars PROVE Rotation'
  BY StepOwns DEF RotInv
<1>1. ASSUME NEW r \in Request, Arrive(r) \/ Continue(r) PROVE Rotation'
  BY <1>1, ArriveQuiet, QuietRotates, ContinueRotates
<1>2. CASE Tick
  BY <1>2, SameDocuments, QuietRotates DEF Tick, Quiet
<1>3. CASE Crash
  <2>1. \A q \in Request : request'[q].op = "none"
    BY <1>3 DEF Crash, Idle
  <2> QED BY <1>3, <2>1, SameDocuments, QuietRotates DEF Crash, Quiet
<1>4. CASE UNCHANGED vars
  BY <1>4, SameDocuments, QuietRotates DEF vars, Quiet
<1> QED BY <1>1, <1>2, <1>3, <1>4 DEF Next

LEMMA RotationInvariance == Spec => []RotInv
BY InitRotates, StepRotates, PTL DEF Spec

(* The inductive invariant as the runs check it. *)
THEOREM InductiveInvariant == Spec => []IInv
<1>1. RotInv => IInv
  BY DEF RotInv, OwnInv, TypeInv, IInv
<1> QED BY <1>1, RotationInvariance, PTL

(* Whatever logins, rotations and revocations interleave, a family never   *)
(* has two usable refresh tokens.                                          *)
THEOREM OneTokenLives == Spec => []OneLiveToken
<1>1. RotInv => OneLiveToken
  BY DEF RotInv, Rotation
<1> QED BY <1>1, RotationInvariance, PTL

(* The tokens of a family form a chain: no token has two successors, and   *)
(* the forward links agree with the backward ones.                         *)
THEOREM LineageForksNowhere == Spec => []LineageIsAChain
<1>1. RotInv => LineageIsAChain
  BY DEF RotInv, Rotation
<1> QED BY <1>1, RotationInvariance, PTL

(* A client whose refresh token would still rotate holds the accepted      *)
(* access token too.                                                       *)
THEOREM HalvesStayTogether == Spec => []HalvesAgree
<1>1. RotInv => HalvesAgree
  BY DEF RotInv, Rotation
<1> QED BY <1>1, RotationInvariance, PTL

-----------------------------------------------------------------------------
(* The services implement CredentialChain: each step of a handler is a     *)
(* step of the chain or does not show.                                     *)

(* The chain as the services' documents show it. *)
Phase == [s \in Session |-> session[s].status]
Accepted == [s \in Session |-> session[s].access]
Spent == {g \in Grant : token[g].status = "rotated"}

Shows == <<Phase, Accepted, Spent>>

(* Steps that only close documents, several sessions at once perhaps. *)
LEMMA ClosingShows ==
  ASSUME RotInv, Closing, Voiding
  PROVE  \E S \in SUBSET Session : Chain!Close(S)
<1> DEFINE S == {s \in Session : session'[s].status # session[s].status}
<1>1. \A s \in S : session[s].status = "active" /\ session'[s].status = "revoked"
  BY Rotated, Unpacked DEF Closing, SessionDoc
<1>2. Phase' = [s \in Session |-> IF s \in S THEN "revoked" ELSE Phase[s]]
  BY <1>1 DEF Phase
<1>3. Accepted' = Accepted
  BY DEF Closing, Accepted
<1>4. Spent' = Spent
  BY DEF Voiding, Spent
<1>5. \A s \in S : Phase[s] = "active"
  BY <1>1 DEF Phase
<1> HIDE DEF S
<1>6. Chain!Close(S)
  BY <1>2, <1>3, <1>4, <1>5 DEF Chain!Close, Phase, Accepted, Spent
<1>7. S \in SUBSET Session
  BY DEF S
<1> QED BY <1>6, <1>7 DEF Chain!Close

(* A login opens its session with a grant nobody has seen. *)
LEMMA CreateSessionShows ==
  ASSUME RotInv, NEW r \in Request, LoginCreateSession(r)
  PROVE  \E s \in Session, g \in Grant : Chain!Open(s, g)
<1> DEFINE s == request[r].session
           h == request[r].child
<1>1. request[r].at = "createSession" /\ request[r].op = "login" /\ UNCHANGED token
  BY Rotated, Owned DEF LoginCreateSession, WellShaped
<1>2. /\ s \in Session /\ h \in Grant /\ session[s].status = "absent"
      /\ \A x \in Session : session[x].access # h
      /\ token[h].status = "absent"
  <2>1. LoginOwns(r) /\ ChildIsFresh
    BY Rotated, Owned DEF OwnInv, Ownership
  <2> QED BY <1>1, <2>1, Rotated, LoginUnattached, NoneAssumption
    DEF LoginOwns, ChildIsFresh, ChildUnborn, At
<1>3. /\ session'[s].status = "active" /\ session'[s].access = h
      /\ \A x \in Session : x # s => session'[x] = session[x]
  BY <1>2, Rotated, Unpacked DEF LoginCreateSession
<1> HIDE DEF s, h
<1>4. Phase' = [Phase EXCEPT ![s] = "active"] /\ Accepted' = [Accepted EXCEPT ![s] = h]
  BY <1>2, <1>3 DEF Phase, Accepted
<1>5. Spent' = Spent /\ h \notin Spent
  BY <1>1, <1>2 DEF Spent
<1>6. Phase[s] = "absent" /\ \A x \in Session : Accepted[x] # h
  BY <1>2 DEF Phase, Accepted
<1>7. Chain!Open(s, h)
  BY <1>4, <1>5, <1>6 DEF Chain!Open, Chain!Unseen, Phase, Accepted, Spent
<1> QED BY <1>2, <1>7 DEF Chain!Open

(* The compare-and-set redeems the accepted grant, once. *)
LEMMA ConsumedShows ==
  ASSUME RotInv, NEW r \in Request, request[r].at = "consume",
         token[request[r].grant].status = "active",
         token' = [token EXCEPT ![request[r].grant].status = "rotated"],
         UNCHANGED session
  PROVE  \E s \in Session : Chain!Redeem(s)
<1> DEFINE g == request[r].grant
           s == request[r].session
<1>1. request[r].op = "refresh"
  BY Rotated, Owned DEF WellShaped
<1>2. /\ g \in Grant /\ s \in Session /\ session[s].access = g /\ g # None
      /\ token[g].status = "active"
  BY <1>1, Rotated, RefreshServes, NoneAssumption DEF Current, At
<1>3. \A x \in Grant : token'[x].status = IF x = g THEN "rotated" ELSE token[x].status
  BY <1>2, Rotated, Unpacked, RotateEffect
<1> HIDE DEF g, s
<1>4. Phase' = Phase /\ Accepted' = Accepted
  BY DEF Phase, Accepted
<1>5. Accepted[s] = g /\ g \notin Spent /\ Spent' = Spent \cup {g}
  BY <1>2, <1>3 DEF Accepted, Spent
<1>6. Chain!Redeem(s)
  BY <1>2, <1>4, <1>5 DEF Chain!Redeem, Phase, Accepted, Spent
<1> QED BY <1>2, <1>6 DEF Chain!Redeem

(* The answer renews the accepted grant of an active session. *)
LEMMA AnswerShows ==
  ASSUME RotInv, NEW r \in Request, RefreshUpdateAccessAndAnswer(r)
  PROVE  (\E s \in Session, g \in Grant : Chain!Renew(s, g)) \/ UNCHANGED Shows
<1> DEFINE s == request[r].session
           h == request[r].child
<1>1. /\ request[r].at = "updateAccess" /\ request[r].op = "refresh" /\ Rotating(r)
      /\ UNCHANGED token
  BY Rotated, Owned DEF RefreshUpdateAccessAndAnswer, WellShaped, Rotating, At
<1>2. /\ s \in Session /\ h \in Grant
      /\ token[session[s].access].status = "rotated" /\ session[s].access \in Grant
      /\ token[h].status # "rotated" /\ \A x \in Session : session[x].access # h
  <2>1. RefreshOwns(r)
    BY Rotated, Owned
  <2> QED BY <1>1, <2>1, RotatingServes DEF RefreshOwns, At
<1>3. \A x \in Session :
        /\ session'[x].status = session[x].status
        /\ session'[x].access = IF x = s /\ session[x].status = "active" THEN h ELSE session[x].access
  BY <1>2, Rotated, Unpacked, UpdateAccessEffect DEF RefreshUpdateAccessAndAnswer
<1> HIDE DEF s, h
<1>4. Phase' = Phase /\ Spent' = Spent
  BY <1>1, <1>3 DEF Phase, Spent
<1>5. CASE session[s].status = "active"
  <2>1. Accepted' = [Accepted EXCEPT ![s] = h]
    BY <1>2, <1>3, <1>5 DEF Accepted
  <2>2. Phase[s] = "active" /\ Accepted[s] \in Spent /\ h \notin Spent
    BY <1>2, <1>5 DEF Phase, Accepted, Spent
  <2>3. \A x \in Session : Accepted[x] # h
    BY <1>2 DEF Accepted
  <2>4. Chain!Renew(s, h)
    BY <1>4, <2>1, <2>2, <2>3 DEF Chain!Renew, Chain!Unseen, Phase, Accepted, Spent
  <2> QED BY <1>2, <2>4 DEF Chain!Renew
<1>6. CASE session[s].status # "active"
  <2>1. Accepted' = Accepted
    BY <1>3, <1>6 DEF Accepted
  <2> QED BY <1>4, <2>1 DEF Shows
<1> QED BY <1>5, <1>6

(* The writes between redeeming and renewing do not show. *)
LEMMA CreateTokenHides ==
  ASSUME RotInv, NEW r \in Request, LoginCreateToken(r) \/ RefreshCreateChild(r)
  PROVE  UNCHANGED Shows
<1> DEFINE h == request[r].child
<1>1. h \in Grant /\ token[h].status = "absent"
  <2>1. ChildIsFresh /\ WellShaped(request[r])
    BY Rotated, Owned DEF OwnInv, Ownership
  <2> QED BY <2>1, NoneAssumption
    DEF LoginCreateToken, RefreshCreateChild, WellShaped, ChildIsFresh, ChildUnborn, At
<1>2. /\ UNCHANGED session /\ token'[h].status = "active"
      /\ \A x \in Grant : x # h => token'[x] = token[x]
  BY <1>1, Rotated, Unpacked DEF LoginCreateToken, RefreshCreateChild, NewToken
<1> HIDE DEF h
<1> QED BY <1>1, <1>2 DEF Shows, Phase, Accepted, Spent

LEMMA AttachHides ==
  ASSUME RotInv, NEW r \in Request, LoginAttachAndAnswer(r) \/ RefreshAttachChild(r)
  PROVE  UNCHANGED Shows
<1>1. request[r].child \in Grant
  BY Rotated, Owned DEF LoginAttachAndAnswer, RefreshAttachChild, WellShaped
<1>2. /\ UNCHANGED token
      /\ \A x \in Session : /\ session'[x].status = session[x].status
                            /\ session'[x].access = session[x].access
  BY <1>1, Rotated, Unpacked, AttachEffect DEF LoginAttachAndAnswer, RefreshAttachChild
<1> QED BY <1>2 DEF Shows, Phase, Accepted, Spent

LEMMA LinkHides ==
  ASSUME RotInv, NEW r \in Request, RefreshLinkParent(r)
  PROVE  UNCHANGED Shows
<1>1. request[r].grant \in Grant /\ request[r].child \in Grant
  BY Rotated, Owned DEF RefreshLinkParent, WellShaped
<1>2. UNCHANGED session /\ \A x \in Grant : token'[x].status = token[x].status
  BY <1>1, Rotated, Unpacked, LinkEffect DEF RefreshLinkParent
<1> QED BY <1>2 DEF Shows, Phase, Accepted, Spent

-----------------------------------------------------------------------------
LEMMA ContinueShows ==
  ASSUME RotInv, NEW r \in Request, Continue(r)
  PROVE  Chain!Next \/ UNCHANGED Shows
<1>1. ASSUME Closing, Voiding PROVE Chain!Next
  BY <1>1, ClosingShows DEF Chain!Next
<1>2. ASSUME UNCHANGED <<session, token>> PROVE UNCHANGED Shows
  BY <1>2 DEF Shows, Phase, Accepted, Spent
<1>3. ASSUME LoginBlocked(r) \/ AnswerRevocation(r) PROVE UNCHANGED Shows
  BY <1>2, <1>3 DEF LoginBlocked, AnswerRevocation
<1>4. ASSUME NEW bound \in BOOLEAN, RefreshCheckSession(r, bound) PROVE UNCHANGED Shows
  BY <1>2, <1>4 DEF RefreshCheckSession
<1>5. ASSUME RefreshConsume(r) PROVE Chain!Next \/ UNCHANGED Shows
  <2>1. CASE token[request[r].grant].status = "active"
    BY <1>5, <2>1, ConsumedShows DEF RefreshConsume, Chain!Next
  <2>2. CASE token[request[r].grant].status # "active"
    BY <1>2, <1>5, <2>2 DEF RefreshConsume
  <2> QED BY <2>1, <2>2
<1>6. ASSUME LoginCreateSession(r) PROVE Chain!Next
  BY <1>6, CreateSessionShows DEF Chain!Next
<1>7. ASSUME RefreshUpdateAccessAndAnswer(r) PROVE Chain!Next \/ UNCHANGED Shows
  BY <1>7, AnswerShows DEF Chain!Next
<1>8. ASSUME Quiet PROVE Chain!Next
  BY <1>1, <1>8 DEF Quiet
<1> QED
  BY <1>3, <1>4, <1>5, <1>6, <1>7, <1>8, SweepTokensQuiet, WriteQuiet,
     CreateTokenHides, AttachHides, LinkHides
  DEF Continue

LEMMA StepShows == RotInv /\ [Next]_vars => [Chain!Next]_Shows
<1> SUFFICES ASSUME RotInv, [Next]_vars PROVE Chain!Next \/ UNCHANGED Shows
  OBVIOUS
<1>1. ASSUME NEW r \in Request, Arrive(r) PROVE Chain!Next
  BY <1>1, ArriveQuiet, ClosingShows DEF Quiet, Chain!Next
<1>2. ASSUME UNCHANGED <<session, token>> PROVE UNCHANGED Shows
  BY <1>2 DEF Shows, Phase, Accepted, Spent
<1>3. CASE Tick \/ Crash \/ UNCHANGED vars
  BY <1>2, <1>3 DEF Tick, Crash, vars
<1> QED BY <1>1, <1>3, ContinueShows DEF Next

LEMMA InitShows == Init => Chain!Init
BY DEF Init, NoSession, NoToken, Chain!Init

(* The services implement the credential chain: a session accepts one      *)
(* credential at a time, each is redeemed at most once and replaced only   *)
(* then, and what is revoked stays revoked, whatever interleaves, for any  *)
(* number of sessions, grants and handlers.                                *)
THEOREM ServicesImplementChain == Spec => ImplementsChain
<1>1. RotInv /\ [Next]_vars => [Chain!Next]_(Chain!chainVars)
  BY StepShows DEF Shows, Phase, Accepted, Spent, Chain!chainVars
<1> QED BY <1>1, InitShows, RotationInvariance, PTL DEF Spec, ImplementsChain, Chain!Spec

-----------------------------------------------------------------------------
(* What no step may do to a document, and what is left of the closing of a *)
(* session without fairness.                                               *)

(* A document comes into being once; what is spent or revoked stays so;    *)
(* the family and the parent of a token are settled when it is created and *)
(* its successor once; a revoked session accepts no other access token.    *)
SessionsAge ==
  \A s \in Session :
    /\ session[s].status # "absent" => session'[s].status \in {session[s].status, "revoked"}
    /\ session[s].status = "revoked" => session'[s].access = session[s].access
    /\ session[s].current # None => session'[s].current # None

TokensAge ==
  \A g \in Grant :
    /\ token[g].status = "absent" => token'[g].status \in {"absent", "active"}
    /\ token[g].status = "active" => token'[g].status # "absent"
    /\ token[g].status \in {"rotated", "revoked"} => token'[g].status = token[g].status
    /\ token[g].status # "absent" =>
         token'[g].session = token[g].session /\ token'[g].parent = token[g].parent
    /\ token[g].replacedBy # None => token'[g].replacedBy = token[g].replacedBy

DocumentsAge == SessionsAge /\ TokensAge

LEMMA UntouchedAge ==
  ASSUME RotInv
  PROVE  /\ UNCHANGED session => SessionsAge
         /\ UNCHANGED token => TokensAge
         /\ Closing /\ Voiding => DocumentsAge
<1>1. UNCHANGED session => SessionsAge
  BY DEF SessionsAge
<1>2. UNCHANGED token => TokensAge
  <2>1. \A g \in Grant : token[g].status \in {"absent", "active", "rotated", "revoked"}
    BY Rotated, Unpacked DEF TokenDoc
  <2> QED BY <2>1 DEF TokensAge
<1>3. ASSUME Closing, Voiding PROVE DocumentsAge
  <2>1. SessionsAge
    BY <1>3 DEF SessionsAge, Closing
  <2>2. TokensAge
    BY <1>3 DEF TokensAge, Voiding
  <2> QED BY <2>1, <2>2 DEF DocumentsAge
<1> QED BY <1>1, <1>2, <1>3

LEMMA NewSessionAges ==
  ASSUME RotInv, NEW r \in Request, LoginCreateSession(r)
  PROVE  DocumentsAge
<1> DEFINE s == request[r].session
<1>1. request[r].op = "login" /\ request[r].at = "createSession"
  BY Rotated, Owned DEF LoginCreateSession, WellShaped
<1>2. session[s].status = "absent" /\ s \in Session
  BY <1>1, Rotated, Owned DEF LoginOwns, At
<1>3. session[s].current = None
  BY <1>2, Rotated DEF OwnInv, Ownership, Documents, AbsentSessions
<1>4. \A x \in Session : x # s => session'[x] = session[x]
  BY Rotated, Unpacked DEF LoginCreateSession
<1> HIDE DEF s
<1>5. SessionsAge
  BY <1>2, <1>3, <1>4 DEF SessionsAge
<1> QED BY <1>5, UntouchedAge DEF LoginCreateSession, DocumentsAge

LEMMA NewTokenAges ==
  ASSUME RotInv, NEW r \in Request, LoginCreateToken(r) \/ RefreshCreateChild(r)
  PROVE  DocumentsAge
<1> DEFINE h == request[r].child
<1>1. h \in Grant /\ token[h].status = "absent"
  <2>1. ChildIsFresh /\ WellShaped(request[r])
    BY Rotated, Owned DEF OwnInv, Ownership
  <2> QED BY <2>1, NoneAssumption
    DEF LoginCreateToken, RefreshCreateChild, WellShaped, ChildIsFresh, ChildUnborn, At
<1>2. token[h].replacedBy = None
  BY <1>1, Rotated DEF OwnInv, Ownership, Documents, AbsentTokens
<1>3. /\ token'[h].status = "active" /\ UNCHANGED session
      /\ \A x \in Grant : x # h => token'[x] = token[x]
  BY <1>1, Rotated, Unpacked DEF LoginCreateToken, RefreshCreateChild, NewToken
<1>4. \A x \in Grant : token[x].status \in {"absent", "active", "rotated", "revoked"}
  BY Rotated, Unpacked DEF TokenDoc
<1> HIDE DEF h
<1>5. TokensAge
  BY <1>1, <1>2, <1>3, <1>4 DEF TokensAge
<1> QED BY <1>3, <1>5, UntouchedAge DEF DocumentsAge

LEMMA AttachAges ==
  ASSUME RotInv, NEW r \in Request, LoginAttachAndAnswer(r) \/ RefreshAttachChild(r)
  PROVE  DocumentsAge
<1>1. request[r].child \in Grant
  BY Rotated, Owned DEF LoginAttachAndAnswer, RefreshAttachChild, WellShaped
<1>2. /\ UNCHANGED token
      /\ \A x \in Session : /\ session'[x].status = session[x].status
                            /\ session'[x].access = session[x].access
                            /\ session'[x].current \in {request[r].child, session[x].current}
  BY <1>1, Rotated, Unpacked, AttachEffect DEF LoginAttachAndAnswer, RefreshAttachChild
<1>3. SessionsAge
  BY <1>1, <1>2, NoneAssumption DEF SessionsAge
<1> QED BY <1>2, <1>3, UntouchedAge DEF DocumentsAge

LEMMA ConsumeAges ==
  ASSUME RotInv, NEW r \in Request, RefreshConsume(r)
  PROVE  DocumentsAge
<1>1. CASE UNCHANGED token
  BY <1>1, UntouchedAge DEF RefreshConsume, DocumentsAge
<1>2. CASE /\ token[request[r].grant].status = "active"
           /\ token' = [token EXCEPT ![request[r].grant].status = "rotated"]
  <2>1. request[r].grant \in Grant
    BY Rotated, Owned DEF RefreshConsume, WellShaped
  <2>2. \A h \in Grant : /\ token'[h].status = IF h = request[r].grant THEN "rotated" ELSE token[h].status
                         /\ token'[h].session = token[h].session
                         /\ token'[h].parent = token[h].parent
                         /\ token'[h].replacedBy = token[h].replacedBy
    BY <1>2, <2>1, Rotated, Unpacked, RotateEffect
  <2>3. \A x \in Grant : token[x].status \in {"absent", "active", "rotated", "revoked"}
    BY Rotated, Unpacked DEF TokenDoc
  <2>4. TokensAge
    BY <1>2, <2>2, <2>3 DEF TokensAge
  <2> QED BY <2>4, UntouchedAge DEF RefreshConsume, DocumentsAge
<1> QED BY <1>1, <1>2 DEF RefreshConsume

(* The link is written once: the child it names is the only one its parent *)
(* has.                                                                    *)
LEMMA LinkAges ==
  ASSUME RotInv, NEW r \in Request, RefreshLinkParent(r)
  PROVE  DocumentsAge
<1> DEFINE g == request[r].grant
           h == request[r].child
<1>1. request[r].at = "link" /\ request[r].op = "refresh"
  BY Rotated, Owned DEF RefreshLinkParent, WellShaped
<1>2. g \in Grant /\ h \in Grant /\ token[h].parent = g /\ g # None
  BY <1>1, Rotated, Owned, NoneAssumption DEF WellShaped, RefreshOwns, At
<1>3. ASSUME token[g].replacedBy # None PROVE token[g].replacedBy = h
  <2>1. token[g].replacedBy \in Grant /\ token[token[g].replacedBy].parent = g
    BY <1>2, <1>3, Rotated, Unpacked DEF LineageIsAChain, TokenDoc
  <2> QED BY <1>2, <2>1, Rotated DEF LineageIsAChain
<1>4. \A x \in Grant : /\ token'[x].status = token[x].status
                       /\ token'[x].session = token[x].session
                       /\ token'[x].parent = token[x].parent
                       /\ token'[x].replacedBy = IF x = g THEN h ELSE token[x].replacedBy
  BY <1>2, Rotated, Unpacked, LinkEffect DEF RefreshLinkParent
<1>5. \A x \in Grant : token[x].status \in {"absent", "active", "rotated", "revoked"}
  BY Rotated, Unpacked DEF TokenDoc
<1> HIDE DEF g, h
<1>6. TokensAge
  BY <1>3, <1>4, <1>5 DEF TokensAge
<1> QED BY <1>6, UntouchedAge DEF RefreshLinkParent, DocumentsAge

LEMMA UpdateAccessAges ==
  ASSUME RotInv, NEW r \in Request, RefreshUpdateAccessAndAnswer(r)
  PROVE  DocumentsAge
<1>1. request[r].child \in Grant
  BY Rotated, Owned DEF RefreshUpdateAccessAndAnswer, WellShaped
<1>2. \A x \in Session :
        /\ session'[x].status = session[x].status
        /\ session'[x].access = IF x = request[r].session /\ session[x].status = "active"
                                THEN request[r].child ELSE session[x].access
        /\ session'[x].current = session[x].current
  BY <1>1, Rotated, Unpacked, UpdateAccessEffect DEF RefreshUpdateAccessAndAnswer
<1>3. SessionsAge
  BY <1>2 DEF SessionsAge
<1> QED BY <1>3, UntouchedAge DEF RefreshUpdateAccessAndAnswer, DocumentsAge

LEMMA StepAges == RotInv /\ [Next]_vars => DocumentsAge
<1> SUFFICES ASSUME RotInv, [Next]_vars PROVE DocumentsAge
  OBVIOUS
<1>1. ASSUME UNCHANGED <<session, token>> PROVE DocumentsAge
  BY <1>1, UntouchedAge DEF DocumentsAge
<1>2. ASSUME Quiet PROVE DocumentsAge
  BY <1>2, UntouchedAge DEF Quiet
<1>3. ASSUME NEW r \in Request, Arrive(r) PROVE DocumentsAge
  BY <1>2, <1>3, ArriveQuiet
<1>4. ASSUME NEW r \in Request, LoginBlocked(r) \/ AnswerRevocation(r) PROVE DocumentsAge
  BY <1>1, <1>4 DEF LoginBlocked, AnswerRevocation
<1>5. ASSUME NEW r \in Request, NEW bound \in BOOLEAN, RefreshCheckSession(r, bound)
      PROVE  DocumentsAge
  BY <1>1, <1>5 DEF RefreshCheckSession
<1>6. ASSUME NEW r \in Request, Continue(r) PROVE DocumentsAge
  BY <1>2, <1>4, <1>5, <1>6, SweepTokensQuiet, WriteQuiet, NewSessionAges, NewTokenAges,
     AttachAges, ConsumeAges, LinkAges, UpdateAccessAges
  DEF Continue
<1>7. CASE Tick \/ Crash \/ UNCHANGED vars
  BY <1>1, <1>7 DEF Tick, Crash, vars
<1> QED BY <1>3, <1>6, <1>7 DEF Next

(* No step of any handler makes a spent or revoked refresh token usable,   *)
(* opens a session again, moves a token to another family or parent, or    *)
(* names another successor: what a replay is judged by never changes.      *)
THEOREM DocumentsOnlyAge == Spec => [][DocumentsAge]_vars
<1>1. RotInv /\ [Next]_vars => [DocumentsAge]_vars
  BY StepAges
<1> QED BY <1>1, RotationInvariance, PTL DEF Spec

(* A logout or a detected replay that has not closed its session yet has   *)
(* the write that will close it before it, on a session that write matches.*)
ClosesItsSession(r) ==
  request[r].op \in {"logout", "replay"} =>
    LET s == session[request[r].session] IN
    \/ s.status = "revoked"
    \/ /\ request[r].at = "revoke" /\ "family" \in request[r].todo
       /\ s.status = "active" /\ s.current # None

(* ... and goes on with it, for the same session, until it is closed.      *)
GoesOnClosing(r) ==
  request[r].op \in {"logout", "replay"} =>
    \/ /\ request'[r].op = request[r].op /\ request'[r].session = request[r].session
       /\ request'[r].todo \subseteq request[r].todo
    \/ session'[request[r].session].status = "revoked"
    \/ Crash

LEMMA ClosingIsAhead ==
  ASSUME RotInv, NEW r \in Request
  PROVE  ClosesItsSession(r)
<1> SUFFICES ASSUME request[r].op \in {"logout", "replay"}
             PROVE  LET s == session[request[r].session] IN
                    \/ s.status = "revoked"
                    \/ /\ request[r].at = "revoke" /\ "family" \in request[r].todo
                       /\ s.status = "active" /\ s.current # None
  BY DEF ClosesItsSession
<1>1. /\ request[r] \in RequestState /\ WellShaped(request[r]) /\ Closes(r)
      /\ request[r].session \in Session
  BY Rotated, Owned, Unpacked
<1>2. request[r].at = "revoke"
  BY <1>1 DEF WellShaped, RequestState, Idle
<1>3. session[request[r].session] \in SessionDoc
  BY <1>1, Rotated, Unpacked
<1> QED BY <1>1, <1>2, <1>3 DEF Closes, At, SessionDoc

LEMMA StepClosing ==
  ASSUME RotInv, [Next]_vars, NEW r \in Request
  PROVE  GoesOnClosing(r)
<1> SUFFICES ASSUME request[r].op \in {"logout", "replay"}, ~Crash
             PROVE  \/ /\ request'[r].op = request[r].op
                       /\ request'[r].session = request[r].session
                       /\ request'[r].todo \subseteq request[r].todo
                    \/ session'[request[r].session].status = "revoked"
  BY DEF GoesOnClosing
<1>1. /\ request \in [Request -> RequestState] /\ ClosesItsSession(r) /\ Closes(r)
      /\ WellShaped(request[r]) /\ request[r] \in RequestState
  BY Rotated, Owned, Unpacked, ClosingIsAhead
<1>2. request[r].at = "revoke" /\ request[r] # Idle
  BY <1>1 DEF WellShaped, RequestState, Idle
<1>3. CASE request'[r] = request[r]
  BY <1>3
<1>4. ASSUME NEW q \in Request, q # r, Arrive(q) \/ Continue(q)
      PROVE  request'[r] = request[r]
  BY <1>1, <1>4
  DEF Arrive, Continue, LoginSweepSessions, LogoutBySession, LogoutAll, RejectAccess,
      RefreshFindToken, LogoutByCookie, RefreshUnknownToken, LoginSweepTokens, LoginBlocked,
      LoginCreateSession, LoginCreateToken, LoginAttachAndAnswer, RefreshCheckSession,
      RefreshConsume, RefreshCreateChild, RefreshAttachChild, RefreshLinkParent,
      RefreshUpdateAccessAndAnswer, WriteTokens, WriteFamilySession, WriteDirect,
      WriteDeactivate, WriteOtherSessions, WriteOtherTokens, AnswerRevocation, Goto, Done
<1>5. ASSUME NEW write, Done(r, write)
      PROVE  /\ request'[r].op = request[r].op /\ request'[r].session = request[r].session
             /\ request'[r].todo \subseteq request[r].todo
  BY <1>1, <1>5, DoneEffect
<1>6. CASE AnswerRevocation(r)
  <2>1. session[request[r].session].status = "revoked" /\ UNCHANGED session
    BY <1>1, <1>6 DEF AnswerRevocation, ClosesItsSession
  <2> QED BY <2>1
<1>7. CASE Arrive(r)
  BY <1>2, <1>7
  DEF Arrive, LoginSweepSessions, LogoutBySession, LogoutAll, RejectAccess,
      RefreshFindToken, LogoutByCookie, RefreshUnknownToken
<1>8. CASE Continue(r)
  BY <1>2, <1>5, <1>6, <1>8
  DEF Continue, LoginSweepTokens, LoginBlocked, LoginCreateSession, LoginCreateToken,
      LoginAttachAndAnswer, RefreshCheckSession, RefreshConsume, RefreshCreateChild,
      RefreshAttachChild, RefreshLinkParent, RefreshUpdateAccessAndAnswer, WriteTokens,
      WriteFamilySession, WriteDirect, WriteDeactivate, WriteOtherSessions, WriteOtherTokens
<1>9. CASE Tick \/ UNCHANGED vars
  BY <1>3, <1>9 DEF Tick, vars
<1> QED BY <1>3, <1>4, <1>7, <1>8, <1>9 DEF Next

(* revokeRefreshTokenFamily: from the moment a replay is detected (or a    *)
(* logout asked for) its session is closed, or the handler still has to    *)
(* write it closed and that write will find it.                            *)
THEOREM ReplayIsNotForgotten == Spec => [](\A r \in Request : ClosesItsSession(r))
<1>1. RotInv => \A r \in Request : ClosesItsSession(r)
  BY ClosingIsAhead
<1> QED BY <1>1, RotationInvariance, PTL

(* The safety half of ReplayClosesSession: unless the process dies, such a *)
(* handler neither answers nor turns to another session before that.       *)
THEOREM ClosingIsSeenThrough == Spec => [][\A r \in Request : GoesOnClosing(r)]_vars
<1>1. RotInv /\ [Next]_vars => [\A r \in Request : GoesOnClosing(r)]_vars
  BY StepClosing
<1> QED BY <1>1, RotationInvariance, PTL DEF Spec
==============================================================================
