-------------------------- MODULE SessionTokensInv --------------------------
(***************************************************************************)
(* The inductive invariant behind the session and refresh-token            *)
(* properties, in named parts.                                             *)
(***************************************************************************)
EXTENDS SessionTokens

At(r, steps) == request[r].at \in steps

(* A rotation that has consumed its parent and not yet answered. *)
Rotating(r) ==
  /\ request[r].op = "refresh"
  /\ At(r, {"createChild", "attach", "link", "updateAccess"})

(* The child of r is still only an id held by r. *)
ChildUnborn(r) ==
  At(r, {"cleanTokens", "createSession", "createToken", "checkSession", "consume",
         "createChild"})

(* What a handler's local snapshot says about itself. *)
WellShaped(q) ==
  /\ q.at = "idle" => q = Idle
  /\ q.at \in {"cleanTokens", "createSession", "createToken"} => q.op = "login"
  /\ q.at \in {"checkSession", "consume", "createChild", "link", "updateAccess"}
       => q.op = "refresh"
  /\ q.at = "attach" => q.op \in {"login", "refresh"}
  /\ q.at = "revoke" => q.op \notin {"none", "login", "refresh"} /\ q.child = None
  /\ q.op \in {"login", "refresh"} => q.child \in Grant
  /\ q.op = "refresh" => q.grant \in Grant

RequestShape == \A r \in Request : WellShaped(request[r])

(* Every handler works for a session the user may have. *)
RequestSession == \A r \in Request : request[r].op # "none" => request[r].session \in Session

(* Ids are unique: no two handlers mint the same grant or open the same session. *)
UniqueChild ==
  \A r, q \in Request :
    (r # q /\ request[r].child # None) => request[r].child # request[q].child

UniqueSession ==
  \A r, q \in Request :
    (r # q /\ request[r].op = "login") => request[r].session # request[q].session

ChildIsFresh ==
  \A r \in Request : request[r].child # None =>
    /\ request[r].child \notin issued
    /\ ChildUnborn(r) => token[request[r].child].status = "absent"

(* Documents that exist point at documents that exist. *)
TokensHaveSessions ==
  \A g \in Grant : token[g].status # "absent" =>
    /\ token[g].session \in Session
    /\ session[token[g].session].status # "absent"

AbsentTokens ==
  \A g \in Grant : token[g].status = "absent" =>
    token[g].session = None /\ token[g].parent = None /\ token[g].replacedBy = None

RotatedWasIssued == \A g \in Grant : token[g].status = "rotated" => g \in issued

IssuedExist ==
  \A g \in issued :
    token[g].status # "absent" /\ session[token[g].session].current # None

AccessBelongs ==
  \A s \in Session : session[s].access \in issued => token[session[s].access].session = s

AbsentSessions ==
  \A s \in Session : session[s].status = "absent" =>
    session[s].access = None /\ session[s].current = None

Documents ==
  /\ TokensHaveSessions /\ AbsentTokens /\ RotatedWasIssued
  /\ IssuedExist /\ AccessBelongs /\ AbsentSessions

(* A session being created belongs to its login alone. *)
LoginOwns(r) ==
  request[r].op = "login" =>
    LET s == request[r].session
        h == request[r].child
    IN
    /\ At(r, {"cleanTokens", "createSession"}) =>
         session[s].status = "absent" /\ \A x \in Session : session[x].access # h
    /\ At(r, {"createToken", "attach"}) =>
         /\ session[s].status # "absent" /\ session[s].access = h
         /\ session[s].current = None
         /\ \A x \in Session : session[x].access = h => x = s
    /\ \A g \in Grant : token[g].session = s => g = h /\ At(r, {"attach"})
    /\ At(r, {"attach"}) => token[h].session = s /\ token[h].status \in {"active", "revoked"}

LoginOwnsSession == \A r \in Request : LoginOwns(r)

(* A refresh works for the family of the token it presented, which someone *)
(* holds; its child becomes an access token only in its last step.         *)
RefreshOwns(r) ==
  request[r].op = "refresh" =>
    LET s == request[r].session
        g == request[r].grant
        h == request[r].child
    IN
    /\ g \in issued /\ token[g].session = s
    /\ \A x \in Session : session[x].access # h
    /\ At(r, {"attach", "link", "updateAccess"}) =>
         token[h].session = s /\ token[h].parent = g /\ token[h].status \in {"active", "revoked"}

RefreshOwnsChild == \A r \in Request : RefreshOwns(r)

(* A revocation works on a session that exists, and has closed it once the *)
(* family write is done.                                                   *)
Closes(r) ==
  At(r, {"revoke"}) =>
    LET s == request[r].session IN
    /\ session[s].status # "absent"
    /\ request[r].op \in {"logout", "replay"} =>
         /\ session[s].current # None
         /\ "family" \notin request[r].todo => session[s].status = "revoked"

RevocationCloses == \A r \in Request : Closes(r)

(* What was ended is a session. *)
EndedExist == \A e \in ended : e[1] \in Session

(* Who owns which document: the layer EndedIsInactive rests on. *)
Ownership ==
  /\ RequestSession
  /\ UniqueChild /\ UniqueSession /\ ChildIsFresh
  /\ Documents
  /\ LoginOwnsSession /\ RefreshOwnsChild
  /\ RevocationCloses /\ EndedExist /\ EndedIsInactive

(* A usable token that is about to be consumed is the session's accepted   *)
(* one, and nobody else attaches a token while a rotation is under way.    *)
Current(r) ==
  request[r].op = "refresh" =>
    /\ (At(r, {"consume"}) /\ token[request[r].grant].status = "active")
         => session[request[r].session].access = request[r].grant
    /\ At(r, {"link", "updateAccess"}) => session[request[r].session].current = request[r].child

RefreshIsCurrent == \A r \in Request : Current(r)

(* While a rotation is between its compare-and-set and its answer it owns  *)
(* the family: no held token is usable ...                                 *)
OwnsFamily(r) ==
  Rotating(r) =>
    LET s == request[r].session IN
    /\ token[request[r].grant].status = "rotated"
    /\ session[s].access = request[r].grant
    /\ \A g \in Grant : (token[g].session = s /\ token[g].status = "active") =>
         g = request[r].child /\ ~At(r, {"createChild"})
    /\ At(r, {"createChild"}) => \A g \in Grant : token[g].parent # request[r].grant

(* ... and no other rotation is under way. *)
RotatesAlone ==
  \A r, q \in Request :
    (Rotating(r) /\ Rotating(q) /\ request[q].session = request[r].session) => q = r

RotationOwnsFamily == (\A r \in Request : OwnsFamily(r)) /\ RotatesAlone

ParentsAreRotated ==
  \A g \in Grant : token[g].parent # None => token[token[g].parent].status = "rotated"

(* How a family rotates: the layer on top. *)
Rotation ==
  /\ RefreshIsCurrent /\ RotationOwnsFamily /\ ParentsAreRotated
  /\ OneLiveToken /\ LineageIsAChain /\ HalvesAgree

IInv == TypeOK /\ RequestShape /\ Ownership /\ Rotation
=============================================================================
