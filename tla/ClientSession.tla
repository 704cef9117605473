--------------------------- MODULE ClientSession ---------------------------
(***************************************************************************)
(* The browser's side of a session: the tabs of one browser share a cookie *)
(* jar and the stored access token, and each tab's axios interceptor       *)
(* answers a 401 with one refresh that all its refused calls wait for and  *)
(* retry after.  The server is the promise of CredentialChain, which the   *)
(* session services are shown to keep; answers come late, out of order or  *)
(* not at all, and a tab may be reloaded while its calls are under way.    *)
(* The cookies of an answer are the browser's business, when it lands; the *)
(* stored token is the page's, when its script reads the answer later.     *)
(***************************************************************************)
EXTENDS Naturals, FiniteSets

CONSTANTS
  Tab,       \* the tabs open on the application
  Call,      \* slots for the calls in flight at a time (bound)
  Job,       \* slots for the refreshes in flight at a time (bound)
  Session,   \* the sessions the user may open (bound)
  Grant,     \* the pairs of access and refresh token (bound)
  None       \* an absent token, tab or session

ASSUME Absent == None \notin Tab \cup Session \cup Grant

VARIABLES
  phase, accepted, spent,   \* the server's promise, see CredentialChain
  family,    \* family[g]: the session a grant was issued for
  aged,      \* the sessions whose current access token has expired
  jar,       \* the grant held by the two cookies
  stored,    \* the grant whose access token is in localStorage
  view,      \* view[t]: "starting", "guest" or "user"
  call,      \* call[c]: one call of axios
  job,       \* job[j]: one POST /api/auth/refresh
  loggedOut, \* history: a logout was answered and no login since
  replayed,  \* history: a redeemed refresh token was presented again
  trouble    \* history: what disturbed this browser

serverVars == <<phase, accepted, spent, family, aged>>
browserVars == <<jar, stored, view>>
vars == <<serverVars, browserVars, call, job, loggedOut, replayed, trouble>>

Server == INSTANCE CredentialChain

Op == {"api", "me", "login", "logout"}
CallState ==
  [op : Op \cup {"none"}, tab : Tab \cup {None},
   stage : {"idle", "sent", "ok", "denied", "landed", "waiting"},
   bearer : Grant \cup {None}, cookie : Grant \cup {None}, retried : BOOLEAN, late : BOOLEAN]
JobState ==
  [tab : Tab \cup {None},
   stage : {"idle", "sent", "redeemed", "ok", "denied", "renewed", "refused"},
   cookie : Grant \cup {None}, got : Grant \cup {None}]
IdleCall == [op |-> "none", tab |-> None, stage |-> "idle", bearer |-> None,
             cookie |-> None, retried |-> FALSE, late |-> FALSE]
IdleJob == [tab |-> None, stage |-> "idle", cookie |-> None, got |-> None]

Busy(c) == call[c].stage # "idle"
Running(j) == job[j].stage # "idle"
Flights(t) == {j \in Job : Running(j) /\ job[j].tab = t}
Quiet == (\A c \in Call : ~Busy(c)) /\ \A j \in Job : ~Running(j)

(* The server takes an access token of an active session's current grant.  *)
Current(g) == g # None /\ family[g] # None
              /\ phase[family[g]] = "active" /\ accepted[family[g]] = g
Valid(g) == Current(g) /\ family[g] \notin aged

Init ==
  /\ Server!Init
  /\ family = [g \in Grant |-> None]
  /\ aged = {}
  /\ jar = None
  /\ stored = None
  /\ view = [t \in Tab |-> "guest"]
  /\ call = [c \in Call |-> IdleCall]
  /\ job = [j \in Job |-> IdleJob]
  /\ loggedOut = FALSE
  /\ replayed = FALSE
  /\ trouble = {}

-----------------------------------------------------------------------------
(* What the browser keeps: the cookies, HttpOnly, which only an answer sets *)
(* or clears, and the access token in localStorage.                         *)

SetAuthCookies(g) == jar' = g
ClearAuthCookies == jar' = None
SetStoredToken(g) == stored' = g
ClearStoredToken == stored' = None
SetUser(t) == view' = [view EXCEPT ![t] = "user"]

(* clearStoredToken and clearSession: the cookies stay as they are.         *)
SignOff(t) ==
  /\ ClearStoredToken
  /\ view' = [view EXCEPT ![t] = "guest"]

-----------------------------------------------------------------------------
(* Sending.  The interceptor sets Authorization only where it is not set.   *)

Header(old, token) == IF old # None THEN old ELSE token

Sent(op, t, old, cookie, token, retried, late) ==
  [op |-> op, tab |-> t, stage |-> "sent", bearer |-> Header(old, token),
   cookie |-> cookie, retried |-> retried, late |-> late]

NewCall(op, t) == Sent(op, t, None, jar, stored, FALSE, loggedOut)

(* A login and other traffic of which one may overtake the other.          *)
Overlap(op) ==
  \/ op = "login" /\ (\/ \E j \in Job : Running(j)
                      \/ \E c \in Call : call[c].op \in {"login", "logout", "me"})
  \/ op = "logout" /\ \E c \in Call : call[c].op = "login"

Begin(t, c, op) ==
  /\ ~Busy(c)
  /\ op \in (IF view[t] = "user" THEN {"api", "logout"} ELSE {"login"})
  /\ call' = [call EXCEPT ![c] = NewCall(op, t)]
  /\ trouble' = trouble \cup (IF Overlap(op) THEN {"overlap"} ELSE {})
  /\ UNCHANGED <<serverVars, browserVars, job, loggedOut, replayed>>

(* A page that goes away drops the answers it was waiting for; the requests *)
(* that change something on the server may still be served.                 *)
DropCall(r) == IF r.op \in {"login", "logout"} /\ r.stage = "sent"
               THEN [r EXCEPT !.tab = None] ELSE IdleCall
DropJob(r) == IF r.stage \in {"sent", "redeemed"}
              THEN [r EXCEPT !.tab = None] ELSE IdleJob
LossOf(t) ==
  (IF Flights(t) # {} THEN {"refresh"} ELSE {}) \cup
  (IF \E c \in Call : call[c].tab = t /\ call[c].op = "logout" THEN {"logout"} ELSE {})

Reload(t, c) ==
  /\ ~Busy(c)
  /\ view' = [view EXCEPT ![t] = "starting"]
  /\ call' = [d \in Call |->
                IF d = c THEN NewCall("me", t)
                ELSE IF call[d].tab = t THEN DropCall(call[d]) ELSE call[d]]
  /\ job' = [j \in Job |-> IF job[j].tab = t THEN DropJob(job[j]) ELSE job[j]]
  /\ trouble' = trouble \cup LossOf(t)
                  \cup (IF \E d \in Call : call[d].op = "login" THEN {"overlap"} ELSE {})
  /\ UNCHANGED <<serverVars, jar, stored, loggedOut, replayed>>

-----------------------------------------------------------------------------
(* The server.                                                              *)

Answered(c, verdict) ==
  call' = [call EXCEPT ![c] = IF call[c].tab = None THEN IdleCall
                              ELSE [call[c] EXCEPT !.stage = verdict]]

(* protect: a bearer token is preferred to the cookie, even a stale one.    *)
Presented(r) == IF r.bearer # None THEN r.bearer ELSE r.cookie

ServeRead(c) ==
  /\ call[c].stage = "sent" /\ call[c].op \in {"api", "me"}
  /\ Answered(c, IF Valid(Presented(call[c])) THEN "ok" ELSE "denied")
  /\ UNCHANGED <<serverVars, browserVars, job, loggedOut, replayed, trouble>>

ServeLogin(c, s, g) ==
  /\ call[c].stage = "sent" /\ call[c].op = "login"
  /\ Server!Open(s, g)
  /\ family[g] = None
  /\ family' = [family EXCEPT ![g] = s]
  /\ call' = [call EXCEPT ![c] = IF call[c].tab = None THEN IdleCall
                                 ELSE [call[c] EXCEPT !.stage = "ok", !.cookie = g]]
  /\ UNCHANGED <<aged, browserVars, job, loggedOut, replayed, trouble>>

RefuseLogin(c) ==
  /\ call[c].stage = "sent" /\ call[c].op = "login"
  /\ Answered(c, "denied")
  /\ UNCHANGED <<serverVars, browserVars, job, loggedOut, replayed, trouble>>

(* Mutant of LogoutTarget: the refresh cookie is not looked at.             *)
LogoutTargetBearerOnly(r) ==
  IF Valid(Presented(r)) THEN {family[Presented(r)]} ELSE {}

(* optionalProtect: the session of a valid access token, or else the family *)
(* named by the refresh cookie.                                             *)
LogoutTarget(r) ==
  IF Valid(Presented(r)) THEN {family[Presented(r)]}
  ELSE IF r.cookie # None THEN {family[r.cookie]} ELSE {}

Active(S) == {s \in S : phase[s] = "active"}

ServeLogout(c) ==
  /\ call[c].stage = "sent" /\ call[c].op = "logout"
  /\ Server!Close(Active(LogoutTarget(call[c])))
  /\ Answered(c, "ok")
  /\ UNCHANGED <<family, aged, browserVars, job, loggedOut, replayed, trouble>>

(* A redeemed token, or one of a session that is over, closes its family.   *)
ServeReplay(j) ==
  /\ job[j].stage = "sent"
  /\ LET g == job[j].cookie IN
       /\ g = None \/ g \in spent \/ ~Current(g)
       /\ Server!Close(IF g = None THEN {} ELSE Active({family[g]}))
       /\ replayed' = (replayed \/ g \in spent)
  /\ job' = [job EXCEPT ![j] = IF job[j].tab = None THEN IdleJob
                               ELSE [job[j] EXCEPT !.stage = "denied"]]
  /\ UNCHANGED <<family, aged, browserVars, call, loggedOut, trouble>>

ServeRedeem(j) ==
  /\ job[j].stage = "sent"
  /\ job[j].cookie \notin spent /\ Current(job[j].cookie)
  /\ Server!Redeem(family[job[j].cookie])
  /\ job' = [job EXCEPT ![j].stage = "redeemed"]
  /\ UNCHANGED <<family, aged, browserVars, call, loggedOut, replayed, trouble>>

(* The successor is answered even where the session was closed meanwhile.   *)
ServeRenew(j, g) ==
  /\ job[j].stage = "redeemed"
  /\ family[g] = None
  /\ LET s == family[job[j].cookie] IN
       /\ family' = [family EXCEPT ![g] = s]
       /\ IF phase[s] = "active"
          THEN Server!Renew(s, g) /\ aged' = aged \ {s}
          ELSE UNCHANGED <<phase, accepted, spent, aged>>
  /\ job' = [job EXCEPT ![j] = IF job[j].tab = None THEN IdleJob
                               ELSE [job[j] EXCEPT !.stage = "ok", !.got = g]]
  /\ UNCHANGED <<browserVars, call, loggedOut, replayed, trouble>>

Age(s) ==
  /\ phase[s] = "active" /\ s \notin aged
  /\ aged' = aged \cup {s}
  /\ UNCHANGED <<phase, accepted, spent, family, browserVars, call, job,
                 loggedOut, replayed, trouble>>

(* Logout-all from another browser, a device mismatch, the session's expiry. *)
CloseElsewhere(s) ==
  /\ phase[s] = "active"
  /\ Server!Close({s})
  /\ trouble' = trouble \cup {"closed"}
  /\ UNCHANGED <<family, aged, browserVars, call, job, loggedOut, replayed>>

-----------------------------------------------------------------------------
(* Answers land in the browser, which applies their Set-Cookie at once;    *)
(* the page that asked reads them later.                                    *)

LoginLands(c) ==
  /\ call[c].stage = "ok" /\ call[c].op = "login"
  /\ SetAuthCookies(call[c].cookie)
  /\ loggedOut' = FALSE
  /\ call' = [d \in Call |-> IF d = c THEN [call[c] EXCEPT !.stage = "landed", !.late = FALSE]
                             ELSE [call[d] EXCEPT !.late = FALSE]]
  /\ UNCHANGED <<serverVars, stored, view, job, replayed, trouble>>

LogoutLands(c) ==
  /\ call[c].stage = "ok" /\ call[c].op = "logout"
  /\ ClearAuthCookies
  /\ loggedOut' = TRUE
  /\ call' = [call EXCEPT ![c].stage = "landed"]
  /\ UNCHANGED <<serverVars, stored, view, job, replayed, trouble>>

(* Mutant of RenewalLands: the answer carries no cookies.                   *)
RenewalLandsBare(j) ==
  /\ job[j].stage = "ok"
  /\ job' = [job EXCEPT ![j].stage = "renewed"]
  /\ UNCHANGED <<serverVars, browserVars, call, loggedOut, replayed, trouble>>

RenewalLands(j) ==
  /\ job[j].stage = "ok"
  /\ SetAuthCookies(job[j].got)
  /\ job' = [job EXCEPT ![j].stage = "renewed"]
  /\ UNCHANGED <<serverVars, stored, view, call, loggedOut, replayed, trouble>>

(* The refusal clears the cookies, whatever they hold by now.               *)
RefusalLands(j) ==
  /\ job[j].stage = "denied"
  /\ ClearAuthCookies
  /\ job' = [job EXCEPT ![j].stage = "refused"]
  /\ UNCHANGED <<serverVars, stored, view, call, loggedOut, replayed, trouble>>

-----------------------------------------------------------------------------
(* The page reads its answers.                                              *)

Settle(c) == [call EXCEPT ![c] = IdleCall]
Others(t) == IF \E u \in Tab \ {t} : view[u] # "guest" THEN {"tabs"} ELSE {}

Fetched(c) ==
  /\ call[c].stage = "ok" /\ call[c].op \in {"api", "me"}
  /\ IF call[c].op = "me" THEN SetUser(call[c].tab) ELSE UNCHANGED view
  /\ call' = Settle(c)
  /\ UNCHANGED <<serverVars, jar, stored, job, loggedOut, replayed, trouble>>

SignedIn(c) ==
  /\ call[c].stage = "landed" /\ call[c].op = "login"
  /\ SetStoredToken(call[c].cookie)
  /\ SetUser(call[c].tab)
  /\ call' = Settle(c)
  /\ UNCHANGED <<serverVars, jar, job, loggedOut, replayed, trouble>>

LoggedOut(c) ==
  /\ call[c].stage = "landed" /\ call[c].op = "logout"
  /\ SignOff(call[c].tab)
  /\ trouble' = trouble \cup Others(call[c].tab)
  /\ call' = Settle(c)
  /\ UNCHANGED <<serverVars, jar, job, loggedOut, replayed>>

(* A first 401 of a call other than login and logout: start the refresh, or *)
(* wait for the one this tab has started.                                   *)
Challenged(c) ==
  /\ call[c].stage = "denied" /\ call[c].op \in {"api", "me"} /\ ~call[c].retried
  /\ call' = [call EXCEPT ![c].stage = "waiting", ![c].retried = TRUE]

JoinRefresh(c) ==
  /\ Challenged(c)
  /\ Flights(call[c].tab) # {}
  /\ UNCHANGED <<serverVars, browserVars, job, loggedOut, replayed, trouble>>

(* A refresh that starts while another tab has one, or a login, under way.  *)
Crossing(t) ==
  (IF \E k \in Job : Running(k) /\ job[k].tab \notin {None, t} THEN {"tabs"} ELSE {})
  \cup (IF \E d \in Call : call[d].op = "login" THEN {"overlap"} ELSE {})

(* Mutant of StartRefresh: every refused call refreshes for itself.         *)
StartRefreshEach(c, j) ==
  /\ Challenged(c)
  /\ ~Running(j)
  /\ job' = [job EXCEPT ![j] = [tab |-> call[c].tab, stage |-> "sent",
                                cookie |-> jar, got |-> None]]
  /\ trouble' = trouble \cup Crossing(call[c].tab)
  /\ UNCHANGED <<serverVars, browserVars, loggedOut, replayed>>

StartRefresh(c, j) ==
  /\ Challenged(c)
  /\ Flights(call[c].tab) = {}
  /\ ~Running(j)
  /\ job' = [job EXCEPT ![j] = [tab |-> call[c].tab, stage |-> "sent",
                                cookie |-> jar, got |-> None]]
  /\ trouble' = trouble \cup Crossing(call[c].tab)
  /\ UNCHANGED <<serverVars, browserVars, loggedOut, replayed>>

(* A wrong password, or the 401 of a call that was retried already.         *)
Unauthorized(c) ==
  /\ call[c].stage = "denied"
  /\ call[c].op = "login" \/ call[c].retried
  /\ SignOff(call[c].tab)
  /\ call' = Settle(c)
  /\ trouble' = trouble \cup Others(call[c].tab)
  /\ UNCHANGED <<serverVars, jar, job, loggedOut, replayed>>

Waiting(t) == {c \in Call : call[c].stage = "waiting" /\ call[c].tab = t}

(* The calls that wait are sent again, with the cookies of that moment.     *)
Refreshed(j) ==
  /\ job[j].stage = "renewed"
  /\ LET t == job[j].tab
         g == job[j].got IN
       /\ SetStoredToken(g)
       /\ call' = [c \in Call |->
                     IF c \in Waiting(t)
                     THEN Sent(call[c].op, t, call[c].bearer, jar, g, TRUE, call[c].late)
                     ELSE call[c]]
  /\ job' = [job EXCEPT ![j] = IdleJob]
  /\ UNCHANGED <<serverVars, jar, view, loggedOut, replayed, trouble>>

(* Mutant of RefreshFailed: the calls that wait are not rejected.           *)
RefreshFailedSilently(t) == SignOff(t) /\ UNCHANGED call

(* What a failed refresh leaves of the page; its calls are rejected.        *)
RefreshFailed(t) ==
  /\ SignOff(t)
  /\ call' = [c \in Call |-> IF c \in Waiting(t) THEN IdleCall ELSE call[c]]

RefreshDenied(j) ==
  /\ job[j].stage = "refused"
  /\ RefreshFailed(job[j].tab)
  /\ job' = [job EXCEPT ![j] = IdleJob]
  /\ trouble' = trouble \cup Others(job[j].tab)
  /\ UNCHANGED <<serverVars, jar, loggedOut, replayed>>

(* The 12 seconds of axios: the answer, if there is one, is not read; what  *)
(* has landed of it has set its cookies all the same.                       *)
TimeoutJob(j) ==
  /\ Running(j) /\ job[j].tab # None
  /\ RefreshFailed(job[j].tab)
  /\ job' = [job EXCEPT ![j] = DropJob(job[j])]
  /\ trouble' = trouble \cup {"refresh"}
  /\ UNCHANGED <<serverVars, jar, loggedOut, replayed>>

(* The cookies are those of a new session, the stored token is not yet.     *)
SigningIn(c) == call[c].op = "login" /\ call[c].stage = "landed"

TimeoutCall(c) ==
  /\ call[c].stage \in {"sent", "ok", "denied", "landed"} /\ call[c].tab # None
  /\ IF call[c].op \in {"me", "logout"} THEN SignOff(call[c].tab)
     ELSE UNCHANGED <<stored, view>>
  /\ call' = [call EXCEPT ![c] = DropCall(call[c])]
  /\ trouble' = trouble
       \cup (IF call[c].op = "logout" THEN {"logout"} ELSE {})
       \cup (IF call[c].op = "me" THEN Others(call[c].tab) ELSE {})
       \cup (IF SigningIn(c) THEN {"overlap"} ELSE {})
  /\ UNCHANGED <<serverVars, jar, job, loggedOut, replayed>>

-----------------------------------------------------------------------------
DeliverCall(c) ==
  \/ LoginLands(c) \/ LogoutLands(c)
  \/ Fetched(c) \/ SignedIn(c) \/ LoggedOut(c) \/ Unauthorized(c)
  \/ JoinRefresh(c) \/ \E j \in Job : StartRefresh(c, j)

ServeCall(c) ==
  \/ ServeRead(c) \/ RefuseLogin(c) \/ ServeLogout(c)
  \/ \E s \in Session, g \in Grant : ServeLogin(c, s, g)

DeliverJob(j) == RenewalLands(j) \/ RefusalLands(j) \/ Refreshed(j) \/ RefreshDenied(j)

ServeJob(j) == ServeReplay(j) \/ ServeRedeem(j) \/ \E g \in Grant : ServeRenew(j, g)

Next ==
  \/ \E t \in Tab, c \in Call : Reload(t, c) \/ \E op \in Op : Begin(t, c, op)
  \/ \E c \in Call : ServeCall(c) \/ DeliverCall(c) \/ TimeoutCall(c)
  \/ \E j \in Job : ServeJob(j) \/ DeliverJob(j) \/ TimeoutJob(j)
  \/ \E s \in Session : Age(s) \/ CloseElsewhere(s)

Spec == Init /\ [][Next]_vars

-----------------------------------------------------------------------------
(* Every variable stays in its domain (Domains); a refresh in flight has    *)
(* callers waiting for it, and one tab never has two.                       *)
Domains ==
  /\ phase \in [Session -> {"absent", "active", "revoked"}]
  /\ accepted \in [Session -> Grant \cup {None}]
  /\ spent \subseteq Grant /\ aged \subseteq Session /\ replayed \in BOOLEAN
  /\ family \in [Grant -> Session \cup {None}]
  /\ {jar, stored} \subseteq Grant \cup {None}
  /\ view \in [Tab -> {"starting", "guest", "user"}]
  /\ call \in [Call -> CallState] /\ job \in [Job -> JobState]
  /\ loggedOut \in BOOLEAN
  /\ trouble \subseteq {"refresh", "logout", "tabs", "overlap", "closed"}

TypeOK ==
  /\ Domains
  /\ \A t \in Tab : Cardinality(Flights(t)) <= 1 /\ (Flights(t) = {} <=> Waiting(t) = {})

(* The client never trips the server's replay detection by itself: a        *)
(* redeemed refresh token is presented again only after an answer was lost  *)
(* or where two tabs refreshed at the same time.                            *)
ReplayIsExcused == replayed => trouble \cap {"refresh", "tabs"} # {}

(* The bearer token the page sends, which the server prefers, and the       *)
(* cookies it renews from never speak for two sessions, whatever answers    *)
(* are lost, read late or out of step with their cookies, but while or      *)
(* after a login overlaps other traffic; and when nothing disturbed the     *)
(* browser, nothing is in flight and nobody logged out, they are of one     *)
(* pair, which the server honours, and a tab that shows a user has them.    *)
SameSession ==
  stored # None /\ phase[family[stored]] = "active"
    => jar # None /\ family[jar] = family[stored]

CredentialsAreHonoured ==
  /\ "overlap" \in trouble \/ (\E c \in Call : SigningIn(c)) \/ SameSession
  /\ Quiet /\ trouble = {} =>
       /\ ~loggedOut => stored \in {None, jar}
       /\ jar # None /\ ~loggedOut => Current(jar) /\ jar \notin spent
       /\ (\E t \in Tab : view[t] = "user") => jar # None

(* A logout that was answered sticks: whether or not the page lived to read  *)
(* the answer, whatever refresh is answered late and whatever tab calls, no *)
(* call made after it is accepted before the next login, unless a login had *)
(* overlapped other traffic.                                                *)
LogoutSticks ==
  \A c \in Call : call[c].late /\ call[c].stage = "ok"
                    => call[c].op \in {"login", "logout"} \/ "overlap" \in trouble

(* The deployment guide on the client: after an expired access token "the   *)
(* React frontend does this refresh and retry step automatically": a call   *)
(* retried after its refresh, in a session that is still active, is not     *)
(* refused again.                                                           *)
RetriedCallAuthenticates ==
  \A c \in Call : call[c].stage = "denied" /\ call[c].retried /\ Valid(jar)
                    => trouble # {}
=============================================================================
