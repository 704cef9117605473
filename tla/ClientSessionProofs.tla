------------------------- MODULE ClientSessionProofs -------------------------
(***************************************************************************)
(* For any number of tabs, calls, refreshes, sessions and grants, and      *)
(* whatever answers are lost, late or overtaken: the theorems of the       *)
(* browser's side of a session.  Each action is first told field by field  *)
(* (the Does operators); the invariant is built in layers, each of which   *)
(* rests on the ones before it.                                            *)
(***************************************************************************)
EXTENDS ClientSession, FiniteSetTheorems, TLAPS

Issued(g) == g = None \/ family[g] # None

(* The shape of a call and of a refresh at each of their stages. *)
CallShape(c) ==
  /\ call[c].stage = "idle" =>
       /\ call[c].op = "none" /\ call[c].tab = None /\ call[c].bearer = None
       /\ call[c].cookie = None /\ ~call[c].retried /\ ~call[c].late
  /\ call[c].stage # "idle" => call[c].op \in Op
  /\ call[c].stage \in {"ok", "denied", "landed", "waiting"} => call[c].tab # None
  /\ call[c].stage = "landed" => call[c].op \in {"login", "logout"}
  /\ call[c].tab = None => call[c].stage \in {"idle", "sent"} /\ call[c].op \in {"none", "login", "logout"}
  /\ call[c].stage = "waiting" => call[c].op \in {"api", "me"} /\ call[c].retried
  /\ call[c].retried => call[c].op \in {"api", "me"}
  /\ call[c].op = "logout" => call[c].stage # "denied"

JobShape(j) ==
  /\ job[j].stage = "idle" => job[j].tab = None /\ job[j].cookie = None
  /\ job[j].stage \in {"ok", "denied", "renewed", "refused"} => job[j].tab # None
  /\ job[j].stage \in {"ok", "renewed"} <=> job[j].got # None
  /\ job[j].stage \in {"redeemed", "ok", "renewed"} => job[j].cookie # None

TabShape(t) ==
  /\ \A j, k \in Flights(t) : j = k
  /\ Flights(t) = {} <=> Waiting(t) = {}

(* The server knows every grant that is out. *)
Families ==
  /\ \A g \in Grant : family[g] # None => phase[family[g]] # "absent"
  /\ \A g \in spent : family[g] # None
  /\ \A s \in Session : phase[s] # "absent" => accepted[s] # None
  /\ \A s \in Session : accepted[s] # None => family[accepted[s]] = s
  /\ Issued(jar) /\ Issued(stored)
  /\ \A c \in Call : Issued(call[c].bearer) /\ Issued(call[c].cookie)
  /\ \A j \in Job : Issued(job[j].cookie) /\ Issued(job[j].got)

SignIn(c) == call[c].op = "login" /\ call[c].stage = "ok"
Redeeming(j) == job[j].stage \in {"redeemed", "ok"}

(* A grant on its way to the page is in nobody's hands yet. *)
Arriving ==
  /\ \A c \in Call : SignIn(c) =>
       /\ call[c].cookie \notin spent \cup {None, jar}
       /\ \A j \in Job : call[c].cookie \notin {job[j].cookie, job[j].got}
       /\ \A d \in Call : SignIn(d) /\ d # c => call[d].cookie # call[c].cookie
  /\ \A j \in Job : job[j].stage = "ok" =>
       /\ job[j].got \notin spent \cup {None, jar}
       /\ family[job[j].got] = family[job[j].cookie]
       /\ \A k \in Job : job[j].got # job[k].cookie /\ (k # j => job[j].got # job[k].got)

(* Without a lost answer and without tabs that refresh at one time ... *)
NoLoss == trouble \cap {"refresh", "tabs"} = {}
OneFlight ==
  NoLoss =>
    /\ \A j \in Job : Running(j) => job[j].tab # None
    /\ \A j, k \in Job : Running(j) /\ Running(k) => j = k
    /\ \A j \in Job : job[j].stage = "sent" => job[j].cookie \notin spent
    /\ jar \in spent => \E j \in Job : Redeeming(j)

-----------------------------------------------------------------------------
Live(g) == g # None /\ family[g] # None /\ phase[family[g]] = "active"

OfJar(g) == Live(g) => Live(jar) /\ family[g] = family[jar]

NoOverlap == "overlap" \notin trouble

OneSession ==
  NoOverlap =>
    /\ \A c \in Call : call[c].op = "login" =>
         /\ \A j \in Job : ~Running(j)
         /\ \A d \in Call : call[d].op \notin {"logout", "me"}
         /\ \A d \in Call : call[d].op = "login" => d = c
    /\ \A c \in Call : SigningIn(c) => call[c].cookie = jar /\ ~loggedOut
    /\ (\E c \in Call : SigningIn(c)) \/ OfJar(stored)
    /\ \A j \in Job :
         /\ OfJar(job[j].cookie) /\ OfJar(job[j].got)
         /\ Running(j) /\ Live(jar) => Live(job[j].cookie)
         /\ job[j].stage = "denied" => ~Live(jar)
    /\ \A c \in Call : call[c].op \in {"logout", "me"} =>
         OfJar(call[c].bearer) /\ OfJar(call[c].cookie)
    /\ \A c \in Call : call[c].op = "logout" =>
         /\ Live(jar) => Live(call[c].cookie)
         /\ call[c].stage \in {"ok", "landed"} => ~Live(jar)

Late ==
  NoOverlap =>
    /\ loggedOut => ~Live(jar)
    /\ \A c \in Call : call[c].late =>
         /\ loggedOut /\ ~Live(call[c].bearer) 
         /\ call[c].op # "login" => ~Live(call[c].cookie)
         /\ call[c].stage = "ok" => call[c].op \in {"login", "logout"}
-----------------------------------------------------------------------------
Smooth == trouble = {}
Honoured(g) == Current(g) /\ g \notin spent

(* The cookies are gone, and the page has yet to learn of it. *)
Leaving ==
  \/ \E c \in Call : call[c].op = "logout" /\ call[c].stage = "landed"
  \/ \E j \in Job : job[j].stage = "refused"

Owned == \A c \in Call : call[c].op = "logout" => call[c].tab # None
StartingAlone ==
  \A c \in Call : call[c].op = "me" =>
    /\ view[call[c].tab] = "starting"
    /\ \A d \in Call : call[d].tab = call[c].tab => d = c
    /\ call[c].stage = "ok" => jar # None \/ Leaving
UsersHold == \A t \in Tab : view[t] = "user" => jar # None \/ Leaving
SignInsHold == \A c \in Call : SignIn(c) \/ SigningIn(c) => Honoured(call[c].cookie)

Alone == Smooth => Owned /\ StartingAlone /\ UsersHold /\ SignInsHold

(* What a browser nothing disturbs will hold when all is settled. *)
UpToDate ==
  \/ \E c \in Call : call[c].op = "logout" /\ call[c].stage = "ok"
  \/ \E j \in Job : job[j].stage = "denied"
  \/ (\A j \in Job : ~Redeeming(j)) /\ Honoured(jar)
  \/ \E j \in Job : job[j].stage = "redeemed" /\ job[j].cookie = jar /\ Current(jar)
  \/ \E j \in Job : job[j].stage = "ok" /\ Honoured(job[j].got)

Undisturbed ==
  Smooth /\ ~loggedOut =>
    /\ \A j \in Job :
         /\ job[j].stage \in {"sent", "redeemed", "ok", "denied"} => job[j].cookie = jar
         /\ job[j].stage = "renewed" => job[j].got = jar
    /\ jar # None => UpToDate
    /\ \/ stored \in {None, jar}
       \/ \E c \in Call : SigningIn(c)
       \/ \E j \in Job : job[j].stage \in {"renewed", "refused"}

CallShapes == \A c \in Call : CallShape(c)
JobShapes == \A j \in Job : JobShape(j)
TabShapes == \A t \in Tab : TabShape(t)
Shapes == CallShapes /\ JobShapes /\ TabShapes

CallsBut(c) == \A d \in Call : d # c => call'[d] = call[d]
JobsBut(j) == \A k \in Job : k # j => job'[k] = job[k]

(* Only the stage and the tab of call c may change. *)
SameCall(c) ==
  /\ call'[c].op = call[c].op /\ call'[c].bearer = call[c].bearer
  /\ call'[c].cookie = call[c].cookie
  /\ call'[c].retried = call[c].retried /\ call'[c].late = call[c].late

Called(c, op, t, bearer, cookie, retried, late) ==
  /\ call'[c].op = op /\ call'[c].tab = t /\ call'[c].stage = "sent"
  /\ call'[c].bearer = bearer /\ call'[c].cookie = cookie
  /\ call'[c].retried = retried /\ call'[c].late = late

(* Tab t shows v from now on; the others show what they did. *)
Shows(t, v) ==
  /\ view' \in [Tab -> {"starting", "guest", "user"}]
  /\ \A u \in Tab : view'[u] = IF u = t THEN v ELSE view[u]

LEMMA ViewEffect ==
  ASSUME Domains, NEW t, NEW v \in {"starting", "guest", "user"}, view' = [view EXCEPT ![t] = v]
  PROVE  Shows(t, v)
BY DEF Domains, Shows

LEMMA IdleIsState ==
  /\ IdleCall \in CallState /\ IdleJob \in JobState
  /\ IdleCall.op = "none" /\ IdleCall.tab = None /\ IdleCall.stage = "idle"
  /\ IdleCall.bearer = None /\ IdleCall.cookie = None
  /\ IdleCall.retried = FALSE /\ IdleCall.late = FALSE
  /\ IdleJob.tab = None /\ IdleJob.stage = "idle" /\ IdleJob.cookie = None /\ IdleJob.got = None
BY DEF IdleCall, IdleJob, CallState, JobState

LEMMA CallIsState ==
  ASSUME Domains, NEW c \in Call
  PROVE  /\ call[c] \in CallState
         /\ call[c].op \in Op \cup {"none"} /\ call[c].tab \in Tab \cup {None}
         /\ call[c].stage \in {"idle", "sent", "ok", "denied", "landed", "waiting"}
         /\ call[c].bearer \in Grant \cup {None} /\ call[c].cookie \in Grant \cup {None}
         /\ call[c].retried \in BOOLEAN /\ call[c].late \in BOOLEAN
BY DEF Domains, CallState

LEMMA JobIsState ==
  ASSUME Domains, NEW j \in Job
  PROVE  /\ job[j] \in JobState
         /\ job[j].tab \in Tab \cup {None}
         /\ job[j].stage \in {"idle", "sent", "redeemed", "ok", "denied", "renewed", "refused"}
         /\ job[j].cookie \in Grant \cup {None} /\ job[j].got \in Grant \cup {None}
BY DEF Domains, JobState

(* The fields of every call and refresh. *)
Fields ==
  /\ \A c \in Call :
       /\ call[c].op \in Op \cup {"none"} /\ call[c].tab \in Tab \cup {None}
       /\ call[c].stage \in {"idle", "sent", "ok", "denied", "landed", "waiting"}
       /\ call[c].bearer \in Grant \cup {None} /\ call[c].cookie \in Grant \cup {None}
       /\ call[c].retried \in BOOLEAN /\ call[c].late \in BOOLEAN
  /\ \A j \in Job :
       /\ job[j].tab \in Tab \cup {None}
       /\ job[j].stage \in {"idle", "sent", "redeemed", "ok", "denied", "renewed", "refused"}
       /\ job[j].cookie \in Grant \cup {None} /\ job[j].got \in Grant \cup {None}

LEMMA FieldsHold == Domains => Fields
BY CallIsState, JobIsState DEF Fields

(* ... and of the server and the jar. *)
Holdings ==
  /\ \A s \in Session : /\ phase[s] \in {"absent", "active", "revoked"}
                        /\ accepted[s] \in Grant \cup {None}
  /\ \A g \in Grant : family[g] \in Session \cup {None}
  /\ jar \in Grant \cup {None} /\ stored \in Grant \cup {None} /\ spent \subseteq Grant

LEMMA HoldingsHold == Domains => Holdings
BY DEF Domains, Holdings

LEMMA SentEffect ==
  ASSUME NEW op \in Op, NEW t \in Tab, NEW old \in Grant \cup {None},
         NEW cookie \in Grant \cup {None}, NEW token \in Grant \cup {None},
         NEW retried \in BOOLEAN, NEW late \in BOOLEAN
  PROVE  LET r == Sent(op, t, old, cookie, token, retried, late) IN
         /\ r \in CallState
         /\ r.op = op /\ r.tab = t /\ r.stage = "sent" /\ r.cookie = cookie
         /\ r.bearer = (IF old # None THEN old ELSE token)
         /\ r.retried = retried /\ r.late = late
BY DEF Sent, Header, CallState

LEMMA NewCallEffect ==
  ASSUME Domains, NEW op \in Op, NEW t \in Tab
  PROVE  LET r == NewCall(op, t) IN
         /\ r \in CallState
         /\ r.op = op /\ r.tab = t /\ r.stage = "sent" /\ r.cookie = jar /\ r.bearer = stored
         /\ r.retried = FALSE /\ r.late = loggedOut
BY DEF Domains, NewCall, Sent, Header, CallState

BeginDoes(t, c, op) ==
  /\ call' \in [Call -> CallState] /\ CallsBut(c)
  /\ call[c].stage = "idle"
  /\ Called(c, op, t, stored, jar, FALSE, loggedOut)
  /\ op \in (IF view[t] = "user" THEN {"api", "logout"} ELSE {"login"})
  /\ trouble' = trouble \cup (IF Overlap(op) THEN {"overlap"} ELSE {})
  /\ UNCHANGED <<serverVars, browserVars, job, loggedOut, replayed>>

LEMMA BeginEffect ==
  ASSUME Domains, NEW t \in Tab, NEW c \in Call, NEW op \in Op, Begin(t, c, op)
  PROVE  BeginDoes(t, c, op)
<1>1. call' = [call EXCEPT ![c] = NewCall(op, t)] /\ call[c].stage = "idle"
  BY DEF Begin, Busy
<1>2. call \in [Call -> CallState] /\ NewCall(op, t) \in CallState
  BY NewCallEffect DEF Domains
<1>3. /\ op \in (IF view[t] = "user" THEN {"api", "logout"} ELSE {"login"})
      /\ trouble' = trouble \cup (IF Overlap(op) THEN {"overlap"} ELSE {})
      /\ UNCHANGED <<serverVars, browserVars, job, loggedOut, replayed>>
  BY DEF Begin
<1>4. call' \in [Call -> CallState] /\ CallsBut(c)
  BY <1>1, <1>2 DEF CallsBut
<1>5. call'[c] = NewCall(op, t)
  BY <1>1, <1>2
<1>6. Called(c, op, t, stored, jar, FALSE, loggedOut)
  BY <1>2, <1>5 DEF Called, NewCall, Sent, Header, Domains
<1> QED
  BY <1>1, <1>3, <1>4, <1>6 DEF BeginDoes

LEMMA AnsweredEffect ==
  ASSUME Domains, NEW c \in Call, NEW verdict \in {"ok", "denied"}, Answered(c, verdict)
  PROVE  /\ call' \in [Call -> CallState] /\ CallsBut(c)
         /\ call[c].tab = None => call'[c] = IdleCall
         /\ call[c].tab # None => SameCall(c) /\ call'[c].tab = call[c].tab /\ call'[c].stage = verdict
<1>1. call \in [Call -> CallState] /\ call[c] \in CallState
  BY CallIsState DEF Domains
<1>2. CASE call[c].tab = None
  BY <1>1, <1>2, IdleIsState DEF Answered, CallsBut
<1>3. CASE call[c].tab # None
  <2> DEFINE r == [call[c] EXCEPT !.stage = verdict]
  <2>1. r \in CallState /\ r.stage = verdict /\ r.op = call[c].op /\ r.tab = call[c].tab
        /\ r.bearer = call[c].bearer /\ r.cookie = call[c].cookie
        /\ r.retried = call[c].retried /\ r.late = call[c].late
    BY <1>1 DEF CallState
  <2>2. call' = [call EXCEPT ![c] = r]
    BY <1>3 DEF Answered
  <2> HIDE DEF r
  <2> QED
    BY <1>1, <1>3, <2>1, <2>2 DEF CallsBut, SameCall
<1> QED
  BY <1>2, <1>3

ServeReadDoes(c) ==
  /\ call[c].stage = "sent" /\ call[c].op \in {"api", "me"}
  /\ call' \in [Call -> CallState] /\ CallsBut(c)
  /\ call[c].tab = None => call'[c] = IdleCall
  /\ call[c].tab # None =>
       /\ SameCall(c) /\ call'[c].tab = call[c].tab
       /\ call'[c].stage = IF Valid(Presented(call[c])) THEN "ok" ELSE "denied"
  /\ UNCHANGED <<serverVars, browserVars, job, loggedOut, replayed, trouble>>

LEMMA ServeReadEffect ==
  ASSUME Domains, NEW c \in Call, ServeRead(c)
  PROVE  ServeReadDoes(c)
BY AnsweredEffect DEF ServeRead, ServeReadDoes

RefuseLoginDoes(c) ==
  /\ call[c].stage = "sent" /\ call[c].op = "login"
  /\ call' \in [Call -> CallState] /\ CallsBut(c)
  /\ call[c].tab = None => call'[c] = IdleCall
  /\ call[c].tab # None =>
       SameCall(c) /\ call'[c].tab = call[c].tab /\ call'[c].stage = "denied"
  /\ UNCHANGED <<serverVars, browserVars, job, loggedOut, replayed, trouble>>

LEMMA RefuseLoginEffect ==
  ASSUME Domains, NEW c \in Call, RefuseLogin(c)
  PROVE  RefuseLoginDoes(c)
BY AnsweredEffect DEF RefuseLogin, RefuseLoginDoes

LEMMA SettleEffect ==
  ASSUME Domains, NEW c \in Call, call' = Settle(c)
  PROVE  call' \in [Call -> CallState] /\ CallsBut(c) /\ call'[c] = IdleCall
BY IdleIsState DEF Domains, Settle, CallsBut

FetchedDoes(c) ==
  /\ call[c].stage = "ok" /\ call[c].op \in {"api", "me"}
  /\ call' \in [Call -> CallState] /\ CallsBut(c) /\ call'[c] = IdleCall
  /\ IF call[c].op = "me" THEN Shows(call[c].tab, "user") ELSE view' = view
  /\ UNCHANGED <<serverVars, jar, stored, job, loggedOut, replayed, trouble>>

LEMMA FetchedEffect ==
  ASSUME Domains, NEW c \in Call, Fetched(c)
  PROVE  FetchedDoes(c)
BY SettleEffect, ViewEffect DEF Fetched, SetUser, FetchedDoes

LogoutLandsDoes(c) ==
  /\ call[c].stage = "ok" /\ call[c].op = "logout"
  /\ call' \in [Call -> CallState] /\ CallsBut(c)
  /\ SameCall(c) /\ call'[c].tab = call[c].tab /\ call'[c].stage = "landed"
  /\ jar' = None /\ loggedOut' = TRUE
  /\ UNCHANGED <<serverVars, stored, view, job, replayed, trouble>>

LEMMA LogoutLandsEffect ==
  ASSUME Domains, NEW c \in Call, LogoutLands(c)
  PROVE  LogoutLandsDoes(c)
<1>1. call \in [Call -> CallState] /\ call[c] \in CallState
  BY CallIsState DEF Domains
<1>2. call' = [call EXCEPT ![c].stage = "landed"]
  BY DEF LogoutLands
<1>3. call' \in [Call -> CallState] /\ CallsBut(c)
      /\ SameCall(c) /\ call'[c].tab = call[c].tab /\ call'[c].stage = "landed"
  BY <1>1, <1>2 DEF CallState, CallsBut, SameCall
<1> QED
  BY <1>3 DEF LogoutLands, ClearAuthCookies, LogoutLandsDoes

LoggedOutDoes(c) ==
  /\ call[c].stage = "landed" /\ call[c].op = "logout"
  /\ call' \in [Call -> CallState] /\ CallsBut(c) /\ call'[c] = IdleCall
  /\ stored' = None /\ Shows(call[c].tab, "guest")
  /\ trouble' = trouble \cup Others(call[c].tab)
  /\ UNCHANGED <<serverVars, jar, job, loggedOut, replayed>>

LEMMA LoggedOutEffect ==
  ASSUME Domains, NEW c \in Call, LoggedOut(c)
  PROVE  LoggedOutDoes(c)
BY SettleEffect, ViewEffect DEF LoggedOut, SignOff, ClearStoredToken, LoggedOutDoes

UnauthorizedDoes(c) ==
  /\ call[c].stage = "denied" /\ (call[c].op = "login" \/ call[c].retried)
  /\ call' \in [Call -> CallState] /\ CallsBut(c) /\ call'[c] = IdleCall
  /\ stored' = None /\ Shows(call[c].tab, "guest")
  /\ trouble' = trouble \cup Others(call[c].tab)
  /\ UNCHANGED <<serverVars, jar, job, loggedOut, replayed>>

LEMMA UnauthorizedEffect ==
  ASSUME Domains, NEW c \in Call, Unauthorized(c)
  PROVE  UnauthorizedDoes(c)
BY SettleEffect, ViewEffect DEF Unauthorized, SignOff, ClearStoredToken, UnauthorizedDoes

(* What is left of a call, and of a refresh, whose page goes away. *)
LEMMA DropCallEffect ==
  ASSUME NEW r \in CallState
  PROVE  LET q == DropCall(r) IN
         /\ q \in CallState
         /\ r.op \in {"login", "logout"} /\ r.stage = "sent" =>
              /\ q.op = r.op /\ q.tab = None /\ q.stage = "sent" /\ q.bearer = r.bearer
              /\ q.cookie = r.cookie /\ q.retried = r.retried /\ q.late = r.late
         /\ ~(r.op \in {"login", "logout"} /\ r.stage = "sent") => q = IdleCall
<1>1. [r EXCEPT !.tab = None] \in CallState
  BY DEF CallState
<1> QED
  BY <1>1, IdleIsState DEF DropCall, CallState

LEMMA DropJobEffect ==
  ASSUME NEW r \in JobState
  PROVE  LET q == DropJob(r) IN
         /\ q \in JobState /\ q.tab = None
         /\ r.stage \in {"sent", "redeemed"} =>
              q.stage = r.stage /\ q.cookie = r.cookie /\ q.got = r.got
         /\ r.stage \notin {"sent", "redeemed"} => q = IdleJob
BY IdleIsState DEF DropJob, JobState

(* Page t goes away: its calls and refreshes ... *)
CallLeft(t, d) ==
  IF call[d].tab = t
  THEN IF call[d].op \in {"login", "logout"} /\ call[d].stage = "sent"
       THEN SameCall(d) /\ call'[d].tab = None /\ call'[d].stage = "sent"
       ELSE call'[d] = IdleCall
  ELSE call'[d] = call[d]

JobLeft(j) ==
  IF job[j].stage \in {"sent", "redeemed"}
  THEN /\ job'[j].tab = None /\ job'[j].stage = job[j].stage
       /\ job'[j].cookie = job[j].cookie /\ job'[j].got = job[j].got
  ELSE job'[j] = IdleJob

ReloadDoes(t, c) ==
  /\ call' \in [Call -> CallState] /\ job' \in [Job -> JobState]
  /\ call[c].stage = "idle"
  /\ Called(c, "me", t, stored, jar, FALSE, loggedOut)
  /\ \A d \in Call : d # c => CallLeft(t, d)
  /\ \A j \in Job : IF job[j].tab = t THEN JobLeft(j) ELSE job'[j] = job[j]
  /\ Shows(t, "starting")
  /\ trouble' = trouble \cup LossOf(t)
                  \cup (IF \E d \in Call : call[d].op = "login" THEN {"overlap"} ELSE {})
  /\ UNCHANGED <<serverVars, jar, stored, loggedOut, replayed>>

LEMMA ReloadEffect ==
  ASSUME Domains, NEW t \in Tab, NEW c \in Call, Reload(t, c)
  PROVE  ReloadDoes(t, c)
<1>1. "me" \in Op /\ NewCall("me", t) \in CallState
  BY NewCallEffect DEF Op
<1>2. call' = [d \in Call |-> IF d = c THEN NewCall("me", t)
                             ELSE IF call[d].tab = t THEN DropCall(call[d]) ELSE call[d]]
      /\ job' = [j \in Job |-> IF job[j].tab = t THEN DropJob(job[j]) ELSE job[j]]
      /\ call[c].stage = "idle"
  BY DEF Reload, Busy
<1>3. \A d \in Call : call[d] \in CallState /\ DropCall(call[d]) \in CallState
  BY CallIsState, DropCallEffect
<1>4. \A j \in Job : job[j] \in JobState /\ DropJob(job[j]) \in JobState
  BY JobIsState, DropJobEffect
<1>5. call' \in [Call -> CallState] /\ job' \in [Job -> JobState]
  BY <1>1, <1>2, <1>3, <1>4
<1>6. Called(c, "me", t, stored, jar, FALSE, loggedOut)
  <2>1. call'[c] = NewCall("me", t)
    BY <1>2
  <2> QED
    BY <1>1, <2>1 DEF Called, NewCall, Sent, Header, Domains
<1>7. ASSUME NEW d \in Call, d # c PROVE CallLeft(t, d)
  BY <1>2, <1>3, <1>7, DropCallEffect DEF CallLeft, SameCall
<1>8. ASSUME NEW j \in Job PROVE IF job[j].tab = t THEN JobLeft(j) ELSE job'[j] = job[j]
  BY <1>2, <1>4, DropJobEffect DEF JobLeft
<1>9. Shows(t, "starting")
  BY ViewEffect DEF Reload
<1> QED
  BY <1>2, <1>5, <1>6, <1>7, <1>8, <1>9 DEF Reload, ReloadDoes

ServeLoginDoes(c, s, g) ==
  /\ call[c].stage = "sent" /\ call[c].op = "login"
  /\ call' \in [Call -> CallState] /\ CallsBut(c)
  /\ call[c].tab = None => call'[c] = IdleCall
  /\ call[c].tab # None =>
       /\ call'[c].op = "login" /\ call'[c].tab = call[c].tab /\ call'[c].stage = "ok"
       /\ call'[c].bearer = call[c].bearer /\ call'[c].cookie = g
       /\ call'[c].retried = call[c].retried /\ call'[c].late = call[c].late
  /\ phase[s] = "absent" /\ family[g] = None /\ g \notin spent
  /\ \A u \in Session : accepted[u] # g
  /\ phase' \in [Session -> {"absent", "active", "revoked"}]
  /\ \A u \in Session : phase'[u] = IF u = s THEN "active" ELSE phase[u]
  /\ accepted' \in [Session -> Grant \cup {None}]
  /\ \A u \in Session : accepted'[u] = IF u = s THEN g ELSE accepted[u]
  /\ family' \in [Grant -> Session \cup {None}]
  /\ \A h \in Grant : family'[h] = IF h = g THEN s ELSE family[h]
  /\ UNCHANGED <<spent, aged, browserVars, job, loggedOut, replayed, trouble>>

LEMMA ServeLoginEffect ==
  ASSUME Domains, NEW c \in Call, NEW s \in Session, NEW g \in Grant, ServeLogin(c, s, g)
  PROVE  ServeLoginDoes(c, s, g)
<1>1. call \in [Call -> CallState] /\ call[c] \in CallState
  BY CallIsState DEF Domains
<1>2. /\ phase[s] = "absent" /\ family[g] = None /\ g \notin spent
      /\ \A u \in Session : accepted[u] # g
      /\ UNCHANGED <<spent, aged, browserVars, job, loggedOut, replayed, trouble>>
      /\ call[c].stage = "sent" /\ call[c].op = "login"
  BY DEF ServeLogin, Server!Open, Server!Unseen
<1>5. /\ phase' \in [Session -> {"absent", "active", "revoked"}]
      /\ \A u \in Session : phase'[u] = IF u = s THEN "active" ELSE phase[u]
      /\ accepted' \in [Session -> Grant \cup {None}]
      /\ \A u \in Session : accepted'[u] = IF u = s THEN g ELSE accepted[u]
      /\ family' \in [Grant -> Session \cup {None}]
      /\ \A h \in Grant : family'[h] = IF h = g THEN s ELSE family[h]
  <2>1. /\ phase' = [phase EXCEPT ![s] = "active"] /\ accepted' = [accepted EXCEPT ![s] = g]
        /\ family' = [family EXCEPT ![g] = s]
    BY DEF ServeLogin, Server!Open
  <2> QED
    BY <2>1 DEF Domains
<1>3. CASE call[c].tab = None
  <2>1. call' = [call EXCEPT ![c] = IdleCall]
    BY <1>3 DEF ServeLogin
  <2> QED
    BY <1>1, <1>2, <1>3, <1>5, <2>1, IdleIsState DEF CallsBut, ServeLoginDoes
<1>4. CASE call[c].tab # None
  <2> DEFINE r == [call[c] EXCEPT !.stage = "ok", !.cookie = g]
  <2>1. r \in CallState /\ r.stage = "ok" /\ r.op = call[c].op /\ r.tab = call[c].tab
        /\ r.bearer = call[c].bearer /\ r.cookie = g
        /\ r.retried = call[c].retried /\ r.late = call[c].late
    BY <1>1 DEF CallState
  <2>2. call' = [call EXCEPT ![c] = r]
    BY <1>4 DEF ServeLogin
  <2> HIDE DEF r
  <2> QED
    BY <1>1, <1>2, <1>4, <1>5, <2>1, <2>2 DEF CallsBut, ServeLoginDoes
<1> QED
  BY <1>3, <1>4

LEMMA CloseEffect ==
  ASSUME Domains, NEW S, Server!Close(S)
  PROVE  /\ phase' \in [Session -> {"absent", "active", "revoked"}]
         /\ \A s \in S : phase[s] = "active"
         /\ \A s \in Session : phase'[s] = IF s \in S THEN "revoked" ELSE phase[s]
         /\ accepted' = accepted /\ spent' = spent
BY DEF Domains, Server!Close

ServeLogoutDoes(c) ==
  /\ call[c].stage = "sent" /\ call[c].op = "logout"
  /\ call' \in [Call -> CallState] /\ CallsBut(c)
  /\ call[c].tab = None => call'[c] = IdleCall
  /\ call[c].tab # None => SameCall(c) /\ call'[c].tab = call[c].tab /\ call'[c].stage = "ok"
  /\ phase' \in [Session -> {"absent", "active", "revoked"}]
  /\ \A s \in Session : phase'[s] = IF s \in LogoutTarget(call[c]) /\ phase[s] = "active"
                                    THEN "revoked" ELSE phase[s]
  /\ UNCHANGED <<accepted, spent, family, aged, browserVars, job, loggedOut, replayed, trouble>>

LEMMA ServeLogoutEffect ==
  ASSUME Domains, NEW c \in Call, ServeLogout(c)
  PROVE  ServeLogoutDoes(c)
<1>1. Answered(c, "ok") /\ Server!Close(Active(LogoutTarget(call[c])))
      /\ call[c].stage = "sent" /\ call[c].op = "logout"
  BY DEF ServeLogout
<1> QED
  BY <1>1, AnsweredEffect, CloseEffect DEF Active, ServeLogout, ServeLogoutDoes

(* What a step on a job leaves of it. *)
LEMMA JobAnswered ==
  ASSUME Domains, NEW j \in Job, NEW x \in JobState,
         job' = [job EXCEPT ![j] = IF job[j].tab = None THEN IdleJob ELSE x]
  PROVE  /\ job' \in [Job -> JobState] /\ JobsBut(j)
         /\ job[j].tab = None => job'[j] = IdleJob
         /\ job[j].tab # None => job'[j] = x
BY IdleIsState DEF Domains, JobsBut

ServeReplayDoes(j) ==
  LET g == job[j].cookie IN
  /\ job[j].stage = "sent"
  /\ g = None \/ g \in spent \/ ~Current(g)
  /\ replayed' = (replayed \/ g \in spent)
  /\ phase' \in [Session -> {"absent", "active", "revoked"}]
  /\ \A s \in Session : phase'[s] = IF g # None /\ s = family[g] /\ phase[s] = "active"
                                    THEN "revoked" ELSE phase[s]
  /\ UNCHANGED <<accepted, spent, family, aged, browserVars, call, loggedOut, trouble>>
  /\ job' \in [Job -> JobState] /\ JobsBut(j)
  /\ job[j].tab = None => job'[j] = IdleJob
  /\ job[j].tab # None => /\ job'[j].tab = job[j].tab /\ job'[j].stage = "denied"
                          /\ job'[j].cookie = g /\ job'[j].got = job[j].got

LEMMA ServeReplayEffect ==
  ASSUME Domains, NEW j \in Job, ServeReplay(j)
  PROVE  ServeReplayDoes(j)
<1> DEFINE x == [job[j] EXCEPT !.stage = "denied"]
<1>1. x \in JobState /\ x.tab = job[j].tab /\ x.stage = "denied" /\ x.cookie = job[j].cookie
      /\ x.got = job[j].got
  BY JobIsState DEF JobState
<1>2. job' = [job EXCEPT ![j] = IF job[j].tab = None THEN IdleJob ELSE x]
  BY DEF ServeReplay
<1>3. /\ job[j].stage = "sent"
      /\ job[j].cookie = None \/ job[j].cookie \in spent \/ ~Current(job[j].cookie)
      /\ Server!Close(IF job[j].cookie = None THEN {} ELSE Active({family[job[j].cookie]}))
      /\ replayed' = (replayed \/ job[j].cookie \in spent)
  BY DEF ServeReplay
<1>4. /\ phase' \in [Session -> {"absent", "active", "revoked"}]
      /\ \A s \in Session : phase'[s] = IF job[j].cookie # None /\ s = family[job[j].cookie] /\ phase[s] = "active"
                                        THEN "revoked" ELSE phase[s]
      /\ UNCHANGED <<accepted, spent, family, aged, browserVars, call, loggedOut, trouble>>
  BY <1>3, CloseEffect DEF Active, ServeReplay
<1> HIDE DEF x
<1> QED
  BY <1>1, <1>2, <1>3, <1>4, JobAnswered DEF ServeReplayDoes

ServeRedeemDoes(j) ==
  /\ job[j].stage = "sent" /\ job[j].cookie \notin spent /\ Current(job[j].cookie)
  /\ spent' = spent \cup {job[j].cookie}
  /\ UNCHANGED <<phase, accepted, family, aged, browserVars, call, loggedOut, replayed, trouble>>
  /\ job' \in [Job -> JobState] /\ JobsBut(j)
  /\ job'[j].tab = job[j].tab /\ job'[j].stage = "redeemed"
  /\ job'[j].cookie = job[j].cookie /\ job'[j].got = job[j].got

LEMMA ServeRedeemEffect ==
  ASSUME Domains, NEW j \in Job, ServeRedeem(j)
  PROVE  ServeRedeemDoes(j)
<1>1. job \in [Job -> JobState] /\ job[j] \in JobState
  BY JobIsState DEF Domains
<1>2. job' = [job EXCEPT ![j].stage = "redeemed"]
  BY DEF ServeRedeem
<1>3. /\ job' \in [Job -> JobState] /\ JobsBut(j)
      /\ job'[j].tab = job[j].tab /\ job'[j].stage = "redeemed"
      /\ job'[j].cookie = job[j].cookie /\ job'[j].got = job[j].got
  BY <1>1, <1>2 DEF JobState, JobsBut
<1> QED
  BY <1>3 DEF ServeRedeem, Server!Redeem, Current, ServeRedeemDoes

ServeRenewDoes(j, g) ==
  LET s == family[job[j].cookie] IN
  /\ job[j].stage = "redeemed" /\ family[g] = None
  /\ family' \in [Grant -> Session \cup {None}]
  /\ \A h \in Grant : family'[h] = IF h = g THEN s ELSE family[h]
  /\ phase[s] = "active" =>
       /\ accepted[s] \in spent /\ g \notin spent /\ \A u \in Session : accepted[u] # g
       /\ aged' = aged \ {s}
       /\ \A u \in Session : accepted'[u] = IF u = s THEN g ELSE accepted[u]
  /\ phase[s] # "active" => accepted' = accepted /\ aged' = aged
  /\ accepted' \in [Session -> Grant \cup {None}]
  /\ UNCHANGED <<phase, spent, browserVars, call, loggedOut, replayed, trouble>>
  /\ job' \in [Job -> JobState] /\ JobsBut(j)
  /\ job[j].tab = None => job'[j] = IdleJob
  /\ job[j].tab # None => /\ job'[j].tab = job[j].tab /\ job'[j].stage = "ok"
                          /\ job'[j].cookie = job[j].cookie /\ job'[j].got = g

LEMMA ServeRenewEffect ==
  ASSUME Domains, NEW j \in Job, NEW g \in Grant, ServeRenew(j, g), Shapes
  PROVE  ServeRenewDoes(j, g)
<1> DEFINE x == [job[j] EXCEPT !.stage = "ok", !.got = g]
<1>1. x \in JobState /\ x.tab = job[j].tab /\ x.stage = "ok" /\ x.cookie = job[j].cookie
      /\ x.got = g
  BY JobIsState DEF JobState
<1>2. job' = [job EXCEPT ![j] = IF job[j].tab = None THEN IdleJob ELSE x]
  BY DEF ServeRenew
<1>3. LET s == family[job[j].cookie] IN
         /\ job[j].stage = "redeemed" /\ family[g] = None
         /\ family' \in [Grant -> Session \cup {None}]
         /\ \A h \in Grant : family'[h] = IF h = g THEN s ELSE family[h]
         /\ phase[s] = "active" =>
              /\ accepted[s] \in spent /\ g \notin spent /\ \A u \in Session : accepted[u] # g
              /\ aged' = aged \ {s}
              /\ \A u \in Session : accepted'[u] = IF u = s THEN g ELSE accepted[u]
         /\ phase[s] # "active" => accepted' = accepted /\ aged' = aged
         /\ accepted' \in [Session -> Grant \cup {None}]
         /\ UNCHANGED <<phase, spent, browserVars, call, loggedOut, replayed, trouble>>
  <2>1. LET s == family[job[j].cookie] IN
         /\ job[j].stage = "redeemed" /\ family[g] = None
         /\ family' = [family EXCEPT ![g] = s]
         /\ phase[s] = "active" =>
              /\ accepted[s] \in spent /\ g \notin spent /\ \A u \in Session : accepted[u] # g
              /\ aged' = aged \ {s} /\ accepted' = [accepted EXCEPT ![s] = g]
         /\ phase[s] # "active" => accepted' = accepted /\ aged' = aged
         /\ UNCHANGED <<phase, spent, browserVars, call, loggedOut, replayed, trouble>>
    BY DEF ServeRenew, Server!Renew, Server!Unseen
  <2>2. job[j].cookie \in Grant
    BY <2>1, JobIsState DEF Shapes, JobShapes, JobShape
  <2> QED
    BY <2>1, <2>2 DEF Domains
<1> HIDE DEF x
<1> QED
  BY <1>1, <1>2, <1>3, JobAnswered DEF ServeRenewDoes

LoginLandsDoes(c) ==
  /\ call[c].stage = "ok" /\ call[c].op = "login"
  /\ call' \in [Call -> CallState]
  /\ \A d \in Call :
       /\ call'[d].op = call[d].op /\ call'[d].tab = call[d].tab
       /\ call'[d].stage = IF d = c THEN "landed" ELSE call[d].stage
       /\ call'[d].bearer = call[d].bearer /\ call'[d].cookie = call[d].cookie
       /\ call'[d].retried = call[d].retried /\ call'[d].late = FALSE
  /\ jar' = call[c].cookie /\ loggedOut' = FALSE
  /\ UNCHANGED <<serverVars, stored, view, job, replayed, trouble>>

LEMMA LoginLandsEffect ==
  ASSUME Domains, NEW c \in Call, LoginLands(c)
  PROVE  LoginLandsDoes(c)
<1> DEFINE r(d) == IF d = c THEN [call[c] EXCEPT !.stage = "landed", !.late = FALSE]
                   ELSE [call[d] EXCEPT !.late = FALSE]
<1>1. call' = [d \in Call |-> r(d)]
  BY DEF LoginLands
<1>2. \A d \in Call :
        /\ r(d) \in CallState /\ r(d).op = call[d].op /\ r(d).tab = call[d].tab
        /\ r(d).stage = IF d = c THEN "landed" ELSE call[d].stage
        /\ r(d).bearer = call[d].bearer /\ r(d).cookie = call[d].cookie
        /\ r(d).retried = call[d].retried /\ r(d).late = FALSE
  BY CallIsState DEF CallState
<1>3. /\ call[c].stage = "ok" /\ call[c].op = "login"
      /\ jar' = call[c].cookie /\ loggedOut' = FALSE
      /\ UNCHANGED <<serverVars, stored, view, job, replayed, trouble>>
  BY DEF LoginLands, SetAuthCookies
<1> HIDE DEF r
<1> QED
  BY <1>1, <1>2, <1>3 DEF LoginLandsDoes

SignedInDoes(c) ==
  /\ call[c].stage = "landed" /\ call[c].op = "login"
  /\ call' \in [Call -> CallState] /\ CallsBut(c) /\ call'[c] = IdleCall
  /\ stored' = call[c].cookie /\ Shows(call[c].tab, "user")
  /\ UNCHANGED <<serverVars, jar, job, loggedOut, replayed, trouble>>

LEMMA SignedInEffect ==
  ASSUME Domains, NEW c \in Call, SignedIn(c)
  PROVE  SignedInDoes(c)
BY SettleEffect, ViewEffect DEF SignedIn, SetStoredToken, SetUser, SignedInDoes

LEMMA ChallengedEffect ==
  ASSUME Domains, NEW c \in Call, Challenged(c)
  PROVE  /\ call[c].stage = "denied" /\ call[c].op \in {"api", "me"} /\ ~call[c].retried
         /\ call' \in [Call -> CallState] /\ CallsBut(c)
         /\ call'[c].op = call[c].op /\ call'[c].tab = call[c].tab /\ call'[c].stage = "waiting"
         /\ call'[c].bearer = call[c].bearer /\ call'[c].cookie = call[c].cookie
         /\ call'[c].retried = TRUE /\ call'[c].late = call[c].late
<1>1. call \in [Call -> CallState] /\ call[c] \in CallState
  BY CallIsState DEF Domains
<1>2. call' = [call EXCEPT ![c].stage = "waiting", ![c].retried = TRUE]
  BY DEF Challenged
<1> QED
  BY <1>1, <1>2 DEF Challenged, CallState, CallsBut

JoinRefreshDoes(c) ==
  /\ call[c].stage = "denied" /\ call[c].op \in {"api", "me"} /\ ~call[c].retried
  /\ Flights(call[c].tab) # {}
  /\ call' \in [Call -> CallState] /\ CallsBut(c)
  /\ call'[c].op = call[c].op /\ call'[c].tab = call[c].tab /\ call'[c].stage = "waiting"
  /\ call'[c].bearer = call[c].bearer /\ call'[c].cookie = call[c].cookie
  /\ call'[c].retried = TRUE /\ call'[c].late = call[c].late
  /\ UNCHANGED <<serverVars, browserVars, job, loggedOut, replayed, trouble>>

LEMMA JoinRefreshEffect ==
  ASSUME Domains, NEW c \in Call, JoinRefresh(c)
  PROVE  JoinRefreshDoes(c)
BY ChallengedEffect DEF JoinRefresh, JoinRefreshDoes

StartRefreshDoes(c, j) ==
  /\ job[j].stage = "idle"
  /\ job' \in [Job -> JobState] /\ JobsBut(j)
  /\ job'[j].tab = call[c].tab /\ job'[j].stage = "sent"
  /\ job'[j].cookie = jar /\ job'[j].got = None
  /\ Flights(call[c].tab) = {}
  /\ call[c].stage = "denied" /\ call[c].op \in {"api", "me"} /\ ~call[c].retried
  /\ call' \in [Call -> CallState] /\ CallsBut(c)
  /\ call'[c].op = call[c].op /\ call'[c].tab = call[c].tab /\ call'[c].stage = "waiting"
  /\ call'[c].bearer = call[c].bearer /\ call'[c].cookie = call[c].cookie
  /\ call'[c].retried = TRUE /\ call'[c].late = call[c].late
  /\ trouble' = trouble \cup Crossing(call[c].tab)
  /\ UNCHANGED <<serverVars, browserVars, loggedOut, replayed>>

LEMMA StartRefreshEffect ==
  ASSUME Domains, NEW c \in Call, NEW j \in Job, StartRefresh(c, j)
  PROVE  StartRefreshDoes(c, j)
<1> DEFINE x == [tab |-> call[c].tab, stage |-> "sent", cookie |-> jar, got |-> None]
<1>1. x \in JobState
  BY CallIsState DEF Domains, JobState
<1>2. job' = [job EXCEPT ![j] = x] /\ job[j].stage = "idle"
  BY DEF StartRefresh, Running
<1>3. job \in [Job -> JobState]
  BY DEF Domains
<1>4. job' \in [Job -> JobState] /\ JobsBut(j) /\ job'[j].tab = call[c].tab
      /\ job'[j].stage = "sent" /\ job'[j].cookie = jar /\ job'[j].got = None
  BY <1>1, <1>2, <1>3 DEF JobsBut
<1>5. Challenged(c) /\ Flights(call[c].tab) = {} /\ trouble' = trouble \cup Crossing(call[c].tab)
      /\ UNCHANGED <<serverVars, browserVars, loggedOut, replayed>>
  BY DEF StartRefresh
<1> QED
  BY <1>2, <1>4, <1>5, ChallengedEffect DEF StartRefreshDoes

(* The answer of a refresh lands: it sets or clears the cookies. *)
JobLands(j, stage) ==
  /\ job' \in [Job -> JobState] /\ JobsBut(j)
  /\ job'[j].tab = job[j].tab /\ job'[j].stage = stage
  /\ job'[j].cookie = job[j].cookie /\ job'[j].got = job[j].got
  /\ UNCHANGED <<serverVars, stored, view, call, loggedOut, replayed, trouble>>

LEMMA JobLandsEffect ==
  ASSUME Domains, NEW j \in Job, NEW stage \in {"renewed", "refused"},
         job' = [job EXCEPT ![j].stage = stage],
         UNCHANGED <<serverVars, stored, view, call, loggedOut, replayed, trouble>>
  PROVE  JobLands(j, stage)
<1>1. job \in [Job -> JobState] /\ job[j] \in JobState
  BY JobIsState DEF Domains
<1> QED
  BY <1>1 DEF JobState, JobsBut, JobLands

RenewalLandsDoes(j) ==
  job[j].stage = "ok" /\ jar' = job[j].got /\ JobLands(j, "renewed")

LEMMA RenewalLandsEffect ==
  ASSUME Domains, NEW j \in Job, RenewalLands(j)
  PROVE  RenewalLandsDoes(j)
BY JobLandsEffect DEF RenewalLands, SetAuthCookies, RenewalLandsDoes

RefusalLandsDoes(j) ==
  job[j].stage = "denied" /\ jar' = None /\ JobLands(j, "refused")

LEMMA RefusalLandsEffect ==
  ASSUME Domains, NEW j \in Job, RefusalLands(j)
  PROVE  RefusalLandsDoes(j)
BY JobLandsEffect DEF RefusalLands, ClearAuthCookies, RefusalLandsDoes

RefreshedDoes(j) ==
  /\ job[j].tab \in Tab /\ job[j].got \in Grant
  /\ call' \in [Call -> CallState]
  /\ job' \in [Job -> JobState] /\ JobsBut(j) /\ job'[j] = IdleJob
  /\ \A c \in Call : c \notin Waiting(job[j].tab) => call'[c] = call[c]
  /\ \A c \in Waiting(job[j].tab) :
       Called(c, call[c].op, job[j].tab,
              IF call[c].bearer # None THEN call[c].bearer ELSE job[j].got,
              jar, TRUE, call[c].late)
  /\ job[j].stage = "renewed" /\ stored' = job[j].got
  /\ UNCHANGED <<serverVars, jar, view, loggedOut, replayed, trouble>>

LEMMA RefreshedEffect ==
  ASSUME Domains, Shapes, NEW j \in Job, Refreshed(j)
  PROVE  RefreshedDoes(j)
<1> DEFINE t == job[j].tab
           g == job[j].got
           again(c) == Sent(call[c].op, t, call[c].bearer, jar, g, TRUE, call[c].late)
<1>0. t \in Tab /\ g \in Grant /\ \A c \in Waiting(t) : call[c].op \in Op
  <2>1. job[j].stage = "renewed"
    BY DEF Refreshed
  <2>2. t \in Tab /\ g \in Grant
    BY <2>1, JobIsState DEF Shapes, JobShapes, JobShape
  <2>3. \A c \in Waiting(t) : call[c].op \in Op
    BY DEF Waiting, Shapes, CallShapes, CallShape
  <2> QED
    BY <2>2, <2>3
<1>1. call' = [c \in Call |-> IF c \in Waiting(t) THEN again(c) ELSE call[c]]
      /\ job' = [job EXCEPT ![j] = IdleJob]
  BY DEF Refreshed
<1>2. ASSUME NEW c \in Waiting(t)
      PROVE  /\ c \in Call /\ again(c) \in CallState
             /\ again(c).op = call[c].op /\ again(c).tab = t /\ again(c).stage = "sent"
             /\ again(c).cookie = jar
             /\ again(c).bearer = (IF call[c].bearer # None THEN call[c].bearer ELSE g)
             /\ again(c).retried = TRUE /\ again(c).late = call[c].late
  <2>1. c \in Call /\ call[c].op \in Op /\ call[c].bearer \in Grant \cup {None} /\ call[c].late \in BOOLEAN
    BY <1>0, CallIsState DEF Waiting
  <2> HIDE DEF t, g
  <2> QED
    BY <1>0, <2>1 DEF Sent, Header, CallState, Domains
<1>3. call' \in [Call -> CallState]
  BY <1>1, <1>2, CallIsState
<1>4. job' \in [Job -> JobState] /\ JobsBut(j) /\ job'[j] = IdleJob
  BY <1>1, IdleIsState DEF Domains, JobsBut
<1>5. \A c \in Call : c \notin Waiting(t) => call'[c] = call[c]
  BY <1>1
<1>6. ASSUME NEW c \in Waiting(t)
      PROVE  Called(c, call[c].op, t, IF call[c].bearer # None THEN call[c].bearer ELSE g,
                    jar, TRUE, call[c].late)
  BY <1>1, <1>2, <1>6 DEF Called
<1>7. /\ job[j].stage = "renewed" /\ stored' = job[j].got
      /\ UNCHANGED <<serverVars, jar, view, loggedOut, replayed, trouble>>
  BY DEF Refreshed, SetStoredToken
<1> QED
  BY <1>0, <1>3, <1>4, <1>5, <1>6, <1>7 DEF RefreshedDoes

LEMMA RefreshFailedEffect ==
  ASSUME Domains, NEW t, RefreshFailed(t)
  PROVE  /\ call' \in [Call -> CallState]
         /\ \A c \in Call : call'[c] = IF c \in Waiting(t) THEN IdleCall ELSE call[c]
         /\ stored' = None /\ Shows(t, "guest")
<1>1. call' = [c \in Call |-> IF c \in Waiting(t) THEN IdleCall ELSE call[c]]
  BY DEF RefreshFailed
<1> QED
  BY <1>1, IdleIsState, CallIsState, ViewEffect DEF RefreshFailed, SignOff, ClearStoredToken

RefreshDeniedDoes(j) ==
  /\ job[j].stage = "refused"
  /\ job' \in [Job -> JobState] /\ JobsBut(j) /\ job'[j] = IdleJob
  /\ call' \in [Call -> CallState]
  /\ \A c \in Call : call'[c] = IF c \in Waiting(job[j].tab) THEN IdleCall ELSE call[c]
  /\ stored' = None /\ Shows(job[j].tab, "guest")
  /\ trouble' = trouble \cup Others(job[j].tab)
  /\ UNCHANGED <<serverVars, jar, loggedOut, replayed>>

LEMMA RefreshDeniedEffect ==
  ASSUME Domains, NEW j \in Job, RefreshDenied(j)
  PROVE  RefreshDeniedDoes(j)
<1>1. job' \in [Job -> JobState] /\ JobsBut(j) /\ job'[j] = IdleJob
  BY IdleIsState DEF RefreshDenied, Domains, JobsBut
<1>2. /\ job[j].stage = "refused" /\ RefreshFailed(job[j].tab)
      /\ trouble' = trouble \cup Others(job[j].tab)
      /\ UNCHANGED <<serverVars, jar, loggedOut, replayed>>
  BY DEF RefreshDenied
<1> QED
  BY <1>1, <1>2, RefreshFailedEffect DEF RefreshDeniedDoes

TimeoutJobDoes(j) ==
  /\ job[j].stage # "idle" /\ job[j].tab # None
  /\ job' \in [Job -> JobState] /\ JobsBut(j) /\ JobLeft(j)
  /\ call' \in [Call -> CallState]
  /\ \A c \in Call : call'[c] = IF c \in Waiting(job[j].tab) THEN IdleCall ELSE call[c]
  /\ stored' = None /\ Shows(job[j].tab, "guest")
  /\ trouble' = trouble \cup {"refresh"}
  /\ UNCHANGED <<serverVars, jar, loggedOut, replayed>>

LEMMA TimeoutJobEffect ==
  ASSUME Domains, NEW j \in Job, TimeoutJob(j)
  PROVE  TimeoutJobDoes(j)
<1>1. job' = [job EXCEPT ![j] = DropJob(job[j])] /\ job \in [Job -> JobState]
  BY DEF TimeoutJob, Domains
<1>2. job' \in [Job -> JobState] /\ JobsBut(j) /\ JobLeft(j)
  BY <1>1, JobIsState, DropJobEffect DEF JobsBut, JobLeft
<1>3. /\ job[j].stage # "idle" /\ job[j].tab # None
      /\ RefreshFailed(job[j].tab)
      /\ trouble' = trouble \cup {"refresh"}
      /\ UNCHANGED <<serverVars, jar, loggedOut, replayed>>
  BY DEF TimeoutJob, Running
<1> QED
  BY <1>2, <1>3, RefreshFailedEffect DEF TimeoutJobDoes

TimeoutCallDoes(c) ==
  /\ call[c].stage \in {"sent", "ok", "denied", "landed"} /\ call[c].tab # None
  /\ call' \in [Call -> CallState] /\ CallsBut(c) /\ CallLeft(call[c].tab, c)
  /\ IF call[c].op \in {"me", "logout"} THEN stored' = None /\ Shows(call[c].tab, "guest")
     ELSE stored' = stored /\ view' = view
  /\ trouble' = trouble
       \cup (IF call[c].op = "logout" THEN {"logout"} ELSE {})
       \cup (IF call[c].op = "me" THEN Others(call[c].tab) ELSE {})
       \cup (IF SigningIn(c) THEN {"overlap"} ELSE {})
  /\ UNCHANGED <<serverVars, jar, job, loggedOut, replayed>>

LEMMA TimeoutCallEffect ==
  ASSUME Domains, NEW c \in Call, TimeoutCall(c)
  PROVE  TimeoutCallDoes(c)
<1>1. call' = [call EXCEPT ![c] = DropCall(call[c])] /\ call \in [Call -> CallState]
  BY DEF TimeoutCall, Domains
<1>2. call[c] \in CallState /\ DropCall(call[c]) \in CallState
  BY CallIsState, DropCallEffect
<1>3. call'[c] = DropCall(call[c]) /\ call' \in [Call -> CallState] /\ CallsBut(c)
  BY <1>1, <1>2 DEF CallsBut
<1>4. CallLeft(call[c].tab, c)
  BY <1>2, <1>3, DropCallEffect DEF CallLeft, SameCall
<1>5. /\ call[c].stage \in {"sent", "ok", "denied", "landed"} /\ call[c].tab # None
      /\ IF call[c].op \in {"me", "logout"} THEN SignOff(call[c].tab) ELSE UNCHANGED <<stored, view>>
      /\ trouble' = trouble
              \cup (IF call[c].op = "logout" THEN {"logout"} ELSE {})
              \cup (IF call[c].op = "me" THEN Others(call[c].tab) ELSE {})
              \cup (IF SigningIn(c) THEN {"overlap"} ELSE {})
      /\ UNCHANGED <<serverVars, jar, job, loggedOut, replayed>>
  BY DEF TimeoutCall
<1>6. IF call[c].op \in {"me", "logout"} THEN stored' = None /\ Shows(call[c].tab, "guest")
      ELSE stored' = stored /\ view' = view
  BY <1>5, ViewEffect DEF SignOff, ClearStoredToken
<1> QED
  BY <1>3, <1>4, <1>5, <1>6 DEF TimeoutCallDoes

AgeDoes(s) ==
  /\ phase[s] = "active" /\ s \notin aged /\ aged' = aged \cup {s}
  /\ UNCHANGED <<phase, accepted, spent, family, browserVars, call, job,
                 loggedOut, replayed, trouble>>

LEMMA AgeEffect ==
  ASSUME Domains, NEW s \in Session, Age(s)
  PROVE  AgeDoes(s)
BY DEF Age, AgeDoes

CloseElsewhereDoes(s) ==
  /\ phase[s] = "active"
  /\ phase' \in [Session -> {"absent", "active", "revoked"}]
  /\ \A u \in Session : phase'[u] = IF u = s THEN "revoked" ELSE phase[u]
  /\ trouble' = trouble \cup {"closed"}
  /\ UNCHANGED <<accepted, spent, family, aged, browserVars, call, job, loggedOut, replayed>>

LEMMA CloseElsewhereEffect ==
  ASSUME Domains, NEW s \in Session, CloseElsewhere(s)
  PROVE  CloseElsewhereDoes(s)
<1>1. Server!Close({s}) /\ phase[s] = "active" /\ trouble' = trouble \cup {"closed"}
      /\ UNCHANGED <<family, aged, browserVars, call, job, loggedOut, replayed>>
  BY DEF CloseElsewhere
<1> QED
  BY <1>1, CloseEffect DEF CloseElsewhereDoes

-----------------------------------------------------------------------------
(* A step, told field by field. *)
Step ==
  \/ \E t \in Tab : \E c \in Call : ReloadDoes(t, c)
  \/ \E t \in Tab : \E c \in Call : \E op \in Op : BeginDoes(t, c, op)
  \/ \E c \in Call : ServeReadDoes(c)
  \/ \E c \in Call : RefuseLoginDoes(c)
  \/ \E c \in Call : ServeLogoutDoes(c)
  \/ \E c \in Call : \E s \in Session : \E g \in Grant : ServeLoginDoes(c, s, g)
  \/ \E c \in Call : FetchedDoes(c)
  \/ \E c \in Call : SignedInDoes(c)
  \/ \E c \in Call : LoggedOutDoes(c)
  \/ \E c \in Call : UnauthorizedDoes(c)
  \/ \E c \in Call : JoinRefreshDoes(c)
  \/ \E c \in Call : \E j \in Job : StartRefreshDoes(c, j)
  \/ \E c \in Call : TimeoutCallDoes(c)
  \/ \E j \in Job : ServeReplayDoes(j)
  \/ \E j \in Job : ServeRedeemDoes(j)
  \/ \E j \in Job : \E g \in Grant : ServeRenewDoes(j, g)
  \/ \E j \in Job : RefreshedDoes(j)
  \/ \E j \in Job : RefreshDeniedDoes(j)
  \/ \E j \in Job : TimeoutJobDoes(j)
  \/ \E s \in Session : AgeDoes(s)
  \/ \E s \in Session : CloseElsewhereDoes(s)
  \/ \E c \in Call : LoginLandsDoes(c)
  \/ \E c \in Call : LogoutLandsDoes(c)
  \/ \E j \in Job : RenewalLandsDoes(j)
  \/ \E j \in Job : RefusalLandsDoes(j)
  \/ UNCHANGED vars

(* Every step is one of these. *)
LEMMA StepEffect == Domains /\ Shapes /\ [Next]_vars => Step
<1> SUFFICES ASSUME Domains, Shapes, [Next]_vars PROVE Step
  OBVIOUS
<1>1. ASSUME NEW t \in Tab, NEW c \in Call, Reload(t, c) PROVE Step
  BY <1>1, ReloadEffect DEF Step
<1>2. ASSUME NEW t \in Tab, NEW c \in Call, NEW op \in Op, Begin(t, c, op) PROVE Step
  BY <1>2, BeginEffect DEF Step
<1>3. ASSUME NEW c \in Call, ServeRead(c) PROVE Step
  BY <1>3, ServeReadEffect DEF Step
<1>4. ASSUME NEW c \in Call, RefuseLogin(c) PROVE Step
  BY <1>4, RefuseLoginEffect DEF Step
<1>5. ASSUME NEW c \in Call, ServeLogout(c) PROVE Step
  BY <1>5, ServeLogoutEffect DEF Step
<1>6. ASSUME NEW c \in Call, NEW s \in Session, NEW g \in Grant, ServeLogin(c, s, g) PROVE Step
  BY <1>6, ServeLoginEffect DEF Step
<1>7. ASSUME NEW c \in Call, Fetched(c) PROVE Step
  BY <1>7, FetchedEffect DEF Step
<1>8. ASSUME NEW c \in Call, SignedIn(c) PROVE Step
  BY <1>8, SignedInEffect DEF Step
<1>9. ASSUME NEW c \in Call, LoggedOut(c) PROVE Step
  BY <1>9, LoggedOutEffect DEF Step
<1>10. ASSUME NEW c \in Call, Unauthorized(c) PROVE Step
  BY <1>10, UnauthorizedEffect DEF Step
<1>11. ASSUME NEW c \in Call, JoinRefresh(c) PROVE Step
  BY <1>11, JoinRefreshEffect DEF Step
<1>12. ASSUME NEW c \in Call, NEW j \in Job, StartRefresh(c, j) PROVE Step
  BY <1>12, StartRefreshEffect DEF Step
<1>13. ASSUME NEW c \in Call, TimeoutCall(c) PROVE Step
  BY <1>13, TimeoutCallEffect DEF Step
<1>14. ASSUME NEW j \in Job, ServeReplay(j) PROVE Step
  BY <1>14, ServeReplayEffect DEF Step
<1>15. ASSUME NEW j \in Job, ServeRedeem(j) PROVE Step
  BY <1>15, ServeRedeemEffect DEF Step
<1>16. ASSUME NEW j \in Job, NEW g \in Grant, ServeRenew(j, g) PROVE Step
  BY <1>16, ServeRenewEffect DEF Step
<1>17. ASSUME NEW j \in Job, Refreshed(j) PROVE Step
  BY <1>17, RefreshedEffect DEF Step
<1>18. ASSUME NEW j \in Job, RefreshDenied(j) PROVE Step
  BY <1>18, RefreshDeniedEffect DEF Step
<1>19. ASSUME NEW j \in Job, TimeoutJob(j) PROVE Step
  BY <1>19, TimeoutJobEffect DEF Step
<1>20. ASSUME NEW s \in Session, Age(s) PROVE Step
  BY <1>20, AgeEffect DEF Step
<1>21. ASSUME NEW s \in Session, CloseElsewhere(s) PROVE Step
  BY <1>21, CloseElsewhereEffect DEF Step
<1>22. CASE UNCHANGED vars
  BY <1>22 DEF Step
<1>23. ASSUME NEW c \in Call, LoginLands(c) PROVE Step
  BY <1>23, LoginLandsEffect DEF Step
<1>24. ASSUME NEW c \in Call, LogoutLands(c) PROVE Step
  BY <1>24, LogoutLandsEffect DEF Step
<1>25. ASSUME NEW j \in Job, RenewalLands(j) PROVE Step
  BY <1>25, RenewalLandsEffect DEF Step
<1>26. ASSUME NEW j \in Job, RefusalLands(j) PROVE Step
  BY <1>26, RefusalLandsEffect DEF Step
<1> QED
  BY <1>1, <1>2, <1>3, <1>4, <1>5, <1>6, <1>7, <1>8, <1>9, <1>10, <1>11, <1>12, <1>13, <1>14,
     <1>15, <1>16, <1>17, <1>18, <1>19, <1>20, <1>21, <1>22, <1>23, <1>24,
     <1>25, <1>26
  DEF Next, ServeCall, DeliverCall, ServeJob, DeliverJob

(* Every variable stays in its domain. *)
LEMMA DomainsStep == Domains /\ Shapes /\ [Next]_vars => Domains'
<1> SUFFICES ASSUME Domains, Shapes, Step PROVE Domains'
  BY StepEffect
<1> USE DEF serverVars, browserVars
<1>f. Fields
  BY FieldsHold
<1>1. ASSUME NEW t \in Tab, NEW c \in Call, ReloadDoes(t, c) PROVE Domains'
  BY <1>1, <1>f DEF ReloadDoes, Domains, Shows, LossOf
<1>2. ASSUME NEW t \in Tab, NEW c \in Call, NEW op \in Op, BeginDoes(t, c, op) PROVE Domains'
  BY <1>2, <1>f DEF BeginDoes, Domains, Shows
<1>3. ASSUME NEW c \in Call, ServeReadDoes(c) PROVE Domains'
  BY <1>3, <1>f DEF ServeReadDoes, Domains
<1>4. ASSUME NEW c \in Call, RefuseLoginDoes(c) PROVE Domains'
  BY <1>4, <1>f DEF RefuseLoginDoes, Domains
<1>5. ASSUME NEW c \in Call, ServeLogoutDoes(c) PROVE Domains'
  BY <1>5, <1>f DEF ServeLogoutDoes, Domains
<1>6. ASSUME NEW c \in Call, NEW s \in Session, NEW g \in Grant, ServeLoginDoes(c, s, g)
      PROVE Domains'
  BY <1>6, <1>f DEF ServeLoginDoes, Domains
<1>7. ASSUME NEW c \in Call, FetchedDoes(c) PROVE Domains'
  BY <1>7, <1>f DEF FetchedDoes, Domains, Shows
<1>8. ASSUME NEW c \in Call, SignedInDoes(c) PROVE Domains'
  <2>1. {jar', stored'} \subseteq Grant \cup {None}
    BY <1>8, <1>f DEF SignedInDoes, Fields, Domains
  <2> QED
    BY <1>8, <2>1 DEF SignedInDoes, Domains, Shows
<1>9. ASSUME NEW c \in Call, LoggedOutDoes(c) PROVE Domains'
  BY <1>9, <1>f DEF LoggedOutDoes, Domains, Shows, Others
<1>10. ASSUME NEW c \in Call, UnauthorizedDoes(c) PROVE Domains'
  BY <1>10, <1>f DEF UnauthorizedDoes, Domains, Shows, Others
<1>11. ASSUME NEW c \in Call, JoinRefreshDoes(c) PROVE Domains'
  BY <1>11, <1>f DEF JoinRefreshDoes, Domains
<1>12. ASSUME NEW c \in Call, NEW j \in Job, StartRefreshDoes(c, j) PROVE Domains'
  BY <1>12, <1>f DEF StartRefreshDoes, Domains, Crossing
<1>13. ASSUME NEW c \in Call, TimeoutCallDoes(c) PROVE Domains'
  BY <1>13, <1>f DEF TimeoutCallDoes, Domains, Shows, Others
<1>14. ASSUME NEW j \in Job, ServeReplayDoes(j) PROVE Domains'
  BY <1>14, <1>f DEF ServeReplayDoes, Domains
<1>15. ASSUME NEW j \in Job, ServeRedeemDoes(j) PROVE Domains'
  BY <1>15, <1>f DEF ServeRedeemDoes, Domains, Fields, Current
<1>16. ASSUME NEW j \in Job, NEW g \in Grant, ServeRenewDoes(j, g) PROVE Domains'
  BY <1>16, <1>f DEF ServeRenewDoes, Domains
<1>17. ASSUME NEW j \in Job, RefreshedDoes(j) PROVE Domains'
  BY <1>17, <1>f DEF RefreshedDoes, Domains
<1>18. ASSUME NEW j \in Job, RefreshDeniedDoes(j) PROVE Domains'
  BY <1>18, <1>f DEF RefreshDeniedDoes, Domains, Shows, Others
<1>19. ASSUME NEW j \in Job, TimeoutJobDoes(j) PROVE Domains'
  BY <1>19, <1>f DEF TimeoutJobDoes, Domains, Shows
<1>20. ASSUME NEW s \in Session, AgeDoes(s) PROVE Domains'
  BY <1>20, <1>f DEF AgeDoes, Domains
<1>21. ASSUME NEW s \in Session, CloseElsewhereDoes(s) PROVE Domains'
  BY <1>21, <1>f DEF CloseElsewhereDoes, Domains
<1>22. CASE UNCHANGED vars
  BY <1>22, <1>f DEF Domains, vars
<1>23. ASSUME NEW c \in Call, LoginLandsDoes(c) PROVE Domains'
  <2>1. {jar', stored'} \subseteq Grant \cup {None}
    BY <1>23, <1>f DEF LoginLandsDoes, Fields, Domains
  <2> QED
    BY <1>23, <2>1 DEF LoginLandsDoes, Domains
<1>24. ASSUME NEW c \in Call, LogoutLandsDoes(c) PROVE Domains'
  BY <1>24 DEF LogoutLandsDoes, Domains
<1>25. ASSUME NEW j \in Job, RenewalLandsDoes(j) PROVE Domains'
  <2>1. {jar', stored'} \subseteq Grant \cup {None}
    BY <1>25, <1>f DEF RenewalLandsDoes, JobLands, Fields, Domains
  <2> QED
    BY <1>25, <2>1 DEF RenewalLandsDoes, JobLands, Domains
<1>26. ASSUME NEW j \in Job, RefusalLandsDoes(j) PROVE Domains'
  BY <1>26 DEF RefusalLandsDoes, JobLands, Domains
<1> QED
  BY <1>1, <1>2, <1>3, <1>4, <1>5, <1>6, <1>7, <1>8, <1>9, <1>10, <1>11,
     <1>12, <1>13, <1>14, <1>15, <1>16, <1>17, <1>18, <1>19, <1>20, <1>21, <1>22, <1>23, <1>24,
     <1>25, <1>26 DEF Step

-----------------------------------------------------------------------------
(* The shapes of calls, refreshes and tabs. *)
LEMMA CallShapesStep == Domains /\ Fields /\ Fields' /\ Shapes /\ [Next]_vars => CallShapes'
<1> SUFFICES ASSUME Domains, Fields, Fields', Shapes, Step PROVE CallShapes'
  BY StepEffect
<1> USE DEF serverVars, browserVars
<1>1. ASSUME NEW t \in Tab, NEW c \in Call, ReloadDoes(t, c) PROVE CallShapes'
  BY <1>1, IdleIsState, Absent
  DEF ReloadDoes, Shapes, CallShapes, CallShape, Op, Fields, Called, CallLeft, JobLeft,
      SameCall, JobsBut
<1>2. ASSUME NEW t \in Tab, NEW c \in Call, NEW op \in Op, BeginDoes(t, c, op) PROVE CallShapes'
  BY <1>2, IdleIsState, Absent
  DEF BeginDoes, Shapes, CallShapes, CallShape, Op, Fields, Called, CallsBut
<1>3. ASSUME NEW c \in Call, ServeReadDoes(c) PROVE CallShapes'
  BY <1>3, IdleIsState, Absent
  DEF ServeReadDoes, Shapes, CallShapes, CallShape, Op, Fields, SameCall, CallsBut
<1>4. ASSUME NEW c \in Call, RefuseLoginDoes(c) PROVE CallShapes'
  BY <1>4, IdleIsState, Absent
  DEF RefuseLoginDoes, Shapes, CallShapes, CallShape, Op, Fields, SameCall, CallsBut
<1>5. ASSUME NEW c \in Call, ServeLogoutDoes(c) PROVE CallShapes'
  BY <1>5, IdleIsState, Absent
  DEF ServeLogoutDoes, Shapes, CallShapes, CallShape, Op, Fields, SameCall, CallsBut
<1>6. ASSUME NEW c \in Call, NEW s \in Session, NEW g \in Grant, ServeLoginDoes(c, s, g)
      PROVE CallShapes'
  BY <1>6, IdleIsState, Absent
  DEF ServeLoginDoes, Shapes, CallShapes, CallShape, Op, Fields, CallsBut
<1>7. ASSUME NEW c \in Call, FetchedDoes(c) PROVE CallShapes'
  BY <1>7, IdleIsState, Absent
  DEF FetchedDoes, Shapes, CallShapes, CallShape, Op, Fields, CallsBut
<1>8. ASSUME NEW c \in Call, SignedInDoes(c) PROVE CallShapes'
  BY <1>8, IdleIsState, Absent DEF SignedInDoes, CallsBut, Shapes, CallShapes, CallShape, Op,
     Fields
<1>9. ASSUME NEW c \in Call, LoggedOutDoes(c) PROVE CallShapes'
  BY <1>9, IdleIsState, Absent
  DEF LoggedOutDoes, Shapes, CallShapes, CallShape, Op, Fields, CallsBut
<1>10. ASSUME NEW c \in Call, UnauthorizedDoes(c) PROVE CallShapes'
  BY <1>10, IdleIsState, Absent
  DEF UnauthorizedDoes, Shapes, CallShapes, CallShape, Op, Fields, CallsBut
<1>11. ASSUME NEW c \in Call, JoinRefreshDoes(c) PROVE CallShapes'
  BY <1>11, IdleIsState, Absent
  DEF JoinRefreshDoes, Shapes, CallShapes, CallShape, Op, Fields, CallsBut
<1>12. ASSUME NEW c \in Call, NEW j \in Job, StartRefreshDoes(c, j) PROVE CallShapes'
  BY <1>12, IdleIsState, Absent
  DEF StartRefreshDoes, Shapes, CallShapes, CallShape, Op, Fields, CallsBut, JobsBut
<1>13. ASSUME NEW c \in Call, TimeoutCallDoes(c) PROVE CallShapes'
  BY <1>13, IdleIsState, Absent
  DEF TimeoutCallDoes, Shapes, CallShapes, CallShape, Op, Fields, CallsBut, CallLeft, SameCall
<1>14. ASSUME NEW j \in Job, ServeReplayDoes(j) PROVE CallShapes'
  BY <1>14, IdleIsState, Absent
  DEF ServeReplayDoes, Shapes, CallShapes, CallShape, Op, Fields, JobsBut
<1>15. ASSUME NEW j \in Job, ServeRedeemDoes(j) PROVE CallShapes'
  BY <1>15, IdleIsState, Absent
  DEF ServeRedeemDoes, Shapes, CallShapes, CallShape, Op, Fields, JobsBut
<1>16. ASSUME NEW j \in Job, NEW g \in Grant, ServeRenewDoes(j, g) PROVE CallShapes'
  BY <1>16, IdleIsState, Absent
  DEF ServeRenewDoes, Shapes, CallShapes, CallShape, Op, Fields, JobsBut
<1>17. ASSUME NEW j \in Job, RefreshedDoes(j) PROVE CallShapes'
  BY <1>17, IdleIsState, Absent
  DEF RefreshedDoes, Shapes, CallShapes, CallShape, Op, Fields, JobsBut, Called, Waiting
<1>18. ASSUME NEW j \in Job, RefreshDeniedDoes(j) PROVE CallShapes'
  BY <1>18, IdleIsState, Absent
  DEF RefreshDeniedDoes, Shapes, CallShapes, CallShape, Op, Fields, JobsBut, Waiting
<1>19. ASSUME NEW j \in Job, TimeoutJobDoes(j) PROVE CallShapes'
  BY <1>19, IdleIsState, Absent
  DEF TimeoutJobDoes, Shapes, CallShapes, CallShape, Op, Fields, JobsBut, JobLeft, Waiting
<1>20. ASSUME NEW s \in Session, AgeDoes(s) PROVE CallShapes'
  BY <1>20, IdleIsState, Absent DEF AgeDoes, Shapes, CallShapes, CallShape, Op, Fields
<1>21. ASSUME NEW s \in Session, CloseElsewhereDoes(s) PROVE CallShapes'
  BY <1>21, IdleIsState, Absent
  DEF CloseElsewhereDoes, Shapes, CallShapes, CallShape, Op, Fields
<1>22. CASE UNCHANGED vars
  BY <1>22, IdleIsState, Absent DEF Shapes, CallShapes, CallShape, Op, Fields, vars
<1>23. ASSUME NEW c \in Call, LoginLandsDoes(c) PROVE CallShapes'
  BY <1>23, IdleIsState, Absent DEF LoginLandsDoes, SameCall, CallsBut, Shapes, CallShapes,
     CallShape, Op, Fields
<1>24. ASSUME NEW c \in Call, LogoutLandsDoes(c) PROVE CallShapes'
  BY <1>24, IdleIsState, Absent
  DEF LogoutLandsDoes, SameCall, CallsBut, Shapes, CallShapes, CallShape, Op, Fields, CallsBut
<1>25. ASSUME NEW j \in Job, RenewalLandsDoes(j) PROVE CallShapes'
  BY <1>25, IdleIsState, Absent
  DEF RenewalLandsDoes, JobLands, JobsBut, Shapes, CallShapes, CallShape, Op, Fields, JobsBut,
      Called, Waiting
<1>26. ASSUME NEW j \in Job, RefusalLandsDoes(j) PROVE CallShapes'
  BY <1>26, IdleIsState, Absent
  DEF RefusalLandsDoes, JobLands, JobsBut, Shapes, CallShapes, CallShape, Op, Fields, JobsBut,
      Waiting
<1> QED
  BY <1>1, <1>2, <1>3, <1>4, <1>5, <1>6, <1>7, <1>8, <1>9, <1>10, <1>11,
     <1>12, <1>13, <1>14, <1>15, <1>16, <1>17, <1>18, <1>19, <1>20, <1>21, <1>22, <1>23, <1>24,
     <1>25, <1>26 DEF Step

LEMMA JobShapesStep == Domains /\ Fields /\ Fields' /\ Shapes /\ [Next]_vars => JobShapes'
<1> SUFFICES ASSUME Domains, Fields, Fields', Shapes, Step PROVE JobShapes'
  BY StepEffect
<1> USE DEF serverVars, browserVars
<1>1. ASSUME NEW t \in Tab, NEW c \in Call, ReloadDoes(t, c) PROVE JobShapes'
  BY <1>1, IdleIsState, Absent
  DEF ReloadDoes, Shapes, JobShapes, JobShape, Op, Fields, Called, CallLeft, JobLeft,
      SameCall, JobsBut
<1>2. ASSUME NEW t \in Tab, NEW c \in Call, NEW op \in Op, BeginDoes(t, c, op) PROVE JobShapes'
  BY <1>2, IdleIsState, Absent
  DEF BeginDoes, Shapes, JobShapes, JobShape, Op, Fields, Called, CallsBut
<1>3. ASSUME NEW c \in Call, ServeReadDoes(c) PROVE JobShapes'
  BY <1>3, IdleIsState, Absent
  DEF ServeReadDoes, Shapes, JobShapes, JobShape, Op, Fields, SameCall, CallsBut
<1>4. ASSUME NEW c \in Call, RefuseLoginDoes(c) PROVE JobShapes'
  BY <1>4, IdleIsState, Absent
  DEF RefuseLoginDoes, Shapes, JobShapes, JobShape, Op, Fields, SameCall, CallsBut
<1>5. ASSUME NEW c \in Call, ServeLogoutDoes(c) PROVE JobShapes'
  BY <1>5, IdleIsState, Absent
  DEF ServeLogoutDoes, Shapes, JobShapes, JobShape, Op, Fields, SameCall, CallsBut
<1>6. ASSUME NEW c \in Call, NEW s \in Session, NEW g \in Grant, ServeLoginDoes(c, s, g)
      PROVE JobShapes'
  BY <1>6, IdleIsState, Absent
  DEF ServeLoginDoes, Shapes, JobShapes, JobShape, Op, Fields, CallsBut
<1>7. ASSUME NEW c \in Call, FetchedDoes(c) PROVE JobShapes'
  BY <1>7, IdleIsState, Absent
  DEF FetchedDoes, Shapes, JobShapes, JobShape, Op, Fields, CallsBut
<1>8. ASSUME NEW c \in Call, SignedInDoes(c) PROVE JobShapes'
  BY <1>8, IdleIsState, Absent DEF SignedInDoes, CallsBut, Shapes, JobShapes, JobShape, Op,
     Fields
<1>9. ASSUME NEW c \in Call, LoggedOutDoes(c) PROVE JobShapes'
  BY <1>9, IdleIsState, Absent
  DEF LoggedOutDoes, Shapes, JobShapes, JobShape, Op, Fields, CallsBut
<1>10. ASSUME NEW c \in Call, UnauthorizedDoes(c) PROVE JobShapes'
  BY <1>10, IdleIsState, Absent
  DEF UnauthorizedDoes, Shapes, JobShapes, JobShape, Op, Fields, CallsBut
<1>11. ASSUME NEW c \in Call, JoinRefreshDoes(c) PROVE JobShapes'
  BY <1>11, IdleIsState, Absent
  DEF JoinRefreshDoes, Shapes, JobShapes, JobShape, Op, Fields, CallsBut
<1>12. ASSUME NEW c \in Call, NEW j \in Job, StartRefreshDoes(c, j) PROVE JobShapes'
  BY <1>12, IdleIsState, Absent
  DEF StartRefreshDoes, Shapes, JobShapes, JobShape, Op, Fields, CallsBut, JobsBut,
      CallShapes, CallShape
<1>13. ASSUME NEW c \in Call, TimeoutCallDoes(c) PROVE JobShapes'
  BY <1>13, IdleIsState, Absent
  DEF TimeoutCallDoes, Shapes, JobShapes, JobShape, Op, Fields, CallsBut, CallLeft, SameCall
<1>14. ASSUME NEW j \in Job, ServeReplayDoes(j) PROVE JobShapes'
  BY <1>14, IdleIsState, Absent
  DEF ServeReplayDoes, Shapes, JobShapes, JobShape, Op, Fields, JobsBut
<1>15. ASSUME NEW j \in Job, ServeRedeemDoes(j) PROVE JobShapes'
  BY <1>15, IdleIsState, Absent
  DEF ServeRedeemDoes, Shapes, JobShapes, JobShape, Op, Fields, JobsBut, Current
<1>16. ASSUME NEW j \in Job, NEW g \in Grant, ServeRenewDoes(j, g) PROVE JobShapes'
  BY <1>16, IdleIsState, Absent
  DEF ServeRenewDoes, Shapes, JobShapes, JobShape, Op, Fields, JobsBut
<1>17. ASSUME NEW j \in Job, RefreshedDoes(j) PROVE JobShapes'
  BY <1>17, IdleIsState, Absent
  DEF RefreshedDoes, Shapes, JobShapes, JobShape, Op, Fields, JobsBut, Called, Waiting
<1>18. ASSUME NEW j \in Job, RefreshDeniedDoes(j) PROVE JobShapes'
  BY <1>18, IdleIsState, Absent
  DEF RefreshDeniedDoes, Shapes, JobShapes, JobShape, Op, Fields, JobsBut, Waiting
<1>19. ASSUME NEW j \in Job, TimeoutJobDoes(j) PROVE JobShapes'
  BY <1>19, IdleIsState, Absent
  DEF TimeoutJobDoes, Shapes, JobShapes, JobShape, Op, Fields, JobsBut, JobLeft, Waiting
<1>20. ASSUME NEW s \in Session, AgeDoes(s) PROVE JobShapes'
  BY <1>20, IdleIsState, Absent DEF AgeDoes, Shapes, JobShapes, JobShape, Op, Fields
<1>21. ASSUME NEW s \in Session, CloseElsewhereDoes(s) PROVE JobShapes'
  BY <1>21, IdleIsState, Absent DEF CloseElsewhereDoes, Shapes, JobShapes, JobShape, Op, Fields
<1>22. CASE UNCHANGED vars
  BY <1>22, IdleIsState, Absent DEF Shapes, JobShapes, JobShape, Op, Fields, vars
<1>23. ASSUME NEW c \in Call, LoginLandsDoes(c) PROVE JobShapes'
  BY <1>23, IdleIsState, Absent DEF LoginLandsDoes, SameCall, CallsBut, Shapes, JobShapes,
     JobShape, Op, Fields
<1>24. ASSUME NEW c \in Call, LogoutLandsDoes(c) PROVE JobShapes'
  BY <1>24, IdleIsState, Absent
  DEF LogoutLandsDoes, SameCall, CallsBut, Shapes, JobShapes, JobShape, Op, Fields, CallsBut
<1>25. ASSUME NEW j \in Job, RenewalLandsDoes(j) PROVE JobShapes'
  BY <1>25, IdleIsState, Absent
  DEF RenewalLandsDoes, JobLands, JobsBut, Shapes, JobShapes, JobShape, Op, Fields, JobsBut,
      Called, Waiting
<1>26. ASSUME NEW j \in Job, RefusalLandsDoes(j) PROVE JobShapes'
  BY <1>26, IdleIsState, Absent
  DEF RefusalLandsDoes, JobLands, JobsBut, Shapes, JobShapes, JobShape, Op, Fields, JobsBut,
      Waiting
<1> QED
  BY <1>1, <1>2, <1>3, <1>4, <1>5, <1>6, <1>7, <1>8, <1>9, <1>10, <1>11,
     <1>12, <1>13, <1>14, <1>15, <1>16, <1>17, <1>18, <1>19, <1>20, <1>21, <1>22, <1>23, <1>24,
     <1>25, <1>26 DEF Step

LEMMA TabShapesStep == Domains /\ Fields /\ Fields' /\ Shapes /\ [Next]_vars => TabShapes'
<1> SUFFICES ASSUME Domains, Fields, Fields', Shapes, Step PROVE TabShapes'
  BY StepEffect
<1> USE DEF serverVars, browserVars
<1>1. ASSUME NEW t \in Tab, NEW c \in Call, ReloadDoes(t, c) PROVE TabShapes'
  BY <1>1, IdleIsState, Absent
  DEF ReloadDoes, Shapes, CallShapes, CallShape, JobShapes, JobShape, TabShapes, TabShape,
      Flights, Waiting, Running, Fields, Called, CallLeft, JobLeft, SameCall, JobsBut
<1>2. ASSUME NEW t \in Tab, NEW c \in Call, NEW op \in Op, BeginDoes(t, c, op) PROVE TabShapes'
  BY <1>2, IdleIsState, Absent
  DEF BeginDoes, Shapes, CallShapes, CallShape, JobShapes, JobShape, TabShapes, TabShape,
      Flights, Waiting, Running, Fields, Called, CallsBut
<1>3. ASSUME NEW c \in Call, ServeReadDoes(c) PROVE TabShapes'
  BY <1>3, IdleIsState, Absent
  DEF ServeReadDoes, Shapes, CallShapes, CallShape, JobShapes, JobShape, TabShapes, TabShape,
      Flights, Waiting, Running, Fields, SameCall, CallsBut
<1>4. ASSUME NEW c \in Call, RefuseLoginDoes(c) PROVE TabShapes'
  BY <1>4, IdleIsState, Absent
  DEF RefuseLoginDoes, Shapes, CallShapes, CallShape, JobShapes, JobShape, TabShapes,
      TabShape, Flights, Waiting, Running, Fields, SameCall, CallsBut
<1>5. ASSUME NEW c \in Call, ServeLogoutDoes(c) PROVE TabShapes'
  BY <1>5, IdleIsState, Absent
  DEF ServeLogoutDoes, Shapes, CallShapes, CallShape, JobShapes, JobShape, TabShapes,
      TabShape, Flights, Waiting, Running, Fields, SameCall, CallsBut
<1>6. ASSUME NEW c \in Call, NEW s \in Session, NEW g \in Grant, ServeLoginDoes(c, s, g)
      PROVE TabShapes'
  BY <1>6, IdleIsState, Absent
  DEF ServeLoginDoes, Shapes, CallShapes, CallShape, JobShapes, JobShape, TabShapes, TabShape,
      Flights, Waiting, Running, Fields, CallsBut
<1>7. ASSUME NEW c \in Call, FetchedDoes(c) PROVE TabShapes'
  BY <1>7, IdleIsState, Absent
  DEF FetchedDoes, Shapes, CallShapes, CallShape, JobShapes, JobShape, TabShapes, TabShape,
      Flights, Waiting, Running, Fields, CallsBut
<1>8. ASSUME NEW c \in Call, SignedInDoes(c) PROVE TabShapes'
  BY <1>8, IdleIsState, Absent
  DEF SignedInDoes, CallsBut, Shapes, CallShapes, CallShape, JobShapes, JobShape, TabShapes,
      TabShape,
      Flights, Waiting, Running, Fields
<1>9. ASSUME NEW c \in Call, LoggedOutDoes(c) PROVE TabShapes'
  BY <1>9, IdleIsState, Absent
  DEF LoggedOutDoes, Shapes, CallShapes, CallShape, JobShapes, JobShape, TabShapes, TabShape,
      Flights, Waiting, Running, Fields, CallsBut
<1>10. ASSUME NEW c \in Call, UnauthorizedDoes(c) PROVE TabShapes'
  BY <1>10, IdleIsState, Absent
  DEF UnauthorizedDoes, Shapes, CallShapes, CallShape, JobShapes, JobShape, TabShapes,
      TabShape, Flights, Waiting, Running, Fields, CallsBut
<1>11. ASSUME NEW c \in Call, JoinRefreshDoes(c) PROVE TabShapes'
  BY <1>11, IdleIsState, Absent
  DEF JoinRefreshDoes, Shapes, CallShapes, CallShape, JobShapes, JobShape, TabShapes,
      TabShape, Flights, Waiting, Running, Fields, CallsBut
<1>12. ASSUME NEW c \in Call, NEW j \in Job, StartRefreshDoes(c, j) PROVE TabShapes'
  BY <1>12, IdleIsState, Absent
  DEF StartRefreshDoes, Shapes, CallShapes, CallShape, JobShapes, JobShape, TabShapes,
      TabShape, Flights, Waiting, Running, Fields, CallsBut, JobsBut
<1>13. ASSUME NEW c \in Call, TimeoutCallDoes(c) PROVE TabShapes'
  BY <1>13, IdleIsState, Absent
  DEF TimeoutCallDoes, Shapes, CallShapes, CallShape, JobShapes, JobShape, TabShapes,
      TabShape, Flights, Waiting, Running, Fields, CallsBut, CallLeft, SameCall
<1>14. ASSUME NEW j \in Job, ServeReplayDoes(j) PROVE TabShapes'
  BY <1>14, IdleIsState, Absent
  DEF ServeReplayDoes, Shapes, CallShapes, CallShape, JobShapes, JobShape, TabShapes,
      TabShape, Flights, Waiting, Running, Fields, JobsBut
<1>15. ASSUME NEW j \in Job, ServeRedeemDoes(j) PROVE TabShapes'
  BY <1>15, IdleIsState, Absent
  DEF ServeRedeemDoes, Shapes, CallShapes, CallShape, JobShapes, JobShape, TabShapes,
      TabShape, Flights, Waiting, Running, Fields, JobsBut
<1>16. ASSUME NEW j \in Job, NEW g \in Grant, ServeRenewDoes(j, g) PROVE TabShapes'
  BY <1>16, IdleIsState, Absent
  DEF ServeRenewDoes, Shapes, CallShapes, CallShape, JobShapes, JobShape, TabShapes, TabShape,
      Flights, Waiting, Running, Fields, JobsBut
<1>17. ASSUME NEW j \in Job, RefreshedDoes(j) PROVE TabShapes'
  BY <1>17, IdleIsState, Absent
  DEF RefreshedDoes, Shapes, CallShapes, CallShape, JobShapes, JobShape, TabShapes, TabShape,
      Flights, Waiting, Running, Fields, JobsBut, Called, Waiting
<1>18. ASSUME NEW j \in Job, RefreshDeniedDoes(j) PROVE TabShapes'
  BY <1>18, IdleIsState, Absent
  DEF RefreshDeniedDoes, Shapes, CallShapes, CallShape, JobShapes, JobShape, TabShapes,
      TabShape, Flights, Waiting, Running, Fields, JobsBut, Waiting
<1>19. ASSUME NEW j \in Job, TimeoutJobDoes(j) PROVE TabShapes'
  BY <1>19, IdleIsState, Absent
  DEF TimeoutJobDoes, Shapes, CallShapes, CallShape, JobShapes, JobShape, TabShapes, TabShape,
      Flights, Waiting, Running, Fields, JobsBut, JobLeft, Waiting
<1>20. ASSUME NEW s \in Session, AgeDoes(s) PROVE TabShapes'
  BY <1>20, IdleIsState, Absent
  DEF AgeDoes, Shapes, CallShapes, CallShape, JobShapes, JobShape, TabShapes, TabShape,
      Flights, Waiting, Running, Fields
<1>21. ASSUME NEW s \in Session, CloseElsewhereDoes(s) PROVE TabShapes'
  BY <1>21, IdleIsState, Absent
  DEF CloseElsewhereDoes, Shapes, CallShapes, CallShape, JobShapes, JobShape, TabShapes,
      TabShape, Flights, Waiting, Running, Fields
<1>22. CASE UNCHANGED vars
  BY <1>22, IdleIsState, Absent
  DEF Shapes, CallShapes, CallShape, JobShapes, JobShape, TabShapes, TabShape, Flights,
      Waiting, Running, Fields, vars
<1>23. ASSUME NEW c \in Call, LoginLandsDoes(c) PROVE TabShapes'
  BY <1>23, IdleIsState, Absent
  DEF LoginLandsDoes, SameCall, CallsBut, Shapes, CallShapes, CallShape, JobShapes, JobShape,
      TabShapes, TabShape,
      Flights, Waiting, Running, Fields
<1>24. ASSUME NEW c \in Call, LogoutLandsDoes(c) PROVE TabShapes'
  BY <1>24, IdleIsState, Absent
  DEF LogoutLandsDoes, SameCall, CallsBut, Shapes, CallShapes, CallShape, JobShapes, JobShape,
      TabShapes, TabShape,
      Flights, Waiting, Running, Fields, CallsBut
<1>25. ASSUME NEW j \in Job, RenewalLandsDoes(j) PROVE TabShapes'
  BY <1>25, IdleIsState, Absent
  DEF RenewalLandsDoes, JobLands, JobsBut, Shapes, CallShapes, CallShape, JobShapes, JobShape,
      TabShapes, TabShape,
      Flights, Waiting, Running, Fields, JobsBut, Called, Waiting
<1>26. ASSUME NEW j \in Job, RefusalLandsDoes(j) PROVE TabShapes'
  BY <1>26, IdleIsState, Absent
  DEF RefusalLandsDoes, JobLands, JobsBut, Shapes, CallShapes, CallShape, JobShapes, JobShape,
      TabShapes,
      TabShape, Flights, Waiting, Running, Fields, JobsBut, Waiting
<1> QED
  BY <1>1, <1>2, <1>3, <1>4, <1>5, <1>6, <1>7, <1>8, <1>9, <1>10, <1>11,
     <1>12, <1>13, <1>14, <1>15, <1>16, <1>17, <1>18, <1>19, <1>20, <1>21, <1>22, <1>23, <1>24,
     <1>25, <1>26 DEF Step

(* Every grant that is out has a family the server knows. *)
LEMMA FamiliesStep ==
  Domains /\ Fields /\ Fields' /\ Holdings /\ Holdings' /\ Shapes /\ Shapes' /\ Families
    /\ [Next]_vars
  => Families'
<1> SUFFICES ASSUME Domains, Fields, Fields', Holdings, Holdings', Shapes, Shapes',
                    Families, Step
             PROVE Families'
  BY StepEffect
<1> USE DEF serverVars, browserVars
<1>1. ASSUME NEW t \in Tab, NEW c \in Call, ReloadDoes(t, c) PROVE Families'
  BY <1>1, IdleIsState, Absent
  DEF ReloadDoes, Families, Issued, Fields, Holdings, Called, CallLeft, JobLeft, SameCall,
      JobsBut
<1>2. ASSUME NEW t \in Tab, NEW c \in Call, NEW op \in Op, BeginDoes(t, c, op) PROVE Families'
  BY <1>2, IdleIsState, Absent
  DEF BeginDoes, Families, Issued, Fields, Holdings, Called, CallsBut
<1>3. ASSUME NEW c \in Call, ServeReadDoes(c) PROVE Families'
  BY <1>3, IdleIsState, Absent
  DEF ServeReadDoes, Families, Issued, Fields, Holdings, SameCall, CallsBut
<1>4. ASSUME NEW c \in Call, RefuseLoginDoes(c) PROVE Families'
  BY <1>4, IdleIsState, Absent
  DEF RefuseLoginDoes, Families, Issued, Fields, Holdings, SameCall, CallsBut
<1>5. ASSUME NEW c \in Call, ServeLogoutDoes(c) PROVE Families'
  BY <1>5, IdleIsState, Absent
  DEF ServeLogoutDoes, Families, Issued, Fields, Holdings, SameCall, CallsBut
<1>6. ASSUME NEW c \in Call, NEW s \in Session, NEW g \in Grant, ServeLoginDoes(c, s, g)
      PROVE Families'
  BY <1>6, IdleIsState, Absent DEF ServeLoginDoes, Families, Issued, Fields, Holdings, CallsBut
<1>7. ASSUME NEW c \in Call, FetchedDoes(c) PROVE Families'
  BY <1>7, IdleIsState, Absent DEF FetchedDoes, Families, Issued, Fields, Holdings, CallsBut
<1>8. ASSUME NEW c \in Call, SignedInDoes(c) PROVE Families'
  BY <1>8, IdleIsState, Absent DEF SignedInDoes, CallsBut, Families, Issued, Fields, Holdings
<1>9. ASSUME NEW c \in Call, LoggedOutDoes(c) PROVE Families'
  BY <1>9, IdleIsState, Absent DEF LoggedOutDoes, Families, Issued, Fields, Holdings, CallsBut
<1>10. ASSUME NEW c \in Call, UnauthorizedDoes(c) PROVE Families'
  BY <1>10, IdleIsState, Absent
  DEF UnauthorizedDoes, Families, Issued, Fields, Holdings, CallsBut
<1>11. ASSUME NEW c \in Call, JoinRefreshDoes(c) PROVE Families'
  BY <1>11, IdleIsState, Absent
  DEF JoinRefreshDoes, Families, Issued, Fields, Holdings, CallsBut
<1>12. ASSUME NEW c \in Call, NEW j \in Job, StartRefreshDoes(c, j) PROVE Families'
  BY <1>12, IdleIsState, Absent
  DEF StartRefreshDoes, Families, Issued, Fields, Holdings, CallsBut, JobsBut
<1>13. ASSUME NEW c \in Call, TimeoutCallDoes(c) PROVE Families'
  BY <1>13, IdleIsState, Absent
  DEF TimeoutCallDoes, Families, Issued, Fields, Holdings, CallsBut, CallLeft, SameCall
<1>14. ASSUME NEW j \in Job, ServeReplayDoes(j) PROVE Families'
  BY <1>14, IdleIsState, Absent DEF ServeReplayDoes, Families, Issued, Fields, Holdings, JobsBut
<1>15. ASSUME NEW j \in Job, ServeRedeemDoes(j) PROVE Families'
  BY <1>15, IdleIsState, Absent DEF ServeRedeemDoes, Families, Issued, Fields, Holdings, JobsBut
<1>16. ASSUME NEW j \in Job, NEW g \in Grant, ServeRenewDoes(j, g) PROVE Families'
  BY <1>16, IdleIsState, Absent
  DEF ServeRenewDoes, Families, Issued, Fields, Holdings, JobsBut, Shapes, CallShapes,
      CallShape, JobShapes, JobShape
<1>17. ASSUME NEW j \in Job, RefreshedDoes(j) PROVE Families'
  BY <1>17, IdleIsState, Absent
  DEF RefreshedDoes, Families, Issued, Fields, Holdings, JobsBut, Called, Waiting
<1>18. ASSUME NEW j \in Job, RefreshDeniedDoes(j) PROVE Families'
  BY <1>18, IdleIsState, Absent
  DEF RefreshDeniedDoes, Families, Issued, Fields, Holdings, JobsBut, Waiting
<1>19. ASSUME NEW j \in Job, TimeoutJobDoes(j) PROVE Families'
  BY <1>19, IdleIsState, Absent
  DEF TimeoutJobDoes, Families, Issued, Fields, Holdings, JobsBut, JobLeft, Waiting
<1>20. ASSUME NEW s \in Session, AgeDoes(s) PROVE Families'
  BY <1>20, IdleIsState, Absent DEF AgeDoes, Families, Issued, Fields, Holdings
<1>21. ASSUME NEW s \in Session, CloseElsewhereDoes(s) PROVE Families'
  BY <1>21, IdleIsState, Absent DEF CloseElsewhereDoes, Families, Issued, Fields, Holdings
<1>22. CASE UNCHANGED vars
  BY <1>22, IdleIsState, Absent DEF Families, Issued, Fields, Holdings, vars
<1>23. ASSUME NEW c \in Call, LoginLandsDoes(c) PROVE Families'
  BY <1>23, IdleIsState, Absent DEF LoginLandsDoes, SameCall, CallsBut, Families, Issued,
     Fields, Holdings
<1>24. ASSUME NEW c \in Call, LogoutLandsDoes(c) PROVE Families'
  BY <1>24, IdleIsState, Absent DEF LogoutLandsDoes, SameCall, CallsBut, Families, Issued,
     Fields, Holdings, CallsBut
<1>25. ASSUME NEW j \in Job, RenewalLandsDoes(j) PROVE Families'
  BY <1>25, IdleIsState, Absent
  DEF RenewalLandsDoes, JobLands, JobsBut, Families, Issued, Fields, Holdings, JobsBut, Called,
      Waiting
<1>26. ASSUME NEW j \in Job, RefusalLandsDoes(j) PROVE Families'
  BY <1>26, IdleIsState, Absent
  DEF RefusalLandsDoes, JobLands, JobsBut, Families, Issued, Fields, Holdings, JobsBut, Waiting
<1> QED
  BY <1>1, <1>2, <1>3, <1>4, <1>5, <1>6, <1>7, <1>8, <1>9, <1>10, <1>11,
     <1>12, <1>13, <1>14, <1>15, <1>16, <1>17, <1>18, <1>19, <1>20, <1>21, <1>22, <1>23, <1>24,
     <1>25, <1>26 DEF Step

(* A grant an answer carries is in nobody's hands yet. *)
LEMMA ArrivingStep ==
  Domains /\ Fields /\ Fields' /\ Holdings /\ Holdings' /\ Shapes /\ Shapes' /\ Families
    /\ Arriving /\ [Next]_vars
  => Arriving'
<1> SUFFICES ASSUME Domains, Fields, Fields', Holdings, Holdings', Shapes, Shapes',
                    Families, Arriving, Step
             PROVE Arriving'
  BY StepEffect
<1> USE DEF serverVars, browserVars
<1>1. ASSUME NEW t \in Tab, NEW c \in Call, ReloadDoes(t, c) PROVE Arriving'
  BY <1>1, IdleIsState, Absent
  DEF ReloadDoes, Arriving, SignIn, Families, Issued, Fields, Holdings, Called, CallLeft,
      JobLeft, SameCall, JobsBut
<1>2. ASSUME NEW t \in Tab, NEW c \in Call, NEW op \in Op, BeginDoes(t, c, op) PROVE Arriving'
  BY <1>2, IdleIsState, Absent
  DEF BeginDoes, Arriving, SignIn, Families, Issued, Fields, Holdings, Called, CallsBut
<1>3. ASSUME NEW c \in Call, ServeReadDoes(c) PROVE Arriving'
  BY <1>3, IdleIsState, Absent
  DEF ServeReadDoes, Arriving, SignIn, Families, Issued, Fields, Holdings, SameCall, CallsBut
<1>4. ASSUME NEW c \in Call, RefuseLoginDoes(c) PROVE Arriving'
  BY <1>4, IdleIsState, Absent
  DEF RefuseLoginDoes, Arriving, SignIn, Families, Issued, Fields, Holdings, SameCall, CallsBut
<1>5. ASSUME NEW c \in Call, ServeLogoutDoes(c) PROVE Arriving'
  BY <1>5, IdleIsState, Absent
  DEF ServeLogoutDoes, Arriving, SignIn, Families, Issued, Fields, Holdings, SameCall, CallsBut
<1>6. ASSUME NEW c \in Call, NEW s \in Session, NEW g \in Grant, ServeLoginDoes(c, s, g)
      PROVE Arriving'
  <2>1. /\ job' = job /\ spent' = spent /\ jar' = jar
        /\ g # None /\ g # jar /\ g \notin spent
        /\ \A j \in Job : g # job[j].cookie /\ g # job[j].got
        /\ \A d \in Call : call[d].cookie # g
    BY <1>6, Absent DEF ServeLoginDoes, Families, Issued, Holdings
  <2>2. ASSUME NEW d \in Call, SignIn(d)'
        PROVE  (d = c /\ call'[c].cookie = g) \/ (d # c /\ SignIn(d) /\ call'[d].cookie = call[d].cookie)
    <3>0. call'[c].op = "none" \/ call'[c].cookie = g
      BY <1>6, IdleIsState DEF ServeLoginDoes
    <3>1. CASE d = c
      BY <2>2, <3>0, <3>1 DEF SignIn
    <3>2. CASE d # c
      BY <1>6, <2>2, <3>2 DEF ServeLoginDoes, SignIn, CallsBut
    <3> QED
      BY <3>1, <3>2
  <2>3. \A j \in Job : job'[j].stage = "ok" => family'[job'[j].got] = family'[job'[j].cookie]
    <3> SUFFICES ASSUME NEW j \in Job, job[j].stage = "ok"
                 PROVE  family'[job[j].got] = family'[job[j].cookie]
      BY <2>1
    <3>1. family[job[j].got] = family[job[j].cookie] /\ job[j].got \in Grant
      BY DEF Arriving, Fields
    <3>2. job[j].cookie \in Grant
      BY DEF Shapes, JobShapes, JobShape, Fields
    <3> QED
      BY <1>6, <2>1, <3>1, <3>2 DEF ServeLoginDoes
  <2> QED
    BY <2>1, <2>2, <2>3 DEF Arriving
<1>7. ASSUME NEW c \in Call, FetchedDoes(c) PROVE Arriving'
  BY <1>7, IdleIsState, Absent
  DEF FetchedDoes, Arriving, SignIn, Families, Issued, Fields, Holdings, CallsBut
<1>8. ASSUME NEW c \in Call, SignedInDoes(c) PROVE Arriving'
  BY <1>8, IdleIsState, Absent
  DEF SignedInDoes, CallsBut, Arriving, SignIn, Families, Issued, Fields, Holdings
<1>9. ASSUME NEW c \in Call, LoggedOutDoes(c) PROVE Arriving'
  BY <1>9, IdleIsState, Absent
  DEF LoggedOutDoes, Arriving, SignIn, Families, Issued, Fields, Holdings, CallsBut
<1>10. ASSUME NEW c \in Call, UnauthorizedDoes(c) PROVE Arriving'
  BY <1>10, IdleIsState, Absent
  DEF UnauthorizedDoes, Arriving, SignIn, Families, Issued, Fields, Holdings, CallsBut
<1>11. ASSUME NEW c \in Call, JoinRefreshDoes(c) PROVE Arriving'
  BY <1>11, IdleIsState, Absent
  DEF JoinRefreshDoes, Arriving, SignIn, Families, Issued, Fields, Holdings, CallsBut
<1>12. ASSUME NEW c \in Call, NEW j \in Job, StartRefreshDoes(c, j) PROVE Arriving'
  BY <1>12, IdleIsState, Absent
  DEF StartRefreshDoes, Arriving, SignIn, Families, Issued, Fields, Holdings, CallsBut, JobsBut
<1>13. ASSUME NEW c \in Call, TimeoutCallDoes(c) PROVE Arriving'
  BY <1>13, IdleIsState, Absent
  DEF TimeoutCallDoes, Arriving, SignIn, Families, Issued, Fields, Holdings, CallsBut,
      CallLeft, SameCall
<1>14. ASSUME NEW j \in Job, ServeReplayDoes(j) PROVE Arriving'
  BY <1>14, IdleIsState, Absent
  DEF ServeReplayDoes, Arriving, SignIn, Families, Issued, Fields, Holdings, JobsBut
<1>15. ASSUME NEW j \in Job, ServeRedeemDoes(j) PROVE Arriving'
  BY <1>15, IdleIsState, Absent
  DEF ServeRedeemDoes, Arriving, SignIn, Families, Issued, Fields, Holdings, JobsBut
<1>16. ASSUME NEW j \in Job, NEW g \in Grant, ServeRenewDoes(j, g) PROVE Arriving'
  BY <1>16, IdleIsState, Absent
  DEF ServeRenewDoes, Arriving, SignIn, Families, Issued, Fields, Holdings, JobsBut, Shapes,
      CallShapes, CallShape, JobShapes, JobShape
<1>17. ASSUME NEW j \in Job, RefreshedDoes(j) PROVE Arriving'
  BY <1>17, IdleIsState, Absent
  DEF RefreshedDoes, Arriving, SignIn, Families, Issued, Fields, Holdings, JobsBut, Called,
      Waiting, Shapes, CallShapes, CallShape, JobShapes, JobShape
<1>18. ASSUME NEW j \in Job, RefreshDeniedDoes(j) PROVE Arriving'
  BY <1>18, IdleIsState, Absent
  DEF RefreshDeniedDoes, Arriving, SignIn, Families, Issued, Fields, Holdings, JobsBut, Waiting
<1>19. ASSUME NEW j \in Job, TimeoutJobDoes(j) PROVE Arriving'
  BY <1>19, IdleIsState, Absent
  DEF TimeoutJobDoes, Arriving, SignIn, Families, Issued, Fields, Holdings, JobsBut, JobLeft,
      Waiting
<1>20. ASSUME NEW s \in Session, AgeDoes(s) PROVE Arriving'
  BY <1>20, IdleIsState, Absent
  DEF AgeDoes, Arriving, SignIn, Families, Issued, Fields, Holdings
<1>21. ASSUME NEW s \in Session, CloseElsewhereDoes(s) PROVE Arriving'
  BY <1>21, IdleIsState, Absent
  DEF CloseElsewhereDoes, Arriving, SignIn, Families, Issued, Fields, Holdings
<1>22. CASE UNCHANGED vars
  BY <1>22, IdleIsState, Absent DEF Arriving, SignIn, Families, Issued, Fields, Holdings, vars
<1>23. ASSUME NEW c \in Call, LoginLandsDoes(c) PROVE Arriving'
  BY <1>23, IdleIsState, Absent
  DEF LoginLandsDoes, SameCall, CallsBut, Arriving, SignIn, Families, Issued, Fields, Holdings
<1>24. ASSUME NEW c \in Call, LogoutLandsDoes(c) PROVE Arriving'
  BY <1>24, IdleIsState, Absent
  DEF LogoutLandsDoes, SameCall, CallsBut, Arriving, SignIn, Families, Issued, Fields,
      Holdings, CallsBut
<1>25. ASSUME NEW j \in Job, RenewalLandsDoes(j) PROVE Arriving'
  BY <1>25, IdleIsState, Absent
  DEF RenewalLandsDoes, JobLands, JobsBut, Arriving, SignIn, Families, Issued, Fields,
      Holdings, JobsBut, Called,
      Waiting, Shapes, CallShapes, CallShape, JobShapes, JobShape
<1>26. ASSUME NEW j \in Job, RefusalLandsDoes(j) PROVE Arriving'
  BY <1>26, IdleIsState, Absent
  DEF RefusalLandsDoes, JobLands, JobsBut, Arriving, SignIn, Families, Issued, Fields,
      Holdings, JobsBut, Waiting
<1> QED
  BY <1>1, <1>2, <1>3, <1>4, <1>5, <1>6, <1>7, <1>8, <1>9, <1>10, <1>11,
     <1>12, <1>13, <1>14, <1>15, <1>16, <1>17, <1>18, <1>19, <1>20, <1>21, <1>22, <1>23, <1>24,
     <1>25, <1>26 DEF Step

(* Without losses and crossing tabs there is one refresh at a time, and its *)
(* token is not redeemed; so no redeemed token is presented.                *)
LEMMA OneFlightStep ==
  Domains /\ Fields /\ Fields' /\ Holdings /\ Holdings' /\ Shapes /\ Shapes'
    /\ TabShapes /\ TabShapes' /\ Families /\ Arriving /\ OneFlight /\ [Next]_vars
  => OneFlight'
<1> SUFFICES ASSUME Domains, Fields, Fields', Holdings, Holdings', Shapes, Shapes',
                    TabShapes, TabShapes', Families, Arriving, OneFlight, Step
             PROVE OneFlight'
  BY StepEffect
<1> USE DEF serverVars, browserVars
<1>1. ASSUME NEW t \in Tab, NEW c \in Call, ReloadDoes(t, c) PROVE OneFlight'
  <2> SUFFICES ASSUME NoLoss' PROVE OneFlight'
    BY DEF OneFlight
  <2>1. NoLoss /\ Flights(t) = {}
    BY <1>1 DEF ReloadDoes, NoLoss, LossOf
  <2>2. \A j \in Job : job[j].tab # t
    BY <2>1, Absent DEF Flights, Running, Shapes, JobShapes, JobShape
  <2>3. \A j \in Job : job'[j] = job[j]
    BY <1>1, <2>2 DEF ReloadDoes
  <2> QED
    BY <1>1, <2>1, <2>3 DEF ReloadDoes, OneFlight, Running, Redeeming
<1>2. ASSUME NEW t \in Tab, NEW c \in Call, NEW op \in Op, BeginDoes(t, c, op) PROVE OneFlight'
  BY <1>2, IdleIsState, Absent
  DEF BeginDoes, OneFlight, NoLoss, Redeeming, Running, Fields, Holdings, Called, CallsBut
<1>3. ASSUME NEW c \in Call, ServeReadDoes(c) PROVE OneFlight'
  BY <1>3, IdleIsState, Absent
  DEF ServeReadDoes, OneFlight, NoLoss, Redeeming, Running, Fields, Holdings, SameCall, CallsBut
<1>4. ASSUME NEW c \in Call, RefuseLoginDoes(c) PROVE OneFlight'
  BY <1>4, IdleIsState, Absent
  DEF RefuseLoginDoes, OneFlight, NoLoss, Redeeming, Running, Fields, Holdings, SameCall,
      CallsBut
<1>5. ASSUME NEW c \in Call, ServeLogoutDoes(c) PROVE OneFlight'
  BY <1>5, IdleIsState, Absent
  DEF ServeLogoutDoes, OneFlight, NoLoss, Redeeming, Running, Fields, Holdings, SameCall,
      CallsBut
<1>6. ASSUME NEW c \in Call, NEW s \in Session, NEW g \in Grant, ServeLoginDoes(c, s, g)
      PROVE OneFlight'
  BY <1>6, IdleIsState, Absent
  DEF ServeLoginDoes, OneFlight, NoLoss, Redeeming, Running, Fields, Holdings, CallsBut
<1>7. ASSUME NEW c \in Call, FetchedDoes(c) PROVE OneFlight'
  BY <1>7, IdleIsState, Absent
  DEF FetchedDoes, OneFlight, NoLoss, Redeeming, Running, Fields, Holdings, CallsBut
<1>8. ASSUME NEW c \in Call, SignedInDoes(c) PROVE OneFlight'
  BY <1>8, IdleIsState, Absent
  DEF SignedInDoes, CallsBut, OneFlight, NoLoss, Redeeming, Running, Fields, Holdings,
      Arriving, SignIn
<1>9. ASSUME NEW c \in Call, LoggedOutDoes(c) PROVE OneFlight'
  BY <1>9, IdleIsState, Absent
  DEF LoggedOutDoes, OneFlight, NoLoss, Redeeming, Running, Fields, Holdings, CallsBut
<1>10. ASSUME NEW c \in Call, UnauthorizedDoes(c) PROVE OneFlight'
  BY <1>10, IdleIsState, Absent
  DEF UnauthorizedDoes, OneFlight, NoLoss, Redeeming, Running, Fields, Holdings, CallsBut
<1>11. ASSUME NEW c \in Call, JoinRefreshDoes(c) PROVE OneFlight'
  BY <1>11, IdleIsState, Absent
  DEF JoinRefreshDoes, OneFlight, NoLoss, Redeeming, Running, Fields, Holdings, CallsBut
<1>12. ASSUME NEW c \in Call, NEW j \in Job, StartRefreshDoes(c, j) PROVE OneFlight'
  <2> SUFFICES ASSUME NoLoss' PROVE OneFlight'
    BY DEF OneFlight
  <2>1. NoLoss /\ Crossing(call[c].tab) \cap {"tabs"} = {}
    BY <1>12 DEF StartRefreshDoes, NoLoss
  <2>2. \A k \in Job : ~Running(k)
    BY <1>12, <2>1 DEF StartRefreshDoes, OneFlight, Crossing, Flights
  <2>3. jar \notin spent
    BY <2>1, <2>2 DEF OneFlight, Running, Redeeming
  <2>4. call[c].tab # None
    BY <1>12 DEF StartRefreshDoes, Shapes, CallShapes, CallShape
  <2> QED
    BY <1>12, <2>2, <2>3, <2>4 DEF StartRefreshDoes, OneFlight, Running, Redeeming, JobsBut
<1>13. ASSUME NEW c \in Call, TimeoutCallDoes(c) PROVE OneFlight'
  BY <1>13, IdleIsState, Absent
  DEF TimeoutCallDoes, OneFlight, NoLoss, Redeeming, Running, Fields, Holdings, CallsBut,
      CallLeft, SameCall
<1>14. ASSUME NEW j \in Job, ServeReplayDoes(j) PROVE OneFlight'
  BY <1>14, IdleIsState, Absent
  DEF ServeReplayDoes, OneFlight, NoLoss, Redeeming, Running, Fields, Holdings, JobsBut,
      Shapes, CallShapes, CallShape, JobShapes, JobShape
<1>15. ASSUME NEW j \in Job, ServeRedeemDoes(j) PROVE OneFlight'
  BY <1>15, IdleIsState, Absent
  DEF ServeRedeemDoes, OneFlight, NoLoss, Redeeming, Running, Fields, Holdings, JobsBut, Current
<1>16. ASSUME NEW j \in Job, NEW g \in Grant, ServeRenewDoes(j, g) PROVE OneFlight'
  BY <1>16, IdleIsState, Absent
  DEF ServeRenewDoes, OneFlight, NoLoss, Redeeming, Running, Fields, Holdings, JobsBut,
      Shapes, CallShapes, CallShape, JobShapes, JobShape
<1>17. ASSUME NEW j \in Job, RefreshedDoes(j) PROVE OneFlight'
  BY <1>17, IdleIsState, Absent
  DEF RefreshedDoes, OneFlight, NoLoss, Redeeming, Running, Fields, Holdings, JobsBut, Called,
      Waiting, Shapes, CallShapes, CallShape, JobShapes, JobShape, Arriving
<1>18. ASSUME NEW j \in Job, RefreshDeniedDoes(j) PROVE OneFlight'
  BY <1>18, IdleIsState, Absent
  DEF RefreshDeniedDoes, OneFlight, NoLoss, Redeeming, Running, Fields, Holdings, JobsBut,
      Waiting, Shapes, CallShapes, CallShape, JobShapes, JobShape
<1>19. ASSUME NEW j \in Job, TimeoutJobDoes(j) PROVE OneFlight'
  BY <1>19, IdleIsState, Absent
  DEF TimeoutJobDoes, OneFlight, NoLoss, Redeeming, Running, Fields, Holdings, JobsBut,
      JobLeft, Waiting
<1>20. ASSUME NEW s \in Session, AgeDoes(s) PROVE OneFlight'
  BY <1>20, IdleIsState, Absent
  DEF AgeDoes, OneFlight, NoLoss, Redeeming, Running, Fields, Holdings
<1>21. ASSUME NEW s \in Session, CloseElsewhereDoes(s) PROVE OneFlight'
  BY <1>21, IdleIsState, Absent
  DEF CloseElsewhereDoes, OneFlight, NoLoss, Redeeming, Running, Fields, Holdings
<1>22. CASE UNCHANGED vars
  BY <1>22, IdleIsState, Absent
  DEF OneFlight, NoLoss, Redeeming, Running, Fields, Holdings, vars
<1>23. ASSUME NEW c \in Call, LoginLandsDoes(c) PROVE OneFlight'
  BY <1>23, IdleIsState, Absent
  DEF LoginLandsDoes, SameCall, CallsBut, OneFlight, NoLoss, Redeeming, Running, Fields,
      Holdings, Arriving, SignIn
<1>24. ASSUME NEW c \in Call, LogoutLandsDoes(c) PROVE OneFlight'
  BY <1>24, IdleIsState, Absent
  DEF LogoutLandsDoes, SameCall, CallsBut, OneFlight, NoLoss, Redeeming, Running, Fields,
      Holdings, CallsBut
<1>25. ASSUME NEW j \in Job, RenewalLandsDoes(j) PROVE OneFlight'
  BY <1>25, IdleIsState, Absent
  DEF RenewalLandsDoes, JobLands, JobsBut, OneFlight, NoLoss, Redeeming, Running, Fields,
      Holdings, JobsBut, Called,
      Waiting, Shapes, CallShapes, CallShape, JobShapes, JobShape, Arriving
<1>26. ASSUME NEW j \in Job, RefusalLandsDoes(j) PROVE OneFlight'
  BY <1>26, IdleIsState, Absent
  DEF RefusalLandsDoes, JobLands, JobsBut, OneFlight, NoLoss, Redeeming, Running, Fields,
      Holdings, JobsBut,
      Waiting, Shapes, CallShapes, CallShape, JobShapes, JobShape
<1> QED
  BY <1>1, <1>2, <1>3, <1>4, <1>5, <1>6, <1>7, <1>8, <1>9, <1>10, <1>11,
     <1>12, <1>13, <1>14, <1>15, <1>16, <1>17, <1>18, <1>19, <1>20, <1>21, <1>22, <1>23, <1>24,
     <1>25, <1>26 DEF Step

LEMMA ReplayStep ==
  Domains /\ Fields /\ Fields' /\ Holdings /\ Holdings' /\ Shapes /\ Shapes' /\ Families
    /\ OneFlight /\ ReplayIsExcused /\ [Next]_vars
  => ReplayIsExcused'
<1> SUFFICES ASSUME Domains, Fields, Fields', Holdings, Holdings', Shapes, Shapes',
                    Families, OneFlight, ReplayIsExcused, Step
             PROVE ReplayIsExcused'
  BY StepEffect
<1> USE DEF serverVars, browserVars
<1>1. ASSUME NEW t \in Tab, NEW c \in Call, ReloadDoes(t, c) PROVE ReplayIsExcused'
  BY <1>1, IdleIsState, Absent
  DEF ReloadDoes, ReplayIsExcused, Fields, Holdings, Called, CallLeft, JobLeft, SameCall,
      JobsBut
<1>2. ASSUME NEW t \in Tab, NEW c \in Call, NEW op \in Op, BeginDoes(t, c, op)
      PROVE ReplayIsExcused'
  BY <1>2, IdleIsState, Absent
  DEF BeginDoes, ReplayIsExcused, Fields, Holdings, Called, CallsBut
<1>3. ASSUME NEW c \in Call, ServeReadDoes(c) PROVE ReplayIsExcused'
  BY <1>3, IdleIsState, Absent
  DEF ServeReadDoes, ReplayIsExcused, Fields, Holdings, SameCall, CallsBut
<1>4. ASSUME NEW c \in Call, RefuseLoginDoes(c) PROVE ReplayIsExcused'
  BY <1>4, IdleIsState, Absent
  DEF RefuseLoginDoes, ReplayIsExcused, Fields, Holdings, SameCall, CallsBut
<1>5. ASSUME NEW c \in Call, ServeLogoutDoes(c) PROVE ReplayIsExcused'
  BY <1>5, IdleIsState, Absent
  DEF ServeLogoutDoes, ReplayIsExcused, Fields, Holdings, SameCall, CallsBut
<1>6. ASSUME NEW c \in Call, NEW s \in Session, NEW g \in Grant, ServeLoginDoes(c, s, g)
      PROVE ReplayIsExcused'
  BY <1>6, IdleIsState, Absent DEF ServeLoginDoes, ReplayIsExcused, Fields, Holdings, CallsBut
<1>7. ASSUME NEW c \in Call, FetchedDoes(c) PROVE ReplayIsExcused'
  BY <1>7, IdleIsState, Absent DEF FetchedDoes, ReplayIsExcused, Fields, Holdings, CallsBut
<1>8. ASSUME NEW c \in Call, SignedInDoes(c) PROVE ReplayIsExcused'
  BY <1>8, IdleIsState, Absent DEF SignedInDoes, CallsBut, ReplayIsExcused, Fields, Holdings
<1>9. ASSUME NEW c \in Call, LoggedOutDoes(c) PROVE ReplayIsExcused'
  BY <1>9, IdleIsState, Absent DEF LoggedOutDoes, ReplayIsExcused, Fields, Holdings, CallsBut
<1>10. ASSUME NEW c \in Call, UnauthorizedDoes(c) PROVE ReplayIsExcused'
  BY <1>10, IdleIsState, Absent
  DEF UnauthorizedDoes, ReplayIsExcused, Fields, Holdings, CallsBut
<1>11. ASSUME NEW c \in Call, JoinRefreshDoes(c) PROVE ReplayIsExcused'
  BY <1>11, IdleIsState, Absent DEF JoinRefreshDoes, ReplayIsExcused, Fields, Holdings, CallsBut
<1>12. ASSUME NEW c \in Call, NEW j \in Job, StartRefreshDoes(c, j) PROVE ReplayIsExcused'
  BY <1>12, IdleIsState, Absent
  DEF StartRefreshDoes, ReplayIsExcused, Fields, Holdings, CallsBut, JobsBut
<1>13. ASSUME NEW c \in Call, TimeoutCallDoes(c) PROVE ReplayIsExcused'
  BY <1>13, IdleIsState, Absent
  DEF TimeoutCallDoes, ReplayIsExcused, Fields, Holdings, CallsBut, CallLeft, SameCall
<1>14. ASSUME NEW j \in Job, ServeReplayDoes(j) PROVE ReplayIsExcused'
  BY <1>14, IdleIsState, Absent
  DEF ServeReplayDoes, ReplayIsExcused, Fields, Holdings, JobsBut, Families, OneFlight,
      NoLoss, Shapes, CallShapes, CallShape, JobShapes, JobShape
<1>15. ASSUME NEW j \in Job, ServeRedeemDoes(j) PROVE ReplayIsExcused'
  BY <1>15, IdleIsState, Absent DEF ServeRedeemDoes, ReplayIsExcused, Fields, Holdings, JobsBut
<1>16. ASSUME NEW j \in Job, NEW g \in Grant, ServeRenewDoes(j, g) PROVE ReplayIsExcused'
  BY <1>16, IdleIsState, Absent DEF ServeRenewDoes, ReplayIsExcused, Fields, Holdings, JobsBut
<1>17. ASSUME NEW j \in Job, RefreshedDoes(j) PROVE ReplayIsExcused'
  BY <1>17, IdleIsState, Absent
  DEF RefreshedDoes, ReplayIsExcused, Fields, Holdings, JobsBut, Called, Waiting
<1>18. ASSUME NEW j \in Job, RefreshDeniedDoes(j) PROVE ReplayIsExcused'
  BY <1>18, IdleIsState, Absent
  DEF RefreshDeniedDoes, ReplayIsExcused, Fields, Holdings, JobsBut, Waiting
<1>19. ASSUME NEW j \in Job, TimeoutJobDoes(j) PROVE ReplayIsExcused'
  BY <1>19, IdleIsState, Absent
  DEF TimeoutJobDoes, ReplayIsExcused, Fields, Holdings, JobsBut, JobLeft, Waiting
<1>20. ASSUME NEW s \in Session, AgeDoes(s) PROVE ReplayIsExcused'
  BY <1>20, IdleIsState, Absent DEF AgeDoes, ReplayIsExcused, Fields, Holdings
<1>21. ASSUME NEW s \in Session, CloseElsewhereDoes(s) PROVE ReplayIsExcused'
  BY <1>21, IdleIsState, Absent DEF CloseElsewhereDoes, ReplayIsExcused, Fields, Holdings
<1>22. CASE UNCHANGED vars
  BY <1>22, IdleIsState, Absent DEF ReplayIsExcused, Fields, Holdings, vars
<1>23. ASSUME NEW c \in Call, LoginLandsDoes(c) PROVE ReplayIsExcused'
  BY <1>23, IdleIsState, Absent DEF LoginLandsDoes, SameCall, CallsBut, ReplayIsExcused,
     Fields, Holdings
<1>24. ASSUME NEW c \in Call, LogoutLandsDoes(c) PROVE ReplayIsExcused'
  BY <1>24, IdleIsState, Absent DEF LogoutLandsDoes, SameCall, CallsBut, ReplayIsExcused,
     Fields, Holdings, CallsBut
<1>25. ASSUME NEW j \in Job, RenewalLandsDoes(j) PROVE ReplayIsExcused'
  BY <1>25, IdleIsState, Absent
  DEF RenewalLandsDoes, JobLands, JobsBut, ReplayIsExcused, Fields, Holdings, JobsBut, Called,
      Waiting
<1>26. ASSUME NEW j \in Job, RefusalLandsDoes(j) PROVE ReplayIsExcused'
  BY <1>26, IdleIsState, Absent
  DEF RefusalLandsDoes, JobLands, JobsBut, ReplayIsExcused, Fields, Holdings, JobsBut, Waiting
<1> QED
  BY <1>1, <1>2, <1>3, <1>4, <1>5, <1>6, <1>7, <1>8, <1>9, <1>10, <1>11,
     <1>12, <1>13, <1>14, <1>15, <1>16, <1>17, <1>18, <1>19, <1>20, <1>21, <1>22, <1>23, <1>24,
     <1>25, <1>26 DEF Step

(* What refreshes and logouts in flight carry is of the jar's session. *)
LEMMA OneSessionStep ==
  Domains /\ Fields /\ Fields' /\ Holdings /\ Holdings' /\ Shapes /\ Shapes'
    /\ TabShapes /\ TabShapes' /\ Families /\ Arriving /\ OneSession /\ [Next]_vars
  => OneSession'
<1> SUFFICES ASSUME Domains, Fields, Fields', Holdings, Holdings', Shapes, Shapes',
                    TabShapes, TabShapes', Families, Arriving, OneSession, Step
             PROVE OneSession'
  BY StepEffect
<1> USE DEF serverVars, browserVars
<1>1. ASSUME NEW t \in Tab, NEW c \in Call, ReloadDoes(t, c) PROVE OneSession'
  BY <1>1, IdleIsState, Absent, SMTT(20)
  DEF ReloadDoes, OneSession, NoOverlap, OfJar, Live, Running, Shapes, CallShapes, CallShape,
      JobShapes, JobShape, Fields, Holdings, Called, CallLeft, JobLeft, SameCall, JobsBut,
      SigningIn
<1>2. ASSUME NEW t \in Tab, NEW c \in Call, NEW op \in Op, BeginDoes(t, c, op) PROVE OneSession'
  <2> SUFFICES ASSUME NoOverlap' PROVE OneSession'
    BY DEF OneSession
  <2>1. NoOverlap /\ ~Overlap(op) /\ op \in {"api", "logout", "login"}
    BY <1>2 DEF BeginDoes, NoOverlap
  <2>2. /\ job' = job /\ phase' = phase /\ family' = family /\ jar' = jar /\ stored' = stored
        /\ loggedOut' = loggedOut /\ CallsBut(c) /\ call[c].stage = "idle"
        /\ call'[c].op = op /\ call'[c].stage = "sent" /\ call'[c].bearer = stored /\ call'[c].cookie = jar
    BY <1>2 DEF BeginDoes, Called
  <2>3. \A d \in Call : SigningIn(d)' <=> SigningIn(d)
    BY <2>2 DEF SigningIn, CallsBut
  <2>4. \A j \in Job : /\ OfJar(job[j].cookie)' /\ OfJar(job[j].got)'
                       /\ (Running(j) /\ Live(jar))' => Live(job[j].cookie)'
                       /\ job'[j].stage = "denied" => ~Live(jar)'
    BY <2>1, <2>2 DEF OneSession, OfJar, Live, Running
  <2>5. ASSUME NEW d \in Call, call'[d].op = "login"
        PROVE  /\ \A j \in Job : ~Running(j)'
               /\ \A e \in Call : call'[e].op \notin {"logout", "me"}
               /\ \A e \in Call : call'[e].op = "login" => e = d
    BY <2>1, <2>2, <2>5 DEF OneSession, Running, CallsBut, Overlap
  <2>6. /\ \A d \in Call : SigningIn(d)' => call'[d].cookie = jar' /\ ~loggedOut'
        /\ (\E d \in Call : SigningIn(d)') \/ OfJar(stored)'
    <3>1. \A d \in Call : SigningIn(d) => call'[d].cookie = call[d].cookie
      BY <2>2 DEF SigningIn, CallsBut
    <3> QED
      BY <2>1, <2>2, <2>3, <3>1 DEF OneSession, OfJar, Live
  <2>7. ASSUME NEW d \in Call, call'[d].op \in {"logout", "me"}
        PROVE  /\ OfJar(call[d].bearer)' /\ OfJar(call[d].cookie)'
               /\ call'[d].op = "logout" => /\ Live(jar)' => Live(call[d].cookie)'
                                            /\ call'[d].stage \in {"ok", "landed"} => ~Live(jar)'
    <3>1. CASE d = c
      <4>1. op = "logout" /\ \A e \in Call : ~SigningIn(e)
        BY <2>1, <2>2, <2>7, <3>1 DEF Overlap, SigningIn
      <4>2. OfJar(stored)
        BY <2>1, <4>1 DEF OneSession
      <4> QED
        BY <2>2, <3>1, <4>2 DEF OfJar, Live
    <3>2. CASE d # c
      <4>1. call'[d] = call[d]
        BY <2>2, <3>2 DEF CallsBut
      <4> QED
        BY <2>1, <2>2, <2>7, <4>1 DEF OneSession, OfJar, Live
    <3> QED
      BY <3>1, <3>2
  <2> QED
    BY <2>4, <2>5, <2>6, <2>7 DEF OneSession, SigningIn
<1>3. ASSUME NEW c \in Call, ServeReadDoes(c) PROVE OneSession'
  BY <1>3, IdleIsState, Absent
  DEF ServeReadDoes, OneSession, NoOverlap, OfJar, Live, Running, Shapes, CallShapes,
      CallShape, JobShapes, JobShape, Fields, Holdings, SameCall, CallsBut, SigningIn
<1>4. ASSUME NEW c \in Call, RefuseLoginDoes(c) PROVE OneSession'
  BY <1>4, IdleIsState, Absent
  DEF RefuseLoginDoes, OneSession, NoOverlap, OfJar, Live, Running, Shapes, CallShapes,
      CallShape, JobShapes, JobShape, Fields, Holdings, SameCall, CallsBut, SigningIn
<1>5. ASSUME NEW c \in Call, ServeLogoutDoes(c) PROVE OneSession'
  BY <1>5, IdleIsState, Absent, SMTT(20)
  DEF ServeLogoutDoes, OneSession, NoOverlap, OfJar, Live, Running, Shapes, CallShapes,
      CallShape, JobShapes, JobShape, Fields, Holdings, SameCall, CallsBut, LogoutTarget,
      Valid, Current, Presented, Families, SigningIn
<1>6. ASSUME NEW c \in Call, NEW s \in Session, NEW g \in Grant, ServeLoginDoes(c, s, g)
      PROVE OneSession'
  BY <1>6, IdleIsState, Absent, SMTT(20)
  DEF ServeLoginDoes, OneSession, NoOverlap, OfJar, Live, Running, Shapes, CallShapes,
      CallShape, JobShapes, JobShape, Fields, Holdings, CallsBut, Arriving, Families, Issued,
      SignIn, SigningIn
<1>7. ASSUME NEW c \in Call, FetchedDoes(c) PROVE OneSession'
  BY <1>7, IdleIsState, Absent
  DEF FetchedDoes, OneSession, NoOverlap, OfJar, Live, Running, Shapes, CallShapes, CallShape,
      JobShapes, JobShape, Fields, Holdings, CallsBut, SigningIn
<1>8. ASSUME NEW c \in Call, SignedInDoes(c) PROVE OneSession'
  BY <1>8, IdleIsState, Absent, SMTT(20)
  DEF SignedInDoes, CallsBut, OneSession, NoOverlap, OfJar, Live, Running, Shapes, CallShapes,
      CallShape, JobShapes, JobShape, Fields, Holdings, Arriving, SignIn, SigningIn
<1>9. ASSUME NEW c \in Call, LoggedOutDoes(c) PROVE OneSession'
  BY <1>9, IdleIsState, Absent, SMTT(20)
  DEF LoggedOutDoes, OneSession, NoOverlap, OfJar, Live, Running, Shapes, CallShapes,
      CallShape, JobShapes, JobShape, Fields, Holdings, CallsBut, SigningIn
<1>10. ASSUME NEW c \in Call, UnauthorizedDoes(c) PROVE OneSession'
  BY <1>10, IdleIsState, Absent, SMTT(20)
  DEF UnauthorizedDoes, OneSession, NoOverlap, OfJar, Live, Running, Shapes, CallShapes,
      CallShape, JobShapes, JobShape, Fields, Holdings, CallsBut, SigningIn
<1>11. ASSUME NEW c \in Call, JoinRefreshDoes(c) PROVE OneSession'
  BY <1>11, IdleIsState, Absent, SMTT(20)
  DEF JoinRefreshDoes, OneSession, NoOverlap, OfJar, Live, Running, Shapes, CallShapes,
      CallShape, JobShapes, JobShape, Fields, Holdings, CallsBut, SigningIn
<1>12. ASSUME NEW c \in Call, NEW j \in Job, StartRefreshDoes(c, j) PROVE OneSession'
  BY <1>12, IdleIsState, Absent, SMTT(20)
  DEF StartRefreshDoes, OneSession, NoOverlap, OfJar, Live, Running, Shapes, CallShapes,
      CallShape, JobShapes, JobShape, Fields, Holdings, CallsBut, JobsBut, Crossing, SigningIn
<1>13. ASSUME NEW c \in Call, TimeoutCallDoes(c) PROVE OneSession'
  BY <1>13, IdleIsState, Absent, SMTT(20)
  DEF TimeoutCallDoes, OneSession, NoOverlap, OfJar, Live, Running, Shapes, CallShapes,
      CallShape, JobShapes, JobShape, Fields, Holdings, CallsBut, CallLeft, SameCall, SigningIn
<1>14. ASSUME NEW j \in Job, ServeReplayDoes(j) PROVE OneSession'
  BY <1>14, IdleIsState, Absent, SMTT(20)
  DEF ServeReplayDoes, OneSession, NoOverlap, OfJar, Live, Running, Shapes, CallShapes,
      CallShape, JobShapes, JobShape, Fields, Holdings, JobsBut, Families, Current, SigningIn
<1>15. ASSUME NEW j \in Job, ServeRedeemDoes(j) PROVE OneSession'
  BY <1>15, IdleIsState, Absent, SMTT(20)
  DEF ServeRedeemDoes, OneSession, NoOverlap, OfJar, Live, Running, Shapes, CallShapes,
      CallShape, JobShapes, JobShape, Fields, Holdings, JobsBut, Current, SigningIn
<1>16. ASSUME NEW j \in Job, NEW g \in Grant, ServeRenewDoes(j, g) PROVE OneSession'
  BY <1>16, IdleIsState, Absent, SMTT(20)
  DEF ServeRenewDoes, OneSession, NoOverlap, OfJar, Live, Running, Shapes, CallShapes,
      CallShape, JobShapes, JobShape, Fields, Holdings, JobsBut, Families, Issued, Arriving,
      SigningIn
<1>17. ASSUME NEW j \in Job, RefreshedDoes(j) PROVE OneSession'
  BY <1>17, IdleIsState, Absent, SMTT(20)
  DEF RefreshedDoes, OneSession, NoOverlap, OfJar, Live, Running, Shapes, CallShapes,
      CallShape, JobShapes, JobShape, Fields, Holdings, JobsBut, Called, Waiting, Arriving,
      SigningIn
<1>18. ASSUME NEW j \in Job, RefreshDeniedDoes(j) PROVE OneSession'
  BY <1>18, IdleIsState, Absent, SMTT(20)
  DEF RefreshDeniedDoes, OneSession, NoOverlap, OfJar, Live, Running, Shapes, CallShapes,
      CallShape, JobShapes, JobShape, Fields, Holdings, JobsBut, Waiting, SigningIn
<1>19. ASSUME NEW j \in Job, TimeoutJobDoes(j) PROVE OneSession'
  BY <1>19, IdleIsState, Absent
  DEF TimeoutJobDoes, OneSession, NoOverlap, OfJar, Live, Running, Shapes, CallShapes,
      CallShape, JobShapes, JobShape, Fields, Holdings, JobsBut, JobLeft, Waiting, SigningIn
<1>20. ASSUME NEW s \in Session, AgeDoes(s) PROVE OneSession'
  BY <1>20, IdleIsState, Absent
  DEF AgeDoes, OneSession, NoOverlap, OfJar, Live, Running, Shapes, CallShapes, CallShape,
      JobShapes, JobShape, Fields, Holdings, SigningIn
<1>21. ASSUME NEW s \in Session, CloseElsewhereDoes(s) PROVE OneSession'
  BY <1>21, IdleIsState, Absent, SMTT(20)
  DEF CloseElsewhereDoes, OneSession, NoOverlap, OfJar, Live, Running, Shapes, CallShapes,
      CallShape, JobShapes, JobShape, Fields, Holdings, SigningIn
<1>22. CASE UNCHANGED vars
  BY <1>22, IdleIsState, Absent
  DEF OneSession, NoOverlap, OfJar, Live, Running, Shapes, CallShapes, CallShape, JobShapes,
      JobShape, Fields, Holdings, vars, SigningIn
<1>23. ASSUME NEW c \in Call, LoginLandsDoes(c) PROVE OneSession'
  BY <1>23, IdleIsState, Absent, SMTT(20)
  DEF LoginLandsDoes, SameCall, CallsBut, OneSession, NoOverlap, OfJar, Live, Running, Shapes,
      CallShapes,
      CallShape, JobShapes, JobShape, Fields, Holdings, Arriving, SignIn, SigningIn
<1>24. ASSUME NEW c \in Call, LogoutLandsDoes(c) PROVE OneSession'
  BY <1>24, IdleIsState, Absent, SMTT(20)
  DEF LogoutLandsDoes, SameCall, CallsBut, OneSession, NoOverlap, OfJar, Live, Running, Shapes,
      CallShapes,
      CallShape, JobShapes, JobShape, Fields, Holdings, CallsBut, SigningIn
<1>25. ASSUME NEW j \in Job, RenewalLandsDoes(j) PROVE OneSession'
  BY <1>25, IdleIsState, Absent, SMTT(20)
  DEF RenewalLandsDoes, JobLands, JobsBut, OneSession, NoOverlap, OfJar, Live, Running, Shapes,
      CallShapes,
      CallShape, JobShapes, JobShape, Fields, Holdings, JobsBut, Called, Waiting, Arriving,
      SigningIn
<1>26. ASSUME NEW j \in Job, RefusalLandsDoes(j) PROVE OneSession'
  BY <1>26, IdleIsState, Absent
  DEF RefusalLandsDoes, JobLands, JobsBut, OneSession, NoOverlap, OfJar, Live, Running, Shapes,
      CallShapes,
      CallShape, JobShapes, JobShape, Fields, Holdings, JobsBut, Waiting, SigningIn
<1> QED
  BY <1>1, <1>2, <1>3, <1>4, <1>5, <1>6, <1>7, <1>8, <1>9, <1>10, <1>11,
     <1>12, <1>13, <1>14, <1>15, <1>16, <1>17, <1>18, <1>19, <1>20, <1>21, <1>22, <1>23, <1>24,
     <1>25, <1>26 DEF Step

(* After a logout the jar is dead, and so is what later calls carry. *)
LEMMA LateStep ==
  Domains /\ Fields /\ Fields' /\ Holdings /\ Holdings' /\ Shapes /\ Shapes' /\ Families
    /\ Arriving /\ OneSession /\ OneSession' /\ Late /\ [Next]_vars
  => Late'
<1> SUFFICES ASSUME Domains, Fields, Fields', Holdings, Holdings', Shapes, Shapes',
                    Families, Arriving, OneSession, OneSession', Late, Step
             PROVE Late'
  BY StepEffect
<1> USE DEF serverVars, browserVars
<1>1. ASSUME NEW t \in Tab, NEW c \in Call, ReloadDoes(t, c) PROVE Late'
  BY <1>1, IdleIsState, Absent, SMTT(20)
  DEF ReloadDoes, Late, NoOverlap, Live, Shapes, CallShapes, CallShape, JobShapes, JobShape,
      Fields, Holdings, Called, CallLeft, JobLeft, SameCall, JobsBut, Families,
      OneSession, OfJar, SigningIn
<1>2. ASSUME NEW t \in Tab, NEW c \in Call, NEW op \in Op, BeginDoes(t, c, op) PROVE Late'
  BY <1>2, IdleIsState, Absent, SMTT(20)
  DEF BeginDoes, Late, NoOverlap, Live, Shapes, CallShapes, CallShape, JobShapes, JobShape,
      Fields, Holdings, Called, CallsBut, Families,
      OneSession, OfJar, SigningIn
<1>3. ASSUME NEW c \in Call, ServeReadDoes(c) PROVE Late'
  BY <1>3, IdleIsState, Absent
  DEF ServeReadDoes, Late, NoOverlap, Live, Shapes, CallShapes, CallShape, JobShapes,
      JobShape, Fields, Holdings, SameCall, CallsBut, Presented, Valid, Current
<1>4. ASSUME NEW c \in Call, RefuseLoginDoes(c) PROVE Late'
  BY <1>4, IdleIsState, Absent
  DEF RefuseLoginDoes, Late, NoOverlap, Live, Shapes, CallShapes, CallShape, JobShapes,
      JobShape, Fields, Holdings, SameCall, CallsBut
<1>5. ASSUME NEW c \in Call, ServeLogoutDoes(c) PROVE Late'
  BY <1>5, IdleIsState, Absent
  DEF ServeLogoutDoes, Late, NoOverlap, Live, Shapes, CallShapes, CallShape, JobShapes,
      JobShape, Fields, Holdings, SameCall, CallsBut
<1>6. ASSUME NEW c \in Call, NEW s \in Session, NEW g \in Grant, ServeLoginDoes(c, s, g)
      PROVE Late'
  BY <1>6, IdleIsState, Absent
  DEF ServeLoginDoes, Late, NoOverlap, Live, Shapes, CallShapes, CallShape, JobShapes,
      JobShape, Fields, Holdings, CallsBut, Families, Issued
<1>7. ASSUME NEW c \in Call, FetchedDoes(c) PROVE Late'
  BY <1>7, IdleIsState, Absent
  DEF FetchedDoes, Late, NoOverlap, Live, Shapes, CallShapes, CallShape, JobShapes, JobShape,
      Fields, Holdings, CallsBut
<1>8. ASSUME NEW c \in Call, SignedInDoes(c) PROVE Late'
  BY <1>8, IdleIsState, Absent
  DEF SignedInDoes, CallsBut, Late, NoOverlap, Live, Shapes, CallShapes, CallShape, JobShapes,
      JobShape,
      Fields, Holdings, OneSession, SigningIn
<1>9. ASSUME NEW c \in Call, LoggedOutDoes(c) PROVE Late'
  BY <1>9, IdleIsState, Absent
  DEF LoggedOutDoes, Late, NoOverlap, Live, Shapes, CallShapes, CallShape, JobShapes,
      JobShape, Fields, Holdings, CallsBut, OneSession, OfJar, SigningIn
<1>10. ASSUME NEW c \in Call, UnauthorizedDoes(c) PROVE Late'
  BY <1>10, IdleIsState, Absent
  DEF UnauthorizedDoes, Late, NoOverlap, Live, Shapes, CallShapes, CallShape, JobShapes,
      JobShape, Fields, Holdings, CallsBut
<1>11. ASSUME NEW c \in Call, JoinRefreshDoes(c) PROVE Late'
  BY <1>11, IdleIsState, Absent
  DEF JoinRefreshDoes, Late, NoOverlap, Live, Shapes, CallShapes, CallShape, JobShapes,
      JobShape, Fields, Holdings, CallsBut
<1>12. ASSUME NEW c \in Call, NEW j \in Job, StartRefreshDoes(c, j) PROVE Late'
  BY <1>12, IdleIsState, Absent
  DEF StartRefreshDoes, Late, NoOverlap, Live, Shapes, CallShapes, CallShape, JobShapes,
      JobShape, Fields, Holdings, CallsBut, JobsBut
<1>13. ASSUME NEW c \in Call, TimeoutCallDoes(c) PROVE Late'
  BY <1>13, IdleIsState, Absent
  DEF TimeoutCallDoes, Late, NoOverlap, Live, Shapes, CallShapes, CallShape, JobShapes,
      JobShape, Fields, Holdings, CallsBut, CallLeft, SameCall
<1>14. ASSUME NEW j \in Job, ServeReplayDoes(j) PROVE Late'
  BY <1>14, IdleIsState, Absent
  DEF ServeReplayDoes, Late, NoOverlap, Live, Shapes, CallShapes, CallShape, JobShapes,
      JobShape, Fields, Holdings, JobsBut
<1>15. ASSUME NEW j \in Job, ServeRedeemDoes(j) PROVE Late'
  BY <1>15, IdleIsState, Absent
  DEF ServeRedeemDoes, Late, NoOverlap, Live, Shapes, CallShapes, CallShape, JobShapes,
      JobShape, Fields, Holdings, JobsBut
<1>16. ASSUME NEW j \in Job, NEW g \in Grant, ServeRenewDoes(j, g) PROVE Late'
  BY <1>16, IdleIsState, Absent
  DEF ServeRenewDoes, Late, NoOverlap, Live, Shapes, CallShapes, CallShape, JobShapes,
      JobShape, Fields, Holdings, JobsBut, Families, Issued
<1>17. ASSUME NEW j \in Job, RefreshedDoes(j) PROVE Late'
  BY <1>17, IdleIsState, Absent, SMTT(20)
  DEF RefreshedDoes, Late, NoOverlap, Live, Shapes, CallShapes, CallShape, JobShapes,
      JobShape, Fields, Holdings, JobsBut, Called, Waiting, OneSession, OfJar, Running,
      SigningIn
<1>18. ASSUME NEW j \in Job, RefreshDeniedDoes(j) PROVE Late'
  BY <1>18, IdleIsState, Absent
  DEF RefreshDeniedDoes, Late, NoOverlap, Live, Shapes, CallShapes, CallShape, JobShapes,
      JobShape, Fields, Holdings, JobsBut, Waiting
<1>19. ASSUME NEW j \in Job, TimeoutJobDoes(j) PROVE Late'
  BY <1>19, IdleIsState, Absent
  DEF TimeoutJobDoes, Late, NoOverlap, Live, Shapes, CallShapes, CallShape, JobShapes,
      JobShape, Fields, Holdings, JobsBut, JobLeft, Waiting
<1>20. ASSUME NEW s \in Session, AgeDoes(s) PROVE Late'
  BY <1>20, IdleIsState, Absent
  DEF AgeDoes, Late, NoOverlap, Live, Shapes, CallShapes, CallShape, JobShapes, JobShape,
      Fields, Holdings
<1>21. ASSUME NEW s \in Session, CloseElsewhereDoes(s) PROVE Late'
  BY <1>21, IdleIsState, Absent
  DEF CloseElsewhereDoes, Late, NoOverlap, Live, Shapes, CallShapes, CallShape, JobShapes,
      JobShape, Fields, Holdings
<1>22. CASE UNCHANGED vars
  BY <1>22, IdleIsState, Absent
  DEF Late, NoOverlap, Live, Shapes, CallShapes, CallShape, JobShapes, JobShape, Fields,
      Holdings, vars
<1>23. ASSUME NEW c \in Call, LoginLandsDoes(c) PROVE Late'
  BY <1>23, IdleIsState, Absent
  DEF LoginLandsDoes, SameCall, CallsBut, Late, NoOverlap, Live, Shapes, CallShapes, CallShape,
      JobShapes, JobShape,
      Fields, Holdings, OneSession, SigningIn
<1>24. ASSUME NEW c \in Call, LogoutLandsDoes(c) PROVE Late'
  BY <1>24, IdleIsState, Absent, SMTT(20)
  DEF LogoutLandsDoes, SameCall, CallsBut, Late, NoOverlap, Live, Shapes, CallShapes,
      CallShape, JobShapes,
      JobShape, Fields, Holdings, CallsBut, OneSession, OfJar, SigningIn
<1>25. ASSUME NEW j \in Job, RenewalLandsDoes(j) PROVE Late'
  BY <1>25, IdleIsState, Absent, SMTT(20)
  DEF RenewalLandsDoes, JobLands, JobsBut, Late, NoOverlap, Live, Shapes, CallShapes,
      CallShape, JobShapes,
      JobShape, Fields, Holdings, JobsBut, Called, Waiting, OneSession, OfJar, Running,
      SigningIn
<1>26. ASSUME NEW j \in Job, RefusalLandsDoes(j) PROVE Late'
  BY <1>26, IdleIsState, Absent
  DEF RefusalLandsDoes, JobLands, JobsBut, Late, NoOverlap, Live, Shapes, CallShapes,
      CallShape, JobShapes,
      JobShape, Fields, Holdings, JobsBut, Waiting
<1> QED
  BY <1>1, <1>2, <1>3, <1>4, <1>5, <1>6, <1>7, <1>8, <1>9, <1>10, <1>11,
     <1>12, <1>13, <1>14, <1>15, <1>16, <1>17, <1>18, <1>19, <1>20, <1>21, <1>22, <1>23, <1>24,
     <1>25, <1>26 DEF Step

(* A browser that nothing disturbs: its logouts, starting pages, users and  *)
(* sign-ins ...                                                             *)
LEMMA OwnedStep ==
  Domains /\ Fields /\ Fields' /\ Holdings /\ Holdings' /\ Shapes /\ Shapes'
    /\ TabShapes /\ Families /\ Arriving /\ OneSession /\ Alone /\ Smooth' /\ [Next]_vars
  => Owned'
<1> SUFFICES ASSUME Domains, Fields, Fields', Holdings, Holdings', Shapes, Shapes',
                    TabShapes, Families, Arriving, OneSession, Alone, Smooth', Step
             PROVE Owned'
  BY StepEffect
<1> USE DEF serverVars, browserVars
<1>1. ASSUME NEW t \in Tab, NEW c \in Call, ReloadDoes(t, c) PROVE Owned'
  <2> SUFFICES ASSUME NEW d \in Call, call'[d].op = "logout" PROVE call'[d].tab # None
    BY DEF Owned
  <2>1. Owned /\ \A e \in Call : ~(call[e].tab = t /\ call[e].op = "logout")
    BY <1>1 DEF ReloadDoes, Alone, Smooth, LossOf
  <2>2. d # c /\ call[d].op = "logout" /\ call'[d].tab = call[d].tab
    BY <1>1, <2>1, IdleIsState DEF ReloadDoes, Called, CallLeft, SameCall
  <2> QED
    BY <2>1, <2>2 DEF Owned
<1>2. ASSUME NEW t \in Tab, NEW c \in Call, NEW op \in Op, BeginDoes(t, c, op) PROVE Owned'
  BY <1>2, IdleIsState, Absent
  DEF BeginDoes, Alone, Smooth, Owned, Shapes, CallShapes, CallShape, JobShapes, JobShape,
      Fields, Holdings, Called, CallsBut, Overlap, Families
<1>3. ASSUME NEW c \in Call, ServeReadDoes(c) PROVE Owned'
  BY <1>3, IdleIsState, Absent
  DEF ServeReadDoes, Alone, Smooth, Owned, Shapes, CallShapes, CallShape, JobShapes, JobShape,
      Fields, Holdings, SameCall, CallsBut, Presented, Valid, Current
<1>4. ASSUME NEW c \in Call, RefuseLoginDoes(c) PROVE Owned'
  BY <1>4, IdleIsState, Absent
  DEF RefuseLoginDoes, Alone, Smooth, Owned, Shapes, CallShapes, CallShape, JobShapes,
      JobShape, Fields, Holdings, SameCall, CallsBut
<1>5. ASSUME NEW c \in Call, ServeLogoutDoes(c) PROVE Owned'
  BY <1>5, IdleIsState, Absent
  DEF ServeLogoutDoes, Alone, Smooth, Owned, Shapes, CallShapes, CallShape, JobShapes,
      JobShape, Fields, Holdings, SameCall, CallsBut, OneSession, NoOverlap, SigningIn
<1>6. ASSUME NEW c \in Call, NEW s \in Session, NEW g \in Grant, ServeLoginDoes(c, s, g)
      PROVE Owned'
  BY <1>6, IdleIsState, Absent
  DEF ServeLoginDoes, Alone, Smooth, Owned, Shapes, CallShapes, CallShape, JobShapes,
      JobShape, Fields, Holdings, CallsBut, Families, Issued
<1>7. ASSUME NEW c \in Call, FetchedDoes(c) PROVE Owned'
  BY <1>7, IdleIsState, Absent
  DEF FetchedDoes, Alone, Smooth, Owned, Shapes, CallShapes, CallShape, JobShapes, JobShape,
      Fields, Holdings, CallsBut
<1>8. ASSUME NEW c \in Call, SignedInDoes(c) PROVE Owned'
  BY <1>8, IdleIsState, Absent
  DEF SignedInDoes, CallsBut, Alone, Smooth, Owned, Shapes, CallShapes, CallShape, JobShapes,
      JobShape,
      Fields, Holdings, OneSession, NoOverlap, Arriving, SignIn, SigningIn
<1>9. ASSUME NEW c \in Call, LoggedOutDoes(c) PROVE Owned'
  BY <1>9, IdleIsState, Absent
  DEF LoggedOutDoes, Alone, Smooth, Owned, Shapes, CallShapes, CallShape, JobShapes, JobShape,
      Fields, Holdings, CallsBut, OneSession, Others, SigningIn
<1>10. ASSUME NEW c \in Call, UnauthorizedDoes(c) PROVE Owned'
  BY <1>10, IdleIsState, Absent
  DEF UnauthorizedDoes, Alone, Smooth, Owned, Shapes, CallShapes, CallShape, JobShapes,
      JobShape, Fields, Holdings, CallsBut, Others
<1>11. ASSUME NEW c \in Call, JoinRefreshDoes(c) PROVE Owned'
  BY <1>11, IdleIsState, Absent
  DEF JoinRefreshDoes, Alone, Smooth, Owned, Shapes, CallShapes, CallShape, JobShapes,
      JobShape, Fields, Holdings, CallsBut
<1>12. ASSUME NEW c \in Call, NEW j \in Job, StartRefreshDoes(c, j) PROVE Owned'
  BY <1>12, IdleIsState, Absent
  DEF StartRefreshDoes, Alone, Smooth, Owned, Shapes, CallShapes, CallShape, JobShapes,
      JobShape, Fields, Holdings, CallsBut, JobsBut
<1>13. ASSUME NEW c \in Call, TimeoutCallDoes(c) PROVE Owned'
  BY <1>13, IdleIsState, Absent, SMTT(20)
  DEF TimeoutCallDoes, Alone, Smooth, Owned, Shapes, CallShapes, CallShape, JobShapes,
      JobShape, Fields, Holdings, CallsBut, CallLeft, SameCall, Others
<1>14. ASSUME NEW j \in Job, ServeReplayDoes(j) PROVE Owned'
  BY <1>14, IdleIsState, Absent
  DEF ServeReplayDoes, Alone, Smooth, Owned, Shapes, CallShapes, CallShape, JobShapes,
      JobShape, Fields, Holdings, JobsBut, OneSession, NoOverlap, Running, SigningIn
<1>15. ASSUME NEW j \in Job, ServeRedeemDoes(j) PROVE Owned'
  BY <1>15, IdleIsState, Absent
  DEF ServeRedeemDoes, Alone, Smooth, Owned, Shapes, CallShapes, CallShape, JobShapes,
      JobShape, Fields, Holdings, JobsBut, Arriving
<1>16. ASSUME NEW j \in Job, NEW g \in Grant, ServeRenewDoes(j, g) PROVE Owned'
  BY <1>16, IdleIsState, Absent
  DEF ServeRenewDoes, Alone, Smooth, Owned, Shapes, CallShapes, CallShape, JobShapes,
      JobShape, Fields, Holdings, JobsBut, Families, Issued, Arriving
<1>17. ASSUME NEW j \in Job, RefreshedDoes(j) PROVE Owned'
  BY <1>17, IdleIsState, Absent
  DEF RefreshedDoes, Alone, Smooth, Owned, Shapes, CallShapes, CallShape, JobShapes, JobShape,
      Fields, Holdings, JobsBut, Called, Waiting, Arriving
<1>18. ASSUME NEW j \in Job, RefreshDeniedDoes(j) PROVE Owned'
  BY <1>18, IdleIsState, Absent
  DEF RefreshDeniedDoes, Alone, Smooth, Owned, Shapes, CallShapes, CallShape, JobShapes,
      JobShape, Fields, Holdings, JobsBut, Waiting, Others
<1>19. ASSUME NEW j \in Job, TimeoutJobDoes(j) PROVE Owned'
  BY <1>19, IdleIsState, Absent
  DEF TimeoutJobDoes, Alone, Smooth, Owned, Shapes, CallShapes, CallShape, JobShapes,
      JobShape, Fields, Holdings, JobsBut, JobLeft, Waiting
<1>20. ASSUME NEW s \in Session, AgeDoes(s) PROVE Owned'
  BY <1>20, IdleIsState, Absent
  DEF AgeDoes, Alone, Smooth, Owned, Shapes, CallShapes, CallShape, JobShapes, JobShape,
      Fields, Holdings
<1>21. ASSUME NEW s \in Session, CloseElsewhereDoes(s) PROVE Owned'
  BY <1>21, IdleIsState, Absent
  DEF CloseElsewhereDoes, Alone, Smooth, Owned, Shapes, CallShapes, CallShape, JobShapes,
      JobShape, Fields, Holdings
<1>22. CASE UNCHANGED vars
  BY <1>22, IdleIsState, Absent
  DEF Alone, Smooth, Owned, Shapes, CallShapes, CallShape, JobShapes, JobShape, Fields,
      Holdings, vars
<1>23. ASSUME NEW c \in Call, LoginLandsDoes(c) PROVE Owned'
  BY <1>23, IdleIsState, Absent
  DEF LoginLandsDoes, SameCall, CallsBut, Alone, Smooth, Owned, Shapes, CallShapes, CallShape,
      JobShapes, JobShape,
      Fields, Holdings, OneSession, NoOverlap, Arriving, SignIn, SigningIn
<1>24. ASSUME NEW c \in Call, LogoutLandsDoes(c) PROVE Owned'
  BY <1>24, IdleIsState, Absent
  DEF LogoutLandsDoes, SameCall, CallsBut, Alone, Smooth, Owned, Shapes, CallShapes, CallShape,
      JobShapes, JobShape,
      Fields, Holdings, CallsBut, OneSession, Others, SigningIn
<1>25. ASSUME NEW j \in Job, RenewalLandsDoes(j) PROVE Owned'
  BY <1>25, IdleIsState, Absent
  DEF RenewalLandsDoes, JobLands, JobsBut, Alone, Smooth, Owned, Shapes, CallShapes, CallShape,
      JobShapes, JobShape,
      Fields, Holdings, JobsBut, Called, Waiting, Arriving
<1>26. ASSUME NEW j \in Job, RefusalLandsDoes(j) PROVE Owned'
  BY <1>26, IdleIsState, Absent
  DEF RefusalLandsDoes, JobLands, JobsBut, Alone, Smooth, Owned, Shapes, CallShapes, CallShape,
      JobShapes,
      JobShape, Fields, Holdings, JobsBut, Waiting, Others
<1> QED
  BY <1>1, <1>2, <1>3, <1>4, <1>5, <1>6, <1>7, <1>8, <1>9, <1>10, <1>11,
     <1>12, <1>13, <1>14, <1>15, <1>16, <1>17, <1>18, <1>19, <1>20, <1>21, <1>22, <1>23, <1>24,
     <1>25, <1>26 DEF Step

LEMMA StartingAloneStep ==
  Domains /\ Fields /\ Fields' /\ Holdings /\ Holdings' /\ Shapes /\ Shapes'
    /\ TabShapes /\ Families /\ Arriving /\ OneSession /\ Alone /\ Smooth' /\ [Next]_vars
  => StartingAlone'
<1> SUFFICES ASSUME Domains, Fields, Fields', Holdings, Holdings', Shapes, Shapes',
                    TabShapes, Families, Arriving, OneSession, Alone, Smooth', Step
             PROVE StartingAlone'
  BY StepEffect
<1> USE DEF serverVars, browserVars
<1>1. ASSUME NEW t \in Tab, NEW c \in Call, ReloadDoes(t, c) PROVE StartingAlone'
  <2>1. /\ Smooth /\ Flights(t) = {} /\ \A d \in Call : call[d].op # "login"
        /\ \A d \in Call : ~(call[d].tab = t /\ call[d].op = "logout")
    BY <1>1 DEF ReloadDoes, Smooth, LossOf
  <2>2. \A j \in Job : job[j].tab # t
    BY <2>1, Absent DEF Flights, Running, Shapes, JobShapes, JobShape
  <2>3. Leaving => Leaving'
    <3>1. \A j \in Job : job'[j] = job[j]
      BY <1>1, <2>2 DEF ReloadDoes
    <3>2. ASSUME NEW d \in Call, call[d].op = "logout", call[d].stage = "landed"
          PROVE  call'[d] = call[d]
      BY <1>1, <2>1, <3>2 DEF ReloadDoes, CallLeft
    <3> QED
      BY <3>1, <3>2 DEF Leaving
  <2>4. \A d \in Call : d # c => IF call[d].tab = t THEN call'[d] = IdleCall ELSE call'[d] = call[d]
    BY <1>1, <2>1 DEF ReloadDoes, CallLeft
  <2>5. call'[c].op = "me" /\ call'[c].tab = t /\ call'[c].stage = "sent" /\ jar' = jar
        /\ view'[t] = "starting" /\ \A u \in Tab : u # t => view'[u] = view[u]
    BY <1>1 DEF ReloadDoes, Called, Shows
  <2>6. StartingAlone
    BY <2>1 DEF Alone
  <2> SUFFICES ASSUME NEW m \in Call, call'[m].op = "me"
               PROVE  /\ view'[call'[m].tab] = "starting"
                      /\ \A d \in Call : call'[d].tab = call'[m].tab => d = m
                      /\ call'[m].stage = "ok" => jar' # None \/ Leaving'
    BY DEF StartingAlone
  <2>7. CASE m = c
    BY <2>4, <2>5, <2>7, IdleIsState, Absent
  <2>8. CASE m # c
    <3>1. call'[m] = call[m] /\ call[m].tab # t /\ call[m].op = "me"
      BY <2>4, <2>8, IdleIsState
    <3>2. call[m].tab \in Tab
      BY <3>1 DEF Shapes, CallShapes, CallShape, Fields
    <3>3. /\ view[call[m].tab] = "starting"
          /\ \A d \in Call : call[d].tab = call[m].tab => d = m
          /\ call[m].stage = "ok" => jar # None \/ Leaving
      BY <2>6, <3>1 DEF StartingAlone
    <3>4. \A d \in Call : call'[d].tab = call'[m].tab => d = m
      BY <2>4, <2>5, <3>1, <3>2, <3>3, IdleIsState, Absent
    <3> QED
      BY <2>3, <2>5, <3>1, <3>2, <3>3, <3>4
  <2> QED
    BY <2>7, <2>8
<1>2. ASSUME NEW t \in Tab, NEW c \in Call, NEW op \in Op, BeginDoes(t, c, op)
      PROVE StartingAlone'
  BY <1>2, IdleIsState, Absent
  DEF BeginDoes, Alone, Smooth, StartingAlone, Shows, Shapes, CallShapes, CallShape,
      JobShapes, JobShape, Fields, Holdings, Called, CallsBut, Overlap, Families, Leaving
<1>3. ASSUME NEW c \in Call, ServeReadDoes(c) PROVE StartingAlone'
  <2> SUFFICES ASSUME NEW m \in Call, call'[m].op = "me"
               PROVE  /\ view'[call'[m].tab] = "starting"
                      /\ \A d \in Call : call'[d].tab = call'[m].tab => d = m
                      /\ call'[m].stage = "ok" => jar' # None \/ Leaving'
    BY DEF StartingAlone
  <2>1. Smooth /\ NoOverlap /\ StartingAlone /\ view' = view /\ jar' = jar /\ job' = job
    BY <1>3 DEF ServeReadDoes, Smooth, NoOverlap, Alone
  <2>2. \A d \in Call : call'[d].tab \in {call[d].tab, None}
                        /\ call'[d].op \in {call[d].op, "none"}
    BY <1>3, IdleIsState DEF ServeReadDoes, CallsBut, SameCall
  <2>3. call[m].op = "me" /\ call'[m].tab = call[m].tab /\ call[m].tab # None
    BY <1>3, <2>2, IdleIsState DEF ServeReadDoes, CallsBut, SameCall, Shapes, CallShapes,
       CallShape
  <2>4. Leaving => Leaving'
    BY <1>3, <2>1 DEF Leaving, ServeReadDoes, CallsBut
  <2>5. /\ view[call[m].tab] = "starting"
        /\ \A d \in Call : call[d].tab = call[m].tab => d = m
        /\ call[m].stage = "ok" => jar # None \/ Leaving
    BY <2>1, <2>3 DEF StartingAlone
  <2>6. ASSUME m = c, call'[m].stage = "ok" PROVE jar # None
    <3>1. Valid(Presented(call[c]))
      BY <1>3, <2>3, <2>6 DEF ServeReadDoes
    <3>2. OfJar(call[c].bearer) /\ OfJar(call[c].cookie)
      BY <2>1, <2>3, <2>6 DEF OneSession
    <3> QED
      BY <3>1, <3>2 DEF Valid, Current, Presented, OfJar, Live
  <2>7. m # c => call'[m] = call[m]
    BY <1>3 DEF ServeReadDoes, CallsBut
  <2> QED
    BY <2>1, <2>2, <2>3, <2>4, <2>5, <2>6, <2>7
<1>4. ASSUME NEW c \in Call, RefuseLoginDoes(c) PROVE StartingAlone'
  BY <1>4, IdleIsState, Absent
  DEF RefuseLoginDoes, Alone, Smooth, StartingAlone, Shows, Shapes, CallShapes, CallShape,
      JobShapes, JobShape, Fields, Holdings, SameCall, CallsBut, Leaving
<1>5. ASSUME NEW c \in Call, ServeLogoutDoes(c) PROVE StartingAlone'
  BY <1>5, IdleIsState, Absent
  DEF ServeLogoutDoes, Alone, Smooth, StartingAlone, Shows, Shapes, CallShapes, CallShape,
      JobShapes, JobShape, Fields, Holdings, SameCall, CallsBut, OneSession, NoOverlap,
      SigningIn, Leaving
<1>6. ASSUME NEW c \in Call, NEW s \in Session, NEW g \in Grant, ServeLoginDoes(c, s, g)
      PROVE StartingAlone'
  BY <1>6, IdleIsState, Absent
  DEF ServeLoginDoes, Alone, Smooth, StartingAlone, Shows, Shapes, CallShapes, CallShape,
      JobShapes, JobShape, Fields, Holdings, CallsBut, Families, Issued, Leaving
<1>7. ASSUME NEW c \in Call, FetchedDoes(c) PROVE StartingAlone'
  BY <1>7, IdleIsState, Absent
  DEF FetchedDoes, Alone, Smooth, StartingAlone, Shows, Shapes, CallShapes, CallShape,
      JobShapes, JobShape, Fields, Holdings, CallsBut, Leaving
<1>8. ASSUME NEW c \in Call, SignedInDoes(c) PROVE StartingAlone'
  BY <1>8, IdleIsState, Absent
  DEF SignedInDoes, CallsBut, Alone, Smooth, StartingAlone, Shows, Shapes, CallShapes,
      CallShape,
      JobShapes, JobShape, Fields, Holdings, OneSession, NoOverlap, Arriving, SignIn,
      SigningIn, Leaving
<1>9. ASSUME NEW c \in Call, LoggedOutDoes(c) PROVE StartingAlone'
  BY <1>9, IdleIsState, Absent
  DEF LoggedOutDoes, Alone, Smooth, StartingAlone, Shows, Shapes, CallShapes, CallShape,
      JobShapes, JobShape, Fields, Holdings, CallsBut, OneSession, Others, SigningIn, Leaving
<1>10. ASSUME NEW c \in Call, UnauthorizedDoes(c) PROVE StartingAlone'
  BY <1>10, IdleIsState, Absent
  DEF UnauthorizedDoes, Alone, Smooth, StartingAlone, Shows, Shapes, CallShapes, CallShape,
      JobShapes, JobShape, Fields, Holdings, CallsBut, Others, Leaving
<1>11. ASSUME NEW c \in Call, JoinRefreshDoes(c) PROVE StartingAlone'
  BY <1>11, IdleIsState, Absent
  DEF JoinRefreshDoes, Alone, Smooth, StartingAlone, Shows, Shapes, CallShapes, CallShape,
      JobShapes, JobShape, Fields, Holdings, CallsBut, Leaving
<1>12. ASSUME NEW c \in Call, NEW j \in Job, StartRefreshDoes(c, j) PROVE StartingAlone'
  BY <1>12, IdleIsState, Absent
  DEF StartRefreshDoes, Alone, Smooth, StartingAlone, Shows, Shapes, CallShapes, CallShape,
      JobShapes, JobShape, Fields, Holdings, CallsBut, JobsBut, Leaving
<1>13. ASSUME NEW c \in Call, TimeoutCallDoes(c) PROVE StartingAlone'
  <2>1. /\ Smooth /\ call[c].op # "logout" /\ ~SigningIn(c) /\ CallsBut(c)
        /\ \/ call'[c] = IdleCall
           \/ call'[c].op = "login" /\ call'[c].tab = None /\ call[c].op = "login"
        /\ call[c].op = "me" => Others(call[c].tab) = {}
    BY <1>13, IdleIsState DEF TimeoutCallDoes, Smooth, CallLeft, SameCall
  <2>2. jar' = jar /\ job' = job /\ StartingAlone /\ (Leaving => Leaving')
    BY <1>13, <2>1 DEF TimeoutCallDoes, Alone, Leaving, CallsBut
  <2> SUFFICES ASSUME NEW m \in Call, call'[m].op = "me"
               PROVE  /\ view'[call'[m].tab] = "starting"
                      /\ \A d \in Call : call'[d].tab = call'[m].tab => d = m
                      /\ call'[m].stage = "ok" => jar' # None \/ Leaving'
    BY DEF StartingAlone
  <2>3. m # c /\ call'[m] = call[m]
    BY <2>1, IdleIsState DEF CallsBut
  <2>4. call[m].tab \in Tab
    BY <2>3 DEF Shapes, CallShapes, CallShape, Fields
  <2>5. /\ view[call[m].tab] = "starting"
        /\ \A d \in Call : call[d].tab = call[m].tab => d = m
        /\ call[m].stage = "ok" => jar # None \/ Leaving
    BY <2>2, <2>3 DEF StartingAlone
  <2>6. call[c].tab # call[m].tab
    BY <2>3, <2>5
  <2>7. view'[call[m].tab] = view[call[m].tab]
    BY <1>13, <2>1, <2>4, <2>6 DEF TimeoutCallDoes, Shows
  <2>8. \A d \in Call : call'[d].tab = call'[m].tab => d = m
    BY <2>1, <2>3, <2>4, <2>5, IdleIsState, Absent DEF CallsBut
  <2> QED
    BY <2>2, <2>3, <2>5, <2>7, <2>8
<1>14. ASSUME NEW j \in Job, ServeReplayDoes(j) PROVE StartingAlone'
  BY <1>14, IdleIsState, Absent
  DEF ServeReplayDoes, Alone, Smooth, StartingAlone, Shows, Shapes, CallShapes, CallShape,
      JobShapes, JobShape, Fields, Holdings, JobsBut, OneSession, NoOverlap, Running,
      SigningIn, Leaving
<1>15. ASSUME NEW j \in Job, ServeRedeemDoes(j) PROVE StartingAlone'
  BY <1>15, IdleIsState, Absent
  DEF ServeRedeemDoes, Alone, Smooth, StartingAlone, Shows, Shapes, CallShapes, CallShape,
      JobShapes, JobShape, Fields, Holdings, JobsBut, Arriving, Leaving
<1>16. ASSUME NEW j \in Job, NEW g \in Grant, ServeRenewDoes(j, g) PROVE StartingAlone'
  BY <1>16, IdleIsState, Absent
  DEF ServeRenewDoes, Alone, Smooth, StartingAlone, Shows, Shapes, CallShapes, CallShape,
      JobShapes, JobShape, Fields, Holdings, JobsBut, Families, Issued, Arriving, Leaving
<1>17. ASSUME NEW j \in Job, RefreshedDoes(j) PROVE StartingAlone'
  BY <1>17, IdleIsState, Absent
  DEF RefreshedDoes, Alone, Smooth, StartingAlone, Shows, Shapes, CallShapes, CallShape,
      JobShapes, JobShape, Fields, Holdings, JobsBut, Called, Waiting, Arriving, Leaving
<1>18. ASSUME NEW j \in Job, RefreshDeniedDoes(j) PROVE StartingAlone'
  <2> SUFFICES ASSUME NEW m \in Call, call'[m].op = "me"
               PROVE  FALSE
    BY DEF StartingAlone, Leaving
  <2> DEFINE t == job[j].tab
  <2>1. t \in Tab /\ Waiting(t) # {}
    BY <1>18
    DEF RefreshDeniedDoes, Shapes, JobShapes, JobShape, TabShapes, TabShape, Flights, Running,
        Fields
  <2>2. m \notin Waiting(t) /\ call[m].op = "me"
    BY <1>18, IdleIsState DEF RefreshDeniedDoes
  <2>3. call[m].tab # t
    BY <1>18, <2>1, <2>2 DEF RefreshDeniedDoes, Alone, Smooth, StartingAlone, Waiting, Leaving
  <2>4. call[m].tab \in Tab /\ view[call[m].tab] = "starting"
    BY <1>18, <2>2
    DEF RefreshDeniedDoes, Alone, Smooth, StartingAlone, Shapes, CallShapes, CallShape, Fields,
        Leaving
  <2>5. Others(t) # {}
    BY <2>3, <2>4 DEF Others
  <2> QED
    BY <1>18, <2>5 DEF RefreshDeniedDoes, Smooth
<1>19. ASSUME NEW j \in Job, TimeoutJobDoes(j) PROVE StartingAlone'
  BY <1>19, IdleIsState, Absent
  DEF TimeoutJobDoes, Alone, Smooth, StartingAlone, Shows, Shapes, CallShapes, CallShape,
      JobShapes, JobShape, Fields, Holdings, JobsBut, JobLeft, Waiting, Leaving
<1>20. ASSUME NEW s \in Session, AgeDoes(s) PROVE StartingAlone'
  BY <1>20, IdleIsState, Absent
  DEF AgeDoes, Alone, Smooth, StartingAlone, Shows, Shapes, CallShapes, CallShape, JobShapes,
      JobShape, Fields, Holdings, Leaving
<1>21. ASSUME NEW s \in Session, CloseElsewhereDoes(s) PROVE StartingAlone'
  BY <1>21, IdleIsState, Absent
  DEF CloseElsewhereDoes, Alone, Smooth, StartingAlone, Shows, Shapes, CallShapes, CallShape,
      JobShapes, JobShape, Fields, Holdings, Leaving
<1>22. CASE UNCHANGED vars
  BY <1>22, IdleIsState, Absent
  DEF Alone, Smooth, StartingAlone, Shows, Shapes, CallShapes, CallShape, JobShapes, JobShape,
      Fields, Holdings, vars, Leaving
<1>23. ASSUME NEW c \in Call, LoginLandsDoes(c) PROVE StartingAlone'
  BY <1>23, IdleIsState, Absent
  DEF LoginLandsDoes, SameCall, CallsBut, Alone, Smooth, StartingAlone, Shows, Shapes,
      CallShapes, CallShape,
      JobShapes, JobShape, Fields, Holdings, OneSession, NoOverlap, Arriving, SignIn,
      SigningIn, Leaving
<1>24. ASSUME NEW c \in Call, LogoutLandsDoes(c) PROVE StartingAlone'
  BY <1>24, IdleIsState, Absent
  DEF LogoutLandsDoes, SameCall, CallsBut, Alone, Smooth, StartingAlone, Shows, Shapes,
      CallShapes, CallShape,
      JobShapes, JobShape, Fields, Holdings, CallsBut, OneSession, Others, SigningIn, Leaving
<1>25. ASSUME NEW j \in Job, RenewalLandsDoes(j) PROVE StartingAlone'
  BY <1>25, IdleIsState, Absent
  DEF RenewalLandsDoes, JobLands, JobsBut, Alone, Smooth, StartingAlone, Shows, Shapes,
      CallShapes, CallShape,
      JobShapes, JobShape, Fields, Holdings, JobsBut, Called, Waiting, Arriving, Leaving
<1>26. ASSUME NEW j \in Job, RefusalLandsDoes(j) PROVE StartingAlone'
  BY <1>26, IdleIsState, Absent
  DEF RefusalLandsDoes, JobLands, JobsBut, Alone, Smooth, StartingAlone, Shows, Shapes,
      CallShapes, CallShape,
      JobShapes, JobShape, Fields, Holdings, CallsBut, Others, Leaving
<1> QED
  BY <1>1, <1>2, <1>3, <1>4, <1>5, <1>6, <1>7, <1>8, <1>9, <1>10, <1>11,
     <1>12, <1>13, <1>14, <1>15, <1>16, <1>17, <1>18, <1>19, <1>20, <1>21, <1>22, <1>23, <1>24,
     <1>25, <1>26 DEF Step

LEMMA UsersHoldStep ==
  Domains /\ Fields /\ Fields' /\ Holdings /\ Holdings' /\ Shapes /\ Shapes'
    /\ TabShapes /\ Families /\ Arriving /\ OneSession /\ Alone /\ Smooth' /\ [Next]_vars
  => UsersHold'
<1> SUFFICES ASSUME Domains, Fields, Fields', Holdings, Holdings', Shapes, Shapes',
                    TabShapes, Families, Arriving, OneSession, Alone, Smooth', Step
             PROVE UsersHold'
  BY StepEffect
<1> USE DEF serverVars, browserVars
<1>1. ASSUME NEW t \in Tab, NEW c \in Call, ReloadDoes(t, c) PROVE UsersHold'
  <2>1. /\ Smooth /\ Flights(t) = {} /\ \A d \in Call : call[d].op # "login"
        /\ \A d \in Call : ~(call[d].tab = t /\ call[d].op = "logout")
    BY <1>1 DEF ReloadDoes, Smooth, LossOf
  <2>2. \A j \in Job : job[j].tab # t
    BY <2>1, Absent DEF Flights, Running, Shapes, JobShapes, JobShape
  <2>3. Leaving => Leaving'
    <3>1. \A j \in Job : job'[j] = job[j]
      BY <1>1, <2>2 DEF ReloadDoes
    <3>2. ASSUME NEW d \in Call, call[d].op = "logout", call[d].stage = "landed"
          PROVE  call'[d] = call[d]
      BY <1>1, <2>1, <3>2 DEF ReloadDoes, CallLeft
    <3> QED
      BY <3>1, <3>2 DEF Leaving
  <2>4. UsersHold /\ jar' = jar /\ Shows(t, "starting")
    BY <1>1, <2>1 DEF ReloadDoes, Alone
  <2> QED
    BY <2>3, <2>4 DEF UsersHold, Shows
<1>2. ASSUME NEW t \in Tab, NEW c \in Call, NEW op \in Op, BeginDoes(t, c, op) PROVE UsersHold'
  BY <1>2, IdleIsState, Absent
  DEF BeginDoes, Alone, Smooth, UsersHold, StartingAlone, Shows, Shapes, CallShapes,
      CallShape, JobShapes, JobShape, Fields, Holdings, Called, CallsBut, Overlap, Families,
      Leaving
<1>3. ASSUME NEW c \in Call, ServeReadDoes(c) PROVE UsersHold'
  BY <1>3, IdleIsState, Absent
  DEF ServeReadDoes, Alone, Smooth, UsersHold, StartingAlone, Shows, Shapes, CallShapes,
      CallShape, JobShapes, JobShape, Fields, Holdings, SameCall, CallsBut, Presented, Valid,
      Current, Leaving
<1>4. ASSUME NEW c \in Call, RefuseLoginDoes(c) PROVE UsersHold'
  BY <1>4, IdleIsState, Absent
  DEF RefuseLoginDoes, Alone, Smooth, UsersHold, StartingAlone, Shows, Shapes, CallShapes,
      CallShape, JobShapes, JobShape, Fields, Holdings, SameCall, CallsBut, Leaving
<1>5. ASSUME NEW c \in Call, ServeLogoutDoes(c) PROVE UsersHold'
  BY <1>5, IdleIsState, Absent
  DEF ServeLogoutDoes, Alone, Smooth, UsersHold, StartingAlone, Shows, Shapes, CallShapes,
      CallShape, JobShapes, JobShape, Fields, Holdings, SameCall, CallsBut, OneSession,
      NoOverlap, SigningIn, Leaving
<1>6. ASSUME NEW c \in Call, NEW s \in Session, NEW g \in Grant, ServeLoginDoes(c, s, g)
      PROVE UsersHold'
  BY <1>6, IdleIsState, Absent
  DEF ServeLoginDoes, Alone, Smooth, UsersHold, StartingAlone, Shows, Shapes, CallShapes,
      CallShape, JobShapes, JobShape, Fields, Holdings, CallsBut, Families, Issued, Leaving
<1>7. ASSUME NEW c \in Call, FetchedDoes(c) PROVE UsersHold'
  BY <1>7, IdleIsState, Absent
  DEF FetchedDoes, Alone, Smooth, UsersHold, StartingAlone, Shows, Shapes, CallShapes,
      CallShape, JobShapes, JobShape, Fields, Holdings, CallsBut, Leaving
<1>8. ASSUME NEW c \in Call, SignedInDoes(c) PROVE UsersHold'
  <2>1. Smooth /\ NoOverlap /\ UsersHold /\ SignInsHold /\ SigningIn(c)
    BY <1>8 DEF SignedInDoes, Smooth, NoOverlap, Alone, SigningIn
  <2>2. jar # None
    BY <2>1 DEF OneSession, SignInsHold, Honoured, Current
  <2> QED
    BY <1>8, <2>2 DEF SignedInDoes, UsersHold
<1>9. ASSUME NEW c \in Call, LoggedOutDoes(c) PROVE UsersHold'
  BY <1>9, IdleIsState, Absent
  DEF LoggedOutDoes, Alone, Smooth, UsersHold, StartingAlone, Shows, Shapes, CallShapes,
      CallShape, JobShapes, JobShape, Fields, Holdings, CallsBut, OneSession, Others,
      SigningIn, Leaving
<1>10. ASSUME NEW c \in Call, UnauthorizedDoes(c) PROVE UsersHold'
  BY <1>10, IdleIsState, Absent
  DEF UnauthorizedDoes, Alone, Smooth, UsersHold, StartingAlone, Shows, Shapes, CallShapes,
      CallShape, JobShapes, JobShape, Fields, Holdings, CallsBut, Others, Leaving
<1>11. ASSUME NEW c \in Call, JoinRefreshDoes(c) PROVE UsersHold'
  BY <1>11, IdleIsState, Absent
  DEF JoinRefreshDoes, Alone, Smooth, UsersHold, StartingAlone, Shows, Shapes, CallShapes,
      CallShape, JobShapes, JobShape, Fields, Holdings, CallsBut, Leaving
<1>12. ASSUME NEW c \in Call, NEW j \in Job, StartRefreshDoes(c, j) PROVE UsersHold'
  BY <1>12, IdleIsState, Absent
  DEF StartRefreshDoes, Alone, Smooth, UsersHold, StartingAlone, Shows, Shapes, CallShapes,
      CallShape, JobShapes, JobShape, Fields, Holdings, CallsBut, JobsBut, Leaving
<1>13. ASSUME NEW c \in Call, TimeoutCallDoes(c) PROVE UsersHold'
  BY <1>13, IdleIsState, Absent, SMTT(20)
  DEF TimeoutCallDoes, Alone, Smooth, UsersHold, StartingAlone, Shows, Shapes, CallShapes,
      CallShape, JobShapes, JobShape, Fields, Holdings, CallsBut, CallLeft, SameCall, Others,
      Leaving
<1>14. ASSUME NEW j \in Job, ServeReplayDoes(j) PROVE UsersHold'
  BY <1>14, IdleIsState, Absent
  DEF ServeReplayDoes, Alone, Smooth, UsersHold, StartingAlone, Shows, Shapes, CallShapes,
      CallShape, JobShapes, JobShape, Fields, Holdings, JobsBut, OneSession, NoOverlap,
      Running, SigningIn, Leaving
<1>15. ASSUME NEW j \in Job, ServeRedeemDoes(j) PROVE UsersHold'
  BY <1>15, IdleIsState, Absent
  DEF ServeRedeemDoes, Alone, Smooth, UsersHold, StartingAlone, Shows, Shapes, CallShapes,
      CallShape, JobShapes, JobShape, Fields, Holdings, JobsBut, Arriving, Leaving
<1>16. ASSUME NEW j \in Job, NEW g \in Grant, ServeRenewDoes(j, g) PROVE UsersHold'
  BY <1>16, IdleIsState, Absent
  DEF ServeRenewDoes, Alone, Smooth, UsersHold, StartingAlone, Shows, Shapes, CallShapes,
      CallShape, JobShapes, JobShape, Fields, Holdings, JobsBut, Families, Issued, Arriving,
      Leaving
<1>17. ASSUME NEW j \in Job, RefreshedDoes(j) PROVE UsersHold'
  BY <1>17, IdleIsState, Absent
  DEF RefreshedDoes, Alone, Smooth, UsersHold, StartingAlone, Shows, Shapes, CallShapes,
      CallShape, JobShapes, JobShape, Fields, Holdings, JobsBut, Called, Waiting, Arriving,
      Leaving
<1>18. ASSUME NEW j \in Job, RefreshDeniedDoes(j) PROVE UsersHold'
  <2>1. Others(job[j].tab) = {} /\ Shows(job[j].tab, "guest")
    BY <1>18 DEF RefreshDeniedDoes, Smooth
  <2>2. \A u \in Tab : view'[u] = "guest"
    BY <2>1 DEF Others, Shows
  <2> QED
    BY <2>2 DEF UsersHold
<1>19. ASSUME NEW j \in Job, TimeoutJobDoes(j) PROVE UsersHold'
  BY <1>19, IdleIsState, Absent
  DEF TimeoutJobDoes, Alone, Smooth, UsersHold, StartingAlone, Shows, Shapes, CallShapes,
      CallShape, JobShapes, JobShape, Fields, Holdings, JobsBut, JobLeft, Waiting, Leaving
<1>20. ASSUME NEW s \in Session, AgeDoes(s) PROVE UsersHold'
  BY <1>20, IdleIsState, Absent
  DEF AgeDoes, Alone, Smooth, UsersHold, StartingAlone, Shows, Shapes, CallShapes, CallShape,
      JobShapes, JobShape, Fields, Holdings, Leaving
<1>21. ASSUME NEW s \in Session, CloseElsewhereDoes(s) PROVE UsersHold'
  BY <1>21, IdleIsState, Absent
  DEF CloseElsewhereDoes, Alone, Smooth, UsersHold, StartingAlone, Shows, Shapes, CallShapes,
      CallShape, JobShapes, JobShape, Fields, Holdings, Leaving
<1>22. CASE UNCHANGED vars
  BY <1>22, IdleIsState, Absent
  DEF Alone, Smooth, UsersHold, StartingAlone, Shows, Shapes, CallShapes, CallShape,
      JobShapes, JobShape, Fields, Holdings, vars, Leaving
<1>23. ASSUME NEW c \in Call, LoginLandsDoes(c) PROVE UsersHold'
  BY <1>23, IdleIsState, Absent
  DEF LoginLandsDoes, SameCall, CallsBut, Alone, Smooth, UsersHold, StartingAlone, Shows,
      Shapes, CallShapes,
      CallShape, JobShapes, JobShape, Fields, Holdings, OneSession, NoOverlap, Arriving,
      SignIn, SigningIn, Leaving
<1>24. ASSUME NEW c \in Call, LogoutLandsDoes(c) PROVE UsersHold'
  BY <1>24, IdleIsState, Absent
  DEF LogoutLandsDoes, SameCall, CallsBut, Alone, Smooth, UsersHold, StartingAlone, Shows,
      Shapes, CallShapes,
      CallShape, JobShapes, JobShape, Fields, Holdings, CallsBut, OneSession, Others,
      SigningIn, Leaving
<1>25. ASSUME NEW j \in Job, RenewalLandsDoes(j) PROVE UsersHold'
  BY <1>25, IdleIsState, Absent
  DEF RenewalLandsDoes, JobLands, JobsBut, Alone, Smooth, UsersHold, StartingAlone, Shows,
      Shapes, CallShapes,
      CallShape, JobShapes, JobShape, Fields, Holdings, JobsBut, Called, Waiting, Arriving,
      Leaving
<1>26. ASSUME NEW j \in Job, RefusalLandsDoes(j) PROVE UsersHold'
  BY <1>26, IdleIsState, Absent
  DEF RefusalLandsDoes, JobLands, JobsBut, Alone, Smooth, UsersHold, StartingAlone, Shows,
      Shapes, CallShapes,
      CallShape, JobShapes, JobShape, Fields, Holdings, JobsBut, Waiting, Others, Leaving
<1> QED
  BY <1>1, <1>2, <1>3, <1>4, <1>5, <1>6, <1>7, <1>8, <1>9, <1>10, <1>11,
     <1>12, <1>13, <1>14, <1>15, <1>16, <1>17, <1>18, <1>19, <1>20, <1>21, <1>22, <1>23, <1>24,
     <1>25, <1>26 DEF Step

LEMMA SignInsHoldStep ==
  Domains /\ Fields /\ Fields' /\ Holdings /\ Holdings' /\ Shapes /\ Shapes'
    /\ TabShapes /\ Families /\ Arriving /\ OneSession /\ Alone /\ Smooth' /\ [Next]_vars
  => SignInsHold'
<1> SUFFICES ASSUME Domains, Fields, Fields', Holdings, Holdings', Shapes, Shapes',
                    TabShapes, Families, Arriving, OneSession, Alone, Smooth', Step
             PROVE SignInsHold'
  BY StepEffect
<1> USE DEF serverVars, browserVars
<1>1. ASSUME NEW t \in Tab, NEW c \in Call, ReloadDoes(t, c) PROVE SignInsHold'
  BY <1>1, IdleIsState, Absent
  DEF ReloadDoes, Alone, Smooth, SignInsHold, SignIn, Honoured, Current, Shapes, CallShapes,
      CallShape, JobShapes, JobShape, Fields, Holdings, Called, CallLeft, JobLeft, SameCall,
      JobsBut, Families, LossOf, SigningIn
<1>2. ASSUME NEW t \in Tab, NEW c \in Call, NEW op \in Op, BeginDoes(t, c, op)
      PROVE SignInsHold'
  BY <1>2, IdleIsState, Absent
  DEF BeginDoes, Alone, Smooth, SignInsHold, SignIn, Honoured, Current, Shapes, CallShapes,
      CallShape, JobShapes, JobShape, Fields, Holdings, Called, CallsBut, Overlap, Families,
      SigningIn
<1>3. ASSUME NEW c \in Call, ServeReadDoes(c) PROVE SignInsHold'
  BY <1>3, IdleIsState, Absent
  DEF ServeReadDoes, Alone, Smooth, SignInsHold, SignIn, Honoured, Current, Shapes,
      CallShapes, CallShape, JobShapes, JobShape, Fields, Holdings, SameCall, CallsBut,
      Presented, Valid, Current, SigningIn
<1>4. ASSUME NEW c \in Call, RefuseLoginDoes(c) PROVE SignInsHold'
  BY <1>4, IdleIsState, Absent
  DEF RefuseLoginDoes, Alone, Smooth, SignInsHold, SignIn, Honoured, Current, Shapes,
      CallShapes, CallShape, JobShapes, JobShape, Fields, Holdings, SameCall, CallsBut,
      SigningIn
<1>5. ASSUME NEW c \in Call, ServeLogoutDoes(c) PROVE SignInsHold'
  BY <1>5, IdleIsState, Absent
  DEF ServeLogoutDoes, Alone, Smooth, SignInsHold, SignIn, Honoured, Current, Shapes,
      CallShapes, CallShape, JobShapes, JobShape, Fields, Holdings, SameCall, CallsBut,
      OneSession, NoOverlap, SigningIn
<1>6. ASSUME NEW c \in Call, NEW s \in Session, NEW g \in Grant, ServeLoginDoes(c, s, g)
      PROVE SignInsHold'
  BY <1>6, IdleIsState, Absent
  DEF ServeLoginDoes, Alone, Smooth, SignInsHold, SignIn, Honoured, Current, Shapes,
      CallShapes, CallShape, JobShapes, JobShape, Fields, Holdings, CallsBut, Families, Issued,
      SigningIn
<1>7. ASSUME NEW c \in Call, FetchedDoes(c) PROVE SignInsHold'
  BY <1>7, IdleIsState, Absent
  DEF FetchedDoes, Alone, Smooth, SignInsHold, SignIn, Honoured, Current, Shapes, CallShapes,
      CallShape, JobShapes, JobShape, Fields, Holdings, CallsBut, SigningIn
<1>8. ASSUME NEW c \in Call, SignedInDoes(c) PROVE SignInsHold'
  BY <1>8, IdleIsState, Absent
  DEF SignedInDoes, CallsBut, Alone, Smooth, SignInsHold, SignIn, Honoured, Current, Shapes,
      CallShapes,
      CallShape, JobShapes, JobShape, Fields, Holdings, OneSession, NoOverlap, Arriving,
      SignIn, SigningIn
<1>9. ASSUME NEW c \in Call, LoggedOutDoes(c) PROVE SignInsHold'
  BY <1>9, IdleIsState, Absent
  DEF LoggedOutDoes, Alone, Smooth, SignInsHold, SignIn, Honoured, Current, Shapes,
      CallShapes, CallShape, JobShapes, JobShape, Fields, Holdings, CallsBut, OneSession,
      Others, SigningIn
<1>10. ASSUME NEW c \in Call, UnauthorizedDoes(c) PROVE SignInsHold'
  BY <1>10, IdleIsState, Absent
  DEF UnauthorizedDoes, Alone, Smooth, SignInsHold, SignIn, Honoured, Current, Shapes,
      CallShapes, CallShape, JobShapes, JobShape, Fields, Holdings, CallsBut, Others, SigningIn
<1>11. ASSUME NEW c \in Call, JoinRefreshDoes(c) PROVE SignInsHold'
  BY <1>11, IdleIsState, Absent
  DEF JoinRefreshDoes, Alone, Smooth, SignInsHold, SignIn, Honoured, Current, Shapes,
      CallShapes, CallShape, JobShapes, JobShape, Fields, Holdings, CallsBut, SigningIn
<1>12. ASSUME NEW c \in Call, NEW j \in Job, StartRefreshDoes(c, j) PROVE SignInsHold'
  BY <1>12, IdleIsState, Absent
  DEF StartRefreshDoes, Alone, Smooth, SignInsHold, SignIn, Honoured, Current, Shapes,
      CallShapes, CallShape, JobShapes, JobShape, Fields, Holdings, CallsBut, JobsBut, SigningIn
<1>13. ASSUME NEW c \in Call, TimeoutCallDoes(c) PROVE SignInsHold'
  BY <1>13, IdleIsState, Absent
  DEF TimeoutCallDoes, Alone, Smooth, SignInsHold, SignIn, Honoured, Current, Shapes,
      CallShapes, CallShape, JobShapes, JobShape, Fields, Holdings, CallsBut, CallLeft,
      SameCall, Others, SigningIn
<1>14. ASSUME NEW j \in Job, ServeReplayDoes(j) PROVE SignInsHold'
  BY <1>14, IdleIsState, Absent
  DEF ServeReplayDoes, Alone, Smooth, SignInsHold, SignIn, Honoured, Current, Shapes,
      CallShapes, CallShape, JobShapes, JobShape, Fields, Holdings, JobsBut, OneSession,
      NoOverlap, Running, SigningIn
<1>15. ASSUME NEW j \in Job, ServeRedeemDoes(j) PROVE SignInsHold'
  <2>1. Smooth /\ NoOverlap /\ SignInsHold /\ Running(j)
    BY <1>15 DEF ServeRedeemDoes, Smooth, NoOverlap, Alone, Running
  <2>2. \A c \in Call : call[c].op # "login"
    BY <2>1 DEF OneSession
  <2> QED
    BY <1>15, <2>2 DEF ServeRedeemDoes, SignInsHold, SignIn, SigningIn
<1>16. ASSUME NEW j \in Job, NEW g \in Grant, ServeRenewDoes(j, g) PROVE SignInsHold'
  BY <1>16, IdleIsState, Absent
  DEF ServeRenewDoes, Alone, Smooth, SignInsHold, SignIn, Honoured, Current, Shapes,
      CallShapes, CallShape, JobShapes, JobShape, Fields, Holdings, JobsBut, Families, Issued,
      Arriving, SigningIn
<1>17. ASSUME NEW j \in Job, RefreshedDoes(j) PROVE SignInsHold'
  BY <1>17, IdleIsState, Absent
  DEF RefreshedDoes, Alone, Smooth, SignInsHold, SignIn, Honoured, Current, Shapes,
      CallShapes, CallShape, JobShapes, JobShape, Fields, Holdings, JobsBut, Called, Waiting,
      Arriving, SigningIn
<1>18. ASSUME NEW j \in Job, RefreshDeniedDoes(j) PROVE SignInsHold'
  BY <1>18, IdleIsState, Absent
  DEF RefreshDeniedDoes, Alone, Smooth, SignInsHold, SignIn, Honoured, Current, Shapes,
      CallShapes, CallShape, JobShapes, JobShape, Fields, Holdings, JobsBut, Waiting, Others,
      SigningIn
<1>19. ASSUME NEW j \in Job, TimeoutJobDoes(j) PROVE SignInsHold'
  BY <1>19, IdleIsState, Absent
  DEF TimeoutJobDoes, Alone, Smooth, SignInsHold, SignIn, Honoured, Current, Shapes,
      CallShapes, CallShape, JobShapes, JobShape, Fields, Holdings, JobsBut, JobLeft, Waiting,
      SigningIn
<1>20. ASSUME NEW s \in Session, AgeDoes(s) PROVE SignInsHold'
  BY <1>20, IdleIsState, Absent
  DEF AgeDoes, Alone, Smooth, SignInsHold, SignIn, Honoured, Current, Shapes, CallShapes,
      CallShape, JobShapes, JobShape, Fields, Holdings, SigningIn
<1>21. ASSUME NEW s \in Session, CloseElsewhereDoes(s) PROVE SignInsHold'
  BY <1>21, IdleIsState, Absent
  DEF CloseElsewhereDoes, Alone, Smooth, SignInsHold, SignIn, Honoured, Current, Shapes,
      CallShapes, CallShape, JobShapes, JobShape, Fields, Holdings, SigningIn
<1>22. CASE UNCHANGED vars
  BY <1>22, IdleIsState, Absent
  DEF Alone, Smooth, SignInsHold, SignIn, Honoured, Current, Shapes, CallShapes, CallShape,
      JobShapes, JobShape, Fields, Holdings, vars, SigningIn
<1>23. ASSUME NEW c \in Call, LoginLandsDoes(c) PROVE SignInsHold'
  BY <1>23, IdleIsState, Absent
  DEF LoginLandsDoes, SameCall, CallsBut, Alone, Smooth, SignInsHold, SignIn, Honoured,
      Current, Shapes, CallShapes,
      CallShape, JobShapes, JobShape, Fields, Holdings, OneSession, NoOverlap, Arriving,
      SignIn, SigningIn
<1>24. ASSUME NEW c \in Call, LogoutLandsDoes(c) PROVE SignInsHold'
  BY <1>24, IdleIsState, Absent
  DEF LogoutLandsDoes, SameCall, CallsBut, Alone, Smooth, SignInsHold, SignIn, Honoured,
      Current, Shapes,
      CallShapes, CallShape, JobShapes, JobShape, Fields, Holdings, CallsBut, OneSession,
      Others, SigningIn
<1>25. ASSUME NEW j \in Job, RenewalLandsDoes(j) PROVE SignInsHold'
  BY <1>25, IdleIsState, Absent
  DEF RenewalLandsDoes, JobLands, JobsBut, Alone, Smooth, SignInsHold, SignIn, Honoured,
      Current, Shapes,
      CallShapes, CallShape, JobShapes, JobShape, Fields, Holdings, JobsBut, Called, Waiting,
      Arriving, SigningIn
<1>26. ASSUME NEW j \in Job, RefusalLandsDoes(j) PROVE SignInsHold'
  BY <1>26, IdleIsState, Absent
  DEF RefusalLandsDoes, JobLands, JobsBut, Alone, Smooth, SignInsHold, SignIn, Honoured,
      Current, Shapes,
      CallShapes, CallShape, JobShapes, JobShape, Fields, Holdings, JobsBut, Waiting, Others,
      SigningIn
<1> QED
  BY <1>1, <1>2, <1>3, <1>4, <1>5, <1>6, <1>7, <1>8, <1>9, <1>10, <1>11,
     <1>12, <1>13, <1>14, <1>15, <1>16, <1>17, <1>18, <1>19, <1>20, <1>21, <1>22, <1>23, <1>24,
     <1>25, <1>26 DEF Step

(* ... and what it will hold when all is settled. *)
LEMMA UndisturbedStep ==
  Domains /\ Fields /\ Fields' /\ Holdings /\ Holdings' /\ Shapes /\ Shapes' /\ Smooth'
    /\ TabShapes /\ TabShapes' /\ Families /\ Arriving /\ OneFlight /\ OneSession
    /\ OneSession' /\ Alone /\ Undisturbed /\ [Next]_vars
  => Undisturbed'
<1> SUFFICES ASSUME Domains, Fields, Fields', Holdings, Holdings', Shapes, Shapes',
                    Smooth', TabShapes, TabShapes', Families, Arriving, OneFlight,
                    OneSession, OneSession', Alone, Undisturbed, Step
             PROVE Undisturbed'
  BY StepEffect
<1> USE DEF serverVars, browserVars
<1>1. ASSUME NEW t \in Tab, NEW c \in Call, ReloadDoes(t, c) PROVE Undisturbed'
  <2> SUFFICES ASSUME ~loggedOut' PROVE Undisturbed'
    BY DEF Undisturbed, SigningIn
  <2>1. Smooth /\ ~loggedOut /\ Flights(t) = {} /\ \A d \in Call : ~(call[d].tab = t /\ call[d].op = "logout")
    BY <1>1 DEF ReloadDoes, Smooth, LossOf
  <2>2. \A j \in Job : job[j].tab # t
    BY <2>1, Absent DEF Flights, Running, Shapes, JobShapes, JobShape
  <2>3. (\A j \in Job : job'[j] = job[j]) /\ jar' = jar /\ spent' = spent
        /\ phase' = phase /\ accepted' = accepted /\ family' = family
    BY <1>1, <2>2 DEF ReloadDoes
  <2>4. ASSUME NEW d \in Call, call[d].op = "logout" /\ call[d].stage = "ok"
        PROVE  call'[d].op = "logout" /\ call'[d].stage = "ok"
    BY <1>1, <2>1, <2>4 DEF ReloadDoes, CallLeft
  <2>5. stored' = stored /\ \A d \in Call : ~SigningIn(d)
    BY <1>1 DEF ReloadDoes, Smooth, SigningIn
  <2> QED
    BY <2>1, <2>3, <2>4, <2>5 DEF Undisturbed, UpToDate, Running, Redeeming, Honoured, Current,
       SigningIn
<1>2. ASSUME NEW t \in Tab, NEW c \in Call, NEW op \in Op, BeginDoes(t, c, op)
      PROVE Undisturbed'
  BY <1>2, IdleIsState, Absent
  DEF BeginDoes, Undisturbed, UpToDate, Smooth, Running, Redeeming, Honoured, Current,
      OneFlight, NoLoss, Shapes, CallShapes, CallShape, JobShapes, JobShape, Fields, Holdings,
      Called, CallsBut, SigningIn
<1>3. ASSUME NEW c \in Call, ServeReadDoes(c) PROVE Undisturbed'
  BY <1>3, IdleIsState, Absent
  DEF ServeReadDoes, Undisturbed, UpToDate, Smooth, Running, Redeeming, Honoured, Current,
      OneFlight, NoLoss, Shapes, CallShapes, CallShape, JobShapes, JobShape, Fields, Holdings,
      SameCall, CallsBut, SigningIn
<1>4. ASSUME NEW c \in Call, RefuseLoginDoes(c) PROVE Undisturbed'
  BY <1>4, IdleIsState, Absent
  DEF RefuseLoginDoes, Undisturbed, UpToDate, Smooth, Running, Redeeming, Honoured, Current,
      OneFlight, NoLoss, Shapes, CallShapes, CallShape, JobShapes, JobShape, Fields, Holdings,
      SameCall, CallsBut, SigningIn
<1>5. ASSUME NEW c \in Call, ServeLogoutDoes(c) PROVE Undisturbed'
  <2>1. Smooth /\ NoOverlap /\ call[c].tab # None
    BY <1>5 DEF ServeLogoutDoes, Alone, Owned, Smooth, NoOverlap
  <2>2. /\ call'[c].op = "logout" /\ call'[c].stage = "ok" /\ job' = job /\ jar' = jar
        /\ stored' = stored /\ loggedOut' = loggedOut
    BY <1>5, <2>1 DEF ServeLogoutDoes, SameCall
  <2>3. \A d \in Call : ~SigningIn(d)
    BY <1>5, <2>1 DEF ServeLogoutDoes, OneSession, SigningIn
  <2> QED
    BY <2>1, <2>2, <2>3 DEF Undisturbed, UpToDate
<1>6. ASSUME NEW c \in Call, NEW s \in Session, NEW g \in Grant, ServeLoginDoes(c, s, g)
      PROVE Undisturbed'
  BY <1>6, IdleIsState, Absent, SMTT(20)
  DEF ServeLoginDoes, Undisturbed, UpToDate, Smooth, Running, Redeeming, Honoured, Current,
      OneFlight, NoLoss, Shapes, CallShapes, CallShape, JobShapes, JobShape, Fields, Holdings,
      CallsBut, Alone, SignInsHold, OneSession, NoOverlap, Families, Issued, Arriving, SignIn,
      SigningIn
<1>7. ASSUME NEW c \in Call, FetchedDoes(c) PROVE Undisturbed'
  BY <1>7, IdleIsState, Absent
  DEF FetchedDoes, Undisturbed, UpToDate, Smooth, Running, Redeeming, Honoured, Current,
      OneFlight, NoLoss, Shapes, CallShapes, CallShape, JobShapes, JobShape, Fields, Holdings,
      CallsBut, SigningIn
<1>8. ASSUME NEW c \in Call, SignedInDoes(c) PROVE Undisturbed'
  BY <1>8, IdleIsState, Absent, SMTT(20)
  DEF SignedInDoes, CallsBut, Undisturbed, UpToDate, Smooth, Running, Redeeming, Honoured,
      Current,
      OneFlight, NoLoss, Shapes, CallShapes, CallShape, JobShapes, JobShape, Fields, Holdings,
      OneSession, NoOverlap, Alone, SignInsHold, SignIn, Arriving, SigningIn
<1>9. ASSUME NEW c \in Call, LoggedOutDoes(c) PROVE Undisturbed'
  BY <1>9, IdleIsState, Absent
  DEF LoggedOutDoes, Undisturbed, UpToDate, Smooth, Running, Redeeming, Honoured, Current,
      OneFlight, NoLoss, Shapes, CallShapes, CallShape, JobShapes, JobShape, Fields, Holdings,
      CallsBut, SigningIn
<1>10. ASSUME NEW c \in Call, UnauthorizedDoes(c) PROVE Undisturbed'
  BY <1>10, IdleIsState, Absent
  DEF UnauthorizedDoes, Undisturbed, UpToDate, Smooth, Running, Redeeming, Honoured, Current,
      OneFlight, NoLoss, Shapes, CallShapes, CallShape, JobShapes, JobShape, Fields, Holdings,
      CallsBut, SigningIn
<1>11. ASSUME NEW c \in Call, JoinRefreshDoes(c) PROVE Undisturbed'
  BY <1>11, IdleIsState, Absent
  DEF JoinRefreshDoes, Undisturbed, UpToDate, Smooth, Running, Redeeming, Honoured, Current,
      OneFlight, NoLoss, Shapes, CallShapes, CallShape, JobShapes, JobShape, Fields, Holdings,
      CallsBut, SigningIn
<1>12. ASSUME NEW c \in Call, NEW j \in Job, StartRefreshDoes(c, j) PROVE Undisturbed'
  BY <1>12, IdleIsState, Absent
  DEF StartRefreshDoes, Undisturbed, UpToDate, Smooth, Running, Redeeming, Honoured, Current,
      OneFlight, NoLoss, Shapes, CallShapes, CallShape, JobShapes, JobShape, Fields, Holdings,
      CallsBut, JobsBut, Crossing, Flights, SigningIn
<1>13. ASSUME NEW c \in Call, TimeoutCallDoes(c) PROVE Undisturbed'
  <2> SUFFICES ASSUME ~loggedOut' PROVE Undisturbed'
    BY DEF Undisturbed
  <2>1. /\ Smooth /\ call[c].op # "logout" /\ ~SigningIn(c) /\ CallsBut(c)
        /\ \/ call'[c] = IdleCall
           \/ call'[c].op = "login" /\ call'[c].tab = None /\ call[c].op = "login"
        /\ call[c].op = "me" => Others(call[c].tab) = {}
    BY <1>13, IdleIsState DEF TimeoutCallDoes, Smooth, CallLeft, SameCall
  <2>2. /\ ~loggedOut /\ jar' = jar /\ job' = job /\ spent' = spent /\ stored' \in {None, stored}
        /\ phase' = phase /\ accepted' = accepted /\ family' = family
    BY <1>13 DEF TimeoutCallDoes
  <2>3. /\ \A d \in Call : SigningIn(d) => SigningIn(d)'
        /\ \A d \in Call : call[d].op = "logout" => call'[d] = call[d]
    BY <2>1 DEF SigningIn, CallsBut
  <2>4. UpToDate => UpToDate'
    BY <2>2, <2>3 DEF UpToDate, Redeeming, Honoured, Current
  <2> QED
    BY <2>1, <2>2, <2>3, <2>4 DEF Undisturbed
<1>14. ASSUME NEW j \in Job, ServeReplayDoes(j) PROVE Undisturbed'
  BY <1>14, IdleIsState, Absent, SMTT(20)
  DEF ServeReplayDoes, Undisturbed, UpToDate, Smooth, Running, Redeeming, Honoured, Current,
      OneFlight, NoLoss, Shapes, CallShapes, CallShape, JobShapes, JobShape, Fields, Holdings,
      JobsBut, Live, SigningIn
<1>15. ASSUME NEW j \in Job, ServeRedeemDoes(j) PROVE Undisturbed'
  <2> SUFFICES ASSUME ~loggedOut' PROVE Undisturbed'
    BY DEF Undisturbed
  <2>1. /\ Smooth /\ NoLoss /\ ~loggedOut /\ jar' = jar /\ stored' = stored /\ call' = call
        /\ phase' = phase /\ accepted' = accepted /\ family' = family
        /\ job[j].stage = "sent" /\ Current(job[j].cookie)
        /\ job'[j].stage = "redeemed" /\ job'[j].cookie = job[j].cookie
    BY <1>15 DEF ServeRedeemDoes, Smooth, NoLoss
  <2>2. job[j].cookie = jar
    BY <2>1 DEF Undisturbed
  <2>3. \A k \in Job : k # j => job'[k].stage = "idle"
    BY <1>15, <2>1 DEF ServeRedeemDoes, OneFlight, Running, JobsBut
  <2>4. UpToDate'
    BY <2>1, <2>2 DEF UpToDate, Current
  <2>5. \A k \in Job : job[k].stage \notin {"renewed", "refused"}
    BY <2>1 DEF OneFlight, Running
  <2>6. stored \in {None, jar} \/ \E c \in Call : SigningIn(c)
    BY <2>1, <2>5 DEF Undisturbed
  <2>7. stored' \in {None, jar'} \/ \E c \in Call : SigningIn(c)'
    BY <2>1, <2>6 DEF SigningIn
  <2> QED
    BY <2>1, <2>2, <2>3, <2>4, <2>7 DEF Undisturbed
<1>16. ASSUME NEW j \in Job, NEW g \in Grant, ServeRenewDoes(j, g) PROVE Undisturbed'
  BY <1>16, IdleIsState, Absent
  DEF ServeRenewDoes, Undisturbed, UpToDate, Smooth, Running, Redeeming, Honoured, Current,
      OneFlight, NoLoss, Shapes, CallShapes, CallShape, JobShapes, JobShape, Fields, Holdings,
      JobsBut, Families, Issued, Arriving, SigningIn
<1>17. ASSUME NEW j \in Job, RefreshedDoes(j) PROVE Undisturbed'
  BY <1>17, IdleIsState, Absent
  DEF RefreshedDoes, Undisturbed, UpToDate, Smooth, Running, Redeeming, Honoured, Current,
      OneFlight, NoLoss, Shapes, CallShapes, CallShape, JobShapes, JobShape, Fields, Holdings,
      JobsBut, Called, Waiting, Arriving, SigningIn
<1>18. ASSUME NEW j \in Job, RefreshDeniedDoes(j) PROVE Undisturbed'
  BY <1>18, IdleIsState, Absent
  DEF RefreshDeniedDoes, Undisturbed, UpToDate, Smooth, Running, Redeeming, Honoured, Current,
      OneFlight, NoLoss, Shapes, CallShapes, CallShape, JobShapes, JobShape, Fields, Holdings,
      JobsBut, Waiting, Alone, StartingAlone, SigningIn, Leaving
<1>19. ASSUME NEW j \in Job, TimeoutJobDoes(j) PROVE Undisturbed'
  <2>1. ~Smooth'
    BY <1>19 DEF TimeoutJobDoes, Smooth
  <2> QED
    BY <2>1 DEF Undisturbed
<1>20. ASSUME NEW s \in Session, AgeDoes(s) PROVE Undisturbed'
  BY <1>20, IdleIsState, Absent
  DEF AgeDoes, Undisturbed, UpToDate, Smooth, Running, Redeeming, Honoured, Current,
      OneFlight, NoLoss, Shapes, CallShapes, CallShape, JobShapes, JobShape, Fields, Holdings,
      SigningIn
<1>21. ASSUME NEW s \in Session, CloseElsewhereDoes(s) PROVE Undisturbed'
  <2>1. ~Smooth'
    BY <1>21 DEF CloseElsewhereDoes, Smooth
  <2> QED
    BY <2>1 DEF Undisturbed
<1>22. CASE UNCHANGED vars
  BY <1>22, IdleIsState, Absent
  DEF Undisturbed, UpToDate, Smooth, Running, Redeeming, Honoured, Current, OneFlight, NoLoss,
      Shapes, CallShapes, CallShape, JobShapes, JobShape, Fields, Holdings, vars, SigningIn
<1>23. ASSUME NEW c \in Call, LoginLandsDoes(c) PROVE Undisturbed'
  BY <1>23, IdleIsState, Absent, SMTT(20)
  DEF LoginLandsDoes, SameCall, CallsBut, Undisturbed, UpToDate, Smooth, Running, Redeeming,
      Honoured, Current,
      OneFlight, NoLoss, Shapes, CallShapes, CallShape, JobShapes, JobShape, Fields, Holdings,
      OneSession, NoOverlap, Alone, SignInsHold, SignIn, Arriving, SigningIn
<1>24. ASSUME NEW c \in Call, LogoutLandsDoes(c) PROVE Undisturbed'
  BY <1>24, IdleIsState, Absent
  DEF LogoutLandsDoes, SameCall, CallsBut, Undisturbed, UpToDate, Smooth, Running, Redeeming,
      Honoured, Current,
      OneFlight, NoLoss, Shapes, CallShapes, CallShape, JobShapes, JobShape, Fields, Holdings,
      CallsBut, SigningIn
<1>25. ASSUME NEW j \in Job, RenewalLandsDoes(j) PROVE Undisturbed'
  <2> SUFFICES ASSUME ~loggedOut' PROVE Undisturbed'
    BY DEF Undisturbed
  <2>1. /\ Smooth /\ NoLoss /\ ~loggedOut /\ jar' = job[j].got /\ call' = call
        /\ spent' = spent /\ phase' = phase /\ accepted' = accepted /\ family' = family
        /\ job[j].stage = "ok" /\ job'[j].stage = "renewed" /\ job'[j].got = job[j].got
    BY <1>25 DEF RenewalLandsDoes, JobLands, Smooth, NoLoss
  <2>2. \A k \in Job : k # j => job[k].stage = "idle" /\ job'[k].stage = "idle"
    BY <1>25, <2>1 DEF RenewalLandsDoes, JobLands, OneFlight, Running, JobsBut
  <2>3. jar # None
    BY <2>1 DEF Undisturbed, Shapes, JobShapes, JobShape
  <2>4. UpToDate
    BY <2>1, <2>3 DEF Undisturbed
  <2>5. \/ \E c \in Call : call[c].op = "logout" /\ call[c].stage = "ok"
        \/ Honoured(job[j].got)
    BY <2>1, <2>2, <2>4 DEF UpToDate, Redeeming
  <2>6. UpToDate'
    BY <2>1, <2>2, <2>5 DEF UpToDate, Redeeming, Honoured, Current
  <2> QED
    BY <2>1, <2>2, <2>6 DEF Undisturbed
<1>26. ASSUME NEW j \in Job, RefusalLandsDoes(j) PROVE Undisturbed'
  BY <1>26, IdleIsState, Absent
  DEF RefusalLandsDoes, JobLands, JobsBut, Undisturbed, UpToDate, Smooth, Running, Redeeming,
      Honoured, Current,
      OneFlight, NoLoss, Shapes, CallShapes, CallShape, JobShapes, JobShape, Fields, Holdings,
      JobsBut, Waiting, Alone, StartingAlone, SigningIn, Leaving
<1> QED
  BY <1>1, <1>2, <1>3, <1>4, <1>5, <1>6, <1>7, <1>8, <1>9, <1>10, <1>11,
     <1>12, <1>13, <1>14, <1>15, <1>16, <1>17, <1>18, <1>19, <1>20, <1>21, <1>22, <1>23, <1>24,
     <1>25, <1>26 DEF Step

-----------------------------------------------------------------------------
(* The inductive invariant.                                                *)
Inv ==
  /\ Domains /\ Shapes /\ Families /\ Arriving
  /\ OneFlight /\ ReplayIsExcused
  /\ OneSession /\ Late /\ Alone /\ Undisturbed

LEMMA InitInv == Init => Inv
<1> SUFFICES ASSUME Init PROVE Inv
  OBVIOUS
<1> USE DEF Init, Server!Init
<1>1. \A c \in Call : call[c] = IdleCall
  OBVIOUS
<1>2. \A j \in Job : job[j] = IdleJob
  OBVIOUS
<1>3. Domains
  BY IdleIsState DEF Domains
<1>4. Shapes
  BY <1>1, <1>2, IdleIsState
  DEF Shapes, CallShapes, CallShape, JobShapes, JobShape, TabShapes, TabShape,
      Flights, Waiting, Running
<1>5. Families
  BY <1>1, <1>2, IdleIsState DEF Families, Issued
<1>6. Arriving /\ OneFlight /\ ReplayIsExcused
  BY <1>1, <1>2, IdleIsState
  DEF Arriving, SignIn, OneFlight, NoLoss, Running, ReplayIsExcused
<1>7. OneSession /\ Late
  BY <1>1, <1>2, IdleIsState DEF OneSession, NoOverlap, OfJar, Live, Running, Late, SigningIn
<1>8. Alone /\ Undisturbed
  BY <1>1, <1>2, IdleIsState
  DEF Alone, Smooth, Owned, StartingAlone, UsersHold, SignInsHold, SignIn,
      Undisturbed, Running, SigningIn, Leaving
<1> QED
  BY <1>3, <1>4, <1>5, <1>6, <1>7, <1>8 DEF Inv

LEMMA NextInv == Inv /\ [Next]_vars => Inv'
<1> SUFFICES ASSUME Inv, [Next]_vars PROVE Inv'
  OBVIOUS
<1>1. Domains /\ Shapes /\ Families /\ Arriving
  BY DEF Inv
<1>2. Domains'
  BY <1>1, DomainsStep
<1>3. Fields /\ Fields'
  BY <1>1, <1>2, FieldsHold, PTL
<1>4. Holdings /\ Holdings'
  BY <1>1, <1>2, HoldingsHold, PTL
<1>5. Shapes'
  BY <1>1, <1>3, CallShapesStep, JobShapesStep, TabShapesStep DEF Shapes
<1>6. TabShapes /\ TabShapes'
  BY <1>1, <1>5 DEF Shapes
<1>7. Families'
  BY <1>1, <1>3, <1>4, <1>5, FamiliesStep
<1>8. Arriving'
  BY <1>1, <1>3, <1>4, <1>5, ArrivingStep
<1>9. OneFlight' /\ ReplayIsExcused'
  BY <1>1, <1>3, <1>4, <1>5, <1>6, OneFlightStep, ReplayStep DEF Inv
<1>10. OneSession'
  BY <1>1, <1>3, <1>4, <1>5, <1>6, OneSessionStep DEF Inv
<1>11. Late'
  BY <1>1, <1>3, <1>4, <1>5, <1>10, LateStep DEF Inv
<1>12. Alone'
  BY <1>1, <1>3, <1>4, <1>5, <1>6, OwnedStep, StartingAloneStep, UsersHoldStep, SignInsHoldStep
  DEF Inv, Alone
<1>13. Undisturbed'
  <2>1. CASE Smooth'
    BY <1>1, <1>3, <1>4, <1>5, <1>6, <1>10, <2>1, UndisturbedStep DEF Inv
  <2>2. CASE ~Smooth'
    BY <2>2 DEF Undisturbed, SigningIn
  <2> QED
    BY <2>1, <2>2
<1> QED
  BY <1>2, <1>5, <1>7, <1>8, <1>9, <1>10, <1>11, <1>12, <1>13 DEF Inv

LEMMA Invariance == Spec => []Inv
BY InitInv, NextInv, PTL DEF Spec

-----------------------------------------------------------------------------
(* TypeOK (api.js:64, refreshPromise): for any number of tabs, calls and   *)
(* refreshes, a tab has one refresh in flight exactly while calls of it    *)
(* wait for one.                                                           *)
THEOREM TypeCorrect == Spec => []TypeOK
<1>1. Inv => TypeOK
  <2> SUFFICES ASSUME Inv, NEW t \in Tab
               PROVE  Cardinality(Flights(t)) <= 1 /\ (Flights(t) = {} <=> Waiting(t) = {})
    BY DEF Inv, TypeOK
  <2>1. (\A j, k \in Flights(t) : j = k) /\ (Flights(t) = {} <=> Waiting(t) = {})
    BY DEF Inv, Shapes, TabShapes, TabShape
  <2>2. CASE Flights(t) = {}
    BY <2>1, <2>2, FS_EmptySet
  <2>3. CASE Flights(t) # {}
    <3>1. PICK j \in Flights(t) : TRUE
      BY <2>3
    <3>2. Flights(t) = {j}
      BY <2>1, <3>1
    <3>3. Cardinality(Flights(t)) = 1
      BY <3>2, FS_Singleton
    <3> QED
      BY <2>1, <3>3
  <2> QED
    BY <2>2, <2>3
<1> QED
  BY <1>1, Invariance, PTL

(* ReplayIsExcused (api.js:104): the interceptor's single refresh keeps    *)
(* the client from presenting a redeemed token, but for lost answers and   *)
(* tabs that refresh at one time.                                          *)
THEOREM ReplaysAreExcused == Spec => []ReplayIsExcused
<1>1. Inv => ReplayIsExcused
  BY DEF Inv
<1> QED
  BY <1>1, Invariance, PTL

(* CredentialsAreHonoured (AuthContext.jsx:93, api.js:106): but for logins *)
(* that overlap other traffic, the token the page stored and the cookies   *)
(* the browser was given, each at its own moment, never speak for two      *)
(* sessions; and a browser that nothing disturbed holds, once all is       *)
(* settled, one pair, which the server honours.                            *)
THEOREM HeldIsHonoured == Spec => []CredentialsAreHonoured
<1>1. Inv => CredentialsAreHonoured
  <2> SUFFICES ASSUME Inv PROVE CredentialsAreHonoured
    OBVIOUS
  <2>1. "overlap" \in trouble \/ (\E c \in Call : SigningIn(c)) \/ SameSession
    <3> SUFFICES ASSUME NoOverlap, \A c \in Call : ~SigningIn(c) PROVE SameSession
      BY DEF NoOverlap
    <3>1. OfJar(stored) /\ Issued(stored)
      BY DEF Inv, OneSession, Families
    <3> QED
      BY <3>1 DEF SameSession, OfJar, Live, Issued
  <2>2. ASSUME Quiet, trouble = {}
        PROVE  /\ ~loggedOut => stored \in {None, jar}
               /\ jar # None /\ ~loggedOut => Current(jar) /\ jar \notin spent
               /\ (\E t \in Tab : view[t] = "user") => jar # None
    <3>1. (\A c \in Call : call[c].stage = "idle") /\ \A j \in Job : job[j].stage = "idle"
      BY <2>2 DEF Quiet, Busy, Running
    <3>2. ASSUME ~loggedOut PROVE stored \in {None, jar} /\ (jar # None => UpToDate)
      BY <2>2, <3>1, <3>2 DEF Inv, Undisturbed, Smooth, SigningIn
    <3>3. UpToDate => Honoured(jar)
      BY <3>1 DEF UpToDate
    <3>4. UsersHold /\ ~Leaving
      BY <2>2, <3>1 DEF Inv, Alone, Smooth, Leaving
    <3> QED
      BY <3>2, <3>3, <3>4 DEF Honoured, UsersHold
  <2> QED
    BY <2>1, <2>2 DEF CredentialsAreHonoured
<1> QED
  BY <1>1, Invariance, PTL

(* LogoutSticks (authController.js:366, AuthContext.jsx:126): no call made *)
(* after an answered logout is accepted before the next login, whatever    *)
(* refresh is answered late, where no login overlapped other traffic.      *)
THEOREM LogoutsStick == Spec => []LogoutSticks
<1>1. Inv => LogoutSticks
  BY DEF Inv, Late, NoOverlap, LogoutSticks
<1> QED
  BY <1>1, Invariance, PTL

(* The browser asks nothing of the server that CredentialChain does not    *)
(* promise: every step is one of the chain or leaves it alone.             *)
LEMMA ServerStep == Inv /\ [Next]_vars => [Server!Next]_(Server!chainVars)
<1> SUFFICES ASSUME Inv, [Next]_vars PROVE [Server!Next]_(Server!chainVars)
  OBVIOUS
<1>f. Domains /\ Shapes /\ Families /\ Fields /\ Holdings
  BY FieldsHold, HoldingsHold DEF Inv
<1> USE DEF Server!chainVars
<1>1. ASSUME NEW t \in Tab, NEW c \in Call, Reload(t, c) PROVE [Server!Next]_(Server!chainVars)
  BY <1>1 DEF Reload, serverVars
<1>2. ASSUME NEW t \in Tab, NEW c \in Call, NEW op \in Op, Begin(t, c, op)
      PROVE [Server!Next]_(Server!chainVars)
  BY <1>2 DEF Begin, serverVars
<1>3. ASSUME NEW c \in Call, ServeRead(c) PROVE [Server!Next]_(Server!chainVars)
  BY <1>3 DEF ServeRead, serverVars
<1>4. ASSUME NEW c \in Call, RefuseLogin(c) PROVE [Server!Next]_(Server!chainVars)
  BY <1>4 DEF RefuseLogin, serverVars
<1>5. ASSUME NEW c \in Call, ServeLogout(c) PROVE [Server!Next]_(Server!chainVars)
  <2>1. Active(LogoutTarget(call[c])) \in SUBSET Session
    BY <1>f
    DEF Active, LogoutTarget, Valid, Current, Presented, Families, Issued, Fields, Holdings
  <2> QED
    BY <1>5, <2>1 DEF ServeLogout, Server!Next
<1>6. ASSUME NEW c \in Call, NEW s \in Session, NEW g \in Grant, ServeLogin(c, s, g)
      PROVE [Server!Next]_(Server!chainVars)
  BY <1>6 DEF ServeLogin, Server!Next
<1>7. ASSUME NEW c \in Call, Fetched(c) PROVE [Server!Next]_(Server!chainVars)
  BY <1>7 DEF Fetched, serverVars
<1>8. ASSUME NEW c \in Call, SignedIn(c) PROVE [Server!Next]_(Server!chainVars)
  BY <1>8 DEF SignedIn, serverVars
<1>9. ASSUME NEW c \in Call, LoggedOut(c) PROVE [Server!Next]_(Server!chainVars)
  BY <1>9 DEF LoggedOut, serverVars
<1>10. ASSUME NEW c \in Call, Unauthorized(c) PROVE [Server!Next]_(Server!chainVars)
  BY <1>10 DEF Unauthorized, serverVars
<1>11. ASSUME NEW c \in Call, JoinRefresh(c) PROVE [Server!Next]_(Server!chainVars)
  BY <1>11 DEF JoinRefresh, serverVars
<1>12. ASSUME NEW c \in Call, NEW j \in Job, StartRefresh(c, j)
      PROVE [Server!Next]_(Server!chainVars)
  BY <1>12 DEF StartRefresh, serverVars
<1>13. ASSUME NEW c \in Call, TimeoutCall(c) PROVE [Server!Next]_(Server!chainVars)
  BY <1>13 DEF TimeoutCall, serverVars
<1>14. ASSUME NEW j \in Job, ServeReplay(j) PROVE [Server!Next]_(Server!chainVars)
  <2> DEFINE g == job[j].cookie
             S == IF g = None THEN {} ELSE Active({family[g]})
  <2>1. S \in SUBSET Session
    BY <1>f DEF Active, Families, Issued, Fields, Holdings
  <2>2. Server!Close(S)
    BY <1>14 DEF ServeReplay
  <2> QED
    BY <2>1, <2>2 DEF Server!Next
<1>15. ASSUME NEW j \in Job, ServeRedeem(j) PROVE [Server!Next]_(Server!chainVars)
  <2>1. family[job[j].cookie] \in Session
    BY <1>15, <1>f DEF ServeRedeem, Current, Fields, Holdings
  <2> QED
    BY <1>15, <2>1 DEF ServeRedeem, Server!Next
<1>16. ASSUME NEW j \in Job, NEW g \in Grant, ServeRenew(j, g)
      PROVE [Server!Next]_(Server!chainVars)
  <2>1. family[job[j].cookie] \in Session
    BY <1>16, <1>f
    DEF ServeRenew, Families, Issued, Fields, Holdings, Shapes, JobShapes, JobShape
  <2> QED
    BY <1>16, <2>1 DEF ServeRenew, Server!Next
<1>17. ASSUME NEW j \in Job, Refreshed(j) PROVE [Server!Next]_(Server!chainVars)
  BY <1>17 DEF Refreshed, serverVars
<1>18. ASSUME NEW j \in Job, RefreshDenied(j) PROVE [Server!Next]_(Server!chainVars)
  BY <1>18 DEF RefreshDenied, serverVars
<1>19. ASSUME NEW j \in Job, TimeoutJob(j) PROVE [Server!Next]_(Server!chainVars)
  BY <1>19 DEF TimeoutJob, serverVars
<1>20. ASSUME NEW s \in Session, Age(s) PROVE [Server!Next]_(Server!chainVars)
  BY <1>20 DEF Age, serverVars
<1>21. ASSUME NEW s \in Session, CloseElsewhere(s) PROVE [Server!Next]_(Server!chainVars)
  BY <1>21 DEF CloseElsewhere, Server!Next
<1>22. CASE UNCHANGED vars
  BY <1>22 DEF vars, serverVars
<1>23. ASSUME NEW c \in Call, LoginLands(c) PROVE [Server!Next]_(Server!chainVars)
  BY <1>23 DEF LoginLands, serverVars
<1>24. ASSUME NEW c \in Call, LogoutLands(c) PROVE [Server!Next]_(Server!chainVars)
  BY <1>24 DEF LogoutLands, serverVars
<1>25. ASSUME NEW j \in Job, RenewalLands(j) PROVE [Server!Next]_(Server!chainVars)
  BY <1>25 DEF RenewalLands, serverVars
<1>26. ASSUME NEW j \in Job, RefusalLands(j) PROVE [Server!Next]_(Server!chainVars)
  BY <1>26 DEF RefusalLands, serverVars
<1> QED
  BY <1>1, <1>2, <1>3, <1>4, <1>5, <1>6, <1>7, <1>8, <1>9, <1>10, <1>11, <1>12, <1>13, <1>14,
     <1>15, <1>16, <1>17, <1>18, <1>19, <1>20, <1>21, <1>22, <1>23, <1>24,
     <1>25, <1>26
  DEF Next, ServeCall, DeliverCall, ServeJob, DeliverJob

(* The detailed server behind this browser implements CredentialChain,     *)
(* the promise that SessionTokens is shown to keep.                        *)
THEOREM ServerKeepsItsPromise == Spec => Server!Spec
<1>1. Init => Server!Init
  BY DEF Init
<1> QED
  BY <1>1, ServerStep, Invariance, PTL DEF Spec, Server!Spec
=============================================================================
