---------------------------- MODULE DashboardFeed ----------------------------
(***************************************************************************)
(* The fraud dashboard of one administrator (DashboardPage), fed twice:    *)
(* by a bundle of queries when it is opened or refreshed                   *)
(* (useDashboardData) and by the events the backend pushes over a socket   *)
(* (useFraudSocket, socketService).  Nothing orders the two: an event may  *)
(* be overwritten by a bundle that was read before it, or counted on top   *)
(* of a bundle that already contains it.                                   *)
(*                                                                         *)
(* Payments are stored and announced by createTransaction, which           *)
(* FraudPipeline models in full; here a payment is its status and how far  *)
(* its handler got.  The parts of the page meet in the bundle only, so a   *)
(* behaviour follows one of them, whichever.                               *)
(***************************************************************************)
EXTENDS Naturals, Sequences, FiniteSets

CONSTANTS
  Payments,
  Limits,     \* how many rows a list may keep (100)
  None        \* absent value

Counters == {"openAlerts", "blockedTransactions"}
Lists == {"alerts", "transactions"}
Parts == Counters \cup Lists \cup {"liveEvents"}

VARIABLES
  status,     \* status each payment gets
  stage,      \* how far its handler is: "none", "stored", "alerted" or "done"
  alert,      \* status of its alert
  stored,     \* transactions, newest first
  raised,     \* alerts, newest first
  joined,     \* the page's socket is in the room admin-dashboard
  wire,       \* events sent to the page and not yet handled
  part,       \* the part of the page that is followed
  limit,      \* rows a list keeps, the same throughout
  shown,      \* what it shows
  loading,    \* a bundle is in flight
  found,      \* ... and what its query found; None before that
  untold,     \* (history) payments with a change the page was not sent
  during,     \* (history) payments that moved while the bundle was in flight
  raced       \* (history) payments that moved during the last bundle shown

dbVars == <<status, stage, alert, stored, raised>>
socketVars == <<joined, wire>>
pageVars == <<part, limit, shown, loading, found>>
historyVars == <<untold, during, raced>>
vars == <<dbVars, socketVars, pageVars, historyVars>>

Statuses == {"ALLOWED", "FLAGGED_OTP", "BLOCKED"}
AlertStatuses == {"none", "open", "closed"}   \* open: OPEN or REVIEWING
Kinds == {"fraud-alert", "suspicious-transaction", "blocked-transaction"}
Event == [kind : Kinds, payment : Payments]

Elements(s) == {s[i] : i \in DOMAIN s}
Blocked == {p \in Elements(stored) : status[p] = "BLOCKED"}
Open == {p \in Payments : alert[p] = "open"}

(* limit(100) and slice(0, limit) *)
Newest(s) == SubSeq(s, 1, IF Len(s) < limit THEN Len(s) ELSE limit)

-----------------------------------------------------------------------------
(* The listeners. *)

(* keySelector: an alert is known by its own id, an event on a transaction *)
(* by the transaction's.                                                   *)
Key(item) ==
  IF part = "liveEvents" THEN <<item.payment, item.kind = "fraud-alert">> ELSE item

(* Variant for mutation: the row with the same key stays. *)
MergeUniqueKeepBoth(items, next) == Newest(<<next>> \o items)

(* filter: the rows at the positions kept, in their order (SelectSeq, in a *)
(* form that can be proved about).                                         *)
Filtered(items, kept) ==
  [j \in 1 .. Cardinality(kept) |->
     items[CHOOSE i \in kept : Cardinality(kept \cap (1 .. i)) = j]]

(* mergeUnique: the item replaces the one with its key and goes on top.    *)
MergeUnique(items, next) ==
  Newest(<<next>> \o Filtered(items, {i \in DOMAIN items : Key(items[i]) # Key(next)}))

(* Variant for mutation: a blocked payment is counted with its first event. *)
HandleTwice(event) ==
  CASE part = "openAlerts" -> IF event.kind = "fraud-alert" THEN shown + 1 ELSE shown
    [] part = "blockedTransactions" -> IF event.kind # "fraud-alert" THEN shown + 1 ELSE shown
    [] part = "alerts" ->
         IF event.kind = "fraud-alert" THEN MergeUnique(shown, event.payment) ELSE shown
    [] part = "transactions" ->
         IF event.kind # "fraud-alert" THEN MergeUnique(shown, event.payment) ELSE shown
    [] part = "liveEvents" -> MergeUnique(shown, event)

(* handleFraudAlert, handleSuspiciousTransaction, and                      *)
(* handleBlockedTransaction, which calls the second.                       *)
Handle(event) ==
  CASE part = "openAlerts" -> IF event.kind = "fraud-alert" THEN shown + 1 ELSE shown
    [] part = "blockedTransactions" ->
         IF event.kind = "blocked-transaction" THEN shown + 1 ELSE shown
    [] part = "alerts" ->
         IF event.kind = "fraud-alert" THEN MergeUnique(shown, event.payment) ELSE shown
    [] part = "transactions" ->
         IF event.kind # "fraud-alert" THEN MergeUnique(shown, event.payment) ELSE shown
    [] part = "liveEvents" -> MergeUnique(shown, event)

-----------------------------------------------------------------------------
(* History: what could explain a wrong page. *)

OnWire == {wire[i].payment : i \in DOMAIN wire}

(* Payments whose handler or whose events are still under way. *)
UnderWay == {p \in Payments : stage[p] \in {"stored", "alerted"}} \cup OnWire

(* A payment is stored, announced, reviewed or shown. *)
Moves(p) == during' = IF loading THEN during \cup {p} ELSE during

-----------------------------------------------------------------------------
(* createTransaction and updateAlertStatus, on the server. *)

(* Transaction.create; an allowed payment is only sent as new-transaction, *)
(* to which the page does not listen.                                      *)
Store(p) ==
  /\ stage[p] = "none"
  /\ stage' = [stage EXCEPT ![p] = IF status[p] = "ALLOWED" THEN "done" ELSE "stored"]
  /\ stored' = <<p>> \o stored
  /\ Moves(p)
  /\ UNCHANGED <<status, alert, raised, socketVars, pageVars, untold, raced>>

(* FraudAlert.create *)
Raise(p) ==
  /\ stage[p] = "stored"
  /\ stage' = [stage EXCEPT ![p] = "alerted"]
  /\ alert' = [alert EXCEPT ![p] = "open"]
  /\ raised' = <<p>> \o raised
  /\ Moves(p)
  /\ UNCHANGED <<status, stored, socketVars, pageVars, untold, raced>>

(* Variant for mutation: the blocked event goes out first. *)
EventsReversed(p) ==
  <<[kind |-> "fraud-alert", payment |-> p]>>
    \o (IF status[p] = "BLOCKED" THEN <<[kind |-> "blocked-transaction", payment |-> p]>> ELSE <<>>)
    \o <<[kind |-> "suspicious-transaction", payment |-> p]>>

(* emitFraudAlert, emitSuspiciousTransaction, emitBlockedTransaction       *)
Events(p) ==
  <<[kind |-> "fraud-alert", payment |-> p], [kind |-> "suspicious-transaction", payment |-> p]>>
    \o (IF status[p] = "BLOCKED" THEN <<[kind |-> "blocked-transaction", payment |-> p]>> ELSE <<>>)

(* The alert is read back and the events are sent, in one go, to the room  *)
(* admin-dashboard and nowhere else.                                       *)
Announce(p) ==
  /\ stage[p] = "alerted"
  /\ stage' = [stage EXCEPT ![p] = "done"]
  /\ wire' = IF joined THEN wire \o Events(p) ELSE wire
  /\ untold' = IF joined THEN untold ELSE untold \cup {p}
  /\ Moves(p)
  /\ UNCHANGED <<status, alert, stored, raised, joined, pageVars, raced>>

(* FraudAlert.create or findById throws: the answer is 500, nothing is     *)
(* undone and nothing is sent.                                             *)
HandlerFails(p) ==
  /\ stage[p] \in {"stored", "alerted"}
  /\ stage' = [stage EXCEPT ![p] = "done"]
  /\ untold' = untold \cup {p}
  /\ Moves(p)
  /\ UNCHANGED <<status, alert, stored, raised, socketVars, pageVars, raced>>

(* updateAlertStatus tells no dashboard.  Only the counter of open alerts  *)
(* tells an open alert from a closed one.                                  *)
Review(p) ==
  /\ part = "openAlerts" /\ alert[p] # "none"
  /\ alert' = [alert EXCEPT ![p] = IF alert[p] = "open" THEN "closed" ELSE "open"]
  /\ untold' = untold \cup {p}
  /\ Moves(p)
  /\ UNCHANGED <<status, stage, stored, raised, socketVars, pageVars, raced>>

-----------------------------------------------------------------------------
(* The socket. *)

(* initSocket, handleConnect, joinProtectedRoom: the handshake, then the   *)
(* room.  The page fetches nothing for the time it was away.  A page that  *)
(* is refused (its token was rotated away since it was opened, or its user *)
(* is no administrator), or gave up after eight attempts, never joins.     *)
Join ==
  /\ ~joined
  /\ joined' = TRUE
  /\ UNCHANGED <<dbVars, wire, pageVars, historyVars>>

(* The connection breaks, with what is on it. *)
Drop ==
  /\ joined
  /\ joined' = FALSE /\ wire' = <<>>
  /\ untold' = untold \cup OnWire
  /\ UNCHANGED <<dbVars, pageVars, during, raced>>

(* The page handles the next event. *)
Deliver ==
  /\ wire # <<>>
  /\ wire' = Tail(wire)
  /\ shown' = Handle(Head(wire))
  /\ Moves(Head(wire).payment)
  /\ UNCHANGED <<dbVars, joined, part, limit, loading, found, untold, raced>>

-----------------------------------------------------------------------------
(* The bundle. *)

(* Live events are in no bundle, and no bundle replaces them. *)
InBundle == part # "liveEvents"

(* refresh; the button is disabled while a bundle is in flight. *)
Refresh ==
  /\ ~loading /\ InBundle
  /\ loading' = TRUE /\ during' = UnderWay
  /\ UNCHANGED <<dbVars, socketVars, part, limit, shown, found, untold, raced>>

(* The queries of getFraudStats, getTransactions and getFraudAlerts. *)
Result ==
  CASE part = "openAlerts" -> Cardinality(Open)
    [] part = "blockedTransactions" -> Cardinality(Blocked)
    [] part = "alerts" -> Newest(raised)
    [] part = "transactions" -> Newest(stored)

(* The query of this part reads the database. *)
Query ==
  /\ loading /\ found = None
  /\ found' = Result
  /\ UNCHANGED <<dbVars, socketVars, part, limit, shown, loading, historyVars>>

(* setData(bundle): whatever the part showed is replaced. *)
ShowBundle ==
  /\ loading /\ found # None
  /\ shown' = found
  /\ loading' = FALSE /\ found' = None
  /\ raced' = during /\ during' = {} /\ untold' = {}
  /\ UNCHANGED <<dbVars, socketVars, part, limit>>

Empty == IF part \in Counters THEN 0 ELSE <<>>

(* Promise.all: one failed call fails the bundle, and the data stay.       *)
BundleFails ==
  /\ loading
  /\ loading' = FALSE /\ found' = None /\ during' = {}
  /\ UNCHANGED <<dbVars, socketVars, part, limit, shown, untold, raced>>

-----------------------------------------------------------------------------
Init ==
  /\ status \in [Payments -> Statuses]
  /\ stage = [p \in Payments |-> "none"]
  /\ alert = [p \in Payments |-> "none"]
  /\ stored = <<>> /\ raised = <<>>
  /\ joined = FALSE /\ wire = <<>>
  /\ part \in Parts /\ limit \in Limits /\ shown = Empty /\ loading = InBundle /\ found = None
  /\ untold = {} /\ during = {} /\ raced = {}

Next ==
  \/ \E p \in Payments :
       Store(p) \/ Raise(p) \/ Announce(p) \/ HandlerFails(p) \/ Review(p)
  \/ Join \/ Drop \/ Deliver
  \/ Refresh \/ Query \/ ShowBundle \/ BundleFails

Spec == Init /\ [][Next]_vars

-----------------------------------------------------------------------------
(* Properties. *)

ListsOf(S) == UNION {[1 .. n -> S] : n \in 0 .. limit}

Value ==
  CASE part \in Counters -> Nat
    [] part \in Lists -> ListsOf(Payments)
    [] OTHER -> ListsOf(Event)

TypeOK ==
  /\ status \in [Payments -> Statuses]
  /\ stage \in [Payments -> {"none", "stored", "alerted", "done"}]
  /\ alert \in [Payments -> AlertStatuses]
  /\ Elements(stored) \subseteq Payments /\ Elements(raised) \subseteq Payments
  /\ joined \in BOOLEAN
  /\ Elements(wire) \subseteq Event
  /\ part \in Parts /\ limit \in Limits /\ shown \in Value /\ loading \in BOOLEAN /\ found \in Value \cup {None}
  /\ untold \cup during \cup raced \subseteq Payments

(* The page was sent all there is about a payment, outside any bundle. *)
Told(p) == p \notin untold \cup raced

Times(s, p) == Cardinality({i \in DOMAIN s : s[i] = p})

(* However bundles and events interleave, no payment has two rows, and one *)
(* the page was told of is in its lists, unless newer rows filled them.    *)
SuspicionIsShownOnce ==
  part \in Lists =>
    /\ \A p \in Payments : Times(shown, p) <= 1
    /\ \A p \in Elements(raised) :
         p \notin UnderWay /\ Told(p) => Times(shown, p) = 1 \/ Len(shown) = limit

(* The counters, which are incremented and never recounted, are right but  *)
(* for the payments the page was not told of and those a bundle raced      *)
(* with; a race counts a payment twice at most.                            *)
CountersDriftOnlyByRaces ==
  UnderWay = {} =>
    /\ part = "blockedTransactions" =>
         /\ shown >= Cardinality({p \in Blocked : Told(p)})
         /\ shown <= Cardinality(Blocked) + Cardinality(Blocked \cap raced)
    /\ part = "openAlerts" =>
         /\ shown >= Cardinality({p \in Open : Told(p)})
         /\ shown <= Cardinality({p \in Payments : alert[p] # "none" /\ (p \in Open \/ ~Told(p))})
                       + Cardinality({p \in raced : alert[p] # "none"})

(* The live stream never leaves a blocked payment marked as merely         *)
(* suspicious, unless the connection broke between its two events.         *)
BlockedIsSaid ==
  part = "liveEvents" =>
    \A i \in DOMAIN shown :
      LET p == shown[i].payment
      IN  shown[i].kind = "suspicious-transaction" /\ status[p] = "BLOCKED" =>
            p \in UnderWay \cup untold
=============================================================================
