---------------------------- MODULE LoginLockout ----------------------------
(***************************************************************************)
(* Login throttling and account lockout: assertLoginAllowed,               *)
(* registerFailedLogin and recordSuccessfulLogin as the login handler runs *)
(* them, for several attempts in flight at one time.                       *)
(*                                                                         *)
(* Three counters watch an attempt: the user document ("account"), the     *)
(* LoginThrottle document of the e-mail ("user") and the one of the client *)
(* address ("ip").  All three are read in one database operation and       *)
(* written, from what was read, in a later one; the account counter is     *)
(* read when the handler starts and written when it ends.                  *)
(***************************************************************************)
EXTENDS Naturals

CONSTANTS
  Email,         \* e-mails that log in
  Registered,    \* those that belong to a user document
  Address,       \* client addresses
  Attempt,       \* handler slots: attempts being served at one time
  None,          \* absent value
  Threshold,     \* LOGIN_FAILURE_THRESHOLD
  LockBase,      \* LOGIN_LOCKOUT_BASE_MS, in ticks
  LockMax,       \* LOGIN_LOCKOUT_MAX_MS, in ticks
  ResetAfter,    \* LOGIN_THROTTLE_RESET_MS, in ticks
  MaxTime,       \* bound on the clock
  MaxFailures,   \* bound on the wrong passwords tried per e-mail and address
  MaxCrashes     \* bound on how often the Node process dies between two steps

ASSUME EmailAssumption == Registered \subseteq Email
ASSUME NoneAssumption == None \notin Email /\ None \notin Address
ASSUME ConfigAssumption ==
  /\ Threshold \in Nat \ {0} /\ LockBase \in Nat \ {0} /\ LockMax \in Nat \ {0}
  /\ ResetAfter \in Nat /\ MaxTime \in Nat /\ MaxFailures \in Nat
  /\ MaxCrashes \in Nat
(* An arithmetic fact the provers do not know. *)
ASSUME PowerAssumption == \A n \in 0 .. (LockMax - 1) : 2 ^ n \in Nat

VARIABLES
  counter,   \* the three kinds of counter, by kind and e-mail or address
  attempt,   \* what each handler slot is doing, with its local snapshots
  now,       \* the clock
  failures,  \* history: wrong passwords counted against each counter
  streak,    \* history: those since the counter last locked or was reset
  told,      \* history: <<e-mail, deadline>> of the account locks answered
  overlapped, \* history: counters that two attempts in flight at once concerned
  crashes     \* how often the process has died

vars == <<counter, attempt, now, failures, streak, told, overlapped, crashes>>

Kind == {"account", "user", "ip"}
Throttle == {"user", "ip"}

Counter == ({"account", "user"} \X Email) \cup ({"ip"} \X Address)

(* A deadline of 0 is "never locked". *)
CounterDoc ==
  [failed    : 0 .. (Threshold - 1),    \* failedLoginAttempts, attempts
   offenses  : Nat,                     \* accountLockoutCount, offenseCount
   lockUntil : 0 .. (MaxTime + LockMax),
   last      : 0 .. MaxTime]            \* lastFailedLoginAt, lastAttemptAt

AttemptState ==
  [at      : {"idle", "check", "record", "succeed"},
   email   : Email \cup {None},
   address : Address \cup {None},
   right   : BOOLEAN,                   \* whether the password is the user's
   reads   : SUBSET Kind,               \* counters still to read
   writes  : SUBSET Kind,               \* counters still to write
   plan    : [Kind -> CounterDoc]]      \* what was read, or is about to be written

Zero == [failed |-> 0, offenses |-> 0, lockUntil |-> 0, last |-> 0]
Unread == [k \in Kind |-> Zero]
Idle == [at |-> "idle", email |-> None, address |-> None, right |-> FALSE,
         reads |-> {}, writes |-> {}, plan |-> Unread]

TypeOK ==
  /\ counter \in [Counter -> CounterDoc]
  /\ attempt \in [Attempt -> AttemptState]
  /\ now \in 0 .. MaxTime
  /\ failures \in [Counter -> Nat]
  /\ streak \in [Counter -> Nat]
  /\ told \in SUBSET (Email \X (0 .. (MaxTime + LockMax)))
  /\ overlapped \subseteq Counter
  /\ crashes \in 0 .. MaxCrashes

Init ==
  /\ counter = [c \in Counter |-> Zero]
  /\ attempt = [a \in Attempt |-> Idle]
  /\ now = 0
  /\ failures = [c \in Counter |-> 0]
  /\ streak = [c \in Counter |-> 0]
  /\ told = {}
  /\ overlapped = {}
  /\ crashes = 0

-----------------------------------------------------------------------------
(* Helpers. *)

(* The counter of kind k that attempt a concerns. *)
KeyOf(a, k) == IF k = "ip" THEN <<k, attempt[a].address>> ELSE <<k, attempt[a].email>>

(* The counters an attempt in flight concerns. *)
Concerned(a) == IF attempt[a] = Idle THEN {} ELSE {KeyOf(a, k) : k \in Kind}

Locked(doc) == doc.lockUntil > now

(* calculateLockUntil: the lock doubles with each offense, up to LockMax,  *)
(* which it has reached after LockMax offenses if not before.              *)
LockFor(offenses) ==
  LET progressive == LockBase * 2 ^ (offenses - 1)
  IN  IF offenses <= LockMax /\ progressive < LockMax THEN progressive ELSE LockMax

(* resetStaleAttempts: a throttle forgets failures (and its lock), not offenses. *)
WithoutStale(doc) ==
  IF now - doc.last > ResetAfter THEN [doc EXCEPT !.failed = 0, !.lockUntil = 0] ELSE doc

(* Variant for mutation: the comparison with the threshold is strict. *)
AfterFailureLate(doc) ==
  IF doc.failed + 1 > Threshold
  THEN [failed |-> 0, offenses |-> doc.offenses + 1,
        lockUntil |-> now + LockFor(doc.offenses + 1), last |-> now]
  ELSE [doc EXCEPT !.failed = @ + 1, !.last = now]

(* Variant for mutation: locking does not restart the count. *)
AfterFailureNoRestart(doc) ==
  IF doc.failed + 1 >= Threshold
  THEN [doc EXCEPT !.offenses = @ + 1, !.lockUntil = now + LockFor(doc.offenses + 1),
                   !.last = now]
  ELSE [doc EXCEPT !.failed = @ + 1, !.last = now]

(* The document one more failure leaves; it locks at the threshold. *)
AfterFailure(doc) ==
  IF doc.failed + 1 >= Threshold
  THEN [failed |-> 0, offenses |-> doc.offenses + 1,
        lockUntil |-> now + LockFor(doc.offenses + 1), last |-> now]
  ELSE [doc EXCEPT !.failed = @ + 1, !.last = now]

(* Whether the failure that produced doc locked the counter. *)
JustLocked(doc) == doc.failed = 0

-----------------------------------------------------------------------------
(* The login handler. *)

(* User.findOne: the account counter is read here and never again. *)
Arrive(a, e, addr, right) ==
  /\ attempt[a] = Idle
  /\ right => e \in Registered
  /\ ~right => failures[<<"user", e>>] < MaxFailures /\ failures[<<"ip", addr>>] < MaxFailures
  /\ attempt' = [attempt EXCEPT ![a] =
       [at |-> "check", email |-> e, address |-> addr, right |-> right,
        reads |-> Throttle, writes |-> {},
        plan |-> [Unread EXCEPT !["account"] = counter[<<"account", e>>]]]]
  /\ overlapped' = overlapped \cup
       ({<<"account", e>>, <<"user", e>>, <<"ip", addr>>}
          \cap UNION {Concerned(b) : b \in Attempt})
  /\ UNCHANGED <<counter, now, failures, streak, told, crashes>>

(* getThrottleStatus: the two throttle documents are read in either order; *)
(* only their locks matter.                                                *)
CheckThrottle(a, k) ==
  /\ attempt[a].at = "check" /\ k \in attempt[a].reads
  /\ attempt' = [attempt EXCEPT ![a].reads = @ \ {k},
                                ![a].plan[k].lockUntil = counter[KeyOf(a, k)].lockUntil]
  /\ UNCHANGED <<counter, now, failures, streak, told, overlapped, crashes>>

Checked(a) == attempt[a].at = "check" /\ attempt[a].reads = {}
Throttled(a) == \E k \in Throttle : Locked(attempt[a].plan[k])

(* 429, or 423 with the deadline of the account lock. *)
Refuse(a) ==
  LET account == attempt[a].plan["account"] IN
  /\ Checked(a)
  /\ Throttled(a) \/ Locked(account)
  /\ told' = IF Throttled(a) THEN told
             ELSE told \cup {<<attempt[a].email, account.lockUntil>>}
  /\ attempt' = [attempt EXCEPT ![a] = Idle]
  /\ UNCHANGED <<counter, now, failures, streak, overlapped, crashes>>

(* Variant for mutation: the lock of the user document is not looked at. *)
AdmittedUnlessThrottled(a) == Checked(a) /\ ~Throttled(a)

Admitted(a) ==
  /\ Checked(a)
  /\ ~Throttled(a) /\ ~Locked(attempt[a].plan["account"])

WrongPassword(a) ==
  /\ Admitted(a) /\ ~attempt[a].right
  /\ attempt' = [attempt EXCEPT ![a].at = "record", ![a].reads = Throttle,
       ![a].plan = [Unread EXCEPT !["account"] = attempt[a].plan["account"]]]
  /\ UNCHANGED <<counter, now, failures, streak, told, overlapped, crashes>>

(* recordThrottleFailure reads, and decides what it will write. *)
ReadThrottle(a, k) ==
  LET c == KeyOf(a, k) IN
  /\ attempt[a].at = "record" /\ k \in attempt[a].reads
  /\ attempt' = [attempt EXCEPT ![a].reads = @ \ {k}, ![a].writes = @ \cup {k},
                                ![a].plan[k] = AfterFailure(WithoutStale(counter[c]))]
  /\ failures' = [failures EXCEPT ![c] = @ + 1]
  /\ UNCHANGED <<counter, now, streak, told, overlapped, crashes>>

Forgotten(c) == c[1] # "account" /\ now - counter[c].last > ResetAfter

(* A failure was written to c: did it lock, restart or lengthen the streak? *)
Lengthen(c, doc) ==
  streak' = [streak EXCEPT ![c] =
    IF JustLocked(doc) THEN 0 ELSE IF Forgotten(c) THEN 1 ELSE @ + 1]

(* The upsert overwrites every field with what was decided at the read. *)
WriteThrottle(a, k) ==
  LET c == KeyOf(a, k) IN
  /\ attempt[a].at = "record" /\ k \in attempt[a].writes
  /\ counter' = [counter EXCEPT ![c] = attempt[a].plan[k]]
  /\ Lengthen(c, attempt[a].plan[k])
  /\ attempt' = [attempt EXCEPT ![a].writes = @ \ {k}, ![a].plan[k] = Zero]
  /\ UNCHANGED <<now, failures, told, overlapped, crashes>>

(* recordUserFailure writes from the snapshot taken on arrival, then 423,  *)
(* 429 or 401 is answered.                                                 *)
FailAccountAndAnswer(a) ==
  LET c == KeyOf(a, "account")
      doc == AfterFailure(attempt[a].plan["account"])
  IN
  /\ attempt[a].at = "record" /\ attempt[a].reads = {} /\ attempt[a].writes = {}
  /\ \/ /\ attempt[a].email \in Registered
        /\ counter' = [counter EXCEPT ![c] = doc]
        /\ failures' = [failures EXCEPT ![c] = @ + 1]
        /\ Lengthen(c, doc)
        /\ told' = IF JustLocked(doc) THEN told \cup {<<attempt[a].email, doc.lockUntil>>}
                   ELSE told
     \/ /\ attempt[a].email \notin Registered
        /\ UNCHANGED <<counter, failures, streak, told>>
  /\ attempt' = [attempt EXCEPT ![a] = Idle]
  /\ UNCHANGED <<now, overlapped, crashes>>

(* scoreRisk blocks the session of a right password: 403, nothing is reset. *)
BlockForRisk(a) ==
  /\ Admitted(a) /\ attempt[a].right
  /\ attempt' = [attempt EXCEPT ![a] = Idle]
  /\ UNCHANGED <<counter, now, failures, streak, told, overlapped, crashes>>

RightPassword(a) ==
  /\ Admitted(a) /\ attempt[a].right
  /\ attempt' = [attempt EXCEPT ![a].at = "succeed", ![a].writes = {"user", "account"},
                                ![a].plan = Unread]
  /\ UNCHANGED <<counter, now, failures, streak, told, overlapped, crashes>>

(* Variant for mutation: a success pardons the throttle's offenses too. *)
ResetCounterWhole(a, k) ==
  LET c == KeyOf(a, k) IN
  /\ attempt[a].at = "succeed" /\ k \in attempt[a].writes
  /\ counter' = [counter EXCEPT ![c] = Zero]
  /\ streak' = [streak EXCEPT ![c] = 0]
  /\ attempt' = [attempt EXCEPT ![a].writes = @ \ {k}]
  /\ UNCHANGED <<now, failures, told, overlapped, crashes>>

(* recordSuccessfulLogin: the throttle keeps its offenses, the account does not. *)
ResetCounter(a, k) ==
  LET c == KeyOf(a, k) IN
  /\ attempt[a].at = "succeed" /\ k \in attempt[a].writes
  /\ counter' = [counter EXCEPT ![c].failed = 0, ![c].lockUntil = 0,
                                ![c].offenses = IF k = "account" THEN 0 ELSE @]
  /\ streak' = [streak EXCEPT ![c] = 0]
  /\ attempt' = [attempt EXCEPT ![a].writes = @ \ {k}]
  /\ UNCHANGED <<now, failures, told, overlapped, crashes>>

AnswerSuccess(a) ==
  /\ attempt[a].at = "succeed" /\ attempt[a].writes = {}
  /\ attempt' = [attempt EXCEPT ![a] = Idle]
  /\ UNCHANGED <<counter, now, failures, streak, told, overlapped, crashes>>

-----------------------------------------------------------------------------
(* The environment. *)

Tick ==
  /\ now < MaxTime
  /\ now' = now + 1
  /\ UNCHANGED <<counter, attempt, failures, streak, told, overlapped, crashes>>

Crash ==
  /\ crashes < MaxCrashes
  /\ crashes' = crashes + 1
  /\ attempt' = [a \in Attempt |-> Idle]
  /\ UNCHANGED <<counter, now, failures, streak, told, overlapped>>

Serve(a) ==
  \/ \E k \in Throttle : CheckThrottle(a, k) \/ ReadThrottle(a, k) \/ WriteThrottle(a, k)
  \/ \E k \in {"account", "user"} : ResetCounter(a, k)
  \/ Refuse(a) \/ WrongPassword(a) \/ FailAccountAndAnswer(a)
  \/ BlockForRisk(a) \/ RightPassword(a) \/ AnswerSuccess(a)

Next ==
  \/ \E a \in Attempt, e \in Email, addr \in Address, right \in BOOLEAN :
       Arrive(a, e, addr, right)
  \/ \E a \in Attempt : Serve(a)
  \/ Tick
  \/ Crash

Spec == Init /\ [][Next]_vars

-----------------------------------------------------------------------------
(* Properties. *)

(* However attempts overlap, a counter never holds more than the wrong     *)
(* passwords actually counted against it, so no lock comes early: a lost   *)
(* update only forgets failures, it never invents one.                     *)
LocksAreEarned ==
  \A c \in Counter : Threshold * counter[c].offenses + counter[c].failed <= failures[c]

(* While attempts against a counter come one at a time, it locks with its  *)
(* Threshold-th failure in a row at the latest, crashes included.          *)
SerialLocksAtThreshold ==
  \A c \in Counter \ overlapped : streak[c] < Threshold

(* While the attempts at an account come one at a time, a client told that *)
(* it is locked until d finds it so until d.                               *)
SerialLockHolds ==
  \A t \in told : (<<"account", t[1]>> \notin overlapped /\ now < t[2])
    => counter[<<"account", t[1]>>].lockUntil >= t[2]

(* Short of overlapping attempts, a throttle's offenses never drop, not    *)
(* even with a right password: the punishment is progressive.              *)
SerialOffensesNeverDrop ==
  [][\A c \in Counter : (c[1] # "account" /\ c \notin overlapped)
       => counter'[c].offenses >= counter[c].offenses]_vars
=============================================================================
