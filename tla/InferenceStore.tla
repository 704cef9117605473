---------------------------- MODULE InferenceStore ----------------------------
(***************************************************************************)
(* What the AI engine keeps of the payments it has scored                  *)
(* (record_inference): a line in the inference log, the customer's latest  *)
(* features in the online store, a row of the offline store.  The three    *)
(* files are written one after the other under _PLATFORM_LOCK; each write  *)
(* may fail, or the process die in it, and leave its file half written.    *)
(*                                                                         *)
(* A failure is swallowed: the payment's score is answered all the same.   *)
(***************************************************************************)
EXTENDS Naturals, SequencesExt

CONSTANTS
  Customer,
  Number,     \* a record is named by its customer and a number
  Thread,     \* worker threads of the process
  None,       \* absent value
  Torn,       \* content of a file that was not written to its end
  MaxBreaks   \* bound on the writes that fail and the crashes

VARIABLES
  log,      \* inference_log.jsonl
  online,   \* online_feature_store.json: the last record of each customer
  offline,  \* offline_feature_store.csv
  lock,     \* the thread that holds _PLATFORM_LOCK
  thread,   \* what each thread is doing
  breaks,   \* failed writes and crashes so far
  logged,   \* (history) records whose line was written, in that order
  done,     \* (history) records all of whose writes were
  lasting   \* (history) those of them the online store should still know

vars == <<log, online, offline, lock, thread, breaks, logged, done, lasting>>

Record == Customer \X Number
Line == [holds : Record \cup {None}, ended : BOOLEAN]
Store == [Customer -> Record \cup {None}]
NoStore == [c \in Customer |-> None]
Idle == [at |-> "idle", record |-> None, copy |-> NoStore]

ThreadState ==
  [at : {"idle", "lock", "log", "online", "saveOnline", "offline"},
   record : Record \cup {None},
   copy : Store]

TypeOK ==
  /\ \A s \in {log, offline} : Range(s) \subseteq Line
  /\ online \in Store \cup {Torn}
  /\ lock \in Thread \cup {None}
  /\ thread \in [Thread -> ThreadState]
  /\ breaks \in 0 .. MaxBreaks
  /\ Range(logged) \subseteq Record
  /\ lasting \subseteq done /\ done \subseteq Range(logged)

Init ==
  /\ log = <<>> /\ online = NoStore /\ offline = <<>>
  /\ lock = None
  /\ thread = [t \in Thread |-> Idle]
  /\ breaks = 0
  /\ logged = <<>> /\ done = {} /\ lasting = {}

-----------------------------------------------------------------------------
(* Files. *)

(* A line is appended where the file ends.  After a line that was cut off  *)
(* it becomes part of that line, and neither can be read any more.         *)
Appended(file, line) ==
  IF file # <<>> /\ ~Last(file).ended
  THEN Front(file) \o <<[line EXCEPT !.holds = None]>>
  ELSE Append(file, line)

Whole(r) == [holds |-> r, ended |-> TRUE]

(* What a write that breaks off may leave: nothing, a part of the line, or *)
(* all of it without its end.                                              *)
CutOff(file, r) ==
  {file} \cup {Appended(file, [holds |-> h, ended |-> FALSE]) : h \in {None, r}}

(* Variant for mutation: reading ends at the first line that is damaged. *)
ReadableUpToDamage(file) ==
  {file[i].holds : i \in {j \in DOMAIN file : \A k \in 1 .. j : file[k].holds # None}}

(* _read_jsonl skips the lines it cannot parse. *)
Readable(file) == {file[i].holds : i \in DOMAIN file} \ {None}

(* _read_json: a file that cannot be parsed counts as empty. *)
StoreRead == IF online = Torn THEN NoStore ELSE online

-----------------------------------------------------------------------------
(* record_inference, called by predict_transaction_fraud once the payment  *)
(* is scored.                                                              *)

Step(t, at) == thread' = [thread EXCEPT ![t].at = at]

Score(t, r) ==
  /\ thread[t] = Idle
  /\ r \notin Range(logged) /\ \A u \in Thread : thread[u].record # r
  /\ r \notin Readable(log)
  /\ thread' = [thread EXCEPT ![t].at = "lock", ![t].record = r]
  /\ UNCHANGED <<log, online, offline, lock, breaks, logged, done, lasting>>

(* Variant for mutation: nobody waits for the lock. *)
LockAtOnce(t) ==
  /\ thread[t].at = "lock"
  /\ lock' = t
  /\ Step(t, "log")
  /\ UNCHANGED <<log, online, offline, breaks, logged, done, lasting>>

Lock(t) ==
  /\ thread[t].at = "lock" /\ lock = None
  /\ lock' = t
  /\ Step(t, "log")
  /\ UNCHANGED <<log, online, offline, breaks, logged, done, lasting>>

(* _append_jsonl *)
AppendLog(t) ==
  /\ thread[t].at = "log"
  /\ log' = Appended(log, Whole(thread[t].record))
  /\ logged' = Append(logged, thread[t].record)
  /\ Step(t, "online")
  /\ UNCHANGED <<online, offline, lock, breaks, done, lasting>>

(* _update_online_feature_store reads the whole store, changes the entry   *)
(* of the customer and opens the file again to write it.                   *)
OpenOnline(t) ==
  LET r == thread[t].record IN
  /\ thread[t].at = "online"
  /\ thread' = [thread EXCEPT ![t].at = "saveOnline", ![t].copy = [StoreRead EXCEPT ![r[1]] = r]]
  /\ online' = Torn
  /\ UNCHANGED <<log, offline, lock, breaks, logged, done, lasting>>

SaveOnline(t) ==
  /\ thread[t].at = "saveOnline"
  /\ online' = thread[t].copy
  /\ Step(t, "offline")
  /\ UNCHANGED <<log, offline, lock, breaks, logged, done, lasting>>

(* _append_offline_feature_store, and the lock is released. *)
AppendOffline(t) ==
  LET r == thread[t].record IN
  /\ thread[t].at = "offline"
  /\ offline' = Appended(offline, Whole(r))
  /\ lock' = None
  /\ thread' = [thread EXCEPT ![t] = Idle]
  /\ done' = done \cup {r} /\ lasting' = lasting \cup {r}
  /\ UNCHANGED <<log, online, breaks, logged>>

-----------------------------------------------------------------------------
(* Failures. *)

(* The write thread t is at breaks off.  A store caught in the middle of a *)
(* write is lost.                                                          *)
BreaksOff(t) ==
  /\ breaks < MaxBreaks
  /\ breaks' = breaks + 1
  /\ lock' = None
  /\ log' \in IF thread[t].at = "log" THEN CutOff(log, thread[t].record) ELSE {log}
  /\ offline' \in IF thread[t].at = "offline" THEN CutOff(offline, thread[t].record) ELSE {offline}
  /\ lasting' = IF online = Torn THEN {} ELSE lasting
  /\ UNCHANGED <<online, logged, done>>

(* The exception that predict_transaction_fraud swallows. *)
RecordFails(t) ==
  /\ lock = t
  /\ BreaksOff(t)
  /\ thread' = [thread EXCEPT ![t] = Idle]

(* The process dies, whatever its threads were doing. *)
Crash ==
  /\ lock # None
  /\ BreaksOff(lock)
  /\ thread' = [t \in Thread |-> Idle]

Next ==
  \/ \E t \in Thread, r \in Record : Score(t, r)
  \/ \E t \in Thread :
       \/ Lock(t) \/ AppendLog(t) \/ OpenOnline(t) \/ SaveOnline(t) \/ AppendOffline(t)
       \/ RecordFails(t)
  \/ Crash

Spec == Init /\ [][Next]_vars

-----------------------------------------------------------------------------
(* Properties. *)

(* A write that breaks off costs at most one other record: of all records  *)
(* that were written, no more are missing from the histories than writes   *)
(* broke off, wherever they did.                                           *)
RecordsAreKept ==
  Cardinality(Range(logged) \ Readable(log)) + Cardinality(done \ Readable(offline)) <= breaks

(* Records of customer c, by when they were logged. *)
Follows(r, q) ==
  \E i, j \in DOMAIN logged : i <= j /\ logged[i] = q /\ logged[j] = r

(* However scorings overlap, the online store knows the customer's latest  *)
(* record, or a later one, of all that were recorded since it was last     *)
(* damaged: no update of another customer is lost, and none comes late.    *)
OnlineIsLatest ==
  lock = None =>
    \A r \in lasting : online # Torn /\ online[r[1]] # None /\ Follows(online[r[1]], r)
=============================================================================
