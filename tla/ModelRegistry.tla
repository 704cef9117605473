---------------------------- MODULE ModelRegistry ----------------------------
(***************************************************************************)
(* The AI engine's model registry: training, promotion and rollback by the *)
(* threads of one process, the JSON file they keep the registry in, the    *)
(* model file, the copies kept of each version, the artifact that is       *)
(* served, and the process that dies and starts again, perhaps configured  *)
(* with another version.                                                   *)
(*                                                                         *)
(* An artifact stands for its modelVersion.  A file being written is Torn: *)
(* both the registry and the model file are opened, truncated and written  *)
(* in place, so a process that dies there leaves it so.                    *)
(***************************************************************************)
EXTENDS Naturals, Sequences

CONSTANTS
  Version,    \* model versions
  Thread,     \* worker threads of the process
  None,       \* absent value
  Torn        \* content of a file that was not written to its end

ASSUME ThreadAssumption == None \notin Thread

VARIABLES
  registry,      \* model_registry.json
  file,          \* the model file (settings.model_path)
  copies,        \* model_versions/<version>.joblib
  served,        \* _MODEL_ARTIFACT; None while the process is down
  configured,    \* settings.model_version of the process
  platformLock,  \* the thread that holds _PLATFORM_LOCK
  modelLock,     \* the thread that holds _MODEL_LOCK
  thread,        \* what each thread is doing, with its local values
  promised       \* history: the version last promoted or rolled back to

vars == <<registry, file, copies, served, configured, platformLock, modelLock,
          thread, promised>>

(* models lists the records in order; stage says what each of them claims. *)
Registry ==
  [champion   : Version,
   challenger : Version \cup {None},
   models     : Seq(Version),
   stage      : [Version -> {"champion", "challenger"}]]

(* The absent value and a torn file are no version and no registry. *)
ASSUME ValueAssumption ==
  /\ None # Torn
  /\ None \notin Version \cup Registry /\ Torn \notin Version \cup Registry

Operation == {"train", "retrain", "promote", "rollback", "look"}

(* Where a thread is; from "ensure" on it holds _PLATFORM_LOCK. *)
Point == {"idle", "wait", "fit", "dump", "publish", "lock",
          "ensure", "saveEnsured", "apply", "reenter", "saveApplied"}

ThreadState ==
  [op     : Operation \cup {"none"},
   at     : Point,
   target : Version \cup {None},      \* the version named or trained
   mixed  : BOOLEAN,                  \* its dump overlapped another one
   copy   : Registry \cup {None}]     \* the registry as this thread has changed it

Idle == [op |-> "none", at |-> "idle", target |-> None, mixed |-> FALSE, copy |-> None]

Listed(reg) == {reg.models[i] : i \in DOMAIN reg.models}
Whole == registry # None /\ registry # Torn
Up == served # None
At(t, step) == thread[t].at = step
Dumping(t) == At(t, "dump")

TypeOK ==
  /\ registry \in Registry \cup {None, Torn}
  /\ file \in Version \cup {None, Torn}
  /\ copies \in [Version -> Version \cup {None, Torn}]
  /\ served \in Version \cup {None}
  /\ configured \in Version \cup {None}
  /\ platformLock \in Thread \cup {None} /\ modelLock \in Thread \cup {None}
  /\ thread \in [Thread -> ThreadState]
  /\ promised \in Version \cup {None}

Init ==
  /\ registry = None
  /\ file = None
  /\ copies = [v \in Version |-> None]
  /\ served = None
  /\ configured = None
  /\ platformLock = None /\ modelLock = None
  /\ thread = [t \in Thread |-> Idle]
  /\ promised = None

-----------------------------------------------------------------------------
(* The registry as a value. *)

(* The registry that is built when there is none to read. *)
NewRegistry(v) ==
  [champion |-> v, challenger |-> None, models |-> <<v>>,
   stage |-> [x \in Version |-> IF x = v THEN "champion" ELSE "challenger"]]

WithModel(reg, v) ==
  IF v \in Listed(reg) THEN reg
  ELSE [reg EXCEPT !.models = Append(@, v), !.stage[v] = "challenger"]

(* ensure_model_registry for the artifact of version v; a file that cannot *)
(* be parsed counts as none.                                               *)
Ensured(reg, v) ==
  IF reg \in {None, Torn} THEN NewRegistry(v) ELSE WithModel(reg, v)

(* Variant for mutation: a version that is trained again gets a second record. *)
RegisteredTwice(reg, v) ==
  [reg EXCEPT !.models = Append(@, v), !.stage[v] = "challenger"]

(* register_trained_model with stage "challenger": the record of a version *)
(* that is trained again becomes a challenger's, the champion's too.       *)
Registered(reg, v) ==
  [WithModel(reg, v) EXCEPT
     !.stage[v] = "challenger",
     !.challenger = IF @ = None THEN v ELSE @]

(* promote_model *)
Promoted(reg, v) ==
  [reg EXCEPT !.champion = v, !.challenger = None,
              !.stage = [x \in Version |-> IF x = v THEN "champion" ELSE "challenger"]]

(* Variant for mutation: the last model, whether it is the champion or not. *)
RollbackTargetLast(reg) ==
  IF Len(reg.models) < 2 THEN None ELSE reg.models[Len(reg.models)]

(* rollback_model without a target: the last model that is not the champion. *)
RollbackTarget(reg) ==
  LET challengers == {i \in DOMAIN reg.models : reg.models[i] # reg.champion}
  IN  IF challengers = {} THEN None
      ELSE reg.models[CHOOSE i \in challengers : \A j \in challengers : j <= i]

(* Variant for mutation: the record is built without the copy. *)
WithoutCopy(v) == copies

(* _build_model_record copies the model file, whatever is in it at the     *)
(* time, unless the version has a copy.                                    *)
WithCopy(v) ==
  IF copies[v] = None THEN [copies EXCEPT ![v] = file] ELSE copies

-----------------------------------------------------------------------------
(* The requests. *)

Step(t, at) == thread' = [thread EXCEPT ![t].at = at]

(* Where a request of each kind starts. *)
Entry(op) == IF op = "train" THEN "wait" ELSE IF op = "retrain" THEN "fit" ELSE "lock"

Begin(t, op, v) ==
  /\ Up /\ thread[t] = Idle
  /\ op \in {"train", "retrain", "look"} => v = None
  /\ op = "promote" => v # None
  /\ thread' = [thread EXCEPT ![t] =
       [op |-> op, at |-> Entry(op), target |-> v, mixed |-> FALSE, copy |-> None]]
  /\ UNCHANGED <<registry, file, copies, served, configured, platformLock, modelLock, promised>>

(* refresh_model_artifact trains under _MODEL_LOCK; trigger_retraining     *)
(* trains without it.                                                      *)
LockModel(t) ==
  /\ At(t, "wait") /\ modelLock = None
  /\ modelLock' = t
  /\ Step(t, "fit")
  /\ UNCHANGED <<registry, file, copies, served, configured, platformLock, promised>>

(* joblib.dump truncates the file and writes it; dumps that overlap write  *)
(* into one another.                                                       *)
BeginDump(t) ==
  LET overlapping == {u \in Thread : Dumping(u)} IN
  /\ At(t, "fit")
  /\ file' = Torn
  /\ thread' = [u \in Thread |->
       IF u = t THEN [thread[t] EXCEPT !.at = "dump", !.target = configured,
                                       !.mixed = overlapping # {}]
       ELSE IF u \in overlapping THEN [thread[u] EXCEPT !.mixed = TRUE] ELSE thread[u]]
  /\ UNCHANGED <<registry, copies, served, configured, platformLock, modelLock, promised>>

EndDump(t) ==
  /\ Dumping(t)
  /\ file' \in (IF \E u \in Thread \ {t} : Dumping(u) THEN {Torn}
                ELSE IF thread[t].mixed THEN {Torn, thread[t].target} ELSE {thread[t].target})
  /\ thread' = [thread EXCEPT ![t].mixed = FALSE,
                  ![t].at = IF thread[t].op = "train" THEN "publish" ELSE "lock"]
  /\ UNCHANGED <<registry, copies, served, configured, platformLock, modelLock, promised>>

Publish(t) ==
  /\ At(t, "publish")
  /\ served' = thread[t].target
  /\ modelLock' = None
  /\ Step(t, "lock")
  /\ UNCHANGED <<registry, file, copies, configured, platformLock, promised>>

-----------------------------------------------------------------------------
(* The registry operations, under _PLATFORM_LOCK. *)

(* Variant for mutation: nobody waits for the lock. *)
LockPlatformAtOnce(t) ==
  /\ At(t, "lock")
  /\ platformLock' = t
  /\ Step(t, "ensure")
  /\ UNCHANGED <<registry, file, copies, served, configured, modelLock, promised>>

LockPlatform(t) ==
  /\ At(t, "lock") /\ platformLock = None
  /\ platformLock' = t
  /\ Step(t, "ensure")
  /\ UNCHANGED <<registry, file, copies, served, configured, modelLock, promised>>

(* The artifact handed over by a training, else the one that is served. *)
Current(t) == IF thread[t].op \in {"train", "retrain"} THEN thread[t].target ELSE served

(* ensure_model_registry reads the file and completes what it read. *)
Ensure(t) ==
  LET reg == Ensured(registry, Current(t)) IN
  /\ At(t, "ensure")
  /\ thread' = [thread EXCEPT ![t].copy = reg,
                  ![t].at = IF reg = registry THEN "apply" ELSE "saveEnsured"]
  /\ copies' = IF reg = registry THEN copies ELSE WithCopy(Current(t))
  /\ registry' = IF reg = registry THEN registry ELSE Torn     \* the write begins
  /\ UNCHANGED <<file, served, configured, platformLock, modelLock, promised>>

EndSaveEnsured(t) ==
  /\ At(t, "saveEnsured")
  /\ registry' = thread[t].copy
  /\ Step(t, "apply")
  /\ UNCHANGED <<file, copies, served, configured, platformLock, modelLock, promised>>

(* What the operation does to the registry it has; the write begins. *)
Save(t, reg) ==
  /\ registry' = Torn
  /\ thread' = [thread EXCEPT ![t].copy = reg, ![t].at = "saveApplied"]

ApplyRegister(t) ==
  LET v == thread[t].target IN
  /\ At(t, "apply") /\ thread[t].op \in {"train", "retrain"}
  /\ copies' = WithCopy(v)
  /\ Save(t, Registered(thread[t].copy, v))
  /\ UNCHANGED <<file, served, configured, platformLock, modelLock, promised>>

ApplyPromote(t) ==
  LET v == thread[t].target IN
  /\ At(t, "apply") /\ thread[t].op = "promote"
  /\ v \in Listed(thread[t].copy)
  /\ Save(t, Promoted(thread[t].copy, v))
  /\ UNCHANGED <<file, copies, served, configured, platformLock, modelLock, promised>>

(* rollback_model chooses, and calls promote_model. *)
ApplyRollback(t) ==
  LET reg == thread[t].copy
      target == IF thread[t].target # None THEN thread[t].target ELSE RollbackTarget(reg)
  IN
  /\ At(t, "apply") /\ thread[t].op = "rollback"
  /\ target \in Listed(reg)
  /\ thread' = [thread EXCEPT ![t].op = "promote", ![t].at = "reenter", ![t].target = target]
  /\ UNCHANGED <<registry, file, copies, served, configured, platformLock, modelLock, promised>>

(* Variant for mutation: the lock is not reentrant. *)
ReenterPlain(t) ==
  /\ At(t, "reenter") /\ platformLock = None
  /\ platformLock' = t
  /\ Step(t, "ensure")
  /\ UNCHANGED <<registry, file, copies, served, configured, modelLock, promised>>

(* promote_model takes the lock its caller already holds (RLock). *)
Reenter(t) ==
  /\ At(t, "reenter") /\ platformLock \in {None, t}
  /\ platformLock' = t
  /\ Step(t, "ensure")
  /\ UNCHANGED <<registry, file, copies, served, configured, modelLock, promised>>

(* Nothing to change (a look), or nothing found (404). *)
ApplyNothing(t) ==
  LET q == thread[t] IN
  /\ At(t, "apply")
  /\ \/ q.op = "look"
     \/ q.op = "promote" /\ q.target \notin Listed(q.copy)
     \/ q.op = "rollback" /\ q.target # None /\ q.target \notin Listed(q.copy)
     \/ q.op = "rollback" /\ q.target = None /\ RollbackTarget(q.copy) = None
  /\ platformLock' = None
  /\ thread' = [thread EXCEPT ![t] = Idle]
  /\ UNCHANGED <<registry, file, copies, served, configured, modelLock, promised>>

EndSaveApplied(t) ==
  /\ At(t, "saveApplied")
  /\ registry' = thread[t].copy
  /\ promised' = IF thread[t].op = "promote" THEN thread[t].target ELSE promised
  /\ platformLock' = None
  /\ thread' = [thread EXCEPT ![t] = Idle]
  /\ UNCHANGED <<file, copies, served, configured, modelLock>>

-----------------------------------------------------------------------------
(* The process. *)

(* The lifespan loads the model file, or trains when there is none or its  *)
(* columns are not this program's.  A torn file keeps the process down.    *)
Start(v) ==
  /\ ~Up
  /\ file # Torn
  /\ configured' = v
  /\ \/ file # None /\ served' = file /\ UNCHANGED file
     \/ served' = v /\ file' = v
  /\ UNCHANGED <<registry, copies, platformLock, modelLock, thread, promised>>

(* The training of a start is cut off while it writes the model file. *)
StartDies ==
  /\ ~Up /\ file # Torn
  /\ file' = Torn
  /\ UNCHANGED <<registry, copies, served, configured, platformLock, modelLock, thread, promised>>

(* It dies: locks and threads are gone, files stay as they are.  A         *)
(* registry caught in the middle of a write is lost, and so is what it     *)
(* promised.                                                               *)
Crash ==
  /\ Up
  /\ served' = None /\ configured' = None
  /\ platformLock' = None /\ modelLock' = None
  /\ thread' = [t \in Thread |-> Idle]
  /\ promised' = IF registry = Torn THEN None ELSE promised
  /\ UNCHANGED <<registry, file, copies>>

Serve(t) ==
  \/ LockModel(t) \/ BeginDump(t) \/ EndDump(t) \/ Publish(t)
  \/ LockPlatform(t) \/ Ensure(t) \/ EndSaveEnsured(t)
  \/ ApplyRegister(t) \/ ApplyPromote(t) \/ ApplyRollback(t) \/ Reenter(t) \/ ApplyNothing(t)
  \/ EndSaveApplied(t)

Next ==
  \/ \E t \in Thread, op \in Operation, v \in Version \cup {None} : Begin(t, op, v)
  \/ \E t \in Thread : Serve(t)
  \/ \E v \in Version : Start(v)
  \/ StartDies
  \/ Crash

Spec == Init /\ [][Next]_vars

-----------------------------------------------------------------------------
(* Properties. *)

(* Whatever trainings, promotions and rollbacks overlap, and wherever the  *)
(* process dies, a registry that can be read names a champion it lists,    *)
(* lists every version once, and holds no second record that claims to be  *)
(* the champion.                                                           *)
SoundRegistry(reg) ==
  /\ reg.champion \in Listed(reg)
  /\ \A i, j \in DOMAIN reg.models : reg.models[i] = reg.models[j] => i = j
  /\ \A v \in Version : reg.stage[v] = "champion" => v = reg.champion

OneChampion == Whole => SoundRegistry(registry)

(* A promotion or a rollback that was answered holds until the next one:   *)
(* no training, look or restart in between undoes it, unless the process   *)
(* died in the middle of a write of the registry.                          *)
PromotionHolds == (Whole /\ promised # None) => registry.champion = promised

(* Every version a readable registry lists has its copy on disk, also when *)
(* the registry was lost and built anew.                                   *)
ModelsAreBacked == Whole => \A v \in Listed(registry) : copies[v] # None

(* A request takes effect at once: when the write of what it did begins.   *)
(* Nobody else reads the file until it is written.                         *)
Writing == platformLock # None /\ thread[platformLock].at \in {"saveEnsured", "saveApplied"}
Book == IF Writing THEN thread[platformLock].copy ELSE registry

(* What is there to see of a registry. *)
ListOf(book) ==
  IF book \in {None, Torn} THEN [champion |-> None, challenger |-> None, listed |-> {}]
  ELSE [champion |-> book.champion, challenger |-> book.challenger, listed |-> Listed(book)]

(* What a thread still asks for. *)
KindOf(q) ==
  IF q.at = "idle" THEN "idle"
  ELSE IF q.at = "saveApplied" THEN "served"
  ELSE IF q.op \in {"train", "retrain"} THEN "train" ELSE q.op
TaskOf(q) ==
  [kind   |-> KindOf(q),
   target |-> IF KindOf(q) \in {"promote", "rollback"} THEN q.target ELSE None]

Catalog == INSTANCE ModelCatalog WITH
  champion <- ListOf(Book).champion, challenger <- ListOf(Book).challenger,
  listed <- ListOf(Book).listed, task <- [t \in Thread |-> TaskOf(thread[t])]

(* The registry implements the catalog: whatever trainings, promotions and *)
(* rollbacks overlap and wherever the process dies, each takes effect once *)
(* and at once, and is refused only if it could have none.                 *)
ImplementsCatalog == Catalog!Spec

(* Whoever holds a lock can go on: the nested operations (a rollback       *)
(* promotes, a registration ensures) never wait for a lock of their own    *)
(* thread, nor the two locks for each other.                               *)
HoldersGoOn ==
  \A t \in Thread : t \in {platformLock, modelLock} => ENABLED Serve(t)
=============================================================================
