------------------------- MODULE ModelRegistryProofs -------------------------
(***************************************************************************)
(* For any versions and any number of threads: the registry keeps its      *)
(* type, a readable registry is sound and backed by copies, answered       *)
(* promotions hold, and nobody waits for a lock with one in his hands.     *)
(***************************************************************************)
EXTENDS ModelRegistry, SequenceTheorems, WellFoundedInduction, TLAPS

(* Between taking and releasing _PLATFORM_LOCK. *)
InRegistry(t) ==
  thread[t].at \in {"ensure", "saveEnsured", "apply", "reenter", "saveApplied"}
Saving(t) == thread[t].at \in {"saveEnsured", "saveApplied"}
HasCopy(t) == thread[t].at \in {"saveEnsured", "apply", "saveApplied"}
Promoting(t) == thread[t].at = "saveApplied" /\ thread[t].op = "promote"

(* Mutual exclusion: who works on the registry holds the lock. *)
Holder == \A t \in Thread : InRegistry(t) => platformLock = t

(* Threads run in a process that has an artifact and a configuration; the  *)
(* model file was written or loaded before.                                *)
Running ==
  /\ \A t \in Thread : thread[t].at # "idle" => Up
  /\ Up => file # None /\ configured # None

(* What a thread's point says of the version it works on. *)
TargetFits(t) ==
  /\ thread[t].op \in {"train", "retrain"} /\ thread[t].at \notin {"wait", "fit"}
       => thread[t].target # None
  /\ thread[t].op = "promote" => thread[t].target # None
  /\ thread[t].at = "idle" => thread[t].op = "none"
  /\ thread[t].at \in {"wait", "fit", "dump", "publish"} => thread[t].op \in {"train", "retrain"}
  /\ thread[t].at = "saveApplied" => thread[t].op \in {"train", "retrain", "promote"}

Backed(reg) == \A v \in Listed(reg) : copies[v] # None

(* A thread's copy of the registry is sound and backed, and agrees with    *)
(* the last promise unless the thread is making the next one.              *)
CopyAgrees(t) ==
  HasCopy(t) =>
    /\ thread[t].copy \in Registry
    /\ SoundRegistry(thread[t].copy)
    /\ Backed(thread[t].copy)
    /\ Promoting(t) => thread[t].copy.champion = thread[t].target
    /\ ~Promoting(t) /\ promised # None => thread[t].copy.champion = promised

(* A registry that is lost has no promise to keep. *)
NoPromiseLost ==
  /\ registry = None => promised = None
  /\ registry = Torn => (promised = None \/ \E t \in Thread : Saving(t))

RInv ==
  /\ TypeOK
  /\ Holder /\ Running
  /\ \A t \in Thread : TargetFits(t)
  /\ \A t \in Thread : CopyAgrees(t)
  /\ NoPromiseLost
  /\ OneChampion /\ PromotionHolds /\ ModelsAreBacked

-----------------------------------------------------------------------------
(* Registries as values. *)

(* A listed version changes nothing; a new one is added to the list. *)
LEMMA WithModelIsSound ==
  ASSUME NEW reg \in Registry, NEW v \in Version, SoundRegistry(reg)
  PROVE  /\ WithModel(reg, v) \in Registry
         /\ SoundRegistry(WithModel(reg, v))
         /\ Listed(WithModel(reg, v)) = Listed(reg) \cup {v}
         /\ WithModel(reg, v).champion = reg.champion
  <1>1. CASE v \in Listed(reg)
    BY <1>1 DEF WithModel
  <1>2. CASE v \notin Listed(reg)
    <2> DEFINE new == WithModel(reg, v)
               n == Len(reg.models)
    <2>1. reg.models \in Seq(Version) /\ reg.champion \in Version
          /\ reg.stage \in [Version -> {"champion", "challenger"}]
      BY DEF Registry
    <2>2. /\ new.models = Append(reg.models, v) /\ new.champion = reg.champion
          /\ new.stage = [reg.stage EXCEPT ![v] = "challenger"]
          /\ new \in Registry
      <3>1. new = [[reg EXCEPT !.models = Append(@, v)] EXCEPT !.stage[v] = "challenger"]
        BY <1>2, <2>1 DEF WithModel, Registry
      <3>2. Append(reg.models, v) \in Seq(Version)
        BY <2>1
      <3>3. [reg.stage EXCEPT ![v] = "challenger"] \in [Version -> {"champion", "challenger"}]
        BY <2>1
      <3> HIDE DEF new
      <3> QED BY <3>1, <3>2, <3>3 DEF Registry
    <2>3. /\ DOMAIN new.models = 1 .. n + 1 /\ DOMAIN reg.models = 1 .. n /\ n \in Nat
          /\ \A i \in 1 .. n : new.models[i] = reg.models[i]
          /\ new.models[n + 1] = v
      BY <2>1, <2>2
    <2> HIDE DEF new, n
    <2>4. Listed(new) = Listed(reg) \cup {v}
      BY <2>3 DEF Listed
    <2>5. \A i, j \in DOMAIN new.models : new.models[i] = new.models[j] => i = j
      BY <1>2, <2>3 DEF SoundRegistry, Listed
    <2>6. \A x \in Version : new.stage[x] = "champion" => x = new.champion
      BY <2>1, <2>2 DEF SoundRegistry
    <2> QED BY <2>2, <2>4, <2>5, <2>6 DEF SoundRegistry, new
  <1> QED BY <1>1, <1>2

LEMMA NewIsSound ==
  ASSUME NEW v \in Version
  PROVE  /\ NewRegistry(v) \in Registry
         /\ SoundRegistry(NewRegistry(v))
         /\ Listed(NewRegistry(v)) = {v}
  <1> DEFINE new == NewRegistry(v)
  <1>1. /\ new.champion = v /\ new.challenger = None /\ new.models = <<v>>
        /\ new.stage = [x \in Version |-> IF x = v THEN "champion" ELSE "challenger"]
    BY DEF NewRegistry
  <1>2. DOMAIN new.models = {1} /\ new.models[1] = v /\ new.models \in Seq(Version)
    BY <1>1
  <1>3. new \in Registry
    BY <1>2 DEF NewRegistry, Registry
  <1> HIDE DEF new
  <1>4. Listed(new) = {v}
    BY <1>2 DEF Listed
  <1>5. SoundRegistry(new)
    BY <1>1, <1>2, <1>4 DEF SoundRegistry
  <1> QED BY <1>3, <1>4, <1>5 DEF new

LEMMA RegisteredIsSound ==
  ASSUME NEW reg \in Registry, NEW v \in Version, SoundRegistry(reg)
  PROVE  /\ Registered(reg, v) \in Registry
         /\ SoundRegistry(Registered(reg, v))
         /\ Listed(Registered(reg, v)) = Listed(reg) \cup {v}
         /\ Registered(reg, v).champion = reg.champion
  <1> DEFINE mid == WithModel(reg, v)
             new == Registered(reg, v)
  <1>1. /\ mid \in Registry /\ SoundRegistry(mid)
        /\ Listed(mid) = Listed(reg) \cup {v} /\ mid.champion = reg.champion
    BY WithModelIsSound
  <1>2. new = [mid EXCEPT !.stage[v] = "challenger",
                          !.challenger = IF @ = None THEN v ELSE @]
    BY DEF Registered
  <1> HIDE DEF mid, new
  <1>3. /\ new \in Registry /\ new.models = mid.models /\ new.champion = mid.champion
        /\ new.stage = [mid.stage EXCEPT ![v] = "challenger"]
    BY <1>1, <1>2 DEF Registry
  <1>4. Listed(new) = Listed(mid)
    BY <1>3 DEF Listed
  <1>5. SoundRegistry(new)
    <2>1. mid.stage \in [Version -> {"champion", "challenger"}]
      BY <1>1 DEF Registry
    <2> QED BY <1>1, <1>3, <1>4, <2>1 DEF SoundRegistry
  <1> QED BY <1>1, <1>3, <1>4, <1>5 DEF mid, new

LEMMA PromotedIsSound ==
  ASSUME NEW reg \in Registry, NEW v \in Version, SoundRegistry(reg), v \in Listed(reg)
  PROVE  /\ Promoted(reg, v) \in Registry
         /\ SoundRegistry(Promoted(reg, v))
         /\ Listed(Promoted(reg, v)) = Listed(reg)
         /\ Promoted(reg, v).champion = v
  <1> DEFINE new == Promoted(reg, v)
  <1>1. /\ new \in Registry /\ new.models = reg.models /\ new.champion = v
        /\ new.stage = [x \in Version |-> IF x = v THEN "champion" ELSE "challenger"]
    BY DEF Promoted, Registry
  <1> HIDE DEF new
  <1>2. Listed(new) = Listed(reg)
    BY <1>1 DEF Listed
  <1>3. SoundRegistry(new)
    BY <1>1, <1>2 DEF SoundRegistry
  <1> QED BY <1>1, <1>2, <1>3 DEF new

-----------------------------------------------------------------------------
(* Frames. *)

(* Nothing of a thread that the invariant looks at has changed. *)
Same(u) ==
  /\ thread'[u].op = thread[u].op /\ thread'[u].at = thread[u].at
  /\ thread'[u].target = thread[u].target /\ thread'[u].copy = thread[u].copy

(* A step of a thread that neither was nor is in the registry. *)
LEMMA Outside ==
  ASSUME RInv, TypeOK', Running', NEW t \in Thread,
         ~InRegistry(t), ~InRegistry(t)', TargetFits(t)',
         \A u \in Thread \ {t} : Same(u),
         UNCHANGED <<registry, copies, promised, platformLock>>
  PROVE  RInv'
  <1>1. Holder'
    BY DEF RInv, Holder, InRegistry, Same
  <1>2. \A u \in Thread : TargetFits(u)'
    BY DEF RInv, TargetFits, Same
  <1>3. \A u \in Thread : CopyAgrees(u)'
    <2> TAKE u \in Thread
    <2>1. CASE u = t
      BY <2>1 DEF CopyAgrees, HasCopy, InRegistry
    <2>2. CASE u # t
      BY <2>2 DEF RInv, CopyAgrees, HasCopy, Promoting, Same, Backed
    <2> QED BY <2>1, <2>2
  <1>4. NoPromiseLost'
    <2>1. \A u \in Thread : Saving(u) => Saving(u)'
      BY DEF Saving, InRegistry, Same
    <2> QED BY <2>1 DEF RInv, NoPromiseLost
  <1>5. OneChampion' /\ PromotionHolds' /\ ModelsAreBacked'
    BY DEF RInv, OneChampion, PromotionHolds, ModelsAreBacked, Whole, SoundRegistry
  <1> QED BY <1>1, <1>2, <1>3, <1>4, <1>5 DEF RInv

(* A step of the thread that has or takes the lock: only what it leaves    *)
(* behind is left to show.                                                 *)
LEMMA Inside ==
  ASSUME RInv, TypeOK', NEW t \in Thread, platformLock \in {None, t}, Up,
         UNCHANGED <<served, configured>>, file' # None,
         platformLock' = t \/ ~InRegistry(t)',
         TargetFits(t)', CopyAgrees(t)',
         \A u \in Thread \ {t} : Same(u),
         NoPromiseLost', OneChampion', PromotionHolds', ModelsAreBacked'
  PROVE  RInv'
  <1>1. \A u \in Thread \ {t} : ~InRegistry(u)
    BY ThreadAssumption DEF RInv, Holder
  <1>2. Holder'
    BY <1>1 DEF Holder, InRegistry, Same
  <1>3. Running'
    BY DEF RInv, Running, Up
  <1>4. \A u \in Thread : TargetFits(u)'
    BY DEF RInv, TargetFits, Same
  <1>5. \A u \in Thread : CopyAgrees(u)'
    BY <1>1 DEF CopyAgrees, HasCopy, InRegistry, Same
  <1> QED BY <1>2, <1>3, <1>4, <1>5 DEF RInv

(* One thread moves to a state q. *)
LEMMA Moved ==
  ASSUME TypeOK, NEW t \in Thread, NEW q \in ThreadState,
         thread' = [thread EXCEPT ![t] = q]
  PROVE  /\ thread' \in [Thread -> ThreadState]
         /\ thread'[t] = q
         /\ \A u \in Thread \ {t} : Same(u)
  BY DEF TypeOK, Same

-----------------------------------------------------------------------------
(* The steps outside the registry. *)

LEMMA BeginKeeps ==
  ASSUME RInv, NEW t \in Thread, NEW op \in Operation, NEW v \in Version \cup {None},
         Begin(t, op, v)
  PROVE  RInv'
  <1> DEFINE q == [op |-> op, at |-> Entry(op), target |-> v, mixed |-> FALSE, copy |-> None]
  <1>1. q \in ThreadState /\ thread' = [thread EXCEPT ![t] = q]
    BY DEF Begin, Entry, ThreadState, Point, Operation
  <1>2. thread' \in [Thread -> ThreadState] /\ thread'[t] = q /\ \A u \in Thread \ {t} : Same(u)
    BY <1>1, Moved DEF RInv
  <1>3. TypeOK'
    BY <1>2 DEF RInv, TypeOK, Begin
  <1>4. Running'
    BY DEF RInv, Running, Begin, Up
  <1>5. ~InRegistry(t) /\ ~InRegistry(t)'
    BY <1>2 DEF Begin, Idle, InRegistry, Entry
  <1>6. TargetFits(t)'
    BY <1>2 DEF TargetFits, Operation, Begin, Entry
  <1>7. UNCHANGED <<registry, copies, promised, platformLock>>
    BY DEF Begin
  <1> QED BY <1>2, <1>3, <1>4, <1>5, <1>6, <1>7, Outside

(* A waiting thread goes on with what it has. *)
LEMMA StepKeeps ==
  ASSUME TypeOK, NEW t \in Thread, NEW at \in Point, Step(t, at)
  PROVE  /\ thread' \in [Thread -> ThreadState]
         /\ thread'[t].at = at /\ thread'[t].op = thread[t].op
         /\ thread'[t].target = thread[t].target /\ thread'[t].copy = thread[t].copy
         /\ \A u \in Thread \ {t} : Same(u)
  <1> DEFINE q == [thread[t] EXCEPT !.at = at]
  <1>1. thread[t] \in ThreadState
    BY DEF TypeOK
  <1>2. /\ q \in ThreadState /\ q.at = at /\ q.op = thread[t].op
        /\ q.target = thread[t].target /\ q.copy = thread[t].copy
    BY <1>1 DEF ThreadState
  <1>3. thread' = [thread EXCEPT ![t] = q]
    BY DEF Step
  <1> HIDE DEF q
  <1> QED BY <1>2, <1>3, Moved

LEMMA LockModelKeeps ==
  ASSUME RInv, NEW t \in Thread, LockModel(t)
  PROVE  RInv'
  <1>1. /\ thread' \in [Thread -> ThreadState] /\ thread'[t].at = "fit"
        /\ thread'[t].op = thread[t].op /\ thread'[t].target = thread[t].target
        /\ \A u \in Thread \ {t} : Same(u)
    BY StepKeeps DEF RInv, LockModel, Point
  <1>2. TypeOK'
    BY <1>1 DEF RInv, TypeOK, LockModel
  <1>3. Running'
    <2>1. thread[t].at # "idle"
      BY DEF LockModel, At
    <2> QED BY <1>1, <2>1 DEF RInv, Running, LockModel, Up, Same
  <1>4. ~InRegistry(t) /\ ~InRegistry(t)'
    BY <1>1 DEF LockModel, At, InRegistry
  <1>5. TargetFits(t)'
    BY <1>1 DEF RInv, TargetFits, LockModel, At
  <1>6. UNCHANGED <<registry, copies, promised, platformLock>>
    BY DEF LockModel
  <1> QED BY <1>1, <1>2, <1>3, <1>4, <1>5, <1>6, Outside

LEMMA BeginDumpKeeps ==
  ASSUME RInv, NEW t \in Thread, BeginDump(t)
  PROVE  RInv'
  <1> DEFINE over == {u \in Thread : Dumping(u)}
  <1>1. thread \in [Thread -> ThreadState] /\ thread[t].at = "fit"
    BY DEF RInv, TypeOK, BeginDump, At
  <1>2. Up /\ configured \in Version
    BY <1>1 DEF RInv, Running, TypeOK
  <1>3. /\ thread'[t] \in ThreadState /\ thread'[t].at = "dump"
        /\ thread'[t].op = thread[t].op /\ thread'[t].target = configured
    <2>1. thread'[t] = [thread[t] EXCEPT !.at = "dump", !.target = configured, !.mixed = over # {}]
      BY DEF BeginDump
    <2>2. (over # {}) \in BOOLEAN
      OBVIOUS
    <2> HIDE DEF over
    <2> QED BY <1>1, <1>2, <2>1, <2>2 DEF ThreadState, Point
  <1>4. \A u \in Thread \ {t} : thread'[u] \in ThreadState /\ Same(u)
    <2> TAKE u \in Thread \ {t}
    <2>1. thread'[u] = [thread[u] EXCEPT !.mixed = TRUE] \/ thread'[u] = thread[u]
      BY DEF BeginDump
    <2>2. thread[u] \in ThreadState
      BY <1>1
    <2> QED BY <2>1, <2>2 DEF Same, ThreadState
  <1>5. thread' \in [Thread -> ThreadState]
    <2>1. thread' = [u \in Thread |-> thread'[u]]
      BY DEF BeginDump
    <2> QED BY <1>3, <1>4, <2>1
  <1>6. TypeOK'
    BY <1>5 DEF RInv, TypeOK, BeginDump
  <1>7. Running'
    BY <1>2, ValueAssumption DEF RInv, Running, BeginDump, Up
  <1>8. ~InRegistry(t) /\ ~InRegistry(t)'
    BY <1>1, <1>3 DEF InRegistry
  <1>9. TargetFits(t)'
    BY <1>1, <1>2, <1>3, ValueAssumption DEF RInv, TargetFits
  <1>10. UNCHANGED <<registry, copies, promised, platformLock>>
    BY DEF BeginDump
  <1> QED BY <1>4, <1>6, <1>7, <1>8, <1>9, <1>10, Outside

LEMMA EndDumpKeeps ==
  ASSUME RInv, NEW t \in Thread, EndDump(t)
  PROVE  RInv'
  <1> DEFINE at == IF thread[t].op = "train" THEN "publish" ELSE "lock"
             q == [thread[t] EXCEPT !.mixed = FALSE, !.at = at]
  <1>1. thread[t] \in ThreadState /\ thread[t].at = "dump"
    BY DEF RInv, TypeOK, EndDump, Dumping, At
  <1>2. /\ q \in ThreadState /\ q.at \in {"publish", "lock"}
        /\ q.op = thread[t].op /\ q.target = thread[t].target
    BY <1>1 DEF ThreadState, Point
  <1>3. thread' = [thread EXCEPT ![t] = q]
    BY DEF EndDump
  <1> HIDE DEF q
  <1>4. thread' \in [Thread -> ThreadState] /\ thread'[t] = q /\ \A u \in Thread \ {t} : Same(u)
    BY <1>2, <1>3, Moved DEF RInv
  <1>5. Up
    BY <1>1 DEF RInv, Running
  <1>6. file' \in Version \cup {Torn}
    <2>1. file' \in {Torn, thread[t].target}
      BY DEF EndDump
    <2>2. thread[t].target # None
      BY <1>1 DEF RInv, TargetFits
    <2> QED BY <1>1, <2>1, <2>2 DEF ThreadState
  <1>7. TypeOK'
    BY <1>4, <1>6 DEF RInv, TypeOK, EndDump
  <1>8. Running'
    BY <1>5, <1>6, ValueAssumption DEF RInv, Running, EndDump, Up
  <1>9. ~InRegistry(t) /\ ~InRegistry(t)'
    BY <1>1, <1>2, <1>4 DEF InRegistry
  <1>10. TargetFits(t)'
    BY <1>1, <1>2, <1>4 DEF RInv, TargetFits
  <1>11. UNCHANGED <<registry, copies, promised, platformLock>>
    BY DEF EndDump
  <1> QED BY <1>4, <1>7, <1>8, <1>9, <1>10, <1>11, Outside

LEMMA PublishKeeps ==
  ASSUME RInv, NEW t \in Thread, Publish(t)
  PROVE  RInv'
  <1>1. /\ thread' \in [Thread -> ThreadState] /\ thread'[t].at = "lock"
        /\ thread'[t].op = thread[t].op /\ thread'[t].target = thread[t].target
        /\ \A u \in Thread \ {t} : Same(u)
    BY StepKeeps DEF RInv, Publish, Point
  <1>2. thread[t].at = "publish" /\ thread[t].target \in Version \cup {None}
    BY DEF RInv, TypeOK, ThreadState, Publish, At
  <1>3. thread[t].target # None
    BY <1>2 DEF RInv, TargetFits
  <1>4. TypeOK'
    BY <1>1, <1>2, <1>3 DEF RInv, TypeOK, Publish
  <1>5. Running'
    BY <1>2, <1>3 DEF RInv, Running, Publish, Up
  <1>6. ~InRegistry(t) /\ ~InRegistry(t)'
    BY <1>1, <1>2 DEF InRegistry
  <1>7. TargetFits(t)'
    BY <1>1, <1>2, <1>3 DEF RInv, TargetFits
  <1>8. UNCHANGED <<registry, copies, promised, platformLock>>
    BY DEF Publish
  <1> QED BY <1>1, <1>4, <1>5, <1>6, <1>7, <1>8, Outside

-----------------------------------------------------------------------------
(* The steps inside the registry. *)

LEMMA LockPlatformKeeps ==
  ASSUME RInv, NEW t \in Thread, LockPlatform(t)
  PROVE  RInv'
  <1>1. /\ thread' \in [Thread -> ThreadState] /\ thread'[t].at = "ensure"
        /\ thread'[t].op = thread[t].op /\ thread'[t].target = thread[t].target
        /\ \A u \in Thread \ {t} : Same(u)
    BY StepKeeps DEF RInv, LockPlatform, Point
  <1>2. thread[t].at = "lock" /\ platformLock = None /\ platformLock' = t
    BY DEF LockPlatform, At
  <1>3. UNCHANGED <<registry, file, copies, served, configured, promised>>
    BY DEF LockPlatform
  <1>4. TypeOK'
    BY <1>1 DEF RInv, TypeOK, LockPlatform
  <1>5. Up /\ file # None
    BY <1>2 DEF RInv, Running
  <1>6. TargetFits(t)' /\ CopyAgrees(t)'
    BY <1>1, <1>2 DEF RInv, TargetFits, CopyAgrees, HasCopy
  <1>7. NoPromiseLost'
    <2>1. \A u \in Thread : Saving(u) => Saving(u)'
      BY <1>1, <1>2 DEF Saving, Same
    <2> QED BY <1>3, <2>1 DEF RInv, NoPromiseLost
  <1>8. OneChampion' /\ PromotionHolds' /\ ModelsAreBacked'
    BY <1>3 DEF RInv, OneChampion, PromotionHolds, ModelsAreBacked, Whole, SoundRegistry
  <1> QED BY <1>1, <1>2, <1>3, <1>4, <1>5, <1>6, <1>7, <1>8, Inside

(* The thread that holds the lock runs alone there. *)
LEMMA HolderIsUp ==
  ASSUME RInv, NEW t \in Thread, InRegistry(t)
  PROVE  /\ platformLock = t /\ Up /\ file # None /\ served \in Version
         /\ thread[t] \in ThreadState
         /\ \A u \in Thread \ {t} : ~InRegistry(u) /\ ~Saving(u)
  <1>1. platformLock = t
    BY DEF RInv, Holder
  <1>2. Up /\ file # None
    BY DEF RInv, Running, InRegistry
  <1>3. served \in Version /\ thread[t] \in ThreadState
    BY <1>2 DEF RInv, TypeOK, Up
  <1>4. \A u \in Thread \ {t} : ~InRegistry(u)
    BY <1>1 DEF RInv, Holder
  <1> QED BY <1>1, <1>2, <1>3, <1>4 DEF InRegistry, Saving

(* A version that gets a record gets a copy, and none is lost. *)
LEMMA CopyIsKept ==
  ASSUME TypeOK, file # None, NEW v \in Version
  PROVE  /\ WithCopy(v) \in [Version -> Version \cup {None, Torn}]
         /\ WithCopy(v)[v] # None
         /\ \A x \in Version : copies[x] # None => WithCopy(v)[x] # None
  BY DEF TypeOK, WithCopy

LEMMA ListedAreVersions ==
  ASSUME NEW reg \in Registry
  PROVE  Listed(reg) \subseteq Version
  <1>1. reg.models \in Seq(Version)
    BY DEF Registry
  <1> QED BY <1>1 DEF Listed

(* What ensure_model_registry returns, whether it wrote it or found it so. *)
LEMMA EnsuredIsSound ==
  ASSUME RInv, NEW t \in Thread, InRegistry(t), ~Saving(t), NEW v \in Version
  PROVE  /\ Ensured(registry, v) \in Registry
         /\ SoundRegistry(Ensured(registry, v))
         /\ promised # None => Ensured(registry, v).champion = promised
         /\ Ensured(registry, v) = registry => Backed(Ensured(registry, v))
         /\ \A x \in Listed(Ensured(registry, v)) : x = v \/ copies[x] # None
  <1>1. CASE registry \in {None, Torn}
    <2>1. Ensured(registry, v) = NewRegistry(v)
      BY <1>1 DEF Ensured
    <2>2. promised = None
      BY <1>1, HolderIsUp DEF RInv, NoPromiseLost
    <2>3. NewRegistry(v) # registry
      BY <1>1, NewIsSound, ValueAssumption
    <2> QED BY <2>1, <2>2, <2>3, NewIsSound
  <1>2. CASE registry \notin {None, Torn}
    <2>1. registry \in Registry /\ Whole
      BY <1>2 DEF RInv, TypeOK, Whole
    <2>2. /\ SoundRegistry(registry) /\ Backed(registry)
          /\ promised # None => registry.champion = promised
      BY <2>1 DEF RInv, OneChampion, PromotionHolds, ModelsAreBacked, Backed
    <2>3. Ensured(registry, v) = WithModel(registry, v)
      BY <1>2 DEF Ensured
    <2> QED BY <2>1, <2>2, <2>3, WithModelIsSound DEF Backed
  <1> QED BY <1>1, <1>2

LEMMA EnsureKeeps ==
  ASSUME RInv, NEW t \in Thread, Ensure(t)
  PROVE  RInv'
  <1> DEFINE v == Current(t)
             reg == Ensured(registry, v)
             at == IF reg = registry THEN "apply" ELSE "saveEnsured"
             q == [thread[t] EXCEPT !.copy = reg, !.at = at]
  <1>1. thread[t].at = "ensure" /\ InRegistry(t) /\ ~Saving(t)
    BY DEF Ensure, At, InRegistry, Saving
  <1>2. /\ platformLock = t /\ Up /\ file # None /\ served \in Version
        /\ thread[t] \in ThreadState
        /\ \A u \in Thread \ {t} : ~InRegistry(u) /\ ~Saving(u)
    BY <1>1, HolderIsUp
  <1>3. v \in Version
    BY <1>1, <1>2 DEF Current, RInv, TargetFits, ThreadState
  <1> HIDE DEF v
  <1>4. /\ reg \in Registry /\ SoundRegistry(reg)
        /\ promised # None => reg.champion = promised
        /\ reg = registry => Backed(reg)
        /\ \A x \in Listed(reg) : x = v \/ copies[x] # None
    BY <1>1, <1>3, EnsuredIsSound
  <1>5. /\ thread' = [thread EXCEPT ![t] = q]
        /\ copies' = IF reg = registry THEN copies ELSE WithCopy(v)
        /\ registry' = IF reg = registry THEN registry ELSE Torn
        /\ UNCHANGED <<file, served, configured, platformLock, modelLock, promised>>
    BY DEF Ensure, v
  <1> HIDE DEF reg
  <1>6. /\ q \in ThreadState /\ q.copy = reg /\ q.at = at
        /\ q.op = thread[t].op /\ q.target = thread[t].target
    BY <1>2, <1>4 DEF ThreadState, Point
  <1> HIDE DEF q
  <1>7. /\ thread' \in [Thread -> ThreadState] /\ thread'[t] = q
        /\ \A u \in Thread \ {t} : Same(u)
    BY <1>5, <1>6, Moved DEF RInv
  <1>8. /\ copies' \in [Version -> Version \cup {None, Torn}]
        /\ \A x \in Listed(reg) : copies'[x] # None
        /\ \A x \in Version : copies[x] # None => copies'[x] # None
    <2>1. Listed(reg) \subseteq Version
      BY <1>4, ListedAreVersions
    <2>2. CASE reg = registry
      BY <1>4, <1>5, <2>2 DEF RInv, TypeOK, Backed
    <2>3. CASE reg # registry
      BY <1>2, <1>3, <1>4, <1>5, <2>1, <2>3, CopyIsKept DEF RInv
    <2> QED BY <2>2, <2>3
  <1>9. TypeOK'
    BY <1>4, <1>5, <1>7, <1>8 DEF RInv, TypeOK
  <1>10. TargetFits(t)'
    BY <1>1, <1>6, <1>7 DEF RInv, TargetFits
  <1>11. CopyAgrees(t)'
    BY <1>4, <1>5, <1>6, <1>7, <1>8 DEF CopyAgrees, Promoting, Backed, SoundRegistry
  <1>12. NoPromiseLost'
    <2>1. CASE reg = registry
      BY <1>4, <1>5, <2>1, ValueAssumption DEF NoPromiseLost
    <2>2. CASE reg # registry
      BY <1>5, <1>6, <1>7, <2>2, ValueAssumption DEF NoPromiseLost, Saving
    <2> QED BY <2>1, <2>2
  <1>13. OneChampion' /\ PromotionHolds' /\ ModelsAreBacked'
    BY <1>4, <1>5, <1>8 DEF OneChampion, PromotionHolds, ModelsAreBacked, Whole, SoundRegistry
  <1> QED BY <1>2, <1>5, <1>7, <1>9, <1>10, <1>11, <1>12, <1>13, Inside

LEMMA EndSaveEnsuredKeeps ==
  ASSUME RInv, NEW t \in Thread, EndSaveEnsured(t)
  PROVE  RInv'
  <1> DEFINE reg == thread[t].copy
  <1>1. thread[t].at = "saveEnsured" /\ InRegistry(t)
    BY DEF EndSaveEnsured, At, InRegistry
  <1>2. /\ platformLock = t /\ Up /\ file # None
    BY <1>1, HolderIsUp
  <1>3. /\ reg \in Registry /\ SoundRegistry(reg) /\ Backed(reg)
        /\ promised # None => reg.champion = promised
    BY <1>1 DEF RInv, CopyAgrees, HasCopy, Promoting
  <1>4. /\ thread' \in [Thread -> ThreadState] /\ thread'[t].at = "apply"
        /\ thread'[t].op = thread[t].op /\ thread'[t].target = thread[t].target
        /\ thread'[t].copy = reg
        /\ \A u \in Thread \ {t} : Same(u)
    BY StepKeeps DEF RInv, EndSaveEnsured, Point
  <1>5. /\ registry' = reg
        /\ UNCHANGED <<file, copies, served, configured, platformLock, modelLock, promised>>
    BY DEF EndSaveEnsured
  <1> HIDE DEF reg
  <1>6. TypeOK'
    BY <1>3, <1>4, <1>5 DEF RInv, TypeOK
  <1>7. TargetFits(t)'
    BY <1>1, <1>4 DEF RInv, TargetFits
  <1>8. CopyAgrees(t)'
    BY <1>3, <1>4, <1>5 DEF CopyAgrees, Promoting, Backed, SoundRegistry
  <1>9. NoPromiseLost'
    BY <1>3, <1>5, ValueAssumption DEF NoPromiseLost
  <1>10. OneChampion' /\ PromotionHolds' /\ ModelsAreBacked'
    BY <1>3, <1>5 DEF OneChampion, PromotionHolds, ModelsAreBacked, SoundRegistry, Backed
  <1> QED BY <1>2, <1>4, <1>5, <1>6, <1>7, <1>8, <1>9, <1>10, Inside

(* The start of a write: the file is torn, the thread holds what it will be. *)
LEMMA SaveKeeps ==
  ASSUME RInv, NEW t \in Thread, NEW reg \in Registry, Save(t, reg),
         thread[t].at = "apply", thread[t].op \in {"train", "retrain", "promote"},
         SoundRegistry(reg), \A x \in Listed(reg) : copies'[x] # None,
         copies' \in [Version -> Version \cup {None, Torn}],
         IF thread[t].op = "promote" THEN reg.champion = thread[t].target
         ELSE promised # None => reg.champion = promised,
         UNCHANGED <<file, served, configured, platformLock, modelLock, promised>>
  PROVE  RInv'
  <1> DEFINE q == [thread[t] EXCEPT !.copy = reg, !.at = "saveApplied"]
  <1>1. platformLock = t /\ Up /\ file # None /\ thread[t] \in ThreadState
    BY HolderIsUp DEF InRegistry
  <1>2. /\ q \in ThreadState /\ q.copy = reg /\ q.at = "saveApplied"
        /\ q.op = thread[t].op /\ q.target = thread[t].target
    BY <1>1 DEF ThreadState, Point
  <1>3. thread' = [thread EXCEPT ![t] = q] /\ registry' = Torn
    BY DEF Save
  <1> HIDE DEF q
  <1>4. /\ thread' \in [Thread -> ThreadState] /\ thread'[t] = q
        /\ \A u \in Thread \ {t} : Same(u)
    BY <1>2, <1>3, Moved DEF RInv
  <1>5. TypeOK'
    BY <1>3, <1>4 DEF RInv, TypeOK
  <1>6. TargetFits(t)'
    BY <1>2, <1>4 DEF RInv, TargetFits
  <1>7. CopyAgrees(t)'
    BY <1>2, <1>4 DEF CopyAgrees, Promoting, SoundRegistry, Backed
  <1>8. NoPromiseLost'
    BY <1>2, <1>3, <1>4, ValueAssumption DEF NoPromiseLost, Saving
  <1>9. OneChampion' /\ PromotionHolds' /\ ModelsAreBacked'
    BY <1>3 DEF OneChampion, PromotionHolds, ModelsAreBacked, Whole
  <1> QED BY <1>1, <1>4, <1>5, <1>6, <1>7, <1>8, <1>9, Inside

LEMMA ApplyRegisterKeeps ==
  ASSUME RInv, NEW t \in Thread, ApplyRegister(t)
  PROVE  RInv'
  <1> DEFINE v == thread[t].target
             old == thread[t].copy
             reg == Registered(old, v)
  <1>1. thread[t].at = "apply" /\ thread[t].op \in {"train", "retrain"} /\ InRegistry(t)
    BY DEF ApplyRegister, At, InRegistry
  <1>2. file # None /\ v \in Version
    BY <1>1, HolderIsUp DEF RInv, TargetFits, ThreadState
  <1>3. /\ old \in Registry /\ SoundRegistry(old) /\ Backed(old)
        /\ promised # None => old.champion = promised
    BY <1>1 DEF RInv, CopyAgrees, HasCopy, Promoting
  <1>4. /\ copies' = WithCopy(v) /\ Save(t, reg)
        /\ UNCHANGED <<file, served, configured, platformLock, modelLock, promised>>
    BY DEF ApplyRegister
  <1> HIDE DEF v, old
  <1>5. /\ reg \in Registry /\ SoundRegistry(reg)
        /\ Listed(reg) = Listed(old) \cup {v} /\ reg.champion = old.champion
    BY <1>2, <1>3, RegisteredIsSound
  <1> HIDE DEF reg
  <1>6. /\ copies' \in [Version -> Version \cup {None, Torn}]
        /\ copies'[v] # None
        /\ \A x \in Version : copies[x] # None => copies'[x] # None
    BY <1>2, <1>4, CopyIsKept DEF RInv
  <1>7. \A x \in Listed(reg) : copies'[x] # None
    <2>1. Listed(old) \subseteq Version
      BY <1>3, ListedAreVersions
    <2> QED BY <1>3, <1>5, <1>6, <2>1 DEF Backed
  <1> QED BY <1>1, <1>3, <1>4, <1>5, <1>6, <1>7, SaveKeeps

LEMMA ApplyPromoteKeeps ==
  ASSUME RInv, NEW t \in Thread, ApplyPromote(t)
  PROVE  RInv'
  <1> DEFINE v == thread[t].target
             old == thread[t].copy
             reg == Promoted(old, v)
  <1>1. thread[t].at = "apply" /\ thread[t].op = "promote" /\ v \in Listed(old)
    BY DEF ApplyPromote, At
  <1>2. old \in Registry /\ SoundRegistry(old) /\ Backed(old)
    BY <1>1 DEF RInv, CopyAgrees, HasCopy
  <1>3. /\ Save(t, reg)
        /\ UNCHANGED <<file, copies, served, configured, platformLock, modelLock, promised>>
    BY DEF ApplyPromote
  <1>4. v \in Version
    BY <1>1, <1>2, ListedAreVersions
  <1>5. /\ reg \in Registry /\ SoundRegistry(reg)
        /\ Listed(reg) = Listed(old) /\ reg.champion = v
    BY <1>1, <1>2, <1>4, PromotedIsSound
  <1> HIDE DEF reg
  <1> QED BY <1>1, <1>2, <1>3, <1>5, SaveKeeps DEF RInv, TypeOK, Backed

LEMMA ApplyRollbackKeeps ==
  ASSUME RInv, NEW t \in Thread, ApplyRollback(t)
  PROVE  RInv'
  <1> DEFINE old == thread[t].copy
             v == IF thread[t].target # None THEN thread[t].target ELSE RollbackTarget(old)
             q == [thread[t] EXCEPT !.op = "promote", !.at = "reenter", !.target = v]
  <1>1. thread[t].at = "apply" /\ InRegistry(t) /\ v \in Listed(old)
    BY DEF ApplyRollback, At, InRegistry
  <1>2. /\ platformLock = t /\ Up /\ file # None /\ thread[t] \in ThreadState
        /\ \A u \in Thread \ {t} : ~InRegistry(u) /\ ~Saving(u)
    BY <1>1, HolderIsUp
  <1>3. v \in Version
    BY <1>1, ListedAreVersions DEF RInv, CopyAgrees, HasCopy
  <1>4. /\ thread' = [thread EXCEPT ![t] = q]
        /\ UNCHANGED <<registry, file, copies, served, configured, platformLock, modelLock, promised>>
    BY DEF ApplyRollback
  <1> HIDE DEF v
  <1>5. /\ q \in ThreadState /\ q.at = "reenter" /\ q.op = "promote" /\ q.target = v
    BY <1>2, <1>3 DEF ThreadState, Point, Operation
  <1> HIDE DEF q
  <1>6. /\ thread' \in [Thread -> ThreadState] /\ thread'[t] = q
        /\ \A u \in Thread \ {t} : Same(u)
    BY <1>4, <1>5, Moved DEF RInv
  <1>7. TypeOK'
    BY <1>4, <1>6 DEF RInv, TypeOK
  <1>8. TargetFits(t)' /\ CopyAgrees(t)'
    BY <1>3, <1>5, <1>6, ValueAssumption DEF TargetFits, CopyAgrees, HasCopy
  <1>9. NoPromiseLost'
    <2>1. \A u \in Thread : ~Saving(u)
      BY <1>1, <1>2 DEF Saving
    <2> QED BY <1>4, <2>1 DEF RInv, NoPromiseLost
  <1>10. OneChampion' /\ PromotionHolds' /\ ModelsAreBacked'
    BY <1>4 DEF RInv, OneChampion, PromotionHolds, ModelsAreBacked, Whole, SoundRegistry
  <1> QED BY <1>2, <1>4, <1>6, <1>7, <1>8, <1>9, <1>10, Inside

LEMMA ReenterKeeps ==
  ASSUME RInv, NEW t \in Thread, Reenter(t)
  PROVE  RInv'
  <1>1. thread[t].at = "reenter" /\ InRegistry(t) /\ platformLock' = t
    BY DEF Reenter, At, InRegistry
  <1>2. /\ platformLock = t /\ Up /\ file # None
        /\ \A u \in Thread \ {t} : ~InRegistry(u) /\ ~Saving(u)
    BY <1>1, HolderIsUp
  <1>3. /\ thread' \in [Thread -> ThreadState] /\ thread'[t].at = "ensure"
        /\ thread'[t].op = thread[t].op /\ thread'[t].target = thread[t].target
        /\ \A u \in Thread \ {t} : Same(u)
    BY StepKeeps DEF RInv, Reenter, Point
  <1>4. UNCHANGED <<registry, file, copies, served, configured, promised>>
    BY DEF Reenter
  <1>5. TypeOK'
    BY <1>3 DEF RInv, TypeOK, Reenter
  <1>6. TargetFits(t)' /\ CopyAgrees(t)'
    BY <1>1, <1>3 DEF RInv, TargetFits, CopyAgrees, HasCopy
  <1>7. NoPromiseLost'
    <2>1. \A u \in Thread : ~Saving(u)
      BY <1>1, <1>2 DEF Saving
    <2> QED BY <1>4, <2>1 DEF RInv, NoPromiseLost
  <1>8. OneChampion' /\ PromotionHolds' /\ ModelsAreBacked'
    BY <1>4 DEF RInv, OneChampion, PromotionHolds, ModelsAreBacked, Whole, SoundRegistry
  <1> QED BY <1>1, <1>2, <1>3, <1>4, <1>5, <1>6, <1>7, <1>8, Inside

LEMMA IdleFits == Idle \in ThreadState /\ Idle.at = "idle" /\ Idle.op = "none"
  BY DEF Idle, ThreadState, Point

LEMMA ApplyNothingKeeps ==
  ASSUME RInv, NEW t \in Thread, ApplyNothing(t)
  PROVE  RInv'
  <1>1. thread[t].at = "apply" /\ InRegistry(t)
    BY DEF ApplyNothing, At, InRegistry
  <1>2. /\ platformLock = t /\ Up /\ file # None
        /\ \A u \in Thread \ {t} : ~InRegistry(u) /\ ~Saving(u)
    BY <1>1, HolderIsUp
  <1>3. /\ thread' = [thread EXCEPT ![t] = Idle] /\ platformLock' = None
        /\ UNCHANGED <<registry, file, copies, served, configured, modelLock, promised>>
    BY DEF ApplyNothing
  <1>4. /\ thread' \in [Thread -> ThreadState] /\ thread'[t] = Idle
        /\ \A u \in Thread \ {t} : Same(u)
    BY <1>3, IdleFits, Moved DEF RInv
  <1>5. TypeOK'
    BY <1>3, <1>4 DEF RInv, TypeOK
  <1>6. ~InRegistry(t)' /\ TargetFits(t)' /\ CopyAgrees(t)'
    BY <1>4, IdleFits DEF InRegistry, TargetFits, CopyAgrees, HasCopy
  <1>7. NoPromiseLost'
    <2>1. \A u \in Thread : ~Saving(u)
      BY <1>1, <1>2 DEF Saving
    <2> QED BY <1>3, <2>1 DEF RInv, NoPromiseLost
  <1>8. OneChampion' /\ PromotionHolds' /\ ModelsAreBacked'
    BY <1>3 DEF RInv, OneChampion, PromotionHolds, ModelsAreBacked, Whole, SoundRegistry
  <1> QED BY <1>2, <1>3, <1>4, <1>5, <1>6, <1>7, <1>8, Inside

LEMMA EndSaveAppliedKeeps ==
  ASSUME RInv, NEW t \in Thread, EndSaveApplied(t)
  PROVE  RInv'
  <1> DEFINE reg == thread[t].copy
  <1>1. thread[t].at = "saveApplied" /\ InRegistry(t)
    BY DEF EndSaveApplied, At, InRegistry
  <1>2. /\ platformLock = t /\ Up /\ file # None /\ thread[t] \in ThreadState
    BY <1>1, HolderIsUp
  <1>3. /\ reg \in Registry /\ SoundRegistry(reg) /\ Backed(reg)
        /\ thread[t].op = "promote" => reg.champion = thread[t].target
        /\ thread[t].op # "promote" /\ promised # None => reg.champion = promised
    BY <1>1 DEF RInv, CopyAgrees, HasCopy, Promoting
  <1>4. /\ registry' = reg /\ platformLock' = None
        /\ promised' = IF thread[t].op = "promote" THEN thread[t].target ELSE promised
        /\ thread' = [thread EXCEPT ![t] = Idle]
        /\ UNCHANGED <<file, copies, served, configured, modelLock>>
    BY DEF EndSaveApplied
  <1> HIDE DEF reg
  <1>5. /\ thread' \in [Thread -> ThreadState] /\ thread'[t] = Idle
        /\ \A u \in Thread \ {t} : Same(u)
    BY <1>4, IdleFits, Moved DEF RInv
  <1>6. promised' \in Version \cup {None}
    BY <1>2, <1>4 DEF RInv, TypeOK, ThreadState
  <1>7. TypeOK'
    BY <1>3, <1>4, <1>5, <1>6 DEF RInv, TypeOK
  <1>8. ~InRegistry(t)' /\ TargetFits(t)' /\ CopyAgrees(t)'
    BY <1>5, IdleFits DEF InRegistry, TargetFits, CopyAgrees, HasCopy
  <1>9. NoPromiseLost'
    BY <1>3, <1>4, ValueAssumption DEF NoPromiseLost
  <1>10. OneChampion' /\ PromotionHolds' /\ ModelsAreBacked'
    BY <1>3, <1>4 DEF OneChampion, PromotionHolds, ModelsAreBacked, SoundRegistry, Backed
  <1> QED BY <1>2, <1>4, <1>5, <1>7, <1>8, <1>9, <1>10, Inside

-----------------------------------------------------------------------------
(* The process. *)

(* While the process is down or has just died nothing runs, and the files  *)
(* decide.                                                                 *)
LEMMA NothingRuns ==
  ASSUME RInv, TypeOK', Running', \A t \in Thread : thread'[t].at = "idle" /\ thread'[t].op = "none",
         UNCHANGED <<registry, copies>>,
         promised' \in {promised, None}, registry \in {None, Torn} => promised' = None
  PROVE  RInv'
  <1>1. Holder' /\ \A t \in Thread : TargetFits(t)' /\ CopyAgrees(t)'
    BY DEF Holder, InRegistry, TargetFits, CopyAgrees, HasCopy
  <1>2. NoPromiseLost'
    BY DEF NoPromiseLost
  <1>3. OneChampion' /\ PromotionHolds' /\ ModelsAreBacked'
    BY DEF RInv, OneChampion, PromotionHolds, ModelsAreBacked, Whole, SoundRegistry
  <1> QED BY <1>1, <1>2, <1>3 DEF RInv

LEMMA DownIsIdle ==
  ASSUME RInv, ~Up
  PROVE  /\ \A t \in Thread : thread[t].at = "idle" /\ thread[t].op = "none"
         /\ registry \in {None, Torn} => promised = None
  BY DEF RInv, Running, TargetFits, NoPromiseLost, Saving

LEMMA CrashKeeps ==
  ASSUME RInv, Crash
  PROVE  RInv'
  <1>1. /\ served' = None /\ configured' = None /\ platformLock' = None /\ modelLock' = None
        /\ thread' = [t \in Thread |-> Idle]
        /\ promised' = IF registry = Torn THEN None ELSE promised
        /\ UNCHANGED <<registry, file, copies>>
    BY DEF Crash
  <1>2. TypeOK'
    BY <1>1, IdleFits DEF RInv, TypeOK
  <1>3. Running'
    BY <1>1, IdleFits DEF Running, Up
  <1>4. registry = None => promised = None
    BY DEF RInv, NoPromiseLost
  <1>5. \A t \in Thread : thread'[t].at = "idle" /\ thread'[t].op = "none"
    BY <1>1, IdleFits
  <1> QED BY <1>1, <1>2, <1>3, <1>4, <1>5, NothingRuns

LEMMA StartKeeps ==
  ASSUME RInv, NEW v \in Version, Start(v)
  PROVE  RInv'
  <1>1. /\ ~Up /\ file # Torn /\ configured' = v
        /\ UNCHANGED <<registry, copies, platformLock, modelLock, thread, promised>>
    BY DEF Start
  <1>2. served' \in Version /\ file' \in Version
    <2>1. CASE file # None /\ served' = file /\ UNCHANGED file
      BY <1>1, <2>1 DEF RInv, TypeOK
    <2>2. CASE served' = v /\ file' = v
      BY <2>2
    <2> QED BY <2>1, <2>2 DEF Start
  <1>3. TypeOK'
    BY <1>1, <1>2 DEF RInv, TypeOK
  <1>4. Running'
    BY <1>1, <1>2, ValueAssumption DEF Running, Up
  <1> QED BY <1>1, <1>3, <1>4, DownIsIdle, NothingRuns

LEMMA StartDiesKeeps ==
  ASSUME RInv, StartDies
  PROVE  RInv'
  <1>1. /\ ~Up /\ file' = Torn
        /\ UNCHANGED <<registry, copies, served, configured, platformLock, modelLock, thread, promised>>
    BY DEF StartDies
  <1>2. TypeOK'
    BY <1>1 DEF RInv, TypeOK
  <1>3. Running'
    BY <1>1 DEF RInv, Running, Up
  <1> QED BY <1>1, <1>2, <1>3, DownIsIdle, NothingRuns

LEMMA StutterKeeps ==
  ASSUME RInv, UNCHANGED vars
  PROVE  RInv'
  BY DEF RInv, vars, TypeOK, Holder, InRegistry, Running, Up, TargetFits, CopyAgrees, HasCopy,
         Promoting, Saving, SoundRegistry, Backed, NoPromiseLost, OneChampion, PromotionHolds,
         ModelsAreBacked, Whole

LEMMA InitIsFine == Init => RInv
  <1> SUFFICES ASSUME Init PROVE RInv
    OBVIOUS
  <1>1. TypeOK
    BY IdleFits DEF Init, TypeOK
  <1>2. \A t \in Thread : thread[t].at = "idle" /\ thread[t].op = "none"
    BY IdleFits DEF Init
  <1>3. Holder /\ Running /\ \A t \in Thread : TargetFits(t) /\ CopyAgrees(t)
    BY <1>2 DEF Init, Holder, InRegistry, Running, Up, TargetFits, CopyAgrees, HasCopy
  <1>4. NoPromiseLost
    BY DEF Init, NoPromiseLost
  <1>5. OneChampion /\ PromotionHolds /\ ModelsAreBacked
    BY DEF Init, OneChampion, PromotionHolds, ModelsAreBacked, Whole
  <1> QED BY <1>1, <1>3, <1>4, <1>5 DEF RInv

(* Every request, start and crash of the AI engine keeps the invariant. *)
LEMMA NextKeeps ==
  ASSUME RInv, [Next]_vars
  PROVE  RInv'
  <1>1. CASE \E t \in Thread, op \in Operation, v \in Version \cup {None} : Begin(t, op, v)
    BY <1>1, BeginKeeps
  <1>2. ASSUME NEW t \in Thread, Serve(t) PROVE RInv'
    BY <1>2, LockModelKeeps, BeginDumpKeeps, EndDumpKeeps, PublishKeeps, LockPlatformKeeps,
       EnsureKeeps, EndSaveEnsuredKeeps, ApplyRegisterKeeps, ApplyPromoteKeeps,
       ApplyRollbackKeeps, ReenterKeeps, ApplyNothingKeeps, EndSaveAppliedKeeps DEF Serve
  <1>3. CASE \E v \in Version : Start(v)
    BY <1>3, StartKeeps
  <1>4. CASE StartDies
    BY <1>4, StartDiesKeeps
  <1>5. CASE Crash
    BY <1>5, CrashKeeps
  <1>6. CASE UNCHANGED vars
    BY <1>6, StutterKeeps
  <1> QED BY <1>1, <1>2, <1>3, <1>4, <1>5, <1>6 DEF Next

-----------------------------------------------------------------------------
(* The registry's state keeps its type and its discipline: whoever works   *)
(* on the registry file holds _PLATFORM_LOCK, and the copy it works on is  *)
(* sound, backed and up to date.                                           *)
THEOREM RegistryInvariant == Spec => []RInv
  <1>1. RInv /\ [Next]_vars => RInv'
    BY NextKeeps
  <1> QED BY InitIsFine, <1>1, PTL DEF Spec

(* The registry, the files, the locks and the threads keep their types. *)
THEOREM TypeCorrect == Spec => []TypeOK
  <1>1. RInv => TypeOK
    BY DEF RInv
  <1> QED BY RegistryInvariant, <1>1, PTL

(* However trainings, promotions and rollbacks of any number of threads    *)
(* overlap and wherever the process dies, a readable registry names one    *)
(* champion, lists each version once, and no other record claims to be it. *)
THEOREM RegistryIsSound == Spec => []OneChampion
  <1>1. RInv => OneChampion
    BY DEF RInv
  <1> QED BY RegistryInvariant, <1>1, PTL

(* An answered promotion or rollback stands until the next one, or until a *)
(* crash tears the registry file.                                          *)
THEOREM PromotionsHold == Spec => []PromotionHolds
  <1>1. RInv => PromotionHolds
    BY DEF RInv
  <1> QED BY RegistryInvariant, <1>1, PTL

(* Every version of a readable registry has its copy on disk. *)
THEOREM ListedModelsAreBacked == Spec => []ModelsAreBacked
  <1>1. RInv => ModelsAreBacked
    BY DEF RInv
  <1> QED BY RegistryInvariant, <1>1, PTL

-----------------------------------------------------------------------------
(* The two locks. *)

(* Where a training that holds _MODEL_LOCK is. *)
InTraining(t) == thread[t].op = "train" /\ thread[t].at \in {"fit", "dump", "publish"}

(* Each lock is held by who is where it is held, and by nobody else; who   *)
(* does something does it for a request.                                   *)
LocksAreUsed ==
  \A t \in Thread :
    /\ platformLock = t <=> InRegistry(t)
    /\ modelLock = t <=> InTraining(t)
    /\ thread[t].at # "idle" => thread[t].op # "none"
    /\ thread[t].at \in {"wait", "publish"} => thread[t].op = "train"

(* One thread moves; the other locks stay with whom they are. *)
LEMMA OneMoves ==
  ASSUME LocksAreUsed, NEW t \in Thread,
         \A u \in Thread \ {t} : Same(u),
         platformLock' = t <=> InRegistry(t)', modelLock' = t <=> InTraining(t)',
         thread'[t].at # "idle" => thread'[t].op # "none",
         thread'[t].at \in {"wait", "publish"} => thread'[t].op = "train",
         \A u \in Thread \ {t} : /\ platformLock' = u <=> platformLock = u
                                 /\ modelLock' = u <=> modelLock = u
  PROVE  LocksAreUsed'
  BY DEF LocksAreUsed, InRegistry, InTraining, Same

(* A request begins, waits for the model lock, or trains. *)
LEMMA TrainingKeepsLocks ==
  ASSUME RInv, LocksAreUsed, NEW t \in Thread,
         \/ \E op \in Operation, v \in Version \cup {None} : Begin(t, op, v)
         \/ LockModel(t) \/ BeginDump(t) \/ EndDump(t) \/ Publish(t)
  PROVE  LocksAreUsed'
  <1>0. /\ thread \in [Thread -> ThreadState] /\ t # None
        /\ platformLock = t <=> InRegistry(t)
        /\ modelLock = t <=> InTraining(t)
        /\ thread[t].at # "idle" => thread[t].op # "none"
        /\ thread[t].at \in {"wait", "publish"} => thread[t].op = "train"
    BY ThreadAssumption DEF RInv, TypeOK, LocksAreUsed
  <1>1. ASSUME NEW op \in Operation, NEW v \in Version \cup {None}, Begin(t, op, v)
        PROVE  LocksAreUsed'
    <2>1. /\ thread[t].at = "idle" /\ thread'[t].op = op /\ thread'[t].at = Entry(op)
          /\ \A u \in Thread \ {t} : Same(u)
          /\ UNCHANGED <<platformLock, modelLock>>
      BY <1>0, <1>1, IdleFits DEF Begin, Same
    <2>2. ~InRegistry(t)' /\ ~InTraining(t)' /\ ~InRegistry(t) /\ ~InTraining(t)
      BY <2>1 DEF InRegistry, InTraining, Entry
    <2>3. thread'[t].op # "none" /\ (thread'[t].at \in {"wait", "publish"} => thread'[t].op = "train")
      BY <2>1 DEF Operation, Entry
    <2> QED BY <1>0, <2>1, <2>2, <2>3, OneMoves
  <1>2. CASE LockModel(t)
    <2>1. /\ thread[t].at = "wait" /\ thread'[t].op = thread[t].op /\ thread'[t].at = "fit"
          /\ \A u \in Thread \ {t} : Same(u)
          /\ modelLock = None /\ modelLock' = t /\ platformLock' = platformLock
      BY <1>0, <1>2 DEF LockModel, Step, At, Same
    <2>2. platformLock' = t <=> InRegistry(t)'
      BY <1>0, <2>1 DEF InRegistry
    <2>3. modelLock' = t <=> InTraining(t)'
      BY <1>0, <2>1, ThreadAssumption DEF InTraining, RInv, TargetFits
    <2> QED BY <1>0, <2>1, <2>2, <2>3, OneMoves, ThreadAssumption DEF InRegistry, InTraining
  <1>3. CASE BeginDump(t)
    <2>1. /\ thread[t].at = "fit" /\ thread'[t].op = thread[t].op /\ thread'[t].at = "dump"
          /\ \A u \in Thread \ {t} : thread'[u].op = thread[u].op /\ thread'[u].at = thread[u].at
          /\ UNCHANGED <<platformLock, modelLock>>
      BY <1>0, <1>3 DEF BeginDump, At, ThreadState
    <2> QED BY <1>0, <2>1 DEF LocksAreUsed, InRegistry, InTraining
  <1>4. CASE EndDump(t)
    <2>1. /\ thread[t].at = "dump" /\ thread'[t].op = thread[t].op
          /\ thread'[t].at = IF thread[t].op = "train" THEN "publish" ELSE "lock"
          /\ \A u \in Thread \ {t} : Same(u)
          /\ UNCHANGED <<platformLock, modelLock>>
      BY <1>0, <1>4 DEF EndDump, Dumping, At, Same, ThreadState
    <2> QED BY <1>0, <2>1, OneMoves DEF InRegistry, InTraining
  <1>5. CASE Publish(t)
    <2>1. /\ thread[t].at = "publish" /\ thread'[t].at = "lock" /\ thread'[t].op = thread[t].op
          /\ \A u \in Thread \ {t} : Same(u)
          /\ modelLock' = None /\ platformLock' = platformLock
      BY <1>0, <1>5 DEF Publish, Step, At, Same
    <2>2. platformLock' = t <=> InRegistry(t)'
      BY <1>0, <2>1 DEF InRegistry
    <2>3. modelLock' = t <=> InTraining(t)'
      BY <1>0, <2>1, ThreadAssumption DEF InTraining, RInv, TargetFits
    <2> QED BY <1>0, <2>1, <2>2, <2>3, OneMoves, ThreadAssumption DEF InRegistry, InTraining
  <1> QED BY <1>1, <1>2, <1>3, <1>4, <1>5

(* What the registry's operations do to the locks, step by step. *)
LEMMA RegistryKeepsLocks ==
  ASSUME RInv, LocksAreUsed, NEW t \in Thread,
         \/ LockPlatform(t) \/ Ensure(t) \/ EndSaveEnsured(t)
         \/ ApplyRegister(t) \/ ApplyPromote(t) \/ ApplyRollback(t) \/ Reenter(t)
         \/ ApplyNothing(t) \/ EndSaveApplied(t)
  PROVE  LocksAreUsed'
  <1>0. /\ thread \in [Thread -> ThreadState] /\ t # None
        /\ platformLock = t <=> InRegistry(t)
        /\ modelLock = t <=> InTraining(t)
        /\ thread[t].at # "idle" => thread[t].op # "none"
        /\ thread[t].at \in {"wait", "publish"} => thread[t].op = "train"
    BY ThreadAssumption DEF RInv, TypeOK, LocksAreUsed
  <1>1. ASSUME thread[t].at \in {"lock", "reenter"}, platformLock \in {None, t},
               platformLock' = t, modelLock' = modelLock, thread'[t].op = thread[t].op,
               thread'[t].at = "ensure", \A u \in Thread \ {t} : Same(u)
        PROVE  LocksAreUsed'
    BY <1>0, <1>1, OneMoves, ThreadAssumption DEF InRegistry, InTraining
  <1>2. ASSUME thread[t].at \in {"ensure", "saveEnsured", "apply"},
               thread'[t].at \in {"saveEnsured", "apply", "saveApplied", "reenter"},
               thread'[t].op \in {thread[t].op, "promote"},
               thread'[t].op = "train" <=> thread[t].op = "train",
               UNCHANGED <<platformLock, modelLock>>, \A u \in Thread \ {t} : Same(u)
        PROVE  LocksAreUsed'
    BY <1>0, <1>2, OneMoves DEF InRegistry, InTraining
  <1>3. ASSUME thread[t].at \in {"apply", "saveApplied"}, thread'[t].at = "idle",
               platformLock' = None, modelLock' = modelLock, \A u \in Thread \ {t} : Same(u)
        PROVE  LocksAreUsed'
    BY <1>0, <1>3, OneMoves, ThreadAssumption DEF InRegistry, InTraining
  <1>4. CASE LockPlatform(t) \/ Reenter(t)
    <2>1. /\ thread[t].at \in {"lock", "reenter"} /\ platformLock \in {None, t}
          /\ platformLock' = t /\ modelLock' = modelLock
          /\ thread'[t].op = thread[t].op /\ thread'[t].at = "ensure"
          /\ \A u \in Thread \ {t} : Same(u)
      BY <1>0, <1>4 DEF LockPlatform, Reenter, Step, At, Same, ThreadState
    <2> QED BY <1>1, <2>1
  <1>5. CASE Ensure(t) \/ EndSaveEnsured(t)
    <2>1. /\ thread[t].at \in {"ensure", "saveEnsured"}
          /\ thread'[t].at \in {"saveEnsured", "apply"} /\ thread'[t].op = thread[t].op
          /\ UNCHANGED <<platformLock, modelLock>> /\ \A u \in Thread \ {t} : Same(u)
      BY <1>0, <1>5 DEF Ensure, EndSaveEnsured, Step, At, Same, ThreadState
    <2> QED BY <1>2, <2>1
  <1>6. CASE ApplyRegister(t) \/ ApplyPromote(t) \/ ApplyRollback(t)
    <2>1. /\ thread[t].at = "apply" /\ thread'[t].at \in {"saveApplied", "reenter"}
          /\ thread'[t].op \in {thread[t].op, "promote"}
          /\ thread[t].op = "train" <=> thread'[t].op = "train"
          /\ UNCHANGED <<platformLock, modelLock>> /\ \A u \in Thread \ {t} : Same(u)
      BY <1>0, <1>6 DEF ApplyRegister, ApplyPromote, ApplyRollback, Save, At, Same, ThreadState
    <2> QED BY <1>2, <2>1
  <1>7. CASE ApplyNothing(t) \/ EndSaveApplied(t)
    <2>1. /\ thread[t].at \in {"apply", "saveApplied"} /\ thread'[t].at = "idle"
          /\ platformLock' = None /\ modelLock' = modelLock
          /\ \A u \in Thread \ {t} : Same(u)
      BY <1>0, <1>7, IdleFits DEF ApplyNothing, EndSaveApplied, At, Same
    <2> QED BY <1>3, <2>1
  <1> QED BY <1>4, <1>5, <1>6, <1>7

LEMMA LocksStayUsed ==
  ASSUME RInv, LocksAreUsed, [Next]_vars
  PROVE  LocksAreUsed'
  <1>1. ASSUME NEW t \in Thread, NEW op \in Operation, NEW v \in Version \cup {None},
               Begin(t, op, v)
        PROVE  LocksAreUsed'
    BY <1>1, TrainingKeepsLocks
  <1>2. ASSUME NEW t \in Thread, Serve(t) PROVE LocksAreUsed'
    BY <1>2, TrainingKeepsLocks, RegistryKeepsLocks DEF Serve
  <1>3. CASE (\E v \in Version : Start(v)) \/ StartDies
    <2>1. UNCHANGED <<platformLock, modelLock, thread>>
      BY <1>3 DEF Start, StartDies
    <2> QED BY <2>1 DEF LocksAreUsed, InRegistry, InTraining
  <1>4. CASE Crash
    <2>1. /\ platformLock' = None /\ modelLock' = None
          /\ \A t \in Thread : thread'[t].at = "idle"
      BY <1>4, IdleFits DEF Crash
    <2> QED BY <2>1, ThreadAssumption DEF LocksAreUsed, InRegistry, InTraining
  <1>5. CASE UNCHANGED vars
    BY <1>5 DEF vars, LocksAreUsed, InRegistry, InTraining
  <1> QED BY <1>1, <1>2, <1>3, <1>4, <1>5 DEF Next

(* rollback_model without a target chooses a listed version that is not    *)
(* the champion, if there is any.                                          *)
LEMMA RollbackChooses ==
  ASSUME NEW reg \in Registry
  PROVE  IF RollbackTarget(reg) = None THEN Listed(reg) \subseteq {reg.champion}
         ELSE RollbackTarget(reg) \in Listed(reg) \ {reg.champion}
  <1> DEFINE C == {i \in DOMAIN reg.models : reg.models[i] # reg.champion}
             n == Len(reg.models)
             D == {n - i : i \in C}
  <1>1. /\ n \in Nat /\ DOMAIN reg.models = 1 .. n
    BY DEF Registry
  <1>2. CASE C = {}
    <2>1. RollbackTarget(reg) = None
      BY <1>2 DEF RollbackTarget
    <2>2. \A i \in DOMAIN reg.models : reg.models[i] = reg.champion
      BY <1>2
    <2> QED BY <2>1, <2>2 DEF Listed
  <1>3. CASE C # {}
    <2>1. D \subseteq Nat /\ D # {}
      <3>1. \A i \in C : i \in 1 .. n
        BY <1>1
      <3>2. \A i \in 1 .. n : n - i \in Nat
        BY <1>1
      <3> QED BY <1>3, <3>1, <3>2
    <2>2. PICK d \in D : \A k \in D : ~(<<k, d>> \in OpToRel(<, Nat))
      <3> HIDE DEF D
      <3> QED BY <2>1, NatLessThanWellFounded, WFMin
    <2>3. PICK i \in C : d = n - i
      OBVIOUS
    <2>4. \A j \in C : j <= i
      <3> TAKE j \in C
      <3>1. n - j \in D /\ n - j \in Nat /\ d \in Nat
        BY <2>1
      <3>2. ~(n - j < d)
        BY <2>2, <3>1 DEF OpToRel
      <3> QED BY <1>1, <2>3, <3>2
    <2>5. \E k \in C : \A j \in C : j <= k
      BY <2>4
    <2>6. RollbackTarget(reg) = reg.models[CHOOSE k \in C : \A j \in C : j <= k]
      BY <1>3 DEF RollbackTarget
    <2>7. (CHOOSE k \in C : \A j \in C : j <= k) \in C
      BY <2>5
    <2>8. RollbackTarget(reg) \in Listed(reg) \ {reg.champion}
      BY <2>6, <2>7 DEF Listed
    <2>9. RollbackTarget(reg) # None
      BY <2>8, ListedAreVersions, ValueAssumption
    <2> QED BY <2>8, <2>9
  <1> QED BY <1>2, <1>3

(* What a step of t asks for, wherever t is. *)
WayOpen(t) ==
  \/ thread[t].at = "wait" /\ modelLock = None
  \/ thread[t].at = "lock" /\ platformLock = None
  \/ thread[t].at = "reenter" /\ platformLock \in {None, t}
  \/ thread[t].at \in {"fit", "dump", "publish", "ensure", "saveEnsured", "saveApplied"}
  \/ /\ thread[t].at = "apply"
     /\ \/ thread[t].op \in {"train", "retrain", "promote", "look"}
        \/ /\ thread[t].op = "rollback" /\ thread[t].target # None
        \/ /\ thread[t].op = "rollback"
           /\ RollbackTarget(thread[t].copy) \in Listed(thread[t].copy) \cup {None}

(* Whoever waits for _PLATFORM_LOCK or _MODEL_LOCK holds neither, no       *)
(* thread holds both, and a rollback that takes its lock again has it.     *)
WaitersHoldNothing ==
  \A t \in Thread :
    /\ thread[t].at \in {"wait", "lock"} => t \notin {platformLock, modelLock}
    /\ ~(platformLock = t /\ modelLock = t)
    /\ thread[t].at = "reenter" => platformLock = t

(* Whoever holds a lock finds the condition of his next step fulfilled. *)
HoldersHaveAWay == \A t \in Thread : t \in {platformLock, modelLock} => WayOpen(t)

LEMMA LocksAlwaysUsed == Spec => []LocksAreUsed
  <1>1. Init => LocksAreUsed
    BY IdleFits, ThreadAssumption DEF Init, LocksAreUsed, InRegistry, InTraining
  <1>2. RInv /\ LocksAreUsed /\ [Next]_vars => LocksAreUsed'
    BY LocksStayUsed
  <1> QED BY <1>1, <1>2, RegistryInvariant, PTL DEF Spec

(* platform_service: for any number of threads nobody waits for a lock     *)
(* with one in his hands, so the locks cannot be waited for in a circle.   *)
THEOREM NobodyWaitsForHimself == Spec => []WaitersHoldNothing
  <1>1. LocksAreUsed => WaitersHoldNothing
    BY DEF LocksAreUsed, WaitersHoldNothing, InRegistry, InTraining
  <1> QED BY <1>1, LocksAlwaysUsed, PTL

(* HoldersGoOn, without ENABLED: for any number of threads the condition   *)
(* of the next step of whoever holds a lock is fulfilled.                  *)
THEOREM HoldersAreNotStuck == Spec => []HoldersHaveAWay
  <1>1. RInv /\ LocksAreUsed => HoldersHaveAWay
    <2> SUFFICES ASSUME RInv, LocksAreUsed, NEW t \in Thread, t \in {platformLock, modelLock}
                 PROVE  WayOpen(t)
      BY DEF HoldersHaveAWay
    <2>1. InRegistry(t) \/ InTraining(t)
      BY DEF LocksAreUsed
    <2>2. CASE thread[t].at = "apply"
      <3>1. thread[t].op \in Operation
        BY <2>2 DEF RInv, TypeOK, ThreadState, LocksAreUsed
      <3>2. thread[t].copy \in Registry
        BY <2>2 DEF RInv, CopyAgrees, HasCopy
      <3> QED BY <2>2, <3>1, <3>2, RollbackChooses DEF WayOpen, Operation
    <2>3. CASE thread[t].at = "reenter"
      BY <2>3 DEF LocksAreUsed, InRegistry, WayOpen
    <2> QED BY <2>1, <2>2, <2>3 DEF InRegistry, InTraining, WayOpen
  <1> QED BY <1>1, RegistryInvariant, LocksAlwaysUsed, PTL

-----------------------------------------------------------------------------
(* Nobody holds a lock for long. *)

(* The steps a thread still has to go, at most: a rollback goes through    *)
(* the registry twice.                                                     *)
Way(at) ==
  CASE at = "idle" -> 0         [] at = "saveApplied" -> 1  [] at = "apply" -> 2
    [] at = "saveEnsured" -> 3  [] at = "ensure" -> 4       [] at = "lock" -> 5
    [] at = "reenter" -> 5      [] at = "publish" -> 6      [] at = "dump" -> 7
    [] at = "fit" -> 8          [] at = "wait" -> 9
Left(q) == Way(q.at) + IF q.op = "rollback" THEN 4 ELSE 0

LEMMA LeftIsBounded ==
  ASSUME NEW q \in ThreadState
  PROVE  Left(q) \in 0 .. 13
  <1>1. q.at \in Point
    BY DEF ThreadState
  <1>2. Way(q.at) \in 0 .. 9
    BY <1>1 DEF Way, Point
  <1> QED BY <1>2 DEF Left

(* How a step of a request moves it. *)
OnItsWay(t) ==
  LET q == thread[t]
      n == thread'[t] IN
  \/ n = Idle /\ q.at \in {"apply", "saveApplied"}
  \/ /\ n.op = q.op
     /\ \/ q.at = "wait" /\ n.at = "fit"
        \/ q.at = "fit" /\ n.at = "dump"
        \/ q.at = "dump" /\ n.at \in {"publish", "lock"}
        \/ q.at = "publish" /\ n.at = "lock"
        \/ q.at \in {"lock", "reenter"} /\ n.at = "ensure"
        \/ q.at = "ensure" /\ n.at \in {"apply", "saveEnsured"}
        \/ q.at = "saveEnsured" /\ n.at = "apply"
        \/ q.at = "apply" /\ n.at = "saveApplied"
  \/ q.op = "rollback" /\ q.at = "apply" /\ n.op = "promote" /\ n.at = "reenter"

(* A step of t leaves the others where they are. *)
Elsewhere(t) ==
  \A u \in Thread \ {t} : thread'[u].at = thread[u].at /\ thread'[u].op = thread[u].op

LEMMA ServeIsOnItsWay ==
  ASSUME RInv, NEW t \in Thread, Serve(t)
  PROVE  OnItsWay(t) /\ Elsewhere(t)
  <1>0. thread \in [Thread -> ThreadState]
    BY DEF RInv, TypeOK
  <1> USE DEF OnItsWay, Elsewhere, ThreadState, At, Step
  <1>1. CASE LockModel(t)
    BY <1>0, <1>1 DEF LockModel
  <1>2. CASE BeginDump(t)
    BY <1>0, <1>2 DEF BeginDump
  <1>3. CASE EndDump(t)
    BY <1>0, <1>3 DEF EndDump, Dumping
  <1>4. CASE Publish(t)
    BY <1>0, <1>4 DEF Publish
  <1>5. CASE LockPlatform(t) \/ Reenter(t)
    BY <1>0, <1>5 DEF LockPlatform, Reenter
  <1>6. CASE Ensure(t)
    BY <1>0, <1>6 DEF Ensure
  <1>7. CASE EndSaveEnsured(t)
    BY <1>0, <1>7 DEF EndSaveEnsured
  <1>8. CASE ApplyRegister(t) \/ ApplyPromote(t)
    BY <1>0, <1>8 DEF ApplyRegister, ApplyPromote, Save
  <1>9. CASE ApplyRollback(t)
    BY <1>0, <1>9 DEF ApplyRollback
  <1>10. CASE ApplyNothing(t) \/ EndSaveApplied(t)
    BY <1>0, <1>10 DEF ApplyNothing, EndSaveApplied
  <1> QED BY <1>1, <1>2, <1>3, <1>4, <1>5, <1>6, <1>7, <1>8, <1>9, <1>10 DEF Serve

(* Its own steps bring a thread nearer to its answer, the others' none     *)
(* farther.                                                                *)
NearerToItsAnswer(t) ==
  /\ thread[t].at # "idle" => Left(thread'[t]) <= Left(thread[t])
  /\ Serve(t) => Left(thread'[t]) < Left(thread[t])

LEMMA StepIsNearer ==
  ASSUME RInv, RInv', [Next]_vars, NEW t \in Thread
  PROVE  NearerToItsAnswer(t)
  <1>0. thread[t] \in ThreadState /\ thread'[t] \in ThreadState
    BY DEF RInv, TypeOK
  <1>1. Left(thread[t]) \in Nat /\ Left(thread'[t]) \in Nat
    BY <1>0, LeftIsBounded
  <1>2. ASSUME thread'[t].at = thread[t].at, thread'[t].op = thread[t].op
        PROVE  Left(thread'[t]) = Left(thread[t])
    BY <1>2 DEF Left
  <1>3. Serve(t) => Left(thread'[t]) < Left(thread[t])
    <2> SUFFICES ASSUME Serve(t) PROVE Left(thread'[t]) < Left(thread[t])
      OBVIOUS
    <2>1. OnItsWay(t)
      BY ServeIsOnItsWay
    <2> QED BY <1>0, <2>1, IdleFits DEF OnItsWay, Left, Way
  <1>4. ASSUME NEW u \in Thread, u # t, Serve(u)
        PROVE  Left(thread'[t]) = Left(thread[t])
    BY <1>2, <1>4, ServeIsOnItsWay DEF Elsewhere
  <1>5. ASSUME NEW u \in Thread, NEW op \in Operation, NEW v \in Version \cup {None},
               Begin(u, op, v), thread[t].at # "idle"
        PROVE  Left(thread'[t]) = Left(thread[t])
    BY <1>2, <1>5, IdleFits DEF Begin, RInv, TypeOK
  <1>6. CASE (\E v \in Version : Start(v)) \/ StartDies \/ UNCHANGED vars
    <2>1. UNCHANGED thread
      BY <1>6 DEF Start, StartDies, vars
    <2> QED BY <1>1, <1>2, <1>3, <2>1 DEF NearerToItsAnswer
  <1>7. CASE Crash
    <2>1. thread'[t] = Idle
      BY <1>7 DEF Crash
    <2>2. Left(thread'[t]) = 0
      BY <2>1, IdleFits DEF Left, Way
    <2> QED BY <1>1, <1>3, <2>2 DEF NearerToItsAnswer
  <1> QED BY <1>1, <1>3, <1>4, <1>5, <1>6, <1>7 DEF Next, NearerToItsAnswer

(* No request is kept from its answer by the steps of others. *)
NobodyIsKept ==
  \A t \in Thread : NearerToItsAnswer(t) /\ Left(thread[t]) \in 0 .. 13

(* platform_service and training_service: every step of a request brings   *)
(* it nearer to its answer and no other step takes it back, in at most     *)
(* thirteen steps; with HoldersAreNotStuck, nobody keeps a lock.           *)
THEOREM LocksAreGivenBack == Spec => [][NobodyIsKept]_vars
  <1>1. RInv /\ RInv' /\ [Next]_vars => [NobodyIsKept]_vars
    <2> SUFFICES ASSUME RInv, RInv', [Next]_vars, NEW t \in Thread
                 PROVE  NearerToItsAnswer(t) /\ Left(thread[t]) \in 0 .. 13
      BY DEF NobodyIsKept
    <2>1. thread[t] \in ThreadState
      BY DEF RInv, TypeOK
    <2> QED BY <2>1, StepIsNearer, LeftIsBounded
  <1> QED BY <1>1, RegistryInvariant, PTL DEF Spec

-----------------------------------------------------------------------------
(* The registry implements the catalog. *)

(* What a thread has in hand is what there is to see: at "apply" its copy  *)
(* is the file; while it writes, the file is torn; and what it trained is  *)
(* on the list.                                                            *)
CopyIsCurrent ==
  \A t \in Thread :
    /\ thread[t].at = "apply" => thread[t].copy = registry
    /\ Saving(t) => registry = Torn
    /\ thread[t].op \in {"train", "retrain"} /\ thread[t].at \in {"saveEnsured", "apply"}
         => thread[t].target \in Listed(thread[t].copy)

CatInv == RInv /\ LocksAreUsed /\ CopyIsCurrent

LEMMA ListOfRegistry ==
  ASSUME NEW reg \in Registry
  PROVE  /\ reg \notin {None, Torn}
         /\ ListOf(reg) = [champion |-> reg.champion, challenger |-> reg.challenger,
                           listed |-> Listed(reg)]
  BY ValueAssumption DEF ListOf

(* What there is to see, by where the holder of the lock is. *)
LEMMA BookIs ==
  ASSUME RInv
  PROVE  /\ \A t \in Thread : Saving(t) => Book = thread[t].copy
         /\ (\A t \in Thread : ~Saving(t)) => Book = registry
         /\ Book \in Registry \cup {None, Torn}
         /\ Book \in Registry => SoundRegistry(Book)
  <1>1. \A t \in Thread : Saving(t) => platformLock = t
    BY DEF RInv, Holder, InRegistry, Saving
  <1>2. platformLock \in Thread \cup {None}
    BY DEF RInv, TypeOK
  <1>3. ASSUME NEW t \in Thread, Saving(t)
        PROVE  Book = thread[t].copy /\ Book \in Registry /\ SoundRegistry(Book)
    <2>1. platformLock = t /\ platformLock # None
      BY <1>1, <1>3, ThreadAssumption
    <2>2. Book = thread[t].copy
      BY <1>3, <2>1 DEF Book, Writing, Saving
    <2> QED BY <1>3, <2>2 DEF RInv, CopyAgrees, HasCopy, Saving
  <1>4. (\A t \in Thread : ~Saving(t)) => Book = registry
    BY <1>2 DEF Book, Writing, Saving
  <1>5. registry \in Registry \cup {None, Torn} /\ (registry \in Registry => SoundRegistry(registry))
    BY ValueAssumption DEF RInv, TypeOK, OneChampion, Whole
  <1> QED BY <1>3, <1>4, <1>5

(* Threads that are not at work on the registry see the same list. *)
LEMMA BookStays ==
  ASSUME RInv, RInv', registry' = registry,
         \A t \in Thread : Saving(t) <=> Saving(t)',
         \A t \in Thread : Saving(t) => thread'[t].copy = thread[t].copy
  PROVE  Book' = Book
  <1>1. CASE \E t \in Thread : Saving(t)
    <2>1. PICK t \in Thread : Saving(t)
      BY <1>1
    <2>2. platformLock = t /\ platformLock' = t /\ t # None
      BY <2>1, ThreadAssumption DEF RInv, Holder, InRegistry, Saving
    <2> QED BY <2>1, <2>2 DEF Book, Writing, Saving
  <1>2. CASE \A t \in Thread : ~Saving(t)
    <2>1. platformLock \in Thread \cup {None} /\ platformLock' \in Thread \cup {None}
      BY DEF RInv, TypeOK
    <2> QED BY <1>2, <2>1 DEF Book, Writing, Saving
  <1> QED BY <1>1, <1>2

(* One thread asks for something else; the others for what they did. *)
LEMMA OneAsks ==
  ASSUME NEW t \in Thread, \A u \in Thread \ {t} : Same(u)
  PROVE  [u \in Thread |-> TaskOf(thread'[u])]
           = [[u \in Thread |-> TaskOf(thread[u])] EXCEPT ![t] = TaskOf(thread'[t])]
  <1>1. \A u \in Thread \ {t} : TaskOf(thread'[u]) = TaskOf(thread[u])
    BY DEF Same, TaskOf, KindOf
  <1> QED BY <1>1

LEMMA NobodyAsks ==
  ASSUME NEW t \in Thread, \A u \in Thread \ {t} : Same(u),
         TaskOf(thread'[t]) = TaskOf(thread[t]), ListOf(Book)' = ListOf(Book)
  PROVE  UNCHANGED Catalog!catalogVars
  <1>1. [u \in Thread |-> TaskOf(thread'[u])] = [u \in Thread |-> TaskOf(thread[u])]
    BY DEF Same, TaskOf, KindOf
  <1> QED BY <1>1 DEF Catalog!catalogVars

-----------------------------------------------------------------------------
(* The invariant of the refinement. *)

(* A step of the lock's holder, or of one that is not at the registry. *)
LEMMA CurrentStays ==
  ASSUME CatInv, RInv', NEW t \in Thread,
         \A u \in Thread \ {t} : Same(u),
         InRegistry(t) \/ registry' = registry,
         thread'[t].at = "apply" => thread'[t].copy = registry',
         Saving(t)' => registry' = Torn,
         thread'[t].op \in {"train", "retrain"} /\ thread'[t].at \in {"saveEnsured", "apply"}
           => thread'[t].target \in Listed(thread'[t].copy)
  PROVE  CopyIsCurrent'
  <1>1. ASSUME NEW u \in Thread, u # t
        PROVE  /\ thread'[u].at = "apply" => thread'[u].copy = registry'
               /\ Saving(u)' => registry' = Torn
               /\ thread'[u].op \in {"train", "retrain"} /\ thread'[u].at \in {"saveEnsured", "apply"}
                    => thread'[u].target \in Listed(thread'[u].copy)
    <2>1. Same(u)
      BY <1>1
    <2>2. InRegistry(t) => ~InRegistry(u)
      BY <1>1 DEF CatInv, RInv, Holder
    <2> QED BY <2>1, <2>2 DEF CatInv, CopyIsCurrent, Same, Saving, InRegistry, Listed
  <1> QED BY <1>1 DEF CopyIsCurrent, Saving

-----------------------------------------------------------------------------
(* Each step as a step of the catalog. *)

CatStep == Catalog!Next \/ UNCHANGED Catalog!catalogVars

(* A step with which nothing is seen to change. *)
LEMMA SilentStep ==
  ASSUME CatInv, RInv', NEW t \in Thread, ~Saving(t), ~Saving(t)',
         \A u \in Thread \ {t} : Same(u), registry' = registry,
         TaskOf(thread'[t]) = TaskOf(thread[t]),
         thread[t].at # "apply", thread'[t].at # "apply"
  PROVE  CopyIsCurrent' /\ CatStep
  <1>1. Book' = Book
    BY BookStays DEF CatInv, Saving, Same
  <1>2. UNCHANGED Catalog!catalogVars
    BY <1>1, NobodyAsks DEF ListOf, Listed
  <1>3. CopyIsCurrent'
    BY CurrentStays DEF Saving
  <1> QED BY <1>2, <1>3 DEF CatStep

LEMMA BeginIsCatalog ==
  ASSUME CatInv, RInv', NEW t \in Thread, NEW op \in Operation, NEW v \in Version \cup {None},
         Begin(t, op, v)
  PROVE  CopyIsCurrent' /\ CatStep
  <1> DEFINE kind == IF op = "retrain" THEN "train" ELSE op
  <1>1. /\ thread[t].at = "idle" /\ thread'[t].at = Entry(op) /\ thread'[t].op = op
        /\ thread'[t].target = v
        /\ \A u \in Thread \ {t} : Same(u)
        /\ UNCHANGED registry
    BY IdleFits DEF Begin, Same, CatInv, RInv, TypeOK
  <1>2. ~Saving(t) /\ ~Saving(t)' /\ thread'[t].at \notin {"apply", "idle", "saveApplied"}
    BY <1>1 DEF Saving, Entry
  <1>3. Book' = Book
    BY <1>1, <1>2, BookStays DEF CatInv, Saving, Same
  <1>4. TaskOf(thread[t]) = Catalog!Free
    BY <1>1 DEF TaskOf, KindOf, Catalog!Free, Catalog!Task
  <1>5. TaskOf(thread'[t]) = Catalog!Task(kind, v) /\ kind \in Catalog!Kind
    <2>1. op \in {"train", "retrain", "look"} => v = None
      BY DEF Begin
    <2> QED BY <1>1, <1>2, <2>1 DEF TaskOf, KindOf, Catalog!Task, Catalog!Kind, Operation
  <1>6. (kind \in {"look", "train"} => v = None) /\ (kind = "promote" => v # None)
    BY DEF Begin, Operation
  <1>7. Catalog!Ask(t, kind, v)
    BY <1>1, <1>3, <1>4, <1>5, <1>6, OneAsks DEF Catalog!Ask, Catalog!Becomes, Catalog!list, ListOf, Listed
  <1>8. CopyIsCurrent'
    BY <1>1, <1>2, CurrentStays DEF Saving
  <1> QED BY <1>5, <1>7, <1>8 DEF CatStep, Catalog!Next

(* The steps before the registry, and the one that takes its lock again. *)
LEMMA OutsideIsCatalog ==
  ASSUME CatInv, RInv', NEW t \in Thread,
         LockModel(t) \/ EndDump(t) \/ Publish(t) \/ LockPlatform(t) \/ Reenter(t)
  PROVE  CopyIsCurrent' /\ CatStep
  <1>1. /\ thread[t].at \in {"wait", "dump", "publish", "lock", "reenter"}
        /\ thread'[t].at \in {"fit", "publish", "lock", "ensure"}
        /\ thread'[t].op = thread[t].op /\ thread'[t].target = thread[t].target
        /\ \A u \in Thread \ {t} : Same(u)
        /\ UNCHANGED registry
    BY DEF LockModel, EndDump, Publish, LockPlatform, Reenter, Step, At, Dumping, Same,
           CatInv, RInv, TypeOK, ThreadState
  <1>2. ~Saving(t) /\ ~Saving(t)'
    BY <1>1 DEF Saving
  <1>3. TaskOf(thread'[t]) = TaskOf(thread[t])
    BY <1>1 DEF TaskOf, KindOf
  <1> QED BY <1>1, <1>2, <1>3, SilentStep

LEMMA BeginDumpIsCatalog ==
  ASSUME CatInv, RInv', NEW t \in Thread, BeginDump(t)
  PROVE  CopyIsCurrent' /\ CatStep
  <1>1. /\ thread[t].at = "fit" /\ thread'[t].at = "dump" /\ thread'[t].op = thread[t].op
        /\ thread[t].op \in {"train", "retrain"}
        /\ \A u \in Thread \ {t} : Same(u)
        /\ UNCHANGED registry
    <2>1. thread \in [Thread -> ThreadState] /\ thread[t].at = "fit" /\ registry' = registry
      BY DEF BeginDump, At, CatInv, RInv, TypeOK
    <2>2. thread[t].op \in {"train", "retrain"}
      BY <2>1 DEF CatInv, RInv, TargetFits
    <2>3. thread'[t].at = "dump" /\ thread'[t].op = thread[t].op
      BY <2>1 DEF BeginDump, ThreadState
    <2>4. \A u \in Thread \ {t} : Same(u)
      <3> TAKE u \in Thread \ {t}
      <3>1. thread'[u] \in {thread[u], [thread[u] EXCEPT !.mixed = TRUE]}
        BY DEF BeginDump
      <3> QED BY <2>1, <3>1 DEF Same, ThreadState
    <2> QED BY <2>1, <2>2, <2>3, <2>4
  <1>2. ~Saving(t) /\ ~Saving(t)'
    BY <1>1 DEF Saving
  <1>3. TaskOf(thread'[t]) = TaskOf(thread[t])
    BY <1>1 DEF TaskOf, KindOf
  <1> QED BY <1>1, <1>2, <1>3, SilentStep

(* Nobody but the holder is at the registry. *)
LEMMA Alone ==
  ASSUME CatInv, NEW t \in Thread, InRegistry(t)
  PROVE  /\ thread[t] \in ThreadState /\ thread[t].op \in Operation
         /\ \A u \in Thread \ {t} : ~Saving(u)
         /\ ~Saving(t) => Book = registry
         /\ Saving(t) => Book = thread[t].copy
  <1>1. thread[t].op # "none" /\ thread[t] \in ThreadState
    BY DEF CatInv, LocksAreUsed, InRegistry, RInv, TypeOK
  <1>2. \A u \in Thread \ {t} : ~Saving(u)
    BY HolderIsUp DEF CatInv
  <1> QED BY <1>1, <1>2, BookIs DEF CatInv, ThreadState

(* After the step of the holder: what there is to see then. *)
LEMMA BookThen ==
  ASSUME RInv', NEW t \in Thread, \A u \in Thread \ {t} : Same(u) /\ ~Saving(u)
  PROVE  Book' = IF Saving(t)' THEN thread'[t].copy ELSE registry'
  <1>1. \A u \in Thread \ {t} : ~Saving(u)'
    BY DEF Same, Saving
  <1>2. platformLock' \in Thread \cup {None} /\ (Saving(t)' => platformLock' = t)
    BY DEF RInv, TypeOK, Holder, Saving, InRegistry
  <1> QED BY <1>1, <1>2, ThreadAssumption DEF Book, Writing, Saving

LEMMA EnsureIsCatalog ==
  ASSUME CatInv, RInv', NEW t \in Thread, Ensure(t)
  PROVE  CopyIsCurrent' /\ CatStep
  <1> DEFINE v == Current(t)
             reg == Ensured(registry, v)
  <1>1. /\ thread[t].at = "ensure" /\ InRegistry(t) /\ ~Saving(t)
    BY DEF Ensure, At, InRegistry, Saving
  <1>2. /\ thread[t] \in ThreadState /\ thread[t].op \in Operation
        /\ \A u \in Thread \ {t} : ~Saving(u)
        /\ Book = registry /\ served \in Version
    BY <1>1, Alone, HolderIsUp DEF CatInv
  <1>3. v \in Version
    BY <1>1, <1>2 DEF Current, CatInv, RInv, TargetFits, ThreadState
  <1>4. /\ thread'[t].copy = reg
        /\ thread'[t].at = IF reg = registry THEN "apply" ELSE "saveEnsured"
        /\ thread'[t].op = thread[t].op /\ thread'[t].target = thread[t].target
        /\ \A u \in Thread \ {t} : Same(u)
        /\ registry' = IF reg = registry THEN registry ELSE Torn
    BY <1>2 DEF Ensure, Same, CatInv, RInv, TypeOK, ThreadState
  <1>5. thread[t].op \in {"train", "retrain"} => v = thread[t].target
    BY DEF Current
  <1> HIDE DEF v
  <1>6. /\ reg \in Registry
        /\ Listed(reg) = ListOf(registry).listed \cup {v}
        /\ reg.champion = IF ListOf(registry).listed = {} THEN v ELSE ListOf(registry).champion
        /\ reg.challenger = ListOf(registry).challenger
    <2>1. CASE registry \in {None, Torn}
      <3>1. reg = NewRegistry(v)
        BY <2>1 DEF Ensured
      <3>2. ListOf(registry) = [champion |-> None, challenger |-> None, listed |-> {}]
        BY <2>1 DEF ListOf
      <3> QED BY <1>3, <3>1, <3>2, NewIsSound DEF NewRegistry
    <2>2. CASE registry \notin {None, Torn}
      <3>1. registry \in Registry /\ SoundRegistry(registry)
        BY <2>2 DEF CatInv, RInv, TypeOK, OneChampion, Whole
      <3>2. reg = WithModel(registry, v)
        BY <2>2 DEF Ensured
      <3>3. reg.challenger = registry.challenger
        BY <3>1, <3>2 DEF WithModel, Registry
      <3>4. registry.champion \in Listed(registry)
        BY <3>1 DEF SoundRegistry
      <3> QED BY <1>3, <3>1, <3>2, <3>3, <3>4, WithModelIsSound, ListOfRegistry
    <2> QED BY <2>1, <2>2
  <1> HIDE DEF reg
  <1>7. Book' = reg
    BY <1>2, <1>4, BookThen DEF Saving
  <1>8. ListOf(Book)' = [champion |-> reg.champion, challenger |-> reg.challenger,
                         listed |-> Listed(reg)]
    BY <1>6, <1>7, ListOfRegistry DEF ListOf, Listed
  <1>9. TaskOf(thread'[t]) = TaskOf(thread[t]) /\ TaskOf(thread[t]).kind \in Catalog!Kind
    BY <1>1, <1>2, <1>4 DEF TaskOf, KindOf, Catalog!Kind, Operation
  <1>10. [u \in Thread |-> TaskOf(thread'[u])] = [u \in Thread |-> TaskOf(thread[u])]
    BY <1>4, <1>9 DEF Same, TaskOf, KindOf
  <1>11. Catalog!Enter(t, v)
    BY <1>2, <1>6, <1>8, <1>9, <1>10 DEF Catalog!Enter
  <1>12. CopyIsCurrent'
    <2>1. v \in Listed(reg)
      BY <1>6
    <2> QED BY <1>1, <1>4, <1>5, <2>1, CurrentStays DEF Saving
  <1> QED BY <1>3, <1>11, <1>12 DEF CatStep, Catalog!Next

LEMMA EndSaveEnsuredIsCatalog ==
  ASSUME CatInv, RInv', NEW t \in Thread, EndSaveEnsured(t)
  PROVE  CopyIsCurrent' /\ CatStep
  <1>1. thread[t].at = "saveEnsured" /\ InRegistry(t) /\ Saving(t)
    BY DEF EndSaveEnsured, At, InRegistry, Saving
  <1>2. /\ thread[t] \in ThreadState /\ \A u \in Thread \ {t} : ~Saving(u)
        /\ Book = thread[t].copy
    BY <1>1, Alone
  <1>3. /\ thread'[t].at = "apply" /\ thread'[t].copy = thread[t].copy
        /\ thread'[t].op = thread[t].op /\ thread'[t].target = thread[t].target
        /\ \A u \in Thread \ {t} : Same(u) /\ registry' = thread[t].copy
    BY <1>2 DEF EndSaveEnsured, Step, Same, CatInv, RInv, TypeOK, ThreadState
  <1>4. registry' = thread[t].copy
    BY DEF EndSaveEnsured
  <1>5. Book' = Book
    BY <1>2, <1>3, <1>4, BookThen DEF Saving
  <1>6. TaskOf(thread'[t]) = TaskOf(thread[t])
    BY <1>1, <1>3 DEF TaskOf, KindOf
  <1>7. UNCHANGED Catalog!catalogVars
    BY <1>3, <1>5, <1>6, NobodyAsks DEF ListOf, Listed
  <1>8. CopyIsCurrent'
    <2>1. thread[t].op \in {"train", "retrain"} => thread[t].target \in Listed(thread[t].copy)
      BY <1>1 DEF CatInv, CopyIsCurrent
    <2> QED BY <1>1, <1>3, <1>4, <2>1, CurrentStays DEF Saving
  <1> QED BY <1>7, <1>8 DEF CatStep

(* The write begins: the effect of the request is there to see. *)
LEMMA SaveShows ==
  ASSUME CatInv, RInv', NEW t \in Thread, thread[t].at = "apply", NEW reg \in Registry,
         Save(t, reg)
  PROVE  /\ Book = thread[t].copy /\ thread[t].copy \in Registry
         /\ ListOf(Book)' = [champion |-> reg.champion, challenger |-> reg.challenger,
                             listed |-> Listed(reg)]
         /\ [u \in Thread |-> TaskOf(thread'[u])]
              = [[u \in Thread |-> TaskOf(thread[u])] EXCEPT ![t] = Catalog!Task("served", None)]
         /\ CopyIsCurrent'
  <1>1. InRegistry(t) /\ ~Saving(t)
    BY DEF InRegistry, Saving
  <1>2. /\ thread[t] \in ThreadState /\ \A u \in Thread \ {t} : ~Saving(u)
        /\ Book = registry /\ thread[t].copy = registry
    BY <1>1, Alone DEF CatInv, CopyIsCurrent
  <1>3. thread[t].copy \in Registry
    BY DEF CatInv, RInv, CopyAgrees, HasCopy
  <1>4. /\ thread'[t].at = "saveApplied" /\ thread'[t].copy = reg /\ registry' = Torn
        /\ \A u \in Thread \ {t} : Same(u)
    BY <1>2 DEF Save, Same, CatInv, RInv, TypeOK, ThreadState
  <1>5. Book' = reg
    BY <1>2, <1>4, BookThen DEF Saving
  <1>6. ListOf(Book)' = [champion |-> reg.champion, challenger |-> reg.challenger,
                         listed |-> Listed(reg)]
    BY <1>5, ListOfRegistry DEF ListOf, Listed
  <1>7. TaskOf(thread'[t]) = Catalog!Task("served", None)
    BY <1>4 DEF TaskOf, KindOf, Catalog!Task
  <1>8. CopyIsCurrent'
    BY <1>1, <1>4, CurrentStays DEF Saving
  <1> QED BY <1>2, <1>3, <1>4, <1>6, <1>7, <1>8, OneAsks

LEMMA ApplyRegisterIsCatalog ==
  ASSUME CatInv, RInv', NEW t \in Thread, ApplyRegister(t)
  PROVE  CopyIsCurrent' /\ CatStep
  <1> DEFINE v == thread[t].target
             old == thread[t].copy
             reg == Registered(old, v)
  <1>1. thread[t].at = "apply" /\ thread[t].op \in {"train", "retrain"}
    BY DEF ApplyRegister, At
  <1>2. old \in Registry /\ SoundRegistry(old) /\ v \in Listed(old) /\ v \in Version
    BY <1>1, ListedAreVersions DEF CatInv, CopyIsCurrent, RInv, CopyAgrees, HasCopy
  <1>3. Save(t, reg)
    BY DEF ApplyRegister
  <1>4. TaskOf(thread[t]).kind = "train"
    BY <1>1 DEF TaskOf, KindOf
  <1> HIDE DEF v, old
  <1>5. /\ reg \in Registry /\ Listed(reg) = Listed(old) /\ reg.champion = old.champion
        /\ reg.challenger = IF old.challenger = None THEN v ELSE old.challenger
    <2>1. WithModel(old, v) = old
      BY <1>2 DEF WithModel
    <2>2. reg.challenger = IF old.challenger = None THEN v ELSE old.challenger
      BY <1>2, <2>1 DEF Registered, Registry
    <2>3. /\ reg \in Registry /\ Listed(reg) = Listed(old) \cup {v}
          /\ reg.champion = old.champion
      BY <1>2, RegisteredIsSound
    <2> HIDE DEF reg
    <2> QED BY <1>2, <2>2, <2>3
  <1> HIDE DEF reg
  <1>6. /\ Book = old
        /\ ListOf(Book)' = [champion |-> reg.champion, challenger |-> reg.challenger,
                            listed |-> Listed(reg)]
        /\ [u \in Thread |-> TaskOf(thread'[u])]
             = [[u \in Thread |-> TaskOf(thread[u])] EXCEPT ![t] = Catalog!Task("served", None)]
        /\ CopyIsCurrent'
    BY <1>1, <1>3, <1>5, SaveShows DEF old
  <1>7. ListOf(Book) = [champion |-> old.champion, challenger |-> old.challenger,
                        listed |-> Listed(old)]
    BY <1>2, <1>6, ListOfRegistry
  <1>8. Catalog!Nominate(t, v)
    BY <1>2, <1>4, <1>5, <1>6, <1>7 DEF Catalog!Nominate, Catalog!Becomes
  <1> QED BY <1>2, <1>6, <1>8 DEF CatStep, Catalog!Next

LEMMA ApplyPromoteIsCatalog ==
  ASSUME CatInv, RInv', NEW t \in Thread, ApplyPromote(t)
  PROVE  CopyIsCurrent' /\ CatStep
  <1> DEFINE v == thread[t].target
             old == thread[t].copy
             reg == Promoted(old, v)
  <1>1. thread[t].at = "apply" /\ thread[t].op = "promote" /\ v \in Listed(old)
    BY DEF ApplyPromote, At
  <1>2. old \in Registry /\ SoundRegistry(old) /\ v \in Version
    BY <1>1, ListedAreVersions DEF CatInv, RInv, CopyAgrees, HasCopy
  <1>3. Save(t, reg)
    BY DEF ApplyPromote
  <1>4. TaskOf(thread[t]) = Catalog!Task("promote", v)
    BY <1>1 DEF TaskOf, KindOf, Catalog!Task
  <1> HIDE DEF v, old
  <1>5. /\ reg \in Registry /\ Listed(reg) = Listed(old) /\ reg.champion = v
        /\ reg.challenger = None
    <2>1. reg.challenger = None
      BY <1>2 DEF Promoted, Registry
    <2> QED BY <1>1, <1>2, <2>1, PromotedIsSound
  <1> HIDE DEF reg
  <1>6. /\ Book = old
        /\ ListOf(Book)' = [champion |-> reg.champion, challenger |-> reg.challenger,
                            listed |-> Listed(reg)]
        /\ [u \in Thread |-> TaskOf(thread'[u])]
             = [[u \in Thread |-> TaskOf(thread[u])] EXCEPT ![t] = Catalog!Task("served", None)]
        /\ CopyIsCurrent'
    BY <1>1, <1>3, <1>5, SaveShows DEF old
  <1>7. ListOf(Book) = [champion |-> old.champion, challenger |-> old.challenger,
                        listed |-> Listed(old)]
    BY <1>2, <1>6, ListOfRegistry
  <1>8. Catalog!Crown(t)
    BY <1>1, <1>4, <1>5, <1>6, <1>7 DEF Catalog!Crown, Catalog!Becomes, Catalog!Task
  <1> QED BY <1>6, <1>8 DEF CatStep, Catalog!Next

LEMMA ApplyRollbackIsCatalog ==
  ASSUME CatInv, RInv', NEW t \in Thread, ApplyRollback(t)
  PROVE  CopyIsCurrent' /\ CatStep
  <1> DEFINE old == thread[t].copy
             v == IF thread[t].target # None THEN thread[t].target ELSE RollbackTarget(old)
  <1>1. /\ thread[t].at = "apply" /\ InRegistry(t) /\ ~Saving(t) /\ thread[t].op = "rollback"
        /\ v \in Listed(old)
    BY DEF ApplyRollback, At, InRegistry, Saving
  <1>2. /\ thread[t] \in ThreadState /\ \A u \in Thread \ {t} : ~Saving(u)
        /\ Book = registry /\ old = registry
    BY <1>1, Alone DEF CatInv, CopyIsCurrent
  <1>3. old \in Registry /\ v \in Version
    BY <1>1, ListedAreVersions DEF CatInv, RInv, CopyAgrees, HasCopy
  <1>4. /\ thread'[t].op = "promote" /\ thread'[t].at = "reenter" /\ thread'[t].target = v
        /\ \A u \in Thread \ {t} : Same(u)
        /\ UNCHANGED registry
    BY <1>2 DEF ApplyRollback, Same, CatInv, RInv, TypeOK, ThreadState
  <1>5. IF thread[t].target = None THEN v # old.champion ELSE v = thread[t].target
    <2>1. v # None
      BY <1>3, ValueAssumption
    <2> QED BY <1>3, <2>1, RollbackChooses
  <1> HIDE DEF v
  <1>6. Book' = Book
    BY <1>2, <1>4, BookThen DEF Saving
  <1>7. ListOf(Book) = [champion |-> old.champion, challenger |-> old.challenger,
                        listed |-> Listed(old)]
    BY <1>2, <1>3, ListOfRegistry
  <1>8. /\ TaskOf(thread[t]) = Catalog!Task("rollback", thread[t].target)
        /\ TaskOf(thread'[t]) = Catalog!Task("promote", v)
    BY <1>1, <1>4 DEF TaskOf, KindOf, Catalog!Task
  <1>9. ListOf(Book)' = ListOf(Book)
    BY <1>6 DEF ListOf, Listed
  <1>10. Catalog!Choose(t, v)
    BY <1>1, <1>4, <1>5, <1>7, <1>8, <1>9, OneAsks
       DEF Catalog!Choose, Catalog!Becomes, Catalog!Task, Catalog!list
  <1>11. CopyIsCurrent'
    BY <1>1, <1>4, CurrentStays DEF Saving
  <1> QED BY <1>3, <1>10, <1>11 DEF CatStep, Catalog!Next

(* The request is answered, and the lock given back. *)
LEMMA AnswerIsCatalog ==
  ASSUME CatInv, RInv', NEW t \in Thread, ApplyNothing(t) \/ EndSaveApplied(t)
  PROVE  CopyIsCurrent' /\ CatStep
  <1>1. /\ thread[t].at \in {"apply", "saveApplied"} /\ InRegistry(t)
        /\ (Saving(t) <=> thread[t].at = "saveApplied")
    BY DEF ApplyNothing, EndSaveApplied, At, InRegistry, Saving
  <1>2. /\ thread[t] \in ThreadState /\ \A u \in Thread \ {t} : ~Saving(u)
        /\ Book = thread[t].copy
    BY <1>1, Alone DEF CatInv, CopyIsCurrent
  <1>3. thread[t].copy \in Registry /\ SoundRegistry(thread[t].copy)
    BY <1>1 DEF CatInv, RInv, CopyAgrees, HasCopy
  <1>4. thread' = [thread EXCEPT ![t] = Idle] /\ registry' = thread[t].copy
    BY <1>1 DEF ApplyNothing, EndSaveApplied, At, CatInv, CopyIsCurrent
  <1>5. thread'[t].at = "idle" /\ \A u \in Thread \ {t} : Same(u)
    BY <1>4, IdleFits DEF Same, CatInv, RInv, TypeOK
  <1>6. Book' = Book
    BY <1>2, <1>4, <1>5, BookThen DEF Saving
  <1>7. ListOf(Book)' = ListOf(Book)
    BY <1>6 DEF ListOf, Listed
  <1>8. ListOf(Book) = [champion |-> thread[t].copy.champion,
                        challenger |-> thread[t].copy.challenger,
                        listed |-> Listed(thread[t].copy)]
    BY <1>2, <1>3, ListOfRegistry
  <1>9. TaskOf(thread'[t]) = Catalog!Free
    BY <1>5 DEF TaskOf, KindOf, Catalog!Free, Catalog!Task
  <1>10. TaskOf(thread[t]).kind = "served" \/ (Catalog!Vain(t) /\ ListOf(Book).listed # {})
    <2>1. CASE EndSaveApplied(t)
      BY <2>1 DEF EndSaveApplied, At, TaskOf, KindOf
    <2>2. CASE ApplyNothing(t)
      <3>1. ListOf(Book).listed # {}
        BY <1>3, <1>8 DEF SoundRegistry
      <3>2. thread[t].at = "apply" /\ thread[t].op \in {"look", "promote", "rollback"}
        BY <2>2 DEF ApplyNothing, At
      <3>3. TaskOf(thread[t]) = [kind |-> thread[t].op,
                 target |-> IF thread[t].op = "look" THEN None ELSE thread[t].target]
        BY <3>2 DEF TaskOf, KindOf
      <3>4. thread[t].op = "promote" => thread[t].target # None
        BY DEF CatInv, RInv, TargetFits
      <3>5. RollbackTarget(thread[t].copy) = None
              => Listed(thread[t].copy) \subseteq {thread[t].copy.champion}
        BY <1>3, RollbackChooses
      <3>6. Catalog!Vain(t)
        BY <1>8, <2>2, <3>3, <3>4, <3>5 DEF ApplyNothing, Catalog!Vain
      <3> QED BY <3>1, <3>6
    <2> QED BY <2>1, <2>2
  <1>11. Catalog!Answer(t)
    BY <1>5, <1>7, <1>9, <1>10, OneAsks DEF Catalog!Answer, Catalog!Becomes, Catalog!list
  <1>12. CopyIsCurrent'
    BY <1>1, <1>5, CurrentStays DEF Saving
  <1> QED BY <1>11, <1>12 DEF CatStep, Catalog!Next

-----------------------------------------------------------------------------
(* The process dies, perhaps with a half-written list. *)
LEMMA CrashIsCatalog ==
  ASSUME CatInv, RInv', Crash
  PROVE  CopyIsCurrent' /\ CatStep
  <1>1. /\ thread' = [t \in Thread |-> Idle] /\ platformLock' = None /\ registry' = registry
    BY DEF Crash
  <1>2. \A t \in Thread : thread'[t].at = "idle"
    BY <1>1, IdleFits
  <1>3. [t \in Thread |-> TaskOf(thread'[t])] = [t \in Thread |-> Catalog!Free]
    BY <1>2 DEF TaskOf, KindOf, Catalog!Free, Catalog!Task
  <1>4. Book' = registry
    BY <1>1 DEF Book, Writing
  <1>5. Book = registry \/ registry = Torn
    BY BookIs DEF CatInv, CopyIsCurrent
  <1>6. \/ ListOf(Book)' = ListOf(Book)
        \/ ListOf(Book)' = [champion |-> None, challenger |-> None, listed |-> {}]
    BY <1>4, <1>5 DEF ListOf, Listed
  <1>7. Catalog!Die
    BY <1>3, <1>6 DEF Catalog!Die, Catalog!list
  <1>8. CopyIsCurrent'
    BY <1>2 DEF CopyIsCurrent, Saving
  <1> QED BY <1>7, <1>8 DEF CatStep, Catalog!Next

LEMMA RestIsCatalog ==
  ASSUME CatInv, UNCHANGED <<registry, platformLock, thread>>
  PROVE  CopyIsCurrent' /\ CatStep
  <1>1. Book' = Book
    BY DEF Book, Writing
  <1>2. UNCHANGED Catalog!catalogVars
    BY <1>1 DEF Catalog!catalogVars, ListOf, Listed, TaskOf, KindOf
  <1>3. CopyIsCurrent'
    BY DEF CatInv, CopyIsCurrent, Saving, Listed
  <1> QED BY <1>2, <1>3 DEF CatStep

LEMMA EveryStepIsCatalog ==
  ASSUME CatInv, RInv', [Next]_vars
  PROVE  CopyIsCurrent' /\ CatStep
  <1>1. CASE \E t \in Thread, op \in Operation, v \in Version \cup {None} : Begin(t, op, v)
    BY <1>1, BeginIsCatalog
  <1>2. ASSUME NEW t \in Thread, Serve(t) PROVE CopyIsCurrent' /\ CatStep
    BY <1>2, OutsideIsCatalog, BeginDumpIsCatalog, EnsureIsCatalog, EndSaveEnsuredIsCatalog,
       ApplyRegisterIsCatalog, ApplyPromoteIsCatalog, ApplyRollbackIsCatalog,
       AnswerIsCatalog DEF Serve
  <1>3. CASE Crash
    BY <1>3, CrashIsCatalog
  <1>4. CASE (\E v \in Version : Start(v)) \/ StartDies \/ UNCHANGED vars
    BY <1>4, RestIsCatalog DEF Start, StartDies, vars
  <1> QED BY <1>1, <1>2, <1>3, <1>4 DEF Next

LEMMA CatalogAlways == Spec => []CatInv
  <1>1. Init => CopyIsCurrent
    BY IdleFits DEF Init, CopyIsCurrent, Saving
  <1>2. CatInv /\ RInv' /\ [Next]_vars => CopyIsCurrent'
    BY EveryStepIsCatalog
  <1>3. RInv /\ LocksAreUsed /\ CopyIsCurrent <=> CatInv
    BY DEF CatInv
  <1> QED BY <1>1, <1>2, <1>3, RegistryInvariant, LocksAlwaysUsed, PTL DEF Spec

(* platform_service: for any versions and any number of threads, every     *)
(* training, promotion and rollback takes effect once, at one moment       *)
(* between being asked and being answered, and is turned down only if it   *)
(* could have none; a crash loses the list or leaves it as it is.          *)
THEOREM RegistryImplementsCatalog == Spec => ImplementsCatalog
  <1>1. Init => Catalog!Init
    <2> SUFFICES ASSUME Init PROVE Catalog!Init
      OBVIOUS
    <2>1. ListOf(Book) = [champion |-> None, challenger |-> None, listed |-> {}]
      BY DEF Init, Book, Writing, ListOf
    <2>2. \A t \in Thread : TaskOf(thread[t]) = Catalog!Free
      BY IdleFits DEF Init, TaskOf, KindOf, Catalog!Free, Catalog!Task
    <2> QED BY <2>1, <2>2 DEF Catalog!Init
  <1>2. CatInv /\ RInv' /\ [Next]_vars => [Catalog!Next]_(Catalog!catalogVars)
    BY EveryStepIsCatalog DEF CatStep
  <1> QED BY <1>1, <1>2, CatalogAlways, RegistryInvariant, PTL
          DEF Spec, ImplementsCatalog, Catalog!Spec
=============================================================================
