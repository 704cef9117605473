----------------------------- MODULE ModelCatalog -----------------------------
(***************************************************************************)
(* What the model registry promises those who ask it, without locks, files *)
(* and steps: every request takes effect at once, at one moment between    *)
(* being asked and being answered, and as if the others did not exist.  A  *)
(* version is never struck off the list; the champion is one of the list   *)
(* and changes only for a promotion or a rollback that asks for it; a      *)
(* request is turned down only if it is for a version that is not there.   *)
(* A process that dies may lose the whole list, but never a part of it.    *)
(***************************************************************************)
CONSTANTS
  Version,  \* model versions
  Thread,   \* those who ask
  None      \* absent value

VARIABLES
  champion,    \* the champion; None while there is no list
  challenger,  \* the version nominated, if any
  listed,      \* the versions known
  task         \* task[t]: what t asks for, or "served"

catalogVars == <<champion, challenger, listed, task>>
list == <<champion, challenger, listed>>

Kind == {"look", "train", "promote", "rollback"}
Task(kind, v) == [kind |-> kind, target |-> v]
Free == Task("idle", None)
Becomes(t, to) == task' = [task EXCEPT ![t] = to]

Init ==
  /\ champion = None /\ challenger = None /\ listed = {}
  /\ task = [t \in Thread |-> Free]

Ask(t, kind, v) ==
  /\ task[t] = Free
  /\ kind \in {"look", "train"} => v = None
  /\ kind = "promote" => v # None
  /\ Becomes(t, Task(kind, v))
  /\ UNCHANGED list

(* Whoever asks for something finds a list, with the version in use on it. *)
Enter(t, v) ==
  /\ task[t].kind \in Kind
  /\ listed' = listed \cup {v}
  /\ champion' = IF listed = {} THEN v ELSE champion
  /\ UNCHANGED <<challenger, task>>

Nominate(t, v) ==
  /\ task[t].kind = "train" /\ v \in listed
  /\ challenger' = IF challenger = None THEN v ELSE challenger
  /\ Becomes(t, Task("served", None))
  /\ UNCHANGED <<champion, listed>>

(* A rollback without a target chooses any version but the champion. *)
Choose(t, v) ==
  /\ task[t].kind = "rollback" /\ v \in listed
  /\ IF task[t].target = None THEN v # champion ELSE v = task[t].target
  /\ Becomes(t, Task("promote", v))
  /\ UNCHANGED list

Crown(t) ==
  /\ task[t].kind = "promote" /\ task[t].target \in listed
  /\ champion' = task[t].target /\ challenger' = None
  /\ Becomes(t, Task("served", None))
  /\ UNCHANGED listed

(* There is nothing to do for it (a look), or nothing that could be done. *)
Vain(t) ==
  \/ task[t].kind = "look"
  \/ task[t].kind \in {"promote", "rollback"} /\ task[t].target \notin listed \cup {None}
  \/ task[t].kind = "rollback" /\ task[t].target = None /\ listed \subseteq {champion}

Answer(t) ==
  /\ task[t].kind = "served" \/ (Vain(t) /\ listed # {})
  /\ Becomes(t, Free)
  /\ UNCHANGED list

(* The process dies; what was asked is forgotten, and perhaps the list. *)
Die ==
  /\ task' = [t \in Thread |-> Free]
  /\ \/ UNCHANGED list
     \/ champion' = None /\ challenger' = None /\ listed' = {}

Next ==
  \/ \E t \in Thread, v \in Version \cup {None}, kind \in Kind : Ask(t, kind, v)
  \/ \E t \in Thread, v \in Version : Enter(t, v) \/ Nominate(t, v) \/ Choose(t, v)
  \/ \E t \in Thread : Crown(t) \/ Answer(t)
  \/ Die

Spec == Init /\ [][Next]_catalogVars
=============================================================================
