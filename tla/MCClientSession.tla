-------------------------- MODULE MCClientSession --------------------------
EXTENDS ClientSession, TLC

(* Every id is interchangeable with the others of its kind.                *)
Symmetry == Permutations(Tab) \cup Permutations(Call) \cup Permutations(Job)
              \cup Permutations(Session) \cup Permutations(Grant)

(* Bounds: behaviours with one kind of disturbance at a time, and, unless   *)
(* it is a logout whose answer is lost, with two grants once it has come:   *)
(* enough for a refresh or a new login after it.                            *)
OneDisturbance == Cardinality(trouble) <= 1
GrantsOut == {g \in Grant : family[g] # None}
FewGrants == trouble \subseteq {"logout"} \/ Cardinality(GrantsOut) <= 2
=============================================================================
