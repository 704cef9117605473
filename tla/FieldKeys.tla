------------------------------ MODULE FieldKeys ------------------------------
(***************************************************************************)
(* Fields that are stored encrypted (encryptionService) and looked up by a *)
(* keyed hash (blindIndex), while the key version moves with the clock     *)
(* (KEY_ROTATION_INTERVAL) and an operator restarts the backend with       *)
(* another KEY_VERSION, interval or master secret (keyManager).            *)
(*                                                                         *)
(* A ciphertext is its layers, outermost first, each the version it names  *)
(* and the secret its key was derived from; a plain value has none.        *)
(* Decrypting with another key fails, and the query that found the         *)
(* document with it.                                                       *)
(***************************************************************************)
EXTENDS Naturals, Sequences

CONSTANTS
  Field,        \* encrypted fields of documents
  BaseVersion,  \* values of KEY_VERSION
  MaxTime,      \* bound on the clock, in rotation intervals
  MaxSecret,    \* bound on the master secrets
  None          \* absent value

VARIABLES
  clock,   \* rotation intervals passed
  base,    \* KEY_VERSION
  timed,   \* KEY_ROTATION_INTERVAL is set
  master,  \* MASTER_ENCRYPTION_KEY
  keys,    \* MASTER_ENCRYPTION_KEYS; 0: no entry
  field,   \* what the documents hold
  index,   \* the secret the field's blind index was made with
  held     \* a ciphertext a handler has in hand and not yet written

configVars == <<base, timed, master, keys>>
vars == <<clock, configVars, field, index, held>>

(* The hash takes its key from a version of its own, which no clock moves. *)
BlindIndex == <<"blind-index", None>>
Version == BaseVersion \X (0 .. MaxTime \cup {None}) \cup {BlindIndex}
Secret == 1 .. MaxSecret
Layer == [version : Version, secret : Secret]
Value == {<<>>} \cup {<<l>> : l \in Layer}

TypeOK ==
  /\ clock \in 0 .. MaxTime
  /\ base \in BaseVersion /\ timed \in BOOLEAN /\ master \in Secret
  /\ keys \in [Version -> Secret \cup {0}]
  /\ field \in [Field -> Value \cup {None}]
  /\ index \in [Field -> Secret \cup {None}]
  /\ held \in [Field -> Value \cup {None}]

Init ==
  /\ clock = 0
  /\ base \in BaseVersion /\ timed \in BOOLEAN /\ master = 1
  /\ keys = [v \in Version |-> 0]
  /\ field = [f \in Field |-> None]
  /\ index = [f \in Field |-> None]
  /\ held = [f \in Field |-> None]

-----------------------------------------------------------------------------
(* keyManager *)

(* getActiveKeyVersion *)
ActiveVersion == <<base, IF timed THEN clock ELSE None>>

(* Variant for mutation: the configured keys of old versions are not read. *)
SecretOfMaster(v) == master

(* getKeyForVersion: the entry of that very version, else the master. *)
SecretOf(v) == IF keys[v] # 0 THEN keys[v] ELSE master

(* encryptionService *)

Sealed == <<[version |-> ActiveVersion, secret |-> SecretOf(ActiveVersion)]>>

(* decryptString; the tag of the cipher tells a wrong key. *)
Opens(x) == x = <<>> \/ SecretOf(Head(x).version) = Head(x).secret

(* encryptString: what is encrypted already is left as it is, or encrypted *)
(* anew if the active version is another by now.                           *)
Encrypted(x) ==
  IF x # <<>> /\ Head(x).version = ActiveVersion THEN x ELSE Sealed

-----------------------------------------------------------------------------
(* The hooks of encryptedFieldsPlugin on a plain value, as created, or as  *)
(* read and written back where it is a field of the document itself, and   *)
(* the blind index of the value.                                           *)
Write(f) ==
  /\ field[f] # None => Opens(field[f])
  /\ field' = [field EXCEPT ![f] = Encrypted(<<>>)]
  /\ index' = [index EXCEPT ![f] = SecretOf(BlindIndex)]
  /\ UNCHANGED <<clock, configVars, held>>

(* encryptSecret: the service encrypts the value itself ... *)
Prepare(f) ==
  /\ held[f] = None
  /\ held' = [held EXCEPT ![f] = Encrypted(<<>>)]
  /\ UNCHANGED <<clock, configVars, field, index>>

(* The hook that decrypts what a query returned looks for own properties,  *)
(* and the fields of a subdocument in an array are none: a handler that    *)
(* copies such a list (mergeKnownIp) has the ciphertext as it is stored ... *)
Copy(f) ==
  /\ held[f] = None /\ field[f] # None
  /\ held' = [held EXCEPT ![f] = field[f]]
  /\ UNCHANGED <<clock, configVars, field, index>>

(* ... and the hook of the update meets a value that is encrypted. *)
Save(f) ==
  /\ held[f] # None
  /\ Opens(held[f])
  /\ field' = [field EXCEPT ![f] = Encrypted(held[f])]
  /\ held' = [held EXCEPT ![f] = None]
  /\ UNCHANGED <<clock, configVars, index>>

Tick ==
  /\ clock < MaxTime
  /\ clock' = clock + 1
  /\ UNCHANGED <<configVars, field, index, held>>

-----------------------------------------------------------------------------
(* The operator. *)

(* Versions something is stored under, and the one of the hash. *)
InUse == {field[f][1].version : f \in {g \in Field : field[g] # None}} \cup {BlindIndex}

(* The backend is restarted with another version, or with the interval set *)
(* or unset.                                                               *)
Reconfigure(b, t) ==
  /\ base' = b /\ timed' = t
  /\ held' = [f \in Field |-> None]
  /\ UNCHANGED <<clock, master, keys, field, index>>

(* The master secret is replaced; the old one is kept for every version in *)
(* use, which is what MASTER_ENCRYPTION_KEYS is for.                       *)
ReplaceMaster ==
  /\ master < MaxSecret
  /\ master' = master + 1
  /\ keys' = [v \in Version |-> IF v \in InUse THEN SecretOf(v) ELSE keys[v]]
  /\ held' = [f \in Field |-> None]
  /\ UNCHANGED <<clock, base, timed, field, index>>

Next ==
  \/ \E f \in Field : Write(f) \/ Prepare(f) \/ Copy(f) \/ Save(f)
  \/ Tick
  \/ \E b \in BaseVersion, t \in BOOLEAN : Reconfigure(b, t)
  \/ ReplaceMaster

Spec == Init /\ [][Next]_vars

-----------------------------------------------------------------------------
(* Properties. *)

(* Whatever versions, intervals and secrets have followed one another, in  *)
(* the middle of a handler too, what is stored is encrypted once, with a   *)
(* key that can still be derived, and found by its blind index.            *)
FieldsStayReadable ==
  \A f \in Field :
    /\ field[f] # None => Len(field[f]) = 1 /\ Opens(field[f])
    /\ index[f] # None => index[f] = SecretOf(BlindIndex)
=============================================================================
