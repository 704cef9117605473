--------------------------- MODULE CredentialChain ---------------------------
(***************************************************************************)
(* What the session and refresh-token services together promise a client,  *)
(* with no requests, documents or database writes in sight.  A session     *)
(* accepts one credential at a time.  The accepted credential is replaced  *)
(* only while the session is active and only after it was redeemed, and a  *)
(* credential is redeemed at most once; a revoked session is never active  *)
(* again and its credential never changes again.                           *)
(***************************************************************************)
CONSTANTS
  Session,   \* the sessions a user may open
  Grant,     \* the credentials (access token and refresh token, issued as a pair)
  None       \* "no credential"

VARIABLES
  phase,     \* phase[s]: "absent", "active" or "revoked"
  accepted,  \* accepted[s]: the credential session s honours
  spent      \* the credentials already redeemed for a successor

chainVars == <<phase, accepted, spent>>

(* A credential that was never accepted and never redeemed. *)
Unseen(g) == g \notin spent /\ \A s \in Session : accepted[s] # g

Init ==
  /\ phase = [s \in Session |-> "absent"]
  /\ accepted = [s \in Session |-> None]
  /\ spent = {}

Open(s, g) ==
  /\ phase[s] = "absent"
  /\ Unseen(g)
  /\ phase' = [phase EXCEPT ![s] = "active"]
  /\ accepted' = [accepted EXCEPT ![s] = g]
  /\ UNCHANGED spent

Redeem(s) ==
  /\ accepted[s] # None
  /\ accepted[s] \notin spent
  /\ spent' = spent \cup {accepted[s]}
  /\ UNCHANGED <<phase, accepted>>

Renew(s, g) ==
  /\ phase[s] = "active"
  /\ accepted[s] \in spent
  /\ Unseen(g)
  /\ accepted' = [accepted EXCEPT ![s] = g]
  /\ UNCHANGED <<phase, spent>>

(* One revocation may close several sessions at once. *)
Close(S) ==
  /\ \A s \in S : phase[s] = "active"
  /\ phase' = [s \in Session |-> IF s \in S THEN "revoked" ELSE phase[s]]
  /\ UNCHANGED <<accepted, spent>>

Next ==
  \/ \E s \in Session, g \in Grant : Open(s, g) \/ Renew(s, g)
  \/ \E s \in Session : Redeem(s)
  \/ \E S \in SUBSET Session : Close(S)

Spec == Init /\ [][Next]_chainVars
=============================================================================
