------------------------------ MODULE FraudDesk ------------------------------
(***************************************************************************)
(* The ends of a payment's way through the fraud desk, none of which waits *)
(* for another: the verdict (RiskEvidence), what the AI engine keeps of it *)
(* (InferenceStore), how the database keeps its identifier (FieldKeys) and *)
(* the page that shows it (DashboardFeed).  A behaviour is one of one of   *)
(* them, chosen at the start, while the others stay as they began; so the  *)
(* states are the sum of the specifications, not their product.            *)
(***************************************************************************)
EXTENDS RiskEvidence

CONSTANTS Payments, Limits, Customer, Number, Thread, Torn, MaxBreaks,
          Field, BaseVersion, MaxTime, MaxSecret

VARIABLES
  end,        \* the end that is looked at: "verdict", "record", "vault" or "page"
  status, stage, alert, stored, raised, joined, wire,
  part, limit, shown, loading, found, untold, during, raced,
  log, online, offline, lock, thread, breaks, logged, done, lasting,
  clock, base, timed, master, keys, field, index, held

feedVars == <<status, stage, alert, stored, raised, joined, wire,
              part, limit, shown, loading, found, untold, during, raced>>

recordVars == <<log, online, offline, lock, thread, breaks, logged, done, lasting>>
vaultVars == <<clock, base, timed, master, keys, field, index, held>>

Page == INSTANCE DashboardFeed
Kept == INSTANCE InferenceStore
Vault == INSTANCE FieldKeys

deskVars == <<end, vars, feedVars, recordVars, vaultVars>>

(* The absent value is nothing else, and a store written half is no store. *)
ASSUME DeskAssumption ==
  /\ None \notin Thread /\ None \notin Customer \X Number
  /\ Torn \notin Kept!Store
  /\ Limits \subseteq Nat
  /\ MaxBreaks \in Nat
  /\ MaxTime \in Nat /\ MaxSecret \in Nat \ {0}

DeskInit ==
  /\ Init /\ Page!Init /\ Kept!Init /\ Vault!Init
  /\ end \in {"verdict", "record", "vault", "page"}

OnVerdict == end = "verdict" /\ UNCHANGED <<end, feedVars, recordVars, vaultVars>>
OnRecord == end = "record" /\ UNCHANGED <<end, vars, feedVars, vaultVars>>
OnVault == end = "vault" /\ UNCHANGED <<end, vars, feedVars, recordVars>>
OnPage == end = "page" /\ UNCHANGED <<end, vars, recordVars, vaultVars>>

DeskNext ==
  \/ OnVerdict /\ Next
  \/ \E t \in Thread :
       \/ \E r \in Kept!Record : OnRecord /\ Kept!Score(t, r)
       \/ OnRecord /\ Kept!Lock(t)
       \/ OnRecord /\ Kept!AppendLog(t)
       \/ OnRecord /\ Kept!OpenOnline(t)
       \/ OnRecord /\ Kept!SaveOnline(t)
       \/ OnRecord /\ Kept!AppendOffline(t)
       \/ OnRecord /\ Kept!RecordFails(t)
  \/ OnRecord /\ Kept!Crash
  \/ \E f \in Field :
       \/ OnVault /\ Vault!Write(f)
       \/ OnVault /\ Vault!Prepare(f)
       \/ OnVault /\ Vault!Copy(f)
       \/ OnVault /\ Vault!Save(f)
  \/ OnVault /\ Vault!Tick
  \/ \E b \in BaseVersion, t \in BOOLEAN : OnVault /\ Vault!Reconfigure(b, t)
  \/ OnVault /\ Vault!ReplaceMaster
  \/ \E p \in Payments :
       \/ OnPage /\ Page!Store(p)
       \/ OnPage /\ Page!Raise(p)
       \/ OnPage /\ Page!Announce(p)
       \/ OnPage /\ Page!HandlerFails(p)
       \/ OnPage /\ Page!Review(p)
  \/ OnPage /\ Page!Join
  \/ OnPage /\ Page!Drop
  \/ OnPage /\ Page!Deliver
  \/ OnPage /\ Page!Refresh
  \/ OnPage /\ Page!Query
  \/ OnPage /\ Page!ShowBundle
  \/ OnPage /\ Page!BundleFails

DeskSpec == DeskInit /\ [][DeskNext]_deskVars

-----------------------------------------------------------------------------
(* Properties. *)

(* The types of all ends, with the rule score within 0 .. 100 and the      *)
(* lists of the page within their limit.                                   *)
DeskTypeOK ==
  /\ end = "verdict" => TypeOK
  /\ end = "record" => Kept!TypeOK
  /\ end = "vault" => Vault!TypeOK
  /\ end = "page" => Page!TypeOK

(* DashboardFeed: no payment is shown twice, none the page was told of is  *)
(* missing.                                                                *)
SuspicionIsShownOnce == Page!SuspicionIsShownOnce

(* DashboardFeed: the counters are wrong only by what explains it.         *)
CountersDriftOnlyByRaces == Page!CountersDriftOnlyByRaces

(* DashboardFeed: a blocked payment is not left as merely suspicious.      *)
BlockedIsSaid == Page!BlockedIsSaid

(* InferenceStore: a write that breaks off costs one record at most. *)
RecordsAreKept == Kept!RecordsAreKept

(* InferenceStore: the online store knows the latest record of everybody. *)
OnlineIsLatest == Kept!OnlineIsLatest

(* FieldKeys: what is stored encrypted can be read and found.              *)
FieldsStayReadable == Vault!FieldsStayReadable
=============================================================================
